----------------------------- MODULE SingleUse -----------------------------
(***************************************************************************)
(* What an issuer promises about a ticket it hands out, whether that is a  *)
(* pre-authorized code or a c_nonce: it is accepted at most once, never    *)
(* after it has lapsed, and nothing brings a used or a lapsed one back.    *)
(* The stores of authorization.py and reference.py implement this machine; *)
(* what a ticket looks like in a store is left to them.                    *)
(***************************************************************************)
CONSTANT Ticket

VARIABLE phase

Phases == {"unissued", "live", "spent", "dead"}

Init == phase = [t \in Ticket |-> "unissued"]

(* A fresh ticket is handed out. One that nobody receives is born dead. *)
Issue(t) ==
    /\ phase[t] = "unissued"
    /\ \E p \in {"live", "dead"} : phase' = [phase EXCEPT ![t] = p]

(* The ticket is accepted. *)
Spend(t) ==
    /\ phase[t] = "live"
    /\ phase' = [phase EXCEPT ![t] = "spent"]

(* Time passes or memory is lost: any number of live tickets lapse at once. *)
Lapse(lapsed) ==
    /\ \A t \in lapsed : phase[t] = "live"
    /\ phase' = [t \in Ticket |-> IF t \in lapsed THEN "dead" ELSE phase[t]]

Next ==
    \/ \E t \in Ticket : Issue(t) \/ Spend(t)
    \/ \E lapsed \in SUBSET Ticket : Lapse(lapsed)

Spec == Init /\ [][Next]_phase
=============================================================================
