----------------------------- MODULE NonceStore -----------------------------
(***************************************************************************)
(* InMemoryNonceStore of reference.py: c_nonces with an expiry and single  *)
(* use. The methods are synchronous, so under one event loop each call is  *)
(* one step; each call sees one instant of the clock.                      *)
(*                                                                         *)
(* `held' is the dictionary `_issued' as a total function: None is an      *)
(* absent entry, anything else the expiry. The variables from `issuedAt'   *)
(* on are history. An operator named after a slip (SweepingTooLate, ...)   *)
(* is the mutant of the definition that follows it, used by no action.     *)
(***************************************************************************)
EXTENDS Integers

CONSTANTS Nonce, Ttl, None,
          MaxTime        \* bound: the clock stops here

ASSUME TtlAssumption == Ttl \in Nat /\ MaxTime \in Nat
ASSUME NoneAssumption == None \notin Nat /\ None \notin Nonce

VARIABLES
    held,           \* _issued: the expiry of every nonce in the store
    now,            \* the clock
    issuedAt,       \* when each nonce was issued
    lastIssue,      \* when issue() was last called
    uses,           \* how often each nonce was accepted
    usedAt,         \* when it was last accepted
    refused         \* the nonces consume() refused at least once

history == <<issuedAt, lastIssue, uses, usedAt, refused>>
vars == <<held, now, history>>

TypeOK ==
    /\ held \in [Nonce -> Nat \cup {None}]
    /\ now \in Nat
    /\ issuedAt \in [Nonce -> Nat \cup {None}]
    /\ lastIssue \in Nat
    /\ uses \in [Nonce -> Nat]
    /\ usedAt \in [Nonce -> Nat \cup {None}]
    /\ refused \subseteq Nonce

Init ==
    /\ held = [n \in Nonce |-> None]
    /\ now = 0
    /\ issuedAt = [n \in Nonce |-> None]
    /\ lastIssue = 0
    /\ uses = [n \in Nonce |-> 0]
    /\ usedAt = [n \in Nonce |-> None]
    /\ refused = {}

(* token_urlsafe: never drawn before, and nobody guessed it. *)
Fresh(n) == issuedAt[n] = None /\ n \notin refused

(* is_current() *)
CurrentForever(n) == held[n] # None
IsCurrent(n) == held[n] # None /\ held[n] > now

(* Dictionary `del'. *)
WithoutForgetting(n) == held
Without(n) == [held EXCEPT ![n] = None]

(* _forget_expired() *)
SweepingTooEarly(n) == held[n] # None /\ held[n] <= now + 1
SweepingTooLate(n) == held[n] # None /\ held[n] < now
Swept(n) == held[n] # None /\ held[n] <= now

ExpiryReversed == now - Ttl
Expiry == now + Ttl

(* issue(): sweeps, then stores the new nonce. *)
Issue(n) ==
    /\ Fresh(n)
    /\ held' = [m \in Nonce |->
                   IF m = n THEN Expiry ELSE IF Swept(m) THEN None ELSE held[m]]
    /\ issuedAt' = [issuedAt EXCEPT ![n] = now]
    /\ lastIssue' = now
    /\ UNCHANGED <<now, uses, usedAt, refused>>

(* consume() accepting. *)
Consume(n) ==
    /\ IsCurrent(n)
    /\ held' = Without(n)
    /\ uses' = [uses EXCEPT ![n] = @ + 1]
    /\ usedAt' = [usedAt EXCEPT ![n] = now]
    /\ UNCHANGED <<now, issuedAt, lastIssue, refused>>

(* consume() refusing: unlike redeem(), it does not drop an expired entry. *)
Refuse(n) ==
    /\ ~IsCurrent(n)
    /\ refused' = refused \cup {n}
    /\ UNCHANGED <<held, now, issuedAt, lastIssue, uses, usedAt>>

Tick == now < MaxTime /\ now' = now + 1 /\ UNCHANGED <<held, history>>

(* The default clock is time.time, which an adjustment can set back. *)
StepBack == now > 0 /\ now' = now - 1 /\ UNCHANGED <<held, history>>

(* Nothing survives the process. *)
Restart == held' = [n \in Nonce |-> None] /\ UNCHANGED <<now, history>>

Next ==
    \/ \E n \in Nonce : Issue(n) \/ Consume(n) \/ Refuse(n)
    \/ Tick \/ Restart

Spec == Init /\ [][Next]_vars

(* The same store on a clock that can be set back. *)
WallSpec == Init /\ [][Next \/ StepBack]_vars

----------------------------------------------------------------------------
(* "Accept the nonce once, and never again", whatever the clock does: a    *)
(* proof cannot be presented twice, not even across an expiry or restart.  *)
AcceptedOnce == \A n \in Nonce : uses[n] <= 1

(* The expiry bounds how long a proof stays usable: consume() accepts a    *)
(* nonce only less than Ttl after issue() returned it, by the clock.       *)
AcceptedWithinTtl ==
    \A n \in Nonce : uses[n] > 0 =>
        issuedAt[n] # None /\ usedAt[n] < issuedAt[n] + Ttl

(* Both together are what a proof over the nonce may rely on.              *)
AcceptedOnceInTime == AcceptedOnce /\ AcceptedWithinTtl

(* issue() keeps the store from growing without bound: all it holds was    *)
(* still current when issue() last ran, or came out of that very call.     *)
HeldWasCurrentAtLastIssue ==
    \A n \in Nonce : held[n] # None => held[n] > lastIssue \/ issuedAt[n] = lastIssue

(* The sweep and the refusals take nothing from a Wallet that is in time:  *)
(* while the process lives, a current nonce leaves only by being accepted. *)
CurrentLeavesOnlyByUse ==
    [][\A n \in Nonce :
         held[n] # None /\ held[n] > now /\ held'[n] = None /\ ~Restart
         => uses'[n] = uses[n] + 1]_vars

(* How the life of a nonce appears to SingleUse. *)
NoncePhase(n) ==
    IF issuedAt[n] = None THEN "unissued"
    ELSE IF uses[n] > 0 THEN "spent"
    ELSE IF held[n] # None /\ held[n] > now THEN "live" ELSE "dead"

Abstract == INSTANCE SingleUse
    WITH Ticket <- Nonce, phase <- [n \in Nonce |-> NoncePhase(n)]

(* On a monotone clock the store implements SingleUse: in particular a     *)
(* nonce that was refused is never accepted afterwards.                    *)
NoncesAreSingleUse == Abstract!Spec
=============================================================================
