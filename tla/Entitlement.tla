---------------------------- MODULE Entitlement ----------------------------
(***************************************************************************)
(* What an issuer promises about its credentials, seen from outside: who   *)
(* holds one was named in an offer, its code bought one token, and each    *)
(* credential cost a nonce that was handed out and paid for no other.      *)
(* Nothing here knows of stores, lifetimes, proofs or overlapping calls;   *)
(* tests/test_end_to_end.py puts the library together to keep this.        *)
(***************************************************************************)
CONSTANTS Subject, Code, Token, Nonce, Request, None

VARIABLES
    offeredTo,     \* whom each code was made for
    boughtWith,    \* the code each token was bought with
    handedOut,     \* the nonces handed out
    credential     \* the credential each request was answered with

vars == <<offeredTo, boughtWith, handedOut, credential>>

Init ==
    /\ offeredTo = [c \in Code |-> None]
    /\ boughtWith = [t \in Token |-> None]
    /\ handedOut = {}
    /\ credential = [r \in Request |-> None]

Offer(code, subject) ==
    /\ offeredTo[code] = None
    /\ offeredTo' = [offeredTo EXCEPT ![code] = subject]
    /\ UNCHANGED <<boughtWith, handedOut, credential>>

(* A code that was offered buys one token. *)
Buy(code, token) ==
    /\ offeredTo[code] # None
    /\ boughtWith[token] = None
    /\ \A t \in Token : boughtWith[t] # code
    /\ boughtWith' = [boughtWith EXCEPT ![token] = code]
    /\ UNCHANGED <<offeredTo, handedOut, credential>>

HandOut(nonce) ==
    /\ nonce \notin handedOut
    /\ handedOut' = handedOut \cup {nonce}
    /\ UNCHANGED <<offeredTo, boughtWith, credential>>

(* The subject is not the request's to choose: it is the offer's.          *)
Issue(request, token, nonce) ==
    /\ credential[request] = None
    /\ boughtWith[token] # None
    /\ nonce \in handedOut
    /\ \A r \in Request : credential[r] # None => credential[r].nonce # nonce
    /\ credential' = [credential EXCEPT ![request] =
                        [subject |-> offeredTo[boughtWith[token]],
                         token |-> token, nonce |-> nonce]]
    /\ UNCHANGED <<offeredTo, boughtWith, handedOut>>

Next ==
    \/ \E code \in Code, subject \in Subject : Offer(code, subject)
    \/ \E code \in Code, token \in Token : Buy(code, token)
    \/ \E nonce \in Nonce : HandOut(nonce)
    \/ \E request \in Request, token \in Token, nonce \in Nonce : Issue(request, token, nonce)

Spec == Init /\ [][Next]_vars
=============================================================================
