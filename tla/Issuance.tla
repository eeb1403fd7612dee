------------------------------ MODULE Issuance ------------------------------
(***************************************************************************)
(* A whole issuer, put together as tests/test_end_to_end.py does: the      *)
(* authorization server and the nonce store on one clock, and between them *)
(* the glue that decides whether a credential request is served. The glue  *)
(* runs undisturbed up to its await on the adapter, which signs; while it  *)
(* waits, other requests are served and time passes.                       *)
(*                                                                         *)
(* Whether the key proof itself is sound (validate_jwt_proof) is a flag of *)
(* the request here. A session is one HTTP request; a retried request is a *)
(* second session with the same token and the same proof. An operator      *)
(* named after a slip (PeekNonce) is the mutant of the definition that     *)
(* follows it, used by no action.                                          *)
(***************************************************************************)
EXTENDS Naturals

CONSTANTS Subject, Code, Token, Nonce, Key, Session,
          CodeTtl, TokenTtl, NonceTtl,
          MaxTime,       \* bound: the clock stops here
          None

ASSUME TtlAssumption ==
    CodeTtl \in Nat /\ TokenTtl \in Nat /\ NonceTtl \in Nat /\ MaxTime \in Nat

VARIABLES
    codes, tokens, offers, redeemed, refusedCodes, refusedTokens, answer,
    held, issuedAt, lastIssue, uses, usedAt, refused,
    now,
    session          \* what became of each credential request

authVars == <<codes, tokens, offers, redeemed, refusedCodes, refusedTokens, answer>>
nonceVars == <<held, issuedAt, lastIssue, uses, usedAt, refused>>
vars == <<authVars, nonceVars, now, session>>

Auth == INSTANCE AuthorizationServer
    WITH Configuration <- {"diploma"}, TxCode <- {}, NonAscii <- {}, Client <- {},
         AllowAnonymous <- TRUE

Nonces == INSTANCE NonceStore WITH Ttl <- NonceTtl

ASSUME NoneAssumption == Auth!NoneAssumption /\ Nonces!NoneAssumption /\ None \notin Subject

(* A key proof: the nonce in its payload, if any, the key in its header,   *)
(* and whether everything validate_jwt_proof asks for is in order.         *)
Proof == [nonce : Nonce \cup {None}, key : Key, sound : BOOLEAN]

NoProof == [nonce |-> None, key |-> None, sound |-> FALSE]

Outcomes == {"none", "signing", "issued", "credential_request_denied", "invalid_proof",
             "invalid_nonce", "server_error", "lost"}

Waiting == [outcome |-> "none", token |-> None, proof |-> NoProof,
            subject |-> None, at |-> 0]

TypeOK ==
    /\ Auth!TypeOK
    /\ Nonces!TypeOK
    /\ session \in [Session -> [outcome : Outcomes, token : Token \cup {None},
                                proof : Proof \cup {NoProof},
                                subject : Subject \cup {None}, at : Nat]]

Init == Auth!Init /\ Nonces!Init /\ session = [w \in Session |-> Waiting]

----------------------------------------------------------------------------
(* The issuer makes an offer; the Wallet redeems the code it carries.      *)
Offer(code, subject) ==
    /\ Auth!Offer(code, subject, {"diploma"}, None, TRUE)
    /\ UNCHANGED <<nonceVars, session>>

TokenRequest(code) ==
    [grantType |-> "pre-authorized_code", client |-> None, code |-> code, txCode |-> None]

Redeem(code) ==
    /\ \/ Auth!RefuseCode(TokenRequest(code))
       \/ \E token \in Token : Auth!Exchange(TokenRequest(code), token)
    /\ UNCHANGED <<nonceVars, session>>

(* create_nonce() *)
CreateNonce(nonce) == Nonces!Issue(nonce) /\ UNCHANGED <<authVars, session>>

----------------------------------------------------------------------------
(* issue_credential(), up to the await.                                    *)

Conclude(w, token, proof, subject, outcome) ==
    /\ session[w].outcome = "none"
    /\ session' = [session EXCEPT ![w] =
                     [outcome |-> outcome, token |-> token, proof |-> proof,
                      subject |-> subject, at |-> now]]

(* grant_for() *)
GrantEvenIfExpired(token) == tokens[token] # None /\ UNCHANGED <<authVars, now>>
Granted(token) == Auth!Honour(token)

(* nonces.consume(), rather than is_current() *)
PeekNonce(nonce) == Nonces!IsCurrent(nonce) /\ UNCHANGED <<nonceVars, now>>
SpendNonce(nonce) == Nonces!Consume(nonce)

DenyTokenUnregistered(w, token) ==
    /\ Auth!Dismiss(token)
    /\ Conclude(w, token, NoProof, None, "invalid_token")
    /\ UNCHANGED nonceVars

DenyToken(w, token) ==
    /\ Auth!Dismiss(token)
    /\ Conclude(w, token, NoProof, None, "credential_request_denied")
    /\ UNCHANGED nonceVars

(* No proof at all, or one that does not even split into JWT parts, which  *)
(* _current_nonce does not catch.                                          *)
RefuseWithoutProof(w, token) ==
    /\ Granted(token)
    /\ \E outcome \in {"invalid_proof", "server_error"} :
         Conclude(w, token, NoProof, None, outcome)
    /\ UNCHANGED nonceVars

RefuseNonce(w, token, proof) ==
    /\ Granted(token)
    /\ IF proof.nonce = None THEN UNCHANGED nonceVars ELSE Nonces!Refuse(proof.nonce)
    /\ Conclude(w, token, proof, None, "invalid_nonce")

(* The nonce is spent before the proof is validated, which may also raise  *)
(* an error that is not a CredentialRequestError (KeyProof).               *)
RefuseProof(w, token, proof) ==
    /\ proof.nonce # None /\ ~proof.sound
    /\ Granted(token) /\ SpendNonce(proof.nonce)
    /\ \E outcome \in {"invalid_proof", "server_error"} :
         Conclude(w, token, proof, None, outcome)

StartSigning(w, token, proof) ==
    /\ proof.nonce # None /\ proof.sound
    /\ Granted(token) /\ SpendNonce(proof.nonce)
    /\ Conclude(w, token, proof, tokens[token].subject, "signing")

(* The adapter returns, or raises. *)
FinishSigning(w) ==
    /\ session[w].outcome = "signing"
    /\ \E outcome \in {"issued", "server_error"} :
         session' = [session EXCEPT ![w].outcome = outcome]
    /\ UNCHANGED <<authVars, nonceVars, now>>

----------------------------------------------------------------------------
Tick == Auth!Tick /\ Nonces!Tick /\ UNCHANGED session

(* The stores read the same clock, and it may be set back.                 *)
StepBack == Auth!StepBack /\ Nonces!StepBack /\ UNCHANGED session

(* All state is in the process, and the requests in flight are cut off.    *)
Restart ==
    /\ Auth!Restart /\ Nonces!Restart
    /\ session' = [w \in Session |-> IF session[w].outcome = "signing"
                                     THEN [session[w] EXCEPT !.outcome = "lost"]
                                     ELSE session[w]]

Next ==
    \/ \E code \in Code, subject \in Subject : Offer(code, subject)
    \/ \E code \in Code : Redeem(code)
    \/ \E nonce \in Nonce : CreateNonce(nonce)
    \/ \E w \in Session, token \in Token :
         \/ DenyToken(w, token) \/ RefuseWithoutProof(w, token)
         \/ \E proof \in Proof : \/ RefuseNonce(w, token, proof)
                                 \/ RefuseProof(w, token, proof)
                                 \/ StartSigning(w, token, proof)
    \/ \E w \in Session : FinishSigning(w)
    \/ Tick \/ Restart

Spec == Init /\ [][Next]_vars

(* The same issuer on a clock that can be set back. *)
WallSpec == Init /\ [][Next \/ StepBack]_vars

----------------------------------------------------------------------------
Issued(w) == session[w].outcome = "issued"

PastNonceCheck(w) ==
    session[w].proof.nonce # None /\ session[w].outcome # "invalid_nonce"

(* "A proof presented twice must not yield a second credential", however   *)
(* the requests that carry it overlap, and "a malformed proof also burns   *)
(* it": a nonce lets one request past the check, whoever's token it comes  *)
(* with, and no other, be that one answered, failed or cut off.            *)
NonceAdmitsOneRequest ==
    \A v, w \in Session :
        /\ PastNonceCheck(v) /\ PastNonceCheck(w)
        /\ session[v].proof.nonce = session[w].proof.nonce
        => v = w

(* Every credential can be traced back: its subject is the one some offer  *)
(* was made to, whose code was exchanged for the token presented; when the *)
(* request came in, token and nonce had been given out and not expired,    *)
(* however long the signature took after that.                             *)
CredentialIsTraceable ==
    \A w \in Session : Issued(w) =>
        LET exchange == redeemed[session[w].token]
            nonce == session[w].proof.nonce
        IN  /\ exchange # None
            /\ session[w].subject = offers[exchange.code].subject
            /\ session[w].at \in exchange.at .. exchange.at + TokenTtl - 1
            /\ session[w].at \in issuedAt[nonce] .. issuedAt[nonce] + NonceTtl - 1

(* How the issuer appears to Entitlement.                                  *)
Promise == INSTANCE Entitlement
    WITH Request <- Session,
         offeredTo <- [c \in Code |-> IF offers[c] = None THEN None ELSE offers[c].subject],
         boughtWith <- [t \in Token |-> IF redeemed[t] = None THEN None ELSE redeemed[t].code],
         handedOut <- {n \in Nonce : issuedAt[n] # None},
         credential <- [w \in Session |->
             IF Issued(w) THEN [subject |-> session[w].subject, token |-> session[w].token,
                                nonce |-> session[w].proof.nonce]
             ELSE None]

(* Whatever the requests, the clock and the process do, the issuer gives   *)
(* out credentials as Entitlement does: at the moment one leaves, its      *)
(* subject is that of the offer behind the token, the code bought no other *)
(* token, and the nonce no other credential. Nothing given out is changed. *)
CredentialsAreEntitled == Promise!Spec

(* The stores keep their promises under the glue and on a common clock:    *)
(* codes and nonces are accepted once, and never after they were used, had *)
(* expired or were lost with the process.                                  *)
CodesAreSingleUse == Auth!CodesAreSingleUse
NoncesAreSingleUse == Nonces!NoncesAreSingleUse
=============================================================================
