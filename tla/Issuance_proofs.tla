-------------------------- MODULE Issuance_proofs --------------------------
(***************************************************************************)
(* Proofs about Issuance, for any number of sessions, subjects, codes,     *)
(* tokens and nonces and for all lifetimes. What was proved of the two     *)
(* stores on their own carries over, because each step of the composition  *)
(* is one of theirs or leaves them alone; on top of that the invariant     *)
(* says of every session what it cost and whom it was for. Theorems about  *)
(* WallSpec hold on a clock that may be set back; that history precedes    *)
(* what refers to it needs a monotone one (OrderInv).                      *)
(***************************************************************************)
EXTENDS Issuance, TLAPS

Store == INSTANCE NonceStore_proofs WITH Ttl <- NonceTtl

Server == INSTANCE AuthorizationServer_proofs
    WITH Configuration <- {"diploma"}, TxCode <- {}, NonAscii <- {}, Client <- {},
         AllowAnonymous <- TRUE

----------------------------------------------------------------------------
(* The stores of Issuance are the ones those proofs are about.             *)
LEMMA StoreAssumptions == Store!TtlAssumption /\ Store!NoneAssumption
  BY TtlAssumption, NoneAssumption
  DEF Store!TtlAssumption, Store!NoneAssumption, Nonces!NoneAssumption

LEMMA ServerAssumptions ==
    Server!TtlAssumption /\ Server!NoneAssumption /\ Server!FlagAssumption
  BY TtlAssumption, NoneAssumption
  DEF Server!TtlAssumption, Server!NoneAssumption, Server!FlagAssumption, Server!Grant,
      Server!Offered, Server!Redeemed, Auth!NoneAssumption, Auth!Grant, Auth!Offered,
      Auth!Redeemed

LEMMA SameStore == /\ Nonces!Init <=> Store!Init
                   /\ Nonces!Next <=> Store!Next
                   /\ Nonces!StepBack <=> Store!StepBack
                   /\ UNCHANGED Nonces!vars <=> UNCHANGED Store!vars
                   /\ Nonces!TypeOK <=> Store!TypeOK
  BY DEF Nonces!Init, Store!Init, Nonces!vars, Store!vars, Nonces!TypeOK, Store!TypeOK,
     Nonces!Next, Store!Next, Nonces!Issue, Store!Issue, Nonces!Consume, Store!Consume,
     Nonces!Refuse, Store!Refuse, Nonces!Tick, Store!Tick, Nonces!Restart, Store!Restart,
     Nonces!StepBack, Store!StepBack,
     Nonces!history, Store!history, Nonces!Fresh, Store!Fresh, Nonces!IsCurrent,
     Store!IsCurrent, Nonces!Without, Store!Without, Nonces!Swept, Store!Swept,
     Nonces!Expiry, Store!Expiry

LEMMA SameServer == /\ Auth!Init <=> Server!Init
                    /\ Auth!Next <=> Server!Next
                    /\ Auth!StepBack <=> Server!StepBack
                    /\ UNCHANGED Auth!vars <=> UNCHANGED Server!vars
                    /\ Auth!TypeOK <=> Server!TypeOK
<1>1. Auth!Init <=> Server!Init
  BY DEF Auth!Init, Server!Init, Auth!NoAnswer, Server!NoAnswer
<1>2. (UNCHANGED Auth!vars <=> UNCHANGED Server!vars) /\ (Auth!TypeOK <=> Server!TypeOK)
  BY DEF Auth!vars, Server!vars, Auth!stores, Server!stores, Auth!history, Server!history,
     Auth!TypeOK, Server!TypeOK, Auth!Grant, Server!Grant, Auth!Offered, Server!Offered,
     Auth!Redeemed, Server!Redeemed, Auth!Answer, Server!Answer, Auth!Errors, Server!Errors
<1>3. Auth!Next <=> Server!Next
  BY DEF Auth!Next, Server!Next, Auth!Call, Server!Call, Auth!Tick, Server!Tick,
     Auth!Restart, Server!Restart, Auth!NoAnswer, Server!NoAnswer,
     Auth!Offer, Server!Offer, Auth!ValidOffer, Server!ValidOffer,
     Auth!FreshCode, Server!FreshCode, Auth!FreshToken, Server!FreshToken,
     Auth!Request, Server!Request, Auth!GrantTypes, Server!GrantTypes,
     Auth!RefuseRequest, Server!RefuseRequest, Auth!RefuseCode, Server!RefuseCode,
     Auth!RefuseTransactionCode, Server!RefuseTransactionCode,
     Auth!Exchange, Server!Exchange, Auth!Honour, Server!Honour,
     Auth!Dismiss, Server!Dismiss, Auth!Sendable, Server!Sendable,
     Auth!ValidRequest, Server!ValidRequest, Auth!Presentable, Server!Presentable,
     Auth!Supported, Server!Supported, Auth!Identified, Server!Identified,
     Auth!Holds, Server!Holds, Auth!Usable, Server!Usable, Auth!Expired, Server!Expired,
     Auth!Without, Server!Without, Auth!Renewed, Server!Renewed, Auth!Reply, Server!Reply,
     Auth!TransactionCodeError, Server!TransactionCodeError,
     Auth!stores, Server!stores, Auth!history, Server!history
<1>4. Auth!StepBack <=> Server!StepBack
  BY DEF Auth!StepBack, Server!StepBack, Auth!stores, Server!stores, Auth!history,
     Server!history
<1> QED BY <1>1, <1>2, <1>3, <1>4

----------------------------------------------------------------------------
(* Each step of the composition is a step of the nonce store or none of    *)
(* its business, and likewise for the authorization server.                *)
LEMMA StoreStep == [Next]_vars => [Nonces!Next]_Nonces!vars
<1> SUFFICES ASSUME Next PROVE Nonces!Next \/ UNCHANGED <<nonceVars, now>>
  BY DEF vars, nonceVars, Nonces!vars, Nonces!history
<1>1. ASSUME NEW n \in Nonce, CreateNonce(n) PROVE Nonces!Next
  BY <1>1 DEF CreateNonce, Nonces!Next
<1>2. ASSUME NEW code \in Code, NEW subject \in Subject, Offer(code, subject)
      PROVE  UNCHANGED <<nonceVars, now>>
  BY <1>2 DEF Offer, Auth!Offer
<1>3. ASSUME NEW code \in Code, Redeem(code) PROVE UNCHANGED <<nonceVars, now>>
  BY <1>3 DEF Redeem, Auth!RefuseCode, Auth!Exchange
<1>4. ASSUME NEW w \in Session, NEW token \in Token,
             DenyToken(w, token) \/ RefuseWithoutProof(w, token)
      PROVE  UNCHANGED <<nonceVars, now>>
  BY <1>4 DEF DenyToken, RefuseWithoutProof, Granted, Auth!Dismiss, Auth!Honour
<1>5. ASSUME NEW w \in Session, NEW token \in Token, NEW proof \in Proof,
             \/ RefuseNonce(w, token, proof) \/ RefuseProof(w, token, proof)
             \/ StartSigning(w, token, proof)
      PROVE  Nonces!Next \/ UNCHANGED <<nonceVars, now>>
  BY <1>5 DEF RefuseNonce, RefuseProof, StartSigning, Granted, SpendNonce, Proof,
     Nonces!Next, Auth!Honour
<1>6. ASSUME NEW w \in Session, FinishSigning(w) PROVE UNCHANGED <<nonceVars, now>>
  BY <1>6 DEF FinishSigning
<1>7. ASSUME Tick \/ Restart PROVE Nonces!Next
  BY <1>7 DEF Tick, Restart, Nonces!Next
<1> QED BY <1>1, <1>2, <1>3, <1>4, <1>5, <1>6, <1>7 DEF Next

LEMMA ServerStep == [Next]_vars => [Auth!Next]_Auth!vars
<1> SUFFICES ASSUME Next PROVE Auth!Next \/ UNCHANGED <<authVars, now>>
  BY DEF vars, authVars, Auth!vars, Auth!stores, Auth!history
<1>1. ASSUME NEW n \in Nonce, CreateNonce(n) PROVE UNCHANGED <<authVars, now>>
  BY <1>1 DEF CreateNonce, Nonces!Issue
<1>2. ASSUME NEW code \in Code, NEW subject \in Subject, Offer(code, subject) PROVE Auth!Call
  BY <1>2 DEF Offer, Auth!Call
<1>3. ASSUME NEW code \in Code, Redeem(code) PROVE Auth!Call
  <2>1. TokenRequest(code) \in Auth!Request
    BY DEF TokenRequest, Auth!Request, Auth!GrantTypes
  <2> QED BY <1>3, <2>1 DEF Redeem, Auth!Call
<1>4. ASSUME NEW w \in Session, NEW token \in Token,
             DenyToken(w, token) \/ RefuseWithoutProof(w, token)
      PROVE  Auth!Call
  BY <1>4 DEF DenyToken, RefuseWithoutProof, Granted, Auth!Call
<1>5. ASSUME NEW w \in Session, NEW token \in Token, NEW proof \in Proof,
             \/ RefuseNonce(w, token, proof) \/ RefuseProof(w, token, proof)
             \/ StartSigning(w, token, proof)
      PROVE  Auth!Call
  BY <1>5 DEF RefuseNonce, RefuseProof, StartSigning, Granted, Auth!Call
<1>6. ASSUME NEW w \in Session, FinishSigning(w) PROVE UNCHANGED <<authVars, now>>
  BY <1>6 DEF FinishSigning
<1>7. ASSUME Tick \/ Restart PROVE Auth!Next
  BY <1>7 DEF Tick, Restart, Auth!Next
<1> QED BY <1>1, <1>2, <1>3, <1>4, <1>5, <1>6, <1>7 DEF Next, Auth!Next

(* The clock is set back for both stores at once.                          *)
LEMMA StoreWallStep ==
    [Next \/ StepBack]_vars => [Nonces!Next \/ Nonces!StepBack]_Nonces!vars
  BY StoreStep DEF StepBack

LEMMA ServerWallStep == [Next \/ StepBack]_vars => [Auth!Next \/ Auth!StepBack]_Auth!vars
  BY ServerStep DEF StepBack

LEMMA SpecIsWallSpec == Spec => WallSpec
<1>1. [Next]_vars => [Next \/ StepBack]_vars
  OBVIOUS
<1> QED BY <1>1, PTL DEF Spec, WallSpec

(* So the composition behaves, to each store, as that store's own          *)
(* specification allows, and what was proved of the stores holds here.     *)
LEMMA StoreSpec == Spec => Store!Spec
<1>1. Init => Store!Init
  BY SameStore DEF Init
<1>2. [Next]_vars => [Store!Next]_Store!vars
  BY StoreStep, SameStore
<1> QED BY <1>1, <1>2, PTL DEF Spec, Store!Spec

LEMMA ServerSpec == Spec => Server!Spec
<1>1. Init => Server!Init
  BY SameServer DEF Init
<1>2. [Next]_vars => [Server!Next]_Server!vars
  BY ServerStep, SameServer
<1> QED BY <1>1, <1>2, PTL DEF Spec, Server!Spec

(* A nonce is accepted once under the glue too, and never when refused.    *)
THEOREM IssuanceNoncesAreSingleUse == Spec => NoncesAreSingleUse
<1> DEFINE here == [n \in Nonce |-> Nonces!NoncePhase(n)]
           there == [n \in Nonce |-> Store!NoncePhase(n)]
<1>1. Store!Abstract!Init => Nonces!Abstract!Init
  BY DEF Store!Abstract!Init, Nonces!Abstract!Init, Nonces!NoncePhase, Store!NoncePhase
<1>2. [Store!Abstract!Next]_there => [Nonces!Abstract!Next]_here
  BY DEF Store!Abstract!Next, Nonces!Abstract!Next, Store!Abstract!Issue,
     Nonces!Abstract!Issue, Store!Abstract!Spend, Nonces!Abstract!Spend,
     Store!Abstract!Lapse, Nonces!Abstract!Lapse, Nonces!NoncePhase, Store!NoncePhase
<1>3. Spec => Store!NoncesAreSingleUse
  BY StoreSpec, Store!StoreImplementsSingleUse, StoreAssumptions
<1> QED BY <1>1, <1>2, <1>3, PTL
        DEF Store!NoncesAreSingleUse, NoncesAreSingleUse, Nonces!NoncesAreSingleUse,
            Store!Abstract!Spec, Nonces!Abstract!Spec

(* A code is exchanged once under the glue too, and never after a refusal. *)
THEOREM IssuanceCodesAreSingleUse == Spec => CodesAreSingleUse
<1> DEFINE here == [c \in Code |-> Auth!CodePhase(c)]
           there == [c \in Code |-> Server!CodePhase(c)]
<1>1. Server!Abstract!Init => Auth!Abstract!Init
  BY DEF Server!Abstract!Init, Auth!Abstract!Init, Auth!CodePhase, Server!CodePhase,
     Auth!Usable, Server!Usable, Auth!Expired, Server!Expired
<1>2. [Server!Abstract!Next]_there => [Auth!Abstract!Next]_here
  BY DEF Server!Abstract!Next, Auth!Abstract!Next, Server!Abstract!Issue,
     Auth!Abstract!Issue, Server!Abstract!Spend, Auth!Abstract!Spend,
     Server!Abstract!Lapse, Auth!Abstract!Lapse, Auth!CodePhase, Server!CodePhase,
     Auth!Usable, Server!Usable, Auth!Expired, Server!Expired
<1>3. Spec => Server!CodesAreSingleUse
  BY ServerSpec, Server!ServerImplementsSingleUse, ServerAssumptions
<1> QED BY <1>1, <1>2, <1>3, PTL
        DEF Server!CodesAreSingleUse, CodesAreSingleUse, Auth!CodesAreSingleUse,
            Server!Abstract!Spec, Auth!Abstract!Spec

----------------------------------------------------------------------------
(* What is said of sessions.                                               *)
SessionType ==
    session \in [Session -> [outcome : Outcomes, token : Token \cup {None},
                             proof : Proof \cup {NoProof},
                             subject : Subject \cup {None}, at : Nat]]

(* A session that got as far as the nonce and was not refused there has    *)
(* used it up, whatever became of it afterwards.                           *)
Spender(s) == s.proof.nonce # None /\ s.outcome # "invalid_nonce"

Paid(s) ==
    /\ s.outcome = "none" => s.proof.nonce = None
    /\ Spender(s) =>
        /\ uses[s.proof.nonce] > 0
        /\ issuedAt[s.proof.nonce] # None
        /\ s.at < issuedAt[s.proof.nonce] + NonceTtl

Entitled(s) ==
    s.outcome \in {"signing", "issued"} =>
        /\ s.proof.nonce # None
        /\ s.token \in Token
        /\ redeemed[s.token] # None
        /\ s.subject = offers[redeemed[s.token].code].subject
        /\ s.at < redeemed[s.token].at + TokenTtl

SpendersDiffer ==
    \A v, w \in Session :
        /\ Spender(session[v]) /\ Spender(session[w])
        /\ session[v].proof.nonce = session[w].proof.nonce
        => v = w

SessionsInv ==
    /\ SessionType
    /\ \A w \in Session : Paid(session[w]) /\ Entitled(session[w])
    /\ SpendersDiffer

IInv == Store!StoreInv /\ Server!ServerInv /\ SessionsInv

(* On a monotone clock nothing the stores remember is in the future, and   *)
(* a request came in after the nonce and the token it named were given out.*)
NothingInTheFuture ==
    /\ \A n \in Nonce : issuedAt[n] # None => issuedAt[n] <= now
    /\ \A t \in Token : redeemed[t] # None => redeemed[t].at <= now

InOrder(s) ==
    /\ Spender(s) => issuedAt[s.proof.nonce] <= s.at
    /\ s.outcome \in {"signing", "issued"} => redeemed[s.token].at <= s.at

OrderInv == NothingInTheFuture /\ \A w \in Session : InOrder(session[w])

(* The types of what the stores remember, from their own invariants.       *)
LEMMA HistoryTypes ==
    ASSUME Store!StoreInv, Server!ServerInv
    PROVE  /\ now \in Nat
           /\ held \in [Nonce -> Nat \cup {None}]
           /\ uses \in [Nonce -> Nat]
           /\ issuedAt \in [Nonce -> Nat \cup {None}]
           /\ redeemed \in [Token -> Auth!Redeemed \cup {None}]
           /\ offers \in [Code -> Auth!Offered \cup {None}]
  BY DEF Store!StoreInv, Store!TypeOK, Server!ServerInv, Server!TypeOK, Auth!Redeemed,
     Server!Redeemed, Auth!Offered, Server!Offered

(* What was issued, used, offered or exchanged stays so, and what is new   *)
(* is of this instant.                                                     *)
LEMMA HistoryStays ==
    ASSUME Store!StoreInv, Server!ServerInv, [Next \/ StepBack]_vars
    PROVE  /\ now \in Nat /\ now' \in Nat
           /\ \A n \in Nonce :
                /\ issuedAt[n] # None => issuedAt'[n] = issuedAt[n]
                /\ issuedAt[n] = None => issuedAt'[n] \in {None, now}
                /\ uses[n] > 0 => uses'[n] > 0
           /\ \A t \in Token :
                /\ redeemed[t] # None =>
                     /\ redeemed'[t] = redeemed[t]
                     /\ offers'[redeemed[t].code] = offers[redeemed[t].code]
                /\ redeemed[t] = None /\ redeemed'[t] # None => redeemed'[t].at = now
<1> USE HistoryTypes
<1>1. /\ now' \in Nat
      /\ \A n \in Nonce : /\ issuedAt[n] # None => issuedAt'[n] = issuedAt[n]
                          /\ issuedAt[n] = None => issuedAt'[n] \in {None, now}
                          /\ uses[n] > 0 => uses'[n] > 0
  <2>1. CASE UNCHANGED Nonces!vars
    BY <2>1 DEF Nonces!vars, Nonces!history
  <2>2. CASE Nonces!Next
    BY <2>2 DEF Nonces!Next, Nonces!Issue, Nonces!Fresh, Nonces!Consume, Nonces!Refuse,
       Nonces!Tick, Nonces!Restart, Nonces!history
  <2>3. CASE Nonces!StepBack
    BY <2>3 DEF Nonces!StepBack, Nonces!history
  <2> QED BY <2>1, <2>2, <2>3, StoreWallStep
<1> DEFINE Kept == /\ \A c \in Code : offers[c] # None => offers'[c] = offers[c]
                   /\ \A t \in Token :
                        /\ redeemed[t] # None => redeemed'[t] = redeemed[t]
                        /\ redeemed[t] = None /\ redeemed'[t] # None => redeemed'[t].at = now
<1>2. Kept
  <2>1. CASE UNCHANGED Auth!vars
    BY <2>1 DEF Auth!vars, Auth!history
  <2>2. ASSUME NEW code \in Code, NEW subject, NEW configurations, NEW txCode,
               NEW wellFormed,
               Auth!Offer(code, subject, configurations, txCode, wellFormed)
        PROVE  Kept
    BY <2>2 DEF Auth!Offer, Auth!FreshCode
  <2>3. ASSUME NEW request,
               \/ Auth!RefuseRequest(request) \/ Auth!RefuseCode(request)
               \/ Auth!RefuseTransactionCode(request)
        PROVE  Kept
    BY <2>3 DEF Auth!RefuseRequest, Auth!RefuseCode, Auth!RefuseTransactionCode, Auth!history
  <2>4. ASSUME NEW request, NEW token \in Token, Auth!Exchange(request, token) PROVE Kept
    BY <2>4 DEF Auth!Exchange, Auth!FreshToken
  <2>5. ASSUME NEW token \in Token, Auth!Honour(token) \/ Auth!Dismiss(token) PROVE Kept
    BY <2>5 DEF Auth!Honour, Auth!Dismiss, Auth!history
  <2>6. CASE Auth!Tick \/ Auth!Restart \/ Auth!StepBack
    BY <2>6 DEF Auth!Tick, Auth!Restart, Auth!StepBack, Auth!history
  <2> QED BY <2>1, <2>2, <2>3, <2>4, <2>5, <2>6, ServerWallStep DEF Auth!Next, Auth!Call
<1>3. \A t \in Token : redeemed[t] # None =>
        redeemed[t].code \in Code /\ offers[redeemed[t].code] # None
  BY DEF Auth!Redeemed, Server!ServerInv, Server!RedeemedWasPublished
<1> QED BY <1>1, <1>2, <1>3

(* A session that does not move keeps what is said of it, and so does one  *)
(* that was signing and is settled now.                                    *)
Settles(w) ==
    \/ session'[w] = session[w]
    \/ /\ session[w].outcome = "signing"
       /\ \E outcome \in {"issued", "server_error", "lost"} :
            session'[w] = [session[w] EXCEPT !.outcome = outcome]

(* A session that ends its await keeps what it is entitled to.             *)
LEMMA SettlingKeeps ==
    ASSUME IInv, [Next \/ StepBack]_vars, NEW w \in Session, Settles(w)
    PROVE  /\ Paid(session[w])' /\ Entitled(session[w])'
           /\ Spender(session[w])' => Spender(session[w])
           /\ session'[w].proof = session[w].proof
<1> DEFINE s == session[w]
           n == s.proof.nonce
<1>1. s \in [outcome : Outcomes, token : Token \cup {None}, proof : Proof \cup {NoProof},
             subject : Subject \cup {None}, at : Nat]
  BY DEF IInv, SessionsInv, SessionType
<1>2. n \in Nonce \cup {None} /\ s.at \in Nat
  BY <1>1 DEF Proof, NoProof
<1>3. /\ session'[w].proof = s.proof /\ session'[w].token = s.token
      /\ session'[w].subject = s.subject /\ session'[w].at = s.at
      /\ \/ session'[w].outcome = s.outcome
         \/ /\ s.outcome = "signing"
            /\ session'[w].outcome \in {"issued", "server_error", "lost"}
  BY <1>1 DEF Settles
<1>4. Paid(s) /\ Entitled(s)
  BY DEF IInv, SessionsInv
<1>5. Spender(session[w])' => Spender(s)
  BY <1>3 DEF Spender
<1>6. Paid(session[w])'
  <2>1. CASE Spender(s)
    BY <1>2, <1>3, <1>4, <2>1, HistoryStays DEF Paid, Spender, IInv
  <2>2. CASE ~Spender(s)
    BY <1>2, <1>3, <1>4, <2>2 DEF Paid, Spender
  <2> QED BY <2>1, <2>2
<1>7. Entitled(session[w])'
  BY <1>3, <1>4, HistoryStays DEF Entitled, IInv
<1> QED BY <1>3, <1>5, <1>6, <1>7

(* So do all of them when the process is lost.                             *)
LEMMA SettlingAllKeeps ==
    ASSUME IInv, [Next \/ StepBack]_vars, \A w \in Session : Settles(w), SessionType'
    PROVE  SessionsInv'
<1>1. \A w \in Session :
        /\ Paid(session[w])' /\ Entitled(session[w])'
        /\ Spender(session[w])' => Spender(session[w])
        /\ session'[w].proof = session[w].proof
  BY SettlingKeeps
<1>2. SpendersDiffer'
  BY <1>1 DEF SpendersDiffer, IInv, SessionsInv
<1> QED BY <1>1, <1>2 DEF SessionsInv

(* A request concludes: it is enough to look at the session itself, and    *)
(* that nobody else has spent the nonce, should it have.                   *)
LEMMA ConcludingKeeps ==
    ASSUME IInv, [Next \/ StepBack]_vars, NEW w \in Session, NEW token \in Token,
           NEW proof \in Proof \cup {NoProof}, NEW subject \in Subject \cup {None},
           NEW outcome \in Outcomes, Conclude(w, token, proof, subject, outcome),
           Paid(session[w])', Entitled(session[w])',
           proof.nonce # None /\ outcome # "invalid_nonce" => uses[proof.nonce] = 0
    PROVE  SessionsInv'
<1>1. now \in Nat
  BY HistoryStays DEF IInv
<1>2. SessionType'
  BY <1>1 DEF IInv, SessionsInv, SessionType, Conclude
<1>3. /\ session'[w].proof = proof /\ session'[w].outcome = outcome
      /\ \A v \in Session \ {w} : session'[v] = session[v]
  BY DEF IInv, SessionsInv, SessionType, Conclude
<1>4. \A v \in Session \ {w} :
        /\ Paid(session[v])' /\ Entitled(session[v])'
        /\ Spender(session[v])' => Spender(session[v])
        /\ session'[v].proof = session[v].proof
  BY <1>3, SettlingKeeps DEF Settles
<1>5. ASSUME NEW v \in Session \ {w}, Spender(session[v]), Spender(session[w])',
             session'[v].proof.nonce = session'[w].proof.nonce
      PROVE  FALSE
  <2>1. uses[session[v].proof.nonce] > 0
    BY <1>5 DEF IInv, SessionsInv, Paid
  <2>2. uses[proof.nonce] = 0 /\ session[v].proof.nonce = proof.nonce
    BY <1>3, <1>4, <1>5 DEF Spender
  <2> QED BY <2>1, <2>2
<1>6. SpendersDiffer'
  BY <1>4, <1>5 DEF SpendersDiffer, IInv, SessionsInv
<1> QED BY <1>2, <1>4, <1>6 DEF SessionsInv

(* A proof whose nonce is accepted pays for one session.                   *)
LEMMA SpendingPays ==
    ASSUME IInv, NEW w \in Session, NEW token \in Token, NEW proof \in Proof,
           NEW subject, NEW outcome \in Outcomes \ {"none"}, proof.nonce # None,
           SpendNonce(proof.nonce), Conclude(w, token, proof, subject, outcome)
    PROVE  Paid(session[w])' /\ uses[proof.nonce] = 0
<1> DEFINE n == proof.nonce
<1>1. n \in Nonce
  BY DEF Proof
<1>2. /\ held[n] # None /\ held[n] > now /\ uses[n] = 0 /\ issuedAt[n] # None
      /\ held[n] = issuedAt[n] + NonceTtl
  BY <1>1 DEF IInv, SpendNonce, Nonces!Consume, Nonces!IsCurrent, Store!StoreInv,
     Store!HeldIsUnused
<1>3. now \in Nat /\ held[n] \in Nat
  BY <1>1, <1>2, HistoryTypes DEF IInv
<1>4. uses'[n] > 0 /\ issuedAt' = issuedAt
  BY <1>1, <1>2, HistoryTypes DEF IInv, SpendNonce, Nonces!Consume
<1>5. /\ session'[w].proof = proof /\ session'[w].at = now /\ session'[w].outcome = outcome
  BY DEF IInv, SessionsInv, SessionType, Conclude
<1>6. now < issuedAt[n] + NonceTtl
  BY <1>2, <1>3
<1> QED BY <1>2, <1>4, <1>5, <1>6 DEF Paid

(* A token that grant_for() honours entitles to what it was bought for.    *)
LEMMA HonouredEntitles ==
    ASSUME IInv, NEW token \in Token, Granted(token)
    PROVE  /\ redeemed[token] # None
           /\ tokens[token].subject = offers[redeemed[token].code].subject
           /\ tokens[token].subject \in Subject
           /\ now < redeemed[token].at + TokenTtl
           /\ UNCHANGED <<redeemed, offers>>
<1>1. tokens[token] # None /\ tokens[token].expiresAt > now
  BY DEF Granted, Auth!Honour, Auth!Holds, Auth!Usable, Auth!Expired, IInv,
     Server!ServerInv, Server!TypeOK, Server!Grant
<1>2. tokens[token].subject \in Subject /\ tokens[token].expiresAt \in Nat
  BY <1>1 DEF IInv, Server!ServerInv, Server!TypeOK, Server!Grant
<1>3. /\ redeemed[token] # None
      /\ tokens[token].subject = offers[redeemed[token].code].subject
      /\ tokens[token].expiresAt = redeemed[token].at + TokenTtl
  BY <1>1 DEF IInv, Server!ServerInv, Server!TokenIsWhatWasOffered
<1>4. now \in Nat
  BY HistoryTypes DEF IInv
<1>5. UNCHANGED <<redeemed, offers>>
  BY DEF Granted, Auth!Honour, Auth!history
<1> QED BY <1>1, <1>2, <1>3, <1>4, <1>5

----------------------------------------------------------------------------
(* The inductive invariant. *)
LEMMA InitIInv == Init => IInv
<1> SUFFICES ASSUME Init PROVE IInv
  OBVIOUS
<1>1. Store!StoreInv /\ Server!ServerInv
  BY SameStore, SameServer, Store!InitStoreInv, Server!InitServerInv, StoreAssumptions,
     ServerAssumptions DEF Init
<1>2. SessionsInv
  BY DEF Init, SessionsInv, SessionType, Waiting, NoProof, Outcomes, Paid, Entitled,
     Spender, SpendersDiffer
<1> QED BY <1>1, <1>2 DEF IInv

(* The invariants of the stores are kept: their own theorems say so.       *)
LEMMA NextStores ==
    ASSUME Store!StoreInv, Server!ServerInv, [Next \/ StepBack]_vars
    PROVE  Store!StoreInv' /\ Server!ServerInv'
<1>1. [Store!Next \/ Store!StepBack]_Store!vars
  BY StoreWallStep, SameStore
<1>2. [Server!Next \/ Server!StepBack]_Server!vars
  BY ServerWallStep, SameServer
<1> QED BY <1>1, <1>2, Store!NextStoreInv, Server!NextServerInv, StoreAssumptions,
           ServerAssumptions

(* Every action keeps what is said of the sessions.                        *)
LEMMA NextSessions == ASSUME IInv, Next \/ StepBack PROVE SessionsInv'
<1>0. [Next \/ StepBack]_vars /\ NoProof.nonce = None
  BY DEF NoProof
<1>1. ASSUME session' = session PROVE SessionsInv'
  BY <1>0, <1>1, SettlingAllKeeps DEF Settles, IInv, SessionsInv, SessionType
<1>2. ASSUME NEW w \in Session, FinishSigning(w) PROVE SessionsInv'
  <2>1. SessionType'
    BY <1>2 DEF FinishSigning, IInv, SessionsInv, SessionType, Outcomes
  <2>2. \A v \in Session : Settles(v)
    BY <1>2 DEF FinishSigning, Settles, IInv, SessionsInv, SessionType
  <2> QED BY <1>0, <2>1, <2>2, SettlingAllKeeps
<1>3. CASE Restart
  <2>1. SessionType'
    BY <1>3 DEF Restart, IInv, SessionsInv, SessionType, Outcomes
  <2>2. \A v \in Session : Settles(v)
    BY <1>3 DEF Restart, Settles, IInv, SessionsInv, SessionType
  <2> QED BY <1>0, <2>1, <2>2, SettlingAllKeeps
<1>4. ASSUME NEW w \in Session, NEW token \in Token,
             DenyToken(w, token) \/ RefuseWithoutProof(w, token)
      PROVE  SessionsInv'
  <2>1. PICK outcome \in {"credential_request_denied", "invalid_proof", "server_error"} :
             Conclude(w, token, NoProof, None, outcome)
    BY <1>4 DEF DenyToken, RefuseWithoutProof
  <2>2. session'[w].proof = NoProof /\ session'[w].outcome = outcome
    BY <2>1 DEF Conclude, IInv, SessionsInv, SessionType
  <2>3. Paid(session[w])' /\ Entitled(session[w])'
    BY <1>0, <2>2 DEF Paid, Entitled, Spender
  <2> QED BY <1>0, <2>1, <2>3, ConcludingKeeps DEF Outcomes
<1>5. ASSUME NEW w \in Session, NEW token \in Token, NEW proof \in Proof,
             RefuseNonce(w, token, proof)
      PROVE  SessionsInv'
  <2>1. Conclude(w, token, proof, None, "invalid_nonce")
    BY <1>5 DEF RefuseNonce
  <2>2. session'[w].outcome = "invalid_nonce"
    BY <2>1 DEF Conclude, IInv, SessionsInv, SessionType
  <2>3. Paid(session[w])' /\ Entitled(session[w])'
    BY <2>2 DEF Paid, Entitled, Spender
  <2> QED BY <1>0, <2>1, <2>3, ConcludingKeeps DEF Outcomes
<1>6. ASSUME NEW w \in Session, NEW token \in Token, NEW proof \in Proof,
             RefuseProof(w, token, proof)
      PROVE  SessionsInv'
  <2>1. PICK outcome \in {"invalid_proof", "server_error"} :
          /\ Conclude(w, token, proof, None, outcome)
          /\ SpendNonce(proof.nonce) /\ proof.nonce # None
    BY <1>6 DEF RefuseProof
  <2>2. Paid(session[w])' /\ uses[proof.nonce] = 0
    BY <2>1, SpendingPays DEF Outcomes
  <2>3. session'[w].outcome = outcome
    BY <2>1 DEF Conclude, IInv, SessionsInv, SessionType
  <2>4. Entitled(session[w])'
    BY <2>3 DEF Entitled
  <2> QED BY <1>0, <2>1, <2>2, <2>4, ConcludingKeeps DEF Outcomes
<1>7. ASSUME NEW w \in Session, NEW token \in Token, NEW proof \in Proof,
             StartSigning(w, token, proof)
      PROVE  SessionsInv'
  <2> DEFINE subject == tokens[token].subject
  <2>1. /\ Conclude(w, token, proof, subject, "signing")
        /\ SpendNonce(proof.nonce) /\ proof.nonce # None /\ Granted(token)
    BY <1>7 DEF StartSigning
  <2>2. Paid(session[w])' /\ uses[proof.nonce] = 0
    BY <2>1, SpendingPays DEF Outcomes
  <2>3. /\ session'[w].token = token /\ session'[w].subject = subject
        /\ session'[w].at = now /\ session'[w].proof = proof
    BY <2>1 DEF Conclude, IInv, SessionsInv, SessionType
  <2>4. Entitled(session[w])'
    BY <2>1, <2>3, HonouredEntitles DEF Entitled
  <2>5. subject \in Subject \cup {None}
    BY <2>1, HonouredEntitles
  <2> QED BY <1>0, <2>1, <2>2, <2>4, <2>5, ConcludingKeeps DEF Outcomes
<1> QED BY <1>1, <1>2, <1>3, <1>4, <1>5, <1>6, <1>7
        DEF Next, Offer, Redeem, CreateNonce, Tick, StepBack

(* The stores, the clock and the sessions together.                        *)
LEMMA NextIInv == IInv /\ [Next \/ StepBack]_vars => IInv'
<1> SUFFICES ASSUME IInv, [Next \/ StepBack]_vars PROVE IInv'
  OBVIOUS
<1>1. Store!StoreInv' /\ Server!ServerInv'
  BY NextStores DEF IInv
<1>2. CASE Next \/ StepBack
  BY <1>1, <1>2, NextSessions DEF IInv
<1>3. CASE UNCHANGED vars
  <2>1. SessionType' /\ \A w \in Session : Settles(w)
    BY <1>3 DEF vars, Settles, IInv, SessionsInv, SessionType
  <2> QED BY <1>1, <2>1, SettlingAllKeeps DEF IInv
<1> QED BY <1>2, <1>3

LEMMA AlwaysIInv == WallSpec => []IInv
  BY InitIInv, NextIInv, PTL DEF WallSpec

(* The variables of stores and sessions keep their types.                  *)
THEOREM IssuanceTypeOK == WallSpec => []TypeOK
<1>1. IInv => TypeOK
  BY SameStore, SameServer DEF IInv, SessionsInv, SessionType, TypeOK, Store!StoreInv,
     Server!ServerInv
<1> QED BY <1>1, AlwaysIInv, PTL

(* issue_credential() spends the nonce before it validates the proof and   *)
(* awaits the signer: requests that overlap at the await cannot share one, *)
(* and a proof that fails has used it up for every other request.          *)
THEOREM IssuanceNonceAdmitsOneRequest == WallSpec => []NonceAdmitsOneRequest
<1>1. IInv => NonceAdmitsOneRequest
  BY DEF IInv, SessionsInv, SpendersDiffer, Spender, NonceAdmitsOneRequest, PastNonceCheck
<1> QED BY <1>1, AlwaysIInv, PTL

----------------------------------------------------------------------------
(* The refinement of Entitlement. A step that adds nothing to the history  *)
(* and issues nothing is none of its business.                             *)
LEMMA NothingNew ==
    ASSUME UNCHANGED <<offers, redeemed, issuedAt>>,
           \A w \in Session : /\ Issued(w)' <=> Issued(w)
                              /\ Issued(w) => session'[w] = session[w]
    PROVE  UNCHANGED Promise!vars
BY DEF Promise!vars

LEMMA OfferEntitles ==
    ASSUME IInv, NEW code \in Code, NEW subject \in Subject, Offer(code, subject)
    PROVE  Promise!Offer(code, subject)
<1> DEFINE offered == [subject |-> subject, configurations |-> {"diploma"}, txCode |-> None,
                       at |-> now, published |-> Auth!ValidOffer({"diploma"}, TRUE)]
<1>1. /\ offers[code] = None /\ UNCHANGED <<redeemed, issuedAt, session>>
      /\ offers' = [offers EXCEPT ![code] = offered]
  BY DEF Offer, Auth!Offer, Auth!FreshCode, nonceVars
<1>2. offered \in Auth!Offered /\ offered.subject = subject
  <2>1. now \in Nat
    BY HistoryTypes DEF IInv
  <2> QED BY <2>1 DEF Auth!Offered, Auth!ValidOffer
<1> HIDE DEF offered
<1>3. offered # None /\ offers \in [Code -> Auth!Offered \cup {None}]
  BY <1>2, NoneAssumption, HistoryTypes DEF Auth!NoneAssumption, IInv
<1> QED BY <1>1, <1>2, <1>3 DEF Promise!Offer, Issued

LEMMA ExchangeEntitles ==
    ASSUME IInv, NEW code \in Code, NEW token \in Token,
           Auth!Exchange(TokenRequest(code), token), UNCHANGED <<nonceVars, session>>
    PROVE  Promise!Buy(code, token)
<1> DEFINE exchange == [code |-> code, at |-> now, presented |-> None]
<1>1. /\ codes[code] # None /\ redeemed[token] = None
      /\ redeemed' = [redeemed EXCEPT ![token] = exchange]
      /\ UNCHANGED <<offers, issuedAt, session>>
  BY DEF Auth!Exchange, Auth!Holds, Auth!Usable, Auth!FreshToken, TokenRequest, nonceVars
<1>2. /\ exchange # None /\ exchange.code = code
      /\ redeemed \in [Token -> Auth!Redeemed \cup {None}]
      /\ offers \in [Code -> Auth!Offered \cup {None}]
      /\ None \notin Code
  <2>1. now \in Nat /\ redeemed \in [Token -> Auth!Redeemed \cup {None}]
        /\ offers \in [Code -> Auth!Offered \cup {None}]
    BY HistoryTypes DEF IInv
  <2>2. exchange \in Auth!Redeemed
    BY <2>1 DEF Auth!Redeemed
  <2> QED BY <2>1, <2>2, NoneAssumption DEF Auth!NoneAssumption
<1>3. offers[code] # None /\ \A t \in Token : redeemed[t] # None => redeemed[t].code # code
  BY <1>1 DEF IInv, Server!ServerInv, Server!CodeIsUnused
<1>4. offers[code].subject # None
  BY <1>2, <1>3, NoneAssumption DEF Auth!Offered
<1> HIDE DEF exchange
<1> QED BY <1>1, <1>2, <1>3, <1>4 DEF Promise!Buy, Issued

LEMMA CreateNonceEntitles ==
    ASSUME IInv, NEW nonce \in Nonce, CreateNonce(nonce)
    PROVE  Promise!HandOut(nonce)
<1>1. /\ issuedAt[nonce] = None /\ issuedAt' = [issuedAt EXCEPT ![nonce] = now]
      /\ UNCHANGED <<offers, redeemed, session>>
  BY DEF CreateNonce, Nonces!Issue, Nonces!Fresh, authVars
<1>2. now # None /\ issuedAt \in [Nonce -> Nat \cup {None}]
  BY HistoryTypes, NoneAssumption DEF IInv, Nonces!NoneAssumption
<1> QED BY <1>1, <1>2 DEF Promise!HandOut, Issued

(* The signer returns: the session holds what it takes, and no other has   *)
(* paid with the same nonce.                                               *)
LEMMA FinishSigningEntitles ==
    ASSUME IInv, NEW w \in Session, FinishSigning(w)
    PROVE  \/ UNCHANGED Promise!vars
           \/ \E token \in Token, nonce \in Nonce : Promise!Issue(w, token, nonce)
<1> DEFINE s == session[w]
<1>1. /\ session \in [Session -> [outcome : Outcomes, token : Token \cup {None},
                                proof : Proof \cup {NoProof},
                                subject : Subject \cup {None}, at : Nat]]
      /\ s.outcome = "signing" /\ UNCHANGED <<offers, redeemed, issuedAt>>
  BY DEF IInv, SessionsInv, SessionType, FinishSigning, authVars, nonceVars
<1>2. CASE session' = [session EXCEPT ![w].outcome = "server_error"]
  BY <1>1, <1>2, NothingNew DEF Issued
<1>3. CASE session' = [session EXCEPT ![w].outcome = "issued"]
  <2>1. /\ s.proof.nonce \in Nonce /\ s.token \in Token
        /\ issuedAt[s.proof.nonce] # None
        /\ redeemed[s.token] # None
        /\ s.subject = offers[redeemed[s.token].code].subject
    BY <1>1 DEF IInv, SessionsInv, Paid, Entitled, Spender, Proof, NoProof
  <2>2. /\ redeemed[s.token].code \in Code /\ redeemed[s.token].code # None
        /\ offers[redeemed[s.token].code] # None
    BY <2>1, HistoryTypes, NoneAssumption
    DEF IInv, Server!ServerInv, Server!RedeemedWasPublished, Auth!Redeemed, Auth!NoneAssumption
  <2>3. \A v \in Session : Issued(v) => session[v].proof.nonce # s.proof.nonce
    BY <1>1 DEF IInv, SessionsInv, SpendersDiffer, Entitled, Spender, Issued
  <2>4. /\ session'[w].outcome = "issued" /\ session'[w].subject = s.subject
        /\ session'[w].token = s.token /\ session'[w].proof = s.proof
        /\ \A v \in Session \ {w} : session'[v] = session[v]
    BY <1>1, <1>3
  <2>5. PICK token \in Token, nonce \in Nonce : token = s.token /\ nonce = s.proof.nonce
    BY <2>1
  <2>6. Promise!Issue(w, token, nonce)
    BY <1>1, <2>1, <2>2, <2>3, <2>4, <2>5 DEF Promise!Issue, Issued
  <2> QED BY <2>6
<1> QED BY <1>2, <1>3 DEF FinishSigning

(* Up to the await a request issues nothing.                               *)
LEMMA ConcludingEntitlesNobody ==
    ASSUME IInv, NEW w \in Session, NEW token, NEW proof, NEW subject,
           NEW outcome \in Outcomes \ {"issued"}, Conclude(w, token, proof, subject, outcome),
           UNCHANGED <<offers, redeemed, issuedAt>>
    PROVE  UNCHANGED Promise!vars
<1>1. session \in [Session -> [outcome : Outcomes, token : Token \cup {None},
                              proof : Proof \cup {NoProof},
                              subject : Subject \cup {None}, at : Nat]]
  BY DEF IInv, SessionsInv, SessionType
<1>2. \A v \in Session : /\ Issued(v)' <=> Issued(v)
                         /\ Issued(v) => session'[v] = session[v]
  BY <1>1 DEF Conclude, Issued
<1> QED BY <1>2, NothingNew

LEMMA StepEntitles == IInv /\ [Next \/ StepBack]_vars => [Promise!Next]_Promise!vars
<1> SUFFICES ASSUME IInv, [Next \/ StepBack]_vars
             PROVE  Promise!Next \/ UNCHANGED Promise!vars
  OBVIOUS
<1>1. ASSUME NEW code \in Code, NEW subject \in Subject, Offer(code, subject)
      PROVE  Promise!Next
  BY <1>1, OfferEntitles DEF Promise!Next
<1>2. ASSUME NEW code \in Code, Redeem(code) PROVE Promise!Next \/ UNCHANGED Promise!vars
  <2>1. CASE Auth!RefuseCode(TokenRequest(code))
    BY <1>2, <2>1, NothingNew DEF Redeem, Auth!RefuseCode, nonceVars, Issued
  <2>2. ASSUME NEW token \in Token, Auth!Exchange(TokenRequest(code), token)
        PROVE  Promise!Next
    BY <1>2, <2>2, ExchangeEntitles DEF Redeem, Promise!Next
  <2> QED BY <1>2, <2>1, <2>2 DEF Redeem
<1>3. ASSUME NEW nonce \in Nonce, CreateNonce(nonce) PROVE Promise!Next
  BY <1>3, CreateNonceEntitles DEF Promise!Next
<1>4. ASSUME NEW w \in Session, NEW token \in Token,
             \/ DenyToken(w, token) \/ RefuseWithoutProof(w, token)
             \/ \E proof \in Proof : \/ RefuseNonce(w, token, proof)
                                     \/ RefuseProof(w, token, proof)
                                     \/ StartSigning(w, token, proof)
      PROVE  UNCHANGED Promise!vars
  <2>1. UNCHANGED <<offers, redeemed, issuedAt>>
    BY <1>4 DEF DenyToken, RefuseWithoutProof, RefuseNonce, RefuseProof, StartSigning, Granted,
       SpendNonce, Auth!Dismiss, Auth!Honour, Auth!history, Nonces!Refuse, Nonces!Consume,
       nonceVars
  <2>2. \E proof, subject : \E outcome \in Outcomes \ {"issued"} :
            Conclude(w, token, proof, subject, outcome)
    BY <1>4 DEF DenyToken, RefuseWithoutProof, RefuseNonce, RefuseProof, StartSigning, Outcomes
  <2> QED BY <2>1, <2>2, ConcludingEntitlesNobody
<1>5. ASSUME NEW w \in Session, FinishSigning(w) PROVE Promise!Next \/ UNCHANGED Promise!vars
  BY <1>5, FinishSigningEntitles DEF Promise!Next
<1>6. CASE Restart
  <2>1. session \in [Session -> [outcome : Outcomes, token : Token \cup {None},
                                proof : Proof \cup {NoProof},
                                subject : Subject \cup {None}, at : Nat]]
    BY DEF IInv, SessionsInv, SessionType
  <2>2. \A v \in Session : /\ Issued(v)' <=> Issued(v)
                           /\ Issued(v) => session'[v] = session[v]
    BY <1>6, <2>1 DEF Restart, Issued
  <2> QED BY <1>6, <2>2, NothingNew
          DEF Restart, Auth!Restart, Auth!history, Nonces!Restart, Nonces!history
<1>7. CASE Tick \/ StepBack \/ UNCHANGED vars
  BY <1>7, NothingNew DEF Tick, StepBack, Auth!Tick, Auth!StepBack, Auth!history, Nonces!Tick,
     Nonces!StepBack, Nonces!history, vars, authVars, nonceVars, Issued
<1> QED BY <1>1, <1>2, <1>3, <1>4, <1>5, <1>6, <1>7 DEF Next

(* A credential goes to the person of the offer behind the token, at the   *)
(* price of a nonce, and none is ever taken back: the whole issuer on any  *)
(* clock does what Entitlement allows.                                     *)
THEOREM IssuanceCredentialsAreEntitled == WallSpec => CredentialsAreEntitled
<1>1. Init => Promise!Init
  BY DEF Init, Auth!Init, Nonces!Init, Promise!Init, Issued, Waiting
<1> QED BY <1>1, AlwaysIInv, StepEntitles, PTL DEF WallSpec, CredentialsAreEntitled, Promise!Spec

----------------------------------------------------------------------------
(* A clock that only goes on.                                              *)
LEMMA ClockGoesOn == ASSUME IInv, [Next]_vars PROVE now <= now'
<1>1. now \in Nat
  BY HistoryTypes DEF IInv
<1> QED BY <1>1, StoreStep DEF Nonces!vars, Nonces!Next, Nonces!Issue, Nonces!Consume,
           Nonces!Refuse, Nonces!Tick, Nonces!Restart

(* A session that concludes does so at this instant; others settle.        *)
LEMMA SettlesOrConcludes ==
    ASSUME IInv, [Next]_vars, NEW w \in Session
    PROVE  Settles(w) \/ (session'[w].at = now /\ now' = now)
<1>1. session \in [Session -> [outcome : Outcomes, token : Token \cup {None},
                              proof : Proof \cup {NoProof},
                              subject : Subject \cup {None}, at : Nat]]
  BY DEF IInv, SessionsInv, SessionType
<1>2. ASSUME session' = session PROVE Settles(w)
  BY <1>2 DEF Settles
<1>3. ASSUME NEW v \in Session, FinishSigning(v) PROVE Settles(w)
  BY <1>1, <1>3 DEF FinishSigning, Settles
<1>4. ASSUME Restart PROVE Settles(w)
  BY <1>1, <1>4 DEF Restart, Settles
<1>5. ASSUME NEW v \in Session, NEW token, NEW proof, NEW subject, NEW outcome,
             Conclude(v, token, proof, subject, outcome)
      PROVE  Settles(w) \/ session'[w].at = now
  BY <1>1, <1>5 DEF Conclude, Settles
<1>6. ASSUME NEW v \in Session, NEW token \in Token,
             \/ DenyToken(v, token) \/ RefuseWithoutProof(v, token)
             \/ \E proof \in Proof : \/ RefuseNonce(v, token, proof)
                                     \/ RefuseProof(v, token, proof)
                                     \/ StartSigning(v, token, proof)
      PROVE  Settles(w) \/ (session'[w].at = now /\ now' = now)
  <2>1. now' = now
    BY <1>6 DEF DenyToken, RefuseWithoutProof, RefuseNonce, RefuseProof, StartSigning, Granted,
       Auth!Dismiss, Auth!Honour
  <2>2. \E proof, subject, outcome : Conclude(v, token, proof, subject, outcome)
    BY <1>6 DEF DenyToken, RefuseWithoutProof, RefuseNonce, RefuseProof, StartSigning
  <2> QED BY <1>5, <2>1, <2>2
<1> QED BY <1>2, <1>3, <1>4, <1>6 DEF Next, vars, Offer, Redeem, CreateNonce, Tick

(* On a monotone clock what refers to history comes after it.              *)
LEMMA NextOrderInv == IInv /\ IInv' /\ OrderInv /\ [Next]_vars => OrderInv'
<1> SUFFICES ASSUME IInv, IInv', OrderInv, [Next]_vars PROVE OrderInv'
  OBVIOUS
<1>1. /\ now \in Nat /\ now' \in Nat /\ now <= now'
      /\ \A n \in Nonce : issuedAt[n] # None => issuedAt[n] \in Nat
      /\ \A t \in Token : redeemed[t] # None => redeemed[t].at \in Nat
  BY HistoryTypes, HistoryStays, ClockGoesOn DEF IInv, Auth!Redeemed
<1>2. NothingInTheFuture'
  BY <1>1, HistoryStays, NoneAssumption DEF NothingInTheFuture, OrderInv, IInv
<1>3. ASSUME NEW w \in Session, Settles(w) PROVE InOrder(session[w])'
  <2> DEFINE s == session[w]
  <2>1. s \in [outcome : Outcomes, token : Token \cup {None}, proof : Proof \cup {NoProof},
               subject : Subject \cup {None}, at : Nat]
    BY DEF IInv, SessionsInv, SessionType
  <2>2. /\ session'[w].proof = s.proof /\ session'[w].token = s.token
        /\ session'[w].at = s.at
        /\ Spender(session[w])' => Spender(s)
        /\ session'[w].outcome \in {"signing", "issued"} => s.outcome \in {"signing", "issued"}
    BY <1>3, <2>1 DEF Settles, Spender
  <2>3. Paid(s) /\ Entitled(s) /\ InOrder(s)
    BY DEF IInv, SessionsInv, OrderInv
  <2>4. s.proof.nonce \in Nonce \cup {None}
    BY <2>1 DEF Proof, NoProof
  <2>5. Spender(session[w])' => issuedAt'[session'[w].proof.nonce] <= session'[w].at
    BY <2>2, <2>3, <2>4, HistoryStays DEF Paid, InOrder, Spender, IInv
  <2>6. session'[w].outcome \in {"signing", "issued"}
        => redeemed'[session'[w].token].at <= session'[w].at
    BY <2>2, <2>3, HistoryStays DEF Entitled, InOrder, IInv
  <2> QED BY <2>5, <2>6 DEF InOrder, Spender
<1>4. ASSUME NEW w \in Session, session'[w].at = now, now' = now PROVE InOrder(session[w])'
  <2>1. Paid(session[w])' /\ Entitled(session[w])'
    BY DEF IInv, SessionsInv
  <2>2. (session[w].proof.nonce \in Nonce \cup {None})'
    BY DEF IInv, SessionsInv, SessionType, Proof, NoProof
  <2> QED BY <1>2, <1>4, <2>1, <2>2 DEF Paid, Entitled, InOrder, Spender, NothingInTheFuture
<1> QED BY <1>2, <1>3, <1>4, SettlesOrConcludes DEF OrderInv

LEMMA AlwaysOrderInv == Spec => []OrderInv
<1>1. Init => OrderInv
  BY DEF Init, Nonces!Init, Auth!Init, OrderInv, NothingInTheFuture, InOrder, Spender, Waiting,
     NoProof
<1>2. Spec => []IInv
  BY SpecIsWallSpec, AlwaysIInv
<1> QED BY <1>1, <1>2, NextOrderInv, PTL DEF Spec

(* A credential is for whom the offer was made, and token and nonce were   *)
(* in force when the request came in.                                      *)
THEOREM IssuanceCredentialIsTraceable == Spec => []CredentialIsTraceable
<1>1. IInv /\ OrderInv => CredentialIsTraceable
  <2> SUFFICES ASSUME IInv, OrderInv, NEW w \in Session, Issued(w)
               PROVE  LET exchange == redeemed[session[w].token]
                          nonce == session[w].proof.nonce
                      IN  /\ exchange # None
                          /\ session[w].subject = offers[exchange.code].subject
                          /\ session[w].at \in exchange.at .. exchange.at + TokenTtl - 1
                          /\ session[w].at \in issuedAt[nonce] .. issuedAt[nonce] + NonceTtl - 1
    BY DEF CredentialIsTraceable
  <2>1. Paid(session[w]) /\ Entitled(session[w]) /\ InOrder(session[w])
    BY DEF IInv, SessionsInv, OrderInv
  <2>2. Spender(session[w]) /\ session[w].outcome = "issued"
    BY <2>1 DEF Entitled, Spender, Issued
  <2>3. session[w].proof.nonce \in Nonce /\ session[w].token \in Token /\ session[w].at \in Nat
    BY <2>1, <2>2 DEF IInv, SessionsInv, SessionType, Proof, NoProof, Spender, Entitled
  <2>4. issuedAt[session[w].proof.nonce] \in Nat /\ redeemed[session[w].token].at \in Nat
    BY <2>1, <2>2, <2>3, HistoryTypes DEF IInv, Paid, Entitled, Auth!Redeemed
  <2> QED BY <2>1, <2>2, <2>3, <2>4, TtlAssumption DEF Paid, Entitled, InOrder
<1>2. Spec => []IInv
  BY SpecIsWallSpec, AlwaysIInv
<1> QED BY <1>1, <1>2, AlwaysOrderInv, PTL
=============================================================================
