--------------------- MODULE AuthorizationServer_proofs ---------------------
(***************************************************************************)
(* Proofs about AuthorizationServer, for every set of codes and tokens and *)
(* all lifetimes. The safety properties hold on a clock that may be set    *)
(* back (WallSpec); the refinement of SingleUse needs a monotone one.      *)
(***************************************************************************)
EXTENDS AuthorizationServer, TLAPS

(* A code in the store is as it was offered, has bought no token and was   *)
(* never refused.                                                          *)
CodeIsUnused ==
    \A c \in Code : codes[c] # None =>
        /\ offers[c] # None
        /\ codes[c].subject = offers[c].subject
        /\ codes[c].configurations = offers[c].configurations
        /\ codes[c].txCode = offers[c].txCode
        /\ codes[c].expiresAt = offers[c].at + CodeTtl
        /\ c \notin refusedCodes
        /\ \A t \in Token : redeemed[t] # None => redeemed[t].code # c

(* Tokens are bought with published codes only. *)
RedeemedWasPublished ==
    \A t \in Token : redeemed[t] # None =>
        offers[redeemed[t].code] # None /\ offers[redeemed[t].code].published

(* A token in the store was never refused. *)
TokenNotRefused == \A t \in Token : tokens[t] # None => t \notin refusedTokens

ServerInv ==
    /\ TypeOK
    /\ OneTokenPerCode
    /\ RefusalIsFinal
    /\ TokenIsWhatWasOffered
    /\ CodeIsUnused
    /\ RedeemedWasPublished
    /\ TokenNotRefused

(* A new server, whose stores are empty, satisfies the invariant.          *)
LEMMA InitServerInv == Init => ServerInv
  BY TtlAssumption, NoneAssumption
  DEF Init, ServerInv, TypeOK, OneTokenPerCode, RefusalIsFinal, TokenIsWhatWasOffered,
      CodeIsUnused, RedeemedWasPublished, TokenNotRefused, NoAnswer, Answer

(* The step case, one lemma per action that changes a store. *)
LEMMA OfferKeeps ==
    ASSUME ServerInv, NEW code \in Code, NEW subject \in Subject,
           NEW configurations \in SUBSET Configuration,
           NEW txCode \in TxCode \cup {None}, NEW wellFormed \in BOOLEAN,
           Offer(code, subject, configurations, txCode, wellFormed)
    PROVE  ServerInv'
<1> USE TtlAssumption, NoneAssumption
<1> DEFINE offered == [subject |-> subject, configurations |-> configurations,
                       txCode |-> txCode, at |-> now,
                       published |-> ValidOffer(configurations, wellFormed)]
           grant == [subject |-> subject, configurations |-> configurations,
                     txCode |-> txCode, expiresAt |-> now + CodeTtl]
<1>0. offered \in Offered /\ grant \in Grant
  <2>1. ValidOffer(configurations, wellFormed) \in BOOLEAN
    BY DEF ValidOffer
  <2> QED BY <2>1 DEF ServerInv, TypeOK, Offered, Grant
<1>1. TypeOK'
  <2>1. codes' = [codes EXCEPT ![code] = grant] /\ offers' = [offers EXCEPT ![code] = offered]
    BY DEF Offer
  <2> HIDE DEF offered, grant
  <2> QED BY <1>0, <2>1 DEF ServerInv, TypeOK, Offer
<1>2. offers[code] = None /\ code \notin refusedCodes
  BY DEF Offer, FreshCode
<1>3. \A t \in Token : redeemed[t] # None => redeemed[t].code # code
  BY <1>2 DEF ServerInv, RedeemedWasPublished
<1>4. (OneTokenPerCode /\ RefusalIsFinal /\ TokenNotRefused)'
  BY DEF ServerInv, Offer, OneTokenPerCode, RefusalIsFinal, TokenNotRefused
<1>5. CodeIsUnused'
  BY <1>0, <1>2, <1>3 DEF ServerInv, TypeOK, Offer, CodeIsUnused
<1>6. RedeemedWasPublished'
  BY <1>3 DEF ServerInv, TypeOK, Offer, RedeemedWasPublished, Redeemed
<1>7. TokenIsWhatWasOffered'
  BY <1>3 DEF ServerInv, TypeOK, Offer, TokenIsWhatWasOffered, Redeemed
<1> QED BY <1>1, <1>4, <1>5, <1>6, <1>7 DEF ServerInv

(* redeem() forgets the code it refuses and remembers nothing else.        *)
LEMMA RefuseCodeKeeps ==
    ASSUME ServerInv, NEW request \in Request, RefuseCode(request)
    PROVE  ServerInv'
<1> USE TtlAssumption, NoneAssumption
<1>1. request.code \in Code
  BY DEF RefuseCode, Sendable, ValidRequest, Supported, Request
<1>2. TypeOK'
  BY <1>1 DEF ServerInv, TypeOK, RefuseCode, Without, Reply, Answer, Errors
<1>3. (OneTokenPerCode /\ TokenNotRefused /\ RedeemedWasPublished /\ TokenIsWhatWasOffered)'
  BY DEF ServerInv, RefuseCode, OneTokenPerCode, TokenNotRefused, RedeemedWasPublished,
     TokenIsWhatWasOffered
<1>4. RefusalIsFinal'
  BY DEF RefuseCode, Reply, RefusalIsFinal
<1>5. CodeIsUnused'
  BY <1>1 DEF ServerInv, TypeOK, RefuseCode, Without, CodeIsUnused
<1> QED BY <1>2, <1>3, <1>4, <1>5 DEF ServerInv

(* The transaction code is checked completely: no error means it matches.  *)
LEMMA NoErrorMeansMatch ==
    ASSUME NEW grant \in Grant, NEW presented \in TxCode \cup {None},
           TransactionCodeError(grant, presented) = "ok"
    PROVE  presented = grant.txCode
  BY NoneAssumption DEF TransactionCodeError, Grant

(* redeem() moves the Grant: the code goes with the token that replaces it,*)
(* so no second token can ever name the same code.                         *)
LEMMA ExchangeKeeps ==
    ASSUME ServerInv, NEW request \in Request, NEW token \in Token,
           Exchange(request, token)
    PROVE  ServerInv'
<1> DEFINE code == request.code
<1> USE TtlAssumption, NoneAssumption
<1>1. code \in Code /\ request.txCode \in TxCode \cup {None}
  BY DEF Exchange, Sendable, ValidRequest, Supported, Request
<1>2. codes[code] \in Grant /\ codes[code].expiresAt > now
  BY <1>1 DEF ServerInv, TypeOK, Exchange, Holds, Usable, Expired, Grant
<1>3. request.txCode = codes[code].txCode
  BY <1>1, <1>2, NoErrorMeansMatch DEF Exchange
<1>4. /\ offers[code] \in Offered /\ offers[code].published
      /\ code \notin refusedCodes
      /\ \A t \in Token : redeemed[t] # None => redeemed[t].code # code
  BY <1>1, <1>2 DEF ServerInv, TypeOK, CodeIsUnused, Exchange, Sendable, Presentable
<1>5. redeemed[token] = None /\ token \notin refusedTokens
  BY DEF Exchange, FreshToken
<1>6. Renewed(codes[code]) \in Grant
  BY <1>2 DEF ServerInv, TypeOK, Renewed, Grant
<1>7. TypeOK'
  BY <1>1, <1>6 DEF ServerInv, TypeOK, Exchange, Without, Reply, Answer, Redeemed
<1>8. (OneTokenPerCode /\ RefusalIsFinal /\ TokenNotRefused /\ RedeemedWasPublished)'
  <2>1. OneTokenPerCode'
    BY <1>1, <1>4 DEF ServerInv, TypeOK, Exchange, OneTokenPerCode
  <2>2. (RefusalIsFinal /\ TokenNotRefused)'
    BY <1>4, <1>5 DEF ServerInv, TypeOK, Exchange, Reply, RefusalIsFinal, TokenNotRefused
  <2>3. RedeemedWasPublished'
    BY <1>4 DEF ServerInv, TypeOK, Exchange, RedeemedWasPublished
  <2> QED BY <2>1, <2>2, <2>3
<1>9. CodeIsUnused'
  BY <1>1 DEF ServerInv, TypeOK, Exchange, Without, CodeIsUnused
<1>10. TokenIsWhatWasOffered'
  <2>1. ASSUME NEW t \in Token, t # token, tokens'[t] # None
        PROVE  tokens'[t] = tokens[t] /\ redeemed'[t] = redeemed[t] /\ offers' = offers
    BY <2>1 DEF ServerInv, TypeOK, Exchange
  <2>2. /\ tokens'[token] = Renewed(codes[code])
        /\ redeemed'[token] = [code |-> code, at |-> now, presented |-> request.txCode]
        /\ offers' = offers
    BY DEF ServerInv, TypeOK, Exchange
  <2>3. /\ tokens'[token].subject = offers[code].subject
        /\ tokens'[token].configurations = offers[code].configurations
        /\ tokens'[token].expiresAt = now + TokenTtl
        /\ request.txCode = offers[code].txCode
        /\ now < offers[code].at + CodeTtl
    BY <1>1, <1>2, <1>3, <1>4, <2>2 DEF ServerInv, TypeOK, CodeIsUnused, Renewed, Grant, Offered
  <2>4. offers[code] # None /\ redeemed'[token] # None
    BY <1>1, <1>4, <2>2 DEF Redeemed, ServerInv, TypeOK
  <2>5. ASSUME NEW t \in Token, t # token, tokens'[t] # None
        PROVE  LET exchange == redeemed'[t]
                   offered == offers'[exchange.code]
               IN  /\ exchange # None /\ offered # None
                   /\ offered.published
                   /\ tokens'[t].subject = offered.subject
                   /\ tokens'[t].configurations = offered.configurations
                   /\ exchange.presented = offered.txCode
                   /\ exchange.at < offered.at + CodeTtl
                   /\ tokens'[t].expiresAt = exchange.at + TokenTtl
    BY <2>1, <2>5 DEF ServerInv, TokenIsWhatWasOffered
  <2> QED BY <1>4, <2>2, <2>3, <2>4, <2>5 DEF TokenIsWhatWasOffered
<1> QED BY <1>7, <1>8, <1>9, <1>10 DEF ServerInv

(* grant_for() forgets the token it does not honour.                       *)
LEMMA DismissKeeps ==
    ASSUME ServerInv, NEW token \in Token, Dismiss(token)
    PROVE  ServerInv'
<1>1. TypeOK'
  BY DEF ServerInv, TypeOK, Dismiss, Without, Answer
<1>2. (OneTokenPerCode /\ CodeIsUnused /\ RedeemedWasPublished)'
  BY DEF ServerInv, Dismiss, OneTokenPerCode, CodeIsUnused, RedeemedWasPublished
<1>3. (RefusalIsFinal /\ TokenNotRefused /\ TokenIsWhatWasOffered)'
  BY DEF ServerInv, TypeOK, Dismiss, Without, RefusalIsFinal, TokenNotRefused,
     TokenIsWhatWasOffered
<1> QED BY <1>1, <1>2, <1>3 DEF ServerInv

(* The actions that leave the stores and the history alone. *)
LEMMA IdleKeeps ==
    ASSUME ServerInv, UNCHANGED <<stores, history>>, now' \in Nat, answer' \in Answer,
           RefusalIsFinal'
    PROVE  ServerInv'
  BY DEF ServerInv, TypeOK, stores, history, OneTokenPerCode, TokenIsWhatWasOffered,
     CodeIsUnused, RedeemedWasPublished, TokenNotRefused

(* Every call, every move of the clock and a restart keep the invariant.   *)
LEMMA NextServerInv == ServerInv /\ [Next \/ StepBack]_vars => ServerInv'
<1> SUFFICES ASSUME ServerInv, [Next \/ StepBack]_vars PROVE ServerInv'
  OBVIOUS
<1> USE TtlAssumption, NoneAssumption
<1>1. ASSUME NEW request \in Request, RefuseRequest(request) \/ RefuseTransactionCode(request)
      PROVE  ServerInv'
  <2>1. request.code \in Code \cup {None}
    BY DEF Request
  <2>2. UNCHANGED <<stores, history>> /\ now' \in Nat
    BY <1>1 DEF RefuseRequest, RefuseTransactionCode, ServerInv, TypeOK
  <2>3. /\ answer'.outcome \in Errors
        /\ answer' = [call |-> "redeem", code |-> request.code, token |-> None,
                      outcome |-> answer'.outcome]
    BY <1>1 DEF RefuseRequest, RefuseTransactionCode, Reply, TransactionCodeError, Errors
  <2>4. answer' \in Answer /\ RefusalIsFinal'
    BY <2>1, <2>3 DEF Answer, Errors, RefusalIsFinal
  <2> QED BY <2>2, <2>4, IdleKeeps
<1>2. ASSUME NEW token \in Token, Honour(token) PROVE ServerInv'
  <2>1. UNCHANGED <<stores, history>> /\ now' \in Nat /\ answer' \in Answer
    BY <1>2 DEF Honour, ServerInv, TypeOK, Answer
  <2>2. RefusalIsFinal'
    BY <1>2 DEF Honour, Holds, Usable, ServerInv, TypeOK, TokenNotRefused, history,
       RefusalIsFinal
  <2> QED BY <2>1, <2>2, IdleKeeps
<1>3. CASE Tick \/ StepBack
  <2>1. UNCHANGED <<stores, history>> /\ now' \in Nat /\ UNCHANGED answer
    BY <1>3 DEF Tick, StepBack, ServerInv, TypeOK
  <2>2. answer' \in Answer /\ RefusalIsFinal'
    BY <2>1 DEF ServerInv, TypeOK, history, RefusalIsFinal
  <2> QED BY <2>1, <2>2, IdleKeeps
<1>4. CASE Restart
  BY <1>4 DEF Restart, history, ServerInv, TypeOK, OneTokenPerCode, RefusalIsFinal,
     TokenIsWhatWasOffered, CodeIsUnused, RedeemedWasPublished, TokenNotRefused,
     NoAnswer, Answer
<1>5. CASE UNCHANGED vars
  <2>1. UNCHANGED <<stores, history>> /\ now' \in Nat /\ UNCHANGED answer
    BY <1>5 DEF vars, ServerInv, TypeOK
  <2>2. answer' \in Answer /\ RefusalIsFinal'
    BY <2>1 DEF ServerInv, TypeOK, history, RefusalIsFinal
  <2> QED BY <2>1, <2>2, IdleKeeps
<1>6. CASE Call
  BY <1>1, <1>2, <1>6, OfferKeeps, RefuseCodeKeeps, ExchangeKeeps, DismissKeeps DEF Call
<1> QED BY <1>3, <1>4, <1>5, <1>6 DEF Next

(* So it holds in every state the server reaches on a wall clock.          *)
LEMMA WallServerInv == WallSpec => []ServerInv
<1>1. Init => ServerInv
  BY InitServerInv
<1>2. ServerInv /\ [Next \/ StepBack]_vars => ServerInv'
  BY NextServerInv
<1> QED BY <1>1, <1>2, PTL DEF WallSpec

(* redeem() gives out at most one access token for a pre-authorized code.  *)
THEOREM WallOneTokenPerCode == WallSpec => []OneTokenPerCode
<1>1. ServerInv => OneTokenPerCode
  BY DEF ServerInv
<1> QED BY <1>1, WallServerInv, PTL

(* What redeem() or grant_for() refused as unknown, used or expired is     *)
(* never accepted later, because both forget it, even if the clock is set  *)
(* back to before its expiry.                                              *)
THEOREM WallRefusalIsFinal == WallSpec => []RefusalIsFinal
<1>1. ServerInv => RefusalIsFinal
  BY DEF ServerInv
<1> QED BY <1>1, WallServerInv, PTL

(* An access token stands for what its code was offered for, was bought    *)
(* in time and with the right transaction code, and lasts token_ttl.       *)
THEOREM WallTokenIsWhatWasOffered == WallSpec => []TokenIsWhatWasOffered
<1>1. ServerInv => TokenIsWhatWasOffered
  BY DEF ServerInv
<1> QED BY <1>1, WallServerInv, PTL

(* The variables keep their types. *)
THEOREM WallTypeOK == WallSpec => []TypeOK
<1>1. ServerInv => TypeOK
  BY DEF ServerInv
<1> QED BY <1>1, WallServerInv, PTL

(* redeem() complains about the form of the transaction code only while    *)
(* the code is live, and leaves the code in the store.                     *)
LEMMA WallTransactionCodeErrorsCanBeRetried ==
    WallSpec => TransactionCodeErrorsCanBeRetried
<1> DEFINE Retriable ==
      answer' # answer /\ answer'.outcome \in {"invalid_request", "TypeError"}
      => Usable(codes[answer'.code]) /\ codes'[answer'.code] = codes[answer'.code]
<1>1. ASSUME [Next \/ StepBack]_vars PROVE [Retriable]_vars
  <2>1. ASSUME NEW request \in Request, RefuseTransactionCode(request) PROVE Retriable
    BY <2>1 DEF RefuseTransactionCode, Reply, Holds, stores
  <2>2. ASSUME NEW request \in Request,
               \/ RefuseRequest(request) \/ RefuseCode(request)
               \/ \E token \in Token : Exchange(request, token)
        PROVE  answer'.outcome \notin {"invalid_request", "TypeError"}
    BY <2>2 DEF RefuseRequest, RefuseCode, Exchange, Reply
  <2>3. ASSUME NEW token \in Token, Honour(token) \/ Dismiss(token)
        PROVE  answer'.outcome \notin {"invalid_request", "TypeError"}
    BY <2>3 DEF Honour, Dismiss
  <2>4. CASE Restart
    BY <2>4 DEF Restart, NoAnswer
  <2>5. CASE Tick \/ StepBack
    BY <2>5 DEF Tick, StepBack
  <2>6. ASSUME NEW code \in Code, NEW subject \in Subject,
               NEW configurations \in SUBSET Configuration,
               NEW txCode \in TxCode \cup {None}, NEW wellFormed \in BOOLEAN,
               Offer(code, subject, configurations, txCode, wellFormed)
        PROVE  answer' = answer
    BY <2>6 DEF Offer
  <2> QED BY <1>1, <2>1, <2>2, <2>3, <2>4, <2>5, <2>6 DEF Next, Call
<1> QED BY <1>1, PTL DEF WallSpec, TransactionCodeErrorsCanBeRetried

(* A live code leaves the store only in exchange for a token of the same   *)
(* subject: no refusal and no other Wallet can spoil it.                   *)
LEMMA WallLiveCodeLeavesOnlyAsToken == WallSpec => LiveCodeLeavesOnlyAsToken
<1> DEFINE Bought(c) == \E t \in Token :
              /\ redeemed[t] = None /\ redeemed'[t] # None
              /\ redeemed'[t].code = c
              /\ tokens'[t].subject = codes[c].subject
           Step == \A c \in Code :
              Usable(codes[c]) /\ codes'[c] = None /\ ~Restart
              => \E t \in Token : /\ redeemed[t] = None /\ redeemed'[t] # None
                                 /\ redeemed'[t].code = c
                                 /\ tokens'[t].subject = codes[c].subject
<1> USE TtlAssumption, NoneAssumption
<1>1. ASSUME ServerInv, [Next \/ StepBack]_vars PROVE [Step]_vars
  <2>1. ASSUME NEW request \in Request, NEW token \in Token, Exchange(request, token),
               NEW c \in Code, Usable(codes[c]), codes'[c] = None
        PROVE  Bought(c)
    <3>1. c = request.code
      BY <1>1, <2>1 DEF ServerInv, TypeOK, Exchange, Without, Usable
    <3>2. tokens'[token].subject = codes[c].subject
      BY <1>1, <2>1, <3>1 DEF ServerInv, TypeOK, Exchange, Renewed, Grant, Usable
    <3>3. /\ redeemed[token] = None
          /\ redeemed'[token] =
               [code |-> c, at |-> now, presented |-> request.txCode]
      BY <1>1, <2>1, <3>1 DEF ServerInv, TypeOK, Exchange, FreshToken
    <3>4. redeemed'[token] # None
      BY <1>1, <3>3 DEF ServerInv, TypeOK, Redeemed, Request
    <3> QED BY <3>2, <3>3, <3>4
  <2>2. ASSUME NEW request \in Request, RefuseCode(request),
               NEW c \in Code, Usable(codes[c])
        PROVE  codes'[c] # None
    BY <1>1, <2>2 DEF ServerInv, TypeOK, RefuseCode, Holds, Without, Usable
  <2>3. ASSUME NEW code \in Code, NEW subject \in Subject,
               NEW configurations \in SUBSET Configuration,
               NEW txCode \in TxCode \cup {None}, NEW wellFormed \in BOOLEAN,
               Offer(code, subject, configurations, txCode, wellFormed),
               NEW c \in Code, Usable(codes[c])
        PROVE  codes'[c] # None
    <3>1. codes[code] = None
      BY <1>1, <2>3 DEF Offer, FreshCode, ServerInv, CodeIsUnused
    <3> QED BY <1>1, <2>3, <3>1 DEF ServerInv, TypeOK, Offer, Usable
  <2>4. ASSUME UNCHANGED codes, NEW c \in Code, Usable(codes[c])
        PROVE  codes'[c] # None
    BY <2>4 DEF Usable
  <2>5. ASSUME NEW request \in Request, RefuseRequest(request) \/ RefuseTransactionCode(request)
        PROVE  UNCHANGED codes
    BY <2>5 DEF RefuseRequest, RefuseTransactionCode, stores
  <2>6. ASSUME NEW token \in Token, Honour(token) \/ Dismiss(token)
        PROVE  UNCHANGED codes
    BY <2>6 DEF Honour, Dismiss, stores
  <2>7. ASSUME Tick \/ StepBack PROVE UNCHANGED codes
    BY <2>7 DEF Tick, StepBack, stores
  <2>8. ASSUME NEW c \in Code, Usable(codes[c]), codes'[c] = None, ~Restart
        PROVE  Bought(c)
    <3> HIDE DEF Bought
    <3>1. ~UNCHANGED codes
      BY <2>4, <2>8
    <3>2. Call
      BY <1>1, <2>7, <2>8, <3>1 DEF Next, vars, stores
    <3>3. CASE \E code \in Code, subject \in Subject,
                  configurations \in SUBSET Configuration,
                  txCode \in TxCode \cup {None}, wellFormed \in BOOLEAN :
                  Offer(code, subject, configurations, txCode, wellFormed)
      BY <2>3, <2>8, <3>3
    <3>4. CASE \E request \in Request, token \in Token : Exchange(request, token)
      BY <2>1, <2>8, <3>4
    <3>5. CASE \E request \in Request :
                  \/ RefuseRequest(request) \/ RefuseCode(request)
                  \/ RefuseTransactionCode(request)
      BY <2>2, <2>5, <2>8, <3>1, <3>5
    <3>6. CASE \E token \in Token : Honour(token) \/ Dismiss(token)
      BY <2>6, <3>1, <3>6
    <3> QED BY <3>2, <3>3, <3>4, <3>5, <3>6 DEF Call
  <2> QED BY <2>8
<1> QED BY <1>1, WallServerInv, PTL DEF WallSpec, LiveCodeLeavesOnlyAsToken

(* redeem() and grant_for() leave a live code to the one it was made for,  *)
(* whatever is presented to them and by whom.                              *)
THEOREM WallLiveCodesAreSafe == WallSpec => LiveCodesAreSafe
  BY WallLiveCodeLeavesOnlyAsToken, WallTransactionCodeErrorsCanBeRetried
  DEF LiveCodesAreSafe

----------------------------------------------------------------------------
(* Refinement of SingleUse, on a monotone clock: every step of the server  *)
(* is one of the abstract machine, or changes the phase of no code.        *)
LEMMA StepRefines ==
    ServerInv /\ ServerInv' /\ [Next]_vars
      => [Abstract!Next]_[c \in Code |-> CodePhase(c)]
<1> DEFINE phase == [c \in Code |-> CodePhase(c)]
<1> SUFFICES ASSUME ServerInv, ServerInv', [Next]_vars
             PROVE  Abstract!Next \/ phase' = phase
  OBVIOUS
<1> USE TtlAssumption, NoneAssumption
<1>1. ASSUME NEW code \in Code, NEW subject \in Subject,
             NEW configurations \in SUBSET Configuration,
             NEW txCode \in TxCode \cup {None}, NEW wellFormed \in BOOLEAN,
             Offer(code, subject, configurations, txCode, wellFormed)
      PROVE  Abstract!Next
  <2>1. CodePhase(code) = "unissued" /\ UNCHANGED <<now, redeemed>>
    BY <1>1 DEF Offer, FreshCode, CodePhase
  <2>2. \A t \in Token : redeemed[t] # None => redeemed[t].code # code
    BY <2>1, <1>1 DEF Offer, FreshCode, ServerInv, RedeemedWasPublished
  <2>3. offers'[code] # None
    BY <1>1 DEF Offer, ServerInv, TypeOK, CodeIsUnused
  <2>4. CodePhase(code)' \in {"live", "dead"}
    BY <2>1, <2>2, <2>3 DEF CodePhase
  <2>5. \A c \in Code \ {code} : CodePhase(c)' = CodePhase(c)
    BY <1>1, <2>1 DEF ServerInv, TypeOK, Offer, CodePhase, Usable, Expired
  <2>6. phase' = [phase EXCEPT ![code] = CodePhase(code)']
    BY <2>5
  <2>7. Abstract!Issue(code)
    BY <2>1, <2>4, <2>6 DEF Abstract!Issue
  <2> QED BY <2>7 DEF Abstract!Next
<1>2. ASSUME NEW request \in Request, RefuseCode(request) PROVE phase' = phase
  <2>1. /\ request.code \in Code /\ ~Usable(codes[request.code])
        /\ codes' = Without(codes, request.code)
        /\ UNCHANGED <<now, offers, redeemed>>
    BY <1>2 DEF RefuseCode, Holds, Sendable, ValidRequest, Supported, Request
  <2>2. \A c \in Code : Usable(codes[c])' <=> Usable(codes[c])
    BY <2>1 DEF ServerInv, TypeOK, Without, Usable, Expired
  <2>3. \A c \in Code : CodePhase(c)' = CodePhase(c)
    BY <2>1, <2>2 DEF CodePhase
  <2> QED BY <2>3
<1>3. ASSUME NEW request \in Request, NEW token \in Token, Exchange(request, token)
      PROVE  Abstract!Next
  <2> DEFINE code == request.code
  <2>1. /\ code \in Code /\ Usable(codes[code]) /\ Presentable(code)
        /\ redeemed[token] = None
        /\ redeemed' = [redeemed EXCEPT ![token] =
                          [code |-> code, at |-> now, presented |-> request.txCode]]
        /\ codes'[code] = None /\ UNCHANGED <<now, offers>>
        /\ \A c \in Code \ {code} : codes'[c] = codes[c]
    BY <1>3 DEF Exchange, Holds, Sendable, ValidRequest, Supported, Request, FreshToken,
       ServerInv, TypeOK, Without
  <2>2. CodePhase(code) = "live"
    BY <2>1 DEF ServerInv, CodeIsUnused, CodePhase, Presentable, Usable
  <2>3. redeemed'[token] # None /\ redeemed'[token].code = code
    <3>1. redeemed'[token] = [code |-> code, at |-> now, presented |-> request.txCode]
      BY <2>1 DEF ServerInv, TypeOK
    <3>2. request.txCode \in TxCode \cup {None}
      BY DEF Request
    <3>3. redeemed'[token] \in Redeemed
      BY <2>1, <3>1, <3>2 DEF ServerInv, TypeOK, Redeemed
    <3> QED BY <3>1, <3>3
  <2>4. CodePhase(code)' = "spent"
    BY <2>1, <2>2, <2>3 DEF CodePhase
  <2>5. ASSUME NEW c \in Code \ {code} PROVE CodePhase(c)' = CodePhase(c)
    <3>1. (\E t \in Token : redeemed'[t] # None /\ redeemed'[t].code = c)
          <=> (\E t \in Token : redeemed[t] # None /\ redeemed[t].code = c)
      BY <2>1, <2>3 DEF ServerInv, TypeOK
    <3>2. Usable(codes[c])' <=> Usable(codes[c])
      BY <2>1 DEF Usable, Expired
    <3> QED BY <2>1, <3>1, <3>2 DEF CodePhase
  <2>6. phase' = [phase EXCEPT ![code] = "spent"]
    BY <2>4, <2>5
  <2>7. Abstract!Spend(code)
    BY <2>1, <2>2, <2>6 DEF Abstract!Spend
  <2> QED BY <2>1, <2>7 DEF Abstract!Next
<1>4. ASSUME Tick \/ Restart PROVE Abstract!Next
  <2> DEFINE lapsed == {c \in Code : CodePhase(c) = "live" /\ CodePhase(c)' = "dead"}
  <2>1. UNCHANGED <<offers, redeemed>>
    BY <1>4 DEF Tick, Restart, history
  <2>2. \A c \in Code : Usable(codes[c])' => Usable(codes[c])
    BY <1>4 DEF ServerInv, TypeOK, Tick, Restart, stores, Usable, Expired, Grant
  <2>3. \A c \in Code \ lapsed : CodePhase(c)' = CodePhase(c)
    BY <2>1, <2>2 DEF CodePhase
  <2>4. \A c \in lapsed : phase[c] = "live" /\ phase'[c] = "dead"
    OBVIOUS
  <2>5. phase' = [c \in Code |-> IF c \in lapsed THEN "dead" ELSE phase[c]]
    BY <2>3
  <2>6. Abstract!Lapse(lapsed) /\ lapsed \in SUBSET Code
    BY <2>4, <2>5 DEF Abstract!Lapse
  <2> QED BY <2>6 DEF Abstract!Next
<1>5. ASSUME UNCHANGED <<codes, now, offers, redeemed>> PROVE phase' = phase
  BY <1>5 DEF CodePhase, Usable, Expired
<1>6. ASSUME NEW request \in Request, RefuseRequest(request) \/ RefuseTransactionCode(request)
      PROVE  phase' = phase
  BY <1>5, <1>6 DEF RefuseRequest, RefuseTransactionCode, stores, history
<1>7. ASSUME NEW token \in Token, Honour(token) \/ Dismiss(token) PROVE phase' = phase
  BY <1>5, <1>7 DEF Honour, Dismiss, stores, history
<1>8. ASSUME UNCHANGED vars PROVE phase' = phase
  BY <1>5, <1>8 DEF vars, stores, history
<1> QED BY <1>1, <1>2, <1>3, <1>4, <1>6, <1>7, <1>8 DEF Next, Call

(* On a monotone clock the server implements SingleUse for any number of   *)
(* codes: a code is exchanged only while live, and never comes back.       *)
THEOREM ServerImplementsSingleUse == Spec => CodesAreSingleUse
<1>1. Init => Abstract!Init
  BY DEF Init, Abstract!Init, CodePhase
<1>2. [Next]_vars => [Next \/ StepBack]_vars
  OBVIOUS
<1>3. Spec => WallSpec
  BY <1>2, PTL DEF Spec, WallSpec
<1>4. Spec => []ServerInv
  BY <1>3, WallServerInv, PTL
<1> QED BY <1>1, <1>4, StepRefines, PTL DEF Spec, CodesAreSingleUse, Abstract!Spec
=============================================================================
