------------------------ MODULE IssuerBackend_proofs ------------------------
(***************************************************************************)
(* Proofs about IssuerBackend, for any number of calls in flight, of       *)
(* transactions and of configurations. The inductive invariant says whose  *)
(* a transaction is while mint runs: until the answer that tells of it is  *)
(* given it belongs to the one call that opened it, and from then on       *)
(* whatever ends it has collected it.                                      *)
(***************************************************************************)
EXTENDS IssuerBackend, FiniteSetTheorems, TLAPS

(* A call waiting for mint that serves the endpoint. *)
Minting(w, endpoint) == call[w].stage = "minting" /\ call[w].endpoint = endpoint

CollectedIsClosed == \A tx \in Tx : collected[tx] > 0 => tx \in opened /\ tx \notin open

PolledIsToldOf ==
    \A w \in Call : Minting(w, "deferred") =>
        /\ call[w].tx \in told
        /\ call[w].tx \in open \/ collected[call[w].tx] > 0

UntoldBelongsToOneCall ==
    \A w \in Call : Minting(w, "credential") /\ call[w].tx # None =>
        /\ call[w].tx \in open /\ call[w].tx \notin told
        /\ \A v \in Call \ {w} : Minting(v, "credential") => call[v].tx # call[w].tx

MintingServesAnEndpoint ==
    \A w \in Call : call[w].stage = "minting" => call[w].endpoint # "none"

BackendInv ==
    /\ TypeOK
    /\ CollectedIsClosed
    /\ PolledIsToldOf
    /\ UntoldBelongsToOneCall
    /\ MintingServesAnEndpoint
    /\ MintSeesAdmissible

(* There are finitely many calls.                                          *)
LEMMA CallsAreCounted == Cardinality(Call) \in Nat
BY CallAssumption, FS_CardinalityType

(* No calls and no transactions satisfy the invariant. *)
LEMMA InitBackendInv == Init => BackendInv
<1> SUFFICES ASSUME Init PROVE BackendInv
  OBVIOUS
<1>1. Idle \in Handling /\ Idle.stage = "idle"
  BY DEF Idle, Handling, NoRequest, Request, Names, Exceptions
<1>2. TypeOK
  BY <1>1, CallsAreCounted DEF Init, TypeOK
<1> QED BY <1>1, <1>2 DEF Init, BackendInv, CollectedIsClosed, PolledIsToldOf, Minting,
       UntoldBelongsToOneCall, MintingServesAnEndpoint, MintSeesAdmissible

(* An answer concerns its own call, and leaves it waiting for nothing.     *)
LEMMA AnswerFacts ==
    ASSUME TypeOK, NEW w \in Call, NEW tx \in Tx \cup {None},
           NEW status \in {0, 200, 202, 204, 400, 401, 422, 500},
           NEW raised \in Exceptions \cup {"none"}, Answer(w, tx, status, raised)
    PROVE  /\ call' \in [Call -> Handling]
           /\ call'[w].stage = "answered" /\ call'[w].tx = tx /\ call'[w].status = status
           /\ \A v \in Call \ {w} : call'[v] = call[v]
<1> DEFINE c == [stage |-> "answered", endpoint |-> "none", request |-> NoRequest,
                   tx |-> tx, status |-> status, raised |-> raised]
<1>1. NoRequest \in Request
  BY DEF NoRequest, Request, Names
<1>2. c \in Handling /\ c.stage = "answered" /\ c.tx = tx /\ c.status = status
  BY <1>1 DEF Handling
<1>3. call' = [call EXCEPT ![w] = c]
  BY DEF Answer
<1> HIDE DEF c
<1> QED BY <1>2, <1>3 DEF TypeOK

(* An answer that touches no transaction keeps the invariant.              *)
LEMMA AnswerKeepsInv ==
    ASSUME BackendInv, NEW w \in Call, NEW tx \in Tx \cup {None},
           NEW status \in {0, 200, 202, 204, 400, 401, 422, 500},
           NEW raised \in Exceptions \cup {"none"}, Answer(w, tx, status, raised),
           UNCHANGED <<open, opened, told, collected>>, notifications' \subseteq Notification
    PROVE  BackendInv'
<1>1. /\ call' \in [Call -> Handling] /\ call'[w].stage = "answered"
      /\ \A v \in Call \ {w} : call'[v] = call[v]
  BY AnswerFacts DEF BackendInv
<1>2. TypeOK'
  BY <1>1 DEF BackendInv, TypeOK
<1> QED BY <1>1, <1>2 DEF BackendInv, CollectedIsClosed, PolledIsToldOf, Minting,
       UntoldBelongsToOneCall, MintingServesAnEndpoint, MintSeesAdmissible

(* A call that begins to wait for mint.                                    *)
LEMMA MintFacts ==
    ASSUME TypeOK, NEW w \in Call, NEW endpoint \in {"credential", "deferred"},
           NEW request \in Request, NEW tx \in Tx \cup {None}, Mint(w, endpoint, request, tx)
    PROVE  /\ call' \in [Call -> Handling]
           /\ call'[w].stage = "minting" /\ call'[w].endpoint = endpoint
           /\ call'[w].request = request /\ call'[w].tx = tx
           /\ \A v \in Call \ {w} : call'[v] = call[v]
  BY DEF TypeOK, Mint, Handling

LEMMA BeginCredentialInv ==
    ASSUME BackendInv, NEW w \in Call, NEW request \in Request, BeginCredential(w, request)
    PROVE  BackendInv'
<1>1. /\ call' \in [Call -> Handling]
      /\ call'[w].stage = "minting" /\ call'[w].endpoint = "credential"
      /\ call'[w].request = request /\ call'[w].tx = None
      /\ \A v \in Call \ {w} : call'[v] = call[v]
  BY MintFacts DEF BackendInv, BeginCredential
<1>2. UNCHANGED <<open, notifications, opened, told, collected>>
  BY DEF BeginCredential
<1>3. TypeOK'
  BY <1>1, <1>2 DEF BackendInv, TypeOK
<1>4. (CollectedIsClosed /\ PolledIsToldOf /\ UntoldBelongsToOneCall
       /\ MintingServesAnEndpoint)'
  BY <1>1, <1>2, NoneAssumption DEF BackendInv, CollectedIsClosed, PolledIsToldOf, Minting,
     UntoldBelongsToOneCall, MintingServesAnEndpoint
<1>5. \/ request.identifier = "known" /\ request.configuration = "absent"
      \/ request.configuration \in Configuration /\ ~Truthy(request.identifier)
  BY NamesAssumption DEF BeginCredential, ValidRequest, KnownConfiguration, Truthy, Request, Names
<1>6. MintSeesAdmissible'
  BY <1>1, <1>5 DEF BackendInv, MintSeesAdmissible, Truthy
<1> QED BY <1>3, <1>4, <1>6 DEF BackendInv

LEMMA BeginDeferredInv ==
    ASSUME BackendInv, NEW w \in Call, NEW tx \in Tx, BeginDeferred(w, tx) PROVE BackendInv'
<1>1. NoRequest \in Request
  BY DEF NoRequest, Request, Names
<1>2. /\ call' \in [Call -> Handling]
      /\ call'[w].stage = "minting" /\ call'[w].endpoint = "deferred" /\ call'[w].tx = tx
      /\ \A v \in Call \ {w} : call'[v] = call[v]
  BY <1>1, MintFacts DEF BackendInv, BeginDeferred
<1>3. UNCHANGED <<open, notifications, opened, told, collected>> /\ tx \in open \cap told
  BY DEF BeginDeferred
<1>4. TypeOK'
  BY <1>2, <1>3 DEF BackendInv, TypeOK
<1> QED BY <1>2, <1>3, <1>4 DEF BackendInv, CollectedIsClosed, PolledIsToldOf, Minting,
       UntoldBelongsToOneCall, MintingServesAnEndpoint, MintSeesAdmissible

LEMMA OpenTransactionInv ==
    ASSUME BackendInv, NEW w \in Call, OpenTransaction(w) PROVE BackendInv'
<1>1. PICK tx \in Tx \ opened :
          open' = open \cup {tx} /\ opened' = opened \cup {tx}
          /\ call' = [call EXCEPT ![w].tx = tx]
  BY DEF OpenTransaction
<1>2. UNCHANGED <<notifications, told, collected>> /\ Minting(w, "credential")
  BY DEF OpenTransaction, Minting
<1>3. /\ call' \in [Call -> Handling]
      /\ call'[w].stage = "minting" /\ call'[w].endpoint = "credential" /\ call'[w].tx = tx
      /\ call'[w].request = call[w].request
      /\ \A v \in Call \ {w} : call'[v] = call[v]
  BY <1>1, <1>2 DEF BackendInv, TypeOK, Handling, Minting
<1>4. TypeOK'
  BY <1>1, <1>2, <1>3 DEF BackendInv, TypeOK
<1>5. CollectedIsClosed'
  BY <1>1, <1>2 DEF BackendInv, CollectedIsClosed
<1>6. PolledIsToldOf'
  BY <1>1, <1>2, <1>3 DEF BackendInv, PolledIsToldOf, Minting
<1>7. tx \notin told /\ \A v \in Call : Minting(v, "credential") => call[v].tx # tx
  BY <1>1, NoneAssumption DEF BackendInv, TypeOK, UntoldBelongsToOneCall
<1>8. UntoldBelongsToOneCall'
  BY <1>1, <1>2, <1>3, <1>7 DEF BackendInv, UntoldBelongsToOneCall, Minting
<1>9. (MintingServesAnEndpoint /\ MintSeesAdmissible)'
  BY <1>2, <1>3 DEF BackendInv, MintingServesAnEndpoint, MintSeesAdmissible, Minting, Truthy
<1> QED BY <1>4, <1>5, <1>6, <1>8, <1>9 DEF BackendInv

(* mint returns: the one step that collects, closes and tells.             *)
LEMMA RespondInv ==
    ASSUME BackendInv, NEW w \in Call, NEW response \in Response, Respond(w, response)
    PROVE  BackendInv'
<1> DEFINE tx == call[w].tx
           collects == call[w].endpoint = "deferred" /\ response.credentials
<1>1. /\ call[w].stage = "minting" /\ tx \in Tx \cup {None}
      /\ response.transaction => tx \in Tx
      /\ call[w].endpoint = "deferred" => tx \in told /\ tx \in Tx
      /\ open' = IF collects THEN open \ {tx} ELSE open
      /\ collected' = IF collects THEN [collected EXCEPT ![tx] = Again(@)] ELSE collected
      /\ told' = IF response.transaction THEN told \cup {tx} ELSE told
      /\ UNCHANGED <<notifications, opened>>
      /\ collects => ~response.transaction
      /\ call[w].endpoint \in {"credential", "deferred"}
  BY DEF BackendInv, TypeOK, Handling, Respond, Close, ValidResponse, PolledIsToldOf, Minting,
     Response, MintingServesAnEndpoint
<1> HIDE DEF tx
<1>2. /\ call' \in [Call -> Handling] /\ call'[w].stage = "answered"
      /\ \A v \in Call \ {w} : call'[v] = call[v]
  <2>1. CASE response.transaction
    BY <1>1, <2>1, AnswerFacts DEF BackendInv, Respond, Exceptions, tx
  <2>2. CASE ~response.transaction
    BY <1>1, <2>2, AnswerFacts DEF BackendInv, Respond, Exceptions, tx
  <2> QED BY <2>1, <2>2
<1> HIDE DEF collects
<1>3. tx \in Tx =>
        /\ tx \in opened
        /\ call[w].endpoint = "credential" => tx \in open /\ tx \notin told
  BY <1>1, NoneAssumption
  DEF BackendInv, TypeOK, PolledIsToldOf, UntoldBelongsToOneCall, Minting, tx
<1>4. TypeOK'
  <2>1. collected' \in [Tx -> 0 .. Cardinality(Call) + 1]
    <3>1. \A n \in 0 .. Cardinality(Call) + 1 : Again(n) \in 0 .. Cardinality(Call) + 1
      BY CallsAreCounted DEF Again
    <3> QED BY <1>1, <3>1 DEF BackendInv, TypeOK, collects
  <2>2. open' \subseteq opened' /\ told' \subseteq opened'
    BY <1>1, <1>3 DEF BackendInv, TypeOK
  <2> QED BY <1>1, <1>2, <2>1, <2>2 DEF BackendInv, TypeOK
<1>5. CollectedIsClosed'
  BY <1>1, <1>3 DEF BackendInv, TypeOK, CollectedIsClosed
<1>6. PolledIsToldOf'
  <2>1. /\ \A t \in Tx : collected[t] > 0 => collected'[t] > 0
        /\ collects => collected'[tx] > 0
    <3>1. \A n \in 0 .. Cardinality(Call) + 1 : Again(n) > 0
      BY CallsAreCounted DEF Again
    <3> QED BY <1>1, <3>1, CallsAreCounted DEF BackendInv, TypeOK, collects
  <2> QED BY <1>1, <1>2, <2>1 DEF BackendInv, TypeOK, PolledIsToldOf, Minting, Handling
<1>7. UntoldBelongsToOneCall'
  BY <1>1, <1>2, <1>3 DEF BackendInv, UntoldBelongsToOneCall, Minting, collects, tx
<1>8. (MintingServesAnEndpoint /\ MintSeesAdmissible)'
  BY <1>2 DEF BackendInv, MintingServesAnEndpoint, MintSeesAdmissible, Truthy
<1> QED BY <1>4, <1>5, <1>6, <1>7, <1>8 DEF BackendInv

(* A restart loses the calls and the transactions together.                *)
LEMMA RestartInv == ASSUME BackendInv, Restart PROVE BackendInv'
<1>1. Idle \in Handling /\ Idle.stage = "idle"
  BY DEF Idle, Handling, NoRequest, Request, Names, Exceptions
<1>2. TypeOK'
  BY <1>1 DEF BackendInv, TypeOK, Restart
<1> QED BY <1>1, <1>2 DEF BackendInv, Restart, CollectedIsClosed, PolledIsToldOf, Minting,
       UntoldBelongsToOneCall, MintingServesAnEndpoint, MintSeesAdmissible

(* The invariant is inductive. *)
LEMMA NextBackendInv == BackendInv /\ [Next]_vars => BackendInv'
<1> SUFFICES ASSUME BackendInv, [Next]_vars PROVE BackendInv'
  OBVIOUS
<1>1. notifications \subseteq Notification
  BY DEF BackendInv, TypeOK
<1>2. ASSUME NEW w \in Call, Arrive(w) PROVE BackendInv'
  <2>1. CASE Unauthorized(w) \/ Unprocessable(w)
    BY <1>1, <2>1, AnswerKeepsInv DEF Unauthorized, Unprocessable, Exceptions
  <2>2. ASSUME NEW request \in Request, RefuseCredential(w, request) PROVE BackendInv'
    BY <1>1, <2>2, AnswerKeepsInv DEF RefuseCredential, Exceptions
  <2>3. ASSUME NEW tx \in Tx, RefuseDeferred(w, tx) PROVE BackendInv'
    BY <1>1, <2>3, AnswerKeepsInv DEF RefuseDeferred, Exceptions
  <2>4. ASSUME NEW id \in Notification, Notify(w, id) PROVE BackendInv'
    BY <1>1, <2>4, AnswerKeepsInv DEF Notify, Exceptions
  <2>5. CASE RefuseNotification(w)
    BY <1>1, <2>5, AnswerKeepsInv DEF RefuseNotification, Exceptions
  <2> QED BY <1>2, <2>1, <2>2, <2>3, <2>4, <2>5, BeginCredentialInv, BeginDeferredInv DEF Arrive
<1>3. ASSUME NEW w \in Call, NEW exception \in Exceptions, Raise(w, exception)
      PROVE  BackendInv'
  BY <1>1, <1>3, AnswerKeepsInv DEF Raise, Rendered
<1>4. ASSUME UNCHANGED vars PROVE BackendInv'
  BY <1>4 DEF vars, BackendInv, TypeOK, CollectedIsClosed, PolledIsToldOf, Minting,
     UntoldBelongsToOneCall, MintingServesAnEndpoint, MintSeesAdmissible
<1> QED BY <1>2, <1>3, <1>4, OpenTransactionInv, RespondInv, RestartInv DEF Next, MintReturns

LEMMA SpecBackendInv == Spec => []BackendInv
  BY InitBackendInv, NextBackendInv, PTL DEF Spec

(* The variables keep their types.                                         *)
THEOREM BackendTypeOK == Spec => []TypeOK
<1>1. BackendInv => TypeOK
  BY DEF BackendInv
<1> QED BY <1>1, SpecBackendInv, PTL

(* The tests for empty names in the validator and for missing ones in the  *)
(* backend together let mint see only requests for one admissible thing.   *)
THEOREM BackendMintSeesAdmissible == Spec => []MintSeesAdmissible
<1>1. BackendInv => MintSeesAdmissible
  BY DEF BackendInv
<1> QED BY <1>1, SpecBackendInv, PTL

(* A poll that begins after the credentials were handed out is refused.    *)
THEOREM BackendNoPollAfterCollection == Spec => NoPollAfterCollection
<1> DEFINE Step == \A w \in Call, tx \in Tx : BeginDeferred(w, tx) => collected[tx] = 0
<1>1. BackendInv /\ [Next]_vars => [Step]_vars
  BY DEF BackendInv, TypeOK, CollectedIsClosed, BeginDeferred
<1> QED BY <1>1, SpecBackendInv, PTL DEF Spec, NoPollAfterCollection

(* No exception, refusal or pending answer ends a transaction.             *)
THEOREM BackendClosesOnlyWithCredentials == Spec => ClosesOnlyWithCredentials
<1> DEFINE Ends(tx) == \E w \in Call :
               /\ call[w].stage = "minting" /\ call[w].endpoint = "deferred"
               /\ call[w].tx = tx /\ call'[w].status = 200
           Step == \A tx \in Tx : tx \in open /\ tx \notin open' /\ ~Restart => Ends(tx)
<1>1. ASSUME BackendInv, [Next]_vars PROVE [Step]_vars
  <2> SUFFICES ASSUME NEW tx \in Tx, tx \in open, tx \notin open', ~Restart PROVE Ends(tx)
    OBVIOUS
  <2>1. PICK w \in Call, response \in Response : Respond(w, response)
    BY <1>1 DEF vars, Next, Arrive, Unauthorized, Unprocessable, RefuseCredential, BeginCredential,
       RefuseDeferred, BeginDeferred, Notify, RefuseNotification, OpenTransaction,
       MintReturns, Raise
  <2>2. /\ call[w].stage = "minting" /\ call[w].endpoint = "deferred" /\ call[w].tx = tx
        /\ ~response.transaction
    BY <2>1 DEF Respond, Close, ValidResponse, Response
  <2>3. call'[w].status = 200
    BY <1>1, <2>1, <2>2, AnswerFacts DEF BackendInv, Respond, Exceptions
  <2> QED BY <2>2, <2>3
<1> QED BY <1>1, SpecBackendInv, PTL DEF Spec, ClosesOnlyWithCredentials

(* A 202 names a transaction that can be polled, or that another poll has  *)
(* collected in the meantime.                                              *)
THEOREM BackendAcceptedMeansOpen == Spec => AcceptedMeansOpen
<1> DEFINE Answered202(w) == call[w].stage = "minting" /\ call'[w].stage = "answered"
                               /\ call'[w].status = 202
           Step == \A w \in Call :
               Answered202(w) => call'[w].tx \in open' \/ collected[call'[w].tx] > 0
<1>1. ASSUME BackendInv, [Next]_vars PROVE [Step]_vars
  <2> SUFFICES ASSUME NEW w \in Call, Answered202(w), ~UNCHANGED vars
               PROVE  call'[w].tx \in open' \/ collected[call'[w].tx] > 0
    OBVIOUS
  <2>1. call \in [Call -> Handling]
    BY <1>1 DEF BackendInv, TypeOK
  <2>2. ASSUME NEW v \in Call, Arrive(v) \/ OpenTransaction(v) PROVE FALSE
    <3>1. v # w
      BY <2>1, <2>2 DEF Arrive, Unauthorized, Unprocessable, RefuseCredential,
         BeginCredential, RefuseDeferred, BeginDeferred, Notify, RefuseNotification,
         OpenTransaction, Free, Handling
    <3>2. call'[w] = call[w]
      BY <2>1, <2>2, <3>1 DEF Arrive, Unauthorized, Unprocessable, RefuseCredential,
         BeginCredential, RefuseDeferred, BeginDeferred, Notify, RefuseNotification,
         OpenTransaction, Answer, Mint
    <3> QED BY <3>2
  <2>3. ASSUME NEW v \in Call, NEW exception \in Exceptions, Raise(v, exception) PROVE FALSE
    <3>1. /\ call'[v].status \in {400, 500}
          /\ \A u \in Call \ {v} : call'[u] = call[u]
      BY <1>1, <2>3, AnswerFacts DEF BackendInv, Raise, Rendered, Exceptions
    <3> QED BY <3>1
  <2>4. ~Restart
    BY DEF Restart, Idle
  <2>5. PICK v \in Call, response \in Response : Respond(v, response)
    BY <1>1, <2>2, <2>3, <2>4 DEF Next, MintReturns
  <2>6. CASE ~response.transaction
    <3>1. /\ call'[v].status = 200
          /\ \A u \in Call \ {v} : call'[u] = call[u]
      BY <1>1, <2>5, <2>6, AnswerFacts DEF BackendInv, Respond, Exceptions
    <3> QED BY <3>1
  <2>7. CASE response.transaction
    <3>1. call[v].stage = "minting" /\ call[v].endpoint \in {"credential", "deferred"}
      BY <1>1, <2>1, <2>5 DEF BackendInv, Respond, MintingServesAnEndpoint, Handling
    <3>2. call[v].tx \in Tx /\ open' = open
      BY <1>1, <2>1, <2>5, <2>7, <3>1 DEF BackendInv, TypeOK, Respond, ValidResponse, Response,
         PolledIsToldOf, Minting, Handling
    <3>3. /\ call'[v].tx = call[v].tx
          /\ \A u \in Call \ {v} : call'[u] = call[u]
      BY <1>1, <2>5, <2>7, <3>2, AnswerFacts DEF BackendInv, Respond, Exceptions
    <3>4. call[v].tx \in open \/ collected[call[v].tx] > 0
      BY <1>1, <3>1, <3>2, NoneAssumption
      DEF BackendInv, PolledIsToldOf, UntoldBelongsToOneCall, Minting
    <3> QED BY <3>2, <3>3, <3>4
  <2> QED BY <2>6, <2>7
<1> QED BY <1>1, SpecBackendInv, PTL DEF Spec, AcceptedMeansOpen

----------------------------------------------------------------------------
(* A step after which a transaction counts as collected begins no poll of  *)
(* it: it leaves the count alone, or ends the poll that it counts.         *)
LEMMA CollectingEndsAPoll ==
    ASSUME BackendInv, [Next]_vars, NEW tx \in Tx, collected'[tx] > 0
    PROVE  \/ collected'[tx] = collected[tx] /\ Polls(tx)' \subseteq Polls(tx)
           \/ /\ collected'[tx] = Again(collected[tx])
              /\ \E w \in Polls(tx) : Polls(tx)' \subseteq Polls(tx) \ {w}
<1>1. call \in [Call -> Handling]
  BY DEF BackendInv, TypeOK
<1>2. ASSUME NEW w \in Call, NEW t \in Tx, BeginDeferred(w, t)
      PROVE  collected'[tx] = collected[tx] /\ Polls(tx)' \subseteq Polls(tx)
  <2>1. t # tx
    BY <1>2 DEF BeginDeferred, BackendInv, CollectedIsClosed
  <2> QED BY <1>1, <1>2, <2>1 DEF BeginDeferred, Mint, Polls
<1>3. ASSUME NEW w \in Call, Arrive(w), ~\E t \in Tx : BeginDeferred(w, t)
      PROVE  collected'[tx] = collected[tx] /\ Polls(tx)' \subseteq Polls(tx)
  BY <1>1, <1>3 DEF Arrive, Unauthorized, Unprocessable, RefuseCredential,
     BeginCredential, RefuseDeferred, Notify, RefuseNotification, Answer, Mint, Polls
<1>4. ASSUME NEW w \in Call, OpenTransaction(w)
      PROVE  collected'[tx] = collected[tx] /\ Polls(tx)' \subseteq Polls(tx)
  BY <1>1, <1>4 DEF OpenTransaction, Polls
<1>5. ASSUME NEW w \in Call, NEW exception \in Exceptions, Raise(w, exception)
      PROVE  collected'[tx] = collected[tx] /\ Polls(tx)' \subseteq Polls(tx)
  BY <1>1, <1>5 DEF Raise, Answer, Polls
<1>6. ASSUME NEW w \in Call, NEW response \in Response, Respond(w, response)
      PROVE  \/ collected'[tx] = collected[tx] /\ Polls(tx)' \subseteq Polls(tx)
             \/ /\ collected'[tx] = Again(collected[tx])
                /\ \E v \in Polls(tx) : Polls(tx)' \subseteq Polls(tx) \ {v}
  <2>1. Polls(tx)' \subseteq Polls(tx) \ {w}
    BY <1>1, <1>6 DEF Respond, Answer, Polls
  <2>2. CASE call[w].endpoint = "deferred" /\ response.credentials /\ call[w].tx = tx
    <3>1. w \in Polls(tx)
      BY <1>6, <2>2 DEF Respond, Polls
    <3>2. collected'[tx] = Again(collected[tx])
      BY <1>6, <2>2 DEF Respond, BackendInv, TypeOK
    <3> QED BY <2>1, <3>1, <3>2
  <2>3. CASE ~(call[w].endpoint = "deferred" /\ response.credentials /\ call[w].tx = tx)
    BY <1>6, <2>1, <2>3 DEF Respond, BackendInv, TypeOK
  <2> QED BY <2>2, <2>3
<1>7. CASE Restart
  BY <1>7 DEF Restart, Idle, Polls
<1>8. CASE UNCHANGED vars
  BY <1>8 DEF vars, Polls
<1> QED BY <1>2, <1>3, <1>4, <1>5, <1>6, <1>7, <1>8 DEF Next, MintReturns

(* The credentials of a transaction are handed out at most as often as     *)
(* there are calls that can be under way at the same time.                 *)
THEOREM BackendCollectionsNeedOverlap == Spec => []CollectionsNeedOverlap
<1>1. Init => CollectionsNeedOverlap
  <2> SUFFICES ASSUME Init, NEW tx \in Tx
               PROVE  collected[tx] + Cardinality(Polls(tx)) <= Cardinality(Call)
    BY DEF CollectionsNeedOverlap
  <2>1. Polls(tx) = {} /\ collected[tx] = 0
    BY DEF Init, Idle, Polls
  <2> QED BY <2>1, CallsAreCounted, FS_EmptySet
<1>2. ASSUME BackendInv, BackendInv', CollectionsNeedOverlap, [Next]_vars
      PROVE  CollectionsNeedOverlap'
  <2> SUFFICES ASSUME NEW tx \in Tx
               PROVE  collected'[tx] + Cardinality(Polls(tx)') <= Cardinality(Call)
    BY DEF CollectionsNeedOverlap
  <2>1. /\ IsFiniteSet(Polls(tx)) /\ Cardinality(Polls(tx)) \in Nat
        /\ Cardinality(Polls(tx)') \in Nat /\ Cardinality(Polls(tx)') <= Cardinality(Call)
    <3>1. Polls(tx) \subseteq Call /\ Polls(tx)' \subseteq Call
      BY DEF Polls
    <3> QED BY <3>1, CallAssumption, FS_Subset, FS_CardinalityType
  <2>2. /\ collected[tx] \in Nat /\ collected'[tx] \in Nat
        /\ collected[tx] + Cardinality(Polls(tx)) <= Cardinality(Call)
    BY <1>2, CallsAreCounted DEF BackendInv, TypeOK, CollectionsNeedOverlap
  <2>3. CASE collected'[tx] = 0
    BY <2>1, <2>3, CallsAreCounted
  <2>4. CASE collected'[tx] = collected[tx] /\ Polls(tx)' \subseteq Polls(tx)
    <3>1. Cardinality(Polls(tx)') <= Cardinality(Polls(tx))
      BY <2>1, <2>4, FS_Subset
    <3> QED BY <2>1, <2>2, <2>4, <3>1, CallsAreCounted
  <2>5. ASSUME collected'[tx] = Again(collected[tx]),
               NEW w \in Polls(tx), Polls(tx)' \subseteq Polls(tx) \ {w}
        PROVE  collected'[tx] + Cardinality(Polls(tx)') <= Cardinality(Call)
    <3>1. /\ IsFiniteSet(Polls(tx) \ {w})
          /\ Cardinality(Polls(tx) \ {w}) = Cardinality(Polls(tx)) - 1
      BY <2>1, FS_RemoveElement
    <3>2. Cardinality(Polls(tx)') <= Cardinality(Polls(tx)) - 1
      BY <2>5, <3>1, FS_Subset
    <3>3. collected'[tx] <= collected[tx] + 1
      BY <2>2, <2>5, CallsAreCounted DEF Again
    <3> QED BY <2>1, <2>2, <3>2, <3>3, CallsAreCounted
  <2>6. CASE collected'[tx] > 0
    BY <1>2, <2>4, <2>5, <2>6, CollectingEndsAPoll
  <2> QED BY <2>2, <2>3, <2>6
<1> QED BY <1>1, <1>2, SpecBackendInv, PTL DEF Spec

(* What reference.py:108 says holds of an issuer that serves one call at a *)
(* time: the second answer that run issuer_twice finds needs a second call.*)
THEOREM BackendCollectedOnceWithOneCall ==
    ASSUME Cardinality(Call) = 1
    PROVE  Spec => []CollectedOnce
<1>1. BackendInv /\ CollectionsNeedOverlap => CollectedOnce
  <2> SUFFICES ASSUME BackendInv, CollectionsNeedOverlap, NEW tx \in Tx
               PROVE  collected[tx] <= 1
    BY DEF CollectedOnce
  <2>1. Cardinality(Polls(tx)) \in Nat
    <3>1. Polls(tx) \subseteq Call
      BY DEF Polls
    <3> QED BY <3>1, CallAssumption, FS_Subset, FS_CardinalityType
  <2>2. collected[tx] \in Nat /\ collected[tx] + Cardinality(Polls(tx)) <= Cardinality(Call)
    BY CallsAreCounted DEF BackendInv, TypeOK, CollectionsNeedOverlap
  <2> QED BY <2>1, <2>2
<1> QED BY <1>1, SpecBackendInv, BackendCollectionsNeedOverlap, PTL
=============================================================================
