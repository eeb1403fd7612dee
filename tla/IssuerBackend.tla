--------------------------- MODULE IssuerBackend ---------------------------
(***************************************************************************)
(* The endpoints of server_fastapi/app.py in front of the                  *)
(* InMemoryIssuerBackend of reference.py, with its InMemoryTransaction-    *)
(* Store. Everything runs on one event loop; a handler runs undisturbed    *)
(* from one `await' to the next. The only await that suspends is the one   *)
(* on `mint', the deployment's coroutine: while a call is "minting" other  *)
(* calls are served.                                                       *)
(*                                                                         *)
(* `mint' is external. It issues (perhaps with a notification_id), opens a *)
(* transaction and defers, or raises. On a poll it answers as models/      *)
(* deferred.py says: the credentials, or the unchanged transaction_id.     *)
(*                                                                         *)
(* The variables from `opened' on are history. An operator named after a   *)
(* slip (CloseNothing, ...) is the mutant of the definition that follows   *)
(* it, used by no action.                                                  *)
(***************************************************************************)
EXTENDS Naturals, FiniteSets

CONSTANTS
    Call,            \* HTTP calls that can be in flight at the same time
    Tx,              \* transaction identifiers
    Configuration,   \* credential_configurations_supported
    Notification,    \* notification identifiers
    None

(* A name in a request: absent (None in Python), the empty string, an      *)
(* unknown one, or one of ours.                                            *)
Names == {"absent", "empty", "unknown"} \cup Configuration

ASSUME NamesAssumption == {"absent", "empty", "unknown"} \cap Configuration = {}
ASSUME NoneAssumption == None \notin Tx
ASSUME CallAssumption == IsFiniteSet(Call)

(* Proofs of no type, of two, or with an empty array are one case.         *)
Request == [identifier : {"absent", "empty", "known"}, configuration : Names,
            proofs : {"absent", "one type", "otherwise"}]

Exceptions == {"CredentialRequestError", "DeferredCredentialError", "other"}

Handling == [stage : {"idle", "minting", "answered"},
             endpoint : {"none", "credential", "deferred"},
             request : Request, tx : Tx \cup {None},
             status : {0, 200, 202, 204, 400, 401, 422, 500},
             raised : Exceptions \cup {"none"}]

NoRequest == [identifier |-> "absent", configuration |-> "absent", proofs |-> "absent"]

Idle == [stage |-> "idle", endpoint |-> "none", request |-> NoRequest, tx |-> None,
         status |-> 0, raised |-> "none"]

VARIABLES
    call,            \* what each HTTP call is doing, and how it was answered
    open,            \* _open: the transactions of the store
    notifications,   \* the notification identifiers reported back
    opened,          \* transactions ever opened
    told,            \* transactions a Wallet was told of, with a 202
    collected        \* how often the credentials of a transaction were handed out

vars == <<call, open, notifications, opened, told, collected>>

TypeOK ==
    /\ call \in [Call -> Handling]
    /\ open \subseteq opened
    /\ opened \subseteq Tx
    /\ told \subseteq opened
    /\ notifications \subseteq Notification
    /\ collected \in [Tx -> 0 .. Cardinality(Call) + 1]

Init ==
    /\ call = [w \in Call |-> Idle]
    /\ open = {}
    /\ notifications = {}
    /\ opened = {}
    /\ told = {}
    /\ collected = [t \in Tx |-> 0]

----------------------------------------------------------------------------
Free(w) == call[w].stage # "minting"

(* Of the answer only a 202 names a transaction.                           *)
Answer(w, tx, status, raised) ==
    call' = [call EXCEPT ![w] =
               [stage |-> "answered", endpoint |-> "none", request |-> NoRequest,
                tx |-> tx, status |-> status, raised |-> raised]]

Mint(w, endpoint, request, tx) ==
    call' = [call EXCEPT ![w] =
               [stage |-> "minting", endpoint |-> endpoint, request |-> request,
                tx |-> tx, status |-> 0, raised |-> "none"]]

(* Python's truth of an optional string. *)
Truthy(name) == name \notin {"absent", "empty"}

(* CredentialRequest._validate_identification_and_proofs *)
ValidRequest(request) ==
    /\ Truthy(request.identifier) # Truthy(request.configuration)
    /\ request.proofs # "otherwise"

(* issue_credential() asks whether the configuration is None, not whether  *)
(* it is empty.                                                            *)
KnownConfigurationIfTruthy(request) ==
    Truthy(request.configuration) => request.configuration \in Configuration

KnownConfiguration(request) ==
    request.configuration # "absent" => request.configuration \in Configuration

(* A call without a bearer token never reaches a handler. *)
Unauthorized(w) ==
    /\ Free(w)
    /\ Answer(w, None, 401, "none")
    /\ UNCHANGED <<open, notifications, opened, told, collected>>

(* Nor does one whose body is no JSON object: FastAPI answers it before    *)
(* any of the three POST handlers that take a payload.                     *)
Unprocessable(w) ==
    /\ Free(w)
    /\ Answer(w, None, 422, "none")
    /\ UNCHANGED <<open, notifications, opened, told, collected>>

(* POST /credential refused before minting: the body does not validate, or *)
(* the backend raises unknown_credential_configuration.                    *)
RefuseCredential(w, request) ==
    /\ Free(w)
    /\ \/ ~ValidRequest(request) /\ Answer(w, None, 400, "none")
       \/ /\ ValidRequest(request) /\ ~KnownConfiguration(request)
          /\ Answer(w, None, 400, "CredentialRequestError")
    /\ UNCHANGED <<open, notifications, opened, told, collected>>

(* POST /credential up to the await on mint. *)
BeginCredential(w, request) ==
    /\ Free(w) /\ ValidRequest(request) /\ KnownConfiguration(request)
    /\ Mint(w, "credential", request, None)
    /\ UNCHANGED <<open, notifications, opened, told, collected>>

(* POST /deferred_credential refused: the body does not validate, or the   *)
(* store does not know the transaction.                                    *)
RefuseDeferred(w, tx) ==
    /\ Free(w)
    /\ \/ Answer(w, None, 400, "none")
       \/ tx \notin open /\ Answer(w, None, 400, "DeferredCredentialError")
    /\ UNCHANGED <<open, notifications, opened, told, collected>>

(* POST /deferred_credential: the payload is read, then mint is awaited.   *)
(* Transaction identifiers are random: a Wallet polls what it was told of. *)
BeginDeferredClosing(w, tx) ==
    /\ Free(w) /\ tx \in open \cap told
    /\ open' = open \ {tx}
    /\ Mint(w, "deferred", NoRequest, tx)
    /\ UNCHANGED <<notifications, opened, told, collected>>

BeginDeferred(w, tx) ==
    /\ Free(w) /\ tx \in open \cap told
    /\ Mint(w, "deferred", NoRequest, tx)
    /\ UNCHANGED <<open, notifications, opened, told, collected>>

----------------------------------------------------------------------------
(* What mint does, and the rest of the handler once it returned.           *)

(* InMemoryTransactionStore.close() does not mind an unknown transaction.  *)
CloseNothing(tx) == open
Close(tx) == open \ {tx}

(* mint stores a transaction, before it answers or fails. Its payload is   *)
(* taken not to be None: open() takes any value, but a poll would read None *)
(* as an unknown transaction (reference.py:101-103, :176).                 *)
OpenTransaction(w) ==
    /\ call[w].stage = "minting" /\ call[w].endpoint = "credential" /\ call[w].tx = None
    /\ \E tx \in Tx \ opened :
         /\ open' = open \cup {tx}
         /\ opened' = opened \cup {tx}
         /\ call' = [call EXCEPT ![w].tx = tx]
    /\ UNCHANGED <<notifications, told, collected>>

Response == [credentials : BOOLEAN, transaction : BOOLEAN, interval : BOOLEAN,
             notification : BOOLEAN]   \* whether each field is there

(* CredentialResponse._validate_immediate_or_deferred: mint cannot build   *)
(* anything else, it would raise.                                          *)
ValidResponseMixed(response) ==
    /\ response.credentials \/ response.transaction
    /\ response.transaction => response.interval
    /\ response.notification => response.credentials

ValidResponse(response) ==
    /\ response.credentials # response.transaction
    /\ response.interval = response.transaction
    /\ response.notification => response.credentials

(* Bound: counting stops beyond the number of calls. *)
Again(count) == IF count <= Cardinality(Call) THEN count + 1 ELSE count

(* mint returns. issue_deferred() closes the transaction if there are      *)
(* credentials; the router answers 202 if there is a transaction_id.       *)
Respond(w, response) ==
    LET tx == call[w].tx
        poll == call[w].endpoint = "deferred"
    IN  /\ call[w].stage = "minting"
        /\ ValidResponse(response)
        /\ poll \/ response.transaction = (tx # None)
        /\ open' = IF poll /\ response.credentials THEN Close(tx) ELSE open
        /\ collected' = IF poll /\ response.credentials
                        THEN [collected EXCEPT ![tx] = Again(@)] ELSE collected
        /\ told' = IF response.transaction THEN told \cup {tx} ELSE told
        /\ IF response.transaction THEN Answer(w, tx, 202, "none")
           ELSE Answer(w, None, 200, "none")
        /\ UNCHANGED <<notifications, opened>>

(* The except clauses: each endpoint renders its own error, and any other  *)
(* exception leaves the handler as a 500.                                  *)
RenderedAsNotFound(endpoint, exception) == 404
Rendered(endpoint, exception) ==
    IF \/ endpoint = "credential" /\ exception = "CredentialRequestError"
       \/ endpoint = "deferred" /\ exception = "DeferredCredentialError"
    THEN 400 ELSE 500

(* mint raises: the transactions stay as they are. *)
Raise(w, exception) ==
    /\ call[w].stage = "minting"
    /\ Answer(w, None, Rendered(call[w].endpoint, exception), exception)
    /\ UNCHANGED <<open, notifications, opened, told, collected>>

(* POST /notification; notify() awaits nothing, so one step. *)
Notify(w, id) ==
    /\ Free(w)
    /\ notifications' = notifications \cup {id}
    /\ Answer(w, None, 204, "none")
    /\ UNCHANGED <<open, opened, told, collected>>

RefuseNotification(w) ==
    /\ Free(w)
    /\ Answer(w, None, 400, "none")
    /\ UNCHANGED <<open, notifications, opened, told, collected>>

(* Nothing survives the process, and the calls in flight are cut off. *)
Restart ==
    /\ call' = [w \in Call |-> Idle]
    /\ open' = {}
    /\ notifications' = {}
    /\ UNCHANGED <<opened, told, collected>>

MintReturns(w) ==
    \/ \E response \in Response : Respond(w, response)
    \/ \E exception \in Exceptions : Raise(w, exception)

Arrive(w) ==
    \/ Unauthorized(w) \/ Unprocessable(w)
    \/ \E request \in Request : RefuseCredential(w, request) \/ BeginCredential(w, request)
    \/ \E tx \in Tx : RefuseDeferred(w, tx) \/ BeginDeferred(w, tx)
    \/ \E id \in Notification : Notify(w, id)
    \/ RefuseNotification(w)

Next == (\E w \in Call : Arrive(w) \/ OpenTransaction(w) \/ MintReturns(w)) \/ Restart

Spec == Init /\ [][Next]_vars

(* The Wallet that holds a transaction keeps polling, mint returns, and    *)
(* does not answer every poll with a transaction_id or an exception.       *)
PollFairness ==
    /\ \A w \in Call : WF_vars(MintReturns(w))
    /\ \A tx \in Tx :
         /\ SF_vars(\E w \in Call : BeginDeferred(w, tx))
         /\ SF_vars(\E w \in Call, response \in Response :
                      /\ call[w].tx = tx /\ call[w].endpoint = "deferred"
                      /\ response.credentials /\ Respond(w, response))

LiveSpec == Spec /\ PollFairness

----------------------------------------------------------------------------
(* "A transaction identifier that keeps working is a second way to ask for *)
(* the same credential" (reference.py:108): the credentials of a           *)
(* transaction are handed out once.                                        *)
CollectedOnce == \A tx \in Tx : collected[tx] <= 1

(* Where calls do overlap, a second answer with the credentials can only   *)
(* come from a poll that was under way at the first: once a transaction    *)
(* was collected, no poll of it that begins later reaches mint.            *)
NoPollAfterCollection ==
    [][\A w \in Call, tx \in Tx :
         BeginDeferred(w, tx) => collected[tx] = 0]_vars

(* The polls of a transaction that wait for mint. *)
Polls(tx) == {w \in Call : /\ call[w].stage = "minting" /\ call[w].endpoint = "deferred"
                           /\ call[w].tx = tx}

(* Each time the credentials of a transaction are handed out takes a call  *)
(* that was under way with the others: as often as there are calls and no  *)
(* more, however often mint fails, answers "pending", or the Wallet polls. *)
CollectionsNeedOverlap ==
    \A tx \in Tx : collected[tx] + Cardinality(Polls(tx)) <= Cardinality(Call)

(* A transaction ends only with a poll of it being answered with 200 and   *)
(* its credentials: no exception, refusal or pending answer ends it.       *)
ClosesOnlyWithCredentials ==
    [][\A tx \in Tx : tx \in open /\ tx \notin open' /\ ~Restart
         => \E w \in Call :
              /\ call[w].stage = "minting" /\ call[w].endpoint = "deferred"
              /\ call[w].tx = tx /\ call'[w].status = 200]_vars

(* 202 tells the Wallet to come back: the transaction it names can still   *)
(* be polled, unless another poll has collected the credentials meanwhile  *)
(* or the process was restarted.                                           *)
AcceptedMeansOpen ==
    [][\A w \in Call :
         call[w].stage = "minting" /\ call'[w].stage = "answered" /\ call'[w].status = 202
         => call'[w].tx \in open' \/ collected[call'[w].tx] > 0]_vars

(* mint is only asked for requests that name one thing, and if that is a   *)
(* configuration, one of ours; the model's validator tests for empty       *)
(* names, the backend for missing ones, and only both together do this.    *)
MintSeesAdmissible ==
    \A w \in Call : call[w].stage = "minting" /\ call[w].endpoint = "credential" =>
        LET request == call[w].request
        IN  \/ request.identifier = "known" /\ request.configuration = "absent"
            \/ request.configuration \in Configuration /\ ~Truthy(request.identifier)

(* The Wallet that keeps polling gets its credentials: a transaction it    *)
(* was told of is eventually collected, or lost in a restart.              *)
OpenIsEventuallyCollected ==
    \A tx \in Tx : tx \in open \cap told ~> tx \notin open

(* errors.md: the router renders a CredentialRequestError as a 400.        *)
RefusalsAreRendered ==
    \A w \in Call : call[w].raised = "CredentialRequestError" => call[w].status = 400
=============================================================================
