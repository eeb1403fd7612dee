------------------------------ MODULE Threads ------------------------------
(***************************************************************************)
(* InMemoryAuthorizationServer and InMemoryNonceStore under a server that  *)
(* runs its handlers in threads. AuthorizationServer and NonceStore take   *)
(* each call for one step, which one event loop makes true; here a call is *)
(* as many steps as it has statements that touch shared state, any other   *)
(* thread runs in between, and every statement reads the clock for itself. *)
(*                                                                         *)
(* One dictionary operation is one step, as the interpreter guarantees.    *)
(* A Grant is an object: redeem() renews the very object that another      *)
(* thread may have looked up, so `expiresAt' is kept per object, and a     *)
(* Grant is named by the code it was made for. Transaction codes are just  *)
(* right or wrong. An operator named after a slip is the mutant of the     *)
(* definition that follows it, used by no action.                          *)
(***************************************************************************)
EXTENDS Integers, FiniteSets

CONSTANTS Thread, Code, Token, Nonce, CodeTtl, TokenTtl, NonceTtl, None,
          MaxTime        \* bound: the clock stops here

ASSUME TtlAssumption ==
    CodeTtl \in Nat /\ TokenTtl \in Nat /\ NonceTtl \in Nat /\ MaxTime \in Nat

(* What a call has in its local variables; `key' is its argument.          *)
Key == Code \cup Token \cup Nonce \cup {None}

Statements == {"idle",
    "redeem_get", "redeem_if", "redeem_pop", "redeem_del", "redeem_renew", "redeem_store",
    "grant_get", "grant_if", "grant_pop",
    "consume_get", "consume_if", "consume_del",
    "issue_moment", "issue_scan", "issue_list", "issue_del", "issue_store"}

Results == {"none", "ok", "refused", "wrong transaction code", "KeyError", "RuntimeError"}

Frame == [at : Statements, key : Key,
          txCode : {"right", "wrong"},
          found : Code \cup Nat \cup {None},   \* what get() returned
          moment : Nat,                        \* the clock, when last read
          size : Nat, stale : SUBSET Nonce,    \* of the sweep
          token : Token \cup {None},           \* what secrets returned
          result : Results]

ASSUME NoneAssumption == None \notin Code \cup Token \cup Nonce \cup Nat
                            \cup [code : Code, checkedAt : Nat, renewedAt : Nat]

VARIABLES
    now,           \* the clock
    codes,         \* the keys of _codes
    expiresAt,     \* expires_at of the Grant made for each code
    tokens,        \* _tokens: the Grant of each token
    held,          \* _issued: the expiry of each nonce
    frame,         \* where each thread is, and its local variables
    late,          \* history: threads whose latest call began with a refused code
    contested,     \* history: threads whose latest call another one overlapped
    offeredAt,     \* history: when each code was offered
    sold,          \* history: codes that redeem() deleted as accepted
    bought,        \* history: what each token was exchanged for, and when
    refused,       \* history: codes refused as unknown, used or expired
    issuedAt,      \* history: when each nonce was issued
    uses,          \* history: how often each nonce was accepted
    usedAt         \* history: when the check passed, that last accepted it

server == <<codes, expiresAt, tokens, offeredAt, sold, bought, refused>>
store == <<held, issuedAt, uses, usedAt>>
threads == <<frame, late, contested>>
vars == <<now, server, store, threads>>

TypeOK ==
    /\ now \in Nat
    /\ codes \subseteq Code /\ sold \subseteq Code /\ refused \subseteq Code
    /\ expiresAt \in [Code -> Nat \cup {None}]
    /\ offeredAt \in [Code -> Nat \cup {None}]
    /\ tokens \in [Token -> Code \cup {None}]
    /\ bought \in [Token -> [code : Code, checkedAt : Nat, renewedAt : Nat] \cup {None}]
    /\ held \in [Nonce -> Nat \cup {None}]
    /\ issuedAt \in [Nonce -> Nat \cup {None}]
    /\ uses \in [Nonce -> Nat]
    /\ usedAt \in [Nonce -> Nat \cup {None}]
    /\ frame \in [Thread -> Frame]
    /\ late \subseteq Thread /\ contested \subseteq Thread

Idle == [at |-> "idle", key |-> None, txCode |-> "wrong", found |-> None, moment |-> 0,
         size |-> 0, stale |-> {}, token |-> None, result |-> "none"]

Init ==
    /\ now = 0 /\ codes = {} /\ sold = {} /\ refused = {}
    /\ expiresAt = [c \in Code |-> None] /\ offeredAt = [c \in Code |-> None]
    /\ tokens = [k \in Token |-> None] /\ bought = [k \in Token |-> None]
    /\ held = [n \in Nonce |-> None] /\ issuedAt = [n \in Nonce |-> None]
    /\ uses = [n \in Nonce |-> 0] /\ usedAt = [n \in Nonce |-> None]
    /\ frame = [t \in Thread |-> Idle] /\ late = {} /\ contested = {}

----------------------------------------------------------------------------
At(t, statement) == frame[t].at = statement
Local(t, record) ==
    frame' = [frame EXCEPT ![t] = record] /\ UNCHANGED <<late, contested>>
Goto(t, statement) == Local(t, [frame[t] EXCEPT !.at = statement])
GotoIf(t, condition, statement, otherwise) ==
    Goto(t, IF condition THEN statement ELSE otherwise)

(* The call returns or raises.                                             *)
Return(t, result) == Local(t, [Idle EXCEPT !.result = result])

(* A call begins in an idle thread, and contests those under way.          *)
Begin(t, statement, key, txCode) ==
    /\ At(t, "idle")
    /\ frame' = [frame EXCEPT ![t] =
                   [Idle EXCEPT !.at = statement, !.key = key, !.txCode = txCode]]
    /\ LET others == {u \in Thread \ {t} : ~At(u, "idle")}
       IN  contested' = IF others = {} THEN contested \ {t}
                        ELSE contested \cup others \cup {t}

(* A code enters the store with its Grant; nobody knows it before that.    *)
Offer(c) ==
    /\ offeredAt[c] = None
    /\ codes' = codes \cup {c}
    /\ expiresAt' = [expiresAt EXCEPT ![c] = now + CodeTtl]
    /\ offeredAt' = [offeredAt EXCEPT ![c] = now]
    /\ UNCHANGED <<now, tokens, sold, bought, refused, store, threads>>

(* Dictionary `del' raises KeyError on a missing key; `pop' with a default *)
(* does not.                                                               *)
DeletableAnyway(key, keys) == TRUE
Deletable(key, keys) == key \in keys

PoppableIfPresent(key, keys) == key \in keys
Poppable(key, keys) == TRUE

PoppedNever(key, keys) == keys
Popped(key, keys) == keys \ {key}

----------------------------------------------------------------------------
(* redeem(), from the lookup on.                                           *)
BeginRedeem(t, c, txCode) ==
    /\ offeredAt[c] # None
    /\ Begin(t, "redeem_get", c, txCode)
    /\ late' = IF c \in refused THEN late \cup {t} ELSE late \ {t}
    /\ UNCHANGED <<now, server, store>>

RedeemGet(t) ==
    /\ At(t, "redeem_get")
    /\ GotoIf(t, frame[t].key \in codes, "redeem_if", "redeem_pop")
    /\ UNCHANGED <<now, server, store>>

RedeemIf(t) ==
    /\ At(t, "redeem_if")
    /\ IF expiresAt[frame[t].key] <= now THEN Goto(t, "redeem_pop")
       ELSE IF frame[t].txCode = "right"
            THEN Local(t, [frame[t] EXCEPT !.at = "redeem_del", !.moment = now])
            ELSE Return(t, "wrong transaction code")
    /\ UNCHANGED <<now, server, store>>

RedeemPop(t) ==
    /\ At(t, "redeem_pop")
    /\ codes' = Popped(frame[t].key, codes)
    /\ refused' = refused \cup {frame[t].key}
    /\ Return(t, IF Poppable(frame[t].key, codes) THEN "refused" ELSE "KeyError")
    /\ UNCHANGED <<now, expiresAt, tokens, offeredAt, sold, bought, store>>

RedeemDel(t) ==
    /\ At(t, "redeem_del")
    /\ IF Deletable(frame[t].key, codes)
       THEN /\ codes' = codes \ {frame[t].key}
            /\ sold' = sold \cup {frame[t].key}
            /\ Goto(t, "redeem_renew")
       ELSE Return(t, "KeyError") /\ UNCHANGED <<codes, sold>>
    /\ UNCHANGED <<now, expiresAt, tokens, offeredAt, bought, refused, store>>

TokenExpiryReversed == now - TokenTtl
TokenExpiry == now + TokenTtl

(* The second reading of the clock. *)
RedeemRenew(t, k) ==
    /\ At(t, "redeem_renew")
    /\ bought[k] = None
    /\ expiresAt' = [expiresAt EXCEPT ![frame[t].key] = TokenExpiry]
    /\ bought' = [bought EXCEPT ![k] = [code |-> frame[t].key,
                     checkedAt |-> frame[t].moment, renewedAt |-> now]]
    /\ Local(t, [frame[t] EXCEPT !.at = "redeem_store", !.token = k])
    /\ UNCHANGED <<now, codes, tokens, offeredAt, sold, refused, store>>

RedeemStore(t) ==
    /\ At(t, "redeem_store")
    /\ tokens' = [tokens EXCEPT ![frame[t].token] = frame[t].key]
    /\ Return(t, "ok")
    /\ UNCHANGED <<now, codes, expiresAt, offeredAt, sold, bought, refused, store>>

----------------------------------------------------------------------------
(* grant_for(), of a token that redeem() has returned.                     *)
BeginGrantFor(t, k) ==
    /\ bought[k] # None /\ \A u \in Thread : frame[u].token # k
    /\ Begin(t, "grant_get", k, "wrong") /\ late' = late \ {t}
    /\ UNCHANGED <<now, server, store>>

GrantGet(t) ==
    /\ At(t, "grant_get")
    /\ LET grant == tokens[frame[t].key]
       IN  Local(t, [frame[t] EXCEPT !.found = grant,
                        !.at = IF grant # None THEN "grant_if" ELSE "grant_pop"])
    /\ UNCHANGED <<now, server, store>>

GrantIf(t) ==
    /\ At(t, "grant_if")
    /\ IF expiresAt[frame[t].found] <= now THEN Goto(t, "grant_pop") ELSE Return(t, "ok")
    /\ UNCHANGED <<now, server, store>>

GrantPop(t) ==
    /\ At(t, "grant_pop")
    /\ tokens' = [tokens EXCEPT ![frame[t].key] = None]
    /\ Return(t, "refused")
    /\ UNCHANGED <<now, codes, expiresAt, offeredAt, sold, bought, refused, store>>

----------------------------------------------------------------------------
Keys == {n \in Nonce : held[n] # None}
Expired(moment) == {n \in Keys : held[n] <= moment}

(* consume(), whose first two statements are those of is_current().        *)
BeginConsume(t, n) ==
    /\ issuedAt[n] # None
    /\ Begin(t, "consume_get", n, "wrong") /\ late' = late \ {t}
    /\ UNCHANGED <<now, server, store>>

ConsumeGet(t) ==
    /\ At(t, "consume_get")
    /\ Local(t, [frame[t] EXCEPT !.at = "consume_if", !.found = held[frame[t].key]])
    /\ UNCHANGED <<now, server, store>>

ConsumeIf(t) ==
    /\ At(t, "consume_if")
    /\ IF frame[t].found # None /\ frame[t].found > now
       THEN Local(t, [frame[t] EXCEPT !.at = "consume_del", !.moment = now])
       ELSE Return(t, "refused")
    /\ UNCHANGED <<now, server, store>>

ConsumeDel(t) ==
    /\ At(t, "consume_del")
    /\ LET n == frame[t].key
       IN  IF Deletable(n, Keys)
           THEN /\ held' = [held EXCEPT ![n] = None]
                /\ uses' = [uses EXCEPT ![n] = @ + 1]
                /\ usedAt' = [usedAt EXCEPT ![n] = frame[t].moment]
                /\ Return(t, "ok")
           ELSE Return(t, "KeyError") /\ UNCHANGED <<held, uses, usedAt>>
    /\ UNCHANGED <<now, server, issuedAt>>

(* issue(): _forget_expired() reads the clock, walks the dictionary to     *)
(* list what expired and deletes that one by one; then the nonce is stored.*)
BeginIssue(t) ==
    /\ Begin(t, "issue_moment", None, "wrong") /\ late' = late \ {t}
    /\ UNCHANGED <<now, server, store>>

IssueMoment(t) ==
    /\ At(t, "issue_moment")
    /\ Local(t, [frame[t] EXCEPT !.at = "issue_scan", !.moment = now])
    /\ UNCHANGED <<now, server, store>>

(* The walk begins: the iterator remembers the size of the dictionary.     *)
IssueScan(t) ==
    /\ At(t, "issue_scan")
    /\ Local(t, [frame[t] EXCEPT !.at = "issue_list", !.size = Cardinality(Keys),
                                 !.stale = Expired(frame[t].moment)])
    /\ UNCHANGED <<now, server, store>>

(* The walk ends, with RuntimeError if the size has changed. What was there *)
(* all along is listed; what came or went meanwhile may have been seen.    *)
(* next() compares the sizes at every key, and what it does in between is  *)
(* seen by this thread only: the step is the one at which the walk stops.  *)
IssueList(t) ==
    /\ At(t, "issue_list")
    /\ IF Cardinality(Keys) # frame[t].size THEN Return(t, "RuntimeError")
       ELSE LET before == frame[t].stale
                after == Expired(frame[t].moment)
            IN  \E listed \in SUBSET (before \cup after) :
                    /\ before \cap after \subseteq listed
                    /\ Local(t, [frame[t] EXCEPT !.at = "issue_del", !.stale = listed])
    /\ UNCHANGED <<now, server, store>>

IssueDel(t) ==
    /\ At(t, "issue_del")
    /\ \/ frame[t].stale = {} /\ Goto(t, "issue_store") /\ UNCHANGED held
       \/ \E n \in frame[t].stale :
            IF Deletable(n, Keys)
            THEN /\ held' = [held EXCEPT ![n] = None]
                 /\ Local(t, [frame[t] EXCEPT !.stale = @ \ {n}])
            ELSE Return(t, "KeyError") /\ UNCHANGED held
    /\ UNCHANGED <<now, server, issuedAt, uses, usedAt>>

IssueStore(t, n) ==
    /\ At(t, "issue_store")
    /\ issuedAt[n] = None
    /\ held' = [held EXCEPT ![n] = now + NonceTtl]
    /\ issuedAt' = [issuedAt EXCEPT ![n] = now]
    /\ Return(t, "ok")
    /\ UNCHANGED <<now, server, uses, usedAt>>

----------------------------------------------------------------------------
Tick == now < MaxTime /\ now' = now + 1 /\ UNCHANGED <<server, store, threads>>

(* The default clock is time.time, which an adjustment can set back. *)
StepBack == now > 0 /\ now' = now - 1 /\ UNCHANGED <<server, store, threads>>

ServerStep(t) ==
    \/ \E c \in Code, txCode \in {"right", "wrong"} : BeginRedeem(t, c, txCode)
    \/ RedeemGet(t) \/ RedeemIf(t) \/ RedeemPop(t) \/ RedeemDel(t) \/ RedeemStore(t)
    \/ \E k \in Token : RedeemRenew(t, k) \/ BeginGrantFor(t, k)
    \/ GrantGet(t) \/ GrantIf(t) \/ GrantPop(t)

StoreStep(t) ==
    \/ \E n \in Nonce : BeginConsume(t, n) \/ IssueStore(t, n)
    \/ ConsumeGet(t) \/ ConsumeIf(t) \/ ConsumeDel(t)
    \/ BeginIssue(t) \/ IssueMoment(t) \/ IssueScan(t) \/ IssueList(t) \/ IssueDel(t)

Next ==
    \/ \E c \in Code : Offer(c)
    \/ \E t \in Thread : ServerStep(t) \/ StoreStep(t)
    \/ Tick \/ StepBack

Spec == Init /\ [][Next]_vars

----------------------------------------------------------------------------
(* Two threads that present one code, or one thread twice, get one token:  *)
(* both may pass the lookup and the comparison in redeem(), but `del' lets *)
(* only one of them on.                                                    *)
OneTokenPerCode ==
    \A k, l \in Token :
        bought[k] # None /\ bought[l] # None /\ bought[k].code = bought[l].code => k = l

(* Whoever gets a token passed the comparison while the code was in its    *)
(* lifetime, and the token lasts token_ttl from the second reading of the  *)
(* clock. A thread that compared against an expiry another thread had      *)
(* already renewed for its token gets nothing, and renews nothing.         *)
TokenIsInTime ==
    \A k \in Token : bought[k] # None =>
        /\ bought[k].checkedAt < offeredAt[bought[k].code] + CodeTtl
        /\ expiresAt[bought[k].code] = bought[k].renewedAt + TokenTtl

(* consume() accepts a nonce once however threads interleave, with each    *)
(* other and with the sweep of issue(), and only if it was still current   *)
(* when the call compared it with the clock.                               *)
NonceAcceptedOnceInTime ==
    \A n \in Nonce : uses[n] > 0 =>
        uses[n] = 1 /\ held[n] = None /\ usedAt[n] < issuedAt[n] + NonceTtl

(* After redeem() has answered that a code is unknown, used or expired, no *)
(* call that begins later succeeds with it, whatever was under way in other *)
(* threads and wherever the clock has been set.                            *)
RefusalIsFinal == \A t \in late : frame[t].result # "ok"

(* Errors that redeem(), consume() and issue() do not document, KeyError   *)
(* of `del' and RuntimeError of the sweep, need a call in another thread   *)
(* that overlaps: one event loop never sees them.                          *)
UntypedErrorsNeedARace ==
    \A t \in Thread : frame[t].result \in {"KeyError", "RuntimeError"} => t \in contested

(* How codes and nonces appear to SingleUse. Live is what is in the        *)
(* dictionary; `del' on acceptance spends it, `pop' and the sweep lapse it.*)
CodePhase(c) ==
    IF offeredAt[c] = None THEN "unissued"
    ELSE IF c \in sold THEN "spent" ELSE IF c \in codes THEN "live" ELSE "dead"

NoncePhase(n) ==
    IF issuedAt[n] = None THEN "unissued"
    ELSE IF uses[n] > 0 THEN "spent" ELSE IF n \in Keys THEN "live" ELSE "dead"

Codes == INSTANCE SingleUse WITH Ticket <- Code, phase <- [c \in Code |-> CodePhase(c)]
Nonces == INSTANCE SingleUse WITH Ticket <- Nonce, phase <- [n \in Nonce |-> NoncePhase(n)]

(* The statements of redeem(), consume() and issue() implement SingleUse   *)
(* in any interleaving and on any clock: the single statement `del' is     *)
(* what spends a ticket, and what was popped or swept is never spent.      *)
TicketsAreSingleUse == Codes!Spec /\ Nonces!Spec
=============================================================================
