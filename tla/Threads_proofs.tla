--------------------------- MODULE Threads_proofs ---------------------------
(***************************************************************************)
(* Proofs about Threads, for any number of threads, codes, tokens and      *)
(* nonces and for every lifetime. The inductive invariant has a part about *)
(* the dictionaries and their history, and a part for each thread: what it *)
(* may rely on between two of its statements, whatever the others did, and *)
(* what more it may rely on while no other call overlaps its own.          *)
(***************************************************************************)
EXTENDS Threads, FiniteSetTheorems, TLAPS

Redeeming == {"redeem_get", "redeem_if", "redeem_pop", "redeem_del", "redeem_renew",
              "redeem_store"}
Granting == {"grant_get", "grant_if", "grant_pop"}
Consuming == {"consume_get", "consume_if", "consume_del"}
Issuing == {"issue_moment", "issue_scan", "issue_list", "issue_del", "issue_store"}

Unbought(c) == \A k \in Token : bought[k] # None => bought[k].code # c

(* A code is in the dictionary, sold or refused, and bears the expiry of   *)
(* its offer until a token is bought with it.                              *)
CodesInv ==
    /\ \A c \in codes : offeredAt[c] # None /\ c \notin sold /\ c \notin refused
    /\ \A c \in sold \cup refused : offeredAt[c] # None
    /\ \A c \in Code : offeredAt[c] # None /\ Unbought(c)
                         => expiresAt[c] = offeredAt[c] + CodeTtl
    /\ \A k \in Token : bought[k] # None => bought[k].code \in sold
    /\ OneTokenPerCode /\ TokenIsInTime

(* A nonce in the dictionary bears the expiry of its issue and is unused;  *)
(* the dictionary is finite, whatever the number of nonces.                *)
NoncesInv ==
    /\ \A n \in Nonce : issuedAt[n] = None => held[n] = None /\ uses[n] = 0
    /\ \A n \in Nonce : held[n] # None => uses[n] = 0 /\ held[n] = issuedAt[n] + NonceTtl
    /\ \A n \in Nonce : uses[n] > 0 => usedAt[n] \in Nat
    /\ IsFiniteSet(Keys)
    /\ NonceAcceptedOnceInTime

(* What the local variables of a call hold, by statement. *)
LocalsInv(t) ==
    LET f == frame[t]
    IN  /\ f.at \in Redeeming => f.key \in Code /\ offeredAt[f.key] # None
        /\ f.at \in Granting => f.key \in Token
        /\ f.at \in Consuming => f.key \in Nonce /\ issuedAt[f.key] # None
        /\ f.at = "grant_if" => f.found \in Code
        /\ f.at = "redeem_store" => f.token \in Token
        /\ f.at # "idle" => f.result = "none"

(* What a thread in redeem() relies on: the comparison it made still holds *)
(* of the code it finds in the dictionary, and the code it deleted is its. *)
RedeemInv(t) ==
    LET f == frame[t]
    IN  /\ f.at = "redeem_del" /\ f.key \in codes => f.moment < offeredAt[f.key] + CodeTtl
        /\ f.at = "redeem_renew" =>
              /\ f.key \in sold /\ Unbought(f.key)
              /\ f.moment < offeredAt[f.key] + CodeTtl
              /\ \A u \in Thread \ {t} : At(u, "redeem_renew") => frame[u].key # f.key

(* A call that began after a refusal has a key that stays refused. *)
LateInv(t) ==
    LET f == frame[t]
    IN  t \in late =>
          /\ f.at \in Redeeming => f.key \in refused
          /\ f.at \notin {"redeem_renew", "redeem_store"} \cup Granting
                        \cup Consuming \cup Issuing
          /\ f.result # "ok"

(* What a thread in consume() relies on. *)
ConsumeInv(t) ==
    LET f == frame[t]
    IN  /\ f.at = "consume_if" => f.found \in {None, issuedAt[f.key] + NonceTtl}
        /\ f.at = "consume_del" => f.moment < issuedAt[f.key] + NonceTtl

(* A call no other overlaps finds the dictionaries as it left them. *)
AloneInv(t) ==
    LET f == frame[t]
    IN  t \notin contested =>
          /\ f.at # "idle" => \A u \in Thread \ {t} : At(u, "idle")
          /\ f.at \in {"redeem_if", "redeem_del"} => f.key \in codes
          /\ f.at = "consume_if" => f.found = held[f.key]
          /\ f.at = "consume_del" => held[f.key] # None
          /\ f.at = "issue_list" => f.size = Cardinality(Keys) /\ f.stale = Expired(f.moment)
          /\ f.at = "issue_del" => f.stale \subseteq Keys
          /\ f.result \notin {"KeyError", "RuntimeError"}

ThreadInv(t) == LocalsInv(t) /\ RedeemInv(t) /\ LateInv(t) /\ ConsumeInv(t) /\ AloneInv(t)

IInv == TypeOK /\ CodesInv /\ NoncesInv /\ \A t \in Thread : ThreadInv(t)

(* Empty dictionaries and idle threads satisfy the invariant. *)
LEMMA InitIInv == Init => IInv
<1> SUFFICES ASSUME Init PROVE IInv
  OBVIOUS
<1> USE TtlAssumption, NoneAssumption
<1>1. Idle \in Frame
  BY DEF Idle, Frame, Statements, Key, Results
<1>2. TypeOK
  BY <1>1 DEF Init, TypeOK
<1>3. CodesInv
  BY DEF Init, CodesInv, OneTokenPerCode, TokenIsInTime
<1>4. Keys = {} /\ IsFiniteSet({})
  BY FS_EmptySet DEF Init, Keys
<1>5. NoncesInv
  BY <1>4 DEF Init, NoncesInv, NonceAcceptedOnceInTime
<1>6. \A t \in Thread : ThreadInv(t)
  BY DEF Init, Idle, At, ThreadInv, LocalsInv, RedeemInv, LateInv, ConsumeInv, AloneInv,
     Redeeming, Granting, Consuming, Issuing
<1> QED BY <1>2, <1>3, <1>5, <1>6 DEF IInv

(* The invariant of the dictionaries is not about frames or the clock.    *)
LEMMA DictionariesKept ==
    ASSUME CodesInv, NoncesInv, UNCHANGED <<server, store>>
    PROVE  (CodesInv /\ NoncesInv)'
  BY DEF CodesInv, NoncesInv, OneTokenPerCode, TokenIsInTime, NonceAcceptedOnceInTime,
     Unbought, Keys, server, store

(* A step in which t only moves within its own call leaves the invariant   *)
(* of every other thread alone.                                            *)
LEMMA OthersKept ==
    ASSUME IInv, NEW t \in Thread, UNCHANGED <<server, store, late, contested>>, ~At(t, "idle"),
           ~At(t, "redeem_renew")', \A v \in Thread \ {t} : frame'[v] = frame[v],
           NEW u \in Thread \ {t}
    PROVE  ThreadInv(u)'
  BY DEF IInv, ThreadInv, LocalsInv, RedeemInv, LateInv, ConsumeInv, AloneInv, At, server,
     store, Unbought, Keys, Expired

(* The same for the beginning of a call, which contests those under way.   *)
LEMMA BeginKept ==
    ASSUME IInv, NEW t \in Thread, UNCHANGED <<server, store>>,
           NEW statement \in {"redeem_get", "grant_get", "consume_get", "issue_moment"},
           NEW key, NEW txCode, Begin(t, statement, key, txCode),
           late \ {t} = late' \ {t},
           NEW u \in Thread \ {t}
    PROVE  ThreadInv(u)'
<1>1. frame'[t].at = statement /\ \A v \in Thread \ {t} : frame'[v] = frame[v]
  BY DEF IInv, TypeOK, Begin, Idle
<1>2. u \notin contested' => u \notin contested /\ At(u, "idle")
  BY DEF Begin
<1>3. LocalsInv(u)' /\ ConsumeInv(u)'
  BY <1>1 DEF IInv, ThreadInv, LocalsInv, ConsumeInv, server, store
<1>4. RedeemInv(u)'
  BY <1>1 DEF IInv, ThreadInv, RedeemInv, At, server, Unbought
<1>5. LateInv(u)'
  BY <1>1 DEF IInv, ThreadInv, LateInv, server
<1>6. AloneInv(u)'
  BY <1>1, <1>2 DEF IInv, ThreadInv, AloneInv, At
<1> QED BY <1>3, <1>4, <1>5, <1>6 DEF ThreadInv

(* A statement of t replaces its frame and no other. *)
LEMMA LocalFrame ==
    ASSUME TypeOK, NEW t \in Thread, NEW f \in Frame, Local(t, f)
    PROVE  /\ frame' \in [Thread -> Frame] /\ UNCHANGED <<late, contested>>
           /\ frame'[t] = f /\ \A v \in Thread \ {t} : frame'[v] = frame[v]
  BY DEF TypeOK, Local

(* A call that returns satisfies the invariant of an idle thread. *)
LEMMA ReturnInv ==
    ASSUME IInv, NEW t \in Thread, NEW result \in Results, Return(t, result),
           result = "ok" => t \notin late,
           result \in {"KeyError", "RuntimeError"} => t \in contested
    PROVE  /\ frame' \in [Thread -> Frame] /\ UNCHANGED <<late, contested>>
           /\ ThreadInv(t)' /\ At(t, "idle")'
           /\ \A v \in Thread \ {t} : frame'[v] = frame[v]
<1> DEFINE f == [Idle EXCEPT !.result = result]
<1>1. f \in Frame /\ f.at = "idle" /\ f.result = result
  BY DEF Idle, Frame, Statements, Results, Key
<1>2. Local(t, f)
  BY DEF Return
<1> HIDE DEF f
<1>3. /\ frame' \in [Thread -> Frame] /\ UNCHANGED <<late, contested>>
      /\ frame'[t] = f /\ \A v \in Thread \ {t} : frame'[v] = frame[v]
  BY <1>1, <1>2, LocalFrame DEF IInv
<1>4. ThreadInv(t)'
  BY <1>1, <1>3 DEF ThreadInv, LocalsInv, RedeemInv, LateInv, ConsumeInv, AloneInv,
     Redeeming, Granting, Consuming, Issuing
<1> QED BY <1>1, <1>3, <1>4 DEF At

(* A jump changes nothing else in the frame. *)
LEMMA GotoFrame ==
    ASSUME TypeOK, NEW t \in Thread, NEW s \in Statements, Goto(t, s)
    PROVE  /\ frame' \in [Thread -> Frame] /\ UNCHANGED <<late, contested>>
           /\ frame'[t].at = s /\ frame'[t].key = frame[t].key
           /\ frame'[t].found = frame[t].found /\ frame'[t].moment = frame[t].moment
           /\ frame'[t].size = frame[t].size /\ frame'[t].stale = frame[t].stale
           /\ frame'[t].token = frame[t].token /\ frame'[t].result = frame[t].result
           /\ \A v \in Thread \ {t} : frame'[v] = frame[v]
<1> DEFINE f == [frame[t] EXCEPT !.at = s]
<1>1. frame[t] \in Frame
  BY DEF TypeOK
<1>2. /\ f \in Frame /\ f.at = s /\ f.key = frame[t].key
      /\ f.found = frame[t].found /\ f.moment = frame[t].moment
      /\ f.size = frame[t].size /\ f.stale = frame[t].stale
      /\ f.token = frame[t].token /\ f.result = frame[t].result
  BY <1>1 DEF Frame
<1>3. Local(t, f)
  BY DEF Goto
<1> HIDE DEF f
<1> QED BY <1>2, <1>3, LocalFrame

(* A move of t within its call that leaves the dictionaries alone keeps    *)
(* the invariant if it keeps that of t.                                    *)
LEMMA MoveKeepsInv ==
    ASSUME IInv, NEW t \in Thread, UNCHANGED <<now, server, store, late, contested>>,
           frame' \in [Thread -> Frame], \A v \in Thread \ {t} : frame'[v] = frame[v],
           ~At(t, "idle"), ~At(t, "redeem_renew")', ThreadInv(t)'
    PROVE  IInv'
<1>1. TypeOK'
  BY DEF IInv, TypeOK, server, store
<1>2. \A u \in Thread \ {t} : ThreadInv(u)'
  BY OthersKept
<1> QED BY <1>1, <1>2, DictionariesKept DEF IInv

(* redeem(): the lookup and the comparison. *)
LEMMA RedeemGetInv == ASSUME IInv, NEW t \in Thread, RedeemGet(t) PROVE IInv'
<1> DEFINE next == IF frame[t].key \in codes THEN "redeem_if" ELSE "redeem_pop"
<1>1. next \in Statements /\ Goto(t, next)
  BY DEF RedeemGet, GotoIf, Statements
<1>2. ThreadInv(t)'
  BY <1>1, GotoFrame DEF IInv, RedeemGet, At, server, ThreadInv, LocalsInv, RedeemInv, LateInv,
     ConsumeInv, AloneInv,
     Redeeming, Granting, Consuming, Issuing
<1> QED BY <1>1, <1>2, GotoFrame, MoveKeepsInv DEF IInv, RedeemGet, At

LEMMA RedeemIfInv == ASSUME IInv, NEW t \in Thread, RedeemIf(t) PROVE IInv'
<1>1. At(t, "redeem_if") /\ UNCHANGED <<now, server, store>>
  BY DEF RedeemIf
<1>2. CASE Goto(t, "redeem_pop")
  <2>1. "redeem_pop" \in Statements
    BY DEF Statements
  <2>2. ThreadInv(t)'
    BY <1>1, <1>2, <2>1, GotoFrame DEF IInv, At, server, ThreadInv, LocalsInv, RedeemInv,
       LateInv, ConsumeInv, AloneInv,
       Redeeming, Granting, Consuming, Issuing
  <2> QED BY <1>1, <1>2, <2>1, <2>2, GotoFrame, MoveKeepsInv DEF IInv, At
<1>3. CASE Return(t, "wrong transaction code")
  <2>1. "wrong transaction code" \in Results
    BY DEF Results
  <2> QED BY <1>1, <1>3, <2>1, ReturnInv, MoveKeepsInv DEF At
<1>4. ASSUME ~(expiresAt[frame[t].key] <= now),
             Local(t, [frame[t] EXCEPT !.at = "redeem_del", !.moment = now])
      PROVE  IInv'
  <2> DEFINE f == [frame[t] EXCEPT !.at = "redeem_del", !.moment = now]
  <2>1. frame[t] \in Frame /\ now \in Nat
    BY DEF IInv, TypeOK
  <2>2. /\ f \in Frame /\ f.at = "redeem_del" /\ f.moment = now
        /\ f.key = frame[t].key /\ f.result = frame[t].result
    BY <2>1 DEF Frame, Statements
  <2>3. Local(t, f)
    BY <1>4
  <2> HIDE DEF f
  <2>4. frame[t].key \in codes => now < offeredAt[frame[t].key] + CodeTtl
    BY <1>4, TtlAssumption DEF IInv, TypeOK, CodesInv, Unbought
  <2>5. ThreadInv(t)'
    BY <1>1, <2>2, <2>3, <2>4, LocalFrame DEF IInv, At, server, ThreadInv, LocalsInv,
       RedeemInv, LateInv, ConsumeInv, AloneInv,
       Redeeming, Granting, Consuming, Issuing
  <2> QED BY <1>1, <2>2, <2>3, <2>5, LocalFrame, MoveKeepsInv DEF IInv, At
<1> QED BY <1>2, <1>3, <1>4 DEF RedeemIf

(* grant_for(): the lookup and the comparison. *)
LEMMA GrantGetInv == ASSUME IInv, NEW t \in Thread, GrantGet(t) PROVE IInv'
<1> DEFINE grant == tokens[frame[t].key]
           f == [frame[t] EXCEPT !.found = grant,
                    !.at = IF grant # None THEN "grant_if" ELSE "grant_pop"]
<1>1. frame[t] \in Frame /\ frame[t].key \in Token
  BY DEF IInv, TypeOK, GrantGet, At, ThreadInv, LocalsInv, Granting
<1>2. /\ f \in Frame /\ f.key = frame[t].key /\ f.result = frame[t].result
      /\ (f.at = "grant_if" /\ f.found \in Code) \/ f.at = "grant_pop"
  BY <1>1 DEF IInv, TypeOK, Frame, Statements
<1>3. Local(t, f)
  BY DEF GrantGet
<1> HIDE DEF f
<1>4. ThreadInv(t)'
  BY <1>2, <1>3, LocalFrame DEF IInv, GrantGet, At, server, ThreadInv, LocalsInv, RedeemInv,
     LateInv, ConsumeInv, AloneInv,
     Redeeming, Granting, Consuming, Issuing
<1> QED BY <1>2, <1>3, <1>4, LocalFrame, MoveKeepsInv DEF IInv, GrantGet, At

LEMMA GrantIfInv == ASSUME IInv, NEW t \in Thread, GrantIf(t) PROVE IInv'
<1>1. "grant_pop" \in Statements /\ "ok" \in Results
  BY DEF Statements, Results
<1>2. At(t, "grant_if") /\ UNCHANGED <<now, server, store>> /\ t \notin late
  BY DEF IInv, GrantIf, At, ThreadInv, LateInv, Granting
<1>3. CASE Goto(t, "grant_pop")
  <2>1. ThreadInv(t)'
    BY <1>1, <1>2, <1>3, GotoFrame DEF IInv, At, server, ThreadInv, LocalsInv, RedeemInv,
       LateInv, ConsumeInv, AloneInv,
       Redeeming, Granting, Consuming, Issuing
  <2> QED BY <1>1, <1>2, <1>3, <2>1, GotoFrame, MoveKeepsInv DEF IInv, At
<1>4. CASE Return(t, "ok")
  BY <1>1, <1>2, <1>4, ReturnInv, MoveKeepsInv DEF At
<1> QED BY <1>3, <1>4 DEF GrantIf

(* consume(): the lookup and the comparison. *)
LEMMA ConsumeGetInv == ASSUME IInv, NEW t \in Thread, ConsumeGet(t) PROVE IInv'
<1> DEFINE f == [frame[t] EXCEPT !.at = "consume_if", !.found = held[frame[t].key]]
<1>1. frame[t] \in Frame /\ frame[t].key \in Nonce
  BY DEF IInv, TypeOK, ConsumeGet, At, ThreadInv, LocalsInv, Consuming
<1>2. /\ f \in Frame /\ f.key = frame[t].key /\ f.result = frame[t].result
      /\ f.at = "consume_if" /\ f.found = held[f.key]
  BY <1>1 DEF IInv, TypeOK, Frame, Statements
<1>3. Local(t, f)
  BY DEF ConsumeGet
<1> HIDE DEF f
<1>4. ThreadInv(t)'
  BY <1>1, <1>2, <1>3, LocalFrame DEF IInv, ConsumeGet, At, store, NoncesInv,
     ThreadInv, LocalsInv, RedeemInv, LateInv, ConsumeInv, AloneInv,
     Redeeming, Granting, Consuming, Issuing
<1> QED BY <1>2, <1>3, <1>4, LocalFrame, MoveKeepsInv DEF IInv, ConsumeGet, At

LEMMA ConsumeIfInv == ASSUME IInv, NEW t \in Thread, ConsumeIf(t) PROVE IInv'
<1>1. At(t, "consume_if") /\ UNCHANGED <<now, server, store>> /\ "refused" \in Results
  BY DEF ConsumeIf, Results
<1>2. CASE Return(t, "refused")
  BY <1>1, <1>2, ReturnInv, MoveKeepsInv DEF At
<1>3. ASSUME frame[t].found # None, frame[t].found > now,
             Local(t, [frame[t] EXCEPT !.at = "consume_del", !.moment = now])
      PROVE  IInv'
  <2> DEFINE f == [frame[t] EXCEPT !.at = "consume_del", !.moment = now]
  <2>1. frame[t] \in Frame /\ now \in Nat
    BY DEF IInv, TypeOK
  <2>2. /\ f \in Frame /\ f.at = "consume_del" /\ f.moment = now
        /\ f.key = frame[t].key /\ f.result = frame[t].result
    BY <2>1 DEF Frame, Statements
  <2>3. Local(t, f)
    BY <1>3
  <2> HIDE DEF f
  <2>4. now < issuedAt[frame[t].key] + NonceTtl
    BY <1>1, <1>3, <2>1, TtlAssumption
    DEF IInv, TypeOK, At, ThreadInv, ConsumeInv, LocalsInv, Consuming
  <2>5. ThreadInv(t)'
    BY <1>1, <1>3, <2>2, <2>3, <2>4, LocalFrame DEF IInv, At, store,
       ThreadInv, LocalsInv, RedeemInv, LateInv, ConsumeInv, AloneInv, Redeeming, Granting,
       Consuming, Issuing
  <2> QED BY <1>1, <2>2, <2>3, <2>5, LocalFrame, MoveKeepsInv DEF IInv, At
<1> QED BY <1>2, <1>3 DEF ConsumeIf

(* issue(): the sweep up to the list of what expired. *)
LEMMA IssueMomentInv == ASSUME IInv, NEW t \in Thread, IssueMoment(t) PROVE IInv'
<1> DEFINE f == [frame[t] EXCEPT !.at = "issue_scan", !.moment = now]
<1>1. frame[t] \in Frame /\ now \in Nat
  BY DEF IInv, TypeOK
<1>2. f \in Frame /\ f.at = "issue_scan" /\ f.result = frame[t].result
  BY <1>1 DEF Frame, Statements
<1>3. Local(t, f)
  BY DEF IssueMoment
<1> HIDE DEF f
<1>4. ThreadInv(t)'
  BY <1>2, <1>3, LocalFrame DEF IInv, IssueMoment, At, ThreadInv, LocalsInv, RedeemInv,
     LateInv, ConsumeInv, AloneInv,
     Redeeming, Granting, Consuming, Issuing
<1> QED BY <1>2, <1>3, <1>4, LocalFrame, MoveKeepsInv DEF IInv, IssueMoment, At

LEMMA IssueScanInv ==
    ASSUME IInv, NEW t \in Thread, IssueScan(t) PROVE IInv'
<1> DEFINE f == [frame[t] EXCEPT !.at = "issue_list", !.size = Cardinality(Keys),
                                 !.stale = Expired(frame[t].moment)]
<1>1. frame[t] \in Frame
  BY DEF IInv, TypeOK
<1>2. Cardinality(Keys) \in Nat /\ Expired(frame[t].moment) \in SUBSET Nonce
  BY FS_CardinalityType DEF IInv, NoncesInv, Keys, Expired
<1>3. /\ f \in Frame /\ f.at = "issue_list" /\ f.result = frame[t].result
      /\ f.size = Cardinality(Keys) /\ f.stale = Expired(f.moment)
  BY <1>1, <1>2 DEF Frame, Statements
<1>4. Local(t, f)
  BY DEF IssueScan
<1> HIDE DEF f
<1>5. Keys' = Keys /\ \A m : Expired(m)' = Expired(m)
  BY DEF IssueScan, Keys, Expired, store
<1>6. ThreadInv(t)'
  BY <1>3, <1>4, <1>5, LocalFrame DEF IInv, IssueScan, At, ThreadInv, LocalsInv, RedeemInv,
     LateInv, ConsumeInv, AloneInv,
     Redeeming, Granting, Consuming, Issuing
<1> QED BY <1>3, <1>4, <1>6, LocalFrame, MoveKeepsInv DEF IInv, IssueScan, At

LEMMA IssueListInv == ASSUME IInv, NEW t \in Thread, IssueList(t) PROVE IInv'
<1>1. /\ At(t, "issue_list") /\ UNCHANGED <<now, server, store>>
      /\ "RuntimeError" \in Results
  BY DEF IssueList, Results
<1>2. ASSUME Cardinality(Keys) # frame[t].size, Return(t, "RuntimeError") PROVE IInv'
  <2>1. t \in contested
    BY <1>1, <1>2 DEF IInv, ThreadInv, AloneInv, At
  <2> QED BY <1>1, <1>2, <2>1, ReturnInv, MoveKeepsInv DEF At
<1>3. ASSUME NEW listed \in SUBSET (frame[t].stale \cup Expired(frame[t].moment)),
             Local(t, [frame[t] EXCEPT !.at = "issue_del", !.stale = listed])
      PROVE  IInv'
  <2> DEFINE f == [frame[t] EXCEPT !.at = "issue_del", !.stale = listed]
  <2>1. frame[t] \in Frame /\ listed \subseteq Nonce
    BY DEF IInv, TypeOK, Frame, Expired, Keys
  <2>2. f \in Frame /\ f.at = "issue_del" /\ f.stale = listed /\ f.result = frame[t].result
    BY <2>1 DEF Frame, Statements
  <2>3. Local(t, f)
    BY <1>3
  <2> HIDE DEF f
  <2>4. t \notin contested => listed \subseteq Keys
    BY <1>1 DEF IInv, ThreadInv, AloneInv, At, Expired
  <2>5. Keys' = Keys
    BY <1>1 DEF Keys, store
  <2>6. ThreadInv(t)'
    BY <1>1, <2>2, <2>3, <2>4, <2>5, LocalFrame DEF IInv, At, ThreadInv, LocalsInv, RedeemInv,
       LateInv, ConsumeInv, AloneInv,
       Redeeming, Granting, Consuming, Issuing
  <2> QED BY <1>1, <2>2, <2>3, <2>6, LocalFrame, MoveKeepsInv DEF IInv, At
<1> QED BY <1>2, <1>3 DEF IssueList

(* A call begins: what its own thread satisfies, and so all do.            *)
LEMMA BeginKeepsInv ==
    ASSUME IInv, NEW t \in Thread, NEW statement, NEW key \in Key,
           NEW txCode \in {"right", "wrong"}, Begin(t, statement, key, txCode),
           UNCHANGED <<now, server, store>>, late' \subseteq Thread,
           late \ {t} = late' \ {t},
           \/ /\ statement = "redeem_get" /\ key \in Code /\ offeredAt[key] # None
              /\ t \in late' => key \in refused
           \/ statement = "grant_get" /\ key \in Token /\ t \notin late'
           \/ /\ statement = "consume_get" /\ key \in Nonce /\ issuedAt[key] # None
              /\ t \notin late'
           \/ statement = "issue_moment" /\ t \notin late'
    PROVE  IInv'
<1> DEFINE f == [Idle EXCEPT !.at = statement, !.key = key, !.txCode = txCode]
<1>1. /\ f \in Frame /\ f.at = statement /\ f.key = key /\ f.result = "none"
      /\ statement \in {"redeem_get", "grant_get", "consume_get", "issue_moment"}
  BY NoneAssumption DEF Idle, Frame, Statements, Results, Key
<1>2. frame' = [frame EXCEPT ![t] = f]
  BY DEF Begin
<1> HIDE DEF f
<1>3. /\ frame' \in [Thread -> Frame] /\ frame'[t] = f
      /\ \A v \in Thread \ {t} : frame'[v] = frame[v]
  BY <1>1, <1>2 DEF IInv, TypeOK
<1>4. contested' \subseteq Thread
  BY DEF IInv, TypeOK, Begin
<1>5. TypeOK'
  BY <1>3, <1>4 DEF IInv, TypeOK, server, store
<1>6. t \notin contested' => \A u \in Thread \ {t} : At(u, "idle")'
  BY <1>3 DEF Begin, At
<1>7. ThreadInv(t)'
  BY <1>1, <1>3, <1>6 DEF At, server, store, ThreadInv, LocalsInv, RedeemInv, LateInv,
     ConsumeInv, AloneInv,
     Redeeming, Granting, Consuming, Issuing
<1>8. \A u \in Thread \ {t} : ThreadInv(u)'
  BY <1>1, BeginKept
<1> QED BY <1>5, <1>7, <1>8, DictionariesKept DEF IInv

LEMMA BeginRedeemInv ==
    ASSUME IInv, NEW t \in Thread, NEW c \in Code, NEW txCode \in {"right", "wrong"},
           BeginRedeem(t, c, txCode)
    PROVE  IInv'
  BY BeginKeepsInv DEF IInv, TypeOK, BeginRedeem, Key

LEMMA BeginGrantForInv ==
    ASSUME IInv, NEW t \in Thread, NEW k \in Token, BeginGrantFor(t, k) PROVE IInv'
  BY BeginKeepsInv DEF IInv, TypeOK, BeginGrantFor, Key

LEMMA BeginConsumeInv ==
    ASSUME IInv, NEW t \in Thread, NEW n \in Nonce, BeginConsume(t, n) PROVE IInv'
  BY BeginKeepsInv DEF IInv, TypeOK, BeginConsume, Key

LEMMA BeginIssueInv == ASSUME IInv, NEW t \in Thread, BeginIssue(t) PROVE IInv'
  BY BeginKeepsInv DEF IInv, TypeOK, BeginIssue, Key

(* Whoever runs while t is within a call contests it, so what t does       *)
(* cannot disturb a call that runs alone.                                  *)
LEMMA OthersContested ==
    ASSUME IInv, NEW t \in Thread, ~At(t, "idle"), UNCHANGED contested,
           NEW u \in Thread \ {t}, frame'[u] = frame[u],
           \A v \in Thread \ {t} : frame'[v] = frame[v]
    PROVE  AloneInv(u)'
<1>1. u \notin contested => At(u, "idle")
  BY DEF IInv, ThreadInv, AloneInv, At
<1> QED BY <1>1 DEF IInv, ThreadInv, AloneInv, At

(* What grants tokens stand for matters to no part of the invariant.       *)
LEMMA TokensDoNotMatter ==
    ASSUME IInv, NEW t \in Thread, ~At(t, "idle"), At(t, "idle")', ThreadInv(t)',
           UNCHANGED <<now, codes, expiresAt, offeredAt, sold, bought, refused, store>>,
           UNCHANGED <<late, contested>>, frame' \in [Thread -> Frame],
           \A v \in Thread \ {t} : frame'[v] = frame[v],
           NEW k \in Token, NEW c \in Code \cup {None}, tokens' = [tokens EXCEPT ![k] = c]
    PROVE  IInv'
<1>1. TypeOK'
  BY DEF IInv, TypeOK, store
<1>2. (CodesInv /\ NoncesInv)'
  BY DEF IInv, CodesInv, NoncesInv, OneTokenPerCode, TokenIsInTime, NonceAcceptedOnceInTime,
     Unbought, Keys, store
<1>3. ASSUME NEW u \in Thread \ {t} PROVE ThreadInv(u)'
  <2>1. AloneInv(u)'
    BY OthersContested
  <2>2. (LocalsInv(u) /\ ConsumeInv(u) /\ LateInv(u))'
    BY DEF IInv, ThreadInv, LocalsInv, ConsumeInv, LateInv, store
  <2>3. RedeemInv(u)'
    BY DEF IInv, ThreadInv, RedeemInv, Unbought, At
  <2> QED BY <2>1, <2>2, <2>3 DEF ThreadInv
<1> QED BY <1>1, <1>2, <1>3 DEF IInv

(* A statement that changes the dictionary of nonces leaves the invariant  *)
(* of other threads alone, since what was issued stays issued.             *)
LEMMA StoreStepKeepsInv ==
    ASSUME IInv, NEW t \in Thread, ~At(t, "idle"), ~At(t, "redeem_renew")', ThreadInv(t)',
           UNCHANGED <<now, server, late, contested>>, frame' \in [Thread -> Frame],
           \A v \in Thread \ {t} : frame'[v] = frame[v],
           held' \in [Nonce -> Nat \cup {None}], issuedAt' \in [Nonce -> Nat \cup {None}],
           uses' \in [Nonce -> Nat], usedAt' \in [Nonce -> Nat \cup {None}], NoncesInv',
           \A m \in Nonce : issuedAt[m] # None => issuedAt'[m] = issuedAt[m] /\ issuedAt'[m] # None
    PROVE  IInv'
<1>1. TypeOK'
  BY DEF IInv, TypeOK, server
<1>2. CodesInv'
  BY DEF IInv, CodesInv, OneTokenPerCode, TokenIsInTime, Unbought, server
<1>3. ASSUME NEW u \in Thread \ {t} PROVE ThreadInv(u)'
  <2>1. AloneInv(u)'
    BY OthersContested
  <2>2. (LocalsInv(u) /\ ConsumeInv(u) /\ LateInv(u))'
    BY DEF IInv, ThreadInv, LocalsInv, ConsumeInv, LateInv, Consuming, server
  <2>3. RedeemInv(u)'
    BY DEF IInv, ThreadInv, RedeemInv, Unbought, At, server
  <2> QED BY <2>1, <2>2, <2>3 DEF ThreadInv
<1> QED BY <1>1, <1>2, <1>3 DEF IInv

(* The statements of redeem() that change the dictionaries.                *)
LEMMA RedeemPopInv == ASSUME IInv, NEW t \in Thread, RedeemPop(t) PROVE IInv'
<1> DEFINE c == frame[t].key
<1>1. /\ c \in Code /\ offeredAt[c] # None /\ ~At(t, "idle")
      /\ codes' = codes \ {c} /\ refused' = refused \cup {c}
      /\ UNCHANGED <<now, expiresAt, tokens, offeredAt, sold, bought, store>>
  BY DEF IInv, RedeemPop, Popped, At, ThreadInv, LocalsInv, Redeeming
<1>2. Return(t, "refused") /\ "refused" \in Results
  BY DEF RedeemPop, Poppable, Results
<1>3. /\ frame' \in [Thread -> Frame] /\ UNCHANGED <<late, contested>>
      /\ frame'[t] = [Idle EXCEPT !.result = "refused"]
      /\ \A v \in Thread \ {t} : frame'[v] = frame[v]
  BY <1>2, ReturnInv DEF IInv, TypeOK, Return, Local
<1>4. TypeOK'
  BY <1>1, <1>3 DEF IInv, TypeOK, store
<1>5. CodesInv'
  BY <1>1 DEF IInv, CodesInv, Unbought, OneTokenPerCode, TokenIsInTime
<1>6. NoncesInv'
  BY <1>1 DEF IInv, NoncesInv, NonceAcceptedOnceInTime, Keys, store
<1>7. ThreadInv(t)'
  BY <1>1, <1>2, ReturnInv
<1>8. ASSUME NEW u \in Thread \ {t} PROVE ThreadInv(u)'
  <2>1. AloneInv(u)'
    BY <1>1, <1>3, OthersContested
  <2>2. (LocalsInv(u) /\ ConsumeInv(u) /\ LateInv(u))'
    BY <1>1, <1>3 DEF IInv, ThreadInv, LocalsInv, ConsumeInv, LateInv, store
  <2>3. RedeemInv(u)'
    BY <1>1, <1>3 DEF IInv, ThreadInv, RedeemInv, Unbought, At, Idle
  <2> QED BY <2>1, <2>2, <2>3 DEF ThreadInv
<1> QED BY <1>4, <1>5, <1>6, <1>7, <1>8 DEF IInv

LEMMA RedeemDelInv == ASSUME IInv, NEW t \in Thread, RedeemDel(t) PROVE IInv'
<1>0. PICK c \in Code : c = frame[t].key
  BY DEF IInv, RedeemDel, At, ThreadInv, LocalsInv, Redeeming
<1>1. /\ c \in Code /\ offeredAt[c] # None /\ frame[t].at = "redeem_del"
      /\ UNCHANGED <<now, expiresAt, tokens, offeredAt, bought, refused, store>>
  BY <1>0 DEF IInv, RedeemDel, At, ThreadInv, LocalsInv, Redeeming
<1>2. ASSUME c \notin codes, Return(t, "KeyError"), UNCHANGED <<codes, sold>> PROVE IInv'
  <2>1. "KeyError" \in Results /\ t \in contested
    BY <1>0, <1>1, <1>2 DEF Results, IInv, ThreadInv, AloneInv
  <2> QED BY <1>1, <1>2, <2>1, ReturnInv, MoveKeepsInv DEF At, server
<1>3. ASSUME c \in codes, codes' = codes \ {c}, sold' = sold \cup {c},
             Goto(t, "redeem_renew")
      PROVE  IInv'
  <2>1. "redeem_renew" \in Statements
    BY DEF Statements
  <2>2. /\ frame' \in [Thread -> Frame] /\ UNCHANGED <<late, contested>>
        /\ frame'[t].at = "redeem_renew" /\ frame'[t].key = c
        /\ frame'[t].moment = frame[t].moment /\ frame'[t].result = frame[t].result
        /\ \A v \in Thread \ {t} : frame'[v] = frame[v]
    BY <1>0, <1>3, <2>1, GotoFrame DEF IInv
  <2>3. TypeOK'
    BY <1>1, <1>3, <2>2 DEF IInv, TypeOK, store
  <2>4. CodesInv'
    BY <1>1, <1>3 DEF IInv, CodesInv, Unbought, OneTokenPerCode, TokenIsInTime
  <2>5. NoncesInv'
    BY <1>1 DEF IInv, NoncesInv, NonceAcceptedOnceInTime, Keys, store
  <2>6. \A u \in Thread \ {t} : frame[u].at = "redeem_renew" => frame[u].key # c
    BY <1>3 DEF IInv, CodesInv, ThreadInv, RedeemInv
  <2>7. Unbought(c)' /\ t \notin late
    BY <1>0, <1>1, <1>3 DEF IInv, CodesInv, Unbought, ThreadInv, LateInv, Redeeming
  <2>8. ThreadInv(t)'
    BY <1>0, <1>1, <1>3, <2>2, <2>6, <2>7 DEF IInv, At, ThreadInv, LocalsInv, RedeemInv,
       LateInv, ConsumeInv, AloneInv,
       Redeeming, Granting, Consuming, Issuing
  <2>9. ASSUME NEW u \in Thread \ {t} PROVE ThreadInv(u)'
    <3>1. AloneInv(u)'
      BY <1>1, <2>2, OthersContested DEF At
    <3>2. (LocalsInv(u) /\ ConsumeInv(u) /\ LateInv(u))'
      BY <1>1, <2>2 DEF IInv, ThreadInv, LocalsInv, ConsumeInv, LateInv, store
    <3>3. RedeemInv(u)'
      BY <1>1, <1>3, <2>2, <2>6 DEF IInv, ThreadInv, RedeemInv, Unbought, At
    <3> QED BY <3>1, <3>2, <3>3 DEF ThreadInv
  <2> QED BY <2>3, <2>4, <2>5, <2>8, <2>9 DEF IInv
<1> QED BY <1>0, <1>2, <1>3 DEF RedeemDel, Deletable

LEMMA RedeemRenewInv ==
    ASSUME IInv, NEW t \in Thread, NEW k \in Token, RedeemRenew(t, k) PROVE IInv'
<1>0. PICK c \in Code : c = frame[t].key
  BY DEF IInv, RedeemRenew, At, ThreadInv, LocalsInv, Redeeming
<1> DEFINE f == [frame[t] EXCEPT !.at = "redeem_store", !.token = k]
<1>1. /\ frame[t] \in Frame /\ frame[t].at = "redeem_renew" /\ bought[k] = None
      /\ expiresAt' = [expiresAt EXCEPT ![c] = TokenExpiry]
      /\ bought' = [bought EXCEPT ![k] = [code |-> c,
                       checkedAt |-> frame[t].moment, renewedAt |-> now]]
      /\ UNCHANGED <<now, codes, tokens, offeredAt, sold, refused, store>>
  BY <1>0 DEF IInv, TypeOK, RedeemRenew, At
<1>2. /\ c \in Code /\ c \in sold /\ Unbought(c) /\ offeredAt[c] \in Nat
      /\ frame[t].moment \in Nat /\ frame[t].moment < offeredAt[c] + CodeTtl
      /\ \A u \in Thread \ {t} : frame[u].at = "redeem_renew" => frame[u].key # c
      /\ t \notin late /\ frame[t].result = "none"
  BY <1>0, <1>1 DEF IInv, TypeOK, Frame, At, ThreadInv, LocalsInv, RedeemInv, LateInv,
     ConsumeInv, AloneInv, Redeeming
<1>3. f \in Frame /\ f.at = "redeem_store" /\ f.key = c /\ f.token = k /\ f.result = "none"
  BY <1>0, <1>1, <1>2 DEF Frame, Statements
<1>4. Local(t, f)
  BY DEF RedeemRenew
<1> HIDE DEF f
<1>5. /\ frame' \in [Thread -> Frame] /\ UNCHANGED <<late, contested>>
      /\ frame'[t] = f /\ \A v \in Thread \ {t} : frame'[v] = frame[v]
  BY <1>3, <1>4, LocalFrame DEF IInv
<1>6. TokenExpiry \in Nat /\ TokenExpiry = now + TokenTtl /\ now \in Nat
  BY TtlAssumption DEF IInv, TypeOK, TokenExpiry
<1>7. /\ expiresAt' \in [Code -> Nat \cup {None}]
      /\ bought' \in [Token -> [code : Code, checkedAt : Nat, renewedAt : Nat] \cup {None}]
  BY <1>1, <1>2, <1>6 DEF IInv, TypeOK
<1>8. TypeOK'
  BY <1>1, <1>5, <1>7 DEF IInv, TypeOK, store
<1>9. bought'[k] # None /\ bought'[k].code = c
  BY <1>1, <1>2, <1>6, NoneAssumption DEF IInv, TypeOK
<1>10. CodesInv'
  <2>1. \A d \in Code \ {c} : expiresAt'[d] = expiresAt[d] /\ (Unbought(d)' => Unbought(d))
    BY <1>1, <1>9 DEF IInv, TypeOK, Unbought
  <2>2. ~Unbought(c)'
    BY <1>9 DEF Unbought
  <2>3. \A d \in Code : offeredAt'[d] # None /\ Unbought(d)'
                            => expiresAt'[d] = offeredAt'[d] + CodeTtl
    BY <1>1, <2>1, <2>2 DEF IInv, CodesInv
  <2>4. OneTokenPerCode'
    BY <1>1, <1>2, <1>9 DEF IInv, TypeOK, CodesInv, OneTokenPerCode, Unbought
  <2>5. TokenIsInTime'
    <3> SUFFICES ASSUME NEW l \in Token, bought'[l] # None
                 PROVE  /\ bought'[l].checkedAt < offeredAt'[bought'[l].code] + CodeTtl
                        /\ expiresAt'[bought'[l].code] = bought'[l].renewedAt + TokenTtl
      BY DEF TokenIsInTime
    <3>1. CASE l = k
      BY <1>1, <1>2, <1>6, <3>1 DEF IInv, TypeOK
    <3>2. CASE l # k
      <4>1. bought'[l] = bought[l] /\ bought[l].code \in Code \ {c}
        BY <1>1, <1>2, <3>2 DEF IInv, TypeOK, Unbought
      <4> QED BY <1>1, <2>1, <4>1 DEF IInv, CodesInv, TokenIsInTime
    <3> QED BY <3>1, <3>2
  <2> QED BY <1>1, <1>2, <2>3, <2>4, <2>5 DEF IInv, TypeOK, CodesInv
<1>11. NoncesInv'
  BY <1>1 DEF IInv, NoncesInv, NonceAcceptedOnceInTime, Keys, store
<1>12. ThreadInv(t)'
  BY <1>0, <1>1, <1>2, <1>3, <1>5 DEF At, IInv, ThreadInv, LocalsInv, RedeemInv, LateInv,
     ConsumeInv, AloneInv,
     Redeeming, Granting, Consuming, Issuing
<1>13. ASSUME NEW u \in Thread \ {t} PROVE ThreadInv(u)'
  <2>1. AloneInv(u)'
    BY <1>1, <1>5, OthersContested DEF At
  <2>2. (LocalsInv(u) /\ ConsumeInv(u) /\ LateInv(u))'
    BY <1>1, <1>5 DEF IInv, ThreadInv, LocalsInv, ConsumeInv, LateInv, store
  <2>3. \A d : d # c /\ Unbought(d) => Unbought(d)'
    BY <1>1, <1>9 DEF IInv, TypeOK, Unbought
  <2>4. RedeemInv(u)'
    BY <1>1, <1>2, <1>3, <1>5, <2>3 DEF IInv, ThreadInv, RedeemInv, At
  <2> QED BY <2>1, <2>2, <2>4 DEF ThreadInv
<1> QED BY <1>8, <1>10, <1>11, <1>12, <1>13 DEF IInv

LEMMA RedeemStoreInv == ASSUME IInv, NEW t \in Thread, RedeemStore(t) PROVE IInv'
<1>1. /\ frame[t].at = "redeem_store" /\ frame[t].key \in Code /\ frame[t].token \in Token
      /\ t \notin late /\ "ok" \in Results /\ Return(t, "ok")
      /\ tokens' = [tokens EXCEPT ![frame[t].token] = frame[t].key]
      /\ UNCHANGED <<now, codes, expiresAt, offeredAt, sold, bought, refused, store>>
  BY DEF IInv, RedeemStore, At, ThreadInv, LocalsInv, LateInv, Redeeming, Results
<1> QED BY <1>1, TokensDoNotMatter, ReturnInv DEF At

(* The statement of grant_for() that changes the dictionary of tokens.     *)
LEMMA GrantPopInv == ASSUME IInv, NEW t \in Thread, GrantPop(t) PROVE IInv'
<1>1. /\ frame[t].at = "grant_pop" /\ frame[t].key \in Token
      /\ "refused" \in Results /\ Return(t, "refused")
      /\ tokens' = [tokens EXCEPT ![frame[t].key] = None]
      /\ UNCHANGED <<now, codes, expiresAt, offeredAt, sold, bought, refused, store>>
  BY DEF IInv, GrantPop, At, ThreadInv, LocalsInv, Granting, Results
<1> QED BY <1>1, TokensDoNotMatter, ReturnInv DEF At

(* consume(): the statement that accepts.                                  *)
LEMMA ConsumeDelInv == ASSUME IInv, NEW t \in Thread, ConsumeDel(t) PROVE IInv'
<1>0. PICK n \in Nonce : n = frame[t].key
  BY DEF IInv, ConsumeDel, At, ThreadInv, LocalsInv, Consuming
<1>1. /\ frame[t].at = "consume_del" /\ t \notin late
      /\ frame[t].moment \in Nat /\ frame[t].moment < issuedAt[n] + NonceTtl
      /\ UNCHANGED <<now, server, issuedAt>>
  BY <1>0 DEF IInv, TypeOK, Frame, ConsumeDel, At, ThreadInv, LateInv, ConsumeInv, Consuming
<1>2. ASSUME n \notin Keys, Return(t, "KeyError"), UNCHANGED <<held, uses, usedAt>> PROVE IInv'
  <2>1. "KeyError" \in Results /\ t \in contested
    BY <1>0, <1>1, <1>2 DEF Results, IInv, ThreadInv, AloneInv, Keys
  <2> QED BY <1>1, <1>2, <2>1, ReturnInv, MoveKeepsInv DEF At, store
<1>3. ASSUME n \in Keys, Return(t, "ok"), held' = [held EXCEPT ![n] = None],
             uses' = [uses EXCEPT ![n] = @ + 1],
             usedAt' = [usedAt EXCEPT ![n] = frame[t].moment]
      PROVE  IInv'
  <2>1. "ok" \in Results
    BY DEF Results
  <2>2. uses[n] = 0
    BY <1>3 DEF IInv, NoncesInv, Keys
  <2>3. TypeOK /\ held' \in [Nonce -> Nat \cup {None}] /\ uses' \in [Nonce -> Nat]
        /\ usedAt' \in [Nonce -> Nat \cup {None}]
        /\ issuedAt' \in [Nonce -> Nat \cup {None}]
    BY <1>1, <1>3 DEF IInv, TypeOK
  <2>6. ThreadInv(t)' /\ At(t, "idle")' /\ ~At(t, "idle")
    BY <1>1, <1>3, <2>1, ReturnInv DEF At
  <2>7. /\ frame' \in [Thread -> Frame] /\ UNCHANGED <<late, contested>>
        /\ \A v \in Thread \ {t} : frame'[v] = frame[v]
    BY <1>1, <1>3, <2>1, ReturnInv
  <2>4. IsFiniteSet(Keys')
    <3>1. Keys' = Keys \ {n}
      BY <1>3 DEF IInv, TypeOK, Keys
    <3> QED BY <3>1, FS_RemoveElement DEF IInv, NoncesInv
  <2>5. NoncesInv'
    <3>1. \A m \in Nonce \ {n} : /\ held'[m] = held[m] /\ uses'[m] = uses[m]
                                 /\ usedAt'[m] = usedAt[m]
      BY <1>3 DEF IInv, TypeOK
    <3>2. /\ held'[n] = None /\ uses'[n] = 1 /\ usedAt'[n] = frame[t].moment
          /\ issuedAt[n] # None
      BY <1>3, <2>2 DEF IInv, TypeOK, NoncesInv, Keys
    <3>3. NonceAcceptedOnceInTime'
      BY <1>1, <3>1, <3>2 DEF IInv, NoncesInv, NonceAcceptedOnceInTime
    <3> QED BY <1>1, <2>4, <3>1, <3>2, <3>3 DEF IInv, NoncesInv
  <2> QED BY <1>1, <2>3, <2>5, <2>6, <2>7, StoreStepKeepsInv DEF At
<1> QED BY <1>0, <1>2, <1>3 DEF ConsumeDel, Deletable

(* issue(): the statements that change the dictionary.                     *)
LEMMA IssueDelInv == ASSUME IInv, NEW t \in Thread, IssueDel(t) PROVE IInv'
<1>1. /\ frame[t] \in Frame /\ frame[t].at = "issue_del" /\ t \notin late
      /\ frame[t].result = "none"
      /\ UNCHANGED <<now, server, issuedAt, uses, usedAt>>
  BY DEF IInv, TypeOK, IssueDel, At, ThreadInv, LocalsInv, LateInv, Issuing
<1>2. ASSUME Goto(t, "issue_store"), UNCHANGED held PROVE IInv'
  <2>1. "issue_store" \in Statements
    BY DEF Statements
  <2>2. ThreadInv(t)'
    BY <1>1, <1>2, <2>1, GotoFrame DEF IInv, At, ThreadInv, LocalsInv, RedeemInv, LateInv,
       ConsumeInv, AloneInv,
       Redeeming, Granting, Consuming, Issuing
  <2> QED BY <1>1, <1>2, <2>1, <2>2, GotoFrame, MoveKeepsInv DEF IInv, At, store
<1>3. ASSUME NEW n \in frame[t].stale, n \notin Keys, Return(t, "KeyError"), UNCHANGED held
      PROVE  IInv'
  <2>1. "KeyError" \in Results /\ t \in contested
    BY <1>1, <1>3 DEF Results, IInv, ThreadInv, AloneInv
  <2> QED BY <1>1, <1>3, <2>1, ReturnInv, MoveKeepsInv DEF At, store
<1>4. ASSUME NEW n \in frame[t].stale, n \in Keys, held' = [held EXCEPT ![n] = None],
             Local(t, [frame[t] EXCEPT !.stale = @ \ {n}])
      PROVE  IInv'
  <2> DEFINE f == [frame[t] EXCEPT !.stale = @ \ {n}]
  <2>1. /\ f \in Frame /\ f.at = "issue_del" /\ f.stale = frame[t].stale \ {n}
        /\ f.result = "none"
    BY <1>1 DEF Frame
  <2>2. Local(t, f)
    BY <1>4
  <2> HIDE DEF f
  <2>3. /\ frame' \in [Thread -> Frame] /\ UNCHANGED <<late, contested>>
        /\ frame'[t] = f /\ \A v \in Thread \ {t} : frame'[v] = frame[v]
    BY <2>1, <2>2, LocalFrame DEF IInv
  <2>4. Keys' = Keys \ {n} /\ n \in Nonce
    BY <1>1, <1>4 DEF IInv, TypeOK, Frame, Keys
  <2>10. IsFiniteSet(Keys')
    BY <2>4, FS_RemoveElement DEF IInv, NoncesInv
  <2>5. held' \in [Nonce -> Nat \cup {None}] /\ NoncesInv'
    BY <1>1, <1>4, <2>10 DEF IInv, TypeOK, NoncesInv, NonceAcceptedOnceInTime
  <2>6. t \notin contested => f.stale \subseteq Keys'
    BY <1>1, <2>1, <2>4 DEF IInv, ThreadInv, AloneInv
  <2>7. ThreadInv(t)'
    BY <1>1, <2>1, <2>3, <2>6 DEF IInv, At, ThreadInv, LocalsInv, RedeemInv, LateInv,
       ConsumeInv, AloneInv,
       Redeeming, Granting, Consuming, Issuing
  <2>8. TypeOK /\ ~At(t, "idle") /\ ~At(t, "redeem_renew")'
    BY <1>1, <2>1, <2>3 DEF IInv, At
  <2>9. uses' \in [Nonce -> Nat] /\ usedAt' \in [Nonce -> Nat \cup {None}]
        /\ issuedAt' \in [Nonce -> Nat \cup {None}]
    BY <1>1 DEF IInv, TypeOK
  <2> QED BY <1>1, <2>3, <2>5, <2>7, <2>8, <2>9, StoreStepKeepsInv
<1> QED BY <1>2, <1>3, <1>4 DEF IssueDel, Deletable

LEMMA IssueStoreInv ==
    ASSUME IInv, NEW t \in Thread, NEW n \in Nonce, IssueStore(t, n) PROVE IInv'
<1>1. /\ frame[t].at = "issue_store" /\ t \notin late
      /\ "ok" \in Results /\ Return(t, "ok") /\ issuedAt[n] = None
      /\ held' = [held EXCEPT ![n] = now + NonceTtl]
      /\ issuedAt' = [issuedAt EXCEPT ![n] = now]
      /\ UNCHANGED <<now, server, uses, usedAt>>
  BY DEF IInv, IssueStore, At, ThreadInv, LateInv, Issuing, Results
<1>2. TypeOK /\ now \in Nat /\ now + NonceTtl \in Nat
  BY TtlAssumption DEF IInv, TypeOK
<1>3. /\ held' \in [Nonce -> Nat \cup {None}] /\ issuedAt' \in [Nonce -> Nat \cup {None}]
      /\ uses' \in [Nonce -> Nat] /\ usedAt' \in [Nonce -> Nat \cup {None}]
  BY <1>1, <1>2 DEF TypeOK
<1>4. IsFiniteSet(Keys')
  <2>1. Keys' = Keys \cup {n}
    BY <1>1, <1>2, NoneAssumption DEF TypeOK, Keys
  <2> QED BY <2>1, FS_AddElement DEF IInv, NoncesInv
<1>5. NoncesInv'
  BY <1>1, <1>2, <1>4, NoneAssumption DEF IInv, TypeOK, NoncesInv, NonceAcceptedOnceInTime
<1>6. \A m \in Nonce : issuedAt[m] # None => issuedAt'[m] = issuedAt[m] /\ issuedAt'[m] # None
  BY <1>1 DEF IInv, TypeOK
<1> QED BY <1>1, <1>2, <1>3, <1>5, <1>6, StoreStepKeepsInv, ReturnInv DEF At

(* An offer brings a code nobody has heard of; the clock is nobody's       *)
(* business but of the statement that reads it.                            *)
LEMMA OfferInv == ASSUME IInv, NEW c \in Code, Offer(c) PROVE IInv'
<1>1. /\ offeredAt[c] = None /\ codes' = codes \cup {c}
      /\ expiresAt' = [expiresAt EXCEPT ![c] = now + CodeTtl]
      /\ offeredAt' = [offeredAt EXCEPT ![c] = now]
      /\ UNCHANGED <<now, tokens, sold, bought, refused, store, threads>>
  BY DEF Offer
<1>2. now \in Nat /\ now + CodeTtl \in Nat
  BY TtlAssumption DEF IInv, TypeOK
<1>3. TypeOK'
  BY <1>1, <1>2 DEF IInv, TypeOK, store, threads
<1>4. c \notin sold /\ c \notin refused /\ now # None
  BY <1>1, <1>2, NoneAssumption DEF IInv, CodesInv
<1>5. CodesInv'
  <2>1. \A d \in Code \ {c} : expiresAt'[d] = expiresAt[d] /\ offeredAt'[d] = offeredAt[d]
    BY <1>1 DEF IInv, TypeOK
  <2>2. expiresAt'[c] = now + CodeTtl /\ offeredAt'[c] = now
    BY <1>1 DEF IInv, TypeOK
  <2>3. \A k \in Token : bought[k] # None => bought[k].code \in Code \ {c}
    BY <1>1, <1>4 DEF IInv, TypeOK, CodesInv
  <2>4. OneTokenPerCode' /\ TokenIsInTime'
    BY <1>1, <2>1, <2>3 DEF IInv, CodesInv, OneTokenPerCode, TokenIsInTime
  <2> QED BY <1>1, <1>4, <2>1, <2>2, <2>4 DEF IInv, TypeOK, CodesInv, Unbought
<1>6. NoncesInv'
  BY <1>1 DEF IInv, NoncesInv, NonceAcceptedOnceInTime, Keys, store
<1>7. ASSUME NEW t \in Thread PROVE ThreadInv(t)'
  <2>1. frame' = frame /\ late' = late /\ contested' = contested
    BY <1>1 DEF threads
  <2>2. \A d \in Code : offeredAt[d] # None => d # c /\ offeredAt'[d] = offeredAt[d]
    BY <1>1 DEF IInv, TypeOK
  <2>3. LocalsInv(t)' /\ ConsumeInv(t)' /\ LateInv(t)'
    BY <1>1, <2>1, <2>2 DEF IInv, ThreadInv, LocalsInv, ConsumeInv, LateInv, store
  <2>4. RedeemInv(t)'
    BY <1>1, <2>1, <2>2 DEF IInv, ThreadInv, LocalsInv, RedeemInv, Redeeming, Unbought, At
  <2>5. AloneInv(t)'
    BY <1>1, <2>1 DEF IInv, ThreadInv, AloneInv, At, Keys, Expired, store
  <2> QED BY <2>3, <2>4, <2>5 DEF ThreadInv
<1> QED BY <1>3, <1>5, <1>6, <1>7 DEF IInv

LEMMA ClockInv == ASSUME IInv, Tick \/ StepBack PROVE IInv'
<1>1. now' \in Nat /\ UNCHANGED <<server, store, threads>>
  BY DEF IInv, TypeOK, Tick, StepBack
<1>2. TypeOK'
  BY <1>1 DEF IInv, TypeOK, server, store, threads
<1>3. \A t \in Thread : ThreadInv(t)'
  BY <1>1 DEF IInv, ThreadInv, LocalsInv, RedeemInv, LateInv, ConsumeInv, AloneInv, At,
     Unbought, Keys, Expired, server, store, threads
<1> QED BY <1>1, <1>2, <1>3, DictionariesKept DEF IInv

LEMMA StutterInv == ASSUME IInv, UNCHANGED vars PROVE IInv'
<1>1. now' \in Nat /\ UNCHANGED <<server, store, threads>>
  BY DEF IInv, TypeOK, vars
<1>2. TypeOK'
  BY <1>1 DEF IInv, TypeOK, server, store, threads
<1>3. \A t \in Thread : ThreadInv(t)'
  BY <1>1 DEF IInv, ThreadInv, LocalsInv, RedeemInv, LateInv, ConsumeInv, AloneInv, At,
     Unbought, Keys, Expired, server, store, threads
<1> QED BY <1>1, <1>2, <1>3, DictionariesKept DEF IInv

(* The invariant is inductive.                                             *)
LEMMA NextIInv == IInv /\ [Next]_vars => IInv'
<1> SUFFICES ASSUME IInv, [Next]_vars PROVE IInv'
  OBVIOUS
<1>1. ASSUME NEW t \in Thread, ServerStep(t) PROVE IInv'
  BY <1>1, BeginRedeemInv, RedeemGetInv, RedeemIfInv, RedeemPopInv, RedeemDelInv,
     RedeemRenewInv, RedeemStoreInv, BeginGrantForInv, GrantGetInv, GrantIfInv, GrantPopInv
  DEF ServerStep
<1>2. ASSUME NEW t \in Thread, StoreStep(t) PROVE IInv'
  BY <1>2, BeginConsumeInv, ConsumeGetInv, ConsumeIfInv, ConsumeDelInv, BeginIssueInv,
     IssueMomentInv, IssueScanInv, IssueListInv, IssueDelInv, IssueStoreInv
  DEF StoreStep
<1> QED BY <1>1, <1>2, OfferInv, ClockInv, StutterInv DEF Next

LEMMA SpecIInv == Spec => []IInv
  BY InitIInv, NextIInv, PTL DEF Spec

(* The variables, and the locals of every thread, keep their types.        *)
THEOREM ThreadsTypeOK == Spec => []TypeOK
<1>1. IInv => TypeOK
  BY DEF IInv
<1> QED BY <1>1, SpecIInv, PTL

(* However many threads run redeem(), `del' lets one of them past: a code  *)
(* buys one token.                                                         *)
THEOREM ThreadsOneTokenPerCode == Spec => []OneTokenPerCode
<1>1. IInv => OneTokenPerCode
  BY DEF IInv, CodesInv
<1> QED BY <1>1, SpecIInv, PTL

(* The comparison redeem() made still holds when `del' succeeds, though    *)
(* another thread may renew the same Grant object in between.              *)
THEOREM ThreadsTokenIsInTime == Spec => []TokenIsInTime
<1>1. IInv => TokenIsInTime
  BY DEF IInv, CodesInv
<1> QED BY <1>1, SpecIInv, PTL

(* consume() accepts a nonce once and in time, whatever else runs.         *)
THEOREM ThreadsNonceAcceptedOnceInTime == Spec => []NonceAcceptedOnceInTime
<1>1. IInv => NonceAcceptedOnceInTime
  BY DEF IInv, NoncesInv
<1> QED BY <1>1, SpecIInv, PTL

(* Once redeem() has refused a code as unknown, used or expired, a call    *)
(* that begins later does not succeed with it.                             *)
THEOREM ThreadsRefusalIsFinal == Spec => []RefusalIsFinal
<1>1. IInv => RefusalIsFinal
  BY DEF IInv, TypeOK, ThreadInv, LateInv, RefusalIsFinal
<1> QED BY <1>1, SpecIInv, PTL

(* A call that no other overlaps, as on one event loop, raises neither     *)
(* KeyError nor RuntimeError.                                              *)
THEOREM ThreadsUntypedErrorsNeedARace == Spec => []UntypedErrorsNeedARace
<1>1. IInv => UntypedErrorsNeedARace
  BY DEF IInv, ThreadInv, AloneInv, UntypedErrorsNeedARace
<1> QED BY <1>1, SpecIInv, PTL

----------------------------------------------------------------------------
(* Refinement of SingleUse: the statements that change the phase of a code *)
(* are offer's, the `pop' of a refusal, and the `del' of an acceptance.    *)
LEMMA CodeStepRefines ==
    IInv /\ [Next]_vars => [Codes!Next]_[c \in Code |-> CodePhase(c)]
<1> DEFINE phase == [c \in Code |-> CodePhase(c)]
<1> SUFFICES ASSUME IInv, [Next]_vars PROVE Codes!Next \/ phase' = phase
  OBVIOUS
<1>1. ASSUME NEW c \in Code, Offer(c) PROVE Codes!Next
  <2>1. /\ now \in Nat /\ c \notin sold /\ c \notin codes
        /\ offeredAt \in [Code -> Nat \cup {None}]
    BY <1>1 DEF IInv, TypeOK, CodesInv, Offer
  <2>2. /\ CodePhase(c) = "unissued" /\ CodePhase(c)' = "live"
        /\ \A d \in Code \ {c} : CodePhase(d)' = CodePhase(d)
    BY <1>1, <2>1, NoneAssumption DEF Offer, CodePhase
  <2>3. phase' = [phase EXCEPT ![c] = "live"]
    BY <2>2
  <2>4. Codes!Issue(c)
    BY <2>2, <2>3 DEF Codes!Issue
  <2> QED BY <2>4 DEF Codes!Next
<1>2. ASSUME NEW t \in Thread, RedeemPop(t) PROVE Codes!Next
  <2>1. PICK c \in Code : c = frame[t].key
    BY <1>2 DEF IInv, RedeemPop, At, ThreadInv, LocalsInv, Redeeming
  <2> DEFINE lapsed == {c} \cap codes
  <2>2. codes' = codes \ {c} /\ sold' = sold /\ offeredAt' = offeredAt
    BY <1>2, <2>1 DEF RedeemPop, Popped
  <2>3. \A d \in Code : phase'[d] = IF d \in lapsed THEN "dead" ELSE phase[d]
    BY <2>2 DEF IInv, CodesInv, CodePhase
  <2>4. \A d \in lapsed : phase[d] = "live"
    BY DEF IInv, CodesInv, CodePhase
  <2>5. phase' = [d \in Code |-> IF d \in lapsed THEN "dead" ELSE phase[d]]
    BY <2>3
  <2>6. Codes!Lapse(lapsed)
    BY <2>4, <2>5 DEF Codes!Lapse
  <2> QED BY <2>6 DEF Codes!Next
<1>3. ASSUME NEW t \in Thread, RedeemDel(t) PROVE Codes!Next \/ phase' = phase
  <2>1. PICK c \in Code : c = frame[t].key
    BY <1>3 DEF IInv, RedeemDel, At, ThreadInv, LocalsInv, Redeeming
  <2>2. CASE c \in codes
    <3>1. codes' = codes \ {c} /\ sold' = sold \cup {c} /\ offeredAt' = offeredAt
      BY <1>3, <2>1, <2>2 DEF RedeemDel, Deletable
    <3>2. /\ CodePhase(c) = "live" /\ CodePhase(c)' = "spent"
          /\ \A d \in Code \ {c} : CodePhase(d)' = CodePhase(d)
      BY <2>2, <3>1 DEF IInv, CodesInv, CodePhase
    <3>3. phase' = [phase EXCEPT ![c] = "spent"]
      BY <3>2
    <3>4. Codes!Spend(c)
      BY <3>2, <3>3 DEF Codes!Spend
    <3> QED BY <3>4 DEF Codes!Next
  <2>3. CASE c \notin codes
    BY <1>3, <2>1, <2>3 DEF RedeemDel, Deletable, CodePhase
  <2> QED BY <2>2, <2>3
<1>4. ASSUME UNCHANGED <<codes, sold, offeredAt>> PROVE phase' = phase
  BY <1>4 DEF CodePhase
<1>5. ASSUME NEW t \in Thread, ServerStep(t), ~RedeemPop(t), ~RedeemDel(t)
      PROVE  UNCHANGED <<codes, sold, offeredAt>>
  BY <1>5 DEF ServerStep, BeginRedeem, RedeemGet, RedeemIf, RedeemStore, RedeemRenew,
     BeginGrantFor, GrantGet, GrantIf, GrantPop, server
<1>6. ASSUME NEW t \in Thread, StoreStep(t) PROVE UNCHANGED <<codes, sold, offeredAt>>
  BY <1>6 DEF StoreStep, BeginConsume, IssueStore, ConsumeGet, ConsumeIf, ConsumeDel,
     BeginIssue, IssueMoment, IssueScan, IssueList, IssueDel, server
<1>7. CASE Tick \/ StepBack \/ UNCHANGED vars
  BY <1>4, <1>7 DEF Tick, StepBack, vars, server
<1> QED BY <1>1, <1>2, <1>3, <1>4, <1>5, <1>6, <1>7 DEF Next

(* For nonces they are the assignment of issue(), each `del' of its sweep, *)
(* and the `del' of consume().                                             *)
LEMMA NonceStepRefines ==
    IInv /\ [Next]_vars => [Nonces!Next]_[n \in Nonce |-> NoncePhase(n)]
<1> DEFINE phase == [n \in Nonce |-> NoncePhase(n)]
<1> SUFFICES ASSUME IInv, [Next]_vars PROVE Nonces!Next \/ phase' = phase
  OBVIOUS
<1>0. /\ \A n \in Nonce : held[n] # None => uses[n] = 0 /\ issuedAt[n] # None
      /\ \A n \in Nonce : issuedAt[n] = None => uses[n] = 0
      /\ held \in [Nonce -> Nat \cup {None}] /\ issuedAt \in [Nonce -> Nat \cup {None}]
      /\ uses \in [Nonce -> Nat]
  BY DEF IInv, TypeOK, NoncesInv
<1>1. ASSUME NEW t \in Thread, NEW n \in Nonce, IssueStore(t, n) PROVE Nonces!Next
  <2>1. now \in Nat /\ now + NonceTtl \in Nat
    BY TtlAssumption DEF IInv, TypeOK
  <2>2. /\ NoncePhase(n) = "unissued" /\ NoncePhase(n)' = "live"
        /\ \A m \in Nonce \ {n} : NoncePhase(m)' = NoncePhase(m)
    BY <1>0, <1>1, <2>1, NoneAssumption DEF IssueStore, NoncePhase, Keys
  <2>3. phase' = [phase EXCEPT ![n] = "live"]
    BY <2>2
  <2>4. Nonces!Issue(n)
    BY <2>2, <2>3 DEF Nonces!Issue
  <2> QED BY <2>4 DEF Nonces!Next
<1>2. ASSUME NEW n \in Keys, held' = [held EXCEPT ![n] = None],
             UNCHANGED <<issuedAt, uses>>
      PROVE  Nonces!Next
  <2>1. /\ n \in Nonce /\ NoncePhase(n) = "live" /\ NoncePhase(n)' = "dead"
        /\ \A m \in Nonce \ {n} : NoncePhase(m)' = NoncePhase(m)
    BY <1>0, <1>2 DEF NoncePhase, Keys
  <2>2. phase' = [m \in Nonce |-> IF m \in {n} THEN "dead" ELSE phase[m]]
    BY <2>1
  <2>3. Nonces!Lapse({n}) /\ {n} \in SUBSET Nonce
    BY <2>1, <2>2 DEF Nonces!Lapse
  <2> QED BY <2>3 DEF Nonces!Next
<1>3. ASSUME NEW n \in Keys, held' = [held EXCEPT ![n] = None],
             uses' = [uses EXCEPT ![n] = @ + 1], UNCHANGED issuedAt
      PROVE  Nonces!Next
  <2>1. /\ n \in Nonce /\ NoncePhase(n) = "live" /\ NoncePhase(n)' = "spent"
        /\ \A m \in Nonce \ {n} : NoncePhase(m)' = NoncePhase(m)
    BY <1>0, <1>3 DEF NoncePhase, Keys
  <2>2. phase' = [phase EXCEPT ![n] = "spent"]
    BY <2>1
  <2>3. Nonces!Spend(n)
    BY <2>1, <2>2 DEF Nonces!Spend
  <2> QED BY <2>1, <2>3 DEF Nonces!Next
<1>4. ASSUME UNCHANGED <<held, issuedAt, uses>> PROVE phase' = phase
  BY <1>4 DEF NoncePhase, Keys
<1>5. ASSUME NEW t \in Thread, ServerStep(t) PROVE UNCHANGED <<held, issuedAt, uses>>
  BY <1>5 DEF ServerStep, BeginRedeem, RedeemGet, RedeemIf, RedeemPop, RedeemDel,
     RedeemStore, RedeemRenew, BeginGrantFor, GrantGet, GrantIf, GrantPop, store
<1>6. ASSUME NEW t \in Thread, StoreStep(t) PROVE Nonces!Next \/ phase' = phase
  <2>1. CASE ConsumeDel(t)
    BY <1>3, <1>4, <2>1 DEF ConsumeDel, Deletable
  <2>2. CASE IssueDel(t)
    BY <1>2, <1>4, <2>2 DEF IssueDel, Deletable
  <2>3. ASSUME NEW n \in Nonce, BeginConsume(t, n) PROVE UNCHANGED <<held, issuedAt, uses>>
    BY <2>3 DEF BeginConsume, store
  <2>4. CASE ConsumeGet(t) \/ ConsumeIf(t) \/ BeginIssue(t) \/ IssueMoment(t)
                \/ IssueScan(t) \/ IssueList(t)
    BY <1>4, <2>4 DEF ConsumeGet, ConsumeIf, BeginIssue, IssueMoment, IssueScan, IssueList,
       store
  <2> QED BY <1>1, <1>4, <1>6, <2>1, <2>2, <2>3, <2>4 DEF StoreStep
<1>7. CASE Tick \/ StepBack \/ UNCHANGED vars \/ \E c \in Code : Offer(c)
  BY <1>4, <1>7 DEF Tick, StepBack, vars, Offer, store
<1> QED BY <1>4, <1>5, <1>6, <1>7 DEF Next

(* For any number of threads, codes and nonces, on any clock, statement by *)
(* statement, redeem(), consume() and issue() implement SingleUse.         *)
THEOREM ThreadsImplementSingleUse == Spec => TicketsAreSingleUse
<1>1. Init => Codes!Init /\ Nonces!Init
  BY DEF Init, Codes!Init, Nonces!Init, CodePhase, NoncePhase
<1> QED BY <1>1, SpecIInv, CodeStepRefines, NonceStepRefines, PTL
        DEF Spec, TicketsAreSingleUse, Codes!Spec, Nonces!Spec
=============================================================================
