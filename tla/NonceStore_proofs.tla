------------------------- MODULE NonceStore_proofs -------------------------
(***************************************************************************)
(* Proofs about NonceStore, for every set of nonces and every Ttl. The     *)
(* inductive invariant ties the three things the properties relate: what   *)
(* the dictionary holds, when it was issued, and whether it was used.      *)
(***************************************************************************)
EXTENDS NonceStore, TLAPS

(* A nonce in the store carries the expiry of its issue and is unused.     *)
HeldIsUnused ==
    \A n \in Nonce : held[n] # None =>
        issuedAt[n] # None /\ held[n] = issuedAt[n] + Ttl /\ uses[n] = 0

StoreInv ==
    /\ TypeOK
    /\ AcceptedOnce
    /\ AcceptedWithinTtl
    /\ HeldWasCurrentAtLastIssue
    /\ HeldIsUnused

(* An empty store satisfies the invariant.                                *)
LEMMA InitStoreInv == Init => StoreInv
  BY TtlAssumption, NoneAssumption
  DEF Init, StoreInv, TypeOK, AcceptedOnce, AcceptedWithinTtl,
      HeldWasCurrentAtLastIssue, HeldIsUnused

(* The step case, on a clock that may be set back. *)
LEMMA NextStoreInv == StoreInv /\ [Next \/ StepBack]_vars => StoreInv'
<1> SUFFICES ASSUME StoreInv, [Next \/ StepBack]_vars PROVE StoreInv'
  OBVIOUS
<1> USE TtlAssumption, NoneAssumption
<1>1. ASSUME NEW n \in Nonce, Issue(n) PROVE StoreInv'
  <2>1. TypeOK'
    BY <1>1 DEF StoreInv, TypeOK, Issue, Expiry, Swept
  <2>2. uses[n] = 0
    BY <1>1 DEF StoreInv, TypeOK, Issue, Fresh, AcceptedWithinTtl
  <2>3. (AcceptedOnce /\ AcceptedWithinTtl /\ HeldIsUnused)'
    BY <1>1, <2>2 DEF StoreInv, TypeOK, Issue, Expiry, Swept, Fresh, AcceptedOnce,
       AcceptedWithinTtl, HeldIsUnused
  <2>4. HeldWasCurrentAtLastIssue'
    BY <1>1 DEF StoreInv, TypeOK, Issue, Expiry, Swept, HeldWasCurrentAtLastIssue
  <2> QED BY <2>1, <2>3, <2>4 DEF StoreInv
<1>2. ASSUME NEW n \in Nonce, Consume(n) PROVE StoreInv'
  <2>1. TypeOK'
    BY <1>2 DEF StoreInv, TypeOK, Consume, Without
  <2>2. (AcceptedOnce /\ AcceptedWithinTtl /\ HeldIsUnused)'
    BY <1>2 DEF StoreInv, TypeOK, Consume, Without, IsCurrent, AcceptedOnce,
       AcceptedWithinTtl, HeldIsUnused
  <2>3. HeldWasCurrentAtLastIssue'
    BY <1>2 DEF StoreInv, TypeOK, Consume, Without, HeldWasCurrentAtLastIssue
  <2> QED BY <2>1, <2>2, <2>3 DEF StoreInv
<1>3. ASSUME NEW n \in Nonce, Refuse(n) PROVE StoreInv'
  BY <1>3 DEF StoreInv, TypeOK, Refuse, AcceptedOnce, AcceptedWithinTtl,
     HeldWasCurrentAtLastIssue, HeldIsUnused
<1>4. CASE Restart
  BY <1>4 DEF StoreInv, TypeOK, Restart, history, AcceptedOnce, AcceptedWithinTtl,
     HeldWasCurrentAtLastIssue, HeldIsUnused
<1>5. CASE Tick \/ StepBack
  BY <1>5 DEF StoreInv, TypeOK, Tick, StepBack, history, AcceptedOnce,
     AcceptedWithinTtl, HeldWasCurrentAtLastIssue, HeldIsUnused
<1>6. CASE UNCHANGED vars
  BY <1>6 DEF StoreInv, TypeOK, vars, history, AcceptedOnce, AcceptedWithinTtl,
     HeldWasCurrentAtLastIssue, HeldIsUnused
<1> QED BY <1>1, <1>2, <1>3, <1>4, <1>5, <1>6 DEF Next

(* So it holds in every state the store reaches on a wall clock.           *)
LEMMA WallStoreInv == WallSpec => []StoreInv
<1>1. Init => StoreInv
  BY InitStoreInv
<1>2. StoreInv /\ [Next \/ StepBack]_vars => StoreInv'
  BY NextStoreInv
<1> QED BY <1>1, <1>2, PTL DEF WallSpec

(* Every nonce is accepted at most once, however often the clock is set    *)
(* back and the process restarted: consume() deletes what it accepts. And  *)
(* that is within Ttl of issue(), by the clock consume() reads.            *)
THEOREM WallAcceptedOnceInTime == WallSpec => []AcceptedOnceInTime
<1>1. StoreInv => AcceptedOnceInTime
  BY DEF StoreInv, AcceptedOnceInTime
<1> QED BY <1>1, WallStoreInv, PTL

(* issue() sweeps: nothing in the store had expired when it last ran.      *)
THEOREM WallHeldWasCurrent == WallSpec => []HeldWasCurrentAtLastIssue
<1>1. StoreInv => HeldWasCurrentAtLastIssue
  BY DEF StoreInv
<1> QED BY <1>1, WallStoreInv, PTL

(* Only consume() takes a current nonce out of the store, by deleting it   *)
(* when it accepts; the sweep and the refusals never do.                   *)
THEOREM WallCurrentLeavesOnlyByUse == WallSpec => CurrentLeavesOnlyByUse
<1> DEFINE Step == \A n \in Nonce :
              held[n] # None /\ held[n] > now /\ held'[n] = None /\ ~Restart
              => uses'[n] = uses[n] + 1
<1>1. ASSUME StoreInv, [Next \/ StepBack]_vars PROVE [Step]_vars
  <2>1. ASSUME NEW n \in Nonce, Issue(n) PROVE Step
    BY <1>1, <2>1, TtlAssumption, NoneAssumption
    DEF StoreInv, TypeOK, Issue, Swept, Expiry
  <2>2. ASSUME NEW n \in Nonce, Consume(n), NEW m \in Nonce,
               held[m] # None, held'[m] = None
        PROVE  uses'[m] = uses[m] + 1
    BY <1>1, <2>2 DEF StoreInv, TypeOK, Consume, Without
  <2>3. CASE (\E n \in Nonce : Refuse(n)) \/ Tick \/ StepBack
    BY <1>1, <2>3 DEF StoreInv, TypeOK, Refuse, Tick, StepBack
  <2> QED BY <1>1, <2>1, <2>2, <2>3 DEF Next
<1> QED BY <1>1, WallStoreInv, PTL DEF WallSpec, CurrentLeavesOnlyByUse

(* The variables keep their types. *)
THEOREM WallTypeOK == WallSpec => []TypeOK
<1>1. StoreInv => TypeOK
  BY DEF StoreInv
<1> QED BY <1>1, WallStoreInv, PTL

----------------------------------------------------------------------------
(* Refinement of SingleUse, on a monotone clock: every step of the store   *)
(* is one of the abstract machine, or changes the phase of no nonce.       *)
LEMMA StepRefines ==
    StoreInv /\ StoreInv' /\ [Next]_vars
      => [Abstract!Next]_[n \in Nonce |-> NoncePhase(n)]
<1> DEFINE phase == [n \in Nonce |-> NoncePhase(n)]
<1> SUFFICES ASSUME StoreInv, StoreInv', [Next]_vars
             PROVE  Abstract!Next \/ phase' = phase
  OBVIOUS
<1> USE TtlAssumption, NoneAssumption
<1>1. ASSUME NEW n \in Nonce, Issue(n) PROVE Abstract!Next
  <2>1. NoncePhase(n) = "unissued"
    BY <1>1 DEF Issue, Fresh, NoncePhase
  <2>2. NoncePhase(n)' \in {"live", "dead"}
    BY <1>1 DEF StoreInv, TypeOK, Issue, Fresh, NoncePhase, AcceptedWithinTtl
  <2>3. \A m \in Nonce \ {n} : NoncePhase(m)' = NoncePhase(m)
    BY <1>1 DEF StoreInv, TypeOK, Issue, Swept, NoncePhase
  <2>4. phase' = [phase EXCEPT ![n] = NoncePhase(n)']
    BY <2>3
  <2>5. Abstract!Issue(n)
    BY <2>1, <2>2, <2>4 DEF Abstract!Issue
  <2> QED BY <2>5 DEF Abstract!Next
<1>2. ASSUME NEW n \in Nonce, Consume(n) PROVE Abstract!Next
  <2>1. NoncePhase(n) = "live"
    BY <1>2 DEF StoreInv, TypeOK, Consume, IsCurrent, HeldIsUnused, NoncePhase
  <2>2. NoncePhase(n)' = "spent"
    BY <1>2 DEF StoreInv, TypeOK, Consume, IsCurrent, HeldIsUnused, NoncePhase
  <2>3. \A m \in Nonce \ {n} : NoncePhase(m)' = NoncePhase(m)
    BY <1>2 DEF StoreInv, TypeOK, Consume, Without, NoncePhase
  <2>4. phase' = [phase EXCEPT ![n] = "spent"]
    BY <2>2, <2>3
  <2>5. Abstract!Spend(n)
    BY <2>1, <2>4 DEF Abstract!Spend
  <2> QED BY <2>5 DEF Abstract!Next
<1>3. ASSUME NEW n \in Nonce, Refuse(n) PROVE phase' = phase
  BY <1>3 DEF Refuse, NoncePhase
<1>4. ASSUME Tick \/ Restart PROVE Abstract!Next
  <2> DEFINE lapsed == {n \in Nonce : NoncePhase(n) = "live" /\ NoncePhase(n)' = "dead"}
  <2>1. \A n \in Nonce \ lapsed : NoncePhase(n)' = NoncePhase(n)
    BY <1>4 DEF StoreInv, TypeOK, Tick, Restart, history, NoncePhase
  <2>2. \A n \in lapsed : phase[n] = "live" /\ phase'[n] = "dead"
    OBVIOUS
  <2>3. phase' = [n \in Nonce |-> IF n \in lapsed THEN "dead" ELSE phase[n]]
    BY <2>1
  <2>4. Abstract!Lapse(lapsed) /\ lapsed \in SUBSET Nonce
    BY <2>2, <2>3 DEF Abstract!Lapse
  <2> QED BY <2>4 DEF Abstract!Next
<1>5. ASSUME UNCHANGED vars PROVE phase' = phase
  BY <1>5 DEF vars, history, NoncePhase
<1> QED BY <1>1, <1>2, <1>3, <1>4, <1>5 DEF Next

(* The store implements SingleUse for every number of nonces: a nonce is   *)
(* accepted only while live, and a refused one never afterwards.           *)
THEOREM StoreImplementsSingleUse == Spec => NoncesAreSingleUse
<1>1. Init => Abstract!Init
  BY DEF Init, Abstract!Init, NoncePhase
<1>2. [Next]_vars => [Next \/ StepBack]_vars
  OBVIOUS
<1>3. Spec => WallSpec
  BY <1>2, PTL DEF Spec, WallSpec
<1>4. Spec => []StoreInv
  BY <1>3, WallStoreInv, PTL
<1> QED BY <1>1, <1>4, StepRefines, PTL DEF Spec, NoncesAreSingleUse, Abstract!Spec
=============================================================================
