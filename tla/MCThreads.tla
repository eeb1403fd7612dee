----------------------------- MODULE MCThreads -----------------------------
EXTENDS Threads, TLC

CONSTANTS c1, t1, t2, k1, k2, n1, n2

Symmetry == Permutations({t1, t2}) \cup Permutations({k1, k2}) \cup Permutations({n1, n2})

(* Bound: a behaviour uses one of the two stores, which share nothing but  *)
(* the clock.                                                              *)
ServerUnused == \A c \in Code : offeredAt[c] = None
StoreUnused ==
    /\ \A n \in Nonce : issuedAt[n] = None
    /\ \A t \in Thread : ~At(t, "issue_moment")
OneStore == ServerUnused \/ StoreUnused
=============================================================================
