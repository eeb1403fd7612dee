----------------------------- MODULE MCIssuance -----------------------------
(* A small instance of Issuance for TLC. *)
EXTENDS Issuance, TLC

CONSTANTS s1, s2, c1, c2, t1, t2, n1, n2, k1, w1, w2

(* Identifiers are drawn at random, subjects and requests interchangeable. *)
Symmetry == Permutations(Subject) \cup Permutations(Code) \cup Permutations(Token)
            \cup Permutations(Nonce) \cup Permutations(Session)
=============================================================================
