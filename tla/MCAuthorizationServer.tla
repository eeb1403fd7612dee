----------------------- MODULE MCAuthorizationServer -----------------------
(* Small instances of AuthorizationServer for TLC. *)
EXTENDS AuthorizationServer, TLC

CONSTANTS s1, s2, c1, c2, t1, t2

(* Codes and tokens are drawn at random, and subjects are opaque: any      *)
(* renaming of them is the same behaviour.                                 *)
Symmetry == Permutations(Code) \cup Permutations(Token) \cup Permutations(Subject)
=============================================================================
