---------------------------- MODULE MCNonceStore ----------------------------
(* Small instances of NonceStore for TLC. *)
EXTENDS NonceStore, TLC

CONSTANTS n1, n2, n3

(* Nonces are drawn at random: any renaming of them is the same behaviour. *)
Symmetry == Permutations(Nonce)
=============================================================================
