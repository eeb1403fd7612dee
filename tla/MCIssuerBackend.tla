-------------------------- MODULE MCIssuerBackend --------------------------
(* Small instances of IssuerBackend for TLC. *)
EXTENDS IssuerBackend

CONSTANTS w1, w2, x1, x2, i1
=============================================================================
