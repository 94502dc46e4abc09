------------------------- MODULE MCAuthTransaction -------------------------
(* Small instances of AuthTransaction. *)
EXTENDS AuthTransaction, TLC

Interchangeable == Permutations(Process)
=============================================================================
