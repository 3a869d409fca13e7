-------------------------- MODULE MCRetainedStore --------------------------
(***************************************************************************)
(* Small instances of RetainedStore for TLC.                               *)
(***************************************************************************)
EXTENDS RetainedStore, TLC

CONSTANTS c1, c2, t1, t2, a, b

\* Payloads are copied and compared, never computed with.
PayloadSymmetry == Permutations(Payloads)
=============================================================================
