--------------------------- MODULE MCMetricsHooks ---------------------------
(***************************************************************************)
(* Small instances of MetricsHooks for TLC.                                *)
(***************************************************************************)
EXTENDS MetricsHooks, TLC

CONSTANTS c1, c2, x, y, plain, long

\* Connections, and client ids, are interchangeable.
HookSymmetry == Permutations(Conns) \cup Permutations(ClientIDs)
=============================================================================
