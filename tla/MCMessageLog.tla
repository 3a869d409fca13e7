---------------------------- MODULE MCMessageLog ----------------------------
(***************************************************************************)
(* Small instances of MessageLog for TLC.                                  *)
(***************************************************************************)
EXTENDS MessageLog, TLC

CONSTANTS c1, c2, t1, t2

\* One byte per message on the first topic, two on any other.
MCSize == [t \in Topics |-> IF t = t1 THEN 1 ELSE 2]

\* Connections are interchangeable.
ClientSymmetry == Permutations(Clients)
=============================================================================
