--------------------------- MODULE MCPublishChain ---------------------------
(***************************************************************************)
(* Small instances of PublishChain for TLC.                                *)
(***************************************************************************)
EXTENDS PublishChain

CONSTANTS c1, c2, plain, long

\* One byte of payload on the tracked topic, two on the other; the topic and
\* the client id add one each to what the storage manager counts.
MCPayload == [t \in Topics |-> IF t = plain THEN 1 ELSE 2]
MCSize == [t \in Topics |-> MCPayload[t] + 2]
=============================================================================
