----------------------------- MODULE DurableLog -----------------------------
(***************************************************************************)
(* What the storage manager promises about the messages it is given, with  *)
(* no hooks, no database, no crash and no restart: a log of numbered       *)
(* messages to which a message is appended, of which the publisher is told,*)
(* and from which messages leave only by compaction.  A publisher's        *)
(* messages enter in the order it sent them, each once.  MessageLog is     *)
(* shown to implement this specification wherever commits last.            *)
(***************************************************************************)
EXTENDS Integers

VARIABLES
    log,        \* entries [id, msg]; msg carries the publish number and its connection
    last,       \* the largest id given to an entry
    acked,      \* publishes whose acceptance was reported
    removed     \* publishes compacted away

state == <<log, last, acked, removed>>

Init == log = {} /\ last = 0 /\ acked = {} /\ removed = {}

Published(entries) == {e.msg.pub : e \in entries}

\* A new entry: a fresh id, a publish never stored before, and the newest of
\* its connection.
Append ==
    \E e \in log' \ log :
        /\ log' = log \cup {e}
        /\ e.id > last /\ last' = e.id
        /\ e.msg.pub \notin Published(log) \cup removed
        /\ \A f \in log : f.msg.conn = e.msg.conn => f.msg.pub < e.msg.pub
        /\ UNCHANGED <<acked, removed>>

\* Only what was stored is reported.
Acknowledge ==
    \E n \in acked' \ acked :
        /\ acked' = acked \cup {n}
        /\ n \in Published(log) \cup removed
        /\ UNCHANGED <<log, last, removed>>

Compact ==
    /\ log' \subseteq log
    /\ removed' = removed \cup Published(log \ log')
    /\ UNCHANGED <<last, acked>>

Next == Append \/ Acknowledge \/ Compact

Spec == Init /\ [][Next]_state
=============================================================================
