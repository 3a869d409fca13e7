----------------------------- MODULE MessageLog -----------------------------
(***************************************************************************)
(* The message log of the storage manager: the `messages` table of         *)
(* promptmq.db, the counters the manager keeps beside it, and every        *)
(* operation of internal/storage/storage.go that writes either of them.    *)
(*                                                                         *)
(* Each client connection runs its hooks in a goroutine of its own, so one *)
(* call of OnPublish is cut at its shared accesses: the atomic increment   *)
(* of messageID, the INSERT, the metric of the write, the increment of     *)
(* totalMessages, the increment of totalBytes.  SQLite is external: a      *)
(* statement is atomic, and what survives a power failure depends on the   *)
(* configured `synchronous`.                                               *)
(*                                                                         *)
(* Payloads and QoS are carried but never inspected; a publish is named by *)
(* its number, and Size stands for len(payload)+len(topic)+len(clientID).  *)
(* A row carries the connection it came from, which fixes its client_id.   *)
(* Two connections may carry one client id (a takeover); nothing orders    *)
(* their hooks, so what is said about order is said of a connection.       *)
(***************************************************************************)
EXTENDS Integers, FiniteSets

CONSTANTS
    Clients,        \* connections; each may be inside one hook at a time
    Topics,
    Size,           \* bytes counted for one message on a topic
    Synchronous,    \* storage.sqlite.synchronous; journal_mode is WAL
    PowerCuts,      \* whether the machine, not only the process, may fail
    BusyReaders,    \* whether readers may hold a checkpoint up past busy_timeout
    MaxPublishes,   \* bound: calls of OnPublish in a behaviour
    MaxTime         \* bound: the clock

\* OFF is left out: it gives up durability by design.
ASSUME LogAssumption ==
    /\ IsFiniteSet(Clients)
    /\ Size \in [Topics -> Nat]
    /\ Synchronous \in {"NORMAL", "FULL", "EXTRA"}
    /\ PowerCuts \in BOOLEAN /\ BusyReaders \in BOOLEAN
    /\ MaxPublishes \in Nat
    /\ MaxTime \in Nat

VARIABLES
    \* on disk
    db,             \* what a query sees: the rows and sqlite_sequence.seq
    survivors,      \* the databases a power failure now may leave behind
    \* in the process
    up,             \* Start has returned and StopManager has not been called
    messageID, totalMessages, totalBytes,
    writeOps,       \* persistence_operations_total{write, success | error}
    pc,             \* where each connection's OnPublish is
    msg,            \* its local msg, as the row it asks SQLite to insert
    now,            \* time.Now()
    \* history, read by no action of the code
    calls,          \* publishes so far; publish number n is the n-th call
    accepted,       \* publishes for which OnPublish returned nil
    compacted,      \* publishes removed by CompactTopic
    flushed,        \* publishes in the table when ForceFlush or StopManager returned,
                    \* and not compacted since
    checkpointed,   \* the same for a checkpoint that answered busy = 0
    statsRecovered, \* the statistics query of the last Start succeeded
    rowsAtStart,    \* COUNT(*) when the last Start ran
    deleted         \* rows removed since the last Start

disk    == <<db, survivors>>
memory  == <<messageID, totalMessages, totalBytes, writeOps>>
history == <<calls, accepted, compacted, flushed, checkpointed,
             statsRecovered, rowsAtStart, deleted>>
vars    == <<disk, up, memory, pc, msg, now, history>>

-----------------------------------------------------------------------------
(* Types.                                                                  *)

Steps == {"idle", "insert", "record", "count", "bytes"}

Messages == [pub : Nat, conn : Clients, topic : Topics, ts : Nat]
Rows     == [id : Nat, msg : Messages]
Database == [rows : SUBSET Rows, seq : Nat]

TypeOK ==
    /\ db \in Database
    /\ survivors \subseteq Database
    /\ up \in BOOLEAN
    /\ messageID \in Nat /\ totalMessages \in Nat /\ totalBytes \in Nat
    /\ writeOps \in [{"success", "error"} -> Nat]
    /\ pc \in [Clients -> Steps]
    /\ \A c \in Clients : pc[c] # "idle" => msg[c] \in Messages
    /\ DOMAIN msg = Clients
    /\ now \in Nat
    /\ calls \in Nat
    /\ accepted \subseteq Nat
    /\ compacted \subseteq Nat
    /\ flushed \subseteq Nat /\ checkpointed \subseteq Nat
    /\ statsRecovered \in BOOLEAN
    /\ rowsAtStart \in Nat /\ deleted \in Nat

-----------------------------------------------------------------------------
(* SQLite.                                                                 *)

\* With WAL and synchronous=NORMAL a commit is not synced, so a power failure
\* may roll the database back to any state since the last checkpoint; FULL
\* and EXTRA sync the log at every commit.
SyncEachCommit == Synchronous \in {"FULL", "EXTRA"}

Commit(newdb) ==
    /\ db' = newdb
    /\ survivors' = IF SyncEachCommit THEN {newdb} ELSE survivors \cup {newdb}

Checkpoint ==
    /\ survivors' = {db}
    /\ UNCHANGED db

Publishes(rows) == {r.msg.pub : r \in rows}

\* COALESCE(MAX(id), 0)
MaxRowID(rows) ==
    IF rows = {} THEN 0
    ELSE (CHOOSE r \in rows : \A q \in rows : q.id <= r.id).id

\* Mutant: INTEGER PRIMARY KEY without AUTOINCREMENT.
PlainRowID(d) == MaxRowID(d.rows) + 1

\* Mutant: fill the gaps that compaction leaves.
FirstFreeRowID(d) ==
    LET used == {r.id : r \in d.rows}
    IN  CHOOSE n \in 1..(d.seq + 1) : n \notin used /\ 1..(n - 1) \subseteq used

\* id INTEGER PRIMARY KEY AUTOINCREMENT: one more than any id ever given out.
NextRowID(d) == d.seq + 1

InsertRow(d, m) ==
    [rows |-> d.rows \cup {[id |-> NextRowID(d), msg |-> m]}, seq |-> NextRowID(d)]

\* A connection that is in no hook has no msg.
NoMsg == [pub |-> 0]

-----------------------------------------------------------------------------
(* NewWithMetrics, Start and StopManager.                                  *)

\* createTables on a fresh data directory.
Init ==
    /\ db = [rows |-> {}, seq |-> 0]
    /\ survivors = {db}
    /\ up = FALSE
    /\ messageID = 0 /\ totalMessages = 0 /\ totalBytes = 0
    /\ writeOps = [k \in {"success", "error"} |-> 0]
    /\ pc = [c \in Clients |-> "idle"]
    /\ msg = [c \in Clients |-> NoMsg]
    /\ now = 0
    /\ calls = 0 /\ accepted = {} /\ compacted = {} /\ flushed = {}
    /\ checkpointed = {}
    /\ statsRecovered = FALSE /\ rowsAtStart = 0 /\ deleted = 0

\* Mutant: messageID is the id before the last one.
RecoverPreviousID(ok) ==
    /\ messageID' = IF ok THEN MaxRowID(db.rows) - 1 ELSE 0
    /\ totalMessages' = IF ok THEN Cardinality(db.rows) ELSE 0
    /\ totalBytes' = 0

\* Mutant: MAX(id) is scanned into the message count too.
RecoverMaxAsCount(ok) ==
    /\ messageID' = IF ok THEN MaxRowID(db.rows) ELSE 0
    /\ totalMessages' = IF ok THEN MaxRowID(db.rows) ELSE 0
    /\ totalBytes' = 0

\* The counters of the new Manager: what recoverRetainedMessages stores.  The
\* error of the statistics query is logged and the zero values stay.
RecoverStatistics(ok) ==
    /\ messageID' = IF ok THEN MaxRowID(db.rows) ELSE 0
    /\ totalMessages' = IF ok THEN Cardinality(db.rows) ELSE 0
    /\ totalBytes' = 0

\* A process start: NewWithMetrics (the tables exist), then Manager.Start.
Start ==
    /\ ~up
    /\ up' = TRUE
    /\ \E ok \in BOOLEAN :
          /\ RecoverStatistics(ok)
          /\ statsRecovered' = ok
    /\ writeOps' = [k \in {"success", "error"} |-> 0]
    /\ rowsAtStart' = Cardinality(db.rows)
    /\ deleted' = 0
    /\ UNCHANGED <<disk, pc, msg, now, calls, accepted, compacted, flushed,
                   checkpointed>>

\* The process is gone, and with it every hook in flight and all its memory.
LoseProcess ==
    /\ up' = FALSE
    /\ pc' = [c \in Clients |-> "idle"]
    /\ msg' = [c \in Clients |-> NoMsg]
    /\ UNCHANGED <<memory, now>>

\* The caller may take everything in the table to be on disk; SQLite says so
\* itself only when `whole` holds.  No other history.
NoteFlushed(whole) ==
    /\ flushed' = flushed \cup (Publishes(db.rows) \ compacted)
    /\ checkpointed' = IF whole THEN checkpointed \cup (Publishes(db.rows) \ compacted)
                       ELSE checkpointed
    /\ UNCHANGED <<calls, accepted, compacted, statsRecovered, rowsAtStart, deleted>>

\* db.Close checkpoints the log when the last connection goes; hooks that are
\* still in flight find the database closed, and the process exits.
StopManager == up /\ LoseProcess /\ Checkpoint /\ NoteFlushed(TRUE)

-----------------------------------------------------------------------------
(* OnPublish and persistMessage, one step per shared access.               *)

Goto(c, step) == pc' = [pc EXCEPT ![c] = step]

Return(c) == Goto(c, "idle") /\ msg' = [msg EXCEPT ![c] = NoMsg]

OnPublish(c, t) ==
    /\ up /\ pc[c] = "idle" /\ calls < MaxPublishes
    /\ calls' = calls + 1
    /\ messageID' = messageID + 1
    /\ msg' = [msg EXCEPT ![c] = [pub |-> calls + 1, conn |-> c, topic |-> t, ts |-> now]]
    /\ Goto(c, "insert")
    /\ UNCHANGED <<disk, up, totalMessages, totalBytes, writeOps, now, accepted,
                   compacted, flushed, checkpointed, statsRecovered, rowsAtStart, deleted>>

\* The metrics server's counter of writes, per result.
RecordSQLiteWrite(result) == writeOps' = [writeOps EXCEPT ![result] = @ + 1]

\* Mutant: an INSERT that was committed but timed out is tried again.
InsertAgain(c) ==
    /\ pc[c] = "insert"
    /\ Commit(InsertRow(db, msg[c]))
    /\ \E step \in {"insert", "record"} : Goto(c, step)
    /\ UNCHANGED <<up, memory, msg, now, history>>

\* INSERT INTO messages; messageID is not among the columns.
Insert(c) ==
    /\ pc[c] = "insert"
    /\ Commit(InsertRow(db, msg[c]))
    /\ Goto(c, "record")
    /\ UNCHANGED <<up, memory, msg, now, history>>

\* The row is committed; the metric follows.
RecordWrite(c) ==
    /\ pc[c] = "record"
    /\ RecordSQLiteWrite("success")
    /\ Goto(c, "count")
    /\ UNCHANGED <<disk, up, messageID, totalMessages, totalBytes, msg, now, history>>

\* Mutant: the error is logged and persistMessage goes on.
InsertErrorIgnored(c) ==
    /\ pc[c] = "insert"
    /\ RecordSQLiteWrite("error")
    /\ Goto(c, "count")
    /\ UNCHANGED <<disk, up, messageID, totalMessages, totalBytes, msg, now, history>>

\* The INSERT fails (busy, disk full): OnPublish returns the error.
InsertFails(c) ==
    /\ pc[c] = "insert"
    /\ RecordSQLiteWrite("error")
    /\ Return(c)
    /\ UNCHANGED <<disk, up, messageID, totalMessages, totalBytes, now, history>>

CountMessage(c) ==
    /\ pc[c] = "count"
    /\ totalMessages' = totalMessages + 1
    /\ Goto(c, "bytes")
    /\ UNCHANGED <<disk, up, messageID, totalBytes, writeOps, msg, now, history>>

CountBytes(c) ==
    /\ pc[c] = "bytes"
    /\ totalBytes' = totalBytes + Size[msg[c].topic]
    /\ accepted' = accepted \cup {msg[c].pub}
    /\ Return(c)
    /\ UNCHANGED <<disk, up, messageID, totalMessages, writeOps, now, calls,
                   compacted, flushed, checkpointed, statsRecovered, rowsAtStart, deleted>>

-----------------------------------------------------------------------------
(* Maintenance, called from outside the hooks.                             *)

\* DELETE FROM messages WHERE topic = t AND timestamp < before
Expired(t, before) == {r \in db.rows : r.msg.topic = t /\ r.msg.ts < before}

CompactTopic(t, before) ==
    /\ up /\ Expired(t, before) # {}
    /\ Commit([db EXCEPT !.rows = @ \ Expired(t, before)])
    /\ compacted' = compacted \cup Publishes(Expired(t, before))
    /\ deleted' = deleted + Cardinality(Expired(t, before))
    /\ flushed' = flushed \ compacted' /\ checkpointed' = checkpointed \ compacted'
    /\ UNCHANGED <<up, memory, pc, msg, now, calls, accepted, statsRecovered, rowsAtStart>>

\* Mutant: wal_checkpoint(PASSIVE), which waits for nobody and is never busy.
PassiveFlush ==
    /\ up
    /\ Checkpoint \/ UNCHANGED disk
    /\ NoteFlushed(TRUE)
    /\ UNCHANGED <<up, memory, pc, msg, now>>

\* PRAGMA wal_checkpoint(FULL).  A checkpoint that readers hold up is not an
\* error: SQLite says busy = 1 in the row the PRAGMA returns, which Exec drops.
ForceFlush ==
    /\ up
    /\ \/ Checkpoint /\ NoteFlushed(TRUE)
       \/ BusyReaders /\ UNCHANGED disk /\ NoteFlushed(FALSE)
    /\ UNCHANGED <<up, memory, pc, msg, now>>

\* Mutant: ORDER BY id ASC.
OldestByTopic(t, limit) ==
    LET onTopic == {r \in db.rows : r.msg.topic = t}
    IN  {r \in onTopic : Cardinality({q \in onTopic : q.id < r.id}) < limit}

\* SELECT ... WHERE topic = t ORDER BY id DESC LIMIT limit, as a set of rows:
\* those with fewer than limit newer rows on the topic.
GetMessagesByTopic(t, limit) ==
    LET onTopic == {r \in db.rows : r.msg.topic = t}
    IN  {r \in onTopic : Cardinality({q \in onTopic : q.id > r.id}) < limit}

-----------------------------------------------------------------------------
(* The environment.                                                        *)

\* The process dies between any two steps; commits are in the OS's cache.
ProcessCrash == up /\ LoseProcess /\ UNCHANGED <<disk, history>>

PowerLoss ==
    /\ PowerCuts
    /\ \E s \in survivors : db' = s /\ survivors' = {s}
    /\ LoseProcess
    /\ UNCHANGED history

Tick ==
    /\ now < MaxTime
    /\ now' = now + 1
    /\ UNCHANGED <<disk, up, memory, pc, msg, history>>

Handler(c) ==
    Insert(c) \/ InsertFails(c) \/ RecordWrite(c) \/ CountMessage(c) \/ CountBytes(c)

Next ==
    \/ Start \/ StopManager \/ ProcessCrash \/ PowerLoss \/ ForceFlush \/ Tick
    \/ \E c \in Clients : \E t \in Topics : OnPublish(c, t)
    \/ \E c \in Clients : Handler(c)
    \/ \E t \in Topics, before \in 1..(MaxTime + 1) : CompactTopic(t, before)

Spec == Init /\ [][Next]_vars

-----------------------------------------------------------------------------
(* Properties.                                                             *)

\* A publish that OnPublish has accepted stays in the messages table, through
\* crashes, restarts and recovery, until CompactTopic removes it.
AcceptedStored == accepted \subseteq Publishes(db.rows) \cup compacted

\* Commits a power failure may take back are the only way to lose one.
Durable == SyncEachCommit \/ ~PowerCuts

\* Checkpoints finish, or are not needed.
FlushCompletes == SyncEachCommit \/ ~BusyReaders

\* ForceFlush's own comment: it "forces SQLite to sync all data to disk".  So
\* what was in the table when it, or StopManager, returned without an error
\* survives any later failure until it is compacted.
FlushedDurable ==
    \A s \in survivors \cup {db} : flushed \subseteq Publishes(s.rows) \cup compacted

\* Under every setting of synchronous, and whatever readers do, what was in the
\* table when a checkpoint answered that it moved the whole log survives any
\* later crash, power failure, INSERT or recovery until it is compacted.
CheckpointedDurable ==
    \A s \in survivors \cup {db} : checkpointed \subseteq Publishes(s.rows) \cup compacted

\* The log as a client of the storage manager sees it: the table, whatever the
\* process and the machine go through.
D == INSTANCE DurableLog
        WITH log <- db.rows, last <- db.seq, acked <- accepted, removed <- compacted

\* Where commits last, the manager implements the abstract log: hooks, crashes,
\* restarts and recovery add, reorder, repeat or lose nothing, no publish is
\* acknowledged before it is stored, and only CompactTopic removes anything.
ImplementsDurableLog == D!Spec

\* Until something is compacted, messageID is never behind an id of the table,
\* so neither Message.ID nor next_message_id of GetStats names a stored row,
\* whatever was rolled back or failed before the restart that recomputed it and
\* however many hooks are in flight.  After a compaction it may: see README.
NextIDFresh ==
    up /\ statsRecovered /\ compacted = {} => \A r \in db.rows : r.id <= messageID

\* Rows of one connection are numbered in the order it published them, in the
\* table and in every state a power failure may leave.
PublishOrder(rows) ==
    \A p, q \in rows :
        p.msg.conn = q.msg.conn => (p.id < q.id <=> p.msg.pub < q.msg.pub)

OrderPreserved ==
    /\ PublishOrder(db.rows)
    /\ \A s \in survivors : PublishOrder(s.rows)

\* A power failure takes back the newest messages only: what it may leave is
\* older than everything it then loses, though compaction runs in between and
\* commits are not synced.
LossTakesNewest ==
    \A s \in survivors :
        \A kept \in s.rows, lost \in db.rows \ s.rows : kept.id < lost.id

\* Hooks whose row is committed, or whose write is recorded, and not counted yet.
Uncounted == {c \in Clients : pc[c] \in {"record", "count"}}
Recorded  == {c \in Clients : pc[c] = "count"}

\* total_messages of GetStats is the number of rows, give or take the hooks in
\* flight and the rows compacted since the start, and it agrees with the
\* Prometheus counter of successful writes, whatever the interleaving.
CountersAgree ==
    up /\ statsRecovered =>
        /\ totalMessages + Cardinality(Uncounted) = Cardinality(db.rows) + deleted
        /\ totalMessages + Cardinality(Recorded) = rowsAtStart + writeOps["success"]

\* A limited GetMessagesByTopic never returns a message of some connection while
\* leaving out a newer one the same connection stored on that topic.
QueryKeepsNewest ==
    \A t \in Topics, limit \in 1..MaxPublishes :
        \A r \in GetMessagesByTopic(t, limit), q \in db.rows :
            /\ q.msg.topic = t /\ q.msg.conn = r.msg.conn
            /\ q.msg.pub > r.msg.pub
            => q \in GetMessagesByTopic(t, limit)
=============================================================================
