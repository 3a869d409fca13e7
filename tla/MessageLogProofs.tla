-------------------------- MODULE MessageLogProofs --------------------------
(***************************************************************************)
(* Theorems about MessageLog, for every set of clients and topics, every   *)
(* setting of `synchronous`, and every bound.                              *)
(***************************************************************************)
EXTENDS MessageLog, FiniteSetTheorems, WellFoundedInduction, TLAPS

(***************************************************************************)
(* A non-empty set of naturals with an upper bound has a largest element.  *)
(***************************************************************************)
LEMMA BoundedHasMax ==
    ASSUME NEW S \in SUBSET Nat, S # {},
           NEW b \in Nat, \A n \in S : n <= b
    PROVE  \E m \in S : \A n \in S : n <= m
<1> DEFINE U == {u \in Nat : \A n \in S : n <= u}
<1>1. b \in U
  OBVIOUS
<1>2. \E m \in U : \A k \in U : ~(<<k, m>> \in OpToRel(<, Nat))
  BY <1>1, WFMin, NatLessThanWellFounded
<1>3. PICK m \in U : \A k \in U : ~(<<k, m>> \in OpToRel(<, Nat))
  BY <1>2
<1>4. \A k \in U : ~(k < m)
  BY <1>3 DEF OpToRel
<1>5. m \in S
  <2> SUFFICES ASSUME m \notin S PROVE FALSE
    OBVIOUS
  <2>1. m \in Nat /\ \A n \in S : n \in Nat /\ n < m
    OBVIOUS
  <2>2. PICK n \in S : TRUE
    OBVIOUS
  <2>3. m - 1 \in Nat /\ \A k \in S : k <= m - 1
    BY <2>1, <2>2
  <2> QED
    BY <2>1, <2>3, <1>4
<1> QED
  BY <1>5

-----------------------------------------------------------------------------
(* The database as SQLite keeps it.                                        *)

\* A table is finite, and its ids stay within sqlite_sequence.
TableOK(d) ==
    /\ IsFiniteSet(d.rows)
    /\ \A r \in d.rows : r.id <= d.seq

BaseInv ==
    /\ TypeOK
    /\ db \in survivors
    /\ \A s \in survivors : TableOK(s)

(***************************************************************************)
(* MAX(id) of a table is a natural number: what Start stores in messageID. *)
(***************************************************************************)
LEMMA MaxRowIDType ==
    ASSUME NEW d \in Database, TableOK(d)
    PROVE  MaxRowID(d.rows) \in Nat
<1>1. CASE d.rows = {}
  BY <1>1 DEF MaxRowID
<1>2. CASE d.rows # {}
  <2> DEFINE S == {r.id : r \in d.rows}
  <2>1. S \in SUBSET Nat /\ S # {} /\ d.seq \in Nat /\ \A n \in S : n <= d.seq
    BY <1>2 DEF Database, Rows, TableOK
  <2>2. PICK m \in S : \A n \in S : n <= m
    BY <2>1, BoundedHasMax
  <2>3. \E r \in d.rows : \A q \in d.rows : q.id <= r.id
    BY <2>2
  <2>4. (CHOOSE r \in d.rows : \A q \in d.rows : q.id <= r.id) \in d.rows
    BY <2>3
  <2> QED
    BY <1>2, <2>4 DEF MaxRowID, Database, Rows
<1> QED
  BY <1>1, <1>2

(***************************************************************************)
(* An INSERT leaves a well-formed table with one more row.                 *)
(***************************************************************************)
LEMMA InsertRowFacts ==
    ASSUME NEW d \in Database, TableOK(d), NEW m \in Messages
    PROVE  /\ InsertRow(d, m) \in Database
           /\ TableOK(InsertRow(d, m))
           /\ [id |-> NextRowID(d), msg |-> m] \notin d.rows
           /\ Cardinality(InsertRow(d, m).rows) = Cardinality(d.rows) + 1
<1> DEFINE new == [id |-> NextRowID(d), msg |-> m]
<1>1. d.seq \in Nat /\ d.rows \subseteq Rows /\ new \in Rows
  BY DEF Database, Rows, NextRowID
<1>2. new \notin d.rows
  BY <1>1 DEF TableOK, NextRowID
<1>3. InsertRow(d, m).rows = d.rows \cup {new} /\ InsertRow(d, m).seq = d.seq + 1
  BY DEF InsertRow, NextRowID
<1>4. InsertRow(d, m) \in Database
  BY <1>1 DEF InsertRow, NextRowID, Database
<1>5. IsFiniteSet(d.rows \cup {new}) /\ Cardinality(d.rows \cup {new}) = Cardinality(d.rows) + 1
  BY <1>2, FS_AddElement DEF TableOK
<1>6. \A r \in d.rows \cup {new} : r.id <= d.seq + 1
  BY <1>1 DEF TableOK, NextRowID, Rows
<1> QED
  BY <1>2, <1>3, <1>4, <1>5, <1>6 DEF TableOK

(***************************************************************************)
(* A DELETE leaves a well-formed table; the rows it keeps and the rows it  *)
(* removes add up.                                                         *)
(***************************************************************************)
LEMMA DeleteFacts ==
    ASSUME NEW d \in Database, TableOK(d), NEW E \in SUBSET d.rows
    PROVE  /\ [d EXCEPT !.rows = @ \ E] \in Database
           /\ [d EXCEPT !.rows = @ \ E].rows = d.rows \ E
           /\ [d EXCEPT !.rows = @ \ E].seq = d.seq
           /\ TableOK([d EXCEPT !.rows = @ \ E])
           /\ Cardinality(E) \in Nat
           /\ Cardinality(d.rows) \in Nat
           /\ Cardinality(d.rows \ E) = Cardinality(d.rows) - Cardinality(E)
<1>1. /\ [d EXCEPT !.rows = @ \ E] \in Database
      /\ [d EXCEPT !.rows = @ \ E].rows = d.rows \ E
      /\ [d EXCEPT !.rows = @ \ E].seq = d.seq
  BY DEF Database
<1>2. IsFiniteSet(E) /\ IsFiniteSet(d.rows \ E)
  BY FS_Subset DEF TableOK
<1>3. Cardinality(d.rows \ E) = Cardinality(d.rows) - Cardinality(d.rows \cap E)
  BY FS_Difference DEF TableOK
<1>4. d.rows \cap E = E
  OBVIOUS
<1>5. Cardinality(E) \in Nat /\ Cardinality(d.rows) \in Nat
  BY <1>2, FS_CardinalityType DEF TableOK
<1> QED
  BY <1>1, <1>2, <1>3, <1>4, <1>5 DEF TableOK

(***************************************************************************)
(* Committing a well-formed database keeps every possible survivor of a    *)
(* power failure well-formed.                                              *)
(***************************************************************************)
LEMMA CommitFacts ==
    ASSUME BaseInv, NEW d \in Database, TableOK(d), Commit(d)
    PROVE  /\ db' = d
           /\ db' \in survivors'
           /\ survivors' \subseteq survivors \cup {d}
           /\ survivors' \subseteq Database
           /\ \A s \in survivors' : TableOK(s)
<1>1. db' = d /\ db' \in survivors' /\ survivors' \subseteq survivors \cup {d}
  BY DEF Commit
<1>2. survivors \subseteq Database /\ \A s \in survivors : TableOK(s)
  BY DEF BaseInv, TypeOK
<1> QED
  BY <1>1, <1>2

-----------------------------------------------------------------------------
(* Type correctness.                                                       *)

\* A fresh data directory: the tables createTables makes are well-formed.
LEMMA BaseInit == Init => BaseInv
<1> SUFFICES ASSUME Init PROVE BaseInv
  OBVIOUS
<1>1. db \in Database /\ db.rows = {}
  BY DEF Init, Database
<1>2. TableOK(db)
  BY <1>1, FS_EmptySet DEF TableOK
<1>3. TypeOK
  BY <1>1 DEF Init, TypeOK, Steps
<1> QED
  BY <1>2, <1>3 DEF Init, BaseInv

\* What a flush notes are publishes.
LEMMA NotedType ==
    ASSUME TypeOK, NEW whole \in BOOLEAN, NoteFlushed(whole)
    PROVE  flushed' \subseteq Nat /\ checkpointed' \subseteq Nat
<1>1. Publishes(db.rows) \subseteq Nat
  BY DEF TypeOK, Publishes, Database, Rows, Messages
<1>2. flushed' \subseteq flushed \cup Publishes(db.rows)
  BY DEF NoteFlushed
<1>3. checkpointed' \subseteq checkpointed \cup Publishes(db.rows)
  BY DEF NoteFlushed
<1> QED
  BY <1>1, <1>2, <1>3 DEF TypeOK

\* Every step keeps the types and finite, well-formed tables.
LEMMA BaseNext == BaseInv /\ [Next]_vars => BaseInv'
<1> SUFFICES ASSUME BaseInv, [Next]_vars PROVE BaseInv'
  OBVIOUS
<1>0. /\ TypeOK /\ db \in Database /\ db \in survivors /\ TableOK(db)
      /\ survivors \subseteq Database /\ \A s \in survivors : TableOK(s)
      /\ Cardinality(db.rows) \in Nat
  BY FS_CardinalityType DEF BaseInv, TypeOK, TableOK
<1>1. CASE Start
  <2>1. MaxRowID(db.rows) \in Nat
    BY <1>0, MaxRowIDType
  <2>2. messageID' \in Nat /\ totalMessages' \in Nat /\ totalBytes' \in Nat
    BY <1>0, <1>1, <2>1 DEF Start, RecoverStatistics
  <2>3. TypeOK'
    BY <1>0, <1>1, <2>2 DEF Start, TypeOK, disk
  <2> QED
    BY <1>0, <1>1, <2>3 DEF Start, disk, BaseInv, TableOK
<1>2. CASE StopManager
  <2>1. db' = db /\ survivors' = {db}
    BY <1>2 DEF StopManager, Checkpoint
  <2>2. flushed' \subseteq Nat /\ checkpointed' \subseteq Nat
    BY <1>0, <1>2, NotedType DEF StopManager
  <2>3. TypeOK'
    BY <1>0, <1>2, <2>1, <2>2 DEF StopManager, LoseProcess, NoteFlushed, memory, TypeOK, Steps
  <2> QED
    BY <1>0, <2>1, <2>3 DEF BaseInv
<1>3. CASE ProcessCrash
  BY <1>0, <1>3 DEF ProcessCrash, LoseProcess, disk, memory, history, TypeOK,
     BaseInv, Steps, TableOK
<1>4. CASE PowerLoss
  <2>1. PICK s \in survivors : db' = s /\ survivors' = {s}
    BY <1>4 DEF PowerLoss
  <2>2. s \in Database /\ TableOK(s)
    BY <1>0
  <2> QED
    BY <1>0, <1>4, <2>1, <2>2 DEF PowerLoss, LoseProcess, memory, history, TypeOK,
       BaseInv, Steps
<1>5. CASE ForceFlush
  <2>1. db' = db /\ survivors' \subseteq survivors /\ db \in survivors'
    BY <1>0, <1>5 DEF ForceFlush, Checkpoint, disk
  <2>2. flushed' \subseteq Nat /\ checkpointed' \subseteq Nat
    BY <1>0, <1>5, NotedType DEF ForceFlush
  <2>3. UNCHANGED <<calls, accepted, compacted, statsRecovered, rowsAtStart, deleted>>
    BY <1>5 DEF ForceFlush, NoteFlushed
  <2>4. TypeOK'
    BY <1>0, <1>5, <2>1, <2>2, <2>3 DEF ForceFlush, memory, TypeOK
  <2> QED
    BY <1>0, <2>1, <2>4 DEF BaseInv
<1>6. CASE Tick
  BY <1>0, <1>6 DEF Tick, disk, memory, history, TypeOK, BaseInv, TableOK
<1>7. ASSUME NEW c \in Clients, NEW t \in Topics, OnPublish(c, t) PROVE BaseInv'
  <2>1. [pub |-> calls + 1, conn |-> c, topic |-> t, ts |-> now] \in Messages
    BY <1>0 DEF TypeOK, Messages
  <2>2. TypeOK'
    BY <1>0, <1>7, <2>1 DEF OnPublish, Goto, disk, TypeOK, Steps
  <2> QED
    BY <1>0, <1>7, <2>2 DEF OnPublish, disk, BaseInv, TableOK
<1>8. ASSUME NEW c \in Clients, Insert(c) PROVE BaseInv'
  <2>1. msg[c] \in Messages
    BY <1>0, <1>8 DEF Insert, TypeOK
  <2>2. InsertRow(db, msg[c]) \in Database /\ TableOK(InsertRow(db, msg[c]))
    BY <1>0, <2>1, InsertRowFacts
  <2>3. /\ db' \in Database /\ db' \in survivors' /\ survivors' \subseteq Database
        /\ \A s \in survivors' : TableOK(s)
    BY <1>8, <2>2, CommitFacts DEF Insert
  <2>4. TypeOK'
    BY <1>0, <1>8, <2>3 DEF Insert, Goto, memory, history, TypeOK, Steps
  <2> QED
    BY <2>3, <2>4 DEF BaseInv, TableOK
<1>9. ASSUME NEW c \in Clients, InsertFails(c) \/ RecordWrite(c) PROVE BaseInv'
  <2>1. CASE InsertFails(c)
    BY <1>0, <2>1 DEF InsertFails, RecordSQLiteWrite, Return, Goto, disk, history, TypeOK,
       BaseInv, Steps, TableOK
  <2>2. CASE RecordWrite(c)
    BY <1>0, <2>2 DEF RecordWrite, RecordSQLiteWrite, Goto, disk, history, TypeOK, BaseInv,
       Steps, TableOK
  <2> QED
    BY <1>9, <2>1, <2>2
<1>10. ASSUME NEW c \in Clients, CountMessage(c) PROVE BaseInv'
  BY <1>0, <1>10 DEF CountMessage, Goto, disk, history, TypeOK, BaseInv, Steps, TableOK
<1>11. ASSUME NEW c \in Clients, CountBytes(c) PROVE BaseInv'
  <2>1. msg[c].topic \in Topics /\ msg[c].pub \in Nat
    BY <1>0, <1>11 DEF CountBytes, TypeOK, Messages
  <2>2. totalBytes' \in Nat
    BY <1>0, <1>11, <2>1, LogAssumption DEF CountBytes, TypeOK, LogAssumption
  <2>3. TypeOK'
    BY <1>0, <1>11, <2>1, <2>2 DEF CountBytes, Return, Goto, disk, TypeOK, Steps
  <2> QED
    BY <1>0, <1>11, <2>3 DEF CountBytes, disk, BaseInv, TableOK
<1>12. ASSUME NEW t \in Topics, NEW before \in 1..(MaxTime + 1), CompactTopic(t, before)
       PROVE  BaseInv'
  <2> DEFINE E == Expired(t, before)
             d == [db EXCEPT !.rows = @ \ E]
  <2>1. E \in SUBSET db.rows
    BY DEF Expired
  <2>2. d \in Database /\ TableOK(d) /\ Cardinality(E) \in Nat
    BY <1>0, <2>1, DeleteFacts
  <2>3. /\ db' \in Database /\ db' \in survivors' /\ survivors' \subseteq Database
        /\ \A s \in survivors' : TableOK(s)
    BY <1>12, <2>2, CommitFacts DEF CompactTopic
  <2>4. Publishes(E) \subseteq Nat
    BY <1>0, <2>1 DEF Publishes, Database, Rows, Messages
  <2>5. TypeOK'
    BY <1>0, <1>12, <2>2, <2>3, <2>4 DEF CompactTopic, memory, TypeOK
  <2> QED
    BY <2>3, <2>5 DEF BaseInv, TableOK
<1>13. CASE UNCHANGED vars
  BY <1>0, <1>13 DEF vars, disk, memory, history, TypeOK, BaseInv, TableOK
<1> QED
  BY <1>1, <1>2, <1>3, <1>4, <1>5, <1>6, <1>7, <1>8, <1>9, <1>10, <1>11, <1>12, <1>13
     DEF Next, Handler

(***************************************************************************)
(* Every variable of the log keeps its type, in particular the counters    *)
(* recovered from MAX(id) and COUNT( * ) at a start are natural numbers.   *)
(***************************************************************************)
THEOREM LogTypeCorrect == Spec => []TypeOK
<1>1. BaseInv => TypeOK
  BY DEF BaseInv
<1> QED
  BY <1>1, BaseInit, BaseNext, PTL DEF Spec

-----------------------------------------------------------------------------
(* Checkpoints and acceptance.                                             *)

\* When every commit is synced, every step leaves one state to recover.
LEMMA SyncNext ==
    (SyncEachCommit => survivors = {db}) /\ [Next]_vars => (SyncEachCommit => survivors = {db})'
BY DEF SyncEachCommit, Next, Handler, Start, StopManager, ForceFlush, Checkpoint, ProcessCrash,
   PowerLoss, Tick, OnPublish, Insert, Commit, InsertFails, RecordWrite, CountMessage,
   CountBytes, CompactTopic, vars, disk

\* The publishes S are in every one of the databases or were compacted.
KeptIn(S, databases, gone) == \A s \in databases : S \subseteq Publishes(s.rows) \cup gone

\* What every state a failure may leave has, a step leaves in all of them.
LEMMA KeptNext ==
    BaseInv /\ [Next]_vars =>
        \A S : KeptIn(S, survivors \cup {db}, compacted)
                  => KeptIn(S, survivors' \cup {db'}, compacted')
<1> SUFFICES ASSUME BaseInv, [Next]_vars, NEW S, KeptIn(S, survivors \cup {db}, compacted)
             PROVE  KeptIn(S, survivors' \cup {db'}, compacted')
  OBVIOUS
<1>0. db \in Database /\ db \in survivors
  BY DEF BaseInv, TypeOK
<1>1. CASE survivors' \cup {db'} \subseteq survivors \cup {db} /\ compacted' = compacted
  BY <1>1 DEF KeptIn
<1>2. ASSUME NEW c \in Clients, Insert(c)
      PROVE  KeptIn(S, survivors' \cup {db'}, compacted')
  <2>1. S \subseteq Publishes(InsertRow(db, msg[c]).rows) \cup compacted
    <3>1. db.rows \subseteq InsertRow(db, msg[c]).rows
      BY DEF InsertRow
    <3> QED
      BY <3>1 DEF KeptIn, Publishes
  <2>2. /\ db' = InsertRow(db, msg[c])
        /\ survivors' \subseteq survivors \cup {InsertRow(db, msg[c])}
        /\ compacted' = compacted
    BY <1>2 DEF Insert, Commit, history
  <2> QED
    BY <2>1, <2>2 DEF KeptIn
<1>3. ASSUME NEW t \in Topics, NEW before \in 1..(MaxTime + 1), CompactTopic(t, before)
      PROVE  KeptIn(S, survivors' \cup {db'}, compacted')
  <2> DEFINE E == Expired(t, before)
             d == [db EXCEPT !.rows = @ \ E]
  <2>1. d.rows = db.rows \ E
    BY <1>0 DEF Database
  <2>2. S \subseteq Publishes(d.rows) \cup compacted \cup Publishes(E)
    BY <2>1 DEF KeptIn, Publishes
  <2>3. /\ db' = d /\ survivors' \subseteq survivors \cup {d}
        /\ compacted' = compacted \cup Publishes(E)
    BY <1>3 DEF CompactTopic, Commit
  <2> QED
    BY <2>2, <2>3 DEF KeptIn
<1>4. \/ survivors' \cup {db'} \subseteq survivors \cup {db} /\ compacted' = compacted
      \/ \E c \in Clients : Insert(c)
      \/ \E t \in Topics, before \in 1..(MaxTime + 1) : CompactTopic(t, before)
  BY <1>0 DEF Next, Handler, Start, StopManager, ForceFlush, Checkpoint, NoteFlushed,
     ProcessCrash, PowerLoss, Tick, OnPublish, InsertFails, RecordWrite, CountMessage,
     CountBytes, history, vars, disk
<1> QED
  BY <1>1, <1>2, <1>3, <1>4

\* A checkpoint leaves one state to recover; no other step adds to what counts
\* as checkpointed.
LEMMA CheckpointNext == BaseInv /\ CheckpointedDurable /\ [Next]_vars => CheckpointedDurable'
<1> SUFFICES ASSUME BaseInv, CheckpointedDurable, [Next]_vars PROVE CheckpointedDurable'
  OBVIOUS
<1>1. KeptIn(checkpointed, survivors' \cup {db'}, compacted')
  BY KeptNext DEF CheckpointedDurable, KeptIn
<1>2. \/ checkpointed' \subseteq checkpointed
      \/ /\ checkpointed' \subseteq checkpointed \cup Publishes(db.rows)
         /\ survivors' = {db} /\ db' = db
  BY DEF Next, Handler, Start, StopManager, ForceFlush, Checkpoint, NoteFlushed, ProcessCrash,
     PowerLoss, Tick, OnPublish, Insert, InsertFails, RecordWrite, CountMessage, CountBytes,
     CompactTopic, history, vars
<1> QED
  BY <1>1, <1>2 DEF CheckpointedDurable, KeptIn

(***************************************************************************)
(* Under every setting of synchronous, and with any readers, what was in   *)
(* the table when a checkpoint of ForceFlush or StopManager answered that  *)
(* it was complete survives every later crash and power failure until it   *)
(* is compacted.                                                           *)
(***************************************************************************)
THEOREM LogCheckpointDurable == Spec => []CheckpointedDurable
<1>1. Init => CheckpointedDurable
  BY DEF Init, CheckpointedDurable
<1> QED
  BY <1>1, BaseInit, BaseNext, CheckpointNext, PTL DEF Spec

\* When every commit is synced there is only one state a failure can leave, and
\* a checkpoint that readers hold up loses nothing.
FlushInv == BaseInv /\ FlushedDurable /\ (SyncEachCommit => survivors = {db})

\* Every step keeps what a flush reported in every state a failure may leave.
LEMMA FlushNext == FlushCompletes /\ FlushInv /\ [Next]_vars => FlushedDurable'
<1> SUFFICES ASSUME FlushCompletes, FlushInv, [Next]_vars PROVE FlushedDurable'
  OBVIOUS
<1>1. KeptIn(flushed, survivors' \cup {db'}, compacted')
  BY KeptNext DEF FlushInv, FlushedDurable, KeptIn
<1>2. CASE StopManager \/ ForceFlush
  <2>1. db' = db /\ survivors' = {db}
    BY <1>2 DEF StopManager, ForceFlush, Checkpoint, FlushCompletes, FlushInv, disk
  <2>2. flushed' \subseteq flushed \cup Publishes(db.rows)
    BY <1>2 DEF StopManager, ForceFlush, NoteFlushed
  <2> QED
    BY <1>1, <2>1, <2>2 DEF FlushedDurable, KeptIn
<1>3. CASE flushed' \subseteq flushed
  BY <1>1, <1>3 DEF FlushedDurable, KeptIn
<1>4. StopManager \/ ForceFlush \/ flushed' \subseteq flushed
  BY DEF Next, Handler, Start, ProcessCrash, PowerLoss, Tick, OnPublish, Insert, InsertFails,
     RecordWrite, CountMessage, CountBytes, CompactTopic, history, vars
<1> QED
  BY <1>2, <1>3, <1>4

(***************************************************************************)
(* What ForceFlush's comment says of it holds where no reader holds a      *)
(* checkpoint up, or where commits are synced and need none: what was in   *)
(* the table when it or StopManager returned survives every later failure. *)
(***************************************************************************)
THEOREM LogFlushDurable == FlushCompletes => (Spec => []FlushedDurable)
<1> SUFFICES ASSUME FlushCompletes PROVE Spec => []FlushedDurable
  OBVIOUS
<1>1. Init => FlushInv
  BY BaseInit DEF Init, FlushInv, FlushedDurable
<1>2. FlushInv /\ [Next]_vars => FlushInv'
  BY BaseNext, FlushNext, SyncNext DEF FlushInv
<1>3. FlushInv => FlushedDurable
  BY DEF FlushInv
<1> QED
  BY <1>1, <1>2, <1>3, PTL DEF Spec

\* A hook past its INSERT has its row in the table; when commits are synced a
\* power failure leaves the table exactly as it is.
AcceptInv ==
    /\ BaseInv
    /\ AcceptedStored
    /\ \A c \in Clients : pc[c] \in {"record", "count", "bytes"} =>
                             msg[c].pub \in Publishes(db.rows) \cup compacted
    /\ SyncEachCommit => survivors = {db}

\* Where commits last, every step keeps accepted publishes in the table.
LEMMA AcceptNext == Durable /\ AcceptInv /\ [Next]_vars => AcceptInv'
<1> SUFFICES ASSUME Durable, AcceptInv, [Next]_vars PROVE AcceptInv'
  OBVIOUS
<1> DEFINE Safe == Publishes(db.rows) \cup compacted
<1>0. /\ BaseInv' /\ TypeOK /\ db \in Database
      /\ accepted \subseteq Safe
      /\ \A c \in Clients : pc[c] \in {"record", "count", "bytes"} => msg[c].pub \in Safe
      /\ SyncEachCommit => survivors = {db}
  BY BaseNext DEF AcceptInv, BaseInv, TypeOK, AcceptedStored
<1>1. CASE StopManager
  BY <1>0, <1>1 DEF StopManager, LoseProcess, Checkpoint, NoteFlushed, AcceptInv, AcceptedStored
<1>2. CASE ProcessCrash
  BY <1>0, <1>2 DEF ProcessCrash, LoseProcess, disk, history, AcceptInv, AcceptedStored
<1>3. CASE PowerLoss
  BY <1>0, <1>3 DEF PowerLoss, LoseProcess, history, AcceptInv, AcceptedStored, Durable
<1>4. ASSUME NEW c \in Clients, NEW t \in Topics, OnPublish(c, t) PROVE AcceptInv'
  BY <1>0, <1>4 DEF OnPublish, Goto, disk, AcceptInv, AcceptedStored, TypeOK
<1>5. ASSUME NEW c \in Clients, Insert(c) PROVE AcceptInv'
  <2> DEFINE new == [id |-> NextRowID(db), msg |-> msg[c]]
  <2>1. db' = InsertRow(db, msg[c]) /\ (SyncEachCommit => survivors' = {db'})
    BY <1>5 DEF Insert, Commit
  <2>2. db'.rows = db.rows \cup {new}
    BY <2>1 DEF InsertRow
  <2>3. Publishes(db.rows) \subseteq Publishes(db'.rows) /\ msg[c].pub \in Publishes(db'.rows)
    BY <2>2 DEF Publishes
  <2> QED
    BY <1>0, <1>5, <2>1, <2>3 DEF Insert, Goto, history, AcceptInv, AcceptedStored, TypeOK
<1>6. ASSUME NEW c \in Clients, InsertFails(c) \/ RecordWrite(c) \/ CountMessage(c)
      PROVE  AcceptInv'
  BY <1>0, <1>6 DEF InsertFails, RecordWrite, CountMessage, Return, Goto, disk, history,
     AcceptInv, AcceptedStored, TypeOK
<1>7. ASSUME NEW c \in Clients, CountBytes(c) PROVE AcceptInv'
  BY <1>0, <1>7 DEF CountBytes, Return, Goto, disk, AcceptInv, AcceptedStored, TypeOK
<1>8. ASSUME NEW t \in Topics, NEW before \in 1..(MaxTime + 1), CompactTopic(t, before)
      PROVE  AcceptInv'
  <2> DEFINE E == Expired(t, before)
  <2>1. /\ db' = [db EXCEPT !.rows = @ \ E] /\ (SyncEachCommit => survivors' = {db'})
        /\ compacted' = compacted \cup Publishes(E)
    BY <1>8 DEF CompactTopic, Commit
  <2>2. db'.rows = db.rows \ E
    BY <1>0, <2>1 DEF Database
  <2>3. Safe \subseteq Publishes(db'.rows) \cup compacted'
    BY <2>1, <2>2 DEF Publishes
  <2> QED
    BY <1>0, <1>8, <2>1, <2>3 DEF CompactTopic, AcceptInv, AcceptedStored
<1>9. CASE Start \/ ForceFlush \/ Tick \/ UNCHANGED vars
  BY <1>0, <1>9 DEF Start, ForceFlush, Checkpoint, NoteFlushed, Tick, vars, disk, history,
     AcceptInv, AcceptedStored
<1> QED
  BY <1>1, <1>2, <1>3, <1>4, <1>5, <1>6, <1>7, <1>8, <1>9 DEF Next, Handler

(***************************************************************************)
(* A publish OnPublish accepted is never lost, through any number of       *)
(* crashes and restarts, when each commit is synced or the machine itself  *)
(* does not fail.                                                          *)
(***************************************************************************)
THEOREM LogAcceptedStored == Durable => (Spec => []AcceptedStored)
<1> SUFFICES ASSUME Durable PROVE Spec => []AcceptedStored
  OBVIOUS
<1>1. Init => AcceptInv
  BY BaseInit DEF Init, AcceptInv, AcceptedStored
<1>2. AcceptInv /\ [Next]_vars => AcceptInv'
  BY AcceptNext
<1>3. AcceptInv => AcceptedStored
  BY DEF AcceptInv
<1> QED
  BY <1>1, <1>2, <1>3, PTL DEF Spec

-----------------------------------------------------------------------------
(* What a power failure may take.                                          *)

\* sqlite_sequence tells the messages a failure leaves from those it takes.
LossInv ==
    /\ BaseInv
    /\ \A s \in survivors : /\ s.seq <= db.seq
                            /\ \A r \in db.rows \ s.rows : s.seq < r.id

\* Every step keeps the high-water mark of a survivor below what it lacks.
LEMMA LossNext == LossInv /\ [Next]_vars => LossInv'
<1> SUFFICES ASSUME LossInv, [Next]_vars PROVE LossInv'
  OBVIOUS
<1>0. /\ BaseInv' /\ db \in Database /\ db \in survivors /\ survivors \subseteq Database
      /\ \A s \in survivors : s.seq <= db.seq /\ \A r \in db.rows \ s.rows : s.seq < r.id
  BY BaseNext DEF LossInv, BaseInv, TypeOK
<1>1. ASSUME NEW c \in Clients, Insert(c) PROVE LossInv'
  <2> DEFINE new == [id |-> db.seq + 1, msg |-> msg[c]]
  <2>1. /\ db'.rows = db.rows \cup {new} /\ db'.seq = db.seq + 1
        /\ survivors' \subseteq survivors \cup {db'}
    BY <1>1 DEF Insert, Commit, InsertRow, NextRowID
  <2>2. db.seq \in Nat /\ new.id = db.seq + 1 /\ \A s \in survivors : s.seq \in Nat
    BY <1>0 DEF Database
  <2>3. ASSUME NEW s \in survivors
        PROVE  s.seq <= db'.seq /\ \A r \in db'.rows \ s.rows : s.seq < r.id
    BY <1>0, <2>1, <2>2
  <2> QED
    BY <1>0, <2>1, <2>2, <2>3 DEF LossInv
<1>2. ASSUME NEW t \in Topics, NEW before \in 1..(MaxTime + 1), CompactTopic(t, before)
      PROVE  LossInv'
  <2>1. /\ db'.rows \subseteq db.rows /\ db'.seq = db.seq
        /\ survivors' \subseteq survivors \cup {db'}
    BY <1>0, <1>2 DEF CompactTopic, Commit, Database
  <2>2. db.seq \in Nat
    BY <1>0 DEF Database
  <2> QED
    BY <1>0, <2>1, <2>2 DEF LossInv
<1>3. CASE survivors' = {db'} /\ db' \in survivors
  <2>1. db'.seq <= db'.seq
    BY <1>0, <1>3 DEF Database
  <2> QED
    BY <1>0, <1>3, <2>1 DEF LossInv
<1>4. CASE UNCHANGED disk
  BY <1>0, <1>4 DEF disk, LossInv
<1>5. \/ survivors' = {db'} /\ db' \in survivors
      \/ \E c \in Clients : Insert(c)
      \/ \E t \in Topics, before \in 1..(MaxTime + 1) : CompactTopic(t, before)
      \/ UNCHANGED disk
  BY <1>0 DEF Next, Handler, Start, StopManager, ForceFlush, Checkpoint, ProcessCrash,
     PowerLoss, Tick, OnPublish, InsertFails, RecordWrite, CountMessage, CountBytes, vars, disk
<1> QED
  BY <1>1, <1>2, <1>3, <1>4, <1>5

(***************************************************************************)
(* Under every setting of synchronous, the default NORMAL included, what a *)
(* power failure takes back is newer than everything it leaves: the log is *)
(* cut at one point, though messages compacted since may come back.        *)
(***************************************************************************)
THEOREM LogLossTakesNewest == Spec => []LossTakesNewest
<1>1. Init => LossInv
  <2> SUFFICES ASSUME Init PROVE LossInv
    OBVIOUS
  <2>1. BaseInv /\ survivors = {db} /\ db.rows = {} /\ db.seq = 0
    BY BaseInit DEF Init
  <2> QED
    BY <2>1 DEF LossInv
<1>2. LossInv => LossTakesNewest
  <2> SUFFICES ASSUME LossInv, NEW s \in survivors,
                      NEW kept \in s.rows, NEW lost \in db.rows \ s.rows
               PROVE  kept.id < lost.id
    BY DEF LossTakesNewest
  <2>1. kept.id \in Nat /\ lost.id \in Nat /\ s.seq \in Nat
    BY DEF LossInv, BaseInv, TypeOK, Database, Rows
  <2>2. kept.id <= s.seq /\ s.seq < lost.id
    BY DEF LossInv, BaseInv, TableOK
  <2> QED
    BY <2>1, <2>2
<1> QED
  BY <1>1, <1>2, LossNext, PTL DEF Spec

-----------------------------------------------------------------------------
(* The counter of message ids.                                             *)

\* Hooks that have taken a messageID and not inserted their row.
Inserting == {c \in Clients : pc[c] = "insert"}

\* sqlite_sequence stands at a row of the table.
AtLastRow(d) == d.seq = 0 \/ \E r \in d.rows : r.id = d.seq

\* While nothing is compacted MAX(id) is sqlite_sequence, in the table and in
\* whatever a failure may leave, so a recovered messageID starts there; it then
\* runs ahead of sqlite_sequence by at least the hooks in flight.
NextIDInv ==
    /\ BaseInv
    /\ ~up => \A c \in Clients : pc[c] = "idle"
    /\ compacted = {} => \A s \in survivors : AtLastRow(s)
    /\ up /\ statsRecovered /\ compacted = {} =>
          db.seq + Cardinality(Inserting) <= messageID

\* MAX(id) of a table that ends at sqlite_sequence.
LEMMA MaxRowIDIsSeq ==
    ASSUME NEW d \in Database, TableOK(d), AtLastRow(d)
    PROVE  MaxRowID(d.rows) = d.seq
<1>0. d.seq \in Nat /\ \A r \in d.rows : r.id \in Nat /\ r.id <= d.seq
  BY DEF Database, Rows, TableOK
<1>1. CASE d.rows = {}
  BY <1>1 DEF MaxRowID, AtLastRow
<1>2. CASE d.rows # {}
  <2>1. PICK r \in d.rows : r.id = d.seq
    BY <1>0, <1>2 DEF AtLastRow
  <2>2. \A q \in d.rows : q.id <= r.id
    BY <1>0, <2>1
  <2> DEFINE m == CHOOSE x \in d.rows : \A q \in d.rows : q.id <= x.id
  <2>3. m \in d.rows /\ \A q \in d.rows : q.id <= m.id
    BY <2>2
  <2>4. m.id = d.seq
    BY <1>0, <2>1, <2>3
  <2> QED
    BY <1>2, <2>4 DEF MaxRowID
<1> QED
  BY <1>1, <1>2

\* Only finitely many connections are in any part of a hook.
LEMMA HooksFinite ==
    ASSUME NEW S \in SUBSET Clients
    PROVE  IsFiniteSet(S) /\ Cardinality(S) \in Nat
BY LogAssumption, FS_Subset, FS_CardinalityType DEF LogAssumption

\* Every step keeps messageID ahead of sqlite_sequence.
LEMMA NextIDNext == NextIDInv /\ [Next]_vars => NextIDInv'
<1> SUFFICES ASSUME NextIDInv, [Next]_vars PROVE NextIDInv'
  OBVIOUS
<1> DEFINE Idle == ~up => \A c \in Clients : pc[c] = "idle"
           Ends == compacted = {} => \A s \in survivors : AtLastRow(s)
           Ahead == up /\ statsRecovered /\ compacted = {} =>
                        db.seq + Cardinality(Inserting) <= messageID
<1>0. /\ BaseInv /\ BaseInv' /\ TypeOK /\ db \in Database /\ db.seq \in Nat
      /\ db \in survivors /\ TableOK(db) /\ messageID \in Nat
      /\ Idle /\ Ends /\ Ahead
  BY BaseNext DEF NextIDInv, BaseInv, TypeOK, Database
<1>1. IsFiniteSet(Inserting) /\ Cardinality(Inserting) \in Nat
  <2>1. Inserting \in SUBSET Clients
    BY DEF Inserting
  <2> QED
    BY <2>1, HooksFinite
<1>2. CASE Start
  <2>1. Inserting' = {} /\ Cardinality(Inserting') = 0
    BY <1>0, <1>2, FS_EmptySet DEF Start, Inserting
  <2>2. ASSUME statsRecovered', compacted' = {} PROVE messageID' = db'.seq
    <3>1. messageID' = MaxRowID(db.rows) /\ db' = db /\ compacted = {}
      BY <1>2, <2>2 DEF Start, RecoverStatistics, disk
    <3> QED
      BY <1>0, <3>1, MaxRowIDIsSeq
  <2>3. UNCHANGED <<db, survivors, compacted>> /\ up'
    BY <1>2 DEF Start, disk
  <2> QED
    BY <1>0, <2>1, <2>2, <2>3 DEF NextIDInv
<1>3. CASE StopManager \/ ProcessCrash \/ PowerLoss
  <2>1. /\ ~up' /\ (\A c \in Clients : pc'[c] = "idle") /\ compacted' = compacted
        /\ survivors' \subseteq survivors
    BY <1>0, <1>3 DEF StopManager, ProcessCrash, PowerLoss, LoseProcess, Checkpoint, NoteFlushed,
       disk, history
  <2> QED
    BY <1>0, <2>1 DEF NextIDInv
<1>4. ASSUME NEW c \in Clients, NEW t \in Topics, OnPublish(c, t) PROVE NextIDInv'
  <2>1. /\ Inserting' = Inserting \cup {c} /\ c \notin Inserting
        /\ messageID' = messageID + 1 /\ up
        /\ UNCHANGED <<db, survivors, up, compacted, statsRecovered>>
    BY <1>0, <1>4 DEF OnPublish, Goto, Inserting, TypeOK, disk
  <2>2. Cardinality(Inserting') = Cardinality(Inserting) + 1
    BY <1>1, <2>1, FS_AddElement
  <2> QED
    BY <1>0, <1>1, <2>1, <2>2 DEF NextIDInv
<1>5. ASSUME NEW c \in Clients, Insert(c) PROVE NextIDInv'
  <2> DEFINE d == InsertRow(db, msg[c])
  <2>1. /\ Inserting' = Inserting \ {c} /\ c \in Inserting /\ up
        /\ UNCHANGED <<messageID, up, compacted, statsRecovered>>
    BY <1>0, <1>5 DEF Insert, Goto, Inserting, TypeOK, memory, history
  <2>2. Cardinality(Inserting') = Cardinality(Inserting) - 1
    BY <1>1, <2>1, FS_RemoveElement
  <2>3. db' = d /\ survivors' \subseteq survivors \cup {d}
    BY <1>5 DEF Insert, Commit
  <2>4. d.seq = db.seq + 1 /\ AtLastRow(d)
    <3>1. d.seq = NextRowID(db) /\ [id |-> NextRowID(db), msg |-> msg[c]] \in d.rows
      BY DEF InsertRow
    <3> QED
      BY <3>1 DEF NextRowID, AtLastRow
  <2> QED
    BY <1>0, <1>1, <2>1, <2>2, <2>3, <2>4 DEF NextIDInv
<1>6. ASSUME NEW c \in Clients,
             InsertFails(c) \/ RecordWrite(c) \/ CountMessage(c) \/ CountBytes(c)
      PROVE  NextIDInv'
  <2>1. UNCHANGED <<db, survivors, up, messageID, compacted, statsRecovered>>
    BY <1>6 DEF InsertFails, RecordWrite, CountMessage, CountBytes, disk, history
  <2>2. Inserting' = Inserting \ {c} /\ up
    BY <1>0, <1>6 DEF InsertFails, RecordWrite, CountMessage, CountBytes, Return, Goto,
       Inserting, TypeOK
  <2>3. Cardinality(Inserting') <= Cardinality(Inserting) /\ Cardinality(Inserting') \in Nat
    BY <1>1, <2>2, FS_Subset, FS_CardinalityType
  <2> QED
    BY <1>0, <1>1, <2>1, <2>2, <2>3 DEF NextIDInv
<1>7. ASSUME NEW t \in Topics, NEW before \in 1..(MaxTime + 1), CompactTopic(t, before)
      PROVE  NextIDInv'
  <2>1. PICK r \in Expired(t, before) : TRUE
    BY <1>7 DEF CompactTopic
  <2>2. r.msg.pub \in compacted'
    BY <1>7, <2>1 DEF CompactTopic, Publishes
  <2>3. up' /\ compacted' # {}
    BY <1>7, <2>2 DEF CompactTopic
  <2> QED
    BY <1>0, <2>3 DEF NextIDInv
<1>8. CASE ForceFlush \/ Tick \/ UNCHANGED vars
  <2>1. /\ UNCHANGED <<db, up, messageID, pc, compacted, statsRecovered>>
        /\ survivors' \subseteq survivors
    BY <1>0, <1>8 DEF ForceFlush, Checkpoint, NoteFlushed, Tick, vars, memory, disk, history
  <2>2. Inserting' = Inserting
    BY <2>1 DEF Inserting
  <2> QED
    BY <1>0, <2>1, <2>2 DEF NextIDInv
<1> QED
  BY <1>2, <1>3, <1>4, <1>5, <1>6, <1>7, <1>8 DEF Next, Handler

(***************************************************************************)
(* Under every setting of synchronous and any number of connections,       *)
(* messageID as Start recomputes it from MAX(id) and OnPublish increments  *)
(* it never falls behind the ids of the table before the first compaction. *)
(***************************************************************************)
THEOREM LogNextIDFresh == Spec => []NextIDFresh
<1>1. Init => NextIDInv
  <2> SUFFICES ASSUME Init PROVE NextIDInv
    OBVIOUS
  <2>1. BaseInv /\ survivors = {db} /\ db.seq = 0
    BY BaseInit DEF Init
  <2> QED
    BY <2>1 DEF Init, NextIDInv, AtLastRow
<1>2. NextIDInv => NextIDFresh
  <2> SUFFICES ASSUME NextIDInv, up, statsRecovered, compacted = {}, NEW r \in db.rows
               PROVE  r.id <= messageID
    BY DEF NextIDFresh
  <2>1. /\ r.id \in Nat /\ r.id <= db.seq /\ db.seq \in Nat /\ messageID \in Nat
        /\ db.seq + Cardinality(Inserting) <= messageID
    BY DEF NextIDInv, BaseInv, TypeOK, TableOK, Database, Rows
  <2>2. Inserting \in SUBSET Clients
    BY DEF Inserting
  <2>3. Cardinality(Inserting) \in Nat
    BY <2>2, HooksFinite
  <2> QED
    BY <2>1, <2>3
<1> QED
  BY <1>1, <1>2, NextIDNext, PTL DEF Spec

-----------------------------------------------------------------------------
(* The order of one connection's messages.                                 *)

\* A connection's row about to be inserted is newer than all it has in any table.
OrderInv ==
    /\ BaseInv
    /\ OrderPreserved
    /\ \A s \in survivors : \A r \in s.rows : r.msg.pub <= calls
    /\ \A c \in Clients : pc[c] # "idle" => msg[c].pub <= calls /\ msg[c].conn = c
    /\ \A c \in Clients : pc[c] = "insert" =>
          \A s \in survivors : \A r \in s.rows :
              r.msg.conn = c => r.msg.pub < msg[c].pub

\* With no rows and no hook in flight the order holds.
LEMMA OrderInit == Init => OrderInv
<1> SUFFICES ASSUME Init PROVE OrderInv
  OBVIOUS
<1>1. BaseInv /\ survivors = {db} /\ db.rows = {}
  BY BaseInit DEF Init
<1> QED
  BY <1>1 DEF Init, OrderInv, OrderPreserved, PublishOrder

\* Every step keeps the rows of a connection in publish order, because a connection
\* runs one hook at a time and its next row gets the largest id.
LEMMA OrderNext == OrderInv /\ [Next]_vars => OrderInv'
<1> SUFFICES ASSUME OrderInv, [Next]_vars PROVE OrderInv'
  OBVIOUS
<1> DEFINE Own(c) == pc[c] # "idle" => msg[c].pub <= calls /\ msg[c].conn = c
           Newer(c, S) == \A s \in S : \A r \in s.rows :
                              r.msg.conn = c => r.msg.pub < msg[c].pub
<1>0. /\ BaseInv' /\ TypeOK /\ db \in Database /\ db \in survivors
      /\ survivors \subseteq Database /\ TableOK(db)
      /\ OrderPreserved
      /\ \A s \in survivors : \A r \in s.rows : r.msg.pub <= calls
      /\ \A c \in Clients : Own(c)
      /\ \A c \in Clients : pc[c] = "insert" => Newer(c, survivors)
  BY BaseNext DEF OrderInv, BaseInv, TypeOK
<1>1. ASSUME UNCHANGED calls, survivors' \subseteq survivors, db' \in survivors,
             \A c \in Clients : pc'[c] # "idle" => pc[c] # "idle" /\ msg'[c] = msg[c],
             \A c \in Clients : pc'[c] = "insert" => pc[c] = "insert"
      PROVE  OrderInv'
  BY <1>0, <1>1 DEF OrderInv, OrderPreserved
<1>2. CASE StopManager
  BY <1>0, <1>1, <1>2 DEF StopManager, LoseProcess, Checkpoint, NoteFlushed
<1>3. CASE ProcessCrash
  BY <1>0, <1>1, <1>3 DEF ProcessCrash, LoseProcess, disk, history
<1>4. CASE PowerLoss
  BY <1>0, <1>1, <1>4 DEF PowerLoss, LoseProcess, history
<1>5. ASSUME NEW c \in Clients, NEW t \in Topics, OnPublish(c, t) PROVE OrderInv'
  <2>1. /\ \A e \in Clients \ {c} : pc'[e] = pc[e] /\ msg'[e] = msg[e]
        /\ msg'[c].pub = calls + 1 /\ msg'[c].conn = c /\ calls' = calls + 1
        /\ UNCHANGED disk
    BY <1>0, <1>5 DEF OnPublish, Goto, TypeOK
  <2>2. calls \in Nat /\ \A s \in survivors : \A r \in s.rows : r.msg.pub \in Nat
    BY <1>0 DEF TypeOK, Database, Rows, Messages
  <2>3. \A e \in Clients : pc[e] # "idle" => msg[e].pub \in Nat
    BY <1>0 DEF TypeOK, Messages
  <2>4. \A s \in survivors : \A r \in s.rows : r.msg.pub <= calls'
    BY <1>0, <2>1, <2>2
  <2>5. \A e \in Clients : Own(e)'
    BY <1>0, <2>1, <2>2, <2>3
  <2>6. \A e \in Clients : pc'[e] = "insert" => Newer(e, survivors)'
    BY <1>0, <2>1, <2>2 DEF disk
  <2> QED
    BY <1>0, <2>1, <2>4, <2>5, <2>6 DEF OrderInv, OrderPreserved, disk
<1>6. ASSUME NEW c \in Clients, Insert(c) PROVE OrderInv'
  <2> DEFINE new == [id |-> NextRowID(db), msg |-> msg[c]]
             d == InsertRow(db, msg[c])
  <2>1. /\ db' = d /\ survivors' \subseteq survivors \cup {d} /\ d.rows = db.rows \cup {new}
        /\ pc' = [pc EXCEPT ![c] = "record"] /\ pc[c] = "insert"
        /\ UNCHANGED <<msg, calls>>
    BY <1>6 DEF Insert, Commit, InsertRow, Goto, history
  <2>2. msg[c] \in Messages /\ msg[c].conn = c /\ msg[c].pub <= calls
    BY <1>0, <2>1 DEF TypeOK
  <2>3. \A r \in db.rows : r.id \in Nat /\ r.id < new.id /\ r.msg.pub \in Nat
    BY <1>0 DEF Database, Rows, Messages, TableOK, NextRowID
  <2>4. \A r \in db.rows : r.msg.conn = c => r.msg.pub < new.msg.pub
    BY <1>0, <2>1
  <2>5. PublishOrder(d.rows)
    <3>1. PublishOrder(db.rows)
      BY <1>0 DEF OrderPreserved
    <3>2. new.id \in Nat /\ new.msg.pub \in Nat /\ new.msg.conn = c
      BY <1>0, <2>2 DEF NextRowID, Database, Messages
    <3> QED
      BY <2>1, <2>3, <2>4, <3>1, <3>2 DEF PublishOrder
  <2>6. \A s \in survivors' : \A r \in s.rows : r.msg.pub <= calls'
    BY <1>0, <2>1, <2>2
  <2>7. \A e \in Clients : Own(e)'
    BY <1>0, <2>1 DEF TypeOK
  <2>8. \A e \in Clients : pc'[e] = "insert" => Newer(e, survivors)'
    BY <1>0, <2>1, <2>2 DEF TypeOK
  <2> QED
    BY <1>0, <2>1, <2>5, <2>6, <2>7, <2>8 DEF OrderInv, OrderPreserved
<1>7. ASSUME NEW c \in Clients,
             InsertFails(c) \/ RecordWrite(c) \/ CountMessage(c) \/ CountBytes(c)
      PROVE  OrderInv'
  BY <1>0, <1>1, <1>7 DEF InsertFails, RecordWrite, CountMessage, CountBytes, Return,
     Goto, disk, history, TypeOK
<1>8. ASSUME NEW t \in Topics, NEW before \in 1..(MaxTime + 1), CompactTopic(t, before)
      PROVE  OrderInv'
  <2> DEFINE d == [db EXCEPT !.rows = @ \ Expired(t, before)]
  <2>1. db' = d /\ survivors' \subseteq survivors \cup {d} /\ UNCHANGED <<pc, msg, calls>>
    BY <1>8 DEF CompactTopic, Commit
  <2>2. d.rows \subseteq db.rows
    BY <1>0 DEF Database
  <2>3. PublishOrder(d.rows)
    BY <1>0, <2>2 DEF OrderPreserved, PublishOrder
  <2> QED
    BY <1>0, <2>1, <2>2, <2>3 DEF OrderInv, OrderPreserved
<1>9. CASE Start \/ ForceFlush \/ Tick \/ UNCHANGED vars
  BY <1>0, <1>1, <1>9 DEF Start, ForceFlush, Checkpoint, NoteFlushed, Tick, vars, disk, history
<1> QED
  BY <1>2, <1>3, <1>4, <1>5, <1>6, <1>7, <1>8, <1>9 DEF Next, Handler

(***************************************************************************)
(* The ids of one connection's rows follow the order of its publishes, in  *)
(* the table and in whatever a power failure may leave of it.              *)
(***************************************************************************)
THEOREM LogOrderPreserved == Spec => []OrderPreserved
<1>1. OrderInv => OrderPreserved
  BY DEF OrderInv
<1> QED
  BY <1>1, OrderInit, OrderNext, PTL DEF Spec

(***************************************************************************)
(* A limited GetMessagesByTopic is a suffix of what each connection        *)
(* stored: it never returns a message and omits a newer one of the same    *)
(* connection.                                                             *)
(***************************************************************************)
THEOREM LogQueryKeepsNewest == Spec => []QueryKeepsNewest
<1>1. OrderInv => QueryKeepsNewest
  <2> SUFFICES ASSUME OrderInv, NEW t \in Topics, NEW limit \in 1..MaxPublishes,
                      NEW r \in GetMessagesByTopic(t, limit), NEW q \in db.rows,
                      q.msg.topic = t, q.msg.conn = r.msg.conn, q.msg.pub > r.msg.pub
               PROVE  q \in GetMessagesByTopic(t, limit)
    BY DEF QueryKeepsNewest
  <2> DEFINE onTopic == {x \in db.rows : x.msg.topic = t}
             After(x) == {y \in onTopic : y.id > x.id}
  <2>1. r \in onTopic /\ q \in onTopic /\ Cardinality(After(r)) < limit
    BY DEF GetMessagesByTopic
  <2>2. PublishOrder(db.rows) /\ IsFiniteSet(db.rows) /\ db \in Database
    BY DEF OrderInv, OrderPreserved, BaseInv, TableOK, TypeOK
  <2>3. \A x \in db.rows : x.id \in Nat /\ x.msg.pub \in Nat
    BY <2>2 DEF Database, Rows, Messages
  <2>4. r.id < q.id
    BY <2>1, <2>2, <2>3 DEF PublishOrder
  <2>5. After(q) \in SUBSET After(r) /\ After(r) \in SUBSET db.rows
    BY <2>1, <2>3, <2>4
  <2>6. IsFiniteSet(After(r)) /\ IsFiniteSet(After(q))
    BY <2>2, <2>5, FS_Subset
  <2>7. Cardinality(After(q)) <= Cardinality(After(r))
    BY <2>5, <2>6, FS_Subset
  <2>8. Cardinality(After(q)) \in Nat /\ Cardinality(After(r)) \in Nat
    BY <2>6, FS_CardinalityType
  <2>9. Cardinality(After(q)) < limit
    BY <2>1, <2>7, <2>8
  <2> QED
    BY <2>1, <2>9 DEF GetMessagesByTopic
<1> QED
  BY <1>1, OrderInit, OrderNext, PTL DEF Spec

-----------------------------------------------------------------------------
(* The statistics.                                                         *)

\* While the broker is down no hook is in flight, so Start counts from zero.
CountInv ==
    /\ BaseInv
    /\ CountersAgree
    /\ ~up => \A c \in Clients : pc[c] = "idle"

\* Only finitely many hooks are between the INSERT and the counter.
LEMMA UncountedFinite ==
    /\ IsFiniteSet(Uncounted) /\ Cardinality(Uncounted) \in Nat
    /\ IsFiniteSet(Recorded) /\ Cardinality(Recorded) \in Nat
<1>1. Uncounted \in SUBSET Clients /\ Recorded \in SUBSET Clients
  BY DEF Uncounted, Recorded
<1> QED
  BY <1>1, HooksFinite

\* Every step moves the counter, the rows and the hooks in flight together.
LEMMA CountNext == CountInv /\ [Next]_vars => CountInv'
<1> SUFFICES ASSUME CountInv, [Next]_vars PROVE CountInv'
  OBVIOUS
<1> DEFINE Idle == ~up => \A c \in Clients : pc[c] = "idle"
<1>0. /\ BaseInv' /\ TypeOK /\ db \in Database /\ TableOK(db)
      /\ CountersAgree /\ Idle
      /\ IsFiniteSet(db.rows) /\ Cardinality(db.rows) \in Nat
  BY BaseNext, FS_CardinalityType DEF CountInv, BaseInv, TypeOK, TableOK
<1>1. CASE Start
  <2>1. Cardinality(Uncounted') = 0 /\ Cardinality(Recorded') = 0
    <3>1. Uncounted' = {} /\ Recorded' = {}
      BY <1>0, <1>1 DEF Start, Uncounted, Recorded
    <3> QED
      BY <3>1, FS_EmptySet
  <2>2. up' /\ writeOps'["success"] = 0 /\ deleted' = 0 /\ db' = db
    BY <1>1 DEF Start, disk
  <2>3. statsRecovered' => totalMessages' = Cardinality(db.rows)
    BY <1>1 DEF Start, RecoverStatistics
  <2>4. rowsAtStart' = Cardinality(db.rows)
    BY <1>1 DEF Start
  <2> QED
    BY <1>0, <2>1, <2>2, <2>3, <2>4 DEF CountInv, CountersAgree
<1>2. CASE StopManager \/ ProcessCrash \/ PowerLoss
  BY <1>0, <1>2 DEF StopManager, ProcessCrash, PowerLoss, LoseProcess, CountInv, CountersAgree
<1>3. ASSUME NEW c \in Clients, NEW t \in Topics, OnPublish(c, t) PROVE CountInv'
  <2>1. Uncounted' = Uncounted /\ Recorded' = Recorded
    BY <1>0, <1>3 DEF OnPublish, Goto, Uncounted, Recorded, TypeOK
  <2> QED
    BY <1>0, <1>3, <2>1 DEF OnPublish, disk, CountInv, CountersAgree
<1>4. ASSUME NEW c \in Clients, Insert(c) PROVE CountInv'
  <2>1. msg[c] \in Messages /\ up
    BY <1>0, <1>4 DEF Insert, TypeOK
  <2>2. Cardinality(db'.rows) = Cardinality(db.rows) + 1
    BY <1>0, <1>4, <2>1, InsertRowFacts DEF Insert, Commit
  <2>3. Uncounted' = Uncounted \cup {c} /\ c \notin Uncounted /\ Recorded' = Recorded
    BY <1>0, <1>4 DEF Insert, Goto, Uncounted, Recorded, TypeOK
  <2>4. Cardinality(Uncounted') = Cardinality(Uncounted) + 1
    BY <2>3, UncountedFinite, FS_AddElement
  <2>5. UNCHANGED <<up, totalMessages, writeOps, statsRecovered, rowsAtStart, deleted>>
    BY <1>4 DEF Insert, memory, history
  <2>6. totalMessages \in Nat /\ deleted \in Nat /\ Cardinality(Uncounted) \in Nat
    BY <1>0, UncountedFinite DEF TypeOK
  <2>7. CountersAgree'
    BY <1>0, <2>1, <2>2, <2>3, <2>4, <2>5, <2>6 DEF CountersAgree
  <2> QED
    BY <1>0, <2>1, <2>5, <2>7 DEF CountInv
<1>5. ASSUME NEW c \in Clients, InsertFails(c) PROVE CountInv'
  <2>1. /\ Uncounted' = Uncounted /\ Recorded' = Recorded
        /\ writeOps'["success"] = writeOps["success"]
    BY <1>0, <1>5 DEF InsertFails, RecordSQLiteWrite, Return, Goto, Uncounted, Recorded, TypeOK
  <2>2. Idle'
    BY <1>0, <1>5 DEF InsertFails, Return, Goto, TypeOK
  <2> QED
    BY <1>0, <1>5, <2>1, <2>2 DEF InsertFails, disk, history, CountInv, CountersAgree
<1>6. ASSUME NEW c \in Clients, RecordWrite(c) PROVE CountInv'
  <2>1. Uncounted' = Uncounted /\ Recorded' = Recorded \cup {c} /\ c \notin Recorded
    BY <1>0, <1>6 DEF RecordWrite, Goto, Uncounted, Recorded, TypeOK
  <2>2. Cardinality(Recorded') = Cardinality(Recorded) + 1
    BY <2>1, UncountedFinite, FS_AddElement
  <2>3. writeOps'["success"] = writeOps["success"] + 1
    BY <1>0, <1>6 DEF RecordWrite, RecordSQLiteWrite, TypeOK
  <2>4. /\ totalMessages \in Nat /\ rowsAtStart \in Nat /\ writeOps["success"] \in Nat
        /\ Cardinality(Recorded) \in Nat
    BY <1>0, UncountedFinite DEF TypeOK
  <2>5. UNCHANGED <<db, up, totalMessages, statsRecovered, rowsAtStart, deleted>>
    BY <1>6 DEF RecordWrite, disk, history
  <2>6. up
    BY <1>0, <1>6 DEF RecordWrite
  <2>7. CountersAgree'
    BY <1>0, <2>1, <2>2, <2>3, <2>4, <2>5 DEF CountersAgree
  <2> QED
    BY <1>0, <2>5, <2>6, <2>7 DEF CountInv
<1>7. ASSUME NEW c \in Clients, CountMessage(c) \/ CountBytes(c) PROVE CountInv'
  <2>1. CASE CountMessage(c)
    <3>1. /\ Uncounted' = Uncounted \ {c} /\ c \in Uncounted
          /\ Recorded' = Recorded \ {c} /\ c \in Recorded
      BY <1>0, <2>1 DEF CountMessage, Goto, Uncounted, Recorded, TypeOK
    <3>2. /\ Cardinality(Uncounted') = Cardinality(Uncounted) - 1
          /\ Cardinality(Recorded') = Cardinality(Recorded) - 1
      BY <3>1, UncountedFinite, FS_RemoveElement
    <3>3. totalMessages \in Nat
      BY <1>0 DEF TypeOK
    <3>4. /\ totalMessages' + Cardinality(Uncounted') = totalMessages + Cardinality(Uncounted)
          /\ totalMessages' + Cardinality(Recorded') = totalMessages + Cardinality(Recorded)
      BY <2>1, <3>2, <3>3, UncountedFinite DEF CountMessage
    <3>5. Idle'
      BY <1>0, <2>1 DEF CountMessage, Goto, TypeOK
    <3> QED
      BY <1>0, <2>1, <3>4, <3>5 DEF CountMessage, disk, history, CountInv, CountersAgree
  <2>2. CASE CountBytes(c)
    <3>1. Uncounted' = Uncounted /\ Recorded' = Recorded /\ Idle'
      BY <1>0, <2>2 DEF CountBytes, Return, Goto, Uncounted, Recorded, TypeOK
    <3> QED
      BY <1>0, <2>2, <3>1 DEF CountBytes, disk, CountInv, CountersAgree
  <2> QED
    BY <1>7, <2>1, <2>2
<1>8. ASSUME NEW t \in Topics, NEW before \in 1..(MaxTime + 1), CompactTopic(t, before)
      PROVE  CountInv'
  <2> DEFINE E == Expired(t, before)
  <2>1. E \in SUBSET db.rows
    BY DEF Expired
  <2>2. db' = [db EXCEPT !.rows = @ \ E] /\ deleted' = deleted + Cardinality(E)
    BY <1>8 DEF CompactTopic, Commit
  <2>3. /\ Cardinality(db'.rows) = Cardinality(db.rows) - Cardinality(E)
        /\ Cardinality(E) \in Nat
    BY <1>0, <2>1, <2>2, DeleteFacts
  <2>4. deleted \in Nat
    BY <1>0 DEF TypeOK
  <2>5. Cardinality(db'.rows) + deleted' = Cardinality(db.rows) + deleted
    BY <1>0, <2>2, <2>3, <2>4
  <2>6. UNCHANGED <<up, pc, totalMessages, writeOps, statsRecovered, rowsAtStart>>
    BY <1>8 DEF CompactTopic, memory
  <2>7. Uncounted' = Uncounted /\ Recorded' = Recorded
    BY <2>6 DEF Uncounted, Recorded
  <2> QED
    BY <1>0, <2>5, <2>6, <2>7 DEF CountInv, CountersAgree
<1>9. CASE ForceFlush \/ Tick \/ UNCHANGED vars
  <2>1. UNCHANGED <<db, up, memory, pc, statsRecovered, rowsAtStart, deleted>>
    BY <1>9 DEF ForceFlush, Checkpoint, NoteFlushed, Tick, vars, disk, history
  <2>2. Uncounted' = Uncounted /\ Recorded' = Recorded
    BY <2>1 DEF Uncounted, Recorded
  <2> QED
    BY <1>0, <2>1, <2>2 DEF memory, CountInv, CountersAgree
<1> QED
  BY <1>1, <1>2, <1>3, <1>4, <1>5, <1>6, <1>7, <1>8, <1>9 DEF Next, Handler

(***************************************************************************)
(* total_messages counts the rows of the table and agrees with the metric  *)
(* of successful writes, whatever the interleaving of the hooks and        *)
(* whenever the broker was last started.                                   *)
(***************************************************************************)
THEOREM LogCountersAgree == Spec => []CountersAgree
<1>1. Init => CountInv
  BY BaseInit DEF Init, CountInv, CountersAgree
<1>2. CountInv /\ [Next]_vars => CountInv'
  BY CountNext
<1>3. CountInv => CountersAgree
  BY DEF CountInv
<1> QED
  BY <1>1, <1>2, <1>3, PTL DEF Spec

-----------------------------------------------------------------------------
(* The abstract log.                                                       *)

\* What the refinement needs beyond the earlier invariants: a hook about to
\* insert brings a publish that no row, no compaction and no other hook has.
FreshInv ==
    /\ AcceptInv /\ OrderInv
    /\ \A n \in compacted : n <= calls
    /\ \A c \in Clients : pc[c] = "insert" => msg[c].pub \notin Publishes(db.rows) \cup compacted
    /\ \A c, e \in Clients :
          c # e /\ pc[c] # "idle" /\ pc[e] # "idle" => msg[c].pub # msg[e].pub

\* Where commits last, every step keeps publishes in flight fresh.
LEMMA FreshNext == Durable /\ FreshInv /\ [Next]_vars => FreshInv'
<1> SUFFICES ASSUME Durable, FreshInv, [Next]_vars PROVE FreshInv'
  OBVIOUS
<1> DEFINE Low == \A n \in compacted : n <= calls
           Fresh(c) == pc[c] = "insert" => msg[c].pub \notin Publishes(db.rows) \cup compacted
           Apart(c, e) == c # e /\ pc[c] # "idle" /\ pc[e] # "idle" => msg[c].pub # msg[e].pub
<1>0. /\ AcceptInv' /\ OrderInv' /\ TypeOK /\ db \in Database /\ calls \in Nat
      /\ Low /\ (\A c \in Clients : Fresh(c)) /\ (\A c, e \in Clients : Apart(c, e))
      /\ \A c \in Clients : pc[c] # "idle" => msg[c].pub \in Nat /\ msg[c].pub <= calls
      /\ \A n \in Publishes(db.rows) \cup compacted : n \in Nat /\ n <= calls
      /\ SyncEachCommit => survivors = {db}
  <2>1. /\ AcceptInv /\ OrderInv /\ TypeOK /\ db \in Database /\ db \in survivors
        /\ calls \in Nat /\ compacted \subseteq Nat
    BY DEF FreshInv, AcceptInv, BaseInv, TypeOK
  <2>2. \A r \in db.rows : r.msg.pub \in Nat /\ r.msg.pub <= calls
    BY <2>1 DEF OrderInv, Database, Rows, Messages
  <2>3. \A n \in Publishes(db.rows) \cup compacted : n \in Nat /\ n <= calls
    BY <2>1, <2>2 DEF FreshInv, Publishes
  <2>4. \A c \in Clients : pc[c] # "idle" => msg[c].pub \in Nat /\ msg[c].pub <= calls
    BY <2>1 DEF OrderInv, TypeOK, Messages
  <2> QED
    BY <2>1, <2>3, <2>4, AcceptNext, OrderNext DEF FreshInv, AcceptInv
<1>1. ASSUME calls' = calls, Publishes(db'.rows) \cup compacted' \subseteq Publishes(db.rows) \cup compacted,
             \A c \in Clients : pc'[c] # "idle" => pc[c] # "idle" /\ msg'[c] = msg[c],
             \A c \in Clients : pc'[c] = "insert" => pc[c] = "insert"
      PROVE  FreshInv'
  BY <1>0, <1>1 DEF FreshInv
<1>2. CASE StopManager \/ ProcessCrash
  BY <1>0, <1>1, <1>2 DEF StopManager, ProcessCrash, LoseProcess, Checkpoint, NoteFlushed,
     disk, history
<1>3. CASE PowerLoss
  BY <1>0, <1>1, <1>3 DEF PowerLoss, LoseProcess, history, Durable
<1>4. ASSUME NEW c \in Clients, NEW t \in Topics, OnPublish(c, t) PROVE FreshInv'
  <2>1. /\ \A e \in Clients \ {c} : pc'[e] = pc[e] /\ msg'[e] = msg[e]
        /\ msg'[c].pub = calls + 1 /\ calls' = calls + 1 /\ pc'[c] = "insert"
        /\ db' = db /\ compacted' = compacted
    BY <1>0, <1>4 DEF OnPublish, Goto, TypeOK, disk
  <2>2. Low' /\ \A n \in Publishes(db.rows) \cup compacted : n # calls + 1
    BY <1>0, <2>1
  <2>3. \A e \in Clients : Fresh(e)'
    BY <1>0, <2>1, <2>2
  <2>4. \A e, f \in Clients : Apart(e, f)'
    BY <1>0, <2>1
  <2> QED
    BY <1>0, <2>2, <2>3, <2>4 DEF FreshInv
<1>5. ASSUME NEW c \in Clients, Insert(c) PROVE FreshInv'
  <2>1. /\ pc[c] = "insert" /\ pc' = [pc EXCEPT ![c] = "record"]
        /\ UNCHANGED <<msg, calls, compacted>>
        /\ db'.rows = db.rows \cup {[id |-> NextRowID(db), msg |-> msg[c]]}
    BY <1>5 DEF Insert, Commit, InsertRow, Goto, history
  <2>2. \A n \in Publishes(db'.rows) : n \in Publishes(db.rows) \/ n = msg[c].pub
    BY <2>1 DEF Publishes
  <2>3. \A e \in Clients : pc'[e] # "idle" <=> pc[e] # "idle"
    BY <1>0, <2>1 DEF TypeOK
  <2>4. \A e \in Clients : Fresh(e)'
    BY <1>0, <2>1, <2>2 DEF TypeOK
  <2> QED
    BY <1>0, <2>1, <2>3, <2>4 DEF FreshInv
<1>6. ASSUME NEW c \in Clients,
             InsertFails(c) \/ RecordWrite(c) \/ CountMessage(c) \/ CountBytes(c)
      PROVE  FreshInv'
  BY <1>0, <1>1, <1>6 DEF InsertFails, RecordWrite, CountMessage, CountBytes, Return,
     Goto, disk, history, TypeOK
<1>7. ASSUME NEW t \in Topics, NEW before \in 1..(MaxTime + 1), CompactTopic(t, before)
      PROVE  FreshInv'
  <2> DEFINE E == Expired(t, before)
  <2>1. /\ db' = [db EXCEPT !.rows = @ \ E] /\ compacted' = compacted \cup Publishes(E)
        /\ UNCHANGED <<pc, msg, calls>>
    BY <1>7 DEF CompactTopic, Commit
  <2>2. db'.rows = db.rows \ E /\ E \subseteq db.rows
    BY <1>0, <2>1 DEF Database, Expired
  <2>3. Publishes(db'.rows) \cup compacted' \subseteq Publishes(db.rows) \cup compacted
    BY <2>1, <2>2 DEF Publishes
  <2> QED
    BY <1>1, <2>1, <2>3
<1>8. CASE Start \/ ForceFlush \/ Tick \/ UNCHANGED vars
  BY <1>0, <1>1, <1>8 DEF Start, ForceFlush, Checkpoint, NoteFlushed, Tick, vars, disk, history
<1> QED
  BY <1>2, <1>3, <1>4, <1>5, <1>6, <1>7, <1>8 DEF Next, Handler

\* Every step of the manager is a step of the abstract log or none: the INSERT
\* appends, the return of OnPublish acknowledges, CompactTopic compacts.
LEMMA DurableLogStep == Durable /\ FreshInv /\ [Next]_vars => [D!Next]_D!state
<1> SUFFICES ASSUME Durable, FreshInv, [Next]_vars PROVE D!Next \/ UNCHANGED D!state
  OBVIOUS
<1>0. /\ TypeOK /\ db \in Database /\ db \in survivors /\ TableOK(db)
      /\ SyncEachCommit => survivors = {db}
  BY DEF FreshInv, AcceptInv, BaseInv, TypeOK
<1>1. ASSUME NEW c \in Clients, Insert(c) PROVE D!Append
  <2> DEFINE new == [id |-> NextRowID(db), msg |-> msg[c]]
  <2>1. /\ pc[c] = "insert" /\ msg[c] \in Messages
        /\ db'.rows = db.rows \cup {new} /\ db'.seq = db.seq + 1 /\ new.id = db.seq + 1
        /\ UNCHANGED <<accepted, compacted>>
    BY <1>0, <1>1 DEF Insert, Commit, InsertRow, NextRowID, TypeOK, history
  <2>2. new \notin db.rows /\ new.id > db.seq
    BY <1>0, <2>1, InsertRowFacts DEF Database
  <2>3. new.msg.pub \notin D!Published(db.rows) \cup compacted
    BY <2>1 DEF FreshInv, Publishes, D!Published
  <2>4. \A f \in db.rows : f.msg.conn = new.msg.conn => f.msg.pub < new.msg.pub
    BY <1>0, <2>1 DEF FreshInv, OrderInv
  <2> QED
    BY <2>1, <2>2, <2>3, <2>4 DEF D!Append
<1>2. ASSUME NEW c \in Clients, CountBytes(c) PROVE D!Acknowledge \/ UNCHANGED D!state
  <2>1. /\ accepted' = accepted \cup {msg[c].pub} /\ db' = db /\ compacted' = compacted
        /\ msg[c].pub \in D!Published(db.rows) \cup compacted
    BY <1>2 DEF CountBytes, disk, FreshInv, AcceptInv, Publishes, D!Published
  <2>2. CASE msg[c].pub \in accepted
    BY <2>1, <2>2 DEF D!state
  <2>3. CASE msg[c].pub \notin accepted
    BY <2>1, <2>3 DEF D!Acknowledge
  <2> QED
    BY <2>2, <2>3
<1>3. ASSUME NEW t \in Topics, NEW before \in 1..(MaxTime + 1), CompactTopic(t, before)
      PROVE  D!Compact
  <2> DEFINE E == Expired(t, before)
  <2>1. /\ db' = [db EXCEPT !.rows = @ \ E] /\ compacted' = compacted \cup Publishes(E)
        /\ UNCHANGED accepted /\ E \subseteq db.rows
    BY <1>3 DEF CompactTopic, Commit, Expired
  <2>2. db'.rows = db.rows \ E /\ db'.seq = db.seq /\ db.rows \ db'.rows = E
    BY <1>0, <2>1 DEF Database
  <2> QED
    BY <2>1, <2>2 DEF D!Compact, D!Published, Publishes
<1>4. CASE PowerLoss
  BY <1>0, <1>4 DEF PowerLoss, history, Durable, D!state
<1>5. CASE UNCHANGED <<db, accepted, compacted>>
  BY <1>5 DEF D!state
<1>6. \/ PowerLoss
      \/ \E c \in Clients : Insert(c) \/ CountBytes(c)
      \/ \E t \in Topics, before \in 1..(MaxTime + 1) : CompactTopic(t, before)
      \/ UNCHANGED <<db, accepted, compacted>>
  BY DEF Next, Handler, Start, StopManager, ForceFlush, Checkpoint, NoteFlushed, ProcessCrash,
     Tick, OnPublish, InsertFails, RecordWrite, CountMessage, history, vars, disk
<1> QED
  BY <1>1, <1>2, <1>3, <1>4, <1>5, <1>6 DEF D!Next

(***************************************************************************)
(* The storage manager implements the abstract log when each commit is     *)
(* synced or the machine itself does not fail, for any number of           *)
(* connections and through any sequence of crashes and restarts.           *)
(***************************************************************************)
THEOREM LogImplementsDurableLog == Durable => (Spec => ImplementsDurableLog)
<1> SUFFICES ASSUME Durable PROVE Spec => D!Spec
  BY DEF ImplementsDurableLog
<1>1. Init => FreshInv
  <2> SUFFICES ASSUME Init PROVE FreshInv
    OBVIOUS
  <2>1. AcceptInv /\ OrderInv
    BY BaseInit, OrderInit DEF Init, AcceptInv, AcceptedStored
  <2> QED
    BY <2>1 DEF Init, FreshInv
<1>2. FreshInv /\ [Next]_vars => FreshInv'
  BY FreshNext
<1>3. FreshInv /\ [Next]_vars => [D!Next]_D!state
  BY DurableLogStep
<1>4. Init => D!Init
  BY DEF Init, D!Init
<1> QED
  BY <1>1, <1>2, <1>3, <1>4, PTL DEF Spec, D!Spec
=============================================================================
