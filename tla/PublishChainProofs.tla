------------------------- MODULE PublishChainProofs -------------------------
(***************************************************************************)
(* Theorems about PublishChain: the chain of hooks is a message log, so    *)
(* what holds of the log holds in the broker; nothing is delivered or      *)
(* acknowledged that was neither stored nor reported as failed; and the    *)
(* counters of the storage and the metrics hook stay within the hooks      *)
(* still running of each other.                                            *)
(***************************************************************************)
EXTENDS PublishChain, MessageLogProofs

-----------------------------------------------------------------------------
(* The composition leaves the message log as it is.                        *)

\* Every step of a connection is a step of its storage hook or leaves the log
\* alone.
LEMMA ConnectionStep ==
    ASSUME NEW c \in Clients, Connection(c)
    PROVE  [Next]_vars
<1>1. CASE StorageRuns(c) \/ StorageReturns(c) \/ StorageFails(c)
  BY <1>1 DEF StorageRuns, StorageReturns, StorageFails, Next, Handler
<1>2. CASE MetricsHook(c) \/ Respond(c) \/ AckFails(c) \/ Deliver(c)
  BY <1>2 DEF MetricsHook, CountPublished, AddPublishedBytes, CountQos, CountTopic,
     AddTopicBytes, Respond, AckFails, Deliver
<1> QED
  BY <1>1, <1>2 DEF Connection

\* Every step of the chain is a step of the message log, or none.
LEMMA ChainStep == [ChainNext]_chainVars => [Next]_vars
<1> SUFFICES ASSUME [ChainNext]_chainVars PROVE [Next]_vars
  OBVIOUS
<1>1. CASE StartBroker \/ EndBroker \/ Maintain
  BY <1>1 DEF StartBroker, EndBroker, Maintain, Next
<1>2. ASSUME NEW c \in Clients, NEW t \in Topics, NEW q \in QoS, ReadPublish(c, t, q)
      PROVE  [Next]_vars
  BY <1>2 DEF ReadPublish, Next
<1>3. CASE UNCHANGED chainVars
  BY <1>3 DEF chainVars
<1> QED
  BY <1>1, <1>2, <1>3, ConnectionStep DEF ChainNext

(***************************************************************************)
(* The broker's chain of hooks implements MessageLog: behind the server,   *)
(* with the metrics hook and the server's steps between its own, OnPublish *)
(* of the storage manager keeps every property proved of the log.          *)
(***************************************************************************)
THEOREM ChainImplementsLog == ChainSpec => Spec
<1>1. ChainInit => Init
  BY DEF ChainInit
<1> QED
  BY <1>1, ChainStep, PTL DEF ChainSpec, Spec

(***************************************************************************)
(* With each commit synced, or no loss of power, the whole broker, hooks,  *)
(* connections, crashes and restarts included, keeps the promise of the    *)
(* durable log: what the storage hook accepted stays until it is compacted.*)
(***************************************************************************)
THEOREM ChainImplementsDurableLog == Durable => (ChainSpec => ImplementsDurableLog)
  BY ChainImplementsLog, LogImplementsDurableLog, PTL

-----------------------------------------------------------------------------
(* Types, and who is in the storage hook.                                  *)

TypeInv == BaseInv /\ ChainTypeOK

\* Every step keeps the types, and a connection's packet at the storage hook
\* exactly while that hook runs.
LEMMA TypeNext == TypeInv /\ [ChainNext]_chainVars => TypeInv'
<1> SUFFICES ASSUME TypeInv, [ChainNext]_chainVars PROVE TypeInv'
  OBVIOUS
<1> USE DEF Advance, At, Steps, ChainSteps, MetricsSteps
<1>0. BaseInv' /\ TypeOK' /\ TypeOK /\ ChainTypeOK
  BY BaseNext, ChainStep DEF TypeInv, BaseInv
<1> SUFFICES ChainTypeOK'
  BY <1>0 DEF TypeInv
<1>1. ASSUME NEW c \in Clients, NEW t \in Topics, NEW q \in QoS, ReadPublish(c, t, q)
      PROVE  ChainTypeOK'
  <2>1. pc' = [pc EXCEPT ![c] = "insert"] /\ chain' = [chain EXCEPT ![c] = "storage"]
    BY <1>1 DEF ReadPublish, OnPublish, Goto
  <2>2. [pub |-> calls + 1, topic |-> t, qos |-> q] \in Packets
    BY <1>0 DEF Packets, TypeOK
  <2> QED
    BY <1>0, <1>1, <2>1, <2>2 DEF ReadPublish, ChainTypeOK, TypeOK, outcomes
<1>2. ASSUME NEW c \in Clients, StorageRuns(c) PROVE ChainTypeOK'
  <2>1. pc[c] # "idle" /\ \E step \in Steps \ {"idle"} : pc' = [pc EXCEPT ![c] = step]
    BY <1>2 DEF StorageRuns, Insert, RecordWrite, CountMessage, Goto
  <2> QED
    BY <1>0, <1>2, <2>1 DEF StorageRuns, ChainTypeOK, TypeOK, counters, outcomes
<1>3. ASSUME NEW c \in Clients, StorageReturns(c) \/ StorageFails(c) PROVE ChainTypeOK'
  <2>1. /\ pc[c] # "idle" /\ pc' = [pc EXCEPT ![c] = "idle"]
        /\ \E step \in {"published", "respond"} : chain' = [chain EXCEPT ![c] = step]
    BY <1>3 DEF StorageReturns, StorageFails, CountBytes, InsertFails, Return, Goto
  <2>2. packet[c].pub \in Nat
    BY <1>0, <2>1 DEF ChainTypeOK, Packets
  <2>3. packet' = packet /\ UNCHANGED <<counters, acknowledged, unanswered, delivered>>
    BY <1>3 DEF StorageReturns, StorageFails, outcomes
  <2>4. failed' \subseteq Nat
    BY <1>0, <1>3, <2>2 DEF StorageReturns, StorageFails, outcomes, ChainTypeOK
  <2> QED
    BY <1>0, <2>1, <2>3, <2>4 DEF ChainTypeOK, TypeOK, counters
<1>4. ASSUME NEW c \in Clients, MetricsHook(c) PROVE ChainTypeOK'
  <2>1. pc' = pc /\ chain[c] \in MetricsSteps
    BY <1>4 DEF MetricsHook, CountPublished, AddPublishedBytes, CountQos, CountTopic,
       AddTopicBytes, vars
  <2>2. packet[c].topic \in Topics /\ packet[c].qos \in 0..2
    BY <1>0, <2>1, ChainAssumption DEF ChainTypeOK, Packets
  <2>3. PayloadSize[packet[c].topic] \in Nat
    BY <2>2, ChainAssumption
  <2>4. /\ packet' = packet /\ UNCHANGED outcomes
        /\ \E step \in ChainSteps \ {"idle", "storage"} : chain' = [chain EXCEPT ![c] = step]
    BY <1>4 DEF MetricsHook, CountPublished, AddPublishedBytes, CountQos, CountTopic,
       AddTopicBytes
  <2>5. /\ received' \in Nat /\ published' \in Nat /\ bytesPublished' \in Nat
        /\ qosTotals' \in [0..2 -> Nat]
        /\ topicCounts' \in [Topics -> Nat] /\ topicBytes' \in [Topics -> Nat]
    <3>1. CASE CountPublished(c) \/ AddPublishedBytes(c)
      BY <1>0, <2>3, <3>1 DEF CountPublished, AddPublishedBytes, ChainTypeOK
    <3>2. CASE CountQos(c)
      BY <1>0, <2>2, <3>2 DEF CountQos, ChainTypeOK
    <3>3. CASE CountTopic(c)
      BY <1>0, <2>2, <3>3 DEF CountTopic, ChainTypeOK
    <3>4. CASE AddTopicBytes(c)
      BY <1>0, <2>2, <2>3, <3>4 DEF AddTopicBytes, ChainTypeOK
    <3> QED
      BY <1>4, <3>1, <3>2, <3>3, <3>4 DEF MetricsHook
  <2> QED
    BY <1>0, <2>1, <2>4, <2>5 DEF ChainTypeOK, outcomes
<1>5. ASSUME NEW c \in Clients, Respond(c) \/ AckFails(c) \/ Deliver(c) PROVE ChainTypeOK'
  <2>1. pc' = pc /\ chain[c] \in {"respond", "deliver"}
    BY <1>5 DEF Respond, AckFails, Deliver, vars
  <2>2. packet[c].pub \in Nat
    BY <1>0, <2>1 DEF ChainTypeOK, Packets
  <2> QED
    BY <1>0, <1>5, <2>1, <2>2 DEF Respond, AckFails, Deliver, ChainTypeOK, TypeOK, counters
<1>6. CASE StartBroker \/ Maintain
  <2>1. pc' = pc
    BY <1>6 DEF StartBroker, Start, Maintain, ForceFlush, CompactTopic
  <2>2. CASE StartBroker
    BY <1>0, <2>1, <2>2 DEF StartBroker, ChainTypeOK, outcomes, NoQoS, NoTopics
  <2>3. CASE Maintain
    BY <1>0, <2>1, <2>3 DEF Maintain, ChainTypeOK, counters, outcomes
  <2> QED
    BY <1>6, <2>2, <2>3
<1>7. CASE EndBroker
  <2>1. pc' = [c \in Clients |-> "idle"]
    BY <1>7 DEF EndBroker, StopManager, ProcessCrash, PowerLoss, LoseProcess
  <2> QED
    BY <1>0, <1>7, <2>1 DEF EndBroker, ChainTypeOK, counters, outcomes
<1>8. CASE UNCHANGED chainVars
  BY <1>0, <1>8 DEF chainVars, vars, counters, outcomes, ChainTypeOK
<1> QED
  BY <1>0, <1>1, <1>2, <1>3, <1>4, <1>5, <1>6, <1>7, <1>8 DEF ChainNext, Connection

\* Nothing is in the chain when the tables are created.
LEMMA TypeInit == ChainInit => TypeInv
<1> SUFFICES ASSUME ChainInit PROVE TypeInv
  OBVIOUS
<1>1. BaseInv /\ TypeOK /\ pc = [c \in Clients |-> "idle"]
  BY BaseInit DEF ChainInit, BaseInv, Init
<1> QED
  BY <1>1 DEF ChainInit, TypeInv, ChainTypeOK, ChainSteps, NoQoS, NoTopics

(***************************************************************************)
(* Every variable of the chain keeps its type, and a connection is at the  *)
(* storage hook in the server exactly while OnPublish of the storage       *)
(* manager runs for it: no hook outlives its packet, none is left behind.  *)
(***************************************************************************)
THEOREM ChainTypeCorrect == ChainSpec => []ChainTypeOK
<1>1. TypeInv => ChainTypeOK
  BY DEF TypeInv
<1> QED
  BY <1>1, TypeInit, TypeNext, PTL DEF ChainSpec

-----------------------------------------------------------------------------
(* What is delivered.                                                      *)

\* What the log will answer for, where commits last: it never forgets.
LEMMA StoredGrows ==
    Durable /\ AcceptInv /\ [Next]_vars =>
        Publishes(db.rows) \cup compacted \subseteq Publishes(db'.rows) \cup compacted'
<1> SUFFICES ASSUME Durable, AcceptInv, [Next]_vars
             PROVE  Publishes(db.rows) \cup compacted
                        \subseteq Publishes(db'.rows) \cup compacted'
  OBVIOUS
<1>0. db \in Database /\ (SyncEachCommit => survivors = {db})
  BY DEF AcceptInv, BaseInv, TypeOK
<1>1. ASSUME NEW c \in Clients, Insert(c)
      PROVE  db.rows \subseteq db'.rows /\ compacted' = compacted
  BY <1>1 DEF Insert, Commit, InsertRow, history
<1>2. ASSUME NEW t \in Topics, NEW before \in 1..(MaxTime + 1), CompactTopic(t, before)
      PROVE  /\ db'.rows = db.rows \ Expired(t, before)
             /\ compacted' = compacted \cup Publishes(Expired(t, before))
  BY <1>0, <1>2 DEF CompactTopic, Commit, Database
<1>3. CASE PowerLoss
  BY <1>0, <1>3 DEF PowerLoss, history, Durable
<1>4. CASE UNCHANGED <<db, compacted>>
  BY <1>4
<1>5. \/ PowerLoss \/ UNCHANGED <<db, compacted>>
      \/ \E c \in Clients : Insert(c)
      \/ \E t \in Topics, before \in 1..(MaxTime + 1) : CompactTopic(t, before)
  BY DEF Next, Handler, Start, StopManager, ForceFlush, Checkpoint, NoteFlushed, ProcessCrash,
     Tick, OnPublish, InsertFails, RecordWrite, CountMessage, CountBytes, history, vars, disk
<1>6. \A R \in {db.rows} : R \subseteq db'.rows => Publishes(R) \subseteq Publishes(db'.rows)
  BY DEF Publishes
<1>7. \A E : db'.rows = db.rows \ E =>
          Publishes(db.rows) \subseteq Publishes(db'.rows) \cup Publishes(E)
  BY DEF Publishes
<1> QED
  BY <1>1, <1>2, <1>3, <1>4, <1>5, <1>6, <1>7

Settled == Publishes(db.rows) \cup compacted \cup failed

\* A packet past the storage hook is settled: its row was committed, or its
\* write failed.  Delivery and acknowledgement come after that hook.
DeliverInv ==
    /\ AcceptInv /\ TypeInv
    /\ \A c \in Clients : chain[c] = "storage" => packet[c].pub = msg[c].pub
    /\ \A c \in Clients : chain[c] \notin {"idle", "storage"} => packet[c].pub \in Settled
    /\ delivered \cup acknowledged \subseteq Settled

\* Every step settles a packet before it lets it past the storage hook.
LEMMA DeliverNext == Durable /\ DeliverInv /\ [ChainNext]_chainVars => DeliverInv'
<1> SUFFICES ASSUME Durable, DeliverInv, [ChainNext]_chainVars PROVE DeliverInv'
  OBVIOUS
<1> USE DEF Advance, At
<1>0. /\ AcceptInv' /\ TypeInv'
      /\ Publishes(db.rows) \cup compacted \subseteq Publishes(db'.rows) \cup compacted'
  BY AcceptNext, StoredGrows, ChainStep, TypeNext DEF DeliverInv
<1>1. /\ chain \in [Clients -> ChainSteps] /\ DOMAIN packet = Clients
      /\ DOMAIN msg = Clients /\ TypeOK
      /\ \A c \in Clients : pc[c] # "idle" <=> chain[c] = "storage"
  BY DEF DeliverInv, TypeInv, ChainTypeOK, TypeOK
<1>2. failed \subseteq failed' => Settled \subseteq Settled'
  BY <1>0 DEF Settled
<1>3. ASSUME NEW c \in Clients, NEW t \in Topics, NEW q \in QoS, ReadPublish(c, t, q)
      PROVE  DeliverInv'
  <2>1. Settled \subseteq Settled' /\ UNCHANGED <<delivered, acknowledged>>
    BY <1>2, <1>3 DEF ReadPublish, outcomes
  <2>2. \A d \in Clients : chain'[d] = "storage" => packet'[d].pub = msg'[d].pub
    BY <1>1, <1>3 DEF ReadPublish, OnPublish, DeliverInv
  <2>3. \A d \in Clients : chain'[d] \notin {"idle", "storage"} =>
            packet'[d] = packet[d] /\ chain'[d] = chain[d]
    BY <1>1, <1>3 DEF ReadPublish
  <2> QED
    BY <1>0, <2>1, <2>2, <2>3 DEF DeliverInv
<1>4. ASSUME NEW c \in Clients, StorageRuns(c) PROVE DeliverInv'
  <2>1. Settled \subseteq Settled' /\ UNCHANGED <<chain, packet, delivered, acknowledged>>
    BY <1>2, <1>4 DEF StorageRuns, outcomes
  <2>2. msg' = msg
    BY <1>4 DEF StorageRuns, Insert, RecordWrite, CountMessage
  <2> QED
    BY <1>0, <2>1, <2>2 DEF DeliverInv
<1>5. ASSUME NEW c \in Clients, StorageReturns(c) \/ StorageFails(c) PROVE DeliverInv'
  <2>1. failed \subseteq failed' /\ UNCHANGED <<packet, delivered, acknowledged>>
    BY <1>5 DEF StorageReturns, StorageFails, outcomes
  <2>2. pc[c] # "idle" /\ msg' = [msg EXCEPT ![c] = NoMsg]
    BY <1>5 DEF StorageReturns, StorageFails, CountBytes, InsertFails, Return
  <2>3. packet[c].pub = msg[c].pub
    BY <1>1, <2>2 DEF DeliverInv
  <2>4. packet[c].pub \in Settled'
    <3>1. CASE StorageReturns(c)
      BY <1>0, <2>3, <3>1 DEF StorageReturns, CountBytes, Settled, DeliverInv, AcceptInv
    <3>2. CASE StorageFails(c)
      BY <3>2 DEF StorageFails, Settled
    <3> QED
      BY <1>5, <3>1, <3>2
  <2>5. \E step \in {"published", "respond"} : chain' = [chain EXCEPT ![c] = step]
    BY <1>5 DEF StorageReturns, StorageFails
  <2> QED
    BY <1>0, <1>1, <1>2, <2>1, <2>2, <2>4, <2>5 DEF DeliverInv
<1>6. ASSUME NEW c \in Clients, MetricsHook(c) PROVE DeliverInv'
  <2>1. Settled \subseteq Settled' /\ UNCHANGED <<packet, msg, delivered, acknowledged>>
    BY <1>2, <1>6 DEF MetricsHook, CountPublished, AddPublishedBytes, CountQos, CountTopic,
       AddTopicBytes, outcomes, vars
  <2>2. /\ chain[c] \notin {"idle", "storage"}
        /\ \E step \in ChainSteps \ {"idle", "storage"} : chain' = [chain EXCEPT ![c] = step]
    BY <1>6 DEF MetricsHook, CountPublished, AddPublishedBytes, CountQos, CountTopic,
       AddTopicBytes, ChainSteps, MetricsSteps
  <2> QED
    BY <1>0, <1>1, <2>1, <2>2 DEF DeliverInv
<1>7. ASSUME NEW c \in Clients, Respond(c) \/ AckFails(c) \/ Deliver(c) PROVE DeliverInv'
  <2>1. Settled \subseteq Settled' /\ UNCHANGED msg
    BY <1>2, <1>7 DEF Respond, AckFails, Deliver, vars
  <2>2. packet[c].pub \in Settled
    BY <1>7 DEF Respond, AckFails, Deliver, DeliverInv
  <2>3. delivered' \cup acknowledged' \subseteq delivered \cup acknowledged \cup {packet[c].pub}
    BY <1>7 DEF Respond, AckFails, Deliver
  <2>4. \A d \in Clients : d # c => chain'[d] = chain[d] /\ packet'[d] = packet[d]
    BY <1>1, <1>7 DEF Respond, AckFails, Deliver
  <2>5. \/ chain'[c] = "deliver" /\ packet'[c] = packet[c]
        \/ chain'[c] = "idle"
    BY <1>1, <1>7 DEF Respond, AckFails, Deliver
  <2> QED
    BY <1>0, <2>1, <2>2, <2>3, <2>4, <2>5 DEF DeliverInv
<1>8. CASE StartBroker \/ Maintain \/ UNCHANGED chainVars
  <2>1. Settled \subseteq Settled' /\ UNCHANGED <<chain, packet, delivered, acknowledged>>
    BY <1>2, <1>8 DEF StartBroker, Maintain, chainVars, outcomes
  <2>2. msg' = msg
    BY <1>8 DEF StartBroker, Start, Maintain, ForceFlush, CompactTopic, chainVars, vars
  <2> QED
    BY <1>0, <2>1, <2>2 DEF DeliverInv
<1>9. CASE EndBroker
  <2>1. Settled \subseteq Settled' /\ UNCHANGED <<delivered, acknowledged>>
    BY <1>2, <1>9 DEF EndBroker, outcomes
  <2> QED
    BY <1>0, <1>9, <2>1 DEF EndBroker, DeliverInv
<1> QED
  BY <1>3, <1>4, <1>5, <1>6, <1>7, <1>8, <1>9 DEF ChainNext, Connection

(***************************************************************************)
(* Where commits last, whatever a subscriber received and whatever a       *)
(* publisher was told of was committed to the table first, or its write    *)
(* failed and OnPublish said so, through any interleaving of connections,  *)
(* crashes, restarts and compaction.                                       *)
(***************************************************************************)
THEOREM ChainDeliveredAccounted == Durable => (ChainSpec => []DeliveredAccounted)
<1> SUFFICES ASSUME Durable PROVE ChainSpec => []DeliveredAccounted
  OBVIOUS
<1>1. ChainInit => DeliverInv
  BY TypeInit, BaseInit DEF ChainInit, Init, DeliverInv, AcceptInv, AcceptedStored, Settled
<1>2. DeliverInv => DeliveredAccounted
  BY DEF DeliverInv, Settled, DeliveredAccounted
<1> QED
  BY <1>1, <1>2, DeliverNext, PTL DEF ChainSpec

-----------------------------------------------------------------------------
(* The counters of the metrics hook.                                       *)

\* Connections are counted in finite sets, one at a time.
LEMMA ClientCount ==
    ASSUME NEW S \in SUBSET Clients, NEW c \in Clients
    PROVE  /\ IsFiniteSet(S) /\ Cardinality(S) \in Nat
           /\ c \notin S => Cardinality(S \cup {c}) = Cardinality(S) + 1
           /\ c \in S => Cardinality(S \ {c}) = Cardinality(S) - 1
<1>1. IsFiniteSet(S)
  BY LogAssumption, FS_Subset DEF LogAssumption
<1> QED
  BY <1>1, FS_CardinalityType, FS_AddElement, FS_RemoveElement

\* No process, no packet in the chain.
IdleChain == ~up => \A c \in Clients : chain[c] = "idle"

\* The chain is empty whenever no process runs.
LEMMA IdleNext == TypeInv /\ IdleChain /\ [ChainNext]_chainVars => IdleChain'
<1> SUFFICES ASSUME TypeInv, IdleChain, [ChainNext]_chainVars PROVE IdleChain'
  OBVIOUS
<1> USE DEF Advance, At
<1>0. /\ chain \in [Clients -> ChainSteps] /\ up \in BOOLEAN
      /\ \A c \in Clients : pc[c] # "idle" <=> chain[c] = "storage"
  BY DEF TypeInv, ChainTypeOK, TypeOK
<1>1. CASE \E c \in Clients, t \in Topics, q \in QoS : ReadPublish(c, t, q)
  BY <1>1 DEF ReadPublish, OnPublish, IdleChain
<1>2. ASSUME NEW c \in Clients, StorageRuns(c) \/ StorageReturns(c) \/ StorageFails(c)
      PROVE  IdleChain'
  <2>1. pc[c] # "idle" /\ up' = up
    BY <1>2 DEF StorageRuns, StorageReturns, StorageFails, Insert, RecordWrite, CountMessage,
       CountBytes, InsertFails
  <2> QED
    BY <1>0, <2>1 DEF IdleChain
<1>3. CASE \E c \in Clients : MetricsHook(c) \/ Respond(c) \/ AckFails(c) \/ Deliver(c)
  BY <1>3 DEF MetricsHook, CountPublished, AddPublishedBytes, CountQos, CountTopic,
     AddTopicBytes, Respond, AckFails, Deliver, vars, IdleChain
<1>4. CASE StartBroker \/ EndBroker
  BY <1>4 DEF StartBroker, Start, EndBroker, IdleChain
<1>5. CASE Maintain \/ UNCHANGED chainVars
  BY <1>5 DEF Maintain, ForceFlush, CompactTopic, chainVars, vars, IdleChain
<1> QED
  BY <1>1, <1>2, <1>3, <1>4, <1>5 DEF ChainNext, Connection

\* messages_published_total and the writes move together.
CollectInv == TypeInv /\ IdleChain /\ PublishedAreStored

\* Every step that records a write takes a connection into Uncollected, and only
\* the metrics hook's count takes it out.
LEMMA CollectNext == CollectInv /\ [ChainNext]_chainVars => CollectInv'
<1> SUFFICES ASSUME CollectInv, [ChainNext]_chainVars PROVE PublishedAreStored'
  BY TypeNext, IdleNext DEF CollectInv
<1> USE DEF Advance, At
<1>0. /\ chain \in [Clients -> ChainSteps] /\ pc \in [Clients -> Steps]
      /\ published \in Nat /\ writeOps \in [{"success", "error"} -> Nat]
      /\ \A c \in Clients : pc[c] # "idle" <=> chain[c] = "storage"
      /\ IdleChain /\ PublishedAreStored
  BY DEF CollectInv, TypeInv, ChainTypeOK, TypeOK
<1>1. Uncollected \in SUBSET Clients
  BY DEF Uncollected
<1>2. ASSUME up' = up, published' = published, writeOps'["success"] = writeOps["success"],
             Uncollected' = Uncollected
      PROVE  PublishedAreStored'
  BY <1>0, <1>2 DEF PublishedAreStored
<1>3. ASSUME NEW c \in Clients, NEW t \in Topics, NEW q \in QoS, ReadPublish(c, t, q)
      PROVE  PublishedAreStored'
  <2>1. /\ pc' = [pc EXCEPT ![c] = "insert"] /\ chain' = [chain EXCEPT ![c] = "storage"]
        /\ pc[c] = "idle" /\ chain[c] = "idle"
        /\ UNCHANGED <<up, writeOps, published>>
    BY <1>3 DEF ReadPublish, OnPublish, Goto
  <2>2. Uncollected' = Uncollected
    BY <1>0, <2>1 DEF Uncollected
  <2> QED
    BY <1>2, <2>1, <2>2
<1>4. ASSUME NEW c \in Clients, RecordWrite(c), UNCHANGED <<chain, counters>>
      PROVE  PublishedAreStored'
  <2>1. /\ pc[c] = "record" /\ pc' = [pc EXCEPT ![c] = "count"]
        /\ writeOps'["success"] = writeOps["success"] + 1
        /\ UNCHANGED <<up, published>>
    BY <1>0, <1>4 DEF RecordWrite, RecordSQLiteWrite, Goto, counters
  <2>2. Uncollected' = Uncollected \cup {c} /\ c \notin Uncollected
    BY <1>0, <1>4, <2>1 DEF Uncollected
  <2>3. Cardinality(Uncollected') = Cardinality(Uncollected) + 1
    BY <1>1, <2>2, ClientCount
  <2>4. Cardinality(Uncollected) \in Nat
    BY <1>1, ClientCount
  <2> QED
    BY <1>0, <2>1, <2>3, <2>4 DEF PublishedAreStored
<1>5. ASSUME NEW c \in Clients, Insert(c) \/ CountMessage(c), UNCHANGED <<chain, counters>>
      PROVE  PublishedAreStored'
  <2>1. Uncollected' = Uncollected
    BY <1>0, <1>5 DEF Insert, CountMessage, Goto, Uncollected
  <2> QED
    BY <1>2, <1>5, <2>1 DEF Insert, CountMessage, memory, counters
<1>6. ASSUME NEW c \in Clients, StorageReturns(c) PROVE PublishedAreStored'
  <2>1. Uncollected' = Uncollected
    BY <1>0, <1>6 DEF StorageReturns, CountBytes, Return, Goto, Uncollected
  <2> QED
    BY <1>2, <1>6, <2>1 DEF StorageReturns, CountBytes, counters
<1>7. ASSUME NEW c \in Clients, StorageFails(c) PROVE PublishedAreStored'
  <2>1. Uncollected' = Uncollected
    BY <1>0, <1>7 DEF StorageFails, InsertFails, Return, Goto, Uncollected
  <2>2. writeOps'["success"] = writeOps["success"]
    BY <1>0, <1>7 DEF StorageFails, InsertFails, RecordSQLiteWrite
  <2> QED
    BY <1>2, <1>7, <2>1, <2>2 DEF StorageFails, InsertFails, counters
<1>8. ASSUME NEW c \in Clients, CountPublished(c) PROVE PublishedAreStored'
  <2>1. Uncollected' = Uncollected \ {c} /\ c \in Uncollected
    BY <1>0, <1>8 DEF CountPublished, vars, Uncollected
  <2>2. Cardinality(Uncollected') = Cardinality(Uncollected) - 1
    BY <1>1, <2>1, ClientCount
  <2>3. Cardinality(Uncollected) \in Nat
    BY <1>1, ClientCount
  <2>4. published' = published + 1 /\ UNCHANGED <<up, writeOps>>
    BY <1>8 DEF CountPublished, vars, memory
  <2> QED
    BY <1>0, <2>2, <2>3, <2>4 DEF PublishedAreStored
<1>9. ASSUME NEW c \in Clients,
             \/ AddPublishedBytes(c) \/ CountQos(c) \/ CountTopic(c) \/ AddTopicBytes(c)
             \/ Respond(c) \/ AckFails(c) \/ Deliver(c)
      PROVE  PublishedAreStored'
  <2>1. /\ UNCHANGED <<vars, published>> /\ chain[c] # "published"
        /\ \E step \in ChainSteps \ {"published"} : chain' = [chain EXCEPT ![c] = step]
    BY <1>9 DEF AddPublishedBytes, CountQos, CountTopic, AddTopicBytes, Respond, AckFails,
       Deliver, counters, ChainSteps, MetricsSteps
  <2>2. Uncollected' = Uncollected
    BY <1>0, <2>1 DEF vars, Uncollected
  <2> QED
    BY <1>2, <2>1, <2>2 DEF vars, memory
<1>10. CASE StartBroker
  <2>1. up' /\ published' = 0 /\ writeOps'["success"] = 0 /\ UNCHANGED <<pc, chain>> /\ ~up
    BY <1>10 DEF StartBroker, Start
  <2>2. Uncollected' = {}
    BY <1>0, <2>1 DEF Uncollected, IdleChain
  <2> QED
    BY <2>1, <2>2, FS_EmptySet DEF PublishedAreStored
<1>11. CASE EndBroker
  BY <1>11 DEF EndBroker, StopManager, ProcessCrash, PowerLoss, LoseProcess,
     PublishedAreStored
<1>12. CASE Maintain \/ UNCHANGED chainVars
  <2>1. UNCHANGED <<up, pc, chain, published, writeOps>>
    BY <1>12 DEF Maintain, ForceFlush, CompactTopic, memory, counters, chainVars, vars
  <2> QED
    BY <1>2, <2>1 DEF Uncollected
<1> QED
  BY <1>3, <1>4, <1>5, <1>6, <1>7, <1>8, <1>9, <1>10, <1>11, <1>12
     DEF ChainNext, Connection, StorageRuns, MetricsHook

(***************************************************************************)
(* The hooks run in the order setupHooks adds them and stop at the first   *)
(* error, so messages_published_total counts exactly the publishes the     *)
(* storage manager wrote since the start, give or take the hooks in        *)
(* flight, for any number of connections.                                  *)
(***************************************************************************)
THEOREM ChainPublishedAreStored == ChainSpec => []PublishedAreStored
<1>1. ChainInit => CollectInv
  BY TypeInit DEF ChainInit, Init, CollectInv, IdleChain, PublishedAreStored
<1>2. CollectInv => PublishedAreStored
  BY DEF CollectInv
<1> QED
  BY <1>1, <1>2, CollectNext, PTL DEF ChainSpec

\* Packets read since the start that messages_published_total may still count.
Countable == {c \in Clients : chain[c] \in {"storage", "published"}}

\* Between the count of a publish and its QoS class.
Classless == {c \in Clients : chain[c] \in {"bytes", "qos"}}

\* Between the count of a publish on a topic and its bytes.
Byteless(t) == {c \in Clients : chain[c] = "topicBytes" /\ packet[c].topic = t}

\* PublishCountersAgree, conjunct by conjunct; the last one leaves room for the
\* packets that are read and not counted.
Classes  == published = qosTotals[0] + qosTotals[1] + qosTotals[2] + Cardinality(Classless)
Bytes(t) == topicBytes[t] = PayloadSize[t] * (topicCounts[t] - Cardinality(Byteless(t)))
Reads    == published + Cardinality(Countable) <= received

Agree == up => Classes /\ Reads /\ \A t \in Topics : Bytes(t)

AgreeInv == TypeInv /\ IdleChain /\ Agree

\* A packet changes its place in the chain; it begins and ends away from the
\* topic counters.
Moves(c, from, to) ==
    /\ chain[c] = from /\ chain' = [chain EXCEPT ![c] = to] /\ up' = up
    /\ \A d \in Clients : d # c \/ "topicBytes" \in {from, to} => packet'[d] = packet[d]

\* What the movement of one packet does to the three sets of packets in flight.
LEMMA MoveCounts ==
    ASSUME TypeInv, NEW c \in Clients, NEW from, NEW to, Moves(c, from, to)
    PROVE  /\ LET n(s) == IF s \in {"bytes", "qos"} THEN 1 ELSE 0
              IN  Cardinality(Classless') = Cardinality(Classless) - n(from) + n(to)
           /\ LET n(s) == IF s \in {"storage", "published"} THEN 1 ELSE 0
              IN  Cardinality(Countable') = Cardinality(Countable) - n(from) + n(to)
           /\ \A t \in Topics :
                LET n(s) == IF s = "topicBytes" /\ packet[c].topic = t THEN 1 ELSE 0
                IN  Cardinality(Byteless(t)') = Cardinality(Byteless(t)) - n(from) + n(to)
<1>0. DOMAIN chain = Clients
  BY DEF TypeInv, ChainTypeOK
<1>1. ASSUME NEW S \in SUBSET Clients, NEW T, NEW old \in BOOLEAN, NEW new \in BOOLEAN,
             c \in S <=> old, c \in T <=> new, T \ {c} = S \ {c}
      PROVE  Cardinality(T) = Cardinality(S) - (IF old THEN 1 ELSE 0) + (IF new THEN 1 ELSE 0)
  <2>1. Cardinality(S) \in Nat
    BY ClientCount
  <2>2. CASE old /\ new
    <3>1. T = S
      BY <1>1, <2>2
    <3> QED
      BY <2>1, <2>2, <3>1
  <2>3. CASE ~old /\ ~new
    <3>1. T = S
      BY <1>1, <2>3
    <3> QED
      BY <2>1, <2>3, <3>1
  <2>4. CASE old /\ ~new
    <3>1. T = S \ {c} /\ c \in S
      BY <1>1, <2>4
    <3> QED
      BY <2>1, <2>4, <3>1, ClientCount
  <2>5. CASE ~old /\ new
    <3>1. T = S \cup {c} /\ c \notin S
      BY <1>1, <2>5
    <3> QED
      BY <2>1, <2>5, <3>1, ClientCount
  <2> QED
    BY <2>2, <2>3, <2>4, <2>5
<1>2. LET n(s) == IF s \in {"bytes", "qos"} THEN 1 ELSE 0
      IN  Cardinality(Classless') = Cardinality(Classless) - n(from) + n(to)
  <2>1. /\ Classless \in SUBSET Clients /\ Classless' \ {c} = Classless \ {c}
        /\ c \in Classless <=> (from \in {"bytes", "qos"})
        /\ c \in Classless' <=> (to \in {"bytes", "qos"})
    BY <1>0 DEF Classless, Moves
  <2> QED
    BY <1>1, <2>1
<1>3. LET n(s) == IF s \in {"storage", "published"} THEN 1 ELSE 0
      IN  Cardinality(Countable') = Cardinality(Countable) - n(from) + n(to)
  <2>1. /\ Countable \in SUBSET Clients /\ Countable' \ {c} = Countable \ {c}
        /\ c \in Countable <=> (from \in {"storage", "published"})
        /\ c \in Countable' <=> (to \in {"storage", "published"})
    BY <1>0 DEF Countable, Moves
  <2> QED
    BY <1>1, <2>1
<1>4. ASSUME NEW t \in Topics
      PROVE  LET n(s) == IF s = "topicBytes" /\ packet[c].topic = t THEN 1 ELSE 0
             IN  Cardinality(Byteless(t)') = Cardinality(Byteless(t)) - n(from) + n(to)
  <2>1. /\ Byteless(t) \in SUBSET Clients /\ Byteless(t)' \ {c} = Byteless(t) \ {c}
        /\ c \in Byteless(t) <=> (from = "topicBytes" /\ packet[c].topic = t)
        /\ c \in Byteless(t)' <=> (to = "topicBytes" /\ packet[c].topic = t)
    BY <1>0 DEF Byteless, Moves
  <2> QED
    BY <1>1, <2>1
<1> QED
  BY <1>2, <1>3, <1>4

\* Every step moves the counters and the packets in flight together.
LEMMA AgreeNext == AgreeInv /\ [ChainNext]_chainVars => AgreeInv'
<1> SUFFICES ASSUME AgreeInv, [ChainNext]_chainVars
             PROVE  Agree'
  BY TypeNext, IdleNext DEF AgreeInv
<1> USE DEF Advance, At, Agree
<1>0. /\ TypeInv /\ IdleChain /\ Agree
      /\ chain \in [Clients -> ChainSteps] /\ DOMAIN packet = Clients
      /\ \A c \in Clients : chain[c] # "idle" => packet[c] \in Packets
      /\ \A c \in Clients : pc[c] # "idle" <=> chain[c] = "storage"
      /\ received \in Nat /\ published \in Nat /\ qosTotals \in [0..2 -> Nat]
      /\ topicCounts \in [Topics -> Nat] /\ topicBytes \in [Topics -> Nat]
  BY DEF AgreeInv, TypeInv, ChainTypeOK
<1>1. /\ Cardinality(Classless) \in Nat /\ Cardinality(Countable) \in Nat
      /\ \A t \in Topics : Cardinality(Byteless(t)) \in Nat
  <2>1. /\ Classless \in SUBSET Clients /\ Countable \in SUBSET Clients
        /\ \A t \in Topics : Byteless(t) \in SUBSET Clients
    BY DEF Classless, Countable, Byteless
  <2>2. \A S \in SUBSET Clients : Cardinality(S) \in Nat
    BY LogAssumption, FS_Subset, FS_CardinalityType DEF LogAssumption
  <2> QED
    BY <2>1, <2>2
<1>2. ASSUME NEW c \in Clients, NEW t \in Topics, NEW q \in QoS, ReadPublish(c, t, q)
      PROVE  Agree'
  <2>1. Moves(c, "idle", "storage") /\ received' = received + 1
    BY <1>0, <1>2 DEF ReadPublish, OnPublish, Moves
  <2>2. /\ Cardinality(Classless') = Cardinality(Classless)
        /\ Cardinality(Countable') = Cardinality(Countable) + 1
        /\ \A u \in Topics : Cardinality(Byteless(u)') = Cardinality(Byteless(u))
    BY <1>0, <1>1, <2>1, MoveCounts
  <2>3. UNCHANGED <<up, published, qosTotals, topicCounts, topicBytes>>
    BY <1>2 DEF ReadPublish, OnPublish
  <2> QED
    BY <1>0, <1>1, <2>1, <2>2, <2>3 DEF Classes, Reads, Bytes
<1>3. ASSUME NEW c \in Clients, StorageRuns(c)
      PROVE  Agree'
  <2>1. UNCHANGED <<up, chain, packet, counters>>
    BY <1>3 DEF StorageRuns, Insert, RecordWrite, CountMessage
  <2> QED
    BY <1>0, <2>1 DEF counters, Classless, Countable, Byteless, Classes, Reads, Bytes
<1>4. ASSUME NEW c \in Clients,
             \/ StorageReturns(c) \/ StorageFails(c) \/ AddPublishedBytes(c)
             \/ Respond(c) \/ AckFails(c) \/ Deliver(c)
      PROVE  Agree'
  <2>1. UNCHANGED <<up, received, published, qosTotals, topicCounts, topicBytes>>
    BY <1>4 DEF StorageReturns, StorageFails, CountBytes, InsertFails, AddPublishedBytes,
       Respond, AckFails, Deliver, counters, vars
  <2>2. \/ Moves(c, "storage", "published") \/ Moves(c, "storage", "respond")
        \/ Moves(c, "bytes", "qos") \/ Moves(c, "respond", "deliver")
        \/ Moves(c, "respond", "idle") \/ Moves(c, "deliver", "idle")
    <3>1. CASE StorageReturns(c) \/ StorageFails(c)
      BY <1>0, <3>1, <2>1 DEF StorageReturns, StorageFails, CountBytes, InsertFails, Moves
    <3>2. CASE AddPublishedBytes(c) \/ Respond(c) \/ AckFails(c) \/ Deliver(c)
      BY <1>0, <3>2, <2>1 DEF AddPublishedBytes, Respond, AckFails, Deliver, Moves
    <3> QED
      BY <1>4, <3>1, <3>2
  <2>3. /\ Cardinality(Classless') = Cardinality(Classless)
        /\ Cardinality(Countable') <= Cardinality(Countable) /\ Cardinality(Countable') \in Int
        /\ \A u \in Topics : Cardinality(Byteless(u)') = Cardinality(Byteless(u))
    <3>1. CASE Moves(c, "storage", "published")
      BY <1>0, <1>1, <3>1, MoveCounts
    <3>2. CASE Moves(c, "storage", "respond")
      BY <1>0, <1>1, <3>2, MoveCounts
    <3>3. CASE Moves(c, "bytes", "qos")
      BY <1>0, <1>1, <3>3, MoveCounts
    <3>4. CASE Moves(c, "respond", "deliver")
      BY <1>0, <1>1, <3>4, MoveCounts
    <3>5. CASE Moves(c, "respond", "idle") \/ Moves(c, "deliver", "idle")
      BY <1>0, <1>1, <3>5, MoveCounts
    <3> QED
      BY <2>2, <3>1, <3>2, <3>3, <3>4, <3>5
  <2> QED
    BY <1>0, <1>1, <2>1, <2>3 DEF Classes, Reads, Bytes
<1>5. ASSUME NEW c \in Clients, CountPublished(c)
      PROVE  Agree'
  <2>1. Moves(c, "published", "bytes") /\ published' = published + 1
    BY <1>5 DEF CountPublished, Moves, vars
  <2>2. /\ Cardinality(Classless') = Cardinality(Classless) + 1
        /\ Cardinality(Countable') = Cardinality(Countable) - 1
        /\ \A u \in Topics : Cardinality(Byteless(u)') = Cardinality(Byteless(u))
    BY <1>0, <1>1, <2>1, MoveCounts
  <2>3. UNCHANGED <<up, received, qosTotals, topicCounts, topicBytes>>
    BY <1>5 DEF CountPublished, vars
  <2> QED
    BY <1>0, <1>1, <2>1, <2>2, <2>3 DEF Classes, Reads, Bytes
<1>6. ASSUME NEW c \in Clients, CountQos(c)
      PROVE  Agree'
  <2>1. Moves(c, "qos", "topic")
    BY <1>6 DEF CountQos, Moves, vars
  <2>2. /\ Cardinality(Classless') = Cardinality(Classless) - 1
        /\ Cardinality(Countable') = Cardinality(Countable)
        /\ \A u \in Topics : Cardinality(Byteless(u)') = Cardinality(Byteless(u))
    BY <1>0, <1>1, <2>1, MoveCounts
  <2>3. UNCHANGED <<up, received, published, topicCounts, topicBytes>>
    BY <1>6 DEF CountQos, vars
  <2>4. packet[c].qos \in 0..2
    BY <1>0, <2>1, ChainAssumption DEF Moves, Packets
  <2>5. qosTotals'[0] + qosTotals'[1] + qosTotals'[2] =
            qosTotals[0] + qosTotals[1] + qosTotals[2] + 1
    BY <1>0, <1>6, <2>4 DEF CountQos
  <2>6. qosTotals'[0] + qosTotals'[1] + qosTotals'[2] \in Nat
    BY <1>0, <2>5
  <2> QED
    BY <1>0, <1>1, <2>2, <2>3, <2>5, <2>6 DEF Classes, Reads, Bytes
<1>7. ASSUME NEW c \in Clients, CountTopic(c)
      PROVE  Agree'
  <2> DEFINE t == packet[c].topic
  <2>1. UNCHANGED <<up, received, published, qosTotals, topicBytes>>
    BY <1>7 DEF CountTopic, vars
  <2>2. t \in Topics
    BY <1>0, <1>7 DEF CountTopic, Packets
  <2>3. CASE Tracked(t)
    <3>1. /\ Moves(c, "topic", "topicBytes")
          /\ \A u \in Topics : topicCounts'[u] = topicCounts[u] + (IF u = t THEN 1 ELSE 0)
      BY <1>0, <1>7, <2>3 DEF CountTopic, Moves, vars
    <3>2. /\ Cardinality(Classless') = Cardinality(Classless)
          /\ Cardinality(Countable') = Cardinality(Countable)
          /\ \A u \in Topics :
                Cardinality(Byteless(u)') = Cardinality(Byteless(u)) + (IF u = t THEN 1 ELSE 0)
      BY <1>0, <1>1, <3>1, MoveCounts
    <3>3. \A u \in Topics : topicCounts'[u] - Cardinality(Byteless(u)') =
                            topicCounts[u] - Cardinality(Byteless(u))
      BY <1>0, <1>1, <3>1, <3>2
    <3> QED
      BY <1>0, <1>1, <2>1, <3>2, <3>3 DEF Classes, Reads, Bytes
  <2>4. CASE ~Tracked(t)
    <3>1. Moves(c, "topic", "respond") /\ topicCounts' = topicCounts
      BY <1>7, <2>4 DEF CountTopic, Moves, vars
    <3>2. /\ Cardinality(Classless') = Cardinality(Classless)
          /\ Cardinality(Countable') = Cardinality(Countable)
          /\ \A u \in Topics : Cardinality(Byteless(u)') = Cardinality(Byteless(u))
      BY <1>0, <1>1, <3>1, MoveCounts
    <3> QED
      BY <1>0, <1>1, <2>1, <3>1, <3>2 DEF Classes, Reads, Bytes
  <2> QED
    BY <2>3, <2>4
<1>8. ASSUME NEW c \in Clients, AddTopicBytes(c)
      PROVE  Agree'
  <2>1. UNCHANGED <<up, received, published, qosTotals, topicCounts>>
    BY <1>8 DEF AddTopicBytes, vars
  <2>2. PICK t \in Topics : t = packet[c].topic /\ PayloadSize[t] \in Nat
    BY <1>0, <1>8, ChainAssumption DEF AddTopicBytes, Packets
  <2>3. Moves(c, "topicBytes", "respond")
    BY <1>8 DEF AddTopicBytes, Moves, vars
  <2>4. /\ Cardinality(Classless') = Cardinality(Classless)
        /\ Cardinality(Countable') = Cardinality(Countable)
        /\ Cardinality(Byteless(t)') = Cardinality(Byteless(t)) - 1
        /\ \A u \in Topics \ {t} : Cardinality(Byteless(u)') = Cardinality(Byteless(u))
    BY <1>0, <1>1, <2>2, <2>3, MoveCounts
  <2>5. ASSUME up PROVE Bytes(t)'
    <3>1. \A p \in Nat, n \in Int : p * (n + 1) = p * n + p
      OBVIOUS
    <3>2. topicCounts'[t] - Cardinality(Byteless(t)') =
              (topicCounts[t] - Cardinality(Byteless(t))) + 1
      BY <1>0, <1>1, <2>1, <2>2, <2>4
    <3>3. topicCounts[t] - Cardinality(Byteless(t)) \in Int
      BY <1>0, <1>1, <2>2
    <3>4. topicBytes'[t] = topicBytes[t] + PayloadSize[t]
      BY <1>0, <1>8, <2>2 DEF AddTopicBytes
    <3>5. topicBytes[t] = PayloadSize[t] * (topicCounts[t] - Cardinality(Byteless(t)))
      BY <1>0, <2>2, <2>5 DEF Bytes
    <3>6. Bytes(t)' <=>
              topicBytes'[t] = PayloadSize[t] * (topicCounts'[t] - Cardinality(Byteless(t)'))
      BY <2>1 DEF Bytes
    <3> QED
      BY <2>2, <3>1, <3>2, <3>3, <3>4, <3>5, <3>6
  <2>6. \A u \in Topics \ {t} : up => Bytes(u)'
    BY <1>0, <1>1, <1>8, <2>1, <2>2, <2>4 DEF AddTopicBytes, Bytes
  <2> QED
    BY <1>0, <1>1, <2>1, <2>4, <2>5, <2>6 DEF Classes, Reads
<1>9. CASE StartBroker
  <2>1. /\ ~up /\ up' /\ UNCHANGED <<chain, packet>>
        /\ received' = 0 /\ published' = 0 /\ qosTotals' = NoQoS
        /\ topicCounts' = NoTopics /\ topicBytes' = NoTopics
    BY <1>9 DEF StartBroker, Start
  <2>2. Classless' = {} /\ Countable' = {} /\ \A t \in Topics : Byteless(t)' = {}
    BY <1>0, <2>1 DEF IdleChain, Classless, Countable, Byteless
  <2>3. Cardinality({}) = 0
    BY FS_EmptySet
  <2>4. Classes' /\ Reads'
    BY <2>1, <2>2, <2>3 DEF Classes, Reads, NoQoS
  <2>5. \A t \in Topics : Bytes(t)'
    <3>1. \A t \in Topics : PayloadSize[t] * (0 - 0) = 0
      BY ChainAssumption
    <3> QED
      BY <2>1, <2>2, <2>3, <3>1 DEF Bytes, NoTopics
  <2> QED
    BY <2>4, <2>5
<1>10. CASE EndBroker
  BY <1>10 DEF EndBroker, StopManager, ProcessCrash, PowerLoss, LoseProcess
<1>11. CASE Maintain \/ UNCHANGED chainVars
  <2>1. UNCHANGED <<up, chain, packet, counters>>
    BY <1>11 DEF Maintain, ForceFlush, CompactTopic, chainVars, vars
  <2> QED
    BY <1>0, <2>1 DEF counters, Classless, Countable, Byteless, Classes, Reads, Bytes
<1> QED
  BY <1>2, <1>3, <1>4, <1>5, <1>6, <1>7, <1>8, <1>9, <1>10, <1>11
     DEF ChainNext, Connection, MetricsHook

(***************************************************************************)
(* Seen at any moment by a scrape, through any interleaving of connections *)
(* and any restarts: every counted publish is in one QoS class or about to *)
(* be, a topic's bytes are those of its messages, and nothing is counted   *)
(* that was not read.                                                      *)
(***************************************************************************)
THEOREM ChainPublishCountersAgree == ChainSpec => []PublishCountersAgree
<1>1. ChainInit => AgreeInv
  BY TypeInit DEF ChainInit, Init, AgreeInv, IdleChain, Agree
<1>2. AgreeInv => PublishCountersAgree
  <2> SUFFICES ASSUME AgreeInv, up PROVE PublishCountersAgree
    BY DEF PublishCountersAgree
  <2>1. Classes /\ Reads /\ \A t \in Topics : Bytes(t)
    BY DEF AgreeInv, Agree
  <2>2. published \in Nat /\ received \in Nat
    BY DEF AgreeInv, TypeInv, ChainTypeOK
  <2>3. Countable \in SUBSET Clients
    BY DEF Countable
  <2>4. Cardinality(Countable) \in Nat
    BY <2>3, LogAssumption, FS_Subset, FS_CardinalityType DEF LogAssumption
  <2>5. published <= received
    BY <2>1, <2>2, <2>4 DEF Reads
  <2> QED
    BY <2>1, <2>5 DEF PublishCountersAgree, InMetrics, Classes, Classless, Bytes, Byteless
<1> QED
  BY <1>1, <1>2, AgreeNext, PTL DEF ChainSpec
=============================================================================
