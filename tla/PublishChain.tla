---------------------------- MODULE PublishChain ----------------------------
(***************************************************************************)
(* A PUBLISH from the socket to the subscribers: the hooks of broker.go's  *)
(* setupHooks (AllowHook, the storage manager, the metrics server) in the  *)
(* order they were added, around the steps of the MQTT server.  The        *)
(* storage hook is MessageLog, whose actions this module uses as they are; *)
(* the metrics hook's OnPublish is cut at each counter it increments.      *)
(*                                                                         *)
(* External: the server (mochi-mqtt).  It asks each hook Provides before a *)
(* call, ends the chain at the first error, and drops the packet only for  *)
(* ErrRejectPacket: after any other error, the storage manager's too, it   *)
(* acknowledges a QoS 1 or 2 packet and delivers it.  When the             *)
(* acknowledgement cannot be written, because the publisher is gone, it    *)
(* returns there and delivers nothing.                                     *)
(***************************************************************************)
EXTENDS MessageLog

CONSTANTS
    QoS,            \* the QoS levels of publishes, within 0..2
    Untracked,      \* topics with a wildcard, or of 100 bytes and more
    PayloadSize     \* len(pk.Payload) of a publish on a topic

ASSUME ChainAssumption == QoS \subseteq 0..2 /\ PayloadSize \in [Topics -> Nat]

VARIABLES
    chain,          \* where each connection's processing of a PUBLISH is
    packet,         \* its pk
    \* the metrics of internal/metrics
    received, published, bytesPublished, qosTotals, topicCounts, topicBytes,
    \* history
    failed,         \* publishes whose storage hook returned an error
    acknowledged,   \* publishes answered with PUBACK or PUBREC
    unanswered,     \* publishes whose PUBACK or PUBREC could not be written
    delivered       \* publishes handed to the subscribers

counters  == <<received, published, bytesPublished, qosTotals, topicCounts, topicBytes>>
outcomes  == <<failed, acknowledged, unanswered, delivered>>
chainVars == <<vars, chain, packet, counters, outcomes>>

-----------------------------------------------------------------------------
MetricsSteps == {"published", "bytes", "qos", "topic", "topicBytes"}
ChainSteps   == {"idle", "storage", "respond", "deliver"} \cup MetricsSteps

Packets  == [pub : Nat, topic : Topics, qos : QoS]
NoPacket == [pub |-> 0]

ChainTypeOK ==
    /\ TypeOK
    /\ chain \in [Clients -> ChainSteps]
    /\ DOMAIN packet = Clients
    /\ \A c \in Clients : chain[c] # "idle" => packet[c] \in Packets
    /\ \A c \in Clients : pc[c] # "idle" <=> chain[c] = "storage"
    /\ received \in Nat /\ published \in Nat /\ bytesPublished \in Nat
    /\ qosTotals \in [0..2 -> Nat]
    /\ topicCounts \in [Topics -> Nat] /\ topicBytes \in [Topics -> Nat]
    /\ failed \subseteq Nat /\ acknowledged \subseteq Nat
    /\ unanswered \subseteq Nat /\ delivered \subseteq Nat

NoQoS    == [q \in 0..2 |-> 0]
NoTopics == [t \in Topics |-> 0]

\* initMetrics: every counter at zero.
ChainInit ==
    /\ Init
    /\ received = 0 /\ published = 0 /\ bytesPublished = 0
    /\ qosTotals = NoQoS /\ topicCounts = NoTopics /\ topicBytes = NoTopics
    /\ chain = [c \in Clients |-> "idle"]
    /\ packet = [c \in Clients |-> NoPacket]
    /\ failed = {} /\ acknowledged = {} /\ unanswered = {} /\ delivered = {}

Advance(c, step) == chain' = [chain EXCEPT ![c] = step]

At(c, step) == up /\ chain[c] = step

-----------------------------------------------------------------------------
(* The storage hook.                                                       *)

\* Mutant: persistMessage is left to a goroutine and OnPublish returns at once.
ReadPublishAsync(c, t, q) ==
    /\ At(c, "idle")
    /\ OnPublish(c, t)
    /\ received' = received + 1
    /\ packet' = [packet EXCEPT ![c] = [pub |-> calls + 1, topic |-> t, qos |-> q]]
    /\ Advance(c, "published")
    /\ UNCHANGED <<published, bytesPublished, qosTotals, topicCounts, topicBytes, outcomes>>

\* OnPacketRead counts the packet, and the chain of OnPublish begins with the
\* storage manager: AllowHook does not provide it.
ReadPublish(c, t, q) ==
    /\ At(c, "idle")
    /\ OnPublish(c, t)
    /\ received' = received + 1
    /\ packet' = [packet EXCEPT ![c] = [pub |-> calls + 1, topic |-> t, qos |-> q]]
    /\ Advance(c, "storage")
    /\ UNCHANGED <<published, bytesPublished, qosTotals, topicCounts, topicBytes, outcomes>>

\* Mutant: persistMessage counts in the background once the row is committed.
CountInBackground(c) ==
    /\ Insert(c) \/ RecordWrite(c) \/ CountMessage(c)
    /\ Advance(c, IF pc[c] = "insert" THEN "published" ELSE chain[c])
    /\ UNCHANGED <<packet, counters, outcomes>>

StorageRuns(c) ==
    /\ Insert(c) \/ RecordWrite(c) \/ CountMessage(c)
    /\ UNCHANGED <<chain, packet, counters, outcomes>>

\* The storage hook returns nil; the metrics hook provides everything.
StorageReturns(c) ==
    /\ CountBytes(c)
    /\ Advance(c, "published")
    /\ UNCHANGED <<packet, counters, outcomes>>

\* Mutant: the error of the INSERT is only logged, so the next hook runs.
StorageErrorLogged(c) ==
    /\ InsertFails(c)
    /\ failed' = failed \cup {packet[c].pub}
    /\ Advance(c, "published")
    /\ UNCHANGED <<packet, counters, acknowledged, unanswered, delivered>>

\* The storage hook returns an error of its own: the metrics hook is not asked,
\* and the server goes on with the packet.
StorageFails(c) ==
    /\ InsertFails(c)
    /\ failed' = failed \cup {packet[c].pub}
    /\ Advance(c, "respond")
    /\ UNCHANGED <<packet, counters, acknowledged, unanswered, delivered>>

-----------------------------------------------------------------------------
(* The metrics hook.                                                       *)

Tracked(t) == t \notin Untracked

CountPublished(c) ==
    /\ At(c, "published")
    /\ published' = published + 1
    /\ Advance(c, "bytes")
    /\ UNCHANGED <<vars, packet, received, bytesPublished, qosTotals, topicCounts,
                   topicBytes, outcomes>>

AddPublishedBytes(c) ==
    /\ At(c, "bytes")
    /\ bytesPublished' = bytesPublished + PayloadSize[packet[c].topic]
    /\ Advance(c, "qos")
    /\ UNCHANGED <<vars, packet, received, published, qosTotals, topicCounts,
                   topicBytes, outcomes>>

\* Mutant: the switch has no case for QoS 2.
CountQosUpToOne(c) ==
    /\ At(c, "qos")
    /\ qosTotals' = IF packet[c].qos = 2 THEN qosTotals
                    ELSE [qosTotals EXCEPT ![packet[c].qos] = @ + 1]
    /\ Advance(c, "topic")
    /\ UNCHANGED <<vars, packet, received, published, bytesPublished, topicCounts,
                   topicBytes, outcomes>>

CountQos(c) ==
    /\ At(c, "qos")
    /\ qosTotals' = [qosTotals EXCEPT ![packet[c].qos] = @ + 1]
    /\ Advance(c, "topic")
    /\ UNCHANGED <<vars, packet, received, published, bytesPublished, topicCounts,
                   topicBytes, outcomes>>

\* Mutant: a topic that is not tracked is answered with ErrRejectPacket.
RejectUntracked(c) ==
    /\ At(c, "topic")
    /\ IF Tracked(packet[c].topic)
       THEN /\ topicCounts' = [topicCounts EXCEPT ![packet[c].topic] = @ + 1]
            /\ Advance(c, "topicBytes") /\ UNCHANGED packet
       ELSE /\ Advance(c, "idle") /\ packet' = [packet EXCEPT ![c] = NoPacket]
            /\ UNCHANGED topicCounts
    /\ UNCHANGED <<vars, received, published, bytesPublished, qosTotals, topicBytes,
                   outcomes>>

CountTopic(c) ==
    /\ At(c, "topic")
    /\ IF Tracked(packet[c].topic)
       THEN /\ topicCounts' = [topicCounts EXCEPT ![packet[c].topic] = @ + 1]
            /\ Advance(c, "topicBytes")
       ELSE Advance(c, "respond") /\ UNCHANGED topicCounts
    /\ UNCHANGED <<vars, packet, received, published, bytesPublished, qosTotals,
                   topicBytes, outcomes>>

AddTopicBytes(c) ==
    /\ At(c, "topicBytes")
    /\ topicBytes' = [topicBytes EXCEPT ![packet[c].topic] =
                         @ + PayloadSize[packet[c].topic]]
    /\ Advance(c, "respond")
    /\ UNCHANGED <<vars, packet, received, published, bytesPublished, qosTotals,
                   topicCounts, outcomes>>

MetricsHook(c) ==
    \/ CountPublished(c) \/ AddPublishedBytes(c) \/ CountQos(c)
    \/ CountTopic(c) \/ AddTopicBytes(c)

-----------------------------------------------------------------------------
(* The server.                                                             *)

\* PUBACK or PUBREC, before the subscribers get the message.
Respond(c) ==
    /\ At(c, "respond")
    /\ acknowledged' = IF packet[c].qos > 0 THEN acknowledged \cup {packet[c].pub}
                       ELSE acknowledged
    /\ Advance(c, "deliver")
    /\ UNCHANGED <<vars, packet, counters, failed, unanswered, delivered>>

\* The publisher is gone: WritePacket fails, and processPublish returns its
\* error before the subscribers are looked up.
AckFails(c) ==
    /\ At(c, "respond") /\ packet[c].qos > 0
    /\ unanswered' = unanswered \cup {packet[c].pub}
    /\ Advance(c, "idle") /\ packet' = [packet EXCEPT ![c] = NoPacket]
    /\ UNCHANGED <<vars, counters, failed, acknowledged, delivered>>

\* publishToSubscribers; both hooks' OnPublished leave everything as it is.
Deliver(c) ==
    /\ At(c, "deliver")
    /\ delivered' = delivered \cup {packet[c].pub}
    /\ Advance(c, "idle") /\ packet' = [packet EXCEPT ![c] = NoPacket]
    /\ UNCHANGED <<vars, counters, failed, acknowledged, unanswered>>

Connection(c) ==
    \/ StorageRuns(c) \/ StorageReturns(c) \/ StorageFails(c)
    \/ MetricsHook(c) \/ Respond(c) \/ AckFails(c) \/ Deliver(c)

\* A new process has a new registry.
StartBroker ==
    /\ Start
    /\ received' = 0 /\ published' = 0 /\ bytesPublished' = 0
    /\ qosTotals' = NoQoS /\ topicCounts' = NoTopics /\ topicBytes' = NoTopics
    /\ UNCHANGED <<chain, packet, outcomes>>

\* Stop or a failure takes the packets in flight along.
EndBroker ==
    /\ StopManager \/ ProcessCrash \/ PowerLoss
    /\ chain' = [c \in Clients |-> "idle"]
    /\ packet' = [c \in Clients |-> NoPacket]
    /\ UNCHANGED <<counters, outcomes>>

\* The clock stands still here: the cutoff of CompactTopic is any time.
Maintain ==
    /\ \/ ForceFlush
       \/ \E t \in Topics, before \in 1..(MaxTime + 1) : CompactTopic(t, before)
    /\ UNCHANGED <<chain, packet, counters, outcomes>>

ChainNext ==
    \/ StartBroker \/ EndBroker \/ Maintain
    \/ \E c \in Clients : \E t \in Topics, q \in QoS : ReadPublish(c, t, q)
    \/ \E c \in Clients : Connection(c)

ChainSpec == ChainInit /\ [][ChainNext]_chainVars

\* The goroutine of a connection runs while the process lives.
FairChain == ChainSpec /\ \A c \in Clients : WF_chainVars(Connection(c))

-----------------------------------------------------------------------------
(* Properties.                                                             *)

\* Writes recorded since the start that the metrics hook has not counted yet.
Uncollected ==
    {c \in Clients : pc[c] \in {"count", "bytes"} \/ chain[c] = "published"}

\* messages_published_total counts exactly the writes the storage hook recorded
\* since the start, give or take the hooks in flight: publishes whose INSERT
\* failed are not counted though they are delivered, because the storage hook
\* comes first and its error ends the chain.
PublishedAreStored ==
    up => published + Cardinality(Uncollected) = writeOps["success"]

\* Whatever a subscriber or an acknowledged publisher knows of was committed to
\* the table first, or its write failed and was reported as an error.
DeliveredAccounted ==
    delivered \cup acknowledged \subseteq Publishes(db.rows) \cup compacted \cup failed

InMetrics(steps) == Cardinality({c \in Clients : chain[c] \in steps})

\* The publish counters tell one story, seen at any moment by a scrape: each
\* message is in one QoS class, a topic's bytes are its messages' bytes, and no
\* publish is counted before its packet was read.
PublishCountersAgree ==
    up =>
    /\ published = qosTotals[0] + qosTotals[1] + qosTotals[2] + InMetrics({"bytes", "qos"})
    /\ \A t \in Topics :
          topicBytes[t] = PayloadSize[t] *
              (topicCounts[t] - Cardinality({c \in Clients : chain[c] = "topicBytes"
                                                             /\ packet[c].topic = t}))
    /\ published <= received

\* A publish that was read is delivered, stored or not, counted per topic or not,
\* unless the process ends or its publisher is gone before it is answered.
ReadDelivered ==
    \A n \in 1..MaxPublishes :
        (\E c \in Clients : packet[c].pub = n) ~> n \in delivered \cup unanswered \/ ~up

\* A publisher is answered only for messages that are in the table.
AcknowledgedStored == acknowledged \subseteq Publishes(db.rows) \cup compacted
=============================================================================
