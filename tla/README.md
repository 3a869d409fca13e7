# PromptMQ: a verification project

TLA+ models of the PromptMQ broker (Go), checked with TLC on small instances,
with theorems checked by TLAPS for every value of the constants.
`PROJECT.json` lists components, runs, mutants, the map from definitions to
source lines, findings, hazards and theorems. This file explains them.

## 1. The system

PromptMQ wraps the mochi-mqtt server library with SQLite persistence and
Prometheus metrics. One process, many goroutines: the main one, one per client
connection (which runs all hooks of that connection), the server's event loop,
`metricsLoop` of the storage manager, the metrics HTTP server and its
collector, and the goroutine waiting for a signal.

| Component | State | Operations | Interacts with |
|---|---|---|---|
| Message log (`internal/storage/storage.go`) | table `messages`; `messageID`, `totalMessages`, `totalBytes` | `OnPublish`/`persistMessage`, `CompactTopic`, `ForceFlush`, `GetMessagesByTopic`, `GetStats`, recovery in `Start`, `StopManager` | called by the server from every connection's goroutine; reports writes to the metrics server |
| Retained store (`storage.go`, `hooks.go`) | table `retained_messages`; shares `messageID` | `OnRetainMessage`, `OnRetainPublished`, `persistRetainedToDB`, `deleteRetainedFromDB`, `StoredRetainedMessages` | a copy of the server's in-memory tree, which is changed first |
| Broker lifecycle (`internal/broker`, `cmd/server`) | which parts are up; contexts; the signal channel | `New`, `Start`, `Stop`, `runServer`, `runDaemon` | starts and stops everything, in an order that matters |
| Metrics hook (`internal/metrics/hooks.go`) | gauges, counters, the map `connectionStartTimes` | `OnConnect`, `OnDisconnect`, `OnClientExpired`, `OnSubscribe`, `OnUnsubscribe`, `OnPublish`, `OnPacketRead`, ... | called by the server from every goroutine, without a lock |
| Metrics server (`internal/metrics/metrics.go`) | registry, HTTP server, collector of system metrics | `Start`, `StopServer`, `collectSystemMetrics`, `Record*` | called by the storage manager and the broker |
| Cluster (`internal/cluster`) | none | `Start` and `Stop` log | a stub |
| Configuration (`internal/config`, `cmd`) | the settings | `initConfig`, `Load`, `setDefaults`, `validate` | read once at start; decides about TLS, daemon mode, metrics, durability |

What is hard to test here: hooks of different connections interleaving at their
shared accesses; crashes between a commit and the counter beside it; power
failures under `synchronous=NORMAL`; the order of two stores (tree and table)
changed one after the other without a lock; a checkpoint that does not finish;
signals during start-up; who still uses the database while `Stop` closes it;
sessions that expire after their connection was counted out, and connections
given up after they were counted in; a write or an answer that fails half-way
through the chain of hooks, with the server carrying on; a setting that passes
through flags, file, defaults and tags without arriving. `PROJECT.json` lists each
at its line under `hazards`.

What makes each component correct:

* Message log: what was accepted is stored, what was flushed is on disk; one
  connection's messages stay in order; `messageID` and the statistics agree with
  the table.
* Retained store: the table is what a restart needs, that is, the tree.
* Lifecycle: the database is closed after its users, an exit releases what the
  start took, signals lead to exits, a start that fails has served nobody.
* Configuration: settings that must be refused never open the database, good ones
  are not refused, and what the file says takes effect.
* A publish across the hooks: what a publisher or a subscriber is told of was
  stored, and the counters tell one story.
* Metrics hook: counters and gauges mean what their help texts say, and the hook
  does not take the broker down.

## 2. The modules

| Module | Models | Proofs |
|---|---|---|
| `MessageLog` | the message log | `MessageLogProofs` |
| `DurableLog` | what the log promises, abstractly | refinement in `MessageLogProofs` |
| `PublishChain` | a publish through the storage and the metrics hook; extends `MessageLog` | `PublishChainProofs` |
| `RetainedStore` | the retained store against the server's tree | `RetainedStoreProofs` |
| `ConfigLoad` | flags, file, defaults, validation, as operators | lemmas in `BrokerLifecycleProofs` |
| `BrokerLifecycle` | start-up, shutdown, signals; extends `ConfigLoad` | `BrokerLifecycleProofs` |
| `MetricsHooks` | connections and subscriptions in the metrics hook | `MetricsHooksProofs` |
| `MC...` | an instance of each for TLC | |

Definitions marked *Mutant* in the modules are plausible bugs. No action uses
them; each is put in place of the definition after it to show that a property
would notice.

### MessageLog

`db` is what a query sees: rows with their ids, and AUTOINCREMENT's high-water
mark. `survivors` are the databases a power failure could leave. A commit adds
to it under NORMAL and replaces it under FULL and EXTRA; a checkpoint reduces it
to the current one. A call of `OnPublish` is five steps, one for each shared
access: `OnPublish` (take a message id), `Insert` or `InsertFails`, `RecordWrite`
(the metric), `CountMessage`, `CountBytes` (which returns, and makes the publish
*accepted*). A message carries the connection that published it, which is what
the server orders. The column `client_id` is not the same: during a takeover two
connections have one client id, and the rows of the two may interleave in any
order; nothing is claimed of those. `Start` is a process start, with
the statistics query succeeding or failing (the code logs the failure and keeps
the zeroes). A start whose second query (the count of retained messages) fails
changes nothing and is not a step. `ProcessCrash` and `PowerLoss` may happen
between any two steps. `ForceFlush` is as the code has it: it runs
`wal_checkpoint(FULL)` through `Exec`, so a checkpoint that a reader held up
(`BusyReaders`) is reported as a success. `flushed` is what its caller may think
is on disk, `checkpointed` what SQLite itself has confirmed. The journal mode is WAL, the default;
`synchronous=OFF` is left out because it gives durability up.

### DurableLog

The specification a publisher would sign: `Append` an entry with a fresh id, of a
publish never stored before and newer than its connection's others; `Acknowledge` a
publish that was stored; `Compact`. No hook, no database, no crash. `MessageLog`
maps to it by `log <- db.rows`, `last <- db.seq`, `acked <- accepted`,
`removed <- compacted` (`ImplementsDurableLog`): a crash, a restart and recovery
are stuttering steps, which is what durability means. Under NORMAL with power
failures the mapping fails, as it should: a commit taken back is no step of the
abstract log. The refinement is claimed where `Durable` holds.

### PublishChain

The composition of the storage hook (`MessageLog`'s actions, used as they are) and
the metrics hook's `OnPublish` in the order of `setupHooks`, with the server around
them: read and count the packet, storage, metrics, acknowledge (QoS 1 and 2),
deliver. `chain[c]` is where a connection's packet is; while it is at "storage",
`pc[c]` of `MessageLog` says where inside. An error of the storage hook skips the
metrics hook, and the server goes on to acknowledge and deliver: it drops a packet
for `ErrRejectPacket` only. An acknowledgement that cannot be written (`AckFails`,
the publisher is gone) ends the handling of the packet before the subscribers are
looked up: the publish is stored and counted, and delivered to nobody
(`unanswered`). The clock stands still here (compaction's cutoff is
any time) and only PUBLISH packets are read.

### RetainedStore

`tree` is the server's, `table` SQLite's. `PublishRetained` is the server's
part of a publish with the retain flag: `Manager.OnPublish` runs, the tree
changes, and the hook is called. `SendRetained` is a retained message sent to a
subscriber, after which the server calls `OnRetainPublished`, whose body stores
the message again. A hook then takes one step to choose store or delete (and to
take a message id), one for its statement, and one for the read-back of a
store. `StatementFails` is the error both helpers return and both hooks drop.
`ExpireRetained` removes from the tree only: `Provides` does not list
`OnRetainedExpired`. Statements are durable here; power failures are
`MessageLog`'s subject. History variables record which call had returned before
which began (`order`), which statements ran (`applied`), whose row it is
(`writer`) and which topics are `dirty`.

### ConfigLoad

`Unmarshal(src)` is the `Config` that results from the flags given and the
configuration file, field by field with the key in the field's tag. Three facts
of the code decide what arrives. `BindPFlags` binds each flag under its own name,
so `--daemon` or `--tls` set keys no field has. The flags `metrics` and `cluster`
have the names of sections: viper then takes the section as one value, so a file
that has the section hides all its defaults (`Section`), and giving the flag makes
decoding fail (`Decodes`). And the tags of `MetricsConfig` and `ClusterConfig` are
the flags' names, not the keys that `setDefaults` and the README use. A number is
cut to its field's width: `max-qos` is a `uint8`. `Valid` is `validate`. That a
file that cannot be read is ignored is `initConfig`: it is an input without a file.

### BrokerLifecycle

`main` is where the main goroutine is; its actions follow `Load`, `New`, `Start`,
`Stop` and `StopManager` line by line. Each other goroutine has actions of its own,
possible while the process is alive. `Signal` follows `signal.Notify`: the
channel holds one signal and drops more; with no handler installed (before
`Notify`, and for ever in daemon mode) the signal kills the process. `Serve`
reads the stored messages, starts the server's event loop and then accepts; its
error goes to the log only. The event loop may retain a delayed will of a
disconnected client (`DelayedWill`), which runs `OnRetainMessage`; it ends when it
notices `Close` (`EventsExit`). `Return` is apart from `CloseDB` because these two
goroutines may run in between: nobody waits for them.
`EnterHook` stands for any hook that queries the database, and is possible after
`Close` too, for packets already read. `MetricsStart` panics when the configured
path is empty or `/health`, as `http.ServeMux` does. The collector of system
metrics ends with the context of `Start`; nobody waits for it.

### MetricsHooks

The counters are atomic and every increment is a step. The map is a plain Go map:
a write has a beginning and an end, and an access in between by another
goroutine is a data race, after which the process may be aborted (`dead`) and
writes may be lost. `OnDisconnect` and `OnClientExpired` have the same body, the
actions of `Teardown`, run by a connection or by the event loop. Two
connections may carry one client id (a takeover). After `OnConnect` the server
hands the session over and answers (`Attach`); if CONNACK or an inflight message
cannot be sent it gives the connection up (`AttachFails`), and `OnDisconnect` is
never called: the gauge keeps the connection and the map its start time. `OnSubscribe` and
`OnUnsubscribe` move the subscriber gauge of each filter of the packet before the
server changes its topic tree (`subs`), which it may refuse to do; a session that
ends takes its subscriptions along and the gauge stays where it was. `strays`
counts the decrements that removed no subscription (refused, or from nothing),
`surplus` the increments that have none to show for (refused, repeated, or
dropped with the session).

### External behaviour

mochi-mqtt, SQLite, the Go runtime and the operating system are not in the
repository. They are modelled from how the code uses them, and marked
`external` in the map: hooks of a connection run one at a time in its goroutine;
the tree is changed before `OnRetainMessage`; a hook's error ends the chain of
`OnPublish` and only `ErrRejectPacket` drops the packet; a failed write of an
acknowledgement, a CONNACK or an inflight message ends the packet or the connection
on the spot; a SUBSCRIBE or UNSUBSCRIBE is refused after its hook has run;
`OnClientExpired` is called for a session whose connection is gone; `Close` waits
for the connections and not for the event loop; a statement
is atomic; NORMAL in WAL mode does not sync commits.

## 3. The runs

Passing:

* `log_normal` (two connections, one topic, three publishes, two times, the default
  NORMAL, crashes, power failures, held-up checkpoints): `TypeOK`,
  `CheckpointedDurable`, `NextIDFresh`, `OrderPreserved`, `LossTakesNewest`,
  `CountersAgree`. Commits may be taken back, the newest only and those of a
  complete checkpoint not. 1.5M states. Three publishes by two connections are what
  it takes for one's two messages to interleave with the other's; two times are
  what compaction needs to delete some rows and keep others.
* `retained_main` (two connections, each publisher and subscriber, two topics,
  two payloads, three hook calls, failures, expiry, restarts): `TypeOK`,
  `AgreesWhenUndisturbed`, `NeverSuperseded`. 1.7M states. Three calls let two
  race and a third repair.
* `chain_main` (two connections, a tracked and an untracked topic, QoS 0 and 2, two
  publishes, FULL, failing writes and answers, compaction, stops, crashes, power
  failures): `ChainTypeOK`, `PublishedAreStored`,
  `DeliveredAccounted`, `PublishCountersAgree`, of the log inside the chain
  `AcceptedStored`, `QueryKeepsNewest` and the refinement `ImplementsDurableLog`, and
  the liveness property `ReadDelivered`. 230k states. Two publishes overlap in every
  pair of steps of the two hooks; a third adds no new pair.
* `lifecycle_main` (two clients, two signals, failures; no file, and files that are
  good, partial, at or past an edge of `validate`, in daemon mode, with TLS and
  no or an empty key, with a `max-qos` that is refused and one that wraps, and with
  the metrics keys the fields are tagged with, with a path,
  without one and with `/health`; the flags `daemon` and `metrics`): `TypeOK`,
  `NoUseAfterClose`, `ExitReleases`, `FailedStartServedNobody`,
  `SettingsChecked`, `GracefulShutdown`, and the
  liveness property `SignalShutsDown`. 13k states; two signals fill the channel
  and find it full.
* `hooks_main` (two connections, two client ids, two connects, one of which may be
  given up, two requests on a tracked and an untracked filter): `TypeOK`,
  `GaugeAccounted`, `NoStartTimeLeak`, `SubscribersAccounted`. 1.6M states. Two
  connects let a client be taken over, or come back after it was given up or while
  its session expires; two requests let it subscribe twice, or subscribe and
  unsubscribe, in one connection or in two. Deadlock is not checked: an aborted process, and a broker
  whose clients have gone, stop.

Violations, each a disagreement between the code and a statement of the
repository, quoted in `findings`:

* `log_flush`: a message in the table when `ForceFlush` reported success is lost by a
  power failure, because a reader had held the checkpoint up.
* `chain_acked`: a publisher is told that its QoS 2 message was taken, though the
  INSERT failed and the message is stored nowhere.
* `retained_race`: two publishers of a topic leave tree and table different.
* `retained_replay`: a deleted retained message is stored again by a
  subscriber's hook, and comes back after a restart.
* `lifecycle_announce`: a broker whose `Serve` failed has announced its success
  and waits for ever. Checked under `FairSpec`.
* `hooks_race`: `connectionStartTimes` is used by two goroutines at once.
* `hooks_gauge`: after a client has disconnected and its session expired,
  `connections_current` is -1, against its help text. (With `MaxFailures` above 0 the
  shortest trace is the other one: a connection given up after `OnConnect` is
  counted for ever.)

Connections and payloads are symmetric where a run says so: no action
distinguishes them, and no run with symmetry checks liveness.

**Fairness** (`BrokerLifecycle!FairSpec`): weak fairness for the main goroutine,
`Serve`, the signal goroutine, a running query and a hook in progress, because
the Go scheduler runs every goroutine that can run. Strong fairness for
`LoopExit`: when the ticker and the context are both ready, `select` picks at
random, so the exit cannot lose for ever. Strong fairness for the end of a
connection that `Close` has dropped: only finitely many packets were read
before. `PublishChain!FairChain` has weak fairness for each connection's goroutine
while it handles a packet. Nothing is assumed of clients, of signals, of crashes
or of failing writes.

## 4. The proofs

Every theorem holds for any set of clients and topics and any bounds; the
assumptions are the named `ASSUME`s of the modules.

* `LogTypeCorrect`. `BaseInv` adds to the types that the tables are finite, that
  no id is above the high-water mark, and that the current database is among
  the survivors. That makes `MAX(id)` exist, so the recovered counters are
  numbers.
* `LogAcceptedStored`, under `Durable` (each commit synced, or no power
  failure). Not inductive alone: a hook past its INSERT is about to be accepted,
  so `AcceptInv` says its row is in the table already, and that a synced database
  is its only survivor.
* `LogCheckpointDurable`, under every setting: `KeptIn` says of a set of publishes
  that every survivor still has them or they were compacted, and `KeptNext` that no
  step takes them away once it holds; a complete checkpoint makes it hold.
* `LogFlushDurable`, under `FlushCompletes` (no reader holds a checkpoint up, or
  each commit is synced): `log_flush` shows that the condition is needed.
* `LogNextIDFresh`, under every setting. Not inductive alone: `NextIDInv` counts the
  hooks that have taken an id and not inserted yet. The high-water mark plus these is
  at most `messageID`, and without a compaction the high-water mark is `MAX(id)`, so
  recovery starts from it, also after a rolled-back log.
* `LogOrderPreserved`: `OrderInv` adds that a connection's publish in flight is newer
  than all its rows, in every survivor, and that every publish number is at most
  the number of calls.
* `LogQueryKeepsNewest`: from the order; a newer row has fewer rows above it.
* `LogCountersAgree`: counting rows, deletions and hooks between INSERT and
  increment together, by the cardinality theorems.
* `LogLossTakesNewest`, under every setting of `synchronous`. Not inductive alone:
  `LossInv` compares each survivor's high-water mark with the ids it lacks, since a
  survivor may have no row left to compare with.
* `LogImplementsDurableLog`, under `Durable`: `Spec => D!Spec`. `DurableLogStep`
  takes each action to `Append`, `Acknowledge`, `Compact` or a stutter. An insert
  is an `Append` because of the order (its connection's newest), of the high-water mark
  (a fresh id) and of `FreshInv`: a publish in flight before its INSERT is in no
  row and was never compacted, and no two connections carry one publish.
* `ChainImplementsLog`: `ChainSpec => Spec`. Each step of the chain is a step of
  `MessageLog` or leaves it alone, so every theorem above holds in the composition;
  `ChainImplementsDurableLog` says so of the refinement, under `Durable`.
* `ChainTypeCorrect`, and `ChainDeliveredAccounted` under `Durable`: `DeliverInv`
  says that a packet past the storage hook is settled, that is, stored (or compacted
  since) or failed; it needs `AcceptInv`, for a hook that has inserted and not
  returned, and that the packet in the server is the message in the hook.
* `ChainPublishedAreStored`: `CollectInv` adds to the types that no packet is in the
  chain while the process is down (`IdleChain`), so a start finds both counters at
  zero and nobody between them. Each step moves one connection in or out of
  `Uncollected`, which the cardinality theorems turn into plus or minus one.
* `ChainPublishCountersAgree`: `Classes` and `Bytes` of a topic are inductive with the
  types; `published <= received` is not, because a packet that was read is about to
  be counted. `Reads` adds the packets not counted yet to the left side. The lemma
  `MoveCounts` says once what a move along the chain does to each of the sets.
* `RetainedTypeCorrect`.
* `RetainedAgrees`: `AgreeInv` says that on an undisturbed topic at most one hook
  is pending, it carries the tree's payload, and with none pending the table
  has it.
* `RetainedNeverSuperseded`: `OrderInv` says that only calls that have returned
  precede others and that a hook in flight has not returned, so a statement
  cannot make an older, returned call the writer.
* `RetainedOneConnection`, under `Undisturbed` (one connection, no failing statement,
  no expiry): tree and table agree and a deleted message stays deleted, through
  crashes and restarts too. It marks off what `retained_race` and `retained_replay`
  show: it takes a second connection, a failure or an expiry. `SequentialInv` adds to `AgreeInv` that no
  topic is ever marked `dirty` and that only non-empty payloads are written.
* `LifecycleTypeCorrect`, `LifecycleNoUseAfterClose`, `LifecycleExitReleases`: one
  inductive invariant, `StopOrder`, that reads off `main` what must have
  happened: clients exist only while the server is open or draining, a closed
  server stays closed, `metricsLoop` is over before the database is closed. About
  `Serve` and the event loop it says only that they have been told to end.
* `LifecycleFailedStart`: from the same invariant; nothing accepts before `Serve`
  runs, and no step after `GoServe` fails the start.
* `LifecycleGracefulShutdown`: `SignalInv` says that from `Notify` on there is a
  watcher unless the `Config` says daemon, and `DaemonFromFile` that only the file
  can make it say so.
* `LifecycleSettingsChecked`, for every file with any of the sections and keys, and
  every set of flags. `FieldFromFile` says what a field is decoded from: the file's
  value, else the default, else the zero value, with the sections that a flag of the
  same name hides. From it `LoadsOnlyGood` (what `Load` accepts is acceptable,
  `max-qos` apart, which wraps) and `GoodLoads` (what is acceptable is accepted, unless
  the flag `metrics` or `cluster` is given). `SettingsInv` ties the state to them: the
  `Config` is what `Load` made of the sources, and nothing is opened before.
* `HooksTypeCorrect`, `HooksGaugeAccounted`, `HooksNoStartTimeLeak`,
  `HooksSubscribersAccounted`: each is inductive together with the types. The
  work is in the sets they count: every step of a connection moves one element
  between them, and the end of a session turns its subscriptions into `surplus`.

Model-checked only: `SignalShutsDown` and `ReadDelivered`, because liveness under
fairness is beyond the prover. Every invariant of a passing run, and the refinement,
is a theorem. The properties of the violation runs are false of the code as it is.

## 5. Not modelled

The cluster stub (no state); settings nothing reads; environment variables of
nested keys (no key replacer is set, so they match nothing); the logger; the
registry and exposition of metrics; histograms, each an observation nothing reads;
`bytes_received_total`; the values of the system collector; test support. The MQTT
protocol itself (QoS flows, inflight messages, subscription matching) is the
library's.

Disagreements seen while modelling that no run shows:

* With the default NORMAL a power failure takes accepted publishes back
  (`AcceptedStored` fails in `MCMessageLog` with NORMAL and power cuts), against
  "Zero data loss with automatic WAL recovery" of the docs. `Durable` is the
  hypothesis of the theorems for this reason.
* In daemon mode no signal handler is installed, so a signal kills the process with
  its database open; `GracefulShutdown` names the exception. `--daemon` itself has
  no effect.
* The key `metrics.enabled` of the README and of `setDefaults` has no field: the tag
  is `metrics`, so neither the default nor the documented file starts the metrics
  endpoint, and the flag `--metrics` makes `Load` fail.
* Sessions that end, refused and repeated subscriptions, and refused or stray
  unsubscriptions leave the subscriber gauge away from "Current number of subscribers
  per topic"; `SubscribersAccounted` says by how much.
* `Message.ID` and `next_message_id` are given out a second time when `CompactTopic`
  has removed the newest rows and the broker restarts: `recoverRetainedMessages` takes
  `MAX(id)`, not the AUTOINCREMENT mark. `NextIDFresh` names the condition; row ids
  themselves are not reused.
* `Stop` does not wait for `Serve`'s read of the stored messages or for a delayed will
  in the event loop; either may meet a closed database, whose error is logged.
* `max-qos: 258` is accepted as 2; nothing reads the field.
* `totalBytes` is not restored at start although the comment speaks of the message
  statistics; nothing calls `CompactTopic`, so `max-message-age` has no effect; the
  read-back of a retained write may find the row deleted and report an error that
  nobody reads; `messageID` falls back at a restart below ids that retained
  messages carry; `New` and `Start` leave the database open when a later step
  fails; `bytesReceivedTotal` adds up the bytes sent; `GetStats` reports fixed
  values for `synchronous` and `journal_mode`.

## 6. Plan

Done: every component with state has a module, the log refines its abstract
specification, the hooks are composed, and every safety property of a passing run
is proved.

1. An abstract retained store (one value per topic, changed and read atomically),
   refined by `RetainedStore` where `Undisturbed` holds.
2. What a start with NORMAL finds after a power failure, as an abstract log that may
   lose its newest entries, refined by `MessageLog` without `Durable`.
