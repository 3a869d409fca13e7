-------------------------- MODULE BrokerLifecycle --------------------------
(***************************************************************************)
(* A broker process from `promptmq server` to its end: the main goroutine  *)
(* (cmd/server, config.Load, broker.New, Start, Stop) and the goroutines   *)
(* it leaves running beside it: the one that waits for a signal,           *)
(* Manager.metricsLoop with its queries, the one that calls server.Serve   *)
(* and the event loop Serve starts, the metrics HTTP server and its        *)
(* collector of system metrics, and one goroutine per client connection    *)
(* running storage hooks.  What they share is the database handle, and the *)
(* question is who may still use it when, under every configuration the    *)
(* process may have been started with.                                     *)
(*                                                                         *)
(* External: the MQTT server (Serve reads the stored messages, starts the  *)
(* event loop and accepts; the event loop retains delayed wills; Close     *)
(* tells the event loop to end, stops accepting and waits for the          *)
(* connections only) and the operating system's default of killing a       *)
(* process on SIGINT and SIGTERM.                                          *)
(***************************************************************************)
EXTENDS ConfigLoad

CONSTANTS
    Clients,
    Inputs,         \* the flags given and configuration files: [given, file]
    Faults,         \* whether reading, opening, recovering and serving may fail
    MaxSignals      \* bound: signals sent to the process

ASSUME LifecycleAssumption ==
    /\ Faults \in BOOLEAN
    /\ MaxSignals \in Nat

VARIABLES
    sources,    \* what config.Load finds
    cfg,        \* the *config.Config
    main,       \* where the main goroutine is
    db,         \* the *sql.DB of the storage manager
    ctx,        \* the context given to Broker.Start is cancelled
    storageCtx, \* the storage manager's own context is cancelled
    loop,       \* Manager.metricsLoop
    serve,      \* the goroutine calling server.Serve
    events,     \* the MQTT server's event loop
    wills,      \* a client left a will to be retained after a delay
    listeners,
    http,       \* the metrics server
    collector,  \* its collectSystemMetrics
    watcher,    \* the goroutine waiting for a signal
    sigCh,      \* signals buffered in the channel of capacity 1
    client,     \* what each client connection's goroutine is doing
    \* history
    signals,    \* signals sent so far
    announced   \* "PromptMQ broker started successfully" was logged

storage    == <<db, storageCtx, loop>>
mqtt       == <<serve, events, wills, listeners, client>>
metrics    == <<http, collector>>
signalling == <<watcher, sigCh, signals, ctx>>
config     == <<sources, cfg>>
vars       == <<config, main, storage, mqtt, metrics, signalling, announced>>

-----------------------------------------------------------------------------
Running == {"load", "newStorage", "newServer", "notify", "storageStart", "metricsStart", "serve",
            "wait", "closeServer", "drain", "stopMetrics", "cancel", "join", "closeDB",
            "returning"}
Over    == {"exited", "failed", "panicked", "killed"}

TypeOK ==
    /\ sources \in Inputs /\ IsConfig(cfg)
    /\ main \in Running \cup Over
    /\ db \in {"none", "open", "closed"}
    /\ ctx \in BOOLEAN /\ storageCtx \in BOOLEAN /\ announced \in BOOLEAN
    /\ loop \in {"none", "select", "report", "done"}
    /\ serve \in {"none", "reading", "serving", "failed", "ended"}
    /\ events \in {"none", "select", "inHook", "done"} /\ wills \in BOOLEAN
    /\ listeners \in {"none", "bound", "accepting", "closed"}
    /\ http \in {"none", "serving", "failed", "stopped"}
    /\ collector \in {"none", "select", "update", "done"}
    /\ watcher \in {"none", "waiting", "done"}
    /\ sigCh \in 0..1
    /\ client \in [Clients -> {"none", "connected", "inHook"}]
    /\ signals \in 0..MaxSignals

Init ==
    /\ sources \in Inputs /\ cfg = ZeroConfig
    /\ main = "load"
    /\ db = "none"
    /\ ctx = FALSE /\ storageCtx = FALSE
    /\ loop = "none" /\ serve = "none" /\ listeners = "none"
    /\ events = "none" /\ wills = FALSE
    /\ http = "none" /\ collector = "none"
    /\ watcher = "none" /\ sigCh = 0
    /\ client = [c \in Clients |-> "none"]
    /\ signals = 0 /\ announced = FALSE

-----------------------------------------------------------------------------
(* The main goroutine: config.Load and New.                                *)

Fail == Faults /\ main' = "failed"

\* initConfig and config.Load; runServer returns Load's error.
LoadConfig ==
    /\ main = "load"
    /\ \/ Loads(sources) /\ cfg' = Unmarshal(sources) /\ main' = "newStorage"
       \/ ~Loads(sources) /\ main' = "failed" /\ UNCHANGED cfg
    /\ UNCHANGED <<sources, storage, mqtt, metrics, signalling, announced>>

\* storage.NewWithMetrics closes the handle itself when it fails.
NewStorage ==
    /\ main = "newStorage"
    /\ \/ main' = "newServer" /\ db' = "open"
       \/ Fail /\ UNCHANGED db
    /\ UNCHANGED <<storageCtx, loop, mqtt, metrics, signalling, announced, config>>

\* Mutant: a listener accepts as soon as it is added.
NewServerAccepting ==
    /\ main = "newServer"
    /\ \/ main' = "notify" /\ listeners' = "accepting"
       \/ Fail /\ UNCHANGED listeners
    /\ UNCHANGED <<storage, serve, events, wills, metrics, signalling, client, announced,
                   config>>

\* cluster.New, setupHooks and setupListeners, which binds the addresses.
NewServer ==
    /\ main = "newServer"
    /\ \/ main' = "notify" /\ listeners' = "bound"
       \/ Fail /\ UNCHANGED listeners
    /\ UNCHANGED <<storage, serve, events, wills, metrics, signalling, client, announced,
                   config>>

\* Mutant: the test of cfg.Server.Daemon is inverted.
NotifyDaemon ==
    /\ main = "notify"
    /\ main' = "storageStart"
    /\ watcher' = IF cfg.Daemon THEN "waiting" ELSE "none"
    /\ UNCHANGED <<storage, ctx, mqtt, metrics, sigCh, signals, announced, config>>

\* runServer installs its signal handler here; runDaemon installs none.
Notify ==
    /\ main = "notify"
    /\ main' = "storageStart"
    /\ watcher' = IF cfg.Daemon THEN "none" ELSE "waiting"
    /\ UNCHANGED <<storage, ctx, mqtt, metrics, sigCh, signals, announced, config>>

-----------------------------------------------------------------------------
(* The main goroutine: Start.                                              *)

\* recoverRetainedMessages, then go metricsLoop.
StorageStart ==
    /\ main = "storageStart"
    /\ \/ main' = "metricsStart" /\ loop' = "select"
       \/ Fail /\ UNCHANGED loop
    /\ UNCHANGED <<db, storageCtx, mqtt, metrics, signalling, announced, config>>

\* mux.Handle panics on an empty pattern and on one registered before; Start
\* registers /health itself, after the configured path.
BadPath(path) == path \in {"", "/health"}

\* metrics.Start; cluster.Start only logs.
MetricsStart ==
    /\ main = "metricsStart"
    /\ \/ /\ ~cfg.MetricsEnabled
          /\ main' = "serve" /\ UNCHANGED metrics
       \/ /\ cfg.MetricsEnabled /\ BadPath(cfg.MetricsPath)
          /\ main' = "panicked" /\ UNCHANGED metrics
       \/ /\ cfg.MetricsEnabled /\ ~BadPath(cfg.MetricsPath)
          /\ main' = "serve" /\ http' = "serving" /\ collector' = "select"
    /\ UNCHANGED <<storage, mqtt, signalling, announced, config>>

GoServe ==
    /\ main = "serve"
    /\ main' = "wait"
    /\ serve' = "reading"
    /\ announced' = TRUE
    /\ UNCHANGED <<storage, events, wills, listeners, metrics, signalling, client, config>>

WaitDone ==
    /\ main = "wait" /\ ctx
    /\ main' = "closeServer"
    /\ UNCHANGED <<storage, mqtt, metrics, signalling, announced, config>>

-----------------------------------------------------------------------------
(* The main goroutine: Stop.                                               *)

CloseServer ==
    /\ main = "closeServer"
    /\ main' = "drain"
    /\ listeners' = "closed"
    /\ UNCHANGED <<storage, serve, events, wills, metrics, signalling, client, announced,
                   config>>

\* Mutant: Close does not wait for the connections.
DrainNobody ==
    /\ main = "drain"
    /\ main' = "stopMetrics"
    /\ UNCHANGED <<storage, mqtt, metrics, signalling, announced, config>>

\* server.Close returns when the connections are gone; cluster.Stop only logs.
Drain ==
    /\ main = "drain" /\ \A c \in Clients : client[c] = "none"
    /\ main' = "stopMetrics"
    /\ UNCHANGED <<storage, mqtt, metrics, signalling, announced, config>>

\* Mutant: Stop forgets the metrics server.
SkipMetrics ==
    /\ main = "stopMetrics"
    /\ main' = "cancel"
    /\ UNCHANGED <<storage, mqtt, metrics, signalling, announced, config>>

\* metrics.StopServer: the listener closes at once; an error (requests still
\* running after 10s) is logged and Stop goes on.
StopMetrics ==
    /\ main = "stopMetrics"
    /\ main' = "cancel"
    /\ http' = IF http = "serving" THEN "stopped" ELSE http
    /\ UNCHANGED <<storage, mqtt, collector, signalling, announced, config>>

\* Mutant: StopManager waits without having cancelled.
ForgetCancel ==
    /\ main = "cancel"
    /\ main' = "join"
    /\ UNCHANGED <<storage, mqtt, metrics, signalling, announced, config>>

\* StopManager: m.cancel()
Cancel ==
    /\ main = "cancel"
    /\ main' = "join"
    /\ storageCtx' = TRUE
    /\ UNCHANGED <<db, loop, mqtt, metrics, signalling, announced, config>>

\* StopManager: m.wg.Wait()
Join ==
    /\ main = "join" /\ loop = "done"
    /\ main' = "closeDB"
    /\ UNCHANGED <<storage, mqtt, metrics, signalling, announced, config>>

\* StopManager: m.db.Close()
CloseDB ==
    /\ main = "closeDB"
    /\ main' = "returning"
    /\ db' = "closed"
    /\ UNCHANGED <<storageCtx, loop, mqtt, metrics, signalling, announced, config>>

\* StopManager logs its totals; Stop, Start and runServer return.
Return ==
    /\ main = "returning"
    /\ main' = "exited"
    /\ UNCHANGED <<storage, mqtt, metrics, signalling, announced, config>>

Main ==
    \/ LoadConfig \/ NewStorage \/ NewServer \/ Notify
    \/ StorageStart \/ MetricsStart \/ GoServe \/ WaitDone
    \/ CloseServer \/ Drain \/ StopMetrics \/ Cancel \/ Join \/ CloseDB
    \/ Return

-----------------------------------------------------------------------------
(* The other goroutines, while the process lives.                          *)

Alive == main \in Running

\* select { case <-ctx.Done() ... case <-ticker.C ... }
LoopExit ==
    /\ Alive /\ loop = "select" /\ storageCtx
    /\ loop' = "done"
    /\ UNCHANGED <<main, db, storageCtx, mqtt, metrics, signalling, announced, config>>

LoopTick ==
    /\ Alive /\ loop = "select"
    /\ loop' = "report"
    /\ UNCHANGED <<main, db, storageCtx, mqtt, metrics, signalling, announced, config>>

\* The size query has returned and the gauge is set.
LoopReport ==
    /\ Alive /\ loop = "report"
    /\ loop' = "select"
    /\ UNCHANGED <<main, db, storageCtx, mqtt, metrics, signalling, announced, config>>

\* server.Serve: StoredRetainedMessages, then the event loop, then accept.  Its
\* error is logged by the goroutine and nobody else learns of it; after Close it
\* serves nobody.
Serve ==
    /\ Alive /\ serve = "reading"
    /\ \/ /\ db = "open" /\ listeners = "bound"
          /\ serve' = "serving" /\ listeners' = "accepting" /\ events' = "select"
       \/ /\ db = "open" /\ listeners = "closed"
          /\ serve' = "ended" /\ events' = "select" /\ UNCHANGED listeners
       \/ /\ Faults \/ db = "closed"
          /\ serve' = "failed" /\ UNCHANGED <<events, listeners>>
    /\ UNCHANGED <<main, storage, wills, metrics, signalling, client, announced, config>>

\* The event loop: a tick finds a delayed will due and retains it, which calls
\* OnRetainMessage of the storage manager; the hook returns, its error logged.
DelayedWill ==
    /\ Alive
    /\ \/ events = "select" /\ wills /\ events' = "inHook" /\ wills' = FALSE
       \/ events = "inHook" /\ events' = "select" /\ UNCHANGED wills
    /\ UNCHANGED <<main, storage, serve, listeners, metrics, signalling, client, announced,
                   config>>

\* The event loop ends once Close has closed the server's done channel.
EventsExit ==
    /\ Alive /\ events = "select" /\ listeners = "closed"
    /\ events' = "done"
    /\ UNCHANGED <<main, storage, serve, wills, listeners, metrics, signalling, client,
                   announced, config>>

\* ListenAndServe of the metrics server fails, which its goroutine logs.
MetricsServeFails ==
    /\ Alive /\ Faults /\ http = "serving"
    /\ http' = "failed"
    /\ UNCHANGED <<main, storage, mqtt, collector, signalling, announced, config>>

\* collectSystemMetrics: select { case <-ctx.Done() ... case <-ticker.C ... }
\* over the context of Start; nobody waits for it.
CollectorExit ==
    /\ Alive /\ collector = "select" /\ ctx
    /\ collector' = "done"
    /\ UNCHANGED <<main, storage, mqtt, http, signalling, announced, config>>

\* updateSystemMetrics begins, and has set its gauges.
CollectorUpdate ==
    /\ Alive /\ collector \in {"select", "update"}
    /\ collector' = IF collector = "select" THEN "update" ELSE "select"
    /\ UNCHANGED <<main, storage, mqtt, http, signalling, announced, config>>

Connect(c) ==
    /\ Alive /\ client[c] = "none" /\ listeners = "accepting"
    /\ client' = [client EXCEPT ![c] = "connected"]
    /\ UNCHANGED <<main, storage, serve, events, wills, listeners, metrics, signalling,
                   announced, config>>

\* A packet whose hook queries the database; packets already read are still
\* handled after Close.
EnterHook(c) ==
    /\ Alive /\ client[c] = "connected"
    /\ client' = [client EXCEPT ![c] = "inHook"]
    /\ UNCHANGED <<main, storage, serve, events, wills, listeners, metrics, signalling,
                   announced, config>>

LeaveHook(c) ==
    /\ Alive /\ client[c] = "inHook"
    /\ client' = [client EXCEPT ![c] = "connected"]
    /\ UNCHANGED <<main, storage, serve, events, wills, listeners, metrics, signalling,
                   announced, config>>

\* A connection that ends without DISCONNECT may leave a will.
Disconnect(c) ==
    /\ Alive /\ client[c] = "connected"
    /\ client' = [client EXCEPT ![c] = "none"]
    /\ wills' \in {wills, TRUE}
    /\ UNCHANGED <<main, storage, serve, events, listeners, metrics, signalling, announced,
                   config>>

\* Mutant: every signal is queued.
QueueSignal ==
    /\ Alive /\ signals < MaxSignals
    /\ signals' = signals + 1
    /\ IF watcher = "none"
       THEN main' = "killed" /\ UNCHANGED sigCh
       ELSE sigCh' = sigCh + 1 /\ UNCHANGED main
    /\ UNCHANGED <<storage, ctx, mqtt, metrics, watcher, announced, config>>

\* SIGINT or SIGTERM.  signal.Notify does not block: a signal that finds the
\* channel full is dropped.  Without a handler the signal ends the process.
Signal ==
    /\ Alive /\ signals < MaxSignals
    /\ signals' = signals + 1
    /\ IF watcher = "none"
       THEN main' = "killed" /\ UNCHANGED sigCh
       ELSE sigCh' = 1 /\ UNCHANGED main
    /\ UNCHANGED <<storage, ctx, mqtt, metrics, watcher, announced, config>>

\* sig := <-sigCh; cancel().  The goroutine takes one signal and ends.
WatchSignal ==
    /\ Alive /\ watcher = "waiting" /\ sigCh = 1
    /\ watcher' = "done" /\ sigCh' = 0 /\ ctx' = TRUE
    /\ UNCHANGED <<main, storage, mqtt, metrics, signals, announced, config>>

Terminated == main \in Over /\ UNCHANGED vars

Next ==
    \/ Main \/ Serve \/ DelayedWill \/ EventsExit \/ MetricsServeFails
    \/ Signal \/ WatchSignal
    \/ LoopExit \/ LoopTick \/ LoopReport \/ CollectorExit \/ CollectorUpdate
    \/ \E c \in Clients : Connect(c) \/ EnterHook(c) \/ LeaveHook(c) \/ Disconnect(c)
    \/ Terminated

Spec == Init /\ [][Next]_vars

\* Goroutines that can run do run.  When both cases of metricsLoop's select are
\* ready Go picks one at random, so the exit case cannot lose for ever; a
\* connection the closed server drops ends once the packets read are handled.
FairSpec ==
    /\ Spec
    /\ WF_vars(Main) /\ WF_vars(Serve) /\ WF_vars(WatchSignal)
    /\ WF_vars(LoopReport) /\ SF_vars(LoopExit)
    /\ \A c \in Clients :
          /\ WF_vars(LeaveHook(c))
          /\ SF_vars(listeners = "closed" /\ Disconnect(c))

-----------------------------------------------------------------------------
(* Properties.                                                             *)

\* No connection's hook and no query of metricsLoop ever runs against a database
\* handle that is not open: Stop closes the server, waits for the connections,
\* cancels and joins metricsLoop, and only then closes the handle.  Nobody waits
\* for the handle's two other users: Serve's read of the stored messages, during
\* which no client is let in yet, and a delayed will retained by the event loop.
\* Either may meet a closed handle, and logs the error.
NoUseAfterClose ==
    /\ \A c \in Clients : client[c] = "inHook" => db = "open"
    /\ loop = "report" => db = "open"
    /\ serve = "reading" => \A c \in Clients : client[c] = "none"

\* When Stop has returned the database is closed, metricsLoop and the metrics
\* listener are over and no connection is left.  The goroutines nobody waits for
\* (the collector, Serve, the event loop) may still run; each of them has been
\* told to end, by the context of Start or by Close.
ExitReleases ==
    main = "exited" =>
        /\ db = "closed" /\ loop = "done" /\ http # "serving"
        /\ \A c \in Clients : client[c] = "none"
        /\ ctx /\ listeners = "closed"

\* A start that fails, whichever step of Load, New or Start it is, has served
\* no client and reported nothing, though nobody undoes the steps before it.
FailedStartServedNobody ==
    main \in {"failed", "panicked"} =>
        /\ ~announced /\ listeners # "accepting"
        /\ \A c \in Clients : client[c] = "none"

\* The values a setting may be given, as the comments on the Config structs and
\* the errors of validate have them.
Accepted ==
    [server  |-> [daemon |-> BOOLEAN, tls |-> BOOLEAN],
     mqtt    |-> [max_qos |-> 0..2],
     cleanup |-> [max_message_age |-> Nat \ {0}, check_interval |-> Nat \ {0},
                  batch_size |-> Nat \ {0}],
     sqlite  |-> [cache_size |-> Int \ {0}, mmap_size |-> Nat, busy_timeout |-> Nat,
                  temp_store |-> {"MEMORY", "FILE", "DEFAULT"},
                  synchronous |-> {"OFF", "NORMAL", "FULL", "EXTRA"},
                  journal_mode |-> {"DELETE", "TRUNCATE", "PERSIST", "MEMORY", "WAL", "OFF"}],
     cluster |-> [cluster |-> BOOLEAN],
     metrics |-> [metrics |-> BOOLEAN]]

\* What the file says of a section is acceptable; a setting it leaves out is.
GoodSection(src, sec) ==
    \A k \in DOMAIN Accepted[sec] \cap DOMAIN FileSection(src, sec) :
        FileSection(src, sec)[k] \in Accepted[sec][k]

\* TLS comes with a certificate and a key; a file without the section asks for none.
CompleteTLS(src) ==
    LET server == FileSection(src, "server")
    IN  "tls" \in DOMAIN server /\ server.tls =>
            \A k \in {"tls_cert", "tls_key"} : k \in DOMAIN server /\ server[k] # ""

\* The database is never opened under settings that must be refused, and good
\* ones, partial or absent, are not refused: no section of the file hides the
\* defaults of another, and only a flag named like a section makes Load fail.
\* (A max-qos past 255 wraps before it is compared, and may be let through.)
SettingsChecked ==
    /\ db # "none" =>
          CompleteTLS(sources) /\ \A sec \in Sections \ {"mqtt"} : GoodSection(sources, sec)
    /\ main = "failed" /\ cfg = ZeroConfig =>
          \/ ~CompleteTLS(sources) \/ \E sec \in Sections : ~GoodSection(sources, sec)
          \/ sources.given \cap {"metrics", "cluster"} # {}

\* A signal that reaches the handler, at any point of the start-up or later,
\* ends in an orderly exit unless the start-up itself fails.
SignalShutsDown ==
    sigCh = 1 /\ watcher = "waiting" ~> main \in {"exited", "failed", "panicked"}

\* A broker that has announced its start is ended by a signal only through Stop,
\* unless its file asks for daemon mode; no flag and no default does.
GracefulShutdown ==
    main = "killed" /\ announced =>
        "daemon" \in DOMAIN FileSection(sources, "server") /\ sources.file.server.daemon

\* A broker that has announced a successful start is or will be serving, or is
\* being shut down.
AnnouncedServes == announced ~> serve = "serving" \/ ctx
=============================================================================
