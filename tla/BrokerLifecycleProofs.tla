----------------------- MODULE BrokerLifecycleProofs -----------------------
(***************************************************************************)
(* Proofs about BrokerLifecycle, for any number of clients and any set of  *)
(* configuration sources: the types, that none of the goroutines Stop      *)
(* waits for uses the database after it is closed, what is over when Stop  *)
(* has returned, that a failed start served nobody, and that no flag or    *)
(* default makes a running broker die of a signal without Stop.            *)
(***************************************************************************)
EXTENDS BrokerLifecycle, TLAPS

\* Where the main goroutine is, by what must have happened before and what
\* must not have happened yet.
BeforeLoop  == {"load", "newStorage", "newServer", "notify", "storageStart", "failed"}
ServerOpen  == {"wait", "closeServer", "killed"}
ServerUsed  == ServerOpen \cup {"drain"}
Released    == {"stopMetrics", "cancel", "join", "closeDB", "returning", "exited"}
Closed      == Released \cup {"drain"}

\* The order of Stop, read off the state it leaves.
StopOrder ==
    /\ main \in Running \ {"load", "newStorage", "returning"} => db = "open"
    /\ main \in {"returning", "exited"} => db = "closed"
    /\ main \in BeforeLoop => loop = "none"
    /\ main \in {"closeDB", "returning", "exited"} => loop = "done"
    /\ main \in {"cancel", "join", "closeDB", "returning", "exited"} => http # "serving"
    /\ serve = "reading" => main \in ServerOpen \cup Closed
    /\ listeners = "accepting" => main \in ServerOpen /\ serve # "reading"
    /\ main \in Closed \cup {"closeServer"} => ctx
    /\ main \in Closed => listeners = "closed"
    /\ announced => main \in ServerOpen \cup Closed
    /\ \A c \in Clients : client[c] # "none" => main \in ServerUsed

LifecycleInv == TypeOK /\ StopOrder /\ NoUseAfterClose

\* The zero value of the Config struct is one.
LEMMA ZeroConfigTyped == IsConfig(ZeroConfig) /\ ~ZeroConfig.Daemon
<1>1. /\ ZeroConfig.Daemon = FALSE /\ ZeroConfig.TLS = FALSE
      /\ ZeroConfig.MetricsEnabled = FALSE /\ ZeroConfig.ClusterEnabled = FALSE
    BY Zenon DEF ZeroConfig
<1>2. /\ ZeroConfig.MaxMessageAge = 0 /\ ZeroConfig.CheckInterval = 0 /\ ZeroConfig.BatchSize = 0
      /\ ZeroConfig.CacheSize = 0 /\ ZeroConfig.MmapSize = 0 /\ ZeroConfig.BusyTimeout = 0
      /\ ZeroConfig.MaxQoS = 0
    BY Zenon DEF ZeroConfig
<1>3. {ZeroConfig.Daemon, ZeroConfig.TLS, ZeroConfig.MetricsEnabled, ZeroConfig.ClusterEnabled}
        \subseteq BOOLEAN
    BY <1>1, Zenon
<1>4. /\ {ZeroConfig.MaxMessageAge, ZeroConfig.CheckInterval, ZeroConfig.BatchSize} \subseteq Int
      /\ {ZeroConfig.CacheSize, ZeroConfig.MmapSize, ZeroConfig.BusyTimeout} \subseteq Int
      /\ ZeroConfig.MaxQoS \in 0..255
    BY <1>2
<1> QED BY <1>1, <1>3, <1>4, Zenon DEF IsConfig

\* A process that has not begun to start satisfies the invariant.
LEMMA LifecycleInit == Init => LifecycleInv
<1> SUFFICES ASSUME Init PROVE LifecycleInv
    OBVIOUS
<1>1. client \in [Clients -> {"none", "connected", "inHook"}] /\ sigCh \in 0..1 /\ signals \in 0..MaxSignals
    BY LifecycleAssumption DEF Init
<1>2. IsConfig(cfg) BY ZeroConfigTyped DEF Init
<1>4. TypeOK BY <1>1, <1>2, Zenon DEF Init, TypeOK, Running, Over
<1>3. StopOrder /\ NoUseAfterClose
    BY DEF Init, StopOrder, NoUseAfterClose, Running, BeforeLoop, ServerOpen, ServerUsed,
           Released, Closed
<1> QED BY <1>3, <1>4 DEF LifecycleInv

\* Types are kept by every step.
LEMMA LifecycleTypeNext == TypeOK /\ [Next]_vars => TypeOK'
<1> SUFFICES ASSUME TypeOK, [Next]_vars PROVE TypeOK'
    OBVIOUS
<1> USE LifecycleAssumption DEF TypeOK, Running, Over, storage, mqtt, metrics, signalling, config, Alive
<1>1. CASE Main
    BY <1>1 DEF Main, LoadConfig, Loads, Decodes, NewStorage, NewServer, Notify, StorageStart, MetricsStart, GoServe,
       WaitDone, CloseServer, Drain, StopMetrics, Cancel, Join, CloseDB, Return, Fail
<1>2. CASE Serve \/ DelayedWill \/ EventsExit \/ MetricsServeFails
    BY <1>2 DEF Serve, DelayedWill, EventsExit, MetricsServeFails
<1>3. CASE Signal BY <1>3 DEF Signal
<1>4. CASE WatchSignal BY <1>4 DEF WatchSignal
<1>5. CASE LoopExit \/ LoopTick \/ LoopReport \/ CollectorExit \/ CollectorUpdate
    BY <1>5 DEF LoopExit, LoopTick, LoopReport, CollectorExit, CollectorUpdate
<1>6. ASSUME NEW c \in Clients, Connect(c) \/ EnterHook(c) \/ LeaveHook(c) \/ Disconnect(c)
      PROVE  TypeOK'
    BY <1>6 DEF Connect, EnterHook, LeaveHook, Disconnect
<1>7. CASE Terminated BY <1>7 DEF Terminated, vars
<1>8. CASE UNCHANGED vars BY <1>8 DEF vars
<1> QED BY <1>1, <1>2, <1>3, <1>4, <1>5, <1>6, <1>7, <1>8 DEF Next

\* Every step of the main goroutine keeps the order of Stop.
LEMMA StopOrderMain == LifecycleInv /\ Main => StopOrder' /\ NoUseAfterClose'
<1> SUFFICES ASSUME LifecycleInv, Main PROVE StopOrder' /\ NoUseAfterClose'
    OBVIOUS
<1> USE DEF LifecycleInv, TypeOK, StopOrder, NoUseAfterClose, Running, Over, BeforeLoop,
        ServerOpen, ServerUsed, Released, Closed, storage, mqtt, metrics, signalling, config
<1>1. CASE NewStorage BY <1>1 DEF NewStorage, Fail
<1>2. CASE NewServer BY <1>2 DEF NewServer, Fail
<1>3. CASE Notify BY <1>3 DEF Notify
<1>4. CASE StorageStart BY <1>4 DEF StorageStart, Fail
<1>5. CASE MetricsStart BY <1>5 DEF MetricsStart
<1>6. CASE GoServe BY <1>6 DEF GoServe
<1>7. CASE WaitDone BY <1>7 DEF WaitDone
<1>8. CASE CloseServer BY <1>8 DEF CloseServer
<1>9. CASE Drain BY <1>9 DEF Drain
<1>10. CASE StopMetrics BY <1>10 DEF StopMetrics
<1>11. CASE Cancel BY <1>11 DEF Cancel
<1>12. CASE Join BY <1>12 DEF Join
<1>13. CASE CloseDB BY <1>13 DEF CloseDB
<1>14. CASE LoadConfig BY <1>14 DEF LoadConfig
<1>15. CASE Return BY <1>15 DEF Return
<1> QED BY <1>1, <1>2, <1>3, <1>4, <1>5, <1>6, <1>7, <1>8, <1>9, <1>10, <1>11, <1>12, <1>13, <1>14,
           <1>15
        DEF Main

\* Every other goroutine's step keeps it too.
LEMMA StopOrderOthers == LifecycleInv /\ [Next]_vars /\ ~Main => StopOrder' /\ NoUseAfterClose'
<1> SUFFICES ASSUME LifecycleInv, [Next]_vars, ~Main PROVE StopOrder' /\ NoUseAfterClose'
    OBVIOUS
<1> USE DEF LifecycleInv, TypeOK, StopOrder, NoUseAfterClose, Running, Over, BeforeLoop,
        ServerOpen, ServerUsed, Released, Closed, storage, mqtt, metrics, signalling, config, Alive
<1>1. CASE Serve \/ DelayedWill \/ EventsExit \/ MetricsServeFails
    BY <1>1 DEF Serve, DelayedWill, EventsExit, MetricsServeFails
<1>2. CASE Signal BY <1>2 DEF Signal
<1>3. CASE WatchSignal BY <1>3 DEF WatchSignal
<1>4. CASE LoopExit BY <1>4 DEF LoopExit
<1>5. CASE LoopTick BY <1>5 DEF LoopTick
<1>6. CASE LoopReport BY <1>6 DEF LoopReport
<1>7. ASSUME NEW c \in Clients, Connect(c) \/ EnterHook(c) \/ LeaveHook(c) \/ Disconnect(c)
      PROVE  StopOrder' /\ NoUseAfterClose'
  <2>1. CASE Connect(c) BY <2>1 DEF Connect
  <2>2. CASE EnterHook(c) BY <2>2 DEF EnterHook
  <2>3. CASE LeaveHook(c) BY <2>3 DEF LeaveHook
  <2>4. CASE Disconnect(c) BY <2>4 DEF Disconnect
  <2> QED BY <1>7, <2>1, <2>2, <2>3, <2>4
<1>8. CASE Terminated \/ UNCHANGED vars BY <1>8 DEF Terminated, vars
<1>9. CASE CollectorExit \/ CollectorUpdate BY <1>9 DEF CollectorExit, CollectorUpdate
<1> QED BY <1>1, <1>2, <1>3, <1>4, <1>5, <1>6, <1>7, <1>8, <1>9 DEF Next

\* LifecycleInv is inductive.
THEOREM LifecycleInvariant == Spec => []LifecycleInv
<1>1. LifecycleInv /\ [Next]_vars => LifecycleInv'
    BY LifecycleTypeNext, StopOrderMain, StopOrderOthers DEF LifecycleInv
<1> QED BY <1>1, LifecycleInit, PTL DEF Spec

\* Type correctness of the broker's life, from start-up to its end.
THEOREM LifecycleTypeCorrect == Spec => []TypeOK
<1>1. LifecycleInv => TypeOK BY DEF LifecycleInv
<1> QED BY <1>1, LifecycleInvariant, PTL

\* No connection's hook and no query of metricsLoop runs against a closed handle,
\* and no client is let in while Serve reads the stored messages, for any number
\* of connections, wherever in start-up the signal arrives.
THEOREM LifecycleNoUseAfterClose == Spec => []NoUseAfterClose
<1>1. LifecycleInv => NoUseAfterClose BY DEF LifecycleInv
<1> QED BY <1>1, LifecycleInvariant, PTL

\* When Stop has returned the database is closed, metricsLoop and the metrics
\* listener are over, no connection is left, and the goroutines Stop does not
\* wait for (collector, Serve, event loop) have been told to end.
THEOREM LifecycleExitReleases == Spec => []ExitReleases
<1>1. LifecycleInv => ExitReleases
    BY DEF LifecycleInv, StopOrder, ExitReleases, ServerUsed, ServerOpen, Closed, Released
<1> QED BY <1>1, LifecycleInvariant, PTL

\* A start that fails, at whatever step, has announced nothing and served no
\* client, for any configuration.
THEOREM LifecycleFailedStart == Spec => []FailedStartServedNobody
<1>1. LifecycleInv => FailedStartServedNobody
    BY DEF LifecycleInv, StopOrder, FailedStartServedNobody, ServerUsed, ServerOpen, Closed, Released
<1> QED BY <1>1, LifecycleInvariant, PTL

-----------------------------------------------------------------------------
(* Signals and daemon mode.                                                *)

\* The file sets server.daemon.
DaemonAsked ==
    "daemon" \in DOMAIN FileSection(sources, "server") /\ sources.file.server.daemon

\* From Notify on, a broker without a signal handler is one whose file asks for
\* daemon mode.
SignalInv ==
    /\ LifecycleInv
    /\ cfg.Daemon => DaemonAsked
    /\ announced \/ main \in {"storageStart", "metricsStart", "serve"} =>
          (watcher = "none" => cfg.Daemon)
    /\ main = "killed" => watcher = "none"

\* server.daemon is true only where the file says so: the section is not
\* shadowed by a flag, and its default is false.
LEMMA DaemonFromFile ==
    ASSUME Decodes(sources), Unmarshal(sources).Daemon
    PROVE  DaemonAsked
<1>1. Field(sources, "server", "daemon", FALSE)
    BY DEF Unmarshal, ZeroConfig
<1>2. "server" \notin Shadowed
    BY DEF Shadowed, FlagNames
<1>3. Section(sources, "server") = WithDefaults(FileSection(sources, "server"), Defaults["server"])
    BY <1>2 DEF Section
<1>4. "daemon" \in DOMAIN FileSection(sources, "server")
      /\ FileSection(sources, "server")["daemon"]
    BY <1>1, <1>3 DEF Field, Defaults, WithDefaults
<1> QED BY <1>4 DEF DaemonAsked, FileSection

\* Every step keeps the handler installed where no file asks for daemon mode.
LEMMA SignalNext == SignalInv /\ [Next]_vars => SignalInv'
<1> SUFFICES ASSUME SignalInv, [Next]_vars PROVE SignalInv'
    OBVIOUS
<1>0. LifecycleInv /\ LifecycleInv' /\ TypeOK /\ StopOrder
    BY LifecycleTypeNext, StopOrderMain, StopOrderOthers DEF SignalInv, LifecycleInv
<1> USE DEF SignalInv, DaemonAsked, TypeOK, StopOrder, Running, Over, BeforeLoop, ServerOpen,
        Released, Closed, storage, mqtt, metrics, signalling, config, Alive
<1>1. CASE LoadConfig
  <2>1. sources' = sources /\ ~announced /\ announced' = announced
    BY <1>0, <1>1 DEF LoadConfig
  <2>2. cfg'.Daemon => DaemonAsked'
    BY <1>1, <2>1, DaemonFromFile DEF LoadConfig, Loads
  <2> QED BY <1>0, <1>1, <2>1, <2>2 DEF LoadConfig
<1>2. CASE Main /\ ~LoadConfig
    BY <1>0, <1>2 DEF Main, NewStorage, NewServer, Notify, StorageStart, MetricsStart, GoServe,
       WaitDone, CloseServer, Drain, StopMetrics, Cancel, Join, CloseDB, Return, Fail
<1>3. CASE \/ Serve \/ DelayedWill \/ EventsExit \/ MetricsServeFails
           \/ CollectorExit \/ CollectorUpdate
    BY <1>0, <1>3 DEF Serve, DelayedWill, EventsExit, MetricsServeFails, CollectorExit,
       CollectorUpdate
<1>4. CASE Signal BY <1>0, <1>4 DEF Signal
<1>5. CASE WatchSignal BY <1>0, <1>5 DEF WatchSignal
<1>6. CASE LoopExit \/ LoopTick \/ LoopReport
    BY <1>0, <1>6 DEF LoopExit, LoopTick, LoopReport
<1>7. ASSUME NEW c \in Clients, Connect(c) \/ EnterHook(c) \/ LeaveHook(c) \/ Disconnect(c)
      PROVE  SignalInv'
  <2>1. UNCHANGED <<sources, cfg, main, announced, watcher>>
    BY <1>7 DEF Connect, EnterHook, LeaveHook, Disconnect
  <2> QED BY <1>0, <2>1
<1>8. CASE Terminated \/ UNCHANGED vars BY <1>0, <1>8 DEF Terminated, vars
<1> QED BY <1>1, <1>2, <1>3, <1>4, <1>5, <1>6, <1>7, <1>8 DEF Next

(***************************************************************************)
(* Once it has announced its start a broker is never ended by a signal     *)
(* without Stop, whatever the flags, unless its file sets server.daemon.   *)
(***************************************************************************)
THEOREM LifecycleGracefulShutdown == Spec => []GracefulShutdown
<1>1. Init => SignalInv
    BY LifecycleInit, ZeroConfigTyped DEF Init, SignalInv
<1>2. SignalInv /\ [Next]_vars => SignalInv'
    BY SignalNext
<1>3. SignalInv => GracefulShutdown
    BY DEF SignalInv, GracefulShutdown, DaemonAsked
<1> QED BY <1>1, <1>2, <1>3, PTL DEF Spec

-----------------------------------------------------------------------------
(* Settings.                                                               *)

\* A field is what the file says; else the default of its key, where it has one
\* that no flag hides; else zero.
LEMMA FieldFromFile ==
    ASSUME NEW src, NEW sec, NEW key, NEW zero
    PROVE  /\ key \in DOMAIN FileSection(src, sec) =>
                 Field(src, sec, key, zero) = FileSection(src, sec)[key]
           /\ key \notin DOMAIN FileSection(src, sec) /\ key \notin DOMAIN Defaults[sec] =>
                 Field(src, sec, key, zero) = zero
           /\ key \notin DOMAIN FileSection(src, sec) /\ key \in DOMAIN Defaults[sec]
                 /\ sec \notin Shadowed => Field(src, sec, key, zero) = Defaults[sec][key]
<1>1. CASE sec \in Shadowed /\ sec \in DOMAIN src.file
  <2>1. Section(src, sec) = FileSection(src, sec)
    BY <1>1 DEF Section, FileSection
  <2> QED BY <1>1, <2>1 DEF Field
<1>2. CASE ~(sec \in Shadowed /\ sec \in DOMAIN src.file)
  <2>1. Section(src, sec) = WithDefaults(FileSection(src, sec), Defaults[sec])
    BY <1>2 DEF Section
  <2> QED BY <2>1 DEF Field, WithDefaults
<1> QED BY <1>1, <1>2

\* The table of acceptable values, key by key.
LEMMA AcceptedValues ==
    /\ DOMAIN Accepted["server"] = {"daemon", "tls"}
    /\ Accepted["server"]["daemon"] = BOOLEAN /\ Accepted["server"]["tls"] = BOOLEAN
    /\ DOMAIN Accepted["mqtt"] = {"max_qos"} /\ Accepted["mqtt"]["max_qos"] = 0..2
    /\ DOMAIN Accepted["cleanup"] = {"max_message_age", "check_interval", "batch_size"}
    /\ \A k \in DOMAIN Accepted["cleanup"] : Accepted["cleanup"][k] = Nat \ {0}
    /\ DOMAIN Accepted["sqlite"] =
          {"cache_size", "temp_store", "mmap_size", "busy_timeout", "synchronous", "journal_mode"}
    /\ Accepted["sqlite"]["cache_size"] = Int \ {0}
    /\ Accepted["sqlite"]["mmap_size"] = Nat /\ Accepted["sqlite"]["busy_timeout"] = Nat
    /\ Accepted["sqlite"]["temp_store"] = {"MEMORY", "FILE", "DEFAULT"}
    /\ Accepted["sqlite"]["synchronous"] = {"OFF", "NORMAL", "FULL", "EXTRA"}
    /\ Accepted["sqlite"]["journal_mode"] =
          {"DELETE", "TRUNCATE", "PERSIST", "MEMORY", "WAL", "OFF"}
    /\ DOMAIN Accepted["cluster"] = {"cluster"} /\ Accepted["cluster"]["cluster"] = BOOLEAN
    /\ DOMAIN Accepted["metrics"] = {"metrics"} /\ Accepted["metrics"]["metrics"] = BOOLEAN
    BY DEF Accepted

\* The defaults, key by key.
LEMMA DefaultValues ==
    /\ Sections = {"server", "mqtt", "cleanup", "sqlite", "cluster", "metrics"}
    /\ Shadowed = {"cluster", "metrics"}
    /\ DOMAIN Defaults["server"] = {"daemon", "tls"}
    /\ DOMAIN Defaults["mqtt"] = {"max_qos"}
    /\ DOMAIN Defaults["cleanup"] = {"max_message_age", "check_interval", "batch_size"}
    /\ DOMAIN Defaults["sqlite"] =
          {"cache_size", "temp_store", "mmap_size", "busy_timeout", "synchronous", "journal_mode"}
    /\ DOMAIN Defaults["cluster"] = {"enabled"}
    /\ DOMAIN Defaults["metrics"] = {"enabled", "path"}
    /\ \A sec \in Sections : \A k \in DOMAIN Defaults[sec] \cap DOMAIN Accepted[sec] :
          Defaults[sec][k] \in Accepted[sec][k]
<1>1. Sections = {"server", "mqtt", "cleanup", "sqlite", "cluster", "metrics"}
    BY DEF Sections, Defaults
<1>2. Shadowed = {"cluster", "metrics"}
    BY <1>1 DEF Shadowed, FlagNames
<1>3. /\ DOMAIN Defaults["server"] = {"daemon", "tls"}
      /\ DOMAIN Defaults["mqtt"] = {"max_qos"}
      /\ DOMAIN Defaults["cleanup"] = {"max_message_age", "check_interval", "batch_size"}
      /\ DOMAIN Defaults["sqlite"] =
            {"cache_size", "temp_store", "mmap_size", "busy_timeout", "synchronous", "journal_mode"}
      /\ DOMAIN Defaults["cluster"] = {"enabled"}
      /\ DOMAIN Defaults["metrics"] = {"enabled", "path"}
    BY DEF Defaults
<1>4. Defaults["server"]["daemon"] \in BOOLEAN /\ Defaults["server"]["tls"] \in BOOLEAN
  <2>1. Defaults["server"] = [daemon |-> FALSE, tls |-> FALSE]
    BY SMT DEF Defaults
  <2> QED BY <2>1
<1>5. /\ Defaults["mqtt"]["max_qos"] \in 0..2
      /\ \A k \in DOMAIN Defaults["cleanup"] : Defaults["cleanup"][k] \in Nat \ {0}
      /\ Defaults["sqlite"]["cache_size"] \in Int \ {0}
      /\ Defaults["sqlite"]["mmap_size"] \in Nat /\ Defaults["sqlite"]["busy_timeout"] \in Nat
    BY <1>3 DEF Defaults
<1>6. /\ Defaults["sqlite"]["temp_store"] = "MEMORY"
      /\ Defaults["sqlite"]["synchronous"] = "NORMAL"
      /\ Defaults["sqlite"]["journal_mode"] = "WAL"
    BY SMT DEF Defaults
<1>7. ASSUME NEW sec \in Sections, NEW k \in DOMAIN Defaults[sec] \cap DOMAIN Accepted[sec]
      PROVE  Defaults[sec][k] \in Accepted[sec][k]
    BY <1>1, <1>3, <1>4, <1>5, <1>6, AcceptedValues
<1> QED BY <1>1, <1>2, <1>3, <1>7

\* What each field of the Config is decoded from.
LEMMA UnmarshalFields ==
    ASSUME NEW src
    PROVE  /\ Unmarshal(src).Daemon = Field(src, "server", "daemon", FALSE)
           /\ Unmarshal(src).TLS = Field(src, "server", "tls", FALSE)
           /\ Unmarshal(src).TLSCert = Field(src, "server", "tls_cert", "")
           /\ Unmarshal(src).TLSKey = Field(src, "server", "tls_key", "")
           /\ Unmarshal(src).MaxQoS = Field(src, "mqtt", "max_qos", 0) % 256
           /\ Unmarshal(src).MaxMessageAge = Field(src, "cleanup", "max_message_age", 0)
           /\ Unmarshal(src).CheckInterval = Field(src, "cleanup", "check_interval", 0)
           /\ Unmarshal(src).BatchSize = Field(src, "cleanup", "batch_size", 0)
           /\ Unmarshal(src).CacheSize = Field(src, "sqlite", "cache_size", 0)
           /\ Unmarshal(src).TempStore = Field(src, "sqlite", "temp_store", "")
           /\ Unmarshal(src).MmapSize = Field(src, "sqlite", "mmap_size", 0)
           /\ Unmarshal(src).BusyTimeout = Field(src, "sqlite", "busy_timeout", 0)
           /\ Unmarshal(src).Synchronous = Field(src, "sqlite", "synchronous", "")
           /\ Unmarshal(src).JournalMode = Field(src, "sqlite", "journal_mode", "")
           /\ Unmarshal(src).MetricsEnabled = Field(src, "metrics", "metrics", FALSE)
           /\ Unmarshal(src).ClusterEnabled = Field(src, "cluster", "cluster", FALSE)
    BY Zenon DEF Unmarshal, ZeroConfig

\* A setting is acceptable when the field decoded from it is.
LEMMA FieldGood ==
    ASSUME NEW src, NEW sec,
           \A k \in DOMAIN Accepted[sec] : \E zero : Field(src, sec, k, zero) \in Accepted[sec][k]
    PROVE  GoodSection(src, sec)
    BY FieldFromFile DEF GoodSection

\* Load accepts nothing outside the table of acceptable values but a wrapped
\* max-qos.
LEMMA LoadsOnlyGood ==
    ASSUME NEW src, Loads(src)
    PROVE  CompleteTLS(src) /\ \A sec \in Sections \ {"mqtt"} : GoodSection(src, sec)
<1> DEFINE U == Unmarshal(src)
<1>1. IsConfig(U) /\ Valid(U)
    BY DEF Loads, Decodes
<1>2. /\ U.MaxMessageAge \in Int /\ U.CheckInterval \in Int /\ U.BatchSize \in Int
      /\ U.MaxMessageAge > 0 /\ U.CheckInterval > 0 /\ U.BatchSize > 0
      /\ U.CacheSize \in Int /\ U.MmapSize \in Int /\ U.BusyTimeout \in Int
      /\ U.CacheSize # 0 /\ U.MmapSize >= 0 /\ U.BusyTimeout >= 0
    BY <1>1, Zenon DEF IsConfig, Valid
<1>3. CompleteTLS(src)
  <2> DEFINE server == FileSection(src, "server")
  <2>1. ASSUME "tls" \in DOMAIN server, server["tls"], NEW k \in {"tls_cert", "tls_key"}
        PROVE  k \in DOMAIN server /\ server[k] # ""
    <3>1. Field(src, "server", "tls", FALSE) = server["tls"]
      BY <2>1, FieldFromFile
    <3>2. U.TLS = Field(src, "server", "tls", FALSE)
      BY UnmarshalFields
    <3>3. /\ U.TLSCert = Field(src, "server", "tls_cert", "")
          /\ U.TLSKey = Field(src, "server", "tls_key", "")
      BY UnmarshalFields
    <3>4. U.TLSCert # "" /\ U.TLSKey # ""
      BY <1>1, <2>1, <3>1, <3>2, Zenon DEF Valid
    <3>5. Field(src, "server", k, "") # ""
      BY <3>3, <3>4
    <3>6. k \notin DOMAIN Defaults["server"]
      BY DefaultValues
    <3> QED BY <3>5, <3>6, FieldFromFile
  <2> QED BY <2>1 DEF CompleteTLS
<1>4. GoodSection(src, "server") /\ GoodSection(src, "cluster") /\ GoodSection(src, "metrics")
  <2>1. /\ U.Daemon \in BOOLEAN /\ U.TLS \in BOOLEAN
        /\ U.ClusterEnabled \in BOOLEAN /\ U.MetricsEnabled \in BOOLEAN
    BY <1>1, Zenon DEF IsConfig
  <2>2. /\ Field(src, "server", "daemon", FALSE) \in Accepted["server"]["daemon"]
        /\ Field(src, "server", "tls", FALSE) \in Accepted["server"]["tls"]
        /\ Field(src, "cluster", "cluster", FALSE) \in Accepted["cluster"]["cluster"]
        /\ Field(src, "metrics", "metrics", FALSE) \in Accepted["metrics"]["metrics"]
    BY <2>1, UnmarshalFields, AcceptedValues, Zenon
  <2>3. /\ \A k \in DOMAIN Accepted["server"] :
               \E zero : Field(src, "server", k, zero) \in Accepted["server"][k]
        /\ \A k \in DOMAIN Accepted["cluster"] :
               \E zero : Field(src, "cluster", k, zero) \in Accepted["cluster"][k]
        /\ \A k \in DOMAIN Accepted["metrics"] :
               \E zero : Field(src, "metrics", k, zero) \in Accepted["metrics"][k]
    BY <2>2, AcceptedValues, Zenon
  <2> QED BY <2>3, FieldGood
<1>5. GoodSection(src, "cleanup")
  <2>1. /\ U.MaxMessageAge \in Nat \ {0} /\ U.CheckInterval \in Nat \ {0}
        /\ U.BatchSize \in Nat \ {0}
    BY <1>2
  <2>2. \A k \in {"max_message_age", "check_interval", "batch_size"} :
            Field(src, "cleanup", k, 0) \in Nat \ {0}
    BY <2>1, UnmarshalFields, Zenon
  <2>3. \A k \in DOMAIN Accepted["cleanup"] :
            \E zero : Field(src, "cleanup", k, zero) \in Accepted["cleanup"][k]
    BY <2>2, AcceptedValues
  <2> QED BY <2>3, FieldGood
<1>6. GoodSection(src, "sqlite")
  <2>1. U.CacheSize \in Int \ {0} /\ U.MmapSize \in Nat /\ U.BusyTimeout \in Nat
    BY <1>2
  <2>2. /\ U.TempStore \in {"MEMORY", "FILE", "DEFAULT"}
        /\ U.Synchronous \in {"OFF", "NORMAL", "FULL", "EXTRA"}
        /\ U.JournalMode \in {"DELETE", "TRUNCATE", "PERSIST", "MEMORY", "WAL", "OFF"}
    BY <1>1 DEF Valid
  <2>3. /\ Field(src, "sqlite", "cache_size", 0) \in Accepted["sqlite"]["cache_size"]
        /\ Field(src, "sqlite", "mmap_size", 0) \in Accepted["sqlite"]["mmap_size"]
        /\ Field(src, "sqlite", "busy_timeout", 0) \in Accepted["sqlite"]["busy_timeout"]
    <3>1. /\ Field(src, "sqlite", "cache_size", 0) \in Int \ {0}
          /\ Field(src, "sqlite", "mmap_size", 0) \in Nat
          /\ Field(src, "sqlite", "busy_timeout", 0) \in Nat
      BY <2>1, UnmarshalFields
    <3> QED BY <3>1, AcceptedValues
  <2>4. /\ Field(src, "sqlite", "temp_store", "") \in Accepted["sqlite"]["temp_store"]
        /\ Field(src, "sqlite", "synchronous", "") \in Accepted["sqlite"]["synchronous"]
        /\ Field(src, "sqlite", "journal_mode", "") \in Accepted["sqlite"]["journal_mode"]
    BY <2>2, UnmarshalFields, AcceptedValues
  <2>5. \A k \in DOMAIN Accepted["sqlite"] :
            \E zero : Field(src, "sqlite", k, zero) \in Accepted["sqlite"][k]
    BY <2>3, <2>4, AcceptedValues, Zenon
  <2> QED BY <2>5, FieldGood
<1> QED BY <1>3, <1>4, <1>5, <1>6, DefaultValues

\* Fields decoded from acceptable settings, or from none, are acceptable.
LEMMA GoodField ==
    ASSUME NEW src, NEW sec \in Sections, NEW key \in DOMAIN Accepted[sec], NEW zero,
           GoodSection(src, sec),
           IF key \in DOMAIN Defaults[sec] THEN sec \notin Shadowed
           ELSE zero \in Accepted[sec][key]
    PROVE  Field(src, sec, key, zero) \in Accepted[sec][key]
<1>1. CASE key \in DOMAIN FileSection(src, sec)
    BY <1>1, FieldFromFile DEF GoodSection
<1>2. CASE key \notin DOMAIN FileSection(src, sec) /\ key \in DOMAIN Defaults[sec]
    BY <1>2, FieldFromFile, DefaultValues
<1>3. CASE key \notin DOMAIN FileSection(src, sec) /\ key \notin DOMAIN Defaults[sec]
    BY <1>3, FieldFromFile
<1> QED BY <1>1, <1>2, <1>3

\* Load accepts every file of acceptable values, whatever it leaves out, unless
\* a flag has the name of a section.
LEMMA GoodLoads ==
    ASSUME NEW src, CompleteTLS(src), \A sec \in Sections : GoodSection(src, sec),
           src.given \cap {"metrics", "cluster"} = {}
    PROVE  Loads(src)
<1> DEFINE U == Unmarshal(src)
<1>1. src.given \cap Shadowed = {}
    BY DefaultValues
<1>2. /\ U.Daemon \in BOOLEAN /\ U.TLS \in BOOLEAN
      /\ U.ClusterEnabled \in BOOLEAN /\ U.MetricsEnabled \in BOOLEAN
  <2>1. /\ Field(src, "server", "daemon", FALSE) \in Accepted["server"]["daemon"]
        /\ Field(src, "server", "tls", FALSE) \in Accepted["server"]["tls"]
    BY GoodField, DefaultValues, AcceptedValues
  <2>2. /\ Field(src, "cluster", "cluster", FALSE) \in Accepted["cluster"]["cluster"]
        /\ Field(src, "metrics", "metrics", FALSE) \in Accepted["metrics"]["metrics"]
    BY GoodField, DefaultValues, AcceptedValues
  <2> QED BY <2>1, <2>2, UnmarshalFields, AcceptedValues, Zenon
<1>3. U.MaxQoS \in 0..2
  <2>1. Field(src, "mqtt", "max_qos", 0) \in Accepted["mqtt"]["max_qos"]
    BY GoodField, DefaultValues, AcceptedValues
  <2>2. Field(src, "mqtt", "max_qos", 0) \in 0..2
    BY <2>1, AcceptedValues
  <2>3. \A n \in 0..2 : n % 256 = n
    OBVIOUS
  <2> QED BY <2>2, <2>3, UnmarshalFields
<1>4. /\ U.MaxMessageAge \in Nat \ {0} /\ U.CheckInterval \in Nat \ {0}
      /\ U.BatchSize \in Nat \ {0}
  <2>1. \A k \in DOMAIN Accepted["cleanup"] :
            Field(src, "cleanup", k, 0) \in Accepted["cleanup"][k]
    BY GoodField, DefaultValues, AcceptedValues
  <2>2. \A k \in {"max_message_age", "check_interval", "batch_size"} :
            Field(src, "cleanup", k, 0) \in Nat \ {0}
    BY <2>1, AcceptedValues
  <2> QED BY <2>2, UnmarshalFields, Zenon
<1>5. U.CacheSize \in Int \ {0} /\ U.MmapSize \in Nat /\ U.BusyTimeout \in Nat
  <2>1. /\ Field(src, "sqlite", "cache_size", 0) \in Accepted["sqlite"]["cache_size"]
        /\ Field(src, "sqlite", "mmap_size", 0) \in Accepted["sqlite"]["mmap_size"]
        /\ Field(src, "sqlite", "busy_timeout", 0) \in Accepted["sqlite"]["busy_timeout"]
    BY GoodField, DefaultValues, AcceptedValues
  <2>2. /\ Field(src, "sqlite", "cache_size", 0) \in Int \ {0}
        /\ Field(src, "sqlite", "mmap_size", 0) \in Nat
        /\ Field(src, "sqlite", "busy_timeout", 0) \in Nat
    BY <2>1, AcceptedValues
  <2> QED BY <2>2, UnmarshalFields
<1>6. /\ U.TempStore \in {"MEMORY", "FILE", "DEFAULT"}
      /\ U.Synchronous \in {"OFF", "NORMAL", "FULL", "EXTRA"}
      /\ U.JournalMode \in {"DELETE", "TRUNCATE", "PERSIST", "MEMORY", "WAL", "OFF"}
  <2>1. /\ Field(src, "sqlite", "temp_store", "") \in Accepted["sqlite"]["temp_store"]
        /\ Field(src, "sqlite", "synchronous", "") \in Accepted["sqlite"]["synchronous"]
        /\ Field(src, "sqlite", "journal_mode", "") \in Accepted["sqlite"]["journal_mode"]
    BY GoodField, DefaultValues, AcceptedValues
  <2> QED BY <2>1, UnmarshalFields, AcceptedValues
<1>7. ASSUME U.TLS PROVE U.TLSCert # "" /\ U.TLSKey # ""
  <2> DEFINE server == FileSection(src, "server")
  <2>1. "tls" \in DOMAIN server /\ server["tls"]
    <3>1. Defaults["server"]["tls"] = FALSE
      BY SMT DEF Defaults
    <3>2. Field(src, "server", "tls", FALSE) = TRUE
      BY <1>2, <1>7, UnmarshalFields, Zenon
    <3>3. "tls" \in DOMAIN Defaults["server"] /\ "server" \notin Shadowed
      BY DefaultValues
    <3>4. ASSUME NEW zero, "tls" \notin DOMAIN server
          PROVE  Field(src, "server", "tls", zero) = Defaults["server"]["tls"]
      BY <3>3, <3>4, FieldFromFile
    <3>5. "tls" \in DOMAIN server => Field(src, "server", "tls", FALSE) = server["tls"]
      BY FieldFromFile
    <3> HIDE DEF server
    <3> QED BY <3>1, <3>2, <3>4, <3>5, Zenon
  <2>2. \A k \in {"tls_cert", "tls_key"} : k \in DOMAIN server /\ server[k] # ""
    BY <2>1 DEF CompleteTLS
  <2>3. ASSUME NEW k \in {"tls_cert", "tls_key"} PROVE Field(src, "server", k, "") # ""
    <3>1. k \in DOMAIN server => Field(src, "server", k, "") = server[k]
      BY FieldFromFile
    <3> HIDE DEF server
    <3> QED BY <2>2, <3>1
  <2> QED BY <2>3, UnmarshalFields
<1>8. IsConfig(U)
  <2>1. U.MaxQoS \in 0..255
    BY <1>3
  <2>2. /\ {U.MaxMessageAge, U.CheckInterval, U.BatchSize} \subseteq Int
        /\ {U.CacheSize, U.MmapSize, U.BusyTimeout} \subseteq Int
    BY <1>4, <1>5
  <2>3. {U.Daemon, U.TLS, U.MetricsEnabled, U.ClusterEnabled} \subseteq BOOLEAN
    BY <1>2, Zenon
  <2> QED BY <2>1, <2>2, <2>3, Zenon DEF IsConfig
<1>9. Valid(U)
  <2>1. /\ U.MaxQoS <= 2 /\ U.MaxMessageAge > 0 /\ U.CheckInterval > 0 /\ U.BatchSize > 0
        /\ U.CacheSize # 0 /\ U.MmapSize >= 0 /\ U.BusyTimeout >= 0
    BY <1>3, <1>4, <1>5
  <2> QED BY <1>6, <1>7, <2>1, Zenon DEF Valid
<1> QED BY <1>1, <1>8, <1>9 DEF Loads, Decodes

\* The Config is what Load made of the sources, and nothing is opened before
\* Load has accepted them.
SettingsInv ==
    /\ LifecycleInv
    /\ db # "none" \/ main = "newStorage" => Loads(sources)
    /\ main = "load" => db = "none"
    /\ main \in (Running \ {"load"}) \cup {"failed"} /\ Loads(sources) =>
          cfg = Unmarshal(sources)

\* Every step keeps the Config and what it was made of.
LEMMA SettingsNext == SettingsInv /\ [Next]_vars => SettingsInv'
<1> SUFFICES ASSUME SettingsInv, [Next]_vars PROVE SettingsInv'
    OBVIOUS
<1>0. LifecycleInv' /\ main \in Running \cup Over /\ StopOrder
    BY LifecycleTypeNext, StopOrderMain, StopOrderOthers DEF SettingsInv, LifecycleInv, TypeOK
<1>1. CASE LoadConfig
    BY <1>0, <1>1 DEF LoadConfig, storage, SettingsInv
<1>2. sources' = sources
    BY DEF Next, Main, LoadConfig, NewStorage, NewServer, Notify, StorageStart, MetricsStart,
       GoServe, WaitDone, CloseServer, Drain, StopMetrics, Cancel, Join, CloseDB, Return, Serve,
       DelayedWill, EventsExit, MetricsServeFails, Signal, WatchSignal, LoopExit, LoopTick, LoopReport, CollectorExit,
       CollectorUpdate, Connect, EnterHook, LeaveHook, Disconnect, Terminated, vars, config
<1>3. CASE NewStorage
    BY <1>0, <1>2, <1>3 DEF NewStorage, Fail, Running, config, SettingsInv
<1>4. CASE /\ cfg' = cfg /\ (db' = db \/ (main # "load" /\ db # "none"))
           /\ main' \notin {"load", "newStorage"} \/ main' = main
           /\ main' \in (Running \ {"load"}) \cup {"failed"} =>
                 main' = main \/ main \in Running \ {"load"}
    BY <1>0, <1>2, <1>4 DEF SettingsInv, Running
<1>5. CASE \/ NewServer \/ Notify \/ StorageStart \/ MetricsStart \/ GoServe \/ WaitDone
           \/ CloseServer \/ Drain \/ StopMetrics \/ Cancel \/ Join \/ CloseDB \/ Return
    BY <1>0, <1>4, <1>5 DEF NewServer, Notify, StorageStart, MetricsStart, GoServe, WaitDone,
       CloseServer, Drain, StopMetrics, Cancel, Join, CloseDB, Return, Fail, StopOrder, storage, config,
       Running
<1>6. CASE \/ Serve \/ DelayedWill \/ EventsExit \/ MetricsServeFails \/ WatchSignal
           \/ LoopExit \/ LoopTick \/ LoopReport \/ CollectorExit \/ CollectorUpdate
           \/ \E c \in Clients : Connect(c) \/ EnterHook(c) \/ LeaveHook(c) \/ Disconnect(c)
           \/ Terminated \/ UNCHANGED vars
    BY <1>4, <1>6 DEF Serve, DelayedWill, EventsExit, MetricsServeFails, WatchSignal, LoopExit, LoopTick, LoopReport,
       CollectorExit, CollectorUpdate, Connect, EnterHook, LeaveHook, Disconnect,
       Terminated, vars, storage, config, Running
<1>7. CASE Signal
    BY <1>4, <1>7 DEF Signal, Alive, storage, config, Running
<1> QED BY <1>1, <1>3, <1>5, <1>6, <1>7 DEF Next, Main

(***************************************************************************)
(* For every flag and every configuration file, with or without any of the *)
(* sections and keys: the database is opened only under settings that are  *)
(* all acceptable (max-qos apart, which wraps), and a start that Load      *)
(* refuses has a setting that is not, or a flag that hides a section.      *)
(***************************************************************************)
THEOREM LifecycleSettingsChecked == Spec => []SettingsChecked
<1>1. Init => SettingsInv
    BY LifecycleInit DEF Init, SettingsInv
<1>2. SettingsInv => SettingsChecked
  <2>1. ASSUME SettingsInv, db # "none"
        PROVE  CompleteTLS(sources) /\ \A sec \in Sections \ {"mqtt"} : GoodSection(sources, sec)
    BY <2>1, LoadsOnlyGood DEF SettingsInv
  <2>2. ASSUME SettingsInv, main = "failed", cfg = ZeroConfig PROVE ~Loads(sources)
    <3>1. ASSUME Loads(sources) PROVE FALSE
      <4>1. cfg = Unmarshal(sources) /\ Valid(cfg)
        BY <2>2, <3>1 DEF SettingsInv, Loads
      <4>2. cfg.CheckInterval > 0
        BY <4>1, Zenon DEF Valid
      <4>3. ZeroConfig.CheckInterval = 0
        BY Zenon DEF ZeroConfig
      <4> QED BY <2>2, <4>2, <4>3
    <3> QED BY <3>1
  <2>3. ASSUME SettingsInv, main = "failed", cfg = ZeroConfig
        PROVE  \/ ~CompleteTLS(sources) \/ \E sec \in Sections : ~GoodSection(sources, sec)
               \/ sources.given \cap {"metrics", "cluster"} # {}
    BY <2>2, <2>3, GoodLoads
  <2> QED BY <2>1, <2>3 DEF SettingsChecked
<1> QED BY <1>1, <1>2, SettingsNext, PTL DEF Spec
=============================================================================
