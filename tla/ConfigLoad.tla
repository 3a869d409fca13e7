----------------------------- MODULE ConfigLoad -----------------------------
(***************************************************************************)
(* internal/config and the viper set-up of cmd: how the flags, the         *)
(* environment, the configuration file and the defaults become a Config.   *)
(* A section of the file (log, server, mqtt, storage.cleanup, ...) is a    *)
(* function from keys to values; dashes in keys are underscores here, and  *)
(* a duration is its number of hours, and a scalar is what its text        *)
(* decodes to, viper decoding weakly.  Settings nothing in the broker      *)
(* reads (buffers, timeouts, limits of the mqtt section) are left out.     *)
(*                                                                         *)
(* External: viper, which keeps one value per key by priority, and         *)
(* mapstructure, which fills a field from the key in its tag.              *)
(***************************************************************************)
EXTENDS Integers

\* type Config struct: the fields the broker or validate reads, by their types.
\* The others (TLSCert, TLSKey, TempStore, Synchronous, JournalMode, MetricsPath)
\* are strings, which any scalar decodes into.
IsConfig(cfg) ==
    /\ {cfg.Daemon, cfg.TLS, cfg.MetricsEnabled, cfg.ClusterEnabled} \subseteq BOOLEAN
    /\ {cfg.MaxMessageAge, cfg.CheckInterval, cfg.BatchSize} \subseteq Int
    /\ {cfg.CacheSize, cfg.MmapSize, cfg.BusyTimeout} \subseteq Int
    /\ cfg.MaxQoS \in 0..255

\* var cfg Config
ZeroConfig ==
    [Daemon |-> FALSE, TLS |-> FALSE, TLSCert |-> "", TLSKey |-> "", MaxQoS |-> 0,
     MaxMessageAge |-> 0, CheckInterval |-> 0, BatchSize |-> 0,
     CacheSize |-> 0, TempStore |-> "", MmapSize |-> 0, BusyTimeout |-> 0,
     Synchronous |-> "", JournalMode |-> "",
     MetricsEnabled |-> FALSE, MetricsPath |-> "", ClusterEnabled |-> FALSE]

\* setDefaults
Defaults ==
    [server  |-> [daemon |-> FALSE, tls |-> FALSE],
     mqtt    |-> [max_qos |-> 2],
     cleanup |-> [max_message_age |-> 24, check_interval |-> 1, batch_size |-> 1000],
     sqlite  |-> [cache_size |-> 50000, temp_store |-> "MEMORY", mmap_size |-> 268435456,
                  busy_timeout |-> 30000, synchronous |-> "NORMAL", journal_mode |-> "WAL"],
     cluster |-> [enabled |-> FALSE],
     metrics |-> [enabled |-> TRUE, path |-> "/metrics"]]

Sections == DOMAIN Defaults

\* The flags of the server command.  BindPFlags makes each a top-level key of
\* its own name, so --daemon sets `daemon` and not server.daemon, which runServer
\* reads; the key of an environment variable is found the same way.
FlagNames == {"daemon", "tls", "tls-cert", "tls-key", "max-qos", "metrics", "metrics-path",
              "cluster"}

\* Sections that have the name of a flag: viper takes the section for one value.
Shadowed == Sections \cap FlagNames

\* What the file says of a section.
FileSection(src, sec) ==
    IF sec \in DOMAIN src.file THEN src.file[sec] ELSE [key \in {} |-> ""]

\* Keys of the file, and the defaults of the keys it leaves out.
WithDefaults(keys, defaults) ==
    [k \in DOMAIN keys \cup DOMAIN defaults |-> IF k \in DOMAIN keys THEN keys[k] ELSE defaults[k]]

\* The section as Unmarshal is given it.  Keys of a shadowed section are not
\* merged with the defaults: one key in the file hides them all.
Section(src, sec) ==
    IF sec \in Shadowed /\ sec \in DOMAIN src.file
    THEN src.file[sec]
    ELSE WithDefaults(FileSection(src, sec), Defaults[sec])

\* A field whose key is in no source keeps its zero value.
Field(src, sec, key, zero) ==
    IF key \in DOMAIN Section(src, sec) THEN Section(src, sec)[key] ELSE zero

\* viper.Unmarshal(&cfg).  A number is stored in the field's width.
Unmarshal(src) ==
    LET Z == ZeroConfig
    IN  [Daemon         |-> Field(src, "server", "daemon", Z.Daemon),
         TLS            |-> Field(src, "server", "tls", Z.TLS),
         TLSCert        |-> Field(src, "server", "tls_cert", Z.TLSCert),
         TLSKey         |-> Field(src, "server", "tls_key", Z.TLSKey),
         MaxQoS         |-> Field(src, "mqtt", "max_qos", Z.MaxQoS) % 256,
         MaxMessageAge  |-> Field(src, "cleanup", "max_message_age", Z.MaxMessageAge),
         CheckInterval  |-> Field(src, "cleanup", "check_interval", Z.CheckInterval),
         BatchSize      |-> Field(src, "cleanup", "batch_size", Z.BatchSize),
         CacheSize      |-> Field(src, "sqlite", "cache_size", Z.CacheSize),
         TempStore      |-> Field(src, "sqlite", "temp_store", Z.TempStore),
         MmapSize       |-> Field(src, "sqlite", "mmap_size", Z.MmapSize),
         BusyTimeout    |-> Field(src, "sqlite", "busy_timeout", Z.BusyTimeout),
         Synchronous    |-> Field(src, "sqlite", "synchronous", Z.Synchronous),
         JournalMode    |-> Field(src, "sqlite", "journal_mode", Z.JournalMode),
         MetricsEnabled |-> Field(src, "metrics", "metrics", Z.MetricsEnabled),
         MetricsPath    |-> Field(src, "metrics", "metrics_path", Z.MetricsPath),
         ClusterEnabled |-> Field(src, "cluster", "cluster", Z.ClusterEnabled)]

\* A scalar (--metrics, PROMPTMQ_METRICS) cannot be decoded into a section, nor
\* a value of the wrong type into a field.
Decodes(src) == src.given \cap Shadowed = {} /\ IsConfig(Unmarshal(src))

\* Mutant: zero passes for positive.
ValidUpToZero(cfg) ==
    /\ cfg.MaxQoS <= 2
    /\ cfg.TLS => cfg.TLSCert # "" /\ cfg.TLSKey # ""
    /\ cfg.MaxMessageAge >= 0 /\ cfg.CheckInterval >= 0 /\ cfg.BatchSize >= 0
    /\ cfg.TempStore \in {"MEMORY", "FILE", "DEFAULT"}
    /\ cfg.Synchronous \in {"OFF", "NORMAL", "FULL", "EXTRA"}
    /\ cfg.JournalMode \in {"DELETE", "TRUNCATE", "PERSIST", "MEMORY", "WAL", "OFF"}
    /\ cfg.CacheSize # 0 /\ cfg.MmapSize >= 0 /\ cfg.BusyTimeout >= 0

\* validate
Valid(cfg) ==
    /\ cfg.MaxQoS <= 2
    /\ cfg.TLS => cfg.TLSCert # "" /\ cfg.TLSKey # ""
    /\ cfg.MaxMessageAge > 0 /\ cfg.CheckInterval > 0 /\ cfg.BatchSize > 0
    /\ cfg.TempStore \in {"MEMORY", "FILE", "DEFAULT"}
    /\ cfg.Synchronous \in {"OFF", "NORMAL", "FULL", "EXTRA"}
    /\ cfg.JournalMode \in {"DELETE", "TRUNCATE", "PERSIST", "MEMORY", "WAL", "OFF"}
    /\ cfg.CacheSize # 0 /\ cfg.MmapSize >= 0 /\ cfg.BusyTimeout >= 0

\* Load returns a Config and no error.
Loads(src) == Decodes(src) /\ Valid(Unmarshal(src))
=============================================================================
