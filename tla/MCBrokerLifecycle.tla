------------------------- MODULE MCBrokerLifecycle -------------------------
(***************************************************************************)
(* Small instances of BrokerLifecycle for TLC.                             *)
(***************************************************************************)
EXTENDS BrokerLifecycle

CONSTANTS c1, c2

NoFile == [k \in {} |-> 0]

\* promptmq server, with no file and no flag.
Bare == [given |-> {}, file |-> NoFile]

\* The configuration file of the README, by the keys it documents.
Documented ==
    [given |-> {}, file |-> [server  |-> [daemon |-> FALSE, tls |-> FALSE],
                             sqlite  |-> [synchronous |-> "NORMAL", journal_mode |-> "WAL"],
                             metrics |-> [enabled |-> TRUE, path |-> "/metrics"]]]

\* Files that reach the fields of MetricsConfig by the keys of their tags.
WithMetrics ==
    [given |-> {"daemon"}, file |-> [metrics |-> [metrics |-> TRUE, metrics_path |-> "/metrics"]]]
OverHealth ==
    [given |-> {}, file |-> [metrics |-> [metrics |-> TRUE, metrics_path |-> "/health"]]]
NoPath == [given |-> {}, file |-> [metrics |-> [metrics |-> TRUE, path |-> "/metrics"]]]

AsDaemon == [given |-> {}, file |-> [server |-> [daemon |-> TRUE]]]

\* Flags viper takes for a section, and files at the edges of validate.
MetricsFlag == [given |-> {"metrics"}, file |-> NoFile]
AgeZero     == [given |-> {}, file |-> [cleanup |-> [max_message_age |-> 0]]]
NoBatch     == [given |-> {}, file |-> [cleanup |-> [check_interval |-> 1, batch_size |-> 0]]]
BadSync     == [given |-> {}, file |-> [sqlite |-> [synchronous |-> "ON"]]]
NoKey       == [given |-> {}, file |-> [server |-> [tls |-> TRUE, tls_cert |-> "cert.pem"]]]
EmptyKey    == [given |-> {}, file |-> [server |-> [tls |-> TRUE, tls_cert |-> "cert.pem",
                                                    tls_key |-> ""]]]
HighQoS     == [given |-> {}, file |-> [mqtt |-> [max_qos |-> 3]]]
WrappedQoS  == [given |-> {}, file |-> [mqtt |-> [max_qos |-> 256]]]
NoCache     == [given |-> {}, file |-> [sqlite |-> [cache_size |-> 0]]]
SmallCache  == [given |-> {}, file |-> [sqlite |-> [cache_size |-> 0 - 2000, mmap_size |-> 0,
                                                    busy_timeout |-> 0]]]

Files       == {Bare, Documented, WithMetrics, OverHealth, NoPath, AsDaemon, MetricsFlag,
                AgeZero, NoBatch, BadSync, NoKey, EmptyKey, HighQoS, WrappedQoS,
                NoCache, SmallCache}
OnlyBare    == {Bare}
=============================================================================
