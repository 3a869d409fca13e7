---------------------------- MODULE MetricsHooks ----------------------------
(***************************************************************************)
(* The metrics hook (internal/metrics/hooks.go) around connections and     *)
(* subscriptions: the connection gauge and totals, the subscriber gauge of *)
(* each topic, and the plain Go map connectionStartTimes.  No lock guards  *)
(* any of them.  The metrics are atomic, so each hook is cut at every one  *)
(* it touches; the map is not, so a write to it has a beginning and an     *)
(* end, and an access by another goroutine in between is a data race.      *)
(*                                                                         *)
(* External: the MQTT server.  It runs the hooks of a connection in that   *)
(* connection's goroutine, OnConnect first and OnDisconnect last; but if   *)
(* the CONNACK or the inflight messages cannot be sent after OnConnect, it *)
(* gives the connection up and OnDisconnect is never called.  Two          *)
(* connections may carry one client id while the newer takes the session   *)
(* over.  A session may outlive its connection; when it expires the        *)
(* server's event loop calls OnClientExpired.  OnSubscribe and             *)
(* OnUnsubscribe come before the server changes its topic tree, which it   *)
(* may refuse to do, and a session that ends takes its subscriptions along *)
(* without either.  A packet names a filter once.                          *)
(***************************************************************************)
EXTENDS Integers, FiniteSets

CONSTANTS
    Conns,          \* connection goroutines
    EventLoop,      \* the server's event loop
    ClientIDs,
    Topics,         \* filters of subscriptions
    Untracked,      \* those with a wildcard, or of 100 bytes and more
    MaxConnects,    \* bound: connections made
    MaxFailures,    \* bound: connections given up after OnConnect
    MaxRequests     \* bound: SUBSCRIBE and UNSUBSCRIBE packets

ASSUME HooksAssumption ==
    /\ EventLoop \notin Conns /\ IsFiniteSet(Conns) /\ IsFiniteSet(ClientIDs)
    /\ MaxConnects \in Nat /\ MaxFailures \in Nat /\ MaxRequests \in Nat

Actors == Conns \cup {EventLoop}

VARIABLES
    connectionsCurrent, connectionsTotal, disconnectionsTotal,
    startTimes,     \* the keys of connectionStartTimes
    subscriberGauge,
    dead,           \* the Go runtime has aborted the process
    pc,             \* where each goroutine's hook is
    id,             \* its cl.ID
    filters,        \* pk.Filters of the request it handles
    sessions,       \* disconnected clients whose session the server keeps
    subs,           \* <<client, filter>> in the server's topic tree
    \* history
    requests,       \* SUBSCRIBE and UNSUBSCRIBE packets read
    strays,         \* unsubscriptions counted that removed nothing
    surplus,        \* subscriptions counted that added nothing, or were
                    \* dropped with their session
    expirations,    \* calls of OnClientExpired that changed the gauge
    failures,       \* connections given up after OnConnect
    left,           \* clients given up whose start time no later put replaced
    raced           \* a data race on connectionStartTimes has happened

gauges  == <<connectionsCurrent, connectionsTotal, disconnectionsTotal>>
times   == <<startTimes, left>>
map     == <<times, dead, raced>>
traffic == <<subscriberGauge, filters, requests, strays>>
tree    == <<subs, surplus>>
server  == <<id, sessions, tree>>
odd     == <<expirations, failures>>
vars    == <<gauges, map, traffic, server, pc, odd>>

-----------------------------------------------------------------------------
NoClient == [name |-> ""]

Steps == {"off", "total", "put", "putting", "attach", "on",
          "dec", "disc", "lookup", "delete", "deleting",
          "subscribe", "unsubscribe"}

TypeOK ==
    /\ connectionsCurrent \in Int
    /\ connectionsTotal \in Nat /\ disconnectionsTotal \in Nat
    /\ startTimes \subseteq ClientIDs
    /\ subscriberGauge \in [Topics -> Int]
    /\ dead \in BOOLEAN /\ raced \in BOOLEAN
    /\ pc \in [Actors -> Steps]
    /\ pc[EventLoop] \in {"off", "dec", "disc", "lookup", "delete", "deleting"}
    /\ DOMAIN id = Actors /\ \A a \in Actors : pc[a] # "off" => id[a] \in ClientIDs
    /\ filters \in [Conns -> SUBSET Topics]
    /\ sessions \subseteq ClientIDs /\ subs \subseteq ClientIDs \X Topics
    /\ requests \in Nat /\ expirations \in Nat /\ failures \in Nat /\ left \subseteq ClientIDs
    /\ strays \in [Topics -> Nat] /\ surplus \in [Topics -> Nat]

Init ==
    /\ connectionsCurrent = 0 /\ connectionsTotal = 0 /\ disconnectionsTotal = 0
    /\ startTimes = {}
    /\ subscriberGauge = [t \in Topics |-> 0]
    /\ dead = FALSE /\ raced = FALSE
    /\ pc = [a \in Actors |-> "off"]
    /\ id = [a \in Actors |-> NoClient]
    /\ filters = [c \in Conns |-> {}]
    /\ sessions = {} /\ subs = {}
    /\ requests = 0 /\ expirations = 0 /\ failures = 0 /\ left = {}
    /\ strays = [t \in Topics |-> 0] /\ surplus = [t \in Topics |-> 0]

Goto(a, step) == pc' = [pc EXCEPT ![a] = step]

At(a, step) == ~dead /\ pc[a] = step

-----------------------------------------------------------------------------
(* The map connectionStartTimes.                                           *)

\* Goroutines in the middle of a write to the map.
Writing == {a \in Actors : pc[a] \in {"putting", "deleting"}}

\* An access while another goroutine writes: the runtime aborts the process if
\* it notices ("concurrent map writes"), and need not notice.
Access(a) ==
    LET race == Writing \ {a} # {}
    IN  /\ raced' = (raced \/ race)
        /\ \E fatal \in {FALSE, race} : dead' = fatal

\* After a race a write may be lost.
Write(keys) == startTimes' = keys \/ (raced /\ UNCHANGED startTimes)

-----------------------------------------------------------------------------
(* OnConnect.                                                              *)

\* atomic.AddInt64(s.connectionsCurrent, 1), for the client id of the CONNECT.
OnConnect(c, x) ==
    /\ At(c, "off") /\ connectionsTotal < MaxConnects
    /\ connectionsCurrent' = connectionsCurrent + 1
    /\ id' = [id EXCEPT ![c] = x]
    /\ Goto(c, "total")
    /\ UNCHANGED <<connectionsTotal, disconnectionsTotal, map, traffic, sessions, tree, odd>>

CountConnection(c) ==
    /\ At(c, "total")
    /\ connectionsTotal' = connectionsTotal + 1
    /\ Goto(c, "put")
    /\ UNCHANGED <<connectionsCurrent, disconnectionsTotal, map, traffic, server, odd>>

BeginPut(c) ==
    /\ At(c, "put")
    /\ Access(c) /\ Goto(c, "putting")
    /\ UNCHANGED <<gauges, times, traffic, server, odd>>

\* Mutant: the entry is keyed by the connection instead of the client id.
PutByConnection(c) ==
    /\ At(c, "putting")
    /\ Write(startTimes \cup {c})
    /\ left' = left \ {id[c]}
    /\ Goto(c, "attach")
    /\ UNCHANGED <<gauges, dead, raced, traffic, server, odd>>

EndPut(c) ==
    /\ At(c, "putting")
    /\ Write(startTimes \cup {id[c]})
    /\ left' = left \ {id[c]}
    /\ Goto(c, "attach")
    /\ UNCHANGED <<gauges, dead, raced, traffic, server, odd>>

\* One more for each filter of F in a count of each topic.
Plus(count, F) == [t \in Topics |-> count[t] + IF t \in F THEN 1 ELSE 0]

\* The filters a client has in the topic tree.
SubsOf(x) == {t \in Topics : <<x, t>> \in subs}

\* The subscriptions of a client whose session ends: UnsubscribeClient calls
\* OnUnsubscribed only, which counts nothing.
DropSubs(x) ==
    /\ subs' = {s \in subs : s[1] # x}
    /\ surplus' = Plus(surplus, SubsOf(x))

\* The server hands the client its old session or, for a clean start, ends it,
\* and sends CONNACK and the inflight messages.
Attach(c) ==
    /\ At(c, "attach")
    /\ Goto(c, "on")
    /\ sessions' = sessions \ {id[c]}
    /\ UNCHANGED tree \/ DropSubs(id[c])
    /\ UNCHANGED <<gauges, map, traffic, id, odd>>

\* The old session is handed over, but CONNACK or an inflight message cannot be
\* sent: the server gives the connection up and calls OnDisconnect for nobody.
\* Its session waits for the event loop, unless another connection of the
\* client has it.
AttachFails(c) ==
    /\ At(c, "attach") /\ failures < MaxFailures
    /\ failures' = failures + 1
    /\ left' = left \cup {id[c]}
    /\ Goto(c, "off")
    /\ id' = [id EXCEPT ![c] = NoClient]
    /\ \/ sessions' = sessions \cup {id[c]}
       \/ (\E d \in Conns \ {c} : id[d] = id[c]) /\ UNCHANGED sessions
    /\ UNCHANGED tree \/ DropSubs(id[c])
    /\ UNCHANGED <<gauges, startTimes, dead, raced, traffic, expirations>>

-----------------------------------------------------------------------------
(* OnDisconnect and OnClientExpired: the same body.                        *)

\* The connection ends, on its own or because a newer one takes over.
Disconnect(c) ==
    /\ At(c, "on")
    /\ Goto(c, "dec")
    /\ UNCHANGED <<gauges, map, traffic, server, odd>>

\* The event loop finds that the session of a disconnected client is over.
ExpireSession(x) ==
    /\ At(EventLoop, "off") /\ x \in sessions
    /\ sessions' = sessions \ {x}
    /\ DropSubs(x) \/ UNCHANGED tree
    /\ id' = [id EXCEPT ![EventLoop] = x]
    /\ Goto(EventLoop, "dec")
    /\ UNCHANGED <<gauges, map, traffic, odd>>

\* Mutant: no decrement when a newer connection has taken the client over.
DecrementUnlessTakenOver(a) ==
    /\ At(a, "dec")
    /\ connectionsCurrent' = IF \E c \in Conns \ {a} : id[c] = id[a] /\ pc[c] = "on"
                             THEN connectionsCurrent ELSE connectionsCurrent - 1
    /\ expirations' = IF a = EventLoop THEN expirations + 1 ELSE expirations
    /\ Goto(a, "disc")
    /\ UNCHANGED <<connectionsTotal, disconnectionsTotal, map, traffic, server, failures>>

DecrementCurrent(a) ==
    /\ At(a, "dec")
    /\ connectionsCurrent' = connectionsCurrent - 1
    /\ expirations' = IF a = EventLoop THEN expirations + 1 ELSE expirations
    /\ Goto(a, "disc")
    /\ UNCHANGED <<connectionsTotal, disconnectionsTotal, map, traffic, server, failures>>

CountDisconnection(a) ==
    /\ At(a, "disc")
    /\ disconnectionsTotal' = disconnectionsTotal + 1
    /\ Goto(a, "lookup")
    /\ UNCHANGED <<connectionsCurrent, connectionsTotal, map, traffic, server, odd>>

\* Once OnDisconnect has returned the server keeps the session or ends it,
\* unless another connection of the client has it.
EndSession(a) ==
    /\ id' = [id EXCEPT ![a] = NoClient]
    /\ \/ a # EventLoop /\ sessions' = sessions \cup {id[a]} /\ UNCHANGED tree
       \/ a # EventLoop /\ sessions' = sessions \ {id[a]} /\ DropSubs(id[a])
       \/ /\ \/ a = EventLoop \/ id[a] \in sessions
             \/ \E c \in Conns \ {a} : id[c] = id[a]
          /\ UNCHANGED <<sessions, tree>>

\* if startTime, exists := connectionStartTimes[cl.ID]; exists { ... }
LookupStartTime(a) ==
    /\ At(a, "lookup")
    /\ Access(a)
    /\ IF id[a] \in startTimes
       THEN Goto(a, "delete") /\ UNCHANGED server
       ELSE Goto(a, "off") /\ EndSession(a)
    /\ UNCHANGED <<gauges, times, traffic, odd>>

BeginDelete(a) ==
    /\ At(a, "delete")
    /\ Access(a) /\ Goto(a, "deleting")
    /\ UNCHANGED <<gauges, times, traffic, server, odd>>

\* Mutant: the start time is observed and not deleted.
ForgetDelete(a) ==
    /\ At(a, "deleting")
    /\ Goto(a, "off")
    /\ EndSession(a)
    /\ UNCHANGED <<gauges, map, traffic, odd>>

EndDelete(a) ==
    /\ At(a, "deleting")
    /\ Write(startTimes \ {id[a]})
    /\ Goto(a, "off")
    /\ EndSession(a)
    /\ UNCHANGED <<gauges, left, dead, raced, traffic, odd>>

-----------------------------------------------------------------------------
(* OnSubscribe and OnUnsubscribe.                                          *)

\* !containsWildcard(filter) && len(filter) < 100
Tracked(t) == t \notin Untracked

\* The gauges of the filters of a packet move by n; each moves atomically, and
\* the server looks at none of them.
MoveGauge(F, n) ==
    subscriberGauge' = [t \in Topics |-> subscriberGauge[t] + IF t \in F /\ Tracked(t) THEN n ELSE 0]

Request(c, F, step) ==
    /\ At(c, "on") /\ requests < MaxRequests
    /\ requests' = requests + 1
    /\ filters' = [filters EXCEPT ![c] = F]
    /\ Goto(c, step)
    /\ UNCHANGED <<gauges, map, strays, server, odd>>

\* Mutant: a filter that is not tracked ends the loop.
OnSubscribeAllTracked(c, F) ==
    Request(c, F, "subscribe") /\ MoveGauge(IF F \cap Untracked = {} THEN F ELSE {}, 1)

OnSubscribe(c, F) == Request(c, F, "subscribe") /\ MoveGauge(F, 1)

OnUnsubscribe(c, F) == Request(c, F, "unsubscribe") /\ MoveGauge(F, -1)

\* The server adds the subscriptions it does not refuse (a filter that is not
\* valid, a packet id in use); OnSubscribed counts nothing.
Subscribed(c) ==
    /\ At(c, "subscribe")
    /\ \E granted \in SUBSET filters[c] :
          /\ subs' = subs \cup ({id[c]} \X granted)
          /\ surplus' = Plus(surplus, filters[c] \ (granted \ SubsOf(id[c])))
    /\ filters' = [filters EXCEPT ![c] = {}]
    /\ Goto(c, "on")
    /\ UNCHANGED <<gauges, map, subscriberGauge, requests, strays, id, sessions, odd>>

\* The server removes what there is, or nothing when the packet id is in use;
\* OnUnsubscribed counts nothing.
Unsubscribed(c) ==
    /\ At(c, "unsubscribe")
    /\ \E taken \in {filters[c], {}} :
          /\ subs' = subs \ ({id[c]} \X taken)
          /\ strays' = Plus(strays, filters[c] \ (taken \cap SubsOf(id[c])))
    /\ filters' = [filters EXCEPT ![c] = {}]
    /\ Goto(c, "on")
    /\ UNCHANGED <<gauges, map, subscriberGauge, requests, surplus, id, sessions, odd>>

-----------------------------------------------------------------------------
Teardown(a) ==
    \/ DecrementCurrent(a) \/ CountDisconnection(a)
    \/ LookupStartTime(a) \/ BeginDelete(a) \/ EndDelete(a)

Next ==
    \/ \E c \in Conns :
          \/ \E x \in ClientIDs : OnConnect(c, x)
          \/ CountConnection(c) \/ BeginPut(c) \/ EndPut(c)
          \/ Attach(c) \/ AttachFails(c) \/ Disconnect(c)
          \/ \E F \in SUBSET Topics \ {{}} : OnSubscribe(c, F) \/ OnUnsubscribe(c, F)
          \/ Subscribed(c) \/ Unsubscribed(c)
    \/ \E x \in ClientIDs : ExpireSession(x)
    \/ \E a \in Actors : Teardown(a)

Spec == Init /\ [][Next]_vars

-----------------------------------------------------------------------------
(* Properties.                                                             *)

\* Connections counted by the gauge: past its increment in OnConnect and not
\* yet past its decrement in OnDisconnect.
Counted == {c \in Conns : pc[c] \notin {"off", "disc", "lookup", "delete", "deleting"}}

\* connections_current is the number of connections, one more for every
\* connection given up after OnConnect and one less for every expired session,
\* and the two totals account for it, whatever the interleaving of OnConnect,
\* OnDisconnect and OnClientExpired.  Its help text promises more: see
\* GaugeIsCurrent.
GaugeAccounted ==
    /\ connectionsCurrent = Cardinality(Counted) + failures - expirations
    /\ connectionsCurrent + disconnectionsTotal =
          connectionsTotal + Cardinality({c \in Conns : pc[c] = "total"})
                           - Cardinality({a \in Actors : pc[a] = "disc"})

\* "Current number of active client connections": while no hook runs, the gauge
\* is the number of connections.  A connection the server gives up after
\* OnConnect is never taken off again, and a session that expires is taken off
\* though OnDisconnect took its connection off before.
GaugeIsCurrent ==
    (\A a \in Actors : pc[a] \in {"off", "on"})
        => connectionsCurrent = Cardinality({c \in Conns : pc[c] = "on"})

\* connectionStartTimes keeps no entry for a client that is gone, even when
\* connections of one client id overlap, but for clients given up before
\* OnDisconnect, until they come back; as long as no data race damages the map.
NoStartTimeLeak ==
    ~raced => \A x \in startTimes :
        x \in left \/ \E c \in Conns : id[c] = x /\ pc[c] # "off"

\* Connections whose SUBSCRIBE or UNSUBSCRIBE of a filter is counted and not in
\* the topic tree yet.
Pending(step, t) == {c \in Conns : pc[c] = step /\ t \in filters[c]}

\* topic_subscribers, whose help says "Current number of subscribers per topic",
\* is off by exactly what the server refused, repeated or dropped after the hook
\* had counted: too high for subscriptions refused, made twice or dropped with
\* their session, too low for unsubscriptions refused or from nothing.
SubscribersAccounted ==
    \A t \in Topics : Tracked(t) =>
        subscriberGauge[t] + strays[t] + Cardinality(Pending("unsubscribe", t))
            = Cardinality({x \in ClientIDs : <<x, t>> \in subs}) + surplus[t]
              + Cardinality(Pending("subscribe", t))

\* The metrics are safe for concurrent use: no data race happens on the map of
\* start times.
NoMapRace == ~raced
=============================================================================
