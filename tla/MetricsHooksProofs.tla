------------------------- MODULE MetricsHooksProofs -------------------------
(***************************************************************************)
(* Theorems about MetricsHooks: what the metrics hook counts without a     *)
(* lock is off by exactly the calls the server leaves out or adds, for any *)
(* number of connections and client ids, because every hook moves each     *)
(* counter once; and the map of start times forgets every client that      *)
(* OnDisconnect was called for, as long as no data race damages it.        *)
(***************************************************************************)
EXTENDS MetricsHooks, FiniteSetTheorems, TLAPS

-----------------------------------------------------------------------------
(* Counting actors.                                                        *)

\* Goroutines are counted in finite sets, one at a time.
LEMMA ActorCount ==
    ASSUME NEW S \in SUBSET Actors
    PROVE  /\ IsFiniteSet(S) /\ Cardinality(S) \in Nat
           /\ \A a \in Actors \ S : Cardinality(S \cup {a}) = Cardinality(S) + 1
           /\ \A a \in S : Cardinality(S \ {a}) = Cardinality(S) - 1
<1>1. IsFiniteSet(Actors)
  BY HooksAssumption, FS_AddElement DEF HooksAssumption, Actors
<1>2. IsFiniteSet(S)
  BY <1>1, FS_Subset
<1> QED
  BY <1>2, FS_CardinalityType, FS_AddElement, FS_RemoveElement

\* The event loop is no connection.
LEMMA ConnsAreActors == Conns \subseteq Actors /\ EventLoop \in Actors /\ EventLoop \notin Conns
  BY HooksAssumption DEF HooksAssumption, Actors

-----------------------------------------------------------------------------
(* Types.                                                                  *)

\* A session that goes or stays leaves the topic tree well-formed.
LEMMA TreeType ==
    ASSUME TypeOK, NEW x, UNCHANGED tree \/ DropSubs(x)
    PROVE  subs' \subseteq ClientIDs \X Topics /\ surplus' \in [Topics -> Nat]
<1>1. subs \subseteq ClientIDs \X Topics /\ surplus \in [Topics -> Nat]
  BY DEF TypeOK
<1>2. CASE UNCHANGED tree
  BY <1>1, <1>2 DEF tree
<1>3. CASE DropSubs(x)
  BY <1>1, <1>3 DEF DropSubs, Plus
<1> QED
  BY <1>2, <1>3

\* The end of a hook of the server leaves its client ids and subscriptions
\* well-formed.
LEMMA EndSessionType ==
    ASSUME TypeOK, NEW a \in Actors, pc[a] # "off", EndSession(a)
    PROVE  /\ sessions' \subseteq ClientIDs /\ subs' \subseteq ClientIDs \X Topics
           /\ surplus' \in [Topics -> Nat]
           /\ id' = [id EXCEPT ![a] = NoClient]
<1>1. id[a] \in ClientIDs
  BY DEF TypeOK
<1>2. sessions \subseteq ClientIDs /\ subs \subseteq ClientIDs \X Topics
  BY DEF TypeOK
<1>3. /\ sessions' \subseteq sessions \cup {id[a]}
      /\ UNCHANGED tree \/ DropSubs(id[a])
  BY DEF EndSession
<1>4. subs' \subseteq ClientIDs \X Topics /\ surplus' \in [Topics -> Nat]
  BY <1>3, TreeType
<1> QED
  BY <1>1, <1>2, <1>3, <1>4 DEF EndSession

\* Every step keeps the types.
LEMMA TypeNext == TypeOK /\ [Next]_vars => TypeOK'
<1> SUFFICES ASSUME TypeOK, [Next]_vars PROVE TypeOK'
  OBVIOUS
<1> USE ConnsAreActors DEF Goto, At, Steps
<1>1. ASSUME NEW c \in Conns, NEW x \in ClientIDs, OnConnect(c, x) PROVE TypeOK'
  BY <1>1 DEF TypeOK, OnConnect, gauges, times, map, traffic, tree, odd
<1>2. ASSUME NEW c \in Conns, CountConnection(c) PROVE TypeOK'
  BY <1>2 DEF TypeOK, CountConnection, times, map, traffic, server, tree, odd
<1>3. ASSUME NEW c \in Conns, BeginPut(c) PROVE TypeOK'
  <2>1. raced' \in BOOLEAN /\ dead' \in BOOLEAN
    BY <1>3 DEF BeginPut, Access, TypeOK
  <2> QED
    BY <1>3, <2>1 DEF TypeOK, BeginPut, gauges, times, traffic, server, tree, odd
<1>4. ASSUME NEW c \in Conns, EndPut(c) PROVE TypeOK'
  <2>1. id[c] \in ClientIDs
    BY <1>4 DEF EndPut, TypeOK
  <2>2. startTimes' \subseteq ClientIDs /\ left' \subseteq ClientIDs
    BY <1>4, <2>1 DEF EndPut, Write, TypeOK
  <2> QED
    BY <1>4, <2>2 DEF TypeOK, EndPut, gauges, traffic, server, tree, odd
<1>5. ASSUME NEW c \in Conns, Attach(c) PROVE TypeOK'
  <2>1. sessions' \subseteq ClientIDs
    BY <1>5 DEF Attach, TypeOK
  <2>2. subs' \subseteq ClientIDs \X Topics /\ surplus' \in [Topics -> Nat]
    BY <1>5, TreeType DEF Attach
  <2> QED
    BY <1>5, <2>1, <2>2 DEF TypeOK, Attach, gauges, times, map, traffic, odd
<1>6. ASSUME NEW c \in Conns, AttachFails(c) PROVE TypeOK'
  <2>1. id[c] \in ClientIDs
    BY <1>6 DEF AttachFails, TypeOK
  <2>2. sessions' \subseteq ClientIDs /\ left' \subseteq ClientIDs
    BY <1>6, <2>1 DEF AttachFails, TypeOK
  <2>3. subs' \subseteq ClientIDs \X Topics /\ surplus' \in [Topics -> Nat]
    BY <1>6, TreeType DEF AttachFails
  <2> QED
    BY <1>6, <2>2, <2>3 DEF TypeOK, AttachFails, gauges, traffic
<1>7. ASSUME NEW c \in Conns, Disconnect(c) PROVE TypeOK'
  BY <1>7 DEF TypeOK, Disconnect, gauges, times, map, traffic, server, tree, odd
<1>8. ASSUME NEW x \in ClientIDs, ExpireSession(x) PROVE TypeOK'
  <2>1. subs' \subseteq ClientIDs \X Topics /\ surplus' \in [Topics -> Nat]
    BY <1>8, TreeType DEF ExpireSession
  <2> QED
    BY <1>8, <2>1 DEF TypeOK, ExpireSession, gauges, times, map, traffic, odd
<1>9. ASSUME NEW a \in Actors, DecrementCurrent(a) \/ CountDisconnection(a) PROVE TypeOK'
  BY <1>9 DEF TypeOK, DecrementCurrent, CountDisconnection, times, map, traffic, server,
     tree, odd
<1>10. ASSUME NEW a \in Actors, LookupStartTime(a) PROVE TypeOK'
  <2>1. raced' \in BOOLEAN /\ dead' \in BOOLEAN
    BY <1>10 DEF LookupStartTime, Access, TypeOK
  <2>2. CASE id[a] \in startTimes
    BY <1>10, <2>1, <2>2 DEF TypeOK, LookupStartTime, gauges, times, traffic, server, tree, odd
  <2>3. CASE id[a] \notin startTimes
    BY <1>10, <2>1, <2>3, EndSessionType DEF TypeOK, LookupStartTime, gauges, times,
       traffic, odd
  <2> QED
    BY <2>2, <2>3
<1>11. ASSUME NEW a \in Actors, BeginDelete(a) PROVE TypeOK'
  <2>1. raced' \in BOOLEAN /\ dead' \in BOOLEAN
    BY <1>11 DEF BeginDelete, Access, TypeOK
  <2> QED
    BY <1>11, <2>1 DEF TypeOK, BeginDelete, gauges, times, traffic, server, tree, odd
<1>12. ASSUME NEW a \in Actors, EndDelete(a) PROVE TypeOK'
  <2>1. startTimes' \subseteq ClientIDs
    BY <1>12 DEF EndDelete, Write, TypeOK
  <2> QED
    BY <1>12, <2>1, EndSessionType DEF TypeOK, EndDelete, gauges, traffic, odd
<1>13. ASSUME NEW c \in Conns, NEW F \in SUBSET Topics, OnSubscribe(c, F) \/ OnUnsubscribe(c, F)
       PROVE  TypeOK'
  <2>1. subscriberGauge' \in [Topics -> Int]
    BY <1>13 DEF OnSubscribe, OnUnsubscribe, MoveGauge, TypeOK
  <2>2. \E step \in {"subscribe", "unsubscribe"} : Request(c, F, step)
    BY <1>13 DEF OnSubscribe, OnUnsubscribe
  <2> QED
    BY <2>1, <2>2 DEF TypeOK, Request, gauges, times, map, server, tree, odd
<1>14. ASSUME NEW c \in Conns, Subscribed(c) PROVE TypeOK'
  <2>1. subs' \subseteq ClientIDs \X Topics /\ surplus' \in [Topics -> Nat]
    BY <1>14 DEF Subscribed, Plus, TypeOK
  <2> QED
    BY <1>14, <2>1 DEF TypeOK, Subscribed, gauges, times, map, odd
<1>15. ASSUME NEW c \in Conns, Unsubscribed(c) PROVE TypeOK'
  <2>1. strays' \in [Topics -> Nat] /\ subs' \subseteq ClientIDs \X Topics
    BY <1>15 DEF Unsubscribed, Plus, TypeOK
  <2> QED
    BY <1>15, <2>1 DEF TypeOK, Unsubscribed, gauges, times, map, odd
<1>16. CASE UNCHANGED vars
  BY <1>16 DEF TypeOK, vars, gauges, times, map, traffic, server, tree, odd
<1> QED
  BY <1>1, <1>2, <1>3, <1>4, <1>5, <1>6, <1>7, <1>8, <1>9, <1>10, <1>11, <1>12, <1>13, <1>14,
     <1>15, <1>16
     DEF Next, Teardown

\* The server starts with no connection.
LEMMA TypeInit == Init => TypeOK
<1> SUFFICES ASSUME Init PROVE TypeOK
  OBVIOUS
<1>1. pc \in [Actors -> Steps] /\ \A a \in Actors : pc[a] = "off"
  BY DEF Init, Steps
<1>2. filters \in [Conns -> SUBSET Topics] /\ DOMAIN id = Actors
  BY DEF Init
<1>3. subscriberGauge \in [Topics -> Int] /\ strays \in [Topics -> Nat]
      /\ surplus \in [Topics -> Nat]
  BY DEF Init
<1>4. dead \in BOOLEAN /\ raced \in BOOLEAN
  BY DEF Init
<1>5. /\ connectionsCurrent \in Int /\ connectionsTotal \in Nat /\ disconnectionsTotal \in Nat
      /\ requests \in Nat /\ expirations \in Nat /\ failures \in Nat
  BY DEF Init
<1>6. startTimes = {} /\ left = {} /\ sessions = {} /\ subs = {}
  BY DEF Init
<1> QED
  BY <1>1, <1>2, <1>3, <1>4, <1>5, <1>6, ConnsAreActors DEF TypeOK

(***************************************************************************)
(* Every variable of the metrics hook keeps its type, and the event loop   *)
(* only ever runs the body of OnClientExpired.                             *)
(***************************************************************************)
THEOREM HooksTypeCorrect == Spec => []TypeOK
  BY TypeInit, TypeNext, PTL DEF Spec

-----------------------------------------------------------------------------
(* The gauge of connections.                                               *)

Totalling     == {c \in Conns : pc[c] = "total"}
Disconnecting == {a \in Actors : pc[a] = "disc"}

\* Steps that leave the counters alone and move no goroutine across the sets
\* they count.
LEMMA GaugeUnmoved ==
    ASSUME GaugeAccounted, UNCHANGED <<gauges, odd>>,
           Counted' = Counted, Totalling' = Totalling, Disconnecting' = Disconnecting
    PROVE  GaugeAccounted'
  BY DEF GaugeAccounted, gauges, odd, Totalling, Disconnecting

\* Every hook moves the gauge and the totals together with its goroutine.
LEMMA GaugeNext == TypeOK /\ GaugeAccounted /\ [Next]_vars => GaugeAccounted'
<1> SUFFICES ASSUME TypeOK, GaugeAccounted, [Next]_vars PROVE GaugeAccounted'
  OBVIOUS
<1> USE ConnsAreActors DEF Goto, At
<1>0. /\ connectionsCurrent \in Int /\ connectionsTotal \in Nat /\ disconnectionsTotal \in Nat
      /\ expirations \in Nat /\ failures \in Nat /\ pc \in [Actors -> Steps]
      /\ pc[EventLoop] \in {"off", "dec", "disc", "lookup", "delete", "deleting"}
  BY DEF TypeOK
<1>1. /\ Counted \in SUBSET Actors /\ Totalling \in SUBSET Actors
      /\ Disconnecting \in SUBSET Actors
  BY DEF Counted, Totalling, Disconnecting
<1>2. /\ Cardinality(Counted) \in Nat /\ Cardinality(Totalling) \in Nat
      /\ Cardinality(Disconnecting) \in Nat
  BY <1>1, ActorCount
<1>3. /\ connectionsCurrent = Cardinality(Counted) + failures - expirations
      /\ connectionsCurrent + disconnectionsTotal =
            connectionsTotal + Cardinality(Totalling) - Cardinality(Disconnecting)
  BY DEF GaugeAccounted, Totalling, Disconnecting
<1>4. ASSUME connectionsCurrent' = Cardinality(Counted') + failures' - expirations',
             connectionsCurrent' + disconnectionsTotal' =
                connectionsTotal' + Cardinality(Totalling') - Cardinality(Disconnecting')
      PROVE  GaugeAccounted'
  BY <1>4 DEF GaugeAccounted, Totalling, Disconnecting
<1>5. ASSUME NEW c \in Conns, NEW x \in ClientIDs, OnConnect(c, x) PROVE GaugeAccounted'
  <2>1. /\ Counted' = Counted \cup {c} /\ c \notin Counted
        /\ Totalling' = Totalling \cup {c} /\ c \notin Totalling
        /\ Disconnecting' = Disconnecting
    BY <1>0, <1>5 DEF OnConnect, Counted, Totalling, Disconnecting
  <2>2. /\ Cardinality(Counted') = Cardinality(Counted) + 1
        /\ Cardinality(Totalling') = Cardinality(Totalling) + 1
    BY <1>1, <2>1, ActorCount
  <2> QED
    BY <1>0, <1>2, <1>3, <1>4, <1>5, <2>1, <2>2 DEF OnConnect, odd
<1>6. ASSUME NEW c \in Conns, CountConnection(c) PROVE GaugeAccounted'
  <2>1. /\ Counted' = Counted /\ Disconnecting' = Disconnecting
        /\ Totalling' = Totalling \ {c} /\ c \in Totalling
    BY <1>0, <1>6 DEF CountConnection, Counted, Totalling, Disconnecting
  <2>2. Cardinality(Totalling') = Cardinality(Totalling) - 1
    BY <1>1, <2>1, ActorCount
  <2> QED
    BY <1>0, <1>2, <1>3, <1>4, <1>6, <2>1, <2>2 DEF CountConnection, odd
<1>7. ASSUME NEW a \in Actors, DecrementCurrent(a) PROVE GaugeAccounted'
  <2>1. /\ Totalling' = Totalling
        /\ Disconnecting' = Disconnecting \cup {a} /\ a \notin Disconnecting
    BY <1>0, <1>7 DEF DecrementCurrent, Totalling, Disconnecting
  <2>2. Cardinality(Disconnecting') = Cardinality(Disconnecting) + 1
    BY <1>1, <2>1, ActorCount
  <2>3. Cardinality(Counted') + failures' - expirations' =
            (Cardinality(Counted) + failures - expirations) - 1
    <3>1. CASE a = EventLoop
      <4>1. Counted' = Counted /\ expirations' = expirations + 1 /\ failures' = failures
        BY <1>0, <1>7, <3>1 DEF DecrementCurrent, Counted
      <4> QED
        BY <1>0, <1>2, <4>1
    <3>2. CASE a # EventLoop
      <4>1. /\ Counted' = Counted \ {a} /\ a \in Counted
            /\ expirations' = expirations /\ failures' = failures
        BY <1>0, <1>7, <3>2 DEF DecrementCurrent, Counted, Actors
      <4>2. Cardinality(Counted') = Cardinality(Counted) - 1
        BY <1>1, <4>1, ActorCount
      <4> QED
        BY <1>0, <1>2, <4>1, <4>2
    <3> QED
      BY <3>1, <3>2
  <2> QED
    BY <1>0, <1>2, <1>3, <1>4, <1>7, <2>1, <2>2, <2>3 DEF DecrementCurrent
<1>8. ASSUME NEW a \in Actors, CountDisconnection(a) PROVE GaugeAccounted'
  <2>1. /\ Counted' = Counted /\ Totalling' = Totalling
        /\ Disconnecting' = Disconnecting \ {a} /\ a \in Disconnecting
    BY <1>0, <1>8 DEF CountDisconnection, Counted, Totalling, Disconnecting
  <2>2. Cardinality(Disconnecting') = Cardinality(Disconnecting) - 1
    BY <1>1, <2>1, ActorCount
  <2> QED
    BY <1>0, <1>2, <1>3, <1>4, <1>8, <2>1, <2>2 DEF CountDisconnection, odd
<1>9. ASSUME NEW c \in Conns,
             \/ BeginPut(c) \/ EndPut(c) \/ Attach(c) \/ Disconnect(c)
             \/ Subscribed(c) \/ Unsubscribed(c)
             \/ \E F \in SUBSET Topics : OnSubscribe(c, F) \/ OnUnsubscribe(c, F)
      PROVE  GaugeAccounted'
  <2>1. \E from, to \in {"put", "putting", "attach", "on", "dec", "subscribe", "unsubscribe"} :
            pc[c] = from /\ pc' = [pc EXCEPT ![c] = to]
    BY <1>9 DEF BeginPut, EndPut, Attach, Disconnect, Subscribed, Unsubscribed, OnSubscribe,
       OnUnsubscribe, Request
  <2>2. Counted' = Counted /\ Totalling' = Totalling /\ Disconnecting' = Disconnecting
    BY <1>0, <2>1 DEF Counted, Totalling, Disconnecting
  <2>3. UNCHANGED <<gauges, odd>>
    BY <1>9 DEF BeginPut, EndPut, Attach, Disconnect, Subscribed, Unsubscribed, OnSubscribe,
       OnUnsubscribe, Request
  <2> QED
    BY <2>2, <2>3, GaugeUnmoved
<1>10. ASSUME NEW x \in ClientIDs, ExpireSession(x) PROVE GaugeAccounted'
  <2>1. Counted' = Counted /\ Totalling' = Totalling /\ Disconnecting' = Disconnecting
    BY <1>0, <1>10 DEF ExpireSession, Counted, Totalling, Disconnecting
  <2> QED
    BY <1>10, <2>1, GaugeUnmoved DEF ExpireSession
<1>11. ASSUME NEW a \in Actors, LookupStartTime(a) \/ BeginDelete(a) \/ EndDelete(a)
       PROVE  GaugeAccounted'
  <2>1. /\ pc[a] \in {"lookup", "delete", "deleting"}
        /\ \E to \in {"off", "delete", "deleting"} : pc' = [pc EXCEPT ![a] = to]
    BY <1>11 DEF LookupStartTime, BeginDelete, EndDelete
  <2>2. Counted' = Counted /\ Totalling' = Totalling /\ Disconnecting' = Disconnecting
    BY <1>0, <2>1 DEF Counted, Totalling, Disconnecting
  <2> QED
    BY <1>11, <2>2, GaugeUnmoved DEF LookupStartTime, BeginDelete, EndDelete
<1>12. ASSUME NEW c \in Conns, AttachFails(c) PROVE GaugeAccounted'
  <2>1. /\ Counted' = Counted \ {c} /\ c \in Counted
        /\ Totalling' = Totalling /\ Disconnecting' = Disconnecting
    BY <1>0, <1>12 DEF AttachFails, Counted, Totalling, Disconnecting
  <2>2. Cardinality(Counted') = Cardinality(Counted) - 1
    BY <1>1, <2>1, ActorCount
  <2> QED
    BY <1>0, <1>2, <1>3, <1>4, <1>12, <2>1, <2>2 DEF AttachFails, gauges
<1>13. CASE UNCHANGED vars
  BY <1>13, GaugeUnmoved DEF vars, Counted, Totalling, Disconnecting
<1> QED
  BY <1>5, <1>6, <1>7, <1>8, <1>9, <1>10, <1>11, <1>12, <1>13 DEF Next, Teardown

(***************************************************************************)
(* For any number of connections, client ids and sessions:                 *)
(* connections_current is the number of connections, one more for every    *)
(* connection the server gave up between OnConnect and the first packet    *)
(* and one less for every session that expired, and the two totals account *)
(* for it, at every point of every interleaving of the hooks.              *)
(***************************************************************************)
THEOREM HooksGaugeAccounted == Spec => []GaugeAccounted
<1>1. Init => GaugeAccounted
  <2> SUFFICES ASSUME Init PROVE GaugeAccounted
    OBVIOUS
  <2>1. Counted = {} /\ Totalling = {} /\ Disconnecting = {}
    BY ConnsAreActors DEF Init, Counted, Totalling, Disconnecting
  <2> QED
    BY <2>1, FS_EmptySet DEF Init, GaugeAccounted, Totalling, Disconnecting
<1> QED
  BY <1>1, TypeInit, TypeNext, GaugeNext, PTL DEF Spec

-----------------------------------------------------------------------------
(* The map of start times.                                                 *)

\* A connection leaves only after it found no start time of its client, or
\* deleted it, or was given up; a write is lost only after a race.
LEMMA LeakNext == TypeOK /\ NoStartTimeLeak /\ [Next]_vars => NoStartTimeLeak'
<1> SUFFICES ASSUME TypeOK, NoStartTimeLeak, [Next]_vars, ~raced' PROVE NoStartTimeLeak'
  BY DEF NoStartTimeLeak
<1> USE ConnsAreActors DEF Goto, At
<1>0. /\ pc \in [Actors -> Steps] /\ DOMAIN id = Actors
  BY DEF TypeOK
<1>1. ~raced
  BY DEF Next, Teardown, OnConnect, CountConnection, BeginPut, EndPut, Attach, AttachFails,
     Disconnect, OnSubscribe, OnUnsubscribe, Request, Subscribed, Unsubscribed, ExpireSession,
     DecrementCurrent, CountDisconnection, LookupStartTime, BeginDelete, EndDelete, Access,
     map, vars
<1>2. \A x \in startTimes : x \in left \/ \E c \in Conns : id[c] = x /\ pc[c] # "off"
  BY <1>1 DEF NoStartTimeLeak
\* Nobody who was there leaves, and nothing enters the map.
<1>3. ASSUME startTimes' \subseteq startTimes, left' = left,
             \A d \in Conns : pc[d] # "off" => pc'[d] # "off" /\ id'[d] = id[d]
      PROVE  NoStartTimeLeak'
  BY <1>2, <1>3 DEF NoStartTimeLeak
<1>4. ASSUME NEW c \in Conns, NEW x \in ClientIDs, OnConnect(c, x) PROVE NoStartTimeLeak'
  BY <1>0, <1>3, <1>4 DEF OnConnect, map, times
<1>5. ASSUME NEW c \in Conns, EndPut(c) PROVE NoStartTimeLeak'
  <2>1. startTimes' = startTimes \cup {id[c]} /\ left' = left \ {id[c]}
    BY <1>1, <1>5 DEF EndPut, Write
  <2>2. \A d \in Conns : pc[d] # "off" => pc'[d] # "off" /\ id'[d] = id[d]
    BY <1>0, <1>5 DEF EndPut, server
  <2>3. id'[c] = id[c] /\ pc'[c] # "off"
    BY <1>0, <1>5 DEF EndPut, server
  <2> QED
    BY <1>2, <2>1, <2>2, <2>3 DEF NoStartTimeLeak
<1>6. ASSUME NEW c \in Conns, AttachFails(c) PROVE NoStartTimeLeak'
  <2>1. startTimes' = startTimes /\ left' = left \cup {id[c]}
    BY <1>6 DEF AttachFails
  <2>2. \A d \in Conns \ {c} : pc'[d] = pc[d] /\ id'[d] = id[d]
    BY <1>0, <1>6 DEF AttachFails
  <2> QED
    BY <1>2, <2>1, <2>2 DEF NoStartTimeLeak
<1>7. ASSUME NEW c \in Conns,
             \/ CountConnection(c) \/ BeginPut(c) \/ Attach(c) \/ Disconnect(c)
             \/ Subscribed(c) \/ Unsubscribed(c)
             \/ \E F \in SUBSET Topics : OnSubscribe(c, F) \/ OnUnsubscribe(c, F)
      PROVE  NoStartTimeLeak'
  <2>1. UNCHANGED <<startTimes, left, id>>
    BY <1>7 DEF CountConnection, BeginPut, Attach, Disconnect, Subscribed, Unsubscribed,
       OnSubscribe, OnUnsubscribe, Request, map, times, server
  <2>2. \E to \in Steps \ {"off"} : pc' = [pc EXCEPT ![c] = to]
    BY <1>7 DEF CountConnection, BeginPut, Attach, Disconnect, Subscribed, Unsubscribed,
       OnSubscribe, OnUnsubscribe, Request, Steps
  <2> QED
    BY <1>0, <1>3, <2>1, <2>2
<1>8. ASSUME NEW x \in ClientIDs, ExpireSession(x) PROVE NoStartTimeLeak'
  BY <1>0, <1>3, <1>8 DEF ExpireSession, map, times
<1>9. ASSUME NEW a \in Actors, DecrementCurrent(a) \/ CountDisconnection(a) \/ BeginDelete(a)
      PROVE  NoStartTimeLeak'
  <2>1. UNCHANGED <<startTimes, left, id>>
    BY <1>9 DEF DecrementCurrent, CountDisconnection, BeginDelete, map, times, server
  <2>2. \E to \in Steps \ {"off"} : pc' = [pc EXCEPT ![a] = to]
    BY <1>9 DEF DecrementCurrent, CountDisconnection, BeginDelete, Steps
  <2> QED
    BY <1>0, <1>3, <2>1, <2>2
\* The goroutine that returns takes nobody's start time but its own client's.
<1>10. ASSUME NEW a \in Actors, pc' = [pc EXCEPT ![a] = "off"], EndSession(a),
             startTimes' \subseteq startTimes \ {id[a]}, left' = left
      PROVE  NoStartTimeLeak'
  <2>1. \A d \in Conns \ {a} : pc'[d] = pc[d] /\ id'[d] = id[d]
    BY <1>0, <1>10 DEF EndSession
  <2> QED
    BY <1>2, <1>10, <2>1 DEF NoStartTimeLeak
<1>11. ASSUME NEW a \in Actors, LookupStartTime(a) PROVE NoStartTimeLeak'
  <2>1. CASE id[a] \in startTimes
    BY <1>0, <1>3, <1>11, <2>1 DEF LookupStartTime, times, server
  <2>2. CASE id[a] \notin startTimes
    BY <1>10, <1>11, <2>2 DEF LookupStartTime, times
  <2> QED
    BY <2>1, <2>2
<1>12. ASSUME NEW a \in Actors, EndDelete(a) PROVE NoStartTimeLeak'
  BY <1>1, <1>10, <1>12 DEF EndDelete, Write
<1>13. CASE UNCHANGED vars
  BY <1>3, <1>13 DEF vars, map, times, server
<1> QED
  BY <1>4, <1>5, <1>6, <1>7, <1>8, <1>9, <1>11, <1>12, <1>13 DEF Next, Teardown

(***************************************************************************)
(* Until a data race damages it, connectionStartTimes holds no client that *)
(* is gone but those the server gave up before OnDisconnect, though        *)
(* connections of one client id overlap, expirations and disconnections of *)
(* one id delete the same key, and either may find it already deleted.     *)
(***************************************************************************)
THEOREM HooksNoStartTimeLeak == Spec => []NoStartTimeLeak
<1>1. Init => NoStartTimeLeak
  BY DEF Init, NoStartTimeLeak
<1> QED
  BY <1>1, TypeInit, TypeNext, LeakNext, PTL DEF Spec

-----------------------------------------------------------------------------
(* The gauge of subscribers.                                               *)

Subscribers(t) == {x \in ClientIDs : <<x, t>> \in subs}

\* The property for one topic.
Accounted(t) ==
    subscriberGauge[t] + strays[t] + Cardinality(Pending("unsubscribe", t))
        = Cardinality(Subscribers(t)) + surplus[t] + Cardinality(Pending("subscribe", t))

\* A topic has finitely many subscribers, counted one at a time.
LEMMA ClientIDCount ==
    ASSUME NEW S \in SUBSET ClientIDs
    PROVE  /\ Cardinality(S) \in Nat
           /\ \A x \in ClientIDs \ S : Cardinality(S \cup {x}) = Cardinality(S) + 1
           /\ \A x \in S : Cardinality(S \ {x}) = Cardinality(S) - 1
<1>1. IsFiniteSet(S)
  BY HooksAssumption, FS_Subset DEF HooksAssumption
<1> QED
  BY <1>1, FS_CardinalityType, FS_AddElement, FS_RemoveElement

\* Every packet moves the gauge before it moves the topic tree, by one for each
\* filter; what it then does not add or remove, and what a session takes along,
\* is a stray or a surplus.
LEMMA SubscribersNext ==
    TypeOK /\ SubscribersAccounted /\ [Next]_vars => SubscribersAccounted'
<1> SUFFICES ASSUME TypeOK, SubscribersAccounted, [Next]_vars,
                    NEW t \in Topics, Tracked(t)
             PROVE  Accounted(t)'
  BY DEF SubscribersAccounted, Accounted, Subscribers
<1> USE ConnsAreActors DEF Goto, At
<1>0. /\ pc \in [Actors -> Steps] /\ filters \in [Conns -> SUBSET Topics]
      /\ subscriberGauge[t] \in Int /\ strays[t] \in Nat /\ surplus[t] \in Nat
      /\ subs \subseteq ClientIDs \X Topics
      /\ Accounted(t)
  BY DEF TypeOK, SubscribersAccounted, Accounted, Subscribers
<1>1. /\ Pending("subscribe", t) \in SUBSET Actors /\ Pending("unsubscribe", t) \in SUBSET Actors
      /\ Subscribers(t) \in SUBSET ClientIDs
  BY DEF Pending, Subscribers
<1>2. /\ Cardinality(Pending("subscribe", t)) \in Nat
      /\ Cardinality(Pending("unsubscribe", t)) \in Nat
      /\ Cardinality(Subscribers(t)) \in Nat
  BY <1>1, ActorCount, ClientIDCount
\* Nothing pending, nothing counted; the subscriptions of a session may go.
<1>3. ASSUME NEW a \in Actors, NEW x, UNCHANGED tree \/ DropSubs(x),
             UNCHANGED <<subscriberGauge, strays, filters>>,
             pc[a] \notin {"subscribe", "unsubscribe"},
             \E to \in Steps \ {"subscribe", "unsubscribe"} : pc' = [pc EXCEPT ![a] = to]
      PROVE  Accounted(t)'
  <2>1. /\ Pending("subscribe", t)' = Pending("subscribe", t)
        /\ Pending("unsubscribe", t)' = Pending("unsubscribe", t)
    BY <1>0, <1>3 DEF Pending
  <2>2. CASE UNCHANGED tree
    BY <1>0, <1>3, <2>1, <2>2 DEF Accounted, Subscribers, tree
  <2>3. CASE DropSubs(x) /\ x \in Subscribers(t)
    <3>1. Subscribers(t)' = Subscribers(t) \ {x}
      BY <2>3 DEF DropSubs, Subscribers
    <3>2. surplus'[t] = surplus[t] + 1
      BY <2>3 DEF DropSubs, Subscribers, SubsOf, Plus
    <3>3. Cardinality(Subscribers(t)') = Cardinality(Subscribers(t)) - 1
      BY <1>1, <2>3, <3>1, ClientIDCount
    <3> QED
      BY <1>0, <1>2, <1>3, <2>1, <3>2, <3>3 DEF Accounted
  <2>4. CASE DropSubs(x) /\ x \notin Subscribers(t)
    <3>1. Subscribers(t)' = Subscribers(t)
      BY <2>4 DEF DropSubs, Subscribers
    <3>2. surplus'[t] = surplus[t]
      BY <1>0, <2>4 DEF DropSubs, Subscribers, SubsOf, Plus
    <3> QED
      BY <1>0, <1>3, <2>1, <3>1, <3>2 DEF Accounted
  <2> QED
    BY <1>3, <2>2, <2>3, <2>4
<1>4. ASSUME NEW c \in Conns,
             \/ \E x \in ClientIDs : OnConnect(c, x)
             \/ CountConnection(c) \/ BeginPut(c) \/ EndPut(c) \/ Disconnect(c)
      PROVE  Accounted(t)'
  <2>1. UNCHANGED <<subscriberGauge, strays, filters, tree>>
    BY <1>4 DEF OnConnect, CountConnection, BeginPut, EndPut, Disconnect, traffic, server
  <2>2. /\ pc[c] \notin {"subscribe", "unsubscribe"}
        /\ \E to \in Steps \ {"subscribe", "unsubscribe"} : pc' = [pc EXCEPT ![c] = to]
    BY <1>4 DEF OnConnect, CountConnection, BeginPut, EndPut, Disconnect, Steps
  <2> QED
    BY <1>3, <2>1, <2>2
<1>5. ASSUME NEW c \in Conns, Attach(c) \/ AttachFails(c) PROVE Accounted(t)'
  <2>1. /\ UNCHANGED <<subscriberGauge, strays, filters>>
        /\ UNCHANGED tree \/ DropSubs(id[c])
    BY <1>5 DEF Attach, AttachFails, traffic
  <2>2. /\ pc[c] = "attach"
        /\ \E to \in Steps \ {"subscribe", "unsubscribe"} : pc' = [pc EXCEPT ![c] = to]
    BY <1>5 DEF Attach, AttachFails, Steps
  <2> QED
    BY <1>3, <2>1, <2>2
<1>6. ASSUME NEW x \in ClientIDs, ExpireSession(x) PROVE Accounted(t)'
  <2>1. /\ UNCHANGED <<subscriberGauge, strays, filters>>
        /\ UNCHANGED tree \/ DropSubs(x)
    BY <1>6 DEF ExpireSession, traffic
  <2>2. /\ pc[EventLoop] = "off"
        /\ \E to \in Steps \ {"subscribe", "unsubscribe"} : pc' = [pc EXCEPT ![EventLoop] = to]
    BY <1>6 DEF ExpireSession, Steps
  <2> QED
    BY <1>3, <2>1, <2>2
<1>7. ASSUME NEW a \in Actors, Teardown(a) PROVE Accounted(t)'
  <2>1. UNCHANGED <<subscriberGauge, strays, filters>>
    BY <1>7 DEF Teardown, DecrementCurrent, CountDisconnection, LookupStartTime, BeginDelete,
       EndDelete, traffic
  <2>2. UNCHANGED tree \/ DropSubs(id[a])
    BY <1>7 DEF Teardown, DecrementCurrent, CountDisconnection, LookupStartTime, BeginDelete,
       EndDelete, EndSession, server
  <2>3. /\ pc[a] \notin {"subscribe", "unsubscribe"}
        /\ \E to \in Steps \ {"subscribe", "unsubscribe"} : pc' = [pc EXCEPT ![a] = to]
    BY <1>7 DEF Teardown, DecrementCurrent, CountDisconnection, LookupStartTime, BeginDelete,
       EndDelete, Steps
  <2> QED
    BY <1>3, <2>1, <2>2, <2>3
<1>8. ASSUME NEW c \in Conns, NEW F \in SUBSET Topics, OnSubscribe(c, F) PROVE Accounted(t)'
  <2>1. /\ pc[c] = "on" /\ pc' = [pc EXCEPT ![c] = "subscribe"]
        /\ filters' = [filters EXCEPT ![c] = F] /\ UNCHANGED <<strays, tree>>
        /\ subscriberGauge'[t] = subscriberGauge[t] + (IF t \in F THEN 1 ELSE 0)
    BY <1>8 DEF OnSubscribe, Request, MoveGauge, server
  <2>2. /\ Pending("unsubscribe", t)' = Pending("unsubscribe", t)
        /\ c \notin Pending("subscribe", t)
        /\ Pending("subscribe", t)' = IF t \in F THEN Pending("subscribe", t) \cup {c}
                                      ELSE Pending("subscribe", t)
        /\ Subscribers(t)' = Subscribers(t)
    BY <1>0, <2>1 DEF Pending, Subscribers, tree
  <2>3. Cardinality(Pending("subscribe", t)') =
            Cardinality(Pending("subscribe", t)) + (IF t \in F THEN 1 ELSE 0)
    BY <1>1, <1>2, <2>2, ActorCount
  <2> QED
    BY <1>0, <1>2, <2>1, <2>2, <2>3 DEF Accounted, tree
<1>9. ASSUME NEW c \in Conns, NEW F \in SUBSET Topics, OnUnsubscribe(c, F) PROVE Accounted(t)'
  <2>1. /\ pc[c] = "on" /\ pc' = [pc EXCEPT ![c] = "unsubscribe"]
        /\ filters' = [filters EXCEPT ![c] = F] /\ UNCHANGED <<strays, tree>>
        /\ subscriberGauge'[t] = subscriberGauge[t] - (IF t \in F THEN 1 ELSE 0)
    BY <1>0, <1>9 DEF OnUnsubscribe, Request, MoveGauge, server
  <2>2. /\ Pending("subscribe", t)' = Pending("subscribe", t)
        /\ c \notin Pending("unsubscribe", t)
        /\ Pending("unsubscribe", t)' = IF t \in F THEN Pending("unsubscribe", t) \cup {c}
                                        ELSE Pending("unsubscribe", t)
        /\ Subscribers(t)' = Subscribers(t)
    BY <1>0, <2>1 DEF Pending, Subscribers, tree
  <2>3. Cardinality(Pending("unsubscribe", t)') =
            Cardinality(Pending("unsubscribe", t)) + (IF t \in F THEN 1 ELSE 0)
    BY <1>1, <1>2, <2>2, ActorCount
  <2>4. CASE t \in F
    BY <1>0, <1>2, <2>1, <2>2, <2>3, <2>4 DEF Accounted, tree
  <2>5. CASE t \notin F
    BY <1>0, <1>2, <2>1, <2>2, <2>3, <2>5 DEF Accounted, tree
  <2> QED
    BY <2>4, <2>5
<1>10. ASSUME NEW c \in Conns, Subscribed(c) PROVE Accounted(t)'
  <2>1. /\ pc[c] = "subscribe" /\ pc' = [pc EXCEPT ![c] = "on"]
        /\ filters' = [filters EXCEPT ![c] = {}] /\ UNCHANGED <<subscriberGauge, strays>>
    BY <1>10 DEF Subscribed
  <2>2. /\ Pending("unsubscribe", t)' = Pending("unsubscribe", t)
        /\ Pending("subscribe", t)' = Pending("subscribe", t) \ {c}
        /\ c \in Pending("subscribe", t) <=> t \in filters[c]
    BY <1>0, <2>1 DEF Pending
  <2>3. PICK x \in ClientIDs : x = id[c]
    BY <2>1 DEF TypeOK
  <2>4. PICK granted \in SUBSET filters[c] :
            /\ subs' = subs \cup ({x} \X granted)
            /\ surplus' = Plus(surplus, filters[c] \ (granted \ SubsOf(x)))
    BY <1>10, <2>3 DEF Subscribed
  <2>5. CASE t \in granted \ SubsOf(x)
    <3>1. Cardinality(Pending("subscribe", t)') = Cardinality(Pending("subscribe", t)) - 1
      BY <1>1, <2>2, <2>5, ActorCount
    <3>2. Subscribers(t)' = Subscribers(t) \cup {x} /\ x \notin Subscribers(t)
      BY <2>4, <2>5 DEF Subscribers, SubsOf
    <3>3. Cardinality(Subscribers(t)') = Cardinality(Subscribers(t)) + 1
      BY <1>1, <3>2, ClientIDCount
    <3>4. surplus'[t] = surplus[t]
      BY <1>0, <2>4, <2>5 DEF Plus
    <3> QED
      BY <1>0, <1>2, <2>1, <2>2, <3>1, <3>3, <3>4 DEF Accounted
  <2>6. CASE t \notin granted \ SubsOf(x)
    <3>1. Subscribers(t)' = Subscribers(t)
      BY <2>4, <2>6 DEF Subscribers, SubsOf
    <3>2. CASE t \in filters[c]
      <4>1. Cardinality(Pending("subscribe", t)') = Cardinality(Pending("subscribe", t)) - 1
        BY <1>1, <2>2, <3>2, ActorCount
      <4>2. surplus'[t] = surplus[t] + 1
        BY <2>4, <2>6, <3>2 DEF Plus
      <4> QED
        BY <1>0, <1>2, <2>1, <2>2, <3>1, <4>1, <4>2 DEF Accounted
    <3>3. CASE t \notin filters[c]
      <4>1. Pending("subscribe", t)' = Pending("subscribe", t)
        BY <2>2, <3>3
      <4>2. surplus'[t] = surplus[t]
        BY <1>0, <2>4, <3>3 DEF Plus
      <4> QED
        BY <1>0, <2>1, <2>2, <3>1, <4>1, <4>2 DEF Accounted
    <3> QED
      BY <3>2, <3>3
  <2> QED
    BY <2>5, <2>6
<1>11. ASSUME NEW c \in Conns, Unsubscribed(c) PROVE Accounted(t)'
  <2>1. /\ pc[c] = "unsubscribe" /\ pc' = [pc EXCEPT ![c] = "on"]
        /\ filters' = [filters EXCEPT ![c] = {}] /\ UNCHANGED <<subscriberGauge, surplus>>
    BY <1>11 DEF Unsubscribed
  <2>2. /\ Pending("subscribe", t)' = Pending("subscribe", t)
        /\ Pending("unsubscribe", t)' = Pending("unsubscribe", t) \ {c}
        /\ c \in Pending("unsubscribe", t) <=> t \in filters[c]
    BY <1>0, <2>1 DEF Pending
  <2>3. PICK x \in ClientIDs : x = id[c]
    BY <2>1 DEF TypeOK
  <2>4. PICK taken \in {filters[c], {}} :
            /\ subs' = subs \ ({x} \X taken)
            /\ strays' = Plus(strays, filters[c] \ (taken \cap SubsOf(x)))
    BY <1>11, <2>3 DEF Unsubscribed
  <2>5. CASE t \in taken \cap SubsOf(x)
    <3>1. Cardinality(Pending("unsubscribe", t)') = Cardinality(Pending("unsubscribe", t)) - 1
      BY <1>1, <2>2, <2>4, <2>5, ActorCount
    <3>2. Subscribers(t)' = Subscribers(t) \ {x} /\ x \in Subscribers(t)
      BY <2>4, <2>5 DEF Subscribers, SubsOf
    <3>3. Cardinality(Subscribers(t)') = Cardinality(Subscribers(t)) - 1
      BY <1>1, <3>2, ClientIDCount
    <3>4. strays'[t] = strays[t]
      BY <1>0, <2>4, <2>5 DEF Plus
    <3> QED
      BY <1>0, <1>2, <2>1, <2>2, <3>1, <3>3, <3>4 DEF Accounted
  <2>6. CASE t \notin taken \cap SubsOf(x)
    <3>1. Subscribers(t)' = Subscribers(t)
      BY <2>4, <2>6 DEF Subscribers, SubsOf
    <3>2. CASE t \in filters[c]
      <4>1. Cardinality(Pending("unsubscribe", t)') = Cardinality(Pending("unsubscribe", t)) - 1
        BY <1>1, <2>2, <3>2, ActorCount
      <4>2. strays'[t] = strays[t] + 1
        BY <2>4, <2>6, <3>2 DEF Plus
      <4> QED
        BY <1>0, <1>2, <2>1, <2>2, <3>1, <4>1, <4>2 DEF Accounted
    <3>3. CASE t \notin filters[c]
      <4>1. Pending("unsubscribe", t)' = Pending("unsubscribe", t)
        BY <2>2, <3>3
      <4>2. strays'[t] = strays[t]
        BY <1>0, <2>4, <3>3 DEF Plus
      <4> QED
        BY <1>0, <2>1, <2>2, <3>1, <4>1, <4>2 DEF Accounted
    <3> QED
      BY <3>2, <3>3
  <2> QED
    BY <2>5, <2>6
<1>12. CASE UNCHANGED vars
  BY <1>0, <1>12 DEF vars, traffic, server, tree, Accounted, Pending, Subscribers
<1> QED
  BY <1>4, <1>5, <1>6, <1>7, <1>8, <1>9, <1>10, <1>11, <1>12 DEF Next

(***************************************************************************)
(* For any topics, clients and connections: topic_subscribers of a tracked *)
(* topic differs from its subscribers by exactly the subscriptions that    *)
(* were refused, repeated or dropped with a session, and the               *)
(* unsubscriptions that were refused or from nothing, also while two       *)
(* connections of one client id change the same subscription.              *)
(***************************************************************************)
THEOREM HooksSubscribersAccounted == Spec => []SubscribersAccounted
<1>1. Init => SubscribersAccounted
  <2> SUFFICES ASSUME Init, NEW t \in Topics PROVE Accounted(t)
    BY DEF SubscribersAccounted, Accounted, Subscribers
  <2>1. Subscribers(t) = {} /\ Pending("subscribe", t) = {} /\ Pending("unsubscribe", t) = {}
    BY ConnsAreActors DEF Init, Subscribers, Pending
  <2> QED
    BY <2>1, FS_EmptySet DEF Init, Accounted
<1> QED
  BY <1>1, TypeInit, TypeNext, SubscribersNext, PTL DEF Spec
=============================================================================
