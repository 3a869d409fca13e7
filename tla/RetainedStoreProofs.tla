------------------------ MODULE RetainedStoreProofs ------------------------
(***************************************************************************)
(* Theorems about RetainedStore, for every set of connections, topics and  *)
(* payloads, with and without failing statements and expiry.               *)
(***************************************************************************)
EXTENDS RetainedStore, TLAPS

-----------------------------------------------------------------------------
(* Type correctness.                                                       *)

\* The empty tree and table have their types.
LEMMA TypeInit == Init => TypeOK
<1> SUFFICES ASSUME Init PROVE TypeOK
  OBVIOUS
<1>1. NoRow \in TableRows /\ Empty \in Messages
  BY DEF NoRow, TableRows, Messages
<1>2. NoPacket = [op |-> 0] /\ \A c \in Clients : pc[c] = "idle"
  BY DEF Init, NoPacket
<1> QED
  BY <1>1, <1>2 DEF Init, TypeOK, Steps

\* A connection that enters a hook keeps the types.
LEMMA CallHookType ==
    ASSUME TypeOK, NEW c \in Clients, NEW t \in Topics, NEW v \in Messages,
           NEW hook \in {"onRetainMessage", "onRetainPublished"},
           CallHook(c, hook, t, v),
           tree' \in [Topics -> Messages], maxLogID' \in Nat, messageID' \in Nat
    PROVE  TypeOK'
<1>1. [topic |-> t, payload |-> v, op |-> ops + 1, id |-> 0] \in Packets
  BY DEF TypeOK, Packets
<1>2. /\ pc' \in [Clients -> Steps] /\ DOMAIN pk' = Clients
      /\ \A d \in Clients : pc'[d] # "idle" => pk'[d] \in Packets
  BY <1>1 DEF CallHook, TypeOK, Steps
<1>3. order' \subseteq Nat \X Nat
  <2>1. returned \subseteq Nat /\ ops + 1 \in Nat /\ order \subseteq Nat \X Nat
    BY DEF TypeOK
  <2>2. returned \X {ops + 1} \subseteq Nat \X Nat
    BY <2>1
  <2> QED
    BY <2>1, <2>2 DEF CallHook
<1>4. dirty' \in [Topics -> BOOLEAN]
  BY DEF CallHook, TypeOK, Quiet
<1> QED
  BY <1>2, <1>3, <1>4 DEF CallHook, TypeOK

\* Every step keeps the types.
LEMMA TypeNext == TypeOK /\ [Next]_vars => TypeOK'
<1> SUFFICES ASSUME TypeOK, [Next]_vars PROVE TypeOK'
  OBVIOUS
<1> USE RetainedAssumption DEF RetainedAssumption
<1>1. CASE Start
  BY <1>1 DEF Start, StoredRetainedMessages, TypeOK, TableRows
<1>2. CASE Exit
  BY <1>2 DEF Exit, history, TypeOK, Steps, Messages
<1>3. ASSUME NEW c \in Writers, NEW t \in Topics, NEW v \in Messages, PublishRetained(c, t, v)
      PROVE  TypeOK'
  <2>1. tree' \in [Topics -> Messages] /\ maxLogID' \in Nat /\ messageID' \in Nat
    BY <1>3 DEF PublishRetained, TypeOK
  <2> QED
    BY <1>3, <2>1, CallHookType DEF PublishRetained
<1>4. ASSUME NEW c \in Readers, NEW t \in Topics, SendRetained(c, t) PROVE TypeOK'
  <2>1. tree' \in [Topics -> Messages] /\ maxLogID' \in Nat /\ messageID' \in Nat
    BY <1>4 DEF SendRetained, TypeOK
  <2>2. tree[t] \in Messages
    BY DEF TypeOK
  <2> QED
    BY <1>4, <2>1, <2>2, CallHookType DEF SendRetained
<1>5. ASSUME NEW c \in Clients, OnRetainMessage(c) \/ OnRetainPublished(c) PROVE TypeOK'
  <2>1. pk[c] \in Packets
    BY <1>5 DEF OnRetainMessage, OnRetainPublished, TypeOK
  <2>2. CASE pk[c].payload = Empty
    BY <1>5, <2>2 DEF OnRetainMessage, OnRetainPublished, StoreOrDelete, history, TypeOK, Steps
  <2>3. CASE pk[c].payload # Empty
    <3>1. [pk[c] EXCEPT !.id = messageID + 1] \in Packets
      BY <2>1 DEF TypeOK, Packets
    <3>2. pk' = [pk EXCEPT ![c] = [pk[c] EXCEPT !.id = messageID + 1]]
      BY <1>5, <2>3 DEF OnRetainMessage, OnRetainPublished, StoreOrDelete
    <3> QED
      BY <1>5, <2>3, <3>1, <3>2
         DEF OnRetainMessage, OnRetainPublished, StoreOrDelete, history, TypeOK, Steps
  <2> QED
    BY <2>2, <2>3
<1>6. ASSUME NEW c \in Clients, PersistRetained(c) PROVE TypeOK'
  <2>1. pk[c].op \in Nat /\ pk[c].topic \in Topics
    BY <1>6 DEF PersistRetained, TypeOK, Packets
  <2>2. [payload |-> pk[c].payload, msgID |-> pk[c].id] \in TableRows
    BY <1>6 DEF PersistRetained, TypeOK, Packets, TableRows
  <2> QED
    BY <1>6, <2>1, <2>2 DEF PersistRetained, SetRow, TypeOK, Steps
<1>7. ASSUME NEW c \in Clients, VerifyRetained(c) PROVE TypeOK'
  <2>1. pk[c].op \in Nat
    BY <1>7 DEF VerifyRetained, TypeOK, Packets
  <2> QED
    BY <1>7, <2>1 DEF VerifyRetained, Return, TypeOK, Steps
<1>8. ASSUME NEW c \in Clients, DeleteRetained(c) PROVE TypeOK'
  <2>1. pk[c].op \in Nat /\ pk[c].topic \in Topics /\ NoRow \in TableRows
    BY <1>8 DEF DeleteRetained, TypeOK, Packets, NoRow, TableRows, Messages
  <2>2. table' \in [Topics -> TableRows] /\ writer' \in [Topics -> Nat]
    BY <1>8, <2>1 DEF DeleteRetained, SetRow, TypeOK
  <2>3. applied' \subseteq Nat \X Topics /\ returned' \subseteq Nat
    <3>1. /\ applied' = applied \cup {<<pk[c].op, pk[c].topic>>}
          /\ returned' = returned \cup {pk[c].op}
      BY <1>8 DEF DeleteRetained, SetRow, Return
    <3>2. <<pk[c].op, pk[c].topic>> \in Nat \X Topics
      BY <2>1
    <3> QED
      BY <2>1, <3>1, <3>2 DEF TypeOK
  <2>4. /\ pc' \in [Clients -> Steps] /\ DOMAIN pk' = Clients
        /\ \A d \in Clients : pc'[d] # "idle" => pk'[d] \in Packets
    BY <1>8 DEF DeleteRetained, Return, TypeOK, Steps
  <2> QED
    BY <1>8, <2>2, <2>3, <2>4 DEF DeleteRetained, TypeOK
<1>9. ASSUME NEW c \in Clients, StatementFails(c) PROVE TypeOK'
  <2>1. pk[c].op \in Nat /\ pk[c].topic \in Topics
    BY <1>9 DEF StatementFails, TypeOK, Packets
  <2> QED
    BY <1>9, <2>1 DEF StatementFails, Return, TypeOK, Steps
<1>10. ASSUME NEW t \in Topics, ExpireRetained(t) PROVE TypeOK'
  BY <1>10 DEF ExpireRetained, TypeOK, Messages
<1>11. CASE UNCHANGED vars
  BY <1>11 DEF vars, history, TypeOK
<1> QED
  BY <1>1, <1>2, <1>3, <1>4, <1>5, <1>6, <1>7, <1>8, <1>9, <1>10, <1>11 DEF Next, Hook

(***************************************************************************)
(* Every variable of the retained store keeps its type.                    *)
(***************************************************************************)
THEOREM RetainedTypeCorrect == Spec => []TypeOK
BY TypeInit, TypeNext, PTL DEF Spec

-----------------------------------------------------------------------------
(* Agreement of the tree and the table.                                    *)

PendingOn(c, t) == pc[c] \in Pending /\ pk[c].topic = t

\* On a topic that nothing has disturbed at most one hook is on its way to the
\* table, and it carries the payload the tree already shows.
AgreeInv ==
    /\ TypeOK
    /\ AgreesWhenUndisturbed
    /\ \A c \in Clients : pc[c] # "idle" => up
    /\ \A c \in Clients : pc[c] = "delete" => pk[c].payload = Empty
    /\ \A t \in Topics : ~dirty[t] =>
          /\ \A c, d \in Clients : PendingOn(c, t) /\ PendingOn(d, t) => c = d
          /\ \A c \in Clients : PendingOn(c, t) => pk[c].payload = tree[t]

\* A hook that begins on a quiet topic is the only one that may change it.
LEMMA AgreeCallHook ==
    ASSUME AgreeInv, TypeOK', NEW c \in Clients, NEW t \in Topics, NEW v \in Messages,
           NEW hook \in {"onRetainMessage", "onRetainPublished"},
           up, pc[c] = "idle", CallHook(c, hook, t, v), tree' = [tree EXCEPT ![t] = v]
    PROVE  AgreeInv'
<1>1. /\ up' = up /\ table' = table /\ dirty' = [dirty EXCEPT ![t] = ~Quiet(t)]
      /\ pc' = [pc EXCEPT ![c] = hook]
      /\ pk'[c].topic = t /\ pk'[c].payload = v
      /\ \A d \in Clients \ {c} : pk'[d] = pk[d] /\ pc'[d] = pc[d]
  BY DEF CallHook, AgreeInv, TypeOK
<1>2. /\ tree'[t] = v /\ \A s \in Topics \ {t} : tree'[s] = tree[s]
      /\ dirty'[t] = ~Quiet(t) /\ \A s \in Topics \ {t} : dirty'[s] = dirty[s]
  BY <1>1 DEF AgreeInv, TypeOK
<1>3. pc'[c] = hook /\ PendingOn(c, t)'
  BY <1>1 DEF AgreeInv, TypeOK, PendingOn, Pending
<1>4. \A d \in Clients, s \in Topics :
          PendingOn(d, s)' <=> IF d = c THEN s = t ELSE PendingOn(d, s)
  BY <1>1, <1>3 DEF PendingOn, Pending
<1>5. AgreesWhenUndisturbed'
  <2> SUFFICES ASSUME NEW s \in Topics, Quiet(s)', ~dirty'[s]
               PROVE  table'[s].payload = tree'[s]
    BY DEF AgreesWhenUndisturbed
  <2>1. s # t
    BY <1>3 DEF Quiet, PendingOn
  <2>2. Quiet(s)
    <3>1. ~PendingOn(c, s)
      BY DEF PendingOn, Pending
    <3>2. \A d \in Clients : ~PendingOn(d, s)
      BY <1>4, <2>1, <3>1 DEF Quiet, PendingOn
    <3> QED
      BY <3>2 DEF Quiet, PendingOn
  <2> QED
    BY <1>1, <1>2, <2>1, <2>2 DEF AgreeInv, AgreesWhenUndisturbed
<1>6. \A s \in Topics : ~dirty'[s] =>
          /\ \A b, d \in Clients : PendingOn(b, s)' /\ PendingOn(d, s)' => b = d
          /\ \A d \in Clients : PendingOn(d, s)' => pk'[d].payload = tree'[s]
  <2> SUFFICES ASSUME NEW s \in Topics, ~dirty'[s]
               PROVE  /\ \A b, d \in Clients : PendingOn(b, s)' /\ PendingOn(d, s)' => b = d
                      /\ \A d \in Clients : PendingOn(d, s)' => pk'[d].payload = tree'[s]
    OBVIOUS
  <2>1. CASE s = t
    <3>1. \A d \in Clients : ~PendingOn(d, t)
      BY <1>2, <2>1 DEF Quiet, PendingOn
    <3> QED
      BY <1>1, <1>2, <1>4, <2>1, <3>1
  <2>2. CASE s # t
    BY <1>1, <1>2, <1>4, <2>2 DEF AgreeInv
  <2> QED
    BY <2>1, <2>2
<1>7. \A d \in Clients : /\ pc'[d] # "idle" => up'
                         /\ pc'[d] = "delete" => pk'[d].payload = Empty
  BY <1>1, <1>3 DEF AgreeInv
<1> QED
  BY <1>5, <1>6, <1>7 DEF AgreeInv

\* A hook on topic t that runs its statement, or gives up on it.
LEMMA AgreeStatement ==
    ASSUME AgreeInv, TypeOK', NEW c \in Clients, PendingOn(c, pk[c].topic),
           UNCHANGED <<up, tree>>, pc'[c] \in {"idle", "verify"},
           \A d \in Clients \ {c} : pc'[d] = pc[d] /\ pk'[d] = pk[d],
           \A s \in Topics \ {pk[c].topic} : table'[s] = table[s] /\ dirty'[s] = dirty[s],
           ~dirty'[pk[c].topic] => /\ ~dirty[pk[c].topic]
                                   /\ table'[pk[c].topic].payload = pk[c].payload
    PROVE  AgreeInv'
<1> DEFINE t == pk[c].topic
<1>1. t \in Topics
  BY DEF AgreeInv, TypeOK, PendingOn, Pending, Packets
<1>2. \A d \in Clients, s \in Topics : PendingOn(d, s)' <=> d # c /\ PendingOn(d, s)
  BY DEF PendingOn, Pending
<1>3. ASSUME NEW s \in Topics, ~dirty'[s]
      PROVE  /\ \A b, d \in Clients : PendingOn(b, s)' /\ PendingOn(d, s)' => b = d
             /\ \A d \in Clients : PendingOn(d, s)' => pk'[d].payload = tree'[s]
             /\ up' /\ Quiet(s)' => table'[s].payload = tree'[s]
  <2>1. ~dirty[s]
    BY <1>3
  <2>2. /\ \A b, d \in Clients : PendingOn(b, s) /\ PendingOn(d, s) => b = d
        /\ \A d \in Clients : PendingOn(d, s) => pk[d].payload = tree[s]
    BY <2>1 DEF AgreeInv
  <2>3. up' /\ Quiet(s)' => table'[s].payload = tree'[s]
    <3>1. CASE s = t
      BY <1>3, <2>2, <3>1
    <3>2. CASE s # t
      <4>1. ~PendingOn(c, s)
        BY <3>2 DEF PendingOn
      <4>2. Quiet(s)' => Quiet(s)
        BY <1>2, <4>1 DEF Quiet, PendingOn
      <4> QED
        BY <2>1, <3>2, <4>2 DEF AgreeInv, AgreesWhenUndisturbed
    <3> QED
      BY <3>1, <3>2
  <2> QED
    BY <1>2, <2>2, <2>3
<1>4. AgreesWhenUndisturbed'
  BY <1>3 DEF AgreesWhenUndisturbed
<1>5. \A d \in Clients : /\ pc'[d] # "idle" => up'
                         /\ pc'[d] = "delete" => pk'[d].payload = Empty
  BY DEF AgreeInv, PendingOn, Pending
<1> QED
  BY <1>3, <1>4, <1>5 DEF AgreeInv

\* Every step keeps tree and table equal, or a hook or the mark explains why not.
LEMMA AgreeNext == AgreeInv /\ [Next]_vars => AgreeInv'
<1> SUFFICES ASSUME AgreeInv, [Next]_vars PROVE AgreeInv'
  OBVIOUS
<1> USE RetainedAssumption DEF RetainedAssumption
<1>0. TypeOK /\ TypeOK'
  BY TypeNext DEF AgreeInv
<1>1. CASE Start
  <2>1. /\ tree' = [t \in Topics |-> table[t].payload] /\ table' = table
        /\ pc' = pc /\ pk' = pk /\ up'
    BY <1>1 DEF Start, StoredRetainedMessages
  <2>2. \A c \in Clients : pc[c] = "idle"
    BY <1>1 DEF Start, AgreeInv
  <2> QED
    BY <1>0, <2>1, <2>2 DEF AgreeInv, AgreesWhenUndisturbed, PendingOn, Pending
<1>2. CASE Exit
  BY <1>0, <1>2 DEF Exit, AgreeInv, AgreesWhenUndisturbed, PendingOn, Pending
<1>3. ASSUME NEW c \in Writers, NEW t \in Topics, NEW v \in Messages, PublishRetained(c, t, v)
      PROVE  AgreeInv'
  BY <1>0, <1>3, AgreeCallHook DEF PublishRetained
<1>4. ASSUME NEW c \in Readers, NEW t \in Topics, SendRetained(c, t) PROVE AgreeInv'
  <2>1. tree' = [tree EXCEPT ![t] = tree[t]] /\ tree[t] \in Messages
    BY <1>0, <1>4 DEF SendRetained, TypeOK
  <2> QED
    BY <1>0, <1>4, <2>1, AgreeCallHook DEF SendRetained
<1>5. ASSUME NEW c \in Clients, OnRetainMessage(c) \/ OnRetainPublished(c) PROVE AgreeInv'
  <2>1. /\ UNCHANGED <<up, tree, table, dirty>>
        /\ pc[c] \in {"onRetainMessage", "onRetainPublished"} /\ pc[c] # "idle"
        /\ pc' = [pc EXCEPT ![c] = IF pk[c].payload = Empty THEN "delete" ELSE "write"]
    BY <1>5 DEF OnRetainMessage, OnRetainPublished, StoreOrDelete, history
  <2>2. \A d \in Clients : pk'[d].topic = pk[d].topic /\ pk'[d].payload = pk[d].payload
    <3>1. CASE pk[c].payload = Empty
      BY <1>5, <3>1 DEF OnRetainMessage, OnRetainPublished, StoreOrDelete
    <3>2. CASE pk[c].payload # Empty
      <4>1. pk' = [pk EXCEPT ![c] = [pk[c] EXCEPT !.id = messageID + 1]] /\ pk[c] \in Packets
        BY <1>0, <1>5, <2>1, <3>2
           DEF OnRetainMessage, OnRetainPublished, StoreOrDelete, TypeOK
      <4> QED
        BY <1>0, <4>1 DEF Packets, TypeOK
    <3> QED
      BY <3>1, <3>2
  <2>3. \A d \in Clients, t \in Topics : PendingOn(d, t)' <=> PendingOn(d, t)
    BY <1>0, <2>1, <2>2 DEF PendingOn, Pending, TypeOK
  <2>4. \A t \in Topics : Quiet(t)' <=> Quiet(t)
    BY <2>3 DEF Quiet, PendingOn
  <2>5. \A d \in Clients : /\ pc'[d] # "idle" => up'
                           /\ pc'[d] = "delete" => pk'[d].payload = Empty
    BY <1>0, <2>1, <2>2 DEF AgreeInv, TypeOK
  <2> QED
    BY <1>0, <2>1, <2>2, <2>3, <2>4, <2>5 DEF AgreeInv, AgreesWhenUndisturbed
<1>6. ASSUME NEW c \in Clients, PersistRetained(c) PROVE AgreeInv'
  <2>1. pk[c].topic \in Topics /\ PendingOn(c, pk[c].topic)
    BY <1>0, <1>6 DEF PersistRetained, TypeOK, Packets, PendingOn, Pending
  <2>2. /\ table' = [table EXCEPT ![pk[c].topic] =
                        [payload |-> pk[c].payload, msgID |-> pk[c].id]]
        /\ pc' = [pc EXCEPT ![c] = "verify"] /\ UNCHANGED <<up, tree, pk, dirty>>
    BY <1>6 DEF PersistRetained, SetRow
  <2> QED
    BY <1>0, <2>1, <2>2, AgreeStatement DEF TypeOK
<1>7. ASSUME NEW c \in Clients, VerifyRetained(c) PROVE AgreeInv'
  <2>1. /\ pc[c] = "verify" /\ UNCHANGED <<up, tree, table, dirty>>
        /\ pc'[c] = "idle" /\ \A d \in Clients \ {c} : pc'[d] = pc[d] /\ pk'[d] = pk[d]
    BY <1>0, <1>7 DEF VerifyRetained, Return, TypeOK
  <2>2. \A d \in Clients, t \in Topics : PendingOn(d, t)' <=> PendingOn(d, t)
    BY <2>1 DEF PendingOn, Pending
  <2>3. \A t \in Topics : Quiet(t)' <=> Quiet(t)
    BY <2>2 DEF Quiet, PendingOn
  <2>4. \A d \in Clients, t \in Topics : PendingOn(d, t) => pk'[d] = pk[d]
    BY <2>1 DEF PendingOn, Pending
  <2> QED
    BY <1>0, <2>1, <2>2, <2>3, <2>4 DEF AgreeInv, AgreesWhenUndisturbed
<1>8. ASSUME NEW c \in Clients, DeleteRetained(c) PROVE AgreeInv'
  <2>1. /\ pk[c].topic \in Topics /\ PendingOn(c, pk[c].topic)
        /\ pk[c].payload = Empty /\ NoRow.payload = Empty
    BY <1>0, <1>8 DEF DeleteRetained, TypeOK, Packets, PendingOn, Pending, AgreeInv, NoRow
  <2>2. /\ table' = [table EXCEPT ![pk[c].topic] = NoRow]
        /\ pc'[c] = "idle" /\ \A d \in Clients \ {c} : pc'[d] = pc[d] /\ pk'[d] = pk[d]
        /\ UNCHANGED <<up, tree, dirty>>
    BY <1>0, <1>8 DEF DeleteRetained, SetRow, Return, TypeOK
  <2> QED
    BY <1>0, <2>1, <2>2, AgreeStatement DEF TypeOK
<1>9. ASSUME NEW c \in Clients, StatementFails(c) PROVE AgreeInv'
  <2>1. pk[c].topic \in Topics /\ PendingOn(c, pk[c].topic)
    BY <1>0, <1>9 DEF StatementFails, TypeOK, Packets, PendingOn, Pending
  <2>2. /\ dirty' = [dirty EXCEPT ![pk[c].topic] = TRUE]
        /\ pc'[c] = "idle" /\ \A d \in Clients \ {c} : pc'[d] = pc[d] /\ pk'[d] = pk[d]
        /\ UNCHANGED <<up, tree, table>>
    BY <1>0, <1>9 DEF StatementFails, Return, TypeOK
  <2> QED
    BY <1>0, <2>1, <2>2, AgreeStatement DEF TypeOK
<1>10. ASSUME NEW t \in Topics, ExpireRetained(t) PROVE AgreeInv'
  <2>1. /\ dirty'[t] /\ \A s \in Topics \ {t} : dirty'[s] = dirty[s] /\ tree'[s] = tree[s]
        /\ UNCHANGED <<up, table, pc, pk>>
    BY <1>0, <1>10 DEF ExpireRetained, TypeOK
  <2>2. \A s \in Topics : Quiet(s)' <=> Quiet(s)
    BY <2>1 DEF Quiet
  <2>3. AgreesWhenUndisturbed'
    BY <2>1, <2>2 DEF AgreeInv, AgreesWhenUndisturbed
  <2> QED
    BY <1>0, <2>1, <2>3 DEF AgreeInv, PendingOn
<1>11. CASE UNCHANGED vars
  BY <1>0, <1>11 DEF vars, history, AgreeInv, AgreesWhenUndisturbed, PendingOn, Quiet
<1> QED
  BY <1>1, <1>2, <1>3, <1>4, <1>5, <1>6, <1>7, <1>8, <1>9, <1>10, <1>11 DEF Next, Hook

(***************************************************************************)
(* Races of hooks on one topic, failed statements and expiry are the only  *)
(* ways for the stored retained message to differ from the one subscribers *)
(* are sent, and the next undisturbed hook on the topic repairs it.        *)
(***************************************************************************)
THEOREM RetainedAgrees == Spec => []AgreesWhenUndisturbed
<1>1. Init => AgreeInv
  <2> SUFFICES ASSUME Init PROVE AgreeInv
    OBVIOUS
  <2>1. TypeOK /\ ~up /\ \A c \in Clients : pc[c] = "idle"
    BY TypeInit DEF Init
  <2> QED
    BY <2>1 DEF AgreeInv, AgreesWhenUndisturbed, PendingOn, Pending
<1>2. AgreeInv /\ [Next]_vars => AgreeInv'
  BY AgreeNext
<1>3. AgreeInv => AgreesWhenUndisturbed
  BY DEF AgreeInv
<1> QED
  BY <1>1, <1>2, <1>3, PTL DEF Spec

-----------------------------------------------------------------------------
(* The order of the hooks.                                                 *)

\* A hook in flight has a number of its own and has not returned; only a call
\* that has returned precedes another.
OrderInv ==
    /\ TypeOK
    /\ NeverSuperseded
    /\ \A o \in order : o[1] \in returned
    /\ \A a \in applied : a[1] <= ops
    /\ \A o \in returned : o <= ops
    /\ \A c \in Clients : pc[c] # "idle" => pk[c].op <= ops /\ pk[c].op \notin returned
    /\ \A c, d \in Clients :
          pc[c] # "idle" /\ pc[d] # "idle" /\ pk[c].op = pk[d].op => c = d

\* Steps that run no statement and start no hook; a hook may return.
LEMMA OrderQuietStep ==
    ASSUME OrderInv, TypeOK', UNCHANGED <<ops, order, applied, writer>>,
           \A d \in Clients : pc'[d] # "idle" => pc[d] # "idle" /\ pk'[d].op = pk[d].op,
           \/ returned' = returned
           \/ \E c \in Clients : /\ pc[c] # "idle" /\ pc'[c] = "idle"
                                 /\ returned' = returned \cup {pk[c].op}
    PROVE  OrderInv'
<1>1. returned \subseteq returned' /\ \A o \in returned' : o <= ops
  BY DEF OrderInv
<1>2. \A d \in Clients : pc'[d] # "idle" => pk'[d].op <= ops /\ pk'[d].op \notin returned'
  BY DEF OrderInv
<1> QED
  BY <1>1, <1>2 DEF OrderInv, NeverSuperseded

\* A statement that runs makes its own call the last writer of the row, and no
\* call that has returned began after it.
LEMMA OrderStatement ==
    ASSUME OrderInv, TypeOK', NEW c \in Clients, NEW row, pc[c] # "idle", SetRow(c, row),
           UNCHANGED <<ops, order>>,
           \A d \in Clients : pc'[d] # "idle" => pc[d] # "idle" /\ pk'[d] = pk[d],
           \/ returned' = returned
           \/ pc'[c] = "idle" /\ returned' = returned \cup {pk[c].op}
    PROVE  OrderInv'
<1> DEFINE t == pk[c].topic
           o == pk[c].op
<1>1. t \in Topics /\ o \in Nat /\ o <= ops /\ o \notin returned
  BY DEF OrderInv, TypeOK, Packets
<1>2. applied' = applied \cup {<<o, t>>} /\ writer' = [writer EXCEPT ![t] = o]
  BY DEF SetRow
<1>3. \A p \in Nat : <<o, p>> \notin order
  BY <1>1 DEF OrderInv
<1>4. NeverSuperseded'
  <2> SUFFICES ASSUME NEW a \in applied' PROVE <<writer'[a[2]], a[1]>> \notin order
    BY DEF NeverSuperseded
  <2>1. a[2] \in Topics /\ a[1] \in Nat
    BY DEF TypeOK
  <2>2. CASE a[2] = t
    BY <1>1, <1>2, <1>3, <2>1, <2>2 DEF OrderInv, TypeOK
  <2>3. CASE a[2] # t
    BY <1>1, <1>2, <2>1, <2>3 DEF OrderInv, TypeOK, NeverSuperseded
  <2> QED
    BY <2>2, <2>3
<1>5. \A a \in applied' : a[1] <= ops'
  BY <1>1, <1>2 DEF OrderInv
<1>6. returned \subseteq returned' /\ \A p \in returned' : p <= ops
  BY <1>1 DEF OrderInv
<1>7. \A d \in Clients : pc'[d] # "idle" => pk'[d].op <= ops /\ pk'[d].op \notin returned'
  BY DEF OrderInv
<1> QED
  BY <1>4, <1>5, <1>6, <1>7 DEF OrderInv

\* A call that begins is ordered after those that have returned, and none that
\* is in flight.
LEMMA OrderCallHook ==
    ASSUME OrderInv, TypeOK', NEW c \in Clients, NEW t \in Topics, NEW v \in Messages,
           NEW hook \in {"onRetainMessage", "onRetainPublished"},
           CallHook(c, hook, t, v)
    PROVE  OrderInv'
<1>1. /\ ops \in Nat /\ ops' = ops + 1 /\ UNCHANGED <<returned, applied, writer>>
      /\ order' = order \cup (returned \X {ops + 1})
      /\ pc'[c] = hook /\ pk'[c].op = ops + 1
      /\ \A d \in Clients \ {c} : pc'[d] = pc[d] /\ pk'[d] = pk[d]
  BY DEF CallHook, OrderInv, TypeOK
<1>2. /\ \A a \in applied : a[1] \in Nat /\ a[1] <= ops
      /\ \A o \in returned : o \in Nat /\ o <= ops
  BY DEF OrderInv, TypeOK
<1>3. NeverSuperseded'
  BY <1>1, <1>2 DEF OrderInv, NeverSuperseded
<1>4. \A d \in Clients : pc[d] # "idle" => pk[d].op \in Nat /\ pk[d].op <= ops
  BY DEF OrderInv, TypeOK, Packets
<1>5. \A d \in Clients : pc'[d] # "idle" => pk'[d].op <= ops' /\ pk'[d].op \notin returned'
  BY <1>1, <1>2, <1>4 DEF OrderInv
<1>6. \A b, d \in Clients :
         pc'[b] # "idle" /\ pc'[d] # "idle" /\ pk'[b].op = pk'[d].op => b = d
  BY <1>1, <1>4 DEF OrderInv
<1>7. /\ \A o \in order' : o[1] \in returned'
      /\ \A a \in applied' : a[1] <= ops'
  BY <1>1, <1>2 DEF OrderInv
<1>8. \A o \in returned' : o <= ops'
  BY <1>1, <1>2
<1> QED
  BY <1>3, <1>5, <1>6, <1>7, <1>8 DEF OrderInv

\* Every step keeps the last writer of a row from preceding another applied call.
LEMMA OrderNext == OrderInv /\ [Next]_vars => OrderInv'
<1> SUFFICES ASSUME OrderInv, [Next]_vars PROVE OrderInv'
  OBVIOUS
<1> USE RetainedAssumption DEF RetainedAssumption
<1>0. TypeOK /\ TypeOK'
  BY TypeNext DEF OrderInv
<1>1. CASE Start
  BY <1>0, <1>1, OrderQuietStep DEF Start
<1>2. CASE Exit
  BY <1>0, <1>2, OrderQuietStep DEF Exit, history
<1>3. ASSUME NEW c \in Writers, NEW t \in Topics, NEW v \in Messages, PublishRetained(c, t, v)
      PROVE  OrderInv'
  BY <1>0, <1>3, OrderCallHook DEF PublishRetained
<1>4. ASSUME NEW c \in Readers, NEW t \in Topics, SendRetained(c, t) PROVE OrderInv'
  <2>1. tree[t] \in Messages
    BY <1>0 DEF TypeOK
  <2> QED
    BY <1>0, <1>4, <2>1, OrderCallHook DEF SendRetained
<1>5. ASSUME NEW c \in Clients, OnRetainMessage(c) \/ OnRetainPublished(c) PROVE OrderInv'
  <2>1. pc[c] # "idle" /\ pk[c] \in Packets
    BY <1>0, <1>5 DEF OnRetainMessage, OnRetainPublished, TypeOK
  <2>2. UNCHANGED <<ops, order, applied, writer, returned>>
    BY <1>5 DEF OnRetainMessage, OnRetainPublished, history
  <2>3. \A d \in Clients : pc'[d] # "idle" => pc[d] # "idle" /\ pk'[d].op = pk[d].op
    <3>1. CASE pk[c].payload = Empty
      BY <1>0, <1>5, <2>1, <3>1 DEF OnRetainMessage, OnRetainPublished, StoreOrDelete, TypeOK
    <3>2. CASE pk[c].payload # Empty
      <4>1. /\ pk' = [pk EXCEPT ![c] = [pk[c] EXCEPT !.id = messageID + 1]]
            /\ pc' = [pc EXCEPT ![c] = "write"]
        BY <1>5, <3>2 DEF OnRetainMessage, OnRetainPublished, StoreOrDelete
      <4> QED
        BY <1>0, <2>1, <4>1 DEF Packets, TypeOK
    <3> QED
      BY <3>1, <3>2
  <2> QED
    BY <1>0, <2>2, <2>3, OrderQuietStep
<1>6. ASSUME NEW c \in Clients, PersistRetained(c) PROVE OrderInv'
  <2>1. /\ SetRow(c, [payload |-> pk[c].payload, msgID |-> pk[c].id])
        /\ pc[c] # "idle" /\ UNCHANGED <<ops, order, pk, returned>>
    BY <1>6 DEF PersistRetained
  <2>2. \A d \in Clients : pc'[d] # "idle" => pc[d] # "idle" /\ pk'[d] = pk[d]
    BY <1>0, <1>6 DEF PersistRetained, TypeOK
  <2> QED
    BY <1>0, <2>1, <2>2, OrderStatement
<1>7. ASSUME NEW c \in Clients, VerifyRetained(c) \/ StatementFails(c) PROVE OrderInv'
  <2>1. /\ UNCHANGED <<ops, order, applied, writer>> /\ returned' = returned \cup {pk[c].op}
        /\ pc[c] # "idle" /\ pc'[c] = "idle"
        /\ \A d \in Clients \ {c} : pc'[d] = pc[d] /\ pk'[d] = pk[d]
    BY <1>0, <1>7 DEF VerifyRetained, StatementFails, Return, TypeOK
  <2> QED
    BY <1>0, <2>1, OrderQuietStep
<1>8. ASSUME NEW c \in Clients, DeleteRetained(c) PROVE OrderInv'
  <2>1. /\ SetRow(c, NoRow) /\ UNCHANGED <<ops, order>> /\ returned' = returned \cup {pk[c].op}
        /\ pc[c] # "idle" /\ pc'[c] = "idle"
        /\ \A d \in Clients \ {c} : pc'[d] = pc[d] /\ pk'[d] = pk[d]
    BY <1>0, <1>8 DEF DeleteRetained, Return, TypeOK
  <2> QED
    BY <1>0, <2>1, OrderStatement
<1>9. ASSUME NEW t \in Topics, ExpireRetained(t) PROVE OrderInv'
  BY <1>0, <1>9, OrderQuietStep DEF ExpireRetained
<1>10. CASE UNCHANGED vars
  BY <1>0, <1>10, OrderQuietStep DEF vars, history
<1> QED
  BY <1>1, <1>2, <1>3, <1>4, <1>5, <1>6, <1>7, <1>8, <1>9, <1>10 DEF Next, Hook

(***************************************************************************)
(* However the hooks of the connections interleave and whatever fails, the *)
(* row of a topic never goes back to what a hook left that had returned    *)
(* before a later, applied one began.                                      *)
(***************************************************************************)
THEOREM RetainedNeverSuperseded == Spec => []NeverSuperseded
<1>1. Init => OrderInv
  <2> SUFFICES ASSUME Init PROVE OrderInv
    OBVIOUS
  <2>1. TypeOK /\ applied = {} /\ order = {} /\ returned = {}
    BY TypeInit DEF Init
  <2>2. \A c \in Clients : pc[c] = "idle"
    BY DEF Init
  <2> QED
    BY <2>1, <2>2 DEF OrderInv, NeverSuperseded
<1>2. OrderInv /\ [Next]_vars => OrderInv'
  BY OrderNext
<1>3. OrderInv => NeverSuperseded
  BY DEF OrderInv
<1> QED
  BY <1>1, <1>2, <1>3, PTL DEF Spec
-----------------------------------------------------------------------------
(* What it takes for the tree and the table to part.                       *)

\* One connection, no failing statement, no expiry.
Undisturbed == ~Faults /\ ~Expiry /\ \A c, d \in Clients : c = d

\* No topic is marked, and a row without a payload is no row.
SequentialInv ==
    /\ AgreeInv
    /\ \A t \in Topics : ~dirty[t]
    /\ \A c \in Clients : pc[c] = "write" => pk[c].payload # Empty
    /\ \A t \in Topics : table[t].payload = Empty => table[t] = NoRow

\* Without a second connection every step finds its topic quiet.
LEMMA SequentialNext ==
    Undisturbed /\ SequentialInv /\ [Next]_vars => SequentialInv'
<1> SUFFICES ASSUME Undisturbed, SequentialInv, [Next]_vars PROVE SequentialInv'
  OBVIOUS
<1> USE RetainedAssumption DEF RetainedAssumption
<1>0. TypeOK /\ AgreeInv' /\ AgreeInv
  BY AgreeNext DEF SequentialInv, AgreeInv
<1>1. ASSUME NEW c \in Clients, NEW t \in Topics, NEW v,
             NEW hook \in {"onRetainMessage", "onRetainPublished"},
             pc[c] = "idle", CallHook(c, hook, t, v)
      PROVE  SequentialInv'
  <2>1. Quiet(t)
    BY <1>1 DEF Undisturbed, Quiet, Pending
  <2>2. dirty' = [dirty EXCEPT ![t] = FALSE] /\ table' = table
    BY <1>1, <2>1 DEF CallHook
  <2>3. \A d \in Clients : pc'[d] = hook
    BY <1>0, <1>1 DEF CallHook, Undisturbed, TypeOK
  <2> QED
    BY <1>0, <2>2, <2>3 DEF SequentialInv, TypeOK
<1>2. CASE Start \/ Exit
  BY <1>0, <1>2 DEF Start, Exit, history, SequentialInv
<1>3. CASE \/ \E c \in Writers, t \in Topics, v \in Messages : PublishRetained(c, t, v)
           \/ \E c \in Readers, t \in Topics : SendRetained(c, t)
  BY <1>1, <1>3 DEF PublishRetained, SendRetained
<1>4. ASSUME NEW c \in Clients, OnRetainMessage(c) \/ OnRetainPublished(c)
      PROVE  SequentialInv'
  <2>1. pc[c] # "idle" /\ pk[c] \in Packets /\ UNCHANGED <<table, dirty>>
    BY <1>0, <1>4 DEF OnRetainMessage, OnRetainPublished, TypeOK, history
  <2>2. ASSUME NEW d \in Clients, pc'[d] = "write" PROVE pk'[d].payload # Empty
    <3>1. d = c
      BY DEF Undisturbed
    <3>2. /\ pk[c].payload # Empty
          /\ pk' = [pk EXCEPT ![c] = [pk[c] EXCEPT !.id = messageID + 1]]
      BY <1>0, <1>4, <2>2, <3>1
         DEF OnRetainMessage, OnRetainPublished, StoreOrDelete, TypeOK
    <3> QED
      BY <1>0, <2>1, <3>1, <3>2 DEF Packets, TypeOK
  <2> QED
    BY <1>0, <2>1, <2>2 DEF SequentialInv
<1>5. ASSUME NEW c \in Clients, PersistRetained(c) PROVE SequentialInv'
  <2>1. /\ table' = [table EXCEPT ![pk[c].topic] =
                        [payload |-> pk[c].payload, msgID |-> pk[c].id]]
        /\ pk[c].payload # Empty /\ UNCHANGED dirty
    BY <1>5 DEF PersistRetained, SetRow, SequentialInv
  <2>2. \A d \in Clients : pc'[d] = "verify"
    BY <1>0, <1>5 DEF PersistRetained, Undisturbed, TypeOK
  <2> QED
    BY <1>0, <2>1, <2>2 DEF SequentialInv, TypeOK
<1>6. ASSUME NEW c \in Clients, VerifyRetained(c) \/ DeleteRetained(c) PROVE SequentialInv'
  <2>1. \A d \in Clients : pc'[d] = "idle"
    BY <1>0, <1>6 DEF VerifyRetained, DeleteRetained, Return, Undisturbed, TypeOK
  <2>2. \A t \in Topics : table'[t] = table[t] \/ table'[t] = NoRow
    BY <1>0, <1>6 DEF VerifyRetained, DeleteRetained, SetRow, TypeOK
  <2>3. dirty' = dirty
    BY <1>6 DEF VerifyRetained, DeleteRetained
  <2> QED
    BY <1>0, <2>1, <2>2, <2>3 DEF SequentialInv
<1>7. CASE \/ \E c \in Clients : StatementFails(c)
           \/ \E t \in Topics : ExpireRetained(t)
  BY <1>7 DEF StatementFails, ExpireRetained, Undisturbed
<1>8. CASE UNCHANGED vars
  BY <1>0, <1>8 DEF vars, history, SequentialInv
<1> QED
  BY <1>2, <1>3, <1>4, <1>5, <1>6, <1>7, <1>8 DEF Next, Hook

(***************************************************************************)
(* One connection cannot part the tree from the table, nor bring back what *)
(* it deleted, through any publishes, subscriptions, crashes and restarts: *)
(* what the runs retained_race and retained_replay show takes a second     *)
(* connection, a failing statement or an expiry.                           *)
(***************************************************************************)
THEOREM RetainedOneConnection ==
    Undisturbed => (Spec => [](QuiescentAgreement /\ DeletedStaysDeleted))
<1> SUFFICES ASSUME Undisturbed PROVE Spec => [](QuiescentAgreement /\ DeletedStaysDeleted)
  OBVIOUS
<1>1. Init => SequentialInv
  <2> SUFFICES ASSUME Init PROVE SequentialInv
    OBVIOUS
  <2>1. TypeOK /\ ~up /\ \A c \in Clients : pc[c] = "idle"
    BY TypeInit DEF Init
  <2>2. \A t \in Topics : table[t] = NoRow /\ ~dirty[t]
    BY DEF Init
  <2> QED
    BY <2>1, <2>2 DEF SequentialInv, AgreeInv, AgreesWhenUndisturbed, PendingOn, Pending
<1>2. SequentialInv => QuiescentAgreement /\ DeletedStaysDeleted
  BY DEF SequentialInv, AgreeInv, AgreesWhenUndisturbed, QuiescentAgreement,
     DeletedStaysDeleted
<1>3. SequentialInv /\ [Next]_vars => SequentialInv'
  BY SequentialNext
<1> QED
  BY <1>1, <1>2, <1>3, PTL DEF Spec
=============================================================================
