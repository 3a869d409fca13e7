--------------------------- MODULE RetainedStore ---------------------------
(***************************************************************************)
(* Retained messages: the in-memory topic tree of the MQTT server, which   *)
(* answers subscribers, and the `retained_messages` table the storage      *)
(* manager keeps so that the tree can be rebuilt at the next start.        *)
(*                                                                         *)
(* The server is external.  As internal/storage uses it: it changes its    *)
(* tree first and calls the hook OnRetainMessage afterwards, from the      *)
(* goroutine of the publishing connection; it calls OnRetainPublished for  *)
(* a retained message it has sent to a new subscriber, from that           *)
(* subscriber's goroutine; when it starts it fills the tree from           *)
(* StoredRetainedMessages.  Nothing orders the hooks of two connections,   *)
(* so each is cut at its statements.                                       *)
(*                                                                         *)
(* A statement is durable once it has run; MessageLog is about what power  *)
(* failures do to commits.                                                 *)
(***************************************************************************)
EXTENDS Integers

CONSTANTS
    Clients,    \* connections
    Writers,    \* those of them that publish retained messages
    Readers,    \* those of them that subscribe
    Topics,
    Payloads,   \* the non-empty payloads
    Empty,      \* the empty payload; also: no retained message
    Faults,     \* whether SQL statements may fail
    Expiry,     \* whether the server expires retained messages
    MaxOps      \* bound: hook calls in a behaviour

ASSUME RetainedAssumption ==
    /\ Writers \subseteq Clients
    /\ Readers \subseteq Clients
    /\ Empty \notin Payloads
    /\ Faults \in BOOLEAN
    /\ Expiry \in BOOLEAN
    /\ MaxOps \in Nat

VARIABLES
    up,
    tree,       \* the server's retained payload of each topic
    table,      \* the row of each topic in retained_messages
    maxLogID,   \* MAX(id) of the messages table
    messageID,  \* the manager's counter
    pc,         \* where each connection's hook is
    pk,         \* the packet and message id the hook works on
    \* history, read by no action of the code
    ops,        \* hook calls so far; call number n is the n-th
    returned,   \* calls that have returned
    order,      \* <<o, p>>: o had returned when p began
    applied,    \* <<o, t>>: the statement of o ran, on topic t
    writer,     \* the last call that changed or removed the row of a topic
    dirty       \* topics where a race, an error or an expiry came between

history == <<ops, returned, order, applied, writer, dirty>>
vars    == <<up, tree, table, maxLogID, messageID, pc, pk, history>>

-----------------------------------------------------------------------------
Messages == Payloads \cup {Empty}

\* Columns payload and msg_id; the others are only copied.  No row is the
\* empty payload, which the hooks never store.
TableRows == [payload : Messages, msgID : Nat]
NoRow     == [payload |-> Empty, msgID |-> 0]

Steps   == {"idle", "onRetainMessage", "onRetainPublished", "write", "verify", "delete"}
Packets == [topic : Topics, payload : Messages, op : Nat, id : Nat]

TypeOK ==
    /\ up \in BOOLEAN
    /\ tree \in [Topics -> Messages]
    /\ table \in [Topics -> TableRows]
    /\ maxLogID \in Nat /\ messageID \in Nat
    /\ pc \in [Clients -> Steps]
    /\ DOMAIN pk = Clients
    /\ \A c \in Clients : pc[c] # "idle" => pk[c] \in Packets
    /\ ops \in Nat
    /\ returned \subseteq Nat
    /\ order \subseteq Nat \X Nat
    /\ applied \subseteq Nat \X Topics
    /\ writer \in [Topics -> Nat]
    /\ dirty \in [Topics -> BOOLEAN]

\* Hooks that have not run their statement yet.
Pending == {"onRetainMessage", "onRetainPublished", "write", "delete"}

Quiet(t) == \A c \in Clients : ~(pc[c] \in Pending /\ pk[c].topic = t)

NoPacket == [op |-> 0]

-----------------------------------------------------------------------------
(* The server's side.                                                      *)

Init ==
    /\ up = FALSE
    /\ tree = [t \in Topics |-> Empty]
    /\ table = [t \in Topics |-> NoRow]
    /\ maxLogID = 0 /\ messageID = 0
    /\ pc = [c \in Clients |-> "idle"]
    /\ pk = [c \in Clients |-> NoPacket]
    /\ ops = 0 /\ returned = {} /\ order = {} /\ applied = {}
    /\ writer = [t \in Topics |-> 0]
    /\ dirty = [t \in Topics |-> FALSE]

\* Connection c is about to run a hook for payload v on topic t.
CallHook(c, hook, t, v) ==
    /\ pc' = [pc EXCEPT ![c] = hook]
    /\ pk' = [pk EXCEPT ![c] = [topic |-> t, payload |-> v, op |-> ops + 1, id |-> 0]]
    /\ ops' = ops + 1
    /\ order' = order \cup (returned \X {ops + 1})
    /\ dirty' = [dirty EXCEPT ![t] = ~Quiet(t)]
    /\ UNCHANGED <<up, table, returned, applied, writer>>

\* A PUBLISH with the retain flag.  Manager.OnPublish has run for it: it took
\* a message id and inserted into the log, unless the INSERT failed.
PublishRetained(c, t, v) ==
    /\ up /\ pc[c] = "idle" /\ ops < MaxOps
    /\ messageID' = messageID + 1
    /\ \E logged \in {TRUE, ~Faults} :
          maxLogID' = IF logged THEN maxLogID + 1 ELSE maxLogID
    /\ tree' = [tree EXCEPT ![t] = v]
    /\ CallHook(c, "onRetainMessage", t, v)

\* A subscriber has been sent the retained message of a topic.
SendRetained(c, t) ==
    /\ up /\ pc[c] = "idle" /\ ops < MaxOps /\ tree[t] # Empty
    /\ CallHook(c, "onRetainPublished", t, tree[t])
    /\ UNCHANGED <<tree, maxLogID, messageID>>

\* The server drops an expired message and calls OnRetainedExpired, which
\* Manager.Provides does not list (and which would only log).
ExpireRetained(t) ==
    /\ Expiry /\ up /\ tree[t] # Empty
    /\ tree' = [tree EXCEPT ![t] = Empty]
    /\ dirty' = [dirty EXCEPT ![t] = TRUE]
    /\ UNCHANGED <<up, table, maxLogID, messageID, pc, pk,
                   ops, returned, order, applied, writer>>

-----------------------------------------------------------------------------
(* The hooks.                                                              *)

\* Both hooks have the same body: an empty payload deletes the row, any other
\* is stored under a fresh message id.
StoreOrDelete(c) ==
    IF pk[c].payload = Empty
    THEN /\ pc' = [pc EXCEPT ![c] = "delete"]
         /\ UNCHANGED <<messageID, pk>>
    ELSE /\ messageID' = messageID + 1
         /\ pk' = [pk EXCEPT ![c].id = messageID + 1]
         /\ pc' = [pc EXCEPT ![c] = "write"]

OnRetainMessage(c) ==
    /\ pc[c] = "onRetainMessage"
    /\ StoreOrDelete(c)
    /\ UNCHANGED <<up, tree, table, maxLogID, history>>

OnRetainPublished(c) ==
    /\ pc[c] = "onRetainPublished"
    /\ StoreOrDelete(c)
    /\ UNCHANGED <<up, tree, table, maxLogID, history>>

\* Mutant: INSERT OR IGNORE, which keeps the row that is there.
InsertOrIgnore(c, row) ==
    LET keep == row # NoRow /\ table[pk[c].topic] # NoRow
    IN  /\ table' = IF keep THEN table ELSE [table EXCEPT ![pk[c].topic] = row]
        /\ applied' = applied \cup {<<pk[c].op, pk[c].topic>>}
        /\ writer' = IF keep THEN writer ELSE [writer EXCEPT ![pk[c].topic] = pk[c].op]

\* The statement runs, on the row of the packet's topic.
SetRow(c, row) ==
    /\ table' = [table EXCEPT ![pk[c].topic] = row]
    /\ applied' = applied \cup {<<pk[c].op, pk[c].topic>>}
    /\ writer' = [writer EXCEPT ![pk[c].topic] = pk[c].op]

Return(c) ==
    /\ pc' = [pc EXCEPT ![c] = "idle"]
    /\ pk' = [pk EXCEPT ![c] = NoPacket]
    /\ returned' = returned \cup {pk[c].op}

\* persistRetainedToDB: INSERT OR REPLACE, topic being the primary key.
PersistRetained(c) ==
    /\ pc[c] = "write"
    /\ SetRow(c, [payload |-> pk[c].payload, msgID |-> pk[c].id])
    /\ pc' = [pc EXCEPT ![c] = "verify"]
    /\ UNCHANGED <<up, tree, maxLogID, messageID, pk,
                   ops, returned, order, dirty>>

\* persistRetainedToDB: SELECT COUNT( * ) WHERE topic = ?, expected to be 1; the
\* hook drops the error that another count, or a failing query, makes it return.
VerifyRetained(c) ==
    /\ pc[c] = "verify"
    /\ Return(c)
    /\ UNCHANGED <<up, tree, table, maxLogID, messageID,
                   ops, order, applied, writer, dirty>>

\* deleteRetainedFromDB.
DeleteRetained(c) ==
    /\ pc[c] = "delete"
    /\ SetRow(c, NoRow)
    /\ Return(c)
    /\ UNCHANGED <<up, tree, maxLogID, messageID, ops, order, dirty>>

\* The statement of either fails; its error is logged and dropped.
StatementFails(c) ==
    /\ Faults /\ pc[c] \in {"write", "delete"}
    /\ dirty' = [dirty EXCEPT ![pk[c].topic] = TRUE]
    /\ Return(c)
    /\ UNCHANGED <<up, tree, table, maxLogID, messageID,
                   ops, order, applied, writer>>

-----------------------------------------------------------------------------
(* Stopping, crashing, starting.                                           *)

\* The process ends, orderly or not: the tree and the hooks in flight are gone.
Exit ==
    /\ up
    /\ up' = FALSE
    /\ tree' = [t \in Topics |-> Empty]
    /\ pc' = [c \in Clients |-> "idle"]
    /\ pk' = [c \in Clients |-> NoPacket]
    /\ UNCHANGED <<table, maxLogID, messageID, history>>

\* StoredRetainedMessages, as the server loads it into the tree.
StoredRetainedMessages == [t \in Topics |-> table[t].payload]

\* Mutant: messageID is the id before the last one.
StartAtPreviousID ==
    /\ ~up
    /\ up' = TRUE
    /\ messageID' = maxLogID - 1
    /\ tree' = StoredRetainedMessages
    /\ dirty' = [t \in Topics |-> FALSE]
    /\ UNCHANGED <<table, maxLogID, pc, pk,
                   ops, returned, order, applied, writer>>

\* Manager.Start recovers messageID from the log (zero if that query fails),
\* then the server reads the stored messages and starts to serve.
Start ==
    /\ ~up
    /\ up' = TRUE
    /\ \E recovered \in {TRUE, ~Faults} :
          messageID' = IF recovered THEN maxLogID ELSE 0
    /\ tree' = StoredRetainedMessages
    /\ dirty' = [t \in Topics |-> FALSE]
    /\ UNCHANGED <<table, maxLogID, pc, pk,
                   ops, returned, order, applied, writer>>

Hook(c) ==
    \/ OnRetainMessage(c) \/ OnRetainPublished(c)
    \/ PersistRetained(c) \/ VerifyRetained(c) \/ DeleteRetained(c)
    \/ StatementFails(c)

Next ==
    \/ Start \/ Exit
    \/ \E c \in Writers, t \in Topics, v \in Messages : PublishRetained(c, t, v)
    \/ \E c \in Readers, t \in Topics : SendRetained(c, t)
    \/ \E c \in Clients : Hook(c)
    \/ \E t \in Topics : ExpireRetained(t)

Spec == Init /\ [][Next]_vars

-----------------------------------------------------------------------------
(* Properties.                                                             *)

\* What subscribers are sent and what a restart would restore differ only
\* where two hooks raced on a topic, a statement failed or the server expired
\* the message; the next undisturbed hook on the topic repairs it.
AgreesWhenUndisturbed ==
    up => \A t \in Topics :
             Quiet(t) /\ ~dirty[t] => table[t].payload = tree[t]

\* The table never goes back: once a hook that began after o returned has run
\* its statement on a topic, the row is not the one o left.
NeverSuperseded ==
    \A a \in applied : <<writer[a[2]], a[1]>> \notin order

\* A retained message is durable: with no hook in flight on its topic, what
\* subscribers are sent is what the table holds.
QuiescentAgreement ==
    up => \A t \in Topics : Quiet(t) => table[t].payload = tree[t]

\* A retained message that was deleted is not stored any more.
DeletedStaysDeleted ==
    up => \A t \in Topics : Quiet(t) /\ tree[t] = Empty => table[t] = NoRow
=============================================================================
