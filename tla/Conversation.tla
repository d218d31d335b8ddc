---------------------------- MODULE Conversation ----------------------------
(***************************************************************************)
(* The message table of one conversation in PostgreSQL at READ COMMITTED.  *)
(* store_message and the prompt store of get_context append to it or raise *)
(* the repeat count of its last row; both serialize on one transaction-    *)
(* level advisory lock.  delete_conversation empties it without the lock,  *)
(* and get_context brings a deleted conversation back under the same id.   *)
(* Steps are statements; what a transaction changed shows at its commit.   *)
(***************************************************************************)
EXTENDS Integers, FiniteSets, Functions

CONSTANTS
    Storers,        \* concurrent store_message calls
    Prompters,      \* concurrent get_context calls with a user_prompt
    NoOne,          \* the advisory lock has no holder
    Roles, Senders, Contents,
    Null,           \* a message without content (a tool call)
    UserRole, UserSender,   \* the literals 'user' of get_context
    MaxCalls,       \* bound: calls started
    MaxDeletes,     \* bound: deletions that commit
    MayAbort        \* a connection may be lost inside a transaction

Callers == Storers \cup Prompters

ASSUME ConversationAssumption ==
    /\ Storers \cap Prompters = {}
    /\ NoOne \notin Callers
    /\ Null \notin Contents
    /\ UserRole \in Roles /\ UserSender \in Senders
    /\ MaxCalls \in Nat /\ MaxDeletes \in Nat
    /\ MayAbort \in BOOLEAN

VARIABLES
    conv,       \* "live" | "deleted"
    rows,       \* sequence number -> committed row
    total,      \* conversations.total_messages
    holder,     \* transaction holding the advisory lock
    pc,         \* the statement each call is about to run
    call,       \* its message, and what it has read
    deleter,    \* "idle" | "clearing": the deleting transaction
    cleared,    \* rows it has deleted and not yet committed
    epoch,      \* how often the conversation was deleted
    calls,      \* how many calls were started
    acked       \* successful calls started in this epoch

vars == <<conv, rows, total, holder, pc, call, deleter, cleared, epoch, calls, acked>>

Message == [role : Roles, sender : Senders, content : Contents \cup {Null}]
Stored == [msg : Message, repeat : Nat \ {0}]
Seqs == DOMAIN rows

\* Mutant: no COALESCE, -1 standing for NULL.
LastSeqOrNull == IF Seqs = {} THEN -1 ELSE CHOOSE s \in Seqs : \A t \in Seqs : t <= s

\* COALESCE(MAX(sequence_number), 0)
LastSeq == IF Seqs = {} THEN 0 ELSE CHOOSE s \in Seqs : \A t \in Seqs : t <= s

\* store_message takes any message; get_context stores its prompt as 'user'.
MessagesOf(c) ==
    IF c \in Storers THEN Message
    ELSE {m \in Message : m.role = UserRole /\ m.sender = UserSender /\ m.content # Null}

Same(m, n) == m.sender = n.sender /\ m.content = n.content /\ m.content # Null

Goto(c, label) == pc' = [pc EXCEPT ![c] = label]

Nothing == [role |-> UserRole, sender |-> UserSender, content |-> Null]
NoCall(m) == [msg |-> m, prev |-> 0, repeat |-> 1, seq |-> 1, epoch |-> 0]

Init ==
    /\ conv = "live"
    /\ rows = [s \in {} |-> Nothing]
    /\ total = 0
    /\ holder = NoOne
    /\ pc = [c \in Callers |-> "idle"]
    /\ call = [c \in Callers |-> NoCall(Nothing)]
    /\ deleter = "idle"
    /\ cleared = {}
    /\ epoch = 0
    /\ calls = 0
    /\ acked = 0

-----------------------------------------------------------------------------
(* One call.                                                               *)

\* store_message first checks, outside the transaction, that the conversation
\* exists; get_context goes straight to its transaction.
Call(c) ==
    /\ pc[c] = "idle"
    /\ calls < MaxCalls
    /\ calls' = calls + 1
    /\ \E m \in MessagesOf(c) :
           call' = [call EXCEPT ![c] = [NoCall(m) EXCEPT !.epoch = epoch]]
    /\ Goto(c, IF c \in Storers THEN "check" ELSE "begin")
    /\ UNCHANGED <<conv, rows, total, holder, deleter, cleared, epoch, acked>>

CheckExists(c) ==
    /\ pc[c] = "check"
    /\ Goto(c, IF conv = "live" THEN "begin" ELSE "idle")
    /\ UNCHANGED <<conv, rows, total, holder, call, deleter, cleared, epoch, calls, acked>>

\* Mutant: the transaction does not take the lock.
BeginUnlocked(c) ==
    /\ pc[c] = "begin"
    /\ holder' = c
    /\ Goto(c, "read")
    /\ UNCHANGED <<conv, rows, total, call, deleter, cleared, epoch, calls, acked>>

\* pg_advisory_xact_lock waits for the holder's transaction to end.
Begin(c) ==
    /\ pc[c] = "begin"
    /\ holder = NoOne
    /\ holder' = c
    /\ Goto(c, "read")
    /\ UNCHANGED <<conv, rows, total, call, deleter, cleared, epoch, calls, acked>>

\* The last row decides between raising its repeat count and inserting.
ReadPrevious(c) ==
    /\ pc[c] = "read"
    /\ IF Seqs # {} /\ Same(call[c].msg, rows[LastSeq].msg)
       THEN /\ call' = [call EXCEPT ![c].prev = LastSeq,
                                    ![c].repeat = rows[LastSeq].repeat]
            /\ Goto(c, "collapse")
       ELSE /\ call' = call
            /\ Goto(c, "insert")
    /\ UNCHANGED <<conv, rows, total, holder, deleter, cleared, epoch, calls, acked>>

\* The call reports success.
Acknowledge(c) ==
    /\ Goto(c, "idle")
    /\ holder' = NoOne
    /\ acked' = acked + (IF call[c].epoch = epoch THEN 1 ELSE 0)

\* Mutant: store_message takes every repetition for the first one.
CollapseToTwo(c) ==
    /\ pc[c] = "collapse"
    /\ call[c].prev \notin cleared
    /\ rows' = IF call[c].prev = 0 THEN rows
               ELSE [rows EXCEPT ![call[c].prev].repeat =
                        1 + IF c \in Storers THEN 1 ELSE @]
    /\ Acknowledge(c)
    /\ UNCHANGED <<conv, total, call, deleter, cleared, epoch, calls>>

\* The update waits while the row is deleted by an open transaction and finds
\* nothing after that commits.  store_message writes the count it read plus
\* one, get_context adds one to the stored count.
Collapse(c) ==
    /\ pc[c] = "collapse"
    /\ call[c].prev \notin cleared
    /\ rows' = IF call[c].prev = 0 THEN rows
               ELSE [rows EXCEPT ![call[c].prev].repeat =
                        1 + IF c \in Storers THEN call[c].repeat ELSE @]
    /\ Acknowledge(c)
    /\ UNCHANGED <<conv, total, call, deleter, cleared, epoch, calls>>

\* The snapshot of the INSERT statement fixes the number ...
PickSeq(c) ==
    /\ pc[c] = "insert"
    /\ call' = [call EXCEPT ![c].seq = LastSeq + 1]
    /\ Goto(c, "index")
    /\ UNCHANGED <<conv, rows, total, holder, deleter, cleared, epoch, calls, acked>>

\* ... and its end checks the unique index and the foreign key, which locks
\* the conversation's row against deletion.
InsertRow(c) ==
    /\ pc[c] = "index"
    /\ conv = "live"
    /\ call[c].seq \notin Seqs
    /\ Goto(c, "counters")
    /\ UNCHANGED <<conv, rows, total, holder, call, deleter, cleared, epoch, calls, acked>>

\* Mutant: a session-level lock, which the failed transaction does not free.
InsertRefusedLocked(c) ==
    /\ pc[c] = "index"
    /\ conv = "deleted"
    /\ Goto(c, "idle")
    /\ UNCHANGED <<conv, rows, total, holder, call, deleter, cleared, epoch, calls, acked>>

\* No conversation: store_message raises, get_context logs a warning.
InsertRefused(c) ==
    /\ pc[c] = "index"
    /\ conv = "deleted"
    /\ Goto(c, "idle")
    /\ holder' = NoOne
    /\ UNCHANGED <<conv, rows, total, call, deleter, cleared, epoch, calls, acked>>

Inserted(c) == [s \in Seqs \cup {call[c].seq} |->
                   IF s = call[c].seq THEN [msg |-> call[c].msg, repeat |-> 1] ELSE rows[s]]

\* Mutant: the counter is left to a later job.
CommitRowOnly(c) ==
    /\ pc[c] = "counters"
    /\ rows' = Inserted(c)
    /\ total' = total
    /\ Acknowledge(c)
    /\ UNCHANGED <<conv, call, deleter, cleared, epoch, calls>>

\* The counters are updated and the transaction commits.
Commit(c) ==
    /\ pc[c] = "counters"
    /\ rows' = Inserted(c)
    /\ total' = total + 1
    /\ Acknowledge(c)
    /\ UNCHANGED <<conv, call, deleter, cleared, epoch, calls>>

InTransaction(c) == pc[c] \in {"read", "collapse", "insert", "index", "counters"}

\* The connection is lost: the transaction rolls back and its lock is freed.
Abort(c) ==
    /\ MayAbort
    /\ InTransaction(c)
    /\ Goto(c, "idle")
    /\ holder' = NoOne
    /\ UNCHANGED <<conv, rows, total, call, deleter, cleared, epoch, calls, acked>>

-----------------------------------------------------------------------------
(* delete_conversation and the recovery of a deleted conversation.         *)

\* Mutant: the two deletions are not in one transaction.
DeleteRowsAtOnce ==
    /\ deleter = "idle"
    /\ conv = "live"
    /\ epoch < MaxDeletes
    /\ deleter' = "clearing"
    /\ cleared' = {}
    /\ rows' = [s \in {} |-> Nothing]
    /\ UNCHANGED <<conv, total, holder, pc, call, epoch, calls, acked>>

DeleteRows ==
    /\ deleter = "idle"
    /\ conv = "live"
    /\ epoch < MaxDeletes
    /\ deleter' = "clearing"
    /\ cleared' = Seqs
    /\ UNCHANGED <<conv, rows, total, holder, pc, call, epoch, calls, acked>>

\* The row of the conversation is free and nothing refers to it any more.
DeleteConversation ==
    /\ deleter = "clearing"
    /\ \A c \in Callers : pc[c] # "counters"
    /\ Seqs \subseteq cleared
    /\ deleter' = "idle"
    /\ cleared' = {}
    /\ conv' = "deleted"
    /\ rows' = [s \in {} |-> Nothing]
    /\ total' = 0
    /\ call' = [c \in Callers |-> [call[c] EXCEPT !.prev = 0]]
    /\ epoch' = epoch + 1
    /\ acked' = 0
    /\ UNCHANGED <<holder, pc, calls>>

\* A message was stored after the rows were deleted: the foreign key refuses
\* the deletion of the conversation and the transaction rolls back.
DeleteRefused ==
    /\ deleter = "clearing"
    /\ \A c \in Callers : pc[c] # "counters"
    /\ ~(Seqs \subseteq cleared)
    /\ deleter' = "idle"
    /\ cleared' = {}
    /\ UNCHANGED <<conv, rows, total, holder, pc, call, epoch, calls, acked>>

\* find_or_create_window inserts the conversation again under its old id.
Recover ==
    /\ conv = "deleted"
    /\ conv' = "live"
    /\ UNCHANGED <<rows, total, holder, pc, call, deleter, cleared, epoch, calls, acked>>

-----------------------------------------------------------------------------
Continue(c) ==
    \/ CheckExists(c) \/ Begin(c) \/ ReadPrevious(c) \/ Collapse(c)
    \/ PickSeq(c) \/ InsertRow(c) \/ InsertRefused(c) \/ Commit(c)

Next ==
    \/ \E c \in Callers : Call(c) \/ Continue(c) \/ Abort(c)
    \/ DeleteRows \/ DeleteConversation \/ DeleteRefused \/ Recover

Spec == Init /\ [][Next]_vars

\* PostgreSQL serves the waiters of a lock in order, so a transaction that
\* waits for the advisory lock is not passed over for ever.
FairSpec ==
    /\ Spec
    /\ \A c \in Callers : SF_vars(Begin(c)) /\ WF_vars(Continue(c))
    /\ WF_vars(DeleteConversation \/ DeleteRefused)

-----------------------------------------------------------------------------
(* Properties.                                                             *)

Labels == {"idle", "check", "begin", "read", "collapse", "insert", "index", "counters"}

CallRecord == [msg : Message, prev : Nat, repeat : Nat \ {0}, seq : Nat \ {0}, epoch : Nat]

TypeOK ==
    /\ conv \in {"live", "deleted"}
    /\ Seqs \in SUBSET (Nat \ {0}) /\ rows \in [Seqs -> Stored]
    /\ total \in Nat
    /\ holder \in Callers \cup {NoOne}
    /\ pc \in [Callers -> Labels]
    /\ call \in [Callers -> CallRecord]
    /\ deleter \in {"idle", "clearing"}
    /\ cleared \subseteq Seqs
    /\ epoch \in Nat /\ calls \in Nat /\ acked \in Nat

\* total_messages is the number of rows of the table, across collapses,
\* rollbacks, refused inserts and deletions.
CountersMatch == IsFiniteSet(Seqs) /\ total = Cardinality(Seqs)

\* A number picked by a pending INSERT is above every committed one, so the
\* unique index is never hit and the retry of store_message never runs.
SeqAlwaysFree ==
    \A c \in Callers : pc[c] \in {"index", "counters"} =>
        \A s \in Seqs : s < call[c].seq

\* Two messages that follow each other are never the same message stored
\* twice: the collapse sees the row that its insert would follow.
NoAdjacentDuplicates ==
    \A s, t \in Seqs :
        s < t /\ Same(rows[s].msg, rows[t].msg) => \E u \in Seqs : s < u /\ u < t

\* Every acknowledged call of this epoch is still accounted for, by a row of
\* its own or by one unit of a repeat count: no collapse is lost.
AcknowledgedIsStored ==
    acked <= SumFunctionOnSet([s \in Seqs |-> rows[s].repeat], Seqs)

\* A committed message keeps its number and text for as long as the
\* conversation exists, and its repeat count never goes down.
AppendOnly ==
    [][epoch' = epoch =>
          /\ Seqs \subseteq DOMAIN rows'
          /\ \A s \in Seqs : /\ rows'[s].msg = rows[s].msg
                            /\ rows'[s].repeat >= rows[s].repeat]_vars

\* Readers of the table see a MessageLog: each commit adds one message at the
\* end, repeats the last one once, or removes everything; whatever the calls
\* did between their statements.
Log == INSTANCE MessageLog WITH log <- rows, exists <- (conv = "live")

ImplementsMessageLog == Log!Spec

\* Every call and every deletion returns: no wait for the advisory lock, for a
\* row a deletion holds, or of a deletion for an insert, closes a cycle.
CallsReturn ==
    /\ \A c \in Callers : pc[c] # "idle" ~> pc[c] = "idle"
    /\ deleter = "clearing" ~> deleter = "idle"
=============================================================================
