------------------------------- MODULE Alerter ------------------------------
(***************************************************************************)
(* The alerter sidecar and the tools the Imperator teaches it with.  A     *)
(* webhook call remembers the id of its event, looks for an instruction,   *)
(* has the text formatted, sends it to every channel and writes the        *)
(* outcome to alert_events and alert_deliveries.  Every await can meet a   *)
(* PostgreSQL that is down, a provider that fails, an edited instruction   *)
(* or a restart.                                                           *)
(***************************************************************************)
EXTENDS Naturals, Sequences, FiniteSets

CONSTANTS
    Calls,              \* POST /webhook requests, retries included
    Events,             \* CloudEvents ids
    Nothing,            \* an event without id
    ChannelLists,       \* what an instruction may list
    DefaultChannels,    \* default_channels of alerter.yml
    TypeOf,             \* type of each channel: what its entry says, known or not
    RetryCount,         \* _PG_RETRY_COUNT
    SeenMax,            \* _SEEN_EVENT_IDS_MAX
    EvictCount          \* half of it

Elements(list) == {list[i] : i \in DOMAIN list}
Channels == UNION {Elements(l) : l \in ChannelLists \cup {DefaultChannels}}

\* The types there is a sender for.
KnownTypes == {"slack", "discord", "ntfy", "smtp", "twilio", "webhook", "log"}

ASSUME AlerterAssumption ==
    /\ Nothing \notin Events
    /\ RetryCount \in Nat \ {0}
    /\ {SeenMax, EvictCount} \subseteq Nat \ {0}
    /\ EvictCount <= SeenMax
    /\ Channels \subseteq DOMAIN TypeOf

VARIABLES
    server,         \* "starting" | "up"
    attempt,        \* of the connection loop at startup
    pool,           \* _pool is not None
    seen,           \* _seen_event_ids
    forgotten,      \* history: ids that were evicted or lost by a restart
    table,          \* rows of alert_instructions
    pc,             \* where each webhook call awaits
    op,             \* what it carries along
    sent,           \* history: the channels that took the message of each call
    unanswered,     \* history: those of them whose answer was lost
    events,         \* calls with a row in alert_events
    deliveries      \* rows of alert_deliveries

call == <<pc, op, sent, unanswered>>
rows == <<events, deliveries>>
vars == <<server, attempt, pool, seen, forgotten, table, call, rows>>

Row == [embedded : BOOLEAN, channels : ChannelLists]
NoOp == [event |-> Nothing, channels |-> <<>>, next |-> 1, succeeded |-> {}]
Answered == {"processed", "duplicate", "raised", "lost"}

Init ==
    /\ server = "starting"
    /\ attempt = 0
    /\ pool = FALSE
    /\ seen = {}
    /\ forgotten = {}
    /\ table = {}
    /\ pc = [c \in Calls |-> "idle"]
    /\ op = [c \in Calls |-> NoOp]
    /\ sent = [c \in Calls |-> {}]
    /\ unanswered = [c \in Calls |-> {}]
    /\ events = {}
    /\ deliveries = {}

Goto(c, place) == pc' = [pc EXCEPT ![c] = place]
Current(c) == op[c].channels[op[c].next]
Sending(c) == pc[c] = "send" /\ op[c].next <= Len(op[c].channels)

-----------------------------------------------------------------------------
(* The process.  PostgreSQL may fail at every statement.                    *)

Connect ==
    /\ server = "starting"
    /\ server' = "up"
    /\ pool' = TRUE
    /\ UNCHANGED <<attempt, seen, forgotten, table, call, rows>>

\* After the last attempt the alerter serves without a pool, for good.
ConnectFails ==
    /\ server = "starting"
    /\ attempt' = attempt + 1
    /\ server' = IF attempt' = RetryCount THEN "up" ELSE server
    /\ UNCHANGED <<pool, seen, forgotten, table, call, rows>>

\* A restart forgets the ids it has seen and every call under way; a channel
\* may have taken the message all the same.
Restart ==
    /\ server = "up"
    /\ server' = "starting"
    /\ attempt' = 0
    /\ pool' = FALSE
    /\ forgotten' = forgotten \cup seen
    /\ seen' = {}
    /\ pc' = [c \in Calls |->
                 IF pc[c] \in {"idle"} \cup Answered THEN pc[c] ELSE "lost"]
    /\ op' = [c \in Calls |->
                 IF pc'[c] = "lost" THEN [NoOp EXCEPT !.event = op[c].event] ELSE op[c]]
    /\ \E taking \in SUBSET {c \in Calls : Sending(c) /\ TypeOf[Current(c)] \in KnownTypes} :
           sent' = [c \in Calls |-> sent[c] \cup (IF c \in taking THEN {Current(c)} ELSE {})]
    /\ UNCHANGED <<table, unanswered, rows>>

-----------------------------------------------------------------------------
(* The tools of the Imperator, one statement each after the provider's     *)
(* answer.  Bound: one instruction at a time.                              *)

\* The provider may fail to embed the description.
AddInstruction ==
    /\ table = {}
    /\ \E row \in Row : table' = {row}
    /\ UNCHANGED <<server, attempt, pool, seen, forgotten, call, rows>>

\* An update gives a row other channels, and an embedding if it had none; one
\* whose provider fails leaves the embedding of the old description.
UpdateInstruction ==
    /\ \E old \in table, new \in Row :
           /\ old.embedded => new.embedded
           /\ table' = (table \ {old}) \cup {new}
    /\ UNCHANGED <<server, attempt, pool, seen, forgotten, call, rows>>

DeleteInstruction ==
    /\ table # {}
    /\ table' = {}
    /\ UNCHANGED <<server, attempt, pool, seen, forgotten, call, rows>>

-----------------------------------------------------------------------------
(* webhook.                                                                *)

\* Mutant: an id is remembered when its event has been processed.
ReceiveLate(c) ==
    /\ server = "up"
    /\ pc[c] = "idle"
    /\ \E e \in Events :
           /\ op' = [op EXCEPT ![c].event = e]
           /\ Goto(c, IF \E d \in Calls : pc[d] = "processed" /\ op[d].event = e
                      THEN "duplicate" ELSE "vector")
    /\ UNCHANGED <<server, attempt, pool, seen, forgotten, table, sent, unanswered, rows>>

\* Mutant: events without an id share one.
ReceiveWithoutId(c) ==
    /\ server = "up"
    /\ pc[c] = "idle"
    /\ \E e \in Events \cup {Nothing} :
           /\ op' = [op EXCEPT ![c].event = e]
           /\ Goto(c, IF e \in seen THEN "duplicate" ELSE "vector")
           /\ seen' = seen \cup {e}
    /\ UNCHANGED <<server, attempt, pool, forgotten, table, sent, unanswered, rows>>

\* No await lies between the check and the addition.  A set has no order: the
\* evicted ids may be the newest.
Receive(c) ==
    /\ server = "up"
    /\ pc[c] = "idle"
    /\ \E e \in Events \cup {Nothing} :
           /\ op' = [op EXCEPT ![c].event = e]
           /\ \/ /\ e \in seen
                 /\ Goto(c, "duplicate")
                 /\ UNCHANGED <<seen, forgotten>>
              \/ /\ e \notin seen
                 /\ Goto(c, "vector")
                 /\ LET all == seen \cup ({e} \ {Nothing})
                    IN  IF Cardinality(all) <= SeenMax
                        THEN seen' = all /\ UNCHANGED forgotten
                        ELSE \E gone \in SUBSET all :
                                 /\ Cardinality(gone) = EvictCount
                                 /\ seen' = all \ gone
                                 /\ forgotten' = forgotten \cup gone
    /\ UNCHANGED <<server, attempt, pool, table, sent, unanswered, rows>>

Use(c, list) == op' = [op EXCEPT ![c].channels = list]

\* The nearest of the embedded instructions; without a pool, the defaults.
FindByVector(c) ==
    /\ pc[c] = "vector"
    /\ IF ~pool
       THEN Use(c, DefaultChannels) /\ Goto(c, "send")
       ELSE \/ /\ \E row \in table : row.embedded /\ Use(c, row.channels)
               /\ Goto(c, "format")
            \/ op' = op /\ Goto(c, "text")
    /\ UNCHANGED <<server, attempt, pool, seen, forgotten, table, sent, unanswered, rows>>

\* The description contains the event's type, or nothing does.
FindByText(c) ==
    /\ pc[c] = "text"
    /\ \/ /\ \E row \in table : Use(c, row.channels)
          /\ Goto(c, "format")
       \/ Use(c, DefaultChannels) /\ Goto(c, "send")
    /\ UNCHANGED <<server, attempt, pool, seen, forgotten, table, sent, unanswered, rows>>

\* Formatted, or the plain message when the model fails.
Format(c) ==
    /\ pc[c] = "format"
    /\ Goto(c, "send")
    /\ UNCHANGED <<server, attempt, pool, seen, forgotten, table, op, sent, unanswered, rows>>

\* An answer that is not JSON, a channel that is not an object or whose address
\* is none, a subject that is no string: what no clause catches ends the handler
\* with 500, and the id stays among the seen.
Raise(c) ==
    /\ pc[c] \in {"vector", "text", "format", "send", "record", "deliveries"}
    /\ Goto(c, "raised")
    /\ UNCHANGED <<server, attempt, pool, seen, forgotten, table, op, sent, unanswered, rows>>

Took(c) == sent' = [sent EXCEPT ![c] = @ \cup {Current(c)}]
Succeeded(c) == op' = [op EXCEPT ![c].next = @ + 1,
                                 ![c].succeeded = @ \cup {TypeOf[Current(c)]}]

Send(c) ==
    /\ Sending(c)
    /\ TypeOf[Current(c)] \in KnownTypes
    /\ Took(c)
    /\ Succeeded(c)
    /\ UNCHANGED <<server, attempt, pool, seen, forgotten, table, pc, unanswered, rows>>

\* A type there is no sender for is logged, and counts as succeeded.
SendUnknown(c) ==
    /\ Sending(c)
    /\ TypeOf[Current(c)] \notin KnownTypes
    /\ Succeeded(c)
    /\ UNCHANGED <<server, attempt, pool, seen, forgotten, table, pc, sent, unanswered, rows>>

\* A channel that can fail is under way; "log" cannot.
MayFail(c) == Sending(c) /\ TypeOf[Current(c)] \in KnownTypes \ {"log"}

\* Mutant: the first channel that fails ends the fan-out.
SendFailsAll(c) ==
    /\ MayFail(c)
    /\ Goto(c, "record")
    /\ UNCHANGED <<server, attempt, pool, seen, forgotten, table, op, sent, unanswered, rows>>

\* Mutant: a channel counts as succeeded before it is awaited.
SendFailsCounted(c) ==
    /\ MayFail(c)
    /\ Succeeded(c)
    /\ UNCHANGED <<server, attempt, pool, seen, forgotten, table, pc, sent, unanswered, rows>>

\* Nobody took the message, or the provider did and the time ran out, or the
\* session failed, before its answer was read.
SendFails(c) ==
    /\ MayFail(c)
    /\ op' = [op EXCEPT ![c].next = @ + 1]
    /\ \/ UNCHANGED <<sent, unanswered>>
       \/ /\ Took(c)
          /\ unanswered' = [unanswered EXCEPT ![c] = @ \cup {Current(c)}]
    /\ UNCHANGED <<server, attempt, pool, seen, forgotten, table, pc, rows>>

SendDone(c) ==
    /\ pc[c] = "send"
    /\ op[c].next > Len(op[c].channels)
    /\ Goto(c, IF pool THEN "record" ELSE "processed")
    /\ UNCHANGED <<server, attempt, pool, seen, forgotten, table, op, sent, unanswered, rows>>

RecordEvent(c) ==
    /\ pc[c] = "record"
    /\ events' = events \cup {c}
    /\ Goto(c, "deliveries")
    /\ UNCHANGED <<server, attempt, pool, seen, forgotten, table, op, sent, unanswered, deliveries>>

DeliveryRow(c, type) == [call |-> c, type |-> type, ok |-> type \in op[c].succeeded]
Attempted(c) == {TypeOf[ch] : ch \in Elements(op[c].channels)}
Unrecorded(c) == {t \in Attempted(c) : DeliveryRow(c, t) \notin deliveries}

\* One INSERT for each channel, a statement of its own.
RecordDelivery(c) ==
    /\ pc[c] = "deliveries"
    /\ \E t \in Unrecorded(c) : deliveries' = deliveries \cup {DeliveryRow(c, t)}
    /\ UNCHANGED <<server, attempt, pool, seen, forgotten, table, call, events>>

\* All rows are written, or a statement failed and the rest is left out.
Answer(c) ==
    /\ pc[c] \in {"record", "deliveries"}
    /\ Goto(c, "processed")
    /\ UNCHANGED <<server, attempt, pool, seen, forgotten, table, op, sent, unanswered, rows>>

-----------------------------------------------------------------------------
Step(c) ==
    \/ FindByVector(c) \/ FindByText(c) \/ Format(c) \/ Send(c) \/ SendUnknown(c)
    \/ SendFails(c) \/ SendDone(c) \/ RecordEvent(c) \/ RecordDelivery(c) \/ Answer(c)

Next ==
    \/ Connect \/ ConnectFails \/ Restart
    \/ AddInstruction \/ UpdateInstruction \/ DeleteInstruction
    \/ \E c \in Calls : Receive(c) \/ Raise(c) \/ Step(c)

Spec == Init /\ [][Next]_vars

\* Providers and channels have timeouts, so an await ends.
FairSpec == Spec /\ \A c \in Calls : WF_vars(Step(c))

-----------------------------------------------------------------------------
(* Properties.                                                             *)

TypeOK ==
    /\ server \in {"starting", "up"}
    /\ attempt \in 0..RetryCount
    /\ pool \in BOOLEAN
    /\ {seen, forgotten} \subseteq SUBSET Events
    /\ table \subseteq Row
    /\ pc \in [Calls -> {"idle", "vector", "text", "format", "send", "record",
                         "deliveries"} \cup Answered]
    /\ {sent, unanswered} \subseteq [Calls -> SUBSET Channels]
    /\ events \subseteq Calls
    /\ Cardinality(seen) <= SeenMax

\* "Idempotency: deduplicate by CloudEvents id": while its id is remembered,
\* an event goes to no channel a second time, however its retries overlap.
OncePerChannel ==
    \A c, d \in Calls :
        c # d /\ op[c].event = op[d].event /\ op[c].event \notin forgotten \cup {Nothing}
        => sent[c] \cap sent[d] = {}

\* An event is dropped as a duplicate only if another call took it, and never
\* when it has no id, as the events of send_notification.
DuplicatesHavePrecedent ==
    \A c \in Calls : pc[c] = "duplicate" =>
        /\ op[c].event # Nothing
        /\ \E d \in Calls \ {c} : /\ op[d].event = op[c].event
                                  /\ pc[d] \notin {"idle", "duplicate"}

\* What the history tells of an event it has: a success, that some channel of
\* the type took the message, if there is a sender for the type at all; a failure,
\* that no channel of the type took it and answered.  It tells no more: a type
\* without a sender is always a success, of two channels of one type a failed
\* one is covered by the other, and a failure may be a delivery whose answer was
\* lost.
HistoryIsTrue ==
    \A row \in deliveries :
        LET took == {ch \in sent[row.call] : TypeOf[ch] = row.type}
        IN  /\ row.call \in events
            /\ row.ok /\ row.type \in KnownTypes => took # {}
            /\ ~row.ok => took \subseteq unanswered[row.call]

\* An event that is accepted is tried on every channel it was routed to,
\* whatever fails before or among them, unless the handler raises or the
\* process restarts.
EveryEventTried ==
    \A c \in Calls :
        pc[c] = "vector" ~>
            \/ pc[c] = "processed" /\ op[c].next > Len(op[c].channels)
            \/ pc[c] \in {"raised", "lost"}
=============================================================================
