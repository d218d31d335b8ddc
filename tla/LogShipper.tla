----------------------------- MODULE LogShipper -----------------------------
(***************************************************************************)
(* The log shipper: one task per container of the network tails the        *)
(* container's log into a bounded queue, a writer loop moves the queue to  *)
(* system_logs in batches, and the event watcher starts and cancels tails  *)
(* as containers join and leave.  A tail starts at the second of the last  *)
(* line of its container in the table; a crash loses everything else.      *)
(***************************************************************************)
EXTENDS Integers, SequencesExt

CONSTANTS
    Containers,
    TaskIds,        \* bound: tails at a time, as natural numbers
    QueueSize,      \* maxsize of log_queue
    BatchSize,      \* BATCH_SIZE
    MaxLines,       \* bound: lines of one container's log
    MaxTime,        \* bound: the clock, in seconds
    MaxMoves,       \* bound: how often containers join or leave
    MaxCrashes,     \* bound: restarts of the shipper
    MayDrop,        \* the queue may be full, a batch may fail to be written
    MayEnd          \* a tail may end by an error

ASSUME ShipperAssumption ==
    /\ TaskIds \subseteq Nat \ {0}
    /\ {QueueSize, BatchSize} \subseteq Nat \ {0}
    /\ {MaxLines, MaxTime, MaxMoves, MaxCrashes} \subseteq Nat
    /\ {MayDrop, MayEnd} \subseteq BOOLEAN

VARIABLES
    joined,     \* the containers on the network
    log,        \* the second in which each line of a container was logged
    now,        \* the clock
    stored,     \* the lines that are in system_logs, once or more often
    dropped,    \* history: lines a full queue or a failed insert gave up
    ended,      \* history: containers whose log stream failed
    watcher,    \* "scan" | "watch": has run() subscribed to the events?
    unscanned,  \* listed containers scan_existing_containers has to inspect
    events,     \* what the event stream has for the watcher
    active,     \* active_tasks: the tail of each container, or 0
    tail,       \* each task: its container, its state, its next line
    queue,      \* log_queue
    batch,      \* the writer's batch
    writing,    \* the writer awaits the insert of its batch
    moves, crashes

shipper == <<watcher, unscanned, events, active, tail, queue, batch, writing>>
world == <<joined, log, now, moves>>
record == <<stored, dropped, ended, crashes>>
vars == <<shipper, world, record>>

NoTail == [of |-> CHOOSE c \in Containers : TRUE, at |-> "none", next |-> 1]
Line == Containers \X (1..MaxLines)

Init ==
    /\ joined \in SUBSET Containers
    /\ log = [c \in Containers |-> <<>>]
    /\ now = 0
    /\ stored = {}
    /\ dropped = {}
    /\ ended = {}
    /\ moves = 0
    /\ crashes = 0
    /\ watcher = "scan"
    /\ unscanned = Containers
    /\ events = <<>>
    /\ active = [c \in Containers |-> 0]
    /\ tail = [t \in TaskIds |-> NoTail]
    /\ queue = <<>>
    /\ batch = <<>>
    /\ writing = FALSE

-----------------------------------------------------------------------------
(* The containers and the process.                                         *)

LogLine(c) ==
    /\ Len(log[c]) < MaxLines
    /\ log' = [log EXCEPT ![c] = Append(@, now)]
    /\ UNCHANGED <<shipper, joined, now, moves, record>>

Tick ==
    /\ now < MaxTime
    /\ now' = now + 1
    /\ UNCHANGED <<shipper, joined, log, moves, record>>

\* The events of a network reach whoever has subscribed.
Move(c) ==
    /\ moves < MaxMoves
    /\ moves' = moves + 1
    /\ joined' = IF c \in joined THEN joined \ {c} ELSE joined \cup {c}
    /\ events' = IF watcher = "scan" THEN events
                 ELSE Append(events, [action |-> IF c \in joined THEN "disconnect"
                                                 ELSE "connect",
                                      of |-> c])
    /\ UNCHANGED <<watcher, unscanned, active, tail, queue, batch, writing, log, now,
                   record>>

\* The process dies and docker starts it again.
Crash ==
    /\ crashes < MaxCrashes
    /\ crashes' = crashes + 1
    /\ watcher' = "scan"
    /\ unscanned' = Containers
    /\ events' = <<>>
    /\ active' = [c \in Containers |-> 0]
    /\ tail' = [t \in TaskIds |-> NoTail]
    /\ queue' = <<>>
    /\ batch' = <<>>
    /\ writing' = FALSE
    /\ UNCHANGED <<world, stored, dropped, ended>>

-----------------------------------------------------------------------------
(* Tails.                                                                  *)

FreeTasks == {t \in TaskIds : tail[t].at = "none"}

\* create_task, and the entry in active_tasks.
StartTail(c) ==
    /\ FreeTasks # {}
    /\ LET t == Min(FreeTasks)
       IN  /\ tail' = [tail EXCEPT ![t] = [of |-> c, at |-> "created", next |-> 1]]
           /\ active' = [active EXCEPT ![c] = t]

HighWater(c) == Max({i \in 1..MaxLines : <<c, i>> \in stored} \cup {0})

\* Mutant: the start is rounded up to the next second.
SinceNextSecond(c) ==
    Min({i \in 1..Len(log[c]) :
            HighWater(c) = 0 \/ log[c][i] > log[c][HighWater(c)]} \cup {Len(log[c]) + 1})

\* The first line of the second in which the last stored line was logged.
Since(c) ==
    Min({i \in 1..Len(log[c]) :
            HighWater(c) = 0 \/ log[c][i] >= log[c][HighWater(c)]} \cup {Len(log[c]) + 1})

\* The task runs for the first time.
BeginTail(t) ==
    /\ tail[t].at = "created"
    /\ tail' = [tail EXCEPT ![t].at = "new"]
    /\ UNCHANGED <<watcher, unscanned, events, active, queue, batch, writing, world, record>>

OpenLog(t) ==
    /\ tail[t].at = "new"
    /\ tail' = [tail EXCEPT ![t].at = "reading", ![t].next = Since(tail[t].of)]
    /\ UNCHANGED <<watcher, unscanned, events, active, queue, batch, writing, world, record>>

HasLine(t) == tail[t].at = "reading" /\ tail[t].next <= Len(log[tail[t].of])

ReadLine(t) ==
    /\ HasLine(t)
    /\ Len(queue) < QueueSize
    /\ queue' = Append(queue, <<tail[t].of, tail[t].next>>)
    /\ tail' = [tail EXCEPT ![t].next = @ + 1]
    /\ UNCHANGED <<watcher, unscanned, events, active, batch, writing, world, record>>

\* A full queue drops the line.
DropLine(t) ==
    /\ MayDrop
    /\ HasLine(t)
    /\ Len(queue) = QueueSize
    /\ tail' = [tail EXCEPT ![t].next = @ + 1]
    /\ dropped' = dropped \cup {<<tail[t].of, tail[t].next>>}
    /\ UNCHANGED <<watcher, unscanned, events, active, queue, batch, writing, world,
                   stored, ended, crashes>>

\* Mutant: no finally clause.
LeaveBodyOnly(t) ==
    /\ tail' = [tail EXCEPT ![t] = NoTail]
    /\ active' = active

\* The finally clause removes the entry of the container, whosever it is.
LeaveBody(t) ==
    /\ tail' = [tail EXCEPT ![t] = NoTail]
    /\ active' = [active EXCEPT ![tail[t].of] = 0]

\* A cancelled task is resumed and ends.
EndTail(t) ==
    /\ tail[t].at = "cancelled"
    /\ LeaveBody(t)
    /\ UNCHANGED <<watcher, unscanned, events, queue, batch, writing, world, record>>

\* The log stream ends or fails; nobody opens it again.
TailFails(t) ==
    /\ MayEnd
    /\ tail[t].at \in {"new", "reading"}
    /\ LeaveBody(t)
    /\ ended' = ended \cup {tail[t].of}
    /\ UNCHANGED <<watcher, unscanned, events, queue, batch, writing, world, stored,
                   dropped, crashes>>

-----------------------------------------------------------------------------
(* scan_existing_containers and the event watcher.                         *)

ScanOne(c) ==
    /\ watcher = "scan"
    /\ c \in unscanned
    /\ unscanned' = unscanned \ {c}
    /\ IF c \in joined /\ active[c] = 0
       THEN StartTail(c)
       ELSE UNCHANGED <<tail, active>>
    /\ UNCHANGED <<watcher, events, queue, batch, writing, world, record>>

Subscribe ==
    /\ watcher = "scan"
    /\ unscanned = {}
    /\ watcher' = "watch"
    /\ UNCHANGED <<unscanned, events, active, tail, queue, batch, writing, world, record>>

OnConnect(c) ==
    /\ events # <<>> /\ Head(events) = [action |-> "connect", of |-> c]
    /\ events' = Tail(events)
    /\ IF active[c] = 0 THEN StartTail(c) ELSE UNCHANGED <<tail, active>>
    /\ UNCHANGED <<watcher, unscanned, queue, batch, writing, world, record>>

\* Mutant: the entry stays until the task ends.
OnDisconnectKeep(c) ==
    /\ events # <<>> /\ Head(events) = [action |-> "disconnect", of |-> c]
    /\ events' = Tail(events)
    /\ IF active[c] = 0 THEN UNCHANGED <<tail, active>>
       ELSE /\ tail' = [tail EXCEPT ![active[c]] =
                   IF @.at = "created" THEN NoTail ELSE [@ EXCEPT !.at = "cancelled"]]
            /\ active' = active
    /\ UNCHANGED <<watcher, unscanned, queue, batch, writing, world, record>>

\* The task is cancelled and its entry removed; it ends in a later step, or
\* never enters its body if it has not run yet.
OnDisconnect(c) ==
    /\ events # <<>> /\ Head(events) = [action |-> "disconnect", of |-> c]
    /\ events' = Tail(events)
    /\ IF active[c] = 0 THEN UNCHANGED <<tail, active>>
       ELSE /\ tail' = [tail EXCEPT ![active[c]] =
                   IF @.at = "created" THEN NoTail ELSE [@ EXCEPT !.at = "cancelled"]]
            /\ active' = [active EXCEPT ![c] = 0]
    /\ UNCHANGED <<watcher, unscanned, queue, batch, writing, world, record>>

-----------------------------------------------------------------------------
(* The writer loop.                                                        *)

\* The batch goes out when it is full or the queue is empty.
TakeLine ==
    /\ ~writing
    /\ queue # <<>>
    /\ batch' = Append(batch, Head(queue))
    /\ queue' = Tail(queue)
    /\ writing' = (Len(batch') >= BatchSize \/ queue' = <<>>)
    /\ UNCHANGED <<watcher, unscanned, events, active, tail, world, record>>

\* executemany inserts the batch in one transaction.
WriteBatch ==
    /\ writing
    /\ writing' = FALSE
    /\ batch' = <<>>
    /\ stored' = stored \cup ToSet(batch)
    /\ UNCHANGED <<watcher, unscanned, events, active, tail, queue, world, dropped, ended,
                   crashes>>

WriteFails ==
    /\ MayDrop
    /\ writing
    /\ writing' = FALSE
    /\ batch' = <<>>
    /\ dropped' = dropped \cup ToSet(batch)
    /\ UNCHANGED <<watcher, unscanned, events, active, tail, queue, world, stored, ended,
                   crashes>>

-----------------------------------------------------------------------------
Watch ==
    \/ Subscribe
    \/ \E c \in Containers : ScanOne(c) \/ OnConnect(c) \/ OnDisconnect(c)

Follow(t) == BeginTail(t) \/ OpenLog(t) \/ ReadLine(t) \/ DropLine(t) \/ EndTail(t)

Next ==
    \/ \E c \in Containers : LogLine(c) \/ Move(c)
    \/ Tick \/ Crash
    \/ Watch
    \/ \E t \in TaskIds : Follow(t) \/ TailFails(t)
    \/ TakeLine \/ WriteBatch \/ WriteFails

Spec == Init /\ [][Next]_vars

\* The event loop runs every task that can go on.
FairSpec ==
    /\ Spec
    /\ WF_vars(Watch) /\ WF_vars(TakeLine) /\ WF_vars(WriteBatch \/ WriteFails)
    /\ \A t \in TaskIds : WF_vars(Follow(t))

-----------------------------------------------------------------------------
(* Properties.                                                             *)

Tails(c) == {t \in TaskIds : tail[t].of = c /\ tail[t].at \in {"created", "new", "reading"}}

TypeOK ==
    /\ joined \subseteq Containers
    /\ log \in [Containers -> Seq(0..MaxTime)]
    /\ now \in 0..MaxTime /\ moves \in 0..MaxMoves /\ crashes \in 0..MaxCrashes
    /\ stored \subseteq Line /\ dropped \subseteq Line /\ ended \subseteq Containers
    /\ watcher \in {"scan", "watch"}
    /\ unscanned \subseteq Containers
    /\ events \in Seq([action : {"connect", "disconnect"}, of : Containers])
    /\ active \in [Containers -> TaskIds \cup {0}]
    /\ tail \in [TaskIds -> [of : Containers, at : {"none", "created", "new", "reading", "cancelled"},
                             next : 1..(MaxLines + 1)]]
    /\ queue \in Seq(Line) /\ Len(queue) <= QueueSize
    /\ batch \in Seq(Line) /\ Len(batch) <= BatchSize
    /\ writing \in BOOLEAN

\* Only lines that were logged are stored, and no line is missing before one
\* that is, except what the queue or a failed insert gave up: where a tail
\* starts again after a crash or a reconnection nothing was passed over.
NothingSkipped ==
    \A c \in Containers, i \in 1..MaxLines :
        <<c, i>> \in stored => /\ i <= Len(log[c])
                              /\ \A j \in 1..i : <<c, j>> \in stored \cup dropped

\* The tail active_tasks names for a container tails that container.
ActiveIsTail ==
    \A c \in Containers : active[c] # 0 => tail[active[c]].of = c /\ tail[active[c]].at # "none"

\* A container that stays on the network after a tail was started for it, or
\* its arrival was reported, is tailed to its last line, whatever joined,
\* left, crashed or was dropped before; unless a log stream fails, which
\* nobody opens again.
EveryLineStored ==
    \A c \in Containers :
        c \in joined /\ (Tails(c) # {} \/ Contains(events, [action |-> "connect", of |-> c]))
            ~> \/ c \notin joined \/ c \in ended
               \/ \A i \in 1..Len(log[c]) : <<c, i>> \in stored \cup dropped
=============================================================================
