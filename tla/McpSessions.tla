---------------------------- MODULE McpSessions ----------------------------
(***************************************************************************)
(* The SSE sessions of the MCP endpoint.  A GET registers a session with a *)
(* bounded queue and streams what is put there; a POST runs its tool and   *)
(* puts the response into the queue of the session it names.  A global     *)
(* count of queued messages and a cap on sessions are enforced only when   *)
(* the next session registers.  The code between two awaits is a step: the *)
(* sections under _session_lock contain no await, so each is one.          *)
(***************************************************************************)
EXTENDS Integers, SequencesExt

CONSTANTS
    Streams,        \* GET requests, each with its own session
    Calls,          \* POST requests of method tools/call
    MaxSessions,    \* mcp_max_sessions
    MaxTotal,       \* mcp_max_total_queued
    QueueSize       \* maxsize of a session's queue

ASSUME McpAssumption ==
    /\ MaxSessions \in Nat /\ MaxTotal \in Nat
    /\ QueueSize \in Nat \ {0}

VARIABLES
    sessions,   \* _sessions: the registered sessions, oldest first
    queue,      \* each session's queue, which its stream keeps when evicted
    stream,     \* the event stream of each session
    total,      \* _total_queued_messages
    call        \* each POST: its session, how far it is and its answer

sessionsVars == <<sessions, queue, stream, total, call>>

Registered == ToSet(sessions)
QueuedIn(S) == SumFunctionOnSet([s \in Streams |-> Len(queue[s])], S)

SessionsInit ==
    /\ sessions = <<>>
    /\ queue = [s \in Streams |-> <<>>]
    /\ stream = [s \in Streams |-> "new"]
    /\ total = 0
    /\ call = [c \in Calls |-> [session |-> CHOOSE s \in Streams : TRUE, at |-> "new"]]

-----------------------------------------------------------------------------
(* Registering and closing a session.                                      *)

AllButFirst(k) == SubSeq(sessions, k + 1, Len(sessions))
QueuedInFirst(k) == QueuedIn({sessions[i] : i \in 1..k})

\* Mutant: the sessions that timed out keep their share of the count.
EvictUncounted(stale, k) == total - (QueuedInFirst(k) - QueuedInFirst(stale))

\* Evicting k sessions, stale of them by age, takes their messages off.
CountAfterEviction(stale, k) == total - QueuedInFirst(k)

\* Mutant: only sessions that timed out are evicted.
EvictOnlyStale(stale, k) == k = stale

\* The oldest sessions go while there are too many sessions, then while the
\* count is too high; the stale ones, a prefix too, went before.
Evicts(stale, k) ==
    LET overCap == Len(sessions) - MaxSessions
        least == IF overCap > stale THEN overCap ELSE stale
        relieved(i) == i >= least /\ total - QueuedInFirst(i) <= MaxTotal
    IN  \/ relieved(k) /\ \A i \in 0..(k - 1) : ~relieved(i)
        \/ k = Len(sessions) /\ \A i \in 0..k : ~relieved(i)

\* The new session goes in after the eviction made room.
Register(s) ==
    /\ stream[s] = "new"
    /\ \E stale \in 0..Len(sessions), k \in 0..Len(sessions) :
           /\ Evicts(stale, k)
           /\ total' = CountAfterEviction(stale, k)
           /\ sessions' = Append(AllButFirst(k), s)
    /\ stream' = [stream EXCEPT ![s] = "accepted"]
    /\ UNCHANGED <<queue, call>>

StartStream(s) ==
    /\ stream[s] = "accepted"
    /\ stream' = [stream EXCEPT ![s] = "open"]
    /\ UNCHANGED <<sessions, queue, total, call>>

\* The client is gone before the generator ran: its finally never runs.
Abandon(s) ==
    /\ stream[s] = "accepted"
    /\ stream' = [stream EXCEPT ![s] = "abandoned"]
    /\ UNCHANGED <<sessions, queue, total, call>>

\* Mutant: the stream of an evicted session has nothing to read any more.
ConsumeRegistered(s) ==
    /\ stream[s] = "open"
    /\ queue[s] # <<>>
    /\ s \in Registered
    /\ queue' = [queue EXCEPT ![s] = Tail(@)]
    /\ total' = IF total > 1 THEN total - 1 ELSE 0
    /\ UNCHANGED <<sessions, stream, call>>

\* An evicted session's stream reads on, and counts down for what the
\* eviction has already taken off.
Consume(s) ==
    /\ stream[s] = "open"
    /\ queue[s] # <<>>
    /\ queue' = [queue EXCEPT ![s] = Tail(@)]
    /\ total' = IF total > 1 THEN total - 1 ELSE 0
    /\ UNCHANGED <<sessions, stream, call>>

\* The client disconnects.
Close(s) ==
    /\ stream[s] = "open"
    /\ stream' = [stream EXCEPT ![s] = "closed"]
    /\ IF s \in Registered
       THEN LET left == total - Len(queue[s])
            IN  /\ \E i \in DOMAIN sessions :
                       sessions[i] = s /\ sessions' = RemoveAt(sessions, i)
                /\ total' = IF left > 0 THEN left ELSE 0
       ELSE UNCHANGED <<sessions, total>>
    /\ UNCHANGED <<queue, call>>

-----------------------------------------------------------------------------
(* A tool call in session mode.                                            *)

Answer(c, at) == call' = [call EXCEPT ![c].at = at]

\* The tool runs to its end before the session is looked up.
Dispatch(c) ==
    /\ call[c].at = "new"
    /\ \E s \in Streams :
           /\ stream[s] # "new"
           /\ call' = [call EXCEPT ![c] = [session |-> s, at |-> "done"]]
    /\ UNCHANGED <<sessions, queue, stream, total>>

\* 404: the session was evicted or closed, perhaps while the tool ran.
NotFound(c) ==
    /\ call[c].at = "done"
    /\ call[c].session \notin Registered
    /\ Answer(c, "404")
    /\ UNCHANGED <<sessions, queue, stream, total>>

\* 503: the response is dropped.
QueueFull(c) ==
    /\ call[c].at = "done"
    /\ call[c].session \in Registered
    /\ Len(queue[call[c].session]) = QueueSize
    /\ Answer(c, "503")
    /\ UNCHANGED <<sessions, queue, stream, total>>

\* The answer is "queued"; the response comes over the stream.
Push(c) ==
    /\ call[c].at = "done"
    /\ LET s == call[c].session
       IN  /\ s \in Registered
           /\ Len(queue[s]) < QueueSize
           /\ queue' = [queue EXCEPT ![s] = Append(@, c)]
    /\ total' = total + 1
    /\ Answer(c, "queued")
    /\ UNCHANGED <<sessions, stream>>

-----------------------------------------------------------------------------
SessionsNext ==
    \/ \E s \in Streams :
           Register(s) \/ StartStream(s) \/ Abandon(s) \/ Consume(s) \/ Close(s)
    \/ \E c \in Calls : Dispatch(c) \/ NotFound(c) \/ QueueFull(c) \/ Push(c)

SessionsSpec == SessionsInit /\ [][SessionsNext]_sessionsVars

\* The event loop runs a stream that has something to read.
SessionsFairSpec == SessionsSpec /\ \A s \in Streams : WF_sessionsVars(Consume(s))

-----------------------------------------------------------------------------
(* Properties.                                                             *)

SessionsTypeOK ==
    /\ Registered \subseteq Streams
    /\ queue \in [Streams -> Seq(Calls)]
    /\ \A s \in Streams : Len(queue[s]) <= QueueSize
    /\ stream \in [Streams -> {"new", "accepted", "open", "abandoned", "closed"}]
    /\ total \in Int
    /\ call \in [Calls -> [session : Streams,
                           at : {"new", "done", "404", "503", "queued"}]]

\* The count never exceeds what the registered sessions really hold, so no
\* session is evicted for a pressure that its queues do not exert.
NeverOvercounts == total <= QueuedIn(Registered)

\* At most one session more than the cap is registered, whatever mix of time
\* outs, pressure and abandoned streams came before.
SessionsBounded == Len(sessions) <= MaxSessions + 1

\* A response acknowledged as queued reaches an open stream, also after the
\* eviction of its session, unless the client goes first.
QueuedIsDelivered ==
    \A s \in Streams, c \in Calls :
        stream[s] = "open" /\ Contains(queue[s], c)
            ~> ~Contains(queue[s], c) \/ stream[s] # "open"
=============================================================================
