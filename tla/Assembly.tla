------------------------------ MODULE Assembly ------------------------------
(***************************************************************************)
(* Assembly of one standard-tiered context window.  Messages are appended  *)
(* to a conversation; an assembler turns the oldest ones into chunk        *)
(* summaries (tier 2) and consolidates chunk summaries into an archival    *)
(* summary and a header (tier 3).  Two assemblers can work on a window:    *)
(* the background worker that polls for stale windows, and the get_context *)
(* request that created the window and assembles it inline.  Every await   *)
(* of the LangGraph flow is a step boundary.                               *)
(***************************************************************************)
EXTENDS TierScaling, Sequences, FiniteSets

CONSTANTS
    Worker,         \* the poll loop of _assembly_worker
    Creators,       \* the get_context calls that may create the window
    NoOne,          \* the advisory lock has no holder
    ChunkSize,      \* tuning.chunk_size: messages per chunk summary
    Sizes,          \* the token counts a message may have
    MaxSeq,         \* bound: messages in the conversation
    MayFail,        \* language-model calls and prompt loads may fail
    MayOverflow,    \* a summary may exceed what is left of the summary budget
    MayEscape,      \* an exception may leave the flow between two nodes
    MayDelete       \* the conversation may be deleted

ASSUME AssemblyAssumption ==
    /\ NoOne \notin Creators \cup {Worker}
    /\ Worker \notin Creators
    /\ ChunkSize \in Nat \ {0}
    /\ Sizes \subseteq Nat \ {0}
    /\ MaxSeq \in Nat
    /\ {MayFail, MayOverflow, MayEscape, MayDelete} \subseteq BOOLEAN

VARIABLES
    window,         \* "absent" | "live" | "deleted"
    msgs,           \* token count of the message with each sequence number
    summaries,      \* keys (tier, from, to) of the conversation_summaries rows
    active,         \* the rows with is_active = TRUE
    lastAssembled,  \* how many messages existed at last_assembled_at; 0 is NULL
    lock,           \* session holding the window's advisory lock
    pc,             \* the node each assembler is about to run
    run             \* what the assembler's flow state carries between nodes

vars == <<window, msgs, summaries, active, lastAssembled, lock, pc, run>>

Assemblers == Creators \cup {Worker}

\* The unique index of conversation_summaries covers these three columns and
\* not is_active, so a set of keys is the whole table.
Row == [tier : {2, 3}, from : Nat, to : Nat]
Row2(f, t) == [tier |-> 2, from |-> f, to |-> t]
Row3(f, t) == [tier |-> 3, from |-> f, to |-> t]
Header == Row3(0, 0)

ActiveTier(t) == {r \in active : r.tier = t}
HighestSummarized == Max({r.to : r \in ActiveTier(2)} \cup {0})

Chunk == [from : Nat, to : Nat, ok : BOOLEAN]
Run == [first : BOOLEAN, lo : Nat, hi : Nat, tier2 : Nat, chunks : Seq(Chunk),
        atMax : BOOLEAN, hadErrors : BOOLEAN, oldest : SUBSET Row]
NoRun == [first |-> FALSE, lo |-> 1, hi |-> 0, tier2 |-> 0, chunks |-> <<>>,
          atMax |-> FALSE, hadErrors |-> FALSE, oldest |-> {}]

Init ==
    /\ window = IF Creators = {} THEN "live" ELSE "absent"
    /\ msgs = <<>>
    /\ summaries = {}
    /\ active = {}
    /\ lastAssembled = 0
    /\ lock = NoOne
    /\ pc = [p \in Assemblers |-> "idle"]
    /\ run = [p \in Assemblers |-> NoRun]

Goto(p, node) == pc' = [pc EXCEPT ![p] = node]

-----------------------------------------------------------------------------
(* The environment of the assemblers.                                      *)

StoreMessage ==
    /\ window # "deleted"
    /\ Len(msgs) < MaxSeq
    /\ \E n \in Sizes : msgs' = Append(msgs, n)
    /\ UNCHANGED <<window, summaries, active, lastAssembled, lock, pc, run>>

\* get_context inserts the window and goes on to assemble it inline; the
\* identity index lets one creator win.
CreateWindow(p) ==
    /\ p \in Creators
    /\ window = "absent"
    /\ window' = "live"
    /\ Goto(p, "lock")
    /\ UNCHANGED <<msgs, summaries, active, lastAssembled, lock, run>>

\* delete_conversation removes the rows of the window in one transaction.
\* msgs stays, unreadable, for the runs that loaded it before.
DeleteConversation ==
    /\ MayDelete
    /\ window = "live"
    /\ window' = "deleted"
    /\ summaries' = {}
    /\ active' = {}
    /\ lastAssembled' = 0
    /\ UNCHANGED <<msgs, lock, pc, run>>

Stale == window = "live" /\ Len(msgs) > lastAssembled

\* _assembly_worker found the window in its query and starts a run.
Poll ==
    /\ pc[Worker] = "idle"
    /\ Stale
    /\ Goto(Worker, "lock")
    /\ UNCHANGED <<window, msgs, summaries, active, lastAssembled, lock, run>>

-----------------------------------------------------------------------------
(* Taking the lock and loading the run's input.                            *)

AcquireLock(p) ==
    /\ pc[p] = "lock"
    /\ IF lock = NoOne
       THEN lock' = p /\ Goto(p, "checkin")
       ELSE lock' = lock /\ Goto(p, "idle")
    /\ UNCHANGED <<window, msgs, summaries, active, lastAssembled, run>>

\* Mutant: the pool keeps the session's locks when a connection comes back.
CheckInKeepsLock(p) ==
    /\ pc[p] = "checkin"
    /\ lock' = lock
    /\ Goto(p, "config")
    /\ UNCHANGED <<window, msgs, summaries, active, lastAssembled, run>>

\* pool.fetchval returns the connection to the pool before it returns, and
\* the pool resets it, which releases every session-level advisory lock.
CheckInConnection(p) ==
    /\ pc[p] = "checkin"
    /\ lock' = NoOne
    /\ Goto(p, "config")
    /\ UNCHANGED <<window, msgs, summaries, active, lastAssembled, run>>

LoadWindowConfig(p) ==
    /\ pc[p] = "config"
    /\ Goto(p, IF window = "live" THEN "count_summaries" ELSE "release")
    /\ UNCHANGED <<window, msgs, summaries, active, lastAssembled, lock, run>>

CountSummaries(p) ==
    /\ pc[p] = "count_summaries"
    /\ run' = [run EXCEPT ![p].first = (summaries = {})]
    /\ Goto(p, "load")
    /\ UNCHANGED <<window, msgs, summaries, active, lastAssembled, lock>>

LoadMessages(p) ==
    /\ pc[p] = "load"
    /\ LET stored == IF window = "deleted" THEN 0 ELSE Len(msgs)
           limit == LoadLimit(~run[p].first)
       IN  /\ run' = [run EXCEPT ![p].lo = Max({1, stored - limit + 1}),
                                 ![p].hi = stored]
           /\ Goto(p, IF stored = 0 THEN "finalize" ELSE "count_tier2")
    /\ UNCHANGED <<window, msgs, summaries, active, lastAssembled, lock>>

CountTier2(p) ==
    /\ pc[p] = "count_tier2"
    /\ run' = [run EXCEPT ![p].tier2 = Cardinality(ActiveTier(2))]
    /\ Goto(p, "plan")
    /\ UNCHANGED <<window, msgs, summaries, active, lastAssembled, lock>>

-----------------------------------------------------------------------------
(* Planning: which loaded messages stay verbatim, which are summarised.    *)

Tokens(from, to) == SumFunctionOnSet(msgs, from..to)

\* The walk from the newest message back: the first message of the longest
\* loaded suffix that fits under the ceiling.
Tier1Start(r) ==
    Min({s \in r.lo..(r.hi + 1) : Tokens(s, r.hi) <= Tier1Ceiling(r.tier2)})

\* Mutant: the chunks come newest first.
ChunksNewestFirst(first, last) ==
    LET n == (last - first + ChunkSize) \div ChunkSize
    IN  [i \in 1..n |->
            [from |-> first + (n - i) * ChunkSize,
             to |-> Min({first + (n - i + 1) * ChunkSize - 1, last}),
             ok |-> TRUE]]

\* The unsummarised messages first..last in groups of ChunkSize.
ChunksOf(first, last) ==
    [i \in 1..((last - first + ChunkSize) \div ChunkSize) |->
        [from |-> first + (i - 1) * ChunkSize,
         to |-> Min({first + i * ChunkSize - 1, last}),
         ok |-> TRUE]]

\* Mutant: every message before tier 1 is chunked again in each run.
PlanFromScratch(p) ==
    /\ pc[p] = "plan"
    /\ LET r == run[p]
           last == Tier1Start(r) - 1
           chunks == IF r.lo <= last THEN ChunksOf(r.lo, last) ELSE <<>>
       IN  /\ run' = [run EXCEPT ![p].chunks = chunks,
                      ![p].atMax = last >= r.lo /\ r.tier2 >= MaxChunks]
           /\ Goto(p, IF chunks = <<>> THEN "snapshot" ELSE "summarize")
    /\ UNCHANGED <<window, msgs, summaries, active, lastAssembled, lock>>

PlanChunks(p) ==
    /\ pc[p] = "plan"
    /\ LET r == run[p]
           last == Tier1Start(r) - 1
           first == Max({r.lo, HighestSummarized + 1})
           chunks == IF first <= last THEN ChunksOf(first, last) ELSE <<>>
       IN  /\ run' = [run EXCEPT ![p].chunks = chunks,
                      ![p].atMax = last >= r.lo /\ r.tier2 >= MaxChunks]
           /\ Goto(p, IF chunks = <<>> THEN "snapshot" ELSE "summarize")
    /\ UNCHANGED <<window, msgs, summaries, active, lastAssembled, lock>>

-----------------------------------------------------------------------------
(* compact_tier1.                                                          *)

\* All chunks are summarised concurrently before any is inserted.
SummarizeChunks(p) ==
    /\ pc[p] = "summarize"
    /\ \E failed \in IF MayFail THEN SUBSET DOMAIN run[p].chunks ELSE {{}} :
           run' = [run EXCEPT
               ![p].chunks = [i \in DOMAIN @ |-> [@[i] EXCEPT !.ok = i \notin failed]],
               ![p].hadErrors = failed # {}]
    /\ Goto(p, "insert")
    /\ UNCHANGED <<window, msgs, summaries, active, lastAssembled, lock>>

ChunkPromptMissing(p) ==
    /\ MayFail
    /\ pc[p] = "summarize"
    /\ Goto(p, "release")
    /\ UNCHANGED <<window, msgs, summaries, active, lastAssembled, lock, run>>

\* Done with the chunks: tier2_at_max was computed before they were inserted.
GotoAfterChunks(p, rest) ==
    /\ run' = [run EXCEPT ![p].chunks = rest]
    /\ Goto(p, IF rest # <<>> THEN "insert"
               ELSE IF run[p].atMax THEN "snapshot" ELSE "finalize")

\* A failed chunk and a chunk whose key is taken are passed over; the key
\* check and the insert that loses the race to another assembler agree.
InsertChunk(p) ==
    /\ pc[p] = "insert"
    /\ LET c == Head(run[p].chunks)
           row == Row2(c.from, c.to)
       IN  /\ c.ok /\ row \notin summaries => window = "live"
           /\ IF c.ok /\ row \notin summaries
              THEN summaries' = summaries \cup {row} /\ active' = active \cup {row}
              ELSE UNCHANGED <<summaries, active>>
    /\ GotoAfterChunks(p, Tail(run[p].chunks))
    /\ UNCHANGED <<window, msgs, lastAssembled, lock>>

\* The budget guard: this summary and all later ones are not inserted.
StopAtBudget(p) ==
    /\ MayOverflow
    /\ pc[p] = "insert"
    /\ Head(run[p].chunks).ok
    /\ GotoAfterChunks(p, <<>>)
    /\ UNCHANGED <<window, msgs, summaries, active, lastAssembled, lock>>

-----------------------------------------------------------------------------
(* run_full_compaction.                                                    *)

\* Mutant: the order of the rows is reversed.
NewestOf(rows, kept) ==
    {old \in SUBSET rows : /\ Cardinality(old) = Cardinality(rows) - kept
                           /\ \A r \in old, s \in rows \ old : r.from >= s.from}

\* All but the newest kept rows in the order of their first message.
OldestOf(rows, kept) ==
    {old \in SUBSET rows : /\ Cardinality(old) = Cardinality(rows) - kept
                           /\ \A r \in old, s \in rows \ old : r.from <= s.from}

SnapshotTier2(p) ==
    /\ pc[p] = "snapshot"
    /\ IF Cardinality(ActiveTier(2)) <= MinChunks
       THEN Goto(p, "finalize") /\ run' = run
       ELSE /\ \E old \in OldestOf(ActiveTier(2), MinChunks - 1) :
                  run' = [run EXCEPT ![p].oldest = old]
            /\ Goto(p, "consolidate")
    /\ UNCHANGED <<window, msgs, summaries, active, lastAssembled, lock>>

Consolidate(p) ==
    /\ pc[p] = "consolidate"
    /\ Goto(p, "archive")
    /\ UNCHANGED <<window, msgs, summaries, active, lastAssembled, lock, run>>

\* A failed call is recorded; a missing prompt or an empty answer is not.
ConsolidateFails(p) ==
    /\ MayFail
    /\ pc[p] = "consolidate"
    /\ \E failed \in BOOLEAN :
           run' = [run EXCEPT ![p].hadErrors = @ \/ failed]
    /\ Goto(p, "finalize")
    /\ UNCHANGED <<window, msgs, summaries, active, lastAssembled, lock>>

\* The row of the archival summary spans the first consolidated row's first
\* message to the last one's last.
ArchivalRows(old) ==
    {Row3(r.from, s.to) : r \in {x \in old : \A y \in old : x.from <= y.from},
                          s \in {x \in old : \A y \in old : x.from >= y.from}}

\* Both new keys must be free, or the transaction rolls back (see Escape).
Archive(p) ==
    /\ pc[p] = "archive"
    /\ window = "live"
    /\ Header \notin summaries
    /\ \E row \in ArchivalRows(run[p].oldest) :
           /\ row \notin summaries
           /\ summaries' = summaries \cup {Header, row}
           /\ active' = (active \ (ActiveTier(3) \cup run[p].oldest)) \cup {Header, row}
    /\ Goto(p, "finalize")
    /\ UNCHANGED <<window, msgs, lastAssembled, lock, run>>

-----------------------------------------------------------------------------
(* Ends of a run.                                                          *)

Finalize(p) ==
    /\ pc[p] = "finalize"
    /\ lastAssembled' = IF run[p].hadErrors \/ window # "live"
                        THEN lastAssembled ELSE Len(msgs)
    /\ Goto(p, "release")
    /\ UNCHANGED <<window, msgs, summaries, active, lock, run>>

\* pg_advisory_unlock on whichever pooled connection: no session holds a
\* lock any more, so it returns false.
Release(p) ==
    /\ pc[p] = "release"
    /\ Goto(p, "idle")
    /\ run' = [run EXCEPT ![p] = NoRun]
    /\ UNCHANGED <<window, msgs, summaries, active, lastAssembled, lock>>

\* The database refuses the insert of a chunk of a deleted window, or the
\* archival transaction: nothing in the flow catches either error.
Refused(p) ==
    \/ /\ pc[p] = "insert"
       /\ window = "deleted"
       /\ Head(run[p].chunks).ok
    \/ /\ pc[p] = "archive"
       /\ \/ window = "deleted"
          \/ Header \in summaries
          \/ \E row \in ArchivalRows(run[p].oldest) : row \in summaries

\* The flow is left without finalize and release.  With MayEscape, a lost
\* connection or any other uncaught exception does so between two nodes.
Escape(p) ==
    /\ pc[p] # "idle"
    /\ MayEscape \/ Refused(p)
    /\ Goto(p, "idle")
    /\ run' = [run EXCEPT ![p] = NoRun]
    /\ lock' = IF lock = p THEN NoOne ELSE lock
    /\ UNCHANGED <<window, msgs, summaries, active, lastAssembled>>

-----------------------------------------------------------------------------
Step(p) ==
    \/ AcquireLock(p) \/ CheckInConnection(p) \/ LoadWindowConfig(p)
    \/ CountSummaries(p) \/ LoadMessages(p) \/ CountTier2(p) \/ PlanChunks(p)
    \/ SummarizeChunks(p) \/ InsertChunk(p)
    \/ SnapshotTier2(p) \/ Consolidate(p) \/ Archive(p)
    \/ Finalize(p) \/ Release(p) \/ Escape(p)

Next ==
    \/ StoreMessage \/ Poll
    \/ \E p \in Assemblers : CreateWindow(p) \/ Step(p)

\* What fails inside the flow and is handled there, and what happens to the
\* window from outside.
Fault(p) == ChunkPromptMissing(p) \/ StopAtBudget(p) \/ ConsolidateFails(p)

FaultyNext == Next \/ DeleteConversation \/ \E p \in Assemblers : Fault(p)

Spec == Init /\ [][FaultyNext]_vars

\* Without those, the event loop runs the worker's coroutine whenever it can
\* go on, and a request that was accepted.  Nothing obliges clients to store.
FairSpec ==
    /\ Init /\ [][Next]_vars
    /\ WF_vars(Poll)
    /\ \A p \in Assemblers : WF_vars(Step(p))

-----------------------------------------------------------------------------
(* Properties.                                                             *)

Nodes == {"idle", "lock", "checkin", "config", "count_summaries", "load",
          "count_tier2", "plan", "summarize", "insert", "snapshot",
          "consolidate", "archive", "finalize", "release"}

\* Types, and what each node may assume of the flow state it is handed.
TypeOK ==
    /\ window \in {"absent", "live", "deleted"}
    /\ msgs \in Seq(Sizes)
    /\ summaries \subseteq Row
    /\ active \subseteq summaries
    /\ lastAssembled \in 0..Len(msgs)
    /\ lock \in Assemblers \cup {NoOne}
    /\ pc \in [Assemblers -> Nodes]
    /\ run \in [Assemblers -> Run]

InTransit(p) == pc[p] \notin {"idle", "lock"}

\* "Concurrent assembly is prevented by PostgreSQL advisory locks": two
\* assemblers never run the flow of one window together.
MutualExclusion ==
    \A p, q \in Assemblers : InTransit(p) /\ InTransit(q) => p = q

Summarized(s) == \E r \in summaries : r.tier = 2 /\ s \in r.from..r.to

\* The first message assembly has to account for: all of them, unless the
\* conversation outgrew what a run loads before the first chunk was made.
FirstDue == IF Len(msgs) <= LoadLimit(TRUE) THEN 1
            ELSE Min({r.from : r \in {q \in summaries : q.tier = 2}})

\* No message up to the last summarised one was passed over: the next run
\* starts right after what the summaries cover, also when another assembler
\* was half way through or died there.
NothingSkipped ==
    \A r \in summaries : r.tier = 2 => \A s \in FirstDue..r.to : Summarized(s)

\* No message is summarised by two active chunk rows, and the archival row
\* lies entirely before them: the context never tells the same part of the
\* conversation twice.
NoDoubleCoverage ==
    /\ \A r, q \in active \ {Header} :
           r # q => r.to < q.from \/ q.to < r.from
    /\ \A r \in ActiveTier(3) \ {Header}, q \in ActiveTier(2) : r.to < q.from

\* A message once covered by the active chunk summaries is not handed to a
\* later run as unsummarised ("The assembly never re-reads raw messages that
\* have already been compacted"): the boundary never moves back.
CoverageOnlyGrows ==
    [][window' = "live" => HighestSummarized' >= HighestSummarized]_vars

\* A window that has never been fully compacted catches up with its messages
\* or reaches its first full compaction, however the two assemblers meet and
\* wherever some of their runs die, as long as they do not die for ever.
CatchesUp ==
    \/ []<><<\E p \in Assemblers : Escape(p)>>_vars
    \/ Stale /\ Header \notin summaries ~> ~Stale \/ Header \in summaries
=============================================================================
