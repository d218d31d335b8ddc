----------------------------- MODULE Retrieval ------------------------------
(***************************************************************************)
(* The retrieval flows of the three build types, each reading a window     *)
(* that assemblers are changing.  The tiered ones wait for the advisory    *)
(* lock, read the active summaries, then how far the chunk summaries       *)
(* reach, then the newest messages after that: three statements on the     *)
(* pool, no snapshot.  A passthrough window has no summaries, and its      *)
(* assembly only marks the time.                                           *)
(***************************************************************************)
EXTENDS Assembly

CONSTANTS
    Reader,         \* a get_context request on an existing window
    SummaryTokens,  \* tokens of one summary text
    DomainTokens,   \* tokens of a domain_context the caller hands in
    MaxMessages,    \* tuning.max_messages_to_load
    BuildTypes      \* the build types a window may have

ASSUME RetrievalAssumption ==
    /\ Reader \notin Assemblers \cup {NoOne}
    /\ {SummaryTokens, DomainTokens, MaxMessages} \subseteq Nat
    /\ BuildTypes \subseteq {"standard-tiered", "knowledge-enriched", "passthrough"}

VARIABLES
    build,          \* the window's build type
    rpc,            \* the node the reader is about to run
    ctx             \* what it has read: summary rows, boundary, messages
                    \* from..to, tokens of domain knowledge, or a distilled text

rvars == <<build, rpc, ctx>>
allVars == <<vars, rvars>>

Standard == build = "standard-tiered"
Enriched == build = "knowledge-enriched"
Passthrough == build = "passthrough"

NoContext == [rows |-> {}, highest |-> 0, from |-> 1, to |-> 0,
              domain |-> 0, distilled |-> FALSE]

RInit == Init /\ build \in BuildTypes /\ rpc = "idle" /\ ctx = NoContext

\* The reader goes on to a node, having changed nothing but what it has read.
ReaderGoes(node) == rpc' = node /\ UNCHANGED <<vars, build>>

-----------------------------------------------------------------------------
(* What the standard-tiered and the knowledge-enriched graph have alike.   *)

\* A window that is gone ends the flow with an error.
LoadWindow(next) ==
    /\ rpc \in {"idle", "done"}
    /\ window = "live"
    /\ ctx' = NoContext
    /\ ReaderGoes(next)

\* The wait takes the lock to see that nobody holds it ...
TryLock ==
    /\ rpc = "wait"
    /\ lock = NoOne
    /\ lock' = Reader
    /\ rpc' = "checkin"
    /\ UNCHANGED <<window, msgs, summaries, active, lastAssembled, pc, run, build, ctx>>

\* ... until the deadline, or until the pool fails.
WaitEnds ==
    /\ rpc = "wait"
    /\ lock # NoOne \/ MayEscape
    /\ ReaderGoes("summaries")
    /\ UNCHANGED ctx

LoadSummaries ==
    /\ rpc = "summaries"
    /\ ctx' = [ctx EXCEPT !.rows = active]
    /\ ReaderGoes("highest")

LoadHighest ==
    /\ rpc = "highest"
    /\ ctx' = [ctx EXCEPT !.highest = HighestSummarized]
    /\ ReaderGoes("messages")

\* The longest run of the newest messages after a boundary that a limit on
\* their number and a budget of tokens allow.
LoadNewest(after, limit, budget) ==
    LET n == IF window = "live" THEN Len(msgs) ELSE 0
        first == Max({after + 1, n - limit + 1})
    IN  ctx' = [ctx EXCEPT
            !.to = n,
            !.from = Min({s \in first..(Max({n + 1, first})) : Tokens(s, n) <= budget})]

-----------------------------------------------------------------------------
(* standard-tiered.                                                        *)

RetLoadWindow == Standard /\ LoadWindow("wait")

RetTryLock == Standard /\ TryLock

\* The connection goes back to the pool, which drops the lock.
RetCheckIn ==
    /\ rpc = "checkin"
    /\ lock' = NoOne
    /\ rpc' = "summaries"
    /\ UNCHANGED <<window, msgs, summaries, active, lastAssembled, pc, run, build, ctx>>

RetWaitEnds == Standard /\ WaitEnds

RetLoadSummaries == Standard /\ LoadSummaries

RetHighest == Standard /\ LoadHighest

Chunks(rows) == {r \in rows : r.tier = 2}

\* The flow keeps one tier 3 text, whichever row came last.
TokensOfSummaries(rows) ==
    SummaryTokens * (Cardinality(Chunks(rows)) + IF rows = Chunks(rows) THEN 0 ELSE 1)

RemainingBudget(rows) ==
    Max({0, Min({Tier1Ceiling(Cardinality(Chunks(rows))),
                 MaxBudget - TokensOfSummaries(rows)})})

RetLimit(rows) ==
    Max({MinLoad, Tier1Ceiling(Cardinality(Chunks(rows))) \div TokensPerMessage})

\* Mutant: the messages are loaded without the boundary.
RetLoadNewest ==
    /\ Standard /\ rpc = "messages"
    /\ LoadNewest(0, RetLimit(ctx.rows), RemainingBudget(ctx.rows))
    /\ ReaderGoes("done")

RetLoadMessages ==
    /\ Standard /\ rpc = "messages"
    /\ LoadNewest(ctx.highest, RetLimit(ctx.rows), RemainingBudget(ctx.rows))
    /\ ReaderGoes("done")

-----------------------------------------------------------------------------
(* knowledge-enriched.                                                     *)

KeLoadWindow == Enriched /\ LoadWindow("wait")

KeWaitForAssembly == Enriched /\ (TryLock \/ WaitEnds)

KeLoadSummaries == Enriched /\ LoadSummaries

KeHighest == Enriched /\ LoadHighest

\* The floor, where standard-tiered has the ceiling.
KeBudget(rows) == Max({0, Min({Tier1Floor, MaxBudget - TokensOfSummaries(rows)})})

KeLoadMessages ==
    /\ Enriched /\ rpc = "messages"
    /\ LoadNewest(ctx.highest, MaxMessages, KeBudget(ctx.rows))
    /\ ReaderGoes("assemble")

Remaining(taken) == Max({0, MaxBudget - taken})

\* Mutant: the messages are cut as if there were no domain knowledge.
KeAssembleUncharged ==
    /\ Enriched /\ rpc = "assemble"
    /\ \E text \in {0, DomainTokens} :
           ctx' = [ctx EXCEPT !.domain = Min({text, Remaining(TokensOfSummaries(ctx.rows))})]
    /\ \E node \in {"distill", "done"} : ReaderGoes(node)

\* The domain knowledge is cut to what the summaries leave of the budget,
\* and the messages to what it leaves of that.
KeAssemble ==
    /\ Enriched /\ rpc = "assemble"
    /\ \E text \in {0, DomainTokens} :
           LET used == TokensOfSummaries(ctx.rows)
               domain == Min({text, Remaining(used)})
           IN  ctx' = [ctx EXCEPT
                   !.domain = domain,
                   !.from = Min({s \in ctx.from..(Max({ctx.to + 1, ctx.from})) :
                                     Tokens(s, ctx.to) <= Remaining(used + domain)})]
    /\ \E node \in {"distill", "done"} : ReaderGoes(node)

\* The caller's own model turns the context into one text, or gives nothing
\* and the context stays; an error that is not caught ends the flow.
KeDistill ==
    /\ Enriched /\ rpc = "distill"
    /\ \/ ctx' = [NoContext EXCEPT !.distilled = TRUE] /\ ReaderGoes("done")
       \/ ctx' = ctx /\ ReaderGoes("done")
       \/ MayEscape /\ ctx' = NoContext /\ ReaderGoes("idle")

-----------------------------------------------------------------------------
(* passthrough: an assembler takes the lock and marks the time.            *)

PtAcquireLock(p) == Passthrough /\ AcquireLock(p) /\ UNCHANGED rvars

PtCheckIn(p) ==
    /\ Passthrough /\ pc[p] = "checkin"
    /\ lock' = NoOne
    /\ Goto(p, "finalize")
    /\ UNCHANGED <<window, msgs, summaries, active, lastAssembled, run, rvars>>

PtFinalize(p) == Passthrough /\ Finalize(p) /\ UNCHANGED rvars

\* An error is recorded in the state and the lock is released all the same.
PtFinalizeFails(p) ==
    /\ Passthrough /\ MayFail
    /\ pc[p] = "finalize"
    /\ Goto(p, "release")
    /\ UNCHANGED <<window, msgs, summaries, active, lastAssembled, lock, run, rvars>>

PtRelease(p) == Passthrough /\ Release(p) /\ UNCHANGED rvars

PtLoadWindow == Passthrough /\ LoadWindow("messages")

PtLoadRecent ==
    /\ Passthrough /\ rpc = "messages"
    /\ LoadNewest(0, MaxMessages, MaxBudget)
    /\ ReaderGoes("done")

-----------------------------------------------------------------------------
RetNext ==
    \/ RetLoadWindow \/ RetTryLock \/ RetCheckIn \/ RetWaitEnds
    \/ RetLoadSummaries \/ RetHighest \/ RetLoadMessages

KeNext ==
    \/ KeLoadWindow \/ KeWaitForAssembly \/ KeLoadSummaries
    \/ KeHighest \/ KeLoadMessages \/ KeAssemble \/ KeDistill

PtStep(p) ==
    \/ PtAcquireLock(p) \/ PtCheckIn(p) \/ PtFinalize(p)
    \/ PtFinalizeFails(p) \/ PtRelease(p)

PtNext == PtLoadWindow \/ PtLoadRecent

\* Both tiered build types are assembled by the same graph.
TieredAssembly == ~Passthrough /\ FaultyNext /\ UNCHANGED rvars

\* What happens around a passthrough window, whose assembly may die as well.
PtEnvironment ==
    /\ Passthrough
    /\ \/ StoreMessage \/ DeleteConversation \/ Poll
       \/ \E p \in Assemblers : Escape(p)
    /\ UNCHANGED rvars

RNext ==
    \/ TieredAssembly \/ RetNext \/ KeNext
    \/ PtEnvironment \/ PtNext
    \/ \E p \in Assemblers : PtStep(p)

RSpec == RInit /\ [][RNext]_allVars

-----------------------------------------------------------------------------
(* Properties.                                                             *)

RTypeOK ==
    /\ build \in BuildTypes
    /\ rpc \in {"idle", "wait", "checkin", "summaries", "highest", "messages",
               "assemble", "distill", "done"}
    /\ ctx.rows \subseteq Row
    /\ {ctx.highest, ctx.from, ctx.to, ctx.domain} \subseteq Nat
    /\ ctx.distilled \in BOOLEAN
    /\ lock \in Assemblers \cup {NoOne, Reader}

\* However the assemblers interleave with the three reads, a message is never
\* delivered both inside a summary the context contains and verbatim.
NeverTwiceInContext ==
    rpc = "done" =>
        \A r \in ctx.rows : r.to < ctx.from \/ ctx.to < ctx.from

\* A context with messages stays inside the window's budget, whatever of the
\* summaries and of the caller's domain knowledge is in it: what was read
\* against an older state of the window is paid for all the same.
ContextFits ==
    rpc = "done" =>
        \/ ctx.to < ctx.from
        \/ TokensOfSummaries(ctx.rows) + ctx.domain + Tokens(ctx.from, ctx.to) <= MaxBudget
=============================================================================
