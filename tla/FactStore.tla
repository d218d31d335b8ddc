----------------------------- MODULE FactStore ------------------------------
(***************************************************************************)
(* The facts of one conversation, kept in two stores without a common      *)
(* transaction: the memories of Mem0 and the rows of cea_quality_metadata, *)
(* which say when a fact expires.  Extraction at compaction time and the   *)
(* knowledge_add tool add facts, the extraction worker and every addition  *)
(* expire them, knowledge_search reads both stores.                        *)
(***************************************************************************)
EXTENDS Naturals, FiniteSets

CONSTANTS
    Adders,         \* assembly runs that extract, and calls of knowledge_add
    Worker,         \* _extraction_worker
    Facts,          \* natural keys: user, conversation, utterance, content hash
    Nothing,        \* no memory id; no expiry
    MaxIds,         \* bound: memories Mem0 ever creates
    MaxTime,        \* bound: ticks of the clock
    MayCrash,       \* the process may be restarted
    MayFail,        \* Mem0, its model or a statement may fail
    MayDelete       \* the conversation may be deleted

Ids == 1..MaxIds
Times == 0..MaxTime

ASSUME FactStoreAssumption ==
    /\ Worker \notin Adders
    /\ {MaxIds, MaxTime} \subseteq Nat
    /\ Nothing \notin Ids \cup Times
    /\ {MayCrash, MayFail, MayDelete} \subseteq BOOLEAN

VARIABLES
    mem,            \* ids of the rows of mem0_memories
    made,           \* how many ids were given out
    meta,           \* rows of cea_quality_metadata by target_id
    conv,           \* "live" | "deleted"
    clock,
    pc,             \* where each process awaits
    op,             \* what its coroutine carries along
    found,          \* knowledge_search: the expired memories Mem0 answered with
    returned        \* and those the filter let through

stores == <<mem, made, meta, conv>>
reader == <<found, returned>>
vars == <<stores, clock, pc, op, reader>>

Processes == Adders \cup {Worker}

Row == [key : Facts, expires : Times \cup {Nothing}]
Op == [facts : SUBSET Facts, fact : Facts \cup {Nothing}, expires : Times \cup {Nothing},
       hasMetadata : BOOLEAN, seen : SUBSET Ids,
       first : Ids \cup {Nothing}, expired : SUBSET Ids]
NoOp == [facts |-> {}, fact |-> Nothing, expires |-> Nothing, hasMetadata |-> FALSE,
         seen |-> {}, first |-> Nothing, expired |-> {}]

Init ==
    /\ mem = {}
    /\ made = 0
    /\ meta = <<>>
    /\ conv = "live"
    /\ clock = 0
    /\ pc = [p \in Processes |-> "idle"]
    /\ op = [p \in Processes |-> NoOp]
    /\ found = {}
    /\ returned = {}

Goto(p, place) == pc' = [pc EXCEPT ![p] = place]

\* Whatever became of one fact, an extraction goes on to its next one.
Return(p) ==
    /\ Goto(p, IF op[p].facts = {} THEN "idle" ELSE "dispatch")
    /\ op' = [op EXCEPT ![p] = [NoOp EXCEPT !.facts = op[p].facts]]

InFlight(p) == {op[p].first} \cap Ids

Expired(id) == meta[id].expires # Nothing /\ meta[id].expires < clock
ExpiredRows == {id \in DOMAIN meta : Expired(id)}
Keys == {meta[id].key : id \in DOMAIN meta}
Without(id) == [x \in DOMAIN meta \ {id} |-> meta[x]]

-----------------------------------------------------------------------------
(* Environment.                                                            *)

Tick ==
    /\ clock < MaxTime
    /\ clock' = clock + 1
    /\ UNCHANGED <<stores, pc, op, reader>>

\* conversation_id references conversations without ON DELETE: the deletion
\* is refused as long as one row is left.
DeleteConversation ==
    /\ MayDelete
    /\ conv = "live"
    /\ DOMAIN meta = {}
    /\ conv' = "deleted"
    /\ UNCHANGED <<mem, made, meta, clock, pc, op, reader>>

\* A restart forgets every coroutine and the time of the last cleanup.
Crash ==
    /\ MayCrash
    /\ \E p \in Processes : pc[p] # "idle"
    /\ pc' = [p \in Processes |-> "idle"]
    /\ op' = [p \in Processes |-> NoOp]
    /\ found' = {}
    /\ returned' = {}
    /\ UNCHANGED <<stores, clock>>

-----------------------------------------------------------------------------
(* cleanup_expired, run by the worker and at the start of an addition.     *)

AfterCleanup(p) == IF p = Worker THEN "idle" ELSE "search"

\* Mutant: a cleanup looks for the rows that expire just now.
StartCleanupOfNow(p) ==
    /\ pc[p] = "cleanup"
    /\ op' = [op EXCEPT ![p].expired =
                 {id \in DOMAIN meta : meta[id].expires = clock}]
    /\ Goto(p, "expire")
    /\ UNCHANGED <<stores, clock, reader>>

\* expiration_cleanup_interval has gone by since the last cleanup, or the
\* process has just started, or it has not and nothing is cleaned up.
StartCleanup(p) ==
    /\ pc[p] = "cleanup"
    /\ op' = [op EXCEPT ![p].expired = ExpiredRows]
    /\ Goto(p, "expire")
    /\ UNCHANGED <<stores, clock, reader>>

SkipCleanup(p) ==
    /\ pc[p] = "cleanup"
    /\ Goto(p, AfterCleanup(p))
    /\ UNCHANGED <<stores, clock, op, reader>>

NextExpired(p, id) == op' = [op EXCEPT ![p].expired = @ \ {id}]

\* Mutant: the row goes whether or not Mem0 deleted the memory.
DeleteExpiredOrNot(p) ==
    /\ pc[p] = "expire"
    /\ \E id \in op[p].expired :
           \/ /\ id \in mem
              /\ \/ mem' = mem \ {id}
                 \/ MayFail /\ mem' = mem
              /\ op' = [op EXCEPT ![p].first = id]
              /\ Goto(p, "forget")
           \/ /\ id \notin mem
              /\ NextExpired(p, id)
              /\ UNCHANGED <<mem, pc>>
    /\ UNCHANGED <<made, meta, conv, clock, reader>>

\* Mutant: the row goes before the memory.
DeleteExpiredLast(p) ==
    /\ pc[p] = "expire"
    /\ \E id \in op[p].expired :
           IF id \in DOMAIN meta
           THEN meta' = Without(id) /\ UNCHANGED <<mem, op>>
           ELSE mem' = mem \ {id} /\ NextExpired(p, id) /\ UNCHANGED meta
    /\ UNCHANGED <<made, conv, clock, pc, reader>>

\* mem0.delete of one expired fact; the rows come in no order.  A memory that
\* is missing raises ValueError, and the loop goes on to the next row.
DeleteExpired(p) ==
    /\ pc[p] = "expire"
    /\ \E id \in op[p].expired :
           \/ /\ id \in mem
              /\ mem' = mem \ {id}
              /\ op' = [op EXCEPT ![p].first = id]
              /\ Goto(p, "forget")
           \/ /\ id \notin mem
              /\ NextExpired(p, id)
              /\ UNCHANGED <<mem, pc>>
    /\ UNCHANGED <<made, meta, conv, clock, reader>>

DeleteExpiredFails(p) ==
    /\ MayFail
    /\ pc[p] = "expire"
    /\ \E id \in op[p].expired : NextExpired(p, id)
    /\ UNCHANGED <<stores, clock, pc, reader>>

\* The DELETE of the row.
ForgetExpired(p) ==
    /\ pc[p] = "forget"
    /\ LET id == op[p].first
       IN  /\ meta' = Without(id)
           /\ op' = [op EXCEPT ![p].expired = @ \ {id}, ![p].first = Nothing]
    /\ Goto(p, "expire")
    /\ UNCHANGED <<mem, made, conv, clock, reader>>

CleanupDone(p) ==
    /\ pc[p] = "expire"
    /\ op[p].expired = {}
    /\ Goto(p, AfterCleanup(p))
    /\ UNCHANGED <<stores, clock, op, reader>>

\* A statement of the cleanup fails: the worker's pass ends, an addition is
\* given up with its fact.  (Over a failing SELECT the worker goes on as if
\* nothing were due.)
CleanupFails(p) ==
    /\ MayFail
    /\ pc[p] \in {"expire", "forget"}
    /\ op[p].expired # {}
    /\ Return(p)
    /\ UNCHANGED <<stores, clock, reader>>

-----------------------------------------------------------------------------
(* _extraction_worker.                                                     *)

\* Some message has memory_extracted IS NOT TRUE.  No extraction flow is
\* registered any more, so it is marked; only such a pass goes on to expire
\* facts.
FindPending ==
    /\ pc[Worker] = "idle"
    /\ Goto(Worker, "cleanup")
    /\ UNCHANGED <<stores, clock, op, reader>>

-----------------------------------------------------------------------------
(* The extraction of a chunk's facts, and knowledge_add.                   *)

BeginExtraction(p) ==
    /\ p \in Adders
    /\ pc[p] = "idle"
    /\ Goto(p, "recall")
    /\ UNCHANGED <<stores, clock, op, reader>>

\* search_existing_facts tells the model what is known; it may find nothing.
Recall(p) ==
    /\ pc[p] = "recall"
    /\ Goto(p, "extract")
    /\ UNCHANGED <<stores, clock, op, reader>>

\* The facts of the model's answer, but for those it calls duplicates.
Extract(p) ==
    /\ pc[p] = "extract"
    /\ \E facts \in SUBSET Facts \ {{}} : op' = [op EXCEPT ![p].facts = facts]
    /\ Goto(p, "dispatch")
    /\ UNCHANGED <<stores, clock, reader>>

\* The model failed, its answer was no JSON or held nothing new; the
\* compaction goes on without.
ExtractFails(p) ==
    /\ pc[p] = "extract"
    /\ Goto(p, "idle")
    /\ UNCHANGED <<stores, clock, op, reader>>

\* A natural key that has a row is refused before anything else happens.
Add(p, f, e, hasMetadata, rest) ==
    IF f \in Keys
    THEN /\ Goto(p, IF rest = {} THEN "idle" ELSE "dispatch")
         /\ op' = [op EXCEPT ![p] = [NoOp EXCEPT !.facts = rest]]
    ELSE /\ Goto(p, "cleanup")
         /\ op' = [op EXCEPT ![p] = [NoOp EXCEPT !.facts = rest, !.fact = f,
                        !.expires = e, !.hasMetadata = hasMetadata]]

DispatchFact(p) ==
    /\ pc[p] = "dispatch"
    /\ \E f \in op[p].facts, e \in {clock, Nothing} :
           Add(p, f, e, TRUE, op[p].facts \ {f})
    /\ UNCHANGED <<stores, clock, reader>>

\* The tool's facts do not expire, and get metadata if the caller gives a
\* durability or a confidence.
KnowledgeAdd(p) ==
    /\ p \in Adders
    /\ pc[p] = "idle"
    /\ \E f \in Facts \ Keys, hasMetadata \in BOOLEAN :
           Add(p, f, Nothing, hasMetadata, {})
    /\ UNCHANGED <<stores, clock, reader>>

\* _add_to_vector_store looks for similar memories and asks its model.
SearchSimilar(p) ==
    /\ pc[p] = "search"
    /\ op' = [op EXCEPT ![p].seen = mem]
    /\ Goto(p, "apply")
    /\ UNCHANGED <<stores, clock, reader>>

FirstResult(p, id) == IF op[p].first = Nothing THEN id ELSE op[p].first

\* Only the first result of an addition is given metadata.
CreateMemory(p) ==
    /\ pc[p] = "apply"
    /\ made < MaxIds
    /\ made' = made + 1
    /\ mem' = mem \cup {made'}
    /\ op' = [op EXCEPT ![p].first = FirstResult(p, made')]
    /\ UNCHANGED <<meta, conv, clock, pc, reader>>

\* UPDATE and DELETE name a memory the search found; the error over one that
\* is gone by now is swallowed, and there is no result for it.
UpdateMemory(p) ==
    /\ pc[p] = "apply"
    /\ \E id \in op[p].seen \cap mem :
           op' = [op EXCEPT ![p].seen = @ \ {id}, ![p].first = FirstResult(p, id)]
    /\ UNCHANGED <<stores, clock, pc, reader>>

DeleteMemory(p) ==
    /\ pc[p] = "apply"
    /\ \E id \in op[p].seen \cap mem :
           /\ mem' = mem \ {id}
           /\ op' = [op EXCEPT ![p].seen = @ \ {id}, ![p].first = FirstResult(p, id)]
    /\ UNCHANGED <<made, meta, conv, clock, pc, reader>>

\* Both threads of Memory.add are through; without a result there is no id.
JoinThreads(p) ==
    /\ pc[p] = "apply"
    /\ IF op[p].first # Nothing /\ op[p].hasMetadata
       THEN op' = [op EXCEPT ![p].seen = {}] /\ Goto(p, "write")
       ELSE Return(p)
    /\ UNCHANGED <<stores, clock, reader>>

\* The vector thread or the graph thread raises: what was written stays, and
\* its id is lost.
AddFails(p) ==
    /\ MayFail
    /\ pc[p] \in {"search", "apply"}
    /\ Return(p)
    /\ UNCHANGED <<stores, clock, reader>>

Insert(p) ==
    [id \in DOMAIN meta \cup {op[p].first} |->
        IF id \in DOMAIN meta THEN meta[id]
        ELSE [key |-> op[p].fact, expires |-> op[p].expires]]

\* Mutant: only a fact that expires is given a row.
WriteExpiryOnly(p) ==
    /\ pc[p] = "write"
    /\ conv = "live"
    /\ op[p].fact \notin Keys \/ op[p].first \in DOMAIN meta
    /\ meta' = IF op[p].expires = Nothing THEN meta ELSE Insert(p)
    /\ Return(p)
    /\ UNCHANGED <<mem, made, conv, clock, reader>>

\* ON CONFLICT DO NOTHING keeps the row, and the expiry, a memory has.
WriteMetadata(p) ==
    /\ pc[p] = "write"
    /\ conv = "live"
    /\ op[p].fact \notin Keys \/ op[p].first \in DOMAIN meta
    /\ meta' = Insert(p)
    /\ Return(p)
    /\ UNCHANGED <<mem, made, conv, clock, reader>>

\* The natural key was taken meanwhile, or the conversation is gone: the
\* exception ends with this fact.  (An INSERT that fails for another reason
\* leaves what AddFails leaves.)
WriteRefused(p) ==
    /\ pc[p] = "write"
    /\ \/ conv = "deleted"
       \/ op[p].fact \in Keys /\ op[p].first \notin DOMAIN meta
    /\ Return(p)
    /\ UNCHANGED <<stores, clock, reader>>

-----------------------------------------------------------------------------
(* QualityWrapper.search.                                                  *)

\* Of Mem0's answer, the facts that had expired by then.
SearchMem0 ==
    /\ found = {}
    /\ found' = mem \cap ExpiredRows
    /\ returned' = {}
    /\ UNCHANGED <<stores, clock, pc, op>>

\* A memory without a row passes the filter.
ReadMetadata ==
    /\ found # {}
    /\ returned' = found \ ExpiredRows
    /\ found' = {}
    /\ UNCHANGED <<stores, clock, pc, op>>

-----------------------------------------------------------------------------
CleanupStep(p) ==
    \/ StartCleanup(p) \/ SkipCleanup(p) \/ DeleteExpired(p) \/ DeleteExpiredFails(p)
    \/ ForgetExpired(p) \/ CleanupDone(p) \/ CleanupFails(p)

\* What the model told Mem0 to do with the memories its search found.
ApplyAction(p) == CreateMemory(p) \/ UpdateMemory(p) \/ DeleteMemory(p)

AddStep(p) ==
    \/ Recall(p) \/ Extract(p) \/ ExtractFails(p) \/ DispatchFact(p)
    \/ SearchSimilar(p) \/ ApplyAction(p) \/ JoinThreads(p) \/ AddFails(p) \/ WriteMetadata(p)
    \/ WriteRefused(p)

Next ==
    \/ Tick \/ DeleteConversation \/ Crash
    \/ FindPending \/ CleanupStep(Worker)
    \/ \E p \in Adders : BeginExtraction(p) \/ KnowledgeAdd(p) \/ CleanupStep(p) \/ AddStep(p)
    \/ SearchMem0 \/ ReadMetadata

Spec == Init /\ [][Next]_vars

\* Coroutines that can run do, the interval goes by, and Mem0 does not refuse
\* to delete for ever.
FairSpec ==
    /\ Spec
    /\ WF_vars(CleanupStep(Worker))
    /\ SF_vars(StartCleanup(Worker))
    /\ SF_vars(DeleteExpired(Worker))

-----------------------------------------------------------------------------
(* Properties.                                                             *)

TypeOK ==
    /\ mem \subseteq 1..made
    /\ made \in 0..MaxIds
    /\ DOMAIN meta \subseteq 1..made
    /\ \A id \in DOMAIN meta : meta[id] \in Row
    /\ conv \in {"live", "deleted"}
    /\ clock \in Times
    /\ pc \in [Processes -> {"idle", "cleanup", "expire", "forget",
                             "recall", "extract", "dispatch",
                             "search", "apply", "write"}]
    /\ op \in [Processes -> Op]
    /\ {found, returned} \subseteq SUBSET Ids

Accounted(id) == id \in DOMAIN meta \/ \E p \in Adders : id \in InFlight(p)

\* A memory without a metadata row is never filtered or expired.  One comes
\* about in five ways only, however additions, cleanups and searches meet: a
\* second result of one addition, an addition without metadata, a thread that
\* raises, a row that is refused, a restart.
FactsAccounted ==
    [][\A id \in mem' :
           \/ Accounted(id)'
           \/ id \in mem /\ ~Accounted(id)
           \/ \E p \in Adders :
                  \/ CreateMemory(p) /\ op[p].first # Nothing
                  \/ JoinThreads(p) /\ ~op[p].hasMetadata
                  \/ AddFails(p)
                  \/ WriteRefused(p)
           \/ Crash]_vars

\* "Only delete metadata after successful Mem0 cleanup": a row goes only
\* after its memory went, however cleanups, failures and additions meet.
RowsOutliveFacts ==
    [][\A id \in DOMAIN meta \ DOMAIN meta' : id \notin mem]_vars

\* A fact that had expired when the search began is not in its answer, unless
\* a cleanup took it away between the two reads.
ExpiredNotReturned == returned \cap mem = {}

\* An expired fact with a row leaves Mem0, as long as the worker keeps finding
\* messages (it does not clean up when there are none), the process does not
\* keep restarting and the worker's statements do not keep failing.
ExpiredFactsGo ==
    \/ <>[][~FindPending]_vars
    \/ []<><<Crash>>_vars
    \/ []<><<CleanupFails(Worker) \/ DeleteExpiredFails(Worker)>>_vars
    \/ \A id \in Ids : []<>~(id \in mem /\ id \in ExpiredRows)
=============================================================================
