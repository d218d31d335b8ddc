-------------------------- MODULE FactStore_proofs --------------------------
(***************************************************************************)
(* Proofs about FactStore, for any number of additions, facts, memories    *)
(* and ticks.  The two stores agree because of what a coroutine knows of   *)
(* the memory it carries: a cleanup that is about to drop a row has seen   *)
(* its memory go, and ids are not given out twice.                         *)
(***************************************************************************)
EXTENDS FactStore, TLAPS

Places == {"idle", "cleanup", "expire", "forget", "recall", "extract",
           "dispatch", "search", "apply", "write"}

\* What coroutine p, awaiting at place with locals o, knows where n ids were
\* given out and m are the memories.
Knows(p, o, place, n, m) ==
    /\ o.first \in 1..n \cup {Nothing}
    /\ o.seen \subseteq 1..n /\ o.expired \subseteq 1..n
    /\ place = "forget" => o.first # Nothing /\ o.first \notin m
    /\ place = "write" => o.first # Nothing
    /\ o.first # Nothing => place \in {"apply", "write", "forget"}
    /\ place \in {"search", "apply", "write"} => o.fact \in Facts
    /\ p # Worker /\ place \in {"cleanup", "expire", "forget"} => o.fact \in Facts
    /\ p = Worker => o.facts = {} /\ place \in {"idle", "cleanup", "expire", "forget"}

IInv ==
    /\ TypeOK
    /\ \A p \in Processes : Knows(p, op[p], pc[p], made, mem)

\* Both stores, and the two readers, are of their types.
StoresTyped ==
    /\ mem \subseteq 1..made
    /\ made \in 0..MaxIds
    /\ DOMAIN meta \subseteq 1..made
    /\ \A id \in DOMAIN meta : meta[id] \in Row
    /\ conv \in {"live", "deleted"}
    /\ clock \in Times
    /\ {found, returned} \subseteq SUBSET Ids

-----------------------------------------------------------------------------
LEMMA TypeParts ==
    TypeOK <=> /\ StoresTyped
               /\ pc \in [Processes -> Places]
               /\ op \in [Processes -> Op]
BY DEF TypeOK, StoresTyped, Places

LEMMA InitIInv == Init => IInv
<1>. SUFFICES ASSUME Init PROVE IInv
  OBVIOUS
<1>1. StoresTyped
  BY FactStoreAssumption DEF Init, StoresTyped, Times, Ids
<1>2. NoOp \in Op
  BY DEF NoOp, Op
<1>3. pc \in [Processes -> Places] /\ op \in [Processes -> Op]
  BY <1>2 DEF Init, Places
<1>4. \A p \in Processes : Knows(p, NoOp, "idle", 0, {})
  BY DEF Knows, NoOp
<1>. QED  BY <1>1, <1>3, <1>4, TypeParts DEF Init, IInv

(* A step of one coroutine that keeps the types and its own knowledge      *)
(* keeps that of the others: memories only go, or come with a new id.      *)
LEMMA StepOfOne ==
    ASSUME IInv, NEW p \in Processes,
           pc' \in [Processes -> Places], op' \in [Processes -> Op], StoresTyped',
           \A q \in Processes \ {p} : pc'[q] = pc[q] /\ op'[q] = op[q],
           made' >= made, \A id \in mem' : id \in mem \/ id > made,
           Knows(p, op'[p], pc'[p], made', mem')
    PROVE  IInv'
<1>1. TypeOK'
  BY DEF TypeOK, StoresTyped, Places
<1>2. ASSUME NEW q \in Processes PROVE Knows(q, op'[q], pc'[q], made', mem')
  <2>1. CASE q = p
    BY <2>1
  <2>2. CASE q # p
    <3>1. Knows(q, op[q], pc[q], made, mem) /\ pc'[q] = pc[q] /\ op'[q] = op[q]
      BY <2>2 DEF IInv
    <3>2. made \in Nat /\ made' \in Nat /\ made <= made'
      BY FactStoreAssumption DEF IInv, TypeOK, StoresTyped
    <3>3. 1..made \subseteq 1..made'
      BY <3>2
    <3>4. op[q].first \in 1..made => (op[q].first \notin mem => op[q].first \notin mem')
      BY <3>2
    <3>. QED  BY <3>1, <3>3, <3>4 DEF Knows
  <2>. QED  BY <2>1, <2>2
<1>. QED  BY <1>1, <1>2 DEF IInv

-----------------------------------------------------------------------------
(* Steps that belong to no coroutine.                                      *)
LEMMA EnvironmentKeeps ==
    ASSUME IInv, Tick \/ DeleteConversation \/ Crash \/ SearchMem0 \/ ReadMetadata
    PROVE  IInv'
<1>. USE FactStoreAssumption
<1>1. CASE Tick
  BY <1>1 DEF Tick, stores, reader, IInv, TypeOK, Times, Knows
<1>2. CASE DeleteConversation
  BY <1>2 DEF DeleteConversation, reader, IInv, TypeOK, Knows
<1>3. CASE Crash
  <2>1. StoresTyped' /\ UNCHANGED <<mem, made>>
    BY <1>3 DEF Crash, stores, IInv, TypeOK, StoresTyped
  <2>2. pc' \in [Processes -> Places] /\ op' \in [Processes -> Op]
    BY <1>3 DEF Crash, NoOp, Op, Places
  <2>3. \A p \in Processes : Knows(p, op'[p], pc'[p], made', mem')
    BY <1>3 DEF Crash, NoOp, Knows
  <2>4. TypeOK'
    BY <2>1, <2>2 DEF TypeOK, StoresTyped, Places
  <2>. QED  BY <2>3, <2>4 DEF IInv
<1>4. CASE SearchMem0
  <2>1. mem \subseteq Ids
    BY DEF IInv, TypeOK, Ids
  <2>2. found' \subseteq mem /\ returned' = {}
    BY <1>4 DEF SearchMem0
  <2>3. found' \subseteq Ids /\ returned' \subseteq Ids
    BY <2>1, <2>2
  <2>. QED  BY <1>4, <2>3 DEF SearchMem0, stores, IInv, TypeOK, Knows
<1>5. CASE ReadMetadata
  <2>1. found \subseteq Ids
    BY DEF IInv, TypeOK
  <2>. HIDE FactStoreAssumption
  <2>2. found' \subseteq Ids /\ returned' \subseteq Ids
    BY <1>5, <2>1 DEF ReadMetadata
  <2>. QED  BY <1>5, <2>2 DEF ReadMetadata, stores, IInv, TypeOK, Knows
<1>. QED  BY <1>1, <1>2, <1>3, <1>4, <1>5

-----------------------------------------------------------------------------
(* Steps of one coroutine that leave the stores alone.                     *)
LEMMA StoresKept ==
    ASSUME IInv, UNCHANGED <<stores, clock, reader>>
    PROVE  StoresTyped' /\ made' >= made /\ mem' = mem
BY FactStoreAssumption DEF IInv, TypeOK, StoresTyped, stores, reader

(* The coroutine that goes on, and what it goes on with.                   *)
LEMMA OneMoves ==
    ASSUME IInv, NEW p \in Processes, NEW o \in Op, NEW place \in Places,
           op' = [op EXCEPT ![p] = o], pc' = [pc EXCEPT ![p] = place]
    PROVE  /\ pc' \in [Processes -> Places] /\ op' \in [Processes -> Op]
           /\ \A q \in Processes \ {p} : pc'[q] = pc[q] /\ op'[q] = op[q]
           /\ pc'[p] = place /\ op'[p] = o
BY TypeParts DEF IInv

LEMMA QuietStep ==
    ASSUME IInv, NEW p \in Processes, NEW o \in Op, NEW place \in Places,
           op' = [op EXCEPT ![p] = o], pc' = [pc EXCEPT ![p] = place],
           UNCHANGED <<stores, clock, reader>>, Knows(p, o, place, made, mem)
    PROVE  IInv'
<1>1. made' = made
  BY DEF stores
<1>. QED  BY <1>1, OneMoves, StoresKept, StepOfOne

(* Going on to the next fact, or coming to an end.                         *)
LEMMA ReturnKeeps ==
    ASSUME IInv, NEW p \in Processes, Return(p)
    PROVE  LET o == [NoOp EXCEPT !.facts = op[p].facts]
               place == IF op[p].facts = {} THEN "idle" ELSE "dispatch"
           IN  /\ op' = [op EXCEPT ![p] = o] /\ pc' = [pc EXCEPT ![p] = place]
               /\ o \in Op /\ place \in Places /\ o.first = Nothing
               /\ \A n, m : Knows(p, o, place, n, m)
<1>1. op[p] \in Op /\ Knows(p, op[p], pc[p], made, mem)
  BY DEF IInv, TypeOK
<1>2. [NoOp EXCEPT !.facts = op[p].facts] \in Op
  BY <1>1 DEF NoOp, Op
<1>3. p = Worker => op[p].facts = {}
  BY <1>1 DEF Knows
<1>. QED  BY <1>2, <1>3 DEF Return, Goto, Places, Knows, NoOp

-----------------------------------------------------------------------------
(* cleanup_expired.                                                        *)
LEMMA CleanupKeeps ==
    ASSUME IInv, NEW p \in Processes, CleanupStep(p)
    PROVE  IInv'
<1>1. /\ op[p] \in Op /\ Knows(p, op[p], pc[p], made, mem)
      /\ op[p] = [facts |-> op[p].facts, fact |-> op[p].fact, expires |-> op[p].expires,
                  hasMetadata |-> op[p].hasMetadata, seen |-> op[p].seen,
                  first |-> op[p].first, expired |-> op[p].expired]
  BY DEF IInv, TypeOK, Op
<1>2. /\ DOMAIN meta \subseteq 1..made /\ made \in Nat /\ 1..made \subseteq Ids
      /\ op \in [Processes -> Op] /\ pc \in [Processes -> Places]
  BY FactStoreAssumption, TypeParts DEF IInv, StoresTyped, Ids
<1>3. CASE StartCleanup(p)
  <2>. DEFINE o == [op[p] EXCEPT !.expired = ExpiredRows]
  <2>1. ExpiredRows \subseteq 1..made
    BY <1>2 DEF ExpiredRows
  <2>2. o \in Op /\ Knows(p, o, "expire", made, mem)
    BY <1>1, <1>2, <1>3, <2>1 DEF StartCleanup, Op, Knows
  <2>3. op' = [op EXCEPT ![p] = o] /\ pc' = [pc EXCEPT ![p] = "expire"]
    BY <1>3 DEF StartCleanup, Goto
  <2>. QED  BY <1>3, <2>2, <2>3, QuietStep DEF StartCleanup, Places
<1>4. CASE SkipCleanup(p) \/ CleanupDone(p)
  <2>1. Knows(p, op[p], AfterCleanup(p), made, mem) /\ AfterCleanup(p) \in Places
    BY <1>1, <1>4 DEF SkipCleanup, CleanupDone, AfterCleanup, Knows, Places
  <2>2. op' = [op EXCEPT ![p] = op[p]] /\ pc' = [pc EXCEPT ![p] = AfterCleanup(p)]
    BY <1>2, <1>4 DEF SkipCleanup, CleanupDone, Goto
  <2>. QED  BY <1>1, <1>4, <2>1, <2>2, QuietStep DEF SkipCleanup, CleanupDone
<1>5. ASSUME NEW id, id \in op[p].expired, NextExpired(p, id), pc[p] = "expire", pc' = pc,
             UNCHANGED <<stores, clock, reader>>
      PROVE  IInv'
  <2>. DEFINE o == [op[p] EXCEPT !.expired = @ \ {id}]
  <2>1. o \in Op /\ Knows(p, o, "expire", made, mem)
    BY <1>1, <1>5 DEF Op, Knows
  <2>2. op' = [op EXCEPT ![p] = o] /\ pc' = [pc EXCEPT ![p] = "expire"]
    BY <1>2, <1>5 DEF NextExpired
  <2>. QED  BY <1>5, <2>1, <2>2, QuietStep DEF Places
<1>6. CASE DeleteExpiredFails(p)
  BY <1>5, <1>6 DEF DeleteExpiredFails
<1>7. CASE DeleteExpired(p)
  <2>1. PICK id \in op[p].expired :
            \/ id \in mem /\ mem' = mem \ {id} /\ op' = [op EXCEPT ![p].first = id] /\ Goto(p, "forget")
            \/ id \notin mem /\ NextExpired(p, id) /\ UNCHANGED <<mem, pc>>
    BY <1>7 DEF DeleteExpired
  <2>2. CASE id \notin mem
    BY <1>5, <1>7, <2>1, <2>2 DEF DeleteExpired, stores
  <2>3. CASE id \in mem
    <3>. DEFINE o == [op[p] EXCEPT !.first = id]
    <3>1. id \in 1..made /\ id \in Ids /\ id # Nothing
      BY <1>1, <1>2, FactStoreAssumption DEF Knows
    <3>2. o \in Op /\ Knows(p, o, "forget", made, mem \ {id})
      BY <1>1, <1>7, <3>1 DEF DeleteExpired, Op, Knows
    <3>3. op' = [op EXCEPT ![p] = o] /\ pc' = [pc EXCEPT ![p] = "forget"]
      BY <2>1, <2>3 DEF Goto
    <3>4. mem' = mem \ {id} /\ UNCHANGED <<made, meta, conv, clock, reader>>
      BY <1>7, <2>1, <2>3 DEF DeleteExpired
    <3>5. StoresTyped' /\ made' >= made
      <4>1. StoresTyped
        BY TypeParts DEF IInv
      <4>2. mem' \subseteq 1..made' /\ made' >= made
        <5>1. mem \subseteq 1..made /\ made \in Nat
          BY <4>1, FactStoreAssumption DEF StoresTyped
        <5>2. made >= made
          BY <5>1
        <5>3. mem' \subseteq mem /\ made' = made
          BY <3>4
        <5>. QED  BY <5>1, <5>2, <5>3
      <4>3. found' = found /\ returned' = returned
        BY <3>4 DEF reader
      <4>. QED  BY <3>4, <4>1, <4>2, <4>3 DEF StoresTyped
    <3>. QED  BY <3>2, <3>3, <3>4, <3>5, OneMoves, StepOfOne DEF Places
  <2>. QED  BY <2>2, <2>3
<1>8. CASE ForgetExpired(p)
  <2>. DEFINE o == [op[p] EXCEPT !.expired = @ \ {op[p].first}, !.first = Nothing]
  <2>1. o \in Op /\ Knows(p, o, "expire", made, mem)
    BY <1>1, <1>8 DEF ForgetExpired, Op, Knows
  <2>2. op' = [op EXCEPT ![p] = o] /\ pc' = [pc EXCEPT ![p] = "expire"]
    BY <1>8 DEF ForgetExpired, Goto
  <2>3. meta' = Without(op[p].first) /\ UNCHANGED <<mem, made, conv, clock, reader>>
    BY <1>8 DEF ForgetExpired
  <2>4. StoresTyped' /\ made' >= made
    BY <1>2, <2>3 DEF IInv, TypeOK, StoresTyped, reader, Without
  <2>. QED  BY <2>1, <2>2, <2>3, <2>4, OneMoves, StepOfOne DEF Places
<1>9. CASE CleanupFails(p)
  BY <1>9, ReturnKeeps, QuietStep DEF CleanupFails
<1>. QED  BY <1>3, <1>4, <1>6, <1>7, <1>8, <1>9 DEF CleanupStep

LEMMA FindPendingKeeps == ASSUME IInv, FindPending PROVE IInv'
<1>1. /\ Worker \in Processes /\ op[Worker] \in Op
      /\ Knows(Worker, op[Worker], pc[Worker], made, mem)
      /\ op \in [Processes -> Op]
  BY DEF IInv, TypeOK, Processes
<1>2. Knows(Worker, op[Worker], "cleanup", made, mem)
  BY <1>1 DEF FindPending, Knows
<1>3. op' = [op EXCEPT ![Worker] = op[Worker]] /\ pc' = [pc EXCEPT ![Worker] = "cleanup"]
  BY <1>1 DEF FindPending, Goto
<1>. QED  BY <1>1, <1>2, <1>3, QuietStep DEF FindPending, Places

-----------------------------------------------------------------------------
(* The addition of a fact.                                                 *)
LEMMA AddKeeps ==
    ASSUME IInv, NEW p \in Adders, NEW f \in Facts, NEW e \in Times \cup {Nothing},
           NEW hasMetadata \in BOOLEAN, NEW rest \in SUBSET Facts,
           Add(p, f, e, hasMetadata, rest), UNCHANGED <<stores, clock, reader>>
    PROVE  IInv'
<1>1. p \in Processes /\ p # Worker
  BY FactStoreAssumption DEF Processes
<1>2. CASE f \in Keys
  <2>. DEFINE o == [NoOp EXCEPT !.facts = rest]
              place == IF rest = {} THEN "idle" ELSE "dispatch"
  <2>1. o \in Op /\ place \in Places /\ Knows(p, o, place, made, mem)
    BY <1>1 DEF NoOp, Op, Knows, Places
  <2>2. op' = [op EXCEPT ![p] = o] /\ pc' = [pc EXCEPT ![p] = place]
    BY <1>2 DEF Add, Goto
  <2>. QED  BY <1>1, <2>1, <2>2, QuietStep
<1>3. CASE f \notin Keys
  <2>. DEFINE o == [NoOp EXCEPT !.facts = rest, !.fact = f, !.expires = e,
                                !.hasMetadata = hasMetadata]
  <2>1. o \in Op /\ Knows(p, o, "cleanup", made, mem)
    BY <1>1 DEF NoOp, Op, Knows
  <2>2. op' = [op EXCEPT ![p] = o] /\ pc' = [pc EXCEPT ![p] = "cleanup"]
    BY <1>3 DEF Add, Goto
  <2>. QED  BY <1>1, <2>1, <2>2, QuietStep DEF Places
<1>. QED  BY <1>2, <1>3

(* Up to the search for similar memories.                                  *)
LEMMA ExtractionKeeps ==
    ASSUME IInv, NEW p \in Adders,
           \/ BeginExtraction(p) \/ Recall(p) \/ Extract(p) \/ ExtractFails(p)
           \/ DispatchFact(p) \/ KnowledgeAdd(p) \/ SearchSimilar(p)
    PROVE  IInv'
<1>1. /\ p \in Processes /\ p # Worker /\ op[p] \in Op
      /\ Knows(p, op[p], pc[p], made, mem) /\ op \in [Processes -> Op]
  BY FactStoreAssumption DEF IInv, TypeOK, Processes
<1>2. ASSUME NEW place \in {"idle", "recall", "extract"},
             pc[p] \in {"idle", "recall", "extract"},
             pc' = [pc EXCEPT ![p] = place], UNCHANGED <<stores, clock, op, reader>>
      PROVE  IInv'
  <2>1. Knows(p, op[p], place, made, mem) /\ place \in Places
    BY <1>1, <1>2 DEF Knows, Places
  <2>2. op' = [op EXCEPT ![p] = op[p]]
    BY <1>1, <1>2
  <2>. QED  BY <1>1, <1>2, <2>1, <2>2, QuietStep
<1>3. CASE BeginExtraction(p) \/ Recall(p) \/ ExtractFails(p)
  BY <1>2, <1>3 DEF BeginExtraction, Recall, ExtractFails, Goto
<1>4. CASE Extract(p)
  <2>1. PICK facts \in SUBSET Facts : op' = [op EXCEPT ![p].facts = facts]
    BY <1>4 DEF Extract
  <2>. DEFINE o == [op[p] EXCEPT !.facts = facts]
  <2>2. o \in Op /\ Knows(p, o, "dispatch", made, mem)
    BY <1>1, <1>4 DEF Extract, Op, Knows
  <2>3. op' = [op EXCEPT ![p] = o] /\ pc' = [pc EXCEPT ![p] = "dispatch"]
    BY <1>4, <2>1 DEF Extract, Goto
  <2>. QED  BY <1>1, <1>4, <2>2, <2>3, QuietStep DEF Extract, Places
<1>5. CASE DispatchFact(p)
  <2>1. PICK f \in op[p].facts, e \in {clock, Nothing} : Add(p, f, e, TRUE, op[p].facts \ {f})
    BY <1>5 DEF DispatchFact
  <2>2. f \in Facts /\ e \in Times \cup {Nothing} /\ op[p].facts \ {f} \in SUBSET Facts
    BY <1>1 DEF Op, IInv, TypeOK
  <2>. QED  BY <1>5, <2>1, <2>2, AddKeeps DEF DispatchFact
<1>6. CASE KnowledgeAdd(p)
  BY <1>6, AddKeeps DEF KnowledgeAdd
<1>7. CASE SearchSimilar(p)
  <2>. DEFINE o == [op[p] EXCEPT !.seen = mem]
  <2>1. mem \subseteq 1..made /\ mem \subseteq Ids
    BY FactStoreAssumption DEF IInv, TypeOK, Ids
  <2>2. o \in Op /\ Knows(p, o, "apply", made, mem)
    BY <1>1, <1>7, <2>1 DEF SearchSimilar, Op, Knows
  <2>3. op' = [op EXCEPT ![p] = o] /\ pc' = [pc EXCEPT ![p] = "apply"]
    BY <1>7 DEF SearchSimilar, Goto
  <2>. QED  BY <1>1, <1>7, <2>2, <2>3, QuietStep DEF SearchSimilar, Places
<1>. QED  BY <1>3, <1>4, <1>5, <1>6, <1>7

(* What Mem0 does with the fact, and the row it is given.                  *)
LEMMA ApplyKeeps ==
    ASSUME IInv, NEW p \in Adders, ApplyAction(p)
    PROVE  IInv'
<1>1. /\ p \in Processes /\ p # Worker /\ op[p] \in Op /\ pc[p] = "apply"
      /\ Knows(p, op[p], pc[p], made, mem)
      /\ op \in [Processes -> Op] /\ pc \in [Processes -> Places]
      /\ op[p] = [facts |-> op[p].facts, fact |-> op[p].fact, expires |-> op[p].expires,
                  hasMetadata |-> op[p].hasMetadata, seen |-> op[p].seen,
                  first |-> op[p].first, expired |-> op[p].expired]
  BY FactStoreAssumption DEF IInv, TypeOK, Processes, ApplyAction, CreateMemory,
     UpdateMemory, DeleteMemory, Op, Places
<1>2. /\ StoresTyped /\ made \in Nat /\ 1..made \subseteq Ids /\ Nothing \notin Ids
      /\ MaxIds \in Nat
  BY FactStoreAssumption, TypeParts DEF IInv, StoresTyped, Ids
<1>3. op[p].first \in Ids \cup {Nothing} /\ op[p].seen \subseteq Ids
  BY <1>1, <1>2 DEF Knows
<1>4. CASE CreateMemory(p)
  <2>. DEFINE o == [op[p] EXCEPT !.first = FirstResult(p, made + 1)]
  <2>1. /\ made < MaxIds /\ made' = made + 1 /\ mem' = mem \cup {made + 1}
        /\ op' = [op EXCEPT ![p] = o] /\ pc' = [pc EXCEPT ![p] = "apply"]
        /\ UNCHANGED <<meta, conv, clock, reader>>
    BY <1>1, <1>4 DEF CreateMemory
  <2>2. made + 1 \in Ids /\ 1..made \subseteq 1..(made + 1) /\ made + 1 \in 1..(made + 1)
    BY <1>2, <2>1 DEF Ids
  <2>3. FirstResult(p, made + 1) \in 1..(made + 1)
    BY <1>1, <2>2 DEF FirstResult, Knows
  <2>4. FirstResult(p, made + 1) \in Ids
    BY <1>3, <2>2 DEF FirstResult
  <2>5. o \in Op
    BY <1>1, <2>4 DEF Op
  <2>6. Knows(p, o, "apply", made + 1, mem')
    BY <1>1, <2>2, <2>3 DEF Knows
  <2>7. StoresTyped' /\ made' >= made
    <3>1. mem' \subseteq 1..made' /\ DOMAIN meta \subseteq 1..made' /\ made' \in 0..MaxIds
      BY <1>2, <2>1, <2>2 DEF StoresTyped
    <3>2. made' >= made
      BY <1>2, <2>1
    <3>3. found' = found /\ returned' = returned
      BY <2>1 DEF reader
    <3>. QED  BY <1>2, <2>1, <3>1, <3>2, <3>3 DEF StoresTyped
  <2>8. \A id \in mem' : id \in mem \/ id > made
    BY <1>2, <2>1
  <2>. QED  BY <1>1, <2>1, <2>5, <2>6, <2>7, <2>8, OneMoves, StepOfOne DEF Places
<1>5. ASSUME NEW id \in op[p].seen \cap mem, mem' \in {mem, mem \ {id}},
             op' = [op EXCEPT ![p].seen = @ \ {id}, ![p].first = FirstResult(p, id)],
             UNCHANGED <<made, meta, conv, clock, pc, reader>>
      PROVE  IInv'
  <2>. DEFINE o == [op[p] EXCEPT !.seen = @ \ {id}, !.first = FirstResult(p, id)]
  <2>1. FirstResult(p, id) \in 1..made /\ FirstResult(p, id) \in Ids
    BY <1>1, <1>2, <1>3 DEF FirstResult, Knows
  <2>2. o \in Op
    BY <1>1, <1>3, <2>1 DEF Op
  <2>3. Knows(p, o, "apply", made, mem')
    BY <1>1, <2>1 DEF Knows
  <2>4. op' = [op EXCEPT ![p] = o] /\ pc' = [pc EXCEPT ![p] = "apply"]
    BY <1>1, <1>5
  <2>5. StoresTyped' /\ made' >= made
    <3>1. mem' \subseteq 1..made' /\ made' >= made
      BY <1>2, <1>5 DEF StoresTyped
    <3>2. found' = found /\ returned' = returned
      BY <1>5 DEF reader
    <3>. QED  BY <1>2, <1>5, <3>1, <3>2 DEF StoresTyped
  <2>6. \A x \in mem' : x \in mem \/ x > made
    BY <1>5
  <2>7. /\ pc' \in [Processes -> Places] /\ op' \in [Processes -> Op]
        /\ \A q \in Processes \ {p} : pc'[q] = pc[q] /\ op'[q] = op[q]
        /\ pc'[p] = "apply" /\ op'[p] = o
    <3>. HIDE DEF o
    <3>. QED  BY <1>1, <2>2, <2>4, OneMoves DEF Places
  <2>8. Knows(p, op'[p], pc'[p], made', mem')
    BY <1>5, <2>3, <2>7
  <2>. QED  BY <1>1, <2>5, <2>6, <2>7, <2>8, StepOfOne
<1>6. CASE UpdateMemory(p)
  BY <1>5, <1>6 DEF UpdateMemory, stores
<1>7. CASE DeleteMemory(p)
  BY <1>5, <1>7 DEF DeleteMemory
<1>. QED  BY <1>4, <1>6, <1>7 DEF ApplyAction

LEMMA WriteKeeps ==
    ASSUME IInv, NEW p \in Adders,
           JoinThreads(p) \/ AddFails(p) \/ WriteMetadata(p) \/ WriteRefused(p)
    PROVE  IInv'
<1>1. /\ p \in Processes /\ p # Worker /\ op[p] \in Op
      /\ Knows(p, op[p], pc[p], made, mem)
  BY FactStoreAssumption DEF IInv, TypeOK, Processes
<1>2. CASE JoinThreads(p) /\ op[p].first # Nothing /\ op[p].hasMetadata
  <2>. DEFINE o == [op[p] EXCEPT !.seen = {}]
  <2>1. o \in Op /\ Knows(p, o, "write", made, mem)
    BY <1>1, <1>2 DEF JoinThreads, Op, Knows
  <2>2. op' = [op EXCEPT ![p] = o] /\ pc' = [pc EXCEPT ![p] = "write"]
    BY <1>2 DEF JoinThreads, Goto
  <2>. QED  BY <1>1, <1>2, <2>1, <2>2, QuietStep DEF JoinThreads, Places
<1>3. CASE Return(p) /\ UNCHANGED <<stores, clock, reader>>
  BY <1>1, <1>3, ReturnKeeps, QuietStep
<1>4. CASE WriteMetadata(p)
  <2>1. /\ op[p].fact \in Facts /\ op[p].first \in 1..made /\ op[p].expires \in Times \cup {Nothing}
        /\ meta' = Insert(p) /\ Return(p) /\ UNCHANGED <<mem, made, conv, clock, reader>>
    BY <1>1, <1>4 DEF WriteMetadata, Knows, Op
  <2>2. StoresTyped
    BY TypeParts DEF IInv
  <2>3. DOMAIN meta' \subseteq 1..made /\ \A id \in DOMAIN meta' : meta'[id] \in Row
    BY <2>1, <2>2 DEF StoresTyped, Insert, Row
  <2>4. made' >= made
    BY <2>1, <2>2, FactStoreAssumption DEF StoresTyped
  <2>5. StoresTyped'
    BY <2>1, <2>2, <2>3 DEF StoresTyped, reader
  <2>. DEFINE o == [NoOp EXCEPT !.facts = op[p].facts]
              place == IF op[p].facts = {} THEN "idle" ELSE "dispatch"
  <2>6. /\ op' = [op EXCEPT ![p] = o] /\ pc' = [pc EXCEPT ![p] = place]
        /\ o \in Op /\ place \in Places /\ Knows(p, o, place, made', mem')
    BY <1>1, <2>1, ReturnKeeps
  <2>. HIDE DEF o, place
  <2>7. /\ pc' \in [Processes -> Places] /\ op' \in [Processes -> Op]
        /\ \A q \in Processes \ {p} : pc'[q] = pc[q] /\ op'[q] = op[q]
        /\ pc'[p] = place /\ op'[p] = o
    BY <1>1, <2>6, OneMoves
  <2>. QED  BY <1>1, <2>1, <2>4, <2>5, <2>6, <2>7, StepOfOne
<1>. QED  BY <1>2, <1>3, <1>4 DEF JoinThreads, AddFails, WriteRefused

-----------------------------------------------------------------------------
LEMMA Stutters == ASSUME IInv, UNCHANGED vars PROVE IInv'
BY DEF vars, stores, reader, IInv, TypeOK, Knows

LEMMA StepIInv == ASSUME IInv, [Next]_vars PROVE IInv'
<1>1. Worker \in Processes /\ Adders \subseteq Processes
  BY DEF Processes
<1>2. CASE Tick \/ DeleteConversation \/ Crash \/ SearchMem0 \/ ReadMetadata
  BY <1>2, EnvironmentKeeps
<1>3. CASE FindPending
  BY <1>3, FindPendingKeeps
<1>4. ASSUME NEW p \in Processes, CleanupStep(p) PROVE IInv'
  BY <1>4, CleanupKeeps
<1>5. ASSUME NEW p \in Adders, BeginExtraction(p) \/ KnowledgeAdd(p) \/ AddStep(p)
      PROVE  IInv'
  BY <1>5, ExtractionKeeps, ApplyKeeps, WriteKeeps DEF AddStep
<1>6. CASE UNCHANGED vars
  BY <1>6, Stutters
<1>. QED  BY <1>1, <1>2, <1>3, <1>4, <1>5, <1>6 DEF Next

LEMMA Invariant == Spec => []IInv
BY InitIInv, StepIInv, PTL DEF Spec

(* Ids, rows and the locals of every coroutine are what the statements of  *)
(* quality_wrapper.py expect them to be.                                   *)
THEOREM TypeCorrect == Spec => []TypeOK
<1>1. IInv => TypeOK
  BY DEF IInv
<1>. QED  BY <1>1, Invariant, PTL

(* No step changes a row; one goes at "forget" alone, after its memory.    *)
LEMMA RowsStay ==
    ASSUME IInv, [Next]_vars, NEW id \in DOMAIN meta, id \in mem
    PROVE  id \in DOMAIN meta' /\ meta'[id] = meta[id]
<1>1. CASE \E p \in Processes : ForgetExpired(p)
  <2>1. PICK p \in Processes : ForgetExpired(p)
    BY <1>1
  <2>2. op[p].first # id /\ meta' = Without(op[p].first)
    BY <2>1 DEF IInv, Knows, ForgetExpired
  <2>. QED  BY <2>2 DEF Without
<1>2. CASE \E p \in Adders : WriteMetadata(p)
  BY <1>2 DEF WriteMetadata, Insert
<1>3. CASE UNCHANGED meta
  BY <1>3
<1>4. UNCHANGED vars => UNCHANGED meta
  BY DEF vars, stores
<1>5. Tick \/ DeleteConversation \/ Crash \/ FindPending \/ SearchMem0 \/ ReadMetadata
      => UNCHANGED meta
  BY DEF Tick, DeleteConversation, Crash, FindPending, SearchMem0, ReadMetadata, stores
<1>6. ASSUME NEW p \in Processes, CleanupStep(p) PROVE UNCHANGED meta \/ ForgetExpired(p)
  BY <1>6 DEF CleanupStep, StartCleanup, SkipCleanup, DeleteExpired, DeleteExpiredFails,
     CleanupDone, CleanupFails, stores
<1>7. ASSUME NEW p \in Adders, BeginExtraction(p) \/ KnowledgeAdd(p) \/ AddStep(p)
      PROVE  UNCHANGED meta \/ WriteMetadata(p)
  BY <1>7 DEF AddStep, BeginExtraction, KnowledgeAdd, Recall, Extract, ExtractFails,
     DispatchFact, SearchSimilar, ApplyAction, CreateMemory, UpdateMemory, DeleteMemory,
     JoinThreads, AddFails, WriteRefused, stores
<1>. QED  BY <1>1, <1>2, <1>3, <1>4, <1>5, <1>6, <1>7 DEF Next, Processes

(* A row of cea_quality_metadata is deleted only when its memory is gone,  *)
(* however many cleanups, additions and failures meet: a row goes at       *)
(* "forget" alone, and an id that Mem0 gave out never comes back.          *)
THEOREM RowsKept == Spec => RowsOutliveFacts
<1>1. IInv /\ [Next]_vars => [\A id \in DOMAIN meta \ DOMAIN meta' : id \notin mem]_vars
  BY RowsStay
<1>. QED  BY <1>1, Invariant, PTL DEF Spec, RowsOutliveFacts

-----------------------------------------------------------------------------
(* What a search carries from Mem0's answer to the read of the rows: ids   *)
(* that were given out, expired as long as their memories are there.       *)
FilterInv ==
    /\ found \cup returned \subseteq 1..made
    /\ found \cap mem \subseteq ExpiredRows
    /\ ExpiredNotReturned

(* Ids only grow, the clock does not go back, and an id that was given out *)
(* does not come back to Mem0.                                             *)
LEMMA NothingReturns ==
    ASSUME IInv, [Next]_vars
    PROVE  /\ made \in Nat /\ made' \in Nat /\ made <= made'
           /\ clock \in Nat /\ clock' \in Nat /\ clock <= clock'
           /\ mem' \cap (1..made) \subseteq mem
<1>1. made \in Nat /\ clock \in Nat
  BY FactStoreAssumption DEF IInv, TypeOK, Times
<1>2. CASE Tick
  BY <1>1, <1>2 DEF Tick, stores
<1>3. CASE \E p \in Adders : CreateMemory(p)
  <2>1. made' = made + 1 /\ mem' = mem \cup {made'} /\ clock' = clock
    BY <1>3 DEF CreateMemory
  <2>. QED  BY <1>1, <2>1
<1>4. CASE mem' \subseteq mem /\ made' = made /\ clock' = clock
  BY <1>1, <1>4
<1>5. UNCHANGED vars \/ DeleteConversation \/ Crash \/ FindPending \/ SearchMem0 \/ ReadMetadata
      => UNCHANGED <<mem, made, clock>>
  BY DEF DeleteConversation, Crash, FindPending, SearchMem0, ReadMetadata, vars, stores
<1>6. ASSUME NEW p \in Processes, CleanupStep(p)
      PROVE  mem' \subseteq mem /\ UNCHANGED <<made, clock>>
  BY <1>6 DEF CleanupStep, StartCleanup, SkipCleanup, DeleteExpired, DeleteExpiredFails,
     ForgetExpired, CleanupDone, CleanupFails, stores
<1>7. ASSUME NEW p \in Adders, BeginExtraction(p) \/ KnowledgeAdd(p) \/ AddStep(p),
             ~CreateMemory(p)
      PROVE  mem' \subseteq mem /\ UNCHANGED <<made, clock>>
  BY <1>7 DEF AddStep, BeginExtraction, KnowledgeAdd, Recall, Extract, ExtractFails,
     DispatchFact, SearchSimilar, ApplyAction, UpdateMemory, DeleteMemory,
     JoinThreads, AddFails, WriteMetadata, WriteRefused, stores
<1>. QED  BY <1>2, <1>3, <1>4, <1>5, <1>6, <1>7 DEF Next, Processes

(* A row that has expired stays so while its memory is there.              *)
LEMMA ExpiredStays ==
    ASSUME IInv, [Next]_vars, NEW id \in ExpiredRows, id \in mem
    PROVE  id \in ExpiredRows'
<1>1. id \in DOMAIN meta' /\ meta'[id] = meta[id]
  BY RowsStay DEF ExpiredRows
<1>2. meta[id].expires # Nothing /\ meta[id].expires < clock
  BY DEF ExpiredRows, Expired
<1>3. meta[id].expires \in Nat
  BY <1>2, FactStoreAssumption DEF IInv, TypeOK, Row, Times, ExpiredRows
<1>4. meta[id].expires < clock'
  BY <1>2, <1>3, NothingReturns
<1>. QED  BY <1>1, <1>2, <1>4 DEF ExpiredRows, Expired

LEMMA ReaderMoves ==
    ASSUME [Next]_vars
    PROVE  Crash \/ SearchMem0 \/ ReadMetadata \/ UNCHANGED reader
<1>1. UNCHANGED vars \/ Tick \/ DeleteConversation \/ FindPending => UNCHANGED reader
  BY DEF Tick, DeleteConversation, FindPending, vars
<1>2. ASSUME NEW p \in Processes, CleanupStep(p) PROVE UNCHANGED reader
  BY <1>2 DEF CleanupStep, StartCleanup, SkipCleanup, DeleteExpired, DeleteExpiredFails,
     ForgetExpired, CleanupDone, CleanupFails
<1>3. ASSUME NEW p \in Adders, BeginExtraction(p) \/ KnowledgeAdd(p) \/ AddStep(p)
      PROVE  UNCHANGED reader
  BY <1>3 DEF AddStep, BeginExtraction, KnowledgeAdd, Recall, Extract, ExtractFails,
     DispatchFact, SearchSimilar, ApplyAction, CreateMemory, UpdateMemory, DeleteMemory,
     JoinThreads, AddFails, WriteMetadata, WriteRefused
<1>. QED  BY <1>1, <1>2, <1>3 DEF Next, Processes

LEMMA FilterStep == ASSUME IInv, FilterInv, [Next]_vars PROVE FilterInv'
<1>1. CASE Crash
  BY <1>1 DEF Crash, FilterInv, ExpiredNotReturned
<1>2. CASE SearchMem0
  <2>1. UNCHANGED <<mem, made, meta, clock>> /\ found' = mem \cap ExpiredRows /\ returned' = {}
    BY <1>2 DEF SearchMem0, stores
  <2>2. ExpiredRows' = ExpiredRows
    BY <2>1 DEF ExpiredRows, Expired
  <2>3. mem \subseteq 1..made
    BY DEF IInv, TypeOK
  <2>. QED  BY <2>1, <2>2, <2>3 DEF FilterInv, ExpiredNotReturned
<1>3. CASE ReadMetadata
  <2>1. UNCHANGED <<mem, made>> /\ found' = {} /\ returned' = found \ ExpiredRows
    BY <1>3 DEF ReadMetadata, stores
  <2>. QED  BY <2>1 DEF FilterInv, ExpiredNotReturned
<1>4. CASE UNCHANGED reader
  <2>1. found' = found /\ returned' = returned
    BY <1>4 DEF reader
  <2>2. /\ made \in Nat /\ made' \in Nat /\ made <= made'
        /\ mem' \cap (1..made) \subseteq mem
    BY NothingReturns
  <2>3. 1..made \subseteq 1..made'
    BY <2>2
  <2>4. \A id \in found \cap mem' : id \in mem /\ id \in ExpiredRows
    BY <2>2 DEF FilterInv
  <2>5. \A id \in found \cap mem' : id \in ExpiredRows'
    BY <2>4, ExpiredStays
  <2>6. returned \cap mem' = {}
    BY <2>2 DEF FilterInv, ExpiredNotReturned
  <2>. QED  BY <2>1, <2>3, <2>5, <2>6 DEF FilterInv, ExpiredNotReturned
<1>. QED  BY <1>1, <1>2, <1>3, <1>4, ReaderMoves

(* knowledge_search asks Mem0 first and reads the rows after it: whatever  *)
(* additions, cleanups, restarts and ticks of the clock come between, a    *)
(* fact that had expired by the first read is filtered by the second, or   *)
(* is no memory any more.                                                  *)
THEOREM SearchesFilter == Spec => []ExpiredNotReturned
<1>1. Init => FilterInv
  BY DEF Init, FilterInv, ExpiredNotReturned
<1>2. IInv /\ FilterInv /\ [Next]_vars => FilterInv'
  BY FilterStep
<1>3. FilterInv => ExpiredNotReturned
  BY DEF FilterInv
<1>. QED  BY <1>1, <1>2, <1>3, Invariant, PTL DEF Spec

-----------------------------------------------------------------------------
(* A step of one coroutine that takes no row but of a memory that is gone, *)
(* and keeps hold of the memory it carries or leaves it with a row, leaves *)
(* no memory behind.                                                       *)
LEMMA NoneLeftBehind ==
    ASSUME IInv, NEW p \in Processes, NEW id \in mem', id \in mem,
           id \in DOMAIN meta => id \in DOMAIN meta',
           \A q \in Processes \ {p} : op'[q].first = op[q].first,
           op[p].first = id => op'[p].first = id \/ id \in DOMAIN meta'
    PROVE  Accounted(id) => Accounted(id)'
<1>1. SUFFICES ASSUME NEW q \in Adders, id \in InFlight(q), id \notin DOMAIN meta'
               PROVE  id \in InFlight(q)'
  BY DEF Accounted
<1>2. q \in Processes /\ op[q].first = id /\ id \in Ids
  BY <1>1 DEF InFlight, Processes
<1>3. op'[q].first = id
  BY <1>1, <1>2
<1>. QED  BY <1>2, <1>3 DEF InFlight

LEMMA MemoriesAreIds == IInv => mem \subseteq Ids /\ Nothing \notin mem
<1>1. ASSUME IInv PROVE mem \subseteq Ids
  BY <1>1, FactStoreAssumption DEF IInv, TypeOK, Ids
<1>2. Nothing \notin Ids
  BY FactStoreAssumption
<1>. QED  BY <1>1, <1>2

\* The five ways in which a memory comes to be without a row, and a restart.
LeftBehind(p) ==
    \/ CreateMemory(p) /\ op[p].first # Nothing
    \/ JoinThreads(p) /\ ~op[p].hasMetadata
    \/ AddFails(p)
    \/ WriteRefused(p)

LEMMA CleanupLeavesNone ==
    ASSUME IInv, NEW p \in Processes, CleanupStep(p), NEW id \in mem'
    PROVE  id \in mem /\ (Accounted(id) => Accounted(id)')
<1>1. /\ op \in [Processes -> Op] /\ op[p] \in Op
      /\ Knows(p, op[p], pc[p], made, mem)
  BY DEF IInv, TypeOK
<1>2. CASE StartCleanup(p) \/ SkipCleanup(p) \/ CleanupDone(p) \/ DeleteExpiredFails(p)
  <2>1. UNCHANGED stores /\ \A q \in Processes : op'[q].first = op[q].first
    BY <1>1, <1>2 DEF StartCleanup, SkipCleanup, CleanupDone, DeleteExpiredFails,
       NextExpired, Op
  <2>. QED  BY <2>1, NoneLeftBehind DEF stores
<1>3. CASE DeleteExpired(p)
  <2>1. op[p].first = Nothing /\ mem' \subseteq mem /\ meta' = meta
    BY <1>1, <1>3 DEF DeleteExpired, Knows
  <2>2. \A q \in Processes \ {p} : op'[q].first = op[q].first
    BY <1>1, <1>3 DEF DeleteExpired, NextExpired, Op
  <2>3. id # Nothing
    BY <2>1, FactStoreAssumption DEF IInv, TypeOK, Ids
  <2>. QED  BY <2>1, <2>2, <2>3, NoneLeftBehind
<1>4. CASE ForgetExpired(p)
  <2>1. op[p].first \notin mem /\ mem' = mem /\ meta' = Without(op[p].first)
    BY <1>1, <1>4 DEF ForgetExpired, Knows
  <2>2. \A q \in Processes \ {p} : op'[q].first = op[q].first
    BY <1>1, <1>4 DEF ForgetExpired, Op
  <2>. QED  BY <2>1, <2>2, NoneLeftBehind DEF Without
<1>5. CASE CleanupFails(p)
  <2>1. UNCHANGED stores /\ op[p].first \notin mem
    BY <1>1, <1>5, MemoriesAreIds DEF CleanupFails, Knows
  <2>2. \A q \in Processes \ {p} : op'[q].first = op[q].first
    BY <1>1, <1>5 DEF CleanupFails, Return
  <2>. QED  BY <2>1, <2>2, NoneLeftBehind DEF stores
<1>. QED  BY <1>2, <1>3, <1>4, <1>5 DEF CleanupStep

LEMMA AdditionLeavesNone ==
    ASSUME IInv, NEW p \in Adders, BeginExtraction(p) \/ KnowledgeAdd(p) \/ AddStep(p),
           ~LeftBehind(p), NEW id \in mem'
    PROVE  Accounted(id)' \/ (id \in mem /\ ~Accounted(id))
<1>1. /\ p \in Processes /\ op \in [Processes -> Op] /\ op[p] \in Op
      /\ Knows(p, op[p], pc[p], made, mem)
  BY DEF IInv, TypeOK, Processes
<1>2. mem \subseteq Ids /\ Nothing \notin mem
  BY MemoriesAreIds
<1>3. CASE BeginExtraction(p) \/ Recall(p) \/ Extract(p) \/ ExtractFails(p) \/ SearchSimilar(p)
  <2>1. UNCHANGED stores /\ \A q \in Processes : op'[q].first = op[q].first
    BY <1>1, <1>3 DEF BeginExtraction, Recall, Extract, ExtractFails, SearchSimilar, Op
  <2>. QED  BY <1>1, <2>1, NoneLeftBehind DEF stores
<1>4. CASE KnowledgeAdd(p) \/ DispatchFact(p)
  <2>1. UNCHANGED stores /\ op[p].first = Nothing
    BY <1>1, <1>4 DEF KnowledgeAdd, DispatchFact, Knows
  <2>2. \A q \in Processes \ {p} : op'[q].first = op[q].first
    BY <1>1, <1>4 DEF KnowledgeAdd, DispatchFact, Add
  <2>. QED  BY <1>1, <1>2, <2>1, <2>2, NoneLeftBehind DEF stores
<1>5. CASE CreateMemory(p)
  <2>1. /\ op[p].first = Nothing /\ made < MaxIds /\ made' = made + 1
        /\ mem' = mem \cup {made'} /\ meta' = meta
        /\ op' = [op EXCEPT ![p].first = made']
    BY <1>5 DEF CreateMemory, FirstResult, LeftBehind
  <2>2. op'[p].first = made' /\ \A q \in Processes \ {p} : op'[q].first = op[q].first
    BY <1>1, <2>1 DEF Op
  <2>3. CASE id = made'
    <3>1. made' \in Ids
      BY <2>1, FactStoreAssumption DEF IInv, TypeOK, Ids
    <3>. QED  BY <2>2, <2>3, <3>1 DEF Accounted, InFlight
  <2>4. CASE id \in mem
    BY <1>1, <1>2, <2>1, <2>2, <2>4, NoneLeftBehind
  <2>. QED  BY <2>1, <2>3, <2>4
<1>6. CASE UpdateMemory(p) \/ DeleteMemory(p)
  <2>1. mem' \subseteq mem /\ meta' = meta
    BY <1>6 DEF UpdateMemory, DeleteMemory, stores
  <2>2. PICK x \in op[p].seen \cap mem :
            op' = [op EXCEPT ![p].seen = @ \ {x}, ![p].first = FirstResult(p, x)]
    BY <1>6 DEF UpdateMemory, DeleteMemory
  <2>3. op'[p].first = FirstResult(p, x)
    BY <1>1, <2>2 DEF Op
  <2>4. \A q \in Processes \ {p} : op'[q].first = op[q].first
    BY <1>1, <2>2
  <2>5. op[p].first # Nothing => op'[p].first = op[p].first
    BY <2>3 DEF FirstResult
  <2>. QED  BY <1>1, <1>2, <2>1, <2>4, <2>5, NoneLeftBehind
<1>7. CASE JoinThreads(p)
  <2>1. /\ UNCHANGED stores
        /\ op[p].first # Nothing => op' = [op EXCEPT ![p].seen = {}]
        /\ \A q \in Processes \ {p} : op'[q] = op[q]
    BY <1>1, <1>7 DEF JoinThreads, LeftBehind, Return
  <2>2. op[p].first # Nothing => op'[p].first = op[p].first
    BY <1>1, <2>1 DEF Op
  <2>. QED  BY <1>1, <1>2, <2>1, <2>2, NoneLeftBehind DEF stores
<1>8. CASE WriteMetadata(p)
  <2>1. mem' = mem /\ DOMAIN meta' = DOMAIN meta \cup {op[p].first}
    BY <1>8 DEF WriteMetadata, Insert
  <2>2. \A q \in Processes \ {p} : op'[q].first = op[q].first
    BY <1>1, <1>8 DEF WriteMetadata, Return
  <2>. QED  BY <1>1, <2>1, <2>2, NoneLeftBehind
<1>. QED  BY <1>3, <1>4, <1>5, <1>6, <1>7, <1>8 DEF AddStep, ApplyAction, LeftBehind

(* However additions, cleanups and searches meet, a memory that has a row, *)
(* or whose addition is on its way to write it, stays so; what is left     *)
(* without a row was left in one of the five ways.                         *)
THEOREM NoFactForgotten == Spec => FactsAccounted
<1>. DEFINE Step == \A id \in mem' :
           \/ Accounted(id)'
           \/ id \in mem /\ ~Accounted(id)
           \/ \E p \in Adders : LeftBehind(p)
           \/ Crash
<1>1. IInv /\ Next => Step
  <2>1. SUFFICES ASSUME IInv, Next, NEW id \in mem', ~Crash,
                        ~ \E p \in Adders : LeftBehind(p)
                 PROVE  Accounted(id)' \/ (id \in mem /\ ~Accounted(id))
    OBVIOUS
  <2>2. CASE Tick \/ DeleteConversation \/ FindPending \/ SearchMem0 \/ ReadMetadata
    BY <2>2 DEF Tick, DeleteConversation, FindPending, SearchMem0, ReadMetadata, stores,
       Accounted, InFlight
  <2>3. ASSUME NEW p \in Processes, CleanupStep(p)
        PROVE  Accounted(id)' \/ (id \in mem /\ ~Accounted(id))
    BY <2>1, <2>3, CleanupLeavesNone
  <2>4. ASSUME NEW p \in Adders, BeginExtraction(p) \/ KnowledgeAdd(p) \/ AddStep(p)
        PROVE  Accounted(id)' \/ (id \in mem /\ ~Accounted(id))
    BY <2>1, <2>4, AdditionLeavesNone
  <2>. QED  BY <2>1, <2>2, <2>3, <2>4 DEF Next, Processes
<1>2. IInv /\ [Next]_vars => [Step]_vars
  BY <1>1
<1>3. [Step]_vars <=>
      [\A id \in mem' :
           \/ Accounted(id)'
           \/ id \in mem /\ ~Accounted(id)
           \/ \E p \in Adders :
                  \/ CreateMemory(p) /\ op[p].first # Nothing
                  \/ JoinThreads(p) /\ ~op[p].hasMetadata
                  \/ AddFails(p)
                  \/ WriteRefused(p)
           \/ Crash]_vars
  BY DEF LeftBehind
<1>. QED  BY <1>2, <1>3, Invariant, PTL DEF Spec, FactsAccounted
=============================================================================
