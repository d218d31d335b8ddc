--------------------------- MODULE Imperator_proofs --------------------------
(***************************************************************************)
(* Proofs about Imperator, for any number of turns, conversations and      *)
(* restarts.  The types come first, then the state manager (its file names *)
(* the conversation in memory), then the messages (no question and no      *)
(* answer twice, no answer without its question).                          *)
(***************************************************************************)
EXTENDS Imperator, TLAPS

Places == {"idle", "exists", "create", "write", "prompt", "window", "question", "enrich",
           "llm", "tool", "storeUser", "storeAssistant", "ended"}
Op == [conv : Convs \cup {None}, fresh : Convs \cup {None}, stored : BOOLEAN,
       error : BOOLEAN, n : Nat, text : BOOLEAN]
Steps == {"idle", "read", "exists", "resume", "create", "write", "ended"}

Typed ==
    /\ convs \subseteq Convs /\ made \in 0..MaxConvs
    /\ log \in [Convs -> Seq(Entry)]
    /\ {file, memory} \subseteq Convs \cup {None}
    /\ init \in [Starters -> Steps]
    /\ saved \in [Starters -> Convs \cup {None}]
    /\ \A i \in Starters : init[i] \in {"exists", "resume", "write"} => saved[i] \in Convs
    /\ pc \in [Turns -> Places]
    /\ op \in [Turns -> Op]
    /\ \A t \in Turns : pc[t] \in {"window", "question"} => op[t].conv \in Convs

-----------------------------------------------------------------------------
(* Types.                                                                  *)
LEMMA InitTyped == Init => Typed
<1>1. NoOp \in Op
  BY DEF NoOp, Op
<1>. QED  BY <1>1, ImperatorAssumption DEF Init, Typed, Places, Started, Steps

LEMMA FreshIsConv == ASSUME Typed, made < MaxConvs PROVE made + 1 \in Convs /\ made + 1 \in 0..MaxConvs
BY ImperatorAssumption DEF Typed, Convs

LEMMA EntriesAppended ==
    ASSUME Typed, NEW c \in Convs, NEW t \in Turns, NEW who \in {"user", "assistant"},
           Append1(c, t, who)
    PROVE  log' \in [Convs -> Seq(Entry)]
<1>1. [turn |-> t, by |-> who] \in Entry
  BY DEF Entry
<1>2. Append(log[c], [turn |-> t, by |-> who]) \in Seq(Entry)
  BY <1>1 DEF Typed
<1>. QED  BY <1>2 DEF Append1, Typed

LEMMA TypedEnvironment ==
    ASSUME Typed, DeleteConversation \/ Restart
    PROVE  Typed'
<1>1. CASE DeleteConversation
  <2>1. <<>> \in Seq(Entry)
    OBVIOUS
  <2>. QED  BY <1>1, <2>1 DEF DeleteConversation, Typed, manager
<1>2. CASE Restart
  <2>1. NoOp \in Op
    BY DEF NoOp, Op
  <2>. QED  BY <1>2, <2>1 DEF Restart, Typed, Places, Started, Steps, db
<1>. QED  BY <1>1, <1>2

\* An initialization that goes on, with the conversation it has in hand.
LEMMA TypedGoto ==
    ASSUME Typed, NEW i \in Starters, NEW place \in Steps, NEW conv \in Convs \cup {None},
           place \in {"exists", "resume", "write"} => conv \in Convs,
           InitGoto(i, place, conv)
    PROVE  /\ init' \in [Starters -> Steps] /\ saved' \in [Starters -> Convs \cup {None}]
           /\ \A j \in Starters : init'[j] \in {"exists", "resume", "write"} => saved'[j] \in Convs
           /\ init'[i] = place /\ saved'[i] = conv
           /\ \A j \in Starters \ {i} : init'[j] = init[j] /\ saved'[j] = saved[j]
BY DEF InitGoto, Typed

\* How each step of an initialization moves it.
InitMoves(i, place, conv) ==
    /\ place \in Steps /\ conv \in Convs \cup {None}
    /\ place \in {"exists", "resume", "write"} => conv \in Convs
    /\ InitGoto(i, place, conv)

LEMMA StarterMoves ==
    ASSUME Typed, NEW i \in Starters,
           \/ ReadFile(i) \/ FindSaved(i) \/ Resume(i)
           \/ InitCreate(i) \/ InitWrite(i) \/ InitFails(i)
    PROVE  \E place, conv : InitMoves(i, place, conv)
<1>1. CASE ReadFile(i)
  <2>1. PICK c \in {file, None} : InitGoto(i, IF c = None THEN "create" ELSE "exists", c)
    BY <1>1 DEF ReadFile
  <2>. QED  BY <2>1 DEF InitMoves, Steps, Typed
<1>2. CASE FindSaved(i)
  <2>1. init[i] = "exists" /\ saved[i] \in Convs
    BY <1>2 DEF FindSaved, Typed
  <2>. QED  BY <1>2, <2>1 DEF FindSaved, InitMoves, Steps
<1>3. CASE InitCreate(i)
  BY <1>3, FreshIsConv DEF InitCreate, InitMoves, Steps
<1>4. CASE Resume(i) \/ InitWrite(i) \/ InitFails(i)
  BY <1>4 DEF Resume, InitWrite, InitFails, InitMoves, Steps
<1>. QED  BY <1>1, <1>2, <1>3, <1>4

LEMMA TypedManager ==
    ASSUME Typed, NEW i \in Starters,
           \/ ReadFile(i) \/ FindSaved(i) \/ Resume(i)
           \/ InitCreate(i) \/ InitWrite(i) \/ InitFails(i)
    PROVE  Typed'
<1>1. PICK place, conv : InitMoves(i, place, conv)
  BY StarterMoves
<1>2. /\ init' \in [Starters -> Steps] /\ saved' \in [Starters -> Convs \cup {None}]
      /\ \A j \in Starters : init'[j] \in {"exists", "resume", "write"} => saved'[j] \in Convs
  BY <1>1, TypedGoto DEF InitMoves
<1>3. UNCHANGED <<log, pc, op>>
  BY DEF ReadFile, FindSaved, Resume, InitCreate, InitWrite, InitFails, CreateRow, db
<1>4. convs' \subseteq Convs /\ made' \in 0..MaxConvs
  <2>1. CASE InitCreate(i)
    BY <2>1, FreshIsConv DEF InitCreate, CreateRow, Typed
  <2>2. CASE ~InitCreate(i)
    BY <2>2 DEF ReadFile, FindSaved, Resume, InitWrite, InitFails, db, Typed
  <2>. QED  BY <2>1, <2>2
<1>5. {file', memory'} \subseteq Convs \cup {None}
  <2>1. CASE Resume(i) \/ InitCreate(i)
    BY <2>1, FreshIsConv DEF Resume, InitCreate, Typed
  <2>2. CASE InitWrite(i)
    BY <2>2 DEF InitWrite, Write, Typed
  <2>3. CASE ReadFile(i) \/ FindSaved(i) \/ InitFails(i)
    BY <2>3 DEF ReadFile, FindSaved, InitFails, Typed
  <2>. QED  BY <2>1, <2>2, <2>3
<1>. QED  BY <1>2, <1>3, <1>4, <1>5 DEF Typed

LEMMA TypedRetry == ASSUME Typed, RetryInit PROVE Typed'
<1>1. "retry" \in Starters /\ "read" \in Steps /\ InitGoto("retry", "read", None)
  BY DEF RetryInit, Starters, Steps
<1>2. /\ init' \in [Starters -> Steps] /\ saved' \in [Starters -> Convs \cup {None}]
      /\ \A j \in Starters : init'[j] \in {"exists", "resume", "write"} => saved'[j] \in Convs
  BY <1>1, TypedGoto
<1>3. UNCHANGED <<convs, made, log, file, memory, pc, op>>
  BY DEF RetryInit, db
<1>. QED  BY <1>2, <1>3 DEF Typed

\* A turn that goes on, with what it carries.
LEMMA TypedMove ==
    ASSUME Typed, NEW t \in Turns, NEW o \in Op, NEW place \in Places,
           place \in {"window", "question"} => o.conv \in Convs,
           op' = [op EXCEPT ![t] = o], pc' = [pc EXCEPT ![t] = place]
    PROVE  /\ pc' \in [Turns -> Places] /\ op' \in [Turns -> Op]
           /\ \A u \in Turns : pc'[u] \in {"window", "question"} => op'[u].conv \in Convs
           /\ pc'[t] = place /\ op'[t] = o
           /\ \A u \in Turns \ {t} : pc'[u] = pc[u] /\ op'[u] = op[u]
BY DEF Typed

\* How the steps of a turn move it: to what place, with what in hand.
Moves(t, o, place) ==
    /\ o \in Op /\ place \in Places
    /\ place \in {"window", "question"} => o.conv \in Convs
    /\ op' = [op EXCEPT ![t] = o] /\ pc' = [pc EXCEPT ![t] = place]

LEMMA ChoosingMoves ==
    ASSUME Typed, NEW t \in Turns,
           \/ Begin(t) \/ CheckExists(t) \/ CreateReplacement(t) \/ WriteFile(t)
           \/ ManagerFails(t) \/ Disconnect(t)
    PROVE  \E o, place : Moves(t, o, place)
<1>1. op[t] \in Op /\ op \in [Turns -> Op] /\ pc \in [Turns -> Places] /\ memory \in Convs \cup {None}
      /\ op = [op EXCEPT ![t] = op[t]]
  BY DEF Typed
<1>2. CASE Begin(t)
  <2>1. CASE op' = [op EXCEPT ![t].fresh = memory] /\ Goto(t, "exists")
    <3>1. [op[t] EXCEPT !.fresh = memory] \in Op
      BY <1>1 DEF Op
    <3>. QED  BY <2>1, <3>1 DEF Moves, Goto, Places
  <2>2. ASSUME NEW c \in 1..made \cup ({memory} \cap {None}), NEW place \in FirstNode,
               op' = [op EXCEPT ![t].conv = c], Goto(t, place)
        PROVE  \E o, pl : Moves(t, o, pl)
    <3>1. c \in Convs \cup {None}
      BY ImperatorAssumption DEF Typed, Convs
    <3>2. [op[t] EXCEPT !.conv = c] \in Op
      BY <1>1, <3>1 DEF Op
    <3>. QED  BY <2>2, <3>2 DEF Moves, Goto, Places, FirstNode
  <2>. QED  BY <1>2, <2>1, <2>2 DEF Begin
<1>3. CASE CheckExists(t)
  <2>1. CASE op[t].fresh \in convs
    <3>1. [op[t] EXCEPT !.conv = memory, !.fresh = None] \in Op
      BY <1>1 DEF Op
    <3>2. PICK place \in FirstNode : Goto(t, place)
      BY <1>3, <2>1 DEF CheckExists
    <3>3. op' = [op EXCEPT ![t] = [op[t] EXCEPT !.conv = memory, !.fresh = None]]
      BY <1>3, <2>1 DEF CheckExists
    <3>. QED  BY <3>1, <3>2, <3>3 DEF Moves, Goto, Places, FirstNode
  <2>2. CASE op[t].fresh \notin convs
    BY <1>1, <1>3, <2>2 DEF CheckExists, Moves, Goto, Places
  <2>. QED  BY <2>1, <2>2
<1>4. CASE CreateReplacement(t)
  <2>1. [op[t] EXCEPT !.fresh = made + 1] \in Op
    BY <1>1, <1>4, FreshIsConv DEF Op, CreateReplacement
  <2>. QED  BY <1>4, <2>1 DEF CreateReplacement, Moves, Goto, Places
<1>5. CASE WriteFile(t)
  <2>1. [op[t] EXCEPT !.conv = memory, !.fresh = None] \in Op
    BY <1>1 DEF Op
  <2>. QED  BY <1>5, <2>1 DEF WriteFile, Moves, Goto, Places, FirstNode
<1>6. CASE ManagerFails(t) \/ Disconnect(t)
  <2>1. NoOp \in Op
    BY DEF NoOp, Op
  <2>. QED  BY <1>6, <2>1 DEF ManagerFails, Disconnect, Moves, Goto, Places
<1>. QED  BY <1>2, <1>3, <1>4, <1>5, <1>6

LEMMA WorkingMoves ==
    ASSUME Typed, NEW t \in Turns,
           \/ LoadPrompt(t) \/ EnsureWindow(t) \/ StoreQuestion(t) \/ ContextFails(t)
           \/ Enrich(t) \/ SkipEnrichment(t)
           \/ Respond(t) \/ CallTools(t) \/ RunTools(t) \/ ModelFails(t)
           \/ SkipStored(t) \/ StoreUser(t) \/ StoreAssistant(t)
    PROVE  \E o, place : /\ Moves(t, o, place)
                         /\ place \notin {"idle", "exists", "create", "write", "prompt"}
                         /\ pc[t] \notin {"idle", "exists", "create", "write", "ended"}
<1>. DEFINE Done == \E o, place : /\ Moves(t, o, place)
                                 /\ place \notin {"idle", "exists", "create", "write", "prompt"}
                                 /\ pc[t] \notin {"idle", "exists", "create", "write", "ended"}
<1>1. op[t] \in Op /\ op = [op EXCEPT ![t] = op[t]]
  BY DEF Typed
<1>2. CASE LoadPrompt(t)
  <2>1. [op[t] EXCEPT !.error = TRUE] \in Op
    BY <1>1 DEF Op
  <2>2. op[t].conv # None => op[t].conv \in Convs
    BY <1>1 DEF Op
  <2>3. CASE op' = op /\ Goto(t, IF op[t].conv = None THEN "llm" ELSE "window")
    BY <1>1, <1>2, <2>2, <2>3 DEF LoadPrompt, Moves, Goto, Places
  <2>4. CASE op' = [op EXCEPT ![t].error = TRUE] /\ Goto(t, "llm")
    BY <1>1, <1>2, <2>1, <2>4 DEF LoadPrompt, Moves, Goto, Places
  <2>. QED  BY <1>2, <2>3, <2>4 DEF LoadPrompt
<1>3. CASE EnsureWindow(t)
  BY <1>1, <1>3 DEF EnsureWindow, Moves, Goto, Places, Typed
<1>4. CASE StoreQuestion(t) \/ ContextFails(t)
  <2>1. [op[t] EXCEPT !.stored = TRUE] \in Op
    BY <1>1 DEF Op
  <2>. QED  BY <1>4, <2>1 DEF StoreQuestion, ContextFails, Moves, Goto, Places
<1>5. CASE Enrich(t) \/ SkipEnrichment(t)
  <2>1. [op[t] EXCEPT !.n = 0] \in Op /\ [op[t] EXCEPT !.n = @ + 1] \in Op
    BY <1>1 DEF Op
  <2>2. CASE Enrich(t)
    <3>1. \/ op' = [op EXCEPT ![t] = [op[t] EXCEPT !.n = @ + 1]] /\ Goto(t, "enrich")
          \/ op' = [op EXCEPT ![t] = [op[t] EXCEPT !.n = 0]] /\ Goto(t, "llm")
      BY <2>2 DEF Enrich
    <3>. QED  BY <2>1, <2>2, <3>1 DEF Enrich, Moves, Goto, Places
  <2>. QED  BY <1>5, <2>1, <2>2 DEF SkipEnrichment, Moves, Goto, Places
<1>6. ASSUME NEW text \in BOOLEAN, Leave(t, text), pc[t] = "llm" PROVE Done
  <2>1. [op[t] EXCEPT !.text = text, !.n = 0, !.error = FALSE] \in Op
    BY <1>1 DEF Op
  <2>2. op' = [op EXCEPT ![t] = [op[t] EXCEPT !.text = text, !.n = 0, !.error = FALSE]]
    BY <1>6, Zenon DEF Leave
  <2>3. pc' = [pc EXCEPT ![t] = "storeUser"]
    BY <1>6 DEF Leave, Goto
  <2>. QED  BY <1>6, <2>1, <2>2, <2>3 DEF Moves, Places
<1>7. CASE Respond(t) \/ ModelFails(t)
  BY <1>6, <1>7 DEF Respond, ModelFails
<1>8. CASE CallTools(t)
  <2>1. [op[t] EXCEPT !.n = @ + 1] \in Op
    BY <1>1 DEF Op
  <2>. QED  BY <1>6, <1>8, <2>1 DEF CallTools, Moves, Goto, Places
<1>9. CASE RunTools(t) \/ SkipStored(t) \/ StoreUser(t)
  BY <1>1, <1>9 DEF RunTools, SkipStored, StoreUser, Moves, Goto, Places
<1>10. CASE StoreAssistant(t)
  <2>1. NoOp \in Op
    BY DEF NoOp, Op
  <2>. QED  BY <1>10, <2>1 DEF StoreAssistant, Moves, Goto, Places
<1>. QED  BY <1>2, <1>3, <1>4, <1>5, <1>7, <1>8, <1>9, <1>10

\* Neither the state manager nor the history of its file is theirs to change.
WorkKeeps == UNCHANGED <<made, manager, split>>

LEMMA WorkingKeeps ==
    ASSUME Typed, NEW t \in Turns,
           \/ LoadPrompt(t) \/ EnsureWindow(t) \/ StoreQuestion(t) \/ ContextFails(t)
           \/ Enrich(t) \/ SkipEnrichment(t)
           \/ Respond(t) \/ CallTools(t) \/ RunTools(t) \/ ModelFails(t)
           \/ SkipStored(t) \/ StoreUser(t) \/ StoreAssistant(t)
    PROVE  WorkKeeps /\ Typed'
<1>1. WorkKeeps
  BY DEF WorkKeeps, LoadPrompt, EnsureWindow, StoreQuestion, ContextFails, Enrich,
     SkipEnrichment, Respond, CallTools, RunTools, ModelFails, SkipStored, StoreUser,
     StoreAssistant, db, history
<1>2. convs' \subseteq Convs
  <2>1. CASE EnsureWindow(t)
    BY <2>1 DEF EnsureWindow, Typed
  <2>2. CASE ~EnsureWindow(t)
    <3>1. convs' = convs
      BY <2>2 DEF LoadPrompt, StoreQuestion, ContextFails, Enrich, SkipEnrichment, Respond,
         CallTools, RunTools, ModelFails, SkipStored, StoreUser, StoreAssistant, db
    <3>. QED  BY <3>1 DEF Typed
  <2>. QED  BY <2>1, <2>2
<1>3. log' \in [Convs -> Seq(Entry)]
  <2>1. \/ log' = log
        \/ \E who \in {"user", "assistant"} :
               op[t].conv \in convs /\ Append1(op[t].conv, t, who)
    BY DEF LoadPrompt, EnsureWindow, StoreQuestion, ContextFails, Enrich, SkipEnrichment,
       Respond, CallTools, RunTools, ModelFails, SkipStored, StoreUser, StoreAssistant, db
  <2>2. ASSUME NEW who \in {"user", "assistant"},
               op[t].conv \in convs, Append1(op[t].conv, t, who)
        PROVE  log' \in [Convs -> Seq(Entry)]
    <3>1. op[t].conv \in Convs
      BY <2>2 DEF Typed
    <3>. QED  BY <2>2, <3>1, EntriesAppended
  <2>. QED  BY <2>1, <2>2 DEF Typed
<1>4. /\ pc' \in [Turns -> Places] /\ op' \in [Turns -> Op]
      /\ \A u \in Turns : pc'[u] \in {"window", "question"} => op'[u].conv \in Convs
  BY WorkingMoves, TypedMove DEF Moves
<1>. QED  BY <1>1, <1>2, <1>3, <1>4 DEF Typed, WorkKeeps, manager

LEMMA TypedChoosing ==
    ASSUME Typed, NEW t \in Turns,
           \/ Begin(t) \/ CheckExists(t) \/ CreateReplacement(t) \/ WriteFile(t)
           \/ ManagerFails(t) \/ Disconnect(t)
    PROVE  Typed'
<1>1. /\ pc' \in [Turns -> Places] /\ op' \in [Turns -> Op]
      /\ \A u \in Turns : pc'[u] \in {"window", "question"} => op'[u].conv \in Convs
  BY ChoosingMoves, TypedMove DEF Moves
<1>2. CASE Begin(t) \/ CheckExists(t) \/ ManagerFails(t) \/ Disconnect(t)
  BY <1>1, <1>2 DEF Begin, CheckExists, ManagerFails, Disconnect, Typed, db, manager
<1>3. CASE CreateReplacement(t)
  BY <1>1, <1>3, FreshIsConv DEF CreateReplacement, CreateRow, Typed
<1>4. CASE WriteFile(t)
  <2>1. pc[t] = "write" /\ op[t].fresh \in Convs \cup {None}
    BY <1>4 DEF WriteFile, Typed, Op
  <2>2. UNCHANGED <<convs, made, log, memory, init, saved>> /\ file' \in {file, None, op[t].fresh}
    BY <1>4 DEF WriteFile, Write, db
  <2>. QED  BY <1>1, <2>1, <2>2 DEF Typed
<1>. QED  BY <1>2, <1>3, <1>4

LEMMA TypedStep == Typed /\ [Next]_vars => Typed'
<1>. SUFFICES ASSUME Typed, [Next]_vars PROVE Typed'
  OBVIOUS
<1>1. CASE UNCHANGED vars
  BY <1>1 DEF vars, db, manager, Typed
<1>2. ASSUME NEW t \in Turns, Begin(t) \/ Turn(t) \/ Disconnect(t) PROVE Typed'
  BY <1>2, WorkingKeeps, TypedChoosing DEF Turn
<1>. QED  BY <1>1, <1>2, TypedEnvironment, TypedManager, TypedRetry DEF Next

-----------------------------------------------------------------------------
(* The file of the state manager.                                          *)

\* Until there is a conversation in memory nobody writes the file, and what was
\* read of it is what it says.  Then, as long as no write failed, no two met and
\* nothing old was resumed, the only writer writes what is in memory.
Files ==
    /\ memory = None => /\ ~Writing
                        /\ \A i \in Starters : init[i] \in {"exists", "resume"} => saved[i] = file
    /\ ~split =>
           /\ \A i \in Starters : init[i] = "write" => saved[i] = memory
           /\ \A t \in Turns : pc[t] = "write" => op[t].fresh = memory
           /\ \A i, j \in Starters : init[i] = "write" /\ init[j] = "write" => i = j
           /\ \A t, u \in Turns : pc[t] = "write" /\ pc[u] = "write" => t = u
           /\ \A i \in Starters, t \in Turns : init[i] = "write" => pc[t] # "write"
    /\ FileFollowsMemory

LEMMA InitFiles == Init => Files
BY DEF Init, Started, Files, FileFollowsMemory, Writing

\* A turn that neither comes from the file nor goes there.
LEMMA FilesAside ==
    ASSUME Typed, Files, NEW t \in Turns, NEW o, NEW place, Moves(t, o, place),
           UNCHANGED <<manager, split>>, pc[t] # "write", place # "write"
    PROVE  Files'
<1>1. /\ pc'[t] = place /\ op'[t] = o
      /\ \A u \in Turns \ {t} : pc'[u] = pc[u] /\ op'[u] = op[u]
  BY TypedMove DEF Moves
<1>2. \A u \in Turns : pc'[u] = "write" <=> pc[u] = "write"
  BY <1>1
<1>3. \A u \in Turns : pc'[u] = "write" => op'[u] = op[u]
  BY <1>1, <1>2
<1>4. UNCHANGED <<file, memory, init, saved>>
  BY DEF manager
<1>. QED  BY <1>1, <1>2, <1>3, <1>4 DEF Files, FileFollowsMemory, Writing

LEMMA FilesEnvironment ==
    ASSUME Typed, Files, DeleteConversation \/ Restart \/ RetryInit
    PROVE  Files'
<1>1. CASE DeleteConversation
  BY <1>1 DEF DeleteConversation, manager, Files, FileFollowsMemory, Writing
<1>2. CASE Restart
  BY <1>2 DEF Restart, Started, Files, FileFollowsMemory, Writing
<1>3. CASE RetryInit
  <2>1. "retry" \in Starters /\ "read" \in Steps /\ InitGoto("retry", "read", None)
    BY <1>3 DEF RetryInit, Starters, Steps
  <2>2. /\ init'["retry"] = "read" /\ init["retry"] # "write"
        /\ \A j \in Starters \ {"retry"} : init'[j] = init[j] /\ saved'[j] = saved[j]
    BY <1>3, <2>1, TypedGoto DEF RetryInit
  <2>3. UNCHANGED <<file, memory, pc, op, split>>
    BY <1>3 DEF RetryInit, history
  <2>4. Writing' <=> Writing
    BY <2>1, <2>2, <2>3 DEF Writing
  <2>. QED  BY <2>1, <2>2, <2>3, <2>4 DEF Files, FileFollowsMemory
<1>. QED  BY <1>1, <1>2, <1>3

LEMMA FilesManager ==
    ASSUME Typed, Files, NEW i \in Starters,
           \/ ReadFile(i) \/ FindSaved(i) \/ Resume(i)
           \/ InitCreate(i) \/ InitWrite(i) \/ InitFails(i)
    PROVE  Files'
<1>1. PICK place, conv : InitMoves(i, place, conv)
  BY StarterMoves
<1>2. /\ init'[i] = place /\ saved'[i] = conv
      /\ \A j \in Starters \ {i} : init'[j] = init[j] /\ saved'[j] = saved[j]
  BY <1>1, TypedGoto DEF InitMoves
<1>3. UNCHANGED <<pc, op>>
  BY DEF ReadFile, FindSaved, Resume, InitCreate, InitWrite, InitFails
<1>4. CASE ReadFile(i) \/ FindSaved(i) \/ InitFails(i)
  <2>1. /\ init[i] # "write" /\ place \in {"exists", "resume", "create", "ended"}
        /\ UNCHANGED <<file, memory, split>>
    BY <1>2, <1>4 DEF ReadFile, FindSaved, InitFails, InitGoto, history, Typed
  <2>2. Writing' <=> Writing
    BY <1>2, <1>3, <2>1 DEF Writing
  <2>3. memory = None /\ place \in {"exists", "resume"} => conv = file
    <3>1. CASE ReadFile(i)
      <4>1. ~Writing => InitGoto(i, IF file = None THEN "create" ELSE "exists", file)
        BY <3>1 DEF ReadFile
      <4>2. ~Writing => saved'[i] = file
        BY <4>1 DEF InitGoto, Typed
      <4>. QED  BY <1>2, <4>2 DEF Files
    <3>2. CASE FindSaved(i)
      <4>1. /\ init[i] = "exists"
            /\ place = "resume" => saved'[i] = saved[i]
            /\ place # "exists"
        BY <1>2, <3>2 DEF FindSaved, InitGoto, Typed
      <4>. QED  BY <1>2, <4>1 DEF Files
    <3>3. CASE InitFails(i)
      BY <1>2, <3>3 DEF InitFails, InitGoto, Typed
    <3>. QED  BY <1>4, <3>1, <3>2, <3>3
  <2>. QED  BY <1>2, <1>3, <2>1, <2>2, <2>3 DEF Files, FileFollowsMemory
<1>5. CASE Resume(i)
  <2>1. /\ init[i] = "resume" /\ saved[i] # None /\ init'[i] = "ended"
        /\ memory' = saved[i] /\ UNCHANGED file
        /\ split' = (split \/ memory \notin {None, saved[i]})
    BY <1>5, ImperatorAssumption DEF Resume, InitGoto, Typed
  <2>2. Writing' <=> Writing
    BY <1>2, <1>3, <2>1 DEF Writing
  <2>3. ~split' => \/ memory = None /\ memory' = file /\ ~Writing
                   \/ memory' = memory
    BY <2>1 DEF Files
  <2>4. ~Writing => /\ \A j \in Starters : init[j] # "write"
                    /\ \A t \in Turns : pc[t] # "write"
    BY DEF Writing
  <2>5. memory' # None
    BY <2>1
  <2>6. ~split' => FileFollowsMemory'
    BY <2>1, <2>2, <2>3 DEF Files, FileFollowsMemory
  <2>. QED  BY <1>2, <1>3, <2>1, <2>2, <2>3, <2>4, <2>5, <2>6 DEF Files, FileFollowsMemory
<1>6. CASE InitCreate(i)
  <2>1. /\ init[i] = "create" /\ init'[i] = "write" /\ memory' = made + 1
        /\ saved'[i] = made + 1 /\ made + 1 \in Convs
        /\ split' = (split \/ Writing)
    BY <1>6, FreshIsConv DEF InitCreate, InitGoto, Typed
  <2>2. ~split' => ~Writing
    BY <2>1
  <2>3. Writing'
    BY <2>1 DEF Writing
  <2>4. memory' # None
    BY <2>1, ImperatorAssumption
  <2>5. ~split' => /\ \A j \in Starters \ {i} : init'[j] # "write"
                   /\ \A t \in Turns : pc'[t] # "write"
    BY <1>2, <1>3, <2>2 DEF Writing
  <2>. QED  BY <2>1, <2>3, <2>4, <2>5 DEF Files, FileFollowsMemory
<1>7. CASE InitWrite(i)
  <2>1. /\ init[i] = "write" /\ init'[i] = "ended" /\ UNCHANGED memory
        /\ split' = TRUE \/ (file' = saved[i] /\ split' = split)
    BY <1>7 DEF InitWrite, Write, InitGoto, Typed
  <2>2. memory' # None
    BY <2>1 DEF Files, Writing
  <2>3. ~split' => /\ file' = memory'
                   /\ \A j \in Starters : init'[j] # "write"
                   /\ \A t \in Turns : pc'[t] # "write"
    BY <1>2, <1>3, <2>1 DEF Files
  <2>. QED  BY <2>2, <2>3 DEF Files, FileFollowsMemory
<1>. QED  BY <1>4, <1>5, <1>6, <1>7

LEMMA FilesTurn ==
    ASSUME Typed, Files, NEW t \in Turns, Begin(t) \/ Turn(t) \/ Disconnect(t)
    PROVE  Files'
<1>1. op \in [Turns -> Op] /\ pc \in [Turns -> Places]
  BY DEF Typed
<1>2. CASE Begin(t) \/ CheckExists(t) \/ ManagerFails(t) \/ Disconnect(t)
  <2>1. PICK o, place : Moves(t, o, place)
    BY <1>2, ChoosingMoves
  <2>2. pc'[t] = place
    BY <2>1, TypedMove DEF Moves
  <2>3. UNCHANGED <<manager, split>> /\ pc[t] # "write" /\ place # "write"
    BY <1>1, <1>2, <2>2 DEF Begin, CheckExists, ManagerFails, Disconnect, history, Goto,
       FirstNode
  <2>. QED  BY <2>1, <2>3, FilesAside
<1>3. CASE CreateReplacement(t)
  <2>1. /\ pc[t] = "create" /\ memory' = made + 1 /\ split' = (split \/ Writing)
        /\ UNCHANGED <<file, init, saved>>
        /\ op' = [op EXCEPT ![t].fresh = made + 1] /\ pc' = [pc EXCEPT ![t] = "write"]
    BY <1>3 DEF CreateReplacement, Goto
  <2>2. pc'[t] = "write" /\ op'[t].fresh = made + 1
    BY <1>1, <2>1 DEF Op
  <2>3. memory' # None
    BY <1>3, <2>1, FreshIsConv, ImperatorAssumption DEF CreateReplacement
  <2>4. ~split' => /\ \A i \in Starters : init'[i] # "write"
                   /\ \A u \in Turns \ {t} : pc'[u] # "write"
    BY <1>1, <2>1 DEF Writing
  <2>5. Writing'
    BY <2>2 DEF Writing
  <2>. QED  BY <2>1, <2>2, <2>3, <2>4, <2>5 DEF Files, FileFollowsMemory
<1>4. CASE WriteFile(t)
  <2>1. PICK place \in FirstNode : pc' = [pc EXCEPT ![t] = place]
    BY <1>4 DEF WriteFile, Goto
  <2>2. /\ pc[t] = "write" /\ UNCHANGED <<memory, init, saved>>
        /\ split' = TRUE \/ (file' = op[t].fresh /\ split' = split)
    BY <1>4 DEF WriteFile, Write
  <2>3. pc'[t] \in {"prompt", "llm"} /\ \A u \in Turns \ {t} : pc'[u] = pc[u] /\ op'[u] = op[u]
    BY <1>1, <1>4, <2>1 DEF FirstNode, WriteFile
  <2>4. memory' # None
    BY <2>2 DEF Files, Writing
  <2>5. ~split' => /\ file' = memory'
                   /\ \A i \in Starters : init'[i] # "write"
                   /\ \A u \in Turns : pc'[u] # "write"
    BY <2>2, <2>3 DEF Files
  <2>. QED  BY <2>4, <2>5 DEF Files, FileFollowsMemory
<1>5. CASE ~(CheckExists(t) \/ CreateReplacement(t) \/ WriteFile(t) \/ ManagerFails(t)) /\ Turn(t)
  BY <1>5, WorkingMoves, WorkingKeeps, FilesAside DEF Turn, WorkKeeps
<1>. QED  BY <1>2, <1>3, <1>4, <1>5

LEMMA FilesInvariant == Spec => [](Typed /\ Files)
<1>1. Typed /\ Files /\ [Next]_vars => Typed' /\ Files'
  <2>1. Typed /\ Files /\ UNCHANGED vars => Files'
    BY DEF vars, manager, history, Files, FileFollowsMemory, Writing
  <2>2. Typed /\ Files /\ Next => Files'
    BY FilesEnvironment, FilesManager, FilesTurn DEF Next
  <2>. QED  BY <2>1, <2>2, TypedStep
<1>. QED  BY <1>1, InitTyped, InitFiles, PTL DEF Spec

(* As long as no write of the state file failed, no two met and no late    *)
(* initialization went back to an older conversation, a restart finds in   *)
(* the file the conversation that was in memory.                           *)
THEOREM RestartResumes == Spec => []FileFollowsMemory
<1>1. Files => FileFollowsMemory
  BY DEF Files
<1>. QED  BY <1>1, FilesInvariant, PTL

-----------------------------------------------------------------------------
(* The messages.                                                           *)

Question(t) == [turn |-> t, by |-> "user"]
Reply(t) == [turn |-> t, by |-> "assistant"]

Has(s, e) == \E i \in DOMAIN s : s[i] = e
Once(s) == \A i, j \in DOMAIN s : s[i] = s[j] => i = j
Behind(s, gone) ==
    \A i \in DOMAIN s : s[i].by = "assistant" =>
        s[i].turn \in gone \/ \E j \in 1..(i - 1) : s[j] = Question(s[i].turn)

LEMMA AppendOne ==
    ASSUME NEW S, NEW s \in Seq(S), NEW e \in S
    PROVE  /\ \A x : Has(Append(s, e), x) <=> Has(s, x) \/ x = e
           /\ Once(s) /\ ~Has(s, e) => Once(Append(s, e))
<1>. DEFINE r == Append(s, e)
<1>1. /\ DOMAIN s = 1..Len(s) /\ Len(s) \in Nat /\ DOMAIN r = 1..(Len(s) + 1)
      /\ r[Len(s) + 1] = e /\ \A i \in 1..Len(s) : r[i] = s[i]
  OBVIOUS
<1>. HIDE DEF r
<1>2. \A i \in DOMAIN r : i \in DOMAIN s \/ i = Len(s) + 1
  BY <1>1
<1>3. \A i \in DOMAIN s : i \in DOMAIN r
  BY <1>1
<1>4. Len(s) + 1 \in DOMAIN r
  BY <1>1
<1>5. ASSUME NEW x PROVE Has(r, x) <=> Has(s, x) \/ x = e
  BY <1>1, <1>2, <1>3, <1>4 DEF Has
<1>6. ASSUME Once(s), ~Has(s, e) PROVE Once(r)
  BY <1>1, <1>2, <1>6 DEF Once, Has
<1>. QED  BY <1>5, <1>6 DEF r

LEMMA AppendBehind ==
    ASSUME NEW s \in Seq(Entry), NEW e \in Entry, NEW gone, Behind(s, gone),
           e.by = "assistant" => e.turn \in gone \/ Has(s, Question(e.turn))
    PROVE  Behind(Append(s, e), gone)
<1>. DEFINE r == Append(s, e)
<1>1. /\ DOMAIN s = 1..Len(s) /\ Len(s) \in Nat /\ DOMAIN r = 1..(Len(s) + 1)
      /\ r[Len(s) + 1] = e /\ \A i \in 1..Len(s) : r[i] = s[i]
  OBVIOUS
<1>. HIDE DEF r
<1>2. ASSUME NEW i \in DOMAIN r, r[i].by = "assistant", r[i].turn \notin gone
      PROVE  \E j \in 1..(i - 1) : r[j] = Question(r[i].turn)
  <2>1. CASE i \in 1..Len(s)
    <3>1. PICK j \in 1..(i - 1) : s[j] = Question(s[i].turn)
      BY <1>1, <1>2, <2>1 DEF Behind
    <3>2. r[j] = s[j] /\ r[i] = s[i]
      BY <1>1, <2>1
    <3>. QED  BY <3>1, <3>2
  <2>2. CASE i = Len(s) + 1
    <3>1. PICK j \in DOMAIN s : s[j] = Question(e.turn)
      BY <1>1, <1>2, <2>2 DEF Has
    <3>2. j \in 1..(i - 1) /\ r[j] = s[j]
      BY <1>1, <2>2
    <3>. QED  BY <1>1, <2>2, <3>1, <3>2
  <2>. QED  BY <1>1, <2>1, <2>2
<1>. QED  BY <1>2 DEF Behind, r

LEMMA BehindGrows ==
    ASSUME NEW s, NEW gone, NEW more, gone \subseteq more, Behind(s, gone)
    PROVE  Behind(s, more)
BY DEF Behind

\* What turn t, at place with state o, has stored in lg, if gone took nothing.
Stored(t, place, o, lg, gone) ==
    /\ place \in {"idle", "exists", "create", "write", "prompt", "window", "question"}
           => ~o.stored
    /\ place # "ended" => \A c \in Convs : ~Has(lg[c], Reply(t))
    /\ ~o.stored /\ place \notin {"storeAssistant", "ended"}
           => \A c \in Convs : ~Has(lg[c], Question(t))
    /\ o.stored \/ (place = "storeAssistant" /\ o.conv # None)
           => t \in gone \/ (o.conv \in Convs /\ Has(lg[o.conv], Question(t)))

Messages ==
    /\ \A c \in Convs : Once(log[c]) /\ Behind(log[c], lost)
    /\ \A t \in Turns : Stored(t, pc[t], op[t], log, lost)

LEMMA InitMessages == Init => Messages
BY DEF Init, Messages, Once, Behind, Stored, Has, NoOp

\* A turn that stores nothing.
LEMMA NothingStored ==
    ASSUME Typed, Messages, NEW t \in Turns, NEW o, NEW place, Moves(t, o, place),
           log' = log, lost \subseteq lost', Stored(t, place, o, log, lost')
    PROVE  Messages'
<1>1. /\ pc'[t] = place /\ op'[t] = o
      /\ \A u \in Turns \ {t} : pc'[u] = pc[u] /\ op'[u] = op[u]
  BY TypedMove DEF Moves
<1>2. \A u \in Turns \ {t} : Stored(u, pc[u], op[u], log, lost')
  BY DEF Messages, Stored
<1>3. \A c \in Convs : Once(log[c]) /\ Behind(log[c], lost')
  BY BehindGrows DEF Messages
<1>. QED  BY <1>1, <1>2, <1>3 DEF Messages

\* A turn that stores its question or its answer.
LEMMA OneStored ==
    ASSUME Typed, Messages, NEW t \in Turns, NEW o, NEW place, Moves(t, o, place),
           NEW c \in Convs, NEW who \in {"user", "assistant"}, Append1(c, t, who),
           lost' = lost,
           ~Has(log[c], [turn |-> t, by |-> who]),
           who = "assistant" => t \in lost \/ Has(log[c], Question(t)),
           Stored(t, place, o, log', lost)
    PROVE  Messages'
<1>. DEFINE e == [turn |-> t, by |-> who]
<1>1. /\ pc'[t] = place /\ op'[t] = o
      /\ \A u \in Turns \ {t} : pc'[u] = pc[u] /\ op'[u] = op[u]
  BY TypedMove DEF Moves
<1>2. e \in Entry /\ log[c] \in Seq(Entry) /\ e.turn = t /\ e.by = who
  BY DEF Entry, Typed
<1>3. /\ log'[c] = Append(log[c], e)
      /\ \A d \in Convs \ {c} : log'[d] = log[d]
  BY DEF Append1, Typed
<1>4. Once(log'[c]) /\ Behind(log'[c], lost)
  BY <1>2, <1>3, AppendOne, AppendBehind DEF Messages
<1>5. ASSUME NEW d \in Convs, NEW x, x # e PROVE Has(log'[d], x) <=> Has(log[d], x)
  <2>1. \A y : Has(Append(log[c], e), y) <=> Has(log[c], y) \/ y = e
    BY <1>2, AppendOne
  <2>. HIDE DEF e
  <2>. QED  BY <1>3, <1>5, <2>1
<1>6. ASSUME NEW u \in Turns \ {t} PROVE Stored(u, pc[u], op[u], log', lost)
  <2>1. Question(u) # e /\ Reply(u) # e
    BY DEF Question, Reply
  <2>2. \A d \in Convs : /\ Has(log'[d], Question(u)) <=> Has(log[d], Question(u))
                         /\ Has(log'[d], Reply(u)) <=> Has(log[d], Reply(u))
    BY <1>5, <2>1
  <2>3. Stored(u, pc[u], op[u], log, lost)
    BY DEF Messages
  <2>. QED  BY <2>2, <2>3 DEF Stored
<1>. QED  BY <1>1, <1>3, <1>4, <1>6 DEF Messages

LEMMA MessagesEnvironment ==
    ASSUME Typed, Messages, DeleteConversation \/ Restart
    PROVE  Messages'
<1>1. CASE DeleteConversation
  <2>1. PICK c \in Convs : /\ log' = [log EXCEPT ![c] = <<>>]
                           /\ lost' = lost \cup {log[c][i].turn : i \in DOMAIN log[c]}
    BY <1>1 DEF DeleteConversation, Typed
  <2>2. /\ log'[c] = <<>> /\ \A d \in Convs \ {c} : log'[d] = log[d]
        /\ UNCHANGED <<pc, op>> /\ lost \subseteq lost'
    BY <1>1, <2>1 DEF DeleteConversation, Typed
  <2>3. Once(<<>>) /\ Behind(<<>>, lost') /\ \A x : ~Has(<<>>, x)
    BY DEF Once, Behind, Has
  <2>4. \A d \in Convs : Once(log'[d]) /\ Behind(log'[d], lost')
    BY <2>2, <2>3, BehindGrows DEF Messages
  <2>5. ASSUME NEW t \in Turns PROVE Stored(t, pc[t], op[t], log', lost')
    <3>1. \A d \in Convs : \A x : Has(log'[d], x) => Has(log[d], x)
      BY <2>2, <2>3
    <3>2. Has(log[c], Question(t)) => t \in lost'
      BY <2>1 DEF Has, Question
    <3>3. \A d \in Convs \ {c} : Has(log[d], Question(t)) => Has(log'[d], Question(t))
      BY <2>2
    <3>4. Stored(t, pc[t], op[t], log, lost)
      BY DEF Messages
    <3>. QED  BY <2>2, <3>1, <3>2, <3>3, <3>4 DEF Stored
  <2>. QED  BY <2>2, <2>4, <2>5 DEF Messages
<1>2. CASE Restart
  <2>1. UNCHANGED <<log, lost>>
    BY <1>2 DEF Restart, db
  <2>2. ASSUME NEW t \in Turns PROVE Stored(t, pc'[t], NoOp, log, lost)
    <3>1. pc'[t] = "ended" \/ (pc'[t] = "idle" /\ pc[t] = "idle")
      BY <1>2 DEF Restart
    <3>2. Stored(t, pc[t], op[t], log, lost)
      BY DEF Messages
    <3>. QED  BY <3>1, <3>2 DEF Stored, NoOp
  <2>3. \A t \in Turns : op'[t] = NoOp
    BY <1>2 DEF Restart
  <2>. QED  BY <2>1, <2>2, <2>3 DEF Messages
<1>. QED  BY <1>1, <1>2

\* Steps that carry along what is stored, and store nothing more.
LEMMA MessagesCarried ==
    ASSUME Typed, Messages, NEW t \in Turns,
           \/ Begin(t) \/ CheckExists(t) \/ CreateReplacement(t) \/ WriteFile(t)
           \/ ManagerFails(t) \/ Disconnect(t)
           \/ LoadPrompt(t) \/ EnsureWindow(t) \/ ContextFails(t)
           \/ Enrich(t) \/ SkipEnrichment(t)
           \/ Respond(t) \/ CallTools(t) \/ RunTools(t) \/ ModelFails(t) \/ SkipStored(t)
    PROVE  Messages'
<1>1. PICK o, place : Moves(t, o, place)
  BY ChoosingMoves, WorkingMoves
<1>2. pc'[t] = place /\ op'[t] = o
  BY <1>1, TypedMove DEF Moves
<1>3. op \in [Turns -> Op] /\ op[t] \in Op /\ pc \in [Turns -> Places] /\ pc[t] \in Places
  BY DEF Typed
<1>4. Stored(t, pc[t], op[t], log, lost)
  BY DEF Messages
<1>5. log' = log /\ lost \subseteq lost'
  BY DEF Begin, CheckExists, CreateReplacement, CreateRow, WriteFile, ManagerFails, Disconnect,
     LoadPrompt, EnsureWindow, ContextFails, Enrich, SkipEnrichment, Respond, CallTools,
     RunTools, ModelFails, SkipStored, db, history
<1>6. SUFFICES Stored(t, pc'[t], op'[t], log, lost')
  BY <1>1, <1>2, <1>5, NothingStored
<1>7. CASE Begin(t) \/ CheckExists(t) \/ CreateReplacement(t) \/ WriteFile(t)
  <2>1. /\ pc[t] \in {"idle", "exists", "create", "write"}
        /\ pc'[t] \in {"exists", "create", "write", "prompt", "llm"}
        /\ op'[t].stored = op[t].stored
    BY <1>3, <1>7 DEF Begin, CheckExists, CreateReplacement, WriteFile, Goto, FirstNode, Op
  <2>. QED  BY <1>4, <2>1 DEF Stored
<1>8. CASE ManagerFails(t) \/ Disconnect(t)
  BY <1>3, <1>8 DEF ManagerFails, Disconnect, Goto, Stored, NoOp
<1>9. CASE ContextFails(t)
  BY <1>3, <1>4, <1>9 DEF ContextFails, Goto, Stored, Op
<1>10. CASE SkipStored(t)
  BY <1>3, <1>4, <1>5, <1>10 DEF SkipStored, Goto, Stored
<1>11. ASSUME pc[t] \notin {"storeAssistant", "ended"},
              pc'[t] \in {"window", "enrich", "llm", "question", "tool", "storeUser"},
              pc'[t] \in {"window", "question"} => pc[t] \in {"prompt", "window"},
              op'[t].stored = op[t].stored, op'[t].conv = op[t].conv
       PROVE  Stored(t, pc'[t], op'[t], log, lost')
  BY <1>4, <1>5, <1>11 DEF Stored
<1>12. CASE LoadPrompt(t)
  <2>1. op'[t].stored = op[t].stored /\ op'[t].conv = op[t].conv
    BY <1>3, <1>12 DEF LoadPrompt, Op
  <2>. QED  BY <1>3, <1>11, <1>12, <2>1 DEF LoadPrompt, Goto
<1>13. CASE EnsureWindow(t) \/ RunTools(t)
  BY <1>3, <1>11, <1>13 DEF EnsureWindow, RunTools, Goto
<1>14. CASE Enrich(t) \/ SkipEnrichment(t)
  <2>1. op'[t].stored = op[t].stored /\ op'[t].conv = op[t].conv
    BY <1>3, <1>14 DEF Enrich, SkipEnrichment, Op
  <2>. QED  BY <1>3, <1>11, <1>14, <2>1 DEF Enrich, SkipEnrichment, Goto
<1>15. ASSUME NEW text \in BOOLEAN, Leave(t, text), pc[t] = "llm"
       PROVE  Stored(t, pc'[t], op'[t], log, lost')
  <2>1. op'[t].stored = op[t].stored /\ op'[t].conv = op[t].conv
    BY <1>3, <1>15 DEF Leave, Op
  <2>. QED  BY <1>3, <1>11, <1>15, <2>1 DEF Leave, Goto
<1>16. CASE Respond(t) \/ ModelFails(t)
  BY <1>15, <1>16 DEF Respond, ModelFails
<1>17. CASE CallTools(t)
  <2>1. CASE op' = [op EXCEPT ![t].n = @ + 1] /\ Goto(t, "tool")
    <3>1. op'[t].stored = op[t].stored /\ op'[t].conv = op[t].conv
      BY <1>3, <2>1 DEF Op
    <3>. QED  BY <1>3, <1>11, <1>17, <2>1, <3>1 DEF CallTools, Goto
  <2>. QED  BY <1>15, <1>17, <2>1 DEF CallTools
<1>. QED  BY <1>7, <1>8, <1>9, <1>10, <1>12, <1>13, <1>14, <1>16, <1>17

\* The three places where a message is stored.
LEMMA MessagesStored ==
    ASSUME Typed, Messages, NEW t \in Turns,
           StoreQuestion(t) \/ StoreUser(t) \/ StoreAssistant(t)
    PROVE  Messages'
<1>1. PICK o, place : Moves(t, o, place)
  BY WorkingMoves
<1>2. pc'[t] = place /\ op'[t] = o
  BY <1>1, TypedMove DEF Moves
<1>3. op \in [Turns -> Op] /\ op[t] \in Op /\ pc \in [Turns -> Places]
      /\ convs \subseteq Convs
  BY DEF Typed
<1>4. Stored(t, pc[t], op[t], log, lost)
  BY DEF Messages
<1>5. \A c \in Convs, who \in {"user", "assistant"} :
          Append1(c, t, who) =>
              /\ Has(log'[c], [turn |-> t, by |-> who])
              /\ \A d \in Convs : \A x : Has(log'[d], x) => Has(log[d], x) \/ x = [turn |-> t, by |-> who]
  <2>1. SUFFICES ASSUME NEW c \in Convs, NEW who \in {"user", "assistant"}, Append1(c, t, who)
                 PROVE  /\ Has(log'[c], [turn |-> t, by |-> who])
                        /\ \A d \in Convs : \A x : Has(log'[d], x)
                               => Has(log[d], x) \/ x = [turn |-> t, by |-> who]
    OBVIOUS
  <2>. DEFINE e == [turn |-> t, by |-> who]
  <2>2. e \in Entry /\ log[c] \in Seq(Entry)
    BY DEF Entry, Typed
  <2>3. \A y : Has(Append(log[c], e), y) <=> Has(log[c], y) \/ y = e
    BY <2>2, AppendOne
  <2>4. log'[c] = Append(log[c], e) /\ \A d \in Convs \ {c} : log'[d] = log[d]
    BY <2>1 DEF Append1, Typed
  <2>. HIDE DEF e
  <2>5. /\ Has(log'[c], e)
        /\ \A d \in Convs : \A x : Has(log'[d], x) => Has(log[d], x) \/ x = e
    BY <2>3, <2>4
  <2>. QED  BY <2>5 DEF e
<1>6. CASE (StoreQuestion(t) \/ StoreUser(t)) /\ op[t].conv \in convs
           /\ Append1(op[t].conv, t, "user") /\ lost' = lost
  <2>1. /\ pc[t] \in {"question", "storeUser"} /\ ~op[t].stored
        /\ place \in {"enrich", "storeAssistant"} /\ o.conv = op[t].conv
    BY <1>2, <1>3, <1>4, <1>6 DEF StoreQuestion, StoreUser, Goto, Op, Stored
  <2>2. \A c \in Convs : ~Has(log[c], Question(t)) /\ ~Has(log[c], Reply(t))
    BY <1>4, <2>1 DEF Stored
  <2>3. Question(t) # Reply(t)
    BY DEF Question, Reply
  <2>4. /\ Has(log'[o.conv], Question(t)) /\ o.conv \in Convs
        /\ \A c \in Convs : ~Has(log'[c], Reply(t))
    BY <1>3, <1>5, <1>6, <2>1, <2>2, <2>3 DEF Question
  <2>5. place = "enrich" => o.stored
    BY <1>2, <1>3, <1>6, <2>1 DEF StoreQuestion, StoreUser, Goto, Op
  <2>6. Stored(t, place, o, log', lost)
    BY <2>1, <2>4, <2>5 DEF Stored
  <2>. QED  BY <1>1, <1>3, <1>6, <2>2, <2>6, OneStored DEF Question
<1>7. CASE StoreUser(t) /\ log' = log /\ lost' = lost \cup {t}
  <2>1. pc[t] = "storeUser" /\ place = "storeAssistant" /\ o = op[t]
    BY <1>2, <1>3, <1>7 DEF StoreUser, Goto
  <2>2. Stored(t, place, o, log, lost')
    BY <1>4, <1>7, <2>1 DEF Stored
  <2>. QED  BY <1>1, <1>7, <2>2, NothingStored
<1>8. CASE StoreAssistant(t)
  <2>1. /\ pc[t] = "storeAssistant" /\ place = "ended" /\ o = NoOp /\ lost' = lost
    BY <1>2, <1>3, <1>8 DEF StoreAssistant, Goto, history
  <2>2. \A lg : Stored(t, place, o, lg, lost)
    BY <2>1 DEF Stored, NoOp
  <2>3. CASE op[t].conv \in convs /\ Append1(op[t].conv, t, "assistant")
    <3>1. op[t].conv \in Convs /\ op[t].conv # None
      BY <1>3, <2>3, ImperatorAssumption
    <3>2. ~Has(log[op[t].conv], Reply(t)) /\ (t \in lost \/ Has(log[op[t].conv], Question(t)))
      BY <1>4, <2>1, <3>1 DEF Stored
    <3>. QED  BY <1>1, <2>1, <2>2, <2>3, <3>1, <3>2, OneStored DEF Reply
  <2>4. CASE log' = log
    BY <1>1, <2>1, <2>2, <2>4, NothingStored
  <2>. QED  BY <1>8, <2>3, <2>4 DEF StoreAssistant
<1>9. CASE StoreQuestion(t)
  BY <1>6, <1>9 DEF StoreQuestion, history
<1>. QED  BY <1>6, <1>7, <1>8, <1>9 DEF StoreUser

LEMMA MessagesInvariant == Spec => [](Typed /\ Messages)
<1>1. Typed /\ Messages /\ [Next]_vars => Typed' /\ Messages'
  <2>. SUFFICES ASSUME Typed, Messages, [Next]_vars PROVE Messages'
    BY TypedStep
  <2>1. CASE UNCHANGED vars
    BY <2>1 DEF vars, db, history, Messages
  <2>4. ASSUME UNCHANGED <<log, pc, op, lost>> PROVE Messages'
    BY <2>4 DEF Messages
  <2>5. CASE RetryInit
    BY <2>4, <2>5 DEF RetryInit, db, history
  <2>2. ASSUME NEW i \in Starters,
               \/ ReadFile(i) \/ FindSaved(i) \/ Resume(i)
               \/ InitCreate(i) \/ InitWrite(i) \/ InitFails(i)
        PROVE  Messages'
    BY <2>2, <2>4 DEF ReadFile, FindSaved, Resume, InitCreate, InitWrite, InitFails,
       CreateRow, db, history
  <2>3. ASSUME NEW t \in Turns, Begin(t) \/ Turn(t) \/ Disconnect(t) PROVE Messages'
    BY <2>3, MessagesCarried, MessagesStored DEF Turn
  <2>. QED  BY <2>1, <2>2, <2>3, <2>5, MessagesEnvironment DEF Next
<1>. QED  BY <1>1, InitTyped, InitMessages, PTL DEF Spec

(* However the question reaches the conversation, through get_context or   *)
(* through store_user_message, and whatever fails on the way, it is there  *)
(* once, and so is the answer.                                             *)
THEOREM NothingTwice == Spec => []StoredOnce
<1>1. Messages => StoredOnce
  BY DEF Messages, Once, StoredOnce
<1>. QED  BY <1>1, MessagesInvariant, PTL

(* An answer stands behind its question, unless a failure kept the         *)
(* question out or a deletion took it away.                                *)
THEOREM AnswersFollow == Spec => []QuestionBeforeAnswer
<1>1. Messages => QuestionBeforeAnswer
  BY DEF Messages, Behind, Question, QuestionBeforeAnswer
<1>. QED  BY <1>1, MessagesInvariant, PTL
=============================================================================
