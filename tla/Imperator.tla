------------------------------ MODULE Imperator -----------------------------
(***************************************************************************)
(* The Imperator: the state manager that keeps one conversation for it in  *)
(* memory and in a file, and the turns of chat requests, which fetch the   *)
(* context (storing the question on the way), enrich it, run the model and *)
(* its tools, and store the answer.  Turns, the initialization, which the  *)
(* retry task may start again beside it and them, and deletions interleave *)
(* at every await; the process may restart, clients may go away.           *)
(***************************************************************************)
EXTENDS Naturals, Sequences, FiniteSets

CONSTANTS
    Turns,          \* chat requests
    None,
    MaxConvs,       \* bound: conversations ever created
    MaxSteps,       \* imperator_max_iterations
    MaxSearches,    \* max_iterations of the enrichment
    MaxRestarts,    \* bound
    MaxActors       \* bound: turns that have begun and the retry task, if it has

Convs == 1..MaxConvs

ASSUME ImperatorAssumption ==
    /\ {MaxConvs, MaxSteps, MaxSearches, MaxRestarts, MaxActors} \subseteq Nat
    /\ None \notin Convs

VARIABLES
    convs,      \* ids of the rows of conversations
    made,       \* how many were created
    log,        \* conversation_messages: who stored what, in order
    file,       \* imperator_state.json
    memory,     \* ImperatorStateManager._conversation_id
    init,       \* where each initialize awaits: the lifespan's, the retry task's
    saved,      \* what each has read or created
    ready,      \* app.state.imperator_initialized
    pc,         \* where each turn awaits
    op,         \* its state in the graph
    lost,       \* history: turns whose question a failure or a deletion took away
    split,      \* history: a write failed, two writers met, or an initialization
                \* resumed its conversation over another
    restarts

db == <<convs, made, log>>
manager == <<file, memory, init, saved, ready>>
history == <<lost, split>>
vars == <<db, manager, pc, op, history, restarts>>

Starters == {"lifespan", "retry"}
Entry == [turn : Turns, by : {"user", "assistant"}]
NoOp == [conv |-> None, fresh |-> None, stored |-> FALSE, error |-> FALSE,
         n |-> 0, text |-> FALSE]

Started == [i \in Starters |-> IF i = "lifespan" THEN "read" ELSE "idle"]

Init ==
    /\ convs = {} /\ made = 0
    /\ log = [c \in Convs |-> <<>>]
    /\ file = None /\ memory = None
    /\ init = Started /\ saved = [i \in Starters |-> None] /\ ready = FALSE
    /\ pc = [t \in Turns |-> "idle"]
    /\ op = [t \in Turns |-> NoOp]
    /\ lost = {} /\ split = FALSE
    /\ restarts = 0

Room ==
    Cardinality({t \in Turns : pc[t] # "idle"}) + (IF init["retry"] = "idle" THEN 0 ELSE 1)
        < MaxActors

Goto(t, place) == pc' = [pc EXCEPT ![t] = place]

-----------------------------------------------------------------------------
(* Environment.                                                            *)

\* conv_delete_conversation, in one transaction.
DeleteConversation ==
    /\ \E c \in convs :
           /\ convs' = convs \ {c}
           /\ log' = [log EXCEPT ![c] = <<>>]
           /\ lost' = lost \cup {log[c][i].turn : i \in DOMAIN log[c]}
    /\ UNCHANGED <<made, manager, pc, op, split, restarts>>

Writing == (\E i \in Starters : init[i] = "write") \/ \E t \in Turns : pc[t] = "write"

\* The file is truncated before it is written.
Restart ==
    /\ restarts < MaxRestarts
    /\ restarts' = restarts + 1
    /\ memory' = None /\ init' = Started /\ saved' = [i \in Starters |-> None]
    /\ ready' = FALSE
    /\ pc' = [t \in Turns |-> IF pc[t] = "idle" THEN "idle" ELSE "ended"]
    /\ op' = [t \in Turns |-> NoOp]
    /\ split' = FALSE
    /\ file' \in {file} \cup (IF Writing THEN {None} ELSE {})
    /\ UNCHANGED <<db, lost>>

\* The reader of a streamed answer disconnects; the stream starts when the
\* conversation has been chosen.
Disconnect(t) ==
    /\ pc[t] \notin {"idle", "exists", "create", "write", "ended"}
    /\ Goto(t, "ended")
    /\ op' = [op EXCEPT ![t] = NoOp]
    /\ UNCHANGED <<db, manager, history, restarts>>

-----------------------------------------------------------------------------
(* ImperatorStateManager.                                                  *)

CreateRow(c) == made' = c /\ convs' = convs \cup {c} /\ UNCHANGED log

InitGoto(i, place, conv) ==
    init' = [init EXCEPT ![i] = place] /\ saved' = [saved EXCEPT ![i] = conv]

\* The retry task calls initialize on the same manager, as long as no call has
\* succeeded; the lifespan's own may still be under way.  That the task gives up
\* after a failure or two is left out: a call that fails leaves nothing behind.
RetryInit ==
    /\ (init["retry"] = "idle" /\ Room) \/ init["retry"] = "ended"
    /\ ~ready
    /\ InitGoto("retry", "read", None)
    /\ UNCHANGED <<db, file, memory, ready, pc, op, history, restarts>>

\* A thread reads the file; one that is being written may be empty.
ReadFile(i) ==
    /\ init[i] = "read"
    /\ \E c \in {file} \cup (IF Writing THEN {None} ELSE {}) :
           InitGoto(i, IF c = None THEN "create" ELSE "exists", c)
    /\ UNCHANGED <<db, file, memory, ready, pc, op, history, restarts>>

FindSaved(i) ==
    /\ init[i] = "exists"
    /\ IF saved[i] \in convs THEN InitGoto(i, "resume", saved[i])
                             ELSE InitGoto(i, "create", None)
    /\ UNCHANGED <<db, file, memory, ready, pc, op, history, restarts>>

\* The row was there, and the connection has gone back to its pool.
Resume(i) ==
    /\ init[i] = "resume"
    /\ memory' = saved[i]
    /\ split' = (split \/ memory \notin {None, saved[i]})
    /\ ready' = TRUE
    /\ InitGoto(i, "ended", None)
    /\ UNCHANGED <<db, file, pc, op, lost, restarts>>

InitCreate(i) ==
    /\ init[i] = "create"
    /\ made < MaxConvs
    /\ CreateRow(made + 1)
    /\ memory' = made + 1
    /\ split' = (split \/ Writing)
    /\ InitGoto(i, "write", made + 1)
    /\ UNCHANGED <<file, ready, pc, op, lost, restarts>>

\* OSError is logged, and the conversation lasts until the next restart; the
\* file may have been truncated.
Write(c) ==
    \/ file' = c /\ UNCHANGED split
    \/ file' \in {file, None} /\ split' = TRUE

InitWrite(i) ==
    /\ init[i] = "write"
    /\ Write(saved[i])
    /\ ready' = TRUE
    /\ InitGoto(i, "ended", None)
    /\ UNCHANGED <<db, memory, pc, op, lost, restarts>>

\* PostgreSQL fails: the Imperator goes on with the conversation it has, if any,
\* and the retry task may try again.
InitFails(i) ==
    /\ init[i] \in {"exists", "create"}
    /\ InitGoto(i, "ended", None)
    /\ UNCHANGED <<db, file, memory, ready, pc, op, history, restarts>>

-----------------------------------------------------------------------------
(* chat_completions.                                                       *)

\* A client that brings the identity prompt skips init_context_node.
FirstNode == {"prompt", "llm"}

\* Requests are served when the lifespan's initialize has ended, well or not.  A
\* client may name a conversation, also one that is gone; others use the one in
\* memory, if there is one.
Begin(t) ==
    /\ pc[t] = "idle" /\ Room
    /\ init["lifespan"] = "ended"
    /\ \/ /\ memory # None
          /\ op' = [op EXCEPT ![t].fresh = memory]
          /\ Goto(t, "exists")
       \/ \E c \in 1..made \cup ({memory} \cap {None}), place \in FirstNode :
              /\ op' = [op EXCEPT ![t].conv = c]
              /\ Goto(t, place)
    /\ UNCHANGED <<db, manager, history, restarts>>

\* The row of the conversation that was in memory before the await; what is
\* returned is the one in memory after it.
CheckExists(t) ==
    /\ pc[t] = "exists"
    /\ IF op[t].fresh \in convs
       THEN /\ op' = [op EXCEPT ![t].conv = memory, ![t].fresh = None]
            /\ \E place \in FirstNode : Goto(t, place)
       ELSE op' = op /\ Goto(t, "create")
    /\ UNCHANGED <<db, manager, history, restarts>>

\* Of two turns that find the conversation gone each creates one, and so do a
\* turn and an initialization.
CreateReplacement(t) ==
    /\ pc[t] = "create"
    /\ made < MaxConvs
    /\ CreateRow(made + 1)
    /\ memory' = made + 1
    /\ op' = [op EXCEPT ![t].fresh = made + 1]
    /\ split' = (split \/ Writing)
    /\ Goto(t, "write")
    /\ UNCHANGED <<file, init, saved, ready, lost, restarts>>

\* Mutant: a replacement is kept in memory only.
WriteNothing(t) ==
    /\ pc[t] = "write"
    /\ op' = [op EXCEPT ![t].conv = memory, ![t].fresh = None]
    /\ \E place \in FirstNode : Goto(t, place)
    /\ UNCHANGED <<db, manager, history, restarts>>

WriteFile(t) ==
    /\ pc[t] = "write"
    /\ Write(op[t].fresh)
    /\ op' = [op EXCEPT ![t].conv = memory, ![t].fresh = None]
    /\ \E place \in FirstNode : Goto(t, place)
    /\ UNCHANGED <<db, memory, init, saved, ready, lost, restarts>>

\* A failing statement of the manager is answered with 500.
ManagerFails(t) ==
    /\ pc[t] \in {"exists", "create"}
    /\ Goto(t, "ended")
    /\ op' = [op EXCEPT ![t] = NoOp]
    /\ UNCHANGED <<db, manager, history, restarts>>

-----------------------------------------------------------------------------
(* init_context_node and the get_context it dispatches.                    *)

\* Without its prompt the node reports an error, but its edge leads on.
LoadPrompt(t) ==
    /\ pc[t] = "prompt"
    /\ \/ op' = op /\ Goto(t, IF op[t].conv = None THEN "llm" ELSE "window")
       \/ op' = [op EXCEPT ![t].error = TRUE] /\ Goto(t, "llm")
    /\ UNCHANGED <<db, manager, history, restarts>>

\* The window of a conversation that is gone is gone with it; both are
\* created anew.
EnsureWindow(t) ==
    /\ pc[t] = "window"
    /\ convs' = convs \cup {op[t].conv}
    /\ Goto(t, "question")
    /\ UNCHANGED <<made, log, manager, op, history, restarts>>

Append1(c, t, who) == log' = [log EXCEPT ![c] = Append(@, [turn |-> t, by |-> who])]

\* The question is stored before the context is retrieved.  The questions of
\* the turns differ; a repeated one would be counted, not stored.
StoreQuestion(t) ==
    /\ pc[t] = "question"
    /\ op[t].conv \in convs
    /\ Append1(op[t].conv, t, "user")
    /\ op' = [op EXCEPT ![t].stored = TRUE]
    /\ Goto(t, "enrich")
    /\ UNCHANGED <<convs, made, manager, history, restarts>>

\* A deleted conversation, a failed statement, a window that could not be
\* found: the node goes on, with what context it has, and marks the question
\* as stored all the same.
ContextFails(t) ==
    /\ pc[t] \in {"window", "question"}
    /\ op' = [op EXCEPT ![t].stored = TRUE]
    /\ lost' = lost \cup {t}
    /\ Goto(t, "enrich")
    /\ UNCHANGED <<db, manager, split, restarts>>

-----------------------------------------------------------------------------
(* ceac_enrichment_node: decide_search, execute_search, evaluate_and_rank, *)
(* _should_iterate, assemble_context.  None of it writes.                  *)

\* The first query is the question; later ones come from the model, which
\* may say DONE or fail, and DONE ends the search.
Enrich(t) ==
    /\ pc[t] = "enrich"
    /\ \E query \in {TRUE, op[t].n = 0} :
           LET again == query /\ op[t].n + 1 < MaxSearches
           IN  /\ op' = [op EXCEPT ![t].n = IF again THEN @ + 1 ELSE 0]
               /\ Goto(t, IF again THEN "enrich" ELSE "llm")
    /\ UNCHANGED <<db, manager, history, restarts>>

\* It is disabled, or there was nothing to enrich, or it failed.
SkipEnrichment(t) ==
    /\ pc[t] = "enrich"
    /\ op' = [op EXCEPT ![t].n = 0]
    /\ Goto(t, "llm")
    /\ UNCHANGED <<db, manager, history, restarts>>

-----------------------------------------------------------------------------
(* llm_call_node and the edges behind it.                                  *)

\* The graph leaves its loop with a text or without one.
Leave(t, text) ==
    /\ op' = [op EXCEPT ![t].text = text, ![t].n = 0, ![t].error = FALSE]
    /\ Goto(t, "storeUser")

\* A text, or none after all retries.  If an earlier error ends the turn of a
\* model that asks for tools, the text of that error is the answer.
Respond(t) ==
    /\ pc[t] = "llm"
    /\ \E text \in BOOLEAN : Leave(t, text)
    /\ UNCHANGED <<db, manager, history, restarts>>

\* Mutant: the number of iterations has no limit.
CallToolsForever(t) ==
    /\ pc[t] = "llm"
    /\ ~op[t].error
    /\ op' = op
    /\ Goto(t, "tool")
    /\ UNCHANGED <<db, manager, history, restarts>>

\* The text of max_iterations_fallback is an answer like another.
CallTools(t) ==
    /\ pc[t] = "llm"
    /\ ~op[t].error
    /\ IF op[t].n + 1 < MaxSteps
       THEN op' = [op EXCEPT ![t].n = @ + 1] /\ Goto(t, "tool")
       ELSE Leave(t, TRUE)
    /\ UNCHANGED <<db, manager, history, restarts>>

RunTools(t) ==
    /\ pc[t] = "tool"
    /\ Goto(t, "llm")
    /\ UNCHANGED <<db, manager, op, history, restarts>>

\* The text of the error is stored as the answer.
ModelFails(t) ==
    /\ pc[t] = "llm"
    /\ Leave(t, TRUE)
    /\ UNCHANGED <<db, manager, history, restarts>>

-----------------------------------------------------------------------------
(* store_user_message and store_assistant_message.                         *)

\* Mutant: the question is stored whether get_context did or not.
StoreUserAlways(t) ==
    /\ pc[t] = "storeUser"
    /\ \/ /\ op[t].conv \in convs
          /\ Append1(op[t].conv, t, "user")
          /\ UNCHANGED lost
       \/ lost' = lost \cup {t} /\ UNCHANGED log
    /\ Goto(t, "storeAssistant")
    /\ UNCHANGED <<convs, made, manager, op, split, restarts>>

\* Mutant: the question is left to get_context, which not every turn calls.
SkipAlways(t) ==
    /\ pc[t] = "storeUser"
    /\ Goto(t, "storeAssistant")
    /\ UNCHANGED <<db, manager, op, history, restarts>>

SkipStored(t) ==
    /\ pc[t] = "storeUser"
    /\ op[t].stored \/ op[t].conv = None
    /\ Goto(t, "storeAssistant")
    /\ UNCHANGED <<db, manager, op, history, restarts>>

StoreUser(t) ==
    /\ pc[t] = "storeUser"
    /\ ~op[t].stored
    /\ op[t].conv # None
    /\ \/ /\ op[t].conv \in convs
          /\ Append1(op[t].conv, t, "user")
          /\ UNCHANGED lost
       \/ lost' = lost \cup {t} /\ UNCHANGED log
    /\ Goto(t, "storeAssistant")
    /\ UNCHANGED <<convs, made, manager, op, split, restarts>>

\* An empty answer is replaced by a text that is not stored; a failure to
\* store is logged.
StoreAssistant(t) ==
    /\ pc[t] = "storeAssistant"
    /\ \/ /\ op[t].text
          /\ op[t].conv \in convs
          /\ Append1(op[t].conv, t, "assistant")
       \/ UNCHANGED log
    /\ Goto(t, "ended")
    /\ op' = [op EXCEPT ![t] = NoOp]
    /\ UNCHANGED <<convs, made, manager, history, restarts>>

-----------------------------------------------------------------------------
Turn(t) ==
    \/ CheckExists(t) \/ CreateReplacement(t) \/ WriteFile(t) \/ ManagerFails(t)
    \/ LoadPrompt(t) \/ EnsureWindow(t) \/ StoreQuestion(t) \/ ContextFails(t)
    \/ Enrich(t) \/ SkipEnrichment(t)
    \/ Respond(t) \/ CallTools(t) \/ RunTools(t) \/ ModelFails(t)
    \/ SkipStored(t) \/ StoreUser(t) \/ StoreAssistant(t)

Next ==
    \/ DeleteConversation \/ Restart
    \/ RetryInit
    \/ \E i \in Starters : \/ ReadFile(i) \/ FindSaved(i) \/ Resume(i)
                           \/ InitCreate(i) \/ InitWrite(i) \/ InitFails(i)
    \/ \E t \in Turns : Begin(t) \/ Turn(t) \/ Disconnect(t)

Spec == Init /\ [][Next]_vars

\* Every await of a turn ends: providers, tools and statements have timeouts.
FairSpec == Spec /\ \A t \in Turns : WF_vars(Turn(t))

-----------------------------------------------------------------------------
(* Properties.                                                             *)

TypeOK ==
    /\ convs \subseteq 1..made /\ made \in 0..MaxConvs
    /\ \A c \in Convs : log[c] \in Seq(Entry)
    /\ {file, memory} \subseteq Convs \cup {None}
    /\ init \in [Starters -> {"idle", "read", "exists", "resume", "create", "write", "ended"}]
    /\ saved \in [Starters -> Convs \cup {None}] /\ ready \in BOOLEAN
    /\ pc \in [Turns -> {"idle", "exists", "create", "write", "prompt", "window",
                         "question", "enrich", "llm", "tool",
                         "storeUser", "storeAssistant", "ended"}]
    /\ \A t \in Turns : op[t].conv \in Convs \cup {None} /\ op[t].n <= MaxSteps + MaxSearches

\* A conversation holds each question and each answer once, in whichever way
\* the question was stored.
StoredOnce ==
    \A c \in Convs : \A i, j \in DOMAIN log[c] : log[c][i] = log[c][j] => i = j

\* An answer stands behind its question, in the same conversation, but for a
\* question a failure kept out of it or a deletion took away.
QuestionBeforeAnswer ==
    \A c \in Convs : \A i \in DOMAIN log[c] :
        log[c][i].by = "assistant" =>
            \/ log[c][i].turn \in lost
            \/ \E j \in 1..(i - 1) : log[c][j] = [turn |-> log[c][i].turn, by |-> "user"]

\* The conversation in memory is the one the file names, so that a restart
\* resumes it, however the two initializations, the turns that replace a deleted
\* conversation and restarts fall: when nobody is about to write the file, unless
\* a write failed, one was created while another was being written, or an
\* initialization resumed what it had read after another had taken its place.
FileFollowsMemory == Writing \/ split \/ memory \in {None, file}

\* Whatever the model asks for, the providers refuse and others delete, each
\* request that began is answered.
TurnsReturn == \A t \in Turns : pc[t] # "idle" ~> pc[t] = "ended"
=============================================================================
