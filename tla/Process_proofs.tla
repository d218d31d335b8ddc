--------------------------- MODULE Process_proofs ---------------------------
(***************************************************************************)
(* Proofs about one process of the broker: its Mem0 clients and the        *)
(* configuration cache they read, how it comes up, the sessions it serves  *)
(* and the embedding worker it runs.  The four share no state: each part   *)
(* of this module is about the specification of one of them.               *)
(***************************************************************************)
EXTENDS MemoryClients, Startup, McpSessions, EmbeddingWorker, SetLemmas

-----------------------------------------------------------------------------
(* The Mem0 clients and the configuration cache, for any number of         *)
(* operations, config_write calls, changes and resets.  The cache needs no *)
(* lock to be right: the modification time is taken before the text is     *)
(* read, so a text that is older than the file carries a time that is      *)
(* older than the file's.                                                  *)

Processes == Loads \cup Writers
Steps == {"idle", "read", "apply", "client", "wrapper", "mem0", "build",
          "truncate", "dump", "invalidate"}
MaybeText == Texts \cup {NoText}

Types ==
    /\ file \in MaybeText
    /\ mtime \in Nat /\ now = mtime
    /\ changes \in Nat
    /\ cache \in [text : MaybeText, time : Nat, hash : MaybeText]
    /\ pc \in [Processes -> Steps]
    /\ seen \in [Processes -> [time : Nat, text : MaybeText]]

\* Nothing carries a time from the future.
TimesPassed == cache.time <= mtime /\ \A l \in Loads : seen[l].time <= mtime

\* What carries the file's own time holds the file's own text.
TimeTells ==
    /\ cache.text # NoText /\ cache.time = mtime => cache.text = file
    /\ \A l \in Loads : pc[l] = "apply" /\ seen[l].time = mtime => seen[l].text = file

Fresh == Types /\ TimesPassed /\ TimeTells

-----------------------------------------------------------------------------
LEMMA TypesInit == MInit => Types /\ TimesPassed /\ TimeTells
<1>. SUFFICES ASSUME MInit PROVE Types /\ TimesPassed /\ TimeTells
  OBVIOUS
<1>1. file \in Texts
  BY DEF MInit, Init, Texts
<1>2. /\ cache = [text |-> NoText, time |-> 0, hash |-> NoText]
      /\ seen = [p \in Processes |-> [time |-> 0, text |-> NoText]]
      /\ pc = [p \in Processes |-> "idle"]
      /\ mtime = 1 /\ now = 1 /\ changes = 0
  BY DEF MInit, Init, Empty, NothingSeen, Processes
<1>3. Types
  BY <1>1, <1>2 DEF Types, MaybeText, Steps
<1>4. TimesPassed /\ TimeTells
  BY <1>2 DEF TimesPassed, TimeTells, Processes
<1>. QED  BY <1>3, <1>4

(* A change of the file under a fine clock leaves every older time behind. *)
LEMMA TouchKeeps ==
    ASSUME Fresh, FineClock, NEW text \in MaybeText, Touch(text),
           UNCHANGED <<cache, seen>>, changes' \in Nat,
           NEW w \in Processes, NEW step \in Steps,
           pc' = pc \/ (step # "apply" /\ pc' = [pc EXCEPT ![w] = step])
    PROVE  Fresh'
<1>1. file' = text /\ now' = mtime + 1 /\ mtime' = mtime + 1
  BY DEF Fresh, Types, Touch
<1>2. Types'
  BY <1>1 DEF Fresh, Types
<1>3. cache.time < mtime' /\ \A l \in Loads : seen[l].time < mtime'
  BY <1>1 DEF Fresh, Types, TimesPassed, Processes
<1>4. TimesPassed'
  BY <1>1, <1>3 DEF Fresh, Types, TimesPassed, Processes
<1>5. TimeTells'
  BY <1>1, <1>3 DEF TimeTells, Fresh, Types, Processes
<1>. QED  BY <1>2, <1>4, <1>5 DEF Fresh

(* An operation that reaches for Mem0 changes nothing of the configuration *)
(* and forgets what it loaded when it returns.                             *)
LEMMA RememberForgets ==
    ASSUME NEW l \in Loads, Remember(l)
    PROVE  /\ UNCHANGED <<file, mtime, now, changes, cache, clients>>
           /\ \E step \in {"idle", "wrapper", "mem0", "build"} :
                  pc' = [pc EXCEPT ![l] = step]
           /\ seen' = seen \/ seen' = [seen EXCEPT ![l] = NothingSeen]
<1>1. CASE AskMemory(l)
  BY <1>1 DEF AskMemory, GetMem0, Return, Goto, config
<1>2. CASE AskWrapper(l)
  BY <1>2 DEF AskWrapper, GetWrapper, GetMem0, Return, Goto, config
<1>3. CASE WaitForWrapper(l)
  BY <1>3 DEF WaitForWrapper, Goto, config
<1>4. CASE WrapperLockPasses(l)
  BY <1>4 DEF WrapperLockPasses, GetWrapper, GetMem0, Return, Goto, config
<1>5. CASE Mem0LockPasses(l)
  BY <1>5 DEF Mem0LockPasses, Return, Goto, config
<1>6. CASE BuildClient(l)
  BY <1>6 DEF BuildClient, Return, Goto, config
<1>7. CASE BuildFails(l)
  BY <1>7 DEF BuildFails, Return, Goto, config
<1>8. CASE BuildEscapes(l)
  BY <1>8 DEF BuildEscapes, Goto, config
<1>. QED  BY <1>1, <1>2, <1>3, <1>4, <1>5, <1>6, <1>7, <1>8 DEF Remember

-----------------------------------------------------------------------------
(* The file changes.                                                       *)
LEMMA EditKeeps == ASSUME Fresh, FineClock, EditFile PROVE Fresh'
<1>1. PICK s \in Settings : Touch([file EXCEPT ![s] = changes + 1])
  BY DEF EditFile
<1>2. [file EXCEPT ![s] = changes + 1] \in MaybeText
  BY DEF EditFile, Fresh, Types, MaybeText, Texts
<1>3. changes' \in Nat
  BY DEF EditFile, Fresh, Types
<1>4. CASE Processes = {}
  <2>1. file' = [file EXCEPT ![s] = changes + 1] /\ now' = mtime + 1 /\ mtime' = mtime + 1
    BY <1>1 DEF Fresh, Types, Touch
  <2>2. Types'
    BY <1>2, <1>3, <2>1 DEF EditFile, Fresh, Types
  <2>3. TimesPassed' /\ TimeTells'
    BY <1>4, <2>1 DEF EditFile, Fresh, Types, TimesPassed, TimeTells, Processes
  <2>. QED  BY <2>2, <2>3 DEF Fresh
<1>5. ASSUME NEW w \in Processes PROVE Fresh'
  <2>1. UNCHANGED <<cache, seen>> /\ pc' = pc
    BY DEF EditFile
  <2>. QED  BY <1>1, <1>2, <1>3, <2>1, TouchKeeps DEF Steps
<1>. QED  BY <1>4, <1>5

LEMMA WriteKeeps ==
    ASSUME Fresh, FineClock, NEW w \in Writers, ReadForWrite(w) \/ Write(w)
    PROVE  Fresh'
<1>. USE ConfigAssumption
<1>1. w \in Processes /\ w \notin Loads
  BY DEF Processes
<1>2. CASE ReadForWrite(w)
  <2>1. PICK s \in Settings : seen' = [seen EXCEPT ![w].text = [file EXCEPT ![s] = changes + 1]]
    BY <1>2 DEF ReadForWrite
  <2>2. [file EXCEPT ![s] = changes + 1] \in MaybeText
    BY <1>2 DEF ReadForWrite, Fresh, Types, MaybeText, Texts
  <2>3. Types'
    BY <1>1, <1>2, <2>1, <2>2 DEF ReadForWrite, Goto, Fresh, Types, Steps
  <2>4. \A l \in Loads : seen'[l] = seen[l] /\ pc'[l] = pc[l]
    BY <1>1, <1>2, <2>1 DEF ReadForWrite, Goto, Fresh, Types, Processes
  <2>5. TimesPassed' /\ TimeTells'
    BY <1>2, <2>4 DEF ReadForWrite, Fresh, TimesPassed, TimeTells
  <2>. QED  BY <2>3, <2>5 DEF Fresh
<1>3. CASE Truncate(w)
  <2>1. Touch(NoText) /\ UNCHANGED <<changes, cache, seen>> /\ pc' = [pc EXCEPT ![w] = "dump"]
    BY <1>3 DEF Truncate, Goto
  <2>2. NoText \in MaybeText /\ "dump" \in Steps /\ changes' \in Nat
    BY <2>1 DEF MaybeText, Steps, Fresh, Types
  <2>. QED  BY <1>1, <2>1, <2>2, TouchKeeps
<1>4. CASE Dump(w)
  <2>1. Touch(seen[w].text) /\ UNCHANGED <<changes, cache, seen>> /\ pc' = [pc EXCEPT ![w] = "invalidate"]
    BY <1>4 DEF Dump, Goto
  <2>2. seen[w].text \in MaybeText /\ "invalidate" \in Steps /\ changes' \in Nat
    BY <1>1, <2>1 DEF Steps, Fresh, Types
  <2>. QED  BY <1>1, <2>1, <2>2, TouchKeeps
<1>5. CASE InvalidateConfigCache(w)
  <2>1. Types'
    BY <1>1, <1>5 DEF InvalidateConfigCache, Goto, Empty, Fresh, Types, MaybeText, Steps
  <2>2. \A l \in Loads : pc'[l] = pc[l]
    BY <1>1, <1>5 DEF InvalidateConfigCache, Goto, Fresh, Types, Processes
  <2>3. TimesPassed' /\ TimeTells'
    BY <1>5, <2>2 DEF InvalidateConfigCache, Empty, Fresh, Types, TimesPassed, TimeTells
  <2>. QED  BY <2>1, <2>3 DEF Fresh
<1>. QED  BY <1>2, <1>3, <1>4, <1>5 DEF Write

-----------------------------------------------------------------------------
(* An operation moves on with what it loaded, or forgets it.               *)
LEMMA ForgetKeeps ==
    ASSUME Fresh, NEW l \in Loads, NEW step \in Steps \ {"apply"},
           UNCHANGED <<file, mtime, now, changes, cache>>,
           pc' = [pc EXCEPT ![l] = step],
           seen' = seen \/ seen' = [seen EXCEPT ![l] = NothingSeen]
    PROVE  Fresh'
<1>1. l \in Processes /\ \A m \in Loads : m \in Processes
  BY DEF Processes
<1>2. Types'
  BY <1>1 DEF Fresh, Types, NothingSeen, MaybeText
<1>3. pc'[l] # "apply" /\ \A m \in Loads \ {l} : seen'[m] = seen[m] /\ pc'[m] = pc[m]
  BY <1>1 DEF Fresh, Types
<1>4. seen'[l].time <= mtime
  BY <1>1 DEF Fresh, Types, TimesPassed, NothingSeen
<1>5. TimesPassed' /\ TimeTells'
  BY <1>3, <1>4 DEF Fresh, Types, TimesPassed, TimeTells
<1>. QED  BY <1>2, <1>5 DEF Fresh

(* An operation loads the configuration.                                   *)
LEMMA LoadKeeps ==
    ASSUME Fresh, NEW l \in Loads, Load(l)
    PROVE  Fresh'
<1>1. l \in Processes /\ \A m \in Loads : m \in Processes
  BY DEF Processes
<1>2. CASE Stat(l)
  <2>1. seen'[l].time \in 0..mtime /\ pc'[l] # "apply"
    BY <1>1, <1>2 DEF Stat, Goto, NothingSeen, Fresh, Types
  <2>2. Types'
    BY <1>1, <1>2 DEF Stat, Goto, NothingSeen, Fresh, Types, MaybeText, Steps
  <2>3. \A m \in Loads \ {l} : seen'[m] = seen[m] /\ pc'[m] = pc[m]
    BY <1>1, <1>2 DEF Stat, Goto, Fresh, Types
  <2>4. UNCHANGED <<file, mtime, cache>>
    BY <1>2 DEF Stat
  <2>5. TimesPassed' /\ TimeTells'
    BY <2>1, <2>3, <2>4 DEF Fresh, Types, TimesPassed, TimeTells
  <2>. QED  BY <2>2, <2>5 DEF Fresh
<1>3. CASE Read(l)
  <2>1. seen'[l].time = seen[l].time /\ seen'[l].text = file
    BY <1>1, <1>3 DEF Read, Fresh, Types
  <2>2. Types'
    BY <1>1, <1>3 DEF Read, Goto, Fresh, Types, Steps
  <2>3. \A m \in Loads \ {l} : seen'[m] = seen[m] /\ pc'[m] = pc[m]
    BY <1>1, <1>3 DEF Read, Goto, Fresh, Types
  <2>4. UNCHANGED <<file, mtime, cache>>
    BY <1>3 DEF Read
  <2>5. TimesPassed' /\ TimeTells'
    BY <1>1, <2>1, <2>3, <2>4 DEF Fresh, Types, TimesPassed, TimeTells
  <2>. QED  BY <2>2, <2>5 DEF Fresh
<1>4. CASE Apply(l)
  <2>1. /\ cache' = [text |-> seen[l].text, time |-> seen[l].time, hash |-> seen[l].text]
        /\ UNCHANGED <<file, mtime, now, changes, seen>>
        /\ pc' = [pc EXCEPT ![l] = "client"] /\ pc[l] = "apply"
    BY <1>4 DEF Apply, Goto
  <2>2. Types'
    BY <1>1, <2>1 DEF Fresh, Types, Steps
  <2>3. TimesPassed' /\ TimeTells'
    BY <1>1, <2>1 DEF Fresh, Types, TimesPassed, TimeTells
  <2>. QED  BY <2>2, <2>3 DEF Fresh
<1>5. CASE GetClient(l)
  <2>1. /\ UNCHANGED <<file, mtime, now, changes, cache>>
        /\ pc' = [pc EXCEPT ![l] = "idle"] /\ seen' = [seen EXCEPT ![l] = NothingSeen]
    BY <1>5 DEF GetClient, Goto
  <2>. QED  BY <1>1, <2>1, ForgetKeeps DEF Steps
<1>. QED  BY <1>2, <1>3, <1>4, <1>5 DEF Load

-----------------------------------------------------------------------------
(* The lock of the Mem0 client is a queue of distinct operations.          *)

StepsNamed == pc \in [Processes -> Steps]

Distinct(q) == \A i, j \in 1..Len(q) : q[i] = q[j] => i = j

\* Who stands in the queue waits or builds, and who builds is its head.
QueueOrder ==
    /\ mem0Lock \in Seq(Loads) /\ Distinct(mem0Lock)
    /\ \A i \in 1..Len(mem0Lock) : pc[mem0Lock[i]] \in {"mem0", "build"}
    /\ \A l \in Loads : pc[l] = "build" => Holds(l, mem0Lock)

\* Two clients are never built at the same time.
OneBuilder == \A l, m \in Loads : pc[l] = "build" /\ pc[m] = "build" => l = m

(* What is not in a queue gets in line.                                    *)
LEMMA Enqueued ==
    ASSUME NEW X, NEW q \in Seq(X), Distinct(q), NEW x \in X,
           \A i \in 1..Len(q) : q[i] # x
    PROVE  /\ Append(q, x) \in Seq(X) /\ Distinct(Append(q, x))
           /\ Len(Append(q, x)) = Len(q) + 1 /\ Append(q, x)[Len(q) + 1] = x
           /\ \A i \in 1..Len(q) : Append(q, x)[i] = q[i]
           /\ q # <<>> => Head(Append(q, x)) = Head(q)
           /\ Append(q, x) # <<>>
           /\ {Append(q, x)[i] : i \in 1..Len(Append(q, x))} = {q[i] : i \in 1..Len(q)} \cup {x}
<1>. DEFINE r == Append(q, x)
            n == Len(q)
<1>1. /\ r \in Seq(X) /\ Len(r) = n + 1 /\ n \in Nat /\ r[n + 1] = x
      /\ \A i \in 1..n : r[i] = q[i]
      /\ q # <<>> => Head(r) = Head(q)
      /\ r # <<>>
  OBVIOUS
<1>. HIDE DEF r
<1>2. \A i \in 1..Len(r) : i \in 1..n \/ i = n + 1
  BY <1>1
<1>3. Distinct(r)
  BY <1>1, <1>2 DEF Distinct
<1>4. {r[i] : i \in 1..Len(r)} = {q[i] : i \in 1..n} \cup {x}
  <2>1. 1..n \subseteq 1..Len(r) /\ n + 1 \in 1..Len(r)
    BY <1>1
  <2>. QED  BY <1>1, <1>2, <2>1
<1>. QED  BY <1>1, <1>3, <1>4 DEF r

(* The head leaves, and is not in what stays.                              *)
LEMMA Dequeued ==
    ASSUME NEW q \in Seq(Loads), Distinct(q), q # <<>>
    PROVE  /\ Tail(q) \in Seq(Loads) /\ Distinct(Tail(q))
           /\ \A i \in 1..Len(Tail(q)) : /\ Tail(q)[i] = q[i + 1] /\ i + 1 \in 1..Len(q)
                                         /\ Tail(q)[i] # Head(q)
<1>1. Len(q) \in Nat \ {0}
  OBVIOUS
<1>2. Tail(q) \in Seq(Loads) /\ Len(Tail(q)) = Len(q) - 1
  OBVIOUS
<1>3. \A i \in 1..Len(Tail(q)) : Tail(q)[i] = q[i + 1] /\ i + 1 \in 1..Len(q)
  BY <1>1, <1>2
<1>4. \A i \in 1..Len(Tail(q)) : Tail(q)[i] # Head(q)
  BY <1>1, <1>3 DEF Distinct
<1>5. Distinct(Tail(q))
  BY <1>1, <1>2, <1>3 DEF Distinct
<1>. QED  BY <1>2, <1>3, <1>4, <1>5

(* Steps that leave the queue alone and move nobody in it.                 *)
LEMMA AsideKeepsQueue ==
    ASSUME StepsNamed, QueueOrder, mem0Lock' = mem0Lock, NEW p \in Processes,
           NEW step \in Steps \ {"build"},
           pc[p] \notin {"mem0", "build"}, pc' = [pc EXCEPT ![p] = step]
    PROVE  QueueOrder'
<1>1. \A i \in 1..Len(mem0Lock) : mem0Lock[i] \in Processes /\ mem0Lock[i] # p
  BY DEF QueueOrder, Processes
<1>2. \A q \in Processes \ {p} : pc'[q] = pc[q]
  BY DEF StepsNamed
<1>3. pc'[p] = step
  BY DEF StepsNamed
<1>4. \A l \in Loads : pc'[l] = "build" => pc[l] = "build"
  BY <1>2, <1>3 DEF Processes
<1>. QED  BY <1>1, <1>2, <1>4 DEF QueueOrder, Holds

LEMMA GetMem0KeepsQueue ==
    ASSUME StepsNamed, QueueOrder, NEW l \in Loads, NEW locks,
           pc[l] \in {"client", "wrapper"}, GetMem0(l, locks)
    PROVE  QueueOrder'
<1>1. l \in Processes
  BY DEF Processes
<1>2. CASE Matches(l)
  <2>1. mem0Lock' = mem0Lock /\ pc' = [pc EXCEPT ![l] = "idle"]
    BY <1>2 DEF GetMem0, Return, Goto
  <2>. QED  BY <1>1, <2>1, AsideKeepsQueue DEF Steps
<1>3. CASE ~Matches(l)
  <2>1. /\ mem0Lock' = Append(mem0Lock, l)
        /\ pc' = [pc EXCEPT ![l] = IF mem0Lock = <<>> THEN "build" ELSE "mem0"]
    BY <1>3 DEF GetMem0, Goto
  <2>2. \A i \in 1..Len(mem0Lock) : mem0Lock[i] # l /\ mem0Lock[i] \in Processes
    BY DEF QueueOrder, Processes
  <2>3. /\ mem0Lock' \in Seq(Loads) /\ Distinct(mem0Lock)'
        /\ Len(mem0Lock') = Len(mem0Lock) + 1 /\ mem0Lock'[Len(mem0Lock) + 1] = l
        /\ \A i \in 1..Len(mem0Lock) : mem0Lock'[i] = mem0Lock[i]
        /\ mem0Lock # <<>> => Head(mem0Lock') = Head(mem0Lock)
        /\ mem0Lock' # <<>>
    BY <2>1, <2>2, Enqueued DEF QueueOrder, Distinct
  <2>4. /\ pc'[l] = IF mem0Lock = <<>> THEN "build" ELSE "mem0"
        /\ \A q \in Processes \ {l} : pc'[q] = pc[q]
    BY <1>1, <2>1 DEF StepsNamed
  <2>5. \A i \in 1..Len(mem0Lock') : pc'[mem0Lock'[i]] \in {"mem0", "build"}
    BY <2>2, <2>3, <2>4 DEF QueueOrder
  <2>6. ASSUME NEW m \in Loads, pc'[m] = "build" PROVE Holds(m, mem0Lock)'
    <3>1. CASE m = l
      <4>1. mem0Lock = <<>>
        BY <2>4, <2>6, <3>1
      <4>2. mem0Lock' = <<l>>
        BY <2>1, <4>1
      <4>. QED  BY <3>1, <4>2 DEF Holds
    <3>2. CASE m # l
      <4>1. pc[m] = "build"
        BY <2>4, <2>6, <3>2 DEF Processes
      <4>2. mem0Lock # <<>> /\ Head(mem0Lock) = m
        BY <4>1 DEF QueueOrder, Holds
      <4>. QED  BY <2>3, <4>2 DEF Holds
    <3>. QED  BY <3>1, <3>2
  <2>. QED  BY <2>3, <2>5, <2>6 DEF QueueOrder
<1>. QED  BY <1>2, <1>3

(* The head is done with the client, and the next one may go on.           *)
LEMMA LeaveKeepsQueue ==
    ASSUME StepsNamed, QueueOrder, NEW l \in Loads, Holds(l, mem0Lock),
           mem0Lock' = Tail(mem0Lock), pc' = [pc EXCEPT ![l] = "idle"]
    PROVE  QueueOrder'
<1>1. mem0Lock # <<>> /\ Head(mem0Lock) = l
  BY DEF Holds
<1>2. /\ mem0Lock' \in Seq(Loads) /\ Distinct(mem0Lock)'
      /\ \A i \in 1..Len(mem0Lock') :
             /\ mem0Lock'[i] = mem0Lock[i + 1] /\ i + 1 \in 1..Len(mem0Lock)
             /\ mem0Lock'[i] # l
  BY <1>1, Dequeued DEF QueueOrder, Distinct
<1>3. pc'[l] = "idle" /\ \A q \in Processes \ {l} : pc'[q] = pc[q]
  BY DEF StepsNamed, Processes
<1>4. \A i \in 1..Len(mem0Lock') : pc'[mem0Lock'[i]] \in {"mem0", "build"}
  BY <1>2, <1>3 DEF QueueOrder, Processes
<1>5. \A m \in Loads : pc'[m] # "build"
  BY <1>1, <1>3 DEF QueueOrder, Holds, Processes
<1>. QED  BY <1>2, <1>4, <1>5 DEF QueueOrder

LEMMA RememberKeepsQueue ==
    ASSUME StepsNamed, QueueOrder, NEW l \in Loads, Remember(l)
    PROVE  QueueOrder'
<1>1. l \in Processes
  BY DEF Processes
<1>2. CASE AskMemory(l)
  BY <1>2, GetMem0KeepsQueue DEF AskMemory
<1>3. ASSUME NEW locks, pc[l] \in {"client", "wrapper"}, GetWrapper(l, locks)
      PROVE  QueueOrder'
  <2>1. CASE wrapper
    <3>1. mem0Lock' = mem0Lock /\ pc' = [pc EXCEPT ![l] = "idle"]
      BY <1>3, <2>1 DEF GetWrapper, Goto
    <3>. QED  BY <1>1, <1>3, <3>1, AsideKeepsQueue DEF Steps
  <2>2. CASE ~wrapper
    BY <1>3, <2>2, GetMem0KeepsQueue DEF GetWrapper
  <2>. QED  BY <2>1, <2>2
<1>4. CASE AskWrapper(l)
  BY <1>3, <1>4 DEF AskWrapper
<1>5. CASE WaitForWrapper(l)
  <2>1. mem0Lock' = mem0Lock /\ pc' = [pc EXCEPT ![l] = "wrapper"] /\ pc[l] = "client"
    BY <1>5 DEF WaitForWrapper, Goto
  <2>. QED  BY <1>1, <2>1, AsideKeepsQueue DEF Steps
<1>6. CASE WrapperLockPasses(l)
  BY <1>3, <1>6 DEF WrapperLockPasses
<1>7. CASE Mem0LockPasses(l)
  <2>1. CASE Matches(l)
    <3>1. /\ Holds(l, mem0Lock) /\ mem0Lock' = Tail(mem0Lock)
          /\ pc' = [pc EXCEPT ![l] = "idle"]
      BY <1>7, <2>1 DEF Mem0LockPasses, Return, Goto
    <3>. QED  BY <3>1, LeaveKeepsQueue
  <2>2. CASE ~Matches(l)
    <3>1. Holds(l, mem0Lock) /\ mem0Lock' = mem0Lock /\ pc' = [pc EXCEPT ![l] = "build"]
      BY <1>7, <2>2 DEF Mem0LockPasses, Goto
    <3>2. pc'[l] = "build" /\ \A q \in Processes \ {l} : pc'[q] = pc[q]
      BY <1>1, <3>1 DEF StepsNamed
    <3>3. \A i \in 1..Len(mem0Lock) : mem0Lock[i] \in Processes
      BY DEF QueueOrder, Processes
    <3>. QED  BY <3>1, <3>2, <3>3 DEF QueueOrder, Holds, Processes
  <2>. QED  BY <2>1, <2>2
<1>8. CASE BuildClient(l) \/ BuildFails(l) \/ BuildEscapes(l)
  <2>1. /\ pc[l] = "build" /\ mem0Lock' = Tail(mem0Lock)
        /\ pc' = [pc EXCEPT ![l] = "idle"]
    BY <1>8 DEF BuildClient, BuildFails, BuildEscapes, Return, Goto
  <2>2. Holds(l, mem0Lock)
    BY <2>1 DEF QueueOrder
  <2>. QED  BY <2>1, <2>2, LeaveKeepsQueue
<1>. QED  BY <1>2, <1>4, <1>5, <1>6, <1>7, <1>8 DEF Remember

(* Loads and writes do not touch the lock, nor whoever waits for it.       *)
LEMMA ConfigKeepsQueue ==
    ASSUME StepsNamed, QueueOrder, UNCHANGED memory,
           EditFile \/ (\E w \in Writers : ReadForWrite(w) \/ Write(w)) \/ (\E l \in Loads : Load(l))
    PROVE  QueueOrder'
<1>1. mem0Lock' = mem0Lock
  BY DEF memory
<1>2. CASE EditFile
  BY <1>1, <1>2 DEF EditFile, QueueOrder, Holds
<1>3. ASSUME NEW w \in Writers, ReadForWrite(w) \/ Write(w) PROVE QueueOrder'
  <2>1. \E step \in {"idle", "truncate", "dump", "invalidate"} :
            pc' = [pc EXCEPT ![w] = step]
    BY <1>3 DEF ReadForWrite, Write, Truncate, Dump, InvalidateConfigCache, Goto
  <2>2. pc[w] \notin {"mem0", "build"} /\ w \in Processes
    BY <1>3 DEF ReadForWrite, Write, Truncate, Dump, InvalidateConfigCache, Processes
  <2>. QED  BY <1>1, <2>1, <2>2, AsideKeepsQueue DEF Steps
<1>4. ASSUME NEW l \in Loads, Load(l) PROVE QueueOrder'
  <2>1. \E step \in {"idle", "read", "apply", "client"} : pc' = [pc EXCEPT ![l] = step]
    BY <1>4 DEF Load, Stat, Read, Apply, GetClient, Goto
  <2>2. pc[l] \notin {"mem0", "build"} /\ l \in Processes
    BY <1>4 DEF Load, Stat, Read, Apply, GetClient, Processes
  <2>. QED  BY <1>1, <2>1, <2>2, AsideKeepsQueue DEF Steps
<1>. QED  BY <1>2, <1>3, <1>4

-----------------------------------------------------------------------------
LEMMA StepsStayNamed ==
    ASSUME StepsNamed, [MNext]_mvars
    PROVE  StepsNamed'
<1>1. CASE UNCHANGED mvars
  BY <1>1 DEF mvars, vars, StepsNamed
<1>2. CASE EditFile \/ ResetClient
  BY <1>2 DEF EditFile, ResetClient, vars, StepsNamed
<1>3. ASSUME NEW w \in Writers, ReadForWrite(w) \/ Write(w) PROVE StepsNamed'
  BY <1>3 DEF ReadForWrite, Write, Truncate, Dump, InvalidateConfigCache, Goto, StepsNamed, Steps
<1>4. ASSUME NEW l \in Loads, Load(l) PROVE StepsNamed'
  BY <1>4 DEF Load, Stat, Read, Apply, GetClient, Goto, StepsNamed, Steps
<1>5. ASSUME NEW l \in Loads, Remember(l) PROVE StepsNamed'
  BY <1>5, RememberForgets DEF StepsNamed, Steps
<1>. QED  BY <1>1, <1>2, <1>3, <1>4, <1>5 DEF MNext

(* Two clients are never built at the same time, so the client that is     *)
(* kept is the last one built (get_mem0_client, mem0_client.py:81-109).    *)
THEOREM BuildsAreExclusive == MSpec => []OneBuilder
<1>1. MInit => StepsNamed /\ QueueOrder
  BY DEF MInit, Init, StepsNamed, QueueOrder, Distinct, Processes, Steps, Holds
<1>2. ASSUME StepsNamed, QueueOrder, [MNext]_mvars PROVE QueueOrder'
  <2>1. CASE UNCHANGED mvars
    BY <1>2, <2>1 DEF mvars, vars, memory, QueueOrder, Holds
  <2>2. CASE ResetClient
    BY <1>2, <2>2 DEF ResetClient, vars, QueueOrder, Holds
  <2>3. ASSUME NEW l \in Loads, Remember(l) PROVE QueueOrder'
    BY <1>2, <2>3, RememberKeepsQueue
  <2>. QED  BY <1>2, <2>1, <2>2, <2>3, ConfigKeepsQueue DEF MNext
<1>3. QueueOrder => OneBuilder
  BY DEF QueueOrder, OneBuilder, Holds
<1>. QED  BY <1>1, <1>2, <1>3, StepsStayNamed, PTL DEF MSpec

(* Whoever finds his own hash gets a client built from his configuration   *)
(* (get_mem0_client's two checks, mem0_client.py:79-87).                   *)
THEOREM HashCorrect == MSpec => []HashMatchesClient
<1>1. MInit => HashMatchesClient
  BY DEF MInit, NoClient, HashMatchesClient
<1>2. ASSUME HashMatchesClient, [MNext]_mvars PROVE HashMatchesClient'
  <2>1. CASE UNCHANGED memory
    BY <1>2, <2>1 DEF memory, HashMatchesClient
  <2>2. CASE ResetClient
    BY <2>2 DEF ResetClient, NoClient, HashMatchesClient
  <2>3. ASSUME NEW l \in Loads, Remember(l) PROVE HashMatchesClient'
    BY <1>2, <2>3 DEF HashMatchesClient, NoClient, Remember, AskMemory, AskWrapper,
       WaitForWrapper, WrapperLockPasses, Mem0LockPasses, BuildClient, BuildFails,
       BuildEscapes
  <2>. QED  BY <1>2, <2>1, <2>2, <2>3 DEF MNext, mvars
<1>. QED  BY <1>1, <1>2, PTL DEF MSpec

LEMMA StepKeepsFresh ==
    ASSUME Fresh, FineClock, [MNext]_mvars
    PROVE  Fresh'
<1>1. CASE UNCHANGED mvars
  BY <1>1 DEF mvars, vars, Fresh, Types, TimesPassed, TimeTells
<1>2. CASE ResetClient
  BY <1>2 DEF ResetClient, vars, Fresh, Types, TimesPassed, TimeTells
<1>3. ASSUME NEW l \in Loads, Remember(l) PROVE Fresh'
  BY <1>3, RememberForgets, ForgetKeeps DEF Steps
<1>. QED  BY <1>1, <1>2, <1>3, EditKeeps, WriteKeeps, LoadKeeps DEF MNext

(* With a file system that gives each change a time of its own, the cache  *)
(* answers only with what the file holds (async_load_config's fast path    *)
(* against config_write and an editor, config.py:151-177).                 *)
THEOREM FastPathSeesTheFile == FineClock /\ MSpec => LoadsSeeTheFile
<1>. SUFFICES ASSUME FineClock PROVE MSpec => LoadsSeeTheFile
  OBVIOUS
<1>1. MInit => Fresh
  BY TypesInit DEF Fresh
<1>2. ASSUME Fresh, [MNext]_mvars
      PROVE  [\A l \in Loads :
                 pc[l] = "idle" /\ pc'[l] = "client" => seen'[l].text = file]_vars
  <2>1. SUFFICES ASSUME NEW l \in Loads, pc[l] = "idle", pc'[l] = "client"
                 PROVE  seen'[l].text = file
    OBVIOUS
  <2>2. l \in Processes
    BY DEF Processes
  <2>3. ASSUME NEW p \in Processes, NEW step \in Steps \ {"client"},
               pc' = [pc EXCEPT ![p] = step]
        PROVE  FALSE
    BY <1>2, <2>1, <2>2, <2>3 DEF Fresh, Types
  <2>4. pc' # pc
    BY <2>1
  <2>5. ~ResetClient /\ ~EditFile /\ ~UNCHANGED mvars
    BY <2>4 DEF ResetClient, EditFile, vars, mvars
  <2>6. ASSUME NEW w \in Writers, ReadForWrite(w) \/ Write(w) PROVE FALSE
    <3>1. \E step \in {"idle", "truncate", "dump", "invalidate"} :
              pc' = [pc EXCEPT ![w] = step]
      BY <2>6 DEF ReadForWrite, Write, Truncate, Dump, InvalidateConfigCache, Goto
    <3>. QED  BY <2>3, <3>1 DEF Steps, Processes
  <2>7. ASSUME NEW m \in Loads, Remember(m) PROVE FALSE
    BY <2>3, <2>7, RememberForgets DEF Steps, Processes
  <2>8. PICK m \in Loads : Load(m)
    BY <1>2, <2>5, <2>6, <2>7 DEF MNext
  <2>9. m \in Processes
    BY DEF Processes
  <2>10. CASE Stat(m)
    <3>1. m = l
      BY <1>2, <2>1, <2>2, <2>9, <2>10 DEF Stat, Goto, Fresh, Types
    <3>2. cache.text # NoText /\ cache.time = mtime /\ seen'[l].text = cache.text
      BY <1>2, <2>1, <2>2, <2>10, <3>1 DEF Stat, Goto, NothingSeen, Fresh, Types
    <3>. QED  BY <1>2, <3>2 DEF Fresh, TimeTells
  <2>11. CASE Read(m) \/ GetClient(m)
    <3>1. \E step \in {"idle", "apply"} : pc' = [pc EXCEPT ![m] = step]
      BY <2>11 DEF Read, GetClient, Goto
    <3>. QED  BY <2>3, <2>9, <3>1 DEF Steps
  <2>12. CASE Apply(m)
    BY <1>2, <2>1, <2>2, <2>9, <2>12 DEF Apply, Goto, Fresh, Types
  <2>. QED  BY <2>8, <2>10, <2>11, <2>12 DEF Load
<1>3. Fresh /\ [MNext]_mvars => Fresh'
  BY StepKeepsFresh
<1>. QED  BY <1>1, <1>2, <1>3, PTL DEF MSpec, LoadsSeeTheFile

-----------------------------------------------------------------------------
(* How the process comes up, for any number of outages and restarts.  The  *)
(* two tasks share their flags without a lock; what keeps them apart is    *)
(* that the retry task exists only once the handler has given PostgreSQL   *)
(* up, and connects again only while the flag is down.                     *)

\* Until the handler has migrated or given up, it is alone and the flag down.
HandlerAlone ==
    /\ main \in {"connect", "migrate"} => ~available /\ ~worker /\ retry = "none"
    /\ main = "migrate" => pool
    /\ main = "imperator" /\ retry = "none" => available

\* The retry task opens and closes pools only while nobody may use them.
RetryUnobserved ==
    /\ retry \in {"connect", "migrate"} => ~available
    /\ retry = "migrate" => pool
    /\ worker => available

StartupInv == StartupTypeOK /\ OnlyOnCurrentSchema /\ HandlerAlone /\ RetryUnobserved

-----------------------------------------------------------------------------
(* The bounds of the counters, apart from the flags. *)
LEMMA Counters ==
    /\ 0 \in 0..MaxOutages /\ 0 \in 0..MaxRestarts
    /\ \A n \in 0..MaxOutages : n < MaxOutages => n + 1 \in 0..MaxOutages
    /\ \A n \in 0..MaxRestarts : n < MaxRestarts => n + 1 \in 0..MaxRestarts
BY StartupAssumption

LEMMA StartupStarts ==
    ASSUME StartupInit
    PROVE  StartupInv
<1>1. StartupTypeOK
  BY Counters, Zenon DEF StartupInit, StartupTypeOK
<1>2. OnlyOnCurrentSchema /\ HandlerAlone /\ RetryUnobserved
  BY DEF StartupInit, OnlyOnCurrentSchema, HandlerAlone, RetryUnobserved
<1>. QED  BY <1>1, <1>2 DEF StartupInv

LEMMA EnvironmentKeeps ==
    ASSUME StartupInv, PostgresUp \/ PostgresDown \/ Restart
    PROVE  StartupInv'
<1>. USE DEF StartupInv, StartupTypeOK, OnlyOnCurrentSchema, HandlerAlone, RetryUnobserved,
             state
<1>1. CASE PostgresUp
  BY <1>1, Zenon DEF PostgresUp
<1>2. CASE PostgresDown
  BY <1>2, Counters, Zenon DEF PostgresDown
<1>3. CASE Restart
  BY <1>3, Counters DEF Restart
<1>. QED  BY <1>1, <1>2, <1>3

LEMMA MainKeeps ==
    ASSUME StartupInv, Main
    PROVE  StartupInv'
<1>. USE StartupAssumption
         DEF StartupInv, StartupTypeOK, OnlyOnCurrentSchema, HandlerAlone, RetryUnobserved
<1>1. CASE MainConnect
  BY <1>1 DEF MainConnect
<1>2. CASE MainMigrate
  BY <1>2 DEF MainMigrate
<1>3. CASE MainDegraded
  BY <1>3 DEF MainDegraded
<1>4. CASE MainImperator
  BY <1>4 DEF MainImperator
<1>5. CASE MainImperatorFails
  BY <1>5 DEF MainImperatorFails
<1>. QED  BY <1>1, <1>2, <1>3, <1>4, <1>5 DEF Main

LEMMA RetryKeeps ==
    ASSUME StartupInv, Retry
    PROVE  StartupInv'
<1>. USE StartupAssumption
         DEF StartupInv, StartupTypeOK, OnlyOnCurrentSchema, HandlerAlone, RetryUnobserved
<1>1. CASE RetryWakes
  BY <1>1 DEF RetryWakes
<1>2. CASE RetryConnect
  BY <1>2 DEF RetryConnect
<1>3. CASE RetryMigrate
  BY <1>3 DEF RetryMigrate
<1>4. CASE RetryFails
  BY <1>4 DEF RetryFails
<1>5. CASE RetryImperator
  BY <1>5 DEF RetryImperator
<1>6. CASE RetryImperatorFails
  BY <1>6 DEF RetryImperatorFails
<1>. QED  BY <1>1, <1>2, <1>3, <1>4, <1>5, <1>6 DEF Retry

(* The two tasks keep it, in whichever order their awaits come back.       *)
LEMMA StartupInvariant == StartupSpec => []StartupInv
<1>1. ASSUME StartupInv, [StartupNext]_startupVars
      PROVE  StartupInv'
  <2>1. CASE UNCHANGED startupVars
    BY <1>1, <2>1 DEF startupVars, state, StartupInv, StartupTypeOK, OnlyOnCurrentSchema,
                      HandlerAlone, RetryUnobserved
  <2>. QED  BY <1>1, <2>1, EnvironmentKeeps, MainKeeps, RetryKeeps DEF StartupNext
<1>2. StartupInit => StartupInv
  BY StartupStarts
<1>. QED  BY <1>1, <1>2, PTL DEF StartupSpec

(* Requests that need PostgreSQL and the background worker never meet an   *)
(* old schema or no pool (main.py:31-83, 138-177).                         *)
THEOREM SchemaCurrent == StartupSpec => []OnlyOnCurrentSchema
<1>1. StartupInv => OnlyOnCurrentSchema
  BY DEF StartupInv
<1>. QED  BY StartupInvariant, <1>1, PTL

(* The flags and the two program counters keep their types; a handler that *)
(* serves without a retry task has everything (main.py:86-177).            *)
THEOREM TypeCorrect == StartupSpec => []StartupTypeOK
<1>1. StartupInv => StartupTypeOK
  BY DEF StartupInv
<1>. QED  BY StartupInvariant, <1>1, PTL

-----------------------------------------------------------------------------
(* The sessions of the MCP endpoint.                                       *)

\* A session is a key: it is registered once, by a stream that began to, and
\* holds nothing before.
SessionsSound ==
    /\ sessions \in Seq(Streams) /\ Distinct(sessions)
    /\ IsFiniteSet(Registered)
    /\ queue \in [Streams -> Seq(Calls)]
    /\ stream = [s \in Streams |-> stream[s]]
    /\ total \in Int
    /\ \A s \in Streams : stream[s] = "new" => s \notin Registered /\ queue[s] = <<>>

\* What a set of sessions holds.
Lengths == [s \in Streams |-> Len(queue[s])]
Held(S) == SumFunctionOnSet(Lengths, S)

LEMMA HeldIs == \A S : QueuedIn(S) = Held(S)
BY DEF QueuedIn, Held, Lengths, SumFunctionOnSet, FoldFunctionOnSet, MapThenFoldSet

LEMMA HeldNext == QueuedIn(Registered)' = SumFunctionOnSet(Lengths', Registered')
BY DEF QueuedIn, Lengths

(* The keys, and the sums over them. *)
LEMMA SessionKeys ==
    ASSUME SessionsSound
    PROVE  /\ Registered = {sessions[i] : i \in 1..Len(sessions)}
           /\ Registered \subseteq Streams
           /\ \A s \in Streams : Lengths[s] = Len(queue[s]) /\ Lengths[s] \in Nat
<1>1. DOMAIN sessions = 1..Len(sessions) /\ \A i \in 1..Len(sessions) : sessions[i] \in Streams
  BY DEF SessionsSound
<1>2. Registered = {sessions[i] : i \in 1..Len(sessions)}
  BY <1>1 DEF Registered, ToSet
<1>3. \A s \in Streams : Lengths[s] = Len(queue[s]) /\ Lengths[s] \in Nat
  BY DEF SessionsSound, Lengths
<1>. QED  BY <1>1, <1>2, <1>3

(* The oldest sessions and the others share the registered ones. *)
LEMMA EvictionSplits ==
    ASSUME SessionsSound, NEW k \in 0..Len(sessions)
    PROVE  LET gone == {sessions[i] : i \in 1..k}
               kept == AllButFirst(k)
               keys == {kept[i] : i \in 1..Len(kept)}
           IN  /\ kept \in Seq(Streams) /\ Distinct(kept) /\ Len(kept) = Len(sessions) - k
               /\ keys \subseteq Registered /\ IsFiniteSet(keys)
               /\ Held(gone) \in Nat /\ Held(keys) \in Nat
               /\ Held(Registered) = Held(gone) + Held(keys)
<1>. DEFINE gone == {sessions[i] : i \in 1..k}
            kept == AllButFirst(k)
            keys == {kept[i] : i \in 1..Len(kept)}
            n == Len(sessions)
<1>1. sessions \in Seq(Streams) /\ n \in Nat /\ k \in Nat /\ k <= n
  BY DEF SessionsSound
<1>2. /\ kept \in Seq(Streams) /\ Len(kept) = n - k
      /\ \A i \in 1..Len(kept) : kept[i] = sessions[k + i]
  BY <1>1 DEF AllButFirst
<1>3. \A i \in 1..Len(kept) : k + i \in 1..n /\ k + i \notin 1..k
  BY <1>1, <1>2
<1>4. \A i, j \in 1..n : sessions[i] = sessions[j] => i = j
  BY DEF SessionsSound, Distinct
<1>. HIDE DEF kept
<1>5. Distinct(kept)
  <2>1. ASSUME NEW i \in 1..Len(kept), NEW j \in 1..Len(kept), kept[i] = kept[j]
        PROVE  i = j
    <3>1. k + i \in 1..n /\ k + j \in 1..n /\ sessions[k + i] = sessions[k + j]
      BY <1>2, <1>3, <2>1
    <3>2. k + i = k + j
      BY <1>4, <3>1
    <3>3. i \in Int /\ j \in Int
      OBVIOUS
    <3>. QED  BY <1>1, <3>2, <3>3
  <2>. QED  BY <2>1 DEF Distinct
<1>6. Registered = {sessions[i] : i \in 1..n}
  BY SessionKeys
<1>. DEFINE Keys == Registered
<1>7. Keys = gone \cup keys
  <2>1. \A i \in 1..n : i \in 1..k \/ (i - k \in 1..Len(kept) /\ sessions[i] = kept[i - k])
    BY <1>1, <1>2
  <2>2. 1..k \subseteq 1..n
    BY <1>1
  <2>. HIDE DEF n
  <2>. QED  BY <1>2, <1>3, <1>6, <2>1, <2>2
<1>8. gone \cap keys = {}
  <2>1. ASSUME NEW i \in 1..k, NEW j \in 1..Len(kept) PROVE sessions[i] # kept[j]
    <3>1. i \in 1..n /\ k + j \in 1..n /\ i # k + j
      BY <1>1, <1>3
    <3>. QED  BY <1>2, <1>4, <3>1
  <2>. QED  BY <2>1
<1>. HIDE DEF gone, keys, n, Keys
<1>9. IsFiniteSet(Keys) /\ Keys \subseteq Streams
  BY SessionKeys DEF SessionsSound, Keys
<1>10. IsFiniteSet(gone) /\ IsFiniteSet(keys)
  BY <1>7, <1>9, FS_Subset
<1>11. \A s \in gone \cup keys : Lengths[s] \in Nat
  BY <1>7, <1>9, SessionKeys
<1>12. /\ SumFunctionOnSet(Lengths, gone) \in Nat /\ SumFunctionOnSet(Lengths, keys) \in Nat
       /\ SumFunctionOnSet(Lengths, gone \cup keys)
              = SumFunctionOnSet(Lengths, gone) + SumFunctionOnSet(Lengths, keys)
  BY <1>8, <1>10, <1>11, SumUnion, SumNat
<1>. QED  BY <1>1, <1>2, <1>5, <1>7, <1>10, <1>12 DEF Held, gone, keys, kept, n, Keys

(* What the sessions hold before and after a step that changes one queue.  *)
LEMMA HeldChanged ==
    ASSUME SessionsSound, NEW S, S \subseteq Streams, IsFiniteSet(S), NEW s \in S,
           queue' \in [Streams -> Seq(Calls)],
           \A r \in Streams \ {s} : queue'[r] = queue[r]
    PROVE  \E rest \in Nat : /\ Held(S) = Len(queue[s]) + rest
                            /\ SumFunctionOnSet(Lengths', S) = Len(queue'[s]) + rest
<1>. DEFINE f == Lengths
            g == Lengths'
<1>1. \A r \in S : f[r] = Len(queue[r]) /\ f[r] \in Nat
  BY SessionKeys
<1>2. \A r \in S : g[r] = Len(queue'[r]) /\ g[r] \in Nat
  BY DEF Lengths
<1>3. \A r \in S \ {s} : g[r] = f[r]
  BY <1>1, <1>2
<1>4. (\A r \in S : f[r] \in Nat) /\ (\A r \in S : g[r] \in Nat)
  BY <1>1, <1>2
<1>. HIDE DEF f, g
<1>5. \E rest \in Nat : /\ SumFunctionOnSet(f, S) = f[s] + rest
                       /\ SumFunctionOnSet(g, S) = g[s] + rest
  BY <1>3, <1>4, SumChanged
<1>. QED  BY <1>1, <1>2, <1>5 DEF Held, f, g

Bookkept == SessionsSound /\ NeverOvercounts /\ SessionsBounded

LEMMA BookkeepingStarts == ASSUME SessionsInit PROVE Bookkept
<1>. USE DEF SessionsInit
<1>1. Registered = {}
  BY DEF Registered, ToSet
<1>2. SessionsSound
  BY <1>1, FS_EmptySet DEF SessionsSound, Distinct
<1>3. NeverOvercounts
  BY <1>1, HeldIs, SumEmpty DEF NeverOvercounts, Held
<1>4. SessionsBounded
  BY McpAssumption DEF SessionsBounded
<1>. QED  BY <1>2, <1>3, <1>4 DEF Bookkept

LEMMA RegisterKeeps ==
    ASSUME Bookkept, NEW s \in Streams, Register(s)
    PROVE  Bookkept'
<1>1. SessionsSound /\ total <= Held(Registered) /\ total \in Int
  BY HeldIs DEF Bookkept, NeverOvercounts, SessionsSound
<1>2. PICK stale \in 0..Len(sessions), k \in 0..Len(sessions) :
          /\ Evicts(stale, k)
          /\ total' = CountAfterEviction(stale, k)
          /\ sessions' = Append(AllButFirst(k), s)
  BY DEF Register
<1>3. /\ stream[s] = "new" /\ stream' = [stream EXCEPT ![s] = "accepted"]
      /\ queue' = queue
  BY DEF Register
<1>. DEFINE gone == {sessions[i] : i \in 1..k}
            kept == AllButFirst(k)
            keys == {kept[i] : i \in 1..Len(kept)}
<1>4. /\ kept \in Seq(Streams) /\ Distinct(kept) /\ Len(kept) = Len(sessions) - k
      /\ keys \subseteq Registered /\ IsFiniteSet(keys)
      /\ Held(gone) \in Nat /\ Held(keys) \in Nat
      /\ Held(Registered) = Held(gone) + Held(keys)
  BY <1>1, EvictionSplits
<1>5. s \notin Registered /\ queue[s] = <<>>
  BY <1>1, <1>3 DEF SessionsSound
<1>6. total' = total - Held(gone) /\ sessions' = Append(kept, s)
  BY <1>2, HeldIs DEF CountAfterEviction, QueuedInFirst
<1>. HIDE DEF gone, kept
<1>7. \A i \in 1..Len(kept) : kept[i] # s
  BY <1>4, <1>5
<1>8. /\ sessions' \in Seq(Streams) /\ Len(sessions') = Len(kept) + 1
      /\ Distinct(sessions)'
      /\ {sessions'[i] : i \in 1..Len(sessions')} = keys \cup {s}
  <2>1. /\ Append(kept, s) \in Seq(Streams) /\ Distinct(Append(kept, s))
        /\ Len(Append(kept, s)) = Len(kept) + 1
        /\ {Append(kept, s)[i] : i \in 1..Len(Append(kept, s))}
               = {kept[i] : i \in 1..Len(kept)} \cup {s}
    <3>1. kept \in Seq(Streams) /\ Distinct(kept)
      BY <1>4
    <3>. HIDE DEF keys
    <3>. QED  BY <1>7, <3>1, Enqueued
  <2>. QED  BY <1>6, <2>1 DEF Distinct
<1>9. Registered' = {sessions'[i] : i \in 1..Len(sessions')}
  BY <1>8 DEF Registered, ToSet
<1>10. Registered' = keys \cup {s} /\ s \notin keys
  BY <1>4, <1>5, <1>8, <1>9
<1>. HIDE DEF keys
<1>11. IsFiniteSet(keys \cup {s})
  BY <1>4, FS_AddElement
<1>12. \A r \in Streams : stream'[r] = IF r = s THEN "accepted" ELSE stream[r]
  BY <1>1, <1>3 DEF SessionsSound
<1>13. SessionsSound'
  <2>1. stream' = [r \in Streams |-> stream'[r]]
    BY <1>1, <1>3 DEF SessionsSound
  <2>2. \A r \in Streams : stream'[r] = "new" => r \notin Registered' /\ queue'[r] = <<>>
    BY <1>1, <1>3, <1>4, <1>10, <1>12 DEF SessionsSound
  <2>3. total' \in Int
    BY <1>1, <1>4, <1>6
  <2>. QED  BY <1>1, <1>3, <1>8, <1>10, <1>11, <2>1, <2>2, <2>3 DEF SessionsSound
<1>14. SumFunctionOnSet(Lengths', keys \cup {s}) = Held(keys)
  <2>. DEFINE f == Lengths
              S == keys \cup {s}
  <2>1. Lengths' = f
    BY <1>3 DEF Lengths
  <2>2. \A r \in S : f[r] \in Nat
    BY <1>1, <1>4, SessionKeys
  <2>3. S \ {s} = keys /\ s \in S /\ f[s] = 0
    BY <1>1, <1>5, <1>10, SessionKeys
  <2>4. \A r \in keys : f[r] = f[r]
    OBVIOUS
  <2>. HIDE DEF f, S
  <2>5. IsFiniteSet(S)
    BY <1>11 DEF S
  <2>6. SumFunctionOnSet(f, S) = f[s] + SumFunctionOnSet(f, keys)
    BY <2>2, <2>3, <2>4, <2>5, SumOneOut
  <2>. QED  BY <1>4, <2>1, <2>3, <2>6 DEF Held, f, S
<1>15. NeverOvercounts'
  <2>1. QueuedIn(Registered)' = Held(keys)
    BY <1>10, <1>14, HeldNext
  <2>. QED  BY <1>1, <1>4, <1>6, <2>1 DEF NeverOvercounts
<1>16. SessionsBounded'
  <2>1. Len(sessions) - k <= MaxSessions
    BY <1>1, <1>2, McpAssumption DEF Evicts, SessionsSound
  <2>. QED  BY <1>4, <1>8, <2>1, McpAssumption DEF SessionsBounded
<1>. QED  BY <1>13, <1>15, <1>16 DEF Bookkept

(* One element of a sequence without repetitions is taken out.             *)
LEMMA TakenOut ==
    ASSUME NEW X, NEW q \in Seq(X), Distinct(q), NEW i \in 1..Len(q)
    PROVE  /\ RemoveAt(q, i) \in Seq(X) /\ Distinct(RemoveAt(q, i))
           /\ Len(RemoveAt(q, i)) = Len(q) - 1
           /\ {RemoveAt(q, i)[j] : j \in 1..Len(RemoveAt(q, i))}
                  = {q[j] : j \in 1..Len(q)} \ {q[i]}
<1>. DEFINE r == RemoveAt(q, i)
            n == Len(q)
            u == SubSeq(q, 1, i - 1)
            v == SubSeq(q, i + 1, n)
<1>1. n \in Nat /\ i \in Nat /\ 1 <= i /\ i <= n
  OBVIOUS
<1>2. /\ u \in Seq(X) /\ Len(u) = i - 1
      /\ \A j \in 1..(i - 1) : u[j] = q[j]
  BY <1>1
<1>3. /\ v \in Seq(X) /\ Len(v) = n - i
      /\ \A j \in 1..(n - i) : v[j] = q[i + j]
  BY <1>1
<1>4. r = u \o v
  BY DEF RemoveAt
<1>. HIDE DEF u, v, r, n
<1>5. /\ r \in Seq(X) /\ Len(r) = n - 1
      /\ \A j \in 1..(n - 1) : r[j] = IF j <= i - 1 THEN u[j] ELSE v[j - (i - 1)]
  <2>0. u \in Seq(X) /\ v \in Seq(X)
    BY <1>2, <1>3
  <2>1. r \in Seq(X) /\ Len(r) = Len(u) + Len(v)
    BY <1>4, <2>0
  <2>2. Len(r) = n - 1
    BY <1>1, <1>2, <1>3, <2>1
  <2>3. \A j \in 1..Len(u) : r[j] = u[j]
    BY <1>4, <2>0
  <2>4. \A j \in 1..Len(v) : r[Len(u) + j] = v[j]
    BY <1>4, <2>0
  <2>5. ASSUME NEW j \in 1..(n - 1) PROVE r[j] = IF j <= i - 1 THEN u[j] ELSE v[j - (i - 1)]
    <3>1. CASE j <= i - 1
      <4>1. j \in 1..Len(u)
        BY <1>1, <1>2, <3>1
      <4>. QED  BY <2>3, <3>1, <4>1
    <3>2. CASE ~(j <= i - 1)
      <4>1. j - (i - 1) \in 1..Len(v) /\ Len(u) + (j - (i - 1)) = j
        BY <1>1, <1>2, <1>3, <3>2
      <4>. QED  BY <2>4, <3>2, <4>1
    <3>. QED  BY <3>1, <3>2
  <2>. QED  BY <2>1, <2>2, <2>5
<1>6. \A j \in 1..(n - 1) : r[j] = IF j < i THEN q[j] ELSE q[j + 1]
  <2>1. ASSUME NEW j \in 1..(n - 1), j < i PROVE r[j] = q[j]
    <3>1. j \in 1..(i - 1) /\ j <= i - 1
      BY <1>1, <2>1
    <3>. QED  BY <1>2, <1>5, <3>1
  <2>2. ASSUME NEW j \in 1..(n - 1), ~(j < i) PROVE r[j] = q[j + 1]
    <3>1. j - (i - 1) \in 1..(n - i) /\ ~(j <= i - 1) /\ i + (j - (i - 1)) = j + 1
      BY <1>1, <2>2
    <3>. QED  BY <1>3, <1>5, <3>1
  <2>. QED  BY <2>1, <2>2
<1>7. \A j, k \in 1..n : q[j] = q[k] => j = k
  BY DEF Distinct, n
<1>8. Distinct(r)
  <2>1. ASSUME NEW j \in 1..(n - 1), NEW k \in 1..(n - 1), r[j] = r[k] PROVE j = k
    <3>. DEFINE a == IF j < i THEN j ELSE j + 1
                b == IF k < i THEN k ELSE k + 1
    <3>1. a \in 1..n /\ b \in 1..n /\ r[j] = q[a] /\ r[k] = q[b]
      BY <1>1, <1>6
    <3>. HIDE DEF a, b
    <3>2. a = b
      BY <1>7, <2>1, <3>1
    <3>. QED  BY <1>1, <3>2 DEF a, b
  <2>. QED  BY <1>5, <2>1 DEF Distinct
<1>9. \A j \in 1..(n - 1) : r[j] \in {q[k] : k \in 1..n} \ {q[i]}
  <2>1. ASSUME NEW j \in 1..(n - 1) PROVE r[j] \in {q[k] : k \in 1..n} \ {q[i]}
    <3>. DEFINE a == IF j < i THEN j ELSE j + 1
    <3>1. a \in 1..n /\ r[j] = q[a] /\ a # i /\ i \in 1..n
      BY <1>1, <1>6
    <3>. HIDE DEF a
    <3>. QED  BY <1>7, <3>1
  <2>. QED  BY <2>1
<1>10. \A k \in 1..n : k # i => \E j \in 1..(n - 1) : r[j] = q[k]
  <2>1. ASSUME NEW k \in 1..n, k # i PROVE \E j \in 1..(n - 1) : r[j] = q[k]
    <3>1. CASE k < i
      <4>1. k \in 1..(n - 1) /\ r[k] = q[k]
        BY <1>1, <1>6, <3>1
      <4>. QED  BY <4>1
    <3>2. CASE k > i
      <4>1. k - 1 \in 1..(n - 1) /\ ~(k - 1 < i) /\ (k - 1) + 1 = k
        BY <1>1, <3>2
      <4>2. r[k - 1] = q[k]
        BY <1>6, <4>1
      <4>. QED  BY <4>1, <4>2
    <3>. QED  BY <1>1, <2>1, <3>1, <3>2
  <2>. QED  BY <2>1
<1>11. {r[j] : j \in 1..(n - 1)} = {q[k] : k \in 1..n} \ {q[i]}
  BY <1>9, <1>10
<1>. QED  BY <1>5, <1>8, <1>11 DEF r, n

(* Nothing happens to what the registered sessions hold. *)
LEMMA HeldSame ==
    ASSUME SessionsSound, queue' \in [Streams -> Seq(Calls)],
           \A r \in Registered : queue'[r] = queue[r]
    PROVE  SumFunctionOnSet(Lengths', Registered) = Held(Registered)
<1>. DEFINE f == Lengths
            g == Lengths'
            S == Registered
<1>1. S \subseteq Streams /\ IsFiniteSet(S)
  BY SessionKeys DEF SessionsSound
<1>2. \A r \in S : g[r] = f[r]
  BY <1>1 DEF Lengths
<1>. HIDE DEF f, g, S
<1>3. SumFunctionOnSet(g, S) = SumFunctionOnSet(f, S)
  BY <1>1, <1>2, SumSame
<1>. QED  BY <1>3 DEF Held, f, g, S

(* What the steps that do not register keep of the shapes. *)
LEMMA ShapesKept ==
    ASSUME SessionsSound, total' \in Int, queue' \in [Streams -> Seq(Calls)],
           sessions' \in Seq(Streams), Distinct(sessions)',
           Registered' \subseteq Registered,
           stream' = [s \in Streams |-> stream'[s]],
           \A s \in Streams : stream'[s] = "new" => /\ stream[s] = "new"
                                                    /\ queue'[s] = queue[s]
    PROVE  SessionsSound'
<1>1. IsFiniteSet(Registered')
  BY FS_Subset DEF SessionsSound
<1>. QED  BY <1>1 DEF SessionsSound

LEMMA ConsumeKeeps ==
    ASSUME Bookkept, NEW s \in Streams, Consume(s)
    PROVE  Bookkept'
<1>1. /\ SessionsSound /\ total <= Held(Registered) /\ total \in Int
      /\ queue \in [Streams -> Seq(Calls)]
      /\ stream = [r \in Streams |-> stream[r]]
  BY HeldIs DEF Bookkept, NeverOvercounts, SessionsSound
<1>2. /\ stream[s] = "open" /\ queue[s] # <<>>
      /\ queue' = [queue EXCEPT ![s] = Tail(queue[s])]
      /\ total' = IF total > 1 THEN total - 1 ELSE 0
      /\ sessions' = sessions /\ stream' = stream
  BY DEF Consume
<1>3. /\ queue' \in [Streams -> Seq(Calls)]
      /\ Len(queue'[s]) = Len(queue[s]) - 1 /\ Len(queue[s]) \in Nat \ {0}
      /\ \A r \in Streams \ {s} : queue'[r] = queue[r]
  <2>1. /\ queue[s] \in Seq(Calls) /\ Tail(queue[s]) \in Seq(Calls)
        /\ Len(Tail(queue[s])) = Len(queue[s]) - 1 /\ Len(queue[s]) \in Nat \ {0}
    BY <1>1, <1>2
  <2>. QED  BY <1>1, <1>2, <2>1
<1>4. Registered' = Registered
  BY <1>2 DEF Registered
<1>5. SessionsSound'
  <2>1. sessions' \in Seq(Streams) /\ Distinct(sessions)'
    BY <1>1, <1>2 DEF SessionsSound, Distinct
  <2>2. \A r \in Streams : stream'[r] = "new" => stream[r] = "new" /\ queue'[r] = queue[r]
    BY <1>2, <1>3
  <2>3. total' \in Int /\ stream' = [r \in Streams |-> stream'[r]]
    BY <1>1, <1>2
  <2>. QED  BY <1>1, <1>3, <1>4, <2>1, <2>2, <2>3, ShapesKept
<1>6. total' <= SumFunctionOnSet(Lengths', Registered)
  <2>. DEFINE R == Registered
  <2>1. R \subseteq Streams /\ IsFiniteSet(R)
    BY <1>1, SessionKeys DEF SessionsSound
  <2>. HIDE DEF R
  <2>2. CASE s \in R
    <3>1. PICK rest \in Nat : /\ Held(R) = Len(queue[s]) + rest
                              /\ SumFunctionOnSet(Lengths', R) = Len(queue'[s]) + rest
      BY <1>1, <1>3, <2>1, <2>2, HeldChanged
    <3>2. total <= Len(queue[s]) + rest
      BY <1>1, <3>1 DEF R
    <3>. QED  BY <1>1, <1>2, <1>3, <3>1, <3>2 DEF R
  <2>3. CASE s \notin R
    <3>1. \A r \in Registered : queue'[r] = queue[r]
      BY <1>3, <2>1, <2>3 DEF R
    <3>2. SumFunctionOnSet(Lengths', R) = Held(R)
      BY <1>1, <1>3, <3>1, HeldSame DEF R
    <3>3. Held(R) \in Nat
      <4>1. \A r \in R : Lengths[r] \in Nat
        BY <1>1, <2>1, SessionKeys
      <4>. QED  BY <2>1, <4>1, SumNat DEF Held
    <3>4. total' <= Held(R)
      BY <1>1, <1>2, <3>3 DEF R
    <3>. QED  BY <3>2, <3>4 DEF R
  <2>. QED  BY <2>2, <2>3
<1>7. NeverOvercounts'
  BY <1>4, <1>6, HeldNext DEF NeverOvercounts
<1>8. SessionsBounded'
  BY <1>2 DEF Bookkept, SessionsBounded
<1>. QED  BY <1>5, <1>7, <1>8 DEF Bookkept

LEMMA PushKeeps ==
    ASSUME Bookkept, NEW c \in Calls, Push(c)
    PROVE  Bookkept'
<1>. DEFINE s == call[c].session
<1>1. /\ SessionsSound /\ total <= Held(Registered) /\ total \in Int
      /\ queue \in [Streams -> Seq(Calls)]
      /\ stream = [r \in Streams |-> stream[r]]
  BY HeldIs DEF Bookkept, NeverOvercounts, SessionsSound
<1>2. /\ s \in Registered
      /\ queue' = [queue EXCEPT ![s] = Append(queue[s], c)]
      /\ total' = total + 1 /\ sessions' = sessions /\ stream' = stream
  BY DEF Push
<1>3. s \in Streams
  BY <1>1, <1>2, SessionKeys
<1>. HIDE DEF s
<1>4. /\ queue' \in [Streams -> Seq(Calls)]
      /\ Len(queue'[s]) = Len(queue[s]) + 1 /\ Len(queue[s]) \in Nat
      /\ \A r \in Streams \ {s} : queue'[r] = queue[r]
  <2>1. /\ queue[s] \in Seq(Calls) /\ Append(queue[s], c) \in Seq(Calls)
        /\ Len(Append(queue[s], c)) = Len(queue[s]) + 1 /\ Len(queue[s]) \in Nat
    BY <1>1, <1>3
  <2>. QED  BY <1>1, <1>2, <1>3, <2>1
<1>5. Registered' = Registered
  BY <1>2 DEF Registered
<1>6. SessionsSound'
  <2>1. sessions' \in Seq(Streams) /\ Distinct(sessions)'
    BY <1>1, <1>2 DEF SessionsSound, Distinct
  <2>2. \A r \in Streams : stream'[r] = "new" => stream[r] = "new" /\ queue'[r] = queue[r]
    BY <1>1, <1>2, <1>4 DEF SessionsSound
  <2>3. total' \in Int /\ stream' = [r \in Streams |-> stream'[r]]
    BY <1>1, <1>2
  <2>. QED  BY <1>1, <1>4, <1>5, <2>1, <2>2, <2>3, ShapesKept
<1>7. total' <= SumFunctionOnSet(Lengths', Registered)
  <2>. DEFINE R == Registered
  <2>1. R \subseteq Streams /\ IsFiniteSet(R) /\ s \in R
    BY <1>1, <1>2, SessionKeys DEF SessionsSound
  <2>. HIDE DEF R
  <2>2. PICK rest \in Nat : /\ Held(R) = Len(queue[s]) + rest
                            /\ SumFunctionOnSet(Lengths', R) = Len(queue'[s]) + rest
    BY <1>1, <1>3, <1>4, <2>1, HeldChanged
  <2>3. total <= Len(queue[s]) + rest
    BY <1>1, <2>2 DEF R
  <2>. QED  BY <1>1, <1>2, <1>4, <2>2, <2>3 DEF R
<1>8. NeverOvercounts'
  BY <1>5, <1>7, HeldNext DEF NeverOvercounts
<1>9. SessionsBounded'
  BY <1>2 DEF Bookkept, SessionsBounded
<1>. QED  BY <1>6, <1>8, <1>9 DEF Bookkept

LEMMA CloseKeeps ==
    ASSUME Bookkept, NEW s \in Streams, Close(s)
    PROVE  Bookkept'
<1>1. /\ SessionsSound /\ total <= Held(Registered) /\ total \in Int
      /\ queue \in [Streams -> Seq(Calls)]
      /\ stream = [r \in Streams |-> stream[r]]
  BY HeldIs DEF Bookkept, NeverOvercounts, SessionsSound
<1>2. stream' = [stream EXCEPT ![s] = "closed"] /\ queue' = queue
  BY DEF Close
<1>3. /\ stream' = [r \in Streams |-> stream'[r]]
      /\ \A r \in Streams : stream'[r] = "new" => stream[r] = "new" /\ queue'[r] = queue[r]
  BY <1>1, <1>2
<1>4. CASE s \notin Registered
  <2>1. sessions' = sessions /\ total' = total
    BY <1>4 DEF Close
  <2>2. sessions' \in Seq(Streams) /\ Distinct(sessions)' /\ Registered' = Registered
    BY <1>1, <2>1 DEF SessionsSound, Distinct, Registered
  <2>3. SessionsSound'
    BY <1>1, <1>2, <1>3, <2>1, <2>2, ShapesKept
  <2>4. SumFunctionOnSet(Lengths', Registered) = Held(Registered)
    BY <1>1, <1>2, HeldSame
  <2>5. NeverOvercounts'
    BY <1>1, <2>1, <2>2, <2>4, HeldNext DEF NeverOvercounts
  <2>6. SessionsBounded'
    BY <2>1 DEF Bookkept, SessionsBounded
  <2>. QED  BY <2>3, <2>5, <2>6 DEF Bookkept
<1>5. CASE s \in Registered
  <2>. DEFINE left == total - Len(queue[s])
              R == Registered
              K == R \ {s}
  <2>1. PICK i \in DOMAIN sessions : sessions[i] = s /\ sessions' = RemoveAt(sessions, i)
    BY <1>5 DEF Close
  <2>2. total' = IF left > 0 THEN left ELSE 0
    BY <1>5 DEF Close
  <2>3. sessions \in Seq(Streams) /\ Distinct(sessions) /\ i \in 1..Len(sessions)
    BY <1>1 DEF SessionsSound
  <2>4. /\ RemoveAt(sessions, i) \in Seq(Streams) /\ Distinct(RemoveAt(sessions, i))
        /\ Len(RemoveAt(sessions, i)) = Len(sessions) - 1
        /\ {RemoveAt(sessions, i)[j] : j \in 1..Len(RemoveAt(sessions, i))}
               = {sessions[j] : j \in 1..Len(sessions)} \ {sessions[i]}
    BY <2>3, TakenOut
  <2>5. /\ sessions' \in Seq(Streams) /\ Distinct(sessions)'
        /\ Len(sessions') = Len(sessions) - 1
        /\ {sessions'[j] : j \in 1..Len(sessions')} = K
    <3>1. Distinct(sessions)'
      BY <2>1, <2>4 DEF Distinct
    <3>2. R = {sessions[j] : j \in 1..Len(sessions)}
      BY <1>1, SessionKeys
    <3>3. {sessions'[j] : j \in 1..Len(sessions')} = R \ {s}
      <4>. HIDE DEF R
      <4>. QED  BY <2>1, <2>4, <3>2
    <3>. QED  BY <2>1, <2>4, <3>1, <3>3
  <2>6. Registered' = {sessions'[j] : j \in 1..Len(sessions')}
    BY <2>5 DEF Registered, ToSet
  <2>7. Registered' = K /\ K \subseteq R
    BY <2>5, <2>6
  <2>8. total' \in Int
    BY <1>1, <2>2
  <2>9. SessionsSound'
    BY <1>1, <1>2, <1>3, <2>5, <2>7, <2>8, ShapesKept
  <2>10. Lengths' = Lengths
    BY <1>2 DEF Lengths
  <2>11. Held(K) \in Nat /\ Held(R) = Len(queue[s]) + Held(K) /\ Len(queue[s]) \in Nat
    <3>. DEFINE f == Lengths
    <3>1. (\A r \in R : f[r] \in Nat) /\ f[s] = Len(queue[s]) /\ IsFiniteSet(R) /\ s \in R
      BY <1>1, <1>5, SessionKeys DEF SessionsSound
    <3>2. \A r \in R \ {s} : f[r] = f[r]
      OBVIOUS
    <3>. HIDE DEF f, R
    <3>3. /\ SumFunctionOnSet(f, R \ {s}) \in Nat
          /\ SumFunctionOnSet(f, R) = f[s] + SumFunctionOnSet(f, R \ {s})
      BY <3>1, <3>2, SumOneOut
    <3>4. Len(queue[s]) \in Nat
      BY <1>1
    <3>. QED  BY <3>1, <3>3, <3>4 DEF Held, f
  <2>12. total' <= Held(K)
    BY <1>1, <2>2, <2>11
  <2>13. NeverOvercounts'
    BY <2>7, <2>10, <2>12, HeldNext DEF Held, NeverOvercounts
  <2>14. SessionsBounded'
    BY <2>3, <2>5, McpAssumption DEF Bookkept, SessionsBounded
  <2>. QED  BY <2>9, <2>13, <2>14 DEF Bookkept
<1>. QED  BY <1>4, <1>5

(* Steps that touch neither the sessions nor what they hold. *)
LEMMA OthersKeep ==
    ASSUME Bookkept, UNCHANGED <<sessions, queue, total>>,
           \/ stream' = stream
           \/ \E s \in Streams, to \in {"open", "abandoned"} :
                  stream' = [stream EXCEPT ![s] = to]
    PROVE  Bookkept'
<1>1. /\ stream' = [r \in Streams |-> stream'[r]]
      /\ \A r \in Streams : stream'[r] = "new" => stream[r] = "new" /\ queue'[r] = queue[r]
  BY DEF Bookkept, SessionsSound
<1>2. Registered' = Registered /\ Lengths' = Lengths
  BY DEF Registered, Lengths
<1>3. /\ sessions' \in Seq(Streams) /\ Distinct(sessions)' /\ SessionsSound
      /\ total' \in Int /\ queue' \in [Streams -> Seq(Calls)]
  BY DEF Bookkept, SessionsSound, Distinct
<1>4. SessionsSound'
  BY <1>1, <1>2, <1>3, ShapesKept
<1>5. NeverOvercounts'
  BY <1>2, HeldIs, HeldNext DEF Held, Bookkept, NeverOvercounts
<1>6. SessionsBounded'
  BY DEF Bookkept, SessionsBounded
<1>. QED  BY <1>4, <1>5, <1>6 DEF Bookkept

LEMMA Bookkeeping == SessionsSpec => []Bookkept
<1>1. SessionsInit => Bookkept
  BY BookkeepingStarts
<1>2. ASSUME Bookkept, [SessionsNext]_sessionsVars PROVE Bookkept'
  <2>1. ASSUME NEW s \in Streams, StartStream(s) \/ Abandon(s) PROVE Bookkept'
    BY <1>2, <2>1, OthersKeep DEF StartStream, Abandon
  <2>2. ASSUME NEW c \in Calls, Dispatch(c) \/ NotFound(c) \/ QueueFull(c)
        PROVE  Bookkept'
    BY <1>2, <2>2, OthersKeep DEF Dispatch, NotFound, QueueFull
  <2>3. CASE UNCHANGED sessionsVars
    BY <1>2, <2>3, OthersKeep DEF sessionsVars
  <2>. QED
    BY <1>2, <2>1, <2>2, <2>3, RegisterKeeps, ConsumeKeeps, CloseKeeps, PushKeeps
    DEF SessionsNext
<1>. QED  BY <1>1, <1>2, PTL DEF SessionsSpec

(* The global count is never above what the registered queues hold: an
   eviction, a late read of an evicted stream, a close and a push may make it
   too small, never too large, so that no session is evicted for a pressure
   nobody exerts (mcp.py:59-95, 114-144, 300-330). *)
THEOREM CountNotAbove == SessionsSpec => []NeverOvercounts
<1>1. Bookkept => NeverOvercounts
  BY DEF Bookkept
<1>. QED  BY Bookkeeping, <1>1, PTL

(* The cap on sessions holds at every registration, whatever mix of time
   outs, pressure, disconnects and abandoned streams came before
   (_evict_stale_sessions, mcp.py:59-95). *)
THEOREM CapHolds == SessionsSpec => []SessionsBounded
<1>1. Bookkept => SessionsBounded
  BY DEF Bookkept
<1>. QED  BY Bookkeeping, <1>1, PTL
-----------------------------------------------------------------------------
(* The embedding worker.                                                   *)

\* What the loop still has to write has no vector yet: only the loop gives
\* one, and a migration takes all of them.
BatchIsPending ==
    /\ emb = [m \in Msgs |-> emb[m]]
    /\ loop \in {"embed", "store", "zero"} =>
           /\ batch # {} /\ batch \subseteq Msgs
           /\ \A m \in batch : emb[m].state = "null"

VectorKept ==
    \A m \in Msgs : emb[m].state = "vector" /\ migration' = migration => emb'[m] = emb[m]

LEMMA FirstOfBatch ==
    ASSUME NEW b, b \subseteq Msgs, b # {}
    PROVE  Min(b) \in b
<1>1. b \subseteq Nat
  BY EmbeddingAssumption DEF Msgs
<1>. QED  BY <1>1, LeastElement

(* A row is written: the first of the batch, which goes. *)
LEMMA RowKeeps ==
    ASSUME BatchIsPending, loop \in {"store", "zero"},
           NEW st, NEW next \in {"index", "config"}, WriteRow(st, next)
    PROVE  BatchIsPending' /\ VectorKept
<1>. DEFINE m == Min(batch)
<1>1. /\ batch # {} /\ batch \subseteq Msgs /\ \A n \in batch : emb[n].state = "null"
      /\ emb = [n \in Msgs |-> emb[n]]
  BY DEF BatchIsPending
<1>2. m \in batch
  BY <1>1, FirstOfBatch
<1>3. /\ emb' = [emb EXCEPT ![m] = Embedding(st, cfg)] /\ batch' = batch \ {m}
      /\ loop' = IF batch' = {} THEN next ELSE loop
  BY DEF WriteRow
<1>. HIDE DEF m
<1>4. /\ \A n \in Msgs \ {m} : emb'[n] = emb[n]
      /\ emb' = [n \in Msgs |-> emb'[n]]
  BY <1>1, <1>3
<1>5. BatchIsPending'
  BY <1>1, <1>2, <1>3, <1>4 DEF BatchIsPending
<1>6. emb[m].state # "vector"
  BY <1>1, <1>2
<1>7. VectorKept
  BY <1>4, <1>6 DEF VectorKept
<1>. QED  BY <1>5, <1>7

LEMMA LoopKeeps ==
    ASSUME BatchIsPending, Step
    PROVE  BatchIsPending' /\ VectorKept
<1>1. CASE Fetch
  <2>1. /\ batch' \subseteq Msgs /\ \A m \in batch' : emb[m].state = "null"
        /\ emb' = emb /\ loop' = IF batch' = {} THEN "config" ELSE "embed"
    BY <1>1 DEF Fetch, FirstPending, Pending, InState
  <2>. QED  BY <2>1 DEF BatchIsPending, VectorKept
<1>2. CASE LoadConfig \/ TypeColumn
  <2>1. emb' = emb /\ loop' \in {"fetch", "config"}
    BY <1>2 DEF LoadConfig, TypeColumn
  <2>. QED  BY <2>1 DEF BatchIsPending, VectorKept
<1>3. CASE Embed
  BY <1>3 DEF Embed, BatchIsPending, VectorKept
<1>4. CASE EmbedRefused \/ EmbedTimesOut \/ EmbedDies
  <2>1. /\ emb' = emb /\ batch' = batch /\ loop = "embed"
        /\ loop' \in {"zero", "config", "dead"}
    BY <1>4 DEF EmbedRefused, EmbedTimesOut, EmbedDies
  <2>. QED  BY <2>1 DEF BatchIsPending, VectorKept
<1>5. CASE StoreVector
  BY <1>5, RowKeeps DEF StoreVector
<1>6. CASE StoreZero
  BY <1>6, RowKeeps DEF StoreZero
<1>7. CASE DbError
  <2>1. emb' = emb /\ loop' = "config"
    BY <1>7 DEF DbError
  <2>. QED  BY <2>1 DEF BatchIsPending, VectorKept
<1>. QED  BY <1>1, <1>2, <1>3, <1>4, <1>5, <1>6, <1>7 DEF Step

(* Storing a message and migrating, beside the loop. *)
LEMMA BesideLoopKeeps ==
    ASSUME BatchIsPending, StoreMessage \/ MigrateConfig \/ MigrateWipe
    PROVE  BatchIsPending' /\ VectorKept
<1>0. emb = [m \in Msgs |-> emb[m]]
  BY DEF BatchIsPending
<1>1. CASE StoreMessage
  <2>1. PICK m \in Msgs : emb[m].state = "absent"
                              /\ emb' = [emb EXCEPT ![m].state = "null"]
    BY <1>1 DEF StoreMessage, InState
  <2>2. /\ \A n \in Msgs \ {m} : emb'[n] = emb[n]
        /\ emb' = [n \in Msgs |-> emb'[n]]
    BY <1>0, <2>1
  <2>3. loop' = loop /\ batch' = batch
    BY <1>1 DEF StoreMessage, loopState
  <2>. QED  BY <2>1, <2>2, <2>3 DEF BatchIsPending, VectorKept
<1>2. CASE MigrateConfig
  BY <1>2 DEF MigrateConfig, loopState, BatchIsPending, VectorKept
<1>3. CASE MigrateWipe
  <2>1. /\ loop' = loop /\ batch' = batch /\ migration' # migration
        /\ emb' = [m \in Msgs |-> IF emb[m].state = "absent" THEN emb[m]
                                      ELSE Embedding("null", emb[m].by)]
    BY <1>3 DEF MigrateWipe, loopState
  <2>2. \A m \in Msgs : emb[m].state = "null" => emb'[m].state = "null"
    BY <2>1 DEF Embedding
  <2>. QED  BY <2>1, <2>2 DEF BatchIsPending, VectorKept
<1>. QED  BY <1>1, <1>2, <1>3

(* A vector that a message has got stays until a migration: the ids a batch
   carries across the awaits of the loop are of messages without one, whatever
   failed, timed out or was dropped in between (db_worker.py:65-224). *)
THEOREM NoVectorReplaced == EmbeddingSpec => VectorsKept
<1>1. EmbeddingInit => BatchIsPending
  BY DEF EmbeddingInit, BatchIsPending
<1>2. ASSUME BatchIsPending, [EmbeddingNext]_embeddingVars
      PROVE  BatchIsPending' /\ [VectorKept]_embeddingVars
  <2>1. CASE UNCHANGED embeddingVars
    BY <1>2, <2>1 DEF embeddingVars, BatchIsPending
  <2>. QED  BY <1>2, <2>1, LoopKeeps, BesideLoopKeeps DEF EmbeddingNext
<1>3. BatchIsPending /\ [EmbeddingNext]_embeddingVars => BatchIsPending'
  BY <1>2
<1>4. BatchIsPending /\ [EmbeddingNext]_embeddingVars
          => [\A m \in Msgs : emb[m].state = "vector" /\ migration' = migration
                  => emb'[m] = emb[m]]_embeddingVars
  BY <1>2 DEF VectorKept
<1>. QED  BY <1>1, <1>3, <1>4, PTL DEF EmbeddingSpec, VectorsKept
=============================================================================
