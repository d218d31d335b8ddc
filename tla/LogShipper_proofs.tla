-------------------------- MODULE LogShipper_proofs --------------------------
(***************************************************************************)
(* Proofs about LogShipper, for any number of containers, tails, lines,    *)
(* crashes and any size of queue and batch.  A line that waits in the      *)
(* queue has every earlier line of its container before it: in the table,  *)
(* among the dropped, in the batch, or ahead in the queue.                 *)
(***************************************************************************)
EXTENDS LogShipper, SetLemmas

-----------------------------------------------------------------------------
At == {"none", "created", "new", "reading", "cancelled"}

TailsTyped ==
    /\ active \in [Containers -> TaskIds \cup {0}]
    /\ tail \in [TaskIds -> [of : Containers \cup {NoTail.of}, at : At, next : Nat \ {0}]]
    /\ \A t \in TaskIds : tail[t].at # "none" => tail[t].of \in Containers
    /\ ActiveIsTail

Typed ==
    /\ log \in [Containers -> Seq(Nat)] /\ now \in Nat
    /\ \A c \in Containers : Len(log[c]) <= MaxLines
    /\ queue \in Seq(Line) /\ batch \in Seq(Line)
    /\ stored \subseteq Line
    /\ TailsTyped

LEMMA InitTyped == Init => Typed
<1>1. NoTail \in [of : Containers \cup {NoTail.of}, at : At, next : Nat \ {0}] /\ NoTail.at = "none"
  BY DEF NoTail, At
<1>. QED  BY <1>1, ShipperAssumption DEF Init, Typed, TailsTyped, ActiveIsTail, Line

\* One tail becomes x; every entry of active_tasks that stays names a tail of
\* its container.
LEMMA TailMove ==
    ASSUME TailsTyped, NEW t \in TaskIds,
           NEW x \in [of : Containers \cup {NoTail.of}, at : At, next : Nat \ {0}],
           x.at # "none" => x.of \in Containers,
           tail' = [tail EXCEPT ![t] = x],
           active' \in [Containers -> TaskIds \cup {0}],
           \A c \in Containers : active'[c] # 0 =>
               \/ active'[c] = t /\ x.of = c /\ x.at # "none"
               \/ active'[c] = active[c] /\ active[c] # t
    PROVE  TailsTyped'
<1>1. tail' \in [TaskIds -> [of : Containers \cup {NoTail.of}, at : At, next : Nat \ {0}]]
  BY DEF TailsTyped
<1>2. \A u \in TaskIds : tail'[u] = IF u = t THEN x ELSE tail[u]
  BY DEF TailsTyped
<1>3. \A u \in TaskIds : tail'[u].at # "none" => tail'[u].of \in Containers
  BY <1>2 DEF TailsTyped
<1>4. \A c \in Containers : active'[c] # 0 => active'[c] \in TaskIds
  OBVIOUS
<1>5. ActiveIsTail'
  BY <1>2, <1>4 DEF TailsTyped, ActiveIsTail
<1>. QED  BY <1>1, <1>3, <1>5 DEF TailsTyped

LEMMA StartTyped ==
    ASSUME Typed, NEW c \in Containers, StartTail(c)
    PROVE  \E t \in FreeTasks :
               /\ tail' = [tail EXCEPT ![t] = [of |-> c, at |-> "created", next |-> 1]]
               /\ active' = [active EXCEPT ![c] = t]
<1>1. FreeTasks # {} /\ FreeTasks \subseteq Nat
  BY ShipperAssumption DEF StartTail, FreeTasks
<1>2. Min(FreeTasks) \in FreeTasks
  BY <1>1, LeastElement
<1>. QED  BY <1>2 DEF StartTail

\* What the watcher does with a container: nothing, a new tail, the end of one.
LEMMA WatchSteps ==
    ASSUME Typed, Watch
    PROVE  /\ UNCHANGED <<log, now, queue, batch, stored, dropped>>
           /\ \/ UNCHANGED <<tail, active>>
              \/ \E c \in Containers, t \in FreeTasks :
                     /\ active[c] = 0
                     /\ tail' = [tail EXCEPT ![t] = [of |-> c, at |-> "created", next |-> 1]]
                     /\ active' = [active EXCEPT ![c] = t]
              \/ \E c \in Containers :
                     /\ active[c] # 0
                     /\ tail' = [tail EXCEPT ![active[c]] = IF @.at = "created" THEN NoTail
                                                    ELSE [@ EXCEPT !.at = "cancelled"]]
                     /\ active' = [active EXCEPT ![c] = 0]
<1>1. CASE Subscribe
  BY <1>1 DEF Subscribe, world, record
<1>2. ASSUME NEW c \in Containers, ScanOne(c) \/ OnConnect(c)
      PROVE  /\ UNCHANGED <<log, now, queue, batch, stored, dropped>>
             /\ \/ UNCHANGED <<tail, active>>
                \/ active[c] = 0 /\ StartTail(c)
  BY <1>2 DEF ScanOne, OnConnect, world, record
<1>3. ASSUME NEW c \in Containers, OnDisconnect(c)
      PROVE  /\ UNCHANGED <<log, now, queue, batch, stored, dropped>>
             /\ \/ UNCHANGED <<tail, active>>
                \/ /\ active[c] # 0
                   /\ tail' = [tail EXCEPT ![active[c]] = IF @.at = "created" THEN NoTail
                                                  ELSE [@ EXCEPT !.at = "cancelled"]]
                   /\ active' = [active EXCEPT ![c] = 0]
  BY <1>3 DEF OnDisconnect, world, record
<1>. QED  BY <1>1, <1>2, <1>3, StartTyped DEF Watch

LEMMA TypedWatch == ASSUME Typed, Watch PROVE Typed'
<1>1. UNCHANGED <<log, now, queue, batch, stored>>
  BY WatchSteps
<1>2. TailsTyped
  BY DEF Typed
<1>3. TailsTyped'
  <2>1. CASE UNCHANGED <<tail, active>>
    BY <1>2, <2>1 DEF TailsTyped, ActiveIsTail
  <2>2. ASSUME NEW c \in Containers, NEW t \in FreeTasks,
               tail' = [tail EXCEPT ![t] = [of |-> c, at |-> "created", next |-> 1]],
               active' = [active EXCEPT ![c] = t]
        PROVE  TailsTyped'
    <3>1. t \in TaskIds /\ tail[t].at = "none"
      BY DEF FreeTasks
    <3>2. active' \in [Containers -> TaskIds \cup {0}]
      BY <1>2, <2>2, <3>1 DEF TailsTyped
    <3>3. \A d \in Containers : active'[d] # 0 =>
              \/ active'[d] = t /\ d = c
              \/ active'[d] = active[d] /\ active[d] # t
      BY <1>2, <2>2, <3>1 DEF TailsTyped, ActiveIsTail
    <3>. DEFINE x == [of |-> c, at |-> "created", next |-> 1]
    <3>4. /\ x \in [of : Containers \cup {NoTail.of}, at : At, next : Nat \ {0}]
          /\ x.of = c /\ x.at # "none"
      BY DEF At
    <3>5. tail' = [tail EXCEPT ![t] = x]
      BY <2>2
    <3>. HIDE DEF x
    <3>. QED  BY <1>2, <3>1, <3>2, <3>3, <3>4, <3>5, TailMove
  <2>3. ASSUME NEW c \in Containers, active[c] # 0,
               tail' = [tail EXCEPT ![active[c]] = IF @.at = "created" THEN NoTail
                                              ELSE [@ EXCEPT !.at = "cancelled"]],
               active' = [active EXCEPT ![c] = 0]
        PROVE  TailsTyped'
    <3>. DEFINE t == active[c]
                x == IF tail[t].at = "created" THEN NoTail
                     ELSE [tail[t] EXCEPT !.at = "cancelled"]
    <3>1. t \in TaskIds /\ tail[t].of \in Containers
      BY <1>2, <2>3 DEF TailsTyped, ActiveIsTail
    <3>2. /\ x \in [of : Containers \cup {NoTail.of}, at : At, next : Nat \ {0}]
          /\ x.at # "none" => x.of \in Containers
      <4>1. CASE tail[t].at = "created"
        BY <4>1 DEF NoTail, At
      <4>2. CASE tail[t].at # "created"
        <5>1. /\ tail[t] \in [of : Containers \cup {NoTail.of}, at : At, next : Nat \ {0}]
              /\ x = [tail[t] EXCEPT !.at = "cancelled"]
          BY <1>2, <3>1, <4>2 DEF TailsTyped
        <5>. QED  BY <3>1, <5>1 DEF At
      <4>. QED  BY <4>1, <4>2
    <3>3. tail' = [tail EXCEPT ![t] = x]
      BY <2>3
    <3>4. active' \in [Containers -> TaskIds \cup {0}]
      BY <1>2, <2>3 DEF TailsTyped
    <3>5. \A d \in Containers : active'[d] # 0 => active'[d] = active[d] /\ active[d] # t
      BY <1>2, <2>3 DEF TailsTyped, ActiveIsTail
    <3>. HIDE DEF x, t
    <3>. QED  BY <1>2, <3>1, <3>2, <3>3, <3>4, <3>5, TailMove
  <2>. QED  BY <2>1, <2>2, <2>3, WatchSteps
<1>. QED  BY <1>1, <1>3 DEF Typed

-----------------------------------------------------------------------------
(* The steps of one tail and of the writer.                                *)

LEMMA SinceFacts ==
    ASSUME Typed, NothingSkipped, NEW c \in Containers
    PROVE  /\ Since(c) \in Nat \ {0}
           /\ \A j \in 1..(Since(c) - 1) : <<c, j>> \in stored \cup dropped
<1>. DEFINE S == {i \in 1..MaxLines : <<c, i>> \in stored} \cup {0}
            h == HighWater(c)
            T == {i \in 1..Len(log[c]) : h = 0 \/ log[c][i] >= log[c][h]}
                     \cup {Len(log[c]) + 1}
<1>1. MaxLines \in Nat /\ Len(log[c]) \in Nat /\ log[c] \in Seq(Nat)
  BY ShipperAssumption DEF Typed
<1>2. h \in S
  <2>1. S \subseteq 0..MaxLines /\ S # {}
    <3>1. \A i \in {k \in 1..MaxLines : <<c, k>> \in stored} : i \in 0..MaxLines
      BY <1>1
    <3>2. 0 \in 0..MaxLines /\ 0 \in S
      BY <1>1
    <3>. QED  BY <3>1, <3>2
  <2>. HIDE DEF S
  <2>2. Max(S) \in S
    BY <1>1, <2>1, GreatestElement
  <2>. QED  BY <2>2 DEF HighWater, S
<1>3. T \subseteq Nat \ {0} /\ T # {} /\ Since(c) = Min(T)
  BY <1>1 DEF Since
<1>4. Since(c) \in T /\ \A y \in T : Since(c) <= y
  <2>. HIDE DEF T
  <2>. QED  BY <1>3, LeastElement
<1>5. CASE h = 0
  <2>1. 1 \in T
    BY <1>1, <1>5
  <2>2. Since(c) <= 1
    BY <1>4, <2>1
  <2>3. Since(c) \in Nat \ {0}
    BY <1>3, <1>4
  <2>. QED  BY <2>2, <2>3
<1>6. CASE h # 0
  <2>1. h \in 1..MaxLines /\ <<c, h>> \in stored
    BY <1>2, <1>6
  <2>2. h <= Len(log[c]) /\ \A j \in 1..h : <<c, j>> \in stored \cup dropped
    BY <2>1 DEF NothingSkipped
  <2>3. log[c][h] \in Nat
    BY <1>1, <2>1, <2>2
  <2>4. h \in T
    BY <1>1, <2>1, <2>2, <2>3
  <2>5. Since(c) <= h /\ Since(c) \in Nat \ {0}
    BY <1>3, <1>4, <2>4
  <2>6. \A j \in 1..(Since(c) - 1) : j \in 1..h
    BY <2>1, <2>5
  <2>. QED  BY <2>2, <2>5, <2>6
<1>. QED  BY <1>5, <1>6

\* What a task does with its tail: it moves on for the same container, or ends.
LEMMA TypedTask ==
    ASSUME Typed, NothingSkipped, NEW t \in TaskIds, Follow(t) \/ TailFails(t)
    PROVE  TailsTyped'
<1>. DEFINE Rec == [of : Containers \cup {NoTail.of}, at : At, next : Nat \ {0}]
<1>1. TailsTyped /\ tail[t] \in Rec
  BY DEF Typed, TailsTyped
<1>2. tail[t].at # "none" => tail[t].of \in Containers
  BY <1>1 DEF TailsTyped
<1>3. CASE UNCHANGED active /\ \E x \in Rec : /\ tail' = [tail EXCEPT ![t] = x]
                                            /\ x.of = tail[t].of
                                            /\ tail[t].at # "none" /\ x.at # "none"
  <2>1. PICK x \in Rec : /\ tail' = [tail EXCEPT ![t] = x]
                         /\ x.of = tail[t].of /\ tail[t].at # "none" /\ x.at # "none"
    BY <1>3
  <2>2. \A c \in Containers : active'[c] # 0 =>
            \/ active'[c] = t /\ x.of = c /\ x.at # "none"
            \/ active'[c] = active[c] /\ active[c] # t
    BY <1>1, <1>3, <2>1 DEF TailsTyped, ActiveIsTail
  <2>3. active' \in [Containers -> TaskIds \cup {0}]
    BY <1>1, <1>3 DEF TailsTyped
  <2>. QED  BY <1>1, <1>2, <2>1, <2>2, <2>3, TailMove
<1>4. CASE LeaveBody(t) /\ tail[t].at # "none"
  <2>1. NoTail \in Rec /\ NoTail.at = "none"
    BY DEF NoTail, At
  <2>2. active' \in [Containers -> TaskIds \cup {0}]
    BY <1>1, <1>4 DEF LeaveBody, TailsTyped
  <2>3. \A c \in Containers : active'[c] # 0 => active'[c] = active[c] /\ active[c] # t
    BY <1>1, <1>4 DEF LeaveBody, TailsTyped, ActiveIsTail
  <2>4. tail' = [tail EXCEPT ![t] = NoTail]
    BY <1>4 DEF LeaveBody
  <2>. QED  BY <1>1, <2>1, <2>2, <2>3, <2>4, TailMove
<1>5. CASE BeginTail(t)
  <2>. DEFINE x == [tail[t] EXCEPT !.at = "new"]
  <2>1. x \in Rec /\ x.of = tail[t].of /\ x.at = "new"
    BY <1>1 DEF At
  <2>. QED  BY <1>3, <1>5, <2>1 DEF BeginTail
<1>6. CASE OpenLog(t)
  <2>. DEFINE n == Since(tail[t].of)
  <2>1. n \in Nat \ {0}
    BY <1>2, <1>6, SinceFacts DEF OpenLog
  <2>. HIDE DEF n
  <2>. DEFINE x == [tail[t] EXCEPT !.at = "reading", !.next = n]
  <2>2. x \in Rec /\ x.of = tail[t].of /\ x.at = "reading"
    BY <1>1, <2>1 DEF At
  <2>3. tail' = [tail EXCEPT ![t] = x]
    BY <1>6 DEF OpenLog, n
  <2>4. tail[t].at = "new" /\ UNCHANGED active
    BY <1>6 DEF OpenLog
  <2>. HIDE DEF x
  <2>. QED  BY <1>3, <2>2, <2>3, <2>4
<1>7. CASE ReadLine(t) \/ DropLine(t)
  <2>. DEFINE x == [tail[t] EXCEPT !.next = @ + 1]
  <2>1. x \in Rec /\ x.of = tail[t].of /\ x.at = tail[t].at
    BY <1>1
  <2>2. tail' = [tail EXCEPT ![t] = x] /\ tail[t].at = "reading" /\ UNCHANGED active
    BY <1>7 DEF ReadLine, DropLine, HasLine
  <2>. HIDE DEF x
  <2>. QED  BY <1>3, <2>1, <2>2
<1>8. CASE EndTail(t) \/ TailFails(t)
  BY <1>4, <1>8 DEF EndTail, TailFails
<1>. QED  BY <1>5, <1>6, <1>7, <1>8 DEF Follow

LEMMA TypedFollow ==
    ASSUME Typed, NothingSkipped, NEW t \in TaskIds, Follow(t) \/ TailFails(t)
    PROVE  Typed'
<1>1. TailsTyped' /\ UNCHANGED <<log, now, batch, stored>>
  BY TypedTask DEF Follow, BeginTail, OpenLog, ReadLine, DropLine, EndTail, TailFails,
                   world, record
<1>2. UNCHANGED queue \/ ReadLine(t)
  BY DEF Follow, BeginTail, OpenLog, DropLine, EndTail, TailFails
<1>3. ASSUME ReadLine(t) PROVE queue' \in Seq(Line)
  <2>1. /\ tail[t].of \in Containers /\ tail[t].next \in Nat \ {0}
        /\ tail[t].next <= Len(log[tail[t].of])
    BY <1>3 DEF ReadLine, HasLine, Typed, TailsTyped
  <2>2. tail[t].next \in 1..MaxLines
    BY <2>1, ShipperAssumption DEF Typed
  <2>3. <<tail[t].of, tail[t].next>> \in Line
    BY <2>1, <2>2 DEF Line
  <2>. QED  BY <1>3, <2>3 DEF ReadLine, Typed
<1>. QED  BY <1>1, <1>2, <1>3 DEF Typed

LEMMA TypedStep == ASSUME Typed, NothingSkipped, [Next]_vars PROVE Typed'
<1>1. ASSUME NEW c \in Containers, LogLine(c) PROVE Typed'
  <2>1. /\ log' \in [Containers -> Seq(Nat)]
        /\ \A d \in Containers : Len(log'[d]) <= MaxLines
    BY <1>1, ShipperAssumption DEF LogLine, Typed
  <2>2. UNCHANGED <<now, queue, batch, stored, tail, active>>
    BY <1>1 DEF LogLine, shipper, record
  <2>. QED  BY <2>1, <2>2 DEF Typed, TailsTyped, ActiveIsTail
<1>2. CASE Tick
  BY <1>2 DEF Tick, shipper, record, Typed, TailsTyped, ActiveIsTail
<1>3. ASSUME NEW c \in Containers, Move(c) PROVE Typed'
  BY <1>3 DEF Move, record, Typed, TailsTyped, ActiveIsTail
<1>4. CASE Crash
  <2>1. NoTail \in [of : Containers \cup {NoTail.of}, at : At, next : Nat \ {0}]
          /\ NoTail.at = "none"
    BY DEF NoTail, At
  <2>2. TailsTyped'
    BY <1>4, <2>1 DEF Crash, TailsTyped, ActiveIsTail
  <2>. QED  BY <1>4, <2>2 DEF Crash, world, Typed
<1>5. CASE TakeLine
  <2>1. queue \in Seq(Line) /\ queue # <<>> /\ batch \in Seq(Line)
    BY <1>5 DEF TakeLine, Typed
  <2>2. queue' \in Seq(Line) /\ batch' \in Seq(Line)
    BY <1>5, <2>1 DEF TakeLine
  <2>. QED  BY <1>5, <2>2 DEF TakeLine, world, record, Typed, TailsTyped, ActiveIsTail
<1>6. CASE WriteBatch \/ WriteFails
  <2>1. ToSet(batch) \subseteq Line
    BY DEF Typed, ToSet
  <2>2. stored' \subseteq Line /\ batch' = <<>>
    BY <1>6, <2>1 DEF WriteBatch, WriteFails, Typed
  <2>. QED  BY <1>6, <2>2 DEF WriteBatch, WriteFails, world, Typed, TailsTyped, ActiveIsTail
<1>7. CASE UNCHANGED vars
  BY <1>7 DEF vars, shipper, world, record, Typed, TailsTyped, ActiveIsTail
<1>. QED
  BY <1>1, <1>2, <1>3, <1>4, <1>5, <1>6, <1>7, TypedWatch, TypedFollow DEF Next

-----------------------------------------------------------------------------
(* The order of the lines.                                                 *)

\* The lines that have left the queue, and those that leave it before the i-th.
Out == stored \cup dropped \cup ToSet(batch)
Ahead(i) == Out \cup {queue[k] : k \in 1..(i - 1)}

\* A line was logged, and every earlier line of its container is in S.
Follows(line, S) ==
    /\ line[2] <= Len(log[line[1]])
    /\ \A j \in 1..(line[2] - 1) : <<line[1], j>> \in S

Ordered ==
    /\ \A i \in 1..Len(queue) : Follows(queue[i], Ahead(i))
    /\ \A line \in ToSet(batch) : Follows(line, Out)
    /\ \A t \in TaskIds : tail[t].at = "reading" =>
           \A j \in 1..(tail[t].next - 1) : <<tail[t].of, j>> \in Out \cup ToSet(queue)

IInv == Typed /\ Ordered /\ NothingSkipped

\* A step that leaves the lines where they are and reads none.
LEMMA OrderedQuiet ==
    ASSUME IInv, UNCHANGED <<queue, batch, stored, dropped>>,
           \A c \in Containers : Len(log'[c]) \in Nat /\ Len(log'[c]) >= Len(log[c]),
           \A t \in TaskIds : tail'[t].at = "reading" => tail'[t] = tail[t]
    PROVE  Ordered' /\ NothingSkipped'
<1>1. Typed /\ Ordered /\ NothingSkipped
  BY DEF IInv
<1>2. Out' = Out /\ ToSet(queue') = ToSet(queue) /\ \A i \in Nat : Ahead(i)' = Ahead(i)
  BY DEF Out, Ahead
<1>3. \A line \in Line : \A S : Follows(line, S) => Follows(line, S)'
  BY <1>1 DEF Follows, Line, Typed
<1>4. ToSet(batch) \subseteq Line /\ \A i \in 1..Len(queue) : queue[i] \in Line
  BY <1>1 DEF Typed, ToSet
<1>5. NothingSkipped'
  <2>1. \A c \in Containers, k \in 1..MaxLines : k <= Len(log[c]) => k <= Len(log'[c])
    BY <1>1 DEF Typed
  <2>. QED  BY <1>1, <2>1 DEF NothingSkipped
<1>6. \A i \in 1..Len(queue') : Follows(queue[i], Ahead(i))'
  BY <1>1, <1>2, <1>3, <1>4 DEF Ordered
<1>7. \A line \in ToSet(batch') : Follows(line, Out)'
  BY <1>1, <1>2, <1>3, <1>4 DEF Ordered
<1>8. \A t \in TaskIds : tail'[t].at = "reading" =>
          \A j \in 1..(tail'[t].next - 1) : <<tail'[t].of, j>> \in Out' \cup ToSet(queue')
  BY <1>1, <1>2 DEF Ordered
<1>. QED  BY <1>5, <1>6, <1>7, <1>8 DEF Ordered

\* What each step does to the lines.
LEMMA OrderedOpen ==
    ASSUME IInv, NEW t \in TaskIds, OpenLog(t)
    PROVE  Ordered' /\ NothingSkipped'
<1>. DEFINE c == tail[t].of
<1>1. Typed /\ Ordered /\ NothingSkipped /\ tail[t].at = "new" /\ c \in Containers
  BY DEF IInv, OpenLog, Typed, TailsTyped
<1>2. \A j \in 1..(Since(c) - 1) : <<c, j>> \in stored \cup dropped
  BY <1>1, SinceFacts
<1>3. UNCHANGED <<queue, batch, stored, dropped, log>>
  BY DEF OpenLog, world, record
<1>4. Out' = Out /\ ToSet(queue') = ToSet(queue) /\ \A i \in Nat : Ahead(i)' = Ahead(i)
  BY <1>3 DEF Out, Ahead
<1>5. \A u \in TaskIds : \/ tail'[u] = tail[u]
                         \/ u = t /\ tail'[u].of = c /\ tail'[u].next = Since(c)
  BY <1>1 DEF OpenLog, Typed, TailsTyped
<1>6. \A u \in TaskIds : tail'[u].at = "reading" =>
          \A j \in 1..(tail'[u].next - 1) : <<tail'[u].of, j>> \in Out' \cup ToSet(queue')
  <2>1. \A j \in 1..(Since(c) - 1) : <<c, j>> \in Out'
    BY <1>2, <1>4 DEF Out
  <2>. HIDE DEF c
  <2>. QED  BY <1>1, <1>4, <1>5, <2>1 DEF Ordered
<1>7. NothingSkipped'
  BY <1>1, <1>3 DEF NothingSkipped
<1>. QED  BY <1>1, <1>3, <1>4, <1>6, <1>7 DEF Ordered, Follows

LEMMA OrderedRead ==
    ASSUME IInv, NEW t \in TaskIds, ReadLine(t)
    PROVE  Ordered' /\ NothingSkipped'
<1>. DEFINE new == <<tail[t].of, tail[t].next>>
<1>1. /\ Typed /\ Ordered /\ NothingSkipped
      /\ tail[t].at = "reading" /\ tail[t].of \in Containers /\ tail[t].next \in Nat \ {0}
      /\ tail[t].next <= Len(log[tail[t].of])
  BY DEF IInv, ReadLine, HasLine, Typed, TailsTyped
<1>2. UNCHANGED <<batch, stored, dropped, log>> /\ queue \in Seq(Line)
  BY <1>1 DEF ReadLine, world, record, Typed
<1>3. /\ queue' = Append(queue, new) /\ Len(queue') = Len(queue) + 1
      /\ \A i \in 1..Len(queue) : queue'[i] = queue[i]
      /\ queue'[Len(queue) + 1] = new
  BY <1>2 DEF ReadLine
<1>4. Out' = Out /\ ToSet(queue') = ToSet(queue) \cup {new}
  <2>1. Out' = Out
    BY <1>2 DEF Out
  <2>2. \A l : l \in ToSet(queue') <=> l \in ToSet(queue) \/ l = new
    <3>1. \A l : l \in ToSet(queue) <=> \E i \in 1..Len(queue) : queue[i] = l
      BY <1>2 DEF ToSet
    <3>2. \A l : l \in ToSet(queue') <=> \E i \in 1..(Len(queue) + 1) : queue'[i] = l
      BY <1>2, <1>3 DEF ToSet
    <3>3. Len(queue) \in Nat
      BY <1>2
    <3>. HIDE DEF new
    <3>. QED  BY <1>3, <3>1, <3>2, <3>3
  <2>. QED  BY <2>1, <2>2
<1>5. \A i \in 1..(Len(queue) + 1) : Ahead(i)' = Ahead(i)
  <2>1. \A i \in 1..(Len(queue) + 1) : \A k \in 1..(i - 1) : queue'[k] = queue[k]
    BY <1>2, <1>3
  <2>. QED  BY <1>4, <2>1 DEF Ahead
<1>6. Ahead(Len(queue) + 1) = Out \cup ToSet(queue)
  BY <1>2 DEF Ahead, ToSet
<1>7. Follows(new, Out \cup ToSet(queue))
  BY <1>1 DEF Ordered, Follows
<1>8. \A u \in TaskIds : tail'[u].at = "reading" =>
          \A j \in 1..(tail'[u].next - 1) : <<tail'[u].of, j>> \in Out' \cup ToSet(queue')
  <2>1. ASSUME NEW u \in TaskIds, u # t, tail'[u].at = "reading"
        PROVE  \A j \in 1..(tail'[u].next - 1) : <<tail'[u].of, j>> \in Out' \cup ToSet(queue')
    <3>1. tail'[u] = tail[u]
      BY <1>1, <2>1 DEF ReadLine, Typed, TailsTyped
    <3>. QED  BY <1>1, <1>4, <2>1, <3>1 DEF Ordered
  <2>2. \A j \in 1..(tail'[t].next - 1) : <<tail'[t].of, j>> \in Out' \cup ToSet(queue')
    <3>1. tail'[t].of = tail[t].of /\ tail'[t].next = tail[t].next + 1
      BY <1>1 DEF ReadLine, Typed, TailsTyped
    <3>2. \A j \in 1..(tail[t].next - 1) : <<tail[t].of, j>> \in Out \cup ToSet(queue)
      BY <1>1 DEF Ordered
    <3>3. \A j \in 1..(tail'[t].next - 1) : j \in 1..(tail[t].next - 1) \/ j = tail[t].next
      BY <1>1, <3>1
    <3>. QED  BY <1>4, <3>1, <3>2, <3>3
  <2>. QED  BY <2>1, <2>2
<1>9. \A i \in 1..Len(queue') : Follows(queue[i], Ahead(i))'
  <2>1. \A i \in 1..Len(queue) : Follows(queue'[i], Ahead(i))
    BY <1>1, <1>3 DEF Ordered
  <2>2. Follows(queue'[Len(queue) + 1], Ahead(Len(queue) + 1))
    BY <1>3, <1>6, <1>7
  <2>3. \A i \in 1..Len(queue') : i \in 1..Len(queue) \/ i = Len(queue) + 1
    BY <1>2, <1>3
  <2>4. \A i \in 1..Len(queue') : Follows(queue'[i], Ahead(i)')
    BY <1>5, <2>1, <2>2, <2>3
  <2>. QED  BY <1>2, <2>4 DEF Follows
<1>10. NothingSkipped'
  BY <1>1, <1>2 DEF NothingSkipped
<1>11. \A line \in ToSet(batch') : Follows(line, Out)'
  BY <1>1, <1>2, <1>4 DEF Ordered, Follows
<1>. QED  BY <1>8, <1>9, <1>10, <1>11 DEF Ordered

LEMMA OrderedDrop ==
    ASSUME IInv, NEW t \in TaskIds, DropLine(t)
    PROVE  Ordered' /\ NothingSkipped'
<1>. DEFINE new == <<tail[t].of, tail[t].next>>
<1>1. /\ Typed /\ Ordered /\ NothingSkipped
      /\ tail[t].at = "reading" /\ tail[t].next \in Nat \ {0}
  BY DEF IInv, DropLine, HasLine, Typed, TailsTyped
<1>2. UNCHANGED <<batch, stored, queue, log>> /\ dropped' = dropped \cup {new}
  BY <1>1 DEF DropLine, world
<1>3. Out' = Out \cup {new} /\ ToSet(queue') = ToSet(queue)
  BY <1>2 DEF Out
<1>4. \A i \in Nat : Ahead(i) \subseteq Ahead(i)'
  BY <1>2, <1>3 DEF Ahead
<1>5. \A u \in TaskIds : tail'[u].at = "reading" =>
          \A j \in 1..(tail'[u].next - 1) : <<tail'[u].of, j>> \in Out' \cup ToSet(queue')
  <2>1. ASSUME NEW u \in TaskIds, u # t, tail'[u].at = "reading"
        PROVE  \A j \in 1..(tail'[u].next - 1) : <<tail'[u].of, j>> \in Out' \cup ToSet(queue')
    <3>1. tail'[u] = tail[u]
      BY <1>1, <2>1 DEF DropLine, Typed, TailsTyped
    <3>. QED  BY <1>1, <1>3, <2>1, <3>1 DEF Ordered
  <2>2. \A j \in 1..(tail'[t].next - 1) : <<tail'[t].of, j>> \in Out' \cup ToSet(queue')
    <3>1. tail'[t].of = tail[t].of /\ tail'[t].next = tail[t].next + 1
      BY <1>1 DEF DropLine, Typed, TailsTyped
    <3>2. \A j \in 1..(tail[t].next - 1) : <<tail[t].of, j>> \in Out \cup ToSet(queue)
      BY <1>1 DEF Ordered
    <3>3. \A j \in 1..(tail'[t].next - 1) : j \in 1..(tail[t].next - 1) \/ j = tail[t].next
      BY <1>1, <3>1
    <3>. QED  BY <1>3, <3>1, <3>2, <3>3
  <2>. QED  BY <2>1, <2>2
<1>6. \A i \in 1..Len(queue') : Follows(queue[i], Ahead(i))'
  BY <1>1, <1>2, <1>4 DEF Ordered, Follows
<1>7. \A line \in ToSet(batch') : Follows(line, Out)'
  BY <1>1, <1>2, <1>3 DEF Ordered, Follows
<1>8. NothingSkipped'
  BY <1>1, <1>2 DEF NothingSkipped
<1>. QED  BY <1>5, <1>6, <1>7, <1>8 DEF Ordered

LEMMA OrderedTake == ASSUME IInv, TakeLine PROVE Ordered' /\ NothingSkipped'
<1>. DEFINE h == Head(queue)
<1>1. /\ Typed /\ Ordered /\ NothingSkipped
      /\ queue \in Seq(Line) /\ queue # <<>> /\ batch \in Seq(Line)
  BY DEF IInv, TakeLine, Typed
<1>2. UNCHANGED <<stored, dropped, log, tail>>
      /\ queue' = Tail(queue) /\ batch' = Append(batch, h)
  BY DEF TakeLine, world, record
<1>3. /\ Len(queue) \in Nat \ {0} /\ Len(queue') = Len(queue) - 1 /\ h = queue[1]
      /\ \A i \in 1..Len(queue') : i + 1 \in 1..Len(queue) /\ queue'[i] = queue[i + 1]
  BY <1>1, <1>2
<1>4. Out' = Out \cup {h}
  <2>1. \A l : l \in ToSet(batch') <=> l \in ToSet(batch) \/ l = h
    <3>1. \A l : l \in ToSet(batch) <=> \E i \in 1..Len(batch) : batch[i] = l
      BY <1>1 DEF ToSet
    <3>2. Len(batch) \in Nat /\ Len(batch') = Len(batch) + 1 /\ batch' \in Seq(Line)
          /\ batch'[Len(batch) + 1] = h
          /\ \A i \in 1..Len(batch) : batch'[i] = batch[i]
      BY <1>1, <1>2, <1>3
    <3>3. \A l : l \in ToSet(batch') <=> \E i \in 1..(Len(batch) + 1) : batch'[i] = l
      BY <3>2 DEF ToSet
    <3>. HIDE DEF h
    <3>. QED  BY <3>1, <3>2, <3>3
  <2>. QED  BY <1>2, <2>1 DEF Out
<1>5. ToSet(queue) \subseteq ToSet(queue') \cup {h}
  <2>1. ASSUME NEW l \in ToSet(queue), l # h PROVE l \in ToSet(queue')
    <3>1. PICK i \in 1..Len(queue) : queue[i] = l
      BY <1>1, <2>1 DEF ToSet
    <3>2. i - 1 \in 1..Len(queue') /\ queue'[i - 1] = l
      BY <1>3, <2>1, <3>1
    <3>3. queue' \in Seq(Line)
      BY <1>1, <1>2
    <3>. QED  BY <3>2, <3>3 DEF ToSet
  <2>. QED  BY <2>1
<1>6. \A i \in 1..Len(queue') : Ahead(i + 1) \subseteq Ahead(i)'
  <2>1. ASSUME NEW i \in 1..Len(queue'), NEW k \in 1..((i + 1) - 1)
        PROVE  queue[k] \in Ahead(i)'
    <3>1. CASE k = 1
      BY <1>3, <1>4, <3>1 DEF Ahead
    <3>2. CASE k # 1
      <4>1. k - 1 \in 1..(i - 1) /\ k - 1 \in 1..Len(queue')
        BY <1>3, <3>2
      <4>2. queue'[k - 1] = queue[k]
        BY <1>3, <4>1
      <4>. QED  BY <4>1, <4>2 DEF Ahead
    <3>. QED  BY <3>1, <3>2
  <2>2. \A i : Out \subseteq Ahead(i)'
    BY <1>4 DEF Ahead
  <2>3. ASSUME NEW i \in 1..Len(queue') PROVE Ahead(i + 1) \subseteq Ahead(i)'
    BY <2>1, <2>2 DEF Ahead
  <2>. QED  BY <2>3
<1>7. \A i \in 1..Len(queue') : Follows(queue[i], Ahead(i))'
  <2>1. ASSUME NEW i \in 1..Len(queue') PROVE Follows(queue[i], Ahead(i))'
    <3>1. Follows(queue'[i], Ahead(i + 1))
      BY <1>1, <1>3 DEF Ordered
    <3>. QED  BY <1>2, <1>6, <3>1 DEF Follows
  <2>. QED  BY <2>1
<1>8. Follows(h, Out)
  <2>1. Ahead(1) = Out
    BY DEF Ahead
  <2>2. Follows(queue[1], Ahead(1))
    BY <1>1, <1>3 DEF Ordered
  <2>. QED  BY <1>3, <2>1, <2>2
<1>9. \A line \in ToSet(batch') : Follows(line, Out)'
  <2>1. \A line \in ToSet(batch') : line \in ToSet(batch) \/ line = h
    BY <1>1, <1>2 DEF ToSet
  <2>2. \A line \in ToSet(batch') : Follows(line, Out)
    BY <1>1, <1>8, <2>1 DEF Ordered
  <2>. QED  BY <1>2, <1>4, <2>2 DEF Follows
<1>10. \A u \in TaskIds : tail'[u].at = "reading" =>
          \A j \in 1..(tail'[u].next - 1) : <<tail'[u].of, j>> \in Out' \cup ToSet(queue')
  <2>1. Out \cup ToSet(queue) \subseteq Out' \cup ToSet(queue')
    BY <1>4, <1>5
  <2>. QED  BY <1>1, <1>2, <2>1 DEF Ordered
<1>11. NothingSkipped'
  BY <1>1, <1>2 DEF NothingSkipped
<1>. QED  BY <1>7, <1>9, <1>10, <1>11 DEF Ordered

LEMMA OrderedWrite == ASSUME IInv, WriteBatch \/ WriteFails PROVE Ordered' /\ NothingSkipped'
<1>1. Typed /\ Ordered /\ NothingSkipped
  BY DEF IInv
<1>2. /\ UNCHANGED <<log, tail, queue>> /\ batch' = <<>>
      /\ \/ stored' = stored \cup ToSet(batch) /\ dropped' = dropped
         \/ stored' = stored /\ dropped' = dropped \cup ToSet(batch)
  BY DEF WriteBatch, WriteFails, world
<1>3. Out' = Out /\ ToSet(batch') = {}
  BY <1>2 DEF Out, ToSet
<1>4. \A i \in Nat : Ahead(i)' = Ahead(i)
  BY <1>2, <1>3 DEF Ahead
<1>5. Ordered'
  BY <1>1, <1>2, <1>3, <1>4 DEF Ordered, Follows
<1>6. NothingSkipped'
  <2>1. ASSUME NEW c \in Containers, NEW i \in 1..MaxLines, <<c, i>> \in stored'
        PROVE  i <= Len(log[c]) /\ \A j \in 1..i : <<c, j>> \in stored' \cup dropped'
    <3>1. CASE <<c, i>> \in stored
      BY <1>1, <1>2, <3>1 DEF NothingSkipped
    <3>2. CASE <<c, i>> \in ToSet(batch) /\ stored' = stored \cup ToSet(batch)
      <4>1. i <= Len(log[c]) /\ \A j \in 1..(i - 1) : <<c, j>> \in Out
        BY <1>1, <3>2 DEF Ordered, Follows
      <4>2. Out \subseteq stored' \cup dropped'
        BY <1>2, <3>2 DEF Out
      <4>3. \A j \in 1..i : j \in 1..(i - 1) \/ j = i
        BY ShipperAssumption
      <4>. QED  BY <2>1, <4>1, <4>2, <4>3
    <3>. QED  BY <1>2, <2>1, <3>1, <3>2
  <2>. QED  BY <1>2, <2>1 DEF NothingSkipped
<1>. QED  BY <1>5, <1>6

LEMMA OrderedCrash == ASSUME IInv, Crash PROVE Ordered' /\ NothingSkipped'
<1>1. UNCHANGED <<log, stored, dropped>> /\ queue' = <<>> /\ batch' = <<>>
      /\ \A t \in TaskIds : tail'[t].at = "none"
  BY DEF Crash, world, NoTail
<1>2. ToSet(batch') = {} /\ Len(queue') = 0
  BY <1>1 DEF ToSet
<1>. QED  BY <1>1, <1>2 DEF IInv, Ordered, NothingSkipped

LEMMA OrderedStep == ASSUME IInv, [Next]_vars PROVE Ordered' /\ NothingSkipped'
<1>. DEFINE Quiet ==
         /\ UNCHANGED <<queue, batch, stored, dropped>>
         /\ \A c \in Containers : Len(log'[c]) \in Nat /\ Len(log'[c]) >= Len(log[c])
         /\ \A t \in TaskIds : tail'[t].at = "reading" => tail'[t] = tail[t]
<1>1. /\ Typed /\ TailsTyped
      /\ \A c \in Containers : Len(log[c]) \in Nat
      /\ NoTail.at = "none"
  BY DEF IInv, Typed, NoTail
<1>2. ASSUME NEW c \in Containers, LogLine(c) PROVE Quiet
  BY <1>1, <1>2 DEF LogLine, shipper, record, Typed
<1>3. ASSUME NEW c \in Containers, Move(c) \/ Tick PROVE Quiet
  BY <1>1, <1>3 DEF Move, Tick, shipper, record
<1>4. ASSUME UNCHANGED vars PROVE Quiet
  BY <1>1, <1>4 DEF vars, shipper, world, record
<1>5. ASSUME Tick PROVE Quiet
  BY <1>1, <1>5 DEF Tick, shipper, record
<1>6. ASSUME Watch PROVE Quiet
  <2>1. ASSUME NEW c \in Containers, NEW u \in FreeTasks,
               tail' = [tail EXCEPT ![u] = [of |-> c, at |-> "created", next |-> 1]]
        PROVE  \A t \in TaskIds : tail'[t].at = "reading" => tail'[t] = tail[t]
    BY <1>1, <2>1 DEF TailsTyped, FreeTasks
  <2>2. ASSUME NEW c \in Containers, active[c] # 0,
               tail' = [tail EXCEPT ![active[c]] = IF @.at = "created" THEN NoTail
                                              ELSE [@ EXCEPT !.at = "cancelled"]]
        PROVE  \A t \in TaskIds : tail'[t].at = "reading" => tail'[t] = tail[t]
    <3>1. active[c] \in TaskIds
      BY <1>1, <2>2 DEF TailsTyped
    <3>2. tail'[active[c]].at # "reading"
      <4>1. tail[active[c]] \in [of : Containers \cup {NoTail.of}, at : At, next : Nat \ {0}]
        BY <1>1, <3>1 DEF TailsTyped
      <4>2. [tail[active[c]] EXCEPT !.at = "cancelled"].at = "cancelled"
        BY <4>1
      <4>3. tail'[active[c]] = IF tail[active[c]].at = "created" THEN NoTail
                               ELSE [tail[active[c]] EXCEPT !.at = "cancelled"]
        BY <1>1, <2>2, <3>1 DEF TailsTyped
      <4>. QED  BY <1>1, <4>2, <4>3
    <3>3. \A t \in TaskIds : t # active[c] => tail'[t] = tail[t]
      BY <1>1, <2>2, <3>1 DEF TailsTyped
    <3>. QED  BY <3>2, <3>3
  <2>3. \A t \in TaskIds : tail'[t].at = "reading" => tail'[t] = tail[t]
    BY <1>1, <1>6, <2>1, <2>2, WatchSteps
  <2>. QED  BY <1>1, <1>6, <2>3, WatchSteps
<1>7. ASSUME NEW t \in TaskIds, BeginTail(t) \/ EndTail(t) \/ TailFails(t) PROVE Quiet
  BY <1>1, <1>7 DEF BeginTail, EndTail, TailFails, LeaveBody, TailsTyped, world, record
<1>8. CASE Quiet
  BY <1>8, OrderedQuiet
<1>. HIDE DEF Quiet
<1>. QED
  BY <1>2, <1>3, <1>4, <1>5, <1>6, <1>7, <1>8, OrderedOpen, OrderedRead, OrderedDrop,
     OrderedTake, OrderedWrite, OrderedCrash DEF Next, Follow

LEMMA InitInv == Init => IInv
<1>1. ASSUME Init PROVE Ordered /\ NothingSkipped
  <2>1. queue = <<>> /\ batch = <<>> /\ stored = {} /\ \A t \in TaskIds : tail[t].at = "none"
    BY <1>1 DEF Init, NoTail
  <2>2. Len(queue) = 0 /\ ToSet(batch) = {}
    BY <2>1 DEF ToSet
  <2>. QED  BY <2>1, <2>2 DEF Ordered, NothingSkipped
<1>. QED  BY <1>1, InitTyped DEF IInv

LEMMA InvStep == IInv /\ [Next]_vars => IInv'
  BY TypedStep, OrderedStep DEF IInv

-----------------------------------------------------------------------------
(* Where a tail starts again, after a crash, a restart of its container or *)
(* a reconnection, no line was passed over: a stored line has all earlier  *)
(* ones of its container stored too, or given up by a full queue or a      *)
(* failed insert.                                                          *)
THEOREM NothingLost == Spec => []NothingSkipped
<1>1. IInv => NothingSkipped
  BY DEF IInv
<1>. QED  BY <1>1, InitInv, InvStep, PTL DEF Spec

(* The entry of active_tasks names a tail of that container that has not   *)
(* ended, whichever order cancellations, endings and new tails take.       *)
THEOREM EntriesCorrect == Spec => []ActiveIsTail
<1>1. IInv => ActiveIsTail
  BY DEF IInv, Typed, TailsTyped
<1>. QED  BY <1>1, InitInv, InvStep, PTL DEF Spec
=============================================================================
