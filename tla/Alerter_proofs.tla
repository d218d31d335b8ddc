---------------------------- MODULE Alerter_proofs ---------------------------
(***************************************************************************)
(* Proofs about Alerter, for any number of calls, events and channels and  *)
(* any limit of the remembered ids.  A call whose event was accepted is    *)
(* "taken"; an id is remembered only while such a call has it, and two     *)
(* taken calls share an id only if it was forgotten in between.            *)
(***************************************************************************)
EXTENDS Alerter, TLAPS

Taken(c) == pc[c] \notin {"idle", "duplicate"}

\* The fields a call carries; they are not given types.
Shape(o) == o = [event |-> o.event, channels |-> o.channels, next |-> o.next,
                 succeeded |-> o.succeeded]

Shapes ==
    /\ pc = [c \in Calls |-> pc[c]]
    /\ op = [c \in Calls |-> op[c]]
    /\ sent = [c \in Calls |-> sent[c]]
    /\ unanswered = [c \in Calls |-> unanswered[c]]
    /\ \A c \in Calls : Shape(op[c])

\* What the remembered ids tell of the calls.
Remembered ==
    /\ Nothing \notin seen
    /\ \A c \in Calls : Taken(c) => op[c].event \in seen \cup forgotten \cup {Nothing}
    /\ \A e \in seen : \E c \in Calls : Taken(c) /\ op[c].event = e
    /\ \A c, d \in Calls : c # d /\ Taken(c) /\ Taken(d) /\ op[c].event = op[d].event
                           => op[c].event \in forgotten \cup {Nothing}

\* What a call counts as succeeded: each type that took the message, but for
\* lost answers, and beside them only types nothing sends to.
Counted(types, took, lost) ==
    /\ \A t \in types \cap KnownTypes : \E ch \in took : TypeOf[ch] = t
    /\ \A ch \in took \ lost : TypeOf[ch] \in types

\* What was sent, and what is written of it.
Recorded ==
    /\ \A c \in Calls : ~Taken(c) => sent[c] = {}
    /\ \A c \in Calls : pc[c] \notin Answered
                        => Counted(op[c].succeeded, sent[c], unanswered[c])
    /\ \A c \in Calls : pc[c] = "deliveries" => c \in events
    /\ \A row \in deliveries : /\ row.call \in Calls
                               /\ pc[row.call] \in {"deliveries"} \cup Answered

IInv == Shapes /\ Remembered /\ Recorded /\ DuplicatesHavePrecedent /\ HistoryIsTrue

-----------------------------------------------------------------------------
LEMMA InitIInv == Init => IInv
<1>. SUFFICES ASSUME Init PROVE IInv
  OBVIOUS
<1>1. \A c \in Calls : pc[c] = "idle" /\ op[c] = NoOp /\ sent[c] = {} /\ unanswered[c] = {}
  BY DEF Init
<1>2. Shapes
  BY DEF Init, Shapes, Shape, NoOp
<1>3. Remembered
  BY <1>1 DEF Init, Remembered, Taken
<1>4. Recorded
  BY <1>1 DEF Init, Recorded, Counted, NoOp
<1>5. DuplicatesHavePrecedent /\ HistoryIsTrue
  BY <1>1 DEF Init, DuplicatesHavePrecedent, HistoryIsTrue
<1>. QED  BY <1>2, <1>3, <1>4, <1>5 DEF IInv

(* A step that changes no call and none of what is remembered or written.  *)
LEMMA QuietStep ==
    ASSUME IInv, UNCHANGED <<seen, forgotten, call, rows>>
    PROVE  IInv'
BY DEF IInv, Shapes, Shape, Remembered, Recorded, DuplicatesHavePrecedent, HistoryIsTrue,
   Taken, call, rows

-----------------------------------------------------------------------------
(* A restart: what was seen is forgotten, what was under way is lost.      *)
LEMMA RestartKeeps == ASSUME IInv, Restart PROVE IInv'
<1>1. /\ UNCHANGED <<unanswered, events, deliveries>> /\ seen' = {}
      /\ forgotten' = forgotten \cup seen
      /\ pc' = [c \in Calls |-> IF pc[c] \in {"idle"} \cup Answered THEN pc[c] ELSE "lost"]
      /\ op' = [c \in Calls |-> IF pc'[c] = "lost"
                                THEN [NoOp EXCEPT !.event = op[c].event] ELSE op[c]]
  BY Zenon DEF Restart, rows
<1>9. /\ sent' = [c \in Calls |-> sent'[c]]
      /\ \A c \in Calls : pc[c] # "send" => sent'[c] = sent[c]
  <2>1. PICK taking \in SUBSET {c \in Calls : Sending(c) /\ TypeOf[Current(c)] \in KnownTypes} :
            sent' = [c \in Calls |-> sent[c] \cup (IF c \in taking THEN {Current(c)} ELSE {})]
    BY Zenon DEF Restart
  <2>2. \A c \in taking : pc[c] = "send"
    BY <2>1 DEF Sending
  <2>. QED  BY <2>1, <2>2
<1>2. \A c \in Calls : /\ pc'[c] = IF pc[c] \in {"idle"} \cup Answered THEN pc[c] ELSE "lost"
                       /\ op'[c].event = op[c].event /\ Shape(op'[c])
  BY <1>1 DEF NoOp, IInv, Shapes, Shape
<1>3. \A c \in Calls : /\ Taken(c)' <=> Taken(c)
                       /\ pc[c] = "idle" => op'[c] = op[c]
                       /\ pc'[c] = "idle" <=> pc[c] = "idle"
                       /\ pc'[c] = "duplicate" <=> pc[c] = "duplicate"
                       /\ pc'[c] \notin Answered => pc[c] = "idle"
                       /\ pc'[c] # "deliveries"
                       /\ pc[c] \in {"deliveries"} \cup Answered => pc'[c] \in Answered
                       /\ ~Taken(c) \/ pc'[c] = "idle" => pc[c] # "send"
  BY <1>1, <1>2 DEF Taken, Answered
<1>4. Shapes'
  BY <1>1, <1>2, <1>9 DEF IInv, Shapes
<1>5. Remembered'
  BY <1>1, <1>2, <1>3 DEF IInv, Remembered
<1>6. Recorded'
  BY <1>1, <1>3, <1>9 DEF IInv, Recorded, Answered
<1>7. DuplicatesHavePrecedent'
  BY <1>2, <1>3 DEF IInv, DuplicatesHavePrecedent
<1>8. HistoryIsTrue'
  <2>1. \A row \in deliveries : sent'[row.call] = sent[row.call]
    BY <1>9 DEF IInv, Recorded, Answered
  <2>. QED  BY <1>1, <2>1 DEF IInv, HistoryIsTrue
<1>. QED  BY <1>4, <1>5, <1>6, <1>7, <1>8 DEF IInv

-----------------------------------------------------------------------------
(* The idempotency check: an id is either among the seen, or it is added   *)
(* and others may be evicted.                                              *)
LEMMA ReceiveKeeps ==
    ASSUME IInv, NEW c \in Calls, Receive(c)
    PROVE  IInv'
<1>1. PICK e \in Events \cup {Nothing} :
          /\ op' = [op EXCEPT ![c].event = e]
          /\ \/ e \in seen /\ Goto(c, "duplicate") /\ UNCHANGED <<seen, forgotten>>
             \/ /\ e \notin seen /\ Goto(c, "vector")
                /\ \E gone \in SUBSET (seen \cup ({e} \ {Nothing})) :
                       /\ seen' = (seen \cup ({e} \ {Nothing})) \ gone
                       /\ forgotten' = forgotten \cup gone
  <2>1. ASSUME NEW e \in Events \cup {Nothing}, NEW all,
               IF Cardinality(all) <= SeenMax
               THEN seen' = all /\ UNCHANGED forgotten
               ELSE \E gone \in SUBSET all : /\ Cardinality(gone) = EvictCount
                                             /\ seen' = all \ gone
                                             /\ forgotten' = forgotten \cup gone
        PROVE  \E gone \in SUBSET all : seen' = all \ gone /\ forgotten' = forgotten \cup gone
    <3>1. CASE Cardinality(all) <= SeenMax
      <4>1. {} \in SUBSET all /\ seen' = all \ {} /\ forgotten' = forgotten \cup {}
        BY <2>1, <3>1
      <4>. QED  BY <4>1
    <3>. QED  BY <2>1, <3>1
  <2>2. PICK e \in Events \cup {Nothing} :
            /\ op' = [op EXCEPT ![c].event = e]
            /\ \/ e \in seen /\ Goto(c, "duplicate") /\ UNCHANGED <<seen, forgotten>>
               \/ /\ e \notin seen /\ Goto(c, "vector")
                  /\ IF Cardinality(seen \cup ({e} \ {Nothing})) <= SeenMax
                     THEN seen' = seen \cup ({e} \ {Nothing}) /\ UNCHANGED forgotten
                     ELSE \E gone \in SUBSET (seen \cup ({e} \ {Nothing})) :
                              /\ Cardinality(gone) = EvictCount
                              /\ seen' = (seen \cup ({e} \ {Nothing})) \ gone
                              /\ forgotten' = forgotten \cup gone
    BY Zenon DEF Receive
  <2>3. CASE e \in seen
    BY <2>2, <2>3
  <2>4. CASE e \notin seen
    <3>. DEFINE all == seen \cup ({e} \ {Nothing})
    <3>1. IF Cardinality(all) <= SeenMax
          THEN seen' = all /\ UNCHANGED forgotten
          ELSE \E gone \in SUBSET all : /\ Cardinality(gone) = EvictCount
                                        /\ seen' = all \ gone
                                        /\ forgotten' = forgotten \cup gone
      BY <2>2, <2>4
    <3>. HIDE DEF all
    <3>2. \E gone \in SUBSET all : seen' = all \ gone /\ forgotten' = forgotten \cup gone
      BY <2>1, <3>1
    <3>. QED  BY <2>2, <2>4, <3>2 DEF all
  <2>. QED  BY <2>3, <2>4
<1>2. pc[c] = "idle" /\ UNCHANGED <<sent, unanswered, events, deliveries>>
  BY DEF Receive, rows
<1>3. /\ op'[c].event = e /\ op'[c].succeeded = op[c].succeeded /\ Shape(op'[c])
      /\ \A d \in Calls \ {c} : op'[d] = op[d] /\ pc'[d] = pc[d]
      /\ op' = [d \in Calls |-> op'[d]] /\ pc' = [d \in Calls |-> pc'[d]]
  BY <1>1 DEF Goto, IInv, Shapes, Shape
<1>4. pc'[c] = IF e \in seen THEN "duplicate" ELSE "vector"
  BY <1>1 DEF Goto, IInv, Shapes
<1>5. /\ \A d \in Calls \ {c} : Taken(d)' <=> Taken(d)
      /\ ~Taken(c) /\ (Taken(c)' <=> e \notin seen)
  BY <1>2, <1>3, <1>4 DEF Taken
<1>6. Shapes'
  BY <1>2, <1>3 DEF IInv, Shapes
<1>7. Remembered'
  <2>1. CASE e \in seen
    BY <1>1, <1>3, <1>5, <2>1 DEF IInv, Remembered
  <2>2. CASE e \notin seen
    <3>1. PICK gone \in SUBSET (seen \cup ({e} \ {Nothing})) :
              /\ seen' = (seen \cup ({e} \ {Nothing})) \ gone
              /\ forgotten' = forgotten \cup gone
      BY <1>1, <2>2
    <3>2. Nothing \notin seen'
      BY <3>1 DEF IInv, Remembered
    <3>3. \A d \in Calls : Taken(d)' => op'[d].event \in seen' \cup forgotten' \cup {Nothing}
      BY <1>3, <1>5, <3>1 DEF IInv, Remembered
    <3>4. \A x \in seen' : \E d \in Calls : Taken(d)' /\ op'[d].event = x
      BY <1>3, <1>5, <2>2, <3>1 DEF IInv, Remembered
    <3>5. \A d \in Calls \ {c} : Taken(d) /\ op[d].event = e => e \in forgotten \cup {Nothing}
      BY <2>2 DEF IInv, Remembered
    <3>6. ASSUME NEW b \in Calls, NEW d \in Calls, b # d, Taken(b)', Taken(d)',
                 op'[b].event = op'[d].event
          PROVE  op'[b].event \in forgotten' \cup {Nothing}
      <4>1. CASE b = c \/ d = c
        BY <1>3, <1>5, <3>1, <3>5, <3>6, <4>1
      <4>2. CASE b # c /\ d # c
        BY <1>3, <1>5, <3>1, <3>6, <4>2 DEF IInv, Remembered
      <4>. QED  BY <4>1, <4>2
    <3>. QED  BY <3>2, <3>3, <3>4, <3>6 DEF Remembered
  <2>. QED  BY <2>1, <2>2
<1>8. Recorded'
  <2>1. /\ pc[c] \notin {"deliveries"} \cup Answered /\ pc'[c] # "deliveries" /\ sent[c] = {}
        /\ Counted(op[c].succeeded, sent[c], unanswered[c])
    BY <1>2, <1>4, <1>5 DEF Answered, IInv, Recorded
  <2>. QED  BY <1>2, <1>3, <1>5, <2>1 DEF IInv, Recorded
<1>9. DuplicatesHavePrecedent'
  <2>1. ASSUME NEW b \in Calls, pc'[b] = "duplicate"
        PROVE  /\ op'[b].event # Nothing
               /\ \E d \in Calls : op'[d].event = op'[b].event /\ Taken(d)'
    <3>1. CASE b = c
      BY <1>3, <1>4, <1>5, <2>1, <3>1 DEF IInv, Remembered
    <3>2. CASE b # c
      BY <1>2, <1>3, <2>1, <3>2 DEF IInv, DuplicatesHavePrecedent, Taken
    <3>. QED  BY <3>1, <3>2
  <2>. QED  BY <2>1 DEF DuplicatesHavePrecedent, Taken
<1>10. HistoryIsTrue'
  BY <1>2 DEF IInv, HistoryIsTrue
<1>. QED  BY <1>6, <1>7, <1>8, <1>9, <1>10 DEF IInv

-----------------------------------------------------------------------------
(* The steps of a call that was taken: it keeps its event, and nothing is  *)
(* remembered or forgotten.                                                *)
LEMMA TakenStep ==
    ASSUME IInv, NEW c \in Calls, Taken(c), Taken(c)', UNCHANGED <<seen, forgotten>>,
           NEW place, NEW o, Shape(o), o.event = op[c].event,
           pc' = [pc EXCEPT ![c] = place], op' = [op EXCEPT ![c] = o],
           sent' = [d \in Calls |-> sent'[d]],
           unanswered' = [d \in Calls |-> unanswered'[d]]
    PROVE  /\ Shapes' /\ Remembered' /\ DuplicatesHavePrecedent'
           /\ pc'[c] = place /\ op'[c] = o
           /\ \A d \in Calls \ {c} : pc'[d] = pc[d] /\ op'[d] = op[d]
<1>1. /\ pc'[c] = place /\ op'[c] = o
      /\ \A d \in Calls \ {c} : pc'[d] = pc[d] /\ op'[d] = op[d]
  BY DEF IInv, Shapes
<1>2. \A d \in Calls : (Taken(d)' <=> Taken(d)) /\ op'[d].event = op[d].event
  BY <1>1 DEF Taken
<1>3. Shapes'
  BY <1>1 DEF IInv, Shapes
<1>4. Remembered'
  BY <1>2 DEF IInv, Remembered
<1>5. DuplicatesHavePrecedent'
  <2>1. \A d \in Calls : pc'[d] = "duplicate" <=> pc[d] = "duplicate"
    BY <1>1, <1>2 DEF Taken
  <2>. QED  BY <1>2, <2>1 DEF IInv, DuplicatesHavePrecedent, Taken
<1>. QED  BY <1>1, <1>3, <1>4, <1>5

(* One that sends nothing and writes nothing.                              *)
LEMMA SilentStep ==
    ASSUME IInv, NEW c \in Calls, UNCHANGED <<seen, forgotten, sent, unanswered, rows>>,
           NEW place, NEW o, Shape(o), o.event = op[c].event, o.succeeded = op[c].succeeded,
           Taken(c), place \notin {"idle", "duplicate", "deliveries"},
           pc[c] \in {"deliveries"} \cup Answered => place \in Answered,
           pc' = [pc EXCEPT ![c] = place], op' = [op EXCEPT ![c] = o]
    PROVE  IInv'
<1>1. /\ sent' = [d \in Calls |-> sent'[d]] /\ Taken(c)'
      /\ unanswered' = [d \in Calls |-> unanswered'[d]]
  BY DEF IInv, Shapes, Taken
<1>2. /\ Shapes' /\ Remembered' /\ DuplicatesHavePrecedent'
      /\ pc'[c] = place /\ op'[c] = o
      /\ \A d \in Calls \ {c} : pc'[d] = pc[d] /\ op'[d] = op[d]
  BY <1>1, TakenStep
<1>3. Recorded'
  BY <1>2 DEF IInv, Recorded, Taken, rows
<1>4. HistoryIsTrue'
  BY DEF IInv, HistoryIsTrue, rows
<1>. QED  BY <1>2, <1>3, <1>4 DEF IInv

LEMMA RoutingKeeps ==
    ASSUME IInv, NEW c \in Calls,
           \/ FindByVector(c) \/ FindByText(c) \/ Format(c) \/ Raise(c)
           \/ SendDone(c) \/ Answer(c)
    PROVE  IInv'
<1>1. op = [op EXCEPT ![c] = op[c]] /\ Shape(op[c])
  BY DEF IInv, Shapes
<1>2. \E place, o :
          /\ Shape(o) /\ o.event = op[c].event /\ o.succeeded = op[c].succeeded
          /\ place \notin {"idle", "duplicate", "deliveries"}
          /\ pc[c] \in {"deliveries"} \cup Answered => place \in Answered
          /\ pc' = [pc EXCEPT ![c] = place] /\ op' = [op EXCEPT ![c] = o]
  <2>1. CASE FindByVector(c) \/ FindByText(c)
    <3>1. op' = op \/ \E list : Use(c, list)
      <4>1. CASE FindByVector(c)
        BY <4>1, Zenon DEF FindByVector
      <4>2. CASE FindByText(c)
        BY <4>2, Zenon DEF FindByText
      <4>. QED  BY <2>1, <4>1, <4>2
    <3>5. PICK place \in {"send", "format", "text"} : Goto(c, place)
      BY <2>1 DEF FindByVector, FindByText
    <3>2. pc[c] \in {"vector", "text"}
      BY <2>1 DEF FindByVector, FindByText
    <3>3. CASE op' = op
      <4>1. op' = [op EXCEPT ![c] = op[c]]
        BY <1>1, <3>3
      <4>. QED  BY <1>1, <3>5, <3>2, <4>1 DEF Goto, Answered
    <3>4. ASSUME NEW list, Use(c, list)
          PROVE  \E pl, o :
              /\ Shape(o) /\ o.event = op[c].event /\ o.succeeded = op[c].succeeded
              /\ pl \notin {"idle", "duplicate", "deliveries"}
              /\ pc[c] \in {"deliveries"} \cup Answered => pl \in Answered
              /\ pc' = [pc EXCEPT ![c] = pl] /\ op' = [op EXCEPT ![c] = o]
      <4>. DEFINE o == [op[c] EXCEPT !.channels = list]
      <4>1. Shape(o) /\ o.event = op[c].event /\ o.succeeded = op[c].succeeded
        BY <1>1 DEF Shape
      <4>2. op' = [op EXCEPT ![c] = o]
        BY <3>4 DEF Use
      <4>. QED  BY <3>5, <3>2, <4>1, <4>2 DEF Goto, Answered
    <3>. QED  BY <3>1, <3>3, <3>4
  <2>2. CASE Format(c) \/ Raise(c) \/ SendDone(c) \/ Answer(c)
    <3>1. op' = [op EXCEPT ![c] = op[c]]
      BY <1>1, <2>2 DEF Format, Raise, SendDone, Answer
    <3>2. PICK place \in {"send", "raised", "record", "processed"} :
              /\ pc' = [pc EXCEPT ![c] = place]
              /\ pc[c] \in {"deliveries"} \cup Answered => place \in Answered
      BY <2>2 DEF Format, Raise, SendDone, Answer, Goto, Answered
    <3>. QED  BY <1>1, <3>1, <3>2
  <2>. QED  BY <2>1, <2>2
<1>3. Taken(c) /\ UNCHANGED <<seen, forgotten, sent, unanswered, rows>>
  BY DEF FindByVector, FindByText, Format, Raise, SendDone, Answer, Taken
<1>. QED  BY <1>2, <1>3, SilentStep

(* A channel was tried: whatever became of it, what the call counts as      *)
(* succeeded stays right, and nothing of this call has been written yet.    *)
LEMMA ChannelStep ==
    ASSUME IInv, NEW c \in Calls, pc[c] = "send",
           UNCHANGED <<seen, forgotten, pc, rows>>,
           NEW o, Shape(o), o.event = op[c].event, op' = [op EXCEPT ![c] = o],
           NEW took, sent' = [sent EXCEPT ![c] = took],
           NEW lost, unanswered' = [unanswered EXCEPT ![c] = lost],
           Counted(o.succeeded, took, lost)
    PROVE  IInv'
<1>1. pc' = [pc EXCEPT ![c] = "send"] /\ events' = events /\ deliveries' = deliveries
  BY DEF IInv, Shapes, rows
<1>2. /\ sent' = [d \in Calls |-> sent'[d]] /\ Taken(c) /\ Taken(c)'
      /\ unanswered' = [d \in Calls |-> unanswered'[d]]
      /\ sent'[c] = took /\ unanswered'[c] = lost
      /\ \A d \in Calls \ {c} : sent'[d] = sent[d] /\ unanswered'[d] = unanswered[d]
  BY DEF IInv, Shapes, Taken
<1>3. /\ Shapes' /\ Remembered' /\ DuplicatesHavePrecedent'
      /\ pc'[c] = "send" /\ op'[c] = o
      /\ \A d \in Calls \ {c} : pc'[d] = pc[d] /\ op'[d] = op[d]
  BY <1>1, <1>2, TakenStep
<1>4. Recorded'
  BY <1>1, <1>2, <1>3 DEF IInv, Recorded, Taken
<1>5. HistoryIsTrue'
  <2>1. \A row \in deliveries : row.call \in Calls \ {c}
    BY DEF IInv, Recorded, Answered
  <2>. QED  BY <1>1, <1>2, <2>1 DEF IInv, HistoryIsTrue
<1>. QED  BY <1>3, <1>4, <1>5 DEF IInv

LEMMA SendKeeps ==
    ASSUME IInv, NEW c \in Calls, Send(c) \/ SendUnknown(c) \/ SendFails(c)
    PROVE  IInv'
<1>. DEFINE type == TypeOf[Current(c)]
            more == sent[c] \cup {Current(c)}
            next == [op[c] EXCEPT !.next = @ + 1]
            good == [op[c] EXCEPT !.next = @ + 1, !.succeeded = @ \cup {type}]
<1>1. /\ pc[c] = "send" /\ UNCHANGED <<seen, forgotten, pc, rows>>
      /\ Counted(op[c].succeeded, sent[c], unanswered[c])
  BY DEF Send, SendUnknown, SendFails, MayFail, Sending, IInv, Recorded, Answered
<1>2. /\ Shape(next) /\ next.event = op[c].event /\ next.succeeded = op[c].succeeded
      /\ Shape(good) /\ good.event = op[c].event
      /\ good.succeeded = op[c].succeeded \cup {type}
  <2>1. Shape(op[c])
    BY DEF IInv, Shapes
  <2>2. ASSUME NEW x, Shape(x), NEW n, NEW types
        PROVE  [x EXCEPT !.next = n, !.succeeded = types]
               \in [event : {x.event}, channels : {x.channels}, next : {n}, succeeded : {types}]
    <3>1. x \in [event : {x.event}, channels : {x.channels}, next : {x.next},
                 succeeded : {x.succeeded}]
      BY <2>2 DEF Shape
    <3>. QED  BY <3>1
  <2>3. good = [op[c] EXCEPT !.next = op[c].next + 1,
                             !.succeeded = op[c].succeeded \cup {type}]
    OBVIOUS
  <2>4. good \in [event : {op[c].event}, channels : {op[c].channels}, next : {op[c].next + 1},
                  succeeded : {op[c].succeeded \cup {type}}]
    BY <2>1, <2>2, <2>3
  <2>5. Shape(next) /\ next.event = op[c].event /\ next.succeeded = op[c].succeeded
    BY <2>1 DEF Shape
  <2>. HIDE DEF good
  <2>. QED  BY <2>4, <2>5 DEF Shape
<1>3. /\ sent = [sent EXCEPT ![c] = sent[c]]
      /\ unanswered = [unanswered EXCEPT ![c] = unanswered[c]]
  BY DEF IInv, Shapes
<1>4. CASE Send(c)
  <2>1. Counted(good.succeeded, more, unanswered[c])
    <3>. HIDE DEF type, good
    <3>. QED  BY <1>1, <1>2 DEF Counted, type
  <2>2. /\ op' = [op EXCEPT ![c] = good] /\ sent' = [sent EXCEPT ![c] = more]
        /\ unanswered' = [unanswered EXCEPT ![c] = unanswered[c]]
    BY <1>3, <1>4 DEF Send, Took, Succeeded
  <2>. HIDE DEF good, more
  <2>. QED  BY <1>1, <1>2, <2>1, <2>2, ChannelStep
<1>5. CASE SendUnknown(c)
  <2>1. Counted(good.succeeded, sent[c], unanswered[c])
    <3>1. type \notin KnownTypes
      BY <1>5 DEF SendUnknown
    <3>. HIDE DEF type, good
    <3>. QED  BY <1>1, <1>2, <3>1 DEF Counted
  <2>2. /\ op' = [op EXCEPT ![c] = good] /\ sent' = [sent EXCEPT ![c] = sent[c]]
        /\ unanswered' = [unanswered EXCEPT ![c] = unanswered[c]]
    BY <1>3, <1>5 DEF SendUnknown, Succeeded
  <2>. HIDE DEF good
  <2>. QED  BY <1>1, <1>2, <2>1, <2>2, ChannelStep
<1>6. CASE SendFails(c)
  <2>. DEFINE lost == unanswered[c] \cup {Current(c)}
  <2>1. op' = [op EXCEPT ![c] = next]
    BY <1>6 DEF SendFails
  <2>2. CASE UNCHANGED <<sent, unanswered>>
    <3>1. /\ sent' = [sent EXCEPT ![c] = sent[c]]
          /\ unanswered' = [unanswered EXCEPT ![c] = unanswered[c]]
          /\ Counted(next.succeeded, sent[c], unanswered[c])
      BY <1>1, <1>2, <1>3, <2>2
    <3>. HIDE DEF next
    <3>. QED  BY <1>1, <1>2, <2>1, <3>1, ChannelStep
  <2>3. CASE Took(c) /\ unanswered' = [unanswered EXCEPT ![c] = @ \cup {Current(c)}]
    <3>1. Counted(next.succeeded, more, lost)
      <4>. HIDE DEF next
      <4>. QED  BY <1>1, <1>2 DEF Counted
    <3>2. /\ sent' = [sent EXCEPT ![c] = more]
          /\ unanswered' = [unanswered EXCEPT ![c] = lost]
      BY <2>3 DEF Took
    <3>. HIDE DEF next, more, lost
    <3>. QED  BY <1>1, <1>2, <2>1, <3>1, <3>2, ChannelStep
  <2>. QED  BY <1>6, <2>2, <2>3 DEF SendFails
<1>. QED  BY <1>4, <1>5, <1>6

(* The row of the event, then those of its deliveries.                     *)
LEMMA RecordKeeps ==
    ASSUME IInv, NEW c \in Calls, RecordEvent(c) \/ RecordDelivery(c)
    PROVE  IInv'
<1>1. /\ pc[c] \in {"record", "deliveries"}
      /\ UNCHANGED <<seen, forgotten, sent, unanswered, op>>
      /\ pc' = [pc EXCEPT ![c] = "deliveries"]
      /\ events' = events \cup {c}
  BY DEF RecordEvent, RecordDelivery, Goto, call, IInv, Shapes, Recorded
<1>2. /\ sent' = [d \in Calls |-> sent'[d]] /\ op' = [op EXCEPT ![c] = op[c]]
      /\ unanswered' = [d \in Calls |-> unanswered'[d]]
      /\ Shape(op[c]) /\ Taken(c) /\ Taken(c)'
  BY <1>1 DEF IInv, Shapes, Taken
<1>3. /\ Shapes' /\ Remembered' /\ DuplicatesHavePrecedent'
      /\ pc'[c] = "deliveries" /\ op'[c] = op[c]
      /\ \A d \in Calls \ {c} : pc'[d] = pc[d] /\ op'[d] = op[d]
  BY <1>1, <1>2, TakenStep
<1>4. \/ deliveries' = deliveries
      \/ \E t \in Unrecorded(c) : deliveries' = deliveries \cup {DeliveryRow(c, t)}
  BY DEF RecordEvent, RecordDelivery
<1>5. Counted(op[c].succeeded, sent[c], unanswered[c])
  BY <1>1 DEF IInv, Recorded, Answered
<1>6. \A row \in deliveries' :
          \/ row \in deliveries
          \/ /\ row.call = c
             /\ row.ok /\ row.type \in KnownTypes => \E ch \in sent[c] : TypeOf[ch] = row.type
             /\ ~row.ok => \A ch \in sent[c] \ unanswered[c] : TypeOf[ch] # row.type
  <2>1. ASSUME NEW t, NEW row, row = DeliveryRow(c, t)
        PROVE  /\ row.call = c
               /\ row.ok /\ row.type \in KnownTypes => \E ch \in sent[c] : TypeOf[ch] = row.type
               /\ ~row.ok => \A ch \in sent[c] \ unanswered[c] : TypeOf[ch] # row.type
    <3>1. row.call = c /\ row.type = t /\ row.ok = (t \in op[c].succeeded)
      BY <2>1 DEF DeliveryRow
    <3>. QED  BY <1>5, <3>1 DEF Counted
  <2>. QED  BY <1>4, <2>1
<1>7. Recorded'
  <2>1. \A d \in Calls : ~Taken(d)' => sent'[d] = {}
    BY <1>1, <1>2, <1>3 DEF IInv, Recorded, Taken
  <2>2. \A d \in Calls : pc'[d] \notin Answered
                         => Counted(op'[d].succeeded, sent'[d], unanswered'[d])
    BY <1>1, <1>3, <1>5 DEF IInv, Recorded
  <2>3. \A d \in Calls : pc'[d] = "deliveries" => d \in events'
    BY <1>1, <1>3 DEF IInv, Recorded
  <2>4. \A row \in deliveries' : row.call \in Calls /\ pc'[row.call] \in {"deliveries"} \cup Answered
    BY <1>3, <1>6 DEF IInv, Recorded
  <2>. QED  BY <2>1, <2>2, <2>3, <2>4 DEF Recorded
<1>8. HistoryIsTrue'
  BY <1>1, <1>6 DEF IInv, HistoryIsTrue
<1>. QED  BY <1>3, <1>7, <1>8 DEF IInv

-----------------------------------------------------------------------------
LEMMA StepIInv == ASSUME IInv, [Next]_vars PROVE IInv'
<1>1. CASE Connect \/ ConnectFails \/ AddInstruction \/ UpdateInstruction \/ DeleteInstruction
  BY <1>1, QuietStep DEF Connect, ConnectFails, AddInstruction, UpdateInstruction,
     DeleteInstruction
<1>2. CASE UNCHANGED vars
  BY <1>2, QuietStep DEF vars
<1>3. ASSUME NEW c \in Calls, Receive(c) \/ Raise(c) \/ Step(c) PROVE IInv'
  BY <1>3, ReceiveKeeps, RoutingKeeps, SendKeeps, RecordKeeps DEF Step
<1>. QED  BY <1>1, <1>2, <1>3, RestartKeeps DEF Next

LEMMA Invariant == Spec => []IInv
BY InitIInv, StepIInv, PTL DEF Spec

(* While its id is remembered, an event goes to no channel twice, however  *)
(* many retries of it overlap and whichever ids are evicted.               *)
THEOREM DeliveredOnce == Spec => []OncePerChannel
<1>1. IInv => OncePerChannel
  BY DEF IInv, Remembered, Recorded, OncePerChannel
<1>. QED  BY <1>1, Invariant, PTL

(* A call is dropped as a duplicate only behind another that was taken.    *)
THEOREM DuplicatesTrue == Spec => []DuplicatesHavePrecedent
<1>1. IInv => DuplicatesHavePrecedent
  BY DEF IInv
<1>. QED  BY <1>1, Invariant, PTL

(* A success in alert_deliveries means that a channel of the type took the  *)
(* message, where there is a sender for it, and a failure that none of them *)
(* took it and answered, also where statements or channels fail and across  *)
(* restarts.                                                                *)
THEOREM HistoryCorrect == Spec => []HistoryIsTrue
<1>1. IInv => HistoryIsTrue
  BY DEF IInv
<1>. QED  BY <1>1, Invariant, PTL
=============================================================================
