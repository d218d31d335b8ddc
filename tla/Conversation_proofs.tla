------------------------ MODULE Conversation_proofs -------------------------
(***************************************************************************)
(* Proofs about Conversation, for every number of callers and messages.    *)
(* The argument rests on one fact, LockHeld: a call inside its transaction *)
(* holds the advisory lock.  So between the statement that read the last   *)
(* row and the commit only a deletion can change the table, and that       *)
(* empties it.                                                             *)
(***************************************************************************)
EXTENDS Conversation, SetLemmas

\* A table with rows has a last one.
HasLast == Seqs # {} => \E s \in Seqs : \A t \in Seqs : t <= s

LockHeld == \A c \in Callers : InTransaction(c) => holder = c

\* A row waiting to be collapsed into is there, with the count that was read,
\* unless its deletion reset the reference.
PrevValid ==
    \A c \in Callers : pc[c] = "collapse" /\ call[c].prev # 0 =>
        /\ call[c].prev \in Seqs
        /\ call[c].repeat = rows[call[c].prev].repeat

\* A call that decided to insert differs from the last row.
Differs ==
    \A c \in Callers : pc[c] \in {"insert", "index", "counters"} /\ Seqs # {} =>
        ~Same(call[c].msg, rows[LastSeq].msg)

TypeInv == TypeOK /\ HasLast
IInv == TypeInv /\ LockHeld /\ PrevValid /\ SeqAlwaysFree /\ CountersMatch
DInv == IInv /\ Differs /\ NoAdjacentDuplicates

(* LastSeq is the maximum of the numbers in use, and 0 for an empty table. *)
LEMMA LastSeqIsMax ==
    ASSUME TypeOK, HasLast
    PROVE  /\ LastSeq \in Nat
           /\ \A s \in Seqs : s <= LastSeq
           /\ Seqs # {} => LastSeq \in Seqs
           /\ Seqs = {} => LastSeq = 0
<1>1. Seqs \subseteq Nat
  BY DEF TypeOK
<1>2. CASE Seqs = {}
  BY <1>2 DEF LastSeq
<1>3. CASE Seqs # {}
  <2>1. \E s \in Seqs : \A t \in Seqs : t <= s
    BY <1>3 DEF HasLast
  <2>2. LastSeq \in Seqs /\ \A t \in Seqs : t <= LastSeq
    BY <1>3, <2>1 DEF LastSeq
  <2>. QED  BY <1>1, <1>3, <2>2
<1>. QED  BY <1>2, <1>3

(* A message drawn for a call is a message. *)
LEMMA MessagesOfType == ASSUME NEW c, NEW m \in MessagesOf(c) PROVE m \in Message
BY DEF MessagesOf

(* The table after an insert. *)
LEMMA InsertedTable ==
    ASSUME TypeOK, NEW c \in Callers
    PROVE  /\ Inserted(c) \in [Seqs \cup {call[c].seq} -> Stored]
           /\ DOMAIN Inserted(c) = Seqs \cup {call[c].seq}
           /\ DOMAIN Inserted(c) \in SUBSET (Nat \ {0})
           /\ \A s \in Seqs : s # call[c].seq => Inserted(c)[s] = rows[s]
           /\ Inserted(c)[call[c].seq] = [msg |-> call[c].msg, repeat |-> 1]
<1>1. call[c] \in CallRecord
  BY DEF TypeOK
<1>2. call[c].seq \in Nat \ {0} /\ call[c].msg \in Message
  BY <1>1 DEF CallRecord
<1>3. [msg |-> call[c].msg, repeat |-> 1] \in Stored
  BY <1>2 DEF Stored
<1>4. \A s \in Seqs : rows[s] \in Stored
  BY DEF TypeOK
<1>5. Seqs \in SUBSET (Nat \ {0})
  BY DEF TypeOK
<1>. QED  BY <1>2, <1>3, <1>4, <1>5 DEF Inserted

(* The table after a collapse: the same rows, one with another count. *)
LEMMA CollapsedTable ==
    ASSUME TypeOK, NEW c \in Callers, Collapse(c)
    PROVE  /\ DOMAIN rows' = Seqs
           /\ rows' \in [Seqs -> Stored]
           /\ \A s \in Seqs : rows'[s].msg = rows[s].msg
           /\ \A s \in Seqs : s # call[c].prev => rows'[s] = rows[s]
           /\ call[c].prev \in Seqs /\ call[c].prev # 0 =>
                rows'[call[c].prev].repeat =
                    1 + IF c \in Storers THEN call[c].repeat
                                         ELSE rows[call[c].prev].repeat
<1>1. rows \in [Seqs -> Stored] /\ call[c] \in CallRecord
  BY DEF TypeOK
<1>2. call[c].repeat \in Nat \ {0}
  BY <1>1 DEF CallRecord
<1>3. CASE call[c].prev = 0 \/ call[c].prev \notin Seqs
  <2>1. rows' = rows
    BY <1>1, <1>3 DEF Collapse
  <2>. QED  BY <1>1, <1>3, <2>1
<1>4. CASE call[c].prev # 0 /\ call[c].prev \in Seqs
  <2>. DEFINE p == call[c].prev
              n == 1 + IF c \in Storers THEN call[c].repeat ELSE rows[p].repeat
  <2>1. rows[p] \in Stored /\ rows[p].repeat \in Nat \ {0} /\ rows[p].msg \in Message
    BY <1>1, <1>4 DEF Stored
  <2>2. rows' = [rows EXCEPT ![p] = [rows[p] EXCEPT !.repeat = n]]
    BY <1>1, <1>4 DEF Collapse
  <2>3. n \in Nat \ {0}
    BY <1>2, <2>1
  <2>4. [rows[p] EXCEPT !.repeat = n] \in Stored
      /\ [rows[p] EXCEPT !.repeat = n].msg = rows[p].msg
      /\ [rows[p] EXCEPT !.repeat = n].repeat = n
    BY <2>1, <2>3 DEF Stored
  <2>. HIDE DEF n
  <2>5. DOMAIN rows' = Seqs /\ rows' \in [Seqs -> Stored]
    BY <1>1, <2>2, <2>4
  <2>6. \A s \in Seqs : s # p => rows'[s] = rows[s]
    BY <1>1, <2>2
  <2>7. rows'[p] = [rows[p] EXCEPT !.repeat = n]
    BY <1>1, <1>4, <2>2
  <2>8. rows'[p].repeat = n /\ rows'[p].msg = rows[p].msg
    BY <2>4, <2>7
  <2>9. \A s \in Seqs : rows'[s].msg = rows[s].msg
    BY <2>6, <2>8
  <2>. QED  BY <2>5, <2>6, <2>8, <2>9 DEF n
<1>. QED  BY <1>3, <1>4

-----------------------------------------------------------------------------
(* Types.                                                                  *)

LEMMA TypeInit == Init => TypeInv
<1>. SUFFICES ASSUME Init PROVE TypeInv
  OBVIOUS
<1>. USE ConversationAssumption DEF Init
<1>1. Nothing \in Message
  BY DEF Nothing, Message
<1>2. NoCall(Nothing) \in CallRecord
  BY <1>1 DEF NoCall, CallRecord
<1>3. Seqs = {} /\ rows \in [Seqs -> Stored]
  BY DEF Seqs
<1>4. TypeOK
  BY <1>2, <1>3 DEF TypeOK, Labels
<1>5. HasLast
  BY <1>3 DEF HasLast
<1>. QED  BY <1>4, <1>5 DEF TypeInv

(* Every step keeps the types and the existence of a last row. *)
LEMMA TypeStep == TypeInv /\ [Next]_vars => TypeInv'
<1>. SUFFICES ASSUME TypeInv, [Next]_vars PROVE TypeInv'
  OBVIOUS
<1>. USE ConversationAssumption
<1>0. TypeOK /\ HasLast
  BY DEF TypeInv
<1>1. ASSUME NEW c \in Callers, Call(c) PROVE TypeInv'
  <2>1. PICK m \in MessagesOf(c) :
            call' = [call EXCEPT ![c] = [NoCall(m) EXCEPT !.epoch = epoch]]
    BY <1>1 DEF Call
  <2>2. m \in Message
    BY MessagesOfType
  <2>3. [NoCall(m) EXCEPT !.epoch = epoch] \in CallRecord
    BY <1>0, <2>2 DEF TypeOK, NoCall, CallRecord
  <2>4. call' \in [Callers -> CallRecord]
    BY <1>0, <2>1, <2>3 DEF TypeOK
  <2>5. pc' \in [Callers -> Labels]
    BY <1>0, <1>1 DEF TypeOK, Labels, Call, Goto
  <2>. QED
    BY <1>0, <1>1, <2>4, <2>5 DEF TypeInv, TypeOK, HasLast, Seqs, Call
<1>2. ASSUME NEW c \in Callers, CheckExists(c) PROVE TypeInv'
  BY <1>0, <1>2 DEF TypeInv, TypeOK, HasLast, Seqs, CheckExists, Goto, Labels
<1>3. ASSUME NEW c \in Callers, Begin(c) PROVE TypeInv'
  BY <1>0, <1>3 DEF TypeInv, TypeOK, HasLast, Seqs, Begin, Goto, Labels
<1>4. ASSUME NEW c \in Callers, ReadPrevious(c) PROVE TypeInv'
  <2>1. call' \in [Callers -> CallRecord]
    <3>1. CASE call' = call
      BY <1>0, <3>1 DEF TypeOK
    <3>2. CASE call' # call
      <4>1. Seqs # {} /\ call' = [call EXCEPT ![c].prev = LastSeq,
                                             ![c].repeat = rows[LastSeq].repeat]
        BY <1>4, <3>2 DEF ReadPrevious
      <4>2. LastSeq \in Seqs /\ LastSeq \in Nat
        BY <1>0, <4>1, LastSeqIsMax
      <4>3. rows[LastSeq].repeat \in Nat \ {0}
        BY <1>0, <4>2 DEF TypeOK, Stored
      <4>4. call[c] \in CallRecord
        BY <1>0 DEF TypeOK
      <4>5. [call[c] EXCEPT !.prev = LastSeq, !.repeat = rows[LastSeq].repeat]
                \in CallRecord
        BY <4>2, <4>3, <4>4 DEF CallRecord
      <4>6. call' = [call EXCEPT ![c] = [call[c] EXCEPT !.prev = LastSeq,
                                            !.repeat = rows[LastSeq].repeat]]
        BY <1>0, <4>1 DEF TypeOK
      <4>. QED  BY <1>0, <4>5, <4>6 DEF TypeOK
    <3>. QED  BY <3>1, <3>2
  <2>2. pc' \in [Callers -> Labels]
    BY <1>0, <1>4 DEF TypeOK, Labels, ReadPrevious, Goto
  <2>. QED
    BY <1>0, <1>4, <2>1, <2>2 DEF TypeInv, TypeOK, HasLast, Seqs, ReadPrevious
<1>5. ASSUME NEW c \in Callers, Collapse(c) PROVE TypeInv'
  <2>1. DOMAIN rows' = Seqs /\ rows' \in [Seqs -> Stored]
    BY <1>0, <1>5, CollapsedTable
  <2>2. pc' \in [Callers -> Labels] /\ holder' = NoOne /\ acked' \in Nat
    BY <1>0, <1>5 DEF TypeOK, Labels, Collapse, Acknowledge, Goto
  <2>. QED
    BY <1>0, <1>5, <2>1, <2>2 DEF TypeInv, TypeOK, HasLast, Seqs, Collapse
<1>6. ASSUME NEW c \in Callers, PickSeq(c) PROVE TypeInv'
  <2>1. LastSeq + 1 \in Nat \ {0}
    BY <1>0, LastSeqIsMax
  <2>2. call[c] \in CallRecord
    BY <1>0 DEF TypeOK
  <2>3. [call[c] EXCEPT !.seq = LastSeq + 1] \in CallRecord
    BY <2>1, <2>2 DEF CallRecord
  <2>4. call' \in [Callers -> CallRecord]
    BY <1>0, <1>6, <2>3 DEF TypeOK, PickSeq
  <2>. QED
    BY <1>0, <1>6, <2>4 DEF TypeInv, TypeOK, HasLast, Seqs, PickSeq, Goto, Labels
<1>7. ASSUME NEW c \in Callers, InsertRow(c) PROVE TypeInv'
  BY <1>0, <1>7 DEF TypeInv, TypeOK, HasLast, Seqs, InsertRow, Goto, Labels
<1>8. ASSUME NEW c \in Callers, InsertRefused(c) PROVE TypeInv'
  BY <1>0, <1>8 DEF TypeInv, TypeOK, HasLast, Seqs, InsertRefused, Goto, Labels
<1>9. ASSUME NEW c \in Callers, Commit(c) PROVE TypeInv'
  <2>1. rows' = Inserted(c)
    BY <1>9 DEF Commit
  <2>2. /\ DOMAIN rows' = Seqs \cup {call[c].seq}
        /\ DOMAIN rows' \in SUBSET (Nat \ {0})
        /\ rows' \in [DOMAIN rows' -> Stored]
    BY <1>0, <2>1, InsertedTable
  <2>3. pc' \in [Callers -> Labels] /\ holder' = NoOne /\ acked' \in Nat /\ total' \in Nat
    BY <1>0, <1>9 DEF TypeOK, Labels, Commit, Acknowledge, Goto
  <2>4. TypeOK'
    BY <1>0, <1>9, <2>2, <2>3 DEF TypeOK, Seqs, Commit
  <2>5. HasLast'
    <3>1. call[c].seq \in Nat /\ LastSeq \in Nat /\ Seqs \subseteq Nat
      BY <1>0, LastSeqIsMax DEF TypeOK, CallRecord
    <3>2. CASE LastSeq <= call[c].seq
      <4>1. \A t \in DOMAIN rows' : t <= call[c].seq
        BY <1>0, <2>2, <3>1, <3>2, LastSeqIsMax
      <4>. QED  BY <2>2, <4>1 DEF HasLast, Seqs
    <3>3. CASE call[c].seq < LastSeq
      <4>1. Seqs # {} /\ LastSeq \in Seqs
        BY <1>0, <3>1, <3>3, LastSeqIsMax
      <4>2. \A t \in DOMAIN rows' : t <= LastSeq
        BY <1>0, <2>2, <3>1, <3>3, LastSeqIsMax
      <4>. QED  BY <2>2, <4>1, <4>2 DEF HasLast, Seqs
    <3>. QED  BY <3>1, <3>2, <3>3
  <2>. QED  BY <2>4, <2>5 DEF TypeInv
<1>10. ASSUME NEW c \in Callers, Abort(c) PROVE TypeInv'
  BY <1>0, <1>10 DEF TypeInv, TypeOK, HasLast, Seqs, Abort, Goto, Labels
<1>11. ASSUME DeleteRows PROVE TypeInv'
  BY <1>0, <1>11 DEF TypeInv, TypeOK, HasLast, Seqs, DeleteRows
<1>12. ASSUME DeleteConversation PROVE TypeInv'
  <2>1. DOMAIN rows' = {} /\ rows' \in [{} -> Stored]
    BY <1>12 DEF DeleteConversation
  <2>2. \A c \in Callers : [call[c] EXCEPT !.prev = 0] \in CallRecord
    BY <1>0 DEF TypeOK, CallRecord
  <2>3. call' \in [Callers -> CallRecord]
    BY <1>12, <2>2 DEF DeleteConversation
  <2>. QED
    BY <1>0, <1>12, <2>1, <2>3 DEF TypeInv, TypeOK, HasLast, Seqs, DeleteConversation
<1>13. ASSUME DeleteRefused PROVE TypeInv'
  BY <1>0, <1>13 DEF TypeInv, TypeOK, HasLast, Seqs, DeleteRefused
<1>14. ASSUME Recover PROVE TypeInv'
  BY <1>0, <1>14 DEF TypeInv, TypeOK, HasLast, Seqs, Recover
<1>15. CASE UNCHANGED vars
  BY <1>0, <1>15 DEF TypeInv, TypeOK, HasLast, Seqs, vars
<1>. QED
  BY <1>1, <1>2, <1>3, <1>4, <1>5, <1>6, <1>7, <1>8, <1>9, <1>10, <1>11, <1>12,
     <1>13, <1>14, <1>15 DEF Next, Continue

(* The types of the module hold in every reachable state. *)
THEOREM TypeCorrect == Spec => []TypeOK
<1>1. TypeInv => TypeOK
  BY DEF TypeInv
<1>. QED  BY TypeInit, TypeStep, <1>1, PTL DEF Spec

-----------------------------------------------------------------------------
(* The lock, the numbers and the counters.                                 *)

(* The inductive invariant holds initially. *)
LEMMA LockInit == Init => IInv
<1>. SUFFICES ASSUME Init PROVE IInv
  OBVIOUS
<1>1. Seqs = {}
  BY DEF Init, Seqs
<1>2. CountersMatch
  BY <1>1, FS_EmptySet DEF CountersMatch, Init
<1>3. LockHeld /\ PrevValid /\ SeqAlwaysFree
  BY DEF LockHeld, PrevValid, SeqAlwaysFree, InTransaction, Init
<1>. QED  BY <1>2, <1>3, TypeInit DEF IInv

(* Only the lock holder is in its transaction, and it lets go when it ends. *)
LEMMA LockStep == TypeInv /\ LockHeld /\ [Next]_vars => LockHeld'
<1>. SUFFICES ASSUME TypeInv, LockHeld, [Next]_vars PROVE LockHeld'
  OBVIOUS
<1>. USE ConversationAssumption
<1>0. pc \in [Callers -> Labels]
  BY DEF TypeInv, TypeOK
<1>1. ASSUME NEW c \in Callers, Call(c) \/ CheckExists(c) PROVE LockHeld'
  BY <1>0, <1>1 DEF Call, CheckExists, Goto, LockHeld, InTransaction
<1>2. ASSUME NEW c \in Callers, Begin(c) PROVE LockHeld'
  BY <1>0, <1>2 DEF Begin, Goto, LockHeld, InTransaction
<1>3. ASSUME NEW c \in Callers, ReadPrevious(c) \/ PickSeq(c) \/ InsertRow(c)
      PROVE  LockHeld'
  BY <1>0, <1>3 DEF ReadPrevious, PickSeq, InsertRow, Goto, LockHeld, InTransaction
<1>4. ASSUME NEW c \in Callers, Collapse(c) \/ Commit(c) PROVE LockHeld'
  BY <1>0, <1>4 DEF Collapse, Commit, Acknowledge, Goto, LockHeld, InTransaction
<1>5. ASSUME NEW c \in Callers, InsertRefused(c) \/ Abort(c) PROVE LockHeld'
  BY <1>0, <1>5 DEF InsertRefused, Abort, Goto, LockHeld, InTransaction
<1>6. CASE DeleteRows \/ DeleteConversation \/ DeleteRefused \/ Recover \/ UNCHANGED vars
  BY <1>6 DEF DeleteRows, DeleteConversation, DeleteRefused, Recover, vars,
              LockHeld, InTransaction
<1>. QED  BY <1>1, <1>2, <1>3, <1>4, <1>5, <1>6 DEF Next, Continue

(* A call inside its transaction is alone there. *)
LEMMA Alone ==
    ASSUME LockHeld, NEW c \in Callers, InTransaction(c),
           NEW d \in Callers, InTransaction(d)
    PROVE  c = d
BY DEF LockHeld

(* A pending collapse keeps a valid reference: only a deletion can interfere. *)
LEMMA PrevStep == IInv /\ [Next]_vars => PrevValid'
<1>. SUFFICES ASSUME IInv, [Next]_vars PROVE PrevValid'
  OBVIOUS
<1>0. TypeOK /\ HasLast /\ LockHeld /\ PrevValid
  BY DEF IInv, TypeInv
<1>a. pc \in [Callers -> Labels] /\ call \in [Callers -> CallRecord]
  BY <1>0 DEF TypeOK
<1>1. ASSUME NEW c \in Callers, Call(c) PROVE PrevValid'
  BY <1>a, <1>0, <1>1 DEF Call, Goto, PrevValid, Seqs
<1>2. ASSUME NEW c \in Callers,
             CheckExists(c) \/ Begin(c) \/ InsertRow(c) \/ InsertRefused(c) \/ Abort(c)
      PROVE  PrevValid'
  BY <1>a, <1>0, <1>2 DEF CheckExists, Begin, InsertRow, InsertRefused, Abort, Goto,
                          PrevValid, Seqs
<1>3. ASSUME NEW c \in Callers, ReadPrevious(c) PROVE PrevValid'
  <2>1. CASE Seqs # {} /\ Same(call[c].msg, rows[LastSeq].msg)
    <3>1. LastSeq \in Seqs
      BY <1>0, <2>1, LastSeqIsMax
    <3>2. call'[c].prev = LastSeq /\ call'[c].repeat = rows[LastSeq].repeat
      BY <1>a, <1>3, <2>1 DEF ReadPrevious, CallRecord
    <3>3. \A d \in Callers : d # c => call'[d] = call[d] /\ pc'[d] = pc[d]
      BY <1>a, <1>3, <2>1 DEF ReadPrevious, Goto
    <3>. QED  BY <1>0, <1>3, <3>1, <3>2, <3>3 DEF PrevValid, Seqs, ReadPrevious
  <2>2. CASE ~(Seqs # {} /\ Same(call[c].msg, rows[LastSeq].msg))
    BY <1>a, <1>0, <1>3, <2>2 DEF ReadPrevious, Goto, PrevValid, Seqs
  <2>. QED  BY <2>1, <2>2
<1>4. ASSUME NEW c \in Callers, PickSeq(c) PROVE PrevValid'
  BY <1>a, <1>0, <1>4 DEF PickSeq, Goto, PrevValid, Seqs
<1>5. ASSUME NEW c \in Callers, Collapse(c) \/ Commit(c) PROVE PrevValid'
  <2>1. InTransaction(c) /\ pc' = [pc EXCEPT ![c] = "idle"]
    BY <1>5 DEF Collapse, Commit, InTransaction, Acknowledge, Goto
  <2>2. \A d \in Callers : pc'[d] # "collapse"
    BY <1>0, <1>a, <2>1, Alone DEF InTransaction
  <2>. QED  BY <2>2 DEF PrevValid
<1>6. CASE DeleteConversation
  <2>1. \A c \in Callers : call'[c].prev = 0
    BY <1>a, <1>6 DEF DeleteConversation, CallRecord
  <2>. QED  BY <2>1 DEF PrevValid
<1>7. CASE DeleteRows \/ DeleteRefused \/ Recover \/ UNCHANGED vars
  BY <1>0, <1>7 DEF DeleteRows, DeleteRefused, Recover, vars, PrevValid, Seqs
<1>. QED  BY <1>1, <1>2, <1>3, <1>4, <1>5, <1>6, <1>7 DEF Next, Continue

(* No step commits a row at or above a number another call has picked. *)
LEMMA SeqStep == IInv /\ [Next]_vars => SeqAlwaysFree'
<1>. SUFFICES ASSUME IInv, [Next]_vars PROVE SeqAlwaysFree'
  OBVIOUS
<1>0. TypeOK /\ HasLast /\ LockHeld /\ SeqAlwaysFree
  BY DEF IInv, TypeInv
<1>a. pc \in [Callers -> Labels] /\ call \in [Callers -> CallRecord]
  BY <1>0 DEF TypeOK
<1>1. ASSUME NEW c \in Callers, Call(c) PROVE SeqAlwaysFree'
  BY <1>a, <1>0, <1>1 DEF Call, Goto, SeqAlwaysFree, Seqs
<1>2. ASSUME NEW c \in Callers,
             CheckExists(c) \/ Begin(c) \/ InsertRow(c) \/ InsertRefused(c) \/ Abort(c)
      PROVE  SeqAlwaysFree'
  BY <1>a, <1>0, <1>2 DEF CheckExists, Begin, InsertRow, InsertRefused, Abort, Goto,
                          SeqAlwaysFree, Seqs
<1>3. ASSUME NEW c \in Callers, ReadPrevious(c) PROVE SeqAlwaysFree'
  <2>1. \A d \in Callers : d # c => call'[d] = call[d] /\ pc'[d] = pc[d]
    BY <1>a, <1>3 DEF ReadPrevious, Goto
  <2>2. pc'[c] \in {"collapse", "insert"}
    BY <1>a, <1>3 DEF ReadPrevious, Goto
  <2>. QED  BY <1>0, <1>3, <2>1, <2>2 DEF ReadPrevious, SeqAlwaysFree, Seqs
<1>4. ASSUME NEW c \in Callers, PickSeq(c) PROVE SeqAlwaysFree'
  <2>1. LastSeq \in Nat /\ Seqs \subseteq Nat /\ \A s \in Seqs : s <= LastSeq
    BY <1>0, LastSeqIsMax DEF TypeOK
  <2>2. call'[c].seq = LastSeq + 1 /\ pc'[c] = "index"
    BY <1>a, <1>4 DEF PickSeq, Goto, CallRecord
  <2>3. \A d \in Callers : d # c => call'[d] = call[d] /\ pc'[d] = pc[d]
    BY <1>a, <1>4 DEF PickSeq, Goto
  <2>4. \A s \in Seqs : s < call'[c].seq
    <3>. TAKE s \in Seqs
    <3>1. s \in Nat /\ s <= LastSeq
      BY <2>1
    <3>2. s < LastSeq + 1
      BY <2>1, <3>1
    <3>. QED  BY <2>2, <3>2
  <2>5. rows' = rows
    BY <1>4 DEF PickSeq
  <2>. QED  BY <1>0, <2>3, <2>4, <2>5 DEF SeqAlwaysFree, Seqs
<1>5. ASSUME NEW c \in Callers, Collapse(c) \/ Commit(c) PROVE SeqAlwaysFree'
  <2>1. InTransaction(c) /\ pc' = [pc EXCEPT ![c] = "idle"]
    BY <1>5 DEF Collapse, Commit, InTransaction, Acknowledge, Goto
  <2>2. \A d \in Callers : pc'[d] \notin {"index", "counters"}
    BY <1>0, <1>a, <2>1, Alone DEF InTransaction
  <2>. QED  BY <2>2 DEF SeqAlwaysFree
<1>6. CASE DeleteConversation
  BY <1>6 DEF DeleteConversation, SeqAlwaysFree, Seqs
<1>7. CASE DeleteRows \/ DeleteRefused \/ Recover \/ UNCHANGED vars
  BY <1>0, <1>7 DEF DeleteRows, DeleteRefused, Recover, vars, SeqAlwaysFree, Seqs
<1>. QED  BY <1>1, <1>2, <1>3, <1>4, <1>5, <1>6, <1>7 DEF Next, Continue

(* The counter moves with the rows: one insert adds one new number. *)
LEMMA CountersStep == IInv /\ [Next]_vars => CountersMatch'
<1>. SUFFICES ASSUME IInv, [Next]_vars PROVE CountersMatch'
  OBVIOUS
<1>0. TypeOK /\ HasLast /\ SeqAlwaysFree /\ CountersMatch
  BY DEF IInv, TypeInv
<1>1. ASSUME NEW c \in Callers,
             Call(c) \/ CheckExists(c) \/ Begin(c) \/ ReadPrevious(c) \/ PickSeq(c)
             \/ InsertRow(c) \/ InsertRefused(c) \/ Abort(c)
      PROVE  CountersMatch'
  BY <1>0, <1>1 DEF Call, CheckExists, Begin, ReadPrevious, PickSeq, InsertRow,
                    InsertRefused, Abort, CountersMatch, Seqs
<1>2. ASSUME NEW c \in Callers, Collapse(c) PROVE CountersMatch'
  <2>1. DOMAIN rows' = Seqs /\ total' = total
    BY <1>0, <1>2, CollapsedTable DEF Collapse
  <2>. QED  BY <1>0, <2>1 DEF CountersMatch, Seqs
<1>3. ASSUME NEW c \in Callers, Commit(c) PROVE CountersMatch'
  <2>1. DOMAIN rows' = Seqs \cup {call[c].seq} /\ total' = total + 1
    BY <1>0, <1>3, InsertedTable DEF Commit
  <2>2. call[c].seq \notin Seqs
    <3>1. \A s \in Seqs : s < call[c].seq
      BY <1>0, <1>3 DEF SeqAlwaysFree, Commit
    <3>2. call[c].seq \in Nat
      BY <1>0 DEF TypeOK, CallRecord
    <3>. QED  BY <3>1, <3>2
  <2>3. IsFiniteSet(Seqs) /\ total = Cardinality(Seqs)
    BY <1>0 DEF CountersMatch
  <2>4. /\ IsFiniteSet(Seqs \cup {call[c].seq})
        /\ Cardinality(Seqs \cup {call[c].seq}) = Cardinality(Seqs) + 1
    BY <2>2, <2>3, FS_AddElement
  <2>. QED  BY <2>1, <2>3, <2>4 DEF CountersMatch, Seqs
<1>4. CASE DeleteConversation
  BY <1>4, FS_EmptySet DEF DeleteConversation, CountersMatch, Seqs
<1>5. CASE DeleteRows \/ DeleteRefused \/ Recover \/ UNCHANGED vars
  BY <1>0, <1>5 DEF DeleteRows, DeleteRefused, Recover, vars, CountersMatch, Seqs
<1>. QED  BY <1>1, <1>2, <1>3, <1>4, <1>5 DEF Next, Continue

(* The inductive invariant is preserved by every step. *)
LEMMA InvariantStep == IInv /\ [Next]_vars => IInv'
<1>1. IInv => TypeInv /\ LockHeld
  BY DEF IInv
<1>. QED  BY <1>1, TypeStep, LockStep, PrevStep, SeqStep, CountersStep DEF IInv

(* total_messages counts the rows of the table, whatever the interleaving of
   inserts, collapses, rollbacks, refused inserts and deletions. *)
THEOREM CountersCorrect == Spec => []CountersMatch
<1>1. IInv => CountersMatch
  BY DEF IInv
<1>. QED  BY LockInit, InvariantStep, <1>1, PTL DEF Spec

(* The number an INSERT picked stays above every committed number until the
   transaction ends: store_message never meets a unique violation. *)
THEOREM SeqCorrect == Spec => []SeqAlwaysFree
<1>1. IInv => SeqAlwaysFree
  BY DEF IInv
<1>. QED  BY LockInit, InvariantStep, <1>1, PTL DEF Spec

-----------------------------------------------------------------------------
(* Duplicates.                                                             *)

(* What a call compared its message with is still the last row when it
   inserts. *)
LEMMA DiffersStep == DInv /\ [Next]_vars => Differs'
<1>. SUFFICES ASSUME DInv, [Next]_vars PROVE Differs'
  OBVIOUS
<1>0. TypeOK /\ HasLast /\ LockHeld /\ Differs
  BY DEF DInv, IInv, TypeInv
<1>a. pc \in [Callers -> Labels] /\ call \in [Callers -> CallRecord]
  BY <1>0 DEF TypeOK
<1>b. rows' = rows => Seqs' = Seqs /\ LastSeq' = LastSeq
  BY DEF Seqs, LastSeq
<1>1. ASSUME NEW c \in Callers, Call(c) PROVE Differs'
  <2>1. \A d \in Callers : d # c => call'[d] = call[d] /\ pc'[d] = pc[d]
    BY <1>a, <1>1 DEF Call, Goto
  <2>2. pc'[c] \in {"check", "begin"}
    BY <1>a, <1>1 DEF Call, Goto
  <2>. QED  BY <1>0, <1>b, <1>1, <2>1, <2>2 DEF Differs, Call
<1>2. ASSUME NEW c \in Callers,
             CheckExists(c) \/ Begin(c) \/ InsertRow(c) \/ InsertRefused(c) \/ Abort(c)
      PROVE  Differs'
  BY <1>a, <1>b, <1>0, <1>2
     DEF CheckExists, Begin, InsertRow, InsertRefused, Abort, Goto, Differs
<1>3. ASSUME NEW c \in Callers, ReadPrevious(c) PROVE Differs'
  <2>1. \A d \in Callers : d # c => call'[d] = call[d] /\ pc'[d] = pc[d]
    BY <1>a, <1>3 DEF ReadPrevious, Goto
  <2>2. \/ pc'[c] = "collapse"
        \/ call' = call /\ ~(Seqs # {} /\ Same(call[c].msg, rows[LastSeq].msg))
    BY <1>a, <1>3 DEF ReadPrevious, Goto
  <2>3. rows' = rows
    BY <1>3 DEF ReadPrevious
  <2>. QED  BY <1>0, <1>b, <2>1, <2>2, <2>3 DEF Differs
<1>4. ASSUME NEW c \in Callers, PickSeq(c) PROVE Differs'
  <2>1. \A d \in Callers : call'[d].msg = call[d].msg
    BY <1>a, <1>4 DEF PickSeq, CallRecord
  <2>2. \A d \in Callers : pc'[d] = pc[d] \/ d = c
    BY <1>a, <1>4 DEF PickSeq, Goto
  <2>3. rows' = rows /\ pc[c] = "insert"
    BY <1>4 DEF PickSeq
  <2>. QED  BY <1>0, <1>b, <2>1, <2>2, <2>3 DEF Differs
<1>5. ASSUME NEW c \in Callers, Collapse(c) \/ Commit(c) PROVE Differs'
  <2>1. InTransaction(c) /\ pc' = [pc EXCEPT ![c] = "idle"]
    BY <1>5 DEF Collapse, Commit, InTransaction, Acknowledge, Goto
  <2>2. \A d \in Callers : pc'[d] \notin {"insert", "index", "counters"}
    BY <1>0, <1>a, <2>1, Alone DEF InTransaction
  <2>. QED  BY <2>2 DEF Differs
<1>6. CASE DeleteConversation
  BY <1>6 DEF DeleteConversation, Differs, Seqs
<1>7. CASE DeleteRows \/ DeleteRefused \/ Recover \/ UNCHANGED vars
  BY <1>0, <1>b, <1>7 DEF DeleteRows, DeleteRefused, Recover, vars, Differs
<1>. QED  BY <1>1, <1>2, <1>3, <1>4, <1>5, <1>6, <1>7 DEF Next, Continue

(* A row goes in above the last one, from which its message differs. *)
LEMMA AdjacentStep == DInv /\ [Next]_vars => NoAdjacentDuplicates'
<1>. SUFFICES ASSUME DInv, [Next]_vars PROVE NoAdjacentDuplicates'
  OBVIOUS
<1>0. TypeOK /\ HasLast /\ SeqAlwaysFree /\ Differs /\ NoAdjacentDuplicates
  BY DEF DInv, IInv, TypeInv
<1>1. CASE rows' = rows
  BY <1>0, <1>1 DEF NoAdjacentDuplicates, Seqs
<1>2. ASSUME NEW c \in Callers, Collapse(c) PROVE NoAdjacentDuplicates'
  <2>1. DOMAIN rows' = Seqs /\ \A s \in Seqs : rows'[s].msg = rows[s].msg
    BY <1>0, <1>2, CollapsedTable
  <2>. QED  BY <1>0, <2>1 DEF NoAdjacentDuplicates, Seqs
<1>3. ASSUME NEW c \in Callers, Commit(c) PROVE NoAdjacentDuplicates'
  <2>. DEFINE new == call[c].seq
  <2>1. rows' = Inserted(c) /\ pc[c] = "counters"
    BY <1>3 DEF Commit
  <2>2. /\ DOMAIN rows' = Seqs \cup {new}
        /\ \A s \in Seqs : s # new => rows'[s] = rows[s]
        /\ rows'[new].msg = call[c].msg
    <3>1. Inserted(c)[new] = [msg |-> call[c].msg, repeat |-> 1]
      BY <1>0, InsertedTable
    <3>2. rows'[new].msg = call[c].msg
      BY <2>1, <3>1
    <3>. QED  BY <1>0, <2>1, <3>2, InsertedTable
  <2>3. new \in Nat /\ Seqs \subseteq Nat /\ \A s \in Seqs : s < new
    BY <1>0, <2>1 DEF TypeOK, CallRecord, SeqAlwaysFree
  <2>4. SUFFICES ASSUME NEW s \in DOMAIN rows', NEW t \in DOMAIN rows',
                        s < t, Same(rows'[s].msg, rows'[t].msg)
                 PROVE  \E u \in DOMAIN rows' : s < u /\ u < t
    BY DEF NoAdjacentDuplicates, Seqs
  <2>5. s \in Seqs /\ s # new /\ rows'[s] = rows[s]
    <3>. HIDE DEF new
    <3>1. s \in Seqs \cup {new} /\ t \in Seqs \cup {new}
      BY <2>2, <2>4
    <3>2. ASSUME s = new PROVE FALSE
      <4>1. new < t
        BY <2>4, <3>2
      <4>2. CASE t = new
        BY <2>3, <4>1, <4>2
      <4>3. CASE t \in Seqs
        <5>1. t < new /\ t \in Nat
          BY <2>3, <4>3
        <5>. QED  BY <2>3, <4>1, <5>1
      <4>. QED  BY <3>1, <4>2, <4>3
    <3>3. s # new
      BY <3>2
    <3>. QED  BY <2>2, <3>1, <3>3
  <2>6. CASE t # new
    BY <1>0, <2>2, <2>4, <2>5, <2>6 DEF NoAdjacentDuplicates
  <2>7. CASE t = new
    <3>1. Same(call[c].msg, rows[s].msg)
      BY <2>2, <2>4, <2>5, <2>7 DEF Same
    <3>2. ~Same(call[c].msg, rows[LastSeq].msg)
      BY <1>0, <2>1, <2>5 DEF Differs
    <3>3. LastSeq \in Seqs /\ s <= LastSeq /\ s # LastSeq
      BY <1>0, <2>5, <3>1, <3>2, LastSeqIsMax
    <3>4. s < LastSeq /\ LastSeq < new
      BY <2>3, <2>5, <3>3
    <3>. QED  BY <2>2, <2>7, <3>3, <3>4
  <2>. QED  BY <2>6, <2>7
<1>4. CASE DeleteConversation
  BY <1>4 DEF DeleteConversation, NoAdjacentDuplicates, Seqs
<1>. QED
  BY <1>1, <1>2, <1>3, <1>4
     DEF Next, Continue, vars, Call, CheckExists, Begin, ReadPrevious, PickSeq, InsertRow,
         InsertRefused, Abort, DeleteRows, DeleteRefused, Recover

(* Two messages that follow each other are never one message stored twice,
   by whatever mix of store_message, get_context and deletions. *)
THEOREM NoDuplicates == Spec => []NoAdjacentDuplicates
<1>1. Init => DInv
  BY LockInit DEF Init, DInv, Differs, NoAdjacentDuplicates, Seqs
<1>2. DInv /\ [Next]_vars => DInv'
  <2>1. DInv => IInv
    BY DEF DInv
  <2>. QED  BY <2>1, InvariantStep, DiffersStep, AdjacentStep DEF DInv
<1>3. DInv => NoAdjacentDuplicates
  BY DEF DInv
<1>. QED  BY <1>1, <1>2, <1>3, PTL DEF Spec

-----------------------------------------------------------------------------
(* History.                                                                *)

Preserved ==
    epoch' = epoch =>
        /\ Seqs \subseteq DOMAIN rows'
        /\ \A s \in Seqs : /\ rows'[s].msg = rows[s].msg
                          /\ rows'[s].repeat >= rows[s].repeat

(* Until a deletion commits no message changes and no repeat count falls:
   the count that store_message read is the one it replaces. *)
LEMMA PreservedStep == IInv /\ [Next]_vars => Preserved
<1>. SUFFICES ASSUME IInv, [Next]_vars PROVE Preserved
  OBVIOUS
<1>0. TypeOK /\ HasLast /\ PrevValid /\ SeqAlwaysFree
  BY DEF IInv, TypeInv
<1>a. \A s \in Seqs : rows[s].repeat \in Nat
  BY <1>0 DEF TypeOK, Stored
<1>1. CASE rows' = rows
  BY <1>a, <1>1 DEF Preserved, Seqs
<1>2. ASSUME NEW c \in Callers, Collapse(c) PROVE Preserved
  <2>. DEFINE p == call[c].prev
  <2>1. /\ DOMAIN rows' = Seqs
        /\ \A s \in Seqs : rows'[s].msg = rows[s].msg
        /\ \A s \in Seqs : s # p => rows'[s] = rows[s]
    BY <1>0, <1>2, CollapsedTable
  <2>2. CASE p = 0
    <3>1. rows' = rows
      BY <1>2, <2>2 DEF Collapse
    <3>. QED  BY <1>1, <3>1
  <2>3. CASE p # 0
    <3>1. p \in Seqs /\ call[c].repeat = rows[p].repeat
      BY <1>0, <1>2, <2>3 DEF PrevValid, Collapse
    <3>2. rows'[p].repeat = 1 + rows[p].repeat
      BY <1>0, <1>2, <2>3, <3>1, CollapsedTable
    <3>3. rows'[p].repeat >= rows[p].repeat
      BY <1>a, <3>1, <3>2
    <3>4. ASSUME NEW s \in Seqs PROVE rows'[s].repeat >= rows[s].repeat
      BY <1>a, <2>1, <3>3, <3>4
    <3>. QED  BY <2>1, <3>4 DEF Preserved
  <2>. QED  BY <2>2, <2>3
<1>3. ASSUME NEW c \in Callers, Commit(c) PROVE Preserved
  <2>1. /\ DOMAIN rows' = Seqs \cup {call[c].seq}
        /\ \A s \in Seqs : s # call[c].seq => rows'[s] = rows[s]
    BY <1>0, <1>3, InsertedTable DEF Commit
  <2>2. \A s \in Seqs : s < call[c].seq
    BY <1>0, <1>3 DEF SeqAlwaysFree, Commit
  <2>3. call[c].seq \in Nat /\ Seqs \subseteq Nat
    BY <1>0 DEF TypeOK, CallRecord
  <2>4. \A s \in Seqs : rows'[s] = rows[s]
    BY <2>1, <2>2, <2>3
  <2>. QED  BY <1>a, <2>1, <2>4 DEF Preserved
<1>4. CASE DeleteConversation
  <2>1. epoch' = epoch + 1 /\ epoch \in Nat
    BY <1>0, <1>4 DEF DeleteConversation, TypeOK
  <2>. QED  BY <2>1 DEF Preserved
<1>. QED
  BY <1>1, <1>2, <1>3, <1>4
     DEF Next, Continue, vars, Call, CheckExists, Begin, ReadPrevious, PickSeq, InsertRow,
         InsertRefused, Abort, DeleteRows, DeleteRefused, Recover

(* AppendOnly for every number of callers: a stored message keeps its number
   and its text, and concurrent collapses never lose a repetition. *)
THEOREM HistoryKept == Spec => AppendOnly
<1>1. Preserved /\ [Next]_vars =>
        [epoch' = epoch =>
          /\ Seqs \subseteq DOMAIN rows'
          /\ \A s \in Seqs : /\ rows'[s].msg = rows[s].msg
                            /\ rows'[s].repeat >= rows[s].repeat]_vars
  BY DEF Preserved
<1>2. IInv /\ [Next]_vars => Preserved
  BY PreservedStep
<1>. QED  BY LockInit, InvariantStep, <1>1, <1>2, PTL DEF Spec, AppendOnly

-----------------------------------------------------------------------------
(* Acknowledged calls are stored.                                          *)

Repeats == [s \in Seqs |-> rows[s].repeat]
SumOfRepeats == SumFunctionOnSet(Repeats, Seqs)

\* A call whose reference a deletion reset began before that deletion, and no
\* longer counts.
Epochs ==
    \A c \in Callers :
        /\ call[c].epoch <= epoch
        /\ pc[c] = "collapse" /\ call[c].prev = 0 => call[c].epoch < epoch

(* A call starts in the current epoch, and what it reads is a row. *)
LEMMA EpochsStep == IInv /\ Epochs /\ [Next]_vars => Epochs'
<1>. SUFFICES ASSUME IInv, Epochs, [Next]_vars PROVE Epochs'
  OBVIOUS
<1>0. TypeOK /\ HasLast
  BY DEF IInv, TypeInv
<1>a. /\ pc \in [Callers -> Labels] /\ call \in [Callers -> CallRecord]
      /\ epoch \in Nat /\ \A c \in Callers : call[c] \in CallRecord
  BY <1>0 DEF TypeOK
<1>1. ASSUME NEW c \in Callers, Call(c) PROVE Epochs'
  <2>1. call'[c].epoch = epoch /\ \A d \in Callers : d # c => call'[d] = call[d]
    BY <1>a, <1>1 DEF Call, NoCall
  <2>2. \A d \in Callers : pc'[d] = "collapse" => d # c /\ pc[d] = "collapse"
    BY <1>a, <1>1 DEF Call, Goto
  <2>3. epoch' = epoch
    BY <1>1 DEF Call
  <2>. QED  BY <1>a, <2>1, <2>2, <2>3 DEF Epochs
<1>2. ASSUME NEW c \in Callers,
             CheckExists(c) \/ Begin(c) \/ InsertRow(c) \/ InsertRefused(c) \/ Abort(c)
      PROVE  Epochs'
  BY <1>a, <1>2 DEF CheckExists, Begin, InsertRow, InsertRefused, Abort, Goto, Epochs
<1>3. ASSUME NEW c \in Callers, ReadPrevious(c) PROVE Epochs'
  <2>1. epoch' = epoch /\ \A d \in Callers : d # c => call'[d] = call[d] /\ pc'[d] = pc[d]
    BY <1>a, <1>3 DEF ReadPrevious, Goto
  <2>2. call'[c].epoch = call[c].epoch
    BY <1>a, <1>3 DEF ReadPrevious, CallRecord
  <2>3. pc'[c] = "insert" \/ (call'[c].prev = LastSeq /\ Seqs # {})
    BY <1>a, <1>3 DEF ReadPrevious, Goto, CallRecord
  <2>4. Seqs # {} => LastSeq # 0
    BY <1>0, LastSeqIsMax DEF TypeOK
  <2>. QED  BY <2>1, <2>2, <2>3, <2>4 DEF Epochs
<1>4. ASSUME NEW c \in Callers, PickSeq(c) PROVE Epochs'
  <2>1. \A d \in Callers : pc'[d] = "collapse" => pc[d] = "collapse" /\ call'[d] = call[d]
    BY <1>a, <1>4 DEF PickSeq, Goto
  <2>2. epoch' = epoch /\ \A d \in Callers : call'[d].epoch = call[d].epoch
    BY <1>a, <1>4 DEF PickSeq, CallRecord
  <2>. QED  BY <2>1, <2>2 DEF Epochs
<1>5. ASSUME NEW c \in Callers, Collapse(c) \/ Commit(c) PROVE Epochs'
  BY <1>a, <1>5 DEF Collapse, Commit, Acknowledge, Goto, Epochs
<1>6. CASE DeleteConversation
  <2>1. epoch' = epoch + 1 /\ \A c \in Callers : call'[c].epoch = call[c].epoch
    BY <1>a, <1>6 DEF DeleteConversation, CallRecord
  <2>2. \A c \in Callers : call[c].epoch \in Nat /\ call[c].epoch <= epoch
    BY <1>a DEF Epochs, CallRecord
  <2>. QED  BY <1>a, <2>1, <2>2 DEF Epochs
<1>7. CASE DeleteRows \/ DeleteRefused \/ Recover \/ UNCHANGED vars
  BY <1>7 DEF DeleteRows, DeleteRefused, Recover, vars, Epochs
<1>. QED  BY <1>1, <1>2, <1>3, <1>4, <1>5, <1>6, <1>7 DEF Next, Continue

(* A table is finite and its counts are positive.                          *)
LEMMA Counted ==
    ASSUME IInv
    PROVE  IsFiniteSet(Seqs) /\ \A s \in Seqs : Repeats[s] = rows[s].repeat /\ Repeats[s] \in Nat
BY DEF IInv, TypeInv, TypeOK, CountersMatch, Repeats, Stored

(* A commit adds one to the sum. *)
LEMMA CommitCounts ==
    ASSUME IInv, NEW c \in Callers, Commit(c)
    PROVE  SumOfRepeats' = SumOfRepeats + 1 /\ SumOfRepeats \in Nat
<1>0. TypeOK /\ SeqAlwaysFree
  BY DEF IInv, TypeInv
<1>1. IInv'
  <2>1. [Next]_vars
    BY DEF Next, Continue
  <2>. QED  BY <2>1, InvariantStep
<1>. DEFINE n == call[c].seq
            S == Seqs'
            f == Repeats'
            h == Repeats
<1>2. n \in Nat /\ Seqs \subseteq Nat
  BY <1>0 DEF TypeOK, CallRecord
<1>3. n \notin Seqs
  BY <1>0, <1>2 DEF SeqAlwaysFree, Commit
<1>4. /\ S = Seqs \cup {n} /\ rows'[n].repeat = 1
      /\ \A s \in Seqs : rows'[s] = rows[s]
  <2>1. /\ DOMAIN Inserted(c) = Seqs \cup {n}
        /\ \A s \in Seqs : s # n => Inserted(c)[s] = rows[s]
        /\ Inserted(c)[n] = [msg |-> call[c].msg, repeat |-> 1]
    BY <1>0, InsertedTable
  <2>2. S = DOMAIN rows' /\ rows' = Inserted(c)
    BY DEF Commit, Seqs
  <2>. QED  BY <1>3, <2>1, <2>2
<1>5. IsFiniteSet(S) /\ \A s \in S : f[s] = rows'[s].repeat /\ f[s] \in Nat
  BY <1>1 DEF IInv, TypeInv, TypeOK, CountersMatch, Repeats, Stored
<1>6. /\ n \in S /\ S \ {n} = Seqs /\ f[n] = 1
      /\ \A s \in S \ {n} : h[s] = f[s]
  BY <1>3, <1>4, <1>5, Counted
<1>7. SumOfRepeats' = SumFunctionOnSet(f, S) /\ SumOfRepeats = SumFunctionOnSet(h, Seqs)
  BY DEF SumOfRepeats
<1>. HIDE DEF n, S, f, h
<1>8. /\ SumFunctionOnSet(h, S \ {n}) \in Nat
      /\ SumFunctionOnSet(f, S) = f[n] + SumFunctionOnSet(h, S \ {n})
  BY <1>5, <1>6, SumOneOut
<1>. QED  BY <1>6, <1>7, <1>8

(* A collapse that finds its row adds one to the sum. *)
LEMMA CollapseCounts ==
    ASSUME IInv, NEW c \in Callers, Collapse(c), call[c].prev # 0
    PROVE  SumOfRepeats' = SumOfRepeats + 1 /\ SumOfRepeats \in Nat
<1>0. TypeOK /\ PrevValid
  BY DEF IInv, TypeInv
<1>. DEFINE p == call[c].prev
            S == Seqs
            f == Repeats
            h == Repeats'
<1>1. p \in S /\ call[c].repeat = rows[p].repeat
  BY <1>0 DEF PrevValid, Collapse
<1>2. IsFiniteSet(S) /\ \A s \in S : f[s] = rows[s].repeat /\ f[s] \in Nat
  BY Counted
<1>3. Seqs' = S /\ \A s \in S : h[s] = rows'[s].repeat
  BY <1>0, CollapsedTable DEF Repeats, Seqs
<1>4. /\ rows'[p].repeat = 1 + rows[p].repeat
      /\ \A s \in S : s # p => rows'[s] = rows[s]
  BY <1>0, <1>1, CollapsedTable
<1>5. \A s \in S \ {p} : h[s] = f[s] /\ f[s] = h[s]
  BY <1>2, <1>3, <1>4
<1>6. h[p] = f[p] + 1 /\ f[p] \in Nat
  BY <1>1, <1>2, <1>3, <1>4
<1>7. \A s \in S : h[s] \in Nat
  BY <1>2, <1>5, <1>6
<1>8. SumOfRepeats' = SumFunctionOnSet(h, S) /\ SumOfRepeats = SumFunctionOnSet(f, S)
  BY <1>3 DEF SumOfRepeats
<1>. HIDE DEF p, S, f, h
<1>9. /\ SumFunctionOnSet(h, S \ {p}) \in Nat
      /\ SumFunctionOnSet(f, S) = f[p] + SumFunctionOnSet(h, S \ {p})
  BY <1>1, <1>2, <1>5, SumOneOut
<1>10. \A s \in S \ {p} : h[s] = h[s]
  OBVIOUS
<1>11. SumFunctionOnSet(h, S) = h[p] + SumFunctionOnSet(h, S \ {p})
  BY <1>1, <1>2, <1>7, <1>10, SumOneOut
<1>. QED  BY <1>6, <1>8, <1>9, <1>11

(* An acknowledged call of this epoch raised the sum by one. *)
LEMMA AcknowledgedStep ==
    IInv /\ Epochs /\ acked <= SumOfRepeats /\ [Next]_vars => (acked <= SumOfRepeats)'
<1>. SUFFICES ASSUME IInv, Epochs, acked <= SumOfRepeats, [Next]_vars
              PROVE  acked' <= SumOfRepeats'
  OBVIOUS
<1>0. TypeOK /\ acked \in Nat /\ epoch \in Nat
  BY DEF IInv, TypeInv, TypeOK
<1>1. rows' = rows => SumOfRepeats' = SumOfRepeats
  BY DEF SumOfRepeats, Repeats, Seqs
<1>2. ASSUME NEW c \in Callers, Acknowledge(c), SumOfRepeats' = SumOfRepeats + 1,
             SumOfRepeats \in Nat
      PROVE  acked' <= SumOfRepeats'
  <2>1. acked' = acked \/ acked' = acked + 1
    BY <1>0, <1>2 DEF Acknowledge
  <2>. HIDE DEF SumOfRepeats
  <2>. QED  BY <1>0, <1>2, <2>1
<1>3. ASSUME NEW c \in Callers, Commit(c) PROVE acked' <= SumOfRepeats'
  BY <1>2, <1>3, CommitCounts DEF Commit
<1>4. ASSUME NEW c \in Callers, Collapse(c) PROVE acked' <= SumOfRepeats'
  <2>1. CASE call[c].prev # 0
    BY <1>2, <1>4, <2>1, CollapseCounts DEF Collapse
  <2>2. CASE call[c].prev = 0
    <3>1. rows' = rows
      BY <1>4, <2>2 DEF Collapse
    <3>2. call[c].epoch < epoch /\ call[c].epoch \in Nat
      BY <1>0, <1>4, <2>2 DEF Epochs, Collapse, TypeOK, CallRecord
    <3>3. acked' = acked
      BY <1>0, <1>4, <3>2 DEF Collapse, Acknowledge
    <3>. QED  BY <1>1, <3>1, <3>3
  <2>. QED  BY <2>1, <2>2
<1>5. ASSUME NEW c \in Callers,
             Call(c) \/ CheckExists(c) \/ Begin(c) \/ ReadPrevious(c) \/ PickSeq(c)
             \/ InsertRow(c) \/ InsertRefused(c) \/ Abort(c)
      PROVE  acked' <= SumOfRepeats'
  <2>1. rows' = rows /\ acked' = acked
    BY <1>5 DEF Call, CheckExists, Begin, ReadPrevious, PickSeq, InsertRow, InsertRefused,
                Abort
  <2>. QED  BY <1>1, <2>1
<1>6. CASE DeleteConversation
  <2>1. acked' = 0 /\ Seqs' = {}
    BY <1>6 DEF DeleteConversation, Seqs
  <2>2. SumOfRepeats' = 0
    BY <2>1, SumEmpty DEF SumOfRepeats
  <2>. QED  BY <2>1, <2>2
<1>7. CASE DeleteRows \/ DeleteRefused \/ Recover \/ UNCHANGED vars
  BY <1>1, <1>7 DEF DeleteRows, DeleteRefused, Recover, vars
<1>. QED  BY <1>3, <1>4, <1>5, <1>6, <1>7 DEF Next, Continue

(* Every call of store_message or get_context that reported success since the
   conversation was last deleted is in the table, as a row or as a unit of a
   repeat count, although store_message writes back a count that it read in an
   earlier statement and a deletion takes no lock: no acknowledged message is
   lost, for every number of callers and of calls. *)
THEOREM NoneLost == Spec => []AcknowledgedIsStored
<1>. DEFINE J == IInv /\ Epochs /\ acked <= SumOfRepeats
<1>1. Init => J
  <2>. SUFFICES ASSUME Init PROVE J
    OBVIOUS
  <2>1. Seqs = {} /\ acked = 0
    BY DEF Init, Seqs
  <2>2. acked <= SumOfRepeats
    BY <2>1, SumEmpty DEF SumOfRepeats
  <2>3. Epochs
    BY DEF Epochs, Init, NoCall
  <2>. QED  BY <2>2, <2>3, LockInit
<1>2. J /\ [Next]_vars => J'
  BY InvariantStep, EpochsStep, AcknowledgedStep
<1>3. J => AcknowledgedIsStored
  BY DEF AcknowledgedIsStored, SumOfRepeats, Repeats
<1>. QED  BY <1>1, <1>2, <1>3, PTL DEF Spec

-----------------------------------------------------------------------------
(* Conversation implements MessageLog, for every number of callers.  Three *)
(* facts are needed beyond the invariant: a pending collapse refers to the *)
(* last row, rows and inserted-but-uncommitted rows have a conversation,   *)
(* and only a live conversation is being deleted.                          *)

\* Nothing commits between reading the last row and collapsing into it.
PrevIsLast ==
    \A c \in Callers : pc[c] = "collapse" /\ call[c].prev # 0 => call[c].prev = LastSeq

\* The foreign key: rows belong to a conversation that exists.
RowsHaveConversation ==
    /\ Seqs # {} => conv = "live"
    /\ \A c \in Callers : pc[c] = "counters" => conv = "live"
    /\ deleter = "clearing" => conv = "live"

RInv == DInv /\ PrevIsLast /\ RowsHaveConversation

(* The reference of a pending collapse stays the last row or is reset. *)
LEMMA PrevIsLastStep == DInv /\ PrevIsLast /\ [Next]_vars => PrevIsLast'
<1>. SUFFICES ASSUME DInv, PrevIsLast, [Next]_vars PROVE PrevIsLast'
  OBVIOUS
<1>0. TypeOK /\ HasLast /\ LockHeld /\ PrevIsLast
  BY DEF DInv, IInv, TypeInv
<1>a. pc \in [Callers -> Labels] /\ call \in [Callers -> CallRecord]
  BY <1>0 DEF TypeOK
<1>b. rows' = rows => LastSeq' = LastSeq
  BY DEF Seqs, LastSeq
<1>1. ASSUME NEW c \in Callers, Call(c) PROVE PrevIsLast'
  <2>1. \A d \in Callers : pc'[d] = "collapse" => pc[d] = "collapse" /\ call'[d] = call[d]
    BY <1>a, <1>1 DEF Call, Goto
  <2>. QED  BY <1>0, <1>b, <1>1, <2>1 DEF PrevIsLast, Call
<1>2. ASSUME NEW c \in Callers,
             CheckExists(c) \/ Begin(c) \/ InsertRow(c) \/ InsertRefused(c) \/ Abort(c)
      PROVE  PrevIsLast'
  BY <1>a, <1>b, <1>0, <1>2
     DEF CheckExists, Begin, InsertRow, InsertRefused, Abort, Goto, PrevIsLast
<1>3. ASSUME NEW c \in Callers, ReadPrevious(c) PROVE PrevIsLast'
  <2>1. \A d \in Callers : d # c => call'[d] = call[d] /\ pc'[d] = pc[d]
    BY <1>a, <1>3 DEF ReadPrevious, Goto
  <2>2. pc'[c] = "insert" \/ call'[c].prev = LastSeq
    BY <1>a, <1>3 DEF ReadPrevious, Goto, CallRecord
  <2>3. rows' = rows
    BY <1>3 DEF ReadPrevious
  <2>. QED  BY <1>0, <1>b, <2>1, <2>2, <2>3 DEF PrevIsLast
<1>4. ASSUME NEW c \in Callers, PickSeq(c) PROVE PrevIsLast'
  <2>1. \A d \in Callers : pc'[d] = "collapse" => pc[d] = "collapse" /\ call'[d] = call[d]
    BY <1>a, <1>4 DEF PickSeq, Goto
  <2>. QED  BY <1>0, <1>b, <1>4, <2>1 DEF PrevIsLast, PickSeq
<1>5. ASSUME NEW c \in Callers, Collapse(c) \/ Commit(c) PROVE PrevIsLast'
  <2>1. InTransaction(c) /\ pc' = [pc EXCEPT ![c] = "idle"]
    BY <1>5 DEF Collapse, Commit, InTransaction, Acknowledge, Goto
  <2>2. \A d \in Callers : pc'[d] # "collapse"
    BY <1>0, <1>a, <2>1, Alone DEF InTransaction
  <2>. QED  BY <2>2 DEF PrevIsLast
<1>6. CASE DeleteConversation
  <2>1. \A c \in Callers : call'[c].prev = 0
    BY <1>a, <1>6 DEF DeleteConversation, CallRecord
  <2>. QED  BY <2>1 DEF PrevIsLast
<1>7. CASE DeleteRows \/ DeleteRefused \/ Recover \/ UNCHANGED vars
  BY <1>0, <1>b, <1>7 DEF DeleteRows, DeleteRefused, Recover, vars, PrevIsLast
<1>. QED  BY <1>1, <1>2, <1>3, <1>4, <1>5, <1>6, <1>7 DEF Next, Continue

(* Deleting waits for inserted rows and refuses committed ones. *)
LEMMA RowsStep == DInv /\ RowsHaveConversation /\ [Next]_vars => RowsHaveConversation'
<1>. SUFFICES ASSUME DInv, RowsHaveConversation, [Next]_vars PROVE RowsHaveConversation'
  OBVIOUS
<1>0. TypeOK
  BY DEF DInv, IInv, TypeInv
<1>a. pc \in [Callers -> Labels]
  BY <1>0 DEF TypeOK
<1>1. ASSUME NEW c \in Callers,
             Call(c) \/ CheckExists(c) \/ Begin(c) \/ ReadPrevious(c) \/ PickSeq(c)
             \/ InsertRefused(c) \/ Abort(c)
      PROVE  RowsHaveConversation'
  <2>1. conv' = conv /\ rows' = rows /\ deleter' = deleter
    BY <1>1 DEF Call, CheckExists, Begin, ReadPrevious, PickSeq, InsertRefused, Abort
  <2>2. \A d \in Callers : pc'[d] = "counters" => pc[d] = "counters"
    BY <1>a, <1>1 DEF Call, CheckExists, Begin, ReadPrevious, PickSeq, InsertRefused, Abort,
                      Goto
  <2>. QED  BY <2>1, <2>2 DEF RowsHaveConversation, Seqs
<1>2. ASSUME NEW c \in Callers, InsertRow(c) PROVE RowsHaveConversation'
  BY <1>a, <1>2 DEF InsertRow, Goto, RowsHaveConversation, Seqs
<1>3. ASSUME NEW c \in Callers, Collapse(c) PROVE RowsHaveConversation'
  <2>1. DOMAIN rows' = Seqs /\ conv' = conv /\ deleter' = deleter
    BY <1>0, <1>3, CollapsedTable DEF Collapse
  <2>2. \A d \in Callers : pc'[d] = "counters" => pc[d] = "counters"
    BY <1>a, <1>3 DEF Collapse, Acknowledge, Goto
  <2>. QED  BY <2>1, <2>2 DEF RowsHaveConversation, Seqs
<1>4. ASSUME NEW c \in Callers, Commit(c) PROVE RowsHaveConversation'
  <2>1. conv = "live" /\ conv' = conv
    BY <1>4 DEF RowsHaveConversation, Commit
  <2>. QED  BY <2>1 DEF RowsHaveConversation
<1>5. CASE DeleteConversation
  BY <1>5 DEF DeleteConversation, RowsHaveConversation, Seqs
<1>6. CASE DeleteRows \/ DeleteRefused \/ Recover \/ UNCHANGED vars
  BY <1>6 DEF DeleteRows, DeleteRefused, Recover, vars, RowsHaveConversation, Seqs
<1>. QED  BY <1>1, <1>2, <1>3, <1>4, <1>5, <1>6 DEF Next, Continue

-----------------------------------------------------------------------------
(* The mapping.                                                            *)

(* The last entry of the log is the row with the highest number. *)
LEMMA SameLast == Seqs # {} => Log!Last = LastSeq
BY DEF Log!Last, Log!Positions, LastSeq, Seqs

(* A commit adds the new row at the end of the log. *)
LEMMA CommitAdds ==
    ASSUME RInv, NEW c \in Callers, Commit(c)
    PROVE  Log!Add(call[c].seq) /\ call[c].seq \in DOMAIN rows'
<1>0. TypeOK /\ SeqAlwaysFree /\ Differs /\ RowsHaveConversation
  BY DEF RInv, DInv, IInv, TypeInv
<1>. DEFINE n == call[c].seq
<1>1. rows' = Inserted(c) /\ pc[c] = "counters" /\ conv' = conv
  BY DEF Commit
<1>2. conv = "live"
  BY <1>0, <1>1 DEF RowsHaveConversation
<1>3. \A s \in Seqs : s < n
  BY <1>0, <1>1 DEF SeqAlwaysFree
<1>4. n \in Nat /\ Seqs \subseteq Nat
  BY <1>0 DEF TypeOK, CallRecord
<1>5. /\ DOMAIN rows' = Seqs \cup {n}
      /\ rows'[n].msg = call[c].msg /\ rows'[n].repeat = 1
      /\ \A s \in Seqs : rows'[s] = rows[s]
  <2>1. DOMAIN Inserted(c) = Seqs \cup {n}
      /\ Inserted(c)[n] = [msg |-> call[c].msg, repeat |-> 1]
      /\ \A s \in Seqs : s # n => Inserted(c)[s] = rows[s]
    BY <1>0, InsertedTable
  <2>2. \A s \in Seqs : s # n
    BY <1>3, <1>4
  <2>. QED  BY <1>1, <2>1, <2>2
<1>6. Seqs # {} => ~Same(call[c].msg, rows[LastSeq].msg)
  BY <1>0, <1>1 DEF Differs
<1>7. Seqs # {} => ~Log!Duplicate(rows'[n].msg, rows[Log!Last].msg)
  BY <1>5, <1>6, SameLast DEF Same, Log!Duplicate
<1>. QED
  BY <1>1, <1>2, <1>3, <1>5, <1>7 DEF Log!Add, Log!Positions, Seqs

(* A collapse repeats the last entry once, or finds its row gone. *)
LEMMA CollapseRepeats ==
    ASSUME RInv, NEW c \in Callers, Collapse(c)
    PROVE  Log!Repeat \/ UNCHANGED <<rows, conv = "live">>
<1>0. TypeOK /\ HasLast /\ PrevValid /\ PrevIsLast /\ RowsHaveConversation
  BY DEF RInv, DInv, IInv, TypeInv
<1>. DEFINE p == call[c].prev
<1>1. conv' = conv /\ pc[c] = "collapse"
  BY DEF Collapse
<1>2. CASE p = 0
  <2>1. rows' = rows
    BY <1>2 DEF Collapse
  <2>. QED  BY <1>1, <2>1
<1>3. CASE p # 0
  <2>1. p \in Seqs /\ call[c].repeat = rows[p].repeat /\ p = LastSeq
    BY <1>0, <1>1, <1>3 DEF PrevValid, PrevIsLast
  <2>2. p = Log!Last
    BY <2>1, SameLast
  <2>3. /\ DOMAIN rows' = Seqs
        /\ rows'[p].msg = rows[p].msg
        /\ \A s \in Seqs : s # p => rows'[s] = rows[s]
        /\ rows'[p].repeat = 1 + rows[p].repeat
    BY <1>0, <1>3, <2>1, CollapsedTable
  <2>4. rows[p].repeat \in Nat
    BY <1>0, <2>1 DEF TypeOK, Stored
  <2>5. rows'[p].repeat = rows[p].repeat + 1
    BY <2>3, <2>4
  <2>6. conv = "live"
    BY <1>0, <2>1 DEF RowsHaveConversation
  <2>. QED
    BY <1>1, <2>1, <2>2, <2>3, <2>5, <2>6 DEF Log!Repeat, Log!Positions, Seqs
<1>. QED  BY <1>2, <1>3

(* Every step is a step of the log or changes nothing a reader sees. *)
LEMMA StepRefines == RInv /\ [Next]_vars => [Log!Next]_<<rows, conv = "live">>
<1>. SUFFICES ASSUME RInv, [Next]_vars PROVE [Log!Next]_<<rows, conv = "live">>
  OBVIOUS
<1>1. ASSUME NEW c \in Callers,
             Call(c) \/ CheckExists(c) \/ Begin(c) \/ ReadPrevious(c) \/ PickSeq(c)
             \/ InsertRow(c) \/ InsertRefused(c) \/ Abort(c)
      PROVE  UNCHANGED <<rows, conv = "live">>
  BY <1>1 DEF Call, CheckExists, Begin, ReadPrevious, PickSeq, InsertRow, InsertRefused,
              Abort
<1>2. ASSUME NEW c \in Callers, Collapse(c)
      PROVE  Log!Next \/ UNCHANGED <<rows, conv = "live">>
  BY <1>2, CollapseRepeats DEF Log!Next
<1>3. ASSUME NEW c \in Callers, Commit(c) PROVE Log!Next
  BY <1>3, CommitAdds DEF Log!Next
<1>4. CASE DeleteConversation
  <2>1. conv = "live"
    BY <1>4 DEF DeleteConversation, RInv, RowsHaveConversation
  <2>2. Log!Remove
    BY <1>4, <2>1 DEF DeleteConversation, Log!Remove
  <2>. QED  BY <2>2 DEF Log!Next
<1>5. CASE Recover
  <2>1. Log!Restore
    BY <1>5 DEF Recover, Log!Restore
  <2>. QED  BY <2>1 DEF Log!Next
<1>6. CASE DeleteRows \/ DeleteRefused \/ UNCHANGED vars
  BY <1>6 DEF DeleteRows, DeleteRefused, vars
<1>. QED  BY <1>1, <1>2, <1>3, <1>4, <1>5, <1>6 DEF Next, Continue

(* Whoever reads the table sees a log that grows at its end by messages that
   differ from the last one, or repeats that one, or goes as a whole: the
   statements of store_message, get_context and delete_conversation, in any
   interleaving and with any rollback, do nothing else. *)
THEOREM Implements == Spec => ImplementsMessageLog
<1>1. Init => RInv
  <2>. SUFFICES ASSUME Init PROVE RInv
    OBVIOUS
  <2>1. DInv
    BY LockInit DEF Init, DInv, Differs, NoAdjacentDuplicates, Seqs
  <2>. QED  BY <2>1 DEF RInv, PrevIsLast, RowsHaveConversation, Init, Seqs
<1>2. RInv /\ [Next]_vars => RInv'
  <2>1. RInv => DInv /\ IInv
    BY DEF RInv, DInv
  <2>. QED
    BY <2>1, InvariantStep, DiffersStep, AdjacentStep, PrevIsLastStep, RowsStep
    DEF RInv, DInv
<1>3. Init => Log!Init
  BY DEF Init, Log!Init, Log!Positions
<1>. QED
  BY <1>1, <1>2, <1>3, StepRefines, PTL DEF Spec, ImplementsMessageLog, Log!Spec
=============================================================================
