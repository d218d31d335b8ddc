----------------------------- MODULE MessageLog -----------------------------
(***************************************************************************)
(* What the message table promises to whoever reads a conversation: a log  *)
(* that grows at its end, whose last entry may be repeated, in which no    *)
(* entry is followed by its duplicate, and which goes only as a whole.     *)
(* It knows neither calls, locks and transactions nor how the positions    *)
(* are chosen, only that they increase.                                    *)
(***************************************************************************)
EXTENDS Integers

CONSTANT Null       \* a message without content

VARIABLES
    log,        \* position -> message and how often it was sent in a row
    exists      \* the conversation exists

Positions == DOMAIN log

Last == CHOOSE n \in Positions : \A k \in Positions : k <= n

Duplicate(m, n) == m.sender = n.sender /\ m.content = n.content /\ m.content # Null

Init == Positions = {} /\ exists = TRUE

\* A message that differs from the last one comes after it.
Add(n) ==
    /\ exists
    /\ \A k \in Positions : k < n
    /\ Positions # {} => ~Duplicate(log'[n].msg, log[Last].msg)
    /\ log'[n].repeat = 1
    /\ DOMAIN log' = Positions \cup {n}
    /\ \A k \in Positions : log'[k] = log[k]
    /\ exists' = exists

\* One more repetition of the last message.
Repeat ==
    /\ exists
    /\ Positions # {}
    /\ DOMAIN log' = Positions
    /\ log'[Last].msg = log[Last].msg
    /\ log'[Last].repeat = log[Last].repeat + 1
    /\ \A k \in Positions \ {Last} : log'[k] = log[k]
    /\ exists' = exists

Remove ==
    /\ exists
    /\ DOMAIN log' = {}
    /\ exists' = FALSE

Restore ==
    /\ ~exists
    /\ exists' = TRUE
    /\ log' = log

Next == (\E n \in DOMAIN log' : Add(n)) \/ Repeat \/ Remove \/ Restore

Spec == Init /\ [][Next]_<<log, exists>>
=============================================================================
