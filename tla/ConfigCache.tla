---------------------------- MODULE ConfigCache -----------------------------
(***************************************************************************)
(* One configuration file, the cache of its parsed text that is keyed by   *)
(* the file's modification time, and the cache of language-model clients   *)
(* built from it.  Operations load the configuration and later ask for a   *)
(* client with what they loaded; config_write changes one setting; an      *)
(* editor changes the file without the program's knowledge.  Each blocking *)
(* read or write runs in an executor thread and is a step.                 *)
(***************************************************************************)
EXTENDS Integers, Sequences, SequencesExt

CONSTANTS
    Loads,          \* concurrent operations
    Writers,        \* concurrent config_write calls
    Settings,       \* what the file sets: "model", part of a client's key, or more
    NoText,         \* no parsed configuration
    MaxClients,     \* _MAX_CACHE_ENTRIES
    MaxChanges,     \* bound: changes of the file
    FineClock       \* no two changes carry the same modification time

ASSUME ConfigAssumption ==
    /\ Loads \cap Writers = {}
    /\ "model" \in Settings
    /\ MaxClients \in Nat \ {0} /\ MaxChanges \in Nat
    /\ FineClock \in BOOLEAN

VARIABLES
    file,       \* what the file holds, NoText while it is truncated
    mtime,      \* its modification time
    now,        \* the clock of the file system
    changes,    \* how many values were set
    cache,      \* _config_cache, _config_mtime and _config_content_hash
    clients,    \* _llm_cache, oldest first: the texts the clients are built from
    pc,         \* the step each load and each write is at
    seen        \* the time and text each of them has got

vars == <<file, mtime, now, changes, cache, clients, pc, seen>>

Texts == [Settings -> Nat]
NothingSeen == [time |-> 0, text |-> NoText]
Empty == [text |-> NoText, time |-> 0, hash |-> NoText]

Init ==
    /\ file = [s \in Settings |-> 0]
    /\ mtime = 1 /\ now = 1
    /\ changes = 0
    /\ cache = Empty
    /\ clients = <<>>
    /\ pc = [p \in Loads \cup Writers |-> "idle"]
    /\ seen = [p \in Loads \cup Writers |-> NothingSeen]

Goto(p, step) == pc' = [pc EXCEPT ![p] = step]

-----------------------------------------------------------------------------
(* The file.                                                               *)

\* A change of the file carries the time of the clock, which a fine clock
\* has moved on since the last one.
Touch(text) ==
    /\ file' = text
    /\ now' \in IF FineClock THEN {now + 1} ELSE {now, now + 1}
    /\ mtime' = now'

EditFile ==
    /\ changes < MaxChanges
    /\ file # NoText
    /\ changes' = changes + 1
    /\ \E s \in Settings : Touch([file EXCEPT ![s] = changes + 1])
    /\ UNCHANGED <<cache, clients, pc, seen>>

\* config_write reads the file afresh (an emptied one makes it raise) ...
ReadForWrite(w) ==
    /\ w \in Writers /\ pc[w] = "idle"
    /\ changes < MaxChanges
    /\ file # NoText
    /\ changes' = changes + 1
    /\ \E s \in Settings :
           seen' = [seen EXCEPT ![w].text = [file EXCEPT ![s] = changes + 1]]
    /\ Goto(w, "truncate")
    /\ UNCHANGED <<file, mtime, now, cache, clients>>

\* ... opens it for writing, which empties it ...
Truncate(w) ==
    /\ w \in Writers /\ pc[w] = "truncate"
    /\ Touch(NoText)
    /\ Goto(w, "dump")
    /\ UNCHANGED <<changes, cache, clients, seen>>

Dump(w) ==
    /\ w \in Writers /\ pc[w] = "dump"
    /\ Touch(seen[w].text)
    /\ Goto(w, "invalidate")
    /\ UNCHANGED <<changes, cache, clients, seen>>

\* ... and, back on the event loop, empties the cache and forgets its hash.
InvalidateConfigCache(w) ==
    /\ w \in Writers /\ pc[w] = "invalidate"
    /\ cache' = Empty
    /\ Goto(w, "idle")
    /\ UNCHANGED <<file, mtime, now, changes, clients, seen>>

-----------------------------------------------------------------------------
(* async_load_config and get_chat_model.                                   *)

\* Mutant: a cached configuration is good for ever.
StatAlwaysCached(l) ==
    /\ l \in Loads /\ pc[l] = "idle"
    /\ IF cache.text # NoText
       THEN /\ seen' = [seen EXCEPT ![l] = [NothingSeen EXCEPT !.text = cache.text]]
            /\ Goto(l, "client")
       ELSE /\ seen' = [seen EXCEPT ![l] = [NothingSeen EXCEPT !.time = mtime]]
            /\ Goto(l, "read")
    /\ UNCHANGED <<file, mtime, now, changes, cache, clients>>

\* The time is taken before the text is read.
Stat(l) ==
    /\ l \in Loads /\ pc[l] = "idle"
    /\ IF cache.text # NoText /\ cache.time = mtime
       THEN /\ seen' = [seen EXCEPT ![l] = [NothingSeen EXCEPT !.text = cache.text]]
            /\ Goto(l, "client")
       ELSE /\ seen' = [seen EXCEPT ![l] = [NothingSeen EXCEPT !.time = mtime]]
            /\ Goto(l, "read")
    /\ UNCHANGED <<file, mtime, now, changes, cache, clients>>

\* An empty file parses to no mapping, and the load raises.
Read(l) ==
    /\ l \in Loads /\ pc[l] = "read"
    /\ seen' = [seen EXCEPT ![l].text = file]
    /\ Goto(l, IF file = NoText THEN "idle" ELSE "apply")
    /\ UNCHANGED <<file, mtime, now, changes, cache, clients>>

\* Mutant: the time is taken after the text.
ApplyRestat(l) ==
    /\ l \in Loads /\ pc[l] = "apply"
    /\ clients' = IF cache.hash \notin {NoText, seen[l].text} THEN <<>> ELSE clients
    /\ cache' = [text |-> seen[l].text, time |-> mtime, hash |-> seen[l].text]
    /\ Goto(l, "client")
    /\ UNCHANGED <<file, mtime, now, changes, seen>>

\* Where a hash is known, another text clears the clients.
Apply(l) ==
    /\ l \in Loads /\ pc[l] = "apply"
    /\ clients' = IF cache.hash \notin {NoText, seen[l].text} THEN <<>> ELSE clients
    /\ cache' = [text |-> seen[l].text, time |-> seen[l].time, hash |-> seen[l].text]
    /\ Goto(l, "client")
    /\ UNCHANGED <<file, mtime, now, changes, seen>>

\* No other setting is part of the key: a client built with another timeout
\* is reused.
Cached(text) == \E i \in DOMAIN clients : clients[i].model = text.model

\* The client is built from what this operation loaded, however long ago.
GetClient(l) ==
    /\ l \in Loads /\ pc[l] = "client"
    /\ LET room == IF Len(clients) >= MaxClients THEN Tail(clients) ELSE clients
       IN  clients' = IF Cached(seen[l].text) THEN clients ELSE Append(room, seen[l].text)
    /\ seen' = [seen EXCEPT ![l] = NothingSeen]
    /\ Goto(l, "idle")
    /\ UNCHANGED <<file, mtime, now, changes, cache>>

-----------------------------------------------------------------------------
Write(w) == Truncate(w) \/ Dump(w) \/ InvalidateConfigCache(w)
Load(l) == Stat(l) \/ Read(l) \/ Apply(l) \/ GetClient(l)

Next ==
    \/ EditFile
    \/ \E w \in Writers : ReadForWrite(w) \/ Write(w)
    \/ \E l \in Loads : Load(l)

Spec == Init /\ [][Next]_vars

-----------------------------------------------------------------------------
(* Properties.                                                             *)

TypeOK ==
    /\ file = NoText \/ file \in Texts
    /\ {mtime, now, changes} \subseteq Nat
    /\ cache.text = NoText \/ cache.text \in Texts
    /\ cache.text = cache.hash
    /\ Len(clients) <= MaxClients
    /\ \A i, j \in DOMAIN clients : clients[i].model = clients[j].model => i = j

\* A load that takes the fast path gets what the file holds at that moment,
\* also while config_write is between writing and invalidating.
LoadsSeeTheFile ==
    [][\A l \in Loads :
          pc[l] = "idle" /\ pc'[l] = "client" => seen'[l].text = file]_vars

\* Once nobody changes the file any more, operations run with what it holds.
EventuallyReloaded == <>[](\A l \in Loads : pc[l] = "client" => seen[l].text = file)
=============================================================================
