--------------------------- MODULE MemoryClients ----------------------------
(***************************************************************************)
(* The two singletons an operation reaches Mem0 through, on top of the     *)
(* configuration it loaded: the client, keyed by the sections of the       *)
(* configuration it is built from, and the quality wrapper around one      *)
(* client.  Each is made under an asyncio lock, the client's inside the    *)
(* wrapper's; building a client is an await, and migrate_embeddings resets *)
(* both at any moment without taking a lock.                               *)
(***************************************************************************)
EXTENDS ConfigCache

CONSTANTS
    MaxResets,      \* bound: calls of reset_mem0_client
    MayFail         \* a client may fail to be built

ASSUME MemoryAssumption ==
    MaxResets \in Nat /\ MayFail \in BOOLEAN

VARIABLES
    mem0,       \* _mem0_instance, by what it was built from, and _mem0_config_hash
    mem0Lock,   \* _mem0_lock: its holder and then those who wait, in order
    wrapper,    \* _wrapper_instance is made, around whatever client there was
    wrapLock,   \* _wrapper_lock, likewise
    resets      \* how many resets there were

memory == <<mem0, mem0Lock, wrapper, wrapLock, resets>>
config == <<file, mtime, now, changes, cache, clients>>
mvars == <<vars, memory>>

\* _compute_config_hash: the model's section counts, the tuning does not.
Key(text) == text.model

NoClient == [built |-> NoText, hash |-> NoText]

MInit ==
    /\ Init
    /\ mem0 = NoClient
    /\ mem0Lock = <<>>
    /\ wrapper = FALSE
    /\ wrapLock = <<>>
    /\ resets = 0

Holds(l, lock) == lock # <<>> /\ Head(lock) = l

\* The call returns to an operation that is done with it; where the wrapper's
\* factory made it, there is a wrapper now, around nothing if need be, and
\* its lock goes to the next.
Return(l, locks) ==
    /\ wrapper' = (wrapper \/ Holds(l, locks))
    /\ wrapLock' = IF Holds(l, locks) THEN Tail(locks) ELSE locks
    /\ seen' = [seen EXCEPT ![l] = NothingSeen]
    /\ Goto(l, "idle")

Matches(l) == mem0.built # NoText /\ mem0.hash = Key(seen[l].text)

\* get_mem0_client up to its first await; the second argument is the
\* wrapper's lock as the caller leaves it.
GetMem0(l, locks) ==
    IF Matches(l)
    THEN Return(l, locks) /\ UNCHANGED mem0Lock
    ELSE /\ mem0Lock' = Append(mem0Lock, l)
         /\ Goto(l, IF mem0Lock = <<>> THEN "build" ELSE "mem0")
         /\ wrapLock' = locks
         /\ UNCHANGED <<seen, wrapper>>

\* get_quality_wrapper with its lock held: a wrapper that exists is handed
\* out whatever configuration is asked with.
GetWrapper(l, locks) ==
    IF wrapper
    THEN /\ wrapLock' = Tail(locks)
         /\ seen' = [seen EXCEPT ![l] = NothingSeen]
         /\ Goto(l, "idle")
         /\ UNCHANGED <<mem0Lock, wrapper>>
    ELSE GetMem0(l, locks)

-----------------------------------------------------------------------------
\* An operation that works on Mem0 itself, knowledge_add say.
AskMemory(l) ==
    /\ pc[l] = "client"
    /\ GetMem0(l, wrapLock)
    /\ UNCHANGED <<config, mem0, resets>>

AskWrapper(l) ==
    /\ pc[l] = "client" /\ wrapLock = <<>>
    /\ GetWrapper(l, <<l>>)
    /\ UNCHANGED <<config, mem0, resets>>

WaitForWrapper(l) ==
    /\ pc[l] = "client" /\ wrapLock # <<>>
    /\ wrapLock' = Append(wrapLock, l)
    /\ Goto(l, "wrapper")
    /\ UNCHANGED <<config, seen, mem0, mem0Lock, wrapper, resets>>

WrapperLockPasses(l) ==
    /\ pc[l] = "wrapper" /\ Holds(l, wrapLock)
    /\ GetWrapper(l, wrapLock)
    /\ UNCHANGED <<config, mem0, resets>>

\* Mutant: the hash is noted before the client is there.
Mem0LockPassesHashed(l) ==
    /\ pc[l] = "mem0" /\ Holds(l, mem0Lock)
    /\ IF Matches(l)
       THEN Return(l, wrapLock) /\ mem0Lock' = Tail(mem0Lock) /\ mem0' = mem0
       ELSE /\ Goto(l, "build")
            /\ mem0' = [mem0 EXCEPT !.hash = Key(seen[l].text)]
            /\ UNCHANGED <<seen, mem0Lock, wrapper, wrapLock>>
    /\ UNCHANGED <<config, resets>>

\* The second check of the hash.
Mem0LockPasses(l) ==
    /\ pc[l] = "mem0" /\ Holds(l, mem0Lock)
    /\ IF Matches(l)
       THEN Return(l, wrapLock) /\ mem0Lock' = Tail(mem0Lock)
       ELSE Goto(l, "build") /\ UNCHANGED <<seen, mem0Lock, wrapper, wrapLock>>
    /\ UNCHANGED <<config, mem0, resets>>

\* _build_mem0_instance ran in a thread; a reset may have come in between.
BuildClient(l) ==
    /\ pc[l] = "build"
    /\ mem0' = [built |-> Key(seen[l].text), hash |-> Key(seen[l].text)]
    /\ mem0Lock' = Tail(mem0Lock)
    /\ Return(l, wrapLock)
    /\ UNCHANGED <<config, resets>>

\* An import, connection or value error leaves no client, for anybody.
BuildFails(l) ==
    /\ MayFail
    /\ pc[l] = "build"
    /\ mem0' = NoClient
    /\ mem0Lock' = Tail(mem0Lock)
    /\ Return(l, wrapLock)
    /\ UNCHANGED <<config, resets>>

\* Mutant: the locks are released by hand, which an exception passes over.
BuildEscapesLocked(l) ==
    /\ MayFail
    /\ pc[l] = "build"
    /\ seen' = [seen EXCEPT ![l] = NothingSeen]
    /\ Goto(l, "idle")
    /\ UNCHANGED <<config, memory>>

\* Any other error, a driver's own say, leaves both functions by exception,
\* the old client in place and both locks free.
BuildEscapes(l) ==
    /\ MayFail
    /\ pc[l] = "build"
    /\ mem0Lock' = Tail(mem0Lock)
    /\ wrapLock' = IF Holds(l, wrapLock) THEN Tail(wrapLock) ELSE wrapLock
    /\ seen' = [seen EXCEPT ![l] = NothingSeen]
    /\ Goto(l, "idle")
    /\ UNCHANGED <<config, mem0, wrapper, resets>>

\* The last step of migrate_embeddings.
ResetClient ==
    /\ resets < MaxResets
    /\ resets' = resets + 1
    /\ mem0' = NoClient
    /\ wrapper' = FALSE
    /\ UNCHANGED <<vars, mem0Lock, wrapLock>>

-----------------------------------------------------------------------------
Remember(l) ==
    \/ AskMemory(l) \/ AskWrapper(l) \/ WaitForWrapper(l)
    \/ WrapperLockPasses(l) \/ Mem0LockPasses(l)
    \/ BuildClient(l) \/ BuildFails(l) \/ BuildEscapes(l)

MNext ==
    \/ EditFile /\ UNCHANGED memory
    \/ \E w \in Writers : (ReadForWrite(w) \/ Write(w)) /\ UNCHANGED memory
    \/ \E l \in Loads : Load(l) /\ UNCHANGED memory
    \/ \E l \in Loads : Remember(l)
    \/ ResetClient

MSpec == MInit /\ [][MNext]_mvars

\* The workers load the configuration in each iteration, and an operation
\* that can go on does: the locks pass in the order they were asked for.
MFairSpec ==
    /\ MSpec
    /\ \A w \in Writers : WF_mvars(Write(w) /\ UNCHANGED memory)
    /\ \A l \in Loads : WF_mvars((Load(l) /\ UNCHANGED memory) \/ Remember(l))

-----------------------------------------------------------------------------
(* Properties.                                                             *)

MTypeOK ==
    /\ TypeOK
    /\ {mem0.built, mem0.hash} \subseteq Nat \cup {NoText}
    /\ {mem0Lock, wrapLock} \subseteq Seq(Loads)
    /\ wrapper \in BOOLEAN
    /\ resets \in Nat

\* The hash tells the truth about the client: whoever compares it with his
\* own configuration, with the lock or without it, never gets a client built
\* from another one, however resets and failed builds fall between.
HashMatchesClient == mem0.built = mem0.hash

\* Every operation comes back: the wrapper's lock is held across the wait for
\* the client's, never the other way round, and no failure keeps either.
OperationsReturn == \A p \in Loads \cup Writers : pc[p] # "idle" ~> pc[p] = "idle"
=============================================================================
