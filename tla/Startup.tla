------------------------------ MODULE Startup ------------------------------
(***************************************************************************)
(* How the broker comes up when PostgreSQL is not there yet.  The lifespan *)
(* handler connects, migrates, starts the background worker, initializes   *)
(* the Imperator and serves; where a part fails it leaves a retry task     *)
(* behind, which runs beside the rest of the handler and the requests.     *)
(***************************************************************************)
EXTENDS Integers

CONSTANTS
    MaxOutages,     \* bound: how often PostgreSQL goes away
    MaxRestarts,    \* bound: how often the process is started again
    PartMayFail     \* a migration or the Imperator may fail for another reason

ASSUME StartupAssumption ==
    MaxOutages \in Nat /\ MaxRestarts \in Nat /\ PartMayFail \in BOOLEAN

VARIABLES
    pg,         \* PostgreSQL answers
    migrated,   \* the schema is at the current version
    pool,       \* _pg_pool is set
    available,  \* app.state.postgres_available
    imperator,  \* app.state.imperator_initialized
    worker,     \* start_background_worker was started
    main,       \* the await the lifespan handler is at
    retry,      \* the await _postgres_retry_loop is at
    outages, restarts

state == <<pool, available, imperator, worker, main, retry>>
startupVars == <<pg, migrated, state, outages, restarts>>

StartupInit ==
    /\ pg \in BOOLEAN
    /\ migrated \in BOOLEAN
    /\ pool = FALSE /\ available = FALSE /\ imperator = FALSE /\ worker = FALSE
    /\ main = "connect"
    /\ retry = "none"
    /\ outages = 0 /\ restarts = 0

-----------------------------------------------------------------------------
(* The environment.                                                        *)

PostgresUp == ~pg /\ pg' = TRUE /\ UNCHANGED <<migrated, state, outages, restarts>>

PostgresDown ==
    /\ pg /\ outages < MaxOutages
    /\ pg' = FALSE
    /\ outages' = outages + 1
    /\ UNCHANGED <<migrated, state, restarts>>

\* A new version of the image may bring migrations.
Restart ==
    /\ restarts < MaxRestarts
    /\ restarts' = restarts + 1
    /\ migrated' \in {migrated, FALSE}
    /\ pool' = FALSE /\ available' = FALSE /\ imperator' = FALSE /\ worker' = FALSE
    /\ main' = "connect"
    /\ retry' = "none"
    /\ UNCHANGED <<pg, outages>>

-----------------------------------------------------------------------------
(* The lifespan handler.                                                   *)

MainConnect ==
    /\ main = "connect" /\ pg
    /\ pool' = TRUE
    /\ main' = "migrate"
    /\ UNCHANGED <<pg, migrated, available, imperator, worker, retry, outages, restarts>>

\* The flag, the worker task and the retry task are set without an await.
MainMigrate ==
    /\ main = "migrate" /\ pg
    /\ migrated' = TRUE
    /\ available' = TRUE
    /\ worker' = TRUE
    /\ main' = "imperator"
    /\ UNCHANGED <<pg, pool, imperator, retry, outages, restarts>>

\* Mutant: the service is available as soon as it is connected.
MainDegradedEarly ==
    /\ \/ main = "connect" /\ ~pg
       \/ main = "migrate" /\ (~pg \/ PartMayFail)
    /\ available' = pool
    /\ retry' = "sleep"
    /\ main' = "imperator"
    /\ UNCHANGED <<pg, migrated, pool, imperator, worker, outages, restarts>>

\* Neither a missing database nor a failed migration stops the service.
MainDegraded ==
    /\ \/ main = "connect" /\ ~pg
       \/ main = "migrate" /\ (~pg \/ PartMayFail)
    /\ available' = FALSE
    /\ retry' = "sleep"
    /\ main' = "imperator"
    /\ UNCHANGED <<pg, migrated, pool, imperator, worker, outages, restarts>>

CanInitialize == pool /\ pg
MayNotInitialize == ~CanInitialize \/ PartMayFail

MainImperator ==
    /\ main = "imperator" /\ CanInitialize
    /\ imperator' = TRUE
    /\ main' = "serving"
    /\ UNCHANGED <<pg, migrated, pool, available, worker, retry, outages, restarts>>

\* The flag goes down, also where the retry task has just put it up.
MainImperatorFails ==
    /\ main = "imperator" /\ MayNotInitialize
    /\ imperator' = FALSE
    /\ retry' = IF retry = "none" THEN "sleep" ELSE retry
    /\ main' = "serving"
    /\ UNCHANGED <<pg, migrated, pool, available, worker, outages, restarts>>

-----------------------------------------------------------------------------
(* _postgres_retry_loop.                                                   *)

\* With PostgreSQL there, all that can be left is the Imperator; otherwise
\* init_postgres first closes the pool of an earlier attempt.
RetryWakes ==
    /\ retry = "sleep"
    /\ retry' = IF ~available THEN "connect" ELSE IF ~imperator THEN "last" ELSE "gone"
    /\ pool' = (pool /\ available)
    /\ UNCHANGED <<pg, migrated, available, imperator, worker, main, outages, restarts>>

RetryConnect ==
    /\ retry = "connect" /\ pg
    /\ pool' = TRUE
    /\ retry' = "migrate"
    /\ UNCHANGED <<pg, migrated, available, imperator, worker, main, outages, restarts>>

RetryMigrate ==
    /\ retry = "migrate" /\ pg
    /\ migrated' = TRUE
    /\ available' = TRUE
    /\ retry' = IF imperator THEN "gone" ELSE "imperator"
    /\ UNCHANGED <<pg, pool, imperator, worker, main, outages, restarts>>

\* Mutant: a failed migration ends the task.
RetryFailsForGood ==
    /\ \/ retry = "connect" /\ ~pg
       \/ retry = "migrate" /\ (~pg \/ PartMayFail)
    /\ retry' = IF retry = "migrate" THEN "gone" ELSE "sleep"
    /\ pool' = FALSE
    /\ UNCHANGED <<pg, migrated, available, imperator, worker, main, outages, restarts>>

RetryFails ==
    /\ \/ retry = "connect" /\ ~pg
       \/ retry = "migrate" /\ (~pg \/ PartMayFail)
    /\ retry' = "sleep"
    /\ pool' = (retry = "migrate")
    /\ UNCHANGED <<pg, migrated, available, imperator, worker, main, outages, restarts>>

RetryImperator ==
    /\ retry \in {"imperator", "last"} /\ CanInitialize
    /\ imperator' = TRUE
    /\ retry' = "gone"
    /\ UNCHANGED <<pg, migrated, pool, available, worker, main, outages, restarts>>

\* After the first failure the loop goes on, after the second it returns.
RetryImperatorFails ==
    /\ retry \in {"imperator", "last"} /\ MayNotInitialize
    /\ retry' = IF retry = "imperator" THEN "sleep" ELSE "gone"
    /\ UNCHANGED <<pg, migrated, pool, available, imperator, worker, main, outages, restarts>>

-----------------------------------------------------------------------------
Main ==
    MainConnect \/ MainMigrate \/ MainDegraded \/ MainImperator \/ MainImperatorFails

Retry ==
    \/ RetryWakes \/ RetryConnect \/ RetryMigrate \/ RetryFails
    \/ RetryImperator \/ RetryImperatorFails

StartupNext == PostgresUp \/ PostgresDown \/ Restart \/ Main \/ Retry

StartupSpec == StartupInit /\ [][StartupNext]_startupVars

\* Both tasks run on, PostgreSQL comes back, and what is tried again and
\* again is not refused for ever.
StartupFairSpec ==
    /\ StartupSpec
    /\ WF_startupVars(Main) /\ WF_startupVars(Retry) /\ WF_startupVars(PostgresUp)
    /\ SF_startupVars(RetryMigrate) /\ SF_startupVars(RetryImperator)
    /\ SF_startupVars(MainImperator)

-----------------------------------------------------------------------------
(* Properties.                                                             *)

StartupTypeOK ==
    /\ {pg, migrated, pool, available, imperator, worker} \subseteq BOOLEAN
    /\ main \in {"connect", "migrate", "imperator", "serving"}
    /\ retry \in {"none", "sleep", "connect", "migrate", "imperator", "last", "gone"}
    /\ outages \in 0..MaxOutages /\ restarts \in 0..MaxRestarts
    /\ main = "serving" /\ retry = "none" => available /\ imperator

\* Requests that need PostgreSQL are let in, and the worker runs, only on a
\* current schema and with a pool, however the two tasks interleave.
OnlyOnCurrentSchema == available \/ worker => migrated /\ pool

\* Degraded mode is never final: whichever task is left connects, migrates
\* and lets the requests in once PostgreSQL stays.
EventuallyAvailable == ~available ~> available
=============================================================================
