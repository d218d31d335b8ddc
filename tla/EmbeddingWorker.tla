-------------------------- MODULE EmbeddingWorker --------------------------
(***************************************************************************)
(* The poll loop that embeds stored messages in batches, and the admin     *)
(* tool that moves the whole table to another embedding model under it.    *)
(* One failure counter serves the embedding provider, the database and     *)
(* time outs alike; at its limit the batch at hand gets zero vectors.      *)
(* Every await of the loop is a step boundary.                             *)
(***************************************************************************)
EXTENDS Integers, FiniteSets, FiniteSetsExt

CONSTANTS
    Count,          \* messages; a smaller number is served first: it stands
                    \* for a higher priority, then an earlier creation
    Poison,         \* messages whose batch the provider always refuses
    BatchSize,      \* embedding_batch_size
    Limit,          \* the literal 5 of the failure branch
    ProviderMayFail, \* the provider may fail in a way the loop handles
    MayTimeOut,     \* the provider may not answer in time
    MayDie,         \* the provider may raise an openai.APIError
    MayLoseDb,      \* a query may fail
    MayMigrate      \* migrate_embeddings may be confirmed, once

Msgs == 1..Count

ASSUME EmbeddingAssumption ==
    /\ Count \in Nat /\ Poison \subseteq Msgs
    /\ BatchSize \in Nat \ {0} /\ Limit \in Nat \ {0}
    /\ {ProviderMayFail, MayTimeOut, MayDie, MayLoseDb, MayMigrate} \subseteq BOOLEAN

VARIABLES
    emb,        \* the embedding of each message, and the model it is by
    column,     \* the dimension the column was typed with
    model,      \* embeddings.model of config.yml
    migration,  \* how far the admin tool is
    loop,       \* the statement the loop is about to run
    cfg,        \* the model of the configuration this iteration loaded
    batch,      \* the rows it fetched and has still to write
    failures    \* consecutive_failures, held at Limit

embeddingVars == <<emb, column, model, migration, loop, cfg, batch, failures>>
loopState == <<loop, cfg, batch, failures>>

\* The migration goes to a model of the same dimensions or of others.
Models == {"old", "same", "wider"}
Dims(m) == IF m = "wider" THEN "wider" ELSE "usual"
Embedding(st, m) == [state |-> st, by |-> m]
Embeddings == [state : {"absent", "null", "vector", "zero"}, by : Models]

InState(st) == {m \in Msgs : emb[m].state = st}
Pending == InState("null")

EmbeddingInit ==
    /\ emb = [m \in Msgs |-> Embedding("absent", "old")]
    /\ column = "untyped"
    /\ model = "old"
    /\ migration = "none"
    /\ loop = "config"
    /\ cfg = "old"
    /\ batch = {}
    /\ failures = 0

Failed == failures' = IF failures < Limit THEN failures + 1 ELSE Limit

-----------------------------------------------------------------------------
(* The environment.                                                        *)

StoreMessage ==
    /\ \E m \in InState("absent") : emb' = [emb EXCEPT ![m].state = "null"]
    /\ UNCHANGED <<column, model, migration, loopState>>

\* The configuration file is rewritten first ...
MigrateConfig ==
    /\ MayMigrate
    /\ migration = "none"
    /\ migration' = "wipe"
    /\ model' \in Models \ {model}
    /\ UNCHANGED <<emb, column, loopState>>

\* ... then all vectors go.  The index that types the column has another
\* name than the one this tool drops, and it does not alter the column.
MigrateWipe ==
    /\ migration = "wipe"
    /\ migration' = "done"
    /\ emb' = [m \in Msgs |-> IF emb[m].state = "absent" THEN emb[m]
                              ELSE Embedding("null", emb[m].by)]
    /\ UNCHANGED <<column, model, loopState>>

-----------------------------------------------------------------------------
(* One iteration of the loop.                                              *)

LoadConfig ==
    /\ loop = "config"
    /\ Pending # {}
    /\ cfg' = model
    /\ loop' = "fetch"
    /\ UNCHANGED <<emb, column, model, migration, batch, failures>>

Stored == Msgs \ InState("absent")

\* Mutant: the query does not look at the embedding.
FirstStored ==
    {b \in SUBSET Stored :
        /\ Cardinality(b) = Min({BatchSize, Cardinality(Stored)})
        /\ \A m \in b, n \in Stored \ b : m < n}
\* The first BatchSize rows without an embedding.
FirstPending ==
    {b \in SUBSET Pending :
        /\ Cardinality(b) = Min({BatchSize, Cardinality(Pending)})
        /\ \A m \in b, n \in Pending \ b : m < n}

Fetch ==
    /\ loop = "fetch"
    /\ batch' \in FirstPending
    /\ loop' = IF batch' = {} THEN "config" ELSE "embed"
    /\ UNCHANGED <<emb, column, model, migration, cfg, failures>>

Embed ==
    /\ loop = "embed"
    /\ batch \cap Poison = {}
    /\ loop' = "store"
    /\ UNCHANGED <<emb, column, model, migration, cfg, batch, failures>>

\* Mutant: each failing batch is a first failure.
ForgetfulRefused ==
    /\ loop = "embed"
    /\ ProviderMayFail \/ batch \cap Poison # {}
    /\ failures' = 1
    /\ loop' = IF failures' = Limit THEN "zero" ELSE "config"
    /\ UNCHANGED <<emb, column, model, migration, cfg, batch>>

\* The provider refuses the batch, or fails.
EmbedRefused ==
    /\ loop = "embed"
    /\ ProviderMayFail \/ batch \cap Poison # {}
    /\ Failed
    /\ loop' = IF failures' = Limit THEN "zero" ELSE "config"
    /\ UNCHANGED <<emb, column, model, migration, cfg, batch>>

\* A time out counts as a failure and never gives up the batch.
EmbedTimesOut ==
    /\ MayTimeOut
    /\ loop = "embed"
    /\ Failed
    /\ loop' = "config"
    /\ UNCHANGED <<emb, column, model, migration, cfg, batch>>

\* Neither except clause names the errors of the client library.
EmbedDies ==
    /\ MayDie
    /\ loop = "embed"
    /\ loop' = "dead"
    /\ UNCHANGED <<emb, column, model, migration, cfg, batch, failures>>

\* The database refuses a vector of other dimensions than the column's.
Fits == column \in {"untyped", Dims(cfg)}

\* The rows are written one by one, by id, whatever is there.
WriteRow(st, next) ==
    /\ Fits
    /\ LET m == Min(batch) IN emb' = [emb EXCEPT ![m] = Embedding(st, cfg)]
    /\ batch' = batch \ {Min(batch)}
    /\ loop' = IF batch' = {} THEN next ELSE loop

StoreVector ==
    /\ loop = "store"
    /\ WriteRow("vector", "index")
    /\ failures' = IF loop' = "index" THEN 0 ELSE failures
    /\ UNCHANGED <<column, model, migration, cfg>>

StoreZero ==
    /\ loop = "zero"
    /\ WriteRow("zero", "config")
    /\ failures' = IF loop' = "config" THEN 0 ELSE failures
    /\ UNCHANGED <<column, model, migration, cfg>>

\* After a batch the column is typed, if no index has been built yet; the
\* ALTER fails, and is put off, while rows of other dimensions are there.
TypeColumn ==
    /\ loop = "index"
    /\ loop' = "config"
    /\ column' = IF /\ column = "untyped"
                    /\ \A m \in InState("vector") \cup InState("zero") :
                           Dims(emb[m].by) = Dims(cfg)
                 THEN Dims(cfg) ELSE column
    /\ UNCHANGED <<emb, model, migration, cfg, batch, failures>>

\* The outer except clause: whatever is left of the batch is dropped.
DbError ==
    /\ loop \in {"fetch", "store", "zero"}
    /\ MayLoseDb \/ (loop # "fetch" /\ ~Fits)
    /\ Failed
    /\ batch' = {}
    /\ loop' = "config"
    /\ UNCHANGED <<emb, column, model, migration, cfg>>

-----------------------------------------------------------------------------
Step ==
    \/ LoadConfig \/ Fetch \/ Embed \/ EmbedRefused \/ EmbedTimesOut \/ EmbedDies
    \/ StoreVector \/ StoreZero \/ TypeColumn \/ DbError

EmbeddingNext == Step \/ StoreMessage \/ MigrateConfig \/ MigrateWipe

EmbeddingSpec == EmbeddingInit /\ [][EmbeddingNext]_embeddingVars

\* The loop runs on, a query that is tried again and again succeeds at last,
\* and the admin tool finishes what it began.
EmbeddingFairSpec ==
    /\ EmbeddingSpec
    /\ WF_embeddingVars(Step) /\ SF_embeddingVars(Fetch)
    /\ SF_embeddingVars(StoreVector) /\ SF_embeddingVars(StoreZero)
    /\ WF_embeddingVars(MigrateWipe)

-----------------------------------------------------------------------------
(* Properties.                                                             *)

EmbeddingTypeOK ==
    /\ emb \in [Msgs -> Embeddings]
    /\ column \in {"untyped", "usual", "wider"}
    /\ model \in Models /\ cfg \in Models
    /\ migration \in {"none", "wipe", "done"}
    /\ loop \in {"config", "fetch", "embed", "store", "zero", "index", "dead"}
    /\ batch \subseteq Msgs /\ Cardinality(batch) <= BatchSize
    /\ failures \in 0..Limit

\* Once a message has a vector only the migration takes it away: no batch
\* that is written late, half written or given up puts another in its place.
VectorsKept ==
    [][\A m \in Msgs : emb[m].state = "vector" /\ migration' = migration
                           => emb'[m] = emb[m]]_embeddingVars

\* A message the provider always refuses does not hold up the others, nor is
\* it tried for ever: every stored message leaves the query's result, through
\* refusals, lost queries and a migration.  The three exceptions are known
\* faults of the loop: a provider that keeps timing out, an error that ends
\* the loop, and a column typed for other dimensions than the model's.
EveryMessageServed ==
    \/ []<><<EmbedTimesOut>>_embeddingVars
    \/ <>(loop = "dead")
    \/ <>(column \notin {"untyped", Dims(model)})
    \/ \A m \in Msgs : emb[m].state = "null" ~> emb[m].state \in {"vector", "zero"}
=============================================================================
