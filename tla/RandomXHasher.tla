--------------------------- MODULE RandomXHasher ---------------------------
(***************************************************************************)
(* RandomX_Hasher: two light VMs, for the current seed and the one before  *)
(* it, and a dataset for the current seed, behind two read-write locks.    *)
(* set_seed runs on the thread pool, set_old_seed on the main thread at    *)
(* start-up, calculate on any thread that checks PoW.  calculate changes   *)
(* nothing and holds a lock while it hashes, so it is an operator: the VM  *)
(* it hashes with.  A seed is modelled by the height of the block whose ID *)
(* it is; -1 stands for none.                                              *)
(***************************************************************************)
EXTENDS Integers, Sequences

CONSTANTS
    Worker,      \* threads of the pool that run set_seed
    FullMemory   \* whether there is a dataset (no --light-mode)

NoSeed == -1
Nobody == "nobody"

ASSUME HasherAssumption == FullMemory \in BOOLEAN /\ Worker # {} /\ Nobody \notin Worker

VARIABLES
    seed, index,       \* m_seed, m_index
    cache,             \* what each m_cache, and the light VM on it, was made for
    dataset,           \* what the dataset and the full VM were made for
    seedCounter,       \* m_seedCounter > 0
    oldSeedCounter,    \* m_oldSeedCounter > 0
    queue,             \* seeds of the set_seed jobs waiting for a pool thread
    job,               \* per pool thread: what its set_seed is doing
    datasetWriter,     \* the thread that holds m_datasetLock for writing
    cacheReaders       \* pool threads that hold m_cacheLock for reading

hasherVars == <<seed, index, cache, dataset, seedCounter, oldSeedCounter, queue, job,
                datasetWriter, cacheReaders>>

Other01(i) == 1 - i

NoJob == [at |-> "idle", seed |-> NoSeed]

HasherInit ==
    /\ seed = [i \in 0 .. 1 |-> NoSeed] /\ index = 0
    /\ cache = [i \in 0 .. 1 |-> NoSeed] /\ dataset = NoSeed
    /\ seedCounter = FALSE /\ oldSeedCounter = FALSE
    /\ queue = <<>> /\ job = [w \in Worker |-> NoJob]
    /\ datasetWriter = Nobody /\ cacheReaders = {}

\* set_seed_async, called by another action: queue unless s is the current seed
SetSeedAsync(s) ==
    queue' = IF seed[index] = s THEN queue ELSE Append(queue, s)

-----------------------------------------------------------------------------
(* set_seed on pool thread w                                               *)

Step(w, from, to) == job[w].at = from /\ job' = [job EXCEPT ![w].at = to]
Return(w, from) == job[w].at = from /\ job' = [job EXCEPT ![w] = NoJob]

\* A job that starts when p2pool is stopped does nothing
StartSetSeed(w, stopped) ==
    /\ job[w].at = "idle" /\ queue # <<>>
    /\ job' = IF stopped THEN job
              ELSE [job EXCEPT ![w] = [at |-> "lock", seed |-> Head(queue)]]
    /\ queue' = Tail(queue)
    /\ UNCHANGED <<seed, index, cache, dataset, seedCounter, oldSeedCounter,
                   datasetWriter, cacheReaders>>

NextIndex(i) == Other01(i)

\* Under both locks, that for the cache only until here: the new seed takes the
\* place of the old one, unless it is the current one already
UpdateCache(w) ==
    LET s == job[w].seed
        same == seed[index] = s
        i == NextIndex(index)
    IN
    /\ datasetWriter = Nobody /\ cacheReaders = {}
    /\ seedCounter' = TRUE
    /\ IF same THEN UNCHANGED <<seed, index, cache>>
       ELSE /\ index' = i
            /\ seed' = [seed EXCEPT ![i] = s] /\ cache' = [cache EXCEPT ![i] = s]
    /\ IF ~same /\ FullMemory
       THEN Step(w, "lock", "waitOld") /\ datasetWriter' = w
       ELSE Return(w, "lock") /\ UNCHANGED datasetWriter
    /\ UNCHANGED <<dataset, oldSeedCounter, queue, cacheReaders>>

\* "wait for set_old_seed() before initializing dataset"
MayStartDataset == oldSeedCounter

StartDataset(w) ==
    /\ MayStartDataset
    /\ Step(w, "waitOld", "initDataset")
    /\ cacheReaders' = cacheReaders \cup {w}
    /\ UNCHANGED <<seed, index, cache, dataset, seedCounter, oldSeedCounter, queue,
                   datasetWriter>>

InitDataset(w) ==
    /\ Return(w, "initDataset")
    /\ dataset' = cache[index]
    /\ cacheReaders' = cacheReaders \ {w} /\ datasetWriter' = Nobody
    /\ UNCHANGED <<seed, index, cache, seedCounter, oldSeedCounter, queue>>

SetSeed(w, stopped) ==
    \/ StartSetSeed(w, stopped) \/ UpdateCache(w)
    \/ StartDataset(w) \/ InitDataset(w)

-----------------------------------------------------------------------------
\* set_old_seed: "set_seed() must go first, wait for it"
SetOldSeed(s) ==
    LET i == Other01(index) IN
    /\ seedCounter
    /\ cacheReaders = {}
    /\ oldSeedCounter' = TRUE
    /\ seed' = [seed EXCEPT ![i] = s] /\ cache' = [cache EXCEPT ![i] = s]
    /\ UNCHANGED <<index, dataset, seedCounter, queue, job, datasetWriter,
                   cacheReaders>>

\* Mutant of DatasetReady: the lock is not tried
DatasetReadyNoLock(s) == dataset # NoSeed /\ s = seed[index]

\* The tryrdlock succeeds and the full VM is for the current seed
DatasetReady(s) == datasetWriter = Nobody /\ dataset # NoSeed /\ s = seed[index]

\* calculate(s): the VM that hashes, by the seed it was made for: the dataset's,
\* else the current light VM, else the previous one; NoSeed if calculate fails
CalculateWith(s) ==
    LET fits == {i \in 0 .. 1 : cache[i] # NoSeed /\ s = seed[i]} IN
    IF DatasetReady(s) THEN dataset
    ELSE IF index \in fits THEN cache[index]
    ELSE IF fits # {} THEN cache[Other01(index)] ELSE NoSeed

-----------------------------------------------------------------------------
HasherTypeOK(Seeds) ==
    /\ seed \in [0 .. 1 -> Seeds] /\ index \in 0 .. 1
    /\ cache \in [0 .. 1 -> Seeds] /\ dataset \in Seeds
    /\ seedCounter \in BOOLEAN /\ oldSeedCounter \in BOOLEAN
    /\ queue \in Seq(Seeds)
    /\ job \in [Worker -> [at : {"idle", "lock", "waitOld", "initDataset"}, seed : Seeds]]
    /\ datasetWriter \in Worker \cup {Nobody}
    /\ cacheReaders \subseteq Worker

\* calculate hashes with a VM made for the seed it is asked for, or reports that
\* it can not: never with the dataset or a cache of another seed, also while
\* set_seed replaces them under it.
HashIsOfItsSeed ==
    \A s \in {seed[0], seed[1], dataset} \ {NoSeed} :
        CalculateWith(s) \in {s, NoSeed}

=============================================================================
