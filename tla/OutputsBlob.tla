---------------------------- MODULE OutputsBlob ----------------------------
(***************************************************************************)
(* SideChain::get_outputs_blob: the P2P loop thread rebuilds the outputs   *)
(* of a pruned block under m_sidechainLock while helper jobs on the thread *)
(* pool compute the same keys from the other end.  The pool also runs      *)
(* add_external_block for the blocks that came before, which needs the     *)
(* lock for writing.                                                       *)
(*                                                                         *)
(* The locked sections of add_external_block are single steps: nothing in  *)
(* them waits.  Readers are not held up by waiting writers (libuv's rwlock *)
(* prefers readers).                                                       *)
(***************************************************************************)
EXTENDS Integers, Sequences, FiniteSets

CONSTANTS
    Thread,    \* threads of the libuv pool
    Block,     \* blocks received before the pruned one
    Helper,    \* the helper jobs (HELPER_JOBS_COUNT of them)
    Outputs    \* number of outputs of the block

Idle == "idle"

ASSUME ConstantsAssumption ==
    /\ IsFiniteSet(Thread) /\ IsFiniteSet(Block) /\ IsFiniteSet(Helper)
    /\ Block \cap Helper = {} /\ Idle \notin Block \cup Helper
    /\ Outputs \in Nat \ {0}

VARIABLES
    queue,      \* work the pool has not started, in order
    running,    \* per thread: the block or helper job it runs, or Idle
    at,         \* per thread: the step it has reached
    received,   \* blocks given to the pool
    pc,         \* step of the loop thread in get_outputs_blob
    i,          \* the output it is working on
    meets,      \* it has seen the helpers pass output i
    reading,    \* it holds m_sidechainLock for reading
    toQueue,    \* helper jobs it has not tried to queue yet
    started,    \* num_helper_jobs_started
    finished,   \* num_helper_jobs_finished
    counter,    \* next output for the helpers
    stopped,    \* counter has been set to -1
    taken       \* outputs the helpers have taken

poolVars == <<queue, running, at>>
callVars == <<pc, i, meets, reading, toQueue, started>>
sharedVars == <<finished, counter, stopped, taken>>
vars == <<poolVars, received, callVars, sharedVars>>

-----------------------------------------------------------------------------
(* The loop thread                                                         *)

\* handle_incoming_block_async for a block that came with its outputs
ReceiveBlock(b) ==
    /\ pc = "idle" /\ b \notin received
    /\ received' = received \cup {b}
    /\ queue' = Append(queue, b)
    /\ UNCHANGED <<running, at, callVars, sharedVars>>

LastOutput == Outputs - 1

\* A pruned block comes: ReadLock, get_shares, split_reward
EnterCall ==
    /\ pc = "idle"
    /\ pc' = "queue" /\ reading' = TRUE
    /\ counter' = LastOutput
    /\ UNCHANGED <<poolVars, received, i, meets, toQueue, started, finished, stopped, taken>>

\* The block is stored already, or get_shares fails: no helpers
ReturnEarly ==
    /\ pc = "idle" /\ pc' = "returned"
    /\ UNCHANGED <<poolVars, received, i, meets, reading, toQueue, started, sharedVars>>

\* uv_queue_work for one helper job, which may fail
QueueHelper(h) ==
    /\ pc = "queue" /\ h \in toQueue
    /\ toQueue' = toQueue \ {h}
    /\ \/ queue' = Append(queue, h) /\ started' = started + 1
       \/ UNCHANGED <<queue, started>>
    /\ UNCHANGED <<running, at, received, pc, i, meets, reading, sharedVars>>

AllQueued ==
    /\ pc = "queue" /\ toQueue = {}
    /\ pc' = "load"
    /\ UNCHANGED <<poolVars, received, i, meets, reading, toQueue, started, sharedVars>>

\* Mutant of Meets: one output too early
MeetsEarly(c) == c >= 0 /\ i >= c - 1

Meets(c) == c >= 0 /\ i >= c

\* counter.load(), before output i is produced
LoadCounter ==
    /\ pc = "load" /\ i < Outputs
    /\ meets' = Meets(counter)
    /\ pc' = "produce"
    /\ UNCHANGED <<poolVars, received, i, reading, toQueue, started, sharedVars>>

\* Stop the helpers if they have been met, then produce output i
ProduceOutput ==
    /\ pc = "produce"
    /\ counter' = IF meets THEN -1 ELSE counter
    /\ stopped' = (stopped \/ meets)
    /\ i' = i + 1 /\ pc' = "load"
    /\ UNCHANGED <<poolVars, received, meets, reading, toQueue, started, finished, taken>>

StopHelpers ==
    /\ pc = "load" /\ i = Outputs
    /\ counter' = -1 /\ stopped' = TRUE
    /\ pc' = "wait"
    /\ UNCHANGED <<poolVars, received, i, meets, reading, toQueue, started, finished, taken>>

\* Mutants of HelpersDone: wait for one job less, or for one more
HelpersAlmostDone == finished + 1 >= started
HelpersOverDone == finished > started

HelpersDone == finished >= started

\* The yield loop ends; tmpShares and the counters go out of scope
Return ==
    /\ pc = "wait" /\ HelpersDone
    /\ pc' = "returned" /\ reading' = FALSE
    /\ UNCHANGED <<poolVars, received, i, meets, toQueue, started, sharedVars>>

LoopThread ==
    \/ \E b \in Block : ReceiveBlock(b)
    \/ EnterCall \/ ReturnEarly
    \/ \E h \in Helper : QueueHelper(h)
    \/ AllQueued \/ LoadCounter \/ ProduceOutput \/ StopHelpers \/ Return

-----------------------------------------------------------------------------
(* The thread pool                                                         *)

TakeWork(t) ==
    /\ running[t] = Idle /\ queue # <<>>
    /\ running' = [running EXCEPT ![t] = Head(queue)]
    /\ queue' = Tail(queue)
    /\ at' = [at EXCEPT ![t] = IF Head(queue) \in Helper THEN "fetch" ELSE "filter"]
    /\ UNCHANGED <<received, callVars, sharedVars>>

Runs(t, step) == running[t] # Idle /\ at[t] = step
GoTo(t, step) == at' = [at EXCEPT ![t] = step] /\ UNCHANGED <<queue, running>>
Done(t) ==
    /\ running' = [running EXCEPT ![t] = Idle]
    /\ at' = [at EXCEPT ![t] = Idle]
    /\ UNCHANGED queue

\* add_external_block: the part under the read lock, then the PoW check
FilterAndHash(t) ==
    /\ Runs(t, "filter") /\ GoTo(t, "missing")
    /\ UNCHANGED <<received, callVars, sharedVars>>

\* add_external_block collects missing_blocks under the write lock
CollectMissing(t) ==
    /\ Runs(t, "missing") /\ ~reading /\ GoTo(t, "add")
    /\ UNCHANGED <<received, callVars, sharedVars>>

\* add_block, under the write lock
AddBlock(t) ==
    /\ Runs(t, "add") /\ ~reading /\ Done(t)
    /\ UNCHANGED <<received, callVars, sharedVars>>

\* counter.fetch_sub(1); get_eph_public_key on the output it gave
FetchOutput(t) ==
    /\ Runs(t, "fetch")
    /\ counter' = counter - 1
    /\ IF counter >= 0
       THEN taken' = taken \cup {counter} /\ UNCHANGED at
       ELSE at' = [at EXCEPT ![t] = "finish"] /\ UNCHANGED taken
    /\ UNCHANGED <<queue, running, received, callVars, finished, stopped>>

\* ++num_helper_jobs_finished
FinishHelper(t) ==
    /\ Runs(t, "finish") /\ Done(t)
    /\ finished' = finished + 1
    /\ UNCHANGED <<received, callVars, counter, stopped, taken>>

PoolThread(t) ==
    \/ TakeWork(t) \/ FilterAndHash(t) \/ CollectMissing(t) \/ AddBlock(t)
    \/ FetchOutput(t) \/ FinishHelper(t)

-----------------------------------------------------------------------------
Init ==
    /\ queue = <<>>
    /\ running = [t \in Thread |-> Idle]
    /\ at = [t \in Thread |-> Idle]
    /\ received = {}
    /\ pc = "idle" /\ i = 0 /\ meets = FALSE /\ reading = FALSE
    /\ toQueue = Helper /\ started = 0
    /\ finished = 0 /\ counter = 0 /\ stopped = FALSE /\ taken = {}

Next == LoopThread \/ \E t \in Thread : PoolThread(t)

\* Threads are scheduled, and a thread that waits for the lock gets it once no
\* reader is left
Fairness == WF_vars(LoopThread) /\ \A t \in Thread : WF_vars(PoolThread(t))

Spec == Init /\ [][Next]_vars /\ Fairness

-----------------------------------------------------------------------------
\* What the call, its helpers, the pool threads and the lock hold
TypeOK ==
    /\ queue \in Seq(Block \cup Helper)
    /\ running \in [Thread -> Block \cup Helper \cup {Idle}]
    /\ at \in [Thread -> {Idle, "filter", "missing", "add", "fetch", "finish"}]
    /\ received \subseteq Block
    /\ pc \in {"idle", "queue", "load", "produce", "wait", "returned"}
    /\ i \in 0 .. Outputs /\ meets \in BOOLEAN /\ reading \in BOOLEAN
    /\ toQueue \subseteq Helper /\ started \in Nat
    /\ finished \in Nat /\ counter \in Int /\ stopped \in BOOLEAN
    /\ taken \subseteq 0 .. Outputs - 1

\* Helper jobs hold references to the stack frame of get_outputs_blob: once it
\* has returned no job is queued or running, whichever of the jobs could not be
\* queued.
NoUseAfterReturn ==
    pc = "returned" =>
      /\ \A k \in 1 .. Len(queue) : queue[k] \notin Helper
      /\ \A t \in Thread : running[t] \notin Helper

\* "Current thread will process indices in ascending order so when they meet,
\* everything will be cached": once the helpers are stopped, the helpers have taken
\* every output above the one being produced, although the counter moves between
\* the load and the store of the loop thread.
CachedWhenTheyMeet ==
    stopped => \A k \in i .. Outputs - 1 : k \in taken

\* "this will cause all helper jobs to finish immediately": the loop thread does
\* not wait for ever.
HelpersFinish == (pc = "wait") ~> (pc = "returned")

=============================================================================
