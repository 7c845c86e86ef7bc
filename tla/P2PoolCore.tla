----------------------------- MODULE P2PoolCore -----------------------------
(***************************************************************************)
(* class p2pool with its ZMQReader and JSON RPC requests: start-up, miner  *)
(* data from two threads, the mainchain data kept by height, the seed of   *)
(* the hasher, submission of found blocks, ZMQ restart and shutdown.       *)
(* Requests to monerod are queued for the main loop, which starts them.    *)
(*                                                                         *)
(* Threads: the main loop (RPC answers and the four uv_async handlers), the*)
(* ZMQ reader's thread, the threads that find blocks, and the pool threads *)
(* of RandomXHasher.  A main chain block is its height: its ID, its        *)
(* difficulty, its timestamp are whether the node knows them.  monerod is  *)
(* external: it answers requests and publishes what ZMQReader::parse reads.*)
(***************************************************************************)
EXTENDS RandomXHasher, FiniteSets

CONSTANTS
    Epoch, Lag,      \* SEEDHASH_EPOCH_BLOCKS, SEEDHASH_EPOCH_LAG
    Required,        \* BLOCK_HEADERS_REQUIRED
    StartHeight,     \* monerod's height when p2pool starts
    MaxHeight,       \* bound on monerod's height
    MaxBatch,        \* most blocks monerod adds in one go (a reorganisation)
    OldTemplates,    \* templates kept besides the current one, size of m_oldTemplates
    Finder,          \* threads that find a block, each at most once
    Budget           \* what the environment may do, see Events

\* Blocks of monerod, requests and readers that fail, found blocks, tips of the side
\* chain, stops
Events == [blocks : Nat, failures : Nat, finds : Nat, tips : Nat, stops : Nat]

ASSUME CoreAssumption ==
    /\ Epoch \in Nat \ {0} /\ Lag \in Nat /\ Required \in Nat \ {0}
    /\ StartHeight \in Nat \ {0} /\ MaxHeight \in Nat /\ MaxHeight >= StartHeight
    /\ MaxBatch \in Nat \ {0} /\ OldTemplates \in Nat
    /\ Budget \subseteq Events
    /\ \A b \in Budget : StartHeight + b.blocks <= MaxHeight

VARIABLES
    height,        \* monerod: the height of the block it mines next
    left,          \* what is left of the environment's budget
    calls,         \* requests [kind, h] the main loop has not started, m_callbacks
    rpc,           \* outstanding requests; h = 0 until monerod answered get_miner_data
    rpcHash,       \* m_getMinerDataHash: the height in the last get_miner_data answer
    reader,        \* m_ZMQReader: "none", "connecting" or "up"
    zmq,           \* messages the reader has not received
    silent,        \* 300 seconds have passed since m_zmqLastActive
    mainchain,     \* m_mainchainByHeight: what is known of each height
    minerData,     \* m_minerData.height, 0 before the first
    updateSeed,    \* m_updateSeed
    template,      \* height the block template was built for
    kept,          \* how many templates can be asked for: the current one and older ones
    pc,            \* the main and the ZMQ thread
    async,         \* the uv_async handles that are pending
    servers,       \* m_serversStarted
    slot,          \* m_submitBlockData: whose block, or Nobody
    finder,        \* per finder: "mining", "stored", "telling" or "done"
    age,           \* per finder: how old its block's template is, 1 if current; 0 without one
    submitting,    \* finders whose block is in a request the main loop has not started
    submitted,     \* finders whose block went to monerod
    stopped,       \* m_stopped
    closed,        \* on_stop closed the async handles
    alive          \* FALSE after panic()

rpcVars == <<calls, rpc, rpcHash>>
zmqVars == <<reader, zmq, silent>>
templateVars == <<template, kept>>
chainVars == <<mainchain, minerData, updateSeed>>
submitVars == <<slot, finder, age, submitting, submitted>>
lifeVars == <<servers, stopped, closed, alive>>
coreVars == <<height, left, rpcVars, zmqVars, chainVars, templateVars, pc, async, submitVars,
              lifeVars>>
vars == <<coreVars, hasherVars>>

Heights == 0 .. MaxHeight
ThreadName == {"main", "zmq"}
Idle == [at |-> "idle", h |-> 0, data |-> 0]

\* get_seed_height: a multiple of the epoch, at least Lag blocks back
get_seed_height(h) == IF h > Lag THEN ((h - Lag - 1) \div Epoch) * Epoch ELSE 0

Init ==
    /\ height = StartHeight /\ left \in Budget
    /\ calls = {[kind |-> "info", h |-> 0]} /\ rpc = {} /\ rpcHash = 0
    /\ reader = "none" /\ zmq = <<>> /\ silent = TRUE
    /\ mainchain = [h \in Heights |-> {}] /\ minerData = 0 /\ updateSeed = TRUE
    /\ template = 0 /\ kept = 0 /\ servers = FALSE
    /\ pc = [t \in ThreadName |-> Idle] /\ async = {}
    /\ slot = Nobody /\ finder = [f \in Finder |-> "mining"]
    /\ age = [f \in Finder |-> 0] /\ submitting = {} /\ submitted = {}
    /\ stopped = FALSE /\ closed = FALSE /\ alive = TRUE
    /\ HasherInit

At(t, l) == alive /\ pc[t].at = l
Goto(t, l) == pc' = [pc EXCEPT ![t].at = l]
Request(kind, h) == [kind |-> kind, h |-> h]
GetMinerData == Request("minerData", 0)
GetMinerDataPending == \E r \in rpc \cup calls : r.kind = "minerData"

\* JSONRPCRequest::call: CallOnLoop fails once on_stop has deleted the loop's user data
Call(requests) == calls' = IF closed THEN calls ELSE calls \cup requests

-----------------------------------------------------------------------------
(* monerod, external                                                       *)

\* k new blocks: the miner data of the last one, then a chain_main message with
\* all of them, published to the reader if it is connected
NewBlocks(k) ==
    /\ alive /\ left.blocks >= k
    /\ left' = [left EXCEPT !.blocks = @ - k]
    /\ height' = height + k
    /\ zmq' = IF reader = "up"
              THEN zmq \o <<[kind |-> "data", from |-> height + k, to |-> height + k],
                            [kind |-> "main", from |-> height, to |-> height + k - 1]>>
              ELSE zmq
    /\ UNCHANGED <<rpcVars, reader, silent, chainVars, templateVars, pc, async, lifeVars,
                   submitVars, hasherVars>>

\* monerod computes its answer to get_miner_data some time before it arrives
AnswerMinerData ==
    /\ alive /\ GetMinerData \in rpc
    /\ rpc' = (rpc \ {GetMinerData}) \cup {Request("minerData", height)}
    /\ UNCHANGED <<height, left, calls, rpcHash, zmqVars, chainVars, templateVars, pc, async,
                   lifeVars, submitVars, hasherVars>>

ZMQConnected ==
    /\ alive /\ reader = "connecting"
    /\ reader' = "up"
    /\ UNCHANGED <<height, left, rpcVars, zmq, silent, chainVars, templateVars, pc, async,
                   lifeVars, submitVars, hasherVars>>

-----------------------------------------------------------------------------
(* handle_miner_data on thread t, the ZMQ thread or main for an RPC answer,
   and update_block_template on main.  The steps are cut where the other
   thread can come between: after minerData is written, and after main has
   copied it.                                                               *)

\* cleanup_mainchain_data: old heights go, except the 3 latest seed heights
Kept(h, data) ==
    \/ h + Required >= data
    \/ h \in {get_seed_height(data) - i * Epoch : i \in 0 .. 2}

\* The difficulty of the next block and the ID of the last one, whose timestamp
\* "is unknown here"; then the cleanup
StoreMainchain(data) ==
    [h \in Heights |->
        CASE h = data -> mainchain[h] \cup {"difficulty"}
          [] h = data - 1 -> (mainchain[h] \ {"timestamp"}) \cup {"id"}
          [] OTHER -> IF Kept(h, data) THEN mainchain[h] ELSE {}]

\* The first part, called when the data arrives
StoreMinerData(t, data) ==
    /\ mainchain' = StoreMainchain(data)
    /\ minerData' = data
    /\ pc' = [pc EXCEPT ![t] = [at |-> "stored", h |-> data, data |-> 0]]

\* Heights whose difficulty is unknown are requested again
MissingHeaders(data) ==
    {Request("header", h) :
        h \in {h \in 1 .. data :
                  servers /\ h + Required > data /\ "difficulty" \notin mainchain[h]}}

\* Mutant of AfterStore: the ZMQ thread updates what main knows nothing of
AfterStoreQuiet(pending) == pending

\* update_block_template_async, unless p2pool is stopped
AfterStore(pending) == IF stopped THEN pending ELSE pending \cup {"template"}

\* The rest of handle_miner_data on the ZMQ thread
FinishZMQ ==
    /\ At("zmq", "stored")
    /\ updateSeed' = TRUE
    /\ async' = AfterStore(async)
    /\ Call(MissingHeaders(pc["zmq"].h))
    /\ silent' = FALSE
    /\ pc' = [pc EXCEPT !["zmq"] = Idle]
    /\ UNCHANGED <<height, left, rpc, rpcHash, reader, zmq, mainchain, minerData,
                   templateVars, submitVars, lifeVars, hasherVars>>

\* On main the template is updated at once: update_block_template copies minerData
StartUpdateOnMain ==
    /\ At("main", "stored")
    /\ updateSeed' = TRUE
    /\ pc' = [pc EXCEPT !["main"] = [at |-> "update", h |-> @.h, data |-> minerData]]
    /\ UNCHANGED <<height, left, rpcVars, zmqVars, mainchain, minerData, templateVars, async,
                   submitVars, lifeVars, hasherVars>>

\* update_chain_tip of the side chain, on another thread, asks for a new template
NewTip ==
    /\ alive /\ servers /\ left.tips > 0
    /\ left' = [left EXCEPT !.tips = @ - 1]
    /\ async' = AfterStore(async)
    /\ UNCHANGED <<height, rpcVars, zmqVars, chainVars, templateVars, pc, submitVars,
                   lifeVars, hasherVars>>

OnUpdateBlockTemplate ==
    /\ At("main", "idle") /\ "template" \in async /\ ~closed
    /\ async' = async \ {"template"}
    /\ pc' = [pc EXCEPT !["main"] = [at |-> "update", h |-> 0, data |-> minerData]]
    /\ UNCHANGED <<height, left, rpcVars, zmqVars, chainVars, templateVars, submitVars,
                   lifeVars, hasherVars>>

\* get_block_template_blob: the template of f's block is still there, or it needs none
InRing(f) == age[f] <= OldTemplates + 1

\* download_block_headers, after miner data from RPC: two seeds, then the headers
DownloadRequests(data) ==
    LET s == get_seed_height(data) IN
    {Request("oldSeed", IF s > Epoch THEN s - Epoch ELSE 0), Request("seed", s),
     Request("range", data)}

\* The rest of update_block_template and, for an RPC answer (h > 0), of
\* handle_miner_data and parse_get_miner_data_rpc
UpdateBlockTemplate ==
    LET p == pc["main"] IN
    /\ At("main", "update")
    /\ IF updateSeed THEN SetSeedAsync(get_seed_height(p.data)) ELSE UNCHANGED queue
    /\ updateSeed' = FALSE
    /\ template' = p.data /\ kept' = IF kept <= OldTemplates THEN kept + 1 ELSE kept
    /\ age' = [f \in Finder |-> IF age[f] > 0 /\ InRing(f) THEN age[f] + 1 ELSE age[f]]
    /\ Call(IF p.h = 0 THEN {} ELSE MissingHeaders(p.h) \cup DownloadRequests(p.h))
    /\ silent' = (silent /\ p.h = 0)
    /\ pc' = [pc EXCEPT !["main"] = Idle]
    /\ UNCHANGED <<height, left, rpc, rpcHash, reader, zmq, mainchain, minerData, async, slot,
                   finder, submitting, submitted, lifeVars, seed, index, cache, dataset,
                   seedCounter, oldSeedCounter, job, datasetWriter, cacheReaders>>

-----------------------------------------------------------------------------
(* RPC, on main.  A request leaves rpc when its callbacks return.           *)

\* async_cb of UV_LoopUserData: the loop starts the requests that are queued
StartCalls ==
    /\ At("main", "idle") /\ (calls # {} \/ submitting # {})
    /\ rpc' = rpc \cup calls /\ calls' = {}
    /\ submitted' = submitted \cup submitting /\ submitting' = {}
    /\ UNCHANGED <<height, left, rpcHash, zmqVars, chainVars, templateVars, pc, async,
                   lifeVars, slot, finder, age, hasherVars>>

Answered(r) == At("main", "idle") /\ r \in rpc

\* parse_get_info_rpc, parse_get_version_rpc: the next request of the start-up
NextRequest(kind) == IF kind = "info" THEN Request("version", 0) ELSE GetMinerData

AnswerStartup(r) ==
    /\ Answered(r) /\ r.kind \in {"info", "version"}
    /\ rpc' = rpc \ {r}
    /\ Call(IF stopped THEN {} ELSE {NextRequest(r.kind)})
    /\ UNCHANGED <<height, left, rpcHash, zmqVars, chainVars, templateVars, pc, async,
                   lifeVars, submitVars, hasherVars>>

\* parse_get_miner_data_rpc: an answer like the one before is ignored
AnswerMinerDataRpc(r) ==
    /\ Answered(r) /\ r.kind = "minerData" /\ r.h > 0
    /\ rpc' = rpc \ {r}
    /\ IF stopped \/ r.h = rpcHash THEN UNCHANGED <<rpcHash, mainchain, minerData, pc>>
       ELSE rpcHash' = r.h /\ StoreMinerData("main", r.h)
    /\ UNCHANGED <<height, left, calls, zmqVars, updateSeed, templateVars, async, lifeVars,
                   submitVars, hasherVars>>

\* An answer without a result, or that does not parse, is skipped and not asked for again
SkipMinerData(r) ==
    /\ Answered(r) /\ r.kind = "minerData" /\ r.h > 0 /\ ~stopped
    /\ left.failures > 0 /\ left' = [left EXCEPT !.failures = @ - 1]
    /\ rpc' = rpc \ {r} /\ rpcHash' = 0
    /\ UNCHANGED <<height, calls, zmqVars, chainVars, templateVars, pc, async, lifeVars,
                   submitVars, hasherVars>>

Known == {"id", "difficulty", "timestamp"}
Learn(hs) == [h \in Heights |-> IF h \in hs THEN Known ELSE mainchain[h]]

\* Mutant of AfterSeed: a stopping p2pool leaves the old seed alone
AfterSeedUnlessStopped(r) ==
    IF (r.kind = "oldSeed" \/ r.h = 0) /\ ~stopped
    THEN [at |-> "oldSeed", h |-> r.h, data |-> 0] ELSE Idle

\* The answer for the previous seed height goes to set_old_seed (both are 0 on a
\* short chain)
AfterSeed(r) ==
    IF r.kind = "oldSeed" \/ r.h = 0 THEN [at |-> "oldSeed", h |-> r.h, data |-> 0] ELSE Idle

\* parse_block_header
AnswerHeader(r) ==
    /\ Answered(r) /\ r.kind \in {"oldSeed", "seed", "header"}
    /\ rpc' = rpc \ {r}
    /\ mainchain' = Learn({r.h})
    /\ pc' = [pc EXCEPT !["main"] = IF r.kind = "header" THEN Idle ELSE AfterSeed(r)]
    /\ UNCHANGED <<height, left, calls, rpcHash, zmqVars, minerData, updateSeed, templateVars,
                   async, lifeVars, submitVars, hasherVars>>

\* "Do it synchronously": main waits for the first set_seed and for the cache
SetOldSeedOnMain ==
    /\ At("main", "oldSeed")
    /\ SetOldSeed(pc["main"].h)
    /\ pc' = [pc EXCEPT !["main"] = Idle]
    /\ UNCHANGED <<height, left, rpcVars, zmqVars, chainVars, templateVars, async, lifeVars,
                   submitVars>>

\* parse_block_headers_range; the first time, the ZMQ reader and the servers start
AnswerRange(r) ==
    /\ Answered(r) /\ r.kind = "range"
    /\ rpc' = rpc \ {r}
    /\ mainchain' = Learn({h \in Heights : h + Required >= r.h /\ h < r.h})
    /\ servers' = TRUE
    /\ reader' = IF servers THEN reader ELSE "connecting"
    /\ UNCHANGED <<height, left, calls, rpcHash, zmq, silent, minerData, updateSeed,
                   templateVars, pc, async, submitVars, stopped, closed, alive, hasherVars>>

\* get_info, get_version and get_miner_data are tried again, a failed header of a
\* later height is left, and without the headers of the start-up p2pool panics
FailRequest(r) ==
    /\ Answered(r) /\ left.failures > 0
    /\ left' = [left EXCEPT !.failures = @ - 1]
    /\ LET retry == r.kind \in {"info", "version", "minerData"} IN
       /\ rpc' = rpc \ {r}
       /\ Call(IF retry /\ ~stopped THEN {Request(r.kind, 0)} ELSE {})
       /\ alive' = (retry \/ r.kind = "header")
    /\ UNCHANGED <<height, rpcHash, zmqVars, chainVars, templateVars, pc, async, servers,
                   submitVars, stopped, closed, hasherVars>>

Answer(r) ==
    AnswerStartup(r) \/ AnswerMinerDataRpc(r) \/ AnswerHeader(r) \/ AnswerRange(r)

-----------------------------------------------------------------------------
(* ZMQReader: its thread and its restart                                    *)

\* handle_chain_main: the timestamp and the reward of each block
HandleChainMain(m) ==
    mainchain' = [h \in Heights |->
                     mainchain[h] \cup IF h \in m.from .. m.to THEN {"timestamp"} ELSE {}]

\* run and parse: one message, miner data or chain_main
ZMQReceive ==
    /\ At("zmq", "idle") /\ reader = "up" /\ zmq # <<>>
    /\ pc["main"].at # "join"
    /\ zmq' = Tail(zmq)
    /\ LET m == Head(zmq) IN
       IF m.kind = "data" THEN StoreMinerData("zmq", m.to) /\ UNCHANGED silent
       ELSE HandleChainMain(m) /\ silent' = FALSE /\ UNCHANGED <<minerData, pc>>
    /\ UNCHANGED <<height, left, rpcVars, reader, updateSeed, templateVars, async, lifeVars,
                   submitVars, hasherVars>>

\* A transaction, for handle_tx: the mempool is not modelled, but the reader is not silent
ZMQTx ==
    /\ At("zmq", "idle") /\ reader = "up" /\ pc["main"].at # "join"
    /\ silent /\ silent' = FALSE
    /\ UNCHANGED <<height, left, rpcVars, reader, zmq, chainVars, templateVars, pc, async,
                   lifeVars, submitVars, hasherVars>>

\* 300 seconds pass, in which both threads have handled what there was for them, and every
\* request has been answered or has failed (its timeout is 10 or 50 seconds)
Silence ==
    /\ alive /\ ~silent /\ (zmq = <<>> \/ reader # "up")
    /\ pc = [t \in ThreadName |-> Idle] /\ async = {} /\ calls = {} /\ rpc = {}
    /\ silent' = TRUE
    /\ UNCHANGED <<height, left, rpcVars, reader, zmq, chainVars, templateVars, pc, async,
                   lifeVars, submitVars, hasherVars>>

\* check_zmq on the P2P thread, restart_zmq; it is called every 60 seconds, in which main
\* has done with the restart before
CheckZMQ ==
    /\ alive /\ servers /\ ~stopped /\ silent
    /\ "zmq" \notin async /\ pc["main"].at # "join"
    /\ async' = async \cup {"zmq"}
    /\ UNCHANGED <<height, left, rpcVars, zmqVars, chainVars, templateVars, pc, lifeVars,
                   submitVars, hasherVars>>

\* Mutant of RestartRequest: the reader restarts without asking for miner data
RestartRequestNone == {}

RestartRequest == IF GetMinerDataPending THEN {} ELSE {GetMinerData}

OnRestartZMQ ==
    /\ At("main", "idle") /\ "zmq" \in async /\ ~closed
    /\ async' = async \ {"zmq"}
    /\ IF stopped THEN UNCHANGED <<calls, pc>>
       ELSE Call(RestartRequest) /\ Goto("main", "join")
    /\ UNCHANGED <<height, left, rpc, rpcHash, zmqVars, chainVars, templateVars, lifeVars,
                   submitVars, hasherVars>>

\* The old reader's thread ends, what it had not received is lost; making the new
\* reader may fail
JoinZMQ ==
    /\ At("main", "join") /\ pc["zmq"] = Idle
    /\ zmq' = <<>>
    /\ pc' = [pc EXCEPT !["main"] = Idle]
    /\ \/ reader' = "connecting" /\ silent' = FALSE /\ UNCHANGED left
       \/ /\ reader' = "none" /\ UNCHANGED silent
          /\ left.failures > 0 /\ left' = [left EXCEPT !.failures = @ - 1]
    /\ UNCHANGED <<height, rpcVars, chainVars, templateVars, async, lifeVars, submitVars,
                   hasherVars>>

-----------------------------------------------------------------------------
(* Found blocks and shutdown                                                *)

\* submit_block_async: the one slot for a found block, on a template that is still there or
\* (age 0) a whole block of a peer
FindBlock(f) ==
    /\ alive /\ servers /\ finder[f] = "mining" /\ left.finds > 0
    /\ left' = [left EXCEPT !.finds = @ - 1]
    /\ slot' = f
    /\ \E a \in 0 .. kept : age' = [age EXCEPT ![f] = a]
    /\ finder' = [finder EXCEPT ![f] = "stored"]
    /\ UNCHANGED <<height, rpcVars, zmqVars, chainVars, templateVars, pc, async, lifeVars,
                   submitting, submitted, hasherVars>>

\* submit_block: "couldn't find block template" if it is no longer there
SubmitBlock ==
    submitting' = IF closed \/ ~InRing(slot) THEN submitting ELSE submitting \cup {slot}

\* A stopped p2pool submits from this thread, else main is told to
SubmitOrTell(f) ==
    /\ alive /\ finder[f] = "stored"
    /\ IF stopped
       THEN finder' = [finder EXCEPT ![f] = "done"] /\ SubmitBlock
       ELSE finder' = [finder EXCEPT ![f] = "telling"] /\ UNCHANGED submitting
    /\ UNCHANGED <<height, left, rpcVars, zmqVars, chainVars, templateVars, pc, async,
                   lifeVars, slot, age, submitted, hasherVars>>

\* Mutant of TellMain: main is told of the first block only
TellMainOnce(f) ==
    /\ alive /\ finder[f] = "telling"
    /\ finder' = [finder EXCEPT ![f] = "done"]
    /\ async' = IF closed \/ submitted # {} THEN async ELSE async \cup {"submit"}
    /\ UNCHANGED <<height, left, rpcVars, zmqVars, chainVars, templateVars, pc, lifeVars,
                   slot, age, submitting, submitted, hasherVars>>

TellMain(f) ==
    /\ alive /\ finder[f] = "telling"
    /\ finder' = [finder EXCEPT ![f] = "done"]
    /\ async' = IF closed THEN async ELSE async \cup {"submit"}
    /\ UNCHANGED <<height, left, rpcVars, zmqVars, chainVars, templateVars, pc, lifeVars,
                   slot, age, submitting, submitted, hasherVars>>

\* on_submit_block
OnSubmitBlock ==
    /\ At("main", "idle") /\ "submit" \in async /\ ~closed
    /\ async' = async \ {"submit"}
    /\ SubmitBlock
    /\ UNCHANGED <<height, left, rpcVars, zmqVars, chainVars, templateVars, pc, lifeVars,
                   slot, finder, age, submitted, hasherVars>>

Stop ==
    /\ alive /\ ~stopped /\ left.stops > 0
    /\ left' = [left EXCEPT !.stops = @ - 1]
    /\ stopped' = TRUE /\ async' = async \cup {"stop"}
    /\ UNCHANGED <<height, rpcVars, zmqVars, chainVars, templateVars, pc, servers, submitVars,
                   closed, alive, hasherVars>>

\* on_stop closes the async handles: what is pending on them is dropped, and so are the
\* requests that have not been started, with the loop's user data
OnStop ==
    /\ At("main", "idle") /\ "stop" \in async
    /\ async' = {} /\ closed' = TRUE
    /\ calls' = {} /\ submitting' = {}
    /\ UNCHANGED <<height, left, rpc, rpcHash, zmqVars, chainVars, templateVars, pc, servers,
                   slot, finder, age, submitted, stopped, alive, hasherVars>>

\* uv_run returns when nothing is left to wait for; run() joins the ZMQ thread
Exit ==
    /\ At("main", "idle") /\ closed /\ rpc = {} /\ pc["zmq"] = Idle
    /\ queue = <<>> /\ \A w \in Worker : job[w] = NoJob
    /\ Goto("main", "exited")
    /\ UNCHANGED <<height, left, rpcVars, zmqVars, chainVars, templateVars, async, lifeVars,
                   submitVars, hasherVars>>

-----------------------------------------------------------------------------
PoolStep(w) == alive /\ SetSeed(w, stopped) /\ UNCHANGED coreVars

\* The main loop: its callbacks, one at a time
MainLoop ==
    \/ StartUpdateOnMain \/ UpdateBlockTemplate \/ SetOldSeedOnMain \/ JoinZMQ \/ Exit
    \/ OnUpdateBlockTemplate \/ OnSubmitBlock \/ OnRestartZMQ \/ OnStop \/ StartCalls
    \/ \E r \in rpc : Answer(r)

ZMQThread == ZMQReceive \/ FinishZMQ

FinderStep(f) == SubmitOrTell(f) \/ TellMain(f)

Next ==
    \/ \E k \in 1 .. MaxBatch : NewBlocks(k)
    \/ AnswerMinerData \/ ZMQConnected
    \/ ZMQThread \/ ZMQTx \/ MainLoop
    \/ \E r \in rpc : FailRequest(r) \/ SkipMinerData(r)
    \/ Silence \/ CheckZMQ \/ NewTip
    \/ \E f \in Finder : FindBlock(f) \/ FinderStep(f)
    \/ Stop
    \/ \E w \in Worker : PoolStep(w)

\* Threads that can run do, time passes, the P2P server's timer fires, monerod answers
\* and accepts connections; nobody has to mine, to fail or to stop.  Transactions that
\* keep coming are ZMQTx steps again and again, each after a Silence.
Fairness ==
    /\ WF_vars(AnswerMinerData) /\ WF_vars(ZMQConnected)
    /\ WF_vars(Silence) /\ WF_vars(CheckZMQ)
    /\ WF_vars(ZMQThread) /\ WF_vars(MainLoop)
    /\ \A f \in Finder : WF_vars(FinderStep(f))
    /\ \A w \in Worker : WF_vars(PoolStep(w))

Spec == Init /\ [][Next]_vars /\ Fairness

-----------------------------------------------------------------------------
Kinds == {"info", "version", "minerData", "oldSeed", "seed", "range", "header"}
Labels == {"idle", "stored", "update", "oldSeed", "join", "exited"}

\* What monerod, the requests, the threads and the hasher hold; monerod's height has a
\* bound, and only found blocks are submitted
TypeOK ==
    /\ height \in Heights /\ left \in Events
    /\ height + left.blocks <= MaxHeight
    /\ calls \subseteq [kind : Kinds, h : Heights] /\ rpc \subseteq [kind : Kinds, h : Heights]
    /\ rpcHash \in Heights /\ reader \in {"none", "connecting", "up"}
    /\ silent \in BOOLEAN
    /\ zmq \in Seq([kind : {"data", "main"}, from : Heights, to : Heights])
    /\ mainchain \in [Heights -> SUBSET Known]
    /\ minerData \in Heights /\ updateSeed \in BOOLEAN
    /\ template \in Heights /\ kept \in 0 .. OldTemplates + 1
    /\ pc \in [ThreadName -> [at : Labels, h : Heights, data : Heights]]
    /\ async \subseteq {"template", "submit", "zmq", "stop"}
    /\ servers \in BOOLEAN /\ stopped \in BOOLEAN /\ closed \in BOOLEAN /\ alive \in BOOLEAN
    /\ slot \in Finder \cup {Nobody} /\ age \in [Finder -> 0 .. OldTemplates + 2]
    /\ submitting \subseteq Finder /\ submitted \subseteq Finder
    /\ finder \in [Finder -> {"mining", "stored", "telling", "done"}]
    /\ HasherTypeOK({NoSeed} \cup Heights)

\* Nobody works on miner data and no template update is pending
AtRest ==
    /\ alive /\ ~stopped /\ pc = [t \in ThreadName |-> Idle] /\ "template" \notin async

\* update_block_template_async only tells main that there is something to do, and
\* two calls may become one: when nothing is in progress the template is of the
\* latest miner data all the same, whichever thread it came from.
TemplateFollowsMinerData == AtRest => template = minerData

\* submit_block_async stores the block, then tells main: once main has nothing to
\* do, the block that was found last has gone to monerod, unless so many templates were
\* made meanwhile that its own is no longer there.
LastFoundBlockIsSubmitted ==
    alive /\ ~stopped /\ pc["main"] = Idle /\ "submit" \notin async /\ submitting = {}
          /\ (\A f \in Finder : finder[f] \in {"mining", "done"})
        => slot \in submitted \cup {Nobody} \/ ~InRing(slot)

\* A start-up whose miner data could not be parsed: nothing asks for them again
StartupIsStuck == ~servers /\ calls = {} /\ rpc = {}

\* Blocks that monerod adds while the ZMQ reader is down or starting are missed,
\* and an RPC answer may be older than the data it replaces or be skipped: check_zmq
\* makes up for it, and in the end the template is for monerod's height, provided that
\* transactions do not keep the reader from ever being silent for 300 seconds.
CatchesUp ==
    <>[][~ZMQTx]_vars => <>[](alive /\ ~stopped => template = height \/ StartupIsStuck)

Ended == pc["main"].at = "exited" \/ ~alive

\* The old seed is set, or the request for it has been started
OldSeedComes ==
    oldSeedCounter \/ pc["main"].at = "oldSeed" \/ \E r \in rpc : r.kind = "oldSeed"

\* A p2pool that is stopped once its first seed is set and the request for the old one
\* has been started comes to its end: no thread of the pool waits for a set_old_seed that
\* never comes (set_seed spins until the old seed is set).  Stopped before, it may not:
\* on_stop discards a request that is only queued, and set_seed spins for ever; or the
\* set_seed job does nothing, and set_old_seed waits for it on main.
StopAfterSeedEnds == (stopped /\ seedCounter /\ OldSeedComes) ~> Ended

=============================================================================
