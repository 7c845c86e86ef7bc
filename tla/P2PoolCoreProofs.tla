-------------------------- MODULE P2PoolCoreProofs --------------------------
(***************************************************************************)
(* What P2PoolCore and the RandomXHasher in it promise for any chain, any  *)
(* number of pool threads and finders, and any behaviour of monerod.       *)
(***************************************************************************)
EXTENDS P2PoolCore, SequenceTheorems, TLAPS

\* The dataset is written by the thread that holds its lock, and it is for the current
\* seed whenever nobody writes it.  The caches always are for their seeds.
HasherInv ==
    /\ seed = cache
    /\ \A w \in Worker : job[w].at \in {"waitOld", "initDataset"} => datasetWriter = w
    /\ datasetWriter = Nobody => dataset \in {NoSeed, seed[index]}
    /\ ~FullMemory => datasetWriter = Nobody /\ dataset = NoSeed

\* stop() comes before on_stop, which comes before the handles are closed
StopInv == ("stop" \in async => stopped) /\ (closed => stopped)

\* Someone is going to update the template
UpdateComes ==
    pc["zmq"].at = "stored" \/ pc["main"].at = "stored" \/ "template" \in async

\* What the template is, or is about to be, is the latest miner data, or an update comes
TemplateInv ==
    alive /\ ~stopped /\ ~UpdateComes =>
        IF pc["main"].at = "update" THEN pc["main"].data = minerData ELSE template = minerData

\* Main submits what is in the slot, or is told to, or there is nothing in it
SlotInv ==
    /\ slot \notin Finder => "submit" \notin async /\ \A f \in Finder : finder[f] = "mining"
    /\ alive /\ ~stopped /\ "submit" \notin async
             /\ (\A f \in Finder : finder[f] \in {"mining", "done"})
           => slot \in submitted \cup submitting \cup {Nobody} \/ ~InRing(slot)

-----------------------------------------------------------------------------
(* Types                                                                   *)

LEMMA SeedHeight ==
    ASSUME NEW h \in Heights
    PROVE  /\ get_seed_height(h) \in Heights
           /\ DownloadRequests(h) \subseteq [kind : Kinds, h : Heights]
           /\ MissingHeaders(h) \subseteq [kind : Kinds, h : Heights]
  <1>1. Epoch \in Nat \ {0} /\ Lag \in Nat /\ MaxHeight \in Nat /\ h \in Nat /\ h <= MaxHeight
    BY CoreAssumption DEF Heights
  <1>2. \A n \in Nat : (n \div Epoch) * Epoch \in Nat /\ (n \div Epoch) * Epoch <= n
    BY <1>1
  <1>3. get_seed_height(h) \in Nat /\ get_seed_height(h) <= h
    <2>1. CASE h > Lag
      <3>1. h - Lag - 1 \in Nat /\ h - Lag - 1 <= h
        BY <1>1, <2>1
      <3>2. ((h - Lag - 1) \div Epoch) * Epoch \in Nat
            /\ ((h - Lag - 1) \div Epoch) * Epoch <= h - Lag - 1
        BY <1>2, <3>1
      <3> QED
        BY <1>1, <2>1, <3>1, <3>2 DEF get_seed_height
    <2>2. CASE ~(h > Lag)
      BY <1>1, <2>2 DEF get_seed_height
    <2> QED
      BY <2>1, <2>2
  <1>4. get_seed_height(h) \in Heights
    BY <1>1, <1>3 DEF Heights
  <1>5. DownloadRequests(h) \subseteq [kind : Kinds, h : Heights]
    <2>1. (IF get_seed_height(h) > Epoch THEN get_seed_height(h) - Epoch ELSE 0) \in Heights
      BY <1>1, <1>3 DEF Heights
    <2> QED
      BY <1>4, <2>1 DEF DownloadRequests, Request, Kinds
  <1>6. MissingHeaders(h) \subseteq [kind : Kinds, h : Heights]
    BY <1>1 DEF MissingHeaders, Request, Kinds, Heights
  <1> QED
    BY <1>4, <1>5, <1>6

\* What the start of the environment's budget gives
LEMMA TypeInit == Init => TypeOK /\ HasherInv /\ StopInv /\ TemplateInv /\ SlotInv
  <1> SUFFICES ASSUME Init PROVE TypeOK /\ HasherInv /\ StopInv /\ TemplateInv /\ SlotInv
    OBVIOUS
  <1>1. HasherTypeOK({NoSeed} \cup Heights)
    <2> DEFINE S == {NoSeed} \cup Heights
    <2>1. NoSeed \in S
      OBVIOUS
    <2> HIDE DEF S
    <2>2. HasherInit
      BY DEF Init
    <2>3. HasherTypeOK(S)
      BY ONLY <2>1, <2>2 DEF HasherInit, HasherTypeOK, NoJob
    <2> QED
      BY <2>3 DEF S
  <1>2. height \in Heights /\ height + left.blocks <= MaxHeight
        /\ left \in Events
    BY CoreAssumption DEF Init, Heights, Events
  <1>3. 0 \in Heights
    BY CoreAssumption DEF Heights
  <1>4. TypeOK
    <2>1. pc \in [ThreadName -> [at : Labels, h : Heights, data : Heights]]
      BY <1>3 DEF Init, Idle, Labels
    <2>2. rpc \subseteq [kind : Kinds, h : Heights] /\ rpcHash \in Heights
          /\ calls \subseteq [kind : Kinds, h : Heights]
      BY <1>3 DEF Init, Kinds
    <2>3. zmq \in Seq([kind : {"data", "main"}, from : Heights, to : Heights])
      BY DEF Init
    <2>4. mainchain \in [Heights -> SUBSET Known]
      BY DEF Init
    <2>5. slot \in Finder \cup {Nobody} /\ submitted \subseteq Finder /\ submitting \subseteq Finder
          /\ finder \in [Finder -> {"mining", "stored", "telling", "done"}]
      BY DEF Init
    <2>6. kept \in 0 .. OldTemplates + 1 /\ age \in [Finder -> 0 .. OldTemplates + 2]
      BY CoreAssumption DEF Init
    <2> QED
      BY <1>1, <1>2, <1>3, <2>1, <2>2, <2>3, <2>4, <2>5, <2>6 DEF Init, TypeOK
  <1>5. HasherInv
    BY HasherAssumption DEF Init, HasherInit, HasherInv, NoJob
  <1>6. StopInv /\ TemplateInv
    BY DEF Init, StopInv, TemplateInv, UpdateComes, Idle, ThreadName
  <1>7. SlotInv
    BY DEF Init, SlotInv
  <1> QED
    BY <1>4, <1>5, <1>6, <1>7

\* Steps of the hasher alone
LEMMA PoolStepTypes ==
    ASSUME TypeOK, HasherInv, NEW w \in Worker, SetSeed(w, stopped)
    PROVE  HasherTypeOK({NoSeed} \cup Heights)' /\ HasherInv'
  <1> DEFINE S == {NoSeed} \cup Heights
  <1>1. HasherTypeOK(S) /\ NoSeed \in S
    BY DEF TypeOK
  <1> HIDE DEF S
  <1>a. Nobody \notin Worker
    BY HasherAssumption
  <1>2. CASE StartSetSeed(w, stopped)
    <2>1. Head(queue) \in S /\ Tail(queue) \in Seq(S)
      BY <1>1, <1>2 DEF StartSetSeed, HasherTypeOK
    <2>2. HasherTypeOK(S)'
      BY <1>1, <1>2, <2>1 DEF StartSetSeed, HasherTypeOK
    <2>3. HasherInv'
      BY <1>1, <1>2 DEF StartSetSeed, HasherTypeOK, HasherInv
    <2> QED
      BY <2>2, <2>3 DEF S
  <1>3. CASE UpdateCache(w)
    <2>1. HasherTypeOK(S)'
      BY <1>1, <1>3 DEF UpdateCache, HasherTypeOK, Step, Return, NoJob, NextIndex, Other01
    <2>2. SUFFICES HasherInv'
      BY <2>1 DEF S
    <2>3. datasetWriter = Nobody /\ \A v \in Worker : job[v].at \notin {"waitOld", "initDataset"}
      BY <1>a, <1>3 DEF UpdateCache, HasherInv
    <2>4. CASE seed[index] = job[w].seed
      <3>1. seed' = cache' /\ datasetWriter' = Nobody /\ UNCHANGED <<seed, index, dataset>>
        BY <1>3, <2>3, <2>4 DEF UpdateCache, HasherInv
      <3>2. \A v \in Worker : job'[v].at \notin {"waitOld", "initDataset"}
        BY <1>1, <1>3, <2>3, <2>4 DEF UpdateCache, HasherTypeOK, Return, NoJob
      <3> QED
        BY ONLY HasherInv, <2>3, <3>1, <3>2, Zenon DEF HasherInv
    <2>5. CASE seed[index] # job[w].seed /\ FullMemory
      <3>1. seed' = cache'
        BY <1>3, <2>5 DEF UpdateCache, HasherInv
      <3>2. \A v \in Worker : job'[v].at \in {"waitOld", "initDataset"} => datasetWriter' = v
        BY <1>1, <1>3, <2>3, <2>5 DEF UpdateCache, HasherTypeOK, Step
      <3>3. datasetWriter' # Nobody
        BY <1>a, <1>3, <2>5 DEF UpdateCache
      <3>4. ~FullMemory => datasetWriter' = Nobody /\ dataset' = NoSeed
        BY ONLY <2>5, Zenon
      <3> QED
        BY ONLY <3>1, <3>2, <3>3, <3>4, Zenon DEF HasherInv
    <2>6. CASE seed[index] # job[w].seed /\ ~FullMemory
      <3>1. seed' = cache'
        BY <1>3, <2>6 DEF UpdateCache, HasherInv
      <3>2. \A v \in Worker : job'[v].at \notin {"waitOld", "initDataset"}
        BY <1>1, <1>3, <2>3, <2>6 DEF UpdateCache, HasherTypeOK, Return, NoJob
      <3>3. datasetWriter' = Nobody /\ dataset' = NoSeed
        BY <1>3, <2>6 DEF UpdateCache, HasherInv
      <3> QED
        BY ONLY <3>1, <3>2, <3>3, Zenon DEF HasherInv
    <2> QED
      BY <2>4, <2>5, <2>6
  <1>4. CASE StartDataset(w)
    <2>1. HasherTypeOK(S)'
      BY <1>1, <1>4 DEF StartDataset, HasherTypeOK, Step
    <2>2. HasherInv'
      BY <1>1, <1>4 DEF StartDataset, HasherTypeOK, HasherInv, Step
    <2> QED
      BY <2>1, <2>2 DEF S
  <1>5. CASE InitDataset(w)
    <2>1. HasherTypeOK(S)'
      BY <1>1, <1>5 DEF InitDataset, HasherTypeOK, Return, NoJob
    <2>2. HasherInv'
      BY <1>1, <1>a, <1>5 DEF InitDataset, HasherTypeOK, HasherInv, Return, NoJob
    <2> QED
      BY <2>1, <2>2 DEF S
  <1> QED
    BY <1>2, <1>3, <1>4, <1>5 DEF SetSeed

LEMMA HasherStutter ==
    ASSUME TypeOK, HasherInv, UNCHANGED hasherVars
    PROVE  HasherTypeOK({NoSeed} \cup Heights)' /\ HasherInv'
  BY DEF TypeOK, HasherTypeOK, HasherInv, hasherVars

LEMMA HasherSetOldSeed ==
    ASSUME TypeOK, HasherInv, NEW s \in Heights, SetOldSeed(s)
    PROVE  HasherTypeOK({NoSeed} \cup Heights)' /\ HasherInv'
  <1> DEFINE S == {NoSeed} \cup Heights
  <1>1. HasherTypeOK(S) /\ s \in S
    BY DEF TypeOK
  <1> HIDE DEF S
  <1>2. Other01(index) \in 0 .. 1 /\ Other01(index) # index
    BY <1>1 DEF HasherTypeOK, Other01
  <1>3. HasherTypeOK(S)'
    BY <1>1, <1>2 DEF SetOldSeed, HasherTypeOK
  <1>4. seed'[index] = seed[index] /\ seed' = cache'
    BY <1>1, <1>2 DEF SetOldSeed, HasherTypeOK, HasherInv
  <1>5. HasherInv'
    BY <1>4 DEF SetOldSeed, HasherInv
  <1> QED
    BY <1>3, <1>5 DEF S

\* The conjuncts of TypeOK, by what the actions change
EnvOK == height \in Heights /\ left \in Events /\ height + left.blocks <= MaxHeight
RpcOK ==
    /\ calls \subseteq [kind : Kinds, h : Heights] /\ rpc \subseteq [kind : Kinds, h : Heights]
    /\ rpcHash \in Heights
ZmqOK ==
    /\ reader \in {"none", "connecting", "up"} /\ silent \in BOOLEAN
    /\ zmq \in Seq([kind : {"data", "main"}, from : Heights, to : Heights])
ChainOK ==
    mainchain \in [Heights -> SUBSET Known] /\ minerData \in Heights /\ updateSeed \in BOOLEAN
TemplateOK == template \in Heights /\ kept \in 0 .. OldTemplates + 1
ThreadsOK == pc \in [ThreadName -> [at : Labels, h : Heights, data : Heights]]
AsyncOK == async \subseteq {"template", "submit", "zmq", "stop"}
LifeOK == servers \in BOOLEAN /\ stopped \in BOOLEAN /\ closed \in BOOLEAN /\ alive \in BOOLEAN
SubmitOK ==
    /\ slot \in Finder \cup {Nobody} /\ age \in [Finder -> 0 .. OldTemplates + 2]
    /\ submitting \subseteq Finder /\ submitted \subseteq Finder
    /\ finder \in [Finder -> {"mining", "stored", "telling", "done"}]

PartsOK ==
    /\ EnvOK /\ RpcOK /\ ZmqOK /\ ChainOK /\ TemplateOK /\ ThreadsOK /\ AsyncOK /\ LifeOK
    /\ SubmitOK /\ HasherTypeOK({NoSeed} \cup Heights)

LEMMA TypeParts == (TypeOK <=> PartsOK) /\ (TypeOK' <=> PartsOK')
  BY DEF TypeOK, PartsOK, EnvOK, RpcOK, ZmqOK, ChainOK, TemplateOK, ThreadsOK, AsyncOK, LifeOK,
         SubmitOK

\* What an action leaves alone keeps its type
LEMMA TypeStutter ==
    ASSUME TypeOK
    PROVE  /\ UNCHANGED height /\ UNCHANGED left => EnvOK'
           /\ UNCHANGED rpcVars => RpcOK'
           /\ UNCHANGED zmqVars => ZmqOK'
           /\ UNCHANGED chainVars => ChainOK'
           /\ UNCHANGED templateVars => TemplateOK'
           /\ UNCHANGED pc => ThreadsOK'
           /\ UNCHANGED async => AsyncOK'
           /\ UNCHANGED lifeVars => LifeOK'
           /\ UNCHANGED submitVars => SubmitOK'
  <1>1. PartsOK
    BY TypeParts
  <1>2. /\ UNCHANGED height /\ UNCHANGED left => EnvOK'
        /\ UNCHANGED rpcVars => RpcOK'
        /\ UNCHANGED zmqVars => ZmqOK'
    BY <1>1 DEF PartsOK, EnvOK, RpcOK, ZmqOK, rpcVars, zmqVars
  <1>3. /\ UNCHANGED chainVars => ChainOK'
        /\ UNCHANGED templateVars => TemplateOK'
        /\ UNCHANGED pc => ThreadsOK'
        /\ UNCHANGED async => AsyncOK'
    BY <1>1 DEF PartsOK, ChainOK, TemplateOK, ThreadsOK, AsyncOK, chainVars, templateVars
  <1>4. /\ UNCHANGED lifeVars => LifeOK'
        /\ UNCHANGED submitVars => SubmitOK'
    BY <1>1 DEF PartsOK, LifeOK, SubmitOK, lifeVars, submitVars
  <1> QED
    BY <1>2, <1>3, <1>4

\* What every step leaves: the types of what it touches
LEMMA TypeStep ==
    ASSUME TypeOK, HasherInv, SlotInv, Next
    PROVE  TypeOK' /\ HasherInv'
  <1>0. MaxHeight \in Nat /\ 0 \in Heights
    BY CoreAssumption DEF Heights
  <1>p. PartsOK
    BY TypeParts
  <1>1. ASSUME NEW k \in 1 .. MaxBatch, NewBlocks(k) PROVE TypeOK' /\ HasherInv'
    <2>0. k \in Nat \ {0} /\ height \in Nat /\ left.blocks \in Nat
      BY <1>0, <1>p, CoreAssumption DEF PartsOK, EnvOK, Heights, Events
    <2>1. left.blocks - k \in Nat
      BY <1>1, <2>0 DEF NewBlocks
    <2>2. height + k \in Heights /\ height + k - 1 \in Heights
      BY <1>0, <1>p, <2>0, <2>1 DEF PartsOK, EnvOK, Heights
    <2>3. left' \in Events /\ left'.blocks = left.blocks - k
      BY <1>1, <1>p, <2>0, <2>1 DEF NewBlocks, PartsOK, EnvOK, Events
    <2>4. EnvOK'
      BY <1>0, <1>1, <1>p, <2>0, <2>1, <2>2, <2>3 DEF NewBlocks, PartsOK, EnvOK
    <2>5. zmq' \in Seq([kind : {"data", "main"}, from : Heights, to : Heights])
      <3> DEFINE M == [kind : {"data", "main"}, from : Heights, to : Heights]
                 new == <<[kind |-> "data", from |-> height + k, to |-> height + k],
                          [kind |-> "main", from |-> height, to |-> height + k - 1]>>
      <3>1. new \in Seq(M) /\ zmq \in Seq(M)
        BY <1>p, <2>2 DEF PartsOK, ZmqOK, EnvOK
      <3>2. zmq' = zmq \o new \/ zmq' = zmq
        BY <1>1 DEF NewBlocks
      <3> HIDE DEF M, new
      <3>3. zmq' \in Seq(M)
        BY ONLY <3>1, <3>2, ConcatProperties
      <3> QED
        BY <3>3 DEF M
    <2>6. ZmqOK'
      BY <1>1, <1>p, <2>5 DEF NewBlocks, PartsOK, ZmqOK
    <2> QED
      BY <1>1, <2>4, <2>6, TypeParts, TypeStutter, HasherStutter DEF NewBlocks, PartsOK
  <1>2. CASE AnswerMinerData
    <2>1. RpcOK'
      BY <1>0, <1>p, <1>2
         DEF AnswerMinerData, EnvOK, Request, Kinds, GetMinerData, PartsOK, RpcOK, rpcVars
    <2> QED
      BY <1>2, <2>1, TypeParts, TypeStutter, HasherStutter DEF AnswerMinerData, PartsOK
  <1>3. CASE ZMQConnected
    <2>1. ZmqOK'
      BY <1>0, <1>p, <1>3
         DEF ZMQConnected, PartsOK, ZmqOK, zmqVars
    <2> QED
      BY <1>3, <2>1, TypeParts, TypeStutter, HasherStutter DEF ZMQConnected, PartsOK
  <1>4. CASE StartUpdateOnMain
    <2>1. ChainOK'
      BY <1>0, <1>p, <1>4
         DEF StartUpdateOnMain, PartsOK, ChainOK, chainVars
    <2>2. ThreadsOK'
      BY <1>0, <1>p, <1>4
         DEF StartUpdateOnMain, Labels, ThreadName, PartsOK, ChainOK, ThreadsOK
    <2> QED
      BY <1>4, <2>1, <2>2, TypeParts, TypeStutter, HasherStutter DEF StartUpdateOnMain, PartsOK
  <1>5. CASE JoinZMQ
    <2>1. EnvOK'
      BY <1>0, <1>p, <1>5
         DEF JoinZMQ, PartsOK, EnvOK, Events
    <2>2. ZmqOK'
      <3>1. silent \in BOOLEAN
        BY <1>p DEF PartsOK, ZmqOK
      <3>2. silent' \in BOOLEAN
        BY <1>5, <3>1, Zenon DEF JoinZMQ
      <3>3. zmq' = <<>> /\ reader' \in {"none", "connecting"}
        BY <1>5, Zenon DEF JoinZMQ
      <3> QED
        BY <3>2, <3>3 DEF ZmqOK
    <2>3. ThreadsOK'
      BY <1>0, <1>p, <1>5
         DEF JoinZMQ, Idle, Labels, ThreadName, PartsOK, ThreadsOK
    <2> QED
      BY <1>5, <2>1, <2>2, <2>3, TypeParts, TypeStutter, HasherStutter DEF JoinZMQ, PartsOK
  <1>6. CASE Exit
    <2>1. ThreadsOK'
      BY <1>0, <1>p, <1>6
         DEF Exit, Goto, At, Idle, Labels, ThreadName, PartsOK, ThreadsOK
    <2> QED
      BY <1>6, <2>1, TypeParts, TypeStutter, HasherStutter DEF Exit, PartsOK
  <1>7. CASE OnUpdateBlockTemplate
    <2>1. ThreadsOK'
      BY <1>0, <1>p, <1>7
         DEF OnUpdateBlockTemplate, Labels, ThreadName, PartsOK, ChainOK, ThreadsOK
    <2>2. AsyncOK'
      BY <1>p, <1>7
         DEF OnUpdateBlockTemplate, PartsOK, AsyncOK
    <2> QED
      BY <1>7, <2>1, <2>2, TypeParts, TypeStutter, HasherStutter DEF OnUpdateBlockTemplate, PartsOK
  <1>8. CASE OnSubmitBlock
    <2>1. AsyncOK'
      BY <1>p, <1>8
         DEF OnSubmitBlock, PartsOK, AsyncOK
    <2>2. SubmitOK'
      BY <1>0, <1>p, <1>8
         DEF OnSubmitBlock, SubmitBlock, SlotInv, PartsOK, SubmitOK, submitVars
    <2> QED
      BY <1>8, <2>1, <2>2, TypeParts, TypeStutter, HasherStutter DEF OnSubmitBlock, PartsOK
  <1>9. CASE OnRestartZMQ
    <2>1. RpcOK'
      BY <1>0, <1>p, <1>9
         DEF OnRestartZMQ, RestartRequest, Call, Request, Kinds, GetMinerData, PartsOK, RpcOK,
             rpcVars
    <2>2. ThreadsOK'
      BY <1>0, <1>p, <1>9
         DEF OnRestartZMQ, Goto, Idle, Labels, ThreadName, PartsOK, ThreadsOK
    <2>3. AsyncOK'
      BY <1>p, <1>9
         DEF OnRestartZMQ, PartsOK, AsyncOK
    <2> QED
      BY <1>9, <2>1, <2>2, <2>3, TypeParts, TypeStutter, HasherStutter DEF OnRestartZMQ, PartsOK
  <1>10. CASE OnStop
    <2>1. RpcOK'
      BY <1>0, <1>p, <1>10
         DEF OnStop, PartsOK, RpcOK, rpcVars
    <2>2. AsyncOK'
      BY <1>p, <1>10
         DEF OnStop, PartsOK, AsyncOK
    <2>3. LifeOK'
      BY <1>p, <1>10
         DEF OnStop, PartsOK, LifeOK, lifeVars
    <2>4. SubmitOK'
      BY <1>0, <1>p, <1>10
         DEF OnStop, PartsOK, SubmitOK, submitVars
    <2> QED
      BY <1>10, <2>1, <2>2, <2>3, <2>4, TypeParts, TypeStutter, HasherStutter DEF OnStop, PartsOK
  <1>11. CASE CheckZMQ
    <2>1. AsyncOK'
      BY <1>p, <1>11
         DEF CheckZMQ, PartsOK, AsyncOK
    <2> QED
      BY <1>11, <2>1, TypeParts, TypeStutter, HasherStutter DEF CheckZMQ, PartsOK
  <1>12. CASE Stop
    <2>1. EnvOK'
      BY <1>0, <1>p, <1>12
         DEF Stop, PartsOK, EnvOK, Events
    <2>2. AsyncOK'
      BY <1>p, <1>12
         DEF Stop, PartsOK, AsyncOK
    <2>3. LifeOK'
      BY <1>p, <1>12
         DEF Stop, PartsOK, LifeOK, lifeVars
    <2> QED
      BY <1>12, <2>1, <2>2, <2>3, TypeParts, TypeStutter, HasherStutter DEF Stop, PartsOK
  <1>13. ASSUME NEW r \in rpc, AnswerStartup(r) PROVE TypeOK' /\ HasherInv'
    <2>1. RpcOK'
      BY <1>0, <1>p, <1>13
         DEF AnswerStartup, NextRequest, Call, Request, Kinds, GetMinerData, PartsOK, RpcOK,
             rpcVars
    <2> QED
      BY <1>13, <2>1, TypeParts, TypeStutter, HasherStutter DEF AnswerStartup, PartsOK
  <1>14. ASSUME NEW r \in rpc, AnswerRange(r) PROVE TypeOK' /\ HasherInv'
    <2>1. RpcOK'
      BY <1>0, <1>p, <1>14
         DEF AnswerRange, PartsOK, RpcOK, rpcVars
    <2>2. ChainOK'
      BY <1>0, <1>p, <1>14
         DEF AnswerRange, Known, Learn, PartsOK, ChainOK, chainVars
    <2>3. ZmqOK'
      BY <1>0, <1>p, <1>14
         DEF AnswerRange, PartsOK, ZmqOK, zmqVars
    <2>4. LifeOK'
      BY <1>p, <1>14
         DEF AnswerRange, PartsOK, LifeOK, lifeVars
    <2> QED
      BY <1>14, <2>1, <2>2, <2>3, <2>4, TypeParts, TypeStutter, HasherStutter
         DEF AnswerRange, PartsOK
  <1>15. ASSUME NEW r \in rpc, AnswerHeader(r) PROVE TypeOK' /\ HasherInv'
    <2>1. RpcOK'
      BY <1>0, <1>p, <1>15
         DEF AnswerHeader, PartsOK, RpcOK, rpcVars
    <2>2. ChainOK'
      BY <1>0, <1>p, <1>15
         DEF AnswerHeader, Known, Learn, PartsOK, ChainOK, chainVars
    <2>3. ThreadsOK'
      BY <1>0, <1>p, <1>15
         DEF AnswerHeader, AfterSeed, Idle, Labels, ThreadName, PartsOK, RpcOK, ThreadsOK
    <2> QED
      BY <1>15, <2>1, <2>2, <2>3, TypeParts, TypeStutter, HasherStutter DEF AnswerHeader, PartsOK
  <1>16. ASSUME NEW r \in rpc, FailRequest(r) PROVE TypeOK' /\ HasherInv'
    <2>1. EnvOK'
      BY <1>0, <1>p, <1>16
         DEF FailRequest, PartsOK, EnvOK, Events
    <2>2. RpcOK'
      BY <1>0, <1>p, <1>16
         DEF FailRequest, Call, Request, Kinds, PartsOK, RpcOK, rpcVars
    <2>3. LifeOK'
      BY <1>p, <1>16
         DEF FailRequest, PartsOK, LifeOK, lifeVars
    <2> QED
      BY <1>16, <2>1, <2>2, <2>3, TypeParts, TypeStutter, HasherStutter DEF FailRequest, PartsOK
  <1>17. ASSUME NEW f \in Finder, FindBlock(f) PROVE TypeOK' /\ HasherInv'
    <2>1. EnvOK'
      BY <1>0, <1>p, <1>17, CoreAssumption
         DEF FindBlock, PartsOK, EnvOK, Events
    <2>2. SubmitOK'
      BY <1>0, <1>p, <1>17, CoreAssumption
         DEF FindBlock, PartsOK, TemplateOK, SubmitOK, submitVars
    <2> QED
      BY <1>17, <2>1, <2>2, TypeParts, TypeStutter, HasherStutter DEF FindBlock, PartsOK
  <1>18. ASSUME NEW f \in Finder, SubmitOrTell(f) PROVE TypeOK' /\ HasherInv'
    <2>1. SubmitOK'
      BY <1>0, <1>p, <1>18
         DEF SubmitOrTell, SubmitBlock, SlotInv, PartsOK, SubmitOK, submitVars
    <2> QED
      BY <1>18, <2>1, TypeParts, TypeStutter, HasherStutter DEF SubmitOrTell, PartsOK
  <1>19. ASSUME NEW f \in Finder, TellMain(f) PROVE TypeOK' /\ HasherInv'
    <2>1. AsyncOK'
      BY <1>p, <1>19
         DEF TellMain, PartsOK, AsyncOK
    <2>2. SubmitOK'
      BY <1>0, <1>p, <1>19
         DEF TellMain, PartsOK, SubmitOK, submitVars
    <2> QED
      BY <1>19, <2>1, <2>2, TypeParts, TypeStutter, HasherStutter DEF TellMain, PartsOK
  <1>20. CASE ZMQReceive
    <2>1. Head(zmq) \in [kind : {"data", "main"}, from : Heights, to : Heights]
          /\ Tail(zmq) \in Seq([kind : {"data", "main"}, from : Heights, to : Heights])
      <3> DEFINE M == [kind : {"data", "main"}, from : Heights, to : Heights]
      <3>1. zmq \in Seq(M) /\ zmq # <<>>
        BY <1>p, <1>20 DEF ZMQReceive, PartsOK, ZmqOK
      <3> HIDE DEF M
      <3>2. Head(zmq) \in M /\ Tail(zmq) \in Seq(M)
        BY ONLY <3>1, HeadTailProperties
      <3> QED
        BY <3>2 DEF M
    <2>2. Head(zmq).to \in Heights
      BY ONLY <2>1
    <2>3. ChainOK'
      BY <1>p, <1>20, <2>2
         DEF ZMQReceive, StoreMinerData, StoreMainchain, HandleChainMain, Known, PartsOK, ChainOK
    <2>4. ThreadsOK'
      <3> DEFINE P == [at : Labels, h : Heights, data : Heights]
                 new == [at |-> "stored", h |-> Head(zmq).to, data |-> 0]
      <3>1. pc \in [ThreadName -> P]
        BY <1>p DEF PartsOK, ThreadsOK
      <3>2. new \in P
        BY ONLY <1>0, <2>2 DEF Labels
      <3>3. pc' = [pc EXCEPT !["zmq"] = new] \/ pc' = pc
        BY <1>20 DEF ZMQReceive, StoreMinerData
      <3> HIDE DEF P, new
      <3>4. pc' \in [ThreadName -> P]
        BY ONLY <3>1, <3>2, <3>3
      <3> QED
        BY <3>4 DEF P, ThreadsOK
    <2>5. ZmqOK'
      BY <1>p, <1>20, <2>1 DEF ZMQReceive, PartsOK, ZmqOK
    <2> QED
      BY <1>20, <2>3, <2>4, <2>5, TypeParts, TypeStutter, HasherStutter DEF ZMQReceive, PartsOK
  <1>21. CASE FinishZMQ
    <2>1. pc["zmq"].h \in Heights
      BY <1>p DEF PartsOK, ThreadsOK, ThreadName
    <2>2. MissingHeaders(pc["zmq"].h) \subseteq [kind : Kinds, h : Heights]
      BY <2>1, SeedHeight
    <2>3. RpcOK'
      BY <1>p, <1>21, <2>2 DEF FinishZMQ, Call, PartsOK, RpcOK
    <2>4. ZmqOK' /\ ChainOK'
      BY <1>p, <1>21 DEF FinishZMQ, PartsOK, ZmqOK, ChainOK
    <2>5. ThreadsOK' /\ AsyncOK'
      BY <1>0, <1>p, <1>21 DEF FinishZMQ, AfterStore, Idle, Labels, PartsOK, ThreadsOK, AsyncOK
    <2> QED
      BY <1>21, <2>3, <2>4, <2>5, TypeParts, TypeStutter, HasherStutter DEF FinishZMQ, PartsOK
  <1>22. ASSUME NEW r \in rpc, AnswerMinerDataRpc(r) PROVE TypeOK' /\ HasherInv'
    <2>1. r.h \in Heights
      BY <1>p DEF PartsOK, RpcOK
    <2>2. ChainOK'
      BY <1>p, <1>22, <2>1
         DEF AnswerMinerDataRpc, StoreMinerData, StoreMainchain, Known, PartsOK, ChainOK
    <2>3. RpcOK' /\ ThreadsOK'
      BY <1>0, <1>p, <1>22, <2>1
         DEF AnswerMinerDataRpc, StoreMinerData, ThreadName, Labels, PartsOK, RpcOK, ThreadsOK
    <2> QED
      BY <1>22, <2>2, <2>3, TypeParts, TypeStutter, HasherStutter DEF AnswerMinerDataRpc, PartsOK
  <1>23. CASE UpdateBlockTemplate
    <2> DEFINE S == {NoSeed} \cup Heights
    <2>1. pc["main"].h \in Heights /\ pc["main"].data \in Heights
      BY <1>p DEF PartsOK, ThreadsOK, ThreadName
    <2>2. RpcOK'
      BY <1>p, <1>23, <2>1, SeedHeight DEF UpdateBlockTemplate, Call, PartsOK, RpcOK
    <2>3. get_seed_height(pc["main"].data) \in S
      BY <2>1, SeedHeight
    <2>4. queue \in Seq(S)
      BY <1>p DEF PartsOK, HasherTypeOK
    <2>5. queue' \in Seq(S)
      <3>1. queue' \in {queue, Append(queue, get_seed_height(pc["main"].data))}
        BY <1>23, Zenon DEF UpdateBlockTemplate, SetSeedAsync
      <3>2. Append(queue, get_seed_height(pc["main"].data)) \in Seq(S)
        BY ONLY <2>3, <2>4, AppendProperties
      <3> QED
        BY ONLY <2>4, <3>1, <3>2
    <2>6. HasherTypeOK(S)' /\ HasherInv'
      BY <1>p, <1>23, <2>5 DEF UpdateBlockTemplate, PartsOK, HasherTypeOK, HasherInv
    <2>7. ThreadsOK' /\ ChainOK'
      BY <1>0, <1>p, <1>23
         DEF UpdateBlockTemplate, Idle, Labels, PartsOK, ThreadsOK, ChainOK
    <2>8. TemplateOK'
      BY <1>p, <1>23, <2>1, CoreAssumption DEF UpdateBlockTemplate, PartsOK, TemplateOK
    <2>9. SubmitOK'
      BY <1>p, <1>23, CoreAssumption DEF UpdateBlockTemplate, InRing, PartsOK, SubmitOK
    <2>10. silent' \in BOOLEAN /\ UNCHANGED <<reader, zmq>>
      BY <1>23, Zenon DEF UpdateBlockTemplate
    <2>11. ZmqOK'
      BY <1>p, <2>10 DEF PartsOK, ZmqOK
    <2> QED
      BY <1>23, <2>2, <2>6, <2>7, <2>8, <2>9, <2>11, TypeParts, TypeStutter
         DEF UpdateBlockTemplate, PartsOK
  <1>24. CASE SetOldSeedOnMain
    <2>1. pc["main"].h \in Heights
      BY <1>p DEF PartsOK, ThreadsOK, ThreadName
    <2>2. HasherTypeOK({NoSeed} \cup Heights)' /\ HasherInv'
      BY <1>24, <2>1, HasherSetOldSeed DEF SetOldSeedOnMain
    <2>3. ThreadsOK'
      BY <1>0, <1>p, <1>24 DEF SetOldSeedOnMain, Idle, Labels, PartsOK, ThreadsOK
    <2> QED
      BY <1>24, <2>2, <2>3, TypeParts, TypeStutter DEF SetOldSeedOnMain, PartsOK
  <1>25. ASSUME NEW w \in Worker, PoolStep(w) PROVE TypeOK' /\ HasherInv'
    BY <1>25, PoolStepTypes, TypeParts, TypeStutter DEF PoolStep, coreVars, PartsOK
  <1>26. CASE NewTip
    <2>1. EnvOK'
      BY <1>0, <1>p, <1>26
         DEF NewTip, PartsOK, EnvOK, Events
    <2>2. AsyncOK'
      BY <1>p, <1>26
         DEF NewTip, AfterStore, PartsOK, AsyncOK
    <2> QED
      BY <1>26, <2>1, <2>2, TypeParts, TypeStutter, HasherStutter DEF NewTip, PartsOK
  <1>27. CASE StartCalls
    <2>1. RpcOK'
      BY <1>0, <1>p, <1>27
         DEF StartCalls, PartsOK, RpcOK, rpcVars
    <2>2. SubmitOK'
      BY <1>0, <1>p, <1>27
         DEF StartCalls, PartsOK, SubmitOK, submitVars
    <2> QED
      BY <1>27, <2>1, <2>2, TypeParts, TypeStutter, HasherStutter DEF StartCalls, PartsOK
  <1>28. ASSUME NEW r \in rpc, SkipMinerData(r) PROVE TypeOK' /\ HasherInv'
    <2>1. EnvOK'
      BY <1>0, <1>p, <1>28
         DEF SkipMinerData, PartsOK, EnvOK, Events
    <2>2. RpcOK'
      BY <1>0, <1>p, <1>28
         DEF SkipMinerData, PartsOK, RpcOK, rpcVars
    <2> QED
      BY <1>28, <2>1, <2>2, TypeParts, TypeStutter, HasherStutter DEF SkipMinerData, PartsOK
  <1>29. CASE ZMQTx
    <2>1. ZmqOK'
      BY <1>0, <1>p, <1>29
         DEF ZMQTx, PartsOK, ZmqOK, zmqVars
    <2> QED
      BY <1>29, <2>1, TypeParts, TypeStutter, HasherStutter DEF ZMQTx, PartsOK
  <1>30. CASE Silence
    <2>1. ZmqOK'
      BY <1>0, <1>p, <1>30
         DEF Silence, PartsOK, ZmqOK, zmqVars
    <2> QED
      BY <1>30, <2>1, TypeParts, TypeStutter, HasherStutter DEF Silence, PartsOK
  <1> QED
    BY <1>1, <1>2, <1>3, <1>4, <1>5, <1>6, <1>7, <1>8, <1>9, <1>10, <1>11, <1>12, <1>13, <1>14,
       <1>15, <1>16, <1>17, <1>18, <1>19, <1>20, <1>21, <1>22, <1>23, <1>24, <1>25, <1>26,
       <1>27, <1>28, <1>29, <1>30
       DEF Next, MainLoop, ZMQThread, Answer, FinderStep

-----------------------------------------------------------------------------
(* The template, the slot and the shutdown                                  *)

\* Steps that do not touch what the three invariants speak of
LEMMA LoopStutter ==
    ASSUME StopInv, TemplateInv, SlotInv,
           UNCHANGED <<minerData, template, pc, async, slot, finder, age, submitting, submitted,
                       stopped, closed, alive>>
    PROVE  StopInv' /\ TemplateInv' /\ SlotInv'
  BY DEF StopInv, TemplateInv, UpdateComes, SlotInv, InRing

LEMMA LoopStep ==
    ASSUME TypeOK, StopInv, TemplateInv, SlotInv, Next
    PROVE  StopInv' /\ TemplateInv' /\ SlotInv'
  <1>1. ASSUME NEW k \in 1 .. MaxBatch, NewBlocks(k) PROVE StopInv' /\ TemplateInv' /\ SlotInv'
    BY <1>1, LoopStutter DEF NewBlocks, chainVars, templateVars, submitVars, lifeVars
  <1>2. CASE AnswerMinerData
    BY <1>2, LoopStutter DEF AnswerMinerData, chainVars, templateVars, submitVars, lifeVars
  <1>3. CASE ZMQConnected
    BY <1>3, LoopStutter DEF ZMQConnected, chainVars, templateVars, submitVars, lifeVars
  <1>4. CASE ZMQReceive
    BY <1>4
       DEF ZMQReceive, StoreMinerData, At, StopInv, TemplateInv, UpdateComes, SlotInv, InRing,
           TypeOK,
           ThreadName, Labels, chainVars, templateVars, submitVars, lifeVars
  <1>5. CASE FinishZMQ
    BY <1>5
       DEF FinishZMQ, AfterStore, At, Idle, StopInv, TemplateInv, UpdateComes, SlotInv, InRing,
           TypeOK,
           ThreadName, Labels, chainVars, templateVars, submitVars, lifeVars
  <1>6. CASE StartUpdateOnMain
    BY <1>6
       DEF StartUpdateOnMain, At, StopInv, TemplateInv, UpdateComes, SlotInv, InRing, TypeOK,
           ThreadName,
           Labels, chainVars, templateVars, submitVars, lifeVars
  <1>7. CASE UpdateBlockTemplate
    BY <1>7
       DEF UpdateBlockTemplate, At, Idle, StopInv, TemplateInv, UpdateComes, SlotInv, InRing,
           TypeOK,
           ThreadName, Labels, chainVars, templateVars, submitVars, lifeVars
  <1>8. CASE SetOldSeedOnMain
    BY <1>8
       DEF SetOldSeedOnMain, At, Idle, StopInv, TemplateInv, UpdateComes, SlotInv, InRing, TypeOK,
           ThreadName, Labels, chainVars, templateVars, submitVars, lifeVars
  <1>9. CASE JoinZMQ
    BY <1>9
       DEF JoinZMQ, At, Idle, StopInv, TemplateInv, UpdateComes, SlotInv, InRing, TypeOK,
           ThreadName,
           Labels, chainVars, templateVars, submitVars, lifeVars
  <1>10. CASE Exit
    BY <1>10
       DEF Exit, At, Goto, StopInv, TemplateInv, UpdateComes, SlotInv, InRing, TypeOK, ThreadName,
           Labels,
           chainVars, templateVars, submitVars, lifeVars
  <1>11. CASE OnUpdateBlockTemplate
    BY <1>11
       DEF OnUpdateBlockTemplate, At, StopInv, TemplateInv, UpdateComes, SlotInv, InRing, TypeOK,
           ThreadName, Labels, chainVars, templateVars, submitVars, lifeVars
  <1>12. CASE OnSubmitBlock
    BY <1>12
       DEF OnSubmitBlock, SubmitBlock, At, StopInv, TemplateInv, UpdateComes, SlotInv, InRing,
           TypeOK, ThreadName,
           Labels, chainVars, templateVars, submitVars, lifeVars
  <1>13. CASE OnRestartZMQ
    <2>1. async' = async \ {"zmq"} /\ pc["main"].at = "idle" /\ pc'["zmq"] = pc["zmq"]
          /\ pc'["main"].at \in {"idle", "join"}
      BY <1>13 DEF OnRestartZMQ, At, Goto, TypeOK, ThreadName
    <2>2. UNCHANGED <<minerData, template, slot, finder, age, submitting, submitted, stopped,
                      closed, alive>>
      BY <1>13 DEF OnRestartZMQ, chainVars, templateVars, submitVars, lifeVars
    <2>3. StopInv'
      BY <2>1, <2>2 DEF StopInv
    <2>4. TemplateInv'
      BY <2>1, <2>2 DEF TemplateInv, UpdateComes
    <2>5. SlotInv'
      BY <2>1, <2>2 DEF SlotInv, InRing
    <2> QED
      BY <2>3, <2>4, <2>5
  <1>14. CASE OnStop
    BY <1>14
       DEF OnStop, At, StopInv, TemplateInv, UpdateComes, SlotInv, InRing, TypeOK, ThreadName,
           Labels,
           chainVars, templateVars, submitVars, lifeVars
  <1>15. ASSUME NEW r \in rpc, AnswerStartup(r) PROVE StopInv' /\ TemplateInv' /\ SlotInv'
    BY <1>15, LoopStutter DEF AnswerStartup, chainVars, templateVars, submitVars, lifeVars
  <1>16. ASSUME NEW r \in rpc, AnswerMinerDataRpc(r) PROVE StopInv' /\ TemplateInv' /\ SlotInv'
    BY <1>16
       DEF AnswerMinerDataRpc, Answered, StoreMinerData, At, StopInv, TemplateInv, UpdateComes,
           InRing, SlotInv, TypeOK, ThreadName, Labels, chainVars, templateVars, submitVars,
           lifeVars
  <1>17. ASSUME NEW r \in rpc, AnswerHeader(r) PROVE StopInv' /\ TemplateInv' /\ SlotInv'
    BY <1>17
       DEF AnswerHeader, Answered, AfterSeed, Idle, At, StopInv, TemplateInv, UpdateComes, InRing,
           SlotInv, TypeOK, ThreadName, Labels, chainVars, templateVars, submitVars, lifeVars
  <1>18. ASSUME NEW r \in rpc, AnswerRange(r) PROVE StopInv' /\ TemplateInv' /\ SlotInv'
    BY <1>18, LoopStutter DEF AnswerRange, chainVars, templateVars, submitVars, lifeVars
  <1>19. ASSUME NEW r \in rpc, FailRequest(r) PROVE StopInv' /\ TemplateInv' /\ SlotInv'
    BY <1>19
       DEF FailRequest, Answered, At, StopInv, TemplateInv, UpdateComes, SlotInv, InRing, TypeOK,
           ThreadName, Labels, chainVars, templateVars, submitVars, lifeVars
  <1>20. CASE CheckZMQ
    BY <1>20
       DEF CheckZMQ, StopInv, TemplateInv, UpdateComes, SlotInv, InRing, TypeOK, ThreadName,
           Labels,
           chainVars, templateVars, submitVars, lifeVars
  <1>21. ASSUME NEW f \in Finder, FindBlock(f) PROVE StopInv' /\ TemplateInv' /\ SlotInv'
    BY <1>21
       DEF FindBlock, StopInv, TemplateInv, UpdateComes, SlotInv, InRing, TypeOK, ThreadName,
           Labels,
           chainVars, templateVars, submitVars, lifeVars
  <1>22. ASSUME NEW f \in Finder, SubmitOrTell(f) PROVE StopInv' /\ TemplateInv' /\ SlotInv'
    BY <1>22
       DEF SubmitOrTell, SubmitBlock, StopInv, TemplateInv, UpdateComes, SlotInv, InRing, TypeOK,
           ThreadName, Labels,
           chainVars, templateVars, submitVars, lifeVars
  <1>23. ASSUME NEW f \in Finder, TellMain(f) PROVE StopInv' /\ TemplateInv' /\ SlotInv'
    BY <1>23
       DEF TellMain, StopInv, TemplateInv, UpdateComes, SlotInv, InRing, TypeOK, ThreadName,
           Labels,
           chainVars, templateVars, submitVars, lifeVars
  <1>24. CASE Stop
    BY <1>24
       DEF Stop, StopInv, TemplateInv, UpdateComes, SlotInv, InRing, TypeOK, ThreadName, Labels,
           chainVars, templateVars, submitVars, lifeVars
  <1>25. ASSUME NEW w \in Worker, PoolStep(w) PROVE StopInv' /\ TemplateInv' /\ SlotInv'
    BY <1>25, LoopStutter DEF PoolStep, coreVars, chainVars, templateVars, submitVars, lifeVars
  <1>26. CASE NewTip
    BY <1>26
       DEF NewTip, AfterStore, StopInv, TemplateInv, UpdateComes, SlotInv, InRing, chainVars,
           templateVars, submitVars, lifeVars
  <1>27. CASE StartCalls
    BY <1>27
       DEF StartCalls, StopInv, TemplateInv, UpdateComes, SlotInv, InRing, chainVars, templateVars,
           lifeVars
  <1>28. ASSUME NEW r \in rpc, SkipMinerData(r) PROVE StopInv' /\ TemplateInv' /\ SlotInv'
    BY <1>28, LoopStutter DEF SkipMinerData, chainVars, templateVars, submitVars, lifeVars
  <1>29. CASE ZMQTx
    BY <1>29, LoopStutter DEF ZMQTx, chainVars, templateVars, submitVars, lifeVars
  <1>30. CASE Silence
    BY <1>30, LoopStutter DEF Silence, chainVars, templateVars, submitVars, lifeVars
  <1> QED
    BY <1>1, <1>2, <1>3, <1>4, <1>5, <1>6, <1>7, <1>8, <1>9, <1>10, <1>11, <1>12, <1>13, <1>14,
       <1>15, <1>16, <1>17, <1>18, <1>19, <1>20, <1>21, <1>22, <1>23, <1>24, <1>25,
       <1>26, <1>27, <1>28, <1>29, <1>30
       DEF Next, MainLoop, ZMQThread, Answer, FinderStep

-----------------------------------------------------------------------------
(* Theorems                                                                *)

CoreInv == TypeOK /\ HasherInv /\ StopInv /\ TemplateInv /\ SlotInv

LEMMA CoreInvariant == Spec => []CoreInv
  <1>1. Init => CoreInv
    BY TypeInit DEF CoreInv
  <1>2. CoreInv /\ [Next]_vars => CoreInv'
    <2> SUFFICES ASSUME CoreInv, [Next]_vars PROVE CoreInv'
      OBVIOUS
    <2>1. CASE Next
      BY <2>1, TypeStep, LoopStep DEF CoreInv
    <2>2. CASE UNCHANGED vars
      <3>1. UNCHANGED hasherVars /\ UNCHANGED coreVars
        BY <2>2 DEF vars
      <3>2. HasherTypeOK({NoSeed} \cup Heights)' /\ HasherInv'
        BY <3>1, HasherStutter DEF CoreInv
      <3>3. StopInv' /\ TemplateInv' /\ SlotInv'
        BY <3>1, LoopStutter DEF CoreInv, coreVars, chainVars, templateVars, submitVars, lifeVars
      <3>4. TypeOK'
        BY <3>1, <3>2
           DEF CoreInv, coreVars, TypeOK, rpcVars, zmqVars, chainVars, templateVars, submitVars,
               lifeVars
      <3> QED
        BY <3>2, <3>3, <3>4 DEF CoreInv
    <2> QED
      BY <2>1, <2>2
  <1> QED
    BY <1>1, <1>2, PTL DEF Spec

\* Whatever monerod, the threads and the environment do, the state stays well typed:
\* no request, message or height leaves its range, and only found blocks are submitted.
THEOREM CoreTypes == Spec => []TypeOK
  <1>1. CoreInv => TypeOK
    BY DEF CoreInv
  <1> QED
    BY <1>1, CoreInvariant, PTL

\* calculate() of RandomX_Hasher never hashes with the dataset or the cache of another
\* seed, for any number of pool threads in set_seed and with or without a dataset.
THEOREM HashesWithTheRightSeed == Spec => []HashIsOfItsSeed
  <1>1. CoreInv => HashIsOfItsSeed
    <2> SUFFICES ASSUME CoreInv, NEW s \in {seed[0], seed[1], dataset} \ {NoSeed}
                 PROVE  CalculateWith(s) \in {s, NoSeed}
      BY DEF HashIsOfItsSeed
    <2>1. HasherTypeOK({NoSeed} \cup Heights) /\ HasherInv
      BY DEF CoreInv, TypeOK
    <2>2. index \in 0 .. 1 /\ \A i \in 0 .. 1 : i # index => i = Other01(index)
      BY <2>1 DEF HasherTypeOK, Other01
    <2>3. CASE DatasetReady(s)
      BY <2>1, <2>3 DEF DatasetReady, HasherInv, CalculateWith
    <2>4. CASE ~DatasetReady(s)
      BY <2>1, <2>2, <2>4 DEF HasherInv, CalculateWith
    <2> QED
      BY <2>3, <2>4
  <1> QED
    BY <1>1, CoreInvariant, PTL

\* update_block_template_async merges calls, and two threads deliver miner data: when
\* nothing is in progress the template is all the same that of the latest miner data.
THEOREM NoMinerDataIsLost == Spec => []TemplateFollowsMinerData
  <1>1. CoreInv => TemplateFollowsMinerData
    <2> SUFFICES ASSUME CoreInv, AtRest PROVE template = minerData
      BY DEF TemplateFollowsMinerData
    <2>1. pc["main"].at = "idle" /\ pc["zmq"].at = "idle"
      BY DEF AtRest, Idle, ThreadName
    <2> QED
      BY <2>1 DEF CoreInv, TemplateInv, UpdateComes, AtRest
  <1> QED
    BY <1>1, CoreInvariant, PTL

\* submit_block_async keeps one block for main: when main has nothing left to do, the
\* block that was found last has gone to monerod, whatever the finders' interleaving,
\* unless the template it was found on has left the ring of old templates meanwhile.
THEOREM FoundBlocksAreSubmitted == Spec => []LastFoundBlockIsSubmitted
  <1>1. CoreInv => LastFoundBlockIsSubmitted
    BY DEF CoreInv, SlotInv, LastFoundBlockIsSubmitted
  <1> QED
    BY <1>1, CoreInvariant, PTL
=============================================================================
