------------------------- MODULE OutputsBlobProofs -------------------------
(***************************************************************************)
(* What OutputsBlob promises for any pool, any number of helper jobs and   *)
(* any number of outputs: no helper job outlives the call, and the loop    *)
(* thread finds every output above its own computed when it stops them.    *)
(***************************************************************************)
EXTENDS OutputsBlob, FiniteSetTheorems, TLAPS

Work == Block \cup Helper
Places == {Idle, "filter", "missing", "add", "fetch", "finish"}

Holds(q, x) == \E k \in 1 .. Len(q) : q[k] = x
NoHelperTwice(q) == \A j, k \in 1 .. Len(q) : q[j] \in Helper /\ q[j] = q[k] => j = k
InQueue(x) == Holds(queue, x)
IsRunning(x) == \E t \in Thread : running[t] = x

\* Helper jobs that were queued and have not finished
Pending == {h \in Helper : InQueue(h) \/ IsRunning(h)}

\* A thread is where the work it runs can be
StepsOK ==
    \A t \in Thread :
      /\ running[t] \in Helper <=> at[t] \in {"fetch", "finish"}
      /\ running[t] = Idle <=> at[t] = Idle

\* A helper job is to be queued, queued or running, and only one of them
OneHelperOnePlace ==
    /\ \A h \in toQueue : ~InQueue(h) /\ ~IsRunning(h)
    /\ NoHelperTwice(queue)
    /\ \A t, u \in Thread : running[t] \in Helper /\ running[t] = running[u] => t = u
    /\ \A t \in Thread : running[t] \in Helper => ~InQueue(running[t])

\* num_helper_jobs_started counts the jobs that finished and those that have not
StartedIsCounted == started = finished + Cardinality(Pending)

\* There are helper jobs only between the first uv_queue_work and the return
PendingOnlyDuringCall == pc \in {"idle", "returned"} => Pending = {}

HelperInv == StepsOK /\ OneHelperOnePlace /\ StartedIsCounted /\ PendingOnlyDuringCall

\* The helpers took every output above their counter, until it was set to -1; what the
\* loop thread has seen of it stays true until it acts on it
TakenFromTheEnd ==
    /\ pc \in {"queue", "load", "produce", "wait"} /\ ~stopped =>
         \A k \in 0 .. Outputs - 1 : k > counter => k \in taken
    /\ pc = "produce" => i < Outputs
    /\ pc = "produce" /\ meets => \A k \in i + 1 .. Outputs - 1 : k \in taken
    /\ counter < Outputs /\ (stopped => counter < 0)
    /\ pc = "idle" => ~stopped

CacheInv == TakenFromTheEnd /\ CachedWhenTheyMeet

-----------------------------------------------------------------------------
(* Types                                                                   *)

LEMMA TypeInit == Init => TypeOK
  <1> SUFFICES ASSUME Init PROVE TypeOK
    OBVIOUS
  <1> USE ConstantsAssumption DEF Init
  <1>1. queue \in Seq(Block \cup Helper) /\ received \subseteq Block /\ toQueue \subseteq Helper
    OBVIOUS
  <1>2. /\ running \in [Thread -> Block \cup Helper \cup {Idle}]
        /\ at \in [Thread -> {Idle, "filter", "missing", "add", "fetch", "finish"}]
    OBVIOUS
  <1>3. meets \in BOOLEAN /\ reading \in BOOLEAN /\ stopped \in BOOLEAN
    BY Zenon
  <1> QED
    BY <1>1, <1>2, <1>3 DEF TypeOK

LEMMA TypeStep ==
    ASSUME TypeOK, [Next]_vars, StepsOK, TakenFromTheEnd
    PROVE  TypeOK'
  <1> USE ConstantsAssumption DEF TypeOK, poolVars, callVars, sharedVars
  <1>1. ASSUME NEW b \in Block, ReceiveBlock(b) PROVE TypeOK'
    BY <1>1 DEF ReceiveBlock
  <1>2. CASE EnterCall
    BY <1>2 DEF EnterCall, LastOutput
  <1>3. CASE ReturnEarly
    BY <1>3 DEF ReturnEarly
  <1>4. ASSUME NEW h \in Helper, QueueHelper(h) PROVE TypeOK'
    BY <1>4 DEF QueueHelper
  <1>5. CASE AllQueued
    BY <1>5 DEF AllQueued
  <1>6. CASE LoadCounter
    BY <1>6 DEF LoadCounter, Meets
  <1>7. CASE ProduceOutput
    BY <1>7 DEF ProduceOutput, TakenFromTheEnd
  <1>8. CASE StopHelpers
    BY <1>8 DEF StopHelpers
  <1>9. CASE Return
    BY <1>9 DEF Return
  <1>10. ASSUME NEW t \in Thread, TakeWork(t) PROVE TypeOK'
    BY <1>10 DEF TakeWork
  <1>11. ASSUME NEW t \in Thread, FilterAndHash(t) \/ CollectMissing(t) \/ AddBlock(t)
         PROVE  TypeOK'
    BY <1>11 DEF FilterAndHash, CollectMissing, AddBlock, GoTo, Done
  <1>12. ASSUME NEW t \in Thread, FetchOutput(t) PROVE TypeOK'
    <2>1. counter < Outputs
      BY DEF TakenFromTheEnd
    <2>2. (counter \in 0 .. Outputs - 1 /\ taken' = taken \cup {counter}) \/ taken' = taken
      BY <1>12, <2>1 DEF FetchOutput
    <2>3. taken \subseteq 0 .. Outputs - 1
      OBVIOUS
    <2>4. taken' \subseteq 0 .. Outputs - 1
      BY ONLY <2>2, <2>3
    <2> QED
      BY <1>12, <2>4 DEF FetchOutput
  <1>13. ASSUME NEW t \in Thread, FinishHelper(t) PROVE TypeOK'
    BY <1>13 DEF FinishHelper, Done
  <1>14. CASE UNCHANGED vars
    BY <1>14 DEF vars
  <1> QED
    BY <1>1, <1>2, <1>3, <1>4, <1>5, <1>6, <1>7, <1>8, <1>9, <1>10, <1>11, <1>12, <1>13, <1>14
       DEF Next, LoopThread, PoolThread

-----------------------------------------------------------------------------
(* No helper job outlives the call                                         *)

LEMMA AppendHolds ==
    ASSUME NEW q \in Seq(Work), NEW e \in Work
    PROVE  /\ \A x : Holds(Append(q, e), x) <=> Holds(q, x) \/ x = e
           /\ NoHelperTwice(q) /\ (e \in Helper => ~Holds(q, e)) => NoHelperTwice(Append(q, e))
  <1>1. /\ Len(Append(q, e)) = Len(q) + 1 /\ Len(q) \in Nat
        /\ Append(q, e)[Len(q) + 1] = e
        /\ \A k \in 1 .. Len(q) : Append(q, e)[k] = q[k]
    OBVIOUS
  <1>2. \A k : k \in 1 .. Len(q) + 1 <=> k \in 1 .. Len(q) \/ k = Len(q) + 1
    BY <1>1
  <1>3. \A x : Holds(Append(q, e), x) <=> Holds(q, x) \/ x = e
    BY <1>1, <1>2 DEF Holds
  <1>4. ASSUME NoHelperTwice(q), e \in Helper => ~Holds(q, e) PROVE NoHelperTwice(Append(q, e))
    BY <1>1, <1>2, <1>4 DEF Holds, NoHelperTwice
  <1> QED
    BY <1>3, <1>4

LEMMA TailHolds ==
    ASSUME NEW q \in Seq(Work), q # <<>>
    PROVE  /\ \A x : Holds(q, x) <=> Holds(Tail(q), x) \/ x = Head(q)
           /\ NoHelperTwice(q) => /\ NoHelperTwice(Tail(q))
                                  /\ Head(q) \in Helper => ~Holds(Tail(q), Head(q))
  <1>1. /\ Len(q) \in Nat \ {0} /\ Len(Tail(q)) = Len(q) - 1 /\ Head(q) = q[1]
        /\ \A k \in 1 .. Len(q) - 1 : Tail(q)[k] = q[k + 1]
    OBVIOUS
  <1>2. /\ \A k \in 1 .. Len(q) - 1 : k + 1 \in 1 .. Len(q)
        /\ \A k \in 1 .. Len(q) : k = 1 \/ (k - 1 \in 1 .. Len(q) - 1 /\ (k - 1) + 1 = k)
        /\ 1 \in 1 .. Len(q)
    BY <1>1
  <1>3. ASSUME NEW x PROVE Holds(q, x) <=> Holds(Tail(q), x) \/ x = Head(q)
    <2>1. ASSUME Holds(q, x), x # Head(q) PROVE Holds(Tail(q), x)
      <3>1. PICK k \in 1 .. Len(q) : q[k] = x
        BY <2>1 DEF Holds
      <3>2. k - 1 \in 1 .. Len(Tail(q)) /\ Tail(q)[k - 1] = x
        BY <1>1, <1>2, <2>1, <3>1
      <3> QED
        BY <3>2 DEF Holds
    <2>2. ASSUME Holds(Tail(q), x) \/ x = Head(q) PROVE Holds(q, x)
      BY <1>1, <1>2, <2>2 DEF Holds
    <2> QED
      BY <2>1, <2>2
  <1>4. ASSUME NoHelperTwice(q) PROVE NoHelperTwice(Tail(q))
    <2>1. ASSUME NEW j \in 1 .. Len(Tail(q)), NEW k \in 1 .. Len(Tail(q)),
                 Tail(q)[j] \in Helper, Tail(q)[j] = Tail(q)[k]
          PROVE  j = k
      <3>1. j + 1 \in 1 .. Len(q) /\ k + 1 \in 1 .. Len(q) /\ q[j + 1] \in Helper /\ q[j + 1] = q[k + 1]
        BY <1>1, <1>2, <2>1
      <3>2. j + 1 = k + 1
        BY <1>4, <3>1 DEF NoHelperTwice
      <3> QED
        BY <1>1, <3>2
    <2> QED
      BY <2>1 DEF NoHelperTwice
  <1>5. ASSUME NoHelperTwice(q), Head(q) \in Helper PROVE ~Holds(Tail(q), Head(q))
    <2>1. ASSUME NEW k \in 1 .. Len(Tail(q)), Tail(q)[k] = Head(q) PROVE FALSE
      <3>1. k + 1 \in 1 .. Len(q) /\ q[k + 1] = q[1] /\ q[1] \in Helper
        BY <1>1, <1>2, <1>5, <2>1
      <3>2. k + 1 = 1
        BY <1>2, <1>5, <3>1 DEF NoHelperTwice
      <3> QED
        BY <1>1, <3>2
    <2> QED
      BY <2>1 DEF Holds
  <1> QED
    BY <1>3, <1>4, <1>5

LEMMA PendingIsFinite == IsFiniteSet(Pending) /\ Cardinality(Pending) \in Nat
  <1>1. IsFiniteSet(Helper) /\ Pending \subseteq Helper
    BY ConstantsAssumption DEF Pending
  <1> QED
    BY <1>1, FS_Subset, FS_CardinalityType

LEMMA HelperInit == Init => HelperInv
  <1> SUFFICES ASSUME Init PROVE HelperInv
    OBVIOUS
  <1>1. \A x : ~Holds(<<>>, x)
    BY DEF Holds
  <1>2. \A x \in Helper : ~InQueue(x) /\ ~IsRunning(x)
    BY <1>1, ConstantsAssumption DEF Init, InQueue, IsRunning
  <1>3. Pending = {}
    BY <1>2 DEF Pending
  <1>4. StepsOK /\ OneHelperOnePlace
    BY <1>2, ConstantsAssumption DEF Init, StepsOK, OneHelperOnePlace, Idle, NoHelperTwice
  <1>5. StartedIsCounted
    BY <1>3, FS_EmptySet DEF Init, StartedIsCounted
  <1> QED
    BY <1>3, <1>4, <1>5 DEF HelperInv, PendingOnlyDuringCall

\* The steps that touch neither the queue nor the threads nor the counters
LEMMA HelperStutter ==
    ASSUME HelperInv, UNCHANGED <<queue, running, at, toQueue, started, finished>>,
           pc' \in {"idle", "returned"} => Pending = {}
    PROVE  HelperInv'
  BY DEF HelperInv, StepsOK, OneHelperOnePlace, StartedIsCounted, PendingOnlyDuringCall, Pending,
     InQueue, IsRunning, Holds, NoHelperTwice

LEMMA HelperStep ==
    ASSUME TypeOK, HelperInv, [Next]_vars
    PROVE  HelperInv'
  <1> USE DEF poolVars, callVars, sharedVars
  <1>1. ASSUME NEW b \in Block, ReceiveBlock(b) PROVE HelperInv'
    <2>1. /\ queue' = Append(queue, b) /\ queue \in Seq(Work) /\ b \in Work /\ b \notin Helper
          /\ UNCHANGED <<running, at, pc, toQueue, started, finished>>
      BY <1>1, ConstantsAssumption DEF ReceiveBlock, TypeOK, Work
    <2>2. /\ \A x \in Helper : InQueue(x)' <=> InQueue(x)
          /\ \A x : IsRunning(x)' <=> IsRunning(x)
          /\ NoHelperTwice(queue) => NoHelperTwice(queue')
      BY <2>1, AppendHolds DEF InQueue, IsRunning
    <2>3. Pending' = Pending
      BY <2>2 DEF Pending
    <2>4. OneHelperOnePlace'
      BY <2>1, <2>2 DEF HelperInv, OneHelperOnePlace, TypeOK
    <2> QED
      BY <2>1, <2>3, <2>4 DEF HelperInv, StepsOK, StartedIsCounted, PendingOnlyDuringCall
  <1>2. ASSUME NEW h \in Helper, QueueHelper(h) PROVE HelperInv'
    <2>1. CASE queue' = queue /\ started' = started
      <3>1. UNCHANGED <<running, at, finished, pc>> /\ toQueue' \subseteq toQueue /\ pc = "queue"
        BY <1>2 DEF QueueHelper
      <3>2. \A x : (InQueue(x)' <=> InQueue(x)) /\ (IsRunning(x)' <=> IsRunning(x))
        BY <2>1, <3>1 DEF InQueue, IsRunning
      <3>3. Pending' = Pending
        BY <3>2 DEF Pending
      <3>4. OneHelperOnePlace'
        BY <2>1, <3>1, <3>2 DEF HelperInv, OneHelperOnePlace
      <3> QED
        BY <2>1, <3>1, <3>3, <3>4 DEF HelperInv, StepsOK, StartedIsCounted, PendingOnlyDuringCall
    <2>2. CASE queue' = Append(queue, h) /\ started' = started + 1
      <3>1. /\ queue \in Seq(Work) /\ h \in Work
            /\ UNCHANGED <<running, at, finished, pc>> /\ toQueue' = toQueue \ {h}
            /\ h \in toQueue /\ pc = "queue"
        BY <1>2 DEF QueueHelper, TypeOK, Work
      <3>2. /\ \A x : InQueue(x)' <=> InQueue(x) \/ x = h
            /\ \A x : IsRunning(x)' <=> IsRunning(x)
            /\ ~InQueue(h) /\ ~IsRunning(h)
            /\ NoHelperTwice(queue')
        BY <2>2, <3>1, AppendHolds DEF InQueue, IsRunning, HelperInv, OneHelperOnePlace
      <3>3. Pending' = Pending \cup {h} /\ h \notin Pending
        BY <3>2 DEF Pending
      <3>4. Cardinality(Pending') = Cardinality(Pending) + 1
        BY <3>3, PendingIsFinite, FS_AddElement
      <3>5. OneHelperOnePlace'
        BY <3>1, <3>2 DEF HelperInv, OneHelperOnePlace, IsRunning
      <3>6. StartedIsCounted'
        BY <2>2, <3>1, <3>4, PendingIsFinite DEF HelperInv, StartedIsCounted, TypeOK
      <3> QED
        BY <3>1, <3>5, <3>6 DEF HelperInv, StepsOK, PendingOnlyDuringCall
    <2> QED
      BY <1>2, <2>1, <2>2 DEF QueueHelper
  <1>3. ASSUME NEW t \in Thread, TakeWork(t) PROVE HelperInv'
    <2>1. /\ queue \in Seq(Work) /\ queue # <<>> /\ queue' = Tail(queue) /\ Head(queue) \in Work
          /\ running \in [Thread -> Work \cup {Idle}] /\ at \in [Thread -> Places]
          /\ running[t] = Idle /\ Idle \notin Work
          /\ running' = [running EXCEPT ![t] = Head(queue)]
          /\ at' = [at EXCEPT ![t] = IF Head(queue) \in Helper THEN "fetch" ELSE "filter"]
          /\ UNCHANGED <<toQueue, pc, started, finished>>
      BY <1>3, ConstantsAssumption DEF TakeWork, TypeOK, Work, Idle, Places
    <2>2. /\ \A x : InQueue(x) <=> InQueue(x)' \/ x = Head(queue)
          /\ NoHelperTwice(queue')
          /\ Head(queue) \in Helper => ~Holds(queue', Head(queue))
      BY <2>1, TailHolds DEF InQueue, HelperInv, OneHelperOnePlace
    <2>3. \A x \in Work : IsRunning(x)' <=> IsRunning(x) \/ x = Head(queue)
      BY <2>1 DEF IsRunning
    <2>4. Pending' = Pending
      BY <2>2, <2>3 DEF Pending, Work
    <2>5. StepsOK'
      BY <2>1, ConstantsAssumption DEF HelperInv, StepsOK, Idle, Work
    <2>6. OneHelperOnePlace'
      <3>1. \A u \in Thread : running[u] \in Helper => running[u] # Head(queue)
        BY <2>2 DEF HelperInv, OneHelperOnePlace
      <3>2. \A h \in toQueue' : ~InQueue(h)' /\ ~IsRunning(h)'
        BY <2>1, <2>2, <2>3 DEF HelperInv, OneHelperOnePlace, TypeOK, Work
      <3>3. \A u, v \in Thread : running'[u] \in Helper /\ running'[u] = running'[v] => u = v
        BY <2>1, <3>1 DEF HelperInv, OneHelperOnePlace
      <3>4. ASSUME NEW u \in Thread, running'[u] \in Helper PROVE ~Holds(queue', running'[u])
        <4>1. CASE u = t
          BY <2>1, <2>2, <3>4, <4>1
        <4>2. CASE u # t
          BY <2>1, <2>2, <3>4, <4>2 DEF HelperInv, OneHelperOnePlace, InQueue
        <4> QED
          BY <4>1, <4>2
      <3> QED
        BY <2>2, <3>2, <3>3, <3>4 DEF OneHelperOnePlace, InQueue
    <2> QED
      BY <2>1, <2>4, <2>5, <2>6 DEF HelperInv, StartedIsCounted, PendingOnlyDuringCall
  <1>4. ASSUME NEW t \in Thread, FinishHelper(t) PROVE HelperInv'
    <2>1. /\ running \in [Thread -> Work \cup {Idle}] /\ Idle \notin Work
          /\ running[t] \in Helper
          /\ running' = [running EXCEPT ![t] = Idle] /\ at' = [at EXCEPT ![t] = Idle]
          /\ at \in [Thread -> Places]
          /\ UNCHANGED <<queue, toQueue, pc, started>> /\ finished' = finished + 1
      BY <1>4, ConstantsAssumption
         DEF FinishHelper, Runs, Done, TypeOK, HelperInv, StepsOK, Work, Idle, Places
    <2>2. /\ \A x : InQueue(x)' <=> InQueue(x)
          /\ \A x \in Helper : IsRunning(x)' <=> IsRunning(x) /\ x # running[t]
          /\ ~InQueue(running[t])
      BY <2>1 DEF InQueue, IsRunning, HelperInv, OneHelperOnePlace, Work
    <2>3. Pending' = Pending \ {running[t]} /\ running[t] \in Pending
      BY <2>1, <2>2 DEF Pending, IsRunning
    <2>4. Cardinality(Pending') = Cardinality(Pending) - 1
      BY <2>3, PendingIsFinite, FS_RemoveElement
    <2>5. StepsOK'
      BY <2>1, ConstantsAssumption DEF HelperInv, StepsOK, Idle, Work
    <2>6. OneHelperOnePlace'
      <3>1. \A u \in Thread : running'[u] \in Helper => running'[u] = running[u]
        BY <2>1 DEF Work
      <3>2. \A h \in toQueue' : ~InQueue(h)' /\ ~IsRunning(h)'
        BY <2>1, <2>2 DEF HelperInv, OneHelperOnePlace, TypeOK
      <3>3. \A u \in Thread : running'[u] \in Helper => ~InQueue(running[u])'
        BY <2>1, <3>1 DEF HelperInv, OneHelperOnePlace, InQueue
      <3> QED
        BY <2>1, <3>1, <3>2, <3>3 DEF HelperInv, OneHelperOnePlace
    <2>7. StartedIsCounted'
      BY <2>1, <2>4, PendingIsFinite DEF HelperInv, StartedIsCounted, TypeOK
    <2> QED
      BY <2>1, <2>3, <2>5, <2>6, <2>7 DEF HelperInv, PendingOnlyDuringCall
  <1>5. ASSUME NEW t \in Thread,
               \/ FilterAndHash(t) \/ CollectMissing(t)
               \/ FetchOutput(t)
        PROVE  HelperInv'
    <2>1. /\ UNCHANGED <<queue, running, toQueue, started, finished, pc>>
          /\ at \in [Thread -> Places]
          /\ \/ at[t] = "fetch" /\ at' = [at EXCEPT ![t] = "finish"]
             \/ at[t] \in {"filter", "missing"} /\ at' = [at EXCEPT ![t] = "missing"]
             \/ at[t] \in {"filter", "missing"} /\ at' = [at EXCEPT ![t] = "add"]
             \/ UNCHANGED at
      BY <1>5 DEF FilterAndHash, CollectMissing, FetchOutput, Runs, GoTo, TypeOK, Idle, Places
    <2>2. StepsOK'
      BY <2>1 DEF HelperInv, StepsOK, Idle
    <2>3. Pending' = Pending /\ OneHelperOnePlace'
      BY <2>1 DEF Pending, HelperInv, OneHelperOnePlace, InQueue, IsRunning
    <2> QED
      BY <2>1, <2>2, <2>3 DEF HelperInv, StartedIsCounted, PendingOnlyDuringCall
  <1>6. ASSUME NEW t \in Thread, AddBlock(t) PROVE HelperInv'
    <2>1. /\ running \in [Thread -> Work \cup {Idle}] /\ Idle \notin Work
          /\ running[t] \notin Helper
          /\ running' = [running EXCEPT ![t] = Idle] /\ at' = [at EXCEPT ![t] = Idle]
          /\ at \in [Thread -> Places]
          /\ UNCHANGED <<queue, toQueue, pc, started, finished>>
      BY <1>6, ConstantsAssumption
         DEF AddBlock, Runs, Done, TypeOK, HelperInv, StepsOK, Work, Idle, Places
    <2>2. /\ \A x : InQueue(x)' <=> InQueue(x)
          /\ \A x \in Helper : IsRunning(x)' <=> IsRunning(x)
      BY <2>1 DEF InQueue, IsRunning, Work
    <2>3. Pending' = Pending
      BY <2>2 DEF Pending
    <2>5. StepsOK'
      BY <2>1, ConstantsAssumption DEF HelperInv, StepsOK, Idle, Work
    <2>6. OneHelperOnePlace'
      <3>1. \A u \in Thread : running'[u] \in Helper => running'[u] = running[u]
        BY <2>1 DEF Work
      <3>2. \A h \in toQueue' : ~InQueue(h)' /\ ~IsRunning(h)'
        BY <2>1, <2>2 DEF HelperInv, OneHelperOnePlace, TypeOK
      <3>3. \A u \in Thread : running'[u] \in Helper => ~InQueue(running[u])'
        BY <2>1, <3>1 DEF HelperInv, OneHelperOnePlace, InQueue
      <3> QED
        BY <2>1, <3>1, <3>2, <3>3 DEF HelperInv, OneHelperOnePlace
    <2> QED
      BY <2>1, <2>3, <2>5, <2>6 DEF HelperInv, StartedIsCounted, PendingOnlyDuringCall
  <1>7. CASE Return
    <2>1. Cardinality(Pending) = 0
      BY <1>7, PendingIsFinite DEF Return, HelpersDone, HelperInv, StartedIsCounted, TypeOK
    <2>2. Pending = {}
      BY <2>1, PendingIsFinite, FS_EmptySet
    <2> QED
      BY <1>7, <2>2, HelperStutter DEF Return
  <1>8. CASE ReturnEarly
    BY <1>8, HelperStutter DEF ReturnEarly, HelperInv, PendingOnlyDuringCall
  <1>9. CASE EnterCall \/ AllQueued \/ LoadCounter \/ ProduceOutput \/ StopHelpers
    BY <1>9, HelperStutter DEF EnterCall, AllQueued, LoadCounter, ProduceOutput, StopHelpers
  <1>10. CASE UNCHANGED vars
    BY <1>10, HelperStutter DEF vars, HelperInv, PendingOnlyDuringCall
  <1> QED
    BY <1>1, <1>2, <1>3, <1>4, <1>5, <1>6, <1>7, <1>8, <1>9, <1>10
       DEF Next, LoopThread, PoolThread

-----------------------------------------------------------------------------
(* Loop thread and helpers meet                                            *)

LEMMA CacheInit == Init => CacheInv
  BY ConstantsAssumption DEF Init, CacheInv, TakenFromTheEnd, CachedWhenTheyMeet

LEMMA CacheStutter ==
    ASSUME CacheInv, UNCHANGED <<i, meets, counter, stopped, taken>>,
           pc' \in {"queue", "load", "wait"} => pc \in {"queue", "load", "produce", "wait"},
           pc' = "produce" => pc = "produce", pc' = "idle" => pc = "idle"
    PROVE  CacheInv'
  BY DEF CacheInv, TakenFromTheEnd, CachedWhenTheyMeet

LEMMA CacheStep ==
    ASSUME TypeOK, HelperInv, CacheInv, [Next]_vars
    PROVE  CacheInv'
  <1> USE DEF poolVars, callVars, sharedVars
  <1>0. Outputs \in Nat \ {0} /\ i \in Nat /\ counter \in Int /\ taken \subseteq Int
    BY ConstantsAssumption DEF TypeOK
  <1>1. CASE EnterCall
    <2>1. /\ pc = "idle" /\ pc' = "queue" /\ counter' = Outputs - 1
          /\ UNCHANGED <<i, meets, stopped, taken>>
      BY <1>1 DEF EnterCall, LastOutput
    <2>2. ~stopped
      BY <2>1 DEF CacheInv, TakenFromTheEnd
    <2> QED
      BY <1>0, <2>1, <2>2 DEF CacheInv, TakenFromTheEnd, CachedWhenTheyMeet
  <1>2. CASE LoadCounter
    <2>1. /\ pc = "load" /\ i < Outputs /\ pc' = "produce"
          /\ meets' = (counter >= 0 /\ i >= counter)
          /\ UNCHANGED <<i, counter, stopped, taken>>
      BY <1>2 DEF LoadCounter, Meets
    <2>2. ASSUME meets', NEW k \in i + 1 .. Outputs - 1 PROVE k \in taken
      <3>1. counter >= 0 /\ i >= counter
        BY <2>1, <2>2
      <3>2. ~stopped /\ k \in 0 .. Outputs - 1 /\ k > counter
        BY <1>0, <2>2, <3>1 DEF CacheInv, TakenFromTheEnd
      <3> QED
        BY <2>1, <3>2 DEF CacheInv, TakenFromTheEnd
    <2> QED
      BY <2>1, <2>2 DEF CacheInv, TakenFromTheEnd, CachedWhenTheyMeet
  <1>3. CASE ProduceOutput
    <2>1. /\ pc = "produce" /\ pc' = "load" /\ i' = i + 1 /\ UNCHANGED taken
          /\ counter' = IF meets THEN -1 ELSE counter
          /\ stopped' = (stopped \/ meets)
      BY <1>3 DEF ProduceOutput
    <2>2. CASE meets
      <3>1. counter' = -1 /\ \A k \in i' .. Outputs - 1 : k \in taken'
        BY <2>1, <2>2 DEF CacheInv, TakenFromTheEnd
      <3>2. stopped'
        BY <2>1, <2>2, Zenon
      <3> QED
        BY <1>0, <2>1, <3>1, <3>2 DEF CacheInv, TakenFromTheEnd, CachedWhenTheyMeet
    <2>3. CASE ~meets
      <3>1. counter' = counter /\ (stopped' <=> stopped)
        BY <2>1, <2>3, Zenon
      <3> QED
        BY <1>0, <2>1, <3>1 DEF CacheInv, TakenFromTheEnd, CachedWhenTheyMeet
    <2> QED
      BY <2>2, <2>3
  <1>4. CASE StopHelpers
    <2>1. /\ i = Outputs /\ counter' = -1 /\ stopped' /\ pc' = "wait" /\ UNCHANGED <<i, taken>>
      BY <1>4 DEF StopHelpers
    <2> QED
      BY <1>0, <2>1 DEF CacheInv, TakenFromTheEnd, CachedWhenTheyMeet
  <1>5. ASSUME NEW t \in Thread, FetchOutput(t) PROVE CacheInv'
    <2>1. /\ counter' = counter - 1 /\ UNCHANGED <<i, pc, meets, stopped>>
          /\ taken' = IF counter >= 0 THEN taken \cup {counter} ELSE taken
      BY <1>5 DEF FetchOutput
    <2>2. taken \subseteq taken'
      BY <2>1
    <2>3. ASSUME pc \in {"queue", "load", "produce", "wait"}, ~stopped,
                 NEW k \in 0 .. Outputs - 1, k > counter'
          PROVE  k \in taken'
      <3>1. k \in Int /\ k >= 0 /\ k > counter - 1
        BY <1>0, <2>1, <2>3
      <3>2. k > counter \/ (k = counter /\ counter >= 0)
        BY ONLY <1>0, <3>1
      <3> QED
        BY <2>1, <2>2, <2>3, <3>2 DEF CacheInv, TakenFromTheEnd
    <2>4. counter' < Outputs /\ (stopped' => counter' < 0)
      BY <1>0, <2>1 DEF CacheInv, TakenFromTheEnd
    <2> QED
      BY <2>1, <2>2, <2>3, <2>4 DEF CacheInv, TakenFromTheEnd, CachedWhenTheyMeet
  <1>6. CASE ReturnEarly \/ AllQueued \/ Return
    BY <1>6, CacheStutter DEF ReturnEarly, AllQueued, Return
  <1>7. ASSUME NEW x, ReceiveBlock(x) \/ QueueHelper(x) PROVE CacheInv'
    BY <1>7, CacheStutter DEF ReceiveBlock, QueueHelper
  <1>8. ASSUME NEW t \in Thread,
               \/ TakeWork(t) \/ FilterAndHash(t) \/ CollectMissing(t) \/ AddBlock(t)
               \/ FinishHelper(t)
        PROVE  CacheInv'
    BY <1>8, CacheStutter DEF TakeWork, FilterAndHash, CollectMissing, AddBlock, FinishHelper
  <1>9. CASE UNCHANGED vars
    BY <1>9, CacheStutter DEF vars
  <1> QED
    BY <1>1, <1>2, <1>3, <1>4, <1>5, <1>6, <1>7, <1>8, <1>9 DEF Next, LoopThread, PoolThread

-----------------------------------------------------------------------------
LEMMA CallInvariant == Spec => [](TypeOK /\ HelperInv /\ CacheInv)
  <1>1. Init => TypeOK /\ HelperInv /\ CacheInv
    BY TypeInit, HelperInit, CacheInit
  <1>2. TypeOK /\ HelperInv /\ CacheInv /\ [Next]_vars => (TypeOK /\ HelperInv /\ CacheInv)'
    BY TypeStep, HelperStep, CacheStep DEF HelperInv, CacheInv
  <1> QED
    BY <1>1, <1>2, PTL DEF Spec

\* However many of the helper jobs could be queued and whenever the pool gets to
\* them, get_outputs_blob returns only after the last of them has let go of its
\* stack frame.
THEOREM HelpersNeverOutliveTheCall == Spec => []NoUseAfterReturn
  <1>1. TypeOK /\ HelperInv => NoUseAfterReturn
    BY DEF TypeOK, HelperInv, PendingOnlyDuringCall, Pending, InQueue, Holds, IsRunning,
       NoUseAfterReturn
  <1> QED
    BY <1>1, CallInvariant, PTL

\* The counter may move between the loop thread's load and its store: all the same,
\* when it stops the helpers they have taken every output it has not produced yet.
THEOREM EverythingIsCached == Spec => []CachedWhenTheyMeet
  <1>1. CacheInv => CachedWhenTheyMeet
    BY DEF CacheInv
  <1> QED
    BY <1>1, CallInvariant, PTL

=============================================================================
