---------------------------- MODULE ExecutorProofs ----------------------------
(***************************************************************************)
(* Theorems about the worker pool, for every data set, batch size, number  *)
(* of threads, order of samples and set of bad samples, under every        *)
(* schedule and with failing synchronization calls.                        *)
(***************************************************************************)
EXTENDS ExecutorProperties, FiniteSetTheorems, SequenceTheorems, TLAPS

(* The pool has at least one worker and no more than there are samples.     *)
LEMMA PoolSize ==
  /\ SampleCount \in Nat \ {0} /\ BatchSize \in 1 .. SampleCount
  /\ WorkerCount \in 1 .. SampleCount
  /\ Workers = 0 .. WorkerCount - 1 /\ Workers \subseteq Positions
  /\ 0 \in Positions
  BY PoolAssumption DEF WorkerCount, Workers, Least, Positions

(* Sets of workers are counted.                                             *)
LEMMA CountWorkers ==
  ASSUME NEW S \in SUBSET Workers
  PROVE  /\ IsFiniteSet(S)
         /\ Cardinality(S) \in 0 .. WorkerCount
         /\ Cardinality(S) = 0 <=> S = {}
<1>1. IsFiniteSet(Workers) /\ Cardinality(Workers) = WorkerCount
  BY PoolSize, FS_Interval
<1>2. /\ IsFiniteSet(S) /\ Cardinality(S) <= WorkerCount
  BY <1>1, FS_Subset
<1>3. Cardinality(S) \in Nat /\ (Cardinality(S) = 0 <=> S = {})
  BY <1>2, FS_CardinalityType, FS_EmptySet
<1> QED
  BY <1>2, <1>3, PoolSize

LEMMA CountWave ==
  ASSUME NEW n \in 0 .. WorkerCount
  PROVE  Cardinality(0 .. n - 1) = n
  BY PoolSize, FS_Interval

-----------------------------------------------------------------------------
(* Arithmetic of the plan.                                                  *)

LEMMA MultipleOfPositive ==
  ASSUME NEW b \in Nat \ {0}, NEW k \in Int, k >= 1
  PROVE  k * b >= b
<1>1. (k - 1) * b >= 0
  <2>1. \A m, n \in Nat : m * n >= 0
    OBVIOUS
  <2> QED
    BY <2>1, k - 1 \in Nat
<1>2. k * b = (k - 1) * b + b
  OBVIOUS
<1> QED
  BY <1>1, <1>2

LEMMA DivMod ==
  ASSUME NEW n \in Nat, NEW b \in Nat \ {0}
  PROVE  /\ n \div b \in Nat /\ n % b \in 0 .. b - 1
         /\ n = (n \div b) * b + (n % b)
  OBVIOUS

LEMMA MultipleMod ==
  ASSUME NEW b \in Nat \ {0}, NEW k \in Nat
  PROVE  (k * b) % b = 0
<1>1. k * b \in Nat
  OBVIOUS
<1> DEFINE q == (k * b) \div b
           r == (k * b) % b
<1>2. q \in Nat /\ r \in 0 .. b - 1 /\ k * b = q * b + r
  BY <1>1, DivMod
<1> HIDE DEF q, r
<1>3. (k - q) * b = r
  BY <1>2
<1>4. CASE k - q >= 1
  BY <1>2, <1>3, <1>4, MultipleOfPositive
<1>5. CASE q - k >= 1
  <2>1. (q - k) * b >= b
    BY <1>2, <1>5, MultipleOfPositive
  <2>2. (q - k) * b = 0 - r
    BY <1>2, <1>3
  <2> QED
    BY <1>2, <2>1, <2>2
<1>6. CASE k = q
  BY <1>2, <1>3, <1>6 DEF r
<1> QED
  BY <1>2, <1>4, <1>5, <1>6

(* Every batch of the plan begins at a multiple of the batch size, within   *)
(* the data set.                                                            *)
LEMMA PlannedBatch ==
  ASSUME NEW k \in 0 .. BatchCount - 1
  PROVE  BatchRange(k) \in Serial!Batches
<1> DEFINE q == SampleCount \div BatchSize
           r == SampleCount % BatchSize
           begin == k * BatchSize
<1>1. BatchSize \in Nat \ {0} /\ SampleCount \in Nat
  BY PoolSize
<1>2. q \in Nat /\ r \in 0 .. BatchSize - 1 /\ SampleCount = q * BatchSize + r
  BY <1>1, DivMod
<1>3. k \in Nat /\ BatchCount = q + (IF r # 0 THEN 1 ELSE 0)
  BY DEF BatchCount
<1> HIDE DEF q, r
<1>4. begin \in Nat /\ begin < SampleCount
  <2>1. CASE k < q
    <3>1. (q - k) * BatchSize >= BatchSize
      BY <1>1, <1>2, <1>3, <2>1, MultipleOfPositive
    <3>2. (q - k) * BatchSize = q * BatchSize - begin /\ begin \in Nat
      BY <1>1, <1>2, <1>3
    <3>3. q * BatchSize \in Nat
      BY <1>1, <1>2
    <3> HIDE DEF begin
    <3> QED
      BY <1>1, <1>2, <3>1, <3>2, <3>3
  <2>2. CASE k >= q
    <3>1. k = q /\ r # 0
      BY <1>2, <1>3, <2>2
    <3> QED
      BY <1>1, <1>2, <3>1
  <2> QED
    BY <1>2, <1>3, <2>1, <2>2
<1>5. begin % BatchSize = 0
  BY <1>1, <1>3, MultipleMod
<1>6. BatchRange(k) =
        <<begin, begin + Least(SampleCount - begin, BatchSize)>>
  BY DEF BatchRange
<1> HIDE DEF begin
<1> QED
  BY <1>1, <1>4, <1>5, <1>6, PoolSize DEF Least, Serial!Batches

-----------------------------------------------------------------------------

LEMMA InitPool == Init => PoolIInv
<1> SUFFICES ASSUME Init PROVE PoolIInv
  OBVIOUS
<1> USE DEF Init
<1>1. TypeOK
  <2>1. NoGradient \in Gradient
    BY PoolSize DEF NoGradient, Gradient
  <2>2. task \in [Workers -> Positions] /\ gradient \in [Workers -> Gradient]
    BY <2>1, PoolSize
  <2>3. /\ place \in [Workers -> {"unborn", "locking", "waiting", "computing",
                                 "finishing", "exited"}]
        /\ assigned \in [Workers -> BOOLEAN]
        /\ success \in [Workers -> BOOLEAN]
    OBVIOUS
  <2>4. /\ pending \in 0 .. WorkerCount
        /\ range \in (0 .. SampleCount) \X (0 .. SampleCount)
        /\ wave \in (0 .. SampleCount) \X (0 .. SampleCount)
        /\ batches \in 0 .. MaxBatches
    BY PoolSize, PoolAssumption
  <2>5. sum \in Seq(Gradient) /\ model \in Seq(Seq(Gradient))
    OBVIOUS
  <2>6. /\ error \in Positions \cup {-1} /\ bad \in BadSets
        /\ caller = "create" /\ stopping \in BOOLEAN /\ broken \in BOOLEAN
    OBVIOUS
  <2> QED
    BY <2>2, <2>3, <2>4, <2>5, <2>6 DEF TypeOK
<1>2. PendingCountsBusy
  <2>1. BusyWorkers = {}
    BY DEF BusyWorkers, Busy
  <2> QED
    BY <2>1, FS_EmptySet DEF PendingCountsBusy
<1>3. CallerPlaces /\ PlanFollowed /\ ReducedInOrder /\ WaveComputed
  BY DEF CallerPlaces, PlanFollowed, ReducedInOrder, WaveComputed, InBatch,
         InWaves
<1>4. FirstFailureReported
  BY DEF FirstFailureReported
<1> QED
  BY <1>1, <1>2, <1>3, <1>4 DEF PoolIInv

(* No pending task means that no worker has one or computes one.            *)
LEMMA NoneBusy ==
  ASSUME PoolIInv
  PROVE  pending = 0 <=> \A w \in Workers : ~Busy(w)
<1>1. BusyWorkers \in SUBSET Workers
  BY DEF BusyWorkers
<1> QED
  BY <1>1, CountWorkers DEF PoolIInv, PendingCountsBusy, BusyWorkers

-----------------------------------------------------------------------------
(* The count of pending workers.                                            *)

(* A worker's critical section counts its own finished task, if any.        *)
LEMMA CountDownStep ==
  ASSUME NEW w \in Workers, PoolIInv, WorkerLocks(w)
  PROVE  PendingCountsBusy'
<1> USE DEF WorkerLocks
<1>a. TypeOK /\ PendingCountsBusy
  BY DEF PoolIInv
<1>b. IsFiniteSet(BusyWorkers)
  BY CountWorkers DEF BusyWorkers
<1>c. \A v \in Workers \ {w} : place'[v] = place[v] /\ assigned'[v] = assigned[v]
  BY <1>a DEF TypeOK, TakeTask
<1>1. \A v \in Workers :
        place'[v] \in {"computing", "finishing"} => ~assigned'[v]
  BY <1>a, <1>c DEF TypeOK, PendingCountsBusy, TakeTask
<1>2. CASE place[w] = "finishing"
  <2>1. BusyWorkers' = BusyWorkers \ {w} /\ w \in BusyWorkers
    BY <1>a, <1>c, <1>2
    DEF TypeOK, PendingCountsBusy, TakeTask, BusyWorkers, Busy
  <2>2. pending' = pending - 1
    BY <1>2 DEF CountDown
  <2> QED
    BY <1>a, <1>b, <1>1, <2>1, <2>2, FS_RemoveElement DEF PendingCountsBusy
<1>3. CASE place[w] = "locking"
  <2>1. BusyWorkers' = BusyWorkers
    BY <1>a, <1>c, <1>3
    DEF TypeOK, PendingCountsBusy, TakeTask, BusyWorkers, Busy
  <2>2. pending' = pending
    BY <1>3 DEF CountDown
  <2> QED
    BY <1>a, <1>1, <2>1, <2>2 DEF PendingCountsBusy
<1> QED
  BY <1>2, <1>3

(* A wave is handed out to idle workers, all at once.                       *)
LEMMA AssignStep ==
  ASSUME PoolIInv, caller = "dispatch", Assign,
         place' \in {place, Awakened}
  PROVE  /\ PendingCountsBusy'
         /\ \A w \in Workers : place'[w] \notin {"computing", "finishing"}
<1>a. TypeOK /\ PendingCountsBusy /\ CallerPlaces /\ PlanFollowed
  BY DEF PoolIInv
<1>b. \A w \in Workers : ~Busy(w)
  BY <1>a, NoneBusy DEF CallerPlaces
<1>c. WaveSize \in 0 .. WorkerCount
  BY <1>a, PoolSize DEF PlanFollowed, InWaves, WaveSize, TypeOK
<1>1. \A w \in Workers : place'[w] \notin {"computing", "finishing"}
  BY <1>a, <1>b DEF TypeOK, Busy, Awakened
<1>2. \A w \in Workers : Busy(w)' <=> w < WaveSize
  <2>1. \A w \in Workers : ~assigned[w]
    BY <1>b DEF Busy
  <2>2. \A w \in Workers : assigned'[w] <=> InWave(w)
    BY <2>1, Zenon DEF Assign
  <2> QED
    BY <1>1, <2>2 DEF Busy, InWave
<1>3. BusyWorkers' = 0 .. WaveSize - 1
  <2>1. BusyWorkers' = {w \in Workers : w < WaveSize}
    BY <1>2 DEF BusyWorkers
  <2> QED
    BY <2>1, <1>c, PoolSize
<1>4. pending' = Cardinality(0 .. WaveSize - 1)
  BY <1>c, CountWave DEF Assign
<1> QED
  BY <1>1, <1>3, <1>4 DEF PendingCountsBusy

(* All other steps leave the busy workers busy and the others idle.         *)
LEMMA CountKept ==
  ASSUME PoolIInv, [Next]_vars,
         ~(\E w \in Workers : WorkerLocks(w)),
         ~(DispatchWave \/ DispatchFails)
  PROVE  PendingCountsBusy'
<1>a. TypeOK /\ PendingCountsBusy
  BY DEF PoolIInv
<1>1. UNCHANGED <<assigned, pending>>
  BY DEF Next, Worker, Coordinator, Fault, Spurious, Client, Terminated,
         Compute, StartWorker, Joined, WakeUp, FailBatch, Accumulate,
         UpdateModel, StartFails, StopWorkers, WaitFails, AccumulateFails,
         CallerWakesSpuriously, WorkerWakesSpuriously, Free, RequestBatch,
         vars, workerVars
<1>2. \A v \in Workers :
        place'[v] \in {"computing", "finishing"} <=>
          place[v] \in {"computing", "finishing"}
  <2>1. CASE \E w \in Workers : Compute(w) \/ WorkerWakesSpuriously(w)
    BY <1>a, <2>1 DEF TypeOK, Compute, WorkerWakesSpuriously
  <2>2. CASE StartWorker
    BY <1>a, <2>2 DEF TypeOK, StartWorker, Unborn
  <2>3. CASE place' = Awakened
    BY <1>a, <2>3 DEF TypeOK, Awakened
  <2>4. CASE place' = place
    BY <2>4
  <2> QED
    BY <2>1, <2>2, <2>3, <2>4
    DEF Next, Worker, Coordinator, Fault, Spurious, Client, Terminated,
        Joined, WakeUp, FailBatch, Accumulate, UpdateModel, StartFails,
        StopWorkers, WaitFails, AccumulateFails, CallerWakesSpuriously, Free,
        RequestBatch, vars, workerVars
<1>3. BusyWorkers' = BusyWorkers
  BY <1>1, <1>2 DEF BusyWorkers, Busy
<1> QED
  BY <1>a, <1>1, <1>2, <1>3 DEF PendingCountsBusy

LEMMA PendingStep ==
  ASSUME PoolIInv, [Next]_vars
  PROVE  PendingCountsBusy' /\ pending' \in 0 .. WorkerCount
<1>1. PendingCountsBusy'
  <2>1. CASE \E w \in Workers : WorkerLocks(w)
    BY <2>1, CountDownStep
  <2>2. CASE DispatchWave
    BY <2>2, AssignStep DEF DispatchWave
  <2>3. CASE DispatchFails /\ Assign
    BY <2>3, AssignStep DEF DispatchFails
  <2>4. CASE DispatchFails /\ ~Assign
    BY <2>4 DEF DispatchFails, PoolIInv, PendingCountsBusy, BusyWorkers, Busy
  <2> QED
    BY <2>1, <2>2, <2>3, <2>4, CountKept
<1>2. BusyWorkers' \in SUBSET Workers
  BY DEF BusyWorkers
<1> QED
  BY <1>1, <1>2, CountWorkers DEF PendingCountsBusy

-----------------------------------------------------------------------------
(* Where the caller is.                                                     *)

LEMMA CallerStep ==
  ASSUME PoolIInv, [Next]_vars
  PROVE  CallerPlaces'
<1>a. TypeOK /\ CallerPlaces /\ PendingCountsBusy
  BY DEF PoolIInv
<1>1. ASSUME NEW w \in Workers, WorkerLocks(w) PROVE CallerPlaces'
  <2>1. CASE place[w] = "finishing"
    <3>1. ~broken => caller \notin {"create", "ready", "dispatch", "collect", "update"}
      BY <1>a, <2>1, NoneBusy DEF CallerPlaces, Busy
    <3>2. caller' = caller \/ (caller = "waiting" /\ caller' = "woken")
      BY <2>1, <1>1 DEF WorkerLocks, CountDown
    <3> QED
      BY <1>1, <1>a, <3>1, <3>2 DEF CallerPlaces, WorkerLocks, poolVars
  <2>2. CASE place[w] # "finishing"
    BY <1>1, <1>a, <2>2 DEF CallerPlaces, WorkerLocks, CountDown, poolVars
  <2> QED
    BY <2>1, <2>2
<1>2. CASE \E w \in Workers : Compute(w) \/ WorkerWakesSpuriously(w)
  BY <1>2, <1>a DEF CallerPlaces, Compute, WorkerWakesSpuriously, poolVars
<1>3. CASE StartWorker \/ StartFails \/ Free \/ Joined
  BY <1>3, <1>a
  DEF CallerPlaces, StartWorker, StartFails, Free, StopWorkers, Joined,
      poolVars, workerVars
<1>4. CASE (\E k \in 0 .. BatchCount - 1 : RequestBatch(k)) \/ UpdateModel
  BY <1>4, <1>a
  DEF CallerPlaces, RequestBatch, UpdateModel, poolVars, workerVars
<1>5. CASE DispatchWave \/ DispatchFails \/ WaitFails \/ CallerWakesSpuriously
  BY <1>5, <1>a
  DEF CallerPlaces, DispatchWave, DispatchFails, WaitFails,
      CallerWakesSpuriously, poolVars, workerVars
<1>6. CASE WakeUp \/ FailBatch \/ Accumulate \/ AccumulateFails
  BY <1>6, <1>a
  DEF CallerPlaces, WakeUp, FailBatch, Accumulate, AccumulateFails, poolVars,
      workerVars
<1>7. CASE UNCHANGED vars
  BY <1>7, <1>a DEF CallerPlaces, vars, poolVars, workerVars
<1> QED
  BY <1>1, <1>2, <1>3, <1>4, <1>5, <1>6, <1>7
  DEF Next, Worker, Coordinator, Fault, Spurious, Client, Terminated

-----------------------------------------------------------------------------
(* The plan of a batch and of its waves.                                    *)

(* A planned batch has a sample and lies within the data set.               *)
LEMMA BatchBounds ==
  ASSUME NEW r \in Serial!Batches
  PROVE  /\ r[1] \in 0 .. SampleCount - 1 /\ r[2] \in 1 .. SampleCount
         /\ r[1] < r[2] /\ r = <<r[1], r[2]>>
<1>1. /\ r \in (0 .. SampleCount - 1) \X (1 .. SampleCount)
      /\ r[2] = IF SampleCount - r[1] < BatchSize THEN SampleCount
                ELSE r[1] + BatchSize
  BY DEF Serial!Batches
<1>2. /\ r[1] \in 0 .. SampleCount - 1 /\ r[2] \in 1 .. SampleCount
      /\ r = <<r[1], r[2]>>
  BY <1>1
<1> QED
  BY <1>1, <1>2, PoolSize

(* The next wave of a batch takes what is left, one sample per worker.      *)
LEMMA WaveBounds ==
  ASSUME NEW r \in Serial!Batches, NEW b \in r[1] .. r[2] - 1
  PROVE  LET v == WaveFrom(b, r)
         IN  /\ v \in (0 .. SampleCount) \X (0 .. SampleCount)
             /\ v[1] = b /\ b < v[2] /\ v[2] <= r[2]
             /\ v[2] - v[1] <= WorkerCount
<1> DEFINE n == Least(r[2] - b, Least(WorkerCount, r[2] - r[1]))
<1>1. /\ r[1] \in 0 .. SampleCount - 1 /\ r[2] \in 1 .. SampleCount
      /\ r[1] < r[2] /\ b \in 0 .. SampleCount
  BY BatchBounds, PoolSize
<1>2. n \in 1 .. r[2] - b /\ n <= WorkerCount
  <2>1. Least(WorkerCount, r[2] - r[1]) \in 1 .. WorkerCount
    BY <1>1, PoolSize DEF Least
  <2>2. r[2] - b \in Nat \ {0}
    BY <1>1
  <2> QED
    BY <2>1, <2>2, PoolSize DEF Least
<1>3. WaveFrom(b, r) = <<b, b + n>>
  BY DEF WaveFrom
<1> HIDE DEF n
<1> QED
  BY <1>1, <1>2, <1>3, PoolSize

LEMMA PlanStep ==
  ASSUME PoolIInv, [Next]_vars
  PROVE  /\ PlanFollowed'
         /\ range' \in (0 .. SampleCount) \X (0 .. SampleCount)
         /\ wave' \in (0 .. SampleCount) \X (0 .. SampleCount)
<1>a. TypeOK /\ PlanFollowed
  BY DEF PoolIInv
<1> USE DEF InBatch, InWaves
<1>1. ASSUME NEW k \in 0 .. BatchCount - 1, RequestBatch(k)
      PROVE  /\ PlanFollowed'
             /\ range' \in (0 .. SampleCount) \X (0 .. SampleCount)
             /\ wave' \in (0 .. SampleCount) \X (0 .. SampleCount)
  <2>1. range' \in Serial!Batches
    BY <1>1, PlannedBatch DEF RequestBatch
  <2>2. wave' = WaveFrom(range'[1], range') /\ caller' = "dispatch"
    BY <1>1 DEF RequestBatch
  <2>3. range'[1] \in range'[1] .. range'[2] - 1
    BY <2>1, BatchBounds
  <2>4. range' \in (0 .. SampleCount) \X (0 .. SampleCount)
    BY <2>1, BatchBounds, PoolSize
  <2> QED
    BY <2>1, <2>2, <2>3, <2>4, WaveBounds, BatchBounds DEF PlanFollowed
<1>2. CASE Accumulate
  <2>1. range \in Serial!Batches /\ range' = range
    BY <1>2, <1>a DEF Accumulate, PlanFollowed
  <2>2. CASE wave[2] = range[2]
    BY <1>2, <1>a, <2>1, <2>2 DEF Accumulate, PlanFollowed, TypeOK
  <2>3. CASE wave[2] # range[2]
    <3>1. wave[2] \in range[1] .. range[2] - 1
      BY <1>2, <1>a, <2>1, <2>3, PoolSize DEF Accumulate, PlanFollowed, TypeOK
    <3>2. wave' = WaveFrom(wave[2], range) /\ caller' = "dispatch"
      BY <1>2, <2>3 DEF Accumulate
    <3> QED
      BY <1>a, <2>1, <3>1, <3>2, WaveBounds, BatchBounds DEF PlanFollowed, TypeOK
  <2> QED
    BY <2>2, <2>3
<1>3. CASE /\ UNCHANGED <<range, wave>>
           /\ InBatch' => InBatch
           /\ InWaves' => InWaves
  BY <1>3, <1>a DEF PlanFollowed, TypeOK
<1>4. ASSUME ~(\E k \in 0 .. BatchCount - 1 : RequestBatch(k)), ~Accumulate
      PROVE  /\ UNCHANGED <<range, wave>>
             /\ InBatch' => InBatch
             /\ InWaves' => InWaves
  <2>1. CASE \E w \in Workers : \/ WorkerLocks(w) \/ Compute(w)
                                \/ WorkerWakesSpuriously(w)
    BY <2>1 DEF WorkerLocks, CountDown, Compute, WorkerWakesSpuriously, batchVars
  <2>2. CASE ~(\E w \in Workers : \/ WorkerLocks(w) \/ Compute(w)
                                 \/ WorkerWakesSpuriously(w))
    BY <1>4, <2>2
    DEF Next, Worker, Coordinator, Fault, Spurious, Client, Terminated,
        StartWorker, StartFails, Free, StopWorkers, Joined, UpdateModel,
        DispatchWave, DispatchFails, WaitFails, CallerWakesSpuriously, WakeUp,
        FailBatch, AccumulateFails, batchVars, vars
  <2> QED
    BY <2>1, <2>2
<1> QED
  BY <1>1, <1>2, <1>3, <1>4

-----------------------------------------------------------------------------
(* The gradients.                                                           *)

LEMMA GradientTyped ==
  ASSUME TypeOK, NEW i \in Positions
  PROVE  GradientAt(i) \in Gradient
<1>1. Order[i] \in Positions
  BY PoolAssumption
<1>2. Len(model) \in Nat
  BY LenProperties DEF TypeOK
<1> QED
  BY <1>1, <1>2 DEF GradientAt, Gradient

(* The gradients of the wave, as they lie in the workers' contexts.         *)
LEMMA WaveTyped ==
  ASSUME PoolIInv, caller = "collect"
  PROVE  /\ WaveSize \in 1 .. WorkerCount
         /\ WaveGradients \in Seq(Gradient) /\ Len(WaveGradients) = WaveSize
         /\ \A i \in 1 .. WaveSize : WaveGradients[i] = gradient[i - 1]
<1>1. WaveSize \in 1 .. WorkerCount
  BY PoolSize DEF PoolIInv, TypeOK, PlanFollowed, InWaves, WaveSize
<1>2. \A i \in 1 .. WaveSize : gradient[i - 1] \in Gradient
  <2>1. \A i \in 1 .. WaveSize : i - 1 \in Workers
    BY <1>1, PoolSize
  <2> QED
    BY <2>1 DEF PoolIInv, TypeOK
<1>3. WaveGradients \in [1 .. WaveSize -> Gradient]
  BY <1>2 DEF WaveGradients
<1> QED
  BY <1>1, <1>3 DEF WaveGradients

(* When the caller collects, every worker of the wave has its result.       *)
LEMMA WaveDone ==
  ASSUME PoolIInv, caller = "collect", NEW w \in Workers, InWave(w)
  PROVE  /\ task[w] = wave[1] + w
         /\ success[w] = (Order[wave[1] + w] \notin bad)
         /\ gradient[w] = GradientAt(wave[1] + w)
<1>1. ~Busy(w)
  BY NoneBusy DEF PoolIInv, CallerPlaces
<1> QED
  BY <1>1 DEF PoolIInv, WaveComputed, Busy

(* A wave without a failure continues the reduction in logical order.       *)
LEMMA AccumulateJoins ==
  ASSUME PoolIInv, Accumulate
  PROVE  /\ Len(sum') = wave[2] - range[1]
         /\ \A i \in 1 .. wave[2] - range[1] :
              sum'[i] = GradientAt(range[1] + i - 1)
         /\ \A i \in range[1] .. wave[2] - 1 : Order[i] \notin bad
<1> DEFINE n == wave[1] - range[1]
           m == wave[2] - range[1]
<1>a. /\ TypeOK /\ PlanFollowed /\ ReducedInOrder
      /\ caller = "collect" /\ Failed = {} /\ sum' = sum \o WaveGradients
  BY DEF PoolIInv, Accumulate
<1>b. /\ range[1] \in Nat /\ wave[1] \in Nat /\ wave[2] \in Nat
      /\ n \in Nat /\ m \in Nat /\ WaveSize \in Nat /\ m = n + WaveSize
      /\ WaveSize = wave[2] - wave[1]
  <2>1. /\ range[1] \in Nat /\ wave[1] \in Nat /\ wave[2] \in Nat
        /\ WaveSize = wave[2] - wave[1]
    BY <1>a, PoolSize DEF TypeOK, WaveSize
  <2>2. range[1] <= wave[1] /\ wave[1] < wave[2]
    BY <1>a DEF PlanFollowed, InWaves
  <2> QED
    BY <2>1, <2>2
<1> HIDE DEF n, m
<1>c. \A i \in 0 .. WaveSize - 1 : i \in Workers /\ InWave(i)
  <2>1. WaveSize \in 1 .. WorkerCount
    BY <1>a, WaveTyped
  <2> QED
    BY <2>1, PoolSize DEF InWave
<1>d. \A i \in 0 .. WaveSize - 1 : success[i]
  BY <1>a, <1>c DEF Failed
<1>e. /\ sum \in Seq(Gradient) /\ Len(sum) = n
      /\ \A i \in 1 .. n : sum[i] = GradientAt(range[1] + i - 1)
      /\ \A i \in range[1] .. wave[1] - 1 : Order[i] \notin bad
  BY <1>a DEF ReducedInOrder, ReducedUpTo, InWaves, TypeOK, n
<1>f. WaveGradients \in Seq(Gradient) /\ Len(WaveGradients) = WaveSize
  BY <1>a, WaveTyped DEF Accumulate
<1>g. \A w \in Workers : InWave(w) => gradient[w] = GradientAt(wave[1] + w)
  BY <1>a, WaveDone
<1>1. /\ Len(sum') = m
      /\ \A i \in 1 .. m :
           sum'[i] = IF i <= n THEN sum[i] ELSE WaveGradients[i - n]
  BY <1>a, <1>b, <1>e, <1>f, ConcatProperties
<1>2. ASSUME NEW i \in 1 .. m PROVE sum'[i] = GradientAt(range[1] + i - 1)
  <2>1. CASE i <= n
    BY <1>1, <1>e, <2>1
  <2>2. CASE i > n
    <3>1. /\ i - n \in 1 .. WaveSize /\ (i - n) - 1 \in 0 .. WaveSize - 1
          /\ wave[1] + ((i - n) - 1) = range[1] + i - 1
      BY <1>b, <2>2 DEF n
    <3>2. WaveGradients[i - n] = gradient[(i - n) - 1]
      BY <1>a, <3>1, WaveTyped
    <3>3. (i - n) - 1 \in Workers /\ InWave((i - n) - 1)
      BY <1>c, <3>1
    <3>4. gradient[(i - n) - 1] = GradientAt(wave[1] + ((i - n) - 1))
      BY <1>g, <3>3
    <3> QED
      BY <1>1, <1>b, <2>2, <3>1, <3>2, <3>4
  <2> QED
    BY <1>b, <2>1, <2>2
<1>3. ASSUME NEW i \in wave[1] .. wave[2] - 1 PROVE Order[i] \notin bad
  <2>1. i - wave[1] \in 0 .. WaveSize - 1 /\ wave[1] + (i - wave[1]) = i
    BY <1>b
  <2> QED
    BY <1>a, <1>c, <1>d, <2>1, WaveDone
<1> QED
  BY <1>b, <1>e, <1>1, <1>2, <1>3 DEF m

-----------------------------------------------------------------------------
(* The reduction.                                                           *)

(* What only a call for a batch, an answer to it or an update changes.      *)
LEMMA OtherSteps ==
  ASSUME [Next]_vars,
         ~(\E k \in 0 .. BatchCount - 1 : RequestBatch(k)),
         ~(Accumulate \/ AccumulateFails \/ FailBatch \/ UpdateModel)
  PROVE  /\ UNCHANGED <<batchVars, model, bad, batches>>
         /\ InWaves' => InWaves
         /\ caller' = "update" => caller = "update"
<1> USE DEF InWaves
<1>1. CASE \E w \in Workers : \/ WorkerLocks(w) \/ Compute(w)
                              \/ WorkerWakesSpuriously(w)
  BY <1>1 DEF WorkerLocks, CountDown, Compute, WorkerWakesSpuriously
<1>2. CASE ~(\E w \in Workers : \/ WorkerLocks(w) \/ Compute(w)
                               \/ WorkerWakesSpuriously(w))
  BY <1>2
  DEF Next, Worker, Coordinator, Fault, Spurious, Client, Terminated,
      StartWorker, StartFails, Free, StopWorkers, Joined, DispatchWave,
      DispatchFails, WaitFails, CallerWakesSpuriously, WakeUp, vars
<1> QED
  BY <1>1, <1>2

LEMMA ReducedStep ==
  ASSUME PoolIInv, [Next]_vars
  PROVE  ReducedInOrder'
<1>a. TypeOK /\ PlanFollowed /\ ReducedInOrder
  BY DEF PoolIInv
<1> USE DEF InWaves
<1>1. ASSUME NEW k \in 0 .. BatchCount - 1, RequestBatch(k)
      PROVE  ReducedInOrder'
  <2>1. range' \in Serial!Batches /\ sum' = <<>> /\ caller' = "dispatch"
    BY <1>1, PlannedBatch DEF RequestBatch
  <2>2. range'[1] \in Nat /\ wave'[1] = range'[1]
    BY <1>1, <2>1, BatchBounds DEF RequestBatch, WaveFrom
  <2>3. ReducedUpTo(wave[1])'
    BY <2>1, <2>2 DEF ReducedUpTo
  <2> QED
    BY <2>1, <2>3 DEF ReducedInOrder
<1>2. CASE Accumulate
  <2>1. UNCHANGED <<range, model, bad>>
    BY <1>2 DEF Accumulate
  <2>2. \A i : GradientAt(i)' = GradientAt(i)
    BY <2>1 DEF GradientAt
  <2>3. /\ Len(sum') = wave[2] - range'[1]
        /\ \A i \in 1 .. wave[2] - range'[1] :
             sum'[i] = GradientAt(range[1] + i - 1)'
        /\ \A i \in range'[1] .. wave[2] - 1 : Order[i] \notin bad'
    BY <1>2, <2>1, <2>2, AccumulateJoins
  <2>4. CASE wave[2] = range[2]
    <3>1. caller' = "update" /\ range'[2] = wave[2]
      BY <1>2, <2>1, <2>4 DEF Accumulate
    <3>2. ReducedUpTo(range[2])'
      BY <2>3, <3>1 DEF ReducedUpTo
    <3> QED
      BY <3>1, <3>2 DEF ReducedInOrder
  <2>5. CASE wave[2] # range[2]
    <3>1. caller' = "dispatch" /\ wave'[1] = wave[2]
      BY <1>2, <2>5 DEF Accumulate, WaveFrom
    <3>2. ReducedUpTo(wave[1])'
      BY <2>3, <3>1 DEF ReducedUpTo
    <3> QED
      BY <3>1, <3>2 DEF ReducedInOrder
  <2> QED
    BY <2>4, <2>5
<1>3. CASE AccumulateFails \/ FailBatch \/ UpdateModel
  BY <1>3 DEF AccumulateFails, FailBatch, UpdateModel, ReducedInOrder
<1>4. CASE /\ UNCHANGED <<range, wave, sum, model, bad>>
           /\ InWaves' => InWaves
           /\ caller' = "update" => caller = "update"
  <2>1. /\ ReducedUpTo(wave[1])' = ReducedUpTo(wave[1])
        /\ ReducedUpTo(range[2])' = ReducedUpTo(range[2])
    BY <1>4 DEF ReducedUpTo, GradientAt
  <2> QED
    BY <1>4, <1>a, <2>1 DEF ReducedInOrder
<1> QED
  BY <1>1, <1>2, <1>3, <1>4, OtherSteps DEF batchVars

(* The results of a wave.                                                   *)
LEMMA WaveStep ==
  ASSUME PoolIInv, [Next]_vars
  PROVE  WaveComputed'
<1>a. TypeOK /\ PendingCountsBusy /\ WaveComputed
  BY DEF PoolIInv
<1> DEFINE Out == caller \in {"waiting", "woken", "collect"}
<1>1. ASSUME NEW w \in Workers, WorkerLocks(w) PROVE WaveComputed'
  <2>1. /\ UNCHANGED <<task, success, gradient, wave, model, bad>>
        /\ Out' => Out
    BY <1>1 DEF WorkerLocks, CountDown, batchVars
  <2>2. \A v \in Workers : ~assigned'[v] /\ place'[v] # "computing"
                             => ~assigned[v] /\ place[v] # "computing"
    BY <1>1, <1>a DEF WorkerLocks, TakeTask, TypeOK
  <2> QED
    BY <2>1, <2>2, <1>a DEF WaveComputed, InWave, WaveSize, GradientAt
<1>2. ASSUME NEW w \in Workers, Compute(w) PROVE WaveComputed'
  <2>1. UNCHANGED <<task, assigned, wave, model, bad, caller>>
    BY <1>2 DEF Compute, batchVars
  <2>2. /\ success'[w] = (Order[task[w]] \notin bad)
        /\ gradient'[w] = GradientAt(task[w])
    BY <1>2, <1>a DEF Compute, TypeOK, GradientAt
  <2>3. \A v \in Workers \ {w} : /\ place'[v] = place[v]
                                 /\ success'[v] = success[v]
                                 /\ gradient'[v] = gradient[v]
    BY <1>2, <1>a DEF Compute, TypeOK
  <2> QED
    BY <2>1, <2>2, <2>3, <1>a DEF WaveComputed, InWave, WaveSize, GradientAt
<1>3. CASE DispatchWave
  <2>1. /\ UNCHANGED wave
        /\ assigned' = [w \in Workers |-> InWave(w) \/ assigned[w]]
        /\ task' = [w \in Workers |-> IF InWave(w) THEN wave[1] + w
                                       ELSE task[w]]
    BY <1>3 DEF DispatchWave, Assign, batchVars
  <2>2. ASSUME NEW w \in Workers, InWave(w)
        PROVE  task'[w] = wave[1] + w /\ assigned'[w]
    BY <2>1, <2>2
  <2> QED
    BY <2>1, <2>2 DEF WaveComputed, InWave, WaveSize
<1>4. CASE DispatchFails \/ Accumulate \/ (\E k \in 0 .. BatchCount - 1 : RequestBatch(k))
  BY <1>4 DEF DispatchFails, Accumulate, RequestBatch, WaveComputed
<1>5. ASSUME NEW w \in Workers, WorkerWakesSpuriously(w) PROVE WaveComputed'
  <2>1. UNCHANGED <<task, assigned, success, gradient, wave, model, bad, caller>>
    BY <1>5 DEF WorkerWakesSpuriously, batchVars
  <2>2. \A v \in Workers : place'[v] = "computing" <=> place[v] = "computing"
    BY <1>5, <1>a DEF WorkerWakesSpuriously, TypeOK
  <2> QED
    BY <2>1, <2>2, <1>a DEF WaveComputed, InWave, WaveSize, GradientAt
<1>6. CASE StartWorker \/ StartFails \/ Free \/ AccumulateFails \/ FailBatch
             \/ UpdateModel \/ WaitFails \/ Joined
  BY <1>6
  DEF StartWorker, StartFails, Free, StopWorkers, AccumulateFails, FailBatch,
      UpdateModel, WaitFails, Joined, WaveComputed
<1>7. CASE CallerWakesSpuriously \/ WakeUp \/ UNCHANGED vars
  <2>1. /\ UNCHANGED <<workerVars, wave, model, bad>>
        /\ Out' => Out
    BY <1>7 DEF CallerWakesSpuriously, WakeUp, vars, batchVars
  <2> QED
    BY <2>1, <1>a DEF WaveComputed, InWave, WaveSize, GradientAt, workerVars
<1> QED
  BY <1>1, <1>2, <1>3, <1>4, <1>5, <1>6, <1>7
  DEF Next, Worker, Coordinator, Fault, Spurious, Client, Terminated

(* The failure of a batch.                                                  *)
LEMMA FailureStep ==
  ASSUME PoolIInv, [Next]_vars
  PROVE  FirstFailureReported' /\ error' \in Positions \cup {-1}
<1>a. TypeOK /\ PlanFollowed /\ ReducedInOrder /\ FirstFailureReported
  BY DEF PoolIInv
<1>1. CASE FailBatch
  <2>1. PICK w \in Failed : /\ \A v \in Failed : w <= v
                            /\ error' = task[w]
    BY <1>1 DEF FailBatch
  <2>2. caller = "collect" /\ UNCHANGED <<range, bad>>
    BY <1>1 DEF FailBatch
  <2>3. w \in Workers /\ InWave(w) /\ ~success[w]
    BY DEF Failed
  <2>4. task[w] = wave[1] + w /\ Order[wave[1] + w] \in bad
    BY <2>2, <2>3, WaveDone
  <2>5. /\ wave[1] \in Nat /\ range[1] \in Nat /\ range[1] <= wave[1]
        /\ w \in Nat
    BY <1>a, <2>2, <2>3, PoolSize DEF TypeOK, PlanFollowed, InWaves
  <2>6. ASSUME NEW i \in range[1] .. error' - 1 PROVE Order[i] \notin bad
    <3>1. CASE i < wave[1]
      BY <1>a, <2>2, <2>5, <3>1 DEF ReducedInOrder, ReducedUpTo, InWaves
    <3>2. CASE i >= wave[1]
      <4> DEFINE v == i - wave[1]
      <4>1. v \in Nat /\ v < w /\ i = wave[1] + v
        BY <2>1, <2>4, <2>5, <3>2
      <4>2. v \in Workers /\ InWave(v)
        BY <2>3, <4>1, PoolSize, WaveTyped, <2>2 DEF InWave
      <4>3. v \notin Failed
        BY <2>1, <2>5, <4>1
      <4> QED
        BY <2>2, <4>1, <4>2, <4>3, WaveDone DEF Failed
    <3> QED
      BY <2>5, <3>1, <3>2
  <2>7. error' \in Positions
    BY <1>a, <2>1, <2>3 DEF TypeOK
  <2> QED
    BY <2>1, <2>2, <2>4, <2>6, <2>7 DEF FirstFailureReported
<1>2. CASE \E k \in 0 .. BatchCount - 1 : RequestBatch(k)
  BY <1>2 DEF RequestBatch, FirstFailureReported
<1>3. CASE UNCHANGED <<error, range, bad>>
  BY <1>3, <1>a DEF FirstFailureReported, TypeOK
<1> QED
  BY <1>1, <1>2, <1>3, OtherSteps
  DEF Accumulate, AccumulateFails, UpdateModel, batchVars

-----------------------------------------------------------------------------
(* Types.                                                                   *)

LEMMA WorkerTypes ==
  ASSUME PoolIInv, [Next]_vars
  PROVE  /\ place' \in [Workers -> {"unborn", "locking", "waiting",
                                    "computing", "finishing", "exited"}]
         /\ assigned' \in [Workers -> BOOLEAN]
         /\ task' \in [Workers -> Positions]
         /\ success' \in [Workers -> BOOLEAN]
         /\ gradient' \in [Workers -> Gradient]
<1> DEFINE Typed == /\ place \in [Workers -> {"unborn", "locking", "waiting",
                                              "computing", "finishing", "exited"}]
                    /\ assigned \in [Workers -> BOOLEAN]
                    /\ task \in [Workers -> Positions]
                    /\ success \in [Workers -> BOOLEAN]
                    /\ gradient \in [Workers -> Gradient]
<1>a. TypeOK /\ Typed
  BY DEF PoolIInv, TypeOK
<1>1. ASSUME NEW w \in Workers, WorkerLocks(w) PROVE Typed'
  BY <1>1, <1>a DEF WorkerLocks, TakeTask
<1>2. ASSUME NEW w \in Workers, Compute(w) PROVE Typed'
  <2>1. UNCHANGED <<assigned, task>>
    BY <1>2 DEF Compute
  <2>2. gradient' = [gradient EXCEPT ![w] = GradientAt(task[w])]
    BY <1>2 DEF Compute, GradientAt
  <2>3. GradientAt(task[w]) \in Gradient
    BY <1>a, GradientTyped
  <2>4. gradient' \in [Workers -> Gradient]
    BY <1>a, <2>2, <2>3
  <2>5. /\ place' = [place EXCEPT ![w] = "finishing"]
        /\ success' = [success EXCEPT ![w] = Order[task[w]] \notin bad]
    BY <1>2 DEF Compute
  <2> QED
    BY <1>a, <2>1, <2>4, <2>5
<1>3. ASSUME NEW w \in Workers, WorkerWakesSpuriously(w) PROVE Typed'
  BY <1>3, <1>a DEF WorkerWakesSpuriously
<1>4. CASE StartWorker \/ StartFails \/ Free
  BY <1>4, <1>a DEF StartWorker, StartFails, Free, StopWorkers, Unborn, Awakened
<1>5. CASE DispatchWave \/ DispatchFails
  <2>1. gradient' = gradient /\ place' \in {place, Awakened}
    BY <1>5 DEF DispatchWave, DispatchFails
  <2>2. place' \in [Workers -> {"unborn", "locking", "waiting", "computing",
                                "finishing", "exited"}]
    BY <1>a, <2>1 DEF Awakened
  <2>3. CASE Assign
    <3>1. ASSUME NEW w \in Workers, InWave(w), caller = "dispatch"
          PROVE  wave[1] + w \in Positions
      <4>1. /\ wave[1] \in Nat /\ wave[2] \in 0 .. SampleCount
            /\ w \in Nat /\ w < wave[2] - wave[1]
        BY <1>a, <3>1, PoolSize DEF TypeOK, InWave, WaveSize
      <4> QED
        BY <4>1, PoolSize DEF Positions
    <3>2. task' \in [Workers -> Positions]
      BY <1>a, <1>5, <2>3, <3>1 DEF Assign, DispatchWave, DispatchFails
    <3>3. assigned' \in [Workers -> BOOLEAN] /\ success' \in [Workers -> BOOLEAN]
      BY <2>3, Zenon DEF Assign
    <3> QED
      BY <1>a, <2>1, <2>2, <3>2, <3>3
  <2>4. CASE UNCHANGED <<assigned, task, success>>
    BY <1>a, <2>1, <2>2, <2>4
  <2> QED
    BY <1>5, <2>3, <2>4 DEF DispatchWave, DispatchFails
<1>6. CASE UNCHANGED workerVars
  BY <1>6, <1>a DEF workerVars
<1> QED
  BY <1>1, <1>2, <1>3, <1>4, <1>5, <1>6
  DEF Next, Worker, Coordinator, Fault, Spurious, Client, Terminated, Joined,
      WakeUp, FailBatch, Accumulate, UpdateModel, WaitFails, AccumulateFails,
      CallerWakesSpuriously, RequestBatch, vars

LEMMA FlagTypes ==
  ASSUME PoolIInv, [Next]_vars
  PROVE  /\ stopping' \in BOOLEAN /\ broken' \in BOOLEAN
         /\ caller' \in {"create", "ready", "dispatch", "waiting", "woken",
                         "collect", "update", "join", "freed"}
<1> DEFINE Typed ==
      /\ stopping \in BOOLEAN /\ broken \in BOOLEAN
      /\ caller \in {"create", "ready", "dispatch", "waiting", "woken",
                     "collect", "update", "join", "freed"}
<1>a. Typed
  BY DEF PoolIInv, TypeOK
<1>1. CASE \E w \in Workers : \/ WorkerLocks(w) \/ Compute(w)
                              \/ WorkerWakesSpuriously(w)
  BY <1>1, <1>a DEF WorkerLocks, CountDown, Compute, WorkerWakesSpuriously,
                    poolVars
<1>2. CASE ~(\E w \in Workers : \/ WorkerLocks(w) \/ Compute(w)
                               \/ WorkerWakesSpuriously(w))
  BY <1>2, <1>a
  DEF Next, Worker, Coordinator, Fault, Spurious, Client, Terminated,
      StartWorker, StartFails, Free, StopWorkers, Joined, DispatchWave,
      DispatchFails, WaitFails, CallerWakesSpuriously, WakeUp, vars,
      RequestBatch, Accumulate, AccumulateFails, FailBatch, UpdateModel, poolVars
<1> QED
  BY <1>1, <1>2

LEMMA BatchTypes ==
  ASSUME PoolIInv, [Next]_vars
  PROVE  /\ sum' \in Seq(Gradient) /\ model' \in Seq(Seq(Gradient))
         /\ bad' \in BadSets /\ batches' \in 0 .. MaxBatches
<1>a. /\ sum \in Seq(Gradient) /\ model \in Seq(Seq(Gradient))
      /\ bad \in BadSets /\ batches \in 0 .. MaxBatches
  BY DEF PoolIInv, TypeOK
<1>1. ASSUME NEW k \in 0 .. BatchCount - 1, RequestBatch(k)
      PROVE  /\ sum' = <<>> /\ UNCHANGED <<model, bad>>
             /\ batches' \in 0 .. MaxBatches
  BY <1>1, <1>a, PoolAssumption DEF RequestBatch
<1>2. CASE Accumulate
  BY <1>2, <1>a, WaveTyped, ConcatProperties DEF Accumulate
<1>3. CASE AccumulateFails
  <2>1. PICK n \in 0 .. WaveSize : sum' = sum \o SubSeq(WaveGradients, 1, n)
    BY <1>3 DEF AccumulateFails
  <2>2. /\ WaveGradients \in Seq(Gradient) /\ Len(WaveGradients) = WaveSize
        /\ WaveSize \in Nat
    BY <1>3, WaveTyped DEF AccumulateFails
  <2>3. \A i \in 1 .. n : WaveGradients[i] \in Gradient
    BY <2>2, ElementOfSeq
  <2>4. SubSeq(WaveGradients, 1, n) \in Seq(Gradient)
    BY <2>2, <2>3, SubSeqProperties
  <2>5. sum' \in Seq(Gradient)
    BY <1>a, <2>1, <2>4, ConcatProperties
  <2> QED
    BY <1>3, <1>a, <2>5 DEF AccumulateFails
<1>4. CASE UpdateModel
  <2>1. Append(model, sum) \in Seq(Seq(Gradient))
    BY <1>a, AppendProperties
  <2> QED
    BY <1>4, <1>a, <2>1 DEF UpdateModel, batchVars
<1>5. CASE FailBatch
  BY <1>5, <1>a DEF FailBatch
<1>6. CASE UNCHANGED <<sum, model, bad, batches>>
  BY <1>6, <1>a
<1> QED
  BY <1>1, <1>2, <1>3, <1>4, <1>5, <1>6, <1>a, OtherSteps, EmptySeq DEF batchVars

LEMMA TypeStep ==
  ASSUME PoolIInv, [Next]_vars
  PROVE  TypeOK'
BY PendingStep, PlanStep, FailureStep, WorkerTypes, FlagTypes, BatchTypes DEF TypeOK

-----------------------------------------------------------------------------

(* The invariant of the pool, kept by every step of every thread.           *)
THEOREM PoolInvariance == Spec => []PoolIInv
<1>1. PoolIInv /\ [Next]_vars => PoolIInv'
  BY PendingStep, CallerStep, PlanStep, ReducedStep, WaveStep, FailureStep,
     TypeStep DEF PoolIInv
<1> QED
  BY InitPool, <1>1, PTL DEF Spec

(* The pool's variables keep their types; in particular the unsigned count  *)
(* of pending workers never wraps, whatever fails.                          *)
THEOREM PoolTypeCorrect == Spec => []TypeOK
BY PoolInvariance, PTL DEF PoolIInv

(* Whenever the caller is back in its own code with a pool that still       *)
(* works, no worker has a task or is computing one: the model is the        *)
(* caller's to change.                                                      *)
THEOREM CallerOwns == Spec => []CallerOwnsModel
<1>1. PoolIInv => CallerOwnsModel
  BY NoneBusy DEF PoolIInv, CallerPlaces, CallerOwnsModel
<1> QED
  BY <1>1, PoolInvariance, PTL

(* The failure reported for a batch is the first in logical order.          *)
THEOREM FirstFailure == Spec => []FirstFailureReported
BY PoolInvariance, PTL DEF PoolIInv

-----------------------------------------------------------------------------
(* The pool implements the serial reduction.                                *)

(* A batch that is answered was reduced as one thread would reduce it.      *)
LEMMA UpdateIsSerial ==
  ASSUME PoolIInv, UpdateModel
  PROVE  Serial!Next
<1>a. /\ caller = "update" /\ model' = Append(model, sum) /\ bad' = bad
      /\ TypeOK
  BY DEF UpdateModel, PoolIInv
<1>1. range \in Serial!Batches /\ ReducedUpTo(range[2])
  BY <1>a DEF PoolIInv, PlanFollowed, ReducedInOrder, InBatch
<1>2. /\ range[1] \in 0 .. SampleCount - 1 /\ range[2] \in 1 .. SampleCount
      /\ range[1] < range[2]
  BY <1>1, BatchBounds
<1> DEFINE n == range[2] - range[1]
<1>3. n \in Nat /\ \A i \in 1 .. n : range[1] + i - 1 \in Positions
  BY <1>2, PoolSize DEF Positions
<1>4. \A i \in 1 .. n : Serial!InOrder(range)[i] = GradientAt(range[1] + i - 1)
  BY DEF Serial!InOrder, GradientAt
<1>5. Serial!InOrder(range) \in [1 .. n -> Gradient]
  <2>1. \A i \in 1 .. n : GradientAt(range[1] + i - 1) \in Gradient
    BY <1>a, <1>3, GradientTyped
  <2>2. Serial!InOrder(range) =
          [i \in 1 .. n |-> [sample |-> Order[range[1] + i - 1],
                             version |-> Len(model)]]
    BY DEF Serial!InOrder
  <2> QED
    BY <2>1, <2>2 DEF GradientAt
<1>6. /\ Serial!InOrder(range) \in Seq(Gradient)
      /\ Len(Serial!InOrder(range)) = n
  BY <1>3, <1>5
<1>7. sum \in Seq(Gradient) /\ Len(sum) = n
      /\ \A i \in 1 .. n : sum[i] = GradientAt(range[1] + i - 1)
  BY <1>a, <1>1 DEF TypeOK, ReducedUpTo
<1>8. sum = Serial!InOrder(range)
  <2> HIDE DEF n
  <2> QED
    BY <1>4, <1>6, <1>7, SeqEqual
<1>9. Serial!Update(range)
  BY <1>a, <1>1, <1>8 DEF Serial!Update, ReducedUpTo
<1> QED
  BY <1>1, <1>9 DEF Serial!Next

(* Whatever the number of workers, their schedule and the failures, the     *)
(* model changes as if one thread computed every batch in order.            *)
THEOREM SerialImplemented == Spec => ImplementsSerial
<1>1. Init => Serial!Init
  BY PoolAssumption DEF Init, Serial!Init, Positions
<1>2. ASSUME PoolIInv, [Next]_vars
      PROVE  [Serial!Next]_(Serial!serialVars)
  <2>1. CASE UpdateModel
    BY <1>2, <2>1, UpdateIsSerial
  <2>2. CASE (\E k \in 0 .. BatchCount - 1 : RequestBatch(k)) \/ Accumulate
               \/ AccumulateFails \/ FailBatch
    BY <2>2 DEF RequestBatch, Accumulate, AccumulateFails, FailBatch,
                Serial!serialVars
  <2> QED
    BY <1>2, <2>1, <2>2, OtherSteps DEF Serial!serialVars
<1> QED
  BY <1>1, <1>2, PoolInvariance, PTL DEF Spec, ImplementsSerial, Serial!Spec
=============================================================================
