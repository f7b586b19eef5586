------------------------------- MODULE Executor -------------------------------
(***************************************************************************)
(* The persistent worker pool (src/executor.c, with the wave plan of       *)
(* parallel.c and the batch plan and accumulator of batch.c), driven by    *)
(* one coordinator as the epoch loop of training.c drives it.              *)
(*                                                                         *)
(* Every access to shared fields happens under the pool's mutex, so a      *)
(* critical section is one action: from the lock to the next unlock or     *)
(* condition wait.  Sample gradients are computed outside it.  A gradient  *)
(* is abstracted to the sample and to the version of the parameters that   *)
(* it was computed with.                                                   *)
(***************************************************************************)
EXTENDS Integers, Sequences

CONSTANTS
  SampleCount,   \* samples of the dataset
  BatchSize,     \* samples of a full batch
  ThreadCount,   \* --threads
  Order,         \* the sample at each logical position of the epoch
  BadSets,       \* the sets of samples whose gradient may be not finite
  MaxBatches     \* bound on the batches a caller requests

Positions == 0 .. SampleCount - 1

ASSUME PoolAssumption ==
  /\ SampleCount \in Nat \ {0}
  /\ BatchSize \in 1 .. SampleCount
  /\ ThreadCount \in Nat \ {0}
  /\ Order \in [Positions -> Positions]
  /\ \A i, j \in Positions : Order[i] = Order[j] => i = j
  /\ BadSets \subseteq SUBSET Positions
  /\ MaxBatches \in Nat

Least(a, b) == IF a < b THEN a ELSE b

WorkerCount == Least(ThreadCount, SampleCount)

Workers == 0 .. WorkerCount - 1

VARIABLES
  place,      \* where each worker is
  assigned,   \* the flag that hands a worker its task
  task,       \* the logical position of the task
  success,    \* whether the last task of a worker succeeded
  gradient,   \* the gradient in its context
  pending,    \* pending_worker_count
  stopping,   \* the pool is being shut down
  broken,     \* a synchronization call has failed
  caller,     \* where the coordinator is
  range,      \* the batch being computed
  wave,       \* the wave being computed
  sum,        \* the accumulator: gradients added so far
  error,      \* logical position of the reported failure, -1 for others
  model,      \* the batch gradients applied so far
  bad,        \* the samples whose gradient is not finite
  batches     \* batches requested so far

workerVars == <<place, assigned, task, success, gradient, pending>>
poolVars == <<stopping, broken>>
batchVars == <<range, wave, sum, error>>
vars == <<workerVars, poolVars, batchVars, caller, model, bad, batches>>

NoGradient == [sample |-> 0, version |-> 0]

Init ==
  /\ place = [w \in Workers |-> "unborn"]
  /\ assigned = [w \in Workers |-> FALSE]
  /\ task = [w \in Workers |-> 0]
  /\ success = [w \in Workers |-> FALSE]
  /\ gradient = [w \in Workers |-> NoGradient]
  /\ pending = 0
  /\ stopping = FALSE
  /\ broken = FALSE
  /\ caller = "create"
  /\ range = <<0, 0>>
  /\ wave = <<0, 0>>
  /\ sum = <<>>
  /\ error = -1
  /\ model = <<>>
  /\ bad \in BadSets
  /\ batches = 0

-----------------------------------------------------------------------------
(* Plans: contiguous ranges of logical positions.                           *)

BatchRange(k) ==
  LET begin == k * BatchSize
  IN  <<begin, begin + Least(SampleCount - begin, BatchSize)>>

BatchCount ==
  SampleCount \div BatchSize + (IF SampleCount % BatchSize # 0 THEN 1 ELSE 0)

(* The wave that begins at a position of the current batch.                 *)
WaveFrom(begin, r) ==
  <<begin, begin + Least(r[2] - begin, Least(WorkerCount, r[2] - r[1]))>>

WaveSize == wave[2] - wave[1]

InWave(w) == w < WaveSize

(* What a broadcast does.                                                   *)
Awakened ==
  [w \in Workers |-> IF place[w] = "waiting" THEN "locking" ELSE place[w]]

-----------------------------------------------------------------------------
(* A worker.                                                                *)

(* Mutant: the count is tested before it is decremented.                    *)
CountDownLate(w) ==
  IF place[w] = "finishing"
    THEN /\ pending' = pending - 1
         /\ caller' = IF pending = 0 /\ caller = "waiting"
                        THEN "woken" ELSE caller
    ELSE UNCHANGED <<pending, caller>>

(* A finished task is counted; the last one signals the coordinator.        *)
CountDown(w) ==
  IF place[w] = "finishing"
    THEN /\ pending' = pending - 1
         /\ caller' = IF pending = 1 /\ caller = "waiting"
                        THEN "woken" ELSE caller
    ELSE UNCHANGED <<pending, caller>>

(* Mutant: the task flag is left set.                                       *)
TakeTaskAgain(w) ==
  /\ place' = [place EXCEPT ![w] = IF stopping THEN "exited"
                                   ELSE IF assigned[w] THEN "computing"
                                   ELSE "waiting"]
  /\ UNCHANGED assigned

TakeTask(w) ==
  IF stopping
    THEN place' = [place EXCEPT ![w] = "exited"] /\ UNCHANGED assigned
  ELSE IF assigned[w]
    THEN /\ place' = [place EXCEPT ![w] = "computing"]
         /\ assigned' = [assigned EXCEPT ![w] = FALSE]
  ELSE place' = [place EXCEPT ![w] = "waiting"] /\ UNCHANGED assigned

(* The worker's critical section, at its start, after a task or a wakeup.   *)
WorkerLocks(w) ==
  /\ place[w] \in {"locking", "finishing"}
  /\ CountDown(w)
  /\ TakeTask(w)
  /\ UNCHANGED <<task, success, gradient, poolVars, batchVars, model, bad,
                 batches>>

(* The sample gradient, outside the mutex; it fails for a bad sample.       *)
Compute(w) ==
  LET sample == Order[task[w]]
  IN  /\ place[w] = "computing"
      /\ place' = [place EXCEPT ![w] = "finishing"]
      /\ success' = [success EXCEPT ![w] = sample \notin bad]
      /\ gradient' = [gradient EXCEPT
                        ![w] = [sample |-> sample, version |-> Len(model)]]
      /\ UNCHANGED <<assigned, task, pending, poolVars, batchVars, caller,
                     model, bad, batches>>

(* pthread_cond_wait may return without a signal.                           *)
WorkerWakesSpuriously(w) ==
  /\ place[w] = "waiting"
  /\ place' = [place EXCEPT ![w] = "locking"]
  /\ UNCHANGED <<assigned, task, success, gradient, pending, poolVars,
                 batchVars, caller, model, bad, batches>>

-----------------------------------------------------------------------------
(* The coordinator: creation.                                               *)

Unborn == {w \in Workers : place[w] = "unborn"}

StartWorker ==
  /\ caller = "create"
  /\ \E w \in Unborn :
       /\ \A v \in Unborn : w <= v
       /\ place' = [place EXCEPT ![w] = "locking"]
       /\ caller' = IF Unborn = {w} THEN "ready" ELSE "create"
  /\ UNCHANGED <<assigned, task, success, gradient, pending, poolVars,
                 batchVars, model, bad, batches>>

(* The coordinator's own stop request: flag, broadcast, then the joins.     *)
StopWorkers ==
  /\ stopping' = TRUE
  /\ place' = Awakened
  /\ caller' = "join"
  /\ UNCHANGED <<assigned, task, success, gradient, pending, broken,
                 batchVars, model, bad, batches>>

(* pthread_create fails: the workers that did start are stopped.            *)
StartFails == caller = "create" /\ StopWorkers

(* neural_parallel_executor_free, between batches.                          *)
Free == caller = "ready" /\ StopWorkers

(* Every started thread has been joined; contexts and mutex are destroyed.  *)
Joined ==
  /\ caller = "join"
  /\ \A w \in Workers : place[w] \in {"unborn", "exited"}
  /\ caller' = "freed"
  /\ UNCHANGED <<workerVars, poolVars, batchVars, model, bad, batches>>

-----------------------------------------------------------------------------
(* The coordinator: one batch.                                              *)

(* Mutant: the accumulator keeps what a failed batch has left in it.        *)
RequestUnreset(k) ==
  /\ caller = "ready"
  /\ ~broken
  /\ batches < MaxBatches
  /\ batches' = batches + 1
  /\ range' = BatchRange(k)
  /\ wave' = WaveFrom(BatchRange(k)[1], BatchRange(k))
  /\ error' = -1
  /\ caller' = "dispatch"
  /\ UNCHANGED <<workerVars, poolVars, sum, model, bad>>

(* A batch of the plan; a broken executor refuses all of them.              *)
RequestBatch(k) ==
  /\ caller = "ready"
  /\ ~broken
  /\ batches < MaxBatches
  /\ batches' = batches + 1
  /\ range' = BatchRange(k)
  /\ wave' = WaveFrom(BatchRange(k)[1], BatchRange(k))
  /\ sum' = <<>>
  /\ error' = -1
  /\ caller' = "dispatch"
  /\ UNCHANGED <<workerVars, poolVars, model, bad>>

Assign ==
  /\ pending' = WaveSize
  /\ assigned' = [w \in Workers |-> InWave(w) \/ assigned[w]]
  /\ task' = [w \in Workers |-> IF InWave(w) THEN wave[1] + w ELSE task[w]]
  /\ success' = [w \in Workers |-> ~InWave(w) /\ success[w]]

(* The whole wave is assigned before the broadcast and the first wait.      *)
DispatchWave ==
  /\ caller = "dispatch"
  /\ Assign
  /\ place' = Awakened
  /\ caller' = "waiting"
  /\ UNCHANGED <<gradient, poolVars, batchVars, model, bad, batches>>

(* The mutex cannot be locked, or the broadcast fails after the assignment. *)
DispatchFails ==
  /\ caller = "dispatch"
  /\ Assign \/ UNCHANGED <<pending, assigned, task, success>>
  /\ broken' = TRUE
  /\ caller' = "ready"
  /\ UNCHANGED <<place, gradient, stopping, batchVars, model, bad, batches>>

CallerWakesSpuriously ==
  /\ caller = "waiting"
  /\ caller' = "woken"
  /\ UNCHANGED <<workerVars, poolVars, batchVars, model, bad, batches>>

(* Mutant: the count is not looked at again after a wakeup.                 *)
WakeUpAnyway ==
  /\ caller = "woken"
  /\ caller' = "collect"
  /\ UNCHANGED <<workerVars, poolVars, batchVars, model, bad, batches>>

WakeUp ==
  /\ caller = "woken"
  /\ caller' = IF pending # 0 THEN "waiting" ELSE "collect"
  /\ UNCHANGED <<workerVars, poolVars, batchVars, model, bad, batches>>

(* pthread_cond_wait fails: the batch is given up, its workers run on.      *)
WaitFails ==
  /\ caller = "waiting"
  /\ broken' = TRUE
  /\ caller' = "ready"
  /\ UNCHANGED <<workerVars, stopping, batchVars, model, bad, batches>>

Failed == {w \in Workers : InWave(w) /\ ~success[w]}

(* Mutant: the last failing worker is the one reported.                     *)
FailLast ==
  /\ caller = "collect"
  /\ \E w \in Failed :
       /\ \A v \in Failed : v <= w
       /\ error' = task[w]
  /\ caller' = "ready"
  /\ UNCHANGED <<workerVars, poolVars, range, wave, sum, model, bad, batches>>

(* The first failing worker of the wave is reported, the batch given up.    *)
FailBatch ==
  /\ caller = "collect"
  /\ \E w \in Failed :
       /\ \A v \in Failed : w <= v
       /\ error' = task[w]
  /\ caller' = "ready"
  /\ UNCHANGED <<workerVars, poolVars, range, wave, sum, model, bad, batches>>

WaveGradients == [i \in 1 .. WaveSize |-> gradient[i - 1]]

(* The accumulator adds the wave in logical order; the last one finishes.   *)
Accumulate ==
  /\ caller = "collect"
  /\ Failed = {}
  /\ sum' = sum \o WaveGradients
  /\ IF wave[2] = range[2]
       THEN caller' = "update" /\ UNCHANGED wave
       ELSE caller' = "dispatch" /\ wave' = WaveFrom(wave[2], range)
  /\ UNCHANGED <<workerVars, poolVars, range, error, model, bad, batches>>

(* The compensated sum or the mean is not finite.                           *)
AccumulateFails ==
  /\ caller = "collect"
  /\ Failed = {}
  /\ caller' = "ready"
  /\ \E n \in 0 .. WaveSize : sum' = sum \o SubSeq(WaveGradients, 1, n)
  /\ UNCHANGED <<workerVars, poolVars, range, wave, error, model, bad, batches>>

(* The caller's optimizer step, between two batches.                        *)
UpdateModel ==
  /\ caller = "update"
  /\ model' = Append(model, sum)
  /\ caller' = "ready"
  /\ UNCHANGED <<workerVars, poolVars, batchVars, bad, batches>>

-----------------------------------------------------------------------------

Worker(w) == WorkerLocks(w) \/ Compute(w)

Coordinator ==
  \/ StartWorker \/ Joined
  \/ DispatchWave \/ WakeUp \/ FailBatch \/ Accumulate \/ UpdateModel

Fault == StartFails \/ DispatchFails \/ WaitFails \/ AccumulateFails

Spurious == CallerWakesSpuriously \/ \E w \in Workers : WorkerWakesSpuriously(w)

Client == Free \/ \E k \in 0 .. BatchCount - 1 : RequestBatch(k)

(* The pool is gone.                                                        *)
Terminated == caller = "freed" /\ UNCHANGED vars

Next ==
  \/ \E w \in Workers : Worker(w)
  \/ Coordinator \/ Fault \/ Spurious \/ Client \/ Terminated

Spec == Init /\ [][Next]_vars

(* Every thread runs, and a mutex that is free is eventually obtained.      *)
FairSpec ==
  /\ Spec
  /\ WF_vars(Coordinator)
  /\ \A w \in Workers : WF_vars(Worker(w))
=============================================================================
