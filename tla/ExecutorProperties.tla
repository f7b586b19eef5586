-------------------------- MODULE ExecutorProperties --------------------------
(***************************************************************************)
(* What the worker pool must guarantee to its caller under every schedule  *)
(* of its threads, spurious wakeups and failing synchronization calls.     *)
(***************************************************************************)
EXTENDS Executor, FiniteSets

Gradient == [sample : Positions, version : Nat]

(* Type invariant of the pool; the count of pending workers never wraps.    *)
TypeOK ==
  /\ place \in [Workers -> {"unborn", "locking", "waiting", "computing",
                            "finishing", "exited"}]
  /\ assigned \in [Workers -> BOOLEAN]
  /\ task \in [Workers -> Positions]
  /\ success \in [Workers -> BOOLEAN]
  /\ gradient \in [Workers -> Gradient]
  /\ pending \in 0 .. WorkerCount
  /\ stopping \in BOOLEAN
  /\ broken \in BOOLEAN
  /\ caller \in {"create", "ready", "dispatch", "waiting", "woken", "collect",
                 "update", "join", "freed"}
  /\ range \in (0 .. SampleCount) \X (0 .. SampleCount)
  /\ wave \in (0 .. SampleCount) \X (0 .. SampleCount)
  /\ sum \in Seq(Gradient)
  /\ error \in Positions \cup {-1}
  /\ model \in Seq(Seq(Gradient))
  /\ bad \in BadSets
  /\ batches \in 0 .. MaxBatches

Busy(w) == assigned[w] \/ place[w] \in {"computing", "finishing"}

(* Between two batches the caller owns the model: no worker has a task or   *)
(* is still computing one, also after a batch that failed.                  *)
CallerOwnsModel ==
  caller \in {"ready", "update"} /\ ~broken => \A w \in Workers : ~Busy(w)

(* The failure reported for a batch is its first bad sample in logical      *)
(* order, whichever worker failed first.                                    *)
FirstFailureReported ==
  error # -1 =>
    /\ Order[error] \in bad
    /\ \A i \in range[1] .. error - 1 : Order[i] \notin bad

(* Updates are those of a single thread: whatever the number of workers and *)
(* their schedule, a batch is reduced in logical order from gradients of    *)
(* the current parameters.                                                  *)
Serial == INSTANCE SerialBatches

ImplementsSerial == Serial!Spec

(* No wakeup is lost: every batch that is requested is answered, and        *)
(* freeing the pool joins every worker, even while some still compute.      *)
CallsReturn ==
  /\ caller = "dispatch" ~> caller \in {"ready", "update"}
  /\ stopping ~> caller = "freed"

-----------------------------------------------------------------------------
(* The inductive invariant behind the theorems of ExecutorProofs.           *)

BusyWorkers == {w \in Workers : Busy(w)}

(* The count of pending workers is that of the workers with a task, also    *)
(* after a failure of the pool has given a wave up.                         *)
PendingCountsBusy ==
  /\ pending = Cardinality(BusyWorkers)
  /\ \A w \in Workers :
       place[w] \in {"computing", "finishing"} => ~assigned[w]

(* A wave is given up for good, and a call works only when none is pending. *)
CallerPlaces ==
  /\ broken => caller \in {"ready", "join", "freed"}
  /\ ~broken /\ caller \in {"create", "ready", "dispatch", "collect", "update"}
       => pending = 0

(* A gradient of the current parameters, of the sample at a position.       *)
GradientAt(i) == [sample |-> Order[i], version |-> Len(model)]

InBatch == caller \in {"dispatch", "waiting", "woken", "collect", "update"}

InWaves == caller \in {"dispatch", "waiting", "woken", "collect"}

(* The batch is one of the plan, the wave a part of it that the workers can *)
(* take at once.                                                            *)
PlanFollowed ==
  /\ InBatch => range \in Serial!Batches
  /\ InWaves =>
       /\ range[1] <= wave[1] /\ wave[1] < wave[2] /\ wave[2] <= range[2]
       /\ wave[2] - wave[1] <= WorkerCount

(* The gradients of the first positions of the batch are in the sum, in     *)
(* order and of the current parameters, and none of them failed.            *)
ReducedUpTo(end) ==
  /\ Len(sum) = end - range[1]
  /\ \A i \in 1 .. end - range[1] : sum[i] = GradientAt(range[1] + i - 1)
  /\ \A i \in range[1] .. end - 1 : Order[i] \notin bad

ReducedInOrder ==
  /\ InWaves => ReducedUpTo(wave[1])
  /\ caller = "update" => ReducedUpTo(range[2])

(* A worker of the wave that has computed holds the result of its task.     *)
WaveComputed ==
  caller \in {"waiting", "woken", "collect"} =>
    \A w \in Workers :
      InWave(w) =>
        /\ task[w] = wave[1] + w
        /\ ~assigned[w] /\ place[w] # "computing" =>
             /\ success[w] = (Order[task[w]] \notin bad)
             /\ gradient[w] = GradientAt(task[w])

PoolIInv ==
  /\ TypeOK /\ PendingCountsBusy /\ CallerPlaces /\ PlanFollowed
  /\ ReducedInOrder /\ WaveComputed /\ FirstFailureReported
=============================================================================
