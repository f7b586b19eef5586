----------------------------- MODULE TrainHistory -----------------------------
(***************************************************************************)
(* What the models, optimizer states and best models of a project hold of  *)
(* the epochs that were trained: the inductive invariant behind the        *)
(* history theorems of TrainProofs.                                        *)
(***************************************************************************)
EXTENDS TrainProperties

(* A command that may still train, save or publish.                         *)
Working == pc \notin {"idle", "remove"}

-----------------------------------------------------------------------------
(* The epochs 1 .. n of a run, with their outcomes in h.                    *)

Known(h, n) == \A e \in 1 .. n : h[e] # Absent

EndsAt(p, e) == Len(p) # 0 /\ p[Len(p)] = e

(* With early stopping a model may have gone back to a selected epoch.      *)
ModelSound(c, n, p) ==
  IF EarlyStopping(c)
    THEN Increasing(p) /\ (Len(p) # 0 => p[Len(p)] <= n)
    ELSE p = EpochsUpTo(n)

(* The optimizer has seen the last epochs, and has converged at none but    *)
(* the very last.                                                           *)
OptimizerSound(h, n, o) ==
  /\ Len(o.seen) <= n
  /\ \A i \in 1 .. Len(o.seen) : o.seen[i] = n - Len(o.seen) + i
  /\ \A e \in n - Len(o.seen) + 1 .. n - 1 : h[e].verdict = "none"
  /\ o.reason = IF Len(o.seen) = 0 THEN "none" ELSE h[n].verdict

(* No epoch beats the best one by more than the minimum delta.              *)
BestOf(h, c, n, e) ==
  /\ e \in 1 .. n
  /\ \A f \in 1 .. n : h[e].loss - h[f].loss <= c.minDelta

BestSound(h, c, n, b) ==
  b # Absent =>
    /\ EarlyStopping(c)
    /\ Increasing(b.params) /\ EndsAt(b.params, b.epoch)
    /\ BestOf(h, c, n, b.epoch)
    /\ b.loss = h[b.epoch].loss

(* Without convergence controls no epoch ends a run.                        *)
Fits(h, c) ==
  ~c.converges =>
    \A e \in 1 .. MaxEpoch : h[e] # Absent => h[e].verdict = "none"

-----------------------------------------------------------------------------
(* The three places that hold a model.                                      *)

RunHistory ==
  Working =>
    /\ Known(world, run.epoch) /\ Fits(world, run.config)
    /\ ModelSound(run.config, run.epoch, run.model)
    /\ OptimizerSound(world, run.epoch, run.optimizer)
    /\ BestSound(world, run.config,
                 IF pc = "observe" THEN run.epoch - 1 ELSE run.epoch, run.best)
    /\ pc \in {"observe", "save"} =>
         EndsAt(run.model, run.epoch) /\ Len(run.optimizer.seen) # 0
    /\ pc = "observe" /\ EarlyStopping(run.config) /\ run.best = Absent =>
         run.epoch = 1

CheckpointHistory ==
  checkpoint # Absent =>
    LET n == checkpoint.completed
        c == checkpoint.digest
    IN  /\ Known(world, n) /\ Fits(world, c)
        /\ ModelSound(c, n, checkpoint.params) /\ EndsAt(checkpoint.params, n)
        /\ OptimizerSound(world, n, checkpoint.optimizer)
        /\ Len(checkpoint.optimizer.seen) # 0
        /\ BestSound(world, c, n, checkpoint.best)

WeightsHistory ==
  weights # Absent =>
    LET n == weights.completed
        c == weights.digest
    IN  /\ Known(world, n) /\ Fits(world, c)
        /\ IF EarlyStopping(c)
             THEN /\ Increasing(weights.params)
                  /\ EndsAt(weights.params, weights.selected)
                  /\ BestOf(world, c, n, weights.selected)
             ELSE weights.params = EpochsUpTo(n)

-----------------------------------------------------------------------------
(* Where the optimizer began.                                               *)

OptimizerOver(n, target, o) == n = target \/ o.reason # "none"

(* The run began from nothing or from the weights, unless these are its own *)
(* result and all that is left of it is to finish.                          *)
RunBegan ==
  Working /\ ~EarlyStopping(run.config) =>
    LET began == run.epoch - Len(run.optimizer.seen)
    IN  IF weights = Absent THEN began = 0
        ELSE \/ began = weights.completed
             \/ /\ weights.completed = run.epoch
                /\ pc \in {"train", "finalize"}
                /\ OptimizerOver(run.epoch, run.target, run.optimizer)

CheckpointBegan ==
  checkpoint # Absent /\ ~EarlyStopping(checkpoint.digest) =>
    LET began == checkpoint.completed - Len(checkpoint.optimizer.seen)
    IN  /\ weights = Absent => began = 0
        /\ weights # Absent /\ weights.completed < checkpoint.completed =>
             began = weights.completed
        /\ weights # Absent /\ weights.completed = checkpoint.completed =>
             OptimizerOver(checkpoint.completed, checkpoint.target,
                           checkpoint.optimizer)

(* A checkpoint of the present epoch is a checkpoint of this run.           *)
CheckpointIsRun ==
  Working /\ checkpoint # Absent /\ checkpoint.completed = run.epoch =>
    checkpoint.optimizer = run.optimizer

-----------------------------------------------------------------------------
(* Targets and interruptions.                                               *)

(* Before the first weights the target is that of the configuration; a run  *)
(* that only its target can end never stops before.                         *)
Targets ==
  /\ weights = Absent =>
       /\ Working => run.target = run.config.epochs
       /\ checkpoint # Absent => checkpoint.target = checkpoint.digest.epochs
  /\ Working /\ RunsToTarget(run.config) => run.target >= run.config.epochs
  /\ weights # Absent /\ RunsToTarget(weights.digest) =>
       /\ weights.completed >= weights.digest.epochs
       /\ checkpoint # Absent =>
            \/ weights.completed <= checkpoint.completed
            \/ weights.completed = checkpoint.target

(* An interruption is reported with a checkpoint that is not behind.        *)
Interruption ==
  /\ pc = "notify" /\ run.caught =>
       /\ EarlyStopping(run.config)
       /\ checkpoint # Absent /\ checkpoint.completed = run.epoch
  /\ result = "interrupted" =>
       /\ pc = "idle" /\ checkpoint # Absent
       /\ weights # Absent =>
            /\ weights.completed <= checkpoint.completed
            /\ ~EarlyStopping(checkpoint.digest) =>
                 weights.completed < checkpoint.target

HistoryIInv ==
  /\ IInv /\ OverAtFinalize
  /\ RunHistory /\ CheckpointHistory /\ WeightsHistory
  /\ RunBegan /\ CheckpointBegan /\ CheckpointIsRun
  /\ Targets /\ Interruption
=============================================================================
