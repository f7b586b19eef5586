----------------------------- MODULE TrainProject -----------------------------
(***************************************************************************)
(* Project training (src/train_project.c, project_checkpoint.c and the     *)
(* epoch loop of training.c): fresh training, --resume and                 *)
(* --additional-epochs N over the two persisted files of one project       *)
(* directory, with signals, failed writes, failed epochs and crashes.      *)
(*                                                                         *)
(* One command runs at a time, under the exclusive project lock; "run" is  *)
(* its memory and "pc" its place.  Model parameters are abstracted to the  *)
(* sequence of absolute epochs whose updates they contain: sample order    *)
(* and batches depend only on the configuration and that epoch index, so   *)
(* equal sequences are bit-identical parameters.                           *)
(***************************************************************************)
EXTENDS Integers, Sequences

CONSTANTS
  Configs,     \* the training configurations project.conf may hold
  Losses,      \* the validation losses an epoch may show
  MaxEpoch,    \* the largest epoch number (SIZE_MAX)
  Additional,  \* the values of N given to --additional-epochs
  MaxFaults,   \* bound on failed steps and crashes
  Absent       \* no file, no best model, no outcome yet

Reasons == {"none", "loss_target", "no_improvement"}

(* patience = 0 disables early stopping, interval = 0 the periodic saves.   *)
Config ==
  [epochs : 1 .. MaxEpoch, interval : Nat, patience : Nat, minDelta : Nat,
   converges : BOOLEAN]

ASSUME ConfigAssumption ==
  /\ MaxEpoch \in Nat
  /\ Configs \subseteq Config
  /\ Losses \subseteq Nat
  /\ Additional \subseteq Nat \ {0}
  /\ MaxFaults \in Nat

Epoch == 0 .. MaxEpoch

Params == Seq(Epoch)

OptimizerState == [seen : Params, reason : Reasons]

BestModel == [params : Params, epoch : Epoch, loss : Nat, stale : Nat]

(* The digests of a file stand for the configuration it was produced with.  *)
Weights ==
  [digest : Configs, completed : Epoch, selected : Epoch, target : Epoch,
   version : {1, 2}, reason : Reasons \cup {"target", "early_stopping"},
   params : Params]

Checkpoint ==
  [digest : Configs, completed : Epoch, target : Epoch, params : Params,
   optimizer : OptimizerState, best : BestModel \cup {Absent}]

Run ==
  [mode : {"fresh", "resume", "additional"}, config : Configs \cup {Absent},
   epoch : Epoch, target : Epoch, model : Params, optimizer : OptimizerState,
   best : BestModel \cup {Absent}, caught : BOOLEAN,
   reason : Reasons \cup {"target", "early_stopping"}]

(* What an epoch of a run computes: drawn once, the same when repeated.     *)
Outcome == [loss : Losses, verdict : Reasons]

Outcomes(c) ==
  {o \in Outcome :
     /\ ~c.converges => o.verdict = "none"
     /\ c.patience = 0 => \A l \in Losses : o.loss <= l}

ASSUME AbsentAssumption ==
  /\ Absent \notin Weights
  /\ Absent \notin Checkpoint
  /\ Absent \notin BestModel
  /\ Absent \notin Outcome

VARIABLES
  weights,     \* weights.txt
  checkpoint,  \* checkpoint.txt
  project,     \* the configuration and data on disk
  world,       \* the outcome of each epoch since the last fresh start
  pc,          \* where the running command is
  run,         \* its memory
  stop,        \* the sig_atomic_t stop request
  result,      \* how the last command ended
  faults       \* failed steps and crashes so far

vars == <<weights, checkpoint, project, world, pc, run, stop, result, faults>>

EarlyStopping(c) == c.patience # 0

NoOutcomes == [e \in 1 .. MaxEpoch |-> Absent]

FreshOptimizer == [seen |-> <<>>, reason |-> "none"]

NoRun ==
  [mode |-> "fresh", config |-> Absent, epoch |-> 0, target |-> 0,
   model |-> <<>>, optimizer |-> FreshOptimizer, best |-> Absent,
   caught |-> FALSE, reason |-> "none"]

Init ==
  /\ weights = Absent
  /\ checkpoint = Absent
  /\ project \in Configs
  /\ world = NoOutcomes
  /\ pc = "idle"
  /\ run = NoRun
  /\ stop = FALSE
  /\ result = "none"
  /\ faults = 0

-----------------------------------------------------------------------------
(* Acceptance of a command by what it finds on disk.                        *)

(* Mutant: a fresh run that only looks for weights.txt.                     *)
FreshIgnoringCheckpoint == weights = Absent

FreshAccepted == weights = Absent /\ checkpoint = Absent

(* weights_metadata checks shared by prediction and additional training.    *)
WeightsComplete == weights.completed >= project.epochs \/ weights.version = 2

Predictable ==
  /\ weights # Absent
  /\ weights.digest = project
  /\ WeightsComplete

AdditionalBaseline ==
  /\ checkpoint = Absent
  /\ weights # Absent
  /\ weights.digest = project
  /\ WeightsComplete

(* Mutant: no overflow check on the new target.                             *)
AdditionalUnchecked(n) == AdditionalBaseline

AdditionalAccepted(n) ==
  /\ AdditionalBaseline
  /\ n <= MaxEpoch - weights.completed

(* Both files load, and a run without a baseline has the fresh target.      *)
ResumeLoads ==
  /\ checkpoint # Absent
  /\ checkpoint.digest = project
  /\ weights = Absent => checkpoint.target = project.epochs
  /\ weights # Absent => weights.digest = project

ResumeEarly ==
  /\ EarlyStopping(project)
  /\ ResumeLoads
  /\ weights # Absent => weights.completed <= checkpoint.completed

(* Mutant: a checkpoint at its target is taken for a finished run.          *)
ResumeUnfinished ==
  /\ ~EarlyStopping(project)
  /\ ResumeLoads
  /\ checkpoint.completed < checkpoint.target
  /\ weights # Absent =>
       weights.completed < checkpoint.target
       /\ weights.completed <= checkpoint.completed

ResumePlain ==
  /\ ~EarlyStopping(project)
  /\ ResumeLoads
  /\ weights # Absent =>
       /\ weights.completed >= project.epochs
       /\ weights.completed < checkpoint.target
       /\ weights.completed <= checkpoint.completed
       /\ weights.completed = checkpoint.completed =>
            checkpoint.params = weights.params

(* Mutant: even an older checkpoint must equal the final weights.           *)
ResumeIdentical ==
  /\ ~EarlyStopping(project)
  /\ ResumeLoads
  /\ weights # Absent
  /\ weights.completed = checkpoint.target
  /\ checkpoint.params = weights.params

(* Interrupted finalization: only the checkpoint is left to remove.         *)
ResumeFinalized ==
  /\ ~EarlyStopping(project)
  /\ ResumeLoads
  /\ weights # Absent
  /\ weights.completed >= project.epochs
  /\ weights.completed = checkpoint.target
  /\ checkpoint.completed = checkpoint.target =>
       checkpoint.params = weights.params

-----------------------------------------------------------------------------
(* Starting a command.                                                      *)

Begin(place, memory) ==
  /\ pc = "idle"
  /\ pc' = place
  /\ run' = memory
  /\ stop' = FALSE
  /\ result' = "none"
  /\ UNCHANGED <<weights, checkpoint, project, faults>>

(* Nothing is left of an earlier run, so outcomes are drawn anew.           *)
StartFresh ==
  /\ FreshAccepted
  /\ world' = NoOutcomes
  /\ Begin("train", [NoRun EXCEPT !.config = project, !.target = project.epochs])

(* Mutant: the baseline is not a candidate for the best model.              *)
StartWithoutBaseline(n) ==
  /\ AdditionalAccepted(n)
  /\ UNCHANGED world
  /\ Begin("train",
       [NoRun EXCEPT
          !.mode = "additional",
          !.config = project,
          !.epoch = weights.completed,
          !.target = weights.completed + n,
          !.model = weights.params])

(* A refinement restarts the optimizer; its baseline is the best so far.    *)
StartAdditional(n) ==
  /\ AdditionalAccepted(n)
  /\ UNCHANGED world
  /\ Begin("train",
       [NoRun EXCEPT
          !.mode = "additional",
          !.config = project,
          !.epoch = weights.completed,
          !.target = weights.completed + n,
          !.model = weights.params,
          !.best = IF EarlyStopping(project)
                     THEN [params |-> weights.params,
                           epoch |-> weights.selected,
                           loss |-> world[weights.selected].loss,
                           stale |-> 0]
                     ELSE Absent])

(* Mutant: a resume starts with a new optimizer.                            *)
ResumeNewOptimizer ==
  /\ ResumeEarly \/ ResumePlain
  /\ UNCHANGED world
  /\ Begin("train",
       [NoRun EXCEPT
          !.mode = "resume",
          !.config = project,
          !.epoch = checkpoint.completed,
          !.target = checkpoint.target,
          !.model = checkpoint.params,
          !.best = checkpoint.best])

(* Mutant: a resume forgets that the optimizer has converged.               *)
ResumeUnconverged ==
  /\ ResumeEarly \/ ResumePlain
  /\ UNCHANGED world
  /\ Begin("train",
       [NoRun EXCEPT
          !.mode = "resume",
          !.config = project,
          !.epoch = checkpoint.completed,
          !.target = checkpoint.target,
          !.model = checkpoint.params,
          !.optimizer = [checkpoint.optimizer EXCEPT !.reason = "none"],
          !.best = checkpoint.best])

(* Model, optimizer state and best-model state all come from the checkpoint. *)
StartResume ==
  /\ ResumeEarly \/ ResumePlain
  /\ UNCHANGED world
  /\ Begin("train",
       [NoRun EXCEPT
          !.mode = "resume",
          !.config = project,
          !.epoch = checkpoint.completed,
          !.target = checkpoint.target,
          !.model = checkpoint.params,
          !.optimizer = checkpoint.optimizer,
          !.best = checkpoint.best])

StartReconcile ==
  /\ ResumeFinalized
  /\ UNCHANGED world
  /\ Begin("remove",
       [NoRun EXCEPT
          !.mode = "resume",
          !.config = project,
          !.epoch = weights.completed,
          !.target = weights.completed,
          !.model = weights.params,
          !.reason = "target"])

-----------------------------------------------------------------------------
(* How a command ends: memory is lost, the files stay as they are.          *)

End(how) ==
  /\ pc' = "idle"
  /\ run' = NoRun
  /\ stop' = FALSE
  /\ result' = how

Fault ==
  /\ faults < MaxFaults
  /\ faults' = faults + 1

-----------------------------------------------------------------------------
(* The epoch loop.                                                          *)

Finish(why) == pc' = "finalize" /\ run' = [run EXCEPT !.reason = why]

(* The range is empty, or the restored optimizer has already converged.     *)
EvaluateOnly ==
  /\ pc = "train"
  /\ run.epoch = run.target \/ run.optimizer.reason # "none"
  /\ Finish(IF run.epoch = run.target THEN "target" ELSE run.optimizer.reason)
  /\ UNCHANGED <<weights, checkpoint, project, world, stop, result, faults>>

(* One pass over the batches; its outcome is a function of the history.     *)
TrainEpoch ==
  /\ pc = "train"
  /\ run.epoch < run.target
  /\ run.optimizer.reason = "none"
  /\ LET e == run.epoch + 1
         known == world[e]
     IN  \E o \in IF known = Absent THEN Outcomes(run.config) ELSE {known} :
           /\ world' = [world EXCEPT ![e] = o]
           /\ run' = [run EXCEPT
                        !.epoch = e,
                        !.model = Append(@, e),
                        !.optimizer = [seen |-> Append(@.seen, e),
                                       reason |-> o.verdict]]
  /\ pc' = "observe"
  /\ UNCHANGED <<weights, checkpoint, project, stop, result, faults>>

PeriodicSave ==
  run.config.interval # 0 /\ run.epoch % run.config.interval = 0

(* The project observer without early stopping reads the stop request once. *)
ObservePlain ==
  /\ pc = "observe"
  /\ ~EarlyStopping(run.config)
  /\ run' = [run EXCEPT !.caught = stop]
  /\ pc' = IF stop \/ PeriodicSave THEN "save" ELSE "notify"
  /\ UNCHANGED <<weights, checkpoint, project, world, stop, result, faults>>

(* Best-model selection precedes the decision to save.                      *)
Selected ==
  LET loss == world[run.epoch].loss
      improved == run.best = Absent \/ run.best.loss - loss > run.config.minDelta
  IN  IF improved
        THEN [params |-> run.model, epoch |-> run.epoch, loss |-> loss,
              stale |-> 0]
        ELSE [run.best EXCEPT !.stale = @ + 1]

OutOfPatience(b) == b.stale >= run.config.patience

(* Mutant: a stop request alone is no reason to save.                       *)
ObserveUnsaved ==
  /\ pc = "observe"
  /\ EarlyStopping(run.config)
  /\ run' = [run EXCEPT !.best = Selected, !.caught = stop]
  /\ pc' = IF PeriodicSave \/ OutOfPatience(Selected) THEN "save" ELSE "notify"
  /\ UNCHANGED <<weights, checkpoint, project, world, stop, result, faults>>

(* Patience that is used up is another reason to save.                      *)
ObserveEarly ==
  /\ pc = "observe"
  /\ EarlyStopping(run.config)
  /\ run' = [run EXCEPT !.best = Selected, !.caught = stop]
  /\ pc' = IF stop \/ PeriodicSave \/ OutOfPatience(Selected)
             THEN "save" ELSE "notify"
  /\ UNCHANGED <<weights, checkpoint, project, world, stop, result, faults>>

(* Mutant: the digests are computed when the checkpoint is written.         *)
CheckpointRedigested ==
  [digest |-> project, completed |-> run.epoch, target |-> run.target,
   params |-> run.model, optimizer |-> run.optimizer, best |-> run.best]

CheckpointOfRun ==
  [digest |-> run.config, completed |-> run.epoch, target |-> run.target,
   params |-> run.model, optimizer |-> run.optimizer, best |-> run.best]

(* The plain observer reports an interruption before the user's observer.   *)
SaveCheckpoint ==
  /\ pc = "save"
  /\ checkpoint' = CheckpointOfRun
  /\ IF run.caught /\ ~EarlyStopping(run.config)
       THEN End("interrupted")
       ELSE pc' = "notify" /\ UNCHANGED <<run, stop, result>>
  /\ UNCHANGED <<weights, project, world, faults>>

(* A failed atomic write leaves the old file, or the new one after rename.  *)
SaveCheckpointFails ==
  /\ pc = "save"
  /\ Fault
  /\ checkpoint' \in {checkpoint, CheckpointOfRun}
  /\ End("failed")
  /\ UNCHANGED <<weights, project, world>>

(* Mutant: an interrupted run publishes what it has.                        *)
ReportAndPublish ==
  /\ pc = "notify"
  /\ IF run.caught
       THEN Finish("target")
       ELSE pc' = "train" /\ UNCHANGED run
  /\ UNCHANGED <<weights, checkpoint, project, world, stop, result, faults>>

(* The user's observer accepts the report; then the loop decides, with the  *)
(* early-stopping answer before the target and the target before the rest.  *)
ReportEpoch ==
  /\ pc = "notify"
  /\ IF run.caught
       THEN End("interrupted")
       ELSE /\ IF EarlyStopping(run.config) /\ OutOfPatience(run.best)
                 THEN Finish("early_stopping")
               ELSE IF run.epoch = run.target
                 THEN Finish("target")
               ELSE IF run.optimizer.reason # "none"
                 THEN Finish(run.optimizer.reason)
               ELSE pc' = "train" /\ UNCHANGED run
            /\ UNCHANGED <<stop, result>>
  /\ UNCHANGED <<weights, checkpoint, project, world, faults>>

(* An epoch diverges, a worker or an allocation fails, a report is refused. *)
EpochFails ==
  /\ pc \in {"train", "observe", "notify"}
  /\ Fault
  /\ End("failed")
  /\ UNCHANGED <<weights, checkpoint, project, world>>

-----------------------------------------------------------------------------
(* Finalization: weights.txt first, then checkpoint.txt is removed.         *)

(* Mutant: early stopping publishes the last model as the selected one.     *)
WeightsOfLastEpoch ==
  [digest |-> run.config, completed |-> run.epoch,
   selected |-> IF EarlyStopping(run.config) THEN run.best.epoch
                ELSE run.epoch,
   target |-> run.target, version |-> 2, reason |-> run.reason,
   params |-> run.model]

WeightsOfRun ==
  LET full == [digest |-> run.config, completed |-> run.epoch,
               selected |-> run.epoch, target |-> run.target, version |-> 2,
               reason |-> run.reason, params |-> run.model]
  IN  IF EarlyStopping(run.config)
        THEN [full EXCEPT !.selected = run.best.epoch,
                          !.params = run.best.params]
      ELSE IF run.reason = "target"
        THEN [full EXCEPT !.version = 1, !.target = run.epoch]
      ELSE full

(* Early-format weights at the target must carry the target reason.         *)
WeightsWritable ==
  EarlyStopping(run.config) /\ run.reason # "target" => run.epoch < run.target

PublishWeights ==
  /\ pc = "finalize"
  /\ WeightsWritable
  /\ weights' = WeightsOfRun
  /\ pc' = "remove"
  /\ UNCHANGED <<checkpoint, project, world, run, stop, result, faults>>

PublishRefused ==
  /\ pc = "finalize"
  /\ ~WeightsWritable
  /\ End("rejected")
  /\ UNCHANGED <<weights, checkpoint, project, world, faults>>

PublishFails ==
  /\ pc = "finalize"
  /\ WeightsWritable
  /\ Fault
  /\ weights' \in {weights, WeightsOfRun}
  /\ End("failed")
  /\ UNCHANGED <<checkpoint, project, world>>

(* A checkpoint that is not there is accepted except by a plain resume.     *)
RemoveCheckpoint ==
  /\ pc = "remove"
  /\ checkpoint = Absent => run.mode # "resume" \/ EarlyStopping(run.config)
  /\ checkpoint' = Absent
  /\ End("success")
  /\ UNCHANGED <<weights, project, world, faults>>

(* The unlink fails, or it succeeds and the directory sync fails.           *)
RemoveCheckpointFails ==
  /\ pc = "remove"
  /\ Fault
  /\ checkpoint' \in {checkpoint, Absent}
  /\ End("failed")
  /\ UNCHANGED <<weights, project, world>>

-----------------------------------------------------------------------------
(* The environment.                                                         *)

(* SIGINT or SIGTERM: the handler only records the request.                 *)
Signal ==
  /\ pc # "idle"
  /\ ~stop
  /\ stop' = TRUE
  /\ UNCHANGED <<weights, checkpoint, project, world, pc, run, result, faults>>

(* The process dies; the lock goes with it, the files do not.               *)
Crash ==
  /\ pc # "idle"
  /\ Fault
  /\ End("crashed")
  /\ UNCHANGED <<weights, checkpoint, project, world>>

(* The user edits the configuration or the data, at any moment.            *)
EditProject ==
  /\ \E c \in Configs \ {project} : project' = c
  /\ UNCHANGED <<weights, checkpoint, world, pc, run, stop, result, faults>>

Start ==
  \/ StartFresh
  \/ StartResume
  \/ StartReconcile
  \/ \E n \in Additional : StartAdditional(n)

Step ==
  \/ EvaluateOnly \/ TrainEpoch
  \/ ObservePlain \/ ObserveEarly
  \/ SaveCheckpoint \/ ReportEpoch
  \/ PublishWeights \/ PublishRefused \/ RemoveCheckpoint

Failure ==
  \/ SaveCheckpointFails \/ EpochFails \/ PublishFails
  \/ RemoveCheckpointFails \/ Crash

Next == Start \/ Step \/ Failure \/ Signal \/ EditProject

Spec == Init /\ [][Next]_vars

(* A running command keeps running; the user keeps resuming a checkpoint.   *)
FairSpec ==
  Spec /\ WF_vars(Step) /\ WF_vars(StartResume \/ StartReconcile)
=============================================================================
