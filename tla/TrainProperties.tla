--------------------------- MODULE TrainProperties ---------------------------
(***************************************************************************)
(* What project training must guarantee about weights.txt and              *)
(* checkpoint.txt, over any sequence of commands, edits, signals, failures *)
(* and crashes.                                                            *)
(***************************************************************************)
EXTENDS TrainProject

EpochsUpTo(n) == [i \in 1 .. n |-> i]

Increasing(s) == \A i \in 1 .. Len(s) - 1 : s[i] < s[i + 1]

(* Neither early stopping nor a convergence control can end the run.        *)
RunsToTarget(c) == c.patience = 0 /\ ~c.converges

InUse(file) == file # Absent /\ file.digest = project

(* Type invariant of the files, the command and the environment.            *)
TypeOK ==
  /\ weights \in Weights \cup {Absent}
  /\ checkpoint \in Checkpoint \cup {Absent}
  /\ project \in Configs
  /\ world \in [1 .. MaxEpoch -> Outcome \cup {Absent}]
  /\ pc \in {"idle", "train", "observe", "save", "notify", "finalize",
             "remove"}
  /\ run \in Run
  /\ stop \in BOOLEAN
  /\ result \in {"none", "success", "failed", "interrupted", "crashed",
                 "rejected"}
  /\ faults \in 0 .. MaxFaults

(* A persisted model contains the updates of exactly the epochs it reports: *)
(* an interruption, a resume or a refinement neither repeats nor skips one. *)
(* With early stopping it ends at the selected epoch and never goes back.   *)
EpochsAppliedOnce ==
  /\ weights # Absent =>
       IF EarlyStopping(weights.digest)
         THEN /\ Increasing(weights.params)
              /\ weights.params # <<>>
              /\ weights.params[Len(weights.params)] = weights.selected
         ELSE weights.params = EpochsUpTo(weights.completed)
  /\ checkpoint # Absent =>
       IF EarlyStopping(checkpoint.digest)
         THEN /\ Increasing(checkpoint.params)
              /\ checkpoint.params[Len(checkpoint.params)] =
                   checkpoint.completed
         ELSE checkpoint.params = EpochsUpTo(checkpoint.completed)

(* The optimizer, schedule and convergence state of a checkpoint has seen   *)
(* every epoch of its run and none before: it is restored by a resume and   *)
(* restarted by a refinement.                                               *)
OptimizerSawWholeRun ==
  (checkpoint # Absent /\ ~EarlyStopping(checkpoint.digest)) =>
    LET seen == checkpoint.optimizer.seen
        base == checkpoint.completed - Len(seen)
        refining == weights # Absent /\
                      weights.completed < checkpoint.completed
    IN  /\ seen = [i \in 1 .. Len(seen) |-> base + i]
        /\ weights = Absent => base = 0
        /\ refining => base = weights.completed

(* No run, resumed any number of times, trains past the epoch at which its  *)
(* convergence control stopped it.                                          *)
ConvergenceEndsTheRun ==
  checkpoint # Absent =>
    LET seen == checkpoint.optimizer.seen
        verdict(i) == world[seen[i]].verdict
    IN  /\ \A i \in 1 .. Len(seen) - 1 : verdict(i) = "none"
        /\ checkpoint.optimizer.reason = verdict(Len(seen))

(* Early stopping publishes the best model that was ever selectable: no     *)
(* epoch of the model's history beats it by more than the minimum delta.    *)
SelectedModelIsBest ==
  (weights # Absent /\ EarlyStopping(weights.digest)) =>
    LET loss(e) == world[e].loss
    IN  \A e \in 1 .. weights.completed :
          loss(weights.selected) - loss(e) <= weights.digest.minDelta

(* Both files always belong to one configuration, even when the project is  *)
(* edited while a run that was started before the edit is still saving.     *)
OneProvenance ==
  weights # Absent /\ checkpoint # Absent =>
    weights.digest = checkpoint.digest

(* A run that only its target can end never leaves the project in a state   *)
(* that every training command refuses.  An interruption is reported only   *)
(* when there is a checkpoint; outside convergence controls, and unless the *)
(* project was edited, it is one that resume accepts.                       *)
AlwaysContinuable ==
  /\ (pc = "idle" /\ RunsToTarget(project)
      /\ (weights # Absent => InUse(weights))
      /\ (checkpoint # Absent => InUse(checkpoint))) =>
       FreshAccepted \/ AdditionalBaseline \/ ResumePlain \/ ResumeFinalized
  /\ result = "interrupted" =>
       /\ checkpoint # Absent
       /\ checkpoint.digest = project /\ ~project.converges =>
            ResumePlain \/ ResumeEarly

(* The target, a convergence control or the patience has ended the run.     *)
RunIsOver ==
  \/ run.epoch = run.target
  \/ run.optimizer.reason # "none"
  \/ EarlyStopping(run.config) /\ OutOfPatience(run.best)

(* While a refinement runs, fails or crashes, its baseline weights are kept *)
(* until a model that finished the whole refinement replaces them.          *)
BaselineKeptUntilDone ==
  [][weights' # weights =>
       weights'.completed = run.epoch /\ RunIsOver]_vars

(* "Absent" is no abstract file either.                                     *)
ASSUME LedgerAssumption ==
  /\ Absent \notin [completed : Epoch]
  /\ Absent \notin [completed : Epoch, target : Epoch]

(* The two files implement the ledger of completed epochs: progress on disk *)
(* is given up only when a finalized model covers it.                       *)
Ledger ==
  INSTANCE TrainingFiles WITH
    stable <- IF weights = Absent THEN Absent
              ELSE [completed |-> weights.completed],
    recoverable <- IF checkpoint = Absent THEN Absent
                   ELSE [completed |-> checkpoint.completed,
                         target |-> checkpoint.target]

ImplementsLedger == Ledger!Spec

(* However often it is signalled, a run that only its target can end is     *)
(* finished by a user who keeps resuming it (or the project is edited).     *)
InterruptedRunFinishes ==
  (checkpoint # Absent /\ RunsToTarget(checkpoint.digest)) ~>
    (checkpoint = Absent \/ checkpoint.digest # project)

-----------------------------------------------------------------------------
(* The inductive invariant behind the theorems of TrainProofs.              *)

(* Every epoch that a model in memory or on disk ends with was computed.    *)
KnownEpoch(e) == e # 0 => world[e] # Absent

KnownBest(b) == b # Absent => b.epoch # 0 /\ KnownEpoch(b.epoch)

KnownRun == KnownEpoch(run.epoch) /\ KnownBest(run.best)

KnownFiles ==
  /\ weights # Absent =>
       /\ weights.selected # 0
       /\ KnownEpoch(weights.selected)
       /\ KnownEpoch(weights.completed)
  /\ checkpoint # Absent =>
       /\ KnownEpoch(checkpoint.completed)
       /\ KnownBest(checkpoint.best)
       /\ EarlyStopping(checkpoint.digest) => checkpoint.best # Absent

(* What the memory of a command holds at each place of the epoch loop.      *)
RunShape ==
  /\ pc # "idle" =>
       run.config \in Configs /\ run.target # 0 /\ run.epoch <= run.target
  /\ pc \in {"observe", "save", "notify", "finalize"} => run.epoch # 0
  /\ pc = "train" /\ run.epoch = 0 => run.optimizer.reason = "none"
  /\ pc \in {"save", "notify", "finalize"} /\ EarlyStopping(run.config) =>
       run.best # Absent
  /\ pc = "train" /\ run.epoch # 0 /\ EarlyStopping(run.config) =>
       run.best # Absent

(* A command that may still write works on the files' configuration, and no *)
(* file is ahead of it; one that removes the checkpoint has it covered.     *)
LedgerOrder ==
  /\ pc \notin {"idle", "remove"} =>
       /\ weights # Absent =>
            weights.completed <= run.epoch /\ weights.digest = run.config
       /\ checkpoint # Absent =>
            /\ checkpoint.completed <= run.epoch
            /\ checkpoint.target = run.target
            /\ checkpoint.digest = run.config
  /\ pc \in {"observe", "save"} =>
       /\ weights # Absent => weights.completed < run.epoch
       /\ checkpoint # Absent => checkpoint.completed < run.epoch
  /\ pc = "remove" =>
       /\ weights # Absent
       /\ checkpoint # Absent => weights.completed >= checkpoint.completed

(* What the two files satisfy by themselves, between commands too.          *)
FilesInv ==
  /\ weights \in Weights \cup {Absent}
  /\ checkpoint \in Checkpoint \cup {Absent}
  /\ KnownFiles
  /\ checkpoint # Absent => checkpoint.completed \in 1 .. checkpoint.target
  /\ OneProvenance

(* Only a run that is over reaches finalization.                            *)
OverAtFinalize == pc = "finalize" => RunIsOver

IInv == TypeOK /\ KnownRun /\ RunShape /\ FilesInv /\ LedgerOrder

-----------------------------------------------------------------------------
(* Statements of the documentation that the code does not keep.             *)

(* "weights.txt is the completed state used for prediction or refinement":  *)
(* a successful command leaves weights that prediction accepts.             *)
SuccessIsPredictable == result = "success" /\ InUse(weights) => Predictable

(* "an ambiguous post-rename failure is reconciled by the two-file rule on  *)
(* the next resume": with both files of the present project, resume goes on. *)
FinalizationIsReconciled ==
  pc = "idle" /\ InUse(weights) /\ InUse(checkpoint) =>
    ResumePlain \/ ResumeEarly \/ ResumeFinalized
=============================================================================
