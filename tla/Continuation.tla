------------------------------ MODULE Continuation ------------------------------
(***************************************************************************)
(* A training run that is saved, stopped and resumed any number of times   *)
(* (the epoch loop of src/training.c with the state of Optimizer and the   *)
(* files of Persistence), beside the optimizer of the same run without an  *)
(* interruption.  An epoch is one full-dataset batch.                      *)
(***************************************************************************)
EXTENDS Persistence

CONSTANTS
  Settings,  \* what project.conf may say: optimizer options, early stopping
  Losses,    \* losses an epoch may end with
  Target,    \* target epochs of the run
  None       \* no run in memory

ASSUME SettingAssumption ==
  /\ Target \in Size \ {0}
  /\ Losses \subseteq Nat
  /\ \A c \in Settings :
       c.options \in Options /\ OptionsValid(c.options) /\ c.patience \in Nat

ASSUME NoneAssumption == None \notin State

VARIABLES
  setting,  \* the configuration
  live,     \* the optimizer in memory
  model,    \* epochs, parameters and best model in memory
  stopped,  \* the last epoch of this command ran out of patience
  file,     \* the lines of checkpoint.txt
  shadow,   \* history: the optimizer of the run without interruptions
  losses,   \* history: the training losses of that run
  saved     \* history: both at the time of the checkpoint

vars == <<setting, live, model, stopped, file, shadow, losses, saved>>

options == setting.options

early == setting.patience # 0

Fresh == [completed |-> 0, target |-> Target, params |-> 0, best |-> NoBest]

Init ==
  /\ setting \in Settings
  /\ live = Create(setting.options)
  /\ model = Fresh
  /\ stopped = FALSE
  /\ file = <<>>
  /\ shadow = Create(setting.options)
  /\ losses = <<>>
  /\ saved = [shadow |-> Create(setting.options), losses |-> <<>>]

Running == live # None

OutOfPatience(m) == early /\ m.best.stale >= setting.patience

(* Patience is asked for after an epoch only, not when a run is resumed.    *)
Over ==
  \/ model.completed = Target
  \/ live.reason # "none"
  \/ stopped

(* Selection by a validation loss; the comparison is strict.                *)
BestOf(m, loss) ==
  IF m.best.epoch = 0 \/ m.best.loss > loss
    THEN [epoch |-> m.completed, loss |-> loss, stale |-> 0,
          params |-> m.params]
    ELSE [m.best EXCEPT !.stale = @ + 1]

Trained(validation) ==
  LET m == [model EXCEPT !.completed = @ + 1, !.params = @ + 1]
  IN  [m EXCEPT !.best = IF early THEN BestOf(m, validation) ELSE NoBest]

EpochOf(s, loss) == Observed(options, OptimizerStep(options, s), loss)

Epoch(loss, validation) ==
  /\ Running
  /\ ~Over
  /\ CanStep(options, live)
  /\ CanObserve(options, live, loss)
  /\ live' = EpochOf(live, loss)
  /\ shadow' = EpochOf(shadow, loss)
  /\ model' = Trained(validation)
  /\ stopped' = OutOfPatience(Trained(validation))
  /\ losses' = Append(losses, loss)
  /\ UNCHANGED <<setting, file, saved>>

(* The loss diverges, or the rate becomes zero.                             *)
EpochFails(loss) ==
  /\ Running
  /\ ~Over
  /\ ~CanStep(options, live) \/ ~CanObserve(options, live, loss)
  /\ live' = None
  /\ UNCHANGED <<setting, model, stopped, file, shadow, losses, saved>>

Save ==
  /\ Running
  /\ model.completed # 0
  /\ CheckpointWritable(model)
  /\ file' = CheckpointLines(options, live, model)
  /\ saved' = [shadow |-> shadow, losses |-> losses]
  /\ UNCHANGED <<setting, live, model, stopped, shadow, losses>>

(* The command is interrupted, killed or fails.                             *)
Stop ==
  /\ Running
  /\ live' = None
  /\ UNCHANGED <<setting, model, stopped, file, shadow, losses, saved>>

(* A new optimizer is created, and the checkpoint is read into it.          *)
Resume ==
  /\ ~Running
  /\ file # <<>>
  /\ CheckpointLoads(options, early, file)
  /\ live' = OptimizerFrom(options, file)
  /\ model' = MetadataFrom(early, file)
  /\ stopped' = FALSE
  /\ shadow' = saved.shadow
  /\ losses' = saved.losses
  /\ UNCHANGED <<setting, file, saved>>

Next ==
  \/ \E loss \in Losses, validation \in Losses :
       (early \/ validation = loss) /\ Epoch(loss, validation)
  \/ \E loss \in Losses : EpochFails(loss)
  \/ Save \/ Stop \/ Resume

Spec == Init /\ [][Next]_vars

-----------------------------------------------------------------------------

(* Type invariant; a count of stale epochs never exceeds the epochs, and no *)
(* size_t wraps around.                                                     *)
TypeOK ==
  /\ setting \in Settings
  /\ live \in State \cup {None}
  /\ shadow \in State
  /\ losses \in Seq(Losses)
  /\ model.completed \in 0 .. Target
  /\ stopped \in BOOLEAN
  /\ Running =>
       /\ live.stale <= live.completed
       /\ live.convergenceStale <= live.completed

(* A resumed run cannot be told from one that was never interrupted: same   *)
(* learning rate, buffers, bias correction and reason to stop, now and,     *)
(* since this always holds, after any further losses.                       *)
ResumeIsTransparent ==
  Running =>
    /\ live.rate = shadow.rate
    /\ live.reason = shadow.reason
    /\ <<live.timestep, live.state1, live.state2, live.betas>>
         = <<shadow.timestep, shadow.state1, shadow.state2, shadow.betas>>

(* "past" is the sequence of the losses since the start of the run: the best *)
(* loss after each epoch, where only a fall by more than delta counts, and  *)
(* the epoch of the last such fall.                                         *)
BestAfter(past, delta) ==
  LET best[i \in 1 .. Len(past)] ==
        IF i = 1 THEN past[1]
        ELSE IF past[i] < best[i - 1] - delta THEN past[i] ELSE best[i - 1]
  IN  best

LastBest(past, delta, n) ==
  LET best == BestAfter(past, delta)
  IN  CHOOSE j \in 1 .. n :
        /\ j = 1 \/ best[j] # best[j - 1]
        /\ \A k \in j + 1 .. n : best[k] = best[j]

Transition(past, i) ==
  CASE options.schedule = "constant" -> FALSE
    [] options.schedule = "step" -> i % options.interval = 0
    [] options.schedule = "exponential" -> TRUE
    [] options.schedule = "plateau" ->
         LET stale == i - LastBest(past, options.plateauDelta, i)
         IN  stale # 0 /\ stale % options.patience = 0

Transitions(past) ==
  LET count[i \in 0 .. Len(past)] ==
        IF i = 0 THEN 0
        ELSE count[i - 1] + (IF Transition(past, i) THEN 1 ELSE 0)
  IN  count[Len(past)]

FirstMet(past) ==
  LET n == Len(past)
  IN  IF n = 0 THEN "none"
      ELSE IF options.target >= 0 /\ past[n] <= options.target
        THEN "loss_target"
      ELSE IF options.noImprovement # 0
              /\ n - LastBest(past, options.minDelta, n) >= options.noImprovement
        THEN "no_improvement"
      ELSE "none"

(* The rate is the one the schedule prescribes for the losses since the     *)
(* start of the run: with a plateau, one factor for each full "patience" of *)
(* epochs since the last improvement.  A convergence control stops a run at *)
(* the first epoch that meets it.                                           *)
ControlsFollowHistory ==
  shadow.rate = Transitions(losses) /\ shadow.reason = FirstMet(losses)

NumbersNormal == ParsesReal(live.rate) /\ ParsesReal(live.betas)

Reloads ==
  LET lines == CheckpointLines(options, live, model)
  IN  /\ CheckpointWritable(model)
      /\ CheckpointLoads(options, early, lines)
      /\ MetadataFrom(early, lines) = model

Completion ==
  IF stopped THEN "early_stopping"
  ELSE IF model.completed = Target THEN "target"
  ELSE live.reason

Final ==
  [completed |-> model.completed, target |-> Target,
   selected |-> IF early THEN model.best.epoch ELSE model.completed,
   completion |-> Completion,
   params |-> IF early THEN model.best.params ELSE model.params]

(* Every state of a run with normal numbers can be saved, and what is saved *)
(* is accepted and gives the epochs and the models back.  The final weights *)
(* of any run the writer accepts are read back with the epochs, the reason  *)
(* and the parameters that they were written with.                          *)
SavedFilesReload ==
  /\ Running /\ model.completed # 0 /\ NumbersNormal => Reloads
  /\ LET lines == WeightsLines(options, Final, early)
     IN  Running /\ Over
         /\ (Has(lines, "completion") => EpochsConsistent(Final))
           => WeightsLoad(options, lines) /\ WeightsFrom(lines) = Final

-----------------------------------------------------------------------------
(* A statement of the documentation that the code does not keep.            *)

(* "The recovery checkpoint is resumable through train --resume": whatever  *)
(* the optimizer's numbers have become.                                     *)
EveryCheckpointIsResumable == file # <<>> => CheckpointLoads(options, early, file)
=============================================================================
