------------------------------ MODULE Persistence ------------------------------
(***************************************************************************)
(* The files weights.txt (versions 1 and 2) and checkpoint.txt (versions   *)
(* 1, 2 and 3) of src/persistence.c, as sequences of keyed lines in file   *)
(* order, and what their readers accept.  A model payload is one value; a  *)
(* line of the optimizer's numbers holds what Optimizer abstracts them to. *)
(***************************************************************************)
EXTENDS Optimizer, Sequences

Optional(condition, lines) == IF condition THEN lines ELSE <<>>

Keys(lines) == [i \in DOMAIN lines |-> lines[i][1]]

Field(lines, key) ==
  lines[CHOOSE i \in DOMAIN lines : lines[i][1] = key][2]

Has(lines, key) == \E i \in DOMAIN lines : lines[i][1] = key

(* strtod reports ERANGE for a subnormal number, and the parser refuses it. *)
ParsesReal(powers) == powers < NormalPowers \/ powers >= NonzeroPowers

-----------------------------------------------------------------------------
(* The optimizer section of a version 3 checkpoint.                         *)

(* Mutant: the best metric precedes the stale epochs.                       *)
OptimizerLinesSwapped(o, s) ==
  <<<<"optimizer_timestep", s.timestep>>,
    <<"learning_rate_schedule", o.schedule>>,
    <<"schedule_completed_epochs", s.completed>>,
    <<"schedule_current_rate", s.rate>>,
    <<"schedule_next_transition", s.next>>,
    <<"schedule_has_best", s.best # Unset>>>>
  \o Optional(s.best # Unset, <<<<"schedule_best_metric", s.best>>>>)
  \o <<<<"schedule_stale_epochs", s.stale>>,
       <<"convergence_has_best", s.convergenceBest # Unset>>,
       <<"convergence_stale_epochs", s.convergenceStale>>,
       <<"convergence_reason", s.reason>>>>
  \o Optional(s.convergenceBest # Unset,
              <<<<"convergence_best_loss", s.convergenceBest>>>>)
  \o Optional(o.kind = "adam", <<<<"optimizer_beta_powers", s.betas>>>>)
  \o Optional(o.kind # "gradient_descent",
              <<<<"optimizer_state1", s.state1>>>>)
  \o Optional(o.kind = "adam", <<<<"optimizer_state2", s.state2>>>>)

OptimizerLines(o, s) ==
  <<<<"optimizer_timestep", s.timestep>>,
    <<"learning_rate_schedule", o.schedule>>,
    <<"schedule_completed_epochs", s.completed>>,
    <<"schedule_current_rate", s.rate>>,
    <<"schedule_next_transition", s.next>>,
    <<"schedule_has_best", s.best # Unset>>,
    <<"schedule_stale_epochs", s.stale>>>>
  \o Optional(s.best # Unset, <<<<"schedule_best_metric", s.best>>>>)
  \o <<<<"convergence_has_best", s.convergenceBest # Unset>>,
       <<"convergence_stale_epochs", s.convergenceStale>>,
       <<"convergence_reason", s.reason>>>>
  \o Optional(s.convergenceBest # Unset,
              <<<<"convergence_best_loss", s.convergenceBest>>>>)
  \o Optional(o.kind = "adam", <<<<"optimizer_beta_powers", s.betas>>>>)
  \o Optional(o.kind # "gradient_descent",
              <<<<"optimizer_state1", s.state1>>>>)
  \o Optional(o.kind = "adam", <<<<"optimizer_state2", s.state2>>>>)

(* The keys a reader expects, given the flags that it has read.             *)
OptimizerKeys(kind, lines) ==
  <<"optimizer_timestep", "learning_rate_schedule",
    "schedule_completed_epochs", "schedule_current_rate",
    "schedule_next_transition", "schedule_has_best", "schedule_stale_epochs">>
  \o Optional(Has(lines, "schedule_has_best")
              /\ Field(lines, "schedule_has_best"), <<"schedule_best_metric">>)
  \o <<"convergence_has_best", "convergence_stale_epochs",
       "convergence_reason">>
  \o Optional(Has(lines, "convergence_has_best")
              /\ Field(lines, "convergence_has_best"),
              <<"convergence_best_loss">>)
  \o Optional(kind = "adam", <<"optimizer_beta_powers">>)
  \o Optional(kind # "gradient_descent", <<"optimizer_state1">>)
  \o Optional(kind = "adam", <<"optimizer_state2">>)

(* What is restored into an optimizer that was just created: buffers and    *)
(* step count only for a kind that has them.                                *)
Restored(o, lines) ==
  LET stateful == o.kind # "gradient_descent"
      adam == o.kind = "adam"
      field(condition, key, other) ==
        IF condition THEN Field(lines, key) ELSE other
  IN  [timestep |-> field(stateful, "optimizer_timestep", 0),
       state1 |-> field(stateful, "optimizer_state1", 0),
       state2 |-> field(adam, "optimizer_state2", 0),
       betas |-> field(adam, "optimizer_beta_powers", 0),
       completed |-> Field(lines, "schedule_completed_epochs"),
       rate |-> Field(lines, "schedule_current_rate"),
       next |-> Field(lines, "schedule_next_transition"),
       best |-> field(Field(lines, "schedule_has_best"),
                      "schedule_best_metric", Unset),
       stale |-> Field(lines, "schedule_stale_epochs"),
       convergenceBest |-> field(Field(lines, "convergence_has_best"),
                                 "convergence_best_loss", Unset),
       convergenceStale |-> Field(lines, "convergence_stale_epochs"),
       reason |-> Field(lines, "convergence_reason")]

(* A rate of zero, or stale epochs without a best value, are refused.       *)
Restorable(lines) ==
  /\ Field(lines, "schedule_current_rate") < NonzeroPowers
  /\ \/ Field(lines, "schedule_has_best")
     \/ Field(lines, "schedule_stale_epochs") = 0
  /\ \/ Field(lines, "convergence_has_best")
     \/ Field(lines, "convergence_stale_epochs") = 0

-----------------------------------------------------------------------------
(* Checkpoints.  "best" is Unset without early stopping.                    *)

Early(m) == m.best.epoch # 0

CheckpointVersion(o, early) ==
  IF RequiresState(o) THEN 3 ELSE IF early THEN 2 ELSE 1

CheckpointLines(o, s, m) ==
  LET version == CheckpointVersion(o, Early(m))
  IN  <<<<"checkpoint", version>>, <<"digests", o>>,
        <<"completed_epochs", m.completed>>, <<"target_epochs", m.target>>,
        <<"optimizer", o.kind>>>>
      \o Optional(Early(m),
           <<<<"best_epoch", m.best.epoch>>, <<"best_loss", m.best.loss>>,
             <<"stale_epochs", m.best.stale>>>>)
      \o Optional(version = 3, OptimizerLines(o, s))
      \o (IF Early(m)
            THEN <<<<"current_model", m.params>>,
                   <<"best_model", m.best.params>>>>
          ELSE IF version = 3 THEN <<<<"model", m.params>>>>
          ELSE <<<<"parameters", m.params>>>>)

(* The writer's own checks of the metadata.                                 *)
CheckpointWritable(m) ==
  /\ m.target # 0
  /\ m.completed <= m.target
  /\ Early(m) =>
       m.best.epoch <= m.completed /\ m.best.stale <= m.completed

CheckpointKeys(kind, version, early, lines) ==
  <<"checkpoint", "digests", "completed_epochs", "target_epochs", "optimizer">>
  \o Optional(early, <<"best_epoch", "best_loss", "stale_epochs">>)
  \o Optional(version = 3, OptimizerKeys(kind, lines))
  \o (IF early THEN <<"current_model", "best_model">>
      ELSE IF version = 3 THEN <<"model">> ELSE <<"parameters">>)

RealKeys == {"schedule_current_rate", "optimizer_beta_powers"}

(* The reader of each kind of training knows two versions; one without      *)
(* optimizer state is read only into an optimizer that needs none.          *)
CheckpointLoads(o, early, lines) ==
  LET version == Field(lines, "checkpoint")
      kind == Field(lines, "optimizer")
  IN  /\ version \in (IF early THEN {2, 3} ELSE {1, 3})
      /\ Keys(lines) = CheckpointKeys(kind, version, early, lines)
      /\ \A key \in RealKeys :
           Has(lines, key) => ParsesReal(Field(lines, key))
      /\ version # 3 => kind = "gradient_descent" /\ ~RequiresState(o)
      /\ version = 3 =>
           /\ kind = o.kind
           /\ Field(lines, "learning_rate_schedule") = o.schedule
           /\ Restorable(lines)
      /\ Field(lines, "digests") = o
      /\ Field(lines, "target_epochs") # 0
      /\ Field(lines, "completed_epochs") <= Field(lines, "target_epochs")
      /\ early =>
           /\ Field(lines, "best_epoch") <= Field(lines, "completed_epochs")
           /\ Field(lines, "stale_epochs") <= Field(lines, "completed_epochs")

(* The optimizer of a run that continues from a checkpoint.                 *)
OptimizerFrom(o, lines) ==
  IF Field(lines, "checkpoint") = 3 THEN Restored(o, lines) ELSE Create(o)

NoBest == [epoch |-> 0, loss |-> 0, stale |-> 0, params |-> 0]

MetadataFrom(early, lines) ==
  [completed |-> Field(lines, "completed_epochs"),
   target |-> Field(lines, "target_epochs"),
   params |-> Field(lines, IF early THEN "current_model"
                           ELSE IF Field(lines, "checkpoint") = 3 THEN "model"
                           ELSE "parameters"),
   best |-> IF early
              THEN [epoch |-> Field(lines, "best_epoch"),
                    loss |-> Field(lines, "best_loss"),
                    stale |-> Field(lines, "stale_epochs"),
                    params |-> Field(lines, "best_model")]
              ELSE NoBest]

-----------------------------------------------------------------------------
(* Final weights: w has the epochs, the completion and the parameters.      *)

(* The early format is written for every end but a plain target.            *)
WeightsVersion(w, early) == IF early \/ w.completion # "target" THEN 2 ELSE 1

WeightsLines(o, w, early) ==
  IF WeightsVersion(w, early) = 1
    THEN <<<<"weights", 1>>, <<"digests", o>>,
           <<"completed_epochs", w.completed>>, <<"parameters", w.params>>>>
    ELSE <<<<"weights", 2>>, <<"digests", o>>,
           <<"completed_epochs", w.completed>>,
           <<"selected_epoch", w.selected>>, <<"target_epochs", w.target>>,
           <<"completion", w.completion>>, <<"parameters", w.params>>>>

EpochsConsistent(w) ==
  /\ w.target # 0
  /\ w.selected \in 1 .. w.completed
  /\ w.completed <= w.target
  /\ w.completion = "target" <=> w.completed = w.target

WeightsKeys(version) ==
  <<"weights", "digests", "completed_epochs">>
  \o Optional(version = 2, <<"selected_epoch", "target_epochs", "completion">>)
  \o <<"parameters">>

(* Version 1 stands for weights that were selected at their target.         *)
WeightsFrom(lines) ==
  LET field(key, other) == IF Has(lines, key) THEN Field(lines, key)
                           ELSE other
      completed == Field(lines, "completed_epochs")
  IN  [completed |-> completed,
       selected |-> field("selected_epoch", completed),
       target |-> field("target_epochs", completed),
       completion |-> field("completion", "target"),
       params |-> Field(lines, "parameters")]

WeightsLoad(o, lines) ==
  LET version == Field(lines, "weights")
  IN  /\ version \in {1, 2}
      /\ Keys(lines) = WeightsKeys(version)
      /\ Field(lines, "digests") = o
      /\ version = 2 => EpochsConsistent(WeightsFrom(lines))
=============================================================================
