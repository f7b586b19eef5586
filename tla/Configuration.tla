----------------------------- MODULE Configuration -----------------------------
(***************************************************************************)
(* project.conf: the settings of a project's training as src/init.c writes *)
(* them and src/project.c reads and validates them.                        *)
(*                                                                         *)
(* A file is the sequence of its lines, a key and a value each.  A count is*)
(* itself; a real is a number of halves, so that "between zero and one" is *)
(* the value Half, for 0.9, 0.999 and 1e-8 as well.  Junk is a value that  *)
(* no parser of numbers or names reads.                                    *)
(***************************************************************************)
EXTENDS Integers, Sequences, SequencesExt

CONSTANT Junk

Half == 1
One == 2

Losses == {"mse", "binary_cross_entropy", "categorical_cross_entropy"}
Optimizers == {"gradient_descent", "momentum", "adam"}
RateSchedules == {"constant", "step", "exponential", "plateau"}

RequiredKeys ==
  {"epochs", "learning_rate", "seed", "loss", "checkpoint_interval"}

EarlyKeys == {"early_stopping_patience", "early_stopping_min_delta"}

(* What the reader starts from: the meaning of a line that is not there.    *)
Defaults ==
  [epochs |-> 0, learning_rate |-> 0, seed |-> 0, loss |-> "mse",
   checkpoint_interval |-> 0, early_stopping_patience |-> 0,
   early_stopping_min_delta |-> 0, batch_size |-> 0, shuffle |-> 0,
   gradient_clip_norm |-> 0, l1_regularization |-> 0,
   l2_regularization |-> 0, regularize_biases |-> 0,
   optimizer |-> "gradient_descent", momentum |-> Half, adam_beta1 |-> Half,
   adam_beta2 |-> Half, adam_epsilon |-> Half,
   learning_rate_schedule |-> "constant", learning_rate_decay |-> Half,
   learning_rate_step_epochs |-> 100, learning_rate_plateau_patience |-> 10,
   learning_rate_plateau_min_delta |-> 0, divergence_threshold |-> 0,
   target_loss |-> -One, max_no_improvement_epochs |-> 0,
   no_improvement_min_delta |-> 0]

ConfigKeys == DOMAIN Defaults

-----------------------------------------------------------------------------
(* Which values the reader takes for a key, before it sees the other lines. *)

RunReads(key, value) ==
  \/ key \in {"epochs", "learning_rate"} /\ value \in Nat \ {0}
  \/ key \in {"seed", "checkpoint_interval"} /\ value \in Nat
  \/ key = "loss" /\ value \in Losses
  \/ key \in EarlyKeys /\ value \in Nat

BatchReads(key, value) ==
  \/ key \in {"batch_size", "gradient_clip_norm", "l1_regularization",
              "l2_regularization"} /\ value \in Nat
  \/ key \in {"shuffle", "regularize_biases"} /\ value \in {0, 1}

OptimizerReads(key, value) ==
  \/ key = "optimizer" /\ value \in Optimizers
  \/ key \in {"momentum", "adam_beta1", "adam_beta2", "adam_epsilon"}
     /\ value \in Int

ScheduleReads(key, value) ==
  \/ key = "learning_rate_schedule" /\ value \in RateSchedules
  \/ key \in {"learning_rate_step_epochs", "learning_rate_plateau_patience"}
     /\ value \in Nat
  \/ key \in {"learning_rate_decay", "learning_rate_plateau_min_delta"}
     /\ value \in Int

ConvergenceReads(key, value) ==
  \/ key = "max_no_improvement_epochs" /\ value \in Nat
  \/ key \in {"divergence_threshold", "target_loss",
              "no_improvement_min_delta"} /\ value \in Int

ValueReads(key, value) ==
  \/ RunReads(key, value)
  \/ BatchReads(key, value)
  \/ OptimizerReads(key, value)
  \/ ScheduleReads(key, value)
  \/ ConvergenceReads(key, value)

-----------------------------------------------------------------------------
(* The validation of a whole configuration.                                 *)

Proper(real) == 0 <= real /\ real < One

BasicsValid(c) ==
  /\ c.epochs > 0
  /\ c.learning_rate > 0
  /\ c.early_stopping_min_delta >= 0
  /\ c.early_stopping_patience = 0 => c.early_stopping_min_delta = 0
  /\ c.gradient_clip_norm >= 0
  /\ c.l1_regularization >= 0
  /\ c.l2_regularization >= 0
  /\ c.regularize_biases # 0 =>
       c.l1_regularization # 0 \/ c.l2_regularization # 0

OptimizerValid(c) ==
  /\ c.optimizer = "momentum" => Proper(c.momentum)
  /\ c.optimizer = "adam" =>
       Proper(c.adam_beta1) /\ Proper(c.adam_beta2) /\ c.adam_epsilon > 0

ScheduleValid(c) ==
  /\ c.learning_rate_schedule # "constant" =>
       c.learning_rate_decay > 0 /\ c.learning_rate_decay < One
  /\ c.learning_rate_schedule = "step" => c.learning_rate_step_epochs # 0
  /\ c.learning_rate_schedule = "plateau" =>
       /\ c.learning_rate_plateau_patience # 0
       /\ c.learning_rate_plateau_min_delta >= 0
  /\ c.divergence_threshold >= 0
  /\ c.target_loss >= -One
  /\ c.no_improvement_min_delta >= 0

ConfigValid(c) == BasicsValid(c) /\ OptimizerValid(c) /\ ScheduleValid(c)

-----------------------------------------------------------------------------
(* Reading, line by line.                                                   *)

Refused == [ok |-> FALSE, config |-> Defaults, fields |-> {}]

(* Mutant: the last of several lines of a key counts.                       *)
ReadConfigLineAgain(reader, line) ==
  IF reader.ok /\ line[1] \in ConfigKeys /\ ValueReads(line[1], line[2])
    THEN [reader EXCEPT !.config[line[1]] = line[2], !.fields = @ \cup {line[1]}]
    ELSE Refused

(* A value that does not parse, an unknown key or a second line of a key    *)
(* ends the reading.                                                        *)
ReadConfigLine(reader, line) ==
  IF /\ reader.ok
     /\ line[1] \in ConfigKeys
     /\ ValueReads(line[1], line[2])
     /\ line[1] \notin reader.fields
    THEN [reader EXCEPT !.config[line[1]] = line[2], !.fields = @ \cup {line[1]}]
    ELSE Refused

(* The reader after each number of lines.                                   *)
ConfigReaders(lines) ==
  LET reader[i \in 0 .. Len(lines)] ==
        IF i = 0 THEN [ok |-> TRUE, config |-> Defaults, fields |-> {}]
        ELSE ReadConfigLine(reader[i - 1], lines[i])
  IN  reader

ReadConfig(lines) ==
  LET end == ConfigReaders(lines)[Len(lines)]
  IN  IF /\ end.ok
         /\ RequiredKeys \subseteq end.fields
         /\ EarlyKeys \cap end.fields \in {{}, EarlyKeys}
         /\ ConfigValid(end.config)
        THEN end
        ELSE Refused

-----------------------------------------------------------------------------
(* Writing: settings that do not apply to the chosen optimizer and schedule *)
(* are left out.                                                            *)

Given(condition, items) == IF condition THEN items ELSE <<>>

WrittenKeys(c) ==
  <<"epochs", "learning_rate", "seed", "loss", "checkpoint_interval",
    "early_stopping_patience", "early_stopping_min_delta", "batch_size",
    "shuffle", "gradient_clip_norm", "l1_regularization",
    "l2_regularization", "regularize_biases", "optimizer">>
  \o Given(c.optimizer = "momentum", <<"momentum">>)
  \o Given(c.optimizer = "adam",
           <<"adam_beta1", "adam_beta2", "adam_epsilon">>)
  \o <<"learning_rate_schedule">>
  \o Given(c.learning_rate_schedule # "constant", <<"learning_rate_decay">>)
  \o Given(c.learning_rate_schedule = "step", <<"learning_rate_step_epochs">>)
  \o Given(c.learning_rate_schedule = "plateau",
           <<"learning_rate_plateau_patience",
             "learning_rate_plateau_min_delta">>)
  \o <<"divergence_threshold", "target_loss", "max_no_improvement_epochs",
       "no_improvement_min_delta">>

WriteConfig(c) ==
  [i \in DOMAIN WrittenKeys(c) |-> <<WrittenKeys(c)[i], c[WrittenKeys(c)[i]]>>]
=============================================================================
