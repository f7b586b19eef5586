------------------------------ MODULE Fingerprint ------------------------------
(***************************************************************************)
(* The three digests of a project (src/digest.c), by which weights and     *)
(* checkpoints are tied to the model, the data and the training that they  *)
(* come from, and what training and prediction make use of.                *)
(*                                                                         *)
(* A digest is the stream of items that is hashed: texts and words.  What  *)
(* precedes an item says whether it is a text or a word, so equal streams  *)
(* of bytes are equal streams of items; SHA-256 is taken for injective.    *)
(***************************************************************************)
EXTENDS Architecture

CONSTANT Absent   \* no such file

Text(name) == <<"text", name>>
Word(number) == <<"word", number>>

-----------------------------------------------------------------------------
(* The streams.                                                             *)

LayerItems(layer) ==
  <<Word(layer.neurons), Text(layer.kind), Word(Len(layer.parameters))>>
  \o FlattenSeq([i \in DOMAIN layer.parameters |->
       <<Text(layer.parameters[i][1]), Word(layer.parameters[i][2])>>])

DigestModel(m) ==
  <<Text("model"), Word(m.inputs), Word(Len(m.layers))>>
  \o FlattenSeq([i \in DOMAIN m.layers |-> LayerItems(m.layers[i])])

(* The values of a dataset are one item.                                    *)
DigestDataset(d) ==
  <<Text("dataset"), Word(d.samples), Word(d.inputs), Word(d.outputs),
    Text(d.values)>>

(* With preprocessing, the digest of what both digests are.                 *)
DigestData(d, preprocessing) ==
  IF preprocessing = Absent THEN <<DigestDataset(d)>>
  ELSE <<Text("data-pipeline"), DigestDataset(d), preprocessing>>

BaseItems(c) ==
  <<Text("training"), Word(c.epochs), Word(c.learning_rate), Word(c.seed),
    Text(c.loss), Word(c.checkpoint_interval)>>

BatchItems(c) ==
  Given(c.batch_size # 0, <<Text("mini_batch"), Word(c.batch_size)>>)
  \o Given(c.shuffle # 0,
           <<Text("epoch_shuffle"), Text("splitmix64_fisher_yates_v1")>>)
  \o Given(c.gradient_clip_norm > 0,
           <<Text("gradient_clip_norm"), Word(c.gradient_clip_norm)>>)

Regularized(c) == c.l1_regularization > 0 \/ c.l2_regularization > 0

(* Mutant: which of the parameters are regularized is left out.             *)
RegularizationItemsWithoutBiases(c) ==
  Given(Regularized(c),
        <<Text("regularization"), Text("l1_l2_v1"),
          Word(c.l1_regularization), Word(c.l2_regularization)>>)

RegularizationItems(c) ==
  Given(Regularized(c),
        <<Text("regularization"), Text("l1_l2_v1"),
          Word(c.l1_regularization), Word(c.l2_regularization),
          Word(c.regularize_biases)>>)

OptimizerItems(c) ==
  Given(c.optimizer = "momentum",
        <<Text("optimizer"), Text("momentum_v1"), Word(c.momentum)>>)
  \o Given(c.optimizer = "adam",
           <<Text("optimizer"), Text("adam_v1"), Word(c.adam_beta1),
             Word(c.adam_beta2), Word(c.adam_epsilon)>>)

ScheduleItems(c) ==
  LET kind == c.learning_rate_schedule
  IN  Given(kind # "constant",
            <<Text("learning_rate_schedule"), Text(kind),
              Word(c.learning_rate_decay)>>)
      \o Given(kind = "step", <<Word(c.learning_rate_step_epochs)>>)
      \o Given(kind = "plateau",
               <<Word(c.learning_rate_plateau_patience),
                 Word(c.learning_rate_plateau_min_delta)>>)

Controlled(c) ==
  \/ c.divergence_threshold > 0
  \/ c.target_loss >= 0
  \/ c.max_no_improvement_epochs # 0

ConvergenceItems(c) ==
  Given(Controlled(c),
        <<Text("convergence_control"), Text("loss_v1"),
          Word(c.divergence_threshold), Word(c.target_loss),
          Word(c.max_no_improvement_epochs),
          Word(c.no_improvement_min_delta)>>)

StopsEarly(c) == c.early_stopping_patience # 0

(* The validation data belong to the training when it may stop early.       *)
EarlyItems(c, validation) ==
  IF ~StopsEarly(c) THEN <<>>
  ELSE <<Text("early_stopping"), Word(c.early_stopping_patience),
         Word(c.early_stopping_min_delta), DigestDataset(validation)>>

DigestTraining(c, validation) ==
  BaseItems(c) \o BatchItems(c) \o RegularizationItems(c)
  \o OptimizerItems(c) \o ScheduleItems(c) \o ConvergenceItems(c)
  \o EarlyItems(c, validation)

Digests(p) ==
  [model |-> DigestModel(p.model),
   dataset |-> DigestData(p.dataset, p.preprocessing),
   training |-> DigestTraining(p.config, p.validation)]

-----------------------------------------------------------------------------
(* What the code reads while it trains and predicts.  A setting that the    *)
(* code never reads under the others is not part of it.                     *)

(* Mutant: the batch plan takes the configured size as it is.               *)
BatchSizeUnbounded(c, d) ==
  IF c.batch_size = 0 THEN d.samples ELSE c.batch_size

(* The batch plan: no batch is larger than the dataset.                     *)
BatchSize(c, d) ==
  IF c.batch_size = 0 \/ c.batch_size > d.samples THEN d.samples
  ELSE c.batch_size

UsedByEpochs(c, d) ==
  [epochs |-> c.epochs, rate |-> c.learning_rate, seed |-> c.seed,
   loss |-> c.loss, interval |-> c.checkpoint_interval,
   batch |-> BatchSize(c, d), shuffle |-> c.shuffle,
   clip |-> Given(c.gradient_clip_norm > 0, <<c.gradient_clip_norm>>),
   penalty |-> Given(Regularized(c),
                     <<c.l1_regularization, c.l2_regularization,
                       c.regularize_biases>>)]

UsedByOptimizer(c) ==
  [optimizer |-> c.optimizer,
   momentum |-> Given(c.optimizer = "momentum", <<c.momentum>>),
   adam |-> Given(c.optimizer = "adam",
                  <<c.adam_beta1, c.adam_beta2, c.adam_epsilon>>),
   schedule |-> c.learning_rate_schedule,
   decay |-> Given(c.learning_rate_schedule # "constant",
                   <<c.learning_rate_decay>>),
   step |-> Given(c.learning_rate_schedule = "step",
                  <<c.learning_rate_step_epochs>>),
   plateau |-> Given(c.learning_rate_schedule = "plateau",
                     <<c.learning_rate_plateau_patience,
                       c.learning_rate_plateau_min_delta>>)]

UsedByControls(c, validation) ==
  [divergence |-> Given(c.divergence_threshold > 0, <<c.divergence_threshold>>),
   target |-> Given(c.target_loss >= 0, <<c.target_loss>>),
   stale |-> Given(c.max_no_improvement_epochs # 0,
                   <<c.max_no_improvement_epochs,
                     c.no_improvement_min_delta>>),
   early |-> Given(StopsEarly(c),
                   <<c.early_stopping_patience, c.early_stopping_min_delta,
                     validation>>)]

Used(p) ==
  [model |-> p.model, dataset |-> p.dataset,
   preprocessing |-> p.preprocessing,
   epochs |-> UsedByEpochs(p.config, p.dataset),
   optimizer |-> UsedByOptimizer(p.config),
   controls |-> UsedByControls(p.config, p.validation)]
=============================================================================
