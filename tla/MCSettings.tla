------------------------------ MODULE MCSettings ------------------------------
(* Projects of every optimizer and schedule, whose files are edited twice.   *)
EXTENDS ProjectSettings

Layer(neurons, kind, parameters) ==
  [neurons |-> neurons, kind |-> kind, parameters |-> parameters]

Network(layers) == [ok |-> TRUE, inputs |-> 1, layers |-> layers]

Plain == Network(<<Layer(1, "sigmoid", <<>>)>>)
Deep == Network(<<Layer(2, "elu", <<<<"alpha", One>>>>), Layer(1, "sigmoid", <<>>)>>)

SomeModels ==
  {Plain, Deep, Network(<<Layer(1, "leaky_relu", <<<<"alpha", Half>>>>)>>),
   Network(<<Layer(1, "leaky_relu", <<<<"alpha", One>>>>)>>),
   Network(<<Layer(1, "elu", <<>>)>>), Network(<<Layer(2, "softmax", <<>>)>>)}

Basic ==
  [Defaults EXCEPT !.epochs = 1, !.learning_rate = 1, !.checkpoint_interval = 1]

Rich ==
  [Basic EXCEPT !.optimizer = "adam", !.learning_rate_schedule = "plateau",
                !.l1_regularization = 1, !.batch_size = 1, !.shuffle = 1,
                !.max_no_improvement_epochs = 1,
                !.loss = "binary_cross_entropy"]

Stepped ==
  [Basic EXCEPT !.optimizer = "momentum", !.learning_rate_schedule = "step",
                !.gradient_clip_norm = 1, !.target_loss = 0,
                !.momentum = 0]

(* Early stopping, and a momentum that is not written.                       *)
Early ==
  [Basic EXCEPT !.early_stopping_patience = 1, !.momentum = 0,
                !.learning_rate_schedule = "exponential"]

(* Every key; for most, a value that is refused, one that turns the setting *)
(* off or one that does not.                                                *)
SomeLines ==
  {<<k, v>> : k \in {"epochs", "early_stopping_patience", "batch_size",
                     "max_no_improvement_epochs", "regularize_biases"},
              v \in {Junk, 0, 1}}
  \cup {<<k, v>> : k \in {"l2_regularization", "momentum", "target_loss",
                          "learning_rate_decay"}, v \in {-3, 0, 1, 2}}
  \cup {<<"batch_size", 2>>, <<"adam_epsilon", 0>>, <<"seed", 1>>,
        <<"early_stopping_min_delta", 1>>, <<"divergence_threshold", 1>>,
        <<"no_improvement_min_delta", 1>>, <<"learning_rate_step_epochs", 2>>,
        <<"learning_rate_plateau_patience", 0>>, <<"shuffle", 1>>,
        <<"gradient_clip_norm", 2>>, <<"learning_rate", 2>>,
        <<"l1_regularization", 2>>, <<"checkpoint_interval", 0>>,
        <<"adam_beta1", 0>>, <<"adam_beta2", 2>>,
        <<"learning_rate_plateau_min_delta", 1>>, <<"epoch", 1>>}
  \cup {<<"loss", v>> : v \in Losses}
  \cup {<<"optimizer", v>> : v \in Optimizers}
  \cup {<<"learning_rate_schedule", v>> : v \in RateSchedules \cup {Junk}}

Data(samples, values) ==
  [samples |-> samples, inputs |-> 1, outputs |-> 1, values |-> values,
   losses |-> {"mse", "binary_cross_entropy"}]

(* Targets of a regression, which no cross entropy takes.                   *)
Real == [Data(1, "c") EXCEPT !.losses = {"mse"}]

SomeData == {Data(2, "a"), Data(1, "b"), Real}

SomePreprocessings == {[inputs |-> 1, values |-> "z"]}

Starting(c, m, v) ==
  [config |-> c, model |-> m, train |-> Data(2, "a"), validation |-> v]

Starts ==
  {Starting(Basic, Plain, Absent), Starting(Rich, Deep, Data(1, "b")),
   Starting(Stepped, Plain, Absent), Starting(Early, Plain, Data(1, "b"))}
=============================================================================
