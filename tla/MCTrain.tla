------------------------------- MODULE MCTrain -------------------------------
(* Project training over small configurations: one that runs to its target,  *)
(* two with early stopping and one with convergence controls.                *)
EXTENDS TrainProperties

Plain ==
  [epochs |-> 3, interval |-> 2, patience |-> 0, minDelta |-> 0,
   converges |-> FALSE]

EarlyStop ==
  [epochs |-> 3, interval |-> 0, patience |-> 2, minDelta |-> 0,
   converges |-> FALSE]

Converging ==
  [epochs |-> 3, interval |-> 1, patience |-> 0, minDelta |-> 0,
   converges |-> TRUE]

AllConfigs == {Plain, EarlyStop, Converging}
OnlyEarlyStop == {EarlyStop}
OnlyConverging == {Converging}
=============================================================================
