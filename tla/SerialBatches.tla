---------------------------- MODULE SerialBatches ----------------------------
(***************************************************************************)
(* What batch gradients promise: the model is updated one whole batch at a *)
(* time, and the gradient of a batch is reduced in logical order, each     *)
(* sample computed with the parameters that every earlier update produced  *)
(* - as one thread would do it.  Executor is shown to implement this.      *)
(***************************************************************************)
EXTENDS Naturals, Sequences

CONSTANTS
  SampleCount,  \* samples of the dataset
  BatchSize,    \* samples of a full batch
  Order         \* the sample at each logical position of the epoch

VARIABLES
  model,        \* the gradients applied so far
  bad           \* the samples whose gradient is not finite

serialVars == <<model, bad>>

Batches ==
  {r \in (0 .. SampleCount - 1) \X (1 .. SampleCount) :
     /\ r[1] % BatchSize = 0
     /\ r[2] = IF SampleCount - r[1] < BatchSize THEN SampleCount
               ELSE r[1] + BatchSize}

InOrder(r) ==
  [i \in 1 .. r[2] - r[1] |->
     [sample |-> Order[r[1] + i - 1], version |-> Len(model)]]

Init ==
  /\ model = <<>>
  /\ bad \subseteq 0 .. SampleCount - 1

Update(r) ==
  /\ \A i \in r[1] .. r[2] - 1 : Order[i] \notin bad
  /\ model' = Append(model, InOrder(r))
  /\ UNCHANGED bad

Next == \E r \in Batches : Update(r)

Spec == Init /\ [][Next]_serialVars

=============================================================================
