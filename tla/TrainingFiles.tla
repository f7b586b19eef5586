---------------------------- MODULE TrainingFiles ----------------------------
(***************************************************************************)
(* What the two persisted files of a project promise, whatever a training  *)
(* command, a failed write or a crash does between them: a ledger of       *)
(* completed epochs.  "stable" abstracts weights.txt (the last finalized   *)
(* model) and "recoverable" abstracts checkpoint.txt (the run in           *)
(* progress).  TrainProject is shown to implement this specification.      *)
(***************************************************************************)
EXTENDS Naturals

CONSTANTS
  MaxEpoch,  \* the largest epoch number
  Absent     \* no file

VARIABLES stable, recoverable

filesVars == <<stable, recoverable>>

Init == stable = Absent /\ recoverable = Absent

(* A new checkpoint is strictly ahead of both files and keeps the target.  *)
Checkpoint(c, t) ==
  /\ c \in 1 .. t
  /\ stable # Absent => c > stable.completed
  /\ recoverable # Absent =>
       c > recoverable.completed /\ t = recoverable.target
  /\ recoverable' = [completed |-> c, target |-> t]
  /\ UNCHANGED stable

(* Finalized work only grows, and covers the run it finalizes.             *)
Publish(c) ==
  /\ stable # Absent => c > stable.completed
  /\ recoverable # Absent =>
       c \in recoverable.completed .. recoverable.target
  /\ stable' = [completed |-> c]
  /\ UNCHANGED recoverable

(* A checkpoint is given up only when the finalized model covers it.       *)
Discard ==
  /\ stable # Absent
  /\ recoverable # Absent
  /\ stable.completed >= recoverable.completed
  /\ recoverable' = Absent
  /\ UNCHANGED stable

Next ==
  \/ \E t \in 1 .. MaxEpoch : \E c \in 1 .. t : Checkpoint(c, t)
  \/ \E c \in 1 .. MaxEpoch : Publish(c)
  \/ Discard

Spec == Init /\ [][Next]_filesVars

=============================================================================
