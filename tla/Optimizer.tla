------------------------------- MODULE Optimizer -------------------------------
(***************************************************************************)
(* The mutable state of an optimizer (src/optimizer.c): step count and     *)
(* buffers, learning-rate schedule and convergence control.                *)
(*                                                                         *)
(* Losses are natural numbers.  The learning rate and the powers of Adam's *)
(* beta are abstracted to the number of factors below one that they have   *)
(* been multiplied with: after NormalPowers factors a double is subnormal, *)
(* after NonzeroPowers factors it is zero.  A buffer is abstracted to the  *)
(* number of batch gradients that it contains.                             *)
(***************************************************************************)
EXTENDS Integers

CONSTANTS
  SizeMax,        \* SIZE_MAX
  NormalPowers,   \* factors that leave a number normal
  NonzeroPowers   \* factors that leave a number above zero

ASSUME RangeAssumption ==
  /\ SizeMax \in Nat \ {0}
  /\ NormalPowers \in Nat
  /\ NonzeroPowers \in Nat
  /\ NormalPowers <= NonzeroPowers

Size == 0 .. SizeMax

(* "has_best" is FALSE exactly when the best value is not a number.         *)
Unset == -1

Kinds == {"gradient_descent", "momentum", "adam"}
Schedules == {"constant", "step", "exponential", "plateau"}
Reasons == {"none", "loss_target", "no_improvement"}

(* divergence = 0, target = -1 and noImprovement = 0 disable a control.     *)
Options ==
  [kind : Kinds, schedule : Schedules, interval : Size, patience : Size,
   plateauDelta : Nat, divergence : Nat, target : Nat \cup {-1},
   noImprovement : Size, minDelta : Nat]

OptionsValid(o) ==
  /\ o.schedule = "step" => o.interval # 0
  /\ o.schedule = "plateau" => o.patience # 0

State ==
  [timestep : Size, state1 : Size, state2 : Size, betas : Nat,
   completed : Size, rate : Nat, next : Size, best : Nat \cup {Unset},
   stale : Size, convergenceBest : Nat \cup {Unset},
   convergenceStale : Size, reason : Reasons]

Create(o) ==
  [timestep |-> 0, state1 |-> 0, state2 |-> 0, betas |-> 0,
   completed |-> 0, rate |-> 0,
   next |-> IF o.schedule = "step" THEN o.interval ELSE 1,
   best |-> Unset, stale |-> 0, convergenceBest |-> Unset,
   convergenceStale |-> 0, reason |-> "none"]

(* Mutant: a no-improvement limit alone is not taken for state.             *)
RequiresStateOfSchedule(o) ==
  \/ o.kind # "gradient_descent"
  \/ o.schedule # "constant"
  \/ o.divergence > 0
  \/ o.target >= 0

(* Whether a run can only be continued with the optimizer's state.          *)
RequiresState(o) ==
  \/ o.kind # "gradient_descent"
  \/ o.schedule # "constant"
  \/ o.divergence > 0
  \/ o.target >= 0
  \/ o.noImprovement # 0

-----------------------------------------------------------------------------
(* One batch update.                                                        *)

CanStep(o, s) == o.kind = "gradient_descent" \/ s.timestep < SizeMax

OptimizerStep(o, s) ==
  IF o.kind = "gradient_descent" THEN s
  ELSE LET stepped == [s EXCEPT !.timestep = @ + 1, !.state1 = @ + 1]
       IN  IF o.kind = "adam"
             THEN [stepped EXCEPT !.state2 = @ + 1, !.betas = @ + 1]
             ELSE stepped

-----------------------------------------------------------------------------
(* One completed epoch and its training loss.                               *)

(* Mutant: the sum may wrap around.                                         *)
AddUnchecked(a, b) == a + b

(* a + b, or SIZE_MAX when that does not fit.                               *)
AddSaturated(a, b) == IF a > SizeMax - b THEN SizeMax ELSE a + b

Improves(best, loss, delta) == best = Unset \/ best - loss > delta

(* Mutant: the count of stale epochs goes on after a transition.            *)
ScheduleStillStale(o, s, loss) ==
  LET done == s.completed + 1
      stale == s.stale + 1
  IN  CASE o.schedule = "constant" -> s
        [] o.schedule = "step" ->
             IF done # s.next THEN s
             ELSE [s EXCEPT !.rate = @ + 1,
                            !.next = AddSaturated(@, o.interval)]
        [] o.schedule = "exponential" ->
             [s EXCEPT !.rate = @ + 1, !.next = AddSaturated(done, 1)]
        [] o.schedule = "plateau" ->
             IF Improves(s.best, loss, o.plateauDelta)
               THEN [s EXCEPT !.best = loss, !.stale = 0]
             ELSE IF stale < o.patience THEN [s EXCEPT !.stale = stale]
             ELSE [s EXCEPT !.rate = @ + 1, !.next = AddSaturated(done, 1)]

(* The schedule: when the rate is multiplied by the decay.                  *)
Schedule(o, s, loss) ==
  LET done == s.completed + 1
      stale == s.stale + 1
  IN  CASE o.schedule = "constant" -> s
        [] o.schedule = "step" ->
             IF done # s.next THEN s
             ELSE [s EXCEPT !.rate = @ + 1,
                            !.next = AddSaturated(@, o.interval)]
        [] o.schedule = "exponential" ->
             [s EXCEPT !.rate = @ + 1, !.next = AddSaturated(done, 1)]
        [] o.schedule = "plateau" ->
             IF Improves(s.best, loss, o.plateauDelta)
               THEN [s EXCEPT !.best = loss, !.stale = 0]
             ELSE IF stale < o.patience THEN [s EXCEPT !.stale = stale]
             ELSE [s EXCEPT !.rate = @ + 1, !.stale = 0,
                            !.next = AddSaturated(done, 1)]

(* The loss target comes before the no-improvement limit.                   *)
Reason(o, s, loss) ==
  IF o.target >= 0 /\ loss <= o.target THEN "loss_target"
  ELSE IF o.noImprovement # 0 /\ s.convergenceStale >= o.noImprovement
    THEN "no_improvement"
  ELSE s.reason

Convergence(o, s, loss) ==
  LET counted ==
        IF Improves(s.convergenceBest, loss, o.minDelta)
          THEN [s EXCEPT !.convergenceBest = loss, !.convergenceStale = 0]
        ELSE IF o.noImprovement # 0
          THEN [s EXCEPT !.convergenceStale = @ + 1]
        ELSE s
  IN  [counted EXCEPT !.reason = Reason(o, counted, loss)]

Observed(o, s, loss) ==
  [Convergence(o, Schedule(o, s, loss), loss) EXCEPT !.completed = @ + 1]

Diverged(o, loss) == o.divergence > 0 /\ loss > o.divergence

(* The rate must stay positive and the epochs countable; the counts of stale *)
(* epochs are never greater, so that their own overflow checks never fire.  *)
CanObserve(o, s, loss) ==
  /\ s.completed < SizeMax
  /\ ~Diverged(o, loss)
  /\ Observed(o, s, loss).rate < NonzeroPowers
=============================================================================
