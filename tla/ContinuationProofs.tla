--------------------------- MODULE ContinuationProofs ---------------------------
(***************************************************************************)
(* Proofs about Continuation: a run that is resumed any number of times is *)
(* the run without interruption, its schedule and its convergence control  *)
(* are those of the losses since the start, and every file that it writes  *)
(* is read back as it was written.                                         *)
(*                                                                         *)
(* The invariant has four parts: types; what is in memory, beside the      *)
(* optimizer of the uninterrupted run; what the checkpoint file says of    *)
(* the history at its time; and how that optimizer counts the history.     *)
(***************************************************************************)
EXTENDS Continuation, SequenceTheorems, WellFoundedInduction, TLAPS

(* What an optimizer keeps that is configured with o: buffers and powers    *)
(* only for a kind that has them, no stale epochs without a best value.     *)
OptimizerKept(o, s) ==
  /\ s \in State
  /\ s.state1 = s.timestep
  /\ o.kind = "gradient_descent" => s.timestep = 0
  /\ s.state2 = (IF o.kind = "adam" THEN s.timestep ELSE 0)
  /\ o.kind # "adam" => s.betas = 0
  /\ ~RequiresState(o) => s.rate = 0 /\ s.reason = "none"
  /\ s.best = Unset => s.stale = 0
  /\ s.convergenceBest = Unset => s.convergenceStale = 0
  /\ s.stale <= s.completed
  /\ s.convergenceStale <= s.completed

Bests == [epoch : 0 .. Target, loss : Nat, stale : 0 .. Target, params : Nat]

Models ==
  [completed : 0 .. Target, target : {Target}, params : Nat, best : Bests]

(* A best model is of an epoch that was completed, and there is one after   *)
(* the first epoch exactly when early stopping is configured.               *)
ModelKept(m) ==
  /\ m \in Models
  /\ m.best.epoch <= m.completed
  /\ m.best.stale <= m.completed
  /\ ~early => m.best = NoBest
  /\ m.completed # 0 => (Early(m) <=> early)

Histories == [shadow : State, losses : Seq(Losses)]

Types ==
  /\ setting \in Settings
  /\ live \in State \cup {None}
  /\ shadow \in State
  /\ losses \in Seq(Losses)
  /\ saved \in Histories
  /\ stopped \in BOOLEAN

(* The optimizer of a run that needs its state is the uninterrupted one.    *)
Memory ==
  /\ ModelKept(model)
  /\ OptimizerKept(options, shadow)
  /\ shadow.completed = model.completed
  /\ Running =>
       /\ OptimizerKept(options, live)
       /\ live.completed <= model.completed
       /\ RequiresState(options) => live = shadow
       /\ RequiresState(options) /\ model.completed # 0
            => live.rate < NonzeroPowers

(* The checkpoint holds the history's optimizer, where it holds one.        *)
FileHolds(s, m) ==
  /\ file = CheckpointLines(options, s, m)
  /\ OptimizerKept(options, s)
  /\ ModelKept(m)
  /\ m.completed # 0
  /\ s.completed <= m.completed
  /\ m.completed = saved.shadow.completed
  /\ RequiresState(options) => s = saved.shadow

Disk ==
  /\ OptimizerKept(options, saved.shadow)
  /\ file # <<>> => \E s \in State, m \in Models : FileHolds(s, m)

(* How an optimizer counts the losses since the start of the run: the next  *)
(* transition of a step schedule is the next multiple of the interval, and  *)
(* the stale epochs of a plateau count up to the patience, again and again. *)
NextMultiple(o, n) ==
  IF n - (n % o.interval) > SizeMax - o.interval THEN SizeMax
  ELSE n - (n % o.interval) + o.interval

FollowsSchedule(s, past) ==
  LET n == Len(past)
  IN  /\ options.schedule = "step" => s.next = NextMultiple(options, n)
      /\ options.schedule = "plateau" =>
           IF n = 0 THEN s.best = Unset /\ s.stale = 0
           ELSE /\ s.best = BestAfter(past, options.plateauDelta)[n]
                /\ s.stale = (n - LastBest(past, options.plateauDelta, n))
                               % options.patience
      /\ s.rate = Transitions(past)

FollowsConvergence(s, past) ==
  LET n == Len(past)
  IN  /\ IF n = 0 THEN s.convergenceBest = Unset /\ s.convergenceStale = 0
         ELSE /\ s.convergenceBest = BestAfter(past, options.minDelta)[n]
              /\ options.noImprovement # 0 =>
                   s.convergenceStale = n - LastBest(past, options.minDelta, n)
      /\ s.reason = FirstMet(past)

Follows(s, past) ==
  /\ s.completed = Len(past)
  /\ FollowsSchedule(s, past)
  /\ FollowsConvergence(s, past)

Counted == Follows(shadow, losses) /\ Follows(saved.shadow, saved.losses)

-----------------------------------------------------------------------------
(* The optimizer.                                                           *)

(* The setting's options are valid, also after a step.                      *)
LEMMA SettingKept ==
  ASSUME setting \in Settings
  PROVE  /\ options \in Options /\ OptionsValid(options)
         /\ setting.patience \in Nat
  BY SettingAssumption DEF options

LEMMA UnsetIsNoCount == Unset \in Int /\ Unset \notin Nat
  BY DEF Unset

LEMMA CreateKept ==
  ASSUME NEW o \in Options
  PROVE  OptimizerKept(o, Create(o))
<1> USE RangeAssumption
<1>1. Create(o) \in State
  BY DEF Create, State, Options, Size, Reasons, Unset
<1> QED
  BY <1>1 DEF OptimizerKept, Create

LEMMA AddSaturatedFits ==
  ASSUME NEW a \in Size, NEW b \in Size
  PROVE  AddSaturated(a, b) \in Size
  BY RangeAssumption DEF AddSaturated, Size

(* A batch step touches neither the schedule nor the convergence control.   *)
LEMMA StepKept ==
  ASSUME NEW o \in Options, NEW s, OptimizerKept(o, s), CanStep(o, s)
  PROVE  /\ OptimizerKept(o, OptimizerStep(o, s))
         /\ LET t == OptimizerStep(o, s)
            IN  /\ t.completed = s.completed /\ t.rate = s.rate
                /\ t.next = s.next /\ t.best = s.best /\ t.stale = s.stale
                /\ t.convergenceBest = s.convergenceBest
                /\ t.convergenceStale = s.convergenceStale
                /\ t.reason = s.reason
<1> DEFINE t == OptimizerStep(o, s)
<1>1. /\ s \in State /\ s.state1 = s.timestep
      /\ s.state2 = (IF o.kind = "adam" THEN s.timestep ELSE 0)
      /\ o.kind # "adam" => s.betas = 0
  BY DEF OptimizerKept
<1>2. CASE o.kind = "gradient_descent"
  BY <1>2 DEF OptimizerStep
<1>3. CASE o.kind # "gradient_descent"
  <2>1. s.timestep + 1 \in Size
    BY <1>1, <1>3, RangeAssumption DEF CanStep, State, Size
  <2>2. /\ t \in State /\ t.state1 = t.timestep
        /\ t.state2 = (IF o.kind = "adam" THEN t.timestep ELSE 0)
        /\ o.kind # "adam" => t.betas = 0
    <3>1. CASE o.kind = "adam"
      <4>1. s.state2 + 1 \in Size /\ s.betas + 1 \in Nat
        BY <1>1, <2>1, <3>1 DEF State, Size
      <4> QED
        BY <1>1, <1>3, <2>1, <3>1, <4>1 DEF OptimizerStep, State
    <3> QED
      BY <1>1, <1>3, <2>1, <3>1 DEF OptimizerStep, State
  <2> QED
    BY <1>3, <2>2 DEF OptimizerStep, OptimizerKept
<1> QED
  BY <1>2, <1>3

(* A schedule touches its own part only; the stale epochs are those since   *)
(* the start or the last improvement at most.                               *)
ScheduleResult(o, s, t) ==
  /\ t \in State
  /\ t.timestep = s.timestep /\ t.state1 = s.state1
  /\ t.state2 = s.state2 /\ t.betas = s.betas
  /\ t.completed = s.completed
  /\ t.convergenceBest = s.convergenceBest
  /\ t.convergenceStale = s.convergenceStale
  /\ t.reason = s.reason
  /\ t.best = Unset => t.stale = 0
  /\ t.stale <= t.completed + 1
  /\ o.schedule = "constant" => t.rate = s.rate

Rewritten(s, rate, next, best, stale) ==
  [s EXCEPT !.rate = rate, !.next = next, !.best = best, !.stale = stale]

LEMMA RewrittenFields ==
  ASSUME NEW s \in State, NEW rate \in Nat, NEW next \in Size,
         NEW best \in Nat \cup {Unset}, NEW stale \in Size, NEW t,
         t = Rewritten(s, rate, next, best, stale)
  PROVE  /\ t \in State
         /\ t.timestep = s.timestep /\ t.state1 = s.state1
         /\ t.state2 = s.state2 /\ t.betas = s.betas
         /\ t.completed = s.completed
         /\ t.rate = rate /\ t.next = next
         /\ t.best = best /\ t.stale = stale
         /\ t.convergenceBest = s.convergenceBest
         /\ t.convergenceStale = s.convergenceStale
         /\ t.reason = s.reason
<1>1. t \in State
  BY DEF State, Rewritten
<1>2. /\ t.timestep = s.timestep /\ t.state1 = s.state1
      /\ t.state2 = s.state2 /\ t.betas = s.betas
      /\ t.completed = s.completed
  BY DEF State, Rewritten
<1>3. /\ t.rate = rate /\ t.next = next
      /\ t.best = best /\ t.stale = stale
  BY DEF State, Rewritten
<1>4. /\ t.convergenceBest = s.convergenceBest
      /\ t.convergenceStale = s.convergenceStale
      /\ t.reason = s.reason
  BY DEF State, Rewritten
<1> QED
  BY <1>1, <1>2, <1>3, <1>4

(* The four fields that a schedule may write, after one epoch.              *)
ScheduledAs(o, s, t, rate, next, best, stale) ==
  /\ t = Rewritten(s, rate, next, best, stale)
  /\ stale <= s.stale + 1
  /\ best = Unset => best = s.best /\ stale = s.stale
  /\ o.schedule = "constant" => rate = s.rate

LEMMA ScheduleWrites ==
  ASSUME NEW o \in Options, NEW s \in State, NEW loss \in Nat,
         s.completed < SizeMax, s.stale <= s.completed
  PROVE  \E rate \in Nat, next \in Size, best \in Nat \cup {Unset},
            stale \in Size :
           ScheduledAs(o, s, Schedule(o, s, loss), rate, next, best, stale)
<1> DEFINE t == Schedule(o, s, loss)
           stale == s.stale + 1
<1>1. /\ s.completed \in Nat /\ s.stale \in Nat /\ s.rate + 1 \in Nat
      /\ s.rate \in Nat /\ s.next \in Size /\ s.stale \in Size
      /\ s.best \in Nat \cup {Unset} /\ stale \in Size
      /\ s.completed + 1 \in Size /\ 1 \in Size /\ 0 \in Size
  BY RangeAssumption DEF State, Size
<1>2. AddSaturated(s.completed + 1, 1) \in Size
  BY <1>1, AddSaturatedFits
<1>3. CASE o.schedule = "constant"
  <2>1. t = s
    BY <1>3 DEF Schedule
  <2> HIDE DEF t
  <2>2. t = Rewritten(s, s.rate, s.next, s.best, s.stale)
    BY <2>1 DEF State, Rewritten
  <2>3. ScheduledAs(o, s, t, s.rate, s.next, s.best, s.stale)
    BY <1>1, <2>2 DEF ScheduledAs
  <2> QED
    BY <1>1, <2>3 DEF t
<1>4. CASE o.schedule = "step"
  <2> DEFINE next == AddSaturated(s.next, o.interval)
  <2>1. next \in Size
    BY <1>1, AddSaturatedFits DEF Options
  <2>2. \/ t = s
        \/ t = [s EXCEPT !.rate = s.rate + 1, !.next = next]
    BY <1>4 DEF Schedule
  <2> HIDE DEF t, next
  <2>3. \/ t = Rewritten(s, s.rate, s.next, s.best, s.stale)
        \/ t = Rewritten(s, s.rate + 1, next, s.best, s.stale)
    BY <2>2 DEF State, Rewritten
  <2>4. \/ ScheduledAs(o, s, t, s.rate, s.next, s.best, s.stale)
        \/ ScheduledAs(o, s, t, s.rate + 1, next, s.best, s.stale)
    BY <1>1, <1>4, <2>3 DEF ScheduledAs
  <2> QED
    BY <1>1, <2>1, <2>4 DEF t
<1>5. CASE o.schedule = "exponential"
  <2> DEFINE next == AddSaturated(s.completed + 1, 1)
  <2>1. t = [s EXCEPT !.rate = s.rate + 1, !.next = next]
    BY <1>5 DEF Schedule
  <2> HIDE DEF t, next
  <2>2. t = Rewritten(s, s.rate + 1, next, s.best, s.stale)
    BY <2>1 DEF State, Rewritten
  <2>3. ScheduledAs(o, s, t, s.rate + 1, next, s.best, s.stale)
    BY <1>1, <1>5, <2>2 DEF ScheduledAs
  <2>4. next \in Size
    BY <1>2 DEF next
  <2> QED
    BY <1>1, <2>3, <2>4 DEF t
<1>6. CASE o.schedule = "plateau"
  <2> DEFINE next == AddSaturated(s.completed + 1, 1)
  <2>1. CASE Improves(s.best, loss, o.plateauDelta)
    <3>1. t = [s EXCEPT !.best = loss, !.stale = 0]
      BY <1>6, <2>1 DEF Schedule
    <3> HIDE DEF t
    <3>2. t = Rewritten(s, s.rate, s.next, loss, 0)
      BY <3>1 DEF State, Rewritten
    <3>3. ScheduledAs(o, s, t, s.rate, s.next, loss, 0)
      BY <1>1, <1>6, <3>2, UnsetIsNoCount DEF ScheduledAs
    <3> QED
      BY <1>1, <3>3 DEF t
  <2>2. CASE ~Improves(s.best, loss, o.plateauDelta)
    <3>1. s.best # Unset
      BY <2>2 DEF Improves
    <3>2. \/ t = [s EXCEPT !.stale = stale]
          \/ t = [s EXCEPT !.rate = s.rate + 1, !.stale = 0, !.next = next]
      BY <1>6, <2>2 DEF Schedule
    <3>3. /\ stale <= s.stale + 1 /\ 0 <= s.stale + 1
          /\ stale \in Size /\ next \in Size
      BY <1>1, <1>2
    <3> HIDE DEF t, next, stale
    <3>4. \/ t = Rewritten(s, s.rate, s.next, s.best, stale)
          \/ t = Rewritten(s, s.rate + 1, next, s.best, 0)
      BY <3>2 DEF State, Rewritten
    <3>5. \/ ScheduledAs(o, s, t, s.rate, s.next, s.best, stale)
          \/ ScheduledAs(o, s, t, s.rate + 1, next, s.best, 0)
      BY <1>1, <1>6, <3>1, <3>3, <3>4 DEF ScheduledAs
    <3> QED
      BY <1>1, <3>3, <3>5 DEF t
  <2> QED
    BY <2>1, <2>2
<1>7. o.schedule \in Schedules
  BY DEF Options
<1> QED
  BY <1>3, <1>4, <1>5, <1>6, <1>7 DEF Schedules

LEMMA ScheduleKept ==
  ASSUME NEW o \in Options, NEW s, OptimizerKept(o, s), NEW loss \in Nat,
         s.completed < SizeMax
  PROVE  ScheduleResult(o, s, Schedule(o, s, loss))
<1>1. /\ s \in State /\ s.stale <= s.completed
      /\ s.best = Unset => s.stale = 0
  BY DEF OptimizerKept
<1>2. PICK rate \in Nat, next \in Size, best \in Nat \cup {Unset},
           stale \in Size :
        ScheduledAs(o, s, Schedule(o, s, loss), rate, next, best, stale)
  BY <1>1, ScheduleWrites
<1> DEFINE t == Schedule(o, s, loss)
<1>3. /\ t \in State
      /\ t.timestep = s.timestep /\ t.state1 = s.state1
      /\ t.state2 = s.state2 /\ t.betas = s.betas
      /\ t.completed = s.completed
      /\ t.rate = rate /\ t.best = best /\ t.stale = stale
      /\ t.convergenceBest = s.convergenceBest
      /\ t.convergenceStale = s.convergenceStale
      /\ t.reason = s.reason
  BY <1>1, <1>2, RewrittenFields DEF ScheduledAs
<1> HIDE DEF t
<1>4. t.stale <= t.completed + 1
  <2>1. s.stale \in Int /\ s.completed \in Int /\ stale \in Int
    BY <1>1, RangeAssumption DEF State, Size
  <2> QED
    BY <1>1, <1>2, <1>3, <2>1 DEF ScheduledAs
<1>5. ScheduleResult(o, s, t)
  BY <1>1, <1>2, <1>3, <1>4 DEF ScheduleResult, ScheduledAs
<1> QED
  BY <1>5 DEF t

(* The convergence control touches its own part only.                       *)
ConvergenceResult(o, s, t) ==
  /\ t \in State
  /\ t.timestep = s.timestep /\ t.state1 = s.state1
  /\ t.state2 = s.state2 /\ t.betas = s.betas
  /\ t.completed = s.completed
  /\ t.rate = s.rate /\ t.next = s.next
  /\ t.best = s.best /\ t.stale = s.stale
  /\ t.convergenceBest = Unset => t.convergenceStale = 0
  /\ t.convergenceStale <= t.completed + 1
  /\ o.target < 0 /\ o.noImprovement = 0 => t.reason = s.reason

LEMMA ConvergenceKept ==
  ASSUME NEW o \in Options, NEW s \in State, NEW loss \in Nat,
         s.completed < SizeMax, s.convergenceStale <= s.completed,
         s.convergenceBest = Unset => s.convergenceStale = 0
  PROVE  ConvergenceResult(o, s, Convergence(o, s, loss))
<1> DEFINE counted ==
             IF Improves(s.convergenceBest, loss, o.minDelta)
               THEN [s EXCEPT !.convergenceBest = loss, !.convergenceStale = 0]
             ELSE IF o.noImprovement # 0
               THEN [s EXCEPT !.convergenceStale = @ + 1]
             ELSE s
           reason == Reason(o, counted, loss)
<1>1. Convergence(o, s, loss) = [counted EXCEPT !.reason = reason]
  BY DEF Convergence
<1>2. /\ s.completed \in Nat /\ s.convergenceStale \in Nat
      /\ s.convergenceStale + 1 \in Size /\ 0 \in Size /\ loss # Unset
  BY RangeAssumption DEF State, Size, Unset
<1>3. /\ counted \in State /\ counted.reason = s.reason
      /\ counted.timestep = s.timestep /\ counted.state1 = s.state1
      /\ counted.state2 = s.state2 /\ counted.betas = s.betas
      /\ counted.completed = s.completed
      /\ counted.rate = s.rate /\ counted.next = s.next
      /\ counted.best = s.best /\ counted.stale = s.stale
      /\ counted.convergenceBest = Unset => counted.convergenceStale = 0
      /\ counted.convergenceStale <= counted.completed + 1
  <2>1. CASE Improves(s.convergenceBest, loss, o.minDelta)
    <3>1. counted = [s EXCEPT !.convergenceBest = loss, !.convergenceStale = 0]
      BY <2>1
    <3> HIDE DEF counted
    <3>2. counted \in State
      BY ONLY <1>2, <3>1, s \in State, loss \in Nat DEF State
    <3>3. /\ counted.reason = s.reason
          /\ counted.timestep = s.timestep /\ counted.state1 = s.state1
          /\ counted.state2 = s.state2 /\ counted.betas = s.betas
          /\ counted.completed = s.completed
      BY ONLY <3>1, s \in State DEF State
    <3>4. /\ counted.rate = s.rate /\ counted.next = s.next
          /\ counted.best = s.best /\ counted.stale = s.stale
          /\ counted.convergenceStale = 0
      BY ONLY <3>1, s \in State DEF State
    <3> QED
      BY <1>2, <3>2, <3>3, <3>4
  <2>2. CASE ~Improves(s.convergenceBest, loss, o.minDelta)
    <3>1. \/ counted = s
          \/ counted = [s EXCEPT !.convergenceStale = @ + 1]
      BY <2>2
    <3>2. s.convergenceBest # Unset
      BY <2>2 DEF Improves
    <3> HIDE DEF counted
    <3> QED
      BY ONLY <1>2, <3>1, <3>2, s \in State, s.convergenceStale <= s.completed
      DEF State
  <2> QED
    BY <2>1, <2>2
<1> HIDE DEF counted
<1>4. /\ reason \in Reasons
      /\ o.target < 0 /\ o.noImprovement = 0 => reason = s.reason
  <2>1. counted.reason \in Reasons
    BY <1>3 DEF State
  <2>2. o.target \in Int
    BY UnsetIsNoCount DEF Options
  <2> QED
    BY <1>3, <2>1, <2>2 DEF Reason, Reasons
<1> HIDE DEF reason
<1> QED
  BY ONLY <1>1, <1>3, <1>4 DEF ConvergenceResult, State

LEMMA ObservedKept ==
  ASSUME NEW o \in Options, NEW s, OptimizerKept(o, s), NEW loss \in Nat,
         s.completed < SizeMax
  PROVE  /\ OptimizerKept(o, Observed(o, s, loss))
         /\ Observed(o, s, loss).completed = s.completed + 1
<1> DEFINE t == Schedule(o, s, loss)
           u == Convergence(o, t, loss)
<1>1. ScheduleResult(o, s, t)
  BY ScheduleKept
<1>2. /\ s \in State /\ s.convergenceStale <= s.completed
      /\ s.convergenceBest = Unset => s.convergenceStale = 0
  BY DEF OptimizerKept
<1>3. /\ t \in State /\ t.completed < SizeMax
      /\ t.convergenceStale <= t.completed
      /\ t.convergenceBest = Unset => t.convergenceStale = 0
  BY <1>1, <1>2 DEF ScheduleResult
<1> HIDE DEF t
<1>4. ConvergenceResult(o, t, u)
  BY <1>3, ConvergenceKept
<1>5. Observed(o, s, loss) = [u EXCEPT !.completed = @ + 1]
  BY DEF Observed, t
<1> HIDE DEF u
<1> DEFINE v == Observed(o, s, loss)
<1>6. s.completed \in Nat /\ s.completed + 1 \in Size
  BY <1>2, RangeAssumption DEF State, Size
<1>7. u \in State /\ u.completed = s.completed
  BY <1>1, <1>4 DEF ScheduleResult, ConvergenceResult
<1>8. /\ v \in State /\ v.completed = s.completed + 1
      /\ v.timestep = u.timestep /\ v.state1 = u.state1
      /\ v.state2 = u.state2 /\ v.betas = u.betas
      /\ v.rate = u.rate /\ v.reason = u.reason
      /\ v.best = u.best /\ v.stale = u.stale
      /\ v.convergenceBest = u.convergenceBest
      /\ v.convergenceStale = u.convergenceStale
  BY ONLY <1>5, <1>6, <1>7 DEF State
<1> HIDE DEF v
<1>9. ~RequiresState(o) => v.rate = 0 /\ v.reason = "none"
  <2>1. SUFFICES ASSUME ~RequiresState(o) PROVE v.rate = 0 /\ v.reason = "none"
    OBVIOUS
  <2>2. /\ o.schedule = "constant" /\ o.noImprovement = 0 /\ ~(o.target >= 0)
        /\ o.target \in Int
    BY <2>1, UnsetIsNoCount DEF RequiresState, Options
  <2>3. s.rate = 0 /\ s.reason = "none"
    BY <2>1 DEF OptimizerKept
  <2>4. t.rate = s.rate /\ t.reason = s.reason /\ u.rate = t.rate
    BY <1>1, <1>4, <2>2 DEF ScheduleResult, ConvergenceResult
  <2>5. u.reason = t.reason
    BY <1>4, <2>2 DEF ConvergenceResult
  <2> QED
    BY <1>8, <2>3, <2>4, <2>5
<1>10. OptimizerKept(o, v)
  BY <1>1, <1>4, <1>6, <1>7, <1>8, <1>9
  DEF OptimizerKept, ScheduleResult, ConvergenceResult
<1> QED
  BY <1>8, <1>10 DEF v

-----------------------------------------------------------------------------
(* Files as sets of keyed lines.                                            *)

LinesOf(s) == {s[i] : i \in DOMAIN s}

LEMMA ConcatLines ==
  ASSUME NEW S, NEW s \in Seq(S), NEW t \in Seq(S)
  PROVE  /\ s \o t \in Seq(S)
         /\ LinesOf(s \o t) = LinesOf(s) \cup LinesOf(t)
         /\ Keys(s \o t) = Keys(s) \o Keys(t)
<1>1. /\ s \o t \in Seq(S) /\ Len(s \o t) = Len(s) + Len(t)
      /\ Len(s) \in Nat /\ Len(t) \in Nat
      /\ DOMAIN s = 1 .. Len(s) /\ DOMAIN t = 1 .. Len(t)
      /\ DOMAIN (s \o t) = 1 .. Len(s) + Len(t)
  OBVIOUS
<1>2. /\ \A i \in 1 .. Len(s) : (s \o t)[i] = s[i]
      /\ \A i \in 1 .. Len(t) : (s \o t)[Len(s) + i] = t[i]
      /\ \A i \in 1 .. Len(s) + Len(t) :
           i > Len(s) => i - Len(s) \in 1 .. Len(t)
                         /\ (s \o t)[i] = t[i - Len(s)]
  BY <1>1
<1>3. LinesOf(s \o t) = LinesOf(s) \cup LinesOf(t)
  <2>1. ASSUME NEW x \in LinesOf(s \o t) PROVE x \in LinesOf(s) \cup LinesOf(t)
    <3>1. PICK i \in 1 .. Len(s) + Len(t) : x = (s \o t)[i]
      BY <1>1 DEF LinesOf
    <3>2. CASE i <= Len(s)
      BY <1>1, <1>2, <3>1, <3>2 DEF LinesOf
    <3>3. CASE i > Len(s)
      BY <1>1, <1>2, <3>1, <3>3 DEF LinesOf
    <3> QED
      BY <1>1, <3>2, <3>3
  <2>2. ASSUME NEW x \in LinesOf(s) PROVE x \in LinesOf(s \o t)
    <3>1. PICK i \in 1 .. Len(s) : x = s[i]
      BY <1>1 DEF LinesOf
    <3>2. i \in 1 .. Len(s) + Len(t) /\ x = (s \o t)[i]
      BY <1>1, <1>2, <3>1
    <3> QED
      BY <1>1, <3>2 DEF LinesOf
  <2>3. ASSUME NEW x \in LinesOf(t) PROVE x \in LinesOf(s \o t)
    <3>1. PICK i \in 1 .. Len(t) : x = t[i]
      BY <1>1 DEF LinesOf
    <3>2. Len(s) + i \in 1 .. Len(s) + Len(t) /\ x = (s \o t)[Len(s) + i]
      BY <1>1, <1>2, <3>1
    <3> QED
      BY <1>1, <3>2 DEF LinesOf
  <2> QED
    BY <2>1, <2>2, <2>3
<1>4. Keys(s \o t) = Keys(s) \o Keys(t)
  <2> DEFINE K == {x[1] : x \in S}
  <2>1. /\ Keys(s) \in Seq(K) /\ Len(Keys(s)) = Len(s)
        /\ \A i \in 1 .. Len(s) : Keys(s)[i] = s[i][1]
    BY <1>1 DEF Keys
  <2>2. /\ Keys(t) \in Seq(K) /\ Len(Keys(t)) = Len(t)
        /\ \A i \in 1 .. Len(t) : Keys(t)[i] = t[i][1]
    BY <1>1 DEF Keys
  <2>3. /\ Keys(s \o t) \in Seq(K) /\ Len(Keys(s \o t)) = Len(s) + Len(t)
        /\ \A i \in 1 .. Len(s) + Len(t) : Keys(s \o t)[i] = (s \o t)[i][1]
    BY <1>1 DEF Keys
  <2> DEFINE a == Keys(s)
             b == Keys(t)
             c == Keys(s \o t)
             m == Len(s)
             n == Len(t)
             u == s \o t
  <2>4. /\ a \in Seq(K) /\ Len(a) = m /\ \A i \in 1 .. m : a[i] = s[i][1]
        /\ b \in Seq(K) /\ Len(b) = n /\ \A i \in 1 .. n : b[i] = t[i][1]
        /\ c \in Seq(K) /\ Len(c) = m + n
        /\ \A i \in 1 .. m + n : c[i] = u[i][1]
        /\ \A i \in 1 .. m : u[i] = s[i]
        /\ \A i \in 1 .. n : u[m + i] = t[i]
        /\ m \in Nat /\ n \in Nat
    BY <1>1, <1>2, <2>1, <2>2, <2>3
  <2> HIDE DEF K, a, b, c, m, n, u
  <2>5. /\ a \o b \in Seq(K) /\ Len(a \o b) = m + n
        /\ \A i \in 1 .. m : (a \o b)[i] = a[i]
        /\ \A i \in 1 .. n : (a \o b)[m + i] = b[i]
    BY <2>4
  <2>6. ASSUME NEW i \in 1 .. m + n PROVE c[i] = (a \o b)[i]
    <3>1. CASE i <= m
      <4>1. i \in 1 .. m
        BY <2>4, <3>1
      <4>2. c[i] = u[i][1] /\ u[i] = s[i] /\ a[i] = s[i][1]
        BY ONLY <2>4, <4>1
      <4>3. (a \o b)[i] = a[i]
        BY ONLY <2>5, <4>1
      <4> QED
        BY ONLY <4>2, <4>3, Zenon
    <3>2. CASE i > m
      <4>1. PICK j \in 1 .. n : i = m + j
        <5>1. i - m \in 1 .. n /\ i = m + (i - m)
          BY <2>4, <3>2
        <5> QED
          BY <5>1
      <4>2. u[i] = t[j] /\ (a \o b)[i] = b[j] /\ b[j] = t[j][1]
        BY ONLY <2>4, <2>5, <4>1
      <4> QED
        BY ONLY <2>4, <4>2
    <3> QED
      BY <2>4, <3>1, <3>2
  <2>7. c = a \o b
    <3>1. Len(c) = Len(a \o b) /\ \A i \in 1 .. Len(c) : c[i] = (a \o b)[i]
      BY <2>4, <2>5, <2>6
    <3> QED
      BY ONLY <2>4, <2>5, <3>1, SeqEqual
  <2> QED
    BY <2>7 DEF a, b, c, u
<1> QED
  BY <1>1, <1>3, <1>4

(* The only line of a key is found under it.                                *)
LEMMA FieldIs ==
  ASSUME NEW lines, NEW key, NEW value, <<key, value>> \in LinesOf(lines),
         \A x \in LinesOf(lines) : x[1] = key => x[2] = value
  PROVE  Has(lines, key) /\ Field(lines, key) = value
<1>1. PICK i \in DOMAIN lines : lines[i] = <<key, value>>
  BY DEF LinesOf
<1>2. \A j \in DOMAIN lines : lines[j][1] = key => lines[j][2] = value
  BY DEF LinesOf
<1> QED
  BY <1>1, <1>2 DEF Has, Field

LEMMA FieldAbsent ==
  ASSUME NEW lines, NEW key, \A x \in LinesOf(lines) : x[1] # key
  PROVE  ~Has(lines, key)
  BY DEF Has, LinesOf

(* What is known of a file: its lines, and its keys in their order.         *)
Written(lines, entries, keys) ==
  /\ \E S : lines \in Seq(S)
  /\ LinesOf(lines) = entries
  /\ Keys(lines) = keys

LEMMA WrittenConcat ==
  ASSUME NEW s, NEW t, NEW E, NEW F, NEW K, NEW L,
         Written(s, E, K), Written(t, F, L)
  PROVE  Written(s \o t, E \cup F, K \o L)
<1>1. /\ LinesOf(s) = E /\ Keys(s) = K /\ \E S : s \in Seq(S)
      /\ LinesOf(t) = F /\ Keys(t) = L /\ \E T : t \in Seq(T)
  BY DEF Written
<1>2. PICK S : s \in Seq(S)
  BY <1>1
<1>3. PICK T : t \in Seq(T)
  BY <1>1
<1>4. s \in Seq(S \cup T) /\ t \in Seq(S \cup T)
  BY <1>2, <1>3
<1>5. /\ s \o t \in Seq(S \cup T)
      /\ LinesOf(s \o t) = LinesOf(s) \cup LinesOf(t)
      /\ Keys(s \o t) = Keys(s) \o Keys(t)
  BY ONLY <1>4, ConcatLines
<1> QED
  BY <1>1, <1>5 DEF Written

LEMMA WrittenOptional ==
  ASSUME NEW s, NEW E, NEW K, Written(s, E, K), NEW c \in BOOLEAN
  PROVE  Written(Optional(c, s), IF c THEN E ELSE {}, Optional(c, K))
<1>1. CASE c
  BY <1>1 DEF Optional, Written
<1>2. CASE ~c
  BY <1>2 DEF Optional, LinesOf, Keys, Written
<1> QED
  BY <1>1, <1>2

LEMMA OneLine ==
  ASSUME NEW k, NEW v
  PROVE  Written(<<<<k, v>>>>, {<<k, v>>}, <<k>>)
<1> DEFINE lines == <<<<k, v>>>>
<1>1. lines \in Seq({<<k, v>>})
  OBVIOUS
<1>2. LinesOf(lines) = {<<k, v>>} /\ Keys(lines) = <<k>>
  BY DEF LinesOf, Keys
<1> QED
  BY <1>1, <1>2 DEF Written

(* The lines of the optimizer section.                                      *)
OptimizerHeader(o, s) ==
  {<<"optimizer_timestep", s.timestep>>,
   <<"learning_rate_schedule", o.schedule>>,
   <<"schedule_completed_epochs", s.completed>>,
   <<"schedule_current_rate", s.rate>>,
   <<"schedule_next_transition", s.next>>,
   <<"schedule_has_best", s.best # Unset>>,
   <<"schedule_stale_epochs", s.stale>>}

ConvergenceHeader(s) ==
  {<<"convergence_has_best", s.convergenceBest # Unset>>,
   <<"convergence_stale_epochs", s.convergenceStale>>,
   <<"convergence_reason", s.reason>>}

OptimizerEntries(o, s) ==
  OptimizerHeader(o, s)
  \cup (IF s.best # Unset THEN {<<"schedule_best_metric", s.best>>} ELSE {})
  \cup ConvergenceHeader(s)
  \cup (IF s.convergenceBest # Unset
          THEN {<<"convergence_best_loss", s.convergenceBest>>} ELSE {})
  \cup (IF o.kind = "adam" THEN {<<"optimizer_beta_powers", s.betas>>} ELSE {})
  \cup (IF o.kind # "gradient_descent"
          THEN {<<"optimizer_state1", s.state1>>} ELSE {})
  \cup (IF o.kind = "adam" THEN {<<"optimizer_state2", s.state2>>} ELSE {})

OptimizerKeysOf(o, best, convergenceBest) ==
  <<"optimizer_timestep", "learning_rate_schedule",
    "schedule_completed_epochs", "schedule_current_rate",
    "schedule_next_transition", "schedule_has_best", "schedule_stale_epochs">>
  \o Optional(best, <<"schedule_best_metric">>)
  \o <<"convergence_has_best", "convergence_stale_epochs",
       "convergence_reason">>
  \o Optional(convergenceBest, <<"convergence_best_loss">>)
  \o Optional(o.kind = "adam", <<"optimizer_beta_powers">>)
  \o Optional(o.kind # "gradient_descent", <<"optimizer_state1">>)
  \o Optional(o.kind = "adam", <<"optimizer_state2">>)

LEMMA OptimizerLinesWritten ==
  ASSUME NEW o, NEW s
  PROVE  Written(OptimizerLines(o, s), OptimizerEntries(o, s),
                 OptimizerKeysOf(o, s.best # Unset, s.convergenceBest # Unset))
<1> DEFINE l1 == <<<<"optimizer_timestep", s.timestep>>,
                   <<"learning_rate_schedule", o.schedule>>,
                   <<"schedule_completed_epochs", s.completed>>,
                   <<"schedule_current_rate", s.rate>>,
                   <<"schedule_next_transition", s.next>>,
                   <<"schedule_has_best", s.best # Unset>>,
                   <<"schedule_stale_epochs", s.stale>>>>
           l2 == <<<<"schedule_best_metric", s.best>>>>
           l3 == <<<<"convergence_has_best", s.convergenceBest # Unset>>,
                   <<"convergence_stale_epochs", s.convergenceStale>>,
                   <<"convergence_reason", s.reason>>>>
           l4 == <<<<"convergence_best_loss", s.convergenceBest>>>>
           l5 == <<<<"optimizer_beta_powers", s.betas>>>>
           l6 == <<<<"optimizer_state1", s.state1>>>>
           l7 == <<<<"optimizer_state2", s.state2>>>>
           k1 == <<"optimizer_timestep", "learning_rate_schedule",
                   "schedule_completed_epochs", "schedule_current_rate",
                   "schedule_next_transition", "schedule_has_best",
                   "schedule_stale_epochs">>
           k3 == <<"convergence_has_best", "convergence_stale_epochs",
                   "convergence_reason">>
           c2 == s.best # Unset
           c4 == s.convergenceBest # Unset
           adam == o.kind = "adam"
           stateful == o.kind # "gradient_descent"
           e2 == IF c2 THEN {<<"schedule_best_metric", s.best>>} ELSE {}
           e4 == IF c4 THEN {<<"convergence_best_loss", s.convergenceBest>>}
                 ELSE {}
           e5 == IF adam THEN {<<"optimizer_beta_powers", s.betas>>} ELSE {}
           e6 == IF stateful THEN {<<"optimizer_state1", s.state1>>} ELSE {}
           e7 == IF adam THEN {<<"optimizer_state2", s.state2>>} ELSE {}
<1>2. Written(l1, OptimizerHeader(o, s), k1)
  <2>1. l1 \in Seq(OptimizerHeader(o, s))
    BY DEF OptimizerHeader
  <2>2. LinesOf(l1) = OptimizerHeader(o, s) /\ Keys(l1) = k1
    BY DEF LinesOf, Keys, OptimizerHeader
  <2> QED
    BY ONLY <2>1, <2>2 DEF Written
<1>3. Written(l3, ConvergenceHeader(s), k3)
  <2>1. l3 \in Seq(ConvergenceHeader(s))
    BY DEF ConvergenceHeader
  <2>2. LinesOf(l3) = ConvergenceHeader(s) /\ Keys(l3) = k3
    BY DEF LinesOf, Keys, ConvergenceHeader
  <2> QED
    BY ONLY <2>1, <2>2 DEF Written
<1>4. Written(Optional(c2, l2), e2,
              Optional(c2, <<"schedule_best_metric">>))
  <2>1. Written(l2, {<<"schedule_best_metric", s.best>>},
                <<"schedule_best_metric">>)
    BY OneLine
  <2> QED
    BY <2>1, WrittenOptional
<1>5. Written(Optional(c4, l4), e4,
              Optional(c4, <<"convergence_best_loss">>))
  <2>1. Written(l4, {<<"convergence_best_loss", s.convergenceBest>>},
                <<"convergence_best_loss">>)
    BY OneLine
  <2> QED
    BY <2>1, WrittenOptional
<1>6. Written(Optional(adam, l5), e5,
              Optional(adam, <<"optimizer_beta_powers">>))
  <2>1. Written(l5, {<<"optimizer_beta_powers", s.betas>>},
                <<"optimizer_beta_powers">>)
    BY OneLine
  <2> QED
    BY <2>1, WrittenOptional
<1>7. Written(Optional(stateful, l6), e6,
              Optional(stateful, <<"optimizer_state1">>))
  <2>1. Written(l6, {<<"optimizer_state1", s.state1>>},
                <<"optimizer_state1">>)
    BY OneLine
  <2> QED
    BY <2>1, WrittenOptional
<1>8. Written(Optional(adam, l7), e7,
              Optional(adam, <<"optimizer_state2">>))
  <2>1. Written(l7, {<<"optimizer_state2", s.state2>>},
                <<"optimizer_state2">>)
    BY OneLine
  <2> QED
    BY <2>1, WrittenOptional
<1>9. OptimizerLines(o, s)
        = l1 \o Optional(c2, l2) \o l3 \o Optional(c4, l4) \o Optional(adam, l5)
             \o Optional(stateful, l6) \o Optional(adam, l7)
  BY DEF OptimizerLines
<1>10. OptimizerEntries(o, s)
         = OptimizerHeader(o, s) \cup e2 \cup ConvergenceHeader(s) \cup e4
             \cup e5 \cup e6 \cup e7
  BY DEF OptimizerEntries
<1>11. OptimizerKeysOf(o, c2, c4)
         = k1 \o Optional(c2, <<"schedule_best_metric">>) \o k3
              \o Optional(c4, <<"convergence_best_loss">>)
              \o Optional(adam, <<"optimizer_beta_powers">>)
              \o Optional(stateful, <<"optimizer_state1">>)
              \o Optional(adam, <<"optimizer_state2">>)
  BY DEF OptimizerKeysOf
<1> HIDE DEF l1, l2, l3, l4, l5, l6, l7, k1, k3, c2, c4, adam, stateful,
             e2, e4, e5, e6, e7
<1>12. Written(l1 \o Optional(c2, l2), OptimizerHeader(o, s) \cup e2,
               k1 \o Optional(c2, <<"schedule_best_metric">>))
  BY <1>2, <1>4, WrittenConcat
<1>13. Written(l1 \o Optional(c2, l2) \o l3,
               OptimizerHeader(o, s) \cup e2 \cup ConvergenceHeader(s),
               k1 \o Optional(c2, <<"schedule_best_metric">>) \o k3)
  BY <1>3, <1>12, WrittenConcat
<1>14. Written(l1 \o Optional(c2, l2) \o l3 \o Optional(c4, l4),
               OptimizerHeader(o, s) \cup e2 \cup ConvergenceHeader(s) \cup e4,
               k1 \o Optional(c2, <<"schedule_best_metric">>) \o k3
                  \o Optional(c4, <<"convergence_best_loss">>))
  BY <1>5, <1>13, WrittenConcat
<1>15. Written(l1 \o Optional(c2, l2) \o l3 \o Optional(c4, l4)
                    \o Optional(adam, l5),
               OptimizerHeader(o, s) \cup e2 \cup ConvergenceHeader(s) \cup e4
                 \cup e5,
               k1 \o Optional(c2, <<"schedule_best_metric">>) \o k3
                  \o Optional(c4, <<"convergence_best_loss">>)
                  \o Optional(adam, <<"optimizer_beta_powers">>))
  BY <1>6, <1>14, WrittenConcat
<1>16. Written(l1 \o Optional(c2, l2) \o l3 \o Optional(c4, l4)
                    \o Optional(adam, l5) \o Optional(stateful, l6),
               OptimizerHeader(o, s) \cup e2 \cup ConvergenceHeader(s) \cup e4
                 \cup e5 \cup e6,
               k1 \o Optional(c2, <<"schedule_best_metric">>) \o k3
                  \o Optional(c4, <<"convergence_best_loss">>)
                  \o Optional(adam, <<"optimizer_beta_powers">>)
                  \o Optional(stateful, <<"optimizer_state1">>))
  BY <1>7, <1>15, WrittenConcat
<1>17. Written(l1 \o Optional(c2, l2) \o l3 \o Optional(c4, l4)
                    \o Optional(adam, l5) \o Optional(stateful, l6)
                    \o Optional(adam, l7),
               OptimizerHeader(o, s) \cup e2 \cup ConvergenceHeader(s) \cup e4
                 \cup e5 \cup e6 \cup e7,
               k1 \o Optional(c2, <<"schedule_best_metric">>) \o k3
                  \o Optional(c4, <<"convergence_best_loss">>)
                  \o Optional(adam, <<"optimizer_beta_powers">>)
                  \o Optional(stateful, <<"optimizer_state1">>)
                  \o Optional(adam, <<"optimizer_state2">>))
  BY <1>8, <1>16, WrittenConcat
<1> QED
  BY <1>9, <1>10, <1>11, <1>17 DEF c2, c4

(* The lines of a checkpoint.                                               *)
CheckpointHeader(o, m) ==
  {<<"checkpoint", CheckpointVersion(o, Early(m))>>, <<"digests", o>>,
   <<"completed_epochs", m.completed>>, <<"target_epochs", m.target>>,
   <<"optimizer", o.kind>>}

BestHeader(m) ==
  {<<"best_epoch", m.best.epoch>>, <<"best_loss", m.best.loss>>,
   <<"stale_epochs", m.best.stale>>}

ModelEntries(o, m) ==
  IF Early(m)
    THEN {<<"current_model", m.params>>, <<"best_model", m.best.params>>}
  ELSE IF RequiresState(o) THEN {<<"model", m.params>>}
  ELSE {<<"parameters", m.params>>}

CheckpointEntries(o, s, m) ==
  CheckpointHeader(o, m)
  \cup (IF Early(m) THEN BestHeader(m) ELSE {})
  \cup (IF RequiresState(o) THEN OptimizerEntries(o, s) ELSE {})
  \cup ModelEntries(o, m)

ModelKeysOf(o, withBest) ==
  IF withBest THEN <<"current_model", "best_model">>
  ELSE IF RequiresState(o) THEN <<"model">> ELSE <<"parameters">>

CheckpointKeysOf(o, withBest, best, convergenceBest) ==
  <<"checkpoint", "digests", "completed_epochs", "target_epochs", "optimizer">>
  \o Optional(withBest, <<"best_epoch", "best_loss", "stale_epochs">>)
  \o Optional(RequiresState(o), OptimizerKeysOf(o, best, convergenceBest))
  \o ModelKeysOf(o, withBest)

LEMMA VersionOfState ==
  ASSUME NEW o, NEW b \in BOOLEAN
  PROVE  /\ CheckpointVersion(o, b) = 3 <=> RequiresState(o)
         /\ CheckpointVersion(o, b) \in {1, 2, 3}
         /\ ~RequiresState(o) =>
              CheckpointVersion(o, b) = (IF b THEN 2 ELSE 1)
<1>1. CASE RequiresState(o)
  BY <1>1 DEF CheckpointVersion, RequiresState
<1>2. CASE ~RequiresState(o)
  BY <1>2 DEF CheckpointVersion, RequiresState
<1> QED
  BY <1>1, <1>2

LEMMA VersionOf ==
  ASSUME NEW o, NEW m
  PROVE  /\ CheckpointVersion(o, Early(m)) = 3 <=> RequiresState(o)
         /\ ~RequiresState(o) =>
              CheckpointVersion(o, Early(m)) = (IF Early(m) THEN 2 ELSE 1)
<1>1. Early(m) \in BOOLEAN
  BY DEF Early
<1> QED
  BY <1>1, VersionOfState

LEMMA CheckpointLinesWritten ==
  ASSUME NEW o, NEW s, NEW m
  PROVE  Written(CheckpointLines(o, s, m), CheckpointEntries(o, s, m),
                 CheckpointKeysOf(o, Early(m), s.best # Unset,
                                  s.convergenceBest # Unset))
<1> DEFINE withBest == Early(m)
           state == RequiresState(o)
           version == CheckpointVersion(o, withBest)
           l1 == <<<<"checkpoint", version>>, <<"digests", o>>,
                   <<"completed_epochs", m.completed>>,
                   <<"target_epochs", m.target>>, <<"optimizer", o.kind>>>>
           k1 == <<"checkpoint", "digests", "completed_epochs",
                   "target_epochs", "optimizer">>
           l2 == <<<<"best_epoch", m.best.epoch>>, <<"best_loss", m.best.loss>>,
                   <<"stale_epochs", m.best.stale>>>>
           k2 == <<"best_epoch", "best_loss", "stale_epochs">>
           l3 == OptimizerLines(o, s)
           k3 == OptimizerKeysOf(o, s.best # Unset, s.convergenceBest # Unset)
           l4 == IF withBest
                   THEN <<<<"current_model", m.params>>,
                          <<"best_model", m.best.params>>>>
                 ELSE IF version = 3 THEN <<<<"model", m.params>>>>
                 ELSE <<<<"parameters", m.params>>>>
           k4 == ModelKeysOf(o, withBest)
           e2 == IF withBest THEN BestHeader(m) ELSE {}
           e3 == IF state THEN OptimizerEntries(o, s) ELSE {}
<1>1. withBest \in BOOLEAN /\ state \in BOOLEAN /\ (version = 3 <=> state)
  BY VersionOfState DEF Early, RequiresState
<1>2. Written(l1, CheckpointHeader(o, m), k1)
  <2>1. l1 \in Seq(CheckpointHeader(o, m))
    BY DEF CheckpointHeader
  <2>2. LinesOf(l1) = CheckpointHeader(o, m) /\ Keys(l1) = k1
    BY DEF LinesOf, Keys, CheckpointHeader
  <2> QED
    BY ONLY <2>1, <2>2 DEF Written
<1>3. Written(Optional(withBest, l2), e2, Optional(withBest, k2))
  <2>1. l2 \in Seq(BestHeader(m))
    BY DEF BestHeader
  <2>2. LinesOf(l2) = BestHeader(m) /\ Keys(l2) = k2
    BY DEF LinesOf, Keys, BestHeader
  <2>3. Written(l2, BestHeader(m), k2)
    BY ONLY <2>1, <2>2 DEF Written
  <2> QED
    BY <1>1, <2>3, WrittenOptional
<1>4. Written(Optional(state, l3), e3, Optional(state, k3))
  BY <1>1, OptimizerLinesWritten, WrittenOptional
<1>5. Written(l4, ModelEntries(o, m), k4)
  <2>1. CASE withBest
    <3> DEFINE l == <<<<"current_model", m.params>>,
                      <<"best_model", m.best.params>>>>
               e == {<<"current_model", m.params>>,
                     <<"best_model", m.best.params>>}
    <3>1. l \in Seq(e)
      OBVIOUS
    <3>2. LinesOf(l) = e /\ Keys(l) = <<"current_model", "best_model">>
      BY DEF LinesOf, Keys
    <3>3. Written(l, e, <<"current_model", "best_model">>)
      BY ONLY <3>1, <3>2 DEF Written
    <3> QED
      BY <2>1, <3>3 DEF ModelEntries, ModelKeysOf
  <2>2. CASE ~withBest /\ state
    BY <1>1, <2>2, OneLine DEF ModelEntries, ModelKeysOf
  <2>3. CASE ~withBest /\ ~state
    BY <1>1, <2>3, OneLine DEF ModelEntries, ModelKeysOf
  <2> QED
    BY <2>1, <2>2, <2>3
<1>6. CheckpointLines(o, s, m)
        = l1 \o Optional(withBest, l2) \o Optional(state, l3) \o l4
  BY <1>1 DEF CheckpointLines
<1>7. CheckpointEntries(o, s, m)
        = CheckpointHeader(o, m) \cup e2 \cup e3 \cup ModelEntries(o, m)
  BY DEF CheckpointEntries
<1>8. CheckpointKeysOf(o, withBest, s.best # Unset, s.convergenceBest # Unset)
        = k1 \o Optional(withBest, k2) \o Optional(state, k3) \o k4
  BY DEF CheckpointKeysOf
<1> HIDE DEF withBest, state, version, l1, l2, l3, l4, k1, k2, k3, k4, e2, e3
<1>9. Written(l1 \o Optional(withBest, l2), CheckpointHeader(o, m) \cup e2,
              k1 \o Optional(withBest, k2))
  BY <1>2, <1>3, WrittenConcat
<1>10. Written(l1 \o Optional(withBest, l2) \o Optional(state, l3),
               CheckpointHeader(o, m) \cup e2 \cup e3,
               k1 \o Optional(withBest, k2) \o Optional(state, k3))
  BY <1>4, <1>9, WrittenConcat
<1>11. Written(l1 \o Optional(withBest, l2) \o Optional(state, l3) \o l4,
               CheckpointHeader(o, m) \cup e2 \cup e3 \cup ModelEntries(o, m),
               k1 \o Optional(withBest, k2) \o Optional(state, k3) \o k4)
  BY <1>5, <1>10, WrittenConcat
<1> QED
  BY <1>6, <1>7, <1>8, <1>11 DEF withBest

(* No key has two lines.                                                    *)
LEMMA OptimizerKeyOnce ==
  ASSUME NEW o, NEW s, NEW x \in OptimizerEntries(o, s),
         NEW y \in OptimizerEntries(o, s), x[1] = y[1]
  PROVE  x[2] = y[2]
  BY DEF OptimizerEntries, OptimizerHeader, ConvergenceHeader

OptimizerKeySet ==
  {"optimizer_timestep", "learning_rate_schedule",
   "schedule_completed_epochs", "schedule_current_rate",
   "schedule_next_transition", "schedule_has_best", "schedule_stale_epochs",
   "schedule_best_metric", "convergence_has_best", "convergence_stale_epochs",
   "convergence_reason", "convergence_best_loss", "optimizer_beta_powers",
   "optimizer_state1", "optimizer_state2"}

LEMMA OptimizerKeysKnown ==
  ASSUME NEW o, NEW s, NEW x \in OptimizerEntries(o, s)
  PROVE  x[1] \in OptimizerKeySet
  BY DEF OptimizerEntries, OptimizerHeader, ConvergenceHeader, OptimizerKeySet

LEMMA CheckpointKeyOnce ==
  ASSUME NEW o, NEW s, NEW m, NEW x \in CheckpointEntries(o, s, m),
         NEW y \in CheckpointEntries(o, s, m), x[1] = y[1]
  PROVE  x[2] = y[2]
<1> DEFINE Other == CheckpointHeader(o, m)
                      \cup (IF Early(m) THEN BestHeader(m) ELSE {})
                      \cup ModelEntries(o, m)
<1>1. \A e \in CheckpointEntries(o, s, m) :
        e \in OptimizerEntries(o, s) \/ e \in Other
  BY DEF CheckpointEntries
<1>2. \A e \in Other : e[1] \notin OptimizerKeySet
  BY DEF CheckpointHeader, BestHeader, ModelEntries, OptimizerKeySet
<1>3. x \in Other /\ y \in Other => x[2] = y[2]
  BY DEF CheckpointHeader, BestHeader, ModelEntries
<1> HIDE DEF Other
<1> QED
  BY <1>1, <1>2, <1>3, OptimizerKeyOnce, OptimizerKeysKnown

LEMMA CheckpointField ==
  ASSUME NEW o, NEW s, NEW m, NEW key, NEW value,
         <<key, value>> \in CheckpointEntries(o, s, m)
  PROVE  /\ Has(CheckpointLines(o, s, m), key)
         /\ Field(CheckpointLines(o, s, m), key) = value
<1> DEFINE lines == CheckpointLines(o, s, m)
<1>1. LinesOf(lines) = CheckpointEntries(o, s, m)
  BY CheckpointLinesWritten DEF Written
<1>2. \A x \in LinesOf(lines) : x[1] = key => x[2] = value
  <2>1. SUFFICES ASSUME NEW x \in CheckpointEntries(o, s, m), x[1] = key
                 PROVE  x[2] = value
    BY <1>1
  <2> DEFINE y == <<key, value>>
  <2>2. y \in CheckpointEntries(o, s, m) /\ x[1] = y[1] /\ y[2] = value
    BY <2>1
  <2> HIDE DEF y
  <2>3. x[2] = y[2]
    BY <2>1, <2>2, CheckpointKeyOnce
  <2> QED
    BY <2>2, <2>3
<1> QED
  BY <1>1, <1>2, FieldIs

(* What is read under each key.                                             *)
LEMMA HeaderFields ==
  ASSUME NEW o, NEW s, NEW m
  PROVE  LET lines == CheckpointLines(o, s, m)
         IN  /\ Field(lines, "checkpoint") = CheckpointVersion(o, Early(m))
             /\ Field(lines, "digests") = o
             /\ Field(lines, "completed_epochs") = m.completed
             /\ Field(lines, "target_epochs") = m.target
             /\ Field(lines, "optimizer") = o.kind
<1> DEFINE E == CheckpointEntries(o, s, m)
<1>1. /\ <<"checkpoint", CheckpointVersion(o, Early(m))>> \in E
      /\ <<"digests", o>> \in E
      /\ <<"completed_epochs", m.completed>> \in E
      /\ <<"target_epochs", m.target>> \in E
      /\ <<"optimizer", o.kind>> \in E
  BY DEF CheckpointEntries, CheckpointHeader
<1> HIDE DEF E
<1> QED
  BY <1>1, CheckpointField DEF E

LEMMA BestFields ==
  ASSUME NEW o, NEW s, NEW m, Early(m)
  PROVE  LET lines == CheckpointLines(o, s, m)
         IN  /\ Field(lines, "best_epoch") = m.best.epoch
             /\ Field(lines, "best_loss") = m.best.loss
             /\ Field(lines, "stale_epochs") = m.best.stale
             /\ Field(lines, "current_model") = m.params
             /\ Field(lines, "best_model") = m.best.params
<1> DEFINE E == CheckpointEntries(o, s, m)
<1>1. /\ <<"best_epoch", m.best.epoch>> \in E
      /\ <<"best_loss", m.best.loss>> \in E
      /\ <<"stale_epochs", m.best.stale>> \in E
      /\ <<"current_model", m.params>> \in E
      /\ <<"best_model", m.best.params>> \in E
  BY DEF CheckpointEntries, BestHeader, ModelEntries
<1> HIDE DEF E
<1> QED
  BY <1>1, CheckpointField DEF E

LEMMA ModelFields ==
  ASSUME NEW o, NEW s, NEW m, ~Early(m)
  PROVE  LET lines == CheckpointLines(o, s, m)
         IN  /\ RequiresState(o) => Field(lines, "model") = m.params
             /\ ~RequiresState(o) => Field(lines, "parameters") = m.params
<1> DEFINE E == CheckpointEntries(o, s, m)
<1>1. /\ RequiresState(o) => <<"model", m.params>> \in E
      /\ ~RequiresState(o) => <<"parameters", m.params>> \in E
  BY DEF CheckpointEntries, ModelEntries
<1> HIDE DEF E
<1> QED
  BY <1>1, CheckpointField DEF E

LEMMA OptimizerFields ==
  ASSUME NEW o, NEW s, NEW m, RequiresState(o)
  PROVE  LET lines == CheckpointLines(o, s, m)
         IN  /\ Field(lines, "optimizer_timestep") = s.timestep
             /\ Field(lines, "learning_rate_schedule") = o.schedule
             /\ Field(lines, "schedule_completed_epochs") = s.completed
             /\ Field(lines, "schedule_current_rate") = s.rate
             /\ Field(lines, "schedule_next_transition") = s.next
             /\ Field(lines, "schedule_stale_epochs") = s.stale
             /\ Field(lines, "convergence_stale_epochs") = s.convergenceStale
             /\ Field(lines, "convergence_reason") = s.reason
<1> DEFINE E == CheckpointEntries(o, s, m)
<1>1. /\ <<"optimizer_timestep", s.timestep>> \in E
      /\ <<"learning_rate_schedule", o.schedule>> \in E
      /\ <<"schedule_completed_epochs", s.completed>> \in E
      /\ <<"schedule_current_rate", s.rate>> \in E
      /\ <<"schedule_next_transition", s.next>> \in E
      /\ <<"schedule_stale_epochs", s.stale>> \in E
      /\ <<"convergence_stale_epochs", s.convergenceStale>> \in E
      /\ <<"convergence_reason", s.reason>> \in E
  BY DEF CheckpointEntries, OptimizerEntries, OptimizerHeader, ConvergenceHeader
<1> HIDE DEF E
<1> QED
  BY <1>1, CheckpointField DEF E

LEMMA OptimizerFlags ==
  ASSUME NEW o, NEW s, NEW m, RequiresState(o)
  PROVE  LET lines == CheckpointLines(o, s, m)
         IN  /\ Has(lines, "schedule_has_best")
             /\ Field(lines, "schedule_has_best")
                  = IF s.best # Unset THEN TRUE ELSE FALSE
             /\ Has(lines, "convergence_has_best")
             /\ Field(lines, "convergence_has_best")
                  = IF s.convergenceBest # Unset THEN TRUE ELSE FALSE
<1> DEFINE E == CheckpointEntries(o, s, m)
           b == s.best # Unset
           c == s.convergenceBest # Unset
<1>1. <<"schedule_has_best", b>> \in E
  BY DEF CheckpointEntries, OptimizerEntries, OptimizerHeader
<1>2. <<"convergence_has_best", c>> \in E
  BY DEF CheckpointEntries, OptimizerEntries, ConvergenceHeader
<1>3. /\ b = IF s.best # Unset THEN TRUE ELSE FALSE
      /\ c = IF s.convergenceBest # Unset THEN TRUE ELSE FALSE
  OBVIOUS
<1> HIDE DEF E, b, c
<1> QED
  BY <1>1, <1>2, <1>3, CheckpointField DEF E

LEMMA OptionalFields ==
  ASSUME NEW o, NEW s, NEW m, RequiresState(o)
  PROVE  LET lines == CheckpointLines(o, s, m)
         IN  /\ s.best # Unset =>
                  Field(lines, "schedule_best_metric") = s.best
             /\ s.convergenceBest # Unset =>
                  Field(lines, "convergence_best_loss") = s.convergenceBest
             /\ o.kind = "adam" =>
                  /\ Field(lines, "optimizer_beta_powers") = s.betas
                  /\ Field(lines, "optimizer_state2") = s.state2
             /\ o.kind # "gradient_descent" =>
                  Field(lines, "optimizer_state1") = s.state1
<1> DEFINE E == CheckpointEntries(o, s, m)
<1>1. /\ s.best # Unset => <<"schedule_best_metric", s.best>> \in E
      /\ s.convergenceBest # Unset =>
           <<"convergence_best_loss", s.convergenceBest>> \in E
      /\ o.kind = "adam" => /\ <<"optimizer_beta_powers", s.betas>> \in E
                            /\ <<"optimizer_state2", s.state2>> \in E
      /\ o.kind # "gradient_descent" => <<"optimizer_state1", s.state1>> \in E
  BY DEF CheckpointEntries, OptimizerEntries
<1> HIDE DEF E
<1> QED
  BY <1>1, CheckpointField DEF E

(* A file without optimizer state has no number that could be refused, and  *)
(* one with it has the powers of beta for Adam only.                        *)
LEMMA RealFieldsAbsent ==
  ASSUME NEW o, NEW s, NEW m
  PROVE  LET lines == CheckpointLines(o, s, m)
         IN  /\ ~RequiresState(o) => ~Has(lines, "schedule_current_rate")
             /\ o.kind # "adam" => ~Has(lines, "optimizer_beta_powers")
             /\ ~RequiresState(o) => ~Has(lines, "optimizer_beta_powers")
<1> DEFINE lines == CheckpointLines(o, s, m)
<1>1. LinesOf(lines) = CheckpointEntries(o, s, m)
  BY CheckpointLinesWritten DEF Written
<1> HIDE DEF lines
<1>2. ASSUME ~RequiresState(o), NEW x \in LinesOf(lines)
      PROVE  x[1] # "schedule_current_rate" /\ x[1] # "optimizer_beta_powers"
  BY <1>1, <1>2 DEF CheckpointEntries, CheckpointHeader, BestHeader, ModelEntries
<1>3. ASSUME o.kind # "adam", NEW x \in LinesOf(lines)
      PROVE  x[1] # "optimizer_beta_powers"
  BY <1>1, <1>3 DEF CheckpointEntries, CheckpointHeader, BestHeader,
                    ModelEntries, OptimizerEntries, OptimizerHeader,
                    ConvergenceHeader
<1> QED
  BY <1>2, <1>3, FieldAbsent DEF lines

-----------------------------------------------------------------------------
(* What is written is accepted, and read back as it was.                    *)

LEMMA RestoredIs ==
  ASSUME NEW o \in Options, NEW s, OptimizerKept(o, s), NEW m, RequiresState(o)
  PROVE  Restored(o, CheckpointLines(o, s, m)) = s
<1> DEFINE lines == CheckpointLines(o, s, m)
           r == Restored(o, lines)
<1>1. /\ s \in State /\ s.state1 = s.timestep
      /\ o.kind = "gradient_descent" => s.timestep = 0
      /\ s.state2 = (IF o.kind = "adam" THEN s.timestep ELSE 0)
      /\ o.kind # "adam" => s.betas = 0
  BY DEF OptimizerKept
<1>2. /\ r.timestep = s.timestep /\ r.state1 = s.state1
      /\ r.state2 = s.state2 /\ r.betas = s.betas
  BY <1>1, OptimizerFields, OptionalFields DEF Restored
<1>3. /\ r.completed = s.completed /\ r.rate = s.rate /\ r.next = s.next
      /\ r.stale = s.stale /\ r.convergenceStale = s.convergenceStale
      /\ r.reason = s.reason
  BY OptimizerFields DEF Restored
<1>4. r.best = s.best
  <2>1. r.best = IF Field(lines, "schedule_has_best")
                  THEN Field(lines, "schedule_best_metric") ELSE Unset
    BY DEF Restored
  <2>2. CASE s.best # Unset
    <3>1. Field(lines, "schedule_has_best") = TRUE
      BY <2>2, OptimizerFlags
    <3> QED
      BY <2>1, <2>2, <3>1, OptionalFields
  <2>3. CASE s.best = Unset
    <3>1. Field(lines, "schedule_has_best") = FALSE
      BY <2>3, OptimizerFlags
    <3> QED
      BY <2>1, <2>3, <3>1
  <2> QED
    BY <2>2, <2>3
<1>5. r.convergenceBest = s.convergenceBest
  <2>1. r.convergenceBest = IF Field(lines, "convergence_has_best")
                  THEN Field(lines, "convergence_best_loss") ELSE Unset
    BY DEF Restored
  <2>2. CASE s.convergenceBest # Unset
    <3>1. Field(lines, "convergence_has_best") = TRUE
      BY <2>2, OptimizerFlags
    <3> QED
      BY <2>1, <2>2, <3>1, OptionalFields
  <2>3. CASE s.convergenceBest = Unset
    <3>1. Field(lines, "convergence_has_best") = FALSE
      BY <2>3, OptimizerFlags
    <3> QED
      BY <2>1, <2>3, <3>1
  <2> QED
    BY <2>2, <2>3
<1>6. r = [timestep |-> r.timestep, state1 |-> r.state1, state2 |-> r.state2,
           betas |-> r.betas, completed |-> r.completed, rate |-> r.rate,
           next |-> r.next, best |-> r.best, stale |-> r.stale,
           convergenceBest |-> r.convergenceBest,
           convergenceStale |-> r.convergenceStale, reason |-> r.reason]
  BY DEF Restored
<1> HIDE DEF r
<1>7. s = [timestep |-> s.timestep, state1 |-> s.state1, state2 |-> s.state2,
           betas |-> s.betas, completed |-> s.completed, rate |-> s.rate,
           next |-> s.next, best |-> s.best, stale |-> s.stale,
           convergenceBest |-> s.convergenceBest,
           convergenceStale |-> s.convergenceStale, reason |-> s.reason]
  BY <1>1 DEF State
<1>8. r = s
  BY <1>2, <1>3, <1>4, <1>5, <1>6, <1>7
<1> QED
  BY <1>8 DEF r

LEMMA MetadataIs ==
  ASSUME NEW o, NEW s, NEW m, m \in Models, ~Early(m) => m.best = NoBest
  PROVE  MetadataFrom(Early(m), CheckpointLines(o, s, m)) = m
<1> DEFINE lines == CheckpointLines(o, s, m)
           r == MetadataFrom(Early(m), lines)
<1>1. r.completed = m.completed /\ r.target = m.target
  BY HeaderFields DEF MetadataFrom
<1>2. r.params = m.params
  <2>1. CASE Early(m)
    BY <2>1, BestFields DEF MetadataFrom
  <2>2. CASE ~Early(m) /\ RequiresState(o)
    <3>1. Field(lines, "checkpoint") = 3
      BY <2>2, HeaderFields, VersionOf
    <3> QED
      BY <2>2, <3>1, ModelFields DEF MetadataFrom
  <2>3. CASE ~Early(m) /\ ~RequiresState(o)
    <3>1. Field(lines, "checkpoint") # 3
      BY <2>3, HeaderFields, VersionOf
    <3> QED
      BY <2>3, <3>1, ModelFields DEF MetadataFrom
  <2> QED
    BY <2>1, <2>2, <2>3
<1>3. r.best = m.best
  <2>1. CASE Early(m)
    <3>1. r.best = [epoch |-> m.best.epoch, loss |-> m.best.loss,
                    stale |-> m.best.stale, params |-> m.best.params]
      BY <2>1, BestFields DEF MetadataFrom
    <3>2. m.best \in Bests
      BY DEF Models
    <3> HIDE DEF r
    <3> QED
      BY <3>1, <3>2 DEF Bests
  <2>2. CASE ~Early(m)
    BY <2>2 DEF MetadataFrom
  <2> QED
    BY <2>1, <2>2
<1>4. r = [completed |-> r.completed, target |-> r.target,
           params |-> r.params, best |-> r.best]
  BY DEF MetadataFrom
<1> HIDE DEF r
<1>5. r = m
  BY <1>1, <1>2, <1>3, <1>4 DEF Models
<1> QED
  BY <1>5 DEF r

LEMMA KeysAsExpected ==
  ASSUME NEW o, NEW s, NEW m
  PROVE  LET lines == CheckpointLines(o, s, m)
         IN  Keys(lines) = CheckpointKeys(o.kind, CheckpointVersion(o, Early(m)),
                                          Early(m), lines)
<1> DEFINE lines == CheckpointLines(o, s, m)
           version == CheckpointVersion(o, Early(m))
<1>1. Keys(lines) = CheckpointKeysOf(o, Early(m), s.best # Unset,
                                     s.convergenceBest # Unset)
  BY CheckpointLinesWritten DEF Written
<1>2. version = 3 <=> RequiresState(o)
  BY VersionOf
<1>3. RequiresState(o) =>
        Keys(lines) = CheckpointKeys(o.kind, version, Early(m), lines)
  <2> SUFFICES ASSUME RequiresState(o)
               PROVE  Keys(lines) = CheckpointKeys(o.kind, version, Early(m), lines)
    OBVIOUS
  <2>1. OptimizerKeys(o.kind, lines)
          = OptimizerKeysOf(o, s.best # Unset, s.convergenceBest # Unset)
    <3>1. /\ Has(lines, "schedule_has_best")
             /\ Field(lines, "schedule_has_best") <=> s.best # Unset
          /\ Has(lines, "convergence_has_best")
             /\ Field(lines, "convergence_has_best")
               <=> s.convergenceBest # Unset
      <4>1. s.best # Unset => Field(lines, "schedule_has_best") = TRUE
        BY OptimizerFlags
      <4>2. s.best = Unset => Field(lines, "schedule_has_best") = FALSE
        BY OptimizerFlags
      <4>3. s.convergenceBest # Unset =>
              Field(lines, "convergence_has_best") = TRUE
        BY OptimizerFlags
      <4>4. s.convergenceBest = Unset =>
              Field(lines, "convergence_has_best") = FALSE
        BY OptimizerFlags
      <4>5. Has(lines, "schedule_has_best") /\ Has(lines, "convergence_has_best")
        BY OptimizerFlags
      <4> QED
        BY ONLY <4>1, <4>2, <4>3, <4>4, <4>5
    <3> DEFINE k1 == <<"schedule_best_metric">>
               k2 == <<"convergence_best_loss">>
    <3>2. /\ Optional(Has(lines, "schedule_has_best")
                       /\ Field(lines, "schedule_has_best"), k1)
               = Optional(s.best # Unset, k1)
          /\ Optional(Has(lines, "convergence_has_best")
                       /\ Field(lines, "convergence_has_best"), k2)
               = Optional(s.convergenceBest # Unset, k2)
      BY <3>1 DEF Optional
    <3> HIDE DEF lines
    <3> QED
      BY <3>2 DEF OptimizerKeys, OptimizerKeysOf
  <2> HIDE DEF lines, version
  <2> QED
    BY <1>1, <1>2, <2>1
    DEF CheckpointKeys, CheckpointKeysOf, ModelKeysOf, Optional
<1>4. ~RequiresState(o) =>
        Keys(lines) = CheckpointKeys(o.kind, version, Early(m), lines)
  <2> HIDE DEF lines, version
  <2> QED
    BY <1>1, <1>2
    DEF CheckpointKeys, CheckpointKeysOf, ModelKeysOf, Optional
<1> QED
  BY <1>3, <1>4

LEMMA CheckpointAccepted ==
  ASSUME NEW o \in Options, NEW s, OptimizerKept(o, s),
         NEW m \in Models, CheckpointWritable(m),
         RequiresState(o) => /\ s.rate < NonzeroPowers
                             /\ ParsesReal(s.rate) /\ ParsesReal(s.betas)
  PROVE  CheckpointLoads(o, Early(m), CheckpointLines(o, s, m))
<1> DEFINE lines == CheckpointLines(o, s, m)
           version == CheckpointVersion(o, Early(m))
<1>1. /\ Field(lines, "checkpoint") = version
      /\ Field(lines, "digests") = o
      /\ Field(lines, "completed_epochs") = m.completed
      /\ Field(lines, "target_epochs") = m.target
      /\ Field(lines, "optimizer") = o.kind
  BY HeaderFields
<1>2. /\ version = 3 <=> RequiresState(o)
      /\ ~RequiresState(o) => version = (IF Early(m) THEN 2 ELSE 1)
  BY VersionOf
<1>3. Keys(lines) = CheckpointKeys(o.kind, version, Early(m), lines)
  BY KeysAsExpected
<1>4. \A key \in RealKeys : Has(lines, key) => ParsesReal(Field(lines, key))
  <2>1. CASE RequiresState(o)
    <3>1. Field(lines, "schedule_current_rate") = s.rate
      BY <2>1, OptimizerFields
    <3>2. o.kind = "adam" => Field(lines, "optimizer_beta_powers") = s.betas
      BY <2>1, OptionalFields
    <3>3. o.kind # "adam" => ~Has(lines, "optimizer_beta_powers")
      BY RealFieldsAbsent
    <3> HIDE DEF lines
    <3> QED
      BY <2>1, <3>1, <3>2, <3>3 DEF RealKeys
  <2>2. CASE ~RequiresState(o)
    BY <2>2, RealFieldsAbsent DEF RealKeys
  <2> QED
    BY <2>1, <2>2
<1>5. ~RequiresState(o) => o.kind = "gradient_descent"
  BY DEF RequiresState
<1>6. RequiresState(o) => /\ Field(lines, "learning_rate_schedule") = o.schedule
                          /\ Restorable(lines)
  <2>1. SUFFICES ASSUME RequiresState(o)
                 PROVE  /\ Field(lines, "learning_rate_schedule") = o.schedule
                        /\ Restorable(lines)
    OBVIOUS
  <2>2. /\ Field(lines, "learning_rate_schedule") = o.schedule
        /\ Field(lines, "schedule_current_rate") = s.rate
        /\ Field(lines, "schedule_stale_epochs") = s.stale
        /\ Field(lines, "convergence_stale_epochs") = s.convergenceStale
    BY <2>1, OptimizerFields
  <2>3. s.best # Unset => Field(lines, "schedule_has_best") = TRUE
    BY <2>1, OptimizerFlags
  <2>4. Field(lines, "schedule_has_best") \/ s.stale = 0
    BY <2>3 DEF OptimizerKept
  <2>5. s.convergenceBest # Unset =>
          Field(lines, "convergence_has_best") = TRUE
    BY <2>1, OptimizerFlags
  <2>6. Field(lines, "convergence_has_best") \/ s.convergenceStale = 0
    BY <2>5 DEF OptimizerKept
  <2> HIDE DEF lines
  <2> QED
    BY <2>1, <2>2, <2>4, <2>6 DEF Restorable
<1>7. Early(m) => /\ Field(lines, "best_epoch") = m.best.epoch
                  /\ Field(lines, "stale_epochs") = m.best.stale
  BY BestFields
<1> HIDE DEF lines, version
<1>8. CheckpointLoads(o, Early(m), lines)
  BY <1>1, <1>2, <1>3, <1>4, <1>5, <1>6, <1>7
  DEF CheckpointLoads, CheckpointWritable
<1> QED
  BY <1>8 DEF lines

-----------------------------------------------------------------------------
(* One epoch.                                                               *)

(* When the rate is multiplied.                                             *)
Transits(o, s, loss) ==
  \/ o.schedule = "step" /\ s.completed + 1 = s.next
  \/ o.schedule = "exponential"
  \/ /\ o.schedule = "plateau"
     /\ ~Improves(s.best, loss, o.plateauDelta)
     /\ ~(s.stale + 1 < o.patience)

LEMMA ScheduleFields ==
  ASSUME NEW o \in Options, NEW s \in State, NEW loss
  PROVE  LET t == Schedule(o, s, loss)
         IN  /\ t.rate = s.rate + (IF Transits(o, s, loss) THEN 1 ELSE 0)
             /\ o.schedule = "step" =>
                  t.next = IF s.completed + 1 = s.next
                             THEN AddSaturated(s.next, o.interval) ELSE s.next
             /\ o.schedule = "plateau" =>
                  /\ t.best = IF Improves(s.best, loss, o.plateauDelta)
                                THEN loss ELSE s.best
                  /\ t.stale = IF Improves(s.best, loss, o.plateauDelta)
                                  \/ ~(s.stale + 1 < o.patience)
                                 THEN 0 ELSE s.stale + 1
<1> DEFINE t == Schedule(o, s, loss)
<1>1. s.rate \in Int /\ s.rate + 0 = s.rate
  BY DEF State
<1>2. CASE o.schedule = "constant"
  <2>1. t = s
    BY <1>2 DEF Schedule
  <2> QED
    BY <1>1, <1>2, <2>1 DEF Transits
<1>3. CASE o.schedule = "step"
  <2>1. t = IF s.completed + 1 # s.next THEN s
            ELSE [s EXCEPT !.rate = @ + 1, !.next = AddSaturated(@, o.interval)]
    BY <1>3 DEF Schedule
  <2> DEFINE next == AddSaturated(s.next, o.interval)
  <2> HIDE DEF t, next
  <2>2. /\ s.completed + 1 # s.next => t.rate = s.rate /\ t.next = s.next
        /\ s.completed + 1 = s.next => t.rate = s.rate + 1 /\ t.next = next
    BY <2>1 DEF State, next
  <2> QED
    BY <1>1, <1>3, <2>2 DEF Transits, t, next
<1>4. CASE o.schedule = "exponential"
  <2> DEFINE next == AddSaturated(s.completed + 1, 1)
  <2>1. t = [s EXCEPT !.rate = @ + 1, !.next = next]
    BY <1>4 DEF Schedule
  <2> HIDE DEF t, next
  <2>2. t.rate = s.rate + 1
    BY <2>1 DEF State
  <2> QED
    BY <1>4, <2>2 DEF Transits, t
<1>5. CASE o.schedule = "plateau"
  <2> DEFINE next == AddSaturated(s.completed + 1, 1)
             improves == Improves(s.best, loss, o.plateauDelta)
             counts == s.stale + 1 < o.patience
  <2>1. t = IF improves THEN [s EXCEPT !.best = loss, !.stale = 0]
            ELSE IF counts THEN [s EXCEPT !.stale = s.stale + 1]
            ELSE [s EXCEPT !.rate = @ + 1, !.stale = 0, !.next = next]
    BY <1>5 DEF Schedule
  <2>2. Transits(o, s, loss) <=> ~improves /\ ~counts
    BY <1>5 DEF Transits
  <2> HIDE DEF t, next, improves, counts
  <2>3. CASE improves
    <3>1. t = [s EXCEPT !.best = loss, !.stale = 0]
      BY <2>1, <2>3
    <3>2. t.rate = s.rate /\ t.best = loss /\ t.stale = 0
      BY <3>1 DEF State
    <3> QED
      BY <1>1, <1>5, <2>2, <2>3, <3>2 DEF t, improves, counts
  <2>4. CASE ~improves /\ counts
    <3>1. t = [s EXCEPT !.stale = s.stale + 1]
      BY <2>1, <2>4
    <3>2. t.rate = s.rate /\ t.best = s.best /\ t.stale = s.stale + 1
      BY <3>1 DEF State
    <3> QED
      BY <1>1, <1>5, <2>2, <2>4, <3>2 DEF t, improves, counts
  <2>5. CASE ~improves /\ ~counts
    <3>1. t = [s EXCEPT !.rate = @ + 1, !.stale = 0, !.next = next]
      BY <2>1, <2>5
    <3>2. t.rate = s.rate + 1 /\ t.best = s.best /\ t.stale = 0
      BY <3>1 DEF State
    <3> QED
      BY <1>1, <1>5, <2>2, <2>5, <3>2 DEF t, improves, counts
  <2> QED
    BY <2>3, <2>4, <2>5
<1>6. o.schedule \in Schedules
  BY DEF Options
<1> QED
  BY <1>2, <1>3, <1>4, <1>5, <1>6 DEF Schedules

LEMMA ConvergenceFields ==
  ASSUME NEW o \in Options, NEW s \in State, NEW loss
  PROVE  LET t == Convergence(o, s, loss)
             improves == Improves(s.convergenceBest, loss, o.minDelta)
         IN  /\ t.convergenceBest = IF improves THEN loss ELSE s.convergenceBest
             /\ t.convergenceStale = IF improves THEN 0
                                     ELSE IF o.noImprovement # 0
                                       THEN s.convergenceStale + 1
                                     ELSE s.convergenceStale
             /\ t.reason = IF o.target >= 0 /\ loss <= o.target
                             THEN "loss_target"
                           ELSE IF o.noImprovement # 0
                                   /\ t.convergenceStale >= o.noImprovement
                             THEN "no_improvement"
                           ELSE s.reason
<1> DEFINE improves == Improves(s.convergenceBest, loss, o.minDelta)
           counted == IF improves
                        THEN [s EXCEPT !.convergenceBest = loss,
                                       !.convergenceStale = 0]
                      ELSE IF o.noImprovement # 0
                        THEN [s EXCEPT !.convergenceStale = @ + 1]
                      ELSE s
           reason == Reason(o, counted, loss)
           t == Convergence(o, s, loss)
<1>1. t = [counted EXCEPT !.reason = reason]
  BY DEF Convergence
<1>2. /\ counted.convergenceBest = IF improves THEN loss ELSE s.convergenceBest
      /\ counted.convergenceStale = IF improves THEN 0
                                    ELSE IF o.noImprovement # 0
                                      THEN s.convergenceStale + 1
                                    ELSE s.convergenceStale
      /\ counted.reason = s.reason
      /\ DOMAIN counted = DOMAIN s
  <2> HIDE DEF improves
  <2>1. CASE improves
    BY <2>1 DEF State
  <2>2. CASE ~improves /\ o.noImprovement # 0
    BY <2>2 DEF State
  <2>3. CASE ~improves /\ o.noImprovement = 0
    BY <2>3
  <2> QED
    BY <2>1, <2>2, <2>3
<1>3. reason = IF o.target >= 0 /\ loss <= o.target THEN "loss_target"
               ELSE IF o.noImprovement # 0
                       /\ counted.convergenceStale >= o.noImprovement
                 THEN "no_improvement"
               ELSE counted.reason
  BY DEF Reason
<1>4. DOMAIN s = {"timestep", "state1", "state2", "betas", "completed", "rate",
                  "next", "best", "stale", "convergenceBest",
                  "convergenceStale", "reason"}
  BY DEF State
<1> HIDE DEF t, counted, reason, improves
<1>5. /\ t.convergenceBest = counted.convergenceBest
      /\ t.convergenceStale = counted.convergenceStale
      /\ t.reason = reason
  BY <1>1, <1>2, <1>4
<1> QED
  BY <1>2, <1>3, <1>5 DEF t, improves

(* What one completed epoch does to the schedule and to the convergence     *)
(* control: "t" is the optimizer after it.                                  *)
EpochFields(o, s, loss, t) ==
  /\ t.completed = s.completed + 1
  /\ t.rate = s.rate + (IF Transits(o, s, loss) THEN 1 ELSE 0)
  /\ o.schedule = "step" =>
       t.next = IF s.completed + 1 = s.next
                  THEN AddSaturated(s.next, o.interval) ELSE s.next
  /\ o.schedule = "plateau" =>
       /\ t.best = IF Improves(s.best, loss, o.plateauDelta)
                     THEN loss ELSE s.best
       /\ t.stale = IF Improves(s.best, loss, o.plateauDelta)
                       \/ ~(s.stale + 1 < o.patience)
                      THEN 0 ELSE s.stale + 1
  /\ t.convergenceBest = IF Improves(s.convergenceBest, loss, o.minDelta)
                           THEN loss ELSE s.convergenceBest
  /\ t.convergenceStale = IF Improves(s.convergenceBest, loss, o.minDelta) THEN 0
                          ELSE IF o.noImprovement # 0
                            THEN s.convergenceStale + 1
                          ELSE s.convergenceStale
  /\ t.reason = IF o.target >= 0 /\ loss <= o.target THEN "loss_target"
                ELSE IF o.noImprovement # 0
                        /\ t.convergenceStale >= o.noImprovement
                  THEN "no_improvement"
                ELSE s.reason

LEMMA ObservedFields ==
  ASSUME NEW o \in Options, NEW s, OptimizerKept(o, s), NEW loss \in Nat,
         s.completed < SizeMax
  PROVE  EpochFields(o, s, loss, Observed(o, s, loss))
<1> DEFINE t == Schedule(o, s, loss)
           u == Convergence(o, t, loss)
           v == Observed(o, s, loss)
<1>1. ScheduleResult(o, s, t) /\ s \in State
  BY ScheduleKept DEF OptimizerKept
<1>2. /\ t \in State /\ t.completed < SizeMax /\ t.completed = s.completed
      /\ t.convergenceStale <= t.completed
      /\ t.convergenceBest = Unset => t.convergenceStale = 0
      /\ t.convergenceBest = s.convergenceBest
      /\ t.convergenceStale = s.convergenceStale
      /\ t.reason = s.reason
  BY <1>1 DEF ScheduleResult, OptimizerKept
<1>3. /\ t.rate = s.rate + (IF Transits(o, s, loss) THEN 1 ELSE 0)
      /\ o.schedule = "step" =>
           t.next = IF s.completed + 1 = s.next
                      THEN AddSaturated(s.next, o.interval) ELSE s.next
      /\ o.schedule = "plateau" =>
           /\ t.best = IF Improves(s.best, loss, o.plateauDelta)
                         THEN loss ELSE s.best
           /\ t.stale = IF Improves(s.best, loss, o.plateauDelta)
                           \/ ~(s.stale + 1 < o.patience)
                          THEN 0 ELSE s.stale + 1
  BY <1>1, ScheduleFields
<1> HIDE DEF t
<1>4. ConvergenceResult(o, t, u)
  BY <1>2, ConvergenceKept
<1>5. LET improves == Improves(t.convergenceBest, loss, o.minDelta)
      IN  /\ u.convergenceBest = IF improves THEN loss ELSE t.convergenceBest
          /\ u.convergenceStale = IF improves THEN 0
                                  ELSE IF o.noImprovement # 0
                                    THEN t.convergenceStale + 1
                                  ELSE t.convergenceStale
          /\ u.reason = IF o.target >= 0 /\ loss <= o.target
                          THEN "loss_target"
                        ELSE IF o.noImprovement # 0
                                /\ u.convergenceStale >= o.noImprovement
                          THEN "no_improvement"
                        ELSE t.reason
  BY <1>2, ConvergenceFields
<1>6. v = [u EXCEPT !.completed = @ + 1]
  BY DEF Observed, t
<1> HIDE DEF u
<1>7. /\ u \in State /\ u.completed = s.completed
      /\ u.rate = t.rate /\ u.next = t.next
      /\ u.best = t.best /\ u.stale = t.stale
  BY <1>2, <1>4 DEF ConvergenceResult
<1> HIDE DEF v
<1>8. /\ v.completed = s.completed + 1
      /\ v.rate = u.rate /\ v.next = u.next /\ v.reason = u.reason
      /\ v.best = u.best /\ v.stale = u.stale
      /\ v.convergenceBest = u.convergenceBest
      /\ v.convergenceStale = u.convergenceStale
  BY ONLY <1>6, <1>7 DEF State
<1>9. EpochFields(o, s, loss, v)
  BY <1>2, <1>3, <1>5, <1>7, <1>8 DEF EpochFields
<1> QED
  BY <1>9 DEF v

(* An epoch is a batch step and its observation; whether its loss is        *)
(* accepted can be asked before the step.                                   *)
LEMMA EpochKept ==
  ASSUME setting \in Settings, NEW s, OptimizerKept(options, s),
         CanStep(options, s), s.completed < SizeMax, NEW loss \in Losses
  PROVE  /\ OptimizerKept(options, EpochOf(s, loss))
         /\ EpochFields(options, s, loss, EpochOf(s, loss))
         /\ EpochOf(s, loss).rate = Observed(options, s, loss).rate
<1> DEFINE o == options
           t == OptimizerStep(o, s)
           v == EpochOf(s, loss)
<1>1. o \in Options /\ loss \in Nat
  BY SettingKept, SettingAssumption
<1>2. v = Observed(o, t, loss)
  BY DEF EpochOf
<1> HIDE DEF o
<1>3. /\ OptimizerKept(o, t)
      /\ t.completed = s.completed /\ t.rate = s.rate
      /\ t.next = s.next /\ t.best = s.best /\ t.stale = s.stale
      /\ t.convergenceBest = s.convergenceBest
      /\ t.convergenceStale = s.convergenceStale
      /\ t.reason = s.reason
  BY <1>1, StepKept DEF o
<1> HIDE DEF t
<1>4. OptimizerKept(o, v) /\ EpochFields(o, t, loss, v)
  BY <1>1, <1>2, <1>3, ObservedKept, ObservedFields
<1> HIDE DEF v
<1>5. Transits(o, t, loss) <=> Transits(o, s, loss)
  BY <1>3 DEF Transits
<1>6. EpochFields(o, s, loss, v)
  BY <1>3, <1>4, <1>5 DEF EpochFields
<1>7. EpochFields(o, s, loss, Observed(o, s, loss))
  BY <1>1, ObservedFields DEF o
<1>8. v.rate = Observed(o, s, loss).rate
  BY <1>6, <1>7 DEF EpochFields
<1> QED
  BY <1>4, <1>6, <1>8 DEF o, v

LEMMA TargetFits == Target \in Nat \ {0} /\ Target <= SizeMax
  BY RangeAssumption, SettingAssumption DEF Size

LEMMA FreshKept == ModelKept(Fresh)
  BY TargetFits DEF ModelKept, Models, Bests, Fresh, NoBest, Early

LEMMA TrainedKept ==
  ASSUME setting \in Settings, ModelKept(model), model.completed # Target,
         NEW validation \in Losses
  PROVE  /\ ModelKept(Trained(validation))
         /\ Trained(validation).completed = model.completed + 1
<1> DEFINE m == [model EXCEPT !.completed = @ + 1, !.params = @ + 1]
           best == IF early THEN BestOf(m, validation) ELSE NoBest
           t == Trained(validation)
<1>1. /\ model \in Models /\ model.best \in Bests
      /\ model.best.epoch <= model.completed
      /\ model.best.stale <= model.completed
      /\ model.completed # 0 => (Early(model) <=> early)
  BY DEF ModelKept, Models
<1>2. validation \in Nat /\ early \in BOOLEAN
  BY SettingAssumption DEF early
<1>3. /\ model.completed \in 0 .. Target /\ model.target = Target
      /\ model.completed + 1 \in 1 .. Target /\ model.params + 1 \in Nat
  BY <1>1, TargetFits DEF Models
<1>4. t = [m EXCEPT !.best = best]
  BY DEF Trained
<1>5. /\ m \in Models /\ m.completed = model.completed + 1
      /\ m.params = model.params + 1 /\ m.best = model.best
  <2>1. model.completed + 1 \in 0 .. Target
    BY <1>3, TargetFits
  <2>2. m \in Models
    BY ONLY <1>1, <1>3, <2>1 DEF Models
  <2> QED
    BY ONLY <1>1, <2>2 DEF Models
<1> HIDE DEF m
<1>6. /\ best \in Bests
      /\ best.epoch <= m.completed /\ best.stale <= m.completed
      /\ early => best.epoch # 0
      /\ ~early => best = NoBest
  <2>1. CASE ~early
    BY <1>3, <1>5, <2>1, TargetFits DEF Bests, NoBest
  <2>2. CASE early /\ (m.best.epoch = 0 \/ m.best.loss > validation)
    <3>1. best = [epoch |-> m.completed, loss |-> validation, stale |-> 0,
                  params |-> m.params]
      BY <2>2 DEF BestOf
    <3>2. m.completed \in 1 .. Target /\ m.params \in Nat /\ 0 \in 0 .. Target
      BY <1>3, <1>5, TargetFits
    <3> HIDE DEF best
    <3> QED
      BY <1>2, <2>2, <3>1, <3>2 DEF Bests
  <2>3. CASE early /\ ~(m.best.epoch = 0 \/ m.best.loss > validation)
    <3>1. best = [model.best EXCEPT !.stale = @ + 1]
      BY <1>5, <2>3 DEF BestOf
    <3>2. model.best.epoch # 0
      BY <1>5, <2>3
    <3>3. /\ model.best.epoch \in 0 .. Target /\ model.best.stale \in 0 .. Target
          /\ model.best.loss \in Nat /\ model.best.params \in Nat
      BY <1>1 DEF Bests
    <3>4. model.best.stale + 1 \in 0 .. Target
      BY <1>1, <1>3, <3>3, TargetFits
    <3> HIDE DEF best
    <3>5. /\ best \in Bests /\ best.epoch = model.best.epoch
          /\ best.stale = model.best.stale + 1
      BY <1>1, <3>1, <3>3, <3>4 DEF Bests
    <3> QED
      BY <1>1, <1>3, <1>5, <2>3, <3>2, <3>3, <3>5
  <2> QED
    BY <2>1, <2>2, <2>3
<1> HIDE DEF best, t
<1>7. /\ t \in Models /\ t.completed = m.completed /\ t.best = best
  BY <1>4, <1>5, <1>6 DEF Models
<1>8. Early(t) <=> early
  BY <1>6, <1>7 DEF Early, NoBest
<1>9. ModelKept(t)
  BY <1>6, <1>7, <1>8 DEF ModelKept
<1> QED
  BY <1>5, <1>7, <1>9 DEF t

-----------------------------------------------------------------------------
(* The invariant of memory and disk.                                        *)

Invariant == Types /\ Memory /\ Disk

LEMMA InitInvariant == Init => Invariant
<1> SUFFICES ASSUME Init PROVE Invariant
  OBVIOUS
<1>1. setting \in Settings /\ options \in Options
  BY SettingKept DEF Init
<1>2. OptimizerKept(options, Create(options)) /\ Create(options) \in State
  BY <1>1, CreateKept DEF OptimizerKept
<1>3. /\ live = Create(options) /\ shadow = Create(options)
      /\ model = Fresh /\ losses = <<>> /\ file = <<>> /\ stopped = FALSE
      /\ saved = [shadow |-> Create(options), losses |-> <<>>]
  BY DEF Init, options
<1>4. Create(options).completed = 0 /\ Fresh.completed = 0
  BY DEF Create, Fresh
<1>5. Types
  <2>1. <<>> \in Seq(Losses)
    OBVIOUS
  <2>2. saved \in Histories
    BY ONLY <1>2, <1>3, <2>1 DEF Histories
  <2> QED
    BY <1>1, <1>2, <1>3, <2>1, <2>2 DEF Types
<1>6. Memory
  BY <1>2, <1>3, <1>4, FreshKept DEF Memory
<1>7. Disk
  BY <1>2, <1>3 DEF Disk
<1> QED
  BY <1>5, <1>6, <1>7 DEF Invariant

(* Both optimizers take the same epoch.                                     *)
LEMMA EpochInvariant ==
  ASSUME Invariant, NEW loss \in Losses, NEW validation \in Losses,
         Epoch(loss, validation)
  PROVE  Invariant'
<1>1. /\ setting \in Settings /\ live \in State
      /\ live # None /\ live.reason = "none" /\ model.completed # Target
      /\ CanStep(options, live) /\ CanObserve(options, live, loss)
  BY DEF Epoch, Running, Over, Invariant, Types
<1>2. /\ live' = EpochOf(live, loss) /\ shadow' = EpochOf(shadow, loss)
      /\ model' = Trained(validation) /\ losses' = Append(losses, loss)
      /\ stopped' = OutOfPatience(Trained(validation))
      /\ setting' = setting /\ file' = file /\ saved' = saved
  BY DEF Epoch
<1>3. options' = options /\ early' = early
  BY <1>2 DEF options, early
<1>4. /\ ModelKept(model) /\ OptimizerKept(options, shadow)
      /\ OptimizerKept(options, live)
      /\ shadow.completed = model.completed
      /\ live.completed <= model.completed
      /\ RequiresState(options) => live = shadow
  BY <1>1 DEF Invariant, Memory, Running
<1>5. /\ ModelKept(Trained(validation))
      /\ Trained(validation).completed = model.completed + 1
  BY <1>1, <1>4, TrainedKept
<1>6. /\ live.completed < SizeMax /\ shadow.completed < SizeMax
      /\ model.completed \in Nat /\ live.completed \in Nat
  BY <1>1, <1>4, TargetFits, RangeAssumption DEF ModelKept, Models, State, Size, CanObserve
<1>7. CanStep(options, shadow)
  BY <1>1, <1>4 DEF CanStep, RequiresState
<1>8. /\ OptimizerKept(options, EpochOf(live, loss))
      /\ EpochOf(live, loss).completed = live.completed + 1
      /\ EpochOf(live, loss).rate < NonzeroPowers
  BY <1>1, <1>4, <1>6, EpochKept DEF EpochFields, CanObserve
<1>9. /\ OptimizerKept(options, EpochOf(shadow, loss))
      /\ EpochOf(shadow, loss).completed = shadow.completed + 1
  BY <1>1, <1>4, <1>6, <1>7, EpochKept DEF EpochFields
<1>10. Types'
  <2>1. EpochOf(live, loss) \in State /\ EpochOf(shadow, loss) \in State
    BY <1>8, <1>9 DEF OptimizerKept
  <2>2. OutOfPatience(Trained(validation)) \in BOOLEAN
    BY DEF OutOfPatience, early
  <2>3. Append(losses, loss) \in Seq(Losses)
    BY DEF Invariant, Types
  <2> QED
    BY <1>1, <1>2, <2>1, <2>2, <2>3 DEF Invariant, Types
<1>11. Memory'
  BY <1>2, <1>3, <1>4, <1>5, <1>6, <1>8, <1>9 DEF Memory, ModelKept
<1>12. Disk'
  BY <1>2, <1>3 DEF Invariant, Disk, FileHolds, ModelKept
<1> QED
  BY <1>10, <1>11, <1>12 DEF Invariant

LEMMA SaveInvariant == Invariant /\ Save => Invariant'
<1> SUFFICES ASSUME Invariant, Save PROVE Invariant'
  OBVIOUS
<1>1. /\ live # None /\ model.completed # 0
      /\ file' = CheckpointLines(options, live, model)
      /\ saved' = [shadow |-> shadow, losses |-> losses]
      /\ setting' = setting /\ live' = live /\ model' = model
      /\ stopped' = stopped /\ shadow' = shadow /\ losses' = losses
  BY DEF Save, Running
<1>2. options' = options /\ early' = early
  BY <1>1 DEF options, early
<1>3. /\ live \in State /\ model \in Models
      /\ ModelKept(model) /\ OptimizerKept(options, shadow)
      /\ OptimizerKept(options, live)
      /\ shadow.completed = model.completed
      /\ live.completed <= model.completed
      /\ RequiresState(options) => live = shadow
  BY <1>1 DEF Invariant, Types, Memory, Running, ModelKept
<1>4. Types'
  BY <1>1 DEF Invariant, Types, Histories
<1>5. Memory'
  BY <1>1, <1>2 DEF Invariant, Memory, ModelKept, Running
<1>6. FileHolds(live, model)'
  BY <1>1, <1>2, <1>3 DEF FileHolds, ModelKept
<1>7. Disk'
  <2>1. OptimizerKept(options, saved.shadow)'
    BY <1>1, <1>2, <1>3
  <2>2. \E s \in State, m \in Models : FileHolds(s, m)'
    BY <1>1, <1>3, <1>6
  <2> QED
    BY <2>1, <2>2 DEF Disk
<1> QED
  BY <1>4, <1>5, <1>7 DEF Invariant

(* What a run resumes with.                                                 *)
LEMMA Reread ==
  ASSUME Types, NEW s \in State, NEW m \in Models, FileHolds(s, m),
         CheckpointLoads(options, early, file)
  PROVE  /\ MetadataFrom(early, file) = m
         /\ RequiresState(options) => /\ OptimizerFrom(options, file) = s
                                      /\ s.rate < NonzeroPowers
         /\ ~RequiresState(options) =>
              OptimizerFrom(options, file) = Create(options)
<1>1. /\ file = CheckpointLines(options, s, m) /\ OptimizerKept(options, s)
      /\ early = Early(m) /\ (~Early(m) => m.best = NoBest)
  BY DEF FileHolds, ModelKept, early, Early
<1>2. options \in Options
  BY SettingKept DEF Types
<1>3. MetadataFrom(early, file) = m
  BY <1>1, MetadataIs
<1>4. Field(file, "checkpoint") = 3 <=> RequiresState(options)
  BY <1>1, HeaderFields, VersionOf
<1>5. ASSUME RequiresState(options)
      PROVE  OptimizerFrom(options, file) = s /\ s.rate < NonzeroPowers
  <2>1. Restored(options, file) = s
    BY <1>1, <1>2, <1>5, RestoredIs
  <2>2. Field(file, "schedule_current_rate") < NonzeroPowers
    BY <1>4, <1>5 DEF CheckpointLoads, Restorable
  <2>3. Field(file, "schedule_current_rate") = s.rate
    BY <1>1, <1>5, OptimizerFields
  <2> QED
    BY <1>4, <1>5, <2>1, <2>2, <2>3 DEF OptimizerFrom
<1>6. ~RequiresState(options) => OptimizerFrom(options, file) = Create(options)
  BY <1>4 DEF OptimizerFrom
<1> QED
  BY <1>3, <1>5, <1>6

LEMMA ResumeInvariant == Invariant /\ Resume => Invariant'
<1> SUFFICES ASSUME Invariant, Resume PROVE Invariant'
  OBVIOUS
<1>1. /\ file # <<>> /\ CheckpointLoads(options, early, file)
      /\ live' = OptimizerFrom(options, file)
      /\ model' = MetadataFrom(early, file)
      /\ stopped' = FALSE /\ shadow' = saved.shadow /\ losses' = saved.losses
      /\ setting' = setting /\ file' = file /\ saved' = saved
  BY DEF Resume
<1>2. options' = options /\ early' = early
  BY <1>1 DEF options, early
<1>3. PICK s \in State, m \in Models : FileHolds(s, m)
  BY <1>1 DEF Invariant, Disk
<1>4. /\ Types /\ options \in Options /\ saved \in Histories
      /\ OptimizerKept(options, saved.shadow)
  BY SettingKept DEF Invariant, Types, Disk
<1>5. /\ MetadataFrom(early, file) = m
      /\ RequiresState(options) => /\ OptimizerFrom(options, file) = s
                                   /\ s.rate < NonzeroPowers
      /\ ~RequiresState(options) =>
           OptimizerFrom(options, file) = Create(options)
  BY <1>1, <1>3, <1>4, Reread
<1>6. /\ OptimizerKept(options, s) /\ ModelKept(m) /\ m.completed # 0
      /\ s.completed <= m.completed /\ m.completed = saved.shadow.completed
      /\ RequiresState(options) => s = saved.shadow
  BY <1>3 DEF FileHolds
<1>7. /\ OptimizerKept(options, Create(options))
      /\ Create(options).completed = 0 /\ m.completed \in Nat
  BY <1>4, CreateKept, TargetFits DEF Create, Models
<1>8. /\ OptimizerKept(options, OptimizerFrom(options, file))
      /\ OptimizerFrom(options, file).completed <= m.completed
      /\ RequiresState(options) =>
           /\ OptimizerFrom(options, file) = saved.shadow
           /\ OptimizerFrom(options, file).rate < NonzeroPowers
  BY <1>5, <1>6, <1>7
<1>9. Types'
  <2>1. OptimizerFrom(options, file) \in State
    BY <1>8 DEF OptimizerKept
  <2> QED
    BY <1>1, <1>4, <2>1 DEF Types, Histories
<1>10. Memory'
  BY <1>1, <1>2, <1>4, <1>5, <1>6, <1>8 DEF Memory, ModelKept
<1>11. Disk'
  BY <1>1, <1>2 DEF Invariant, Disk, FileHolds, ModelKept
<1> QED
  BY <1>9, <1>10, <1>11 DEF Invariant

LEMMA NextInvariant == Invariant /\ [Next]_vars => Invariant'
<1> SUFFICES ASSUME Invariant, [Next]_vars PROVE Invariant'
  OBVIOUS
<1>1. ASSUME NEW loss \in Losses, NEW validation \in Losses,
             Epoch(loss, validation)
      PROVE  Invariant'
  BY <1>1, EpochInvariant
<1>2. ASSUME \/ \E loss \in Losses : EpochFails(loss)
             \/ Stop
      PROVE  Invariant'
  <2>1. /\ live' = None
        /\ UNCHANGED <<setting, model, stopped, file, shadow, losses, saved>>
    BY <1>2 DEF EpochFails, Stop
  <2> QED
    BY <2>1 DEF Invariant, Types, Memory, Disk, FileHolds, ModelKept, Running,
                options, early
<1>3. CASE Save
  BY <1>3, SaveInvariant
<1>4. CASE Resume
  BY <1>4, ResumeInvariant
<1>5. CASE UNCHANGED vars
  BY <1>5 DEF vars, Invariant, Types, Memory, Disk, FileHolds, ModelKept,
              Running, options, early
<1> QED
  BY <1>1, <1>2, <1>3, <1>4, <1>5 DEF Next

(* What is in memory and what is on disk always belongs to the history: the *)
(* optimizer of a run that needs its state is the one of the run without    *)
(* interruption, and the checkpoint holds that optimizer and a model of the *)
(* same epochs.                                                             *)
THEOREM ContinuationInvariance == Spec => []Invariant
<1> QED
  BY InitInvariant, NextInvariant, PTL DEF Spec

(* Types, and no count of stale epochs exceeds the epochs.                  *)
THEOREM ContinuationTypeCorrect == Spec => []TypeOK
<1>1. Invariant => TypeOK
  <2> SUFFICES ASSUME Invariant PROVE TypeOK
    OBVIOUS
  <2>1. model.completed \in 0 .. Target
    BY DEF Invariant, Memory, ModelKept, Models
  <2>2. Running => live.stale <= live.completed
                   /\ live.convergenceStale <= live.completed
    BY DEF Invariant, Memory, OptimizerKept
  <2> QED
    BY <2>1, <2>2 DEF TypeOK, Invariant, Types
<1> QED
  BY <1>1, ContinuationInvariance, PTL

(* A run that is saved, stopped and resumed any number of times has the     *)
(* learning rate, the buffers, the bias correction and the reason to stop   *)
(* of the run that was never interrupted.                                   *)
THEOREM ResumedRunIsTheRun == Spec => []ResumeIsTransparent
<1>1. Invariant => ResumeIsTransparent
  <2> SUFFICES ASSUME Invariant, Running PROVE
         /\ live.rate = shadow.rate /\ live.reason = shadow.reason
         /\ <<live.timestep, live.state1, live.state2, live.betas>>
              = <<shadow.timestep, shadow.state1, shadow.state2, shadow.betas>>
    BY DEF ResumeIsTransparent
  <2>1. /\ OptimizerKept(options, live) /\ OptimizerKept(options, shadow)
        /\ RequiresState(options) => live = shadow
    BY DEF Invariant, Memory
  <2>2. CASE RequiresState(options)
    BY <2>1, <2>2
  <2>3. CASE ~RequiresState(options)
    <3>1. options.kind = "gradient_descent"
      BY <2>3 DEF RequiresState
    <3>2. /\ live.timestep = 0 /\ live.state1 = 0 /\ live.state2 = 0
          /\ live.betas = 0 /\ live.rate = 0 /\ live.reason = "none"
      BY <2>1, <2>3, <3>1 DEF OptimizerKept
    <3>3. /\ shadow.timestep = 0 /\ shadow.state1 = 0 /\ shadow.state2 = 0
          /\ shadow.betas = 0 /\ shadow.rate = 0 /\ shadow.reason = "none"
      BY <2>1, <2>3, <3>1 DEF OptimizerKept
    <3> QED
      BY <3>2, <3>3
  <2> QED
    BY <2>2, <2>3
<1> QED
  BY <1>1, ContinuationInvariance, PTL

-----------------------------------------------------------------------------
(* Final weights.                                                           *)

WeightsRecord(w) ==
  w = [completed |-> w.completed, selected |-> w.selected,
       target |-> w.target, completion |-> w.completion, params |-> w.params]

(* The elements of a concatenation, and of the two that WeightsKeys makes.  *)
LEMMA ConcatAt ==
  ASSUME NEW S, NEW s \in Seq(S), NEW t \in Seq(S)
  PROVE  /\ s \o t \in Seq(S) /\ Len(s \o t) = Len(s) + Len(t)
         /\ \A i \in 1 .. Len(s) : (s \o t)[i] = s[i]
         /\ \A i \in 1 .. Len(t) : (s \o t)[Len(s) + i] = t[i]
  OBVIOUS

LEMMA ThreeAndOne ==
  ASSUME NEW a1, NEW a2, NEW a3, NEW d
  PROVE  <<a1, a2, a3>> \o <<d>> = <<a1, a2, a3, d>>
<1> DEFINE S == {a1, a2, a3, d}
           x == <<a1, a2, a3>>
           v == <<d>>
           z == <<a1, a2, a3, d>>
<1>1. /\ x \in Seq(S) /\ Len(x) = 3 /\ v \in Seq(S) /\ Len(v) = 1
      /\ z \in Seq(S) /\ Len(z) = 4
  OBVIOUS
<1>2. x[1] = z[1] /\ x[2] = z[2] /\ x[3] = z[3] /\ v[1] = z[4]
  OBVIOUS
<1> HIDE DEF S, x, v, z
<1> DEFINE u == x \o v
<1>3. /\ u \in Seq(S) /\ Len(u) = Len(x) + Len(v)
      /\ \A i \in 1 .. Len(x) : u[i] = x[i]
      /\ \A i \in 1 .. Len(v) : u[Len(x) + i] = v[i]
  <2>1. x \in Seq(S) /\ v \in Seq(S)
    BY <1>1
  <2> QED
    BY ONLY <2>1, ConcatAt
<1> HIDE DEF u
<1>4. Len(u) = 4 /\ u[1] = x[1] /\ u[2] = x[2] /\ u[3] = x[3] /\ u[4] = v[1]
  BY ONLY <1>1, <1>3
<1>5. \A i \in 1 .. Len(u) : u[i] = z[i]
  <2>1. \A i \in 1 .. 4 : i = 1 \/ i = 2 \/ i = 3 \/ i = 4
    OBVIOUS
  <2>2. u[1] = z[1] /\ u[2] = z[2] /\ u[3] = z[3] /\ u[4] = z[4]
    BY ONLY <1>2, <1>4
  <2> QED
    BY ONLY <1>4, <2>1, <2>2
<1>6. u = z
  BY ONLY <1>1, <1>3, <1>4, <1>5, SeqEqual
<1> QED
  BY <1>6 DEF u, x, v, z

LEMMA ThreeThreeAndOne ==
  ASSUME NEW a1, NEW a2, NEW a3, NEW b1, NEW b2, NEW b3, NEW d
  PROVE  <<a1, a2, a3>> \o <<b1, b2, b3>> \o <<d>>
           = <<a1, a2, a3, b1, b2, b3, d>>
<1> DEFINE S == {a1, a2, a3, b1, b2, b3, d}
           x == <<a1, a2, a3>>
           y == <<b1, b2, b3>>
           v == <<d>>
           z == <<a1, a2, a3, b1, b2, b3, d>>
<1>1. /\ x \in Seq(S) /\ Len(x) = 3 /\ y \in Seq(S) /\ Len(y) = 3
      /\ v \in Seq(S) /\ Len(v) = 1 /\ z \in Seq(S) /\ Len(z) = 7
  OBVIOUS
<1>2. /\ x[1] = z[1] /\ x[2] = z[2] /\ x[3] = z[3]
      /\ y[1] = z[4] /\ y[2] = z[5] /\ y[3] = z[6] /\ v[1] = z[7]
  OBVIOUS
<1> HIDE DEF S, x, y, v, z
<1> DEFINE u == x \o y
<1>3. /\ u \in Seq(S) /\ Len(u) = Len(x) + Len(y)
      /\ \A i \in 1 .. Len(x) : u[i] = x[i]
      /\ \A i \in 1 .. Len(y) : u[Len(x) + i] = y[i]
  <2>1. x \in Seq(S) /\ y \in Seq(S)
    BY <1>1
  <2> QED
    BY ONLY <2>1, ConcatAt
<1> HIDE DEF u
<1>4. /\ Len(u) = 6 /\ u[1] = x[1] /\ u[2] = x[2] /\ u[3] = x[3]
      /\ u[4] = y[1] /\ u[5] = y[2] /\ u[6] = y[3]
  BY ONLY <1>1, <1>3
<1> DEFINE w == u \o v
<1>5. /\ w \in Seq(S) /\ Len(w) = Len(u) + Len(v)
      /\ \A i \in 1 .. Len(u) : w[i] = u[i]
      /\ \A i \in 1 .. Len(v) : w[Len(u) + i] = v[i]
  <2>1. u \in Seq(S) /\ v \in Seq(S)
    BY <1>1, <1>3
  <2> QED
    BY ONLY <2>1, ConcatAt
<1> HIDE DEF w
<1>6. /\ Len(w) = 7 /\ w[1] = u[1] /\ w[2] = u[2] /\ w[3] = u[3]
      /\ w[4] = u[4] /\ w[5] = u[5] /\ w[6] = u[6] /\ w[7] = v[1]
  BY ONLY <1>1, <1>4, <1>5
<1>7. \A i \in 1 .. Len(w) : w[i] = z[i]
  <2>1. \A i \in 1 .. 7 : \/ i = 1 \/ i = 2 \/ i = 3 \/ i = 4
                         \/ i = 5 \/ i = 6 \/ i = 7
    OBVIOUS
  <2>2. /\ w[1] = z[1] /\ w[2] = z[2] /\ w[3] = z[3] /\ w[4] = z[4]
        /\ w[5] = z[5] /\ w[6] = z[6] /\ w[7] = z[7]
    BY ONLY <1>2, <1>4, <1>6
  <2>3. ASSUME NEW i \in 1 .. 7 PROVE w[i] = z[i]
    BY ONLY <2>1, <2>2, Zenon
  <2> QED
    BY ONLY <1>6, <2>3
<1>8. w = z
  <2>1. w \in Seq(S) /\ z \in Seq(S) /\ Len(w) = Len(z)
    BY ONLY <1>1, <1>5, <1>6
  <2> QED
    BY ONLY <2>1, <1>7, SeqEqual
<1> QED
  BY <1>8 DEF w, u, x, y, v, z

LEMMA PlainWeightsReload ==
  ASSUME NEW o, NEW w, NEW b, WeightsRecord(w), WeightsVersion(w, b) = 1,
         w.selected = w.completed, w.target = w.completed
  PROVE  LET lines == WeightsLines(o, w, b)
         IN  WeightsLoad(o, lines) /\ WeightsFrom(lines) = w
<1> DEFINE lines == WeightsLines(o, w, b)
           E == {<<"weights", 1>>, <<"digests", o>>,
                 <<"completed_epochs", w.completed>>,
                 <<"parameters", w.params>>}
<1>1. lines = <<<<"weights", 1>>, <<"digests", o>>,
                <<"completed_epochs", w.completed>>, <<"parameters", w.params>>>>
  BY DEF WeightsLines
<1>2. w.completion = "target"
  BY DEF WeightsVersion
<1> HIDE DEF lines
<1>3. LinesOf(lines) = E
  BY <1>1 DEF LinesOf
<1>4. \A x, y \in E : x[1] = y[1] => x[2] = y[2]
  OBVIOUS
<1>5. /\ <<"weights", 1>> \in E
      /\ <<"digests", o>> \in E
      /\ <<"completed_epochs", w.completed>> \in E
      /\ <<"parameters", w.params>> \in E
  OBVIOUS
<1>6. ASSUME NEW k, NEW v, <<k, v>> \in E
      PROVE  Has(lines, k) /\ Field(lines, k) = v
  <2> DEFINE y == <<k, v>>
  <2>1. y \in E /\ y[1] = k /\ y[2] = v
    BY <1>6
  <2> HIDE DEF E, y
  <2>2. \A x \in LinesOf(lines) : x[1] = k => x[2] = v
    BY <1>3, <1>4, <2>1
  <2> QED
    BY <1>3, <1>6, <2>2, FieldIs
<1>7. Keys(lines)
        = <<"weights", "digests", "completed_epochs", "parameters">>
  BY <1>1 DEF Keys
<1>8. /\ Field(lines, "weights") = 1 /\ Field(lines, "digests") = o
      /\ Field(lines, "completed_epochs") = w.completed
      /\ Field(lines, "parameters") = w.params
  <2> HIDE DEF E
  <2> QED
    BY <1>5, <1>6
<1>9. /\ ~Has(lines, "selected_epoch") /\ ~Has(lines, "target_epochs")
      /\ ~Has(lines, "completion")
  BY <1>3, FieldAbsent
<1>10. WeightsFrom(lines) = w
  BY <1>2, <1>8, <1>9 DEF WeightsFrom, WeightsRecord
<1>11. WeightsKeys(1)
        = <<"weights", "digests", "completed_epochs", "parameters">>
  <2> DEFINE a == <<"weights", "digests", "completed_epochs">>
             d == <<"parameters">>
  <2>1. WeightsKeys(1) = a \o <<>> \o d
    BY DEF WeightsKeys, Optional
  <2>2. a \o <<>> = a
    <3> DEFINE K == {"weights", "digests", "completed_epochs"}
    <3>1. a \in Seq(K)
      OBVIOUS
    <3> HIDE DEF a, K
    <3> QED
      BY ONLY <3>1
  <2> QED
    BY <2>1, <2>2, ThreeAndOne
<1>12. WeightsLoad(o, lines)
  BY <1>7, <1>8, <1>11 DEF WeightsLoad
<1> QED
  BY <1>10, <1>12 DEF lines

LEMMA SelectedWeightsReload ==
  ASSUME NEW o, NEW w, NEW b, WeightsRecord(w), WeightsVersion(w, b) = 2,
         Has(WeightsLines(o, w, b), "completion") => EpochsConsistent(w)
  PROVE  LET lines == WeightsLines(o, w, b)
         IN  WeightsLoad(o, lines) /\ WeightsFrom(lines) = w
<1> DEFINE lines == WeightsLines(o, w, b)
           E == {<<"weights", 2>>, <<"digests", o>>,
                 <<"completed_epochs", w.completed>>,
                 <<"selected_epoch", w.selected>>,
                 <<"target_epochs", w.target>>,
                 <<"completion", w.completion>>, <<"parameters", w.params>>}
           keys == <<"weights", "digests", "completed_epochs",
                     "selected_epoch", "target_epochs", "completion",
                     "parameters">>
<1>1. lines = <<<<"weights", 2>>, <<"digests", o>>,
                <<"completed_epochs", w.completed>>,
                <<"selected_epoch", w.selected>>, <<"target_epochs", w.target>>,
                <<"completion", w.completion>>, <<"parameters", w.params>>>>
  BY DEF WeightsLines
<1>2. Has(lines, "completion") => EpochsConsistent(w)
  OBVIOUS
<1> HIDE DEF lines
<1>3. LinesOf(lines) = E
  BY <1>1 DEF LinesOf
<1>4. \A x, y \in E : x[1] = y[1] => x[2] = y[2]
  OBVIOUS
<1>5. /\ <<"weights", 2>> \in E
      /\ <<"digests", o>> \in E
      /\ <<"completed_epochs", w.completed>> \in E
      /\ <<"parameters", w.params>> \in E
      /\ <<"selected_epoch", w.selected>> \in E
      /\ <<"target_epochs", w.target>> \in E
      /\ <<"completion", w.completion>> \in E
  OBVIOUS
<1>6. ASSUME NEW k, NEW v, <<k, v>> \in E
      PROVE  Has(lines, k) /\ Field(lines, k) = v
  <2> DEFINE y == <<k, v>>
  <2>1. y \in E /\ y[1] = k /\ y[2] = v
    BY <1>6
  <2> HIDE DEF E, y
  <2>2. \A x \in LinesOf(lines) : x[1] = k => x[2] = v
    BY <1>3, <1>4, <2>1
  <2> QED
    BY <1>3, <1>6, <2>2, FieldIs
<1>7. Keys(lines) = keys
  BY <1>1 DEF Keys
<1>8. /\ Field(lines, "weights") = 2 /\ Field(lines, "digests") = o
      /\ Field(lines, "completed_epochs") = w.completed
      /\ Field(lines, "parameters") = w.params
  <2> HIDE DEF E
  <2> QED
    BY <1>5, <1>6
<1>9. Has(lines, "selected_epoch") /\ Field(lines, "selected_epoch") = w.selected
  <2> HIDE DEF E
  <2> QED
    BY <1>5, <1>6
<1>10. Has(lines, "target_epochs") /\ Field(lines, "target_epochs") = w.target
  <2> HIDE DEF E
  <2> QED
    BY <1>5, <1>6
<1>11. Has(lines, "completion") /\ Field(lines, "completion") = w.completion
  <2> HIDE DEF E
  <2> QED
    BY <1>5, <1>6
<1>12. WeightsFrom(lines) = w
  BY <1>8, <1>9, <1>10, <1>11 DEF WeightsFrom, WeightsRecord
<1>13. WeightsKeys(2) = keys
  <2> DEFINE a == <<"weights", "digests", "completed_epochs">>
             c == <<"selected_epoch", "target_epochs", "completion">>
             d == <<"parameters">>
  <2>1. WeightsKeys(2) = a \o c \o d
    BY DEF WeightsKeys, Optional
  <2>2. a \o c \o d = keys
    BY ThreeThreeAndOne
  <2> QED
    BY <2>1, <2>2
<1>14. WeightsLoad(o, lines)
  BY <1>2, <1>7, <1>8, <1>11, <1>12, <1>13 DEF WeightsLoad
<1> QED
  BY <1>12, <1>14 DEF lines

(* Every state of a run with normal numbers can be saved and read back, and *)
(* final weights that the writer accepts are read back with the epochs, the *)
(* reason and the parameters they were written with.                        *)
THEOREM FilesReload == Spec => []SavedFilesReload
<1>1. Invariant => SavedFilesReload
  <2> SUFFICES ASSUME Invariant PROVE SavedFilesReload
    OBVIOUS
  <2>1. /\ setting \in Settings /\ options \in Options
        /\ model \in Models /\ ModelKept(model)
    BY SettingKept DEF Invariant, Types, Memory, ModelKept
  <2>2. ASSUME Running, model.completed # 0, NumbersNormal PROVE Reloads
    <3>1. early = Early(model) /\ (~Early(model) => model.best = NoBest)
      BY <2>1, <2>2 DEF ModelKept, early, Early
    <3>2. CheckpointWritable(model)
      BY <2>1, TargetFits DEF CheckpointWritable, ModelKept, Models
    <3>3. /\ OptimizerKept(options, live)
          /\ RequiresState(options) => live.rate < NonzeroPowers
      BY <2>2 DEF Invariant, Memory
    <3>4. ParsesReal(live.rate) /\ ParsesReal(live.betas)
      BY <2>2 DEF NumbersNormal
    <3>5. CheckpointLoads(options, early, CheckpointLines(options, live, model))
      BY <2>1, <3>1, <3>2, <3>3, <3>4, CheckpointAccepted
    <3>6. MetadataFrom(early, CheckpointLines(options, live, model)) = model
      BY <2>1, <3>1, MetadataIs
    <3> QED
      BY <3>2, <3>5, <3>6 DEF Reloads
  <2>3. ASSUME Running, Over,
               Has(WeightsLines(options, Final, early), "completion")
                 => EpochsConsistent(Final)
        PROVE  LET lines == WeightsLines(options, Final, early)
               IN  WeightsLoad(options, lines) /\ WeightsFrom(lines) = Final
    <3>1. WeightsRecord(Final)
      BY DEF WeightsRecord, Final
    <3>2. WeightsVersion(Final, early) \in {1, 2}
      BY DEF WeightsVersion
    <3>3. CASE WeightsVersion(Final, early) = 2
      BY <2>3, <3>1, <3>3, SelectedWeightsReload
    <3>4. CASE WeightsVersion(Final, early) = 1
      <4>1. ~early /\ Completion = "target"
        BY <3>4 DEF WeightsVersion, Final
      <4>2. model.completed = Target
        <5>1. live.reason \in Reasons
          BY <2>3 DEF Invariant, Types, Running, State
        <5> QED
          BY <4>1, <5>1 DEF Completion, Reasons
      <4>3. /\ Final.selected = Final.completed
            /\ Final.target = Final.completed
        BY <4>1, <4>2 DEF Final
      <4> QED
        BY <3>1, <3>4, <4>3, PlainWeightsReload
    <3> QED
      BY <3>2, <3>3, <3>4
  <2> QED
    BY <2>2, <2>3 DEF SavedFilesReload
<1> QED
  BY <1>1, ContinuationInvariance, PTL

-----------------------------------------------------------------------------
(* The history of the losses: its definitions by recursion and by choice.   *)

(* Induction over the naturals, for a set instead of a predicate.           *)
LEMMA SetInduction ==
  ASSUME NEW S, 0 \in S, \A n \in Nat : n \in S => n + 1 \in S
  PROVE  Nat \subseteq S
<1> DEFINE Less == OpToRel(<, Nat)
<1>1. IsWellFoundedOn(Less, Nat)
  BY NatLessThanWellFounded, Zenon
<1>2. SUFFICES ASSUME Nat \ S # {} PROVE FALSE
  OBVIOUS
<1>3. PICK n \in Nat \ S : \A m \in Nat \ S : ~(<<m, n>> \in Less)
  <2> HIDE DEF Less
  <2> QED
    BY <1>1, <1>2, WFMin
<1>4. \A m \in Nat \ S : ~(m < n)
  BY <1>3, Zenon DEF OpToRel
<1>5. n # 0 /\ n - 1 \in Nat
  OBVIOUS
<1> QED
  BY <1>4, <1>5

LEMMA DivMod ==
  ASSUME NEW n \in Nat, NEW b \in Nat \ {0}
  PROVE  /\ n \div b \in Nat /\ n % b \in 0 .. b - 1
         /\ n = (n \div b) * b + (n % b)
  OBVIOUS

LEMMA DivUnique ==
  ASSUME NEW n \in Nat, NEW d \in Nat \ {0}, NEW q \in Nat, NEW r \in 0 .. d - 1,
         n = q * d + r
  PROVE  n \div d = q /\ n % d = r
  BY SMT

LEMMA ModStep ==
  ASSUME NEW n \in Nat, NEW b \in Nat \ {0}
  PROVE  (n + 1) % b = IF (n % b) + 1 = b THEN 0 ELSE (n % b) + 1
<1> DEFINE q == n \div b
           r == n % b
<1>1. q \in Nat /\ r \in 0 .. b - 1 /\ n = q * b + r
  BY DivMod
<1> HIDE DEF q, r
<1>2. CASE r + 1 = b
  <2>1. n + 1 = (q + 1) * b + 0
    BY <1>1, <1>2
  <2>2. (n + 1) % b = 0
    BY <1>1, <2>1, DivUnique
  <2> QED
    BY <1>2, <2>2 DEF r
<1>3. CASE r + 1 # b
  <2>1. n + 1 = q * b + (r + 1) /\ r + 1 \in 0 .. b - 1
    BY <1>1, <1>3
  <2>2. (n + 1) % b = r + 1
    BY <1>1, <2>1, DivUnique
  <2> QED
    BY <1>3, <2>2 DEF r
<1> QED
  BY <1>2, <1>3

LEMMA ModZero ==
  ASSUME NEW b \in Nat \ {0}
  PROVE  0 % b = 0
<1>1. 0 = 0 * b + 0 /\ 0 \in 0 .. b - 1
  OBVIOUS
<1> QED
  BY <1>1, DivUnique

(* The first "n" values of the best losses of "past".                       *)
BestsUpTo(g, past, delta, n) ==
  /\ g \in [1 .. n -> Nat]
  /\ \A i \in 1 .. n :
       g[i] = IF i = 1 THEN past[1]
              ELSE IF past[i] < g[i - 1] - delta THEN past[i] ELSE g[i - 1]

LEMMA BestsExist ==
  ASSUME NEW past \in Seq(Nat), NEW delta \in Nat
  PROVE  \E g : BestsUpTo(g, past, delta, Len(past))
<1> DEFINE S == {n \in Nat : n <= Len(past) =>
                               \E g : BestsUpTo(g, past, delta, n)}
<1>1. 0 \in S
  <2>1. BestsUpTo([i \in 1 .. 0 |-> 0], past, delta, 0)
    BY DEF BestsUpTo
  <2> QED
    BY <2>1
<1>2. ASSUME NEW n \in Nat, n \in S, n + 1 <= Len(past)
      PROVE  \E g : BestsUpTo(g, past, delta, n + 1)
  <2>1. PICK g : BestsUpTo(g, past, delta, n)
    BY <1>2
  <2> DEFINE v == IF n = 0 THEN past[1]
                  ELSE IF past[n + 1] < g[n] - delta THEN past[n + 1] ELSE g[n]
             h == [i \in 1 .. n + 1 |-> IF i = n + 1 THEN v ELSE g[i]]
  <2>2. past[n + 1] \in Nat /\ (n = 0 => past[1] \in Nat)
    BY <1>2
  <2>3. n # 0 => g[n] \in Nat
    BY <2>1 DEF BestsUpTo
  <2>4. v \in Nat
    BY <2>2, <2>3
  <2>5. \A i \in 1 .. n : g[i] \in Nat
    BY <2>1 DEF BestsUpTo
  <2> HIDE DEF v
  <2>6. h \in [1 .. n + 1 -> Nat]
    BY <2>4, <2>5
  <2>7. h[n + 1] = v /\ \A i \in 1 .. n : h[i] = g[i]
    OBVIOUS
  <2> HIDE DEF h
  <2>8. ASSUME NEW i \in 1 .. n + 1
        PROVE  h[i] = IF i = 1 THEN past[1]
                      ELSE IF past[i] < h[i - 1] - delta THEN past[i]
                      ELSE h[i - 1]
    <3>1. CASE i = n + 1
      <4>1. n # 0 => h[i - 1] = g[n]
        BY <2>7, <3>1
      <4>2. n = 0 <=> i = 1
        BY <3>1
      <4> QED
        BY <2>7, <3>1, <4>1, <4>2 DEF v
    <3>2. CASE i # n + 1
      <4>1. i \in 1 .. n /\ (i # 1 => i - 1 \in 1 .. n)
        BY <3>2
      <4>2. h[i] = g[i] /\ (i # 1 => h[i - 1] = g[i - 1])
        BY <2>7, <4>1
      <4> QED
        BY <2>1, <4>1, <4>2 DEF BestsUpTo
    <3> QED
      BY <3>1, <3>2
  <2>9. BestsUpTo(h, past, delta, n + 1)
    BY ONLY <2>6, <2>8 DEF BestsUpTo
  <2> QED
    BY <2>9
<1>3. Nat \subseteq S
  <2>1. \A n \in Nat : n \in S => n + 1 \in S
    BY <1>2
  <2> HIDE DEF S
  <2> QED
    BY <1>1, <2>1, SetInduction
<1> QED
  BY <1>3

LEMMA BestAfterIs ==
  ASSUME NEW past \in Seq(Nat), NEW delta \in Nat
  PROVE  BestsUpTo(BestAfter(past, delta), past, delta, Len(past))
<1> DEFINE N == Len(past)
           Step(g) == [i \in 1 .. N |->
                         IF i = 1 THEN past[1]
                         ELSE IF past[i] < g[i - 1] - delta THEN past[i]
                         ELSE g[i - 1]]
<1>1. BestAfter(past, delta) = CHOOSE g : g = Step(g)
  BY DEF BestAfter
<1>2. PICK g : BestsUpTo(g, past, delta, N)
  BY BestsExist
<1>3. g = Step(g)
  BY <1>2 DEF BestsUpTo
<1> DEFINE b == BestAfter(past, delta)
<1>4. b = Step(b)
  <2> HIDE DEF Step
  <2> QED
    BY <1>1, <1>3
<1> HIDE DEF b
<1>5. \A i \in 1 .. N :
        b[i] = IF i = 1 THEN past[1]
               ELSE IF past[i] < b[i - 1] - delta THEN past[i] ELSE b[i - 1]
  BY <1>4
<1> DEFINE S == {n \in Nat : n \in 1 .. N => b[n] \in Nat}
<1>6. \A n \in Nat : n \in S => n + 1 \in S
  <2> SUFFICES ASSUME NEW n \in Nat, n \in S, n + 1 \in 1 .. N
               PROVE  b[n + 1] \in Nat
    OBVIOUS
  <2>1. past[n + 1] \in Nat
    OBVIOUS
  <2>2. n # 0 => b[n] \in Nat
    OBVIOUS
  <2>3. b[n + 1] = IF n = 0 THEN past[1]
                   ELSE IF past[n + 1] < b[n] - delta THEN past[n + 1] ELSE b[n]
    BY <1>5
  <2> QED
    BY <2>1, <2>2, <2>3
<1>7. Nat \subseteq S
  <2>1. 0 \in S
    OBVIOUS
  <2> HIDE DEF S
  <2> QED
    BY <1>6, <2>1, SetInduction
<1>8. b \in [1 .. N -> Nat]
  <2>1. \A n \in 1 .. N : b[n] \in Nat
    BY <1>7
  <2> QED
    BY <1>4, <2>1
<1>9. BestsUpTo(b, past, delta, N)
  BY <1>5, <1>8 DEF BestsUpTo
<1> QED
  BY <1>9 DEF b

LEMMA AppendIs ==
  ASSUME NEW S, NEW past \in Seq(S), NEW loss \in S
  PROVE  LET new == Append(past, loss)
         IN  /\ new \in Seq(S)
             /\ Len(new) = Len(past) + 1
             /\ Len(past) \in Nat
             /\ \A i \in 1 .. Len(past) : new[i] = past[i]
             /\ new[Len(past) + 1] = loss
  BY AppendProperties

(* A further loss leaves the best losses before it alone.                   *)
LEMMA BestKept ==
  ASSUME NEW past \in Seq(Nat), NEW loss \in Nat, NEW delta \in Nat
  PROVE  \A i \in 1 .. Len(past) :
           BestAfter(Append(past, loss), delta)[i] = BestAfter(past, delta)[i]
<1> DEFINE N == Len(past)
           new == Append(past, loss)
           b == BestAfter(past, delta)
           c == BestAfter(new, delta)
<1>1. /\ new \in Seq(Nat) /\ Len(new) = N + 1 /\ N \in Nat
      /\ \A i \in 1 .. N : new[i] = past[i]
  BY AppendIs
<1> HIDE DEF new
<1>2. BestsUpTo(b, past, delta, N) /\ BestsUpTo(c, new, delta, N + 1)
  BY <1>1, BestAfterIs
<1> HIDE DEF b, c, N
<1> DEFINE S == {n \in Nat : n \in 1 .. N => c[n] = b[n]}
<1>3. \A n \in Nat : n \in S => n + 1 \in S
  <2> SUFFICES ASSUME NEW n \in Nat, n \in S, n + 1 \in 1 .. N
               PROVE  c[n + 1] = b[n + 1]
    OBVIOUS
  <2>1. new[n + 1] = past[n + 1] /\ new[1] = past[1]
    <3>1. 1 \in 1 .. N /\ n + 1 \in 1 .. N
      BY <1>1
    <3> QED
      BY ONLY <1>1, <3>1
  <2>2. n # 0 => c[n] = b[n]
    BY <1>1
  <2>3. b[n + 1] = IF n = 0 THEN past[1]
                   ELSE IF past[n + 1] < b[n] - delta THEN past[n + 1] ELSE b[n]
    BY <1>2 DEF BestsUpTo
  <2>4. c[n + 1] = IF n = 0 THEN new[1]
                   ELSE IF new[n + 1] < c[n] - delta THEN new[n + 1] ELSE c[n]
    <3>1. \A i \in 1 .. N + 1 :
            c[i] = IF i = 1 THEN new[1]
                   ELSE IF new[i] < c[i - 1] - delta THEN new[i] ELSE c[i - 1]
      BY <1>2 DEF BestsUpTo
    <3>2. n + 1 \in 1 .. N + 1 /\ (n + 1) - 1 = n /\ (n + 1 = 1 <=> n = 0)
      BY <1>1
    <3> QED
      BY ONLY <3>1, <3>2
  <2> QED
    BY <2>1, <2>2, <2>3, <2>4
<1>4. Nat \subseteq S
  <2>1. 0 \in S
    OBVIOUS
  <2> HIDE DEF S
  <2> QED
    BY <1>3, <2>1, SetInduction
<1>5. \A i \in 1 .. N : c[i] = b[i]
  BY <1>1, <1>4
<1> QED
  BY <1>5 DEF N, b, c, new

(* "j" is the epoch of the last change of "best" among the first "n".       *)
LastChange(best, n, j) ==
  /\ j \in 1 .. n
  /\ j = 1 \/ best[j] # best[j - 1]
  /\ \A k \in j + 1 .. n : best[k] = best[j]

LEMMA LastChangeUnique ==
  ASSUME NEW best, NEW n \in Nat, NEW i, NEW j,
         LastChange(best, n, i), LastChange(best, n, j)
  PROVE  i = j
<1>1. ASSUME NEW x, NEW y, LastChange(best, n, x), LastChange(best, n, y),
             x < y
      PROVE  FALSE
  <2>1. x \in 1 .. n /\ y \in 1 .. n /\ y # 1
    BY <1>1 DEF LastChange
  <2>2. y \in x + 1 .. n
    BY <1>1, <2>1
  <2>3. best[y] = best[x]
    BY <1>1, <2>2 DEF LastChange
  <2>4. y - 1 = x \/ y - 1 \in x + 1 .. n
    BY <1>1, <2>1
  <2>5. best[y - 1] = best[x]
    BY <1>1, <2>4 DEF LastChange
  <2>6. best[y] # best[y - 1]
    BY <1>1, <2>1 DEF LastChange
  <2> QED
    BY <2>3, <2>5, <2>6
<1>2. i \in 1 .. n /\ j \in 1 .. n
  BY DEF LastChange
<1>3. ~(i < j) /\ ~(j < i)
  BY <1>1
<1> QED
  BY <1>2, <1>3

LEMMA LastChangeExists ==
  ASSUME NEW best, NEW n \in Nat \ {0}
  PROVE  \E j : LastChange(best, n, j)
<1> DEFINE S == {m \in Nat : m # 0 => \E j : LastChange(best, m, j)}
<1>1. \A m \in Nat : m \in S => m + 1 \in S
  <2> SUFFICES ASSUME NEW m \in Nat, m \in S
               PROVE  \E j : LastChange(best, m + 1, j)
    OBVIOUS
  <2>1. CASE m = 0 \/ best[m + 1] # best[m]
    <3>1. /\ m + 1 \in 1 .. m + 1
          /\ m + 1 = 1 \/ best[m + 1] # best[(m + 1) - 1]
          /\ \A k \in (m + 1) + 1 .. m + 1 : best[k] = best[m + 1]
      BY <2>1
    <3>2. LastChange(best, m + 1, m + 1)
      BY ONLY <3>1 DEF LastChange
    <3> QED
      BY <3>2
  <2>2. CASE m # 0 /\ best[m + 1] = best[m]
    <3>1. PICK j : LastChange(best, m, j)
      BY <2>2
    <3>2. j \in 1 .. m /\ (j = 1 \/ best[j] # best[j - 1])
          /\ \A k \in j + 1 .. m : best[k] = best[j]
      BY <3>1 DEF LastChange
    <3>3. best[m] = best[j]
      BY <3>2
    <3>4. ASSUME NEW k \in j + 1 .. m + 1 PROVE best[k] = best[j]
      <4>1. k \in j + 1 .. m \/ k = m + 1
        BY <3>2
      <4> QED
        BY <2>2, <3>2, <3>3, <4>1
    <3>5. j \in 1 .. m + 1
      BY <3>2
    <3>6. LastChange(best, m + 1, j)
      BY ONLY <3>2, <3>4, <3>5 DEF LastChange
    <3> QED
      BY <3>6
  <2> QED
    BY <2>1, <2>2
<1>2. Nat \subseteq S
  <2>1. 0 \in S
    OBVIOUS
  <2> HIDE DEF S
  <2> QED
    BY <1>1, <2>1, SetInduction
<1> QED
  BY <1>2

LEMMA LastBestIs ==
  ASSUME NEW past, NEW delta, NEW n \in Nat \ {0}
  PROVE  LastChange(BestAfter(past, delta), n, LastBest(past, delta, n))
<1> DEFINE best == BestAfter(past, delta)
<1> DEFINE Changed(j) == /\ j = 1 \/ best[j] # best[j - 1]
                         /\ \A k \in j + 1 .. n : best[k] = best[j]
<1>1. LastBest(past, delta, n) = CHOOSE j \in 1 .. n : Changed(j)
  BY DEF LastBest
<1> HIDE DEF best
<1>2. PICK j : LastChange(best, n, j)
  BY LastChangeExists
<1>3. j \in 1 .. n /\ Changed(j)
  BY <1>2 DEF LastChange
<1> HIDE DEF Changed
<1>4. LastBest(past, delta, n) \in 1 .. n /\ Changed(LastBest(past, delta, n))
  BY <1>1, <1>3, Zenon
<1>5. LastChange(best, n, LastBest(past, delta, n))
  BY <1>4 DEF Changed, LastChange
<1> QED
  BY <1>5 DEF best

(* Nor does a further loss change what was the last improvement before.     *)
LEMMA LastBestKept ==
  ASSUME NEW past \in Seq(Nat), NEW loss \in Nat, NEW delta \in Nat,
         NEW n \in 1 .. Len(past)
  PROVE  LastBest(Append(past, loss), delta, n) = LastBest(past, delta, n)
<1> DEFINE b == BestAfter(past, delta)
           c == BestAfter(Append(past, loss), delta)
           j == LastBest(Append(past, loss), delta, n)
<1>1. \A i \in 1 .. n : c[i] = b[i]
  <2>1. \A i \in 1 .. n : i \in 1 .. Len(past)
    OBVIOUS
  <2> QED
    BY <2>1, BestKept
<1>2. LastChange(c, n, j) /\ LastChange(b, n, LastBest(past, delta, n))
  BY LastBestIs
<1> HIDE DEF b, c, j
<1>3. LastChange(b, n, j)
  <2>1. j \in 1 .. n /\ (j # 1 => j - 1 \in 1 .. n)
    BY <1>2 DEF LastChange
  <2>2. \A k \in j + 1 .. n : k \in 1 .. n
    BY <2>1
  <2> QED
    BY <1>1, <1>2, <2>1, <2>2 DEF LastChange
<1>4. j = LastBest(past, delta, n)
  BY <1>2, <1>3, LastChangeUnique
<1> QED
  BY <1>4 DEF j

(* What a further loss does.                                                *)
LEMMA BestNext ==
  ASSUME NEW past \in Seq(Nat), NEW loss \in Nat, NEW delta \in Nat
  PROVE  LET n == Len(past)
             new == Append(past, loss)
             best == BestAfter(past, delta)
             improves == n = 0 \/ loss < best[n] - delta
         IN  /\ BestAfter(new, delta)[n + 1] = IF improves THEN loss ELSE best[n]
             /\ LastBest(new, delta, n + 1)
                  = IF improves THEN n + 1 ELSE LastBest(past, delta, n)
<1> DEFINE n == Len(past)
           new == Append(past, loss)
           b == BestAfter(past, delta)
           c == BestAfter(new, delta)
           improves == n = 0 \/ loss < b[n] - delta
           j == LastBest(past, delta, n)
           i == LastBest(new, delta, n + 1)
<1>1. /\ new \in Seq(Nat) /\ Len(new) = n + 1 /\ n \in Nat
      /\ new[n + 1] = loss
  BY AppendIs
<1>2. \A k \in 1 .. n : c[k] = b[k]
  BY BestKept
<1>3. BestsUpTo(c, new, delta, n + 1) /\ BestsUpTo(b, past, delta, n)
  BY <1>1, BestAfterIs
<1>4. LastChange(c, n + 1, i) /\ (n # 0 => LastChange(b, n, j))
  BY <1>1, LastBestIs
<1> HIDE DEF n, new, b, c, j, i
<1>5. c[n + 1] = IF n = 0 THEN loss
                 ELSE IF loss < c[n] - delta THEN loss ELSE c[n]
  BY <1>1, <1>3 DEF BestsUpTo
<1>6. n # 0 => c[n] = b[n] /\ b[n] \in Nat
  BY <1>1, <1>2, <1>3 DEF BestsUpTo
<1>7. c[n + 1] = IF improves THEN loss ELSE b[n]
  BY <1>5, <1>6
<1>8. CASE improves
  <2>1. n # 0 => c[n + 1] # c[n]
    BY <1>6, <1>7, <1>8
  <2>2. /\ n + 1 \in 1 .. n + 1
        /\ n + 1 = 1 \/ c[n + 1] # c[(n + 1) - 1]
        /\ \A k \in (n + 1) + 1 .. n + 1 : c[k] = c[n + 1]
    BY <1>1, <2>1
  <2>3. LastChange(c, n + 1, n + 1)
    BY ONLY <2>2 DEF LastChange
  <2>4. i = n + 1
    BY <1>1, <1>4, <2>3, LastChangeUnique
  <2> QED
    BY <1>7, <1>8, <2>4 DEF n, new, b, c, j, i
<1>9. CASE ~improves
  <2>1. n \in Nat \ {0} /\ LastChange(b, n, j) /\ c[n + 1] = b[n]
    BY <1>1, <1>4, <1>7, <1>9
  <2>2. /\ j \in 1 .. n /\ (j = 1 \/ b[j] # b[j - 1])
        /\ \A k \in j + 1 .. n : b[k] = b[j]
    BY <2>1 DEF LastChange
  <2>3. b[n] = b[j] /\ c[j] = b[j] /\ (j # 1 => c[j - 1] = b[j - 1])
    BY <1>2, <2>1, <2>2
  <2>4. ASSUME NEW k \in j + 1 .. n + 1 PROVE c[k] = c[j]
    <3>1. (k \in j + 1 .. n /\ k \in 1 .. n) \/ k = n + 1
      BY <2>1, <2>2
    <3> QED
      BY <1>2, <2>1, <2>2, <2>3, <3>1
  <2>5. j \in 1 .. n + 1 /\ (j = 1 \/ c[j] # c[j - 1])
    BY <2>1, <2>2, <2>3
  <2>6. LastChange(c, n + 1, j)
    BY ONLY <2>4, <2>5 DEF LastChange
  <2>7. i = j
    BY <1>1, <1>4, <2>6, LastChangeUnique
  <2> QED
    BY <1>7, <1>9, <2>7 DEF n, new, b, c, j, i
<1> QED
  BY <1>8, <1>9

(* The first "n" counts of the schedule's transitions.                      *)
CountsUpTo(c, past, n) ==
  /\ c \in [0 .. n -> Nat]
  /\ \A i \in 0 .. n :
       c[i] = IF i = 0 THEN 0
              ELSE c[i - 1] + (IF Transition(past, i) THEN 1 ELSE 0)

LEMMA CountsExist ==
  ASSUME NEW past, NEW n \in Nat
  PROVE  \E c : CountsUpTo(c, past, n)
<1> DEFINE S == {m \in Nat : \E c : CountsUpTo(c, past, m)}
<1>1. 0 \in S
  <2> DEFINE c == [i \in 0 .. 0 |-> 0]
  <2>1. c \in [0 .. 0 -> Nat] /\ \A i \in 0 .. 0 : i = 0 /\ c[i] = 0
    OBVIOUS
  <2> HIDE DEF c
  <2>2. CountsUpTo(c, past, 0)
    BY ONLY <2>1 DEF CountsUpTo
  <2> QED
    BY <2>2
<1>2. ASSUME NEW m \in Nat, m \in S
      PROVE  \E c : CountsUpTo(c, past, m + 1)
  <2>1. PICK c : CountsUpTo(c, past, m)
    BY <1>2
  <2> DEFINE v == c[m] + (IF Transition(past, m + 1) THEN 1 ELSE 0)
             d == [i \in 0 .. m + 1 |-> IF i = m + 1 THEN v ELSE c[i]]
  <2>2. \A i \in 0 .. m : c[i] \in Nat
    BY <2>1 DEF CountsUpTo
  <2>3. v \in Nat
    BY <2>2
  <2> HIDE DEF v
  <2>4. d \in [0 .. m + 1 -> Nat]
    BY <2>2, <2>3
  <2>5. d[m + 1] = v /\ \A i \in 0 .. m : d[i] = c[i]
    OBVIOUS
  <2> HIDE DEF d
  <2>6. ASSUME NEW i \in 0 .. m + 1
        PROVE  d[i] = IF i = 0 THEN 0
                      ELSE d[i - 1] + (IF Transition(past, i) THEN 1 ELSE 0)
    <3>1. CASE i = m + 1
      <4>1. d[i - 1] = c[m] /\ i # 0
        BY <2>5, <3>1
      <4> QED
        BY <2>5, <3>1, <4>1 DEF v
    <3>2. CASE i # m + 1
      <4>1. i \in 0 .. m /\ (i # 0 => i - 1 \in 0 .. m)
        BY <3>2
      <4>2. d[i] = c[i] /\ (i # 0 => d[i - 1] = c[i - 1])
        BY <2>5, <4>1
      <4> QED
        BY <2>1, <4>1, <4>2 DEF CountsUpTo
    <3> QED
      BY <3>1, <3>2
  <2>7. CountsUpTo(d, past, m + 1)
    BY ONLY <2>4, <2>6 DEF CountsUpTo
  <2> QED
    BY <2>7
<1>3. Nat \subseteq S
  <2>1. \A m \in Nat : m \in S => m + 1 \in S
    BY <1>2
  <2> HIDE DEF S
  <2> QED
    BY <1>1, <2>1, SetInduction
<1> QED
  BY <1>3

(* The transitions are the last count.                                      *)
LEMMA TransitionsCounted ==
  ASSUME NEW past, Len(past) \in Nat
  PROVE  \E c : CountsUpTo(c, past, Len(past)) /\ Transitions(past) = c[Len(past)]
<1> DEFINE N == Len(past)
           Step(c) == [i \in 0 .. N |->
                         IF i = 0 THEN 0
                         ELSE c[i - 1] + (IF Transition(past, i) THEN 1 ELSE 0)]
           b == CHOOSE c : c = Step(c)
<1>1. Transitions(past) = b[N]
  BY DEF Transitions
<1>2. PICK c : CountsUpTo(c, past, N)
  BY CountsExist
<1>3. c = Step(c)
  BY <1>2 DEF CountsUpTo
<1>4. b = Step(b)
  <2> HIDE DEF Step
  <2> QED
    BY <1>3
<1> HIDE DEF b
<1>5. \A i \in 0 .. N :
        b[i] = IF i = 0 THEN 0
               ELSE b[i - 1] + (IF Transition(past, i) THEN 1 ELSE 0)
  BY <1>4
<1> DEFINE S == {n \in Nat : n \in 0 .. N => b[n] \in Nat}
<1>6. \A n \in Nat : n \in S => n + 1 \in S
  <2> SUFFICES ASSUME NEW n \in Nat, n \in S, n + 1 \in 0 .. N
               PROVE  b[n + 1] \in Nat
    OBVIOUS
  <2>1. b[n] \in Nat
    OBVIOUS
  <2>2. b[n + 1] = b[n] + (IF Transition(past, n + 1) THEN 1 ELSE 0)
    BY <1>5
  <2> QED
    BY <2>1, <2>2
<1>7. Nat \subseteq S
  <2>1. 0 \in S
    BY <1>5
  <2> HIDE DEF S
  <2> QED
    BY <1>6, <2>1, SetInduction
<1>8. b \in [0 .. N -> Nat]
  <2>1. \A n \in 0 .. N : b[n] \in Nat
    BY <1>7
  <2> QED
    BY <1>4, <2>1
<1>9. CountsUpTo(b, past, N)
  BY <1>5, <1>8 DEF CountsUpTo
<1> QED
  BY <1>1, <1>9

LEMMA TransitionKept ==
  ASSUME options.plateauDelta \in Nat, NEW past \in Seq(Nat), NEW loss \in Nat,
         NEW i \in 1 .. Len(past)
  PROVE  Transition(Append(past, loss), i) <=> Transition(past, i)
<1>1. LastBest(Append(past, loss), options.plateauDelta, i)
        = LastBest(past, options.plateauDelta, i)
  BY LastBestKept
<1> QED
  BY <1>1 DEF Transition

LEMMA TransitionsNext ==
  ASSUME options.plateauDelta \in Nat, NEW past \in Seq(Nat), NEW loss \in Nat
  PROVE  LET new == Append(past, loss)
         IN  Transitions(new) = Transitions(past)
               + (IF Transition(new, Len(past) + 1) THEN 1 ELSE 0)
<1> DEFINE n == Len(past)
           new == Append(past, loss)
<1>1. /\ new \in Seq(Nat) /\ Len(new) = n + 1 /\ n \in Nat
  BY AppendIs
<1>2. \A i \in 1 .. n : Transition(new, i) <=> Transition(past, i)
  BY TransitionKept
<1>3. PICK c : CountsUpTo(c, past, n) /\ Transitions(past) = c[n]
  BY <1>1, TransitionsCounted
<1>4. PICK d : CountsUpTo(d, new, n + 1) /\ Transitions(new) = d[n + 1]
  <2> HIDE DEF new
  <2> QED
    BY <1>1, TransitionsCounted
<1> HIDE DEF n, new
<1>5. \A i \in 0 .. n :
        c[i] = IF i = 0 THEN 0
               ELSE c[i - 1] + (IF Transition(past, i) THEN 1 ELSE 0)
  BY <1>3 DEF CountsUpTo
<1>6. \A i \in 0 .. n + 1 :
        d[i] = IF i = 0 THEN 0
               ELSE d[i - 1] + (IF Transition(new, i) THEN 1 ELSE 0)
  BY <1>4 DEF CountsUpTo
<1> DEFINE S == {i \in Nat : i \in 0 .. n => d[i] = c[i]}
<1>7. \A i \in Nat : i \in S => i + 1 \in S
  <2> SUFFICES ASSUME NEW i \in Nat, i \in S, i + 1 \in 0 .. n
               PROVE  d[i + 1] = c[i + 1]
    OBVIOUS
  <2>1. /\ i + 1 \in 0 .. n + 1 /\ i + 1 \in 1 .. n /\ i + 1 # 0
        /\ (i + 1) - 1 = i
    BY <1>1
  <2>2. d[i] = c[i]
    BY <1>1
  <2>3. d[i + 1] = d[i] + (IF Transition(new, i + 1) THEN 1 ELSE 0)
    BY ONLY <1>6, <2>1
  <2>4. c[i + 1] = c[i] + (IF Transition(past, i + 1) THEN 1 ELSE 0)
    BY ONLY <1>5, <2>1
  <2>5. Transition(new, i + 1) <=> Transition(past, i + 1)
    BY <1>2, <2>1
  <2> QED
    BY <2>2, <2>3, <2>4, <2>5
<1>8. Nat \subseteq S
  <2>1. 0 \in S
    BY <1>1, <1>5, <1>6
  <2> HIDE DEF S
  <2> QED
    BY <1>7, <2>1, SetInduction
<1>9. d[n] = c[n]
  BY <1>1, <1>8
<1>10. d[n + 1] = d[n] + (IF Transition(new, n + 1) THEN 1 ELSE 0)
  <2>1. n + 1 \in 0 .. n + 1 /\ n + 1 # 0 /\ (n + 1) - 1 = n
    BY <1>1
  <2> QED
    BY ONLY <1>6, <2>1
<1> QED
  BY <1>3, <1>4, <1>9, <1>10 DEF n, new

-----------------------------------------------------------------------------
(* The schedule and the convergence control count the history.              *)

(* The best value and the history agree on what an improvement is.          *)
LEMMA ImprovesAsHistory ==
  ASSUME NEW best, NEW found, NEW n \in Nat, NEW loss \in Nat, NEW delta \in Nat,
         IF n = 0 THEN best = Unset ELSE best = found /\ found \in Nat
  PROVE  Improves(best, loss, delta) <=> n = 0 \/ loss < found - delta
<1>1. CASE n = 0
  BY <1>1 DEF Improves
<1>2. CASE n # 0
  <2>1. best = found /\ found \in Nat /\ best # Unset
    BY <1>2, UnsetIsNoCount
  <2>2. best - loss > delta <=> loss < found - delta
    BY <2>1
  <2> QED
    BY <1>2, <2>1, <2>2 DEF Improves
<1> QED
  BY <1>1, <1>2

LEMMA FollowsStart ==
  ASSUME setting \in Settings
  PROVE  Follows(Create(options), <<>>)
<1> DEFINE s == Create(options)
<1>1. /\ s.completed = 0 /\ s.rate = 0 /\ s.best = Unset /\ s.stale = 0
      /\ s.convergenceBest = Unset /\ s.convergenceStale = 0
      /\ s.reason = "none"
      /\ options.schedule = "step" => s.next = options.interval
  BY DEF Create
<1> HIDE DEF s
<1>2. Len(<<>>) = 0
  OBVIOUS
<1>3. Transitions(<<>>) = 0
  <2> DEFINE past == <<>>
  <2>1. Len(past) = 0
    OBVIOUS
  <2> HIDE DEF past
  <2>2. PICK c : CountsUpTo(c, past, 0) /\ Transitions(past) = c[0]
    BY <2>1, TransitionsCounted
  <2>3. c[0] = 0
    BY <2>2 DEF CountsUpTo
  <2> QED
    BY <2>2, <2>3 DEF past
<1>4. options.schedule = "step" => options.interval = NextMultiple(options, 0)
  <2> SUFFICES ASSUME options.schedule = "step"
               PROVE  options.interval = NextMultiple(options, 0)
    OBVIOUS
  <2>1. options.interval \in Nat \ {0} /\ options.interval <= SizeMax
    BY SettingKept, RangeAssumption DEF Options, OptionsValid, Size
  <2>2. 0 % options.interval = 0
    BY <2>1, ModZero
  <2> QED
    BY <2>1, <2>2, RangeAssumption DEF NextMultiple
<1>5. FirstMet(<<>>) = "none"
  BY <1>2 DEF FirstMet
<1>6. FollowsSchedule(s, <<>>)
  BY <1>1, <1>2, <1>3, <1>4 DEF FollowsSchedule
<1>7. FollowsConvergence(s, <<>>)
  BY <1>1, <1>2, <1>5 DEF FollowsConvergence
<1>8. Follows(s, <<>>)
  BY <1>1, <1>2, <1>6, <1>7 DEF Follows
<1> QED
  BY <1>8 DEF s

(* A step schedule's next transition, and when it is reached.               *)
LEMMA StepNext ==
  ASSUME NEW o, o.interval \in Nat \ {0}, o.interval <= SizeMax,
         NEW n \in Nat, n + 1 < SizeMax
  PROVE  /\ n + 1 = NextMultiple(o, n) <=> (n + 1) % o.interval = 0
         /\ NextMultiple(o, n + 1)
              = IF n + 1 = NextMultiple(o, n)
                  THEN AddSaturated(NextMultiple(o, n), o.interval)
                ELSE NextMultiple(o, n)
<1> DEFINE b == o.interval
           r == n % b
           q == (n + 1) % b
<1>1. /\ b \in Nat \ {0} /\ b <= SizeMax /\ SizeMax \in Nat
      /\ r \in 0 .. b - 1 /\ r <= n
  <2>1. b \in Nat \ {0}
    OBVIOUS
  <2>2. /\ n \div b \in Nat /\ r \in 0 .. b - 1 /\ n = (n \div b) * b + r
    BY <2>1, DivMod
  <2>3. (n \div b) * b \in Nat
    <3> DEFINE k == n \div b
    <3>1. k \in Nat /\ b \in Nat
      BY <2>1, <2>2
    <3> HIDE DEF k, b
    <3>2. k * b \in Nat
      BY ONLY <3>1
    <3> QED
      BY <3>2 DEF k
  <2> HIDE DEF b, r
  <2> QED
    BY <2>1, <2>2, <2>3, RangeAssumption DEF b
<1>2. q = IF r + 1 = b THEN 0 ELSE r + 1
  BY ModStep
<1>3. /\ NextMultiple(o, n)
           = IF n - r > SizeMax - b THEN SizeMax ELSE n - r + b
      /\ NextMultiple(o, n + 1)
           = IF (n + 1) - q > SizeMax - b THEN SizeMax ELSE (n + 1) - q + b
  BY DEF NextMultiple
<1> HIDE DEF b, r, q
<1>4. n + 1 = NextMultiple(o, n) <=> q = 0
  BY <1>1, <1>2, <1>3
<1>5. NextMultiple(o, n + 1)
        = IF n + 1 = NextMultiple(o, n)
            THEN AddSaturated(NextMultiple(o, n), b) ELSE NextMultiple(o, n)
  <2>1. CASE r + 1 = b
    BY <1>1, <1>2, <1>3, <1>4, <2>1 DEF AddSaturated
  <2>2. CASE r + 1 # b
    BY <1>1, <1>2, <1>3, <1>4, <2>2 DEF AddSaturated
  <2> QED
    BY <2>1, <2>2
<1> QED
  BY <1>4, <1>5 DEF q, b

(* The optimizer after the next loss; the epochs stay below SIZE_MAX.       *)
LEMMA FollowsEpoch ==
  ASSUME setting \in Settings, NEW s, OptimizerKept(options, s),
         CanStep(options, s), NEW past \in Seq(Losses), NEW loss \in Losses,
         Follows(s, past), s.reason = "none", Len(past) + 1 < SizeMax
  PROVE  Follows(EpochOf(s, loss), Append(past, loss))
<1> DEFINE o == options
           n == Len(past)
           new == Append(past, loss)
           t == EpochOf(s, loss)
           b == BestAfter(past, o.plateauDelta)
           last == LastBest(past, o.plateauDelta, n)
           e == BestAfter(past, o.minDelta)
           found == LastBest(past, o.minDelta, n)
           better == n = 0 \/ loss < b[n] - o.plateauDelta
           lower == n = 0 \/ loss < e[n] - o.minDelta
<1>1. /\ o \in Options /\ OptionsValid(o) /\ loss \in Nat
      /\ past \in Seq(Nat) /\ n \in Nat
  <2>1. past \in Seq(Nat)
    BY SettingAssumption, SeqMonotonic
  <2> QED
    BY <2>1, SettingKept, SettingAssumption
<1>2. /\ o.plateauDelta \in Nat /\ o.minDelta \in Nat /\ o.noImprovement \in Nat
      /\ o.patience \in Nat /\ o.interval \in Nat /\ o.interval <= SizeMax
      /\ o.schedule \in Schedules
      /\ o.schedule = "step" => o.interval # 0
      /\ o.schedule = "plateau" => o.patience # 0
  BY <1>1, RangeAssumption DEF Options, OptionsValid, Size
<1>3. /\ Len(new) = n + 1 /\ new[n + 1] = loss /\ new \in Seq(Nat)
  BY <1>1, AppendIs
<1>4. s.completed = n /\ FollowsSchedule(s, past) /\ FollowsConvergence(s, past)
  BY DEF Follows
<1>5. EpochFields(o, s, loss, t)
  <2>1. s.completed < SizeMax
    BY <1>1, <1>4, RangeAssumption
  <2> QED
    BY <2>1, EpochKept
<1>6. /\ BestAfter(new, o.plateauDelta)[n + 1] = IF better THEN loss ELSE b[n]
      /\ LastBest(new, o.plateauDelta, n + 1) = IF better THEN n + 1 ELSE last
  BY <1>1, <1>2, BestNext
<1>7. /\ BestAfter(new, o.minDelta)[n + 1] = IF lower THEN loss ELSE e[n]
      /\ LastBest(new, o.minDelta, n + 1) = IF lower THEN n + 1 ELSE found
  BY <1>1, <1>2, BestNext
<1>8. Transitions(new) = Transitions(past)
        + (IF Transition(new, n + 1) THEN 1 ELSE 0)
  BY <1>1, <1>2, TransitionsNext
<1>9. n # 0 => /\ b[n] \in Nat /\ last \in 1 .. n
               /\ e[n] \in Nat /\ found \in 1 .. n
  <2> SUFFICES ASSUME n # 0 PROVE /\ b[n] \in Nat /\ last \in 1 .. n
                                  /\ e[n] \in Nat /\ found \in 1 .. n
    OBVIOUS
  <2>1. BestsUpTo(b, past, o.plateauDelta, n) /\ BestsUpTo(e, past, o.minDelta, n)
    BY <1>1, <1>2, BestAfterIs
  <2>2. LastChange(b, n, last) /\ LastChange(e, n, found)
    BY <1>1, LastBestIs
  <2>3. n \in 1 .. n
    BY <1>1
  <2> HIDE DEF b, e, n, last, found
  <2> QED
    BY <2>1, <2>2, <2>3 DEF BestsUpTo, LastChange
<1> HIDE DEF o, n, new, t, b, last, e, found
<1>10. o.schedule = "plateau" =>
         /\ Improves(s.best, loss, o.plateauDelta) <=> better
         /\ t.best = BestAfter(new, o.plateauDelta)[n + 1]
         /\ t.stale = ((n + 1) - LastBest(new, o.plateauDelta, n + 1)) % o.patience
         /\ Transition(new, n + 1) <=> Transits(o, s, loss)
  <2> SUFFICES ASSUME o.schedule = "plateau"
               PROVE  /\ Improves(s.best, loss, o.plateauDelta) <=> better
                      /\ t.best = BestAfter(new, o.plateauDelta)[n + 1]
                      /\ t.stale = ((n + 1) - LastBest(new, o.plateauDelta, n + 1))
                                     % o.patience
                      /\ Transition(new, n + 1) <=> Transits(o, s, loss)
    OBVIOUS
  <2>1. IF n = 0 THEN s.best = Unset /\ s.stale = 0
        ELSE s.best = b[n] /\ s.stale = (n - last) % o.patience
    BY <1>4 DEF FollowsSchedule, o, n, b, last
  <2>2. Improves(s.best, loss, o.plateauDelta) <=> better
    BY <1>1, <1>2, <1>9, <2>1, ImprovesAsHistory
  <2>3. /\ t.best = IF better THEN loss ELSE s.best
        /\ t.stale = IF better \/ ~(s.stale + 1 < o.patience) THEN 0
                     ELSE s.stale + 1
        /\ Transits(o, s, loss) <=> ~better /\ ~(s.stale + 1 < o.patience)
    BY <1>5, <2>2 DEF EpochFields, Transits
  <2>4. Transition(new, n + 1) <=>
          LET stale == (n + 1) - LastBest(new, o.plateauDelta, n + 1)
          IN  stale # 0 /\ stale % o.patience = 0
    BY DEF Transition, o
  <2>5. CASE better
    <3>1. (n + 1) - LastBest(new, o.plateauDelta, n + 1) = 0
      BY <1>1, <1>6, <2>5
    <3>2. 0 % o.patience = 0
      BY <1>2, ModZero
    <3>3. t.best = BestAfter(new, o.plateauDelta)[n + 1]
      BY <1>6, <2>3, <2>5
    <3> HIDE DEF better
    <3> QED
      BY <2>2, <2>3, <2>4, <2>5, <3>1, <3>2, <3>3
  <2>6. CASE ~better
    <3>1. n # 0 /\ n - last \in Nat /\ (n + 1) - last = (n - last) + 1
      BY <1>1, <1>9, <2>6
    <3>2. s.best = b[n] /\ s.stale = (n - last) % o.patience
      BY <2>1, <3>1
    <3>3. s.stale \in 0 .. o.patience - 1
      BY <1>2, <3>1, <3>2, DivMod
    <3>4. ((n - last) + 1) % o.patience
            = IF s.stale + 1 = o.patience THEN 0 ELSE s.stale + 1
      <4> DEFINE l == n - last
                 p == o.patience
      <4>1. l \in Nat /\ p \in Nat \ {0} /\ s.stale = l % p
        BY <1>2, <3>1, <3>2
      <4> HIDE DEF l, p
      <4>2. (l + 1) % p = IF s.stale + 1 = p THEN 0 ELSE s.stale + 1
        BY <4>1, ModStep
      <4> QED
        BY <4>2 DEF l, p
    <3>5. LastBest(new, o.plateauDelta, n + 1) = last
      BY <1>6, <2>6
    <3>6. t.best = BestAfter(new, o.plateauDelta)[n + 1]
      BY <1>6, <2>3, <2>6, <3>2
    <3> DEFINE m == (n - last) + 1
               k == m % o.patience
    <3>7. m # 0 /\ (n + 1) - last = m
      BY <3>1
    <3>8. k = IF s.stale + 1 = o.patience THEN 0 ELSE s.stale + 1
      BY <3>4
    <3>9. Transition(new, n + 1) <=> m # 0 /\ k = 0
      BY <2>4, <3>5, <3>7
    <3> HIDE DEF better, m, k
    <3>10. /\ t.stale = k
           /\ Transition(new, n + 1) <=> Transits(o, s, loss)
      BY <1>2, <2>3, <2>6, <3>3, <3>7, <3>8, <3>9
    <3>11. ((n + 1) - LastBest(new, o.plateauDelta, n + 1)) % o.patience = k
      BY <3>5, <3>7 DEF k
    <3> QED
      BY <2>2, <3>6, <3>10, <3>11
  <2> QED
    BY <2>5, <2>6
<1>11. o.schedule = "step" =>
         /\ t.next = NextMultiple(o, n + 1)
         /\ Transition(new, n + 1) <=> Transits(o, s, loss)
  <2> SUFFICES ASSUME o.schedule = "step"
               PROVE  /\ t.next = NextMultiple(o, n + 1)
                      /\ Transition(new, n + 1) <=> Transits(o, s, loss)
    OBVIOUS
  <2>1. s.next = NextMultiple(o, n)
    BY <1>4 DEF FollowsSchedule, o, n
  <2>2. t.next = IF n + 1 = s.next THEN AddSaturated(s.next, o.interval) ELSE s.next
    BY <1>4, <1>5 DEF EpochFields
  <2>3. /\ n + 1 = NextMultiple(o, n) <=> (n + 1) % o.interval = 0
        /\ NextMultiple(o, n + 1)
             = IF n + 1 = NextMultiple(o, n)
                 THEN AddSaturated(NextMultiple(o, n), o.interval)
               ELSE NextMultiple(o, n)
    BY <1>1, <1>2, StepNext DEF n
  <2>4. Transition(new, n + 1) <=> (n + 1) % o.interval = 0
    BY DEF Transition, o
  <2>5. Transits(o, s, loss) <=> n + 1 = s.next
    BY <1>4 DEF Transits
  <2> QED
    BY ONLY <2>1, <2>2, <2>3, <2>4, <2>5
<1>12. Transition(new, n + 1) <=> Transits(o, s, loss)
  <2>1. CASE o.schedule = "constant"
    BY <2>1 DEF Transition, Transits, o
  <2>2. CASE o.schedule = "exponential"
    BY <2>2 DEF Transition, Transits, o
  <2> QED
    BY <1>2, <1>10, <1>11, <2>1, <2>2 DEF Schedules
<1>13. t.rate = Transitions(new)
  <2>1. s.rate = Transitions(past)
    BY <1>4 DEF FollowsSchedule
  <2>2. t.rate = s.rate + (IF Transits(o, s, loss) THEN 1 ELSE 0)
    BY <1>5 DEF EpochFields
  <2> QED
    BY <1>8, <1>12, <2>1, <2>2
<1>14. FollowsSchedule(t, new)
  <2>1. n + 1 # 0
    BY <1>1
  <2> QED
    BY <1>3, <1>10, <1>11, <1>13, <2>1 DEF FollowsSchedule, o
<1>15. /\ t.convergenceBest = BestAfter(new, o.minDelta)[n + 1]
       /\ o.noImprovement # 0 => t.convergenceStale
            = (n + 1) - LastBest(new, o.minDelta, n + 1)
  <2>1. IF n = 0 THEN s.convergenceBest = Unset /\ s.convergenceStale = 0
        ELSE /\ s.convergenceBest = e[n]
             /\ o.noImprovement # 0 => s.convergenceStale = n - found
    BY <1>4 DEF FollowsConvergence, o, n, e, found
  <2>2. Improves(s.convergenceBest, loss, o.minDelta) <=> lower
    BY <1>1, <1>2, <1>9, <2>1, ImprovesAsHistory
  <2>3. /\ t.convergenceBest = IF lower THEN loss ELSE s.convergenceBest
        /\ o.noImprovement # 0 => t.convergenceStale
             = IF lower THEN 0 ELSE s.convergenceStale + 1
    BY <1>5, <2>2 DEF EpochFields
  <2>4. CASE lower
    BY <1>1, <1>7, <2>3, <2>4
  <2>5. CASE ~lower
    BY <1>1, <1>7, <1>9, <2>1, <2>3, <2>5
  <2> QED
    BY <2>4, <2>5
<1>16. t.reason = FirstMet(new)
  <2>1. t.reason = IF o.target >= 0 /\ loss <= o.target THEN "loss_target"
                   ELSE IF o.noImprovement # 0
                           /\ t.convergenceStale >= o.noImprovement
                     THEN "no_improvement"
                   ELSE "none"
    BY <1>5 DEF EpochFields
  <2>2. n + 1 # 0
    BY <1>1
  <2>3. FirstMet(new)
          = IF o.target >= 0 /\ loss <= o.target THEN "loss_target"
            ELSE IF o.noImprovement # 0
                    /\ (n + 1) - LastBest(new, o.minDelta, n + 1)
                         >= o.noImprovement
              THEN "no_improvement"
            ELSE "none"
    BY <1>3, <2>2 DEF FirstMet, o
  <2> QED
    BY <1>15, <2>1, <2>3
<1>17. FollowsConvergence(t, new)
  <2>1. n + 1 # 0
    BY <1>1
  <2> QED
    BY <1>3, <1>15, <1>16, <2>1 DEF FollowsConvergence, o
<1>18. t.completed = n + 1
  BY <1>4, <1>5 DEF EpochFields
<1>19. Follows(t, new)
  BY <1>3, <1>14, <1>17, <1>18 DEF Follows
<1> QED
  BY <1>19 DEF t, new

LEMMA FollowsPrime ==
  ASSUME NEW s, NEW past, setting' = setting
  PROVE  Follows(s, past)' <=> Follows(s, past)
<1>1. options' = options
  BY DEF options
<1>2. \A i : Transition(past, i)' <=> Transition(past, i)
  BY <1>1 DEF Transition
<1>3. Transitions(past)' = Transitions(past)
  BY <1>1 DEF Transitions, Transition
<1>4. FirstMet(past)' = FirstMet(past)
  BY <1>1 DEF FirstMet
<1> QED
  BY <1>1, <1>3, <1>4 DEF Follows, FollowsSchedule, FollowsConvergence

(* The same, for a step that gives both optimizers of the history.          *)
LEMMA CountedNext ==
  ASSUME setting' = setting,
         NEW s, NEW past, Follows(s, past), shadow' = s, losses' = past,
         NEW t, NEW old, Follows(t, old), saved'.shadow = t, saved'.losses = old
  PROVE  Counted'
<1>1. Follows(s, past)' /\ Follows(t, old)'
  BY FollowsPrime
<1> QED
  BY <1>1 DEF Counted

LEMMA InitCounted == Init => Counted
<1> SUFFICES ASSUME Init PROVE Counted
  OBVIOUS
<1>1. Follows(Create(options), <<>>)
  BY FollowsStart DEF Init
<1>2. /\ shadow = Create(options) /\ losses = <<>>
      /\ saved.shadow = Create(options) /\ saved.losses = <<>>
  BY DEF Init, options
<1> QED
  BY <1>1, <1>2 DEF Counted

(* No epoch after the target, nor after the control has stopped the run.    *)
LEMMA EpochCounted ==
  ASSUME Target < SizeMax, Invariant, Counted,
         NEW loss \in Losses, NEW validation \in Losses, Epoch(loss, validation)
  PROVE  Counted'
<1>1. /\ live # None /\ live.reason = "none" /\ model.completed # Target
      /\ CanStep(options, live) /\ setting \in Settings
      /\ shadow' = EpochOf(shadow, loss) /\ losses' = Append(losses, loss)
      /\ setting' = setting /\ saved' = saved
  BY DEF Epoch, Over, Running, Invariant, Types
<1>2. /\ OptimizerKept(options, shadow) /\ losses \in Seq(Losses)
      /\ RequiresState(options) => live = shadow
      /\ shadow.completed = model.completed /\ ModelKept(model)
  BY <1>1 DEF Invariant, Types, Memory, Running
<1>3. CanStep(options, shadow)
  BY <1>1, <1>2 DEF CanStep, RequiresState
<1>4. shadow.reason = "none"
  <2>1. ~RequiresState(options) => shadow.reason = "none"
    BY <1>2 DEF OptimizerKept
  <2> QED
    BY <1>1, <1>2, <2>1
<1>5. Follows(shadow, losses) /\ Follows(saved.shadow, saved.losses)
  BY DEF Counted
<1>6. Len(losses) + 1 < SizeMax
  <2>1. Len(losses) = model.completed
    BY <1>2, <1>5 DEF Follows
  <2>2. model.completed \in 0 .. Target
    BY <1>2 DEF ModelKept, Models
  <2> QED
    BY <1>1, <2>1, <2>2, TargetFits, RangeAssumption
<1>7. Follows(EpochOf(shadow, loss), Append(losses, loss))
  BY <1>1, <1>2, <1>3, <1>4, <1>5, <1>6, FollowsEpoch
<1> QED
  BY <1>1, <1>5, <1>7, CountedNext

LEMMA NextCounted ==
  ASSUME Target < SizeMax, Invariant, Counted, [Next]_vars
  PROVE  Counted'
<1>1. ASSUME NEW loss \in Losses, NEW validation \in Losses,
             Epoch(loss, validation)
      PROVE  Counted'
  BY <1>1, EpochCounted
<1>2. Follows(shadow, losses) /\ Follows(saved.shadow, saved.losses)
  BY DEF Counted
<1>3. ASSUME UNCHANGED <<setting, shadow, losses, saved>>
      PROVE  Counted'
  BY <1>2, <1>3, CountedNext
<1>4. ASSUME NEW loss \in Losses, EpochFails(loss) PROVE Counted'
  BY <1>3, <1>4 DEF EpochFails
<1>5. CASE Stop
  BY <1>3, <1>5 DEF Stop
<1>6. CASE Save
  <2>1. /\ setting' = setting /\ shadow' = shadow /\ losses' = losses
        /\ saved'.shadow = shadow /\ saved'.losses = losses
    BY <1>6 DEF Save
  <2> QED
    BY <1>2, <2>1, CountedNext
<1>7. CASE Resume
  <2>1. /\ setting' = setting /\ saved' = saved
        /\ shadow' = saved.shadow /\ losses' = saved.losses
    BY <1>7 DEF Resume
  <2> QED
    BY <1>2, <2>1, CountedNext
<1>8. CASE UNCHANGED vars
  BY <1>3, <1>8 DEF vars
<1> QED
  BY <1>1, <1>4, <1>5, <1>6, <1>7, <1>8 DEF Next

(* The learning rate and the reason to stop are those that the losses since *)
(* the start of the run prescribe, over any number of interruptions.  The   *)
(* target is below SIZE_MAX: at that epoch a step schedule's saturated      *)
(* "next transition" would be due, whether a multiple or not.               *)
THEOREM HistoryControlsTheRun ==
  ASSUME Target < SizeMax
  PROVE  Spec => []ControlsFollowHistory
<1>1. Invariant /\ Counted /\ [Next]_vars => Counted'
  BY NextCounted
<1>2. Counted => ControlsFollowHistory
  BY DEF Counted, Follows, FollowsSchedule, FollowsConvergence,
         ControlsFollowHistory
<1> QED
  BY <1>1, <1>2, InitCounted, ContinuationInvariance, PTL DEF Spec

=============================================================================
