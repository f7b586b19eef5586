---------------------------- MODULE MCContinuation ----------------------------
(* Runs of five epochs with each optimizer, schedule and convergence control. *)
EXTENDS Continuation

Base ==
  [kind |-> "gradient_descent", schedule |-> "constant", interval |-> 0,
   patience |-> 0, plateauDelta |-> 0, divergence |-> 0, target |-> -1,
   noImprovement |-> 0, minDelta |-> 0]

Adam == [Base EXCEPT !.kind = "adam"]

Plain(o) == [options |-> o, patience |-> 0]
EarlyStopping(o) == [options |-> o, patience |-> 2]

AllSettings ==
  { Plain(Base),
    EarlyStopping(Base),
    Plain([Base EXCEPT !.schedule = "step", !.interval = 2]),
    Plain([Base EXCEPT !.schedule = "step", !.interval = 5]),
    Plain([Base EXCEPT !.kind = "momentum", !.schedule = "exponential"]),
    Plain([Adam EXCEPT !.schedule = "plateau", !.patience = 2]),
    EarlyStopping([Adam EXCEPT !.noImprovement = 2, !.target = 0]),
    Plain([Base EXCEPT !.noImprovement = 2, !.minDelta = 1]),
    EarlyStopping([Base EXCEPT !.schedule = "plateau", !.patience = 1,
                               !.plateauDelta = 1]),
    Plain([Base EXCEPT !.divergence = 1, !.target = 0]) }

OnlyAdam == {Plain(Adam)}
=============================================================================
