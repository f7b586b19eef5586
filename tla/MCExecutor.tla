------------------------------ MODULE MCExecutor ------------------------------
(* Five shuffled samples in batches of four and one, on three workers.      *)
EXTENDS ExecutorProperties

Shuffled == [i \in 0 .. SampleCount - 1 |->
               IF i = 0 THEN SampleCount - 1 ELSE i - 1]

NoneOrSome == {{}, {0}, {0, 1}}
=============================================================================
