-------------------------------- MODULE MCLock --------------------------------
(* Three commands on one project path; they differ only in what they do.     *)
EXTENDS ProjectLock, TLC

Interchangeable == Permutations(Commands)
=============================================================================
