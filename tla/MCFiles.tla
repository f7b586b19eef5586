------------------------------- MODULE MCFiles -------------------------------
(* Replacement of project files with two interchangeable process ids.        *)
EXTENDS ProjectFiles, TLC

CONSTANTS p, q

Interchangeable == Permutations({p, q})
=============================================================================
