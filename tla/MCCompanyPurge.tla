--------------------------- MODULE MCCompanyPurge ---------------------------
(***************************************************************************)
(* A small instance of CompanyPurge for TLC.                               *)
(***************************************************************************)
EXTENDS CompanyPurge, TLC

CONSTANT c1

OneHome == [o \in Objects |-> c1]

\* Workers and the objects of one company are interchangeable.
Interchangeable == Permutations(Procs) \cup Permutations(Objects)

=============================================================================
