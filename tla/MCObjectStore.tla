---------------------------- MODULE MCObjectStore ----------------------------
(***************************************************************************)
(* Small instances of ObjectStore for TLC.                                 *)
(***************************************************************************)
EXTENDS ObjectStore, TLC

\* A one-byte and a two-byte content: overwrites grow, shrink and keep a size.
CONSTANTS c1, c2

TwoSizes == c1 :> 1 @@ c2 :> 2

OneSize == c1 :> 1

OnlyTwoBytes == c2 :> 2

OneCap == {[max |-> 3, perUser |-> 2]}

NoCaps == {}

\* Requests, UUIDs, paths and users are interchangeable.
Interchangeable ==
    Permutations(Procs) \cup Permutations(Ids) \cup Permutations(Names)
        \cup Permutations(Users)

=============================================================================
