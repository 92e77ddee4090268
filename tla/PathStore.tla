------------------------------ MODULE PathStore ------------------------------
(***************************************************************************)
(* What the objects of a bucket promise a client: a map from paths to      *)
(* versioned contents on which every request acts at one instant.          *)
(***************************************************************************)
EXTENDS Naturals

CONSTANTS Names, Users, Contents, None

VARIABLE store

Entry == [etag : Contents, owner : Users, version : Nat]

Init == store = [n \in Names |-> None]

\* An upload or a copy to a free path.
Create(n) ==
    /\ store[n] = None
    /\ \E c \in Contents, u \in Users :
        store' = [store EXCEPT ![n] = [etag |-> c, owner |-> u, version |-> 1]]

\* An upload over the object that has the path: the next version, none skipped.
Overwrite(n) ==
    /\ store[n] # None
    /\ \E c \in Contents, u \in Users :
        store' = [store EXCEPT ![n] =
                    [etag |-> c, owner |-> u, version |-> store[n].version + 1]]

\* The objects of several paths go together.
Remove(S) ==
    /\ S # {}
    /\ \A n \in S : store[n] # None
    /\ store' = [n \in Names |-> IF n \in S THEN None ELSE store[n]]

\* The object keeps its content, owner and version under a path that was free.
Rename(m, n) ==
    /\ store[m] # None
    /\ store[n] = None
    /\ store' = [store EXCEPT ![n] = store[m], ![m] = None]

\* A step changes the map; what leaves it alone is a stutter.
Next ==
    /\ store' # store
    /\ \/ \E n \in Names : Create(n) \/ Overwrite(n)
       \/ \E S \in SUBSET Names : Remove(S)
       \/ \E m, n \in Names : Rename(m, n)

Spec == Init /\ [][Next]_store

=============================================================================
