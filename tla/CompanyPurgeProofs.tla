------------------------- MODULE CompanyPurgeProofs -------------------------
(***************************************************************************)
(* Proofs about CompanyPurge for any number of companies, objects, workers *)
(* and overlapping runs: what a purge leaves behind.                       *)
(***************************************************************************)
EXTENDS CompanyPurge, TLAPS

(***************************************************************************)
(* The inductive invariant                                                 *)
(***************************************************************************)

\* Types of what the purges and the uploads write.
Types ==
    /\ row \subseteq Objects /\ blob \subseteq Objects
    /\ up \in [Objects ->
              {"no", "overwrite", "overwritten", "create", "created", "doomed", "refused"}]
    /\ pc \in [Procs -> {"idle", "row", "read", "blobs", "objects", "rows", "complete"}]
    /\ DOMAIN todo = Procs
    /\ batch \in [Procs -> SUBSET Objects]
    /\ touched \in [Procs -> SUBSET Objects]

\* What no upload has written since a purge began is at rest, and is not a blob
\* without a row: no other purge deletes the row before the blob.
AtRest ==
    \A p \in Procs : Purging(p) =>
        \A o \in Objects \ touched[p] : up[o] = "no" /\ (o \in blob => o \in row)

\* The blobs of a batch are gone before its rows, but for new ones.
BlobsFirst ==
    \A p, q \in Procs : Purging(p) /\ pc[q] = "objects" => batch[q] \cap blob \subseteq touched[p]

\* A purge that has read its last batch has left no row, but for new ones.
NoneLeft ==
    \A p, q \in Procs : Purging(p) /\ pc[q] \in {"rows", "complete"} =>
        row \cap ObjectsOf(Company(q)) \subseteq touched[p]

IInv == Types /\ AtRest /\ BlobsFirst /\ NoneLeft

(***************************************************************************)
(* Steps                                                                   *)
(***************************************************************************)

\* The steps that change neither objects nor the place of a worker.
LEMMA OtherStep ==
    ASSUME IInv, UNCHANGED <<store, pc, todo, batch, touched>>
    PROVE  IInv'
BY DEF IInv, Types, AtRest, BlobsFirst, NoneLeft, store, Purging, Deleting, Company, Entry

\* An upload writes only what it touches, for every purge at work.
LEMMA UploadKeeps ==
    ASSUME IInv, NEW o \in Objects, Touch(o),
           row' \in {row, row \cup {o}}, blob' \in {blob, blob \cup {o}},
           NEW u \in {"no", "overwrite", "overwritten", "create", "created", "doomed", "refused"},
           up' = [up EXCEPT ![o] = u],
           UNCHANGED <<pc, todo, batch>>
    PROVE  IInv'
<1>1. \A p \in Procs : (Purging(p))' <=> Purging(p) BY DEF Purging, Deleting
<1>2. \A p \in Procs : Company(p)' = Company(p) BY DEF Company, Entry
<1>3. \A p \in Procs : Purging(p) => touched'[p] = touched[p] \cup {o} BY DEF Touch
<1>4. touched' \in [Procs -> SUBSET Objects] BY DEF Touch, IInv, Types
<1>5. Types' BY <1>4 DEF IInv, Types
<1>6. AtRest' BY <1>1, <1>3 DEF IInv, Types, AtRest
<1>7. BlobsFirst' BY <1>1, <1>3 DEF IInv, Types, BlobsFirst
<1>8. NoneLeft' BY <1>1, <1>2, <1>3 DEF IInv, Types, NoneLeft, ObjectsOf
<1> QED BY <1>5, <1>6, <1>7, <1>8 DEF IInv

\* A worker that stops purging: the others keep what they know.
LEMMA LeaveStep ==
    ASSUME IInv, NEW p \in Procs, NEW l \in {"idle", "row"}, UNCHANGED store,
           pc' = [pc EXCEPT ![p] = l],
           NEW t, todo' = [todo EXCEPT ![p] = t],
           batch' \in {batch, [batch EXCEPT ![p] = {}]},
           touched' \in {touched, [touched EXCEPT ![p] = {}]}
    PROVE  IInv'
<1>1. \A q \in Procs : q # p => /\ pc'[q] = pc[q] /\ todo'[q] = todo[q] /\ batch'[q] = batch[q]
                                /\ touched'[q] = touched[q]
  BY DEF IInv, Types
<1>2. ~(Purging(p))' BY DEF IInv, Types, Purging, Deleting
<1>3. \A q \in Procs : q # p => (Purging(q)' <=> Purging(q)) /\ Company(q)' = Company(q)
  BY <1>1 DEF Purging, Deleting, Company, Entry
<1>4. Types' BY DEF IInv, Types, store
<1>5. AtRest' BY <1>1, <1>2, <1>3 DEF IInv, Types, AtRest, store
<1>6. BlobsFirst' BY <1>1, <1>2, <1>3, <1>4 DEF IInv, Types, BlobsFirst, store
<1>7. NoneLeft' BY <1>1, <1>2, <1>3, <1>4 DEF IInv, Types, NoneLeft, store, ObjectsOf
<1> QED BY <1>4, <1>5, <1>6, <1>7 DEF IInv

\* A purge begins: it counts as touched what an upload or another purge is at.
LEMMA StartPurgeStep ==
    ASSUME IInv, NEW p \in Procs, StartPurge(p)
    PROVE  IInv'
<1> DEFINE T == {o \in Objects :
                   up[o] # "no" \/ o \in blob \ row \/ \E q \in Procs : o \in touched[q]}
<1>1. /\ pc[p] = "row" /\ pc' = [pc EXCEPT ![p] = "read"]
      /\ touched' = [touched EXCEPT ![p] = T]
      /\ UNCHANGED <<row, blob, up, todo, batch>>
  BY DEF StartPurge, InTime, Goto, store
<1>2. /\ \A q \in Procs : touched[q] \subseteq T
      /\ T \subseteq Objects
      /\ \A o \in Objects \ T : up[o] = "no" /\ (o \in blob => o \in row)
  BY DEF IInv, Types
<1> HIDE DEF T
<1>3. \A q \in Procs : q # p => pc'[q] = pc[q] /\ touched'[q] = touched[q] BY <1>1 DEF IInv, Types
<1>4. pc'[p] = "read" /\ touched'[p] = T BY <1>1 DEF IInv, Types
<1>5. \A q \in Procs : q # p => (Purging(q)' <=> Purging(q)) /\ Company(q)' = Company(q)
  BY <1>1, <1>3 DEF Purging, Deleting, Company, Entry
<1>6. Types' BY <1>1, <1>2 DEF IInv, Types
<1>7. AtRest' BY <1>1, <1>2, <1>3, <1>4, <1>5 DEF IInv, AtRest
<1>8. BlobsFirst'
  <2>1. \A q \in Procs : pc[q] = "objects" => batch[q] \cap blob \subseteq touched[q]
    BY DEF IInv, BlobsFirst, Purging, Deleting
  <2> QED BY <1>1, <1>2, <1>3, <1>4, <1>5, <2>1 DEF IInv, BlobsFirst
<1>9. NoneLeft'
  <2>1. \A q \in Procs : pc[q] \in {"rows", "complete"} =>
            row \cap ObjectsOf(Company(q)) \subseteq touched[q]
    BY DEF IInv, NoneLeft, Purging, Deleting
  <2> QED BY <1>1, <1>2, <1>3, <1>4, <1>5, <2>1 DEF IInv, NoneLeft, ObjectsOf
<1> QED BY <1>6, <1>7, <1>8, <1>9 DEF IInv

\* A purge that goes on: the same workers purge the same companies.
LEMMA PurgingOn ==
    ASSUME Types, NEW p \in Procs, NEW l \in {"read", "blobs", "objects", "rows", "complete"},
           Purging(p), pc' = [pc EXCEPT ![p] = l], UNCHANGED todo
    PROVE  /\ pc' \in [Procs -> {"idle", "row", "read", "blobs", "objects", "rows", "complete"}]
           /\ pc'[p] = l /\ \A q \in Procs : q # p => pc'[q] = pc[q]
           /\ \A q \in Procs : (Purging(q)' <=> Purging(q)) /\ Company(q)' = Company(q)
BY DEF Types, Purging, Deleting, Company, Entry

\* A purge reads the next batch, or finds that there is none.
LEMMA ReadBatchStep ==
    ASSUME IInv, NEW p \in Procs, ReadBatch(p)
    PROVE  IInv'
<1> DEFINE left == row \cap ObjectsOf(Company(p))
<1>1. /\ pc[p] = "read"
      /\ UNCHANGED <<row, blob, up, todo, touched>>
  BY DEF ReadBatch, store, history
<1>2. PICK l \in {"blobs", "rows"}, b \in SUBSET Objects :
        /\ pc' = [pc EXCEPT ![p] = l]
        /\ l = "rows" => left = {}
        /\ batch' = [batch EXCEPT ![p] = b]
  <2>1. CASE left = {}
    <3>1. pc' = [pc EXCEPT ![p] = "rows"] /\ batch' = [batch EXCEPT ![p] = batch[p]]
      BY <2>1 DEF ReadBatch, Goto, IInv, Types
    <3> QED BY <3>1, <2>1 DEF IInv, Types
  <2>2. CASE left # {} BY <2>2 DEF ReadBatch, Goto, IInv, Types
  <2> QED BY <2>1, <2>2
<1> HIDE DEF left
<1>3. Purging(p) BY <1>1 DEF Purging, Deleting
<1>4. /\ pc' \in [Procs -> {"idle", "row", "read", "blobs", "objects", "rows", "complete"}]
      /\ pc'[p] = l /\ \A q \in Procs : q # p => pc'[q] = pc[q]
      /\ \A q \in Procs : (Purging(q)' <=> Purging(q)) /\ Company(q)' = Company(q)
  BY <1>1, <1>2, <1>3, PurgingOn DEF IInv
<1>5. Types' BY <1>1, <1>2, <1>4 DEF IInv, Types
<1>6. AtRest' BY <1>1, <1>4 DEF IInv, AtRest
<1>7. BlobsFirst' BY <1>1, <1>2, <1>4 DEF IInv, Types, BlobsFirst
<1>8. NoneLeft' BY <1>1, <1>2, <1>4 DEF IInv, NoneLeft, ObjectsOf, left
<1> QED BY <1>5, <1>6, <1>7, <1>8 DEF IInv

\* A purge deletes the blobs of its batch.
LEMMA DeleteBlobsStep ==
    ASSUME IInv, NEW p \in Procs, DeleteBlobs(p)
    PROVE  IInv'
<1>1. /\ pc[p] = "blobs" /\ pc' = [pc EXCEPT ![p] = "objects"]
      /\ blob' = blob \ batch[p]
      /\ UNCHANGED <<row, up, todo, batch, touched>>
  BY DEF DeleteBlobs, Goto, history
<1>2. Purging(p) BY <1>1 DEF Purging, Deleting
<1>3. /\ pc' \in [Procs -> {"idle", "row", "read", "blobs", "objects", "rows", "complete"}]
      /\ pc'[p] = "objects" /\ \A q \in Procs : q # p => pc'[q] = pc[q]
      /\ \A q \in Procs : (Purging(q)' <=> Purging(q)) /\ Company(q)' = Company(q)
  BY <1>1, <1>2, PurgingOn DEF IInv
<1>4. Types' BY <1>1, <1>3 DEF IInv, Types
<1>5. AtRest' BY <1>1, <1>3 DEF IInv, AtRest
<1>6. BlobsFirst' BY <1>1, <1>3 DEF IInv, BlobsFirst
<1>7. NoneLeft' BY <1>1, <1>3 DEF IInv, NoneLeft, ObjectsOf
<1> QED BY <1>4, <1>5, <1>6, <1>7 DEF IInv

\* A purge deletes the rows of its batch: their blobs are gone, or are touched.
LEMMA DeleteObjectsStep ==
    ASSUME IInv, NEW p \in Procs, DeleteObjects(p)
    PROVE  IInv'
<1>1. /\ pc[p] = "objects" /\ pc' = [pc EXCEPT ![p] = "read"]
      /\ row' = row \ batch[p]
      /\ batch' = [batch EXCEPT ![p] = {}]
      /\ UNCHANGED <<blob, up, todo, touched>>
  BY DEF DeleteObjects, Goto, history
<1>2. Purging(p) BY <1>1 DEF Purging, Deleting
<1>3. /\ pc' \in [Procs -> {"idle", "row", "read", "blobs", "objects", "rows", "complete"}]
      /\ pc'[p] = "read" /\ \A q \in Procs : q # p => pc'[q] = pc[q]
      /\ \A q \in Procs : (Purging(q)' <=> Purging(q)) /\ Company(q)' = Company(q)
  BY <1>1, <1>2, PurgingOn DEF IInv
<1>4. Types' BY <1>1, <1>3 DEF IInv, Types
<1>5. AtRest' BY <1>1, <1>3 DEF IInv, AtRest, BlobsFirst
<1>6. BlobsFirst' BY <1>1, <1>3 DEF IInv, Types, BlobsFirst
<1>7. NoneLeft' BY <1>1, <1>3 DEF IInv, NoneLeft, ObjectsOf
<1> QED BY <1>4, <1>5, <1>6, <1>7 DEF IInv

\* A purge deletes what is left of the company: only what is new has a row.
LEMMA DeleteRowsStep ==
    ASSUME IInv, NEW p \in Procs, DeleteRows(p)
    PROVE  IInv'
<1> DEFINE os == ObjectsOf(Company(p))
<1>1. /\ pc[p] = "rows" /\ pc' = [pc EXCEPT ![p] = "complete"]
      /\ row' = row \ os
      /\ UNCHANGED <<blob, todo, batch, touched>>
  BY DEF DeleteRows, Goto
<1>2. /\ up' \in [Objects ->
               {"no", "overwrite", "overwritten", "create", "created", "doomed", "refused"}]
      /\ \A o \in Objects : up[o] = "no" => up'[o] = "no"
  BY DEF DeleteRows, IInv, Types
<1>3. Purging(p) BY <1>1 DEF Purging, Deleting
<1>4. /\ pc' \in [Procs -> {"idle", "row", "read", "blobs", "objects", "rows", "complete"}]
      /\ pc'[p] = "complete" /\ \A q \in Procs : q # p => pc'[q] = pc[q]
      /\ \A q \in Procs : (Purging(q)' <=> Purging(q)) /\ Company(q)' = Company(q)
  BY <1>1, <1>3, PurgingOn DEF IInv
<1>5. Types' BY <1>1, <1>2, <1>4 DEF IInv, Types
<1>6. \A q \in Procs : Purging(q) => row \cap os \subseteq touched[q]
  BY <1>1 DEF IInv, NoneLeft
<1> HIDE DEF os
<1>7. AtRest' BY <1>1, <1>2, <1>4, <1>6 DEF IInv, AtRest
<1>8. BlobsFirst' BY <1>1, <1>4 DEF IInv, BlobsFirst
<1>9. NoneLeft' BY <1>1, <1>4 DEF IInv, NoneLeft, ObjectsOf, os
<1> QED BY <1>5, <1>7, <1>8, <1>9 DEF IInv

(***************************************************************************)
(* Theorems                                                                *)
(***************************************************************************)

\* Nothing is purged yet.
LEMMA InitInv == Init => IInv
BY DEF Init, IInv, Types, AtRest, BlobsFirst, NoneLeft, Purging, Deleting

\* Every step keeps the inductive invariant.
LEMMA NextInv == IInv /\ [Next]_vars => IInv'
<1> SUFFICES ASSUME IInv, [Next]_vars PROVE IInv' OBVIOUS
<1>1. CASE UNCHANGED vars BY <1>1, OtherStep DEF vars, worker, history
<1>2. ASSUME NEW c \in Companies, FlagCompany(c) \/ Reopen(c) PROVE IInv'
  BY <1>2, OtherStep DEF FlagCompany, Reopen, worker
<1>3. ASSUME NEW o \in Objects, StartUpload(o) PROVE IInv'
  <2>1. UNCHANGED <<row, blob, pc, todo, batch>> /\ Touch(o) BY <1>3 DEF StartUpload, worker
  <2>2. PICK u \in {"overwrite", "create"} : up' = [up EXCEPT ![o] = u] BY <1>3 DEF StartUpload
  <2> QED BY <2>1, <2>2, UploadKeeps
<1>4. ASSUME NEW o \in Objects, SaveBlob(o) PROVE IInv'
  <2>1. UNCHANGED <<row, pc, todo, batch>> /\ Touch(o) /\ blob' = blob \cup {o}
    BY <1>4 DEF SaveBlob, worker
  <2>2. PICK u \in {"overwritten", "created", "refused"} : up' = [up EXCEPT ![o] = u]
    BY <1>4 DEF SaveBlob
  <2> QED BY <2>1, <2>2, UploadKeeps
<1>5. ASSUME NEW o \in Objects, CommitUpload(o) PROVE IInv'
  <2>1. /\ UNCHANGED <<blob, pc, todo, batch>> /\ Touch(o)
        /\ row' \in {row, row \cup {o}}
        /\ up' = [up EXCEPT ![o] = "no"]
    BY <1>5 DEF CommitUpload, worker
  <2> QED BY <2>1, UploadKeeps
<1>6. ASSUME NEW p \in Procs, Begin(p) \/ Step(p) \/ PurgeFails(p) \/ Crash(p) PROVE IInv'
  <2>1. CASE Begin(p)
    <3>1. pc' = [pc EXCEPT ![p] = "row"] /\ UNCHANGED <<store, batch, touched>>
      BY <2>1 DEF Begin, Goto, history
    <3>2. PICK t : todo' = [todo EXCEPT ![p] = t] BY <2>1 DEF Begin
    <3> QED BY <3>1, <3>2, LeaveStep
  <2>2. CASE Release(p) \/ Complete(p) \/ PurgeFails(p)
    <3>1. NextRow(p) /\ UNCHANGED store BY <2>2 DEF Release, Complete, PurgeFails
    <3> QED BY <3>1, LeaveStep DEF NextRow, Goto
  <2>3. CASE Finish(p) \/ Crash(p)
    <3>1. Stop(p) /\ UNCHANGED store BY <2>3 DEF Finish, Crash
    <3> QED BY <3>1, LeaveStep DEF Stop, Goto
  <2>4. CASE StartPurge(p) BY <2>4, StartPurgeStep
  <2>5. CASE ReadBatch(p) BY <2>5, ReadBatchStep
  <2>6. CASE DeleteBlobs(p) BY <2>6, DeleteBlobsStep
  <2>7. CASE DeleteObjects(p) BY <2>7, DeleteObjectsStep
  <2>8. CASE DeleteRows(p) BY <2>8, DeleteRowsStep
  <2> QED BY <1>6, <2>1, <2>2, <2>3, <2>4, <2>5, <2>6, <2>7, <2>8 DEF Step
<1>7. CASE Expire \/ Tick BY <1>7, OtherStep DEF Expire, Tick, worker, history
<1> QED BY <1>1, <1>2, <1>3, <1>4, <1>5, <1>6, <1>7 DEF Next, UploadStep

\* However many runs overlap, fail or die and whatever is uploaded meanwhile, a
\* purge that comes to its end has left neither row nor blob of its company but
\* what was written since it began.
THEOREM PurgeComplete == Spec => []PurgedClean
<1>1. IInv => PurgedClean
  BY DEF IInv, AtRest, NoneLeft, PurgedClean, Purging, Deleting, ObjectsOf
<1>2. Spec => []IInv BY InitInv, NextInv, PTL DEF Spec
<1> QED BY <1>1, <1>2, PTL

=============================================================================
