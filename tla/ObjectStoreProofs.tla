-------------------------- MODULE ObjectStoreProofs --------------------------
(***************************************************************************)
(* Proofs about ObjectStore for any number of requests, users, paths,      *)
(* objects and contents: types, no lost overwrite, one object per path,    *)
(* blobs that match their rows, and the refinement of PathStore.           *)
(***************************************************************************)
EXTENDS ObjectStore, TLAPS

(***************************************************************************)
(* The inductive invariant                                                 *)
(***************************************************************************)

\* What the local variables hold at each label.
UploadShape(p) ==
    /\ req[p] \in UploadRequest
    /\ pc[p] \in {"lock", "check", "blob", "row", "quota", "commit"}
    /\ pc[p] # "lock" => obj[p] \in Ids
    /\ todo[p] = <<>>

CopyShape(p) ==
    /\ req[p] \in CopyRequest
    /\ pc[p] \in {"check", "open", "blob", "row", "quota", "commit"}
    /\ obj[p] \in Ids
    /\ pc[p] \notin {"check", "open"} => data[p] \in Contents
    /\ todo[p] = <<>>

MoveShape(p) ==
    /\ req[p] \in MoveRequest
    /\ pc[p] \in {"lock", "row", "commit"}
    /\ obj[p] \in Ids
    /\ todo[p] = <<>>

DeleteShape(p) ==
    /\ req[p] \in DeleteRequest
    /\ pc[p] \in {"drow", "dblob", "quota", "commit"}
    /\ pc[p] # "commit" => todo[p] # <<>>

AdminShape(p) == req[p] \in AdminRequest /\ pc[p] = "save"

Shape(p) ==
    \/ pc[p] = "idle" /\ todo[p] = <<>>
    \/ UploadShape(p)
    \/ CopyShape(p)
    \/ MoveShape(p)
    \/ DeleteShape(p)
    \/ AdminShape(p)

Shapes == \A p \in Procs : Shape(p)

\* The holder of the quota row's lock has working copies of the counters.
QuotaHeld == \A p \in Procs : quotaLock = p => charge[p] # None

TypeInv == TypeOK /\ Shapes /\ QuotaHeld

\* The object a request writes or will write: it has locked the row, or drawn
\* the UUID.
Owns(p, i) ==
    /\ obj[p] = i
    /\ \/ pc[p] \in {"check", "blob", "row", "quota", "commit"} /\ req[p].op = "upload"
       \/ pc[p] \in {"blob", "row", "quota", "commit"} /\ req[p].op = "copy"
       \/ pc[p] \in {"row", "commit"} /\ req[p].op = "move"

\* The request has written the row image that Commit will publish.
Written(p) ==
    pc[p] \in {"quota", "commit"} /\ req[p].op \in {"upload", "copy", "move"}

\* An owned row that exists is locked by its owner, and a move owns one that
\* exists; a row a copy owns does not exist yet.
OwnerLocks(p, i) ==
    /\ rows[i] # None => rowLock[i] = p
    /\ req[p].op = "move" => rows[i] # None
    /\ req[p].op = "copy" => rows[i] = None

OwnersLock == \A p \in Procs, i \in Ids : Owns(p, i) => OwnerLocks(p, i)

\* No two requests own one object.
OwnersDiffer ==
    \A p, q \in Procs, i \in Ids : Owns(p, i) /\ Owns(q, i) => p = q

\* A UUID that has not been drawn belongs to no row and no request.
FreshUnused ==
    \A i \in fresh : rows[i] = None /\ \A p \in Procs : ~Owns(p, i)

\* A row written in a transaction is locked by it; a written image is the one
\* of the owned object, and a delete writes only rows that exist.
WriterLocks(p, i) ==
    /\ rowLock[i] = p
    /\ wr[p][i] # None => Owns(p, i) /\ Written(p)
    /\ wr[p][i] = None => rows[i] # None /\ pc[p] # "idle" /\ Deleting(p)

WritesLocked == \A p \in Procs, i \in Ids : wr[p][i] # Same => WriterLocks(p, i)

OwnersWrite == \A p \in Procs : Written(p) => wr[p][obj[p]] = NewRow(p)

LockInv == OwnersLock /\ OwnersDiffer /\ FreshUnused /\ WritesLocked /\ OwnersWrite

\* An object that never existed was never overwritten.
NewObjectsUnwritten ==
    \A i \in Ids : \/ i \in fresh
                   \/ \E p \in Procs : Owns(p, i) /\ rows[i] = None
                   => writes[i] = 0

VersionInv == NoLostOverwrite /\ NewObjectsUnwritten

\* Transaction p will give object i the row wr[p][i].
Image(p, i) == wr[p][i] \notin {None, Same}

\* The path of a written image is no other row's and no other request's.
ImagesApart ==
    \A p \in Procs, i \in Ids : Image(p, i) =>
        /\ \A j \in Live : rows[j].name = wr[p][i].name => j = i
        /\ \A q \in Procs, j \in Ids :
              Image(q, j) /\ wr[q][j].name = wr[p][i].name => q = p /\ j = i

PathInv == OneObjectPerPath /\ ImagesApart

(***************************************************************************)
(* Types                                                                   *)
(***************************************************************************)

LEMMA LookupType ==
    ASSUME NEW n \in Names, At(n) # {}
    PROVE  Lookup(n) \in Ids /\ rows[Lookup(n)] # None /\ rows[Lookup(n)].name = n
  BY DEF Lookup, At

LEMMA InitType == Init => TypeInv
  <1> SUFFICES ASSUME Init PROVE TypeInv
    OBVIOUS
  <1>1. TypeOK
    <2>1. stale \in [Procs -> BOOLEAN] /\ drift \in BOOLEAN
      BY Zenon DEF Init
    <2>2. todo \in [Procs -> Seq(Instance)]
      BY DEF Init
    <2>3. quota \in [max : Nat, perUser : Nat, used : Nat]
      BY ObjectStoreAssumption DEF Init
    <2>4. QED
      BY <2>1, <2>2, <2>3 DEF Init, TypeOK, Labels, NoWrites
  <1>2. Shapes
    BY DEF Init, Shapes, Shape
  <1>3. QuotaHeld
    BY ObjectStoreAssumption DEF Init, QuotaHeld
  <1>4. QED
    BY <1>1, <1>2, <1>3 DEF TypeInv

LEMMA EndType ==
    ASSUME TypeInv, NEW p \in Procs
    PROVE  /\ ReleaseLocks(p) =>
                /\ rowLock' \in [Ids -> Procs \cup {None}]
                /\ quotaLock' \in Procs \cup {None}
                /\ quotaLock' # p
                /\ quotaLock' # None => quotaLock' = quotaLock
           /\ EndTransaction(p) =>
                /\ wr' \in [Procs -> [Ids -> StorageObject \cup {None, Same}]]
                /\ seenCap' \in [Procs -> Nat \cup {None}]
                /\ charge' \in [Procs -> Charge \cup {None}]
                /\ touched' \in [Procs -> SUBSET Ids]
                /\ stale' \in [Procs -> BOOLEAN]
                /\ skewed' \in [Procs -> SUBSET Users]
                /\ QuotaHeld'
           /\ EndRequest(p) =>
                /\ pc' \in [Procs -> Labels]
                /\ req' \in [Procs -> Request \cup {None}]
                /\ obj' \in [Procs -> Ids \cup {None}]
                /\ data' \in [Procs -> Contents \cup {None}]
                /\ todo' \in [Procs -> Seq(Instance)]
                /\ Shapes'
  <1>1. ReleaseLocks(p) => /\ rowLock' \in [Ids -> Procs \cup {None}]
                           /\ quotaLock' \in Procs \cup {None}
                           /\ quotaLock' # p
                           /\ quotaLock' # None => quotaLock' = quotaLock
    BY ObjectStoreAssumption DEF TypeInv, TypeOK, ReleaseLocks
  <1>2. EndTransaction(p) =>
                /\ wr' \in [Procs -> [Ids -> StorageObject \cup {None, Same}]]
                /\ seenCap' \in [Procs -> Nat \cup {None}]
                /\ charge' \in [Procs -> Charge \cup {None}]
                /\ touched' \in [Procs -> SUBSET Ids]
                /\ stale' \in [Procs -> BOOLEAN]
                /\ skewed' \in [Procs -> SUBSET Users]
    BY DEF TypeInv, TypeOK, EndTransaction, NoWrites
  <1>3. EndTransaction(p) => QuotaHeld'
    BY <1>1, ObjectStoreAssumption DEF TypeInv, TypeOK, EndTransaction, QuotaHeld
  <1>4. EndRequest(p) =>
                /\ pc' \in [Procs -> Labels]
                /\ req' \in [Procs -> Request \cup {None}]
                /\ obj' \in [Procs -> Ids \cup {None}]
                /\ data' \in [Procs -> Contents \cup {None}]
                /\ todo' \in [Procs -> Seq(Instance)]
    BY DEF TypeInv, TypeOK, EndRequest, Labels
  <1>5. EndRequest(p) => Shapes'
    <2> SUFFICES ASSUME EndRequest(p), NEW q \in Procs
                 PROVE  Shape(q)'
      BY DEF Shapes
    <2>1. CASE q = p
      BY <2>1 DEF EndRequest, Shape, TypeInv, TypeOK
    <2>2. CASE q # p
      BY <2>2 DEF EndRequest, Shape, Shapes, TypeInv, TypeOK, UploadShape,
                  CopyShape, MoveShape, DeleteShape, AdminShape
    <2>3. QED
      BY <2>1, <2>2
  <1>6. QED
    BY <1>1, <1>2, <1>3, <1>4, <1>5

LEMMA RollbackType ==
    ASSUME TypeInv, NEW p \in Procs, Rollback(p), fresh' \subseteq Ids, faults' \in Nat
    PROVE  TypeInv'
  <1>1. TypeOK'
    BY EndType DEF Rollback, TypeInv, TypeOK, db, store, EndTransaction
  <1>2. QED
    BY <1>1, EndType DEF Rollback, TypeInv

LEMMA RefuseType ==
    ASSUME TypeInv, NEW p \in Procs, Refuse(p), fresh' \subseteq Ids,
           UNCHANGED <<db, store, tx, faults, history>>
    PROVE  TypeInv'
  <1>1. TypeOK'
    BY EndType DEF Refuse, TypeInv, TypeOK, db, store, tx, history
  <1>2. Shapes'
    BY EndType DEF Refuse
  <1>3. QuotaHeld'
    BY EndType, ObjectStoreAssumption DEF Refuse, QuotaHeld, TypeInv, tx
  <1>4. QED
    BY <1>1, <1>2, <1>3 DEF TypeInv

\* The shape of every other request is untouched by a step of p.
LEMMA ShapesOf ==
    ASSUME TypeInv, NEW p \in Procs, Shape(p)',
           \A q \in Procs \ {p} : /\ pc'[q] = pc[q] /\ req'[q] = req[q]
                                  /\ obj'[q] = obj[q] /\ data'[q] = data[q]
                                  /\ todo'[q] = todo[q]
    PROVE  Shapes'
  <1> SUFFICES ASSUME NEW q \in Procs PROVE Shape(q)'
    BY DEF Shapes
  <1>1. CASE q = p
    BY <1>1
  <1>2. CASE q # p
    BY <1>2 DEF Shape, Shapes, TypeInv, UploadShape, CopyShape, MoveShape,
                DeleteShape, AdminShape
  <1>3. QED
    BY <1>1, <1>2


\* A step that changes only the label and object of one request and the locks.
LEMMA GotoType ==
    ASSUME TypeInv, NEW p \in Procs, NEW l \in Labels, Goto(p, l), Shape(p)',
           obj' \in [Procs -> Ids \cup {None}],
           \A q \in Procs \ {p} : obj'[q] = obj[q]
    PROVE  /\ pc' \in [Procs -> Labels]
           /\ req' \in [Procs -> Request \cup {None}]
           /\ data' \in [Procs -> Contents \cup {None}]
           /\ todo' \in [Procs -> Seq(Instance)]
           /\ Shapes'
  <1>1. /\ pc' \in [Procs -> Labels]
        /\ req' \in [Procs -> Request \cup {None}]
        /\ data' \in [Procs -> Contents \cup {None}]
        /\ todo' \in [Procs -> Seq(Instance)]
    BY DEF Goto, TypeInv, TypeOK
  <1>2. \A q \in Procs \ {p} : /\ pc'[q] = pc[q] /\ req'[q] = req[q]
                               /\ data'[q] = data[q] /\ todo'[q] = todo[q]
    BY DEF Goto, TypeInv, TypeOK
  <1>3. Shapes'
    BY <1>2, ShapesOf
  <1>4. QED
    BY <1>1, <1>3

LEMMA BeginType ==
    ASSUME TypeInv, NEW p \in Procs, NEW l \in Labels, NEW r \in Request,
           Begin(p, l, r), Shape(p)',
           obj' \in [Procs -> Ids \cup {None}], todo' \in [Procs -> Seq(Instance)],
           \A q \in Procs \ {p} : obj'[q] = obj[q] /\ todo'[q] = todo[q]
    PROVE  TypeInv'
  <1>1. TypeOK'
    BY DEF Begin, TypeInv, TypeOK, db, store, locks, tx, history
  <1>2. \A q \in Procs \ {p} : /\ pc'[q] = pc[q] /\ req'[q] = req[q]
                               /\ data'[q] = data[q]
    BY DEF Begin, TypeInv, TypeOK
  <1>3. Shapes'
    BY <1>2, ShapesOf
  <1>4. QuotaHeld'
    BY DEF Begin, TypeInv, QuotaHeld, locks, tx
  <1>5. QED
    BY <1>1, <1>3, <1>4 DEF TypeInv

\* Where every variable is, by name, for the leaves that need a few of them.
LEMMA Typing ==
    ASSUME TypeInv, NEW p \in Procs
    PROVE  /\ rows \in [Ids -> StorageObject \cup {None}]
           /\ pc \in [Procs -> Labels] /\ obj \in [Procs -> Ids \cup {None}]
           /\ req \in [Procs -> Request \cup {None}]
           /\ todo \in [Procs -> Seq(Instance)]
           /\ fresh \subseteq Ids
           /\ quota.used \in Nat
           /\ Shape(p)
  BY DEF TypeInv, TypeOK, Shapes

LEMMA StartType ==
    ASSUME TypeInv, NEW p \in Procs, Start(p)
    PROVE  TypeInv'
  <1>0. /\ rows \in [Ids -> StorageObject \cup {None}]
        /\ pc \in [Procs -> Labels] /\ obj \in [Procs -> Ids \cup {None}]
        /\ req \in [Procs -> Request \cup {None}]
        /\ todo \in [Procs -> Seq(Instance)]
        /\ quota.used \in Nat
        /\ Shape(p)
    BY Typing
  <1>1. CASE StartUpload(p)
    <2>1. PICK u \in Users, n \in Names, c \in Contents, ups \in BOOLEAN :
            /\ Begin(p, "lock", [op |-> "upload", user |-> u, name |-> n, etag |-> c,
                                 upsert |-> ups])
            /\ obj' = [obj EXCEPT ![p] = Lookup(n)]
            /\ UNCHANGED todo
      BY <1>1 DEF StartUpload
    <2> DEFINE r == [op |-> "upload", user |-> u, name |-> n, etag |-> c, upsert |-> ups]
    <2>2. r \in UploadRequest
      BY DEF UploadRequest
    <2>3. Lookup(n) \in Ids \cup {None}
      BY DEF Lookup, At
    <2> HIDE DEF r
    <2>4. Shape(p)'
      BY <1>0, <2>1, <2>2 DEF Begin, Shape, UploadShape, CopyShape, MoveShape,
                              DeleteShape, AdminShape, r
    <2>5. QED
      BY <1>0, <2>1, <2>2, <2>3, <2>4, BeginType DEF Labels, Request, r
  <1>2. CASE StartCopy(p)
    <2>1. PICK u \in Users, m \in Names, n \in Names :
            /\ At(m) # {}
            /\ Begin(p, "check", [op |-> "copy", user |-> u, name |-> n,
                                  etag |-> rows[Lookup(m)].etag])
            /\ obj' = [obj EXCEPT ![p] = Lookup(m)]
            /\ UNCHANGED todo
      BY <1>2 DEF StartCopy
    <2> DEFINE r == [op |-> "copy", user |-> u, name |-> n, etag |-> rows[Lookup(m)].etag]
    <2>2. Lookup(m) \in Ids /\ rows[Lookup(m)].etag \in Contents
      BY <1>0, <2>1, LookupType DEF StorageObject
    <2>3. r \in CopyRequest
      BY <2>2 DEF CopyRequest
    <2> HIDE DEF r
    <2>4. Shape(p)'
      BY <1>0, <2>1, <2>2, <2>3 DEF Begin, Shape, UploadShape, CopyShape, MoveShape,
                                    DeleteShape, AdminShape, r
    <2>5. QED
      BY <1>0, <2>1, <2>2, <2>3, <2>4, BeginType DEF Labels, Request, r
  <1>3. CASE StartMove(p)
    <2>1. PICK m \in Names, n \in Names :
            /\ At(m) # {}
            /\ Begin(p, "lock", [op |-> "move", src |-> m, name |-> n])
            /\ obj' = [obj EXCEPT ![p] = Lookup(m)]
            /\ UNCHANGED todo
      BY <1>3 DEF StartMove
    <2> DEFINE r == [op |-> "move", src |-> m, name |-> n]
    <2>2. Lookup(m) \in Ids
      BY <1>0, <2>1, LookupType
    <2>3. r \in MoveRequest
      BY DEF MoveRequest
    <2> HIDE DEF r
    <2>4. Shape(p)'
      BY <1>0, <2>1, <2>2, <2>3 DEF Begin, Shape, UploadShape, CopyShape, MoveShape,
                                    DeleteShape, AdminShape, r
    <2>5. QED
      BY <1>0, <2>1, <2>2, <2>3, <2>4, BeginType DEF Labels, Request, r
  <1>4. ASSUME NEW op \in {"delete", "dav_delete"}, StartDelete(p, op)
        PROVE  TypeInv'
    <2>1. PICK paths \in PathLists :
            /\ \A k \in DOMAIN paths : At(paths[k]) # {}
            /\ Begin(p, "drow", [op |-> op])
            /\ todo' = [todo EXCEPT ![p] =
                            [k \in DOMAIN paths |-> InstanceOf(Lookup(paths[k]))]]
            /\ UNCHANGED obj
      BY <1>4 DEF StartDelete
    <2>2. PICK k \in 1..MaxPaths : paths \in [1..k -> Names]
      BY DEF PathLists
    <2> DEFINE list == [j \in DOMAIN paths |-> InstanceOf(Lookup(paths[j]))]
               r == [op |-> op]
    <2>3. \A j \in 1..k : InstanceOf(Lookup(paths[j])) \in Instance
      BY <1>0, <2>1, <2>2, LookupType DEF InstanceOf, Instance, StorageObject
    <2>4. list \in Seq(Instance) /\ list # <<>>
      <3>1. list = [j \in 1..k |-> InstanceOf(Lookup(paths[j]))]
        BY <2>2
      <3>2. k \in Nat /\ k >= 1
        BY ObjectStoreAssumption
      <3>3. list \in [1..k -> Instance]
        BY <2>3, <3>1
      <3> HIDE DEF list
      <3>4. list \in Seq(Instance) /\ Len(list) = k
        BY <3>2, <3>3
      <3>5. QED
        BY <3>2, <3>4
    <2>5. r \in DeleteRequest
      BY DEF DeleteRequest
    <2> HIDE DEF r, list
    <2>6. Shape(p)'
      BY <1>0, <2>1, <2>4, <2>5 DEF Begin, Shape, UploadShape, CopyShape, MoveShape,
                                    DeleteShape, AdminShape, r, list
    <2>7. QED
      BY <1>0, <2>1, <2>4, <2>5, <2>6, BeginType DEF Labels, Request, r, list
  <1>5. CASE StartQuotaPut(p)
    <2>1. PICK c \in Caps :
            /\ Begin(p, "save", [op |-> "admin", seen |-> quota.used, cap |-> c])
            /\ UNCHANGED <<obj, todo>>
      BY <1>5 DEF StartQuotaPut
    <2> DEFINE r == [op |-> "admin", seen |-> quota.used, cap |-> c]
    <2>2. r \in AdminRequest
      BY <1>0, ObjectStoreAssumption DEF AdminRequest
    <2> HIDE DEF r
    <2>3. Shape(p)'
      BY <1>0, <2>1, <2>2 DEF Begin, Shape, UploadShape, CopyShape, MoveShape,
                              DeleteShape, AdminShape, r
    <2>4. QED
      BY <1>0, <2>1, <2>2, <2>3, BeginType DEF Labels, Request, r
  <1>6. QED
    BY <1>1, <1>2, <1>3, <1>4, <1>5 DEF Start


\* The operation of a request is known from its record.
LEMMA OpOf ==
    /\ \A r \in UploadRequest : r.op = "upload" /\ r.name \in Names /\ r.etag \in Contents
                                /\ r.user \in Users /\ r.upsert \in BOOLEAN
    /\ \A r \in CopyRequest : r.op = "copy" /\ r.name \in Names /\ r.etag \in Contents
                              /\ r.user \in Users
    /\ \A r \in MoveRequest : r.op = "move" /\ r.name \in Names /\ r.src \in Names
    /\ \A r \in DeleteRequest : r.op \in {"delete", "dav_delete"}
    /\ \A r \in AdminRequest : /\ r.op = "admin" /\ r.seen \in Nat
                               /\ r.cap.max \in Nat /\ r.cap.perUser \in Nat
  BY DEF UploadRequest, CopyRequest, MoveRequest, DeleteRequest, AdminRequest

\* A step that leaves the database, the blobs and the history alone.
LEMMA ShapeStepType ==
    ASSUME TypeInv, NEW p \in Procs, NEW l \in Labels, Goto(p, l), Shape(p)',
           obj' \in [Procs -> Ids \cup {None}],
           \A q \in Procs \ {p} : obj'[q] = obj[q],
           rowLock' \in [Ids -> Procs \cup {None}], UNCHANGED quotaLock,
           fresh' \subseteq Ids,
           UNCHANGED <<db, store, tx, faults, history>>
    PROVE  TypeInv'
  <1>1. Shapes'
    BY GotoType
  <1>2. TypeOK'
    BY GotoType DEF TypeInv, TypeOK, db, store, tx, history
  <1>3. QuotaHeld'
    BY DEF TypeInv, QuotaHeld, tx
  <1>4. QED
    BY <1>1, <1>2, <1>3 DEF TypeInv

LEMMA LockType ==
    ASSUME TypeInv, NEW p \in Procs, LockUpload(p) \/ LockMove(p)
    PROVE  TypeInv'
  <1>0. /\ pc \in [Procs -> Labels] /\ obj \in [Procs -> Ids \cup {None}]
        /\ req \in [Procs -> Request \cup {None}] /\ fresh \subseteq Ids
        /\ rowLock \in [Ids -> Procs \cup {None}]
        /\ todo \in [Procs -> Seq(Instance)]
        /\ Shape(p)
    BY Typing DEF TypeInv, TypeOK
  <1>1. CASE LockUpload(p)
    <2>0. UploadShape(p)
      BY <1>0, <1>1, OpOf DEF LockUpload, Shape, CopyShape, MoveShape, DeleteShape,
                              AdminShape
    <2>1. CASE Refuse(p) /\ UNCHANGED fresh
      BY <1>0, <1>1, <2>1, RefuseType DEF LockUpload
    <2>2. CASE /\ Locked(p, req[p].name)
               /\ rowLock' = [rowLock EXCEPT ![obj[p]] = p]
               /\ Goto(p, "check")
               /\ UNCHANGED <<obj, quotaLock, fresh>>
      <3>1. obj[p] \in Ids
        BY <1>0, <2>2 DEF Locked
      <3>2. Shape(p)'
        BY <1>0, <2>0, <2>2, <3>1 DEF Goto, Shape, UploadShape
      <3>3. "check" \in Labels
        BY DEF Labels
      <3>4. QED
        BY <1>0, <1>1, <2>2, <3>1, <3>2, <3>3, ShapeStepType DEF LockUpload
    <2>3. CASE /\ \E i \in fresh : /\ fresh' = fresh \ {i}
                                   /\ obj' = [obj EXCEPT ![p] = i]
               /\ Goto(p, "check")
               /\ UNCHANGED locks
      <3>1. PICK i \in fresh : fresh' = fresh \ {i} /\ obj' = [obj EXCEPT ![p] = i]
        BY <2>3
      <3>2. Shape(p)'
        BY <1>0, <2>0, <2>3, <3>1 DEF Goto, Shape, UploadShape
      <3>3. "check" \in Labels
        BY DEF Labels
      <3>4. QED
        BY <1>0, <1>1, <2>3, <3>1, <3>2, <3>3, ShapeStepType DEF LockUpload, locks
    <2>4. QED
      BY <1>1, <2>1, <2>2, <2>3 DEF LockUpload
  <1>2. CASE LockMove(p)
    <2>0. MoveShape(p)
      BY <1>0, <1>2, OpOf DEF LockMove, Shape, CopyShape, UploadShape, DeleteShape,
                              AdminShape
    <2>1. CASE Refuse(p)
      BY <1>0, <1>2, <2>1, RefuseType DEF LockMove
    <2>2. CASE /\ rowLock' = [rowLock EXCEPT ![obj[p]] = p]
               /\ Goto(p, "row")
               /\ UNCHANGED <<obj, quotaLock>>
      <3>1. obj[p] \in Ids
        BY <2>0 DEF MoveShape
      <3>2. Shape(p)'
        BY <1>0, <2>0, <2>2, <3>1 DEF Goto, Shape, MoveShape
      <3>3. "row" \in Labels
        BY DEF Labels
      <3>4. QED
        BY <1>0, <1>2, <2>2, <3>1, <3>2, <3>3, ShapeStepType DEF LockMove
    <2>3. QED
      BY <1>2, <2>1, <2>2 DEF LockMove
  <1>3. QED
    BY <1>1, <1>2

LEMMA CheckOpenType ==
    ASSUME TypeInv, NEW p \in Procs, CheckQuota(p) \/ OpenSource(p)
    PROVE  TypeInv'
  <1>0. /\ pc \in [Procs -> Labels] /\ obj \in [Procs -> Ids \cup {None}]
        /\ req \in [Procs -> Request \cup {None}] /\ fresh \subseteq Ids
        /\ rowLock \in [Ids -> Procs \cup {None}]
        /\ blobs \in [Ids -> Contents \cup {None}]
        /\ data \in [Procs -> Contents \cup {None}]
        /\ Shape(p)
    BY Typing DEF TypeInv, TypeOK
  <1>1. CASE CheckQuota(p)
    <2>1. CASE Refuse(p)
      BY <1>0, <1>1, <2>1, RefuseType DEF CheckQuota
    <2>2. CASE /\ Goto(p, IF req[p].op = "copy" THEN "open" ELSE "blob")
               /\ UNCHANGED <<obj, locks>>
      <3> DEFINE l == IF req[p].op = "copy" THEN "open" ELSE "blob"
      <3>1. l \in Labels
        BY DEF Labels
      <3>2. UploadShape(p) \/ CopyShape(p)
        BY <1>0, <1>1 DEF CheckQuota, Shape, MoveShape, DeleteShape, AdminShape
      <3>3. Shape(p)'
        BY <1>0, <1>1, <2>2, <3>2, OpOf DEF CheckQuota, Goto, Shape, UploadShape, CopyShape
      <3>4. QED
        BY <1>0, <1>1, <2>2, <3>1, <3>3, ShapeStepType DEF CheckQuota, locks
    <2>3. QED
      BY <1>1, <2>1, <2>2 DEF CheckQuota
  <1>2. CASE OpenSource(p)
    <2>1. CASE Refuse(p) /\ UNCHANGED fresh
      BY <1>0, <1>2, <2>1, RefuseType DEF OpenSource
    <2>2. CASE /\ blobs[obj[p]] # None
               /\ \E i \in fresh : /\ fresh' = fresh \ {i}
                                   /\ obj' = [obj EXCEPT ![p] = i]
               /\ data' = [data EXCEPT ![p] = blobs[obj[p]]]
               /\ pc' = [pc EXCEPT ![p] = "blob"]
               /\ UNCHANGED <<locks, req, todo>>
      <3>1. PICK i \in fresh : fresh' = fresh \ {i} /\ obj' = [obj EXCEPT ![p] = i]
        BY <2>2
      <3>2. CopyShape(p)
        BY <1>0, <1>2 DEF OpenSource, Shape, UploadShape, MoveShape, DeleteShape, AdminShape
      <3>3. blobs[obj[p]] \in Contents
        BY <1>0, <2>2, <3>2 DEF CopyShape
      <3>4. Shape(p)'
        BY <1>0, <2>2, <3>1, <3>2, <3>3 DEF Shape, CopyShape
      <3>5. \A q \in Procs \ {p} : /\ pc'[q] = pc[q] /\ req'[q] = req[q]
                                   /\ obj'[q] = obj[q] /\ data'[q] = data[q]
                                   /\ todo'[q] = todo[q]
        BY <1>0, <2>2, <3>1
      <3>6. Shapes'
        BY <3>4, <3>5, ShapesOf
      <3>7. TypeOK'
        BY <1>0, <1>2, <2>2, <3>1, <3>3 DEF OpenSource, TypeInv, TypeOK, Labels, db,
                                            store, locks, tx, history
      <3>8. QuotaHeld'
        BY <1>2, <2>2 DEF OpenSource, TypeInv, QuotaHeld, locks, tx
      <3>9. QED
        BY <3>6, <3>7, <3>8 DEF TypeInv
    <2>3. QED
      BY <1>2, <2>1, <2>2 DEF OpenSource
  <1>3. QED
    BY <1>1, <1>2


\* Writing a blob, or removing one, changes the blob store, the label and the
\* history of the transaction only.
LEMMA BlobStepType ==
    ASSUME TypeInv, NEW p \in Procs, SaveBlob(p) \/ delete_storage_key(p)
    PROVE  TypeInv'
  <1>0. /\ pc \in [Procs -> Labels] /\ obj \in [Procs -> Ids \cup {None}]
        /\ todo \in [Procs -> Seq(Instance)]
        /\ blobs \in [Ids -> Contents \cup {None}]
        /\ strays \subseteq Contents
        /\ touched \in [Procs -> SUBSET Ids]
        /\ Shape(p)
    BY Typing DEF TypeInv, TypeOK
  <1>1. CASE SaveBlob(p)
    <2> DEFINE i == obj[p]
               bytes == IF req[p].op = "copy" THEN data[p] ELSE req[p].etag
    <2>1. UploadShape(p) \/ CopyShape(p)
      BY <1>0, <1>1 DEF SaveBlob, Shape, MoveShape, DeleteShape, AdminShape
    <2>2. i \in Ids /\ bytes \in Contents
      BY <1>0, <1>1, <2>1, OpOf DEF SaveBlob, UploadShape, CopyShape
    <2>3. /\ blobs' \in [Ids -> Contents \cup {None}]
          /\ strays' \subseteq Contents
          /\ touched' \in [Procs -> SUBSET Ids]
      BY <1>0, <1>1, <2>2 DEF SaveBlob
    <2>4. Goto(p, "row") /\ UNCHANGED obj /\ "row" \in Labels
      BY <1>1 DEF SaveBlob, Labels
    <2>5. Shape(p)'
      BY <1>0, <1>1, <2>1, <2>4 DEF SaveBlob, Goto, Shape, UploadShape, CopyShape
    <2>6. Shapes' /\ pc' \in [Procs -> Labels] /\ req' \in [Procs -> Request \cup {None}]
          /\ data' \in [Procs -> Contents \cup {None}] /\ todo' \in [Procs -> Seq(Instance)]
      BY <1>0, <2>4, <2>5, GotoType
    <2>7. TypeOK'
      BY <1>1, <2>3, <2>4, <2>6 DEF SaveBlob, TypeInv, TypeOK, db, locks, history
    <2>8. QuotaHeld'
      BY <1>1 DEF SaveBlob, TypeInv, QuotaHeld, locks
    <2>9. QED
      BY <2>6, <2>7, <2>8 DEF TypeInv
  <1>2. CASE delete_storage_key(p)
    <2>1. DeleteShape(p) /\ Head(todo[p]).id \in Ids
      <3>1. DeleteShape(p)
        BY <1>0, <1>2 DEF delete_storage_key, Shape, UploadShape, CopyShape, MoveShape,
                          AdminShape
      <3>2. Head(todo[p]) \in Instance
        BY <1>0, <1>2, <3>1 DEF delete_storage_key, DeleteShape
      <3>3. QED
        BY <3>1, <3>2 DEF Instance
    <2>2. /\ blobs' \in [Ids -> Contents \cup {None}]
          /\ touched' \in [Procs -> SUBSET Ids]
      BY <1>0, <1>2, <2>1 DEF delete_storage_key
    <2>3. Goto(p, "quota") /\ UNCHANGED obj /\ "quota" \in Labels
      BY <1>2 DEF delete_storage_key, Labels
    <2>4. Shape(p)'
      BY <1>0, <1>2, <2>1, <2>3 DEF delete_storage_key, Goto, Shape, DeleteShape
    <2>5. Shapes' /\ pc' \in [Procs -> Labels] /\ req' \in [Procs -> Request \cup {None}]
          /\ data' \in [Procs -> Contents \cup {None}] /\ todo' \in [Procs -> Seq(Instance)]
      BY <1>0, <2>3, <2>4, GotoType
    <2>6. TypeOK'
      BY <1>2, <2>2, <2>3, <2>5 DEF delete_storage_key, TypeInv, TypeOK, db, locks, history
    <2>7. QuotaHeld'
      BY <1>2 DEF delete_storage_key, TypeInv, QuotaHeld, locks
    <2>8. QED
      BY <2>5, <2>6, <2>7 DEF TypeInv
  <1>3. QED
    BY <1>1, <1>2

\* The row a request writes is a row.
LEMMA NewRowType ==
    ASSUME TypeInv, NEW p \in Procs, UploadShape(p) \/ CopyShape(p) \/ MoveShape(p),
           obj[p] \in Ids, req[p].op = "move" => rows[obj[p]] # None
    PROVE  NewRow(p) \in StorageObject
  <1>1. rows[obj[p]] \in StorageObject \cup {None}
    BY DEF TypeInv, TypeOK
  <1>2. CASE req[p].op = "move"
    <2>1. MoveShape(p)
      BY <1>2, OpOf DEF UploadShape, CopyShape
    <2>2. QED
      BY <1>1, <1>2, <2>1, OpOf DEF NewRow, MoveShape, StorageObject
  <1>3. CASE req[p].op # "move"
    <2>1. req[p].name \in Names /\ req[p].etag \in Contents /\ req[p].user \in Users
      BY <1>3, OpOf DEF UploadShape, CopyShape, MoveShape
    <2>2. CASE Overwriting(p)
      BY <1>1, <1>3, <2>1, <2>2 DEF NewRow, StorageObject, Overwriting
    <2>3. CASE ~Overwriting(p)
      BY <1>3, <2>1, <2>3 DEF NewRow, StorageObject
    <2>4. QED
      BY <2>2, <2>3
  <1>4. QED
    BY <1>2, <1>3

\* The types a step of p keeps when it changes the label, the row image, the
\* locks and the marks of the transaction.
LEMMA RowStepType ==
    ASSUME TypeInv, NEW p \in Procs, NEW l \in Labels, Goto(p, l), Shape(p)',
           UNCHANGED <<db, store, quotaLock, obj, seenCap, charge, touched, fresh, faults,
                       history>>,
           rowLock' \in [Ids -> Procs \cup {None}],
           wr' \in [Procs -> [Ids -> StorageObject \cup {None, Same}]],
           stale' \in [Procs -> BOOLEAN], skewed' \in [Procs -> SUBSET Users]
    PROVE  TypeInv'
  <1>0. obj' \in [Procs -> Ids \cup {None}] /\ \A q \in Procs \ {p} : obj'[q] = obj[q]
    BY DEF TypeInv, TypeOK
  <1>1. Shapes' /\ pc' \in [Procs -> Labels] /\ req' \in [Procs -> Request \cup {None}]
        /\ data' \in [Procs -> Contents \cup {None}] /\ todo' \in [Procs -> Seq(Instance)]
    BY <1>0, GotoType
  <1>2. TypeOK'
    BY <1>0, <1>1 DEF TypeInv, TypeOK, db, store, history
  <1>3. QuotaHeld'
    BY DEF TypeInv, QuotaHeld
  <1>4. QED
    BY <1>1, <1>2, <1>3 DEF TypeInv

LEMMA WriteRowType ==
    ASSUME TypeInv, LockInv, NEW p \in Procs, WriteRow(p)
    PROVE  TypeInv'
  <1>0. /\ pc \in [Procs -> Labels] /\ obj \in [Procs -> Ids \cup {None}]
        /\ wr \in [Procs -> [Ids -> StorageObject \cup {None, Same}]]
        /\ rowLock \in [Ids -> Procs \cup {None}]
        /\ fresh \subseteq Ids /\ faults \in Nat
        /\ Shape(p)
    BY Typing DEF TypeInv, TypeOK
  <1>1. CASE Rollback(p)
    BY <1>0, <1>1, RollbackType DEF WriteRow
  <1>2. CASE ~Rollback(p)
    <2>0. /\ pc[p] = "row"
          /\ wr' = [wr EXCEPT ![p] = [@ EXCEPT ![obj[p]] = NewRow(p)]]
          /\ rowLock' = [rowLock EXCEPT ![obj[p]] = p]
          /\ Goto(p, IF req[p].op = "move" THEN "commit" ELSE "quota")
          /\ UNCHANGED <<db, store, obj, quotaLock, seenCap, charge, touched, stale, skewed>>
          /\ UNCHANGED <<fresh, faults, history>>
      BY <1>2 DEF WriteRow
    <2>1. UploadShape(p) \/ CopyShape(p) \/ MoveShape(p)
      BY <1>0, <2>0 DEF Shape, DeleteShape, AdminShape
    <2>2. obj[p] \in Ids
      BY <2>0, <2>1 DEF UploadShape, CopyShape, MoveShape
    <2>3. NewRow(p) \in StorageObject
      <3>1. req[p].op = "move" => rows[obj[p]] # None
        BY <2>0, <2>2 DEF LockInv, OwnersLock, OwnerLocks, Owns
      <3>2. QED
        BY <2>1, <2>2, <3>1, NewRowType
    <2>4. /\ wr' \in [Procs -> [Ids -> StorageObject \cup {None, Same}]]
          /\ rowLock' \in [Ids -> Procs \cup {None}]
      BY <1>0, <2>0, <2>2, <2>3
    <2>5. stale' \in [Procs -> BOOLEAN] /\ skewed' \in [Procs -> SUBSET Users]
      BY <2>0 DEF TypeInv, TypeOK
    <2> DEFINE l == IF req[p].op = "move" THEN "commit" ELSE "quota"
    <2>6. l \in Labels
      BY DEF Labels
    <2>7. Shape(p)'
      BY <1>0, <2>0, <2>1, OpOf DEF Goto, Shape, UploadShape, CopyShape, MoveShape
    <2>8. QED
      BY <2>0, <2>4, <2>5, <2>6, <2>7, RowStepType
  <1>3. QED
    BY <1>1, <1>2

LEMMA DeleteRowType ==
    ASSUME TypeInv, NEW p \in Procs, DeleteRow(p)
    PROVE  TypeInv'
  <1>0. /\ rows \in [Ids -> StorageObject \cup {None}]
        /\ pc \in [Procs -> Labels] /\ obj \in [Procs -> Ids \cup {None}]
        /\ todo \in [Procs -> Seq(Instance)]
        /\ wr \in [Procs -> [Ids -> StorageObject \cup {None, Same}]]
        /\ rowLock \in [Ids -> Procs \cup {None}]
        /\ stale \in [Procs -> BOOLEAN]
        /\ skewed \in [Procs -> SUBSET Users]
        /\ Shape(p)
    BY Typing DEF TypeInv, TypeOK
  <1> DEFINE inst == Head(todo[p])
             i == inst.id
             present == rows[i] # None /\ wr[p][i] = Same
             removed == IF present THEN SizeOf[rows[i].etag] ELSE 0
  <1>1. DeleteShape(p) /\ i \in Ids /\ inst.owner \in Users
    <2>1. DeleteShape(p)
      BY <1>0 DEF DeleteRow, Shape, UploadShape, CopyShape, MoveShape, AdminShape
    <2>2. inst \in Instance
      BY <1>0, <2>1 DEF DeleteRow, DeleteShape
    <2>3. QED
      BY <2>1, <2>2 DEF Instance
  <1>2. Goto(p, "dblob") /\ "dblob" \in Labels
    BY DEF DeleteRow, Labels
  <1>3. Shape(p)'
    BY <1>0, <1>1, <1>2 DEF DeleteRow, Goto, Shape, DeleteShape
  <1>4. /\ wr' \in [Procs -> [Ids -> StorageObject \cup {None, Same}]]
        /\ rowLock' \in [Ids -> Procs \cup {None}]
    <2>1. IF present
          THEN /\ rowLock' = [rowLock EXCEPT ![i] = p]
               /\ wr' = [wr EXCEPT ![p] = [@ EXCEPT ![i] = None]]
          ELSE UNCHANGED <<rowLock, wr>>
      BY DEF DeleteRow
    <2> HIDE DEF inst, i, present
    <2>2. [wr[p] EXCEPT ![i] = None] \in [Ids -> StorageObject \cup {None, Same}]
      BY <1>0, <1>1
    <2>3. QED
      BY <1>0, <1>1, <2>1, <2>2
  <1>5. stale' \in [Procs -> BOOLEAN]
    <2>1. stale' = [stale EXCEPT ![p] = @ \/ removed # SizeOf[inst.etag]]
      BY DEF DeleteRow
    <2> HIDE DEF inst, removed
    <2>2. (stale[p] \/ removed # SizeOf[inst.etag]) \in BOOLEAN
      BY Zenon
    <2>3. QED
      BY <1>0, <2>1, <2>2, Zenon
  <1>6. skewed' \in [Procs -> SUBSET Users]
    <2> DEFINE more == IF present /\ InstanceOf(i) = inst THEN {}
                       ELSE IF present THEN {inst.owner, rows[i].owner} ELSE {inst.owner}
    <2>1. more \subseteq Users
      BY <1>0, <1>1 DEF StorageObject
    <2>2. skewed' = [skewed EXCEPT ![p] = @ \cup more]
      BY DEF DeleteRow
    <2> HIDE DEF more
    <2>3. QED
      BY <1>0, <2>1, <2>2
  <1>7. UNCHANGED <<db, store, quotaLock, obj, seenCap, charge, touched, fresh, faults,
                    history>>
    BY DEF DeleteRow
  <1>8. QED
    BY <1>2, <1>3, <1>4, <1>5, <1>6, <1>7, RowStepType

\* What a charge adds is an integer and whom it charges is a user.
LEMMA DeltaType ==
    ASSUME TypeInv, NEW p \in Procs, pc[p] = "quota"
    PROVE  /\ Delta(p) \in Int
           /\ Charged(p) \in Users
           /\ Deleting(p) => DeleteShape(p)
           /\ ~Deleting(p) => UploadShape(p) \/ CopyShape(p)
           /\ Overwriting(p) => rows[obj[p]].owner \in Users
  <1>0. /\ rows \in [Ids -> StorageObject \cup {None}]
        /\ todo \in [Procs -> Seq(Instance)]
        /\ Shape(p)
    BY Typing
  <1>1. UploadShape(p) \/ CopyShape(p) \/ DeleteShape(p)
    BY <1>0 DEF Shape, MoveShape, AdminShape
  <1>2. CASE DeleteShape(p)
    <2>1. Deleting(p) /\ ~Overwriting(p)
      BY <1>2, OpOf DEF DeleteShape, Deleting, Overwriting
    <2>2. Head(todo[p]) \in Instance
      BY <1>0, <1>2 DEF DeleteShape
    <2>3. Head(todo[p]).etag \in Contents /\ Head(todo[p]).owner \in Users
      BY <2>2 DEF Instance
    <2>4. QED
      BY <1>2, <2>1, <2>3, ObjectStoreAssumption DEF Delta, Charged
  <1>3. CASE UploadShape(p) \/ CopyShape(p)
    <2>1. /\ ~Deleting(p) /\ req[p].etag \in Contents /\ req[p].user \in Users
          /\ obj[p] \in Ids
      BY <1>3, OpOf DEF UploadShape, CopyShape, Deleting
    <2>2. Overwriting(p) => rows[obj[p]] \in StorageObject
      BY <1>0, <2>1 DEF Overwriting
    <2>3. Overwriting(p) => rows[obj[p]].etag \in Contents /\ rows[obj[p]].owner \in Users
      BY <2>2 DEF StorageObject
    <2>4. QED
      BY <1>3, <2>1, <2>3, ObjectStoreAssumption DEF Delta, Charged
  <1>4. QED
    BY <1>1, <1>2, <1>3

LEMMA ChargeUserType ==
    ASSUME NEW cap \in Nat, NEW uq \in [Users -> UserQuota \cup {None}],
           NEW u \in Users, NEW d \in Int
    PROVE  ChargeUser(uq, u, cap, d) \in [Users -> UserQuota \cup {None}]
  <1> DEFINE new == IF uq[u] = None THEN [max |-> cap, used |-> Floor(d)]
                    ELSE [max |-> uq[u].max, used |-> Floor(uq[u].used + d)]
  <1>1. new \in UserQuota
    BY DEF UserQuota, Floor
  <1>2. ChargeUser(uq, u, cap, d)
          = IF Untracked(uq, u, cap) THEN uq ELSE [uq EXCEPT ![u] = new]
    BY DEF ChargeUser
  <1> HIDE DEF new
  <1>3. QED
    BY <1>1, <1>2

\* Reading the company's quota row changes one local variable.
LEMMA ReadQuotaType ==
    ASSUME TypeInv, NEW p \in Procs, ReadCompanyQuota(p)
    PROVE  TypeInv'
  <1>1. quota.perUser \in Nat
    BY DEF TypeInv, TypeOK
  <1>2. seenCap' \in [Procs -> Nat \cup {None}]
    BY <1>1 DEF ReadCompanyQuota, TypeInv, TypeOK
  <1>3. TypeOK'
    BY <1>2 DEF ReadCompanyQuota, db, store, locks, locals, history, TypeInv, TypeOK
  <1>4. QuotaHeld'
    BY DEF ReadCompanyQuota, locks, TypeInv, QuotaHeld
  <1>5. Shapes'
    BY DEF ReadCompanyQuota, locals, TypeInv, Shapes, Shape, UploadShape, CopyShape, MoveShape,
           DeleteShape, AdminShape
  <1>6. QED
    BY <1>3, <1>4, <1>5 DEF TypeInv

LEMMA UsageType ==
    ASSUME TypeInv, NEW p \in Procs, apply_usage_delta(p)
    PROVE  TypeInv'
  <1>0. /\ pc \in [Procs -> Labels]
        /\ todo \in [Procs -> Seq(Instance)]
        /\ userQuota \in [Users -> UserQuota \cup {None}]
        /\ quota \in [max : Nat, perUser : Nat, used : Nat]
        /\ quotaLock \in Procs \cup {None}
        /\ seenCap \in [Procs -> Nat \cup {None}]
        /\ charge \in [Procs -> Charge \cup {None}]
        /\ skewed \in [Procs -> SUBSET Users]
        /\ QuotaHeld
        /\ Shape(p)
    BY Typing DEF TypeInv, TypeOK
  <1> DEFINE d == Delta(p)
             u == Charged(p)
             base == IF quotaLock = p THEN charge[p]
                     ELSE [used |-> quota.used, users |-> userQuota]
             rest == IF Deleting(p) THEN Tail(todo[p]) ELSE <<>>
             cap == seenCap[p]
             new == [used |-> Floor(base.used + d), users |-> ChargeUser(base.users, u, cap, d)]
             next == IF req[p].op = "delete" /\ rest # <<>> THEN "drow" ELSE "commit"
  <1>1. pc[p] = "quota"
    BY DEF apply_usage_delta
  <1>2. /\ d \in Int /\ u \in Users
        /\ Deleting(p) => DeleteShape(p)
        /\ ~Deleting(p) => UploadShape(p) \/ CopyShape(p)
        /\ Overwriting(p) => rows[obj[p]].owner \in Users
    BY <1>1, DeltaType
  <1>3. base \in Charge
    BY <1>0 DEF QuotaHeld, Charge
  <1>4. cap # None => new \in Charge
    <2> SUFFICES ASSUME cap # None PROVE new \in Charge
      OBVIOUS
    <2>0. cap \in Nat
      BY <1>0
    <2>1. base.used \in Nat /\ base.users \in [Users -> UserQuota \cup {None}]
      BY <1>3 DEF Charge
    <2>2. ChargeUser(base.users, u, cap, d) \in [Users -> UserQuota \cup {None}]
      BY <1>2, <2>0, <2>1, ChargeUserType
    <2>3. Floor(base.used + d) \in Nat
      BY <1>2, <2>1 DEF Floor
    <2>4. QED
      BY <2>2, <2>3 DEF Charge
  <1>5. rest \in Seq(Instance)
    BY <1>0, <1>1, <1>2 DEF DeleteShape
  <1>6. /\ \/ UNCHANGED <<quotaLock, charge>>
           \/ cap # None /\ quotaLock' = p /\ charge' = [charge EXCEPT ![p] = new]
        /\ seenCap' = [seenCap EXCEPT ![p] = None]
        /\ todo' = [todo EXCEPT ![p] = rest]
        /\ pc' = [pc EXCEPT ![p] = next]
        /\ UNCHANGED <<db, store, rowLock, req, obj, data, wr, touched, stale, fresh,
                       faults, history>>
    BY DEF apply_usage_delta
  <1>7. skewed' \in [Procs -> SUBSET Users]
    <2> DEFINE more == (IF Overwriting(p) /\ rows[obj[p]].owner # u
                        THEN {u, rows[obj[p]].owner} ELSE {})
               lost == (IF d # 0 /\ Untracked(base.users, u, cap) THEN {u} ELSE {})
    <2>1. more \subseteq Users /\ lost \subseteq Users
      BY <1>2
    <2>2. skewed' = [skewed EXCEPT ![p] = @ \cup more \cup lost]
      BY DEF apply_usage_delta
    <2> HIDE DEF more, lost
    <2>3. QED
      BY <1>0, <2>1, <2>2
  <1>8. Shape(p)'
    <2> HIDE DEF rest
    <2>1. todo'[p] = rest /\ pc'[p] = next
      BY <1>0, <1>6
    <2>2. CASE Deleting(p)
      BY <1>2, <1>6, <2>1, <2>2 DEF Shape, DeleteShape
    <2>3. CASE ~Deleting(p)
      BY <1>1, <1>2, <1>6, <2>1, <2>3 DEF Shape, UploadShape, CopyShape, rest
    <2>4. QED
      BY <2>2, <2>3
  <1>9. Shapes'
    <2> HIDE DEF rest, next
    <2>1. \A q \in Procs \ {p} : /\ pc'[q] = pc[q] /\ req'[q] = req[q]
                                 /\ obj'[q] = obj[q] /\ data'[q] = data[q]
                                 /\ todo'[q] = todo[q]
      BY <1>0, <1>6
    <2>2. QED
      BY <1>8, <2>1, ShapesOf
  <1>10. QuotaHeld'
    <2> HIDE DEF new, cap
    <2>1. cap # None => new # None
      BY <1>4, SentinelAssumption
    <2>2. QED
      BY <1>0, <1>6, <2>1, ObjectStoreAssumption DEF QuotaHeld
  <1>11. TypeOK'
    <2>1. next \in Labels
      BY DEF Labels
    <2> HIDE DEF new, rest, next, cap
    <2>2. /\ seenCap' \in [Procs -> Nat \cup {None}]
          /\ charge' \in [Procs -> Charge \cup {None}]
          /\ quotaLock' \in Procs \cup {None}
          /\ todo' \in [Procs -> Seq(Instance)]
          /\ pc' \in [Procs -> Labels]
      BY <1>0, <1>4, <1>5, <1>6, <2>1
    <2>3. QED
      BY <1>6, <1>7, <2>2 DEF TypeInv, TypeOK, db, store, history
  <1>12. QED
    BY <1>9, <1>10, <1>11 DEF TypeInv

LEMMA CommitType ==
    ASSUME TypeInv, NEW p \in Procs, Commit(p)
    PROVE  TypeInv'
  <1>0. /\ rows \in [Ids -> StorageObject \cup {None}]
        /\ pc \in [Procs -> Labels] /\ obj \in [Procs -> Ids \cup {None}]
        /\ quota \in [max : Nat, perUser : Nat, used : Nat]
        /\ userQuota \in [Users -> UserQuota \cup {None}]
        /\ charge \in [Procs -> Charge \cup {None}]
        /\ wr \in [Procs -> [Ids -> StorageObject \cup {None, Same}]]
        /\ writes \in [Ids -> Nat] /\ torn \subseteq Ids
        /\ skew \subseteq Users /\ skewed \in [Procs -> SUBSET Users]
        /\ drift \in BOOLEAN /\ stale \in [Procs -> BOOLEAN]
        /\ Shape(p)
    BY Typing DEF TypeInv, TypeOK
  <1>1. pc[p] = "commit" /\ EndTransaction(p) /\ UNCHANGED <<store, fresh, faults>>
    BY DEF Commit
  <1>2. rows' \in [Ids -> StorageObject \cup {None}]
    BY <1>0 DEF Commit
  <1>3. /\ quota' \in [max : Nat, perUser : Nat, used : Nat]
        /\ userQuota' \in [Users -> UserQuota \cup {None}]
    <2>1. CASE charge[p] = None
      BY <1>0, <2>1 DEF Commit
    <2>2. CASE charge[p] # None
      <3>1. charge[p].used \in Nat /\ charge[p].users \in [Users -> UserQuota \cup {None}]
        BY <1>0, <2>2 DEF Charge
      <3>2. QED
        BY <1>0, <2>2, <3>1 DEF Commit
    <2>3. QED
      BY <2>1, <2>2
  <1>4. req[p].op \in {"upload", "copy"} => obj[p] \in Ids
    BY <1>0, <1>1, OpOf DEF Shape, UploadShape, CopyShape, MoveShape, DeleteShape, AdminShape
  <1>5. writes' \in [Ids -> Nat] /\ torn' \subseteq Ids /\ skew' \subseteq Users
    BY <1>0, <1>4 DEF Commit, Overwriting
  <1>6. drift' \in BOOLEAN
    BY <1>0, Zenon DEF Commit
  <1>7. /\ Shapes'
        /\ pc' \in [Procs -> Labels] /\ req' \in [Procs -> Request \cup {None}]
        /\ obj' \in [Procs -> Ids \cup {None}] /\ data' \in [Procs -> Contents \cup {None}]
        /\ todo' \in [Procs -> Seq(Instance)]
    <2>1. CASE EndRequest(p)
      BY <2>1, EndType
    <2>2. CASE ~EndRequest(p)
      <3>1. todo[p] # <<>> /\ Goto(p, "drow") /\ UNCHANGED obj
        BY <2>2 DEF Commit, Goto
      <3>2. DeleteShape(p)
        BY <1>0, <1>1, <3>1 DEF Shape, UploadShape, CopyShape, MoveShape, AdminShape
      <3>3. Shape(p)'
        BY <1>0, <3>1, <3>2 DEF Goto, Shape, DeleteShape
      <3>4. "drow" \in Labels
        BY DEF Labels
      <3>5. QED
        BY <1>0, <3>1, <3>3, <3>4, GotoType
    <2>3. QED
      BY <2>1, <2>2
  <1>8. TypeOK' /\ QuotaHeld'
    <2>1. /\ wr' \in [Procs -> [Ids -> StorageObject \cup {None, Same}]]
          /\ seenCap' \in [Procs -> Nat \cup {None}]
          /\ charge' \in [Procs -> Charge \cup {None}]
          /\ touched' \in [Procs -> SUBSET Ids]
          /\ stale' \in [Procs -> BOOLEAN]
          /\ skewed' \in [Procs -> SUBSET Users]
          /\ QuotaHeld'
          /\ rowLock' \in [Ids -> Procs \cup {None}]
          /\ quotaLock' \in Procs \cup {None}
      BY <1>1, EndType DEF EndTransaction
    <2>2. QED
      BY <1>1, <1>2, <1>3, <1>5, <1>6, <1>7, <2>1 DEF TypeInv, TypeOK, store
  <1>9. QED
    BY <1>7, <1>8 DEF TypeInv

LEMMA QuotaPutType ==
    ASSUME TypeInv, NEW p \in Procs, SaveQuota(p)
    PROVE  TypeInv'
  <1>0. /\ Shape(p) /\ drift \in BOOLEAN
    BY Typing DEF TypeInv, TypeOK
  <1>1. req[p] \in AdminRequest
    BY <1>0 DEF SaveQuota, Shape, UploadShape, CopyShape, MoveShape, DeleteShape, AdminShape
  <1>2. quota' \in [max : Nat, perUser : Nat, used : Nat]
    BY <1>1, OpOf DEF SaveQuota
  <1>3. drift' \in BOOLEAN
    BY <1>0, Zenon DEF SaveQuota
  <1>4. TypeOK'
    BY <1>2, <1>3, EndType DEF SaveQuota, TypeInv, TypeOK, store, locks, tx
  <1>5. QuotaHeld'
    BY DEF SaveQuota, TypeInv, QuotaHeld, locks, tx
  <1>6. QED
    BY <1>4, <1>5, EndType DEF SaveQuota, TypeInv

LEMMA UserQuotaPutType ==
    ASSUME TypeInv, PutUserQuota
    PROVE  TypeInv'
  <1>1. PICK u \in Users, m \in UserCaps :
          userQuota' = [userQuota EXCEPT ![u] = [max |-> m, used |-> UserUsed(u)]]
    BY DEF PutUserQuota
  <1>2. [max |-> m, used |-> UserUsed(u)] \in UserQuota
    BY ObjectStoreAssumption DEF TypeInv, TypeOK, UserQuota, UserUsed
  <1>3. userQuota' \in [Users -> UserQuota \cup {None}]
    BY <1>1, <1>2 DEF TypeInv, TypeOK
  <1>4. TypeOK'
    BY <1>3 DEF PutUserQuota, TypeInv, TypeOK, store, locks, locals, tx, history
  <1>5. QuotaHeld'
    BY DEF PutUserQuota, TypeInv, QuotaHeld, locks, tx
  <1>6. Shapes'
    BY DEF PutUserQuota, TypeInv, Shapes, Shape, UploadShape, CopyShape, MoveShape,
           DeleteShape, AdminShape, locals
  <1>7. QED
    BY <1>4, <1>5, <1>6 DEF TypeInv

\* Every step keeps the types; only a move's write needs more than the types.
LEMMA NextType == TypeInv /\ LockInv /\ [Next]_vars => TypeInv'
  <1> SUFFICES ASSUME TypeInv, LockInv, [Next]_vars PROVE TypeInv'
    OBVIOUS
  <1>1. ASSUME NEW p \in Procs, Start(p) PROVE TypeInv'
    BY <1>1, StartType
  <1>2. ASSUME NEW p \in Procs, Step(p) PROVE TypeInv'
    BY <1>2, LockType, CheckOpenType, BlobStepType, WriteRowType, DeleteRowType,
       ReadQuotaType, UsageType, QuotaPutType, CommitType DEF Step
  <1>3. ASSUME NEW p \in Procs, Fault(p) \/ DeadlockVictim(p) PROVE TypeInv'
    <2>1. fresh \subseteq Ids /\ faults \in Nat
      BY DEF TypeInv, TypeOK
    <2>2. Rollback(p) /\ fresh' \subseteq Ids /\ faults' \in Nat
      BY <1>3, <2>1 DEF Fault, DeadlockVictim
    <2>3. QED
      BY <2>2, RollbackType
  <1>4. CASE PutUserQuota
    BY <1>4, UserQuotaPutType
  <1>5. CASE UNCHANGED vars
    <2>1. TypeOK'
      BY <1>5 DEF vars, db, store, locks, locals, tx, history, TypeInv, TypeOK
    <2>2. QuotaHeld'
      BY <1>5 DEF vars, locks, tx, TypeInv, QuotaHeld
    <2>3. Shapes'
      BY <1>5 DEF vars, locals, TypeInv, Shapes, Shape, UploadShape, CopyShape, MoveShape,
                  DeleteShape, AdminShape
    <2>4. QED
      BY <2>1, <2>2, <2>3 DEF TypeInv
  <1>6. QED
    BY <1>1, <1>2, <1>3, <1>4, <1>5 DEF Next

(***************************************************************************)
(* Ownership and locks                                                     *)
(***************************************************************************)

LEMMA InitLocks == Init => LockInv
  BY DEF Init, LockInv, OwnersLock, OwnersDiffer, FreshUnused, WritesLocked, OwnersWrite,
         Owns, Written, NoWrites

\* A request that has written images owns an object.
LEMMA WrittenOwns ==
    ASSUME TypeInv, NEW p \in Procs, Written(p)
    PROVE  obj[p] \in Ids /\ Owns(p, obj[p])
  <1>0. Shape(p)
    BY Typing
  <1>1. UploadShape(p) \/ CopyShape(p) \/ MoveShape(p)
    BY <1>0, OpOf DEF Written, Shape, DeleteShape, AdminShape
  <1>2. QED
    BY <1>1, OpOf DEF Written, Owns, UploadShape, CopyShape, MoveShape

\* What a step of p must respect for the ownership of the others to survive,
\* and what it must establish about itself.
LEMMA LockFrame ==
    ASSUME TypeInv, LockInv, NEW p \in Procs,
           \A q \in Procs \ {p} : /\ pc'[q] = pc[q] /\ req'[q] = req[q]
                                  /\ obj'[q] = obj[q] /\ wr'[q] = wr[q],
           \A q \in Procs \ {p}, i \in Ids :
              Owns(q, i) \/ wr[q][i] # Same =>
                /\ rows'[i] = rows[i]
                /\ rowLock[i] = q => rowLock'[i] = q,
           fresh' \subseteq fresh, \A i \in fresh : rows'[i] = rows[i],
           \A i \in Ids : Owns(p, i)' => /\ OwnerLocks(p, i)'
                                         /\ i \notin fresh'
                                         /\ \A q \in Procs \ {p} : ~Owns(q, i),
           \A i \in Ids : wr'[p][i] # Same => WriterLocks(p, i)',
           Written(p)' => wr'[p][obj'[p]] = NewRow(p)'
    PROVE  LockInv'
  <1>0. fresh \subseteq Ids
    BY Typing
  <1>1. \A q \in Procs \ {p}, i \in Ids :
          /\ Owns(q, i)' <=> Owns(q, i)
          /\ Written(q)' <=> Written(q)
          /\ Deleting(q)' <=> Deleting(q)
    BY DEF Owns, Written, Deleting
  <1>2. OwnersLock'
    <2> SUFFICES ASSUME NEW q \in Procs, NEW i \in Ids, Owns(q, i)'
                 PROVE  OwnerLocks(q, i)'
      BY DEF OwnersLock
    <2>1. CASE q # p
      BY <1>1, <2>1 DEF LockInv, OwnersLock, OwnerLocks
    <2>2. QED
      BY <2>1
  <1>3. OwnersDiffer'
    <2> SUFFICES ASSUME NEW q \in Procs, NEW r \in Procs, NEW i \in Ids,
                        Owns(q, i)', Owns(r, i)'
                 PROVE  q = r
      BY DEF OwnersDiffer
    <2>1. QED
      BY <1>1 DEF LockInv, OwnersDiffer
  <1>4. FreshUnused'
    BY <1>0, <1>1 DEF LockInv, FreshUnused
  <1>5. WritesLocked'
    <2> SUFFICES ASSUME NEW q \in Procs, NEW i \in Ids, wr'[q][i] # Same
                 PROVE  WriterLocks(q, i)'
      BY DEF WritesLocked
    <2>1. CASE q # p
      <3>1. wr[q][i] # Same /\ WriterLocks(q, i)
        BY <2>1 DEF LockInv, WritesLocked
      <3>2. QED
        BY <1>1, <2>1, <3>1 DEF WriterLocks
    <2>2. QED
      BY <2>1
  <1>6. OwnersWrite'
    <2> SUFFICES ASSUME NEW q \in Procs, Written(q)'
                 PROVE  wr'[q][obj'[q]] = NewRow(q)'
      BY DEF OwnersWrite
    <2>1. CASE q # p
      <3>1. Written(q)
        BY <2>1 DEF Written
      <3>2. obj[q] \in Ids /\ Owns(q, obj[q])
        BY <3>1, WrittenOwns
      <3>3. rows'[obj[q]] = rows[obj[q]]
        BY <2>1, <3>2
      <3>4. NewRow(q)' = NewRow(q)
        BY <2>1, <3>3 DEF NewRow, Overwriting
      <3>5. QED
        BY <2>1, <3>1, <3>4 DEF LockInv, OwnersWrite
    <2>2. QED
      BY <2>1
  <1>7. QED
    BY <1>2, <1>3, <1>4, <1>5, <1>6 DEF LockInv

\* Before a request writes a row, its transaction is empty.
LEMMA NothingWritten ==
    ASSUME TypeInv, LockInv, NEW p \in Procs,
           pc[p] = "idle" \/ ~(Written(p) \/ Deleting(p))
    PROVE  \A i \in Ids : wr[p][i] = Same
  BY DEF LockInv, WritesLocked, WriterLocks, Owns

\* A request that ends keeps nothing.
LEMMA EndLocks ==
    ASSUME TypeInv, LockInv, NEW p \in Procs, EndRequest(p), ReleaseLocks(p),
           UNCHANGED <<rows, fresh>>, \A q \in Procs \ {p} : wr'[q] = wr[q],
           \A i \in Ids : wr'[p][i] = Same
    PROVE  LockInv'
  <1>1. \A q \in Procs \ {p} : pc'[q] = pc[q] /\ req'[q] = req[q] /\ obj'[q] = obj[q]
    BY DEF EndRequest, TypeInv, TypeOK
  <1>2. pc'[p] = "idle"
    BY DEF EndRequest, TypeInv, TypeOK
  <1>3. ~Written(p)' /\ \A i \in Ids : ~Owns(p, i)'
    BY <1>2 DEF Owns, Written
  <1>4. \A q \in Procs \ {p}, i \in Ids : rowLock[i] = q => rowLock'[i] = q
    BY DEF ReleaseLocks
  <1>5. QED
    BY <1>1, <1>3, <1>4, LockFrame

LEMMA BeginLocks ==
    ASSUME TypeInv, LockInv, NEW p \in Procs, NEW l \in Labels, NEW r, Begin(p, l, r),
           l \in {"lock", "drow", "save"} \/ (l = "check" /\ r.op = "copy"),
           \A q \in Procs \ {p} : obj'[q] = obj[q]
    PROVE  LockInv'
  <1>1. /\ pc'[p] = l /\ req'[p] = r /\ UNCHANGED <<rows, rowLock, wr, fresh>>
        /\ \A q \in Procs \ {p} : pc'[q] = pc[q] /\ req'[q] = req[q]
    BY DEF Begin, TypeInv, TypeOK, db, locks, tx
  <1>2. ~Written(p)' /\ \A i \in Ids : ~Owns(p, i)'
    BY <1>1 DEF Owns, Written
  <1>3. \A i \in Ids : wr'[p][i] = Same
    BY <1>1, NothingWritten DEF Begin
  <1>4. QED
    BY <1>1, <1>2, <1>3, LockFrame

LEMMA StartLocks ==
    ASSUME TypeInv, LockInv, NEW p \in Procs, Start(p)
    PROVE  LockInv'
  <1>0. obj \in [Procs -> Ids \cup {None}] /\ {"lock", "check", "drow", "save"} \subseteq Labels
    BY Typing DEF Labels
  <1>1. CASE StartUpload(p)
    BY <1>0, <1>1, BeginLocks DEF StartUpload
  <1>2. CASE StartCopy(p)
    BY <1>0, <1>2, BeginLocks DEF StartCopy
  <1>3. CASE StartMove(p)
    BY <1>0, <1>3, BeginLocks DEF StartMove
  <1>4. CASE StartDelete(p, "delete") \/ StartDelete(p, "dav_delete")
    BY <1>0, <1>4, BeginLocks DEF StartDelete
  <1>5. CASE StartQuotaPut(p)
    BY <1>0, <1>5, BeginLocks DEF StartQuotaPut
  <1>6. QED
    BY <1>1, <1>2, <1>3, <1>4, <1>5 DEF Start

LEMMA RefuseLocks ==
    ASSUME TypeInv, LockInv, NEW p \in Procs, Refuse(p), ~Written(p), ~Deleting(p),
           UNCHANGED <<rows, wr, fresh>>
    PROVE  LockInv'
  BY EndLocks, NothingWritten DEF Refuse

LEMMA RollbackLocks ==
    ASSUME TypeInv, LockInv, NEW p \in Procs, Rollback(p), UNCHANGED fresh
    PROVE  LockInv'
  <1>1. /\ EndRequest(p) /\ ReleaseLocks(p) /\ UNCHANGED rows
        /\ wr' = [wr EXCEPT ![p] = NoWrites]
    BY DEF Rollback, EndTransaction, db
  <1>2. /\ \A q \in Procs \ {p} : wr'[q] = wr[q]
        /\ \A i \in Ids : wr'[p][i] = Same
    BY <1>1 DEF TypeInv, TypeOK, NoWrites
  <1>3. QED
    BY <1>1, <1>2, EndLocks

\* A request takes over an object: by locking its row, or by drawing a UUID.
LEMMA TakeLocks ==
    ASSUME TypeInv, LockInv, NEW p \in Procs, NEW i \in Ids, UNCHANGED <<rows, req, wr>>,
           ~Written(p), ~Deleting(p),
           pc'[p] \in {"check", "blob", "row"}, obj'[p] = i,
           \A q \in Procs \ {p} : pc'[q] = pc[q] /\ obj'[q] = obj[q],
           \/ /\ rows[i] # None /\ rowLock[i] = None /\ UNCHANGED fresh
              /\ rowLock' = [rowLock EXCEPT ![i] = p]
              /\ req[p].op # "copy"
           \/ /\ i \in fresh /\ fresh' = fresh \ {i} /\ UNCHANGED rowLock
              /\ req[p].op # "move"
    PROVE  LockInv'
  <1>0. rowLock \in [Ids -> Procs \cup {None}] /\ fresh \subseteq Ids /\ None \notin Procs
    BY ObjectStoreAssumption DEF TypeInv, TypeOK
  <1>1. \A q \in Procs : ~Owns(q, i)
    BY <1>0 DEF LockInv, OwnersLock, OwnerLocks, FreshUnused
  <1>2. OwnerLocks(p, i)' /\ i \notin fresh'
    BY <1>0 DEF OwnerLocks, LockInv, FreshUnused
  <1>3. \A j \in Ids : Owns(p, j)' => j = i
    BY DEF Owns
  <1>4. ~Written(p)' /\ \A j \in Ids : wr'[p][j] = Same
    BY NothingWritten DEF Written
  <1>5. \A q \in Procs \ {p}, j \in Ids : rowLock[j] = q => rowLock'[j] = q
    BY <1>0
  <1>6. /\ fresh' \subseteq fresh
        /\ \A j \in Ids : Owns(p, j)' => /\ OwnerLocks(p, j)' /\ j \notin fresh'
                                         /\ \A q \in Procs \ {p} : ~Owns(q, j)
    BY <1>1, <1>2, <1>3
  <1>7. QED
    BY <1>4, <1>5, <1>6, LockFrame

\* A step that moves a request on without a change of ownership.
LEMMA KeepLocks ==
    ASSUME TypeInv, LockInv, NEW p \in Procs, UNCHANGED <<rows, rowLock, wr, fresh, req, obj>>,
           pc'[p] # "idle", \A q \in Procs \ {p} : pc'[q] = pc[q],
           \A i \in Ids : Owns(p, i)' <=> Owns(p, i),
           Written(p)' <=> Written(p)
    PROVE  LockInv'
  <1>0. fresh \subseteq Ids
    BY Typing
  <1>1. \A i \in Ids : Owns(p, i)' => /\ OwnerLocks(p, i)'
                                      /\ i \notin fresh'
                                      /\ \A q \in Procs \ {p} : ~Owns(q, i)
    BY DEF LockInv, OwnersLock, OwnerLocks, OwnersDiffer, FreshUnused
  <1>2. \A i \in Ids : wr'[p][i] # Same => WriterLocks(p, i)'
    BY DEF LockInv, WritesLocked, WriterLocks, Deleting
  <1>3. Written(p)' => wr'[p][obj'[p]] = NewRow(p)'
    BY DEF LockInv, OwnersWrite, NewRow, Overwriting
  <1>4. QED
    BY <1>1, <1>2, <1>3, LockFrame

LEMMA MiddleLocks ==
    ASSUME TypeInv, LockInv, NEW p \in Procs,
           \/ LockUpload(p) \/ LockMove(p) \/ CheckQuota(p) \/ OpenSource(p)
           \/ SaveBlob(p) \/ delete_storage_key(p) \/ ReadCompanyQuota(p)
           \/ apply_usage_delta(p)
    PROVE  LockInv'
  <1>0. /\ pc \in [Procs -> Labels] /\ obj \in [Procs -> Ids \cup {None}]
        /\ req \in [Procs -> Request \cup {None}] /\ fresh \subseteq Ids
        /\ Shape(p)
    BY Typing
  <1>1. CASE LockUpload(p)
    <2>1. ~Written(p) /\ ~Deleting(p) /\ UNCHANGED <<rows, wr>> /\ req[p].op = "upload"
      BY <1>1 DEF LockUpload, Written, Deleting, db, tx
    <2>2. CASE Refuse(p) /\ UNCHANGED fresh
      BY <2>1, <2>2, RefuseLocks
    <2>3. CASE /\ Locked(p, req[p].name)
               /\ rowLock' = [rowLock EXCEPT ![obj[p]] = p]
               /\ Goto(p, "check")
               /\ UNCHANGED <<obj, quotaLock, fresh>>
      <3>1. obj[p] \in Ids /\ rows[obj[p]] # None /\ rowLock[obj[p]] = None
        BY <1>0, <1>1, <2>3 DEF LockUpload, Locked, Unlocked
      <3>2. QED
        BY <1>0, <2>1, <2>3, <3>1, TakeLocks DEF Goto
    <2>4. CASE /\ \E i \in fresh : fresh' = fresh \ {i} /\ obj' = [obj EXCEPT ![p] = i]
               /\ Goto(p, "check")
               /\ UNCHANGED locks
      <3>1. PICK i \in fresh : fresh' = fresh \ {i} /\ obj' = [obj EXCEPT ![p] = i]
        BY <2>4
      <3>2. QED
        BY <1>0, <2>1, <2>4, <3>1, TakeLocks DEF Goto, locks
    <2>5. QED
      BY <1>1, <2>2, <2>3, <2>4 DEF LockUpload
  <1>2. CASE LockMove(p)
    <2>1. ~Written(p) /\ ~Deleting(p) /\ UNCHANGED <<rows, wr, fresh>> /\ req[p].op = "move"
      BY <1>2 DEF LockMove, Written, Deleting, db, tx
    <2>2. CASE Refuse(p)
      BY <2>1, <2>2, RefuseLocks
    <2>3. CASE ~Refuse(p)
      <3>1. /\ Locked(p, req[p].src) /\ rowLock[obj[p]] = None
            /\ rowLock' = [rowLock EXCEPT ![obj[p]] = p]
            /\ Goto(p, "row")
            /\ UNCHANGED <<obj, quotaLock>>
        BY <1>2, <2>3 DEF LockMove, Unlocked
      <3>2. obj[p] \in Ids /\ rows[obj[p]] # None
        BY <1>0, <3>1 DEF Locked
      <3>3. QED
        BY <1>0, <2>1, <3>1, <3>2, TakeLocks DEF Goto
    <2>4. QED
      BY <2>2, <2>3
  <1>3. CASE CheckQuota(p)
    <2>1. ~Written(p) /\ ~Deleting(p) /\ UNCHANGED <<rows, wr, fresh>>
      BY <1>0, <1>3, OpOf DEF CheckQuota, Written, Deleting, db, tx, Shape, UploadShape,
                              CopyShape, MoveShape, DeleteShape, AdminShape
    <2>2. CASE Refuse(p)
      BY <2>1, <2>2, RefuseLocks
    <2>3. CASE ~Refuse(p)
      <3>1. /\ pc[p] = "check" /\ UNCHANGED <<obj, rowLock, req>>
            /\ pc' = [pc EXCEPT ![p] = IF req[p].op = "copy" THEN "open" ELSE "blob"]
        BY <1>3, <2>3 DEF CheckQuota, locks, Goto
      <3>2. UploadShape(p) \/ CopyShape(p)
        BY <1>0, <3>1 DEF Shape, MoveShape, DeleteShape, AdminShape
      <3>3. \A i \in Ids : Owns(p, i)' <=> Owns(p, i)
        BY <1>0, <3>1, <3>2, OpOf DEF Owns, UploadShape, CopyShape
      <3>4. ~Written(p)'
        BY <1>0, <3>1 DEF Written
      <3>5. QED
        BY <1>0, <2>1, <3>1, <3>3, <3>4, KeepLocks
    <2>4. QED
      BY <2>2, <2>3
  <1>4. CASE OpenSource(p)
    <2>1. CopyShape(p)
      BY <1>0, <1>4 DEF OpenSource, Shape, UploadShape, MoveShape, DeleteShape, AdminShape
    <2>2. ~Written(p) /\ ~Deleting(p) /\ UNCHANGED <<rows, wr>> /\ req[p].op = "copy"
      BY <1>4, <2>1, OpOf DEF OpenSource, Written, Deleting, db, tx, CopyShape
    <2>3. CASE Refuse(p) /\ UNCHANGED fresh
      BY <2>2, <2>3, RefuseLocks
    <2>4. CASE /\ \E i \in fresh : fresh' = fresh \ {i} /\ obj' = [obj EXCEPT ![p] = i]
               /\ pc' = [pc EXCEPT ![p] = "blob"]
               /\ UNCHANGED <<locks, req, todo>>
      <3>1. PICK i \in fresh : fresh' = fresh \ {i} /\ obj' = [obj EXCEPT ![p] = i]
        BY <2>4
      <3>2. QED
        BY <1>0, <2>2, <2>4, <3>1, TakeLocks DEF locks
    <2>5. QED
      BY <1>4, <2>3, <2>4 DEF OpenSource
  <1>5. CASE SaveBlob(p)
    <2>1. /\ pc[p] = "blob" /\ pc' = [pc EXCEPT ![p] = "row"]
          /\ UNCHANGED <<rows, rowLock, wr, fresh, req, obj>>
      BY <1>5 DEF SaveBlob, Goto, db, locks
    <2>2. UploadShape(p) \/ CopyShape(p)
      BY <1>0, <2>1 DEF Shape, MoveShape, DeleteShape, AdminShape
    <2>3. \A i \in Ids : Owns(p, i)' <=> Owns(p, i)
      BY <1>0, <2>1, <2>2, OpOf DEF Owns, UploadShape, CopyShape
    <2>4. ~Written(p)' /\ ~Written(p)
      BY <1>0, <2>1 DEF Written
    <2>5. QED
      BY <1>0, <2>1, <2>3, <2>4, KeepLocks
  <1>6. CASE delete_storage_key(p)
    <2>1. /\ pc[p] = "dblob" /\ pc' = [pc EXCEPT ![p] = "quota"]
          /\ UNCHANGED <<rows, rowLock, wr, fresh, req, obj>>
      BY <1>6 DEF delete_storage_key, Goto, db, locks
    <2>2. req[p].op \in {"delete", "dav_delete"}
      BY <1>0, <2>1, OpOf DEF Shape, UploadShape, CopyShape, MoveShape, DeleteShape, AdminShape
    <2>3. \A i \in Ids : ~Owns(p, i)' /\ ~Owns(p, i)
      BY <1>0, <2>1, <2>2 DEF Owns
    <2>4. ~Written(p)' /\ ~Written(p)
      BY <1>0, <2>1, <2>2 DEF Written
    <2>5. QED
      BY <1>0, <2>1, <2>3, <2>4, KeepLocks
  <1>7. CASE apply_usage_delta(p)
    <2> DEFINE rest == IF Deleting(p) THEN Tail(todo[p]) ELSE <<>>
               l == IF req[p].op = "delete" /\ rest # <<>> THEN "drow" ELSE "commit"
    <2>1. /\ pc[p] = "quota" /\ pc' = [pc EXCEPT ![p] = l]
          /\ UNCHANGED <<rows, rowLock, wr, fresh, req, obj>>
      BY <1>7 DEF apply_usage_delta, db
    <2> HIDE DEF rest
    <2>2. \/ req[p].op \in {"delete", "dav_delete"}
          \/ req[p].op \in {"upload", "copy"}
      BY <1>0, <2>1, OpOf DEF Shape, UploadShape, CopyShape, MoveShape, DeleteShape, AdminShape
    <2>3. \A i \in Ids : Owns(p, i)' <=> Owns(p, i)
      BY <1>0, <2>1, <2>2 DEF Owns
    <2>4. Written(p)' <=> Written(p)
      BY <1>0, <2>1, <2>2 DEF Written
    <2>5. QED
      BY <1>0, <2>1, <2>3, <2>4, KeepLocks
  <1>8. CASE ReadCompanyQuota(p)
    <2>1. UNCHANGED <<rows, rowLock, pc, req, obj, wr, fresh>> /\ pc[p] = "quota"
      BY <1>8 DEF ReadCompanyQuota, db, locks, locals
    <2>2. QED
      BY <2>1, KeepLocks DEF Owns, Written
  <1>9. QED
    BY <1>1, <1>2, <1>3, <1>4, <1>5, <1>6, <1>7, <1>8

\* What the write of a row does when the path is free.
LEMMA WriteRowEffect ==
    ASSUME TypeInv, LockInv, NEW p \in Procs, WriteRow(p), ~Rollback(p)
    PROVE  /\ obj[p] \in Ids /\ Owns(p, obj[p]) /\ ~Written(p) /\ ~Deleting(p)
           /\ \A i \in Ids : wr[p][i] = Same
           /\ wr' = [wr EXCEPT ![p] = [@ EXCEPT ![obj[p]] = NewRow(p)]]
           /\ rowLock' = [rowLock EXCEPT ![obj[p]] = p]
           /\ pc' = [pc EXCEPT ![p] = IF req[p].op = "move" THEN "commit" ELSE "quota"]
           /\ UNCHANGED <<rows, fresh, req, obj, writes>>
           /\ NewRow(p) \in StorageObject /\ NewRow(p)' = NewRow(p)
           /\ req[p].op \in {"upload", "copy", "move"}
  <1>0. /\ Shape(p) /\ pc[p] = "row"
        /\ wr' = [wr EXCEPT ![p] = [@ EXCEPT ![obj[p]] = NewRow(p)]]
        /\ rowLock' = [rowLock EXCEPT ![obj[p]] = p]
        /\ pc' = [pc EXCEPT ![p] = IF req[p].op = "move" THEN "commit" ELSE "quota"]
        /\ UNCHANGED <<rows, fresh, req, obj, writes>>
    BY Typing DEF WriteRow, Goto, db, history
  <1>1. UploadShape(p) \/ CopyShape(p) \/ MoveShape(p)
    BY <1>0 DEF Shape, DeleteShape, AdminShape
  <1>2. /\ obj[p] \in Ids /\ Owns(p, obj[p]) /\ ~Written(p) /\ ~Deleting(p)
        /\ req[p].op \in {"upload", "copy", "move"}
    BY <1>0, <1>1, OpOf DEF Owns, Written, Deleting, UploadShape, CopyShape, MoveShape
  <1>3. NewRow(p) \in StorageObject
    BY <1>1, <1>2, NewRowType DEF LockInv, OwnersLock, OwnerLocks
  <1>4. NewRow(p)' = NewRow(p)
    BY <1>0 DEF NewRow, Overwriting
  <1>5. \A i \in Ids : wr[p][i] = Same
    BY <1>2, NothingWritten
  <1>6. QED
    BY <1>0, <1>2, <1>3, <1>4, <1>5

LEMMA WriteRowLocks ==
    ASSUME TypeInv, LockInv, NEW p \in Procs, WriteRow(p)
    PROVE  LockInv'
  <1>1. CASE Rollback(p)
    BY <1>1, RollbackLocks DEF WriteRow
  <1>2. CASE ~Rollback(p)
    <2>0. PICK i \in Ids : i = obj[p]
      BY <1>2, WriteRowEffect
    <2>1. /\ i \in Ids /\ Owns(p, i) /\ ~Written(p) /\ ~Deleting(p)
          /\ \A j \in Ids : wr[p][j] = Same
          /\ wr' = [wr EXCEPT ![p] = [@ EXCEPT ![i] = NewRow(p)]]
          /\ rowLock' = [rowLock EXCEPT ![i] = p]
          /\ pc' = [pc EXCEPT ![p] = IF req[p].op = "move" THEN "commit" ELSE "quota"]
          /\ UNCHANGED <<rows, fresh, req, obj>>
          /\ NewRow(p) \in StorageObject /\ NewRow(p)' = NewRow(p)
          /\ req[p].op \in {"upload", "copy", "move"}
      BY <1>2, <2>0, WriteRowEffect
    <2>2. /\ pc \in [Procs -> Labels] /\ fresh \subseteq Ids
          /\ wr \in [Procs -> [Ids -> StorageObject \cup {None, Same}]]
          /\ rowLock \in [Ids -> Procs \cup {None}]
      BY DEF TypeInv, TypeOK
    <2>3. wr'[p][i] = NewRow(p) /\ \A j \in Ids \ {i} : wr'[p][j] = Same
      BY <2>1, <2>2
    <2>4. Written(p)' /\ \A j \in Ids : Owns(p, j)' <=> j = i
      BY <2>0, <2>1, <2>2 DEF Owns, Written
    <2>5. \A q \in Procs \ {p} : ~Owns(q, i)
      BY <2>1 DEF LockInv, OwnersDiffer
    <2>6. \A q \in Procs \ {p} : wr[q][i] = Same
      BY <2>1, <2>5 DEF LockInv, WritesLocked, WriterLocks, OwnersLock, OwnerLocks
    <2>7. OwnerLocks(p, i)' /\ i \notin fresh'
      BY <2>1, <2>2 DEF LockInv, OwnersLock, OwnerLocks, FreshUnused
    <2>8. WriterLocks(p, i)'
      <3>1. NewRow(p) # None
        BY <2>1, SentinelAssumption
      <3>2. QED
        BY <2>1, <2>2, <2>3, <2>4, <3>1 DEF WriterLocks
    <2>9. \A q \in Procs \ {p} : /\ pc'[q] = pc[q] /\ req'[q] = req[q]
                                 /\ obj'[q] = obj[q] /\ wr'[q] = wr[q]
      BY <2>1, <2>2
    <2>10. \A q \in Procs \ {p}, j \in Ids :
              Owns(q, j) \/ wr[q][j] # Same =>
                /\ rows'[j] = rows[j]
                /\ rowLock[j] = q => rowLock'[j] = q
      BY <2>1, <2>2, <2>5, <2>6
    <2>11. Written(p)' => wr'[p][obj'[p]] = NewRow(p)'
      BY <2>0, <2>1, <2>3
    <2>12. \A j \in Ids : Owns(p, j)' => /\ OwnerLocks(p, j)'
                                         /\ j \notin fresh'
                                         /\ \A q \in Procs \ {p} : ~Owns(q, j)
      BY <2>4, <2>5, <2>7
    <2>13. \A j \in Ids : wr'[p][j] # Same => WriterLocks(p, j)'
      BY <2>3, <2>8
    <2>14. fresh' \subseteq fresh /\ \A j \in fresh : rows'[j] = rows[j]
      BY <2>1
    <2>15. QED
      BY <2>9, <2>10, <2>11, <2>12, <2>13, <2>14, LockFrame
  <1>3. QED
    BY <1>1, <1>2

LEMMA DeleteRowLocks ==
    ASSUME TypeInv, LockInv, NEW p \in Procs, DeleteRow(p)
    PROVE  LockInv'
  <1>0. /\ pc \in [Procs -> Labels] /\ fresh \subseteq Ids
        /\ todo \in [Procs -> Seq(Instance)]
        /\ wr \in [Procs -> [Ids -> StorageObject \cup {None, Same}]]
        /\ rowLock \in [Ids -> Procs \cup {None}]
        /\ Shape(p)
    BY Typing DEF TypeInv, TypeOK
  <1> DEFINE i == Head(todo[p]).id
             present == rows[i] # None /\ wr[p][i] = Same
  <1>1. /\ pc[p] = "drow" /\ pc' = [pc EXCEPT ![p] = "dblob"]
        /\ rowLock[i] \in {None, p}
        /\ UNCHANGED <<rows, fresh, req, obj>>
        /\ IF present
           THEN /\ rowLock' = [rowLock EXCEPT ![i] = p]
                /\ wr' = [wr EXCEPT ![p] = [@ EXCEPT ![i] = None]]
           ELSE UNCHANGED <<rowLock, wr>>
    BY DEF DeleteRow, Goto, db
  <1>2. DeleteShape(p)
    BY <1>0, <1>1 DEF Shape, UploadShape, CopyShape, MoveShape, AdminShape
  <1>3. Deleting(p) /\ Deleting(p)' /\ ~Written(p)' /\ pc'[p] = "dblob"
    BY <1>0, <1>1, <1>2, OpOf DEF Deleting, Written, DeleteShape
  <1>4. i \in Ids
    <2>1. Head(todo[p]) \in Instance
      BY <1>0, <1>1, <1>2 DEF DeleteShape
    <2>2. QED
      BY <2>1 DEF Instance
  <1> HIDE DEF i
  <1>5. \A j \in Ids : ~Owns(p, j)' /\ ~Owns(p, j)
    BY <1>1, <1>3 DEF Owns, Deleting
  <1>6. \A j \in Ids : wr'[p][j] # Same => WriterLocks(p, j)'
    <2> SUFFICES ASSUME NEW j \in Ids, wr'[p][j] # Same PROVE WriterLocks(p, j)'
      OBVIOUS
    <2>1. CASE present /\ j = i
      <3>1. wr'[p][j] = None /\ rowLock'[j] = p /\ rows'[j] # None
        BY <1>0, <1>1, <1>4, <2>1
      <3>2. QED
        BY <1>3, <3>1 DEF WriterLocks
    <2>2. CASE ~(present /\ j = i)
      <3>1. wr'[p][j] = wr[p][j] /\ rowLock'[j] = rowLock[j] /\ rows'[j] = rows[j]
        BY <1>0, <1>1, <1>4, <2>2
      <3>2. WriterLocks(p, j)
        BY <3>1 DEF LockInv, WritesLocked
      <3>3. wr[p][j] = None
        BY <1>5, <3>2 DEF WriterLocks
      <3>4. QED
        BY <1>3, <3>1, <3>2, <3>3 DEF WriterLocks
    <2>3. QED
      BY <2>1, <2>2
  <1>7. \A q \in Procs \ {p} : /\ pc'[q] = pc[q] /\ req'[q] = req[q]
                               /\ obj'[q] = obj[q] /\ wr'[q] = wr[q]
    BY <1>0, <1>1
  <1>8. \A q \in Procs \ {p}, j \in Ids : rowLock[j] = q => rowLock'[j] = q
    BY <1>0, <1>1, <1>4, ObjectStoreAssumption
  <1>9. QED
    BY <1>1, <1>3, <1>5, <1>6, <1>7, <1>8, LockFrame

\* A commit touches no row that another request owns, has written or may draw.
LEMMA CommitApart ==
    ASSUME TypeInv, LockInv, NEW p \in Procs, Commit(p), NEW i \in Ids
    PROVE  /\ \A q \in Procs \ {p} : Owns(q, i) \/ wr[q][i] # Same => rows'[i] = rows[i]
           /\ i \in fresh => rows'[i] = rows[i]
  <1>0. rows'[i] = IF wr[p][i] = Same THEN rows[i] ELSE wr[p][i]
    BY DEF Commit
  <1>1. wr[p][i] # Same => \A q \in Procs \ {p} : ~Owns(q, i) /\ wr[q][i] = Same
    BY DEF LockInv, WritesLocked, WriterLocks, OwnersDiffer, OwnersLock, OwnerLocks
  <1>2. wr[p][i] # Same => i \notin fresh
    BY DEF LockInv, WritesLocked, WriterLocks, FreshUnused
  <1>3. QED
    BY <1>0, <1>1, <1>2

LEMMA CommitLocks ==
    ASSUME TypeInv, LockInv, NEW p \in Procs, Commit(p)
    PROVE  LockInv'
  <1>0. /\ pc \in [Procs -> Labels] /\ fresh \subseteq Ids
        /\ req \in [Procs -> Request \cup {None}]
        /\ obj \in [Procs -> Ids \cup {None}]
        /\ wr \in [Procs -> [Ids -> StorageObject \cup {None, Same}]]
        /\ Shape(p)
    BY Typing DEF TypeInv, TypeOK
  <1>1. /\ wr' = [wr EXCEPT ![p] = NoWrites] /\ ReleaseLocks(p) /\ UNCHANGED fresh
        /\ pc[p] = "commit"
        /\ IF todo[p] = <<>> THEN EndRequest(p)
           ELSE pc' = [pc EXCEPT ![p] = "drow"] /\ UNCHANGED <<req, obj>>
    BY DEF Commit, EndTransaction
  <1>2. \A q \in Procs \ {p} : /\ pc'[q] = pc[q] /\ req'[q] = req[q]
                               /\ obj'[q] = obj[q] /\ wr'[q] = wr[q]
    BY <1>0, <1>1 DEF EndRequest
  <1>3. pc'[p] \in {"idle", "drow"} /\ \A i \in Ids : wr'[p][i] = Same
    BY <1>0, <1>1 DEF EndRequest, NoWrites
  <1>4. ~Written(p)' /\ \A i \in Ids : ~Owns(p, i)'
    BY <1>3 DEF Written, Owns
  <1>5. \A q \in Procs \ {p}, i \in Ids :
            Owns(q, i) \/ wr[q][i] # Same =>
              /\ rows'[i] = rows[i]
              /\ rowLock[i] = q => rowLock'[i] = q
    BY <1>1, CommitApart DEF ReleaseLocks
  <1>6. \A i \in fresh : rows'[i] = rows[i]
    BY <1>0, CommitApart
  <1>7. QED
    BY <1>1, <1>2, <1>3, <1>4, <1>5, <1>6, LockFrame

LEMMA QuotaPutLocks ==
    ASSUME TypeInv, LockInv, NEW p \in Procs, SaveQuota(p)
    PROVE  LockInv'
  <1>0. Shape(p) /\ pc[p] = "save" /\ pc \in [Procs -> Labels]
        /\ req \in [Procs -> Request \cup {None}] /\ obj \in [Procs -> Ids \cup {None}]
    BY Typing DEF SaveQuota
  <1>1. req[p].op = "admin"
    BY <1>0, OpOf DEF Shape, UploadShape, CopyShape, MoveShape, DeleteShape, AdminShape
  <1>2. \A i \in Ids : wr[p][i] = Same
    BY <1>1, NothingWritten DEF Written, Deleting
  <1>3. EndRequest(p) /\ UNCHANGED <<rows, rowLock, wr, fresh>>
    BY DEF SaveQuota, locks, tx
  <1>4. pc'[p] = "idle" /\ \A q \in Procs \ {p} : /\ pc'[q] = pc[q] /\ req'[q] = req[q]
                                                  /\ obj'[q] = obj[q]
    BY <1>0, <1>3 DEF EndRequest
  <1>5. ~Written(p)' /\ \A i \in Ids : ~Owns(p, i)'
    BY <1>4 DEF Written, Owns
  <1>6. QED
    BY <1>2, <1>3, <1>4, <1>5, LockFrame

LEMMA NextLocks == TypeInv /\ LockInv /\ [Next]_vars => LockInv'
  <1> SUFFICES ASSUME TypeInv, LockInv, [Next]_vars PROVE LockInv'
    OBVIOUS
  <1>1. ASSUME NEW p \in Procs, Start(p) PROVE LockInv'
    BY <1>1, StartLocks
  <1>2. ASSUME NEW p \in Procs, Step(p) PROVE LockInv'
    BY <1>2, MiddleLocks, WriteRowLocks, DeleteRowLocks, CommitLocks, QuotaPutLocks DEF Step
  <1>3. ASSUME NEW p \in Procs, Fault(p) \/ DeadlockVictim(p) PROVE LockInv'
    BY <1>3, RollbackLocks DEF Fault, DeadlockVictim
  <1>4. CASE PutUserQuota \/ UNCHANGED vars
    <2>1. UNCHANGED <<rows, rowLock, pc, req, obj, wr, fresh>>
      BY <1>4 DEF PutUserQuota, vars, db, locks, locals, tx
    <2>2. QED
      BY <2>1 DEF LockInv, OwnersLock, OwnerLocks, OwnersDiffer, FreshUnused, WritesLocked,
                  WriterLocks, OwnersWrite, Owns, Written, Deleting, NewRow, Overwriting
  <1>5. QED
    BY <1>1, <1>2, <1>3, <1>4 DEF Next

\* Every state of every run has the types of TypeOK, whatever the number of
\* requests, users, paths, objects and contents; the row images a transaction
\* will commit are well formed because their objects are locked.
THEOREM TypeCorrect == Spec => []TypeOK
  <1>1. Init => TypeInv /\ LockInv
    BY InitType, InitLocks
  <1>2. TypeInv /\ LockInv /\ [Next]_vars => TypeInv' /\ LockInv'
    BY NextType, NextLocks
  <1>3. TypeInv => TypeOK
    BY DEF TypeInv
  <1>4. QED
    BY <1>1, <1>2, <1>3, PTL DEF Spec

(***************************************************************************)
(* No lost overwrite, one object per path                                  *)
(***************************************************************************)

\* What the properties below see of a step that is no Commit.
Quiet ==
    /\ UNCHANGED <<rows, writes>>
    /\ fresh' \subseteq fresh
    /\ \A q \in Procs, i \in Ids :
          /\ Owns(q, i)' => Owns(q, i) \/ i \in fresh \/ rows[i] # None
          /\ wr'[q][i] \notin {None, Same} => wr'[q][i] = wr[q][i] \/ WriteRow(q)

\* A step of p is quiet if it is so for p itself.
LEMMA QuietFrame ==
    ASSUME TypeInv, NEW p \in Procs, UNCHANGED <<rows, writes>>, fresh' \subseteq fresh,
           \A q \in Procs \ {p} : /\ pc'[q] = pc[q] /\ req'[q] = req[q]
                                  /\ obj'[q] = obj[q] /\ wr'[q] = wr[q],
           \A i \in Ids : Owns(p, i)' => Owns(p, i) \/ i \in fresh \/ rows[i] # None,
           \/ wr'[p] = wr[p] \/ WriteRow(p)
           \/ \A i \in Ids : wr'[p][i] \in {None, Same, wr[p][i]}
    PROVE  Quiet
  <1> SUFFICES ASSUME NEW q \in Procs, NEW i \in Ids
               PROVE  /\ Owns(q, i)' => Owns(q, i) \/ i \in fresh \/ rows[i] # None
                      /\ wr'[q][i] \notin {None, Same} => wr'[q][i] = wr[q][i] \/ WriteRow(q)
    BY DEF Quiet
  <1>1. CASE q # p
    BY <1>1 DEF Owns
  <1>2. CASE q = p
    BY <1>2
  <1>3. QED
    BY <1>1, <1>2

LEMMA EndQuiet ==
    ASSUME TypeInv, NEW p \in Procs, EndRequest(p), UNCHANGED <<rows, writes, fresh>>,
           \/ UNCHANGED wr
           \/ wr' = [wr EXCEPT ![p] = NoWrites]
    PROVE  Quiet
  <1>0. /\ pc \in [Procs -> Labels] /\ obj \in [Procs -> Ids \cup {None}]
        /\ req \in [Procs -> Request \cup {None}]
        /\ wr \in [Procs -> [Ids -> StorageObject \cup {None, Same}]]
    BY DEF TypeInv, TypeOK
  <1>1. pc'[p] = "idle" /\ \A q \in Procs \ {p} : /\ pc'[q] = pc[q] /\ req'[q] = req[q]
                                                  /\ obj'[q] = obj[q] /\ wr'[q] = wr[q]
    BY <1>0 DEF EndRequest
  <1>2. \A i \in Ids : ~Owns(p, i)'
    BY <1>1 DEF Owns
  <1>3. wr'[p] = wr[p] \/ \A i \in Ids : wr'[p][i] = Same
    BY <1>0 DEF NoWrites
  <1>4. QED
    BY <1>1, <1>2, <1>3, QuietFrame

LEMMA StartQuiet ==
    ASSUME TypeInv, NEW p \in Procs, Start(p)
    PROVE  Quiet
  <1>0. obj \in [Procs -> Ids \cup {None}]
    BY Typing
  <1>1. ASSUME NEW l \in {"lock", "check", "drow", "save"}, NEW r, Begin(p, l, r),
               l = "check" => r.op = "copy", \A q \in Procs \ {p} : obj'[q] = obj[q]
        PROVE  Quiet
    <2>1. /\ UNCHANGED <<rows, writes, wr, fresh>> /\ pc'[p] = l /\ req'[p] = r
          /\ \A q \in Procs \ {p} : pc'[q] = pc[q] /\ req'[q] = req[q]
      BY <1>1 DEF Begin, db, tx, history, TypeInv, TypeOK
    <2>2. \A i \in Ids : ~Owns(p, i)'
      BY <1>1, <2>1 DEF Owns
    <2>3. QED
      BY <1>1, <2>1, <2>2, QuietFrame
  <1>2. CASE StartUpload(p)
    BY <1>0, <1>1, <1>2 DEF StartUpload
  <1>3. CASE StartCopy(p)
    BY <1>0, <1>1, <1>3 DEF StartCopy
  <1>4. CASE StartMove(p)
    BY <1>0, <1>1, <1>4 DEF StartMove
  <1>5. CASE StartDelete(p, "delete") \/ StartDelete(p, "dav_delete")
    BY <1>0, <1>1, <1>5 DEF StartDelete
  <1>6. CASE StartQuotaPut(p)
    BY <1>0, <1>1, <1>6 DEF StartQuotaPut
  <1>7. QED
    BY <1>2, <1>3, <1>4, <1>5, <1>6 DEF Start

LEMMA StepQuiet ==
    ASSUME TypeInv, LockInv, NEW p \in Procs, Step(p), ~Commit(p)
    PROVE  Quiet
  <1>0. /\ pc \in [Procs -> Labels] /\ obj \in [Procs -> Ids \cup {None}]
        /\ req \in [Procs -> Request \cup {None}] /\ fresh \subseteq Ids
        /\ wr \in [Procs -> [Ids -> StorageObject \cup {None, Same}]]
        /\ Shape(p)
    BY Typing DEF TypeInv, TypeOK
  <1>1. CASE LockUpload(p) \/ LockMove(p) \/ CheckQuota(p) \/ OpenSource(p)
    <2>2. UNCHANGED <<rows, writes, wr>> /\ fresh' \subseteq fresh
      BY <1>1 DEF LockUpload, LockMove, CheckQuota, OpenSource, db, tx, history
    <2>3. CASE Refuse(p) /\ UNCHANGED fresh
      BY <2>2, <2>3, EndQuiet DEF Refuse
    <2>4. CASE ~(Refuse(p) /\ UNCHANGED fresh)
      <3>1. /\ \A q \in Procs \ {p} : pc'[q] = pc[q] /\ req'[q] = req[q] /\ obj'[q] = obj[q]
            /\ req'[p] = req[p]
        BY <1>0, <1>1, <2>4 DEF LockUpload, LockMove, CheckQuota, OpenSource, Goto
      <3>2. \A i \in Ids : Owns(p, i)' => Owns(p, i) \/ i \in fresh \/ rows[i] # None
        <4>1. CASE LockUpload(p)
          BY <1>0, <2>4, <4>1 DEF LockUpload, Goto, Owns, Locked
        <4>2. CASE LockMove(p)
          BY <1>0, <2>4, <4>2 DEF LockMove, Goto, Owns, Locked
        <4>3. CASE CheckQuota(p)
          BY <1>0, <2>4, <4>3, OpOf DEF CheckQuota, Goto, Owns, Shape, UploadShape, CopyShape,
                                  MoveShape, DeleteShape, AdminShape
        <4>4. CASE OpenSource(p)
          BY <1>0, <2>4, <4>4 DEF OpenSource, Owns
        <4>5. QED
          BY <1>1, <4>1, <4>2, <4>3, <4>4
      <3>3. QED
        BY <2>2, <3>1, <3>2, QuietFrame
    <2>5. QED
      BY <2>3, <2>4
  <1>2. CASE SaveBlob(p) \/ delete_storage_key(p)
    <2>1. /\ UNCHANGED <<rows, writes, wr, req, obj, fresh>>
          /\ pc[p] \in {"blob", "dblob"} /\ pc'[p] \in {"row", "quota"}
          /\ pc[p] = "blob" => pc'[p] = "row"
          /\ \A q \in Procs \ {p} : pc'[q] = pc[q]
      BY <1>0, <1>2 DEF SaveBlob, delete_storage_key, Goto, db, history
    <2>2. \A i \in Ids : Owns(p, i)' => Owns(p, i)
      BY <1>0, <2>1, OpOf DEF Owns, Shape, UploadShape, CopyShape, MoveShape, DeleteShape,
                              AdminShape
    <2>3. QED
      BY <2>1, <2>2, QuietFrame
  <1>3. CASE WriteRow(p)
    <2>1. CASE Rollback(p)
      BY <1>3, <2>1, EndQuiet DEF WriteRow, Rollback, EndTransaction, db
    <2>2. CASE ~Rollback(p)
      <3>1. PICK i \in Ids : i = obj[p]
        BY <1>3, <2>2, WriteRowEffect
      <3>2. /\ Owns(p, i) /\ UNCHANGED <<rows, writes, fresh, req, obj>>
            /\ \A q \in Procs \ {p} : pc'[q] = pc[q] /\ wr'[q] = wr[q]
        BY <1>0, <1>3, <2>2, <3>1, WriteRowEffect
      <3>3. \A j \in Ids : Owns(p, j)' => Owns(p, j)
        BY <3>1, <3>2 DEF Owns
      <3>4. QED
        BY <1>3, <3>2, <3>3, QuietFrame
    <2>3. QED
      BY <2>1, <2>2
  <1>4. CASE DeleteRow(p)
    <2> DEFINE i == Head(todo[p]).id
    <2>1. /\ UNCHANGED <<rows, writes, req, obj, fresh>> /\ pc' = [pc EXCEPT ![p] = "dblob"]
          /\ \/ wr' = [wr EXCEPT ![p] = [@ EXCEPT ![i] = None]]
             \/ UNCHANGED wr
      BY <1>4 DEF DeleteRow, Goto, db, history
    <2> HIDE DEF i
    <2>2. \A q \in Procs \ {p} : pc'[q] = pc[q] /\ wr'[q] = wr[q]
      BY <1>0, <2>1
    <2>3. \A j \in Ids : wr'[p][j] \in {None, Same, wr[p][j]} /\ ~Owns(p, j)'
      BY <1>0, <2>1 DEF Owns
    <2>4. QED
      BY <2>1, <2>2, <2>3, QuietFrame
  <1>5. CASE apply_usage_delta(p)
    <2> DEFINE rest == IF Deleting(p) THEN Tail(todo[p]) ELSE <<>>
               l == IF req[p].op = "delete" /\ rest # <<>> THEN "drow" ELSE "commit"
    <2>1. /\ pc[p] = "quota" /\ pc' = [pc EXCEPT ![p] = l]
          /\ UNCHANGED <<rows, writes, wr, fresh, req, obj>>
      BY <1>5 DEF apply_usage_delta, db, history
    <2> HIDE DEF rest
    <2>2. \A i \in Ids : Owns(p, i)' => Owns(p, i)
      BY <1>0, <2>1, OpOf DEF Owns, Shape, UploadShape, CopyShape, MoveShape, DeleteShape,
                              AdminShape
    <2>3. QED
      BY <1>0, <2>1, <2>2, QuietFrame
  <1>6. CASE SaveQuota(p)
    BY <1>6, EndQuiet DEF SaveQuota, tx
  <1>7. CASE ReadCompanyQuota(p)
    BY <1>7 DEF ReadCompanyQuota, Quiet, Owns, db, locals, history
  <1>8. QED
    BY <1>1, <1>2, <1>3, <1>4, <1>5, <1>6, <1>7 DEF Step

LEMMA NextQuiet ==
    ASSUME TypeInv, LockInv, [Next]_vars, \A p \in Procs : ~Commit(p)
    PROVE  Quiet
  <1>1. ASSUME NEW p \in Procs, Fault(p) \/ DeadlockVictim(p) PROVE Quiet
    BY <1>1, EndQuiet DEF Fault, DeadlockVictim, Rollback, EndTransaction, db
  <1>2. CASE PutUserQuota \/ UNCHANGED vars
    <2>1. UNCHANGED <<rows, writes, pc, req, obj, wr, fresh>>
      BY <1>2 DEF PutUserQuota, vars, db, locals, tx, history
    <2>2. QED
      BY <2>1 DEF Quiet, Owns
  <1>3. QED
    BY <1>1, <1>2, StartQuiet, StepQuiet DEF Next

\* What a commit publishes: the image of the owned object, or nothing but
\* deletions, and it counts an overwrite exactly when it publishes one.
LEMMA CommitEffect ==
    ASSUME TypeInv, LockInv, NEW p \in Procs, Commit(p)
    PROVE  /\ fresh' = fresh
           /\ \A i \in Ids :
                /\ rows'[i] = IF wr[p][i] = Same THEN rows[i] ELSE wr[p][i]
                /\ wr[p][i] \notin {None, Same} =>
                      Owns(p, i) /\ obj[p] = i /\ Written(p) /\ wr[p][i] = NewRow(p)
                /\ writes'[i] = IF Overwriting(p) /\ obj[p] = i THEN writes[i] + 1 ELSE writes[i]
                /\ Overwriting(p) /\ obj[p] = i => wr[p][i] \notin {None, Same}
           /\ \A q \in Procs, i \in Ids : Owns(q, i)' => q # p /\ Owns(q, i) /\ rows'[i] = rows[i]
           /\ \A q \in Procs, i \in Ids : wr'[q][i] # Same => q # p /\ wr'[q][i] = wr[q][i]
  <1>0. /\ pc \in [Procs -> Labels] /\ obj \in [Procs -> Ids \cup {None}]
        /\ req \in [Procs -> Request \cup {None}] /\ writes \in [Ids -> Nat]
        /\ wr \in [Procs -> [Ids -> StorageObject \cup {None, Same}]]
        /\ Shape(p)
    BY Typing DEF TypeInv, TypeOK
  <1>1. /\ wr' = [wr EXCEPT ![p] = NoWrites] /\ fresh' = fresh /\ pc[p] = "commit"
        /\ IF todo[p] = <<>> THEN EndRequest(p)
           ELSE pc' = [pc EXCEPT ![p] = "drow"] /\ UNCHANGED <<req, obj>>
        /\ rows' = [i \in Ids |-> IF wr[p][i] = Same THEN rows[i] ELSE wr[p][i]]
        /\ writes' = IF Overwriting(p) THEN [writes EXCEPT ![obj[p]] = @ + 1] ELSE writes
    BY DEF Commit, EndTransaction
  <1>2. \A i \in Ids : wr[p][i] \notin {None, Same} =>
            Owns(p, i) /\ obj[p] = i /\ Written(p) /\ wr[p][i] = NewRow(p)
    BY DEF LockInv, WritesLocked, WriterLocks, OwnersWrite, Owns
  <1>3. Overwriting(p) => obj[p] \in Ids /\ wr[p][obj[p]] \notin {None, Same}
    <2> SUFFICES ASSUME Overwriting(p)
                 PROVE  obj[p] \in Ids /\ wr[p][obj[p]] \notin {None, Same}
      OBVIOUS
    <2>1. Written(p) /\ req[p].op = "upload"
      BY <1>1 DEF Written, Overwriting
    <2>2. UploadShape(p) /\ obj[p] \in Ids
      BY <1>0, <1>1, <2>1, OpOf DEF Shape, UploadShape, CopyShape, MoveShape, DeleteShape,
                                    AdminShape
    <2>3. NewRow(p) \in StorageObject
      BY <2>1, <2>2, NewRowType
    <2>4. QED
      BY <2>1, <2>2, <2>3, SentinelAssumption DEF LockInv, OwnersWrite
  <1>4. \A i \in Ids : writes'[i] = IF Overwriting(p) /\ obj[p] = i THEN writes[i] + 1
                                    ELSE writes[i]
    BY <1>0, <1>1, <1>3
  <1>5. pc'[p] \in {"idle", "drow"}
    BY <1>0, <1>1 DEF EndRequest
  <1>6. \A q \in Procs \ {p} : pc'[q] = pc[q] /\ req'[q] = req[q] /\ obj'[q] = obj[q]
    BY <1>0, <1>1 DEF EndRequest
  <1>7. \A q \in Procs, i \in Ids : Owns(q, i)' => q # p /\ Owns(q, i) /\ rows'[i] = rows[i]
    BY <1>5, <1>6, CommitApart DEF Owns
  <1>8. \A q \in Procs, i \in Ids : wr'[q][i] # Same => q # p /\ wr'[q][i] = wr[q][i]
    BY <1>0, <1>1 DEF NoWrites
  <1>9. QED
    BY <1>1, <1>2, <1>3, <1>4, <1>7, <1>8

LEMMA NextVersion ==
    TypeInv /\ LockInv /\ VersionInv /\ [Next]_vars => VersionInv'
  <1> SUFFICES ASSUME TypeInv, LockInv, VersionInv, [Next]_vars PROVE VersionInv'
    OBVIOUS
  <1>0. rows \in [Ids -> StorageObject \cup {None}] /\ writes \in [Ids -> Nat]
    BY DEF TypeInv, TypeOK
  <1>1. CASE Quiet
    BY <1>1 DEF Quiet, VersionInv, NoLostOverwrite, NewObjectsUnwritten, Live
  <1>2. ASSUME NEW p \in Procs, Commit(p) PROVE VersionInv'
    <2>1. /\ fresh' = fresh
          /\ \A i \in Ids :
               /\ rows'[i] = IF wr[p][i] = Same THEN rows[i] ELSE wr[p][i]
               /\ wr[p][i] \notin {None, Same} =>
                     Owns(p, i) /\ obj[p] = i /\ Written(p) /\ wr[p][i] = NewRow(p)
               /\ writes'[i] = IF Overwriting(p) /\ obj[p] = i THEN writes[i] + 1 ELSE writes[i]
               /\ Overwriting(p) /\ obj[p] = i => wr[p][i] \notin {None, Same}
          /\ \A q \in Procs, i \in Ids : Owns(q, i)' => q # p /\ Owns(q, i) /\ rows'[i] = rows[i]
      BY <1>2, CommitEffect
    <2>2. NoLostOverwrite'
      <3> SUFFICES ASSUME NEW i \in Ids, rows'[i] # None
                   PROVE  rows'[i].version = 1 + writes'[i]
        BY DEF NoLostOverwrite, Live
      <3>1. CASE wr[p][i] = Same
        BY <2>1, <3>1 DEF VersionInv, NoLostOverwrite, Live
      <3>2. CASE wr[p][i] # Same
        <4>1. Owns(p, i) /\ obj[p] = i /\ Written(p) /\ rows'[i] = NewRow(p)
          BY <2>1, <3>2
        <4>2. CASE req[p].op = "move"
          <5>1. rows[i] # None
            BY <4>1, <4>2 DEF LockInv, OwnersLock, OwnerLocks
          <5>2. NewRow(p).version = rows[i].version /\ ~Overwriting(p)
            BY <4>1, <4>2 DEF NewRow, Overwriting
          <5>3. QED
            BY <2>1, <4>1, <5>1, <5>2 DEF VersionInv, NoLostOverwrite, Live
        <4>3. CASE Overwriting(p)
          <5>1. rows[i] # None /\ NewRow(p).version = rows[i].version + 1
            BY <4>1, <4>3 DEF NewRow, Overwriting
          <5>2. QED
            BY <1>0, <2>1, <4>1, <4>3, <5>1 DEF VersionInv, NoLostOverwrite, Live
        <4>4. CASE req[p].op # "move" /\ ~Overwriting(p)
          <5>1. NewRow(p).version = 1
            BY <4>4 DEF NewRow
          <5>2. rows[i] = None
            BY <4>1, <4>4 DEF LockInv, OwnersLock, OwnerLocks, Overwriting, Written
          <5>3. writes[i] = 0
            BY <4>1, <5>2 DEF VersionInv, NewObjectsUnwritten
          <5>4. QED
            BY <2>1, <4>1, <4>4, <5>1, <5>3
        <4>5. QED
          BY <4>2, <4>3, <4>4
      <3>3. QED
        BY <3>1, <3>2
    <2>3. NewObjectsUnwritten'
      <3> SUFFICES ASSUME NEW i \in Ids,
                          \/ i \in fresh'
                          \/ \E q \in Procs : Owns(q, i)' /\ rows'[i] = None
                   PROVE  writes'[i] = 0
        BY DEF NewObjectsUnwritten
      <3>1. writes[i] = 0
        BY <2>1 DEF VersionInv, NewObjectsUnwritten
      <3>2. ~(Overwriting(p) /\ obj[p] = i)
        <4>1. CASE i \in fresh'
          BY <2>1, <4>1 DEF LockInv, FreshUnused
        <4>2. CASE \E q \in Procs : Owns(q, i)' /\ rows'[i] = None
          BY <2>1, <4>2 DEF LockInv, OwnersDiffer
        <4>3. QED
          BY <4>1, <4>2
      <3>3. QED
        BY <2>1, <3>1, <3>2
    <2>4. QED
      BY <2>2, <2>3 DEF VersionInv
  <1>3. QED
    BY <1>1, <1>2, NextQuiet

\* No overwrite is ever lost: an object's version is 1 plus the number of
\* overwrites committed on it, for any number of concurrent requests.
THEOREM OverwritesCounted == Spec => []NoLostOverwrite
  <1>1. Init => TypeInv /\ LockInv /\ VersionInv
    BY InitType, InitLocks DEF Init, VersionInv, NoLostOverwrite, NewObjectsUnwritten, Live
  <1>2. TypeInv /\ LockInv /\ VersionInv /\ [Next]_vars => TypeInv' /\ LockInv' /\ VersionInv'
    BY NextType, NextLocks, NextVersion
  <1>3. VersionInv => NoLostOverwrite
    BY DEF VersionInv
  <1>4. QED
    BY <1>1, <1>2, <1>3, PTL DEF Spec

\* A row is written only under a path that no row and no image has.
LEMMA WriteRowPaths ==
    ASSUME TypeInv, LockInv, PathInv, NEW p \in Procs, WriteRow(p), ~Rollback(p), Quiet
    PROVE  PathInv'
  <1>0. PICK i \in Ids : i = obj[p]
    BY WriteRowEffect
  <1>1. /\ Owns(p, i)
        /\ \A j \in Ids : wr[p][j] = Same
        /\ wr' = [wr EXCEPT ![p] = [@ EXCEPT ![i] = NewRow(p)]]
        /\ UNCHANGED rows
    BY <1>0, WriteRowEffect
  <1>2. wr \in [Procs -> [Ids -> StorageObject \cup {None, Same}]]
    BY DEF TypeInv, TypeOK
  <1>3. /\ wr'[p][i] = NewRow(p) /\ \A j \in Ids \ {i} : wr'[p][j] = Same
        /\ \A q \in Procs \ {p} : wr'[q] = wr[q]
    BY <1>1, <1>2
  <1> DEFINE n == NewRow(p).name
  <1>4. \A j \in Live : rows[j].name = n => j = i
    <2>1. CASE Overwriting(p)
      <3>1. n = rows[i].name /\ i \in Live
        BY <1>0, <2>1 DEF NewRow, Overwriting, Live
      <3>2. QED
        BY <3>1 DEF PathInv, OneObjectPerPath
    <2>2. CASE ~Overwriting(p)
      <3>1. n = req[p].name
        BY <2>2 DEF NewRow
      <3>2. At(req[p].name) = {}
        BY <2>2 DEF WriteRow
      <3>3. QED
        BY <3>1, <3>2 DEF At, Live
    <2>3. QED
      BY <2>1, <2>2
  <1>5. \A q \in Procs \ {p}, j \in Ids : Image(q, j) => wr[q][j].name # n
    <2> SUFFICES ASSUME NEW q \in Procs \ {p}, NEW j \in Ids, Image(q, j), wr[q][j].name = n
                 PROVE  FALSE
      OBVIOUS
    <2>1. CASE Overwriting(p)
      <3>1. n = rows[i].name /\ i \in Live
        BY <1>0, <2>1 DEF NewRow, Overwriting, Live
      <3>2. i = j
        BY <3>1 DEF PathInv, ImagesApart
      <3>3. Owns(q, i)
        BY <3>2 DEF Image, LockInv, WritesLocked, WriterLocks
      <3>4. QED
        BY <1>1, <3>3 DEF LockInv, OwnersDiffer
    <2>2. CASE ~Overwriting(p)
      <3>1. n = req[p].name
        BY <2>2 DEF NewRow
      <3>2. WritersOf(p, req[p].name) = {}
        BY <2>2 DEF WriteRow
      <3>3. q \in WritersOf(p, req[p].name)
        BY <3>1 DEF WritersOf, Dirty, Image
      <3>4. QED
        BY <3>2, <3>3
    <2>3. QED
      BY <2>1, <2>2
  <1> HIDE DEF n
  <1>6. /\ \A q \in Procs \ {p}, j \in Ids : Image(q, j)' <=> Image(q, j)
        /\ \A j \in Ids : Image(p, j)' => j = i
    BY <1>3 DEF Image
  <1>7. wr'[p][i].name = n
    BY <1>3 DEF n
  <1>8. ImagesApart'
    <2> SUFFICES ASSUME NEW q \in Procs, NEW j \in Ids, Image(q, j)'
                 PROVE  /\ \A k \in Live' : rows'[k].name = wr'[q][j].name => k = j
                        /\ \A r \in Procs, k \in Ids :
                              Image(r, k)' /\ wr'[r][k].name = wr'[q][j].name => r = q /\ k = j
      BY DEF ImagesApart
    <2>0. Live' = Live
      BY <1>1 DEF Live
    <2>1. CASE q = p
      BY <1>1, <1>3, <1>4, <1>5, <1>6, <1>7, <2>0, <2>1
    <2>2. CASE q # p
      <3>1. Image(q, j) /\ wr'[q][j] = wr[q][j]
        BY <1>3, <1>6, <2>2
      <3>2. ASSUME NEW r \in Procs, NEW k \in Ids, Image(r, k)',
                   wr'[r][k].name = wr'[q][j].name
            PROVE  r = q /\ k = j
        <4>1. r # p
          BY <1>5, <1>6, <1>7, <2>2, <3>1, <3>2
        <4>2. Image(r, k) /\ wr'[r][k] = wr[r][k]
          BY <1>3, <1>6, <3>2, <4>1
        <4>3. QED
          BY <3>1, <3>2, <4>2 DEF PathInv, ImagesApart
      <3>3. QED
        BY <1>1, <2>0, <3>1, <3>2 DEF PathInv, ImagesApart
    <2>3. QED
      BY <2>1, <2>2
  <1>9. OneObjectPerPath'
    BY <1>1 DEF PathInv, OneObjectPerPath, Live
  <1>10. QED
    BY <1>8, <1>9 DEF PathInv

\* A commit gives paths away only to the images that had reserved them.
LEMMA CommitPaths ==
    ASSUME TypeInv, LockInv, PathInv, NEW p \in Procs, Commit(p)
    PROVE  PathInv'
  <1>1. \A i \in Ids : /\ rows'[i] = IF wr[p][i] = Same THEN rows[i] ELSE wr[p][i]
                       /\ Image(p, i) => obj[p] = i
    BY CommitEffect DEF Image
  <1>2. \A q \in Procs, i \in Ids : Image(q, i)' => /\ q # p /\ Image(q, i)
                                                   /\ wr'[q][i] = wr[q][i]
    BY CommitEffect DEF Image
  <1>3. \A i \in Live' : \/ i \in Live /\ rows'[i] = rows[i]
                         \/ i \in Ids /\ Image(p, i) /\ rows'[i] = wr[p][i]
    BY <1>1 DEF Live, Image
  <1>4. OneObjectPerPath'
    <2> SUFFICES ASSUME NEW i \in Live', NEW j \in Live', rows'[i].name = rows'[j].name
                 PROVE  i = j
      BY DEF OneObjectPerPath
    <2>1. CASE Image(p, i) /\ rows'[i] = wr[p][i] /\ i \in Ids
      BY <1>1, <1>3, <2>1 DEF PathInv, ImagesApart
    <2>2. CASE Image(p, j) /\ rows'[j] = wr[p][j] /\ j \in Ids
      BY <1>1, <1>3, <2>2 DEF PathInv, ImagesApart
    <2>3. CASE i \in Live /\ rows'[i] = rows[i] /\ j \in Live /\ rows'[j] = rows[j]
      BY <2>3 DEF PathInv, OneObjectPerPath
    <2>4. QED
      BY <1>3, <2>1, <2>2, <2>3
  <1>5. ImagesApart'
    <2> SUFFICES ASSUME NEW q \in Procs, NEW i \in Ids, Image(q, i)'
                 PROVE  /\ \A j \in Live' : rows'[j].name = wr'[q][i].name => j = i
                        /\ \A r \in Procs, j \in Ids :
                              Image(r, j)' /\ wr'[r][j].name = wr'[q][i].name => r = q /\ j = i
      BY DEF ImagesApart
    <2>1. q # p /\ Image(q, i) /\ wr'[q][i] = wr[q][i]
      BY <1>2
    <2>2. \A j \in Live' : rows'[j].name = wr'[q][i].name => j = i
      BY <1>3, <2>1 DEF PathInv, ImagesApart
    <2>3. QED
      BY <1>2, <2>1, <2>2 DEF PathInv, ImagesApart
  <1>6. QED
    BY <1>4, <1>5 DEF PathInv

LEMMA NextPaths == TypeInv /\ LockInv /\ PathInv /\ [Next]_vars => PathInv'
  <1> SUFFICES ASSUME TypeInv, LockInv, PathInv, [Next]_vars PROVE PathInv'
    OBVIOUS
  <1>1. ASSUME NEW p \in Procs, Commit(p) PROVE PathInv'
    BY <1>1, CommitPaths
  <1>2. ASSUME NEW p \in Procs, WriteRow(p), ~Rollback(p), Quiet PROVE PathInv'
    BY <1>2, WriteRowPaths
  <1>3. CASE Quiet /\ \A p \in Procs : ~(WriteRow(p) /\ ~Rollback(p))
    <2>1. \A q \in Procs, i \in Ids : Image(q, i)' => Image(q, i) /\ wr'[q][i] = wr[q][i]
      <3> SUFFICES ASSUME NEW q \in Procs, NEW i \in Ids, Image(q, i)'
                   PROVE  Image(q, i) /\ wr'[q][i] = wr[q][i]
        OBVIOUS
      <3>1. CASE Rollback(q)
        <4>1. wr' = [wr EXCEPT ![q] = NoWrites]
          BY <3>1 DEF Rollback, EndTransaction
        <4>2. wr'[q][i] = Same
          BY <4>1 DEF TypeInv, TypeOK, NoWrites
        <4>3. QED
          BY <4>2 DEF Image
      <3>2. CASE ~Rollback(q)
        BY <1>3, <3>2 DEF Quiet, Image
      <3>3. QED
        BY <3>1, <3>2
    <2>2. UNCHANGED rows /\ Live' = Live
      BY <1>3 DEF Quiet, Live
    <2>3. OneObjectPerPath'
      BY <2>2 DEF PathInv, OneObjectPerPath
    <2>4. ImagesApart'
      BY <2>1, <2>2 DEF PathInv, ImagesApart
    <2>5. QED
      BY <2>3, <2>4 DEF PathInv
  <1>4. QED
    BY <1>1, <1>2, <1>3, NextQuiet

\* No two objects ever have one path, however many uploads, copies and moves
\* race for it: the unique constraint's wait and re-check suffice.
THEOREM PathsUnique == Spec => []OneObjectPerPath
  <1>1. Init => TypeInv /\ LockInv /\ PathInv
    BY InitType, InitLocks DEF Init, PathInv, OneObjectPerPath, ImagesApart, Image, Live,
                               NoWrites
  <1>2. TypeInv /\ LockInv /\ PathInv /\ [Next]_vars => TypeInv' /\ LockInv' /\ PathInv'
    BY NextType, NextLocks, NextPaths
  <1>3. PathInv => OneObjectPerPath
    BY DEF PathInv
  <1>4. QED
    BY <1>1, <1>2, <1>3, PTL DEF Spec

(***************************************************************************)
(* The paths as a client sees them: ObjectStore implements PathStore       *)
(***************************************************************************)

\* What PathMap shows of a row.
Shown(o) == [etag |-> o.etag, owner |-> o.owner, version |-> o.version]

\* PathMap shows the one row of a path, and None where there is none.
ShowsRows ==
    /\ PathMap \in [Names -> {None} \cup {Shown(rows[i]) : i \in Live}]
    /\ \A n \in Names : (\A i \in Live : rows[i].name # n) => PathMap[n] = None
    /\ \A n \in Names, i \in Live : rows[i].name = n => PathMap[n] = Shown(rows[i])

LEMMA PathMapEntry == OneObjectPerPath => ShowsRows
  <1> SUFFICES ASSUME OneObjectPerPath PROVE ShowsRows
    OBVIOUS
  <1>1. \A n \in Names : (\A i \in Live : rows[i].name # n) => PathMap[n] = None
    BY DEF PathMap, At, Live
  <1>2. ASSUME NEW n \in Names, NEW i \in Live, rows[i].name = n
        PROVE  PathMap[n] = Shown(rows[i])
    <2>1. At(n) = {i}
      BY <1>2 DEF At, Live, OneObjectPerPath
    <2>2. Lookup(n) = i
      BY <2>1 DEF Lookup
    <2>3. QED
      BY <2>1, <2>2 DEF PathMap, Shown
  <1>3. \A n \in Names : PathMap[n] \in {None} \cup {Shown(rows[i]) : i \in Live}
    BY <1>1, <1>2
  <1>4. QED
    BY <1>1, <1>2, <1>3 DEF PathMap, ShowsRows

LEMMA PathMapNext == OneObjectPerPath' => ShowsRows'
  BY PathMapEntry, PTL

LEMMA ShownNotNone ==
    ASSUME TypeInv
    PROVE  \A i \in Live : Shown(rows[i]) \in Visible /\ Shown(rows[i]) # None
  BY SentinelAssumption DEF TypeInv, TypeOK, Live, StorageObject, Visible, Shown

\* A request that publishes an image creates, overwrites or renames an object.
LEMMA PublishImplements ==
    ASSUME TypeInv, LockInv, PathInv, PathInv', TypeInv', NEW p \in Procs, Commit(p),
           NEW i \in Ids, wr[p][i] \notin {None, Same}, PathMap' # PathMap
    PROVE  Abstract!Next
  <1>0. rows \in [Ids -> StorageObject \cup {None}] /\ rows' \in [Ids -> StorageObject \cup {None}]
    BY DEF TypeInv, TypeOK
  <1>1. /\ Owns(p, i) /\ obj[p] = i /\ Written(p) /\ wr[p][i] = NewRow(p) /\ rows'[i] = NewRow(p)
        /\ rows'[i] # None
    BY CommitEffect
  <1>2. \A j \in Ids \ {i} : wr[p][j] = Same /\ rows'[j] = rows[j]
    <2> SUFFICES ASSUME NEW j \in Ids \ {i} PROVE wr[p][j] = Same /\ rows'[j] = rows[j]
      OBVIOUS
    <2>1. wr[p][j] = Same
      BY <1>1 DEF LockInv, WritesLocked, WriterLocks, Owns, Deleting, Written
    <2>2. QED
      BY <2>1, CommitEffect
  <1>3. Live' = Live \cup {i} /\ i \in Live'
    BY <1>1, <1>2 DEF Live
  <1>4. \A j \in Live : rows[j].name = NewRow(p).name => j = i
    BY <1>1 DEF PathInv, ImagesApart, Image
  <1>5. NewRow(p) \in StorageObject /\ NewRow(p).name \in Names /\ NewRow(p).etag \in Contents
        /\ NewRow(p).owner \in Users
    BY <1>0, <1>1 DEF StorageObject
  <1> DEFINE n == NewRow(p).name
  <1>6. /\ PathMap \in [Names -> {None} \cup {Shown(rows[j]) : j \in Live}]
        /\ \A m \in Names : (\A j \in Live : rows[j].name # m) => PathMap[m] = None
        /\ \A m \in Names, j \in Live : rows[j].name = m => PathMap[m] = Shown(rows[j])
    BY PathMapEntry DEF PathInv, ShowsRows
  <1>7. /\ PathMap' \in [Names -> {None} \cup {Shown(rows'[j]) : j \in Live'}]
        /\ \A m \in Names : (\A j \in Live' : rows'[j].name # m) => PathMap'[m] = None
        /\ \A m \in Names, j \in Live' : rows'[j].name = m => PathMap'[m] = Shown(rows'[j])
    BY PathMapNext DEF PathInv, ShowsRows
  <1>8. PathMap'[n] = Shown(NewRow(p))
    BY <1>1, <1>3, <1>5, <1>7
  <1>9. ASSUME NEW m \in Names \ {n}, i \in Live => rows[i].name # m
        PROVE  PathMap'[m] = PathMap[m]
    <2>1. CASE \E j \in Live : rows[j].name = m
      <3>1. PICK j \in Live : rows[j].name = m
        BY <2>1
      <3>2. j \in Ids \ {i} /\ rows'[j] = rows[j] /\ j \in Live'
        BY <1>2, <1>3, <1>9, <3>1 DEF Live
      <3>3. QED
        BY <1>6, <1>7, <3>1, <3>2
    <2>2. CASE \A j \in Live : rows[j].name # m
      <3>1. \A j \in Live' : rows'[j].name # m
        BY <1>1, <1>2, <1>3, <1>9, <2>2 DEF Live
      <3>2. QED
        BY <1>6, <1>7, <2>2, <3>1
    <2>3. QED
      BY <2>1, <2>2
  <1>10. CASE rows[i] = None
    <2>1. /\ PathMap[n] = None /\ \A m \in Names \ {n} : PathMap'[m] = PathMap[m]
      BY <1>4, <1>5, <1>6, <1>9, <1>10 DEF Live
    <2>2. NewRow(p).version = 1
      BY <1>1, <1>10 DEF NewRow, Overwriting, LockInv, OwnersLock, OwnerLocks
    <2>3. PathMap' = [PathMap EXCEPT ![n] = [etag |-> NewRow(p).etag, owner |-> NewRow(p).owner,
                                             version |-> 1]]
      BY <1>6, <1>7, <1>8, <2>1, <2>2 DEF Shown
    <2> HIDE DEF n
    <2>4. Abstract!Create(n)
      BY <1>5, <2>1, <2>3 DEF Abstract!Create
    <2>5. QED
      BY <1>5, <2>4 DEF Abstract!Next, n
  <1>11. CASE rows[i] # None /\ req[p].op # "move"
    <2>0. Overwriting(p)
      BY <1>1, <1>11 DEF Overwriting, Written, LockInv, OwnersLock, OwnerLocks
    <2>1. rows[i].name = n /\ NewRow(p).version = rows[i].version + 1 /\ i \in Live
      BY <1>1, <1>11, <2>0 DEF NewRow, Live
    <2>2. /\ PathMap[n] = Shown(rows[i]) /\ \A m \in Names \ {n} : PathMap'[m] = PathMap[m]
      BY <1>5, <1>6, <1>9, <2>1
    <2>3. PathMap' = [PathMap EXCEPT ![n] = [etag |-> NewRow(p).etag, owner |-> NewRow(p).owner,
                                             version |-> PathMap[n].version + 1]]
      BY <1>6, <1>7, <1>8, <2>1, <2>2 DEF Shown
    <2> HIDE DEF n
    <2>4. Abstract!Overwrite(n)
      BY <1>5, <2>1, <2>2, <2>3, ShownNotNone DEF Abstract!Overwrite
    <2>5. QED
      BY <1>5, <2>4 DEF Abstract!Next, n
  <1>12. CASE rows[i] # None /\ req[p].op = "move"
    <2> DEFINE m == rows[i].name
    <2>1. Shown(NewRow(p)) = Shown(rows[i]) /\ i \in Live /\ m \in Names
      BY <1>0, <1>1, <1>12 DEF NewRow, Live, Shown, StorageObject
    <2>2. PathMap[m] = Shown(rows[i])
      BY <1>6, <2>1
    <2>3. \A k \in Names \ {m, n} : PathMap'[k] = PathMap[k]
      BY <1>9, <2>1
    <2>4. CASE m = n
      <3>1. \A k \in Names : PathMap'[k] = PathMap[k]
        BY <1>8, <2>1, <2>2, <2>3, <2>4
      <3>2. QED
        BY <1>6, <1>7, <3>1
    <2>5. CASE m # n
      <3>1. PathMap[n] = None
        BY <1>4, <1>5, <1>6, <2>5
      <3>2. PathMap'[m] = None
        <4>1. \A j \in Live' : rows'[j].name # m
          BY <1>1, <1>2, <1>3, <2>1, <2>5 DEF PathInv, OneObjectPerPath, Live
        <4>2. QED
          BY <1>7, <2>1, <4>1
      <3>3. PathMap' = [PathMap EXCEPT ![n] = PathMap[m], ![m] = None]
        BY <1>5, <1>6, <1>7, <1>8, <2>1, <2>2, <2>3, <2>5, <3>1, <3>2
      <3> HIDE DEF n, m
      <3>4. Abstract!Rename(m, n)
        BY <2>1, <2>2, <3>1, <3>3, ShownNotNone DEF Abstract!Rename
      <3>5. QED
        BY <1>5, <2>1, <3>4 DEF Abstract!Next, n
    <2>6. QED
      BY <2>4, <2>5
  <1>13. QED
    BY <1>10, <1>11, <1>12

\* A delete takes the paths of the rows it has deleted away together.
LEMMA DeletionImplements ==
    ASSUME TypeInv, LockInv, PathInv, PathInv', TypeInv', NEW p \in Procs, Commit(p),
           \A i \in Ids : wr[p][i] \in {None, Same}, PathMap' # PathMap
    PROVE  Abstract!Next
  <1>1. \A i \in Ids : rows'[i] = IF wr[p][i] = Same THEN rows[i] ELSE None
    BY CommitEffect
  <1>2. \A i \in Ids : wr[p][i] = None => i \in Live
    BY SentinelAssumption DEF LockInv, WritesLocked, WriterLocks, Live
  <1>3. Live' = {i \in Live : wr[p][i] = Same}
    BY <1>1, <1>2 DEF Live
  <1> DEFINE S == {n \in Names : \E i \in Live : wr[p][i] = None /\ rows[i].name = n}
  <1>4. /\ PathMap \in [Names -> {None} \cup {Shown(rows[j]) : j \in Live}]
        /\ \A m \in Names : (\A j \in Live : rows[j].name # m) => PathMap[m] = None
        /\ \A m \in Names, j \in Live : rows[j].name = m => PathMap[m] = Shown(rows[j])
    BY PathMapEntry DEF PathInv, ShowsRows
  <1>5. /\ PathMap' \in [Names -> {None} \cup {Shown(rows'[j]) : j \in Live'}]
        /\ \A m \in Names : (\A j \in Live' : rows'[j].name # m) => PathMap'[m] = None
        /\ \A m \in Names, j \in Live' : rows'[j].name = m => PathMap'[m] = Shown(rows'[j])
    BY PathMapNext DEF PathInv, ShowsRows
  <1>6. \A n \in S : PathMap[n] # None
    BY <1>4, ShownNotNone
  <1>7. \A n \in S : PathMap'[n] = None
    <2> SUFFICES ASSUME NEW n \in S, NEW j \in Live', rows'[j].name = n PROVE FALSE
      BY <1>5
    <2>1. PICK i \in Live : wr[p][i] = None /\ rows[i].name = n
      OBVIOUS
    <2>2. j \in Live /\ wr[p][j] = Same /\ rows[j].name = n
      BY <1>1, <1>3 DEF Live
    <2>3. QED
      BY <2>1, <2>2, SentinelAssumption DEF PathInv, OneObjectPerPath
  <1>8. ASSUME NEW n \in Names \ S PROVE PathMap'[n] = PathMap[n]
    <2>1. CASE \E j \in Live : rows[j].name = n
      <3>1. PICK j \in Live : rows[j].name = n
        BY <2>1
      <3>2. j \in Live' /\ rows'[j] = rows[j]
        BY <1>1, <1>3, <1>8, <3>1 DEF Live
      <3>3. QED
        BY <1>4, <1>5, <3>1, <3>2
    <2>2. CASE \A j \in Live : rows[j].name # n
      BY <1>1, <1>3, <1>4, <1>5, <2>2 DEF Live
    <2>3. QED
      BY <2>1, <2>2
  <1>9. PathMap' = [n \in Names |-> IF n \in S THEN None ELSE PathMap[n]]
    BY <1>5, <1>7, <1>8
  <1>10. S # {}
    BY <1>4, <1>5, <1>8
  <1> HIDE DEF S
  <1>11. Abstract!Remove(S)
    BY <1>6, <1>9, <1>10 DEF Abstract!Remove
  <1>12. S \in SUBSET Names
    BY DEF S
  <1>13. QED
    BY <1>11, <1>12 DEF Abstract!Next

\* Requests racing for the same paths act as if each took effect on the paths
\* at one instant, its commit, or not at all: for any number of them, uploads,
\* copies, moves and deletes implement PathStore.
THEOREM PathsLinearise == Spec => RefinesPathStore
  <1>1. Init => Abstract!Init
    BY DEF Init, Abstract!Init, PathMap, At
  <1>2. TypeInv /\ LockInv /\ PathInv /\ TypeInv' /\ PathInv' /\ [Next]_vars
            => [Abstract!Next]_PathMap
    <2> SUFFICES ASSUME TypeInv, LockInv, PathInv, TypeInv', PathInv', [Next]_vars,
                        PathMap' # PathMap
                 PROVE  Abstract!Next
      OBVIOUS
    <2>1. CASE \A p \in Procs : ~Commit(p)
      <3>1. UNCHANGED rows
        BY <2>1, NextQuiet DEF Quiet
      <3>2. QED
        BY <3>1 DEF PathMap, Lookup, At
    <2>2. ASSUME NEW p \in Procs, Commit(p) PROVE Abstract!Next
      BY <2>2, PublishImplements, DeletionImplements
    <2>3. QED
      BY <2>1, <2>2
  <1>3. Init => TypeInv /\ LockInv /\ PathInv
    BY InitType, InitLocks DEF Init, PathInv, OneObjectPerPath, ImagesApart, Image, Live, NoWrites
  <1>4. TypeInv /\ LockInv /\ PathInv /\ [Next]_vars => TypeInv' /\ LockInv' /\ PathInv'
    BY NextType, NextLocks, NextPaths
  <1>5. QED
    BY <1>1, <1>2, <1>3, <1>4, PTL DEF Spec, RefinesPathStore, Abstract!Spec

(***************************************************************************)
(* Rows and blobs: the invariant that keeps them together although the     *)
(* blob store is outside the database's transactions                       *)
(***************************************************************************)

\* The bytes an upload or a copy stores.
Bytes(p) == IF req[p].op = "copy" THEN data[p] ELSE req[p].etag

\* A request that has not come to its blob, and a move, has changed none.
Untouched(p) ==
    \/ pc[p] \in {"idle", "lock", "check", "open", "blob", "save"}
    \/ req[p].op = "move"
    => touched[p] = {}

\* After its save an upload or a copy finds its own bytes under the key.
Saved(p) ==
    pc[p] \in {"row", "quota", "commit"} /\ req[p].op \in {"upload", "copy"} =>
        touched[p] = {obj[p]} /\ blobs[obj[p]] = Bytes(p)

Erasing(p) == pc[p] # "idle" /\ Deleting(p)

\* The objects a delete has worked on or has still to work on.
Refers(p, i) == i \in touched[p] \/ \E k \in 1..Len(todo[p]) : todo[p][k].id = i

\* An object a delete has read exists or is gone for good: its UUID cannot be
\* drawn again and no request is creating it.
Known(p) ==
    Erasing(p) => \A i \in Ids : Refers(p, i) =>
        i \notin fresh /\ \A q \in Procs : Owns(q, i) => rows[i] # None

\* The object whose blob a delete removes next.
AtBlob(p, i) == pc[p] = "dblob" /\ i = Head(todo[p]).id

\* A delete removes the blob of a row that it has deleted and holds locked, or
\* of one that is gone; no one can store a blob there before it ends.
Gone(p) ==
    Erasing(p) => \A i \in Ids :
        /\ i \in touched[p] \/ AtBlob(p, i) => wr[p][i] = None \/ rows[i] = None
        /\ i \in touched[p] => blobs[i] = None

\* A delete leaves no row deleted without its blob.
Covered(p) ==
    Erasing(p) => \A i \in Ids : wr[p][i] = None => i \in touched[p] \/ AtBlob(p, i)

BlobState(p) == Untouched(p) /\ Saved(p) /\ Known(p) /\ Gone(p) /\ Covered(p)

BlobInv == BlobsMatchRows /\ \A p \in Procs : BlobState(p)

(***************************************************************************)
(* Steps that leave rows and blobs alone                                   *)
(***************************************************************************)

\* An object is in flight when some transaction has changed its blob.
LEMMA InFlightMember ==
    ASSUME NEW i
    PROVE  i \in InFlight <=> \E p \in Procs : i \in touched[p]
  BY DEF InFlight

LEMMA InitBlobs == Init => BlobInv
  <1> SUFFICES ASSUME Init PROVE BlobInv
    OBVIOUS
  <1>1. BlobsMatchRows
    BY DEF Init, BlobsMatchRows
  <1>2. \A p \in Procs : BlobState(p)
    BY DEF Init, BlobState, Untouched, Saved, Known, Gone, Covered, Erasing
  <1>3. QED
    BY <1>1, <1>2 DEF BlobInv

\* What a step of p that changes no row and no blob owes: its own state, and
\* that an object it no longer works on is left as it found it or torn.
LEMMA BlobFrame ==
    ASSUME TypeInv, BlobInv, NEW p \in Procs, Quiet, UNCHANGED blobs,
           \A q \in Procs \ {p} : /\ pc'[q] = pc[q] /\ req'[q] = req[q] /\ obj'[q] = obj[q]
                                  /\ data'[q] = data[q] /\ todo'[q] = todo[q]
                                  /\ wr'[q] = wr[q] /\ touched'[q] = touched[q],
           torn \subseteq torn', touched[p] \subseteq touched'[p] \cup torn',
           BlobState(p)'
    PROVE  BlobInv'
  <1>0. UNCHANGED rows /\ fresh' \subseteq fresh
    BY DEF Quiet
  <1>1. BlobsMatchRows'
    <2> SUFFICES ASSUME NEW i \in Ids, i \notin torn', i \notin InFlight'
                 PROVE  blobs'[i] = IF rows'[i] = None THEN None ELSE rows'[i].etag
      BY DEF BlobsMatchRows
    <2>1. \A q \in Procs : i \notin touched'[q]
      BY DEF InFlight
    <2>2. \A q \in Procs : i \notin touched[q]
      BY <2>1
    <2>3. i \notin InFlight
      BY <2>2, InFlightMember
    <2>4. QED
      BY <1>0, <2>3 DEF BlobInv, BlobsMatchRows
  <1>2. ASSUME NEW q \in Procs \ {p} PROVE BlobState(q)'
    <2>0. BlobState(q)
      BY <1>2 DEF BlobInv
    <2>1. Untouched(q)' /\ Saved(q)'
      BY <1>2, <2>0 DEF BlobState, Untouched, Saved, Bytes
    <2>2. Known(q)'
      BY <1>0, <1>2, <2>0 DEF BlobState, Known, Refers, Erasing, Deleting, Quiet
    <2>3. Gone(q)' /\ Covered(q)'
      BY <1>0, <1>2, <2>0 DEF BlobState, Gone, Covered, AtBlob, Erasing, Deleting
    <2>4. QED
      BY <2>1, <2>2, <2>3 DEF BlobState
  <1>3. QED
    BY <1>1, <1>2 DEF BlobInv

\* A request that ends with its blobs untouched, or rolled back.
LEMMA EndBlobs ==
    ASSUME TypeInv, BlobInv, NEW p \in Procs, EndRequest(p), Quiet, UNCHANGED blobs,
           \/ UNCHANGED <<wr, touched, torn>> /\ touched[p] = {}
           \/ EndTransaction(p) /\ torn' = torn \cup touched[p]
    PROVE  BlobInv'
  <1>0. /\ pc \in [Procs -> Labels] /\ obj \in [Procs -> Ids \cup {None}]
        /\ req \in [Procs -> Request \cup {None}] /\ data \in [Procs -> Contents \cup {None}]
        /\ todo \in [Procs -> Seq(Instance)] /\ touched \in [Procs -> SUBSET Ids]
        /\ wr \in [Procs -> [Ids -> StorageObject \cup {None, Same}]]
    BY DEF TypeInv, TypeOK
  <1>1. \A q \in Procs \ {p} : /\ pc'[q] = pc[q] /\ req'[q] = req[q] /\ obj'[q] = obj[q]
                               /\ data'[q] = data[q] /\ todo'[q] = todo[q]
    BY <1>0 DEF EndRequest
  <1>2. \A q \in Procs \ {p} : wr'[q] = wr[q] /\ touched'[q] = touched[q]
    BY <1>0 DEF EndTransaction
  <1>3. pc'[p] = "idle" /\ touched'[p] = {}
    BY <1>0 DEF EndRequest, EndTransaction
  <1>4. BlobState(p)'
    BY <1>3 DEF BlobState, Untouched, Saved, Known, Gone, Covered, Erasing
  <1>5. torn \subseteq torn' /\ touched[p] \subseteq touched'[p] \cup torn'
    OBVIOUS
  <1>6. QED
    BY <1>1, <1>2, <1>4, <1>5, BlobFrame

LEMMA RollbackBlobs ==
    ASSUME TypeInv, BlobInv, NEW p \in Procs, Rollback(p), UNCHANGED fresh
    PROVE  BlobInv'
  <1>1. Quiet
    BY EndQuiet DEF Rollback, EndTransaction, db
  <1>2. QED
    BY <1>1, EndBlobs DEF Rollback, store

LEMMA StartBlobs ==
    ASSUME TypeInv, LockInv, BlobInv, NEW p \in Procs, Start(p)
    PROVE  BlobInv'
  <1>0. /\ pc \in [Procs -> Labels] /\ obj \in [Procs -> Ids \cup {None}]
        /\ req \in [Procs -> Request \cup {None}] /\ todo \in [Procs -> Seq(Instance)]
        /\ Quiet
    BY Typing, StartQuiet
  <1>1. ASSUME NEW l \in {"lock", "check", "save"}, NEW r, Begin(p, l, r), UNCHANGED todo,
               r.op \notin {"delete", "dav_delete"},
               \A q \in Procs \ {p} : obj'[q] = obj[q]
        PROVE  BlobInv'
    <2>1. /\ UNCHANGED <<blobs, wr, touched, torn, data, todo>>
          /\ pc[p] = "idle" /\ pc'[p] = l /\ req'[p] = r
          /\ \A q \in Procs \ {p} : pc'[q] = pc[q] /\ req'[q] = req[q]
      BY <1>0, <1>1 DEF Begin, store, tx, history
    <2>2. touched'[p] = {}
      BY <2>1 DEF BlobInv, BlobState, Untouched
    <2>3. BlobState(p)'
      BY <1>1, <2>1, <2>2 DEF BlobState, Untouched, Saved, Known, Gone, Covered, Erasing, Deleting
    <2>4. QED
      BY <1>0, <1>1, <2>1, <2>3, BlobFrame
  <1>2. CASE StartUpload(p)
    BY <1>0, <1>1, <1>2 DEF StartUpload
  <1>3. CASE StartCopy(p)
    BY <1>0, <1>1, <1>3 DEF StartCopy
  <1>4. CASE StartMove(p)
    BY <1>0, <1>1, <1>4 DEF StartMove
  <1>5. CASE StartQuotaPut(p)
    BY <1>0, <1>1, <1>5 DEF StartQuotaPut
  <1>6. ASSUME NEW op \in {"delete", "dav_delete"}, StartDelete(p, op) PROVE BlobInv'
    <2>1. PICK paths \in PathLists :
             /\ \A k \in DOMAIN paths : At(paths[k]) # {}
             /\ Begin(p, "drow", [op |-> op])
             /\ todo' = [todo EXCEPT ![p] =
                            [k \in DOMAIN paths |-> InstanceOf(Lookup(paths[k]))]]
             /\ UNCHANGED obj
      BY <1>6 DEF StartDelete
    <2>2. /\ UNCHANGED <<rows, blobs, wr, touched, torn, data, obj, fresh>>
          /\ pc[p] = "idle" /\ pc'[p] = "drow" /\ req'[p] = [op |-> op]
          /\ \A q \in Procs \ {p} : pc'[q] = pc[q] /\ req'[q] = req[q] /\ todo'[q] = todo[q]
      BY <1>0, <2>1 DEF Begin, db, store, tx, history
    <2>3. touched'[p] = {}
      BY <2>2 DEF BlobInv, BlobState, Untouched
    <2>4. PICK n \in Nat : DOMAIN paths = 1..n /\ \A k \in 1..n : paths[k] \in Names
      <3>1. PICK n \in 1..MaxPaths : paths \in [1..n -> Names]
        BY <2>1 DEF PathLists
      <3>2. QED
        BY <3>1, ObjectStoreAssumption
    <2>5. /\ todo'[p] = [k \in 1..n |-> InstanceOf(Lookup(paths[k]))]
      BY <1>0, <2>1, <2>4
    <2>6. Len(todo'[p]) = n
      BY <2>5
    <2>7. \A k \in 1..n : /\ todo'[p][k].id = Lookup(paths[k])
                          /\ Lookup(paths[k]) \in Ids /\ rows[Lookup(paths[k])] # None
      <3> SUFFICES ASSUME NEW k \in 1..n
                   PROVE  /\ todo'[p][k].id = Lookup(paths[k])
                          /\ Lookup(paths[k]) \in Ids /\ rows[Lookup(paths[k])] # None
        OBVIOUS
      <3>1. Lookup(paths[k]) \in Ids /\ rows[Lookup(paths[k])] # None
        BY <2>1, <2>4, LookupType
      <3>2. todo'[p][k] = InstanceOf(Lookup(paths[k]))
        BY <2>5
      <3>3. QED
        BY <3>1, <3>2 DEF InstanceOf
    <2>8. Known(p)'
      <3> SUFFICES ASSUME NEW i \in Ids, Refers(p, i)'
                   PROVE  i \notin fresh' /\ \A q \in Procs : Owns(q, i)' => rows'[i] # None
        BY DEF Known
      <3>1. rows[i] # None
        BY <2>3, <2>6, <2>7 DEF Refers
      <3>2. QED
        BY <2>2, <3>1 DEF LockInv, FreshUnused
    <2>9. \A i \in Ids : wr'[p][i] = Same
      BY <2>2, NothingWritten
    <2>10. BlobState(p)'
      BY <1>6, <2>2, <2>3, <2>8, <2>9, SentinelAssumption
         DEF BlobState, Untouched, Saved, Gone, Covered, AtBlob
    <2>11. QED
      BY <1>0, <2>2, <2>10, BlobFrame
  <1>7. QED
    BY <1>2, <1>3, <1>4, <1>5, <1>6 DEF Start

\* A request moves on, takes an object or is refused, and has touched no blob.
LEMMA EarlyBlobs ==
    ASSUME TypeInv, LockInv, BlobInv, NEW p \in Procs,
           LockUpload(p) \/ LockMove(p) \/ CheckQuota(p) \/ OpenSource(p)
    PROVE  BlobInv'
  <1>0. /\ pc \in [Procs -> Labels] /\ obj \in [Procs -> Ids \cup {None}]
        /\ req \in [Procs -> Request \cup {None}] /\ data \in [Procs -> Contents \cup {None}]
        /\ Shape(p)
    BY Typing DEF TypeInv, TypeOK
  <1>1. /\ UNCHANGED <<blobs, wr, touched, torn>> /\ pc[p] \in {"lock", "check", "open"}
        /\ \/ Refuse(p)
           \/ /\ pc'[p] \in {"check", "open", "blob", "row"} /\ UNCHANGED <<req, todo>>
              /\ pc'[p] = "row" => req[p].op = "move"
              /\ \A q \in Procs \ {p} : pc'[q] = pc[q] /\ obj'[q] = obj[q] /\ data'[q] = data[q]
    BY <1>0 DEF LockUpload, LockMove, CheckQuota, OpenSource, Goto, store, tx, history
  <1>2. Quiet
    <2>1. Step(p)
      BY DEF Step
    <2>2. ~Commit(p)
      BY <1>1 DEF Commit
    <2>3. QED
      BY <2>1, <2>2, StepQuiet
  <1>3. touched[p] = {} /\ ~Deleting(p)
    BY <1>0, <1>1, OpOf DEF BlobInv, BlobState, Untouched, Deleting, Shape, UploadShape,
                            CopyShape, MoveShape, DeleteShape, AdminShape
  <1>4. CASE Refuse(p)
    BY <1>1, <1>2, <1>3, <1>4, EndBlobs DEF Refuse
  <1>5. CASE ~Refuse(p)
    <2>1. BlobState(p)'
      BY <1>1, <1>3, <1>5 DEF BlobState, Untouched, Saved, Known, Gone, Covered, Erasing,
                              Deleting
    <2>2. QED
      BY <1>1, <1>2, <1>5, <2>1, BlobFrame
  <1>6. QED
    BY <1>4, <1>5

LEMMA WriteRowBlobs ==
    ASSUME TypeInv, LockInv, BlobInv, NEW p \in Procs, WriteRow(p)
    PROVE  BlobInv'
  <1>1. CASE Rollback(p)
    BY <1>1, RollbackBlobs DEF WriteRow
  <1>2. CASE ~Rollback(p)
    <2>0. /\ pc \in [Procs -> Labels] /\ Quiet
          /\ wr \in [Procs -> [Ids -> StorageObject \cup {None, Same}]]
      <3>1. Step(p) /\ ~Commit(p)
        BY DEF Step, WriteRow, Commit
      <3>2. QED
        BY <3>1, StepQuiet DEF TypeInv, TypeOK
    <2>1. /\ UNCHANGED <<blobs, touched, torn, req, obj, data, todo>> /\ pc[p] = "row"
      BY <1>2 DEF WriteRow, Goto, store, history
    <2>2. /\ ~Deleting(p) /\ \A q \in Procs \ {p} : pc'[q] = pc[q] /\ wr'[q] = wr[q]
          /\ pc'[p] \in {"quota", "commit"}
      BY <1>2, <2>0, WriteRowEffect
    <2>3. BlobState(p)'
      BY <2>1, <2>2 DEF BlobInv, BlobState, Untouched, Saved, Bytes, Known, Gone, Covered,
                        Erasing, Deleting
    <2>4. QED
      BY <2>0, <2>1, <2>2, <2>3, BlobFrame
  <1>3. QED
    BY <1>1, <1>2

\* The DELETE of a row, and the head of the list it is about.
LEMMA DeleteRowBlobs ==
    ASSUME TypeInv, LockInv, BlobInv, NEW p \in Procs, DeleteRow(p)
    PROVE  BlobInv'
  <1>0. /\ pc \in [Procs -> Labels] /\ Quiet /\ Shape(p) /\ pc[p] = "drow"
        /\ wr \in [Procs -> [Ids -> StorageObject \cup {None, Same}]]
        /\ todo \in [Procs -> Seq(Instance)]
    <2>1. Step(p) /\ ~Commit(p)
      BY DEF Step, DeleteRow, Commit
    <2>2. QED
      BY <2>1, StepQuiet, Typing DEF TypeInv, TypeOK, DeleteRow
  <1>1. todo[p] # <<>> /\ todo[p] \in Seq(Instance) /\ Deleting(p)
    BY <1>0, OpOf DEF Shape, UploadShape, CopyShape, MoveShape, DeleteShape, AdminShape,
                      Deleting
  <1>2. PICK i \in Ids : i = Head(todo[p]).id
    <2>1. Head(todo[p]) \in Instance
      BY <1>1
    <2>2. QED
      BY <2>1 DEF Instance
  <1>3. /\ UNCHANGED <<rows, blobs, touched, torn, req, obj, data, todo>>
        /\ pc' = [pc EXCEPT ![p] = "dblob"]
        /\ IF rows[i] # None /\ wr[p][i] = Same
           THEN wr' = [wr EXCEPT ![p] = [@ EXCEPT ![i] = None]]
           ELSE UNCHANGED wr
    BY <1>2 DEF DeleteRow, Goto, db, store, history
  <1>4. /\ \A q \in Procs \ {p} : pc'[q] = pc[q] /\ wr'[q] = wr[q]
        /\ pc'[p] = "dblob" /\ \A j \in Ids \ {i} : wr'[p][j] = wr[p][j]
        /\ wr'[p][i] = IF rows[i] # None /\ wr[p][i] = Same THEN None ELSE wr[p][i]
    BY <1>0, <1>3
  <1>5. wr[p][i] \in {Same, None}
    BY <1>0, <1>1, OpOf DEF LockInv, WritesLocked, WriterLocks, Written, Deleting
  <1>6. BlobState(p)
    BY DEF BlobInv
  <1>7. \A j \in Ids : AtBlob(p, j)' <=> j = i
    BY <1>2, <1>3, <1>4 DEF AtBlob
  <1>8. Known(p)'
    BY <1>0, <1>1, <1>3, <1>4, <1>6 DEF BlobState, Known, Refers, Erasing, Deleting, Quiet
  <1>9. Gone(p)'
    BY <1>0, <1>1, <1>3, <1>4, <1>5, <1>6, <1>7, SentinelAssumption
       DEF BlobState, Gone, Erasing, Deleting, AtBlob
  <1>10. Covered(p)'
    BY <1>0, <1>1, <1>3, <1>4, <1>6, <1>7 DEF BlobState, Covered, Erasing, Deleting, AtBlob
  <1>11. Untouched(p)' /\ Saved(p)'
    BY <1>1, <1>3, <1>4 DEF Untouched, Saved, Deleting
  <1>12. QED
    BY <1>0, <1>3, <1>4, <1>8, <1>9, <1>10, <1>11, BlobFrame DEF BlobState

LEMMA UsageBlobs ==
    ASSUME TypeInv, LockInv, BlobInv, NEW p \in Procs, apply_usage_delta(p)
    PROVE  BlobInv'
  <1>0. /\ pc \in [Procs -> Labels] /\ Quiet /\ Shape(p) /\ pc[p] = "quota"
        /\ todo \in [Procs -> Seq(Instance)]
    <2>1. Step(p) /\ ~Commit(p)
      BY DEF Step, apply_usage_delta, Commit
    <2>2. QED
      BY <2>1, StepQuiet, Typing DEF apply_usage_delta
  <1>1. /\ UNCHANGED <<rows, blobs, touched, torn, req, obj, data, wr>>
        /\ todo' = [todo EXCEPT ![p] = IF Deleting(p) THEN Tail(todo[p]) ELSE <<>>]
        /\ \E l \in {"drow", "commit"} : /\ pc' = [pc EXCEPT ![p] = l]
                                         /\ l = "drow" => req[p].op = "delete"
    BY DEF apply_usage_delta, db, store, history
  <1>2. /\ \A q \in Procs \ {p} : pc'[q] = pc[q] /\ todo'[q] = todo[q]
        /\ pc'[p] \in {"drow", "commit"} /\ (pc'[p] = "drow" => req[p].op = "delete")
        /\ todo'[p] = IF Deleting(p) THEN Tail(todo[p]) ELSE <<>>
    BY <1>0, <1>1
  <1>3. BlobState(p)
    BY DEF BlobInv
  <1>4. Untouched(p)' /\ Saved(p)'
    BY <1>0, <1>1, <1>2, <1>3 DEF BlobState, Untouched, Saved, Bytes
  <1>5. CASE ~Deleting(p)
    <2>1. Known(p)' /\ Gone(p)' /\ Covered(p)'
      BY <1>1, <1>5 DEF Known, Gone, Covered, Erasing, Deleting
    <2>2. QED
      BY <1>0, <1>1, <1>2, <1>4, <2>1, BlobFrame DEF BlobState
  <1>6. CASE Deleting(p)
    <2>1. todo[p] # <<>> /\ todo[p] \in Seq(Instance)
      BY <1>0, <1>6, OpOf DEF Shape, UploadShape, CopyShape, MoveShape, DeleteShape, AdminShape,
                              Deleting
    <2>2. /\ Len(todo'[p]) = Len(todo[p]) - 1 /\ Len(todo[p]) \in Nat
          /\ \A k \in 1..Len(todo'[p]) : /\ todo'[p][k] = todo[p][k + 1]
                                         /\ k + 1 \in 1..Len(todo[p])
      BY <1>2, <1>6, <2>1
    <2>3. \A i \in Ids : Refers(p, i)' => Refers(p, i)
      BY <1>1, <2>2 DEF Refers
    <2>4. Known(p)'
      BY <1>0, <1>1, <1>3, <1>6, <2>3 DEF BlobState, Known, Erasing, Quiet
    <2>5. Gone(p)' /\ Covered(p)'
      BY <1>0, <1>1, <1>2, <1>3, <1>6 DEF BlobState, Gone, Covered, Erasing, Deleting, AtBlob
    <2>6. QED
      BY <1>0, <1>1, <1>2, <1>4, <2>4, <2>5, BlobFrame DEF BlobState
  <1>7. QED
    BY <1>5, <1>6

(***************************************************************************)
(* Steps that change a blob                                                *)
(***************************************************************************)

\* The other requests' state after a step of p that changes the blob of i: it
\* is no blob that a saved object or a finished deletion of theirs rests on.
LEMMA BlobStoreFrame ==
    ASSUME TypeInv, BlobInv, NEW p \in Procs, NEW i \in Ids, Quiet,
           \A j \in Ids \ {i} : blobs'[j] = blobs[j], UNCHANGED <<wr, obj, req, data, todo>>,
           \A q \in Procs \ {p} : pc'[q] = pc[q] /\ touched'[q] = touched[q],
           UNCHANGED torn, touched'[p] = touched[p] \cup {i},
           \A q \in Procs \ {p} :
              /\ Owns(q, i) => req[q].op = "move" \/ pc[q] \notin {"row", "quota", "commit"}
              /\ i \in touched[q] /\ Erasing(q) => blobs'[i] = None,
           BlobState(p)'
    PROVE  BlobInv'
  <1>0. UNCHANGED rows /\ fresh' \subseteq fresh
    BY DEF Quiet
  <1>1. BlobsMatchRows'
    <2> SUFFICES ASSUME NEW j \in Ids, j \notin torn', j \notin InFlight'
                 PROVE  blobs'[j] = IF rows'[j] = None THEN None ELSE rows'[j].etag
      BY DEF BlobsMatchRows
    <2>1. \A q \in Procs : j \notin touched'[q]
      BY DEF InFlight
    <2>2. j # i /\ \A q \in Procs : j \notin touched[q]
      BY <2>1
    <2>3. j \notin InFlight
      BY <2>2, InFlightMember
    <2>4. QED
      BY <1>0, <2>2, <2>3 DEF BlobInv, BlobsMatchRows
  <1>2. ASSUME NEW q \in Procs \ {p} PROVE BlobState(q)'
    <2>0. BlobState(q) /\ Shape(q)
      BY <1>2, Typing DEF BlobInv
    <2>1. Untouched(q)'
      BY <1>2, <2>0 DEF BlobState, Untouched
    <2>2. Saved(q)'
      <3> SUFFICES ASSUME pc[q] \in {"row", "quota", "commit"}, req[q].op \in {"upload", "copy"}
                   PROVE  touched'[q] = {obj[q]} /\ blobs'[obj[q]] = Bytes(q)'
        BY <1>2 DEF Saved
      <3>1. UploadShape(q) \/ CopyShape(q)
        BY <2>0, OpOf DEF Shape, MoveShape, DeleteShape, AdminShape
      <3>2. obj[q] \in Ids /\ Owns(q, obj[q])
        BY <3>1 DEF UploadShape, CopyShape, Owns
      <3>3. obj[q] # i
        BY <1>2, <3>2
      <3>4. QED
        BY <1>2, <2>0, <3>2, <3>3 DEF BlobState, Saved, Bytes
    <2>3. Known(q)'
      BY <1>0, <1>2, <2>0 DEF BlobState, Known, Refers, Erasing, Deleting, Quiet
    <2>4. Gone(q)' /\ Covered(q)'
      BY <1>0, <1>2, <2>0 DEF BlobState, Gone, Covered, AtBlob, Erasing, Deleting
    <2>5. QED
      BY <2>1, <2>2, <2>3, <2>4 DEF BlobState
  <1>3. QED
    BY <1>1, <1>2 DEF BlobInv

\* The bytes go under a key that no delete in progress has emptied.
LEMMA SaveBlobBlobs ==
    ASSUME TypeInv, LockInv, BlobInv, Backend = "s3", NEW p \in Procs, SaveBlob(p)
    PROVE  BlobInv'
  <1>0. /\ pc \in [Procs -> Labels] /\ Quiet /\ Shape(p) /\ pc[p] = "blob"
        /\ touched \in [Procs -> SUBSET Ids] /\ blobs \in [Ids -> Contents \cup {None}]
    <2>1. Step(p) /\ ~Commit(p)
      BY DEF Step, SaveBlob, Commit
    <2>2. QED
      BY <2>1, StepQuiet, Typing DEF TypeInv, TypeOK, SaveBlob
  <1>1. UploadShape(p) \/ CopyShape(p)
    BY <1>0 DEF Shape, MoveShape, DeleteShape, AdminShape
  <1>2. PICK i \in Ids : i = obj[p] /\ Owns(p, i)
    BY <1>0, <1>1, OpOf DEF UploadShape, CopyShape, Owns
  <1>3. ~Deleting(p) /\ req[p].op \in {"upload", "copy"} /\ touched[p] = {}
    BY <1>0, <1>1, OpOf DEF UploadShape, CopyShape, Deleting, BlobInv, BlobState, Untouched
  <1>4. /\ blobs' = [blobs EXCEPT ![i] = Bytes(p)] /\ touched' = [touched EXCEPT ![p] = @ \cup {i}]
        /\ pc' = [pc EXCEPT ![p] = "row"] /\ UNCHANGED <<rows, torn, req, obj, data, todo, wr>>
    BY <1>2 DEF SaveBlob, Goto, Bytes, db, history
  <1>5. /\ \A j \in Ids \ {i} : blobs'[j] = blobs[j]
        /\ blobs'[i] = Bytes(p)
        /\ \A q \in Procs \ {p} : pc'[q] = pc[q] /\ touched'[q] = touched[q]
        /\ touched'[p] = touched[p] \cup {i} /\ pc'[p] = "row"
    BY <1>0, <1>4
  <1>6. BlobState(p)'
    BY <1>2, <1>3, <1>4, <1>5 DEF BlobState, Untouched, Saved, Bytes, Known, Gone, Covered,
                                  Erasing, Deleting
  <1>7. ASSUME NEW q \in Procs \ {p}, i \in touched[q], Erasing(q) PROVE FALSE
    <2>1. Known(q) /\ Gone(q)
      BY <1>7 DEF BlobInv, BlobState
    <2>2. rows[i] # None
      BY <1>2, <1>7, <2>1 DEF Known, Refers
    <2>3. wr[q][i] = None
      BY <1>7, <2>1, <2>2 DEF Gone
    <2>4. rowLock[i] = q
      BY <1>7, <2>3, SentinelAssumption DEF LockInv, WritesLocked, WriterLocks
    <2>5. rowLock[i] = p
      BY <1>2, <2>2 DEF LockInv, OwnersLock, OwnerLocks
    <2>6. QED
      BY <1>7, <2>4, <2>5
  <1>8. \A q \in Procs \ {p} : ~Owns(q, i)
    BY <1>2 DEF LockInv, OwnersDiffer
  <1>9. QED
    BY <1>0, <1>4, <1>5, <1>6, <1>7, <1>8, BlobStoreFrame

\* A delete removes the blob of no object that another request owns.
LEMMA DeleteBlobBlobs ==
    ASSUME TypeInv, LockInv, BlobInv, NEW p \in Procs, delete_storage_key(p)
    PROVE  BlobInv'
  <1>0. /\ pc \in [Procs -> Labels] /\ Quiet /\ Shape(p) /\ pc[p] = "dblob"
        /\ touched \in [Procs -> SUBSET Ids] /\ blobs \in [Ids -> Contents \cup {None}]
        /\ todo \in [Procs -> Seq(Instance)]
    <2>1. Step(p) /\ ~Commit(p)
      BY DEF Step, delete_storage_key, Commit
    <2>2. QED
      BY <2>1, StepQuiet, Typing DEF TypeInv, TypeOK, delete_storage_key
  <1>1. todo[p] # <<>> /\ todo[p] \in Seq(Instance) /\ Deleting(p)
    BY <1>0, OpOf DEF Shape, UploadShape, CopyShape, MoveShape, DeleteShape, AdminShape,
                      Deleting
  <1>2. PICK i \in Ids : i = Head(todo[p]).id
    <2>1. Head(todo[p]) \in Instance
      BY <1>1
    <2>2. QED
      BY <2>1 DEF Instance
  <1>3. /\ blobs' = [blobs EXCEPT ![i] = None] /\ touched' = [touched EXCEPT ![p] = @ \cup {i}]
        /\ pc' = [pc EXCEPT ![p] = "quota"] /\ UNCHANGED <<rows, torn, req, obj, data, todo, wr>>
    BY <1>2 DEF delete_storage_key, Goto, db, history
  <1>4. /\ \A j \in Ids \ {i} : blobs'[j] = blobs[j]
        /\ blobs'[i] = None
        /\ \A q \in Procs \ {p} : pc'[q] = pc[q] /\ touched'[q] = touched[q]
        /\ touched'[p] = touched[p] \cup {i} /\ pc'[p] = "quota"
    BY <1>0, <1>3
  <1>5. BlobState(p) /\ Erasing(p) /\ AtBlob(p, i)
    BY <1>0, <1>1, <1>2 DEF BlobInv, Erasing, AtBlob
  <1>6. Refers(p, i)
    <2>1. Len(todo[p]) \in Nat \ {0} /\ Head(todo[p]) = todo[p][1]
      BY <1>1
    <2>2. QED
      BY <1>2, <2>1 DEF Refers
  <1>7. \A j \in Ids : Refers(p, j)' => Refers(p, j)
    BY <1>3, <1>4, <1>6 DEF Refers
  <1>8. Known(p)'
    BY <1>0, <1>3, <1>5, <1>7 DEF BlobState, Known, Quiet
  <1>9. Gone(p)' /\ Covered(p)'
    BY <1>2, <1>3, <1>4, <1>5 DEF BlobState, Gone, Covered, AtBlob
  <1>10. BlobState(p)'
    BY <1>1, <1>3, <1>4, <1>8, <1>9 DEF BlobState, Untouched, Saved, Deleting
  <1>11. ASSUME NEW q \in Procs \ {p} PROVE ~Owns(q, i)
    <2> SUFFICES ASSUME Owns(q, i) PROVE FALSE
      OBVIOUS
    <2>1. rows[i] # None
      BY <1>5, <1>6 DEF BlobState, Known
    <2>2. wr[p][i] = None
      BY <1>5, <2>1 DEF BlobState, Gone
    <2>3. rowLock[i] = p
      BY <2>2, SentinelAssumption DEF LockInv, WritesLocked, WriterLocks
    <2>4. rowLock[i] = q
      BY <2>1 DEF LockInv, OwnersLock, OwnerLocks
    <2>5. QED
      BY <1>11, <2>3, <2>4
  <1>12. QED
    BY <1>0, <1>3, <1>4, <1>10, <1>11, BlobStoreFrame

(***************************************************************************)
(* Commit, and the theorem                                                 *)
(***************************************************************************)

\* The object at whose blob a delete is, is one it has read.
LEMMA HeadRefers ==
    ASSUME TypeInv, NEW q \in Procs, Erasing(q), NEW i, AtBlob(q, i)
    PROVE  Refers(q, i)
  <1>1. Shape(q) /\ todo \in [Procs -> Seq(Instance)]
    BY Typing
  <1>2. todo[q] # <<>> /\ todo[q] \in Seq(Instance)
    BY <1>1 DEF AtBlob, Shape, UploadShape, CopyShape, MoveShape, DeleteShape, AdminShape
  <1>3. Len(todo[q]) \in Nat \ {0} /\ Head(todo[q]) = todo[q][1]
    BY <1>2
  <1>4. QED
    BY <1>3 DEF Refers, AtBlob

\* Row and blob of every object whose blob the transaction changed agree once
\* its rows are published, a copy of a changing source excepted.
LEMMA CommitMatches ==
    ASSUME TypeInv, LockInv, BlobInv, NEW p \in Procs, Commit(p), NEW i \in Ids,
           i \in touched[p], i \notin torn'
    PROVE  blobs[i] = IF rows'[i] = None THEN None ELSE rows'[i].etag
  <1>0. /\ pc[p] = "commit" /\ Shape(p) /\ BlobState(p)
        /\ rows'[i] = IF wr[p][i] = Same THEN rows[i] ELSE wr[p][i]
        /\ wr[p][i] \notin {None, Same} =>
              Owns(p, i) /\ obj[p] = i /\ Written(p) /\ wr[p][i] = NewRow(p)
        /\ torn' = (torn \ touched[p])
                     \cup IF req[p].op = "copy" /\ data[p] # req[p].etag THEN {obj[p]} ELSE {}
    BY CommitEffect, Typing DEF Commit, BlobInv
  <1>1. CASE UploadShape(p) \/ CopyShape(p)
    <2>1. /\ Written(p) /\ obj[p] = i /\ blobs[i] = Bytes(p) /\ req[p].op \in {"upload", "copy"}
      BY <1>0, <1>1, OpOf DEF BlobState, Saved, Written, UploadShape, CopyShape
    <2>2. NewRow(p).etag = req[p].etag
      BY <2>1 DEF NewRow
    <2>3. NewRow(p) \in StorageObject
      BY <1>0, <1>1, <2>1, NewRowType
    <2>4. wr[p][i] = NewRow(p)
      BY <2>1 DEF LockInv, OwnersWrite
    <2>5. rows'[i] = NewRow(p) /\ rows'[i] # None
      BY <1>0, <2>3, <2>4, SentinelAssumption
    <2>6. Bytes(p) = req[p].etag
      BY <1>0, <2>1 DEF Bytes
    <2>7. QED
      BY <2>1, <2>2, <2>5, <2>6
  <1>2. CASE MoveShape(p)
    BY <1>0, <1>2, OpOf DEF BlobState, Untouched, MoveShape
  <1>3. CASE DeleteShape(p)
    <2>1. Erasing(p)
      BY <1>0, <1>3, OpOf DEF Erasing, Deleting, DeleteShape
    <2>2. blobs[i] = None /\ (wr[p][i] = None \/ rows[i] = None)
      BY <1>0, <2>1 DEF BlobState, Gone
    <2>3. wr[p][i] \in {None, Same}
      BY <1>0, <2>1 DEF Written, Erasing, Deleting
    <2>4. rows'[i] = None
      BY <1>0, <2>2, <2>3, SentinelAssumption
    <2>5. QED
      BY <2>2, <2>4
  <1>4. QED
    BY <1>0, <1>1, <1>2, <1>3 DEF Shape, AdminShape

LEMMA CommitBlobs ==
    ASSUME TypeInv, LockInv, BlobInv, NEW p \in Procs, Commit(p)
    PROVE  BlobInv'
  <1>0. /\ pc \in [Procs -> Labels] /\ obj \in [Procs -> Ids \cup {None}]
        /\ req \in [Procs -> Request \cup {None}] /\ data \in [Procs -> Contents \cup {None}]
        /\ todo \in [Procs -> Seq(Instance)] /\ touched \in [Procs -> SUBSET Ids]
        /\ wr \in [Procs -> [Ids -> StorageObject \cup {None, Same}]]
        /\ Shape(p)
    BY Typing DEF TypeInv, TypeOK
  <1>1. /\ pc[p] = "commit" /\ UNCHANGED <<blobs, fresh>>
        /\ wr' = [wr EXCEPT ![p] = NoWrites] /\ touched' = [touched EXCEPT ![p] = {}]
        /\ torn \ touched[p] \subseteq torn'
        /\ \/ todo[p] = <<>> /\ EndRequest(p)
           \/ /\ todo[p] # <<>> /\ pc' = [pc EXCEPT ![p] = "drow"]
              /\ UNCHANGED <<req, obj, data, todo>>
    BY DEF Commit, EndTransaction, store
  <1>2. \A q \in Procs \ {p} : /\ pc'[q] = pc[q] /\ req'[q] = req[q] /\ obj'[q] = obj[q]
                               /\ data'[q] = data[q] /\ todo'[q] = todo[q]
                               /\ wr'[q] = wr[q] /\ touched'[q] = touched[q]
    BY <1>0, <1>1 DEF EndRequest
  <1>3. touched'[p] = {} /\ \A i \in Ids : wr'[p][i] = Same
    BY <1>0, <1>1 DEF NoWrites
  <1>4. /\ \A i \in Ids :
             /\ rows'[i] = IF wr[p][i] = Same THEN rows[i] ELSE wr[p][i]
             /\ wr[p][i] \notin {None, Same} =>
                   Owns(p, i) /\ obj[p] = i /\ Written(p) /\ wr[p][i] = NewRow(p)
        /\ \A q \in Procs, i \in Ids : Owns(q, i)' => q # p /\ Owns(q, i) /\ rows'[i] = rows[i]
    BY CommitEffect
  <1>5. BlobsMatchRows'
    <2> SUFFICES ASSUME NEW i \in Ids, i \notin torn', i \notin InFlight'
                 PROVE  blobs'[i] = IF rows'[i] = None THEN None ELSE rows'[i].etag
      BY DEF BlobsMatchRows
    <2>1. \A q \in Procs \ {p} : i \notin touched[q]
      <3>1. \A q \in Procs : i \notin touched'[q]
        BY DEF InFlight
      <3>2. QED
        BY <1>2, <3>1
    <2>2. CASE i \in touched[p]
      BY <1>1, <2>2, CommitMatches
    <2>3. CASE i \notin touched[p]
      <3>1. i \notin torn /\ i \notin InFlight
        BY <1>1, <2>1, <2>3, InFlightMember
      <3>2. blobs[i] = IF rows[i] = None THEN None ELSE rows[i].etag
        BY <3>1 DEF BlobInv, BlobsMatchRows
      <3>3. CASE wr[p][i] = Same
        BY <1>1, <1>4, <3>2, <3>3
      <3>4. CASE wr[p][i] = None
        <4>1. Erasing(p)
          BY <3>4, SentinelAssumption DEF LockInv, WritesLocked, WriterLocks, Erasing
        <4>2. QED
          BY <1>1, <2>3, <3>4, <4>1 DEF BlobInv, BlobState, Covered, AtBlob
      <3>5. CASE wr[p][i] \notin {None, Same}
        <4>1. Owns(p, i) /\ obj[p] = i /\ Written(p) /\ rows'[i] = NewRow(p)
          BY <1>4, <3>5
        <4>2. req[p].op = "move"
          BY <1>1, <2>3, <4>1 DEF BlobInv, BlobState, Saved, Written
        <4>3. rows[i] # None /\ rows'[i] # None
          BY <1>4, <3>5, <4>1, <4>2 DEF LockInv, OwnersLock, OwnerLocks
        <4>4. NewRow(p).etag = rows[i].etag
          BY <4>1, <4>2 DEF NewRow
        <4>5. QED
          BY <1>1, <3>2, <4>1, <4>3, <4>4
      <3>6. QED
        BY <3>3, <3>4, <3>5
    <2>4. QED
      BY <2>2, <2>3
  <1>6. ASSUME NEW q \in Procs \ {p} PROVE BlobState(q)'
    <2>0. BlobState(q)
      BY <1>6 DEF BlobInv
    <2>1. Untouched(q)' /\ Saved(q)'
      BY <1>1, <1>2, <1>6, <2>0 DEF BlobState, Untouched, Saved, Bytes
    <2>2. Known(q)'
      BY <1>1, <1>2, <1>4, <1>6, <2>0 DEF BlobState, Known, Refers, Erasing, Deleting
    <2>3. ASSUME NEW i \in Ids, Erasing(q), Refers(q, i), rows[i] = None PROVE rows'[i] = None
      BY <1>4, <1>6, <2>0, <2>3 DEF BlobState, Known
    <2>4. Gone(q)'
      <3>1. Erasing(q)' <=> Erasing(q)
        BY <1>2, <1>6 DEF Erasing, Deleting
      <3>2. \A i \in Ids : AtBlob(q, i)' <=> AtBlob(q, i)
        BY <1>2, <1>6 DEF AtBlob
      <3> SUFFICES ASSUME Erasing(q), NEW i \in Ids
                   PROVE  /\ i \in touched[q] \/ AtBlob(q, i) => wr[q][i] = None \/ rows'[i] = None
                          /\ i \in touched[q] => blobs[i] = None
        BY <1>1, <1>2, <1>6, <3>1, <3>2 DEF Gone
      <3>3. i \in touched[q] \/ AtBlob(q, i) => Refers(q, i)
        BY HeadRefers DEF Refers
      <3>4. QED
        BY <2>0, <2>3, <3>3 DEF BlobState, Gone
    <2>5. Covered(q)'
      BY <1>2, <1>6, <2>0 DEF BlobState, Covered, AtBlob, Erasing, Deleting
    <2>6. QED
      BY <2>1, <2>2, <2>4, <2>5 DEF BlobState
  <1>7. BlobState(p)'
    <2>1. CASE EndRequest(p)
      <3>1. pc'[p] = "idle"
        BY <1>0, <2>1 DEF EndRequest
      <3>2. QED
        BY <1>3, <3>1 DEF BlobState, Untouched, Saved, Known, Gone, Covered, Erasing
    <2>2. CASE /\ todo[p] # <<>> /\ pc' = [pc EXCEPT ![p] = "drow"]
               /\ UNCHANGED <<req, obj, data, todo>>
      <3>1. pc'[p] = "drow" /\ Erasing(p)
        BY <1>0, <1>1, <2>2, OpOf DEF Erasing, Deleting, Shape, UploadShape, CopyShape,
                                      MoveShape, DeleteShape, AdminShape
      <3>2. \A i \in Ids : Refers(p, i)' => Refers(p, i)
        BY <1>3, <2>2 DEF Refers
      <3>3. Known(p)'
        BY <1>1, <1>4, <3>1, <3>2 DEF Known, BlobInv, BlobState
      <3>4. QED
        BY <1>3, <3>1, <3>3, SentinelAssumption
           DEF BlobState, Untouched, Saved, Gone, Covered, AtBlob
    <2>3. QED
      BY <1>1, <2>1, <2>2
  <1>8. QED
    BY <1>5, <1>6, <1>7 DEF BlobInv

LEMMA ReadQuotaBlobs ==
    ASSUME TypeInv, LockInv, BlobInv, NEW p \in Procs, ReadCompanyQuota(p)
    PROVE  BlobInv'
  <1>1. UNCHANGED <<rows, blobs, pc, req, obj, data, todo, wr, touched, fresh, torn>>
    BY DEF ReadCompanyQuota, db, store, locals, history
  <1>2. BlobsMatchRows'
    BY <1>1 DEF BlobInv, BlobsMatchRows, InFlight
  <1>3. \A q \in Procs : BlobState(q)'
    BY <1>1 DEF BlobInv, BlobState, Untouched, Saved, Bytes, Known, Gone, Covered, AtBlob,
                Erasing, Deleting, Refers, Owns
  <1>4. QED
    BY <1>2, <1>3 DEF BlobInv

LEMMA QuotaPutBlobs ==
    ASSUME TypeInv, LockInv, BlobInv, NEW p \in Procs, SaveQuota(p)
    PROVE  BlobInv'
  <1>1. Quiet
    BY EndQuiet DEF SaveQuota, tx
  <1>2. touched[p] = {}
    BY DEF SaveQuota, BlobInv, BlobState, Untouched
  <1>3. QED
    BY <1>1, <1>2, EndBlobs DEF SaveQuota, tx, store

LEMMA NextBlobs ==
    ASSUME Backend = "s3"
    PROVE  TypeInv /\ LockInv /\ BlobInv /\ [Next]_vars => BlobInv'
  <1> SUFFICES ASSUME TypeInv, LockInv, BlobInv, [Next]_vars PROVE BlobInv'
    OBVIOUS
  <1>1. ASSUME NEW p \in Procs, Start(p) PROVE BlobInv'
    BY <1>1, StartBlobs
  <1>2. ASSUME NEW p \in Procs, Step(p) PROVE BlobInv'
    BY <1>2, EarlyBlobs, SaveBlobBlobs, WriteRowBlobs, DeleteRowBlobs, DeleteBlobBlobs,
       ReadQuotaBlobs, UsageBlobs, QuotaPutBlobs, CommitBlobs DEF Step
  <1>3. ASSUME NEW p \in Procs, Fault(p) \/ DeadlockVictim(p) PROVE BlobInv'
    BY <1>3, RollbackBlobs DEF Fault, DeadlockVictim
  <1>4. CASE PutUserQuota \/ UNCHANGED vars
    <2>1. UNCHANGED <<rows, blobs, pc, req, obj, data, todo, wr, touched, fresh, torn>>
      BY <1>4 DEF PutUserQuota, vars, db, store, locals, tx, history
    <2>2. BlobsMatchRows'
      BY <2>1 DEF BlobInv, BlobsMatchRows, InFlight
    <2>3. \A p \in Procs : BlobState(p)'
      BY <2>1 DEF BlobInv, BlobState, Untouched, Saved, Bytes, Known, Gone, Covered, AtBlob,
                  Erasing, Deleting, Refers, Owns
    <2>4. QED
      BY <2>2, <2>3 DEF BlobInv
  <1>5. QED
    BY <1>1, <1>2, <1>3, <1>4 DEF Next

\* With a backend that replaces what a key holds (S3), an object on which no
\* request is at work has the bytes its etag names, and an id without a row
\* has no blob, for any number of concurrent uploads, copies, moves and
\* deletes: only a request rolled back after it changed a blob, or a copy of a
\* source that changed under it, leaves the two apart (upload_object,
\* copy_object, delete_object around the database transaction).
THEOREM BlobsFollowRows == ASSUME Backend = "s3" PROVE Spec => []BlobsMatchRows
  <1>1. Init => TypeInv /\ LockInv /\ BlobInv
    BY InitType, InitLocks, InitBlobs
  <1>2. TypeInv /\ LockInv /\ BlobInv /\ [Next]_vars => TypeInv' /\ LockInv' /\ BlobInv'
    BY NextType, NextLocks, NextBlobs
  <1>3. BlobInv => BlobsMatchRows
    BY DEF BlobInv
  <1>4. QED
    BY <1>1, <1>2, <1>3, PTL DEF Spec

=============================================================================
