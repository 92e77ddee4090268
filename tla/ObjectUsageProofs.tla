-------------------------- MODULE ObjectUsageProofs --------------------------
(***************************************************************************)
(* Proofs about the byte counters of ObjectStore: the company's and each   *)
(* user's used_bytes are what the committed objects hold, and an unlocked  *)
(* check lets the company's pass its cap by a bounded amount.              *)
(*                                                                         *)
(* The counters move with a transaction that may span many steps, so the   *)
(* inductive invariant keeps books for each: what it has charged and what  *)
(* it owes is what its written rows add to the committed bytes and take    *)
(* away.  Bytes are counted as pairs of an object and a position, claims   *)
(* as pairs of a request and a position, and cardinalities of finite sets  *)
(* take the place of sums.                                                 *)
(***************************************************************************)
EXTENDS ObjectStoreProofs, FiniteSetTheorems

(***************************************************************************)
(* Bytes                                                                   *)
(***************************************************************************)

\* The bytes of the objects in S that the rows R give to a user in W, as pairs
\* of an object and a position.
Volume(R, S, W) ==
    UNION {{i} \X (1..SizeOf[R[i].etag]) :
              i \in {j \in S : R[j] \notin {None, Same} /\ R[j].owner \in W}}

Size(R, S, W) == Cardinality(Volume(R, S, W))

\* What transaction p will add to the bytes of the users in W, and take away.
Added(p, W) == Size(wr[p], Dirty(p), W)

Removed(p, W) == Size(rows, Dirty(p), W)

\* Working copies of the counters are held under the lock of the quota row.
ChargeHeld ==
    \A p \in Procs : charge[p] # None =>
        quotaLock = p /\ pc[p] \in {"drow", "dblob", "quota", "commit"}

\* What the request has still to charge for the row it has written or deleted.
Owed(p) == IF pc[p] \in {"dblob", "quota"} THEN Delta(p) ELSE 0

OwedBy(p, u) == IF pc[p] \in {"dblob", "quota"} /\ Charged(p) = u THEN Delta(p) ELSE 0

\* What the transaction has charged so far.
Booked(p) == IF charge[p] = None THEN 0 ELSE charge[p].used - quota.used

UsedIn(uq, u) == IF uq[u] # None THEN uq[u].used ELSE 0

BookedFor(p, u) == IF charge[p] = None THEN 0 ELSE UsedIn(charge[p].users, u) - UserUsed(u)

\* An overwrite of another user's object will be charged to the wrong one.
Misled(p) ==
    skewed[p] \cup
        IF pc[p] = "quota" /\ Overwriting(p) /\ rows[obj[p]].owner # req[p].user
        THEN {req[p].user, rows[obj[p]].owner} ELSE {}

\* Charged and still owed is what the transaction changes.
CompanyBooks(p) ==
    ~drift /\ ~stale[p] => Booked(p) + Owed(p) = Added(p, Users) - Removed(p, Users)

UserBooks(p, u) ==
    u \notin skew \cup Misled(p) =>
        BookedFor(p, u) + OwedBy(p, u) = Added(p, {u}) - Removed(p, {u})

\* The committed rows, and the rows a transaction has written.
RowsOf == [Ids -> StorageObject \cup {None, Same}]

\* The objects in S that R gives to a user in W.
Held(R, S, W) == {i \in S : R[i] \notin {None, Same} /\ R[i].owner \in W}

\* The pairs of one object or request are as many as its positions.
LEMMA Positions ==
    ASSUME NEW i, NEW n \in Nat
    PROVE  IsFiniteSet({i} \X (1..n)) /\ Cardinality({i} \X (1..n)) = n
  <1>1. 1 \in Int /\ n \in Int
    OBVIOUS
  <1>2. IsFiniteSet(1..n) /\ Cardinality(1..n) = IF 1 > n THEN 0 ELSE n - 1 + 1
    BY ONLY <1>1, FS_Interval, Zenon
  <1>3. Cardinality(1..n) = n
    BY <1>2
  <1>4. IsFiniteSet({i}) /\ Cardinality({i}) = 1
    BY FS_Singleton, Zenon
  <1>5. /\ IsFiniteSet({i} \X (1..n))
        /\ Cardinality({i} \X (1..n)) = Cardinality({i}) * Cardinality(1..n)
    BY <1>2, <1>4, FS_Product, Zenon
  <1>6. QED
    BY <1>3, <1>4, <1>5

\* The bytes of finitely many objects can be counted.
LEMMA VolumeFinite ==
    ASSUME NEW R \in RowsOf, NEW S \in SUBSET Ids, NEW W
    PROVE  IsFiniteSet(Volume(R, S, W)) /\ Size(R, S, W) \in Nat
  <1> DEFINE H == Held(R, S, W)
             f == [i \in H |-> {i} \X (1..SizeOf[R[i].etag])]
             T == {f[i] : i \in H}
  <1>1. IsFiniteSet(H)
    BY FiniteAssumption, FS_Subset DEF Held
  <1>2. f \in Surjection(H, T)
    BY DEF Surjection
  <1>3. IsFiniteSet(T)
    BY <1>1, <1>2, FS_Surjection
  <1>4. \A i \in H : SizeOf[R[i].etag] \in Nat
    BY ObjectStoreAssumption DEF Held, RowsOf, StorageObject
  <1>5. \A V \in T : IsFiniteSet(V)
    <2> SUFFICES ASSUME NEW i \in H PROVE IsFiniteSet({i} \X (1..SizeOf[R[i].etag]))
      OBVIOUS
    <2>1. SizeOf[R[i].etag] \in Nat
      BY <1>4
    <2>2. QED
      BY <2>1, Positions
  <1>6. IsFiniteSet(UNION T)
    BY <1>3, <1>5, FS_UNION
  <1>7. UNION T = Volume(R, S, W)
    BY DEF Volume, Held
  <1>8. QED
    BY <1>6, <1>7, FS_CardinalityType DEF Size

\* Disjoint sets of objects add up.
LEMMA SizeAdds ==
    ASSUME NEW R \in RowsOf, NEW S \in SUBSET Ids, NEW T \in SUBSET Ids, NEW W, S \cap T = {}
    PROVE  Size(R, S \cup T, W) = Size(R, S, W) + Size(R, T, W)
  <1>1. IsFiniteSet(Volume(R, S, W)) /\ IsFiniteSet(Volume(R, T, W))
    BY VolumeFinite
  <1>2. Volume(R, S \cup T, W) = Volume(R, S, W) \cup Volume(R, T, W)
    BY DEF Volume
  <1>3. Volume(R, S, W) \cap Volume(R, T, W) = {}
    BY DEF Volume
  <1>4. Cardinality(Volume(R, S, W) \cup Volume(R, T, W)) =
            Cardinality(Volume(R, S, W)) + Cardinality(Volume(R, T, W))
                - Cardinality(Volume(R, S, W) \cap Volume(R, T, W))
    BY <1>1, FS_Union, Zenon
  <1>5. Cardinality(Volume(R, S, W) \cap Volume(R, T, W)) = 0
    BY <1>3, FS_EmptySet, Zenon
  <1>6. Size(R, S, W) \in Nat /\ Size(R, T, W) \in Nat
    BY VolumeFinite
  <1>7. Size(R, S \cup T, W) = Size(R, S, W) + Size(R, T, W) - 0
    BY <1>2, <1>4, <1>5, Zenon DEF Size
  <1>8. QED
    BY <1>6, <1>7

\* One object.
LEMMA SizeOne ==
    ASSUME NEW R \in RowsOf, NEW i \in Ids, NEW W
    PROVE  Size(R, {i}, W) = IF R[i] \notin {None, Same} /\ R[i].owner \in W
                             THEN SizeOf[R[i].etag] ELSE 0
  <1>1. CASE R[i] \notin {None, Same} /\ R[i].owner \in W
    <2> DEFINE n == SizeOf[R[i].etag]
    <2>1. n \in Nat
      BY <1>1, ObjectStoreAssumption DEF RowsOf, StorageObject
    <2>2. Volume(R, {i}, W) = {i} \X (1..n)
      BY <1>1 DEF Volume
    <2>3. Cardinality({i} \X (1..n)) = n
      BY <2>1, Positions
    <2>4. QED
      BY <1>1, <2>2, <2>3 DEF Size
  <1>2. CASE ~(R[i] \notin {None, Same} /\ R[i].owner \in W)
    <2>1. Volume(R, {i}, W) = {}
      BY <1>2 DEF Volume
    <2>2. QED
      BY <1>2, <2>1, FS_EmptySet DEF Size
  <1>3. QED
    BY <1>1, <1>2

LEMMA SizeNone ==
    ASSUME NEW R, NEW S, NEW W, \A i \in S : R[i] \in {None, Same}
    PROVE  Size(R, S, W) = 0
  <1>1. Volume(R, S, W) = {}
    BY DEF Volume
  <1>2. QED
    BY <1>1, FS_EmptySet DEF Size

\* Only the rows of S count.
LEMMA SizeSame ==
    ASSUME NEW R, NEW Q, NEW S, NEW W, \A i \in S : R[i] = Q[i]
    PROVE  Size(R, S, W) = Size(Q, S, W)
  <1>1. Volume(R, S, W) = Volume(Q, S, W)
    BY DEF Volume
  <1>2. QED
    BY <1>1 DEF Size

\* Rows with some of them replaced: what the new ones have comes in, what the
\* replaced ones had goes.
LEMMA SizeOverlay ==
    ASSUME NEW R \in RowsOf, NEW Q \in RowsOf, NEW N \in RowsOf, NEW W,
           \A i \in Ids : N[i] = IF Q[i] = Same THEN R[i] ELSE Q[i],
           NEW D, D = {i \in Ids : Q[i] # Same}
    PROVE  /\ Size(N, Ids, W) = Size(R, Ids, W) + Size(Q, D, W) - Size(R, D, W)
           /\ Size(R, Ids, W) \in Nat /\ Size(Q, D, W) \in Nat /\ Size(R, D, W) \in Nat
           /\ Size(N, Ids, W) \in Nat
  <1> DEFINE E == Ids \ D
  <1>1. D \in SUBSET Ids /\ E \in SUBSET Ids /\ D \cap E = {} /\ D \cup E = Ids
    OBVIOUS
  <1>2. \A i \in D : N[i] = Q[i]
    OBVIOUS
  <1>3. \A i \in E : N[i] = R[i]
    OBVIOUS
  <1> HIDE DEF E
  <1>4. Size(N, D, W) = Size(Q, D, W) /\ Size(N, E, W) = Size(R, E, W)
    BY <1>2, <1>3, SizeSame
  <1>5. Size(N, Ids, W) = Size(N, D, W) + Size(N, E, W)
    <2>1. Size(N, D \cup E, W) = Size(N, D, W) + Size(N, E, W)
      BY <1>1, SizeAdds
    <2>2. QED
      BY <1>1, <2>1, Zenon
  <1>6. Size(R, Ids, W) = Size(R, D, W) + Size(R, E, W)
    <2>1. Size(R, D \cup E, W) = Size(R, D, W) + Size(R, E, W)
      BY <1>1, SizeAdds
    <2>2. QED
      BY <1>1, <2>1, Zenon
  <1>7. /\ Size(R, D, W) \in Nat /\ Size(R, E, W) \in Nat /\ Size(Q, D, W) \in Nat
        /\ Size(R, Ids, W) \in Nat /\ Size(N, Ids, W) \in Nat
    BY <1>1, VolumeFinite
  <1>8. QED
    BY <1>4, <1>5, <1>6, <1>7

LEMMA UsageTyping ==
    ASSUME TypeInv, NEW p \in Procs
    PROVE  /\ rows \in RowsOf /\ wr[p] \in RowsOf
           /\ rows \in [Ids -> StorageObject \cup {None}] /\ \A i \in Ids : rows[i] # Same
           /\ Dirty(p) \in SUBSET Ids
           /\ quota.used \in Nat /\ \A u \in Users : UserUsed(u) \in Nat
           /\ \A W : Added(p, W) \in Nat /\ Removed(p, W) \in Nat
  <1>1. /\ rows \in RowsOf /\ wr[p] \in RowsOf
        /\ rows \in [Ids -> StorageObject \cup {None}]
        /\ quota.used \in Nat /\ Dirty(p) \in SUBSET Ids
    BY DEF TypeInv, TypeOK, RowsOf, Dirty
  <1>2. \A i \in Ids : rows[i] # Same
    BY <1>1, SentinelAssumption
  <1>3. \A u \in Users : UserUsed(u) \in Nat
    BY DEF TypeInv, TypeOK, UserUsed, UserQuota
  <1>4. \A W : Added(p, W) \in Nat /\ Removed(p, W) \in Nat
    BY <1>1, VolumeFinite DEF Added, Removed
  <1>5. QED
    BY <1>1, <1>2, <1>3, <1>4

\* The two counts of committed bytes as sizes.
SizesCommitted ==
    /\ Cardinality(BytesOf(Live)) = Size(rows, Ids, Users)
    /\ \A u \in Users :
          Cardinality(BytesOf({i \in Live : rows[i].owner = u})) = Size(rows, Ids, {u})

LEMMA CommittedSize == TypeInv => SizesCommitted
  <1> SUFFICES ASSUME TypeInv PROVE SizesCommitted
    OBVIOUS
  <1>1. rows \in [Ids -> StorageObject \cup {None}] /\ \A i \in Ids : rows[i] # Same
    BY SentinelAssumption DEF TypeInv, TypeOK
  <1>2. Live = {j \in Ids : rows[j] \notin {None, Same} /\ rows[j].owner \in Users}
    BY <1>1 DEF Live, StorageObject
  <1>3. BytesOf(Live) = Volume(rows, Ids, Users)
    BY <1>2 DEF BytesOf, Volume
  <1>4. ASSUME NEW u \in Users
        PROVE  BytesOf({i \in Live : rows[i].owner = u}) = Volume(rows, Ids, {u})
    <2>1. {i \in Live : rows[i].owner = u} =
              {j \in Ids : rows[j] \notin {None, Same} /\ rows[j].owner \in {u}}
      BY <1>1 DEF Live
    <2>2. QED
      BY <2>1 DEF BytesOf, Volume
  <1>5. QED
    BY <1>3, <1>4 DEF Size, SizesCommitted

LEMMA CommittedSizeNext == TypeInv' => SizesCommitted'
  BY CommittedSize, PTL

\* A transaction that has written, charged and owes nothing.
LEMMA EmptyBooks ==
    ASSUME NEW p \in Procs, \A i \in Ids : wr'[p][i] = Same, charge'[p] = None,
           pc'[p] \notin {"dblob", "quota"}
    PROVE  CompanyBooks(p)' /\ \A u \in Users : UserBooks(p, u)'
  <1>1. Dirty(p)' = {}
    BY DEF Dirty
  <1>2. \A W : Size(wr'[p], {}, W) = 0 /\ Size(rows', {}, W) = 0
    BY SizeNone
  <1>3. \A W : Added(p, W)' = 0 /\ Removed(p, W)' = 0
    BY <1>1, <1>2 DEF Added, Removed
  <1>4. Booked(p)' = 0 /\ Owed(p)' = 0 /\ \A u \in Users : BookedFor(p, u)' = 0 /\ OwedBy(p, u)' = 0
    BY DEF Booked, Owed, BookedFor, OwedBy
  <1>5. QED
    BY <1>3, <1>4 DEF CompanyBooks, UserBooks

\* What a request at its charge has written is its own object's row.
LEMMA ChargingOwns ==
    ASSUME TypeInv, NEW q \in Procs, pc[q] \in {"dblob", "quota"}
    PROVE  \/ Deleting(q) /\ ~Overwriting(q)
           \/ ~Deleting(q) /\ req[q].op = "copy" /\ ~Overwriting(q) /\ Written(q) /\ pc[q] = "quota"
           \/ /\ ~Deleting(q) /\ req[q].op = "upload" /\ Written(q) /\ pc[q] = "quota"
              /\ obj[q] \in Ids /\ Owns(q, obj[q])
  <1>0. Shape(q)
    BY Typing
  <1>1. CASE DeleteShape(q)
    BY <1>1, OpOf DEF DeleteShape, Deleting, Overwriting
  <1>2. CASE UploadShape(q)
    BY <1>2, OpOf, WrittenOwns DEF UploadShape, Deleting, Written
  <1>3. CASE CopyShape(q)
    BY <1>3, OpOf DEF CopyShape, Deleting, Overwriting, Written
  <1>4. QED
    BY <1>0, <1>1, <1>2, <1>3 DEF Shape, MoveShape, AdminShape

\* The books of another request stay as they are.
LEMMA BooksFrame ==
    ASSUME TypeInv, LockInv, NEW p \in Procs, NEW q \in Procs, q # p,
           pc'[q] = pc[q], req'[q] = req[q], obj'[q] = obj[q], todo'[q] = todo[q],
           wr'[q] = wr[q], charge'[q] = charge[q], stale'[q] = stale[q], skewed'[q] = skewed[q],
           \A i \in Ids : Owns(q, i) \/ wr[q][i] # Same => rows'[i] = rows[i],
           charge[q] # None => quota'.used = quota.used /\ userQuota' = userQuota,
           drift => drift', skew \subseteq skew'
    PROVE  /\ CompanyBooks(q) => CompanyBooks(q)'
           /\ \A u \in Users : UserBooks(q, u) => UserBooks(q, u)'
  <1>1. Dirty(q)' = Dirty(q) /\ \A i \in Dirty(q) : rows'[i] = rows[i]
    BY DEF Dirty
  <1>2. \A W : Size(rows', Dirty(q), W) = Size(rows, Dirty(q), W)
    BY <1>1, SizeSame
  <1>3. \A W : Added(q, W)' = Added(q, W) /\ Removed(q, W)' = Removed(q, W)
    BY <1>1, <1>2 DEF Added, Removed
  <1>4. ASSUME pc[q] \in {"dblob", "quota"}
        PROVE  /\ Deleting(q)' <=> Deleting(q)
               /\ Overwriting(q)' <=> Overwriting(q)
               /\ Overwriting(q) => rows'[obj[q]] = rows[obj[q]]
               /\ Delta(q)' = Delta(q) /\ Charged(q)' = Charged(q)
    <2>1. Deleting(q)' <=> Deleting(q)
      BY DEF Deleting
    <2>2. CASE req[q].op = "upload"
      <3>1. rows'[obj[q]] = rows[obj[q]]
        BY <1>4, <2>2, ChargingOwns DEF Deleting
      <3>2. Overwriting(q)' <=> Overwriting(q)
        BY <3>1 DEF Overwriting
      <3>3. QED
        BY <2>1, <3>1, <3>2 DEF Delta, Charged
    <2>3. CASE req[q].op # "upload"
      <3>1. ~Overwriting(q) /\ ~Overwriting(q)'
        BY <2>3 DEF Overwriting
      <3>2. QED
        BY <2>1, <3>1 DEF Delta, Charged
    <2>4. QED
      BY <2>2, <2>3
  <1>5. Owed(q)' = Owed(q) /\ \A u \in Users : OwedBy(q, u)' = OwedBy(q, u)
    BY <1>4 DEF Owed, OwedBy
  <1>6. Misled(q)' = Misled(q)
    BY <1>4 DEF Misled
  <1>7. Booked(q)' = Booked(q) /\ \A u \in Users : BookedFor(q, u)' = BookedFor(q, u)
    BY DEF Booked, BookedFor, UserUsed
  <1>8. QED
    BY <1>3, <1>5, <1>6, <1>7 DEF CompanyBooks, UserBooks

(***************************************************************************)
(* The counters through every step                                         *)
(***************************************************************************)

\* The books of every transaction are right.
BookInv == ChargeHeld /\ \A p \in Procs : CompanyBooks(p) /\ \A u \in Users : UserBooks(p, u)

\* The inductive invariant of the counters.
UsageInv == BookInv /\ UsageExactUnlessStale /\ UserUsageExactUnlessSkewed

LEMMA InitUsage == Init => UsageInv
  <1> SUFFICES ASSUME Init PROVE UsageInv
    OBVIOUS
  <1>1. TypeInv
    BY InitType
  <1>2. /\ \A i \in Ids : rows[i] = None
        /\ \A p \in Procs : /\ charge[p] = None /\ pc[p] = "idle"
                            /\ \A i \in Ids : wr[p][i] = Same
        /\ quota.used = 0 /\ \A u \in Users : userQuota[u] = None
    BY DEF Init, NoWrites
  <1>3. \A W : Size(rows, Ids, W) = 0
    BY <1>2, SizeNone
  <1>4. UsageExactUnlessStale /\ UserUsageExactUnlessSkewed
    BY <1>1, <1>2, <1>3, CommittedSize
       DEF SizesCommitted, UsageExactUnlessStale, UserUsageExactUnlessSkewed, UserUsed
  <1>5. ASSUME NEW p \in Procs PROVE CompanyBooks(p) /\ \A u \in Users : UserBooks(p, u)
    <2>1. Dirty(p) = {}
      BY <1>2 DEF Dirty
    <2>2. \A W : Size(wr[p], {}, W) = 0 /\ Size(rows, {}, W) = 0
      BY SizeNone
    <2>3. \A W : Added(p, W) = 0 /\ Removed(p, W) = 0
      BY <2>1, <2>2 DEF Added, Removed
    <2>4. QED
      BY <1>2, <2>3 DEF CompanyBooks, UserBooks, Booked, Owed, BookedFor, OwedBy
  <1>6. QED
    BY <1>2, <1>4, <1>5 DEF UsageInv, BookInv, ChargeHeld

\* The counters see nothing of the other requests' own variables change.
OthersSame(p) ==
    \A q \in Procs \ {p} :
        /\ pc'[q] = pc[q] /\ req'[q] = req[q] /\ obj'[q] = obj[q] /\ todo'[q] = todo[q]
        /\ wr'[q] = wr[q] /\ charge'[q] = charge[q] /\ stale'[q] = stale[q]
        /\ skewed'[q] = skewed[q]

\* What a step of p owes the books: its own, and the locks of the others.
LEMMA BookFrame ==
    ASSUME TypeInv, LockInv, BookInv, NEW p \in Procs, OthersSame(p),
           \A q \in Procs \ {p}, i \in Ids : Owns(q, i) \/ wr[q][i] # Same => rows'[i] = rows[i],
           \A q \in Procs \ {p} : quotaLock = q => quotaLock' = q,
           \A q \in Procs \ {p} : charge[q] # None =>
               quota'.used = quota.used /\ userQuota' = userQuota,
           drift => drift', skew \subseteq skew',
           charge'[p] # None =>
               quotaLock' = p /\ pc'[p] \in {"drow", "dblob", "quota", "commit"},
           CompanyBooks(p)', \A u \in Users : UserBooks(p, u)'
    PROVE  BookInv'
  <1>1. ChargeHeld'
    BY DEF BookInv, ChargeHeld, OthersSame
  <1>2. ASSUME NEW q \in Procs \ {p}
        PROVE  CompanyBooks(q)' /\ \A u \in Users : UserBooks(q, u)'
    BY BooksFrame DEF BookInv, OthersSame
  <1>3. QED
    BY <1>1, <1>2 DEF BookInv

\* A step that changes no committed row and no committed counter.
CommittedSame == UNCHANGED <<rows, quota, userQuota, drift, skew>>

LEMMA UsageFrame ==
    ASSUME TypeInv, LockInv, UsageInv, NEW p \in Procs, OthersSame(p), CommittedSame,
           \A q \in Procs \ {p} : quotaLock = q => quotaLock' = q,
           charge'[p] # None =>
               quotaLock' = p /\ pc'[p] \in {"drow", "dblob", "quota", "commit"},
           CompanyBooks(p)', \A u \in Users : UserBooks(p, u)'
    PROVE  UsageInv'
  <1>1. BookInv'
    BY BookFrame DEF UsageInv, CommittedSame
  <1>2. UsageExactUnlessStale' /\ UserUsageExactUnlessSkewed'
    BY DEF UsageInv, UsageExactUnlessStale, UserUsageExactUnlessSkewed, BytesOf, Live, UserUsed,
           CommittedSame
  <1>3. QED
    BY <1>1, <1>2 DEF UsageInv

\* A request that has written and charged nothing, or no longer.
LEMMA EmptyUsage ==
    ASSUME TypeInv, LockInv, UsageInv, NEW p \in Procs, OthersSame(p), CommittedSame,
           \A q \in Procs \ {p} : quotaLock = q => quotaLock' = q,
           \A i \in Ids : wr'[p][i] = Same, charge'[p] = None,
           pc'[p] \notin {"dblob", "quota"}
    PROVE  UsageInv'
  BY EmptyBooks, UsageFrame

\* Where the variables are that the counters are kept in.
LEMMA BookTyping ==
    ASSUME TypeInv
    PROVE  /\ pc \in [Procs -> Labels] /\ obj \in [Procs -> Ids \cup {None}]
           /\ req \in [Procs -> Request \cup {None}] /\ todo \in [Procs -> Seq(Instance)]
           /\ wr \in [Procs -> [Ids -> StorageObject \cup {None, Same}]]
           /\ charge \in [Procs -> Charge \cup {None}]
           /\ stale \in [Procs -> BOOLEAN] /\ skewed \in [Procs -> SUBSET Users]
           /\ quotaLock \in Procs \cup {None} /\ None \notin Procs
  BY ObjectStoreAssumption DEF TypeInv, TypeOK

LEMMA RollbackUsage ==
    ASSUME TypeInv, LockInv, UsageInv, NEW p \in Procs, Rollback(p)
    PROVE  UsageInv'
  <1>0. /\ pc \in [Procs -> Labels] /\ obj \in [Procs -> Ids \cup {None}]
        /\ req \in [Procs -> Request \cup {None}] /\ todo \in [Procs -> Seq(Instance)]
        /\ wr \in [Procs -> [Ids -> StorageObject \cup {None, Same}]]
        /\ charge \in [Procs -> Charge \cup {None}]
        /\ stale \in [Procs -> BOOLEAN] /\ skewed \in [Procs -> SUBSET Users]
    BY BookTyping
  <1>1. /\ EndRequest(p) /\ EndTransaction(p) /\ CommittedSame
    BY DEF Rollback, db, CommittedSame
  <1>2. \A q \in Procs \ {p} : /\ pc'[q] = pc[q] /\ req'[q] = req[q] /\ obj'[q] = obj[q]
                               /\ todo'[q] = todo[q]
    BY <1>0, <1>1 DEF EndRequest
  <1>3. \A q \in Procs \ {p} : /\ wr'[q] = wr[q] /\ charge'[q] = charge[q]
                               /\ stale'[q] = stale[q] /\ skewed'[q] = skewed[q]
    BY <1>0, <1>1 DEF EndTransaction
  <1>4. OthersSame(p)
    BY <1>2, <1>3 DEF OthersSame
  <1>5. pc'[p] = "idle" /\ charge'[p] = None /\ \A i \in Ids : wr'[p][i] = Same
    BY <1>0, <1>1 DEF EndRequest, EndTransaction, NoWrites
  <1>6. \A q \in Procs \ {p} : quotaLock = q => quotaLock' = q
    BY <1>1 DEF EndTransaction, ReleaseLocks
  <1>7. QED
    BY <1>1, <1>4, <1>5, <1>6, EmptyUsage

\* The steps before a request has written a row.
LEMMA EarlyUsage ==
    ASSUME TypeInv, LockInv, UsageInv, NEW p \in Procs,
           \/ Start(p) \/ LockUpload(p) \/ LockMove(p) \/ CheckQuota(p) \/ OpenSource(p)
           \/ SaveBlob(p)
    PROVE  UsageInv'
  <1>0. /\ pc \in [Procs -> Labels] /\ obj \in [Procs -> Ids \cup {None}]
        /\ req \in [Procs -> Request \cup {None}] /\ todo \in [Procs -> Seq(Instance)]
        /\ None \notin Procs /\ Shape(p)
    BY BookTyping, Typing
  <1>1. /\ UNCHANGED <<wr, charge, stale, skewed>> /\ CommittedSame
        /\ pc[p] \in {"idle", "lock", "check", "open", "blob"}
    <2>1. CASE Start(p)
      BY <2>1 DEF Start, StartUpload, StartCopy, StartMove, StartDelete, StartQuotaPut, Begin,
                  db, tx, history, CommittedSame
    <2>2. CASE LockUpload(p) \/ LockMove(p) \/ CheckQuota(p) \/ OpenSource(p)
      BY <2>2 DEF LockUpload, LockMove, CheckQuota, OpenSource, db, tx, history, CommittedSame
    <2>3. CASE SaveBlob(p)
      BY <2>3 DEF SaveBlob, db, history, CommittedSame
    <2>4. QED
      BY <2>1, <2>2, <2>3
  <1>2. /\ pc'[p] \notin {"dblob", "quota"}
        /\ \A q \in Procs \ {p} : quotaLock = q => quotaLock' = q
        /\ \A q \in Procs \ {p} : /\ pc'[q] = pc[q] /\ req'[q] = req[q] /\ obj'[q] = obj[q]
                                  /\ todo'[q] = todo[q]
    <2>1. CASE Start(p)
      BY <1>0, <2>1 DEF Start, StartUpload, StartCopy, StartMove, StartDelete, StartQuotaPut, Begin,
                        locks
    <2>2. CASE Refuse(p)
      BY <1>0, <2>2 DEF Refuse, EndRequest, ReleaseLocks
    <2>3. CASE ~Refuse(p) /\ ~Start(p)
      BY <1>0, <2>3 DEF LockUpload, LockMove, CheckQuota, OpenSource, SaveBlob, Goto, locks
    <2>4. QED
      BY <2>1, <2>2, <2>3
  <1>3. \A i \in Ids : wr[p][i] = Same
    <2>1. pc[p] = "idle" \/ ~(Written(p) \/ Deleting(p))
      BY <1>0, <1>1, OpOf DEF Written, Deleting, Shape, UploadShape, CopyShape, MoveShape,
                              DeleteShape, AdminShape
    <2>2. QED
      BY <2>1, NothingWritten
  <1>4. charge[p] = None
    BY <1>1 DEF UsageInv, BookInv, ChargeHeld
  <1>5. OthersSame(p)
    BY <1>1, <1>2 DEF OthersSame
  <1>6. QED
    BY <1>1, <1>2, <1>3, <1>4, <1>5, EmptyUsage

\* A transaction whose only image is the one of its object o.
LEMMA OneWritten ==
    ASSUME TypeInv', NEW p \in Procs, NEW o \in Ids, NEW r \in StorageObject, wr'[p][o] = r,
           \A i \in Ids \ {o} : wr'[p][i] = Same, NEW W
    PROVE  /\ Added(p, W)' = IF r.owner \in W THEN SizeOf[r.etag] ELSE 0
           /\ Removed(p, W)' = IF rows'[o] # None /\ rows'[o].owner \in W
                               THEN SizeOf[rows'[o].etag] ELSE 0
  <1>1. r \notin {None, Same}
    BY SentinelAssumption
  <1>2. Dirty(p)' = {o}
    BY <1>1 DEF Dirty
  <1>3. wr'[p] \in RowsOf /\ rows' \in RowsOf /\ rows'[o] # Same
    BY SentinelAssumption DEF TypeInv, TypeOK, RowsOf
  <1>4. Size(wr'[p], {o}, W) = IF r.owner \in W THEN SizeOf[r.etag] ELSE 0
    BY <1>1, <1>3, SizeOne
  <1>5. Size(rows', {o}, W) = IF rows'[o] # None /\ rows'[o].owner \in W
                              THEN SizeOf[rows'[o].etag] ELSE 0
    BY <1>3, SizeOne
  <1>6. QED
    BY <1>2, <1>4, <1>5 DEF Added, Removed

LEMMA WriteRowUsage ==
    ASSUME TypeInv, TypeInv', LockInv, UsageInv, NEW p \in Procs, WriteRow(p)
    PROVE  UsageInv'
  <1>1. CASE Rollback(p)
    BY <1>1, RollbackUsage
  <1>2. CASE ~Rollback(p)
    <2>0. /\ pc \in [Procs -> Labels] /\ obj \in [Procs -> Ids \cup {None}]
          /\ wr \in [Procs -> [Ids -> StorageObject \cup {None, Same}]]
          /\ rows \in [Ids -> StorageObject \cup {None}]
          /\ Shape(p)
      BY BookTyping, Typing
    <2>1. /\ obj[p] \in Ids /\ Owns(p, obj[p]) /\ ~Deleting(p)
          /\ \A i \in Ids : wr[p][i] = Same
          /\ wr' = [wr EXCEPT ![p] = [@ EXCEPT ![obj[p]] = NewRow(p)]]
          /\ pc' = [pc EXCEPT ![p] = IF req[p].op = "move" THEN "commit" ELSE "quota"]
          /\ UNCHANGED <<rows, req, obj>>
          /\ NewRow(p) \in StorageObject
          /\ req[p].op \in {"upload", "copy", "move"}
      BY <1>2, WriteRowEffect
    <2>2. /\ UNCHANGED <<quotaLock, charge, stale, skewed, todo>> /\ CommittedSame /\ pc[p] = "row"
      BY <1>2 DEF WriteRow, Goto, db, history, CommittedSame
    <2>3. OthersSame(p) /\ \A q \in Procs \ {p} : quotaLock = q => quotaLock' = q
      BY <2>0, <2>1, <2>2 DEF OthersSame
    <2>4. charge[p] = None
      BY <2>2 DEF UsageInv, BookInv, ChargeHeld
    <2> DEFINE o == obj[p]
               r == NewRow(p)
    <2>5. wr'[p][o] = r /\ \A i \in Ids \ {o} : wr'[p][i] = Same
      BY <2>0, <2>1
    <2>6. \A W : /\ Added(p, W)' = IF r.owner \in W THEN SizeOf[r.etag] ELSE 0
                 /\ Removed(p, W)' = IF rows[o] # None /\ rows[o].owner \in W
                                     THEN SizeOf[rows[o].etag] ELSE 0
      <3> HIDE DEF o, r
      <3>1. o \in Ids /\ r \in StorageObject
        BY <2>1 DEF o, r
      <3>2. QED
        BY <2>1, <2>5, <3>1, OneWritten
    <2>7. rows[o] # None => rows[o].etag \in Contents /\ rows[o].owner \in Users
      BY <2>0, <2>1 DEF StorageObject
    <2>8. Booked(p)' = 0 /\ \A u \in Users : BookedFor(p, u)' = 0
      BY <2>2, <2>4 DEF Booked, BookedFor
    <2>9. CASE req[p].op = "move"
      <3>1. pc'[p] = "commit" /\ rows[o] # None /\ r.etag = rows[o].etag /\ r.owner = rows[o].owner
        BY <2>0, <2>1, <2>9 DEF LockInv, OwnersLock, OwnerLocks, NewRow
      <3>2. \A W : Added(p, W)' = Removed(p, W)' /\ Added(p, W)' \in Nat
        BY <2>6, <2>7, <3>1, ObjectStoreAssumption
      <3>3. CompanyBooks(p)' /\ \A u \in Users : UserBooks(p, u)'
        BY <2>8, <3>1, <3>2 DEF CompanyBooks, UserBooks, Owed, OwedBy
      <3>4. QED
        BY <2>2, <2>3, <2>4, <3>3, UsageFrame
    <2>10. CASE req[p].op # "move"
      <3>1. pc'[p] = "quota" /\ r.etag = req[p].etag /\ r.owner = req[p].user
        BY <2>0, <2>1, <2>10 DEF NewRow
      <3>2. r.etag \in Contents /\ r.owner \in Users
        BY <2>1 DEF StorageObject
      <3>3. /\ Deleting(p)' <=> Deleting(p)
            /\ Overwriting(p)' <=> Overwriting(p)
            /\ Delta(p)' = Delta(p) /\ Charged(p)' = Charged(p)
        BY <2>1, <2>2 DEF Deleting, Overwriting, Delta, Charged
      <3>4. Charged(p)' = r.owner /\ (Overwriting(p) <=> rows[o] # None)
        BY <2>1, <2>10, <3>1, <3>3 DEF Charged, Overwriting, LockInv, OwnersLock, OwnerLocks
      <3>5. Delta(p)' = SizeOf[r.etag] - IF rows[o] # None THEN SizeOf[rows[o].etag] ELSE 0
        BY <2>1, <2>7, <3>1, <3>2, <3>3, <3>4, ObjectStoreAssumption DEF Delta
      <3>6. CompanyBooks(p)'
        BY <2>6, <2>7, <2>8, <3>1, <3>2, <3>5, ObjectStoreAssumption DEF CompanyBooks, Owed
      <3>7. ASSUME NEW u \in Users PROVE UserBooks(p, u)'
        <4>1. CASE rows[o] # None /\ rows[o].owner # r.owner
          <5>1. u \notin Misled(p)' => u # r.owner /\ u # rows[o].owner
            BY <2>1, <3>1, <3>3, <3>4, <4>1 DEF Misled
          <5>2. QED
            BY <2>6, <2>8, <3>1, <3>4, <5>1 DEF UserBooks, OwedBy
        <4>2. CASE rows[o] = None \/ rows[o].owner = r.owner
          BY <2>6, <2>7, <2>8, <3>1, <3>2, <3>4, <3>5, <4>2, ObjectStoreAssumption
             DEF UserBooks, OwedBy
        <4>3. QED
          BY <4>1, <4>2
      <3>8. QED
        BY <2>2, <2>3, <2>4, <3>6, <3>7, UsageFrame
    <2>11. QED
      BY <2>9, <2>10
  <1>3. QED
    BY <1>1, <1>2

\* A delete takes its next row away and comes to owe the size it remembers.
LEMMA DeleteRowUsage ==
    ASSUME TypeInv, TypeInv', LockInv, UsageInv, NEW p \in Procs, DeleteRow(p)
    PROVE  UsageInv'
  <1>0. /\ pc \in [Procs -> Labels] /\ todo \in [Procs -> Seq(Instance)]
        /\ wr \in [Procs -> [Ids -> StorageObject \cup {None, Same}]]
        /\ stale \in [Procs -> BOOLEAN] /\ skewed \in [Procs -> SUBSET Users]
        /\ rows \in [Ids -> StorageObject \cup {None}]
        /\ Shape(p) /\ pc[p] = "drow"
    BY BookTyping, Typing DEF DeleteRow
  <1>1. DeleteShape(p) /\ Deleting(p) /\ todo[p] # <<>>
    BY <1>0, OpOf DEF Shape, UploadShape, CopyShape, MoveShape, DeleteShape, AdminShape, Deleting
  <1>2. PICK inst \in Instance : inst = Head(todo[p])
    BY <1>0, <1>1
  <1>3. PICK i \in Ids : i = inst.id
    BY DEF Instance
  <1>4. inst.etag \in Contents /\ inst.owner \in Users /\ SizeOf[inst.etag] \in Nat
    BY ObjectStoreAssumption DEF Instance
  <1> DEFINE present == rows[i] # None /\ wr[p][i] = Same
             removed == IF present THEN SizeOf[rows[i].etag] ELSE 0
             lost == IF present /\ InstanceOf(i) = inst THEN {}
                     ELSE IF present THEN {inst.owner, rows[i].owner} ELSE {inst.owner}
  <1>5. /\ pc' = [pc EXCEPT ![p] = "dblob"]
        /\ IF present THEN wr' = [wr EXCEPT ![p] = [@ EXCEPT ![i] = None]] ELSE UNCHANGED wr
        /\ stale' = [stale EXCEPT ![p] = @ \/ removed # SizeOf[inst.etag]]
        /\ skewed' = [skewed EXCEPT ![p] = @ \cup lost]
        /\ UNCHANGED <<quotaLock, charge, req, obj, todo>> /\ CommittedSame
    BY <1>2, <1>3 DEF DeleteRow, Goto, db, history, CommittedSame
  <1> HIDE DEF lost
  <1>6. OthersSame(p) /\ \A q \in Procs \ {p} : quotaLock = q => quotaLock' = q
    BY <1>0, <1>5 DEF OthersSame
  <1>7. /\ pc'[p] = "dblob" /\ skewed'[p] = skewed[p] \cup lost
        /\ stale'[p] = (stale[p] \/ removed # SizeOf[inst.etag])
    BY <1>0, <1>5, Zenon
  <1>8. /\ Deleting(p)' /\ Delta(p)' = 0 - SizeOf[inst.etag] /\ Charged(p)' = inst.owner
    BY <1>1, <1>2, <1>5 DEF Deleting, Delta, Charged
  <1>9. ASSUME NEW W
        PROVE  /\ Added(p, W)' = Added(p, W) /\ Added(p, W) \in Nat /\ Removed(p, W) \in Nat
               /\ Removed(p, W)' = Removed(p, W) +
                      IF present /\ rows[i].owner \in W THEN SizeOf[rows[i].etag] ELSE 0
    <2>0. Added(p, W) \in Nat /\ Removed(p, W) \in Nat
      BY UsageTyping
    <2>1. CASE ~present
      <3>1. UNCHANGED <<wr, rows>>
        BY <1>5, <2>1 DEF CommittedSame
      <3>2. QED
        BY <2>0, <2>1, <3>1 DEF Added, Removed, Dirty
    <2>2. CASE present
      <3> DEFINE D == Dirty(p)
      <3>1. /\ wr'[p] \in RowsOf /\ rows \in RowsOf /\ D \in SUBSET Ids
            /\ rows[i] \notin {None, Same}
        BY <2>2, UsageTyping DEF TypeInv, TypeOK, RowsOf
      <3>2. /\ wr'[p][i] = None /\ \A j \in Ids \ {i} : wr'[p][j] = wr[p][j]
            /\ UNCHANGED rows
        BY <1>0, <1>5, <2>2 DEF CommittedSame
      <3>3. i \notin D /\ Dirty(p)' = D \cup {i} /\ \A j \in D : wr'[p][j] = wr[p][j]
        BY <2>2, <3>2, SentinelAssumption DEF Dirty
      <3>4. Added(p, W)' = Size(wr'[p], D \cup {i}, W) /\ Removed(p, W)' = Size(rows, D \cup {i}, W)
        BY <3>2, <3>3 DEF Added, Removed
      <3> HIDE DEF D
      <3>5. /\ Size(wr'[p], D \cup {i}, W) = Size(wr'[p], D, W) + Size(wr'[p], {i}, W)
            /\ Size(rows, D \cup {i}, W) = Size(rows, D, W) + Size(rows, {i}, W)
        BY <3>1, <3>3, SizeAdds
      <3>6. Size(wr'[p], D, W) = Size(wr[p], D, W)
        BY <3>3, SizeSame
      <3>7. Size(wr'[p], {i}, W) = 0
        BY <3>1, <3>2, SizeOne
      <3>8. Size(rows, {i}, W) = IF rows[i].owner \in W THEN SizeOf[rows[i].etag] ELSE 0
        BY <3>1, SizeOne
      <3>9. Added(p, W) = Size(wr[p], D, W) /\ Removed(p, W) = Size(rows, D, W)
        BY DEF Added, Removed, D
      <3>10. QED
        BY <2>0, <2>2, <3>4, <3>5, <3>6, <3>7, <3>8, <3>9
    <2>3. QED
      BY <2>1, <2>2
  <1>10. present => /\ rows[i].etag \in Contents /\ rows[i].owner \in Users
                     /\ SizeOf[rows[i].etag] \in Nat
    BY <1>0, ObjectStoreAssumption DEF StorageObject
  <1>11. Booked(p)' = Booked(p) /\ \A u \in Users : BookedFor(p, u)' = BookedFor(p, u)
    BY <1>5 DEF Booked, BookedFor, UserUsed, CommittedSame
  <1>12. Booked(p) \in Int /\ \A u \in Users : BookedFor(p, u) \in Int
    <2>1. charge[p] # None => /\ charge[p].used \in Nat
                              /\ \A u \in Users : UsedIn(charge[p].users, u) \in Nat
      <3>1. charge[p] # None => charge[p] \in Charge
        BY DEF TypeInv, TypeOK
      <3>2. QED
        BY <3>1 DEF Charge, UserQuota, UsedIn
    <2>2. QED
      BY <2>1, UsageTyping DEF Booked, BookedFor
  <1>13. CompanyBooks(p)'
    <2> SUFFICES ASSUME ~drift', ~stale'[p]
                 PROVE  Booked(p)' + Owed(p)' = Added(p, Users)' - Removed(p, Users)'
      BY DEF CompanyBooks
    <2>1. ~drift /\ ~stale[p] /\ removed = SizeOf[inst.etag]
      BY <1>5, <1>7 DEF CommittedSame
    <2>2. Booked(p) + 0 = Added(p, Users) - Removed(p, Users)
      BY <1>0, <2>1 DEF UsageInv, BookInv, CompanyBooks, Owed
    <2>3. Owed(p)' = 0 - SizeOf[inst.etag]
      BY <1>7, <1>8 DEF Owed
    <2>4. QED
      BY <1>4, <1>9, <1>10, <1>11, <1>12, <2>1, <2>2, <2>3
  <1>14. ASSUME NEW u \in Users PROVE UserBooks(p, u)'
    <2> SUFFICES ASSUME u \notin skew', u \notin Misled(p)'
                 PROVE  BookedFor(p, u)' + OwedBy(p, u)' = Added(p, {u})' - Removed(p, {u})'
      BY DEF UserBooks
    <2>1. u \notin skew /\ u \notin skewed[p] /\ u \notin lost
      BY <1>5, <1>7 DEF CommittedSame, Misled
    <2>2. BookedFor(p, u) + 0 = Added(p, {u}) - Removed(p, {u})
      BY <1>0, <2>1 DEF UsageInv, BookInv, UserBooks, OwedBy, Misled
    <2>3. OwedBy(p, u)' = IF inst.owner = u THEN 0 - SizeOf[inst.etag] ELSE 0
      BY <1>7, <1>8 DEF OwedBy
    <2>4. \/ present /\ rows[i].owner = inst.owner /\ rows[i].etag = inst.etag
          \/ inst.owner # u /\ (present => rows[i].owner # u)
      BY <2>1 DEF lost, InstanceOf
    <2>5. QED
      BY <1>4, <1>9, <1>10, <1>11, <1>12, <2>2, <2>3, <2>4
  <1>15. charge'[p] # None => quotaLock' = p /\ pc'[p] \in {"drow", "dblob", "quota", "commit"}
    BY <1>5, <1>7 DEF UsageInv, BookInv, ChargeHeld
  <1>16. QED
    BY <1>5, <1>6, <1>13, <1>14, <1>15, UsageFrame

\* The blob goes: the request owes what it owed.
LEMMA DeleteBlobUsage ==
    ASSUME TypeInv, LockInv, UsageInv, NEW p \in Procs, delete_storage_key(p)
    PROVE  UsageInv'
  <1>0. pc \in [Procs -> Labels] /\ pc[p] = "dblob"
    BY BookTyping DEF delete_storage_key
  <1>1. /\ pc' = [pc EXCEPT ![p] = "quota"] /\ CommittedSame
        /\ UNCHANGED <<quotaLock, req, obj, todo, wr, charge, stale, skewed>>
    BY DEF delete_storage_key, Goto, db, locks, history, CommittedSame
  <1>2. OthersSame(p) /\ pc'[p] = "quota"
    BY <1>0, <1>1 DEF OthersSame
  <1>3. ~Overwriting(p) /\ ~Overwriting(p)' /\ (Deleting(p)' <=> Deleting(p))
    BY <1>0, <1>1, ChargingOwns DEF Overwriting, Deleting, Written
  <1>4. /\ Delta(p)' = Delta(p) /\ Charged(p)' = Charged(p)
    BY <1>1, <1>3 DEF Delta, Charged
  <1>5. \A W : Added(p, W)' = Added(p, W) /\ Removed(p, W)' = Removed(p, W)
    BY <1>1 DEF Added, Removed, Dirty, CommittedSame
  <1>6. /\ Booked(p)' = Booked(p) /\ Owed(p)' = Owed(p) /\ Misled(p)' = Misled(p)
        /\ \A u \in Users : BookedFor(p, u)' = BookedFor(p, u) /\ OwedBy(p, u)' = OwedBy(p, u)
    BY <1>0, <1>1, <1>2, <1>3, <1>4
       DEF Booked, Owed, BookedFor, OwedBy, Misled, UserUsed, CommittedSame
  <1>7. CompanyBooks(p)' /\ \A u \in Users : UserBooks(p, u)'
    BY <1>1, <1>5, <1>6 DEF CompanyBooks, UserBooks, UsageInv, BookInv, CommittedSame
  <1>8. charge'[p] # None => quotaLock' = p /\ pc'[p] \in {"drow", "dblob", "quota", "commit"}
    BY <1>1, <1>2 DEF UsageInv, BookInv, ChargeHeld
  <1>9. QED
    BY <1>1, <1>2, <1>7, <1>8, UsageFrame

\* A charge adds its bytes to one user's counter, if that user is counted.
LEMMA ChargeUserUsed ==
    ASSUME NEW cap \in Nat, NEW uq \in [Users -> UserQuota \cup {None}],
           NEW u \in Users, NEW d \in Int, NEW v \in Users
    PROVE  /\ v # u => UsedIn(ChargeUser(uq, u, cap, d), v) = UsedIn(uq, v)
           /\ ~Untracked(uq, u, cap) =>
                 UsedIn(ChargeUser(uq, u, cap, d), u) = Floor(UsedIn(uq, u) + d)
  <1> DEFINE new == IF uq[u] = None THEN [max |-> cap, used |-> Floor(d)]
                    ELSE [max |-> uq[u].max, used |-> Floor(uq[u].used + d)]
  <1>1. ChargeUser(uq, u, cap, d)
          = IF Untracked(uq, u, cap) THEN uq ELSE [uq EXCEPT ![u] = new]
    BY DEF ChargeUser
  <1>2. new \in UserQuota
    BY DEF UserQuota, Floor
  <1>3. new # None
    BY <1>2, SentinelAssumption
  <1>4. new.used = Floor(UsedIn(uq, u) + d)
    BY DEF UsedIn, Floor
  <1> HIDE DEF new
  <1>5. v # u => UsedIn(ChargeUser(uq, u, cap, d), v) = UsedIn(uq, v)
    BY <1>1 DEF UsedIn
  <1>6. ~Untracked(uq, u, cap) =>
          UsedIn(ChargeUser(uq, u, cap, d), u) = Floor(UsedIn(uq, u) + d)
    BY <1>1, <1>3, <1>4 DEF UsedIn
  <1>7. QED
    BY <1>5, <1>6

\* Reading the company's quota row, as a stuttering step, leaves the books.
LEMMA IdleUsage ==
    ASSUME UsageInv,
           UNCHANGED <<rows, quota, userQuota, quotaLock, pc, req, obj, todo, wr, charge, stale,
                       skewed, drift, skew>>
    PROVE  UsageInv'
  <1>1. \A p \in Procs : /\ Delta(p)' = Delta(p) /\ Charged(p)' = Charged(p)
                         /\ Misled(p)' = Misled(p)
    BY DEF Delta, Charged, Misled, Overwriting, Deleting
  <1>2. \A p \in Procs : /\ Owed(p)' = Owed(p) /\ Booked(p)' = Booked(p)
                         /\ \A u \in Users : /\ OwedBy(p, u)' = OwedBy(p, u)
                                             /\ BookedFor(p, u)' = BookedFor(p, u)
    BY <1>1 DEF Owed, OwedBy, Booked, BookedFor, UserUsed
  <1>3. \A p \in Procs : \A W : Added(p, W)' = Added(p, W) /\ Removed(p, W)' = Removed(p, W)
    BY DEF Added, Removed, Dirty
  <1>4. \A p \in Procs : CompanyBooks(p) => CompanyBooks(p)'
    BY <1>2, <1>3 DEF CompanyBooks
  <1>5. \A p \in Procs, u \in Users : UserBooks(p, u) => UserBooks(p, u)'
    BY <1>1, <1>2, <1>3 DEF UserBooks
  <1>6. ChargeHeld'
    BY DEF UsageInv, BookInv, ChargeHeld
  <1>7. UsageExactUnlessStale' /\ UserUsageExactUnlessSkewed'
    BY DEF UsageInv, UsageExactUnlessStale, UserUsageExactUnlessSkewed, UserUsed, BytesOf, Live
  <1>8. QED
    BY <1>4, <1>5, <1>6, <1>7 DEF UsageInv, BookInv

\* What the bytes are once the transaction has committed.
LEMMA NetSize ==
    ASSUME TypeInv, NEW p \in Procs, NEW W, NEW N,
           N = [i \in Ids |-> IF wr[p][i] = Same THEN rows[i] ELSE wr[p][i]]
    PROVE  /\ Size(N, Ids, W) = Size(rows, Ids, W) + (Added(p, W) - Removed(p, W))
           /\ Size(rows, Ids, W) \in Nat /\ Size(N, Ids, W) \in Nat
  <1>1. rows \in RowsOf /\ wr[p] \in RowsOf
    BY UsageTyping
  <1>2. N \in RowsOf /\ \A i \in Ids : N[i] = IF wr[p][i] = Same THEN rows[i] ELSE wr[p][i]
    BY <1>1 DEF RowsOf
  <1>3. Dirty(p) = {i \in Ids : wr[p][i] # Same}
    BY DEF Dirty
  <1>4. /\ Size(N, Ids, W) =
              Size(rows, Ids, W) + Size(wr[p], Dirty(p), W) - Size(rows, Dirty(p), W)
        /\ Size(rows, Ids, W) \in Nat /\ Size(N, Ids, W) \in Nat
    BY <1>1, <1>2, <1>3, SizeOverlay, Z3
  <1>5. QED
    BY <1>4 DEF Added, Removed

\* It is never negative.
LEMMA NetNatural ==
    ASSUME TypeInv, NEW p \in Procs, NEW W
    PROVE  /\ Size(rows, Ids, W) + Added(p, W) - Removed(p, W) \in Nat
           /\ Size(rows, Ids, W) \in Nat
  BY NetSize

\* The charge of what is owed; the floor at 0 is not met while the books are right.
LEMMA ChargeUsage ==
    ASSUME TypeInv, TypeInv', LockInv, UsageInv, NEW p \in Procs, apply_usage_delta(p)
    PROVE  UsageInv'
  <1>0. /\ pc \in [Procs -> Labels] /\ todo \in [Procs -> Seq(Instance)]
        /\ charge \in [Procs -> Charge \cup {None}] /\ skewed \in [Procs -> SUBSET Users]
        /\ userQuota \in [Users -> UserQuota \cup {None}]
        /\ quota \in [max : Nat, perUser : Nat, used : Nat]
        /\ seenCap \in [Procs -> Nat \cup {None}]
        /\ quotaLock \in Procs \cup {None} /\ None \notin Procs
        /\ QuotaHeld /\ pc[p] = "quota"
    BY BookTyping DEF TypeInv, TypeOK, apply_usage_delta
  <1> DEFINE d == Delta(p)
             u == Charged(p)
             base == IF quotaLock = p THEN charge[p]
                     ELSE [used |-> quota.used, users |-> userQuota]
             cap == seenCap[p]
             new == [used |-> Floor(base.used + d), users |-> ChargeUser(base.users, u, cap, d)]
             next == IF req[p].op = "delete" /\ (IF Deleting(p) THEN Tail(todo[p]) ELSE <<>>) # <<>>
                     THEN "drow" ELSE "commit"
             other == IF Overwriting(p) /\ rows[obj[p]].owner # u
                      THEN {u, rows[obj[p]].owner} ELSE {}
             lost == IF d # 0 /\ Untracked(base.users, u, cap) THEN {u} ELSE {}
  <1>1. d \in Int /\ u \in Users
    BY <1>0, DeltaType
  <1>2. /\ \/ d = 0 /\ UNCHANGED <<quotaLock, charge>>
           \/ /\ d # 0 /\ cap \in Nat /\ quotaLock \in {None, p} /\ quotaLock' = p
              /\ charge' = [charge EXCEPT ![p] = new]
        /\ pc' = [pc EXCEPT ![p] = next]
        /\ skewed' = [skewed EXCEPT ![p] = @ \cup other \cup lost]
        /\ \A q \in Procs \ {p} : todo'[q] = todo[q]
        /\ UNCHANGED <<req, obj, wr, stale>> /\ CommittedSame
    BY <1>0 DEF apply_usage_delta, QuotaFree, db, history, CommittedSame
  <1>3. next \in {"drow", "commit"}
    OBVIOUS
  <1> HIDE DEF next
  <1>4. pc'[p] \in {"drow", "commit"} /\ skewed'[p] = skewed[p] \cup other \cup lost
    BY <1>0, <1>2, <1>3
  <1>5. base \in Charge
    BY <1>0 DEF QuotaHeld, Charge
  <1>6. base.used \in Nat /\ base.users \in [Users -> UserQuota \cup {None}]
    BY <1>5 DEF Charge
  <1>7. /\ base.used = quota.used + Booked(p) /\ Booked(p) \in Int
        /\ \A v \in Users : /\ UsedIn(base.users, v) = UserUsed(v) + BookedFor(p, v)
                            /\ BookedFor(p, v) \in Int
    <2>0. \A v \in Users : UsedIn(base.users, v) \in Nat /\ UserUsed(v) \in Nat
      BY <1>6, UsageTyping DEF UsedIn, UserQuota
    <2>1. CASE quotaLock = p
      BY <1>0, <1>6, <2>0, <2>1 DEF QuotaHeld, Booked, BookedFor
    <2>2. CASE quotaLock # p
      <3>1. charge[p] = None
        BY <2>2 DEF UsageInv, BookInv, ChargeHeld
      <3>2. \A v \in Users : UsedIn(base.users, v) = UserUsed(v)
        BY <2>2 DEF UsedIn, UserUsed
      <3>3. QED
        BY <1>0, <2>0, <2>2, <3>1, <3>2 DEF Booked, BookedFor
    <2>3. QED
      BY <2>1, <2>2
  <1>8. cap \in Nat => new \in Charge /\ new # None
    <2> SUFFICES ASSUME cap \in Nat PROVE new \in Charge /\ new # None
      OBVIOUS
    <2>1. ChargeUser(base.users, u, cap, d) \in [Users -> UserQuota \cup {None}]
      BY <1>1, <1>6, ChargeUserType
    <2>2. Floor(base.used + d) \in Nat
      BY <1>1, <1>6 DEF Floor
    <2>3. QED
      BY <2>1, <2>2, SentinelAssumption DEF Charge
  <1> HIDE DEF base, cap, other, lost
  <1>9. \A W : /\ Added(p, W)' = Added(p, W) /\ Removed(p, W)' = Removed(p, W)
               /\ Added(p, W) \in Nat /\ Removed(p, W) \in Nat
    BY <1>2, UsageTyping DEF Added, Removed, Dirty, CommittedSame
  <1>10. Owed(p)' = 0 /\ Owed(p) = d /\ \A v \in Users : OwedBy(p, v)' = 0
    BY <1>0, <1>4 DEF Owed, OwedBy
  <1>11. CompanyBooks(p)'
    <2> SUFFICES ASSUME ~drift', ~stale'[p]
                 PROVE  Booked(p)' = Added(p, Users) - Removed(p, Users)
      BY <1>9, <1>10, UsageTyping DEF CompanyBooks, Booked, TypeInv, TypeOK, Charge
    <2>1. ~drift /\ ~stale[p]
      BY <1>2 DEF CommittedSame
    <2>2. Booked(p) + d = Added(p, Users) - Removed(p, Users)
      BY <1>10, <2>1 DEF UsageInv, BookInv, CompanyBooks
    <2>3. CASE d = 0
      <3>1. Booked(p)' = Booked(p)
        BY <1>2, <2>3 DEF Booked, CommittedSame
      <3>2. QED
        BY <1>7, <2>2, <2>3, <3>1
    <2>4. CASE d # 0
      <3>1. quota.used = Size(rows, Ids, Users)
        BY <2>1, CommittedSize DEF SizesCommitted, UsageInv, UsageExactUnlessStale
      <3>2. base.used + d \in Nat
        <4>1. quota.used + Added(p, Users) - Removed(p, Users) \in Nat
          BY <3>1, NetNatural
        <4>2. quota.used \in Nat
          BY <1>0
        <4>3. QED
          BY <1>1, <1>7, <1>9, <2>2, <4>1, <4>2
      <3>3. charge'[p] = new /\ charge'[p].used = base.used + d
        BY <1>0, <1>2, <2>4, <3>2 DEF Floor
      <3>4. Booked(p)' = base.used + d - quota.used
        <4> HIDE DEF new
        <4>1. charge'[p] # None /\ quota' = quota
          BY <1>2, <1>8, <2>4, <3>3 DEF CommittedSame
        <4>2. Booked(p)' = charge'[p].used - quota.used
          BY <4>1, Zenon DEF Booked
        <4>3. QED
          BY <1>0, <1>1, <1>6, <3>3, <4>2
      <3>5. QED
        BY <1>0, <1>1, <1>7, <1>9, <2>2, <3>4
    <2>5. QED
      BY <2>3, <2>4
  <1>12. ASSUME NEW v \in Users PROVE UserBooks(p, v)'
    <2> SUFFICES ASSUME v \notin skew', v \notin Misled(p)'
                 PROVE  BookedFor(p, v)' + OwedBy(p, v)' = Added(p, {v})' - Removed(p, {v})'
      BY DEF UserBooks
    <2>1. v \notin skew /\ v \notin Misled(p) /\ v \notin lost
      <3>1. ~Deleting(p) => u = req[p].user
        BY DEF Charged
      <3>2. Overwriting(p) => ~Deleting(p)
        BY DEF Overwriting, Deleting
      <3>3. QED
        BY <1>2, <1>4, <3>1, <3>2 DEF Misled, other, CommittedSame
    <2>2. BookedFor(p, v) + OwedBy(p, v) = Added(p, {v}) - Removed(p, {v})
      BY <2>1 DEF UsageInv, BookInv, UserBooks
    <2>3. OwedBy(p, v) = IF v = u THEN d ELSE 0
      BY <1>0 DEF OwedBy
    <2>4. CASE d = 0
      <3>1. BookedFor(p, v)' = BookedFor(p, v)
        BY <1>2, <2>4 DEF BookedFor, UserUsed, CommittedSame
      <3>2. QED
        BY <1>7, <1>9, <1>10, <2>2, <2>3, <2>4, <3>1
    <2>5. CASE d # 0
      <3>1. charge'[p] = new /\ charge'[p].users = ChargeUser(base.users, u, cap, d)
        BY <1>0, <1>2, <2>5
      <3>2. BookedFor(p, v)' = UsedIn(ChargeUser(base.users, u, cap, d), v) - UserUsed(v)
        BY <1>2, <1>8, <2>5, <3>1 DEF BookedFor, UserUsed, CommittedSame
      <3>3. UserUsed(v) \in Nat
        BY UsageTyping
      <3> HIDE DEF d, u
      <3>4. CASE v # u
        <4>1. UsedIn(ChargeUser(base.users, u, cap, d), v) = UsedIn(base.users, v)
          <5>1. cap \in Nat
            BY <1>2, <2>5
          <5>2. u \in Users /\ d \in Int /\ base.users \in [Users -> UserQuota \cup {None}]
            BY <1>1, <1>6
          <5>3. QED
            BY <3>4, <5>1, <5>2, ChargeUserUsed
        <4>2. QED
          BY <1>7, <1>9, <1>10, <2>2, <2>3, <3>2, <3>3, <3>4, <4>1
      <3>5. CASE v = u
        <4>1. ~Untracked(base.users, u, cap)
          BY <2>1, <2>5, <3>5 DEF lost
        <4>2. UsedIn(ChargeUser(base.users, u, cap, d), u) = Floor(UsedIn(base.users, u) + d)
          <5>1. cap \in Nat
            BY <1>2, <2>5
          <5>2. QED
            BY <1>1, <1>6, <4>1, <5>1, ChargeUserUsed
        <4>3. UserUsed(v) = Size(rows, Ids, {v})
          BY <2>1, CommittedSize DEF SizesCommitted, UsageInv, UserUsageExactUnlessSkewed
        <4>4. UserUsed(v) + Added(p, {v}) - Removed(p, {v}) \in Nat
          BY <4>3, NetNatural
        <4>5. UsedIn(base.users, u) + d \in Nat
          BY <1>1, <1>7, <1>9, <2>2, <2>3, <3>3, <3>5, <4>4
        <4>6. UsedIn(ChargeUser(base.users, u, cap, d), u) = UsedIn(base.users, u) + d
          BY <4>2, <4>5 DEF Floor
        <4>7. QED
          BY <1>1, <1>7, <1>9, <1>10, <2>2, <2>3, <3>2, <3>3, <3>5, <4>6
      <3>6. QED
        BY <3>4, <3>5
    <2>6. QED
      BY <2>4, <2>5
  <1>13. charge'[p] # None => quotaLock' = p /\ pc'[p] \in {"drow", "dblob", "quota", "commit"}
    BY <1>2, <1>4 DEF UsageInv, BookInv, ChargeHeld
  <1>14. OthersSame(p)
    <2> HIDE DEF new
    <2>1. QED
      BY <1>0, <1>2 DEF OthersSame
  <1>15. \A q \in Procs \ {p} : quotaLock = q => quotaLock' = q
    BY <1>0, <1>2
  <1>16. QED
    BY <1>2, <1>11, <1>12, <1>13, <1>14, <1>15, UsageFrame


\* A commit publishes the rows and the counters of its transaction together.
LEMMA CommitUsage ==
    ASSUME TypeInv, TypeInv', LockInv, UsageInv, NEW p \in Procs, Commit(p)
    PROVE  UsageInv'
  <1>0. /\ pc \in [Procs -> Labels] /\ obj \in [Procs -> Ids \cup {None}]
        /\ req \in [Procs -> Request \cup {None}] /\ todo \in [Procs -> Seq(Instance)]
        /\ wr \in [Procs -> [Ids -> StorageObject \cup {None, Same}]]
        /\ charge \in [Procs -> Charge \cup {None}]
        /\ stale \in [Procs -> BOOLEAN] /\ skewed \in [Procs -> SUBSET Users]
        /\ quota \in [max : Nat, perUser : Nat, used : Nat]
        /\ None \notin Procs /\ pc[p] = "commit"
    BY BookTyping DEF TypeInv, TypeOK, Commit
  <1>1. /\ EndTransaction(p)
        /\ rows' = [i \in Ids |-> IF wr[p][i] = Same THEN rows[i] ELSE wr[p][i]]
        /\ IF charge[p] = None THEN UNCHANGED <<quota, userQuota>>
           ELSE quota' = [quota EXCEPT !.used = charge[p].used] /\ userQuota' = charge[p].users
        /\ drift' = (drift \/ stale[p]) /\ skew' = skew \cup skewed[p]
        /\ \/ EndRequest(p)
           \/ pc' = [pc EXCEPT ![p] = "drow"] /\ UNCHANGED <<req, obj, todo>>
    BY DEF Commit
  <1>2. /\ pc'[p] \in {"idle", "drow"}
        /\ \A q \in Procs \ {p} : /\ pc'[q] = pc[q] /\ req'[q] = req[q] /\ obj'[q] = obj[q]
                                  /\ todo'[q] = todo[q]
    BY <1>0, <1>1 DEF EndRequest
  <1>3. /\ charge'[p] = None /\ \A i \in Ids : wr'[p][i] = Same
        /\ \A q \in Procs \ {p} : /\ wr'[q] = wr[q] /\ charge'[q] = charge[q]
                                  /\ stale'[q] = stale[q] /\ skewed'[q] = skewed[q]
    BY <1>0, <1>1 DEF EndTransaction, NoWrites
  <1>4. BookInv'
    <2>1. OthersSame(p)
      BY <1>2, <1>3 DEF OthersSame
    <2>2. \A q \in Procs \ {p}, i \in Ids : Owns(q, i) \/ wr[q][i] # Same => rows'[i] = rows[i]
      BY CommitApart
    <2>3. \A q \in Procs \ {p} : quotaLock = q => quotaLock' = q
      BY <1>1 DEF EndTransaction, ReleaseLocks
    <2>4. \A q \in Procs \ {p} : charge[q] # None =>
              quota'.used = quota.used /\ userQuota' = userQuota
      BY <1>1 DEF UsageInv, BookInv, ChargeHeld
    <2>5. (drift => drift') /\ skew \subseteq skew'
      BY <1>1
    <2>6. CompanyBooks(p)' /\ \A u \in Users : UserBooks(p, u)'
      BY <1>2, <1>3, EmptyBooks
    <2>7. QED
      BY <1>3, <2>1, <2>2, <2>3, <2>4, <2>5, <2>6, BookFrame DEF UsageInv
  <1>5. ASSUME NEW W
        PROVE  /\ Size(rows', Ids, W) = Size(rows, Ids, W) + (Added(p, W) - Removed(p, W))
               /\ Size(rows, Ids, W) \in Nat /\ Added(p, W) \in Nat /\ Removed(p, W) \in Nat
    BY <1>1, NetSize, UsageTyping
  <1>6. charge[p] # None => /\ charge[p].used \in Nat
                            /\ charge[p].users \in [Users -> UserQuota \cup {None}]
    <2>1. charge[p] # None => charge[p] \in Charge
      BY <1>0
    <2>2. QED
      BY <2>1 DEF Charge
  <1>7. quota'.used = quota.used + Booked(p)
    BY <1>0, <1>1, <1>6 DEF Booked
  <1>8. ASSUME NEW u \in Users PROVE UserUsed(u)' = UserUsed(u) + BookedFor(p, u)
    <2>1. UserUsed(u) \in Nat
      BY UsageTyping
    <2>2. CASE charge[p] = None
      BY <1>1, <2>1, <2>2 DEF BookedFor, UserUsed
    <2>3. CASE charge[p] # None
      <3>1. UserUsed(u)' = UsedIn(charge[p].users, u)
        BY <1>1, <2>3 DEF UserUsed, UsedIn
      <3>2. UsedIn(charge[p].users, u) \in Nat
        BY <1>6, <2>3 DEF UsedIn, UserQuota
      <3>3. QED
        BY <2>1, <2>3, <3>1, <3>2 DEF BookedFor
    <2>4. QED
      BY <2>2, <2>3
  <1>9. UsageExactUnlessStale'
    <2> SUFFICES ASSUME ~drift' PROVE quota'.used = Cardinality(BytesOf(Live))'
      BY DEF UsageExactUnlessStale
    <2>1. ~drift /\ ~stale[p]
      BY <1>1
    <2>2. quota.used = Size(rows, Ids, Users)
      BY <2>1, CommittedSize DEF SizesCommitted, UsageInv, UsageExactUnlessStale
    <2>3. Booked(p) + 0 = Added(p, Users) - Removed(p, Users)
      BY <1>0, <2>1 DEF UsageInv, BookInv, CompanyBooks, Owed
    <2>4. Booked(p) \in Int
      BY <1>0, <1>6 DEF Booked
    <2>5. quota'.used = Size(rows', Ids, Users)
      BY <1>5, <1>7, <2>2, <2>3, <2>4
    <2>6. QED
      BY <2>5, CommittedSizeNext DEF SizesCommitted
  <1>10. UserUsageExactUnlessSkewed'
    <2> SUFFICES ASSUME NEW u \in Users, u \notin skew'
                 PROVE  UserUsed(u)' = Cardinality(BytesOf({i \in Live : rows[i].owner = u}))'
      BY DEF UserUsageExactUnlessSkewed
    <2>1. u \notin skew /\ u \notin Misled(p)
      BY <1>0, <1>1 DEF Misled
    <2>2. UserUsed(u) = Size(rows, Ids, {u})
      BY <2>1, CommittedSize DEF SizesCommitted, UsageInv, UserUsageExactUnlessSkewed
    <2>3. BookedFor(p, u) + 0 = Added(p, {u}) - Removed(p, {u})
      BY <1>0, <2>1 DEF UsageInv, BookInv, UserBooks, OwedBy
    <2>4. BookedFor(p, u) \in Int
      <3>1. charge[p] # None => UsedIn(charge[p].users, u) \in Nat
        BY <1>6 DEF UsedIn, UserQuota
      <3>2. UserUsed(u) \in Nat
        BY UsageTyping
      <3>3. QED
        BY <3>1, <3>2 DEF BookedFor
    <2>5. UserUsed(u)' = Size(rows', Ids, {u})
      BY <1>5, <1>8, <2>2, <2>3, <2>4
    <2>6. QED
      BY <2>5, CommittedSizeNext DEF SizesCommitted
  <1>11. QED
    BY <1>4, <1>9, <1>10 DEF UsageInv

\* While the quota row is unlocked no transaction holds a copy of the counters.
LEMMA QuotaPutUsage ==
    ASSUME TypeInv, TypeInv', LockInv, UsageInv, NEW p \in Procs, SaveQuota(p)
    PROVE  UsageInv'
  <1>0. /\ pc \in [Procs -> Labels] /\ obj \in [Procs -> Ids \cup {None}]
        /\ req \in [Procs -> Request \cup {None}] /\ todo \in [Procs -> Seq(Instance)]
        /\ None \notin Procs /\ Shape(p) /\ pc[p] = "save"
    BY BookTyping, Typing DEF SaveQuota
  <1>1. /\ EndRequest(p) /\ quotaLock = None /\ quota'.used = req[p].seen
        /\ drift' = (drift \/ req[p].seen # quota.used)
        /\ UNCHANGED <<rows, userQuota, quotaLock, skew, wr, charge, stale, skewed>>
    BY DEF SaveQuota, locks, tx
  <1>2. \A q \in Procs : charge[q] = None
    BY <1>0, <1>1 DEF UsageInv, BookInv, ChargeHeld
  <1>3. /\ pc'[p] = "idle"
        /\ \A q \in Procs \ {p} : /\ pc'[q] = pc[q] /\ req'[q] = req[q] /\ obj'[q] = obj[q]
                                  /\ todo'[q] = todo[q]
    BY <1>0, <1>1 DEF EndRequest
  <1>4. OthersSame(p)
    BY <1>1, <1>3 DEF OthersSame
  <1>5. \A i \in Ids : wr[p][i] = Same
    <2>1. ~(Written(p) \/ Deleting(p))
      BY <1>0, OpOf DEF Written, Deleting, Shape, UploadShape, CopyShape, MoveShape, DeleteShape,
                        AdminShape
    <2>2. QED
      BY <2>1, NothingWritten
  <1>6. CompanyBooks(p)' /\ \A u \in Users : UserBooks(p, u)'
    BY <1>1, <1>2, <1>3, <1>5, EmptyBooks
  <1>7. BookInv'
    BY <1>1, <1>2, <1>4, <1>6, BookFrame DEF UsageInv
  <1>8. UsageExactUnlessStale'
    BY <1>1 DEF UsageInv, UsageExactUnlessStale, BytesOf, Live
  <1>9. UserUsageExactUnlessSkewed'
    BY <1>1 DEF UsageInv, UserUsageExactUnlessSkewed, BytesOf, Live, UserUsed
  <1>10. QED
    BY <1>7, <1>8, <1>9 DEF UsageInv

\* An administrator's cap for a user leaves the user's count as it is.
LEMMA UserQuotaPutUsage ==
    ASSUME TypeInv, TypeInv', LockInv, UsageInv, PutUserQuota
    PROVE  UsageInv'
  <1>0. None \notin Procs /\ userQuota \in [Users -> UserQuota \cup {None}]
    BY ObjectStoreAssumption DEF TypeInv, TypeOK
  <1>1. /\ quotaLock = None
        /\ UNCHANGED <<rows, quota, quotaLock, pc, req, obj, todo, wr, charge, stale, skewed, drift,
                       skew>>
    BY DEF PutUserQuota, locks, locals, tx, history
  <1>2. \A q \in Procs : charge[q] = None
    BY <1>0, <1>1 DEF UsageInv, BookInv, ChargeHeld
  <1>3. ASSUME NEW v \in Users PROVE UserUsed(v)' = UserUsed(v)
    <2>1. PICK u \in Users, m \in UserCaps :
              userQuota' = [userQuota EXCEPT ![u] = [max |-> m, used |-> UserUsed(u)]]
      BY DEF PutUserQuota
    <2>2. CASE v # u
      BY <1>0, <2>1, <2>2 DEF UserUsed
    <2>3. CASE v = u
      <3>1. userQuota'[u] = [max |-> m, used |-> UserUsed(u)]
        BY <1>0, <2>1
      <3>2. [max |-> m, used |-> UserUsed(u)] \in UserQuota
        BY <1>0, ObjectStoreAssumption DEF UserUsed, UserQuota
      <3>3. userQuota'[u] # None
        BY <3>1, <3>2, SentinelAssumption
      <3>4. QED
        BY <2>3, <3>1, <3>3 DEF UserUsed
    <2>4. QED
      BY <2>2, <2>3
  <1>4. ASSUME NEW q \in Procs PROVE CompanyBooks(q)' /\ \A u \in Users : UserBooks(q, u)'
    <2>1. /\ Added(q, Users)' = Added(q, Users) /\ Removed(q, Users)' = Removed(q, Users)
          /\ \A u \in Users : Added(q, {u})' = Added(q, {u}) /\ Removed(q, {u})' = Removed(q, {u})
      BY <1>1 DEF Added, Removed, Dirty
    <2>2. /\ Delta(q)' = Delta(q) /\ Charged(q)' = Charged(q)
          /\ Overwriting(q)' <=> Overwriting(q)
      BY <1>1 DEF Delta, Charged, Overwriting, Deleting
    <2>3. /\ Owed(q)' = Owed(q) /\ Misled(q)' = Misled(q)
          /\ \A u \in Users : OwedBy(q, u)' = OwedBy(q, u)
      BY <1>1, <2>2 DEF Owed, OwedBy, Misled
    <2>4. /\ Booked(q)' = Booked(q) /\ \A u \in Users : BookedFor(q, u)' = BookedFor(q, u)
      BY <1>1, <1>2 DEF Booked, BookedFor
    <2>5. QED
      BY <1>1, <2>1, <2>3, <2>4 DEF UsageInv, BookInv, CompanyBooks, UserBooks
  <1>5. ChargeHeld'
    BY <1>1 DEF UsageInv, BookInv, ChargeHeld
  <1>6. UsageExactUnlessStale' /\ UserUsageExactUnlessSkewed'
    BY <1>1, <1>3 DEF UsageInv, UsageExactUnlessStale, UserUsageExactUnlessSkewed, BytesOf, Live
  <1>7. QED
    BY <1>4, <1>5, <1>6 DEF UsageInv, BookInv

LEMMA NextUsage == TypeInv /\ TypeInv' /\ LockInv /\ UsageInv /\ [Next]_vars => UsageInv'
  <1> SUFFICES ASSUME TypeInv, TypeInv', LockInv, UsageInv, [Next]_vars PROVE UsageInv'
    OBVIOUS
  <1>1. CASE UNCHANGED vars
    BY <1>1, IdleUsage DEF vars, db, locks, locals, tx, history
  <1>2. CASE PutUserQuota
    BY <1>2, UserQuotaPutUsage
  <1>3. ASSUME NEW p \in Procs, Start(p) \/ Step(p) \/ Fault(p) \/ DeadlockVictim(p)
        PROVE  UsageInv'
    <2>1. CASE Fault(p) \/ DeadlockVictim(p)
      BY <2>1, RollbackUsage DEF Fault, DeadlockVictim
    <2>2. CASE ReadCompanyQuota(p)
      BY <2>2, IdleUsage DEF ReadCompanyQuota, db, locks, locals, history
    <2>3. CASE Start(p) \/ (Step(p) /\ ~ReadCompanyQuota(p))
      BY <2>3, EarlyUsage, WriteRowUsage, DeleteRowUsage, DeleteBlobUsage, ChargeUsage,
         QuotaPutUsage, CommitUsage DEF Step
    <2>4. QED
      BY <1>3, <2>1, <2>2, <2>3
  <1>4. QED
    BY <1>1, <1>2, <1>3 DEF Next

\* The company's used_bytes is what its objects hold at every instant, for any
\* number of requests, users, paths and objects and any sizes, unless a delete
\* or an administrator's save used a value that was stale by then
\* (apply_usage_delta inside upload_object, copy_object and delete_object).
THEOREM CompanyCounted == Spec => []UsageExactUnlessStale
  <1>1. Init => TypeInv /\ LockInv /\ UsageInv
    BY InitType, InitLocks, InitUsage
  <1>2. TypeInv /\ LockInv /\ UsageInv /\ [Next]_vars => TypeInv' /\ LockInv' /\ UsageInv'
    BY NextType, NextLocks, NextUsage
  <1>3. UsageInv => UsageExactUnlessStale
    BY DEF UsageInv
  <1>4. QED
    BY <1>1, <1>2, <1>3, PTL DEF Spec

\* A user's used_bytes is what that user's objects hold, unless another user's
\* overwrite, a stale delete or a charge that had read no default cap before it
\* waited for the company's row left it apart (the user's part of
\* apply_usage_delta).
THEOREM UsersCounted == Spec => []UserUsageExactUnlessSkewed
  <1>1. Init => TypeInv /\ LockInv /\ UsageInv
    BY InitType, InitLocks, InitUsage
  <1>2. TypeInv /\ LockInv /\ UsageInv /\ [Next]_vars => TypeInv' /\ LockInv' /\ UsageInv'
    BY NextType, NextLocks, NextUsage
  <1>3. UsageInv => UserUsageExactUnlessSkewed
    BY DEF UsageInv
  <1>4. QED
    BY <1>1, <1>2, <1>3, PTL DEF Spec

(***************************************************************************)
(* How far an unlocked check lets the company counter pass its cap         *)
(***************************************************************************)

\* The request has passed its check and has not committed yet.
Passed(p) ==
    pc[p] \in {"open", "blob", "row", "quota", "commit"} /\ req[p].op \in {"upload", "copy"}

\* The bytes p may still add to the counter.
Claim(p) == IF Passed(p) /\ Delta(p) > 0 THEN Delta(p) ELSE 0

\* The same bytes of all requests, as pairs of a request and a position up to m.
Claims(m) == {c \in Procs \X (1..m) : Passed(c[1]) /\ c[2] <= Delta(c[1])}

\* A working copy of the counter is no further on than its request's claim.
ChargeClaimed(p) ==
    charge[p] # None =>
        /\ charge[p].used <= quota.used + Claim(p)
        /\ Passed(p) => pc[p] = "commit"

\* No administrator is at work, and every charge is covered by a claim.
ClaimInv == \A p \in Procs : pc[p] # "save" /\ ChargeClaimed(p)

\* Claims count as used: a check adds one, and finds room for its own.
CapInv(m) ==
    \/ quota.max = 0
    \/ quota.used + Cardinality(Claims(m)) <= quota.max + (Cardinality(Procs) - 1) * m

LEMMA ClaimsFinite ==
    ASSUME NEW m \in Nat, NEW C \in SUBSET (Procs \X (1..m))
    PROVE  IsFiniteSet(C) /\ Cardinality(C) \in Nat
  <1>1. 1 \in Int /\ m \in Int
    OBVIOUS
  <1>2. IsFiniteSet(1..m)
    BY ONLY <1>1, FS_Interval, Zenon
  <1>3. IsFiniteSet(Procs \X (1..m))
    BY <1>2, FiniteAssumption, FS_Product, Zenon
  <1>4. IsFiniteSet(C)
    BY <1>3, FS_Subset
  <1>5. QED
    BY <1>4, FS_CardinalityType

\* The others claim m bytes each at the most.
LEMMA ClaimsMost ==
    ASSUME NEW m \in Nat, NEW n \in Nat, NEW p \in Procs, NEW C \in SUBSET (Procs \X (1..m)),
           \A c \in C : c[1] = p => c[2] <= n
    PROVE  Cardinality(C) <= n + (Cardinality(Procs) - 1) * m
  <1> DEFINE A == {p} \X (1..n)
             Q == Procs \ {p}
             B == Q \X (1..m)
  <1>1. IsFiniteSet(A) /\ Cardinality(A) = n
    BY Positions
  <1>2. IsFiniteSet(Q) /\ Cardinality(Q) = Cardinality(Procs) - 1
    BY FiniteAssumption, FS_RemoveElement
  <1>3. IsFiniteSet(1..m) /\ Cardinality(1..m) = m
    <2>1. 1 \in Int /\ m \in Int
      OBVIOUS
    <2>2. IsFiniteSet(1..m) /\ Cardinality(1..m) = IF 1 > m THEN 0 ELSE m - 1 + 1
      BY ONLY <2>1, FS_Interval, Zenon
    <2>3. QED
      BY <2>2
  <1>4. IsFiniteSet(B) /\ Cardinality(B) = (Cardinality(Procs) - 1) * m
    <2> HIDE DEF Q
    <2>1. IsFiniteSet(B) /\ Cardinality(B) = Cardinality(Q) * Cardinality(1..m)
      BY <1>2, <1>3, FS_Product, Zenon
    <2>2. QED
      BY <1>2, <1>3, <2>1, Zenon
  <1>5. C \subseteq A \cup B
    OBVIOUS
  <1> HIDE DEF A, B
  <1>6. /\ IsFiniteSet(A \cup B)
        /\ Cardinality(A \cup B) = Cardinality(A) + Cardinality(B) - Cardinality(A \cap B)
    BY <1>1, <1>4, FS_Union, Zenon
  <1>7. Cardinality(A \cap B) \in Nat
    BY <1>1, FS_Intersection, FS_CardinalityType
  <1>8. Cardinality(C) <= Cardinality(A \cup B)
    BY <1>5, <1>6, FS_Subset
  <1>9. Cardinality(A) \in Nat /\ Cardinality(B) \in Nat /\ Cardinality(C) \in Nat
    BY <1>1, <1>4, ClaimsFinite, FS_CardinalityType
  <1>10. Cardinality(C) <= Cardinality(A) + Cardinality(B)
    BY <1>6, <1>7, <1>8, <1>9
  <1>11. QED
    BY <1>1, <1>4, <1>10, Zenon

\* A claim that goes takes its bytes with it.
LEMMA ClaimsDrop ==
    ASSUME NEW m \in Nat, NEW n \in Nat, NEW p \in Procs,
           NEW C \in SUBSET (Procs \X (1..m)), NEW D \in SUBSET (Procs \X (1..m)),
           C \subseteq D, \A c \in C : c[1] # p, \A k \in 1..n : <<p, k>> \in D
    PROVE  Cardinality(C) + n <= Cardinality(D)
  <1> DEFINE A == {p} \X (1..n)
  <1>1. IsFiniteSet(A) /\ Cardinality(A) = n
    BY Positions
  <1>2. IsFiniteSet(C) /\ IsFiniteSet(D) /\ Cardinality(C) \in Nat /\ Cardinality(D) \in Nat
    BY ClaimsFinite
  <1>3. C \cap A = {} /\ C \cup A \subseteq D
    OBVIOUS
  <1> HIDE DEF A
  <1>4. Cardinality(C \cup A) = Cardinality(C) + Cardinality(A) - Cardinality(C \cap A)
    BY <1>1, <1>2, FS_Union, Zenon
  <1>5. Cardinality(C \cap A) = 0
    BY <1>3, FS_EmptySet, Zenon
  <1>6. Cardinality(C \cup A) <= Cardinality(D)
    BY <1>2, <1>3, FS_Subset
  <1>7. QED
    BY <1>1, <1>2, <1>4, <1>5, <1>6

\* What a request claims is no more than the largest content.
LEMMA PassedDelta ==
    ASSUME TypeInv, NEW m \in Nat, \A e \in Contents : SizeOf[e] <= m, NEW p \in Procs,
           Passed(p) \/ (pc[p] = "check")
    PROVE  /\ Delta(p) \in Int /\ Delta(p) <= m /\ ~Deleting(p)
           /\ UploadShape(p) \/ CopyShape(p)
  <1>0. rows \in [Ids -> StorageObject \cup {None}] /\ Shape(p)
    BY Typing
  <1>1. UploadShape(p) \/ CopyShape(p)
    BY <1>0, OpOf DEF Passed, Shape, UploadShape, CopyShape, MoveShape, DeleteShape, AdminShape
  <1>2. /\ ~Deleting(p) /\ req[p].etag \in Contents /\ (pc[p] # "lock" => obj[p] \in Ids)
    BY <1>1, OpOf DEF UploadShape, CopyShape, Deleting
  <1>3. obj[p] \in Ids
    BY <1>2 DEF Passed
  <1>4. Overwriting(p) => rows[obj[p]] \in StorageObject
    BY <1>0, <1>3 DEF Overwriting
  <1>5. Overwriting(p) => rows[obj[p]].etag \in Contents
    BY <1>4 DEF StorageObject
  <1>6. SizeOf[req[p].etag] \in Nat /\ SizeOf[req[p].etag] <= m
    BY <1>2, ObjectStoreAssumption
  <1>7. Overwriting(p) => SizeOf[rows[obj[p]].etag] \in Nat
    BY <1>5, ObjectStoreAssumption
  <1>8. QED
    BY <1>1, <1>2, <1>6, <1>7 DEF Delta

\* A step changes its own request's variables only.
LEMMA StepOthers ==
    ASSUME TypeInv, NEW p \in Procs, Start(p) \/ Step(p) \/ Rollback(p)
    PROVE  OthersSame(p)
  <1>0. /\ pc \in [Procs -> Labels] /\ obj \in [Procs -> Ids \cup {None}]
        /\ req \in [Procs -> Request \cup {None}] /\ todo \in [Procs -> Seq(Instance)]
        /\ wr \in [Procs -> [Ids -> StorageObject \cup {None, Same}]]
        /\ charge \in [Procs -> Charge \cup {None}]
        /\ stale \in [Procs -> BOOLEAN] /\ skewed \in [Procs -> SUBSET Users]
    BY BookTyping
  <1>1. EndTransaction(p) =>
            \A q \in Procs \ {p} : /\ wr'[q] = wr[q] /\ charge'[q] = charge[q]
                                   /\ stale'[q] = stale[q] /\ skewed'[q] = skewed[q]
    BY <1>0 DEF EndTransaction
  <1>2. EndRequest(p) => \A q \in Procs \ {p} : /\ pc'[q] = pc[q] /\ req'[q] = req[q]
                                                /\ obj'[q] = obj[q] /\ todo'[q] = todo[q]
    BY <1>0 DEF EndRequest
  <1>3. CASE Rollback(p)
    BY <1>1, <1>2, <1>3 DEF Rollback, OthersSame
  <1>4. CASE Start(p)
    BY <1>0, <1>4 DEF Start, StartUpload, StartCopy, StartMove, StartDelete, StartQuotaPut, Begin,
                      tx, OthersSame
  <1>5. CASE LockUpload(p) \/ LockMove(p) \/ CheckQuota(p) \/ OpenSource(p)
    BY <1>0, <1>2, <1>5 DEF LockUpload, LockMove, CheckQuota, OpenSource, Goto, Refuse, tx,
                            OthersSame
  <1>6. CASE SaveBlob(p)
    BY <1>0, <1>6 DEF SaveBlob, Goto, OthersSame
  <1>7. CASE WriteRow(p) /\ ~Rollback(p)
    BY <1>0, <1>7 DEF WriteRow, Goto, OthersSame
  <1>8. CASE DeleteRow(p)
    BY <1>0, <1>8 DEF DeleteRow, Goto, OthersSame
  <1>9. CASE delete_storage_key(p)
    BY <1>0, <1>9 DEF delete_storage_key, Goto, OthersSame
  <1>10. CASE apply_usage_delta(p)
    BY <1>0, <1>10 DEF apply_usage_delta, OthersSame
  <1>11. CASE SaveQuota(p)
    BY <1>0, <1>2, <1>11 DEF SaveQuota, tx, OthersSame
  <1>12. CASE Commit(p)
    BY <1>0, <1>1, <1>2, <1>12 DEF Commit, OthersSame
  <1>13. CASE ReadCompanyQuota(p)
    BY <1>13 DEF ReadCompanyQuota, locals, OthersSame
  <1>14. QED
    BY <1>3, <1>4, <1>5, <1>6, <1>7, <1>8, <1>9, <1>10, <1>11, <1>12, <1>13 DEF Step

\* A claim stays what it is while its request owns the row.
LEMMA PassedFrame ==
    ASSUME TypeInv, NEW q \in Procs, Passed(q), req'[q] = req[q], obj'[q] = obj[q],
           req[q].op = "upload" => rows'[obj[q]] = rows[obj[q]]
    PROVE  Delta(q)' = Delta(q)
  <1>1. ~Deleting(q) /\ ~Deleting(q)'
    BY DEF Passed, Deleting
  <1>2. Overwriting(q)' <=> Overwriting(q)
    BY DEF Overwriting
  <1>3. Overwriting(q) => rows'[obj[q]] = rows[obj[q]]
    BY DEF Overwriting
  <1>4. QED
    BY <1>1, <1>2, <1>3 DEF Delta

LEMMA PassedOwns ==
    ASSUME TypeInv, NEW q \in Procs, Passed(q), req[q].op = "upload"
    PROVE  obj[q] \in Ids /\ Owns(q, obj[q])
  <1>0. Shape(q)
    BY Typing
  <1>1. UploadShape(q)
    BY <1>0, OpOf DEF Passed, Shape, UploadShape, CopyShape, MoveShape, DeleteShape, AdminShape
  <1>2. QED
    BY <1>1 DEF Passed, UploadShape, Owns

\* The claims and charges of the other requests stay as they are.
LEMMA OthersClaim ==
    ASSUME TypeInv, LockInv, BookInv, ClaimInv, NEW p \in Procs, OthersSame(p),
           \A q \in Procs \ {p}, i \in Ids : Owns(q, i) => rows'[i] = rows[i],
           \A q \in Procs \ {p} : charge[q] # None => quota'.used = quota.used
    PROVE  \A q \in Procs \ {p} :
              /\ Passed(q)' <=> Passed(q)
              /\ Passed(q) => Delta(q)' = Delta(q)
              /\ pc'[q] # "save" /\ ChargeClaimed(q)'
  <1> SUFFICES ASSUME NEW q \in Procs \ {p}
               PROVE  /\ Passed(q)' <=> Passed(q)
                      /\ Passed(q) => Delta(q)' = Delta(q)
                      /\ pc'[q] # "save" /\ ChargeClaimed(q)'
    OBVIOUS
  <1>1. /\ pc'[q] = pc[q] /\ req'[q] = req[q] /\ obj'[q] = obj[q] /\ charge'[q] = charge[q]
    BY DEF OthersSame
  <1>2. Passed(q)' <=> Passed(q)
    BY <1>1 DEF Passed
  <1>3. Passed(q) => Delta(q)' = Delta(q)
    BY <1>1, PassedOwns, PassedFrame
  <1>4. Claim(q)' = Claim(q)
    BY <1>2, <1>3 DEF Claim
  <1>5. ChargeClaimed(q)'
    BY <1>1, <1>2, <1>4 DEF ClaimInv, ChargeClaimed
  <1>6. QED
    BY <1>1, <1>2, <1>3, <1>5 DEF ClaimInv

\* A step that leaves the rows and the counters alone and claims nothing more.
LEMMA QuietClaims ==
    ASSUME TypeInv, LockInv, BookInv, ClaimInv, NEW m \in Nat, CapInv(m), NEW p \in Procs,
           OthersSame(p), UNCHANGED <<rows, quota>>,
           Passed(p)' => Passed(p) /\ Delta(p)' = Delta(p),
           pc'[p] # "save", ChargeClaimed(p)'
    PROVE  ClaimInv' /\ CapInv(m)'
  <1>1. \A q \in Procs \ {p} : /\ Passed(q)' <=> Passed(q)
                               /\ Passed(q) => Delta(q)' = Delta(q)
                               /\ pc'[q] # "save" /\ ChargeClaimed(q)'
    BY OthersClaim
  <1>2. Claims(m)' \subseteq Claims(m)
    BY <1>1 DEF Claims
  <1>3. IsFiniteSet(Claims(m)) /\ Cardinality(Claims(m)) \in Nat
    BY ClaimsFinite DEF Claims
  <1>4. Cardinality(Claims(m)') <= Cardinality(Claims(m)) /\ Cardinality(Claims(m)') \in Nat
    BY <1>2, <1>3, FS_Subset, FS_CardinalityType
  <1>5. quota.used \in Nat /\ quota.max \in Nat
    BY DEF TypeInv, TypeOK
  <1>6. Cardinality(Procs) \in Nat
    BY FiniteAssumption, FS_CardinalityType
  <1>7. PICK b \in Int : b = (Cardinality(Procs) - 1) * m
    BY <1>6
  <1>8. CapInv(m)'
    BY <1>4, <1>3, <1>5, <1>7 DEF CapInv
  <1>9. QED
    BY <1>1, <1>8 DEF ClaimInv

\* The steps that neither check, charge nor commit.
LEMMA QuietCap ==
    ASSUME TypeInv, LockInv, BookInv, ClaimInv, NEW m \in Nat, CapInv(m), "admin" \notin Ops,
           NEW p \in Procs,
           \/ Start(p) \/ LockUpload(p) \/ LockMove(p) \/ OpenSource(p) \/ SaveBlob(p)
           \/ WriteRow(p) \/ DeleteRow(p) \/ delete_storage_key(p) \/ Rollback(p)
    PROVE  ClaimInv' /\ CapInv(m)'
  <1>0. /\ pc \in [Procs -> Labels] /\ obj \in [Procs -> Ids \cup {None}]
        /\ req \in [Procs -> Request \cup {None}] /\ charge \in [Procs -> Charge \cup {None}]
        /\ Shape(p)
    BY BookTyping, Typing
  <1>1. OthersSame(p)
    BY StepOthers DEF Step
  <1>2. UNCHANGED <<rows, quota>>
    BY DEF Start, StartUpload, StartCopy, StartMove, StartDelete, StartQuotaPut, Begin, LockUpload,
           LockMove, OpenSource, SaveBlob, WriteRow, DeleteRow, delete_storage_key, Rollback, db
  <1>3. pc[p] \notin {"drow", "dblob", "quota", "commit"} => charge[p] = None
    BY DEF BookInv, ChargeHeld
  <1>4. CASE Rollback(p)
    <2>1. pc'[p] = "idle" /\ charge'[p] = None
      BY <1>0, <1>4 DEF Rollback, EndRequest, EndTransaction
    <2>2. ~Passed(p)' /\ ChargeClaimed(p)'
      BY <2>1 DEF Passed, ChargeClaimed
    <2>3. QED
      BY <1>1, <1>2, <2>1, <2>2, QuietClaims
  <1>5. CASE Start(p)
    <2>1. pc'[p] \in {"lock", "check", "drow"} /\ pc[p] = "idle" /\ UNCHANGED charge
      BY <1>0, <1>5 DEF Start, StartUpload, StartCopy, StartMove, StartDelete, StartQuotaPut, Begin,
                        tx
    <2>2. ~Passed(p)' /\ ChargeClaimed(p)'
      BY <1>3, <2>1 DEF Passed, ChargeClaimed
    <2>3. QED
      BY <1>1, <1>2, <2>1, <2>2, QuietClaims
  <1>6. CASE LockUpload(p) \/ LockMove(p)
    <2>1. pc[p] = "lock" /\ UNCHANGED charge
      BY <1>6 DEF LockUpload, LockMove, tx
    <2>2. pc'[p] \in {"idle", "check"} \/ (pc'[p] = "row" /\ req'[p].op = "move")
      <3>1. CASE Refuse(p)
        BY <1>0, <3>1 DEF Refuse, EndRequest
      <3>2. CASE LockUpload(p) /\ ~Refuse(p)
        BY <1>0, <3>2 DEF LockUpload, Goto
      <3>3. CASE LockMove(p) /\ ~Refuse(p)
        BY <1>0, <3>3 DEF LockMove, Goto
      <3>4. QED
        BY <1>6, <3>1, <3>2, <3>3
    <2>3. ~Passed(p)' /\ ChargeClaimed(p)' /\ pc'[p] # "save"
      BY <1>3, <2>1, <2>2 DEF Passed, ChargeClaimed
    <2>4. QED
      BY <1>1, <1>2, <2>3, QuietClaims
  <1>7. CASE OpenSource(p)
    <2>1. pc[p] = "open" /\ pc'[p] \in {"idle", "blob"} /\ UNCHANGED charge
      BY <1>0, <1>7 DEF OpenSource, Refuse, EndRequest, tx
    <2>2. req[p].op = "copy"
      BY <1>0, <2>1, OpOf DEF Shape, UploadShape, CopyShape, MoveShape, DeleteShape, AdminShape
    <2>3. Passed(p)' => req'[p] = req[p]
      <3>1. CASE Refuse(p)
        BY <1>0, <3>1 DEF Refuse, EndRequest, Passed
      <3>2. CASE ~Refuse(p)
        BY <1>7, <3>2 DEF OpenSource
      <3>3. QED
        BY <3>1, <3>2
    <2>4. Passed(p)' => Passed(p) /\ Delta(p)' = Delta(p)
      BY <2>1, <2>2, <2>3 DEF Passed, Delta, Deleting, Overwriting
    <2>5. ChargeClaimed(p)' /\ pc'[p] # "save"
      BY <1>3, <2>1 DEF ChargeClaimed
    <2>6. QED
      BY <1>1, <1>2, <2>4, <2>5, QuietClaims
  <1>8. CASE SaveBlob(p) \/ (WriteRow(p) /\ ~Rollback(p))
    <2>1. /\ pc[p] \in {"blob", "row"} /\ pc'[p] \in {"row", "quota", "commit"}
          /\ UNCHANGED <<charge, req, obj>>
      BY <1>0, <1>8 DEF SaveBlob, WriteRow, Goto
    <2>2. Passed(p)' => Passed(p)
      BY <2>1 DEF Passed
    <2>3. Passed(p)' => Delta(p)' = Delta(p)
      BY <1>2, <2>1, <2>2, PassedFrame
    <2>4. ChargeClaimed(p)' /\ pc'[p] # "save"
      BY <1>3, <2>1 DEF ChargeClaimed
    <2>5. QED
      BY <1>1, <1>2, <2>2, <2>3, <2>4, QuietClaims
  <1>9. CASE DeleteRow(p) \/ delete_storage_key(p)
    <2>1. pc[p] \in {"drow", "dblob"} /\ pc'[p] \in {"dblob", "quota"} /\ UNCHANGED <<charge, req>>
      BY <1>0, <1>9 DEF DeleteRow, delete_storage_key, Goto
    <2>2. req[p].op \in {"delete", "dav_delete"}
      BY <1>0, <2>1, OpOf DEF Shape, UploadShape, CopyShape, MoveShape, DeleteShape, AdminShape
    <2>3. ~Passed(p) /\ ~Passed(p)'
      BY <2>1, <2>2 DEF Passed
    <2>4. ChargeClaimed(p)' /\ pc'[p] # "save"
      BY <1>2, <2>1, <2>3 DEF ClaimInv, ChargeClaimed, Claim
    <2>5. QED
      BY <1>1, <1>2, <2>3, <2>4, QuietClaims
  <1>10. QED
    BY <1>4, <1>5, <1>6, <1>7, <1>8, <1>9

\* A check that passes finds room for the request's claim; the others then have
\* m bytes each at the most.
LEMMA CheckCap ==
    ASSUME TypeInv, LockInv, BookInv, ClaimInv, NEW m \in Nat, CapInv(m),
           \A e \in Contents : SizeOf[e] <= m, NEW p \in Procs, CheckQuota(p)
    PROVE  ClaimInv' /\ CapInv(m)'
  <1>0. pc \in [Procs -> Labels] /\ pc[p] = "check"
    BY BookTyping DEF CheckQuota
  <1>1. OthersSame(p) /\ UNCHANGED <<rows, quota, charge>>
    BY StepOthers DEF Step, CheckQuota, db, tx
  <1>2. charge'[p] = None /\ ChargeClaimed(p)'
    BY <1>0, <1>1 DEF BookInv, ChargeHeld, ChargeClaimed
  <1>3. CASE Refuse(p)
    <2>1. pc'[p] = "idle"
      BY <1>0, <1>3 DEF Refuse, EndRequest
    <2>2. ~Passed(p)'
      BY <2>1 DEF Passed
    <2>3. QED
      BY <1>1, <1>2, <2>1, <2>2, QuietClaims
  <1>4. CASE ~Refuse(p)
    <2>1. /\ assert_can_store(req[p].user, Delta(p)) /\ pc'[p] \in {"open", "blob"}
          /\ UNCHANGED <<req, obj>>
      BY <1>0, <1>4 DEF CheckQuota, Goto
    <2>2. Delta(p) \in Int /\ ~Deleting(p)
      BY <1>0, PassedDelta
    <2>3. Delta(p)' = Delta(p)
      BY <1>1, <2>1, <2>2 DEF Delta, Deleting, Overwriting
    <2>4. \A q \in Procs \ {p} : /\ Passed(q)' <=> Passed(q)
                                 /\ Passed(q) => Delta(q)' = Delta(q)
                                 /\ pc'[q] # "save" /\ ChargeClaimed(q)'
      BY <1>1, OthersClaim
    <2>5. ClaimInv'
      BY <1>2, <2>1, <2>4 DEF ClaimInv
    <2>6. quota.used \in Nat /\ quota.max \in Nat
      BY DEF TypeInv, TypeOK
    <2>7. PICK b \in Int : b = (Cardinality(Procs) - 1) * m
      <3>1. Cardinality(Procs) \in Nat
        BY FiniteAssumption, FS_CardinalityType
      <3>2. QED
        BY <3>1
    <2>8. PICK C \in SUBSET (Procs \X (1..m)) : C = Claims(m)'
      BY DEF Claims
    <2>9. Cardinality(C) \in Nat
      BY ClaimsFinite
    <2>10. CASE Delta(p) <= 0
      <3>1. Claims(m)' \subseteq Claims(m)
        BY <2>2, <2>3, <2>4, <2>10 DEF Claims
      <3>2. IsFiniteSet(Claims(m)) /\ Cardinality(Claims(m)) \in Nat
        BY ClaimsFinite DEF Claims
      <3>3. Cardinality(C) <= Cardinality(Claims(m))
        BY <2>8, <3>1, <3>2, FS_Subset
      <3>4. CapInv(m)'
        BY <1>1, <2>6, <2>7, <2>8, <2>9, <3>2, <3>3 DEF CapInv
      <3>5. QED
        BY <2>5, <3>4
    <2>11. CASE Delta(p) > 0
      <3>1. quota.max = 0 \/ quota.used + Delta(p) <= quota.max
        BY <2>1, <2>2, <2>11 DEF assert_can_store
      <3>2. \A c \in C : c[1] = p => c[2] <= Delta(p)
        BY <2>3, <2>8 DEF Claims
      <3>3. Cardinality(C) <= Delta(p) + b
        BY <2>2, <2>7, <2>11, <3>2, ClaimsMost
      <3>4. CapInv(m)'
        BY <1>1, <2>2, <2>6, <2>7, <2>8, <2>9, <3>1, <3>3 DEF CapInv
      <3>5. QED
        BY <2>5, <3>4
    <2>12. QED
      BY <2>2, <2>10, <2>11
  <1>5. QED
    BY <1>3, <1>4

\* A charge leaves the copy of the counter no further on than the claim.
LEMMA ChargeCap ==
    ASSUME TypeInv, LockInv, BookInv, ClaimInv, NEW m \in Nat, CapInv(m),
           NEW p \in Procs, apply_usage_delta(p)
    PROVE  ClaimInv' /\ CapInv(m)'
  <1>0. /\ pc \in [Procs -> Labels] /\ charge \in [Procs -> Charge \cup {None}]
        /\ quota.used \in Nat /\ pc[p] = "quota" /\ QuotaHeld
    BY BookTyping DEF TypeInv, TypeOK, apply_usage_delta
  <1>1. OthersSame(p) /\ UNCHANGED <<rows, quota, req, obj>>
    BY StepOthers DEF Step, apply_usage_delta, db
  <1>2. Delta(p) \in Int
    BY <1>0, DeltaType
  <1>3. pc'[p] \in {"drow", "commit"} /\ (pc'[p] = "drow" => req[p].op = "delete")
    BY <1>0 DEF apply_usage_delta
  <1>4. Passed(p)' => Passed(p) /\ pc'[p] = "commit"
    BY <1>0, <1>1, <1>3 DEF Passed
  <1>5. Passed(p)' => Delta(p)' = Delta(p)
    BY <1>1, <1>4, PassedFrame
  <1>6. Passed(p) => Passed(p)'
    BY <1>0, <1>1, <1>3 DEF Passed
  <1>7. Claim(p)' = Claim(p) /\ Claim(p) \in Nat
    BY <1>2, <1>4, <1>5, <1>6 DEF Claim
  <1>8. Delta(p) > 0 => Passed(p)
    <2>1. Deleting(p) => Delta(p) <= 0
      <3>1. Deleting(p) => DeleteShape(p) /\ todo[p] \in Seq(Instance)
        BY <1>0, BookTyping, DeltaType
      <3>2. Deleting(p) => Head(todo[p]) \in Instance
        BY <1>0, <3>1 DEF DeleteShape
      <3>3. Deleting(p) => SizeOf[Head(todo[p]).etag] \in Nat
        BY <3>2, ObjectStoreAssumption DEF Instance
      <3>4. QED
        BY <3>3 DEF Delta
    <2>2. ~Deleting(p) => req[p].op \in {"upload", "copy"}
      BY <1>0, DeltaType, OpOf DEF UploadShape, CopyShape
    <2>3. QED
      BY <1>0, <1>2, <2>1, <2>2 DEF Passed
  <1>9. charge'[p] # None => charge'[p].used <= quota.used + Claim(p)
    <2>1. CASE Delta(p) = 0
      BY <1>0, <2>1 DEF apply_usage_delta, ClaimInv, ChargeClaimed
    <2>2. CASE Delta(p) # 0
      <3>1. PICK base \in Nat : /\ charge'[p].used = Floor(base + Delta(p))
                                /\ base = IF quotaLock = p THEN charge[p].used ELSE quota.used
        <4>1. quotaLock = p => charge[p].used \in Nat
          BY <1>0 DEF QuotaHeld, Charge
        <4>2. QED
          BY <1>0, <2>2, <4>1 DEF apply_usage_delta
      <3>2. base <= quota.used + Claim(p) /\ (Passed(p) => base = quota.used)
        BY <1>0, <1>7, <3>1 DEF ClaimInv, ChargeClaimed, QuotaHeld
      <3>3. Passed(p) /\ Delta(p) > 0 => Claim(p) = Delta(p)
        BY DEF Claim
      <3>4. ~Passed(p) => Claim(p) = 0
        BY DEF Claim
      <3>5. QED
        BY <1>0, <1>2, <1>7, <1>8, <3>1, <3>2, <3>3, <3>4 DEF Floor
    <2>3. QED
      BY <2>1, <2>2
  <1>10. ChargeClaimed(p)'
    BY <1>1, <1>4, <1>7, <1>9 DEF ChargeClaimed
  <1>11. QED
    BY <1>1, <1>3, <1>4, <1>5, <1>10, QuietClaims

\* A commit turns the request's claim into used bytes.
LEMMA CommitCap ==
    ASSUME TypeInv, LockInv, BookInv, ClaimInv, NEW m \in Nat, CapInv(m),
           \A e \in Contents : SizeOf[e] <= m, NEW p \in Procs, Commit(p)
    PROVE  ClaimInv' /\ CapInv(m)'
  <1>0. /\ pc \in [Procs -> Labels] /\ charge \in [Procs -> Charge \cup {None}]
        /\ quota \in [max : Nat, perUser : Nat, used : Nat] /\ pc[p] = "commit" /\ Shape(p)
    BY BookTyping, Typing DEF TypeInv, TypeOK, Commit
  <1>1. OthersSame(p)
    BY StepOthers DEF Step
  <1>2. charge'[p] = None
    BY <1>0 DEF Commit, EndTransaction
  <1>3. /\ pc'[p] \in {"idle", "drow"}
        /\ quota'.max = quota.max
        /\ quota'.used = IF charge[p] = None THEN quota.used ELSE charge[p].used
    BY <1>0 DEF Commit, EndRequest
  <1>4. ~Passed(p)' /\ ChargeClaimed(p)' /\ pc'[p] # "save"
    BY <1>2, <1>3 DEF Passed, ChargeClaimed
  <1>5. \A q \in Procs \ {p} : /\ Passed(q)' <=> Passed(q)
                               /\ Passed(q) => Delta(q)' = Delta(q)
                               /\ pc'[q] # "save" /\ ChargeClaimed(q)'
    <2>1. \A q \in Procs \ {p}, i \in Ids : Owns(q, i) => rows'[i] = rows[i]
      BY CommitApart
    <2>2. \A q \in Procs \ {p} : charge[q] # None => quota'.used = quota.used
      BY <1>3 DEF BookInv, ChargeHeld
    <2>3. QED
      BY <1>1, <2>1, <2>2, OthersClaim
  <1>6. ClaimInv'
    BY <1>4, <1>5 DEF ClaimInv
  <1>7. Passed(p) => Delta(p) \in Int /\ Delta(p) <= m
    BY PassedDelta
  <1>8. Claim(p) \in Nat /\ Claim(p) <= m
    BY <1>7 DEF Claim
  <1>9. quota'.used \in Nat /\ quota'.used <= quota.used + Claim(p)
    <2>1. charge[p] # None => charge[p].used \in Nat
      BY <1>0 DEF Charge
    <2>2. QED
      BY <1>0, <1>3, <1>8, <2>1 DEF ClaimInv, ChargeClaimed
  <1>10. PICK C \in SUBSET (Procs \X (1..m)) : C = Claims(m)'
    BY DEF Claims
  <1>11. Cardinality(C) + Claim(p) <= Cardinality(Claims(m))
    <2>1. Claims(m) \in SUBSET (Procs \X (1..m)) /\ C \subseteq Claims(m)
      BY <1>4, <1>5, <1>10 DEF Claims
    <2>2. \A c \in C : c[1] # p
      BY <1>4, <1>10 DEF Claims
    <2>3. \A k \in 1..Claim(p) : <<p, k>> \in Claims(m)
      BY <1>7, <1>8 DEF Claim, Claims
    <2>4. QED
      BY <1>8, <2>1, <2>2, <2>3, ClaimsDrop
  <1>12. Cardinality(C) \in Nat /\ Cardinality(Claims(m)) \in Nat
    BY ClaimsFinite DEF Claims
  <1>13. PICK b \in Int : b = (Cardinality(Procs) - 1) * m
    <2>1. Cardinality(Procs) \in Nat
      BY FiniteAssumption, FS_CardinalityType
    <2>2. QED
      BY <2>1
  <1>14. CapInv(m)'
    BY <1>0, <1>3, <1>8, <1>9, <1>10, <1>11, <1>12, <1>13 DEF CapInv
  <1>15. QED
    BY <1>6, <1>14

LEMMA InitCap == ASSUME Init, NEW m \in Nat, Procs # {} PROVE ClaimInv /\ CapInv(m)
  <1>1. \A p \in Procs : pc[p] = "idle" /\ charge[p] = None /\ ~Passed(p)
    BY DEF Init, Passed
  <1>2. ClaimInv
    BY <1>1 DEF ClaimInv, ChargeClaimed
  <1>3. Cardinality(Claims(m)) = 0
    <2>1. Claims(m) = {}
      BY <1>1 DEF Claims
    <2>2. QED
      BY <2>1, FS_EmptySet
  <1>4. Cardinality(Procs) - 1 \in Nat
    BY FiniteAssumption, FS_CardinalityType, FS_EmptySet
  <1>5. (Cardinality(Procs) - 1) * m \in Nat
    BY <1>4
  <1>6. quota.used = 0 /\ quota.max \in Nat
    BY ObjectStoreAssumption DEF Init
  <1>7. CapInv(m)
    <2>1. PICK b \in Nat : b = (Cardinality(Procs) - 1) * m
      BY <1>5
    <2>2. QED
      BY <1>3, <1>6, <2>1 DEF CapInv
  <1>8. QED
    BY <1>2, <1>7

LEMMA NextCap ==
    ASSUME TypeInv, LockInv, UsageInv, ClaimInv, NEW m \in Nat, CapInv(m),
           \A e \in Contents : SizeOf[e] <= m, "admin" \notin Ops, [Next]_vars
    PROVE  ClaimInv' /\ CapInv(m)'
  <1>0. BookInv
    BY DEF UsageInv
  <1>1. ASSUME UNCHANGED <<rows, quota, pc, req, obj, todo, charge>> PROVE ClaimInv' /\ CapInv(m)'
    <2>1. ASSUME NEW q \in Procs
          PROVE  Delta(q)' = Delta(q) /\ (Passed(q)' <=> Passed(q)) /\ Claim(q)' = Claim(q)
      BY <1>1 DEF Delta, Deleting, Overwriting, Passed, Claim
    <2>2. ClaimInv'
      BY <1>1, <2>1 DEF ClaimInv, ChargeClaimed
    <2>3. Claims(m)' = Claims(m)
      BY <2>1 DEF Claims
    <2>4. QED
      BY <1>1, <2>2, <2>3 DEF CapInv
  <1>2. CASE UNCHANGED vars \/ PutUserQuota
    BY <1>1, <1>2 DEF vars, db, locals, tx, PutUserQuota
  <1>3. ASSUME NEW p \in Procs, Start(p) \/ Step(p) \/ Fault(p) \/ DeadlockVictim(p)
        PROVE  ClaimInv' /\ CapInv(m)'
    <2>1. CASE Fault(p) \/ DeadlockVictim(p)
      BY <1>0, <2>1, QuietCap DEF Fault, DeadlockVictim
    <2>2. ~SaveQuota(p)
      BY DEF SaveQuota, ClaimInv
    <2>3. CASE ReadCompanyQuota(p)
      BY <1>1, <2>3 DEF ReadCompanyQuota, db, locals
    <2>4. CASE Start(p) \/ (Step(p) /\ ~ReadCompanyQuota(p))
      BY <1>0, <2>2, <2>4, QuietCap, CheckCap, ChargeCap, CommitCap DEF Step
    <2>5. QED
      BY <1>3, <2>1, <2>3, <2>4
  <1>4. QED
    BY <1>2, <1>3 DEF Next

\* Checks read the committed counter without a lock, and yet every request that
\* has passed one will find at most one upload of each other request in its
\* way: the company counter passes its cap by no more than that, for any number
\* of requests and any sizes, as long as no administrator changes the cap
\* (assert_can_store, then apply_usage_delta).
THEOREM OvershootLimited ==
    ASSUME "admin" \notin Ops, Procs # {}, NEW largest \in Contents,
           \A e \in Contents : SizeOf[e] <= SizeOf[largest]
    PROVE  Spec => []OvershootBounded
  <1> DEFINE m == SizeOf[largest]
             I == TypeInv /\ LockInv /\ UsageInv /\ ClaimInv /\ CapInv(m)
  <1>0. m \in Nat
    BY ObjectStoreAssumption
  <1>1. Init => I
    <2> HIDE DEF m
    <2>1. QED
      BY <1>0, InitType, InitLocks, InitUsage, InitCap
  <1>2. I /\ [Next]_vars => I'
    <2>1. \A e \in Contents : SizeOf[e] <= m
      OBVIOUS
    <2> HIDE DEF m
    <2>2. QED
      BY <1>0, <2>1, NextType, NextLocks, NextUsage, NextCap
  <1>3. I => OvershootBounded
    <2> SUFFICES ASSUME I, quota.max # 0
                 PROVE  quota.used <= quota.max + (Cardinality(Procs) - 1) * m
      BY DEF OvershootBounded
    <2> HIDE DEF m
    <2>1. Cardinality(Claims(m)) \in Nat
      BY <1>0, ClaimsFinite DEF Claims
    <2>2. PICK b \in Int : b = (Cardinality(Procs) - 1) * m
      <3>1. Cardinality(Procs) \in Nat
        BY FiniteAssumption, FS_CardinalityType
      <3>2. QED
        BY <1>0, <3>1
    <2>3. quota.used \in Nat /\ quota.max \in Nat
      BY DEF TypeInv, TypeOK
    <2>4. QED
      BY <2>1, <2>2, <2>3 DEF CapInv
  <1>4. QED
    BY <1>1, <1>2, <1>3, PTL DEF Spec

=============================================================================
