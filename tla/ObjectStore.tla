----------------------------- MODULE ObjectStore -----------------------------
(***************************************************************************)
(* Objects of one company bucket: the StorageObject rows, the blobs behind *)
(* them, the company and per-user byte counters, and the requests that     *)
(* change them (apps/storage/services.py, quotas.py, backends.py).         *)
(*                                                                         *)
(* A request is a database transaction on PostgreSQL at READ COMMITTED:    *)
(* its row writes stay in wr[p] and are visible to no one until Commit,    *)
(* its row locks are held until Commit or Rollback.  The blob store is not *)
(* transactional: SaveBlob and DeleteBlob take effect at once, and a       *)
(* rollback does not undo them.                                            *)
(***************************************************************************)
EXTENDS Integers, Sequences, FiniteSets, Relation

CONSTANTS
    Procs,      \* concurrent requests (worker threads)
    Users,      \* identity user ids
    Names,      \* object paths in the bucket
    Ids,        \* object UUIDs; the storage key embeds it, so it names the blob too
    Contents,   \* what can be uploaded; stands for the bytes and for their etag
    SizeOf,     \* length in bytes of each content
    Ops,        \* the operations the requests of this instance perform
    Backend,    \* STORAGE_BACKEND, "s3" or "filesystem"
    InitMax,    \* CompanyQuota.max_bytes at first, 0 for no cap
    InitPerUser,\* CompanyQuota.max_bytes_per_user at first, 0 for none
    Caps,       \* what an administrator sets the company's two caps to
    UserCaps,   \* values an administrator sets a UserQuota's max_bytes to
    MaxPaths,   \* bound: paths in one multi-object delete
    MaxVersion, \* bound: versions of one object
    MaxFaults,  \* bound: rollbacks caused by a failure
    None,       \* no row, no content, no id, no lock holder
    Same        \* the transaction has not written this row

AllOps == {"upload", "copy", "move", "delete", "dav_delete", "admin", "admin_user"}

ASSUME ObjectStoreAssumption ==
    /\ SizeOf \in [Contents -> Nat]
    /\ Ops \subseteq AllOps
    /\ Backend \in {"s3", "filesystem"}
    /\ InitMax \in Nat /\ InitPerUser \in Nat
    /\ Caps \subseteq [max : Nat, perUser : Nat] /\ UserCaps \subseteq Nat
    /\ MaxPaths \in Nat /\ MaxVersion \in Nat /\ MaxFaults \in Nat
    /\ None \notin Procs \cup Users \cup Names \cup Ids \cup Contents \cup Nat

VARIABLES
    rows,       \* committed StorageObject rows, by id
    blobs,      \* what the blob store holds under each object's storage key
    strays,     \* contents the blob store holds under names no row knows
    quota,      \* the committed CompanyQuota row
    userQuota,  \* the committed UserQuota rows
    rowLock,    \* holder of each row's lock
    quotaLock,  \* holder of the CompanyQuota row's lock
    pc,         \* the next step of each request
    req,        \* the arguments of each request
    obj,        \* the object id each request works on
    data,       \* the bytes a copy has read
    todo,       \* the instances a delete still has to work on
    wr,         \* the rows each transaction has written, not yet committed
    seenCap,    \* the default cap per user each charge has read of CompanyQuota
    charge,     \* the counters each transaction has written, not yet committed
    fresh,      \* UUIDs not yet drawn
    faults,     \* rollbacks caused by a failure so far
    touched,    \* history: blobs each transaction has changed
    stale,      \* history: the transaction deletes with an outdated size
    skewed,     \* history: users the transaction charges for another's object
    writes,     \* history: committed overwrites of each object
    torn,       \* history: objects whose row and blob were left apart
    drift,      \* history: the company counter was charged with a stale value
    skew        \* history: users whose counter was charged for another's object

db == <<rows, quota, userQuota>>
store == <<blobs, strays>>
locks == <<rowLock, quotaLock>>
locals == <<pc, req, obj, data, todo>>
tx == <<wr, seenCap, charge, touched, stale, skewed>>
history == <<writes, torn, drift, skew>>
vars == <<db, store, locks, locals, tx, fresh, faults, history>>

(***************************************************************************)
(* Types                                                                   *)
(***************************************************************************)

StorageObject == [name : Names, etag : Contents, owner : Users, version : Nat]

UserQuota == [max : Nat, used : Nat]

\* What a delete holds of an object it read before: the Python instance.
Instance == [id : Ids, etag : Contents, owner : Users]

Labels == {"idle", "lock", "check", "open", "blob", "row", "quota", "commit",
           "drow", "dblob", "save"}

UploadRequest ==
    [op : {"upload"}, user : Users, name : Names, etag : Contents, upsert : BOOLEAN]
CopyRequest == [op : {"copy"}, user : Users, name : Names, etag : Contents]
MoveRequest == [op : {"move"}, src : Names, name : Names]
DeleteRequest == [op : {"delete", "dav_delete"}]
AdminRequest == [op : {"admin"}, seen : Nat, cap : [max : Nat, perUser : Nat]]

Request ==
    UploadRequest \cup CopyRequest \cup MoveRequest \cup DeleteRequest \cup AdminRequest

\* What a client sees of the object that has a path.
Visible == [etag : Contents, owner : Users, version : Nat]

\* The company counter and the UserQuota rows a transaction will leave.
Charge == [used : Nat, users : [Users -> UserQuota \cup {None}]]

ASSUME SentinelAssumption ==
    /\ None # Same
    /\ StorageObject \cap {None, Same} = {}
    /\ None \notin Request \cup Charge \cup UserQuota \cup Visible

\* Worker threads are finitely many, and so are the UUIDs of 128 bits.
ASSUME FiniteAssumption == IsFiniteSet(Procs) /\ IsFiniteSet(Ids)

NoWrites == [i \in Ids |-> Same]

\* A bucket with no object yet, and the quota row its first use creates.
Init ==
    /\ rows = [i \in Ids |-> None]
    /\ blobs = [i \in Ids |-> None]
    /\ strays = {}
    /\ quota = [max |-> InitMax, perUser |-> InitPerUser, used |-> 0]
    /\ userQuota = [u \in Users |-> None]
    /\ rowLock = [i \in Ids |-> None]
    /\ quotaLock = None
    /\ pc = [p \in Procs |-> "idle"]
    /\ req = [p \in Procs |-> None]
    /\ obj = [p \in Procs |-> None]
    /\ data = [p \in Procs |-> None]
    /\ todo = [p \in Procs |-> <<>>]
    /\ wr = [p \in Procs |-> NoWrites]
    /\ seenCap = [p \in Procs |-> None]
    /\ charge = [p \in Procs |-> None]
    /\ touched = [p \in Procs |-> {}]
    /\ stale = [p \in Procs |-> FALSE]
    /\ skewed = [p \in Procs |-> {}]
    /\ fresh = Ids
    /\ faults = 0
    /\ writes = [i \in Ids |-> 0]
    /\ torn = {}
    /\ drift = FALSE
    /\ skew = {}

(***************************************************************************)
(* Reading the committed state                                             *)
(***************************************************************************)

\* The committed row of a path: filter(bucket=bucket, name=name).first().
At(n) == {i \in Ids : rows[i] # None /\ rows[i].name = n}

Lookup(n) == IF At(n) = {} THEN None ELSE CHOOSE i \in At(n) : TRUE

InstanceOf(i) == [id |-> i, etag |-> rows[i].etag, owner |-> rows[i].owner]

\* resolve_user_limit: the row's own cap, else the company default; 0 is no cap.
resolve_user_limit(u) ==
    IF userQuota[u] # None THEN userQuota[u].max ELSE quota.perUser

UserUsed(u) == IF userQuota[u] # None THEN userQuota[u].used ELSE 0

\* Mutation: the check leaves out the new bytes.
CheckWithoutSize(u, delta) ==
    \/ delta <= 0
    \/ /\ quota.max = 0 \/ quota.used <= quota.max
       /\ resolve_user_limit(u) = 0 \/ UserUsed(u) <= resolve_user_limit(u)

\* assert_can_store reads the committed counters and takes no lock on them.
assert_can_store(u, delta) ==
    \/ delta <= 0
    \/ /\ quota.max = 0 \/ quota.used + delta <= quota.max
       /\ resolve_user_limit(u) = 0 \/ UserUsed(u) + delta <= resolve_user_limit(u)

\* A delete charges the instance it holds; an upload the row it has locked.
Deleting(p) == req[p].op \in {"delete", "dav_delete"}

Overwriting(p) == req[p].op = "upload" /\ rows[obj[p]] # None

\* Mutation: an overwrite does not take off the replaced size.
FullSizeDelta(p) ==
    IF Deleting(p) THEN 0 - SizeOf[Head(todo[p]).etag] ELSE SizeOf[req[p].etag]

\* What the request adds to the counters: an overwrite the difference.
Delta(p) ==
    IF Deleting(p) THEN 0 - SizeOf[Head(todo[p]).etag]
    ELSE IF Overwriting(p) THEN SizeOf[req[p].etag] - SizeOf[rows[obj[p]].etag]
    ELSE SizeOf[req[p].etag]

Charged(p) == IF Deleting(p) THEN Head(todo[p]).owner ELSE req[p].user

\* Mutation: no Greatest(..., 0).
NoFloor(n) == n

\* The counters never go below zero.
Floor(n) == IF n < 0 THEN 0 ELSE n

\* No row, and no company default in the CompanyQuota instance the charge has
\* read: apply_usage_delta leaves the user uncounted.
Untracked(uq, u, cap) == uq[u] = None /\ cap = 0

\* Mutation: the row a first charge creates starts at 0.
FirstChargeLost(uq, u, cap, d) ==
    IF Untracked(uq, u, cap) THEN uq
    ELSE [uq EXCEPT ![u] = IF @ = None THEN [max |-> cap, used |-> 0]
                           ELSE [max |-> @.max, used |-> Floor(@.used + d)]]

\* The UserQuota rows after a charge: a row appears once a cap applies.
ChargeUser(uq, u, cap, d) ==
    IF Untracked(uq, u, cap) THEN uq
    ELSE [uq EXCEPT ![u] =
            IF @ = None THEN [max |-> cap, used |-> Floor(d)]
                        ELSE [max |-> @.max, used |-> Floor(@.used + d)]]

(***************************************************************************)
(* Locks, unique constraint and deadlock of the database                   *)
(***************************************************************************)

Dirty(q) == {i \in Ids : wr[q][i] # Same}

\* Mutation: no unique constraint on (bucket, name).
NoWriters(p, n) == {}

\* An INSERT or UPDATE that gives a row the path n waits for every transaction
\* that has written a row which holds, or is about to hold, that path.
WritersOf(p, n) ==
    {q \in Procs \ {p} :
        \E i \in Dirty(q) : i \in At(n) \/ (wr[q][i] # None /\ wr[q][i].name = n)}

\* Mutation: an upload reads the row without select_for_update.
NoRowLocks(i) ==
    rowLock[i] \in {None} \cup {q \in Procs : req[q] \in UploadRequest}

\* select_for_update is granted once no transaction holds the row.
Unlocked(i) == rowLock[i] = None

\* Mutation: used_bytes is read, added to and saved without a lock.
NoQuotaWait(p) == TRUE

\* The UPDATE of the company's counter waits for any other charging transaction.
QuotaFree(p) == quotaLock \in {None, p}

\* p cannot go on before q ends its transaction.
Waits(p, q) ==
    /\ p # q
    /\ \/ pc[p] = "lock" /\ obj[p] # None /\ rowLock[obj[p]] = q
       \/ pc[p] = "row" /\ ~Overwriting(p) /\ q \in WritersOf(p, req[p].name)
       \/ pc[p] = "drow" /\ rowLock[Head(todo[p]).id] = q
       \/ pc[p] = "quota" /\ Delta(p) # 0 /\ seenCap[p] # None /\ quotaLock = q
       \/ pc[p] = "save" /\ quotaLock = q

\* p waits for a transaction that, through others or not, waits for p.
InDeadlock(p) ==
    /\ \E q \in Procs : Waits(p, q)
    /\ TransitiveClosure([x, y \in Procs |-> Waits(x, y)], Procs)[p, p]

(***************************************************************************)
(* Ends of a request                                                       *)
(***************************************************************************)

ReleaseLocks(p) ==
    /\ rowLock' = [i \in Ids |-> IF rowLock[i] = p THEN None ELSE rowLock[i]]
    /\ quotaLock' = IF quotaLock = p THEN None ELSE quotaLock

EndTransaction(p) ==
    /\ wr' = [wr EXCEPT ![p] = NoWrites]
    /\ seenCap' = [seenCap EXCEPT ![p] = None]
    /\ charge' = [charge EXCEPT ![p] = None]
    /\ touched' = [touched EXCEPT ![p] = {}]
    /\ stale' = [stale EXCEPT ![p] = FALSE]
    /\ skewed' = [skewed EXCEPT ![p] = {}]
    /\ ReleaseLocks(p)

EndRequest(p) ==
    /\ pc' = [pc EXCEPT ![p] = "idle"]
    /\ req' = [req EXCEPT ![p] = None]
    /\ obj' = [obj EXCEPT ![p] = None]
    /\ data' = [data EXCEPT ![p] = None]
    /\ todo' = [todo EXCEPT ![p] = <<>>]

\* The transaction leaves no trace in the database; its blob effects stay.
Rollback(p) ==
    /\ EndRequest(p)
    /\ EndTransaction(p)
    /\ torn' = torn \cup touched[p]
    /\ UNCHANGED <<db, store, writes, drift, skew>>

\* The end of the atomic block; a WebDAV folder delete has one per object.
Commit(p) ==
    /\ pc[p] = "commit"
    /\ rows' = [i \in Ids |-> IF wr[p][i] = Same THEN rows[i] ELSE wr[p][i]]
    /\ IF charge[p] = None
       THEN UNCHANGED <<quota, userQuota>>
       ELSE /\ quota' = [quota EXCEPT !.used = charge[p].used]
            /\ userQuota' = charge[p].users
    /\ writes' = IF Overwriting(p) THEN [writes EXCEPT ![obj[p]] = @ + 1] ELSE writes
    /\ torn' = (torn \ touched[p])
                 \cup IF req[p].op = "copy" /\ data[p] # req[p].etag THEN {obj[p]} ELSE {}
    /\ drift' = (drift \/ stale[p])
    /\ skew' = skew \cup skewed[p]
    /\ EndTransaction(p)
    /\ IF todo[p] = <<>>
       THEN EndRequest(p)
       ELSE /\ pc' = [pc EXCEPT ![p] = "drow"]
            /\ UNCHANGED <<req, obj, data, todo>>
    /\ UNCHANGED <<store, fresh, faults>>

\* A failure at any point of a request: the blob store or the database
\* raises, the worker is killed, the client's connection is reset.
Fault(p) ==
    /\ pc[p] # "idle"
    /\ faults < MaxFaults
    /\ faults' = faults + 1
    /\ Rollback(p)
    /\ UNCHANGED fresh

\* The database ends a deadlock by aborting one of the waiting transactions.
DeadlockVictim(p) ==
    /\ InDeadlock(p)
    /\ Rollback(p)
    /\ UNCHANGED <<fresh, faults>>

Goto(p, l) ==
    /\ pc' = [pc EXCEPT ![p] = l]
    /\ UNCHANGED <<req, data, todo>>

\* Mutation: the request is tried again in place of the error response.
RetryRefused(p) ==
    /\ pc' = [pc EXCEPT ![p] = "lock"]
    /\ ReleaseLocks(p)
    /\ UNCHANGED <<req, obj, data, todo>>

\* An error response before anything was written: only the locks go.
Refuse(p) == EndRequest(p) /\ ReleaseLocks(p)

\* A request is received and has done its first reads.
Begin(p, l, r) ==
    /\ r.op \in Ops
    /\ pc[p] = "idle"
    /\ pc' = [pc EXCEPT ![p] = l]
    /\ req' = [req EXCEPT ![p] = r]
    /\ UNCHANGED <<db, store, locks, data, tx, fresh, faults, history>>

(***************************************************************************)
(* upload_object                                                           *)
(***************************************************************************)

\* SELECT ... FOR UPDATE takes its snapshot: the row it will try to lock.
StartUpload(p) ==
    \E u \in Users, n \in Names, c \in Contents, ups \in BOOLEAN :
        /\ Begin(p, "lock", [op |-> "upload", user |-> u, name |-> n, etag |-> c,
                             upsert |-> ups])
        /\ obj' = [obj EXCEPT ![p] = Lookup(n)]
        /\ UNCHANGED todo

\* The lock is granted on the row as it is by then, if it still has the path.
Locked(p, n) ==
    obj[p] # None /\ rows[obj[p]] # None /\ rows[obj[p]].name = n

LockUpload(p) ==
    LET found == Locked(p, req[p].name) IN
    /\ pc[p] = "lock" /\ req[p].op = "upload"
    /\ obj[p] # None => Unlocked(obj[p])
    /\ \/ /\ found /\ req[p].upsert /\ rows[obj[p]].version < MaxVersion
          /\ rowLock' = [rowLock EXCEPT ![obj[p]] = p]
          /\ Goto(p, "check")
          /\ UNCHANGED <<obj, quotaLock, fresh>>
       \/ /\ ~found
          /\ \E i \in fresh : /\ fresh' = fresh \ {i}
                              /\ obj' = [obj EXCEPT ![p] = i]
          /\ Goto(p, "check")
          /\ UNCHANGED locks
       \/ /\ IF found THEN ~req[p].upsert \/ rows[obj[p]].version >= MaxVersion
                      ELSE fresh = {}
          /\ Refuse(p)
          /\ UNCHANGED fresh
    /\ UNCHANGED <<db, store, tx, faults, history>>

CheckQuota(p) ==
    /\ pc[p] = "check"
    /\ IF assert_can_store(req[p].user, Delta(p))
       THEN /\ Goto(p, IF req[p].op = "copy" THEN "open" ELSE "blob")
            /\ UNCHANGED <<obj, locks>>
       ELSE Refuse(p)
    /\ UNCHANGED <<db, store, tx, fresh, faults, history>>

\* default_storage.save: S3 replaces what the key holds.  FileSystemStorage
\* without allow_overwrite keeps it and stores the new bytes under a name of
\* its own choice, which _save_blob does not look at.
SaveBlob(p) ==
    LET i == obj[p]
        bytes == IF req[p].op = "copy" THEN data[p] ELSE req[p].etag
        kept == Backend = "filesystem" /\ blobs[i] # None
    IN
    /\ pc[p] = "blob"
    /\ blobs' = IF kept THEN blobs ELSE [blobs EXCEPT ![i] = bytes]
    /\ strays' = IF kept THEN strays \cup {bytes} ELSE strays
    /\ touched' = [touched EXCEPT ![p] = @ \cup {i}]
    /\ Goto(p, "row")
    /\ UNCHANGED <<db, locks, obj, wr, seenCap, charge, stale, skewed, fresh, faults, history>>

\* Mutation: an overwrite does not count the version on.
VersionKept(p) ==
    LET o == rows[obj[p]] IN
    IF req[p].op = "move"
    THEN [name |-> req[p].name, etag |-> o.etag, owner |-> o.owner, version |-> o.version]
    ELSE [name |-> req[p].name, etag |-> req[p].etag, owner |-> req[p].user, version |-> 1]

\* The row the request writes: an overwrite, a rename or a new object.
NewRow(p) ==
    LET o == rows[obj[p]] IN
    IF req[p].op = "move"
    THEN [name |-> req[p].name, etag |-> o.etag, owner |-> o.owner,
          version |-> o.version]
    ELSE IF Overwriting(p)
    THEN [name |-> o.name, etag |-> req[p].etag, owner |-> req[p].user,
          version |-> o.version + 1]
    ELSE [name |-> req[p].name, etag |-> req[p].etag, owner |-> req[p].user,
          version |-> 1]

WriteRow(p) ==
    /\ pc[p] = "row"
    /\ Overwriting(p) \/ WritersOf(p, req[p].name) = {}
    /\ IF Overwriting(p) \/ At(req[p].name) = {}
       THEN /\ wr' = [wr EXCEPT ![p] = [@ EXCEPT ![obj[p]] = NewRow(p)]]
            /\ rowLock' = [rowLock EXCEPT ![obj[p]] = p]
            /\ Goto(p, IF req[p].op = "move" THEN "commit" ELSE "quota")
            /\ UNCHANGED <<db, store, obj, quotaLock, seenCap, charge, touched, stale, skewed,
                           history>>
       ELSE Rollback(p)
    /\ UNCHANGED <<fresh, faults>>

\* apply_usage_delta first reads the CompanyQuota row, without a lock; the
\* instance keeps the default cap while the UPDATE below waits.
ReadCompanyQuota(p) ==
    /\ pc[p] = "quota" /\ seenCap[p] = None
    /\ Delta(p) # 0
    /\ seenCap' = [seenCap EXCEPT ![p] = quota.perUser]
    /\ UNCHANGED <<db, store, locks, locals, wr, charge, touched, stale, skewed, fresh, faults,
                   history>>

\* UPDATE ... SET used_bytes = used_bytes + delta, then the floor at 0, on the
\* company row and on the user's; the row locks stay until the transaction ends.
apply_usage_delta(p) ==
    LET d == Delta(p)
        u == Charged(p)
        base == IF quotaLock = p THEN charge[p]
                                 ELSE [used |-> quota.used, users |-> userQuota]
        rest == IF Deleting(p) THEN Tail(todo[p]) ELSE <<>>
    IN
    /\ pc[p] = "quota"
    /\ \/ /\ d = 0
          /\ UNCHANGED <<quotaLock, charge>>
       \/ /\ d # 0 /\ seenCap[p] # None
          /\ QuotaFree(p)
          /\ quotaLock' = p
          /\ charge' = [charge EXCEPT ![p] =
                           [used |-> Floor(base.used + d),
                            users |-> ChargeUser(base.users, u, seenCap[p], d)]]
    /\ seenCap' = [seenCap EXCEPT ![p] = None]
    /\ skewed' = [skewed EXCEPT ![p] = @
            \cup (IF Overwriting(p) /\ rows[obj[p]].owner # u
                  THEN {u, rows[obj[p]].owner} ELSE {})
            \cup (IF d # 0 /\ Untracked(base.users, u, seenCap[p]) THEN {u} ELSE {})]
    /\ todo' = [todo EXCEPT ![p] = rest]
    /\ pc' = [pc EXCEPT ![p] =
                IF req[p].op = "delete" /\ rest # <<>> THEN "drow" ELSE "commit"]
    /\ UNCHANGED <<db, store, rowLock, req, obj, data, wr, touched, stale, fresh, faults, history>>

(***************************************************************************)
(* copy_object and move_object                                             *)
(***************************************************************************)

\* The source row is read without a lock; its size and etag are kept.
StartCopy(p) ==
    \E u \in Users, m \in Names, n \in Names :
        /\ At(m) # {} /\ At(n) = {}
        /\ Begin(p, "check", [op |-> "copy", user |-> u, name |-> n,
                              etag |-> rows[Lookup(m)].etag])
        /\ obj' = [obj EXCEPT ![p] = Lookup(m)]
        /\ UNCHANGED todo

\* default_storage.open(src.storage_key).read(), then the copy's own UUID.
OpenSource(p) ==
    /\ pc[p] = "open"
    /\ \/ /\ blobs[obj[p]] # None
          /\ \E i \in fresh : /\ fresh' = fresh \ {i}
                              /\ obj' = [obj EXCEPT ![p] = i]
          /\ data' = [data EXCEPT ![p] = blobs[obj[p]]]
          /\ pc' = [pc EXCEPT ![p] = "blob"]
          /\ UNCHANGED <<locks, req, todo>>
       \/ /\ blobs[obj[p]] = None \/ fresh = {}
          /\ Refuse(p)
          /\ UNCHANGED fresh
    /\ UNCHANGED <<db, store, tx, faults, history>>

StartMove(p) ==
    \E m \in Names, n \in Names :
        /\ At(m) # {}
        /\ Begin(p, "lock", [op |-> "move", src |-> m, name |-> n])
        /\ obj' = [obj EXCEPT ![p] = Lookup(m)]
        /\ UNCHANGED todo

LockMove(p) ==
    /\ pc[p] = "lock" /\ req[p].op = "move"
    /\ Unlocked(obj[p])
    /\ IF Locked(p, req[p].src) /\ At(req[p].name) = {}
       THEN /\ rowLock' = [rowLock EXCEPT ![obj[p]] = p]
            /\ Goto(p, "row")
            /\ UNCHANGED <<obj, quotaLock>>
       ELSE Refuse(p)
    /\ UNCHANGED <<db, store, tx, fresh, faults, history>>

(***************************************************************************)
(* delete_object, delete_paths, delete_under_prefix, empty_bucket, and the *)
(* WebDAV folder delete, which commits after every object                  *)
(***************************************************************************)

PathLists == UNION {[1..k -> Names] : k \in 1..MaxPaths}

\* The rows are read first, without a lock; paths that name none are skipped,
\* so only lists of existing paths are enumerated.
StartDelete(p, op) ==
    \E paths \in PathLists :
        /\ \A k \in DOMAIN paths : At(paths[k]) # {}
        /\ op = "dav_delete" =>
              \A j, k \in DOMAIN paths : paths[j] = paths[k] => j = k
        /\ Begin(p, "drow", [op |-> op])
        /\ todo' = [todo EXCEPT ![p] =
                        [k \in DOMAIN paths |-> InstanceOf(Lookup(paths[k]))]]
        /\ UNCHANGED obj

\* obj.delete(): DELETE WHERE id = ..., which may find no row any more.
DeleteRow(p) ==
    LET inst == Head(todo[p])
        i == inst.id
        present == rows[i] # None /\ wr[p][i] = Same
        removed == IF present THEN SizeOf[rows[i].etag] ELSE 0
    IN
    /\ pc[p] = "drow"
    /\ rowLock[i] \in {None, p}
    /\ IF present
       THEN /\ rowLock' = [rowLock EXCEPT ![i] = p]
            /\ wr' = [wr EXCEPT ![p] = [@ EXCEPT ![i] = None]]
       ELSE UNCHANGED <<rowLock, wr>>
    /\ stale' = [stale EXCEPT ![p] = @ \/ removed # SizeOf[inst.etag]]
    /\ skewed' = [skewed EXCEPT ![p] = @ \cup
            IF present /\ InstanceOf(i) = inst THEN {}
            ELSE IF present THEN {inst.owner, rows[i].owner} ELSE {inst.owner}]
    /\ Goto(p, "dblob")
    /\ UNCHANGED <<db, store, quotaLock, obj, seenCap, charge, touched, fresh, faults, history>>

\* Mutation: the blob outlives its row.
BlobKept(p) ==
    /\ pc[p] = "dblob"
    /\ touched' = [touched EXCEPT ![p] = @ \cup {Head(todo[p]).id}]
    /\ Goto(p, "quota")
    /\ UNCHANGED <<db, store, locks, obj, wr, seenCap, charge, stale, skewed, fresh, faults,
                   history>>

\* The blob goes while the row's deletion is not yet committed.
delete_storage_key(p) ==
    LET i == Head(todo[p]).id IN
    /\ pc[p] = "dblob"
    /\ blobs' = [blobs EXCEPT ![i] = None]
    /\ touched' = [touched EXCEPT ![p] = @ \cup {i}]
    /\ Goto(p, "quota")
    /\ UNCHANGED <<db, strays, locks, obj, wr, seenCap, charge, stale, skewed, fresh, faults,
                   history>>

(***************************************************************************)
(* CompanyQuotaAdminView.put and UserQuotaAdminView.put                    *)
(***************************************************************************)

StartQuotaPut(p) ==
    \E c \in Caps :
        /\ Begin(p, "save", [op |-> "admin", seen |-> quota.used, cap |-> c])
        /\ UNCHANGED <<obj, todo>>

\* quota.save() writes every column, the used_bytes it read included.
SaveQuota(p) ==
    /\ pc[p] = "save"
    /\ quotaLock = None
    /\ quota' = [max |-> req[p].cap.max, perUser |-> req[p].cap.perUser,
                 used |-> req[p].seen]
    /\ drift' = (drift \/ req[p].seen # quota.used)
    /\ EndRequest(p)
    /\ UNCHANGED <<rows, userQuota, store, locks, tx, fresh, faults, writes, torn, skew>>

\* update_or_create locks the user's row and writes max_bytes only.
PutUserQuota ==
    /\ "admin_user" \in Ops
    /\ quotaLock = None
    /\ \E u \in Users, m \in UserCaps :
        userQuota' = [userQuota EXCEPT ![u] = [max |-> m, used |-> UserUsed(u)]]
    /\ UNCHANGED <<rows, quota, store, locks, locals, tx, fresh, faults, history>>

(***************************************************************************)
(* Specification                                                           *)
(***************************************************************************)

Start(p) ==
    \/ StartUpload(p)
    \/ StartCopy(p)
    \/ StartMove(p)
    \/ StartDelete(p, "delete")
    \/ StartDelete(p, "dav_delete")
    \/ StartQuotaPut(p)

Step(p) ==
    \/ LockUpload(p)
    \/ LockMove(p)
    \/ CheckQuota(p)
    \/ OpenSource(p)
    \/ SaveBlob(p)
    \/ WriteRow(p)
    \/ DeleteRow(p)
    \/ delete_storage_key(p)
    \/ ReadCompanyQuota(p)
    \/ apply_usage_delta(p)
    \/ SaveQuota(p)
    \/ Commit(p)

Next ==
    \/ \E p \in Procs : Start(p) \/ Step(p) \/ Fault(p) \/ DeadlockVictim(p)
    \/ PutUserQuota

Spec == Init /\ [][Next]_vars

\* A started request is run to its end by its worker; a lock it waits for is
\* granted in turn (PostgreSQL queues waiters), and a deadlock is broken by
\* deadlock_timeout.  Clients, administrators and failures owe nothing.
Fairness == \A p \in Procs : SF_vars(Step(p)) /\ WF_vars(DeadlockVictim(p))

FairSpec == Spec /\ Fairness

(***************************************************************************)
(* Properties                                                              *)
(***************************************************************************)

\* Types of the database, the blob store and the requests' local variables.
TypeOK ==
    /\ rows \in [Ids -> StorageObject \cup {None}]
    /\ blobs \in [Ids -> Contents \cup {None}]
    /\ strays \subseteq Contents
    /\ quota \in [max : Nat, perUser : Nat, used : Nat]
    /\ userQuota \in [Users -> UserQuota \cup {None}]
    /\ rowLock \in [Ids -> Procs \cup {None}]
    /\ quotaLock \in Procs \cup {None}
    /\ pc \in [Procs -> Labels]
    /\ req \in [Procs -> Request \cup {None}]
    /\ obj \in [Procs -> Ids \cup {None}]
    /\ data \in [Procs -> Contents \cup {None}]
    /\ todo \in [Procs -> Seq(Instance)]
    /\ wr \in [Procs -> [Ids -> StorageObject \cup {None, Same}]]
    /\ seenCap \in [Procs -> Nat \cup {None}]
    /\ charge \in [Procs -> Charge \cup {None}]
    /\ touched \in [Procs -> SUBSET Ids]
    /\ stale \in [Procs -> BOOLEAN]
    /\ skewed \in [Procs -> SUBSET Users]
    /\ fresh \subseteq Ids
    /\ faults \in Nat
    /\ writes \in [Ids -> Nat]
    /\ torn \subseteq Ids
    /\ drift \in BOOLEAN
    /\ skew \subseteq Users

\* Every byte of every committed object, as pairs of an object and a position.
BytesOf(S) == UNION {{i} \X (1..SizeOf[rows[i].etag]) : i \in S}

Live == {i \in Ids : rows[i] # None}

\* used_bytes is the number of bytes the committed objects hold, whatever
\* interleaving, refusal, failure or deadlock the requests met, unless some
\* delete or administrator's save was applied to a value that was stale by then
\* (upload_object, copy_object, delete_object with apply_usage_delta).
UsageExactUnlessStale == drift \/ quota.used = Cardinality(BytesOf(Live))

\* A user's used_bytes is what the user's objects hold, unless an object of
\* the user was overwritten by another one, deleted from a stale instance, or
\* stored while no cap applied, as far as the charge had read before it waited
\* for the company's row (the user's part of apply_usage_delta).
UserUsageExactUnlessSkewed ==
    \A u \in Users \ skew :
        UserUsed(u) = Cardinality(BytesOf({i \in Live : rows[i].owner = u}))

\* No overwrite is lost: an object's version counts the overwrites committed
\* on it (select_for_update and version += 1 in upload_object).
NoLostOverwrite == \A i \in Live : rows[i].version = 1 + writes[i]

\* No two objects have one path, whatever uploads, copies and moves race for it.
OneObjectPerPath == \A i, j \in Live : rows[i].name = rows[j].name => i = j

InFlight == UNION {touched[p] : p \in Procs}

\* An object no request is working on has the blob its etag names, and no blob
\* is left without an object, except where a request was rolled back after it
\* had changed the blob or a copy read a source that was changing.
BlobsMatchRows ==
    \A i \in Ids \ (torn \cup InFlight) :
        blobs[i] = IF rows[i] = None THEN None ELSE rows[i].etag

\* The bucket as clients see it: the committed row of every path.
PathMap ==
    [n \in Names |->
        IF At(n) = {} THEN None
        ELSE LET o == rows[Lookup(n)]
             IN  [etag |-> o.etag, owner |-> o.owner, version |-> o.version]]

Abstract == INSTANCE PathStore WITH store <- PathMap

\* Every request takes effect on the paths at one instant, its Commit, or not
\* at all: uploads, overwrites, deletes, moves and copies implement PathStore.
RefinesPathStore == Abstract!Spec

\* An unlocked check lets the company counter pass its cap by at most one
\* upload of each other request in flight (assert_can_store before the write),
\* even when deletes charge stale sizes.
OvershootBounded ==
    quota.max = 0
    \/ \E c \in Contents : /\ \A e \in Contents : SizeOf[e] <= SizeOf[c]
                           /\ quota.used <= quota.max + (Cardinality(Procs) - 1) * SizeOf[c]

\* Every request ends: it is answered, refused, or rolled back.
RequestsEnd == \A p \in Procs : pc[p] # "idle" ~> pc[p] = "idle"

(***************************************************************************)
(* What the documentation says, and an instance refutes                    *)
(***************************************************************************)

\* docs/quotas.md: deletes take off the size removed, overwrites and uploads
\* add the size added, so the counter is the size of what is stored.
UsageExact == quota.used = Cardinality(BytesOf(Live))

=============================================================================
