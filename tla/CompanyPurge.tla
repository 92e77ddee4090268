---------------------------- MODULE CompanyPurge ----------------------------
(***************************************************************************)
(* Deletion of companies (apps/actions/company_deletion.py and             *)
(* apps/storage/company_deletion.py): identity-service flags a company, a  *)
(* task of every minute deletes its blobs and rows, sweeps again for an    *)
(* hour, and then takes the flag away.                                     *)
(*                                                                         *)
(* Requests with tokens that are still valid upload meanwhile.  The lock   *)
(* of the task expires while a long purge still works, so two runs of it   *)
(* may overlap.  The task has no time limit, and looks at its deadline     *)
(* between two companies only: one purge may outlast the sweep.            *)
(***************************************************************************)
EXTENDS Naturals, FiniteSets, SequencesExt

CONSTANTS
    Companies,
    Objects,      \* StorageObject ids, used again once row and blob are gone
    Home,         \* the company of each object
    Procs,        \* Celery workers that run the task
    Batch,        \* objects that delete_company_files takes at a time
    Window,       \* SWEEP_WINDOW in ticks
    MaxRequests,  \* bound: deletion requests
    MaxUploads,   \* bound: uploads
    MaxFaults,    \* bound: failing purges and deaths of workers
    None

ASSUME CompanyPurgeAssumption ==
    /\ Home \in [Objects -> Companies]
    /\ Batch \in Nat \ {0} /\ Window \in Nat
    /\ MaxRequests \in Nat /\ MaxUploads \in Nat /\ MaxFaults \in Nat
    /\ None \notin Procs \cup Nat /\ "dead" \notin Procs

VARIABLES
    flag,      \* CompanyDeletion: [pk, done], done the age of completed_at or None
    queue,     \* the flagged companies by requested_at
    row,       \* StorageObject rows
    blob,      \* objects whose bytes are in the blob store
    up,        \* the upload in progress for each object
    lock,      \* who has the task lock: a worker, "dead" or None
    pc, todo, batch, slow,        \* of each worker: its next step, rows, objects, time
    age,                          \* ticks since the clock reading of each worker's run
    request,   \* per company, the pk that a request is about to reopen, or None
    beat,      \* the task was started since the last tick
    requests, uploads, faults,    \* how many there were
    waiting,   \* history: companies not purged since they were last asked for
    fresh,     \* history: workers whose purge began after the last request
    touched,   \* history: objects that were written since the worker's purge began
    lost,      \* history: companies whose request was dropped with an old flag
    outrun     \* history: companies that a run had no time for since they were last asked for

rows == <<flag, queue>>
store == <<row, blob, up>>
worker == <<pc, todo, batch, slow, age>>
counts == <<requests, uploads, faults>>
history == <<waiting, fresh, touched, lost, outrun>>
vars == <<rows, store, lock, worker, request, beat, counts, history>>

ObjectsOf(c) == {o \in Objects : Home[o] = c}

Init ==
    /\ flag = [c \in Companies |-> None] /\ queue = <<>>
    /\ row = Objects /\ blob = Objects
    /\ up = [o \in Objects |-> "no"]
    /\ lock = None
    /\ pc = [p \in Procs |-> "idle"]
    /\ todo = [p \in Procs |-> <<>>]
    /\ batch = [p \in Procs |-> {}]
    /\ slow = [p \in Procs |-> FALSE]
    /\ request = [c \in Companies |-> None]
    /\ beat = FALSE
    /\ requests = 0 /\ uploads = 0 /\ faults = 0
    /\ waiting = {} /\ fresh = {} /\ lost = {}
    /\ touched = [p \in Procs |-> {}]
    /\ age = [p \in Procs |-> 0]
    /\ outrun = {}

Goto(p, l) == pc' = [pc EXCEPT ![p] = l]

\* The row that worker p is at, as it read it, and its company.
Entry(p) == Head(todo[p])
Company(p) == Entry(p).company

InHand(p) == {todo[p][k].company : k \in DOMAIN todo[p]}

-----------------------------------------------------------------------------
(***************************************************************************)
(* flag_company_deletion                                                   *)
(***************************************************************************)
\* The request is answered: the company waits for a purge from now on.
Answer(c) ==
    /\ waiting' = waiting \cup {c}
    /\ fresh' = {p \in fresh : Company(p) # c}
    /\ outrun' = outrun \ {d \in {c} : \A p \in Procs : d \in InHand(p) => age[p] = 0}

\* completed_at is set.
Purged(c) == flag[c] # None /\ flag[c].done # None

\* get_or_create; requests after the first get the same row.
FlagCompany(c) ==
    /\ requests < MaxRequests /\ request[c] = None
    /\ requests' = requests + 1
    /\ IF flag[c] = None
       THEN /\ flag' = [flag EXCEPT ![c] = [pk |-> requests', done |-> None]]
            /\ queue' = Append(queue, c)
            /\ lost' = lost \ {c}
       ELSE UNCHANGED <<rows, lost>>
    /\ IF Purged(c)
       THEN request' = [request EXCEPT ![c] = flag[c].pk] /\ UNCHANGED <<waiting, fresh, outrun>>
       ELSE Answer(c) /\ UNCHANGED request
    /\ UNCHANGED <<store, lock, worker, beat, uploads, faults, touched>>

\* "Asked again": completed_at = None, for the row if it is still there.
Reopen(c) ==
    /\ request[c] # None
    /\ LET there == flag[c] # None /\ flag[c].pk = request[c]
       IN  /\ flag' = IF there THEN [flag EXCEPT ![c].done = None] ELSE flag
           /\ lost' = IF there THEN lost ELSE lost \cup {c}
    /\ Answer(c)
    /\ request' = [request EXCEPT ![c] = None]
    /\ UNCHANGED <<queue, store, lock, worker, beat, counts, touched>>

-----------------------------------------------------------------------------
(***************************************************************************)
(* Uploads meanwhile (upload_object)                                       *)
(***************************************************************************)
Deleting(p) == pc[p] \in {"read", "blobs", "objects", "rows"}
Purging(p) == Deleting(p) \/ pc[p] = "complete"

Touch(o) == touched' = [p \in Procs |-> IF Purging(p) THEN touched[p] \cup {o} ELSE {}]

\* An overwrite locks the row; a new object has a new id.
StartUpload(o) ==
    /\ uploads < MaxUploads /\ up[o] = "no"
    /\ uploads' = uploads + 1
    /\ \/ o \in row /\ up' = [up EXCEPT ![o] = "overwrite"]
       \/ o \notin row \cup blob /\ up' = [up EXCEPT ![o] = "create"]
    /\ Touch(o)
    /\ UNCHANGED <<rows, row, blob, lock, worker, request, beat, requests, faults, waiting, fresh,
                   lost, outrun>>

Locked == {o \in Objects : up[o] \in {"overwrite", "overwritten"}}

\* The blob is saved before the row.
SaveBlob(o) ==
    /\ up[o] \in {"overwrite", "create", "doomed"}
    /\ blob' = blob \cup {o}
    /\ up' = [up EXCEPT ![o] = CASE @ = "overwrite" -> "overwritten"
                                 [] @ = "create" -> "created"
                                 [] @ = "doomed" -> "refused"]
    /\ Touch(o)
    /\ UNCHANGED <<rows, row, lock, worker, request, beat, counts, waiting, fresh, lost, outrun>>

\* The row of a new object needs the bucket the request started with.
CommitUpload(o) ==
    /\ up[o] \in {"overwritten", "created", "refused"}
    /\ row' = IF up[o] = "refused" THEN row ELSE row \cup {o}
    /\ up' = [up EXCEPT ![o] = "no"]
    /\ Touch(o)
    /\ UNCHANGED <<rows, blob, lock, worker, request, beat, counts, waiting, fresh, lost, outrun>>

-----------------------------------------------------------------------------
(***************************************************************************)
(* The task: purge_deleted_companies                                       *)
(***************************************************************************)
\* Mutation: the flag goes with the first run after the purge.
NoWindow(done) == done # None

\* Older than the window, at the clock reading of the run.
Expired(done) == done # None /\ done > Window

\* The lock, the clock and the query.
Begin(p) ==
    /\ pc[p] = "idle" /\ lock = None
    /\ lock' = p
    /\ todo' = [todo EXCEPT ![p] = [k \in 1..Len(queue) |->
                    [company |-> queue[k], pk |-> flag[queue[k]].pk, done |-> flag[queue[k]].done]]]
    /\ beat' = TRUE /\ age' = [age EXCEPT ![p] = 0]
    /\ Goto(p, "row")
    /\ UNCHANGED <<rows, store, batch, slow, request, counts, history>>

NextRow(p) ==
    /\ todo' = [todo EXCEPT ![p] = Tail(@)]
    /\ batch' = [batch EXCEPT ![p] = {}]
    /\ fresh' = fresh \ {p}
    /\ touched' = [touched EXCEPT ![p] = {}]
    /\ Goto(p, "row")

Same(e) == flag[e.company] # None /\ flag[e.company].pk = e.pk

\* The deadline of a run passes within its first tick: it looks at no row after it.
InTime(p) == pc[p] = "row" /\ todo[p] # <<>> /\ age[p] = 0

\* row.delete(), by primary key: a request since the query goes with the row.
Release(p) ==
    LET e == Entry(p)
    IN  /\ InTime(p) /\ Expired(e.done)
        /\ IF Same(e)
           THEN /\ flag' = [flag EXCEPT ![e.company] = None]
                /\ queue' = SelectSeq(queue, LAMBDA c : c # e.company)
                /\ lost' = IF Expired(flag[e.company].done) THEN lost ELSE lost \cup {e.company}
           ELSE UNCHANGED <<rows, lost>>
        /\ NextRow(p)
        /\ UNCHANGED <<store, lock, slow, age, request, beat, counts, waiting, outrun>>

\* What is uploaded during this or another purge at work, or is a blob without
\* a row, may stay.
StartPurge(p) ==
    /\ InTime(p) /\ ~Expired(Entry(p).done)
    /\ fresh' = fresh \cup {p}
    /\ touched' = [touched EXCEPT ![p] = {o \in Objects :
                      up[o] # "no" \/ o \in blob \ row \/ \E q \in Procs : o \in touched[q]}]
    /\ Goto(p, "read")
    /\ UNCHANGED <<rows, store, lock, todo, batch, slow, age, request, beat, counts, waiting, lost,
                   outrun>>

\* delete_company_files: the keys of the next batch, in any order.
ReadBatch(p) ==
    LET left == row \cap ObjectsOf(Company(p))
        Taken(s) == Cardinality(s) = Batch \/ (s = left /\ Cardinality(s) < Batch)
    IN  /\ pc[p] = "read"
        /\ IF left = {} THEN Goto(p, "rows") /\ UNCHANGED <<batch, slow>>
           ELSE /\ \E b \in SUBSET left : Taken(b) /\ batch' = [batch EXCEPT ![p] = b]
                /\ slow' = [slow EXCEPT ![p] = TRUE]
                /\ Goto(p, "blobs")
        /\ UNCHANGED <<rows, store, lock, todo, age, request, beat, counts, history>>

DeleteBlobs(p) ==
    /\ pc[p] = "blobs"
    /\ blob' = blob \ batch[p]
    /\ Goto(p, "objects")
    /\ UNCHANGED <<rows, row, up, lock, todo, batch, slow, age, request, beat, counts, history>>

\* Mutation: one batch is all.
OneBatch(p) ==
    /\ pc[p] = "objects"
    /\ batch[p] \cap Locked = {}
    /\ row' = row \ batch[p]
    /\ batch' = [batch EXCEPT ![p] = {}]
    /\ Goto(p, "rows")
    /\ UNCHANGED <<rows, blob, up, lock, todo, slow, age, request, beat, counts, history>>

\* The rows of the batch, once no upload has locked them.
DeleteObjects(p) ==
    /\ pc[p] = "objects"
    /\ batch[p] \cap Locked = {}
    /\ row' = row \ batch[p]
    /\ batch' = [batch EXCEPT ![p] = {}]
    /\ Goto(p, "read")
    /\ UNCHANGED <<rows, blob, up, lock, todo, slow, age, request, beat, counts, history>>

\* delete_company_rows, with the buckets: an upload that has not written its
\* row yet has lost its bucket.
DeleteRows(p) ==
    LET os == ObjectsOf(Company(p))
    IN  /\ pc[p] = "rows"
        /\ os \cap Locked = {}
        /\ row' = row \ os
        /\ up' = [o \in Objects |-> IF o \notin os THEN up[o]
                                    ELSE CASE up[o] = "create" -> "doomed"
                                           [] up[o] = "created" -> "refused"
                                           [] OTHER -> up[o]]
        /\ waiting' = IF p \in fresh THEN waiting \ {Company(p)} ELSE waiting
        /\ Goto(p, "complete")
        /\ UNCHANGED <<rows, blob, lock, todo, batch, slow, age, request, beat, counts, fresh,
                       touched, lost, outrun>>

\* completed_at is the clock reading of the run, if the row was open when it was read.
Complete(p) ==
    LET e == Entry(p)
    IN  /\ pc[p] = "complete"
        /\ flag' = IF e.done = None /\ Same(e) THEN [flag EXCEPT ![e.company].done = age[p]] ELSE flag
        /\ NextRow(p)
        /\ UNCHANGED <<queue, store, lock, slow, age, request, beat, counts, waiting, lost, outrun>>

Stop(p) ==
    /\ Goto(p, "idle")
    /\ todo' = [todo EXCEPT ![p] = <<>>]
    /\ batch' = [batch EXCEPT ![p] = {}]
    /\ slow' = [slow EXCEPT ![p] = FALSE]
    /\ age' = [age EXCEPT ![p] = 0]
    /\ fresh' = fresh \ {p}
    /\ touched' = [touched EXCEPT ![p] = {}]

\* No row is left, or the deadline has passed: a purge that found something to
\* delete, or failed, may take that long.  The lock goes if it is still held.
Finish(p) ==
    /\ pc[p] = "row" /\ (todo[p] = <<>> \/ slow[p] \/ age[p] > 0)
    /\ lock' = IF lock = p THEN None ELSE lock
    /\ outrun' = outrun \cup InHand(p)
    /\ Stop(p)
    /\ UNCHANGED <<rows, store, request, beat, counts, waiting, lost>>

Fault == faults < MaxFaults /\ faults' = faults + 1

\* purge_company raises: the next run tries again.
PurgeFails(p) ==
    /\ Deleting(p)
    /\ Fault
    /\ slow' = [slow EXCEPT ![p] = TRUE]
    /\ NextRow(p)
    /\ UNCHANGED <<rows, store, lock, age, request, beat, requests, uploads, waiting, lost,
                   outrun>>

\* The worker dies and leaves the lock.
Crash(p) ==
    /\ pc[p] # "idle"
    /\ Fault
    /\ lock' = IF lock = p THEN "dead" ELSE lock
    /\ Stop(p)
    /\ UNCHANGED <<rows, store, request, beat, requests, uploads, waiting, lost, outrun>>

\* The lock of a dead worker or of a long purge expires.
Expire ==
    /\ lock = "dead" \/ \E p \in Procs : lock = p /\ Deleting(p)
    /\ lock' = None
    /\ UNCHANGED <<rows, store, worker, request, beat, counts, history>>

Busy(p) == pc[p] # "idle"

\* Bound: beyond the window all ages are alike.
Older(n) == IF n > Window THEN n ELSE n + 1

\* A tick is half an hour, which a purge may take and no other step does.  Beat starts
\* the task every minute unless all workers are busy, and the lock expires after two.
Tick ==
    /\ beat \/ \A p \in Procs : Busy(p)
    /\ \A p \in Procs : Busy(p) => Deleting(p)
    /\ lock # "dead" /\ \A p \in Procs : lock = p => age[p] = 0
    /\ beat' = FALSE
    /\ age' = [p \in Procs |-> IF Busy(p) THEN Older(age[p]) ELSE 0]
    /\ flag' = [c \in Companies |-> IF Purged(c) THEN [flag[c] EXCEPT !.done = Older(@)]
                                    ELSE flag[c]]
    /\ outrun' = IF \A p \in Procs : Busy(p) THEN Companies
                 ELSE outrun \cup UNION {InHand(p) : p \in Procs}
    /\ UNCHANGED <<queue, store, lock, pc, todo, batch, slow, request, counts, waiting, fresh,
                   touched, lost>>

-----------------------------------------------------------------------------
Step(p) ==
    \/ Release(p) \/ StartPurge(p) \/ ReadBatch(p) \/ DeleteBlobs(p) \/ DeleteObjects(p)
    \/ DeleteRows(p) \/ Complete(p) \/ Finish(p)

UploadStep(o) == SaveBlob(o) \/ CommitUpload(o)

Next ==
    \/ \E c \in Companies : FlagCompany(c) \/ Reopen(c)
    \/ \E o \in Objects : StartUpload(o) \/ UploadStep(o)
    \/ \E p \in Procs : Begin(p) \/ Step(p) \/ PurgeFails(p) \/ Crash(p)
    \/ Expire \/ Tick

Spec == Init /\ [][Next]_vars

-----------------------------------------------------------------------------
(***************************************************************************)
(* Properties                                                              *)
(***************************************************************************)
\* Types; a company is in the queue exactly while it has a flag.
TypeOK ==
    /\ \A c \in Companies :
        IF flag[c] = None THEN ~Contains(queue, c)
        ELSE /\ flag[c].pk \in 1..MaxRequests /\ flag[c].done \in 0..(Window + 1) \cup {None}
             /\ Contains(queue, c)
    /\ IsInjective(queue)
    /\ row \subseteq Objects /\ blob \subseteq Objects
    /\ lock \in Procs \cup {"dead", None}
    /\ \A p \in Procs :
        /\ batch[p] \subseteq Objects /\ Cardinality(batch[p]) =< Batch
        /\ pc[p] \notin {"idle", "row"} => todo[p] # <<>>

\* When purge_company is through, nothing of the company is left, neither row nor
\* blob, but what was uploaded since it, or a purge that overlaps it, began or was
\* a blob without a row before, whatever runs died or failed.
PurgedClean ==
    \A p \in Procs : pc[p] = "complete" =>
        (row \cup blob) \cap ObjectsOf(Company(p)) \subseteq touched[p]

\* No flag goes while a purge is owed that begins after the last request for it
\* (202 to the company's deletion), but where a run drops it that had read it
\* before that request, or after a run had no time for the company: it lasted a
\* tick or more with the company in hand, stopped at its deadline before it, or
\* never started, as all workers were busy.
RequestsPurged == \A c \in waiting : flag[c] # None \/ c \in lost \/ c \in outrun

=============================================================================
