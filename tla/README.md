# Formal model of storage-service

TLA+ specifications of the parts of storage-service that are hard to test:
concurrent object requests on one bucket, the byte counters, access grants, share
links, deletion of companies, delivery of events to webhooks and email, the
scheduled jobs and the cache of signing keys. TLC checks small instances; TLAPS
proves most of the safety properties of every part for instances of any size.

## 1. Inventory of the system

A Django application (gunicorn workers), a Celery worker with beat, PostgreSQL
(or SQLite), Redis, and a blob store (S3 or a directory).

| Component | State | Operations | Hard about it |
|---|---|---|---|
| Object operations (`apps/storage/services.py`, `views.py`, `apps/webdav/views.py`) | `StorageObject` rows | upload, overwrite, copy, move, delete (one, many, prefix, bucket), folder rename, WebDAV verbs | each request is a transaction at READ COMMITTED; rows read before a lock are used after it; several rows and the quota row are locked in the caller's order |
| Blob backends (`backends.py`, `_save_blob`) | blob per storage key | save, open, delete | outside the transaction: a rollback does not undo it |
| Quotas (`quotas.py`) | `CompanyQuota`, `UserQuota` | `assert_can_store`, `apply_usage_delta`, two administrator PUTs | checked without a lock, charged later, clamped at zero, written back whole by `save()` |
| Outbox and delivery (`apps/actions/emit.py`, `delivery.py`, `webhook_retry.py`, `email_service.py`) | `ActionOutbox`, `DeliveryAttempt`, an in-memory pool | emit, dispatch, retry run, claim, try, requeue | the pool and several retry runs try one row at once; leases, backoff, lost pool |
| Retention (`retention.py`) | reads and deletes the above | `purge_expired_data` | selects keys, then deletes by key |
| Scheduled jobs (`config/task_lock.py`, `apps/actions/tasks.py`, `scheduled_jobs.py`) | a Redis lock, `ScheduledJobRun`, `ScheduledJobCounter`, `ScheduledJobState` | take and release the lock, record, finish, close interrupted runs, compute health, purge | lock expiry, deaths, recording in many statements, overlapping runs |
| Share links (`shares.py`) | `ObjectShareLink` | create, redeem, revoke | visitors at the cap at once; a delete of the object takes the same locks; foreign keys are checked at the commit |
| Access and grants (`access.py`, `grants.py`) | `StorageAccessGrant` | `evaluate_access`, list, grant, revoke, defaults of new objects | precedence of levels and of deny, inheritance along prefixes, checks before transactions |
| Company deletion (`company_deletion.py` in both apps) | `CompanyDeletion` | flag, purge, sweep, release | requests that write during the sweep, requests that repeat, overlapping runs, batches without a transaction |
| JWKS cache (`apps/authapi`) | keys and their fetch time | refresh, look up | one lock, forced refreshes, reads without the lock, failing fetches during a rotation |
| Event log, statistics, metrics, admin pages, serializers, transport, configuration | rows appended in the transaction of the change; none otherwise | read, format, send | no state of their own |

Interactions: every object request charges the quotas inside its transaction and
emits events into the outbox; the outbox's tries start after the commit; the
retry and purge jobs run under the scheduled-job lock; company deletion removes
what all of them wrote. The properties that make each part correct, and where
it is exposed, are the hazards listed in `PROJECT.json`.

## 2. Modules

| Module | Models | Role |
|---|---|---|
| `ObjectStore` | object operations, quotas, blobs | component |
| `PathStore` | what a bucket promises a client | abstract specification of `ObjectStore` |
| `ObjectStoreProofs`, `ObjectUsageProofs` | | theorems about `ObjectStore`: types, versions, paths, the refinement of `PathStore`, blobs; the byte counters |
| `MCObjectStore` | | instances for TLC |
| `Outbox`, `MCOutbox` | outbox, dispatch pool, retry runs, requeue, purge | component and instances |
| `ScheduledJobs`, `MCScheduledJobs` | lock, run rows, counters, state row and health of one job | component and instance |
| `Access`, `MCAccess` | grants, decisions, listings, folder renames | component and instance |
| `ShareLinks`, `MCShareLinks` | share links and the deletion of their objects | component and instance |
| `CompanyPurge`, `MCCompanyPurge` | flags, purge and sweep of deleted companies | component and instance |
| `SigningKeys`, `MCSigningKeys` | the JWKS cache and token verification | component and instance |
| `OutboxProofs`, `ScheduledJobsProofs`, `AccessProofs`, `ShareLinksProofs`, `CompanyPurgeProofs`, `SigningKeysProofs` | | theorems about the module each is named after |

### ObjectStore

One company, one bucket. A request `p` is a program with a label `pc[p]`; one
action is one statement of the code that reads or changes shared state.

* `rows` are the committed `StorageObject` rows. What a transaction has written
  is in `wr[p]` (rows) and `charge[p]` (counters) until `Commit`. `rowLock` and
  `quotaLock` are PostgreSQL's row locks. `WritersOf` is the unique constraint on
  (bucket, name): a write of a path waits for other transactions that wrote it.
* `blobs` changes at once in `SaveBlob` and `delete_storage_key`; `Rollback` does
  not put it back. A content stands for its bytes and its etag, an id for the
  UUID and the storage key built from it.
* Upload: `StartUpload` (snapshot of SELECT ... FOR UPDATE), `LockUpload`,
  `CheckQuota`, `SaveBlob`, `WriteRow`, `apply_usage_delta`, `Commit`. Copy
  joins at `CheckQuota` with `OpenSource` before the blob; move is `StartMove`,
  `LockMove`, `WriteRow`, `Commit`; a delete is `DeleteRow`,
  `delete_storage_key`, `apply_usage_delta` for each instance it read at the
  start, with one commit (REST, prefix, bucket) or one per object (WebDAV
  folder). The marker that MKCOL stores is an upload to the marker's own path.
* `Fault` is any exception or death inside a request; `DeadlockVictim` is
  PostgreSQL's deadlock detector.
* A charge reads the company's default cap before it waits for the company's row
  (`ReadCompanyQuota` sets `seenCap`), and decides by it once it has the row.
* `SaveQuota` is `CompanyQuotaAdminView.put`, read and save apart;
  `PutUserQuota` is `update_or_create`, which locks the user's row. The model has
  one lock for the company row and the user rows: a charge takes the company row
  first, so that lock serialises charges in the code too, and the administrator's
  PUT of a user's cap is only delayed by it.
* `writes`, `torn`, `drift`, `skew` (and `touched`, `stale`, `skewed` inside a
  transaction) are history variables. No action reads them except to update them.
  They name the situations in which the code gives up a guarantee, so that the
  invariants can say that nothing else does.

The database is PostgreSQL at READ COMMITTED, as in production. SQLite, the
default without `POSTGRES_DATABASE_URL`, has no row locks and serialises writers;
it is not modelled. Grants, events and statistics written by the same transactions
are outside this module's state; MIME and size refusals happen before the first
read and change nothing.

### Outbox

`emit_event` stores a row and queues it; `Dispatch` and
`claim_next_pending_outbox` give a row to a thread; `ReadRow`, `Answer`,
`StoreResult` are the first transaction, the HTTP call and the second
transaction of `deliver_outbox_row`. `SetRule`, `Requeue`, `SelectExpired` /
`DeleteExpired` and `Crash` are staff, retention and container. Times are
counters that `Tick` counts down; a retry run keeps the clock reading of its start
(`runAge`), as the code does, so leases written late are shorter. Nothing bounds how
long a try lasts: the timeout of a call is one of each socket operation, so that a
receiver that answers slowly may hold it beyond any lease. `age` is how long a try has
taken, up to `Slow`, from where on its lease or backoff may be over. `post_webhook_url`
is the set of replies the code tells apart; `deliver_webhook_action` and
`deliver_email_event` sort them into delivered, retry, put off (429 and 503, whose
`Retry-After` may lengthen the backoff) and given up. An answer that is no HTTP or is
cut short (`"garbled"`) is an exception that the email service's call does not catch:
`Raise` ends such a try, which stores no attempt and leaves the lease, and may end the
retry run with it (`Abandon`). A run's batch size and its dry run are left out.

### ScheduledJobs

One job, its lock and its rows. `task_lock`, `Command` and `LockError` are the
three ways a run starts; `record_run`, `MarkInterrupted`, `CountInterrupted`,
`Work`, `Finish`, `Increment`, `Release` are the statements of a run, each its
own transaction; `RecordError`, `ReleaseError` and `Crash` break it off. The
rows are the primary keys a bounded instance may use, and one becomes free again
when `purge_old_runs` deletes it, some time after `Overdue` (in the code, 30 days).
`starts` keeps the rows in the order of `started_at`, by which health picks the last
finished run. `since` and `started` are what health reads of `ScheduledJobState`;
`RecordStart` and `FinishState` write them, `record_skipped` and `jobs_overview` only
make the row. `compute_health` is a function of the state, evaluated for an enabled
and a disabled scheduler. `overrun`, `lost`, `worked` and `missed` are history
variables.

### Access

One bucket of one company. A path is a sequence of names, a folder's marker the path
of the folder followed by `Marker`. `grants` is a bag of rows, since nothing keeps
two equal grants apart. `evaluate_access` and what it is built from are operators
that follow the code (matching, specificity, strongest level); the properties compare
them with definitions of their own. `Levels` has a folder level of depth 0, which a
marker in the bucket's root makes. `ForeignKeys` is the part of `TypeOK` that relates
grants to rows; the other part says that `grants` is a bag. `ObjectList`, `propfind` and
`Download` are what a user sees over REST and WebDAV. A request is a `Check...` step, the view up to
its last access check, and an `Act...` step, the transaction behind it; `Fail` ends
it in between. `rename_folder` has a third, `LockFolder`, because the rows are
locked first and rewritten later. So has an upload of a new object, `SelectParents`:
the grants above it are read in one statement and what it makes of them is seen with
the COMMIT, `ActUpload`. `Overwrite` is the upload to a path that has an object. A
marker in the bucket's root gets no grants. `create_grant`, which may add the folder's marker
(`ensure_folder_marker`), and `delete_grant` are one step each. Grant requests name
their target by path, not by object id. A move of a folder's marker by itself and
copies are left out; copies make grants exactly as uploads do.

### ShareLinks

Rows, row locks and requests, one action per statement. `redeem_share_link` locks
the link and then its object (`LockLink`, `LockObject`); `delete_object` deletes the
links, then the row, then the blob, and checks deferred foreign keys when it commits.
Both lock links first, which is why `RequestsEnd` holds. `torn` records objects whose
deletion was rolled back after the blob was gone: a link created after the cascade
makes the commit fail. Overwrites, deletes of several objects and the bucket's row
are in `ObjectStore` or left out.

### CompanyPurge

`FlagCompany` and `Reopen` are the two statements of `flag_company_deletion`. A
worker takes the task lock (`Begin`), goes through the rows it read (`NextRow`),
releases a flag past the window (`Release`) or purges: `ReadBatch`, `DeleteBlobs`,
`DeleteObjects` until no object is left, then `DeleteRows` and `Complete`. The lock
may expire under a slow worker, so that two of them purge at once. Uploads go on
meanwhile in three steps.

A tick is half an hour, and a purge may take any number of them, since the task has no
time limit and looks at its deadline of 50 seconds between two companies only. `age` is
how long ago a worker's run read the clock; a run that has an age looks at no further
row (`InTime`), and `Complete` dates the purge to its run's start. `touched`, `lost` and
`outrun` name what the code does not promise: an object written while the purge runs; a
request that arrives between a run's read of an old flag and its `row.delete()`; and a
company that a run had no time for, because the run outlasted a tick with the company in
hand, stopped at its deadline before it, or never started, as all workers were busy.

### SigningKeys

The threads of one process share `keys` and `age`. `Authenticate`, `Acquire`,
`Fetch`, `apply_document` are `_refresh`; `Lookup` is `get_signing_key` after it,
with its second, forced refresh; `Take` and `TakeOnly` are the second read of the
cache, without the lock. `Rotate` publishes the next document; a fetch takes the one of
its moment. `TryFallback` is the HS256 secret. A withdrawn kid is never
published again with another key. Static documents, where nothing is fetched, and
the reset of the client between tests are left out.

## 3. Runs

All passing runs but two check for deadlock: a state in which no request, worker or process
can go on would be reported. `AccessGrants` and `ShareLinks` bound the number of
requests, so their behaviours end. `TypeOK` is checked for `ObjectStore`, `Outbox` and
`Access`, where it carries more than types; in the other modules it documents the
state and holds on the same instances.

| Run | Bounds | Shows |
|---|---|---|
| `ObjectsFaults` | 2 requests, 2 paths, 2 ids, sizes 1 and 2, versions to 2, 1 failure; uploads, copies, moves, WebDAV folder deletes | types; `UsageExactUnlessStale`, `NoLostOverwrite`, `OneObjectPerPath`, `BlobsMatchRows`; `RefinesPathStore` |
| `ObjectsRaces` | 2 requests, 3 paths, 3 ids, one size, cap 2; uploads, moves, deletes of up to 2 paths | `OvershootBounded`, and `RefinesPathStore` with several paths deleted at one instant |
| `ObjectsQuota` | 2 users on 1 path, 2 ids, both sizes, both administrator PUTs, no default cap at first | `UserUsageExactUnlessSkewed`, and the company counter under `quota.save()` |
| `ObjectsLive` | 2 requests, deletes of 2 paths in any order, uploads; fairness | `RequestsEnd` |
| `OutboxRaces` | 1 webhook row, 2 threads, 2 overlapping retry runs, 2 attempts, 1 requeue, 1 rule change | types, `AttemptsNumbered`, `StatusFollowsLastAttempt`, `FinishedStays`, `PurgeOnlyFinished`, `LeaseExclusive` |
| `OutboxLive` | 1 email row, 2 threads, 3 attempts, 1 crash, loss of the key; fairness | `RowsFinish` |
| `JobsRuns` | 2 processes, 2 rows, lock of 2 ticks, runs of up to 3, overdue after 3, 1 fault; fairness | `LockExclusive`, `CountedOnce`, `HealthTruthful`, `DeadRunsClosed` |
| `AccessGrants` | a member and an owner, 3 objects in 2 nested folders, 2 requests at once, 4 in all, 1 expiry | `DecisionsByLevel`, `OpenMeansOpen`, `BrowsingFindsReadable`, `UploadsNeverWiden`, `RenameKeepsAccess` |
| `ShareLinks` | 3 requests at once, 4 in all, 1 object, 2 links, caps 1 and none, expiry 1 and none; fairness | `DownloadsCapped`, `LinksHaveObjects`, `RevokedStaysDead`, `RedeemedHasBytes`, `RequestsEnd` |
| `CompanyPurge` | 1 company, 2 objects in batches of 1, 2 workers, 2 requests, 1 upload, 1 fault, a window of 2 ticks, purges of any length | `PurgedClean`, `RequestsPurged` |
| `SigningKeys` | 2 threads, 3 documents, 6 tokens, TTL of 2 ticks, fetches of up to 1, 1 failing fetch; fairness | `KeyOfKid`, `WithdrawnKeysExpire`, `OneRefresh`, `PublishedKeysAccepted`, `CachedKeysDontWait` |

Why the bounds are enough to meet the cases. Two requests are enough for every
race between a read and a write, and for a lock cycle; two paths let them lock in
opposite orders and let moves and copies collide; a third id lets a path be
deleted and created again while an old instance is held. Two sizes let an
overwrite grow, shrink and stay. One failure at any point of any request covers
each torn state once. In the outbox, two runs and a dispatch try are the three
ways a row is tried at once, two attempts reach the limit, and the backoff, the run and
the lease keep the order of the defaults (30, 50 and 120 seconds); calls last for any
time. Two threads are enough for `LeaseExclusive`: a thread whose dispatch try has been
stored, and with it has cleared the lease of a run's try, is free for the second run.
In the jobs, a run that outlives the lock by one tick is the shortest that does, and
a limit of three ticks lets a slow run end after the job has become overdue.
Access: two nested folders and a file have all levels of specificity, four requests
are enough to build a folder, grant on it, and change it under another request.
Share links: two visitors at a cap of one with a third request that revokes or
deletes; two links let the cascade be half done. Company deletion: two objects are two
batches, so a purge can stop between them; an upload writes to either, before, during or
after its batch; two requests are a request and its repetition, and a window of two ticks
leaves a sweep between a purge and the release, and one more for the fault.
Keys: three documents let a fetched one be old by two rotations or
one, and tokens with a known, an unknown and no kid, with a right and a wrong key,
and with the secret, are all there.

One run ends in a violation on purpose, `DoubleDelete`: it refutes a sentence of the
documentation (section 6).

### Fairness

`ObjectStore`: a worker runs its request to the end (strong fairness of `Step`,
since PostgreSQL queues lock waiters and grants in turn) and deadlocks are
broken after `deadlock_timeout`. Nothing is assumed of clients, administrators or
failures. `Outbox`: threads run, every HTTP call ends some time (a socket operation
times out, and `http.client` and the excerpt of the body bound how many there are, but
for a receiver that sends "100 Continue" for ever), beat starts the retry job every
minute, a run's loop claims before it waits, time passes. That a call does not raise
is not assumed. `ScheduledJobs`:
a process continues its run, beat starts the job again, time passes, and the purge
deletes finished rows, which frees the bounded keys. `ShareLinks`: a request takes its
next step when its locks are free; no lock order is assumed.
`SigningKeys`: threads go on with their own steps; a fetch may last forever, because
its time limits do not bound a server that keeps sending, and nothing is assumed of
it. `Access` and `CompanyPurge` state no liveness; `RequestsPurged` says when a flag may not
go, and is a safety property. `CompanyPurge`'s `Tick` waits for a run that began since the
last one, since beat starts the task every minute, unless all workers are busy.

## 4. Proofs

The theorems hold for any sets of requests, users, objects, rows, links, keys and
threads and any bounds, from the assumptions on the constants that the modules
state: `ObjectStoreAssumption`, `OutboxAssumption`, `ScheduledJobsAssumption`,
`AccessAssumption`, `ShareLinksAssumption`, `CompanyPurgeAssumption` and
`SigningKeysAssumption` (types of the constants, and values like `None` that are
nothing else), `SentinelAssumption` (`None` and `Same` are no rows, requests or
counters), `FiniteAssumption` (worker threads and UUIDs are finitely many, so that
bytes can be counted) and `PowersAssumption` (the powers of two of the backoff are positive
numbers: TLC evaluates it up to the bound, the prover knows nothing of `2^n`).
Where a theorem has a hypothesis besides, it is named below with its reason in the
code. Every inductive invariant was checked by TLC on an instance of a run before it
was proved.

### ObjectStore

* `TypeCorrect`: `Spec => []TypeOK`.
* `OverwritesCounted`: `Spec => []NoLostOverwrite`.
* `PathsUnique`: `Spec => []OneObjectPerPath`.
* `PathsLinearise`: `Spec => RefinesPathStore`, the whole refinement of `PathStore`.
* `BlobsFollowRows`: `Spec => []BlobsMatchRows` for `Backend = "s3"`. On the
  filesystem backend it is false: an overwritten object keeps its old bytes
  (section 6).
* `CompanyCounted` (`ObjectUsageProofs`): `Spec => []UsageExactUnlessStale`.
* `UsersCounted` (`ObjectUsageProofs`): `Spec => []UserUsageExactUnlessSkewed`.
* `OvershootLimited` (`ObjectUsageProofs`): `Spec => []OvershootBounded`, if there is a
  request, some content is a largest one, and no request is an administrator's PUT
  of the caps. A PUT may set the cap below what is used, and then no bound holds.

None of the invariants is inductive as it stands. The inductive one has seven parts.

* `TypeInv`: `TypeOK`, `Shapes` (what the locals of a request hold at each label;
  for instance a delete before its commit has an instance left), and `QuotaHeld`
  (the holder of the quota lock has working copies of the counters).
* `LockInv`: a request *owns* the object whose row it has locked or whose UUID it
  has drawn. `OwnersLock`: an owned row that exists is locked by its owner.
  `OwnersDiffer`: one owner per object. `FreshUnused`: an undrawn UUID has no row
  and no owner. `WritesLocked`: what a transaction wrote is locked by it.
  `OwnersWrite`: the image an owner has written is still the one its row, as
  committed now, calls for. The last is the heart of the matter: nobody changes a
  committed row between the owner's read and its commit.
* `VersionInv`: `NoLostOverwrite` and `NewObjectsUnwritten` (an object without a
  row yet has no overwrite counted).
* `PathInv`: `OneObjectPerPath` and `ImagesApart` (the path of an uncommitted
  image is no other row's and no other transaction's), which holds because a
  write of a path waits for other writers of it (`WritersOf`) and then looks.
* `BlobInv`: `BlobsMatchRows` and what each request has done to blobs: an upload past
  its save finds its own bytes under its key (`Saved`); an object that a delete
  has read is there or gone for good (`Known`), so no one stores a blob where the
  delete removes one (`Gone`); and no row is deleted without its blob (`Covered`).
* `UsageInv`: the two invariants of the counters, and books for every transaction.
  What it has charged (`Booked`) and what it owes for the row it has written or
  deleted but not charged yet (`Owed`) is what its rows add to the committed bytes
  and take away (`Added`, `Removed`); the same for each user. `ChargeHeld`: a working
  copy of the counters exists only under the quota lock, so a commit replaces the
  counters its copy was made of. Since what a transaction leaves is never negative
  (`NetNatural`), the floor at 0 is not met while the books are right. Bytes are
  pairs of an object and a position; `SizeAdds` and `SizeOverlay` say how their
  cardinality follows the rows.
* `ClaimInv` and `CapInv`: every request that has passed its check *claims* the bytes
  it will add, and used bytes and claims together stay within the cap and one
  largest content for each other request. A check adds a claim only if it fits by
  itself, and a commit turns its own claim into used bytes.

For the refinement only `Commit` takes a step of `PathStore`. Its transaction has
written either one image, which `PublishImplements` shows to be the store, the
overwrite or the move of one path, or deletions alone (`DeletionImplements`).
`PathInv` makes `PathMap` the function of the committed rows that this needs
(`PathMapEntry`).

`NextType`, `NextLocks`, `NextVersion`, `NextPaths`, `NextBlobs`, `NextUsage` and
`NextCap` are the induction steps, one lemma per group of actions; `NextQuiet` says
that only `Commit` changes the committed rows.

### Outbox

`TypeCorrect`, `NumberedOnce` (`AttemptsNumbered`), `StatusTruthful`
(`StatusFollowsLastAttempt`), `FinishedFinal` (`FinishedStays`) and `PurgeSpares`
(`PurgeOnlyFinished`) follow from one invariant, whose heart is `Tries`: a try whose
snapshot of `attempt_count` is still the row's finds the row waiting, so that a late
result is told by its number alone. `LeasesExclude` (`LeaseExclusive`) assumes nothing
of how long a call, a backoff or a lease is: it says that retry runs keep off each
other's tries for `Slow`, the least of the first backoff, the longest one, and what a
lease leaves of itself when a run takes it at its deadline (30 seconds by default). Its
invariant `Shields` gives every try of a retry run the lease or the backoff that keeps
the others off, less the time the try has taken.

### ScheduledJobs

`OneTimelyRun` (`LockExclusive`) rests on `TimelyHold`: the age of a run under the
lock and the time the lock has left add up to the whole expiry. `RunsCounted`
(`CountedOnce`) rests on who may still write and count a row (`Running`, `Finishing`,
`Closing`, `Counts`), `HealthTrue` (`HealthTruthful`) on `Recorded`: no success is
recorded as newer than the work.

### ShareLinks

`CapKept`, `ForeignKeyKept`, `RevocationFinal` and `RedemptionServed` are
`DownloadsCapped`, `LinksHaveObjects`, `RevokedStaysDead` and `RedeemedHasBytes`. The
invariant says which locks a request holds at each statement (`HoldersLock`,
`RedeemersLock`, `DeletersLock`), that what `Validate` found still holds at `Consume`
(`StillActive`), and where bytes are missing (`BytesKept`).

### CompanyPurge

`PurgeComplete` is `PurgedClean`: whatever runs overlap, a purge that completes has
left no row and no blob of its company but what was uploaded since it, or a purge that
overlaps it, began, or was a blob without a row before. The inductive invariant: what
no upload has written since a purge began is at rest and is no blob without a row
(`AtRest`); a batch's blobs go before its rows, but for new ones (`BlobsFirst`); and a
purge that has read its last batch has left no row, but for new ones (`NoneLeft`).

### SigningKeys

`KidsRespected` (`KeyOfKid`), `LoadedOnce` (`OneRefresh`) and `WithdrawalsHeeded`
(`WithdrawnKeysExpire`): a fetched document was published when its thread began to
wait (`Fetched`), and cached keys in date were published at most a fetch before they
were loaded (`InDate`). `RotationsSeamless` (`PublishedKeysAccepted`) needs
`KeysPublishedOnce`: identity-service gives a kid to one key and publishes it without
a break. Without that it is false: when a key is withdrawn and published again, a
cached document from before the break and one from within it may be applied in
turn. Its invariant says that documents are applied in the order of their publication
(`InOrder`), because the lock is held from the fetch to the write.

### Access

* `KeysHold`: `Spec => []ForeignKeys`. The same holds of the rows a rename has locked,
  and of the rows an upload has selected to copy.
* `TypeCorrect`: `TypeOK`, which says besides that `grants` is a bag. `BagInv` adds
  that its rows are finitely many: how often `copy_folder_grants` adds a row is a fold,
  which has a value only over a finite set. `CopiesExist` shows that the fold's
  recursive function exists, by induction on the size of the sets (`Inductive`, from
  the least counterexample), and `CopiesCounted` that its value is a positive number.
* `DecidedByLevel`: `DecisionsByLevel` for `Kind = "company"` (the formula names that
  kind's default), under `[]ShortNames`: names have fewer than 900 segments, which
  the column of 1024 characters guarantees. A deeper folder would outweigh a grant
  on the object itself, since `grant_specificity` gives an object 1000 and a folder 100
  and its depth. The proof gives every grant its rank among the levels, shows that
  weight and rank order the grants alike (`RankOrder`), that level `k` holds the
  grants of rank `k` (`LevelsByRank`), and that the first level that is not empty
  therefore decides (`FirstLevelDecides`).
* `UnrestrictedIsOpen` and `BrowsingComplete`: `OpenMeansOpen` and
  `BrowsingFindsReadable`, for trees of any depth.
* `RenamesKeepAccess`: `RenameKeepsAccess`, again under `[]ShortNames`. The invariant
  `RenameInv` says that names are unique, and that what a rename has locked stays in
  its folder and is locked by no other. Inside the folder the rename keeps what is over
  what (`FolderMoves`), and the weights of all folder grants change alike.

* `UploadsOpenNothing`: `UploadsNeverWiden`, under `[]ShortNames` and `PlainFolders`.
  Reading is refused by a deciding grant that denies it and by nothing else
  (`ReadDecision`), and the grants that were there keep what they say and weigh
  (`OldGrantsStay`), so that an upload opens an object only if a new grant outweighs such
  a denial (`Overruled`). A new file's grants are about the file alone. A folder with
  grants of its own denies everyone but its uploader, and the grants above it that
  denied the uploader to read decide on the upload as well
  (`PrivateFolderOpensNothing`). A folder that copies the nearest grants above it copies
  the denial with them (`NestedFolderOpensNothing`), for every user to whom the grants it
  has selected still say what they did. `PlainFolders` says of the requests
  that `.emptyFolderPlaceholder` is the name of markers alone and that no marker is
  moved by itself, which nothing in the code prevents; `MarkerInv` follows: folder grants
  are on markers. Without it the property is false: a marker moved away from its
  folder takes its grants along to a path where `nearest_ancestor_folder_grants` does not
  look for them, and a folder uploaded below that path copies grants from further up
  over theirs.

### Only model-checked

* Liveness (`RequestsEnd`, `RowsFinish`, `DeadRunsClosed`, `CachedKeysDontWait`), which is
  outside the prover's reach.
* `RequestsPurged`.

## 5. What the guarantees are

* No overwrite is lost and no path has two objects, under any interleaving.
* Seen from outside, each request acts on the paths at one instant or not at all
  (`RefinesPathStore`), although a WebDAV folder delete is several instants.
* The company counter is exact until a delete works on an instance that has
  changed or gone, or an administrator saves caps over a concurrent charge.
  After that nothing repairs it. A user's counter is exact for charges that had read
  a cap for the user before they waited, until another user overwrites an object or a
  stale delete comes in.
* Row and blob agree unless a request was rolled back after it had changed the
  blob, or a copy read a source that was changing.
* A stored delivery attempt carries the number its receiver saw, and a late result
  never reopens a finished delivery. Two retry runs never try one row at once while
  each of the tries has taken less than `Slow`; a slow receiver may be called by two. A
  row is finished some time unless its calls raise for ever.
* Runs of a job that end in time exclude each other, also when others do not, and
  each is counted once. A job shown healthy did its work within the limit.
* Decisions follow the most specific level of grants. Browsing over REST finds
  exactly what may be read. An upload opens nothing that was there before, as long
  as nobody moves a folder's marker by itself or names a folder like one, but for users
  whose grants on the folder above changed between the upload's SELECT and its COMMIT; a
  renamed folder keeps its access as far as no other folder's grants come in. An object
  uploaded into a folder between the lock and the rewrite of its rename stays behind
  under the old path, without the grants it inherited.
* A share link is never used more often than its cap, nor after its revocation, and
  never names a missing object; the bytes are there unless a failed deletion took
  them.
* A purge of a company that comes to its end leaves only what was written meanwhile,
  and the flag of a deletion request stays until a purge that began after the request is
  through, unless the request met the release of the old flag or a run that had no time
  for the company. A worker that is down for the whole window, or a purge that takes that
  long, releases the flag without another sweep.
* A token is accepted with the key of its kid and no other; a withdrawn key for no
  longer than the TTL and a fetch, as long as fetches succeed; a new key at once. A
  cached key never waits for a refresh.

## 6. Where code and documentation disagree

Shown by a run:

* `DoubleDelete`: an object deleted twice is subtracted twice
  (`docs/quotas.md:59`).

Met while modelling; the models behave this way, no run is kept for it:

* A charge goes by the default cap it read before it waited for the company's row, so the
  bytes of an upload may stay uncounted for its user although a cap applies by then
  (`docs/quotas.md:23`); the histories `skewed` and `skew` of `ObjectStore` name the user.
* An answer of the email service that is no HTTP or is cut short raises
  `http.client.HTTPException`, which `email_service.py:297` does not catch. The try counts
  as none, and the row may be tried again for ever, where `docs/email.md:81` and `85` have
  it finished after 8 attempts. `RowsFinish` excepts calls that raise for ever.
* A grant on a folder that is revoked between the SELECT and the COMMIT of a folder
  creation below it is committed for the new folder, although its grants are to "match" the
  parent's (`access.py:716`, `docs/access.md:28`). `UploadsNeverWiden` excepts the readers
  of such a grant.
* "The flag stays for `SWEEP_WINDOW` after the purge" (`company_deletion.py:9`), but
  `completed_at` (line 149) is when the run began (line 132), and a purge may take longer
  than the window. The next run then drops the flag at once, and what was written late in
  that purge is never swept.
* Two uploads that each fit exceed the cap together (`docs/quotas.md:7`).
  `OvershootBounded` says by how much at most.
* Saving the caps writes an old `used_bytes` back (`docs/quotas.md:14`);
  `UsageExactUnlessStale` names it as one of two causes of a wrong counter.
* On the filesystem backend an overwritten object keeps its old bytes
  (`docs/getting-started.md:76`). `ObjectStore` has the backend as a constant; the
  runs use S3, where the key is replaced.
* A purge deletes a delivery that was requeued after its key was read
  (`docs/maintenance-jobs.md:93`); `PurgeOnlyFinished` says that only a requeue does this.
* A webhook's redirect counts as delivered, although `docs/actions.md:84` and
  `docs/n8n.md:124` list 2xx alone; the email service's redirects are retried.
* A deletion request repeated just as a run releases the old flag is lost, although
  the comment in `company_deletion.py:77` says "sweep once more".
* "Owners/staff can always manage grants (needed after a company-wide deny)"
  (`grants.py:89`): the next line asks for access to the bucket first, so after a deny
  on the bucket an owner can delete the grant, and can add none before that.
* PROPFIND of a folder means to "enforce the same grants as REST"
  (`apps/webdav/views.py:220`), but REST lists what a user may read in a folder that
  is closed to the user, and PROPFIND answers 403 for it, although the listing of the
  parent shows the folder. `BrowsingFindsReadable` therefore asks less of PROPFIND.
* The docstring of `StorageAccessGrant` lists deny before allow at all levels;
  the code and `docs/access.md:37` let the most specific level decide.
* A requeue keeps `attempt_count`, so a delivery can be tried more than 8 times
  (`docs/actions.md:80`); `StatusFollowsLastAttempt` states the bound that holds.
* Of two tries that overlap only the first to end is stored, although
  `docs/actions.md:18` says each try is.
* A `Retry-After` shorter than the backoff is not used (`docs/email.md:91`).
* "A job never runs twice at the same time" (`docs/maintenance-jobs.md:44`) holds
  for runs shorter than the lock's expiry and started by beat; the management
  command takes no lock. `LockExclusive` states what holds.

## 7. Not modelled, and why

Sockets, signing, address checks, serializers, admin pages, templates, metrics and
configuration change no shared state of the kinds above or only format it. Listing
and reading are left out except where a read feeds a write or, in `Access`, tells the
user who may see what. The event log is appended in the transaction of the change
it reports, and purged like deliveries. The signatures and claims of tokens, and of
the deletion assertion, are the library's. Buckets are made on first use and never
change through the API. SQLite as the database is not modelled.

## 8. Plan

A composition of `CompanyPurge` with the outbox, whose rows the purge deletes
while tries of them are in flight.
