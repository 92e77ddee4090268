---------------------------- MODULE OutboxProofs ----------------------------
(***************************************************************************)
(* Proofs about Outbox for any number of rows, workers and retry runs:     *)
(* types, numbered attempts, the status a row ends in, purges, leases.     *)
(***************************************************************************)
EXTENDS Outbox, TLAPS

(***************************************************************************)
(* The inductive invariant                                                 *)
(***************************************************************************)

\* A try is of a stored row.  As long as no other try was stored since it read
\* the row, the row waits for one, or was deleted.
Tries ==
    /\ \A r \in queue : status[r] # "new"
    /\ \A w \in Workers : pc[w] # "idle" =>
        /\ row[w] \in Rows
        /\ status[row[w]] # "new"
        /\ pc[w] \in {"http", "apply"} =>
            /\ snap[w] =< attempts[row[w]]
            /\ snap[w] = attempts[row[w]] => status[row[w]] \in Waiting \cup {"gone"}

\* Nothing has happened to a row before its event.
Unborn ==
    \A r \in Rows : status[r] = "new" => attempts[r] = 0 /\ log[r] = <<>> /\ requeues[r] = 0

\* A row that waits for a try has one left.
TriesLeft ==
    \A r \in Rows :
        /\ requeues[r] =< MaxRequeues
        /\ status[r] \in Waiting => attempts[r] < MaxAttempts + requeues[r]

\* A row a purge has selected waits for a try only if it was requeued.
Selected ==
    \A r \in doomed : status[r] # "new" /\ (status[r] \in Waiting => requeues[r] > 0)

IInv ==
    /\ TypeOK
    /\ Tries /\ Unborn /\ TriesLeft /\ Selected
    /\ AttemptsNumbered /\ StatusFollowsLastAttempt

FirstBackoff == Smaller(MaxBackoff, Base)

\* The lease or the backoff that keeps other runs off the row of worker w.
Shielded(w) ==
    LET r == row[w]
    IN  \/ leaseLeft[r] # None /\ leaseLeft[r] >= Lease - RunTime + 1 - age[w]
        \/ dueIn[r] # None /\ dueIn[r] >= FirstBackoff - age[w]

\* Every try of a retry run is shielded until it is slow, while its row waits
\* and staff leave it alone.
Shields ==
    \A w \in Workers :
        /\ pc[w] # "idle" /\ by[w] # None /\ age[w] < Slow
        /\ requeues[row[w]] = 0 /\ status[row[w]] \in Waiting
        => Shielded(w)

LeaseInv == Shields /\ LeaseExclusive

(***************************************************************************)
(* Helpers                                                                 *)
(***************************************************************************)

\* Waiting longer never makes a product smaller.
LEMMA TimesPositive ==
    ASSUME NEW a \in Nat, NEW b \in Nat \ {0}
    PROVE  a * b \in Nat /\ a * b >= a
OBVIOUS

\* A backoff lasts from the first one to the longest.
LEMMA BackoffRange ==
    ASSUME NEW n \in 1..(MaxAttempts + MaxRequeues + 1)
    PROVE  /\ backoff_seconds(n) \in 1..MaxBackoff
           /\ backoff_seconds(n) >= FirstBackoff
<1>1. n - 1 \in 0..(MaxAttempts + MaxRequeues) BY OutboxAssumption
<1>2. PICK b \in Nat \ {0} : b = 2^(n - 1) BY <1>1, PowersAssumption
<1>3. Base * b \in Nat /\ Base * b >= Base BY TimesPositive, OutboxAssumption
<1>4. backoff_seconds(n) = Smaller(MaxBackoff, Base * b) BY <1>2 DEF backoff_seconds
<1> QED BY <1>3, <1>4, OutboxAssumption DEF Smaller, FirstBackoff

\* The wait after a try, with or without a Retry-After.
LEMMA DelayRange ==
    ASSUME NEW n \in 1..(MaxAttempts + MaxRequeues + 1), NEW v,
           NEW d \in compute_retry_delay_seconds(n, v)
    PROVE  d \in 1..MaxBackoff /\ d >= FirstBackoff
<1>1. backoff_seconds(n) \in 1..MaxBackoff /\ backoff_seconds(n) >= FirstBackoff
  BY BackoffRange
<1> QED BY <1>1, OutboxAssumption DEF compute_retry_delay_seconds, FirstBackoff, Smaller

\* A tick takes at most one from a timer, and leaves NULL alone.
LEMMA DownRange ==
    ASSUME NEW n \in Nat, NEW t \in Timer(n)
    PROVE  /\ Down(t) \in Timer(n)
           /\ Down(t) = None <=> t = None
           /\ t # None => t \in Int /\ Down(t) >= t - 1
BY OutboxAssumption DEF Down, Timer

\* What an answer is taken for.
LEMMA VerdictType ==
    ASSUME NEW reply
    PROVE  /\ deliver_webhook_action(reply) \in {"success", "failure", "throttled", "permanent"}
           /\ deliver_email_event(reply) \in
                {"success", "failure", "throttled", "permanent", "raised"}
<1>1. deliver_webhook_action(reply) \in {"success", "failure", "throttled", "permanent"}
  BY DEF deliver_webhook_action
<1>2. deliver_email_event(reply) \in {"failure", "raised", deliver_webhook_action(reply)}
  BY DEF deliver_email_event
<1> QED BY <1>1, <1>2

\* A run whose loop ends has no clock; the others go on with theirs.
LEMMA AbandonStep ==
    ASSUME TypeOK, NEW w \in Workers, Abandon(w)
    PROVE  Free(w) /\ runAge' \in [Runs -> Nat \cup {None}]
<1>1. Free(w) /\ runAge' \in {runAge} \cup {[runAge EXCEPT ![k] = None] : k \in {by[w]} \ {None}}
  BY DEF Abandon
<1>2. runAge' = runAge \/ runAge' = [runAge EXCEPT ![by[w]] = None] BY <1>1
<1> QED BY <1>1, <1>2 DEF TypeOK

(***************************************************************************)
(* Steps                                                                   *)
(***************************************************************************)

\* What the parts about rows say is kept while no row changes.
LEMMA RowsKept ==
    ASSUME IInv, UNCHANGED <<status, attempts, log, requeues>>,
           \A r \in Rows : dueIn'[r] = None => dueIn[r] = None
    PROVE  Unborn' /\ TriesLeft' /\ AttemptsNumbered' /\ StatusFollowsLastAttempt'
<1>1. Unborn' BY DEF IInv, Unborn
<1>2. TriesLeft' BY DEF IInv, TriesLeft
<1>3. AttemptsNumbered' BY DEF IInv, AttemptsNumbered
<1>4. StatusFollowsLastAttempt' BY DEF IInv, StatusFollowsLastAttempt
<1> QED BY <1>1, <1>2, <1>3, <1>4

\* A worker that is free has no try; the others go on with theirs.
LEMMA FreeStep ==
    ASSUME TypeOK, NEW w \in Workers, Free(w)
    PROVE  /\ pc' \in [Workers -> {"idle", "read", "http", "apply"}]
           /\ row' \in [Workers -> Rows \cup {None}]
           /\ by' \in [Workers -> Runs \cup {None}]
           /\ snap' \in [Workers -> Nat]
           /\ verdict' \in [Workers -> {"success", "failure", "throttled", "permanent", "terminal", None}]
           /\ age' \in [Workers -> Nat]
           /\ pc'[w] = "idle" /\ age'[w] = 0
           /\ \A v \in Workers : v # w =>
                pc'[v] = pc[v] /\ row'[v] = row[v] /\ snap'[v] = snap[v] /\ by'[v] = by[v] /\ age'[v] = age[v]
BY DEF TypeOK, Free

\* A worker that starts a try; the others go on with theirs.
LEMMA DeliverStep ==
    ASSUME TypeOK, NEW w \in Workers, NEW r \in Rows, NEW k \in Runs \cup {None}, Deliver(w, r, k)
    PROVE  /\ pc' \in [Workers -> {"idle", "read", "http", "apply"}]
           /\ row' \in [Workers -> Rows \cup {None}]
           /\ by' \in [Workers -> Runs \cup {None}]
           /\ UNCHANGED <<snap, verdict, age>>
           /\ pc'[w] = "read" /\ row'[w] = r /\ by'[w] = k
           /\ \A v \in Workers : v # w => pc'[v] = pc[v] /\ row'[v] = row[v] /\ by'[v] = by[v]
BY DEF TypeOK, Deliver

\* An event is stored with a try queued for it.
LEMMA EmitStep ==
    ASSUME IInv, NEW r \in Rows, emit_event(r)
    PROVE  IInv'
<1>1. /\ status[r] = "new"
      /\ status' = [status EXCEPT ![r] = "pending"]
      /\ queue' = queue \cup {r}
      /\ UNCHANGED <<attempts, dueIn, leaseLeft, log, rule, emailKey, edits, pc, row, by, snap,
                     verdict, age, runAge, doomed, old, requeues, crashes>>
  BY DEF emit_event, config, worker, purge
<1>2. /\ status' \in [Rows -> Stored \cup {"new", "gone"}]
      /\ status'[r] = "pending"
      /\ \A s \in Rows : s # r => status'[s] = status[s]
  BY <1>1 DEF IInv, TypeOK, Stored, Waiting
<1>3. attempts[r] = 0 /\ log[r] = <<>> /\ requeues[r] = 0 BY <1>1 DEF IInv, Unborn
<1>4. TypeOK' BY <1>1, <1>2 DEF IInv, TypeOK, Timer
<1>5. Tries'
  <2>1. \A s \in queue' : status'[s] # "new" BY <1>1, <1>2 DEF IInv, Tries, TypeOK
  <2>2. \A w \in Workers : pc[w] # "idle" => row[w] # r BY <1>1 DEF IInv, Tries
  <2> QED BY <1>1, <1>2, <2>1, <2>2 DEF IInv, Tries
<1>6. Unborn' BY <1>1, <1>2 DEF IInv, Unborn
<1>7. TriesLeft' BY <1>1, <1>2, <1>3, OutboxAssumption DEF IInv, TriesLeft
<1>8. Selected'
  <2>1. r \notin doomed BY <1>1 DEF IInv, Selected
  <2> QED BY <1>1, <1>2, <2>1 DEF IInv, Selected, TypeOK
<1>9. AttemptsNumbered' BY <1>1, <1>2, <1>3 DEF IInv, AttemptsNumbered
<1>10. StatusFollowsLastAttempt'
  BY <1>1, <1>2, <1>3, OutboxAssumption DEF IInv, StatusFollowsLastAttempt
<1> QED BY <1>4, <1>5, <1>6, <1>7, <1>8, <1>9, <1>10 DEF IInv

\* A thread of the dispatch pool takes a row.
LEMMA DispatchStep ==
    ASSUME IInv, NEW w \in Workers, Dispatch(w)
    PROVE  IInv'
<1>1. UNCHANGED <<status, attempts, dueIn, leaseLeft, log, rule, emailKey, edits, runAge,
                  doomed, old, requeues, crashes>>
  BY DEF Dispatch, columns, config, purge
<1>2. PICK r \in queue : queue' = queue \ {r} /\ Deliver(w, r, None) BY DEF Dispatch
<1>3. r \in Rows /\ status[r] # "new" BY DEF IInv, TypeOK, Tries
<1>4. /\ pc' \in [Workers -> {"idle", "read", "http", "apply"}]
      /\ row' \in [Workers -> Rows \cup {None}]
      /\ by' \in [Workers -> Runs \cup {None}]
      /\ UNCHANGED <<snap, verdict, age>>
      /\ pc'[w] = "read" /\ row'[w] = r
      /\ \A v \in Workers : v # w => pc'[v] = pc[v] /\ row'[v] = row[v]
  BY <1>2, <1>3, DeliverStep DEF IInv
<1>5. TypeOK' BY <1>1, <1>2, <1>4 DEF IInv, TypeOK, Timer
<1>6. Tries' BY <1>1, <1>2, <1>3, <1>4 DEF IInv, Tries
<1>7. Selected' BY <1>1 DEF IInv, Selected
<1>8. Unborn' /\ TriesLeft' /\ AttemptsNumbered' /\ StatusFollowsLastAttempt'
  BY <1>1, RowsKept
<1> QED BY <1>5, <1>6, <1>7, <1>8 DEF IInv

\* A retry run starts or ends: only its clock changes.
LEMMA RunStep ==
    ASSUME IInv, NEW k \in Runs, StartRun(k) \/ EndRun(k)
    PROVE  IInv'
<1>1. UNCHANGED <<status, attempts, dueIn, leaseLeft, log, rule, emailKey, edits, queue, pc, row, by,
                  snap, verdict, age, doomed, old, requeues, crashes>>
  BY DEF StartRun, EndRun, columns, config, worker, purge
<1>2. runAge' \in [Runs -> Nat \cup {None}]
  <2>1. PICK t \in Nat \cup {None} : runAge' = [runAge EXCEPT ![k] = t]
    BY DEF StartRun, EndRun
  <2> QED BY <2>1 DEF IInv, TypeOK
<1>3. TypeOK' BY <1>1, <1>2 DEF IInv, TypeOK, Timer
<1>4. Tries' BY <1>1 DEF IInv, Tries
<1>5. Selected' BY <1>1 DEF IInv, Selected
<1>6. Unborn' /\ TriesLeft' /\ AttemptsNumbered' /\ StatusFollowsLastAttempt'
  BY <1>1, RowsKept
<1> QED BY <1>3, <1>4, <1>5, <1>6 DEF IInv

\* A worker of a retry run claims a row with a lease.
LEMMA ClaimStep ==
    ASSUME IInv, NEW k \in Runs, NEW w \in Workers, claim_next_pending_outbox(k, w)
    PROVE  IInv'
<1>1. /\ UNCHANGED <<status, attempts, dueIn, log, rule, emailKey, edits, queue, runAge,
                     doomed, old, requeues, crashes>>
      /\ runAge[k] # None /\ runAge[k] < RunTime
  BY DEF claim_next_pending_outbox, config, purge
<1>2. PICK r \in Rows : /\ status[r] \in Waiting
                        /\ leaseLeft' = [leaseLeft EXCEPT ![r] = Lease - runAge[k]]
                        /\ Deliver(w, r, k)
  BY DEF claim_next_pending_outbox, pending_outbox_filter
<1>3. runAge[k] \in Nat BY <1>1 DEF IInv, TypeOK
<1>4. Lease - runAge[k] \in Timer(Lease) BY <1>1, <1>3, OutboxAssumption DEF Timer
<1>5. leaseLeft' \in [Rows -> Timer(Lease)] BY <1>2, <1>4 DEF IInv, TypeOK
<1>6. /\ pc' \in [Workers -> {"idle", "read", "http", "apply"}]
      /\ row' \in [Workers -> Rows \cup {None}]
      /\ by' \in [Workers -> Runs \cup {None}]
      /\ UNCHANGED <<snap, verdict, age>>
      /\ pc'[w] = "read" /\ row'[w] = r
      /\ \A v \in Workers : v # w => pc'[v] = pc[v] /\ row'[v] = row[v]
  BY <1>2, DeliverStep DEF IInv
<1>7. TypeOK' BY <1>1, <1>5, <1>6 DEF IInv, TypeOK, Timer
<1>8. Tries' BY <1>1, <1>2, <1>6 DEF IInv, Tries, Waiting
<1>9. Selected' BY <1>1 DEF IInv, Selected
<1>10. Unborn' /\ TriesLeft' /\ AttemptsNumbered' /\ StatusFollowsLastAttempt'
  BY <1>1, RowsKept
<1> QED BY <1>7, <1>8, <1>9, <1>10 DEF IInv

\* A try ends and leaves the rows as they are.
LEMMA FreeKeeps ==
    ASSUME IInv, NEW w \in Workers, Free(w),
           UNCHANGED <<columns, config, queue, purge, requeues, crashes>>,
           runAge' \in [Runs -> Nat \cup {None}]
    PROVE  IInv'
<1>1. UNCHANGED <<status, attempts, dueIn, leaseLeft, log, rule, emailKey, edits, queue,
                  doomed, old, requeues, crashes>>
  BY DEF columns, config, purge
<1>2. /\ pc' \in [Workers -> {"idle", "read", "http", "apply"}]
      /\ row' \in [Workers -> Rows \cup {None}]
      /\ by' \in [Workers -> Runs \cup {None}]
      /\ snap' \in [Workers -> Nat]
      /\ verdict' \in [Workers -> {"success", "failure", "throttled", "permanent", "terminal", None}]
      /\ age' \in [Workers -> Nat]
      /\ pc'[w] = "idle"
      /\ \A v \in Workers : v # w => pc'[v] = pc[v] /\ row'[v] = row[v] /\ snap'[v] = snap[v]
  BY FreeStep DEF IInv
<1>3. TypeOK' BY <1>1, <1>2 DEF IInv, TypeOK, Timer
<1>4. Tries' BY <1>1, <1>2 DEF IInv, Tries
<1>5. Selected' BY <1>1 DEF IInv, Selected
<1>6. Unborn' /\ TriesLeft' /\ AttemptsNumbered' /\ StatusFollowsLastAttempt'
  BY <1>1, RowsKept
<1> QED BY <1>3, <1>4, <1>5, <1>6 DEF IInv

\* A try reads its row, or finds that there is nothing to do.
LEMMA ReadRowStep ==
    ASSUME IInv, NEW w \in Workers, ReadRow(w)
    PROVE  IInv'
<1> DEFINE r == row[w]
<1>1. CASE status[r] \in Finished \cup {"gone"} /\ Free(w)
  BY <1>1, FreeKeeps DEF ReadRow, IInv, TypeOK
<1>2. CASE ~(status[r] \in Finished \cup {"gone"} /\ Free(w))
  <2>1. /\ UNCHANGED <<status, attempts, dueIn, leaseLeft, log, rule, emailKey, edits, queue, row,
                       by, age, runAge, doomed, old, requeues, crashes>>
        /\ status[r] \in Waiting
        /\ pc[w] = "read"
        /\ snap' = [snap EXCEPT ![w] = attempts[r]]
    BY <1>2 DEF ReadRow, columns, config, purge
  <2>2. r \in Rows BY <2>1 DEF IInv, Tries
  <2>3. PICK next \in {"http", "apply"}, v \in {verdict[w], "terminal"} :
            pc' = [pc EXCEPT ![w] = next] /\ verdict' = [verdict EXCEPT ![w] = v]
    BY <1>2 DEF ReadRow, IInv, TypeOK
  <2> HIDE DEF r
  <2>4. /\ snap' \in [Workers -> Nat]
        /\ snap'[w] = attempts[r]
        /\ \A v1 \in Workers : v1 # w => snap'[v1] = snap[v1]
    BY <2>1, <2>2 DEF IInv, TypeOK
  <2>5. /\ pc' \in [Workers -> {"idle", "read", "http", "apply"}]
        /\ \A v1 \in Workers : v1 # w => pc'[v1] = pc[v1]
        /\ verdict' \in [Workers -> {"success", "failure", "throttled", "permanent", "terminal", None}]
    BY <2>3 DEF IInv, TypeOK
  <2>6. TypeOK' BY <2>1, <2>4, <2>5 DEF IInv, TypeOK, Timer
  <2>7. Tries'
    <3> SUFFICES ASSUME NEW u \in Workers, pc'[u] # "idle"
                 PROVE  /\ row[u] \in Rows
                        /\ status[row[u]] # "new"
                        /\ pc'[u] \in {"http", "apply"} =>
                            /\ snap'[u] =< attempts[row[u]]
                            /\ snap'[u] = attempts[row[u]] => status[row[u]] \in Waiting \cup {"gone"}
      BY <2>1 DEF IInv, Tries
    <3>1. CASE u = w BY <3>1, <2>1, <2>2, <2>4 DEF IInv, TypeOK, Waiting, r
    <3>2. CASE u # w BY <3>2, <2>4, <2>5 DEF IInv, Tries
    <3> QED BY <3>1, <3>2
  <2>8. Selected' BY <2>1 DEF IInv, Selected
  <2>9. Unborn' /\ TriesLeft' /\ AttemptsNumbered' /\ StatusFollowsLastAttempt'
    BY <2>1, RowsKept
  <2> QED BY <2>6, <2>7, <2>8, <2>9 DEF IInv
<1> QED BY <1>1, <1>2

\* The receiver answers, or does not.
LEMMA AnswerStep ==
    ASSUME IInv, NEW w \in Workers, Answer(w)
    PROVE  IInv'
<1>1. /\ UNCHANGED <<status, attempts, dueIn, leaseLeft, log, rule, emailKey, edits, queue, row,
                     by, snap, age, runAge, doomed, old, requeues, crashes>>
      /\ pc[w] = "http"
      /\ pc' = [pc EXCEPT ![w] = "apply"]
  BY DEF Answer, columns, config, purge
<1>2. PICK v \in {"success", "failure", "throttled", "permanent"} :
        verdict' = [verdict EXCEPT ![w] = v]
  BY VerdictType DEF Answer, Outcome
<1>3. /\ pc' \in [Workers -> {"idle", "read", "http", "apply"}]
      /\ pc'[w] = "apply"
      /\ \A u \in Workers : u # w => pc'[u] = pc[u]
      /\ verdict' \in [Workers -> {"success", "failure", "throttled", "permanent", "terminal", None}]
  BY <1>1, <1>2 DEF IInv, TypeOK
<1>4. TypeOK' BY <1>1, <1>3 DEF IInv, TypeOK, Timer
<1>5. Tries' BY <1>1, <1>3 DEF IInv, Tries
<1>6. Selected' BY <1>1 DEF IInv, Selected
<1>7. Unborn' /\ TriesLeft' /\ AttemptsNumbered' /\ StatusFollowsLastAttempt'
  BY <1>1, RowsKept
<1> QED BY <1>4, <1>5, <1>6, <1>7 DEF IInv

\* A call raises: the try ends without a result.
LEMMA RaiseStep ==
    ASSUME IInv, NEW w \in Workers, Raise(w)
    PROVE  IInv'
<1>1. Abandon(w) /\ UNCHANGED <<columns, config, queue, purge, requeues, crashes>> BY DEF Raise
<1>2. Free(w) /\ runAge' \in [Runs -> Nat \cup {None}] BY <1>1, AbandonStep DEF IInv
<1> QED BY <1>1, <1>2, FreeKeeps

\* A purge selects finished rows, or a row becomes old.
LEMMA SelectStep ==
    ASSUME IInv, SelectExpired \/ \E r \in Rows : Outdate(r)
    PROVE  IInv'
<1>1. /\ UNCHANGED <<status, attempts, dueIn, leaseLeft, log, rule, emailKey, edits, queue, pc, row,
                     by, snap, verdict, age, runAge, requeues, crashes>>
      /\ old' \subseteq Rows
  BY DEF SelectExpired, Outdate, columns, config, worker, IInv, TypeOK
<1>2. doomed' = doomed \/ \A r \in doomed' : r \in old /\ status[r] \in Finished
  BY DEF SelectExpired, Outdate
<1>3. TypeOK' BY <1>1, <1>2 DEF IInv, TypeOK, Timer
<1>4. Tries' BY <1>1 DEF IInv, Tries
<1>5. Selected' BY <1>1, <1>2 DEF IInv, Selected, Finished, Waiting
<1>6. Unborn' /\ TriesLeft' /\ AttemptsNumbered' /\ StatusFollowsLastAttempt'
  BY <1>1, RowsKept
<1> QED BY <1>3, <1>4, <1>5, <1>6 DEF IInv

\* The container dies with all the tries in it.
LEMMA CrashStep ==
    ASSUME IInv, Crash
    PROVE  IInv'
<1>1. /\ UNCHANGED <<status, attempts, dueIn, leaseLeft, log, rule, old, requeues>>
      /\ edits' \in Nat /\ crashes' \in Nat
  BY DEF Crash, columns, IInv, TypeOK
<1>1a. emailKey' \in BOOLEAN
  <2>1. emailKey \in BOOLEAN BY DEF IInv, TypeOK
  <2>2. emailKey' = emailKey \/ emailKey' = FALSE BY DEF Crash
  <2> QED BY <2>1, <2>2, Zenon
<1>2. /\ queue' = {} /\ doomed' = {}
      /\ \A w \in Workers : pc'[w] = "idle"
      /\ pc' \in [Workers -> {"idle", "read", "http", "apply"}]
      /\ row' \in [Workers -> Rows \cup {None}]
      /\ by' \in [Workers -> Runs \cup {None}]
      /\ snap' \in [Workers -> Nat]
      /\ verdict' \in [Workers -> {"success", "failure", "throttled", "permanent", "terminal", None}]
      /\ age' \in [Workers -> Nat]
      /\ runAge' \in [Runs -> Nat \cup {None}]
  BY DEF Crash
<1>3. TypeOK' BY <1>1, <1>1a, <1>2 DEF IInv, TypeOK, Timer
<1>4. Tries' /\ Selected' BY <1>2 DEF Tries, Selected
<1>5. Unborn' /\ TriesLeft' /\ AttemptsNumbered' /\ StatusFollowsLastAttempt'
  BY <1>1, RowsKept
<1> QED BY <1>3, <1>4, <1>5 DEF IInv

\* Time passes: timers run down, calls and runs grow older.
LEMMA TickStep ==
    ASSUME IInv, Tick
    PROVE  IInv'
<1>1. /\ UNCHANGED <<status, attempts, log, rule, emailKey, edits, queue, pc, row, by, snap, verdict,
                     doomed, old, requeues, crashes>>
      /\ dueIn' = [r \in Rows |-> Down(dueIn[r])]
      /\ leaseLeft' = [r \in Rows |-> Down(leaseLeft[r])]
      /\ age' = [w \in Workers |-> IF pc[w] = "idle" THEN age[w] ELSE Up(age[w], Slow)]
      /\ runAge' = [k \in Runs |-> IF runAge[k] = None THEN None ELSE Up(runAge[k], RunTime)]
  BY DEF Tick, config, purge
<1>2. /\ \A r \in Rows : Down(dueIn[r]) \in Timer(MaxBackoff) /\ (Down(dueIn[r]) = None => dueIn[r] = None)
      /\ \A r \in Rows : Down(leaseLeft[r]) \in Timer(Lease)
  BY DownRange, OutboxAssumption DEF IInv, TypeOK
<1>3. /\ dueIn' \in [Rows -> Timer(MaxBackoff)] /\ leaseLeft' \in [Rows -> Timer(Lease)]
      /\ \A r \in Rows : dueIn'[r] = None => dueIn[r] = None
  BY <1>1, <1>2
<1>4. age' \in [Workers -> Nat]
  BY <1>1 DEF IInv, TypeOK, Up
<1>5. runAge' \in [Runs -> Nat \cup {None}]
  BY <1>1 DEF IInv, TypeOK, Up
<1>6. TypeOK' BY <1>1, <1>3, <1>4, <1>5 DEF IInv, TypeOK, Timer
<1>7. Tries' BY <1>1 DEF IInv, Tries
<1>8. Selected' BY <1>1 DEF IInv, Selected
<1>9. Unborn' /\ TriesLeft' /\ AttemptsNumbered' /\ StatusFollowsLastAttempt'
  BY <1>1, <1>3, RowsKept
<1> QED BY <1>6, <1>7, <1>8, <1>9 DEF IInv

\* Rows are deleted with their attempts.
LEMMA DeleteKeeps ==
    ASSUME IInv, NEW S \in SUBSET Rows, Delete(S),
           UNCHANGED <<attempts, dueIn, leaseLeft, queue, worker, runAge, old, requeues, crashes>>,
           doomed' \in {doomed, {}},
           rule' \in {"enabled", "disabled", "deleted"}, emailKey' \in BOOLEAN, edits' \in Nat
    PROVE  IInv'
<1>1. UNCHANGED <<pc, row, by, snap, verdict, age>> BY DEF worker
<1>2. /\ status' \in [Rows -> Stored \cup {"new", "gone"}]
      /\ \A r \in Rows : status'[r] = status[r] \/ (status[r] # "new" /\ status'[r] = "gone")
      /\ \A r \in Rows : r \in S => status'[r] \in {"new", "gone"}
  BY DEF Delete, IInv, TypeOK
<1>3. /\ log' \in [Rows -> Seq([sent : Nat, ok : BOOLEAN, final : BOOLEAN])]
      /\ \A r \in Rows : log'[r] = log[r] \/ (r \in S /\ log'[r] = <<>>)
  BY DEF Delete, IInv, TypeOK
<1>4. TypeOK' BY <1>1, <1>2, <1>3 DEF IInv, TypeOK, Timer
<1>5. Tries'
  <2>1. \A r \in queue' : status'[r] # "new" BY <1>2 DEF IInv, Tries, TypeOK
  <2>2. ASSUME NEW w \in Workers, pc'[w] # "idle"
        PROVE  /\ row'[w] \in Rows
               /\ status'[row'[w]] # "new"
               /\ pc'[w] \in {"http", "apply"} =>
                   /\ snap'[w] =< attempts'[row'[w]]
                   /\ snap'[w] = attempts'[row'[w]] => status'[row'[w]] \in Waiting \cup {"gone"}
    BY <2>2, <1>1, <1>2 DEF IInv, Tries
  <2> QED BY <2>1, <2>2 DEF Tries
<1>6. Unborn' BY <1>2, <1>3 DEF IInv, Unborn
<1>7. TriesLeft' BY <1>2 DEF IInv, TriesLeft, Waiting
<1>8. Selected' BY <1>2 DEF IInv, Selected, TypeOK, Waiting
<1>9. AttemptsNumbered'
  <2> SUFFICES ASSUME NEW r \in Rows, status'[r] \in Stored
               PROVE  /\ Len(log'[r]) = attempts[r]
                      /\ \A n \in DOMAIN log'[r] : log'[r][n].sent = n
    BY DEF AttemptsNumbered
  <2>1. status'[r] = status[r] /\ r \notin S BY <1>2 DEF Stored, Finished, Waiting
  <2> QED BY <2>1, <1>3 DEF IInv, AttemptsNumbered
<1>10. StatusFollowsLastAttempt'
  <2>1. \A r \in Rows : status'[r] \in Stored => status'[r] = status[r] /\ log'[r] = log[r]
    BY <1>2, <1>3 DEF Stored, Finished, Waiting
  <2> QED BY <2>1 DEF IInv, StatusFollowsLastAttempt, Stored, Finished, Waiting
<1> QED BY <1>4, <1>5, <1>6, <1>7, <1>8, <1>9, <1>10 DEF IInv

\* Changes of the rule; its deletion takes the webhook rows with it.
LEMMA SetRuleStep ==
    ASSUME IInv, NEW to \in {"enabled", "disabled", "deleted"}, SetRule(to)
    PROVE  IInv'
<1>1. /\ UNCHANGED <<attempts, dueIn, leaseLeft, emailKey, queue, worker, runAge, doomed, old,
                     requeues, crashes>>
      /\ rule' = to /\ edits' \in Nat
  BY DEF SetRule, purge, IInv, TypeOK
<1>2. emailKey' \in BOOLEAN BY <1>1 DEF IInv, TypeOK
<1>3. CASE to = "deleted"
  <2>1. Delete(Rows \ Emails) BY <1>3 DEF SetRule
  <2>2. Rows \ Emails \in SUBSET Rows OBVIOUS
  <2> QED BY <1>1, <1>2, <2>1, <2>2, DeleteKeeps
<1>4. CASE to # "deleted"
  <2>1. status' = status /\ log' = log BY <1>4 DEF SetRule
  <2>2. UNCHANGED <<pc, row, by, snap, verdict, age>> BY <1>1 DEF worker
  <2>3. TypeOK' BY <1>1, <1>2, <2>1, <2>2 DEF IInv, TypeOK, Timer
  <2>4. Tries' BY <1>1, <2>1, <2>2 DEF IInv, Tries
  <2>5. Selected' BY <1>1, <2>1 DEF IInv, Selected
  <2>6. Unborn' /\ TriesLeft' /\ AttemptsNumbered' /\ StatusFollowsLastAttempt'
    BY <1>1, <2>1, RowsKept
  <2> QED BY <2>3, <2>4, <2>5, <2>6 DEF IInv
<1> QED BY <1>3, <1>4

\* A purge deletes what it selected, whatever has become of it.
LEMMA DeleteExpiredStep ==
    ASSUME IInv, DeleteExpired
    PROVE  IInv'
<1>1. /\ doomed' = {} /\ Delete(doomed) /\ doomed \in SUBSET Rows
      /\ UNCHANGED <<attempts, dueIn, leaseLeft, rule, emailKey, edits, queue, worker, runAge, old,
                     requeues, crashes>>
  BY DEF DeleteExpired, config, IInv, TypeOK
<1>2. rule' \in {"enabled", "disabled", "deleted"} /\ emailKey' \in BOOLEAN /\ edits' \in Nat
  BY <1>1 DEF IInv, TypeOK
<1> QED BY <1>1, <1>2, DeleteKeeps

\* Staff queue a row again, whatever its status.
LEMMA RequeueStep ==
    ASSUME IInv, NEW r \in Rows, Requeue(r)
    PROVE  IInv'
<1>1. /\ status[r] \in Stored
      /\ requeues[r] < MaxRequeues
      /\ requeues' = [requeues EXCEPT ![r] = @ + 1]
      /\ status' = [status EXCEPT ![r] = "pending"]
      /\ dueIn' = [dueIn EXCEPT ![r] = None]
      /\ leaseLeft' = [leaseLeft EXCEPT ![r] = None]
      /\ UNCHANGED <<attempts, log, rule, emailKey, edits, queue, pc, row, by, snap, verdict, age,
                     runAge, doomed, old, crashes>>
  BY DEF Requeue, config, worker, purge
<1>2. /\ status' \in [Rows -> Stored \cup {"new", "gone"}]
      /\ status'[r] = "pending"
      /\ \A s \in Rows : s # r => status'[s] = status[s]
  BY <1>1 DEF IInv, TypeOK, Stored, Waiting
<1>3. /\ requeues' \in [Rows -> Nat]
      /\ requeues'[r] = requeues[r] + 1
      /\ \A s \in Rows : s # r => requeues'[s] = requeues[s]
  BY <1>1 DEF IInv, TypeOK
<1>4. /\ dueIn' \in [Rows -> Timer(MaxBackoff)] /\ leaseLeft' \in [Rows -> Timer(Lease)]
      /\ \A s \in Rows : s # r => dueIn'[s] = dueIn[s]
  BY <1>1 DEF IInv, TypeOK, Timer
<1>5. TypeOK' BY <1>1, <1>2, <1>3, <1>4 DEF IInv, TypeOK, Timer
<1>6. status[r] # "new" BY <1>1 DEF Stored, Finished, Waiting
<1>7. requeues[r] \in Nat /\ attempts[r] \in Nat BY DEF IInv, TypeOK
<1>8. attempts[r] =< MaxAttempts + requeues[r]
  BY DEF IInv, StatusFollowsLastAttempt
<1>9. Tries'
  <2>1. \A s \in queue' : status'[s] # "new" BY <1>1, <1>2 DEF IInv, Tries, TypeOK
  <2>2. ASSUME NEW w \in Workers, pc'[w] # "idle"
        PROVE  /\ row'[w] \in Rows
               /\ status'[row'[w]] # "new"
               /\ pc'[w] \in {"http", "apply"} =>
                   /\ snap'[w] =< attempts'[row'[w]]
                   /\ snap'[w] = attempts'[row'[w]] => status'[row'[w]] \in Waiting \cup {"gone"}
    BY <2>2, <1>1, <1>2 DEF IInv, Tries, Waiting
  <2> QED BY <2>1, <2>2 DEF Tries
<1>10. Unborn' BY <1>1, <1>2, <1>3 DEF IInv, Unborn
<1>11. TriesLeft'
  <2> SUFFICES ASSUME NEW s \in Rows
               PROVE  /\ requeues'[s] =< MaxRequeues
                      /\ status'[s] \in Waiting => attempts[s] < MaxAttempts + requeues'[s]
    BY <1>1 DEF TriesLeft
  <2>1. CASE s = r BY <2>1, <1>1, <1>3, <1>7, <1>8, OutboxAssumption
  <2>2. CASE s # r BY <2>2, <1>2, <1>3 DEF IInv, TriesLeft
  <2> QED BY <2>1, <2>2
<1>12. Selected'
  <2> SUFFICES ASSUME NEW s \in doomed
               PROVE  status'[s] # "new" /\ (status'[s] \in Waiting => requeues'[s] > 0)
    BY <1>1 DEF Selected
  <2>1. s \in Rows BY DEF IInv, TypeOK
  <2>2. CASE s = r BY <2>2, <1>2, <1>3, <1>7
  <2>3. CASE s # r BY <2>1, <2>3, <1>2, <1>3 DEF IInv, Selected
  <2> QED BY <2>2, <2>3
<1>13. AttemptsNumbered' BY <1>1, <1>2 DEF IInv, AttemptsNumbered
<1>14. StatusFollowsLastAttempt'
  <2> SUFFICES ASSUME NEW s \in Rows
               PROVE  LET last == log[s][attempts[s]]
                      IN  /\ status'[s] = "delivered" => attempts[s] > 0 /\ last.ok
                          /\ status'[s] = "failed" =>
                              /\ attempts[s] \in 1..(MaxAttempts - 1) /\ ~last.ok /\ ~last.final
                              /\ dueIn'[s] # None
                          /\ status'[s] = "dead" =>
                              attempts[s] > 0 /\ ~last.ok /\ (last.final \/ attempts[s] >= MaxAttempts)
                          /\ status'[s] = "pending" /\ requeues'[s] = 0 => attempts[s] = 0
                          /\ attempts[s] <= MaxAttempts + requeues'[s]
    BY <1>1 DEF StatusFollowsLastAttempt
  <2>1. CASE s = r BY <2>1, <1>2, <1>3, <1>7, <1>8, OutboxAssumption
  <2>2. CASE s # r BY <2>2, <1>2, <1>3, <1>4 DEF IInv, StatusFollowsLastAttempt
  <2> QED BY <2>1, <2>2
<1> QED BY <1>5, <1>9, <1>10, <1>11, <1>12, <1>13, <1>14 DEF IInv

\* The try whose result is stored is of a row that waits for it.
LEMMA StoredWaiting ==
    ASSUME IInv, NEW w \in Workers, pc[w] = "apply", status[row[w]] \in Stored, StillCurrent(w)
    PROVE  row[w] \in Rows /\ status[row[w]] \in Waiting
BY DEF IInv, Tries, StillCurrent, Stored, Finished, Waiting

\* What a stored result makes of its row.
LEMMA ApplyEffect ==
    ASSUME IInv, NEW w \in Workers, pc[w] = "apply", status[row[w]] \in Stored, StillCurrent(w),
           apply_delivery_result(w)
    PROVE  LET r == row[w]
               n == attempts[r] + 1
           IN  /\ n \in 1..(MaxAttempts + requeues[r])
               /\ attempts' \in [Rows -> Nat] /\ attempts'[r] = n
               /\ status' \in [Rows -> Stored \cup {"new", "gone"}]
               /\ status'[r] \in {"delivered", "dead", "failed"}
               /\ log'[r] \in Seq([sent : Nat, ok : BOOLEAN, final : BOOLEAN])
               /\ Len(log'[r]) = n /\ DOMAIN log'[r] = 1..n
               /\ \A i \in 1..n : log'[r][i].sent = i
               /\ log'[r][n].ok <=> status'[r] = "delivered"
               /\ status'[r] = "failed" =>
                    /\ ~log'[r][n].final /\ n < MaxAttempts
                    /\ dueIn'[r] \in 1..MaxBackoff /\ dueIn'[r] >= FirstBackoff
               /\ status'[r] = "dead" => log'[r][n].final \/ n >= MaxAttempts
               /\ dueIn' \in [Rows -> Timer(MaxBackoff)]
               /\ leaseLeft' \in [Rows -> Timer(Lease)]
               /\ log' \in [Rows -> Seq([sent : Nat, ok : BOOLEAN, final : BOOLEAN])]
               /\ \A s \in Rows : s # r =>
                    /\ status'[s] = status[s] /\ attempts'[s] = attempts[s]
                    /\ log'[s] = log[s] /\ dueIn'[s] = dueIn[s] /\ leaseLeft'[s] = leaseLeft[s]
<1> DEFINE r == row[w]
           v == verdict[w]
           n == attempts[r] + 1
           dead == v \in Final \/ Exhausted(n)
           entry == [sent |-> snap[w] + 1, ok |-> v = "success", final |-> v \in Final]
           to == IF v = "success" THEN "delivered" ELSE IF dead THEN "dead" ELSE "failed"
<1>1. r \in Rows /\ status[r] \in Waiting BY StoredWaiting
<1>2. /\ attempts' = [attempts EXCEPT ![r] = n]
      /\ log' = [log EXCEPT ![r] = Append(@, entry)]
      /\ leaseLeft' = [leaseLeft EXCEPT ![r] = None]
      /\ status' = [status EXCEPT ![r] = to]
      /\ IF v = "success" \/ dead
         THEN dueIn' = [dueIn EXCEPT ![r] = None]
         ELSE \E d \in compute_retry_delay_seconds(n, v) : dueIn' = [dueIn EXCEPT ![r] = d]
  BY DEF apply_delivery_result
<1>3. /\ attempts[r] \in Nat /\ requeues[r] \in Nat /\ requeues[r] =< MaxRequeues
      /\ attempts[r] < MaxAttempts + requeues[r] /\ MaxAttempts \in Nat /\ MaxRequeues \in Nat
  BY <1>1, OutboxAssumption DEF IInv, TypeOK, TriesLeft
<1>4. n \in 1..(MaxAttempts + requeues[r]) /\ n \in 1..(MaxAttempts + MaxRequeues + 1)
  BY <1>3
<1>5. /\ entry \in [sent : Nat, ok : BOOLEAN, final : BOOLEAN]
      /\ entry.sent = n /\ (entry.ok <=> v = "success") /\ (entry.final <=> v \in Final)
  <2>1. snap[w] + 1 = n /\ snap[w] + 1 \in Nat BY <1>1, <1>3 DEF StillCurrent
  <2>2. entry.sent = snap[w] + 1 /\ entry.ok = (v = "success") /\ entry.final = (v \in Final)
    BY Zenon
  <2>3. (v = "success") \in BOOLEAN /\ (v \in Final) \in BOOLEAN OBVIOUS
  <2>4. entry \in [sent : Nat, ok : BOOLEAN, final : BOOLEAN] BY <2>1, <2>3, Zenon
  <2> HIDE DEF entry
  <2> QED BY <2>1, <2>2, <2>4, Zenon
<1> HIDE DEF entry
<1>6. log[r] \in Seq([sent : Nat, ok : BOOLEAN, final : BOOLEAN]) BY <1>1 DEF IInv, TypeOK
<1>7. Len(log[r]) = attempts[r] /\ \A i \in 1..Len(log[r]) : log[r][i].sent = i
  BY <1>1, <1>6 DEF IInv, AttemptsNumbered, Stored
<1>8. log'[r] = Append(log[r], entry) BY <1>1, <1>2 DEF IInv, TypeOK
<1>9. /\ log'[r] \in Seq([sent : Nat, ok : BOOLEAN, final : BOOLEAN])
      /\ Len(log'[r]) = n /\ DOMAIN log'[r] = 1..n
      /\ log'[r][n] = entry
      /\ \A i \in 1..Len(log[r]) : log'[r][i] = log[r][i]
  BY <1>3, <1>5, <1>6, <1>7, <1>8
<1>10. \A i \in 1..n : log'[r][i].sent = i
  <2> TAKE i \in 1..n
  <2>1. CASE i = n BY <2>1, <1>5, <1>9
  <2>2. CASE i # n
    <3>1. i \in 1..Len(log[r]) BY <2>2, <1>3, <1>7
    <3> QED BY <3>1, <1>7, <1>9
  <2> QED BY <2>1, <2>2
<1>11. /\ log' \in [Rows -> Seq([sent : Nat, ok : BOOLEAN, final : BOOLEAN])]
       /\ \A s \in Rows : s # r => log'[s] = log[s]
  BY <1>1, <1>2, <1>8, <1>9 DEF IInv, TypeOK
<1>12. /\ attempts' \in [Rows -> Nat] /\ attempts'[r] = n
       /\ \A s \in Rows : s # r => attempts'[s] = attempts[s]
  BY <1>1, <1>2, <1>3 DEF IInv, TypeOK
<1>13. to \in {"delivered", "dead", "failed"} OBVIOUS
<1>14. /\ status' \in [Rows -> Stored \cup {"new", "gone"}] /\ status'[r] = to
       /\ \A s \in Rows : s # r => status'[s] = status[s]
  BY <1>1, <1>2, <1>13 DEF IInv, TypeOK, Stored, Finished, Waiting
<1>15. /\ leaseLeft' \in [Rows -> Timer(Lease)]
       /\ \A s \in Rows : s # r => leaseLeft'[s] = leaseLeft[s]
  BY <1>1, <1>2 DEF IInv, TypeOK, Timer
<1>16. PICK d \in Timer(MaxBackoff) :
          /\ dueIn' = [dueIn EXCEPT ![r] = d]
          /\ to = "failed" => d \in 1..MaxBackoff /\ d >= FirstBackoff
  <2>1. CASE v = "success" \/ dead
    <3>1. dueIn' = [dueIn EXCEPT ![r] = None] /\ None \in Timer(MaxBackoff) /\ to # "failed"
      BY <2>1, <1>2 DEF Timer
    <3> QED BY <3>1
  <2>2. CASE ~(v = "success" \/ dead)
    <3>1. PICK d \in compute_retry_delay_seconds(n, v) : dueIn' = [dueIn EXCEPT ![r] = d]
      BY <2>2, <1>2
    <3>2. d \in 1..MaxBackoff /\ d >= FirstBackoff BY <1>4, DelayRange
    <3>3. d \in Timer(MaxBackoff) BY <3>2, OutboxAssumption DEF Timer
    <3> QED BY <3>1, <3>2, <3>3
  <2> QED BY <2>1, <2>2
<1>17. /\ dueIn' \in [Rows -> Timer(MaxBackoff)] /\ dueIn'[r] = d
       /\ \A s \in Rows : s # r => dueIn'[s] = dueIn[s]
  BY <1>1, <1>16 DEF IInv, TypeOK
<1>18. /\ to = "delivered" <=> v = "success"
       /\ to = "failed" => v \notin Final /\ n < MaxAttempts
       /\ to = "dead" => v \in Final \/ n >= MaxAttempts
  BY <1>3 DEF Exhausted
<1> HIDE DEF to, dead, v
<1> QED BY <1>4, <1>5, <1>9, <1>10, <1>11, <1>12, <1>13, <1>14, <1>15, <1>16, <1>17, <1>18

\* A result is stored if no other was stored since the try read the row.
LEMMA StoreResultStep ==
    ASSUME IInv, NEW w \in Workers, StoreResult(w)
    PROVE  IInv'
<1> DEFINE r == row[w]
           n == attempts[r] + 1
<1>1. /\ pc[w] = "apply" /\ Free(w)
      /\ UNCHANGED <<config, queue, purge, requeues, crashes>>
  BY DEF StoreResult, Abandon
<1>2. CASE status[r] = "gone"
  <2>1. UNCHANGED columns /\ Abandon(w)
    BY <1>2 DEF StoreResult, Stored, Finished, Waiting
  <2>2. runAge' \in [Runs -> Nat \cup {None}] BY <2>1, AbandonStep DEF IInv
  <2> QED BY <1>1, <2>1, <2>2, FreeKeeps
<1>3. CASE status[r] \in Stored /\ ~StillCurrent(w)
  <2>1. UNCHANGED <<columns, runAge>>
    BY <1>3 DEF StoreResult, Stored, Finished, Waiting
  <2>2. runAge' \in [Runs -> Nat \cup {None}] BY <2>1 DEF IInv, TypeOK
  <2> QED BY <1>1, <2>1, <2>2, FreeKeeps
<1>4. CASE status[r] \in Stored /\ StillCurrent(w)
  <2>1. apply_delivery_result(w) /\ runAge' = runAge
    BY <1>4 DEF StoreResult, Stored, Finished, Waiting
  <2>2. UNCHANGED <<rule, emailKey, edits, queue, doomed, old, requeues, crashes>>
    BY <1>1 DEF config, purge
  <2>3. r \in Rows /\ status[r] \in Waiting BY <1>1, <1>4, StoredWaiting
  <2>4. /\ n \in 1..(MaxAttempts + requeues[r])
        /\ attempts' \in [Rows -> Nat] /\ attempts'[r] = n
        /\ status' \in [Rows -> Stored \cup {"new", "gone"}]
        /\ status'[r] \in {"delivered", "dead", "failed"}
        /\ Len(log'[r]) = n /\ DOMAIN log'[r] = 1..n
        /\ \A i \in 1..n : log'[r][i].sent = i
        /\ log'[r][n].ok <=> status'[r] = "delivered"
        /\ status'[r] = "failed" =>
             ~log'[r][n].final /\ n < MaxAttempts /\ dueIn'[r] \in 1..MaxBackoff
        /\ status'[r] = "dead" => log'[r][n].final \/ n >= MaxAttempts
        /\ dueIn' \in [Rows -> Timer(MaxBackoff)]
        /\ leaseLeft' \in [Rows -> Timer(Lease)]
        /\ log' \in [Rows -> Seq([sent : Nat, ok : BOOLEAN, final : BOOLEAN])]
        /\ \A s \in Rows : s # r =>
             /\ status'[s] = status[s] /\ attempts'[s] = attempts[s]
             /\ log'[s] = log[s] /\ dueIn'[s] = dueIn[s]
    BY <1>1, <1>4, <2>1, ApplyEffect
  <2>5. /\ pc' \in [Workers -> {"idle", "read", "http", "apply"}]
        /\ row' \in [Workers -> Rows \cup {None}]
        /\ by' \in [Workers -> Runs \cup {None}]
        /\ snap' \in [Workers -> Nat]
        /\ verdict' \in [Workers -> {"success", "failure", "throttled", "permanent", "terminal", None}]
        /\ age' \in [Workers -> Nat]
        /\ pc'[w] = "idle"
        /\ \A v \in Workers : v # w => pc'[v] = pc[v] /\ row'[v] = row[v] /\ snap'[v] = snap[v]
    BY <1>1, FreeStep DEF IInv
  <2>6. TypeOK' BY <2>1, <2>2, <2>4, <2>5 DEF IInv, TypeOK, Timer
  <2>7. status[r] # "new" /\ attempts[r] \in Nat /\ requeues[r] \in Nat
    BY <2>3 DEF Waiting, IInv, TypeOK
  <2> HIDE DEF r
  <2>8. Tries'
    <3>1. \A s \in queue' : status'[s] # "new"
      BY <2>2, <2>4 DEF IInv, Tries, TypeOK
    <3>2. ASSUME NEW u \in Workers, pc'[u] # "idle"
          PROVE  /\ row'[u] \in Rows
                 /\ status'[row'[u]] # "new"
                 /\ pc'[u] \in {"http", "apply"} =>
                     /\ snap'[u] =< attempts'[row'[u]]
                     /\ snap'[u] = attempts'[row'[u]] => status'[row'[u]] \in Waiting \cup {"gone"}
      <4>1. /\ u # w /\ pc'[u] = pc[u] /\ row'[u] = row[u] /\ snap'[u] = snap[u]
            /\ snap[u] \in Nat
        BY <3>2, <2>5 DEF IInv, TypeOK
      <4>2. CASE row[u] = r BY <4>1, <4>2, <3>2, <2>3, <2>4, <2>7 DEF IInv, Tries
      <4>3. CASE row[u] # r
        <5>1. row[u] \in Rows BY <4>1, <3>2 DEF IInv, Tries
        <5>2. status'[row[u]] = status[row[u]] /\ attempts'[row[u]] = attempts[row[u]]
          BY <5>1, <4>3, <2>4
        <5> QED BY <4>1, <5>2, <3>2 DEF IInv, Tries
      <4> QED BY <4>2, <4>3
    <3> QED BY <3>1, <3>2 DEF Tries
  <2>9. Unborn' BY <2>2, <2>4 DEF IInv, Unborn
  <2>10. TriesLeft'
    <3> SUFFICES ASSUME NEW s \in Rows
                 PROVE  /\ requeues[s] =< MaxRequeues
                        /\ status'[s] \in Waiting => attempts'[s] < MaxAttempts + requeues[s]
      BY <2>2 DEF TriesLeft
    <3>1. CASE s = r
      BY <3>1, <2>4, <2>7, OutboxAssumption DEF IInv, TriesLeft, Waiting
    <3>2. CASE s # r BY <3>2, <2>4 DEF IInv, TriesLeft
    <3> QED BY <3>1, <3>2
  <2>11. Selected'
    <3> SUFFICES ASSUME NEW s \in doomed
                 PROVE  status'[s] # "new" /\ (status'[s] \in Waiting => requeues[s] > 0)
      BY <2>2 DEF Selected
    <3>1. s \in Rows BY DEF IInv, TypeOK
    <3>2. CASE s = r BY <3>2, <2>3, <2>4 DEF IInv, Selected
    <3>3. CASE s # r BY <3>1, <3>3, <2>4 DEF IInv, Selected
    <3> QED BY <3>2, <3>3
  <2>12. AttemptsNumbered'
    <3> SUFFICES ASSUME NEW s \in Rows, status'[s] \in Stored
                 PROVE  /\ Len(log'[s]) = attempts'[s]
                        /\ \A i \in DOMAIN log'[s] : log'[s][i].sent = i
      BY DEF AttemptsNumbered
    <3>1. CASE s = r BY <3>1, <2>4
    <3>2. CASE s # r BY <3>2, <2>4 DEF IInv, AttemptsNumbered
    <3> QED BY <3>1, <3>2
  <2>13. StatusFollowsLastAttempt'
    <3> SUFFICES ASSUME NEW s \in Rows
                 PROVE  LET last == log'[s][attempts'[s]]
                        IN  /\ status'[s] = "delivered" => attempts'[s] > 0 /\ last.ok
                            /\ status'[s] = "failed" =>
                                /\ attempts'[s] \in 1..(MaxAttempts - 1) /\ ~last.ok /\ ~last.final
                                /\ dueIn'[s] # None
                            /\ status'[s] = "dead" =>
                                attempts'[s] > 0 /\ ~last.ok /\ (last.final \/ attempts'[s] >= MaxAttempts)
                            /\ status'[s] = "pending" /\ requeues[s] = 0 => attempts'[s] = 0
                            /\ attempts'[s] <= MaxAttempts + requeues[s]
      BY <2>2 DEF StatusFollowsLastAttempt
    <3>1. CASE s = r
      <4>1. status'[r] = "failed" => dueIn'[r] # None BY <2>4, OutboxAssumption
      <4>2. /\ n > 0 /\ n =< MaxAttempts + requeues[r]
            /\ n < MaxAttempts => n \in 1..(MaxAttempts - 1)
        BY <2>4, <2>7, OutboxAssumption
      <4> HIDE DEF n
      <4> QED BY <3>1, <4>1, <4>2, <2>4
    <3>2. CASE s # r BY <3>2, <2>4 DEF IInv, StatusFollowsLastAttempt
    <3> QED BY <3>1, <3>2
  <2> QED BY <2>6, <2>8, <2>9, <2>10, <2>11, <2>12, <2>13 DEF IInv
<1> QED BY <1>2, <1>3, <1>4 DEF StoreResult

(***************************************************************************)
(* Theorems                                                                *)
(***************************************************************************)

\* Nothing is stored and nothing is being tried.
LEMMA InitInv == Init => IInv
<1> SUFFICES ASSUME Init PROVE IInv OBVIOUS
<1>1. TypeOK BY DEF Init, TypeOK, Timer
<1>2. Tries /\ Selected BY DEF Init, Tries, Selected
<1>3. Unborn BY DEF Init, Unborn
<1>4. TriesLeft /\ AttemptsNumbered
  BY OutboxAssumption DEF Init, TriesLeft, AttemptsNumbered, Stored, Finished, Waiting
<1>5. StatusFollowsLastAttempt BY OutboxAssumption DEF Init, StatusFollowsLastAttempt
<1> QED BY <1>1, <1>2, <1>3, <1>4, <1>5 DEF IInv

\* No step at all.
LEMMA StutterInv == IInv /\ UNCHANGED vars => IInv'
<1> SUFFICES ASSUME IInv, UNCHANGED vars PROVE IInv' OBVIOUS
<1>1. UNCHANGED <<status, attempts, dueIn, leaseLeft, log, rule, emailKey, edits, queue, pc, row, by,
                  snap, verdict, age, runAge, doomed, old, requeues, crashes>>
  BY DEF vars, columns, config, worker, purge
<1>2. TypeOK' BY <1>1 DEF IInv, TypeOK, Timer
<1>3. Tries' BY <1>1 DEF IInv, Tries
<1>4. Selected' BY <1>1 DEF IInv, Selected
<1>5. Unborn' /\ TriesLeft' /\ AttemptsNumbered' /\ StatusFollowsLastAttempt'
  BY <1>1, RowsKept
<1> QED BY <1>2, <1>3, <1>4, <1>5 DEF IInv

\* One lemma per action adds up to the step relation.
LEMMA StepInv == IInv /\ [Next]_vars => IInv'
<1> SUFFICES ASSUME IInv, [Next]_vars PROVE IInv' OBVIOUS
<1>1. ASSUME NEW r \in Rows, emit_event(r) \/ Requeue(r) \/ Outdate(r) PROVE IInv'
  BY <1>1, EmitStep, RequeueStep, SelectStep
<1>2. ASSUME NEW w \in Workers, Work(w) PROVE IInv'
  BY <1>2, DispatchStep, ReadRowStep, AnswerStep, RaiseStep, StoreResultStep DEF Work
<1>3. ASSUME NEW k \in Runs, Retry(k) PROVE IInv'
  BY <1>3, RunStep, ClaimStep DEF Retry
<1> QED BY <1>1, <1>2, <1>3, SetRuleStep, SelectStep, DeleteExpiredStep, CrashStep, TickStep,
           StutterInv DEF Next

\* The invariant holds throughout every behaviour of the outbox.
THEOREM Invariance == Spec => []IInv
BY InitInv, StepInv, PTL DEF Spec

\* The columns, timers, attempts, threads and runs keep their types; the
\* backoff and Retry-After never exceed MAX_BACKOFF_SECONDS.
THEOREM TypeCorrect == Spec => []TypeOK
<1>1. IInv => TypeOK BY DEF IInv
<1> QED BY <1>1, Invariance, PTL

\* The n-th stored attempt is the one whose try said it was the n-th, however
\* many threads and retry runs try one row at once (deliver_outbox_row).
THEOREM NumberedOnce == Spec => []AttemptsNumbered
<1>1. IInv => AttemptsNumbered BY DEF IInv
<1> QED BY <1>1, Invariance, PTL

\* The status is what the last stored attempt left, and attempts stay within
\* ACTIONS_OUTBOX_MAX_ATTEMPTS and the requeues (_apply_delivery_result).
THEOREM StatusTruthful == Spec => []StatusFollowsLastAttempt
<1>1. IInv => StatusFollowsLastAttempt BY DEF IInv
<1> QED BY <1>1, Invariance, PTL

\* A purge deletes a row that waits for a try only if staff requeued it
\* (_delete_in_batches).
THEOREM PurgeSpares == Spec => PurgeOnlyFinished
<1> DEFINE A == DeleteExpired => \A r \in doomed : status[r] \in Waiting => requeues[r] > 0
<1>1. IInv => [A]_vars BY DEF IInv, Selected
<1> QED BY <1>1, Invariance, PTL DEF PurgeOnlyFinished

\* No late result changes the status of a delivered or dead row: only a
\* requeue reopens it, only a deletion removes it.
THEOREM FinishedFinal == Spec => FinishedStays
<1> DEFINE A == \A r \in Rows :
                    status[r] \in Finished /\ status'[r] # status[r] =>
                        status'[r] = "gone" \/ Requeue(r)
<1>1. IInv /\ [Next]_vars => [A]_vars
  <2> SUFFICES ASSUME IInv, [Next]_vars, NEW r \in Rows, status[r] \in Finished,
                      status'[r] # status[r]
               PROVE  status'[r] = "gone" \/ Requeue(r)
    OBVIOUS
  <2>1. ASSUME NEW s \in Rows, emit_event(s) PROVE FALSE
    BY <2>1 DEF emit_event, Finished, IInv, TypeOK
  <2>2. ASSUME NEW s \in Rows, Requeue(s) PROVE Requeue(r)
    BY <2>2 DEF Requeue, IInv, TypeOK
  <2>3. ASSUME NEW w \in Workers, StoreResult(w) PROVE FALSE
    <3>1. CASE status[row[w]] \in Stored /\ StillCurrent(w) /\ apply_delivery_result(w)
      <4>1. row[w] \in Rows /\ status[row[w]] \in Waiting
        BY <2>3, <3>1, StoredWaiting DEF StoreResult
      <4>2. r # row[w] BY <4>1 DEF Finished, Waiting
      <4> QED BY <3>1, <4>2 DEF apply_delivery_result, IInv, TypeOK
    <3>2. CASE UNCHANGED columns BY <3>2 DEF columns
    <3> QED BY <2>3, <3>1, <3>2 DEF StoreResult, columns
  <2>4. ASSUME NEW S \in SUBSET Rows, Delete(S) PROVE status'[r] = "gone"
    BY <2>4 DEF Delete
  <2>5. ASSUME NEW to \in {"enabled", "disabled", "deleted"}, SetRule(to) PROVE status'[r] = "gone"
    <3>1. CASE to = "deleted"
      <4>1. Delete(Rows \ Emails) BY <2>5, <3>1 DEF SetRule
      <4>2. Rows \ Emails \in SUBSET Rows OBVIOUS
      <4> QED BY <4>1, <4>2, <2>4
    <3>2. CASE to # "deleted" BY <2>5, <3>2 DEF SetRule
    <3> QED BY <3>1, <3>2
  <2>6. DeleteExpired => status'[r] = "gone"
    BY <2>4 DEF DeleteExpired, IInv, TypeOK
  <2>7. ASSUME NEW w \in Workers, Dispatch(w) \/ ReadRow(w) \/ Answer(w) \/ Raise(w) PROVE FALSE
    BY <2>7 DEF Dispatch, ReadRow, Answer, Raise, columns
  <2>8. ASSUME NEW k \in Runs, Retry(k) PROVE FALSE
    BY <2>8 DEF Retry, StartRun, EndRun, claim_next_pending_outbox, columns
  <2>9. ASSUME NEW s \in Rows, Outdate(s) PROVE FALSE BY <2>9 DEF Outdate, columns
  <2>10. ASSUME SelectExpired \/ Crash \/ Tick \/ UNCHANGED vars PROVE FALSE
    BY <2>10 DEF SelectExpired, Crash, Tick, vars, columns
  <2> QED BY <2>1, <2>2, <2>3, <2>5, <2>6, <2>7, <2>8, <2>9, <2>10 DEF Next, Work
<1> QED BY <1>1, Invariance, PTL DEF Spec, FinishedStays

(***************************************************************************)
(* Leases                                                                  *)
(***************************************************************************)

\* Worker u is on a try of a retry run.
Retrying(u) == pc[u] # "idle" /\ by[u] # None

\* A try is slow after a number of ticks.
LEMMA SlowType == Slow \in Int /\ Slow =< Lease - RunTime + 1 /\ Slow =< FirstBackoff
BY OutboxAssumption DEF Slow, FirstBackoff, Smaller

\* A shield lasts while the timers stand and the try goes on.
LEMMA ShieldKept ==
    ASSUME TypeOK, TypeOK', NEW u \in Workers, row[u] \in Rows, row'[u] = row[u], Shielded(u),
           leaseLeft'[row[u]] = leaseLeft[row[u]], dueIn'[row[u]] = dueIn[row[u]],
           age'[u] >= age[u]
    PROVE  Shielded(u)'
<1> DEFINE r == row[u]
<1>1. age[u] \in Nat /\ age'[u] \in Nat BY DEF TypeOK
<1>2. /\ leaseLeft[r] # None => leaseLeft[r] \in Int
      /\ dueIn[r] # None => dueIn[r] \in Int
  BY DEF TypeOK, Timer
<1>3. FirstBackoff \in Int BY OutboxAssumption DEF FirstBackoff, Smaller
<1>4. CASE leaseLeft[r] # None /\ leaseLeft[r] >= Lease - RunTime + 1 - age[u]
  BY <1>1, <1>2, <1>4, OutboxAssumption DEF Shielded
<1>5. CASE dueIn[r] # None /\ dueIn[r] >= FirstBackoff - age[u]
  BY <1>1, <1>2, <1>3, <1>5, OutboxAssumption DEF Shielded
<1> QED BY <1>4, <1>5 DEF Shielded

\* A row whose try is shielded and not slow is not claimed by any run.
LEMMA ShieldHolds ==
    ASSUME IInv, NEW u \in Workers, row[u] \in Rows, Shielded(u), age[u] < Slow,
           NEW k \in Runs, runAge[k] # None
    PROVE  ~pending_outbox_filter(k, row[u])
<1> DEFINE r == row[u]
<1>1. age[u] \in Nat BY DEF IInv, TypeOK
<1>2. runAge[k] \in Nat BY DEF IInv, TypeOK
<1>3. /\ leaseLeft[r] # None => leaseLeft[r] \in Int
      /\ dueIn[r] # None => dueIn[r] \in Int
  BY DEF IInv, TypeOK, Timer
<1>4. FirstBackoff \in Int BY OutboxAssumption DEF FirstBackoff, Smaller
<1>5. CASE leaseLeft[r] # None /\ leaseLeft[r] >= Lease - RunTime + 1 - age[u]
  BY <1>1, <1>2, <1>3, <1>5, SlowType, OutboxAssumption DEF pending_outbox_filter, PastFor
<1>6. CASE dueIn[r] # None /\ dueIn[r] >= FirstBackoff - age[u]
  BY <1>1, <1>2, <1>3, <1>4, <1>6, SlowType DEF pending_outbox_filter, PastFor
<1> QED BY <1>5, <1>6 DEF Shielded

\* Steps that start no try of a retry run, and keep the shield of those that
\* go on, keep the leases exclusive.
LEMMA LeaseKept ==
    ASSUME IInv, LeaseInv,
           \A u \in Workers : Retrying(u)' =>
                /\ Retrying(u)
                /\ row'[u] = row[u]
                /\ age'[u] < Slow => age[u] < Slow
                /\ requeues'[row[u]] = 0 => requeues[row[u]] = 0
                /\ age'[u] < Slow /\ requeues'[row[u]] = 0 /\ status'[row[u]] \in Waiting
                     => Shielded(u)'
    PROVE  LeaseInv'
<1>1. Shields'
  <2> SUFFICES ASSUME NEW u \in Workers, Retrying(u)', age'[u] < Slow,
                      requeues'[row'[u]] = 0, status'[row'[u]] \in Waiting
               PROVE  Shielded(u)'
    BY DEF Shields, Retrying, Slow
  <2> QED OBVIOUS
<1>2. LeaseExclusive'
  <2> SUFFICES ASSUME NEW u \in Workers, NEW v \in Workers, Retrying(u)', Retrying(v)',
                      row'[u] = row'[v], requeues'[row'[u]] = 0, age'[u] < Slow, age'[v] < Slow
               PROVE  u = v
    BY DEF LeaseExclusive, Retrying, Slow
  <2> QED BY DEF LeaseInv, LeaseExclusive, Retrying
<1> QED BY <1>1, <1>2 DEF LeaseInv

\* Steps that leave the timers alone.
LEMMA TimersKept ==
    ASSUME IInv, IInv', LeaseInv,
           \A u \in Workers : Retrying(u)' =>
                /\ Retrying(u)
                /\ row'[u] = row[u]
                /\ age'[u] = age[u]
                /\ requeues'[row[u]] = 0 => requeues[row[u]] = 0
                /\ requeues'[row[u]] = 0 /\ status'[row[u]] \in Waiting =>
                    /\ status[row[u]] \in Waiting
                    /\ leaseLeft'[row[u]] = leaseLeft[row[u]] /\ dueIn'[row[u]] = dueIn[row[u]]
    PROVE  LeaseInv'
<1> SUFFICES ASSUME NEW u \in Workers, Retrying(u)', age'[u] < Slow, requeues'[row[u]] = 0,
                    status'[row[u]] \in Waiting
             PROVE  Shielded(u)'
  BY LeaseKept
<1>1. /\ Retrying(u) /\ status[row[u]] \in Waiting /\ requeues[row[u]] = 0
      /\ age'[u] = age[u] /\ age[u] < Slow
  OBVIOUS
<1>2. Shielded(u) BY <1>1 DEF LeaseInv, Shields, Retrying
<1>3. row[u] \in Rows BY <1>1 DEF IInv, Tries, Retrying
<1>4. age'[u] >= age[u] BY <1>1 DEF IInv, TypeOK
<1> QED BY <1>1, <1>2, <1>3, <1>4, ShieldKept DEF IInv

\* A run claims a row only when every try of a run on it is slow, and its
\* lease then shields the new try.
LEMMA ClaimLease ==
    ASSUME IInv, IInv', LeaseInv, NEW k \in Runs, NEW w \in Workers,
           claim_next_pending_outbox(k, w)
    PROVE  LeaseInv'
<1>1. /\ runAge[k] # None /\ runAge[k] < RunTime /\ pc[w] = "idle"
      /\ UNCHANGED <<status, dueIn, requeues>>
  BY DEF claim_next_pending_outbox
<1>2. PICK r \in Rows : /\ pending_outbox_filter(k, r)
                        /\ leaseLeft' = [leaseLeft EXCEPT ![r] = Lease - runAge[k]]
                        /\ Deliver(w, r, k)
  BY DEF claim_next_pending_outbox
<1>3. /\ UNCHANGED <<snap, verdict, age>>
      /\ pc'[w] = "read" /\ row'[w] = r /\ by'[w] = k
      /\ \A v \in Workers : v # w => pc'[v] = pc[v] /\ row'[v] = row[v] /\ by'[v] = by[v]
  BY <1>2, DeliverStep DEF IInv
<1>4. /\ leaseLeft'[r] = Lease - runAge[k]
      /\ \A s \in Rows : s # r => leaseLeft'[s] = leaseLeft[s]
  BY <1>2 DEF IInv, TypeOK
<1>5. ASSUME NEW u \in Workers, u # w, Retrying(u)', requeues[row[u]] = 0, age[u] < Slow
      PROVE  /\ Retrying(u) /\ row'[u] = row[u] /\ row[u] \in Rows /\ row[u] # r
             /\ status[row[u]] \in Waiting => Shielded(u)
  <2>1. Retrying(u) /\ row'[u] = row[u] BY <1>3, <1>5 DEF Retrying
  <2>2. row[u] \in Rows BY <2>1 DEF IInv, Tries, Retrying
  <2>3. status[row[u]] \in Waiting => Shielded(u)
    BY <2>1, <1>5 DEF LeaseInv, Shields, Retrying
  <2>4. row[u] # r
    <3> SUFFICES ASSUME row[u] = r PROVE FALSE OBVIOUS
    <3>1. status[row[u]] \in Waiting BY <1>2 DEF pending_outbox_filter
    <3> QED BY <3>1, <2>2, <2>3, <1>1, <1>2, <1>5, ShieldHolds
  <2> QED BY <2>1, <2>2, <2>3, <2>4
<1>6. Shielded(w)'
  <2>1. age'[w] \in Nat BY DEF IInv, TypeOK
  <2>2. runAge[k] \in Nat BY <1>1 DEF IInv, TypeOK
  <2>3. Lease - runAge[k] # None /\ Lease - runAge[k] >= Lease - RunTime + 1 - age'[w]
    BY <1>1, <2>1, <2>2, OutboxAssumption
  <2> QED BY <1>3, <1>4, <2>3 DEF Shielded
<1>7. Shields'
  <2> SUFFICES ASSUME NEW u \in Workers, Retrying(u)', age'[u] < Slow,
                      requeues[row'[u]] = 0, status[row'[u]] \in Waiting
               PROVE  Shielded(u)'
    BY <1>1 DEF Shields, Retrying, Slow
  <2>1. CASE u = w BY <2>1, <1>6
  <2>2. CASE u # w
    <3>1. row'[u] = row[u] /\ age'[u] = age[u] BY <2>2, <1>3
    <3>2. row[u] \in Rows /\ row[u] # r /\ Shielded(u) BY <2>2, <3>1, <1>5
    <3>3. age'[u] >= age[u] BY <3>1 DEF IInv, TypeOK
    <3>4. leaseLeft'[row[u]] = leaseLeft[row[u]] /\ dueIn'[row[u]] = dueIn[row[u]]
      BY <3>2, <1>1, <1>4
    <3> QED BY <3>1, <3>2, <3>3, <3>4, ShieldKept DEF IInv
  <2> QED BY <2>1, <2>2
<1>8. LeaseExclusive'
  <2> SUFFICES ASSUME NEW u \in Workers, NEW v \in Workers, Retrying(u)', Retrying(v)',
                      row'[u] = row'[v], requeues[row'[u]] = 0, age'[u] < Slow, age'[v] < Slow
               PROVE  u = v
    BY <1>1 DEF LeaseExclusive, Retrying, Slow
  <2>0. age'[u] = age[u] /\ age'[v] = age[v] BY <1>3
  <2>1. CASE u # w /\ v # w
    BY <2>0, <2>1, <1>3 DEF LeaseInv, LeaseExclusive, Retrying
  <2>2. CASE u = w /\ v # w
    <3>1. row'[v] = row[v] BY <2>2, <1>3
    <3> QED BY <2>0, <2>2, <3>1, <1>3, <1>5
  <2>3. CASE v = w /\ u # w
    <3>1. row'[u] = row[u] BY <2>3, <1>3
    <3> QED BY <2>0, <2>3, <3>1, <1>3, <1>5
  <2> QED BY <2>1, <2>2, <2>3
<1> QED BY <1>7, <1>8 DEF LeaseInv

\* A stored result clears the lease and leaves a backoff that shields the
\* other tries of the row.
LEMMA StoreLease ==
    ASSUME IInv, IInv', LeaseInv, NEW w \in Workers, StoreResult(w)
    PROVE  LeaseInv'
<1> DEFINE r == row[w]
<1>1. /\ pc[w] = "apply" /\ Free(w) /\ requeues' = requeues
  BY DEF StoreResult, Abandon
<1>2. /\ pc'[w] = "idle"
      /\ \A v \in Workers : v # w =>
            pc'[v] = pc[v] /\ row'[v] = row[v] /\ by'[v] = by[v] /\ age'[v] = age[v]
  BY <1>1, FreeStep DEF IInv
<1>3. ASSUME NEW u \in Workers, Retrying(u)'
      PROVE  /\ u # w /\ Retrying(u) /\ row'[u] = row[u] /\ row[u] \in Rows
             /\ age'[u] = age[u] /\ age[u] \in Nat
  <2>1. u # w BY <1>2, <1>3 DEF Retrying
  <2>2. Retrying(u) /\ row'[u] = row[u] /\ age'[u] = age[u] BY <2>1, <1>2, <1>3 DEF Retrying
  <2>3. row[u] \in Rows /\ age[u] \in Nat BY <2>2 DEF IInv, Tries, TypeOK, Retrying
  <2> QED BY <2>1, <2>2, <2>3
<1>4. CASE UNCHANGED columns
  <2>1. status' = status /\ leaseLeft' = leaseLeft /\ dueIn' = dueIn BY <1>4 DEF columns
  <2> QED BY <1>1, <1>3, <2>1, TimersKept
<1>5. CASE status[r] \in Stored /\ StillCurrent(w) /\ apply_delivery_result(w)
  <2>1. /\ status'[r] \in {"delivered", "dead", "failed"}
        /\ status'[r] = "failed" => dueIn'[r] \in 1..MaxBackoff /\ dueIn'[r] >= FirstBackoff
        /\ \A s \in Rows : s # r =>
             status'[s] = status[s] /\ dueIn'[s] = dueIn[s] /\ leaseLeft'[s] = leaseLeft[s]
    BY <1>1, <1>5, ApplyEffect
  <2> HIDE DEF r
  <2>2. ASSUME NEW u \in Workers, Retrying(u)', age'[u] < Slow, requeues'[row[u]] = 0,
               status'[row[u]] \in Waiting
        PROVE  Shielded(u)'
    <3>1. CASE row[u] = r
      <4>1. status'[r] = "failed" BY <2>1, <2>2, <3>1 DEF Waiting
      <4>2. dueIn'[r] # None /\ dueIn'[r] >= FirstBackoff - age'[u]
        BY <4>1, <2>1, <2>2, <1>3, OutboxAssumption DEF FirstBackoff, Smaller
      <4> QED BY <3>1, <4>2, <2>2, <1>3 DEF Shielded
    <3>2. CASE row[u] # r
      <4>1. /\ Retrying(u) /\ row'[u] = row[u] /\ row[u] \in Rows
            /\ age'[u] = age[u] /\ age[u] \in Nat
        BY <2>2, <1>3
      <4>2. status[row[u]] \in Waiting /\ requeues[row[u]] = 0 BY <4>1, <3>2, <2>1, <2>2, <1>1
      <4>3. Shielded(u) BY <2>2, <4>1, <4>2 DEF LeaseInv, Shields, Retrying
      <4>4. leaseLeft'[row[u]] = leaseLeft[row[u]] /\ dueIn'[row[u]] = dueIn[row[u]]
        BY <4>1, <3>2, <2>1
      <4> QED BY <4>1, <4>3, <4>4, ShieldKept DEF IInv
    <3> QED BY <3>1, <3>2
  <2> QED BY <1>1, <1>3, <2>2, LeaseKept
<1> QED BY <1>4, <1>5 DEF StoreResult, columns

\* A tick takes as much from the timers as it adds to the tries.
LEMMA TickLease ==
    ASSUME IInv, IInv', LeaseInv, Tick
    PROVE  LeaseInv'
<1>1. /\ UNCHANGED <<status, pc, row, by, requeues>>
      /\ dueIn' = [r \in Rows |-> Down(dueIn[r])]
      /\ leaseLeft' = [r \in Rows |-> Down(leaseLeft[r])]
      /\ age' = [v \in Workers |-> IF pc[v] = "idle" THEN age[v] ELSE Up(age[v], Slow)]
  BY DEF Tick
<1>2. ASSUME NEW u \in Workers, Retrying(u), age'[u] < Slow
      PROVE  age[u] \in Nat /\ age[u] < Slow /\ age'[u] = age[u] + 1
  BY <1>1, <1>2, SlowType DEF IInv, TypeOK, Retrying, Up
<1>3. ASSUME NEW u \in Workers, Retrying(u)', age'[u] < Slow, requeues[row[u]] = 0,
             status[row[u]] \in Waiting
      PROVE  Shielded(u)'
  <2> DEFINE r == row[u]
  <2>1. Retrying(u) BY <1>1, <1>3 DEF Retrying
  <2>2. r \in Rows BY <2>1 DEF IInv, Tries, Retrying
  <2>3. age[u] \in Nat /\ age[u] < Slow /\ age'[u] = age[u] + 1 BY <2>1, <1>2, <1>3
  <2>4. Shielded(u) BY <1>3, <2>1, <2>3 DEF LeaseInv, Shields, Retrying
  <2>5. /\ dueIn'[r] = Down(dueIn[r]) /\ leaseLeft'[r] = Down(leaseLeft[r])
        /\ dueIn[r] \in Timer(MaxBackoff) /\ leaseLeft[r] \in Timer(Lease)
    BY <1>1, <2>2 DEF IInv, TypeOK
  <2>6. /\ dueIn[r] # None => dueIn[r] \in Int /\ dueIn'[r] # None /\ dueIn'[r] \in Int /\ dueIn'[r] >= dueIn[r] - 1
        /\ leaseLeft[r] # None => leaseLeft[r] \in Int /\ leaseLeft'[r] # None /\ leaseLeft'[r] \in Int
                                    /\ leaseLeft'[r] >= leaseLeft[r] - 1
    BY <2>5, OutboxAssumption DEF Down, Timer
  <2>7. FirstBackoff \in Int BY OutboxAssumption DEF FirstBackoff, Smaller
  <2>8. CASE leaseLeft[r] # None /\ leaseLeft[r] >= Lease - RunTime + 1 - age[u]
    BY <1>1, <2>3, <2>6, <2>8, OutboxAssumption DEF Shielded
  <2>9. CASE dueIn[r] # None /\ dueIn[r] >= FirstBackoff - age[u]
    BY <1>1, <2>3, <2>6, <2>7, <2>9 DEF Shielded
  <2> QED BY <2>4, <2>8, <2>9 DEF Shielded
<1> QED BY <1>1, <1>2, <1>3, LeaseKept DEF Retrying

\* The other steps of a worker start no try of a run and touch no timer.
LEMMA WorkLease ==
    ASSUME IInv, IInv', LeaseInv, NEW w \in Workers,
           Dispatch(w) \/ ReadRow(w) \/ Answer(w) \/ Raise(w)
    PROVE  LeaseInv'
<1>1. UNCHANGED <<status, dueIn, leaseLeft, requeues>>
  BY DEF Dispatch, ReadRow, Answer, Raise, columns
<1>2. \A v \in Workers : v # w =>
            pc'[v] = pc[v] /\ row'[v] = row[v] /\ by'[v] = by[v] /\ age'[v] = age[v]
  <2>1. CASE Dispatch(w) BY <2>1 DEF IInv, TypeOK, Dispatch, Deliver
  <2>2. CASE ReadRow(w) BY <2>2 DEF IInv, TypeOK, ReadRow, Free
  <2>3. CASE Answer(w) BY <2>3 DEF IInv, TypeOK, Answer
  <2>4. CASE Raise(w) BY <2>4, FreeStep DEF IInv, Raise, Abandon
  <2> QED BY <2>1, <2>2, <2>3, <2>4
<1>3. Retrying(w)' => Retrying(w) /\ row'[w] = row[w] /\ age'[w] = age[w]
  <2>1. CASE Dispatch(w)
    <3>1. by'[w] = None BY <2>1 DEF Dispatch, Deliver, IInv, TypeOK
    <3> QED BY <3>1 DEF Retrying
  <2>2. CASE ReadRow(w)
    <3>1. CASE Free(w) BY <3>1 DEF Free, Retrying, IInv, TypeOK
    <3>2. CASE ~Free(w)
      <4>1. pc[w] = "read" /\ row' = row /\ by' = by /\ age' = age
        BY <2>2, <3>2 DEF ReadRow
      <4> QED BY <4>1 DEF Retrying
    <3> QED BY <3>1, <3>2
  <2>3. CASE Answer(w)
    <3>1. pc[w] = "http" /\ row' = row /\ by' = by /\ age' = age BY <2>3 DEF Answer
    <3> QED BY <3>1 DEF Retrying
  <2>4. CASE Raise(w) BY <2>4, FreeStep DEF IInv, Raise, Abandon, Retrying
  <2> QED BY <2>1, <2>2, <2>3, <2>4
<1>4. ASSUME NEW u \in Workers, Retrying(u)'
      PROVE  Retrying(u) /\ row'[u] = row[u] /\ age'[u] = age[u]
  BY <1>2, <1>3, <1>4 DEF Retrying
<1> QED BY <1>1, <1>4, TimersKept

\* Steps of nobody's try: the workers go on as before, and whoever loses a
\* lease or a backoff is requeued, or is not tried.
LEMMA OthersLease ==
    ASSUME IInv, IInv', LeaseInv, UNCHANGED <<pc, row, by, age>>,
           \A u \in Workers : Retrying(u) =>
                /\ requeues'[row[u]] = 0 => requeues[row[u]] = 0
                /\ requeues'[row[u]] = 0 /\ status'[row[u]] \in Waiting =>
                    /\ status[row[u]] \in Waiting
                    /\ leaseLeft'[row[u]] = leaseLeft[row[u]] /\ dueIn'[row[u]] = dueIn[row[u]]
    PROVE  LeaseInv'
<1>1. ASSUME NEW u \in Workers, Retrying(u)'
      PROVE  Retrying(u) /\ row'[u] = row[u] /\ age'[u] = age[u]
  BY <1>1 DEF Retrying
<1> QED BY <1>1, TimersKept

\* One argument per action adds up to the step relation.
LEMMA LeaseStep ==
    ASSUME IInv, IInv', LeaseInv, [Next]_vars
    PROVE  LeaseInv'
<1>1. ASSUME NEW r \in Rows, emit_event(r) PROVE LeaseInv'
  <2>1. /\ status[r] = "new" /\ status' = [status EXCEPT ![r] = "pending"]
        /\ UNCHANGED <<pc, row, by, age, requeues, leaseLeft, dueIn>>
    BY <1>1 DEF emit_event, worker
  <2>2. ASSUME NEW u \in Workers, Retrying(u) PROVE status'[row[u]] = status[row[u]]
    BY <2>1, <2>2 DEF IInv, TypeOK, Tries, Retrying
  <2> QED BY <2>1, <2>2, OthersLease
<1>2. ASSUME NEW r \in Rows, Requeue(r) PROVE LeaseInv'
  <2>1. /\ requeues' = [requeues EXCEPT ![r] = @ + 1]
        /\ status' = [status EXCEPT ![r] = "pending"]
        /\ dueIn' = [dueIn EXCEPT ![r] = None]
        /\ leaseLeft' = [leaseLeft EXCEPT ![r] = None]
        /\ UNCHANGED <<pc, row, by, age>>
    BY <1>2 DEF Requeue, worker
  <2>2. ASSUME NEW s \in Rows, requeues'[s] = 0
        PROVE  /\ requeues[s] = 0 /\ status'[s] = status[s]
               /\ leaseLeft'[s] = leaseLeft[s] /\ dueIn'[s] = dueIn[s]
    BY <2>1, <2>2 DEF IInv, TypeOK
  <2>3. ASSUME NEW u \in Workers, Retrying(u) PROVE row[u] \in Rows
    BY <2>3 DEF IInv, Tries, Retrying
  <2> QED BY <2>1, <2>2, <2>3, OthersLease
<1>3. ASSUME NEW r \in Rows, Outdate(r) PROVE LeaseInv'
  BY <1>3, OthersLease DEF Outdate, columns, worker
<1>4. ASSUME NEW w \in Workers, Work(w) PROVE LeaseInv'
  BY <1>4, WorkLease, StoreLease DEF Work
<1>5. ASSUME NEW k \in Runs, Retry(k) PROVE LeaseInv'
  <2>1. ASSUME NEW w \in Workers, claim_next_pending_outbox(k, w) PROVE LeaseInv'
    BY <2>1, ClaimLease
  <2>2. CASE StartRun(k) \/ EndRun(k)
    BY <2>2, OthersLease DEF StartRun, EndRun, columns, worker
  <2> QED BY <1>5, <2>1, <2>2 DEF Retry
<1>6. ASSUME NEW S \in SUBSET Rows, Delete(S), UNCHANGED <<dueIn, leaseLeft, worker, requeues>>
      PROVE  LeaseInv'
  <2>1. UNCHANGED <<pc, row, by, age>> BY <1>6 DEF worker
  <2>2. \A s \in Rows : status'[s] \in Waiting => status[s] \in Waiting
    BY <1>6 DEF Delete, Waiting
  <2>3. ASSUME NEW u \in Workers, Retrying(u) PROVE row[u] \in Rows
    BY <2>3 DEF IInv, Tries, Retrying
  <2> QED BY <1>6, <2>1, <2>2, <2>3, OthersLease
<1>7. ASSUME NEW to \in {"enabled", "disabled", "deleted"}, SetRule(to) PROVE LeaseInv'
  <2>1. UNCHANGED <<dueIn, leaseLeft, worker, requeues>> BY <1>7 DEF SetRule
  <2>2. CASE to = "deleted"
    <3>1. Delete(Rows \ Emails) BY <1>7, <2>2 DEF SetRule
    <3>2. Rows \ Emails \in SUBSET Rows OBVIOUS
    <3> QED BY <2>1, <3>1, <3>2, <1>6
  <2>3. CASE to # "deleted"
    <3>1. status' = status BY <1>7, <2>3 DEF SetRule
    <3> QED BY <2>1, <3>1, OthersLease DEF worker
  <2> QED BY <2>2, <2>3
<1>8. CASE SelectExpired \/ UNCHANGED vars
  <2>1. UNCHANGED <<pc, row, by, age, status, dueIn, leaseLeft, requeues>>
    BY <1>8 DEF SelectExpired, vars, columns, worker
  <2> QED BY <2>1, OthersLease
<1>9. CASE DeleteExpired
  <2>1. Delete(doomed) /\ doomed \in SUBSET Rows /\ UNCHANGED <<dueIn, leaseLeft, worker, requeues>>
    BY <1>9 DEF DeleteExpired, IInv, TypeOK
  <2> QED BY <2>1, <1>6
<1>10. CASE Crash
  <2>1. \A u \in Workers : ~Retrying(u)' BY <1>10 DEF Crash, Retrying
  <2> QED BY <2>1, LeaseKept
<1>11. CASE Tick BY <1>11, TickLease
<1> QED BY <1>1, <1>2, <1>3, <1>4, <1>5, <1>7, <1>8, <1>9, <1>10, <1>11 DEF Next

\* Two retry workers try one row at once only after one of the tries became
\* slow, however many runs overlap (claim_next_pending_outbox); a requeue by
\* staff sets the lease aside.
THEOREM LeasesExclude == Spec => []LeaseExclusive
<1>1. Init => LeaseInv
  BY OutboxAssumption DEF Init, LeaseInv, Shields, LeaseExclusive
<1>2. IInv /\ IInv' /\ LeaseInv /\ [Next]_vars => LeaseInv' BY LeaseStep
<1>3. LeaseInv => LeaseExclusive BY DEF LeaseInv
<1> QED BY <1>1, <1>2, <1>3, Invariance, PTL DEF Spec

=============================================================================
