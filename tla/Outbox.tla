-------------------------------- MODULE Outbox --------------------------------
(***************************************************************************)
(* Delivery of events to webhooks and to the email service                 *)
(* (apps/actions/delivery.py, emit.py, retention.py, admin_api_views.py).  *)
(*                                                                         *)
(* emit_event writes an outbox row and, after the commit, queues one try   *)
(* for the dispatch pool.  Further tries come from the retry job, whose    *)
(* workers claim rows with a lease.  Each try reads the row in one         *)
(* transaction, calls out with no lock held, and stores its result in a    *)
(* second transaction, if no other try was stored in between.              *)
(*                                                                         *)
(* Time is a Tick that counts every timer down.  It passes between any two *)
(* steps and bounds none: the timeout of an HTTP call is one of each       *)
(* socket operation (webhook_transport.py), not of the call.               *)
(***************************************************************************)
EXTENDS Integers, Sequences, FiniteSets

CONSTANTS
    Rows,         \* outbox rows that events may create
    Emails,       \* the rows of kind email; the others are webhooks
    Workers,      \* threads that make tries, of either pool
    Runs,         \* runs of the retry job that may overlap
    MaxAttempts,  \* ACTIONS_OUTBOX_MAX_ATTEMPTS
    Lease,        \* ACTIONS_WEBHOOK_RETRY_LEASE_SECONDS, in ticks
    RunTime,      \* max_seconds of a retry run, in ticks
    Base,         \* first backoff, in ticks
    MaxBackoff,   \* longest backoff, in ticks
    MaxRequeues,  \* bound: requeues by staff, of each row
    MaxCrashes,   \* bound: container deaths
    MaxEdits,     \* bound: changes of the rule and of the email key
    None          \* NULL, no row, no run

ASSUME OutboxAssumption ==
    /\ Emails \subseteq Rows
    /\ MaxAttempts \in Nat \ {0}
    /\ Lease \in Nat /\ RunTime \in Nat
    /\ Base \in Nat \ {0} /\ MaxBackoff \in Nat \ {0}
    /\ MaxRequeues \in Nat /\ MaxCrashes \in Nat /\ MaxEdits \in Nat
    /\ None \notin Rows \cup Runs \cup Int

\* Powers of two are positive: the proofs need it, and the provers have no
\* theory of exponents.
ASSUME PowersAssumption == \A n \in 0..(MaxAttempts + MaxRequeues) : 2^n \in Nat \ {0}

VARIABLES
    status,     \* ActionOutbox.status, "new" before the event, "gone" once deleted
    attempts,   \* attempt_count
    dueIn,      \* next_attempt_at, in ticks from now, None for NULL
    leaseLeft,  \* locked_until, in ticks from now, None for NULL
    log,        \* the DeliveryAttempt rows of each row
    rule,       \* the ActionRule of the webhook rows
    emailKey,   \* EMAIL_SERVICE_API_KEY is set
    queue,      \* rows waiting in the dispatch pool
    pc,         \* the next step of each worker
    row,        \* the row each worker delivers
    by,         \* the retry run each worker belongs to, None for the dispatch pool
    snap,       \* attempt_count as the worker's first transaction read it
    verdict,    \* the result of the try
    age,        \* ticks the worker's try has taken, up to Slow
    runAge,     \* ticks since each retry run read the clock, up to RunTime, None if not running
    doomed,     \* rows a purge has selected
    old,        \* rows older than the retention
    requeues,   \* requeues of each row so far
    crashes,    \* container deaths so far
    edits       \* changes of the rule and the key so far

columns == <<status, attempts, dueIn, leaseLeft, log>>
config == <<rule, emailKey, edits>>
worker == <<pc, row, by, snap, verdict, age>>
purge == <<doomed, old>>
vars == <<columns, config, queue, worker, runAge, purge, requeues, crashes>>

Finished == {"delivered", "dead"}
Waiting == {"pending", "failed"}
Stored == Finished \cup Waiting

Init ==
    /\ status = [r \in Rows |-> "new"]
    /\ attempts = [r \in Rows |-> 0]
    /\ dueIn = [r \in Rows |-> None]
    /\ leaseLeft = [r \in Rows |-> None]
    /\ log = [r \in Rows |-> <<>>]
    /\ rule = "enabled"
    /\ emailKey = TRUE
    /\ queue = {}
    /\ pc = [w \in Workers |-> "idle"]
    /\ row = [w \in Workers |-> None]
    /\ by = [w \in Workers |-> None]
    /\ snap = [w \in Workers |-> 0]
    /\ verdict = [w \in Workers |-> None]
    /\ age = [w \in Workers |-> 0]
    /\ runAge = [k \in Runs |-> None]
    /\ doomed = {}
    /\ old = {}
    /\ requeues = [r \in Rows |-> 0]
    /\ crashes = 0
    /\ edits = 0

(***************************************************************************)
(* Helpers                                                                 *)
(***************************************************************************)

Smaller(m, n) == IF m < n THEN m ELSE n

\* min(3600, 30 * 2 ** (n - 1)) of _backoff_seconds.
backoff_seconds(n) == Smaller(MaxBackoff, Base * 2^(n - 1))

\* A try is slow once it may have outlasted the lease of a run that claims at
\* its deadline, or the first backoff.
Slow == Smaller(Smaller(MaxBackoff, Base), Lease - RunTime + 1)

\* Mutation: a Retry-After is taken as it comes.
UncappedRetryAfter(n, v) ==
    backoff_seconds(n)..(IF v = "throttled" THEN MaxBackoff + 1 ELSE backoff_seconds(n))

\* A Retry-After on 429 or 503 can only lengthen the wait, up to the cap.
compute_retry_delay_seconds(n, v) ==
    backoff_seconds(n)..(IF v = "throttled" THEN MaxBackoff ELSE backoff_seconds(n))

\* Configured to deliver: _load_rule_for_delivery and email_service_configured.
Deliverable(r) == IF r \in Emails THEN emailKey ELSE rule = "enabled"

\* A timer that had run out when run k read the clock; NULL counts as run out.
PastFor(k, timer) == timer # None => timer + runAge[k] <= 0

\* Mutation: only rows that failed before are looked for.
OnlyFailed(k, r) ==
    /\ status[r] = "failed"
    /\ PastFor(k, dueIn[r])
    /\ PastFor(k, leaseLeft[r])

\* Mutation: the lease is not looked at.
LeaseIgnored(k, r) == status[r] \in Waiting /\ PastFor(k, dueIn[r])

pending_outbox_filter(k, r) ==
    /\ status[r] \in Waiting
    /\ PastFor(k, dueIn[r])
    /\ PastFor(k, leaseLeft[r])

\* ORDER BY next_attempt_at: PostgreSQL sorts NULL last.
Before(r, s) == dueIn[r] # None /\ (dueIn[s] # None => dueIn[r] < dueIn[s])

InRun(k) == {w \in Workers : pc[w] # "idle" /\ by[w] = k}

Free(w) ==
    /\ pc' = [pc EXCEPT ![w] = "idle"]
    /\ row' = [row EXCEPT ![w] = None]
    /\ by' = [by EXCEPT ![w] = None]
    /\ snap' = [snap EXCEPT ![w] = 0]
    /\ verdict' = [verdict EXCEPT ![w] = None]
    /\ age' = [age EXCEPT ![w] = 0]

\* deliver_outbox_row(r) starts on worker w.
Deliver(w, r, k) ==
    /\ pc' = [pc EXCEPT ![w] = "read"]
    /\ row' = [row EXCEPT ![w] = r]
    /\ by' = [by EXCEPT ![w] = k]
    /\ UNCHANGED <<snap, verdict, age>>

(***************************************************************************)
(* emit_event and the dispatch pool                                        *)
(***************************************************************************)

\* One row for the email service, while its key is set.
enqueue_email_event(r) == r \in Emails /\ emailKey

\* One row for each enabled rule and one for the email service commit with the
\* change they report, then one try of each is queued.
emit_event(r) ==
    /\ status[r] = "new"
    /\ enqueue_email_event(r) \/ (r \notin Emails /\ rule = "enabled")
    /\ status' = [status EXCEPT ![r] = "pending"]
    /\ queue' = queue \cup {r}
    /\ UNCHANGED <<attempts, dueIn, leaseLeft, log, config, worker, runAge, purge,
                   requeues, crashes>>

Dispatch(w) ==
    /\ pc[w] = "idle"
    /\ \E r \in queue : /\ queue' = queue \ {r}
                        /\ Deliver(w, r, None)
    /\ UNCHANGED <<columns, config, runAge, purge, requeues, crashes>>

(***************************************************************************)
(* retry_pending_webhooks                                                  *)
(***************************************************************************)

\* The run reads the clock once and keeps it for every claim.
StartRun(k) ==
    /\ runAge[k] = None
    /\ runAge' = [runAge EXCEPT ![k] = 0]
    /\ UNCHANGED <<columns, config, queue, worker, purge, requeues, crashes>>

claim_next_pending_outbox(k, w) ==
    /\ runAge[k] # None /\ runAge[k] < RunTime
    /\ pc[w] = "idle"
    /\ \E r \in Rows :
        /\ pending_outbox_filter(k, r)
        /\ \A s \in Rows : pending_outbox_filter(k, s) => ~Before(s, r)
        /\ leaseLeft' = [leaseLeft EXCEPT ![r] = Lease - runAge[k]]
        /\ Deliver(w, r, k)
    /\ UNCHANGED <<status, attempts, dueIn, log, config, queue, runAge, purge, requeues,
                   crashes>>

\* The loop ends at the deadline, or when nothing is due and nothing in flight.
EndRun(k) ==
    /\ runAge[k] # None
    /\ InRun(k) = {}
    /\ runAge[k] < RunTime => \A r \in Rows : ~pending_outbox_filter(k, r)
    /\ runAge' = [runAge EXCEPT ![k] = None]
    /\ UNCHANGED <<columns, config, queue, worker, purge, requeues, crashes>>

(***************************************************************************)
(* deliver_outbox_row                                                      *)
(***************************************************************************)

\* First transaction: a finished or deleted row needs no try.
ReadRow(w) ==
    LET r == row[w] IN
    /\ pc[w] = "read"
    /\ \/ status[r] \in Finished \cup {"gone"} /\ Free(w)
       \/ /\ status[r] \in Waiting
          /\ snap' = [snap EXCEPT ![w] = attempts[r]]
          /\ IF Deliverable(r)
             THEN /\ pc' = [pc EXCEPT ![w] = "http"]
                  /\ UNCHANGED verdict
             ELSE /\ pc' = [pc EXCEPT ![w] = "apply"]
                  /\ verdict' = [verdict EXCEPT ![w] = "terminal"]
          /\ UNCHANGED <<row, by, age>>
    /\ UNCHANGED <<columns, config, queue, runAge, purge, requeues, crashes>>

\* What comes of a POST, as far as it is told apart: a status, of which 400,
\* 401, 403, 405, 410, 413 and 422 refuse for good and 429 and 503 put off; no
\* answer in time; no connection, to a URL that is not allowed; or an answer
\* that is no HTTP or is cut short (http.client.HTTPException).
post_webhook_url ==
    {"2xx", "3xx", "refused", "put_off", "other", "no_answer", "not_allowed", "garbled"}

is_permanent_http_status(reply) == reply = "refused"

\* A redirect is not followed, and no error.
deliver_webhook_action(reply) ==
    CASE reply \in {"2xx", "3xx"} -> "success"
      [] is_permanent_http_status(reply) \/ reply = "not_allowed" -> "permanent"
      [] reply = "put_off" -> "throttled"
      [] OTHER -> "failure"

\* To the email service a redirect is worth a retry.  Only WebhookHTTPError and
\* OSError are caught: a garbled answer raises.
deliver_email_event(reply) ==
    CASE reply = "3xx" -> "failure"
      [] reply = "garbled" -> "raised"
      [] OTHER -> deliver_webhook_action(reply)

Outcome(r, reply) ==
    IF r \in Emails THEN deliver_email_event(reply) ELSE deliver_webhook_action(reply)

Answer(w) ==
    /\ pc[w] = "http"
    /\ pc' = [pc EXCEPT ![w] = "apply"]
    /\ \E reply \in post_webhook_url :
            /\ Outcome(row[w], reply) # "raised"
            /\ verdict' = [verdict EXCEPT ![w] = Outcome(row[w], reply)]
    /\ UNCHANGED <<columns, config, queue, row, by, snap, age, runAge, purge, requeues, crashes>>

\* An exception leaves deliver_outbox_row: the dispatch pool logs it, and in a
\* retry run it ends the loop, once the loop collects the future.
Abandon(w) ==
    /\ Free(w)
    /\ runAge' \in {runAge} \cup {[runAge EXCEPT ![k] = None] : k \in {by[w]} \ {None}}

\* The call raises: no attempt is stored, the lease stays, the second
\* transaction never runs.
Raise(w) ==
    /\ pc[w] = "http"
    /\ \E reply \in post_webhook_url : Outcome(row[w], reply) = "raised"
    /\ Abandon(w)
    /\ UNCHANGED <<columns, config, queue, purge, requeues, crashes>>

\* Mutation: one try too many.
OneMore(n) == n > MaxAttempts

Exhausted(n) == n >= MaxAttempts

\* Mutation: any result is stored.
NoSnapshot(w) == TRUE

\* No other try was stored since this one read the row.
StillCurrent(w) == attempts[row[w]] = snap[w]

\* Failures that no retry would mend.
Final == {"permanent", "terminal"}

apply_delivery_result(w) ==
    LET r == row[w]
        v == verdict[w]
        n == attempts[r] + 1
        dead == v \in Final \/ Exhausted(n)
    IN
    /\ attempts' = [attempts EXCEPT ![r] = n]
    /\ log' = [log EXCEPT ![r] = Append(@, [sent |-> snap[w] + 1, ok |-> v = "success", final |-> v \in Final])]
    /\ leaseLeft' = [leaseLeft EXCEPT ![r] = None]
    /\ status' = [status EXCEPT ![r] =
            IF v = "success" THEN "delivered" ELSE IF dead THEN "dead" ELSE "failed"]
    /\ IF v = "success" \/ dead
       THEN dueIn' = [dueIn EXCEPT ![r] = None]
       ELSE \E d \in compute_retry_delay_seconds(n, v) : dueIn' = [dueIn EXCEPT ![r] = d]

\* Second transaction.  A row that is gone raises.
StoreResult(w) ==
    LET r == row[w] IN
    /\ pc[w] = "apply"
    /\ \/ /\ status[r] = "gone"
          /\ Abandon(w)
          /\ UNCHANGED columns
       \/ /\ status[r] \in Stored /\ ~StillCurrent(w)
          /\ Free(w)
          /\ UNCHANGED <<columns, runAge>>
       \/ /\ status[r] \in Stored /\ StillCurrent(w)
          /\ apply_delivery_result(w)
          /\ Free(w)
          /\ UNCHANGED runAge
    /\ UNCHANGED <<config, queue, purge, requeues, crashes>>

(***************************************************************************)
(* Staff, purge, container                                                 *)
(***************************************************************************)

\* ShellUIAdminActionDeliveryRequeueView.post: webhook rows in any status.
Requeue(r) ==
    /\ r \notin Emails
    /\ status[r] \in Stored
    /\ requeues[r] < MaxRequeues
    /\ requeues' = [requeues EXCEPT ![r] = @ + 1]
    /\ status' = [status EXCEPT ![r] = "pending"]
    /\ dueIn' = [dueIn EXCEPT ![r] = None]
    /\ leaseLeft' = [leaseLeft EXCEPT ![r] = None]
    /\ UNCHANGED <<attempts, log, config, queue, worker, runAge, purge, crashes>>

Delete(S) ==
    /\ status' = [r \in Rows |-> IF r \in S /\ status[r] # "new" THEN "gone" ELSE status[r]]
    /\ log' = [r \in Rows |-> IF r \in S THEN <<>> ELSE log[r]]

SetRule(to) ==
    /\ rule # "deleted" /\ rule # to
    /\ edits < MaxEdits
    /\ edits' = edits + 1
    /\ rule' = to
    /\ IF to = "deleted" THEN Delete(Rows \ Emails) ELSE UNCHANGED <<status, log>>
    /\ UNCHANGED <<attempts, dueIn, leaseLeft, emailKey, queue, worker, runAge, purge,
                   requeues, crashes>>

Outdate(r) ==
    /\ status[r] \in Stored /\ r \notin old
    /\ old' = old \cup {r}
    /\ UNCHANGED <<columns, config, queue, worker, runAge, doomed, requeues, crashes>>

\* Mutation: rows of any status.
SelectAny ==
    /\ doomed = {}
    /\ \E S \in (SUBSET {r \in old : status[r] \in Stored}) \ {{}} : doomed' = S
    /\ UNCHANGED <<columns, config, queue, worker, runAge, old, requeues, crashes>>

\* _delete_in_batches reads a batch of primary keys ...
SelectExpired ==
    /\ doomed = {}
    /\ \E S \in (SUBSET {r \in old : status[r] \in Finished}) \ {{}} : doomed' = S
    /\ UNCHANGED <<columns, config, queue, worker, runAge, old, requeues, crashes>>

\* ... and deletes the rows that have them, in a statement of its own.
DeleteExpired ==
    /\ doomed # {}
    /\ doomed' = {}
    /\ Delete(doomed)
    /\ UNCHANGED <<attempts, dueIn, leaseLeft, config, queue, worker, runAge, old,
                   requeues, crashes>>

\* The container dies: pools, runs and a purge vanish; it may come back
\* without the email key.
Crash ==
    /\ crashes < MaxCrashes
    /\ crashes' = crashes + 1
    /\ \/ UNCHANGED <<emailKey, edits>>
       \/ emailKey /\ edits < MaxEdits /\ emailKey' = FALSE /\ edits' = edits + 1
    /\ queue' = {}
    /\ doomed' = {}
    /\ pc' = [w \in Workers |-> "idle"]
    /\ row' = [w \in Workers |-> None]
    /\ by' = [w \in Workers |-> None]
    /\ snap' = [w \in Workers |-> 0]
    /\ verdict' = [w \in Workers |-> None]
    /\ age' = [w \in Workers |-> 0]
    /\ runAge' = [k \in Runs |-> None]
    /\ UNCHANGED <<columns, rule, old, requeues>>

\* A timer is told apart down to the age of the oldest run that can read it.
Down(timer) ==
    IF timer = None THEN None ELSE IF timer + RunTime <= 0 THEN timer ELSE timer - 1

\* An age is counted as far as anything reads it.
Up(n, limit) == IF n < limit THEN n + 1 ELSE n

Tick ==
    /\ dueIn' = [r \in Rows |-> Down(dueIn[r])]
    /\ leaseLeft' = [r \in Rows |-> Down(leaseLeft[r])]
    /\ age' = [w \in Workers |-> IF pc[w] = "idle" THEN age[w] ELSE Up(age[w], Slow)]
    /\ runAge' = [k \in Runs |-> IF runAge[k] = None THEN None ELSE Up(runAge[k], RunTime)]
    /\ <<dueIn', leaseLeft', age', runAge'>> # <<dueIn, leaseLeft, age, runAge>>
    /\ UNCHANGED <<status, attempts, log, config, queue, pc, row, by, snap, verdict, purge,
                   requeues, crashes>>

(***************************************************************************)
(* Specification                                                           *)
(***************************************************************************)

Work(w) == Dispatch(w) \/ ReadRow(w) \/ Answer(w) \/ Raise(w) \/ StoreResult(w)

Retry(k) == StartRun(k) \/ EndRun(k) \/ \E w \in Workers : claim_next_pending_outbox(k, w)

Next ==
    \/ \E r \in Rows : emit_event(r) \/ Requeue(r) \/ Outdate(r)
    \/ \E w \in Workers : Work(w)
    \/ \E k \in Runs : Retry(k)
    \/ \E to \in {"enabled", "disabled", "deleted"} : SetRule(to)
    \/ SelectExpired \/ DeleteExpired
    \/ Crash
    \/ Tick

Spec == Init /\ [][Next]_vars

\* Threads run, every call ends at some time (each socket operation times out,
\* and http.client and the excerpt bound how many an answer takes), beat starts
\* the retry job every minute, the loop of a run claims before it waits (so runs
\* do not all let their time go by with a due row and a free thread), and time
\* passes.  Events, staff, purges and crashes owe nothing.
Fairness ==
    /\ \A w \in Workers : WF_vars(Work(w))
    /\ \A k \in Runs : /\ WF_vars(StartRun(k)) /\ WF_vars(EndRun(k))
                       /\ SF_vars(\E w \in Workers : claim_next_pending_outbox(k, w))
    /\ WF_vars(Tick)

FairSpec == Spec /\ Fairness

(***************************************************************************)
(* Properties                                                              *)
(***************************************************************************)

\* A timer set to at most n ticks; see Down for the lower end.
Timer(n) == (-RunTime)..n \cup {None}

\* Types of the outbox, of the workers and of the runs.
TypeOK ==
    /\ status \in [Rows -> Stored \cup {"new", "gone"}]
    /\ attempts \in [Rows -> Nat]
    /\ dueIn \in [Rows -> Timer(MaxBackoff)] /\ leaseLeft \in [Rows -> Timer(Lease)]
    /\ log \in [Rows -> Seq([sent : Nat, ok : BOOLEAN, final : BOOLEAN])]
    /\ rule \in {"enabled", "disabled", "deleted"} /\ emailKey \in BOOLEAN
    /\ queue \subseteq Rows
    /\ pc \in [Workers -> {"idle", "read", "http", "apply"}]
    /\ row \in [Workers -> Rows \cup {None}]
    /\ by \in [Workers -> Runs \cup {None}]
    /\ snap \in [Workers -> Nat]
    /\ verdict \in [Workers -> {"success", "failure", "throttled", "permanent", "terminal", None}]
    /\ age \in [Workers -> Nat]
    /\ runAge \in [Runs -> Nat \cup {None}]
    /\ doomed \subseteq Rows /\ old \subseteq Rows
    /\ requeues \in [Rows -> Nat] /\ crashes \in Nat /\ edits \in Nat

\* The n-th stored attempt is the result of a try that told the receiver it was
\* the n-th (X-Shellui-Delivery-Attempt), although the dispatch pool and any
\* number of retry runs may try one row at once.
AttemptsNumbered ==
    \A r \in Rows : status[r] \in Stored =>
        /\ Len(log[r]) = attempts[r]
        /\ \A n \in DOMAIN log[r] : log[r][n].sent = n

\* A delivered or dead row is never tried into another status by a late result:
\* only a requeue reopens it, only a deletion removes it.
FinishedStays ==
    [][\A r \in Rows :
         status[r] \in Finished /\ status'[r] # status[r] =>
            status'[r] = "gone" \/ Requeue(r)]_vars

\* The status is what the last attempt left: delivered exactly after a success,
\* waiting for another try after a failure worth one, and given up early only
\* when the receiver refused for good or the rule or the key was gone.  Every
\* requeue buys at most one try beyond the limit.
StatusFollowsLastAttempt ==
    \A r \in Rows :
        LET last == log[r][attempts[r]]
        IN  /\ status[r] = "delivered" => attempts[r] > 0 /\ last.ok
            /\ status[r] = "failed" =>
                /\ attempts[r] \in 1..(MaxAttempts - 1) /\ ~last.ok /\ ~last.final
                /\ dueIn[r] # None
            /\ status[r] = "dead" =>
                attempts[r] > 0 /\ ~last.ok /\ (last.final \/ attempts[r] >= MaxAttempts)
            /\ status[r] = "pending" /\ requeues[r] = 0 => attempts[r] = 0
            /\ attempts[r] <= MaxAttempts + requeues[r]

\* Two retry workers try one row at once only after one of the tries became
\* slow, however runs overlap: the lease a run writes from its own old clock
\* reading protects its tries for Lease - RunTime, and a try of the dispatch
\* pool that clears the lease leaves a backoff that protects for the rest of
\* Base.  A requeue clears the lease of a try in flight.
LeaseExclusive ==
    \A v, w \in Workers :
        /\ pc[v] # "idle" /\ pc[w] # "idle" /\ by[v] # None /\ by[w] # None
        /\ row[v] = row[w] /\ requeues[row[v]] = 0
        /\ age[v] < Slow /\ age[w] < Slow
        => v = w

Finishes(r) == status[r] \in Waiting ~> status[r] \in Finished \cup {"gone"}

\* A call for row r raises.
Raised(r) == \E w \in Workers : row[w] = r /\ Raise(w)

\* Every event that was stored is in the end delivered, given up, or deleted,
\* even if the container dies before the first try or in the middle of one,
\* and however many calls raise, unless they do so for ever.
RowsFinish == \A r \in Rows : []<><<Raised(r)>>_vars \/ Finishes(r)

\* A purge deletes nothing that waits for a try, unless staff requeued it, maybe
\* after the purge read its key: no late result or retry reopens a selected row
\* (_delete_in_batches deletes by key, whatever the row has become).
PurgeOnlyFinished ==
    [][DeleteExpired => \A r \in doomed : status[r] \in Waiting => requeues[r] > 0]_vars

=============================================================================
