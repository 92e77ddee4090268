---------------------------- MODULE ScheduledJobs ----------------------------
(***************************************************************************)
(* Runs of one scheduled job across containers: the Redis lock with its    *)
(* expiry (config/task_lock.py, apps/actions/tasks.py), the rows and       *)
(* counters that record each run, and the health that staff and the        *)
(* metrics read from them (apps/actions/scheduled_jobs.py).                *)
(*                                                                         *)
(* Beat of every container starts the job under the lock; an external      *)
(* scheduler runs the command without it.  Recording is a sequence of      *)
(* statements, each its own transaction, and a process may die between any *)
(* two.  Only the job's work takes time; a Tick passes it.                 *)
(***************************************************************************)
EXTENDS Naturals, FiniteSets, Sequences, SequencesExt

CONSTANTS
    Procs,      \* worker threads and processes that run the job
    Rows,       \* primary keys of ScheduledJobRun rows, used again once purged
    TTL,        \* expiry of the lock and max_runtime_seconds of the job, in ticks
    Overdue,    \* overdue_after_seconds of the job, in ticks
    MaxWork,    \* longest work of one run, in ticks; TTL + 1 for one that outlives the lock
    MaxFaults,  \* bound: deaths of processes, errors of Redis and of the database
    None        \* no lock, no row

ASSUME ScheduledJobsAssumption ==
    /\ TTL \in Nat \ {0} /\ MaxWork \in 0..(TTL + 1)
    /\ Overdue \in Nat /\ Overdue > TTL
    /\ MaxFaults \in Nat
    /\ None \notin Procs \cup Rows
    /\ "dead" \notin Procs

VARIABLES
    lock,       \* whose token the lock holds: a process, "dead" or None
    lockLeft,   \* ticks until the lock expires
    status,     \* status of each run row, "free" if there is no such row
    age,        \* ticks since started_at, told apart up to Overdue + 1
    starts,     \* the rows in the order of started_at
    counted,    \* how often runs.succeeded or runs.failed was increased for the row
    since,      \* ticks since last_success_at of ScheduledJobState, or since created_at
                \* before the first success; None while there is no such row
    started,    \* last_started_at is set
    pc,         \* the next step of each process
    run,        \* the row each process records its run in
    acquired,   \* the process runs the job under the lock
    verdict,    \* how the work of the run went
    closed,     \* rows the process has marked interrupted and not yet counted
    faults,     \* deaths and errors so far
    overrun,    \* history: rows marked interrupted while their process was at work
    lost,       \* history: rows whose increment was never made
    worked,     \* history: ticks since a run did its work, or since the state row was made
    missed      \* history: the last run that did its work was not written to the state row

records == <<status, age, starts, counted>>
jobState == <<since, started>>
locals == <<pc, run, acquired, verdict, closed>>
history == <<overrun, lost, worked, missed>>
vars == <<lock, lockLeft, records, jobState, locals, faults, history>>

Finished == {"succeeded", "failed"}

Init ==
    /\ lock = None
    /\ lockLeft = 0
    /\ status = [r \in Rows |-> "free"]
    /\ age = [r \in Rows |-> 0]
    /\ starts = <<>>
    /\ counted = [r \in Rows |-> 0]
    /\ since = None
    /\ started = FALSE
    /\ pc = [p \in Procs |-> "idle"]
    /\ run = [p \in Procs |-> None]
    /\ acquired = [p \in Procs |-> FALSE]
    /\ verdict = [p \in Procs |-> "succeeded"]
    /\ closed = [p \in Procs |-> {}]
    /\ faults = 0
    /\ overrun = {}
    /\ lost = {}
    /\ worked = 0
    /\ missed = FALSE

Goto(p, l) == pc' = [pc EXCEPT ![p] = l]

Owned == {run[p] : p \in Procs} \ {None}

\* Rows that a process has still to finish.
AtWork ==
    {run[p] : p \in {q \in Procs : pc[q] \in {"start", "mark", "count_closed", "work", "save"}}}

\* The bound on Rows: one is left for every process about to write its row.
Room ==
    Cardinality({q \in Procs : pc[q] = "create"}) < Cardinality({r \in Rows : status[r] = "free"})

(***************************************************************************)
(* Start of a run                                                          *)
(***************************************************************************)

\* Mutation: SET NX without an expiry.
NoExpiry(p) ==
    /\ pc[p] = "idle"
    /\ Room
    /\ lock = None
    /\ lock' = p
    /\ acquired' = [acquired EXCEPT ![p] = TRUE]
    /\ Goto(p, "create")
    /\ UNCHANGED <<lockLeft, records, jobState, run, verdict, closed, faults, history>>

\* _run_locked: SET NX EX.
task_lock(p) ==
    /\ pc[p] = "idle"
    /\ Room
    /\ lock = None
    /\ lock' = p
    /\ lockLeft' = TTL
    /\ acquired' = [acquired EXCEPT ![p] = TRUE]
    /\ Goto(p, "create")
    /\ UNCHANGED <<records, jobState, run, verdict, closed, faults, history>>

\* _ensure_state and ensure_states: get_or_create of the state row.
EnsureState ==
    /\ since' = IF since = None THEN 0 ELSE since
    /\ worked' = IF since = None THEN 0 ELSE worked

\* Another run has the lock.  The counter of skipped runs and last_skipped_at
\* are shown and no other part reads them.
record_skipped(p) ==
    /\ pc[p] = "idle" /\ lock # None
    /\ EnsureState
    /\ UNCHANGED <<lock, lockLeft, records, started, locals, faults, overrun, lost, missed>>

\* Redis does not answer, or a skip cannot be recorded:
\* record_failure_before_start records a failed run.
LockError(p) ==
    /\ pc[p] = "idle"
    /\ Room
    /\ faults < MaxFaults
    /\ faults' = faults + 1
    /\ verdict' = [verdict EXCEPT ![p] = "failed"]
    /\ Goto(p, "create")
    /\ UNCHANGED <<lock, lockLeft, records, jobState, run, acquired, closed, history>>

\* An external scheduler or staff run the management command.
Command(p) ==
    /\ pc[p] = "idle"
    /\ Room
    /\ Goto(p, "create")
    /\ UNCHANGED <<lock, lockLeft, records, jobState, run, acquired, verdict, closed, faults,
                   history>>

\* record_run writes the row of the run ...
record_run(p) ==
    /\ pc[p] = "create"
    /\ \E r \in Rows :
        /\ status[r] = "free"
        /\ status' = [status EXCEPT ![r] = "running"]
        /\ age' = [age EXCEPT ![r] = 0]
        /\ starts' = Append(starts, r)
        /\ run' = [run EXCEPT ![p] = r]
    /\ Goto(p, "start")
    /\ UNCHANGED <<lock, lockLeft, counted, jobState, acquired, verdict, closed, faults, history>>

\* ... and last_started_at of the state row.
RecordStart(p) ==
    /\ pc[p] = "start"
    /\ EnsureState
    /\ started' = TRUE
    /\ Goto(p, "mark")
    /\ UNCHANGED <<lock, lockLeft, records, run, acquired, verdict, closed, faults, overrun, lost,
                   missed>>

\* Mutation: any other running row is closed.
AnyRunning(p) == {r \in Rows \ {run[p]} : status[r] = "running"}

\* Rows that started more than max_runtime_seconds before this run.
Stale(p) == {r \in Rows \ {run[p]} : status[r] = "running" /\ age[r] > TTL}

\* _mark_interrupted: one UPDATE ...
MarkInterrupted(p) ==
    /\ pc[p] = "mark"
    /\ status' = [r \in Rows |-> IF r \in Stale(p) THEN "failed" ELSE status[r]]
    /\ closed' = [closed EXCEPT ![p] = Stale(p)]
    /\ overrun' = overrun \cup (Stale(p) \cap AtWork)
    /\ Goto(p, "count_closed")
    /\ UNCHANGED <<lock, lockLeft, age, starts, counted, jobState, run, acquired, verdict, faults,
                   lost, worked, missed>>

\* ... then runs.failed grows by the number of rows it changed.
CountInterrupted(p) ==
    /\ pc[p] = "count_closed"
    /\ counted' = [r \in Rows |-> IF r \in closed[p] THEN counted[r] + 1 ELSE counted[r]]
    /\ closed' = [closed EXCEPT ![p] = {}]
    /\ Goto(p, "work")
    /\ UNCHANGED <<lock, lockLeft, status, age, starts, jobState, run, acquired, verdict, faults,
                   history>>

(***************************************************************************)
(* End of a run                                                            *)
(***************************************************************************)

\* The command returns or raises.  A run that failed before it started has
\* nothing to do.
Work(p) ==
    /\ pc[p] = "work"
    /\ \/ UNCHANGED verdict
       \/ verdict[p] = "succeeded" /\ verdict' = [verdict EXCEPT ![p] = "failed"]
    /\ worked' = IF verdict'[p] = "succeeded" THEN 0 ELSE worked
    /\ Goto(p, "save")
    /\ UNCHANGED <<lock, lockLeft, records, jobState, run, acquired, closed, faults, overrun, lost,
                   missed>>

\* _finish writes the outcome, whatever the row says by then ...
Finish(p) ==
    /\ pc[p] = "save"
    /\ status' = [status EXCEPT ![run[p]] = verdict[p]]
    /\ Goto(p, "state")
    /\ UNCHANGED <<lock, lockLeft, age, starts, counted, jobState, run, acquired, verdict, closed,
                   faults, history>>

\* Mutation: last_success_at moves whatever the outcome.
AnyOutcome(p) == TRUE

\* The run did its work: last_success_at moves, not last_failure_at.
Succeeded(p) == verdict[p] = "succeeded"

\* ... then last_success_at or last_failure_at of the state row ...
FinishState(p) ==
    /\ pc[p] = "state"
    /\ since' = IF Succeeded(p) THEN 0 ELSE since
    /\ missed' = (missed /\ ~Succeeded(p))
    /\ Goto(p, "count")
    /\ UNCHANGED <<lock, lockLeft, records, started, run, acquired, verdict, closed, faults,
                   overrun, lost, worked>>

\* ... and counts the run.
Increment(p) ==
    /\ pc[p] = "count"
    /\ counted' = [counted EXCEPT ![run[p]] = @ + 1]
    /\ Goto(p, "release")
    /\ UNCHANGED <<lock, lockLeft, status, age, starts, jobState, run, acquired, verdict, closed,
                   faults, history>>

\* Death or an error of p takes with it what it has not written yet.
Lose(p) ==
    /\ lost' = lost \cup closed[p] \cup IF pc[p] \in {"state", "count"} THEN {run[p]} ELSE {}
    /\ missed' = (missed \/ (pc[p] \in {"save", "state"} /\ verdict[p] = "succeeded"))

\* A statement of the recording fails.  Before the work the run ends there;
\* after it the error is only logged.
RecordError(p) ==
    /\ pc[p] \in {"create", "start", "mark", "count_closed", "save", "state", "count"}
    /\ faults < MaxFaults
    /\ faults' = faults + 1
    /\ Lose(p)
    /\ closed' = [closed EXCEPT ![p] = {}]
    /\ Goto(p, "release")
    /\ UNCHANGED <<lock, lockLeft, records, jobState, run, acquired, verdict, overrun, worked>>

Forget(p) ==
    /\ Goto(p, "idle")
    /\ run' = [run EXCEPT ![p] = None]
    /\ acquired' = [acquired EXCEPT ![p] = FALSE]
    /\ verdict' = [verdict EXCEPT ![p] = "succeeded"]
    /\ closed' = [closed EXCEPT ![p] = {}]

\* Mutation: the lock is deleted whoever's token it holds.
DeleteKey(p) == acquired[p]

\* The release script deletes the key only if it still holds the run's token.
OwnToken(p) == acquired[p] /\ lock = p

Release(p) ==
    /\ pc[p] = "release"
    /\ lock' = IF OwnToken(p) THEN None ELSE lock
    /\ lockLeft' = IF OwnToken(p) THEN 0 ELSE lockLeft
    /\ Forget(p)
    /\ UNCHANGED <<records, jobState, faults, history>>

\* Redis does not answer: the lock is left to expire.
ReleaseError(p) ==
    /\ pc[p] = "release" /\ acquired[p]
    /\ faults < MaxFaults
    /\ faults' = faults + 1
    /\ lock' = IF lock = p THEN "dead" ELSE lock
    /\ Forget(p)
    /\ UNCHANGED <<lockLeft, records, jobState, history>>

\* The process dies; the lock stays until it expires, the row stays as it is.
Crash(p) ==
    /\ pc[p] # "idle"
    /\ faults < MaxFaults
    /\ faults' = faults + 1
    /\ lock' = IF lock = p THEN "dead" ELSE lock
    /\ Lose(p)
    /\ Forget(p)
    /\ UNCHANGED <<lockLeft, records, jobState, overrun, worked>>

(***************************************************************************)
(* Health                                                                  *)
(***************************************************************************)

\* The newest finished run by started_at, as a set of at most one row.
last_finished ==
    LET finished == SelectSeq(starts, LAMBDA r : status[r] # "running")
    IN  IF finished = <<>> THEN {} ELSE {Last(finished)}

is_overdue == since > Overdue

compute_health(enabled) ==
    CASE ~enabled /\ ~started /\ last_finished = {} -> "disabled"
      [] \E r \in last_finished : status[r] = "failed" -> "failing"
      [] is_overdue -> "overdue"
      [] OTHER -> "healthy"

\* GET scheduled-jobs and the metrics collector make the state row if there is
\* none yet; all else they do is reading, of the health among others.
jobs_overview ==
    /\ EnsureState
    /\ UNCHANGED <<lock, lockLeft, records, started, locals, faults, overrun, lost, missed>>

(***************************************************************************)
(* Retention and time                                                      *)
(***************************************************************************)

\* purge_old_runs, days after any run has ended.
purge_old_runs(r) ==
    /\ status[r] # "free" /\ age[r] > Overdue
    /\ r \notin Owned
    /\ status' = [status EXCEPT ![r] = "free"]
    /\ counted' = [counted EXCEPT ![r] = 0]
    /\ age' = [age EXCEPT ![r] = 0]
    /\ starts' = SelectSeq(starts, LAMBDA s : s # r)
    /\ overrun' = overrun \ {r}
    /\ lost' = lost \ {r}
    /\ closed' = [p \in Procs |-> closed[p] \ {r}]
    /\ UNCHANGED <<lock, lockLeft, jobState, pc, run, acquired, verdict, faults, worked, missed>>

Later(t) == IF t > Overdue THEN t ELSE t + 1

Tick ==
    /\ \A p \in Procs : pc[p] \in {"idle", "work"}
    /\ \A p \in Procs : pc[p] = "work" => verdict[p] = "succeeded" /\ age[run[p]] < MaxWork
    /\ age' = [r \in Rows |-> IF status[r] = "free" THEN 0 ELSE Later(age[r])]
    /\ since' = IF since = None THEN None ELSE Later(since)
    /\ worked' = IF since = None THEN 0 ELSE Later(worked)
    /\ lockLeft' = IF lockLeft = 0 THEN 0 ELSE lockLeft - 1
    /\ lock' = IF lockLeft = 1 THEN None ELSE lock
    /\ UNCHANGED <<status, starts, counted, started, locals, faults, overrun, lost, missed>>

(***************************************************************************)
(* Specification                                                           *)
(***************************************************************************)

Step(p) ==
    \/ record_run(p) \/ RecordStart(p) \/ MarkInterrupted(p) \/ CountInterrupted(p)
    \/ Work(p) \/ Finish(p) \/ FinishState(p) \/ Increment(p) \/ Release(p)

Next ==
    \/ \E p \in Procs :
        task_lock(p) \/ record_skipped(p) \/ LockError(p) \/ Command(p) \/ Step(p)
            \/ RecordError(p) \/ ReleaseError(p) \/ Crash(p)
    \/ \E r \in Rows : purge_old_runs(r)
    \/ jobs_overview
    \/ Tick

Spec == Init /\ [][Next]_vars

\* A process goes on with its run, beat starts the job again and again, time
\* passes, and the hourly purge frees the rows of finished runs.
Fairness ==
    /\ \A p \in Procs : WF_vars(Step(p)) /\ WF_vars(task_lock(p))
    /\ SF_vars(Tick)
    /\ \A r \in Rows : WF_vars(status[r] \in Finished /\ purge_old_runs(r))

FairSpec == Spec /\ Fairness

(***************************************************************************)
(* Properties                                                              *)
(***************************************************************************)

\* Types of the lock, of the run rows and of the processes.
TypeOK ==
    /\ lock \in Procs \cup {"dead", None}
    /\ lockLeft \in 0..TTL
    /\ status \in [Rows -> Finished \cup {"free", "running"}]
    /\ age \in [Rows -> 0..(Overdue + 1)]
    /\ since \in 0..(Overdue + 1) \cup {None}
    /\ started \in BOOLEAN
    /\ counted \in [Rows -> Nat]
    /\ pc \in [Procs -> {"idle", "create", "start", "mark", "count_closed", "work", "save",
                         "state", "count", "release"}]
    /\ run \in [Procs -> Rows \cup {None}]
    /\ acquired \in [Procs -> BOOLEAN]
    /\ verdict \in [Procs -> Finished]
    /\ closed \in [Procs -> SUBSET Rows]
    /\ faults \in 0..MaxFaults
    /\ overrun \subseteq Rows /\ lost \subseteq Rows
    /\ worked \in 0..(Overdue + 1) /\ missed \in BOOLEAN

Outlived(p) == run[p] # None /\ age[run[p]] >= TTL

\* Two runs hold the job at once only if one of them has outlived its lock: a
\* run that ends late does not give the lock of the next run away, and no
\* death, error or expiry lets two timely runs in (task_lock).
LockExclusive ==
    \A p, q \in Procs : acquired[p] /\ acquired[q] /\ p # q => Outlived(p) \/ Outlived(q)

\* Rows whose outcome is written and not yet counted.
Uncounted ==
    {r \in Rows : \E p \in Procs :
        r \in closed[p] \/ (run[p] = r /\ pc[p] \in {"state", "count"})}

\* Each run is counted exactly once as succeeded or failed, although its own
\* process and any later run may close its row, except where the increment was
\* lost to an error or a death, or the run was closed while it still worked
\* after its time (_finish, _mark_interrupted and _increment).
CountedOnce ==
    \A r \in Rows \ (Uncounted \cup lost) :
        ~(r \in overrun /\ age[r] > TTL) =>
            counted[r] = IF status[r] \in Finished THEN 1 ELSE 0

\* A run has done its work and is on the way to write so.
Reporting == \E p \in Procs : pc[p] \in {"save", "state"} /\ verdict[p] = "succeeded"

\* Health tells the truth about the work, whatever two runs and their records
\* interleave and lose.  A job shown healthy did its work within the limit, or
\* is not monitored for longer; a job shown overdue did not, unless the success
\* of its last run is still to be recorded or could not be; and a scheduler
\* shown disabled has no finished run (compute_health over _finish and record_run).
HealthTruthful ==
    \A enabled \in BOOLEAN :
        LET health == compute_health(enabled)
        IN  since # None =>
                /\ health = "healthy" => worked <= Overdue
                /\ health = "overdue" => worked > Overdue \/ missed \/ Reporting
                /\ health = "disabled" => \A r \in Rows : status[r] \notin Finished

\* The row of a run whose process died does not stay running: the lock expires
\* and a later run closes the row.
DeadRunsClosed == \A r \in Rows : status[r] = "running" ~> status[r] # "running"

=============================================================================
