------------------------- MODULE ScheduledJobsProofs -------------------------
(***************************************************************************)
(* Proofs about ScheduledJobs for any number of processes and rows, any    *)
(* expiry and any limit: the lock, the counters and the health of the job. *)
(***************************************************************************)
EXTENDS ScheduledJobs, TLAPS

(***************************************************************************)
(* The inductive invariant                                                 *)
(***************************************************************************)

\* Each process has a row of its own from record_run on, which is not purged.
Ownership ==
    /\ \A p \in Procs :
        /\ pc[p] \in {"idle", "create"} => run[p] = None
        /\ pc[p] \notin {"idle", "create", "release"} => run[p] # None
        /\ run[p] # None => status[run[p]] # "free"
        /\ closed[p] # {} => pc[p] = "count_closed"
        /\ acquired[p] => pc[p] # "idle"
    /\ \A p, q \in Procs : run[p] # None /\ run[p] = run[q] => p = q

\* A run under the lock has the lock until it outlives it: the time it has taken
\* and the time the lock has left are the whole expiry.
TimelyHold ==
    \A p \in Procs : acquired[p] /\ ~Outlived(p) =>
        /\ lock = p
        /\ lockLeft = IF run[p] = None THEN TTL ELSE TTL - age[run[p]]

\* A run that was closed at work is old, and its row stays finished.
Overran == \A r \in overrun : age[r] > TTL /\ status[r] \in Finished

\* A row without an outcome has not been counted.
Open == \A r \in Rows : status[r] \notin Finished => counted[r] = 0

\* A run at work finds its row as it left it, or was closed meanwhile.
Running ==
    \A p \in Procs : pc[p] \in {"start", "mark", "count_closed", "work", "save"} =>
        status[run[p]] = "running" \/ run[p] \in overrun

\* A run that has written its outcome counts it next.
Finishing ==
    \A p \in Procs : pc[p] \in {"state", "count"} =>
        status[run[p]] \in Finished /\ (run[p] \notin overrun => counted[run[p]] = 0)

\* A row that was marked interrupted is about to be counted by one process, and
\* its own does not write it any more.
Closing ==
    \A p \in Procs : \A r \in closed[p] :
        /\ status[r] \in Finished
        /\ \A q \in Procs : r \in closed[q] => q = p
        /\ r \notin overrun =>
            counted[r] = 0 /\ \A q \in Procs : run[q] = r => pc[q] = "release"

\* An outcome that nobody is about to count and that was not lost was counted once.
Counts ==
    \A r \in Rows :
        /\ status[r] \in Finished
        /\ r \notin lost \cup overrun
        /\ \A p \in Procs : r \notin closed[p] /\ (run[p] = r => pc[p] \notin {"state", "count"})
        => counted[r] = 1

\* Whoever writes an outcome has written last_started_at before.
Started ==
    /\ \A p \in Procs : pc[p] \notin {"idle", "create", "start", "release"} => started
    /\ \A r \in Rows : status[r] \in Finished => started

\* No time passes between the work of a run and its record, and the time of the
\* last success is the time of the last work unless a record is missing.
Recorded ==
    /\ \A p \in Procs : pc[p] \in {"save", "state"} /\ verdict[p] = "succeeded" => worked = 0
    /\ since # None => worked =< since /\ (worked = since \/ missed \/ Reporting)

IInv ==
    /\ TypeOK
    /\ Ownership
    /\ TimelyHold
    /\ Overran /\ Open /\ Running /\ Finishing /\ Closing /\ Counts
    /\ Started /\ Recorded

(***************************************************************************)
(* Helpers                                                                 *)
(***************************************************************************)

\* The rows that processes are at work on.
LEMMA AtWorkMember ==
    ASSUME NEW r
    PROVE  r \in AtWork <=> \E q \in Procs :
               run[q] = r /\ pc[q] \in {"start", "mark", "count_closed", "work", "save"}
BY DEF AtWork

\* A row is no longer open once nobody is about to count it.
LEMMA CountsSuffice == IInv => CountedOnce
<1> SUFFICES ASSUME IInv, NEW r \in Rows \ (Uncounted \cup lost), ~(r \in overrun /\ age[r] > TTL)
             PROVE  counted[r] = IF status[r] \in Finished THEN 1 ELSE 0
  BY DEF CountedOnce
<1>1. r \notin overrun BY DEF IInv, Overran
<1>2. \A p \in Procs : r \notin closed[p] /\ (run[p] = r => pc[p] \notin {"state", "count"})
  BY DEF Uncounted
<1>3. CASE status[r] \in Finished BY <1>1, <1>2, <1>3 DEF IInv, Counts
<1>4. CASE status[r] \notin Finished BY <1>4 DEF IInv, Open
<1> QED BY <1>3, <1>4

\* Time goes by up to the bound.
LEMMA LaterRange ==
    ASSUME NEW t \in 0..(Overdue + 1)
    PROVE  /\ Later(t) \in 0..(Overdue + 1)
           /\ t =< Overdue => Later(t) = t + 1
           /\ t > Overdue => Later(t) = t
BY ScheduledJobsAssumption DEF Later

(***************************************************************************)
(* Steps                                                                   *)
(***************************************************************************)

\* A run takes the lock: no timely run had it.
LEMMA TaskLockStep ==
    ASSUME IInv, NEW p \in Procs, task_lock(p)
    PROVE  IInv'
<1>1. /\ lock = None /\ lock' = p /\ lockLeft' = TTL
      /\ pc[p] = "idle" /\ pc' = [pc EXCEPT ![p] = "create"]
      /\ acquired' = [acquired EXCEPT ![p] = TRUE]
      /\ UNCHANGED <<status, age, counted, since, started, run, verdict, closed, faults,
                     overrun, lost, worked, missed>>
  BY DEF task_lock, Goto, records, jobState, history
<1>2. TypeOK' BY <1>1, ScheduledJobsAssumption DEF IInv, TypeOK
<1>3. Ownership' BY <1>1, <1>2 DEF IInv, TypeOK, Ownership
<1>4. TimelyHold' BY <1>1, <1>2, ScheduledJobsAssumption DEF IInv, TypeOK, Ownership, TimelyHold, Outlived
<1>5. Running' BY <1>1 DEF IInv, TypeOK, Ownership, Running
<1>6. Finishing' BY <1>1 DEF IInv, TypeOK, Ownership, Finishing
<1>7. Closing' BY <1>1 DEF IInv, TypeOK, Ownership, Closing
<1>8. Counts' BY <1>1 DEF IInv, TypeOK, Ownership, Counts
<1>9. Started' BY <1>1 DEF IInv, TypeOK, Started
<1>10. Recorded' BY <1>1, ScheduledJobsAssumption DEF IInv, TypeOK, Recorded, Reporting
<1>11. Overran' /\ Open'
  BY <1>1 DEF IInv, Overran, Open
<1> QED BY <1>2, <1>3, <1>4, <1>5, <1>6, <1>7, <1>8, <1>9, <1>10, <1>11 DEF IInv

\* The state row is made, or is there.
LEMMA EnsureStep ==
    ASSUME IInv, EnsureState,
           UNCHANGED <<lock, lockLeft, records, started, locals, faults, overrun, lost, missed>>
    PROVE  IInv'
<1>1. /\ since' = IF since = None THEN 0 ELSE since
      /\ worked' = IF since = None THEN 0 ELSE worked
      /\ UNCHANGED <<lock, lockLeft, status, age, counted, started, pc, run, acquired, verdict,
                     closed, faults, overrun, lost, missed>>
  BY DEF EnsureState, records, locals
<1>2. TypeOK' BY <1>1, ScheduledJobsAssumption DEF IInv, TypeOK
<1>3. Recorded' BY <1>1, ScheduledJobsAssumption DEF IInv, TypeOK, Recorded, Reporting
<1>4. Ownership' /\ TimelyHold' /\ Overran' /\ Open' /\ Running' /\ Finishing' /\ Closing' /\ Counts' /\ Started'
  BY <1>1 DEF IInv, Ownership, TimelyHold, Overran, Open, Running, Finishing, Closing, Counts, Started, Outlived
<1> QED BY <1>2, <1>3, <1>4 DEF IInv

\* Redis does not answer.
LEMMA LockErrorStep ==
    ASSUME IInv, NEW p \in Procs, LockError(p)
    PROVE  IInv'
<1>1. /\ pc[p] = "idle" /\ pc' = [pc EXCEPT ![p] = "create"]
      /\ verdict' = [verdict EXCEPT ![p] = "failed"]
      /\ faults < MaxFaults /\ faults' = faults + 1
      /\ UNCHANGED <<lock, lockLeft, status, age, counted, since, started, run, acquired,
                     closed, overrun, lost, worked, missed>>
  BY DEF LockError, Goto, records, jobState, history
<1>2. TypeOK' BY <1>1, ScheduledJobsAssumption DEF IInv, TypeOK, Finished
<1>3. Ownership' BY <1>1, <1>2 DEF IInv, TypeOK, Ownership
<1>4. Running' BY <1>1 DEF IInv, TypeOK, Ownership, Running
<1>5. Finishing' BY <1>1 DEF IInv, TypeOK, Ownership, Finishing
<1>6. Closing' BY <1>1 DEF IInv, TypeOK, Ownership, Closing
<1>7. Counts' BY <1>1 DEF IInv, TypeOK, Ownership, Counts
<1>8. Started' BY <1>1 DEF IInv, TypeOK, Started
<1>9. Recorded' BY <1>1, ScheduledJobsAssumption DEF IInv, TypeOK, Recorded, Reporting
<1>10. TimelyHold' /\ Overran' /\ Open'
  BY <1>1 DEF IInv, TimelyHold, Overran, Open, Outlived
<1> QED BY <1>2, <1>3, <1>4, <1>5, <1>6, <1>7, <1>8, <1>9, <1>10 DEF IInv

\* A management command starts without the lock.
LEMMA CommandStep ==
    ASSUME IInv, NEW p \in Procs, Command(p)
    PROVE  IInv'
<1>1. /\ pc[p] = "idle" /\ pc' = [pc EXCEPT ![p] = "create"]
      /\ UNCHANGED <<lock, lockLeft, status, age, counted, since, started, run, acquired,
                     verdict, closed, faults, overrun, lost, worked, missed>>
  BY DEF Command, Goto, records, jobState, history
<1>2. TypeOK' BY <1>1, ScheduledJobsAssumption DEF IInv, TypeOK
<1>3. Ownership' BY <1>1, <1>2 DEF IInv, TypeOK, Ownership
<1>4. Running' BY <1>1 DEF IInv, TypeOK, Ownership, Running
<1>5. Finishing' BY <1>1 DEF IInv, TypeOK, Ownership, Finishing
<1>6. Closing' BY <1>1 DEF IInv, TypeOK, Ownership, Closing
<1>7. Counts' BY <1>1 DEF IInv, TypeOK, Ownership, Counts
<1>8. Started' BY <1>1 DEF IInv, TypeOK, Started
<1>9. Recorded' BY <1>1, ScheduledJobsAssumption DEF IInv, TypeOK, Recorded, Reporting
<1>10. TimelyHold' /\ Overran' /\ Open'
  BY <1>1 DEF IInv, TimelyHold, Overran, Open, Outlived
<1> QED BY <1>2, <1>3, <1>4, <1>5, <1>6, <1>7, <1>8, <1>9, <1>10 DEF IInv

\* A run writes its row.
LEMMA RecordRunStep ==
    ASSUME IInv, NEW p \in Procs, record_run(p)
    PROVE  IInv'
<1>0. PICK r \in Rows :
        /\ status[r] = "free"
        /\ status' = [status EXCEPT ![r] = "running"]
        /\ age' = [age EXCEPT ![r] = 0]
        /\ run' = [run EXCEPT ![p] = r]
  BY DEF record_run
<1>1. /\ pc[p] = "create" /\ pc' = [pc EXCEPT ![p] = "start"]
      /\ status[r] = "free" /\ status' = [status EXCEPT ![r] = "running"]
      /\ age' = [age EXCEPT ![r] = 0]
      /\ run' = [run EXCEPT ![p] = r]
      /\ UNCHANGED <<lock, lockLeft, counted, since, started, acquired, verdict, closed,
                     faults, overrun, lost, worked, missed>>
  BY <1>0 DEF record_run, Goto, jobState, history
<1>2. TypeOK' BY <1>1, ScheduledJobsAssumption DEF IInv, TypeOK, Finished
<1>3. Ownership' BY <1>1, <1>2, ScheduledJobsAssumption DEF IInv, TypeOK, Ownership
<1>4. TimelyHold' BY <1>1, <1>2, ScheduledJobsAssumption DEF IInv, TypeOK, Ownership, TimelyHold, Outlived
<1>5. Overran' BY <1>1, ScheduledJobsAssumption DEF IInv, TypeOK, Overran, Finished
<1>6. Open' BY <1>1, ScheduledJobsAssumption DEF IInv, TypeOK, Open, Finished
<1>7. Running' BY <1>1 DEF IInv, TypeOK, Ownership, Running
<1>8. Finishing' BY <1>1 DEF IInv, TypeOK, Ownership, Finishing
<1>9. Closing' BY <1>1, ScheduledJobsAssumption DEF IInv, TypeOK, Ownership, Closing, Finished
<1>10. Counts' BY <1>1, ScheduledJobsAssumption DEF IInv, TypeOK, Ownership, Counts, Finished
<1>11. Started' BY <1>1, ScheduledJobsAssumption DEF IInv, TypeOK, Started, Finished
<1>12. Recorded' BY <1>1, ScheduledJobsAssumption DEF IInv, TypeOK, Recorded, Reporting
<1> QED BY <1>2, <1>3, <1>4, <1>5, <1>6, <1>7, <1>8, <1>9, <1>10, <1>11, <1>12 DEF IInv

\* A run writes last_started_at.
LEMMA RecordStartStep ==
    ASSUME IInv, NEW p \in Procs, RecordStart(p)
    PROVE  IInv'
<1>1. /\ pc[p] = "start" /\ pc' = [pc EXCEPT ![p] = "mark"]
      /\ since' = IF since = None THEN 0 ELSE since
      /\ worked' = IF since = None THEN 0 ELSE worked
      /\ started' = TRUE
      /\ UNCHANGED <<lock, lockLeft, status, age, counted, run, acquired, verdict, closed,
                     faults, overrun, lost, missed>>
  BY DEF RecordStart, Goto, EnsureState, records
<1>2. TypeOK' BY <1>1, ScheduledJobsAssumption DEF IInv, TypeOK
<1>3. Ownership' BY <1>1, <1>2 DEF IInv, TypeOK, Ownership
<1>4. Running' BY <1>1 DEF IInv, TypeOK, Ownership, Running
<1>5. Finishing' BY <1>1 DEF IInv, TypeOK, Ownership, Finishing
<1>6. Closing' BY <1>1 DEF IInv, TypeOK, Ownership, Closing
<1>7. Counts' BY <1>1 DEF IInv, TypeOK, Ownership, Counts
<1>8. Started' BY <1>1 DEF IInv, TypeOK, Started
<1>9. Recorded' BY <1>1, ScheduledJobsAssumption DEF IInv, TypeOK, Recorded, Reporting
<1>10. TimelyHold' /\ Overran' /\ Open'
  BY <1>1 DEF IInv, TimelyHold, Overran, Open, Outlived
<1> QED BY <1>2, <1>3, <1>4, <1>5, <1>6, <1>7, <1>8, <1>9, <1>10 DEF IInv

\* A run marks the rows that are too old.
LEMMA MarkStep ==
    ASSUME IInv, NEW p \in Procs, MarkInterrupted(p)
    PROVE  IInv'
<1> DEFINE S == Stale(p)
<1>0. S \subseteq Rows /\ \A r \in S : status[r] = "running" /\ age[r] > TTL BY DEF Stale
<1> HIDE DEF S
<1>1. /\ pc[p] = "mark" /\ pc' = [pc EXCEPT ![p] = "count_closed"]
      /\ status' = [r \in Rows |-> IF r \in S THEN "failed" ELSE status[r]]
      /\ closed' = [closed EXCEPT ![p] = S]
      /\ overrun' = overrun \cup (S \cap AtWork)
      /\ UNCHANGED <<lock, lockLeft, age, counted, since, started, run, acquired, verdict,
                     faults, lost, worked, missed>>
  BY DEF MarkInterrupted, Goto, jobState, S
<1>2. TypeOK' BY <1>1, <1>0, ScheduledJobsAssumption DEF IInv, TypeOK, Finished
<1>3. Ownership' BY <1>1, <1>0, AtWorkMember, <1>2 DEF IInv, TypeOK, Ownership
<1>4. Overran' BY <1>1, <1>0, AtWorkMember, ScheduledJobsAssumption DEF IInv, TypeOK, Overran, Finished
<1>5. Open' BY <1>1, <1>0, AtWorkMember, ScheduledJobsAssumption DEF IInv, TypeOK, Open, Finished
<1>6. Running' BY <1>1, <1>0, AtWorkMember DEF IInv, TypeOK, Ownership, Running
<1>7. Finishing' BY <1>1, <1>0, AtWorkMember, ScheduledJobsAssumption DEF IInv, TypeOK, Ownership, Finishing, Finished
<1>8. Closing' BY <1>1, <1>0, AtWorkMember, ScheduledJobsAssumption DEF IInv, TypeOK, Ownership, Closing, Running, Finishing, Open, Overran, Finished
<1>9. Counts' BY <1>1, <1>0, AtWorkMember DEF IInv, TypeOK, Ownership, Counts
<1>10. Started' BY <1>1, <1>0, AtWorkMember DEF IInv, TypeOK, Started
<1>11. Recorded' BY <1>1, <1>0, AtWorkMember, ScheduledJobsAssumption DEF IInv, TypeOK, Recorded, Reporting
<1>12. TimelyHold'
  BY <1>1 DEF IInv, TimelyHold, Outlived
<1> QED BY <1>2, <1>3, <1>4, <1>5, <1>6, <1>7, <1>8, <1>9, <1>10, <1>11, <1>12 DEF IInv

\* The rows it marked are counted.
LEMMA CountStep ==
    ASSUME IInv, NEW p \in Procs, CountInterrupted(p)
    PROVE  IInv'
<1>1. /\ pc[p] = "count_closed" /\ pc' = [pc EXCEPT ![p] = "work"]
      /\ closed' = [closed EXCEPT ![p] = {}]
      /\ counted' = [r \in Rows |-> IF r \in closed[p] THEN counted[r] + 1 ELSE counted[r]]
      /\ UNCHANGED <<lock, lockLeft, status, age, since, started, run, acquired, verdict,
                     faults, overrun, lost, worked, missed>>
  BY DEF CountInterrupted, Goto, jobState, history
<1>2. TypeOK' BY <1>1, ScheduledJobsAssumption DEF IInv, TypeOK
<1>3. Ownership' BY <1>1, <1>2 DEF IInv, TypeOK, Ownership
<1>4. Open' BY <1>1, ScheduledJobsAssumption DEF IInv, TypeOK, Open, Closing
<1>5. Running' BY <1>1 DEF IInv, TypeOK, Ownership, Running
<1>6. Finishing' BY <1>1, ScheduledJobsAssumption DEF IInv, TypeOK, Ownership, Finishing, Closing
<1>7. Closing' BY <1>1 DEF IInv, TypeOK, Ownership, Closing
<1>8. Counts' BY <1>1, ScheduledJobsAssumption DEF IInv, TypeOK, Ownership, Counts, Closing
<1>9. Started' BY <1>1 DEF IInv, TypeOK, Started
<1>10. Recorded' BY <1>1, ScheduledJobsAssumption DEF IInv, TypeOK, Recorded, Reporting
<1>11. TimelyHold' /\ Overran'
  BY <1>1 DEF IInv, TimelyHold, Overran, Outlived
<1> QED BY <1>2, <1>3, <1>4, <1>5, <1>6, <1>7, <1>8, <1>9, <1>10, <1>11 DEF IInv

\* The work ends, well or not.
LEMMA WorkStep ==
    ASSUME IInv, NEW p \in Procs, Work(p)
    PROVE  IInv'
<1>0. PICK v \in Finished : verdict' = [verdict EXCEPT ![p] = v]
  BY DEF Work, IInv, TypeOK, Finished
<1>1. /\ pc[p] = "work" /\ pc' = [pc EXCEPT ![p] = "save"]
      /\ verdict' = [verdict EXCEPT ![p] = v]
      /\ worked' = IF v = "succeeded" THEN 0 ELSE worked
      /\ UNCHANGED <<lock, lockLeft, status, age, counted, since, started, run, acquired,
                     closed, faults, overrun, lost, missed>>
  BY <1>0 DEF Work, Goto, records, jobState, IInv, TypeOK
<1>2. TypeOK' BY <1>1, ScheduledJobsAssumption DEF IInv, TypeOK, Finished
<1>3. Ownership' BY <1>1, <1>2 DEF IInv, TypeOK, Ownership
<1>4. Running' BY <1>1 DEF IInv, TypeOK, Ownership, Running
<1>5. Finishing' BY <1>1 DEF IInv, TypeOK, Ownership, Finishing
<1>6. Closing' BY <1>1 DEF IInv, TypeOK, Ownership, Closing
<1>7. Counts' BY <1>1 DEF IInv, TypeOK, Ownership, Counts
<1>8. Started' BY <1>1 DEF IInv, TypeOK, Started
<1>9. Recorded' BY <1>1, ScheduledJobsAssumption DEF IInv, TypeOK, Recorded, Reporting
<1>10. TimelyHold' /\ Overran' /\ Open'
  BY <1>1 DEF IInv, TimelyHold, Overran, Open, Outlived
<1> QED BY <1>2, <1>3, <1>4, <1>5, <1>6, <1>7, <1>8, <1>9, <1>10 DEF IInv

\* A run writes its outcome.
LEMMA FinishStep ==
    ASSUME IInv, NEW p \in Procs, Finish(p)
    PROVE  IInv'
<1>1. /\ pc[p] = "save" /\ pc' = [pc EXCEPT ![p] = "state"]
      /\ status' = [status EXCEPT ![run[p]] = verdict[p]]
      /\ UNCHANGED <<lock, lockLeft, age, counted, since, started, run, acquired, verdict,
                     closed, faults, overrun, lost, worked, missed>>
  BY DEF Finish, Goto, jobState, history
<1>2. TypeOK' BY <1>1, ScheduledJobsAssumption DEF IInv, TypeOK
<1>3. Ownership' BY <1>1, <1>2, ScheduledJobsAssumption DEF IInv, TypeOK, Ownership, Finished
<1>4. Overran' BY <1>1, ScheduledJobsAssumption DEF IInv, TypeOK, Overran
<1>5. Open' BY <1>1 DEF IInv, TypeOK, Open
<1>6. Running' BY <1>1 DEF IInv, TypeOK, Ownership, Running
<1>7. Finishing' BY <1>1, ScheduledJobsAssumption DEF IInv, TypeOK, Ownership, Finishing, Running, Open, Finished
<1>8. Closing' BY <1>1 DEF IInv, TypeOK, Ownership, Closing
<1>9. Counts' BY <1>1 DEF IInv, TypeOK, Ownership, Counts
<1>10. Started' BY <1>1 DEF IInv, TypeOK, Started
<1>11. Recorded' BY <1>1, ScheduledJobsAssumption DEF IInv, TypeOK, Recorded, Reporting
<1>12. TimelyHold'
  BY <1>1 DEF IInv, TimelyHold, Outlived
<1> QED BY <1>2, <1>3, <1>4, <1>5, <1>6, <1>7, <1>8, <1>9, <1>10, <1>11, <1>12 DEF IInv

\* A run writes the time of its outcome.
LEMMA FinishStateStep ==
    ASSUME IInv, NEW p \in Procs, FinishState(p)
    PROVE  IInv'
<1>1. /\ pc[p] = "state" /\ pc' = [pc EXCEPT ![p] = "count"]
      /\ since' = IF verdict[p] = "succeeded" THEN 0 ELSE since
      /\ missed' = (missed /\ verdict[p] # "succeeded")
      /\ UNCHANGED <<lock, lockLeft, status, age, counted, started, run, acquired, verdict,
                     closed, faults, overrun, lost, worked>>
  BY DEF FinishState, Succeeded, Goto, records
<1>2. TypeOK' BY <1>1, ScheduledJobsAssumption DEF IInv, TypeOK
<1>3. Ownership' BY <1>1, <1>2 DEF IInv, TypeOK, Ownership
<1>4. Running' BY <1>1 DEF IInv, TypeOK, Ownership, Running
<1>5. Finishing' BY <1>1 DEF IInv, TypeOK, Ownership, Finishing
<1>6. Closing' BY <1>1 DEF IInv, TypeOK, Ownership, Closing
<1>7. Counts' BY <1>1 DEF IInv, TypeOK, Ownership, Counts
<1>8. Started' BY <1>1 DEF IInv, TypeOK, Started
<1>9. Recorded' BY <1>1, ScheduledJobsAssumption DEF IInv, TypeOK, Recorded, Reporting
<1>10. TimelyHold' /\ Overran' /\ Open'
  BY <1>1 DEF IInv, TimelyHold, Overran, Open, Outlived
<1> QED BY <1>2, <1>3, <1>4, <1>5, <1>6, <1>7, <1>8, <1>9, <1>10 DEF IInv

\* A run counts its outcome.
LEMMA IncrementStep ==
    ASSUME IInv, NEW p \in Procs, Increment(p)
    PROVE  IInv'
<1>1. /\ pc[p] = "count" /\ pc' = [pc EXCEPT ![p] = "release"]
      /\ counted' = [counted EXCEPT ![run[p]] = @ + 1]
      /\ UNCHANGED <<lock, lockLeft, status, age, since, started, run, acquired, verdict,
                     closed, faults, overrun, lost, worked, missed>>
  BY DEF Increment, Goto, jobState, history
<1>2. TypeOK' BY <1>1, ScheduledJobsAssumption DEF IInv, TypeOK, Ownership
<1>3. Ownership' BY <1>1, <1>2 DEF IInv, TypeOK, Ownership
<1>4. Open' BY <1>1, ScheduledJobsAssumption DEF IInv, TypeOK, Open, Ownership, Finishing
<1>5. Running' BY <1>1 DEF IInv, TypeOK, Ownership, Running
<1>6. Finishing' BY <1>1 DEF IInv, TypeOK, Ownership, Finishing
<1>7. Closing' BY <1>1 DEF IInv, TypeOK, Ownership, Closing
<1>8. Counts' BY <1>1, ScheduledJobsAssumption DEF IInv, TypeOK, Ownership, Counts, Finishing
<1>9. Started' BY <1>1 DEF IInv, TypeOK, Started
<1>10. Recorded' BY <1>1, ScheduledJobsAssumption DEF IInv, TypeOK, Recorded, Reporting
<1>11. TimelyHold' /\ Overran'
  BY <1>1 DEF IInv, TimelyHold, Overran, Outlived
<1> QED BY <1>2, <1>3, <1>4, <1>5, <1>6, <1>7, <1>8, <1>9, <1>10, <1>11 DEF IInv

\* A statement of the recording fails: what it would have written is lost.
LEMMA RecordErrorStep ==
    ASSUME IInv, NEW p \in Procs, RecordError(p)
    PROVE  IInv'
<1>1. /\ pc[p] # "idle" /\ pc' = [pc EXCEPT ![p] = "release"]
      /\ faults < MaxFaults /\ faults' = faults + 1
      /\ lost' = lost \cup closed[p] \cup IF pc[p] \in {"state", "count"} THEN {run[p]} ELSE {}
      /\ missed' = (missed \/ (pc[p] \in {"save", "state"} /\ verdict[p] = "succeeded"))
      /\ closed' = [closed EXCEPT ![p] = {}]
      /\ UNCHANGED <<lock, lockLeft, status, age, counted, since, started, run, acquired,
                     verdict, overrun, worked>>
  BY DEF RecordError, Lose, Goto, records, jobState
<1>2. TypeOK' BY <1>1, ScheduledJobsAssumption DEF IInv, TypeOK, Ownership
<1>3. Ownership' BY <1>1, <1>2 DEF IInv, TypeOK, Ownership
<1>4. Running' BY <1>1 DEF IInv, TypeOK, Ownership, Running
<1>5. Finishing' BY <1>1 DEF IInv, TypeOK, Ownership, Finishing
<1>6. Closing' BY <1>1 DEF IInv, TypeOK, Ownership, Closing
<1>7. Counts' BY <1>1 DEF IInv, TypeOK, Ownership, Counts
<1>8. Started' BY <1>1 DEF IInv, TypeOK, Started
<1>9. Recorded' BY <1>1, ScheduledJobsAssumption DEF IInv, TypeOK, Recorded, Reporting
<1>10. TimelyHold' /\ Overran' /\ Open'
  BY <1>1 DEF IInv, TimelyHold, Overran, Open, Outlived
<1> QED BY <1>2, <1>3, <1>4, <1>5, <1>6, <1>7, <1>8, <1>9, <1>10 DEF IInv

\* A run gives its lock back, and no other.
LEMMA ReleaseStep ==
    ASSUME IInv, NEW p \in Procs, Release(p)
    PROVE  IInv'
<1>1. /\ pc[p] = "release"
      /\ lock' = IF acquired[p] /\ lock = p THEN None ELSE lock
      /\ lockLeft' = IF acquired[p] /\ lock = p THEN 0 ELSE lockLeft
      /\ pc' = [pc EXCEPT ![p] = "idle"]
      /\ run' = [run EXCEPT ![p] = None]
      /\ acquired' = [acquired EXCEPT ![p] = FALSE]
      /\ verdict' = [verdict EXCEPT ![p] = "succeeded"]
      /\ closed' = [closed EXCEPT ![p] = {}]
      /\ UNCHANGED <<status, age, counted, since, started, faults, overrun, lost, worked,
                     missed>>
  BY DEF Release, OwnToken, Forget, Goto, records, jobState, history
<1>2. TypeOK' BY <1>1, ScheduledJobsAssumption DEF IInv, TypeOK, Finished
<1>3. Ownership' BY <1>1, <1>2 DEF IInv, TypeOK, Ownership
<1>4. TimelyHold' BY <1>1, <1>2, ScheduledJobsAssumption DEF IInv, TypeOK, Ownership, TimelyHold, Outlived
<1>5. Running' BY <1>1 DEF IInv, TypeOK, Ownership, Running
<1>6. Finishing' BY <1>1 DEF IInv, TypeOK, Ownership, Finishing
<1>7. Closing' BY <1>1, ScheduledJobsAssumption DEF IInv, TypeOK, Ownership, Closing
<1>8. Counts' BY <1>1 DEF IInv, TypeOK, Ownership, Counts
<1>9. Started' BY <1>1 DEF IInv, TypeOK, Started
<1>10. Recorded' BY <1>1, ScheduledJobsAssumption DEF IInv, TypeOK, Recorded, Reporting
<1>11. Overran' /\ Open'
  BY <1>1 DEF IInv, Overran, Open
<1> QED BY <1>2, <1>3, <1>4, <1>5, <1>6, <1>7, <1>8, <1>9, <1>10, <1>11 DEF IInv

\* The lock is left to expire.
LEMMA ReleaseErrorStep ==
    ASSUME IInv, NEW p \in Procs, ReleaseError(p)
    PROVE  IInv'
<1>1. /\ pc[p] = "release" /\ acquired[p]
      /\ faults < MaxFaults /\ faults' = faults + 1
      /\ lock' = IF lock = p THEN "dead" ELSE lock
      /\ pc' = [pc EXCEPT ![p] = "idle"]
      /\ run' = [run EXCEPT ![p] = None]
      /\ acquired' = [acquired EXCEPT ![p] = FALSE]
      /\ verdict' = [verdict EXCEPT ![p] = "succeeded"]
      /\ closed' = [closed EXCEPT ![p] = {}]
      /\ UNCHANGED <<lockLeft, status, age, counted, since, started, overrun, lost, worked,
                     missed>>
  BY DEF ReleaseError, Forget, Goto, records, jobState, history
<1>2. TypeOK' BY <1>1, ScheduledJobsAssumption DEF IInv, TypeOK, Finished
<1>3. Ownership' BY <1>1, <1>2 DEF IInv, TypeOK, Ownership
<1>4. TimelyHold' BY <1>1, <1>2, ScheduledJobsAssumption DEF IInv, TypeOK, Ownership, TimelyHold, Outlived
<1>5. Running' BY <1>1 DEF IInv, TypeOK, Ownership, Running
<1>6. Finishing' BY <1>1 DEF IInv, TypeOK, Ownership, Finishing
<1>7. Closing' BY <1>1, ScheduledJobsAssumption DEF IInv, TypeOK, Ownership, Closing
<1>8. Counts' BY <1>1 DEF IInv, TypeOK, Ownership, Counts
<1>9. Started' BY <1>1 DEF IInv, TypeOK, Started
<1>10. Recorded' BY <1>1, ScheduledJobsAssumption DEF IInv, TypeOK, Recorded, Reporting
<1>11. Overran' /\ Open'
  BY <1>1 DEF IInv, Overran, Open
<1> QED BY <1>2, <1>3, <1>4, <1>5, <1>6, <1>7, <1>8, <1>9, <1>10, <1>11 DEF IInv

\* A process dies: what it has not written is lost.
LEMMA CrashStep ==
    ASSUME IInv, NEW p \in Procs, Crash(p)
    PROVE  IInv'
<1>1. /\ pc[p] # "idle"
      /\ faults < MaxFaults /\ faults' = faults + 1
      /\ lock' = IF lock = p THEN "dead" ELSE lock
      /\ lost' = lost \cup closed[p] \cup IF pc[p] \in {"state", "count"} THEN {run[p]} ELSE {}
      /\ missed' = (missed \/ (pc[p] \in {"save", "state"} /\ verdict[p] = "succeeded"))
      /\ pc' = [pc EXCEPT ![p] = "idle"]
      /\ run' = [run EXCEPT ![p] = None]
      /\ acquired' = [acquired EXCEPT ![p] = FALSE]
      /\ verdict' = [verdict EXCEPT ![p] = "succeeded"]
      /\ closed' = [closed EXCEPT ![p] = {}]
      /\ UNCHANGED <<lockLeft, status, age, counted, since, started, overrun, worked>>
  BY DEF Crash, Lose, Forget, Goto, records, jobState
<1>2. TypeOK' BY <1>1, ScheduledJobsAssumption DEF IInv, TypeOK, Ownership, Finished
<1>3. Ownership' BY <1>1, <1>2 DEF IInv, TypeOK, Ownership
<1>4. TimelyHold' BY <1>1, <1>2, ScheduledJobsAssumption DEF IInv, TypeOK, Ownership, TimelyHold, Outlived
<1>5. Running' BY <1>1 DEF IInv, TypeOK, Ownership, Running
<1>6. Finishing' BY <1>1 DEF IInv, TypeOK, Ownership, Finishing
<1>7. Closing' BY <1>1, ScheduledJobsAssumption DEF IInv, TypeOK, Ownership, Closing
<1>8. Counts' BY <1>1 DEF IInv, TypeOK, Ownership, Counts
<1>9. Started' BY <1>1 DEF IInv, TypeOK, Started
<1>10. Recorded' BY <1>1, ScheduledJobsAssumption DEF IInv, TypeOK, Recorded, Reporting
<1>11. Overran' /\ Open'
  BY <1>1 DEF IInv, Overran, Open
<1> QED BY <1>2, <1>3, <1>4, <1>5, <1>6, <1>7, <1>8, <1>9, <1>10, <1>11 DEF IInv

\* An old row is purged.
LEMMA PurgeStep ==
    ASSUME IInv, NEW r \in Rows, purge_old_runs(r)
    PROVE  IInv'
<1>1. /\ status[r] # "free" /\ \A p \in Procs : run[p] # r
      /\ status' = [status EXCEPT ![r] = "free"]
      /\ counted' = [counted EXCEPT ![r] = 0]
      /\ age' = [age EXCEPT ![r] = 0]
      /\ overrun' = overrun \ {r} /\ lost' = lost \ {r}
      /\ closed' = [p \in Procs |-> closed[p] \ {r}]
      /\ UNCHANGED <<lock, lockLeft, since, started, pc, run, acquired, verdict, faults,
                     worked, missed>>
  BY ScheduledJobsAssumption DEF purge_old_runs, Owned, jobState
<1>2. TypeOK' BY <1>1, ScheduledJobsAssumption DEF IInv, TypeOK
<1>3. Ownership' BY <1>1, <1>2 DEF IInv, TypeOK, Ownership
<1>4. TimelyHold' BY <1>1, <1>2, ScheduledJobsAssumption DEF IInv, TypeOK, Ownership, TimelyHold, Outlived
<1>5. Overran' BY <1>1, ScheduledJobsAssumption DEF IInv, TypeOK, Overran
<1>6. Open' BY <1>1 DEF IInv, TypeOK, Open
<1>7. Running' BY <1>1 DEF IInv, TypeOK, Ownership, Running
<1>8. Finishing' BY <1>1 DEF IInv, TypeOK, Ownership, Finishing
<1>9. Closing' BY <1>1 DEF IInv, TypeOK, Ownership, Closing
<1>10. Counts' BY <1>1, ScheduledJobsAssumption DEF IInv, TypeOK, Ownership, Counts, Finished
<1>11. Started' BY <1>1, ScheduledJobsAssumption DEF IInv, TypeOK, Started, Finished
<1>12. Recorded'
  BY <1>1 DEF IInv, Recorded, Reporting
<1> QED BY <1>2, <1>3, <1>4, <1>5, <1>6, <1>7, <1>8, <1>9, <1>10, <1>11, <1>12 DEF IInv

\* Time passes while runs work.
LEMMA TickStep ==
    ASSUME IInv, Tick
    PROVE  IInv'
<1>1. /\ \A p \in Procs : pc[p] \in {"idle", "work"}
      /\ age' = [r \in Rows |-> IF status[r] = "free" THEN 0 ELSE Later(age[r])]
      /\ since' = IF since = None THEN None ELSE Later(since)
      /\ worked' = IF since = None THEN 0 ELSE Later(worked)
      /\ lockLeft' = IF lockLeft = 0 THEN 0 ELSE lockLeft - 1
      /\ lock' = IF lockLeft = 1 THEN None ELSE lock
      /\ UNCHANGED <<status, counted, started, pc, run, acquired, verdict, closed, faults,
                     overrun, lost, missed>>
  BY DEF Tick, locals
<1>2. TypeOK' BY <1>1, LaterRange, ScheduledJobsAssumption DEF IInv, TypeOK
<1>3. TimelyHold' BY <1>1, LaterRange, <1>2, ScheduledJobsAssumption DEF IInv, TypeOK, Ownership, TimelyHold, Outlived
<1>4. Overran' BY <1>1, LaterRange, ScheduledJobsAssumption DEF IInv, TypeOK, Overran, Finished
<1>5. Recorded' BY <1>1, LaterRange, ScheduledJobsAssumption DEF IInv, TypeOK, Recorded, Reporting
<1>6. Ownership' /\ Open' /\ Running' /\ Finishing' /\ Closing' /\ Counts' /\ Started'
  BY <1>1 DEF IInv, Ownership, Open, Running, Finishing, Closing, Counts, Started
<1> QED BY <1>2, <1>3, <1>4, <1>5, <1>6 DEF IInv

(***************************************************************************)
(* Theorems                                                                *)
(***************************************************************************)

\* A process and a database that start have no run, no lock and no row.
LEMMA InitInv == Init => IInv
<1> SUFFICES ASSUME Init PROVE IInv OBVIOUS
<1>1. TypeOK
  <2>1. acquired \in [Procs -> BOOLEAN] BY DEF Init
  <2>2. /\ status \in [Rows -> Finished \cup {"free", "running"}]
        /\ age \in [Rows -> 0..(Overdue + 1)]
        /\ counted \in [Rows -> Nat]
    BY ScheduledJobsAssumption DEF Init
  <2>3. /\ run \in [Procs -> Rows \cup {None}]
        /\ closed \in [Procs -> SUBSET Rows]
        /\ verdict \in [Procs -> Finished]
    BY DEF Init, Finished
  <2>4. started \in BOOLEAN /\ missed \in BOOLEAN BY DEF Init
  <2> QED BY <2>1, <2>2, <2>3, <2>4, ScheduledJobsAssumption DEF Init, TypeOK
<1>2. Ownership /\ TimelyHold BY DEF Init, Ownership, TimelyHold
<1>3. Overran /\ Open /\ Running /\ Finishing /\ Closing /\ Counts
  BY DEF Init, Overran, Open, Running, Finishing, Closing, Counts, Finished
<1>4. Started /\ Recorded BY DEF Init, Started, Recorded, Finished
<1> QED BY <1>1, <1>2, <1>3, <1>4 DEF IInv

\* Every step keeps the inductive invariant.
LEMMA NextInv == IInv /\ [Next]_vars => IInv'
<1> SUFFICES ASSUME IInv, [Next]_vars PROVE IInv' OBVIOUS
<1>1. CASE UNCHANGED vars
  BY <1>1 DEF vars, records, jobState, locals, history, IInv, TypeOK, Ownership, TimelyHold,
     Outlived, Overran, Open, Running, Finishing, Closing, Counts, Started, Recorded, Reporting
<1>2. ASSUME NEW p \in Procs,
             task_lock(p) \/ record_skipped(p) \/ LockError(p) \/ Command(p) \/ Step(p)
                \/ RecordError(p) \/ ReleaseError(p) \/ Crash(p)
      PROVE  IInv'
  <2>1. CASE task_lock(p) BY <2>1, TaskLockStep
  <2>2. CASE record_skipped(p) BY <2>2, EnsureStep DEF record_skipped
  <2>3. CASE LockError(p) BY <2>3, LockErrorStep
  <2>4. CASE Command(p) BY <2>4, CommandStep
  <2>5. CASE Step(p)
    <3>1. CASE record_run(p) BY <3>1, RecordRunStep
    <3>2. CASE RecordStart(p) BY <3>2, RecordStartStep
    <3>3. CASE MarkInterrupted(p) BY <3>3, MarkStep
    <3>4. CASE CountInterrupted(p) BY <3>4, CountStep
    <3>5. CASE Work(p) BY <3>5, WorkStep
    <3>6. CASE Finish(p) BY <3>6, FinishStep
    <3>7. CASE FinishState(p) BY <3>7, FinishStateStep
    <3>8. CASE Increment(p) BY <3>8, IncrementStep
    <3>9. CASE Release(p) BY <3>9, ReleaseStep
    <3> QED BY <2>5, <3>1, <3>2, <3>3, <3>4, <3>5, <3>6, <3>7, <3>8, <3>9 DEF Step
  <2>6. CASE RecordError(p) BY <2>6, RecordErrorStep
  <2>7. CASE ReleaseError(p) BY <2>7, ReleaseErrorStep
  <2>8. CASE Crash(p) BY <2>8, CrashStep
  <2> QED BY <1>2, <2>1, <2>2, <2>3, <2>4, <2>5, <2>6, <2>7, <2>8
<1>3. ASSUME NEW r \in Rows, purge_old_runs(r) PROVE IInv' BY <1>3, PurgeStep
<1>4. CASE jobs_overview BY <1>4, EnsureStep DEF jobs_overview
<1>5. CASE Tick BY <1>5, TickStep
<1> QED BY <1>1, <1>2, <1>3, <1>4, <1>5 DEF Next

\* The inductive invariant of the lock, the run rows and the state row.
THEOREM Invariance == Spec => []IInv
BY InitInv, NextInv, PTL DEF Spec

\* Types of the lock, the run rows, the state row and the processes.
THEOREM TypeCorrect == Spec => []TypeOK
<1>1. IInv => TypeOK BY DEF IInv
<1> QED BY <1>1, Invariance, PTL

\* Whatever processes, deaths and errors there are and however long the lock lasts,
\* two runs hold the job at once only after one of them has outlived its lock.
THEOREM OneTimelyRun == Spec => []LockExclusive
<1>1. IInv => LockExclusive BY ScheduledJobsAssumption DEF IInv, TimelyHold, LockExclusive
<1> QED BY <1>1, Invariance, PTL

\* Each run is counted once, but for increments that were lost and runs that were
\* closed while they worked.
THEOREM RunsCounted == Spec => []CountedOnce
BY CountsSuffice, Invariance, PTL

\* Health is never better than the work, nor worse but for a record that is missing.
THEOREM HealthTrue == Spec => []HealthTruthful
<1>1. IInv => HealthTruthful
  <2> SUFFICES ASSUME IInv, NEW enabled \in BOOLEAN, since # None
               PROVE  LET health == compute_health(enabled)
                      IN  /\ health = "healthy" => worked <= Overdue
                          /\ health = "overdue" => worked > Overdue \/ missed \/ Reporting
                          /\ health = "disabled" => \A r \in Rows : status[r] \notin Finished
    BY DEF HealthTruthful
  <2> DEFINE idle == ~enabled /\ ~started /\ last_finished = {}
             failing == \E r \in last_finished : status[r] = "failed"
  <2>1. compute_health(enabled) = CASE idle -> "disabled" [] failing -> "failing"
                                    [] since > Overdue -> "overdue" [] OTHER -> "healthy"
    BY DEF compute_health, is_overdue
  <2>2. idle => ~started OBVIOUS
  <2> HIDE DEF idle, failing
  <2>3. since \in Nat /\ worked \in Nat /\ worked =< since /\ (worked = since \/ missed \/ Reporting)
    BY ScheduledJobsAssumption DEF IInv, TypeOK, Recorded
  <2>4. compute_health(enabled) = "healthy" => since =< Overdue
    BY <2>1, <2>3, ScheduledJobsAssumption
  <2>5. compute_health(enabled) = "overdue" => since > Overdue BY <2>1
  <2>6. compute_health(enabled) = "disabled" => ~started BY <2>1, <2>2
  <2> QED BY <2>3, <2>4, <2>5, <2>6, ScheduledJobsAssumption DEF IInv, Started
<1> QED BY <1>1, Invariance, PTL

=============================================================================
