----------------------------- MODULE ReconJobs -----------------------------
(***************************************************************************)
(* Background jobs of reconciliation: run-async, the task that executes the  *)
(* run (_run_job) and the job record a client polls (services/recon_jobs.py).*)
(*                                                                         *)
(* The record is a row of the shared database, written by one transaction    *)
(* per update; an update that fails is swallowed.  When the row cannot be    *)
(* created the record is a dictionary of the process instead.  The run       *)
(* itself is Reconciliation's: here it is the rows it has gone through and   *)
(* whether its commit happened.                                              *)
(***************************************************************************)
EXTENDS Naturals

CONSTANTS
  Jobs,         \* ids run-async hands out
  BatchSize,    \* batch_size of the run (2000)
  MaxRows,      \* bound: unmatched bank rows of the window
  MaxRestarts   \* bound: restarts of the server

ASSUME JobsAssumption == BatchSize \in Nat \ {0} /\ MaxRows \in Nat /\ MaxRestarts \in Nat

VARIABLES
  row,       \* [Jobs -> the row in recon_jobs]
  fallback,  \* [Jobs -> the entry of _fallback, in the memory of the process]
  task,      \* [Jobs -> the background task: where it is and its counters]
  applied,   \* jobs whose run committed
  missed,    \* jobs an update of which was lost (the "best-effort" except)
  restarts   \* restarts so far

vars == <<row, fallback, task, applied, missed, restarts>>

Status == {"absent", "queued", "running", "done", "error"}
Final == {"done", "error"}

\* "none" was not asked for, "lost" died with a restart.
Place == {"none", "queued", "open", "batch", "commit", "applied", "finish", "fail",
          "ended", "lost"}
Running == Place \ {"none", "ended", "lost"}

Absent == [status |-> "absent", progress |-> 0, result |-> FALSE]
Queued == [status |-> "queued", progress |-> 0, result |-> FALSE]

\* A task outside the loop of the run, whose counters it has no more use for.
At(place) == [at |-> place, count |-> 0, offset |-> 0, processed |-> 0]

Init ==
  /\ row = [j \in Jobs |-> Absent]
  /\ fallback = [j \in Jobs |-> Absent]
  /\ task = [j \in Jobs |-> At("none")]
  /\ applied = {}
  /\ missed = {}
  /\ restarts = 0

\* The record that updates go to: the memory of the process first, then the row.
Stored(j) == IF fallback[j] # Absent THEN fallback[j] ELSE row[j]

\* What get_job may answer a poll.  Its query may raise, which it swallows: the
\* answer is then that of a job that is not there.
Answers(j) == IF fallback[j] # Absent THEN {fallback[j]} ELSE {row[j], Absent}

Goto(j, place) == task' = [task EXCEPT ![j] = At(place)]

\* Mutant: the exception is not turned into a fallback.
CreateWithoutFallback(j) ==
  /\ task[j].at = "none"
  /\ Goto(j, "queued")
  /\ row' \in {row, [row EXCEPT ![j] = Queued]}
  /\ UNCHANGED <<fallback, applied, missed, restarts>>

\* create_job, and the task is added to the response.  An exception leaves the
\* job in memory; the commit that raised it may have been done all the same.
Create(j) ==
  /\ task[j].at = "none"
  /\ Goto(j, "queued")
  /\ \/ row' = [row EXCEPT ![j] = Queued] /\ UNCHANGED fallback
     \/ /\ row' \in {row, [row EXCEPT ![j] = Queued]}
        /\ fallback' = [fallback EXCEPT ![j] = Queued]
  /\ UNCHANGED <<applied, missed, restarts>>

\* update_job: the fallback if there is one; otherwise the row, where the
\* exception of a failed transaction is swallowed.
Update(j, job) ==
  \/ /\ fallback[j] # Absent
     /\ fallback' = [fallback EXCEPT ![j] = job]
     /\ UNCHANGED <<row, missed>>
  \/ /\ fallback[j] = Absent
     /\ \/ row' = [row EXCEPT ![j] = job] /\ UNCHANGED missed
        \/ row' = row /\ missed' = missed \cup {j}
     /\ UNCHANGED fallback

\* An update sets fields of what the record holds.
SetFields(job, status, pct) == [job EXCEPT !.status = status, !.progress = pct]

Progress(j, pct) == Update(j, [Stored(j) EXCEPT !.progress = pct])

\* _run_job begins.
Start(j) ==
  /\ task[j].at = "queued"
  /\ Update(j, SetFields(Stored(j), "running", 1))
  /\ Goto(j, "open")
  /\ UNCHANGED <<applied, restarts>>

\* The session, the reads before the loop and the first report of the run.
Open(j) ==
  /\ task[j].at = "open"
  /\ Progress(j, 5)
  /\ \E count \in 0..MaxRows :
       IF count = 0 THEN Goto(j, "commit")
                    ELSE task' = [task EXCEPT ![j].at = "batch", ![j].count = count]
  /\ UNCHANGED <<applied, restarts>>

\* Mutant: the percentage is not capped, and a page may hold rows that were
\* not there when they were counted.
UncappedPercent(processed, count) == 5 + ((85 * processed) \div count)

Percent(processed, count) ==
  LET pct == 5 + ((85 * processed) \div count) IN IF pct < 90 THEN pct ELSE 90

\* One page of the loop, full or not, and its report; an empty page ends it.
Batch(j) ==
  /\ task[j].at = "batch"
  /\ \/ Goto(j, "commit") /\ UNCHANGED <<row, fallback, missed>>
     \/ \E n \in 1..BatchSize :
          LET processed == task[j].processed + n
              offset == task[j].offset + BatchSize
          IN  /\ Progress(j, Percent(processed, task[j].count))
              /\ IF offset < task[j].count
                 THEN task' = [task EXCEPT ![j].processed = processed, ![j].offset = offset]
                 ELSE Goto(j, "commit")
  /\ UNCHANGED <<applied, restarts>>

\* The commit of the run.  One that raises may have been done all the same.
Commit(j) ==
  /\ task[j].at = "commit"
  /\ \/ applied' = applied \cup {j} /\ Goto(j, "applied")
     \/ applied' \in {applied, applied \cup {j}} /\ Goto(j, "fail")
  /\ UNCHANGED <<row, fallback, missed, restarts>>

ReportCommit(j) ==
  /\ task[j].at = "applied"
  /\ Progress(j, 100)
  /\ Goto(j, "finish")
  /\ UNCHANGED <<applied, restarts>>

\* Anything raised before the commit, and by the session as it is closed.
Raise(j) ==
  /\ task[j].at \in {"open", "batch", "finish"}
  /\ Goto(j, "fail")
  /\ UNCHANGED <<row, fallback, applied, missed, restarts>>

Finish(j) ==
  /\ task[j].at = "finish"
  /\ Update(j, [status |-> "done", progress |-> 100, result |-> TRUE])
  /\ Goto(j, "ended")
  /\ UNCHANGED <<applied, restarts>>

\* Mutant: the failure is reported like a success.
FailAsDone(j) ==
  /\ task[j].at = "fail"
  /\ Update(j, SetFields(Stored(j), "done", 100))
  /\ Goto(j, "ended")
  /\ UNCHANGED <<applied, restarts>>

\* except Exception of _run_job.
Fail(j) ==
  /\ task[j].at = "fail"
  /\ Update(j, SetFields(Stored(j), "error", 100))
  /\ Goto(j, "ended")
  /\ UNCHANGED <<applied, restarts>>

\* The process dies: its tasks and its memory are lost, what was not committed
\* is rolled back.  Start-up looks at no job.
Restart ==
  /\ restarts < MaxRestarts
  /\ restarts' = restarts + 1
  /\ fallback' = [j \in Jobs |-> Absent]
  /\ task' = [j \in Jobs |-> IF task[j].at \in Running THEN At("lost") ELSE task[j]]
  /\ UNCHANGED <<row, applied, missed>>

\* Mutant: an exception of the run is not caught.
TaskWithoutExcept(j) ==
  Start(j) \/ Open(j) \/ Batch(j) \/ Commit(j) \/ ReportCommit(j) \/ Raise(j) \/ Finish(j)

Task(j) == TaskWithoutExcept(j) \/ Fail(j)

Next == (\E j \in Jobs : Create(j) \/ Task(j)) \/ Restart

Spec == Init /\ [][Next]_vars

\* The event loop is fair and every query returns or raises.
FairSpec == Spec /\ \A j \in Jobs : WF_vars(Task(j))

(***************************************************************************)
(* Properties                                                                *)
(***************************************************************************)
Record == [status : Status, progress : 0..100, result : BOOLEAN]

Locals == [at : Place, count : 0..MaxRows, offset : Nat, processed : Nat]

\* Type correctness: progress is a percentage whatever rows arrive during the run.
TypeOK ==
  /\ row \in [Jobs -> Record]
  /\ fallback \in [Jobs -> Record]
  /\ task \in [Jobs -> Locals]
  /\ applied \subseteq Jobs
  /\ missed \subseteq Jobs
  /\ restarts \in 0..MaxRestarts

\* A client is told that a job is done, or that it runs at 100 %, only when the
\* ledger holds its run; a job that is done has its result.
DoneIsApplied ==
  \A j \in Jobs : \A job \in Answers(j) :
    /\ job.status = "done" => j \in applied /\ job.result
    /\ job.status = "running" /\ job.progress > 90 => j \in applied

\* The id run-async answers can be polled while its task runs, even when the
\* database refused the row: a poll finds the job unless its own query fails.
PollFinds == \A j \in Jobs : task[j].at \in Running => Answers(j) # {Absent}

\* "poller may see stale progress" is the worst that a failed query does to it.
RunningIsFound == \A j \in Jobs : task[j].at \in Running => Absent \notin Answers(j)

Rank(status) ==
  CASE status = "absent" -> 0 [] status = "queued" -> 1 [] status = "running" -> 2
    [] status \in Final -> 3

\* While the server is up, a poller that is answered sees a job go forwards: no
\* lost, swallowed or doubly stored update takes its progress or its status back,
\* changes how it ended, or takes the job away.
NeverGoesBack ==
  [][restarts' = restarts =>
       \A j \in Jobs : \A before \in Answers(j) \ {Absent} :
         /\ Answers(j)' # {Absent}
         /\ \A after \in Answers(j)' \ {Absent} :
              /\ before.progress <= after.progress
              /\ Rank(before.status) <= Rank(after.status)
              /\ before.status \in Final => after = before]_vars

\* A job a client queued is at last shown as done or as an error, unless an
\* update of it was lost or its task died with a restart.
JobsEnd ==
  \A j \in Jobs :
    task[j].at = "queued" ~>
      Stored(j).status \in Final \/ j \in missed \/ task[j].at = "lost"

\* "Persisted reconciliation job - survives process restart": a job whose row
\* was stored, and none of whose updates was lost, at last shows how it ended.
StoredJobsEnd ==
  \A j \in Jobs :
    row[j].status = "queued" /\ fallback[j] = Absent ~>
      row[j].status \in Final \/ j \in missed
=============================================================================
