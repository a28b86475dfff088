-------------------------- MODULE ReconJobsProofs --------------------------
(***************************************************************************)
(* Proofs about background jobs, for any number of jobs and restarts and any *)
(* size of the window: a client is never told that a run is done, or at      *)
(* 100 %, before the ledger holds it, and the id of a running job is known.  *)
(*                                                                         *)
(* DoneIsApplied is not inductive: what a restart uncovers is the row under  *)
(* the fallback, and what an update keeps is the status of a stale record.   *)
(* JobOK says of both records that they are honest, and of a job whose task  *)
(* is alive that neither has ended.  Bounded adds that what it shows is at   *)
(* most what its next update can say, so that no update takes it back.       *)
(***************************************************************************)
EXTENDS ReconJobs, TLAPS

\* What a record of j says is true of the ledger.
Honest(j, job) ==
  /\ job.status = "done" => j \in applied /\ job.result
  /\ job.status = "running" /\ job.progress > 90 => j \in applied
  /\ job.status = "absent" => job = Absent

JobOK(j) ==
  /\ task[j].at = "batch" => task[j].count # 0
  /\ task[j].at = "none" => row[j] = Absent /\ fallback[j] = Absent
  /\ task[j].at \in {"applied", "finish"} => j \in applied
  /\ task[j].at \in Running =>
       /\ row[j].status \notin Final /\ fallback[j].status \notin Final
       /\ Stored(j).status # "absent"
  /\ Honest(j, row[j]) /\ Honest(j, fallback[j])

Inv == TypeOK /\ \A j \in Jobs : JobOK(j)

\* Inv says what the two invariants of the run say.
LEMMA InvIsEnough == Inv => DoneIsApplied /\ PollFinds
<1>1. Absent.status = "absent"
  BY DEF Absent
<1> QED
  BY <1>1 DEF Inv, JobOK, Honest, Stored, Answers, DoneIsApplied, PollFinds

\* The records of a job before and after an update; no other job has changed.
LEMMA UpdateOne ==
  ASSUME TypeOK, NEW j \in Jobs, NEW job \in Record, job.status # "absent", Update(j, job)
  PROVE  /\ row' \in [Jobs -> Record] /\ fallback' \in [Jobs -> Record] /\ missed' \subseteq Jobs
         /\ row'[j] \in {row[j], job} /\ fallback'[j] \in {fallback[j], job}
         /\ \A k \in Jobs \ {j} : row'[k] = row[k] /\ fallback'[k] = fallback[k]
         /\ Stored(j)' \in {Stored(j), job}
<1>1. job # Absent
  BY DEF Absent
<1>2. CASE fallback[j] # Absent
  <2>1. fallback' = [fallback EXCEPT ![j] = job] /\ UNCHANGED <<row, missed>>
    BY <1>2 DEF Update
  <2> QED
    BY <1>1, <2>1 DEF TypeOK, Stored
<1>3. CASE fallback[j] = Absent
  <2>1. /\ row' = [row EXCEPT ![j] = job] \/ row' = row
        /\ missed' = missed \/ missed' = missed \cup {j}
        /\ UNCHANGED fallback
    BY <1>3 DEF Update
  <2> QED
    BY <1>3, <2>1 DEF TypeOK, Stored
<1> QED
  BY <1>2, <1>3

\* What an update that sets the status and the progress makes of a record.
LEMMA UpdatedRecord ==
  ASSUME NEW job \in Record, NEW status \in Status, NEW pct \in 0..100
  PROVE  /\ SetFields(job, status, pct) \in Record
         /\ SetFields(job, status, pct).status = status
         /\ SetFields(job, status, pct).progress = pct
BY DEF Record, SetFields

\* A step of one job leaves what is known of the others.
LEMMA OthersKeep ==
  ASSUME NEW k \in Jobs, JobOK(k), applied \subseteq applied', task'[k] = task[k],
         row'[k] = row[k], fallback'[k] = fallback[k]
  PROVE  JobOK(k)'
BY DEF JobOK, Honest, Stored

\* A task that moves on with an update, to a place it may be at with what the
\* update says.
LEMMA UpdateKeepsInv ==
  ASSUME Inv, NEW j \in Jobs, task[j].at \in Running,
         NEW job \in Record, job.status # "absent", Update(j, job), Honest(j, job),
         NEW t \in Locals,
         task' = [task EXCEPT ![j] = t], t.at # "none", t.at = "batch" => t.count # 0,
         t.at \in Running => job.status \notin Final,
         t.at \in {"applied", "finish"} => j \in applied,
         UNCHANGED <<applied, restarts>>
  PROVE  Inv'
<1>1. /\ row' \in [Jobs -> Record] /\ fallback' \in [Jobs -> Record] /\ missed' \subseteq Jobs
      /\ row'[j] \in {row[j], job} /\ fallback'[j] \in {fallback[j], job}
      /\ \A k \in Jobs \ {j} : row'[k] = row[k] /\ fallback'[k] = fallback[k]
      /\ Stored(j)' \in {Stored(j), job}
  BY UpdateOne DEF Inv
<1>2. TypeOK'
  BY <1>1 DEF Inv, TypeOK
<1>3. task'[j] = t
  BY DEF Inv, TypeOK
<1>4. ASSUME NEW k \in Jobs \ {j} PROVE JobOK(k)'
  BY <1>1, OthersKeep DEF Inv, TypeOK
<1>5. JobOK(j)'
  <2>1. JobOK(j)
    BY DEF Inv
  <2>2. Honest(j, row[j])' /\ Honest(j, fallback[j])'
    BY <1>1, <2>1 DEF JobOK, Honest
  <2> QED
    BY <1>1, <1>3, <2>1, <2>2 DEF JobOK
<1> QED
  BY <1>2, <1>4, <1>5 DEF Inv

\* A task that moves on without an update.
LEMMA MoveKeepsInv ==
  ASSUME Inv, NEW j \in Jobs, task[j].at \in Running,
         NEW place \in Place \ {"none", "batch"}, Goto(j, place),
         place \in {"applied", "finish"} => j \in applied',
         applied' \in {applied, applied \cup {j}}, UNCHANGED <<row, fallback, missed, restarts>>
  PROVE  Inv'
<1>1. At(place) \in Locals
  BY JobsAssumption DEF At, Locals
<1>2. TypeOK'
  BY <1>1 DEF Inv, TypeOK, Goto
<1>3. task'[j].at = place /\ \A k \in Jobs \ {j} : task'[k] = task[k]
  BY DEF Inv, TypeOK, Goto, At
<1>4. ASSUME NEW k \in Jobs \ {j} PROVE JobOK(k)'
  BY <1>3, OthersKeep DEF Inv
<1>5. JobOK(j)'
  BY <1>3 DEF Inv, JobOK, Honest, Stored
<1> QED
  BY <1>2, <1>4, <1>5 DEF Inv

\* A report of progress is capped below what tells of a commit.
LEMMA PercentIsProgress ==
  ASSUME NEW processed \in Nat, NEW count \in Nat \ {0}
  PROVE  Percent(processed, count) \in 0..90
<1> DEFINE q == (85 * processed) \div count
<1>1. 85 * processed \in Nat
  OBVIOUS
<1>2. ASSUME NEW n \in Nat PROVE n \div count \in Nat
  OBVIOUS
<1>3. q \in Nat
  BY <1>1, <1>2
<1> HIDE DEF q
<1>4. (IF 5 + q < 90 THEN 5 + q ELSE 90) \in 0..90
  BY <1>3
<1> QED
  BY <1>4 DEF Percent, q

\* What a live task says of its progress keeps the status its record has.
LEMMA ProgressKeepsInv ==
  ASSUME Inv, NEW j \in Jobs, task[j].at \in Running, NEW pct \in 0..100, Progress(j, pct),
         pct > 90 => j \in applied,
         NEW t \in Locals,
         task' = [task EXCEPT ![j] = t], t.at # "none", t.at = "batch" => t.count # 0,
         t.at \in {"applied", "finish"} => j \in applied,
         UNCHANGED <<applied, restarts>>
  PROVE  Inv'
<1> DEFINE job == [Stored(j) EXCEPT !.progress = pct]
<1>1. Stored(j) \in Record /\ Stored(j).status \notin Final /\ Stored(j).status # "absent"
  BY DEF Inv, TypeOK, JobOK, Stored
<1>2. job \in Record /\ job.status = Stored(j).status /\ job.progress = pct
  BY <1>1 DEF Record
<1>3. Update(j, job)
  BY DEF Progress
<1> HIDE DEF job
<1>4. Honest(j, job)
  BY <1>1, <1>2 DEF Honest, Final
<1> QED
  BY <1>1, <1>2, <1>3, <1>4, UpdateKeepsInv

\* Inv holds before any job is asked for.
LEMMA InitInv == Init => Inv
<1> SUFFICES ASSUME Init PROVE Inv
  OBVIOUS
<1>1. Absent \in Record
  BY DEF Absent, Record, Status
<1>2. At("none") \in Locals
  BY JobsAssumption DEF At, Locals, Place
<1>3. TypeOK
  BY <1>1, <1>2, JobsAssumption DEF Init, TypeOK
<1>4. ASSUME NEW j \in Jobs PROVE JobOK(j)
  BY DEF Init, JobOK, Honest, Stored, Absent, At, Running
<1> QED
  BY <1>3, <1>4 DEF Inv

\* A new job is queued in a record, and in no state that claims anything.
LEMMA CreateInv ==
  ASSUME Inv, NEW j \in Jobs, Create(j)
  PROVE  Inv'
<1>1. Queued = [status |-> "queued", progress |-> 0, result |-> FALSE] /\ Queued \in Record
  BY DEF Queued, Record, Status
<1>2. At("queued") \in Locals
  BY JobsAssumption DEF At, Locals, Place
<1>3. /\ task' = [task EXCEPT ![j] = At("queued")] /\ UNCHANGED <<applied, missed, restarts>>
      /\ row' = row \/ row' = [row EXCEPT ![j] = Queued]
      /\ fallback' = fallback \/ fallback' = [fallback EXCEPT ![j] = Queued]
      /\ row' = [row EXCEPT ![j] = Queued] \/ fallback' = [fallback EXCEPT ![j] = Queued]
  BY DEF Create, Goto
<1>4. TypeOK'
  BY <1>1, <1>2, <1>3, ZenonT(60) DEF Inv, TypeOK
<1>5. ASSUME NEW k \in Jobs \ {j} PROVE JobOK(k)'
  <2>1. task'[k] = task[k] /\ row'[k] = row[k] /\ fallback'[k] = fallback[k] /\ applied' = applied
    BY <1>3 DEF Inv, TypeOK
  <2> QED
    BY <2>1, OthersKeep DEF Inv
<1>6. JobOK(j)'
  <2>1. row[j] = Absent /\ fallback[j] = Absent
    BY DEF Create, Inv, JobOK
  <2>2. task'[j].at = "queued"
    BY <1>3 DEF Inv, TypeOK, At
  <2>3. /\ row'[j] \in {Absent, Queued} /\ fallback'[j] \in {Absent, Queued}
        /\ row'[j] = Queued \/ fallback'[j] = Queued
    BY <1>3, <2>1 DEF Inv, TypeOK
  <2>4. Stored(j)' = Queued
    BY <2>3 DEF Stored
  <2>5. Queued.status = "queued" /\ Absent.status = "absent"
    BY DEF Queued, Absent
  <2>6. Honest(j, row[j])' /\ Honest(j, fallback[j])'
    BY <2>3, <2>5 DEF Honest
  <2> QED
    BY <2>2, <2>3, <2>4, <2>5, <2>6 DEF JobOK, Final
<1> QED
  BY <1>4, <1>5, <1>6 DEF Inv

\* Every step of a task keeps Inv.
LEMMA TaskInv ==
  ASSUME Inv, NEW j \in Jobs, Task(j)
  PROVE  Inv'
<1>1. \A place \in Place : At(place) \in Locals /\ At(place).at = place
  BY JobsAssumption DEF At, Locals
<1>2. Stored(j) \in Record /\ task[j] \in Locals
  BY DEF Inv, TypeOK, Stored
<1>3. CASE Start(j)
  <2> DEFINE job == SetFields(Stored(j), "running", 1)
  <2>1. job \in Record /\ job.status = "running" /\ job.progress = 1
    BY <1>2, UpdatedRecord, SMTT(30) DEF Status
  <2>2. task[j].at \in Running /\ Update(j, job) /\ UNCHANGED <<applied, restarts>>
    BY <1>3 DEF Start, Running, Place
  <2>3. task' = [task EXCEPT ![j] = At("open")] /\ At("open") \in Locals /\ At("open").at = "open"
    BY <1>1, <1>3 DEF Start, Goto, Place
  <2> HIDE DEF job
  <2>4. Honest(j, job)
    BY <2>1 DEF Honest
  <2> QED
    BY <2>1, <2>2, <2>3, <2>4, UpdateKeepsInv DEF Final
<1>4. CASE Open(j)
  <2>1. task[j].at \in Running /\ Progress(j, 5) /\ UNCHANGED <<applied, restarts>>
    BY <1>4 DEF Open, Running, Place
  <2>2. PICK t \in Locals : task' = [task EXCEPT ![j] = t] /\ t.at \in {"commit", "batch"}
                                  /\ (t.at = "batch" => t.count # 0)
    <3>1. PICK count \in 0..MaxRows :
            IF count = 0 THEN Goto(j, "commit")
                         ELSE task' = [task EXCEPT ![j].at = "batch", ![j].count = count]
      BY <1>4 DEF Open
    <3>2. CASE count = 0
      BY <1>1, <3>1, <3>2 DEF Goto, Place
    <3>3. CASE count # 0
      <4> DEFINE t == [task[j] EXCEPT !.at = "batch", !.count = count]
      <4>1. task' = [task EXCEPT ![j] = t]
        BY <3>1, <3>3 DEF Inv, TypeOK
      <4>2. t \in Locals /\ t.at = "batch" /\ t.count # 0
        BY <1>2, <3>3 DEF Place, Locals
      <4> HIDE DEF t
      <4> QED
        BY <4>1, <4>2
    <3> QED
      BY <3>2, <3>3
  <2>3. 5 \in 0..100 /\ ~(5 > 90) /\ t.at # "none" /\ t.at \notin {"applied", "finish"}
    BY <2>2
  <2> QED
    BY <2>1, <2>2, <2>3, ProgressKeepsInv, Zenon
<1>5. CASE Batch(j)
  <2>1. task[j].at \in Running /\ UNCHANGED <<applied, restarts>>
    BY <1>5 DEF Batch, Running, Place
  <2>2. CASE Goto(j, "commit") /\ UNCHANGED <<row, fallback, missed>>
    BY <2>1, <2>2, MoveKeepsInv DEF Place
  <2>3. ASSUME NEW n \in 1..BatchSize,
               Progress(j, Percent(task[j].processed + n, task[j].count)),
               IF task[j].offset + BatchSize < task[j].count
               THEN task' = [task EXCEPT ![j].processed = task[j].processed + n,
                                         ![j].offset = task[j].offset + BatchSize]
               ELSE Goto(j, "commit")
        PROVE  Inv'
    <3> DEFINE pct == Percent(task[j].processed + n, task[j].count)
    <3>1. pct \in 0..90
      BY <1>2, <1>5, JobsAssumption, PercentIsProgress DEF Batch, Locals, Inv, JobOK
    <3>2. PICK t \in Locals : task' = [task EXCEPT ![j] = t] /\ t.at \in {"commit", "batch"}
                                  /\ (t.at = "batch" => t.count # 0)
      <4>1. CASE task[j].offset + BatchSize < task[j].count
        <5> DEFINE t == [task[j] EXCEPT !.processed = task[j].processed + n,
                                        !.offset = task[j].offset + BatchSize]
        <5>1. task' = [task EXCEPT ![j] = t]
          BY <2>3, <4>1 DEF Inv, TypeOK
        <5>2. task[j].processed + n \in Nat /\ task[j].offset + BatchSize \in Nat
          BY <1>2, JobsAssumption DEF Locals
        <5>3. t \in Locals /\ t.at = "batch" /\ t.count # 0
          BY <1>2, <1>5, <5>2 DEF Batch, Place, Locals, Inv, JobOK
        <5> HIDE DEF t
        <5> QED
          BY <5>1, <5>3
      <4>2. CASE ~(task[j].offset + BatchSize < task[j].count)
        BY <1>1, <2>3, <4>2 DEF Goto, Place
      <4> QED
        BY <4>1, <4>2
    <3>3. pct \in 0..100 /\ ~(pct > 90)
      <4> HIDE DEF pct
      <4> QED
        BY <3>1
    <3>4. t.at # "none" /\ t.at \notin {"applied", "finish"}
      BY <3>2
    <3> QED
      BY <2>1, <2>3, <3>2, <3>3, <3>4, ProgressKeepsInv, Zenon
  <2> QED
    BY <1>5, <2>2, <2>3 DEF Batch
<1>6. CASE Commit(j)
  <2>1. task[j].at \in Running /\ UNCHANGED <<row, fallback, missed, restarts>>
    BY <1>6 DEF Commit, Running, Place
  <2>2. \/ applied' = applied \cup {j} /\ Goto(j, "applied")
        \/ applied' \in {applied, applied \cup {j}} /\ Goto(j, "fail")
    BY <1>6 DEF Commit
  <2> QED
    BY <2>1, <2>2, MoveKeepsInv DEF Place
<1>7. CASE ReportCommit(j)
  <2>1. task[j].at \in Running /\ Progress(j, 100) /\ UNCHANGED <<applied, restarts>>
    BY <1>7 DEF ReportCommit, Running, Place
  <2>2. j \in applied
    BY <1>7 DEF ReportCommit, Inv, JobOK
  <2>3. task' = [task EXCEPT ![j] = At("finish")] /\ At("finish") \in Locals
        /\ At("finish").at = "finish"
    BY <1>1, <1>7 DEF ReportCommit, Goto, Place
  <2>4. 100 \in 0..100 /\ "finish" # "none" /\ "finish" # "batch"
    OBVIOUS
  <2> QED
    BY <2>1, <2>2, <2>3, <2>4, ProgressKeepsInv, Zenon
<1>8. CASE Raise(j)
  BY <1>8, MoveKeepsInv DEF Raise, Running, Place
<1>9. CASE Finish(j)
  <2> DEFINE job == [status |-> "done", progress |-> 100, result |-> TRUE]
  <2>1. job \in Record /\ job.status # "absent"
    BY DEF Record, Status
  <2>2. task[j].at \in Running /\ Update(j, job) /\ UNCHANGED <<applied, restarts>>
    BY <1>9 DEF Finish, Running, Place
  <2>3. Honest(j, job)
    BY <1>9 DEF Finish, Inv, JobOK, Honest
  <2>4. task' = [task EXCEPT ![j] = At("ended")] /\ At("ended") \in Locals
        /\ At("ended").at = "ended" /\ "ended" \notin Running
    BY <1>1, <1>9 DEF Finish, Goto, Place, Running
  <2> HIDE DEF job
  <2> QED
    BY <2>1, <2>2, <2>3, <2>4, UpdateKeepsInv
<1>10. CASE Fail(j)
  <2> DEFINE job == SetFields(Stored(j), "error", 100)
  <2>1. job \in Record /\ job.status = "error"
    BY <1>2, UpdatedRecord DEF Status
  <2>2. task[j].at \in Running /\ Update(j, job) /\ UNCHANGED <<applied, restarts>>
    BY <1>10 DEF Fail, Running, Place
  <2>3. task' = [task EXCEPT ![j] = At("ended")] /\ At("ended") \in Locals
        /\ At("ended").at = "ended" /\ "ended" \notin Running
    BY <1>1, <1>10 DEF Fail, Goto, Place, Running
  <2> HIDE DEF job
  <2>4. Honest(j, job)
    BY <2>1 DEF Honest
  <2> QED
    BY <2>1, <2>2, <2>3, <2>4, UpdateKeepsInv
<1> QED
  BY <1>3, <1>4, <1>5, <1>6, <1>7, <1>8, <1>9, <1>10 DEF Task, TaskWithoutExcept

\* A restart uncovers the row under a fallback: it is honest too.
LEMMA RestartInv ==
  ASSUME Inv, Restart
  PROVE  Inv'
<1>1. Absent \in Record /\ Absent.status = "absent"
  BY DEF Absent, Record, Status
<1>2. At("lost") \in Locals
      /\ At("lost").at = "lost"
  BY JobsAssumption DEF At, Locals, Place
<1>3. TypeOK'
  BY <1>1, <1>2, JobsAssumption DEF Restart, Inv, TypeOK
<1>4. ASSUME NEW j \in Jobs PROVE JobOK(j)'
  <2>1. /\ row' = row /\ applied' = applied /\ fallback'[j] = Absent
        /\ task'[j].at \notin Running
        /\ task'[j].at = "none" => task[j].at = "none"
        /\ task'[j].at \notin {"applied", "finish"}
        /\ task'[j].at = "batch" => task'[j] = task[j] /\ task[j].at = "batch"
    BY <1>2 DEF Restart, Running, Place, Inv, TypeOK
  <2> QED
    BY <1>1, <2>1 DEF Inv, JobOK, Honest
<1> QED
  BY <1>3, <1>4 DEF Inv

\* Inv is inductive.
LEMMA StepInv == Inv /\ [Next]_vars => Inv'
<1> SUFFICES ASSUME Inv, [Next]_vars PROVE Inv'
  OBVIOUS
<1>1. CASE UNCHANGED vars
  BY <1>1 DEF vars, Inv, TypeOK, JobOK, Honest, Stored
<1> QED
  BY <1>1, CreateInv, TaskInv, RestartInv DEF Next

\* TypeOK of ReconJobs.
THEOREM JobsTypeCorrect == Spec => []TypeOK
<1>1. Inv => TypeOK
  BY DEF Inv
<1> QED
  BY <1>1, InitInv, StepInv, PTL DEF Spec

\* A job is shown as done, or at 100 %, only when the ledger holds its run.
THEOREM DoneWasApplied == Spec => []DoneIsApplied
BY InvIsEnough, InitInv, StepInv, PTL DEF Spec

\* The id of a running job can be polled.
THEOREM RunningJobIsFound == Spec => []PollFinds
BY InvIsEnough, InitInv, StepInv, PTL DEF Spec

(***************************************************************************)
(* Forwards                                                                  *)
(***************************************************************************)
\* The most that the record of a task can say of its progress.
Limit(t) ==
  IF t.at = "queued" THEN 0 ELSE
  IF t.at = "open" THEN 1 ELSE
  IF t.at = "batch" THEN Percent(t.processed, t.count) ELSE
  IF t.at \in {"commit", "applied"} THEN 90 ELSE 100

Bounded(j) ==
  /\ Stored(j).progress <= Limit(task[j])
  /\ task[j].at = "open" => task[j].processed = 0

BoundedInv == Inv /\ \A j \in Jobs : Bounded(j)

\* A record goes forwards.
Forwards(before, after) ==
  /\ before.progress <= after.progress
  /\ Rank(before.status) <= Rank(after.status)
  /\ before.status \in Final => after = before

\* Of a step: every record goes forwards and stays within the limit of its task.
AllForwards == \A k \in Jobs : Bounded(k)' /\ Forwards(Stored(k), Stored(k)')

\* The order of the states a poller may be shown.
LEMMA Ranks ==
  /\ Rank("absent") = 0 /\ Rank("queued") = 1 /\ Rank("running") = 2
  /\ Rank("done") = 3 /\ Rank("error") = 3
BY DEF Rank, Final

\* Integer division grows with what is divided.
LEMMA DivisionGrows ==
  ASSUME NEW m \in Nat, NEW n \in Nat, m <= n, NEW c \in Nat \ {0}
  PROVE  m \div c <= n \div c
<1>1. /\ m \div c \in Nat /\ n \div c \in Nat
      /\ (m \div c) * c <= m /\ n < ((n \div c) + 1) * c
  OBVIOUS
<1> DEFINE q == m \div c
           s == n \div c
<1>2. /\ q \in Nat /\ s \in Nat /\ q * c <= m /\ n < (s + 1) * c
  BY <1>1
<1> HIDE DEF q, s
<1>3. q * c < (s + 1) * c
  BY <1>2
<1>4. ASSUME q >= s + 1 PROVE FALSE
  <2>1. q * c >= (s + 1) * c
    BY <1>2, <1>4
  <2> QED
    BY <1>2, <1>3, <2>1
<1>5. q <= s
  BY <1>2, <1>4
<1> QED
  BY <1>5 DEF q, s

\* The percentage grows with the rows gone through.
LEMMA PercentGrows ==
  ASSUME NEW p \in Nat, NEW q \in Nat, p <= q, NEW c \in Nat \ {0}
  PROVE  Percent(p, c) <= Percent(q, c)
<1>1. 85 * p \in Nat /\ 85 * q \in Nat /\ 85 * p <= 85 * q
  OBVIOUS
<1>2. (85 * p) \div c <= (85 * q) \div c
  BY <1>1, DivisionGrows
<1>3. \A n \in Nat : n \div c \in Nat
  OBVIOUS
<1> DEFINE a == (85 * p) \div c
           b == (85 * q) \div c
<1>4. a \in Nat /\ b \in Nat /\ a <= b
  BY <1>1, <1>2, <1>3
<1> HIDE DEF a, b
<1>5. (IF 5 + a < 90 THEN 5 + a ELSE 90) <= (IF 5 + b < 90 THEN 5 + b ELSE 90)
  BY <1>4
<1> QED
  BY <1>5 DEF Percent, a, b

\* The progress of a run that has gone through no row is 5.
LEMMA PercentStarts == \A c \in Nat \ {0} : Percent(0, c) = 5
<1> TAKE c \in Nat \ {0}
<1>1. 0 \div c = 0
  OBVIOUS
<1>2. 85 * 0 = 0
  OBVIOUS
<1> QED
  BY <1>1, <1>2 DEF Percent

\* The limit of a task's place is a percentage, of at most 90 before the commit.
LEMMA LimitIsProgress ==
  ASSUME NEW t \in Locals, t.at = "batch" => t.count # 0
  PROVE  Limit(t) \in 0..100 /\ (t.at = "batch" => Limit(t) \in 0..90)
<1>1. CASE t.at = "batch"
  <2>1. Percent(t.processed, t.count) \in 0..90
    BY <1>1, JobsAssumption, PercentIsProgress DEF Locals
  <2> QED
    BY <1>1, <2>1 DEF Limit
<1>2. CASE t.at # "batch"
  BY <1>2 DEF Limit
<1> QED
  BY <1>1, <1>2

\* A task that moves on with an update that lies between the limits of the two
\* places: the record, updated or not, goes forwards, and the others stand.
LEMMA UpdateForwards ==
  ASSUME BoundedInv, NEW j \in Jobs, task[j].at \in Running,
         NEW job \in Record, job.status # "absent", Update(j, job),
         NEW t \in Locals, task' = [task EXCEPT ![j] = t], t.at # "open" \/ t.processed = 0,
         Limit(task[j]) \in Nat, Limit(t) \in Nat,
         Limit(task[j]) <= job.progress, job.progress <= Limit(t),
         Rank(Stored(j).status) <= Rank(job.status)
  PROVE  AllForwards
<1>1. Inv /\ JobOK(j) /\ Bounded(j) /\ Stored(j) \in Record /\ job.progress \in 0..100
  BY DEF BoundedInv, Inv, TypeOK, Stored, Record
<1>2. Stored(j).status \notin Final /\ Stored(j).progress \in 0..100 /\ Stored(j).status \in Status
  BY <1>1 DEF JobOK, Stored, Record
<1>3. /\ \A k \in Jobs \ {j} : row'[k] = row[k] /\ fallback'[k] = fallback[k]
      /\ Stored(j)' \in {Stored(j), job}
  BY <1>1, UpdateOne DEF Inv
<1>4. task'[j] = t /\ \A k \in Jobs \ {j} : task'[k] = task[k]
  BY <1>1 DEF Inv, TypeOK
<1>5. \A i \in Status : Rank(i) \in Nat
  BY Ranks DEF Status
<1>6. Bounded(j)' /\ Forwards(Stored(j), Stored(j)')
  <2>1. Stored(j).progress <= Limit(task[j])
    BY <1>1 DEF Bounded
  <2>2. Stored(j)'.progress <= Limit(t) /\ Stored(j).progress <= Stored(j)'.progress
    BY <1>1, <1>2, <1>3, <2>1
  <2>3. Rank(Stored(j).status) <= Rank(Stored(j)'.status)
    BY <1>2, <1>3, <1>5
  <2> QED
    BY <1>2, <1>4, <2>2, <2>3 DEF Bounded, Forwards
<1>7. ASSUME NEW k \in Jobs \ {j} PROVE Bounded(k)' /\ Forwards(Stored(k), Stored(k)')
  <2>1. Stored(k)' = Stored(k) /\ Stored(k) \in Record /\ Bounded(k)
    BY <1>1, <1>3 DEF Stored, Inv, TypeOK, BoundedInv
  <2>2. Stored(k).progress \in 0..100 /\ Stored(k).status \in Status
    BY <2>1 DEF Record
  <2> QED
    BY <1>4, <1>5, <2>1, <2>2 DEF Bounded, Forwards
<1> QED
  BY <1>6, <1>7 DEF AllForwards

\* The same of a step without an update.
LEMMA MoveForwards ==
  ASSUME BoundedInv, NEW j \in Jobs, UNCHANGED <<row, fallback>>,
         NEW t \in Locals, task' = [task EXCEPT ![j] = t], t.at # "open",
         Limit(task[j]) \in Nat, Limit(t) \in Nat, Limit(task[j]) <= Limit(t)
  PROVE  AllForwards
<1>1. task'[j] = t /\ \A k \in Jobs \ {j} : task'[k] = task[k]
  BY DEF BoundedInv, Inv, TypeOK
<1>2. \A i \in Status : Rank(i) \in Nat
  BY Ranks DEF Status
<1> SUFFICES ASSUME NEW k \in Jobs PROVE Bounded(k)' /\ Forwards(Stored(k), Stored(k)')
  BY DEF AllForwards
<1>3. Stored(k)' = Stored(k) /\ Stored(k) \in Record /\ Bounded(k)
  BY DEF Stored, BoundedInv, Inv, TypeOK
<1>4. Stored(k).progress \in 0..100 /\ Stored(k).status \in Status
  BY <1>3 DEF Record
<1>5. Forwards(Stored(k), Stored(k)')
  BY <1>2, <1>3, <1>4 DEF Forwards
<1>6. CASE k = j
  BY <1>1, <1>3, <1>4, <1>5, <1>6 DEF Bounded
<1>7. CASE k # j
  BY <1>1, <1>3, <1>5, <1>7 DEF Bounded
<1> QED
  BY <1>6, <1>7

\* A job is shown queued after it was shown absent.
LEMMA CreateForwards ==
  ASSUME BoundedInv, NEW j \in Jobs, Create(j)
  PROVE  AllForwards
<1>1. /\ task' = [task EXCEPT ![j] = At("queued")]
      /\ row' = row \/ row' = [row EXCEPT ![j] = Queued]
      /\ fallback' = fallback \/ fallback' = [fallback EXCEPT ![j] = Queued]
      /\ row' = [row EXCEPT ![j] = Queued] \/ fallback' = [fallback EXCEPT ![j] = Queued]
  BY DEF Create, Goto
<1>2. row[j] = Absent /\ fallback[j] = Absent
  BY DEF Create, BoundedInv, Inv, JobOK
<1>3. /\ row'[j] \in {Absent, Queued} /\ fallback'[j] \in {Absent, Queued}
      /\ row'[j] = Queued \/ fallback'[j] = Queued
      /\ \A k \in Jobs \ {j} : row'[k] = row[k] /\ fallback'[k] = fallback[k] /\ task'[k] = task[k]
      /\ task'[j] = At("queued")
  BY <1>1, <1>2 DEF BoundedInv, Inv, TypeOK
<1>4. Stored(j) = Absent /\ Stored(j)' = Queued
  BY <1>2, <1>3 DEF Stored
<1>5. Bounded(j)' /\ Forwards(Stored(j), Stored(j)')
  BY <1>3, <1>4, Ranks DEF Bounded, Forwards, Absent, Queued, At, Limit, Final
<1>6. \A i \in Status : Rank(i) \in Nat
  BY Ranks DEF Status
<1>7. ASSUME NEW k \in Jobs \ {j} PROVE Bounded(k)' /\ Forwards(Stored(k), Stored(k)')
  <2>1. Stored(k)' = Stored(k) /\ Stored(k) \in Record /\ Bounded(k)
    BY <1>3 DEF Stored, BoundedInv, Inv, TypeOK
  <2>2. Stored(k).progress \in 0..100 /\ Stored(k).status \in Status
    BY <2>1 DEF Record
  <2> QED
    BY <1>3, <1>6, <2>1, <2>2 DEF Bounded, Forwards
<1> QED
  BY <1>5, <1>7 DEF AllForwards

\* No step of a task takes back what its record shows.
LEMMA TaskForwards ==
  ASSUME BoundedInv, NEW j \in Jobs, Task(j)
  PROVE  AllForwards
<1>1. \A place \in Place : /\ At(place) \in Locals /\ At(place).at = place
                           /\ At(place).processed = 0
  BY JobsAssumption DEF At, Locals
<1>2. /\ Inv /\ Bounded(j) /\ JobOK(j) /\ Stored(j) \in Record /\ task[j] \in Locals
  BY DEF BoundedInv, Inv, TypeOK, Stored
<1>3. /\ Limit(task[j]) \in 0..100 /\ (task[j].at = "batch" => Limit(task[j]) \in 0..90)
  BY <1>2, LimitIsProgress DEF JobOK
<1>4. task[j].at \in Running =>
        /\ Stored(j).status \in {"queued", "running"} /\ Stored(j).progress \in 0..100
        /\ Rank(Stored(j).status) \in {1, 2}
  BY <1>2, Ranks DEF JobOK, Stored, Record, Status, Final
<1>5. task[j].at \in Running => \A pct \in 0..100 :
        LET job == [Stored(j) EXCEPT !.progress = pct]
        IN  job \in Record /\ job.status = Stored(j).status /\ job.progress = pct
  BY <1>2 DEF Record
<1>6. CASE Start(j)
  <2> DEFINE job == SetFields(Stored(j), "running", 1)
             t == At("open")
  <2>1. job \in Record /\ job.status = "running" /\ job.progress = 1
    BY <1>2, UpdatedRecord, SMTT(30) DEF Status
  <2>2. task[j].at \in Running /\ Update(j, job) /\ task' = [task EXCEPT ![j] = t]
        /\ Limit(task[j]) = 0
    BY <1>6 DEF Start, Running, Place, Goto, Limit
  <2>3. t \in Locals /\ t.processed = 0 /\ Limit(t) = 1
    BY <1>1 DEF Place, Limit
  <2> HIDE DEF job, t
  <2>4. Rank(Stored(j).status) <= Rank(job.status) /\ job.status # "absent"
    BY <1>4, <2>1, <2>2, Ranks
  <2>5. /\ Limit(task[j]) \in Nat /\ Limit(t) \in Nat
        /\ Limit(task[j]) <= job.progress /\ job.progress <= Limit(t)
    BY <2>1, <2>2, <2>3
  <2> QED
    BY <2>1, <2>2, <2>3, <2>4, <2>5, UpdateForwards, Zenon
<1>7. ASSUME NEW pct \in 0..100, NEW t \in Locals, task[j].at \in Running, Progress(j, pct),
             task' = [task EXCEPT ![j] = t], t.at # "open", Limit(t) \in Nat,
             Limit(task[j]) <= pct, pct <= Limit(t)
      PROVE  AllForwards
  <2> DEFINE job == [Stored(j) EXCEPT !.progress = pct]
  <2>1. job \in Record /\ job.status = Stored(j).status /\ job.progress = pct
    BY <1>5, <1>7
  <2>2. Update(j, job)
    BY <1>7 DEF Progress
  <2> HIDE DEF job
  <2>3. Rank(Stored(j).status) <= Rank(job.status) /\ job.status # "absent"
    BY <1>4, <1>7, <2>1
  <2>4. /\ Limit(task[j]) \in Nat
        /\ Limit(task[j]) <= job.progress /\ job.progress <= Limit(t)
    BY <1>3, <1>7, <2>1
  <2> QED
    BY <1>7, <2>1, <2>2, <2>3, <2>4, UpdateForwards, Zenon
<1>8. CASE Open(j)
  <2>1. /\ task[j].at = "open" /\ task[j].at \in Running /\ Progress(j, 5) /\ Limit(task[j]) = 1
        /\ task[j].processed = 0
    BY <1>2, <1>8 DEF Open, Running, Place, Limit, Bounded
  <2>2. PICK count \in 0..MaxRows :
          IF count = 0 THEN Goto(j, "commit")
                       ELSE task' = [task EXCEPT ![j].at = "batch", ![j].count = count]
    BY <1>8 DEF Open
  <2>3. CASE count = 0
    <3> DEFINE t == At("commit")
    <3>1. task' = [task EXCEPT ![j] = t] /\ t \in Locals /\ t.at = "commit" /\ Limit(t) = 90
      BY <1>1, <2>2, <2>3 DEF Goto, Place, Limit
    <3> HIDE DEF t
    <3>2. /\ 5 \in 0..100 /\ t.at # "open" /\ Limit(t) \in Nat
          /\ Limit(task[j]) <= 5 /\ 5 <= Limit(t)
      BY <2>1, <3>1
    <3> QED
      BY <1>7, <2>1, <3>1, <3>2, Zenon
  <2>4. CASE count # 0
    <3> DEFINE t == [task[j] EXCEPT !.at = "batch", !.count = count]
    <3>1. task' = [task EXCEPT ![j] = t]
      BY <2>2, <2>4 DEF BoundedInv, Inv, TypeOK
    <3>2. t \in Locals /\ t.at = "batch" /\ t.count = count /\ t.processed = 0
      BY <1>2, <2>1 DEF Place, Locals
    <3> HIDE DEF t
    <3>3. count \in Nat \ {0}
      BY <2>4, JobsAssumption
    <3>4. Limit(t) = 5
      BY <3>2, <3>3, PercentStarts DEF Limit
    <3>5. /\ 5 \in 0..100 /\ t.at # "open" /\ Limit(t) \in Nat
          /\ Limit(task[j]) <= 5 /\ 5 <= Limit(t)
      BY <2>1, <3>2, <3>4
    <3> QED
      BY <1>7, <2>1, <3>1, <3>2, <3>5, Zenon
  <2> QED
    BY <2>3, <2>4
<1>9. ASSUME NEW place \in {"commit", "applied", "fail"}, UNCHANGED <<row, fallback>>, Goto(j, place),
             Limit(task[j]) <= IF place = "fail" THEN 100 ELSE 90
      PROVE  AllForwards
  <2> DEFINE t == At(place)
  <2>1. task' = [task EXCEPT ![j] = t] /\ t \in Locals /\ t.at = place
    BY <1>1, <1>9 DEF Goto, Place
  <2>2. Limit(t) = IF place = "fail" THEN 100 ELSE 90
    BY <1>9, <2>1 DEF Limit
  <2> HIDE DEF t
  <2>3. /\ t.at # "open" /\ Limit(task[j]) \in Nat /\ Limit(t) \in Nat
        /\ Limit(task[j]) <= Limit(t)
    BY <1>3, <1>9, <2>1, <2>2
  <2> QED
    BY <1>9, <2>1, <2>3, MoveForwards, Zenon
<1>10. CASE Batch(j)
  <2>1. task[j].at = "batch" /\ task[j].at \in Running
    BY <1>10 DEF Batch, Running, Place
  <2>2. CASE Goto(j, "commit") /\ UNCHANGED <<row, fallback, missed>>
    BY <1>3, <1>9, <2>1, <2>2
  <2>3. ASSUME NEW n \in 1..BatchSize,
               Progress(j, Percent(task[j].processed + n, task[j].count)),
               IF task[j].offset + BatchSize < task[j].count
               THEN task' = [task EXCEPT ![j].processed = task[j].processed + n,
                                         ![j].offset = task[j].offset + BatchSize]
               ELSE Goto(j, "commit")
        PROVE  AllForwards
    <3> DEFINE pct == Percent(task[j].processed + n, task[j].count)
    <3>1. /\ task[j].processed \in Nat /\ task[j].count \in Nat \ {0} /\ task[j].offset \in Nat
          /\ n \in Nat /\ BatchSize \in Nat /\ task[j].processed + n \in Nat
          /\ task[j].processed <= task[j].processed + n
      BY <1>2, <2>1, JobsAssumption DEF Locals, JobOK
    <3>2. pct \in 0..90 /\ Limit(task[j]) = Percent(task[j].processed, task[j].count)
      BY <2>1, <3>1, PercentIsProgress DEF Limit
    <3>3. Limit(task[j]) <= pct
      BY <3>1, <3>2, PercentGrows
    <3>4. PICK t \in Locals : /\ task' = [task EXCEPT ![j] = t] /\ t.at # "open"
                              /\ Limit(t) \in {90, pct}
      <4>1. CASE task[j].offset + BatchSize < task[j].count
        <5> DEFINE t == [task[j] EXCEPT !.processed = task[j].processed + n,
                                        !.offset = task[j].offset + BatchSize]
        <5>1. task' = [task EXCEPT ![j] = t]
          BY <2>3, <4>1 DEF BoundedInv, Inv, TypeOK
        <5>2. /\ t \in Locals /\ t.at = "batch" /\ t.count = task[j].count
              /\ t.processed = task[j].processed + n
          <6>1. PICK p \in Nat, o \in Nat :
                  p = task[j].processed + n /\ o = task[j].offset + BatchSize
            BY <3>1
          <6>2. t = [task[j] EXCEPT !.processed = p, !.offset = o]
            BY <6>1
          <6> HIDE DEF t
          <6>3. t \in Locals /\ t.at = task[j].at /\ t.count = task[j].count /\ t.processed = p
            BY <1>2, <6>2 DEF Locals
          <6> QED
            BY <2>1, <6>1, <6>3
        <5> HIDE DEF t
        <5>3. Limit(t) = pct
          BY <5>2 DEF Limit
        <5> QED
          BY <5>1, <5>2, <5>3
      <4>2. CASE ~(task[j].offset + BatchSize < task[j].count)
        BY <1>1, <2>3, <4>2 DEF Goto, Place, Limit
      <4> QED
        BY <4>1, <4>2
    <3>5. Progress(j, pct)
      BY <2>3
    <3> HIDE DEF pct
    <3>6. pct \in 0..100 /\ Limit(t) \in Nat /\ pct <= Limit(t)
      BY <3>2, <3>4
    <3> QED
      BY <1>7, <2>1, <3>3, <3>4, <3>5, <3>6, Zenon
  <2> QED
    BY <1>10, <2>2, <2>3 DEF Batch
<1>11. CASE Commit(j)
  <2>1. Limit(task[j]) = 90 /\ UNCHANGED <<row, fallback>>
    BY <1>11 DEF Commit, Limit
  <2>2. Goto(j, "applied") \/ Goto(j, "fail")
    BY <1>11 DEF Commit
  <2> QED
    BY <1>9, <2>1, <2>2
<1>12. CASE ReportCommit(j)
  <2> DEFINE t == At("finish")
  <2>1. task[j].at \in Running /\ Progress(j, 100) /\ Limit(task[j]) = 90
    BY <1>12 DEF ReportCommit, Running, Place, Limit
  <2>2. task' = [task EXCEPT ![j] = t] /\ t \in Locals /\ t.at = "finish" /\ Limit(t) = 100
    BY <1>1, <1>12 DEF ReportCommit, Goto, Place, Limit
  <2> HIDE DEF t
  <2>3. /\ 100 \in 0..100 /\ t.at # "open" /\ Limit(t) \in Nat
        /\ Limit(task[j]) <= 100 /\ 100 <= Limit(t)
    BY <2>1, <2>2
  <2> QED
    BY <1>7, <2>1, <2>2, <2>3, Zenon
<1>13. CASE Raise(j)
  <2>1. Goto(j, "fail") /\ UNCHANGED <<row, fallback>>
    BY <1>13 DEF Raise
  <2> QED
    BY <1>3, <1>9, <2>1
<1>14. ASSUME NEW job \in Record, job.status \in Final, job.progress = 100, Update(j, job),
              Goto(j, "ended"), task[j].at \in Running
       PROVE  AllForwards
  <2> DEFINE t == At("ended")
  <2>1. task' = [task EXCEPT ![j] = t] /\ t \in Locals /\ t.at = "ended" /\ Limit(t) = 100
    BY <1>1, <1>14 DEF Goto, Place, Limit
  <2> HIDE DEF t
  <2>2. Rank(Stored(j).status) <= Rank(job.status) /\ job.status # "absent"
    BY <1>4, <1>14, Ranks DEF Final
  <2>3. /\ Limit(task[j]) \in Nat /\ Limit(t) \in Nat /\ t.at # "open"
        /\ Limit(task[j]) <= job.progress /\ job.progress <= Limit(t)
    BY <1>3, <1>14, <2>1
  <2> QED
    BY <1>14, <2>1, <2>2, <2>3, UpdateForwards, Zenon
<1>15. CASE Finish(j)
  <2> DEFINE job == [status |-> "done", progress |-> 100, result |-> TRUE]
  <2>1. job \in Record /\ job.status \in Final /\ job.progress = 100
    BY DEF Record, Status, Final
  <2>2. Update(j, job) /\ Goto(j, "ended") /\ task[j].at \in Running
    BY <1>15 DEF Finish, Running, Place
  <2> HIDE DEF job
  <2> QED
    BY <1>14, <2>1, <2>2
<1>16. CASE Fail(j)
  <2> DEFINE job == SetFields(Stored(j), "error", 100)
  <2>1. job \in Record /\ job.status = "error" /\ job.progress = 100
    BY <1>2, UpdatedRecord DEF Status
  <2>2. Update(j, job) /\ Goto(j, "ended") /\ task[j].at \in Running
    BY <1>16 DEF Fail, Running, Place
  <2> HIDE DEF job
  <2> QED
    BY <1>14, <2>1, <2>2 DEF Final
<1> QED
  BY <1>6, <1>8, <1>10, <1>11, <1>12, <1>13, <1>15, <1>16 DEF Task, TaskWithoutExcept

\* A restart leaves no record ahead of its task.
LEMMA RestartBounded ==
  ASSUME BoundedInv, Restart
  PROVE  \A j \in Jobs : Bounded(j)'
<1> SUFFICES ASSUME NEW j \in Jobs PROVE Bounded(j)'
  OBVIOUS
<1>1. task'[j].at \notin Running /\ Inv'
  BY RestartInv DEF BoundedInv, Restart, At, Running
<1>2. Limit(task'[j]) = 100
  BY <1>1 DEF Limit, Running, Place
<1>3. Stored(j)' \in Record
  BY <1>1 DEF Inv, TypeOK, Stored
<1> QED
  BY <1>1, <1>2, <1>3 DEF Bounded, Record, Running, Place

\* The initial state satisfies the bound.
LEMMA InitBounded == Init => BoundedInv
<1> SUFFICES ASSUME Init PROVE BoundedInv
  OBVIOUS
<1>1. ASSUME NEW j \in Jobs PROVE Bounded(j)
  BY DEF Init, Bounded, Stored, Absent, At, Limit
<1> QED
  BY <1>1, InitInv DEF BoundedInv

\* The bound is inductive, and each step that is no restart goes forwards.
LEMMA StepBounded ==
  BoundedInv /\ [Next]_vars =>
    /\ BoundedInv'
    /\ restarts' = restarts => \A j \in Jobs : Forwards(Stored(j), Stored(j)')
<1> SUFFICES ASSUME BoundedInv, [Next]_vars
             PROVE  /\ \A j \in Jobs : Bounded(j)'
                    /\ restarts' = restarts => \A j \in Jobs : Forwards(Stored(j), Stored(j)')
  BY StepInv DEF BoundedInv
<1>1. CASE UNCHANGED vars
  <2>1. \A i \in Status : Rank(i) \in Nat
    BY Ranks DEF Status
  <2>2. ASSUME NEW j \in Jobs PROVE Bounded(j)' /\ Forwards(Stored(j), Stored(j)')
    <3>1. Stored(j)' = Stored(j) /\ task' = task /\ Stored(j) \in Record
      BY <1>1 DEF vars, Stored, BoundedInv, Inv, TypeOK
    <3>2. Stored(j).progress \in 0..100 /\ Stored(j).status \in Status
      BY <3>1 DEF Record
    <3> QED
      BY <2>1, <3>1, <3>2 DEF Bounded, Forwards, BoundedInv
  <2> QED
    BY <2>2
<1>2. CASE Restart
  BY <1>2, RestartBounded DEF Restart, BoundedInv, Inv, TypeOK
<1> QED
  BY <1>1, <1>2, CreateForwards, TaskForwards DEF Next, AllForwards

\* For any number of jobs and rows: while the server is up a poller of get_job
\* sees the progress and the status of a job grow and its end stand, whichever
\* updates of _run_job are swallowed and whichever polls fail.
THEOREM PollersSeeForwards == Spec => NeverGoesBack
<1> DEFINE Onwards ==
             restarts' = restarts =>
               \A j \in Jobs : \A before \in Answers(j) \ {Absent} :
                 /\ Answers(j)' # {Absent}
                 /\ \A after \in Answers(j)' \ {Absent} :
                      /\ before.progress <= after.progress
                      /\ Rank(before.status) <= Rank(after.status)
                      /\ before.status \in Final => after = before
<1>1. ASSUME BoundedInv, [Next]_vars PROVE Onwards
  <2>1. SUFFICES ASSUME restarts' = restarts, NEW j \in Jobs, NEW before \in Answers(j) \ {Absent}
                 PROVE  /\ Answers(j)' # {Absent}
                        /\ \A after \in Answers(j)' \ {Absent} :
                             /\ before.progress <= after.progress
                             /\ Rank(before.status) <= Rank(after.status)
                             /\ before.status \in Final => after = before
    OBVIOUS
  <2>2. Forwards(Stored(j), Stored(j)') /\ BoundedInv'
    BY <1>1, <2>1, StepBounded
  <2>3. before = Stored(j) /\ \A after \in Answers(j)' \ {Absent} : after = Stored(j)'
    BY <2>1 DEF Answers, Stored
  <2>4. before.status # "absent"
    BY <1>1, <2>1, <2>3 DEF BoundedInv, Inv, JobOK, Honest, Stored
  <2>5. Stored(j)'.status # "absent"
    <3>1. before.status \in Status
      BY <1>1, <2>3 DEF BoundedInv, Inv, TypeOK, Stored, Record
    <3> QED
      BY <2>2, <2>3, <2>4, <3>1, Ranks DEF Forwards, Status
  <2>6. Answers(j)' # {Absent}
    <3>1. Stored(j)' \in Answers(j)' /\ Absent.status = "absent"
      BY DEF Stored, Answers, Absent
    <3> QED
      BY <2>5, <3>1
  <2> QED
    BY <2>2, <2>3, <2>6 DEF Forwards
<1>2. Spec => []BoundedInv
  BY InitBounded, StepBounded, PTL DEF Spec
<1>3. Spec => [][Onwards]_vars
  <2> HIDE DEF Onwards
  <2> QED
    BY <1>1, <1>2, PTL DEF Spec
<1> QED
  BY <1>3 DEF NeverGoesBack
=============================================================================
