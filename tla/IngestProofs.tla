--------------------------- MODULE IngestProofs ---------------------------
(***************************************************************************)
(* Proofs about Ingest, for any files, deliveries and batch size.  The       *)
(* argument follows one row of one delivery: what its look-ups have passed   *)
(* over, among the rows of deliveries that ended before and of its own, none *)
(* of them recognises, and no later commit adds to these rows.               *)
(***************************************************************************)
EXTENDS Ingest, FiniteSetTheorems, TLAPS

\* A stored row is a valid row of its delivery's file, which has passed it.
RowsAreOfJobs ==
  \A x \in stored :
    /\ x.by \in Deliveries
    /\ job[x.by].at # "new"
    /\ job[x.by].file \in Files
    /\ x.n \in ValidRows(job[x.by].file)
    /\ x.n < job[x.by].row
    /\ x = StoredRow(x.by, job[x.by].file, x.n)

BeforeHasEnded == \A d, e \in Deliveries : e \in before[d] => job[e].at \in Ended

\* Rows wait for a commit in a delivery in progress, after those it committed.
PendingIsAhead(d) ==
  /\ job[d].at # "row" => job[d].pending = {}
  /\ job[d].at # "new" => job[d].file \in Files
  /\ job[d].at = "row" => job[d].look \in 1..Len(LookUps(job[d].file.channel))
  /\ \A n \in job[d].pending :
       /\ n \in ValidRows(job[d].file)
       /\ n < job[d].row
       /\ \A x \in stored : x.by = d => x.n < n

\* The stored rows that delivery d must not store again.
Priors(d) == {x \in stored : x.by \in before[d] \/ x.by = d}

PendingIsNew(d) ==
  \A n \in job[d].pending :
    /\ \A x \in Priors(d) : ~Recognises(job[d].file, n, x)
    /\ \A m \in job[d].pending :
         m < n => ~Recognises(job[d].file, n, StoredRow(d, job[d].file, m))

\* The look-ups of the current row that were made found nothing.
PassedLookUps(d) ==
  job[d].at = "row" =>
    \A k \in 1..(job[d].look - 1) :
      \A x \in Priors(d) \cup Written(d) :
        ~Matches(LookUps(job[d].file.channel)[k], job[d].file, job[d].row, x)

\* The rows a delivery has passed are known: stored, or about to be.
PassedIsKnown(d) ==
  job[d].at \in {"row", "done"} =>
    /\ job[d].at = "done" => job[d].row > Len(job[d].file.rows)
    /\ \A n \in ValidRows(job[d].file) : n < job[d].row =>
         \E x \in stored \cup Written(d) : Recognises(job[d].file, n, x)

JobInv(d) == PendingIsAhead(d) /\ PendingIsNew(d) /\ PassedLookUps(d) /\ PassedIsKnown(d)

Inv ==
  /\ TypeOK
  /\ RowsAreOfJobs
  /\ BeforeHasEnded
  /\ \A d \in Deliveries : JobInv(d)
  /\ CopiesOnlyFromOverlap

(***************************************************************************)
(* Look-ups and rows                                                         *)
(***************************************************************************)
LEMMA LookUpsType ==
  ASSUME NEW c \in Channel
  PROVE  /\ Len(LookUps(c)) \in 1..2
         /\ c \in Csv => LookUps(c) = <<"fingerprint">>
BY DEF LookUps, Channel, Notification, Csv

\* The columns of the row that a delivery stores for a line of its file.
LEMMA RowFields ==
  ASSUME NEW d, NEW f, NEW n
  PROVE  /\ StoredRow(d, f, n).by = d
         /\ StoredRow(d, f, n).n = n
         /\ StoredRow(d, f, n).channel = f.channel
         /\ StoredRow(d, f, n).source = f.source
         /\ StoredRow(d, f, n).ref = Reference(f, n)
         /\ StoredRow(d, f, n).fingerprint = Fingerprint(f, n)
BY DEF StoredRow

\* A delivery that meets a row it has stored recognises it.
LEMMA KnowsItsOwn ==
  ASSUME NEW f \in Files, NEW n \in ValidRows(f), NEW d
  PROVE  Recognises(f, n, StoredRow(d, f, n))
<1> DEFINE x == StoredRow(d, f, n)
<1>1. f.channel \in Channel  BY FilesAssumption
<1>2. CASE f.channel = "stripe_sync"
  <2>1. ByReference(f, n, x)
    BY <1>2, RowFields DEF ByReference, Reference, Bank
  <2> QED  BY <1>2, <2>1 DEF Recognises, Matches, LookUps, Notification
<1>3. CASE f.channel \in Notification
  <2>1. ByFingerprint(f, n, x)  BY RowFields DEF ByFingerprint
  <2>2. LookUps(f.channel) = <<"reference", "fingerprint">>  BY <1>3 DEF LookUps, Notification
  <2> QED  BY <2>1, <2>2 DEF Recognises, Matches
<1>4. CASE f.channel \notin Notification /\ f.channel # "stripe_sync"
  <2>1. ByFingerprint(f, n, x)  BY RowFields DEF ByFingerprint
  <2>2. /\ Len(LookUps(f.channel)) \in 1..2
        /\ LookUps(f.channel)[1] = "fingerprint"
    BY <1>1, <1>4 DEF LookUps, Channel
  <2> QED  BY <2>1, <2>2 DEF Recognises, Matches
<1> QED  BY <1>2, <1>3, <1>4

\* Rows of one CSV with one fingerprint are recognised by the same stored rows.
LEMMA SameFingerprint ==
  ASSUME NEW f \in Files, f.channel \in Csv, NEW m, NEW n, NEW x,
         Fingerprint(f, m) = Fingerprint(f, n)
  PROVE  Recognises(f, m, x) <=> Recognises(f, n, x)
<1>1. LookUps(f.channel) = <<"fingerprint">>  BY LookUpsType, FilesAssumption
<1>2. ByFingerprint(f, m, x) <=> ByFingerprint(f, n, x)  BY DEF ByFingerprint
<1> QED  BY <1>1, <1>2 DEF Recognises, Matches

(***************************************************************************)
(* The invariant holds                                                       *)
(***************************************************************************)
LEMMA InitInv == Init => Inv
<1> SUFFICES ASSUME Init PROVE Inv  OBVIOUS
<1>1. TypeOK  BY DEF Init, TypeOK, JobAt, Step
<1>2. \A d \in Deliveries : JobInv(d)
  BY DEF Init, JobAt, JobInv, PendingIsAhead, PendingIsNew, PassedLookUps, PassedIsKnown
<1> QED
  BY <1>1, <1>2 DEF Init, Inv, RowsAreOfJobs, BeforeHasEnded, CopiesOnlyFromOverlap

\* What a step of d leaves as it was for another delivery.
LEMMA Others ==
  ASSUME Inv, NEW d \in Deliveries, NEW e \in Deliveries, e # d,
         stored' = stored, before'[e] = before[e], job'[e] = job[e]
  PROVE  JobInv(e)'
<1>1. JobInv(e)  BY DEF Inv
<1>2. Written(e)' = Written(e)  BY DEF Written
<1>3. Priors(e)' = Priors(e)  BY DEF Priors
<1> QED
  BY <1>1, <1>2, <1>3
  DEF JobInv, PendingIsAhead, PendingIsNew, PassedLookUps, PassedIsKnown

\* A step of d that stores nothing keeps the rest of the invariant.
LEMMA LocalStep ==
  ASSUME Inv, TypeOK', NEW d \in Deliveries, job[d].at = "row", NEW j,
         UNCHANGED <<stored, before>>, job' = [job EXCEPT ![d] = j],
         j.file = job[d].file, j.at # "new", j.row \in Nat, j.row >= job[d].row,
         JobInv(d)'
  PROVE  Inv'
<1>1. \A e \in Deliveries : e # d => job'[e] = job[e]  BY DEF Inv, TypeOK
<1>2. job'[d] = j  BY DEF Inv, TypeOK
<1>3. \A e \in Deliveries : job'[e].file = job[e].file  BY <1>1, <1>2
<1>4. RowsAreOfJobs'
  <2> SUFFICES ASSUME NEW x \in stored
               PROVE  /\ x.by \in Deliveries
                      /\ job'[x.by].at # "new"
                      /\ job'[x.by].file \in Files
                      /\ x.n \in ValidRows(job'[x.by].file)
                      /\ x.n < job'[x.by].row
                      /\ x = StoredRow(x.by, job'[x.by].file, x.n)
    BY DEF RowsAreOfJobs
  <2>1. /\ x.by \in Deliveries
        /\ job[x.by].at # "new"
        /\ job[x.by].file \in Files
        /\ x.n \in ValidRows(job[x.by].file)
        /\ x.n < job[x.by].row
        /\ x = StoredRow(x.by, job[x.by].file, x.n)
    BY DEF Inv, RowsAreOfJobs
  <2>2. x.n \in Nat  BY <2>1, FilesAssumption DEF ValidRows
  <2>3. job[x.by].row \in Nat  BY <2>1 DEF Inv, TypeOK
  <2> QED  BY <1>1, <1>2, <1>3, <2>1, <2>2, <2>3
<1>5. BeforeHasEnded'
  BY <1>1 DEF Inv, BeforeHasEnded, Ended
<1>6. \A e \in Deliveries : JobInv(e)'  BY <1>1, Others
<1>7. CopiesOnlyFromOverlap'
  BY <1>3 DEF Inv, CopiesOnlyFromOverlap, RowsAreOfJobs
<1> QED  BY <1>4, <1>5, <1>6, <1>7 DEF Inv

\* The first SELECTs of a row, with all rows passed before: Move keeps JobInv.
LEMMA MoveOn ==
  ASSUME Inv, NEW d \in Deliveries, AtRow(d), Move(d), UNCHANGED <<stored, before>>,
         job[d].row \in ValidRows(job[d].file) =>
           \E x \in stored \cup Written(d) : Recognises(job[d].file, job[d].row, x)
  PROVE  Inv'
<1> DEFINE f == job[d].file
           j == [job[d] EXCEPT !.row = @ + 1, !.look = 1]
<1>1. /\ job[d] \in [at : Step, file : Files \cup {None}, row : Nat \ {0}, look : 1..2,
                     pending : SUBSET Nat]
      /\ job \in [Deliveries -> [at : Step, file : Files \cup {None}, row : Nat \ {0},
                                 look : 1..2, pending : SUBSET Nat]]
      /\ JobInv(d)
      /\ job[d].at = "row"
  BY DEF Inv, TypeOK, AtRow
<1>2. /\ job' = [job EXCEPT ![d] = j]
      /\ job'[d] = j
      /\ j \in [at : Step, file : Files \cup {None}, row : Nat \ {0}, look : 1..2,
                pending : SUBSET Nat]
  <2>1. job' = [job EXCEPT ![d] = j]  BY DEF Move
  <2>2. job'[d] = j  BY <1>1, <2>1
  <2>3. job[d].row + 1 \in Nat \ {0} /\ 1 \in 1..2  BY <1>1
  <2>4. j \in [at : Step, file : Files \cup {None}, row : Nat \ {0}, look : 1..2,
                pending : SUBSET Nat]
    BY <1>1, <2>3
  <2> QED  BY <2>1, <2>2, <2>4
<1>3. /\ j.at = "row" /\ j.file = f /\ j.look = 1
      /\ j.row = job[d].row + 1 /\ j.pending = job[d].pending
  BY <1>1
<1>4. f \in Files /\ f.channel \in Channel /\ Len(f.rows) \in Nat
  BY <1>1, FilesAssumption DEF JobInv, PendingIsAhead
<1>5. TypeOK'
  <2>1. \A e \in Deliveries : job'[e].file = job[e].file  BY <1>1, <1>2, <1>3
  <2> QED  BY <1>1, <1>2, <2>1 DEF Inv, TypeOK
<1>6. Written(d)' = Written(d)  BY <1>2, <1>3 DEF Written
<1>7. Priors(d)' = Priors(d)  BY DEF Priors
<1>8. \A n \in ValidRows(f) : n \in Nat  BY <1>4 DEF ValidRows
<1>9. PendingIsAhead(d)'
  <2>1. Len(LookUps(f.channel)) \in 1..2  BY <1>4, LookUpsType
  <2> QED  BY <1>1, <1>2, <1>3, <1>4, <1>8, <2>1 DEF JobInv, PendingIsAhead
<1>10. PendingIsNew(d)'
  BY <1>1, <1>2, <1>3, <1>7 DEF JobInv, PendingIsNew
<1>11. PassedLookUps(d)'
  <2>1. job'[d].look = 1  BY <1>2, <1>3
  <2> QED  BY <2>1 DEF PassedLookUps
<1>12. PassedIsKnown(d)'
  <2>1. \A n \in ValidRows(f) : n < job[d].row + 1 => n < job[d].row \/ n = job[d].row
    BY <1>1, <1>8
  <2> QED  BY <1>1, <1>2, <1>3, <1>6, <2>1 DEF JobInv, PassedIsKnown
<1>13. JobInv(d)'  BY <1>9, <1>10, <1>11, <1>12 DEF JobInv
<1>14. j.row \in Nat /\ j.row >= job[d].row  BY <1>1, <1>3
<1> QED  BY <1>1, <1>2, <1>3, <1>5, <1>13, <1>14, LocalStep

\* A line that is refused, or seen before in its file, is passed over.
LEMMA SkipInv ==
  ASSUME Inv, NEW d \in Deliveries, Skip(d)
  PROVE  Inv'
<1> DEFINE f == job[d].file
<1>1. JobInv(d) /\ AtRow(d) /\ job[d].at = "row" /\ Skipped(d) /\ Move(d)
  BY DEF Inv, Skip, AtRow
<1>2. f \in Files  BY <1>1 DEF JobInv, PendingIsAhead
<1>3. ASSUME job[d].row \in ValidRows(f)
      PROVE  \E x \in stored \cup Written(d) : Recognises(f, job[d].row, x)
  <2>1. Seen(d)  BY <1>1, <1>3 DEF Skipped, ValidRows
  <2>2. PICK k \in ValidRows(f) : k < job[d].row /\ Fingerprint(f, k) = Fingerprint(f, job[d].row)
    BY <2>1 DEF Seen
  <2>3. PICK x \in stored \cup Written(d) : Recognises(f, k, x)
    BY <1>1, <2>2 DEF JobInv, PassedIsKnown
  <2>4. f.channel \in Csv  BY <2>1 DEF Seen
  <2>5. Recognises(f, job[d].row, x)  BY <1>2, <2>2, <2>3, <2>4, SameFingerprint
  <2> QED  BY <2>5
<1> QED  BY <1>1, <1>3, MoveOn DEF Skip

\* A line whose row is found stored is passed over.
LEMMA DuplicateInv ==
  ASSUME Inv, NEW d \in Deliveries, Duplicate(d)
  PROVE  Inv'
<1> DEFINE f == job[d].file
<1>1. JobInv(d) /\ AtRow(d) /\ job[d].at = "row" /\ Move(d) /\ Found(d) # {}
  BY DEF Inv, Duplicate, AtRow
<1>2. job[d].look \in 1..Len(LookUps(f.channel))  BY <1>1 DEF JobInv, PendingIsAhead
<1>3. PICK x \in Visible(d) : Matches(LookUps(f.channel)[job[d].look], f, job[d].row, x)
  BY <1>1 DEF Found
<1>4. Recognises(f, job[d].row, x)  BY <1>2, <1>3 DEF Recognises
<1>5. x \in stored \cup Written(d)  BY DEF Visible
<1> QED  BY <1>1, <1>4, <1>5, MoveOn DEF Duplicate

\* A delivery that ends without a commit keeps the invariant.
LEMMA EndInv ==
  ASSUME Inv, NEW d \in Deliveries, job[d].at = "row", UNCHANGED <<stored, before>>,
         NEW at \in {"failed", "raised"},
         job' = [job EXCEPT ![d] = [@ EXCEPT !.at = at, !.pending = {}]]
  PROVE  Inv'
<1> DEFINE j == [job[d] EXCEPT !.at = at, !.pending = {}]
<1>1. /\ job[d] \in [at : Step, file : Files \cup {None}, row : Nat \ {0}, look : 1..2,
                     pending : SUBSET Nat]
      /\ job \in [Deliveries -> [at : Step, file : Files \cup {None}, row : Nat \ {0},
                                 look : 1..2, pending : SUBSET Nat]]
      /\ JobInv(d)
  BY DEF Inv, TypeOK
<1>2. /\ job' = [job EXCEPT ![d] = j]
      /\ job'[d] = j
      /\ j \in [at : Step, file : Files \cup {None}, row : Nat \ {0}, look : 1..2,
                pending : SUBSET Nat]
  BY <1>1 DEF Step
<1>3. j.at = at /\ j.file = job[d].file /\ j.row = job[d].row /\ j.pending = {}
  BY <1>1
<1>4. TypeOK'
  <2>1. \A e \in Deliveries : job'[e].file = job[e].file  BY <1>1, <1>2, <1>3
  <2> QED  BY <1>1, <1>2, <2>1 DEF Inv, TypeOK
<1>5. JobInv(d)'
  BY <1>1, <1>2, <1>3
  DEF JobInv, PendingIsAhead, PendingIsNew, PassedLookUps, PassedIsKnown
<1>6. j.row \in Nat /\ j.row >= job[d].row  BY <1>1, <1>3
<1> QED  BY <1>1, <1>2, <1>3, <1>4, <1>5, <1>6, LocalStep

\* A delivery that has passed all its rows leaves all of them stored.
LEMMA FinishInv ==
  ASSUME Inv, NEW d \in Deliveries, Finish(d)
  PROVE  Inv'
<1> DEFINE j == [job[d] EXCEPT !.at = "done"]
<1>1. /\ job[d] \in [at : Step, file : Files \cup {None}, row : Nat \ {0}, look : 1..2,
                     pending : SUBSET Nat]
      /\ job \in [Deliveries -> [at : Step, file : Files \cup {None}, row : Nat \ {0},
                                 look : 1..2, pending : SUBSET Nat]]
      /\ JobInv(d)
      /\ job[d].at = "row" /\ job[d].pending = {} /\ job[d].row > Len(job[d].file.rows)
      /\ UNCHANGED <<stored, before>>
  BY DEF Inv, TypeOK, Finish
<1>2. /\ job' = [job EXCEPT ![d] = j]
      /\ job'[d] = j
      /\ j \in [at : Step, file : Files \cup {None}, row : Nat \ {0}, look : 1..2,
                pending : SUBSET Nat]
  BY <1>1 DEF Step, Finish
<1>3. j.at = "done" /\ j.file = job[d].file /\ j.row = job[d].row /\ j.pending = {}
  BY <1>1
<1>4. TypeOK'
  <2>1. \A e \in Deliveries : job'[e].file = job[e].file  BY <1>1, <1>2, <1>3
  <2> QED  BY <1>1, <1>2, <2>1 DEF Inv, TypeOK
<1>5. Written(d)' = Written(d)  BY <1>1, <1>2, <1>3 DEF Written
<1>6. JobInv(d)'
  <2>1. PendingIsAhead(d)' /\ PendingIsNew(d)' /\ PassedLookUps(d)'
    BY <1>1, <1>2, <1>3 DEF JobInv, PendingIsAhead, PendingIsNew, PassedLookUps
  <2>2. PassedIsKnown(d)'
    BY <1>1, <1>2, <1>3, <1>5 DEF JobInv, PassedIsKnown
  <2> QED  BY <2>1, <2>2 DEF JobInv
<1>7. j.row \in Nat /\ j.row >= job[d].row  BY <1>1, <1>3
<1> QED  BY <1>1, <1>2, <1>3, <1>4, <1>6, <1>7, LocalStep

\* A look-up that finds nothing; after the last one the row is pending.
LEMMA LookUpInv ==
  ASSUME Inv, NEW d \in Deliveries, LookUp(d)
  PROVE  Inv'
<1> DEFINE f == job[d].file
           row == job[d].row
           look == job[d].look
           added == [job[d] EXCEPT !.row = @ + 1, !.look = 1, !.pending = @ \cup {row}]
           next == [job[d] EXCEPT !.look = @ + 1]
<1>1. /\ job[d] \in [at : Step, file : Files \cup {None}, row : Nat \ {0}, look : 1..2,
                     pending : SUBSET Nat]
      /\ job \in [Deliveries -> [at : Step, file : Files \cup {None}, row : Nat \ {0},
                                 look : 1..2, pending : SUBSET Nat]]
      /\ JobInv(d)
      /\ job[d].at = "row" /\ row <= Len(f.rows) /\ ~Skipped(d) /\ Found(d) = {}
      /\ UNCHANGED <<stored, before>>
  BY DEF Inv, TypeOK, LookUp, AtRow
<1>2. /\ f \in Files /\ f.channel \in Channel /\ Len(f.rows) \in Nat
      /\ look \in 1..Len(LookUps(f.channel))
  BY <1>1, FilesAssumption DEF JobInv, PendingIsAhead
<1>3. Len(LookUps(f.channel)) \in 1..2  BY <1>2, LookUpsType
<1>4. row \in ValidRows(f) /\ ~Seen(d)  BY <1>1, <1>2 DEF Skipped, ValidRows
<1>5. \A x \in Visible(d) : ~Matches(LookUps(f.channel)[look], f, row, x)
  BY <1>1 DEF Found
<1>6. Priors(d) \subseteq Visible(d)  BY DEF Priors, Visible
\* A CSV's own new rows are not visible, but have other fingerprints.
<1>7. \A x \in Written(d) : ~Matches(LookUps(f.channel)[look], f, row, x)
  <2>1. CASE f.channel \notin Csv  BY <1>5, <2>1 DEF Visible
  <2>2. CASE f.channel \in Csv
    <3>1. LookUps(f.channel) = <<"fingerprint">> /\ look = 1
      <4>1. LookUps(f.channel) = <<"fingerprint">>  BY <1>2, <2>2, LookUpsType
      <4> QED  BY <1>2, <4>1
    <3> SUFFICES ASSUME NEW n \in job[d].pending
                 PROVE  ~ByFingerprint(f, row, StoredRow(d, f, n))
      BY <3>1 DEF Written, Matches
    <3>2. n \in ValidRows(f) /\ n < row  BY <1>1 DEF JobInv, PendingIsAhead
    <3>3. Fingerprint(f, n) # Fingerprint(f, row)  BY <1>4, <2>2, <3>2 DEF Seen
    <3> QED  BY <3>3, RowFields DEF ByFingerprint
  <2> QED  BY <2>1, <2>2
<1>8. \A k \in 1..look : \A x \in Priors(d) \cup Written(d) :
        ~Matches(LookUps(f.channel)[k], f, row, x)
  <2>1. \A k \in 1..look : k = look \/ k \in 1..(look - 1)  BY <1>2, <1>3
  <2> QED  BY <1>1, <1>5, <1>6, <1>7, <2>1 DEF JobInv, PassedLookUps
<1>9. CASE look < Len(LookUps(f.channel))
  <2>1. job' = [job EXCEPT ![d] = next]
    <3>1. job' = [job EXCEPT ![d].look = @ + 1]  BY <1>9 DEF LookUp
    <3> QED  BY <1>1, <3>1
  <2>2. look + 1 \in 1..2 /\ look + 1 \in 1..Len(LookUps(f.channel))
    <3> DEFINE len == Len(LookUps(f.channel))
    <3>1. len \in 1..2 /\ look \in 1..len /\ look < len  BY <1>2, <1>3, <1>9
    <3> HIDE DEF len, look
    <3>2. look + 1 \in 1..2 /\ look + 1 \in 1..len  BY <3>1
    <3> QED  BY <3>2 DEF len
  <2>3. /\ job'[d] = next
        /\ next \in [at : Step, file : Files \cup {None}, row : Nat \ {0}, look : 1..2,
                     pending : SUBSET Nat]
        /\ next.at = "row" /\ next.file = f /\ next.row = row /\ next.look = look + 1
        /\ next.pending = job[d].pending
    BY <1>1, <2>1, <2>2
  <2>4. TypeOK'
    <3>1. \A e \in Deliveries : job'[e].file = job[e].file  BY <1>1, <2>1, <2>3
    <3> QED  BY <1>1, <2>1, <2>3, <3>1 DEF Inv, TypeOK
  <2>5. Written(d)' = Written(d) /\ Priors(d)' = Priors(d)
    BY <1>1, <2>3 DEF Written, Priors
  <2>6. PendingIsAhead(d)' /\ PendingIsNew(d)'
    BY <1>1, <2>2, <2>3, <2>5 DEF JobInv, PendingIsAhead, PendingIsNew
  <2>7. PassedLookUps(d)'
    <3>1. next.look - 1 = look  BY <1>2, <1>3, <2>3
    <3> QED  BY <1>8, <2>3, <2>5, <3>1 DEF PassedLookUps
  <2>8. PassedIsKnown(d)'
    BY <1>1, <2>3, <2>5 DEF JobInv, PassedIsKnown
  <2>9. JobInv(d)'  BY <2>6, <2>7, <2>8 DEF JobInv
  <2>10. row \in Nat /\ row >= row  BY <1>1
  <2> QED  BY <1>1, <2>1, <2>3, <2>4, <2>9, <2>10, LocalStep
<1>10. CASE ~(look < Len(LookUps(f.channel)))
  <2>1. job' = [job EXCEPT ![d] = added]  BY <1>1, <1>10 DEF LookUp
  <2>2. row + 1 \in Nat \ {0} /\ 1 \in 1..2 /\ job[d].pending \cup {row} \in SUBSET Nat
    BY <1>1
  <2>3. /\ job'[d] = added
        /\ added \in [at : Step, file : Files \cup {None}, row : Nat \ {0}, look : 1..2,
                      pending : SUBSET Nat]
        /\ added.at = "row" /\ added.file = f /\ added.row = row + 1 /\ added.look = 1
        /\ added.pending = job[d].pending \cup {row}
    BY <1>1, <2>1, <2>2
  <2>4. TypeOK'
    <3>1. \A e \in Deliveries : job'[e].file = job[e].file  BY <1>1, <2>1, <2>3
    <3> QED  BY <1>1, <2>1, <2>3, <3>1 DEF Inv, TypeOK
  <2>5. Written(d)' = Written(d) \cup {StoredRow(d, f, row)} /\ Priors(d)' = Priors(d)
    BY <1>1, <2>3 DEF Written, Priors
  <2>6. \A x \in Priors(d) \cup Written(d) : ~Recognises(f, row, x)
    <3>1. look = Len(LookUps(f.channel))  BY <1>2, <1>3, <1>10
    <3> QED  BY <1>8, <3>1 DEF Recognises
  <2>7. \A n \in ValidRows(f) : n \in Nat  BY <1>2 DEF ValidRows
  <2>8. PendingIsAhead(d)'
    <3>1. \A x \in stored : x.by = d => x.n < row
      BY DEF Inv, RowsAreOfJobs
    <3>2. \A n \in job[d].pending \cup {row} : n \in ValidRows(f) /\ n < row + 1
      BY <1>1, <1>4, <2>7 DEF JobInv, PendingIsAhead
    <3>3. 1 \in 1..Len(LookUps(f.channel))
      <4> HIDE DEF f
      <4> QED  BY <1>3
    <3> QED  BY <1>1, <1>2, <2>3, <3>1, <3>2, <3>3 DEF JobInv, PendingIsAhead
  <2>9. PendingIsNew(d)'
    <3>1. \A n \in job[d].pending : n < row /\ n \in Nat
      BY <1>1, <2>7 DEF JobInv, PendingIsAhead
    <3>2. \A n \in job[d].pending : ~Recognises(f, row, StoredRow(d, f, n))
      BY <2>6 DEF Written
    <3>3. \A n \in job[d].pending \cup {row} : \A x \in Priors(d) : ~Recognises(f, n, x)
      BY <1>1, <2>6 DEF JobInv, PendingIsNew
    <3>4. \A n, m \in job[d].pending \cup {row} :
            m < n => ~Recognises(f, n, StoredRow(d, f, m))
      BY <1>1, <3>1, <3>2 DEF JobInv, PendingIsNew
    <3> QED  BY <2>3, <2>5, <3>3, <3>4 DEF PendingIsNew
  <2>10. PassedLookUps(d)'
    <3>1. job'[d].look = 1  BY <2>3
    <3> QED  BY <3>1 DEF PassedLookUps
  <2>11. PassedIsKnown(d)'
    <3>1. Recognises(f, row, StoredRow(d, f, row))  BY <1>2, <1>4, KnowsItsOwn
    <3>2. \A n \in ValidRows(f) : n < row + 1 => n < row \/ n = row  BY <1>1, <2>7
    <3>3. \A n \in ValidRows(f) : n < row =>
            \E x \in stored \cup Written(d) : Recognises(f, n, x)
      BY <1>1 DEF JobInv, PassedIsKnown
    <3>4. \A n \in ValidRows(f) : n < row + 1 =>
            \E x \in stored \cup Written(d)' : Recognises(f, n, x)
      BY <2>5, <3>1, <3>2, <3>3
    <3> QED  BY <1>1, <2>3, <3>4 DEF PassedIsKnown
  <2>12. JobInv(d)'  BY <2>8, <2>9, <2>10, <2>11 DEF JobInv
  <2>13. row + 1 \in Nat /\ row + 1 >= row  BY <1>1
  <2> QED  BY <1>1, <2>1, <2>3, <2>4, <2>12, <2>13, LocalStep
<1> QED  BY <1>9, <1>10

\* A commit makes the pending rows visible: the invariant stays.
LEMMA CommitInv ==
  ASSUME Inv, NEW d \in Deliveries, Commit(d)
  PROVE  Inv'
<1> DEFINE f == job[d].file
           j == [job[d] EXCEPT !.pending = {}]
<1>1. /\ job[d] \in [at : Step, file : Files \cup {None}, row : Nat \ {0}, look : 1..2,
                     pending : SUBSET Nat]
      /\ job \in [Deliveries -> [at : Step, file : Files \cup {None}, row : Nat \ {0},
                                 look : 1..2, pending : SUBSET Nat]]
      /\ JobInv(d)
      /\ job[d].at = "row"
      /\ stored' = stored \cup Written(d)
      /\ before' = before
  BY DEF Inv, TypeOK, Commit
<1>2. f \in Files  BY <1>1 DEF JobInv, PendingIsAhead
<1>3. job' = [job EXCEPT ![d] = j]
  <2>1. job' = [job EXCEPT ![d].pending = {}]  BY DEF Commit
  <2> QED  BY <1>1, <2>1
<1>4. /\ job'[d] = j
      /\ j \in [at : Step, file : Files \cup {None}, row : Nat \ {0}, look : 1..2,
                pending : SUBSET Nat]
      /\ j.at = "row" /\ j.file = f /\ j.row = job[d].row /\ j.look = job[d].look
      /\ j.pending = {}
  BY <1>1, <1>3
<1>5. \A e \in Deliveries : e # d => job'[e] = job[e]  BY <1>1, <1>3
<1>6. \A e \in Deliveries : job'[e].file = job[e].file /\ job'[e].at = job[e].at
                            /\ job'[e].row = job[e].row
  BY <1>1, <1>4, <1>5
\* What is new in the table, and that no delivery had d before it.
<1>7. \A x \in Written(d) :
        /\ x.by = d
        /\ x.n \in job[d].pending
        /\ x.n \in ValidRows(f)
        /\ x.n < job[d].row
        /\ x = StoredRow(d, f, x.n)
  <2> SUFFICES ASSUME NEW n \in job[d].pending
               PROVE  LET x == StoredRow(d, f, n)
                      IN  /\ x.by = d
                          /\ x.n \in job[d].pending
                          /\ x.n \in ValidRows(f)
                          /\ x.n < job[d].row
                          /\ x = StoredRow(d, f, x.n)
    BY DEF Written
  <2>1. n \in ValidRows(f) /\ n < job[d].row  BY <1>1 DEF JobInv, PendingIsAhead
  <2> QED  BY <2>1, RowFields
<1>8. \A e \in Deliveries : d \notin before[e]
  BY <1>1 DEF Inv, BeforeHasEnded, Ended
<1>9. TypeOK'
  BY <1>1, <1>2, <1>3, <1>4, <1>6, <1>7 DEF Inv, TypeOK
<1>10. RowsAreOfJobs'
  <2>1. ASSUME NEW x \in stored
        PROVE  /\ x.by \in Deliveries
               /\ job'[x.by].at # "new"
               /\ job'[x.by].file \in Files
               /\ x.n \in ValidRows(job'[x.by].file)
               /\ x.n < job'[x.by].row
               /\ x = StoredRow(x.by, job'[x.by].file, x.n)
    BY <1>6 DEF Inv, RowsAreOfJobs
  <2>2. ASSUME NEW x \in Written(d)
        PROVE  /\ x.by \in Deliveries
               /\ job'[x.by].at # "new"
               /\ job'[x.by].file \in Files
               /\ x.n \in ValidRows(job'[x.by].file)
               /\ x.n < job'[x.by].row
               /\ x = StoredRow(x.by, job'[x.by].file, x.n)
    BY <1>2, <1>4, <1>7
  <2> QED  BY <1>1, <2>1, <2>2 DEF RowsAreOfJobs
<1>11. BeforeHasEnded'  BY <1>1, <1>6 DEF Inv, BeforeHasEnded
<1>12. JobInv(d)'
  <2>1. PendingIsAhead(d)'
    BY <1>1, <1>4 DEF JobInv, PendingIsAhead
  <2>2. PendingIsNew(d)'  BY <1>4 DEF PendingIsNew
  <2>3. Priors(d)' \cup Written(d)' \subseteq Priors(d) \cup Written(d)
    BY <1>1, <1>4 DEF Priors, Written
  <2>4. PassedLookUps(d)'
    BY <1>1, <1>4, <2>3 DEF JobInv, PassedLookUps
  <2>5. stored' \cup Written(d)' = stored \cup Written(d)  BY <1>1, <1>4 DEF Written
  <2>6. PassedIsKnown(d)'
    BY <1>1, <1>4, <2>5 DEF JobInv, PassedIsKnown
  <2> QED  BY <2>1, <2>2, <2>4, <2>6 DEF JobInv
<1>13. ASSUME NEW e \in Deliveries, e # d  PROVE JobInv(e)'
  <2>1. JobInv(e) /\ job'[e] = job[e] /\ before'[e] = before[e]  BY <1>1, <1>5, <1>13 DEF Inv
  <2>2. Written(e)' = Written(e)  BY <2>1 DEF Written
  <2>3. Priors(e)' = Priors(e)  BY <1>1, <1>7, <1>8, <1>13 DEF Priors
  <2>4. \A x \in stored' : x.by = e => x \in stored  BY <1>1, <1>7, <1>13
  <2>5. PendingIsAhead(e)'  BY <2>1, <2>4 DEF JobInv, PendingIsAhead
  <2>6. PendingIsNew(e)'  BY <2>1, <2>3 DEF JobInv, PendingIsNew
  <2>7. PassedLookUps(e)'  BY <2>1, <2>2, <2>3 DEF JobInv, PassedLookUps
  <2>8. PassedIsKnown(e)'  BY <1>1, <2>1, <2>2 DEF JobInv, PassedIsKnown
  <2> QED  BY <2>5, <2>6, <2>7, <2>8 DEF JobInv
<1>14. CopiesOnlyFromOverlap'
  <2> SUFFICES ASSUME NEW x \in stored', NEW y \in stored',
                      x.by \in before'[y.by] \/ (x.by = y.by /\ x.n < y.n)
               PROVE  ~Recognises(job'[y.by].file, y.n, x)
    BY DEF CopiesOnlyFromOverlap
  <2>0. /\ y.by \in Deliveries
        /\ job'[y.by].file = job[y.by].file
        /\ x.by \in before[y.by] \/ (x.by = y.by /\ x.n < y.n)
    BY <1>1, <1>6, <1>10 DEF RowsAreOfJobs
  <2>1. CASE x \in stored /\ y \in stored
    BY <2>0, <2>1 DEF Inv, CopiesOnlyFromOverlap
  <2>2. CASE x \in stored /\ y \in Written(d)
    <3>1. y.by = d /\ y.n \in job[d].pending  BY <1>7, <2>2
    <3>2. x \in Priors(d)  BY <2>0, <2>2, <3>1 DEF Priors
    <3> QED  BY <1>1, <2>0, <3>1, <3>2 DEF JobInv, PendingIsNew
  <2>3. CASE x \in Written(d) /\ y \in stored
    <3>1. x.by = d /\ x.n \in job[d].pending  BY <1>7, <2>3
    <3>2. y.by \in Deliveries  BY <2>3 DEF Inv, RowsAreOfJobs
    <3>3. y.by = d /\ x.n < y.n  BY <1>8, <2>0, <3>1, <3>2
    <3>4. y.n < x.n  BY <1>1, <2>3, <3>1, <3>3 DEF JobInv, PendingIsAhead
    <3>5. x.n \in Nat /\ y.n \in Nat
      BY <1>2, <1>7, <2>3, <3>3, FilesAssumption DEF Inv, RowsAreOfJobs, ValidRows
    <3> QED  BY <3>3, <3>4, <3>5
  <2>4. CASE x \in Written(d) /\ y \in Written(d)
    <3>1. /\ x.by = d /\ x.n \in job[d].pending /\ x = StoredRow(d, f, x.n)
          /\ y.by = d /\ y.n \in job[d].pending
      BY <1>7, <2>4
    <3>2. x.n < y.n  BY <1>8, <2>0, <3>1
    <3> QED  BY <1>1, <2>0, <3>1, <3>2 DEF JobInv, PendingIsNew
  <2> QED  BY <1>1, <2>1, <2>2, <2>3, <2>4
<1> QED  BY <1>9, <1>10, <1>11, <1>12, <1>13, <1>14 DEF Inv

\* A delivery that begins, or is refused, has passed nothing yet.
LEMMA BeginInv ==
  ASSUME Inv, NEW d \in Deliveries, NEW f \in Files, NEW at \in {"row", "refused"},
         Begin(d, f, at)
  PROVE  Inv'
<1> DEFINE j == [at |-> at, file |-> f, row |-> 1, look |-> 1, pending |-> {}]
<1>1. /\ job \in [Deliveries -> [at : Step, file : Files \cup {None}, row : Nat \ {0},
                                 look : 1..2, pending : SUBSET Nat]]
      /\ before \in [Deliveries -> SUBSET Deliveries]
      /\ job[d].at = "new"
      /\ stored' = stored
  BY DEF Inv, TypeOK, Begin
<1>2. job' = [job EXCEPT ![d] = j]  BY DEF Begin, JobAt
<1>3. \A e \in Deliveries : e # d => job'[e] = job[e] /\ before'[e] = before[e]
  BY <1>1, <1>2 DEF Begin
<1>4. job'[d] = j /\ before'[d] = {e \in Deliveries : job[e].at \in Ended}
  BY <1>1, <1>2 DEF Begin
<1>5. \A x \in stored : x.by # d /\ x.by \in Deliveries  BY <1>1 DEF Inv, RowsAreOfJobs
<1>6. \A x \in stored : job'[x.by] = job[x.by] /\ before'[x.by] = before[x.by]
  BY <1>3, <1>5
<1>7. TypeOK'
  <2>1. j \in [at : Step, file : Files \cup {None}, row : Nat \ {0}, look : 1..2,
               pending : SUBSET Nat]
    BY DEF Step
  <2>2. before' \in [Deliveries -> SUBSET Deliveries]  BY <1>1 DEF Begin
  <2> QED  BY <1>1, <1>2, <1>6, <2>1, <2>2 DEF Inv, TypeOK
<1>8. RowsAreOfJobs'  BY <1>1, <1>6 DEF Inv, RowsAreOfJobs
<1>9. BeforeHasEnded'
  <2>1. \A e \in Deliveries : job[e].at \in Ended => e # d  BY <1>1 DEF Ended
  <2> QED  BY <1>3, <1>4, <2>1 DEF Inv, BeforeHasEnded
<1>10. JobInv(d)'
  <2>1. 1 \in 1..Len(LookUps(f.channel))
    <3> DEFINE len == Len(LookUps(f.channel))
    <3>1. len \in 1..2  BY FilesAssumption, LookUpsType
    <3> HIDE DEF len
    <3>2. 1 \in 1..len  BY <3>1
    <3> QED  BY <3>2 DEF len
  <2>2. PendingIsAhead(d)'  BY <1>4, <2>1 DEF PendingIsAhead
  <2>3. PendingIsNew(d)'  BY <1>4 DEF PendingIsNew
  <2>4. PassedLookUps(d)'
    <3>1. job'[d].look = 1  BY <1>4
    <3> QED  BY <3>1 DEF PassedLookUps
  <2>5. PassedIsKnown(d)'
    <3>1. \A n \in ValidRows(f) : n \in Nat /\ n >= 1  BY FilesAssumption DEF ValidRows
    <3> QED  BY <1>4, <3>1 DEF PassedIsKnown
  <2> QED  BY <2>2, <2>3, <2>4, <2>5 DEF JobInv
<1>11. \A e \in Deliveries : e # d => JobInv(e)'  BY <1>1, <1>3, Others
<1>12. CopiesOnlyFromOverlap'  BY <1>1, <1>6 DEF Inv, CopiesOnlyFromOverlap
<1> QED  BY <1>7, <1>8, <1>9, <1>10, <1>11, <1>12 DEF Inv

\* The invariant is inductive.
LEMMA NextInv == Inv /\ [Next]_vars => Inv'
<1> SUFFICES ASSUME Inv, [Next]_vars PROVE Inv'  OBVIOUS
<1>1. ASSUME NEW d \in Deliveries, NEW f \in Files, Receive(d, f)  PROVE Inv'
  <2>1. \E at \in {"row", "refused"} : Begin(d, f, at)
    BY <1>1 DEF Receive, UploadStatement, UploadProviderReport, FacturadorIntake,
                SyncTransactions, ManualSync, RedsysWebhook, StripeWebhook
  <2> QED  BY <2>1, BeginInv
<1>2. ASSUME NEW d \in Deliveries, Skip(d)  PROVE Inv'  BY <1>2, SkipInv
<1>3. ASSUME NEW d \in Deliveries, LookUp(d)  PROVE Inv'  BY <1>3, LookUpInv
<1>4. ASSUME NEW d \in Deliveries, Duplicate(d)  PROVE Inv'  BY <1>4, DuplicateInv
<1>5. ASSUME NEW d \in Deliveries, Raise(d)  PROVE Inv'  BY <1>5, EndInv DEF Raise, AtRow
<1>6. ASSUME NEW d \in Deliveries, Commit(d)  PROVE Inv'  BY <1>6, CommitInv
<1>7. ASSUME NEW d \in Deliveries, Finish(d)  PROVE Inv'  BY <1>7, FinishInv
<1>8. ASSUME NEW d \in Deliveries, Fail(d)  PROVE Inv'  BY <1>8, EndInv DEF Fail
<1>9. CASE UNCHANGED vars
  <2>1. job' = job /\ stored' = stored /\ before' = before  BY <1>9 DEF vars
  <2>2. TypeOK' /\ RowsAreOfJobs' /\ BeforeHasEnded' /\ CopiesOnlyFromOverlap'
    BY <2>1 DEF Inv, TypeOK, RowsAreOfJobs, BeforeHasEnded, CopiesOnlyFromOverlap
  <2>3. ASSUME NEW d \in Deliveries  PROVE JobInv(d)'
    <3>1. JobInv(d)  BY DEF Inv
    <3>2. Written(d)' = Written(d) /\ Priors(d)' = Priors(d)  BY <2>1 DEF Written, Priors
    <3> QED
      BY <2>1, <3>1, <3>2
      DEF JobInv, PendingIsAhead, PendingIsNew, PassedLookUps, PassedIsKnown
  <2> QED  BY <2>2, <2>3 DEF Inv
<1> QED  BY <1>1, <1>2, <1>3, <1>4, <1>5, <1>6, <1>7, <1>8, <1>9 DEF Next, Handler

\* It holds in every reachable state.
LEMMA Invariance == Spec => []Inv
BY InitInv, NextInv, PTL DEF Spec

(***************************************************************************)
(* Theorems                                                                  *)
(***************************************************************************)
\* Deliveries and rows keep their types.
THEOREM IngestTypeCorrect == Spec => []TypeOK
<1>1. Inv => TypeOK  BY DEF Inv
<1> QED  BY <1>1, Invariance, PTL

\* A row is stored once by deliveries that do not overlap, whatever the files,
\* the batches, the order of deliveries and the failures between them.
THEOREM StoredOnceWithoutOverlap == Spec => []CopiesOnlyFromOverlap
<1>1. Inv => CopiesOnlyFromOverlap  BY DEF Inv
<1> QED  BY <1>1, Invariance, PTL

\* A delivery that ends well leaves no row of its file unknown to the table.
THEOREM NothingLeftOut == Spec => []DoneIsStored
<1>1. Inv => DoneIsStored
  <2> SUFFICES ASSUME Inv, NEW d \in Deliveries, job[d].at = "done",
                      NEW n \in ValidRows(job[d].file)
               PROVE  \E x \in stored : Recognises(job[d].file, n, x)
    BY DEF DoneIsStored
  <2>1. PendingIsAhead(d) /\ PassedIsKnown(d)  BY DEF Inv, JobInv
  <2>2. Written(d) = {}  BY <2>1 DEF PendingIsAhead, Written
  <2>3. job[d].file \in Files /\ job[d].row > Len(job[d].file.rows)
    BY <2>1 DEF PendingIsAhead, PassedIsKnown
  <2>4. n \in 1..Len(job[d].file.rows) /\ Len(job[d].file.rows) \in Nat
    BY <2>3, FilesAssumption DEF ValidRows
  <2>5. job[d].row \in Nat  BY DEF Inv, TypeOK
  <2>6. n < job[d].row  BY <2>3, <2>4, <2>5
  <2> QED  BY <2>1, <2>2, <2>6 DEF PassedIsKnown
<1> QED  BY <1>1, Invariance, PTL

\* Stored rows that one SELECT returns would each have been recognised by the
\* delivery of the other, unless a CSV or the facturador brought one of them.
LEMMA FoundTogether ==
  ASSUME NEW f \in Files, NEW g \in Files, NEW h \in Files, NEW n, NEW m, NEW x, NEW y,
         NEW dx, NEW dy, NEW k \in 1..Len(LookUps(f.channel)), NEW row,
         f.channel # "bank_csv",
         x = StoredRow(dx, h, n), y = StoredRow(dy, g, m),
         Matches(LookUps(f.channel)[k], f, row, x), Matches(LookUps(f.channel)[k], f, row, y),
         {x.channel, y.channel} \cap {"provider_csv", "facturador"} = {}
  PROVE  Recognises(g, m, x)
<1>1. f.channel \in Channel /\ g.channel \in Channel /\ h.channel \in Channel
  BY FilesAssumption
<1>2. /\ x.channel = h.channel /\ x.source = h.source /\ x.ref = Reference(h, n)
      /\ x.fingerprint = Fingerprint(h, n)
      /\ y.channel = g.channel /\ y.source = g.source /\ y.ref = Reference(g, m)
      /\ y.fingerprint = Fingerprint(g, m)
  BY RowFields
<1>3. g.channel \notin {"provider_csv", "facturador"}
      /\ h.channel \notin {"provider_csv", "facturador"}
  BY <1>2
<1>4. Reference(g, m) = g.rows[m].ref /\ Reference(h, n) = h.rows[n].ref
  BY <1>3 DEF Reference
<1>5. CASE LookUps(f.channel)[k] = "fingerprint"
  <2>1. ByFingerprint(f, row, x) /\ ByFingerprint(f, row, y)  BY <1>5 DEF Matches
  <2>2. f.channel # "stripe_sync"
    <3> SUFFICES ASSUME f.channel = "stripe_sync" PROVE FALSE  OBVIOUS
    <3>1. LookUps(f.channel) = <<"reference">>  BY DEF LookUps, Notification
    <3> QED  BY <1>5, <3>1
  <2>3. Fingerprint(f, row).channel = f.channel  BY <2>2 DEF Fingerprint
  <2>4. \A l : \A i \in Files : Fingerprint(i, l).channel \in {i.channel, None}
    BY DEF Fingerprint, NoFingerprint
  <2>5. Fingerprint(g, m).channel = f.channel  BY <1>2, <2>1, <2>3 DEF ByFingerprint
  <2>6. g.channel = f.channel  BY <1>1, <2>4, <2>5, NoneAssumption
  <2>7. ByFingerprint(g, m, x)  BY <1>2, <2>1, <2>6 DEF ByFingerprint
  <2> QED  BY <1>5, <2>6, <2>7 DEF Recognises, Matches
<1>6. CASE LookUps(f.channel)[k] = "reference"
  <2>1. ByReference(f, row, x) /\ ByReference(f, row, y)  BY <1>6 DEF Matches
  <2>2. ByReference(g, m, x)  BY <1>2, <1>4, <2>1 DEF ByReference
  <2>3. g.channel \in {"redsys", "stripe_event", "stripe_sync"}
    BY <1>1, <1>2, <1>3, <2>1 DEF ByReference, Channel, Bank
  <2>4. 1 \in 1..Len(LookUps(g.channel)) /\ LookUps(g.channel)[1] = "reference"
    BY <2>3 DEF LookUps, Notification
  <2> QED  BY <2>2, <2>4 DEF Recognises, Matches
<1>7. CASE LookUps(f.channel)[k] = "legacy"
  <2>1. ByLegacyReference(f, row, x) /\ ByLegacyReference(f, row, y)  BY <1>7 DEF Matches
  <2>2. ByLegacyReference(g, m, x)  BY <1>2, <1>4, <2>1 DEF ByLegacyReference
  <2>3. g.channel = "open_banking"  BY <1>2, <2>1 DEF ByLegacyReference
  <2>4. 2 \in 1..Len(LookUps(g.channel)) /\ LookUps(g.channel)[2] = "legacy"
    BY <2>3 DEF LookUps, Notification
  <2> QED  BY <2>2, <2>4 DEF Recognises, Matches
<1> QED
  BY <1>5, <1>6, <1>7 DEF Matches

\* Every redelivery of a row is answered, unless an overlap or a second channel
\* stored copies of it.
THEOREM RaisesOverCopies == Spec => []RaisesOnlyOverCopies
<1>1. Inv => RaisesOnlyOverCopies
  <2> SUFFICES ASSUME Inv, NEW d \in Deliveries, AtRow(d), Raises(d)
               PROVE  \E x, y \in Found(d) :
                        /\ x # y
                        /\ \/ x.by # y.by /\ Overlap(x.by, y.by)
                           \/ {x.channel, y.channel} \cap {"provider_csv", "facturador"} # {}
    BY DEF RaisesOnlyOverCopies
  <2> DEFINE f == job[d].file
  <2>1. PendingIsAhead(d) /\ PendingIsNew(d) /\ job[d].at = "row"  BY DEF Inv, JobInv, AtRow
  <2>2. f \in Files /\ job[d].look \in 1..Len(LookUps(f.channel)) /\ f.channel # "bank_csv"
    BY <2>1 DEF PendingIsAhead, Raises
  <2>3. PICK x \in Found(d), y \in Found(d) : x # y
    <3>1. ASSUME Found(d) = {} PROVE FALSE
      BY <3>1, FS_EmptySet DEF Raises
    <3>2. ASSUME NEW x \in Found(d), \A y \in Found(d) : x = y PROVE FALSE
      <4>1. Found(d) = {x}  BY <3>2
      <4>2. Cardinality({x}) = 1  BY FS_Singleton
      <4> QED  BY <4>1, <4>2 DEF Raises
    <3> QED  BY <3>1, <3>2
  <2>4. \A z \in Found(d) : /\ z \in stored \cup Written(d)
                            /\ Matches(LookUps(f.channel)[job[d].look], f, job[d].row, z)
    BY DEF Found, Visible
  \* The rows of the table and of d are rows of their deliveries' files.
  <2>5. \A z \in stored \cup Written(d) :
          /\ z.by \in Deliveries /\ job[z.by].file \in Files
          /\ z = StoredRow(z.by, job[z.by].file, z.n)
          /\ z.n \in Nat
    <3>1. ASSUME NEW z \in stored
          PROVE  /\ z.by \in Deliveries /\ job[z.by].file \in Files
                 /\ z = StoredRow(z.by, job[z.by].file, z.n)
                 /\ z.n \in Nat
      BY FilesAssumption DEF Inv, RowsAreOfJobs, ValidRows
    <3>2. ASSUME NEW n \in job[d].pending
          PROVE  LET z == StoredRow(d, f, n)
                 IN  /\ z.by \in Deliveries /\ job[z.by].file \in Files
                     /\ z = StoredRow(z.by, job[z.by].file, z.n)
                     /\ z.n \in Nat
      <4>1. n \in Nat  BY <2>1, <2>2, FilesAssumption DEF PendingIsAhead, ValidRows
      <4> QED  BY <2>2, <4>1, RowFields
    <3> QED  BY <3>1, <3>2 DEF Written
  \* None of them is a copy of one that its delivery must have known.
  <2>6. \A z, w \in stored \cup Written(d) :
          (z.by \in before[w.by] \/ (z.by = w.by /\ z.n < w.n)) =>
            ~Recognises(job[w.by].file, w.n, z)
    <3> SUFFICES ASSUME NEW z \in stored \cup Written(d), NEW w \in stored \cup Written(d),
                        z.by \in before[w.by] \/ (z.by = w.by /\ z.n < w.n)
                 PROVE  ~Recognises(job[w.by].file, w.n, z)
      OBVIOUS
    <3>1. \A v \in Written(d) : v.by = d /\ v.n \in job[d].pending /\ v = StoredRow(d, f, v.n)
      BY RowFields DEF Written
    <3>2. \A e \in Deliveries : d \notin before[e]
      BY <2>1 DEF Inv, BeforeHasEnded, Ended
    <3>3. CASE z \in stored /\ w \in stored  BY <3>3 DEF Inv, CopiesOnlyFromOverlap
    <3>4. CASE z \in stored /\ w \in Written(d)
      BY <2>1, <3>1, <3>4 DEF PendingIsNew, Priors
    <3>5. CASE z \in Written(d) /\ w \in stored
      <4>1. z.by = d /\ z.n \in job[d].pending  BY <3>1, <3>5
      <4>2. w.by = d /\ z.n < w.n  BY <2>5, <3>2, <4>1
      <4>3. w.n < z.n  BY <2>1, <3>5, <4>1, <4>2 DEF PendingIsAhead
      <4> QED  BY <2>5, <4>2, <4>3
    <3>6. CASE z \in Written(d) /\ w \in Written(d)
      BY <2>1, <2>5, <3>1, <3>2, <3>6 DEF PendingIsNew
    <3> QED  BY <3>3, <3>4, <3>5, <3>6
  <2>7. CASE {x.channel, y.channel} \cap {"provider_csv", "facturador"} # {}
    BY <2>3, <2>7
  <2>8. CASE {x.channel, y.channel} \cap {"provider_csv", "facturador"} = {}
    <3>1. Recognises(job[y.by].file, y.n, x) /\ Recognises(job[x.by].file, x.n, y)
      <4> DEFINE k == job[d].look
                 row == job[d].row
                 g == job[y.by].file
                 h == job[x.by].file
      <4>1. /\ f \in Files /\ g \in Files /\ h \in Files
            /\ k \in 1..Len(LookUps(f.channel)) /\ f.channel # "bank_csv"
            /\ x = StoredRow(x.by, h, x.n) /\ y = StoredRow(y.by, g, y.n)
            /\ Matches(LookUps(f.channel)[k], f, row, x)
            /\ Matches(LookUps(f.channel)[k], f, row, y)
            /\ {x.channel, y.channel} \cap {"provider_csv", "facturador"} = {}
            /\ {y.channel, x.channel} \cap {"provider_csv", "facturador"} = {}
        BY <2>2, <2>4, <2>5, <2>8
      <4> HIDE DEF f, k, row, g, h
      <4>2. Recognises(g, y.n, x)  BY <4>1, FoundTogether
      <4>3. Recognises(h, x.n, y)  BY <4>1, FoundTogether
      <4> QED  BY <4>2, <4>3 DEF g, h
    <3>2. x.by \notin before[y.by] /\ y.by \notin before[x.by]
      BY <2>4, <2>6, <3>1
    <3>3. x.by # y.by
      <4> SUFFICES ASSUME x.by = y.by PROVE FALSE  OBVIOUS
      <4>1. ~(x.n < y.n) /\ ~(y.n < x.n)  BY <2>4, <2>6, <3>1
      <4>2. x.n = y.n  BY <2>4, <2>5, <4>1
      <4> QED  BY <2>3, <2>4, <2>5, <4>2
    <3> QED  BY <2>3, <3>2, <3>3 DEF Overlap
  <2> QED  BY <2>7, <2>8
<1> QED  BY <1>1, Invariance, PTL
=============================================================================
