------------------------------- MODULE Ingest -------------------------------
(***************************************************************************)
(* How rows enter the ledger: the CSV uploads of the bank and of providers,  *)
(* the facturador's intake, the open-banking and Stripe syncs, and the       *)
(* notifications of Redsys and Stripe.  No table has a unique constraint, so *)
(* that each path looks a row up before it inserts it: by the fingerprint of *)
(* ingest_utils.py, by the provider's reference, or by both.                 *)
(*                                                                         *)
(* A delivery is one call of a handler with one file: the rows of a CSV, the *)
(* pages of a sync, or the single row of a notification.  Look-ups and       *)
(* commits are its awaits.  Every source delivers again when it likes, so    *)
(* retries, duplicates and overlaps are all new deliveries of a file.        *)
(* One tenant: every query filters by it.                                    *)
(***************************************************************************)
EXTENDS Naturals, Sequences, FiniteSets

CONSTANTS
  None,        \* SQL's NULL, or an empty field
  Deliveries,  \* ids of calls
  Files,       \* what can be delivered
  BatchSize,   \* rows per commit of a bank upload and of a Stripe sync
  MaxInFlight, \* bound: deliveries in progress at a time
  Upper(_),    \* str.upper of a reference
  RowLabel(_)  \* f"row-{i}", the facturador's ticket of a row that has none

Channel == {"bank_csv", "provider_csv", "facturador", "open_banking", "redsys", "stripe_event",
            "stripe_sync"}

ASSUME BatchAssumption == BatchSize \in Nat \ {0}
ASSUME NoneAssumption == None \notin Channel

\* A file names its source: the provider, the institution or the till.  A row has
\* a reference, a settlement id, a concept and an amount, or None for each.
ASSUME FilesAssumption ==
  \A f \in Files : f.channel \in Channel /\ Len(f.rows) \in Nat

VARIABLES
  job,     \* [Deliveries -> locals of the handler]
  stored,  \* the rows of bank_transactions and provider_transactions
  before   \* [Deliveries -> the deliveries that had ended when it began]: history

vars == <<job, stored, before>>

(***************************************************************************)
(* What identifies a row                                                     *)
(***************************************************************************)
Bank == {"bank_csv", "open_banking"}
Csv == {"bank_csv", "provider_csv"}
Notification == {"redsys", "stripe_event"}

\* The reference that the handler stores and fingerprints.
Reference(f, n) ==
  IF f.channel = "facturador" /\ f.rows[n].ref = None THEN RowLabel(n) ELSE f.rows[n].ref

\* A provider's CSV fingerprints a row without a reference by its settlement.
FingerprintedReference(f, n) ==
  IF f.channel = "provider_csv" /\ Reference(f, n) = None
  THEN f.rows[n].settlement ELSE Reference(f, n)

Body(f, n) == <<f.rows[n].concept, f.rows[n].amount>>

\* A Stripe sync stores NULL.
NoFingerprint == [channel |-> None, source |-> None, name |-> None, ref |-> None, body |-> None]

\* By the reference alone, whatever the amount and the date say, or else by the
\* file name and all columns.
Fingerprint(f, n) ==
  LET ref == FingerprintedReference(f, n)
  IN  IF f.channel = "stripe_sync" THEN NoFingerprint
      ELSE [channel |-> f.channel, source |-> f.source,
            name |-> IF ref = None THEN f.name ELSE None,
            ref |-> IF ref = None THEN None ELSE Upper(ref),
            body |-> IF ref = None THEN Body(f, n) ELSE None]

\* The columns a handler writes, as far as anything looks at them again.
StoredRow(d, f, n) ==
  [by |-> d, n |-> n, channel |-> f.channel, source |-> f.source, ref |-> Reference(f, n),
   fingerprint |-> Fingerprint(f, n), body |-> Body(f, n)]

\* The SELECTs each path makes before it inserts, in their order.
LookUps(channel) ==
  CASE channel \in Notification -> <<"reference", "fingerprint">>
    [] channel = "stripe_sync" -> <<"reference">>
    [] channel = "open_banking" -> <<"fingerprint", "legacy">>
    [] OTHER -> <<"fingerprint">>

\* The three SELECTs: do they return the stored row x for row n of file f?
ByFingerprint(f, n, x) ==
  /\ x.channel \in Bank <=> f.channel \in Bank
  /\ x.fingerprint = Fingerprint(f, n)

ByReference(f, n, x) ==
  /\ x.channel \notin Bank
  /\ x.source = f.source
  /\ x.ref = f.rows[n].ref

\* "Legacy dedupe": the reference alone, whichever the institution.
ByLegacyReference(f, n, x) ==
  /\ x.channel = "open_banking"
  /\ x.ref = f.rows[n].ref
  /\ f.rows[n].ref # None

Matches(kind, f, n, x) ==
  \/ kind = "fingerprint" /\ ByFingerprint(f, n, x)
  \/ kind = "reference" /\ ByReference(f, n, x)
  \/ kind = "legacy" /\ ByLegacyReference(f, n, x)

Recognises(f, n, x) ==
  \E k \in 1..Len(LookUps(f.channel)) : Matches(LookUps(f.channel)[k], f, n, x)

(***************************************************************************)
(* A delivery                                                                *)
(***************************************************************************)
\* "row" is at a look-up of a row or at a commit; "done" is the answer, or the
\* end of the background task of a Stripe event, which was answered at "row".
Step == {"new", "row", "done", "refused", "raised", "failed"}
Ended == Step \ {"new", "row"}

JobAt(at, f) == [at |-> at, file |-> f, row |-> 1, look |-> 1, pending |-> {}]

Init ==
  /\ job = [d \in Deliveries |-> JobAt("new", None)]
  /\ stored = {}
  /\ before = [d \in Deliveries |-> {}]

\* No amount, or a row that is all blank: reported with its line.
RefusedInCsv(r) == r.amount = None \/ (r.amount = 0 /\ r.concept = None /\ r.ref = None)

\* The facturador takes sales only.
RefusedByFacturador(r) == r.amount = None \/ r.amount <= 0

\* A notification without a reference is answered and not stored.
Refused(f, n) ==
  \/ f.channel \in Csv /\ RefusedInCsv(f.rows[n])
  \/ f.channel = "facturador" /\ RefusedByFacturador(f.rows[n])
  \/ f.channel \in Notification /\ f.rows[n].ref = None

ValidRows(f) == {n \in 1..Len(f.rows) : ~Refused(f, n)}

Begin(d, f, at) ==
  /\ job[d].at = "new"
  /\ Cardinality({e \in Deliveries : job[e].at = "row"}) < MaxInFlight
  /\ job' = [job EXCEPT ![d] = JobAt(at, f)]
  /\ before' = [before EXCEPT ![d] = {e \in Deliveries : job[e].at \in Ended}]
  /\ UNCHANGED stored

\* Each handler may refuse the call before it looks at a row: for its tenant or
\* its file type; an upload with no valid row is refused as well.
UploadStatement(d, f) ==
  /\ f.channel = "bank_csv"
  /\ \E at \in {"row", "refused"} : (ValidRows(f) = {} => at = "refused") /\ Begin(d, f, at)

UploadProviderReport(d, f) ==
  /\ f.channel = "provider_csv"
  /\ \E at \in {"row", "refused"} : (ValidRows(f) = {} => at = "refused") /\ Begin(d, f, at)

FacturadorIntake(d, f) ==
  /\ f.channel = "facturador"
  /\ \E at \in {"row", "refused"} : Begin(d, f, at)

\* No connection, or the bank or Stripe does not answer.
SyncTransactions(d, f) ==
  /\ f.channel = "open_banking"
  /\ \E at \in {"row", "refused"} : Begin(d, f, at)

ManualSync(d, f) ==
  /\ f.channel = "stripe_sync"
  /\ \E at \in {"row", "refused"} : Begin(d, f, at)

\* The signature or the parameters may be wrong.
RedsysWebhook(d, f) ==
  /\ f.channel = "redsys"
  /\ \E at \in {"row", "refused"} : Begin(d, f, at)

\* Answered "received" here: what follows is a background task.
StripeWebhook(d, f) ==
  /\ f.channel = "stripe_event"
  /\ \E at \in {"row", "refused"} : Begin(d, f, at)

Receive(d, f) ==
  \/ UploadStatement(d, f) \/ UploadProviderReport(d, f) \/ FacturadorIntake(d, f)
  \/ SyncTransactions(d, f) \/ ManualSync(d, f)
  \/ RedsysWebhook(d, f) \/ StripeWebhook(d, f)

\* The next row, and its first look-up.
Move(d) == job' = [job EXCEPT ![d] = [job[d] EXCEPT !.row = @ + 1, !.look = 1]]

\* A bank upload commits a full batch, a Stripe sync every BatchSize rows; the
\* others commit once, after the last row.
CommitIsDue(d) ==
  /\ job[d].pending # {}
  /\ \/ job[d].row > Len(job[d].file.rows)
     \/ /\ job[d].file.channel \in {"bank_csv", "stripe_sync"}
        /\ Cardinality(job[d].pending) = BatchSize

AtRow(d) ==
  /\ job[d].at = "row"
  /\ job[d].row <= Len(job[d].file.rows)
  /\ ~CommitIsDue(d)

\* Mutant: the rows of the same file are not compared with each other.
NeverSeen(d) == FALSE

\* seen_fps: a CSV skips a row whose fingerprint it has met before in the file.
Seen(d) ==
  LET f == job[d].file
  IN  /\ f.channel \in Csv
      /\ \E k \in ValidRows(f) :
           k < job[d].row /\ Fingerprint(f, k) = Fingerprint(f, job[d].row)

Skipped(d) == Refused(job[d].file, job[d].row) \/ Seen(d)

Skip(d) ==
  /\ AtRow(d)
  /\ Skipped(d)
  /\ Move(d)
  /\ UNCHANGED <<stored, before>>

Written(d) == {StoredRow(d, job[d].file, n) : n \in job[d].pending}

\* Mutant: no flush before a SELECT, which sees committed rows only.
VisibleCommitted(d) == stored

\* A CSV keeps its new rows in a list until the commit; the other paths add them
\* to the session, whose next SELECT flushes them and sees them.
Visible(d) ==
  IF job[d].file.channel \in Csv THEN stored ELSE stored \cup Written(d)

Found(d) ==
  LET f == job[d].file
  IN  {x \in Visible(d) : Matches(LookUps(f.channel)[job[d].look], f, job[d].row, x)}

\* Mutant: one look-up too many.
LookUpPastTheLast(d) ==
  LET j == job[d]
  IN  /\ AtRow(d)
      /\ ~Skipped(d)
      /\ Found(d) = {}
      /\ job' = IF j.look <= Len(LookUps(j.file.channel))
                THEN [job EXCEPT ![d].look = @ + 1]
                ELSE [job EXCEPT ![d] = [j EXCEPT !.row = @ + 1, !.look = 1,
                                                    !.pending = @ \cup {j.row}]]
      /\ UNCHANGED <<stored, before>>

\* One SELECT of the row.  Nothing found: the next look-up, or the row is added.
LookUp(d) ==
  LET j == job[d]
  IN  /\ AtRow(d)
      /\ ~Skipped(d)
      /\ Found(d) = {}
      /\ job' = IF j.look < Len(LookUps(j.file.channel))
                THEN [job EXCEPT ![d].look = @ + 1]
                ELSE [job EXCEPT ![d] = [j EXCEPT !.row = @ + 1, !.look = 1,
                                                    !.pending = @ \cup {j.row}]]
      /\ UNCHANGED <<stored, before>>

\* scalar_one_or_none raises on two; the bank upload's SELECT is LIMIT 1.
Raises(d) == Cardinality(Found(d)) > 1 /\ job[d].file.channel # "bank_csv"

Duplicate(d) ==
  /\ AtRow(d)
  /\ ~Skipped(d)
  /\ Found(d) # {}
  /\ ~Raises(d)
  /\ Move(d)
  /\ UNCHANGED <<stored, before>>

\* MultipleResultsFound: the handler ends and its session rolls back.
Raise(d) ==
  /\ AtRow(d)
  /\ ~Skipped(d)
  /\ Raises(d)
  /\ job' = [job EXCEPT ![d] = [@ EXCEPT !.at = "raised", !.pending = {}]]
  /\ UNCHANGED <<stored, before>>

Commit(d) ==
  /\ job[d].at = "row"
  /\ CommitIsDue(d)
  /\ stored' = stored \cup Written(d)
  /\ job' = [job EXCEPT ![d].pending = {}]
  /\ UNCHANGED before

\* Mutant: the rows after the last full batch are not committed.
FinishWithoutLastBatch(d) ==
  /\ job[d].at = "row"
  /\ job[d].row > Len(job[d].file.rows)
  /\ job' = [job EXCEPT ![d].at = "done"]
  /\ UNCHANGED <<stored, before>>

Finish(d) ==
  /\ job[d].at = "row"
  /\ job[d].row > Len(job[d].file.rows)
  /\ job[d].pending = {}
  /\ job' = [job EXCEPT ![d].at = "done"]
  /\ UNCHANGED <<stored, before>>

\* A database or bank error, or a restart: what is not committed is rolled back.
Fail(d) ==
  /\ job[d].at = "row"
  /\ job' = [job EXCEPT ![d] = [@ EXCEPT !.at = "failed", !.pending = {}]]
  /\ UNCHANGED <<stored, before>>

Handler(d) == Skip(d) \/ LookUp(d) \/ Duplicate(d) \/ Raise(d) \/ Commit(d) \/ Finish(d)

Next ==
  \/ \E d \in Deliveries, f \in Files : Receive(d, f)
  \/ \E d \in Deliveries : Handler(d) \/ Fail(d)

Spec == Init /\ [][Next]_vars

(***************************************************************************)
(* Properties                                                                *)
(***************************************************************************)
\* Type correctness.
TypeOK ==
  /\ job \in [Deliveries -> [at : Step, file : Files \cup {None}, row : Nat \ {0},
                             look : 1..2, pending : SUBSET Nat]]
  /\ \A x \in stored : x.by \in Deliveries /\ job[x.by].file \in Files
  /\ before \in [Deliveries -> SUBSET Deliveries]

\* "Stable id so re-uploading the same logical row does not duplicate": no
\* delivery stores a row that its look-ups know from a delivery that had ended
\* when it began, or from an earlier row of its own, through batches, failures
\* halfway and channels that share a table.  Copies come from overlaps only.
CopiesOnlyFromOverlap ==
  \A x, y \in stored :
    (x.by \in before[y.by] \/ (x.by = y.by /\ x.n < y.n)) =>
      ~Recognises(job[y.by].file, y.n, x)

\* A delivery that ends well leaves nothing out: each of its rows that it did
\* not refuse is in the table, stored by it or by the delivery it deferred to,
\* also when that one failed after some of its batches.
DoneIsStored ==
  \A d \in Deliveries : job[d].at = "done" =>
    \A n \in ValidRows(job[d].file) : \E x \in stored : Recognises(job[d].file, n, x)

Overlap(d, e) == d \notin before[e] /\ e \notin before[d]

\* A look-up raises, and every later delivery of the row with it, only over
\* copies that two overlapping deliveries stored, or over a row that a report
\* by CSV or the facturador, which look for fingerprints alone, stored again.
RaisesOnlyOverCopies ==
  \A d \in Deliveries : AtRow(d) /\ ~Skipped(d) /\ Raises(d) =>
    \E x, y \in Found(d) :
      /\ x # y
      /\ \/ x.by # y.by /\ Overlap(x.by, y.by)
         \/ {x.channel, y.channel} \cap {"provider_csv", "facturador"} # {}

\* "bad rows reported, not silent-dropped": every row of an upload that ended
\* well is in the table with its own columns, unless it was reported as refused.
UploadedRowsAreKept ==
  \A d \in Deliveries : job[d].at = "done" =>
    \A n \in ValidRows(job[d].file) :
      \E x \in stored : x.source = job[d].file.source /\ x.body = Body(job[d].file, n)
=============================================================================
