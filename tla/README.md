# ClearFlow backend: specification and proofs

TLA+ modules, TLC configurations and TLAPS proofs for the backend in `src/backend/app`:
how rows reach the ledger, the reconciliation of bank movements with what payment providers
report, the contractual audit behind it, disputes and the e-mail gate, the background jobs, and
the accounts, bank connections and databases of the tenants.

Run inside this directory:

    tlc -workers 2 -config Ledger.cfg MCReconciliation
    tlapm ReconciliationProofs.tla

`PROJECT.json` lists the runs with their configurations, the mutant that each property
catches, the source lines each definition models, the hazards and the theorems.

## The system

The server is one asyncio process (FastAPI) over PostgreSQL at READ COMMITTED. A handler is
interrupted at every query it awaits, so two handlers of one tenant interleave query by query,
and each sees what the others have committed so far.

| Part | State | Operations | Talks to |
|---|---|---|---|
| Reconciliation (`api/v1/reconciliation.py`) | bank rows, provider rows ("legs") with status, evidence and contract stamp; signed closes | run (sync or as a job), confirm, reject, signed close | matching engine, contractual audit, disputes, outbox |
| Matching engine (`services/matching_engine.py`) | none | decide 1:1, decide 1:N | contractual audit |
| Contract math and audit (`services/contract_math.py`, `contractual_audit.py`) | none | fee, net, gross-up, stamp, block reason | |
| E-mail outbox (`api/v1/email_outbox.py`) | drafts, e-mail log | enqueue (by a run), approve, reject, cancel | SMTP |
| Jobs (`services/recon_jobs.py`) | rows of `recon_jobs`, a dictionary in memory | create, update, poll | the run, as a background task |
| Ingest (`bank_statements`, `providers`, `webhooks`, `facturador`, `open_banking`, `stripe_connect`) | adds rows, by fingerprint or by reference | uploads, notifications, syncs | contractual audit, the run |
| Contracts (`providers.py`) | terms per provider | sync, update | |
| Disputes (`disputes.py`) | disputes, e-mail log | create, resolve, send, summarise | SMTP, without the outbox |
| Connections (`open_banking.py`, `stripe_connect.py`) | connections with their tokens, bank accounts | link, redirect, sync, connect, disconnect | Tink, GoCardless, Stripe |
| Tenants' databases (`core/database.py`, `tenants.py`) | URL per tenant; URLs, engines and session makers in memory | look up, close, upgrade, provision, migrate, activate | every other part, which gets its session from it |
| Accounts (`auth`, `mfa`, `webauthn_service`) | users, passkeys; codes and challenges in memory | register, log in, enrol, confirm | SMS |
| Control orchestrator | second matching of sales and bank credits | reconstruct | |
| Documents, portability, projections, dashboards, collections, legacy services | rows and files | CRUD, read-only views | |

### What is hard

- **Runs, answers and closes overlap.** A run reads the unmatched legs once, pages through the
  bank rows by OFFSET, plans, and writes by id at the end without looking at the rows again.
  A confirm or reject loads a row and its legs one by one, and writes of each the columns that
  differ from what it loaded. A close signs five counts taken by five queries.
- **One plan, three kinds of outcome.** Confirmations, suggestions and contractual blocks of one
  run are written one after the other and may name the same leg or the same row.
- **Money is compared as binary floats** to less than a cent, with nets that carry four decimals.
- **Sending is not transactional.** SMTP stands between a flush (which locks the draft's row) and
  the commit; either side may fail.
- **Jobs outlive neither the process nor the database.** The record is a row, or a dictionary when
  the row cannot be made; updates that fail are swallowed; tasks die with a restart.
- **Nothing is unique but primary keys.** Every path into the ledger looks a row up and then inserts it;
  sources deliver again when they like, and a file is committed batch by batch.
- **Handlers write what differs from what they read.** Two handlers of one row each write their own
  columns, so that a row may end as neither left it. A sync reads its connections, asks banks
  for minutes and writes them back, `extra_data` as one column.
- **The process keeps caches of rows**: engines and session makers, codes and challenges. A look-up
  awaits between reading the row and storing what it found.

### What makes each part correct

- Ledger: counted rows are matched rows; a counted row, its evidence and its legs agree both ways;
  a leg is promised once; what the client validated stays validated, what it rejected stays
  unmatched; a close certifies the ledger.
- Matching: what is confirmed under contract withheld the fee that
  the contract says; what is paid as the contract says is confirmed.
- Outbox: nothing leaves without an approval, once per approval, and nothing is declared sent that
  was not; every request is answered.
- Jobs: what a poller is told is true, goes forwards, and ends.
- Ingest: what is delivered is stored, once unless deliveries overlap.
- Disputes: a resolution is one request's; an e-mail that left is logged; a summary misses nothing.
- Connections: what is shown as connected is what the last consent gave, and can be used.
- Databases: a tenant's requests go where its row says, with an engine that can be closed.
- Accounts: what a login asks for was confirmed; a code is good once; an account keeps its tenant.

## Modules

| Module | Models | Notes |
|---|---|---|
| `ContractMath` | `contract_math.py`, the recalculation of `contractual_audit.py` | amounts are integers, in ticks of 0.0001 euro, the precision the code rounds to |
| `Matching` (extends it) | `matching_engine.py`, the block reason | each outcome is a predicate; `FloatEdge` says how a difference that is exactly a threshold compares |
| `Settlements` (extends it) | one bank row paid against a settlement of any length | no code of its own: the exact reference the decisions are compared with, and the properties |
| `MCMatching` | small settlements for TLC | |
| `Reconciliation` (extends `Matching`) | `reconciliation.py` | the ledger of one tenant; a worker is a request or a job |
| `LedgerHistory` (extends it) | which rows an operation read that others have written since | history only: no step of the ledger depends on it; the properties that speak of overlap |
| `MCReconciliation` | small ledgers for TLC | `Mixed...`, `Apart...`, `Shared...`, `Overlap...` |
| `ReconciliationProofs` | proofs, of `Settlements` too | |
| `ApprovalGate` | what the outbox promises | abstract, names no code |
| `EmailOutbox` | `email_outbox.py`, `send_email`, the draft a run leaves | implements `ApprovalGate` |
| `EmailOutboxProofs` | proofs | |
| `ReconJobs` | `recon_jobs.py`, `run-async`, `_run_job` | |
| `ReconJobsProofs` | proofs | |
| `Ingest` | the six files with paths into the two tables, `ingest_utils.py` | one handler per channel, row by row |
| `MCIngest` | small files for TLC | |
| `IngestProofs` | proofs | |
| `Disputes`, `MCDisputes`, `DisputesProofs` | `disputes.py` | |
| `Connections`, `MCConnections`, `ConnectionsProofs` | `open_banking.py`, `tink.py`, `gocardless.py`, the connection of `stripe_connect.py` | |
| `TenantDB`, `MCTenantDB`, `TenantDBProofs` | `core/database.py`, `tenants.py` | |
| `Accounts`, `MCAccounts`, `AccountsProofs` | `auth.py`, `mfa.py`, `webauthn_service.py` | |

The modules meet at rows, not at shared variables: the rows that `Ingest` stores are what `ArriveBank`
and `ArriveLeg` bring to the ledger, in any order, and copies are more of them; the drafts and
disputes that a run opens are those of `EmailOutbox` (`Enqueue`) and `Disputes`
(`OpenContractual`); the run that a job applies is that of `Reconciliation`, reduced to its pages;
and a sync of `Connections` delivers a file of `Ingest`. Composing them state by state would
multiply the interleavings and add none that one of them does not have.

### How the ledger corresponds to the code

`bank` and `leg` are the mutable columns of the two tables; `BankRow` and `LegRow` are the columns
that never change. `run[w]` holds the locals of `execute_reconciliation` for the worker `w`
(window, snapshot of the legs with their stamps, page, used legs, the three lists of the plan),
`req[w]` those of an answer or a close, `pc[w]` the query it will do next.

| Action | Code |
|---|---|
| `StartRun` | `_ensure_contract_audit` and its commit |
| `ReadLegs` | the SELECT of the legs, in any order, and the COUNT of the bank rows |
| `ReadBatch` | one page of bank rows |
| `ScanOneToOne`, `ScanGroup` | the loop body for one bank row: Pass A ends at a candidate, or Pass B |
| `Apply` | all the UPDATEs, the disputes with their drafts, the commit |
| `ReadSuggestion` | the SELECT of the bank row and the guard on its status, of both answers |
| `ReadLeg` | one `db.get` of the loop over the legs of the evidence, with the flush before it |
| `ConfirmSuggestion`, `RejectSuggestion` | the rest of the flush and the commit |
| `StartClose`, `CountRows`, `RefuseClose`, `SignClose` | `signed_close`, one count per query |
| `ArriveBank`, `ArriveLeg`, `SyncContract` | what ingest and set-up do to the ledger |
| `Abort` | an exception, a deadlock victim, a restart: what was not committed is gone |

What an answer writes is `OrmWrite`: of each row the columns that differ from the copy it loaded, so
that a row that a run has written since keeps the others. Each `db.get` flushes what was set before
it: the UPDATE of the bank row leaves with the first leg, that of a leg with the next. What was
flushed is not visible to others and stays locked to the commit (`FlushedBank`, `flushed`), and who
wants to write it waits (`Unlocked`). A locked row changes for nobody else, so that the model writes
all of it at the commit.

Abstractions: one tenant; `Apply` is one action, since nothing of it is visible before the commit and
it waits for no one else in between; two writers that wait for each other are a deadlock, whose
victim is `Abort`; the SELECT of the legs and the COUNT are one
step; the contractual blocks are a set of (row, legs), which is how the code de-duplicates them;
the evidence of a blocked row keeps no legs, as no handler reads them while the row is blocked;
amounts are ticks, so that `amount_candidates` drops equal values only. Scores, wording, the
reject counters and the result document are left out.

### How the outbox and the jobs correspond

`EmailOutbox`: a request is served once. `Read` is the load and the guards, `Flush` the
`db.flush()` that takes the row lock, `Send` is `send_email` (which never raises, and may report a
failure of a delivered e-mail), `CommitApproval` the log row, the status and the commit;
`CommitRefusal` is reject and cancel; `Abort` rolls back. The status `approved` is flushed and
never committed, and `TypeOK` says so.

`ReconJobs`: `Update` is `update_job` with its swallowed failures, `Stored` what it reads, and
`Answers` what `get_job` may return: the dictionary's entry, or else the row, or nothing when its own query
fails, which it swallows too. The run is reduced to its pages and its commit. `Restart` loses tasks and memory.

### How the other modules correspond

`Ingest`: `job[d]` holds the locals of one call of a handler: the file, the next row, the next
look-up of that row, the rows added to its session and not yet committed. `LookUps` says for each
channel how a row is looked up (by fingerprint, by reference, by the reference of the time before
fingerprints), `Fingerprint` is `fingerprint()` with the fields that each caller passes, and
`Commits` when the channel commits: per batch, per row, or at the end. A failure loses
what is pending and keeps the earlier batches. `stored` remembers the delivery that stored a row, for
the properties. Parsing is left out: a file is its parsed rows.

`Disputes`: one call per request. `Merge` is the UPDATE of the columns that differ from the
row that was loaded. The summary is query by query (`Queries`), each over the disputes of its moment.

`Connections`: a handler's copies (`loaded`) are what its session read; `Columns` is the UPDATE of the
columns that differ. A sync's answers are drawn when it starts, since nothing it does before its
commit depends on what others write. A redirect with the reference reads a connection, asks
GoCardless about its session (`RefIsReference`, then `GetLinkStatus`) and looks the tenant's
connections up again, where the row it holds is still the copy of before (`Seen`). `Answers`, `Clears` and `Refuses` are what the code makes of them. The
histories `granted`, `mixed` and `raced` remember the last consent and which rows were written over a
version that the writer had not read.

`TenantDB`: a request is a list of steps still to do; what the code does between two awaits is one
step. `Get`, `Select`, `Store`, `BuildEngine`, `CreateTables` are the look-up; `Close` and
`Dispose` are `close_tenant`; `LoadUpgrade`, `LoadProvision`, `LoadMigrate`, `LoadActivate`,
`Commit`, `Refresh`, `Query`, `Revert` the routes.

`Accounts`: a handler reads the account, decides, and commits its columns. `issued` are the
secrets, codes and challenges given out with the number of times each was accepted. `Restart`
empties the memory. Verification of a password, a code or a signature is whether it is the one that was given out.

## Runs

| Run | Question | States | Bounds |
|---|---|---|---|
| `matching` | are the decisions right against an exact reference? | 105 124 | 1-2 legs; four contracts (none; 1.4 % + 5 cents with IVA; 1 %; a negative percentage with a fixed fee and IVA); sales and a refund; gateways that withhold 0, 1 or 3 cents; payments off by 0, 1, 3, -50 cents; dates in and out of the window |
| `ledger` | do rows, legs, evidence and plans agree under contracts and overlap? | 480 790 | 2 bank rows, a settlement of 2 legs, one of which both rows compete for; 1 provider, with and without contract; 2 workers, 3 operations, rows arriving out of order; audit limit 1; pages of 1 |
| `ledger_apart` | what do closes and answers keep while others write? | 362 642 | 2 bank rows, 2 legs that only one of them names, 2 workers, 3 operations, rows arriving out of order, closes |
| `outbox` | does the outbox implement the gate? | 162 789 | 2 drafts, 3 requests: an approval, a second one and a refusal of one draft, or of two |
| `jobs` | is a poller told the truth, and in the end the end? | 114 346 | 2 jobs, up to 3 rows in pages of 2, 1 restart |
| `ingest` | what does look-up-then-insert keep? | 915 865 | 3 deliveries, 2 of them at a time, of 8 files of the 7 channels, up to 3 rows in batches of 1 |
| `disputes` | what is left of overlapping, broken-off handlers? | 506 629 | 2 disputes, 3 requests, 2 amounts, 2 notes |
| `connections` | what is a connected row worth? | 653 583 | 3 providers, 2 banks, 2 rows, 2 handlers, 2 requisitions, 2 consents |
| `tenantdb` | which database does a request reach? | 3 298 331 | 1 tenant, a good URL and a malformed one, 2 tiers, 3 requests, 3 engines |
| `accounts` | is what a login asks for confirmed? | 2 936 554 | 1 account, 1 phone, 2 handlers, 1 try per code, 2 things given out, 2 tenants |

Bounds. An audit limit and a page of one row make both limits bite with two rows. Three operations
are a run, an answer and another run or a close; two workers are the least that interleave, and
two bank rows the least where a page shifts or a leg is competed for. Two legs
are the least settlement, and the least where one leg is shared and the other is not; more legs only repeat the sum. Closes are in a
ledger without contracts, where the two together would be too many states. Three deliveries are two in overlap and a
redelivery after them; batches of one row put a commit, and a failure, between any two rows. Two
handlers are the least that overlap, and two consents the least where an older one could stand. One
tenant and one account are enough, as the dictionaries and rows of two have no key in common. A second
thing given out is what a resend or a second set-up puts in the place of the first.
`MaxOps`, `MaxInFlight`, `MaxLegs`, `MaxRows`, `MaxRestarts`, `MaxSessions`, `MaxConsents`, `MaxEngines`,
`MaxIssued` and `MaxTenants` are the bounds added to the models; `MaxAttempts` and `BatchSize` are the
code's, made small. Deadlock is not checked where the system may stop: every operation of the bound is done.

Two runs show a disagreement between the code and what its own text says; each checks one
property and TLC finds it violated.

| Run | What it shows |
|---|---|
| `ledger_overlap` | a run suggests a leg to one row, confirms another row with it, and writes the suggestion last: a confirmed row with an unmatched leg |
| `tenant_routing` | a look-up that read the tenant's row before its database was provisioned puts the old entries back after `close_tenant`: the tenant stays on the shared database, though `tenants.py:179` answered "Business traffic will route here" |

Nine more configurations, which are not among the runs, reproduce known disagreements of the same kind
in the same modules; each ends with its one property violated.

| Configuration, module, property | The code | Its text |
|---|---|---|
| `LedgerDispute.cfg`, `MCReconciliation`, `ConfirmedIsNotDisputed` | a row blocked against a leg of its settlement (`reconciliation.py:181`) and then confirmed against the settlement is confirmed and disputed by one run | `:343` "Persist contractual discrepancies (blocked auto-confirm)" |
| `LedgerClosed.cfg`, `MCReconciliation`, `ClosedPeriodStaysClosed` | a run selects every row with `matched = 0` (59-66) and so re-opens a rejected row of a closed period | `:722` "signed-close seals a period" |
| `LedgerAnswers.cfg`, `MCReconciliation`, `RejectedStaysUnmatched` | a rejection that read its row before a run confirmed it does not write `matched`, which it read as 0 (`reconciliation.py:827`): the row ends rejected and matched, no run looks at it again and no count has it | `:797` "stays unmatched, status=rejected" |
| `LedgerSnapshot.cfg`, `MCReconciliation`, `CloseCertifiesLedger` | a run commits between a count of a close and its signature (`reconciliation.py:885`): the counts signed are not those of the period | `:867` "snapshot motor vs user-validated counts" |
| `MatchingSettlement.cfg`, `MCMatching`, `HonestSettlementIsNotDisputed` | legs paid to the cent as the contract says are blocked as a settlement: the sum of four-decimal nets is off by more than a cent (`matching_engine.py:392`) | `:3` "bank must match contract-recalculated net" |
| `OutboxReject.cfg`, `EmailOutbox`, `NothingSentAfterReject` | an approval in flight sends after a rejection was answered (`email_outbox.py:113`) | `:189` "Rechazado. ClearFlow no enviará nada." |
| `JobsRestart.cfg`, `ReconJobs`, `StoredJobsEnd` | a job whose task died with a restart stays `queued` or `running` | `recon_jobs.py:4` "Survives Railway restarts." |
| `JobsPoll.cfg`, `ReconJobs`, `RunningIsFound` | a poll whose query fails is answered `None` (`recon_jobs.py:122`), and so 404 "Job not found" (`reconciliation.py:624`), while the job runs | `reconciliation.py:597` "poll GET /jobs/{job_id} for progress" |
| `IngestReport.cfg`, `MCIngest`, `UploadedRowsAreKept` | of a report's lines with a settlement id and no reference one per settlement is kept, the others are counted as duplicates (`providers.py:139`) | `providers.py:29` "bad rows reported, not silent-dropped" |

One more is plain from the code and needs no run: `create_bank_link` writes the tenant's own database,
and the redirect looks the connection up in the shared one (`open_banking.py:213`), so that the consent
of a tenant with a database of its own is never stored, though the link's answer says that "the connection
becomes active" (203-205).

What the ledger keeps under overlap depends on whether two bank rows can be paired with one leg. Of
legs of one row (`OfOneRow`), `CountedLegsAreMatched` and `EvidenceAgrees` hold in every
interleaving, because an answer reads its legs after the flush has locked the bank row.
`MatchedLegIsExplained` and `ValidationIsFinal` hold but for a row written by an operation that had read
another version of it: a run that planned with a row since answered, or an answer to a row since
confirmed. `LedgerHistory` records just that (`stale`, `torn`), and a row that a run has in its plan
twice. `CountsDriftByWrites` says of a close what is left when `CloseCertifiesLedger` fails. For legs of
several rows `EveryEvidenceAgrees` fails within one run; what is left of them is that no plan takes one
twice (`PlanUsesLegOnce`) and that the rows themselves are whole (`CountedRowsAreMatched`).

What the properties leave out is as much a result as what they say. Overlapping deliveries do store
copies, and from then on a look-up by reference raises on every redelivery: `CopiesOnlyFromOverlap` and
`RaisesOnlyOverCopies` say that nothing else makes copies, not a retry, a failure between batches or
another channel. `ResolutionIsWhole`, `EnabledIsConfirmed`, `TenantIsKept` and `LastConsentStands` hold of
rows that were not last written over a version the writer had not read; each names the histories
that record it (`torn`, `mixed`), and TLC shows that without them they fail. `ConnectedIsUsable` is weaker
and has those rows in: only two consents over one another spoil it. `RoutedByTheRow` and
`ClosingReachesTheEngine` name the accidents after which the caches are wrong (`cause`); `tenant_routing`
is one of them.

## Fairness

The safety runs assume none. `EmailOutbox!FairSpec` gives each handler weak fairness: the event loop
runs every ready coroutine, PostgreSQL hands a row lock on, and the SMTP client has a timeout. It
assumes nothing about the result of SMTP or about clients' next requests. `ReconJobs!FairSpec` gives
each task weak fairness: queries return or raise, and an exception is caught by `_run_job`. Restarts
are never forced. `JobsEnd` excepts a job whose update was swallowed or whose task was lost, which
is what the code accepts; `StoredJobsEnd` excepts only the first, and fails.

## Proofs

All for any values of the constants that satisfy the named assumptions (`RowsAssumption`,
`LedgerAssumption`, `FloatEdgeAssumption`, `SettlementAssumption`, `RequestsAssumption`, `JobsAssumption`, `BatchAssumption`, `NoneAssumption`, `FilesAssumption`,
`AmountsAssumption`, `NotesAssumption`, `BoundsAssumption`, `DistinctAssumption`, `TiersAssumption`,
`UrlsAssumption`, `MaxEnginesAssumption`, `AbsentAssumption`).

| Theorem | Property | Argument |
|---|---|---|
| `ReconciliationProofs!TypeCorrect` | `TypeOK` of the ledger | inductive with one addition, `Typed`: a close in progress has a query left; one step per action, with lemmas about what the plan operators return |
| `ReconciliationProofs!RowsCounted` | `CountedRowsAreMatched` | `RowsInv`: needs that an answer in progress loaded a row with status `suggested` or `pending`, so that the status is always written, and `matched` with it when the loaded row was unmatched |
| `ReconciliationProofs!PlanTakesEachLegOnce` | `PlanUsesLegOnce` | `PlanInv`: the legs of the planned confirmations are used ones, so that a candidate, being free, is in none |
| `ReconciliationProofs!LegsCounted`, `EvidenceAlwaysAgrees` | `CountedLegsAreMatched`, `EvidenceAgrees` | `LegsInv`, in which the two are inductive together. `ClaimsInv`: plans, evidence and requests pair rows with legs they claim, so that two operations that write a leg of one row write that row too. `CopiesStand`: what an answer in progress read of such a leg is still so (`AsRead`), because the flush before the read locked the bank row and every other writer waits for it |
| `ReconciliationProofs!ValidationStands`, `MatchedLegsAreExplained` | `ValidationIsFinal`, `MatchedLegIsExplained` | `HistoryInv`. `ReadsStand`: a row a run has read is unmatched unless it is stale; `AnswersStand`: the row of an answer is the one it loaded unless it is stale. So an operation that writes a settled row is one that had read another version |
| `ReconciliationProofs!CountsDrift` | `CountsDriftByWrites` | `CountsStand`: each count was of a set of rows that still are the ones in question but for those written since; then a bound on cardinalities |
| `ReconciliationProofs!HonestLegsAreConfirmed` | `HonestLegIsConfirmed` | case analysis of the decisions; the fee rounds to within half a tick of what is due |
| `ReconciliationProofs!ConfirmedSettlementsAtContract` | `ConfirmedAtContract` | sums over a group of any size: the library defines them by a fold, whose induction is done as the existence of the one function `Sums` over the subsets of the group, added leg by leg (`SumsClose`); each leg adds at most half a tick to the difference |
| `ReconciliationProofs!GrossUpsInvert` | `GrossUpInverts` | bounds on the two divisions, the one that rounds the gross and the one that rounds the fee |
| `EmailOutboxProofs!OutboxTypeCorrect`, `SentWasDelivered`, `ApprovalsAreSerial` | `TypeOK`, `SentIsDelivered`, `SendsAreSerial` | inductive invariant `Inv`: who is between flush and commit holds the lock of its draft, a success was delivered, the log names approvals that were |
| `EmailOutboxProofs!OutboxImplementsGate` | `GateHolds` | step simulation under the invariant: `Read` of an approval authorises, `Send` delivers, `CommitApproval` declares, the rest stutters |
| `ReconJobsProofs!JobsTypeCorrect`, `DoneWasApplied`, `RunningJobIsFound` | `TypeOK`, `DoneIsApplied`, `PollFinds` | the place of a task bounds what its record may say; the percentage before the commit is at most 90 |
| `ReconJobsProofs!PollersSeeForwards` | `NeverGoesBack` | `Bounded`: a record shows at most the limit of its task's place, which the percentage of each page, growing with the rows gone through, does not go under |
| `IngestProofs!IngestTypeCorrect`, `StoredOnceWithoutOverlap`, `NothingLeftOut` | `TypeOK`, `CopiesOnlyFromOverlap`, `DoneIsStored` | `Inv`, delivery by delivery: what is pending was recognised by no row visible at its look-ups, rows that a delivery has passed are stored, pending or recognised, and `before` only has ended deliveries, whose rows are all stored |
| `IngestProofs!RaisesOverCopies` | `RaisesOnlyOverCopies` | two rows found by one look-up recognise each other unless their channel looks for fingerprints alone, so that by the first invariant their deliveries overlapped |
| `DisputesProofs!DisputesTypeCorrect`, `ResolvedWhole`, `DirectLogged`, `SummaryComplete` | `TypeOK`, `ResolutionIsWhole`, `DirectSendsAreLogged`, `SummaryMissesNone` | `Inv`: a copy that says resolved is of a dispute that is, so that no flush takes a status back; mail leaves at `send_email` only; a dispute of the first query is in the fourth, or resolved by then and so in the fifth |
| `AccountsProofs!AccountsTypeCorrect`, `LoginsAskForConfirmed`, `CodesAreAcceptedOnce`, `AccountsKeepTheirTenant` | `TypeOK`, `EnabledIsConfirmed`, `AcceptedOnce`, `TenantIsKept` | `Inv` has three parts: what is in a dictionary was given out for it, is nowhere else and was not accepted; a handler about to commit has a copy of a row that is there and writes the columns of its own kind, of which an enabled method has been confirmed; the rows |
| `ConnectionsProofs!TypeCorrect`, `ConsentStands`, `ConnectionsUsable` | `TypeOK`, `LastConsentStands`, `ConnectedIsUsable` | `Typed` says what the locals of a handler hold at each step; `CopiesInv` how far its copy can be from the row: not at all while nobody else wrote it, in its status and `extra_data` alone while only syncs did. What each commit makes of a row (`Consenting`, `Synced`, `RefusedTo`) follows |
| `TenantDBProofs!TenantDBTypeCorrect`, `RequestsAreRouted`, `ClosingReaches` | `TypeOK`, `RoutedByTheRow`, `ClosingReachesTheEngine` | `Inv` adds `Planned`, which steps a handler may have left at each step, so that one that owes a close is on its way to it, and `Held`: while nobody owes a tenant a close and no accident is recorded, the URL and the engine a look-up has in its hands are those of the row. `CacheStep` is what every write of a dictionary has to show |

None of the theorems about the ledger restricts the schedule: any number of workers, operations and
overlaps, rows in any order, contract changes and aborts. What some of them except is part of the
property and of the code: legs that several rows can be paired with (`OfOneRow`), without which
`ledger_overlap` refutes them, and rows decided over a version that was not read (`torn`, `stale`), without
which TLC refutes `MatchedLegIsExplained` in the ledger of `ledger` and `ValidationIsFinal` in that of `ledger_apart`.

Model-checked only: liveness (`RequestsEnd`, `JobsEnd`), as the prover has no rule for `ENABLED`.
Every other property of a passing run is stated by a theorem. The sum over a settlement is a fold of
the library; that it is the sum is proved from the least counterexample of its size, since the
library's induction theorems cannot be instantiated here.

## Not modelled, and why

- The control orchestrator: its main path reads two names it never assigns (`terms` and
  `amount_tol`, lines 201 and 209), so that it raises as soon as a sale has a bank candidate.
- Data export and erasure, documents and vault, projections, dashboards, collections, reports and the
  legacy services: I/O, read-only views or statements of one request in one transaction, with no
  state that outlives it.
- Parsing of CSV, dates and amounts, signatures of notifications, cryptography of passwords, tokens and
  passkeys: a row, a delivery and a code are what they are once accepted.
- TrueLayer, a stub that raises; connections of a tenant with a database of its own (see above).
- The shutdown of the server: `close_all` of `core/database.py` is called nowhere (`main.py:97`
  disposes of the shared engine only).

`PROJECT.json` lists every component with what is modelled of it.

## Plan

1. Done: `ContractMath`, `Matching`, `Reconciliation`, `ApprovalGate`, `EmailOutbox`, `ReconJobs`, `Ingest`,
   `Disputes`, `Connections`, `TenantDB`, `Accounts`, their runs, and the proofs above.
2. Done: a theorem for every invariant and action property of a passing run.
3. Done: the ledger under overlap, with the reads, flushes and locks of an answer; which rows two
   concurrent operations can leave unexplained.
4. Next: the histories that excuse a row in `Disputes`, `Accounts` and `Connections`, to prove that they are
   set by overlap alone.
