-------------------------- MODULE Reconciliation --------------------------
(***************************************************************************)
(* The matching ledger of one tenant: its bank and provider rows, the runs   *)
(* of execute_reconciliation over them, the client's confirm and reject of   *)
(* suggestions and the signed close of a period                              *)
(* (backend/app/api/v1/reconciliation.py).                                   *)
(*                                                                         *)
(* The server is one asyncio process over a READ COMMITTED database, so a    *)
(* handler is interrupted at every query it awaits: each action below is one *)
(* query (or one unawaited computation) of one worker, and the writes of a   *)
(* handler become visible together, at its commit.                           *)
(***************************************************************************)
EXTENDS Matching, Sequences, SequencesExt

CONSTANTS
  Banks,        \* ids of bank rows: naturals, the run reads them in id order
  Legs,         \* ids of provider rows
  BankRow,      \* [Banks -> the immutable columns of a bank row]
  LegRow,       \* [Legs -> the immutable columns of a provider row]
  ProviderOf,   \* [Legs -> the provider whose contract applies]
  Imported,     \* legs that come from the facturador import
  Providers,
  Contracts,    \* [Providers -> terms it may have]; None is "no contract"
  Windows,      \* sets of bank rows the date window of a run may select
  Periods,      \* sets of bank rows the period of a close may select
  Workers,      \* requests and background jobs that may be in progress
  MaxInFlight,  \* bound: operations in progress at once
  MaxOps,       \* bound: operations started in all
  BatchSize,    \* batch_size of the run (2000)
  AuditLimit,   \* .limit(...) of _ensure_contract_audit (5000)
  OutOfOrder    \* whether concurrent ingests may commit ids out of order

OptionalAmount == Int \cup {None}

ASSUME RowsAssumption ==
  /\ None \notin Int
  /\ \A p \in Legs :
       /\ {LegRow[p].amount, LegRow[p].gross, LegRow[p].fee, LegRow[p].net}
            \subseteq OptionalAmount
       /\ ProviderOf[p] \in Providers
  /\ \A v \in Providers : Contracts[v] \subseteq ContractTerms \cup {None}

ASSUME LedgerAssumption ==
  /\ Banks \subseteq Nat /\ IsFiniteSet(Banks) /\ IsFiniteSet(Legs)
  /\ Windows \subseteq SUBSET Banks /\ Periods \subseteq SUBSET Banks
  /\ MaxInFlight \in Nat /\ MaxOps \in Nat
  /\ BatchSize \in Nat \ {0} /\ AuditLimit \in Nat \ {0}
  /\ OutOfOrder \in BOOLEAN

VARIABLES
  bank,      \* [Banks -> mutable columns of the row]
  leg,       \* [Legs -> mutable columns and contract stamp of the row]
  terms,     \* [Providers -> contract in force]
  disputes,  \* [Entry -> runs that opened a contractual dispute, with its
             \* e-mail draft, on a bank row and legs]
  closes,    \* signed closes, in order
  pc,        \* [Workers -> where the worker's handler is]
  run,       \* [Workers -> locals of execute_reconciliation]
  req,       \* [Workers -> locals of a client request]
  started    \* operations started so far

ledger == <<bank, leg, disputes, closes>>
vars == <<bank, leg, terms, disputes, closes, pc, run, req, started>>

BankStatus == {"pending", "suggested", "confirmed", "user_confirmed", "rejected",
               "contractual_discrepancy"}
LegStatus == BankStatus
Decision == {"none", "confirmed", "suggested", "user_confirmed", "rejected", "blocked"}

\* A bank row with the legs a run confirms, suggests or blocks it with.
Entry == [bank : Banks, legs : SUBSET Legs]

NoEvidence == [decision |-> "none", legs |-> {}]
NoStamp == [cnet |-> None, gw |-> None, audit |-> "pending_audit"]

NewBank == [there |-> FALSE, matched |-> 0, status |-> "pending", ev |-> NoEvidence]
NewLeg  == [there |-> FALSE, matched |-> 0, status |-> "pending", bank |-> None, stamp |-> NoStamp]

NoRun == [window |-> {}, rank |-> [p \in {} |-> 0], stamp |-> [p \in Legs |-> NoStamp],
          count |-> 0, offset |-> 0, todo |-> {}, used |-> {},
          conf |-> <<>>, sugg |-> <<>>, blocks |-> {}]

\* The queries of signed_close, in order.
CloseQueries == <<"bank_total", "confirmed", "user_confirmed", "suggested", "pending">>
CloseQuery == {"bank_total", "confirmed", "user_confirmed", "suggested", "pending"}

NoReq == [kind |-> "none", bank |-> None, row |-> NewBank, read |-> {}, flushed |-> {},
          copy |-> [p \in Legs |-> NewLeg], window |-> {}, next |-> 1,
          tally |-> [q \in CloseQuery |-> 0]]

Init ==
  /\ bank = [b \in Banks |-> NewBank]
  /\ leg = [p \in Legs |-> NewLeg]
  /\ terms \in {t \in [Providers -> UNION {Contracts[v] : v \in Providers}] :
                 \A v \in Providers : t[v] \in Contracts[v]}
  /\ disputes = [k \in Entry |-> 0]
  /\ closes = <<>>
  /\ pc = [w \in Workers |-> "idle"]
  /\ run = [w \in Workers |-> NoRun]
  /\ req = [w \in Workers |-> NoReq]
  /\ started = 0

(***************************************************************************)
(* What the rest of the system does to the ledger: uploads, bank feeds and   *)
(* webhooks add rows; the Setup page changes a provider's contract.          *)
(***************************************************************************)
\* The audit columns an ingest route computes before it adds the row.
Recalc(p) == ApplyContractRecalc(LegRow[p], terms[ProviderOf[p]])

\* Ids come from a sequence: only overlapping ingests commit them out of order.
ArriveBank(b) ==
  /\ ~bank[b].there
  /\ OutOfOrder \/ \A a \in Banks : a < b => bank[a].there
  /\ bank' = [bank EXCEPT ![b].there = TRUE]
  /\ UNCHANGED <<leg, terms, disputes, closes, pc, run, req, started>>

\* provider upload and webhooks stamp the row; the facturador import does not.
ArriveLeg(p) ==
  /\ ~leg[p].there
  /\ leg' = [leg EXCEPT ![p].there = TRUE,
                        ![p].stamp = IF p \in Imported THEN NoStamp ELSE Recalc(p)]
  /\ UNCHANGED <<bank, terms, disputes, closes, pc, run, req, started>>

\* sync_provider_contracts: the terms change, no row is stamped again.
SyncContract(v, t) ==
  /\ terms[v] # t /\ t # None
  /\ terms' = [terms EXCEPT ![v] = t]
  /\ UNCHANGED <<bank, leg, disputes, closes, pc, run, req, started>>

(***************************************************************************)
(* Workers                                                                   *)
(***************************************************************************)
MayStart(w) ==
  /\ pc[w] = "idle"
  /\ started < MaxOps
  /\ Cardinality({v \in Workers : pc[v] # "idle"}) < MaxInFlight

Goto(w, l) == pc' = [pc EXCEPT ![w] = l]

\* The handler returns: its locals go with it.
Return(w) ==
  /\ Goto(w, "idle")
  /\ run' = [run EXCEPT ![w] = NoRun]
  /\ req' = [req EXCEPT ![w] = NoReq]

\* An exception, a deadlock victim or a restart: nothing uncommitted is kept.
Abort(w) ==
  /\ pc[w] # "idle"
  /\ Return(w)
  /\ UNCHANGED <<ledger, terms, started>>

(***************************************************************************)
(* Row locks.  An UPDATE locks its rows until the commit, and whoever wants  *)
(* to write one waits.  A handler that writes all its rows just before it    *)
(* commits is one action, which waits for the locks of the others; what      *)
(* holds locks between two actions is a client's answer, whose session is    *)
(* flushed by each db.get: the bank row with the first leg, a leg with the   *)
(* next.                                                                     *)
(***************************************************************************)
\* Mutant: autoflush is off, and the bank row is written at the commit.
FlushedAtCommit(v) == {}

FlushedBank(v) == IF req[v].read = {} THEN {} ELSE {req[v].bank}

Unlocked(w, banks, legs) ==
  \A v \in Workers \ {w} : banks \cap FlushedBank(v) = {} /\ legs \cap req[v].flushed = {}

(***************************************************************************)
(* execute_reconciliation                                                    *)
(***************************************************************************)
UnmatchedLegs == {p \in Legs : leg[p].there /\ leg[p].matched = 0}

\* The rows _ensure_contract_audit selects.
AuditEligible ==
  {p \in UnmatchedLegs : leg[p].stamp.cnet = None \/ leg[p].stamp.audit = "pending_audit"}

\* _ensure_contract_audit: stamp up to AuditLimit eligible rows, and commit.
StartRun(w, window) ==
  /\ MayStart(w)
  /\ \E S \in SUBSET AuditEligible :
       /\ \/ S = AuditEligible /\ Cardinality(S) <= AuditLimit
          \/ Cardinality(S) = AuditLimit
       /\ Unlocked(w, {}, S)
       /\ leg' = [p \in Legs |-> IF p \in S THEN [leg[p] EXCEPT !.stamp = Recalc(p)] ELSE leg[p]]
  /\ run' = [run EXCEPT ![w].window = window]
  /\ started' = started + 1
  /\ Goto(w, "read")
  /\ UNCHANGED <<bank, terms, disputes, closes, req>>

UnmatchedIn(window) == {b \in window : bank[b].there /\ bank[b].matched = 0}

\* The snapshot of the unmatched legs, in the order the database returns them
\* (the SELECT has no ORDER BY), and the count of the bank rows to go through.
ReadLegs(w) ==
  /\ pc[w] = "read"
  /\ \E rank \in Bijection(UnmatchedLegs, 1..Cardinality(UnmatchedLegs)) :
       run' = [run EXCEPT ![w].rank = rank,
                          ![w].stamp = [p \in Legs |-> leg[p].stamp],
                          ![w].count = Cardinality(UnmatchedIn(run[w].window))]
  /\ Goto(w, IF UnmatchedIn(run[w].window) = {} THEN "apply" ELSE "batch")
  /\ UNCHANGED <<ledger, terms, req, started>>

\* ORDER BY id OFFSET offset LIMIT BatchSize, over rows other handlers change.
Page(rows, offset) ==
  {b \in rows : Cardinality({a \in rows : a < b}) \in offset..(offset + BatchSize - 1)}

ReadBatch(w) ==
  LET page == Page(UnmatchedIn(run[w].window), run[w].offset)
  IN  /\ pc[w] = "batch"
      /\ run' = [run EXCEPT ![w].todo = page, ![w].offset = @ + BatchSize]
      /\ Goto(w, IF page = {} THEN "apply" ELSE "scan")
      /\ UNCHANGED <<ledger, terms, req, started>>

(***************************************************************************)
(* The candidates of a bank row b in run r: the legs with its reference,     *)
(* then those of its settlement, then those whose settlement is its          *)
(* reference; none that the run has already used.                            *)
(***************************************************************************)
Tiers(b, p) ==
  {t \in 1..3 : \/ t = 1 /\ SameRef(BankRow[b].ref, LegRow[p].ref)
                \/ t = 2 /\ SameRef(BankRow[b].settle, LegRow[p].settle)
                \/ t = 3 /\ SameRef(BankRow[b].ref, LegRow[p].settle)}

\* Mutant: used_prov_ids is not consulted.
FreeIgnoringUsed(r) == DOMAIN r.rank

Free(r) == DOMAIN r.rank \ r.used

Candidates(r, b) == {p \in Free(r) : Tiers(b, p) # {}}

\* p is tried before q: its first tier comes first, or its row was read first.
Before(r, b, p, q) ==
  LET first(c) == Min(Tiers(b, c))
  IN  first(p) < first(q) \/ (first(p) = first(q) /\ r.rank[p] < r.rank[q])

\* Pass A stops at the first candidate that is not rejected.
Accepted(r, b) ==
  {p \in Candidates(r, b) : \/ Confirms1to1(BankRow[b], LegRow[p], r.stamp[p])
                            \/ Suggests1to1(BankRow[b], LegRow[p], r.stamp[p])}

FirstAccepted(r, b, p) ==
  /\ p \in Accepted(r, b)
  /\ \A q \in Accepted(r, b) \ {p} : Before(r, b, p, q)

\* The candidates Pass A rejects for a contractual reason, of those in tried.
Blocked(r, b, tried) ==
  {[bank |-> b, legs |-> {p}] :
     p \in {q \in tried : Blocks1to1(BankRow[b], LegRow[q], r.stamp[q])}}

\* The settlement group of Pass B.
GroupOf(r, b) == {p \in Free(r) : Coherent(BankRow[b], LegRow[p])}

(***************************************************************************)
(* The loop body for the next bank row of the page, in id order.             *)
(***************************************************************************)
NextRow(w, b) == pc[w] = "scan" /\ b \in run[w].todo /\ \A a \in run[w].todo : b <= a

\* The row is decided: keep what it adds to the plan and go on.
Scanned(w, b, conf, sugg, blocks, used) ==
  /\ run' = [run EXCEPT ![w].todo = @ \ {b},
                        ![w].conf = conf,
                        ![w].sugg = sugg,
                        ![w].blocks = @ \cup blocks,
                        ![w].used = @ \cup used]
  /\ Goto(w, IF run[w].todo # {b} THEN "scan"
             ELSE IF run[w].offset < run[w].count THEN "batch" ELSE "apply")
  /\ UNCHANGED <<ledger, terms, req, started>>

Confirmed(w, b, legs, blocks) ==
  Scanned(w, b, Append(run[w].conf, [bank |-> b, legs |-> legs]), run[w].sugg, blocks, legs)

\* A suggestion does not use its legs up: a later row may take them.
Suggested(w, b, legs, blocks) ==
  Scanned(w, b, run[w].conf, Append(run[w].sugg, [bank |-> b, legs |-> legs]), blocks, {})

Undecided(w, b, blocks) == Scanned(w, b, run[w].conf, run[w].sugg, blocks, {})

\* Pass A ends at p, after the candidates before it.
ScanOneToOne(w) ==
  \E b \in run[w].todo : \E p \in Candidates(run[w], b) :
    LET r == run[w]
        blocks == Blocked(r, b, {q \in Candidates(r, b) : Before(r, b, q, p)})
    IN  /\ NextRow(w, b)
        /\ FirstAccepted(r, b, p)
        /\ IF Confirms1to1(BankRow[b], LegRow[p], r.stamp[p])
           THEN Confirmed(w, b, {p}, blocks)
           ELSE Suggested(w, b, {p}, blocks)

\* Pass A rejects every candidate: Pass B compares the settlement group.
ScanGroup(w) ==
  \E b \in run[w].todo :
    LET r == run[w]
        G == GroupOf(r, b)
        blocks == Blocked(r, b, Candidates(r, b))
    IN  /\ NextRow(w, b)
        /\ Accepted(r, b) = {}
        /\ \/ /\ Confirms1toN(BankRow[b], G, LegRow, r.stamp)
              /\ Confirmed(w, b, G, blocks)
           \/ /\ Suggests1toN(BankRow[b], G, LegRow, r.stamp)
              /\ Suggested(w, b, G, blocks)
           \/ /\ Blocks1toN(BankRow[b], G, LegRow, r.stamp)
              /\ Undecided(w, b, blocks \cup {[bank |-> b, legs |-> G]})
           \/ /\ ~Confirms1toN(BankRow[b], G, LegRow, r.stamp)
              /\ ~Suggests1toN(BankRow[b], G, LegRow, r.stamp)
              /\ ~Blocks1toN(BankRow[b], G, LegRow, r.stamp)
              /\ Undecided(w, b, blocks)

(***************************************************************************)
(* The commit of a run.  The UPDATEs name rows by id and do not look at what *)
(* the row has become since it was read; only the contractual marks do.      *)
(***************************************************************************)
PlannedFor(plan, b) == {i \in DOMAIN plan : plan[i].bank = b}
LastOf(I) == CHOOSE i \in I : \A j \in I : j <= i

BanksIn(plan) == {plan[i].bank : i \in DOMAIN plan}
\* Mutant: only one leg of a settlement is updated.
OneLegPerEntry(plan) == {CHOOSE p \in plan[i].legs : TRUE : i \in DOMAIN plan}

LegsIn(plan) == UNION {plan[i].legs : i \in DOMAIN plan}

\* The UPDATEs of one plan on the bank rows; of two entries the later one stays.
PutBanks(rows, plan, matched, status) ==
  [b \in Banks |->
     IF b \in BanksIn(plan)
     THEN [rows[b] EXCEPT
             !.matched = matched, !.status = status,
             !.ev = [decision |-> status, legs |-> plan[LastOf(PlannedFor(plan, b))].legs]]
     ELSE rows[b]]

\* Mutant: a suggestion does not reset matched.
PutLegsKeepingMatched(rows, plan, matched, status) ==
  [p \in Legs |->
     IF p \in LegsIn(plan)
     THEN [rows[p] EXCEPT
             !.matched = IF matched = 1 THEN 1 ELSE @, !.status = status,
             !.bank = plan[LastOf({i \in DOMAIN plan : p \in plan[i].legs})].bank]
     ELSE rows[p]]

PutLegs(rows, plan, matched, status) ==
  [p \in Legs |->
     IF p \in LegsIn(plan)
     THEN [rows[p] EXCEPT
             !.matched = matched, !.status = status,
             !.bank = plan[LastOf({i \in DOMAIN plan : p \in plan[i].legs})].bank]
     ELSE rows[p]]

\* Mutant: the decision of the evidence is written as the row's status.
MarkBanksByDecision(rows, blocks) ==
  [b \in Banks |->
     IF rows[b].matched = 0 /\ \E k \in blocks : k.bank = b
     THEN [rows[b] EXCEPT !.status = "blocked"]
     ELSE rows[b]]

\* Mutant: the mark lacks AND matched = 0.
MarkAnyBank(rows, blocks) ==
  [b \in Banks |->
     IF \E k \in blocks : k.bank = b
     THEN [rows[b] EXCEPT !.status = "contractual_discrepancy"]
     ELSE rows[b]]

\* _open_contractual_disputes on the rows that are (still) unmatched.
Disputed(rows, blocks) == {b \in Banks : rows[b].matched = 0 /\ \E k \in blocks : k.bank = b}

MarkBanks(rows, blocks) ==
  [b \in Banks |->
     IF b \in Disputed(rows, blocks)
     THEN [rows[b] EXCEPT
             !.status = "contractual_discrepancy",
             !.ev = [decision |-> "blocked", legs |-> {}]]
     ELSE rows[b]]

DisputedLegs(rows, blocks) ==
  {p \in Legs : rows[p].matched = 0 /\ \E k \in blocks : p \in k.legs}

MarkLegs(rows, blocks) ==
  [p \in Legs |->
     IF p \in DisputedLegs(rows, blocks)
     THEN [rows[p] EXCEPT !.status = "contractual_discrepancy"]
     ELSE rows[p]]

Planned(r) == BanksIn(r.conf) \cup BanksIn(r.sugg)
PlannedLegs(r) == LegsIn(r.conf) \cup LegsIn(r.sugg)

\* Confirmations, then suggestions, then disputes, in one transaction.
Apply(w) ==
  LET r == run[w]
      banks == PutBanks(PutBanks(bank, r.conf, 1, "confirmed"), r.sugg, 0, "suggested")
      legs  == PutLegs(PutLegs(leg, r.conf, 1, "confirmed"), r.sugg, 0, "suggested")
  IN  /\ pc[w] = "apply"
      /\ Unlocked(w, Planned(r) \cup Disputed(banks, r.blocks),
                     PlannedLegs(r) \cup DisputedLegs(legs, r.blocks))
      /\ bank' = MarkBanks(banks, r.blocks)
      /\ leg' = MarkLegs(legs, r.blocks)
      /\ disputes' = [k \in Entry |-> IF k \in r.blocks THEN disputes[k] + 1 ELSE disputes[k]]
      /\ Return(w)
      /\ UNCHANGED <<closes, terms, started>>

(***************************************************************************)
(* confirm_suggestion and reject_suggestion: the row is read, the guard is   *)
(* checked, the legs of its evidence are read one by one, and the commit     *)
(* makes the writes visible.  SQLAlchemy writes the columns that differ from *)
(* what was LOADED, not from what the row is now; and what it has flushed is *)
(* locked, so that it may be written down here as if it were at the commit.  *)
(***************************************************************************)
OrmWrite(now, loaded, new) ==
  [c \in DOMAIN now |-> IF new[c] # loaded[c] THEN new[c] ELSE now[c]]

\* Mutant: the guard on match_status is missing.
ReadAnySuggestion(w, b, kind) ==
  /\ MayStart(w)
  /\ bank[b].there
  /\ req' = [req EXCEPT ![w].kind = kind, ![w].bank = b, ![w].row = bank[b]]
  /\ started' = started + 1
  /\ Goto(w, "answer")
  /\ UNCHANGED <<ledger, terms, run>>

\* Both handlers begin by reading the bank row and refusing a settled one.
ReadSuggestion(w, b, kind) ==
  /\ MayStart(w)
  /\ bank[b].there /\ bank[b].status \in {"suggested", "pending"}
  /\ req' = [req EXCEPT ![w].kind = kind, ![w].bank = b, ![w].row = bank[b]]
  /\ started' = started + 1
  /\ Goto(w, "answer")
  /\ UNCHANGED <<ledger, terms, run>>

\* db.get of a leg, in the order of the evidence: what was read before is
\* flushed, which waits for the locks of others, and then the leg is read.
ReadLeg(w, p) ==
  LET q == req[w]
  IN  /\ pc[w] = "answer"
      /\ p \in q.row.ev.legs \ q.read
      /\ Unlocked(w, {q.bank}, q.read)
      /\ req' = [req EXCEPT ![w].copy[p] = leg[p], ![w].read = q.read \cup {p}, ![w].flushed = q.read]
      /\ Goto(w, "answer")
      /\ UNCHANGED <<ledger, terms, run, started>>

\* What both write on the bank row, whose evidence tells the time and is always
\* written, and on the legs that the evidence names.
Answer(w, kind, matched, counterpart) ==
  LET q   == req[w]
      row == q.row
      legs == row.ev.legs
      new == [row EXCEPT !.matched = matched, !.status = kind]
      newLeg(p) == [q.copy[p] EXCEPT !.matched = matched, !.status = kind, !.bank = counterpart]
  IN  /\ pc[w] = "answer" /\ q.kind = kind
      /\ q.read = legs
      /\ Unlocked(w, {q.bank}, legs)
      /\ bank' = [bank EXCEPT ![q.bank] =
                    [OrmWrite(@, row, new) EXCEPT !.ev = [decision |-> kind, legs |-> legs]]]
      /\ leg' = [p \in Legs |->
                   IF p \in legs THEN OrmWrite(leg[p], q.copy[p], newLeg(p)) ELSE leg[p]]
      /\ Return(w)
      /\ UNCHANGED <<disputes, closes, terms, started>>

\* Mutant: matched is not set.
ConfirmWithoutMatching(w) == Answer(w, "user_confirmed", 0, req[w].bank)

ConfirmSuggestion(w) == Answer(w, "user_confirmed", 1, req[w].bank)
RejectSuggestion(w) == Answer(w, "rejected", 0, None)

(***************************************************************************)
(* signed_close: five counts, one query each, then the signature.            *)
(***************************************************************************)
\* Mutant: the motor's count does not look at who confirmed.
CountedByMatched(query, b) ==
  CASE query = "bank_total"     -> TRUE
    [] query = "confirmed"      -> bank[b].matched = 1
    [] query = "user_confirmed" -> bank[b].status = "user_confirmed" /\ bank[b].matched = 1
    [] query = "suggested"      -> bank[b].status = "suggested"
    [] query = "pending"        -> bank[b].status = "pending" /\ bank[b].matched = 0

\* The rows a query of signed_close counts.
Counted(query, b) ==
  CASE query = "bank_total"     -> TRUE
    [] query = "confirmed"      -> bank[b].status = "confirmed" /\ bank[b].matched = 1
    [] query = "user_confirmed" -> bank[b].status = "user_confirmed" /\ bank[b].matched = 1
    [] query = "suggested"      -> bank[b].status = "suggested"
    [] query = "pending"        -> bank[b].status = "pending" /\ bank[b].matched = 0

StartClose(w, window) ==
  /\ MayStart(w)
  /\ req' = [req EXCEPT ![w].kind = "close", ![w].window = window]
  /\ started' = started + 1
  /\ Goto(w, "count")
  /\ UNCHANGED <<ledger, terms, run>>

CountRows(w) ==
  LET query == CloseQueries[req[w].next]
  IN  /\ pc[w] = "count"
      /\ req' = [req EXCEPT
                   ![w].tally[query] =
                      Cardinality({b \in req[w].window : bank[b].there /\ Counted(query, b)}),
                   ![w].next = @ + 1]
      /\ Goto(w, IF req[w].next = Len(CloseQueries) THEN "sign" ELSE "count")
      /\ UNCHANGED <<ledger, terms, run, started>>

\* 409 when something is open, unless the caller passed allow_open_items.
RefuseClose(w) ==
  /\ pc[w] = "sign"
  /\ req[w].tally["suggested"] > 0 \/ req[w].tally["pending"] > 0
  /\ Return(w)
  /\ UNCHANGED <<ledger, terms, started>>

SignClose(w) ==
  /\ pc[w] = "sign"
  /\ \E open \in BOOLEAN :
       /\ open \/ (req[w].tally["suggested"] = 0 /\ req[w].tally["pending"] = 0)
       /\ closes' = Append(closes, [window |-> req[w].window, open |-> open,
                                    tally |-> req[w].tally])
  /\ Return(w)
  /\ UNCHANGED <<bank, leg, disputes, terms, started>>

(***************************************************************************)
(* The system                                                                *)
(***************************************************************************)
Environment ==
  \/ \E b \in Banks : ArriveBank(b)
  \/ \E p \in Legs : ArriveLeg(p)
  \/ \E v \in Providers : \E t \in Contracts[v] : SyncContract(v, t)

Run(w) ==
  \/ \E window \in Windows : StartRun(w, window)
  \/ ReadLegs(w)
  \/ ReadBatch(w)
  \/ ScanOneToOne(w)
  \/ ScanGroup(w)
  \/ Apply(w)

Client(w) ==
  \/ \E b \in Banks, kind \in {"user_confirmed", "rejected"} : ReadSuggestion(w, b, kind)
  \/ \E p \in Legs : ReadLeg(w, p)
  \/ ConfirmSuggestion(w)
  \/ RejectSuggestion(w)
  \/ \E window \in Periods : StartClose(w, window)
  \/ CountRows(w)
  \/ RefuseClose(w)
  \/ SignClose(w)

Next ==
  \/ Environment
  \/ \E w \in Workers : Run(w) \/ Client(w) \/ Abort(w)

Spec == Init /\ [][Next]_vars

(***************************************************************************)
(* Properties                                                                *)
(***************************************************************************)
Evidence == [decision : Decision, legs : SUBSET Legs]
Stamp == [cnet : OptionalAmount, gw : OptionalAmount,
          audit : {"pending_audit", "no_contract", "ok", "gateway_deviation"}]
BankState == [there : BOOLEAN, matched : {0, 1}, status : BankStatus, ev : Evidence]
LegState == [there : BOOLEAN, matched : {0, 1}, status : LegStatus,
             bank : Banks \cup {None}, stamp : Stamp]
Ranks == UNION {[S -> 1..Cardinality(Legs)] : S \in SUBSET Legs}
RunState == [window : SUBSET Banks, rank : Ranks,
             stamp : [Legs -> Stamp], count : Nat, offset : Nat, todo : SUBSET Banks,
             used : SUBSET Legs, conf : Seq(Entry), sugg : Seq(Entry), blocks : SUBSET Entry]
ReqState == [kind : {"none", "close", "user_confirmed", "rejected"},
             bank : Banks \cup {None}, row : BankState, read : SUBSET Legs, flushed : SUBSET Legs,
             copy : [Legs -> LegState], window : SUBSET Banks, next : 1..6,
             tally : [CloseQuery -> Nat]]
Close == [window : SUBSET Banks, open : BOOLEAN, tally : [CloseQuery -> Nat]]

\* Type correctness.
TypeOK ==
  /\ bank \in [Banks -> BankState]
  /\ leg \in [Legs -> LegState]
  /\ DOMAIN terms = Providers /\ \A v \in Providers : terms[v] \in Contracts[v]
  /\ disputes \in [Entry -> Nat]
  /\ closes \in Seq(Close)
  /\ pc \in [Workers -> {"idle", "read", "batch", "scan", "apply", "answer", "count", "sign"}]
  /\ run \in [Workers -> RunState]
  /\ req \in [Workers -> ReqState]
  /\ started \in Nat

Settled == {"confirmed", "user_confirmed"}

\* A bank row counted as confirmed is a matched row, whatever operations overlap:
\* a suggestion, a rejection or a contractual mark never leaves it counted.
CountedRowsAreMatched ==
  \A b \in Banks : bank[b].status \in Settled => bank[b].matched = 1

\* No run plans to confirm two bank rows with the same leg (used_prov_ids).
PlanUsesLegOnce ==
  \A w \in Workers : \A i, j \in DOMAIN run[w].conf :
    i # j => run[w].conf[i].legs \cap run[w].conf[j].legs = {}

\* matched: "1 = auto-confirmed" (models/provider_transaction.py): every leg of
\* the evidence of a counted bank row is matched and names this row.
EveryEvidenceAgrees ==
  \A b \in Banks : bank[b].status \in Settled =>
    \A p \in bank[b].ev.legs : leg[p].matched = 1 /\ leg[p].bank = b

\* reject_suggestion: "stays unmatched, status=rejected".
RejectedStaysUnmatched == \A b \in Banks : bank[b].status = "rejected" => bank[b].matched = 0

\* The rows an Apply step newly confirms.
NewlyConfirmed == {b \in Banks : bank[b].status # "confirmed" /\ bank'[b].status = "confirmed"}

\* "Persist contractual discrepancies (blocked auto-confirm)": a run that confirms
\* a bank row opens no dispute on it, a discrepancy being what blocks it.
ConfirmedIsNotDisputed ==
  [][\A k \in Entry : disputes'[k] > disputes[k] => k.bank \notin NewlyConfirmed]_vars

(***************************************************************************)
(* Properties of the signed close                                            *)
(***************************************************************************)
Signing == closes' # closes
Signed == closes'[Len(closes')]

InPeriod(c, statuses) == {b \in c.window : bank[b].there /\ bank[b].status \in statuses}

\* "Seal a period: snapshot motor vs user-validated counts": the confirmed counts
\* a close certifies are those of the ledger it seals.
CloseCertifiesLedger ==
  [][Signing => /\ Signed.tally["confirmed"] = Cardinality(InPeriod(Signed, {"confirmed"}))
                /\ Signed.tally["user_confirmed"] = Cardinality(InPeriod(Signed, {"user_confirmed"}))]_vars

\* "signed-close seals a period": a row settled in a strict close is not open later.
ClosedPeriodStaysClosed ==
  [][\A i \in DOMAIN closes : ~closes[i].open =>
       \A b \in InPeriod(closes[i], BankStatus \ {"suggested", "pending"}) :
          bank'[b].status \notin {"suggested", "pending"}]_vars
=============================================================================
