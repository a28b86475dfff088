--------------------------- MODULE LedgerHistory ---------------------------
(***************************************************************************)
(* The ledger with two history variables, and what it promises whatever      *)
(* operations overlap.  No step of Reconciliation depends on the history:    *)
(* it remembers which rows an operation read that others have written since, *)
(* so that a property can say what only such an operation may do.            *)
(***************************************************************************)
EXTENDS Reconciliation

VARIABLES
  stale,   \* [Workers -> bank rows written since the worker read them]
  torn     \* bank rows written by an operation for which they were stale, or
           \* that a run planned twice

history == <<stale, torn>>

\* The bank rows whose page a run reads in this step.
Reads(w) == IF pc[w] = "batch" THEN run'[w].todo ELSE {}

Changes == {b \in Banks : bank'[b] # bank[b]}

\* What a worker has to write, if anything.
Writes(w) ==
  CASE pc[w] = "apply"  -> Planned(run[w])
    [] pc[w] = "answer" -> {req[w].bank}
    [] OTHER            -> {}

\* Rows that moved back to a page the run had not read yet are in its plan twice.
PlannedTwice(r) ==
  {b \in BanksIn(r.conf) : b \in BanksIn(r.sugg) \/ Cardinality(PlannedFor(r.conf, b)) > 1}

Commits(w) == pc[w] # "idle" /\ pc'[w] = "idle" /\ ledger' # ledger

HistoryInit == Init /\ stale = [w \in Workers |-> {}] /\ torn = {}

HistoryStep ==
  /\ stale' = [w \in Workers |->
                 IF pc'[w] = "idle" THEN {} ELSE (stale[w] \ Reads(w)) \cup Changes]
  /\ torn' = torn \cup UNION {Writes(w) \cap (stale[w] \cup PlannedTwice(run[w])) :
                               w \in {v \in Workers : Commits(v)}}

HistorySpec == HistoryInit /\ [][Next /\ HistoryStep]_<<vars, history>>

(***************************************************************************)
(* Properties of the rows.  A leg may answer several bank rows: a suggestion *)
(* does not use it up, and nothing but the client keeps two rows from being  *)
(* confirmed with it.  The legs of one row have more promised of them.       *)
(***************************************************************************)
\* Bank rows that a run can pair with a leg.
Claims(b, p) == Tiers(b, p) # {} \/ Coherent(BankRow[b], LegRow[p])

OfOneRow == {p \in Legs : \A a, b \in Banks : Claims(a, p) /\ Claims(b, p) => a = b}

\* A leg of one row is matched exactly when it is counted, though confirm and
\* reject write only the columns that differ from what they read of it: the lock
\* that the flush of the bank row takes covers the legs read after it.
CountedLegsAreMatched ==
  \A p \in OfOneRow : leg[p].matched = 1 <=> leg[p].status \in Settled

\* matched: "1 = auto-confirmed" (models/provider_transaction.py): a counted bank
\* row and the legs of its evidence agree, each is matched and names this row,
\* through any overlap of runs, answers and uploads.
EvidenceAgrees ==
  \A b \in Banks : bank[b].status \in Settled =>
    \A p \in bank[b].ev.legs \cap OfOneRow : leg[p].matched = 1 /\ leg[p].bank = b

\* The converse: a matched leg is in the evidence of the counted row it names, so
\* that no matched money is left without the bank row that explains it, unless
\* that row was written by an operation that had read another version of it.
MatchedLegIsExplained ==
  \A p \in OfOneRow : leg[p].matched = 1 =>
    LET b == leg[p].bank
    IN  /\ b \in Banks
        /\ b \notin torn => bank[b].status \in Settled /\ p \in bank[b].ev.legs

\* confirm_suggestion: "Client validates a motor suggestion -> user_confirmed":
\* what the client validated is taken back by no run and no answer but one that
\* had read the row before it was validated.
ValidationIsFinal ==
  [][\A b \in Banks : bank[b].status = "user_confirmed" /\ bank'[b].status # "user_confirmed" =>
       \E w \in Workers : b \in stale[w] /\ Commits(w)]_<<vars, history>>

(***************************************************************************)
(* The signed close                                                          *)
(***************************************************************************)
InStatus(window, query) ==
  {b \in window : bank[b].there /\ (query = "bank_total" \/ bank[b].status = query)}

\* Each count of a close differs from what the period holds when it is signed by
\* no more rows than were written while it counted, however often they were.
CountsDriftByWrites ==
  \A w \in Workers : pc[w] \in {"count", "sign"} =>
    \A i \in 1..(req[w].next - 1) :
      LET query == CloseQueries[i]
      IN  Magnitude(req[w].tally[query] - Cardinality(InStatus(req[w].window, query)))
            <= Cardinality(req[w].window \cap stale[w])
=============================================================================
