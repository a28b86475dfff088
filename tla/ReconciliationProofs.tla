----------------------- MODULE ReconciliationProofs -----------------------
(***************************************************************************)
(* The ledger: type correctness and safety for any rows and contracts and    *)
(* any number of concurrent runs, confirms, rejects and closes, over rows    *)
(* that arrive in any order; and the decisions of the matching engine        *)
(* against settlements of any length.                                        *)
(*                                                                         *)
(* TypeOK is not inductive by itself: signed_close reads the name of its next *)
(* query out of a sequence, so Typed adds that a close in progress has a      *)
(* query left.  CountedRowsAreMatched needs AnswersOpenRow: confirm and       *)
(* reject write only the columns they change, so what the row was when it     *)
(* was read decides what it is when they commit.  PlanUsesLegOnce needs       *)
(* PlanWithinUsed: the legs of a plan are in used, where the candidates of    *)
(* the next row are not.  What the legs promise needs CopiesStand, which is   *)
(* what the row locks are for, and ClaimsInv; what the history excuses needs  *)
(* ReadsStand, AnswersStand and CountsStand.  They are explained where they   *)
(* are defined.                                                              *)
(***************************************************************************)
EXTENDS LedgerHistory, Settlements, FiniteSetTheorems, SequenceTheorems, WellFoundedInduction, TLAPS

\* A non-empty set of naturals has a least element.
LEMMA LeastNatural ==
  ASSUME NEW T \in SUBSET Nat, T # {}
  PROVE  \E x \in T : \A y \in T : x <= y
<1>1. PICK x \in T : \A y \in T : ~(<<y, x>> \in OpToRel(<, Nat))
  BY NatLessThanWellFounded, WFMin
<1>2. SUFFICES ASSUME NEW y \in T PROVE ~(y < x)
  OBVIOUS
<1>3. x \in Nat /\ y \in Nat /\ <<y, x>> \in Nat \X Nat
  OBVIOUS
<1>4. ~(<<y, x>>[1] < <<y, x>>[2])
  BY <1>1, <1>3, Zenon DEF OpToRel
<1> QED
  BY <1>4

\* The last of the entries of a plan that name a row is one of them.
LEMMA LastOfIsIn ==
  ASSUME NEW n \in Nat, NEW I \in SUBSET (1..n), I # {}
  PROVE  LastOf(I) \in I /\ \A j \in I : j <= LastOf(I)
<1>1. \A i \in I : i \in Nat /\ i <= n /\ n - i \in Nat
  OBVIOUS
<1> DEFINE T == {m \in Nat : \E i \in I : m = n - i}
<1>2. T \subseteq Nat /\ T # {}
  BY <1>1
<1>3. PICK x \in T : \A y \in T : x <= y
  <2> HIDE DEF T
  <2> QED BY <1>2, LeastNatural
<1>4. PICK i \in I : x = n - i
  BY <1>3
<1>5. \A j \in I : j <= i
  BY <1>1, <1>3, <1>4
<1> QED
  BY <1>5 DEF LastOf

(***************************************************************************)
(* Types of what the actions compute                                         *)
(***************************************************************************)
\* The contract arithmetic yields integers.
LEMMA NetOnGrossType ==
  ASSUME NEW t \in ContractTerms, NEW gross \in Int
  PROVE  NetOnGross(gross, t) \in Int
<1>1. Magnitude(gross) \in Int /\ NonNegative(t.pct) \in Int /\ NonNegative(t.fixed) \in Int
      /\ IvaFactor(t) \in Int
  BY DEF ContractTerms, Magnitude, NonNegative, IvaFactor
<1>2. Magnitude(gross) * NonNegative(t.pct) \in Int
  BY <1>1
<1>3. Magnitude(gross) * NonNegative(t.pct) + NonNegative(t.fixed) * 1000 \in Int
  BY <1>1, <1>2
<1>4. (Magnitude(gross) * NonNegative(t.pct) + NonNegative(t.fixed) * 1000) * IvaFactor(t) \in Int
  BY <1>1, <1>3
<1>5. \A num \in Int : RoundedQuotient(num, 100000) \in Int
  BY DEF RoundedQuotient
<1>6. FeeTotal(gross, t) \in Int
  BY <1>4, <1>5 DEF FeeTotal
<1> QED
  BY <1>6 DEF NetOnGross

\* apply_contract_recalc stamps every row with a well-formed audit, whatever
\* columns the provider left out.
LEMMA RecalcType ==
  ASSUME NEW p \in Legs, NEW t \in ContractTerms \cup {None}
  PROVE  ApplyContractRecalc(LegRow[p], t) \in Stamp
<1>1. /\ LegRow[p].amount \in OptionalAmount /\ LegRow[p].gross \in OptionalAmount
      /\ LegRow[p].fee \in OptionalAmount /\ LegRow[p].net \in OptionalAmount
  BY RowsAssumption
<1>2. GatewayNet(LegRow[p]) \in OptionalAmount
  BY <1>1 DEF GatewayNet, OptionalAmount
<1>3. ResolveGross(LegRow[p]) \in Int
  BY <1>1 DEF ResolveGross, OptionalAmount
<1>4. CASE t = None
  BY <1>2, <1>4 DEF ApplyContractRecalc, Stamp, OptionalAmount
<1>5. CASE t # None
  <2>1. NetOnGross(ResolveGross(LegRow[p]), t) \in Int
    BY <1>3, <1>5, NetOnGrossType
  <2> QED
    BY <1>2, <1>5, <2>1 DEF ApplyContractRecalc, Stamp, OptionalAmount
<1> QED
  BY <1>4, <1>5

\* A set of bank rows can be counted.
LEMMA CountType ==
  ASSUME NEW S, S \subseteq Banks
  PROVE  IsFiniteSet(S) /\ Cardinality(S) \in Nat
BY LedgerAssumption, FS_Subset, FS_CardinalityType

\* A number of legs is a natural number.
LEMMA LegCountType ==
  ASSUME NEW S, S \subseteq Legs
  PROVE  Cardinality(S) \in Nat /\ Cardinality(S) <= Cardinality(Legs)
BY LedgerAssumption, FS_Subset, FS_CardinalityType

\* The writes of a commit keep the rows well formed.
LEMMA PutBanksType ==
  ASSUME NEW rows \in [Banks -> BankState], NEW plan \in Seq(Entry),
         NEW matched \in {0, 1}, NEW status \in {"confirmed", "suggested"}
  PROVE  PutBanks(rows, plan, matched, status) \in [Banks -> BankState]
<1>1. ASSUME NEW b \in BanksIn(plan)
      PROVE  plan[LastOf(PlannedFor(plan, b))].legs \in SUBSET Legs
  <2>1. /\ PlannedFor(plan, b) \subseteq 1..Len(plan) /\ Len(plan) \in Nat
        /\ PlannedFor(plan, b) # {}
    BY <1>1 DEF PlannedFor, BanksIn
  <2>2. LastOf(PlannedFor(plan, b)) \in 1..Len(plan)
    BY <2>1, LastOfIsIn
  <2>3. plan[LastOf(PlannedFor(plan, b))] \in Entry
    BY <2>2, ElementOfSeq
  <2> QED
    BY <2>3 DEF Entry
<1>2. ASSUME NEW b \in BanksIn(plan)
      PROVE  [decision |-> status, legs |-> plan[LastOf(PlannedFor(plan, b))].legs] \in Evidence
  BY <1>1 DEF Evidence, Decision
<1> QED
  BY <1>2 DEF PutBanks, BankState, BankStatus

\* The UPDATEs of a plan keep the provider rows well typed.
LEMMA PutLegsType ==
  ASSUME NEW rows \in [Legs -> LegState], NEW plan \in Seq(Entry),
         NEW matched \in {0, 1}, NEW status \in {"confirmed", "suggested"}
  PROVE  PutLegs(rows, plan, matched, status) \in [Legs -> LegState]
<1>1. ASSUME NEW p \in LegsIn(plan)
      PROVE  plan[LastOf({i \in DOMAIN plan : p \in plan[i].legs})].bank \in Banks
  <2> DEFINE I == {i \in DOMAIN plan : p \in plan[i].legs}
  <2>1. I \subseteq 1..Len(plan) /\ Len(plan) \in Nat /\ I # {}
    BY <1>1 DEF LegsIn
  <2>2. LastOf(I) \in 1..Len(plan)
    BY <2>1, LastOfIsIn
  <2>3. plan[LastOf(I)] \in Entry
    BY <2>2, ElementOfSeq
  <2> QED
    BY <2>3 DEF Entry
<1> QED
  BY <1>1, ZenonT(60) DEF PutLegs, LegState, LegStatus, BankStatus

\* The contractual mark keeps the bank rows well typed.
LEMMA MarkBanksType ==
  ASSUME NEW rows \in [Banks -> BankState], NEW blocks
  PROVE  MarkBanks(rows, blocks) \in [Banks -> BankState]
<1>1. [decision |-> "blocked", legs |-> {}] \in Evidence
  BY DEF Evidence, Decision
<1>2. ASSUME NEW b \in Banks
      PROVE  [rows[b] EXCEPT !.status = "contractual_discrepancy",
                             !.ev = [decision |-> "blocked", legs |-> {}]] \in BankState
  <2> DEFINE ev == [decision |-> "blocked", legs |-> {}]
  <2> HIDE DEF ev
  <2>1. ev \in Evidence
    BY <1>1 DEF ev
  <2>2. [rows[b] EXCEPT !.status = "contractual_discrepancy", !.ev = ev] \in BankState
    BY <2>1 DEF BankState, BankStatus
  <2> QED
    BY <2>2 DEF ev
<1> QED
  BY <1>2 DEF MarkBanks

\* The contractual mark keeps the provider rows well typed.
LEMMA MarkLegsType ==
  ASSUME NEW rows \in [Legs -> LegState], NEW blocks
  PROVE  MarkLegs(rows, blocks) \in [Legs -> LegState]
BY DEF MarkLegs, LegState, LegStatus, BankStatus

\* The write of confirm and reject keeps the rows well typed.
LEMMA OrmWriteType ==
  /\ \A now, new \in BankState : \A loaded : OrmWrite(now, loaded, new) \in BankState
  /\ \A now, new \in LegState : \A loaded : OrmWrite(now, loaded, new) \in LegState
BY DEF OrmWrite, BankState, LegState

\* An idle worker's locals are well typed.
LEMMA NoLocalsType == NoRun \in RunState /\ NoReq \in ReqState
<1>1. NoStamp \in Stamp
  BY DEF NoStamp, Stamp, OptionalAmount
<1>2. [p \in {} |-> 0] \in Ranks
  <2>1. [p \in {} |-> 0] \in [{} -> 1..Cardinality(Legs)]
    OBVIOUS
  <2> QED
    BY <2>1 DEF Ranks
<1>3. <<>> \in Seq(Entry)
  OBVIOUS
<1>4. NoRun \in RunState
  BY <1>1, <1>2, <1>3 DEF NoRun, RunState
<1>5. NewBank \in BankState
  BY DEF NewBank, BankState, BankStatus, NoEvidence, Evidence, Decision
<1>6. [q \in CloseQuery |-> 0] \in [CloseQuery -> Nat]
  OBVIOUS
<1>7. NewLeg \in LegState
  BY <1>1 DEF NewLeg, LegState, LegStatus, BankStatus
<1>8. [p \in Legs |-> NewLeg] \in [Legs -> LegState]
  BY <1>7
<1> QED
  BY <1>4, <1>5, <1>6, <1>8 DEF NoReq, ReqState

(***************************************************************************)
(* Type correctness.  A close indexes its queries: while it counts, there    *)
(* is a query left.                                                          *)
(***************************************************************************)
QueryLeft ==
  \A w \in Workers :
    /\ pc[w] = "idle" => req[w].next = 1
    /\ pc[w] = "count" => req[w].next \in 1..5

Typed == TypeOK /\ QueryLeft

\* The initial state is well typed.
LEMMA InitTyped == Init => Typed
<1> SUFFICES ASSUME Init PROVE Typed
  OBVIOUS
<1>1. bank \in [Banks -> BankState]
  BY DEF Init, NewBank, BankState, BankStatus, NoEvidence, Evidence, Decision
<1>2. leg \in [Legs -> LegState]
  <2>1. NoStamp \in Stamp
    BY DEF NoStamp, Stamp, OptionalAmount
  <2> QED
    BY <2>1 DEF Init, NewLeg, LegState, LegStatus, BankStatus
<1>3. run \in [Workers -> RunState] /\ req \in [Workers -> ReqState]
  BY NoLocalsType DEF Init
<1>4. closes \in Seq(Close)
  BY DEF Init
<1>5. DOMAIN terms = Providers /\ \A v \in Providers : terms[v] \in Contracts[v]
  BY DEF Init
<1>6. disputes \in [Entry -> Nat] /\ pc = [w \in Workers |-> "idle"] /\ started = 0
  BY DEF Init
<1>7. \A w \in Workers : req[w].next = 1 /\ pc[w] # "count"
  BY DEF Init, NoReq
<1> QED
  BY <1>1, <1>2, <1>3, <1>4, <1>5, <1>6, <1>7 DEF Typed, TypeOK, QueryLeft

\* A handler that returns leaves well-formed locals.
LEMMA ReturnTyped ==
  ASSUME Typed, NEW w \in Workers, Return(w)
  PROVE  /\ pc' \in [Workers -> {"idle", "read", "batch", "scan", "apply", "answer", "count", "sign"}]
         /\ run' \in [Workers -> RunState]
         /\ req' \in [Workers -> ReqState]
         /\ QueryLeft'
BY NoLocalsType DEF Typed, TypeOK, QueryLeft, Return, Goto, NoReq

\* Ingest and contract changes keep the state well typed.
LEMMA EnvironmentTyped == Typed /\ Environment => Typed'
<1> SUFFICES ASSUME Typed, Environment PROVE Typed'
  OBVIOUS
<1>1. ASSUME NEW b \in Banks, ArriveBank(b) PROVE Typed'
  <2>1. bank' \in [Banks -> BankState]
    <3> DEFINE new == [bank[b] EXCEPT !.there = TRUE]
    <3>1. bank \in [Banks -> BankState]
      BY DEF Typed, TypeOK
    <3>2. new \in BankState
      BY <3>1 DEF BankState
    <3>3. bank' = [bank EXCEPT ![b] = new]
      BY <1>1, <3>1 DEF ArriveBank
    <3> HIDE DEF new
    <3> QED
      BY <3>1, <3>2, <3>3
  <2> QED
    BY <1>1, <2>1 DEF ArriveBank, Typed, TypeOK, QueryLeft
<1>2. ASSUME NEW p \in Legs, ArriveLeg(p) PROVE Typed'
  <2>1. NoStamp \in Stamp
    BY DEF NoStamp, Stamp, OptionalAmount
  <2>2. Recalc(p) \in Stamp
    <3>1. terms[ProviderOf[p]] \in ContractTerms \cup {None}
      BY RowsAssumption DEF Typed, TypeOK
    <3> QED
      BY <3>1, RecalcType DEF Recalc
  <2>3. leg' \in [Legs -> LegState]
    <3>1. PICK stamp \in Stamp :
            leg' = [leg EXCEPT ![p].there = TRUE, ![p].stamp = stamp]
      BY <1>2, <2>1, <2>2, Zenon DEF ArriveLeg
    <3> DEFINE new == [leg[p] EXCEPT !.there = TRUE, !.stamp = stamp]
    <3>2. leg \in [Legs -> LegState]
      BY DEF Typed, TypeOK
    <3>3. new \in LegState
      BY <3>2 DEF LegState
    <3>4. leg' = [leg EXCEPT ![p] = new]
      BY <3>1, <3>2
    <3> HIDE DEF new
    <3> QED
      BY <3>2, <3>3, <3>4
  <2> QED
    BY <1>2, <2>3 DEF ArriveLeg, Typed, TypeOK, QueryLeft
<1>3. ASSUME NEW v \in Providers, NEW t \in Contracts[v], SyncContract(v, t) PROVE Typed'
  <2>1. DOMAIN terms' = Providers /\ \A u \in Providers : terms'[u] \in Contracts[u]
    BY <1>3 DEF SyncContract, Typed, TypeOK
  <2> QED
    BY <1>3, <2>1 DEF SyncContract, Typed, TypeOK, QueryLeft
<1> QED
  BY <1>1, <1>2, <1>3 DEF Environment

\* The legs of a run's snapshot are legs.
LEMMA FreeLegs ==
  ASSUME Typed, NEW w \in Workers
  PROVE  DOMAIN run[w].rank \subseteq Legs /\ Free(run[w]) \subseteq Legs
<1>1. run[w].rank \in Ranks
  BY DEF Typed, TypeOK, RunState
<1>2. DOMAIN run[w].rank \subseteq Legs
  BY <1>1 DEF Ranks
<1> QED
  BY <1>2 DEF Free

\* What the decision on one row adds to a run is well typed.
LEMMA ScannedTyped ==
  ASSUME Typed, NEW w \in Workers, NEW b \in Banks,
         NEW conf \in Seq(Entry), NEW sugg \in Seq(Entry),
         NEW blocks \in SUBSET Entry, NEW used \in SUBSET Legs,
         Scanned(w, b, conf, sugg, blocks, used)
  PROVE  Typed'
<1>1. run' \in [Workers -> RunState]
  <2> DEFINE r == [run[w] EXCEPT !.todo = @ \ {b}, !.conf = conf, !.sugg = sugg,
                                 !.blocks = @ \cup blocks, !.used = @ \cup used]
  <2>1. run[w] \in RunState
    BY DEF Typed, TypeOK
  <2>2. r \in RunState
    BY <2>1 DEF RunState
  <2>3. run' = [run EXCEPT ![w] = r]
    BY Zenon DEF Scanned
  <2> HIDE DEF r
  <2> QED
    BY <2>2, <2>3 DEF Typed, TypeOK
<1> QED
  BY <1>1 DEF Scanned, Goto, ledger, Typed, TypeOK, QueryLeft

\* The three outcomes of a bank row.
LEMMA OutcomeTyped ==
  ASSUME Typed, NEW w \in Workers, NEW b \in Banks,
         NEW legs \in SUBSET Legs, NEW blocks \in SUBSET Entry,
         \/ Confirmed(w, b, legs, blocks)
         \/ Suggested(w, b, legs, blocks)
         \/ Undecided(w, b, blocks)
  PROVE  Typed'
<1>1. run[w].conf \in Seq(Entry) /\ run[w].sugg \in Seq(Entry)
  BY DEF Typed, TypeOK, RunState
<1>2. [bank |-> b, legs |-> legs] \in Entry
  BY DEF Entry
<1>3. /\ Append(run[w].conf, [bank |-> b, legs |-> legs]) \in Seq(Entry)
      /\ Append(run[w].sugg, [bank |-> b, legs |-> legs]) \in Seq(Entry)
  BY <1>1, <1>2, AppendProperties
<1>4. CASE Confirmed(w, b, legs, blocks)
  BY <1>1, <1>3, <1>4, ScannedTyped DEF Confirmed
<1>5. CASE Suggested(w, b, legs, blocks)
  <2>1. {} \in SUBSET Legs
    OBVIOUS
  <2> QED
    BY <1>1, <1>3, <1>5, <2>1, ScannedTyped DEF Suggested
<1>6. CASE Undecided(w, b, blocks)
  <2>1. {} \in SUBSET Legs
    OBVIOUS
  <2> QED
    BY <1>1, <1>6, <2>1, ScannedTyped DEF Undecided
<1> QED
  BY <1>4, <1>5, <1>6

\* The blocks of Pass A are entries of a bank row and its legs.
LEMMA BlockedType ==
  ASSUME NEW r, NEW b \in Banks, NEW tried \in SUBSET Legs
  PROVE  Blocked(r, b, tried) \subseteq Entry
BY DEF Blocked, Entry

\* The loop body keeps the state well typed.
LEMMA ScanTyped ==
  ASSUME Typed, NEW w \in Workers, ScanOneToOne(w) \/ ScanGroup(w)
  PROVE  Typed'
<1>1. run[w].todo \subseteq Banks
  BY DEF Typed, TypeOK, RunState
<1>2. \A b : Candidates(run[w], b) \subseteq Legs /\ GroupOf(run[w], b) \subseteq Legs
  BY FreeLegs DEF Candidates, GroupOf
<1>3. CASE ScanOneToOne(w)
  <2>1. PICK b \in run[w].todo : \E p \in Candidates(run[w], b) :
          LET blocks == Blocked(run[w], b, {q \in Candidates(run[w], b) : Before(run[w], b, q, p)})
          IN  Confirmed(w, b, {p}, blocks) \/ Suggested(w, b, {p}, blocks)
    BY <1>3 DEF ScanOneToOne
  <2> PICK p \in Candidates(run[w], b) :
          LET blocks == Blocked(run[w], b, {q \in Candidates(run[w], b) : Before(run[w], b, q, p)})
          IN  Confirmed(w, b, {p}, blocks) \/ Suggested(w, b, {p}, blocks)
    BY <2>1
  <2>2. b \in Banks /\ {p} \in SUBSET Legs
    BY <1>1, <1>2
  <2>3. {q \in Candidates(run[w], b) : Before(run[w], b, q, p)} \in SUBSET Legs
    BY <1>2
  <2>4. Blocked(run[w], b, {q \in Candidates(run[w], b) : Before(run[w], b, q, p)}) \in SUBSET Entry
    BY <2>2, <2>3, BlockedType
  <2> QED
    BY <2>1, <2>2, <2>4, OutcomeTyped
<1>4. CASE ScanGroup(w)
  <2>1. PICK b \in run[w].todo :
          LET G == GroupOf(run[w], b)
              blocks == Blocked(run[w], b, Candidates(run[w], b))
          IN  \/ Confirmed(w, b, G, blocks)
              \/ Suggested(w, b, G, blocks)
              \/ Undecided(w, b, blocks \cup {[bank |-> b, legs |-> G]})
              \/ Undecided(w, b, blocks)
    BY <1>4 DEF ScanGroup
  <2>2. b \in Banks /\ GroupOf(run[w], b) \in SUBSET Legs
    BY <1>1, <1>2
  <2>3. Blocked(run[w], b, Candidates(run[w], b)) \in SUBSET Entry
    BY <1>2, <2>2, BlockedType
  <2>4. Blocked(run[w], b, Candidates(run[w], b)) \cup {[bank |-> b, legs |-> GroupOf(run[w], b)]}
          \in SUBSET Entry
    BY <2>2, <2>3 DEF Entry
  <2> QED
    BY <2>1, <2>2, <2>3, <2>4, OutcomeTyped
<1> QED
  BY <1>3, <1>4

\* The ledger a run writes at its commit.
LEMMA ApplyTyped ==
  ASSUME Typed, NEW w \in Workers, Apply(w)
  PROVE  Typed'
<1> DEFINE r == run[w]
           banks == PutBanks(PutBanks(bank, r.conf, 1, "confirmed"), r.sugg, 0, "suggested")
           legs  == PutLegs(PutLegs(leg, r.conf, 1, "confirmed"), r.sugg, 0, "suggested")
<1>1. r.conf \in Seq(Entry) /\ r.sugg \in Seq(Entry) /\ r.blocks \subseteq Entry
  BY DEF Typed, TypeOK, RunState
<1>2. banks \in [Banks -> BankState]
  <2>1. PutBanks(bank, r.conf, 1, "confirmed") \in [Banks -> BankState]
    BY <1>1, PutBanksType DEF Typed, TypeOK
  <2> QED
    BY <1>1, <2>1, PutBanksType
<1>3. legs \in [Legs -> LegState]
  <2>1. PutLegs(leg, r.conf, 1, "confirmed") \in [Legs -> LegState]
    BY <1>1, PutLegsType DEF Typed, TypeOK
  <2> QED
    BY <1>1, <2>1, PutLegsType
<1>4. bank' \in [Banks -> BankState] /\ leg' \in [Legs -> LegState]
  <2>1. bank' = MarkBanks(banks, r.blocks) /\ leg' = MarkLegs(legs, r.blocks)
    BY DEF Apply
  <2> HIDE DEF banks, legs
  <2> QED
    BY <1>2, <1>3, <2>1, MarkBanksType, MarkLegsType
<1>5. disputes' \in [Entry -> Nat]
  BY DEF Apply, Typed, TypeOK
<1> QED
  BY <1>4, <1>5, ReturnTyped DEF Apply, Typed, TypeOK

\* Every step of a run keeps the state well typed.
LEMMA RunTyped ==
  ASSUME Typed, NEW w \in Workers, Run(w)
  PROVE  Typed'
<1>1. ASSUME NEW window \in Windows, StartRun(w, window) PROVE Typed'
  <2>1. PICK S \in SUBSET AuditEligible :
          leg' = [p \in Legs |-> IF p \in S THEN [leg[p] EXCEPT !.stamp = Recalc(p)] ELSE leg[p]]
    BY <1>1 DEF StartRun
  <2>2. \A p \in Legs : Recalc(p) \in Stamp
    <3>1. \A p \in Legs : terms[ProviderOf[p]] \in ContractTerms \cup {None}
      BY RowsAssumption DEF Typed, TypeOK
    <3> QED
      BY <3>1, RecalcType DEF Recalc
  <2>3. leg' \in [Legs -> LegState]
    <3>1. leg \in [Legs -> LegState]
      BY DEF Typed, TypeOK
    <3>2. ASSUME NEW p \in Legs PROVE [leg[p] EXCEPT !.stamp = Recalc(p)] \in LegState
      BY <2>2, <3>1 DEF LegState
    <3> QED
      BY <2>1, <3>1, <3>2
  <2>4. run' \in [Workers -> RunState]
    <3> DEFINE r == [run[w] EXCEPT !.window = window]
    <3>1. run[w] \in RunState /\ window \in SUBSET Banks
      BY LedgerAssumption DEF Typed, TypeOK
    <3>2. r \in RunState
      BY <3>1 DEF RunState
    <3>3. run' = [run EXCEPT ![w] = r]
      BY <1>1, Zenon DEF StartRun
    <3> HIDE DEF r
    <3> QED
      BY <3>2, <3>3 DEF Typed, TypeOK
  <2>5. /\ started' = started + 1 /\ pc' = [pc EXCEPT ![w] = "read"]
        /\ UNCHANGED <<bank, terms, disputes, closes, req>>
    BY <1>1 DEF StartRun, Goto
  <2> QED
    BY <2>3, <2>4, <2>5 DEF Typed, TypeOK, QueryLeft
<1>2. ASSUME ReadLegs(w) PROVE Typed'
  <2>1. PICK rank \in Bijection(UnmatchedLegs, 1..Cardinality(UnmatchedLegs)) :
          run' = [run EXCEPT ![w].rank = rank,
                             ![w].stamp = [p \in Legs |-> leg[p].stamp],
                             ![w].count = Cardinality(UnmatchedIn(run[w].window))]
    BY <1>2 DEF ReadLegs
  <2>2. rank \in Ranks
    <3>1. UnmatchedLegs \subseteq Legs
      BY DEF UnmatchedLegs
    <3>2. Cardinality(UnmatchedLegs) \in Nat /\ Cardinality(UnmatchedLegs) <= Cardinality(Legs)
          /\ Cardinality(Legs) \in Nat
      BY <3>1, LegCountType
    <3>3. rank \in [UnmatchedLegs -> 1..Cardinality(UnmatchedLegs)]
      BY DEF Bijection, Injection
    <3>4. rank \in [UnmatchedLegs -> 1..Cardinality(Legs)]
      BY <3>2, <3>3
    <3> QED
      BY <3>1, <3>4 DEF Ranks
  <2>3. [p \in Legs |-> leg[p].stamp] \in [Legs -> Stamp]
    BY DEF Typed, TypeOK, LegState
  <2>4. Cardinality(UnmatchedIn(run[w].window)) \in Nat
    <3>1. UnmatchedIn(run[w].window) \subseteq Banks
      BY DEF UnmatchedIn, Typed, TypeOK, RunState
    <3> QED
      BY <3>1, CountType
  <2>5. run' \in [Workers -> RunState]
    <3> DEFINE r == [run[w] EXCEPT !.rank = rank, !.stamp = [p \in Legs |-> leg[p].stamp],
                                   !.count = Cardinality(UnmatchedIn(run[w].window))]
    <3>1. run[w] \in RunState
      BY DEF Typed, TypeOK
    <3>2. r \in RunState
      BY <2>2, <2>3, <2>4, <3>1 DEF RunState
    <3>3. run' = [run EXCEPT ![w] = r]
      BY <2>1, Zenon
    <3> HIDE DEF r
    <3> QED
      BY <3>2, <3>3 DEF Typed, TypeOK
  <2> QED
    BY <1>2, <2>5 DEF ReadLegs, Goto, ledger, Typed, TypeOK, QueryLeft
<1>3. ASSUME ReadBatch(w) PROVE Typed'
  <2>1. Page(UnmatchedIn(run[w].window), run[w].offset) \in SUBSET Banks
    BY DEF Page, UnmatchedIn, Typed, TypeOK, RunState
  <2>2. run[w].offset + BatchSize \in Nat
    BY LedgerAssumption DEF Typed, TypeOK, RunState
  <2>3. run' \in [Workers -> RunState]
    <3> DEFINE page == Page(UnmatchedIn(run[w].window), run[w].offset)
               r == [run[w] EXCEPT !.todo = page, !.offset = @ + BatchSize]
    <3>1. run[w] \in RunState
      BY DEF Typed, TypeOK
    <3>2. r \in RunState
      BY <2>1, <2>2, <3>1 DEF RunState
    <3>3. run' = [run EXCEPT ![w] = r]
      BY <1>3, Zenon DEF ReadBatch
    <3> HIDE DEF r
    <3> QED
      BY <3>2, <3>3 DEF Typed, TypeOK
  <2> QED
    BY <1>3, <2>3 DEF ReadBatch, Goto, ledger, Typed, TypeOK, QueryLeft
<1>4. ASSUME ScanOneToOne(w) \/ ScanGroup(w) PROVE Typed'
  BY <1>4, ScanTyped
<1>5. ASSUME Apply(w) PROVE Typed'
  BY <1>5, ApplyTyped
<1> QED
  BY <1>1, <1>2, <1>3, <1>4, <1>5 DEF Run

\* The client's answer to a suggestion.
LEMMA AnswerTyped ==
  ASSUME Typed, NEW w \in Workers, NEW kind \in {"user_confirmed", "rejected"},
         NEW matched \in {0, 1}, NEW counterpart \in Banks \cup {None},
         Answer(w, kind, matched, counterpart)
  PROVE  Typed'
<1> DEFINE row == req[w].row
           b == req[w].bank
           new == [row EXCEPT !.matched = matched, !.status = kind]
           ev == [decision |-> kind, legs |-> row.ev.legs]
<1>1. row \in BankState /\ req[w].copy \in [Legs -> LegState]
  BY DEF Typed, TypeOK, ReqState
<1>2. bank' \in [Banks -> BankState]
  <2>1. ev \in Evidence
    BY <1>1 DEF BankState, Evidence, Decision
  <2>2. new \in BankState
    BY <1>1 DEF BankState, BankStatus
  <2>3. bank' = [bank EXCEPT ![b] = [OrmWrite(@, row, new) EXCEPT !.ev = ev]]
    BY DEF Answer
  <2> HIDE DEF row, b, new, ev
  <2>4. b \in Banks => OrmWrite(bank[b], row, new) \in BankState
    BY <2>2, OrmWriteType DEF Typed, TypeOK
  <2>5. b \in Banks => [OrmWrite(bank[b], row, new) EXCEPT !.ev = ev] \in BankState
    BY <2>1, <2>4 DEF BankState
  <2> QED
    BY <2>3, <2>5 DEF Typed, TypeOK
<1>3. leg' \in [Legs -> LegState]
  <2> DEFINE newLeg(p) == [req[w].copy[p] EXCEPT !.matched = matched, !.status = kind,
                                                 !.bank = counterpart]
             answered(p) == OrmWrite(leg[p], req[w].copy[p], newLeg(p))
  <2>1. \A p \in Legs : newLeg(p) \in LegState
    <3>1. kind \in LegStatus
      BY DEF LegStatus, BankStatus
    <3>2. SUFFICES ASSUME NEW p \in Legs PROVE newLeg(p) \in LegState
      OBVIOUS
    <3>3. req[w].copy[p] \in LegState
      BY <1>1
    <3> HIDE DEF row
    <3> QED
      BY <3>1, <3>3 DEF LegState
  <2>2. leg \in [Legs -> LegState]
    BY DEF Typed, TypeOK
  <2>3. leg' = [p \in Legs |-> IF p \in row.ev.legs THEN answered(p) ELSE leg[p]]
    BY DEF Answer
  <2> HIDE DEF row, newLeg
  <2>4. \A p \in Legs : answered(p) \in LegState
    BY <2>1, <2>2, OrmWriteType
  <2> HIDE DEF answered
  <2> QED
    BY <2>2, <2>3, <2>4
<1> QED
  BY <1>2, <1>3, ReturnTyped DEF Answer, Typed, TypeOK

\* Every step of a client's request keeps the state well typed.
LEMMA ClientTyped ==
  ASSUME Typed, NEW w \in Workers, Client(w)
  PROVE  Typed'
<1>0. /\ req[w] \in ReqState /\ req \in [Workers -> ReqState]
      /\ req[w].bank \in Banks \cup {None} /\ None \in Banks \cup {None}
  BY DEF Typed, TypeOK, ReqState
<1>1. ASSUME NEW b \in Banks, NEW kind \in {"user_confirmed", "rejected"},
             ReadSuggestion(w, b, kind)
      PROVE  Typed'
  <2> DEFINE r == [req[w] EXCEPT !.kind = kind, !.bank = b, !.row = bank[b]]
  <2>1. r \in ReqState
    <3>1. bank[b] \in BankState
      BY DEF Typed, TypeOK
    <3> QED
      BY <1>0, <3>1 DEF ReqState
  <2>2. req' = [req EXCEPT ![w] = r]
    BY <1>1, Zenon DEF ReadSuggestion
  <2> HIDE DEF r
  <2>3. req' \in [Workers -> ReqState]
    BY <1>0, <2>1, <2>2
  <2>4. /\ started' = started + 1 /\ pc' = [pc EXCEPT ![w] = "answer"]
        /\ UNCHANGED <<bank, leg, terms, disputes, closes, run>>
    BY <1>1 DEF ReadSuggestion, Goto, ledger
  <2>5. QueryLeft'
    BY <2>2, <2>4 DEF Typed, TypeOK, QueryLeft
  <2> QED
    BY <2>3, <2>4, <2>5 DEF Typed, TypeOK
<1>2. CASE ConfirmSuggestion(w)
  BY <1>0, <1>2, AnswerTyped DEF ConfirmSuggestion
<1>3. CASE RejectSuggestion(w)
  BY <1>0, <1>3, AnswerTyped DEF RejectSuggestion
<1>4. ASSUME NEW window \in Periods, StartClose(w, window) PROVE Typed'
  <2> DEFINE r == [req[w] EXCEPT !.kind = "close", !.window = window]
  <2>1. r \in ReqState
    <3>1. window \in SUBSET Banks
      BY LedgerAssumption
    <3> QED
      BY <1>0, <3>1 DEF ReqState
  <2>2. req' = [req EXCEPT ![w] = r]
    BY <1>4, Zenon DEF StartClose
  <2>4. /\ started' = started + 1 /\ pc' = [pc EXCEPT ![w] = "count"]
        /\ UNCHANGED <<bank, leg, terms, disputes, closes, run>>
    BY <1>4 DEF StartClose, Goto, ledger
  <2> HIDE DEF r
  <2>5. req' \in [Workers -> ReqState]
    BY <1>0, <2>1, <2>2
  <2>6. req[w].next = 1 /\ r.next = 1
    <3>1. pc[w] = "idle"
      BY <1>4, Zenon DEF StartClose, MayStart
    <3>2. req[w].next = 1
      BY <3>1 DEF Typed, QueryLeft
    <3> QED
      BY <1>0, <3>2 DEF ReqState, r
  <2>7. QueryLeft'
    BY <1>0, <2>2, <2>4, <2>6 DEF Typed, TypeOK, QueryLeft
  <2>8. TypeOK'
    <3>1. /\ started' \in Nat
          /\ pc' \in [Workers -> {"idle", "read", "batch", "scan", "apply", "answer", "count", "sign"}]
      BY <2>4 DEF Typed, TypeOK
    <3> QED
      BY <2>4, <2>5, <3>1 DEF Typed, TypeOK
  <2> QED
    BY <2>7, <2>8 DEF Typed
<1>5. CASE CountRows(w)
  <2> DEFINE query == CloseQueries[req[w].next]
             counted == Cardinality({b \in req[w].window : bank[b].there /\ Counted(query, b)})
             r == [req[w] EXCEPT !.tally[query] = counted, !.next = @ + 1]
  <2>1. pc[w] = "count" /\ req[w].next \in 1..5
    <3>1. pc[w] = "count"
      BY <1>5, Zenon DEF CountRows
    <3> QED
      BY <3>1 DEF Typed, QueryLeft
  <2>2. counted \in Nat
    <3>1. {b \in req[w].window : bank[b].there /\ Counted(query, b)} \subseteq Banks
      BY <1>0 DEF ReqState
    <3> QED
      BY <3>1, CountType
  <2>3. r \in ReqState /\ r.next = req[w].next + 1
    <3> HIDE DEF query, counted
    <3> DEFINE tally == [req[w].tally EXCEPT ![query] = counted]
    <3>1. tally \in [CloseQuery -> Nat]
      BY <1>0, <2>2 DEF ReqState
    <3>2. r = [req[w] EXCEPT !.tally = tally, !.next = req[w].next + 1]
      BY <1>0 DEF ReqState
    <3> HIDE DEF tally, r
    <3>3. req[w].next + 1 \in 1..6
      BY <2>1
    <3> QED
      BY <1>0, <3>1, <3>2, <3>3 DEF ReqState
  <2>4. /\ req' = [req EXCEPT ![w] = r]
        /\ pc' = [pc EXCEPT ![w] = IF req[w].next = 5 THEN "sign" ELSE "count"]
        /\ UNCHANGED <<bank, leg, disputes, closes, terms, run, started>>
    <3>1. Len(CloseQueries) = 5
      BY DEF CloseQueries
    <3> QED
      BY <1>5, <3>1, Zenon DEF CountRows, Goto, ledger
  <2> HIDE DEF query, counted, r
  <2>5. req' \in [Workers -> ReqState]
    BY <1>0, <2>3, <2>4
  <2>6. QueryLeft'
    BY <1>0, <2>1, <2>3, <2>4 DEF Typed, TypeOK, QueryLeft
  <2> QED
    BY <2>4, <2>5, <2>6 DEF Typed, TypeOK
<1>6. CASE RefuseClose(w)
  BY <1>6, ReturnTyped DEF RefuseClose, ledger, Typed, TypeOK
<1>7. CASE SignClose(w)
  <2>1. PICK open \in BOOLEAN :
          closes' = Append(closes, [window |-> req[w].window, open |-> open,
                                    tally |-> req[w].tally])
    BY <1>7 DEF SignClose
  <2>2. [window |-> req[w].window, open |-> open, tally |-> req[w].tally] \in Close
    BY <1>0 DEF ReqState, Close
  <2>3. closes' \in Seq(Close)
    BY <2>1, <2>2, AppendProperties DEF Typed, TypeOK
  <2> QED
    BY <1>7, <2>3, ReturnTyped DEF SignClose, Typed, TypeOK
<1>8. ASSUME NEW p \in Legs, ReadLeg(w, p) PROVE Typed'
  <2> DEFINE copy == [req[w].copy EXCEPT ![p] = leg[p]]
             read == req[w].read \cup {p}
             r == [req[w] EXCEPT !.copy = copy, !.read = read, !.flushed = req[w].read]
  <2>1. r \in ReqState
    <3>1. copy \in [Legs -> LegState] /\ read \in SUBSET Legs /\ req[w].read \in SUBSET Legs
      BY <1>0 DEF Typed, TypeOK, ReqState
    <3> HIDE DEF copy, read
    <3> QED
      BY <1>0, <3>1 DEF ReqState
  <2>2. req' = [req EXCEPT ![w] = r]
    <3>1. req' = [req EXCEPT ![w].copy[p] = leg[p], ![w].read = read, ![w].flushed = req[w].read]
      BY <1>8, Zenon DEF ReadLeg
    <3> HIDE DEF read
    <3> QED
      BY <1>0, <3>1 DEF ReqState
  <2>3. r.next = req[w].next
    BY <1>0 DEF ReqState
  <2> HIDE DEF r
  <2>4. req' \in [Workers -> ReqState]
    BY <1>0, <2>1, <2>2
  <2>5. /\ pc' = [pc EXCEPT ![w] = "answer"]
        /\ UNCHANGED <<bank, leg, terms, disputes, closes, run, started>>
    BY <1>8, Zenon DEF ReadLeg, Goto, ledger
  <2>6. QueryLeft'
    BY <1>0, <2>2, <2>3, <2>5 DEF Typed, TypeOK, QueryLeft
  <2> QED
    BY <2>4, <2>5, <2>6 DEF Typed, TypeOK
<1> QED
  BY <1>1, <1>2, <1>3, <1>4, <1>5, <1>6, <1>7, <1>8 DEF Client

\* Typed is inductive.
LEMMA NextTyped == Typed /\ [Next]_vars => Typed'
<1> SUFFICES ASSUME Typed, [Next]_vars PROVE Typed'
  OBVIOUS
<1>1. CASE Environment
  BY <1>1, EnvironmentTyped
<1>2. ASSUME NEW w \in Workers, Run(w) PROVE Typed'
  BY <1>2, RunTyped
<1>3. ASSUME NEW w \in Workers, Client(w) PROVE Typed'
  BY <1>3, ClientTyped
<1>4. ASSUME NEW w \in Workers, Abort(w) PROVE Typed'
  BY <1>4, ReturnTyped DEF Abort, ledger, Typed, TypeOK
<1>5. CASE UNCHANGED vars
  BY <1>5 DEF vars, Typed, TypeOK, QueryLeft
<1> QED
  BY <1>1, <1>2, <1>3, <1>4, <1>5 DEF Next

\* Typed holds in every reachable state.
LEMMA AlwaysTyped == Spec => []Typed
<1>1. Init => Typed
  BY InitTyped
<1>2. Typed /\ [Next]_vars => Typed'
  BY NextTyped
<1> QED
  BY <1>1, <1>2, PTL DEF Spec

\* Every reachable ledger is well formed: the columns hold values of their
\* domains, stamps are those of apply_contract_recalc, plans name rows.
THEOREM TypeCorrect == Spec => []TypeOK
<1>1. Typed => TypeOK
  BY DEF Typed
<1> QED
  BY <1>1, AlwaysTyped, PTL

\* The actions that write rows: everything else only reads the ledger.
LEMMA RowWriters ==
  ASSUME [Next]_vars
  PROVE  \/ UNCHANGED <<bank, leg>>
         \/ \E b \in Banks : ArriveBank(b)
         \/ \E p \in Legs : ArriveLeg(p)
         \/ \E w \in Workers : \E window \in Windows : StartRun(w, window)
         \/ \E w \in Workers : Apply(w) \/ ConfirmSuggestion(w) \/ RejectSuggestion(w)
<1>1. CASE Environment
  BY <1>1 DEF Environment, SyncContract
<1>2. ASSUME NEW w \in Workers, Run(w)
      PROVE  \/ UNCHANGED <<bank, leg>>
             \/ \E window \in Windows : StartRun(w, window)
             \/ Apply(w)
  <2>1. ScanOneToOne(w) => UNCHANGED <<bank, leg>>
    <3>1. \A b, legs, blocks : Confirmed(w, b, legs, blocks) \/ Suggested(w, b, legs, blocks)
                                 => UNCHANGED <<bank, leg>>
      BY SMTT(30) DEF Confirmed, Suggested, Scanned, ledger
    <3> QED
      BY <3>1, Zenon DEF ScanOneToOne
  <2>2. ScanGroup(w) => UNCHANGED <<bank, leg>>
    BY DEF ScanGroup, Confirmed, Suggested, Undecided, Scanned, ledger
  <2> QED
    BY <1>2, <2>1, <2>2 DEF Run, ReadLegs, ReadBatch, ledger
<1>3. ASSUME NEW w \in Workers, Client(w)
      PROVE  UNCHANGED <<bank, leg>> \/ ConfirmSuggestion(w) \/ RejectSuggestion(w)
  BY <1>3 DEF Client, ReadSuggestion, ReadLeg, StartClose, CountRows, RefuseClose, SignClose, ledger
<1>4. ASSUME NEW w \in Workers, Abort(w) PROVE UNCHANGED <<bank, leg>>
  BY <1>4 DEF Abort, ledger
<1>5. CASE UNCHANGED vars
  BY <1>5 DEF vars
<1> QED
  BY <1>1, <1>2, <1>3, <1>4, <1>5 DEF Next

(***************************************************************************)
(* The bank side.  A client's answer writes only the columns that differ     *)
(* from the row it loaded, so the argument needs what was loaded: an open    *)
(* row with matched = 0, which is what the guard on match_status admits only *)
(* because an open row is never matched.  A rejected row may be.             *)
(***************************************************************************)
OpenStatus == {"suggested", "pending", "contractual_discrepancy"}

Sound(row) == /\ row.status \in Settled => row.matched = 1
              /\ row.status \in OpenStatus => row.matched = 0

RowsSound == \A b \in Banks : Sound(bank[b])

AnswersOpenRow ==
  \A w \in Workers : pc[w] = "answer" =>
    req[w].row.status \in {"suggested", "pending"} /\ req[w].row.matched = 0

RowsInv == RowsSound /\ AnswersOpenRow

\* The UPDATEs of a plan write status and matched together.
LEMMA PutBanksSound ==
  ASSUME NEW rows \in [Banks -> BankState], NEW plan, NEW b \in Banks, Sound(rows[b])
  PROVE  /\ Sound(PutBanks(rows, plan, 1, "confirmed")[b])
         /\ Sound(PutBanks(rows, plan, 0, "suggested")[b])
BY DEF PutBanks, BankState, Sound, Settled, OpenStatus

\* The commit of a run leaves every bank row sound: the contractual mark, which
\* writes the status alone, spares the rows the client has settled.
LEMMA ApplySound ==
  ASSUME Typed, RowsSound, NEW w \in Workers, Apply(w)
  PROVE  RowsSound'
<1> DEFINE confirmed == PutBanks(bank, run[w].conf, 1, "confirmed")
           suggested == PutBanks(confirmed, run[w].sugg, 0, "suggested")
<1>1. run[w].conf \in Seq(Entry) /\ run[w].sugg \in Seq(Entry) /\ bank \in [Banks -> BankState]
  BY DEF Typed, TypeOK, RunState
<1>2. confirmed \in [Banks -> BankState] /\ \A b \in Banks : Sound(confirmed[b])
  BY <1>1, PutBanksType, PutBanksSound DEF RowsSound
<1>3. suggested \in [Banks -> BankState] /\ \A b \in Banks : Sound(suggested[b])
  <2> HIDE DEF confirmed
  <2> QED
    BY <1>1, <1>2, PutBanksType, PutBanksSound
<1>4. bank' = MarkBanks(suggested, run[w].blocks)
  BY DEF Apply
<1> HIDE DEF suggested
<1> QED
  BY <1>3, <1>4 DEF MarkBanks, Disputed, BankState, RowsSound, Sound, Settled, OpenStatus

\* OrmWrite over an open row: an answer writes the status, matched when it is a
\* confirmation, and the evidence it read.
LEMMA AnswerWrites ==
  ASSUME Typed, AnswersOpenRow, NEW w \in Workers, NEW kind \in {"user_confirmed", "rejected"},
         NEW matched \in {0, 1}, NEW counterpart, Answer(w, kind, matched, counterpart)
  PROVE  LET b == req[w].bank
         IN  /\ \A c \in Banks \ {b} : bank'[c] = bank[c]
             /\ b \in Banks => /\ bank'[b].status = kind
                               /\ matched = 1 => bank'[b].matched = 1
                               /\ bank'[b].ev.legs = req[w].row.ev.legs
<1> DEFINE b == req[w].bank
           row == req[w].row
           new == [row EXCEPT !.matched = matched, !.status = kind]
           ev == [decision |-> kind, legs |-> row.ev.legs]
<1>1. bank \in [Banks -> BankState] /\ row \in BankState
  BY DEF Typed, TypeOK, ReqState
<1>2. bank' = [bank EXCEPT ![b] = [OrmWrite(@, row, new) EXCEPT !.ev = ev]]
  BY DEF Answer
<1>3. row.status \in {"suggested", "pending"} /\ row.matched = 0
  BY DEF Answer, AnswersOpenRow
<1>4. new.matched = matched /\ new.status = kind /\ ev.legs = row.ev.legs
  BY <1>1 DEF BankState
<1> HIDE DEF new, ev, row, b
<1>5. ASSUME b \in Banks
      PROVE  /\ bank'[b].status = kind /\ bank'[b].ev = ev
             /\ matched = 1 => bank'[b].matched = 1
  <2> DEFINE written == OrmWrite(bank[b], row, new)
  <2>1. DOMAIN bank[b] = {"there", "matched", "status", "ev"}
    BY <1>1, <1>5 DEF BankState
  <2>2. /\ written = [c \in {"there", "matched", "status", "ev"} |-> written[c]]
        /\ written.status = kind
        /\ matched = 1 => written.matched = 1
    BY <1>3, <1>4, <2>1 DEF OrmWrite
  <2> HIDE DEF written
  <2>3. bank'[b] = [written EXCEPT !.ev = ev]
    BY <1>1, <1>2, <1>5 DEF written
  <2> QED
    BY <2>2, <2>3
<1>6. \A c \in Banks \ {b} : bank'[c] = bank[c]
  BY <1>1, <1>2
<1>7. /\ \A c \in Banks \ {b} : bank'[c] = bank[c]
      /\ b \in Banks => /\ bank'[b].status = kind
                        /\ matched = 1 => bank'[b].matched = 1
                        /\ bank'[b].ev.legs = row.ev.legs
  BY <1>4, <1>5, <1>6
<1> QED
  BY <1>7 DEF b, row

\* So it leaves every bank row sound.
LEMMA AnswerSound ==
  ASSUME Typed, RowsInv, NEW w \in Workers, ConfirmSuggestion(w) \/ RejectSuggestion(w)
  PROVE  RowsSound'
<1>1. PICK kind, matched, counterpart :
        /\ Answer(w, kind, matched, counterpart)
        /\ (kind = "user_confirmed" /\ matched = 1) \/ (kind = "rejected" /\ matched = 0)
  BY DEF ConfirmSuggestion, RejectSuggestion
<1>2. kind \in {"user_confirmed", "rejected"} /\ matched \in {0, 1}
  BY <1>1
<1>3. \A c \in Banks : \/ bank'[c] = bank[c]
                       \/ bank'[c].status = kind /\ (matched = 1 => bank'[c].matched = 1)
  BY <1>1, <1>2, AnswerWrites DEF RowsInv
<1> QED
  BY <1>1, <1>3 DEF RowsInv, RowsSound, Sound, Settled, OpenStatus

\* No step leaves a bank row that is counted as confirmed and not matched.
LEMMA RowsSoundStep ==
  ASSUME Typed, RowsInv, [Next]_vars
  PROVE  RowsSound'
<1>1. CASE UNCHANGED bank
  BY <1>1 DEF RowsInv, RowsSound
<1>2. ASSUME NEW b \in Banks, ArriveBank(b) PROVE RowsSound'
  BY <1>2 DEF ArriveBank, Typed, TypeOK, BankState, RowsInv, RowsSound, Sound
<1>3. ASSUME NEW w \in Workers, Apply(w) PROVE RowsSound'
  BY <1>3, ApplySound DEF RowsInv
<1>4. ASSUME NEW w \in Workers, ConfirmSuggestion(w) \/ RejectSuggestion(w) PROVE RowsSound'
  BY <1>4, AnswerSound
<1>5. ASSUME NEW p \in Legs, ArriveLeg(p) PROVE UNCHANGED bank
  BY <1>5 DEF ArriveLeg
<1>6. ASSUME NEW w \in Workers, NEW window \in Windows, StartRun(w, window) PROVE UNCHANGED bank
  BY <1>6 DEF StartRun
<1> QED
  BY <1>1, <1>2, <1>3, <1>4, <1>5, <1>6, RowWriters

\* Only ReadSuggestion brings a worker to "answer", and it loads an open row.
LEMMA AnswersOpenRowStep ==
  ASSUME Typed, RowsInv, [Next]_vars
  PROVE  AnswersOpenRow'
<1>0. pc \in [Workers -> {"idle", "read", "batch", "scan", "apply", "answer", "count", "sign"}]
      /\ req \in [Workers -> ReqState]
  BY DEF Typed, TypeOK
<1> DEFINE Kept(v) == pc'[v] = "answer" => pc[v] = "answer" /\ req'[v].row = req[v].row
<1>1. ASSUME NEW v \in Workers, NEW b \in Banks, NEW kind, ReadSuggestion(v, b, kind)
      PROVE  AnswersOpenRow'
  <2>1. bank[b].status \in {"suggested", "pending"} /\ bank[b].matched = 0
    BY <1>1 DEF ReadSuggestion, RowsInv, RowsSound, Sound, OpenStatus
  <2>2. req'[v].row = bank[b]
    BY <1>0, <1>1 DEF ReadSuggestion, ReqState
  <2>3. \A u \in Workers \ {v} : Kept(u)
    BY <1>0, <1>1 DEF ReadSuggestion, Goto
  <2> QED
    BY <2>1, <2>2, <2>3 DEF RowsInv, AnswersOpenRow
<1>2. ASSUME \A v \in Workers : Kept(v) PROVE AnswersOpenRow'
  BY <1>2 DEF RowsInv, AnswersOpenRow
<1>3. ASSUME NEW v \in Workers, Return(v) PROVE \A u \in Workers : Kept(u)
  BY <1>0, <1>3 DEF Return, Goto
<1>4. ASSUME NEW v \in Workers, NEW l, l # "answer", Goto(v, l),
             \A u \in Workers \ {v} : req'[u] = req[u]
      PROVE  \A u \in Workers : Kept(u)
  BY <1>0, <1>4 DEF Goto
<1>5. CASE Environment
  BY <1>2, <1>5 DEF Environment, ArriveBank, ArriveLeg, SyncContract
<1>6. ASSUME NEW v \in Workers, Run(v) PROVE AnswersOpenRow'
  <2>1. \A window : StartRun(v, window) => Goto(v, "read") /\ req' = req
    BY DEF StartRun
  <2>2. ReadLegs(v) => (Goto(v, "apply") \/ Goto(v, "batch")) /\ req' = req
    BY DEF ReadLegs
  <2>3. ReadBatch(v) => (Goto(v, "apply") \/ Goto(v, "scan")) /\ req' = req
    BY DEF ReadBatch
  <2>4. \A b, conf, sugg, blocks, used : Scanned(v, b, conf, sugg, blocks, used) =>
          (Goto(v, "scan") \/ Goto(v, "batch") \/ Goto(v, "apply")) /\ req' = req
    BY DEF Scanned
  <2>5. ScanOneToOne(v) \/ ScanGroup(v) =>
          (Goto(v, "scan") \/ Goto(v, "batch") \/ Goto(v, "apply")) /\ req' = req
    BY <2>4, Zenon DEF ScanOneToOne, ScanGroup, Confirmed, Suggested, Undecided
  <2>6. Apply(v) => Return(v)
    BY DEF Apply
  <2> HIDE DEF Kept
  <2> QED
    BY <1>2, <1>3, <1>4, <1>6, <2>1, <2>2, <2>3, <2>5, <2>6 DEF Run
<1>7. ASSUME NEW v \in Workers, Client(v) PROVE AnswersOpenRow'
  <2>1. ConfirmSuggestion(v) \/ RejectSuggestion(v) \/ RefuseClose(v) \/ SignClose(v) => Return(v)
    BY DEF ConfirmSuggestion, RejectSuggestion, Answer, RefuseClose, SignClose
  <2>2. \A window : StartClose(v, window) =>
          Goto(v, "count") /\ \A u \in Workers \ {v} : req'[u] = req[u]
    BY <1>0 DEF StartClose
  <2>3. CountRows(v) =>
          (Goto(v, "count") \/ Goto(v, "sign")) /\ \A u \in Workers \ {v} : req'[u] = req[u]
    BY <1>0 DEF CountRows
  <2>4. \A p : ReadLeg(v, p) => \A u \in Workers : Kept(u)
    <3>1. SUFFICES ASSUME NEW p, ReadLeg(v, p) PROVE \A u \in Workers : Kept(u)
      OBVIOUS
    <3>2. /\ pc[v] = "answer" /\ Goto(v, "answer")
          /\ req' = [req EXCEPT ![v].copy[p] = leg[p], ![v].read = req[v].read \cup {p},
                                ![v].flushed = req[v].read]
      BY <3>1, Zenon DEF ReadLeg
    <3> QED
      BY <1>0, <3>2 DEF Goto, ReqState
  <2> HIDE DEF Kept
  <2> QED
    BY <1>1, <1>2, <1>3, <1>4, <1>7, <2>1, <2>2, <2>3, <2>4 DEF Client
<1>8. ASSUME NEW v \in Workers, Abort(v) PROVE AnswersOpenRow'
  BY <1>2, <1>3, <1>8 DEF Abort
<1>9. CASE UNCHANGED vars
  BY <1>2, <1>9 DEF vars
<1> QED
  BY <1>5, <1>6, <1>7, <1>8, <1>9 DEF Next

\* Whatever operations overlap, a bank row counted as confirmed is matched:
\* neither a suggestion committed over a confirmation, nor a rejection written
\* from an old copy of the row, nor the mark of a dispute leaves it counted.
THEOREM RowsCounted == Spec => []CountedRowsAreMatched
<1>1. Init => RowsInv
  BY DEF Init, NewBank, RowsInv, RowsSound, AnswersOpenRow, Sound, Settled, OpenStatus
<1>2. Typed /\ RowsInv /\ [Next]_vars => RowsInv'
  BY RowsSoundStep, AnswersOpenRowStep DEF RowsInv
<1>3. RowsInv => CountedRowsAreMatched
  BY DEF RowsInv, RowsSound, Sound, CountedRowsAreMatched
<1> QED
  BY <1>1, <1>2, <1>3, AlwaysTyped, PTL DEF Spec

(***************************************************************************)
(* The plan of a run: used_prov_ids holds every leg a confirmation of the    *)
(* plan takes, and the candidates of the next row are not among them.        *)
(***************************************************************************)
PlanWithinUsed ==
  \A w \in Workers : \A i \in DOMAIN run[w].conf : run[w].conf[i].legs \subseteq run[w].used

PlanInv == PlanWithinUsed /\ PlanUsesLegOnce

\* What a step may do to the plan of a run.
Keeps(w) == run'[w].conf = run[w].conf /\ run[w].used \subseteq run'[w].used

Extends(w) ==
  \E b \in Banks : \E legs \in SUBSET Free(run[w]) :
    /\ run'[w].conf = Append(run[w].conf, [bank |-> b, legs |-> legs])
    /\ run'[w].used = run[w].used \cup legs

\* Steps that leave a run's plan and used legs alone keep PlanInv.
LEMMA KeptPlans ==
  ASSUME PlanInv,
         \A w \in Workers : Keeps(w) \/ run'[w].conf = <<>>
  PROVE  PlanInv'
BY DEF PlanInv, PlanWithinUsed, PlanUsesLegOnce, Keeps

\* One more entry of unused legs, all of them used from now on.
LEMMA ExtendedPlan ==
  ASSUME Typed, PlanInv, NEW w \in Workers, Extends(w),
         \A v \in Workers \ {w} : run'[v] = run[v]
  PROVE  PlanInv'
<1>1. PICK b \in Banks, legs \in SUBSET Free(run[w]) :
        /\ run'[w].conf = Append(run[w].conf, [bank |-> b, legs |-> legs])
        /\ run'[w].used = run[w].used \cup legs
  BY DEF Extends
<1>2. run[w].conf \in Seq(Entry) /\ legs \in SUBSET Legs /\ legs \cap run[w].used = {}
  <2>1. legs \in SUBSET Legs
    BY FreeLegs
  <2> QED
    BY <2>1 DEF Typed, TypeOK, RunState, Free
<1>3. [bank |-> b, legs |-> legs] \in Entry
  BY <1>2 DEF Entry
<1> DEFINE n == Len(run[w].conf)
<1>4. /\ n \in Nat /\ DOMAIN run[w].conf = 1..n
      /\ DOMAIN run'[w].conf = 1..(n + 1)
      /\ run'[w].conf[n + 1].legs = legs
      /\ \A i \in 1..n : run'[w].conf[i] = run[w].conf[i]
  BY <1>1, <1>2, <1>3, AppendProperties, LenProperties
<1>5. \A i \in 1..n : run[w].conf[i].legs \subseteq run[w].used
  BY <1>4 DEF PlanInv, PlanWithinUsed
<1>6. \A i, j \in 1..n : i # j => run[w].conf[i].legs \cap run[w].conf[j].legs = {}
  BY <1>4 DEF PlanInv, PlanUsesLegOnce
<1> HIDE DEF n
<1>7. \A i \in 1..(n + 1) : i \in 1..n \/ i = n + 1
  BY <1>4
<1>8. \A i \in 1..(n + 1) : run'[w].conf[i].legs \subseteq run'[w].used
  BY <1>1, <1>4, <1>5, <1>7
<1>9. \A i, j \in 1..(n + 1) : i # j => run'[w].conf[i].legs \cap run'[w].conf[j].legs = {}
  BY <1>2, <1>4, <1>5, <1>6, <1>7
<1> QED
  BY <1>4, <1>8, <1>9 DEF PlanInv, PlanWithinUsed, PlanUsesLegOnce

\* The decision on a row extends the plan of one run only.
LEMMA ScannedPlan ==
  ASSUME Typed, NEW w \in Workers, NEW b \in Banks, NEW legs \in SUBSET Free(run[w]), NEW blocks,
         \/ Confirmed(w, b, legs, blocks)
         \/ Suggested(w, b, legs, blocks)
         \/ Undecided(w, b, blocks)
  PROVE  /\ Keeps(w) \/ Extends(w)
         /\ \A v \in Workers \ {w} : run'[v] = run[v]
<1>0. run \in [Workers -> RunState]
  BY DEF Typed, TypeOK
<1>1. ASSUME NEW conf, NEW sugg, NEW used, Scanned(w, b, conf, sugg, blocks, used)
      PROVE  /\ run'[w].conf = conf /\ run'[w].used = run[w].used \cup used
             /\ \A v \in Workers \ {w} : run'[v] = run[v]
  BY <1>0, <1>1 DEF Scanned, RunState
<1>2. CASE Confirmed(w, b, legs, blocks)
  BY <1>1, <1>2 DEF Confirmed, Extends
<1>3. CASE Suggested(w, b, legs, blocks)
  BY <1>1, <1>3 DEF Suggested, Keeps
<1>4. CASE Undecided(w, b, blocks)
  BY <1>1, <1>4 DEF Undecided, Keeps
<1> QED
  BY <1>2, <1>3, <1>4

\* Both passes confirm legs that were free, and use them.
LEMMA ScanPlan ==
  ASSUME Typed, PlanInv, NEW w \in Workers, ScanOneToOne(w) \/ ScanGroup(w)
  PROVE  PlanInv'
<1>1. run[w].todo \subseteq Banks
  BY DEF Typed, TypeOK, RunState
<1>2. PICK b \in Banks : \E legs \in SUBSET Free(run[w]) : \E blocks :
        \/ Confirmed(w, b, legs, blocks)
        \/ Suggested(w, b, legs, blocks)
        \/ Undecided(w, b, blocks)
  <2>1. CASE ScanOneToOne(w)
    <3>1. PICK b \in run[w].todo : \E p \in Candidates(run[w], b) : \E blocks :
            Confirmed(w, b, {p}, blocks) \/ Suggested(w, b, {p}, blocks)
      BY <2>1, Zenon DEF ScanOneToOne
    <3>2. \A p \in Candidates(run[w], b) : {p} \in SUBSET Free(run[w])
      BY DEF Candidates
    <3> QED
      BY <1>1, <3>1, <3>2, Zenon
  <2>2. CASE ScanGroup(w)
    <3>1. PICK b \in run[w].todo : \E blocks :
            \/ Confirmed(w, b, GroupOf(run[w], b), blocks)
            \/ Suggested(w, b, GroupOf(run[w], b), blocks)
            \/ Undecided(w, b, blocks)
      BY <2>2, Zenon DEF ScanGroup
    <3>2. GroupOf(run[w], b) \in SUBSET Free(run[w])
      BY DEF GroupOf
    <3> QED
      BY <1>1, <3>1, <3>2, Zenon
  <2> QED
    BY <2>1, <2>2
<1>3. (Keeps(w) \/ Extends(w)) /\ \A v \in Workers \ {w} : run'[v] = run[v]
  BY <1>2, ScannedPlan
<1>4. CASE Extends(w)
  BY <1>3, <1>4, ExtendedPlan
<1>5. CASE Keeps(w)
  BY <1>3, <1>5, KeptPlans DEF Keeps
<1> QED
  BY <1>3, <1>4, <1>5

\* PlanInv is inductive.
LEMMA PlanStep ==
  ASSUME Typed, PlanInv, [Next]_vars
  PROVE  PlanInv'
<1>0. run \in [Workers -> RunState]
  BY DEF Typed, TypeOK
<1>1. ASSUME UNCHANGED run PROVE PlanInv'
  BY <1>1, KeptPlans DEF Keeps
<1>2. ASSUME NEW w \in Workers, Return(w) PROVE PlanInv'
  BY <1>0, <1>2, KeptPlans DEF Return, NoRun, Keeps
<1>3. ASSUME NEW w \in Workers, Run(w) PROVE PlanInv'
  <2>1. ASSUME NEW window, StartRun(w, window) PROVE PlanInv'
    <3>1. \A v \in Workers : Keeps(v)
      BY <1>0, <2>1 DEF StartRun, Keeps, RunState
    <3> QED
      BY <3>1, KeptPlans
  <2>2. ASSUME ReadLegs(w) PROVE PlanInv'
    <3>0. PICK rank, stamp, count :
            run' = [run EXCEPT ![w].rank = rank, ![w].stamp = stamp, ![w].count = count]
      BY <2>2, Zenon DEF ReadLegs
    <3>1. \A v \in Workers : Keeps(v)
      BY <1>0, <3>0 DEF Keeps, RunState
    <3> QED
      BY <3>1, KeptPlans
  <2>3. ASSUME ReadBatch(w) PROVE PlanInv'
    <3>1. \A v \in Workers : Keeps(v)
      BY <1>0, <2>3 DEF ReadBatch, Keeps, RunState
    <3> QED
      BY <3>1, KeptPlans
  <2>4. ASSUME Apply(w) PROVE PlanInv'
    BY <1>2, <2>4 DEF Apply
  <2> QED
    BY <1>3, <2>1, <2>2, <2>3, <2>4, ScanPlan DEF Run
<1>4. ASSUME NEW w \in Workers, Client(w) PROVE PlanInv'
  <2>1. Return(w) \/ UNCHANGED run
    BY <1>4 DEF Client, ReadSuggestion, ReadLeg, ConfirmSuggestion, RejectSuggestion, Answer, StartClose,
                CountRows, RefuseClose, SignClose
  <2> QED
    BY <1>1, <1>2, <2>1
<1>5. CASE Environment
  BY <1>1, <1>5 DEF Environment, ArriveBank, ArriveLeg, SyncContract
<1>6. ASSUME NEW w \in Workers, Abort(w) PROVE PlanInv'
  BY <1>2, <1>6 DEF Abort
<1>7. CASE UNCHANGED vars
  BY <1>1, <1>7 DEF vars
<1> QED
  BY <1>3, <1>4, <1>5, <1>6, <1>7 DEF Next

\* Within one run no provider row pays for two bank rows, however its batches
\* interleave with what other handlers commit: used_prov_ids is respected.
THEOREM PlanTakesEachLegOnce == Spec => []PlanUsesLegOnce
<1>1. Init => PlanInv
  BY DEF Init, NoRun, PlanInv, PlanWithinUsed, PlanUsesLegOnce
<1>2. Typed /\ PlanInv /\ [Next]_vars => PlanInv'
  BY PlanStep
<1>3. PlanInv => PlanUsesLegOnce
  BY DEF PlanInv
<1> QED
  BY <1>1, <1>2, <1>3, AlwaysTyped, PTL DEF Spec

(***************************************************************************)
(* What a step does to the locals of the workers.  An idle worker has none,  *)
(* and a run has no row left to scan when it reads a page.                   *)
(***************************************************************************)
IdleLocals ==
  \A w \in Workers :
    /\ pc[w] = "idle" => run[w] = NoRun /\ req[w] = NoReq
    /\ pc[w] \in {"read", "batch"} => run[w].todo = {}

SamePlan(w) ==
  run'[w].todo = run[w].todo /\ run'[w].conf = run[w].conf /\ run'[w].sugg = run[w].sugg

\* What the decision on a row adds to the plans.
PlanGrows(w, b, e) ==
  /\ b \in run[w].todo /\ e.bank = b
  /\ \A p \in e.legs : Claims(b, p)
  /\ run'[w].todo = run[w].todo \ {b}
  /\ \/ run'[w].conf = run[w].conf /\ run'[w].sugg = run[w].sugg
     \/ run'[w].conf = Append(run[w].conf, e) /\ run'[w].sugg = run[w].sugg
     \/ run'[w].conf = run[w].conf /\ run'[w].sugg = Append(run[w].sugg, e)

\* The decision on a row is such a step of the plans.
LEMMA ScanGrows ==
  ASSUME Typed, NEW w \in Workers, ScanOneToOne(w) \/ ScanGroup(w)
  PROVE  /\ \E b, e : PlanGrows(w, b, e)
         /\ pc[w] = "scan" /\ pc'[w] \in {"scan", "batch", "apply"}
         /\ pc'[w] = "batch" => run'[w].todo = {}
         /\ UNCHANGED <<bank, leg, req>>
<1>0. /\ run[w] \in RunState /\ run \in [Workers -> RunState]
      /\ pc \in [Workers -> {"idle", "read", "batch", "scan", "apply", "answer", "count", "sign"}]
  BY DEF Typed, TypeOK
<1>1. PICK b, legs, blocks :
        /\ NextRow(w, b)
        /\ \/ Confirmed(w, b, legs, blocks)
           \/ Suggested(w, b, legs, blocks)
           \/ Undecided(w, b, blocks)
        /\ \A p \in legs : Claims(b, p)
  <2>1. CASE ScanOneToOne(w)
    <3>1. PICK b \in run[w].todo : \E p \in Candidates(run[w], b) : \E blocks :
            NextRow(w, b) /\ (Confirmed(w, b, {p}, blocks) \/ Suggested(w, b, {p}, blocks))
      BY <2>1, Zenon DEF ScanOneToOne
    <3>2. \A p \in Candidates(run[w], b) : Claims(b, p)
      BY DEF Candidates, Free, Claims
    <3> QED
      BY <3>1, <3>2
  <2>2. CASE ScanGroup(w)
    <3>1. PICK b, blocks :
            /\ NextRow(w, b)
            /\ \/ Confirmed(w, b, GroupOf(run[w], b), blocks)
               \/ Suggested(w, b, GroupOf(run[w], b), blocks)
               \/ Undecided(w, b, blocks)
      BY <2>2, Zenon DEF ScanGroup
    <3>2. \A p \in GroupOf(run[w], b) : Claims(b, p)
      BY DEF GroupOf, Free, Claims
    <3> QED
      BY <3>1, <3>2, Zenon
  <2> QED
    BY <2>1, <2>2
<1> DEFINE e == [bank |-> b, legs |-> legs]
<1>2. PICK conf, sugg, used :
        /\ Scanned(w, b, conf, sugg, blocks, used)
        /\ \/ conf = run[w].conf /\ sugg = run[w].sugg
           \/ conf = Append(run[w].conf, e) /\ sugg = run[w].sugg
           \/ conf = run[w].conf /\ sugg = Append(run[w].sugg, e)
  BY <1>1, Zenon DEF Confirmed, Suggested, Undecided
<1>3. run'[w].todo = run[w].todo \ {b} /\ run'[w].conf = conf /\ run'[w].sugg = sugg
  BY <1>0, <1>2 DEF Scanned, RunState
<1>4. e.bank = b /\ e.legs = legs
  OBVIOUS
<1>5. pc[w] = "scan" /\ b \in run[w].todo
  BY <1>1 DEF NextRow
<1> HIDE DEF e
<1>6. PlanGrows(w, b, e)
  BY <1>1, <1>2, <1>3, <1>4, <1>5 DEF PlanGrows
<1>7. pc'[w] = IF run[w].todo # {b} THEN "scan"
               ELSE IF run[w].offset < run[w].count THEN "batch" ELSE "apply"
  BY <1>0, <1>2 DEF Scanned, Goto
<1>8. UNCHANGED <<bank, leg, req>>
  BY <1>2 DEF Scanned, ledger
<1> QED
  BY <1>3, <1>5, <1>6, <1>7, <1>8

\* What one worker does leaves the locals of the others alone.
Others(w) == \A v \in Workers \ {w} : pc'[v] = pc[v] /\ run'[v] = run[v] /\ req'[v] = req[v]

\* A step of a worker returns, or it goes on with its run or with its request.
LEMMA WorkerSteps ==
  ASSUME Typed, NEW w \in Workers, Run(w) \/ Client(w) \/ Abort(w)
  PROVE  /\ Others(w)
         /\ \/ Return(w)
            \/ \E window : StartRun(w, window)
            \/ ReadLegs(w) \/ ReadBatch(w) \/ ScanOneToOne(w) \/ ScanGroup(w)
            \/ \E b \in Banks : \E kind : ReadSuggestion(w, b, kind)
            \/ \E p \in Legs : ReadLeg(w, p)
            \/ \E window \in Periods : StartClose(w, window)
            \/ CountRows(w)
<1>0. /\ pc \in [Workers -> {"idle", "read", "batch", "scan", "apply", "answer", "count", "sign"}]
      /\ run \in [Workers -> RunState] /\ req \in [Workers -> ReqState]
  BY DEF Typed, TypeOK
<1>1. ASSUME NEW l, Goto(w, l), \E r : run' = [run EXCEPT ![w] = r],
             \E q : req' = [req EXCEPT ![w] = q]
      PROVE  Others(w)
  BY <1>0, <1>1 DEF Goto, Others
<1>2. run = [run EXCEPT ![w] = run[w]] /\ req = [req EXCEPT ![w] = req[w]]
  BY <1>0
<1>3. ASSUME Return(w) PROVE Others(w)
  BY <1>1, <1>3 DEF Return
<1>4. ASSUME NEW window, StartRun(w, window) PROVE Others(w)
  BY <1>1, <1>2, <1>4 DEF StartRun
<1>5. ASSUME ReadLegs(w) PROVE Others(w)
  <2>1. \E r : run' = [run EXCEPT ![w] = r]
    BY <1>5, Zenon DEF ReadLegs
  <2>2. req' = req /\ \E l : Goto(w, l)
    BY <1>5 DEF ReadLegs
  <2> QED
    BY <1>1, <1>2, <2>1, <2>2
<1>6. ASSUME ReadBatch(w) PROVE Others(w)
  <2>1. \E r : run' = [run EXCEPT ![w] = r]
    BY <1>6, Zenon DEF ReadBatch
  <2>2. req' = req /\ \E l : Goto(w, l)
    BY <1>6 DEF ReadBatch
  <2> QED
    BY <1>1, <1>2, <2>1, <2>2
<1>7. ASSUME ScanOneToOne(w) \/ ScanGroup(w) PROVE Others(w)
  <2>1. PICK b, conf, sugg, blocks, used : Scanned(w, b, conf, sugg, blocks, used)
    BY <1>7, Zenon DEF ScanOneToOne, ScanGroup, Confirmed, Suggested, Undecided
  <2>2. \E r : run' = [run EXCEPT ![w] = r]
    BY <2>1, Zenon DEF Scanned
  <2>3. req' = req /\ \E l : Goto(w, l)
    BY <2>1 DEF Scanned
  <2> QED
    BY <1>1, <1>2, <2>2, <2>3
<1>8. ASSUME NEW b, NEW kind, ReadSuggestion(w, b, kind) PROVE Others(w)
  <2>1. \E q : req' = [req EXCEPT ![w] = q]
    BY <1>8, Zenon DEF ReadSuggestion
  <2>2. run' = run /\ Goto(w, "answer")
    BY <1>8 DEF ReadSuggestion
  <2> QED
    BY <1>1, <1>2, <2>1, <2>2
<1>9. ASSUME NEW p, ReadLeg(w, p) PROVE Others(w)
  <2>1. \E q : req' = [req EXCEPT ![w] = q]
    BY <1>9, Zenon DEF ReadLeg
  <2>2. run' = run /\ Goto(w, "answer")
    BY <1>9 DEF ReadLeg
  <2> QED
    BY <1>1, <1>2, <2>1, <2>2
<1>10. ASSUME NEW window, StartClose(w, window) PROVE Others(w)
  <2>1. \E q : req' = [req EXCEPT ![w] = q]
    BY <1>10, Zenon DEF StartClose
  <2>2. run' = run /\ Goto(w, "count")
    BY <1>10 DEF StartClose
  <2> QED
    BY <1>1, <1>2, <2>1, <2>2
<1>11. ASSUME CountRows(w) PROVE Others(w)
  <2>1. \E q : req' = [req EXCEPT ![w] = q]
    BY <1>11, Zenon DEF CountRows
  <2>2. run' = run /\ \E l : Goto(w, l)
    BY <1>11 DEF CountRows
  <2> QED
    BY <1>1, <1>2, <2>1, <2>2
<1>12. Apply(w) \/ ConfirmSuggestion(w) \/ RejectSuggestion(w) \/ RefuseClose(w) \/ SignClose(w)
         \/ Abort(w) => Return(w)
  BY DEF Apply, ConfirmSuggestion, RejectSuggestion, Answer, RefuseClose, SignClose, Abort
<1>13. ASSUME Run(w)
       PROVE  \/ \E window : StartRun(w, window)
              \/ ReadLegs(w) \/ ReadBatch(w) \/ ScanOneToOne(w) \/ ScanGroup(w)
              \/ Return(w)
  BY <1>12, <1>13, Zenon DEF Run
<1>14. ASSUME Client(w)
       PROVE  \/ \E b \in Banks : \E kind : ReadSuggestion(w, b, kind)
              \/ \E p \in Legs : ReadLeg(w, p)
              \/ \E window \in Periods : StartClose(w, window)
              \/ CountRows(w)
              \/ Return(w)
  BY <1>12, <1>14, Zenon DEF Client
<1> QED
  BY <1>3, <1>4, <1>5, <1>6, <1>7, <1>8, <1>9, <1>10, <1>11, <1>12, <1>13, <1>14, Zenon

\* Every step is one of the environment or one of a worker.
LEMMA StepOf ==
  ASSUME Typed, [Next]_vars
  PROVE  \/ UNCHANGED <<pc, run, req>>
         \/ \E w \in Workers : Run(w) \/ Client(w) \/ Abort(w)
BY DEF Next, Environment, ArriveBank, ArriveLeg, SyncContract, vars

\* What a step makes of the plans of a worker's run.
LEMMA PlanSteps ==
  ASSUME Typed, [Next]_vars, NEW w \in Workers
  PROVE  \/ Return(w)
         \/ pc'[w] = pc[w] /\ SamePlan(w)
         \/ pc'[w] # "idle" /\ pc[w] # "batch" /\ SamePlan(w) /\ UNCHANGED bank
            /\ (pc'[w] \in {"read", "batch"} => pc[w] \in {"idle", "read"})
         \/ ReadBatch(w)
         \/ ScanOneToOne(w) \/ ScanGroup(w)
<1>0. /\ pc \in [Workers -> {"idle", "read", "batch", "scan", "apply", "answer", "count", "sign"}]
      /\ run \in [Workers -> RunState] /\ req \in [Workers -> ReqState]
  BY DEF Typed, TypeOK
<1>1. ASSUME UNCHANGED <<pc, run, req>> PROVE pc'[w] = pc[w] /\ SamePlan(w)
  BY <1>1 DEF SamePlan
<1>2. ASSUME NEW v \in Workers \ {w}, Run(v) \/ Client(v) \/ Abort(v)
      PROVE  pc'[w] = pc[w] /\ SamePlan(w)
  <2>1. Others(v)
    BY <1>2, WorkerSteps
  <2> QED
    BY <2>1 DEF Others, SamePlan
<1> DEFINE Goes == pc'[w] # "idle" /\ pc[w] # "batch" /\ SamePlan(w) /\ UNCHANGED bank
                   /\ (pc'[w] \in {"read", "batch"} => pc[w] \in {"idle", "read"})
<1>3. ASSUME NEW window, StartRun(w, window) PROVE Goes
  BY <1>0, <1>3 DEF StartRun, MayStart, Goto, SamePlan, RunState
<1>4. ASSUME ReadLegs(w) PROVE Goes
  <2>1. PICK rank, stamp, count :
          run' = [run EXCEPT ![w].rank = rank, ![w].stamp = stamp, ![w].count = count]
    BY <1>4, Zenon DEF ReadLegs
  <2>2. SamePlan(w)
    BY <1>0, <2>1 DEF SamePlan, RunState
  <2>3. pc[w] = "read" /\ pc'[w] \in {"apply", "batch"} /\ UNCHANGED bank
    BY <1>0, <1>4 DEF ReadLegs, Goto, ledger
  <2> QED
    BY <2>2, <2>3
<1>5. ASSUME NEW b, NEW kind, ReadSuggestion(w, b, kind) PROVE Goes
  BY <1>0, <1>5 DEF ReadSuggestion, MayStart, Goto, SamePlan, ledger
<1>6. ASSUME NEW p, ReadLeg(w, p) PROVE Goes
  BY <1>0, <1>6 DEF ReadLeg, Goto, SamePlan, ledger
<1>7. ASSUME NEW window, StartClose(w, window) PROVE Goes
  BY <1>0, <1>7 DEF StartClose, MayStart, Goto, SamePlan, ledger
<1>8. ASSUME CountRows(w) PROVE Goes
  <2>1. pc[w] = "count" /\ pc'[w] \in {"sign", "count"} /\ run' = run /\ UNCHANGED bank
    BY <1>0, <1>8 DEF CountRows, Goto, ledger
  <2> QED
    BY <2>1 DEF SamePlan
<1> HIDE DEF Goes
<1>9. ASSUME Run(w) \/ Client(w) \/ Abort(w)
      PROVE  Return(w) \/ Goes \/ ReadBatch(w) \/ ScanOneToOne(w) \/ ScanGroup(w)
  BY <1>3, <1>4, <1>5, <1>6, <1>7, <1>8, <1>9, WorkerSteps, Zenon
<1> QED
  BY <1>1, <1>2, <1>9, StepOf DEF Goes

\* What it makes of a worker's request.
LEMMA RequestSteps ==
  ASSUME Typed, [Next]_vars, NEW w \in Workers
  PROVE  \/ Return(w)
         \/ pc'[w] = pc[w] /\ req'[w] = req[w]
         \/ pc'[w] \in {"read", "batch", "scan", "apply"} /\ req'[w] = req[w]
         \/ \E b \in Banks : \E kind : ReadSuggestion(w, b, kind)
         \/ \E p \in Legs : ReadLeg(w, p)
         \/ \E window \in Periods : StartClose(w, window)
         \/ CountRows(w)
<1>0. /\ pc \in [Workers -> {"idle", "read", "batch", "scan", "apply", "answer", "count", "sign"}]
      /\ run \in [Workers -> RunState] /\ req \in [Workers -> ReqState]
  BY DEF Typed, TypeOK
<1>1. ASSUME NEW v \in Workers \ {w}, Run(v) \/ Client(v) \/ Abort(v)
      PROVE  pc'[w] = pc[w] /\ req'[w] = req[w]
  <2>1. Others(v)
    BY <1>1, WorkerSteps
  <2> QED
    BY <2>1 DEF Others
<1> DEFINE InRun == pc'[w] \in {"read", "batch", "scan", "apply"} /\ req'[w] = req[w]
<1>2. ASSUME NEW window, StartRun(w, window) PROVE InRun
  BY <1>0, <1>2 DEF StartRun, Goto
<1>3. ASSUME ReadLegs(w) \/ ReadBatch(w) PROVE InRun
  BY <1>0, <1>3 DEF ReadLegs, ReadBatch, Goto
<1>4. ASSUME ScanOneToOne(w) \/ ScanGroup(w) PROVE InRun
  BY <1>4, ScanGrows
<1> HIDE DEF InRun
<1>5. ASSUME Run(w) \/ Client(w) \/ Abort(w)
      PROVE  \/ Return(w) \/ InRun
             \/ \E b \in Banks : \E kind : ReadSuggestion(w, b, kind)
             \/ \E p \in Legs : ReadLeg(w, p)
             \/ \E window \in Periods : StartClose(w, window)
             \/ CountRows(w)
  BY <1>2, <1>3, <1>4, <1>5, WorkerSteps, Zenon
<1> QED
  BY <1>1, <1>5, StepOf DEF InRun

\* A handler that returns drops its locals.
LEMMA ReturnDrops ==
  ASSUME Typed, NEW w \in Workers, Return(w)
  PROVE  pc'[w] = "idle" /\ run'[w] = NoRun /\ req'[w] = NoReq
BY DEF Typed, TypeOK, Return, Goto

\* IdleLocals is inductive.
LEMMA IdleLocalsStep ==
  ASSUME Typed, IdleLocals, [Next]_vars
  PROVE  IdleLocals'
<1>0. /\ pc \in [Workers -> {"idle", "read", "batch", "scan", "apply", "answer", "count", "sign"}]
      /\ run \in [Workers -> RunState] /\ req \in [Workers -> ReqState]
  BY DEF Typed, TypeOK
<1>1. ASSUME NEW w \in Workers, pc'[w] = "idle" PROVE run'[w] = NoRun /\ req'[w] = NoReq
  <2>1. CASE Return(w)
    BY <2>1, ReturnDrops
  <2>2. CASE UNCHANGED <<pc, run, req>>
    BY <1>1, <2>2 DEF IdleLocals
  <2>3. ASSUME NEW v \in Workers \ {w}, Run(v) \/ Client(v) \/ Abort(v)
        PROVE  run'[w] = NoRun /\ req'[w] = NoReq
    <3>1. Others(v)
      BY <2>3, WorkerSteps
    <3> QED
      BY <1>1, <3>1 DEF Others, IdleLocals
  <2>4. ASSUME Run(w) \/ Client(w) \/ Abort(w) PROVE Return(w)
    <3>1. \A window : StartRun(w, window) => pc'[w] # "idle"
      BY <1>0 DEF StartRun, Goto
    <3>2. ReadLegs(w) \/ ReadBatch(w) => pc'[w] # "idle"
      BY <1>0 DEF ReadLegs, ReadBatch, Goto
    <3>3. ScanOneToOne(w) \/ ScanGroup(w) => pc'[w] # "idle"
      BY ScanGrows
    <3>4. \A b, kind : ReadSuggestion(w, b, kind) => pc'[w] # "idle"
      BY <1>0 DEF ReadSuggestion, Goto
    <3>5. \A p : ReadLeg(w, p) => pc'[w] # "idle"
      BY <1>0 DEF ReadLeg, Goto
    <3>6. \A window : StartClose(w, window) => pc'[w] # "idle"
      BY <1>0 DEF StartClose, Goto
    <3>7. CountRows(w) => pc'[w] # "idle"
      BY <1>0 DEF CountRows, Goto
    <3> QED
      BY <1>1, <2>4, <3>1, <3>2, <3>3, <3>4, <3>5, <3>6, <3>7, WorkerSteps, Zenon
  <2> QED
    BY <2>1, <2>2, <2>3, <2>4, StepOf
<1>2. ASSUME NEW w \in Workers, pc'[w] \in {"read", "batch"} PROVE run'[w].todo = {}
  <2>1. CASE Return(w)
    BY <1>2, <2>1, ReturnDrops
  <2>2. CASE pc'[w] = pc[w] /\ SamePlan(w)
    BY <1>2, <2>2 DEF SamePlan, IdleLocals
  <2>3. CASE pc[w] \in {"idle", "read"} /\ SamePlan(w)
    BY <2>3 DEF SamePlan, IdleLocals, NoRun
  <2>4. CASE ReadBatch(w)
    BY <1>0, <1>2, <2>4 DEF ReadBatch, Goto
  <2>5. CASE ScanOneToOne(w) \/ ScanGroup(w)
    BY <1>2, <2>5, ScanGrows
  <2> QED
    BY <1>2, <2>1, <2>2, <2>3, <2>4, <2>5, PlanSteps
<1> QED
  BY <1>1, <1>2 DEF IdleLocals

(***************************************************************************)
(* What may be paired.  A run plans a bank row with legs it can claim, so    *)
(* that evidence names such legs only, and an answer repeats the evidence.   *)
(* Of two operations that write a leg of one row, both write its bank row.   *)
(***************************************************************************)
EvidenceIsClaimed == \A b \in Banks : \A p \in bank[b].ev.legs : Claims(b, p)

PlanClaims(plan) == \A i \in DOMAIN plan : \A p \in plan[i].legs : Claims(plan[i].bank, p)

RequestClaims(w) ==
  pc[w] = "answer" =>
    /\ req[w].bank \in Banks
    /\ req[w].read \subseteq req[w].row.ev.legs
    /\ \A p \in req[w].row.ev.legs : Claims(req[w].bank, p)

ClaimsInv ==
  /\ EvidenceIsClaimed
  /\ \A w \in Workers : PlanClaims(run[w].conf) /\ PlanClaims(run[w].sugg) /\ RequestClaims(w)

\* A plan with one more entry.
LEMMA AppendedPlan ==
  ASSUME NEW plan \in Seq(Entry), NEW e
  PROVE  /\ BanksIn(Append(plan, e)) = BanksIn(plan) \cup {e.bank}
         /\ \A i \in DOMAIN Append(plan, e) :
              \/ i \in DOMAIN plan /\ Append(plan, e)[i] = plan[i]
              \/ i = Len(plan) + 1 /\ Append(plan, e)[i] = e
<1> DEFINE n == Len(plan)
<1>1. n \in Nat /\ DOMAIN plan = 1..n
  BY LenProperties
<1>2. /\ DOMAIN Append(plan, e) = 1..(n + 1) /\ Append(plan, e)[n + 1] = e
      /\ \A i \in 1..n : Append(plan, e)[i] = plan[i]
  BY <1>1
<1>3. \A i \in 1..(n + 1) : i \in 1..n \/ i = n + 1
  BY <1>1
<1>4. 1..n \subseteq 1..(n + 1) /\ n + 1 \in 1..(n + 1)
  BY <1>1
<1> HIDE DEF n
<1>5. \A i \in DOMAIN Append(plan, e) :
        \/ i \in DOMAIN plan /\ Append(plan, e)[i] = plan[i]
        \/ i = n + 1 /\ Append(plan, e)[i] = e
  BY <1>1, <1>2, <1>3
<1>6. BanksIn(Append(plan, e)) = BanksIn(plan) \cup {e.bank}
  BY <1>1, <1>2, <1>3, <1>4 DEF BanksIn
<1> QED
  BY <1>5, <1>6 DEF n

\* Entries of a plan are looked up in the plan.
LEMMA LastEntry ==
  ASSUME NEW plan \in Seq(Entry)
  PROVE  /\ \A b \in BanksIn(plan) :
              LET i == LastOf(PlannedFor(plan, b)) IN i \in DOMAIN plan /\ plan[i].bank = b
         /\ \A p \in LegsIn(plan) :
              LET i == LastOf({j \in DOMAIN plan : p \in plan[j].legs})
              IN  i \in DOMAIN plan /\ p \in plan[i].legs
<1>0. Len(plan) \in Nat /\ DOMAIN plan = 1..Len(plan)
  BY LenProperties
<1>1. ASSUME NEW b \in BanksIn(plan)
      PROVE  LastOf(PlannedFor(plan, b)) \in PlannedFor(plan, b)
  <2>1. PlannedFor(plan, b) \in SUBSET (1..Len(plan)) /\ PlannedFor(plan, b) # {}
    BY <1>0 DEF PlannedFor, BanksIn
  <2> QED
    BY <1>0, <2>1, LastOfIsIn
<1>2. ASSUME NEW p \in LegsIn(plan)
      PROVE  LastOf({j \in DOMAIN plan : p \in plan[j].legs}) \in {j \in DOMAIN plan : p \in plan[j].legs}
  <2> DEFINE I == {j \in DOMAIN plan : p \in plan[j].legs}
  <2>1. I \in SUBSET (1..Len(plan)) /\ I # {}
    BY <1>0 DEF LegsIn
  <2> HIDE DEF I
  <2>2. LastOf(I) \in I
    BY <1>0, <2>1, LastOfIsIn
  <2> QED
    BY <2>2 DEF I
<1> QED
  BY <1>1, <1>2 DEF PlannedFor

\* The plans of a run name rows.
LEMMA PlanRows ==
  ASSUME Typed, NEW w \in Workers, NEW plan \in {run[w].conf, run[w].sugg}
  PROVE  /\ plan \in Seq(Entry)
         /\ \A i \in DOMAIN plan : plan[i].bank \in Banks /\ plan[i].legs \subseteq Legs
<1>1. plan \in Seq(Entry)
  BY DEF Typed, TypeOK, RunState
<1>2. \A i \in DOMAIN plan : plan[i] \in Entry
  BY <1>1, ElementOfSeq
<1> QED
  BY <1>1, <1>2 DEF Entry

\* What the commit of a run makes of a provider row.
LegApplied(r, p) ==
  \/ p \in LegsIn(r.sugg) /\ leg'[p].matched = 0
  \/ /\ p \in LegsIn(r.conf) /\ leg'[p].matched = 1
     /\ \E i \in DOMAIN r.conf : p \in r.conf[i].legs /\ leg'[p].bank = r.conf[i].bank
  \/ /\ p \notin LegsIn(r.conf) /\ p \notin LegsIn(r.sugg)
     /\ leg'[p].matched = leg[p].matched /\ leg'[p].bank = leg[p].bank

\* The commit of a run writes each provider row as LegApplied says.
LEMMA ApplyLegs ==
  ASSUME Typed, NEW w \in Workers, Apply(w), NEW p \in Legs
  PROVE  LegApplied(run[w], p)
<1> DEFINE conf == run[w].conf
           sugg == run[w].sugg
           confirmed == PutLegs(leg, conf, 1, "confirmed")
           suggested == PutLegs(confirmed, sugg, 0, "suggested")
<1>1. conf \in Seq(Entry) /\ sugg \in Seq(Entry) /\ leg \in [Legs -> LegState]
  BY DEF Typed, TypeOK, RunState
<1>2. leg' = MarkLegs(suggested, run[w].blocks)
  BY DEF Apply
<1> HIDE DEF conf, sugg
<1>3. confirmed \in [Legs -> LegState]
  BY <1>1, PutLegsType
<1>4. p \in LegsIn(conf) =>
        /\ confirmed[p].matched = 1
        /\ \E i \in DOMAIN conf : p \in conf[i].legs /\ confirmed[p].bank = conf[i].bank
  <2>1. SUFFICES ASSUME p \in LegsIn(conf)
                 PROVE  /\ confirmed[p].matched = 1
                        /\ \E i \in DOMAIN conf : p \in conf[i].legs /\ confirmed[p].bank = conf[i].bank
    OBVIOUS
  <2> DEFINE i == LastOf({j \in DOMAIN conf : p \in conf[j].legs})
  <2>2. i \in DOMAIN conf /\ p \in conf[i].legs
    BY <1>1, <2>1, LastEntry
  <2>3. confirmed[p].matched = 1 /\ confirmed[p].bank = conf[i].bank
    BY <1>1, <2>1 DEF PutLegs, LegState
  <2> QED
    BY <2>2, <2>3
<1>5. p \notin LegsIn(conf) => confirmed[p] = leg[p]
  BY DEF PutLegs
<1> HIDE DEF confirmed
<1>6. suggested \in [Legs -> LegState]
  BY <1>1, <1>3, PutLegsType
<1>7. /\ p \in LegsIn(sugg) => suggested[p].matched = 0
      /\ p \notin LegsIn(sugg) => suggested[p] = confirmed[p]
  BY <1>3 DEF PutLegs, LegState
<1> HIDE DEF suggested
<1>8. leg'[p].matched = suggested[p].matched /\ leg'[p].bank = suggested[p].bank
  BY <1>2, <1>6 DEF MarkLegs, LegState
<1> QED
  BY <1>4, <1>5, <1>7, <1>8 DEF LegApplied, conf, sugg

\* What it makes of a bank row.
BankApplied(r, b) ==
  \/ /\ b \in BanksIn(r.sugg) /\ bank'[b].status \notin Settled
     /\ \/ bank'[b].ev.legs = {}
        \/ \E i \in DOMAIN r.sugg : r.sugg[i].bank = b /\ bank'[b].ev.legs = r.sugg[i].legs
  \/ /\ b \in BanksIn(r.conf) \ BanksIn(r.sugg) /\ bank'[b].status = "confirmed"
     /\ \E i \in DOMAIN r.conf : r.conf[i].bank = b /\ bank'[b].ev.legs = r.conf[i].legs
  \/ /\ b \notin BanksIn(r.conf) \cup BanksIn(r.sugg)
     /\ \/ bank'[b] = bank[b]
        \/ bank[b].matched = 0 /\ bank'[b].status \notin Settled /\ bank'[b].ev.legs = {}

\* The commit of a run writes each bank row as BankApplied says.
LEMMA ApplyBanks ==
  ASSUME Typed, NEW w \in Workers, Apply(w), NEW b \in Banks
  PROVE  BankApplied(run[w], b)
<1> DEFINE conf == run[w].conf
           sugg == run[w].sugg
           confirmed == PutBanks(bank, conf, 1, "confirmed")
           suggested == PutBanks(confirmed, sugg, 0, "suggested")
<1>1. conf \in Seq(Entry) /\ sugg \in Seq(Entry) /\ bank \in [Banks -> BankState]
  BY DEF Typed, TypeOK, RunState
<1>2. bank' = MarkBanks(suggested, run[w].blocks)
  BY DEF Apply
<1> HIDE DEF conf, sugg
<1>3. ASSUME NEW rows \in [Banks -> BankState], NEW plan \in Seq(Entry), NEW matched, NEW status,
             b \in BanksIn(plan)
      PROVE  LET row == PutBanks(rows, plan, matched, status)[b]
             IN  /\ row.matched = matched /\ row.status = status
                 /\ \E i \in DOMAIN plan : plan[i].bank = b /\ row.ev.legs = plan[i].legs
  <2> DEFINE i == LastOf(PlannedFor(plan, b))
             row == PutBanks(rows, plan, matched, status)[b]
  <2>1. i \in DOMAIN plan /\ plan[i].bank = b
    BY <1>3, LastEntry
  <2> DEFINE ev == [decision |-> status, legs |-> plan[i].legs]
  <2>2. row = [rows[b] EXCEPT !.matched = matched, !.status = status, !.ev = ev]
    BY <1>3 DEF PutBanks
  <2>3. ev.legs = plan[i].legs
    OBVIOUS
  <2> HIDE DEF ev, i, row
  <2>4. row.matched = matched /\ row.status = status /\ row.ev = ev
    BY <2>2 DEF BankState
  <2>5. /\ row.matched = matched /\ row.status = status
        /\ \E j \in DOMAIN plan : plan[j].bank = b /\ row.ev.legs = plan[j].legs
    BY <2>1, <2>3, <2>4
  <2> QED
    BY <2>5 DEF row
<1>4. ASSUME NEW rows, NEW plan, NEW matched, NEW status, b \notin BanksIn(plan)
      PROVE  PutBanks(rows, plan, matched, status)[b] = rows[b]
  BY <1>4 DEF PutBanks
<1>5. confirmed \in [Banks -> BankState]
  BY <1>1, PutBanksType
<1>6. b \in BanksIn(conf) =>
        /\ confirmed[b].matched = 1 /\ confirmed[b].status = "confirmed"
        /\ \E i \in DOMAIN conf : conf[i].bank = b /\ confirmed[b].ev.legs = conf[i].legs
  BY <1>1, <1>3
<1>7. b \notin BanksIn(conf) => confirmed[b] = bank[b]
  BY <1>4
<1> HIDE DEF confirmed
<1>8. suggested \in [Banks -> BankState]
  BY <1>1, <1>5, PutBanksType
<1>9. b \in BanksIn(sugg) =>
        /\ suggested[b].matched = 0 /\ suggested[b].status = "suggested"
        /\ \E i \in DOMAIN sugg : sugg[i].bank = b /\ suggested[b].ev.legs = sugg[i].legs
  BY <1>1, <1>3, <1>5
<1>10. b \notin BanksIn(sugg) => suggested[b] = confirmed[b]
  BY <1>4
<1> HIDE DEF suggested
<1>11. \/ bank'[b] = suggested[b]
       \/ /\ suggested[b].matched = 0
          /\ bank'[b].status = "contractual_discrepancy" /\ bank'[b].ev.legs = {}
  BY <1>2, <1>8 DEF MarkBanks, Disputed, BankState
<1>12. "suggested" \notin Settled /\ "contractual_discrepancy" \notin Settled
  BY DEF Settled
<1>13. CASE b \in BanksIn(sugg)
  BY <1>9, <1>11, <1>12, <1>13 DEF BankApplied, sugg
<1>14. CASE b \in BanksIn(conf) \ BanksIn(sugg)
  BY <1>6, <1>10, <1>11, <1>14 DEF BankApplied, conf, sugg
<1>15. CASE b \notin BanksIn(conf) \cup BanksIn(sugg)
  BY <1>7, <1>10, <1>11, <1>12, <1>15 DEF BankApplied, conf, sugg
<1> QED
  BY <1>13, <1>14, <1>15

\* It leaves a leg matched exactly when its status is a settled one.
LEMMA ApplyCounted ==
  ASSUME Typed, NEW w \in Workers, Apply(w), NEW p \in Legs,
         leg[p].matched = 1 <=> leg[p].status \in Settled
  PROVE  leg'[p].matched = 1 <=> leg'[p].status \in Settled
<1> DEFINE confirmed == PutLegs(leg, run[w].conf, 1, "confirmed")
           suggested == PutLegs(confirmed, run[w].sugg, 0, "suggested")
<1>0. /\ run[w].conf \in Seq(Entry) /\ run[w].sugg \in Seq(Entry)
      /\ leg \in [Legs -> LegState]
      /\ "confirmed" \in Settled /\ "suggested" \notin Settled
      /\ "contractual_discrepancy" \notin Settled
  BY DEF Typed, TypeOK, RunState, Settled
<1>1. confirmed \in [Legs -> LegState]
  BY <1>0, PutLegsType
<1>2. confirmed[p].matched = 1 <=> confirmed[p].status \in Settled
  BY <1>0 DEF PutLegs, LegState
<1>3. leg' = MarkLegs(suggested, run[w].blocks)
  BY DEF Apply
<1> HIDE DEF confirmed
<1>4. suggested \in [Legs -> LegState]
  BY <1>0, <1>1, PutLegsType
<1>5. suggested[p].matched = 1 <=> suggested[p].status \in Settled
  BY <1>0, <1>1, <1>2 DEF PutLegs, LegState
<1> HIDE DEF suggested
<1> QED
  BY <1>0, <1>3, <1>4, <1>5 DEF MarkLegs, DisputedLegs, LegState

\* No step takes what may be paired from the ledger, a plan or a request.
LEMMA ClaimsStep ==
  ASSUME Typed, RowsInv, IdleLocals, ClaimsInv, [Next]_vars
  PROVE  ClaimsInv'
<1>0. /\ pc \in [Workers -> {"idle", "read", "batch", "scan", "apply", "answer", "count", "sign"}]
      /\ run \in [Workers -> RunState] /\ req \in [Workers -> ReqState]
      /\ bank \in [Banks -> BankState]
  BY DEF Typed, TypeOK
<1>1. EvidenceIsClaimed'
  <2>1. ASSUME \A b \in Banks : bank'[b].ev = bank[b].ev PROVE EvidenceIsClaimed'
    BY <2>1 DEF ClaimsInv, EvidenceIsClaimed
  <2>2. ASSUME NEW b \in Banks, ArriveBank(b) PROVE EvidenceIsClaimed'
    BY <1>0, <2>1, <2>2 DEF ArriveBank, BankState
  <2>3. ASSUME NEW w \in Workers, Apply(w) PROVE EvidenceIsClaimed'
    <3>1. \A b \in Banks : BankApplied(run[w], b)
      BY <2>3, ApplyBanks
    <3>2. PlanClaims(run[w].conf) /\ PlanClaims(run[w].sugg)
      BY DEF ClaimsInv
    <3> QED
      BY <3>1, <3>2 DEF ClaimsInv, EvidenceIsClaimed, BankApplied, PlanClaims
  <2>4. ASSUME NEW w \in Workers, ConfirmSuggestion(w) \/ RejectSuggestion(w)
        PROVE  EvidenceIsClaimed'
    <3>1. PICK kind, matched, counterpart :
            /\ Answer(w, kind, matched, counterpart)
            /\ kind \in {"user_confirmed", "rejected"} /\ matched \in {0, 1}
      BY <2>4 DEF ConfirmSuggestion, RejectSuggestion
    <3>2. \A c \in Banks : \/ bank'[c] = bank[c]
                           \/ c = req[w].bank /\ bank'[c].ev.legs = req[w].row.ev.legs
      BY <3>1, AnswerWrites DEF RowsInv
    <3>3. RequestClaims(w) /\ pc[w] = "answer"
      BY <3>1 DEF ClaimsInv, Answer
    <3> QED
      BY <3>2, <3>3 DEF ClaimsInv, EvidenceIsClaimed, RequestClaims
  <2>5. ASSUME NEW p \in Legs, ArriveLeg(p) PROVE UNCHANGED bank
    BY <2>5 DEF ArriveLeg
  <2>6. ASSUME NEW w \in Workers, NEW window \in Windows, StartRun(w, window) PROVE UNCHANGED bank
    BY <2>6 DEF StartRun
  <2> QED
    BY <2>1, <2>2, <2>3, <2>4, <2>5, <2>6, RowWriters
<1>2. ASSUME NEW w \in Workers PROVE PlanClaims(run'[w].conf) /\ PlanClaims(run'[w].sugg)
  <2>0. PlanClaims(run[w].conf) /\ PlanClaims(run[w].sugg)
    BY DEF ClaimsInv
  <2>1. CASE Return(w)
    BY <2>1, ReturnDrops DEF NoRun, PlanClaims
  <2>2. CASE SamePlan(w)
    BY <2>0, <2>2 DEF SamePlan
  <2>3. CASE ReadBatch(w)
    BY <1>0, <2>0, <2>3 DEF ReadBatch, RunState
  <2>4. CASE ScanOneToOne(w) \/ ScanGroup(w)
    <3>1. PICK b, e : PlanGrows(w, b, e)
      BY <2>4, ScanGrows
    <3>2. \A p \in e.legs : Claims(e.bank, p)
      BY <3>1 DEF PlanGrows
    <3>3. ASSUME NEW plan \in Seq(Entry), PlanClaims(plan) PROVE PlanClaims(Append(plan, e))
      BY <3>2, <3>3, AppendedPlan DEF PlanClaims
    <3>4. run[w].conf \in Seq(Entry) /\ run[w].sugg \in Seq(Entry)
      BY <1>0 DEF RunState
    <3> QED
      BY <2>0, <3>1, <3>3, <3>4 DEF PlanGrows
  <2> QED
    BY <2>1, <2>2, <2>3, <2>4, PlanSteps
<1>3. ASSUME NEW w \in Workers PROVE RequestClaims(w)'
  <2>0. RequestClaims(w)
    BY DEF ClaimsInv
  <2>1. CASE pc'[w] # "answer"
    BY <2>1 DEF RequestClaims
  <2>2. CASE pc'[w] = pc[w] /\ req'[w] = req[w]
    BY <2>0, <2>2 DEF RequestClaims
  <2>3. ASSUME NEW b \in Banks, NEW kind, ReadSuggestion(w, b, kind) PROVE RequestClaims(w)'
    <3>1. req[w].read = {}
      BY <2>3 DEF ReadSuggestion, MayStart, IdleLocals, NoReq
    <3>2. req'[w].bank = b /\ req'[w].row = bank[b] /\ req'[w].read = {}
      BY <1>0, <2>3, <3>1 DEF ReadSuggestion, ReqState
    <3> QED
      BY <3>2 DEF RequestClaims, ClaimsInv, EvidenceIsClaimed
  <2>4. ASSUME NEW p \in Legs, ReadLeg(w, p) PROVE RequestClaims(w)'
    <3>1. /\ pc[w] = "answer" /\ p \in req[w].row.ev.legs
          /\ req' = [req EXCEPT ![w].copy[p] = leg[p], ![w].read = req[w].read \cup {p},
                                ![w].flushed = req[w].read]
      BY <2>4, Zenon DEF ReadLeg
    <3>2. /\ req'[w].bank = req[w].bank /\ req'[w].row = req[w].row
          /\ req'[w].read = req[w].read \cup {p}
      BY <1>0, <3>1 DEF ReqState
    <3> QED
      BY <2>0, <3>1, <3>2 DEF RequestClaims
  <2>5. Return(w) => pc'[w] # "answer"
    BY ReturnDrops
  <2>6. (\E window \in Periods : StartClose(w, window)) \/ CountRows(w) => pc'[w] # "answer"
    BY <1>0 DEF StartClose, CountRows, Goto
  <2> QED
    BY <2>1, <2>2, <2>3, <2>4, <2>5, <2>6, RequestSteps, Zenon
<1> QED
  BY <1>1, <1>2, <1>3 DEF ClaimsInv

(***************************************************************************)
(* The provider side.  Confirm and reject write the columns of a leg that    *)
(* differ from what they read of it, so what they leave depends on the leg   *)
(* being still what they read.  CopiesStand says that it is, for the legs of *)
(* one row: the flush before the first of them is read locks the bank row,   *)
(* and whoever else writes such a leg has to write that bank row too.  The   *)
(* legs of several rows have no such lock in common, and what was read of    *)
(* them may be old.                                                          *)
(***************************************************************************)
AsRead(now, copy) ==
  /\ copy.matched = now.matched /\ copy.bank = now.bank
  /\ copy.matched = 1 <=> copy.status \in Settled

CopiesStand ==
  \A w \in Workers : pc[w] = "answer" =>
    \A p \in req[w].read \cap OfOneRow : AsRead(leg[p], req[w].copy[p])

LegsInv == IdleLocals /\ ClaimsInv /\ CopiesStand /\ CountedLegsAreMatched /\ EvidenceAgrees

\* Of a plan, only the entries for the bank row of such a leg write it.
LEMMA OneRowInPlan ==
  ASSUME Typed, ClaimsInv, NEW w \in Workers, NEW p \in OfOneRow, NEW b \in Banks, Claims(b, p)
  PROVE  \A plan \in {run[w].conf, run[w].sugg} :
           /\ \A i \in DOMAIN plan : p \in plan[i].legs => plan[i].bank = b
           /\ p \in LegsIn(plan) => b \in BanksIn(plan)
<1>1. ASSUME NEW plan \in {run[w].conf, run[w].sugg}, NEW i \in DOMAIN plan, p \in plan[i].legs
      PROVE  plan[i].bank = b
  <2>1. PlanClaims(plan)
    BY DEF ClaimsInv
  <2>2. Claims(plan[i].bank, p) /\ plan[i].bank \in Banks
    BY <1>1, <2>1, PlanRows DEF PlanClaims
  <2> QED
    BY <2>2 DEF OfOneRow
<1> QED
  BY <1>1 DEF LegsIn, BanksIn

\* While an answer holds the lock of its bank row, nobody writes the legs of that
\* row alone.
LEMMA LockedLegs ==
  ASSUME Typed, ClaimsInv, [Next]_vars, NEW w \in Workers, pc[w] = "answer", pc'[w] = "answer",
         NEW p \in req[w].read \cap OfOneRow
  PROVE  leg'[p].matched = leg[p].matched /\ leg'[p].bank = leg[p].bank
<1> DEFINE b == req[w].bank
<1>0. leg \in [Legs -> LegState] /\ p \in Legs
  BY DEF Typed, TypeOK, OfOneRow
<1>1. b \in Banks /\ Claims(b, p) /\ FlushedBank(w) = {b}
  BY DEF ClaimsInv, RequestClaims, FlushedBank
<1>2. ASSUME NEW a \in Banks, ArriveBank(a) PROVE leg' = leg
  BY <1>2 DEF ArriveBank
<1>3. ASSUME NEW q \in Legs, ArriveLeg(q)
      PROVE  leg'[p].matched = leg[p].matched /\ leg'[p].bank = leg[p].bank
  BY <1>0, <1>3 DEF ArriveLeg, LegState
<1>4. ASSUME NEW v \in Workers, NEW window \in Windows, StartRun(v, window)
      PROVE  leg'[p].matched = leg[p].matched /\ leg'[p].bank = leg[p].bank
  BY <1>0, <1>4 DEF StartRun, LegState
<1>5. ASSUME NEW v \in Workers, Apply(v)
      PROVE  leg'[p].matched = leg[p].matched /\ leg'[p].bank = leg[p].bank
  <2>1. v # w
    BY <1>5, ReturnDrops DEF Apply
  <2>2. b \notin Planned(run[v])
    BY <1>1, <1>5, <2>1 DEF Apply, Unlocked
  <2>3. p \notin LegsIn(run[v].conf) /\ p \notin LegsIn(run[v].sugg)
    BY <1>1, <2>2, OneRowInPlan DEF Planned
  <2> QED
    BY <1>0, <1>5, <2>3, ApplyLegs DEF LegApplied
<1>6. ASSUME NEW v \in Workers, ConfirmSuggestion(v) \/ RejectSuggestion(v)
      PROVE  leg'[p].matched = leg[p].matched /\ leg'[p].bank = leg[p].bank
  <2>1. PICK kind, matched, counterpart : Answer(v, kind, matched, counterpart)
    BY <1>6 DEF ConfirmSuggestion, RejectSuggestion
  <2>2. v # w
    BY <2>1, ReturnDrops DEF Answer
  <2>3. req[v].bank # b /\ pc[v] = "answer"
    BY <1>1, <2>1, <2>2 DEF Answer, Unlocked
  <2>4. p \notin req[v].row.ev.legs
    BY <1>1, <2>3 DEF ClaimsInv, RequestClaims, OfOneRow
  <2>5. leg'[p] = leg[p]
    BY <1>0, <2>1, <2>4 DEF Answer
  <2> QED
    BY <2>5
<1> HIDE DEF b
<1> QED
  BY <1>2, <1>3, <1>4, <1>5, <1>6, RowWriters

\* CopiesStand is inductive.
LEMMA CopiesStep ==
  ASSUME Typed, LegsInv, [Next]_vars
  PROVE  CopiesStand'
<1> USE DEF LegsInv
<1>0. /\ pc \in [Workers -> {"idle", "read", "batch", "scan", "apply", "answer", "count", "sign"}]
      /\ req \in [Workers -> ReqState] /\ OfOneRow \subseteq Legs
  BY DEF Typed, TypeOK, OfOneRow
<1>1. SUFFICES ASSUME NEW w \in Workers, pc'[w] = "answer", NEW p \in req'[w].read \cap OfOneRow
               PROVE  AsRead(leg'[p], req'[w].copy[p])
  BY DEF CopiesStand
<1>2. CASE pc'[w] = pc[w] /\ req'[w] = req[w]
  <2>1. AsRead(leg[p], req[w].copy[p])
    BY <1>1, <1>2 DEF CopiesStand
  <2>2. leg'[p].matched = leg[p].matched /\ leg'[p].bank = leg[p].bank
    BY <1>1, <1>2, LockedLegs
  <2> QED
    BY <1>2, <2>1, <2>2 DEF AsRead
<1>3. ASSUME NEW b \in Banks, NEW kind, ReadSuggestion(w, b, kind) PROVE FALSE
  <2>1. req[w].read = {}
    BY <1>3 DEF ReadSuggestion, MayStart, IdleLocals, NoReq
  <2>2. req'[w].read = {}
    BY <1>0, <1>3, <2>1 DEF ReadSuggestion, ReqState
  <2> QED
    BY <1>1, <2>2
<1>4. ASSUME NEW q \in Legs, ReadLeg(w, q) PROVE AsRead(leg'[p], req'[w].copy[p])
  <2>1. /\ pc[w] = "answer" /\ leg' = leg
        /\ req' = [req EXCEPT ![w].copy[q] = leg[q], ![w].read = req[w].read \cup {q},
                              ![w].flushed = req[w].read]
    BY <1>4, Zenon DEF ReadLeg, ledger
  <2>2. /\ req'[w].copy = [req[w].copy EXCEPT ![q] = leg[q]]
        /\ req'[w].read = req[w].read \cup {q}
    BY <1>0, <2>1 DEF ReqState
  <2>3. req[w].copy \in [Legs -> LegState] /\ p \in Legs
    BY <1>0, <1>1 DEF ReqState
  <2>4. CASE p = q
    BY <1>1, <2>1, <2>2, <2>3, <2>4 DEF AsRead, CountedLegsAreMatched
  <2>5. CASE p # q
    <3>1. p \in req[w].read /\ req'[w].copy[p] = req[w].copy[p]
      BY <1>1, <2>2, <2>3, <2>5
    <3> QED
      BY <1>1, <2>1, <3>1 DEF CopiesStand
  <2> QED
    BY <2>4, <2>5
<1>5. Return(w) => pc'[w] # "answer"
  BY ReturnDrops
<1>6. (\E window \in Periods : StartClose(w, window)) \/ CountRows(w) => pc'[w] # "answer"
  BY <1>0 DEF StartClose, CountRows, Goto
<1>7. pc'[w] \notin {"read", "batch", "scan", "apply"}
  BY <1>1
<1> QED
  BY <1>1, <1>2, <1>3, <1>4, <1>5, <1>6, <1>7, RequestSteps, Zenon

\* What an answer makes of a leg of one row: what it says, since the leg is as it
\* was read.
LEMMA AnsweredLeg ==
  ASSUME Typed, LegsInv, NEW w \in Workers, NEW kind \in {"user_confirmed", "rejected"},
         NEW matched \in {0, 1}, matched = 1 <=> kind \in Settled, NEW counterpart,
         Answer(w, kind, matched, counterpart), NEW p \in OfOneRow
  PROVE  /\ p \notin req[w].row.ev.legs => leg'[p] = leg[p]
         /\ p \in req[w].row.ev.legs =>
              /\ leg'[p].matched = matched /\ leg'[p].bank = counterpart
              /\ leg'[p].matched = 1 <=> leg'[p].status \in Settled
<1> DEFINE c == req[w].copy[p]
           new == [c EXCEPT !.matched = matched, !.status = kind, !.bank = counterpart]
<1>0. leg \in [Legs -> LegState] /\ p \in Legs /\ c \in LegState
  BY DEF Typed, TypeOK, ReqState, OfOneRow
<1>1. leg'[p] = IF p \in req[w].row.ev.legs THEN OrmWrite(leg[p], c, new) ELSE leg[p]
  BY <1>0 DEF Answer
<1>2. p \in req[w].row.ev.legs => AsRead(leg[p], c)
  BY DEF Answer, LegsInv, CopiesStand
<1>3. leg[p].matched = 1 <=> leg[p].status \in Settled
  BY DEF LegsInv, CountedLegsAreMatched
<1>4. new.matched = matched /\ new.status = kind /\ new.bank = counterpart
  BY <1>0 DEF LegState
<1> HIDE DEF c, new
<1>5. DOMAIN leg[p] = {"there", "matched", "status", "bank", "stamp"} /\ leg[p].matched \in {0, 1}
  BY <1>0 DEF LegState
<1> DEFINE written == OrmWrite(leg[p], c, new)
<1>6. /\ written.matched = IF matched # c.matched THEN matched ELSE leg[p].matched
      /\ written.status = IF kind # c.status THEN kind ELSE leg[p].status
      /\ written.bank = IF counterpart # c.bank THEN counterpart ELSE leg[p].bank
  BY <1>4, <1>5 DEF OrmWrite
<1> HIDE DEF written
<1>7. ASSUME p \in req[w].row.ev.legs
      PROVE  /\ written.matched = matched /\ written.bank = counterpart
             /\ written.matched = 1 <=> written.status \in Settled
  BY <1>2, <1>3, <1>5, <1>6, <1>7 DEF AsRead
<1> QED
  BY <1>1, <1>7 DEF written

\* The rows that matter to EvidenceAgrees after a commit: what a step may do that
\* leaves the evidence agreeing.
LEMMA SameRows ==
  ASSUME Typed, EvidenceAgrees,
         \A b \in Banks : bank'[b].status = bank[b].status /\ bank'[b].ev = bank[b].ev,
         \A p \in Legs : /\ leg'[p].matched = leg[p].matched /\ leg'[p].bank = leg[p].bank
                         /\ leg'[p].status = leg[p].status
  PROVE  EvidenceAgrees' /\ (CountedLegsAreMatched => CountedLegsAreMatched')
BY DEF EvidenceAgrees, CountedLegsAreMatched, OfOneRow

\* The commit of a run leaves the legs of one row counted and in agreement.
LEMMA ApplyLegsInv ==
  ASSUME Typed, RowsInv, LegsInv, NEW w \in Workers, Apply(w)
  PROVE  CountedLegsAreMatched' /\ EvidenceAgrees'
<1> DEFINE conf == run[w].conf
           sugg == run[w].sugg
<1>0. OfOneRow \subseteq Legs /\ ClaimsInv
  BY DEF OfOneRow, LegsInv
<1>1. CountedLegsAreMatched'
  BY <1>0, ApplyCounted DEF LegsInv, CountedLegsAreMatched
<1>2. EvidenceAgrees'
  <2>1. SUFFICES ASSUME NEW b \in Banks, bank'[b].status \in Settled,
                        NEW p \in bank'[b].ev.legs \cap OfOneRow
                 PROVE  leg'[p].matched = 1 /\ leg'[p].bank = b
    BY DEF EvidenceAgrees
  <2>2. BankApplied(run[w], b) /\ LegApplied(run[w], p)
    BY <1>0, ApplyBanks, ApplyLegs
  <2>3. "suggested" \notin Settled
    BY DEF Settled
  <2>4. CASE b \in BanksIn(conf) \ BanksIn(sugg)
    <3>1. PICK i \in DOMAIN conf : conf[i].bank = b /\ p \in conf[i].legs
      BY <2>1, <2>2, <2>4 DEF BankApplied
    <3>2. Claims(b, p)
      BY <1>0, <3>1 DEF ClaimsInv, PlanClaims
    <3>3. p \in LegsIn(conf) /\ p \notin LegsIn(sugg)
      BY <1>0, <2>4, <3>1, <3>2, OneRowInPlan DEF LegsIn
    <3>4. PICK j \in DOMAIN conf : /\ leg'[p].matched = 1 /\ p \in conf[j].legs
                                   /\ leg'[p].bank = conf[j].bank
      BY <2>2, <3>3 DEF LegApplied
    <3> QED
      BY <1>0, <3>2, <3>4, OneRowInPlan
  <2>5. CASE b \notin BanksIn(conf) \cup BanksIn(sugg) /\ bank'[b] = bank[b]
    <3>1. leg[p].matched = 1 /\ leg[p].bank = b
      BY <2>1, <2>5 DEF LegsInv, EvidenceAgrees
    <3>2. Claims(b, p)
      BY <1>0, <2>1, <2>5 DEF ClaimsInv, EvidenceIsClaimed
    <3>3. p \notin LegsIn(conf) /\ p \notin LegsIn(sugg)
      BY <1>0, <2>5, <3>2, OneRowInPlan
    <3> QED
      BY <2>2, <3>1, <3>3 DEF LegApplied
  <2> QED
    BY <2>1, <2>2, <2>3, <2>4, <2>5 DEF BankApplied
<1> QED
  BY <1>1, <1>2

\* So does an answer.
LEMMA AnswerLegsInv ==
  ASSUME Typed, RowsInv, LegsInv, NEW w \in Workers, ConfirmSuggestion(w) \/ RejectSuggestion(w)
  PROVE  CountedLegsAreMatched' /\ EvidenceAgrees'
<1> DEFINE b == req[w].bank
           L == req[w].row.ev.legs
<1>1. PICK kind, matched, counterpart :
        /\ Answer(w, kind, matched, counterpart)
        /\ (kind = "user_confirmed" /\ matched = 1 /\ counterpart = b)
             \/ (kind = "rejected" /\ matched = 0)
  BY DEF ConfirmSuggestion, RejectSuggestion
<1>2. /\ kind \in {"user_confirmed", "rejected"} /\ matched \in {0, 1}
      /\ matched = 1 <=> kind \in Settled
  BY <1>1 DEF Settled
<1>3. /\ b \in Banks /\ \A p \in L : Claims(b, p)
      /\ EvidenceIsClaimed
  BY <1>1 DEF Answer, LegsInv, ClaimsInv, RequestClaims
<1>4. /\ \A c \in Banks \ {b} : bank'[c] = bank[c]
      /\ bank'[b].status = kind /\ bank'[b].ev.legs = L
  BY <1>1, <1>2, <1>3, AnswerWrites DEF RowsInv
<1>5. \A p \in OfOneRow :
        /\ p \notin L => leg'[p] = leg[p]
        /\ p \in L => /\ leg'[p].matched = matched /\ leg'[p].bank = counterpart
                      /\ leg'[p].matched = 1 <=> leg'[p].status \in Settled
  BY <1>1, <1>2, AnsweredLeg
<1> HIDE DEF b, L
<1>6. CountedLegsAreMatched'
  BY <1>5 DEF LegsInv, CountedLegsAreMatched
<1>7. ASSUME NEW c \in Banks, bank'[c].status \in Settled, NEW p \in bank'[c].ev.legs \cap OfOneRow
      PROVE  leg'[p].matched = 1 /\ leg'[p].bank = c
  <2>1. CASE c = b
    BY <1>1, <1>2, <1>4, <1>5, <1>7, <2>1
  <2>2. CASE c # b
    <3>1. bank'[c] = bank[c]
      BY <1>4, <2>2
    <3>2. Claims(c, p)
      BY <1>3, <1>7, <3>1 DEF EvidenceIsClaimed
    <3>3. p \notin L
      BY <1>3, <1>7, <2>2, <3>2 DEF OfOneRow
    <3> QED
      BY <1>5, <1>7, <3>1, <3>3 DEF LegsInv, EvidenceAgrees
  <2> QED
    BY <2>1, <2>2
<1>8. EvidenceAgrees'
  BY <1>7 DEF EvidenceAgrees
<1> QED
  BY <1>6, <1>8

\* LegsInv is inductive.
LEMMA LegsStep ==
  ASSUME Typed, RowsInv, LegsInv, [Next]_vars
  PROVE  LegsInv'
<1>0. bank \in [Banks -> BankState] /\ leg \in [Legs -> LegState]
  BY DEF Typed, TypeOK
<1> DEFINE SameBanks == \A b \in Banks : bank'[b].status = bank[b].status /\ bank'[b].ev = bank[b].ev
           SameLegs == \A p \in Legs : /\ leg'[p].matched = leg[p].matched
                                       /\ leg'[p].bank = leg[p].bank
                                       /\ leg'[p].status = leg[p].status
           Goal == CountedLegsAreMatched' /\ EvidenceAgrees'
<1>1. ASSUME UNCHANGED <<bank, leg>> PROVE SameBanks /\ SameLegs
  BY <1>1
<1>2. ASSUME NEW b \in Banks, ArriveBank(b) PROVE SameBanks /\ SameLegs
  BY <1>0, <1>2 DEF ArriveBank, BankState
<1>3. ASSUME NEW p \in Legs, ArriveLeg(p) PROVE SameBanks /\ SameLegs
  BY <1>0, <1>3 DEF ArriveLeg, LegState
<1>4. ASSUME NEW w \in Workers, NEW window \in Windows, StartRun(w, window)
      PROVE  SameBanks /\ SameLegs
  BY <1>0, <1>4 DEF StartRun, LegState
<1>5. ASSUME NEW w \in Workers, Apply(w) \/ ConfirmSuggestion(w) \/ RejectSuggestion(w)
      PROVE  Goal
  BY <1>5, ApplyLegsInv, AnswerLegsInv
<1>6. SameBanks /\ SameLegs => Goal
  BY SameRows DEF LegsInv
<1>7. Goal
  <2> HIDE DEF SameBanks, SameLegs, Goal
  <2> QED
    BY <1>1, <1>2, <1>3, <1>4, <1>5, <1>6, RowWriters
<1>8. IdleLocals' /\ ClaimsInv' /\ CopiesStand'
  BY IdleLocalsStep, ClaimsStep, CopiesStep DEF LegsInv
<1> QED
  BY <1>7, <1>8 DEF LegsInv

\* LegsInv holds in every reachable state, with what it rests on.
LEMMA AlwaysLegs == Spec => [](Typed /\ RowsInv /\ LegsInv)
<1>1. Init => RowsInv /\ LegsInv
  <2>1. Init => RowsInv
    BY DEF Init, NewBank, RowsInv, RowsSound, AnswersOpenRow, Sound, Settled, OpenStatus
  <2>2. Init => IdleLocals /\ CopiesStand
    BY DEF Init, IdleLocals, CopiesStand
  <2>3. Init => ClaimsInv
    BY DEF Init, NewBank, NoEvidence, NoRun, ClaimsInv, EvidenceIsClaimed, PlanClaims, RequestClaims
  <2>4. Init => CountedLegsAreMatched /\ EvidenceAgrees
    BY DEF Init, NewBank, NewLeg, Settled, CountedLegsAreMatched, EvidenceAgrees, OfOneRow
  <2> QED
    BY <2>1, <2>2, <2>3, <2>4 DEF LegsInv
<1>2. Typed /\ RowsInv /\ [Next]_vars => RowsInv'
  BY RowsSoundStep, AnswersOpenRowStep DEF RowsInv
<1>3. Typed /\ RowsInv /\ LegsInv /\ [Next]_vars => LegsInv'
  BY LegsStep
<1> QED
  BY <1>1, <1>2, <1>3, AlwaysTyped, PTL DEF Spec

\* Whatever operations overlap, a provider row that answers one bank row only is
\* matched exactly when its status says it is confirmed: no commit of a run, no
\* partial write of an answer and no contractual mark leaves one without the other.
THEOREM LegsCounted == Spec => []CountedLegsAreMatched
<1>1. LegsInv => CountedLegsAreMatched
  BY DEF LegsInv
<1> QED
  BY <1>1, AlwaysLegs, PTL

\* Whatever operations overlap, a counted bank row and the legs of its evidence
\* that answer no other row agree: each is matched and names this row.
THEOREM EvidenceAlwaysAgrees == Spec => []EvidenceAgrees
<1>1. LegsInv => EvidenceAgrees
  BY DEF LegsInv
<1> QED
  BY <1>1, AlwaysLegs, PTL

(***************************************************************************)
(* The history.  What a worker read of a bank row stands for as long as      *)
(* nobody has written the row since: ReadsStand for the rows of a run, and   *)
(* AnswersStand for the row of an answer.  An operation that writes a row    *)
(* that was settled meanwhile is therefore one for which the row is stale.   *)
(***************************************************************************)
ReadsStand ==
  \A w \in Workers : \A b \in run[w].todo \cup Planned(run[w]) :
    b \notin stale[w] => bank[b].matched = 0

AnswersStand ==
  \A w \in Workers : pc[w] = "answer" /\ req[w].bank \notin stale[w] => bank[req[w].bank] = req[w].row

\* Each count that a close has made counted some rows T of the period, which are
\* still those in question but for the rows written since.
CountsStand ==
  \A w \in Workers : pc[w] \in {"count", "sign"} =>
    \A i \in 1..(req[w].next - 1) : \E T \in SUBSET req[w].window :
      /\ req[w].tally[CloseQueries[i]] = Cardinality(T)
      /\ \A b \in req[w].window \ stale[w] :
           b \in T <=> b \in InStatus(req[w].window, CloseQueries[i])

LedgerStep == Next /\ HistoryStep

\* The history changes nothing of what the ledger may do.
LEMMA HistoryStutters == [LedgerStep]_<<vars, history>> => [Next]_vars
BY DEF LedgerStep

LEMMA HistoryOfLedger == HistorySpec => Spec
<1>1. [LedgerStep]_<<vars, history>> => [Next]_vars
  BY HistoryStutters
<1>2. HistorySpec => Init /\ [][LedgerStep]_<<vars, history>>
  BY PTL DEF HistorySpec, HistoryInit, LedgerStep
<1> QED
  BY <1>1, <1>2, PTL DEF Spec

\* A row that is not stale for a worker after a step has not changed in it, and
\* was not stale before unless the worker has read it in the step.
LEMMA NotStale ==
  ASSUME [LedgerStep]_<<vars, history>>, NEW w \in Workers, pc'[w] # "idle",
         NEW b \in Banks, b \notin stale'[w]
  PROVE  bank'[b] = bank[b] /\ (b \notin stale[w] \/ b \in Reads(w))
<1>1. CASE LedgerStep
  <2>1. stale'[w] = (stale[w] \ Reads(w)) \cup Changes
    BY <1>1 DEF LedgerStep, HistoryStep
  <2> QED
    BY <2>1 DEF Changes
<1>2. CASE UNCHANGED <<vars, history>>
  BY <1>2 DEF vars, history
<1> QED
  BY <1>1, <1>2

\* Rows that were torn remain so, and so become the rows that a run or an answer
\* writes while they are stale for it, or that a run planned twice.
LEMMA Torn ==
  ASSUME [LedgerStep]_<<vars, history>>, NEW w \in Workers, pc[w] # "idle", pc'[w] = "idle",
         ledger' # ledger
  PROVE  torn \cup (Writes(w) \cap (stale[w] \cup PlannedTwice(run[w]))) \subseteq torn'
<1>1. ~UNCHANGED <<vars, history>>
  BY DEF vars, ledger
<1>2. Commits(w)
  BY DEF Commits
<1> QED
  BY <1>1, <1>2 DEF LedgerStep, HistoryStep

\* No row is torn by another step.
LEMMA TornGrows ==
  ASSUME [LedgerStep]_<<vars, history>>
  PROVE  torn \subseteq torn'
BY DEF LedgerStep, HistoryStep, vars, history

\* The rows of a run.
LEMMA RunRows == \A r \in RunState : r.todo \cup Planned(r) \subseteq Banks
<1>1. ASSUME NEW r \in RunState PROVE r.todo \cup Planned(r) \subseteq Banks
  <2>1. r.todo \subseteq Banks /\ r.conf \in Seq(Entry) /\ r.sugg \in Seq(Entry)
    BY DEF RunState
  <2>2. ASSUME NEW plan \in Seq(Entry) PROVE BanksIn(plan) \subseteq Banks
    <3>1. \A i \in DOMAIN plan : plan[i] \in Entry
      BY ElementOfSeq
    <3> QED
      BY <3>1 DEF BanksIn, Entry
  <2> QED
    BY <2>1, <2>2 DEF Planned
<1> QED
  BY <1>1

\* ReadsStand is inductive.
LEMMA ReadsStep ==
  ASSUME Typed, IdleLocals, ReadsStand, [LedgerStep]_<<vars, history>>
  PROVE  ReadsStand'
<1>0. [Next]_vars /\ Typed' /\ IdleLocals'
  BY HistoryStutters, NextTyped, IdleLocalsStep
<1>1. SUFFICES ASSUME NEW w \in Workers, NEW b \in run'[w].todo \cup Planned(run'[w]),
                      b \notin stale'[w]
               PROVE  bank'[b].matched = 0
  BY DEF ReadsStand
<1>2. pc'[w] # "idle" /\ ~Return(w)
  <2>1. NoRun.todo = {} /\ Planned(NoRun) = {}
    BY DEF NoRun, Planned, BanksIn
  <2>2. run'[w] # NoRun
    BY <1>1, <2>1
  <2> QED
    BY <1>0, <2>2, ReturnDrops DEF IdleLocals
<1>3. b \in Banks
  <2>1. run'[w] \in RunState
    BY <1>0 DEF Typed, TypeOK
  <2> QED
    BY <1>1, <2>1, RunRows
<1>4. bank'[b] = bank[b] /\ (b \notin stale[w] \/ b \in Reads(w))
  BY <1>1, <1>2, <1>3, NotStale
<1>5. b \notin stale[w] /\ b \in run[w].todo \cup Planned(run[w]) => bank[b].matched = 0
  BY DEF ReadsStand
<1>6. CASE SamePlan(w)
  <2>1. b \in run[w].todo \cup Planned(run[w])
    BY <1>1, <1>6 DEF SamePlan, Planned
  <2>2. pc[w] # "batch" \/ run'[w].todo = {}
    BY <1>6 DEF SamePlan, IdleLocals
  <2> QED
    BY <1>4, <1>5, <2>1, <2>2 DEF Reads
<1>7. CASE ReadBatch(w)
  <2>0. run \in [Workers -> RunState]
    BY DEF Typed, TypeOK
  <2>1. /\ pc[w] = "batch"
        /\ run'[w].todo = Page(UnmatchedIn(run[w].window), run[w].offset)
        /\ Planned(run'[w]) = Planned(run[w])
    BY <1>7, <2>0 DEF ReadBatch, RunState, Planned
  <2>2. CASE b \in run'[w].todo
    BY <1>4, <2>1, <2>2 DEF Page, UnmatchedIn
  <2>3. CASE b \notin run'[w].todo
    BY <1>1, <1>4, <1>5, <2>1, <2>3 DEF Reads
  <2> QED
    BY <2>2, <2>3
<1>8. CASE ScanOneToOne(w) \/ ScanGroup(w)
  <2>1. PICK a, e : PlanGrows(w, a, e)
    BY <1>8, ScanGrows
  <2>2. Reads(w) = {}
    BY <1>8, ScanGrows DEF Reads
  <2>3. run[w].conf \in Seq(Entry) /\ run[w].sugg \in Seq(Entry)
    BY DEF Typed, TypeOK, RunState
  <2>4. a \in run[w].todo /\ run'[w].todo \subseteq run[w].todo /\ e.bank = a
    BY <2>1 DEF PlanGrows
  <2>5. \A plan \in Seq(Entry) : BanksIn(Append(plan, e)) = BanksIn(plan) \cup {a}
    BY <2>4, AppendedPlan
  <2>6. Planned(run'[w]) \subseteq Planned(run[w]) \cup {a}
    BY <2>1, <2>3, <2>5 DEF PlanGrows, Planned
  <2>7. b \in run[w].todo \cup Planned(run[w])
    BY <1>1, <2>4, <2>6
  <2> QED
    BY <1>4, <1>5, <2>2, <2>7
<1> QED
  BY <1>0, <1>2, <1>6, <1>7, <1>8, PlanSteps

\* AnswersStand is inductive.
LEMMA AnswersStep ==
  ASSUME Typed, ClaimsInv, AnswersStand, [LedgerStep]_<<vars, history>>
  PROVE  AnswersStand'
<1>0. /\ [Next]_vars
      /\ pc \in [Workers -> {"idle", "read", "batch", "scan", "apply", "answer", "count", "sign"}]
      /\ req \in [Workers -> ReqState]
  BY HistoryStutters DEF Typed, TypeOK
<1>1. SUFFICES ASSUME NEW w \in Workers, pc'[w] = "answer", req'[w].bank \notin stale'[w]
               PROVE  bank'[req'[w].bank] = req'[w].row
  BY DEF AnswersStand
<1>2. ASSUME pc[w] = "answer", req'[w].bank = req[w].bank, req'[w].row = req[w].row
      PROVE  bank'[req'[w].bank] = req'[w].row
  <2>1. req[w].bank \in Banks
    BY <1>2 DEF ClaimsInv, RequestClaims
  <2>2. Reads(w) = {}
    BY <1>2 DEF Reads
  <2>3. bank'[req[w].bank] = bank[req[w].bank] /\ req[w].bank \notin stale[w]
    BY <1>1, <1>2, <2>1, <2>2, NotStale
  <2> QED
    BY <1>2, <2>3 DEF AnswersStand
<1>3. ASSUME NEW b \in Banks, NEW kind, ReadSuggestion(w, b, kind)
      PROVE  bank'[req'[w].bank] = req'[w].row
  BY <1>0, <1>3 DEF ReadSuggestion, ledger, ReqState
<1>4. ASSUME NEW p \in Legs, ReadLeg(w, p) PROVE bank'[req'[w].bank] = req'[w].row
  <2>1. /\ pc[w] = "answer"
        /\ req' = [req EXCEPT ![w].copy[p] = leg[p], ![w].read = req[w].read \cup {p},
                              ![w].flushed = req[w].read]
    BY <1>4, Zenon DEF ReadLeg
  <2>2. req'[w].bank = req[w].bank /\ req'[w].row = req[w].row
    BY <1>0, <2>1 DEF ReqState
  <2> QED
    BY <1>2, <2>1, <2>2
<1>5. Return(w) => pc'[w] # "answer"
  BY ReturnDrops
<1>6. (\E window \in Periods : StartClose(w, window)) \/ CountRows(w) => pc'[w] # "answer"
  BY <1>0 DEF StartClose, CountRows, Goto
<1>7. pc'[w] \notin {"read", "batch", "scan", "apply"}
  BY <1>1
<1> QED
  BY <1>0, <1>1, <1>2, <1>3, <1>4, <1>5, <1>6, <1>7, RequestSteps, Zenon

\* What a query of the close counts is the rows in the status it is about: none of
\* them is matched without being settled, or settled without being matched.
LEMMA CountedRows ==
  ASSUME Typed, RowsSound, NEW window \in SUBSET Banks, NEW query \in CloseQuery
  PROVE  {b \in window : bank[b].there /\ Counted(query, b)} = InStatus(window, query)
<1>1. SUFFICES ASSUME NEW b \in window
               PROVE  Counted(query, b) <=> query = "bank_total" \/ bank[b].status = query
  BY <1>1 DEF InStatus
<1>2. Sound(bank[b])
  BY DEF RowsSound
<1> QED
  BY <1>2 DEF Counted, CloseQuery, Sound, Settled, OpenStatus

\* The queries are different ones.
LEMMA QueriesDiffer ==
  /\ \A i \in 1..5 : CloseQueries[i] \in CloseQuery
  /\ \A i, j \in 1..5 : CloseQueries[i] = CloseQueries[j] => i = j
<1>1. \A i \in 1..5 : i = 1 \/ i = 2 \/ i = 3 \/ i = 4 \/ i = 5
  OBVIOUS
<1> QED
  BY <1>1 DEF CloseQueries, CloseQuery

\* CountsStand is inductive.
LEMMA CountsStep ==
  ASSUME Typed, RowsInv, IdleLocals, CountsStand, [LedgerStep]_<<vars, history>>
  PROVE  CountsStand'
<1>0. /\ [Next]_vars
      /\ pc \in [Workers -> {"idle", "read", "batch", "scan", "apply", "answer", "count", "sign"}]
      /\ req \in [Workers -> ReqState] /\ QueryLeft
  BY HistoryStutters DEF Typed, TypeOK
<1> DEFINE Stands(w, i) ==
             \E T \in SUBSET req[w].window :
               /\ req[w].tally[CloseQueries[i]] = Cardinality(T)
               /\ \A b \in req[w].window \ stale[w] :
                    b \in T <=> b \in InStatus(req[w].window, CloseQueries[i])
<1>1. SUFFICES ASSUME NEW w \in Workers, pc'[w] \in {"count", "sign"},
                      NEW i \in 1..(req'[w].next - 1)
               PROVE  Stands(w, i)'
  BY DEF CountsStand
<1>2. req[w].window \subseteq Banks
  BY <1>0 DEF ReqState
<1>3. ASSUME pc[w] \in {"count", "sign"}, req'[w].window = req[w].window,
             req'[w].tally[CloseQueries[i]] = req[w].tally[CloseQueries[i]],
             i \in 1..(req[w].next - 1)
      PROVE  Stands(w, i)'
  <2>1. PICK T \in SUBSET req[w].window :
          /\ req[w].tally[CloseQueries[i]] = Cardinality(T)
          /\ \A b \in req[w].window \ stale[w] :
               b \in T <=> b \in InStatus(req[w].window, CloseQueries[i])
    BY <1>3 DEF CountsStand
  <2>2. Reads(w) = {}
    BY <1>3 DEF Reads
  <2>3. \A b \in req[w].window \ stale'[w] : b \notin stale[w] /\ bank'[b] = bank[b]
    BY <1>1, <1>2, <2>2, NotStale
  <2>4. \A b \in req[w].window \ stale'[w] :
          b \in T <=> b \in InStatus(req[w].window, CloseQueries[i])'
    BY <1>3, <2>1, <2>3 DEF InStatus
  <2> QED
    BY <1>3, <2>1, <2>4
<1>4. ASSUME NEW window \in Periods, StartClose(w, window) PROVE FALSE
  <2>1. req[w].next = 1
    BY <1>4 DEF StartClose, MayStart, IdleLocals, NoReq
  <2>2. req'[w].next = 1
    BY <1>0, <1>4, <2>1 DEF StartClose, ReqState
  <2> QED
    BY <1>1, <2>2
<1>5. ASSUME CountRows(w) PROVE Stands(w, i)'
  <2> DEFINE n == req[w].next
             query == CloseQueries[n]
             T == {b \in req[w].window : bank[b].there /\ Counted(query, b)}
  <2>1. pc[w] = "count" /\ n \in 1..5 /\ query \in CloseQuery
    BY <1>0, <1>5, QueriesDiffer DEF CountRows, QueryLeft
  <2>2. req' = [req EXCEPT ![w].tally[query] = Cardinality(T), ![w].next = n + 1]
    BY <1>5, Zenon DEF CountRows
  <2>3. UNCHANGED bank
    BY <1>5 DEF CountRows, ledger
  <2>4. T = InStatus(req[w].window, query)
    BY <1>2, <2>1, CountedRows DEF RowsInv
  <2> HIDE DEF T
  <2>5. /\ req'[w].window = req[w].window /\ req'[w].next = n + 1
        /\ req'[w].tally = [req[w].tally EXCEPT ![query] = Cardinality(T)]
    BY <1>0, <2>2 DEF ReqState
  <2>6. i \in 1..n
    BY <1>1, <2>1, <2>5
  <2>7. req[w].tally \in [CloseQuery -> Nat]
    BY <1>0 DEF ReqState
  <2>8. CASE i = n
    <3>1. req'[w].tally[CloseQueries[i]] = Cardinality(T)
      BY <2>1, <2>5, <2>7, <2>8
    <3>2. InStatus(req[w].window, CloseQueries[i])' = T
      BY <2>3, <2>4, <2>5, <2>8 DEF InStatus
    <3>3. T \in SUBSET req'[w].window
      BY <2>4, <2>5 DEF InStatus
    <3> QED
      BY <3>1, <3>2, <3>3
  <2>9. CASE i # n
    <3>1. i \in 1..(n - 1) /\ i \in 1..5
      BY <2>1, <2>6, <2>9
    <3>2. CloseQueries[i] # query /\ CloseQueries[i] \in CloseQuery
      BY <2>1, <2>9, <3>1, QueriesDiffer
    <3>3. req'[w].tally[CloseQueries[i]] = req[w].tally[CloseQueries[i]]
      BY <2>5, <2>7, <3>2
    <3> QED
      BY <1>3, <2>1, <2>5, <3>1, <3>3
  <2> QED
    BY <2>8, <2>9
<1>6. CASE pc'[w] = pc[w] /\ req'[w] = req[w]
  BY <1>1, <1>3, <1>6
<1>7. Return(w) => pc'[w] \notin {"count", "sign"}
  BY ReturnDrops
<1>8. \A b, kind : ReadSuggestion(w, b, kind) => pc'[w] \notin {"count", "sign"}
  BY <1>0 DEF ReadSuggestion, Goto
<1>9. \A p : ReadLeg(w, p) => pc'[w] \notin {"count", "sign"}
  BY <1>0 DEF ReadLeg, Goto
<1>10. pc'[w] \notin {"read", "batch", "scan", "apply"}
  BY <1>1
<1> HIDE DEF Stands
<1> QED
  BY <1>0, <1>1, <1>4, <1>5, <1>6, <1>7, <1>8, <1>9, <1>10, RequestSteps, Zenon

(***************************************************************************)
(* What the history explains.                                                *)
(***************************************************************************)
HistoryInv == ReadsStand /\ AnswersStand /\ CountsStand

\* Two entries for a row that the plan has once are the same.
LEMMA PlannedOnce ==
  ASSUME NEW plan \in Seq(Entry), NEW b, ~(Cardinality(PlannedFor(plan, b)) > 1),
         NEW i \in PlannedFor(plan, b), NEW j \in PlannedFor(plan, b)
  PROVE  i = j
<1>0. Len(plan) \in Nat /\ DOMAIN plan = 1..Len(plan)
  BY LenProperties
<1>1. IsFiniteSet(1..Len(plan)) /\ PlannedFor(plan, b) \subseteq 1..Len(plan)
  BY <1>0, FS_Interval DEF PlannedFor
<1>2. IsFiniteSet(PlannedFor(plan, b))
  BY <1>1, FS_Subset
<1>3. Cardinality(PlannedFor(plan, b)) \in Nat
  BY <1>2, FS_CardinalityType
<1>4. {i} \cup {j} \subseteq PlannedFor(plan, b)
  OBVIOUS
<1>5. IsFiniteSet({i} \cup {j}) /\ Cardinality({i} \cup {j}) <= Cardinality(PlannedFor(plan, b))
  BY <1>2, <1>4, FS_Subset
<1>6. i # j => Cardinality({i} \cup {j}) = 2
  <2>1. IsFiniteSet({i}) /\ Cardinality({i}) = 1
    BY FS_Singleton
  <2>2. i # j => Cardinality({i} \cup {j}) = Cardinality({i}) + 1
    <3>1. i # j => j \notin {i}
      OBVIOUS
    <3> QED
      BY <2>1, <3>1, FS_AddElement
  <2>3. i # j => Cardinality({i} \cup {j}) = 1 + 1
    BY <2>1, <2>2
  <2> QED
    BY <2>3
<1> QED
  BY <1>3, <1>5, <1>6

\* The commit of a run leaves every matched leg of one row explained.
LEMMA ApplyExplains ==
  ASSUME Typed, RowsInv, LegsInv, HistoryInv, MatchedLegIsExplained,
         [LedgerStep]_<<vars, history>>, NEW w \in Workers, Apply(w)
  PROVE  MatchedLegIsExplained'
<1> DEFINE conf == run[w].conf
           sugg == run[w].sugg
<1>0. pc[w] = "apply" /\ pc'[w] = "idle" /\ OfOneRow' = OfOneRow /\ OfOneRow \subseteq Legs
  BY ReturnDrops DEF Apply, OfOneRow, Claims, Tiers
<1>1. CASE ledger' = ledger
  BY <1>0, <1>1, TornGrows DEF ledger, MatchedLegIsExplained
<1>2. CASE ledger' # ledger
  <2>1. torn \cup (Planned(run[w]) \cap (stale[w] \cup PlannedTwice(run[w]))) \subseteq torn'
    BY <1>0, <1>2, Torn DEF Writes
  <2>2. SUFFICES ASSUME NEW p \in OfOneRow, leg'[p].matched = 1
                 PROVE  /\ leg'[p].bank \in Banks
                        /\ leg'[p].bank \notin torn' =>
                             /\ bank'[leg'[p].bank].status \in Settled
                             /\ p \in bank'[leg'[p].bank].ev.legs
    BY <1>0 DEF MatchedLegIsExplained
  <2> DEFINE b == leg'[p].bank
  <2>3. LegApplied(run[w], p) /\ (b \in Banks => BankApplied(run[w], b))
    BY <1>0, ApplyLegs, ApplyBanks
  <2>4. CASE \E i \in DOMAIN conf : p \in conf[i].legs /\ b = conf[i].bank
    <3>1. PICK i \in DOMAIN conf : p \in conf[i].legs /\ b = conf[i].bank
      BY <2>4
    <3>2. b \in Banks /\ b \in BanksIn(conf) /\ conf \in Seq(Entry)
      BY <3>1, PlanRows DEF BanksIn
    <3>3. SUFFICES ASSUME b \notin torn'
                   PROVE  bank'[b].status \in Settled /\ p \in bank'[b].ev.legs
      BY <3>2
    <3>4. b \notin PlannedTwice(run[w])
      BY <2>1, <3>2, <3>3 DEF Planned
    <3>5. b \notin BanksIn(sugg) /\ ~(Cardinality(PlannedFor(conf, b)) > 1)
      BY <3>2, <3>4 DEF PlannedTwice
    <3>6. PICK j \in DOMAIN conf : /\ conf[j].bank = b /\ bank'[b].ev.legs = conf[j].legs
                                   /\ bank'[b].status = "confirmed"
      BY <2>3, <3>2, <3>5 DEF BankApplied
    <3> HIDE DEF conf, b
    <3>7. i \in PlannedFor(conf, b) /\ j \in PlannedFor(conf, b)
      BY <3>1, <3>6 DEF PlannedFor
    <3>8. i = j
      BY <3>2, <3>5, <3>7, PlannedOnce
    <3> QED
      BY <3>1, <3>6, <3>8 DEF Settled
  <2>5. CASE p \notin LegsIn(conf) /\ p \notin LegsIn(sugg)
    <3>1. leg[p].matched = 1 /\ leg[p].bank = b
      BY <2>2, <2>3, <2>5 DEF LegApplied
    <3>2. b \in Banks /\ (b \notin torn => bank[b].status \in Settled /\ p \in bank[b].ev.legs)
      BY <3>1 DEF MatchedLegIsExplained
    <3>3. SUFFICES ASSUME b \notin torn'
                   PROVE  bank'[b].status \in Settled /\ p \in bank'[b].ev.legs
      BY <3>2
    <3>4. bank[b].status \in Settled /\ p \in bank[b].ev.legs
      BY <2>1, <3>2, <3>3
    <3>5. bank[b].matched # 0
      BY <3>2, <3>4 DEF RowsInv, RowsSound, Sound
    <3>6. b \notin Planned(run[w])
      BY <2>1, <3>3, <3>5 DEF HistoryInv, ReadsStand
    <3>7. bank'[b] = bank[b]
      BY <2>3, <3>2, <3>5, <3>6 DEF BankApplied, Planned
    <3> QED
      BY <3>4, <3>7
  <2> QED
    BY <2>2, <2>3, <2>4, <2>5 DEF LegApplied
<1> QED
  BY <1>1, <1>2

\* So does an answer.
LEMMA AnswerExplains ==
  ASSUME Typed, RowsInv, LegsInv, HistoryInv, MatchedLegIsExplained,
         [LedgerStep]_<<vars, history>>, NEW w \in Workers,
         ConfirmSuggestion(w) \/ RejectSuggestion(w)
  PROVE  MatchedLegIsExplained'
<1> DEFINE b == req[w].bank
           L == req[w].row.ev.legs
<1>1. PICK kind, matched, counterpart :
        /\ Answer(w, kind, matched, counterpart)
        /\ (kind = "user_confirmed" /\ matched = 1 /\ counterpart = b)
             \/ (kind = "rejected" /\ matched = 0)
  BY DEF ConfirmSuggestion, RejectSuggestion
<1>2. /\ kind \in {"user_confirmed", "rejected"} /\ matched \in {0, 1}
      /\ matched = 1 <=> kind \in Settled
  BY <1>1 DEF Settled
<1>3. pc[w] = "answer" /\ b \in Banks
  BY <1>1 DEF Answer, LegsInv, ClaimsInv, RequestClaims
<1>4. /\ \A c \in Banks \ {b} : bank'[c] = bank[c]
      /\ bank'[b].status = kind /\ bank'[b].ev.legs = L
  BY <1>1, <1>2, <1>3, AnswerWrites DEF RowsInv
<1>5. \A p \in OfOneRow :
        /\ p \notin L => leg'[p] = leg[p]
        /\ p \in L => leg'[p].matched = matched /\ leg'[p].bank = counterpart
  BY <1>1, <1>2, AnsweredLeg
<1>6. pc'[w] = "idle" /\ OfOneRow' = OfOneRow
  BY <1>1, ReturnDrops DEF Answer, OfOneRow, Claims, Tiers
<1>7. ledger' = ledger \/ b \in torn' \/ b \notin stale[w]
  BY <1>3, <1>6, Torn DEF Writes
<1>8. b \notin stale[w] => bank[b].status \notin Settled
  BY <1>3 DEF HistoryInv, AnswersStand, RowsInv, AnswersOpenRow, Settled
<1> HIDE DEF b, L
<1>9. CASE ledger' = ledger
  BY <1>6, <1>9, TornGrows DEF ledger, MatchedLegIsExplained
<1>10. CASE ledger' # ledger
  <2>1. SUFFICES ASSUME NEW p \in OfOneRow, leg'[p].matched = 1
                 PROVE  /\ leg'[p].bank \in Banks
                        /\ leg'[p].bank \notin torn' =>
                             /\ bank'[leg'[p].bank].status \in Settled
                             /\ p \in bank'[leg'[p].bank].ev.legs
    BY <1>6 DEF MatchedLegIsExplained
  <2>2. CASE p \in L
    <3>1. matched = 1 /\ leg'[p].bank = b /\ kind \in Settled
      BY <1>1, <1>2, <1>5, <2>1, <2>2
    <3> QED
      BY <1>3, <1>4, <2>2, <3>1
  <2>3. CASE p \notin L
    <3> DEFINE c == leg[p].bank
    <3>1. leg'[p] = leg[p] /\ c \in Banks
      BY <1>5, <2>1, <2>3 DEF MatchedLegIsExplained
    <3>2. c \notin torn' => bank[c].status \in Settled /\ p \in bank[c].ev.legs
      BY <2>1, <3>1, TornGrows DEF MatchedLegIsExplained
    <3>3. c \notin torn' => c # b
      BY <1>7, <1>8, <1>10, <3>2
    <3>4. c \notin torn' => bank'[c] = bank[c]
      BY <1>4, <3>1, <3>3
    <3> QED
      BY <3>1, <3>2, <3>4
  <2> QED
    BY <2>2, <2>3
<1> QED
  BY <1>9, <1>10

\* MatchedLegIsExplained is preserved.
LEMMA ExplainedStep ==
  ASSUME Typed, RowsInv, LegsInv, HistoryInv, MatchedLegIsExplained,
         [LedgerStep]_<<vars, history>>
  PROVE  MatchedLegIsExplained'
<1>0. bank \in [Banks -> BankState] /\ leg \in [Legs -> LegState] /\ [Next]_vars
  BY HistoryStutters DEF Typed, TypeOK
<1> DEFINE SameBanks == \A b \in Banks : bank'[b].status = bank[b].status /\ bank'[b].ev = bank[b].ev
           SameLegs == \A p \in Legs : leg'[p].matched = leg[p].matched /\ leg'[p].bank = leg[p].bank
           Goal == MatchedLegIsExplained'
<1>1. ASSUME UNCHANGED <<bank, leg>> PROVE SameBanks /\ SameLegs
  BY <1>1
<1>2. ASSUME NEW b \in Banks, ArriveBank(b) PROVE SameBanks /\ SameLegs
  BY <1>0, <1>2 DEF ArriveBank, BankState
<1>3. ASSUME NEW p \in Legs, ArriveLeg(p) PROVE SameBanks /\ SameLegs
  BY <1>0, <1>3 DEF ArriveLeg, LegState
<1>4. ASSUME NEW w \in Workers, NEW window \in Windows, StartRun(w, window)
      PROVE  SameBanks /\ SameLegs
  BY <1>0, <1>4 DEF StartRun, LegState
<1>5. ASSUME NEW w \in Workers, Apply(w) \/ ConfirmSuggestion(w) \/ RejectSuggestion(w)
      PROVE  Goal
  BY <1>5, ApplyExplains, AnswerExplains
<1>6. SameBanks /\ SameLegs => Goal
  <2>1. OfOneRow' = OfOneRow /\ OfOneRow \subseteq Legs /\ torn \subseteq torn'
    BY TornGrows DEF OfOneRow, Claims, Tiers
  <2> QED
    BY <2>1 DEF MatchedLegIsExplained
<1> HIDE DEF SameBanks, SameLegs, Goal
<1>7. Goal
  BY <1>0, <1>1, <1>2, <1>3, <1>4, <1>5, <1>6, RowWriters
<1> QED
  BY <1>7 DEF Goal

\* The history stands in every reachable state, with what it rests on.
LEMMA AlwaysHistory == HistorySpec => [](Typed /\ RowsInv /\ LegsInv /\ HistoryInv)
<1>1. HistoryInit => HistoryInv
  <2>1. Init => ReadsStand
    BY DEF Init, NoRun, ReadsStand, Planned, BanksIn
  <2>2. Init => AnswersStand /\ CountsStand
    BY DEF Init, AnswersStand, CountsStand
  <2> QED
    BY <2>1, <2>2 DEF HistoryInit, HistoryInv
<1>2. Typed /\ RowsInv /\ LegsInv /\ HistoryInv /\ [LedgerStep]_<<vars, history>> => HistoryInv'
  BY ReadsStep, AnswersStep, CountsStep DEF HistoryInv, LegsInv
<1>3. HistorySpec => HistoryInit /\ [][LedgerStep]_<<vars, history>>
  BY PTL DEF HistorySpec, LedgerStep
<1>4. HistorySpec => [](Typed /\ RowsInv /\ LegsInv)
  BY HistoryOfLedger, AlwaysLegs, PTL
<1> QED
  BY <1>1, <1>2, <1>3, <1>4, PTL

\* No money is left matched and unexplained: whatever operations overlap, a matched
\* leg that answers one bank row is in the evidence of that row, which is counted,
\* unless the row was written by an operation that had read another version of it.
THEOREM MatchedLegsAreExplained == HistorySpec => []MatchedLegIsExplained
<1>1. Init => MatchedLegIsExplained
  BY DEF Init, NewLeg, MatchedLegIsExplained, OfOneRow
<1>2. Typed /\ RowsInv /\ LegsInv /\ HistoryInv /\ MatchedLegIsExplained
        /\ [LedgerStep]_<<vars, history>> => MatchedLegIsExplained'
  BY ExplainedStep
<1>3. HistorySpec => Init /\ [][LedgerStep]_<<vars, history>>
  BY PTL DEF HistorySpec, HistoryInit, LedgerStep
<1> QED
  BY <1>1, <1>2, <1>3, AlwaysHistory, PTL

\* What the client validated stands: whatever operations overlap, only a run or an
\* answer that had read the row before it was validated takes it back.
THEOREM ValidationStands == HistorySpec => ValidationIsFinal
<1> DEFINE Kept(b) ==
             bank[b].status = "user_confirmed" /\ bank'[b].status # "user_confirmed" =>
               \E w \in Workers : b \in stale[w] /\ Commits(w)
<1>1. ASSUME Typed, RowsInv, LegsInv, HistoryInv, [Next]_vars, NEW b \in Banks
      PROVE  Kept(b)
  <2>1. SUFFICES ASSUME bank[b].status = "user_confirmed", bank'[b].status # "user_confirmed"
                 PROVE  \E w \in Workers : b \in stale[w] /\ Commits(w)
    OBVIOUS
  <2>2. bank \in [Banks -> BankState] /\ bank[b].matched # 0 /\ ledger' # ledger /\ bank'[b] # bank[b]
    BY <1>1, <2>1 DEF Typed, TypeOK, RowsInv, RowsSound, Sound, Settled, ledger
  <2>3. ASSUME NEW w \in Workers, Apply(w) PROVE b \in stale[w] /\ Commits(w)
    <3>1. pc[w] = "apply" /\ pc'[w] = "idle"
      BY <1>1, <2>3, ReturnDrops DEF Apply
    <3>2. b \in Planned(run[w])
      BY <1>1, <2>2, <2>3, ApplyBanks DEF BankApplied, Planned
    <3> QED
      BY <1>1, <2>2, <3>1, <3>2 DEF HistoryInv, ReadsStand, Commits
  <2>4. ASSUME NEW w \in Workers, ConfirmSuggestion(w) \/ RejectSuggestion(w)
        PROVE  b \in stale[w] /\ Commits(w)
    <3>1. PICK kind, matched, counterpart :
            /\ Answer(w, kind, matched, counterpart)
            /\ kind \in {"user_confirmed", "rejected"} /\ matched \in {0, 1}
      BY <2>4 DEF ConfirmSuggestion, RejectSuggestion
    <3>2. pc[w] = "answer" /\ pc'[w] = "idle"
      BY <1>1, <3>1, ReturnDrops DEF Answer
    <3>3. b = req[w].bank
      BY <1>1, <2>2, <3>1, AnswerWrites DEF RowsInv
    <3>4. req[w].row.status # "user_confirmed"
      BY <1>1, <3>2 DEF RowsInv, AnswersOpenRow
    <3> QED
      BY <1>1, <2>1, <2>2, <3>2, <3>3, <3>4 DEF HistoryInv, AnswersStand, Commits
  <2>5. ASSUME NEW a \in Banks, ArriveBank(a) PROVE FALSE
    BY <2>1, <2>2, <2>5 DEF ArriveBank, BankState
  <2>6. ASSUME NEW p \in Legs, ArriveLeg(p) PROVE FALSE
    BY <2>2, <2>6 DEF ArriveLeg
  <2>7. ASSUME NEW w \in Workers, NEW window \in Windows, StartRun(w, window) PROVE FALSE
    BY <2>2, <2>7 DEF StartRun
  <2> QED
    BY <1>1, <2>2, <2>3, <2>4, <2>5, <2>6, <2>7, RowWriters
<1>2. Typed /\ RowsInv /\ LegsInv /\ HistoryInv /\ [LedgerStep]_<<vars, history>>
        => [\A b \in Banks : Kept(b)]_<<vars, history>>
  BY <1>1, HistoryStutters
<1>3. HistorySpec => [][LedgerStep]_<<vars, history>>
  BY PTL DEF HistorySpec, LedgerStep
<1>4. HistorySpec => [][\A b \in Banks : Kept(b)]_<<vars, history>>
  <2> HIDE DEF Kept
  <2> QED
    BY <1>2, <1>3, AlwaysHistory, PTL
<1> QED
  BY <1>4 DEF ValidationIsFinal

\* The counts of a close, taken one query at a time while runs and answers commit,
\* differ from what the period holds by no more rows than were written meanwhile.
THEOREM CountsDrift == HistorySpec => []CountsDriftByWrites
<1>1. Typed /\ CountsStand => CountsDriftByWrites
  <2>1. SUFFICES ASSUME Typed, CountsStand, NEW w \in Workers, pc[w] \in {"count", "sign"},
                        NEW i \in 1..(req[w].next - 1)
                 PROVE  LET query == CloseQueries[i]
                        IN  Magnitude(req[w].tally[query] - Cardinality(InStatus(req[w].window, query)))
                              <= Cardinality(req[w].window \cap stale[w])
    BY DEF CountsDriftByWrites
  <2> DEFINE W == req[w].window
             I == InStatus(W, CloseQueries[i])
             D == W \cap stale[w]
  <2>2. PICK T \in SUBSET W : /\ req[w].tally[CloseQueries[i]] = Cardinality(T)
                              /\ \A b \in W \ stale[w] : b \in T <=> b \in I
    BY <2>1 DEF CountsStand
  <2>3. W \subseteq Banks /\ I \subseteq W /\ D \subseteq W
    BY <2>1 DEF Typed, TypeOK, ReqState, InStatus
  <2> HIDE DEF W, I, D
  <2>4. /\ IsFiniteSet(T) /\ Cardinality(T) \in Nat
        /\ IsFiniteSet(I) /\ Cardinality(I) \in Nat
        /\ IsFiniteSet(D) /\ Cardinality(D) \in Nat
    BY <2>3, CountType
  <2>5. T \subseteq I \cup D /\ I \subseteq T \cup D
    BY <2>2, <2>3 DEF D
  <2>6. ASSUME NEW X, NEW Y, IsFiniteSet(X), IsFiniteSet(Y), X \subseteq Y \cup D,
               Cardinality(X) \in Nat, Cardinality(Y) \in Nat
        PROVE  Cardinality(X) <= Cardinality(Y) + Cardinality(D)
    <3>1. IsFiniteSet(Y \cup D)
          /\ Cardinality(Y \cup D) = Cardinality(Y) + Cardinality(D) - Cardinality(Y \cap D)
      BY <2>4, <2>6, FS_Union
    <3>2. Cardinality(X) <= Cardinality(Y \cup D)
      BY <2>6, <3>1, FS_Subset
    <3>3. Cardinality(Y \cap D) \in Nat
      BY <2>6, FS_Intersection, FS_CardinalityType
    <3>4. Cardinality(Y \cup D) \in Nat
      BY <3>1, FS_CardinalityType
    <3> QED
      BY <2>4, <2>6, <3>1, <3>2, <3>3, <3>4
  <2>7. /\ Cardinality(T) <= Cardinality(I) + Cardinality(D)
        /\ Cardinality(I) <= Cardinality(T) + Cardinality(D)
    BY <2>4, <2>5, <2>6
  <2>8. Magnitude(Cardinality(T) - Cardinality(I)) <= Cardinality(D)
    BY <2>4, <2>7 DEF Magnitude
  <2> QED
    BY <2>2, <2>8 DEF W, I, D
<1>2. HistorySpec => [](Typed /\ CountsStand)
  <2>1. Typed /\ RowsInv /\ LegsInv /\ HistoryInv => Typed /\ CountsStand
    BY DEF HistoryInv
  <2> QED
    BY <2>1, AlwaysHistory, PTL
<1> QED
  BY <1>1, <1>2, PTL


(***************************************************************************)
(* What SumFunction adds up, for the sums over the legs of a settlement      *)
(***************************************************************************)
Pick(s) == CHOOSE x \in s : TRUE

\* g[s] is the sum of F over s, for each set s of D.
Sums(F, D, g) ==
  /\ g \in [D -> Int]
  /\ \A s \in D : g[s] = IF s = {} THEN 0 ELSE F[Pick(s)] + g[s \ {Pick(s)}]

\* Induction over the subsets of a finite set, as the sums take them apart: a
\* set of subsets that is not empty has one that is empty or leaves it.
LEMMA SubsetsLeave ==
  ASSUME NEW S, IsFiniteSet(S), NEW Bad \in SUBSET (SUBSET S), Bad # {}
  PROVE  \E m \in Bad : \/ m = {}
                        \/ /\ Pick(m) \in m /\ m \ {Pick(m)} \in SUBSET S
                           /\ m \ {Pick(m)} \notin Bad
                           /\ IsFiniteSet(m) /\ Cardinality(m \ {Pick(m)}) \in Nat
                           /\ Cardinality(m) = Cardinality(m \ {Pick(m)}) + 1
<1>1. \A s \in SUBSET S : IsFiniteSet(s) /\ Cardinality(s) \in Nat
  BY FS_Subset, FS_CardinalityType
<1> DEFINE T == {Cardinality(s) : s \in Bad}
<1>2. T \in SUBSET Nat /\ T # {}
  BY <1>1
<1>3. PICK x \in T : \A y \in T : x <= y
  <2> HIDE DEF T
  <2> QED BY <1>2, LeastNatural
<1>4. PICK m \in Bad : x = Cardinality(m)
  BY <1>3
<1>5. ASSUME m # {}
      PROVE  /\ Pick(m) \in m /\ m \ {Pick(m)} \in SUBSET S
             /\ m \ {Pick(m)} \notin Bad
             /\ IsFiniteSet(m) /\ Cardinality(m \ {Pick(m)}) \in Nat
             /\ Cardinality(m) = Cardinality(m \ {Pick(m)}) + 1
  <2>1. Pick(m) \in m
    BY <1>5 DEF Pick
  <2> DEFINE p == Pick(m)
            r == m \ {p}
  <2>2. p \in m /\ r \in SUBSET S
    BY <2>1
  <2> HIDE DEF p
  <2>3. IsFiniteSet(m) /\ Cardinality(m) \in Nat /\ Cardinality(r) \in Nat
    BY <1>1, <2>2
  <2>4. Cardinality(r) = Cardinality(m) - 1
    BY <2>2, <2>3, FS_RemoveElement
  <2>5. r \notin Bad
    <3>1. SUFFICES ASSUME r \in Bad PROVE FALSE
      OBVIOUS
    <3>2. Cardinality(r) \in T
      BY <3>1
    <3>3. Cardinality(m) <= Cardinality(r)
      BY <3>2, <1>3, <1>4
    <3> QED
      BY <3>3, <2>3, <2>4
  <2> QED
    BY <2>2, <2>3, <2>4, <2>5 DEF p
<1> QED
  BY <1>5

\* A finite function to the integers has its sums.
LEMMA SumsExist ==
  ASSUME NEW S, IsFiniteSet(S), NEW F \in [S -> Int]
  PROVE  \E g : Sums(F, SUBSET S, g)
<1> DEFINE D(n) == {s \in SUBSET S : Cardinality(s) <= n}
           T == {n \in Nat : ~ \E g : Sums(F, D(n), g)}
<1>0. \A s \in SUBSET S : IsFiniteSet(s) /\ Cardinality(s) \in Nat /\ Cardinality(s) <= Cardinality(S)
  BY FS_Subset, FS_CardinalityType
<1>1. T = {}
  <2>1. SUFFICES ASSUME T # {} PROVE FALSE
    OBVIOUS
  <2>2. T \in SUBSET Nat
    OBVIOUS
  <2>3. PICK n \in T : \A y \in T : n <= y
    <3> HIDE DEF T
    <3> QED BY <2>1, <2>2, LeastNatural
  <2>4. n \in Nat /\ ~ \E g : Sums(F, D(n), g)
    BY <2>3
  <2>5. CASE n = 0
    <3>1. D(n) = {{}}
      <4>1. \A s \in D(n) : s = {}
        BY <1>0, <2>5, FS_EmptySet
      <4>2. {} \in D(n)
        BY <2>5, FS_EmptySet
      <4> QED BY <4>1, <4>2
    <3>2. Sums(F, D(n), [s \in D(n) |-> 0])
      <4> HIDE DEF D
      <4> QED BY <3>1 DEF Sums
    <3> QED
      BY <3>2, <2>4
  <2>6. CASE n # 0
    <3>1. n - 1 \in Nat /\ ~(n <= n - 1)
      BY <2>4, <2>6
    <3>2. PICK g : Sums(F, D(n - 1), g)
      BY <3>1, <2>3
    <3> DEFINE h == [s \in D(n) |-> IF s = {} THEN 0 ELSE F[Pick(s)] + g[s \ {Pick(s)}]]
    <3>3. ASSUME NEW s \in D(n), s # {}
          PROVE  Pick(s) \in S /\ s \ {Pick(s)} \in D(n - 1)
      <4> DEFINE p == Pick(s)
      <4>1. p \in s
        BY <3>3 DEF Pick
      <4> HIDE DEF p
      <4>2. IsFiniteSet(s) /\ Cardinality(s) \in Nat /\ Cardinality(s) <= n /\ s \in SUBSET S
        BY <1>0
      <4>3. Cardinality(s \ {p}) = Cardinality(s) - 1
        BY <4>1, <4>2, FS_RemoveElement
      <4>4. s \ {p} \in D(n - 1)
        BY <4>2, <4>3, <2>4
      <4> QED
        BY <4>1, <4>2, <4>4 DEF p
    <3>4. \A s \in D(n - 1) : s \in D(n)
      BY <1>0, <2>4
    <3> HIDE DEF D
    <3>5. h \in [D(n) -> Int]
      BY <3>2, <3>3 DEF Sums
    <3>6. \A s \in D(n - 1) : h[s] = g[s]
      BY <3>2, <3>4 DEF Sums
    <3>7. \A s \in D(n) : h[s] = IF s = {} THEN 0 ELSE F[Pick(s)] + h[s \ {Pick(s)}]
      <4>1. TAKE s \in D(n)
      <4>2. h[s] = IF s = {} THEN 0 ELSE F[Pick(s)] + g[s \ {Pick(s)}]
        OBVIOUS
      <4>3. s # {} => h[s \ {Pick(s)}] = g[s \ {Pick(s)}]
        BY <3>3, <3>6
      <4> HIDE DEF h
      <4> QED
        BY <4>2, <4>3
    <3> HIDE DEF h
    <3>8. Sums(F, D(n), h)
      BY <3>5, <3>7 DEF Sums
    <3> QED
      BY <3>8, <2>4
  <2> QED
    BY <2>5, <2>6
<1>2. Cardinality(S) \in Nat
  BY FS_CardinalityType
<1>3. D(Cardinality(S)) = SUBSET S
  BY <1>0
<1>4. PICK g : Sums(F, D(Cardinality(S)), g)
  BY <1>1, <1>2
<1> QED
  BY <1>3, <1>4

\* SumFunction is the last of the sums.
LEMMA SumFunctionSums ==
  ASSUME NEW S, IsFiniteSet(S), NEW F \in [S -> Int]
  PROVE  \E g : Sums(F, SUBSET S, g) /\ SumFunction(F) = g[S]
<1> DEFINE B(iter) == iter = [s \in SUBSET S |->
                         IF s = {} THEN 0 ELSE F[Pick(s)] + iter[s \ {Pick(s)}]]
           c == CHOOSE iter : B(iter)
<1>1. PICK g : Sums(F, SUBSET S, g)
  BY SumsExist
<1>2. B(g)
  BY <1>1 DEF Sums
<1>3. B(c)
  BY <1>2
<1>4. DOMAIN F = S
  OBVIOUS
<1>5. SumFunction(F) = (CHOOSE iter : iter = [s \in SUBSET DOMAIN F |->
        IF s = {} THEN 0 ELSE F[Pick(s)] + iter[s \ {Pick(s)}]])[DOMAIN F]
  BY DEF SumFunction, SumFunctionOnSet, FoldFunctionOnSet, MapThenFoldSet, Pick
<1>6. SumFunction(F) = c[S]
  BY <1>4, <1>5
<1> HIDE DEF c
<1>7. \A s \in SUBSET S : c[s] = IF s = {} THEN 0 ELSE F[Pick(s)] + c[s \ {Pick(s)}]
  BY <1>3
<1>8. \A s \in SUBSET S : c[s] \in Int
  <2> DEFINE Bad == {s \in SUBSET S : c[s] \notin Int}
  <2>1. SUFFICES ASSUME Bad # {} PROVE FALSE
    OBVIOUS
  <2>2. PICK m \in Bad : \/ m = {}
                         \/ /\ Pick(m) \in m /\ m \ {Pick(m)} \in SUBSET S
                            /\ m \ {Pick(m)} \notin Bad
    <3>1. Bad \in SUBSET (SUBSET S)
      OBVIOUS
    <3> HIDE DEF Bad
    <3> QED BY <2>1, <3>1, SubsetsLeave
  <2>3. m \in SUBSET S /\ c[m] \notin Int /\ m # {}
    BY <2>2, <1>7
  <2>4. c[m] = F[Pick(m)] + c[m \ {Pick(m)}] /\ F[Pick(m)] \in Int /\ c[m \ {Pick(m)}] \in Int
    BY <1>7, <2>2, <2>3
  <2> QED
    BY <2>3, <2>4
<1>9. c \in [SUBSET S -> Int]
  BY <1>3, <1>8
<1> QED
  BY <1>6, <1>7, <1>9 DEF Sums

\* A sum of integers is an integer.
LEMMA SumType ==
  ASSUME NEW S, IsFiniteSet(S), NEW F \in [S -> Int]
  PROVE  SumFunction(F) \in Int
<1>1. PICK g : Sums(F, SUBSET S, g) /\ SumFunction(F) = g[S]
  BY SumFunctionSums, Zenon
<1> QED
  BY <1>1 DEF Sums

\* F - H is D, which is in 100000ths of a tick, to half a tick.
HalfATickOff(S, F, H, D) ==
  \A x \in S : Magnitude((F[x] - H[x]) * 100000 - D[x]) <= 50000

SumsOff(S, F, H, D) ==
  Magnitude((SumFunction(F) - SumFunction(H)) * 100000 - SumFunction(D)) <= 50000 * Cardinality(S)

\* Errors add up: what is off by at most half a tick for each element is off by
\* at most half a tick times their number in the sums.
LEMMA SumsClose ==
  ASSUME NEW S, IsFiniteSet(S), NEW F \in [S -> Int], NEW H \in [S -> Int], NEW D \in [S -> Int],
         HalfATickOff(S, F, H, D)
  PROVE  SumsOff(S, F, H, D)
<1>1. PICK f : Sums(F, SUBSET S, f) /\ SumFunction(F) = f[S]
  BY SumFunctionSums, Zenon
<1>2. PICK h : Sums(H, SUBSET S, h) /\ SumFunction(H) = h[S]
  BY SumFunctionSums, Zenon
<1>3. PICK d : Sums(D, SUBSET S, d) /\ SumFunction(D) = d[S]
  BY SumFunctionSums, Zenon
<1> DEFINE Good(s) == Magnitude((f[s] - h[s]) * 100000 - d[s]) <= 50000 * Cardinality(s)
           Bad == {s \in SUBSET S : ~Good(s)}
<1>4. Bad = {}
  <2>1. SUFFICES ASSUME Bad # {} PROVE FALSE
    OBVIOUS
  <2>2. PICK m \in Bad : \/ m = {}
                        \/ /\ Pick(m) \in m /\ m \ {Pick(m)} \in SUBSET S
                           /\ m \ {Pick(m)} \notin Bad
                           /\ IsFiniteSet(m) /\ Cardinality(m \ {Pick(m)}) \in Nat
                           /\ Cardinality(m) = Cardinality(m \ {Pick(m)}) + 1
    <3>1. Bad \in SUBSET (SUBSET S)
      OBVIOUS
    <3> HIDE DEF Bad
    <3> QED BY <2>1, <3>1, SubsetsLeave, Zenon
  <2>3. m \in SUBSET S /\ ~Good(m)
    OBVIOUS
  <2>4. CASE m = {}
    <3>1. f[m] = 0 /\ h[m] = 0 /\ d[m] = 0
      <4> HIDE DEF Good
      <4> QED BY <1>1, <1>2, <1>3, <2>3, <2>4 DEF Sums
    <3>2. Cardinality(m) = 0
      BY <2>4, FS_EmptySet
    <3> QED
      BY <3>1, <3>2, <2>3 DEF Magnitude
  <2>5. CASE m # {}
    <3> DEFINE p == Pick(m)
               r == m \ {p}
    <3>1. /\ p \in S /\ r \in SUBSET S /\ Good(r)
          /\ Cardinality(r) \in Nat /\ Cardinality(m) = Cardinality(r) + 1
      BY <2>2, <2>5
    <3>2. f[m] = F[p] + f[r] /\ h[m] = H[p] + h[r] /\ d[m] = D[p] + d[r]
      <4> HIDE DEF Good
      <4>1. f[m] = F[p] + f[r]
        BY <1>1, <2>3, <2>5 DEF Sums
      <4>2. h[m] = H[p] + h[r]
        BY <1>2, <2>3, <2>5 DEF Sums
      <4>3. d[m] = D[p] + d[r]
        BY <1>3, <2>3, <2>5 DEF Sums
      <4> QED BY <4>1, <4>2, <4>3
    <3>3. /\ F[p] \in Int /\ H[p] \in Int /\ D[p] \in Int
          /\ f[r] \in Int /\ h[r] \in Int /\ d[r] \in Int
      BY <1>1, <1>2, <1>3, <3>1 DEF Sums
    <3>4. Magnitude((F[p] - H[p]) * 100000 - D[p]) <= 50000
      BY <3>1 DEF HalfATickOff
    <3> HIDE DEF p, r
    <3> QED
      BY <3>1, <3>2, <3>3, <3>4, <2>3 DEF Magnitude
  <2> QED
    BY <2>4, <2>5
<1>5. Good(S)
  <2> HIDE DEF Good
  <2> QED BY <1>4
<1> QED
  BY <1>1, <1>2, <1>3, <1>5 DEF SumsOff

(***************************************************************************)
(* The contract arithmetic against the exact fee                             *)
(***************************************************************************)
\* A rounded quotient is off by half the denominator at most.
LEMMA QuotientOff ==
  ASSUME NEW num \in Int, NEW den \in Nat, den > 0, NEW q, q = RoundedQuotient(num, den)
  PROVE  q \in Int /\ 2 * (den * q) <= 2 * num + den /\ 2 * num <= 2 * (den * q) + den
<1> DEFINE h == den \div 2
<1>1. h \in Int /\ 2 * h <= den /\ den <= 2 * h + 1
  OBVIOUS
<1> HIDE DEF h
<1>2. q = (num + h) \div den
  BY DEF RoundedQuotient, h
<1>3. q \in Int /\ den * q <= num + h /\ num + h < den * q + den
  BY <1>1, <1>2
<1>4. den * q \in Int
  BY <1>3
<1> QED
  BY <1>1, <1>3, <1>4

\* What the fees of an amount come to, times 100000, before any rounding.
FeeBase(gross, t) ==
  (Magnitude(gross) * NonNegative(t.pct) + NonNegative(t.fixed) * 1000) * (100 + t.iva)

\* The base of a fee is an amount.
LEMMA FeeBaseType ==
  ASSUME NEW t \in ContractTerms, NEW gross \in Int
  PROVE  FeeBase(gross, t) \in Int /\ FeeBase(gross, t) >= 0
<1>1. Magnitude(gross) \in Nat /\ NonNegative(t.pct) \in Nat /\ NonNegative(t.fixed) \in Nat
      /\ 100 + t.iva \in Nat
  BY DEF ContractTerms, Magnitude, NonNegative
<1>2. \A a, b, c, d \in Nat : (a * b + c * 1000) * d \in Nat
  OBVIOUS
<1>3. FeeBase(gross, t) \in Nat
  BY <1>1, <1>2 DEF FeeBase
<1> QED
  BY <1>3

\* FeeTotal and FeeDue round the same base: the fee a net takes is the fee due
\* to half a tick.
LEMMA FeeOff ==
  ASSUME NEW t \in ContractTerms, NEW gross \in Int
  PROVE  /\ NetOnGross(gross, t) \in Int /\ FeeDue(gross, t) \in Int
         /\ Magnitude((gross - NetOnGross(gross, t)) * 100000 - FeeDue(gross, t)) <= 50000
<1> DEFINE base == FeeBase(gross, t)
           fee  == FeeTotal(gross, t)
<1>1. base \in Int
  BY FeeBaseType
<1>2. fee = RoundedQuotient(base, 100000)
  BY DEF FeeTotal, FeeBase, IvaFactor
<1>3. FeeDue(gross, t) = IF gross >= 0 THEN base ELSE -base
  BY DEF FeeDue, FeeBase
<1>4. NetOnGross(gross, t) = IF gross >= 0 THEN gross - fee ELSE gross + fee
  BY DEF NetOnGross
<1> HIDE DEF base, fee
<1>5. fee \in Int /\ 2 * (100000 * fee) <= 2 * base + 100000 /\ 2 * base <= 2 * (100000 * fee) + 100000
  BY <1>1, <1>2, QuotientOff
<1>6. CASE gross >= 0
  <2>1. NetOnGross(gross, t) = gross - fee /\ FeeDue(gross, t) = base
    BY <1>3, <1>4, <1>6
  <2> QED
    BY <2>1, <1>1, <1>5 DEF Magnitude
<1>7. CASE gross < 0
  <2>1. NetOnGross(gross, t) = gross + fee /\ FeeDue(gross, t) = -base
    BY <1>3, <1>4, <1>7
  <2> QED
    BY <2>1, <1>1, <1>5 DEF Magnitude
<1> QED
  BY <1>6, <1>7

\* What an honest gateway pays for an amount is the contract's net to the cent.
LEMMA HonestNetIsEqual ==
  ASSUME NEW t \in ContractTerms, t # None, NEW gross \in Int
  PROVE  /\ HonestNet(gross, t) \in Int
         /\ Magnitude(HonestNet(gross, t) - NetOnGross(gross, t)) < Cent
<1> DEFINE due == FeeDue(gross, t)
           net == NetOnGross(gross, t)
           f   == due \div 100000
           x   == gross - f
           c   == (x + 50) \div 100
<1>1. due \in Int /\ net \in Int /\ Magnitude((gross - net) * 100000 - due) <= 50000
  BY FeeOff
<1>2. HonestNet(gross, t) = c * 100
  BY DEF HonestNet, RoundToCent
<1> HIDE DEF due, net
<1>3. f \in Int /\ 100000 * f <= due /\ due < 100000 * f + 100000
  BY <1>1
<1> HIDE DEF f
<1>4. x \in Int
  BY <1>3
<1>5. net <= x + 1 /\ x <= net + 1
  BY <1>1, <1>3 DEF Magnitude
<1> HIDE DEF x
<1>6. c \in Int /\ 100 * c <= x + 50 /\ x + 50 < 100 * c + 100
  BY <1>4
<1> HIDE DEF c
<1> QED
  BY <1>1, <1>2, <1>4, <1>5, <1>6 DEF Magnitude, Cent, net

\* gross_up_from_net inverts fee_on_gross for any net, not for small ones alone.
LEMMA GrossUpIsInverse ==
  ASSUME NEW t \in ContractTerms, NEW net \in Int, net > 0, CanGrossUp(t)
  PROVE  Magnitude(NetOnGross(GrossUp(net, t), t) - net) <= 1
<1> DEFINE p   == NonNegative(t.pct)
           fx  == NonNegative(t.fixed)
           v   == IvaFactor(t)
           u   == p * v
           z   == fx * v
           den == 100000 - u
           num == (net * 100 + z) * 1000
           g   == GrossUp(net, t)
<1>1. p \in Nat /\ fx \in Nat /\ v \in Nat
  BY DEF ContractTerms, NonNegative, IvaFactor
<1>2. den = GrossUpDenominator(t) /\ g = RoundedQuotient(num, den)
  BY DEF GrossUp, GrossUpDenominator
<1> HIDE DEF p, fx, v, g
<1>3. u \in Nat /\ z \in Nat
  BY <1>1
<1>4. den > 1000
  BY <1>2 DEF CanGrossUp
<1>5. v = 100 + t.iva
  BY DEF v, IvaFactor
<1> HIDE DEF u, z
<1>6. num \in Int /\ num > 0 /\ den \in Nat /\ den > 0
  BY <1>3, <1>4
<1> HIDE DEF num, den
<1>7. g \in Int /\ 2 * (den * g) <= 2 * num + den /\ 2 * num <= 2 * (den * g) + den
  BY <1>2, <1>6, QuotientOff
<1>8. g >= 0
  <2>1. SUFFICES ASSUME g <= -1 PROVE FALSE
    BY <1>7
  <2>2. den * g <= -den
    BY <1>6, <1>7, <2>1
  <2>3. den * g \in Int
    BY <1>6, <1>7
  <2> QED
    BY <1>6, <1>7, <2>2, <2>3
<1> DEFINE w == g * u
<1>9. w \in Int
  BY <1>3, <1>7
<1>10. den * g = 100000 * g - w
  BY <1>3, <1>7 DEF den
<1>11. FeeBase(g, t) = w + 1000 * z
  <2>1. FeeBase(g, t) = (g * p + fx * 1000) * v
    BY <1>7, <1>8, <1>5 DEF FeeBase, Magnitude, p, fx
  <2>2. (g * p + fx * 1000) * v = (g * p) * v + (fx * 1000) * v
    BY <1>1, <1>7
  <2>3. (g * p) * v = g * (p * v) /\ (fx * 1000) * v = 1000 * (fx * v)
    BY <1>1, <1>7
  <2> QED
    BY <2>1, <2>2, <2>3 DEF u, z
<1> HIDE DEF w
<1>12. FeeDue(g, t) = w + 1000 * z
  <2>1. FeeDue(g, t) = FeeBase(g, t)
    BY <1>7, <1>8 DEF FeeDue, FeeBase
  <2> QED
    BY <2>1, <1>11
<1>13. NetOnGross(g, t) \in Int /\ Magnitude((g - NetOnGross(g, t)) * 100000 - FeeDue(g, t)) <= 50000
  BY <1>7, FeeOff
<1> DEFINE n == NetOnGross(g, t)
<1>14. n \in Int /\ Magnitude((g - n) * 100000 - (w + 1000 * z)) <= 50000
  BY <1>12, <1>13
<1> HIDE DEF n
<1>15. Magnitude(n - net) <= 1
  <2>1. num = net * 100000 + 1000 * z /\ den <= 100000
    BY <1>3 DEF num, den
  <2>2. (g - n) * 100000 = 100000 * g - 100000 * n
    BY <1>7, <1>14
  <2> DEFINE y == 100000 * g - w
  <2>3. y \in Int /\ 2 * y <= 2 * num + den /\ 2 * num <= 2 * y + den
    BY <1>7, <1>9, <1>10
  <2>4. Magnitude(y - 100000 * n - 1000 * z) <= 50000
    BY <1>14, <2>2, <1>9, <1>3, <1>7
  <2> HIDE DEF y
  <2> QED
    BY <1>3, <1>6, <1>14, <2>1, <2>3, <2>4 DEF Magnitude
<1> QED
  BY <1>15 DEF n, g

(***************************************************************************)
(* Settlements                                                               *)
(***************************************************************************)
ReportedLegs ==
  {Reported(gross, net, column, link, day) :
     gross \in Grosses, net \in Int, column \in {"gross", "amount"}, link \in {"ref", "settle"},
     day \in Days}

\* A settlement is well typed: each leg was reported with a gross of a sale or a
\* refund and some net, and the bank paid nothing yet or an amount.
SettlementTyped ==
  /\ contract \in Terms
  /\ sales \in Seq(ReportedLegs)
  /\ paid \in Int \cup {None}

\* A reported leg carries its gross in one column, and its net.
LEMMA ReportedLegIs ==
  ASSUME NEW p \in ReportedLegs
  PROVE  /\ GrossOf(p) \in Grosses /\ GrossOf(p) \in Int /\ ResolveGross(p) = GrossOf(p)
         /\ p.net \in Int /\ Linked([Payment EXCEPT !.ref = "S-7"], p)
<1>1. PICK gross \in Grosses, net \in Int, column \in {"gross", "amount"},
           link \in {"ref", "settle"}, day \in Days : p = Reported(gross, net, column, link, day)
  BY DEF ReportedLegs
<1>2. gross \in Int /\ gross # 0 /\ gross # None
  BY SettlementAssumption
<1>3. /\ p.amount = IF column = "amount" THEN gross ELSE net
      /\ p.gross = IF column = "gross" THEN gross ELSE None
      /\ p.net = net
      /\ p.ref = IF link = "ref" THEN "s-7" ELSE "X-1"
      /\ p.settle = IF link = "settle" THEN "S-7" ELSE None
  BY <1>1 DEF Reported
<1>4. GrossOf(p) = gross
  BY <1>2, <1>3 DEF GrossOf
<1>5. ResolveGross(p) = gross
  BY <1>2, <1>3 DEF ResolveGross
<1>6. Linked([Payment EXCEPT !.ref = "S-7"], p)
  <2> DEFINE b == [Payment EXCEPT !.ref = "S-7"]
  <2>1. b.ref = "S-7" /\ b.settle = "s-7"
    BY DEF Payment
  <2> HIDE DEF b
  <2>2. p.ref = "s-7" \/ p.settle = "S-7"
    BY <1>3
  <2>3. SameRef("S-7", "s-7") /\ SameRef("s-7", "S-7")
    BY SettlementAssumption DEF SameRef
  <2>4. Linked(b, p)
    BY <2>1, <2>2, <2>3 DEF Linked
  <2> QED
    BY <2>4 DEF b
<1> QED
  BY <1>2, <1>3, <1>4, <1>5, <1>6

\* A contract in force is one of ContractTerms.
LEMMA ContractIs ==
  ASSUME NEW t \in Terms, t # None
  PROVE  t \in ContractTerms
BY SettlementAssumption

\* What a gateway would pay for an amount is an amount, with a contract or not.
LEMMA HonestNetType ==
  ASSUME NEW t \in Terms, NEW gross \in Grosses
  PROVE  HonestNet(gross, t) \in Int
<1>1. gross \in Int
  BY SettlementAssumption
<1>2. CASE t = None
  BY <1>1, <1>2 DEF HonestNet
<1>3. CASE t # None
  BY <1>1, <1>3, ContractIs, HonestNetIsEqual
<1> QED
  BY <1>2, <1>3

\* The legs of a settlement are finitely many, each of them a reported one.
LEMMA GroupIs ==
  ASSUME sales \in Seq(ReportedLegs)
  PROVE  /\ IsFiniteSet(Group) /\ Cardinality(Group) = Len(sales) /\ Len(sales) \in Nat
         /\ \A i \in Group : sales[i] \in ReportedLegs
<1>1. Len(sales) \in Nat /\ Group = 1..Len(sales)
  BY DEF Group
<1>2. \A i \in Group : sales[i] \in ReportedLegs
  BY ElementOfSeq, <1>1
<1>3. Cardinality(1..Len(sales)) = Len(sales) /\ IsFiniteSet(1..Len(sales))
  <2>1. 1 \in Int /\ Len(sales) \in Int
    BY <1>1
  <2>2. /\ IsFiniteSet(1..Len(sales))
        /\ Cardinality(1..Len(sales)) = IF 1 > Len(sales) THEN 0 ELSE Len(sales) - 1 + 1
    BY <2>1, FS_Interval
  <2> QED
    BY <1>1, <2>2
<1> QED
  BY <1>1, <1>2, <1>3

\* SettlementTyped holds in every reachable state.
LEMMA SettlementsTyped == SettlementSpec => []SettlementTyped
<1>1. SettlementInit => SettlementTyped
  BY DEF SettlementInit, SettlementTyped
<1>2. SettlementTyped /\ [SettlementNext]_settlement => SettlementTyped'
  <2> SUFFICES ASSUME SettlementTyped, [SettlementNext]_settlement
               PROVE  SettlementTyped'
    OBVIOUS
  <2> USE DEF SettlementTyped
  <2>1. ASSUME NEW gross \in Grosses, NEW withheld \in Withheld, NEW column \in {"gross", "amount"},
               NEW link \in {"ref", "settle"}, NEW day \in Days,
               AddLeg(gross, withheld, column, link, day)
        PROVE  SettlementTyped'
    <3> DEFINE net == HonestNet(gross, contract) - withheld
               p   == Reported(gross, net, column, link, day)
    <3>1. withheld \in Int /\ HonestNet(gross, contract) \in Int
      BY HonestNetType, SettlementAssumption
    <3>2. net \in Int
      BY <3>1
    <3> HIDE DEF net
    <3>3. p \in ReportedLegs
      BY <3>2 DEF ReportedLegs
    <3>4. sales' = Append(sales, p) /\ contract' = contract /\ paid' = paid
      BY <2>1 DEF AddLeg, net
    <3> HIDE DEF p
    <3>5. Append(sales, p) \in Seq(ReportedLegs)
      BY <3>3, AppendProperties
    <3> QED
      BY <3>4, <3>5
  <2>2. ASSUME NEW offset \in Offsets, Pay(offset)
        PROVE  SettlementTyped'
    <3>1. NetSum \in Int
      <4>1. \A i \in Group : sales[i].net \in Int
        BY GroupIs, ReportedLegIs
      <4> DEFINE F == [i \in Group |-> sales[i].net]
      <4>2. F \in [Group -> Int]
        BY <4>1
      <4> HIDE DEF F
      <4>3. SumFunction(F) \in Int
        BY <4>2, GroupIs, SumType
      <4> QED
        BY <4>3 DEF NetSum, F
    <3>2. offset \in Int
      BY SettlementAssumption
    <3>3. paid' = NetSum + offset /\ sales' = sales /\ contract' = contract
      BY <2>2 DEF Pay
    <3> QED
      BY <3>1, <3>2, <3>3
  <2>3. CASE UNCHANGED settlement
    BY <2>3 DEF settlement
  <2> QED
    BY <2>1, <2>2, <2>3 DEF SettlementNext
<1> QED
  BY <1>1, <1>2, PTL DEF SettlementSpec

\* The stamp of a leg under contract is the contract's net of its gross.
LEMMA StampIs ==
  ASSUME SettlementTyped, contract # None, NEW i \in Group
  PROVE  /\ contract \in ContractTerms /\ GrossOf(sales[i]) \in Int
         /\ Stamps[i].cnet = NetOnGross(GrossOf(sales[i]), contract)
         /\ Stamps[i].cnet \in Int /\ Stamps[i].cnet # None
<1>1. contract \in ContractTerms
  BY ContractIs DEF SettlementTyped
<1>2. sales[i] \in ReportedLegs
  BY GroupIs DEF SettlementTyped
<1>3. GrossOf(sales[i]) \in Int /\ ResolveGross(sales[i]) = GrossOf(sales[i])
  BY <1>2, ReportedLegIs
<1>4. Stamps[i].cnet = NetOnGross(ResolveGross(sales[i]), contract)
  BY DEF Stamps, Group, ApplyContractRecalc
<1>5. NetOnGross(GrossOf(sales[i]), contract) \in Int
  BY <1>1, <1>3, FeeOff
<1> QED
  BY <1>1, <1>3, <1>4, <1>5, SettlementAssumption

\* HonestLegIsConfirmed: whatever the contract, the amounts and the net that the
\* gateway declares, a sale or refund paid to the cent as the contract says, and
\* in time, is confirmed (matching_engine.py, amount_candidates).
THEOREM HonestLegsAreConfirmed == SettlementSpec => []HonestLegIsConfirmed
<1>1. SettlementTyped => HonestLegIsConfirmed
  <2> SUFFICES ASSUME SettlementTyped, Paid, contract # None, NEW i \in Group,
                      paid = HonestNet(GrossOf(sales[i]), contract),
                      ~DatesTooFar(Payment, sales[i])
               PROVE  Confirms1to1(Links(i), sales[i], Stamps[i])
    BY DEF HonestLegIsConfirmed
  <2> DEFINE b == Links(i)
             s == Stamps[i]
  <2>1. b.amt = paid /\ b.day = 10 /\ b.ref = "S-7" /\ b.settle = "s-7"
    BY DEF Links, Payment
  <2>2. Linked(b, sales[i])
    BY GroupIs, ReportedLegIs DEF SettlementTyped, Links
  <2>3. ~DatesTooFar(b, sales[i])
    BY <2>1 DEF DatesTooFar, Payment
  <2>4. Magnitude(paid - s.cnet) < Cent /\ s.cnet # None
    BY StampIs, HonestNetIsEqual
  <2>5. Equal(b.amt, s.cnet) /\ s.cnet # None
    BY <2>1, <2>4 DEF Equal
  <2> HIDE DEF b, s
  <2>6. ~GatewayBlock(b.amt, s)
    BY <2>5 DEF GatewayBlock, BankMatchesContractNet
  <2>7. AmountOk(b, sales[i], s)
    BY <2>5 DEF AmountOk, AmountCandidates
  <2>8. Comparable(b, sales[i])
    BY <2>1, <2>2 DEF Comparable, Paid
  <2> QED
    BY <2>3, <2>6, <2>7, <2>8 DEF Confirms1to1, b, s
<1> QED
  BY <1>1, SettlementsTyped, PTL

\* An amount a cent off the net moves the fee withheld by at most a cent.
CentMoves(gross, net, due, amt, off) ==
  Magnitude((gross - net) * 100000 - due) <= off /\ Magnitude(amt - net) <= Cent =>
    Magnitude((gross - amt) * 100000 - due) <= 100000 * Cent + off

\* It does, for any amounts.
LEMMA CentOff ==
  ASSUME NEW gross \in Int, NEW net \in Int, NEW due \in Int, NEW amt \in Int, NEW off \in Int
  PROVE  CentMoves(gross, net, due, amt, off)
<1> SUFFICES ASSUME Magnitude((gross - net) * 100000 - due) <= off, Magnitude(amt - net) <= Cent
             PROVE  Magnitude((gross - amt) * 100000 - due) <= 100000 * Cent + off
  BY DEF CentMoves
<1> DEFINE x == (gross - net) * 100000 - due
           y == net - amt
<1>1. x \in Int /\ y \in Int /\ -off <= x /\ x <= off /\ -Cent <= y /\ y <= Cent
  BY DEF Magnitude, Cent
<1>2. (gross - amt) * 100000 - due = x + y * 100000
  OBVIOUS
<1> HIDE DEF x, y
<1> QED
  BY <1>1, <1>2 DEF Magnitude, Cent

\* ConfirmedAtContract: for any contract and any number of legs, what is
\* confirmed as a settlement withheld the fee due on all of it, to the cent and
\* half a tick for each leg (matching_engine.py, "bank must match
\* contract-recalculated net").
THEOREM ConfirmedSettlementsAtContract == SettlementSpec => []ConfirmedAtContract
<1>1. SettlementTyped => ConfirmedAtContract
  <2> SUFFICES ASSUME SettlementTyped, Paid, contract # None,
                      Confirms1toN(Payment, Group, sales, Stamps)
               PROVE  Magnitude((GrossSum - paid) * 100000 - DueSum)
                        <= 100000 * Cent + 50000 * Len(sales)
    BY DEF ConfirmedAtContract
  <2> DEFINE F == [i \in Group |-> GrossOf(sales[i])]
             H == [i \in Group |-> LegAmount(sales[i], Stamps[i])]
             D == [i \in Group |-> FeeDue(GrossOf(sales[i]), contract)]
  <2>1. ASSUME NEW i \in Group
        PROVE  /\ F[i] \in Int /\ H[i] \in Int /\ D[i] \in Int
               /\ Magnitude((F[i] - H[i]) * 100000 - D[i]) <= 50000
    <3>1. H[i] = NetOnGross(GrossOf(sales[i]), contract)
      BY StampIs DEF LegAmount
    <3> QED
      BY <3>1, StampIs, FeeOff
  <2>2. F \in [Group -> Int] /\ H \in [Group -> Int] /\ D \in [Group -> Int]
    BY <2>1
  <2>3. GrossSum = SumFunction(F) /\ DueSum = SumFunction(D)
        /\ LegsSum(Group, sales, Stamps) = SumFunction(H)
    BY DEF GrossSum, DueSum, LegsSum
  <2>4. HalfATickOff(Group, F, H, D)
    BY <2>1 DEF HalfATickOff
  <2> HIDE DEF F, H, D
  <2>5. IsFiniteSet(Group) /\ Cardinality(Group) = Len(sales) /\ Len(sales) \in Nat
    BY GroupIs DEF SettlementTyped
  <2>6. Magnitude((SumFunction(F) - SumFunction(H)) * 100000 - SumFunction(D))
          <= 50000 * Len(sales)
    <3>1. SumsOff(Group, F, H, D)
      BY <2>2, <2>4, <2>5, SumsClose
    <3> QED
      BY <3>1, <2>5 DEF SumsOff
  <2>7. SumFunction(F) \in Int /\ SumFunction(H) \in Int /\ SumFunction(D) \in Int
    BY <2>2, <2>5, SumType
  <2>8. Equal(paid, SumFunction(H)) /\ paid \in Int
    BY <2>3 DEF Confirms1toN, GroupComparable, Payment, SettlementTyped, Paid
  <2>9. Magnitude(paid - SumFunction(H)) <= Cent
    BY <2>7, <2>8 DEF Equal, Cent, Magnitude
  <2>10. Magnitude((SumFunction(F) - paid) * 100000 - SumFunction(D))
           <= 100000 * Cent + 50000 * Len(sales)
    <3>1. 50000 * Len(sales) \in Int
      BY <2>5
    <3>2. CentMoves(SumFunction(F), SumFunction(H), SumFunction(D), paid, 50000 * Len(sales))
      BY <2>7, <2>8, <3>1, CentOff
    <3> QED
      BY <2>6, <2>9, <3>2 DEF CentMoves
  <2> QED
    BY <2>3, <2>10
<1> QED
  BY <1>1, SettlementsTyped, PTL

\* GrossUpInverts: whatever the contract and the net of a leg, gross_up_from_net
\* infers a gross whose net is the observed one, to the tick (contract_math.py).
THEOREM GrossUpsInvert == SettlementSpec => []GrossUpInverts
<1>1. SettlementTyped => GrossUpInverts
  <2> SUFFICES ASSUME SettlementTyped, NEW t \in Terms \ {None}, NEW i \in Group,
                      sales[i].net > 0, CanGrossUp(t)
               PROVE  Magnitude(NetOnGross(GrossUp(sales[i].net, t), t) - sales[i].net) <= 1
    BY DEF GrossUpInverts
  <2>1. sales[i].net \in Int /\ t \in ContractTerms
    <3>1. sales[i] \in ReportedLegs
      BY GroupIs DEF SettlementTyped
    <3>2. sales[i].net \in Int
      BY <3>1, ReportedLegIs
    <3> QED
      BY <3>2, ContractIs
  <2> QED
    BY <2>1, GrossUpIsInverse
<1> QED
  BY <1>1, SettlementsTyped, PTL
=============================================================================
