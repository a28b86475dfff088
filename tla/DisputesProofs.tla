--------------------------- MODULE DisputesProofs ---------------------------
(***************************************************************************)
(* Proofs about disputes, for any number of disputes, calls, amounts and     *)
(* notes: a resolution is whole, a direct e-mail is logged, and a summary    *)
(* misses no dispute.                                                        *)
(*                                                                         *)
(* What carries them is that a dispute, once there, stays, and once resolved *)
(* stays resolved, although a commit writes only what differs from an older  *)
(* copy: ResolverOK says that a copy which is resolved is of a dispute that  *)
(* is.  SummaryOK follows a dispute of the total to the later queries.       *)
(***************************************************************************)
EXTENDS Disputes, TLAPS

\* A resolution in progress has a copy of its dispute, not ahead of the row.
ResolverOK(r) ==
  req[r].at = "commit" /\ req[r].kind = "resolve" =>
    /\ req[r].dispute \in Disputes
    /\ req[r].loaded \in Row
    /\ req[r].want \in Row /\ req[r].want.status = "resolved"
    /\ dispute[req[r].dispute] \in Row
    /\ req[r].loaded.status = "resolved" => dispute[req[r].dispute].status = "resolved"

\* An e-mail leaves at the call of send_email and at no other time.
MailOK(r) ==
  /\ req[r].at \in {"new", "provider", "smtp", "query"} => delivered[r] = 0
  /\ req[r].kind = "direct" =>
       /\ req[r].at # "query"
       /\ req[r].at = "commit" /\ req[r].success => delivered[r] = 1
       /\ req[r].at \in {"new", "provider", "smtp", "refused"} => delivered[r] = 0
       /\ req[r].at = "done" => log[r] = "sent"
       /\ req[r].at = "failed" => log[r] = "failed"

\* A dispute of the first query is there; if it was not in the fourth, it is
\* resolved by then, and so it is in the fifth.
SeenOK(seen) ==
  Len(seen) >= 1 => \A d \in seen[1] :
    /\ dispute[d] \in Row
    /\ Len(seen) >= 4 => d \in seen[4] \/ dispute[d].status = "resolved"
    /\ Len(seen) = 5 => d \in seen[4] \/ d \in seen[5]

SummaryOK(r) ==
  /\ Len(req[r].seen) <= 5
  /\ req[r].at = "query" => Len(req[r].seen) < 5
  /\ req[r].kind = "summary" /\ req[r].at = "done" => Len(req[r].seen) = 5
  /\ SeenOK(req[r].seen)

Inv ==
  /\ TypeOK
  /\ ResolutionIsWhole
  /\ \A r \in Requests : ResolverOK(r) /\ MailOK(r) /\ SummaryOK(r)

\* The log calls no e-mail sent that has not left.
LogIsTrue == \A r \in Requests : log[r] = "sent" => delivered[r] = 1

\* The inductive invariants imply the two invariants of the run.
LEMMA InvIsEnough == Inv /\ LogIsTrue => ResolutionIsWhole /\ DirectSendsAreLogged
<1> SUFFICES ASSUME Inv, LogIsTrue, NEW r \in Requests, req[r].kind = "direct"
             PROVE  /\ req[r].at = "done" => log[r] = "sent"
                    /\ req[r].at = "failed" => log[r] = "failed"
                    /\ log[r] = "sent" => delivered[r] = 1
                    /\ delivered[r] = 1 /\ log[r] = None => req[r].at \in {"commit", "aborted"}
  BY DEF Inv, DirectSendsAreLogged
<1>1. MailOK(r) /\ req[r].at \in Step
  BY DEF Inv, TypeOK
<1>2. delivered[r] = 1 => req[r].at \in {"commit", "aborted", "done", "failed"}
  BY <1>1 DEF MailOK, Step, Ended
<1> QED
  BY <1>1, <1>2, NoneAssumption DEF MailOK, LogIsTrue

(***************************************************************************)
(* Rows                                                                      *)
(***************************************************************************)
LEMMA OpenedIsRow == Opened \in Row /\ Opened # None /\ Opened.status = "open"
BY AmountsAssumption, NoneAssumption DEF Opened, Row

\* What resolve_dispute writes is a resolved row.
LEMMA ResolutionIsRow ==
  ASSUME NEW amount \in Amounts, NEW notes \in Notes
  PROVE  Resolution(amount, notes) \in Row /\ Resolution(amount, notes).status = "resolved"
BY DEF Resolution, Row

\* A commit over an older copy: the row is a row, the status is the new one only
\* where the copy has another, and over the copy itself all is new.
LEMMA Merged ==
  ASSUME NEW now \in Row, NEW loaded \in Row, NEW want \in Row
  PROVE  /\ Merge(now, loaded, want) \in Row
         /\ Merge(now, loaded, want).status =
              IF want.status # loaded.status THEN want.status ELSE now.status
         /\ now = loaded => Merge(now, loaded, want) = want
<1> DEFINE Merge3 == [status |-> IF want.status # loaded.status THEN want.status ELSE now.status,
                      recovery_amount |-> IF want.recovery_amount # loaded.recovery_amount
                                          THEN want.recovery_amount ELSE now.recovery_amount,
                      resolution_notes |-> IF want.resolution_notes # loaded.resolution_notes
                                           THEN want.resolution_notes ELSE now.resolution_notes]
<1>1. DOMAIN now = {"status", "recovery_amount", "resolution_notes"}
  BY DEF Row
<1>2. Merge(now, loaded, want) = Merge3
  BY <1>1 DEF Merge, Row
<1>3. Merge3 \in Row
  BY DEF Row
<1>4. now = loaded => Merge3 = want
  BY DEF Row
<1> QED
  BY <1>2, <1>3, <1>4

(***************************************************************************)
(* What a step leaves alone                                                  *)
(***************************************************************************)
\* A dispute stays, and stays resolved.
Stays ==
  \A d \in Disputes : dispute[d] \in Row =>
    dispute'[d] \in Row /\ (dispute[d].status = "resolved" => dispute'[d].status = "resolved")

\* What the queries of a summary have seen stays right as disputes only advance.
LEMMA SeenStays ==
  ASSUME Stays, NEW seen \in Seq(SUBSET Disputes), SeenOK(seen)
  PROVE  SeenOK(seen)'
<1>1. Len(seen) >= 1 => seen[1] \subseteq Disputes
  OBVIOUS
<1> QED
  BY <1>1 DEF SeenOK, Stays

\* A step of another request keeps what a request has read, sent and seen.
LEMMA Frame ==
  ASSUME Inv, Stays, NEW q \in Requests, req'[q] = req[q], delivered'[q] = delivered[q],
         log'[q] = log[q]
  PROVE  ResolverOK(q)' /\ MailOK(q)' /\ SummaryOK(q)'
<1>1. ResolverOK(q) /\ MailOK(q) /\ SummaryOK(q)
  BY DEF Inv
<1>2. ResolverOK(q)'
  BY <1>1 DEF ResolverOK, Stays
<1>3. MailOK(q)'
  BY <1>1 DEF MailOK
<1>4. SummaryOK(q)'
  <2>1. SeenOK(req[q].seen)'
    BY <1>1, SeenStays DEF SummaryOK, Inv, TypeOK
  <2> QED
    BY <1>1, <2>1 DEF SummaryOK, SeenOK
<1> QED
  BY <1>2, <1>3, <1>4

\* What is left to show of a step that is one call's and writes no dispute.
LEMMA OwnStep ==
  ASSUME Inv, NEW r \in Requests, NEW j, req' = [req EXCEPT ![r] = j],
         j \in [at : Step, kind : Kind \cup {None}, dispute : Disputes \cup {None},
                loaded : Row \cup {None}, want : Row \cup {None}, success : BOOLEAN,
                seen : Seq(SUBSET Disputes)],
         UNCHANGED <<dispute, resolved, torn>>,
         delivered' \in [Requests -> 0..1], log' \in [Requests -> {"sent", "failed", None}],
         \A q \in Requests \ {r} : delivered'[q] = delivered[q] /\ log'[q] = log[q],
         ResolverOK(r)', MailOK(r)', SummaryOK(r)'
  PROVE  Inv'
<1>1. TypeOK'
  BY DEF Inv, TypeOK
<1>2. ResolutionIsWhole'
  BY DEF Inv, ResolutionIsWhole
<1>3. Stays
  BY DEF Stays
<1>4. ASSUME NEW q \in Requests
      PROVE  ResolverOK(q)' /\ MailOK(q)' /\ SummaryOK(q)'
  <2>1. CASE q = r
    BY <2>1
  <2>2. CASE q # r
    <3>1. req'[q] = req[q]
      BY <2>2 DEF Inv, TypeOK
    <3> QED
      BY <1>3, <2>2, <3>1, Frame
  <2> QED
    BY <2>1, <2>2
<1> QED
  BY <1>1, <1>2, <1>4 DEF Inv

(***************************************************************************)
(* Calls                                                                     *)
(***************************************************************************)
LEMMA CallStep ==
  ASSUME Inv, NEW r \in Requests, NEW kind \in Kind,
         NEW at \in {"provider", "commit", "query", "refused"},
         NEW d \in Disputes \cup {None}, NEW want \in Row \cup {None}, Call(r, kind, at, d, want),
         at \in {"commit", "query"} => kind # "direct",
         at = "commit" /\ kind = "resolve" =>
           /\ d \in Disputes /\ dispute[d] # None
           /\ want \in Row /\ want.status = "resolved"
  PROVE  Inv'
<1> DEFINE j == [at |-> at, kind |-> kind, dispute |-> d, want |-> want, success |-> FALSE,
                 seen |-> <<>>, loaded |-> IF d = None THEN None ELSE dispute[d]]
<1>1. /\ req[r].at = "new" /\ req' = [req EXCEPT ![r] = j]
      /\ UNCHANGED <<dispute, delivered, log, resolved, torn>>
  BY DEF Call
<1>2. /\ j.at = at /\ j.kind = kind /\ j.dispute = d /\ j.want = want /\ j.seen = <<>>
      /\ j.loaded = (IF d = None THEN None ELSE dispute[d]) /\ j.success = FALSE
  OBVIOUS
<1>3. (IF d = None THEN None ELSE dispute[d]) \in Row \cup {None}
  BY DEF Inv, TypeOK
<1>4. j \in [at : Step, kind : Kind \cup {None}, dispute : Disputes \cup {None},
             loaded : Row \cup {None}, want : Row \cup {None}, success : BOOLEAN,
             seen : Seq(SUBSET Disputes)]
  BY <1>3 DEF Step, Ended
<1>5. req'[r] = j
  BY <1>1 DEF Inv, TypeOK
<1>6. delivered[r] = 0 /\ dispute \in [Disputes -> Row \cup {None}]
  BY <1>1 DEF Inv, MailOK, TypeOK
<1> HIDE DEF j
<1>7. ResolverOK(r)'
  BY <1>1, <1>2, <1>5, <1>6, NoneAssumption DEF ResolverOK
<1>8. MailOK(r)'
  BY <1>1, <1>2, <1>5, <1>6 DEF MailOK
<1>9. SummaryOK(r)'
  BY <1>2, <1>5 DEF SummaryOK, SeenOK
<1> QED
  BY <1>1, <1>4, <1>7, <1>8, <1>9, OwnStep DEF Inv, TypeOK

\* The start of a request keeps the invariant.
LEMMA ReceiveStep ==
  ASSUME Inv, NEW r \in Requests, Receive(r)
  PROVE  Inv'
<1>1. CASE CreateDispute(r)
  BY <1>1, CallStep, OpenedIsRow DEF CreateDispute, Kind
<1>2. CASE ResolveDispute(r)
  <2>1. PICK d \in Disputes, amount \in Amounts, notes \in Notes :
          dispute[d] # None /\ Call(r, "resolve", "commit", d, Resolution(amount, notes))
    BY <1>2 DEF ResolveDispute
  <2> QED
    BY <2>1, CallStep, ResolutionIsRow DEF Kind
<1>3. CASE SendDisputeEmail(r)
  BY <1>3, CallStep DEF SendDisputeEmail, Kind
<1>4. CASE SendDisputeEmailDirect(r)
  BY <1>4, CallStep DEF SendDisputeEmailDirect, Kind
<1>5. CASE NotFound(r)
  BY <1>5, CallStep DEF NotFound, Kind
<1>6. CASE GetDisputeSummary(r)
  BY <1>6, CallStep DEF GetDisputeSummary, Kind
<1> QED
  BY <1>1, <1>2, <1>3, <1>4, <1>5, <1>6 DEF Receive

\* An answer keeps the kind, the outcome and what a summary has seen.
LEMMA AnswerOne ==
  ASSUME Inv, NEW r \in Requests, NEW at \in Step, Answer(r, at)
  PROVE  \E j \in [at : Step, kind : Kind \cup {None}, dispute : Disputes \cup {None},
                    loaded : Row \cup {None}, want : Row \cup {None}, success : BOOLEAN,
                    seen : Seq(SUBSET Disputes)] :
           /\ req' = [req EXCEPT ![r] = j] /\ req'[r] = j
           /\ j.at = at /\ j.kind = req[r].kind /\ j.success = req[r].success
           /\ j.seen = req[r].seen
<1> DEFINE j == [req[r] EXCEPT !.at = at, !.loaded = None, !.want = None]
<1>1. req' = [req EXCEPT ![r] = j] /\ req'[r] = j
  BY DEF Answer, Inv, TypeOK
<1>2. /\ j \in [at : Step, kind : Kind \cup {None}, dispute : Disputes \cup {None},
                loaded : Row \cup {None}, want : Row \cup {None}, success : BOOLEAN,
                seen : Seq(SUBSET Disputes)]
      /\ j.at = at /\ j.kind = req[r].kind /\ j.success = req[r].success
      /\ j.seen = req[r].seen
  BY DEF Inv, TypeOK
<1> QED
  BY <1>1, <1>2

(***************************************************************************)
(* Handlers                                                                  *)
(***************************************************************************)
\* An answer that writes no dispute.
LEMMA AnswerStep ==
  ASSUME Inv, NEW r \in Requests, NEW at \in Step \ {"commit", "query"}, Answer(r, at),
         at = "done" => req[r].kind # "summary",
         UNCHANGED <<dispute, resolved, torn>>,
         delivered' \in [Requests -> 0..1], log' \in [Requests -> {"sent", "failed", None}],
         \A q \in Requests \ {r} : delivered'[q] = delivered[q] /\ log'[q] = log[q],
         MailOK(r)'
  PROVE  Inv'
<1>1. PICK j \in [at : Step, kind : Kind \cup {None}, dispute : Disputes \cup {None},
                  loaded : Row \cup {None}, want : Row \cup {None}, success : BOOLEAN,
                  seen : Seq(SUBSET Disputes)] :
           /\ req' = [req EXCEPT ![r] = j] /\ req'[r] = j
           /\ j.at = at /\ j.kind = req[r].kind /\ j.success = req[r].success
           /\ j.seen = req[r].seen
  BY AnswerOne
<1>2. ResolverOK(r)'
  BY <1>1 DEF ResolverOK
<1>3. SummaryOK(r)'
  <2>1. SummaryOK(r)
    BY DEF Inv
  <2> QED
    BY <1>1, <2>1 DEF SummaryOK, SeenOK
<1> QED
  BY <1>1, <1>2, <1>3, OwnStep

\* A request that fails keeps the invariant.
LEMMA AbortStep ==
  ASSUME Inv, NEW r \in Requests, Abort(r)
  PROVE  Inv'
<1>1. Answer(r, "aborted") /\ UNCHANGED <<dispute, delivered, log, resolved, torn>>
  BY DEF Abort
<1>2. req'[r].at = "aborted"
  BY <1>1, AnswerOne DEF Step, Ended
<1>3. MailOK(r)'
  BY <1>2 DEF MailOK
<1> QED
  BY <1>1, <1>3, AnswerStep DEF Inv, TypeOK, Step, Ended

\* The read of the provider's address keeps the invariant.
LEMMA ReadProviderStep ==
  ASSUME Inv, NEW r \in Requests, ReadProvider(r)
  PROVE  Inv'
<1>1. PICK at \in {"smtp", "refused"} : Answer(r, at)
  BY DEF ReadProvider
<1>2. /\ req[r].at = "provider"
      /\ UNCHANGED <<dispute, delivered, log, resolved, torn>>
  BY DEF ReadProvider
<1>3. req'[r].at = at /\ req'[r].kind = req[r].kind
  BY <1>1, AnswerOne DEF Step, Ended
<1>4. MailOK(r)'
  BY <1>2, <1>3 DEF Inv, MailOK
<1> QED
  BY <1>1, <1>2, <1>4, AnswerStep DEF Inv, TypeOK, Step, Ended

\* An e-mail leaves once at most, and has left when that is reported.
LEMMA SentOnce ==
  ASSUME Inv, NEW r \in Requests, NEW success \in BOOLEAN, Sent(r, success)
  PROVE  /\ req[r].at = "smtp"
         /\ delivered' \in [Requests -> 0..1]
         /\ \A q \in Requests \ {r} : delivered'[q] = delivered[q]
         /\ success => delivered'[r] = 1
<1>1. PICK taken \in {0, 1} :
        (success => taken = 1) /\ delivered' = [delivered EXCEPT ![r] = delivered[r] + taken]
  BY DEF Sent
<1>2. req[r].at = "smtp" /\ delivered[r] = 0 /\ delivered \in [Requests -> 0..1]
  BY DEF Sent, Inv, MailOK, TypeOK
<1>3. delivered' = [delivered EXCEPT ![r] = taken]
  BY <1>1, <1>2
<1> QED
  BY <1>1, <1>2, <1>3

\* The summary's e-mail keeps the invariant.
LEMMA SendReportStep ==
  ASSUME Inv, NEW r \in Requests, SendReport(r)
  PROVE  Inv'
<1>1. PICK success \in BOOLEAN :
        Sent(r, success) /\ Answer(r, IF success THEN "done" ELSE "failed")
  BY DEF SendReport
<1> DEFINE at == IF success THEN "done" ELSE "failed"
<1>2. req[r].kind = "send" /\ UNCHANGED <<dispute, log, resolved, torn>>
  BY DEF SendReport
<1>3. at \in Step \ {"commit", "query"} /\ at \in {"done", "failed"}
  BY DEF Step, Ended
<1>4. req'[r].at = at /\ req'[r].kind = "send"
  BY <1>1, <1>2, <1>3, AnswerOne
<1>5. MailOK(r)'
  BY <1>3, <1>4 DEF MailOK
<1> HIDE DEF at
<1>6. Answer(r, at)
  BY <1>1 DEF at
<1>7. log' \in [Requests -> {"sent", "failed", None}]
  BY <1>2 DEF Inv, TypeOK
<1> QED
  BY <1>1, <1>2, <1>3, <1>5, <1>6, <1>7, SentOnce, AnswerStep

\* The direct e-mail to a provider keeps the invariant.
LEMMA SendDirectStep ==
  ASSUME Inv, NEW r \in Requests, SendDirect(r)
  PROVE  Inv'
<1>1. PICK success \in BOOLEAN :
        /\ Sent(r, success)
        /\ req' = [req EXCEPT ![r].at = "commit", ![r].success = success]
  BY DEF SendDirect
<1>2. req[r].kind = "direct" /\ UNCHANGED <<dispute, log, resolved, torn>>
  BY DEF SendDirect
<1> DEFINE j == [req[r] EXCEPT !.at = "commit", !.success = success]
<1>3. req' = [req EXCEPT ![r] = j] /\ req'[r] = j
  BY <1>1 DEF Inv, TypeOK
<1>4. /\ j \in [at : Step, kind : Kind \cup {None}, dispute : Disputes \cup {None},
                loaded : Row \cup {None}, want : Row \cup {None}, success : BOOLEAN,
                seen : Seq(SUBSET Disputes)]
      /\ j.at = "commit" /\ j.kind = "direct" /\ j.success = success /\ j.seen = req[r].seen
  BY <1>2 DEF Inv, TypeOK, Step
<1>5. ResolverOK(r)'
  BY <1>3, <1>4 DEF ResolverOK
<1>6. MailOK(r)'
  BY <1>1, <1>3, <1>4, SentOnce DEF MailOK
<1>7. SummaryOK(r)'
  <2>1. SummaryOK(r)
    BY DEF Inv
  <2> QED
    BY <1>2, <1>3, <1>4, <2>1 DEF SummaryOK, SeenOK
<1> HIDE DEF j
<1>8. log' \in [Requests -> {"sent", "failed", None}]
  BY <1>2 DEF Inv, TypeOK
<1> QED
  <2>1. /\ delivered' \in [Requests -> 0..1]
        /\ \A q \in Requests \ {r} : delivered'[q] = delivered[q] /\ log'[q] = log[q]
    BY <1>1, <1>2, SentOnce
  <2>2. UNCHANGED <<dispute, resolved, torn>>
    BY <1>2
  <2> QED
    BY <1>3, <1>4, <1>5, <1>6, <1>7, <1>8, <2>1, <2>2, OwnStep

\* The insert of the log row keeps the invariant.
LEMMA SaveLogStep ==
  ASSUME Inv, NEW r \in Requests, SaveLog(r)
  PROVE  Inv'
<1> DEFINE at == IF req[r].success THEN "done" ELSE "failed"
<1>1. /\ req[r].at = "commit" /\ req[r].kind = "direct"
      /\ log' = [log EXCEPT ![r] = IF req[r].success THEN "sent" ELSE "failed"]
      /\ Answer(r, at) /\ UNCHANGED <<dispute, delivered, resolved, torn>>
  BY DEF SaveLog
<1>2. at \in Step \ {"commit", "query"}
  BY DEF Step, Ended
<1>3. req'[r].at = at /\ req'[r].kind = "direct"
  BY <1>1, <1>2, AnswerOne
<1>4. /\ log' \in [Requests -> {"sent", "failed", None}]
      /\ log'[r] = IF req[r].success THEN "sent" ELSE "failed"
      /\ \A q \in Requests \ {r} : log'[q] = log[q]
      /\ delivered \in [Requests -> 0..1]
  BY <1>1 DEF Inv, TypeOK
<1>5. MailOK(r)'
  BY <1>3, <1>4 DEF MailOK
<1> HIDE DEF at
<1> QED
  BY <1>1, <1>2, <1>4, <1>5, AnswerStep

\* The next query of a summary: the fourth sees the total's disputes that are
\* open, the fifth those that were resolved by the fourth.
LEMMA QueryStep ==
  ASSUME Inv, NEW r \in Requests, QueryNext(r)
  PROVE  Inv'
<1> DEFINE seen == req[r].seen
           n == Len(seen) + 1
           found == Selects(Queries[n])
           j == [req[r] EXCEPT !.seen = Append(seen, found),
                               !.at = IF n = 5 THEN "done" ELSE "query"]
<1>1. /\ req[r] \in [at : Step, kind : Kind \cup {None}, dispute : Disputes \cup {None},
                     loaded : Row \cup {None}, want : Row \cup {None}, success : BOOLEAN,
                     seen : Seq(SUBSET Disputes)]
      /\ dispute \in [Disputes -> Row \cup {None}]
      /\ ResolverOK(r) /\ MailOK(r) /\ SummaryOK(r)
  BY DEF Inv, TypeOK
<1>2. /\ req[r].at = "query" /\ n \in 1..5
      /\ req' = [req EXCEPT ![r] = j]
      /\ UNCHANGED <<dispute, delivered, log, resolved, torn>>
  BY <1>1 DEF QueryNext, Queries, SummaryOK
<1>3. /\ found \subseteq Disputes
      /\ \A d \in found : dispute[d] \in Row
      /\ n = 4 => \A d \in Disputes :
           dispute[d] \in Row => d \in found \/ dispute[d].status = "resolved"
      /\ n = 5 => \A d \in Disputes :
           dispute[d] \in Row /\ dispute[d].status = "resolved" => d \in found
  BY <1>1, <1>2, NoneAssumption DEF Selects, Queries, Row
<1> HIDE DEF found
<1>4. /\ Append(seen, found) \in Seq(SUBSET Disputes)
      /\ Len(Append(seen, found)) = n
      /\ \A i \in 1..(n - 1) : Append(seen, found)[i] = seen[i]
      /\ Append(seen, found)[n] = found
  BY <1>1, <1>3
<1>5. SeenOK(Append(seen, found))
  <2> SUFFICES ASSUME NEW d \in Append(seen, found)[1]
               PROVE  /\ dispute[d] \in Row
                      /\ n >= 4 => d \in Append(seen, found)[4] \/ dispute[d].status = "resolved"
                      /\ n = 5 => d \in Append(seen, found)[4] \/ d \in Append(seen, found)[5]
    BY <1>4 DEF SeenOK
  <2>1. SeenOK(seen) /\ n \in 1..5
    BY <1>1, <1>2 DEF SummaryOK
  <2>2. CASE n = 1
    BY <1>3, <1>4, <2>2
  <2>3. CASE n > 1
    <3>1. d \in seen[1] /\ d \in Disputes /\ Len(seen) = n - 1 /\ n - 1 >= 1
      BY <1>1, <1>4, <2>1, <2>3
    <3>2. dispute[d] \in Row
      BY <2>1, <3>1 DEF SeenOK
    <3>3. CASE n < 4
      BY <3>2, <3>3, <2>1
    <3>4. CASE n = 4
      BY <1>3, <1>4, <3>1, <3>2, <3>4
    <3>5. CASE n = 5
      <4>1. d \in seen[4] \/ dispute[d].status = "resolved"
        BY <2>1, <3>1, <3>5 DEF SeenOK
      <4>2. Append(seen, found)[4] = seen[4] /\ Append(seen, found)[5] = found
        BY <1>4, <3>5
      <4> QED
        BY <1>3, <3>1, <3>2, <3>5, <4>1, <4>2
    <3> QED
      BY <2>1, <3>3, <3>4, <3>5
  <2> QED
    BY <2>1, <2>2, <2>3
<1>6. /\ j \in [at : Step, kind : Kind \cup {None}, dispute : Disputes \cup {None},
                loaded : Row \cup {None}, want : Row \cup {None}, success : BOOLEAN,
                seen : Seq(SUBSET Disputes)]
      /\ j.at = (IF n = 5 THEN "done" ELSE "query") /\ j.kind = req[r].kind
      /\ j.seen = Append(seen, found)
  BY <1>1, <1>4 DEF Step, Ended
<1> HIDE DEF j
<1>7. req'[r] = j
  BY <1>2 DEF Inv, TypeOK
<1>8. ResolverOK(r)'
  BY <1>6, <1>7 DEF ResolverOK
<1>9. MailOK(r)'
  <2>1. req'[r].at \in {"done", "query"} /\ req'[r].kind = req[r].kind
    BY <1>6, <1>7
  <2>2. delivered[r] = 0 /\ delivered'[r] = delivered[r] /\ log'[r] = log[r]
    BY <1>1, <1>2 DEF MailOK
  <2>3. req[r].kind # "direct"
    BY <1>1, <1>2 DEF MailOK
  <2> QED
    BY <2>1, <2>2, <2>3 DEF MailOK
<1>10. SummaryOK(r)'
  <2>1. SeenOK(Append(seen, found)) /\ UNCHANGED dispute
    BY <1>2, <1>5
  <2>2. req'[r].seen = Append(seen, found) /\ req'[r].at = (IF n = 5 THEN "done" ELSE "query")
    BY <1>6, <1>7
  <2>3. n \in 1..5 /\ Len(req'[r].seen) = n
    BY <1>2, <1>4, <2>2
  <2> QED
    BY <2>1, <2>2, <2>3 DEF SummaryOK, SeenOK
<1> QED
  BY <1>2, <1>6, <1>8, <1>9, <1>10, OwnStep DEF Inv, TypeOK

(***************************************************************************)
(* Steps that write a dispute                                                *)
(***************************************************************************)
LEMMA OpenStep ==
  ASSUME Inv, NEW d \in Disputes, OpenContractual(d)
  PROVE  Inv'
<1>1. /\ dispute[d] = None /\ dispute' = [dispute EXCEPT ![d] = Opened]
      /\ UNCHANGED <<req, delivered, log, resolved, torn>>
  BY DEF OpenContractual
<1>2. Stays
  BY <1>1, NoneAssumption DEF Stays, Inv, TypeOK
<1>3. TypeOK'
  BY <1>1, OpenedIsRow DEF Inv, TypeOK
<1>4. ResolutionIsWhole'
  BY <1>1, OpenedIsRow DEF Inv, TypeOK, ResolutionIsWhole
<1>5. \A q \in Requests : ResolverOK(q)' /\ MailOK(q)' /\ SummaryOK(q)'
  BY <1>1, <1>2, Frame
<1> QED
  BY <1>3, <1>4, <1>5 DEF Inv

\* The end of a call that writes a dispute.
LEMMA WriterStep ==
  ASSUME Inv, NEW r \in Requests, req[r].kind \in {"create", "resolve"}, Answer(r, "done"),
         UNCHANGED <<delivered, log>>, Stays, ResolutionIsWhole',
         dispute' \in [Disputes -> Row \cup {None}], resolved' \in [Disputes -> SUBSET Row],
         torn' \subseteq Disputes
  PROVE  Inv'
<1>1. PICK j \in [at : Step, kind : Kind \cup {None}, dispute : Disputes \cup {None},
                  loaded : Row \cup {None}, want : Row \cup {None}, success : BOOLEAN,
                  seen : Seq(SUBSET Disputes)] :
           /\ req' = [req EXCEPT ![r] = j] /\ req'[r] = j
           /\ j.at = "done" /\ j.kind = req[r].kind /\ j.success = req[r].success
           /\ j.seen = req[r].seen
  BY AnswerOne DEF Step, Ended
<1>2. TypeOK'
  BY <1>1 DEF Inv, TypeOK
<1>3. ResolverOK(r)' /\ MailOK(r)'
  BY <1>1 DEF ResolverOK, MailOK
<1>4. SummaryOK(r)'
  <2>1. SummaryOK(r) /\ req[r].seen \in Seq(SUBSET Disputes)
    BY DEF Inv, TypeOK
  <2>2. Len(req[r].seen) >= 1 => req[r].seen[1] \subseteq Disputes
    BY <2>1
  <2> QED
    BY <1>1, <2>1, <2>2 DEF SummaryOK, SeenOK, Stays
<1>5. ASSUME NEW q \in Requests
      PROVE  ResolverOK(q)' /\ MailOK(q)' /\ SummaryOK(q)'
  <2>1. CASE q = r
    BY <1>3, <1>4, <2>1
  <2>2. CASE q # r
    <3>1. req'[q] = req[q]
      BY <1>1, <2>2 DEF Inv, TypeOK
    <3> QED
      BY <3>1, Frame
  <2> QED
    BY <2>1, <2>2
<1> QED
  BY <1>2, <1>5 DEF Inv

\* The insert of a dispute keeps the invariant: it is open.
LEMMA InsertStep ==
  ASSUME Inv, NEW r \in Requests, Insert(r)
  PROVE  Inv'
<1>1. PICK d \in Disputes : dispute[d] = None /\ dispute' = [dispute EXCEPT ![d] = Opened]
  BY DEF Insert
<1>2. /\ req[r].kind = "create" /\ Answer(r, "done")
      /\ UNCHANGED <<delivered, log, resolved, torn>>
  BY DEF Insert
<1>3. Stays
  BY <1>1, NoneAssumption DEF Stays, Inv, TypeOK
<1>4. ResolutionIsWhole'
  BY <1>1, <1>2, OpenedIsRow DEF Inv, TypeOK, ResolutionIsWhole
<1>5. dispute' \in [Disputes -> Row \cup {None}]
  BY <1>1, OpenedIsRow DEF Inv, TypeOK
<1> QED
  BY <1>2, <1>3, <1>4, <1>5, WriterStep DEF Inv, TypeOK

\* The commit of a resolution keeps the invariant: all its columns are one request's
\* unless another wrote between its read and its flush.
LEMMA ResolutionStep ==
  ASSUME Inv, NEW r \in Requests, CommitResolution(r)
  PROVE  Inv'
<1> DEFINE d == req[r].dispute
           loaded == req[r].loaded
           want == req[r].want
           merged == Merge(dispute[d], loaded, want)
<1>1. /\ req[r].at = "commit" /\ req[r].kind = "resolve" /\ Answer(r, "done")
      /\ dispute' = [dispute EXCEPT ![d] = merged]
      /\ resolved' = [resolved EXCEPT ![d] = resolved[d] \cup {want}]
      /\ torn' = IF dispute[d] = loaded THEN torn \ {d} ELSE torn \cup {d}
      /\ UNCHANGED <<delivered, log>>
  BY DEF CommitResolution
<1>2. /\ d \in Disputes /\ loaded \in Row /\ want \in Row /\ want.status = "resolved"
      /\ dispute[d] \in Row
      /\ loaded.status = "resolved" => dispute[d].status = "resolved"
  BY <1>1 DEF Inv, ResolverOK
<1>3. /\ dispute \in [Disputes -> Row \cup {None}] /\ resolved \in [Disputes -> SUBSET Row]
      /\ torn \subseteq Disputes /\ ResolutionIsWhole
  BY DEF Inv, TypeOK
<1> HIDE DEF d, loaded, want
<1>4. /\ merged \in Row /\ merged.status = "resolved"
      /\ dispute[d] = loaded => merged = want
  BY <1>2, Merged
<1> HIDE DEF merged
<1>5. Stays
  BY <1>1, <1>2, <1>3, <1>4 DEF Stays
<1>6. ResolutionIsWhole'
  BY <1>1, <1>2, <1>3, <1>4 DEF ResolutionIsWhole
<1>7. /\ dispute' \in [Disputes -> Row \cup {None}]
      /\ resolved' \in [Disputes -> SUBSET Row] /\ torn' \subseteq Disputes
  BY <1>1, <1>2, <1>3, <1>4
<1> QED
  BY <1>1, <1>5, <1>6, <1>7, WriterStep

(***************************************************************************)
(* The invariant                                                             *)
(***************************************************************************)
LEMMA InitInv == Init => Inv
<1> SUFFICES ASSUME Init PROVE Inv
  OBVIOUS
<1>1. \A r \in Requests : req[r] = New /\ delivered[r] = 0
  BY DEF Init
<1>2. New \in [at : Step, kind : Kind \cup {None}, dispute : Disputes \cup {None},
              loaded : Row \cup {None}, want : Row \cup {None}, success : BOOLEAN,
              seen : Seq(SUBSET Disputes)]
  BY DEF New, Step
<1>3. TypeOK
  BY <1>2 DEF Init, TypeOK
<1>4. ResolutionIsWhole
  BY DEF Init, ResolutionIsWhole
<1>5. \A r \in Requests : ResolverOK(r) /\ MailOK(r) /\ SummaryOK(r)
  <2>1. New.at = "new" /\ New.success = FALSE /\ Len(New.seen) = 0
    BY DEF New
  <2> QED
    BY <1>1, <2>1 DEF ResolverOK, MailOK, SummaryOK, SeenOK
<1> QED
  BY <1>3, <1>4, <1>5 DEF Inv

\* The invariant is inductive.
LEMMA NextInv == Inv /\ [Next]_vars => Inv'
<1> SUFFICES ASSUME Inv, [Next]_vars PROVE Inv'
  OBVIOUS
<1>1. ASSUME NEW d \in Disputes, OpenContractual(d) PROVE Inv'
  BY <1>1, OpenStep
<1>2. ASSUME NEW r \in Requests, Receive(r) PROVE Inv'
  BY <1>2, ReceiveStep
<1>3. ASSUME NEW r \in Requests, Handler(r) PROVE Inv'
  BY <1>3, InsertStep, ResolutionStep, ReadProviderStep, SendReportStep, SendDirectStep,
     SaveLogStep, QueryStep DEF Handler
<1>4. ASSUME NEW r \in Requests, Abort(r) PROVE Inv'
  BY <1>4, AbortStep
<1>5. CASE UNCHANGED vars
  <2>1. TypeOK' /\ ResolutionIsWhole'
    BY <1>5 DEF vars, Inv, TypeOK, ResolutionIsWhole
  <2>2. Stays
    BY <1>5 DEF vars, Stays
  <2>3. \A q \in Requests : ResolverOK(q)' /\ MailOK(q)' /\ SummaryOK(q)'
    BY <1>5, <2>2, Frame DEF vars
  <2> QED
    BY <2>1, <2>3 DEF Inv
<1> QED
  BY <1>1, <1>2, <1>3, <1>4, <1>5 DEF Next

\* It holds in every reachable state.
LEMMA AlwaysInv == Spec => []Inv
BY InitInv, NextInv, PTL DEF Spec

\* So does what the log says: a row is written of an e-mail that was taken, and no
\* e-mail is taken back.
LEMMA AlwaysLogged == Spec => []LogIsTrue
<1>1. Init => LogIsTrue
  BY NoneAssumption DEF Init, LogIsTrue
<1>2. ASSUME Inv, LogIsTrue, [Next]_vars PROVE LogIsTrue'
  <2>1. CASE UNCHANGED <<log, delivered>>
    BY <1>2, <2>1 DEF LogIsTrue
  <2>2. ASSUME NEW r \in Requests, NEW success \in BOOLEAN, Sent(r, success), UNCHANGED log
        PROVE  LogIsTrue'
    <3>1. log[r] # "sent"
      BY <1>2, <2>2, SentOnce DEF LogIsTrue, Inv, MailOK
    <3> QED
      BY <1>2, <2>2, <3>1, SentOnce DEF LogIsTrue
  <2>3. ASSUME NEW r \in Requests, SaveLog(r) PROVE LogIsTrue'
    <3>1. /\ req[r].at = "commit" /\ req[r].kind = "direct" /\ UNCHANGED delivered
          /\ log' = [log EXCEPT ![r] = IF req[r].success THEN "sent" ELSE "failed"]
      BY <2>3 DEF SaveLog
    <3>2. req[r].success => delivered[r] = 1
      BY <1>2, <3>1 DEF Inv, MailOK
    <3>3. log'[r] = "sent" => req[r].success
      BY <1>2, <3>1 DEF Inv, TypeOK
    <3>4. \A q \in Requests \ {r} : log'[q] = log[q]
      BY <1>2, <3>1 DEF Inv, TypeOK
    <3> QED
      BY <1>2, <3>1, <3>2, <3>3, <3>4 DEF LogIsTrue
  <2>4. ASSUME NEW r \in Requests, SendReport(r) \/ SendDirect(r) PROVE LogIsTrue'
    BY <2>2, <2>4 DEF SendReport, SendDirect
  <2>5. ASSUME NEW r \in Requests, Receive(r) \/ Abort(r) PROVE UNCHANGED <<log, delivered>>
    BY <2>5 DEF Receive, Abort, CreateDispute, ResolveDispute, SendDisputeEmail,
                SendDisputeEmailDirect, NotFound, GetDisputeSummary, Call
  <2>6. ASSUME NEW r \in Requests, Insert(r) \/ CommitResolution(r) \/ ReadProvider(r) \/ QueryNext(r)
        PROVE  UNCHANGED <<log, delivered>>
    BY <2>6 DEF Insert, CommitResolution, ReadProvider, QueryNext
  <2>7. ASSUME NEW d \in Disputes, OpenContractual(d) PROVE UNCHANGED <<log, delivered>>
    BY <2>7 DEF OpenContractual
  <2> QED
    BY <1>2, <2>1, <2>3, <2>4, <2>5, <2>6, <2>7 DEF Next, Handler, vars
<1> QED
  BY <1>1, <1>2, AlwaysInv, PTL DEF Spec

\* Rows and calls keep their types.
THEOREM DisputesTypeCorrect == Spec => []TypeOK
<1>1. Inv => TypeOK
  BY DEF Inv
<1> QED
  BY <1>1, AlwaysInv, PTL

\* A resolved dispute has the amount and the notes of one resolution, unless two
\* overlapped, for any number of calls.
THEOREM ResolvedWhole == Spec => []ResolutionIsWhole
BY AlwaysInv, AlwaysLogged, InvIsEnough, PTL

\* Every direct request that was answered has its row in the log, which tells its
\* outcome and says "sent" of no e-mail that has not left; an e-mail that left is
\* in the log unless its handler was broken off before the row was saved.
THEOREM DirectLogged == Spec => []DirectSendsAreLogged
BY AlwaysInv, AlwaysLogged, InvIsEnough, PTL

\* A summary's total has no dispute that its ageing and its resolutions both miss.
THEOREM SummaryComplete == Spec => []SummaryMissesNone
<1>1. Inv => SummaryMissesNone
  <2> SUFFICES ASSUME Inv, NEW r \in Requests, req[r].kind = "summary", req[r].at = "done"
               PROVE  Seen(r, "total") \subseteq Seen(r, "open") \cup Seen(r, "resolved")
    BY DEF SummaryMissesNone
  <2>1. Len(req[r].seen) = 5 /\ SeenOK(req[r].seen)
    BY DEF Inv, SummaryOK
  <2>2. \A d \in req[r].seen[1] : d \in req[r].seen[4] \/ d \in req[r].seen[5]
    BY <2>1 DEF SeenOK
  <2>3. {k \in 1..5 : Queries[k] = "total"} = {1} /\ {k \in 1..5 : Queries[k] = "open"} = {4}
        /\ {k \in 1..5 : Queries[k] = "resolved"} = {5}
    BY DEF Queries
  <2>4. /\ Seen(r, "total") = req[r].seen[1] /\ Seen(r, "open") = req[r].seen[4]
        /\ Seen(r, "resolved") = req[r].seen[5]
    BY <2>1, <2>3 DEF Seen
  <2> QED
    BY <2>2, <2>4
<1> QED
  BY <1>1, AlwaysInv, PTL
=============================================================================
