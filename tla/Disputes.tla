------------------------------ MODULE Disputes ------------------------------
(***************************************************************************)
(* The routes of disputes.py: open and resolve a dispute, write to the       *)
(* provider about one, or about none, without the outbox, and summarise.     *)
(*                                                                         *)
(* Nothing is locked.  A resolution writes the columns that differ from the  *)
(* row it read; a summary is five queries, each of the disputes as they are  *)
(* then; an e-mail leaves between two queries and cannot be taken back.      *)
(***************************************************************************)
EXTENDS Naturals, Sequences

CONSTANTS
  None,       \* NULL
  Disputes,   \* ids of disputes
  Requests,   \* ids of calls
  Amounts,    \* recovery amounts
  Notes       \* resolution notes

ASSUME AmountsAssumption == 0 \in Amounts
ASSUME NotesAssumption == None \notin Notes

VARIABLES
  dispute,    \* [Disputes -> the row, or None]
  req,        \* [Requests -> locals of the handler]
  delivered,  \* [Requests -> e-mails that the SMTP server took]
  log,        \* [Requests -> status of its DisputeEmailLog row, or None]
  resolved,   \* the resolutions committed, by dispute: history
  torn        \* disputes last written over another resolution: history

vars == <<dispute, req, delivered, log, resolved, torn>>

Row == [status : {"open", "resolved"}, recovery_amount : Amounts,
        resolution_notes : Notes \cup {None}]

ASSUME NoneAssumption == None \notin Row \cup Disputes \cup {"sent", "failed"}

Opened == [status |-> "open", recovery_amount |-> 0, resolution_notes |-> None]

\* What a resolution writes, but for the times.
Resolution(amount, notes) ==
  [status |-> "resolved", recovery_amount |-> amount, resolution_notes |-> notes]

Kind == {"create", "resolve", "send", "direct", "summary"}
Ended == {"done", "refused", "failed", "aborted"}

\* "provider" and "query" read; "smtp" sends; "commit" writes.
Step == {"new", "provider", "smtp", "commit", "query"} \cup Ended

New == [at |-> "new", kind |-> None, dispute |-> None, loaded |-> None, want |-> None,
        success |-> FALSE, seen |-> <<>>]

Init ==
  /\ dispute = [d \in Disputes |-> None]
  /\ req = [r \in Requests |-> New]
  /\ delivered = [r \in Requests |-> 0]
  /\ log = [r \in Requests |-> None]
  /\ resolved = [d \in Disputes |-> {}]
  /\ torn = {}

Call(r, kind, at, d, want) ==
  /\ req[r].at = "new"
  /\ req' = [req EXCEPT ![r] =
       [at |-> at, kind |-> kind, dispute |-> d, want |-> want, success |-> FALSE, seen |-> <<>>,
        loaded |-> IF d = None THEN None ELSE dispute[d]]]
  /\ UNCHANGED <<dispute, delivered, log, resolved, torn>>

Answer(r, at) == req' = [req EXCEPT ![r] = [req[r] EXCEPT !.at = at, !.loaded = None, !.want = None]]

(***************************************************************************)
(* Opening and resolving                                                     *)
(***************************************************************************)
CreateDispute(r) == Call(r, "create", "commit", None, Opened)

Insert(r) ==
  /\ req[r].at = "commit" /\ req[r].kind = "create"
  /\ \E d \in Disputes : dispute[d] = None /\ dispute' = [dispute EXCEPT ![d] = Opened]
  /\ Answer(r, "done")
  /\ UNCHANGED <<delivered, log, resolved, torn>>

\* A run of reconciliation opens the disputes of the rows it blocked.
OpenContractual(d) ==
  /\ dispute[d] = None
  /\ dispute' = [dispute EXCEPT ![d] = Opened]
  /\ UNCHANGED <<req, delivered, log, resolved, torn>>

\* By id, whatever its status: a resolution may be corrected.
ResolveDispute(r) ==
  \E d \in Disputes, amount \in Amounts, notes \in Notes :
    /\ dispute[d] # None
    /\ Call(r, "resolve", "commit", d, Resolution(amount, notes))

\* Mutant: a recovery of nothing is not written.
MergePositive(now, loaded, want) ==
  [c \in DOMAIN now |->
    IF c = "recovery_amount" /\ want[c] = 0 THEN now[c] ELSE want[c]]

\* Mutant: a second recovery is added to the first.
MergeAdding(now, loaded, want) ==
  [want EXCEPT !.recovery_amount = @ + now.recovery_amount]

\* The columns whose value is not the one that was read.
Merge(now, loaded, want) ==
  [c \in DOMAIN now |-> IF want[c] # loaded[c] THEN want[c] ELSE now[c]]

CommitResolution(r) ==
  LET j == req[r]
      d == j.dispute
  IN  /\ j.at = "commit" /\ j.kind = "resolve"
      /\ dispute' = [dispute EXCEPT ![d] = Merge(@, j.loaded, j.want)]
      /\ resolved' = [resolved EXCEPT ![d] = @ \cup {j.want}]
      /\ torn' = IF dispute[d] = j.loaded THEN torn \ {d} ELSE torn \cup {d}
      /\ Answer(r, "done")
      /\ UNCHANGED <<delivered, log>>

(***************************************************************************)
(* E-mails to the provider                                                   *)
(***************************************************************************)
\* The dispute is read, then the provider; a direct e-mail has no dispute.
SendDisputeEmail(r) ==
  \E d \in Disputes : dispute[d] # None /\ Call(r, "send", "provider", d, None)

SendDisputeEmailDirect(r) == Call(r, "direct", "provider", None, None)

\* No such dispute, or of another tenant.
NotFound(r) ==
  \E kind \in {"resolve", "send"} : Call(r, kind, "refused", None, None)

\* The provider may be missing, or have no dispute_email.
ReadProvider(r) ==
  /\ req[r].at = "provider"
  /\ \E at \in {"smtp", "refused"} : Answer(r, at)
  /\ UNCHANGED <<dispute, delivered, log, resolved, torn>>

\* send_email: a failure may be reported of an e-mail that was taken.
Sent(r, success) ==
  /\ req[r].at = "smtp"
  /\ \E taken \in {0, 1} :
       /\ success => taken = 1
       /\ delivered' = [delivered EXCEPT ![r] = @ + taken]

\* Of an e-mail about a dispute nothing is written.
SendReport(r) ==
  /\ req[r].kind = "send"
  /\ \E success \in BOOLEAN :
       Sent(r, success) /\ Answer(r, IF success THEN "done" ELSE "failed")
  /\ UNCHANGED <<dispute, log, resolved, torn>>

\* Mutant: a failure is answered before the row is written.
SendDirectLoggingSuccess(r) ==
  /\ req[r].kind = "direct"
  /\ \E success \in BOOLEAN :
       /\ Sent(r, success)
       /\ req' = [req EXCEPT ![r].at = IF success THEN "commit" ELSE "failed", ![r].success = success]
  /\ UNCHANGED <<dispute, log, resolved, torn>>

SendDirect(r) ==
  /\ req[r].kind = "direct"
  /\ \E success \in BOOLEAN :
       Sent(r, success) /\ req' = [req EXCEPT ![r].at = "commit", ![r].success = success]
  /\ UNCHANGED <<dispute, log, resolved, torn>>

\* "Save log regardless of success/failure".
SaveLog(r) ==
  /\ req[r].at = "commit" /\ req[r].kind = "direct"
  /\ log' = [log EXCEPT ![r] = IF req[r].success THEN "sent" ELSE "failed"]
  /\ Answer(r, IF req[r].success THEN "done" ELSE "failed")
  /\ UNCHANGED <<dispute, delivered, resolved, torn>>

(***************************************************************************)
(* The summary                                                               *)
(***************************************************************************)
\* Mutant: the resolved disputes are read before the open ones.
ResolvedFirst == <<"total", "by_status", "by_provider", "resolved", "open">>

\* The weekly trend, more queries of the same kind, is left out.
Queries == <<"total", "by_status", "by_provider", "open", "resolved">>

GetDisputeSummary(r) == Call(r, "summary", "query", None, None)

\* The ids that a query of the disputes returns now.
Selects(query) ==
  {d \in Disputes : /\ dispute[d] # None
                    /\ query \in {"open", "resolved"} => dispute[d].status = query}

QueryNext(r) ==
  LET n == Len(req[r].seen) + 1
  IN  /\ req[r].at = "query"
      /\ n <= Len(Queries)
      /\ req' = [req EXCEPT ![r] = [req[r] EXCEPT
                   !.seen = Append(req[r].seen, Selects(Queries[n])),
                   !.at = IF n = Len(Queries) THEN "done" ELSE "query"]]
      /\ UNCHANGED <<dispute, delivered, log, resolved, torn>>

Seen(r, query) ==
  UNION {req[r].seen[n] : n \in {k \in 1..Len(req[r].seen) : Queries[k] = query}}

(***************************************************************************)
(* The system                                                                *)
(***************************************************************************)
\* A database error or a restart: nothing is written, but an e-mail has left.
Abort(r) ==
  /\ req[r].at \notin Ended \cup {"new"}
  /\ Answer(r, "aborted")
  /\ UNCHANGED <<dispute, delivered, log, resolved, torn>>

Receive(r) ==
  \/ CreateDispute(r) \/ ResolveDispute(r) \/ SendDisputeEmail(r) \/ SendDisputeEmailDirect(r)
  \/ NotFound(r) \/ GetDisputeSummary(r)

Handler(r) ==
  \/ Insert(r) \/ CommitResolution(r) \/ ReadProvider(r) \/ SendReport(r) \/ SendDirect(r)
  \/ SaveLog(r) \/ QueryNext(r)

Next ==
  \/ \E d \in Disputes : OpenContractual(d)
  \/ \E r \in Requests : Receive(r) \/ Handler(r) \/ Abort(r)

Spec == Init /\ [][Next]_vars

(***************************************************************************)
(* Properties                                                                *)
(***************************************************************************)
\* Type correctness.
TypeOK ==
  /\ dispute \in [Disputes -> Row \cup {None}]
  /\ req \in [Requests -> [at : Step, kind : Kind \cup {None}, dispute : Disputes \cup {None},
                           loaded : Row \cup {None}, want : Row \cup {None}, success : BOOLEAN,
                           seen : Seq(SUBSET Disputes)]]
  /\ delivered \in [Requests -> 0..1]
  /\ log \in [Requests -> {"sent", "failed", None}]
  /\ resolved \in [Disputes -> SUBSET Row]
  /\ torn \subseteq Disputes

\* The amount that the summary adds up as recovered is the one of the notes
\* beside it: a resolved dispute is as one request resolved it, through
\* corrections and requests that were broken off, unless two of its resolutions
\* overlapped.
ResolutionIsWhole ==
  \A d \in Disputes :
    dispute[d] # None /\ dispute[d].status = "resolved" /\ d \notin torn => dispute[d] \in resolved[d]

\* "Save log regardless of success/failure": a direct request that was answered
\* has its row, which tells its outcome; a row says "sent" only of an e-mail that
\* has left, and an e-mail that left has its row unless the handler was broken off
\* before it was saved.
DirectSendsAreLogged ==
  \A r \in Requests : req[r].kind = "direct" =>
    /\ req[r].at = "done" => log[r] = "sent"
    /\ req[r].at = "failed" => log[r] = "failed"
    /\ log[r] = "sent" => delivered[r] = 1
    /\ delivered[r] = 1 /\ log[r] = None => req[r].at \in {"commit", "aborted"}

\* A dispute in the summary's total is in its ageing or in its resolutions, or
\* in both, whatever is opened and resolved between the queries.
SummaryMissesNone ==
  \A r \in Requests : req[r].kind = "summary" /\ req[r].at = "done" =>
    Seen(r, "total") \subseteq Seen(r, "open") \cup Seen(r, "resolved")
=============================================================================
