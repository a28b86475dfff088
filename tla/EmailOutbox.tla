---------------------------- MODULE EmailOutbox ----------------------------
(***************************************************************************)
(* The e-mail outbox (backend/app/api/v1/email_outbox.py): drafts that a run *)
(* of reconciliation leaves, and the client's approve, reject and cancel.    *)
(*                                                                         *)
(* A handler reads the draft without a lock and decides on what it read.     *)
(* Approve then flushes its UPDATE, which locks the row in the database      *)
(* until the commit, and talks to the SMTP server in between; reject and     *)
(* cancel write at their commit.  A request is served once: its id stands    *)
(* for the handler, its transaction and the answer the client saw.           *)
(***************************************************************************)
EXTENDS Naturals

CONSTANTS
  Drafts,     \* ids of outbox rows
  Requests,   \* requests the clients make
  NoRequest   \* the row is not locked

ASSUME RequestsAssumption == NoRequest \notin Requests

VARIABLES
  draft,      \* [Drafts -> the row, as committed]
  lock,       \* [Drafts -> the request whose transaction wrote the row]
  req,        \* [Requests -> locals of the handler]
  delivered,  \* [Requests -> e-mails of the request the SMTP server accepted]
  log         \* requests whose DisputeEmailLog row says "sent"

vars == <<draft, lock, req, delivered, log>>

DraftStatus == {"none", "pending_approval", "rejected", "sent", "failed", "cancelled"}
Kind == {"approve", "reject", "cancel"}

\* "new" is not made yet; "read" has the draft; "smtp" holds the row lock and
\* "commit" too, with the result of SMTP; the last three are answered.
Step == {"new", "read", "smtp", "commit", "done", "refused", "aborted"}
InProgress == {"read", "smtp", "commit"}

NewRequest == [at |-> "new", kind |-> "approve", draft |-> NoRequest, status |-> "none",
               success |-> FALSE]

Init ==
  /\ draft = [d \in Drafts |-> [status |-> "none", to |-> FALSE]]
  /\ lock = [d \in Drafts |-> NoRequest]
  /\ req = [r \in Requests |-> NewRequest]
  /\ delivered = [r \in Requests |-> 0]
  /\ log = {}

\* enqueue_dispute_email_draft, in the transaction of a run: the recipient is
\* known when the provider has a dispute_email.
Enqueue(d, to) ==
  /\ draft[d].status = "none"
  /\ draft' = [draft EXCEPT ![d] = [status |-> "pending_approval", to |-> to]]
  /\ UNCHANGED <<lock, req, delivered, log>>

\* The statuses each handler refuses with a 400.
Refuses(kind) ==
  IF kind = "approve" THEN {"sent", "cancelled", "rejected"} ELSE {"sent"}

\* The draft is read and the guard checked; approve needs a recipient, the
\* draft's or the one the client gives.
Read(r, d, kind, to) ==
  LET accepted == /\ draft[d].status \notin Refuses(kind)
                  /\ kind = "approve" => draft[d].to \/ to
  IN  /\ req[r].at = "new"
      /\ draft[d].status # "none"
      /\ req' = [req EXCEPT ![r] = [at |-> IF accepted THEN "read" ELSE "refused",
                                    kind |-> kind, draft |-> d,
                                    status |-> IF accepted THEN draft[d].status ELSE "none",
                                    success |-> FALSE]]
      /\ UNCHANGED <<draft, lock, delivered, log>>

\* Mutant: the UPDATE is not flushed before SMTP, so the row is not locked.
FlushWithoutLock(r) ==
  /\ req[r].at = "read" /\ req[r].kind = "approve"
  /\ req' = [req EXCEPT ![r].at = "smtp"]
  /\ UNCHANGED <<draft, lock, delivered, log>>

\* await db.flush() of status = "approved": waits for the row lock and takes it.
Flush(r) ==
  /\ req[r].at = "read" /\ req[r].kind = "approve"
  /\ lock[req[r].draft] = NoRequest
  /\ lock' = [lock EXCEPT ![req[r].draft] = r]
  /\ req' = [req EXCEPT ![r].at = "smtp"]
  /\ UNCHANGED <<draft, delivered, log>>

\* Mutant: a failure is reported as a success.
SendReportingSuccess(r) ==
  /\ req[r].at = "smtp"
  /\ \E accepted \in {0, 1} : delivered' = [delivered EXCEPT ![r] = @ + accepted]
  /\ req' = [req EXCEPT ![r].at = "commit", ![r].success = TRUE]
  /\ UNCHANGED <<draft, lock, log>>

\* Mutant: a failure is tried again at once.
SendUntilSuccess(r) ==
  /\ req[r].at = "smtp"
  /\ \E success \in BOOLEAN, accepted \in {0, 1} :
       /\ success => accepted = 1
       /\ delivered' = [delivered EXCEPT ![r] = @ + accepted]
       /\ req' = IF success THEN [req EXCEPT ![r].at = "commit", ![r].success = TRUE] ELSE req
  /\ UNCHANGED <<draft, lock, log>>

\* send_email never raises.  An exception after the server accepted the message
\* (leaving the SMTP block) reports a failure of a delivered e-mail.
Send(r) ==
  /\ req[r].at = "smtp"
  /\ \E success \in BOOLEAN, accepted \in {0, 1} :
       /\ success => accepted = 1
       /\ delivered' = [delivered EXCEPT ![r] = @ + accepted]
       /\ req' = [req EXCEPT ![r].at = "commit", ![r].success = success]
  /\ UNCHANGED <<draft, lock, log>>

\* Mutant: the row stays locked when SMTP failed.
UnlockOnSuccess(r) == [d \in Drafts |-> IF lock[d] = r /\ req[r].success THEN NoRequest ELSE lock[d]]

\* The end of the transaction of r releases what it locked.
Unlock(r) == [d \in Drafts |-> IF lock[d] = r THEN NoRequest ELSE lock[d]]

\* The handler returns: of its locals only what was asked stays, for the client.
Answer(r, how) ==
  req' = [req EXCEPT ![r].at = how, ![r].status = "none", ![r].success = FALSE]

\* Mutant: a failure leaves the status that the flush wrote.
CommitLeavingApproved(r) ==
  /\ req[r].at = "commit"
  /\ draft' = [draft EXCEPT ![req[r].draft] =
                 [status |-> IF req[r].success THEN "sent" ELSE "approved", to |-> TRUE]]
  /\ log' = IF req[r].success THEN log \cup {r} ELSE log
  /\ lock' = Unlock(r)
  /\ Answer(r, "done")
  /\ UNCHANGED delivered

\* The end of approve: status and log row are committed together.
CommitApproval(r) ==
  /\ req[r].at = "commit"
  /\ draft' = [draft EXCEPT ![req[r].draft] =
                 [status |-> IF req[r].success THEN "sent" ELSE "failed", to |-> TRUE]]
  /\ log' = IF req[r].success THEN log \cup {r} ELSE log
  /\ lock' = Unlock(r)
  /\ Answer(r, "done")
  /\ UNCHANGED delivered

\* reject_draft and cancel_draft: the UPDATE waits for the row lock, then names
\* the row by id whatever it has become; it leaves the status out when the
\* draft had it already, and a cancel then has nothing to write.
CommitRefusal(r) ==
  LET d == req[r].draft
      status == IF req[r].kind = "reject" THEN "rejected" ELSE "cancelled"
  IN  /\ req[r].at = "read" /\ req[r].kind # "approve"
      /\ lock[d] = NoRequest \/ (status = "cancelled" /\ req[r].status = "cancelled")
      /\ draft' = IF req[r].status = status THEN draft ELSE [draft EXCEPT ![d].status = status]
      /\ Answer(r, "done")
      /\ UNCHANGED <<lock, delivered, log>>

\* A database error, a cancelled request or a restart rolls r back.
Abort(r) ==
  /\ req[r].at \in InProgress
  /\ lock' = Unlock(r)
  /\ Answer(r, "aborted")
  /\ UNCHANGED <<draft, delivered, log>>

Handler(r) == Flush(r) \/ Send(r) \/ CommitApproval(r) \/ CommitRefusal(r)

Next ==
  \/ \E d \in Drafts, to \in BOOLEAN : Enqueue(d, to)
  \/ \E r \in Requests, d \in Drafts, kind \in Kind, to \in BOOLEAN : Read(r, d, kind, to)
  \/ \E r \in Requests : Handler(r) \/ Abort(r)

Spec == Init /\ [][Next]_vars

\* A handler that can go on does: the event loop is fair, the database hands
\* the row lock on, and the SMTP client times out.
FairSpec == Spec /\ \A r \in Requests : WF_vars(Handler(r))

(***************************************************************************)
(* Properties                                                                *)
(***************************************************************************)
\* Type correctness: the status "approved", which approve flushes, is never seen.
TypeOK ==
  /\ draft \in [Drafts -> [status : DraftStatus, to : BOOLEAN]]
  /\ lock \in [Drafts -> Requests \cup {NoRequest}]
  /\ req \in [Requests -> [at : Step, kind : Kind, draft : Drafts \cup {NoRequest},
                           status : DraftStatus, success : BOOLEAN]]
  /\ delivered \in [Requests -> Nat]
  /\ log \subseteq Requests

\* A draft the outbox shows as sent was delivered and logged, on an approval of
\* that draft: no failure, retry or race of handlers declares an unsent e-mail.
SentIsDelivered ==
  \A d \in Drafts : draft[d].status = "sent" =>
    \E r \in log : delivered[r] > 0 /\ req[r].draft = d /\ req[r].kind = "approve"

\* Two approvals of one draft never talk to the SMTP server at the same time:
\* the flush before send_email makes the second wait for the first to commit.
SendsAreSerial ==
  \A r, q \in Requests :
    {req[r].at, req[q].at} \subseteq {"smtp", "commit"} /\ req[r].draft = req[q].draft => r = q

\* The gate, seen in the outbox: the approvals read, and the log that says "sent".
Gate == INSTANCE ApprovalGate WITH
  authorised <- {r \in Requests : req[r].kind = "approve" /\ req[r].at \notin {"new", "refused"}},
  declared <- log

\* "Client authorization gate: approve = authorize send": the handlers implement
\* it, so an e-mail leaves on an approval, once, and is declared after it left.
GateHolds == Gate!Spec

\* Every request is answered: none waits for ever for the lock of a draft.
RequestsEnd == \A r \in Requests : req[r].at \in InProgress ~> req[r].at \notin InProgress

\* "Rechazado. ClearFlow no enviara nada": no e-mail of a draft leaves after the
\* client was told that it is rejected.
NothingSentAfterReject ==
  [][\A r, q \in Requests :
       delivered'[r] > delivered[r] /\ req[q].draft = req[r].draft =>
         ~(req[q].kind = "reject" /\ req[q].at = "done")]_vars
=============================================================================
