------------------------- MODULE EmailOutboxProofs -------------------------
(***************************************************************************)
(* Proofs about the e-mail outbox, for any number of drafts and requests:    *)
(* a draft shown as sent was delivered, approvals of one draft talk to the   *)
(* SMTP server one at a time, and the handlers implement ApprovalGate.       *)
(*                                                                         *)
(* None of the three is inductive.  What makes them so is Inv: a request     *)
(* that is between its flush and its commit holds the lock of its draft, a   *)
(* request has delivered nothing before its one call of send_email, and what *)
(* the log holds was approved and delivered.                                 *)
(***************************************************************************)
EXTENDS EmailOutbox, TLAPS

\* From the flush to the commit an approval holds the lock of its draft.
LockHeld ==
  \A r \in Requests : req[r].at \in {"smtp", "commit"} =>
    req[r].kind = "approve" /\ lock[req[r].draft] = r

\* A request delivers at most one e-mail, and only in send_email.
SendsOnce ==
  \A r \in Requests :
    /\ req[r].at \in {"new", "read", "refused", "smtp"} => delivered[r] = 0
    /\ req[r].at = "commit" /\ req[r].success => delivered[r] = 1

\* What the log declares sent was approved, delivered and answered.
LoggedIsDone ==
  \A r \in log : req[r].at = "done" /\ req[r].kind = "approve" /\ delivered[r] = 1

\* A request that was read names a draft.
DraftKnown == \A r \in Requests : req[r].at # "new" => req[r].draft \in Drafts

Inv == TypeOK /\ DraftKnown /\ LockHeld /\ SendsOnce /\ LoggedIsDone /\ SentIsDelivered

(***************************************************************************)
(* Types                                                                     *)
(***************************************************************************)
\* The initial state is well typed.
LEMMA InitTyped == Init => TypeOK
BY DEF Init, TypeOK, NewRequest, Step, Kind, DraftStatus

\* What the handler's return leaves in the request is well typed.
LEMMA AnswerTyped ==
  ASSUME TypeOK, NEW r \in Requests, NEW how \in Step, Answer(r, how)
  PROVE  req' \in [Requests -> [at : Step, kind : Kind, draft : Drafts \cup {NoRequest},
                                status : DraftStatus, success : BOOLEAN]]
<1> DEFINE new == [req[r] EXCEPT !.at = how, !.status = "none", !.success = FALSE]
<1>1. new \in [at : Step, kind : Kind, draft : Drafts \cup {NoRequest},
               status : DraftStatus, success : BOOLEAN]
  BY DEF TypeOK, DraftStatus
<1>2. req' = [req EXCEPT ![r] = new]
  BY DEF Answer, TypeOK
<1> QED
  BY <1>1, <1>2 DEF TypeOK

\* Every step of every handler keeps the state well typed.
LEMMA StepTyped == TypeOK /\ [Next]_vars => TypeOK'
<1> SUFFICES ASSUME TypeOK, [Next]_vars PROVE TypeOK'
  OBVIOUS
<1>1. CASE UNCHANGED vars
  BY <1>1 DEF vars, TypeOK
<1>2. ASSUME NEW d \in Drafts, NEW to \in BOOLEAN, Enqueue(d, to) PROVE TypeOK'
  BY <1>2 DEF Enqueue, TypeOK, DraftStatus
<1>3. ASSUME NEW r \in Requests, NEW d \in Drafts, NEW kind \in Kind, NEW to \in BOOLEAN,
             Read(r, d, kind, to)
      PROVE  TypeOK'
  BY <1>3 DEF Read, TypeOK, DraftStatus, Step
<1>4. ASSUME NEW r \in Requests, Flush(r) PROVE TypeOK'
  BY <1>4, ZenonT(60) DEF Flush, TypeOK, Step
<1>5. ASSUME NEW r \in Requests, Send(r) PROVE TypeOK'
  <2>1. PICK success \in BOOLEAN, accepted \in {0, 1} :
          /\ delivered' = [delivered EXCEPT ![r] = @ + accepted]
          /\ req' = [req EXCEPT ![r].at = "commit", ![r].success = success]
    BY <1>5 DEF Send
  <2>2. req' \in [Requests -> [at : Step, kind : Kind, draft : Drafts \cup {NoRequest},
                               status : DraftStatus, success : BOOLEAN]]
    <3> DEFINE new == [req[r] EXCEPT !.at = "commit", !.success = success]
    <3>1. new \in [at : Step, kind : Kind, draft : Drafts \cup {NoRequest},
                   status : DraftStatus, success : BOOLEAN]
      BY ZenonT(60) DEF TypeOK, Step
    <3>2. req' = [req EXCEPT ![r] = new]
      BY <2>1 DEF TypeOK
    <3> QED
      BY <3>1, <3>2 DEF TypeOK
  <2>3. delivered' \in [Requests -> Nat]
    BY <2>1 DEF TypeOK
  <2> QED
    BY <1>5, <2>2, <2>3 DEF Send, TypeOK
<1>6. ASSUME NEW r \in Requests, CommitApproval(r) PROVE TypeOK'
  <2>1. req' \in [Requests -> [at : Step, kind : Kind, draft : Drafts \cup {NoRequest},
                               status : DraftStatus, success : BOOLEAN]]
    BY <1>6, AnswerTyped DEF CommitApproval, Step
  <2>2. draft' \in [Drafts -> [status : DraftStatus, to : BOOLEAN]]
    BY <1>6 DEF CommitApproval, TypeOK, DraftStatus
  <2> QED
    BY <1>6, <2>1, <2>2 DEF CommitApproval, TypeOK, Unlock
<1>7. ASSUME NEW r \in Requests, CommitRefusal(r) PROVE TypeOK'
  <2>1. req' \in [Requests -> [at : Step, kind : Kind, draft : Drafts \cup {NoRequest},
                               status : DraftStatus, success : BOOLEAN]]
    BY <1>7, AnswerTyped DEF CommitRefusal, Step
  <2>2. draft' \in [Drafts -> [status : DraftStatus, to : BOOLEAN]]
    <3> DEFINE status == IF req[r].kind = "reject" THEN "rejected" ELSE "cancelled"
               d == req[r].draft
    <3>1. status \in DraftStatus
      BY DEF DraftStatus
    <3>2. [draft EXCEPT ![d].status = status] \in [Drafts -> [status : DraftStatus, to : BOOLEAN]]
      <4> HIDE DEF status, d
      <4> QED
        BY <3>1 DEF TypeOK
    <3>3. draft' \in {draft, [draft EXCEPT ![d].status = status]}
      BY <1>7 DEF CommitRefusal
    <3> QED
      BY <3>2, <3>3 DEF TypeOK
  <2> QED
    BY <1>7, <2>1, <2>2 DEF CommitRefusal, TypeOK
<1>8. ASSUME NEW r \in Requests, Abort(r) PROVE TypeOK'
  <2>1. req' \in [Requests -> [at : Step, kind : Kind, draft : Drafts \cup {NoRequest},
                               status : DraftStatus, success : BOOLEAN]]
    BY <1>8, AnswerTyped DEF Abort, Step
  <2> QED
    BY <1>8, <2>1 DEF Abort, TypeOK, Unlock
<1> QED
  BY <1>1, <1>2, <1>3, <1>4, <1>5, <1>6, <1>7, <1>8 DEF Next, Handler

\* TypeOK of EmailOutbox, for every number of drafts and requests.
THEOREM OutboxTypeCorrect == Spec => []TypeOK
BY InitTyped, StepTyped, PTL DEF Spec

(***************************************************************************)
(* The inductive invariant                                                   *)
(***************************************************************************)
\* Inv holds before anything was drafted or asked.
LEMMA InitInv == Init => Inv
BY InitTyped
   DEF Init, Inv, DraftKnown, LockHeld, SendsOnce, LoggedIsDone, SentIsDelivered, NewRequest

\* What is not in the log may change: the log still tells the truth.
LEMMA LogStaysTrue ==
  ASSUME Inv, NEW r \in Requests, r \notin log, log' = log,
         \A q \in Requests \ {r} : req'[q] = req[q] /\ delivered'[q] = delivered[q],
         \A e \in Drafts : draft'[e].status = "sent" => draft[e].status = "sent"
  PROVE  LoggedIsDone' /\ SentIsDelivered'
<1>1. \A q \in log : q \in Requests \ {r}
  BY DEF Inv, TypeOK
<1>2. LoggedIsDone'
  BY <1>1 DEF Inv, LoggedIsDone
<1>3. ASSUME NEW e \in Drafts, draft'[e].status = "sent"
      PROVE  \E q \in log' : delivered'[q] > 0 /\ req'[q].draft = e /\ req'[q].kind = "approve"
  <2>1. PICK q \in log : delivered[q] > 0 /\ req[q].draft = e /\ req[q].kind = "approve"
    BY <1>3 DEF Inv, SentIsDelivered
  <2> QED
    BY <1>1, <2>1
<1> QED
  BY <1>2, <1>3 DEF SentIsDelivered

\* A draft of a run changes no request.
LEMMA EnqueueInv ==
  ASSUME Inv, TypeOK', NEW d \in Drafts, NEW to \in BOOLEAN, Enqueue(d, to)
  PROVE  Inv'
BY DEF Inv, TypeOK, Enqueue, DraftKnown, LockHeld, SendsOnce, LoggedIsDone, SentIsDelivered

\* A request that is read for the first time is in no lock and in no log.
LEMMA ReadInv ==
  ASSUME Inv, TypeOK', NEW r \in Requests, NEW d \in Drafts, NEW kind \in Kind,
         NEW to \in BOOLEAN, Read(r, d, kind, to)
  PROVE  Inv'
<1>1. req[r].at = "new" /\ req'[r].at \in {"read", "refused"} /\ req'[r].draft = d
  BY DEF Read, Inv, TypeOK
<1>2. \A q \in Requests \ {r} : req'[q] = req[q]
  BY DEF Read, Inv, TypeOK
<1>3. UNCHANGED <<draft, lock, delivered, log>>
  BY DEF Read
<1>4. r \notin log
  BY <1>1 DEF Inv, LoggedIsDone
<1>5. DraftKnown' /\ LockHeld'
  BY <1>1, <1>2, <1>3 DEF Inv, DraftKnown, LockHeld
<1>6. SendsOnce'
  BY <1>1, <1>2, <1>3 DEF Inv, SendsOnce
<1>7. LoggedIsDone' /\ SentIsDelivered'
  BY <1>1, <1>2, <1>3, <1>4, LogStaysTrue
<1> QED
  BY <1>5, <1>6, <1>7 DEF Inv

\* The flush takes a lock nobody held.
LEMMA FlushInv ==
  ASSUME Inv, TypeOK', NEW r \in Requests, Flush(r)
  PROVE  Inv'
<1> DEFINE d == req[r].draft
<1>1. /\ req[r].at = "read" /\ req[r].kind = "approve" /\ d \in Drafts
      /\ lock[d] = NoRequest /\ lock' = [lock EXCEPT ![d] = r]
  BY DEF Flush, Inv, DraftKnown
<1>2. req'[r].at = "smtp" /\ req'[r].kind = "approve" /\ req'[r].draft = d
  BY DEF Flush, Inv, TypeOK
<1>3. \A q \in Requests \ {r} : req'[q] = req[q]
  BY DEF Flush, Inv, TypeOK
<1>4. UNCHANGED <<draft, delivered, log>>
  BY DEF Flush
<1>5. LockHeld'
  <2> SUFFICES ASSUME NEW q \in Requests, req'[q].at \in {"smtp", "commit"}
               PROVE  req'[q].kind = "approve" /\ lock'[req'[q].draft] = q
    BY DEF LockHeld
  <2>1. CASE q = r
    BY <1>1, <1>2, <2>1 DEF Inv, TypeOK
  <2>2. CASE q # r
    <3>1. req'[q] = req[q] /\ req[q].kind = "approve" /\ lock[req[q].draft] = q
      BY <1>3, <2>2 DEF Inv, LockHeld
    <3>2. req[q].draft # d
      BY <1>1, <3>1, RequestsAssumption
    <3>3. req[q].draft \in Drafts
      BY <3>1 DEF Inv, DraftKnown
    <3> QED
      BY <1>1, <3>1, <3>2, <3>3 DEF Inv, TypeOK
  <2> QED
    BY <2>1, <2>2
<1>6. DraftKnown' /\ SendsOnce'
  BY <1>1, <1>2, <1>3, <1>4 DEF Inv, DraftKnown, SendsOnce
<1>7. r \notin log
  BY <1>1 DEF Inv, LoggedIsDone
<1>8. LoggedIsDone' /\ SentIsDelivered'
  BY <1>3, <1>4, <1>7, LogStaysTrue
<1> QED
  BY <1>5, <1>6, <1>8 DEF Inv

\* send_email delivers at most the one e-mail of its request.
LEMMA SendInv ==
  ASSUME Inv, TypeOK', NEW r \in Requests, Send(r)
  PROVE  Inv'
<1>1. req[r].at = "smtp" /\ delivered[r] = 0
  BY DEF Send, Inv, SendsOnce
<1>2. PICK success \in BOOLEAN, accepted \in {0, 1} :
        /\ success => accepted = 1
        /\ delivered' = [delivered EXCEPT ![r] = @ + accepted]
        /\ req' = [req EXCEPT ![r].at = "commit", ![r].success = success]
  BY DEF Send
<1>3. /\ req'[r].at = "commit" /\ req'[r].success = success
      /\ req'[r].kind = req[r].kind /\ req'[r].draft = req[r].draft
      /\ delivered'[r] = accepted
  BY <1>1, <1>2 DEF Inv, TypeOK
<1>4. \A q \in Requests \ {r} : req'[q] = req[q] /\ delivered'[q] = delivered[q]
  BY <1>2 DEF Inv, TypeOK
<1>5. UNCHANGED <<draft, lock, log>>
  BY DEF Send
<1>6. r \notin log
  BY <1>1 DEF Inv, LoggedIsDone
<1>7. DraftKnown' /\ LockHeld'
  BY <1>1, <1>3, <1>4, <1>5 DEF Inv, DraftKnown, LockHeld
<1>8. SendsOnce'
  BY <1>2, <1>3, <1>4, ZenonT(60) DEF Inv, SendsOnce
<1>9. LoggedIsDone' /\ SentIsDelivered'
  BY <1>4, <1>5, <1>6, LogStaysTrue
<1> QED
  BY <1>7, <1>8, <1>9 DEF Inv

\* The end of a transaction of r takes no lock from another request.
LEMMA UnlockKeepsOthers ==
  ASSUME Inv, NEW r \in Requests, req[r].at # "new", lock' = Unlock(r),
         req'[r].at \in {"done", "aborted"},
         req'[r].draft = req[r].draft, \A q \in Requests \ {r} : req'[q] = req[q]
  PROVE  LockHeld' /\ DraftKnown'
<1>1. DraftKnown'
  BY DEF Inv, DraftKnown
<1>2. ASSUME NEW q \in Requests, req'[q].at \in {"smtp", "commit"}
      PROVE  req'[q].kind = "approve" /\ lock'[req'[q].draft] = q
  <2>1. q # r /\ req'[q] = req[q]
    BY <1>2
  <2>2. req[q].kind = "approve" /\ lock[req[q].draft] = q /\ req[q].draft \in Drafts
    BY <1>2, <2>1 DEF Inv, LockHeld, DraftKnown
  <2> QED
    BY <2>1, <2>2 DEF Unlock
<1> QED
  BY <1>1, <1>2 DEF LockHeld

\* A draft becomes sent in the step that logs the delivery.
LEMMA CommitApprovalInv ==
  ASSUME Inv, TypeOK', NEW r \in Requests, CommitApproval(r)
  PROVE  Inv'
<1> DEFINE d == req[r].draft
<1>1. req[r].at = "commit" /\ req[r].kind = "approve" /\ d \in Drafts
  BY DEF CommitApproval, Inv, LockHeld, DraftKnown
<1>2. /\ req'[r].at = "done" /\ req'[r].kind = "approve" /\ req'[r].draft = d
      /\ ~req'[r].success
  BY <1>1 DEF CommitApproval, Answer, Inv, TypeOK
<1>3. \A q \in Requests \ {r} : req'[q] = req[q]
  BY DEF CommitApproval, Answer, Inv, TypeOK
<1>4. delivered' = delivered /\ log' = IF req[r].success THEN log \cup {r} ELSE log
  BY DEF CommitApproval
<1>5. LockHeld' /\ DraftKnown'
  BY <1>1, <1>2, <1>3, UnlockKeepsOthers DEF CommitApproval
<1>6. SendsOnce'
  BY <1>2, <1>3, <1>4 DEF Inv, SendsOnce
<1>7. req[r].success => delivered[r] = 1
  BY <1>1 DEF Inv, SendsOnce
<1>8. LoggedIsDone'
  BY <1>2, <1>3, <1>4, <1>7 DEF Inv, TypeOK, LoggedIsDone
<1>9. SentIsDelivered'
  <2> SUFFICES ASSUME NEW e \in Drafts, draft'[e].status = "sent"
               PROVE  \E q \in log' : delivered'[q] > 0 /\ req'[q].draft = e
                                      /\ req'[q].kind = "approve"
    BY DEF SentIsDelivered
  <2>1. CASE e = d
    <3>1. draft'[e].status = IF req[r].success THEN "sent" ELSE "failed"
      BY <1>1, <2>1 DEF CommitApproval, Inv, TypeOK
    <3>2. r \in log' /\ delivered'[r] = 1
      BY <1>4, <1>7, <3>1
    <3> QED
      BY <1>2, <2>1, <3>2
  <2>2. CASE e # d
    <3>1. draft'[e] = draft[e]
      BY <1>1, <2>2 DEF CommitApproval, Inv, TypeOK
    <3>2. PICK q \in log : delivered[q] > 0 /\ req[q].draft = e /\ req[q].kind = "approve"
      BY <3>1 DEF Inv, SentIsDelivered
    <3>3. q # r
      BY <2>2, <3>2
    <3> QED
      BY <1>3, <1>4, <3>2, <3>3 DEF Inv, TypeOK
  <2> QED
    BY <2>1, <2>2
<1> QED
  BY <1>5, <1>6, <1>8, <1>9 DEF Inv

\* A refusal never makes a draft sent.
LEMMA CommitRefusalInv ==
  ASSUME Inv, TypeOK', NEW r \in Requests, CommitRefusal(r)
  PROVE  Inv'
<1>1. req[r].at = "read" /\ req[r].kind # "approve" /\ UNCHANGED <<lock, delivered, log>>
  BY DEF CommitRefusal
<1>2. req'[r].at = "done" /\ req'[r].draft = req[r].draft /\ ~req'[r].success
  BY <1>1 DEF CommitRefusal, Answer, Inv, TypeOK
<1>3. \A q \in Requests \ {r} : req'[q] = req[q]
  BY DEF CommitRefusal, Answer, Inv, TypeOK
<1>4. \A e \in Drafts : draft'[e].status = "sent" => draft[e].status = "sent"
  BY DEF CommitRefusal, Inv, TypeOK
<1>5. r \notin log
  BY <1>1 DEF Inv, LoggedIsDone
<1>6. LockHeld' /\ DraftKnown'
  BY <1>1, <1>2, <1>3 DEF Inv, LockHeld, DraftKnown
<1>7. SendsOnce'
  BY <1>1, <1>2, <1>3 DEF Inv, SendsOnce
<1>8. LoggedIsDone' /\ SentIsDelivered'
  BY <1>1, <1>3, <1>4, <1>5, LogStaysTrue
<1> QED
  BY <1>6, <1>7, <1>8 DEF Inv

\* What is rolled back was not logged.
LEMMA AbortInv ==
  ASSUME Inv, TypeOK', NEW r \in Requests, Abort(r)
  PROVE  Inv'
<1>1. req[r].at \in {"read", "smtp", "commit"} /\ UNCHANGED <<draft, delivered, log>>
  BY DEF Abort, InProgress
<1>2. req'[r].at = "aborted" /\ req'[r].draft = req[r].draft /\ ~req'[r].success
  BY <1>1 DEF Abort, Answer, Inv, TypeOK
<1>3. \A q \in Requests \ {r} : req'[q] = req[q]
  BY DEF Abort, Answer, Inv, TypeOK
<1>4. r \notin log
  BY <1>1 DEF Inv, LoggedIsDone
<1>5. LockHeld' /\ DraftKnown'
  BY <1>1, <1>2, <1>3, UnlockKeepsOthers DEF Abort
<1>6. SendsOnce'
  BY <1>1, <1>2, <1>3 DEF Inv, SendsOnce
<1>7. LoggedIsDone' /\ SentIsDelivered'
  BY <1>1, <1>3, <1>4, LogStaysTrue
<1> QED
  BY <1>5, <1>6, <1>7 DEF Inv

\* Inv is inductive.
LEMMA StepInv == Inv /\ [Next]_vars => Inv'
<1> SUFFICES ASSUME Inv, [Next]_vars PROVE Inv'
  OBVIOUS
<1>1. TypeOK'
  BY StepTyped DEF Inv
<1>2. CASE UNCHANGED vars
  BY <1>2
     DEF vars, Inv, TypeOK, DraftKnown, LockHeld, SendsOnce, LoggedIsDone, SentIsDelivered
<1> QED
  BY <1>1, <1>2, EnqueueInv, ReadInv, FlushInv, SendInv, CommitApprovalInv, CommitRefusalInv,
     AbortInv DEF Next, Handler

\* Inv holds in every reachable state.
THEOREM OutboxInv == Spec => []Inv
BY InitInv, StepInv, PTL DEF Spec

\* A draft shown as sent was delivered and logged on an approval of it.
THEOREM SentWasDelivered == Spec => []SentIsDelivered
<1>1. Inv => SentIsDelivered
  BY DEF Inv
<1> QED
  BY <1>1, OutboxInv, PTL

\* Two approvals of one draft never talk to the SMTP server at the same time:
\* both would hold the lock of the draft.
THEOREM ApprovalsAreSerial == Spec => []SendsAreSerial
<1>1. Inv => SendsAreSerial
  BY DEF Inv, LockHeld, SendsAreSerial
<1> QED
  BY <1>1, OutboxInv, PTL

(***************************************************************************)
(* The handlers implement ApprovalGate                                       *)
(***************************************************************************)
Authorised == {r \in Requests : req[r].kind = "approve" /\ req[r].at \notin {"new", "refused"}}

\* Every step of the outbox is a step of the gate, or changes nothing of it.
LEMMA StepGate == Inv /\ [Next]_vars => [Gate!Next]_(Gate!vars)
<1> SUFFICES ASSUME Inv, [Next]_vars PROVE [Gate!Next]_(Gate!vars)
  OBVIOUS
<1> USE DEF Inv
<1>1. ASSUME Authorised' = Authorised, UNCHANGED <<delivered, log>>
      PROVE  UNCHANGED Gate!vars
  BY <1>1 DEF Gate!vars, Authorised
<1>2. CASE UNCHANGED vars
  BY <1>1, <1>2 DEF vars, Authorised
<1>3. ASSUME NEW d \in Drafts, NEW to \in BOOLEAN, Enqueue(d, to) PROVE UNCHANGED Gate!vars
  BY <1>1, <1>3 DEF Enqueue, Authorised
<1>4. ASSUME NEW r \in Requests, NEW d \in Drafts, NEW kind \in Kind, NEW to \in BOOLEAN,
             Read(r, d, kind, to)
      PROVE  [Gate!Next]_(Gate!vars)
  <2>1. req[r].at = "new" /\ UNCHANGED <<delivered, log>>
    BY <1>4 DEF Read
  <2>2. \A q \in Requests \ {r} : req'[q] = req[q]
    BY <1>4 DEF Read, TypeOK
  <2>3. r \notin Authorised
    BY <2>1 DEF Authorised
  <2>4. CASE r \in Authorised'
    <3>1. Authorised' = Authorised \cup {r}
      BY <2>2, <2>4 DEF Authorised
    <3>2. Gate!Authorise(r)
      BY <2>1, <2>3, <3>1 DEF Gate!Authorise, Authorised
    <3> QED
      BY <3>2 DEF Gate!Next
  <2>5. CASE r \notin Authorised'
    BY <1>1, <2>1, <2>2, <2>3, <2>5 DEF Authorised
  <2> QED
    BY <2>4, <2>5
<1>5. ASSUME NEW r \in Requests, Flush(r) PROVE UNCHANGED Gate!vars
  BY <1>1, <1>5 DEF Flush, Authorised, TypeOK
<1>6. ASSUME NEW r \in Requests, Send(r) PROVE [Gate!Next]_(Gate!vars)
  <2>1. req[r].at = "smtp" /\ delivered[r] = 0 /\ req[r].kind = "approve"
    BY <1>6 DEF Send, SendsOnce, LockHeld
  <2>2. PICK accepted \in {0, 1} : delivered' = [delivered EXCEPT ![r] = @ + accepted]
    BY <1>6 DEF Send
  <2>3. Authorised' = Authorised /\ r \in Authorised /\ log' = log
    BY <1>6, <2>1 DEF Send, Authorised, TypeOK
  <2>4. CASE accepted = 0
    BY <1>1, <2>1, <2>2, <2>3, <2>4 DEF TypeOK
  <2>5. CASE accepted = 1
    <3>1. delivered' = [delivered EXCEPT ![r] = 1]
      BY <2>1, <2>2, <2>5 DEF TypeOK
    <3>2. Gate!Deliver(r)
      BY <2>1, <2>3, <3>1 DEF Gate!Deliver, Authorised
    <3> QED
      BY <3>2 DEF Gate!Next
  <2> QED
    BY <2>4, <2>5
<1>7. ASSUME NEW r \in Requests, CommitApproval(r) PROVE [Gate!Next]_(Gate!vars)
  <2>1. req[r].at = "commit" /\ delivered' = delivered
    BY <1>7 DEF CommitApproval
  <2>2. Authorised' = Authorised
    BY <1>7, <2>1 DEF CommitApproval, Answer, Authorised, TypeOK
  <2>3. CASE req[r].success
    <3>1. delivered[r] = 1 /\ r \notin log /\ log' = log \cup {r}
      BY <1>7, <2>1, <2>3 DEF CommitApproval, SendsOnce, LoggedIsDone
    <3>2. Gate!Declare(r)
      BY <2>1, <2>2, <3>1 DEF Gate!Declare, Authorised
    <3> QED
      BY <3>2 DEF Gate!Next
  <2>4. CASE ~req[r].success
    BY <1>1, <1>7, <2>1, <2>2, <2>4 DEF CommitApproval
  <2> QED
    BY <2>3, <2>4
<1>8. ASSUME NEW r \in Requests, CommitRefusal(r) PROVE UNCHANGED Gate!vars
  BY <1>1, <1>8 DEF CommitRefusal, Answer, Authorised, TypeOK
<1>9. ASSUME NEW r \in Requests, Abort(r) PROVE UNCHANGED Gate!vars
  BY <1>1, <1>9 DEF Abort, Answer, Authorised, TypeOK, InProgress
<1> QED
  BY <1>2, <1>3, <1>4, <1>5, <1>6, <1>7, <1>8, <1>9 DEF Next, Handler

\* The outbox implements the approval gate: an e-mail leaves only on an
\* approval, once for each, and is declared sent only after it left.
THEOREM OutboxImplementsGate == Spec => GateHolds
<1>1. Init => Gate!Init
  BY DEF Init, Gate!Init, NewRequest
<1> QED
  BY <1>1, StepGate, OutboxInv, PTL DEF Spec, GateHolds, Gate!Spec
=============================================================================
