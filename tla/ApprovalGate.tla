--------------------------- MODULE ApprovalGate ---------------------------
(***************************************************************************)
(* What the e-mail outbox promises, whatever fails or races: a provider is   *)
(* written to only on an authorisation of the client, at most once for each  *)
(* authorisation, and an e-mail is declared sent only after it was.          *)
(***************************************************************************)
EXTENDS Naturals

CONSTANT Requests

VARIABLES
  authorised,  \* requests by which the client authorised a draft
  delivered,   \* [Requests -> e-mails that left on the request]
  declared     \* those the log declares sent

vars == <<authorised, delivered, declared>>

Init == authorised = {} /\ delivered = [r \in Requests |-> 0] /\ declared = {}

Authorise(r) ==
  /\ r \notin authorised
  /\ authorised' = authorised \cup {r}
  /\ UNCHANGED <<delivered, declared>>

Deliver(r) ==
  /\ r \in authorised /\ delivered[r] = 0
  /\ delivered' = [delivered EXCEPT ![r] = 1]
  /\ UNCHANGED <<authorised, declared>>

Declare(r) ==
  /\ delivered[r] = 1 /\ r \notin declared
  /\ declared' = declared \cup {r}
  /\ UNCHANGED <<authorised, delivered>>

Next == \E r \in Requests : Authorise(r) \/ Deliver(r) \/ Declare(r)

Spec == Init /\ [][Next]_vars
=============================================================================
