--------------------------- MODULE AccountsProofs ---------------------------
(***************************************************************************)
(* Proofs about accounts, for any number of accounts, phones, handlers and   *)
(* tries: a code is accepted once, what a login asks for was confirmed, and  *)
(* an account keeps its tenant.                                              *)
(*                                                                         *)
(* The invariant has three parts.  MemoryInv: what is in a dictionary was    *)
(* given out for it, is in no other place and has not been accepted.         *)
(* WorkInv: a handler about to commit has a copy of a row that is there, and *)
(* writes its own columns only; an enabled method that it writes has been    *)
(* confirmed.  RowsInv: the rows, with EnabledIsConfirmed.                   *)
(***************************************************************************)
EXTENDS Accounts, TLAPS

TotpKind == {"totp_setup", "totp_enable", "totp_disable"}
SmsKind == {"sms_setup", "sms_enable", "sms_disable"}
Kind == TotpKind \cup SmsKind \cup
        {"register", "login", "mfa_sms_send", "mfa_verify_totp", "mfa_verify_sms",
         "passkey_register_begin", "passkey_register_complete",
         "passkey_login_begin", "passkey_login_complete"}

Jobs == [at : {"idle", "read", "commit", "refresh", "send"}, kind : Kind \cup {None},
        account : Accounts \cup {None}, arg : Nat \cup Phones \cup {None},
        loaded : Row \cup {None}, want : Row \cup {None}]

(***************************************************************************)
(* The invariant                                                             *)
(***************************************************************************)
\* EnabledIsConfirmed, of one row.
RowOK(u, proven, tears) ==
  /\ u.totp_enabled /\ "totp" \notin tears => u.totp_secret \in proven
  /\ u.sms_backup_enabled /\ "sms" \notin tears => u.phone_e164 \in proven

RowsInv ==
  /\ user \in [Accounts -> Row \cup {None}]
  /\ tenants \in Seq(Accounts)
  /\ passkeys \in [Accounts -> SUBSET (1..MaxIssued)]
  /\ sessions \subseteq Accounts /\ pending \subseteq Accounts
  /\ confirmed \in [Accounts -> SUBSET (1..MaxIssued \cup Phones)]
  /\ torn \in [Accounts -> SUBSET Group]
  /\ \A a \in Accounts : user[a] \in Row => RowOK(user[a], confirmed[a], torn[a])

Unused(n, for) == n \in 1..Len(issued) /\ issued[n].for = for /\ issued[n].uses = 0

CodesInv ==
  /\ \A a \in Accounts, p \in Phones : codes[a][p] # Absent => Unused(codes[a][p].code, "sms")
  /\ \A a, b \in Accounts, p, q \in Phones :
       /\ codes[a][p] # Absent /\ codes[b][q] # Absent
       /\ codes[a][p].code = codes[b][q].code
       => a = b /\ p = q

ChallengesInv ==
  /\ \A a \in Accounts, p \in Purpose : challenge[a][p] # Absent => Unused(challenge[a][p], p)
  /\ \A a, b \in Accounts, p \in Purpose :
       challenge[a][p] # Absent /\ challenge[a][p] = challenge[b][p] => a = b

MemoryInv ==
  /\ codes \in [Accounts -> [Phones -> [code : 1..MaxIssued, attempts : 0..MaxAttempts] \cup {Absent}]]
  /\ challenge \in [Accounts -> [Purpose -> 1..MaxIssued \cup {Absent}]]
  /\ issued \in Seq([for : {"totp", "sms"} \cup Purpose, uses : Nat])
  /\ Len(issued) <= MaxIssued
  /\ CodesInv
  /\ ChallengesInv
  /\ AcceptedOnce

\* What a handler about to commit will write over these rows.
WantOK(j, rows, proven) ==
  /\ j.loaded \in Row /\ j.want \in Row /\ rows[j.account] \in Row
  /\ j.kind = "login" => j.loaded.tenant_id = None
  /\ j.kind \in TotpKind \cup SmsKind => j.want.tenant_id = j.loaded.tenant_id
  /\ j.kind \in TotpKind =>
       /\ j.want.phone_e164 = j.loaded.phone_e164
       /\ j.want.sms_backup_enabled = j.loaded.sms_backup_enabled
       /\ j.want.totp_enabled => j.want.totp_secret \in proven[j.account]
  /\ j.kind \in SmsKind =>
       /\ j.want.totp_secret = j.loaded.totp_secret
       /\ j.want.totp_enabled = j.loaded.totp_enabled
       /\ j.want.sms_backup_enabled => j.want.phone_e164 \in proven[j.account]
  /\ j.kind = "passkey_register_complete" => j.arg \in 1..MaxIssued

JobOK(j, rows, proven) ==
  j.at # "idle" =>
    /\ j.account \in Accounts
    /\ j.kind = "sms_setup" => j.arg \in Phones
    /\ j.kind \in {"passkey_register_complete", "passkey_login_complete"} => j.arg \in Nat
    /\ j.at = "read" /\ j.loaded # None => rows[j.account] \in Row
    /\ j.at = "commit" /\ j.kind # "register" => WantOK(j, rows, proven)

WorkInv ==
  /\ work \in [Workers -> Jobs]
  /\ \A w \in Workers : JobOK(work[w], user, confirmed)

Inv == RowsInv /\ MemoryInv /\ WorkInv

\* What every step leaves: rows stay, and what was confirmed was confirmed.
Grows ==
  \A a \in Accounts : (user[a] \in Row => user'[a] \in Row) /\ confirmed[a] \subseteq confirmed'[a]

\* The inductive invariant implies the properties of the run.
LEMMA InvIsEnough == Inv => TypeOK /\ EnabledIsConfirmed /\ AcceptedOnce
BY DEF Inv, RowsInv, RowOK, EnabledIsConfirmed, MemoryInv, TypeOK

(***************************************************************************)
(* The parts of a step                                                       *)
(***************************************************************************)
LEMMA SameRows ==
  ASSUME RowsInv, UNCHANGED <<user, tenants, passkeys, confirmed, torn>>,
         sessions' \subseteq Accounts, pending' \subseteq Accounts
  PROVE  RowsInv' /\ Grows
BY DEF RowsInv, Grows

\* Steps that touch no code, challenge or issued value keep MemoryInv.
LEMMA SameMemory ==
  ASSUME MemoryInv, UNCHANGED <<memory, issued>>
  PROVE  MemoryInv'
BY DEF MemoryInv, memory, CodesInv, ChallengesInv, AcceptedOnce, Unused

\* What a handler may hold stays right when rows and confirmations only grow.
LEMMA JobStays ==
  ASSUME Grows, NEW j \in Jobs, JobOK(j, user, confirmed)
  PROVE  JobOK(j, user', confirmed')
<1>1. ASSUME j.at = "commit", j.kind # "register" PROVE WantOK(j, user', confirmed')
  BY <1>1 DEF JobOK, WantOK, Grows
<1> QED
  BY <1>1 DEF JobOK, Grows

\* A handler that goes on with locals that are right keeps WorkInv.
LEMMA WorkStep ==
  ASSUME WorkInv, Grows, NEW w \in Workers, NEW j \in Jobs, JobOK(j, user', confirmed'),
         work' = [work EXCEPT ![w] = j]
  PROVE  WorkInv'
<1>1. work' \in [Workers -> Jobs] /\ work'[w] = j /\ \A v \in Workers \ {w} : work'[v] = work[v]
  BY DEF WorkInv
<1>2. ASSUME NEW v \in Workers PROVE JobOK(work'[v], user', confirmed')
  BY <1>1, JobStays DEF WorkInv
<1> QED
  BY <1>1, <1>2 DEF WorkInv

\* The three ways in which a handler goes on.
LEMMA DoneStep ==
  ASSUME WorkInv, Grows, NEW w \in Workers, Done(w)
  PROVE  WorkInv'
<1>1. Free \in Jobs /\ JobOK(Free, user', confirmed')
  BY DEF Free, Job, Jobs, JobOK
<1> QED
  BY <1>1, WorkStep DEF Done

\* A handler whose locals are right may go on to a refresh or an SMS.
LEMMA GoesStep ==
  ASSUME WorkInv, Grows, NEW w \in Workers, NEW at \in {"refresh", "send"}, Goes(w, at),
         work[w].at # "idle"
  PROVE  WorkInv'
<1> DEFINE j == Job(at, work[w].kind, work[w].account, work[w].arg, None, None)
<1>1. work[w] \in Jobs /\ JobOK(work[w], user, confirmed)
  BY DEF WorkInv
<1>2. j \in Jobs
  BY <1>1 DEF Jobs, Job
<1>3. /\ j.at = at /\ j.kind = work[w].kind /\ j.account = work[w].account
      /\ j.arg = work[w].arg
  BY DEF Job
<1> HIDE DEF j
<1>4. JobOK(j, user', confirmed')
  BY <1>1, <1>3 DEF JobOK
<1> QED
  BY <1>2, <1>4, WorkStep DEF j, Goes

\* The row that a handler has read is there.
LEMMA Read ==
  ASSUME Inv, NEW w \in Workers, work[w].at = "read"
  PROVE  /\ work[w] \in Jobs /\ JobOK(work[w], user, confirmed) /\ work[w].account \in Accounts
         /\ user[work[w].account] \in Row \cup {None}
         /\ work[w].loaded # None => work[w].loaded \in Row /\ user[work[w].account] \in Row
BY DEF Inv, WorkInv, RowsInv, JobOK, Jobs

\* A handler that is about to commit wants what its kind may want.
LEMMA WritesStep ==
  ASSUME Inv, Grows, NEW w \in Workers, work[w].at = "read", NEW want \in Row, Writes(w, want),
         work[w].kind # "register" =>
           WantOK(Job("commit", work[w].kind, work[w].account, work[w].arg, work[w].loaded, want),
                  user', confirmed')
  PROVE  WorkInv'
<1> DEFINE j == Job("commit", work[w].kind, work[w].account, work[w].arg, work[w].loaded, want)
<1>1. work[w] \in Jobs /\ JobOK(work[w], user, confirmed) /\ work[w].account \in Accounts
  BY Read
<1>2. j \in Jobs
  BY <1>1 DEF Jobs, Job
<1>3. /\ j.at = "commit" /\ j.kind = work[w].kind /\ j.account = work[w].account
      /\ j.arg = work[w].arg
  BY DEF Job
<1>4. work[w].kind # "register" => WantOK(j, user', confirmed')
  OBVIOUS
<1> HIDE DEF j
<1>5. JobOK(j, user', confirmed')
  BY <1>1, <1>3, <1>4 DEF JobOK
<1> QED
  BY <1>2, <1>5, WorkStep DEF j, Inv, Writes

\* Steps of a handler that change no row and no memory.
LEMMA QuietStep ==
  ASSUME Inv, NEW w \in Workers, UNCHANGED <<user, tenants, passkeys, memory, ghosts>>,
         sessions' \subseteq Accounts, pending' \subseteq Accounts, Grows => WorkInv'
  PROVE  Inv'
<1>1. RowsInv' /\ Grows
  BY SameRows DEF Inv, ghosts
<1>2. MemoryInv'
  BY SameMemory DEF Inv, ghosts
<1> QED
  BY <1>1, <1>2 DEF Inv

(***************************************************************************)
(* Memory                                                                    *)
(***************************************************************************)
LEMMA Issued ==
  ASSUME MemoryInv, NEW for \in {"totp", "sms"} \cup Purpose, Issue(for)
  PROVE  /\ Fresh \in 1..MaxIssued /\ Fresh = Len(issued')
         /\ issued' \in Seq([for : {"totp", "sms"} \cup Purpose, uses : Nat])
         /\ Len(issued') <= MaxIssued
         /\ AcceptedOnce'
         /\ issued'[Fresh] = [for |-> for, uses |-> 0]
         /\ \A n \in 1..Len(issued) : n \in 1..Len(issued') /\ issued'[n] = issued[n]
         /\ Fresh \notin 1..Len(issued)
<1> DEFINE e == [for |-> for, uses |-> 0]
<1>1. issued' = Append(issued, e) /\ Fresh <= MaxIssued /\ Fresh = Len(issued) + 1
  BY DEF Issue, Fresh
<1>2. e \in [for : {"totp", "sms"} \cup Purpose, uses : Nat]
  OBVIOUS
<1>3. issued \in Seq([for : {"totp", "sms"} \cup Purpose, uses : Nat])
  BY DEF MemoryInv
<1> HIDE DEF e
<1>4. /\ issued' \in Seq([for : {"totp", "sms"} \cup Purpose, uses : Nat])
      /\ Len(issued') = Len(issued) + 1 /\ issued'[Len(issued) + 1] = e
      /\ \A n \in 1..Len(issued) : issued'[n] = issued[n]
  BY <1>1, <1>2, <1>3
<1>5. AcceptedOnce'
  <2> SUFFICES ASSUME NEW n \in 1..(Len(issued) + 1) PROVE issued'[n].uses <= 1
    BY <1>4 DEF AcceptedOnce
  <2>1. CASE n \in 1..Len(issued)
    BY <2>1, <1>4 DEF AcceptedOnce, MemoryInv
  <2>2. CASE n = Len(issued) + 1
    BY <2>2, <1>4 DEF e
  <2> QED
    BY <2>1, <2>2, <1>3
<1> QED
  BY <1>1, <1>3, <1>4, <1>5, BoundsAssumption DEF e

\* A new TOTP secret is like no code or challenge given out before.
LEMMA IssueSecret ==
  ASSUME MemoryInv, Issue("totp"), UNCHANGED memory
  PROVE  MemoryInv'
<1>1. \A n \in 1..Len(issued) : n \in 1..Len(issued') /\ issued'[n] = issued[n]
  BY Issued
<1>2. CodesInv' /\ ChallengesInv'
  BY <1>1 DEF MemoryInv, memory, CodesInv, ChallengesInv, Unused
<1> QED
  BY <1>2, Issued DEF MemoryInv, memory

\* What is in a dictionary afterwards was there, and has not been accepted.
Kept(n) == n \in 1..Len(issued') /\ issued'[n] = issued[n]

\* Codes that are dropped, or that count one more attempt, keep CodesInv.
LEMMA CodesLess ==
  ASSUME CodesInv,
         \A b \in Accounts, q \in Phones : codes'[b][q] # Absent =>
           codes[b][q] # Absent /\ codes'[b][q].code = codes[b][q].code /\ Kept(codes[b][q].code)
  PROVE  CodesInv'
<1>1. ASSUME NEW b \in Accounts, NEW q \in Phones, codes'[b][q] # Absent
      PROVE  Unused(codes[b][q].code, "sms")'
  <2>1. /\ Unused(codes[b][q].code, "sms") /\ codes'[b][q].code = codes[b][q].code
        /\ Kept(codes[b][q].code)
    BY <1>1 DEF CodesInv
  <2> QED
    BY <2>1 DEF Unused, Kept
<1> QED
  BY <1>1 DEF CodesInv

\* Challenges that are dropped keep ChallengesInv.
LEMMA ChallengesLess ==
  ASSUME ChallengesInv,
         \A b \in Accounts, q \in Purpose : challenge'[b][q] # Absent =>
           challenge'[b][q] = challenge[b][q] /\ Kept(challenge[b][q])
  PROVE  ChallengesInv'
<1>1. ASSUME NEW b \in Accounts, NEW q \in Purpose, challenge'[b][q] # Absent
      PROVE  Unused(challenge[b][q], q)'
  <2>1. /\ Unused(challenge[b][q], q) /\ challenge'[b][q] = challenge[b][q]
        /\ Kept(challenge[b][q])
    BY <1>1 DEF ChallengesInv
  <2> QED
    BY <2>1 DEF Unused, Kept
<1> QED
  BY <1>1 DEF ChallengesInv

\* With the same dictionary, or an emptier one, it is enough that what is
\* unused is kept.
LEMMA UnusedKept ==
  ASSUME MemoryInv, NEW for, \A n : Unused(n, for) => Kept(n)
  PROVE  /\ for = "sms" => \A b \in Accounts, q \in Phones :
               codes[b][q] # Absent => Kept(codes[b][q].code)
         /\ for \in Purpose => \A b \in Accounts :
               challenge[b][for] # Absent => Kept(challenge[b][for])
BY DEF MemoryInv, CodesInv, ChallengesInv

\* A new code, in its place.
LEMMA IssueCode ==
  ASSUME MemoryInv, NEW a \in Accounts, NEW p \in Phones, CreateSmsOtp(a, p), UNCHANGED challenge
  PROVE  MemoryInv'
<1> DEFINE e == [code |-> Fresh, attempts |-> 0]
<1>1. Issue("sms") /\ codes' = [codes EXCEPT ![a][p] = e]
  BY DEF CreateSmsOtp
<1>2. /\ Fresh \in 1..MaxIssued /\ Fresh = Len(issued') /\ Fresh \notin 1..Len(issued)
      /\ issued'[Fresh] = [for |-> "sms", uses |-> 0]
      /\ \A n \in 1..Len(issued) : n \in 1..Len(issued') /\ issued'[n] = issued[n]
  BY <1>1, Issued
<1>3. e \in [code : 1..MaxIssued, attempts : 0..MaxAttempts] /\ e.code = Fresh
  BY <1>2, BoundsAssumption
<1> HIDE DEF e
<1>4. /\ codes' \in [Accounts -> [Phones -> [code : 1..MaxIssued, attempts : 0..MaxAttempts] \cup {Absent}]]
      /\ \A b \in Accounts, q \in Phones :
           codes'[b][q] = IF b = a /\ q = p THEN e ELSE codes[b][q]
  BY <1>1, <1>3 DEF MemoryInv
<1>6. \A n, for : Unused(n, for) => n # Fresh /\ n \in 1..Len(issued') /\ issued'[n] = issued[n]
  BY <1>2 DEF Unused
<1> HIDE DEF Fresh
<1>7. CodesInv'
  <2>1. ASSUME NEW b \in Accounts, NEW q \in Phones, codes'[b][q] # Absent
        PROVE  Unused(codes[b][q].code, "sms")'
    <3>1. CASE b = a /\ q = p
      BY <3>1, <1>2, <1>3, <1>4 DEF Unused
    <3>2. CASE ~(b = a /\ q = p)
      <4>1. codes'[b][q] = codes[b][q] /\ Unused(codes[b][q].code, "sms")
        BY <2>1, <3>2, <1>4 DEF MemoryInv, CodesInv
      <4> QED
        BY <4>1, <1>6 DEF Unused
    <3> QED
      BY <3>1, <3>2
  <2>2. \A b \in Accounts, q \in Phones : codes[b][q] # Absent => codes[b][q].code # Fresh
    BY <1>6 DEF MemoryInv, CodesInv
  <2>3. ASSUME NEW b \in Accounts, NEW c \in Accounts, NEW q \in Phones, NEW r \in Phones,
               codes'[b][q] # Absent, codes'[c][r] # Absent, codes'[b][q].code = codes'[c][r].code
        PROVE  b = c /\ q = r
    <3>1. CASE (b = a /\ q = p) \/ (c = a /\ r = p)
      BY <3>1, <2>2, <2>3, <1>3, <1>4
    <3>2. CASE ~(b = a /\ q = p) /\ ~(c = a /\ r = p)
      BY <3>2, <2>3, <1>4 DEF MemoryInv, CodesInv
    <3> QED
      BY <3>1, <3>2
  <2> QED
    BY <2>1, <2>3 DEF CodesInv
<1>8. ChallengesInv'
  BY <1>6, UnusedKept, ChallengesLess DEF MemoryInv, Kept
<1> QED
  BY <1>1, <1>4, <1>7, <1>8, Issued DEF MemoryInv

\* A challenge that takes the place of another is a fresh one.
LEMMA IssueChallenge ==
  ASSUME MemoryInv, NEW a \in Accounts, NEW for \in Purpose, Issue(for),
         challenge' = [challenge EXCEPT ![a][for] = Fresh], UNCHANGED codes
  PROVE  MemoryInv'
<1>2. /\ Fresh \in 1..MaxIssued /\ Fresh = Len(issued') /\ Fresh \notin 1..Len(issued)
      /\ issued'[Fresh] = [for |-> for, uses |-> 0]
      /\ \A n \in 1..Len(issued) : n \in 1..Len(issued') /\ issued'[n] = issued[n]
  BY Issued
<1>3. \A n, g : Unused(n, g) => n # Fresh /\ n \in 1..Len(issued') /\ issued'[n] = issued[n]
  BY <1>2 DEF Unused
<1> HIDE DEF Fresh
<1>4. /\ challenge' \in [Accounts -> [Purpose -> 1..MaxIssued \cup {Absent}]]
      /\ \A b \in Accounts, q \in Purpose :
           challenge'[b][q] = IF b = a /\ q = for THEN Fresh ELSE challenge[b][q]
  BY <1>2 DEF MemoryInv
<1>5. ChallengesInv'
  <2>1. ASSUME NEW b \in Accounts, NEW q \in Purpose, challenge'[b][q] # Absent
        PROVE  Unused(challenge[b][q], q)'
    <3>1. CASE b = a /\ q = for
      BY <3>1, <1>2, <1>4 DEF Unused
    <3>2. CASE ~(b = a /\ q = for)
      <4>1. challenge'[b][q] = challenge[b][q] /\ Unused(challenge[b][q], q)
        BY <2>1, <3>2, <1>4 DEF MemoryInv, ChallengesInv
      <4> QED
        BY <4>1, <1>3 DEF Unused
    <3> QED
      BY <3>1, <3>2
  <2>2. \A b \in Accounts, q \in Purpose : challenge[b][q] # Absent => challenge[b][q] # Fresh
    BY <1>3 DEF MemoryInv, ChallengesInv
  <2>3. ASSUME NEW b \in Accounts, NEW c \in Accounts, NEW q \in Purpose,
               challenge'[b][q] # Absent, challenge'[b][q] = challenge'[c][q]
        PROVE  b = c
    <3>1. challenge[b][q] = challenge'[b][q] \/ (b = a /\ q = for /\ challenge'[b][q] = Fresh)
      BY <1>4
    <3>2. challenge[c][q] = challenge'[c][q] \/ (c = a /\ q = for /\ challenge'[c][q] = Fresh)
      BY <1>4
    <3> QED
      BY <3>1, <3>2, <2>2, <2>3 DEF MemoryInv, ChallengesInv
  <2> QED
    BY <2>1, <2>3 DEF ChallengesInv
<1>6. CodesInv'
  BY <1>3, UnusedKept, CodesLess DEF MemoryInv, Kept
<1> QED
  BY <1>4, <1>5, <1>6, Issued DEF MemoryInv

\* What leaves the dictionaries may have been accepted; nothing else changes.
LEMMA AcceptedStep ==
  ASSUME MemoryInv, NEW n, NEW for, Unused(n, for), Accepted(n)
  PROVE  /\ issued' \in Seq([for : {"totp", "sms"} \cup Purpose, uses : Nat])
         /\ Len(issued') = Len(issued)
         /\ AcceptedOnce'
         /\ \A m \in 1..Len(issued) : m # n => issued'[m] = issued[m]
         /\ issued'[n].for = for
<1> DEFINE e == [issued[n] EXCEPT !.uses = @ + 1]
           Entry == [for : {"totp", "sms"} \cup Purpose, uses : Nat]
<1>1. issued \in Seq(Entry) /\ n \in 1..Len(issued) /\ issued[n].for = for /\ issued[n].uses = 0
  BY DEF Entry, MemoryInv, Unused
<1> HIDE DEF Entry
<1>2. issued[n] \in Entry
  BY <1>1
<1>3. e \in Entry /\ e.uses = 1 /\ e.for = for
  BY <1>1, <1>2 DEF Entry
<1>4. issued' = [issued EXCEPT ![n] = e]
  BY DEF Accepted
<1> HIDE DEF e
<1>5. /\ issued' \in Seq(Entry) /\ Len(issued') = Len(issued)
      /\ issued'[n] = e /\ \A m \in 1..Len(issued) : m # n => issued'[m] = issued[m]
  BY <1>1, <1>3, <1>4
<1>6. AcceptedOnce'
  BY <1>1, <1>3, <1>5 DEF AcceptedOnce, MemoryInv
<1> QED
  BY <1>3, <1>5, <1>6 DEF Entry

\* A code that is accepted leaves its place; a wrong try leaves it or counts.
LEMMA VerifyCode ==
  ASSUME MemoryInv, NEW a \in Accounts, NEW p \in Phones, NEW n, VerifySmsOtp(a, p, n),
         UNCHANGED challenge
  PROVE  MemoryInv'
<1> DEFINE e == codes[a][p]
           Entry == [code : 1..MaxIssued, attempts : 0..MaxAttempts]
<1>1. e \in Entry \cup {Absent} /\ codes \in [Accounts -> [Phones -> Entry \cup {Absent}]]
  BY DEF MemoryInv
<1>2. e # Absent => Try(e, n) \in Entry \cup {Absent}
                    /\ (Try(e, n) # Absent => Try(e, n).code = e.code /\ n # e.code)
  <2> SUFFICES ASSUME e \in Entry, ~(n = e.code \/ e.attempts >= MaxAttempts)
               PROVE  Try(e, n) \in Entry /\ Try(e, n).code = e.code
    BY <1>1 DEF Try
  <2> HIDE DEF e
  <2>1. Try(e, n) = [e EXCEPT !.attempts = @ + 1] /\ e.attempts + 1 \in 0..MaxAttempts
    BY BoundsAssumption DEF Try
  <2> QED
    BY <2>1
<1> HIDE DEF Entry
<1>3. /\ codes' \in [Accounts -> [Phones -> Entry \cup {Absent}]]
      /\ \A b \in Accounts, q \in Phones : ~(b = a /\ q = p) => codes'[b][q] = codes[b][q]
      /\ codes'[a][p] = IF e = Absent THEN codes[a][p] ELSE Try(e, n)
  BY <1>1, <1>2 DEF VerifySmsOtp
<1>4. CASE Good(e, n)
  <2>1. Unused(n, "sms") /\ Accepted(n) /\ n = codes[a][p].code /\ codes[a][p] # Absent
    BY <1>4 DEF VerifySmsOtp, Good, MemoryInv, CodesInv
  <2>2. codes'[a][p] = Absent
    BY <2>1, <1>3 DEF Try
  <2>3. \A m, for : Unused(m, for) /\ m # n => Kept(m)
    BY <2>1, AcceptedStep DEF Unused, Kept
  <2>4. ASSUME NEW b \in Accounts, NEW q \in Phones, codes'[b][q] # Absent
        PROVE  codes[b][q] # Absent /\ codes'[b][q] = codes[b][q] /\ Kept(codes[b][q].code)
    <3>1. ~(b = a /\ q = p)
      BY <2>2, <2>4
    <3>2. codes'[b][q] = codes[b][q]
      BY <1>3, <3>1
    <3>3. codes[b][q].code # n /\ Unused(codes[b][q].code, "sms")
      BY <2>1, <2>4, <3>1, <3>2 DEF MemoryInv, CodesInv
    <3> QED
      BY <2>3, <2>4, <3>2, <3>3
  <2>5. CodesInv'
    BY <2>4, CodesLess DEF MemoryInv
  <2>6. \A m, for : for \in Purpose /\ Unused(m, for) => Kept(m)
    BY <2>1, <2>3 DEF Unused, Purpose
  <2>7. ChallengesInv'
    BY <2>6, UnusedKept, ChallengesLess DEF MemoryInv
  <2> QED
    BY <2>1, <1>3, <2>5, <2>7, AcceptedStep DEF MemoryInv, Entry
<1>5. CASE ~Good(e, n)
  <2>1. UNCHANGED issued
    BY <1>5 DEF VerifySmsOtp
  <2>2. \A m, for : Unused(m, for) => Kept(m)
    BY <2>1 DEF Unused, Kept
  <2>3. \A b \in Accounts, q \in Phones : codes'[b][q] # Absent =>
          codes[b][q] # Absent /\ codes'[b][q].code = codes[b][q].code
    BY <1>2, <1>3
  <2>4. CodesInv'
    BY <2>2, <2>3, UnusedKept, CodesLess DEF MemoryInv
  <2>5. ChallengesInv'
    BY <2>2, UnusedKept, ChallengesLess DEF MemoryInv
  <2> QED
    BY <2>1, <1>3, <2>4, <2>5 DEF MemoryInv, AcceptedOnce, Entry
<1> QED
  BY <1>4, <1>5

\* A challenge is gone once it has been answered.
LEMMA PopStep ==
  ASSUME MemoryInv, NEW a \in Accounts, NEW for \in Purpose, NEW n \in Nat, Pop(a, for),
         IF n = challenge[a][for] THEN Accepted(n) ELSE UNCHANGED issued, UNCHANGED codes
  PROVE  MemoryInv' /\ (n = challenge[a][for] => n \in 1..MaxIssued)
<1>1. /\ challenge' \in [Accounts -> [Purpose -> 1..MaxIssued \cup {Absent}]]
      /\ challenge'[a][for] = Absent
      /\ \A b \in Accounts, q \in Purpose :
           ~(b = a /\ q = for) => challenge'[b][q] = challenge[b][q]
  BY DEF Pop, MemoryInv
<1>2. n = challenge[a][for] => Unused(n, for) /\ n \in 1..MaxIssued
  BY DistinctAssumption DEF MemoryInv, ChallengesInv
<1>3. CASE n = challenge[a][for]
  <2>1. Unused(n, for) /\ Accepted(n)
    BY <1>2, <1>3
  <2>2. \A m, g : Unused(m, g) /\ m # n => Kept(m)
    BY <2>1, AcceptedStep DEF Unused, Kept
  <2>3. ASSUME NEW b \in Accounts, NEW q \in Purpose, challenge'[b][q] # Absent
        PROVE  challenge'[b][q] = challenge[b][q] /\ Kept(challenge[b][q])
    <3>1. ~(b = a /\ q = for) /\ challenge'[b][q] = challenge[b][q]
      BY <1>1, <2>3
    <3>2. Unused(challenge[b][q], q)
      BY <2>3, <3>1 DEF MemoryInv, ChallengesInv
    <3>3. challenge[b][q] # n
      BY <1>3, <2>1, <2>3, <3>1, <3>2 DEF MemoryInv, ChallengesInv, Unused
    <3> QED
      BY <2>2, <3>1, <3>2, <3>3
  <2>4. ChallengesInv'
    BY <2>3, ChallengesLess DEF MemoryInv
  <2>5. \A m : Unused(m, "sms") => Kept(m)
    BY <2>1, <2>2 DEF Unused, Purpose
  <2>6. CodesInv'
    BY <2>5, UnusedKept, CodesLess DEF MemoryInv
  <2> QED
    BY <1>1, <1>2, <2>1, <2>4, <2>6, AcceptedStep DEF MemoryInv
<1>4. CASE n # challenge[a][for]
  <2>1. UNCHANGED issued
    BY <1>4
  <2>2. \A m, g : Unused(m, g) => Kept(m)
    BY <2>1 DEF Unused, Kept
  <2>3. CodesInv'
    BY <2>2, UnusedKept, CodesLess DEF MemoryInv
  <2>4. ChallengesInv'
    BY <1>1, <2>2, UnusedKept, ChallengesLess DEF MemoryInv
  <2> QED
    BY <1>1, <1>4, <2>1, <2>3, <2>4 DEF MemoryInv, AcceptedOnce
<1> QED
  BY <1>3, <1>4

\* Expiry and a restart forget.
LEMMA Forget ==
  ASSUME MemoryInv, UNCHANGED issued,
         codes' \in [Accounts -> [Phones -> [code : 1..MaxIssued, attempts : 0..MaxAttempts] \cup {Absent}]],
         challenge' \in [Accounts -> [Purpose -> 1..MaxIssued \cup {Absent}]],
         \A a \in Accounts, p \in Phones : codes'[a][p] \in {codes[a][p], Absent},
         \A a \in Accounts, p \in Purpose : challenge'[a][p] \in {challenge[a][p], Absent}
  PROVE  MemoryInv'
<1>1. \A m, for : Unused(m, for) => Kept(m)
  BY DEF Unused, Kept
<1>2. CodesInv'
  BY <1>1, UnusedKept, CodesLess DEF MemoryInv
<1>3. ChallengesInv'
  BY <1>1, UnusedKept, ChallengesLess DEF MemoryInv
<1> QED
  BY <1>2, <1>3 DEF MemoryInv, AcceptedOnce

(***************************************************************************)
(* Rows                                                                      *)
(***************************************************************************)
\* TenantIsKept, of one step.
TenantsKept ==
  \A a \in Accounts :
    user[a] # None /\ user[a].tenant_id # None =>
      user'[a].tenant_id = user[a].tenant_id \/ "tenant" \in torn'[a]

\* What is left to show of a step that writes one row.
LEMMA RowStep ==
  ASSUME RowsInv, NEW a \in Accounts, NEW u \in Row, user' = [user EXCEPT ![a] = u],
         NEW tears \in SUBSET Group, torn' = [torn EXCEPT ![a] = tears],
         RowOK(u, confirmed[a], tears),
         \/ user[a] = None
         \/ user[a] \in Row /\ (user[a].tenant_id # None =>
                                u.tenant_id = user[a].tenant_id \/ "tenant" \in tears),
         tenants' \in Seq(Accounts), UNCHANGED <<passkeys, sessions, pending, confirmed>>
  PROVE  RowsInv' /\ Grows /\ TenantsKept
<1>1. /\ user' \in [Accounts -> Row \cup {None}] /\ torn' \in [Accounts -> SUBSET Group]
      /\ user'[a] = u /\ torn'[a] = tears
      /\ \A b \in Accounts : b # a => user'[b] = user[b] /\ torn'[b] = torn[b]
  BY DEF RowsInv
<1>2. Grows
  BY <1>1 DEF Grows
<1>3. TenantsKept
  BY <1>1 DEF TenantsKept
<1>4. ASSUME NEW b \in Accounts, user'[b] \in Row PROVE RowOK(user'[b], confirmed[b], torn'[b])
  BY <1>1, <1>4 DEF RowsInv
<1> QED
  BY <1>1, <1>2, <1>3, <1>4 DEF RowsInv

\* A commit writes the columns that it changed.
LEMMA Merged ==
  ASSUME NEW now \in Row, NEW loaded \in Row, NEW want \in Row
  PROVE  LET m == Merge(now, loaded, want)
         IN  /\ m \in Row
             /\ m.tenant_id = IF want.tenant_id # loaded.tenant_id
                              THEN want.tenant_id ELSE now.tenant_id
             /\ m.totp_secret = IF want.totp_secret # loaded.totp_secret
                                THEN want.totp_secret ELSE now.totp_secret
             /\ m.totp_enabled = IF want.totp_enabled # loaded.totp_enabled
                                 THEN want.totp_enabled ELSE now.totp_enabled
             /\ m.phone_e164 = IF want.phone_e164 # loaded.phone_e164
                               THEN want.phone_e164 ELSE now.phone_e164
             /\ m.sms_backup_enabled = IF want.sms_backup_enabled # loaded.sms_backup_enabled
                                       THEN want.sms_backup_enabled ELSE now.sms_backup_enabled
<1> DEFINE Names == {"tenant_id", "totp_secret", "totp_enabled", "phone_e164", "sms_backup_enabled"}
           m == [c \in Names |-> IF want[c] # loaded[c] THEN want[c] ELSE now[c]]
<1>1. DOMAIN now = Names
  BY DEF Row
<1>2. Merge(now, loaded, want) = m
  BY <1>1 DEF Merge
<1>3. m = [tenant_id |-> m.tenant_id, totp_secret |-> m.totp_secret, totp_enabled |-> m.totp_enabled,
           phone_e164 |-> m.phone_e164, sms_backup_enabled |-> m.sms_backup_enabled]
  OBVIOUS
<1>4. m \in Row
  <2>1. /\ m.tenant_id \in 1..MaxTenants \cup {None}
        /\ m.totp_secret \in 1..MaxIssued \cup {None} /\ m.totp_enabled \in BOOLEAN
        /\ m.phone_e164 \in Phones \cup {None} /\ m.sms_backup_enabled \in BOOLEAN
    BY DEF Row
  <2> HIDE DEF m
  <2> QED
    BY <1>3, <2>1 DEF Row
<1> QED
  BY <1>2, <1>4

\* The commit of a TOTP or SMS step keeps the rows sound, whatever the row has
\* become since it was read: it writes the columns of its own method.
LEMMA Enrolled ==
  ASSUME Inv, NEW w \in Workers, work[w].kind \in TotpKind \cup SmsKind,
         CommitEnrolment(w, IF work[w].kind \in TotpKind THEN "totp" ELSE "sms"),
         UNCHANGED <<tenants, passkeys, sessions, pending, confirmed>>
  PROVE  RowsInv' /\ Grows /\ TenantsKept
<1> DEFINE a == work[w].account
           l == work[w].loaded
           t == work[w].want
           m == Merge(user[a], l, t)
           g == IF work[w].kind \in TotpKind THEN "totp" ELSE "sms"
           tears == IF \A c \in Columns(g) : user[a][c] = l[c] THEN torn[a] \ {g} ELSE torn[a] \cup {g}
<1>1. /\ a \in Accounts /\ user[a] \in Row /\ l \in Row /\ t \in Row
      /\ WantOK(work[w], user, confirmed)
  BY DEF Inv, WorkInv, JobOK, WantOK, CommitEnrolment, TotpKind, SmsKind
<1>2. user' = [user EXCEPT ![a] = m] /\ torn' = [torn EXCEPT ![a] = tears]
  BY DEF CommitEnrolment, Tears
<1>3. /\ m \in Row
      /\ m.tenant_id = user[a].tenant_id
  BY <1>1, Merged DEF WantOK
<1>4. torn[a] \in SUBSET Group /\ tears \in SUBSET Group /\ RowOK(user[a], confirmed[a], torn[a])
  BY <1>1 DEF Inv, RowsInv, Group
<1>5. RowOK(m, confirmed[a], tears)
  <2>1. CASE work[w].kind \in TotpKind
    <3>1. /\ m.phone_e164 = user[a].phone_e164 /\ m.sms_backup_enabled = user[a].sms_backup_enabled
          /\ t.totp_enabled => t.totp_secret \in confirmed[a]
      BY <2>1, <1>1, Merged DEF WantOK
    <3>2. "sms" \notin tears => "sms" \notin torn[a]
      BY <2>1
    <3>3. "totp" \notin tears => /\ user[a].totp_secret = l.totp_secret
                                 /\ user[a].totp_enabled = l.totp_enabled
      BY <2>1 DEF Columns
    <3>4. "totp" \notin tears => m.totp_secret = t.totp_secret /\ m.totp_enabled = t.totp_enabled
      BY <3>3, <1>1, Merged
    <3> HIDE DEF m, t, l, tears
    <3> QED
      BY <3>1, <3>2, <3>4, <1>4 DEF RowOK
  <2>2. CASE work[w].kind \in SmsKind
    <3>1. /\ m.totp_secret = user[a].totp_secret /\ m.totp_enabled = user[a].totp_enabled
          /\ t.sms_backup_enabled => t.phone_e164 \in confirmed[a]
      BY <2>2, <1>1, Merged DEF WantOK
    <3>2. g = "sms" /\ ("totp" \notin tears => "totp" \notin torn[a])
      BY <2>2 DEF TotpKind, SmsKind
    <3>3. "sms" \notin tears => /\ user[a].phone_e164 = l.phone_e164
                                /\ user[a].sms_backup_enabled = l.sms_backup_enabled
      BY <3>2 DEF Columns
    <3>4. "sms" \notin tears => /\ m.phone_e164 = t.phone_e164
                                /\ m.sms_backup_enabled = t.sms_backup_enabled
      BY <3>3, <1>1, Merged
    <3> HIDE DEF m, t, l, tears
    <3> QED
      BY <3>1, <3>2, <3>4, <1>4 DEF RowOK
  <2> QED
    BY <2>1, <2>2
<1> HIDE DEF m, tears
<1> QED
  BY <1>1, <1>2, <1>3, <1>4, <1>5, RowStep DEF Inv, RowsInv

\* The row a registration adds has no method and the tenant it made.
LEMMA Registered ==
  ASSUME Inv, NEW w \in Workers, CommitRegister(w)
  PROVE  Inv' /\ TenantsKept
<1> DEFINE a == work[w].account
           u == [NewUser EXCEPT !.tenant_id = Len(tenants) + 1]
<1>1. a \in Accounts /\ work[w].at # "idle"
  BY DEF Inv, WorkInv, JobOK, CommitRegister
<1>2. MemoryInv'
  BY SameMemory DEF Inv, CommitRegister, ghosts
<1>3. CASE user[a] = None
  <2>1. u \in Row /\ ~u.totp_enabled /\ ~u.sms_backup_enabled
    <3>1. Len(tenants) + 1 \in 1..MaxTenants
      BY <1>3, BoundsAssumption DEF CommitRegister, Inv, RowsInv
    <3> QED
      BY <3>1 DEF NewUser, Row
  <2>2. RowOK(u, confirmed[a], torn[a]) /\ torn[a] \in SUBSET Group
        /\ torn' = [torn EXCEPT ![a] = torn[a]]
    BY <1>1, <2>1 DEF RowOK, Inv, RowsInv, CommitRegister, ghosts
  <2>3. user' = [user EXCEPT ![a] = u] /\ tenants' \in Seq(Accounts) /\ Goes(w, "refresh")
    <3>1. /\ user' = [user EXCEPT ![a] = u] /\ tenants' = Append(tenants, a)
          /\ Goes(w, "refresh")
      BY <1>3 DEF CommitRegister
    <3> HIDE DEF u
    <3> QED
      BY <1>1, <3>1 DEF Inv, RowsInv
  <2> HIDE DEF u
  <2>4. RowsInv' /\ Grows /\ TenantsKept
    BY <1>1, <1>3, <2>1, <2>2, <2>3, RowStep DEF Inv, CommitRegister, ghosts
  <2> QED
    BY <1>1, <1>2, <2>3, <2>4, GoesStep DEF Inv
<1>4. CASE user[a] # None
  <2>1. Done(w) /\ UNCHANGED <<user, tenants, passkeys, sessions, pending, confirmed, torn>>
    BY <1>4 DEF CommitRegister, ghosts
  <2>2. RowsInv' /\ Grows
    BY <2>1, SameRows DEF Inv, RowsInv
  <2> QED
    BY <1>2, <2>1, <2>2, DoneStep DEF Inv, TenantsKept
<1> QED
  BY <1>3, <1>4

\* The commit of a first login, which gives the account a tenant.
LEMMA FirstLogin ==
  ASSUME Inv, NEW w \in Workers, CommitLogin(w)
  PROVE  Inv' /\ TenantsKept
<1> DEFINE a == work[w].account
           l == work[w].loaded
           u == [user[a] EXCEPT !.tenant_id = Len(tenants) + 1]
           tears == IF \A c \in Columns("tenant") : user[a][c] = l[c]
                    THEN torn[a] \ {"tenant"} ELSE torn[a] \cup {"tenant"}
<1>1. /\ a \in Accounts /\ work[w].at # "idle" /\ user[a] \in Row
      /\ l \in Row /\ l.tenant_id = None
  BY DEF Inv, WorkInv, JobOK, WantOK, CommitLogin
<1>2. MemoryInv'
  BY SameMemory DEF Inv, CommitLogin
<1>3. Len(tenants) + 1 \in 1..MaxTenants /\ tenants' \in Seq(Accounts)
  BY <1>1, BoundsAssumption DEF CommitLogin, Inv, RowsInv
<1>4. /\ u \in Row
      /\ u.totp_enabled = user[a].totp_enabled /\ u.totp_secret = user[a].totp_secret
      /\ u.sms_backup_enabled = user[a].sms_backup_enabled /\ u.phone_e164 = user[a].phone_e164
  BY <1>1, <1>3 DEF Row
<1>5. user' = [user EXCEPT ![a] = u] /\ torn' = [torn EXCEPT ![a] = tears]
  BY DEF CommitLogin, Tears
<1>6. /\ tears \in SUBSET Group
      /\ "totp" \in torn[a] => "totp" \in tears
      /\ "sms" \in torn[a] => "sms" \in tears
      /\ RowOK(user[a], confirmed[a], torn[a])
  BY <1>1 DEF Inv, RowsInv, Group
<1>7. user[a].tenant_id # None => "tenant" \in tears
  BY <1>1 DEF Columns
<1> HIDE DEF u, tears
<1>8. RowOK(u, confirmed[a], tears)
  BY <1>4, <1>6 DEF RowOK
<1>9. RowsInv' /\ Grows /\ TenantsKept
  BY <1>1, <1>3, <1>4, <1>5, <1>6, <1>7, <1>8, RowStep DEF Inv, CommitLogin
<1> QED
  BY <1>1, <1>2, <1>9, GoesStep DEF Inv, CommitLogin

\* A code is confirmed: the rows stand.
LEMMA ConfirmedGrows ==
  ASSUME RowsInv, UNCHANGED <<user, tenants, passkeys, torn>>,
         sessions' \subseteq Accounts, pending' \subseteq Accounts,
         confirmed' \in [Accounts -> SUBSET (1..MaxIssued \cup Phones)],
         \A a \in Accounts : confirmed[a] \subseteq confirmed'[a]
  PROVE  RowsInv' /\ Grows
<1>1. ASSUME NEW a \in Accounts, user[a] \in Row PROVE RowOK(user[a], confirmed'[a], torn[a])
  BY <1>1 DEF RowsInv, RowOK
<1> QED
  BY <1>1 DEF RowsInv, Grows

(***************************************************************************)
(* The actions                                                               *)
(***************************************************************************)
LEMMA InitInv == Init => Inv
<1> SUFFICES ASSUME Init PROVE Inv
  OBVIOUS
<1>1. NewUser \in Row /\ ~NewUser.totp_enabled /\ ~NewUser.sms_backup_enabled
  BY DEF NewUser, Row
<1>2. RowsInv
  <2>1. ASSUME NEW a \in Accounts, user[a] \in Row PROVE RowOK(user[a], confirmed[a], torn[a])
    <3>1. user[a] = NewUser \/ user[a] = None
      BY DEF Init
    <3>2. user[a] = None => FALSE
      BY <2>1, NoneAssumption
    <3> QED
      BY <1>1, <3>1, <3>2 DEF RowOK
  <2> QED
    BY <1>1, <2>1 DEF Init, RowsInv
<1>3. MemoryInv
  BY BoundsAssumption DEF Init, MemoryInv, CodesInv, ChallengesInv, AcceptedOnce
<1>4. WorkInv
  <2>1. Free \in Jobs /\ JobOK(Free, user, confirmed)
    BY DEF Free, Job, Jobs, JobOK
  <2> QED
    BY <2>1 DEF Init, WorkInv
<1> QED
  BY <1>2, <1>3, <1>4 DEF Inv

\* A handler that starts has read a row, or none, and holds nothing else.
LEMMA StartInv ==
  ASSUME Inv, NEW w \in Workers, NEW kind \in Kind, NEW a \in Accounts, NEW arg \in Nat \cup Phones \cup {None},
         kind = "sms_setup" => arg \in Phones,
         kind \in {"passkey_register_complete", "passkey_login_complete"} => arg \in Nat,
         Start(w, kind, a, arg)
  PROVE  Inv'
<1> DEFINE j == Job("read", kind, a, arg, user[a], None)
<1>1. user[a] \in Row \cup {None}
  BY DEF Inv, RowsInv
<1>2. j \in Jobs
  BY <1>1 DEF Job, Jobs
<1>3. JobOK(j, user, confirmed)
  BY <1>1 DEF Job, JobOK
<1>4. work' = [work EXCEPT ![w] = j] /\ UNCHANGED <<user, tenants, passkeys, memory, sessions, pending, ghosts>>
  BY DEF Start
<1> HIDE DEF j
<1>5. Grows => WorkInv'
  BY <1>2, <1>3, <1>4, WorkStep DEF Inv, ghosts
<1> QED
  BY <1>4, <1>5, QuietStep DEF Inv, RowsInv

\* The start of each route of the account keeps the invariant.
LEMMA CallInv ==
  ASSUME Inv, NEW w \in Workers, NEW a \in Accounts, Call(w, a)
  PROVE  Inv' /\ UNCHANGED user
<1>1. ASSUME NEW for PROVE Typed(for) \subseteq Nat
  BY DEF Typed, Inv, MemoryInv
<1>2. PICK kind \in Kind, arg \in Nat \cup Phones \cup {None} :
        /\ kind = "sms_setup" => arg \in Phones
        /\ kind \in {"passkey_register_complete", "passkey_login_complete"} => arg \in Nat
        /\ Start(w, kind, a, arg)
  <2>1. CASE Anonymous(w, a)
    BY <1>1, <2>1 DEF Anonymous, Kind, SmsKind, TotpKind
  <2>2. CASE WithMfaToken(w, a)
    BY <1>1, <2>2 DEF WithMfaToken, Kind, SmsKind, TotpKind
  <2>3. CASE Authenticated(w, a)
    BY <1>1, <2>3 DEF Authenticated, Kind, SmsKind, TotpKind
  <2> QED
    BY <2>1, <2>2, <2>3 DEF Call
<1> QED
  BY <1>2, StartInv DEF Start

\* Handlers that only end, or that go on to a commit with what they have read.
LEMMA QuietInv ==
  ASSUME Inv, NEW w \in Workers,
         \/ Refuse(w) \/ SendSms(w) \/ Fail(w) \/ MfaVerifyTotp(w)
         \/ CommitPasskeyLogin(w) \/ Refresh(w)
  PROVE  Inv' /\ UNCHANGED user
<1>1. work[w].at # "idle" => work[w].account \in Accounts
  BY DEF Inv, WorkInv, JobOK
<1>2. work[w].at # "idle" /\ Done(w) /\ UNCHANGED <<user, tenants, passkeys, memory, ghosts>>
  BY DEF Refuse, SendSms, Fail, MfaVerifyTotp, CommitPasskeyLogin, Refresh, Reads
<1>3. sessions' \subseteq Accounts /\ pending' \subseteq Accounts
  BY <1>1, <1>2 DEF Refuse, SendSms, Fail, MfaVerifyTotp, CommitPasskeyLogin, Refresh, Grant, Inv, RowsInv
<1> QED
  BY <1>2, <1>3, DoneStep, QuietStep DEF Inv

\* Decisions that write a row later: the commit is of the columns of its kind.
LEMMA LoginInv ==
  ASSUME Inv, NEW w \in Workers, Register(w) \/ Login(w)
  PROVE  Inv' /\ UNCHANGED user
<1>1. /\ work[w].at = "read" /\ work[w].account \in Accounts
      /\ UNCHANGED <<user, tenants, passkeys, memory, ghosts>>
  BY Read DEF Register, Login, Reads
<1>2. sessions' \subseteq Accounts /\ pending' \subseteq Accounts
  BY <1>1 DEF Register, Login, Grant, Inv, RowsInv
<1>3. CASE Done(w)
  BY <1>1, <1>2, <1>3, DoneStep, QuietStep DEF Inv
<1>4. CASE Register(w)
  <2>1. NewUser \in Row /\ work[w].kind = "register" /\ Writes(w, NewUser)
    BY <1>4 DEF NewUser, Row, Register, Reads
  <2> QED
    BY <1>1, <1>2, <2>1, WritesStep, QuietStep
<1>5. CASE Login(w) /\ ~Done(w)
  <2> DEFINE l == work[w].loaded
             j == Job("commit", work[w].kind, work[w].account, work[w].arg, l, l)
  <2>1. /\ work[w].kind = "login" /\ Writes(w, l) /\ l.tenant_id = None /\ l # None
    BY <1>5 DEF Login, Reads
  <2>2. l \in Row /\ user[work[w].account] \in Row
    BY <1>1, <2>1, Read
  <2>3. WantOK(j, user', confirmed')
    BY <1>1, <2>1, <2>2 DEF WantOK, Job, TotpKind, SmsKind
  <2> QED
    BY <1>1, <1>2, <2>1, <2>2, <2>3, WritesStep, QuietStep
<1> QED
  BY <1>3, <1>4, <1>5

\* What an enrolment may write.
LEMMA EnrolmentWants ==
  ASSUME Inv, NEW w \in Workers, work[w].at = "read", work[w].kind \in TotpKind \cup SmsKind,
         work[w].loaded # None, NEW want \in Row, Writes(w, want), Grows,
         want.tenant_id = work[w].loaded.tenant_id,
         work[w].kind \in TotpKind =>
           /\ want.phone_e164 = work[w].loaded.phone_e164
           /\ want.sms_backup_enabled = work[w].loaded.sms_backup_enabled
           /\ want.totp_enabled => want.totp_secret \in confirmed'[work[w].account],
         work[w].kind \in SmsKind =>
           /\ want.totp_secret = work[w].loaded.totp_secret
           /\ want.totp_enabled = work[w].loaded.totp_enabled
           /\ want.sms_backup_enabled => want.phone_e164 \in confirmed'[work[w].account]
  PROVE  WorkInv'
<1> DEFINE j == Job("commit", work[w].kind, work[w].account, work[w].arg, work[w].loaded, want)
<1>1. /\ work[w].account \in Accounts /\ work[w].loaded \in Row
      /\ user[work[w].account] \in Row
  BY Read
<1>2. user'[work[w].account] \in Row
  BY <1>1 DEF Grows
<1>3. WantOK(j, user', confirmed')
  BY <1>1, <1>2 DEF WantOK, Job, TotpKind, SmsKind
<1> QED
  BY <1>3, WritesStep

\* A row with another secret, not enabled, is a row.
LEMMA WithTotpIsRow ==
  ASSUME NEW u \in Row, NEW secret \in 1..MaxIssued \cup {None}
  PROVE  WithTotp(u, secret, FALSE) \in Row
BY DEF WithTotp, Row

\* A row with another phone, not enabled, is a row.
LEMMA WithPhoneIsRow ==
  ASSUME NEW u \in Row, NEW phone \in Phones \cup {None}
  PROVE  WithPhone(u, phone, FALSE) \in Row
BY DEF WithPhone, Row

\* totp/setup: the secret it will commit is not enabled.
LEMMA TotpSetupInv ==
  ASSUME Inv, NEW w \in Workers, TotpSetup(w)
  PROVE  Inv' /\ UNCHANGED user
<1> DEFINE l == work[w].loaded
           want == WithTotp(l, Fresh, FALSE)
<1>1. /\ work[w].at = "read" /\ work[w].kind = "totp_setup" /\ l # None
      /\ Issue("totp") /\ Writes(w, want)
      /\ UNCHANGED <<user, tenants, passkeys, memory, sessions, pending, confirmed, torn>>
  BY DEF TotpSetup, Reads
<1>2. MemoryInv' /\ Fresh \in 1..MaxIssued
  BY <1>1, IssueSecret, Issued DEF Inv
<1>3. RowsInv' /\ Grows
  BY <1>1, SameRows DEF Inv, RowsInv
<1>4. l \in Row
  BY <1>1, Read
<1>5. want \in Row
  BY <1>2, <1>4, WithTotpIsRow
<1>6. /\ want.tenant_id = l.tenant_id /\ want.phone_e164 = l.phone_e164
      /\ want.sms_backup_enabled = l.sms_backup_enabled /\ want.totp_enabled = FALSE
  BY DEF WithTotp
<1> HIDE DEF want
<1>7. WorkInv'
  BY <1>1, <1>3, <1>5, <1>6, EnrolmentWants DEF TotpKind, SmsKind
<1> QED
  BY <1>1, <1>2, <1>3, <1>7 DEF Inv

\* totp/enable: it enables the secret of which it has just seen a code.
LEMMA TotpEnableInv ==
  ASSUME Inv, NEW w \in Workers, TotpEnable(w)
  PROVE  Inv' /\ UNCHANGED user
<1> DEFINE l == work[w].loaded
           a == work[w].account
           want == [l EXCEPT !.totp_enabled = TRUE]
<1>1. /\ work[w].at = "read" /\ work[w].kind = "totp_enable" /\ l # None
      /\ UNCHANGED <<user, tenants, passkeys, memory, sessions, pending, issued, torn>>
  BY DEF TotpEnable, Reads
<1>2. MemoryInv'
  BY <1>1, SameMemory DEF Inv
<1>3. a \in Accounts /\ l \in Row
  BY <1>1, Read
<1>4. CASE l.totp_secret # None /\ work[w].arg = l.totp_secret
  <2>1. Writes(w, want) /\ confirmed' = [confirmed EXCEPT ![a] = @ \cup {l.totp_secret}]
    BY <1>4 DEF TotpEnable
  <2>2. l.totp_secret \in 1..MaxIssued
    BY <1>3, <1>4 DEF Row
  <2>3. /\ confirmed' \in [Accounts -> SUBSET (1..MaxIssued \cup Phones)]
        /\ l.totp_secret \in confirmed'[a]
        /\ \A b \in Accounts : confirmed[b] \subseteq confirmed'[b]
    BY <1>3, <2>1, <2>2 DEF Inv, RowsInv
  <2>4. RowsInv' /\ Grows
    BY <1>1, <2>3, ConfirmedGrows DEF Inv, RowsInv
  <2>5. /\ want \in Row /\ want.tenant_id = l.tenant_id /\ want.phone_e164 = l.phone_e164
        /\ want.sms_backup_enabled = l.sms_backup_enabled /\ want.totp_secret = l.totp_secret
    BY <1>3 DEF Row
  <2> HIDE DEF want
  <2>6. WorkInv'
    BY <1>1, <2>1, <2>3, <2>4, <2>5, EnrolmentWants DEF TotpKind, SmsKind
  <2> QED
    BY <1>1, <1>2, <2>4, <2>6 DEF Inv
<1>5. CASE ~(l.totp_secret # None /\ work[w].arg = l.totp_secret)
  <2>1. Done(w) /\ UNCHANGED confirmed
    BY <1>5 DEF TotpEnable
  <2>2. RowsInv' /\ Grows
    BY <1>1, <2>1, SameRows DEF Inv, RowsInv
  <2> QED
    BY <1>1, <1>2, <2>1, <2>2, DoneStep DEF Inv
<1> QED
  BY <1>4, <1>5

\* The enrolments that ask for no code.
LEMMA UncodedInv ==
  ASSUME Inv, NEW w \in Workers, TotpDisable(w) \/ SmsSetup(w) \/ SmsDisable(w)
  PROVE  Inv' /\ UNCHANGED user
<1> DEFINE l == work[w].loaded
<1>1. /\ work[w].at = "read" /\ l # None /\ work[w].account \in Accounts
      /\ UNCHANGED <<user, tenants, passkeys, memory, sessions, pending, ghosts>>
  BY Read DEF TotpDisable, SmsSetup, SmsDisable, Reads
<1>2. l \in Row
  BY <1>1, Read
<1>3. RowsInv' /\ Grows
  BY <1>1, SameRows DEF Inv, RowsInv, ghosts
<1>4. CASE TotpDisable(w)
  <2> DEFINE want == WithTotp(l, None, FALSE)
  <2>1. work[w].kind = "totp_disable" /\ Writes(w, want)
    BY <1>4 DEF TotpDisable, Reads
  <2>2. want \in Row
    BY <1>2, WithTotpIsRow
  <2>3. /\ want.tenant_id = l.tenant_id /\ want.phone_e164 = l.phone_e164
        /\ want.sms_backup_enabled = l.sms_backup_enabled /\ want.totp_enabled = FALSE
    BY DEF WithTotp
  <2> HIDE DEF want
  <2>4. WorkInv'
    BY <1>1, <1>3, <2>1, <2>2, <2>3, EnrolmentWants DEF TotpKind, SmsKind
  <2> QED
    BY <1>1, <2>4, QuietStep DEF Inv, RowsInv
<1>5. CASE SmsSetup(w) \/ SmsDisable(w)
  <2> DEFINE phone == IF work[w].kind = "sms_setup" THEN work[w].arg ELSE None
             want == WithPhone(l, phone, FALSE)
  <2>1. work[w].kind \in {"sms_setup", "sms_disable"} /\ Writes(w, want)
    BY <1>5 DEF SmsSetup, SmsDisable, Reads
  <2>2. want \in Row
    <3>1. JobOK(work[w], user, confirmed)
      BY DEF Inv, WorkInv
    <3>2. phone \in Phones \cup {None}
      BY <1>1, <3>1 DEF JobOK
    <3> QED
      BY <1>2, <3>2, WithPhoneIsRow
  <2>3. /\ want.tenant_id = l.tenant_id /\ want.totp_secret = l.totp_secret
        /\ want.totp_enabled = l.totp_enabled /\ want.sms_backup_enabled = FALSE
    BY DEF WithPhone
  <2> HIDE DEF want
  <2>4. WorkInv'
    BY <1>1, <1>3, <2>1, <2>2, <2>3, EnrolmentWants DEF TotpKind, SmsKind
  <2> QED
    BY <1>1, <2>4, QuietStep DEF Inv, RowsInv
<1> QED
  BY <1>4, <1>5

\* sms/enable: it enables the phone to which the code it accepts was sent.
LEMMA SmsEnableInv ==
  ASSUME Inv, NEW w \in Workers, SmsEnable(w)
  PROVE  Inv' /\ UNCHANGED user
<1> DEFINE l == work[w].loaded
           a == work[w].account
           n == work[w].arg
           want == [l EXCEPT !.sms_backup_enabled = TRUE]
<1>1. /\ work[w].at = "read" /\ work[w].kind = "sms_enable" /\ l # None
      /\ UNCHANGED <<user, tenants, passkeys, challenge, sessions, pending, torn>>
  BY DEF SmsEnable, Reads
<1>2. a \in Accounts /\ l \in Row
  BY <1>1, Read
<1>3. MemoryInv'
  <2>1. CASE l.phone_e164 = None
    BY <1>1, <2>1, SameMemory DEF SmsEnable, memory, Inv
  <2>2. CASE l.phone_e164 # None
    <3>1. l.phone_e164 \in Phones /\ VerifySmsOtp(a, l.phone_e164, n)
      BY <1>2, <2>2 DEF Row, SmsEnable
    <3> QED
      BY <1>1, <1>2, <3>1, VerifyCode DEF Inv
  <2> QED
    BY <2>1, <2>2
<1>4. CASE l.phone_e164 # None /\ Good(codes[a][l.phone_e164], n)
  <2>1. Writes(w, want) /\ confirmed' = [confirmed EXCEPT ![a] = @ \cup {l.phone_e164}]
    BY <1>4 DEF SmsEnable
  <2>2. l.phone_e164 \in Phones
    BY <1>2, <1>4 DEF Row
  <2>3. /\ confirmed' \in [Accounts -> SUBSET (1..MaxIssued \cup Phones)]
        /\ l.phone_e164 \in confirmed'[a]
        /\ \A b \in Accounts : confirmed[b] \subseteq confirmed'[b]
    BY <1>2, <2>1, <2>2 DEF Inv, RowsInv
  <2>4. RowsInv' /\ Grows
    BY <1>1, <2>3, ConfirmedGrows DEF Inv, RowsInv
  <2>5. /\ want \in Row /\ want.tenant_id = l.tenant_id /\ want.totp_secret = l.totp_secret
        /\ want.totp_enabled = l.totp_enabled /\ want.phone_e164 = l.phone_e164
    BY <1>2 DEF Row
  <2> HIDE DEF want
  <2>6. WorkInv'
    BY <1>1, <2>1, <2>3, <2>4, <2>5, EnrolmentWants DEF TotpKind, SmsKind
  <2> QED
    BY <1>1, <1>3, <2>4, <2>6 DEF Inv
<1>5. CASE ~(l.phone_e164 # None /\ Good(codes[a][l.phone_e164], n))
  <2>1. Done(w) /\ UNCHANGED confirmed
    BY <1>5 DEF SmsEnable
  <2>2. RowsInv' /\ Grows
    BY <1>1, <2>1, SameRows DEF Inv, RowsInv
  <2> QED
    BY <1>1, <1>3, <2>1, <2>2, DoneStep DEF Inv
<1> QED
  BY <1>4, <1>5

\* Codes of a login.
LEMMA MfaSmsSendInv ==
  ASSUME Inv, NEW w \in Workers, MfaSmsSend(w)
  PROVE  Inv' /\ UNCHANGED user
<1> DEFINE l == work[w].loaded
           a == work[w].account
<1>1. /\ work[w].at = "read" /\ l # None
      /\ UNCHANGED <<user, tenants, passkeys, challenge, sessions, pending, confirmed, torn>>
  BY DEF MfaSmsSend, Reads
<1>2. a \in Accounts /\ l \in Row
  BY <1>1, Read
<1>3. RowsInv' /\ Grows
  BY <1>1, SameRows DEF Inv, RowsInv
<1>4. CASE "sms" \in Methods(l)
  <2>1. CreateSmsOtp(a, l.phone_e164) /\ Goes(w, "send")
    BY <1>4 DEF MfaSmsSend
  <2>2. l.phone_e164 \in Phones
    BY <1>2, <1>4 DEF Methods, Row
  <2>3. MemoryInv'
    BY <1>1, <1>2, <2>1, <2>2, IssueCode DEF Inv
  <2> QED
    BY <1>1, <1>3, <2>1, <2>3, GoesStep DEF Inv
<1>5. CASE "sms" \notin Methods(l)
  <2>1. Done(w) /\ UNCHANGED <<codes, issued>>
    BY <1>5 DEF MfaSmsSend
  <2>2. MemoryInv'
    BY <1>1, <2>1, SameMemory DEF Inv, memory
  <2> QED
    BY <1>1, <1>3, <2>1, <2>2, DoneStep DEF Inv
<1> QED
  BY <1>4, <1>5

\* mfa/verify by SMS: an accepted code leaves the dictionary.
LEMMA MfaVerifySmsInv ==
  ASSUME Inv, NEW w \in Workers, MfaVerifySms(w)
  PROVE  Inv' /\ UNCHANGED user
<1> DEFINE l == work[w].loaded
           a == work[w].account
<1>1. /\ work[w].at = "read" /\ l # None /\ Done(w)
      /\ UNCHANGED <<user, tenants, passkeys, challenge, pending, confirmed, torn>>
  BY DEF MfaVerifySms, Reads
<1>2. a \in Accounts /\ l \in Row
  BY <1>1, Read
<1>3. sessions' \in {sessions, sessions \cup {a}}
  BY DEF MfaVerifySms
<1>4. RowsInv' /\ Grows
  BY <1>1, <1>2, <1>3, SameRows DEF Inv, RowsInv
<1>5. CASE "sms" \in Methods(l)
  <2>1. VerifySmsOtp(a, l.phone_e164, work[w].arg)
    BY <1>5 DEF MfaVerifySms
  <2>2. l.phone_e164 \in Phones
    BY <1>2, <1>5 DEF Methods, Row
  <2>3. MemoryInv'
    BY <1>1, <1>2, <2>1, <2>2, VerifyCode DEF Inv
  <2> QED
    BY <1>1, <1>4, <2>3, DoneStep DEF Inv
<1>6. CASE "sms" \notin Methods(l)
  <2>1. MemoryInv'
    BY <1>1, <1>6, SameMemory DEF Inv, MfaVerifySms, memory
  <2> QED
    BY <1>1, <1>4, <2>1, DoneStep DEF Inv
<1> QED
  BY <1>5, <1>6

\* The commit of totp/setup or totp/enable.
LEMMA CommitTotpInv ==
  ASSUME Inv, NEW w \in Workers, CommitTotp(w)
  PROVE  Inv' /\ TenantsKept
<1>1. /\ work[w].kind \in TotpKind /\ CommitEnrolment(w, "totp") /\ Done(w)
      /\ UNCHANGED <<tenants, passkeys, memory, sessions, pending, issued, confirmed>>
  BY DEF CommitTotp, TotpKind
<1>2. RowsInv' /\ Grows /\ TenantsKept
  BY <1>1, Enrolled
<1>3. MemoryInv'
  BY <1>1, SameMemory DEF Inv
<1> QED
  BY <1>1, <1>2, <1>3, DoneStep DEF Inv

\* The commit of sms/setup or sms/enable.
LEMMA CommitSmsInv ==
  ASSUME Inv, NEW w \in Workers, CommitSms(w)
  PROVE  Inv' /\ TenantsKept
<1>1. /\ work[w].kind \in SmsKind /\ work[w].kind \notin TotpKind /\ work[w].at = "commit"
      /\ CommitEnrolment(w, "sms")
      /\ UNCHANGED <<tenants, passkeys, challenge, sessions, pending, confirmed>>
  BY DEF CommitSms, SmsKind, TotpKind, CommitEnrolment
<1>2. RowsInv' /\ Grows /\ TenantsKept
  BY <1>1, Enrolled
<1>3. CASE work[w].kind = "sms_setup"
  <2>1. CreateSmsOtp(work[w].account, work[w].arg) /\ Goes(w, "send")
    BY <1>3 DEF CommitSms
  <2>2. work[w].account \in Accounts /\ work[w].arg \in Phones
    BY <1>1, <1>3 DEF Inv, WorkInv, JobOK
  <2>3. MemoryInv'
    BY <1>1, <2>1, <2>2, IssueCode DEF Inv
  <2> QED
    BY <1>1, <1>2, <2>1, <2>3, GoesStep DEF Inv
<1>4. CASE work[w].kind # "sms_setup"
  <2>1. Done(w) /\ UNCHANGED <<codes, issued>>
    BY <1>4 DEF CommitSms
  <2>2. MemoryInv'
    BY <1>1, <2>1, SameMemory DEF Inv, memory
  <2> QED
    BY <1>2, <2>1, <2>2, DoneStep DEF Inv
<1> QED
  BY <1>3, <1>4

\* Passkeys.
LEMMA BeginInv ==
  ASSUME Inv, NEW w \in Workers, NEW kind, NEW purpose \in Purpose, Begin(w, kind, purpose)
  PROVE  Inv' /\ UNCHANGED user
<1> DEFINE a == work[w].account
<1>1. /\ work[w].at = "read" /\ Issue(purpose) /\ Done(w)
      /\ challenge' = [challenge EXCEPT ![a][purpose] = Fresh]
      /\ UNCHANGED <<user, tenants, passkeys, codes, sessions, pending, confirmed, torn>>
  BY DEF Begin, Reads
<1>2. a \in Accounts
  BY <1>1, Read
<1>3. RowsInv' /\ Grows
  BY <1>1, SameRows DEF Inv, RowsInv
<1>4. MemoryInv'
  BY <1>1, <1>2, IssueChallenge DEF Inv
<1> QED
  BY <1>1, <1>3, <1>4, DoneStep DEF Inv

\* The completion of a passkey registration or login takes the challenge out.
LEMMA AnswerInv ==
  ASSUME Inv, NEW w \in Workers, PasskeyRegisterComplete(w) \/ VerifyPasskey(w)
  PROVE  Inv' /\ UNCHANGED user
<1> DEFINE a == work[w].account
           l == work[w].loaded
           n == work[w].arg
           for == IF work[w].kind = "passkey_register_complete" THEN "reg" ELSE "auth"
           j == Job("commit", work[w].kind, a, n, l, l)
<1>1. /\ work[w].at = "read" /\ l # None
      /\ work[w].kind \in {"passkey_register_complete", "passkey_login_complete"}
      /\ UNCHANGED <<user, tenants, passkeys, codes, sessions, pending, confirmed, torn>>
  BY DEF PasskeyRegisterComplete, VerifyPasskey, Reads
<1>2. /\ a \in Accounts /\ l \in Row /\ user[a] \in Row
      /\ JobOK(work[w], user, confirmed)
  BY <1>1, Read
<1>3. n \in Nat /\ for \in Purpose
  BY <1>1, <1>2 DEF JobOK, Purpose
<1>4. RowsInv' /\ Grows
  BY <1>1, SameRows DEF Inv, RowsInv
<1>5. CASE Done(w) /\ UNCHANGED <<challenge, issued>>
  <2>1. MemoryInv'
    BY <1>1, <1>5, SameMemory DEF Inv, memory
  <2> QED
    BY <1>1, <1>4, <1>5, <2>1, DoneStep DEF Inv
<1>6. CASE /\ Pop(a, for)
           /\ IF n = challenge[a][for] THEN Accepted(n) /\ Writes(w, l) ELSE Done(w) /\ UNCHANGED issued
  <2>1. IF n = challenge[a][for] THEN Accepted(n) ELSE UNCHANGED issued
    BY <1>6
  <2>2. MemoryInv' /\ (n = challenge[a][for] => n \in 1..MaxIssued)
    BY <1>1, <1>2, <1>3, <1>6, <2>1, PopStep DEF Inv
  <2>3. CASE n = challenge[a][for]
    <3>1. Writes(w, l)
      BY <1>6, <2>3
    <3>2. WantOK(j, user', confirmed')
      BY <1>1, <1>2, <2>2, <2>3 DEF WantOK, Job, TotpKind, SmsKind
    <3>3. WorkInv'
      BY <1>1, <1>2, <1>4, <3>1, <3>2, WritesStep
    <3> QED
      BY <1>1, <1>4, <2>2, <3>3 DEF Inv
  <2>4. CASE n # challenge[a][for]
    BY <1>1, <1>4, <1>6, <2>2, <2>4, DoneStep DEF Inv
  <2> QED
    BY <2>3, <2>4
<1> QED
  BY <1>5, <1>6 DEF PasskeyRegisterComplete, VerifyPasskey, Reads

\* The commit of a passkey.
LEMMA CommitPasskeyInv ==
  ASSUME Inv, NEW w \in Workers, CommitPasskey(w)
  PROVE  Inv' /\ UNCHANGED user
<1>1. /\ Done(w) /\ UNCHANGED <<user, tenants, memory, sessions, pending, ghosts>>
      /\ passkeys' = [passkeys EXCEPT ![work[w].account] = @ \cup {work[w].arg}]
  BY DEF CommitPasskey
<1>2. work[w].account \in Accounts /\ work[w].arg \in 1..MaxIssued
  BY DEF Inv, WorkInv, JobOK, WantOK, CommitPasskey
<1>3. passkeys' \in [Accounts -> SUBSET (1..MaxIssued)]
  BY <1>1, <1>2 DEF Inv, RowsInv
<1>4. RowsInv' /\ Grows
  BY <1>1, <1>3 DEF Inv, RowsInv, Grows, ghosts
<1>5. MemoryInv'
  BY <1>1, SameMemory DEF Inv, ghosts
<1> QED
  BY <1>1, <1>4, <1>5, DoneStep DEF Inv

\* An expired code and a restart only forget.
LEMMA ForgetInv ==
  ASSUME Inv, (\E a \in Accounts, p \in Phones : Expire(a, p)) \/ Restart
  PROVE  Inv' /\ UNCHANGED user
<1>1. UNCHANGED <<user, tenants, passkeys, sessions, pending, ghosts>>
  BY DEF Expire, Restart
<1>2. RowsInv' /\ Grows
  BY <1>1, SameRows DEF Inv, RowsInv, ghosts
<1>3. ASSUME NEW a \in Accounts, NEW p \in Phones, Expire(a, p) PROVE Inv'
  <2>1. MemoryInv'
    BY <1>1, <1>3, Forget DEF Expire, Inv, MemoryInv, ghosts
  <2>2. WorkInv'
    BY <1>1, <1>3 DEF Expire, Inv, WorkInv, ghosts
  <2> QED
    BY <1>2, <2>1, <2>2 DEF Inv
<1>4. CASE Restart
  <2>1. MemoryInv'
    BY <1>1, <1>4, Forget DEF Restart, Inv, ghosts
  <2>2. Free \in Jobs /\ JobOK(Free, user', confirmed')
    BY DEF Free, Job, Jobs, JobOK
  <2>3. WorkInv'
    BY <1>4, <2>2 DEF Restart, WorkInv
  <2> QED
    BY <1>1, <1>2, <2>1, <2>3 DEF Inv
<1> QED
  BY <1>1, <1>3, <1>4

(***************************************************************************)
(* The theorems                                                              *)
(***************************************************************************)
LEMMA NextInv == Inv /\ [Next]_vars => Inv' /\ TenantsKept
<1> SUFFICES ASSUME Inv, [Next]_vars PROVE Inv' /\ TenantsKept
  OBVIOUS
<1>1. UNCHANGED user => TenantsKept
  BY DEF TenantsKept
<1>2. ASSUME NEW w \in Workers, NEW a \in Accounts, Call(w, a) PROVE Inv' /\ TenantsKept
  BY <1>1, <1>2, CallInv
<1>3. ASSUME NEW w \in Workers, Handler(w) PROVE Inv' /\ TenantsKept
  <2>1. CASE Refuse(w) \/ Refresh(w) \/ SendSms(w) \/ Fail(w) \/ MfaVerifyTotp(w)
             \/ CommitPasskeyLogin(w)
    BY <1>1, <2>1, QuietInv
  <2>2. CASE Register(w) \/ Login(w)
    BY <1>1, <2>2, LoginInv
  <2>3. CASE MfaSmsSend(w)
    BY <1>1, <2>3, MfaSmsSendInv
  <2>4. CASE MfaVerifySms(w)
    BY <1>1, <2>4, MfaVerifySmsInv
  <2>5. CASE TotpSetup(w)
    BY <1>1, <2>5, TotpSetupInv
  <2>6. CASE TotpEnable(w)
    BY <1>1, <2>6, TotpEnableInv
  <2>7. CASE TotpDisable(w) \/ SmsSetup(w) \/ SmsDisable(w)
    BY <1>1, <2>7, UncodedInv
  <2>8. CASE SmsEnable(w)
    BY <1>1, <2>8, SmsEnableInv
  <2>9. CASE PasskeyRegisterBegin(w) \/ PasskeyLoginBegin(w)
    BY <1>1, <2>9, BeginInv DEF PasskeyRegisterBegin, PasskeyLoginBegin, Purpose
  <2>10. CASE PasskeyRegisterComplete(w) \/ VerifyPasskey(w)
    BY <1>1, <2>10, AnswerInv
  <2>11. CASE CommitPasskey(w)
    BY <1>1, <2>11, CommitPasskeyInv
  <2>12. CASE CommitRegister(w) \/ CommitLogin(w) \/ CommitTotp(w) \/ CommitSms(w)
    BY <2>12, Registered, FirstLogin, CommitTotpInv, CommitSmsInv
  <2> QED
    BY <1>3, <2>1, <2>2, <2>3, <2>4, <2>5, <2>6, <2>7, <2>8, <2>9, <2>10, <2>11, <2>12
       DEF Handler, Decide, Commit
<1>4. CASE (\E a \in Accounts, p \in Phones : Expire(a, p)) \/ Restart
  BY <1>1, <1>4, ForgetInv
<1>5. CASE UNCHANGED vars
  <2>1. RowsInv' /\ MemoryInv'
    BY <1>5, SameRows, SameMemory DEF Inv, RowsInv, vars, memory
  <2>2. WorkInv'
    BY <1>5 DEF Inv, WorkInv, vars
  <2> QED
    BY <1>1, <1>5, <2>1, <2>2 DEF Inv, vars
<1> QED
  BY <1>2, <1>3, <1>4, <1>5 DEF Next

\* The invariant, of every state.
LEMMA AlwaysInv == Spec => []Inv
BY InitInv, NextInv, PTL DEF Spec

\* Rows, codes, challenges and history have their types, whatever overlaps.
THEOREM AccountsTypeCorrect == Spec => []TypeOK
BY AlwaysInv, InvIsEnough, PTL

\* What a login asks for was confirmed with a code, unless enrolments of the
\* account overlapped (mfa.py).
THEOREM LoginsAskForConfirmed == Spec => []EnabledIsConfirmed
BY AlwaysInv, InvIsEnough, PTL

\* No code and no challenge is accepted twice, through wrong tries, resends and
\* restarts (mfa.py, webauthn_service.py).
THEOREM CodesAreAcceptedOnce == Spec => []AcceptedOnce
BY AlwaysInv, InvIsEnough, PTL

\* An account keeps its tenant, unless two first logins of it overlapped
\* (auth.py).
THEOREM AccountsKeepTheirTenant == Spec => TenantIsKept
<1>1. Inv /\ [Next]_vars =>
        [\A a \in Accounts :
           user[a] # None /\ user[a].tenant_id # None =>
             user'[a].tenant_id = user[a].tenant_id \/ "tenant" \in torn'[a]]_vars
  BY NextInv DEF TenantsKept
<1> QED
  BY <1>1, AlwaysInv, PTL DEF Spec, TenantIsKept
=============================================================================
