------------------------------ MODULE Accounts ------------------------------
(***************************************************************************)
(* Accounts and what their owner logs in with: a password, an authenticator  *)
(* (TOTP), codes by SMS, passkeys (auth.py, mfa.py, webauthn_service.py).    *)
(*                                                                         *)
(* A handler reads the account's row, decides without a further await, and   *)
(* commits: its session then writes the columns that differ from what it     *)
(* read, and no others.  SMS codes and passkey challenges are dictionaries   *)
(* in the server's memory.  An owner uses several tabs and devices, so that  *)
(* handlers of one account overlap, and mistypes a password or a code.       *)
(***************************************************************************)
EXTENDS Naturals, Sequences, FiniteSets

CONSTANTS
  None,         \* NULL
  Absent,       \* a key that a dictionary does not have
  Accounts,     \* e-mail addresses
  Phones,
  Workers,      \* handlers that may be in progress at a time
  MaxAttempts,  \* tries of one SMS code: 5
  MaxIssued,    \* bound: secrets, codes and challenges given out
  MaxTenants    \* bound: tenants created

ASSUME BoundsAssumption ==
  MaxAttempts \in Nat \ {0} /\ MaxIssued \in Nat /\ MaxTenants \in Nat
ASSUME DistinctAssumption ==
  None \notin Phones \cup Nat /\ Absent \notin Phones \cup Nat /\ Phones \cap Nat = {}

VARIABLES
  user,       \* [Accounts -> the row of cf_local_users, or None]
  tenants,    \* the accounts for which a tenant was created, in order
  passkeys,   \* [Accounts -> its rows of webauthn_credentials]
  codes,      \* _SMS_CODES, by account and phone
  challenge,  \* _CHALLENGES, by account and purpose
  sessions,   \* accounts whose owner holds an access token
  pending,    \* accounts whose owner holds an MFA token
  work,       \* [Workers -> locals of a handler]
  issued,     \* what was given out, with how often it was accepted: history
  confirmed,  \* [Accounts -> secrets and phones whose code was entered]: history
  torn        \* [Accounts -> column groups last written over another's]: history

vars == <<user, tenants, passkeys, codes, challenge, sessions, pending, work, issued, confirmed, torn>>
memory == <<codes, challenge>>
ghosts == <<issued, confirmed, torn>>

(***************************************************************************)
(* Rows and locals                                                           *)
(***************************************************************************)
Group == {"totp", "sms", "tenant"}
Purpose == {"reg", "auth"}

Columns(group) ==
  CASE group = "totp" -> {"totp_secret", "totp_enabled"}
    [] group = "sms" -> {"phone_e164", "sms_backup_enabled"}
    [] group = "tenant" -> {"tenant_id"}

\* A row of cf_local_users, as far as it is about logging in.
Row == [tenant_id : 1..MaxTenants \cup {None}, totp_secret : 1..MaxIssued \cup {None},
        totp_enabled : BOOLEAN, phone_e164 : Phones \cup {None}, sms_backup_enabled : BOOLEAN]

ASSUME NoneAssumption == None \notin Row

\* A new row, and one from before accounts had tenants.
NewUser == [tenant_id |-> None, totp_secret |-> None, totp_enabled |-> FALSE,
            phone_e164 |-> None, sms_backup_enabled |-> FALSE]

WithTotp(u, secret, enabled) ==
  [tenant_id |-> u.tenant_id, totp_secret |-> secret, totp_enabled |-> enabled,
   phone_e164 |-> u.phone_e164, sms_backup_enabled |-> u.sms_backup_enabled]

WithPhone(u, phone, enabled) ==
  [tenant_id |-> u.tenant_id, totp_secret |-> u.totp_secret, totp_enabled |-> u.totp_enabled,
   phone_e164 |-> phone, sms_backup_enabled |-> enabled]

Job(at, kind, a, arg, loaded, want) ==
  [at |-> at, kind |-> kind, account |-> a, arg |-> arg, loaded |-> loaded, want |-> want]

Free == Job("idle", None, None, None, None, None)

Init ==
  /\ user \in [Accounts -> {None, NewUser}]
  /\ tenants = <<>>
  /\ passkeys = [a \in Accounts |-> {}]
  /\ codes = [a \in Accounts |-> [p \in Phones |-> Absent]]
  /\ challenge = [a \in Accounts |-> [p \in Purpose |-> Absent]]
  /\ sessions = {}
  /\ pending = {}
  /\ work = [w \in Workers |-> Free]
  /\ issued = <<>>
  /\ confirmed = [a \in Accounts |-> {}]
  /\ torn = [a \in Accounts |-> {}]

Fresh == Len(issued) + 1

\* A secret, a code or a challenge, known by its number.
Issue(for) == Fresh <= MaxIssued /\ issued' = Append(issued, [for |-> for, uses |-> 0])
Accepted(n) == issued' = [issued EXCEPT ![n].uses = @ + 1]

\* What the owner types or a device answers: something given out, or a typo, 0.
Typed(for) == {0} \cup {n \in 1..Len(issued) : issued[n].for = for}

Methods(u) ==
  {m \in {"totp", "sms"} : \/ m = "totp" /\ u.totp_enabled /\ u.totp_secret # None
                           \/ m = "sms" /\ u.sms_backup_enabled /\ u.phone_e164 # None}

Done(w) == work' = [work EXCEPT ![w] = Free]
Goes(w, at) ==
  LET j == work[w]
  IN  work' = [work EXCEPT ![w] = Job(at, j.kind, j.account, j.arg, None, None)]
Writes(w, want) ==
  LET j == work[w]
  IN  work' = [work EXCEPT ![w] = Job("commit", j.kind, j.account, j.arg, j.loaded, want)]

(***************************************************************************)
(* A call                                                                    *)
(***************************************************************************)
\* Every handler begins with the account's row, and goes on at "read".
Start(w, kind, a, arg) ==
  /\ work[w].at = "idle"
  /\ work' = [work EXCEPT ![w] = Job("read", kind, a, arg, user[a], None)]
  /\ UNCHANGED <<user, tenants, passkeys, memory, sessions, pending, ghosts>>

Anonymous(w, a) ==
  \/ \E kind \in {"register", "login", "passkey_login_begin"} : Start(w, kind, a, None)
  \/ \E n \in Typed("auth") : Start(w, "passkey_login_complete", a, n)

\* _decode_mfa_token; a token that has expired is the same as none.
WithMfaToken(w, a) ==
  /\ a \in pending
  /\ \/ Start(w, "mfa_sms_send", a, None)
     \/ \E n \in Typed("totp") : Start(w, "mfa_verify_totp", a, n)
     \/ \E n \in Typed("sms") : Start(w, "mfa_verify_sms", a, n)

\* get_current_user: a token counts while its account has a tenant.
Authenticated(w, a) ==
  /\ a \in sessions
  /\ user[a] # None /\ user[a].tenant_id # None
  /\ \/ \E kind \in {"totp_setup", "totp_disable", "sms_disable", "passkey_register_begin"} :
          Start(w, kind, a, None)
     \/ \E n \in Typed("totp") : Start(w, "totp_enable", a, n)
     \/ \E n \in Typed("sms") : Start(w, "sms_enable", a, n)
     \/ \E n \in Typed("reg") : Start(w, "passkey_register_complete", a, n)
     \/ \E p \in Phones : Start(w, "sms_setup", a, p)

Reads(w, kind) == work[w].at = "read" /\ work[w].kind = kind

\* A wrong password, an account taken or unknown, or no passkey: refused with
\* nothing changed.
Refuse(w) ==
  /\ work[w].at = "read"
  /\ \/ work[w].kind \in {"login", "totp_disable"} /\ work[w].loaded # None
     \/ work[w].kind = "register" /\ work[w].loaded # None
     \/ work[w].kind # "register" /\ work[w].loaded = None
     \/ work[w].kind = "passkey_login_begin" /\ passkeys[work[w].account] = {}
  /\ Done(w)
  /\ UNCHANGED <<user, tenants, passkeys, memory, sessions, pending, ghosts>>

(***************************************************************************)
(* Registration and login                                                    *)
(***************************************************************************)
Register(w) ==
  /\ Reads(w, "register")
  /\ work[w].loaded = None
  /\ Writes(w, NewUser)
  /\ UNCHANGED <<user, tenants, passkeys, memory, sessions, pending, ghosts>>

\* The new tenant and the account in one transaction; the e-mail is unique.
CommitRegister(w) ==
  LET a == work[w].account
  IN  /\ work[w].at = "commit" /\ work[w].kind = "register"
      /\ IF user[a] = None
         THEN /\ Len(tenants) < MaxTenants
              /\ tenants' = Append(tenants, a)
              /\ user' = [user EXCEPT ![a] = [NewUser EXCEPT !.tenant_id = Len(tenants) + 1]]
              /\ Goes(w, "refresh")
         ELSE Done(w) /\ UNCHANGED <<user, tenants>>
      /\ UNCHANGED <<passkeys, memory, sessions, pending, ghosts>>

\* The token of the first factor: enough only if there is no second one.
Grant(a, u) ==
  IF Methods(u) = {} THEN sessions' = sessions \cup {a} /\ UNCHANGED pending
  ELSE pending' = pending \cup {a} /\ UNCHANGED sessions

\* Mutant: every login makes a tenant.
LoginWithNewTenant(w) ==
  /\ Reads(w, "login")
  /\ work[w].loaded # None
  /\ Writes(w, work[w].loaded)
  /\ UNCHANGED <<user, tenants, passkeys, memory, sessions, pending, ghosts>>

Login(w) ==
  LET u == work[w].loaded
  IN  /\ Reads(w, "login")
      /\ u # None
      /\ IF u.tenant_id = None
         THEN Writes(w, u) /\ UNCHANGED <<sessions, pending>>
         ELSE Grant(work[w].account, u) /\ Done(w)
      /\ UNCHANGED <<user, tenants, passkeys, memory, ghosts>>

\* Who wrote last since this handler read?
Tears(a, group, loaded) ==
  torn' = [torn EXCEPT ![a] =
             IF \A c \in Columns(group) : user[a][c] = loaded[c] THEN @ \ {group}
             ELSE @ \cup {group}]

\* The first login of an account without a tenant.
CommitLogin(w) ==
  LET a == work[w].account
  IN  /\ work[w].at = "commit" /\ work[w].kind = "login"
      /\ Len(tenants) < MaxTenants
      /\ tenants' = Append(tenants, a)
      /\ user' = [user EXCEPT ![a].tenant_id = Len(tenants) + 1]
      /\ Tears(a, "tenant", work[w].loaded)
      /\ Goes(w, "refresh")
      /\ UNCHANGED <<passkeys, memory, sessions, pending, issued, confirmed>>

\* session.refresh, and the token.
Refresh(w) ==
  LET a == work[w].account
  IN  /\ work[w].at = "refresh"
      /\ IF work[w].kind = "register" THEN sessions' = sessions \cup {a} /\ UNCHANGED pending
         ELSE Grant(a, user[a])
      /\ Done(w)
      /\ UNCHANGED <<user, tenants, passkeys, memory, ghosts>>

(***************************************************************************)
(* Codes by SMS                                                              *)
(***************************************************************************)
\* create_sms_otp: a new code takes the place of an earlier one.
CreateSmsOtp(a, p) ==
  /\ Issue("sms")
  /\ codes' = [codes EXCEPT ![a][p] = [code |-> Fresh, attempts |-> 0]]

\* Mutant: the right code is neither counted nor taken away.
TryKeepingCode(e, n) ==
  IF n = e.code THEN e ELSE IF e.attempts >= MaxAttempts THEN Absent ELSE [e EXCEPT !.attempts = @ + 1]

\* Mutant: the sixth try is the last that is counted.
TryOnceMore(e, n) ==
  IF n = e.code \/ e.attempts > MaxAttempts THEN Absent ELSE [e EXCEPT !.attempts = @ + 1]

\* The entry of a code after n has been tried against it.
Try(e, n) ==
  IF n = e.code \/ e.attempts >= MaxAttempts THEN Absent ELSE [e EXCEPT !.attempts = @ + 1]

Good(e, n) == e # Absent /\ e.attempts < MaxAttempts /\ n = e.code

\* verify_sms_otp
VerifySmsOtp(a, p, n) ==
  LET e == codes[a][p]
  IN  /\ codes' = IF e = Absent THEN codes ELSE [codes EXCEPT ![a][p] = Try(e, n)]
      /\ IF Good(e, n) THEN Accepted(n) ELSE UNCHANGED issued

\* 300 seconds: the entry stays and is refused, as if there were none.
Expire(a, p) ==
  /\ codes[a][p] # Absent
  /\ codes' = [codes EXCEPT ![a][p] = Absent]
  /\ UNCHANGED <<user, tenants, passkeys, challenge, sessions, pending, work, ghosts>>

MfaSmsSend(w) ==
  LET u == work[w].loaded
  IN  /\ Reads(w, "mfa_sms_send")
      /\ u # None
      /\ IF "sms" \in Methods(u)
         THEN CreateSmsOtp(work[w].account, u.phone_e164) /\ Goes(w, "send")
         ELSE Done(w) /\ UNCHANGED <<codes, issued>>
      /\ UNCHANGED <<user, tenants, passkeys, challenge, sessions, pending, confirmed, torn>>

\* send_sms has answered, well or not (502): the code is good either way.
SendSms(w) ==
  /\ work[w].at = "send"
  /\ Done(w)
  /\ UNCHANGED <<user, tenants, passkeys, memory, sessions, pending, ghosts>>

\* The second factor of a login.
MfaVerifyTotp(w) ==
  LET u == work[w].loaded
  IN  /\ Reads(w, "mfa_verify_totp")
      /\ u # None
      /\ sessions' = IF "totp" \in Methods(u) /\ work[w].arg = u.totp_secret /\ u.tenant_id # None
                     THEN sessions \cup {work[w].account} ELSE sessions
      /\ Done(w)
      /\ UNCHANGED <<user, tenants, passkeys, memory, pending, ghosts>>

MfaVerifySms(w) ==
  LET u == work[w].loaded
      a == work[w].account
      n == work[w].arg
  IN  /\ Reads(w, "mfa_verify_sms")
      /\ u # None
      /\ IF "sms" \in Methods(u)
         THEN /\ VerifySmsOtp(a, u.phone_e164, n)
              /\ sessions' = IF Good(codes[a][u.phone_e164], n) /\ u.tenant_id # None
                             THEN sessions \cup {a} ELSE sessions
         ELSE UNCHANGED <<codes, issued, sessions>>
      /\ Done(w)
      /\ UNCHANGED <<user, tenants, passkeys, challenge, pending, confirmed, torn>>

(***************************************************************************)
(* Enrolment of the authenticator and of a phone                             *)
(***************************************************************************)
\* Mutant: a new secret leaves the authenticator enabled.
TotpSetupKeepingEnabled(w) ==
  /\ Reads(w, "totp_setup")
  /\ work[w].loaded # None
  /\ Issue("totp")
  /\ Writes(w, [work[w].loaded EXCEPT !.totp_secret = Fresh])
  /\ UNCHANGED <<user, tenants, passkeys, memory, sessions, pending, confirmed, torn>>

TotpSetup(w) ==
  /\ Reads(w, "totp_setup")
  /\ work[w].loaded # None
  /\ Issue("totp")
  /\ Writes(w, WithTotp(work[w].loaded, Fresh, FALSE))
  /\ UNCHANGED <<user, tenants, passkeys, memory, sessions, pending, confirmed, torn>>

TotpEnable(w) ==
  LET u == work[w].loaded
  IN  /\ Reads(w, "totp_enable")
      /\ u # None
      /\ IF u.totp_secret # None /\ work[w].arg = u.totp_secret
         THEN /\ Writes(w, [u EXCEPT !.totp_enabled = TRUE])
              /\ confirmed' = [confirmed EXCEPT ![work[w].account] = @ \cup {u.totp_secret}]
         ELSE Done(w) /\ UNCHANGED confirmed
      /\ UNCHANGED <<user, tenants, passkeys, memory, sessions, pending, issued, torn>>

\* With a code or with the password.
TotpDisable(w) ==
  /\ Reads(w, "totp_disable")
  /\ work[w].loaded # None
  /\ Writes(w, WithTotp(work[w].loaded, None, FALSE))
  /\ UNCHANGED <<user, tenants, passkeys, memory, sessions, pending, ghosts>>

SmsSetup(w) ==
  /\ Reads(w, "sms_setup")
  /\ work[w].loaded # None
  /\ Writes(w, WithPhone(work[w].loaded, work[w].arg, FALSE))
  /\ UNCHANGED <<user, tenants, passkeys, memory, sessions, pending, ghosts>>

SmsEnable(w) ==
  LET u == work[w].loaded
      a == work[w].account
      n == work[w].arg
  IN  /\ Reads(w, "sms_enable")
      /\ u # None
      /\ IF u.phone_e164 = None
         THEN Done(w) /\ UNCHANGED <<codes, issued, confirmed>>
         ELSE /\ VerifySmsOtp(a, u.phone_e164, n)
              /\ IF Good(codes[a][u.phone_e164], n)
                 THEN /\ Writes(w, [u EXCEPT !.sms_backup_enabled = TRUE])
                      /\ confirmed' = [confirmed EXCEPT ![a] = @ \cup {u.phone_e164}]
                 ELSE Done(w) /\ UNCHANGED confirmed
      /\ UNCHANGED <<user, tenants, passkeys, challenge, sessions, pending, torn>>

\* Without a code.
SmsDisable(w) ==
  /\ Reads(w, "sms_disable")
  /\ work[w].loaded # None
  /\ Writes(w, WithPhone(work[w].loaded, None, FALSE))
  /\ UNCHANGED <<user, tenants, passkeys, memory, sessions, pending, ghosts>>

\* The columns whose value is not the one that was read.
Merge(now, loaded, want) ==
  [c \in DOMAIN now |-> IF want[c] # loaded[c] THEN want[c] ELSE now[c]]

CommitEnrolment(w, group) ==
  LET a == work[w].account
  IN  /\ work[w].at = "commit"
      /\ user' = [user EXCEPT ![a] = Merge(@, work[w].loaded, work[w].want)]
      /\ Tears(a, group, work[w].loaded)

CommitTotp(w) ==
  /\ work[w].kind \in {"totp_setup", "totp_enable", "totp_disable"}
  /\ CommitEnrolment(w, "totp")
  /\ Done(w)
  /\ UNCHANGED <<tenants, passkeys, memory, sessions, pending, issued, confirmed>>

\* sms_setup makes its code when its phone is in the row.
CommitSms(w) ==
  /\ work[w].kind \in {"sms_setup", "sms_enable", "sms_disable"}
  /\ CommitEnrolment(w, "sms")
  /\ IF work[w].kind = "sms_setup"
     THEN CreateSmsOtp(work[w].account, work[w].arg) /\ Goes(w, "send")
     ELSE Done(w) /\ UNCHANGED <<codes, issued>>
  /\ UNCHANGED <<tenants, passkeys, challenge, sessions, pending, confirmed>>

(***************************************************************************)
(* Passkeys                                                                  *)
(***************************************************************************)
\* A second begin takes the place of the first.
Begin(w, kind, purpose) ==
  LET a == work[w].account
  IN  /\ Reads(w, kind)
      /\ work[w].loaded # None
      /\ Issue(purpose)
      /\ challenge' = [challenge EXCEPT ![a][purpose] = Fresh]
      /\ Done(w)
      /\ UNCHANGED <<user, tenants, passkeys, codes, sessions, pending, confirmed, torn>>

PasskeyRegisterBegin(w) == Begin(w, "passkey_register_begin", "reg")

PasskeyLoginBegin(w) ==
  /\ Reads(w, "passkey_login_begin")
  /\ passkeys[work[w].account] # {}
  /\ Begin(w, "passkey_login_begin", "auth")

\* The challenge is gone whether the response is the right one or not.
Pop(a, purpose) == challenge' = [challenge EXCEPT ![a][purpose] = Absent]

PasskeyRegisterComplete(w) ==
  LET a == work[w].account
      n == work[w].arg
  IN  /\ Reads(w, "passkey_register_complete")
      /\ work[w].loaded # None
      /\ Pop(a, "reg")
      /\ IF n = challenge[a]["reg"]
         THEN Accepted(n) /\ Writes(w, work[w].loaded)
         ELSE Done(w) /\ UNCHANGED issued
      /\ UNCHANGED <<user, tenants, passkeys, codes, sessions, pending, confirmed, torn>>

CommitPasskey(w) ==
  /\ work[w].at = "commit" /\ work[w].kind = "passkey_register_complete"
  /\ passkeys' = [passkeys EXCEPT ![work[w].account] = @ \cup {work[w].arg}]
  /\ Done(w)
  /\ UNCHANGED <<user, tenants, memory, sessions, pending, ghosts>>

\* The counter and the time of use are the row's; no method is asked for.
VerifyPasskey(w) ==
  LET a == work[w].account
      n == work[w].arg
  IN  /\ Reads(w, "passkey_login_complete")
      /\ work[w].loaded # None
      /\ IF passkeys[a] = {} THEN Done(w) /\ UNCHANGED <<challenge, issued>>
         ELSE /\ Pop(a, "auth")
              /\ IF n = challenge[a]["auth"]
                 THEN Accepted(n) /\ Writes(w, work[w].loaded)
                 ELSE Done(w) /\ UNCHANGED issued
      /\ UNCHANGED <<user, tenants, passkeys, codes, sessions, pending, confirmed, torn>>

CommitPasskeyLogin(w) ==
  /\ work[w].at = "commit" /\ work[w].kind = "passkey_login_complete"
  /\ sessions' = IF work[w].loaded.tenant_id # None THEN sessions \cup {work[w].account} ELSE sessions
  /\ Done(w)
  /\ UNCHANGED <<user, tenants, passkeys, memory, pending, ghosts>>

(***************************************************************************)
(* The system                                                                *)
(***************************************************************************)
\* A database error rolls back what is not committed.
Fail(w) ==
  /\ work[w].at \in {"commit", "refresh"}
  /\ Done(w)
  /\ UNCHANGED <<user, tenants, passkeys, memory, sessions, pending, ghosts>>

Restart ==
  /\ codes' = [a \in Accounts |-> [p \in Phones |-> Absent]]
  /\ challenge' = [a \in Accounts |-> [p \in Purpose |-> Absent]]
  /\ work' = [w \in Workers |-> Free]
  /\ UNCHANGED <<user, tenants, passkeys, sessions, pending, ghosts>>

Call(w, a) ==
  Anonymous(w, a) \/ WithMfaToken(w, a) \/ Authenticated(w, a)

Decide(w) ==
  \/ Register(w) \/ Login(w) \/ MfaSmsSend(w) \/ MfaVerifyTotp(w) \/ MfaVerifySms(w)
  \/ TotpSetup(w) \/ TotpEnable(w) \/ TotpDisable(w)
  \/ SmsSetup(w) \/ SmsEnable(w) \/ SmsDisable(w)
  \/ PasskeyRegisterBegin(w) \/ PasskeyRegisterComplete(w) \/ PasskeyLoginBegin(w) \/ VerifyPasskey(w)

Commit(w) ==
  \/ CommitRegister(w) \/ CommitLogin(w) \/ CommitTotp(w) \/ CommitSms(w)
  \/ CommitPasskey(w) \/ CommitPasskeyLogin(w)

Handler(w) == Refuse(w) \/ Decide(w) \/ Commit(w) \/ Refresh(w) \/ SendSms(w) \/ Fail(w)

Next ==
  \/ \E w \in Workers, a \in Accounts : Call(w, a)
  \/ \E w \in Workers : Handler(w)
  \/ \E a \in Accounts, p \in Phones : Expire(a, p)
  \/ Restart

Spec == Init /\ [][Next]_vars

(***************************************************************************)
(* Properties                                                                *)
(***************************************************************************)
\* Type correctness.
TypeOK ==
  /\ user \in [Accounts -> Row \cup {None}]
  /\ tenants \in Seq(Accounts)
  /\ passkeys \in [Accounts -> SUBSET (1..MaxIssued)]
  /\ codes \in [Accounts -> [Phones -> [code : 1..MaxIssued, attempts : 0..MaxAttempts] \cup {Absent}]]
  /\ challenge \in [Accounts -> [Purpose -> 1..MaxIssued \cup {Absent}]]
  /\ sessions \subseteq Accounts /\ pending \subseteq Accounts
  /\ issued \in Seq([for : {"totp", "sms"} \cup Purpose, uses : Nat])
  /\ confirmed \in [Accounts -> SUBSET (1..MaxIssued \cup Phones)]
  /\ torn \in [Accounts -> SUBSET Group]

\* "Keep pending secret until enable confirms a code", "Not enabled until code
\* confirmed": an authenticator or a phone that a login asks for is one whose
\* code the owner has entered, unless two enrolments of the account overlapped:
\* each writes only its own columns over what the other wrote.
EnabledIsConfirmed ==
  \A a \in Accounts : user[a] # None =>
    /\ user[a].totp_enabled /\ "totp" \notin torn[a] => user[a].totp_secret \in confirmed[a]
    /\ user[a].sms_backup_enabled /\ "sms" \notin torn[a] => user[a].phone_e164 \in confirmed[a]

\* A code by SMS or a passkey challenge is accepted at most once, by whichever
\* of the handlers that look at it, through wrong tries, resends and restarts.
AcceptedOnce == \A n \in 1..Len(issued) : issued[n].uses <= 1

\* An account's tenant, and with it all that its owner has stored, is for life,
\* unless two first logins of an account without a tenant overlapped.
TenantIsKept ==
  [][\A a \in Accounts :
       user[a] # None /\ user[a].tenant_id # None =>
         user'[a].tenant_id = user[a].tenant_id \/ "tenant" \in torn'[a]]_vars
=============================================================================
