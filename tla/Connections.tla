---------------------------- MODULE Connections ----------------------------
(***************************************************************************)
(* The connections of one tenant of the shared database: consent at a bank *)
(* through Tink or GoCardless (open_banking.py and its two adapters), a    *)
(* Stripe account by key or OAuth (stripe_connect.py).                     *)
(*                                                                         *)
(* Every handler looks its row up, decides, and commits the columns that   *)
(* differ from what it read; extra_data is one column. No lock is taken    *)
(* and nothing makes a row unique. Between a sync's look-up and its        *)
(* commits it asks the bank for every account, which takes minutes. The    *)
(* movements that a sync adds are those of module Ingest.                  *)
(***************************************************************************)
EXTENDS Naturals, FiniteSets, SequencesExt

CONSTANTS
  None,          \* NULL, or a key that extra_data does not have
  Providers,     \* OPEN_BANKING_PROVIDER, or "stripe" for its connections
  Institutions,  \* banks; of Stripe, accounts
  Workers,       \* handlers that may be in progress at a time
  MaxRows,       \* bound: rows inserted
  MaxSessions,   \* bound: requisitions
  MaxConsents    \* bound: redirects after a consent, and Stripe connections

ASSUME ProvidersAssumption == Providers \subseteq {"tink", "gocardless", "stripe"}
ASSUME BoundsAssumption == MaxRows \in Nat /\ MaxSessions \in Nat /\ MaxConsents \in Nat

VARIABLES
  provider,  \* the active one
  conn,      \* [Rows -> provider_connections, or None]
  bank_accounts,  \* institutions with a row in bank_accounts
  work,      \* [Workers -> locals of a handler]
  sessions,  \* requisitions so far
  consents,  \* redirects and Stripe connections so far, each with its token or key
  asked,     \* sessions whose link the user has
  granted,   \* [Rows -> the row as a consent left it, or None]: history
  mixed,     \* rows last written over a version not read: history
  raced      \* rows where a consent was written over another: history

vars == <<provider, conn, bank_accounts, work, sessions, consents, asked, granted, mixed, raced>>
ghosts == <<granted, mixed, raced>>

(***************************************************************************)
(* Rows and locals                                                         *)
(***************************************************************************)
Rows == 1..MaxRows
Status == {"pending", "connected", "needs_reconnect", "disconnected"}

\* Of Tink the session is the reference, cf:tenant:institution; of GoCardless a
\* new requisition of the institution.
Session == Institutions \X (0..MaxSessions)
Token == 1..MaxConsents \cup {None}

\* account_ids, as whether there are any, and needs_reconnect with its reason.
ExtraData ==
  [session : Session \cup {None}, accounts : BOOLEAN, token : Token, needs_reconnect : BOOLEAN]

Row == [institution : Institutions, status : Status, access_token : Token,
        extra : ExtraData]

\* None is neither a row, nor a session, nor a token.
ASSUME NoneAssumption == None \notin Row \cup Session \cup Nat

NoExtra == [session |-> None, accounts |-> FALSE, token |-> None, needs_reconnect |-> FALSE]

NewRow(i, status, key, extra) ==
  [institution |-> i, status |-> status, access_token |-> key, extra |-> extra]

\* What an account answers to a sync.
Outcome == {"rows", "none", "outage", "auth"}
Errors == {"outage", "auth"}

Idle == [at |-> "idle", institution |-> None, want |-> None,
         loaded |-> [c \in Rows |-> None], refused |-> FALSE, cleared |-> {}, late |-> {}]

Init ==
  /\ provider \in Providers
  /\ conn = [c \in Rows |-> None]
  /\ bank_accounts = {}
  /\ work = [w \in Workers |-> Idle]
  /\ sessions = 0 /\ consents = 0 /\ asked = {}
  /\ granted = [c \in Rows |-> None]
  /\ mixed = {} /\ raced = {}

At(w, at) == work[w].at = at

Return(w) == work' = [work EXCEPT ![w] = Idle]

Existing == {c \in Rows : conn[c] # None}

\* The copies that a handler has of rows.
Load(rows) == [c \in Rows |-> IF c \in rows THEN conn[c] ELSE None]
Loaded(w) == {c \in Rows : work[w].loaded[c] # None}

(***************************************************************************)
(* Writing                                                                 *)
(***************************************************************************)
\* Mutant: the status is written although it is the one that was read.
ColumnsAndStatus(now, loaded, want, anyway) ==
  [k \in DOMAIN now |->
    IF want[k] # loaded[k] \/ k \in anyway \cup {"status"} THEN want[k] ELSE now[k]]

\* Columns of a row after a commit: those set to another value, and those set
\* to one that only looks the same here (times, counts, wording).
Columns(now, loaded, want, anyway) ==
  [k \in DOMAIN now |-> IF want[k] # loaded[k] \/ k \in anyway THEN want[k] ELSE now[k]]

\* Every other handler in progress that read one of the rows is late from now on.
Marked(w, at, rows, kind) ==
  [v \in Workers |->
    IF v = w THEN IF at = "idle" THEN Idle ELSE [work[v] EXCEPT !.at = at]
    ELSE IF Loaded(v) \cap rows = {} THEN work[v]
    ELSE [work[v] EXCEPT !.late = work[v].late \cup {kind}]]

\* The commit of a consent, or of its end: one row is written, or is new.
CommitConsent(w, c, want, anyway, at) ==
  LET j == work[w]
  IN  /\ conn' = [conn EXCEPT ![c] = IF conn[c] = None THEN want
                                     ELSE Columns(conn[c], j.loaded[c], want, anyway)]
      /\ granted' = [granted EXCEPT ![c] =
           IF want.status = "connected" /\ j.late = {} THEN want ELSE None]
      /\ mixed' = IF j.late = {} THEN mixed \ {c} ELSE mixed \cup {c}
      /\ raced' = IF "consent" \in j.late THEN raced \cup {c} ELSE raced
      /\ work' = Marked(w, at, {c}, "consent")

\* A new row's id, if the bound allows one more.
Fresh(c) == conn[c] = None /\ \A d \in 1..(c - 1) : conn[d] # None

\* Upsert by scalar_one_or_none: the row that was read, or a new one.
Target(w, c) == IF Loaded(w) = {} THEN Fresh(c) ELSE c \in Loaded(w)

\* Of two rows the look-up raises, whoever calls it and for ever.
UpsertLookUp(w, rows, at, i, want) ==
  /\ At(w, "idle")
  /\ Cardinality(rows) <= 1
  /\ work' = [work EXCEPT ![w] =
       [Idle EXCEPT !.at = at, !.institution = i, !.want = want, !.loaded = Load(rows)]]
  /\ UNCHANGED <<provider, conn, bank_accounts, asked, ghosts>>

(***************************************************************************)
(* Asking for a consent                                                    *)
(***************************************************************************)
\* create_bank_link up to its look-up: nothing before it reads what others write.
CreateBankLink(w, i, n) ==
  UpsertLookUp(w, {c \in Existing : conn[c].institution = i}, "link", i,
               [NoExtra EXCEPT !.session = <<i, n>>])

\* Tink: a URL with the reference as its state; nothing is sent.
TinkCreateLink(w, i) ==
  provider = "tink" /\ CreateBankLink(w, i, 0) /\ UNCHANGED <<sessions, consents>>

\* GoCardless: an agreement, then a requisition.
GoCardlessCreateLink(w, i) ==
  /\ provider = "gocardless"
  /\ sessions < MaxSessions
  /\ sessions' = sessions + 1
  /\ CreateBankLink(w, i, sessions')
  /\ UNCHANGED consents

\* extra_data keeps what the link does not set: accounts, token, needs_reconnect.
LinkExtra(extra, s) == [extra EXCEPT !.session = s]

CommitLink(w) ==
  LET j == work[w]
      s == j.want.session
  IN  /\ At(w, "link")
      /\ \E c \in Rows, anyway \in SUBSET {"extra"} :
           /\ Target(w, c)
           /\ CommitConsent(w, c,
                IF Loaded(w) = {} THEN NewRow(j.institution, "pending", None, LinkExtra(NoExtra, s))
                ELSE [j.loaded[c] EXCEPT !.status = "pending", !.extra = LinkExtra(j.loaded[c].extra, s)],
                anyway, "idle")
      /\ asked' = asked \cup {s}
      /\ UNCHANGED <<provider, bank_accounts, sessions, consents>>

(***************************************************************************)
(* The redirect after a consent                                            *)
(***************************************************************************)
\* A row that the handler's session holds is not read again.
Seen(w, c) == IF work[w].loaded[c] = None THEN conn[c] ELSE work[w].loaded[c]

\* The connection of the institution or the session, else the first, whichever it is.
Picked(w, s) ==
  LET fits == {c \in Existing : Seen(w, c).institution = s[1] \/ Seen(w, c).extra.session = s}
  IN  IF fits # {} THEN fits ELSE Existing

\* With what complete_authorization or get_link_status returned.
LookUpForCallback(w, s, token, accounts) ==
  /\ \E c \in Picked(w, s) :
       work' = [work EXCEPT ![w] =
         [Idle EXCEPT !.at = "grant", !.institution = s[1],
                      !.loaded = [Idle.loaded EXCEPT ![c] = Seen(w, c)],
                      !.want = [NoExtra EXCEPT !.session = s, !.token = token, !.accounts = accounts],
                      !.late = IF c \in Loaded(w) THEN work[w].late ELSE {}]]
  /\ UNCHANGED <<provider, sessions, conn, bank_accounts, asked, ghosts>>

Redirected(w) ==
  /\ At(w, "idle")
  /\ consents < MaxConsents
  /\ consents' = consents + 1

\* Tink: the code is exchanged for a token, then the accounts are listed.
CompleteAuthorization(w) ==
  /\ provider = "tink"
  /\ Redirected(w)
  /\ \E s \in asked, accounts \in BOOLEAN : LookUpForCallback(w, s, consents', accounts)

\* GoCardless comes back with the id of the session; it has accounts if the user
\* has approved the requisition ...
RefIsSession(w) ==
  /\ provider = "gocardless"
  /\ Redirected(w)
  /\ \E s \in asked, accounts \in BOOLEAN : LookUpForCallback(w, s, None, accounts)

\* ... or with the reference: then the session asked about is that of any open
\* connection of the tenant, whatever the institution of the reference ...
RefIsReference(w) ==
  /\ provider = "gocardless"
  /\ Redirected(w)
  /\ \E c \in Existing :
       /\ conn[c].status \in {"pending", "connected"}
       /\ work' = [work EXCEPT ![w] =
            [Idle EXCEPT !.at = "ask", !.loaded = Load({c}),
                         !.want = [NoExtra EXCEPT !.session = conn[c].extra.session]]]
  /\ UNCHANGED <<provider, sessions, conn, bank_accounts, asked, ghosts>>

\* ... and what is written starts from the copy of before get_link_status.
GetLinkStatus(w) ==
  /\ At(w, "ask")
  /\ \E accounts \in BOOLEAN : LookUpForCallback(w, work[w].want.session, None, accounts)
  /\ UNCHANGED consents

\* Mutant: the flag of an expired consent is kept.
GrantedKeepingFlag(extra, grant) ==
  [grant EXCEPT !.token = IF grant.token = None THEN extra.token ELSE grant.token,
                !.needs_reconnect = extra.needs_reconnect]

\* "Successful re-link clears expired-auth flag".
Granted(extra, grant) ==
  [grant EXCEPT !.token = IF grant.token = None THEN extra.token ELSE grant.token]

\* Mutant: the provider's own word for the status is stored.
StatusVerbatim(accounts) == IF accounts THEN "CONNECTED" ELSE "PENDING"

StatusOf(accounts) == IF accounts THEN "connected" ELSE "pending"

CommitCallback(w) ==
  LET j == work[w]
  IN  /\ At(w, "grant")
      /\ \E c \in Loaded(w) :
           CommitConsent(w, c,
             [j.loaded[c] EXCEPT !.status = StatusOf(j.want.accounts), !.institution = j.institution,
                                 !.extra = Granted(j.loaded[c].extra, j.want)],
             {"extra"}, IF j.want.accounts THEN "details" ELSE "idle")
      /\ UNCHANGED <<provider, bank_accounts, sessions, consents, asked>>

\* The details of an account, whose failure is passed over, and its row.  Two
\* callbacks may both insert one; a third then fails as Abort does.
CommitAccount(w) ==
  /\ At(w, "details")
  /\ bank_accounts' = bank_accounts \cup {work[w].institution}
  /\ Return(w)
  /\ UNCHANGED <<provider, conn, sessions, consents, asked, ghosts>>

(***************************************************************************)
(* Pulling the movements                                                   *)
(***************************************************************************)
\* A bank may answer, be out of order or have ended the consent; of Tink a
\* request without a token is refused here.  A failure is one of authorisation
\* if its text has "token", "unauthor" or "401".
Answers(row) ==
  IF ~row.extra.accounts THEN {{}}
  ELSE IF provider = "tink" /\ row.extra.token = None THEN {{"auth"}}
  ELSE {{outcome} : outcome \in Outcome}

\* Whether a flag goes, with what was answered so far in the whole sync.
Clears(got) == "rows" \in got \/ got \cap Errors = {}

\* No account answered, and one was refused.
Refuses(got) == got \subseteq Errors /\ "auth" \in got

\* The accounts of each connected row in turn, with the copies' tokens.
SyncTransactions(w) ==
  LET rows == {c \in Existing : conn[c].status = "connected"}
  IN  /\ At(w, "idle")
      /\ provider # "stripe"
      /\ rows # {}
      /\ \E order \in SetToSeqs(rows), answer \in [rows -> UNION {Answers(conn[c]) : c \in rows}] :
           LET got(n) == UNION {answer[order[k]] : k \in 1..n}
           IN  /\ \A c \in rows : answer[c] \in Answers(conn[c])
               /\ work' = [work EXCEPT ![w] =
                    [Idle EXCEPT !.at = "sync", !.loaded = Load(rows), !.refused = Refuses(got(Len(order))),
                       !.cleared = {c \in rows : /\ conn[c].extra.needs_reconnect
                                                 /\ \E n \in 1..Len(order) : order[n] = c /\ Clears(got(n))}]]
      /\ UNCHANGED <<provider, conn, bank_accounts, sessions, consents, asked, ghosts>>

SyncedExtra(extra, cleared) == [extra EXCEPT !.needs_reconnect = extra.needs_reconnect /\ ~cleared]

\* extra_data is set from the copy, with the count of this sync.
CommitSync(w) ==
  LET j == work[w]
      want(c) == [j.loaded[c] EXCEPT !.extra = SyncedExtra(j.loaded[c].extra, c \in j.cleared)]
  IN  /\ At(w, "sync")
      /\ \E written \in SUBSET Loaded(w) :
           conn' = [c \in Rows |->
             IF c \notin Loaded(w) THEN conn[c]
             ELSE Columns(conn[c], j.loaded[c], want(c), IF c \in written THEN {"extra"} ELSE {})]
      /\ mixed' = IF j.late = {} THEN mixed ELSE mixed \cup Loaded(w)
      /\ granted' = [c \in Rows |-> IF c \in mixed' THEN None ELSE granted[c]]
      /\ work' = Marked(w, IF j.refused THEN "refuse" ELSE "idle", Loaded(w), "sync")
      /\ UNCHANGED <<provider, bank_accounts, sessions, consents, asked, raced>>

\* "Drop unusable token so list_connections surfaces reconnect".
Refused(row) ==
  [row EXCEPT !.status = "needs_reconnect",
              !.extra = [row.extra EXCEPT !.token = None, !.needs_reconnect = TRUE]]

CommitRefusal(w) ==
  LET j == work[w]
      want(c) == Refused(j.loaded[c])
  IN  /\ At(w, "refuse")
      /\ conn' = [c \in Rows |-> IF c \notin Loaded(w) THEN conn[c]
                                 ELSE Columns(conn[c], j.loaded[c], want(c), {"extra"})]
      /\ granted' = [c \in Rows |-> IF c \in Loaded(w) THEN None ELSE granted[c]]
      /\ mixed' = IF j.late = {} THEN mixed \ Loaded(w) ELSE mixed \cup Loaded(w)
      /\ work' = Marked(w, "idle", Loaded(w), "sync")
      /\ UNCHANGED <<provider, bank_accounts, sessions, consents, asked, raced>>

(***************************************************************************)
(* Stripe                                                                  *)
(***************************************************************************)
\* Up to the look-up: a tenant has one connection, whatever its account.
ConnectStripeDirect(w, i) ==
  /\ provider = "stripe"
  /\ consents < MaxConsents
  /\ consents' = consents + 1
  /\ UpsertLookUp(w, Existing, "key", i, [NoExtra EXCEPT !.token = consents'])
  /\ UNCHANGED sessions

\* OAuth: the token of a code in place of a key.
StripeCallback(w, i) == ConnectStripeDirect(w, i)

CommitKey(w) ==
  LET j == work[w]
  IN  /\ At(w, "key")
      /\ \E c \in Rows :
           /\ Target(w, c)
           /\ CommitConsent(w, c, NewRow(j.institution, "connected", j.want.token, NoExtra),
                            {}, "idle")
      /\ UNCHANGED <<provider, bank_accounts, sessions, consents, asked>>

DisconnectStripe(w) ==
  /\ provider = "stripe"
  /\ Existing # {}
  /\ UpsertLookUp(w, Existing, "disconnect", None, None)
  /\ UNCHANGED <<sessions, consents>>

CommitDisconnect(w) ==
  /\ At(w, "disconnect")
  /\ \E c \in Loaded(w) :
       CommitConsent(w, c, [work[w].loaded[c] EXCEPT !.status = "disconnected", !.access_token = None],
                     {}, "idle")
  /\ UNCHANGED <<provider, bank_accounts, sessions, consents, asked>>

(***************************************************************************)
(* The system                                                              *)
(***************************************************************************)
\* An error of the provider or the database, or a restart: nothing more is written.
Abort(w) ==
  /\ ~At(w, "idle")
  /\ Return(w)
  /\ UNCHANGED <<provider, conn, bank_accounts, sessions, consents, asked, ghosts>>

Handler(w) ==
  \/ \E i \in Institutions :
       \/ TinkCreateLink(w, i) \/ GoCardlessCreateLink(w, i)
       \/ ConnectStripeDirect(w, i) \/ StripeCallback(w, i)
  \/ CommitLink(w) \/ CompleteAuthorization(w)
  \/ RefIsSession(w) \/ RefIsReference(w) \/ GetLinkStatus(w)
  \/ CommitCallback(w) \/ CommitAccount(w)
  \/ SyncTransactions(w) \/ CommitSync(w) \/ CommitRefusal(w)
  \/ CommitKey(w) \/ DisconnectStripe(w) \/ CommitDisconnect(w)
  \/ Abort(w)

Next == \E w \in Workers : Handler(w)

Spec == Init /\ [][Next]_vars

(***************************************************************************)
(* Properties                                                              *)
(***************************************************************************)
Step == {"idle", "link", "ask", "grant", "details", "sync", "refuse", "key", "disconnect"}

\* Type correctness.
TypeOK ==
  /\ provider \in Providers
  /\ conn \in [Rows -> Row \cup {None}]
  /\ bank_accounts \subseteq Institutions
  /\ work \in [Workers -> [at : Step, institution : Institutions \cup {None},
                           want : ExtraData \cup {None}, loaded : [Rows -> Row \cup {None}],
                           refused : BOOLEAN, cleared : SUBSET Rows, late : SUBSET {"consent", "sync"}]]
  /\ sessions \in 0..MaxSessions /\ consents \in 0..MaxConsents
  /\ asked \subseteq Session
  /\ granted \in [Rows -> Row \cup {None}]
  /\ mixed \subseteq Rows /\ raced \subseteq Rows

\* "Successful re-link clears expired-auth flag": a connection is shown as
\* connected exactly when its last consent stands, with that consent's session,
\* accounts and token and without the flag, whatever partial syncs, refusals and
\* abandoned links came between, unless handlers that had read one version of
\* the row both wrote it.
LastConsentStands ==
  \A c \in Rows \ mixed : conn[c] # None =>
    IF conn[c].status = "connected" THEN conn[c] = granted[c] ELSE granted[c] = None

\* A connection that a sync will use can be used: it has accounts and, of Tink,
\* a token, of Stripe a key.  Syncs read it minutes before they write it and may
\* overlap anything; only two consents, or a consent and its end, that were
\* written over one another leave a connected row with nothing to ask with.
ConnectedIsUsable ==
  \A c \in Rows \ raced : conn[c] # None /\ conn[c].status = "connected" =>
    CASE provider = "tink" -> conn[c].extra.accounts /\ conn[c].extra.token # None
      [] provider = "gocardless" -> conn[c].extra.accounts
      [] provider = "stripe" -> conn[c].access_token # None
=============================================================================
