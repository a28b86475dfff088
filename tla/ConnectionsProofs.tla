------------------------- MODULE ConnectionsProofs -------------------------
(***************************************************************************)
(* Safety of the connections of one tenant, for any banks, any number of     *)
(* handlers in progress and any number of rows, requisitions and redirects.  *)
(*                                                                         *)
(* The properties are about the rows; what the next commit does to them      *)
(* depends on the copy its handler took before.  Typed says what the locals  *)
(* of a handler hold at each of its steps, CopiesInv how far a copy can be   *)
(* from its row: not at all while nobody else has written the row, in its    *)
(* status and extra_data alone while only syncs have.                        *)
(***************************************************************************)
EXTENDS Connections, TLAPS

\* The steps at which a handler has copies that it will write from.
Writing == {"link", "ask", "grant", "sync", "refuse", "key", "disconnect"}

(***************************************************************************)
(* What is left in the locals at each step.                                  *)
(***************************************************************************)
LinkLocals(j) ==
  j.at = "link" =>
    /\ provider # "stripe" /\ j.institution \in Institutions
    /\ j.want \in ExtraData /\ j.want.session \in Session

AskLocals(j) ==
  j.at = "ask" =>
    /\ provider = "gocardless"
    /\ j.want \in ExtraData /\ j.want.session \in Session

GrantLocals(j) ==
  j.at = "grant" =>
    /\ provider # "stripe" /\ j.institution \in Institutions
    /\ j.want \in ExtraData /\ j.want.session \in Session
    /\ ~j.want.needs_reconnect
    /\ provider = "tink" => j.want.token # None

IdleLocals(j) == j.at = "idle" => \A c \in Rows : j.loaded[c] = None

KeyLocals(j) ==
  j.at = "key" =>
    /\ provider = "stripe" /\ j.institution \in Institutions
    /\ j.want \in ExtraData /\ j.want.token # None

SyncLocals(j) ==
  j.at \in {"sync", "refuse"} =>
    /\ provider # "stripe"
    /\ \A c \in Rows : j.loaded[c] # None => j.loaded[c].status = "connected"

\* A connection that is not Stripe's knows its session, in every copy of it.
KnowsSession(row) == row # None /\ provider # "stripe" => row.extra.session \in Session

Locals(j) ==
  /\ LinkLocals(j) /\ AskLocals(j) /\ GrantLocals(j) /\ KeyLocals(j) /\ SyncLocals(j)
  /\ IdleLocals(j)
  /\ j.at = "details" => j.institution \in Institutions
  /\ \A c \in Rows : KnowsSession(j.loaded[c]) /\ (j.loaded[c] # None => conn[c] # None)

Typed ==
  /\ TypeOK
  /\ \A w \in Workers : Locals(work[w])
  /\ \A c \in Rows : KnowsSession(conn[c])

(***************************************************************************)
(* How far a copy is from its row.                                           *)
(***************************************************************************)
\* Nobody else wrote the row since it was read.
Current(j) ==
  j.at \in Writing \ {"refuse"} /\ j.late = {} =>
    \A c \in Rows : j.loaded[c] # None => conn[c] = j.loaded[c]

\* Syncs alone wrote it: the key stands, and it may have been refused.
SyncedOnly(j) ==
  j.at \in Writing /\ "consent" \notin j.late =>
    \A c \in Rows : j.loaded[c] # None =>
      /\ conn[c].access_token = j.loaded[c].access_token
      /\ conn[c].status \in {j.loaded[c].status, "needs_reconnect"}

Usable(row) ==
  /\ provider = "tink" => row.extra.accounts /\ row.extra.token # None
  /\ provider = "gocardless" => row.extra.accounts
  /\ provider = "stripe" => row.access_token # None

\* What a sync asks the bank with, and will write back.
AsksUsable(j) ==
  j.at \in {"sync", "refuse"} =>
    \A c \in Rows \ raced : j.loaded[c] # None => Usable(j.loaded[c])

\* A consent leaves the row connected and without the flag.
GrantedClean ==
  \A c \in Rows : granted[c] # None =>
    granted[c].status = "connected" /\ ~granted[c].extra.needs_reconnect

RowUsable ==
  \A c \in Rows \ raced : conn[c] # None /\ conn[c].status = "connected" => Usable(conn[c])

CopiesInv == \A w \in Workers : Current(work[w]) /\ SyncedOnly(work[w])
ConsentInv == GrantedClean /\ LastConsentStands
UseInv == RowUsable /\ \A w \in Workers : AsksUsable(work[w])

(***************************************************************************)
(* Writing a row                                                             *)
(***************************************************************************)
LocalSet ==
  [at : Step, institution : Institutions \cup {None}, want : ExtraData \cup {None},
   loaded : [Rows -> Row \cup {None}], refused : BOOLEAN, cleared : SUBSET Rows,
   late : SUBSET {"consent", "sync"}]

\* What a commit leaves in each column of a row.
Written(now, loaded, want, anyway, new) ==
  /\ new \in Row
  /\ new.institution \in {want.institution, now.institution}
  /\ new.status = IF want.status # loaded.status \/ "status" \in anyway
                  THEN want.status ELSE now.status
  /\ new.access_token = IF want.access_token # loaded.access_token \/ "access_token" \in anyway
                        THEN want.access_token ELSE now.access_token
  /\ new.extra = IF want.extra # loaded.extra \/ "extra" \in anyway
                 THEN want.extra ELSE now.extra

\* Columns is a commit, column by column.
LEMMA ColumnsRow ==
  ASSUME NEW now \in Row, NEW loaded, NEW want \in Row, NEW anyway
  PROVE  Written(now, loaded, want, anyway, Columns(now, loaded, want, anyway))
<1> DEFINE new == Columns(now, loaded, want, anyway)
           field(k) == IF want[k] # loaded[k] \/ k \in anyway THEN want[k] ELSE now[k]
<1>1. DOMAIN now = {"institution", "status", "access_token", "extra"}
  BY DEF Row
<1>2. new = [k \in {"institution", "status", "access_token", "extra"} |-> field(k)]
  BY <1>1 DEF Columns
<1>3. /\ field("institution") \in Institutions /\ field("status") \in Status
      /\ field("access_token") \in Token /\ field("extra") \in ExtraData
  BY DEF Row
<1>4. new = [institution |-> field("institution"), status |-> field("status"),
             access_token |-> field("access_token"), extra |-> field("extra")]
  BY <1>2
<1>5. new \in Row
  <2> HIDE DEF new, field
  <2> QED
    BY <1>3, <1>4 DEF Row
<1> QED
  BY <1>2, <1>5 DEF Written

\* Of a row that is as it was read, a commit makes what its handler wants.
LEMMA ColumnsOfCurrent ==
  ASSUME NEW now \in Row, NEW want \in Row, NEW anyway
  PROVE  Columns(now, now, want, anyway) = want
<1>1. /\ DOMAIN now = {"institution", "status", "access_token", "extra"}
      /\ DOMAIN want = {"institution", "status", "access_token", "extra"}
      /\ want = [k \in {"institution", "status", "access_token", "extra"} |-> want[k]]
  BY DEF Row
<1>2. \A k \in DOMAIN now :
        (IF want[k] # now[k] \/ k \in anyway THEN want[k] ELSE now[k]) = want[k]
  OBVIOUS
<1> QED
  BY <1>1, <1>2 DEF Columns

(***************************************************************************)
(* Type correctness                                                          *)
(***************************************************************************)
\* A handler that is not in progress.
LEMMA IdleTyped == Idle \in LocalSet /\ Locals(Idle)
<1>1. Idle \in LocalSet
  BY DEF Idle, LocalSet, Step
<1>2. Locals(Idle)
  BY
     DEF Idle, Locals, LinkLocals, AskLocals, GrantLocals, KeyLocals, SyncLocals, IdleLocals, KnowsSession
<1> QED
  BY <1>1, <1>2

\* The initial state is well typed.
LEMMA InitTyped == Init => Typed
<1> SUFFICES ASSUME Init PROVE Typed
  OBVIOUS
<1>1. work \in [Workers -> LocalSet] /\ \A w \in Workers : Locals(work[w])
  BY IdleTyped DEF Init
<1>2. \A c \in Rows : KnowsSession(conn[c])
  BY DEF Init, KnowsSession
<1> QED
  BY <1>1, <1>2, BoundsAssumption DEF Init, Typed, TypeOK, LocalSet

\* What a handler has of the rows: as they are now, or a copy of before its await.
Copied(w, j) ==
  \/ j.late = {} /\ \A c \in Rows : j.loaded[c] \in {None, conn[c]}
  \/ /\ work[w].at = "ask" /\ j.at = "grant" /\ j.late = work[w].late
     /\ \A c \in Rows : j.loaded[c] \in {None, work[w].loaded[c]}

\* A handler has read what it needs, or returned: the rows stay as they are.
Took(w) ==
  /\ UNCHANGED <<provider, conn, ghosts>>
  /\ \E j \in LocalSet :
       /\ work' = [work EXCEPT ![w] = j]
       /\ Locals(j)
       /\ j.at # "refuse" /\ Copied(w, j)

\* Its other effects are on the counters and sets that no row depends on.
LEMMA TookTyped ==
  ASSUME Typed, NEW w \in Workers, Took(w),
         bank_accounts' \subseteq Institutions, sessions' \in 0..MaxSessions,
         consents' \in 0..MaxConsents, asked' \subseteq Session
  PROVE  Typed'
<1>1. PICK j \in LocalSet : work' = [work EXCEPT ![w] = j] /\ Locals(j)
  BY DEF Took
<1>2. work \in [Workers -> LocalSet] /\ \A v \in Workers : Locals(work[v])
  BY DEF Typed, TypeOK, LocalSet
<1>3. work' \in [Workers -> LocalSet] /\ \A v \in Workers : work'[v] \in {j, work[v]}
  BY <1>1, <1>2
<1>4. provider' = provider /\ conn' = conn /\ granted' = granted /\ mixed' = mixed /\ raced' = raced
  BY DEF Took, ghosts
<1>5. \A v \in Workers : Locals(work[v])'
  BY <1>1, <1>2, <1>3, <1>4
     DEF Locals, LinkLocals, AskLocals, GrantLocals, KeyLocals, SyncLocals, IdleLocals, KnowsSession
<1>6. \A c \in Rows : KnowsSession(conn[c])'
  BY <1>4 DEF Typed, KnowsSession
<1> QED
  BY <1>3, <1>4, <1>5, <1>6 DEF Typed, TypeOK, LocalSet

\* The copies a look-up takes.
LEMMA LoadType ==
  ASSUME Typed, NEW rows \in SUBSET Rows
  PROVE  /\ Load(rows) \in [Rows -> Row \cup {None}]
         /\ \A c \in Rows : /\ Load(rows)[c] \in {None, conn[c]}
                            /\ Load(rows)[c] # None => c \in rows /\ Load(rows)[c] = conn[c]
                            /\ KnowsSession(Load(rows)[c])
<1>1. conn \in [Rows -> Row \cup {None}] /\ \A c \in Rows : KnowsSession(conn[c])
  BY DEF Typed, TypeOK
<1> QED
  BY <1>1 DEF Load, KnowsSession

\* A request for a link, a Stripe account or its end reads the rows it is for.
LEMMA UpsertTook ==
  ASSUME Typed, NEW w \in Workers, NEW rows \in SUBSET Rows, NEW at \in {"link", "key", "disconnect"},
         NEW i \in Institutions \cup {None}, NEW want \in ExtraData \cup {None},
         UpsertLookUp(w, rows, at, i, want),
         at # "disconnect" => i \in Institutions /\ want \in ExtraData,
         at = "link" => provider # "stripe" /\ want.session \in Session,
         at = "key" => provider = "stripe" /\ want.token # None
  PROVE  Took(w) /\ asked' = asked /\ bank_accounts' = bank_accounts
<1> DEFINE j == [Idle EXCEPT !.at = at, !.institution = i, !.want = want, !.loaded = Load(rows)]
<1>1. /\ j.at = at /\ j.institution = i /\ j.want = want /\ j.loaded = Load(rows) /\ j.late = {}
      /\ j \in LocalSet
  <2>1. Idle \in LocalSet /\ Load(rows) \in [Rows -> Row \cup {None}]
    BY IdleTyped, LoadType
  <2> QED
    BY <2>1 DEF LocalSet, Step, Idle
<1>2. work' = [work EXCEPT ![w] = j]
  BY DEF UpsertLookUp
<1> HIDE DEF j
<1>3. Locals(j)
  BY <1>1, LoadType
     DEF Locals, LinkLocals, AskLocals, GrantLocals, KeyLocals, SyncLocals, IdleLocals
<1>4. \A c \in Rows : j.loaded[c] \in {None, conn[c]}
  BY <1>1, LoadType
<1> QED
  BY <1>1, <1>2, <1>3, <1>4 DEF Took, Copied, UpsertLookUp

\* A redirect after a consent reads one row, unless it has read it before.
LEMMA CallbackTook ==
  ASSUME Typed, NEW w \in Workers, NEW s \in Session, NEW token \in Token, NEW accounts \in BOOLEAN,
         At(w, "idle") \/ At(w, "ask"),
         provider # "stripe", provider = "tink" => token # None,
         LookUpForCallback(w, s, token, accounts)
  PROVE  Took(w) /\ asked' = asked /\ bank_accounts' = bank_accounts
<1>1. PICK c \in Picked(w, s) :
        work' = [work EXCEPT ![w] =
          [Idle EXCEPT !.at = "grant", !.institution = s[1],
                       !.loaded = [Idle.loaded EXCEPT ![c] = Seen(w, c)],
                       !.want = [NoExtra EXCEPT !.session = s, !.token = token, !.accounts = accounts],
                       !.late = IF c \in Loaded(w) THEN work[w].late ELSE {}]]
  BY DEF LookUpForCallback
<1>2. c \in Rows /\ conn[c] # None
  BY <1>1 DEF Picked, Existing
<1> DEFINE want == [NoExtra EXCEPT !.session = s, !.token = token, !.accounts = accounts]
           copies == [Idle.loaded EXCEPT ![c] = Seen(w, c)]
           late == IF c \in Loaded(w) THEN work[w].late ELSE {}
<1>3. /\ want.session = s /\ want.token = token /\ ~want.needs_reconnect
      /\ want \in ExtraData
  BY DEF NoExtra, ExtraData
<1>4. /\ Seen(w, c) \in Row /\ KnowsSession(Seen(w, c)) /\ KnowsSession(None)
      /\ late \in SUBSET {"consent", "sync"}
      /\ c \in Loaded(w) => Seen(w, c) = work[w].loaded[c]
      /\ c \notin Loaded(w) => Seen(w, c) = conn[c]
  <2>1. /\ conn[c] \in Row /\ work[w].loaded[c] \in Row \cup {None}
        /\ KnowsSession(conn[c]) /\ KnowsSession(work[w].loaded[c])
        /\ work[w].late \in SUBSET {"consent", "sync"}
    BY <1>2 DEF Typed, TypeOK, Locals
  <2> QED
    BY <1>2, <2>1 DEF Seen, Loaded, KnowsSession
<1>5. /\ copies \in [Rows -> Row \cup {None}] /\ copies[c] = Seen(w, c)
      /\ \A d \in Rows \ {c} : copies[d] = None
  BY <1>2, <1>4 DEF Idle
<1> HIDE DEF want, copies, late
<1> DEFINE j == [Idle EXCEPT !.at = "grant", !.institution = s[1], !.loaded = copies, !.want = want,
                             !.late = late]
<1>6. /\ j.at = "grant" /\ j.institution = s[1] /\ j.want = want /\ j.loaded = copies /\ j.late = late
      /\ j \in LocalSet
  <2>1. Idle \in LocalSet /\ s[1] \in Institutions
    BY IdleTyped DEF Session
  <2> QED
    BY <1>3, <1>4, <1>5, <2>1 DEF LocalSet, Step, Idle
<1>7. work' = [work EXCEPT ![w] = j]
  BY <1>1 DEF want, copies, late
<1> HIDE DEF j
<1>8. s[1] \in Institutions
  BY DEF Session
<1>9. Locals(j)
  <2>1. \A d \in Rows : KnowsSession(copies[d]) /\ (copies[d] # None => conn[d] # None)
    BY <1>2, <1>4, <1>5
  <2> QED
    BY <1>3, <1>6, <1>8, <2>1
       DEF Locals, LinkLocals, AskLocals, GrantLocals, KeyLocals, SyncLocals, IdleLocals
<1>10. Copied(w, j)
  <2>1. CASE c \notin Loaded(w)
    BY <1>4, <1>5, <1>6, <2>1 DEF Copied, late
  <2>2. CASE c \in Loaded(w)
    <3>1. work[w].at = "ask" \/ work[w] = Idle \/ work[w].at = "idle"
      BY DEF At
    <3>2. CASE work[w].at = "ask"
      BY <1>4, <1>5, <1>6, <2>2, <3>2 DEF Copied, late
    <3>3. CASE work[w].at = "idle"
      BY <1>2, <2>2, <3>3 DEF Typed, Locals, IdleLocals, Loaded
    <3> QED
      BY <3>1, <3>2, <3>3 DEF At
  <2> QED
    BY <2>1, <2>2
<1> QED
  BY <1>6, <1>7, <1>9, <1>10 DEF Took, LookUpForCallback

\* A redirect with the reference reads a row, and keeps its copy while it asks.
LEMMA ReferenceTook ==
  ASSUME Typed, NEW w \in Workers, RefIsReference(w)
  PROVE  Took(w) /\ asked' = asked /\ bank_accounts' = bank_accounts
<1>1. PICK c \in Existing :
        work' = [work EXCEPT ![w] =
          [Idle EXCEPT !.at = "ask", !.loaded = Load({c}),
                       !.want = [NoExtra EXCEPT !.session = conn[c].extra.session]]]
  BY DEF RefIsReference
<1>2. c \in Rows /\ provider = "gocardless" /\ conn[c].extra.session \in Session
  BY <1>1 DEF Existing, RefIsReference, Typed, KnowsSession
<1> DEFINE want == [NoExtra EXCEPT !.session = conn[c].extra.session]
<1>3. want.session = conn[c].extra.session /\ want \in ExtraData
  BY <1>2 DEF NoExtra, ExtraData, Token
<1> HIDE DEF want
<1> DEFINE j == [Idle EXCEPT !.at = "ask", !.loaded = Load({c}), !.want = want]
<1>4. /\ j.at = "ask" /\ j.want = want /\ j.loaded = Load({c}) /\ j.late = {}
      /\ j \in LocalSet
  <2>1. Idle \in LocalSet /\ Load({c}) \in [Rows -> Row \cup {None}]
    BY <1>2, IdleTyped, LoadType
  <2> QED
    BY <1>3, <2>1 DEF LocalSet, Step, Idle
<1>5. work' = [work EXCEPT ![w] = j]
  BY <1>1 DEF want
<1> HIDE DEF j
<1>6. Locals(j)
  BY <1>2, <1>3, <1>4, LoadType
     DEF Locals, LinkLocals, AskLocals, GrantLocals, KeyLocals, SyncLocals, IdleLocals
<1>7. \A d \in Rows : j.loaded[d] \in {None, conn[d]}
  BY <1>2, <1>4, LoadType
<1> QED
  BY <1>4, <1>5, <1>6, <1>7 DEF Took, Copied, RefIsReference

\* A sync reads the rows that are connected, and decides before it writes.
LEMMA SyncTook ==
  ASSUME Typed, NEW w \in Workers, SyncTransactions(w)
  PROVE  Took(w) /\ UNCHANGED <<bank_accounts, sessions, consents, asked>>
<1> DEFINE rows == {c \in Existing : conn[c].status = "connected"}
<1>1. rows \in SUBSET Rows /\ provider # "stripe"
  BY DEF Existing, SyncTransactions
<1>2. PICK refused \in BOOLEAN, cleared \in SUBSET rows :
        work' = [work EXCEPT ![w] = [Idle EXCEPT !.at = "sync", !.loaded = Load(rows),
                                                 !.refused = refused, !.cleared = cleared]]
  <2>1. PICK order \in SetToSeqs(rows), answer \in [rows -> UNION {Answers(conn[c]) : c \in rows}] :
          LET got(n) == UNION {answer[order[k]] : k \in 1..n}
          IN  work' = [work EXCEPT ![w] =
                [Idle EXCEPT !.at = "sync", !.loaded = Load(rows), !.refused = Refuses(got(Len(order))),
                   !.cleared = {c \in rows : /\ conn[c].extra.needs_reconnect
                                             /\ \E n \in 1..Len(order) : order[n] = c /\ Clears(got(n))}]]
    BY Zenon DEF SyncTransactions
  <2> DEFINE got(n) == UNION {answer[order[k]] : k \in 1..n}
             refused == Refuses(got(Len(order)))
             cleared == {c \in rows : /\ conn[c].extra.needs_reconnect
                                      /\ \E n \in 1..Len(order) : order[n] = c /\ Clears(got(n))}
  <2>2. refused \in BOOLEAN
    BY DEF Refuses
  <2>3. cleared \in SUBSET rows
    OBVIOUS
  <2>4. work' = [work EXCEPT ![w] = [Idle EXCEPT !.at = "sync", !.loaded = Load(rows),
                                                 !.refused = refused, !.cleared = cleared]]
    BY <2>1
  <2> HIDE DEF got, refused, cleared, rows
  <2> QED
    BY <2>2, <2>3, <2>4
<1> DEFINE j == [Idle EXCEPT !.at = "sync", !.loaded = Load(rows),
                             !.refused = refused, !.cleared = cleared]
<1>3. \A c \in rows : conn[c].status = "connected"
  OBVIOUS
<1> HIDE DEF rows
<1>4. /\ j.at = "sync" /\ j.loaded = Load(rows) /\ j.late = {}
      /\ j \in LocalSet
  <2>1. Idle \in LocalSet /\ Load(rows) \in [Rows -> Row \cup {None}] /\ cleared \in SUBSET Rows
    BY <1>1, <1>2, IdleTyped, LoadType
  <2> QED
    BY <1>2, <2>1 DEF LocalSet, Step, Idle
<1>5. work' = [work EXCEPT ![w] = j]
  BY <1>2
<1> HIDE DEF j
<1>6. Locals(j)
  BY <1>1, <1>3, <1>4, LoadType
     DEF Locals, LinkLocals, AskLocals, GrantLocals, KeyLocals, SyncLocals, IdleLocals
<1>7. \A d \in Rows : j.loaded[d] \in {None, conn[d]}
  BY <1>1, <1>4, LoadType
<1> QED
  BY <1>4, <1>5, <1>6, <1>7 DEF Took, Copied, SyncTransactions

\* A handler that ends reads and writes no row.
LEMMA ReturnTook ==
  ASSUME Typed, NEW w \in Workers, Return(w), UNCHANGED <<provider, conn, ghosts>>
  PROVE  Took(w)
<1>1. Idle.at # "refuse" /\ Idle.late = {} /\ \A c \in Rows : Idle.loaded[c] = None
  BY DEF Idle
<1> QED
  BY <1>1, IdleTyped DEF Took, Copied, Return

\* Every handler up to its look-up, and every one that writes no connection.
Reads(w) ==
  \/ \E i \in Institutions :
       \/ TinkCreateLink(w, i) \/ GoCardlessCreateLink(w, i)
       \/ ConnectStripeDirect(w, i) \/ StripeCallback(w, i)
  \/ CompleteAuthorization(w) \/ RefIsSession(w) \/ RefIsReference(w) \/ GetLinkStatus(w)
  \/ CommitAccount(w) \/ SyncTransactions(w) \/ DisconnectStripe(w) \/ Abort(w)

\* A session's counter is bounded, and its key is a token.
LEMMA ReadsTook ==
  ASSUME Typed, NEW w \in Workers, Reads(w)
  PROVE  Took(w) /\ Typed'
<1> USE BoundsAssumption, NoneAssumption
<1>0. /\ sessions \in 0..MaxSessions /\ consents \in 0..MaxConsents
      /\ asked \subseteq Session /\ bank_accounts \subseteq Institutions
      /\ None \notin Nat /\ None \notin Session
  BY DEF Typed, TypeOK
<1>1. ASSUME NEW i \in Institutions, TinkCreateLink(w, i) PROVE Took(w) /\ Typed'
  <2> DEFINE want == [NoExtra EXCEPT !.session = <<i, 0>>]
             rows == {c \in Existing : conn[c].institution = i}
  <2>1. want \in ExtraData /\ want.session \in Session
    <3>1. <<i, 0>> \in Session
      BY DEF Session
    <3> QED
      BY <3>1 DEF NoExtra, ExtraData, Token
  <2>2. UpsertLookUp(w, rows, "link", i, want) /\ provider = "tink" /\ UNCHANGED <<sessions, consents>>
    BY <1>1 DEF TinkCreateLink, CreateBankLink
  <2>3. rows \in SUBSET Rows
    BY DEF Existing
  <2> HIDE DEF want, rows
  <2>4. Took(w) /\ asked' = asked /\ bank_accounts' = bank_accounts
    BY <2>1, <2>2, <2>3, UpsertTook
  <2> QED
    BY <1>0, <2>2, <2>4, TookTyped
<1>2. ASSUME NEW i \in Institutions, GoCardlessCreateLink(w, i) PROVE Took(w) /\ Typed'
  <2> DEFINE want == [NoExtra EXCEPT !.session = <<i, sessions'>>]
             rows == {c \in Existing : conn[c].institution = i}
  <2>0. sessions' \in 0..MaxSessions
    BY <1>0, <1>2 DEF GoCardlessCreateLink
  <2>1. want \in ExtraData /\ want.session \in Session
    BY <2>0 DEF NoExtra, ExtraData, Session, Token
  <2>2. UpsertLookUp(w, rows, "link", i, want) /\ provider = "gocardless" /\ consents' = consents
    BY <1>2 DEF GoCardlessCreateLink, CreateBankLink
  <2>3. rows \in SUBSET Rows
    BY DEF Existing
  <2> HIDE DEF want, rows
  <2>4. Took(w) /\ asked' = asked /\ bank_accounts' = bank_accounts
    BY <2>1, <2>2, <2>3, UpsertTook
  <2> QED
    BY <1>0, <2>0, <2>2, <2>4, TookTyped
<1>3. ASSUME NEW i \in Institutions, ConnectStripeDirect(w, i) \/ StripeCallback(w, i)
      PROVE  Took(w) /\ Typed'
  <2> DEFINE want == [NoExtra EXCEPT !.token = consents']
  <2>0. consents' = consents + 1 /\ consents' \in 1..MaxConsents
    BY <1>0, <1>3 DEF ConnectStripeDirect, StripeCallback
  <2>1. want \in ExtraData /\ want.token # None
    <3>1. consents' \in Token /\ consents' # None
      BY <1>0, <2>0 DEF Token
    <3>2. NoExtra \in ExtraData
      BY DEF NoExtra, ExtraData, Token
    <3> QED
      BY <3>1, <3>2 DEF ExtraData
  <2>2. UpsertLookUp(w, Existing, "key", i, want) /\ provider = "stripe" /\ sessions' = sessions
    BY <1>3 DEF ConnectStripeDirect, StripeCallback
  <2>3. Existing \in SUBSET Rows
    BY DEF Existing
  <2> HIDE DEF want
  <2>4. Took(w) /\ asked' = asked /\ bank_accounts' = bank_accounts
    BY <2>1, <2>2, <2>3, UpsertTook
  <2> QED
    BY <1>0, <2>0, <2>2, <2>4, TookTyped
<1>4. ASSUME NEW s \in Session, NEW token \in Token, NEW accounts \in BOOLEAN,
             At(w, "idle") \/ At(w, "ask"), LookUpForCallback(w, s, token, accounts),
             consents' \in 0..MaxConsents, provider # "stripe", provider = "tink" => token # None
      PROVE  Took(w) /\ Typed'
  <2>1. Took(w) /\ asked' = asked /\ bank_accounts' = bank_accounts
    BY <1>4, CallbackTook
  <2>2. sessions' = sessions
    BY <1>4 DEF LookUpForCallback
  <2> QED
    BY <1>0, <1>4, <2>1, <2>2, TookTyped
<1>5. ASSUME Redirected(w) PROVE At(w, "idle") /\ consents' \in 1..MaxConsents /\ consents' \in 0..MaxConsents
  BY <1>0, <1>5 DEF Redirected
<1>6. CASE CompleteAuthorization(w)
  <2>1. PICK s \in asked, accounts \in BOOLEAN : LookUpForCallback(w, s, consents', accounts)
    BY <1>6 DEF CompleteAuthorization
  <2>2. provider = "tink" /\ consents' # None /\ consents' \in Token
    BY <1>0, <1>5, <1>6 DEF CompleteAuthorization, Token
  <2> QED
    BY <1>0, <1>4, <1>5, <1>6, <2>1, <2>2 DEF CompleteAuthorization
<1>7. CASE RefIsSession(w)
  <2>1. PICK s \in asked, accounts \in BOOLEAN : LookUpForCallback(w, s, None, accounts)
    BY <1>7 DEF RefIsSession
  <2>2. provider = "gocardless" /\ None \in Token
    BY <1>7 DEF RefIsSession, Token
  <2> QED
    BY <1>0, <1>4, <1>5, <1>7, <2>1, <2>2 DEF RefIsSession
<1>8. CASE RefIsReference(w)
  <2>1. Took(w) /\ asked' = asked /\ bank_accounts' = bank_accounts
    BY <1>8, ReferenceTook
  <2>2. sessions' = sessions
    BY <1>8 DEF RefIsReference
  <2> QED
    BY <1>0, <1>5, <1>8, <2>1, <2>2, TookTyped DEF RefIsReference
<1>9. CASE GetLinkStatus(w)
  <2>1. PICK accounts \in BOOLEAN : LookUpForCallback(w, work[w].want.session, None, accounts)
    BY <1>9 DEF GetLinkStatus
  <2>2. provider = "gocardless" /\ work[w].want.session \in Session /\ None \in Token
    BY <1>9 DEF GetLinkStatus, At, Typed, Locals, AskLocals, Token
  <2>3. consents' = consents /\ At(w, "ask")
    BY <1>9 DEF GetLinkStatus
  <2> QED
    BY <1>0, <1>4, <2>1, <2>2, <2>3
<1>10. CASE CommitAccount(w)
  <2>1. work[w].institution \in Institutions
    BY <1>10 DEF CommitAccount, At, Typed, Locals
  <2>2. Took(w)
    BY <1>10, ReturnTook DEF CommitAccount, ghosts
  <2> QED
    BY <1>0, <1>10, <2>1, <2>2, TookTyped DEF CommitAccount
<1>11. CASE SyncTransactions(w)
  <2>1. Took(w) /\ UNCHANGED <<bank_accounts, sessions, consents, asked>>
    BY <1>11, SyncTook
  <2> QED
    BY <1>0, <2>1, TookTyped
<1>12. CASE DisconnectStripe(w)
  <2>1. /\ UpsertLookUp(w, Existing, "disconnect", None, None) /\ UNCHANGED <<sessions, consents>>
        /\ Existing \in SUBSET Rows
    BY <1>12 DEF DisconnectStripe, Existing
  <2>2. Took(w) /\ asked' = asked /\ bank_accounts' = bank_accounts
    BY <2>1, UpsertTook
  <2> QED
    BY <1>0, <2>1, <2>2, TookTyped
<1>13. CASE Abort(w)
  <2>1. Took(w)
    BY <1>13, ReturnTook DEF Abort, ghosts
  <2> QED
    BY <1>0, <1>13, <2>1, TookTyped DEF Abort
<1> QED
  BY <1>1, <1>2, <1>3, <1>6, <1>7, <1>8, <1>9, <1>10, <1>11, <1>12, <1>13 DEF Reads

\* A commit moves its handler on and marks others late; the copies stay.
LEMMA MarkedTyped ==
  ASSUME Typed, NEW w \in Workers, NEW at \in {"idle", "details", "refuse"}, NEW rows,
         NEW kind \in {"consent", "sync"}, work' = Marked(w, at, rows, kind), provider' = provider,
         \A c \in Rows : conn[c] # None => conn'[c] # None,
         at = "details" => work[w].institution \in Institutions,
         at = "refuse" => work[w].at = "sync"
  PROVE  /\ work' \in [Workers -> LocalSet]
         /\ \A v \in Workers : Locals(work[v])'
<1>1. work \in [Workers -> LocalSet] /\ \A v \in Workers : Locals(work[v])
  BY DEF Typed, TypeOK, LocalSet
<1>2. \A v \in Workers :
        work'[v] = IF v = w THEN IF at = "idle" THEN Idle ELSE [work[v] EXCEPT !.at = at]
                   ELSE IF Loaded(v) \cap rows = {} THEN work[v]
                   ELSE [work[v] EXCEPT !.late = work[v].late \cup {kind}]
  BY DEF Marked
<1>3. ASSUME NEW v \in Workers PROVE work'[v] \in LocalSet /\ Locals(work[v])'
  <2>1. CASE v = w /\ at = "idle"
    BY <1>2, <2>1, IdleTyped
       DEF Locals, LinkLocals, AskLocals, GrantLocals, KeyLocals, SyncLocals, IdleLocals, KnowsSession, Idle
  <2>2. CASE v = w /\ at # "idle"
    <3> DEFINE j == [work[w] EXCEPT !.at = at]
    <3>1. work'[v] = j
      BY <1>2, <2>2
    <3>2. /\ j \in LocalSet /\ j.at = at /\ j.loaded = work[w].loaded
          /\ j.institution = work[w].institution
      <4>1. work[w] \in LocalSet /\ at \in Step
        BY <1>1 DEF Step
      <4> QED
        BY <4>1 DEF LocalSet
    <3> HIDE DEF j
    <3>3. Locals(work[w])
      BY <1>1
    <3> QED
      BY <2>2, <3>1, <3>2, <3>3
         DEF Locals, LinkLocals, AskLocals, GrantLocals, KeyLocals, SyncLocals, IdleLocals, KnowsSession
  <2>3. CASE v # w
    <3>1. work'[v] = work[v] \/ work'[v] = [work[v] EXCEPT !.late = work[v].late \cup {kind}]
      BY <1>2, <2>3
    <3>2. /\ work'[v] \in LocalSet
          /\ \/ work'[v] = work[v]
             \/ /\ work'[v].at = work[v].at /\ work'[v].loaded = work[v].loaded
                /\ work'[v].institution = work[v].institution /\ work'[v].want = work[v].want
      BY <1>1, <3>1 DEF LocalSet
    <3> QED
      BY <1>1, <3>2
         DEF Locals, LinkLocals, AskLocals, GrantLocals, KeyLocals, SyncLocals, IdleLocals, KnowsSession
  <2> QED
    BY <2>1, <2>2, <2>3
<1>4. work' \in [Workers -> LocalSet]
  <2>1. work' = [v \in Workers |-> work'[v]]
    BY Zenon DEF Marked
  <2> QED
    BY <1>3, <2>1
<1> QED
  BY <1>3, <1>4

\* What the commit of a consent, or of its end, leaves of its row.
LEMMA ConsentRow ==
  ASSUME Typed, NEW w \in Workers, NEW c \in Rows, NEW want \in Row, NEW anyway,
         NEW at \in {"idle", "details"}, CommitConsent(w, c, want, anyway, at)
  PROVE  \E new \in Row :
           /\ conn' = [conn EXCEPT ![c] = new]
           /\ conn[c] = None => new = want
           /\ conn[c] # None => new = Columns(conn[c], work[w].loaded[c], want, anyway)
           /\ new.extra = want.extra \/ (conn[c] # None /\ new.extra = conn[c].extra)
<1>1. conn \in [Rows -> Row \cup {None}]
  BY DEF Typed, TypeOK
<1>2. conn' = [conn EXCEPT ![c] = IF conn[c] = None THEN want
                                  ELSE Columns(conn[c], work[w].loaded[c], want, anyway)]
  BY DEF CommitConsent
<1>3. CASE conn[c] = None
  BY <1>1, <1>2, <1>3
<1>4. CASE conn[c] # None
  <2> DEFINE wrote == Columns(conn[c], work[w].loaded[c], want, anyway)
  <2>1. Written(conn[c], work[w].loaded[c], want, anyway, wrote)
    BY <1>1, <1>4, ColumnsRow
  <2> HIDE DEF wrote
  <2>2. conn' = [conn EXCEPT ![c] = wrote]
    BY <1>2, <1>4 DEF wrote
  <2>3. conn'[c] = wrote
    BY <1>1, <2>2
  <2> QED
    BY <1>4, <2>1, <2>2, <2>3 DEF wrote, Written
<1> QED
  BY <1>3, <1>4

\* The commit of a consent keeps the rows and their histories well typed.
LEMMA ConsentTyped ==
  ASSUME Typed, NEW w \in Workers, NEW c \in Rows, NEW want \in Row, NEW anyway,
         NEW at \in {"idle", "details"}, CommitConsent(w, c, want, anyway, at),
         at = "details" => work[w].institution \in Institutions, KnowsSession(want),
         UNCHANGED <<provider, bank_accounts, sessions, consents>>, asked' \subseteq Session
  PROVE  Typed'
<1>1. PICK new \in Row :
        /\ conn' = [conn EXCEPT ![c] = new]
        /\ new.extra = want.extra \/ (conn[c] # None /\ new.extra = conn[c].extra)
  BY ConsentRow
<1>2. conn' \in [Rows -> Row \cup {None}] /\ \A d \in Rows : KnowsSession(conn'[d])
  <2>1. conn \in [Rows -> Row \cup {None}] /\ \A d \in Rows : KnowsSession(conn[d])
    BY DEF Typed, TypeOK
  <2>2. KnowsSession(new)
    BY <1>1, <2>1, NoneAssumption DEF KnowsSession
  <2> QED
    BY <1>1, <2>1, <2>2
<1>3. work' \in [Workers -> LocalSet] /\ \A v \in Workers : Locals(work[v])'
  <2>1. \A d \in Rows : conn[d] # None => conn'[d] # None
    BY <1>1, NoneAssumption DEF Typed, TypeOK
  <2> QED
    BY <2>1, MarkedTyped DEF CommitConsent
<1>4. granted' \in [Rows -> Row \cup {None}] /\ mixed' \subseteq Rows /\ raced' \subseteq Rows
  BY DEF CommitConsent, Typed, TypeOK
<1>5. \A d \in Rows : KnowsSession(conn[d])'
  BY <1>2 DEF KnowsSession
<1> QED
  BY <1>2, <1>3, <1>4, <1>5 DEF Typed, TypeOK, LocalSet

\* What the commits of a sync leave of a row, given the copy it has.
Synced(copy, old, new) ==
  /\ copy = None => new = old
  /\ copy # None =>
       /\ new \in Row /\ new.status = old.status /\ new.access_token = old.access_token
       /\ new.extra \in {old.extra, SyncedExtra(copy.extra, TRUE), SyncedExtra(copy.extra, FALSE)}
  /\ old = copy /\ copy # None /\ ~copy.extra.needs_reconnect => new = old

\* What the commit of a sync writes on each row.
LEMMA SyncRows ==
  ASSUME Typed, NEW w \in Workers, CommitSync(w)
  PROVE  \A c \in Rows : Synced(work[w].loaded[c], conn[c], conn'[c])
<1>1. /\ conn \in [Rows -> Row \cup {None}] /\ work[w].loaded \in [Rows -> Row \cup {None}]
      /\ \A c \in Rows : work[w].loaded[c] # None => conn[c] # None
  BY DEF Typed, TypeOK, Locals
<1> DEFINE want(c) == [work[w].loaded[c] EXCEPT !.extra =
                        SyncedExtra(work[w].loaded[c].extra, c \in work[w].cleared)]
<1>2. PICK written \in SUBSET Loaded(w) :
        conn' = [c \in Rows |->
          IF c \notin Loaded(w) THEN conn[c]
          ELSE Columns(conn[c], work[w].loaded[c], want(c), IF c \in written THEN {"extra"} ELSE {})]
  BY DEF CommitSync
<1> SUFFICES ASSUME NEW c \in Rows PROVE Synced(work[w].loaded[c], conn[c], conn'[c])
  OBVIOUS
<1>3. CASE work[w].loaded[c] = None
  BY <1>2, <1>3 DEF Synced, Loaded
<1>4. CASE work[w].loaded[c] # None
  <2> DEFINE copy == work[w].loaded[c]
             old == conn[c]
             anyway == IF c \in written THEN {"extra"} ELSE {}
  <2>1. copy \in Row /\ old \in Row
    BY <1>1, <1>4
  <2>2. conn'[c] = Columns(old, copy, want(c), anyway)
    BY <1>2, <1>4 DEF Loaded
  <2>3. PICK wanted : wanted = want(c)
    OBVIOUS
  <2>4. PICK clear \in BOOLEAN : wanted = [copy EXCEPT !.extra = SyncedExtra(copy.extra, clear)]
    <3>1. (c \in work[w].cleared) \in BOOLEAN
      OBVIOUS
    <3> QED
      BY <2>3, <3>1
  <2> HIDE DEF copy, old, anyway, want
  <2>5. SyncedExtra(copy.extra, clear) \in ExtraData
    BY <2>1 DEF SyncedExtra, Row, ExtraData
  <2>6. /\ wanted \in Row /\ wanted.status = copy.status /\ wanted.access_token = copy.access_token
        /\ wanted.extra = SyncedExtra(copy.extra, clear)
    BY <2>1, <2>4, <2>5 DEF Row
  <2>7. Written(old, copy, wanted, anyway, conn'[c])
    BY <2>1, <2>2, <2>3, <2>6, ColumnsRow
  <2>8. anyway \subseteq {"extra"}
    BY DEF anyway
  <2>9. /\ conn'[c] \in Row /\ conn'[c].status = old.status /\ conn'[c].access_token = old.access_token
        /\ conn'[c].extra \in {old.extra, SyncedExtra(copy.extra, TRUE), SyncedExtra(copy.extra, FALSE)}
    BY <2>6, <2>7, <2>8 DEF Written
  <2>10. ASSUME old = copy, ~copy.extra.needs_reconnect PROVE conn'[c] = old
    <3>1. SyncedExtra(copy.extra, clear) = copy.extra
      <4>1. copy.extra \in ExtraData /\ (copy.extra.needs_reconnect /\ ~clear) = copy.extra.needs_reconnect
        BY <2>1, <2>10 DEF Row, ExtraData
      <4>2. [copy.extra EXCEPT !.needs_reconnect = copy.extra.needs_reconnect] = copy.extra
        BY <4>1 DEF ExtraData
      <4> QED
        BY <4>1, <4>2, Zenon DEF SyncedExtra
    <3>2. [copy EXCEPT !.extra = copy.extra] = copy
      BY <2>1 DEF Row
    <3>3. wanted = copy
      BY <2>4, <3>1, <3>2
    <3> QED
      BY <2>1, <2>2, <2>3, <2>10, <3>3, ColumnsOfCurrent
  <2> QED
    BY <1>4, <2>9, <2>10 DEF Synced, copy, old
<1> QED
  BY <1>3, <1>4

\* A refused row's status is always written: it was read as connected.
RefusedTo(copy, old, new) ==
  /\ copy = None => new = old
  /\ copy # None => new \in Row /\ new.status = "needs_reconnect"
                    /\ new.access_token = old.access_token
                    /\ new.extra = Refused(copy).extra

\* What the commit of a sync that was refused writes on each row.
LEMMA RefusedRows ==
  ASSUME Typed, NEW w \in Workers, CommitRefusal(w)
  PROVE  \A c \in Rows : RefusedTo(work[w].loaded[c], conn[c], conn'[c])
<1>1. /\ conn \in [Rows -> Row \cup {None}] /\ work[w].loaded \in [Rows -> Row \cup {None}]
      /\ \A c \in Rows : work[w].loaded[c] # None =>
           conn[c] # None /\ work[w].loaded[c].status = "connected"
  BY DEF Typed, TypeOK, Locals, SyncLocals, CommitRefusal, At
<1> SUFFICES ASSUME NEW c \in Rows PROVE RefusedTo(work[w].loaded[c], conn[c], conn'[c])
  OBVIOUS
<1>2. conn'[c] = IF work[w].loaded[c] = None THEN conn[c]
                 ELSE Columns(conn[c], work[w].loaded[c], Refused(work[w].loaded[c]), {"extra"})
  BY DEF CommitRefusal, Loaded
<1>3. CASE work[w].loaded[c] = None
  BY <1>2, <1>3 DEF RefusedTo
<1>4. CASE work[w].loaded[c] # None
  <2> DEFINE copy == work[w].loaded[c]
             want == Refused(copy)
  <2>1. copy \in Row /\ conn[c] \in Row /\ copy.status = "connected"
    BY <1>1, <1>4
  <2> HIDE DEF copy
  <2>2. /\ want \in Row /\ want.status = "needs_reconnect" /\ want.access_token = copy.access_token
    BY <2>1 DEF Refused, Row, ExtraData, Status, Token
  <2> HIDE DEF want
  <2>3. Written(conn[c], copy, want, {"extra"}, conn'[c])
    BY <1>2, <1>4, <2>1, <2>2, ColumnsRow DEF copy, want
  <2>4. /\ conn'[c] \in Row /\ conn'[c].status = "needs_reconnect"
        /\ conn'[c].access_token = conn[c].access_token /\ conn'[c].extra = want.extra
    BY <2>1, <2>2, <2>3 DEF Written
  <2> QED
    BY <1>4, <2>4 DEF RefusedTo, copy, want
<1> QED
  BY <1>3, <1>4

\* The commit of a consent or its end, with what its handler knows of it: it
\* has the row it writes, and what it calls connected can be used.
Consenting(w, c, want, anyway, at) ==
  /\ CommitConsent(w, c, want, anyway, at)
  /\ c \in Rows /\ want \in Row /\ at \in {"idle", "details"}
  /\ work[w].at \in Writing \ {"refuse"}
  /\ conn[c] # None => work[w].loaded[c] # None
  /\ at = "details" => work[w].institution \in Institutions
  /\ KnowsSession(want)
  /\ want.status = "connected" =>
       Usable(want) /\ ~want.extra.needs_reconnect /\ (provider # "stripe" => "extra" \in anyway)
  /\ UNCHANGED <<provider, bank_accounts, sessions, consents>>
  /\ asked' \subseteq Session

Commits(w) == CommitLink(w) \/ CommitCallback(w) \/ CommitKey(w) \/ CommitDisconnect(w)

\* Each commit of a consent is that of one row, of a session it may name.
LEMMA CommitsConsent ==
  ASSUME Typed, NEW w \in Workers, Commits(w)
  PROVE  \E c, want, anyway, at : Consenting(w, c, want, anyway, at)
<1> DEFINE j == work[w]
<1>0. /\ \A c \in Rows : conn[c] \in Row \cup {None} /\ j.loaded[c] \in Row \cup {None}
      /\ Locals(j) /\ asked \subseteq Session
      /\ \A c \in Rows : KnowsSession(j.loaded[c]) /\ KnowsSession(conn[c])
  BY DEF Typed, TypeOK, Locals
<1>1. \A c \in Rows : c \in Loaded(w) <=> j.loaded[c] # None
  BY DEF Loaded
<1>2. CASE CommitLink(w)
  <2> DEFINE s == j.want.session
  <2>1. PICK c \in Rows, anyway \in SUBSET {"extra"} :
          /\ Target(w, c)
          /\ CommitConsent(w, c,
                IF Loaded(w) = {} THEN NewRow(j.institution, "pending", None, LinkExtra(NoExtra, s))
                ELSE [j.loaded[c] EXCEPT !.status = "pending", !.extra = LinkExtra(j.loaded[c].extra, s)],
                anyway, "idle")
    BY <1>2 DEF CommitLink
  <2> DEFINE want == IF Loaded(w) = {} THEN NewRow(j.institution, "pending", None, LinkExtra(NoExtra, s))
                     ELSE [j.loaded[c] EXCEPT !.status = "pending", !.extra = LinkExtra(j.loaded[c].extra, s)]
  <2>2. s \in Session /\ j.institution \in Institutions /\ j.at = "link"
    BY <1>0, <1>2 DEF CommitLink, At, Locals, LinkLocals
  <2>3. conn[c] # None => j.loaded[c] # None
    BY <1>1, <2>1 DEF Target, Fresh
  <2>4. want \in Row /\ want.status = "pending" /\ want.extra.session \in Session
    <3>1. CASE Loaded(w) = {}
      <4>1. LinkExtra(NoExtra, s) \in ExtraData /\ LinkExtra(NoExtra, s).session = s
        BY <2>2 DEF LinkExtra, NoExtra, ExtraData, Token
      <4> QED
        BY <2>2, <3>1, <4>1 DEF NewRow, Row, Status, Token
    <3>2. CASE Loaded(w) # {}
      <4>1. j.loaded[c] \in Row
        BY <1>0, <1>1, <2>1, <3>2 DEF Target
      <4> HIDE DEF j, s
      <4>2. LinkExtra(j.loaded[c].extra, s) \in ExtraData /\ LinkExtra(j.loaded[c].extra, s).session = s
        BY <2>2, <4>1 DEF LinkExtra, Row, ExtraData
      <4>3. PICK extra \in ExtraData :
              /\ extra = LinkExtra(j.loaded[c].extra, s)
              /\ want = [j.loaded[c] EXCEPT !.status = "pending", !.extra = extra]
        BY <3>2, <4>2
      <4> HIDE DEF want
      <4> QED
        BY <2>2, <4>1, <4>2, <4>3 DEF Row, Status
    <3> QED
      BY <3>1, <3>2
  <2>5. CommitConsent(w, c, want, anyway, "idle")
    BY <2>1
  <2> HIDE DEF want
  <2>6. asked' \subseteq Session /\ UNCHANGED <<provider, bank_accounts, sessions, consents>>
    BY <1>0, <1>2, <2>2 DEF CommitLink
  <2>7. Consenting(w, c, want, anyway, "idle")
    BY <2>2, <2>3, <2>4, <2>5, <2>6 DEF Consenting, KnowsSession, Writing
  <2> QED
    BY <2>7
<1>3. CASE CommitCallback(w)
  <2> DEFINE want(c) ==
        [j.loaded[c] EXCEPT !.status = StatusOf(j.want.accounts), !.institution = j.institution,
                            !.extra = Granted(j.loaded[c].extra, j.want)]
             at == IF j.want.accounts THEN "details" ELSE "idle"
  <2>1. PICK c \in Loaded(w) : CommitConsent(w, c, want(c), {"extra"}, at)
    BY <1>3 DEF CommitCallback
  <2>2. /\ j.want \in ExtraData /\ j.want.session \in Session /\ j.institution \in Institutions
        /\ ~j.want.needs_reconnect /\ j.at = "grant" /\ provider # "stripe"
        /\ provider = "tink" => j.want.token # None
    BY <1>0, <1>3 DEF CommitCallback, At, Locals, GrantLocals
  <2>3. c \in Rows /\ j.loaded[c] \in Row
    BY <1>0, <2>1 DEF Loaded
  <2> HIDE DEF j
  <2>4. /\ Granted(j.loaded[c].extra, j.want) \in ExtraData
        /\ Granted(j.loaded[c].extra, j.want).session = j.want.session
        /\ Granted(j.loaded[c].extra, j.want).accounts = j.want.accounts
        /\ ~Granted(j.loaded[c].extra, j.want).needs_reconnect
        /\ provider = "tink" => Granted(j.loaded[c].extra, j.want).token # None
    BY <2>2, <2>3 DEF Granted, ExtraData, Row
  <2>5. /\ want(c) \in Row /\ want(c).extra = Granted(j.loaded[c].extra, j.want)
        /\ want(c).status = StatusOf(j.want.accounts)
    BY <2>2, <2>3, <2>4 DEF Row, StatusOf, Status
  <2>6. want(c).status = "connected" => j.want.accounts
    BY <2>5 DEF StatusOf
  <2>7. UNCHANGED <<provider, bank_accounts, sessions, consents>> /\ asked' \subseteq Session
    BY <1>0, <1>3 DEF CommitCallback
  <2>8. j.loaded[c] # None /\ want(c) # None
    BY <2>3, <2>5, NoneAssumption
  <2>9. PICK wanted : wanted = want(c)
    OBVIOUS
  <2>10. PICK next \in {"idle", "details"} : next = at
    OBVIOUS
  <2> HIDE DEF want, at
  <2>11. Consenting(w, c, wanted, {"extra"}, next)
    BY <2>1, <2>2, <2>3, <2>4, <2>5, <2>6, <2>7, <2>8, <2>9, <2>10
       DEF Consenting, KnowsSession, Writing, Usable, j
  <2> QED
    BY <2>11
<1>4. CASE CommitKey(w)
  <2> DEFINE want == NewRow(j.institution, "connected", j.want.token, NoExtra)
  <2>1. PICK c \in Rows : Target(w, c) /\ CommitConsent(w, c, want, {}, "idle")
    BY <1>4 DEF CommitKey
  <2>2. /\ provider = "stripe" /\ j.institution \in Institutions /\ j.at = "key"
        /\ j.want \in ExtraData /\ j.want.token # None
    BY <1>0, <1>4 DEF CommitKey, At, Locals, KeyLocals
  <2>3. conn[c] # None => j.loaded[c] # None
    BY <1>1, <2>1 DEF Target, Fresh
  <2> HIDE DEF j
  <2>4. /\ want \in Row /\ want.access_token = j.want.token /\ ~want.extra.needs_reconnect
    BY <2>2 DEF NewRow, Row, NoExtra, ExtraData, Token, Status
  <2> HIDE DEF want
  <2>5. UNCHANGED <<provider, bank_accounts, sessions, consents>> /\ asked' \subseteq Session
    BY <1>0, <1>4 DEF CommitKey
  <2>6. Consenting(w, c, want, {}, "idle")
    BY <2>1, <2>2, <2>3, <2>4, <2>5 DEF Consenting, KnowsSession, Writing, Usable, j
  <2> QED
    BY <2>6
<1>5. CASE CommitDisconnect(w)
  <2> DEFINE want(c) == [j.loaded[c] EXCEPT !.status = "disconnected", !.access_token = None]
  <2>1. PICK c \in Loaded(w) : CommitConsent(w, c, want(c), {}, "idle")
    BY <1>5 DEF CommitDisconnect
  <2>2. c \in Rows /\ j.loaded[c] \in Row /\ j.at = "disconnect"
    BY <1>0, <1>5, <2>1 DEF Loaded, CommitDisconnect, At
  <2>3. KnowsSession(j.loaded[c]) /\ j.loaded[c] # None
    BY <1>0, <2>2, NoneAssumption
  <2> HIDE DEF j
  <2>4. /\ want(c) \in Row /\ want(c).status = "disconnected" /\ want(c).extra = j.loaded[c].extra
    BY <2>2 DEF Row, Status, Token
  <2>5. UNCHANGED <<provider, bank_accounts, sessions, consents>> /\ asked' \subseteq Session
    BY <1>0, <1>5 DEF CommitDisconnect
  <2>6. PICK wanted : wanted = want(c)
    OBVIOUS
  <2> HIDE DEF want
  <2>7. Consenting(w, c, wanted, {}, "idle")
    BY <2>1, <2>2, <2>3, <2>4, <2>5, <2>6 DEF Consenting, KnowsSession, Writing, j
  <2> QED
    BY <2>7
<1> QED
  BY <1>2, <1>3, <1>4, <1>5 DEF Commits

\* A step of a handler reads, or commits a consent, a sync or a refusal.
LEMMA Steps ==
  ASSUME NEW w \in Workers, Handler(w)
  PROVE  Reads(w) \/ Commits(w) \/ CommitSync(w) \/ CommitRefusal(w)
BY DEF Handler, Reads, Commits

\* Every step of a handler keeps the state well typed.
LEMMA HandlerTyped ==
  ASSUME Typed, NEW w \in Workers, Handler(w)
  PROVE  Typed'
<1>1. CASE Reads(w)
  BY <1>1, ReadsTook
<1>2. CASE Commits(w)
  <2>1. PICK c, want, anyway, at : Consenting(w, c, want, anyway, at)
    BY <1>2, CommitsConsent
  <2> QED
    BY <2>1, ConsentTyped DEF Consenting
<1>3. ASSUME CommitSync(w) \/ CommitRefusal(w) PROVE Typed'
  <2>0. /\ conn \in [Rows -> Row \cup {None}] /\ work[w].loaded \in [Rows -> Row \cup {None}]
        /\ \A c \in Rows : work[w].loaded[c] # None => conn[c] # None
        /\ \A c \in Rows : KnowsSession(conn[c]) /\ KnowsSession(work[w].loaded[c])
    BY DEF Typed, TypeOK, Locals
  <2>1. UNCHANGED <<provider, bank_accounts, sessions, consents, asked, raced>>
    BY <1>3 DEF CommitSync, CommitRefusal
  <2>2. \A c \in Rows : \/ conn'[c] = conn[c]
                        \/ /\ work[w].loaded[c] # None /\ conn[c] # None /\ conn'[c] \in Row
                           /\ conn'[c].extra.session \in {conn[c].extra.session,
                                                          work[w].loaded[c].extra.session}
    <3>1. CASE CommitSync(w)
      <4>1. SUFFICES ASSUME NEW c \in Rows, work[w].loaded[c] # None
                     PROVE  /\ conn[c] # None /\ conn'[c] \in Row
                            /\ conn'[c].extra.session \in {conn[c].extra.session,
                                                           work[w].loaded[c].extra.session}
        BY <3>1, SyncRows DEF Synced
      <4>2. /\ conn'[c] \in Row
            /\ \/ conn'[c].extra = conn[c].extra
               \/ \E clear \in BOOLEAN : conn'[c].extra = SyncedExtra(work[w].loaded[c].extra, clear)
        BY <3>1, <4>1, SyncRows DEF Synced
      <4>3. work[w].loaded[c].extra \in ExtraData
        BY <2>0, <4>1 DEF Row
      <4>4. \A clear \in BOOLEAN :
              SyncedExtra(work[w].loaded[c].extra, clear).session = work[w].loaded[c].extra.session
        BY <4>3 DEF SyncedExtra, ExtraData
      <4> QED
        BY <2>0, <4>1, <4>2, <4>4
    <3>2. CASE CommitRefusal(w)
      <4>1. SUFFICES ASSUME NEW c \in Rows, work[w].loaded[c] # None
                     PROVE  /\ conn[c] # None /\ conn'[c] \in Row
                            /\ conn'[c].extra.session \in {conn[c].extra.session,
                                                           work[w].loaded[c].extra.session}
        BY <3>2, RefusedRows DEF RefusedTo
      <4>2. conn'[c] \in Row /\ conn'[c].extra = Refused(work[w].loaded[c]).extra
        BY <3>2, <4>1, RefusedRows DEF RefusedTo
      <4>3. work[w].loaded[c] \in Row
        BY <2>0, <4>1
      <4>4. Refused(work[w].loaded[c]).extra.session = work[w].loaded[c].extra.session
        BY <4>3 DEF Refused, Row, ExtraData
      <4> QED
        BY <2>0, <4>1, <4>2, <4>4
    <3> QED
      BY <1>3, <3>1, <3>2
  <2>3. conn' \in [Rows -> Row \cup {None}]
    <3>1. conn' = [c \in Rows |-> conn'[c]]
      BY <1>3, Zenon DEF CommitSync, CommitRefusal
    <3>2. \A c \in Rows : conn'[c] \in Row \cup {None}
      BY <2>0, <2>2
    <3> QED
      BY <3>1, <3>2
  <2>4. \A c \in Rows : KnowsSession(conn'[c])
    BY <2>0, <2>2 DEF KnowsSession
  <2>5. work' \in [Workers -> LocalSet] /\ \A v \in Workers : Locals(work[v])'
    <3>1. \A c \in Rows : conn[c] # None => conn'[c] # None
      BY <2>2, NoneAssumption
    <3>2. CASE CommitSync(w)
      <4>1. PICK at \in {"idle", "refuse"} : work' = Marked(w, at, Loaded(w), "sync")
        BY <3>2 DEF CommitSync
      <4>2. work[w].at = "sync"
        BY <3>2 DEF CommitSync, At
      <4> QED
        BY <2>1, <3>1, <4>1, <4>2, MarkedTyped
    <3>3. CASE CommitRefusal(w)
      <4>1. work' = Marked(w, "idle", Loaded(w), "sync")
        BY <3>3 DEF CommitRefusal
      <4> QED
        BY <2>1, <3>1, <4>1, MarkedTyped
    <3> QED
      BY <1>3, <3>2, <3>3
  <2>6. granted' \in [Rows -> Row \cup {None}] /\ mixed' \subseteq Rows
    BY <1>3 DEF CommitSync, CommitRefusal, Loaded, Typed, TypeOK
  <2>7. \A c \in Rows : KnowsSession(conn[c])'
    BY <2>1, <2>4 DEF KnowsSession
  <2> QED
    BY <2>1, <2>3, <2>5, <2>6, <2>7 DEF Typed, TypeOK, LocalSet
<1> QED
  BY <1>1, <1>2, <1>3, Steps

\* Typed holds in every reachable state.
LEMMA AlwaysTyped == Spec => []Typed
<1>1. Init => Typed
  BY InitTyped
<1>2. Typed /\ [Next]_vars => Typed'
  <2> SUFFICES ASSUME Typed, [Next]_vars PROVE Typed'
    OBVIOUS
  <2>1. CASE Next
    BY <2>1, HandlerTyped DEF Next
  <2>2. CASE UNCHANGED vars
    BY <2>2
       DEF vars, Typed, TypeOK, Locals, LinkLocals, AskLocals, GrantLocals, KeyLocals, SyncLocals, IdleLocals, KnowsSession
  <2> QED
    BY <2>1, <2>2
<1> QED
  BY <1>1, <1>2, PTL DEF Spec

\* Rows, copies and sessions keep their types whatever overlaps: a redirect
\* never finds a connection without the session that the provider is asked for.
THEOREM TypeCorrect == Spec => []TypeOK
<1>1. Typed => TypeOK
  BY DEF Typed
<1> QED
  BY <1>1, AlwaysTyped, PTL

(***************************************************************************)
(* Safety                                                                    *)
(***************************************************************************)
Inv == CopiesInv /\ ConsentInv /\ UseInv

\* The initial state satisfies the inductive invariant.
LEMMA InitSafe == Init => Inv
<1> SUFFICES ASSUME Init PROVE Inv
  OBVIOUS
<1>1. \A w \in Workers : work[w] = Idle
  BY DEF Init
<1>2. CopiesInv /\ \A w \in Workers : AsksUsable(work[w])
  BY <1>1 DEF CopiesInv, Current, SyncedOnly, AsksUsable, Idle, Writing
<1>3. \A c \in Rows : conn[c] = None /\ granted[c] = None
  BY DEF Init
<1> QED
  BY <1>2, <1>3 DEF Inv, ConsentInv, UseInv, GrantedClean, LastConsentStands, RowUsable

\* A copy just taken is the row.
LEMMA ReadsSafe ==
  ASSUME Typed, Inv, NEW w \in Workers, Reads(w)
  PROVE  Inv'
<1>0. Took(w)
  BY ReadsTook
<1>1. PICK j \in LocalSet :
        /\ work' = [work EXCEPT ![w] = j]
        /\ Locals(j) /\ j.at # "refuse" /\ Copied(w, j)
  BY <1>0 DEF Took
<1>2. \A v \in Workers : work'[v] = IF v = w THEN j ELSE work[v]
  BY <1>1 DEF Typed, TypeOK
<1>3. /\ provider' = provider /\ conn' = conn /\ granted' = granted
      /\ mixed' = mixed /\ raced' = raced
  BY <1>0 DEF Took, ghosts
<1>4. CopiesInv'
  <2>1. Current(j) /\ SyncedOnly(j)
    <3>1. CASE j.late = {} /\ \A c \in Rows : j.loaded[c] \in {None, conn[c]}
      BY <3>1 DEF Current, SyncedOnly
    <3>2. CASE /\ work[w].at = "ask" /\ j.at = "grant" /\ j.late = work[w].late
               /\ \A c \in Rows : j.loaded[c] \in {None, work[w].loaded[c]}
      <4>1. Current(work[w]) /\ SyncedOnly(work[w])
        BY DEF Inv, CopiesInv
      <4> QED
        BY <3>2, <4>1 DEF Current, SyncedOnly, Writing
    <3> QED
      BY <1>1, <3>1, <3>2 DEF Copied
  <2>2. \A v \in Workers : Current(work'[v]) /\ SyncedOnly(work'[v])
    BY <1>2, <2>1 DEF Inv, CopiesInv
  <2> QED
    BY <1>3, <2>2 DEF CopiesInv, Current, SyncedOnly
<1>5. ConsentInv'
  BY <1>3 DEF Inv, ConsentInv, GrantedClean, LastConsentStands
<1>6. UseInv'
  <2>1. AsksUsable(j)
    <3> SUFFICES ASSUME j.at = "sync", NEW c \in Rows \ raced, j.loaded[c] # None
                 PROVE  Usable(j.loaded[c])
      BY <1>1 DEF AsksUsable
    <3>1. j.loaded[c] = conn[c] /\ conn[c].status = "connected"
      BY <1>1 DEF Copied, Locals, SyncLocals
    <3> QED
      BY <3>1 DEF Inv, UseInv, RowUsable
  <2>2. \A v \in Workers : AsksUsable(work'[v])
    BY <1>2, <2>1 DEF Inv, UseInv
  <2>3. (\A v \in Workers : AsksUsable(work[v]))'
    BY <1>3, <2>2 DEF AsksUsable, Usable
  <2>4. RowUsable'
    BY <1>3 DEF Inv, UseInv, RowUsable, Usable
  <2> QED
    BY <2>3, <2>4 DEF UseInv
<1> QED
  BY <1>4, <1>5, <1>6 DEF Inv

\* What a consent that was not raced leaves of its row is what its handler
\* wants, in the status and the key; and the whole of it if nothing was written.
LEMMA ConsentWrites ==
  ASSUME Typed, Inv, NEW w \in Workers, NEW c, NEW want, NEW anyway, NEW at,
         Consenting(w, c, want, anyway, at)
  PROVE  \E new \in Row :
           /\ conn' = [conn EXCEPT ![c] = new]
           /\ work[w].late = {} => new = want
           /\ "consent" \notin work[w].late =>
                /\ new.status \in {want.status, "needs_reconnect"}
                /\ new.access_token = want.access_token
                /\ "extra" \in anyway => new.extra = want.extra
<1>0. /\ c \in Rows /\ want \in Row /\ at \in {"idle", "details"} /\ CommitConsent(w, c, want, anyway, at)
      /\ work[w].at \in Writing \ {"refuse"}
      /\ conn[c] # None => work[w].loaded[c] # None
  BY DEF Consenting
<1>1. PICK new \in Row :
        /\ conn' = [conn EXCEPT ![c] = new]
        /\ conn[c] = None => new = want
        /\ conn[c] # None => new = Columns(conn[c], work[w].loaded[c], want, anyway)
  BY <1>0, ConsentRow
<1>2. CASE conn[c] = None
  BY <1>1, <1>2
<1>3. CASE conn[c] # None
  <2>1. conn[c] \in Row /\ work[w].loaded[c] # None
    BY <1>0, <1>3 DEF Typed, TypeOK
  <2>2. ASSUME work[w].late = {} PROVE new = want
    <3>1. conn[c] = work[w].loaded[c]
      BY <1>0, <2>1, <2>2 DEF Inv, CopiesInv, Current
    <3> QED
      BY <1>0, <1>1, <1>3, <2>1, <3>1, ColumnsOfCurrent
  <2>3. Written(conn[c], work[w].loaded[c], want, anyway, new)
    BY <1>0, <1>1, <1>3, <2>1, ColumnsRow
  <2>4. ASSUME "consent" \notin work[w].late
        PROVE  /\ new.status \in {want.status, "needs_reconnect"}
               /\ new.access_token = want.access_token
               /\ "extra" \in anyway => new.extra = want.extra
    <3>1. /\ conn[c].access_token = work[w].loaded[c].access_token
          /\ conn[c].status \in {work[w].loaded[c].status, "needs_reconnect"}
      BY <1>0, <2>1, <2>4 DEF Inv, CopiesInv, SyncedOnly
    <3> QED
      BY <2>3, <3>1 DEF Written
  <2> QED
    BY <1>1, <2>2, <2>4
<1> QED
  BY <1>2, <1>3

\* After a commit no other handler with a copy of the rows thinks it current.
LEMMA MarkedCopies ==
  ASSUME Typed, CopiesInv, NEW w \in Workers, NEW at \in {"idle", "details", "refuse"},
         NEW rows \in SUBSET Rows, NEW kind \in {"consent", "sync"},
         work' = Marked(w, at, rows, kind), provider' = provider,
         \A c \in Rows : conn[c] # None => conn'[c] # None,
         at = "details" => work[w].institution \in Institutions,
         at = "refuse" => work[w].at = "sync" /\ kind = "sync",
         \A c \in Rows \ rows : conn'[c] = conn[c],
         kind = "sync" => \A c \in Rows : conn[c] # None =>
           /\ conn'[c].access_token = conn[c].access_token
           /\ conn'[c].status \in {conn[c].status, "needs_reconnect"}
  PROVE  CopiesInv'
<1>1. \A v \in Workers : work[v] \in LocalSet /\ Locals(work[v])
  BY DEF Typed, TypeOK, LocalSet
<1>2. /\ at = "idle" => work'[w] = Idle
      /\ at # "idle" => work'[w] = [work[w] EXCEPT !.at = at]
      /\ \A v \in Workers \ {w} :
           work'[v] = IF Loaded(v) \cap rows = {} THEN work[v]
                      ELSE [work[v] EXCEPT !.late = work[v].late \cup {kind}]
  BY DEF Marked
<1>3. ASSUME NEW v \in Workers PROVE Current(work[v])' /\ SyncedOnly(work[v])'
  <2>1. CASE v = w /\ at \in {"idle", "details"}
    <3>1. work'[v].at = at
      BY <1>1, <1>2, <2>1 DEF Idle, LocalSet
    <3> QED
      BY <2>1, <3>1 DEF Current, SyncedOnly, Writing
  <2>2. CASE v = w /\ at = "refuse"
    <3>1. /\ work'[v].at = "refuse" /\ work'[v].late = work[v].late
          /\ work'[v].loaded = work[v].loaded /\ work[v].at = "sync"
      BY <1>1, <1>2, <2>2 DEF LocalSet
    <3>2. \A c \in Rows : work[v].loaded[c] # None => conn[c] # None
      BY <1>1 DEF Locals
    <3>3. SyncedOnly(work[v])
      BY DEF CopiesInv
    <3> QED
      BY <2>2, <3>1, <3>2, <3>3 DEF Current, SyncedOnly, Writing
  <2>3. CASE v # w
    <3>1. /\ work'[v].at = work[v].at /\ work'[v].loaded = work[v].loaded
          /\ work'[v].late = IF Loaded(v) \cap rows = {} THEN work[v].late
                             ELSE work[v].late \cup {kind}
      <4>1. CASE Loaded(v) \cap rows = {}
        BY <1>2, <2>3, <4>1
      <4>2. CASE Loaded(v) \cap rows # {}
        <5>1. work'[v] = [work[v] EXCEPT !.late = work[v].late \cup {kind}]
          BY <1>2, <2>3, <4>2
        <5> QED
          BY <1>1, <4>2, <5>1 DEF LocalSet
      <4> QED
        BY <4>1, <4>2
    <3>2. \A c \in Rows : work[v].loaded[c] # None =>
            /\ conn[c] # None
            /\ conn'[c] = conn[c] \/ kind \in work'[v].late
      BY <1>1, <3>1 DEF Locals, Loaded
    <3>3. Current(work[v]) /\ SyncedOnly(work[v])
      BY DEF CopiesInv
    <3>4. Current(work[v])'
      BY <3>1, <3>2, <3>3 DEF Current
    <3>5. SyncedOnly(work[v])'
      <4> SUFFICES ASSUME work[v].at \in Writing, "consent" \notin work'[v].late,
                          NEW c \in Rows, work[v].loaded[c] # None
                   PROVE  /\ conn'[c].access_token = work[v].loaded[c].access_token
                          /\ conn'[c].status \in {work[v].loaded[c].status, "needs_reconnect"}
        BY <3>1 DEF SyncedOnly
      <4>1. /\ conn[c].access_token = work[v].loaded[c].access_token
            /\ conn[c].status \in {work[v].loaded[c].status, "needs_reconnect"}
        BY <3>1, <3>3 DEF SyncedOnly
      <4> QED
        BY <3>2, <4>1
    <3> QED
      BY <3>4, <3>5
  <2> QED
    BY <2>1, <2>2, <2>3
<1> QED
  BY <1>3 DEF CopiesInv

\* A consent keeps what is known of rows and copies.
LEMMA ConsentSafe ==
  ASSUME Typed, Inv, NEW w \in Workers, NEW c, NEW want, NEW anyway, NEW at,
         Consenting(w, c, want, anyway, at)
  PROVE  Inv'
<1>0. /\ c \in Rows /\ want \in Row /\ at \in {"idle", "details"} /\ CommitConsent(w, c, want, anyway, at)
      /\ provider' = provider
      /\ at = "details" => work[w].institution \in Institutions
      /\ want.status = "connected" =>
           Usable(want) /\ ~want.extra.needs_reconnect /\ (provider # "stripe" => "extra" \in anyway)
  BY DEF Consenting
<1>1. PICK new \in Row :
        /\ conn' = [conn EXCEPT ![c] = new]
        /\ work[w].late = {} => new = want
        /\ "consent" \notin work[w].late =>
             /\ new.status \in {want.status, "needs_reconnect"}
             /\ new.access_token = want.access_token
             /\ "extra" \in anyway => new.extra = want.extra
  BY ConsentWrites
<1>2. /\ conn \in [Rows -> Row \cup {None}] /\ granted \in [Rows -> Row \cup {None}]
      /\ work \in [Workers -> LocalSet]
  BY DEF Typed, TypeOK, LocalSet
<1>3. \A d \in Rows : conn'[d] = IF d = c THEN new ELSE conn[d]
  BY <1>1, <1>2
<1>4. /\ \A d \in Rows : granted'[d] =
           IF d # c THEN granted[d]
           ELSE IF want.status = "connected" /\ work[w].late = {} THEN want ELSE None
      /\ mixed' = IF work[w].late = {} THEN mixed \ {c} ELSE mixed \cup {c}
      /\ raced' = IF "consent" \in work[w].late THEN raced \cup {c} ELSE raced
      /\ work' = Marked(w, at, {c}, "consent")
  BY <1>0, <1>2 DEF CommitConsent
<1>5. CopiesInv'
  <2>1. \A d \in Rows : conn[d] # None => conn'[d] # None
    BY <1>3, NoneAssumption
  <2>2. \A d \in Rows \ {c} : conn'[d] = conn[d]
    BY <1>3
  <2> QED
    BY <1>0, <1>4, <2>1, <2>2, MarkedCopies DEF Inv
<1>6. ConsentInv'
  <2>1. GrantedClean'
    BY <1>0, <1>4, NoneAssumption DEF Inv, ConsentInv, GrantedClean
  <2>2. ASSUME NEW d \in Rows \ mixed', conn'[d] # None
        PROVE  IF conn'[d].status = "connected" THEN conn'[d] = granted'[d] ELSE granted'[d] = None
    <3>1. CASE d = c
      <4>1. work[w].late = {} /\ new = want
        BY <1>1, <1>4, <2>2, <3>1
      <4> QED
        BY <1>3, <1>4, <3>1, <4>1
    <3>2. CASE d # c
      <4>1. d \notin mixed
        BY <1>4, <2>2, <3>2
      <4> QED
        BY <1>3, <1>4, <2>2, <3>2, <4>1 DEF Inv, ConsentInv, LastConsentStands
    <3> QED
      BY <3>1, <3>2
  <2> QED
    BY <2>1, <2>2 DEF ConsentInv, LastConsentStands
<1>7. UseInv'
  <2>1. RowUsable'
    <3> SUFFICES ASSUME NEW d \in Rows \ raced', conn'[d] # None, conn'[d].status = "connected"
                 PROVE  Usable(conn'[d])
      BY <1>0 DEF RowUsable, Usable
    <3>1. CASE d = c
      <4>1. "consent" \notin work[w].late
        BY <1>4, <3>1
      <4>2. /\ want.status = "connected" /\ new.access_token = want.access_token
            /\ "extra" \in anyway => new.extra = want.extra
        BY <1>1, <1>3, <3>1, <4>1
      <4>3. Usable(want) /\ (provider # "stripe" => "extra" \in anyway) /\ conn'[d] = new
        BY <1>0, <1>3, <3>1, <4>2
      <4>4. CASE provider = "stripe"
        BY <4>2, <4>3, <4>4 DEF Usable
      <4>5. CASE provider # "stripe"
        BY <4>2, <4>3, <4>5 DEF Usable
      <4> QED
        BY <4>4, <4>5
    <3>2. CASE d # c
      BY <1>3, <1>4, <3>2 DEF Inv, UseInv, RowUsable
    <3> QED
      BY <3>1, <3>2
  <2>2. ASSUME NEW v \in Workers PROVE AsksUsable(work[v])'
    <3>1. work'[v].at \in {"sync", "refuse"} =>
            work'[v].at = work[v].at /\ work'[v].loaded = work[v].loaded
      BY <1>0, <1>2, <1>4 DEF Marked, Idle, LocalSet
    <3>2. raced \subseteq raced' /\ AsksUsable(work[v])
      BY <1>4 DEF Inv, UseInv
    <3> QED
      BY <1>0, <3>1, <3>2 DEF AsksUsable, Usable
  <2> QED
    BY <2>1, <2>2 DEF UseInv
<1> QED
  BY <1>5, <1>6, <1>7 DEF Inv

\* What a sync in progress asks with stays usable: the copies do not change.
LEMMA AsksStay ==
  ASSUME Typed, UseInv, NEW w \in Workers, NEW at \in {"idle", "refuse"}, NEW rows, NEW kind,
         work' = Marked(w, at, rows, kind), work[w].at \in {"sync", "refuse"},
         provider' = provider, raced' = raced
  PROVE  \A v \in Workers : AsksUsable(work[v])'
<1> SUFFICES ASSUME NEW v \in Workers PROVE AsksUsable(work[v])'
  OBVIOUS
<1>1. work'[v].at \in {"sync", "refuse"} =>
        work[v].at \in {"sync", "refuse"} /\ work'[v].loaded = work[v].loaded
  BY DEF Marked, Idle, Typed, TypeOK
<1> QED
  BY <1>1 DEF UseInv, AsksUsable, Usable

\* A sync writes back what it read, but for a flag that no standing consent has.
LEMMA SyncSafe ==
  ASSUME Typed, Inv, NEW w \in Workers, CommitSync(w)
  PROVE  Inv'
<1>1. \A c \in Rows : Synced(work[w].loaded[c], conn[c], conn'[c])
  BY SyncRows
<1>2. PICK at \in {"idle", "refuse"} : work' = Marked(w, at, Loaded(w), "sync")
  BY DEF CommitSync
<1>3. /\ work[w].at = "sync" /\ provider' = provider /\ raced' = raced /\ provider # "stripe"
      /\ mixed' = IF work[w].late = {} THEN mixed ELSE mixed \cup Loaded(w)
      /\ \A c \in Rows : granted'[c] = IF c \in mixed' THEN None ELSE granted[c]
  BY DEF CommitSync, At, Typed, Locals, SyncLocals
<1>4. \A c \in Rows : /\ conn[c] \in Row \cup {None} /\ work[w].loaded[c] \in Row \cup {None}
                      /\ c \in Loaded(w) <=> work[w].loaded[c] # None
                      /\ work[w].loaded[c] # None =>
                           conn[c] # None /\ work[w].loaded[c].status = "connected"
  BY <1>3 DEF Typed, TypeOK, Locals, SyncLocals, Loaded
<1>5. CopiesInv'
  <2>1. \A c \in Rows : conn[c] # None => conn'[c] # None
    BY <1>1, NoneAssumption DEF Synced
  <2>2. \A c \in Rows \ Loaded(w) : conn'[c] = conn[c]
    BY <1>1, <1>4 DEF Synced
  <2>3. \A c \in Rows : conn[c] # None =>
          /\ conn'[c].access_token = conn[c].access_token
          /\ conn'[c].status \in {conn[c].status, "needs_reconnect"}
    BY <1>1 DEF Synced
  <2>4. Loaded(w) \in SUBSET Rows
    BY DEF Loaded
  <2> QED
    BY <1>2, <1>3, <2>1, <2>2, <2>3, <2>4, MarkedCopies DEF Inv
<1>6. ConsentInv'
  <2>1. GrantedClean'
    BY <1>3 DEF Inv, ConsentInv, GrantedClean
  <2>2. ASSUME NEW c \in Rows \ mixed', conn'[c] # None
        PROVE  IF conn'[c].status = "connected" THEN conn'[c] = granted'[c] ELSE granted'[c] = None
    <3>1. c \notin mixed /\ granted'[c] = granted[c]
      BY <1>3, <2>2
    <3>2. conn'[c] = conn[c]
      <4>1. CASE work[w].loaded[c] = None
        BY <1>1, <4>1 DEF Synced
      <4>2. CASE work[w].loaded[c] # None
        <5>1. work[w].late = {}
          BY <1>3, <1>4, <2>2, <4>2
        <5>2. conn[c] = work[w].loaded[c]
          BY <1>3, <4>2, <5>1 DEF Inv, CopiesInv, Current, Writing
        <5>3. conn[c] = granted[c]
          BY <1>4, <3>1, <4>2, <5>2 DEF Inv, ConsentInv, LastConsentStands
        <5>4. ~work[w].loaded[c].extra.needs_reconnect
          BY <4>2, <5>2, <5>3 DEF Inv, ConsentInv, GrantedClean
        <5> QED
          BY <1>1, <4>2, <5>2, <5>4 DEF Synced
      <4> QED
        BY <4>1, <4>2
    <3> QED
      BY <2>2, <3>1, <3>2 DEF Inv, ConsentInv, LastConsentStands
  <2> QED
    BY <2>1, <2>2 DEF ConsentInv, LastConsentStands
<1>7. RowUsable'
  <2> SUFFICES ASSUME NEW c \in Rows \ raced, conn'[c] # None, conn'[c].status = "connected"
               PROVE  Usable(conn'[c])
    BY <1>3 DEF RowUsable, Usable
  <2>1. CASE work[w].loaded[c] = None
    BY <1>1, <2>1 DEF Synced, Inv, UseInv, RowUsable
  <2>2. CASE work[w].loaded[c] # None
    <3>1. conn[c] # None /\ conn[c].status = "connected"
      BY <1>1, <1>4, <2>2 DEF Synced
    <3>2. Usable(conn[c])
      BY <3>1 DEF Inv, UseInv, RowUsable
    <3>3. Usable(work[w].loaded[c])
      BY <1>3, <2>2 DEF Inv, UseInv, AsksUsable
    <3>4. \/ conn'[c].extra = conn[c].extra
          \/ \E clear \in BOOLEAN : conn'[c].extra = SyncedExtra(work[w].loaded[c].extra, clear)
      BY <1>1, <2>2 DEF Synced
    <3>5. work[w].loaded[c].extra \in ExtraData
      BY <1>4, <2>2 DEF Row
    <3>6. \A clear \in BOOLEAN :
            /\ SyncedExtra(work[w].loaded[c].extra, clear).accounts = work[w].loaded[c].extra.accounts
            /\ SyncedExtra(work[w].loaded[c].extra, clear).token = work[w].loaded[c].extra.token
      BY <3>5 DEF SyncedExtra, ExtraData
    <3> QED
      BY <1>3, <3>2, <3>3, <3>4, <3>6 DEF Usable
  <2> QED
    BY <2>1, <2>2
<1>8. UseInv'
  <2>1. \A v \in Workers : AsksUsable(work[v])'
    BY <1>2, <1>3, AsksStay DEF Inv
  <2> QED
    BY <1>7, <2>1 DEF UseInv
<1> QED
  BY <1>5, <1>6, <1>8 DEF Inv

\* A refusal leaves none of its rows connected.
LEMMA RefusalSafe ==
  ASSUME Typed, Inv, NEW w \in Workers, CommitRefusal(w)
  PROVE  Inv'
<1>1. \A c \in Rows : RefusedTo(work[w].loaded[c], conn[c], conn'[c])
  BY RefusedRows
<1>2. /\ work' = Marked(w, "idle", Loaded(w), "sync")
      /\ work[w].at = "refuse" /\ provider' = provider /\ raced' = raced
      /\ mixed \ Loaded(w) \subseteq mixed'
      /\ \A c \in Rows : granted'[c] = IF c \in Loaded(w) THEN None ELSE granted[c]
  BY DEF CommitRefusal, At
<1>3. \A c \in Rows : c \in Loaded(w) <=> work[w].loaded[c] # None
  BY DEF Loaded
<1>4. CopiesInv'
  <2>1. \A c \in Rows : conn[c] # None => conn'[c] # None
    BY <1>1, NoneAssumption DEF RefusedTo
  <2>2. \A c \in Rows \ Loaded(w) : conn'[c] = conn[c]
    BY <1>1, <1>3 DEF RefusedTo
  <2>3. \A c \in Rows : conn[c] # None =>
          /\ conn'[c].access_token = conn[c].access_token
          /\ conn'[c].status \in {conn[c].status, "needs_reconnect"}
    BY <1>1 DEF RefusedTo
  <2>4. Loaded(w) \in SUBSET Rows
    BY DEF Loaded
  <2> QED
    BY <1>2, <2>1, <2>2, <2>3, <2>4, MarkedCopies DEF Inv
<1>5. ConsentInv'
  <2>1. GrantedClean'
    BY <1>2 DEF Inv, ConsentInv, GrantedClean
  <2>2. ASSUME NEW c \in Rows \ mixed', conn'[c] # None
        PROVE  IF conn'[c].status = "connected" THEN conn'[c] = granted'[c] ELSE granted'[c] = None
    <3>1. CASE c \in Loaded(w)
      BY <1>1, <1>2, <1>3, <3>1 DEF RefusedTo
    <3>2. CASE c \notin Loaded(w)
      <4>1. c \notin mixed /\ conn'[c] = conn[c] /\ granted'[c] = granted[c]
        BY <1>1, <1>2, <1>3, <2>2, <3>2 DEF RefusedTo
      <4> QED
        BY <2>2, <4>1 DEF Inv, ConsentInv, LastConsentStands
    <3> QED
      BY <3>1, <3>2
  <2> QED
    BY <2>1, <2>2 DEF ConsentInv, LastConsentStands
<1>6. UseInv'
  <2>1. RowUsable'
    BY <1>1, <1>2 DEF RefusedTo, Inv, UseInv, RowUsable, Usable
  <2>2. \A v \in Workers : AsksUsable(work[v])'
    BY <1>2, AsksStay DEF Inv
  <2> QED
    BY <2>1, <2>2 DEF UseInv
<1> QED
  BY <1>4, <1>5, <1>6 DEF Inv

\* Inv is inductive, given the types.
LEMMA NextSafe ==
  ASSUME Typed, Inv, [Next]_vars
  PROVE  Inv'
<1>1. ASSUME NEW w \in Workers, Handler(w) PROVE Inv'
  <2>1. CASE Reads(w)
    BY <2>1, ReadsSafe
  <2>2. CASE Commits(w)
    BY <2>2, CommitsConsent, ConsentSafe
  <2>3. CASE CommitSync(w)
    BY <2>3, SyncSafe
  <2>4. CASE CommitRefusal(w)
    BY <2>4, RefusalSafe
  <2> QED
    BY <1>1, <2>1, <2>2, <2>3, <2>4, Steps
<1>2. CASE UNCHANGED vars
  BY <1>2 DEF vars, Inv, CopiesInv, Current, SyncedOnly, ConsentInv, GrantedClean,
              LastConsentStands, UseInv, RowUsable, AsksUsable, Usable
<1> QED
  BY <1>1, <1>2 DEF Next

\* The inductive invariant holds in every reachable state.
LEMMA AlwaysSafe == Spec => []Inv
<1>1. Init => Inv
  BY InitSafe
<1>2. Typed /\ Inv /\ [Next]_vars => Inv'
  BY NextSafe
<1> QED
  BY <1>1, <1>2, AlwaysTyped, PTL DEF Spec

\* However links, redirects, syncs and refusals overlap, a row shows a
\* connection exactly when its last consent stands, as long as no two handlers
\* that had read one version of it both wrote it.
THEOREM ConsentStands == Spec => []LastConsentStands
<1>1. Inv => LastConsentStands
  BY DEF Inv, ConsentInv
<1> QED
  BY <1>1, AlwaysSafe, PTL

\* A connected row can be asked with, whatever stale copies syncs wrote back
\* over it: only consents that were written over one another leave one without
\* its accounts, token or key.
THEOREM ConnectionsUsable == Spec => []ConnectedIsUsable
<1>1. TypeOK /\ Inv => ConnectedIsUsable
  <2> SUFFICES ASSUME TypeOK, Inv, NEW c \in Rows \ raced, conn[c] # None /\ conn[c].status = "connected"
               PROVE  CASE provider = "tink" -> conn[c].extra.accounts /\ conn[c].extra.token # None
                        [] provider = "gocardless" -> conn[c].extra.accounts
                        [] provider = "stripe" -> conn[c].access_token # None
    BY DEF ConnectedIsUsable
  <2>1. Usable(conn[c])
    BY DEF Inv, UseInv, RowUsable
  <2>2. provider \in {"tink", "gocardless", "stripe"}
    BY ProvidersAssumption DEF TypeOK
  <2>3. conn[c].extra.accounts \in BOOLEAN
    BY DEF TypeOK, Row, ExtraData
  <2> QED
    BY <2>1, <2>2, <2>3 DEF Usable
<1> QED
  BY <1>1, AlwaysSafe, TypeCorrect, PTL
=============================================================================
