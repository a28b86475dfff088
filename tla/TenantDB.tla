------------------------------ MODULE TenantDB ------------------------------
(***************************************************************************)
(* Which database a request talks to (core/database.py), and the routes of   *)
(* tenants.py that attach, check and detach a tenant's own database.         *)
(*                                                                         *)
(* TenantDBManager keeps three dictionaries in the one server process: the   *)
(* URL read from the tenant's row, the engine built for it and the session   *)
(* maker handed to requests.  Nothing locks them: a handler runs alone until *)
(* it awaits, and the queries of a look-up, the creation of the tables and   *)
(* the disposal of an engine are awaits.                                     *)
(***************************************************************************)
EXTENDS Naturals, Sequences

CONSTANTS
  None,       \* NULL: the tenant is on the shared database
  Absent,     \* a key that a dictionary does not have
  Shared,     \* the session maker of the shared engine
  Tenants,
  Tiers,      \* TenantTier with its order: 1 starter, 2 pro, 3 enterprise
  Urls,       \* URLs of dedicated databases
  Malformed,  \* those that create_async_engine refuses
  Requests,   \* ids of calls
  MaxEngines  \* bound: engines built

Starter == 1

ASSUME TiersAssumption == Starter \in Tiers /\ Tiers \subseteq 1..3
ASSUME UrlsAssumption == Malformed \subseteq Urls /\ None \notin Urls /\ Absent \notin Urls
ASSUME MaxEnginesAssumption == MaxEngines \in Nat
ASSUME AbsentAssumption == Absent \notin Nat \cup {None, Shared} /\ Shared \notin Nat

VARIABLES
  row,      \* [Tenants -> database_url and tier of the committed row]
  urls,     \* _tenant_urls
  engines,  \* _engines
  makers,   \* _session_makers, each named by its engine
  built,    \* the URLs of the engines created so far
  req,      \* [Requests -> locals of the handler]
  cause     \* [Tenants -> what may have made its entries wrong]: history

vars == <<row, urls, engines, makers, built, req, cause>>

(***************************************************************************)
(* A request                                                                 *)
(***************************************************************************)
\* "route" is a route with get_db, or the task of a background job.
Kind == {"route", "upgrade", "provision", "migrate", "activate"}
Ended == {"done", "refused", "raised"}

\* Reached and left without an await: nothing else runs meanwhile.
Synchronous == {"get", "build", "close"}

\* In get_session_maker: "select" and "read" around its query, "fetched" as the
\* shared session closes, "tables" in create_all.  In close_tenant: "dispose".
Step == {"new", "load", "commit", "refresh", "select", "read", "fetched", "tables", "dispose",
         "smoke", "work"} \cup Synchronous \cup Ended

InFlight(t) == {r \in Requests : req[r].tenant = t /\ req[r].at \in {"read", "fetched", "tables"}}

Idle == [at |-> "new", kind |-> None, tenant |-> None, todo |-> <<>>, loaded |-> None,
         want |-> None, url |-> None, engine |-> Absent, owes |-> FALSE]

Init ==
  /\ row \in [Tenants -> [url : {None}, tier : Tiers]]
  /\ urls = [t \in Tenants |-> Absent]
  /\ engines = [t \in Tenants |-> Absent]
  /\ makers = [t \in Tenants |-> Absent]
  /\ built = <<>>
  /\ req = [r \in Requests |-> Idle]
  /\ cause = [t \in Tenants |-> {}]

UrlOf(maker) == IF maker = Shared THEN None ELSE built[maker]

\* r may take its step at "at": no other handler is between two awaits.
At(r, at) ==
  /\ req[r].at = at
  /\ \A q \in Requests \ {r} : req[q].at \notin Synchronous

\* The end of a handler, whose locals are gone.
Ends(j, at) == [Idle EXCEPT !.at = at, !.kind = j.kind, !.tenant = j.tenant, !.want = j.want]

\* The next of the steps the handler has left.
Goes(j) ==
  IF j.todo = <<>> THEN Ends(j, "done")
  ELSE [j EXCEPT !.at = Head(j.todo), !.todo = Tail(j.todo)]

Set(r, j) == req' = [req EXCEPT ![r] = j]

Call(r, t, kind, todo) ==
  /\ At(r, "new")
  /\ Set(r, Goes([Idle EXCEPT !.kind = kind, !.tenant = t, !.todo = todo]))
  /\ UNCHANGED <<row, urls, engines, makers, built, cause>>

\* get_db, and _run_job of a background run.
Route(r, t) == Call(r, t, "route", <<"get", "work">>)
UpgradeTenant(r, t) == Call(r, t, "upgrade", <<"load">>)
ProvisionDedicatedDb(r, t) == Call(r, t, "provision", <<"load">>)
MigrateDedicatedDb(r, t) == Call(r, t, "migrate", <<"load">>)
ActivateDedicatedDb(r, t) == Call(r, t, "activate", <<"load">>)

\* What follows db.get(Tenant): the row as loaded, the row as wanted, the steps.
Loads(r, kind, want, todo) ==
  /\ At(r, "load")
  /\ req[r].kind = kind
  /\ Set(r, Goes([req[r] EXCEPT !.loaded = row[req[r].tenant], !.want = want, !.todo = todo]))
  /\ UNCHANGED <<row, urls, engines, makers, built, cause>>

\* A higher tier needs a URL; a lower one gives the database up, whichever it is;
\* the same one writes no URL.
LoadUpgrade(r) ==
  LET old == row[req[r].tenant]
  IN  /\ At(r, "load")
      /\ \E tier \in Tiers :
        \/ /\ tier > old.tier
           /\ \E url \in Urls :
                Loads(r, "upgrade", [url |-> url, tier |-> tier], <<"commit", "refresh", "close">>)
        \/ /\ tier < old.tier
           /\ Loads(r, "upgrade", [url |-> None, tier |-> tier],
                    <<"close", "commit", "refresh", "close">>)
        \/ /\ tier = old.tier
           /\ Loads(r, "upgrade", old, <<"commit", "refresh", "close">>)

LoadProvision(r) ==
  \E url \in Urls, tier \in Tiers \ {Starter} :
    Loads(r, "provision", [url |-> url, tier |-> tier],
          <<"commit", "refresh", "close", "get", "smoke">>)

LoadMigrate(r) ==
  /\ At(r, "load")
  /\ row[req[r].tenant].url # None
  /\ Loads(r, "migrate", row[req[r].tenant], <<"close", "get">>)

LoadActivate(r) ==
  /\ At(r, "load")
  /\ row[req[r].tenant].url # None
  /\ Loads(r, "activate", row[req[r].tenant], <<"close", "get", "smoke">>)

\* No tenant, no URL to upgrade to, or none to migrate or activate.
Refuse(r) ==
  /\ At(r, "load")
  /\ Set(r, Ends(req[r], "refused"))
  /\ UNCHANGED <<row, urls, engines, makers, built, cause>>

\* The session writes the columns that differ from what it loaded.
Commit(r) ==
  LET j == req[r]
      t == j.tenant
      new == [url |-> IF j.want.url # j.loaded.url THEN j.want.url ELSE row[t].url,
              tier |-> IF j.want.tier # j.loaded.tier THEN j.want.tier ELSE row[t].tier]
  IN  /\ At(r, "commit")
      /\ row' = [row EXCEPT ![t] = new]
      /\ Set(r, Goes([j EXCEPT !.owes = j.owes \/ new.url # row[t].url]))
      /\ UNCHANGED <<urls, engines, makers, built, cause>>

\* An upgrade builds its engine at once if the row it reads again has a URL.
Refresh(r) ==
  LET j == req[r]
      now == row[j.tenant]
  IN  /\ At(r, "refresh")
      /\ Set(r, Goes([j EXCEPT !.loaded = now,
                               !.todo = IF j.kind = "upgrade" /\ now.url # None
                                        THEN Append(@, "get") ELSE @]))
      /\ UNCHANGED <<row, urls, engines, makers, built, cause>>

(***************************************************************************)
(* get_session_maker and _fetch_tenant_db_url                                *)
(***************************************************************************)
Get(r) ==
  LET j == req[r]
      t == j.tenant
  IN  /\ At(r, "get")
      /\ Set(r, IF makers[t] # Absent THEN Goes([j EXCEPT !.engine = makers[t]])
                ELSE IF urls[t] # Absent THEN [j EXCEPT !.at = "build", !.url = urls[t]]
                ELSE [j EXCEPT !.at = "select"])
      /\ UNCHANGED <<row, urls, engines, makers, built, cause>>

Select(r) ==
  /\ At(r, "select")
  /\ Set(r, [req[r] EXCEPT !.at = "read", !.url = row[req[r].tenant].url])
  /\ UNCHANGED <<row, urls, engines, makers, built, cause>>

Store(r) ==
  /\ At(r, "read")
  /\ urls' = [urls EXCEPT ![req[r].tenant] = req[r].url]
  /\ Set(r, [req[r] EXCEPT !.at = "fetched"])
  /\ UNCHANGED <<row, engines, makers, built, cause>>

AtBuild(r) == At(r, "fetched") \/ At(r, "build")

BuildShared(r) ==
  /\ AtBuild(r)
  /\ req[r].url = None
  /\ makers' = [makers EXCEPT ![req[r].tenant] = Shared]
  /\ Set(r, Goes([req[r] EXCEPT !.engine = Shared, !.url = None]))
  /\ UNCHANGED <<row, urls, engines, built, cause>>

\* Mutant: a URL that no engine can be built for is passed on as one.
BuildAnyEngine(r) ==
  LET j == req[r]
  IN  /\ AtBuild(r)
      /\ j.url \in Urls
      /\ Len(built) < MaxEngines
      /\ built' = Append(built, j.url)
      /\ engines' = [engines EXCEPT ![j.tenant] = Len(built) + 1]
      /\ Set(r, [j EXCEPT !.at = "tables", !.engine = Len(built) + 1, !.url = None])
      /\ UNCHANGED <<row, urls, makers, cause>>

\* Whatever engine the dictionary has is replaced and forgotten.
BuildEngine(r) ==
  LET j == req[r]
      t == j.tenant
      n == Len(built) + 1
  IN  /\ AtBuild(r)
      /\ j.url \in Urls \ Malformed
      /\ n <= MaxEngines
      /\ built' = Append(built, j.url)
      /\ engines' = [engines EXCEPT ![t] = n]
      /\ cause' = IF engines[t] = Absent THEN cause
                  ELSE [cause EXCEPT ![t] = @ \cup {"look-ups"}]
      /\ Set(r, [j EXCEPT !.at = "tables", !.engine = n, !.url = None])
      /\ UNCHANGED <<row, urls, makers>>

\* create_all has ended, well or not: its failure is logged only.
CreateTables(r) ==
  /\ At(r, "tables")
  /\ makers' = [makers EXCEPT ![req[r].tenant] = req[r].engine]
  /\ Set(r, Goes(req[r]))
  /\ UNCHANGED <<row, urls, engines, built, cause>>

(***************************************************************************)
(* close_tenant                                                              *)
(***************************************************************************)
\* The two pops that end it.  What a look-up has in its hands comes back later.
Drop(r, j) ==
  LET t == req[r].tenant
  IN  /\ makers' = [makers EXCEPT ![t] = Absent]
      /\ urls' = [urls EXCEPT ![t] = Absent]
      /\ cause' = [cause EXCEPT ![t] = IF InFlight(t) = {} THEN {} ELSE @ \cup {"close"}]
      /\ Set(r, Goes([j EXCEPT !.owes = FALSE, !.engine = Absent]))

Close(r) ==
  LET t == req[r].tenant
  IN  /\ At(r, "close")
      /\ IF engines[t] = Absent THEN Drop(r, req[r]) /\ UNCHANGED engines
         ELSE /\ engines' = [engines EXCEPT ![t] = Absent]
              /\ Set(r, [req[r] EXCEPT !.at = "dispose", !.engine = engines[t]])
              /\ UNCHANGED <<urls, makers, cause>>
      /\ UNCHANGED <<row, built>>

\* Mutant: the session maker stays when its engine has been disposed of.
DisposeKeepingMaker(r) ==
  /\ At(r, "dispose")
  /\ urls' = [urls EXCEPT ![req[r].tenant] = Absent]
  /\ Set(r, Goes([req[r] EXCEPT !.owes = FALSE]))
  /\ UNCHANGED <<row, engines, makers, built, cause>>

Dispose(r) ==
  /\ At(r, "dispose")
  /\ Drop(r, req[r])
  /\ UNCHANGED <<row, engines, built>>

(***************************************************************************)
(* Ends                                                                      *)
(***************************************************************************)
\* SELECT 1, or the work of the route, on whichever database the maker has.
Query(r) ==
  /\ At(r, "smoke") \/ At(r, "work")
  /\ Set(r, Goes(req[r]))
  /\ UNCHANGED <<row, urls, engines, makers, built, cause>>

\* Mutant: the caches are not told that the row has gone back to the shared one.
RevertWithoutClose(j) ==
  [j EXCEPT !.at = "commit", !.want = [url |-> None, tier |-> Starter], !.todo = <<>>,
            !.url = None, !.engine = Absent]

\* "Roll back URL so tenant stays usable on shared": to none, not to the earlier.
Revert(j) ==
  [j EXCEPT !.at = "commit", !.want = [url |-> None, tier |-> Starter], !.todo = <<"close">>,
            !.url = None, !.engine = Absent]

\* An exception ends a handler, but for the look-up and the test of a provision.
Raised(j) ==
  IF j.kind = "provision" /\ j.at \in {"select", "read", "fetched", "build", "smoke"}
  THEN Revert(j) ELSE Ends(j, "raised")

RefuseUrl(r) ==
  /\ AtBuild(r)
  /\ req[r].url \in Malformed
  /\ Set(r, Raised(req[r]))
  /\ UNCHANGED <<row, urls, engines, makers, built, cause>>

\* A database error at a query.  After the commit it leaves the entries there.
Fail(r) ==
  LET j == req[r]
  IN  /\ \E at \in {"load", "commit", "refresh", "select", "smoke", "work"} : At(r, at)
      /\ Set(r, Raised(j))
      /\ cause' = IF j.owes THEN [cause EXCEPT ![j.tenant] = @ \cup {"failure"}] ELSE cause
      /\ UNCHANGED <<row, urls, engines, makers, built>>

Receive(r, t) ==
  \/ Route(r, t) \/ UpgradeTenant(r, t) \/ ProvisionDedicatedDb(r, t)
  \/ MigrateDedicatedDb(r, t) \/ ActivateDedicatedDb(r, t)

Load(r) == LoadUpgrade(r) \/ LoadProvision(r) \/ LoadMigrate(r) \/ LoadActivate(r) \/ Refuse(r)

LookUp(r) ==
  Get(r) \/ Select(r) \/ Store(r) \/ BuildShared(r) \/ BuildEngine(r) \/ RefuseUrl(r) \/ CreateTables(r)

Handler(r) ==
  Load(r) \/ Commit(r) \/ Refresh(r) \/ LookUp(r) \/ Close(r) \/ Dispose(r) \/ Query(r) \/ Fail(r)

Next ==
  \/ \E r \in Requests, t \in Tenants : Receive(r, t)
  \/ \E r \in Requests : Handler(r)

Spec == Init /\ [][Next]_vars

(***************************************************************************)
(* Properties                                                                *)
(***************************************************************************)
Maker == 1..Len(built) \cup {Shared}

\* Type correctness.
TypeOK ==
  /\ row \in [Tenants -> [url : Urls \cup {None}, tier : Tiers]]
  /\ urls \in [Tenants -> Urls \cup {None, Absent}]
  /\ built \in Seq(Urls \ Malformed) /\ Len(built) <= MaxEngines
  /\ engines \in [Tenants -> 1..Len(built) \cup {Absent}]
  /\ makers \in [Tenants -> Maker \cup {Absent}]
  /\ req \in [Requests -> [at : Step, kind : Kind \cup {None}, tenant : Tenants \cup {None},
                           todo : Seq(Step), loaded : [url : Urls \cup {None}, tier : Tiers] \cup {None},
                           want : [url : Urls \cup {None}, tier : Tiers] \cup {None},
                           url : Urls \cup {None}, engine : Maker \cup {Absent}, owes : BOOLEAN]]
  /\ cause \in [Tenants -> SUBSET {"look-ups", "close", "failure"}]

Wrong(t) ==
  \/ urls[t] # Absent /\ urls[t] # row[t].url
  \/ makers[t] # Absent /\ UrlOf(makers[t]) # row[t].url

\* "Invalidate URL cache so next request re-reads database_url": a tenant's
\* requests go to the database its row names, except while the handler that
\* changed the row has yet to close it, and after two accidents, until the
\* next close: a look-up that began before a close ended after it, or the
\* changing handler failed between its commit and its close.
RoutedByTheRow ==
  \A t \in Tenants : Wrong(t) =>
    \/ \E r \in Requests : req[r].tenant = t /\ req[r].owes
    \/ cause[t] \cap {"close", "failure"} # {}

\* "Dispose a tenant's dedicated engine": the engine that a tenant's requests
\* are given is the one that closing the tenant disposes of, or is disposing
\* of, unless two look-ups of the tenant, or a look-up and a close, overlapped.
ClosingReachesTheEngine ==
  \A t \in Tenants : makers[t] \notin {Absent, Shared} =>
    \/ engines[t] = makers[t]
    \/ \E r \in Requests : req[r].tenant = t /\ req[r].at = "dispose" /\ req[r].engine = makers[t]
    \/ cause[t] \cap {"close", "look-ups"} # {}

\* "Dedicated DB provisioned ... Business traffic will route here": once the
\* tenant is quiet, its requests go to the database that was provisioned.
ProvisionedRoutes ==
  \A r \in Requests :
    LET t == req[r].tenant
    IN  /\ req[r].kind = "provision" /\ req[r].at = "done"
        /\ \A q \in Requests : req[q].tenant = t => req[q].at \in Ended
        /\ row[t].url = req[r].want.url
        => (makers[t] # Absent => UrlOf(makers[t]) = row[t].url)
=============================================================================
