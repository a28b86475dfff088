--------------------------- MODULE TenantDBProofs ---------------------------
(***************************************************************************)
(* Proofs about the databases of tenants, for any number of tenants, URLs,   *)
(* requests and engines: requests go where the row says, and closing a       *)
(* tenant reaches the engine that its requests are given.                    *)
(*                                                                         *)
(* A tenant is settled while no handler owes it a close and no accident is   *)
(* recorded.  Held: what a look-up has in its hands is then what the row     *)
(* says.  Planned: a handler that owes a close is on its way to it, so that  *)
(* it cannot end and leave the tenant wrong with nobody to blame.            *)
(***************************************************************************)
EXTENDS TenantDB, TLAPS

Row == [url : Urls \cup {None}, tier : Tiers]
Causes == {"look-ups", "close", "failure"}

Jobs(m) == [at : Step, kind : Kind \cup {None}, tenant : Tenants \cup {None}, todo : Seq(Step),
            loaded : Row \cup {None}, want : Row \cup {None}, url : Urls \cup {None},
            engine : m \cup {Absent}, owes : BOOLEAN]

LookingUp == {"get", "select", "read", "fetched", "build", "tables"}

\* The steps that a handler may have left at each step.
Planned(j) ==
  /\ j.at # "new" => j.tenant \in Tenants /\ j.kind \in Kind
  /\ j.at \notin {"new", "load"} \cup Ended /\ j.kind # "route" => j.loaded \in Row /\ j.want \in Row
  /\ j.at \in {"commit", "refresh", "close", "dispose", "smoke"} => j.kind # "route"
  /\ j.at = "commit" =>
       \/ j.todo = <<"refresh", "close">> \/ j.todo = <<"close">>
       \/ j.todo = <<"refresh", "close", "get", "smoke">> /\ j.kind # "upgrade"
  /\ j.at = "refresh" =>
       \/ j.todo = <<"close">>
       \/ j.todo = <<"close", "get", "smoke">> /\ j.kind # "upgrade"
  /\ j.at \in {"close", "dispose"} =>
       \/ j.todo = <<>> \/ j.todo = <<"get">> \/ j.todo = <<"get", "smoke">>
       \/ j.todo = <<"commit", "refresh", "close">>
  /\ j.at \in LookingUp =>
       \/ j.todo = <<>> \/ j.todo = <<"work">>
       \/ j.todo = <<"smoke">> /\ j.kind # "route"
  /\ j.at \in {"load", "smoke", "work"} => j.todo = <<>>
  /\ j.owes => j.at \in {"refresh", "close", "dispose"}

Owing(t) == \E r \in Requests : req[r].tenant = t /\ req[r].owes
Settled(t) == cause[t] \cap {"close", "failure"} = {} /\ ~Owing(t)

\* The engine is the one that is closed, or nobody promises.
Reaches(t, n) ==
  \/ engines[t] = n
  \/ \E r \in Requests : req[r].tenant = t /\ req[r].at = "dispose" /\ req[r].engine = n
  \/ cause[t] \cap {"close", "look-ups"} # {}

Held(r) ==
  LET j == req[r]
      t == j.tenant
  IN  /\ j.at \in {"read", "fetched"} /\ Settled(t) => j.url = row[t].url
      /\ j.at = "build" => j.url = urls[t]
      /\ j.at = "tables" => /\ j.engine \in 1..Len(built)
                            /\ Settled(t) => built[j.engine] = row[t].url
                            /\ Reaches(t, j.engine)

Inv ==
  /\ TypeOK
  /\ \A r \in Requests : Planned(req[r]) /\ Held(r)
  /\ RoutedByTheRow
  /\ ClosingReachesTheEngine

(***************************************************************************)
(* Locals                                                                    *)
(***************************************************************************)
LEMMA Ending ==
  ASSUME NEW m, NEW j \in Jobs(m), NEW at \in Ended
  PROVE  LET k == Ends(j, at)
         IN  /\ k \in Jobs(m) /\ k.at = at /\ k.kind = j.kind /\ k.tenant = j.tenant
             /\ k.owes = FALSE
<1>1. Idle \in Jobs(m) /\ Idle.owes = FALSE
  BY DEF Jobs, Idle, Step
<1>2. /\ at \in Step /\ j.kind \in Kind \cup {None} /\ j.tenant \in Tenants \cup {None}
      /\ j.want \in Row \cup {None}
  BY DEF Jobs, Step
<1> HIDE DEF Idle
<1> QED
  BY <1>1, <1>2 DEF Ends, Jobs

\* A handler that goes on takes the next of the steps it has left.
LEMMA Going ==
  ASSUME NEW m, NEW j \in Jobs(m)
  PROVE  LET k == Goes(j)
         IN  /\ k \in Jobs(m) /\ k.kind = j.kind /\ k.tenant = j.tenant
             /\ j.todo = <<>> => k.at = "done" /\ k.owes = FALSE
             /\ j.todo # <<>> =>
                  /\ k.at = Head(j.todo) /\ k.todo = Tail(j.todo) /\ k.loaded = j.loaded
                  /\ k.want = j.want /\ k.url = j.url /\ k.engine = j.engine /\ k.owes = j.owes
<1>1. CASE j.todo = <<>>
  BY <1>1, Ending DEF Goes, Ended
<1>2. CASE j.todo # <<>>
  <2>1. j.todo \in Seq(Step)
    BY DEF Jobs
  <2>2. Head(j.todo) \in Step /\ Tail(j.todo) \in Seq(Step)
    BY <1>2, <2>1
  <2>3. Goes(j) = [j EXCEPT !.at = Head(j.todo), !.todo = Tail(j.todo)]
    BY <1>2 DEF Goes
  <2> DEFINE h == Head(j.todo)
             s == Tail(j.todo)
  <2> HIDE DEF h, s
  <2>4. LET k == [j EXCEPT !.at = h, !.todo = s]
        IN  /\ k \in Jobs(m) /\ k.kind = j.kind /\ k.tenant = j.tenant
            /\ k.at = h /\ k.todo = s /\ k.loaded = j.loaded
            /\ k.want = j.want /\ k.url = j.url /\ k.engine = j.engine /\ k.owes = j.owes
    BY <2>2 DEF Jobs, h, s
  <2> QED
    BY <1>2, <2>3, <2>4 DEF h, s
<1> QED
  BY <1>1, <1>2

\* The lists of steps a handler may have left are sequences.
LEMMA Sequences ==
  ASSUME NEW S, NEW a \in S, NEW b \in S, NEW c \in S, NEW d \in S, NEW e \in S
  PROVE  {<<>>, <<a>>, <<a, b>>, <<a, b, c>>, <<a, b, c, d>>, <<a, b, c, d, e>>} \subseteq Seq(S)
OBVIOUS

\* What a handler may be left with is a sequence of steps.
LEMMA Plans ==
  {<<>>, <<"load">>, <<"get">>, <<"work">>, <<"close">>, <<"get", "work">>, <<"close", "get">>,
   <<"close", "get", "smoke">>, <<"commit", "refresh", "close">>,
   <<"close", "commit", "refresh", "close">>, <<"commit", "refresh", "close", "get", "smoke">>}
  \subseteq Seq(Step)
<1>1. {"load", "get", "work", "close", "smoke", "commit", "refresh"} \subseteq Step
  BY DEF Step, Synchronous
<1>2. {<<>>, <<"load">>, <<"get">>, <<"work">>, <<"close">>} \subseteq Seq(Step)
  BY <1>1, Sequences
<1>3. {<<"get", "work">>, <<"close", "get">>, <<"close", "get", "smoke">>} \subseteq Seq(Step)
  BY <1>1, Sequences
<1>4. {<<"commit", "refresh", "close">>, <<"close", "commit", "refresh", "close">>} \subseteq Seq(Step)
  BY <1>1, Sequences
<1>5. <<"commit", "refresh", "close", "get", "smoke">> \in Seq(Step)
  BY <1>1, Sequences
<1> QED
  BY <1>2, <1>3, <1>4, <1>5

\* A list of two steps is a list of one with another appended.
LEMMA Appended == \A a, b : <<a, b>> = Append(<<a>>, b)
<1> TAKE a, b
<1>1. <<a>> = Append(<<>>, a)
  OBVIOUS
<1>2. <<a, b>> = Append(Append(<<>>, a), b)
  OBVIOUS
<1> QED
  BY <1>1, <1>2, Zenon

\* The steps that are planned, one after the other.
LEMMA Steps ==
  /\ Head(<<"load">>) = "load" /\ Tail(<<"load">>) = <<>>
  /\ Head(<<"get">>) = "get" /\ Tail(<<"get">>) = <<>>
  /\ Head(<<"work">>) = "work" /\ Tail(<<"work">>) = <<>>
  /\ Head(<<"smoke">>) = "smoke" /\ Tail(<<"smoke">>) = <<>>
  /\ Head(<<"close">>) = "close" /\ Tail(<<"close">>) = <<>>
  /\ Head(<<"get", "work">>) = "get" /\ Tail(<<"get", "work">>) = <<"work">>
  /\ Head(<<"get", "smoke">>) = "get" /\ Tail(<<"get", "smoke">>) = <<"smoke">>
  /\ Head(<<"close", "get">>) = "close" /\ Tail(<<"close", "get">>) = <<"get">>
  /\ Head(<<"refresh", "close">>) = "refresh" /\ Tail(<<"refresh", "close">>) = <<"close">>
  /\ Head(<<"close", "get", "smoke">>) = "close" /\ Tail(<<"close", "get", "smoke">>) = <<"get", "smoke">>
  /\ Head(<<"commit", "refresh", "close">>) = "commit"
  /\ Tail(<<"commit", "refresh", "close">>) = <<"refresh", "close">>
  /\ Head(<<"close", "commit", "refresh", "close">>) = "close"
  /\ Tail(<<"close", "commit", "refresh", "close">>) = <<"commit", "refresh", "close">>
  /\ Head(<<"refresh", "close", "get", "smoke">>) = "refresh"
  /\ Tail(<<"refresh", "close", "get", "smoke">>) = <<"close", "get", "smoke">>
  /\ Head(<<"commit", "refresh", "close", "get", "smoke">>) = "commit"
  /\ Tail(<<"commit", "refresh", "close", "get", "smoke">>) = <<"refresh", "close", "get", "smoke">>
  /\ Append(<<"close">>, "get") = <<"close", "get">>
<1>1. Head(<<"load">>) = "load"
  OBVIOUS
<1>2. Tail(<<"load">>) = <<>>
  OBVIOUS
<1>3. Head(<<"get">>) = "get"
  OBVIOUS
<1>4. Tail(<<"get">>) = <<>>
  OBVIOUS
<1>5. Head(<<"work">>) = "work"
  OBVIOUS
<1>6. Tail(<<"work">>) = <<>>
  OBVIOUS
<1>7. Head(<<"smoke">>) = "smoke"
  OBVIOUS
<1>8. Tail(<<"smoke">>) = <<>>
  OBVIOUS
<1>9. Head(<<"close">>) = "close"
  OBVIOUS
<1>10. Tail(<<"close">>) = <<>>
  OBVIOUS
<1>11. Head(<<"get", "work">>) = "get"
  OBVIOUS
<1>12. Tail(<<"get", "work">>) = <<"work">>
  OBVIOUS
<1>13. Head(<<"get", "smoke">>) = "get"
  OBVIOUS
<1>14. Tail(<<"get", "smoke">>) = <<"smoke">>
  OBVIOUS
<1>15. Head(<<"close", "get">>) = "close"
  OBVIOUS
<1>16. Tail(<<"close", "get">>) = <<"get">>
  OBVIOUS
<1>17. Head(<<"refresh", "close">>) = "refresh"
  OBVIOUS
<1>18. Tail(<<"refresh", "close">>) = <<"close">>
  OBVIOUS
<1>19. Head(<<"close", "get", "smoke">>) = "close"
  OBVIOUS
<1>20. Tail(<<"close", "get", "smoke">>) = <<"get", "smoke">>
  OBVIOUS
<1>21. Head(<<"commit", "refresh", "close">>) = "commit"
  OBVIOUS
<1>22. Tail(<<"commit", "refresh", "close">>) = <<"refresh", "close">>
  OBVIOUS
<1>23. Head(<<"close", "commit", "refresh", "close">>) = "close"
  OBVIOUS
<1>24. Tail(<<"close", "commit", "refresh", "close">>) = <<"commit", "refresh", "close">>
  OBVIOUS
<1>25. Head(<<"refresh", "close", "get", "smoke">>) = "refresh"
  OBVIOUS
<1>26. Tail(<<"refresh", "close", "get", "smoke">>) = <<"close", "get", "smoke">>
  OBVIOUS
<1>27. Head(<<"commit", "refresh", "close", "get", "smoke">>) = "commit"
  OBVIOUS
<1>28. Tail(<<"commit", "refresh", "close", "get", "smoke">>) = <<"refresh", "close", "get", "smoke">>
  OBVIOUS
<1>29. Append(<<"close">>, "get") = <<"close", "get">>
  BY Appended, Zenon
<1> QED
  BY <1>1, <1>2, <1>3, <1>4, <1>5, <1>6, <1>7, <1>8, <1>9, <1>10, <1>11, <1>12, <1>13, <1>14, <1>15, <1>16, <1>17, <1>18, <1>19, <1>20, <1>21, <1>22, <1>23, <1>24, <1>25, <1>26, <1>27, <1>28, <1>29

(***************************************************************************)
(* Steps that leave the caches alone                                         *)
(***************************************************************************)
LEMMA TypedJob ==
  ASSUME Inv, NEW r \in Requests
  PROVE  req[r] \in Jobs(Maker) /\ Planned(req[r])
BY DEF Inv, TypeOK, Jobs, Row

\* No tenant becomes settled, and the rows of those that are stand.
Calm == \A t \in Tenants : Settled(t)' => Settled(t) /\ row'[t].url = row[t].url

\* Nobody else is between two awaits.
Alone(r) == \A q \in Requests \ {r} : req[q].at \notin Synchronous

\* Who owes a tenant a close goes on owing it, or a failure is recorded.
LEMMA CalmWhenKept ==
  ASSUME Inv, NEW r \in Requests, NEW k, req' = [req EXCEPT ![r] = k],
         UNCHANGED row, \A t \in Tenants : cause[t] \subseteq cause'[t],
         req[r].owes => \/ k.owes /\ k.tenant = req[r].tenant
                        \/ "failure" \in cause'[req[r].tenant]
  PROVE  Calm
<1> SUFFICES ASSUME NEW t \in Tenants, Settled(t)' PROVE Settled(t)
  BY DEF Calm
<1>1. cause[t] \cap {"close", "failure"} = {} /\ "failure" \notin cause'[t]
  BY DEF Settled
<1>2. ASSUME NEW q \in Requests, req[q].tenant = t, req[q].owes PROVE FALSE
  <2>1. req'[q].tenant = t /\ req'[q].owes
    BY <1>1, <1>2 DEF Inv, TypeOK
  <2> QED
    BY <2>1 DEF Settled, Owing
<1> QED
  BY <1>1, <1>2 DEF Settled, Owing

\* An engine that a close can reach can be reached after the step.
LEMMA ReachesKept ==
  ASSUME Inv, NEW r \in Requests, NEW k, req' = [req EXCEPT ![r] = k], req[r].at # "dispose",
         NEW t \in Tenants, cause[t] \subseteq cause'[t], NEW n, Reaches(t, n),
         engines[t] = n => \/ engines'[t] = n
                           \/ k.tenant = t /\ k.at = "dispose" /\ k.engine = n
                           \/ cause'[t] \cap {"close", "look-ups"} # {}
  PROVE  Reaches(t, n)'
<1>1. CASE engines[t] = n
  BY <1>1 DEF Reaches, Inv, TypeOK
<1>2. CASE cause[t] \cap {"close", "look-ups"} # {}
  BY <1>2 DEF Reaches
<1>3. ASSUME NEW q \in Requests, req[q].tenant = t, req[q].at = "dispose", req[q].engine = n
      PROVE  Reaches(t, n)'
  <2>1. req'[q] = req[q]
    BY <1>3 DEF Inv, TypeOK
  <2> QED
    BY <1>3, <2>1 DEF Reaches
<1> QED
  BY <1>1, <1>2, <1>3 DEF Reaches

\* What another handler has in its hands stays right.
LEMMA OthersHold ==
  ASSUME Inv, NEW r \in Requests, Alone(r), NEW k, req' = [req EXCEPT ![r] = k], Calm,
         NEW q \in Requests, q # r, Len(built) <= Len(built'), Len(built') \in Nat,
         \A n \in 1..Len(built) : built'[n] = built[n],
         \A t \in Tenants, n \in 1..Len(built) : Reaches(t, n) => Reaches(t, n)'
  PROVE  Held(q)'
<1> DEFINE t == req[q].tenant
<1>1. /\ req'[q] = req[q] /\ Held(q) /\ req[q].at # "build"
      /\ req[q].at \in {"read", "fetched", "tables"} => t \in Tenants
  BY DEF Inv, TypeOK, Alone, Synchronous, Planned, Ended
<1>2. t \in Tenants /\ Settled(t)' => Settled(t) /\ row'[t].url = row[t].url
  BY DEF Calm
<1>3. CASE req[q].at \in {"read", "fetched"}
  BY <1>1, <1>2, <1>3 DEF Held
<1>4. CASE req[q].at = "tables"
  <2>1. req[q].engine \in 1..Len(built) /\ req[q].engine \in 1..Len(built')
    BY <1>1, <1>4 DEF Held, Inv, TypeOK
  <2>2. Reaches(t, req[q].engine)'
    BY <1>1, <1>4, <2>1 DEF Held
  <2> QED
    BY <1>1, <1>2, <1>4, <2>1, <2>2 DEF Held
<1> QED
  BY <1>1, <1>3, <1>4 DEF Held

\* A step that leaves the dictionaries alone keeps the invariant.
LEMMA CachesKept ==
  ASSUME Inv, NEW r \in Requests, Alone(r), NEW k \in Jobs(Maker), req' = [req EXCEPT ![r] = k],
         req[r].at # "dispose", Planned(k), k.at = "build" => k.url = urls[k.tenant],
         k.at \notin {"fetched", "tables"},
         k.at = "read" => k.url = row'[k.tenant].url,
         UNCHANGED <<urls, engines, makers, built>>, row' \in [Tenants -> Row],
         cause' \in [Tenants -> SUBSET Causes], \A t \in Tenants : cause[t] \subseteq cause'[t], Calm
  PROVE  Inv'
<1>1. TypeOK'
  BY DEF Inv, TypeOK, Jobs, Row, Causes, Maker
<1>2. req'[r] = k /\ \A q \in Requests \ {r} : req'[q] = req[q]
  BY DEF Inv, TypeOK
<1>3. \A t \in Tenants : \A n : Reaches(t, n) => Reaches(t, n)'
  BY ReachesKept
<1>4. ASSUME NEW q \in Requests PROVE Planned(req'[q]) /\ Held(q)'
  <2>1. CASE q = r
    BY <1>2, <2>1 DEF Held
  <2>2. CASE q # r
    <3>1. /\ Len(built) <= Len(built') /\ Len(built') \in Nat
          /\ \A n \in 1..Len(built) : built'[n] = built[n]
      BY DEF Inv, TypeOK
    <3>2. \A t \in Tenants, n \in 1..Len(built) : Reaches(t, n) => Reaches(t, n)'
      BY <1>3
    <3>3. Held(q)'
      BY <2>2, <3>1, <3>2, OthersHold
    <3> QED
      BY <1>2, <2>2, <3>3 DEF Inv
  <2> QED
    BY <2>1, <2>2
<1>5. RoutedByTheRow'
  <2> SUFFICES ASSUME NEW t \in Tenants, Settled(t)' PROVE ~Wrong(t)'
    BY DEF RoutedByTheRow, Settled, Owing
  <2>1. Settled(t) /\ row'[t].url = row[t].url
    BY DEF Calm
  <2>2. ~Wrong(t)
    BY <2>1 DEF Inv, RoutedByTheRow, Settled, Owing
  <2> QED
    BY <2>1, <2>2 DEF Wrong, UrlOf
<1>6. ClosingReachesTheEngine'
  <2> SUFFICES ASSUME NEW t \in Tenants, makers[t] \notin {Absent, Shared}
               PROVE  Reaches(t, makers[t])'
    BY DEF ClosingReachesTheEngine, Reaches
  <2>1. Reaches(t, makers[t])
    BY DEF Inv, ClosingReachesTheEngine, Reaches
  <2> DEFINE n == makers[t]
  <2>2. Reaches(t, n) => \/ engines'[t] = n
                        \/ (\E q \in Requests :
                              /\ req'[q].tenant = t
                              /\ req'[q].at = "dispose"
                              /\ req'[q].engine = n)
                        \/ cause'[t] \cap {"close", "look-ups"} # {}
    <3> HIDE DEF n
    <3> QED
      BY <1>3 DEF Reaches
  <2> QED
    BY <2>1, <2>2 DEF Reaches
<1> QED
  BY <1>1, <1>4, <1>5, <1>6 DEF Inv

\* The same, of a step that writes no row and records no accident.
LEMMA LocalsOnly ==
  ASSUME Inv, NEW r \in Requests, Alone(r), NEW k \in Jobs(Maker), req' = [req EXCEPT ![r] = k],
         req[r].at # "dispose", Planned(k), k.at = "build" => k.url = urls[k.tenant],
         k.at \notin {"fetched", "tables"},
         k.at = "read" => k.url = row[k.tenant].url,
         req[r].owes => k.owes /\ k.tenant = req[r].tenant,
         UNCHANGED <<row, urls, engines, makers, built, cause>>
  PROVE  Inv'
<1>1. Calm
  BY CalmWhenKept
<1>2. row' \in [Tenants -> Row] /\ cause' \in [Tenants -> SUBSET Causes]
  BY DEF Inv, TypeOK, Row, Causes
<1> QED
  BY <1>1, <1>2, CachesKept

(***************************************************************************)
(* The call and the row                                                      *)
(***************************************************************************)
LEMMA CallInv ==
  ASSUME Inv, NEW r \in Requests, NEW t \in Tenants, NEW kind \in Kind, NEW todo,
         (kind = "route" /\ todo = <<"get", "work">>) \/ todo = <<"load">>,
         Call(r, t, kind, todo)
  PROVE  Inv'
<1> DEFINE j == [Idle EXCEPT !.kind = kind, !.tenant = t, !.todo = todo]
           k == Goes(j)
<1>1. /\ req[r].at = "new" /\ Alone(r) /\ req' = [req EXCEPT ![r] = k]
      /\ UNCHANGED <<row, urls, engines, makers, built, cause>>
  BY DEF Call, At, Alone, Set
<1>2. todo \in Seq(Step) /\ todo # <<>>
  <2>1. todo \in Seq(Step)
    BY Plans
  <2> QED
    BY <2>1, Steps
<1>3. j \in Jobs(Maker) /\ j.kind = kind /\ j.tenant = t /\ j.todo = todo /\ j.owes = FALSE
  BY <1>2 DEF Idle, Jobs, Step
<1> HIDE DEF j
<1>4. /\ k \in Jobs(Maker) /\ k.kind = kind /\ k.tenant = t
      /\ k.at = Head(todo) /\ k.todo = Tail(todo) /\ k.owes = FALSE
  BY <1>2, <1>3, Going
<1> HIDE DEF k
<1>5. (k.at = "get" /\ kind = "route" /\ k.todo = <<"work">>) \/ (k.at = "load" /\ k.todo = <<>>)
  BY <1>4, Steps
<1>6. Planned(k)
  BY <1>4, <1>5 DEF Planned, LookingUp
<1>7. ~req[r].owes
  BY <1>1, TypedJob DEF Planned, Jobs
<1> QED
  BY <1>1, <1>4, <1>5, <1>6, <1>7, LocalsOnly

\* A handler that has read the row it will write has its steps planned.
LEMMA LoadsInv ==
  ASSUME Inv, NEW r \in Requests, NEW kind \in Kind, kind # "route", NEW want \in Row, NEW todo,
         \/ todo = <<"commit", "refresh", "close">>
         \/ todo = <<"close", "commit", "refresh", "close">>
         \/ todo = <<"commit", "refresh", "close", "get", "smoke">> /\ kind # "upgrade"
         \/ todo = <<"close", "get">>
         \/ todo = <<"close", "get", "smoke">>,
         Loads(r, kind, want, todo)
  PROVE  Inv'
<1> DEFINE t == req[r].tenant
           j == [req[r] EXCEPT !.loaded = row[t], !.want = want, !.todo = todo]
           k == Goes(j)
<1>1. /\ req[r].at = "load" /\ req[r].kind = kind /\ Alone(r) /\ req' = [req EXCEPT ![r] = k]
      /\ UNCHANGED <<row, urls, engines, makers, built, cause>>
  BY DEF Loads, At, Alone, Set
<1>2. req[r] \in Jobs(Maker) /\ t \in Tenants /\ ~req[r].owes
  BY <1>1, TypedJob DEF Planned, Jobs, Ended
<1>3. row[t] \in Row
  BY <1>2 DEF Inv, TypeOK, Row
<1>4. todo \in Seq(Step) /\ todo # <<>>
  <2>1. todo \in Seq(Step)
    BY Plans
  <2> QED
    BY <2>1, Steps
<1>5. /\ j \in Jobs(Maker) /\ j.kind = kind /\ j.tenant = t /\ j.todo = todo /\ j.owes = FALSE
      /\ j.loaded = row[t] /\ j.want = want
  BY <1>1, <1>2, <1>3, <1>4 DEF Jobs
<1> HIDE DEF j
<1>6. /\ k \in Jobs(Maker) /\ k.kind = kind /\ k.tenant = t /\ k.loaded = row[t] /\ k.want = want
      /\ k.at = Head(todo) /\ k.todo = Tail(todo) /\ k.owes = FALSE
  BY <1>4, <1>5, Going
<1> HIDE DEF k
<1>7. \/ k.at = "commit" /\ k.todo = <<"refresh", "close">>
      \/ k.at = "commit" /\ k.todo = <<"refresh", "close", "get", "smoke">> /\ kind # "upgrade"
      \/ k.at = "close" /\ k.todo = <<"commit", "refresh", "close">>
      \/ k.at = "close" /\ k.todo = <<"get">>
      \/ k.at = "close" /\ k.todo = <<"get", "smoke">>
  BY <1>6, Steps
<1>8. Planned(k)
  BY <1>2, <1>3, <1>6, <1>7 DEF Planned, LookingUp
<1> QED
  BY <1>1, <1>2, <1>6, <1>7, <1>8, LocalsOnly

\* The first read of each route keeps the invariant.
LEMMA LoadInv ==
  ASSUME Inv, NEW r \in Requests, Load(r)
  PROVE  Inv'
<1>1. req[r].at = "load" /\ Alone(r) /\ req[r] \in Jobs(Maker) /\ req[r].tenant \in Tenants
      /\ ~req[r].owes
  BY TypedJob DEF Load, LoadUpgrade, LoadProvision, LoadMigrate, LoadActivate, Loads, Refuse, At,
     Alone, Planned, Jobs, Ended
<1>2. row[req[r].tenant] \in Row
  BY <1>1 DEF Inv, TypeOK, Row
<1>3. CASE Refuse(r)
  <2> DEFINE k == Ends(req[r], "refused")
  <2>1. k \in Jobs(Maker) /\ k.at = "refused" /\ k.kind = req[r].kind /\ k.tenant = req[r].tenant
        /\ k.owes = FALSE
    BY <1>1, Ending DEF Ended
  <2>2. req' = [req EXCEPT ![r] = k] /\ UNCHANGED <<row, urls, engines, makers, built, cause>>
    BY <1>3 DEF Refuse, Set
  <2> HIDE DEF k
  <2>3. Planned(k)
    BY <1>1, <2>1, TypedJob DEF Planned, LookingUp, Ended
  <2> QED
    BY <1>1, <2>1, <2>2, <2>3, LocalsOnly
<1>4. CASE LoadUpgrade(r)
  <2>1. PICK want \in Row, todo \in {<<"commit", "refresh", "close">>,
                                    <<"close", "commit", "refresh", "close">>} :
          Loads(r, "upgrade", want, todo)
    BY <1>2, <1>4 DEF LoadUpgrade, Row
  <2> QED
    BY <2>1, LoadsInv DEF Kind
<1>5. CASE LoadProvision(r)
  <2>1. PICK want \in Row :
          Loads(r, "provision", want, <<"commit", "refresh", "close", "get", "smoke">>)
    BY <1>5 DEF LoadProvision, Row
  <2> QED
    BY <2>1, LoadsInv DEF Kind
<1>6. CASE LoadMigrate(r)
  BY <1>2, <1>6, LoadsInv DEF LoadMigrate, Kind
<1>7. CASE LoadActivate(r)
  BY <1>2, <1>7, LoadsInv DEF LoadActivate, Kind
<1> QED
  BY <1>3, <1>4, <1>5, <1>6, <1>7 DEF Load

\* The commit of a tenant's row keeps the invariant: a close is owed, or was done.
LEMMA CommitInv ==
  ASSUME Inv, NEW r \in Requests, Commit(r)
  PROVE  Inv'
<1> DEFINE t == req[r].tenant
           new == [url |-> IF req[r].want.url # req[r].loaded.url THEN req[r].want.url ELSE row[t].url,
                   tier |-> IF req[r].want.tier # req[r].loaded.tier THEN req[r].want.tier
                            ELSE row[t].tier]
           j == [req[r] EXCEPT !.owes = req[r].owes \/ new.url # row[t].url]
           k == Goes(j)
<1>1. /\ req[r].at = "commit" /\ Alone(r) /\ req' = [req EXCEPT ![r] = k]
      /\ row' = [row EXCEPT ![t] = new]
      /\ UNCHANGED <<urls, engines, makers, built, cause>>
  BY DEF Commit, At, Alone, Set
<1>2. /\ req[r] \in Jobs(Maker) /\ Planned(req[r]) /\ t \in Tenants /\ ~req[r].owes
      /\ req[r].loaded \in Row /\ req[r].want \in Row
  BY <1>1, TypedJob DEF Planned, Jobs, Ended
<1>3. new \in Row
  BY <1>2 DEF Inv, TypeOK, Row
<1>4. /\ j \in Jobs(Maker) /\ j.kind = req[r].kind /\ j.tenant = t /\ j.todo = req[r].todo
      /\ j.owes = (req[r].owes \/ new.url # row[t].url)
      /\ j.loaded = req[r].loaded /\ j.want = req[r].want
  <2> DEFINE o == req[r].owes \/ new.url # row[t].url
  <2>1. o \in BOOLEAN
    BY <1>2 DEF Jobs
  <2> HIDE DEF o
  <2>2. LET i == [req[r] EXCEPT !.owes = o]
        IN  /\ i \in Jobs(Maker) /\ i.kind = req[r].kind /\ i.tenant = t /\ i.todo = req[r].todo
            /\ i.owes = o /\ i.loaded = req[r].loaded /\ i.want = req[r].want
    BY <1>2, <2>1 DEF Jobs
  <2> QED
    BY <2>2 DEF o
<1> HIDE DEF j
<1>5. req[r].todo # <<>>
  BY <1>1, <1>2, Steps DEF Planned
<1>6. /\ k \in Jobs(Maker) /\ k.kind = req[r].kind /\ k.tenant = t
      /\ k.at = Head(req[r].todo) /\ k.todo = Tail(req[r].todo)
      /\ k.loaded \in Row /\ k.want \in Row
      /\ k.owes = (req[r].owes \/ new.url # row[t].url)
  <2>1. /\ k \in Jobs(Maker) /\ k.kind = j.kind /\ k.tenant = j.tenant
        /\ k.at = Head(j.todo) /\ k.todo = Tail(j.todo)
        /\ k.loaded = j.loaded /\ k.want = j.want /\ k.owes = j.owes
    BY <1>4, <1>5, Going
  <2> HIDE DEF k, new
  <2> QED
    BY <1>2, <1>4, <2>1, Zenon
<1> HIDE DEF k, new
<1>7. \/ k.at = "refresh" /\ k.todo = <<"close">>
      \/ k.at = "refresh" /\ k.todo = <<"close", "get", "smoke">> /\ req[r].kind # "upgrade"
      \/ k.at = "close" /\ k.todo = <<>>
  BY <1>1, <1>2, <1>6, Steps DEF Planned
<1>8. Planned(k)
  BY <1>1, <1>2, <1>6, <1>7 DEF Planned, LookingUp
<1>9. Calm
  <2> SUFFICES ASSUME NEW s \in Tenants, Settled(s)'
               PROVE  Settled(s) /\ row'[s].url = row[s].url
    BY DEF Calm
  <2>1. req'[r] = k /\ \A q \in Requests \ {r} : req'[q] = req[q]
    BY <1>1 DEF Inv, TypeOK
  <2>2. Settled(s)
    BY <1>1, <1>2, <2>1 DEF Settled, Owing
  <2>3. CASE s = t
    <3>1. ~k.owes
      BY <1>6, <2>1, <2>3 DEF Settled, Owing
    <3> QED
      BY <1>1, <1>2, <1>6, <2>2, <2>3, <3>1 DEF Inv, TypeOK
  <2>4. CASE s # t
    BY <1>1, <2>2, <2>4 DEF Inv, TypeOK
  <2> QED
    BY <2>3, <2>4
<1>10. row' \in [Tenants -> Row] /\ cause' \in [Tenants -> SUBSET Causes]
  BY <1>1, <1>3 DEF Inv, TypeOK, Row, Causes
<1> QED
  BY <1>1, <1>6, <1>7, <1>8, <1>9, <1>10, CachesKept

\* The refresh of the row keeps the invariant.
LEMMA RefreshInv ==
  ASSUME Inv, NEW r \in Requests, Refresh(r)
  PROVE  Inv'
<1> DEFINE t == req[r].tenant
           todo == IF req[r].kind = "upgrade" /\ row[t].url # None
                   THEN Append(req[r].todo, "get") ELSE req[r].todo
           j == [req[r] EXCEPT !.loaded = row[t], !.todo = todo]
           k == Goes(j)
<1>1. /\ req[r].at = "refresh" /\ Alone(r) /\ req' = [req EXCEPT ![r] = k]
      /\ UNCHANGED <<row, urls, engines, makers, built, cause>>
  BY DEF Refresh, At, Alone, Set
<1>2. /\ req[r] \in Jobs(Maker) /\ Planned(req[r]) /\ t \in Tenants /\ req[r].kind # "route"
      /\ req[r].want \in Row /\ req[r].kind \in Kind
  BY <1>1, TypedJob DEF Planned, Ended
<1>3. row[t] \in Row
  BY <1>2 DEF Inv, TypeOK, Row
<1>4. todo = <<"close">> \/ todo = <<"close", "get">> \/ todo = <<"close", "get", "smoke">>
  BY <1>1, <1>2, Steps DEF Planned
<1> HIDE DEF todo
<1>5. todo \in Seq(Step) /\ todo # <<>>
  <2>1. todo \in Seq(Step)
    BY <1>4, Plans
  <2> QED
    BY <1>4, <2>1, Steps
<1>6. /\ j \in Jobs(Maker) /\ j.kind = req[r].kind /\ j.tenant = t /\ j.todo = todo
      /\ j.owes = req[r].owes /\ j.loaded = row[t] /\ j.want = req[r].want
  BY <1>2, <1>3, <1>5 DEF Jobs
<1> HIDE DEF j
<1>7. /\ k \in Jobs(Maker) /\ k.kind = req[r].kind /\ k.tenant = t
      /\ k.at = Head(todo) /\ k.todo = Tail(todo)
      /\ k.loaded \in Row /\ k.want \in Row /\ k.owes = req[r].owes
  BY <1>2, <1>3, <1>5, <1>6, Going
<1> HIDE DEF k
<1>8. k.at = "close" /\ (k.todo = <<>> \/ k.todo = <<"get">> \/ k.todo = <<"get", "smoke">>)
  BY <1>4, <1>7, Steps
<1>9. Planned(k)
  BY <1>2, <1>7, <1>8 DEF Planned, LookingUp
<1> QED
  BY <1>1, <1>7, <1>8, <1>9, LocalsOnly

(***************************************************************************)
(* Look-ups                                                                  *)
(***************************************************************************)
\* What a look-up has planned to do next.
LEMMA Looking ==
  ASSUME Inv, NEW r \in Requests, req[r].at \in LookingUp
  PROVE  /\ req[r] \in Jobs(Maker) /\ Planned(req[r]) /\ Held(r)
         /\ req[r].tenant \in Tenants /\ req[r].kind \in Kind /\ ~req[r].owes
BY TypedJob DEF Inv, Planned, Jobs, LookingUp, Ended

\* A look-up goes on with its locals changed.
LEMMA StaysLooking ==
  ASSUME Inv, NEW r \in Requests, req[r].at \in LookingUp, NEW m, NEW k \in Jobs(m),
         k.at \in LookingUp, k.kind = req[r].kind, k.tenant = req[r].tenant, k.todo = req[r].todo,
         k.loaded = req[r].loaded, k.want = req[r].want, k.owes = req[r].owes
  PROVE  Planned(k)
BY Looking DEF Planned, LookingUp, Ended

\* A look-up has ended, with a session maker.
LEMMA LookedUp ==
  ASSUME Inv, NEW r \in Requests, req[r].at \in LookingUp, NEW m, NEW j \in Jobs(m),
         j.kind = req[r].kind, j.tenant = req[r].tenant, j.todo = req[r].todo,
         j.loaded = req[r].loaded, j.want = req[r].want, j.owes = req[r].owes
  PROVE  LET k == Goes(j)
         IN  /\ k \in Jobs(m) /\ Planned(k) /\ k.tenant = req[r].tenant
             /\ k.at \in {"work", "smoke", "done"} /\ ~k.owes
<1> DEFINE k == Goes(j)
<1>1. /\ Planned(req[r]) /\ req[r].tenant \in Tenants /\ req[r].kind \in Kind /\ ~req[r].owes
  BY Looking
<1>2. /\ k \in Jobs(m) /\ k.kind = j.kind /\ k.tenant = j.tenant
      /\ j.todo = <<>> => k.at = "done" /\ k.owes = FALSE
      /\ j.todo # <<>> => /\ k.at = Head(j.todo) /\ k.todo = Tail(j.todo)
                          /\ k.loaded = j.loaded /\ k.want = j.want /\ k.owes = j.owes
  BY Going
<1> HIDE DEF k
<1>3. j.todo = <<>> \/ j.todo = <<"work">> \/ (j.todo = <<"smoke">> /\ j.kind # "route")
  BY <1>1 DEF Planned
<1>4. \/ k.at = "done"
      \/ k.at = "work" /\ k.todo = <<>>
      \/ k.at = "smoke" /\ k.todo = <<>> /\ k.kind # "route"
  BY <1>2, <1>3, Steps
<1>5. ~k.owes
  BY <1>1, <1>2
<1>6. k.at # "done" /\ k.kind # "route" => k.loaded \in Row /\ k.want \in Row
  <2> SUFFICES ASSUME k.at # "done", k.kind # "route" PROVE k.loaded \in Row /\ k.want \in Row
    OBVIOUS
  <2>1. req[r].loaded \in Row /\ req[r].want \in Row
    BY <1>1, <1>2 DEF Planned, LookingUp, Ended
  <2> QED
    BY <1>2, <2>1
<1>7. Planned(k)
  BY <1>1, <1>2, <1>4, <1>5, <1>6 DEF Planned, LookingUp, Ended
<1> QED
  BY <1>2, <1>4, <1>5, <1>7 DEF k

\* The look-up of a session maker keeps the invariant.
LEMMA GetInv ==
  ASSUME Inv, NEW r \in Requests, Get(r)
  PROVE  Inv'
<1> DEFINE t == req[r].tenant
<1>1. /\ req[r].at = "get" /\ Alone(r) /\ UNCHANGED <<row, urls, engines, makers, built, cause>>
  BY DEF Get, At, Alone
<1>2. /\ req[r] \in Jobs(Maker) /\ t \in Tenants /\ ~req[r].owes /\ req[r].at \in LookingUp
  BY <1>1, Looking DEF LookingUp
<1>3. CASE makers[t] # Absent
  <2> DEFINE j == [req[r] EXCEPT !.engine = makers[t]]
  <2>1. makers[t] \in Maker
    BY <1>2, <1>3 DEF Inv, TypeOK
  <2>2. /\ j \in Jobs(Maker) /\ j.kind = req[r].kind /\ j.tenant = t /\ j.todo = req[r].todo
        /\ j.loaded = req[r].loaded /\ j.want = req[r].want /\ j.owes = req[r].owes
    BY <1>2, <2>1 DEF Jobs
  <2>3. req' = [req EXCEPT ![r] = Goes(j)]
    BY <1>3 DEF Get, Set
  <2> HIDE DEF j
  <2>4. /\ Goes(j) \in Jobs(Maker) /\ Planned(Goes(j)) /\ Goes(j).tenant = t
        /\ Goes(j).at \in {"work", "smoke", "done"} /\ ~Goes(j).owes
    BY <1>2, <2>2, LookedUp
  <2> QED
    BY <1>1, <1>2, <2>3, <2>4, LocalsOnly
<1>4. CASE makers[t] = Absent /\ urls[t] # Absent
  <2> DEFINE k == [req[r] EXCEPT !.at = "build", !.url = urls[t]]
  <2>1. urls[t] \in Urls \cup {None}
    BY <1>2, <1>4 DEF Inv, TypeOK
  <2>2. /\ k \in Jobs(Maker) /\ k.at = "build" /\ k.url = urls[t]
        /\ k.kind = req[r].kind /\ k.tenant = t /\ k.todo = req[r].todo
        /\ k.loaded = req[r].loaded /\ k.want = req[r].want /\ k.owes = req[r].owes
    BY <1>2, <2>1 DEF Jobs, Step, Synchronous
  <2>3. req' = [req EXCEPT ![r] = k]
    BY <1>4 DEF Get, Set
  <2> HIDE DEF k
  <2>4. Planned(k)
    BY <1>2, <2>2, StaysLooking DEF LookingUp
  <2> QED
    BY <1>1, <1>2, <2>2, <2>3, <2>4, LocalsOnly
<1>5. CASE makers[t] = Absent /\ urls[t] = Absent
  <2> DEFINE k == [req[r] EXCEPT !.at = "select"]
  <2>1. /\ k \in Jobs(Maker) /\ k.at = "select"
        /\ k.kind = req[r].kind /\ k.tenant = t /\ k.todo = req[r].todo
        /\ k.loaded = req[r].loaded /\ k.want = req[r].want /\ k.owes = req[r].owes
    BY <1>2 DEF Jobs, Step
  <2>2. req' = [req EXCEPT ![r] = k]
    BY <1>5 DEF Get, Set
  <2> HIDE DEF k
  <2>3. Planned(k)
    BY <1>2, <2>1, StaysLooking DEF LookingUp
  <2> QED
    BY <1>1, <1>2, <2>1, <2>2, <2>3, LocalsOnly
<1> QED
  BY <1>3, <1>4, <1>5

\* The read of the tenant's URL keeps the invariant.
LEMMA SelectInv ==
  ASSUME Inv, NEW r \in Requests, Select(r)
  PROVE  Inv'
<1> DEFINE t == req[r].tenant
           k == [req[r] EXCEPT !.at = "read", !.url = row[t].url]
<1>1. /\ req[r].at = "select" /\ Alone(r) /\ req' = [req EXCEPT ![r] = k]
      /\ UNCHANGED <<row, urls, engines, makers, built, cause>>
  BY DEF Select, At, Alone, Set
<1>2. /\ req[r] \in Jobs(Maker) /\ t \in Tenants /\ ~req[r].owes /\ req[r].at \in LookingUp
  BY <1>1, Looking DEF LookingUp
<1>3. row[t].url \in Urls \cup {None}
  BY <1>2 DEF Inv, TypeOK
<1>4. /\ k \in Jobs(Maker) /\ k.at = "read" /\ k.url = row[t].url
      /\ k.kind = req[r].kind /\ k.tenant = t /\ k.todo = req[r].todo
      /\ k.loaded = req[r].loaded /\ k.want = req[r].want /\ k.owes = req[r].owes
  BY <1>2, <1>3 DEF Jobs, Step
<1> HIDE DEF k
<1>5. Planned(k)
  BY <1>2, <1>4, StaysLooking DEF LookingUp
<1> QED
  BY <1>1, <1>2, <1>4, <1>5, LocalsOnly

\* The use of an engine keeps the invariant.
LEMMA QueryInv ==
  ASSUME Inv, NEW r \in Requests, Query(r)
  PROVE  Inv'
<1> DEFINE k == Goes(req[r])
<1>1. /\ req[r].at \in {"smoke", "work"} /\ Alone(r) /\ req' = [req EXCEPT ![r] = k]
      /\ UNCHANGED <<row, urls, engines, makers, built, cause>>
  BY DEF Query, At, Alone, Set
<1>2. /\ req[r] \in Jobs(Maker) /\ ~req[r].owes /\ req[r].todo = <<>>
      /\ req[r].tenant \in Tenants /\ req[r].kind \in Kind
  BY <1>1, TypedJob DEF Planned, Jobs
<1>3. /\ k \in Jobs(Maker) /\ k.kind = req[r].kind /\ k.tenant = req[r].tenant /\ k.at = "done"
      /\ k.owes = FALSE
  BY <1>2, Going
<1> HIDE DEF k
<1>4. Planned(k)
  BY <1>2, <1>3 DEF Planned, LookingUp, Ended
<1> QED
  BY <1>1, <1>2, <1>3, <1>4, LocalsOnly

(***************************************************************************)
(* Failures                                                                  *)
(***************************************************************************)
LEMMA Raising ==
  ASSUME Inv, NEW r \in Requests,
         req[r].at \in {"load", "commit", "refresh", "select", "fetched", "build", "smoke", "work"}
  PROVE  LET k == Raised(req[r])
         IN  /\ k \in Jobs(Maker) /\ Planned(k) /\ k.tenant = req[r].tenant
             /\ k.at \in {"commit", "raised"} /\ k.owes = FALSE
<1> DEFINE j == req[r]
<1>1. /\ j \in Jobs(Maker) /\ Planned(j) /\ j.tenant \in Tenants /\ j.kind \in Kind
  BY TypedJob DEF Planned, Jobs
<1>2. CASE j.kind = "provision" /\ j.at \in {"select", "read", "fetched", "build", "smoke"}
  <2> DEFINE k == Revert(j)
             want == [url |-> None, tier |-> Starter]
             todo == <<"close">>
  <2>1. want \in Row /\ todo \in Seq(Step)
    BY TiersAssumption, Plans DEF Row
  <2>2. j.owes = FALSE /\ j.loaded \in Row
    BY <1>1, <1>2 DEF Planned, Jobs, Ended
  <2> HIDE DEF want, todo
  <2>3. k = [j EXCEPT !.at = "commit", !.want = want, !.todo = todo, !.url = None, !.engine = Absent]
    BY DEF Revert, want, todo
  <2>4. LET i == [j EXCEPT !.at = "commit", !.want = want, !.todo = todo, !.url = None,
                           !.engine = Absent]
        IN  /\ i \in Jobs(Maker) /\ i.at = "commit" /\ i.want = want /\ i.todo = todo
            /\ i.kind = j.kind /\ i.tenant = j.tenant /\ i.loaded = j.loaded /\ i.owes = j.owes
    BY <1>1, <2>1 DEF Jobs, Step
  <2>5. /\ k \in Jobs(Maker) /\ k.at = "commit" /\ k.want = want /\ k.todo = todo
        /\ k.kind = j.kind /\ k.tenant = j.tenant /\ k.loaded = j.loaded /\ k.owes = j.owes
    BY <2>3, <2>4
  <2> HIDE DEF k
  <2>6. Planned(k)
    BY <1>1, <1>2, <2>1, <2>2, <2>5 DEF Planned, todo, LookingUp
  <2> QED
    BY <1>2, <2>2, <2>5, <2>6 DEF Raised, k
<1>3. CASE ~(j.kind = "provision" /\ j.at \in {"select", "read", "fetched", "build", "smoke"})
  <2> DEFINE k == Ends(j, "raised")
  <2>1. k \in Jobs(Maker) /\ k.at = "raised" /\ k.kind = j.kind /\ k.tenant = j.tenant /\ k.owes = FALSE
    BY <1>1, Ending DEF Ended
  <2> HIDE DEF k
  <2>2. Planned(k)
    BY <1>1, <2>1 DEF Planned, LookingUp, Ended
  <2> QED
    BY <1>3, <2>1, <2>2 DEF Raised, k
<1> QED
  BY <1>2, <1>3

\* A URL that is refused keeps the invariant.
LEMMA RefuseUrlInv ==
  ASSUME Inv, NEW r \in Requests, RefuseUrl(r)
  PROVE  Inv'
<1> DEFINE k == Raised(req[r])
<1>1. /\ req[r].at \in {"fetched", "build"} /\ Alone(r) /\ req' = [req EXCEPT ![r] = k]
      /\ UNCHANGED <<row, urls, engines, makers, built, cause>>
  BY DEF RefuseUrl, AtBuild, At, Alone, Set
<1>2. ~req[r].owes
  BY <1>1, Looking DEF LookingUp
<1>3. /\ k \in Jobs(Maker) /\ Planned(k) /\ k.tenant = req[r].tenant
      /\ k.at \in {"commit", "raised"} /\ k.owes = FALSE
  BY <1>1, Raising
<1> HIDE DEF k
<1> QED
  BY <1>1, <1>2, <1>3, LocalsOnly

\* A handler that fails owing a close records the failure.
LEMMA FailInv ==
  ASSUME Inv, NEW r \in Requests, Fail(r)
  PROVE  Inv'
<1> DEFINE k == Raised(req[r])
           t == req[r].tenant
<1>1. /\ req[r].at \in {"load", "commit", "refresh", "select", "smoke", "work"}
      /\ Alone(r) /\ req' = [req EXCEPT ![r] = k]
      /\ UNCHANGED <<row, urls, engines, makers, built>>
      /\ cause' = IF req[r].owes THEN [cause EXCEPT ![t] = @ \cup {"failure"}] ELSE cause
  BY DEF Fail, At, Alone, Set
<1>2. /\ k \in Jobs(Maker) /\ Planned(k) /\ k.tenant = t
      /\ k.at \in {"commit", "raised"} /\ k.owes = FALSE
  BY <1>1, Raising
<1>3. t \in Tenants
  BY <1>1, TypedJob DEF Planned
<1> HIDE DEF k
<1>4. /\ cause' \in [Tenants -> SUBSET Causes]
      /\ \A s \in Tenants : cause[s] \subseteq cause'[s]
      /\ req[r].owes => "failure" \in cause'[t]
      /\ row' \in [Tenants -> Row]
  BY <1>1, <1>3 DEF Inv, TypeOK, Causes, Row
<1>5. Calm
  BY <1>1, <1>4, CalmWhenKept
<1> QED
  BY <1>1, <1>2, <1>4, <1>5, CachesKept

(***************************************************************************)
(* The caches                                                                *)
(***************************************************************************)
\* What is left to show of a step that writes a cache and no row.
LEMMA CacheStep ==
  ASSUME Inv, NEW r \in Requests, Alone(r), NEW k \in Jobs(Maker'), req' = [req EXCEPT ![r] = k],
         req[r].at \notin {"dispose"}, Planned(k), req[r].owes => k.owes /\ k.tenant = req[r].tenant,
         UNCHANGED row, cause' \in [Tenants -> SUBSET Causes],
         \A t \in Tenants : cause[t] \subseteq cause'[t],
         urls' \in [Tenants -> Urls \cup {None, Absent}],
         built' \in Seq(Urls \ Malformed), Len(built') <= MaxEngines, Len(built) <= Len(built'),
         \A n \in 1..Len(built) : built'[n] = built[n],
         engines' \in [Tenants -> 1..Len(built') \cup {Absent}],
         makers' \in [Tenants -> Maker' \cup {Absent}],
         \A t \in Tenants, n \in 1..Len(built) : Reaches(t, n) => Reaches(t, n)',
         Held(r)',
         \A t \in Tenants : Settled(t) => ~Wrong(t)',
         \A t \in Tenants : makers'[t] \notin {Absent, Shared} => Reaches(t, makers[t])'
  PROVE  Inv'
<1>1. Calm
  BY CalmWhenKept
<1>2. req'[r] = k /\ \A q \in Requests \ {r} : req'[q] = req[q]
  BY DEF Inv, TypeOK
<1>3. Maker \subseteq Maker'
  BY DEF Maker, Inv, TypeOK
<1>4. Jobs(Maker) \subseteq Jobs(Maker')
  BY <1>3 DEF Jobs
<1>5. TypeOK'
  <2>1. req \in [Requests -> Jobs(Maker)]
    BY DEF Inv, TypeOK, Jobs, Row
  <2>2. req' \in [Requests -> Jobs(Maker')]
    BY <1>4, <2>1
  <2> QED
    BY <2>2 DEF Inv, TypeOK, Jobs, Row, Causes
<1>6. ASSUME NEW q \in Requests PROVE Planned(req'[q]) /\ Held(q)'
  <2>1. CASE q = r
    BY <1>2, <2>1
  <2>2. CASE q # r
    <3>1. Len(built') \in Nat
      OBVIOUS
    <3>2. Held(q)'
      BY <1>1, <2>2, <3>1, OthersHold
    <3> QED
      BY <1>2, <2>2, <3>2 DEF Inv
  <2> QED
    BY <2>1, <2>2
<1>7. RoutedByTheRow'
  BY <1>1 DEF Calm, RoutedByTheRow, Settled, Owing
<1>8. ClosingReachesTheEngine'
  BY DEF ClosingReachesTheEngine, Reaches
<1> QED
  BY <1>5, <1>6, <1>7, <1>8 DEF Inv

\* The engine of a maker that is in the dictionary can be reached.
LEMMA MakerReaches ==
  ASSUME NEW s, NEW n, Reaches(s, n)', makers'[s] = n
  PROVE  Reaches(s, makers[s])'
BY DEF Reaches

\* A tenant whose maker stays is closed as before.
LEMMA MakerKept ==
  ASSUME Inv, NEW s \in Tenants, makers'[s] = makers[s], makers[s] \notin {Absent, Shared},
         \A n \in 1..Len(built) : Reaches(s, n) => Reaches(s, n)'
  PROVE  Reaches(s, makers[s])'
<1>1. PICK n \in 1..Len(built) : n = makers[s]
  BY DEF Inv, TypeOK, Maker
<1>2. Reaches(s, n)
  BY <1>1 DEF Inv, ClosingReachesTheEngine, Reaches
<1> QED
  BY <1>1, <1>2, MakerReaches

\* The URL a look-up has read goes to its dictionary: the invariant stays.
LEMMA StoreInv ==
  ASSUME Inv, NEW r \in Requests, Store(r)
  PROVE  Inv'
<1> DEFINE t == req[r].tenant
           k == [req[r] EXCEPT !.at = "fetched"]
<1>1. /\ req[r].at = "read" /\ Alone(r) /\ req' = [req EXCEPT ![r] = k]
      /\ urls' = [urls EXCEPT ![t] = req[r].url]
      /\ UNCHANGED <<row, engines, makers, built, cause>>
  BY DEF Store, At, Alone, Set
<1>2. /\ req[r] \in Jobs(Maker) /\ t \in Tenants /\ ~req[r].owes /\ req[r].at \in LookingUp
      /\ Settled(t) => req[r].url = row[t].url
  BY <1>1, Looking DEF LookingUp, Held
<1>3. /\ k \in Jobs(Maker) /\ k.at = "fetched" /\ k.url = req[r].url
      /\ k.kind = req[r].kind /\ k.tenant = t /\ k.todo = req[r].todo
      /\ k.loaded = req[r].loaded /\ k.want = req[r].want /\ k.owes = req[r].owes
  BY <1>2 DEF Jobs, Step
<1> HIDE DEF k
<1>4. Planned(k)
  BY <1>2, <1>3, StaysLooking DEF LookingUp
<1>5. k \in Jobs(Maker')
  BY <1>1, <1>3 DEF Maker
<1>6. \A s \in Tenants : \A n : Reaches(s, n) => Reaches(s, n)'
  BY <1>1, ReachesKept
<1>7. Calm /\ req'[r] = k
  BY <1>1, <1>2, CalmWhenKept DEF Inv, TypeOK
<1>8. Held(r)'
  BY <1>1, <1>2, <1>3, <1>7 DEF Held, Calm
<1>9. \A s \in Tenants : Settled(s) => ~Wrong(s)'
  <2> SUFFICES ASSUME NEW s \in Tenants, Settled(s) PROVE ~Wrong(s)'
    OBVIOUS
  <2>1. ~Wrong(s)
    BY DEF Inv, RoutedByTheRow, Settled, Owing
  <2> QED
    BY <1>1, <1>2, <2>1 DEF Wrong, UrlOf, Inv, TypeOK
<1>10. \A s \in Tenants : makers'[s] \notin {Absent, Shared} => Reaches(s, makers[s])'
  BY <1>1, <1>6 DEF Inv, ClosingReachesTheEngine, Reaches
<1>11. /\ cause' \in [Tenants -> SUBSET Causes] /\ \A s \in Tenants : cause[s] \subseteq cause'[s]
       /\ urls' \in [Tenants -> Urls \cup {None, Absent}]
       /\ built' \in Seq(Urls \ Malformed) /\ Len(built') <= MaxEngines /\ Len(built) <= Len(built')
       /\ \A n \in 1..Len(built) : built'[n] = built[n]
       /\ engines' \in [Tenants -> 1..Len(built') \cup {Absent}]
       /\ makers' \in [Tenants -> Maker' \cup {Absent}]
  BY <1>1, <1>2 DEF Inv, TypeOK, Causes, Jobs, Maker
<1> QED
  BY <1>1, <1>2, <1>3, <1>4, <1>5, <1>6, <1>8, <1>9, <1>10, <1>11, CacheStep

\* Of a settled tenant, the URL that an engine is about to be built for is the row's.
LEMMA Found ==
  ASSUME Inv, NEW r \in Requests, AtBuild(r)
  PROVE  /\ req[r].at \in {"fetched", "build"} /\ req[r].at \in LookingUp /\ Alone(r)
         /\ req[r] \in Jobs(Maker) /\ req[r].tenant \in Tenants /\ ~req[r].owes
         /\ Settled(req[r].tenant) => req[r].url = row[req[r].tenant].url
<1> DEFINE t == req[r].tenant
<1>1. req[r].at \in {"fetched", "build"} /\ req[r].at \in LookingUp /\ Alone(r)
  BY DEF AtBuild, At, Alone, LookingUp
<1>2. req[r] \in Jobs(Maker) /\ t \in Tenants /\ ~req[r].owes /\ Held(r)
  BY <1>1, Looking
<1>3. Settled(t) => req[r].url = row[t].url
  <2> SUFFICES ASSUME Settled(t) PROVE req[r].url = row[t].url
    OBVIOUS
  <2>1. CASE req[r].at = "fetched"
    BY <1>2, <2>1 DEF Held
  <2>2. CASE req[r].at = "build"
    <3>1. req[r].url = urls[t]
      BY <1>2, <2>2 DEF Held
    <3>2. urls[t] # Absent
      BY <1>2, <3>1, UrlsAssumption, AbsentAssumption DEF Jobs
    <3>3. ~Wrong(t)
      BY <1>2 DEF Inv, RoutedByTheRow, Settled, Owing
    <3> QED
      BY <3>1, <3>2, <3>3 DEF Wrong
  <2> QED
    BY <1>1, <2>1, <2>2
<1> QED
  BY <1>1, <1>2, <1>3

\* A maker over the shared engine keeps the invariant.
LEMMA BuildSharedInv ==
  ASSUME Inv, NEW r \in Requests, BuildShared(r)
  PROVE  Inv'
<1> DEFINE t == req[r].tenant
           j == [req[r] EXCEPT !.engine = Shared, !.url = None]
           k == Goes(j)
<1>1. /\ AtBuild(r) /\ req[r].url = None /\ req' = [req EXCEPT ![r] = k]
      /\ makers' = [makers EXCEPT ![t] = Shared]
      /\ UNCHANGED <<row, urls, engines, built, cause>>
  BY DEF BuildShared, Set
<1>2. /\ req[r].at \in {"fetched", "build"} /\ req[r].at \in LookingUp /\ Alone(r)
      /\ req[r] \in Jobs(Maker) /\ t \in Tenants /\ ~req[r].owes
      /\ Settled(t) => row[t].url = None
  BY <1>1, Found
<1>3. /\ j \in Jobs(Maker) /\ j.kind = req[r].kind /\ j.tenant = t /\ j.todo = req[r].todo
      /\ j.loaded = req[r].loaded /\ j.want = req[r].want /\ j.owes = req[r].owes
  BY <1>2 DEF Jobs, Maker
<1> HIDE DEF j
<1>4. /\ k \in Jobs(Maker) /\ Planned(k) /\ k.tenant = t
      /\ k.at \in {"work", "smoke", "done"} /\ ~k.owes
  BY <1>2, <1>3, LookedUp
<1> HIDE DEF k
<1>5. k \in Jobs(Maker')
  BY <1>1, <1>4 DEF Maker
<1>6. \A s \in Tenants : \A n : Reaches(s, n) => Reaches(s, n)'
  BY <1>1, <1>2, ReachesKept
<1>7. Held(r)'
  BY <1>1, <1>4 DEF Held, Inv, TypeOK
<1>8. \A s \in Tenants : Settled(s) => ~Wrong(s)'
  <2> SUFFICES ASSUME NEW s \in Tenants, Settled(s) PROVE ~Wrong(s)'
    OBVIOUS
  <2>1. ~Wrong(s)
    BY DEF Inv, RoutedByTheRow, Settled, Owing
  <2> QED
    BY <1>1, <1>2, <2>1 DEF Wrong, UrlOf, Inv, TypeOK
<1>9. ASSUME NEW s \in Tenants, makers'[s] \notin {Absent, Shared} PROVE Reaches(s, makers[s])'
  <2>1. makers'[s] = makers[s]
    BY <1>1, <1>9 DEF Inv, TypeOK
  <2> QED
    BY <1>6, <1>9, <2>1, MakerKept
<1>10. /\ cause' \in [Tenants -> SUBSET Causes] /\ \A s \in Tenants : cause[s] \subseteq cause'[s]
       /\ urls' \in [Tenants -> Urls \cup {None, Absent}]
       /\ built' \in Seq(Urls \ Malformed) /\ Len(built') <= MaxEngines /\ Len(built) <= Len(built')
       /\ \A n \in 1..Len(built) : built'[n] = built[n]
       /\ engines' \in [Tenants -> 1..Len(built') \cup {Absent}]
       /\ makers' \in [Tenants -> Maker' \cup {Absent}]
  BY <1>1, <1>2 DEF Inv, TypeOK, Causes, Maker
<1> QED
  BY <1>1, <1>2, <1>4, <1>5, <1>6, <1>7, <1>8, <1>9, <1>10, CacheStep

\* The maker of a new engine, once create_all has ended, keeps the invariant.
LEMMA CreateTablesInv ==
  ASSUME Inv, NEW r \in Requests, CreateTables(r)
  PROVE  Inv'
<1> DEFINE t == req[r].tenant
           k == Goes(req[r])
<1>0. PICK e : e = req[r].engine
  OBVIOUS
<1>1. /\ req[r].at = "tables" /\ Alone(r) /\ req' = [req EXCEPT ![r] = k]
      /\ makers' = [makers EXCEPT ![t] = e]
      /\ UNCHANGED <<row, urls, engines, built, cause>>
  BY <1>0 DEF CreateTables, At, Alone, Set
<1>2. /\ req[r].at \in LookingUp /\ req[r] \in Jobs(Maker) /\ t \in Tenants /\ ~req[r].owes
      /\ e \in 1..Len(built) /\ Reaches(t, e)
      /\ Settled(t) => built[e] = row[t].url
  BY <1>0, <1>1, Looking DEF LookingUp, Held
<1>3. /\ k \in Jobs(Maker) /\ Planned(k) /\ k.tenant = t
      /\ k.at \in {"work", "smoke", "done"} /\ ~k.owes
  BY <1>2, LookedUp
<1> HIDE DEF k
<1>4. k \in Jobs(Maker')
  BY <1>1, <1>3 DEF Maker
<1>5. \A s \in Tenants : \A n : Reaches(s, n) => Reaches(s, n)'
  BY <1>1, ReachesKept
<1>6. Held(r)'
  BY <1>1, <1>3 DEF Held, Inv, TypeOK
<1>7. e # Shared /\ e # Absent
  BY <1>2, AbsentAssumption
<1>8. \A s \in Tenants : Settled(s) => ~Wrong(s)'
  <2> SUFFICES ASSUME NEW s \in Tenants, Settled(s) PROVE ~Wrong(s)'
    OBVIOUS
  <2>1. ~Wrong(s)
    BY DEF Inv, RoutedByTheRow, Settled, Owing
  <2> QED
    BY <1>1, <1>2, <1>7, <2>1 DEF Wrong, UrlOf, Inv, TypeOK
<1>9. ASSUME NEW s \in Tenants, makers'[s] \notin {Absent, Shared} PROVE Reaches(s, makers[s])'
  <2>1. CASE s = t
    <3>1. makers'[s] = e
      BY <1>1, <1>2, <2>1 DEF Inv, TypeOK
    <3>2. Reaches(s, e)'
      BY <1>2, <1>5, <2>1
    <3> QED
      BY <3>1, <3>2, MakerReaches
  <2>2. CASE s # t
    <3>1. makers'[s] = makers[s]
      BY <1>1, <2>2 DEF Inv, TypeOK
    <3> QED
      BY <1>5, <1>9, <3>1, MakerKept
  <2> QED
    BY <2>1, <2>2
<1>10. /\ cause' \in [Tenants -> SUBSET Causes] /\ \A s \in Tenants : cause[s] \subseteq cause'[s]
       /\ urls' \in [Tenants -> Urls \cup {None, Absent}]
       /\ built' \in Seq(Urls \ Malformed) /\ Len(built') <= MaxEngines /\ Len(built) <= Len(built')
       /\ \A n \in 1..Len(built) : built'[n] = built[n]
       /\ engines' \in [Tenants -> 1..Len(built') \cup {Absent}]
       /\ makers' \in [Tenants -> Maker' \cup {Absent}]
  BY <1>1, <1>2 DEF Inv, TypeOK, Causes, Maker
<1> QED
  BY <1>1, <1>2, <1>3, <1>4, <1>5, <1>6, <1>8, <1>9, <1>10, CacheStep

\* A new engine keeps the invariant.
LEMMA BuildEngineInv ==
  ASSUME Inv, NEW r \in Requests, BuildEngine(r)
  PROVE  Inv'
<1> DEFINE t == req[r].tenant
           url == req[r].url
<1>0. PICK n : n = Len(built) + 1
  OBVIOUS
<1> DEFINE k == [req[r] EXCEPT !.at = "tables", !.engine = n, !.url = None]
<1>1. /\ AtBuild(r) /\ url \in Urls \ Malformed /\ n <= MaxEngines
      /\ req' = [req EXCEPT ![r] = k]
      /\ built' = Append(built, url) /\ engines' = [engines EXCEPT ![t] = n]
      /\ cause' = IF engines[t] = Absent THEN cause
                  ELSE [cause EXCEPT ![t] = @ \cup {"look-ups"}]
      /\ UNCHANGED <<row, urls, makers>>
  BY <1>0 DEF BuildEngine, Set
<1>2. /\ req[r].at \in {"fetched", "build"} /\ req[r].at \in LookingUp /\ Alone(r)
      /\ req[r] \in Jobs(Maker) /\ t \in Tenants /\ ~req[r].owes
      /\ Settled(t) => url = row[t].url
  BY <1>1, Found
<1>3. /\ built \in Seq(Urls \ Malformed) /\ Len(built) \in Nat /\ n \in Nat
  BY <1>0 DEF Inv, TypeOK
<1>4. /\ built' \in Seq(Urls \ Malformed) /\ Len(built') = n /\ built'[n] = url
      /\ \A m \in 1..Len(built) : built'[m] = built[m]
  BY <1>0, <1>1, <1>3
<1>5. Maker \subseteq Maker' /\ n \in Maker' /\ 1..Len(built) \subseteq 1..Len(built')
  BY <1>0, <1>3, <1>4 DEF Maker
<1>6. req[r] \in Jobs(Maker')
  BY <1>2, <1>5 DEF Jobs
<1>7. PICK m : m = Maker'
  OBVIOUS
<1>8. /\ k \in Jobs(m) /\ k.at = "tables" /\ k.engine = n
      /\ k.kind = req[r].kind /\ k.tenant = t /\ k.todo = req[r].todo
      /\ k.loaded = req[r].loaded /\ k.want = req[r].want /\ k.owes = req[r].owes
  BY <1>5, <1>6, <1>7 DEF Jobs, Step
<1> HIDE DEF k
<1>9. Planned(k)
  BY <1>2, <1>8, StaysLooking DEF LookingUp
<1>10. /\ cause' \in [Tenants -> SUBSET Causes] /\ \A s \in Tenants : cause[s] \subseteq cause'[s]
       /\ engines[t] # Absent => "look-ups" \in cause'[t]
       /\ urls' \in [Tenants -> Urls \cup {None, Absent}]
       /\ engines' \in [Tenants -> 1..Len(built') \cup {Absent}] /\ engines'[t] = n
       /\ \A s \in Tenants \ {t} : engines'[s] = engines[s]
       /\ makers' \in [Tenants -> Maker' \cup {Absent}]
  <2>1. /\ cause' \in [Tenants -> SUBSET Causes] /\ \A s \in Tenants : cause[s] \subseteq cause'[s]
        /\ engines[t] # Absent => "look-ups" \in cause'[t]
    BY <1>1, <1>2 DEF Inv, TypeOK, Causes
  <2>2. /\ engines \in [Tenants -> 1..Len(built') \cup {Absent}] /\ n \in 1..Len(built')
    BY <1>0, <1>3, <1>4, <1>5 DEF Inv, TypeOK
  <2>3. /\ engines' \in [Tenants -> 1..Len(built') \cup {Absent}] /\ engines'[t] = n
        /\ \A s \in Tenants \ {t} : engines'[s] = engines[s]
    BY <1>1, <1>2, <2>2
  <2> QED
    BY <1>1, <1>5, <2>1, <2>3 DEF Inv, TypeOK
<1>11. \A s \in Tenants, i \in 1..Len(built) : Reaches(s, i) => Reaches(s, i)'
  <2> SUFFICES ASSUME NEW s \in Tenants, NEW i \in 1..Len(built), Reaches(s, i)
               PROVE  Reaches(s, i)'
    OBVIOUS
  <2>1. i # Absent
    BY <1>3, AbsentAssumption
  <2>2. engines[s] = i => \/ engines'[s] = i
                          \/ cause'[s] \cap {"close", "look-ups"} # {}
    BY <1>10, <2>1
  <2> QED
    BY <1>1, <1>2, <1>10, <2>2, ReachesKept
<1>12. Calm /\ req'[r] = k
  <2>1. Calm
    BY <1>1, <1>2, <1>10, CalmWhenKept
  <2>2. req'[r] = k
    BY <1>1 DEF Inv, TypeOK
  <2> QED
    BY <2>1, <2>2
<1>13. Held(r)'
  <2>1. n \in 1..Len(built')
    BY <1>3, <1>4, <1>0
  <2>2. Settled(t)' => built'[n] = row'[t].url
    BY <1>2, <1>4, <1>8, <1>12 DEF Calm
  <2>3. engines'[t] = n
    BY <1>10
  <2> QED
    BY <1>8, <1>12, <2>1, <2>2, <2>3 DEF Held, Reaches
<1>14. \A s \in Tenants : Settled(s) => ~Wrong(s)'
  <2> SUFFICES ASSUME NEW s \in Tenants, Settled(s) PROVE ~Wrong(s)'
    OBVIOUS
  <2>1. ~Wrong(s)
    BY DEF Inv, RoutedByTheRow, Settled, Owing
  <2>2. makers[s] # Absent => UrlOf(makers[s]) = UrlOf(makers[s])'
    BY <1>1, <1>4 DEF UrlOf, Inv, TypeOK, Maker
  <2> QED
    BY <1>1, <2>1, <2>2 DEF Wrong
<1>15. ASSUME NEW s \in Tenants, makers'[s] \notin {Absent, Shared} PROVE Reaches(s, makers[s])'
  BY <1>1, <1>11, <1>15, MakerKept
<1>16. Len(built') <= MaxEngines /\ Len(built) <= Len(built')
  BY <1>0, <1>1, <1>3, <1>4
<1> QED
  BY <1>1, <1>2, <1>4, <1>7, <1>8, <1>9, <1>10, <1>11, <1>13, <1>14, <1>15, <1>16, CacheStep

(***************************************************************************)
(* Closing                                                                   *)
(***************************************************************************)
LEMMA DropInv ==
  ASSUME Inv, NEW r \in Requests, req[r].at \in {"close", "dispose"}, Alone(r), Drop(r, req[r]),
         UNCHANGED <<row, engines, built>>
  PROVE  Inv'
<1>0. PICK t : t = req[r].tenant
  OBVIOUS
<1> DEFINE j == [req[r] EXCEPT !.owes = FALSE, !.engine = Absent]
           k == Goes(j)
<1>1. /\ req' = [req EXCEPT ![r] = k]
      /\ makers' = [makers EXCEPT ![t] = Absent] /\ urls' = [urls EXCEPT ![t] = Absent]
      /\ cause' = [cause EXCEPT ![t] = IF InFlight(t) = {} THEN {} ELSE @ \cup {"close"}]
  BY <1>0 DEF Drop, Set
<1>2. /\ req[r] \in Jobs(Maker) /\ Planned(req[r]) /\ t \in Tenants
      /\ req[r].kind # "route" /\ req[r].kind \in Kind
      /\ req[r].loaded \in Row /\ req[r].want \in Row
  BY <1>0, TypedJob DEF Planned, Ended
<1>3. /\ j \in Jobs(Maker) /\ j.kind = req[r].kind /\ j.tenant = t /\ j.todo = req[r].todo
      /\ j.loaded = req[r].loaded /\ j.want = req[r].want /\ j.owes = FALSE
  BY <1>0, <1>2 DEF Jobs
<1> HIDE DEF j
<1>4. /\ k \in Jobs(Maker) /\ k.kind = j.kind /\ k.tenant = j.tenant
      /\ j.todo = <<>> => k.at = "done" /\ k.owes = FALSE
      /\ j.todo # <<>> => /\ k.at = Head(j.todo) /\ k.todo = Tail(j.todo)
                          /\ k.loaded = j.loaded /\ k.want = j.want /\ k.owes = j.owes
  BY <1>3, Going
<1> HIDE DEF k
<1>5. \/ j.todo = <<>> \/ j.todo = <<"get">> \/ j.todo = <<"get", "smoke">>
      \/ j.todo = <<"commit", "refresh", "close">>
  BY <1>2, <1>3 DEF Planned
<1>6. /\ \/ k.at = "done"
         \/ k.at = "get" /\ (k.todo = <<>> \/ k.todo = <<"smoke">>)
         \/ k.at = "commit" /\ k.todo = <<"refresh", "close">>
      /\ k.at # "done" => k.loaded \in Row /\ k.want \in Row
      /\ k.owes = FALSE
  <2>1. CASE j.todo = <<>>
    BY <1>4, <2>1
  <2>2. CASE j.todo # <<>>
    BY <1>2, <1>3, <1>4, <1>5, <2>2, Steps
  <2> QED
    BY <2>1, <2>2
<1>7. Planned(k)
  BY <1>2, <1>3, <1>4, <1>6 DEF Planned, LookingUp, Ended
<1>8. /\ req'[r] = k /\ \A q \in Requests \ {r} : req'[q] = req[q]
      /\ urls'[t] = Absent /\ makers'[t] = Absent
      /\ cause' \in [Tenants -> SUBSET Causes]
      /\ InFlight(t) # {} => "close" \in cause'[t]
      /\ \A s \in Tenants \ {t} : urls'[s] = urls[s] /\ makers'[s] = makers[s] /\ cause'[s] = cause[s]
  <2>1. cause'[t] = {} \/ cause'[t] = cause[t] \cup {"close"}
    BY <1>1, <1>2 DEF Inv, TypeOK
  <2>2. InFlight(t) # {} => "close" \in cause'[t]
    BY <1>1, <1>2 DEF Inv, TypeOK
  <2>3. \A s \in Tenants \ {t} : urls'[s] = urls[s] /\ makers'[s] = makers[s] /\ cause'[s] = cause[s]
    BY <1>1 DEF Inv, TypeOK
  <2>4. cause' \in [Tenants -> SUBSET Causes]
    BY <1>1, <1>2, <2>1, <2>3 DEF Inv, TypeOK, Causes
  <2> QED
    BY <1>1, <1>2, <2>2, <2>3, <2>4 DEF Inv, TypeOK
<1>9. TypeOK'
  <2>1. req' \in [Requests -> Jobs(Maker')]
    BY <1>1, <1>4 DEF Inv, TypeOK, Jobs, Row, Maker
  <2> QED
    BY <1>1, <1>8, <2>1 DEF Inv, TypeOK, Jobs, Row, Causes, Maker
<1>10. ASSUME NEW s \in Tenants \ {t}
       PROVE  (Settled(s)' => Settled(s)) /\ \A n : Reaches(s, n) => Reaches(s, n)'
  <2>1. \A q \in Requests : req[q].tenant = s => req'[q] = req[q]
    BY <1>0, <1>8, <1>10
  <2>2. Settled(s)' => Settled(s)
    BY <1>8, <1>10, <2>1 DEF Settled, Owing
  <2>3. \A n : Reaches(s, n) => Reaches(s, n)'
    BY <1>8, <1>10, <2>1 DEF Reaches
  <2> QED
    BY <2>2, <2>3
<1>11. ASSUME NEW q \in Requests PROVE Planned(req'[q]) /\ Held(q)'
  <2>1. CASE q = r
    BY <1>6, <1>7, <1>8, <2>1 DEF Held
  <2>2. CASE q # r
    <3>1. req'[q] = req[q] /\ Planned(req[q]) /\ Held(q) /\ req[q].at # "build"
      BY <1>8, <2>2 DEF Inv, Alone, Synchronous
    <3>2. PICK s : s = req[q].tenant
      OBVIOUS
    <3>3. CASE req[q].at \in {"read", "fetched", "tables"} /\ s = t
      <4>1. "close" \in cause'[t]
        BY <1>8, <3>2, <3>3 DEF InFlight
      <4>2. ~Settled(s)' /\ \A n : Reaches(s, n)'
        BY <3>3, <4>1 DEF Settled, Reaches
      <4> QED
        BY <3>1, <3>2, <3>3, <4>2 DEF Held
    <3>4. CASE req[q].at \in {"read", "fetched", "tables"} /\ s # t
      <4>1. s \in Tenants \ {t}
        BY <3>1, <3>2, <3>4 DEF Planned
      <4>2. (Settled(s)' => Settled(s)) /\ \A n : Reaches(s, n) => Reaches(s, n)'
        BY <1>10, <4>1
      <4> QED
        BY <3>1, <3>2, <3>4, <4>2 DEF Held
    <3>5. CASE req[q].at \notin {"read", "fetched", "tables"}
      BY <3>1, <3>5 DEF Held
    <3> QED
      BY <3>1, <3>3, <3>4, <3>5
  <2> QED
    BY <2>1, <2>2
<1>12. RoutedByTheRow'
  <2> SUFFICES ASSUME NEW s \in Tenants, Settled(s)' PROVE ~Wrong(s)'
    BY DEF RoutedByTheRow, Settled, Owing
  <2>1. CASE s = t
    BY <1>8, <2>1 DEF Wrong
  <2>2. CASE s # t
    <3>1. ~Wrong(s)
      BY <1>10, <2>2 DEF Inv, RoutedByTheRow, Settled, Owing
    <3> QED
      BY <1>8, <2>2, <3>1 DEF Wrong, UrlOf
  <2> QED
    BY <2>1, <2>2
<1>13. ClosingReachesTheEngine'
  <2> SUFFICES ASSUME NEW s \in Tenants, makers'[s] \notin {Absent, Shared}
               PROVE  Reaches(s, makers[s])'
    BY DEF ClosingReachesTheEngine, Reaches
  <2>1. s # t /\ makers'[s] = makers[s]
    BY <1>8
  <2> QED
    BY <1>10, <2>1, MakerKept
<1> QED
  BY <1>9, <1>11, <1>12, <1>13 DEF Inv

\* A close takes the tenant out of the three dictionaries: the invariant stays.
LEMMA CloseInv ==
  ASSUME Inv, NEW r \in Requests, Close(r)
  PROVE  Inv'
<1>0. PICK t : t = req[r].tenant
  OBVIOUS
<1>1. req[r].at = "close" /\ Alone(r) /\ UNCHANGED <<row, built>>
  BY DEF Close, At, Alone
<1>2. CASE engines[t] = Absent
  <2>1. Drop(r, req[r]) /\ UNCHANGED engines
    BY <1>0, <1>2 DEF Close
  <2> QED
    BY <1>1, <2>1, DropInv
<1>3. CASE engines[t] # Absent
  <2> DEFINE k == [req[r] EXCEPT !.at = "dispose", !.engine = engines[t]]
  <2>1. /\ req' = [req EXCEPT ![r] = k] /\ engines' = [engines EXCEPT ![t] = Absent]
        /\ UNCHANGED <<row, urls, makers, built, cause>>
    BY <1>0, <1>1, <1>3 DEF Close, Set
  <2>2. /\ req[r] \in Jobs(Maker) /\ Planned(req[r]) /\ t \in Tenants /\ req[r].kind # "route"
        /\ req[r].kind \in Kind /\ req[r].loaded \in Row /\ req[r].want \in Row
    BY <1>0, <1>1, TypedJob DEF Planned, Ended
  <2>3. engines[t] \in Maker
    BY <1>3, <2>2 DEF Inv, TypeOK, Maker
  <2>4. /\ k \in Jobs(Maker) /\ k.at = "dispose" /\ k.engine = engines[t]
        /\ k.kind = req[r].kind /\ k.tenant = t /\ k.todo = req[r].todo
        /\ k.loaded = req[r].loaded /\ k.want = req[r].want /\ k.owes = req[r].owes
    BY <1>0, <2>2, <2>3 DEF Jobs, Step
  <2> HIDE DEF k
  <2>5. Planned(k)
    BY <1>1, <2>2, <2>4 DEF Planned, LookingUp
  <2>6. k \in Jobs(Maker')
    BY <2>1, <2>4 DEF Maker
  <2>7. \A s \in Tenants : \A n : Reaches(s, n) => Reaches(s, n)'
    <3> SUFFICES ASSUME NEW s \in Tenants, NEW n, Reaches(s, n) PROVE Reaches(s, n)'
      OBVIOUS
    <3>1. engines[s] = n => engines'[s] = n \/ (k.tenant = s /\ k.at = "dispose" /\ k.engine = n)
      BY <2>1, <2>4 DEF Inv, TypeOK
    <3> QED
      BY <1>1, <2>1, <3>1, ReachesKept
  <2>8. Held(r)'
    BY <2>1, <2>4 DEF Held, Inv, TypeOK
  <2>9. \A s \in Tenants : Settled(s) => ~Wrong(s)'
    <3> SUFFICES ASSUME NEW s \in Tenants, Settled(s) PROVE ~Wrong(s)'
      OBVIOUS
    <3>1. ~Wrong(s)
      BY DEF Inv, RoutedByTheRow, Settled, Owing
    <3> QED
      BY <2>1, <3>1 DEF Wrong, UrlOf
  <2>10. \A s \in Tenants : makers'[s] \notin {Absent, Shared} => Reaches(s, makers[s])'
    BY <2>1, <2>7, MakerKept
  <2>11. /\ cause' \in [Tenants -> SUBSET Causes] /\ \A s \in Tenants : cause[s] \subseteq cause'[s]
         /\ urls' \in [Tenants -> Urls \cup {None, Absent}]
         /\ built' \in Seq(Urls \ Malformed) /\ Len(built') <= MaxEngines /\ Len(built) <= Len(built')
         /\ \A n \in 1..Len(built) : built'[n] = built[n]
         /\ engines' \in [Tenants -> 1..Len(built') \cup {Absent}]
         /\ makers' \in [Tenants -> Maker' \cup {Absent}]
    BY <2>1, <2>2 DEF Inv, TypeOK, Causes, Maker
  <2> QED
    BY <1>0, <1>1, <2>1, <2>4, <2>5, <2>6, <2>7, <2>8, <2>9, <2>10, <2>11, CacheStep
<1> QED
  BY <1>2, <1>3

\* The dispose of an engine keeps the invariant.
LEMMA DisposeInv ==
  ASSUME Inv, NEW r \in Requests, Dispose(r)
  PROVE  Inv'
<1>1. /\ req[r].at = "dispose" /\ Alone(r) /\ Drop(r, req[r])
      /\ UNCHANGED <<row, engines, built>>
  BY DEF Dispose, At, Alone
<1> QED
  BY <1>1, DropInv

(***************************************************************************)
(* Every step                                                                *)
(***************************************************************************)
LEMMA InitInv == Init => Inv
<1> SUFFICES ASSUME Init PROVE Inv
  OBVIOUS
<1>1. TypeOK
  BY MaxEnginesAssumption DEF Init, TypeOK, Idle, Step, Maker
<1>2. ASSUME NEW r \in Requests PROVE Planned(req[r]) /\ Held(r)
  BY DEF Init, Idle, Planned, Held, LookingUp, Ended
<1>3. RoutedByTheRow
  BY DEF Init, RoutedByTheRow, Wrong
<1>4. ClosingReachesTheEngine
  BY DEF Init, ClosingReachesTheEngine
<1> QED
  BY <1>1, <1>2, <1>3, <1>4 DEF Inv

\* The invariant is inductive.
LEMMA NextInv == Inv /\ [Next]_vars => Inv'
<1> SUFFICES ASSUME Inv, [Next]_vars PROVE Inv'
  OBVIOUS
<1>1. CASE UNCHANGED vars
  <2>1. UNCHANGED <<row, urls, engines, makers, built, req, cause>>
    BY <1>1 DEF vars
  <2>2. TypeOK'
    BY <2>1 DEF Inv, TypeOK, Maker
  <2>3. ASSUME NEW r \in Requests PROVE Planned(req'[r]) /\ Held(r)'
    BY <2>1 DEF Inv, Held, Settled, Owing, Reaches
  <2>4. RoutedByTheRow'
    BY <2>1 DEF Inv, RoutedByTheRow, Wrong, UrlOf
  <2>5. ClosingReachesTheEngine'
    BY <2>1 DEF Inv, ClosingReachesTheEngine
  <2> QED
    BY <2>2, <2>3, <2>4, <2>5 DEF Inv
<1>2. ASSUME NEW r \in Requests, NEW t \in Tenants, Receive(r, t) PROVE Inv'
  <2>1. CASE Route(r, t)
    BY <2>1, CallInv DEF Route, Kind
  <2>2. CASE UpgradeTenant(r, t)
    BY <2>2, CallInv DEF UpgradeTenant, Kind
  <2>3. CASE ProvisionDedicatedDb(r, t)
    BY <2>3, CallInv DEF ProvisionDedicatedDb, Kind
  <2>4. CASE MigrateDedicatedDb(r, t)
    BY <2>4, CallInv DEF MigrateDedicatedDb, Kind
  <2>5. CASE ActivateDedicatedDb(r, t)
    BY <2>5, CallInv DEF ActivateDedicatedDb, Kind
  <2> QED
    BY <1>2, <2>1, <2>2, <2>3, <2>4, <2>5 DEF Receive
<1>3. ASSUME NEW r \in Requests, LookUp(r) PROVE Inv'
  BY <1>3, GetInv, SelectInv, StoreInv, BuildSharedInv, BuildEngineInv, RefuseUrlInv,
     CreateTablesInv DEF LookUp
<1>4. ASSUME NEW r \in Requests, Handler(r) PROVE Inv'
  BY <1>3, <1>4, LoadInv, CommitInv, RefreshInv, CloseInv, DisposeInv, QueryInv, FailInv
     DEF Handler
<1> QED
  BY <1>1, <1>2, <1>4 DEF Next

\* It holds in every reachable state.
LEMMA AlwaysInv == Spec => []Inv
BY InitInv, NextInv, PTL DEF Spec

\* The three dictionaries of TenantDBManager hold URLs, engines that were built
\* and makers of those, at any moment of any interleaving of handlers.
THEOREM TenantDBTypeCorrect == Spec => []TypeOK
<1>1. Inv => TypeOK
  BY DEF Inv
<1> QED
  BY <1>1, AlwaysInv, PTL

\* For any number of tenants and requests: the caches of TenantDBManager send a
\* tenant to the database of its row, but while the handler that changed the
\* row still has close_tenant before it, and after a close that a look-up
\* outlived or a handler that failed between its commit and its close.
THEOREM RequestsAreRouted == Spec => []RoutedByTheRow
<1>1. Inv => RoutedByTheRow
  BY DEF Inv
<1> QED
  BY <1>1, AlwaysInv, PTL

\* For any number of tenants and requests: the engine behind the session maker
\* that get_session_maker returns is the one that close_tenant disposes of,
\* unless two look-ups of the tenant, or a look-up and a close, overlapped.
THEOREM ClosingReaches == Spec => []ClosingReachesTheEngine
<1>1. Inv => ClosingReachesTheEngine
  BY DEF Inv
<1> QED
  BY <1>1, AlwaysInv, PTL
=============================================================================
