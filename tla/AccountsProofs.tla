---------------------------- MODULE AccountsProofs ----------------------------
(***************************************************************************)
(* Theorems about Accounts, for any number of accounts, browsers and       *)
(* requests under way, and any operations they may ask for.                *)
(***************************************************************************)
EXTENDS Accounts, TLAPS

Step == {"sent", "read", "check", "write", "answered"}

Reply == [api : SUBSET Cookie, page : SUBSET Cookie]

RequestRow ==
    [at : Step, b : Browser, op : Operation, cookie : Cookie,
     shown : UserRow \cup {NULL}, copy : UserRow \cup {NULL}, reply : Reply]

RequestsOK == requests \in [Request -> RequestRow \cup {NoRequest}]

TypeInv == AccountsTypeOK /\ RequestsOK

LEMMA AskingIsARow ==
    ASSUME RequestsOK, NEW r \in Request, requests[r] # NoRequest
    PROVE  /\ requests[r] \in RequestRow
           /\ requests[r].op \in Operation
BY DEF RequestsOK, RequestRow

LEMMA RowIsAsking == \A q \in RequestRow : q # NoRequest
<1> SUFFICES ASSUME NEW q \in RequestRow, q = NoRequest PROVE FALSE
  OBVIOUS
<1>1. q.at \in Step
  BY DEF RequestRow
<1>2. q.at = "none"
  BY DEF NoRequest
<1> QED
  BY <1>1, <1>2 DEF Step

-----------------------------------------------------------------------------
(* What an action does to the request it serves *)

(* The request of r goes on, asking what it asked, and may have read the     *)
(* account that it names; the others stay.                                   *)
ActsOn(r) ==
    /\ requests[r] \in RequestRow /\ requests'[r] \in RequestRow
    /\ requests' \in [Request -> RequestRow \cup {NoRequest}]
    /\ \A s \in Request : s # r => requests'[s] = requests[s]
    /\ requests'[r].b = requests[r].b
    /\ requests'[r].op = requests[r].op
    /\ requests'[r].cookie = requests[r].cookie
    /\ requests'[r].shown = requests[r].shown
    /\ \/ requests'[r].copy = requests[r].copy
       \/ Exists(Target(r)) /\ requests'[r].copy = users[Target(r)]

LEMMA ActsOnByRow ==
    ASSUME RequestsOK, NEW r \in Request, requests[r] \in RequestRow,
           NEW q \in RequestRow, requests' = [requests EXCEPT ![r] = q],
           q.b = requests[r].b, q.op = requests[r].op, q.cookie = requests[r].cookie,
           q.shown = requests[r].shown,
           q.copy = requests[r].copy \/ (Exists(Target(r)) /\ q.copy = users[Target(r)])
    PROVE  ActsOn(r) /\ requests'[r] = q
BY DEF RequestsOK, ActsOn

LEMMA AnswersEffect ==
    ASSUME RequestsOK, NEW r \in Request, requests[r] # NoRequest,
           NEW reply \in Reply, Answers(r, reply)
    PROVE  /\ ActsOn(r)
           /\ requests'[r].at = "answered"
           /\ requests'[r].reply = reply
<1> DEFINE q == [requests[r] EXCEPT !.at = "answered", !.reply = reply]
<1>1. requests[r] \in RequestRow
  BY AskingIsARow
<1>2. /\ q \in RequestRow /\ q.at = "answered" /\ q.reply = reply
      /\ q.b = requests[r].b /\ q.op = requests[r].op /\ q.cookie = requests[r].cookie
      /\ q.shown = requests[r].shown /\ q.copy = requests[r].copy
  BY <1>1 DEF RequestRow, Step
<1>3. requests' = [requests EXCEPT ![r] = q]
  BY DEF Answers
<1> HIDE DEF q
<1> QED
  BY <1>1, <1>2, <1>3, ActsOnByRow

LEMMA GoesEffect ==
    ASSUME RequestsOK, NEW r \in Request, requests[r] # NoRequest,
           NEW step \in Step, Goes(r, step)
    PROVE  /\ ActsOn(r)
           /\ requests'[r].at = step
           /\ requests'[r].reply = requests[r].reply
           /\ requests'[r].copy = requests[r].copy
<1> DEFINE q == [requests[r] EXCEPT !.at = step]
<1>1. requests[r] \in RequestRow
  BY AskingIsARow
<1>2. /\ q \in RequestRow /\ q.at = step
      /\ q.reply = requests[r].reply /\ q.copy = requests[r].copy /\ q.shown = requests[r].shown
      /\ q.b = requests[r].b /\ q.op = requests[r].op /\ q.cookie = requests[r].cookie
  BY <1>1 DEF RequestRow
<1>3. requests' = [requests EXCEPT ![r] = q]
  BY DEF Goes
<1> HIDE DEF q
<1> QED
  BY <1>1, <1>2, <1>3, ActsOnByRow

(* An authorisation either refuses, with the cookie of the request's surface *)
(* perhaps cleared, or finds the account and lets its role decide.           *)
LEMMA AuthorizeEffect ==
    ASSUME TypeInv, NEW r \in Request, Authorize(r)
    PROVE  /\ ActsOn(r)
           /\ requests[r].at = "sent"
           /\ requests'[r].at \in {"answered", "read", "write"}
           /\ requests'[r].at # "answered" =>
                LET c == requests[r].cookie IN
                /\ c # NULL /\ Exists(c.u) /\ users[c.u].active
                /\ MayAsk(users[c.u].role, Op(r))
                /\ requests'[r].at = FirstStep(Op(r))
           /\ LET reply == requests'[r].reply
                  on == Op(r).on
                  c  == requests[r].cookie
              IN \/ reply = Keep
                 \/ c # NULL /\ reply = [Keep EXCEPT ![on] = {NULL}]
                 \/ /\ c # NULL
                    /\ reply.api = requests[r].reply.api
                    /\ reply.page = IF on = "page"
                                    THEN {[c EXCEPT !.role = EffectiveRole(c)]} ELSE {}
<1> DEFINE c == requests[r].cookie
           on == Op(r).on
<1>1. /\ requests[r] # NoRequest /\ requests[r] \in RequestRow /\ Op(r) \in Operation
      /\ requests[r].at = "sent"
  BY AskingIsARow DEF Authorize, At, TypeInv, Op
<1>2. on \in {"api", "page"}
  BY <1>1, OperationAssumption
<1>3. Keep \in Reply /\ [Keep EXCEPT ![on] = {NULL}] \in Reply
  BY <1>2 DEF Keep, Reply, Cookie
<1>4. CASE Answers(r, Keep)
  BY <1>1, <1>3, <1>4, AnswersEffect DEF TypeInv
<1>5. CASE c # NULL /\ Answers(r, [Keep EXCEPT ![on] = {NULL}])
  BY <1>1, <1>3, <1>5, AnswersEffect DEF TypeInv
<1> DEFINE at == IF MayAsk(EffectiveRole(c), Op(r)) THEN FirstStep(Op(r)) ELSE "answered"
           page == IF on = "page" THEN {[c EXCEPT !.role = EffectiveRole(c)]} ELSE {}
           Found == /\ c # NULL /\ Exists(c.u) /\ users[c.u].active
                    /\ requests' = [requests EXCEPT ![r].at = at, ![r].reply.page = page]
<1>6. ASSUME Found
      PROVE  /\ ActsOn(r)
             /\ requests'[r].at = at /\ at \in {"answered", "read", "write"}
             /\ requests'[r].reply.api = requests[r].reply.api
             /\ requests'[r].reply.page = page
  <2> DEFINE p == [requests[r].reply EXCEPT !.page = page]
             q == [requests[r] EXCEPT !.at = at, !.reply = p]
  <2>1. at \in {"answered", "read", "write"}
    BY <1>6 DEF FirstStep
  <2>2. c \in [u : Account, role : Role] /\ users[c.u] \in UserRow
    BY <1>1, <1>6 DEF RequestRow, Cookie, Exists, TypeInv, AccountsTypeOK
  <2>3. [c EXCEPT !.role = EffectiveRole(c)] \in Cookie
    BY <2>2 DEF Cookie, EffectiveRole, UserRow
  <2>4. page \in SUBSET Cookie
    BY <1>6, <2>3
  <2>5. p \in Reply /\ p.page = page /\ p.api = requests[r].reply.api
    BY <1>1, <2>4 DEF Reply, RequestRow
  <2>6. requests' = [requests EXCEPT ![r] = q]
    BY <1>6
  <2> HIDE DEF p
  <2>7. /\ q \in RequestRow /\ q.at = at /\ q.reply = p
        /\ q.b = requests[r].b /\ q.op = requests[r].op /\ q.cookie = requests[r].cookie
        /\ q.shown = requests[r].shown /\ q.copy = requests[r].copy
    BY <1>1, <2>1, <2>5 DEF RequestRow, Step
  <2> HIDE DEF q
  <2>8. ActsOn(r) /\ requests'[r] = q
    BY <1>1, <2>6, <2>7, ActsOnByRow DEF TypeInv
  <2> QED
    BY <2>1, <2>5, <2>7, <2>8
<1>7. CASE Found
  <2>1. c # NULL /\ Exists(c.u) /\ users[c.u].active
    BY <1>7
  <2>2. at # "answered" => MayAsk(users[c.u].role, Op(r)) /\ at = FirstStep(Op(r))
    BY DEF EffectiveRole
  <2> HIDE DEF at
  <2> QED
    BY <1>1, <1>6, <1>7, <2>1, <2>2
<1>8. \/ Answers(r, Keep)
      \/ c # NULL /\ Answers(r, [Keep EXCEPT ![on] = {NULL}])
      \/ Found
  BY DEF Authorize
<1> QED
  BY <1>4, <1>5, <1>7, <1>8

LEMMA ReadEffect ==
    ASSUME TypeInv, NEW r \in Request, Read(r), Op(r).do \in {"edit", "update", "password"},
           Op(r).do = "password" => requests[r].cookie # NULL
    PROVE  /\ ActsOn(r)
           /\ requests[r].at = "read"
           /\ requests'[r].at \in {"answered", "check", "write"}
           /\ requests'[r].reply = requests[r].reply
           /\ requests'[r].at = "check" => Op(r).do = "password"
           /\ requests'[r].at = "write" => Op(r).do = "update"
           /\ requests'[r].at # "answered" =>
                Exists(Target(r)) /\ requests'[r].copy = users[Target(r)]
<1> DEFINE step == AfterRead(Op(r))
           row  == users[Target(r)]
           q    == [requests[r] EXCEPT !.copy = row, !.at = step]
<1>1. /\ requests[r] # NoRequest /\ requests[r] \in RequestRow /\ Op(r) \in Operation
      /\ requests[r].at = "read"
  BY AskingIsARow DEF Read, At, TypeInv, Op
<1>2. Target(r) \in Account
  BY <1>1, OperationAssumption DEF Target, RequestRow, Cookie, Op
<1>3. CASE ~Exists(Target(r))
  <2>1. Goes(r, "answered")
    BY <1>3 DEF Read, Goes
  <2> QED
    BY <1>1, <2>1, GoesEffect DEF Step, TypeInv
<1>4. CASE Exists(Target(r))
  <2>1. row \in UserRow
    BY <1>2, <1>4 DEF Exists, TypeInv, AccountsTypeOK
  <2>2. requests' = [requests EXCEPT ![r] = q]
    BY <1>4 DEF Read
  <2>3. /\ step \in {"answered", "check", "write"}
        /\ step = "check" => Op(r).do = "password"
        /\ step = "write" => Op(r).do = "update"
    BY DEF AfterRead
  <2> HIDE DEF row, step
  <2>4. /\ q \in RequestRow /\ q.at = step /\ q.copy = row /\ q.reply = requests[r].reply
        /\ q.b = requests[r].b /\ q.op = requests[r].op /\ q.cookie = requests[r].cookie
        /\ q.shown = requests[r].shown
    BY <1>1, <2>1, <2>3 DEF RequestRow, Step
  <2> HIDE DEF q
  <2>5. ActsOn(r) /\ requests'[r] = q
    BY <1>1, <1>4, <2>2, <2>4, ActsOnByRow DEF TypeInv, row
  <2> QED
    BY <1>1, <1>4, <2>3, <2>4, <2>5 DEF row
<1> QED
  BY <1>3, <1>4

-----------------------------------------------------------------------------
(* What a statement does to the users table *)

SameButActive(x, y) ==
    /\ x.role = y.role /\ x.version = y.version /\ x.rotate = y.rotate
    /\ x.pw = y.pw /\ x.renewed = y.renewed /\ x.revived = y.revived

(* An account is never forgotten: each change other than a deactivation has  *)
(* a version of its own, a rotated password stays rotated, and only a        *)
(* revival makes an inactive account active.                                 *)
Grows(u) ==
    /\ users[u] \in UserRow /\ users'[u] \in UserRow
    /\ users'[u].version >= users[u].version
    /\ users'[u].version = users[u].version => SameButActive(users'[u], users[u])
    /\ users'[u].rotate => users[u].rotate
    /\ users[u].renewed => users'[u].renewed
    /\ users[u].revived => users'[u].revived
    /\ ~users[u].active /\ users'[u].active => users'[u].revived

UsersGrow ==
    /\ users' \in [Account -> UserRow \cup {NULL}]
    /\ \A u \in Account : Exists(u) => Grows(u)

LEMMA UsersStay ==
    ASSUME AccountsTypeOK, users' = users
    PROVE  UsersGrow
BY DEF AccountsTypeOK, UsersGrow, Grows, Exists, SameButActive, UserRow

LEMMA GrowsByRow ==
    ASSUME AccountsTypeOK, NEW u \in Account, Exists(u),
           NEW row \in UserRow, users' = [users EXCEPT ![u] = row],
           row.version >= users[u].version,
           row.version = users[u].version => SameButActive(row, users[u]),
           row.rotate => users[u].rotate,
           users[u].renewed => row.renewed,
           users[u].revived => row.revived,
           ~users[u].active /\ row.active => row.revived
    PROVE  UsersGrow
<1>1. users' \in [Account -> UserRow \cup {NULL}] /\ users'[u] = row
  BY DEF AccountsTypeOK
<1>2. \A v \in Account : v # u => users'[v] = users[v]
  BY DEF AccountsTypeOK
<1>3. ASSUME NEW v \in Account, Exists(v), v # u
      PROVE  Grows(v)
  BY <1>2, <1>3 DEF Grows, Exists, AccountsTypeOK, SameButActive, UserRow
<1>4. Grows(u)
  BY <1>1 DEF Grows, Exists, AccountsTypeOK
<1> QED
  BY <1>1, <1>3, <1>4 DEF UsersGrow

LEMMA InsertEffect ==
    ASSUME AccountsTypeOK, NEW u \in Account, NEW role \in Role, NEW pw \in Password,
           NEW rotate \in BOOLEAN, Insert(u, role, pw, rotate)
    PROVE  /\ UsersGrow
           /\ \A v \in Account :
                \/ users'[v] = users[v]
                \/ /\ ~Exists(v)
                   /\ users'[v].pw = pw /\ users'[v].rotate = rotate
                   /\ users'[v].renewed = ~rotate
<1> DEFINE row == [role |-> role, active |-> TRUE, version |-> 1, rotate |-> rotate, pw |-> pw,
                   renewed |-> ~rotate, revived |-> FALSE]
<1>1. row \in UserRow /\ row.pw = pw /\ row.rotate = rotate /\ row.renewed = ~rotate
  BY DEF UserRow
<1>2. CASE Exists(u)
  BY <1>2, UsersStay DEF Insert
<1>3. CASE ~Exists(u)
  <2>1. users' = [users EXCEPT ![u] = row]
    BY <1>3 DEF Insert
  <2> HIDE DEF row
  <2>2. users' \in [Account -> UserRow \cup {NULL}] /\ users'[u] = row
    BY <1>1, <2>1 DEF AccountsTypeOK
  <2>3. \A v \in Account : v # u => users'[v] = users[v]
    BY <2>1 DEF AccountsTypeOK
  <2>4. ASSUME NEW v \in Account, Exists(v)
        PROVE  Grows(v)
    BY <1>3, <2>3, <2>4 DEF Grows, Exists, AccountsTypeOK, SameButActive, UserRow
  <2> QED
    BY <1>1, <1>3, <2>2, <2>3, <2>4 DEF UsersGrow
<1> QED
  BY <1>2, <1>3

LEMMA UpdateEffect ==
    ASSUME AccountsTypeOK, NEW u \in Account, NEW copy \in UserRow, NEW role \in Role,
           Update(u, copy, role)
    PROVE  /\ UsersGrow
           /\ users' # users => Matches(u, copy)
           /\ \A v \in Account :
                \/ users'[v] = users[v]
                \/ /\ v = u /\ Exists(u)
                   /\ users'[u].active => copy.active
                   /\ users'[u].pw = users[u].pw
                   /\ users[u].rotate => users'[u].rotate
<1>1. CASE ~Matches(u, copy)
  BY <1>1, UsersStay DEF Update
<1>2. CASE Matches(u, copy)
  <2> DEFINE n == users[u].version + 1
             revived == users[u].revived \/ (copy.active /\ ~users[u].active)
             row == [users[u] EXCEPT !.role = role, !.active = copy.active, !.version = n,
                                     !.revived = revived]
  <2>1. Exists(u) /\ users[u] \in UserRow
    BY <1>2 DEF Matches, Exists, AccountsTypeOK
  <2>2. /\ n \in Nat /\ n > users[u].version /\ users[u].version \in Nat
        /\ copy.active \in BOOLEAN
    BY <2>1 DEF UserRow
  <2>3. users' = [users EXCEPT ![u] = row]
    BY <1>2 DEF Update
  <2>4. /\ revived \in BOOLEAN
        /\ users[u].revived => revived
        /\ ~users[u].active /\ copy.active => revived
    OBVIOUS
  <2> HIDE DEF n, revived
  <2>5. /\ row \in UserRow /\ row.active = copy.active /\ row.version = n
        /\ row.pw = users[u].pw
    BY <2>1, <2>2, <2>4 DEF UserRow
  <2>8. /\ row.active => copy.active
        /\ users[u].revived => row.revived
        /\ ~users[u].active /\ row.active => row.revived
        /\ row.rotate => users[u].rotate
        /\ users[u].rotate => row.rotate
        /\ users[u].renewed => row.renewed
    BY <2>1, <2>2, <2>4 DEF UserRow
  <2> HIDE DEF row
  <2>9. row.version >= users[u].version /\ row.version # users[u].version
    BY <2>2, <2>5
  <2>6. UsersGrow
    BY <2>1, <2>3, <2>5, <2>8, <2>9, GrowsByRow
  <2>7. users'[u] = row /\ \A v \in Account : v # u => users'[v] = users[v]
    BY <2>3 DEF AccountsTypeOK
  <2> QED
    BY <1>2, <2>1, <2>5, <2>6, <2>7, <2>8
<1> QED
  BY <1>1, <1>2

LEMMA DeactivateEffect ==
    ASSUME AccountsTypeOK, NEW u \in Account, Deactivate(u)
    PROVE  /\ UsersGrow
           /\ \A v \in Account :
                \/ users'[v] = users[v]
                \/ /\ v = u /\ Exists(u)
                   /\ ~users'[u].active
                   /\ users'[u].pw = users[u].pw
<1>1. CASE ~Exists(u)
  BY <1>1, UsersStay DEF Deactivate
<1>2. CASE Exists(u)
  <2> DEFINE row == [users[u] EXCEPT !.active = FALSE]
  <2>1. users[u] \in UserRow
    BY <1>2 DEF Exists, AccountsTypeOK
  <2>2. users' = [users EXCEPT ![u] = row]
    BY <1>2 DEF Deactivate
  <2>3. /\ row \in UserRow /\ row.active = FALSE /\ row.version = users[u].version
        /\ SameButActive(row, users[u])
    BY <2>1 DEF UserRow, SameButActive
  <2> HIDE DEF row
  <2>4. users[u].version >= users[u].version
    BY <2>1 DEF UserRow
  <2>5. UsersGrow
    BY <1>2, <2>2, <2>3, <2>4, GrowsByRow DEF SameButActive
  <2>6. users'[u] = row /\ \A v \in Account : v # u => users'[v] = users[v]
    BY <2>2 DEF AccountsTypeOK
  <2> QED
    BY <1>2, <2>3, <2>5, <2>6 DEF SameButActive
<1> QED
  BY <1>1, <1>2

LEMMA UpdatePasswordEffect ==
    ASSUME AccountsTypeOK, NEW u \in Account, Exists(u), NEW pw \in Password,
           UpdatePassword(u, pw)
    PROVE  /\ UsersGrow
           /\ \A v \in Account : v # u => users'[v] = users[v]
           /\ users'[u].pw = pw /\ users'[u].active = users[u].active
           /\ pw # BootstrapPassword => users'[u].renewed
<1> DEFINE n == users[u].version + 1
           renewed == users[u].renewed \/ pw # BootstrapPassword
           row == [users[u] EXCEPT !.pw = pw, !.rotate = FALSE, !.version = n,
                                   !.renewed = renewed]
<1>1. users[u] \in UserRow
  BY DEF Exists, AccountsTypeOK
<1>2. /\ n \in Nat /\ n > users[u].version /\ users[u].version \in Nat
  BY <1>1 DEF UserRow
<1>3. users' = [users EXCEPT ![u] = row]
  BY DEF UpdatePassword
<1>4. /\ renewed \in BOOLEAN
      /\ users[u].renewed => renewed
      /\ pw # BootstrapPassword => renewed
  OBVIOUS
<1> HIDE DEF n, renewed
<1>5. /\ row \in UserRow /\ row.active = users[u].active /\ row.version = n
      /\ row.pw = pw
  BY <1>1, <1>2, <1>4 DEF UserRow
<1>8. /\ users[u].revived => row.revived
      /\ ~users[u].active /\ row.active => row.revived
      /\ ~row.rotate
      /\ users[u].renewed => row.renewed
      /\ pw # BootstrapPassword => row.renewed
  BY <1>1, <1>2, <1>4 DEF UserRow
<1> HIDE DEF row
<1>9. row.version >= users[u].version /\ row.version # users[u].version
  BY <1>2, <1>5
<1>6. UsersGrow
  BY <1>3, <1>5, <1>8, <1>9, GrowsByRow
<1>7. users'[u] = row /\ \A v \in Account : v # u => users'[v] = users[v]
  BY <1>3 DEF AccountsTypeOK
<1> QED
  BY <1>5, <1>6, <1>7, <1>8

-----------------------------------------------------------------------------
(* What a request under way knows *)

(* A row that was read some time ago, of an account that is as in now: under *)
(* the same version it is the same, but for is_active.                       *)
SeenAs(row, now) ==
    /\ row \in UserRow /\ now \in UserRow
    /\ row.version <= now.version
    /\ row.version = now.version => SameButActive(now, row)
    /\ now.rotate => row.rotate

(* What a request read of the account that it is about to change.            *)
CopyOK(r) ==
    /\ Exists(Target(r))
    /\ SeenAs(requests[r].copy, users[Target(r)])

AskOK(r) ==
    LET q == requests[r] IN
    q # NoRequest =>
        /\ q.at = "sent" => q.reply = Keep
        /\ q.at \in {"read", "check"} => Op(r).do \in {"edit", "update", "password"}
        /\ q.at = "check" => Op(r).do = "password"
        /\ q.at \in {"read", "check", "write"} => q.cookie # NULL
        /\ q.at \in {"check", "write"} /\ Op(r).do \in {"update", "password"} => CopyOK(r)
        /\ Op(r).do = "edit" /\ q.copy # NULL => SeenAs(q.copy, users[Op(r).u])
        /\ q.shown # NULL => Op(r).do = "update" /\ SeenAs(q.shown, users[Op(r).u])

FormsOK == \A f \in forms : SeenAs(f.row, users[f.u])

AskInv == (\A r \in Request : AskOK(r)) /\ FormsOK

LEMMA TargetIsAccount ==
    ASSUME TypeInv, NEW r \in Request, requests[r] # NoRequest,
           Op(r).do \in {"edit", "create", "update", "deactivate", "password"},
           Op(r).do = "password" => requests[r].cookie # NULL
    PROVE  Target(r) \in Account
<1>1. requests[r] \in RequestRow /\ Op(r) \in Operation
  BY AskingIsARow DEF TypeInv, Op
<1> QED
  BY <1>1, OperationAssumption DEF Target, RequestRow, Cookie

LEMMA SeenStays ==
    ASSUME UsersGrow, NEW u \in Account, NEW row, SeenAs(row, users[u])
    PROVE  SeenAs(row, users'[u])
<1>1. Grows(u) /\ users'[u] \in UserRow /\ users[u] \in UserRow
  BY NullAssumption DEF SeenAs, UsersGrow, Grows, Exists
<1>2. /\ row \in UserRow
      /\ row.version <= users[u].version
      /\ row.version = users[u].version => SameButActive(users[u], row)
      /\ users[u].rotate => row.rotate
  BY DEF SeenAs
<1>3. row.version <= users'[u].version
  BY <1>1, <1>2 DEF Grows, UserRow
<1>4. row.version = users'[u].version => SameButActive(users'[u], row)
  <2> SUFFICES ASSUME row.version = users'[u].version
               PROVE  SameButActive(users'[u], row)
    OBVIOUS
  <2>1. users'[u].version = users[u].version
    BY <1>1, <1>2 DEF Grows, UserRow
  <2> QED
    BY <1>1, <1>2, <2>1 DEF Grows, SameButActive
<1>5. users'[u].rotate => row.rotate
  BY <1>1, <1>2 DEF Grows
<1> QED
  BY <1>1, <1>2, <1>3, <1>4, <1>5 DEF SeenAs

LEMMA SeenNow ==
    ASSUME NEW row \in UserRow
    PROVE  SeenAs(row, row)
BY DEF SeenAs, SameButActive, UserRow

LEMMA CopyStays ==
    ASSUME TypeInv, UsersGrow, NEW r \in Request, Target(r) \in Account, CopyOK(r),
           requests'[r].copy = requests[r].copy, requests'[r].op = requests[r].op,
           requests'[r].cookie = requests[r].cookie
    PROVE  CopyOK(r)'
<1>1. Target(r)' = Target(r)
  BY DEF Target, Op
<1>2. SeenAs(requests[r].copy, users'[Target(r)])
  BY SeenStays DEF CopyOK
<1>3. users'[Target(r)] # NULL
  BY <1>2, NullAssumption DEF SeenAs
<1> QED
  BY <1>1, <1>2, <1>3 DEF CopyOK, Exists

(* What a request has read to show it, or was made from, was read before.    *)
LEMMA SeenServed ==
    ASSUME TypeInv, UsersGrow, NEW r \in Request, AskOK(r), ActsOn(r)
    PROVE  /\ Op(r).do = "edit" /\ requests'[r].copy # NULL
                => SeenAs(requests'[r].copy, users'[Op(r).u])
           /\ requests'[r].shown # NULL
                => Op(r).do = "update" /\ SeenAs(requests'[r].shown, users'[Op(r).u])
<1>1. requests[r] # NoRequest /\ Op(r) \in Operation
  BY RowIsAsking, AskingIsARow DEF ActsOn, Op, TypeInv
<1>2. Op(r).do \in {"edit", "update"} => Op(r).u \in Account /\ Target(r) = Op(r).u
  BY <1>1, OperationAssumption DEF Target
<1>3. ASSUME Op(r).do = "edit", requests'[r].copy # NULL
      PROVE  SeenAs(requests'[r].copy, users'[Op(r).u])
  <2>1. CASE requests'[r].copy = requests[r].copy
    BY <1>1, <1>2, <1>3, <2>1, SeenStays DEF AskOK
  <2>2. CASE Exists(Target(r)) /\ requests'[r].copy = users[Target(r)]
    <3>1. users[Op(r).u] \in UserRow
      BY <1>2, <1>3, <2>2 DEF Exists, TypeInv, AccountsTypeOK
    <3> QED
      BY <1>2, <1>3, <2>2, <3>1, SeenNow, SeenStays
  <2> QED
    BY <2>1, <2>2 DEF ActsOn
<1>4. ASSUME requests'[r].shown # NULL
      PROVE  Op(r).do = "update" /\ SeenAs(requests'[r].shown, users'[Op(r).u])
  <2>1. /\ requests'[r].shown = requests[r].shown
        /\ Op(r).do = "update" /\ SeenAs(requests[r].shown, users[Op(r).u])
    BY <1>1, <1>4 DEF AskOK, ActsOn
  <2> QED
    BY <1>2, <2>1, SeenStays
<1> QED
  BY <1>3, <1>4

LEMMA WriteEffect ==
    ASSUME TypeInv, NEW r \in Request, AskOK(r), Write(r)
    PROVE  /\ ActsOn(r)
           /\ requests[r].at = "write"
           /\ requests'[r].at = "answered"
           /\ requests'[r].reply = requests[r].reply
           /\ UsersGrow
<1>1. /\ requests[r] # NoRequest /\ requests[r].at = "write" /\ Op(r) \in Operation
      /\ requests[r] \in RequestRow /\ requests[r].cookie # NULL
      /\ AccountsTypeOK /\ RequestsOK
  BY AskingIsARow DEF Write, At, Op, TypeInv, AskOK
<1>2. /\ ActsOn(r)
      /\ requests'[r].at = "answered"
      /\ requests'[r].reply = requests[r].reply
  BY <1>1, GoesEffect DEF Write, Step
<1>3. ASSUME Op(r).do = "create" /\ Insert(Target(r), Op(r).role, Op(r).pw, FALSE)
      PROVE  UsersGrow
  <2>1. Target(r) \in Account
    BY <1>1, <1>3, TargetIsAccount
  <2>2. Op(r).role \in Role /\ Op(r).pw \in Password
    BY <1>1, <1>3, OperationAssumption
  <2> QED
    BY <1>1, <1>3, <2>1, <2>2, InsertEffect
<1>4. ASSUME Op(r).do = "update" /\ Update(Target(r), requests[r].copy, Op(r).role)
      PROVE  UsersGrow
  <2>1. Target(r) \in Account
    BY <1>1, <1>4, TargetIsAccount
  <2>2. Op(r).role \in Role /\ requests[r].copy \in UserRow
    BY <1>1, <1>4, OperationAssumption DEF AskOK, CopyOK, SeenAs
  <2> QED
    BY <1>1, <1>4, <2>1, <2>2, UpdateEffect
<1>5. ASSUME Op(r).do = "deactivate" /\ Deactivate(Target(r))
      PROVE  UsersGrow
  <2>1. Target(r) \in Account
    BY <1>1, <1>5, TargetIsAccount
  <2> QED
    BY <1>1, <1>5, <2>1, DeactivateEffect
<1>6. ASSUME Op(r).do = "password" /\ UpdatePassword(Target(r), Op(r).pw)
      PROVE  UsersGrow
  <2>1. Target(r) \in Account
    BY <1>1, <1>6, TargetIsAccount
  <2>2. Op(r).pw \in Password /\ Exists(Target(r))
    BY <1>1, <1>6, OperationAssumption DEF AskOK, CopyOK
  <2> QED
    BY <1>1, <1>6, <2>1, <2>2, UpdatePasswordEffect
<1> QED
  BY <1>1, <1>2, <1>3, <1>4, <1>5, <1>6 DEF Write

LEMMA CheckEffect ==
    ASSUME TypeInv, NEW r \in Request, CheckPassword(r)
    PROVE  /\ ActsOn(r)
           /\ requests[r].at = "check"
           /\ requests'[r].at \in {"answered", "write"}
           /\ requests'[r].at = "write" => ~SameAsInitial(r)
           /\ requests'[r].reply = requests[r].reply
           /\ requests'[r].copy = requests[r].copy
<1> DEFINE step == IF SameAsInitial(r) THEN "answered" ELSE "write"
<1>1. requests[r] # NoRequest /\ requests[r].at = "check" /\ Goes(r, step) /\ RequestsOK
  BY DEF CheckPassword, At, TypeInv
<1>2. step \in Step /\ step \in {"answered", "write"} /\ (step = "write" => ~SameAsInitial(r))
  BY DEF Step
<1> HIDE DEF step
<1> QED
  BY <1>1, <1>2, GoesEffect

LEMMA LoginEffect ==
    ASSUME TypeInv, NEW r \in Request, Login(r)
    PROVE  /\ ActsOn(r)
           /\ requests[r].at = "sent" /\ requests'[r].at = "answered"
           /\ \/ requests'[r].reply = Keep
              \/ requests'[r].reply.api = requests'[r].reply.page
<1> DEFINE u == Op(r).u
           c == [u |-> u, role |-> users[u].role]
<1>1. /\ requests[r] # NoRequest /\ requests[r].at = "sent" /\ Op(r) \in Operation
      /\ RequestsOK /\ AccountsTypeOK /\ Op(r).do = "login"
  BY AskingIsARow DEF Login, At, Op, TypeInv
<1>2. CASE Answers(r, Keep)
  <2>1. Keep \in Reply
    BY DEF Keep, Reply
  <2> QED
    BY <1>1, <1>2, <2>1, AnswersEffect
<1>3. CASE Authenticates(u, Op(r).pw) /\ Answers(r, LoginSets(c, Op(r).on))
  <2>1. u \in Account
    BY <1>1, OperationAssumption
  <2>2. users[u].role \in Role
    BY <1>1, <1>3, <2>1 DEF Authenticates, Exists, AccountsTypeOK, UserRow
  <2>3. c \in Cookie
    BY <2>1, <2>2 DEF Cookie
  <2> HIDE DEF c
  <2>4. /\ LoginSets(c, Op(r).on) \in Reply
        /\ LoginSets(c, Op(r).on).api = LoginSets(c, Op(r).on).page
    BY <2>3 DEF LoginSets, Reply
  <2> QED
    BY <1>1, <1>3, <2>4, AnswersEffect
<1> QED
  BY <1>2, <1>3 DEF Login

LEMMA LogoutEffect ==
    ASSUME TypeInv, NEW r \in Request, Logout(r)
    PROVE  /\ ActsOn(r)
           /\ requests[r].at = "sent" /\ requests'[r].at = "answered"
           /\ requests'[r].reply.api = requests'[r].reply.page
<1> DEFINE reply == [api |-> {NULL}, page |-> {NULL}]
<1>1. requests[r] # NoRequest /\ requests[r].at = "sent" /\ RequestsOK /\ Answers(r, reply)
  BY DEF Logout, At, TypeInv
<1>2. reply \in Reply /\ reply.api = reply.page
  BY DEF Reply, Cookie
<1> HIDE DEF reply
<1> QED
  BY <1>1, <1>2, AnswersEffect

Serve(r) == Login(r) \/ Logout(r) \/ Authorize(r) \/ Read(r) \/ CheckPassword(r) \/ Write(r)

LEMMA ServeEffect ==
    ASSUME TypeInv, NEW r \in Request, AskOK(r), Serve(r)
    PROVE  /\ ActsOn(r)
           /\ UsersGrow
           /\ AskOK(r)'
           /\ UNCHANGED <<up, cookies, forms, sent, overlapped>>
<1>1. users' = users => UsersGrow
  BY UsersStay DEF TypeInv
<1>9. ASSUME ActsOn(r), UsersGrow
      PROVE  /\ Op(r)' = Op(r)
             /\ (Op(r).do = "edit" /\ requests[r].copy # NULL => SeenAs(requests[r].copy, users[Op(r).u]))'
             /\ (requests[r].shown # NULL => Op(r).do = "update" /\ SeenAs(requests[r].shown, users[Op(r).u]))'
  BY <1>9, SeenServed DEF ActsOn, Op
<1>2. ASSUME ActsOn(r), UsersGrow, requests'[r].at = "answered"
      PROVE  AskOK(r)'
  BY <1>2, <1>9 DEF AskOK
<1>3. CASE Login(r)
  BY <1>1, <1>2, <1>3, LoginEffect DEF Login
<1>4. CASE Logout(r)
  BY <1>1, <1>2, <1>4, LogoutEffect DEF Logout
<1>5. CASE Write(r)
  BY <1>2, <1>5, WriteEffect DEF Write
<1>6. CASE Authorize(r)
  <2>1. ActsOn(r) /\ UsersGrow /\ UNCHANGED <<up, cookies, forms, sent, overlapped>>
    BY <1>1, <1>6, AuthorizeEffect DEF Authorize
  <2>2. CASE requests'[r].at = "answered"
    BY <1>2, <2>1, <2>2
  <2>3. CASE requests'[r].at # "answered"
    <3>1. /\ requests[r].cookie # NULL
          /\ requests'[r].at = FirstStep(Op(r))
          /\ requests'[r].at \in {"read", "write"}
      BY <1>6, <2>3, AuthorizeEffect
    <3>2. Op(r)' = Op(r) /\ requests'[r].cookie # NULL
      BY <2>1, <3>1 DEF ActsOn, Op
    <3>3. IF requests'[r].at = "read" THEN Op(r).do \in {"edit", "update", "password"}
          ELSE Op(r).do \notin {"update", "password"}
      BY <3>1 DEF FirstStep
    <3>4. AskOK(r)'
      BY <1>9, <2>1, <3>1, <3>2, <3>3 DEF AskOK
    <3> QED
      BY <2>1, <3>4
  <2> QED
    BY <2>2, <2>3
<1>7. CASE Read(r)
  <2>1. /\ requests[r] # NoRequest /\ requests[r].at = "read"
        /\ Op(r).do \in {"edit", "update", "password"} /\ requests[r].cookie # NULL
    BY <1>7 DEF Read, At, AskOK
  <2>2. ActsOn(r) /\ UsersGrow /\ UNCHANGED <<up, cookies, forms, sent, overlapped>>
    BY <1>1, <1>7, <2>1, ReadEffect DEF Read
  <2>3. /\ requests'[r].at \in {"answered", "check", "write"}
        /\ requests'[r].at = "check" => Op(r).do = "password"
        /\ requests'[r].at # "answered" =>
                Exists(Target(r)) /\ requests'[r].copy = users[Target(r)]
    BY <1>7, <2>1, ReadEffect
  <2>4. CASE requests'[r].at = "answered"
    BY <1>2, <2>2, <2>4
  <2>5. CASE requests'[r].at # "answered"
    <3>1. Op(r)' = Op(r) /\ requests'[r].cookie # NULL /\ Target(r)' = Target(r)
      BY <2>1, <2>2 DEF ActsOn, Op, Target
    <3>2. Target(r) \in Account
      BY <2>1, TargetIsAccount
    <3>3. requests'[r].copy = users[Target(r)] /\ users[Target(r)] \in UserRow
      BY <2>3, <2>5, <3>2 DEF TypeInv, AccountsTypeOK, Exists
    <3>4. users' = users
      BY <1>7 DEF Read
    <3>5. CopyOK(r)'
      BY <2>3, <2>5, <3>1, <3>3, <3>4, SeenNow DEF CopyOK, Exists
    <3>6. AskOK(r)'
      BY <1>9, <2>1, <2>2, <2>3, <2>5, <3>1, <3>5 DEF AskOK
    <3> QED
      BY <2>2, <3>6
  <2> QED
    BY <2>4, <2>5
<1>8. CASE CheckPassword(r)
  <2>1. /\ requests[r] # NoRequest /\ requests[r].at = "check"
        /\ Op(r).do = "password" /\ requests[r].cookie # NULL /\ CopyOK(r)
    BY <1>8 DEF CheckPassword, At, AskOK
  <2>2. ActsOn(r) /\ UsersGrow /\ UNCHANGED <<up, cookies, forms, sent, overlapped>>
    BY <1>1, <1>8, CheckEffect DEF CheckPassword
  <2>3. /\ requests'[r].at \in {"answered", "write"}
        /\ requests'[r].copy = requests[r].copy
    BY <1>8, CheckEffect
  <2>4. Op(r)' = Op(r) /\ requests'[r].cookie # NULL
    BY <2>1, <2>2 DEF ActsOn, Op
  <2>5. Target(r) \in Account
    BY <2>1, TargetIsAccount
  <2>6. CopyOK(r)'
    BY <2>1, <2>2, <2>3, <2>5, CopyStays DEF ActsOn
  <2>7. AskOK(r)'
    BY <1>9, <2>2, <2>3, <2>4, <2>6 DEF AskOK
  <2> QED
    BY <2>2, <2>7
<1> QED
  BY <1>3, <1>4, <1>5, <1>6, <1>7, <1>8 DEF Serve

LEMMA SendEffect ==
    ASSUME TypeInv, NEW r \in Request, NEW b \in Browser, NEW op \in Operation, Send(r, b, op)
    PROVE  /\ requests' \in [Request -> RequestRow \cup {NoRequest}]
           /\ \A s \in Request : s # r => requests'[s] = requests[s]
           /\ requests'[r] # NoRequest
           /\ requests'[r].at = "sent" /\ requests'[r].b = b /\ requests'[r].op = op
           /\ requests'[r].cookie = cookies[b][op.on]
           /\ requests'[r].reply = Keep
           /\ requests'[r].copy = NULL
           /\ requests'[r].shown # NULL =>
                op.do = "update" /\ \E f \in forms : f.u = op.u /\ requests'[r].shown = f.row
<1> DEFINE c == cookies[b][op.on]
           row(shown) == [at |-> "sent", b |-> b, op |-> op, cookie |-> c, shown |-> shown,
                          copy |-> NULL, reply |-> Keep]
<1>1. c \in Cookie
  <2>1. op.on \in {"api", "page"}
    BY OperationAssumption
  <2>2. cookies[b].api \in Cookie /\ cookies[b].page \in Cookie
    BY DEF TypeInv, AccountsTypeOK
  <2> QED
    BY <2>1, <2>2
<1>2. PICK shown \in Shown(b, op) : requests' = [requests EXCEPT ![r] = row(shown)]
  BY DEF Send
<1> DEFINE q == row(shown)
<1> HIDE DEF c
<1>3. Keep \in Reply
  BY DEF Keep, Reply
<1>6. \/ shown = NULL
      \/ op.do = "update" /\ \E f \in forms : f.u = op.u /\ shown = f.row
  BY DEF Shown
<1>7. shown \in UserRow \cup {NULL}
  BY <1>6 DEF TypeInv, AccountsTypeOK
<1>4. /\ q \in RequestRow /\ q.at = "sent" /\ q.b = b /\ q.op = op /\ q.cookie = c
      /\ q.reply = Keep /\ q.copy = NULL /\ q.shown = shown
  BY <1>1, <1>3, <1>7 DEF RequestRow, Step
<1>8. requests' = [requests EXCEPT ![r] = q]
  BY <1>2
<1> HIDE DEF q, row
<1>5. q # NoRequest
  BY <1>4, RowIsAsking
<1> QED
  BY <1>4, <1>5, <1>6, <1>8 DEF TypeInv, RequestsOK, c

LEMMA Chosen == \A S : S # {} => (CHOOSE x \in S : TRUE) \in S
OBVIOUS

(* What a browser holds after an answer, of one cookie.                      *)
NewCookie(old, reply) == IF reply = {} THEN old ELSE CHOOSE c \in reply : TRUE

LEMMA NewCookieType ==
    ASSUME NEW old \in Cookie, NEW reply \in SUBSET Cookie
    PROVE  NewCookie(old, reply) \in Cookie
BY Chosen DEF NewCookie

LEMMA ReceiveEffect ==
    ASSUME TypeInv, NEW r \in Request, Receive(r)
    PROVE  LET b == requests[r].b
               reply == requests[r].reply
           IN /\ requests[r] \in RequestRow /\ requests[r] # NoRequest
              /\ requests' \in [Request -> RequestRow \cup {NoRequest}]
              /\ \A s \in Request : s # r => requests'[s] = requests[s]
              /\ requests'[r] = NoRequest
              /\ cookies' \in [Browser -> [api : Cookie, page : Cookie]]
              /\ \A d \in Browser : d # b => cookies'[d] = cookies[d]
              /\ cookies'[b].api = NewCookie(cookies[b].api, reply.api)
              /\ cookies'[b].page = NewCookie(cookies[b].page, reply.page)
              /\ \A f \in forms' :
                   \/ f \in forms
                   \/ /\ Op(r).do = "edit" /\ requests[r].copy # NULL
                      /\ f = [b |-> b, u |-> Op(r).u, row |-> requests[r].copy]
                      /\ f \in [b : Browser, u : Account, row : UserRow]
<1> DEFINE b == requests[r].b
           reply == requests[r].reply
           a == NewCookie(cookies[b].api, reply.api)
           p == NewCookie(cookies[b].page, reply.page)
           row == [api |-> a, page |-> p]
<1>1. requests[r] # NoRequest /\ requests[r] \in RequestRow
  BY AskingIsARow DEF Receive, TypeInv
<1>2. b \in Browser /\ reply.api \in SUBSET Cookie /\ reply.page \in SUBSET Cookie
  BY <1>1 DEF RequestRow, Reply
<1>3. a \in Cookie /\ p \in Cookie
  BY <1>2, NewCookieType DEF TypeInv, AccountsTypeOK
<1>4. cookies' = [cookies EXCEPT ![b] = row]
  BY DEF Receive, NewCookie
<1> HIDE DEF a, p
<1>5. row \in [api : Cookie, page : Cookie] /\ row.api = a /\ row.page = p
  BY <1>3
<1> HIDE DEF row
<1>6. /\ cookies' \in [Browser -> [api : Cookie, page : Cookie]]
      /\ \A d \in Browser : d # b => cookies'[d] = cookies[d]
      /\ cookies'[b] = row
  BY <1>2, <1>4, <1>5 DEF TypeInv, AccountsTypeOK
<1>7. /\ requests' \in [Request -> RequestRow \cup {NoRequest}]
      /\ \A s \in Request : s # r => requests'[s] = requests[s]
      /\ requests'[r] = NoRequest
  BY DEF Receive, TypeInv, RequestsOK
<1>8. ASSUME NEW f \in forms', f \notin forms
      PROVE  /\ Op(r).do = "edit" /\ requests[r].copy # NULL
             /\ f = [b |-> b, u |-> Op(r).u, row |-> requests[r].copy]
             /\ f \in [b : Browser, u : Account, row : UserRow]
  <2>1. /\ Op(r).do = "edit" /\ requests[r].copy # NULL
        /\ f = [b |-> b, u |-> Op(r).u, row |-> requests[r].copy]
    BY <1>8 DEF Receive
  <2>2. Op(r).u \in Account /\ requests[r].copy \in UserRow
    BY <1>1, <2>1, OperationAssumption DEF RequestRow, Op
  <2> QED
    BY <1>2, <2>1, <2>2
<1> QED
  BY <1>1, <1>5, <1>6, <1>7, <1>8 DEF a, p

LEMMA RequestParts ==
    \A q \in RequestRow :
        /\ q.at \in {"sent", "read", "check", "write", "answered"}
        /\ q.b \in Browser
        /\ q.op \in Operation
        /\ q.reply.api \subseteq Cookie /\ q.reply.page \subseteq Cookie
        /\ {q.copy, q.shown} \subseteq UserRow \cup {NULL}
BY DEF RequestRow, Reply, Step

(* What every step does to the requests: at most one of them moves, by an    *)
(* action of its own.                                                        *)
LEMMA RequestKinds ==
    ASSUME TypeInv, AskInv, [Next]_vars
    PROVE  /\ UsersGrow
           /\ TypeInv'
           /\ \A s \in Request :
                \/ requests'[s] = NoRequest
                \/ requests'[s] = requests[s]
                \/ \E b \in Browser, op \in Operation : Send(s, b, op)
                \/ Serve(s)
<1> DEFINE Moved(s) == \/ requests'[s] = NoRequest
                       \/ requests'[s] = requests[s]
                       \/ \E b \in Browser, op \in Operation : Send(s, b, op)
                       \/ Serve(s)
<1>1. users' = users => UsersGrow
  BY UsersStay DEF TypeInv
<1>2. UsersGrow => users' \in [Account -> UserRow \cup {NULL}]
  BY DEF UsersGrow
<1>3. ASSUME UsersGrow,
             requests' \in [Request -> RequestRow \cup {NoRequest}],
             up' \in BOOLEAN,
             cookies' \in [Browser -> [api : Cookie, page : Cookie]],
             forms' \subseteq [b : Browser, u : Account, row : UserRow],
             sent' \in 0 .. MaxRequests, overlapped' \subseteq Browser
      PROVE  TypeInv'
  <2>1. \A r \in Request : requests'[r] # NoRequest => requests'[r] \in RequestRow
    BY <1>3
  <2> QED
    BY <1>2, <1>3, <2>1, RequestParts DEF TypeInv, AccountsTypeOK, RequestsOK
<1>4. CASE Start
  <2>1. /\ up' \in BOOLEAN /\ UNCHANGED <<cookies, forms, requests, sent, overlapped>>
    BY <1>4 DEF Start
  <2>2. UsersGrow
    <3>1. CASE UNCHANGED users
      BY <1>1, <3>1
    <3>2. CASE Insert(Admin, "ADMINISTRATOR", BootstrapPassword, TRUE)
      <4>1. /\ Admin \in Account /\ "ADMINISTRATOR" \in Role /\ TRUE \in BOOLEAN
            /\ BootstrapPassword \in Password /\ AccountsTypeOK
        BY AccountsAssumption DEF Role, TypeInv
      <4> QED
        BY <3>2, <4>1, InsertEffect
    <3> QED
      BY <1>4, <3>1, <3>2 DEF Start
  <2> QED
    BY <1>3, <2>1, <2>2 DEF TypeInv, AccountsTypeOK, RequestsOK
<1>5. CASE Crash
  <2>1. /\ up' \in BOOLEAN /\ UNCHANGED <<cookies, forms, users, sent, overlapped>>
    BY <1>5 DEF Crash
  <2>2. /\ requests' \in [Request -> RequestRow \cup {NoRequest}]
        /\ \A s \in Request : requests'[s] \in {NoRequest, requests[s]}
    BY <1>5 DEF Crash, TypeInv, RequestsOK
  <2> QED
    BY <1>1, <1>3, <2>1, <2>2 DEF TypeInv, AccountsTypeOK
<1>6. ASSUME NEW r \in Request, NEW b \in Browser, NEW op \in Operation, Send(r, b, op)
      PROVE  UsersGrow /\ TypeInv' /\ \A s \in Request : Moved(s)
  <2>1. /\ requests' \in [Request -> RequestRow \cup {NoRequest}]
        /\ \A s \in Request : s # r => requests'[s] = requests[s]
    BY <1>6, SendEffect
  <2>2. UNCHANGED <<up, users, cookies, forms>>
    BY <1>6 DEF Send
  <2>3. sent' \in 0 .. MaxRequests
    BY <1>6, AccountsAssumption DEF Send, TypeInv, AccountsTypeOK
  <2>4. overlapped' \subseteq Browser
    BY <1>6 DEF Send, TypeInv, AccountsTypeOK
  <2>5. UsersGrow /\ TypeInv'
    BY <1>1, <1>3, <2>1, <2>2, <2>3, <2>4 DEF TypeInv, AccountsTypeOK
  <2> QED
    BY <1>6, <2>1, <2>5
<1>7. ASSUME NEW r \in Request, Serve(r)
      PROVE  UsersGrow /\ TypeInv' /\ \A s \in Request : Moved(s)
  <2>1. ActsOn(r) /\ UsersGrow /\ UNCHANGED <<up, cookies, forms, sent, overlapped>>
    BY <1>7, ServeEffect DEF AskInv
  <2>2. TypeInv'
    BY <1>3, <2>1 DEF TypeInv, AccountsTypeOK, ActsOn
  <2> QED
    BY <1>7, <2>1, <2>2 DEF ActsOn
<1>8. ASSUME NEW r \in Request, Receive(r)
      PROVE  UsersGrow /\ TypeInv' /\ \A s \in Request : Moved(s)
  <2>1. /\ requests' \in [Request -> RequestRow \cup {NoRequest}]
        /\ \A s \in Request : s # r => requests'[s] = requests[s]
        /\ requests'[r] = NoRequest
        /\ cookies' \in [Browser -> [api : Cookie, page : Cookie]]
        /\ forms' \subseteq [b : Browser, u : Account, row : UserRow]
    BY <1>8, ReceiveEffect DEF TypeInv, AccountsTypeOK
  <2>2. UNCHANGED <<up, users, sent, overlapped>>
    BY <1>8 DEF Receive
  <2>3. UsersGrow /\ TypeInv'
    BY <1>1, <1>3, <2>1, <2>2 DEF TypeInv, AccountsTypeOK
  <2> QED
    BY <2>1, <2>3
<1>9. ASSUME NEW r \in Request, Lose(r)
      PROVE  UsersGrow /\ TypeInv' /\ \A s \in Request : Moved(s)
  <2>1. /\ requests' \in [Request -> RequestRow \cup {NoRequest}]
        /\ \A s \in Request : s # r => requests'[s] = requests[s]
        /\ requests'[r] = NoRequest
    BY <1>9 DEF Lose, TypeInv, RequestsOK
  <2>2. UNCHANGED <<up, users, cookies, forms, sent, overlapped>>
    BY <1>9 DEF Lose
  <2>3. UsersGrow /\ TypeInv'
    BY <1>1, <1>3, <2>1, <2>2 DEF TypeInv, AccountsTypeOK
  <2> QED
    BY <2>1, <2>3
<1>10. CASE UNCHANGED vars
  <2>1. UNCHANGED <<up, users, cookies, forms, requests, sent, overlapped>>
    BY <1>10 DEF vars
  <2> QED
    BY <1>1, <1>3, <2>1 DEF TypeInv, AccountsTypeOK, RequestsOK
<1> QED
  BY <1>4, <1>5, <1>6, <1>7, <1>8, <1>9, <1>10 DEF Next, Serve

LEMMA AskOneNext ==
    ASSUME TypeInv, AskInv, [Next]_vars, NEW s \in Request
    PROVE  AskOK(s)'
<1>1. UsersGrow /\ TypeInv'
  BY RequestKinds
<1>2. CASE requests'[s] = NoRequest
  BY <1>2 DEF AskOK, NoRequest
<1>3. CASE requests'[s] = requests[s]
  <2>1. AskOK(s) /\ Op(s)' = Op(s)
    BY <1>3 DEF AskInv, Op
  <2>2. ASSUME requests[s] # NoRequest, requests[s].at \in {"check", "write"},
               Op(s).do \in {"update", "password"}
        PROVE  CopyOK(s)'
    <3>1. Target(s) \in Account
      BY <2>1, <2>2, TargetIsAccount DEF AskOK
    <3> QED
      BY <1>1, <1>3, <2>1, <2>2, <3>1, CopyStays DEF AskOK
  <2>3. /\ requests[s] # NoRequest => Op(s) \in Operation
        /\ Op(s).do \in {"edit", "update"} /\ Op(s) \in Operation => Op(s).u \in Account
    BY AskingIsARow, OperationAssumption DEF Op, TypeInv
  <2>4. ASSUME requests[s] # NoRequest, Op(s).do = "edit", requests[s].copy # NULL
        PROVE  SeenAs(requests[s].copy, users'[Op(s).u])
    BY <1>1, <2>1, <2>3, <2>4, SeenStays DEF AskOK
  <2>5. ASSUME requests[s] # NoRequest, requests[s].shown # NULL
        PROVE  Op(s).do = "update" /\ SeenAs(requests[s].shown, users'[Op(s).u])
    BY <1>1, <2>1, <2>3, <2>5, SeenStays DEF AskOK
  <2>6. /\ (requests[s] # NoRequest /\ requests[s].at \in {"check", "write"}
              /\ Op(s).do \in {"update", "password"} => CopyOK(s))'
        /\ (Op(s).do = "edit" /\ requests[s] # NoRequest /\ requests[s].copy # NULL
              => SeenAs(requests[s].copy, users[Op(s).u]))'
        /\ (requests[s] # NoRequest /\ requests[s].shown # NULL
              => Op(s).do = "update" /\ SeenAs(requests[s].shown, users[Op(s).u]))'
    <3>1. NoRequest' = NoRequest
      BY DEF NoRequest
    <3> QED
      BY <1>3, <2>1, <2>2, <2>4, <2>5, <3>1
  <2> QED
    BY <1>3, <2>1, <2>6 DEF AskOK, NoRequest
<1>4. ASSUME NEW b \in Browser, NEW op \in Operation, Send(s, b, op)
      PROVE  AskOK(s)'
  <2>1. /\ requests'[s].at = "sent" /\ requests'[s].op = op /\ requests'[s].reply = Keep
        /\ requests'[s].copy = NULL
        /\ requests'[s].shown # NULL =>
             op.do = "update" /\ \E f \in forms : f.u = op.u /\ requests'[s].shown = f.row
    BY <1>4, SendEffect
  <2>3. users' = users
    BY <1>4 DEF Send
  <2>2. ASSUME requests'[s].shown # NULL
        PROVE  op.do = "update" /\ SeenAs(requests'[s].shown, users'[op.u])
    BY <2>1, <2>2, <2>3 DEF AskInv, FormsOK
  <2> QED
    BY <2>1, <2>2 DEF AskOK, Op
<1>5. CASE Serve(s)
  BY <1>5, ServeEffect DEF AskInv
<1> QED
  BY <1>2, <1>3, <1>4, <1>5, RequestKinds

(* A form shows the account as the request that asked for it read it.        *)
LEMMA FormsNext ==
    ASSUME TypeInv, AskInv, [Next]_vars
    PROVE  FormsOK'
<1> SUFFICES ASSUME NEW f \in forms'
             PROVE  SeenAs(f.row, users'[f.u])
  BY DEF FormsOK
<1>1. UsersGrow
  BY RequestKinds
<1>2. CASE f \in forms
  BY <1>1, <1>2, SeenStays DEF AskInv, FormsOK, TypeInv, AccountsTypeOK
<1>3. ASSUME NEW r \in Request, Receive(r), f \notin forms
      PROVE  SeenAs(f.row, users'[f.u])
  <2>1. /\ requests[r] # NoRequest /\ Op(r).do = "edit" /\ requests[r].copy # NULL
        /\ f.u = Op(r).u /\ f.row = requests[r].copy
    BY <1>3, ReceiveEffect
  <2>2. SeenAs(f.row, users[f.u]) /\ users' = users
    BY <1>3, <2>1 DEF AskInv, AskOK, Receive
  <2> QED
    BY <2>2
<1>4. forms' = forms \/ \E r \in Request : Receive(r)
  BY DEF Next, vars, Start, Crash, Send, Login, Logout, Authorize, Read, CheckPassword, Write, Lose
<1> QED
  BY <1>2, <1>3, <1>4

LEMMA AskNext ==
    ASSUME TypeInv, AskInv, [Next]_vars
    PROVE  AskInv'
BY AskOneNext, FormsNext DEF AskInv

LEMMA AskInit == Init => TypeInv /\ AskInv
<1> SUFFICES ASSUME Init PROVE TypeInv /\ AskInv
  OBVIOUS
<1> DEFINE row == [role |-> "ADMINISTRATOR", active |-> FALSE, version |-> 1,
                   rotate |-> FALSE, pw |-> NULL, renewed |-> TRUE, revived |-> FALSE]
<1>1. row \in UserRow
  BY DEF UserRow, Role
<1>2. users = [[u \in Account |-> NULL] EXCEPT ![System] = row]
  BY DEF Init
<1> HIDE DEF row
<1>3. users \in [Account -> UserRow \cup {NULL}]
  BY <1>1, <1>2
<1>4. cookies \in [Browser -> [api : Cookie, page : Cookie]]
  BY DEF Init, Cookie
<1>5. up \in BOOLEAN /\ sent \in 0 .. MaxRequests /\ overlapped \subseteq Browser
  <2>1. up = FALSE /\ sent = 0 /\ overlapped = {}
    BY DEF Init
  <2>2. MaxRequests \in Nat
    BY AccountsAssumption
  <2>3. sent \in 0 .. MaxRequests
    BY <2>1, <2>2
  <2> QED
    BY <2>1, <2>3
<1>6. RequestsOK /\ forms = {} /\ \A r \in Request : requests[r] = NoRequest
  BY DEF Init, RequestsOK
<1> QED
  BY <1>3, <1>4, <1>5, <1>6 DEF TypeInv, AccountsTypeOK, AskInv, AskOK, FormsOK

(* The server's state keeps its shape whatever arrives in whatever order:    *)
(* in particular an edit and a new password are written with a copy that was *)
(* read, of an account that is still there (UpdateUser, PostChangePassword). *)
THEOREM AccountsTypeCorrect == Spec => []AccountsTypeOK
<1>1. TypeInv /\ AskInv /\ [Next]_vars => TypeInv' /\ AskInv'
  BY RequestKinds, AskNext
<1>2. TypeInv => AccountsTypeOK
  BY DEF TypeInv
<1> QED
  BY AskInit, <1>1, <1>2, PTL DEF Spec

-----------------------------------------------------------------------------
(* The rotation of the initial password *)

Settled(u) == users[u].active => users[u].renewed \/ users[u].revived

(* Whoever never had another password has the bootstrap one.                 *)
RowOK(u) ==
    Exists(u) =>
        /\ ~users[u].renewed => users[u].pw = BootstrapPassword
        /\ users[u].active /\ ~users[u].rotate => users[u].renewed \/ users[u].revived

(* Where the check has let the bootstrap password pass, writing it is safe.  *)
PassOK(r) ==
    requests[r] # NoRequest =>
        (requests[r].at = "write" /\ Op(r).do = "password" /\ Op(r).pw = BootstrapPassword
            => Settled(Target(r)))

RotationInv == (\A u \in Account : RowOK(u)) /\ (\A r \in Request : PassOK(r))

LEMMA SettledStays ==
    ASSUME NEW u \in Account, Grows(u), Settled(u)
    PROVE  users'[u].active => users'[u].renewed \/ users'[u].revived
BY DEF Grows, Settled

LEMMA RowStays ==
    ASSUME NEW u \in Account, Exists(u), Grows(u), RowOK(u),
           users'[u].pw = users[u].pw, users[u].rotate => users'[u].rotate
    PROVE  RowOK(u)'
BY DEF Grows, RowOK

LEMMA RowNext ==
    ASSUME TypeInv, AskInv, RotationInv, [Next]_vars, NEW u \in Account
    PROVE  RowOK(u)'
<1>1. UsersGrow /\ (Exists(u) => Grows(u)) /\ RowOK(u) /\ AccountsTypeOK
  BY RequestKinds DEF UsersGrow, RotationInv, TypeInv
<1>2. ASSUME users'[u] = users[u]
      PROVE  RowOK(u)'
  BY <1>1, <1>2 DEF RowOK, Exists
<1>3. CASE Start
  <2>1. Admin \in Account /\ BootstrapPassword \in Password /\ "ADMINISTRATOR" \in Role
    BY AccountsAssumption DEF Role
  <2>2. ASSUME Insert(Admin, "ADMINISTRATOR", BootstrapPassword, TRUE)
        PROVE  RowOK(u)'
    <3>1. \/ users'[u] = users[u]
          \/ users'[u].pw = BootstrapPassword /\ users'[u].rotate = TRUE
      BY <1>1, <2>1, <2>2, InsertEffect
    <3> QED
      BY <1>2, <3>1 DEF RowOK
  <2> QED
    BY <1>2, <1>3, <2>2 DEF Start
<1>4. ASSUME NEW r \in Request, Write(r)
      PROVE  RowOK(u)'
  <2>1. /\ requests[r] # NoRequest /\ requests[r].at = "write" /\ Op(r) \in Operation
        /\ requests[r].cookie # NULL /\ AskOK(r)
    BY <1>4, AskingIsARow DEF Write, At, Op, TypeInv, AskOK, AskInv
  <2>2. ASSUME Op(r).do = "create", Insert(Target(r), Op(r).role, Op(r).pw, FALSE)
        PROVE  RowOK(u)'
    <3>1. Target(r) \in Account /\ Op(r).role \in Role /\ Op(r).pw \in Password
      BY <2>1, <2>2, TargetIsAccount, OperationAssumption
    <3>2. users'[u] = users[u] \/ users'[u].renewed = TRUE
      BY <1>1, <2>2, <3>1, InsertEffect
    <3> QED
      BY <1>2, <3>2 DEF RowOK
  <2>3. ASSUME Op(r).do = "update", Update(Target(r), requests[r].copy, Op(r).role)
        PROVE  RowOK(u)'
    <3>1. Target(r) \in Account /\ Op(r).role \in Role /\ requests[r].copy \in UserRow
      BY <2>1, <2>3, TargetIsAccount, OperationAssumption DEF AskOK, CopyOK, SeenAs
    <3>2. \/ users'[u] = users[u]
          \/ /\ Exists(u) /\ users'[u].pw = users[u].pw
             /\ users[u].rotate => users'[u].rotate
      BY <1>1, <2>3, <3>1, UpdateEffect
    <3> QED
      BY <1>1, <1>2, <3>2, RowStays
  <2>4. ASSUME Op(r).do = "deactivate", Deactivate(Target(r))
        PROVE  RowOK(u)'
    <3>1. Target(r) \in Account
      BY <2>1, <2>4, TargetIsAccount
    <3>2. \/ users'[u] = users[u]
          \/ Exists(u) /\ ~users'[u].active /\ users'[u].pw = users[u].pw
      BY <1>1, <2>4, <3>1, DeactivateEffect
    <3> QED
      BY <1>1, <1>2, <3>2 DEF RowOK, Grows
  <2>5. ASSUME Op(r).do = "password", UpdatePassword(Target(r), Op(r).pw)
        PROVE  RowOK(u)'
    <3>1. Target(r) \in Account /\ Op(r).pw \in Password /\ Exists(Target(r))
      BY <2>1, <2>5, TargetIsAccount, OperationAssumption DEF AskOK, CopyOK
    <3>2. /\ u # Target(r) => users'[u] = users[u]
          /\ u = Target(r) => /\ users'[u].pw = Op(r).pw
                              /\ Op(r).pw # BootstrapPassword => users'[u].renewed
      BY <1>1, <2>5, <3>1, UpdatePasswordEffect
    <3>3. CASE u # Target(r)
      BY <1>2, <3>2, <3>3
    <3>4. CASE u = Target(r) /\ Op(r).pw # BootstrapPassword
      BY <3>2, <3>4 DEF RowOK
    <3>5. CASE u = Target(r) /\ Op(r).pw = BootstrapPassword
      <4>1. Settled(u)
        BY <2>1, <2>5, <3>5 DEF RotationInv, PassOK
      <4>2. users'[u].active => users'[u].renewed \/ users'[u].revived
        BY <1>1, <3>1, <3>5, <4>1, SettledStays
      <4> QED
        BY <3>2, <3>5, <4>2 DEF RowOK
    <3> QED
      BY <3>3, <3>4, <3>5
  <2> QED
    BY <1>4, <2>2, <2>3, <2>4, <2>5 DEF Write
<1>5. ASSUME UNCHANGED users
      PROVE  RowOK(u)'
  BY <1>2, <1>5
<1>6. Start \/ (\E r \in Request : Write(r)) \/ UNCHANGED users
  BY DEF Next, vars, Crash, Send, Login, Logout, Authorize, Read, CheckPassword, Receive, Lose
<1> QED
  BY <1>3, <1>4, <1>5, <1>6

LEMMA PassNext ==
    ASSUME TypeInv, AskInv, RotationInv, [Next]_vars, NEW s \in Request
    PROVE  PassOK(s)'
<1> SUFFICES ASSUME requests'[s] # NoRequest, requests'[s].at = "write",
                    Op(s)'.do = "password", Op(s)'.pw = BootstrapPassword
             PROVE  Settled(Target(s))'
  BY DEF PassOK
<1>1. UsersGrow /\ AskOK(s)
  BY RequestKinds DEF AskInv
<1>2. CASE requests'[s] = requests[s]
  <2>1. /\ Op(s)' = Op(s) /\ Target(s)' = Target(s)
        /\ requests[s] # NoRequest /\ requests[s].at = "write"
        /\ Op(s).do = "password" /\ Op(s).pw = BootstrapPassword
    BY <1>2 DEF Op, Target
  <2>2. Exists(Target(s)) /\ Target(s) \in Account /\ Settled(Target(s))
    BY <1>1, <2>1, TargetIsAccount DEF AskOK, CopyOK, RotationInv, PassOK
  <2>3. Grows(Target(s))
    BY <1>1, <2>2 DEF UsersGrow
  <2> QED
    BY <2>1, <2>2, <2>3, SettledStays DEF Settled
<1>3. ASSUME NEW b \in Browser, NEW op \in Operation, Send(s, b, op)
      PROVE  FALSE
  BY <1>3, SendEffect
<1>4. CASE Serve(s)
  <2>1. ActsOn(s) /\ Op(s)' = Op(s) /\ Op(s).do = "password" /\ Op(s).pw = BootstrapPassword
    BY <1>1, <1>4, ServeEffect DEF ActsOn, Op
  <2>2. CheckPassword(s)
    <3>1. ~Login(s) /\ ~Logout(s) /\ ~Write(s)
      BY <1>1, LoginEffect, LogoutEffect, WriteEffect
    <3>2. ~Authorize(s)
      BY <2>1, AuthorizeEffect DEF FirstStep
    <3>3. ~Read(s)
      BY <1>1, <2>1, ReadEffect DEF AskOK, Read, At
    <3> QED
      BY <1>4, <3>1, <3>2, <3>3 DEF Serve
  <2>3. /\ requests[s] # NoRequest /\ requests[s].at = "check" /\ CopyOK(s)
        /\ requests[s].cookie # NULL /\ ~SameAsInitial(s) /\ users' = users
    BY <1>1, <2>1, <2>2, CheckEffect DEF CheckPassword, At, AskOK
  <2>4. Target(s)' = Target(s) /\ Target(s) \in Account /\ Exists(Target(s))
    BY <2>1, <2>3, TargetIsAccount DEF ActsOn, Target, CopyOK
  <2>5. RowOK(Target(s))
    BY <2>4 DEF RotationInv
  <2>6. Settled(Target(s))
    BY <2>1, <2>3, <2>4, <2>5 DEF SameAsInitial, Authenticates, CopyOK, SeenAs, RowOK, Settled
  <2> QED
    BY <2>3, <2>4, <2>6 DEF Settled
<1> QED
  BY <1>2, <1>3, <1>4, RequestKinds

LEMMA RotationInit == Init => RotationInv
<1> SUFFICES ASSUME Init PROVE RotationInv
  OBVIOUS
<1>1. \A r \in Request : requests[r] = NoRequest
  BY DEF Init
<1>2. ASSUME NEW u \in Account, Exists(u)
      PROVE  users[u].renewed = TRUE /\ users[u].active = FALSE
  BY <1>2 DEF Init, Exists
<1> QED
  BY <1>1, <1>2 DEF RotationInv, RowOK, PassOK

(* Nobody gets rid of the flag that asks for a new password by confirming    *)
(* the bootstrap one: an active account whose flag is cleared has had        *)
(* another password at some time, or was revived by an edit.  Its owner may  *)
(* have gone back to the bootstrap one since.  PostChangePassword's check and*)
(* its UPDATE may be any number of other requests apart, each of which keeps *)
(* this so, leaves the account inactive or revives it.                       *)
THEOREM RotationCorrect == Spec => []RotationIsReal
<1>1. /\ TypeInv /\ AskInv /\ [Next]_vars => TypeInv' /\ AskInv'
      /\ TypeInv /\ AskInv /\ RotationInv /\ [Next]_vars => RotationInv'
  BY RequestKinds, AskNext, RowNext, PassNext DEF RotationInv
<1>2. RotationInv => RotationIsReal
  BY DEF RotationInv, RowOK, RotationIsReal
<1> QED
  BY AskInit, RotationInit, <1>1, <1>2, PTL DEF Spec

-----------------------------------------------------------------------------
(* The two cookies of a browser *)

Pending(r) == requests[r] # NoRequest

(* A browser that has never had two requests under way has at most one,      *)
(* which carries the cookie that the browser still holds.                    *)
OnlyOne ==
    \A r, s \in Request :
        /\ Pending(r) /\ Pending(s)
        /\ requests[r].b = requests[s].b /\ requests[r].b \notin overlapped
        => r = s

Fresh ==
    \A r \in Request :
        Pending(r) /\ requests[r].b \notin overlapped =>
            requests[r].cookie = cookies[requests[r].b][requests[r].op.on]

(* An answer sets both cookies to one value, or the page cookie to one that  *)
(* names the account of the request, or only clears one.                     *)
ReplyOK(q) ==
    \/ q.reply.api = q.reply.page
    \/ /\ q.reply.api = {} /\ q.op.on = "page" /\ q.cookie # NULL
       /\ \A c \in q.reply.page : c = NULL \/ c.u = q.cookie.u
    \/ q.reply.page = {} /\ q.reply.api \subseteq {NULL}

RepliesOK == \A r \in Request : Pending(r) => ReplyOK(requests[r])

CookieInv == OnlyOne /\ Fresh /\ RepliesOK /\ CookiesAgree

LEMMA CookieKinds ==
    ASSUME [Next]_vars
    PROVE  \/ UNCHANGED <<cookies, requests, overlapped>>
           \/ Crash
           \/ \E r \in Request, b \in Browser, op \in Operation : Send(r, b, op)
           \/ \E r \in Request : Serve(r)
           \/ \E r \in Request : Receive(r)
           \/ \E r \in Request : Lose(r)
BY DEF Next, vars, Start, Serve

LEMMA ReplyOfServe ==
    ASSUME TypeInv, NEW r \in Request, AskOK(r), ReplyOK(requests[r]), Serve(r)
    PROVE  ReplyOK(requests'[r])
<1>1. /\ requests'[r].op = requests[r].op /\ requests'[r].cookie = requests[r].cookie
      /\ requests[r] # NoRequest
  BY ServeEffect DEF ActsOn, Serve, Login, Logout, Authorize, Read, CheckPassword, Write, At
<1>2. CASE Login(r) \/ Logout(r)
  BY <1>2, LoginEffect, LogoutEffect DEF ReplyOK, Keep
<1>3. CASE Read(r) \/ CheckPassword(r) \/ Write(r)
  <2>1. requests'[r].reply = requests[r].reply
    BY <1>3, ReadEffect, CheckEffect, WriteEffect DEF AskOK, Read, At
  <2> QED
    BY <1>1, <2>1 DEF ReplyOK
<1>4. CASE Authorize(r)
  <2> DEFINE c == requests[r].cookie
             on == Op(r).on
             reply == requests'[r].reply
  <2>1. requests[r].reply = Keep /\ Op(r) \in Operation /\ requests[r] \in RequestRow
    BY <1>1, <1>4, AuthorizeEffect, AskingIsARow DEF AskOK, Op, TypeInv
  <2>2. on \in {"api", "page"} /\ on = requests'[r].op.on /\ c = requests'[r].cookie
    BY <1>1, <2>1, OperationAssumption DEF Op
  <2>3. \/ reply = Keep
        \/ c # NULL /\ reply = [Keep EXCEPT ![on] = {NULL}]
        \/ /\ c # NULL /\ reply.api = requests[r].reply.api
           /\ reply.page = IF on = "page" THEN {[c EXCEPT !.role = EffectiveRole(c)]} ELSE {}
    BY <1>4, AuthorizeEffect
  <2>4. CASE reply = Keep
    BY <2>4 DEF ReplyOK, Keep
  <2>5. CASE c # NULL /\ reply = [Keep EXCEPT ![on] = {NULL}]
    <3>1. CASE on = "api"
      <4>1. reply.page = {} /\ reply.api = {NULL}
        BY <2>5, <3>1 DEF Keep
      <4> QED
        BY <4>1 DEF ReplyOK
    <3>2. CASE on = "page"
      <4>1. reply.api = {} /\ reply.page = {NULL}
        BY <2>5, <3>2 DEF Keep
      <4> QED
        BY <2>2, <2>5, <3>2, <4>1 DEF ReplyOK
    <3> QED
      BY <2>2, <3>1, <3>2
  <2>6. CASE /\ c # NULL /\ reply.api = requests[r].reply.api
             /\ reply.page = IF on = "page" THEN {[c EXCEPT !.role = EffectiveRole(c)]} ELSE {}
    <3>1. reply.api = {}
      BY <2>1, <2>6 DEF Keep
    <3>2. c \in [u : Account, role : Role]
      BY <2>1, <2>6 DEF RequestRow, Cookie
    <3>3. [c EXCEPT !.role = EffectiveRole(c)].u = c.u
      BY <3>2
    <3> QED
      BY <2>2, <2>6, <3>1, <3>3 DEF ReplyOK
  <2> QED
    BY <2>3, <2>4, <2>5, <2>6
<1> QED
  BY <1>2, <1>3, <1>4 DEF Serve

(* The cookies of a browser after an answer to its only request.             *)
LEMMA CookiesAfter ==
    ASSUME NEW old \in [api : Cookie, page : Cookie], NEW q \in RequestRow, ReplyOK(q),
           q.cookie = old[q.op.on],
           NULL \in {old.api, old.page} \/ old.api.u = old.page.u
    PROVE  LET a == NewCookie(old.api, q.reply.api)
               p == NewCookie(old.page, q.reply.page)
           IN NULL \in {a, p} \/ a.u = p.u
<1> DEFINE a == NewCookie(old.api, q.reply.api)
           p == NewCookie(old.page, q.reply.page)
<1>1. CASE q.reply.api = q.reply.page
  BY <1>1 DEF NewCookie
<1>2. CASE /\ q.reply.api = {} /\ q.op.on = "page" /\ q.cookie # NULL
           /\ \A c \in q.reply.page : c = NULL \/ c.u = q.cookie.u
  <2>1. a = old.api
    BY <1>2 DEF NewCookie
  <2>2. old.page = q.cookie
    BY <1>2
  <2>3. p = old.page \/ p = NULL \/ p.u = q.cookie.u
    BY <1>2, Chosen DEF NewCookie
  <2> QED
    BY <1>2, <2>1, <2>2, <2>3
<1>3. CASE q.reply.page = {} /\ q.reply.api \subseteq {NULL}
  <2>1. p = old.page
    BY <1>3 DEF NewCookie
  <2>2. a = old.api \/ a = NULL
    BY <1>3, Chosen DEF NewCookie
  <2> QED
    BY <2>1, <2>2
<1> QED
  BY <1>1, <1>2, <1>3 DEF ReplyOK

(* Requests that only end, or stay, disturb nothing.                         *)
LEMMA CookieStays ==
    ASSUME TypeInv, CookieInv, overlapped' = overlapped, cookies' = cookies,
           \A r \in Request : requests'[r] \in {NoRequest, requests[r]}
    PROVE  CookieInv'
<1>1. OnlyOne'
  BY DEF OnlyOne, Pending, CookieInv
<1>2. Fresh'
  BY DEF Fresh, Pending, CookieInv
<1>3. RepliesOK'
  BY DEF RepliesOK, Pending, CookieInv
<1>4. CookiesAgree'
  BY DEF CookiesAgree, CookieInv
<1> QED
  BY <1>1, <1>2, <1>3, <1>4 DEF CookieInv

LEMMA CookieNext ==
    ASSUME TypeInv, AskInv, CookieInv, [Next]_vars
    PROVE  CookieInv'
<1>1. CASE UNCHANGED <<cookies, requests, overlapped>>
  BY <1>1, CookieStays
<1>2. CASE Crash
  <2>1. \A r \in Request : requests'[r] \in {NoRequest, requests[r]}
    BY <1>2 DEF Crash, TypeInv, RequestsOK
  <2>2. UNCHANGED <<cookies, overlapped>>
    BY <1>2 DEF Crash
  <2> QED
    BY <2>1, <2>2, CookieStays
<1>3. ASSUME NEW r \in Request, Lose(r)
      PROVE  CookieInv'
  <2>1. \A s \in Request : requests'[s] \in {NoRequest, requests[s]}
    BY <1>3 DEF Lose, TypeInv, RequestsOK
  <2>2. UNCHANGED <<cookies, overlapped>>
    BY <1>3 DEF Lose
  <2> QED
    BY <2>1, <2>2, CookieStays
<1>4. ASSUME NEW r \in Request, NEW b \in Browser, NEW op \in Operation, Send(r, b, op)
      PROVE  CookieInv'
  <2>1. /\ \A s \in Request : s # r => requests'[s] = requests[s]
        /\ requests'[r] # NoRequest
        /\ requests'[r].b = b /\ requests'[r].op = op
        /\ requests'[r].cookie = cookies[b][op.on]
        /\ requests'[r].reply = Keep
    BY <1>4, SendEffect
  <2>2. /\ cookies' = cookies
        /\ overlapped' = IF UnderWay(b) THEN overlapped \cup {b} ELSE overlapped
        /\ requests[r] = NoRequest
    BY <1>4 DEF Send
  <2>3. OnlyOne'
    BY <2>1, <2>2 DEF OnlyOne, Pending, CookieInv, UnderWay
  <2>4. Fresh'
    BY <2>1, <2>2 DEF Fresh, Pending, CookieInv
  <2>5. ReplyOK(requests'[r])
    BY <2>1 DEF ReplyOK, Keep
  <2>6. RepliesOK'
    BY <2>1, <2>5 DEF RepliesOK, Pending, CookieInv
  <2>7. CookiesAgree'
    BY <2>2 DEF CookiesAgree, CookieInv
  <2> QED
    BY <2>3, <2>4, <2>6, <2>7 DEF CookieInv
<1>5. ASSUME NEW r \in Request, Serve(r)
      PROVE  CookieInv'
  <2>1. ActsOn(r) /\ UNCHANGED <<cookies, overlapped>>
    BY <1>5, ServeEffect DEF AskInv
  <2>2. requests[r] # NoRequest /\ requests'[r] # NoRequest
    BY <2>1, RowIsAsking DEF ActsOn
  <2>3. OnlyOne'
    BY <2>1, <2>2 DEF OnlyOne, Pending, CookieInv, ActsOn
  <2>4. Fresh'
    BY <2>1, <2>2 DEF Fresh, Pending, CookieInv, ActsOn
  <2>5. ReplyOK(requests'[r])
    BY <1>5, <2>2, ReplyOfServe DEF AskInv, CookieInv, RepliesOK, Pending
  <2>6. RepliesOK'
    BY <2>1, <2>5 DEF RepliesOK, Pending, CookieInv, ActsOn
  <2>7. CookiesAgree'
    BY <2>1 DEF CookiesAgree, CookieInv
  <2> QED
    BY <2>3, <2>4, <2>6, <2>7 DEF CookieInv
<1>6. ASSUME NEW r \in Request, Receive(r)
      PROVE  CookieInv'
  <2> DEFINE b == requests[r].b
  <2>1. /\ requests[r] \in RequestRow /\ Pending(r)
        /\ \A s \in Request : s # r => requests'[s] = requests[s]
        /\ requests'[r] = NoRequest
        /\ \A d \in Browser : d # b => cookies'[d] = cookies[d]
        /\ cookies'[b].api = NewCookie(cookies[b].api, requests[r].reply.api)
        /\ cookies'[b].page = NewCookie(cookies[b].page, requests[r].reply.page)
    BY <1>6, ReceiveEffect DEF Pending
  <2>2. overlapped' = overlapped
    BY <1>6 DEF Receive
  <2>3. OnlyOne'
    BY <2>1, <2>2 DEF OnlyOne, Pending, CookieInv
  <2>4. RepliesOK'
    BY <2>1 DEF RepliesOK, Pending, CookieInv
  <2>5. Fresh'
    <3> SUFFICES ASSUME NEW s \in Request, Pending(s)', requests'[s].b \notin overlapped'
                 PROVE  requests'[s].cookie = cookies'[requests'[s].b][requests'[s].op.on]
      BY DEF Fresh
    <3>1. s # r /\ requests'[s] = requests[s] /\ Pending(s)
      BY <2>1 DEF Pending
    <3>2. requests[s].b # b /\ requests[s].b \in Browser
      BY <2>1, <2>2, <3>1, AskingIsARow DEF OnlyOne, CookieInv, Pending, TypeInv, RequestRow
    <3> QED
      BY <2>1, <2>2, <3>1, <3>2 DEF Fresh, CookieInv
  <2>6. ASSUME NEW d \in Browser, d \notin overlapped
        PROVE  NULL \in {cookies'[d].api, cookies'[d].page} \/ cookies'[d].api.u = cookies'[d].page.u
    <3>1. CASE d # b
      BY <2>1, <2>6, <3>1 DEF CookieInv, CookiesAgree
    <3>2. CASE d = b
      <4>1. /\ cookies[b] \in [api : Cookie, page : Cookie]
            /\ ReplyOK(requests[r])
            /\ requests[r].cookie = cookies[b][requests[r].op.on]
            /\ NULL \in {cookies[b].api, cookies[b].page} \/ cookies[b].api.u = cookies[b].page.u
        BY <2>1, <2>6, <3>2 DEF TypeInv, AccountsTypeOK, CookieInv, RepliesOK, Fresh, CookiesAgree
      <4> QED
        BY <2>1, <3>2, <4>1, CookiesAfter
    <3> QED
      BY <3>1, <3>2
  <2>7. CookiesAgree'
    BY <2>2, <2>6 DEF CookiesAgree
  <2> QED
    BY <2>3, <2>4, <2>5, <2>7 DEF CookieInv
<1> QED
  BY <1>1, <1>2, <1>3, <1>4, <1>5, <1>6, CookieKinds

LEMMA CookieInit == Init => CookieInv
<1> SUFFICES ASSUME Init PROVE CookieInv
  OBVIOUS
<1>1. \A r \in Request : ~Pending(r)
  BY DEF Init, Pending
<1>2. \A b \in Browser : cookies[b].api = NULL
  BY DEF Init
<1> QED
  BY <1>1, <1>2 DEF CookieInv, OnlyOne, Fresh, RepliesOK, CookiesAgree

(* A browser that waits for each answer before it asks again never holds     *)
(* cookies of two accounts, whichever surfaces it signs in and out on, and   *)
(* whichever answers are lost.                                               *)
THEOREM CookiesCorrect == Spec => []CookiesAgree
<1>1. /\ TypeInv /\ AskInv /\ [Next]_vars => TypeInv' /\ AskInv'
      /\ TypeInv /\ AskInv /\ CookieInv /\ [Next]_vars => CookieInv'
  BY RequestKinds, AskNext, CookieNext
<1>2. CookieInv => CookiesAgree
  BY DEF CookieInv
<1> QED
  BY AskInit, CookieInit, <1>1, <1>2, PTL DEF Spec

-----------------------------------------------------------------------------
(* What a step may never do *)

LEMMA Overwrite ==
    ASSUME NEW x \in UserRow, NEW y \in UserRow, SameButActive(x, y)
    PROVE  Same(x, y)
BY DEF UserRow, SameButActive, Same

LEMMA SeenOrOlder ==
    ASSUME NEW row, NEW now, SeenAs(row, now)
    PROVE  row.version < now.version \/ Same(now, row)
BY Overwrite DEF SeenAs, UserRow

LEMMA EditStep ==
    ASSUME TypeInv, AskInv, NEW r \in Request,
           Write(r), Op(r).do = "update", users' # users
    PROVE  LET row  == users[Op(r).u]
               copy == requests[r].copy
               shown == requests[r].shown
           IN /\ Same(row, copy)
              /\ shown # NULL => shown.version < copy.version \/ Same(row, shown)
<1> DEFINE u == Target(r)
<1>1. /\ requests[r] # NoRequest /\ requests[r].at = "write" /\ Op(r) \in Operation
      /\ AskOK(r) /\ AccountsTypeOK /\ u = Op(r).u
  BY AskingIsARow DEF Write, At, Op, TypeInv, AskInv, Target
<1>2. /\ CopyOK(r) /\ u \in Account /\ Op(r).role \in Role /\ requests[r].copy \in UserRow
      /\ requests[r].shown # NULL => SeenAs(requests[r].shown, users[u])
  BY <1>1, OperationAssumption DEF AskOK, CopyOK, SeenAs
<1>3. Update(u, requests[r].copy, Op(r).role)
  BY <1>1 DEF Write
<1>4. users[u].version = requests[r].copy.version
  BY <1>1, <1>2, <1>3, UpdateEffect DEF Matches
<1>5. Same(users[u], requests[r].copy)
  <2>1. users[u] \in UserRow /\ SameButActive(users[u], requests[r].copy)
    BY <1>2, <1>4 DEF CopyOK, SeenAs
  <2> QED
    BY <1>2, <2>1, Overwrite
<1>6. ASSUME requests[r].shown # NULL
      PROVE  requests[r].shown.version < users[u].version \/ Same(users[u], requests[r].shown)
  BY <1>2, <1>6, SeenOrOlder
<1> QED
  BY <1>1, <1>4, <1>5, <1>6

(* An edit loses nothing that was saved since its handler read the account,  *)
(* whatever was written between the two (another edit, a password, a         *)
(* deactivation); of what its form showed it loses only what had been        *)
(* replaced before the handler read it, and that it does lose.               *)
THEOREM AccountEditCorrect == Spec => NoEditLostOnceRead
<1>1. TypeInv /\ AskInv /\ [Next]_vars => TypeInv' /\ AskInv'
  BY RequestKinds, AskNext
<1>2. TypeInv /\ AskInv /\ [Next]_vars =>
        [\A r \in Request :
           Write(r) /\ Op(r).do = "update" /\ users' # users =>
              LET row  == users[Op(r).u]
                  copy == requests[r].copy
                  shown == requests[r].shown
              IN /\ Same(row, copy)
                 /\ shown # NULL => shown.version < copy.version \/ Same(row, shown)]_vars
  BY EditStep
<1> QED
  BY AskInit, <1>1, <1>2, PTL DEF Spec, NoEditLostOnceRead

LEMMA ReactivationStep ==
    ASSUME TypeInv, AskInv, [Next]_vars, NEW v \in Account,
           Exists(v), ~users[v].active, users'[v].active
    PROVE  \E r \in Request : /\ At(r, "write") /\ Op(r).do = "update" /\ Op(r).u = v
                              /\ requests[r].copy.active
<1>1. users'[v] # users[v] /\ AccountsTypeOK
  BY DEF TypeInv
<1>2. ASSUME Start
      PROVE  FALSE
  <2>1. Admin \in Account /\ BootstrapPassword \in Password /\ "ADMINISTRATOR" \in Role
    BY AccountsAssumption DEF Role
  <2>2. Insert(Admin, "ADMINISTRATOR", BootstrapPassword, TRUE)
    BY <1>1, <1>2 DEF Start
  <2> QED
    BY <1>1, <2>1, <2>2, InsertEffect
<1>3. ASSUME NEW r \in Request, Write(r)
      PROVE  /\ At(r, "write") /\ Op(r).do = "update" /\ Op(r).u = v
             /\ requests[r].copy.active
  <2>1. /\ requests[r] # NoRequest /\ requests[r].at = "write" /\ Op(r) \in Operation
        /\ requests[r].cookie # NULL /\ AskOK(r)
    BY <1>3, AskingIsARow DEF Write, At, Op, TypeInv, AskOK, AskInv
  <2>2. ~(Op(r).do = "create" /\ Insert(Target(r), Op(r).role, Op(r).pw, FALSE))
    <3> SUFFICES ASSUME Op(r).do = "create", Insert(Target(r), Op(r).role, Op(r).pw, FALSE)
                 PROVE  FALSE
      OBVIOUS
    <3>1. Target(r) \in Account /\ Op(r).role \in Role /\ Op(r).pw \in Password
      BY <2>1, TargetIsAccount, OperationAssumption
    <3> QED
      BY <1>1, <3>1, InsertEffect
  <2>3. ~(Op(r).do = "deactivate" /\ Deactivate(Target(r)))
    <3> SUFFICES ASSUME Op(r).do = "deactivate", Deactivate(Target(r))
                 PROVE  FALSE
      OBVIOUS
    <3>1. Target(r) \in Account
      BY <2>1, TargetIsAccount
    <3> QED
      BY <1>1, <3>1, DeactivateEffect
  <2>4. ~(Op(r).do = "password" /\ UpdatePassword(Target(r), Op(r).pw))
    <3> SUFFICES ASSUME Op(r).do = "password", UpdatePassword(Target(r), Op(r).pw)
                 PROVE  FALSE
      OBVIOUS
    <3>1. Target(r) \in Account /\ Op(r).pw \in Password /\ Exists(Target(r))
      BY <2>1, TargetIsAccount, OperationAssumption DEF AskOK, CopyOK
    <3> QED
      BY <1>1, <3>1, UpdatePasswordEffect
  <2>5. Op(r).do = "update" /\ Update(Target(r), requests[r].copy, Op(r).role)
    BY <1>3, <2>2, <2>3, <2>4 DEF Write
  <2>6. Target(r) \in Account /\ Op(r).role \in Role /\ requests[r].copy \in UserRow
    BY <2>1, <2>5, TargetIsAccount, OperationAssumption DEF AskOK, CopyOK, SeenAs
  <2>7. v = Target(r) /\ (users'[v].active => requests[r].copy.active)
    BY <1>1, <2>5, <2>6, UpdateEffect
  <2> QED
    BY <1>3, <2>5, <2>7 DEF Write, Target
<1>4. Start \/ (\E r \in Request : Write(r)) \/ UNCHANGED users
  BY DEF Next, vars, Crash, Send, Login, Logout, Authorize, Read, CheckPassword, Receive, Lose
<1> QED
  BY <1>1, <1>2, <1>3, <1>4

(* Nobody is given access again, but by an edit that read the account while  *)
(* it was active: not by a creation under the same name, not by a restart's  *)
(* bootstrap, not by a new password.  The system account's access is one     *)
(* case of it.                                                               *)
THEOREM ReactivationCorrect == Spec => ReactivatedOnlyByEdit
<1>1. TypeInv /\ AskInv /\ [Next]_vars => TypeInv' /\ AskInv'
  BY RequestKinds, AskNext
<1>2. TypeInv /\ AskInv /\ [Next]_vars =>
        [\A u \in Account :
           /\ Exists(u) /\ ~users[u].active
           /\ users'[u].active
           => \E r \in Request : /\ At(r, "write") /\ Op(r).do = "update" /\ Op(r).u = u
                                 /\ requests[r].copy.active]_vars
  BY ReactivationStep
<1> QED
  BY AskInit, <1>1, <1>2, PTL DEF Spec, ReactivatedOnlyByEdit
=============================================================================
