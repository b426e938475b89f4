------------------------------ MODULE Accounts ------------------------------
(***************************************************************************)
(* User accounts and the sessions of browsers: the bootstrap of the first  *)
(* administrator, requests that are authorised from the users table and    *)
(* then change it in several statements, and the two cookies (API, page)   *)
(* that every answer may set.  Answers reach a browser in any order.       *)
(*                                                                         *)
(* An account is named by its username, which never changes.  Of an edit   *)
(* only the role is kept; an e-mail is written with it.                    *)
(***************************************************************************)
EXTENDS Integers, FiniteSets

CONSTANTS
    Account,        \* usernames, among them the two below
    Admin, System,  \* "admin", which bootstrap creates, and migration 009's
    Password,
    BootstrapPassword,
    Browser,
    Request,        \* requests that may be under way at a time
    Operation,      \* what requests may ask for, and on which surface
    MaxRequests,    \* bound of a run: requests sent
    NULL

ASSUME AccountsAssumption ==
    /\ {Admin, System} \subseteq Account
    /\ BootstrapPassword \in Password
    /\ MaxRequests \in Nat
    /\ NULL \notin Password

Role == {"ADMINISTRATOR", "FULFILLMENT_SPECIALIST", "AUDITOR"}

VARIABLES
    up,        \* the server runs
    users,     \* the users table
    cookies,   \* what each browser holds
    forms,     \* edit forms that browsers have open, with the account they show
    requests,  \* requests on their way, being served, or answered
    sent,      \* how many requests have been sent
    overlapped \* browsers that have had two requests under way at once

vars == <<up, users, cookies, forms, requests, sent, overlapped>>

(* renewed: the account has had a password other than the bootstrap one;     *)
(* revived: an edit has undone its deactivation.  Neither is stored.         *)
UserRow ==
    [role : Role, active : BOOLEAN, version : Nat, rotate : BOOLEAN,
     pw : Password \cup {NULL}, renewed : BOOLEAN, revived : BOOLEAN]

Cookie == [u : Account, role : Role] \cup {NULL}

ASSUME NullAssumption == NULL \notin UserRow \cup [u : Account, role : Role]

(* What a request carries: its form, and the account its path names.         *)
ASSUME OperationAssumption ==
    \A op \in Operation :
        /\ op.do \in {"login", "logout", "view", "edit", "create", "update", "deactivate", "password"}
        /\ op.on \in {"api", "page"}
        /\ op.do \in {"login", "edit", "create", "update", "deactivate"} => op.u \in Account
        /\ op.do \in {"create", "update"} => op.role \in Role
        /\ op.do \in {"login", "create", "password"} => op.pw \in Password

(* An answer that sets neither cookie; else the new value is in the set.     *)
Keep == [api |-> {}, page |-> {}]

NoRequest == [at |-> "none"]

AccountsTypeOK ==
    /\ up \in BOOLEAN
    /\ users \in [Account -> UserRow \cup {NULL}]
    /\ cookies \in [Browser -> [api : Cookie, page : Cookie]]
    /\ forms \subseteq [b : Browser, u : Account, row : UserRow]
    /\ \A r \in Request : requests[r] # NoRequest =>
         /\ requests[r].at \in {"sent", "read", "check", "write", "answered"}
         /\ requests[r].b \in Browser
         /\ requests[r].op \in Operation
         /\ requests[r].reply.api \subseteq Cookie /\ requests[r].reply.page \subseteq Cookie
         /\ {requests[r].copy, requests[r].shown} \subseteq UserRow \cup {NULL}
    /\ sent \in 0 .. MaxRequests
    /\ overlapped \subseteq Browser

Init ==
    /\ up = FALSE
    /\ users = [[u \in Account |-> NULL] EXCEPT ![System] =
                  [role |-> "ADMINISTRATOR", active |-> FALSE, version |-> 1,
                   rotate |-> FALSE, pw |-> NULL, renewed |-> TRUE, revived |-> FALSE]]
    /\ cookies = [b \in Browser |-> [api |-> NULL, page |-> NULL]]
    /\ forms = {}
    /\ requests = [r \in Request |-> NoRequest]
    /\ sent = 0
    /\ overlapped = {}

-----------------------------------------------------------------------------
(* The users table *)

Exists(u) == users[u] # NULL

CountByRole(role) == Cardinality({ u \in Account : Exists(u) /\ users[u].role = role /\ users[u].active })

(* Create: the username is unique.                                           *)
Insert(u, role, pw, rotate) ==
    users' = IF Exists(u) THEN users
             ELSE [users EXCEPT ![u] = [role |-> role, active |-> TRUE, version |-> 1,
                                        rotate |-> rotate, pw |-> pw, renewed |-> ~rotate,
                                        revived |-> FALSE]]

MatchesAnyVersion(u, copy) == Exists(u)                            \* mutant

Matches(u, copy) == Exists(u) /\ users[u].version = copy.version

UpdateActivates(u, copy, role) ==                                  \* mutant
    users' = IF ~Matches(u, copy) THEN users
             ELSE [users EXCEPT ![u].role = role, ![u].active = TRUE, ![u].version = @ + 1]

(* Update writes back what was read of is_active.                            *)
Update(u, copy, role) ==
    users' = IF ~Matches(u, copy) THEN users
             ELSE [users EXCEPT ![u].role = role, ![u].active = copy.active,
                                ![u].version = @ + 1,
                                ![u].revived = @ \/ (copy.active /\ ~users[u].active)]

Deactivate(u) ==
    users' = IF ~Exists(u) THEN users ELSE [users EXCEPT ![u].active = FALSE]

UpdatePassword(u, pw) ==
    users' = [users EXCEPT ![u].pw = pw, ![u].rotate = FALSE, ![u].version = @ + 1,
                           ![u].renewed = @ \/ pw # BootstrapPassword]

Authenticates(u, pw) == Exists(u) /\ users[u].active /\ users[u].pw = pw

-----------------------------------------------------------------------------
(* The process *)

(* BootstrapAdmin, before the server listens.                                *)
Start ==
    /\ ~up
    /\ up' = TRUE
    /\ IF CountByRole("ADMINISTRATOR") = 0
       THEN Insert(Admin, "ADMINISTRATOR", BootstrapPassword, TRUE)
       ELSE UNCHANGED users
    /\ UNCHANGED <<cookies, forms, requests, sent, overlapped>>

(* Browsers keep their cookies; requests under way are lost, answers are not.*)
Crash ==
    /\ up
    /\ up' = FALSE
    /\ requests' = [r \in Request |->
                      IF requests[r] # NoRequest /\ requests[r].at # "answered"
                      THEN NoRequest ELSE requests[r]]
    /\ UNCHANGED <<users, cookies, forms, sent, overlapped>>

-----------------------------------------------------------------------------
(* Requests *)

UnderWay(b) == \E r \in Request : requests[r] # NoRequest /\ requests[r].b = b

(* What the sender of an edit saw: on a page the account its form shows.     *)
(* It decides nothing: the form sends the version it shows, but              *)
(* PostUpdateUser does not read it, and an API request carries none.         *)
Shown(b, op) ==
    IF op.do = "update" /\ op.on = "page"
    THEN { f.row : f \in { f \in forms : f.b = b /\ f.u = op.u } }
    ELSE {NULL}

Send(r, b, op) ==
    /\ up
    /\ requests[r] = NoRequest
    /\ sent < MaxRequests
    /\ sent' = sent + 1
    /\ \E shown \in Shown(b, op) :
         requests' = [requests EXCEPT ![r] =
                        [at |-> "sent", b |-> b, op |-> op, cookie |-> cookies[b][op.on],
                         shown |-> shown, copy |-> NULL, reply |-> Keep]]
    /\ overlapped' = IF UnderWay(b) THEN overlapped \cup {b} ELSE overlapped
    /\ UNCHANGED <<up, users, cookies, forms>>

At(r, step) == up /\ requests[r] # NoRequest /\ requests[r].at = step

Op(r) == requests[r].op

Goes(r, step) == requests' = [requests EXCEPT ![r].at = step]

Answers(r, reply) == requests' = [requests EXCEPT ![r].at = "answered", ![r].reply = reply]

LoginOfOneSurface(c, on) == [Keep EXCEPT ![on] = {c}]      \* mutant

LoginWithoutRole(c, on) == [api |-> {[u |-> c.u]}, page |-> {c}]   \* mutant

(* Both logins set both cookies.                                             *)
LoginSets(c, on) == [api |-> {c}, page |-> {c}]

Login(r) ==
    /\ At(r, "sent") /\ Op(r).do = "login"
    /\ LET u == Op(r).u IN
       IF Authenticates(u, Op(r).pw)
       THEN Answers(r, LoginSets([u |-> u, role |-> users[u].role], Op(r).on))
       ELSE Answers(r, Keep)
    /\ UNCHANGED <<up, users, cookies, forms, sent, overlapped>>

(* ClearAllSessions.                                                         *)
Logout(r) ==
    /\ At(r, "sent") /\ Op(r).do = "logout"
    /\ Answers(r, [api |-> {NULL}, page |-> {NULL}])
    /\ UNCHANGED <<up, users, cookies, forms, sent, overlapped>>

EffectiveRole(c) == users[c.u].role

MayAsk(role, op) == op.do \in {"view", "password"} \/ role = "ADMINISTRATOR"

FirstStep(op) ==
    CASE op.do = "view" -> "answered"
      [] op.do \in {"edit", "update", "password"} -> "read"
      [] OTHER -> "write"

(* SessionAuth and RequireRole, or their page twins, which put the account's *)
(* role into the page cookie whether or not the request may go on.           *)
Authorize(r) ==
    /\ At(r, "sent") /\ Op(r).do \notin {"login", "logout"}
    /\ LET c  == requests[r].cookie
           on == Op(r).on
       IN IF c = NULL THEN Answers(r, Keep)
          ELSE IF ~Exists(c.u) \/ ~users[c.u].active
          THEN Answers(r, [Keep EXCEPT ![on] = {NULL}])
          ELSE requests' = [requests EXCEPT
                 ![r].at = IF MayAsk(EffectiveRole(c), Op(r)) THEN FirstStep(Op(r)) ELSE "answered",
                 ![r].reply.page = IF on = "page" THEN {[c EXCEPT !.role = EffectiveRole(c)]}
                                   ELSE {}]
    /\ UNCHANGED <<up, users, cookies, forms, sent, overlapped>>

(* ShowEditUser, UpdateUser and PostChangePassword read the account first.   *)
Target(r) == IF Op(r).do = "password" THEN requests[r].cookie.u ELSE Op(r).u

AfterRead(op) ==
    CASE op.do = "edit" -> "answered"
      [] op.do = "password" -> "check"
      [] OTHER -> "write"

Read(r) ==
    /\ At(r, "read")
    /\ requests' = IF ~Exists(Target(r)) THEN [requests EXCEPT ![r].at = "answered"]
                   ELSE [requests EXCEPT ![r].copy = users[Target(r)],
                                         ![r].at = AfterRead(Op(r))]
    /\ UNCHANGED <<up, users, cookies, forms, sent, overlapped>>

NeverSame(r) == FALSE                                              \* mutant

(* The new password is the old one, which had to be replaced.                *)
SameAsInitial(r) == Authenticates(Target(r), Op(r).pw) /\ requests[r].copy.rotate

CheckPassword(r) ==
    /\ At(r, "check")
    /\ Goes(r, IF SameAsInitial(r) THEN "answered" ELSE "write")
    /\ UNCHANGED <<up, users, cookies, forms, sent, overlapped>>

Write(r) ==
    /\ At(r, "write")
    /\ LET u == Target(r) IN
       \/ Op(r).do = "create" /\ Insert(u, Op(r).role, Op(r).pw, FALSE)
       \/ Op(r).do = "update" /\ Update(u, requests[r].copy, Op(r).role)
       \/ Op(r).do = "deactivate" /\ Deactivate(u)
       \/ Op(r).do = "password" /\ UpdatePassword(u, Op(r).pw)
    /\ Goes(r, "answered")
    /\ UNCHANGED <<up, cookies, forms, sent, overlapped>>

(* An answer reaches its browser, or is lost.  A form that was asked for is  *)
(* open then.                                                                *)
Receive(r) ==
    /\ requests[r] # NoRequest /\ requests[r].at = "answered"
    /\ requests' = [requests EXCEPT ![r] = NoRequest]
    /\ LET q == requests[r]
           New(old, reply) == IF reply = {} THEN old ELSE CHOOSE c \in reply : TRUE
       IN cookies' = [cookies EXCEPT ![q.b] =
                        [api |-> New(@.api, q.reply.api), page |-> New(@.page, q.reply.page)]]
    /\ forms' = forms \cup (IF Op(r).do = "edit" /\ requests[r].copy # NULL
                             THEN {[b |-> requests[r].b, u |-> Op(r).u, row |-> requests[r].copy]}
                             ELSE {})
    /\ UNCHANGED <<up, users, sent, overlapped>>

Lose(r) ==
    /\ requests[r] # NoRequest /\ requests[r].at = "answered"
    /\ requests' = [requests EXCEPT ![r] = NoRequest]
    /\ UNCHANGED <<up, users, cookies, forms, sent, overlapped>>

Next ==
    \/ Start
    \/ Crash
    \/ \E r \in Request :
         \/ \E b \in Browser, op \in Operation : Send(r, b, op)
         \/ Login(r) \/ Logout(r) \/ Authorize(r)
         \/ Read(r) \/ CheckPassword(r) \/ Write(r)
         \/ Receive(r) \/ Lose(r)

Spec == Init /\ [][Next]_vars

-----------------------------------------------------------------------------
(* Properties *)

Same(x, y) == [x EXCEPT !.active = y.active] = y

(* An edit loses nothing that was saved once its handler had read the        *)
(* account: what it read still holds when it is written, but for is_active,  *)
(* which Deactivate changes without a new version.  That is all the version  *)
(* is good for: UpdateUser reads it itself, right before it writes, so that  *)
(* an edit made from a form overwrites unseen what was saved since the form  *)
(* was opened, and only if nothing was, it overwrites what the form showed.  *)
NoEditLostOnceRead ==
    [][\A r \in Request :
         Write(r) /\ Op(r).do = "update" /\ users' # users =>
            LET row  == users[Op(r).u]
                copy == requests[r].copy
                shown == requests[r].shown
            IN /\ Same(row, copy)
               /\ shown # NULL => shown.version < copy.version \/ Same(row, shown)]_vars

(* Nobody is given access again: an account that is inactive stays so, unless*)
(* an edit that read it before is still under way (UpdateUser writes back    *)
(* is_active as it read it, and undoes the deactivation).  In particular the *)
(* system account never becomes active.                                      *)
ReactivatedOnlyByEdit ==
    [][\A u \in Account :
         /\ Exists(u) /\ ~users[u].active
         /\ users'[u].active
         => \E r \in Request : /\ At(r, "write") /\ Op(r).do = "update" /\ Op(r).u = u
                               /\ requests[r].copy.active]_vars

(* The rotation of the initial password is real: an active account whose     *)
(* flag is cleared has had a password other than the bootstrap one at some   *)
(* time.  Only then may it go back to that one (nothing forbids it, and it   *)
(* is not asked to change it again).  PostChangePassword lets any password   *)
(* pass while the account is inactive, so that all this fails for an account *)
(* that an edit has brought back just before the new password is written.    *)
RotationIsReal ==
    \A u \in Account :
        Exists(u) /\ users[u].active /\ ~users[u].rotate =>
            users[u].renewed \/ users[u].revived

(* The two cookies of a browser never name two accounts (Login, PostLogin    *)
(* and ClearAllSessions treat both), unless it had two requests under way:   *)
(* the answer to a page request sets the page cookie again, even after a     *)
(* logout or another login that it was overtaken by.                         *)
CookiesAgree ==
    \A b \in Browser \ overlapped :
        \/ NULL \in {cookies[b].api, cookies[b].page}
        \/ cookies[b].api.u = cookies[b].page.u
=============================================================================
