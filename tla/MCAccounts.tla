----------------------------- MODULE MCAccounts -----------------------------
(* A small instance of Accounts for TLC. *)
EXTENDS Accounts, TLC

CONSTANTS admin, system, alice, old, new

\* Requests differ in nothing but their name.
Slots == Permutations(Request)

Edit(u, on) == [do |-> "update", on |-> on, u |-> u, role |-> "AUDITOR"]
Form(u) == [do |-> "edit", on |-> "page", u |-> u]
Signin(u, pw, on) == [do |-> "login", on |-> on, u |-> u, pw |-> pw]

\* The first administrator, a second one, what they may do to each other, and
\* the first one's new password.
Operations ==
    { Signin(admin, old, "api"), Signin(admin, new, "page"), Signin(alice, new, "page"),
      [do |-> "logout", on |-> "page"],
      [do |-> "view", on |-> "api"],
      [do |-> "view", on |-> "page"],
      [do |-> "create", on |-> "api", u |-> alice, role |-> "ADMINISTRATOR", pw |-> new],
      Form(admin), Edit(admin, "page"), Edit(alice, "api"), Form(system), Edit(system, "page"),
      [do |-> "deactivate", on |-> "api", u |-> admin],
      [do |-> "deactivate", on |-> "page", u |-> alice],
      [do |-> "password", on |-> "page", pw |-> old],
      [do |-> "password", on |-> "page", pw |-> new] }
=============================================================================
