--------------------------- MODULE MCAuthService ---------------------------
(***************************************************************************)
(* Small instances of AuthService: an administrator and a suspended        *)
(* developer exist, a newcomer registers.                                  *)
(***************************************************************************)
EXTENDS AuthService

TheNames     == {"root", "dora", "newcomer", "ab"}
TooShort     == {"ab"}
ThePasswords == {"right", "other", "weak", "long"}

TheAccounts ==
  <<[name |-> "root", password |-> "right", role |-> "admin", active |-> TRUE, secret |-> 0],
    [name |-> "dora", password |-> "right", role |-> "developer", active |-> FALSE, secret |-> 0]>>

\* The administrator's MFA was enabled in the database, the developer's not.
EnrolledAccounts ==
  <<[name |-> "root", password |-> "right", role |-> "admin", active |-> TRUE, secret |-> 9],
    [name |-> "dora", password |-> "right", role |-> "developer", active |-> TRUE, secret |-> 0]>>

Plain(name) == [base |-> name, padded |-> FALSE]
Blank(name) == [base |-> name, padded |-> TRUE]
RegisterAs(raw, password, role) ==
  [kind |-> "register", raw |-> raw, password |-> password, role |-> role]
LoginAs(raw, password) == [kind |-> "login", raw |-> raw, password |-> password]
Bearing(kind) == [kind |-> kind, code |-> 0]

\* What tokens open.
Inside == {Bearing(kind) : kind \in BearerKinds}

\* Two people after one name, refused input, and tokens at work.
Newcomers ==
  {[kind |-> "garbled"],
   RegisterAs(Plain("ab"), "right", "viewer"),
   RegisterAs(Plain("newcomer"), "long", "viewer"),
   RegisterAs(Plain("newcomer"), "right", "viewer"),
   RegisterAs(Plain("newcomer"), "right", "invalid"),
   RegisterAs(Blank("newcomer"), "other", "super_admin"),
   LoginAs(Plain("newcomer"), "right"), LoginAs(Plain("newcomer"), "other"),
   LoginAs(Plain("dora"), "right"), Bearing("users"), Bearing("me")}

\* An administrator with MFA, a developer without and a newcomer at work.
Everyone ==
  {RegisterAs(Blank("newcomer"), "right", "viewer"),
   LoginAs(Plain("newcomer"), "right"), LoginAs(Blank("newcomer"), "right"),
   LoginAs(Plain("root"), "right"), LoginAs(Plain("dora"), "right")} \cup Inside
=============================================================================
