---------------------------- MODULE UserDirectory ----------------------------
(***************************************************************************)
(* GET /users as the pages meet it: all accounts, for administrators.      *)
(* Nobody deletes one, but a backend in memory that restarts has only the  *)
(* accounts of seedDevUsers again.  An account is its name: who registers  *)
(* again after a restart is the same account as before.                    *)
(***************************************************************************)
EXTENDS Requests, FiniteSets

CONSTANTS Accounts,     \* names
          Seeded,       \* those of seedDevUsers, or of the database at the start
          MaxEditions   \* bound: changes of the accounts

ASSUME DirectoryAssumption ==
  IsFiniteSet(Accounts) /\ Seeded \subseteq Accounts /\ MaxEditions \in Nat \ {0}

VARIABLE members   \* the accounts of the backend, the current ones last

Members == members[Len(members)]

DirectoryInit == members = <<Seeded>>

\* auth.Handler.ListUsers behind its middleware: the accounts of this moment; 0
\* is 403.
ServeUsers(r) ==
  /\ r.kind = "listUsers"
  /\ Handle(r, IF role \in Served("GET /users") THEN Len(members) ELSE 0)
  /\ UNCHANGED members

MembersBecome(set) ==
  /\ Len(members) < MaxEditions
  /\ members' = Append(members, set)
  /\ UNCHANGED <<role, waiting, sent>>

Register == \E a \in Accounts \ Members : MembersBecome(Members \cup {a})

\* Tokens outlive it with a configured key, and the requests in flight are
\* answered by the new process or not at all.
RestartInMemory == Members # Seeded /\ MembersBecome(Seeded)

DirectoryServerStep ==
  (\E r \in waiting : ServeUsers(r)) \/ Register \/ RestartInMemory
=============================================================================
