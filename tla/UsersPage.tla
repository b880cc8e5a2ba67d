------------------------------ MODULE UsersPage ------------------------------
(***************************************************************************)
(* frontend/src/pages/UsersPage.tsx over GET /users: a directory that may  *)
(* be refreshed while it loads, and two filters over what came last.       *)
(***************************************************************************)
EXTENDS UserDirectory

\* "user" is a role and not among the options.
Options == {"all"} \cup (AllRoles \ {"user"})

CONSTANTS RoleOfAccount, \* roles of the accounts
          Choices,       \* options of the role filter, all of them or some
          Searches       \* texts of the search box, as the accounts that match

ASSUME AccountsAssumption ==
  /\ Choices \subseteq Options /\ "all" \in Choices
  /\ RoleOfAccount \in [Accounts -> AllRoles]
  /\ Searches \subseteq SUBSET Accounts
  /\ Accounts \in Searches   \* the empty text

VARIABLES users, usersLoading, error, filterRole, search,   \* useState
          asked,      \* history: the edition when the directory was last asked for
          overtaken   \* history: the latest answer to come was late

directory == <<users, usersLoading, error>>
filters   == <<filterRole, search>>
usersVars == <<directory, filters, asked, overtaken>>

Directories == InFlight({"listUsers"})

\* The page as it is mounted, with its first request on the way.
UsersMount(list, loading, err, option, text, from, over) ==
  /\ list = {} /\ loading = TRUE /\ err = FALSE
  /\ option = "all" /\ text = Accounts
  /\ from = Len(members) /\ over = FALSE

-----------------------------------------------------------------------------
\* Fault: Refresh does nothing while the directory loads.
RefreshOnce ==
  /\ asked' = Len(members)
  /\ IF usersLoading
       THEN UNCHANGED <<role, waiting, sent, usersLoading, error>>
       ELSE Ask("listUsers", << >>) /\ usersLoading' = TRUE /\ error' = FALSE
  /\ UNCHANGED <<members, users, filters, overtaken>>

\* fetchUsers, up to the await.
Refresh ==
  /\ Ask("listUsers", << >>)
  /\ usersLoading' = TRUE
  /\ error' = FALSE
  /\ asked' = Len(members)
  /\ UNCHANGED <<members, users, filters, overtaken>>

ChooseRole ==
  /\ filterRole' \in Choices
  /\ UNCHANGED <<role, waiting, sent, members, directory, search, asked, overtaken>>

TypeSearch ==
  /\ search' \in Searches
  /\ UNCHANGED <<role, waiting, sent, members, directory, filterRole, asked, overtaken>>

DirectoryArrives(r) ==
  /\ Answered(r)
  /\ users' = members[r.answer]
  /\ usersLoading' = FALSE
  /\ overtaken' = r.late
  /\ Over(r)
  /\ UNCHANGED <<members, error, filters, asked>>

DirectoryFails(r) ==
  /\ Failing(r)
  /\ error' = TRUE
  /\ usersLoading' = FALSE
  /\ Over(r)
  /\ UNCHANGED <<members, users, filters, asked, overtaken>>

DirectorySettles == \E r \in Directories : DirectoryArrives(r) \/ DirectoryFails(r)

UsersPageStep == Refresh \/ ChooseRole \/ TypeSearch \/ DirectorySettles

-----------------------------------------------------------------------------
\* filteredUsers.
Passes(a) ==
  /\ filterRole = "all" \/ RoleOfAccount[a] = filterRole
  /\ a \in search

filteredUsers == {a \in users : Passes(a)}

UserRows == IF usersLoading THEN {} ELSE filteredUsers

UsersTypeOK ==
  /\ users \subseteq Accounts /\ usersLoading \in BOOLEAN /\ error \in BOOLEAN
  /\ filterRole \in Choices /\ search \in Searches
  /\ asked \in 1 .. Len(members) /\ overtaken \in BOOLEAN

\* UsersPage.tsx:17-30: refreshes overlap, and each answer replaces the list and
\* ends the spinner, the answer of an older refresh too.  Once none is in
\* flight, if no failure is shown and the last answer was not overtaken, the
\* rows are the accounts that pass the filters as the backend had them at some
\* moment since the last refresh.
DirectoryIsFresh ==
  Directories = {} /\ ~error /\ ~overtaken =>
    \E v \in asked .. Len(members) : UserRows = {a \in members[v] : Passes(a)}

\* The directory is that of a moment since the last refresh.
Current == \E v \in asked .. Len(members) : users = members[v]

\* Why it is so: the last refresh is in flight and its answer will hold the
\* accounts of its moment, or it is over, and then any other in flight is late.
Newest(r) == \A q \in Directories : q.n <= r.n

LastRefreshCounts ==
  \/ \E r \in Directories :
       Newest(r) /\ ~r.late /\ (r.served => r.answer = 0 \/ r.answer >= asked)
  \/ /\ \A r \in Directories : r.late
     /\ error \/ overtaken \/ Current
=============================================================================
