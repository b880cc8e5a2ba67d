------------------------------ MODULE UserStores ------------------------------
(***************************************************************************)
(* The two implementations of auth.UserStore side by side: the two maps of *)
(* MemoryUserStore (internal/auth/store.go) and the table of               *)
(* PostgresUserStore (store_postgres.go) get the same calls.  Every call   *)
(* of the one holds its lock, and is one statement of the other.  Callers  *)
(* hold copies: an update writes a whole account, read at any time before. *)
(* UpdateUser has no caller in the server; it stands for any future one.   *)
(***************************************************************************)
EXTENDS Naturals

CONSTANTS Ids,     \* UUIDs drawn by Register
          Names,   \* usernames
          Dates,   \* values of created_at
          Rest,    \* all other fields of an account
          Fit      \* those the table takes: without organization, or with one that exists

ASSUME StoresAssumption == Fit \subseteq Rest

VARIABLES byID, byUsername,   \* MemoryUserStore: accounts, by id and by name
          userTable,          \* PostgresUserStore: the rows of users
          alike,              \* history: both have answered the last call alike
          clashed             \* history: a call was one that the table alone refuses,
                              \* or gave an account another created_at

storeVars == <<byID, byUsername, userTable, alike, clashed>>

Account == [id : Ids, name : Names, created : Dates, rest : Rest]

StoresInit ==
  /\ byID = << >> /\ byUsername = << >>
  /\ userTable = {}
  /\ alike = TRUE /\ clashed = FALSE

\* A map with an entry set, and one with an entry deleted.
With(map, key, value) ==
  [k \in DOMAIN map \cup {key} |-> IF k = key THEN value ELSE map[k]]

Delete(map, key) == [k \in DOMAIN map \ {key} |-> map[k]]

RowsOf(id)      == {r \in userTable : r.id = id}
RowsNamed(name) == {r \in userTable : r.name = name}

-----------------------------------------------------------------------------
\* CreateUser: both refuse a name that is taken, and the table an organization
\* that does not exist, which Register never names.  Ids are fresh.
CreateUser(a) ==
  /\ a.id \notin DOMAIN byID
  /\ LET taken == a.name \in DOMAIN byUsername
         unique == RowsNamed(a.name) = {}
         fits == a.rest \in Fit
     IN  /\ IF taken THEN UNCHANGED <<byID, byUsername>>
            ELSE byID' = With(byID, a.id, a) /\ byUsername' = With(byUsername, a.name, a)
         /\ userTable' = IF unique /\ fits THEN userTable \cup {a} ELSE userTable
         /\ alike' = (taken = ~(unique /\ fits))
         /\ clashed' = (clashed \/ (unique /\ ~fits))

\* Fault: the entry of the old name is left.
UpdateMapsLeavingOldName(a) ==
  byID' = With(byID, a.id, a) /\ byUsername' = With(byUsername, a.name, a)

\* UpdateUser of the maps: the new entries are made, then the old name's is
\* removed if the name has changed.
UpdateMaps(a) ==
  LET old == byID[a.id].name
      named == With(byUsername, a.name, a)
  IN  /\ byID' = With(byID, a.id, a)
      /\ byUsername' = IF old = a.name THEN named ELSE Delete(named, old)

\* What the table keeps of a row that is updated.
Updated(a, row) == [a EXCEPT !.created = row.created]

\* UpdateUser: not found in both, or written.  The table refuses a name that is
\* another's and an organization that does not exist, and leaves created_at; the
\* maps overwrite his entry, and all fields.
UpdateUser(a) ==
  /\ LET found  == a.id \in DOMAIN byID
         row    == RowsOf(a.id) # {}
         admits == RowsNamed(a.name) \subseteq RowsOf(a.id) /\ a.rest \in Fit
         dated  == \A r \in RowsOf(a.id) : r.created = a.created
     IN  /\ IF found THEN UpdateMaps(a) ELSE UNCHANGED <<byID, byUsername>>
         /\ userTable' =
              IF row /\ admits
                THEN (userTable \ RowsOf(a.id)) \cup {Updated(a, r) : r \in RowsOf(a.id)}
                ELSE userTable
         /\ alike' = (found = (row /\ admits))
         /\ clashed' = (clashed \/ (row /\ ~(admits /\ dated)))

StoresStep == \E a \in Account : CreateUser(a) \/ UpdateUser(a)

-----------------------------------------------------------------------------
\* GetUserByUsername, GetUserByID and ListUsers, of the maps; the table's are
\* RowsNamed, RowsOf and userTable.
Named(name) == {byUsername[n] : n \in DOMAIN byUsername \cap {name}}
Entry(id)   == {byID[i] : i \in DOMAIN byID \cap {id}}
Everybody   == {byID[i] : i \in DOMAIN byID}

StoresTypeOK ==
  /\ DOMAIN byID \subseteq Ids /\ Everybody \subseteq Account
  /\ DOMAIN byUsername \subseteq Names
  /\ \A n \in DOMAIN byUsername : byUsername[n] \in Account
  /\ userTable \subseteq Account
  /\ alike \in BOOLEAN /\ clashed \in BOOLEAN

\* store.go:12, "allowing seamless substitution": until somebody is renamed to
\* a name that is taken, put into an organization that does not exist, or given
\* another created_at, the two maps tell the same accounts as each other and as
\* the table, to every call.
StoresAgree ==
  ~clashed =>
    /\ alike
    /\ Everybody = userTable
    /\ \A n \in Names : Named(n) = RowsNamed(n)
    /\ \A i \in Ids : Entry(i) = RowsOf(i)
=============================================================================
