----------------------------- MODULE Permissions -----------------------------
(***************************************************************************)
(* What a role may do, said four times: rolePermissions of                 *)
(* internal/rbac/permissions.go, which no handler reads; the middleware of *)
(* the routes in main.go, which decides; the table of RolesPage.tsx, which *)
(* tells it to administrators; and hasRole of useAuth.ts, which decides    *)
(* what PoliciesPage.tsx offers.                                           *)
(***************************************************************************)

AllRoles == {"super_admin", "admin", "security_manager", "developer",
             "analyst", "viewer", "user"}

UserRights == {"users.read", "users.create", "users.update"}
OrgAndRoleRights == {"organizations.read", "organizations.manage",
                     "roles.read", "roles.manage"}

rolePermissions ==
  [super_admin |->
     UserRights \cup OrgAndRoleRights \cup
     {"users.delete", "applications.read", "applications.manage", "policies.read",
      "policies.manage", "audit.read", "security.manage"},
   admin |->
     UserRights \cup
     {"applications.read", "applications.manage", "policies.read",
      "policies.manage", "audit.read", "organizations.read", "roles.read"},
   security_manager |->
     {"users.read", "applications.read", "policies.read", "policies.manage",
      "audit.read", "security.manage", "roles.read"},
   developer |->
     {"users.read", "applications.read", "applications.manage", "policies.read"},
   analyst |->
     {"users.read", "applications.read", "policies.read", "audit.read"},
   viewer |-> {"applications.read"},
   user   |-> {"applications.read"}]

\* The roles for which permissions.go lists p.
Holders(p) == {r \in AllRoles : p \in rolePermissions[r]}

\* RolesPage.tsx has a row for each of these roles and a column for each of
\* these rights: users.update is in its data and in no column, organizations
\* and roles are not in its data.
Rows    == AllRoles \ {"user"}
Columns == {"users.read", "users.create", "users.delete", "applications.read",
            "applications.manage", "policies.read", "policies.manage",
            "audit.read", "security.manage"}

\* The check marks of a row.
Matrix ==
  [super_admin |-> Columns,
   admin |-> Columns \ {"users.delete", "security.manage"},
   security_manager |-> {"users.read", "applications.read", "policies.read",
                         "policies.manage", "audit.read", "security.manage"},
   developer |-> {"users.read", "applications.read", "applications.manage",
                  "policies.read"},
   analyst |-> {"users.read", "applications.read", "policies.read", "audit.read"},
   viewer  |-> {"applications.read"}]

\* Fault: super_admin is no exception.
RequireTheseRoles(roles) == roles

\* RequireAnyRole of middleware.go; RequireRole is the case of one role.
RequireAnyRole(roles) == roles \cup {"super_admin"}

\* Who the routes of main.go serve.
Served(route) ==
  CASE route \in {"GET /users", "GET /admin-only"} -> RequireAnyRole({"admin"})
    [] route \in {"POST /policies", "DELETE /policies", "GET /audit"} ->
         RequireAnyRole({"admin", "security_manager"})
    [] OTHER -> AllRoles  \* GET /policies, POST /access/check, GET /user-or-admin

\* hasRole of useAuth.ts for somebody who is signed in.
HasRole(role, roles) == role = "super_admin" \/ role \in roles

canManagePolicies(role) == HasRole(role, {"admin", "security_manager", "super_admin"})

\* permissions.go:39, "single source of truth - handlers must NOT hardcode role
\* checks".  Every handler does.  What the four places agree on for role r: the
\* rows of the page are permissions.go; the managers of policies are the same
\* everywhere; and who is served without the right, or refused with it, are
\* the roles named here and no other.
OneTruth(r) ==
  /\ r \in Rows => Matrix[r] = rolePermissions[r] \cap Columns
  /\ canManagePolicies(r) <=> r \in Holders("policies.manage")
  /\ \A write \in {"POST /policies", "DELETE /policies"} :
       canManagePolicies(r) <=> r \in Served(write)
  /\ r \in Served("GET /users") => r \in Holders("users.read")
  /\ r \in Holders("users.read") \ Served("GET /users")
       <=> r \in {"security_manager", "developer", "analyst"}
  /\ r \in Served("GET /audit") => r \in Holders("audit.read")
  /\ r \in Holders("audit.read") \ Served("GET /audit") <=> r = "analyst"
  /\ r \in Holders("policies.read") => r \in Served("GET /policies")
  /\ r \in Served("GET /policies") \ Holders("policies.read") <=> r \in {"viewer", "user"}
=============================================================================
