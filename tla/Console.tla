------------------------------- MODULE Console -------------------------------
(***************************************************************************)
(* The console of a signed-in user: the router shows one page at a time    *)
(* over one backend.  A page that is opened starts from nothing; a page    *)
(* that is left forgets its state, but not what it has asked the backend   *)
(* to write.  Signing in and out and the guards of the routes are          *)
(* BrowserSession's matter, the audit page is AuditPage's.                 *)
(***************************************************************************)
EXTENDS PoliciesPage, AccessChecks, UsersPage, DashboardPage, Navbar

VARIABLE open   \* the page in the router's outlet

requests == <<role, waiting, sent>>
vars == <<requests, members, policyVars, checkVars, usersVars, dashVars, navVars, open>>

\* allowedRoles of the routes in App.tsx.
PageRoles(p) ==
  CASE p = "users" -> {"admin", "super_admin"}
    [] p = "roles" -> {"admin", "security_manager", "super_admin"}
    [] OTHER       -> AllRoles

\* The sandbox is a card of the policies page that shares no state with the
\* rest of it, and is watched as a page of its own.
Pages == {"dashboard", "applications", "policies", "sandbox", "users", "roles"}

\* What a page asks for when it is opened.
Opening(p, n) ==
  CASE p = "policies"  -> {NewRequest(n, "listPolicies", << >>)}
    [] p = "users"     -> {NewRequest(n, "listUsers", << >>)}
    [] p = "dashboard" -> {NewRequest(n, "listAuditLogs", << >>)}
    [] OTHER           -> {}

\* Every page as it is mounted; one that is not open stays so.
Mount ==
  /\ PoliciesMount(policies, policiesLoading, showCreateForm, policyName, lapsed)
  /\ CatalogMount(selectedApp, checkResult, isChecking, crossed)
  /\ SandboxMount(sandboxInput, sandboxResult, isEvaluating, edited)
  /\ UsersMount(users, usersLoading, error, filterRole, search, asked, overtaken)
  /\ DashboardMount(auditEvents, totalUsers, unheard, testResult, isTesting, lost, clicked)

Remount ==
  /\ PoliciesMount(policies', policiesLoading', showCreateForm', policyName', lapsed')
  /\ CatalogMount(selectedApp', checkResult', isChecking', crossed')
  /\ SandboxMount(sandboxInput', sandboxResult', isEvaluating', edited')
  /\ UsersMount(users', usersLoading', error', filterRole', search', asked', overtaken')
  /\ DashboardMount(auditEvents', totalUsers', unheard', testResult', isTesting', lost', clicked')

\* The badge of the navigation bar shares nothing with the pages: a behaviour
\* watches the one ("frame") or the other.
Init ==
  /\ role \in Roles
  /\ open \in {p \in Pages : role \in PageRoles(p)} \cup {"frame"}
  /\ waiting = Opening(open, 1)
  /\ sent = IF waiting = {} THEN 0 ELSE 1
  /\ DirectoryInit /\ PolicyServerInit /\ granted = {}
  /\ Mount
  /\ NavbarInit

\* A link of the sidebar.
Navigate(p) ==
  /\ open \in Pages \ {p} /\ role \in PageRoles(p)
  /\ open' = p
  /\ waiting' = Left(PolicyWrites) \cup Opening(p, sent + 1)
  /\ sent' = IF Opening(p, sent + 1) = {} THEN sent ELSE sent + 1
  /\ sent' <= MaxRequests
  /\ Remount
  /\ UNCHANGED <<role, members, policyServer, acked, granted, navVars>>

InPolicies(A) ==
  open = "policies" /\ A /\ UNCHANGED <<members, checkVars, usersVars, dashVars, navVars, open>>

InChecks(p, A) ==
  open = p /\ A /\ UNCHANGED <<members, policyVars, usersVars, dashVars, navVars, open>>

InUsers(A) ==
  open = "users" /\ A /\ UNCHANGED <<policyVars, checkVars, dashVars, navVars, open>>

InDashboard(A) ==
  open = "dashboard" /\ A /\ UNCHANGED <<policyVars, checkVars, usersVars, navVars, open>>

PageStep ==
  \/ InPolicies(PoliciesPageStep)
  \/ InChecks("sandbox", SandboxStep)
  \/ InChecks("applications", CatalogStep)
  \/ InUsers(UsersPageStep)
  \/ InDashboard(DashboardStep)

\* The backend works for whoever has asked, whatever page is open now; what
\* others do there is of interest where it is shown.
ServerStep ==
  \/ /\ PolicyRequestServed \/ (open = "policies" /\ Elsewhere)
     /\ UNCHANGED <<members, checkVars, usersVars, dashVars, navVars, open>>
  \/ ChecksServerStep /\ UNCHANGED <<members, policyVars, usersVars, dashVars, navVars, open>>
  \/ /\ open \in {"users", "dashboard"} /\ DirectoryServerStep
     /\ UNCHANGED <<policyVars, checkVars, usersVars, dashVars, navVars, open>>
  \/ DashboardServerStep /\ UNCHANGED <<policyVars, checkVars, usersVars, navVars, open>>

BadgeStep ==
  /\ open = "frame" /\ NavbarStep
  /\ UNCHANGED <<requests, members, policyVars, checkVars, usersVars, dashVars, open>>

Next == (\E p \in Pages : Navigate(p)) \/ PageStep \/ ServerStep \/ BadgeStep

Spec == Init /\ [][Next]_vars

\* A fetch ends one day, with an answer or an error; nothing else has to happen.
\* The badge's timer fires.
FairSpec ==
  /\ Spec
  /\ WF_vars(InPolicies(ListSettles))
  /\ WF_vars(InChecks("sandbox", EvaluationSettles))
  /\ WF_vars(InChecks("applications", LaunchSettles))
  /\ WF_vars(InUsers(DirectorySettles))
  /\ WF_vars(InDashboard(TestSettles))
  /\ WF_vars(open = "frame" /\ CheckBackend /\ UNCHANGED <<requests, members, policyVars, checkVars, usersVars, dashVars, open>>)
  /\ \A k \in Polls :
       WF_vars(open = "frame" /\ (PollMeets(k) \/ PollSettles(k)) /\ UNCHANGED <<requests, members, policyVars, checkVars, usersVars, dashVars, open>>)

-----------------------------------------------------------------------------
Methods == {"listPolicies", "createPolicy", "deletePolicy", "launch", "evaluate",
            "listUsers", "listAuditLogs", "test"}

\* What the routes answer, and what they are asked.
AnswerOK(r) ==
  /\ r.kind \in {"listPolicies", "createPolicy", "deletePolicy"} => r.answer <= Len(past)
  /\ r.kind = "listPolicies" /\ r.served => r.answer # 0
  /\ r.kind \in {"launch", "evaluate"} => r.arg \in Questions
  /\ r.kind = "listUsers" => r.answer <= Len(members)
  /\ r.kind = "listAuditLogs" => r.answer <= FeedSize + 1
  /\ r.kind = "test" => \E e \in Endpoints : r.arg = <<e>>

RequestOK(r) ==
  /\ r = [n |-> r.n, kind |-> r.kind, arg |-> r.arg, served |-> r.served,
           answer |-> r.answer, late |-> r.late, orphan |-> r.orphan]
  /\ r.n \in 1 .. sent /\ r.kind \in Methods /\ r.answer \in Nat
  /\ r.served \in BOOLEAN /\ r.late \in BOOLEAN /\ r.orphan \in BOOLEAN
  /\ AnswerOK(r)

RequestsTypeOK ==
  /\ sent \in 0 .. MaxRequests
  /\ \A r \in waiting : RequestOK(r)
  /\ \A q, r \in waiting : q.n = r.n => q = r

\* Every variable ranges over the values the code can give it, and requests in
\* flight have numbers of their own.
TypeOK ==
  /\ role \in Roles /\ open \in Pages \cup {"frame"}
  /\ members \in Seq(SUBSET Accounts) /\ members # << >>
  /\ RequestsTypeOK
  /\ PoliciesTypeOK /\ ChecksTypeOK /\ UsersTypeOK /\ DashboardTypeOK /\ NavbarTypeOK

\* permissions.go:39 and RolesPage.tsx:138, "Enforced by Middleware": the four
\* places that say what a role may do agree but for the exceptions OneTruth
\* names, and no write is on its way that its route would refuse.
OneTruthAboutRoles ==
  /\ \A r \in AllRoles : OneTruth(r)
  /\ \A r \in waiting : r.kind \in PolicyWrites => role \in Served("POST /policies")

\* PoliciesPage.tsx: the administrator sees his own writes, see
\* PoliciesReadYourWrites, those included that he made before he left the page
\* and came back.
ReadYourWrites == open = "policies" => PoliciesReadYourWrites /\ TimelyListIsOwed

\* UsersPage.tsx: the directory holds everybody there was at the last refresh,
\* see DirectoryIsFresh.
DirectoryFresh == open = "users" => DirectoryIsFresh /\ LastRefreshCounts

\* DashboardPage.tsx: every role learns there what it may, see
\* DashboardTellsWhatItMay, and what it may not, see ProverTellsTheTruth.
DashboardHonest == open = "dashboard" => DashboardTellsWhatItMay /\ ProverTellsTheTruth

\* The decisions shown belong to the name, or the inputs, over them.
VerdictsInPlace ==
  /\ open = "applications" => PanelTellsOfItsApp
  /\ open = "sandbox" => SandboxTellsOfItsInputs

\* Navbar.tsx: the badge tells the truth in the end, see HealthConverges.
BadgeConverges == open = "frame" => HealthConverges

\* useState(true) and setIsLoading(false) in a finally block: whatever becomes
\* of the requests, each spinner stops.
SpinnersStop ==
  /\ (open = "policies" /\ policiesLoading) ~> ~(open = "policies" /\ policiesLoading)
  /\ (open = "sandbox" /\ isEvaluating) ~> ~(open = "sandbox" /\ isEvaluating)
  /\ (open = "users" /\ usersLoading) ~> ~(open = "users" /\ usersLoading)
  /\ (open = "applications" /\ isChecking) ~> ~(open = "applications" /\ isChecking)
  /\ (open = "dashboard" /\ isTesting) ~> ~(open = "dashboard" /\ isTesting)

\* Why they do: a spinner has a request in flight that will stop it, though an
\* older answer may stop it before.  The buttons of the sandbox and the prover
\* are disabled exactly while their one request is in flight.
Single(S) == \A q, r \in S : q = r

SpinnersAreOwed ==
  /\ open = "policies" /\ policiesLoading => PolicyLists # {}
  /\ open = "users" /\ usersLoading => Directories # {}
  /\ open = "applications" /\ isChecking => Launches # {}
  /\ open = "sandbox" => Single(Evaluations) /\ (isEvaluating <=> Evaluations # {})
  /\ open = "dashboard" => Single(Tests) /\ (isTesting <=> Tests # {})
=============================================================================
