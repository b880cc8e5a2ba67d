---------------------------- MODULE DashboardPage ----------------------------
(***************************************************************************)
(* frontend/src/pages/DashboardPage.tsx, the page every role starts on: it *)
(* asks once for the newest audit events and then for the users, which     *)
(* most roles are refused, and its prover calls an endpoint in the user's  *)
(* name and shows what the middleware said.                                *)
(***************************************************************************)
EXTENDS UserDirectory

CONSTANT FeedSize   \* 6 in DashboardPage.tsx

ASSUME FeedAssumption == FeedSize \in Nat \ {0}

VARIABLES auditEvents, totalUsers, testResult, isTesting,   \* useState; auditEvents: how many
          unheard,   \* history: the requests for numbers that have failed, by kind
          lost,      \* history: the prover's last call failed on the way, not at the backend
          clicked    \* history: the endpoint of the last click

numbers  == <<auditEvents, totalUsers, unheard>>
prover   == <<testResult, isTesting, lost, clicked>>
dashVars == <<numbers, prover>>

DefaultUsers == 4

\* res.count || 4.
Shown(set) == IF set = {} THEN DefaultUsers ELSE Cardinality(set)

NoTest      == [endpoint |-> "none", success |-> FALSE]
Endpoints   == {"GET /admin-only", "GET /user-or-admin"}
TestResults == [endpoint : Endpoints, success : BOOLEAN] \cup {NoTest}

\* The page as it is mounted, with its first request on the way.
DashboardMount(events, total, failed, result, testing, gone, click) ==
  /\ events = 0 /\ total = DefaultUsers /\ failed = {}
  /\ result = NoTest /\ testing = FALSE /\ gone = FALSE /\ click = "none"

Feeds == InFlight({"listAuditLogs", "listUsers"})
Tests == InFlight({"test"})

-----------------------------------------------------------------------------
\* fetchData: the events, and whatever becomes of them, then the users.
FeedContinues(r) ==
  IF r.kind = "listAuditLogs"
    THEN /\ sent < MaxRequests
         /\ sent' = sent + 1
         /\ waiting' = Without(r) \cup {Asked("listUsers", << >>)}
         /\ UNCHANGED role
    ELSE Over(r)

FeedArrives(r) ==
  /\ Answered(r)
  /\ IF r.kind = "listAuditLogs"
       THEN auditEvents' = r.answer - 1 /\ UNCHANGED totalUsers
       ELSE totalUsers' = Shown(members[r.answer]) /\ UNCHANGED auditEvents
  /\ FeedContinues(r)
  /\ UNCHANGED <<members, prover, unheard>>

\* Fault: one try block for both.
FeedFailsAltogether(r) ==
  /\ Failing(r)
  /\ unheard' = unheard \cup {r.kind}
  /\ Over(r)
  /\ UNCHANGED <<members, auditEvents, totalUsers, prover>>

\* The catch blocks are empty.
FeedFails(r) ==
  /\ Failing(r)
  /\ unheard' = unheard \cup {r.kind}
  /\ FeedContinues(r)
  /\ UNCHANGED <<members, auditEvents, totalUsers, prover>>

FeedSettles == \E r \in Feeds : FeedArrives(r) \/ FeedFails(r)

-----------------------------------------------------------------------------
\* testEndpoint; both buttons are disabled while a call is on its way.
ClickTest(endpoint) ==
  /\ ~isTesting
  /\ Ask("test", <<endpoint>>)
  /\ isTesting' = TRUE
  /\ testResult' = NoTest
  /\ clicked' = endpoint
  /\ UNCHANGED <<members, numbers, lost>>

TestAnswered(r) ==
  /\ Answered(r)
  /\ testResult' = [endpoint |-> r.arg[1], success |-> TRUE]
  /\ isTesting' = FALSE
  /\ Over(r)
  /\ UNCHANGED <<members, numbers, lost, clicked>>

\* Whatever went wrong is shown as "403 / 401".
TestFails(r) ==
  /\ Failing(r)
  /\ testResult' = [endpoint |-> r.arg[1], success |-> FALSE]
  /\ isTesting' = FALSE
  /\ lost' = ~(r.served /\ r.answer = 0)
  /\ Over(r)
  /\ UNCHANGED <<members, numbers, clicked>>

TestSettles == \E r \in Tests : TestAnswered(r) \/ TestFails(r)

DashboardStep == FeedSettles \/ TestSettles \/ \E e \in Endpoints : ClickTest(e)

-----------------------------------------------------------------------------
\* GET /audit, GET /admin-only and GET /user-or-admin; 0 is 403.  The trail is
\* MemoryLogger's and AuditQueries' matter; here it has any length.  It has none
\* when the process in memory has restarted, or when the INSERT of the user's own
\* login is pending or lost.  n + 1 is a page of n events.
ServeAudit(r) ==
  /\ r.kind = "listAuditLogs"
  /\ \E n \in 0 .. FeedSize : Handle(r, IF role \in Served("GET /audit") THEN n + 1 ELSE 0)

ServeTest(r) ==
  /\ r.kind = "test"
  /\ Handle(r, IF role \in Served(r.arg[1]) THEN 1 ELSE 0)

DashboardServerStep ==
  (\E r \in waiting : ServeAudit(r) \/ ServeTest(r)) /\ UNCHANGED <<members, dashVars>>

-----------------------------------------------------------------------------
DashboardTypeOK ==
  /\ auditEvents \in 0 .. FeedSize /\ totalUsers \in Nat
  /\ testResult \in TestResults /\ isTesting \in BOOLEAN
  /\ unheard \subseteq {"listAuditLogs", "listUsers"} /\ lost \in BOOLEAN
  /\ clicked \in Endpoints \cup {"none"}

\* DashboardPage.tsx:32-49: one refusal does not keep the page from the other
\* answer.  A role that a route refuses learns nothing by it: no events, and "4"
\* for the number of users, whatever that number is.  With nothing in flight, both
\* requests are over, one way or the other: what a role is refused has failed, and
\* unless the request for the users failed the number is that of a moment since
\* the start.  An empty table need not be a refusal, as DashboardPage.tsx:301 says.
DashboardTellsWhatItMay ==
  /\ auditEvents > 0 => role \in Served("GET /audit") /\ "listAuditLogs" \notin unheard
  /\ totalUsers # DefaultUsers => role \in Served("GET /users")
  /\ Feeds = {} =>
       /\ role \notin Served("GET /audit") => "listAuditLogs" \in unheard
       /\ role \notin Served("GET /users") => "listUsers" \in unheard
       /\ "listUsers" \notin unheard =>
            \E v \in 1 .. Len(members) : totalUsers = Shown(members[v])

\* DashboardPage.tsx:193, "Verify whether your token is accepted (200) or
\* rejected (403/401)".  The verdict shown is about the endpoint of the last
\* click; accepted means that the role is served there, rejected that it is not,
\* unless the connection failed, which the page does not tell apart.
ProverTellsTheTruth ==
  testResult # NoTest =>
    /\ testResult.endpoint = clicked
    /\ testResult.success => role \in Served(clicked)
    /\ ~testResult.success => lost \/ role \notin Served(clicked)
=============================================================================
