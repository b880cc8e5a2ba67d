--------------------------- MODULE MCPolicyEngine ---------------------------
(***************************************************************************)
(* Small instances of PolicyEngine.  The requests and the created policies *)
(* are chosen against the built-in ones: the developer's request passes    *)
(* them with MFA and is asked for it without, and the created policy       *)
(* denies that same request outright.                                      *)
(***************************************************************************)
EXTENDS PolicyEngine

AnyName == STRING

DevRequest(mfa) ==
  [role |-> "developer", application |-> "aws-console", device_trusted |-> TRUE,
   mfa_verified |-> mfa, risk_score |-> 10]

NobodysRequest ==
  [role |-> "analyst", application |-> "jira", device_trusted |-> TRUE,
   mfa_verified |-> TRUE, risk_score |-> 0]

Lockdown ==
  [role |-> "*", application |-> "aws-console", require_mfa |-> FALSE,
   require_trusted |-> FALSE, max_risk_score |-> 5, decision |-> Deny,
   enabled |-> TRUE]

Access(req)        == [kind |-> "access", caller |-> req.role, request |-> req]
ListAll            == [kind |-> "list", caller |-> "viewer"]
GetOf(id)          == [kind |-> "get", caller |-> "admin", id |-> id]
CreateBy(role, p)  == [kind |-> "create", caller |-> role, policy |-> p]
UpdateTo(id, p)    == [kind |-> "update", caller |-> "admin", id |-> id, policy |-> p]
DeleteOf(id)       == [kind |-> "delete", caller |-> "security_manager", id |-> id]

\* The routes of main.go, with a denied caller, a caller without the role and
\* a malformed body; the engine's two operations that have no route; and the
\* policies these requests meet: a built-in one and the one they create.
EngineCalls ==
  {Access(DevRequest(TRUE)), ListAll, GetOf(4),
   Access([NobodysRequest EXCEPT !.application = ""]),
   CreateBy("admin", Lockdown), CreateBy("developer", Lockdown),
   UpdateTo(1, Lockdown), DeleteOf(1), DeleteOf(4)}

\* One user is asked for MFA while a lockdown is in force.
LockdownCalls == {CreateBy("admin", Lockdown), Access(DevRequest(FALSE))}
=============================================================================
