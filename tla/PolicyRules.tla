----------------------------- MODULE PolicyRules -----------------------------
(***************************************************************************)
(* The pure part of backend/internal/policy: what one policy says of one   *)
(* request, what Engine.Evaluate may answer for a set of policies, and     *)
(* which calls the HTTP layer turns away before the engine is reached.     *)
(*                                                                         *)
(* A policy keeps the fields Evaluate reads; its name and its reason texts *)
(* are left out.  An id stands for a UUID: ids are natural numbers, handed *)
(* out in increasing order and never reused; 0 is "no policy".             *)
(***************************************************************************)
EXTENDS Integers, Sequences

Allow      == "ALLOW"
Deny       == "DENY"
RequireMFA == "REQUIRE_MFA"

NoId == 0

(***************************************************************************)
(* The strings the program may meet as roles, applications and decisions.  *)
(***************************************************************************)
CONSTANT Names

ASSUME NamesAssumption ==
  {"developer", "admin", "viewer", "aws-console", "*", Allow} \subseteq Names

(* Nobody checks the fields: handler.CreatePolicy copies the decoded JSON,  *)
(* so role, application and decision are arbitrary strings.                *)
Policy == [ role             : Names,
            application      : Names,
            require_mfa      : BOOLEAN,
            require_trusted  : BOOLEAN,
            max_risk_score   : Int,
            decision         : Names,
            enabled          : BOOLEAN ]

Request == [ role           : Names,
             application    : Names,
             device_trusted : BOOLEAN,
             mfa_verified   : BOOLEAN,
             risk_score     : Int ]

(***************************************************************************)
(* Engine.seedDefaults: the three policies every boot starts from, under   *)
(* ids drawn afresh.                                                       *)
(***************************************************************************)
DeveloperConsole ==
  [role |-> "developer", application |-> "aws-console", require_mfa |-> TRUE,
   require_trusted |-> TRUE, max_risk_score |-> 70, decision |-> Allow,
   enabled |-> TRUE]

AdminFull ==
  [role |-> "admin", application |-> "*", require_mfa |-> TRUE,
   require_trusted |-> FALSE, max_risk_score |-> 50, decision |-> Allow,
   enabled |-> TRUE]

ViewerReadOnly ==
  [role |-> "viewer", application |-> "*", require_mfa |-> FALSE,
   require_trusted |-> FALSE, max_risk_score |-> 0, decision |-> Allow,
   enabled |-> TRUE]

BuiltIn == << DeveloperConsole, AdminFull, ViewerReadOnly >>

BuiltInCount == 3

\* Fault: the built-in policies keep the ids of the first boot.
SeedDefaultsFixedIds(first) == [id \in 1 .. BuiltInCount |-> BuiltIn[id]]

SeedDefaults(first) ==
  [id \in first .. first + BuiltInCount - 1 |-> BuiltIn[id - first + 1]]

(***************************************************************************)
(* Engine.Evaluate, one policy at a time.                                  *)
(***************************************************************************)
Matches(p, req) ==
  /\ p.enabled
  /\ p.role \in {req.role, "*"}
  /\ p.application \in {req.application, "*"}

\* A maximum of zero, or a negative one, is not enforced.
RiskExceeded(p, req) ==
  p.max_risk_score > 0 /\ req.risk_score > p.max_risk_score

DeviceRefused(p, req) == p.require_trusted /\ ~req.device_trusted

MFAMissing(p, req) == p.require_mfa /\ ~req.mfa_verified

\* The checks in the order of the loop body; Allow means "go on to the next
\* policy".  Any decision other than DENY counts as a grant.
Verdict(p, req) ==
  IF RiskExceeded(p, req) \/ DeviceRefused(p, req) THEN Deny
  ELSE IF MFAMissing(p, req) THEN RequireMFA
  ELSE IF p.decision = Deny THEN Deny
  ELSE Allow

(***************************************************************************)
(* Engine.Evaluate as a whole.  store is the map from ids to policies.  Go *)
(* iterates over it in an unspecified order and the loop returns at the    *)
(* first policy that does not pass, so each stopping policy is a possible  *)
(* outcome.                                                                *)
(***************************************************************************)
Matching(store, req) == {id \in DOMAIN store : Matches(store[id], req)}

Stopping(store, req) ==
  {id \in Matching(store, req) : Verdict(store[id], req) # Allow}

Outcomes(store, req) ==
  IF Matching(store, req) = {} THEN {[decision |-> Deny, id |-> NoId]}
  ELSE IF Stopping(store, req) = {} THEN {[decision |-> Allow, id |-> NoId]}
  ELSE {[decision |-> Verdict(store[id], req), id |-> id] :
          id \in Stopping(store, req)}

\* The engine's map with one entry written, and with one removed.
Put(store, id, p) ==
  [i \in DOMAIN store \cup {id} |-> IF i = id THEN p ELSE store[i]]

Drop(store, id) == [i \in DOMAIN store \ {id} |-> store[i]]

(***************************************************************************)
(* Calls.  "access", "list", "create" and "delete" are the routes of       *)
(* main.go; "get" and "update" are the engine's other two operations,      *)
(* which no route reaches.                                                 *)
(***************************************************************************)
Id == Nat

Call == [kind : {"access"}, caller : Names, request : Request]
          \cup [kind : {"list"},   caller : Names]
          \cup [kind : {"get"},    caller : Names, id : Id]
          \cup [kind : {"create"}, caller : Names, policy : Policy]
          \cup [kind : {"update"}, caller : Names, id : Id, policy : Policy]
          \cup [kind : {"delete"}, caller : Names, id : Id]

ReadKinds  == {"access", "list", "get"}
WriteKinds == {"create", "update", "delete"}

\* The id a call was given in its path, if it has one.
NamedId(call) ==
  IF call.kind \in {"get", "update", "delete"} THEN call.id ELSE NoId

\* RequireAnyRole(admin, security_manager) on POST and DELETE; super_admin
\* always passes.
PolicyWriters == {"admin", "security_manager", "super_admin"}

Forbidden(call) ==
  call.kind \in {"create", "delete"} /\ call.caller \notin PolicyWriters

Malformed(call) ==
  \/ call.kind = "access" /\ call.request.application = ""
  \/ call.kind = "create" /\ call.policy.application = ""

Refused(call) == Forbidden(call) \/ Malformed(call)

(***************************************************************************)
(* Answers.  One shape for all handlers: a status, the decision of an      *)
(* access check, the id of the deciding or created policy, and the         *)
(* policies a list or a get returned.                                      *)
(***************************************************************************)
NoPolicies == [id \in {} |-> ViewerReadOnly]

NoAnswer == [status |-> 0, decision |-> "", id |-> NoId, listed |-> NoPolicies]

Reply(status) == [NoAnswer EXCEPT !.status = status]

Refusal(call) == Reply(IF Forbidden(call) THEN 403 ELSE 400)

Decided(outcome) ==
  [NoAnswer EXCEPT !.status = 200, !.decision = outcome.decision, !.id = outcome.id]

(***************************************************************************)
(* What the handler hands to auditLogger.Log after the engine returned.    *)
(***************************************************************************)
Event == [action : {"ACCESS_GRANTED", "ACCESS_DENIED",
                    "POLICY_CREATED", "POLICY_DELETED"},
          id : Id]

\* Fault: a deletion is logged although the engine answered "not found".
EventsOfAnyDelete(call, answer) ==
  IF call.kind = "access" /\ answer.status = 200
    THEN << [action |-> IF answer.decision = Allow THEN "ACCESS_GRANTED"
                                                   ELSE "ACCESS_DENIED",
             id |-> NoId] >>
  ELSE IF call.kind = "create" /\ answer.status = 201
    THEN << [action |-> "POLICY_CREATED", id |-> answer.id] >>
  ELSE IF call.kind = "delete"
    THEN << [action |-> "POLICY_DELETED", id |-> call.id] >>
  ELSE << >>

Events(call, answer) ==
  IF call.kind = "access" /\ answer.status = 200
    THEN << [action |-> IF answer.decision = Allow THEN "ACCESS_GRANTED"
                                                   ELSE "ACCESS_DENIED",
             id |-> NoId] >>
  ELSE IF call.kind = "create" /\ answer.status = 201
    THEN << [action |-> "POLICY_CREATED", id |-> answer.id] >>
  ELSE IF call.kind = "delete" /\ answer.status = 200
    THEN << [action |-> "POLICY_DELETED", id |-> call.id] >>
  ELSE << >>
=============================================================================
