----------------------------- MODULE AccessChecks -----------------------------
(***************************************************************************)
(* The two places where an access decision is asked for and shown: the     *)
(* catalog of ApplicationsPage.tsx, whose buttons stay enabled while a     *)
(* decision is on its way, and the sandbox of PoliciesPage.tsx, whose      *)
(* button does not but whose inputs do.  Which decision the engine takes   *)
(* is PolicyEngine's matter; here it is ALLOW or not.                      *)
(***************************************************************************)
EXTENDS Requests

apps == {"aws-console", "prod-db", "reporting-dashboard", "secrets-vault"}

CONSTANTS Apps,       \* the four of the catalog, or some of them
          Postures    \* device, MFA and risk; 1 is what the catalog sends

ASSUME ChecksAssumption ==
  /\ "aws-console" \in Apps /\ Apps \subseteq apps
  /\ Postures \subseteq Nat /\ 1 \in Postures

VARIABLES granted,      \* history: the questions the engine has answered ALLOW
          selectedApp, checkResult, isChecking,        \* ApplicationsPage's useState
          crossed,      \* history: the decision there is not that of the last launch
          sandboxInput, sandboxResult, isEvaluating,   \* PoliciesPage's useState
          edited        \* history: an input was moved after the click

catalog == <<selectedApp, checkResult, isChecking, crossed>>
sandbox == <<sandboxInput, sandboxResult, isEvaluating, edited>>
checkVars == <<granted, catalog, sandbox>>

Questions == Apps \X Postures

\* A decision on the screen, and the question it answers; none is what a 200 that
\* cannot be read comes to, which api.ts:53-58 returns as null.
Decision(r, allow) == [of |-> r.arg, allow |-> allow]
NoDecision == [of |-> << >>, allow |-> FALSE]
Decisions  == [of : Questions, allow : BOOLEAN] \cup {NoDecision}

NoApp == "none"

\* The pages as they are mounted.
CatalogMount(app, result, checking, cross) ==
  app = NoApp /\ result = NoDecision /\ checking = FALSE /\ cross = FALSE

SandboxMount(input, result, evaluating, moved) ==
  /\ input = <<"aws-console", 1>> /\ result = NoDecision
  /\ evaluating = FALSE /\ moved = FALSE

Launches    == InFlight({"launch"})
Evaluations == InFlight({"evaluate"})

-----------------------------------------------------------------------------
\* Fault: a new question leaves the old decision on the screen.
LaunchAppOverOldResult(app) ==
  /\ Ask("launch", <<app, 1>>)
  /\ selectedApp' = app
  /\ crossed' = FALSE
  /\ UNCHANGED <<granted, checkResult, isChecking, sandbox>>

\* handleLaunchApp.
LaunchApp(app) ==
  /\ Ask("launch", <<app, 1>>)
  /\ selectedApp' = app
  /\ isChecking' = TRUE
  /\ checkResult' = NoDecision
  /\ crossed' = FALSE
  /\ UNCHANGED <<granted, sandbox>>

\* What the page keeps of an answer.
Read(r) == {Decision(r, r.answer = 1), NoDecision}

IsNewest(r) == \A q \in Launches : q.n <= r.n

LaunchAnswered(r) ==
  /\ Answered(r)
  /\ checkResult' \in Read(r)
  /\ isChecking' = FALSE
  /\ crossed' = (r.late \/ ~IsNewest(r))
  /\ Over(r)
  /\ UNCHANGED <<granted, selectedApp, sandbox>>

\* Fault: no answer is an ALLOW.
LaunchFailsOpen(r) ==
  /\ Failing(r)
  /\ checkResult' = Decision(r, TRUE)
  /\ isChecking' = FALSE
  /\ crossed' = (r.late \/ ~IsNewest(r))
  /\ Over(r)
  /\ UNCHANGED <<granted, selectedApp, sandbox>>

\* The catch block: no answer is a DENY.
LaunchFails(r) ==
  /\ Failing(r)
  /\ checkResult' = Decision(r, FALSE)
  /\ isChecking' = FALSE
  /\ crossed' = (r.late \/ ~IsNewest(r))
  /\ Over(r)
  /\ UNCHANGED <<granted, selectedApp, sandbox>>

\* The panel under the cards.
PanelTitle   == selectedApp
PanelVerdict == IF selectedApp = NoApp \/ isChecking THEN NoDecision ELSE checkResult

LaunchSettles == \E r \in Launches : LaunchAnswered(r) \/ LaunchFails(r)

CatalogStep == (\E app \in Apps : LaunchApp(app)) \/ LaunchSettles

-----------------------------------------------------------------------------
MoveInput ==
  /\ sandboxInput' \in Questions \ {sandboxInput}
  /\ edited' = TRUE
  /\ UNCHANGED <<role, waiting, sent, granted, catalog, sandboxResult, isEvaluating>>

\* handleRunEvaluation; the button is disabled while one is on its way.
RunEvaluation ==
  /\ ~isEvaluating
  /\ Ask("evaluate", sandboxInput)
  /\ isEvaluating' = TRUE
  /\ edited' = FALSE
  /\ UNCHANGED <<granted, catalog, sandboxInput, sandboxResult>>

EvaluationAnswered(r) ==
  /\ Answered(r)
  /\ sandboxResult' \in Read(r)
  /\ isEvaluating' = FALSE
  /\ Over(r)
  /\ UNCHANGED <<granted, catalog, sandboxInput, edited>>

EvaluationFails(r) ==
  /\ Failing(r)
  /\ sandboxResult' = Decision(r, FALSE)
  /\ isEvaluating' = FALSE
  /\ Over(r)
  /\ UNCHANGED <<granted, catalog, sandboxInput, edited>>

EvaluationSettles == \E r \in Evaluations : EvaluationAnswered(r) \/ EvaluationFails(r)

SandboxStep == MoveInput \/ RunEvaluation \/ EvaluationSettles

-----------------------------------------------------------------------------
\* POST /access/check, open to every role: 1 is ALLOW, 2 any other decision.
CheckAccess(r) ==
  /\ r.kind \in {"launch", "evaluate"}
  /\ \E answer \in {1, 2} :
       /\ Handle(r, answer)
       /\ granted' = IF answer = 1 THEN granted \cup {r.arg} ELSE granted
  /\ UNCHANGED <<catalog, sandbox>>

ChecksServerStep == \E r \in waiting : CheckAccess(r)

-----------------------------------------------------------------------------
ChecksTypeOK ==
  /\ granted \in SUBSET Questions
  /\ selectedApp \in Apps \cup {NoApp} /\ checkResult \in Decisions
  /\ isChecking \in BOOLEAN /\ crossed \in BOOLEAN
  /\ sandboxInput \in Questions /\ sandboxResult \in Decisions
  /\ isEvaluating \in BOOLEAN /\ edited \in BOOLEAN

\* ApplicationsPage.tsx:165, "Policy Engine Access Decision: {selectedApp.name}".
\* Several launches may be in flight, and their answers come in any order.
\* Unless the last answer to come was that of an earlier launch, the decision
\* under the name is the decision about that application, or none is shown.
PanelTellsOfItsApp ==
  PanelVerdict # NoDecision /\ ~crossed => PanelVerdict.of = <<PanelTitle, 1>>

\* The sandbox keeps its old decision while it asks for another and while its
\* inputs are moved.  At rest, with the inputs as they were at the click, it
\* shows the decision about these inputs, and the button is enabled again.
SandboxTellsOfItsInputs ==
  ~isEvaluating /\ ~edited /\ sandboxResult # NoDecision =>
    sandboxResult.of = sandboxInput

\* ApplicationsPage.tsx:71 and PoliciesPage.tsx:101: lost requests, errors and
\* answers out of order show many things, but never an ALLOW for a question
\* that the engine has not answered so.
AllowIsTheEngines ==
  \A shown \in {PanelVerdict, sandboxResult} : shown.allow => shown.of \in granted
=============================================================================
