----------------------------- MODULE PoliciesPage -----------------------------
(***************************************************************************)
(* frontend/src/pages/PoliciesPage.tsx, its table and its form, over the   *)
(* policy routes.  The backend keeps the promise of PolicyService: a call  *)
(* takes effect in one step between its request and its answer.  The page  *)
(* reads the list again after every write of its own; what others write it *)
(* does not hear of.                                                       *)
(***************************************************************************)
EXTENDS Requests

CONSTANTS PolicyIds,    \* ids the backend gives to policies
          BuiltInIds,   \* those of the built-in policies at the first start
          MaxVersions   \* bound: changes of the policies

ASSUME PoliciesAssumption == BuiltInIds \subseteq PolicyIds /\ MaxVersions \in Nat \ {0}

VARIABLES past,              \* the policies of the backend, the current ones last
          policies, policiesLoading, showCreateForm, policyName,  \* useState
          acked,    \* history: the version the latest acknowledged write made
          lapsed    \* history: the latest list to settle failed, or came late

policyServer == past
policyView   == <<policies, policiesLoading, showCreateForm, policyName>>
policyPage   == <<policyView, lapsed>>
policyVars   == <<policyServer, policyPage, acked>>

PolicyWrites == {"createPolicy", "deletePolicy"}
PolicyLists  == InFlight({"listPolicies"})

Now  == past[Len(past)]
Used == UNION {past[v] : v \in DOMAIN past}

PolicyServerInit == past = <<BuiltInIds>> /\ acked = 1

\* The page as it is mounted, with its first list on the way.
PoliciesMount(table, loading, form, name, lapse) ==
  table = {} /\ loading = TRUE /\ form = FALSE /\ name = FALSE /\ lapse = FALSE

-----------------------------------------------------------------------------
\* The buttons.  The name is typed or empty; the other fields of the form have
\* values from the start.  Nothing keeps the submit button from a second click
\* while the first is on its way.
ToggleForm ==
  /\ canManagePolicies(role)
  /\ showCreateForm' = ~showCreateForm
  /\ UNCHANGED <<role, waiting, sent, policyServer, policies, policiesLoading, policyName, lapsed, acked>>

TypeName ==
  /\ showCreateForm
  /\ policyName' \in BOOLEAN
  /\ UNCHANGED <<role, waiting, sent, policyServer, policies, policiesLoading, showCreateForm, lapsed, acked>>

FormAccepts == showCreateForm /\ policyName

SubmitCreate ==
  /\ FormAccepts
  /\ Ask("createPolicy", << >>)
  /\ UNCHANGED policyVars

RowsShown == IF policiesLoading THEN {} ELSE policies

ClickDelete(p) ==
  /\ canManagePolicies(role)
  /\ p \in RowsShown
  /\ Ask("deletePolicy", <<p>>)
  /\ UNCHANGED policyVars

-----------------------------------------------------------------------------
\* Fault: no finally block.
ListFailsSpinning(r) ==
  /\ Failing(r)
  /\ lapsed' = TRUE
  /\ Over(r)
  /\ UNCHANGED <<policyServer, policyView, acked>>

\* fetchPolicies, after its await.  A list that fails is not mentioned: the
\* catch block is empty.
ListArrives(r) ==
  /\ Answered(r)
  /\ policies' = past[r.answer]
  /\ policiesLoading' = FALSE
  /\ lapsed' = r.late
  /\ Over(r)
  /\ UNCHANGED <<policyServer, showCreateForm, policyName, acked>>

ListFails(r) ==
  /\ Failing(r)
  /\ policiesLoading' = FALSE
  /\ lapsed' = TRUE
  /\ Over(r)
  /\ UNCHANGED <<policyServer, policies, showCreateForm, policyName, acked>>

\* Fault: the table is left as it is after a write.
WriteDoneUnread(r) ==
  /\ Answered(r)
  /\ acked' = IF r.answer > acked THEN r.answer ELSE acked
  /\ IF r.kind = "createPolicy"
       THEN showCreateForm' = FALSE /\ policyName' = FALSE
       ELSE UNCHANGED <<showCreateForm, policyName>>
  /\ Over(r)
  /\ UNCHANGED <<policyServer, policies, policiesLoading, lapsed>>

\* handleCreatePolicy and handleDeletePolicy, after their await: fetchPolicies
\* starts another list, whatever lists are still on their way.
WriteDone(r) ==
  /\ Answered(r)
  /\ acked' = IF r.answer > acked THEN r.answer ELSE acked
  /\ IF r.kind = "createPolicy"
       THEN showCreateForm' = FALSE /\ policyName' = FALSE
       ELSE UNCHANGED <<showCreateForm, policyName>>
  /\ policiesLoading' = TRUE
  /\ sent < MaxRequests
  /\ sent' = sent + 1
  /\ waiting' = Without(r) \cup {Asked("listPolicies", << >>)}
  /\ UNCHANGED <<role, policyServer, policies, lapsed>>

\* alert(err.message), and the page stays as it is, the table included.
WriteFails(r) ==
  /\ Failing(r)
  /\ Over(r)
  /\ UNCHANGED policyVars

ListSettles == \E r \in PolicyLists : ListArrives(r) \/ ListFails(r)

PoliciesPageStep ==
  \/ ToggleForm \/ TypeName \/ SubmitCreate
  \/ \E p \in PolicyIds : ClickDelete(p)
  \/ ListSettles
  \/ \E r \in InFlight(PolicyWrites) : WriteDone(r) \/ WriteFails(r)

-----------------------------------------------------------------------------
\* The backend.  PolicyPut is every change of the policies: the ids of new
\* ones are fresh.
PolicyPut(set) ==
  /\ Len(past) < MaxVersions
  /\ set \subseteq PolicyIds /\ (set \ Now) \cap Used = {}
  /\ past' = Append(past, set)

ServeList(r) ==
  /\ r.kind = "listPolicies"
  /\ Handle(r, Len(past))
  /\ UNCHANGED policyVars

ServeCreate(r) ==
  /\ r.kind = "createPolicy" /\ role \in Served("POST /policies")
  /\ \E id \in PolicyIds \ Used : PolicyPut(Now \cup {id})
  /\ Handle(r, Len(past'))
  /\ UNCHANGED <<policyPage, acked>>

\* DELETE /policies/{id}; 404 when it is gone.
ServeDelete(r) ==
  /\ r.kind = "deletePolicy" /\ role \in Served("DELETE /policies")
  /\ IF r.arg[1] \in Now
       THEN PolicyPut(Now \ {r.arg[1]}) /\ Handle(r, Len(past'))
       ELSE Handle(r, 0) /\ UNCHANGED past
  /\ UNCHANGED <<policyPage, acked>>

\* Other administrators, and a restart of the backend.
Elsewhere ==
  /\ \E set \in SUBSET PolicyIds : set # Now /\ PolicyPut(set)
  /\ UNCHANGED <<role, waiting, sent, policyPage, acked>>

PolicyRequestServed == \E r \in waiting : ServeList(r) \/ ServeCreate(r) \/ ServeDelete(r)

-----------------------------------------------------------------------------
PoliciesTypeOK ==
  /\ past \in Seq(SUBSET PolicyIds) /\ past # << >>
  /\ policies \in SUBSET PolicyIds
  /\ policiesLoading \in BOOLEAN /\ showCreateForm \in BOOLEAN
  /\ policyName \in BOOLEAN /\ lapsed \in BOOLEAN
  /\ acked \in 1 .. Len(past)

\* The policies shown are those of a moment not before the latest of the
\* administrator's own writes was acknowledged.
Fresh == \E v \in acked .. Len(past) : policies = past[v]

\* PoliciesPage.tsx:71 and 82, fetchPolicies after each write.  Several lists
\* may be on their way at once, some asked for before the write and some after.
\* Once none is, and unless the last one to settle failed or was overtaken, the
\* administrator sees every one of his acknowledged writes.
PoliciesReadYourWrites == ~lapsed /\ PolicyLists = {} => Fresh

\* A list that will show the latest acknowledged write whenever it comes, and so
\* will any asked for later.
Owed(r) ==
  /\ r \in PolicyLists /\ ~r.late
  /\ \A q \in PolicyLists : q.n >= r.n => ~q.served \/ q.answer = 0 \/ q.answer >= acked

\* Why it is so: as long as a timely list is in flight, one is owed.
TimelyListIsOwed ==
  /\ lapsed \/ Fresh \/ \E r \in PolicyLists : Owed(r)
  /\ (\E r \in PolicyLists : ~r.late) => \E r \in PolicyLists : Owed(r)
=============================================================================
