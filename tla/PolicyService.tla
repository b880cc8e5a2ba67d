---------------------------- MODULE PolicyService ----------------------------
(***************************************************************************)
(* What the policy endpoints promise to their callers: between its arrival *)
(* and its reply each call takes effect once, in a single step, on the     *)
(* store of that instant, and the reply is preceded by the audit events of *)
(* exactly that effect.  PolicyEngine implements this with a              *)
(* reader-writer lock and loops over the map.                              *)
(***************************************************************************)
EXTENDS PolicyRules

CONSTANTS Conns,   \* the connections, one request in flight on each
          Calls    \* the calls clients may make

VARIABLES policies,  \* Engine.policies: a function from ids to policies
          nextID,    \* the next UUID
          firstID,   \* the first UUID drawn by this boot
          stage,     \* of each connection: "idle", "called" or "done"
          op,        \* the call a connection carries
          answer,    \* the answer the engine gave it
          trail      \* the audit events of this boot, in logging order

vars == <<policies, nextID, firstID, stage, op, answer, trail>>

AnyCall == [kind |-> "list", caller |-> "viewer"]

Init ==
  /\ policies = SeedDefaults(1)
  /\ nextID = 1 + BuiltInCount
  /\ firstID = 1
  /\ stage = [c \in Conns |-> "idle"]
  /\ op = [c \in Conns |-> AnyCall]
  /\ answer = [c \in Conns |-> NoAnswer]
  /\ trail = << >>

Arrive(c) ==
  /\ stage[c] = "idle"
  /\ \E call \in Calls :
       /\ NamedId(call) < nextID
       /\ op' = [op EXCEPT ![c] = call]
  /\ stage' = [stage EXCEPT ![c] = "called"]
  /\ answer' = [answer EXCEPT ![c] = NoAnswer]
  /\ UNCHANGED <<policies, nextID, firstID, trail>>

Answered(c, ans) ==
  /\ stage' = [stage EXCEPT ![c] = "done"]
  /\ answer' = [answer EXCEPT ![c] = ans]
  /\ UNCHANGED <<op, trail, firstID>>

Refuse(c) ==
  /\ Refused(op[c])
  /\ Answered(c, Refusal(op[c]))
  /\ UNCHANGED <<policies, nextID>>

Decide(c) ==
  /\ op[c].kind = "access"
  /\ \E outcome \in Outcomes(policies, op[c].request) :
       Answered(c, Decided(outcome))
  /\ UNCHANGED <<policies, nextID>>

List(c) ==
  /\ op[c].kind = "list"
  /\ Answered(c, [Reply(200) EXCEPT !.listed = policies])
  /\ UNCHANGED <<policies, nextID>>

Get(c) ==
  /\ op[c].kind = "get"
  /\ Answered(c, IF op[c].id \in DOMAIN policies
                   THEN [Reply(200) EXCEPT !.listed =
                           [id \in {op[c].id} |-> policies[id]]]
                   ELSE Reply(404))
  /\ UNCHANGED <<policies, nextID>>

Create(c) ==
  /\ op[c].kind = "create"
  /\ policies' = Put(policies, nextID, op[c].policy)
  /\ nextID' = nextID + 1
  /\ Answered(c, [Reply(201) EXCEPT !.id = nextID])

Update(c) ==
  /\ op[c].kind = "update"
  /\ IF op[c].id \in DOMAIN policies
       THEN /\ policies' = Put(policies, op[c].id, op[c].policy)
            /\ Answered(c, Reply(200))
       ELSE /\ UNCHANGED policies
            /\ Answered(c, Reply(404))
  /\ UNCHANGED nextID

Delete(c) ==
  /\ op[c].kind = "delete"
  /\ IF op[c].id \in DOMAIN policies
       THEN /\ policies' = Drop(policies, op[c].id)
            /\ Answered(c, Reply(200))
       ELSE /\ UNCHANGED policies
            /\ Answered(c, Reply(404))
  /\ UNCHANGED nextID

Serve(c) ==
  /\ stage[c] = "called"
  /\ \/ Refuse(c)
     \/ /\ ~Refused(op[c])
        /\ \/ Decide(c) \/ List(c) \/ Get(c)
           \/ Create(c) \/ Update(c) \/ Delete(c)

Finish(c) ==
  /\ stage[c] = "done"
  /\ trail' = trail \o Events(op[c], answer[c])
  /\ stage' = [stage EXCEPT ![c] = "idle"]
  /\ UNCHANGED <<policies, nextID, firstID, op, answer>>

\* The process dies with everything it holds in memory and is started again.
Restart ==
  /\ policies' = SeedDefaults(nextID)
  /\ nextID' = nextID + BuiltInCount
  /\ firstID' = nextID
  /\ stage' = [c \in Conns |-> "idle"]
  /\ trail' = << >>
  /\ UNCHANGED <<op, answer>>

Next ==
  \/ \E c \in Conns : Arrive(c) \/ Serve(c) \/ Finish(c)
  \/ Restart

Spec == Init /\ [][Next]_vars
=============================================================================
