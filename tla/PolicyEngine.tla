---------------------------- MODULE PolicyEngine ----------------------------
(***************************************************************************)
(* backend/internal/policy as it runs: one goroutine per connection,       *)
(* Engine.policies behind a sync.RWMutex, the loops of Evaluate and        *)
(* ListPolicies one map entry at a time, and the audit event logged after  *)
(* the engine's lock has been given back.                                  *)
(*                                                                         *)
(* Where a goroutine stands, pc[c]:                                        *)
(*   "idle"   no request on this connection                                *)
(*   "enter"  the request was routed, the engine is about to be called     *)
(*   "visit"  read lock held, ranging over the map                         *)
(*   "check"  read lock held, Evaluate's second loop                       *)
(*   "wait"   write lock announced: new readers queue, old ones drain      *)
(*   "lookup" write lock held, "does the id exist"                         *)
(*   "apply"  write lock held, writing the map                             *)
(*   "audit"  lock released, event and response still to be written        *)
(***************************************************************************)
EXTENDS PolicyRules, FiniteSets

CONSTANTS Conns,        \* the connections
          Calls,        \* the calls clients may make
          MaxCalls,     \* bound: calls received in a behaviour
          MaxRestarts   \* bound: restarts of the process in a behaviour

ASSUME CallsAssumption == Calls \subseteq Call
ASSUME BoundsAssumption == MaxCalls \in Nat /\ MaxRestarts \in Nat

VARIABLES policies,  \* Engine.policies
          nextID,    \* the next UUID
          firstID,   \* the first UUID drawn by this boot
          holder,    \* RWMutex: the set of the goroutine that announced or holds the write lock
          readers,   \* RWMutex: the goroutines holding the read lock
          pc,
          op,        \* the call of each connection
          todo,      \* ids its loop has yet to look at
          seen,      \* policies its first loop collected
          answer,    \* what the engine returned
          trail,     \* audit events of this boot, in logging order
          calls,     \* calls received so far, for MaxCalls
          boots      \* restarts so far, for MaxRestarts

store == <<policies, nextID, firstID>>
lock  == <<holder, readers>>
loop  == <<todo, seen>>
bound == <<calls, boots>>
vars  == <<store, lock, pc, op, loop, answer, trail, bound>>

PC == {"idle", "enter", "visit", "check", "wait", "lookup", "apply", "audit"}

AnyCall == [kind |-> "list", caller |-> "viewer"]

Init ==
  /\ policies = SeedDefaults(1)
  /\ nextID = 1 + BuiltInCount
  /\ firstID = 1
  /\ holder = {}
  /\ readers = {}
  /\ pc = [c \in Conns |-> "idle"]
  /\ op = [c \in Conns |-> AnyCall]
  /\ todo = [c \in Conns |-> {}]
  /\ seen = [c \in Conns |-> NoPolicies]
  /\ answer = [c \in Conns |-> NoAnswer]
  /\ trail = << >>
  /\ calls = 0
  /\ boots = 0

Goto(c, label) == pc' = [pc EXCEPT ![c] = label]

\* The engine returns: the answer is fixed and the handler goes on to log it.
Return(c, ans) == /\ answer' = [answer EXCEPT ![c] = ans]
                  /\ Goto(c, "audit")

-----------------------------------------------------------------------------
(* The router and the handlers, up to the call of the engine.              *)

\* A request arrives.  It can only name a UUID that has been handed out.
Receive(c) ==
  /\ pc[c] = "idle"
  /\ calls < MaxCalls
  /\ calls' = calls + 1
  /\ \E call \in Calls : /\ NamedId(call) < nextID
                         /\ op' = [op EXCEPT ![c] = call]
  /\ Goto(c, "enter")
  /\ answer' = [answer EXCEPT ![c] = NoAnswer]
  /\ UNCHANGED <<store, lock, loop, trail, boots>>

\* 403 from the middleware or 400 from the handler: the engine is not called.
Refuse(c) ==
  /\ pc[c] = "enter"
  /\ Refused(op[c])
  /\ Return(c, Refusal(op[c]))
  /\ UNCHANGED <<store, lock, op, loop, trail, bound>>

-----------------------------------------------------------------------------
(* Readers: Evaluate, ListPolicies, GetPolicy.                             *)

\* mu.RLock: blocked as soon as a writer has announced itself.
RLock(c) ==
  /\ pc[c] = "enter"
  /\ ~Refused(op[c])
  /\ op[c].kind \in ReadKinds
  /\ holder = {}
  /\ readers' = readers \cup {c}
  /\ todo' = [todo EXCEPT ![c] = DOMAIN policies]
  /\ seen' = [seen EXCEPT ![c] = NoPolicies]
  /\ Goto(c, "visit")
  /\ UNCHANGED <<store, holder, op, answer, trail, bound>>

RUnlock(c) == readers' = readers \ {c}

\* What the first loop keeps: Evaluate the matching policies, the others all.
Wanted(call, p) == call.kind = "access" => Matches(p, call.request)

\* One turn of "for _, p := range e.policies", in whatever order Go chooses.
Visit(c) ==
  /\ pc[c] = "visit"
  /\ op[c].kind \in {"access", "list"}
  /\ \E id \in todo[c] :
       /\ todo' = [todo EXCEPT ![c] = @ \ {id}]
       /\ seen' = IF id \in DOMAIN policies /\ Wanted(op[c], policies[id])
                    THEN [seen EXCEPT ![c] = Put(@, id, policies[id])]
                    ELSE seen
  /\ UNCHANGED <<store, lock, pc, op, answer, trail, bound>>

\* Fault: the early return for no match keeps the read lock.
NothingMatchesLocked(c) ==
  /\ pc[c] = "visit"
  /\ op[c].kind = "access"
  /\ todo[c] = {}
  /\ DOMAIN seen[c] = {}
  /\ Return(c, Decided([decision |-> Deny, id |-> NoId]))
  /\ UNCHANGED <<store, lock, op, loop, trail, bound>>

\* The first loop is over.
NothingMatches(c) ==
  /\ pc[c] = "visit"
  /\ op[c].kind = "access"
  /\ todo[c] = {}
  /\ DOMAIN seen[c] = {}
  /\ RUnlock(c)
  /\ Return(c, Decided([decision |-> Deny, id |-> NoId]))
  /\ UNCHANGED <<store, holder, op, loop, trail, bound>>

\* Fault: the read lock is given back between the two loops.
BeginChecksUnlocked(c) ==
  /\ pc[c] = "visit"
  /\ op[c].kind = "access"
  /\ todo[c] = {}
  /\ DOMAIN seen[c] # {}
  /\ RUnlock(c)
  /\ todo' = [todo EXCEPT ![c] = DOMAIN seen[c]]
  /\ Goto(c, "check")
  /\ UNCHANGED <<store, holder, op, seen, answer, trail, bound>>

BeginChecks(c) ==
  /\ pc[c] = "visit"
  /\ op[c].kind = "access"
  /\ todo[c] = {}
  /\ DOMAIN seen[c] # {}
  /\ todo' = [todo EXCEPT ![c] = DOMAIN seen[c]]
  /\ Goto(c, "check")
  /\ UNCHANGED <<store, lock, op, seen, answer, trail, bound>>

ReturnList(c) ==
  /\ pc[c] = "visit"
  /\ op[c].kind = "list"
  /\ todo[c] = {}
  /\ RUnlock(c)
  /\ Return(c, [Reply(200) EXCEPT !.listed = seen[c]])
  /\ UNCHANGED <<store, holder, op, loop, trail, bound>>

\* Fault: a policy that passes is looked at again.
CheckOneAgain(c) ==
  /\ pc[c] = "check"
  /\ \E id \in todo[c] :
       LET verdict == Verdict(seen[c][id], op[c].request)
       IN  \/ /\ verdict = Allow
              /\ UNCHANGED <<readers, pc, answer, todo>>
           \/ /\ verdict # Allow
              /\ RUnlock(c)
              /\ Return(c, Decided([decision |-> verdict, id |-> id]))
              /\ UNCHANGED todo
  /\ UNCHANGED <<store, holder, op, seen, trail, bound>>

\* One turn of the second loop; any verdict but Allow returns at once.
CheckOne(c) ==
  /\ pc[c] = "check"
  /\ \E id \in todo[c] :
       LET verdict == Verdict(seen[c][id], op[c].request)
       IN  \/ /\ verdict = Allow
              /\ todo' = [todo EXCEPT ![c] = @ \ {id}]
              /\ UNCHANGED <<readers, pc, answer>>
           \/ /\ verdict # Allow
              /\ RUnlock(c)
              /\ Return(c, Decided([decision |-> verdict, id |-> id]))
              /\ UNCHANGED todo
  /\ UNCHANGED <<store, holder, op, seen, trail, bound>>

AllPassed(c) ==
  /\ pc[c] = "check"
  /\ todo[c] = {}
  /\ RUnlock(c)
  /\ Return(c, Decided([decision |-> Allow, id |-> NoId]))
  /\ UNCHANGED <<store, holder, op, loop, trail, bound>>

ReturnOne(c) ==
  /\ pc[c] = "visit"
  /\ op[c].kind = "get"
  /\ RUnlock(c)
  /\ Return(c, IF op[c].id \in DOMAIN policies
                 THEN [Reply(200) EXCEPT !.listed =
                         [id \in {op[c].id} |-> policies[id]]]
                 ELSE Reply(404))
  /\ UNCHANGED <<store, holder, op, loop, trail, bound>>

-----------------------------------------------------------------------------
(* Writers: CreatePolicy, UpdatePolicy, DeletePolicy.                      *)

\* mu.Lock, first half: one writer at a time announces itself.
AnnounceLock(c) ==
  /\ pc[c] = "enter"
  /\ ~Refused(op[c])
  /\ op[c].kind \in WriteKinds
  /\ holder = {}
  /\ holder' = {c}
  /\ Goto(c, "wait")
  /\ UNCHANGED <<store, readers, op, loop, answer, trail, bound>>

\* Fault: the writer does not wait for the readers that are inside.
AcquireLockBesideReaders(c) ==
  /\ pc[c] = "wait"
  /\ Goto(c, IF op[c].kind = "create" THEN "apply" ELSE "lookup")
  /\ UNCHANGED <<store, lock, op, loop, answer, trail, bound>>

\* mu.Lock, second half: the readers that were inside have left.
AcquireLock(c) ==
  /\ pc[c] = "wait"
  /\ readers = {}
  /\ Goto(c, IF op[c].kind = "create" THEN "apply" ELSE "lookup")
  /\ UNCHANGED <<store, lock, op, loop, answer, trail, bound>>

Unlock(c) == holder' = holder \ {c}

\* Fault: the existence check releases the lock before the map is written.
LookupThenUnlock(c) ==
  /\ pc[c] = "lookup"
  /\ Unlock(c)
  /\ \/ /\ op[c].id \in DOMAIN policies
        /\ Goto(c, "apply")
        /\ UNCHANGED answer
     \/ /\ op[c].id \notin DOMAIN policies
        /\ Return(c, Reply(404))
  /\ UNCHANGED <<store, readers, op, loop, trail, bound>>

\* Fault: the early return for an unknown id keeps the lock.
LookupKeepsLock(c) ==
  /\ pc[c] = "lookup"
  /\ \/ /\ op[c].id \in DOMAIN policies
        /\ Goto(c, "apply")
        /\ UNCHANGED answer
     \/ /\ op[c].id \notin DOMAIN policies
        /\ Return(c, Reply(404))
  /\ UNCHANGED <<store, lock, op, loop, trail, bound>>

Lookup(c) ==
  /\ pc[c] = "lookup"
  /\ \/ /\ op[c].id \in DOMAIN policies
        /\ Goto(c, "apply")
        /\ UNCHANGED <<holder, answer>>
     \/ /\ op[c].id \notin DOMAIN policies
        /\ Unlock(c)
        /\ Return(c, Reply(404))
  /\ UNCHANGED <<store, readers, op, loop, trail, bound>>

\* Fault: the policy is stored under the id the last one got.
ApplyCreateStaleId(c) ==
  /\ pc[c] = "apply"
  /\ op[c].kind = "create"
  /\ policies' = Put(policies, nextID - 1, op[c].policy)
  /\ nextID' = nextID + 1
  /\ Unlock(c)
  /\ Return(c, [Reply(201) EXCEPT !.id = nextID])
  /\ UNCHANGED <<firstID, readers, op, loop, trail, bound>>

ApplyCreate(c) ==
  /\ pc[c] = "apply"
  /\ op[c].kind = "create"
  /\ policies' = Put(policies, nextID, op[c].policy)
  /\ nextID' = nextID + 1
  /\ Unlock(c)
  /\ Return(c, [Reply(201) EXCEPT !.id = nextID])
  /\ UNCHANGED <<firstID, readers, op, loop, trail, bound>>

ApplyUpdate(c) ==
  /\ pc[c] = "apply"
  /\ op[c].kind = "update"
  /\ policies' = Put(policies, op[c].id, op[c].policy)
  /\ Unlock(c)
  /\ Return(c, Reply(200))
  /\ UNCHANGED <<nextID, firstID, readers, op, loop, trail, bound>>

ApplyDelete(c) ==
  /\ pc[c] = "apply"
  /\ op[c].kind = "delete"
  /\ policies' = Drop(policies, op[c].id)
  /\ Unlock(c)
  /\ Return(c, Reply(200))
  /\ UNCHANGED <<nextID, firstID, readers, op, loop, trail, bound>>

-----------------------------------------------------------------------------
(* The rest of the handler, the process, the specification.                *)

\* auditLogger.Log for the calls that log, then the response.
Audit(c) ==
  /\ pc[c] = "audit"
  /\ trail' = trail \o Events(op[c], answer[c])
  /\ Goto(c, "idle")
  /\ UNCHANGED <<store, lock, op, loop, answer, bound>>

\* The process is killed and started again: nothing of the engine is stored.
Restart ==
  /\ boots < MaxRestarts
  /\ boots' = boots + 1
  /\ policies' = SeedDefaults(nextID)
  /\ firstID' = nextID
  /\ nextID' = nextID + BuiltInCount
  /\ holder' = {}
  /\ readers' = {}
  /\ pc' = [c \in Conns |-> "idle"]
  /\ trail' = << >>
  /\ UNCHANGED <<op, loop, answer, calls>>

\* No request in flight and none left to come: the server sits in Accept.
Quiet ==
  /\ calls = MaxCalls
  /\ \A c \in Conns : pc[c] = "idle"
  /\ UNCHANGED vars

Read(c)  == \/ RLock(c) \/ Visit(c) \/ NothingMatches(c) \/ BeginChecks(c)
            \/ CheckOne(c) \/ AllPassed(c) \/ ReturnList(c) \/ ReturnOne(c)
Write(c) == \/ AnnounceLock(c) \/ AcquireLock(c) \/ Lookup(c)
            \/ ApplyCreate(c) \/ ApplyUpdate(c) \/ ApplyDelete(c)

\* A step of the goroutine that serves c, from arrival to response.
Handle(c) == Refuse(c) \/ Read(c) \/ Write(c) \/ Audit(c)

Next ==
  \/ \E c \in Conns : Receive(c) \/ Handle(c)
  \/ Restart
  \/ Quiet

Spec == Init /\ [][Next]_vars

(***************************************************************************)
(* The Go scheduler runs every runnable goroutine, and sync.RWMutex lets   *)
(* no caller starve: an unlocking writer admits the readers that queued    *)
(* behind it before the next writer, and writers queue on a fair mutex.    *)
(* Hence strong fairness of the two steps that take the lock.  Nobody has  *)
(* to send a request, and the process need not be restarted.               *)
(***************************************************************************)
FairSpec ==
  /\ Spec
  /\ \A c \in Conns : /\ WF_vars(Handle(c))
                      /\ SF_vars(RLock(c))
                      /\ SF_vars(AnnounceLock(c))

-----------------------------------------------------------------------------
(* Properties.                                                             *)

StoreType == /\ nextID \in Nat \ {0}
             /\ firstID \in 1 .. nextID
             /\ DOMAIN policies \subseteq Id
             /\ policies \in [DOMAIN policies -> Policy]

LockType == holder \subseteq Conns /\ readers \subseteq Conns

OpType == op \in [Conns -> Call]

LoopType == /\ todo \in [Conns -> SUBSET Nat]
            /\ DOMAIN seen = Conns
            /\ \A c \in Conns : /\ DOMAIN seen[c] \subseteq Nat
                                /\ seen[c] \in [DOMAIN seen[c] -> Policy]

AnswerType == /\ pc \in [Conns -> PC]
              /\ DOMAIN answer = Conns
              /\ \A c \in Conns : answer[c].id \in Id

TrailType == trail \in Seq(Event)

BoundType == calls \in 0 .. MaxCalls /\ boots \in 0 .. MaxRestarts

BasicType == /\ StoreType /\ LockType /\ OpType /\ LoopType
             /\ AnswerType /\ TrailType /\ BoundType

\* Every variable ranges over the values the code can give it, and the map
\* only has ids this boot has drawn.
TypeOK == BasicType /\ DOMAIN policies \subseteq firstID .. nextID - 1

\* What ties the lock to the goroutines: who is where, at most one writer,
\* and no reader beside a writer that got the lock.
LockInv ==
  /\ readers = {c \in Conns : pc[c] \in {"visit", "check"}}
  /\ holder = {c \in Conns : pc[c] \in {"wait", "lookup", "apply"}}
  /\ \A c, d \in holder : c = d
  /\ (\E c \in Conns : pc[c] \in {"lookup", "apply"}) => readers = {}

\* Which calls stand where; an id found by Lookup is still there to be written.
CallAt(c) ==
  /\ pc[c] \in {"visit", "check"} => op[c].kind \in ReadKinds /\ ~Refused(op[c])
  /\ pc[c] = "check" => op[c].kind = "access"
  /\ pc[c] \in {"wait", "lookup", "apply"} =>
       op[c].kind \in WriteKinds /\ ~Refused(op[c])
  /\ pc[c] = "lookup" => op[c].kind # "create"
  /\ pc[c] = "apply" /\ op[c].kind # "create" => op[c].id \in DOMAIN policies

CallInv == \A c \in Conns : CallAt(c)

\* What the loops have collected is true of the store of this instant.
LoopAt(c) ==
  /\ pc[c] \in {"visit", "check"} =>
       \A id \in DOMAIN seen[c] : seen[c][id] = policies[id]
  /\ pc[c] = "visit" =>
       /\ todo[c] \subseteq DOMAIN policies
       /\ DOMAIN seen[c] =
            {id \in DOMAIN policies \ todo[c] : Wanted(op[c], policies[id])}
  /\ pc[c] = "check" =>
       /\ todo[c] \subseteq DOMAIN seen[c]
       /\ DOMAIN seen[c] = Matching(policies, op[c].request)
       /\ DOMAIN seen[c] # {}
       /\ \A id \in DOMAIN seen[c] \ todo[c] :
            Verdict(policies[id], op[c].request) = Allow

LoopInv == \A c \in Conns : LoopAt(c)

\* The lock and the loops together: a goroutine inside the lock works on the
\* store as it is, so what it returns is right at the moment it returns.
EngineInv == LockInv /\ CallInv /\ LoopInv

Inside(c)  == pc[c] \in {"visit", "check", "lookup", "apply"}

\* engine.go takes e.mu around every use of the map: while one goroutine
\* writes it no other reads or writes it (Go aborts the process on a
\* concurrent map iteration and map write).
NoMapRace ==
  \A c \in Conns : pc[c] = "apply" =>
    \A d \in Conns \ {c} : ~Inside(d)

\* CreatePolicy and DeletePolicy log after the lock is released, so the trail
\* lags behind the store by the calls still in "audit"; with those added it
\* accounts for every policy: of all ids drawn by this boot exactly the ones
\* deleted, on the trail or about to be, are missing from the store, and
\* exactly the ones beyond the built-in are, or are about to be, on the trail.
Owed(kind, status) ==
  {c \in Conns : pc[c] = "audit" /\ op[c].kind = kind /\ answer[c].status = status}

Logged(action) == {trail[i].id : i \in {j \in 1 .. Len(trail) : trail[j].action = action}}

Created == Logged("POLICY_CREATED") \cup {answer[c].id : c \in Owed("create", 201)}
Deleted == Logged("POLICY_DELETED") \cup {op[c].id : c \in Owed("delete", 200)}

LedgerMatchesStore ==
  /\ Created = (firstID + BuiltInCount) .. (nextID - 1)
  /\ DOMAIN policies = (firstID .. nextID - 1) \ Deleted

\* Of two concurrent DeletePolicy calls for one id only one succeeds, and
\* every created or deleted policy has its event once: no two events of one
\* action for one policy, and none that somebody still owes.
NoSecondEvent ==
  /\ \A i, j \in 1 .. Len(trail) :
        /\ trail[i].id # NoId
        /\ trail[i] = trail[j]
        => i = j
  /\ \A c \in Owed("delete", 200) :
        /\ op[c].id \notin Logged("POLICY_DELETED")
        /\ \A d \in Owed("delete", 200) : op[d].id = op[c].id => d = c
  /\ \A c \in Owed("create", 201) :
        /\ answer[c].id \notin Logged("POLICY_CREATED")
        /\ \A d \in Owed("create", 201) : answer[d].id = answer[c].id => d = c

\* Evaluate answers ALLOW only if, at that instant, some policy of the engine
\* matches and every one that matches passes: a policy created or deleted
\* while the loops run cannot slip through.
NewlyDecided(c, decision) ==
  /\ pc[c] # "audit" /\ pc'[c] = "audit"
  /\ op[c].kind = "access" /\ answer'[c].decision = decision

GrantIsUnanimous ==
  [][\A c \in Conns : NewlyDecided(c, Allow) =>
       /\ Matching(policies, op[c].request) # {}
       /\ Stopping(policies, op[c].request) = {}]_vars

\* The endpoints behave as if each call took effect in one step.
Stage(c) == IF pc[c] = "idle" THEN "idle"
            ELSE IF pc[c] = "audit" THEN "done"
            ELSE "called"

Service == INSTANCE PolicyService WITH stage <- [c \in Conns |-> Stage(c)]

Linearizable == Service!Spec

\* Every request is answered: no reader or writer waits for the lock forever.
EveryCallAnswered ==
  \A c \in Conns : pc[c] # "idle" ~> pc[c] = "idle"

\* Whoever waits at the lock waits for another who can take a step: there is no
\* return of engine.go, the early ones included, that keeps e.mu, and a writer
\* that queues behind readers does not keep them from leaving.
CanStep(c) ==
  \/ pc[c] = "enter" /\ (Refused(op[c]) \/ holder = {})
  \/ pc[c] = "wait" /\ readers = {}
  \/ Inside(c) \/ pc[c] = "audit"

NobodyIsStuck ==
  \A c \in Conns : pc[c] # "idle" /\ ~CanStep(c) =>
    \E d \in holder \cup readers : CanStep(d)

\* The turns a goroutine has before it gives the lock back, at most: each policy
\* is looked at once in either loop.
TurnsLeft(c) ==
  CASE pc[c] = "visit" -> 3 + 2 * Cardinality(todo[c]) + Cardinality(DOMAIN seen[c])
    [] pc[c] = "check" -> 2 + Cardinality(todo[c])
    [] pc[c] = "wait" -> 3
    [] pc[c] = "lookup" -> 2
    [] pc[c] = "apply" -> 1
    [] OTHER -> 0

\* engine.go holds e.mu for a bounded number of its own steps, whatever the
\* others do meanwhile: until it is given back, every step of its holder brings
\* that moment nearer, and nobody else's step puts it off.
LockIsGivenBack ==
  [][\A c \in readers \cup holder :
       \/ c \notin (readers \cup holder)'
       \/ UNCHANGED <<pc[c], todo[c], seen[c]>>
       \/ TurnsLeft(c)' \in 1 .. TurnsLeft(c) - 1]_vars

\* engine.go:74, "return the most restrictive result": MFA is asked for only
\* if no matching policy denies outright.
MostRestrictive ==
  [][\A c \in Conns : NewlyDecided(c, RequireMFA) =>
       ~ \E id \in Matching(policies, op[c].request) :
            Verdict(policies[id], op[c].request) = Deny]_vars
=============================================================================
