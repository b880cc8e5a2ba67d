------------------------- MODULE PolicyEngineProofs -------------------------
(***************************************************************************)
(* Proofs about PolicyEngine, for any connections, calls and bounds.       *)
(***************************************************************************)
EXTENDS PolicyEngine, FiniteSetTheorems, TLAPS

-----------------------------------------------------------------------------
(* The operators on the map.                                               *)

\* The empty map.
LEMMA NoPoliciesType ==
  DOMAIN NoPolicies = {} /\ NoPolicies \in [DOMAIN NoPolicies -> Policy]
BY DEF NoPolicies

\* Put writes one entry: the domain grows by its id, the others are kept.
LEMMA PutDomain ==
  ASSUME NEW s, NEW id, NEW p
  PROVE  DOMAIN Put(s, id, p) = DOMAIN s \cup {id}
BY DEF Put

\* The entry that was put, and the others as they were.
LEMMA PutValues ==
  ASSUME NEW s, NEW id, NEW p
  PROVE  /\ Put(s, id, p)[id] = p
         /\ \A i \in DOMAIN s : i # id => Put(s, id, p)[i] = s[i]
BY DEF Put

\* Put and Drop keep a map of policies a map of policies.
LEMMA PutType ==
  ASSUME NEW s, s \in [DOMAIN s -> Policy], NEW id, NEW p \in Policy
  PROVE  Put(s, id, p) \in [DOMAIN Put(s, id, p) -> Policy]
BY DEF Put

\* The same of Drop.
LEMMA DropType ==
  ASSUME NEW s, s \in [DOMAIN s -> Policy], NEW id
  PROVE  Drop(s, id) \in [DOMAIN Drop(s, id) -> Policy]
BY DEF Drop

\* Drop removes one entry and keeps the others.
LEMMA DropDomain ==
  ASSUME NEW s, NEW id
  PROVE  DOMAIN Drop(s, id) = DOMAIN s \ {id}
BY DEF Drop

\* The entries that are left are as they were.
LEMMA DropValues ==
  ASSUME NEW s, NEW id
  PROVE  \A i \in DOMAIN s \ {id} : Drop(s, id)[i] = s[i]
BY DEF Drop

\* Three well-formed policies under three consecutive ids.
LEMMA SeedFacts ==
  ASSUME NEW first \in Nat
  PROVE  /\ DOMAIN SeedDefaults(first) = first .. first + BuiltInCount - 1
         /\ SeedDefaults(first) \in
              [first .. first + BuiltInCount - 1 -> Policy]
<1>0. /\ DeveloperConsole \in Policy
      /\ AdminFull \in Policy
      /\ ViewerReadOnly \in Policy
  BY NamesAssumption DEF DeveloperConsole, AdminFull, ViewerReadOnly, Policy, Allow
<1>1. \A n \in 1 .. 3 : BuiltIn[n] \in Policy
  <2>1. \A n \in 1 .. 3 : n = 1 \/ n = 2 \/ n = 3
    OBVIOUS
  <2>2. BuiltIn[1] \in Policy /\ BuiltIn[2] \in Policy /\ BuiltIn[3] \in Policy
    BY <1>0 DEF BuiltIn
  <2> QED
    BY <2>1, <2>2
<1>2. \A id \in first .. first + BuiltInCount - 1 : id - first + 1 \in 1 .. 3
  BY DEF BuiltInCount
<1> QED
  BY <1>1, <1>2 DEF SeedDefaults

\* The id an answer carries.
LEMMA AnswerIds ==
  /\ NoAnswer.id = NoId
  /\ \A s : Reply(s).id = NoId
  /\ \A call : Refusal(call).id = NoId
  /\ \A s, f : [Reply(s) EXCEPT !.listed = f].id = NoId
  /\ \A s, i : [Reply(s) EXCEPT !.id = i].id = i
  /\ \A d, i : Decided([decision |-> d, id |-> i]).id = i
BY DEF NoAnswer, Reply, Refusal, Decided

\* Every audit event is an event, and a call logs at most one.
LEMMA EventsType ==
  ASSUME NEW call \in Call, NEW ans, ans.id \in Id
  PROVE  /\ Events(call, ans) \in Seq(Event)
         /\ Events(call, ans) = << >> \/ \E e \in Event : Events(call, ans) = <<e>>
<1>1. call.kind = "delete" => call.id \in Id
  BY DEF Call
<1>2. NoId \in Id
  BY DEF NoId, Id
<1> DEFINE access == [action |-> IF ans.decision = Allow THEN "ACCESS_GRANTED"
                                                         ELSE "ACCESS_DENIED",
                      id |-> NoId]
<1>3. access \in Event
  BY <1>2 DEF Event
<1>4. [action |-> "POLICY_CREATED", id |-> ans.id] \in Event
  BY DEF Event
<1>5. call.kind = "delete" => [action |-> "POLICY_DELETED", id |-> call.id] \in Event
  BY <1>1 DEF Event
<1>6. Events(call, ans) = << >> \/ \E e \in Event : Events(call, ans) = <<e>>
  BY <1>3, <1>4, <1>5 DEF Events
<1>7. << >> \in Seq(Event)
  OBVIOUS
<1>8. \A e \in Event : <<e>> \in Seq(Event)
  OBVIOUS
<1> QED
  BY <1>6, <1>7, <1>8

-----------------------------------------------------------------------------
(* Types.                                                                  *)

\* The initial state has the types.
LEMMA InitType == Init => BasicType
<1> SUFFICES ASSUME Init PROVE BasicType
  OBVIOUS
<1> USE DEF Init
<1>1. StoreType
  <2>1. /\ DOMAIN policies = 1 .. 3
        /\ policies \in [1 .. 3 -> Policy]
    <3>1. 1 \in Nat /\ 1 + 3 - 1 = 3
      OBVIOUS
    <3> QED
      BY <3>1, SeedFacts DEF BuiltInCount
  <2> QED
    BY <2>1 DEF StoreType, BuiltInCount, Id
<1>2. LockType
  BY DEF LockType
<1>3. OpType
  BY NamesAssumption DEF OpType, AnyCall, Call
<1>4. LoopType
  BY NoPoliciesType DEF LoopType
<1>5. AnswerType
  BY AnswerIds DEF AnswerType, PC, NoId, Id
<1>6. TrailType /\ BoundType
  BY BoundsAssumption DEF TrailType, BoundType
<1> QED
  BY <1>1, <1>2, <1>3, <1>4, <1>5, <1>6 DEF BasicType

\* An engine operation that returns sets one answer and one pc.
LEMMA ReturnType ==
  ASSUME AnswerType, NEW c \in Conns, NEW ans, ans.id \in Id, Return(c, ans)
  PROVE  AnswerType'
BY DEF AnswerType, Return, Goto, PC

\* A step to another place of the code, without an answer.
LEMMA GotoType ==
  ASSUME AnswerType, NEW c \in Conns, NEW label \in PC, Goto(c, label),
         UNCHANGED answer
  PROVE  AnswerType'
BY DEF AnswerType, Goto

\* No step leaves the types.
LEMMA StepType == BasicType /\ [Next]_vars => BasicType'
<1> SUFFICES ASSUME BasicType, [Next]_vars PROVE BasicType'
  OBVIOUS
<1> USE DEF BasicType, store, lock, loop, bound
<1>0. /\ UNCHANGED store => StoreType'
      /\ UNCHANGED lock => LockType'
      /\ UNCHANGED op => OpType'
      /\ UNCHANGED loop => LoopType'
      /\ UNCHANGED <<pc, answer>> => AnswerType'
      /\ UNCHANGED trail => TrailType'
      /\ UNCHANGED bound => BoundType'
  BY DEF StoreType, LockType, OpType, LoopType, AnswerType, TrailType, BoundType
<1>1. ASSUME NEW c \in Conns, Receive(c) PROVE BasicType'
  <2>1. OpType'
    BY <1>1, CallsAssumption DEF Receive, OpType
  <2>2. AnswerType'
    BY <1>1, AnswerIds DEF Receive, Goto, AnswerType, PC, NoId, Id
  <2>3. BoundType'
    BY <1>1, BoundsAssumption DEF Receive, BoundType
  <2> QED
    BY <1>1, <1>0, <2>1, <2>2, <2>3 DEF Receive
<1>2. ASSUME NEW c \in Conns, Refuse(c) PROVE BasicType'
  <2>1. AnswerType'
    BY <1>2, AnswerIds, ReturnType DEF Refuse, NoId, Id
  <2> QED
    BY <1>2, <1>0, <2>1 DEF Refuse
<1>3. ASSUME NEW c \in Conns, RLock(c) PROVE BasicType'
  <2>1. LoopType'
    BY <1>3, NoPoliciesType DEF RLock, LoopType, StoreType, Id
  <2>2. AnswerType'
    BY <1>3, GotoType DEF RLock, PC
  <2>3. LockType'
    BY <1>3 DEF RLock, LockType
  <2> QED
    BY <1>3, <1>0, <2>1, <2>2, <2>3 DEF RLock
<1>4. ASSUME NEW c \in Conns, Visit(c) PROVE BasicType'
  <2>1. PICK id \in todo[c] :
          /\ todo' = [todo EXCEPT ![c] = @ \ {id}]
          /\ seen' = IF id \in DOMAIN policies /\ Wanted(op[c], policies[id])
                       THEN [seen EXCEPT ![c] = Put(@, id, policies[id])]
                       ELSE seen
    BY <1>4 DEF Visit
  <2>2. todo' \in [Conns -> SUBSET Nat]
    BY <2>1 DEF LoopType
  <2>3. CASE id \in DOMAIN policies /\ Wanted(op[c], policies[id])
    <3> DEFINE after == Put(seen[c], id, policies[id])
    <3>1. seen' = [seen EXCEPT ![c] = after]
      BY <2>1, <2>3
    <3>2. policies[id] \in Policy /\ id \in Nat
      BY <2>1, <2>3 DEF StoreType, LoopType
    <3>3. DOMAIN after \subseteq Nat
      <4>1. DOMAIN after = DOMAIN seen[c] \cup {id}
        BY PutDomain
      <4> QED
        BY <4>1, <3>2 DEF LoopType
    <3>4. after \in [DOMAIN after -> Policy]
      <4>1. seen[c] \in [DOMAIN seen[c] -> Policy]
        BY DEF LoopType
      <4> QED
        BY <4>1, <3>2, PutType
    <3> HIDE DEF after
    <3>5. LoopType'
      BY <2>2, <3>1, <3>3, <3>4 DEF LoopType
    <3> QED
      BY <1>4, <1>0, <3>5 DEF Visit
  <2>4. CASE ~(id \in DOMAIN policies /\ Wanted(op[c], policies[id]))
    <3>1. LoopType'
      BY <2>1, <2>2, <2>4 DEF LoopType
    <3> QED
      BY <1>4, <1>0, <3>1 DEF Visit
  <2> QED
    BY <2>3, <2>4
<1>5. ASSUME NEW c \in Conns, NothingMatches(c) PROVE BasicType'
  <2>1. AnswerType'
    BY <1>5, AnswerIds, ReturnType DEF NothingMatches, NoId, Id
  <2>2. LockType'
    BY <1>5 DEF NothingMatches, RUnlock, LockType
  <2> QED
    BY <1>5, <1>0, <2>1, <2>2 DEF NothingMatches
<1>6. ASSUME NEW c \in Conns, BeginChecks(c) PROVE BasicType'
  <2>1. LoopType'
    BY <1>6 DEF BeginChecks, LoopType
  <2>2. AnswerType'
    BY <1>6, GotoType DEF BeginChecks, PC
  <2> QED
    BY <1>6, <1>0, <2>1, <2>2 DEF BeginChecks
<1>7. ASSUME NEW c \in Conns, ReturnList(c) PROVE BasicType'
  <2> DEFINE ans == [Reply(200) EXCEPT !.listed = seen[c]]
  <2>0. ans.id \in Id /\ Return(c, ans)
    BY <1>7, AnswerIds DEF ReturnList, NoId, Id
  <2> HIDE DEF ans
  <2>1. AnswerType'
    BY <2>0, ReturnType
  <2>2. LockType'
    BY <1>7 DEF ReturnList, RUnlock, LockType
  <2> QED
    BY <1>7, <1>0, <2>1, <2>2 DEF ReturnList
<1>8. ASSUME NEW c \in Conns, CheckOne(c) PROVE BasicType'
  <2>1. PICK id \in todo[c] :
          LET verdict == Verdict(seen[c][id], op[c].request)
          IN  \/ /\ todo' = [todo EXCEPT ![c] = @ \ {id}]
                 /\ UNCHANGED <<readers, pc, answer>>
              \/ /\ RUnlock(c)
                 /\ Return(c, Decided([decision |-> verdict, id |-> id]))
                 /\ UNCHANGED todo
    BY <1>8 DEF CheckOne
  <2>2. CASE todo' = [todo EXCEPT ![c] = @ \ {id}] /\ UNCHANGED <<readers, pc, answer>>
    <3>1. LoopType'
      BY <1>8, <2>2 DEF CheckOne, LoopType
    <3> QED
      BY <1>8, <1>0, <2>2, <3>1 DEF CheckOne
  <2>3. ASSUME NEW verdict, RUnlock(c), UNCHANGED todo,
               Return(c, Decided([decision |-> verdict, id |-> id]))
        PROVE  BasicType'
    <3>1. id \in Id
      BY DEF LoopType, Id
    <3>2. AnswerType'
      BY <2>3, <3>1, AnswerIds, ReturnType
    <3>3. LockType'
      BY <1>8, <2>3 DEF CheckOne, RUnlock, LockType
    <3> QED
      BY <1>8, <1>0, <2>3, <3>2, <3>3 DEF CheckOne
  <2> QED
    BY <2>1, <2>2, <2>3
<1>9. ASSUME NEW c \in Conns, AllPassed(c) PROVE BasicType'
  <2>1. AnswerType'
    BY <1>9, AnswerIds, ReturnType DEF AllPassed, NoId, Id
  <2>2. LockType'
    BY <1>9 DEF AllPassed, RUnlock, LockType
  <2> QED
    BY <1>9, <1>0, <2>1, <2>2 DEF AllPassed
<1>10. ASSUME NEW c \in Conns, ReturnOne(c) PROVE BasicType'
  <2> DEFINE found == [Reply(200) EXCEPT !.listed =
                         [id \in {op[c].id} |-> policies[id]]]
  <2>1. Return(c, found) \/ Return(c, Reply(404))
    BY <1>10 DEF ReturnOne
  <2>2. found.id \in Id /\ Reply(404).id \in Id
    BY AnswerIds DEF NoId, Id
  <2> HIDE DEF found
  <2>3. AnswerType'
    BY <2>1, <2>2, ReturnType
  <2>4. LockType'
    BY <1>10 DEF ReturnOne, RUnlock, LockType
  <2> QED
    BY <1>10, <1>0, <2>3, <2>4 DEF ReturnOne
<1>11. ASSUME NEW c \in Conns, AnnounceLock(c) PROVE BasicType'
  <2>1. AnswerType'
    BY <1>11, GotoType DEF AnnounceLock, PC
  <2>2. LockType'
    BY <1>11 DEF AnnounceLock, LockType
  <2> QED
    BY <1>11, <1>0, <2>1, <2>2 DEF AnnounceLock
<1>12. ASSUME NEW c \in Conns, AcquireLock(c) PROVE BasicType'
  <2>1. AnswerType'
    BY <1>12 DEF AcquireLock, Goto, AnswerType, PC
  <2> QED
    BY <1>12, <1>0, <2>1 DEF AcquireLock
<1>13. ASSUME NEW c \in Conns, Lookup(c) PROVE BasicType'
  <2>1. AnswerType'
    <3>1. CASE Return(c, Reply(404))
      BY <3>1, AnswerIds, ReturnType DEF NoId, Id
    <3>2. CASE Goto(c, "apply") /\ UNCHANGED answer
      BY <3>2, GotoType DEF PC
    <3> QED
      BY <1>13, <3>1, <3>2 DEF Lookup
  <2>2. LockType'
    BY <1>13 DEF Lookup, Unlock, LockType
  <2> QED
    BY <1>13, <1>0, <2>1, <2>2 DEF Lookup
<1>14. ASSUME NEW c \in Conns, ApplyCreate(c) PROVE BasicType'
  <2>1. op[c].policy \in Policy
    BY <1>14 DEF ApplyCreate, OpType, Call
  <2>2. policies' \in [DOMAIN policies' -> Policy]
    BY <1>14, <2>1, PutType DEF ApplyCreate, StoreType
  <2>3. DOMAIN policies' = DOMAIN policies \cup {nextID}
    BY <1>14, PutDomain, Zenon DEF ApplyCreate
  <2>4. StoreType'
    BY <1>14, <2>2, <2>3 DEF ApplyCreate, StoreType, Id
  <2>5. AnswerType'
    <3> DEFINE ans == [Reply(201) EXCEPT !.id = nextID]
    <3>1. ans.id \in Id
      BY AnswerIds DEF StoreType, Id
    <3>2. Return(c, ans)
      BY <1>14 DEF ApplyCreate
    <3> HIDE DEF ans
    <3> QED
      BY <3>1, <3>2, ReturnType
  <2>6. LockType'
    BY <1>14 DEF ApplyCreate, Unlock, LockType
  <2> QED
    BY <1>14, <1>0, <2>4, <2>5, <2>6 DEF ApplyCreate
<1>15. ASSUME NEW c \in Conns, ApplyUpdate(c) PROVE BasicType'
  <2>1. op[c].policy \in Policy
    BY <1>15 DEF ApplyUpdate, OpType, Call
  <2>2. policies' \in [DOMAIN policies' -> Policy]
    BY <1>15, <2>1, PutType DEF ApplyUpdate, StoreType
  <2>3. DOMAIN policies' = DOMAIN policies \cup {op[c].id}
    BY <1>15, PutDomain DEF ApplyUpdate
  <2>4. op[c].id \in Id
    BY <1>15 DEF ApplyUpdate, OpType, Call
  <2>5. StoreType'
    BY <1>15, <2>2, <2>3, <2>4 DEF ApplyUpdate, StoreType
  <2>6. AnswerType'
    BY <1>15, AnswerIds, ReturnType DEF ApplyUpdate, NoId, Id
  <2>7. LockType'
    BY <1>15 DEF ApplyUpdate, Unlock, LockType
  <2> QED
    BY <1>15, <1>0, <2>5, <2>6, <2>7 DEF ApplyUpdate
<1>16. ASSUME NEW c \in Conns, ApplyDelete(c) PROVE BasicType'
  <2>1. policies' \in [DOMAIN policies' -> Policy]
    BY <1>16, DropType DEF ApplyDelete, StoreType
  <2>2. DOMAIN policies' = DOMAIN policies \ {op[c].id}
    BY <1>16, DropDomain DEF ApplyDelete
  <2>3. StoreType'
    BY <1>16, <2>1, <2>2 DEF ApplyDelete, StoreType
  <2>4. AnswerType'
    BY <1>16, AnswerIds, ReturnType DEF ApplyDelete, NoId, Id
  <2>5. LockType'
    BY <1>16 DEF ApplyDelete, Unlock, LockType
  <2> QED
    BY <1>16, <1>0, <2>3, <2>4, <2>5 DEF ApplyDelete
<1>17. ASSUME NEW c \in Conns, Audit(c) PROVE BasicType'
  <2>1. Events(op[c], answer[c]) \in Seq(Event)
    BY EventsType DEF OpType, AnswerType
  <2>2. TrailType'
    BY <1>17, <2>1 DEF Audit, TrailType
  <2>3. AnswerType'
    BY <1>17, GotoType DEF Audit, PC
  <2> QED
    BY <1>17, <1>0, <2>2, <2>3 DEF Audit
<1>18. ASSUME Restart PROVE BasicType'
  <2>1. StoreType'
    <3>1. /\ DOMAIN policies' = nextID .. nextID + 3 - 1
          /\ policies' \in [nextID .. nextID + 3 - 1 -> Policy]
      BY <1>18, SeedFacts DEF Restart, BuiltInCount, StoreType
    <3> QED
      BY <1>18, <3>1 DEF Restart, StoreType, BuiltInCount, Id
  <2>2. BoundType'
    BY <1>18, BoundsAssumption DEF Restart, BoundType
  <2>3. AnswerType'
    BY <1>18 DEF Restart, AnswerType, PC
  <2>4. LockType' /\ TrailType'
    BY <1>18 DEF Restart, LockType, TrailType
  <2> QED
    BY <1>18, <1>0, <2>1, <2>2, <2>3, <2>4 DEF Restart
<1>19. CASE Quiet \/ UNCHANGED vars
  BY <1>19, <1>0 DEF Quiet, vars
<1> QED
  BY <1>1, <1>2, <1>3, <1>4, <1>5, <1>6, <1>7, <1>8, <1>9, <1>10, <1>11, <1>12,
     <1>13, <1>14, <1>15, <1>16, <1>17, <1>18, <1>19
  DEF Next, Handle, Read, Write

-----------------------------------------------------------------------------
(* The lock.                                                               *)

\* Taking and giving back the lock keeps LockInv, and the steps between touch
\* neither the lock nor the kind of place a goroutine is in.
LEMMA LockStep == BasicType /\ LockInv /\ [Next]_vars => LockInv'
<1> SUFFICES ASSUME BasicType, LockInv, [Next]_vars PROVE LockInv'
  OBVIOUS
<1>0. pc \in [Conns -> PC]
  BY DEF BasicType, AnswerType
<1> USE <1>0 DEF LockInv, Goto, PC, store, lock, loop, bound
<1>1. ASSUME NEW c \in Conns, Receive(c) PROVE LockInv'
  BY <1>1 DEF Receive
<1>2. ASSUME NEW c \in Conns, Refuse(c) PROVE LockInv'
  BY <1>2 DEF Refuse, Return
<1>3. ASSUME NEW c \in Conns, RLock(c) PROVE LockInv'
  BY <1>3 DEF RLock
<1>4. ASSUME NEW c \in Conns, Visit(c) PROVE LockInv'
  BY <1>4 DEF Visit
<1>5. ASSUME NEW c \in Conns, NothingMatches(c) PROVE LockInv'
  BY <1>5 DEF NothingMatches, RUnlock, Return
<1>6. ASSUME NEW c \in Conns, BeginChecks(c) PROVE LockInv'
  BY <1>6 DEF BeginChecks
<1>7. ASSUME NEW c \in Conns, ReturnList(c) PROVE LockInv'
  BY <1>7 DEF ReturnList, RUnlock, Return
<1>8. ASSUME NEW c \in Conns, CheckOne(c) PROVE LockInv'
  <2>1. CASE UNCHANGED <<readers, pc>>
    BY <1>8, <2>1 DEF CheckOne
  <2>2. CASE RUnlock(c) /\ Goto(c, "audit")
    BY <1>8, <2>2 DEF CheckOne, RUnlock
  <2> QED
    BY <1>8, <2>1, <2>2 DEF CheckOne, Return
<1>9. ASSUME NEW c \in Conns, AllPassed(c) PROVE LockInv'
  BY <1>9 DEF AllPassed, RUnlock, Return
<1>10. ASSUME NEW c \in Conns, ReturnOne(c) PROVE LockInv'
  BY <1>10 DEF ReturnOne, RUnlock, Return
<1>11. ASSUME NEW c \in Conns, AnnounceLock(c) PROVE LockInv'
  BY <1>11 DEF AnnounceLock
<1>12. ASSUME NEW c \in Conns, AcquireLock(c) PROVE LockInv'
  BY <1>12 DEF AcquireLock
<1>13. ASSUME NEW c \in Conns, Lookup(c) PROVE LockInv'
  BY <1>13 DEF Lookup, Unlock, Return
<1>14. ASSUME NEW c \in Conns, ApplyCreate(c) PROVE LockInv'
  BY <1>14 DEF ApplyCreate, Unlock, Return
<1>15. ASSUME NEW c \in Conns, ApplyUpdate(c) PROVE LockInv'
  BY <1>15 DEF ApplyUpdate, Unlock, Return
<1>16. ASSUME NEW c \in Conns, ApplyDelete(c) PROVE LockInv'
  BY <1>16 DEF ApplyDelete, Unlock, Return
<1>17. ASSUME NEW c \in Conns, Audit(c) PROVE LockInv'
  BY <1>17 DEF Audit
<1>18. ASSUME Restart PROVE LockInv'
  BY <1>18 DEF Restart
<1>19. CASE Quiet \/ UNCHANGED vars
  BY <1>19 DEF Quiet, vars
<1> QED
  BY <1>1, <1>2, <1>3, <1>4, <1>5, <1>6, <1>7, <1>8, <1>9, <1>10, <1>11, <1>12,
     <1>13, <1>14, <1>15, <1>16, <1>17, <1>18, <1>19
  DEF Next, Handle, Read, Write

-----------------------------------------------------------------------------
(* What the writing steps do to the domain of the map.                     *)

\* CreatePolicy adds the id drawn.
LEMMA CreateDomain ==
  ASSUME NEW c, ApplyCreate(c)
  PROVE  DOMAIN policies' = DOMAIN policies \cup {nextID}
<1>1. policies' = Put(policies, nextID, op[c].policy)
  BY DEF ApplyCreate
<1> QED
  BY <1>1, PutDomain

\* UpdatePolicy writes the id named.
LEMMA UpdateDomain ==
  ASSUME NEW c, ApplyUpdate(c)
  PROVE  DOMAIN policies' = DOMAIN policies \cup {op[c].id}
<1>1. policies' = Put(policies, op[c].id, op[c].policy)
  BY DEF ApplyUpdate
<1> QED
  BY <1>1, PutDomain

\* DeletePolicy removes the id named.
LEMMA DeleteDomain ==
  ASSUME NEW c, ApplyDelete(c)
  PROVE  DOMAIN policies' = DOMAIN policies \ {op[c].id}
<1>1. policies' = Drop(policies, op[c].id)
  BY DEF ApplyDelete
<1> QED
  BY <1>1, DropDomain

-----------------------------------------------------------------------------
(* Which call is where.                                                    *)

\* The routing of the calls is kept, and the id a writer found in the map is
\* still there when it writes: nobody else is inside the lock.
LEMMA CallStep ==
  BasicType /\ LockInv /\ CallInv /\ [Next]_vars => CallInv'
<1> SUFFICES ASSUME BasicType, LockInv, CallInv, [Next]_vars PROVE CallInv'
  OBVIOUS
<1>0. pc \in [Conns -> PC] /\ op \in [Conns -> Call]
  BY DEF BasicType, AnswerType, OpType
<1> USE <1>0 DEF CallInv, CallAt, Goto, PC, store, lock, loop, bound
<1>1. ASSUME NEW c \in Conns, Receive(c) PROVE CallInv'
  BY <1>1 DEF Receive
<1>2. ASSUME NEW c \in Conns, Refuse(c) PROVE CallInv'
  BY <1>2 DEF Refuse, Return
<1>3. ASSUME NEW c \in Conns, RLock(c) PROVE CallInv'
  BY <1>3 DEF RLock
<1>4. ASSUME NEW c \in Conns, Visit(c) PROVE CallInv'
  BY <1>4 DEF Visit
<1>5. ASSUME NEW c \in Conns, NothingMatches(c) PROVE CallInv'
  BY <1>5 DEF NothingMatches, Return
<1>6. ASSUME NEW c \in Conns, BeginChecks(c) PROVE CallInv'
  BY <1>6 DEF BeginChecks
<1>7. ASSUME NEW c \in Conns, ReturnList(c) PROVE CallInv'
  BY <1>7 DEF ReturnList, Return
<1>8. ASSUME NEW c \in Conns, CheckOne(c) PROVE CallInv'
  <2>1. pc' = pc \/ Goto(c, "audit")
    BY <1>8 DEF CheckOne, Return
  <2> QED
    BY <1>8, <2>1 DEF CheckOne
<1>9. ASSUME NEW c \in Conns, AllPassed(c) PROVE CallInv'
  BY <1>9 DEF AllPassed, Return
<1>10. ASSUME NEW c \in Conns, ReturnOne(c) PROVE CallInv'
  BY <1>10 DEF ReturnOne, Return
<1>11. ASSUME NEW c \in Conns, AnnounceLock(c) PROVE CallInv'
  BY <1>11 DEF AnnounceLock
<1>12. ASSUME NEW c \in Conns, AcquireLock(c) PROVE CallInv'
  BY <1>12 DEF AcquireLock
<1>13. ASSUME NEW c \in Conns, Lookup(c) PROVE CallInv'
  BY <1>13 DEF Lookup, Return
<1>14. ASSUME NEW c \in Conns, ApplyCreate(c) PROVE CallInv'
  <2>1. DOMAIN policies \subseteq DOMAIN policies'
    BY <1>14, CreateDomain
  <2> QED
    BY <1>14, <2>1 DEF ApplyCreate, Return
<1>15. ASSUME NEW c \in Conns, ApplyUpdate(c) PROVE CallInv'
  <2>1. DOMAIN policies \subseteq DOMAIN policies'
    BY <1>15, UpdateDomain
  <2> QED
    BY <1>15, <2>1 DEF ApplyUpdate, Return
<1>16. ASSUME NEW c \in Conns, ApplyDelete(c) PROVE CallInv'
  <2>1. \A d \in Conns \ {c} : pc[d] # "apply"
    BY <1>16 DEF ApplyDelete, LockInv
  <2> QED
    BY <1>16, <2>1 DEF ApplyDelete, Return
<1>17. ASSUME NEW c \in Conns, Audit(c) PROVE CallInv'
  BY <1>17 DEF Audit
<1>18. ASSUME Restart PROVE CallInv'
  BY <1>18 DEF Restart
<1>19. CASE Quiet \/ UNCHANGED vars
  BY <1>19 DEF Quiet, vars
<1> QED
  BY <1>1, <1>2, <1>3, <1>4, <1>5, <1>6, <1>7, <1>8, <1>9, <1>10, <1>11, <1>12,
     <1>13, <1>14, <1>15, <1>16, <1>17, <1>18, <1>19
  DEF Next, Handle, Read, Write

\* The map keeps to the ids of this boot; an update writes one already there.
LEMMA IdStep == TypeOK /\ CallInv /\ [Next]_vars => TypeOK'
<1> SUFFICES ASSUME TypeOK, CallInv, [Next]_vars PROVE TypeOK'
  OBVIOUS
<1>1. BasicType'
  BY StepType DEF TypeOK
<1> DEFINE OfThisBoot == DOMAIN policies \subseteq firstID .. nextID - 1
<1>2. nextID \in Nat \ {0} /\ firstID \in Nat /\ firstID <= nextID /\ OfThisBoot
  BY DEF TypeOK, BasicType, StoreType
<1>3. ASSUME NEW c \in Conns, ApplyCreate(c) PROVE OfThisBoot'
  BY <1>2, <1>3, CreateDomain DEF ApplyCreate
<1>4. ASSUME NEW c \in Conns, ApplyUpdate(c) PROVE OfThisBoot'
  <2>1. op[c].id \in DOMAIN policies
    BY <1>4 DEF ApplyUpdate, CallInv, CallAt
  <2> QED
    BY <1>2, <1>4, <2>1, UpdateDomain DEF ApplyUpdate
<1>5. ASSUME NEW c \in Conns, ApplyDelete(c) PROVE OfThisBoot'
  BY <1>2, <1>5, DeleteDomain DEF ApplyDelete
<1>6. ASSUME Restart PROVE OfThisBoot'
  <2>1. DOMAIN policies' = nextID .. nextID + 3 - 1
    BY <1>2, <1>6, SeedFacts DEF Restart, BuiltInCount
  <2> QED
    BY <1>2, <1>6, <2>1 DEF Restart, BuiltInCount
<1>7. ASSUME UNCHANGED store PROVE OfThisBoot'
  BY <1>2, <1>7 DEF store
<1>8. (\E c \in Conns : ApplyCreate(c) \/ ApplyUpdate(c) \/ ApplyDelete(c))
      \/ Restart \/ UNCHANGED store
  <2>1. ASSUME NEW c \in Conns, Receive(c) \/ Refuse(c) \/ Audit(c)
        PROVE  UNCHANGED store
    BY <2>1 DEF store, Receive, Refuse, Audit
  <2>2. ASSUME NEW c \in Conns, Read(c)
        PROVE  UNCHANGED store
    BY <2>2 DEF Read, store, RLock, Visit, NothingMatches, BeginChecks, CheckOne,
       AllPassed, ReturnList, ReturnOne
  <2>3. ASSUME NEW c \in Conns, AnnounceLock(c) \/ AcquireLock(c) \/ Lookup(c)
        PROVE  UNCHANGED store
    BY <2>3 DEF store, AnnounceLock, AcquireLock, Lookup
  <2>4. ASSUME Quiet \/ UNCHANGED vars
        PROVE  UNCHANGED store
    BY <2>4 DEF store, Quiet, vars
  <2> QED
    BY <2>1, <2>2, <2>3, <2>4 DEF Next, Handle, Write
<1> QED
  BY <1>1, <1>3, <1>4, <1>5, <1>6, <1>7, <1>8 DEF TypeOK

-----------------------------------------------------------------------------
(* The loops.                                                              *)

\* A goroutine's loop is undisturbed by a step that changes neither its own
\* variables nor the map.
LEMMA LoopFrame ==
  ASSUME NEW d, LoopAt(d), UNCHANGED policies, pc'[d] = pc[d], op'[d] = op[d],
         todo'[d] = todo[d], seen'[d] = seen[d]
  PROVE  LoopAt(d)'
BY DEF LoopAt, Wanted, Matches, Matching, Verdict

\* Outside the two loops nothing is claimed of them.
LEMMA LoopIdle ==
  ASSUME NEW d, pc'[d] \notin {"visit", "check"}
  PROVE  LoopAt(d)'
BY DEF LoopAt

\* The loops look at a map that stands still: the steps that write it are
\* taken with no reader inside.
LEMMA LoopStep ==
  BasicType /\ LockInv /\ CallInv /\ LoopInv /\ [Next]_vars => LoopInv'
<1> SUFFICES ASSUME BasicType, LockInv, CallInv, LoopInv, [Next]_vars,
                    NEW d \in Conns
             PROVE  LoopAt(d)'
  BY DEF LoopInv
<1>0. /\ pc \in [Conns -> PC]
      /\ op \in [Conns -> Call]
      /\ todo \in [Conns -> SUBSET Nat]
      /\ DOMAIN seen = Conns
      /\ LoopAt(d)
  BY DEF BasicType, AnswerType, OpType, LoopType, LoopInv
<1> USE <1>0 DEF Goto, PC, store, lock, loop, bound
<1>1. ASSUME NEW c \in Conns, Receive(c) PROVE LoopAt(d)'
  BY <1>1, LoopFrame, LoopIdle DEF Receive
<1>2. ASSUME NEW c \in Conns, Refuse(c) PROVE LoopAt(d)'
  BY <1>2, LoopFrame, LoopIdle DEF Refuse, Return
<1>3. ASSUME NEW c \in Conns, RLock(c) PROVE LoopAt(d)'
  <2>1. CASE d = c
    BY <1>3, <2>1, NoPoliciesType DEF RLock, LoopAt
  <2>2. CASE d # c
    BY <1>3, <2>2, LoopFrame DEF RLock
  <2> QED
    BY <2>1, <2>2
<1>4. ASSUME NEW c \in Conns, Visit(c) PROVE LoopAt(d)'
  <2>1. CASE d = c
    <3>1. PICK id \in todo[c] :
            /\ todo' = [todo EXCEPT ![c] = @ \ {id}]
            /\ seen' = IF id \in DOMAIN policies /\ Wanted(op[c], policies[id])
                         THEN [seen EXCEPT ![c] = Put(@, id, policies[id])]
                         ELSE seen
      BY <1>4 DEF Visit
    <3>2. /\ \A i \in DOMAIN seen[c] : seen[c][i] = policies[i]
          /\ todo[c] \subseteq DOMAIN policies
          /\ DOMAIN seen[c] =
               {i \in DOMAIN policies \ todo[c] : Wanted(op[c], policies[i])}
      BY <1>4, <2>1 DEF Visit, LoopAt
    <3>3. UNCHANGED <<policies, pc, op>> /\ pc[c] = "visit"
      BY <1>4 DEF Visit
    <3>4. todo'[c] = todo[c] \ {id} /\ id \in DOMAIN policies
      BY <3>1, <3>2
    <3> DEFINE after == Put(seen[c], id, policies[id])
    <3>5. seen' = [seen EXCEPT ![c] = after] \/
          (seen' = seen /\ ~Wanted(op[c], policies[id]))
      BY <3>1, <3>4
    <3>6. /\ DOMAIN after = DOMAIN seen[c] \cup {id}
          /\ after[id] = policies[id]
          /\ \A i \in DOMAIN seen[c] : i # id => after[i] = seen[c][i]
      <4>1. DOMAIN after = DOMAIN seen[c] \cup {id}
        BY PutDomain
      <4>2. after[id] = policies[id]
        BY PutValues
      <4>3. \A i \in DOMAIN seen[c] : i # id => after[i] = seen[c][i]
        BY PutValues
      <4> QED
        BY <4>1, <4>2, <4>3
    <3> HIDE DEF after
    <3>7. \A i \in DOMAIN seen'[c] : seen'[c][i] = policies[i]
      <4>1. CASE seen'[c] = after
        BY <4>1, <3>2, <3>6
      <4>2. CASE seen' = seen
        BY <4>2, <3>2
      <4> QED
        BY <3>5, <4>1, <4>2
    <3>8. DOMAIN seen'[c] =
            {i \in DOMAIN policies \ todo'[c] : Wanted(op[c], policies[i])}
      <4>1. CASE Wanted(op[c], policies[id])
        <5>1. seen'[c] = after
          BY <3>1, <3>4, <4>1, <3>5
        <5> QED
          BY <5>1, <3>1, <3>2, <3>4, <3>6, <4>1
      <4>2. CASE ~Wanted(op[c], policies[id])
        BY <3>1, <3>2, <3>4, <4>2
      <4> QED
        BY <4>1, <4>2
    <3>9. \A i : Wanted(op[c], policies[i])' <=> Wanted(op[c], policies[i])
      BY <3>3 DEF Wanted, Matches
    <3> QED
      BY <2>1, <3>2, <3>3, <3>4, <3>7, <3>8, <3>9 DEF LoopAt
  <2>2. CASE d # c
    BY <1>4, <2>2, LoopFrame DEF Visit
  <2> QED
    BY <2>1, <2>2
<1>5. ASSUME NEW c \in Conns, NothingMatches(c) PROVE LoopAt(d)'
  BY <1>5, LoopFrame, LoopIdle DEF NothingMatches, Return
<1>6. ASSUME NEW c \in Conns, BeginChecks(c) PROVE LoopAt(d)'
  <2>1. CASE d = c
    <3>1. DOMAIN seen[c] = Matching(policies, op[c].request)
      BY <1>6, <2>1 DEF BeginChecks, LoopAt, Wanted, Matching
    <3>2. UNCHANGED <<policies, op, seen>> /\ todo'[c] = DOMAIN seen[c]
      BY <1>6 DEF BeginChecks
    <3>3. Matching(policies, op[c].request)' = Matching(policies, op[c].request)
      BY <3>2 DEF Matching, Matches
    <3> QED
      BY <1>6, <2>1, <3>1, <3>2, <3>3 DEF BeginChecks, LoopAt
  <2>2. CASE d # c
    BY <1>6, <2>2, LoopFrame DEF BeginChecks
  <2> QED
    BY <2>1, <2>2
<1>7. ASSUME NEW c \in Conns, ReturnList(c) PROVE LoopAt(d)'
  BY <1>7, LoopFrame, LoopIdle DEF ReturnList, Return
<1>8. ASSUME NEW c \in Conns, CheckOne(c) PROVE LoopAt(d)'
  <2>1. CASE d = c
    <3>1. PICK id \in todo[c] :
            \/ /\ Verdict(seen[c][id], op[c].request) = Allow
               /\ todo' = [todo EXCEPT ![c] = @ \ {id}]
               /\ UNCHANGED pc
            \/ Goto(c, "audit")
      BY <1>8 DEF CheckOne, Return
    <3>2. UNCHANGED <<policies, op, seen>> /\ pc[c] = "check"
      BY <1>8 DEF CheckOne
    <3>3. CASE Goto(c, "audit")
      BY <2>1, <3>3, LoopIdle
    <3>4. CASE /\ Verdict(seen[c][id], op[c].request) = Allow
               /\ todo' = [todo EXCEPT ![c] = @ \ {id}]
               /\ UNCHANGED pc
      <4>1. seen[c][id] = policies[id] /\ todo'[c] = todo[c] \ {id}
        BY <2>1, <3>1, <3>2, <3>4 DEF LoopAt
      <4>2. Matching(policies, op[c].request)' = Matching(policies, op[c].request)
        BY <3>2 DEF Matching, Matches
      <4>3. \A i : Verdict(policies[i], op[c].request)'
                    = Verdict(policies[i], op[c].request)
        BY <3>2 DEF Verdict, RiskExceeded, DeviceRefused, MFAMissing
      <4> QED
        BY <2>1, <3>2, <3>4, <4>1, <4>2, <4>3 DEF LoopAt
    <3> QED
      BY <3>1, <3>3, <3>4
  <2>2. CASE d # c
    BY <1>8, <2>2, LoopFrame DEF CheckOne, Return
  <2> QED
    BY <2>1, <2>2
<1>9. ASSUME NEW c \in Conns, AllPassed(c) PROVE LoopAt(d)'
  BY <1>9, LoopFrame, LoopIdle DEF AllPassed, Return
<1>10. ASSUME NEW c \in Conns, ReturnOne(c) PROVE LoopAt(d)'
  BY <1>10, LoopFrame, LoopIdle DEF ReturnOne, Return
<1>11. ASSUME NEW c \in Conns, AnnounceLock(c) PROVE LoopAt(d)'
  BY <1>11, LoopFrame, LoopIdle DEF AnnounceLock
<1>12. ASSUME NEW c \in Conns, AcquireLock(c) PROVE LoopAt(d)'
  BY <1>12, LoopFrame, LoopIdle DEF AcquireLock
<1>13. ASSUME NEW c \in Conns, Lookup(c) PROVE LoopAt(d)'
  BY <1>13, LoopFrame, LoopIdle DEF Lookup, Return
<1>14. ASSUME NEW c \in Conns,
              ApplyCreate(c) \/ ApplyUpdate(c) \/ ApplyDelete(c)
       PROVE  LoopAt(d)'
  <2>1. pc[d] \notin {"visit", "check"}
    BY <1>14 DEF ApplyCreate, ApplyUpdate, ApplyDelete, LockInv
  <2> QED
    BY <1>14, <2>1, LoopIdle DEF ApplyCreate, ApplyUpdate, ApplyDelete, Return
<1>15. ASSUME NEW c \in Conns, Audit(c) PROVE LoopAt(d)'
  BY <1>15, LoopFrame, LoopIdle DEF Audit
<1>16. ASSUME Restart PROVE LoopAt(d)'
  BY <1>16, LoopIdle DEF Restart
<1>17. CASE Quiet \/ UNCHANGED vars
  BY <1>17, LoopFrame DEF Quiet, vars
<1> QED
  BY <1>1, <1>2, <1>3, <1>4, <1>5, <1>6, <1>7, <1>8, <1>9, <1>10, <1>11, <1>12,
     <1>13, <1>14, <1>15, <1>16, <1>17
  DEF Next, Handle, Read, Write

-----------------------------------------------------------------------------
(* The theorems.                                                           *)

\* The inductive invariant: the initial state is free of requests.
LEMMA InitInv == Init => TypeOK /\ EngineInv
<1> SUFFICES ASSUME Init PROVE TypeOK /\ EngineInv
  OBVIOUS
<1>1. BasicType
  BY InitType
<1>2. DOMAIN policies \subseteq firstID .. nextID - 1
  <2>1. 1 \in Nat /\ 1 + 3 - 1 = 3
    OBVIOUS
  <2>2. DOMAIN policies = 1 .. 3
    BY <2>1, SeedFacts DEF Init, BuiltInCount
  <2> QED
    BY <2>2 DEF Init, BuiltInCount
<1>3. LockInv
  BY DEF Init, LockInv
<1>4. CallInv
  BY DEF Init, CallInv, CallAt
<1>5. LoopInv
  BY DEF Init, LoopInv, LoopAt
<1> QED
  BY <1>1, <1>2, <1>3, <1>4, <1>5 DEF TypeOK, EngineInv

\* In every reachable state the variables have their types, the lock keeps
\* readers and the writer apart, and what the loops have collected is true of
\* the store: for any connections, calls and bounds.
THEOREM EngineInvariant == Spec => [](TypeOK /\ EngineInv)
<1>1. TypeOK /\ EngineInv /\ [Next]_vars => (TypeOK /\ EngineInv)'
  BY IdStep, LockStep, CallStep, LoopStep DEF TypeOK, EngineInv
<1> QED
  BY InitInv, <1>1, PTL DEF Spec

\* Type correctness: the map never holds an id of another boot.
THEOREM TypeCorrect == Spec => []TypeOK
BY EngineInvariant, PTL

\* Engine.mu does its work: no goroutine writes the map while another ranges
\* over it or writes it.
THEOREM MapRaceFree == Spec => []NoMapRace
<1>1. EngineInv => NoMapRace
  BY DEF EngineInv, LockInv, NoMapRace, Inside
<1> QED
  BY <1>1, EngineInvariant, PTL

\* Evaluate grants only what every matching policy of that instant grants,
\* whatever is created, changed or deleted while its loops run.
THEOREM GrantsAreUnanimous == Spec => GrantIsUnanimous
<1> DEFINE Unanimous(c) == NewlyDecided(c, Allow) =>
             /\ Matching(policies, op[c].request) # {}
             /\ Stopping(policies, op[c].request) = {}
<1>1. TypeOK /\ EngineInv /\ [Next]_vars => \A c \in Conns : Unanimous(c)
  <2> SUFFICES ASSUME TypeOK, EngineInv, [Next]_vars, NEW c \in Conns,
                      NewlyDecided(c, Allow)
               PROVE  /\ Matching(policies, op[c].request) # {}
                      /\ Stopping(policies, op[c].request) = {}
    OBVIOUS
  <2>1. /\ pc \in [Conns -> PC] /\ DOMAIN answer = Conns
        /\ CallAt(c) /\ LoopAt(c)
    BY DEF TypeOK, BasicType, AnswerType, EngineInv, CallInv, LoopInv
  <2>2. pc[c] # "audit" /\ pc'[c] = "audit" /\ op[c].kind = "access"
        /\ answer'[c].decision = Allow
    BY DEF NewlyDecided
  <2>3. AllPassed(c)
    <3>1. Refuse(c) \/ NothingMatches(c) \/ CheckOne(c) \/ AllPassed(c)
      <4>1. \E d \in Conns : Receive(d) \/ Handle(d)
        BY <2>1, <2>2 DEF Next, Restart, Quiet, vars
      <4>2. PICK d \in Conns : Receive(d) \/ Handle(d)
        BY <4>1
      <4>3. d = c
        BY <2>1, <2>2, <4>2
        DEF Receive, Handle, Read, Write, Refuse, RLock, Visit, NothingMatches,
            BeginChecks, ReturnList, CheckOne, AllPassed, ReturnOne, AnnounceLock,
            AcquireLock, Lookup, ApplyCreate, ApplyUpdate, ApplyDelete, Audit,
            Return, Goto
      <4>4. ~(Receive(c) \/ RLock(c) \/ Visit(c) \/ BeginChecks(c)
              \/ AnnounceLock(c) \/ AcquireLock(c) \/ Audit(c))
        BY <2>1, <2>2
        DEF Receive, RLock, Visit, BeginChecks, AnnounceLock, AcquireLock, Audit, Goto
      <4>5. ~(ReturnList(c) \/ ReturnOne(c) \/ Lookup(c) \/ ApplyCreate(c)
              \/ ApplyUpdate(c) \/ ApplyDelete(c))
        BY <2>1, <2>2
        DEF ReturnList, ReturnOne, Lookup, ApplyCreate, ApplyUpdate, ApplyDelete,
            CallAt, WriteKinds
      <4> QED
        BY <4>2, <4>3, <4>4, <4>5 DEF Handle, Read, Write
    <3>2. ~Refuse(c)
      <4>1. \A call : Refusal(call).decision = ""
        BY DEF Refusal, Reply, NoAnswer
      <4> QED
        BY <2>1, <2>2, <4>1 DEF Refuse, Return, Allow
    <3>3. \A decision, id : Decided([decision |-> decision, id |-> id]).decision = decision
      BY DEF Decided, NoAnswer
    <3>4. ~NothingMatches(c)
      BY <2>1, <2>2, <3>3 DEF NothingMatches, Return, Allow, Deny
    <3>5. ~CheckOne(c)
      <4>1. SUFFICES ASSUME CheckOne(c) PROVE FALSE
        OBVIOUS
      <4>2. PICK id : /\ Verdict(seen[c][id], op[c].request) # Allow
                      /\ Return(c, Decided([decision |-> Verdict(seen[c][id],
                                                                 op[c].request),
                                            id |-> id]))
        BY <2>2, <4>1 DEF CheckOne
      <4> DEFINE verdict == Verdict(seen[c][id], op[c].request)
      <4>3. answer'[c] = Decided([decision |-> verdict, id |-> id])
        BY <2>1, <4>2 DEF Return
      <4>4. Decided([decision |-> verdict, id |-> id]).decision = verdict
        BY <3>3
      <4> QED
        BY <2>2, <4>2, <4>3, <4>4
    <3> QED
      BY <3>1, <3>2, <3>4, <3>5
  <2>4. /\ DOMAIN seen[c] = Matching(policies, op[c].request)
        /\ DOMAIN seen[c] # {}
        /\ \A id \in DOMAIN seen[c] : Verdict(policies[id], op[c].request) = Allow
    BY <2>1, <2>3 DEF AllPassed, LoopAt
  <2> QED
    BY <2>4 DEF Stopping
<1>2. (\A c \in Conns : Unanimous(c)) => [\A c \in Conns : Unanimous(c)]_vars
  OBVIOUS
<1> QED
  BY <1>1, <1>2, EngineInvariant, PTL DEF Spec, GrantIsUnanimous

-----------------------------------------------------------------------------
(* PolicyEngine implements PolicyService.                                  *)

\* The service speaks of the same rules: its operators are those of the engine.
LEMMA SameRules ==
  /\ Service!BuiltInCount = BuiltInCount
  /\ Service!NoAnswer = NoAnswer
  /\ Service!AnyCall = AnyCall
  /\ \A first : Service!SeedDefaults(first) = SeedDefaults(first)
  /\ \A call : Service!NamedId(call) = NamedId(call)
  /\ \A call : Service!Refused(call) = Refused(call)
  /\ \A call : Service!Refusal(call) = Refusal(call)
  /\ \A status : Service!Reply(status) = Reply(status)
  /\ \A outcome : Service!Decided(outcome) = Decided(outcome)
  /\ \A s, req : Service!Outcomes(s, req) = Outcomes(s, req)
  /\ \A s, id, p : Service!Put(s, id, p) = Put(s, id, p)
  /\ \A s, id : Service!Drop(s, id) = Drop(s, id)
  /\ \A call, ans : Service!Events(call, ans) = Events(call, ans)
<1>1. /\ Service!BuiltInCount = BuiltInCount
      /\ Service!NoAnswer = NoAnswer
      /\ Service!AnyCall = AnyCall
  BY DEF Service!BuiltInCount, BuiltInCount, Service!NoAnswer, NoAnswer,
         Service!AnyCall, AnyCall, Service!NoId, NoId, Service!NoPolicies,
         NoPolicies, Service!ViewerReadOnly, ViewerReadOnly, Service!Allow, Allow
<1>2. \A first : Service!SeedDefaults(first) = SeedDefaults(first)
  BY DEF Service!SeedDefaults, SeedDefaults, Service!BuiltInCount, BuiltInCount,
         Service!BuiltIn, BuiltIn, Service!DeveloperConsole, DeveloperConsole,
         Service!AdminFull, AdminFull, Service!ViewerReadOnly, ViewerReadOnly,
         Service!Allow, Allow
<1>3. \A call : Service!NamedId(call) = NamedId(call)
  BY DEF Service!NamedId, NamedId, Service!NoId, NoId
<1>4. \A call : Service!Forbidden(call) = Forbidden(call)
  BY DEF Service!Forbidden, Forbidden, Service!PolicyWriters, PolicyWriters
<1>5. \A call : Service!Refused(call) = Refused(call)
  BY <1>4 DEF Service!Refused, Refused, Service!Malformed, Malformed
<1>6. \A status : Service!Reply(status) = Reply(status)
  BY <1>1 DEF Service!Reply, Reply
<1>7. \A call : Service!Refusal(call) = Refusal(call)
  BY <1>4, <1>6 DEF Service!Refusal, Refusal
<1>8. \A outcome : Service!Decided(outcome) = Decided(outcome)
  BY <1>1 DEF Service!Decided, Decided
<1>9. \A p, req : Service!Verdict(p, req) = Verdict(p, req)
  BY DEF Service!Verdict, Verdict, Service!RiskExceeded, RiskExceeded,
         Service!DeviceRefused, DeviceRefused, Service!MFAMissing, MFAMissing,
         Service!Deny, Deny, Service!RequireMFA, RequireMFA, Service!Allow, Allow
<1>10. \A s, req : Service!Matching(s, req) = Matching(s, req)
  BY DEF Service!Matching, Matching, Service!Matches, Matches
<1>11. \A s, req : Service!Stopping(s, req) = Stopping(s, req)
  BY <1>9, <1>10 DEF Service!Stopping, Stopping, Service!Allow, Allow
<1>12. \A s, req : Service!Outcomes(s, req) = Outcomes(s, req)
  BY <1>9, <1>10, <1>11
  DEF Service!Outcomes, Outcomes, Service!Deny, Deny, Service!Allow, Allow,
      Service!NoId, NoId
<1>13. \A s, id, p : Service!Put(s, id, p) = Put(s, id, p)
  BY DEF Service!Put, Put
<1>14. \A s, id : Service!Drop(s, id) = Drop(s, id)
  BY DEF Service!Drop, Drop
<1>15. \A call, ans : Service!Events(call, ans) = Events(call, ans)
  BY DEF Service!Events, Events, Service!Allow, Allow, Service!NoId, NoId
<1> QED
  BY <1>1, <1>2, <1>3, <1>5, <1>6, <1>7, <1>8, <1>12, <1>13, <1>14, <1>15

stages == [c \in Conns |-> Stage(c)]

\* A step within the handling of a call does not change its stage.
LEMMA StageStutter ==
  ASSUME pc \in [Conns -> PC], NEW c \in Conns, NEW label, Goto(c, label),
         pc[c] \notin {"idle", "audit"}, label \notin {"idle", "audit"}
  PROVE  UNCHANGED stages
BY DEF stages, Stage, Goto

\* Returning from the engine completes the stage.
LEMMA StageReturn ==
  ASSUME pc \in [Conns -> PC], NEW c \in Conns, NEW ans, Return(c, ans),
         pc[c] \notin {"idle", "audit"}
  PROVE  /\ stages[c] = "called"
         /\ stages' = [stages EXCEPT ![c] = "done"]
BY DEF stages, Stage, Return, Goto

\* An answer given to a call the service does not refuse, with the effect of
\* the call's kind, is a step of the service.
LEMMA ReturnServes ==
  ASSUME pc \in [Conns -> PC], NEW c \in Conns, NEW ans, Return(c, ans),
         pc[c] \notin {"idle", "audit"}, UNCHANGED <<op, trail, firstID>>
  PROVE  /\ Service!Answered(c, ans)
         /\ stages[c] = "called"
BY StageReturn DEF Service!Answered, Return, stages

\* Every step of the engine is a step of the service or changes nothing there.
LEMMA StepServes ==
  ASSUME TypeOK, EngineInv, [Next]_vars
  PROVE  [Service!Next]_(Service!vars)
<1> DEFINE Goal == Service!Next \/ UNCHANGED Service!vars
<1>0. /\ pc \in [Conns -> PC]
      /\ DOMAIN answer = Conns
      /\ \A c \in Conns : CallAt(c) /\ LoopAt(c)
  BY DEF TypeOK, BasicType, AnswerType, EngineInv, CallInv, LoopInv
<1> SUFFICES Goal
  OBVIOUS
<1>a. ASSUME UNCHANGED stages, UNCHANGED <<policies, nextID, firstID, op, answer, trail>>
      PROVE  Goal
  BY <1>a DEF Service!vars, stages
<1>b. ASSUME NEW c \in Conns, stages[c] = "called", ~Refused(op[c]),
             \/ Service!Decide(c) \/ Service!List(c) \/ Service!Get(c)
             \/ Service!Create(c) \/ Service!Update(c) \/ Service!Delete(c)
      PROVE  Goal
  BY <1>b, SameRules DEF Service!Next, Service!Serve, stages
<1> USE DEF store, lock, loop, bound
<1>1. ASSUME NEW c \in Conns, Receive(c) PROVE Goal
  <2>1. stages[c] = "idle" /\ stages' = [stages EXCEPT ![c] = "called"]
    BY <1>0, <1>1 DEF Receive, Goto, stages, Stage
  <2>2. Service!Arrive(c)
    BY <1>1, <2>1, SameRules DEF Receive, Service!Arrive, stages
  <2> QED
    BY <2>2 DEF Service!Next
<1>2. ASSUME NEW c \in Conns, Refuse(c) PROVE Goal
  <2>1. Return(c, Refusal(op[c])) /\ UNCHANGED <<policies, nextID, firstID, op, trail>>
        /\ Refused(op[c]) /\ pc[c] = "enter"
    BY <1>2 DEF Refuse
  <2>2. Service!Answered(c, Refusal(op[c])) /\ stages[c] = "called"
    BY <1>0, <2>1, ReturnServes
  <2>3. Service!Refuse(c)
    BY <2>1, <2>2, SameRules DEF Service!Refuse
  <2> QED
    BY <2>2, <2>3 DEF Service!Next, Service!Serve, stages
<1>3. ASSUME NEW c \in Conns, RLock(c) PROVE Goal
  BY <1>0, <1>3, <1>a, StageStutter DEF RLock
<1>4. ASSUME NEW c \in Conns, Visit(c) PROVE Goal
  BY <1>4, <1>a DEF Visit, stages, Stage
<1>5. ASSUME NEW c \in Conns, NEW outcome, pc[c] \in {"visit", "check"},
             op[c].kind = "access", Return(c, Decided(outcome)),
             UNCHANGED <<policies, nextID, firstID, op, trail>>,
             outcome \in Outcomes(policies, op[c].request)
      PROVE  Goal
  <2>1. Service!Answered(c, Decided(outcome)) /\ stages[c] = "called"
    BY <1>0, <1>5, ReturnServes
  <2>2. Service!Decide(c)
    BY <1>5, <2>1, SameRules DEF Service!Decide
  <2>3. ~Refused(op[c])
    BY <1>0, <1>5 DEF CallAt
  <2> QED
    BY <2>1, <2>2, <2>3, <1>b
<1>6. ASSUME NEW c \in Conns, NothingMatches(c) PROVE Goal
  <2>1. Matching(policies, op[c].request) = {}
    BY <1>0, <1>6 DEF NothingMatches, LoopAt, Wanted, Matching
  <2>2. [decision |-> Deny, id |-> NoId] \in Outcomes(policies, op[c].request)
    BY <2>1 DEF Outcomes
  <2> QED
    BY <1>6, <2>2, <1>5 DEF NothingMatches
<1>7. ASSUME NEW c \in Conns, BeginChecks(c) PROVE Goal
  BY <1>0, <1>7, <1>a, StageStutter DEF BeginChecks
<1>8. ASSUME NEW c \in Conns, ReturnList(c) PROVE Goal
  <2>1. seen[c] = policies
    <3>1. DOMAIN seen[c] = DOMAIN policies
      BY <1>0, <1>8 DEF ReturnList, LoopAt, Wanted
    <3>2. \A id \in DOMAIN policies : seen[c][id] = policies[id]
      BY <1>0, <1>8, <3>1 DEF ReturnList, LoopAt
    <3>3. /\ seen[c] \in [DOMAIN seen[c] -> Policy]
          /\ policies \in [DOMAIN policies -> Policy]
      BY DEF TypeOK, BasicType, LoopType, StoreType
    <3> QED
      BY <3>1, <3>2, <3>3
  <2> DEFINE ans == [Reply(200) EXCEPT !.listed = policies]
  <2>2. Return(c, ans) /\ pc[c] = "visit" /\ op[c].kind = "list"
        /\ UNCHANGED <<policies, nextID, firstID, op, trail>>
    BY <1>8, <2>1 DEF ReturnList
  <2> HIDE DEF ans
  <2>3. Service!Answered(c, ans) /\ stages[c] = "called"
    BY <1>0, <2>2, ReturnServes
  <2>4. Service!List(c)
    BY <2>2, <2>3, SameRules DEF Service!List, ans
  <2>5. ~Refused(op[c])
    BY <1>0, <2>2 DEF CallAt
  <2> QED
    BY <2>3, <2>4, <2>5, <1>b
<1>9. ASSUME NEW c \in Conns, CheckOne(c) PROVE Goal
  <2>1. PICK id \in todo[c] :
          \/ UNCHANGED <<pc, answer>>
          \/ /\ Verdict(seen[c][id], op[c].request) # Allow
             /\ Return(c, Decided([decision |-> Verdict(seen[c][id], op[c].request),
                                   id |-> id]))
    BY <1>9 DEF CheckOne
  <2>2. CASE UNCHANGED <<pc, answer>>
    BY <1>9, <2>2, <1>a DEF CheckOne, stages, Stage
  <2>3. CASE /\ Verdict(seen[c][id], op[c].request) # Allow
             /\ Return(c, Decided([decision |-> Verdict(seen[c][id], op[c].request),
                                   id |-> id]))
    <3>1. pc[c] = "check" /\ op[c].kind = "access"
          /\ UNCHANGED <<policies, nextID, firstID, op, trail>>
      BY <1>0, <1>9 DEF CheckOne, CallAt
    <3>2. id \in Matching(policies, op[c].request) /\ seen[c][id] = policies[id]
      BY <1>0, <3>1 DEF LoopAt
    <3>3. id \in Stopping(policies, op[c].request)
      BY <2>3, <3>2 DEF Stopping
    <3>4. [decision |-> Verdict(policies[id], op[c].request), id |-> id]
            \in Outcomes(policies, op[c].request)
      BY <3>2, <3>3 DEF Outcomes
    <3> QED
      BY <2>3, <3>1, <3>2, <3>4, <1>5
  <2> QED
    BY <2>1, <2>2, <2>3
<1>10. ASSUME NEW c \in Conns, AllPassed(c) PROVE Goal
  <2>1. /\ pc[c] = "check" /\ op[c].kind = "access" /\ todo[c] = {}
        /\ Return(c, Decided([decision |-> Allow, id |-> NoId]))
        /\ UNCHANGED <<policies, nextID, firstID, op, trail>>
    BY <1>0, <1>10 DEF AllPassed, CallAt
  <2>2. /\ Matching(policies, op[c].request) # {}
        /\ Stopping(policies, op[c].request) = {}
    BY <1>0, <2>1 DEF LoopAt, Stopping
  <2>3. [decision |-> Allow, id |-> NoId] \in Outcomes(policies, op[c].request)
    BY <2>2 DEF Outcomes
  <2> QED
    BY <2>1, <2>3, <1>5
<1>11. ASSUME NEW c \in Conns, ReturnOne(c) PROVE Goal
  <2> DEFINE ans == IF op[c].id \in DOMAIN policies
                      THEN [Reply(200) EXCEPT !.listed =
                              [id \in {op[c].id} |-> policies[id]]]
                      ELSE Reply(404)
  <2>1. Return(c, ans) /\ pc[c] = "visit" /\ op[c].kind = "get"
        /\ UNCHANGED <<policies, nextID, firstID, op, trail>>
    BY <1>11 DEF ReturnOne
  <2> HIDE DEF ans
  <2>2. Service!Answered(c, ans) /\ stages[c] = "called"
    BY <1>0, <2>1, ReturnServes
  <2>3. Service!Get(c)
    BY <2>1, <2>2, SameRules DEF Service!Get, ans
  <2>4. ~Refused(op[c])
    BY <1>0, <2>1 DEF CallAt
  <2> QED
    BY <2>2, <2>3, <2>4, <1>b
<1>12. ASSUME NEW c \in Conns, AnnounceLock(c) PROVE Goal
  BY <1>0, <1>12, <1>a, StageStutter DEF AnnounceLock
<1>13. ASSUME NEW c \in Conns, AcquireLock(c) PROVE Goal
  BY <1>0, <1>13, <1>a, StageStutter DEF AcquireLock
<1>14. ASSUME NEW c \in Conns, Lookup(c) PROVE Goal
  <2>1. pc[c] = "lookup" /\ op[c].kind \in {"update", "delete"} /\ ~Refused(op[c])
        /\ UNCHANGED <<policies, nextID, firstID, op, trail>>
    BY <1>0, <1>14 DEF Lookup, CallAt, WriteKinds
  <2>2. CASE Goto(c, "apply") /\ UNCHANGED answer
    BY <1>0, <2>1, <2>2, <1>a, StageStutter
  <2>3. CASE op[c].id \notin DOMAIN policies /\ Return(c, Reply(404))
    <3>1. Service!Answered(c, Reply(404)) /\ stages[c] = "called"
      BY <1>0, <2>1, <2>3, ReturnServes
    <3>2. Service!Update(c) \/ Service!Delete(c)
      BY <2>1, <2>3, <3>1, SameRules DEF Service!Update, Service!Delete
    <3> QED
      BY <2>1, <3>1, <3>2, <1>b
  <2> QED
    BY <1>14, <2>2, <2>3 DEF Lookup
<1>15. ASSUME NEW c \in Conns, ApplyCreate(c) PROVE Goal
  <2> DEFINE ans == [Reply(201) EXCEPT !.id = nextID]
  <2>1. /\ pc[c] = "apply" /\ op[c].kind = "create" /\ ~Refused(op[c])
        /\ Return(c, ans)
        /\ policies' = Put(policies, nextID, op[c].policy)
        /\ nextID' = nextID + 1
        /\ UNCHANGED <<firstID, op, trail>>
    BY <1>0, <1>15 DEF ApplyCreate, CallAt
  <2> HIDE DEF ans
  <2>2. Service!Answered(c, ans) /\ stages[c] = "called"
    BY <1>0, <2>1, ReturnServes
  <2>3. Service!Create(c)
    BY <2>1, <2>2, SameRules DEF Service!Create, ans
  <2> QED
    BY <2>1, <2>2, <2>3, <1>b
<1>16. ASSUME NEW c \in Conns, ApplyUpdate(c) PROVE Goal
  <2>1. /\ pc[c] = "apply" /\ op[c].kind = "update" /\ ~Refused(op[c])
        /\ op[c].id \in DOMAIN policies
        /\ Return(c, Reply(200))
        /\ policies' = Put(policies, op[c].id, op[c].policy)
        /\ UNCHANGED <<nextID, firstID, op, trail>>
    BY <1>0, <1>16 DEF ApplyUpdate, CallAt
  <2>2. Service!Answered(c, Reply(200)) /\ stages[c] = "called"
    BY <1>0, <2>1, ReturnServes
  <2>3. Service!Update(c)
    BY <2>1, <2>2, SameRules DEF Service!Update
  <2> QED
    BY <2>1, <2>2, <2>3, <1>b
<1>17. ASSUME NEW c \in Conns, ApplyDelete(c) PROVE Goal
  <2>1. /\ pc[c] = "apply" /\ op[c].kind = "delete" /\ ~Refused(op[c])
        /\ op[c].id \in DOMAIN policies
        /\ Return(c, Reply(200))
        /\ policies' = Drop(policies, op[c].id)
        /\ UNCHANGED <<nextID, firstID, op, trail>>
    BY <1>0, <1>17 DEF ApplyDelete, CallAt
  <2>2. Service!Answered(c, Reply(200)) /\ stages[c] = "called"
    BY <1>0, <2>1, ReturnServes
  <2>3. Service!Delete(c)
    BY <2>1, <2>2, SameRules DEF Service!Delete
  <2> QED
    BY <2>1, <2>2, <2>3, <1>b
<1>18. ASSUME NEW c \in Conns, Audit(c) PROVE Goal
  <2>1. stages[c] = "done" /\ stages' = [stages EXCEPT ![c] = "idle"]
    BY <1>0, <1>18 DEF Audit, Goto, stages, Stage
  <2>2. Service!Finish(c)
    BY <1>18, <2>1, SameRules DEF Audit, Service!Finish, stages
  <2> QED
    BY <2>2 DEF Service!Next
<1>19. ASSUME Restart PROVE Goal
  <2>1. stages' = [c \in Conns |-> "idle"]
    BY <1>19 DEF Restart, stages, Stage
  <2>2. Service!Restart
    BY <1>19, <2>1, SameRules DEF Restart, Service!Restart, stages
  <2> QED
    BY <2>2 DEF Service!Next
<1>20. CASE Quiet \/ UNCHANGED vars
  BY <1>20, <1>a DEF Quiet, vars, stages, Stage
<1> QED
  BY <1>1, <1>2, <1>3, <1>4, <1>6, <1>7, <1>8, <1>9, <1>10, <1>11, <1>12, <1>13,
     <1>14, <1>15, <1>16, <1>17, <1>18, <1>19, <1>20
  DEF Next, Handle, Read, Write

\* The endpoints are linearizable: the locks and loops of the engine implement
\* the service in which every call takes effect in one step.
THEOREM EngineImplementsService == Spec => Linearizable
<1>1. Init => Service!Init
  <2> SUFFICES ASSUME Init PROVE Service!Init
    OBVIOUS
  <2>1. [c \in Conns |-> Stage(c)] = [c \in Conns |-> "idle"]
    BY DEF Init, Stage
  <2> QED
    BY <2>1, SameRules DEF Init, Service!Init
<1>2. TypeOK /\ EngineInv /\ [Next]_vars => [Service!Next]_(Service!vars)
  BY StepServes
<1> QED
  BY <1>1, <1>2, EngineInvariant, PTL DEF Spec, Linearizable, Service!Spec

-----------------------------------------------------------------------------
(* The trail as a ledger of the store.                                     *)

\* With the events still owed the trail accounts for the store, names nothing
\* twice, and deletes nothing that this boot has not drawn.
LedgerInv ==
  /\ LedgerMatchesStore
  /\ NoSecondEvent
  /\ firstID + BuiltInCount <= nextID
  /\ Deleted \subseteq firstID .. nextID - 1

OwesNothing(c) == c \notin Owed("create", 201) \cup Owed("delete", 200)

\* A step of c that touches neither the trail, nor the ids, nor what is owed.
Beside(c) ==
  /\ UNCHANGED <<nextID, firstID, trail>> /\ DOMAIN policies' = DOMAIN policies
  /\ \A d \in Conns \ {c} : pc'[d] = pc[d] /\ op'[d] = op[d] /\ answer'[d] = answer[d]
  /\ OwesNothing(c) /\ OwesNothing(c)'

\* Such a step leaves the ledger as it is.
LEMMA BesideLedger ==
  ASSUME LedgerInv, NEW c \in Conns, Beside(c)
  PROVE  LedgerInv'
<1>1. /\ Owed("create", 201)' = Owed("create", 201)
      /\ Owed("delete", 200)' = Owed("delete", 200)
  BY DEF Beside, OwesNothing, Owed
<1>2. /\ \A d \in Owed("create", 201) : answer'[d] = answer[d]
      /\ \A d \in Owed("delete", 200) : op'[d] = op[d]
  BY DEF Beside, OwesNothing, Owed
<1>3. \A action : Logged(action)' = Logged(action)
  BY DEF Beside, Logged
<1>4. Created' = Created /\ Deleted' = Deleted
  BY <1>1, <1>2, <1>3 DEF Created, Deleted
<1>5. /\ LedgerMatchesStore' /\ Deleted' \subseteq firstID' .. nextID' - 1
      /\ firstID' + BuiltInCount <= nextID'
  BY <1>4 DEF Beside, LedgerInv, LedgerMatchesStore
<1>6. NoSecondEvent'
  BY <1>1, <1>2, <1>3 DEF Beside, LedgerInv, NoSecondEvent
<1> QED
  BY <1>5, <1>6 DEF LedgerInv

\* What an answer of each kind owes: a created policy's 201, a deleted one's 200.
LEMMA AnswerStatus ==
  /\ NoAnswer.status = 0
  /\ \A s : Reply(s).status = s
  /\ \A call : Refusal(call).status \notin {200, 201}
  /\ \A s, i : [Reply(s) EXCEPT !.id = i].status = s
BY DEF NoAnswer, Reply, Refusal

\* What goes on the trail when an event is appended to it.
LEMMA LoggedAppend ==
  ASSUME trail \in Seq(Event), NEW e \in Event, trail' = trail \o <<e>>, NEW action
  PROVE  /\ e.action = action => Logged(action)' = Logged(action) \cup {e.id}
         /\ e.action # action => Logged(action)' = Logged(action)
<1>1. /\ Len(trail') = Len(trail) + 1 /\ trail'[Len(trail) + 1] = e
      /\ \A i \in 1 .. Len(trail) : trail'[i] = trail[i]
      /\ Len(trail) \in Nat
  OBVIOUS
<1>2. 1 .. Len(trail') = (1 .. Len(trail)) \cup {Len(trail) + 1}
  BY <1>1
<1> QED
  BY <1>1, <1>2 DEF Logged

\* The steps that return no created and no deleted policy.
LEMMA OtherSteps ==
  ASSUME BasicType, CallInv, NEW c \in Conns,
         \/ Receive(c) \/ Refuse(c) \/ Read(c) \/ AnnounceLock(c) \/ AcquireLock(c)
         \/ Lookup(c) \/ ApplyUpdate(c)
  PROVE  Beside(c)
<1>0. /\ pc \in [Conns -> PC] /\ op \in [Conns -> Call] /\ DOMAIN answer = Conns
      /\ CallAt(c)
  BY DEF BasicType, AnswerType, OpType, CallInv
<1> USE <1>0 DEF Beside, OwesNothing, Owed, Goto, Return, store, lock, loop, bound
<1>1. CASE Receive(c)
  BY <1>1 DEF Receive
<1>2. CASE Refuse(c)
  BY <1>2, AnswerStatus DEF Refuse
<1>3. CASE RLock(c) \/ Visit(c) \/ BeginChecks(c)
  BY <1>3 DEF RLock, Visit, BeginChecks
<1>4. CASE NothingMatches(c) \/ AllPassed(c)
  <2>1. pc[c] # "audit" /\ op[c].kind \notin {"create", "delete"} /\ op' = op
    BY <1>4 DEF NothingMatches, AllPassed, CallAt
  <2> QED
    BY <1>4, <2>1 DEF NothingMatches, AllPassed
<1>5. CASE CheckOne(c)
  <2>1. pc[c] # "audit" /\ op[c].kind \notin {"create", "delete"} /\ op' = op
    BY <1>5 DEF CheckOne, CallAt
  <2>2. PICK ans : UNCHANGED <<pc, answer>> \/ Return(c, ans)
    BY <1>5 DEF CheckOne
  <2>3. UNCHANGED store /\ UNCHANGED trail
    BY <1>5 DEF CheckOne
  <2> QED
    BY <2>1, <2>2, <2>3
<1>6. CASE ReturnList(c) \/ ReturnOne(c)
  <2>1. pc[c] # "audit" /\ op[c].kind \notin {"create", "delete"} /\ op' = op
    BY <1>6 DEF ReturnList, ReturnOne
  <2>2. PICK ans : Return(c, ans)
    BY <1>6 DEF ReturnList, ReturnOne
  <2>3. UNCHANGED store /\ UNCHANGED trail
    BY <1>6 DEF ReturnList, ReturnOne
  <2> QED
    BY <2>1, <2>2, <2>3
<1>7. CASE AnnounceLock(c) \/ AcquireLock(c)
  BY <1>7 DEF AnnounceLock, AcquireLock
<1>8. CASE Lookup(c)
  BY <1>8, AnswerStatus DEF Lookup
<1>9. CASE ApplyUpdate(c)
  <2>1. DOMAIN policies' = DOMAIN policies
    <3>1. DOMAIN policies' = DOMAIN policies \cup {op[c].id}
      BY <1>9, UpdateDomain
    <3>2. op[c].id \in DOMAIN policies
      BY <1>9 DEF ApplyUpdate, CallAt
    <3> QED
      BY <3>1, <3>2
  <2>2. pc[c] # "audit" /\ op[c].kind \notin {"create", "delete"} /\ op' = op
    BY <1>9 DEF ApplyUpdate
  <2> QED
    BY <1>9, <2>1, <2>2 DEF ApplyUpdate
<1> QED
  BY <1>1, <1>2, <1>3, <1>4, <1>5, <1>6, <1>7, <1>8, <1>9 DEF Read

\* CreatePolicy draws an id that no event names yet.
LEMMA CreateLedger ==
  ASSUME TypeOK, LedgerInv, NEW c \in Conns, ApplyCreate(c)
  PROVE  LedgerInv'
<1> DEFINE ans == [Reply(201) EXCEPT !.id = nextID]
<1>1. /\ pc[c] = "apply" /\ op[c].kind = "create" /\ op' = op
      /\ pc' = [pc EXCEPT ![c] = "audit"] /\ answer' = [answer EXCEPT ![c] = ans]
      /\ nextID' = nextID + 1 /\ firstID' = firstID /\ trail' = trail
  BY DEF ApplyCreate, Return, Goto
<1>2. ans.status = 201 /\ ans.id = nextID
  BY AnswerStatus, AnswerIds
<1> HIDE DEF ans
<1>3. /\ pc \in [Conns -> PC] /\ DOMAIN answer = Conns
      /\ nextID \in Nat /\ firstID \in Nat
  BY DEF TypeOK, BasicType, AnswerType, StoreType
<1>4. /\ \A d \in Conns \ {c} : pc'[d] = pc[d] /\ answer'[d] = answer[d]
      /\ pc'[c] = "audit" /\ answer'[c].status = 201 /\ answer'[c].id = nextID
  BY <1>1, <1>2, <1>3
<1>5. /\ c \notin Owed("create", 201)
      /\ Owed("create", 201)' = Owed("create", 201) \cup {c}
      /\ Owed("delete", 200)' = Owed("delete", 200)
  BY <1>1, <1>4 DEF Owed
<1>6. \A action : Logged(action)' = Logged(action)
  BY <1>1 DEF Logged
<1>7. \A d \in Owed("create", 201) : answer'[d] = answer[d]
  BY <1>4, <1>5 DEF Owed
<1>8. Created' = Created \cup {nextID} /\ Deleted' = Deleted
  BY <1>1, <1>4, <1>5, <1>6, <1>7 DEF Created, Deleted
<1>9. /\ Created = (firstID + BuiltInCount) .. (nextID - 1)
      /\ DOMAIN policies = (firstID .. nextID - 1) \ Deleted
      /\ firstID + BuiltInCount <= nextID /\ Deleted \subseteq firstID .. nextID - 1
  BY DEF LedgerInv, LedgerMatchesStore
<1>10. BuiltInCount \in Nat
  BY DEF BuiltInCount
<1>11. LedgerMatchesStore'
  <2>1. Created' = (firstID' + BuiltInCount) .. (nextID' - 1)
    BY <1>1, <1>3, <1>8, <1>9, <1>10
  <2>2. DOMAIN policies' = DOMAIN policies \cup {nextID}
    BY CreateDomain
  <2>3. DOMAIN policies' = (firstID' .. nextID' - 1) \ Deleted'
    BY <1>1, <1>3, <1>8, <1>9, <1>10, <2>2
  <2> QED
    BY <2>1, <2>3 DEF LedgerMatchesStore
<1>12. nextID \notin Created
  BY <1>3, <1>9
<1>13. NoSecondEvent'
  <2>1. nextID \notin Logged("POLICY_CREATED")
    BY <1>12 DEF Created
  <2>2. \A d \in Owed("create", 201) : answer[d].id # nextID
    BY <1>12 DEF Created
  <2> QED
    BY <1>1, <1>4, <1>5, <1>6, <1>7, <2>1, <2>2 DEF LedgerInv, NoSecondEvent
<1> QED
  BY <1>1, <1>3, <1>8, <1>9, <1>10, <1>11, <1>13 DEF LedgerInv

\* DeletePolicy removes an id that was in the store, so that no event has
\* deleted it.
LEMMA DeleteLedger ==
  ASSUME TypeOK, CallInv, LedgerInv, NEW c \in Conns, ApplyDelete(c)
  PROVE  LedgerInv'
<1> DEFINE id == op[c].id
<1>1. /\ pc[c] = "apply" /\ op[c].kind = "delete" /\ op' = op
      /\ pc' = [pc EXCEPT ![c] = "audit"] /\ answer' = [answer EXCEPT ![c] = Reply(200)]
      /\ nextID' = nextID /\ firstID' = firstID /\ trail' = trail
      /\ id \in DOMAIN policies
  BY DEF ApplyDelete, Return, Goto, CallInv, CallAt
<1>2. pc \in [Conns -> PC] /\ DOMAIN answer = Conns
  BY DEF TypeOK, BasicType, AnswerType
<1>3. /\ \A d \in Conns \ {c} : pc'[d] = pc[d] /\ answer'[d] = answer[d]
      /\ pc'[c] = "audit" /\ answer'[c].status = 200
  BY <1>1, <1>2, AnswerStatus
<1>4. /\ c \notin Owed("delete", 200)
      /\ Owed("delete", 200)' = Owed("delete", 200) \cup {c}
      /\ Owed("create", 201)' = Owed("create", 201)
  BY <1>1, <1>3 DEF Owed
<1>5. \A action : Logged(action)' = Logged(action)
  BY <1>1 DEF Logged
<1>6. \A d \in Owed("create", 201) : answer'[d] = answer[d]
  BY <1>1, <1>3 DEF Owed
<1>7. Deleted' = Deleted \cup {id} /\ Created' = Created
  BY <1>1, <1>4, <1>5, <1>6 DEF Created, Deleted
<1>8. /\ Created = (firstID + BuiltInCount) .. (nextID - 1)
      /\ DOMAIN policies = (firstID .. nextID - 1) \ Deleted
      /\ firstID + BuiltInCount <= nextID /\ Deleted \subseteq firstID .. nextID - 1
  BY DEF LedgerInv, LedgerMatchesStore
<1>9. id \notin Deleted /\ id \in firstID .. nextID - 1
  BY <1>1, <1>8
<1>10. DOMAIN policies' = DOMAIN policies \ {id}
  BY DeleteDomain
<1>11. LedgerMatchesStore'
  BY <1>1, <1>7, <1>8, <1>10 DEF LedgerMatchesStore
<1>12. NoSecondEvent'
  <2>1. id \notin Logged("POLICY_DELETED")
    BY <1>9 DEF Deleted
  <2>2. \A d \in Owed("delete", 200) : op[d].id # id
    BY <1>9 DEF Deleted
  <2> QED
    BY <1>1, <1>4, <1>5, <1>6, <2>1, <2>2 DEF LedgerInv, NoSecondEvent
<1> QED
  BY <1>1, <1>7, <1>8, <1>9, <1>11, <1>12 DEF LedgerInv

\* The handler logs: what it owed is on the trail, and an access check or a
\* refusal owed nothing.
LEMMA AuditLedger ==
  ASSUME TypeOK, LedgerInv, NEW c \in Conns, Audit(c)
  PROVE  LedgerInv'
<1> DEFINE event == Events(op[c], answer[c])
<1>1. /\ pc[c] = "audit" /\ pc' = [pc EXCEPT ![c] = "idle"]
      /\ trail' = trail \o event
      /\ policies' = policies /\ nextID' = nextID /\ firstID' = firstID
      /\ op' = op /\ answer' = answer
  BY DEF Audit, Goto, store
<1>2. /\ pc \in [Conns -> PC] /\ op[c] \in Call /\ answer[c].id \in Id
      /\ trail \in Seq(Event) /\ nextID \in Nat /\ firstID \in Nat \ {0}
  BY DEF TypeOK, BasicType, AnswerType, OpType, TrailType, StoreType
<1>3. /\ Owed("create", 201)' = Owed("create", 201) \ {c}
      /\ Owed("delete", 200)' = Owed("delete", 200) \ {c}
  BY <1>1, <1>2 DEF Owed
<1>4. /\ Created = (firstID + BuiltInCount) .. (nextID - 1)
      /\ Deleted \subseteq firstID .. nextID - 1
  BY DEF LedgerInv, LedgerMatchesStore
<1>5. SUFFICES Created' = Created /\ Deleted' = Deleted /\ NoSecondEvent'
  BY <1>1 DEF LedgerInv, LedgerMatchesStore
<1>6. CASE OwesNothing(c)
  <2>1. \/ event = << >>
        \/ \E e \in Event : /\ event = <<e>> /\ e.id = NoId
                            /\ e.action \in {"ACCESS_GRANTED", "ACCESS_DENIED"}
    <3> DEFINE e == [action |-> IF answer[c].decision = Allow THEN "ACCESS_GRANTED"
                                                              ELSE "ACCESS_DENIED",
                     id |-> NoId]
    <3>1. /\ op[c].kind = "create" => answer[c].status # 201
          /\ op[c].kind = "delete" => answer[c].status # 200
      BY <1>1, <1>6 DEF OwesNothing, Owed
    <3>2. event = << >> \/ event = <<e>>
      BY <3>1 DEF Events
    <3>3. /\ e \in Event /\ e.id = NoId
          /\ e.action \in {"ACCESS_GRANTED", "ACCESS_DENIED"}
      BY DEF Event, NoId, Id
    <3> QED
      BY <3>2, <3>3
  <2>2. /\ Owed("create", 201)' = Owed("create", 201)
        /\ Owed("delete", 200)' = Owed("delete", 200)
    BY <1>3, <1>6 DEF OwesNothing
  <2>3. CASE event = << >>
    <3>1. trail' = trail
      BY <1>1, <1>2, <2>3
    <3>2. \A action : Logged(action)' = Logged(action)
      BY <3>1 DEF Logged
    <3> QED
      BY <1>1, <2>2, <3>1, <3>2 DEF Created, Deleted, LedgerInv, NoSecondEvent
  <2>4. ASSUME NEW e \in Event, event = <<e>>, e.id = NoId,
               e.action \in {"ACCESS_GRANTED", "ACCESS_DENIED"}
        PROVE  Created' = Created /\ Deleted' = Deleted /\ NoSecondEvent'
    <3>1. trail' = trail \o <<e>>
      BY <1>1, <2>4
    <3>2. /\ Logged("POLICY_CREATED")' = Logged("POLICY_CREATED")
          /\ Logged("POLICY_DELETED")' = Logged("POLICY_DELETED")
      BY <1>2, <2>4, <3>1, LoggedAppend
    <3>3. /\ Len(trail') = Len(trail) + 1 /\ Len(trail) \in Nat
          /\ trail'[Len(trail) + 1] = e
          /\ \A i \in 1 .. Len(trail) : trail'[i] = trail[i]
      BY <1>2, <3>1
    <3>4. \A i, j \in 1 .. Len(trail') :
            trail'[i].id # NoId /\ trail'[i] = trail'[j] => i = j
      BY <2>4, <3>3 DEF LedgerInv, NoSecondEvent
    <3> QED
      BY <1>1, <2>2, <3>2, <3>4 DEF Created, Deleted, LedgerInv, NoSecondEvent
  <2> QED
    BY <2>1, <2>3, <2>4
<1>7. CASE c \in Owed("create", 201)
  <2> DEFINE e == [action |-> "POLICY_CREATED", id |-> answer[c].id]
  <2>1. op[c].kind = "create" /\ answer[c].status = 201
    BY <1>7 DEF Owed
  <2>2. event = <<e>> /\ e \in Event
    BY <1>2, <2>1 DEF Events, Event
  <2>3. e.action = "POLICY_CREATED" /\ e.id = answer[c].id
    OBVIOUS
  <2> HIDE DEF e
  <2>4. trail' = trail \o <<e>>
    BY <1>1, <2>2
  <2>5. /\ Logged("POLICY_CREATED")' = Logged("POLICY_CREATED") \cup {answer[c].id}
        /\ Logged("POLICY_DELETED")' = Logged("POLICY_DELETED")
    BY <1>2, <2>2, <2>3, <2>4, LoggedAppend
  <2>6. c \notin Owed("delete", 200)
    BY <2>1 DEF Owed
  <2>7. Created' = Created /\ Deleted' = Deleted
    BY <1>1, <1>3, <1>7, <2>5, <2>6 DEF Created, Deleted
  <2>8. answer[c].id \notin Logged("POLICY_CREATED")
    BY <1>7 DEF LedgerInv, NoSecondEvent
  <2>9. \A i \in 1 .. Len(trail) : trail[i] # e
    BY <2>3, <2>8 DEF Logged
  <2>10. /\ Len(trail') = Len(trail) + 1 /\ Len(trail) \in Nat
         /\ trail'[Len(trail) + 1] = e
         /\ \A i \in 1 .. Len(trail) : trail'[i] = trail[i]
    BY <1>2, <2>2, <2>4
  <2>11. \A i, j \in 1 .. Len(trail') :
           trail'[i].id # NoId /\ trail'[i] = trail'[j] => i = j
    BY <2>9, <2>10 DEF LedgerInv, NoSecondEvent
  <2>12. \A d \in Owed("create", 201) \ {c} : answer[d].id # answer[c].id
    BY <1>7 DEF LedgerInv, NoSecondEvent
  <2>13. NoSecondEvent'
    BY <1>1, <1>3, <2>5, <2>11, <2>12 DEF LedgerInv, NoSecondEvent
  <2> QED
    BY <2>7, <2>13
<1>8. CASE c \in Owed("delete", 200)
  <2> DEFINE e == [action |-> "POLICY_DELETED", id |-> op[c].id]
  <2>1. op[c].kind = "delete" /\ answer[c].status = 200
    BY <1>8 DEF Owed
  <2>2. event = <<e>> /\ e \in Event
    <3>1. op[c].id \in Id
      BY <1>2, <2>1 DEF Call
    <3> QED
      BY <2>1, <3>1 DEF Events, Event
  <2>3. e.action = "POLICY_DELETED" /\ e.id = op[c].id
    OBVIOUS
  <2> HIDE DEF e
  <2>4. trail' = trail \o <<e>>
    BY <1>1, <2>2
  <2>5. /\ Logged("POLICY_DELETED")' = Logged("POLICY_DELETED") \cup {op[c].id}
        /\ Logged("POLICY_CREATED")' = Logged("POLICY_CREATED")
    BY <1>2, <2>2, <2>3, <2>4, LoggedAppend
  <2>6. c \notin Owed("create", 201)
    BY <2>1 DEF Owed
  <2>7. Created' = Created /\ Deleted' = Deleted
    BY <1>1, <1>3, <1>8, <2>5, <2>6 DEF Created, Deleted
  <2>8. op[c].id \notin Logged("POLICY_DELETED")
    BY <1>8 DEF LedgerInv, NoSecondEvent
  <2>9. \A i \in 1 .. Len(trail) : trail[i] # e
    BY <2>3, <2>8 DEF Logged
  <2>10. /\ Len(trail') = Len(trail) + 1 /\ Len(trail) \in Nat
         /\ trail'[Len(trail) + 1] = e
         /\ \A i \in 1 .. Len(trail) : trail'[i] = trail[i]
    BY <1>2, <2>2, <2>4
  <2>11. \A i, j \in 1 .. Len(trail') :
           trail'[i].id # NoId /\ trail'[i] = trail'[j] => i = j
    BY <2>9, <2>10 DEF LedgerInv, NoSecondEvent
  <2>12. \A d \in Owed("delete", 200) \ {c} : op[d].id # op[c].id
    BY <1>8 DEF LedgerInv, NoSecondEvent
  <2>13. NoSecondEvent'
    BY <1>1, <1>3, <2>5, <2>11, <2>12 DEF LedgerInv, NoSecondEvent
  <2> QED
    BY <2>7, <2>13
<1> QED
  BY <1>6, <1>7, <1>8 DEF OwesNothing

\* A ledger nothing was written in: the store has the built-in policies.
LEMMA EmptyLedger ==
  ASSUME nextID \in Nat, firstID \in Nat, trail = << >>, \A c \in Conns : pc[c] = "idle",
         nextID = firstID + BuiltInCount, policies = SeedDefaults(firstID)
  PROVE  LedgerInv
<1>1. Owed("create", 201) = {} /\ Owed("delete", 200) = {}
  BY DEF Owed
<1>2. 1 .. Len(trail) = {}
  OBVIOUS
<1>3. \A action : Logged(action) = {}
  BY <1>2 DEF Logged
<1>4. Created = {} /\ Deleted = {}
  BY <1>1, <1>3 DEF Created, Deleted
<1>5. DOMAIN policies = firstID .. firstID + BuiltInCount - 1
  BY SeedFacts
<1>6. BuiltInCount \in Nat
  BY DEF BuiltInCount
<1>7. LedgerMatchesStore
  BY <1>4, <1>5, <1>6 DEF LedgerMatchesStore
<1>8. NoSecondEvent
  BY <1>1, <1>2 DEF NoSecondEvent
<1> QED
  BY <1>4, <1>6, <1>7, <1>8 DEF LedgerInv

\* Every boot begins with an empty ledger.
LEMMA LedgerStarts == Init => LedgerInv
BY EmptyLedger DEF Init, BuiltInCount

\* The process starts anew, with ids of its own.
LEMMA RestartLedger ==
  ASSUME TypeOK, Restart
  PROVE  LedgerInv'
<1>1. /\ nextID' \in Nat /\ firstID' \in Nat /\ trail' = << >>
      /\ \A c \in Conns : pc'[c] = "idle"
      /\ nextID' = firstID' + BuiltInCount /\ policies' = SeedDefaults(firstID')
  BY DEF Restart, TypeOK, BasicType, StoreType, BuiltInCount
<1>2. /\ Owed("create", 201)' = {} /\ Owed("delete", 200)' = {}
  BY <1>1 DEF Owed
<1>3. 1 .. Len(trail') = {}
  BY <1>1
<1>4. \A action : Logged(action)' = {}
  BY <1>3 DEF Logged
<1>5. Created' = {} /\ Deleted' = {}
  BY <1>2, <1>4 DEF Created, Deleted
<1>6. DOMAIN policies' = firstID' .. firstID' + BuiltInCount - 1
  BY <1>1, SeedFacts
<1>7. /\ BuiltInCount \in Nat /\ firstID' + BuiltInCount <= nextID'
      /\ (firstID' + BuiltInCount) .. (nextID' - 1) = {}
  <2>1. nextID' = firstID' + 3 /\ firstID' \in Nat /\ nextID' \in Nat
    BY <1>1 DEF BuiltInCount
  <2>2. \A a, b \in Nat : b = a + 3 => a + 3 <= b /\ (a + 3) .. (b - 1) = {}
    OBVIOUS
  <2>3. firstID' + 3 <= nextID' /\ (firstID' + 3) .. (nextID' - 1) = {}
    BY <2>1, <2>2
  <2> QED
    BY <2>3 DEF BuiltInCount
<1>8. LedgerMatchesStore'
  <2>1. Created' = (firstID' + BuiltInCount) .. (nextID' - 1)
    BY <1>5, <1>7
  <2>2. DOMAIN policies' = (firstID' .. nextID' - 1) \ Deleted'
    BY <1>1, <1>5, <1>6, <1>7
  <2> QED
    BY <2>1, <2>2 DEF LedgerMatchesStore
<1>9. NoSecondEvent'
  BY <1>2, <1>3 DEF NoSecondEvent
<1>10. /\ firstID' + BuiltInCount <= nextID'
       /\ Deleted' \subseteq firstID' .. nextID' - 1
  BY <1>5, <1>7
<1> QED
  BY <1>8, <1>9, <1>10 DEF LedgerInv

\* No step spoils the ledger.
LEMMA LedgerStep == TypeOK /\ EngineInv /\ LedgerInv /\ [Next]_vars => LedgerInv'
<1> SUFFICES ASSUME TypeOK, EngineInv, LedgerInv, [Next]_vars PROVE LedgerInv'
  OBVIOUS
<1>0. BasicType /\ CallInv
  BY DEF TypeOK, EngineInv
<1>1. ASSUME NEW c \in Conns, Receive(c) \/ Handle(c)
      PROVE  LedgerInv'
  BY <1>0, <1>1, OtherSteps, BesideLedger, CreateLedger, DeleteLedger, AuditLedger
  DEF Handle, Write
<1>2. CASE Restart
  BY <1>2, RestartLedger
<1>3. CASE Quiet \/ UNCHANGED vars
  <2>1. /\ policies' = policies /\ nextID' = nextID /\ firstID' = firstID
        /\ pc' = pc /\ op' = op /\ answer' = answer /\ trail' = trail
    BY <1>3 DEF Quiet, vars, store
  <2>2. /\ Owed("create", 201)' = Owed("create", 201)
        /\ Owed("delete", 200)' = Owed("delete", 200)
    BY <2>1 DEF Owed
  <2>3. \A action : Logged(action)' = Logged(action)
    BY <2>1 DEF Logged
  <2>4. Created' = Created /\ Deleted' = Deleted
    BY <2>1, <2>2, <2>3 DEF Created, Deleted
  <2>5. LedgerMatchesStore' /\ Deleted' \subseteq firstID' .. nextID' - 1
    BY <2>1, <2>4 DEF LedgerInv, LedgerMatchesStore
  <2>6. NoSecondEvent'
    BY <2>1, <2>2, <2>3 DEF LedgerInv, NoSecondEvent
  <2> QED
    BY <2>1, <2>5, <2>6 DEF LedgerInv
<1> QED
  BY <1>1, <1>2, <1>3 DEF Next

\* CreatePolicy and DeletePolicy log after the lock is released: the trail and
\* the events still owed account for every policy of the store.
THEOREM LedgerAlwaysMatches == Spec => []LedgerMatchesStore
<1>1. LedgerInv => LedgerMatchesStore
  BY DEF LedgerInv
<1> QED
  BY <1>1, LedgerStarts, LedgerStep, EngineInvariant, PTL DEF Spec

\* Of concurrent deletions of one policy one succeeds, and no creation and no
\* deletion is logged twice.
THEOREM NothingLoggedTwice == Spec => []NoSecondEvent
<1>1. LedgerInv => NoSecondEvent
  BY DEF LedgerInv
<1> QED
  BY <1>1, LedgerStarts, LedgerStep, EngineInvariant, PTL DEF Spec

-----------------------------------------------------------------------------
(* The lock is given back.                                                 *)

\* Who waits at the lock waits for a writer, who waits at most for readers, and
\* these wait for nobody.
THEOREM NobodyWaitsInVain == Spec => []NobodyIsStuck
<1>1. TypeOK /\ EngineInv => NobodyIsStuck
  <2> SUFFICES ASSUME TypeOK, EngineInv,
                      NEW c \in Conns, pc[c] # "idle", ~CanStep(c)
               PROVE  \E d \in holder \cup readers : CanStep(d)
    BY DEF NobodyIsStuck
  <2>1. pc \in [Conns -> PC] /\ LockInv
    BY DEF TypeOK, BasicType, AnswerType, EngineInv
  <2>2. \A d \in readers : CanStep(d)
    BY <2>1 DEF LockInv, CanStep, Inside
  <2>3. \A d \in holder : CanStep(d) \/ readers # {}
    BY <2>1 DEF LockInv, CanStep, Inside
  <2>4. holder # {} \/ readers # {}
    BY <2>1 DEF CanStep, Inside, PC
  <2> QED
    BY <2>2, <2>3, <2>4
<1> QED
  BY <1>1, EngineInvariant, PTL

\* The loops range over finitely many policies.
LEMMA LoopsAreFinite ==
  ASSUME TypeOK, LoopInv, NEW c \in Conns, pc[c] \in {"visit", "check"}
  PROVE  /\ IsFiniteSet(todo[c]) /\ Cardinality(todo[c]) \in Nat
         /\ IsFiniteSet(DOMAIN seen[c]) /\ Cardinality(DOMAIN seen[c]) \in Nat
<1>1. IsFiniteSet(DOMAIN policies)
  <2>1. firstID \in Int /\ nextID - 1 \in Int
    BY DEF TypeOK, BasicType, StoreType
  <2>2. IsFiniteSet(firstID .. nextID - 1)
    BY <2>1, FS_Interval
  <2> QED
    BY <2>2, FS_Subset DEF TypeOK
<1>2. DOMAIN seen[c] \subseteq DOMAIN policies
  BY DEF LoopInv, LoopAt, Matching
<1>3. todo[c] \subseteq DOMAIN policies
  BY <1>2 DEF LoopInv, LoopAt
<1> QED
  BY <1>1, <1>2, <1>3, FS_Subset, FS_CardinalityType

\* A step of one goroutine leaves the place of another as it is.
LEMMA OthersStandStill ==
  ASSUME TypeOK, NEW c \in Conns, NEW d \in Conns, c # d, Receive(d) \/ Handle(d)
  PROVE  UNCHANGED <<pc[c], todo[c], seen[c]>>
<1>1. /\ pc \in [Conns -> PC] /\ todo \in [Conns -> SUBSET Nat]
      /\ DOMAIN seen = Conns
  BY DEF TypeOK, BasicType, AnswerType, LoopType
<1> USE <1>1 DEF Goto, Return, loop
<1>2. CASE Receive(d) \/ Refuse(d) \/ Audit(d)
  BY <1>2 DEF Receive, Refuse, Audit
<1>3. CASE Read(d)
  <2>1. CASE RLock(d) \/ Visit(d) \/ BeginChecks(d)
    BY <2>1 DEF RLock, Visit, BeginChecks
  <2>2. CASE NothingMatches(d) \/ AllPassed(d) \/ ReturnList(d) \/ ReturnOne(d)
    BY <2>2 DEF NothingMatches, AllPassed, ReturnList, ReturnOne
  <2>3. CASE CheckOne(d)
    BY <2>3 DEF CheckOne
  <2> QED
    BY <1>3, <2>1, <2>2, <2>3 DEF Read
<1>4. CASE Write(d)
  BY <1>4
  DEF Write, AnnounceLock, AcquireLock, Lookup, ApplyCreate, ApplyUpdate, ApplyDelete
<1> QED
  BY <1>2, <1>3, <1>4 DEF Handle

\* Its own step brings the holder of the lock nearer to giving it back.
LEMMA TurnsRunOut ==
  ASSUME TypeOK, EngineInv, NEW c \in readers \cup holder, Receive(c) \/ Handle(c)
  PROVE  \/ c \notin (readers \cup holder)'
         \/ TurnsLeft(c)' \in 1 .. TurnsLeft(c) - 1
<1>1. /\ c \in Conns /\ pc \in [Conns -> PC] /\ todo \in [Conns -> SUBSET Nat]
      /\ DOMAIN seen = Conns
  BY DEF TypeOK, BasicType, LockType, AnswerType, LoopType
<1>2. pc[c] \in {"visit", "check", "wait", "lookup", "apply"}
  BY DEF EngineInv, LockInv
<1>3. pc[c] \in {"visit", "check"} => c \notin holder
  BY <1>1 DEF EngineInv, LockInv
<1>4. pc[c] \in {"wait", "lookup", "apply"} => c \notin readers
  BY <1>1 DEF EngineInv, LockInv
<1> USE <1>1 DEF Goto, lock
<1>5. ASSUME Visit(c) PROVE TurnsLeft(c)' \in 1 .. TurnsLeft(c) - 1
  <2>1. pc[c] = "visit" /\ pc'[c] = "visit"
    BY <1>5 DEF Visit
  <2>2. PICK id \in todo[c] :
          /\ todo'[c] = todo[c] \ {id}
          /\ seen'[c] = seen[c] \/ seen'[c] = Put(seen[c], id, policies[id])
    BY <1>5 DEF Visit
  <2> DEFINE m == Cardinality(todo[c])
             n == Cardinality(DOMAIN seen[c])
             m1 == Cardinality(todo'[c])
             n1 == Cardinality(DOMAIN seen'[c])
  <2>3. /\ IsFiniteSet(todo[c]) /\ m \in Nat
        /\ IsFiniteSet(DOMAIN seen[c]) /\ n \in Nat
    BY <2>1, LoopsAreFinite DEF EngineInv
  <2>4. m1 = m - 1
    <3>1. Cardinality(todo[c] \ {id}) = m - 1
      BY <2>3, FS_RemoveElement
    <3> QED
      BY <2>2, <3>1
  <2>5. m1 \in Nat
    <3>1. IsFiniteSet(todo[c] \ {id})
      BY <2>3, FS_RemoveElement
    <3>2. Cardinality(todo[c] \ {id}) \in Nat
      BY <3>1, FS_CardinalityType
    <3> QED
      BY <2>2, <3>2
  <2>6. DOMAIN seen'[c] = DOMAIN seen[c] \/ DOMAIN seen'[c] = DOMAIN seen[c] \cup {id}
    <3>1. DOMAIN Put(seen[c], id, policies[id]) = DOMAIN seen[c] \cup {id}
      BY PutDomain
    <3> QED
      BY <2>2, <3>1
  <2>7. n1 = n \/ n1 = n + 1
    <3>1. \/ Cardinality(DOMAIN seen[c] \cup {id}) = n
          \/ Cardinality(DOMAIN seen[c] \cup {id}) = n + 1
      BY <2>3, FS_AddElement
    <3> QED
      BY <2>6, <3>1
  <2>8. TurnsLeft(c) = 3 + 2 * m + n /\ TurnsLeft(c)' = 3 + 2 * m1 + n1
    BY <2>1 DEF TurnsLeft
  <2> HIDE DEF m, n, m1, n1
  <2> QED
    BY <2>3, <2>4, <2>5, <2>7, <2>8
<1>6. ASSUME BeginChecks(c) PROVE TurnsLeft(c)' \in 1 .. TurnsLeft(c) - 1
  <2>1. /\ pc[c] = "visit" /\ pc'[c] = "check"
        /\ todo'[c] = DOMAIN seen[c]
    BY <1>6 DEF BeginChecks
  <2> DEFINE m == Cardinality(todo[c])
             n == Cardinality(DOMAIN seen[c])
  <2>2. m \in Nat /\ n \in Nat
    BY <2>1, LoopsAreFinite DEF EngineInv
  <2>3. TurnsLeft(c) = 3 + 2 * m + n /\ TurnsLeft(c)' = 2 + n
    BY <2>1 DEF TurnsLeft
  <2> HIDE DEF m, n
  <2> QED
    BY <2>2, <2>3
<1>7. ASSUME CheckOne(c), pc'[c] = "check"
      PROVE  TurnsLeft(c)' \in 1 .. TurnsLeft(c) - 1
  <2>1. pc[c] = "check"
    BY <1>7 DEF CheckOne
  <2>2. PICK id \in todo[c] : todo'[c] = todo[c] \ {id}
    BY <1>7 DEF CheckOne, Return
  <2> DEFINE m == Cardinality(todo[c])
             m1 == Cardinality(todo'[c])
  <2>3. IsFiniteSet(todo[c]) /\ m \in Nat
    BY <2>1, LoopsAreFinite DEF EngineInv
  <2>4. m1 = m - 1
    <3>1. Cardinality(todo[c] \ {id}) = m - 1
      BY <2>3, FS_RemoveElement
    <3> QED
      BY <2>2, <3>1
  <2>5. m1 \in Nat
    <3>1. IsFiniteSet(todo[c] \ {id})
      BY <2>3, FS_RemoveElement
    <3>2. Cardinality(todo[c] \ {id}) \in Nat
      BY <3>1, FS_CardinalityType
    <3> QED
      BY <2>2, <3>2
  <2>6. TurnsLeft(c) = 2 + m /\ TurnsLeft(c)' = 2 + m1
    BY <1>7, <2>1 DEF TurnsLeft
  <2> HIDE DEF m, m1
  <2> QED
    BY <2>3, <2>4, <2>5, <2>6
<1>8. ASSUME CheckOne(c), pc'[c] # "check" PROVE c \notin (readers \cup holder)'
  BY <1>3, <1>8 DEF CheckOne, RUnlock
<1>9. ASSUME NothingMatches(c) \/ AllPassed(c) \/ ReturnList(c) \/ ReturnOne(c)
      PROVE  c \notin (readers \cup holder)'
  BY <1>3, <1>9 DEF NothingMatches, AllPassed, ReturnList, ReturnOne, RUnlock
<1>10. ASSUME AcquireLock(c) PROVE TurnsLeft(c)' \in 1 .. TurnsLeft(c) - 1
  <2>1. pc[c] = "wait" /\ pc'[c] \in {"lookup", "apply"}
    BY <1>10 DEF AcquireLock
  <2> QED
    BY <2>1 DEF TurnsLeft
<1>11. ASSUME Lookup(c), pc'[c] = "apply"
       PROVE  TurnsLeft(c)' \in 1 .. TurnsLeft(c) - 1
  <2>1. pc[c] = "lookup"
    BY <1>11 DEF Lookup
  <2> QED
    BY <1>11, <2>1 DEF TurnsLeft
<1>12. ASSUME Lookup(c), pc'[c] # "apply" PROVE c \notin (readers \cup holder)'
  BY <1>4, <1>12 DEF Lookup, Unlock
<1>13. ASSUME ApplyCreate(c) \/ ApplyUpdate(c) \/ ApplyDelete(c)
       PROVE  c \notin (readers \cup holder)'
  BY <1>4, <1>13 DEF ApplyCreate, ApplyUpdate, ApplyDelete, Unlock
<1>14. ~(Receive(c) \/ Refuse(c) \/ RLock(c) \/ AnnounceLock(c) \/ Audit(c))
  BY <1>2 DEF Receive, Refuse, RLock, AnnounceLock, Audit
<1> QED
  BY <1>5, <1>6, <1>7, <1>8, <1>9, <1>10, <1>11, <1>12, <1>13, <1>14
  DEF Handle, Read, Write

\* Engine.mu is held for a bounded number of its holder's own steps, whatever
\* the number of policies and whoever else is there.
THEOREM LockAlwaysReturns == Spec => LockIsGivenBack
<1> DEFINE Nearer(c) == \/ c \notin (readers \cup holder)'
                        \/ UNCHANGED <<pc[c], todo[c], seen[c]>>
                        \/ TurnsLeft(c)' \in 1 .. TurnsLeft(c) - 1
<1>1. TypeOK /\ EngineInv /\ [Next]_vars => \A c \in readers \cup holder : Nearer(c)
  <2> SUFFICES ASSUME TypeOK, EngineInv, [Next]_vars, NEW c \in readers \cup holder
               PROVE  Nearer(c)
    OBVIOUS
  <2>1. c \in Conns
    BY DEF TypeOK, BasicType, LockType
  <2>2. ASSUME NEW d \in Conns, Receive(d) \/ Handle(d) PROVE Nearer(c)
    <3>1. CASE d = c
      BY <2>2, <3>1, TurnsRunOut
    <3>2. CASE d # c
      BY <2>1, <2>2, <3>2, OthersStandStill
    <3> QED
      BY <3>1, <3>2
  <2>3. ASSUME Restart PROVE Nearer(c)
    BY <2>3 DEF Restart
  <2>4. CASE Quiet \/ UNCHANGED vars
    BY <2>4 DEF Quiet, vars, loop
  <2> QED
    BY <2>2, <2>3, <2>4 DEF Next
<1>2. (\A c \in readers \cup holder : Nearer(c))
        => [\A c \in readers \cup holder : Nearer(c)]_vars
  OBVIOUS
<1> QED
  BY <1>1, <1>2, EngineInvariant, PTL DEF Spec, LockIsGivenBack
=============================================================================
