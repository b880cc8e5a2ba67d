---------------------------- MODULE MemoryLogger ----------------------------
(***************************************************************************)
(* internal/audit/logger.go: many goroutines call MemoryLogger.Log.  The   *)
(* id and the timestamp are taken before the lock, the event is appended   *)
(* under it, so another call may pass between the two.                     *)
(***************************************************************************)
EXTENDS AuditPaging

CONSTANTS Writers,    \* goroutines that log
          MaxEvents   \* bound: calls of Log in a behaviour

ASSUME EventsAssumption == MaxEvents \in Nat

VARIABLES events,  \* MemoryLogger.events
          lastId,  \* the last UUID drawn
          now,     \* the wall clock: it stands or advances, never steps back
          pc,      \* "idle" or "stamped", for each writer
          draft,   \* the event a stamped writer is about to append
          known,   \* history: how many events there were when its call began
          since    \* history: for each event on the trail, that number

logVars == <<events, lastId, now, pc, draft, known, since>>

Event   == [id : Nat, time : Nat]
NoEvent == [id |-> 0, time |-> 0]

LogInit ==
  /\ events = << >>
  /\ lastId = 0
  /\ now = 1
  /\ pc = [w \in Writers |-> "idle"]
  /\ draft = [w \in Writers |-> NoEvent]
  /\ known = [w \in Writers |-> 0]
  /\ since = << >>

\* Fault: the caller passes the event it logged before, which is stamped.
StampOnce(w) ==
  /\ pc[w] = "idle"
  /\ lastId < MaxEvents
  /\ lastId' = lastId + 1
  /\ now' \in {now, now + 1}
  /\ draft' = [draft EXCEPT ![w] =
       [id |-> lastId', time |-> IF @.time = 0 THEN now' ELSE @.time]]
  /\ known' = [known EXCEPT ![w] = Len(events)]
  /\ pc' = [pc EXCEPT ![w] = "stamped"]
  /\ UNCHANGED <<events, since>>

\* Log, up to the lock: uuid.New and time.Now.
Stamp(w) ==
  /\ pc[w] = "idle"
  /\ lastId < MaxEvents
  /\ lastId' = lastId + 1
  /\ now' \in {now, now + 1}
  /\ draft' = [draft EXCEPT ![w] = [id |-> lastId', time |-> now']]
  /\ known' = [known EXCEPT ![w] = Len(events)]
  /\ pc' = [pc EXCEPT ![w] = "stamped"]
  /\ UNCHANGED <<events, since>>

\* Fault: without the lock append works on the slice read when the call began.
AppendToOldSlice(w) ==
  /\ pc[w] = "stamped"
  /\ events' = Append(SubSeq(events, 1, known[w]), draft[w])
  /\ since' = Append(SubSeq(since, 1, known[w]), known[w])
  /\ pc' = [pc EXCEPT ![w] = "idle"]
  /\ UNCHANGED <<lastId, now, draft, known>>

\* Log, under the lock.
AppendEvent(w) ==
  /\ pc[w] = "stamped"
  /\ events' = Append(events, draft[w])
  /\ since' = Append(since, known[w])
  /\ pc' = [pc EXCEPT ![w] = "idle"]
  /\ UNCHANGED <<lastId, now, draft, known>>

LogStep == \E w \in Writers : Stamp(w) \/ AppendEvent(w)

LogSpec == LogInit /\ [][LogStep]_logVars

-----------------------------------------------------------------------------
\* Every variable ranges over the values the code can give it.
LogTypeOK ==
  /\ events \in Seq(Event)
  /\ lastId \in 0 .. MaxEvents
  /\ now \in Nat
  /\ pc \in [Writers -> {"idle", "stamped"}]
  /\ draft \in [Writers -> Event]
  /\ known \in [Writers -> Nat]
  /\ since \in Seq(Nat)

Stamped  == {w \in Writers : pc[w] = "stamped"}
OnTrail  == {events[i].id : i \in 1 .. Len(events)}
InFlight == {draft[w].id : w \in Stamped}

\* Concurrent calls of Log lose no event and store none twice: every UUID
\* drawn so far is once on the trail or in the hands of one writer.
NoEventLost ==
  /\ OnTrail \cup InFlight = 1 .. lastId
  /\ OnTrail \cap InFlight = {}
  /\ \A i, j \in 1 .. Len(events) : events[i].id = events[j].id => i = j
  /\ \A v, w \in Stamped : draft[v].id = draft[w].id => v = w

\* The timestamp is taken before the lock, so the trail may disagree with the
\* clock, but only for calls that overlapped: when an event stands behind a
\* later-stamped one, its call began before that one was on the trail.
DisorderIsOverlap ==
  \A i, j \in 1 .. Len(events) :
    i < j /\ events[i].time > events[j].time => since[j] < i

\* What a stamped writer holds: every event that was there when its call began
\* is still there and is not later than the one it is about to append.
OrderInv ==
  /\ Len(since) = Len(events)
  /\ \A i \in 1 .. Len(events) : events[i].time <= now
  /\ \A w \in Stamped : /\ draft[w].time <= now
                        /\ known[w] <= Len(events)
                        /\ \A i \in 1 .. known[w] : events[i].time <= draft[w].time
  /\ \A j \in 1 .. Len(events) :
       /\ since[j] < j
       /\ \A i \in 1 .. since[j] : events[i].time <= events[j].time
=============================================================================
