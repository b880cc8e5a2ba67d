-------------------------- MODULE MemoryLoggerProofs --------------------------
(***************************************************************************)
(* For any number of goroutines and events: MemoryLogger loses no event,   *)
(* stores none twice, and its order disagrees with the timestamps only for *)
(* calls that overlapped.                                                  *)
(***************************************************************************)
EXTENDS MemoryLogger, FiniteSetTheorems, TLAPS

LogInv == LogTypeOK /\ NoEventLost /\ OrderInv

\* The empty trail.
LEMMA LogInitInv == ASSUME LogInit PROVE LogInv
<1>1. LogTypeOK
  BY EventsAssumption DEF LogInit, LogTypeOK, Event, NoEvent
<1>2. NoEventLost
  BY DEF LogInit, NoEventLost, OnTrail, InFlight, Stamped
<1>3. OrderInv
  BY DEF LogInit, OrderInv, Stamped
<1> QED BY <1>1, <1>2, <1>3 DEF LogInv

\* Appending one element to a sequence.
LEMMA Appended ==
  ASSUME NEW S, NEW s \in Seq(S), NEW e \in S
  PROVE  /\ Append(s, e) \in Seq(S)
         /\ Len(Append(s, e)) = Len(s) + 1
         /\ Append(s, e)[Len(s) + 1] = e
         /\ \A i \in 1 .. Len(s) : Append(s, e)[i] = s[i]
OBVIOUS

\* What is on the trail has an id and a time.
LEMMA EventsTyped ==
  ASSUME LogTypeOK
  PROVE  \A i \in 1 .. Len(events) :
           /\ events[i] \in Event
           /\ events[i].id \in Nat
           /\ events[i].time \in Nat
<1>1. \A i \in 1 .. Len(events) : events[i] \in Event
  BY DEF LogTypeOK
<1>2. \A e \in Event : e.id \in Nat /\ e.time \in Nat
  BY DEF Event
<1> QED BY <1>1, <1>2

\* Before the lock: a writer draws its id and timestamp.
LEMMA StampInv ==
  ASSUME LogInv, NEW w \in Writers, Stamp(w)
  PROVE  LogInv'
<1> USE DEF LogInv, LogTypeOK, Stamp
<1> DEFINE e == [id |-> lastId + 1, time |-> now']
<1>1. /\ UNCHANGED <<events, since>>
      /\ lastId' = lastId + 1 /\ lastId' \in 0 .. MaxEvents
      /\ now' \in Nat /\ now <= now'
  BY EventsAssumption
<1>2. /\ e \in Event
      /\ draft' = [draft EXCEPT ![w] = e] /\ draft' \in [Writers -> Event]
      /\ draft'[w] = e
      /\ \A v \in Writers \ {w} : draft'[v] = draft[v]
  BY <1>1 DEF Event
<1>3. /\ pc' \in [Writers -> {"idle", "stamped"}]
      /\ known' \in [Writers -> Nat]
      /\ known'[w] = Len(events)
      /\ \A v \in Writers \ {w} : known'[v] = known[v]
  OBVIOUS
<1>4. Stamped' = Stamped \cup {w} /\ w \notin Stamped
  BY DEF Stamped
<1>5. LogTypeOK'
  BY <1>1, <1>2, <1>3
<1>6. NoEventLost'
  <2>1. OnTrail' = OnTrail
    BY <1>1 DEF OnTrail
  <2>2. InFlight' = InFlight \cup {lastId + 1}
    BY <1>2, <1>4 DEF InFlight, Stamped
  <2>3. 1 .. lastId' = (1 .. lastId) \cup {lastId + 1} /\ lastId + 1 \notin 1 .. lastId
    BY <1>1
  <2>4. \A v \in Stamped : draft[v].id \in 1 .. lastId
    BY DEF NoEventLost, InFlight
  <2>5. /\ OnTrail' \cup InFlight' = 1 .. lastId'
        /\ OnTrail' \cap InFlight' = {}
    BY <2>1, <2>2, <2>3 DEF NoEventLost
  <2>6. \A u, v \in Stamped' : draft'[u].id = draft'[v].id => u = v
    BY <1>2, <1>4, <2>3, <2>4 DEF NoEventLost, Stamped
  <2>7. \A i, j \in 1 .. Len(events') : events'[i].id = events'[j].id => i = j
    BY <1>1 DEF NoEventLost
  <2> QED BY <2>5, <2>6, <2>7 DEF NoEventLost
<1>7. OrderInv'
  <2>0. \A i \in 1 .. Len(events) : events[i].time \in Nat
    BY EventsTyped
  <2>1. \A i \in 1 .. Len(events) : events[i].time <= now'
    BY <1>1, <2>0 DEF OrderInv
  <2>2. ASSUME NEW v \in Stamped'
        PROVE /\ draft'[v].time <= now'
              /\ known'[v] <= Len(events)
              /\ \A i \in 1 .. known'[v] : events[i].time <= draft'[v].time
    <3>1. CASE v = w
      BY <3>1, <1>1, <1>2, <1>3, <2>1
    <3>2. CASE v # w
      <4>1. v \in Stamped /\ draft'[v] = draft[v] /\ known'[v] = known[v]
        BY <3>2, <1>2, <1>3, <1>4 DEF Stamped
      <4>2. draft[v].time \in Nat
        BY <4>1 DEF Stamped, Event
      <4> QED BY <4>1, <4>2, <1>1 DEF OrderInv
    <3> QED BY <3>1, <3>2
  <2> QED BY <1>1, <2>1, <2>2 DEF OrderInv
<1> QED BY <1>5, <1>6, <1>7

\* Under the lock: the event goes to the end of the trail.
LEMMA AppendInv ==
  ASSUME LogInv, NEW w \in Writers, AppendEvent(w)
  PROVE  LogInv'
<1> USE DEF LogInv, LogTypeOK, AppendEvent
<1> DEFINE n == Len(events) + 1
<1>1. UNCHANGED <<lastId, now, draft, known>>
  OBVIOUS
<1>2. /\ events' \in Seq(Event) /\ Len(events') = n /\ events'[n] = draft[w]
      /\ \A i \in 1 .. Len(events) : events'[i] = events[i]
  <2>1. draft[w] \in Event /\ events' = Append(events, draft[w])
    OBVIOUS
  <2> QED BY <2>1, Appended
<1>3. /\ since' \in Seq(Nat) /\ Len(since') = n /\ since'[n] = known[w]
      /\ \A i \in 1 .. Len(events) : since'[i] = since[i]
  <2>1. known[w] \in Nat /\ since' = Append(since, known[w]) /\ Len(since) = Len(events)
    BY DEF OrderInv
  <2> QED BY <2>1, Appended
<1>4. Stamped' = Stamped \ {w} /\ w \in Stamped
  BY DEF Stamped
<1>5. Len(events) \in Nat /\ 1 .. n = (1 .. Len(events)) \cup {n} /\ n \notin 1 .. Len(events)
  OBVIOUS
<1>6. LogTypeOK'
  BY <1>1, <1>2, <1>3
<1>7. NoEventLost'
  <2>1. OnTrail' = OnTrail \cup {draft[w].id}
    BY <1>2, <1>5 DEF OnTrail
  <2>2. InFlight' = InFlight \ {draft[w].id} /\ draft[w].id \in InFlight
    BY <1>1, <1>4 DEF InFlight, NoEventLost
  <2>3. draft[w].id \notin OnTrail
    BY <2>2 DEF NoEventLost
  <2>4. \A i \in 1 .. Len(events) : events[i].id # draft[w].id
    BY <2>3 DEF OnTrail
  <2>5. \A i, j \in 1 .. Len(events') : events'[i].id = events'[j].id => i = j
    BY <1>2, <1>5, <2>4 DEF NoEventLost
  <2>6. \A u, v \in Stamped' : draft'[u].id = draft'[v].id => u = v
    BY <1>1, <1>4 DEF NoEventLost
  <2>7. /\ OnTrail' \cup InFlight' = 1 .. lastId'
        /\ OnTrail' \cap InFlight' = {}
    BY <1>1, <2>1, <2>2 DEF NoEventLost
  <2> QED BY <2>5, <2>6, <2>7 DEF NoEventLost
<1>8. OrderInv'
  <2>1. /\ draft[w].time <= now /\ known[w] <= Len(events) /\ known[w] \in Nat
        /\ \A i \in 1 .. known[w] : events[i].time <= draft[w].time
    BY <1>4 DEF OrderInv
  <2>2. \A i \in 1 .. n : events'[i].time <= now
    BY <1>2, <1>5, <2>1 DEF OrderInv
  <2>3. ASSUME NEW v \in Stamped'
        PROVE /\ draft[v].time <= now
              /\ known[v] <= n
              /\ \A i \in 1 .. known[v] : events'[i].time <= draft[v].time
    <3>1. v \in Stamped /\ known[v] <= Len(events) /\ known[v] \in Nat
      BY <1>4 DEF OrderInv, Stamped
    <3> QED BY <3>1, <1>2 DEF OrderInv
  <2>4. ASSUME NEW j \in 1 .. n
        PROVE /\ since'[j] < j
              /\ \A i \in 1 .. since'[j] : events'[i].time <= events'[j].time
    <3>1. CASE j = n
      BY <3>1, <2>1, <1>2, <1>3
    <3>2. CASE j \in 1 .. Len(events)
      <4>1. since'[j] = since[j] /\ events'[j] = events[j] /\ since[j] \in Nat /\ since[j] < j
        BY <3>2, <1>2, <1>3 DEF OrderInv
      <4> QED BY <4>1, <3>2, <1>2 DEF OrderInv
    <3> QED BY <3>1, <3>2, <1>5
  <2> QED BY <1>1, <1>2, <1>3, <2>2, <2>3, <2>4 DEF OrderInv
<1> QED BY <1>6, <1>7, <1>8

\* Every step of any goroutine keeps the invariant.
LEMMA LogStepInv == ASSUME LogInv, [LogStep]_logVars PROVE LogInv'
<1>1. CASE LogStep
  BY <1>1, StampInv, AppendInv DEF LogStep
<1>2. CASE UNCHANGED logVars
  <2>1. UNCHANGED <<events, lastId, now, pc, draft, known, since>>
    BY <1>2 DEF logVars
  <2>2. UNCHANGED <<Stamped, OnTrail, InFlight>>
    BY <2>1 DEF Stamped, OnTrail, InFlight
  <2>3. LogTypeOK'
    BY <2>1 DEF LogInv, LogTypeOK
  <2>4. NoEventLost'
    BY <2>1, <2>2 DEF LogInv, NoEventLost
  <2>5. OrderInv'
    BY <2>1, <2>2 DEF LogInv, OrderInv
  <2> QED BY <2>3, <2>4, <2>5 DEF LogInv
<1> QED BY <1>1, <1>2

\* The UUIDs on the trail differ, so there are no more events than UUIDs.
LEMMA TrailBounded == ASSUME LogInv PROVE Len(events) <= MaxEvents
<1> DEFINE S == 1 .. Len(events)
           T == 1 .. lastId
           f == [i \in S |-> events[i].id]
<1>1. Len(events) \in Nat /\ lastId \in Nat /\ lastId <= MaxEvents
  BY EventsAssumption DEF LogInv, LogTypeOK
<1>2. f \in [S -> T]
  <2>1. \A i \in S : events[i].id \in OnTrail
    BY DEF OnTrail
  <2>2. OnTrail \subseteq T
    BY DEF LogInv, NoEventLost
  <2>3. \A i \in S : events[i].id \in T
    BY <2>1, <2>2
  <2> HIDE DEF T
  <2> QED BY <2>3
<1>3. \A i, j \in S : f[i] = f[j] => i = j
  BY DEF LogInv, NoEventLost
<1>4. /\ IsFiniteSet(S) /\ IsFiniteSet(T)
      /\ Cardinality(S) = Len(events) /\ Cardinality(T) = lastId
  <2>1. ASSUME NEW n \in Nat
        PROVE  IsFiniteSet(1 .. n) /\ Cardinality(1 .. n) = n
    <3>1. IsFiniteSet(1 .. n) /\ Cardinality(1 .. n) = IF 1 > n THEN 0 ELSE n - 1 + 1
      BY FS_Interval
    <3> QED BY <3>1
  <2> QED BY <2>1, <1>1
<1> HIDE DEF S, T, f
<1>5. ~(Cardinality(T) < Cardinality(S))
  BY <1>2, <1>3, <1>4, FS_PigeonHole
<1>6. ~(lastId < Len(events))
  BY <1>4, <1>5
<1>7. MaxEvents \in Nat
  BY EventsAssumption
<1> QED BY <1>1, <1>6, <1>7

\* What is on the trail stays where it is; new events come behind it.
LEMMA LogGrows ==
  ASSUME LogInv, [LogStep]_logVars
  PROVE  /\ Len(events) \in Nat /\ Len(events') \in Nat
         /\ Len(events) <= Len(events')
         /\ \A i \in 1 .. Len(events) : events'[i] = events[i]
<1>0. events \in Seq(Event) /\ draft \in [Writers -> Event]
  BY DEF LogInv, LogTypeOK
<1>1. CASE \E w \in Writers : AppendEvent(w)
  <2>1. PICK w \in Writers : events' = Append(events, draft[w])
    BY <1>1 DEF AppendEvent
  <2>2. draft[w] \in Event
    BY <1>0
  <2> QED BY <1>0, <2>1, <2>2, Appended
<1>2. CASE events' = events
  BY <1>0, <1>2
<1>3. (\E w \in Writers : AppendEvent(w)) \/ events' = events
  BY DEF LogStep, logVars, Stamp
<1> QED BY <1>1, <1>2, <1>3

\* The inductive invariant of MemoryLogger.Log.
THEOREM LoggerInvariant == LogSpec => []LogInv
<1>1. LogInit => LogInv
  BY LogInitInv
<1>2. LogInv /\ [LogStep]_logVars => LogInv'
  BY LogStepInv
<1> QED BY <1>1, <1>2, PTL DEF LogSpec

\* MemoryLogger.Log under any interleaving loses and doubles no event.
THEOREM NothingLost == LogSpec => []NoEventLost
<1>1. LogInv => NoEventLost
  BY DEF LogInv
<1> QED BY <1>1, LoggerInvariant, PTL

\* An event stands behind a later-stamped one only if their calls overlapped.
THEOREM OrderedUpToOverlap == LogSpec => []DisorderIsOverlap
<1>1. LogInv => DisorderIsOverlap
  <2> SUFFICES ASSUME LogInv,
                      NEW i \in 1 .. Len(events), NEW j \in 1 .. Len(events),
                      i < j, events[i].time > events[j].time
               PROVE  since[j] < i
    BY DEF DisorderIsOverlap
  <2>1. since[j] \in Nat /\ events[i].time \in Nat /\ events[j].time \in Nat
    BY EventsTyped DEF LogInv, LogTypeOK, OrderInv
  <2>2. ~(events[i].time <= events[j].time)
    BY <2>1
  <2>3. i \notin 1 .. since[j]
    BY <2>2 DEF LogInv, OrderInv
  <2> QED BY <2>1, <2>3
<1> QED BY <1>1, LoggerInvariant, PTL
=============================================================================
