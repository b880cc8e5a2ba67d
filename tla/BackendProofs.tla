---------------------------- MODULE BackendProofs ----------------------------
(***************************************************************************)
(* Proofs about Backend: the login limiter, the PostgreSQL audit trail,    *)
(* the two user stores and the one-time codes, for any sizes and bounds.   *)
(***************************************************************************)
EXTENDS Backend, TLAPS, FiniteSetTheorems

-----------------------------------------------------------------------------
(* The login limiter.                                                      *)

Admitted == {a \in Attempts : login[a] = "admitted"}

\* Redis counts at least the failures that are recent, and keeps the key as long
\* as the youngest of them is; an attempt is admitted below the limit only, and
\* each of the others can add one failure.
LimiterInv ==
  /\ LimiterTypeOK
  /\ Len(recent) <= count
  /\ \A k \in 1 .. Len(recent) : LockoutDuration - recent[k] <= ttl
  /\ Len(recent) + Cardinality(Admitted) <= MaxLoginAttempts - 1 + Cardinality(Attempts)

\* There are at most as many admitted attempts as attempts, in any state.
LEMMA AdmittedCount ==
  ASSUME NEW S \in SUBSET Attempts
  PROVE  /\ IsFiniteSet(S) /\ Cardinality(S) \in Nat /\ Cardinality(Attempts) \in Nat
         /\ Cardinality(S) <= Cardinality(Attempts)
<1>1. IsFiniteSet(Attempts)
  BY LimiterAssumption
<1>2. IsFiniteSet(S) /\ Cardinality(S) <= Cardinality(Attempts)
  BY <1>1, FS_Subset
<1>3. QED
  BY <1>1, <1>2, FS_CardinalityType

\* No key in Redis and no attempt.
LEMMA LimiterStarts == LimiterInit => LimiterInv
<1> SUFFICES ASSUME LimiterInit PROVE LimiterInv
  OBVIOUS
<1>1. LimiterTypeOK /\ recent = << >> /\ Len(recent) = 0
  <2>1. /\ recent = << >> /\ Len(recent) = 0 /\ recent \in Seq(0 .. LockoutDuration - 1)
    BY DEF LimiterInit
  <2>2. ttl \in 0 .. LockoutDuration /\ errors \in 0 .. MaxErrors
    BY LimiterAssumption DEF LimiterInit
  <2>3. expires \in BOOLEAN
    BY DEF LimiterInit
  <2>4. /\ count \in Nat /\ limiter \in {"redis", "nil"}
        /\ login \in [Attempts -> {"none", "admitted", "blind"}]
    BY DEF LimiterInit
  <2>5. QED
    BY <2>1, <2>2, <2>3, <2>4 DEF LimiterTypeOK
<1>2. Admitted = {}
  BY DEF LimiterInit, Admitted
<1>3. Cardinality(Admitted) = 0 /\ Cardinality(Attempts) \in Nat
  BY <1>2, FS_EmptySet, AdmittedCount
<1>4. QED
  BY <1>1, <1>3, LimiterAssumption DEF LimiterInv, LimiterTypeOK

\* An attempt that ends is no longer one that is admitted.
LEMMA AttemptEnds ==
  ASSUME LimiterTypeOK, NEW a \in Attempts, login[a] # "none", Is(a, "none")
  PROVE  /\ login' \in [Attempts -> {"none", "admitted", "blind"}]
         /\ login[a] = "admitted" => Cardinality(Admitted') = Cardinality(Admitted) - 1
         /\ login[a] # "admitted" => Cardinality(Admitted') = Cardinality(Admitted)
<1>1. /\ login \in [Attempts -> {"none", "admitted", "blind"}]
      /\ login' = [login EXCEPT ![a] = "none"]
  BY DEF LimiterTypeOK, Is
<1>2. Admitted' = Admitted \ {a}
  BY <1>1 DEF Admitted
<1>3. IsFiniteSet(Admitted) /\ (a \in Admitted <=> login[a] = "admitted")
  BY AdmittedCount DEF Admitted
<1>4. Cardinality(Admitted') =
        IF a \in Admitted THEN Cardinality(Admitted) - 1 ELSE Cardinality(Admitted)
  BY <1>2, <1>3, FS_RemoveElement
<1>5. QED
  BY <1>1, <1>3, <1>4

\* A failure is put in front of the recent ones.
LEMMA RecentGrows ==
  ASSUME LimiterTypeOK
  PROVE  /\ <<0>> \o recent \in Seq(0 .. LockoutDuration - 1)
         /\ Len(<<0>> \o recent) = Len(recent) + 1 /\ Len(recent) \in Nat
         /\ \A k \in 1 .. Len(recent) : recent[k] \in 0 .. LockoutDuration - 1
         /\ \A k \in 1 .. Len(<<0>> \o recent) :
              (<<0>> \o recent)[k] \in 0 .. LockoutDuration - 1
<1>1. 0 \in 0 .. LockoutDuration - 1 /\ recent \in Seq(0 .. LockoutDuration - 1)
  BY LimiterAssumption DEF LimiterTypeOK
<1>2. <<0>> \o recent \in Seq(0 .. LockoutDuration - 1)
  BY <1>1
<1>3. Len(<<0>> \o recent) = Len(recent) + 1 /\ Len(recent) \in Nat
  BY <1>1
<1> DEFINE Ages == 0 .. LockoutDuration - 1
           longer == <<0>> \o recent
<1>5. recent \in Seq(Ages) /\ longer \in Seq(Ages)
  BY <1>1, <1>2
<1> HIDE DEF longer, Ages
<1>6. /\ \A k \in 1 .. Len(recent) : recent[k] \in Ages
      /\ \A k \in 1 .. Len(longer) : longer[k] \in Ages
  BY <1>5
<1>7. QED
  BY <1>2, <1>3, <1>6 DEF longer, Ages

\* The age of a failure is less than a lockout lasts.
LEMMA RecordStep ==
  ASSUME LimiterInv, NEW a \in Attempts, RecordFailedLogin(a)
  PROVE  LimiterInv'
<1>0. /\ LimiterTypeOK /\ count \in Nat /\ Len(recent) \in Nat /\ LockoutDuration \in Nat
      /\ Cardinality(Admitted) \in Nat /\ Cardinality(Attempts) \in Nat
      /\ MaxLoginAttempts \in Nat
  BY RecentGrows, AdmittedCount, LimiterAssumption DEF LimiterInv, LimiterTypeOK, Admitted
<1>1. /\ count' = count + 1 /\ ttl' = LockoutDuration /\ expires' = TRUE
      /\ recent' = IF login[a] = "admitted" THEN <<0>> \o recent ELSE recent
      /\ UNCHANGED <<limiter, errors>> /\ login[a] # "none" /\ Is(a, "none")
  BY DEF RecordFailedLogin
<1>2. /\ login' \in [Attempts -> {"none", "admitted", "blind"}]
      /\ login[a] = "admitted" => Cardinality(Admitted') = Cardinality(Admitted) - 1
      /\ login[a] # "admitted" => Cardinality(Admitted') = Cardinality(Admitted)
  BY <1>0, <1>1, AttemptEnds
<1>3. /\ recent' \in Seq(0 .. LockoutDuration - 1)
      /\ Len(recent') = IF login[a] = "admitted" THEN Len(recent) + 1 ELSE Len(recent)
      /\ \A k \in 1 .. Len(recent') : recent'[k] \in 0 .. LockoutDuration - 1
  <2>1. CASE login[a] = "admitted"
    BY <1>0, <1>1, <2>1, RecentGrows
  <2>2. CASE login[a] # "admitted"
    BY <1>0, <1>1, <2>2, RecentGrows DEF LimiterTypeOK
  <2>3. QED
    BY <2>1, <2>2
<1>4. LimiterTypeOK'
  BY <1>0, <1>1, <1>2, <1>3 DEF LimiterTypeOK
<1>5. Len(recent') <= count'
  BY <1>0, <1>1, <1>3 DEF LimiterInv
<1>6. \A k \in 1 .. Len(recent') : LockoutDuration - recent'[k] <= ttl'
  BY <1>0, <1>1, <1>3
<1>7. Len(recent') + Cardinality(Admitted') <= MaxLoginAttempts - 1 + Cardinality(Attempts)
  BY <1>0, <1>2, <1>3 DEF LimiterInv
<1>8. QED
  BY <1>4, <1>5, <1>6, <1>7 DEF LimiterInv

\* A record that breaks may count, but nobody was told so.
LEMMA RecordBreaksStep ==
  ASSUME LimiterInv, NEW a \in Attempts, RecordBreaks(a)
  PROVE  LimiterInv'
<1>0. /\ LimiterTypeOK /\ count \in Nat /\ Len(recent) \in Nat /\ LockoutDuration \in Nat
      /\ ttl \in 0 .. LockoutDuration
      /\ Cardinality(Admitted) \in Nat /\ Cardinality(Attempts) \in Nat
      /\ MaxLoginAttempts \in Nat /\ MaxErrors \in Nat
      /\ \A k \in 1 .. Len(recent) : recent[k] \in 0 .. LockoutDuration - 1
  BY RecentGrows, AdmittedCount, LimiterAssumption DEF LimiterInv, LimiterTypeOK, Admitted
<1>1. /\ \/ UNCHANGED <<count, ttl>>
         \/ count' = count + 1 /\ ttl' \in {ttl, LockoutDuration}
      /\ errors < MaxErrors /\ errors' = errors + 1
      /\ UNCHANGED <<limiter, recent, expires>> /\ login[a] # "none" /\ Is(a, "none")
  BY DEF RecordBreaks, RedisFails
<1>2. /\ login' \in [Attempts -> {"none", "admitted", "blind"}]
      /\ Cardinality(Admitted') <= Cardinality(Admitted) /\ Cardinality(Admitted') \in Int
  BY <1>0, <1>1, AttemptEnds
<1>3. count' \in Nat /\ count' >= count /\ ttl' \in 0 .. LockoutDuration /\ ttl' >= ttl
  BY <1>0, <1>1
<1>4. LimiterTypeOK'
  BY <1>0, <1>1, <1>2, <1>3 DEF LimiterTypeOK
<1>5. Len(recent') <= count'
  BY <1>0, <1>1, <1>3 DEF LimiterInv
<1>6. \A k \in 1 .. Len(recent') : LockoutDuration - recent'[k] <= ttl'
  <2>1. recent' = recent /\ ttl \in Nat /\ ttl' \in Nat /\ ttl <= ttl'
    BY <1>0, <1>1, <1>3
  <2>2. \A k \in 1 .. Len(recent) : LockoutDuration - recent[k] <= ttl
    BY DEF LimiterInv
  <2>3. \A k \in 1 .. Len(recent) : LockoutDuration - recent[k] \in Int
    BY <1>0
  <2>4. QED
    BY <2>1, <2>2, <2>3
<1>7. Len(recent') + Cardinality(Admitted') <= MaxLoginAttempts - 1 + Cardinality(Attempts)
  BY <1>0, <1>1, <1>2 DEF LimiterInv
<1>8. QED
  BY <1>4, <1>5, <1>6, <1>7 DEF LimiterInv

\* Admission, and all that ends an attempt without a record of it.
LEMMA AdmissionStep ==
  ASSUME LimiterInv, NEW a \in Attempts, Admit(a) \/ AdmitBlindly(a) \/ LoginEnds(a)
  PROVE  LimiterInv'
<1>0. /\ LimiterTypeOK /\ count \in Nat /\ Len(recent) \in Nat
      /\ Cardinality(Admitted) \in Nat /\ Cardinality(Attempts) \in Nat
      /\ Cardinality(Admitted') \in Nat /\ Cardinality(Admitted') <= Cardinality(Attempts)
      /\ MaxLoginAttempts \in Nat
  BY RecentGrows, AdmittedCount, LimiterAssumption DEF LimiterInv, LimiterTypeOK, Admitted
<1>1. UNCHANGED <<count, ttl, expires, limiter, recent>>
  BY DEF Admit, AdmitBlindly, LoginEnds, redis
<1>2. errors' \in 0 .. MaxErrors
  <2>1. errors \in 0 .. MaxErrors /\ MaxErrors \in Nat
    BY LimiterAssumption DEF LimiterInv, LimiterTypeOK
  <2>2. errors' = errors \/ (errors < MaxErrors /\ errors' = errors + 1)
    BY DEF Admit, AdmitBlindly, LoginEnds, RedisFails
  <2>3. QED
    BY <2>1, <2>2
<1>3. login' \in [Attempts -> {"none", "admitted", "blind"}]
  <2>1. PICK state \in {"none", "admitted", "blind"} : Is(a, state)
    BY DEF Admit, AdmitBlindly, LoginEnds
  <2>2. QED
    BY <1>0, <2>1 DEF LimiterTypeOK, Is
<1>4. LimiterTypeOK'
  BY <1>0, <1>1, <1>2, <1>3 DEF LimiterTypeOK
<1>5. Len(recent') + Cardinality(Admitted') <= MaxLoginAttempts - 1 + Cardinality(Attempts)
  <2>1. CASE Admit(a)
    <3>1. count < MaxLoginAttempts /\ Len(recent) <= count
      BY <2>1 DEF Admit, LimiterInv
    <3>2. QED
      BY <1>0, <1>1, <3>1
  <2>2. CASE AdmitBlindly(a)
    <3>1. Admitted' = Admitted
      BY <1>0, <2>2 DEF AdmitBlindly, Is, Admitted, LimiterTypeOK
    <3>2. QED
      BY <1>0, <1>1, <3>1 DEF LimiterInv
  <2>3. CASE LoginEnds(a)
    <3>1. Cardinality(Admitted') <= Cardinality(Admitted)
      BY <1>0, <2>3, AttemptEnds DEF LoginEnds
    <3>2. QED
      BY <1>0, <1>1, <3>1 DEF LimiterInv
  <2>4. QED
    BY <2>1, <2>2, <2>3
<1>6. QED
  BY <1>1, <1>4, <1>5 DEF LimiterInv

\* A success, or another start, leaves no failure that counts, or no attempt.
LEMMA ResetStep ==
  ASSUME LimiterInv, NEW a \in Attempts, ResetFailedLogins(a)
  PROVE  LimiterInv'
<1>0. /\ LimiterTypeOK /\ Cardinality(Attempts) \in Nat
      /\ Cardinality(Admitted') \in Nat /\ Cardinality(Admitted') <= Cardinality(Attempts)
      /\ MaxLoginAttempts \in Nat \ {0} /\ LockoutDuration \in Nat \ {0}
  BY AdmittedCount, LimiterAssumption DEF LimiterInv, Admitted
<1>1. /\ count' = 0 /\ ttl' = 0 /\ expires' = FALSE /\ recent' = << >>
      /\ login[a] # "none" /\ Is(a, "none") /\ UNCHANGED <<limiter, errors>>
  BY DEF ResetFailedLogins
<1>2. login' \in [Attempts -> {"none", "admitted", "blind"}]
  BY <1>0, <1>1, AttemptEnds
<1>3. recent' \in Seq(0 .. LockoutDuration - 1) /\ Len(recent') = 0
  BY <1>1
<1>a. expires' \in BOOLEAN
  BY <1>1
<1>4. ttl' \in 0 .. LockoutDuration
  BY <1>0, <1>1
<1>5. LimiterTypeOK'
  BY <1>0, <1>1, <1>2, <1>3, <1>4, <1>a DEF LimiterTypeOK
<1>6. QED
  BY <1>0, <1>1, <1>3, <1>5 DEF LimiterInv

\* A restart forgets the attempts under way and keeps the key.
LEMMA RestartStep ==
  ASSUME LimiterInv, RestartLimiter
  PROVE  LimiterInv'
<1>0. /\ Len(recent) \in Nat /\ Cardinality(Attempts) \in Nat /\ Cardinality(Admitted) \in Nat
      /\ MaxLoginAttempts \in Nat
  BY RecentGrows, AdmittedCount, LimiterAssumption DEF LimiterInv, Admitted
<1>1. UNCHANGED <<count, ttl, expires, errors, recent>>
  BY DEF RestartLimiter, redis
<1>2. LimiterTypeOK'
  BY <1>1 DEF RestartLimiter, LimiterInv, LimiterTypeOK
<1>3. Admitted' = {}
  BY DEF RestartLimiter, Admitted
<1>4. Cardinality(Admitted') = 0
  BY <1>3, FS_EmptySet
<1>5. QED
  BY <1>0, <1>1, <1>2, <1>4 DEF LimiterInv

\* Redis drops the key only when the last of the recent failures is too old.
LEMMA TickStep ==
  ASSUME LimiterInv, Tick
  PROVE  LimiterInv'
<1>0. /\ LimiterTypeOK /\ count \in Nat /\ Len(recent) \in Nat
      /\ LockoutDuration \in Nat \ {0} /\ ttl \in 0 .. LockoutDuration
      /\ Cardinality(Admitted) \in Nat /\ Cardinality(Attempts) \in Nat
      /\ MaxLoginAttempts \in Nat
      /\ \A k \in 1 .. Len(recent) : recent[k] \in 0 .. LockoutDuration - 1
  BY RecentGrows, AdmittedCount, LimiterAssumption DEF LimiterInv, LimiterTypeOK, Admitted
<1>1. /\ ttl' = IF ttl > 0 THEN ttl - 1 ELSE 0
      /\ count' = IF ttl = 1 THEN 0 ELSE count
      /\ expires' = (ttl # 1 /\ expires)
      /\ UNCHANGED <<limiter, login, errors>>
  BY DEF Tick
<1>2. PICK n \in 0 .. Len(recent) :
        /\ \A k \in 1 .. Len(recent) : k <= n <=> recent[k] + 1 < LockoutDuration
        /\ recent' = [k \in 1 .. n |-> recent[k] + 1]
  BY DEF Tick
<1>3. \A k \in 1 .. n : recent[k] + 1 \in 0 .. LockoutDuration - 1
  BY <1>0, <1>2
<1>4. /\ recent' \in Seq(0 .. LockoutDuration - 1) /\ Len(recent') = n
      /\ \A k \in 1 .. n : recent'[k] = recent[k] + 1
  BY <1>0, <1>2, <1>3
<1>5. LimiterTypeOK'
  BY <1>0, <1>1, <1>4 DEF LimiterTypeOK
<1>6. \A k \in 1 .. n : LockoutDuration - recent[k] <= ttl
  BY <1>0, <1>2 DEF LimiterInv
<1>7. n # 0 => ttl > 1
  BY <1>0, <1>2, <1>3, <1>6
<1>8. Len(recent') <= count'
  BY <1>0, <1>1, <1>2, <1>4, <1>7 DEF LimiterInv
<1>9. ASSUME NEW k \in 1 .. Len(recent')
      PROVE  LockoutDuration - recent'[k] <= ttl'
  <2>1. /\ k \in 1 .. n /\ k \in 1 .. Len(recent) /\ n # 0
        /\ recent'[k] = recent[k] + 1
    BY <1>0, <1>2, <1>4, <1>9
  <2>2. /\ ttl' = ttl - 1 /\ LockoutDuration - recent[k] <= ttl /\ recent[k] \in Int
    BY <1>0, <1>1, <1>6, <1>7, <2>1
  <2>3. QED
    BY <1>0, <2>1, <2>2
<1>10. Admitted' = Admitted
  BY <1>1 DEF Admitted
<1>11. Len(recent') + Cardinality(Admitted') <= MaxLoginAttempts - 1 + Cardinality(Attempts)
  BY <1>0, <1>2, <1>4, <1>10 DEF LimiterInv
<1>12. QED
  BY <1>5, <1>8, <1>9, <1>11 DEF LimiterInv

\* LimiterInv is inductive.
LEMMA LimiterKept ==
  ASSUME LimiterInv, LimiterStep \/ UNCHANGED limiterVars
  PROVE  LimiterInv'
<1>1. CASE LimiterStep
  BY <1>1, AdmissionStep, RecordStep, RecordBreaksStep, ResetStep, TickStep, RestartStep
     DEF LimiterStep
<1>2. CASE UNCHANGED limiterVars
  BY <1>2 DEF LimiterInv, LimiterTypeOK, Admitted, limiterVars, redis
<1>3. QED
  BY <1>1, <1>2

-----------------------------------------------------------------------------
(* The one-time codes.                                                     *)

\* The counter of a time is its step, and an earlier one than of a later step.
LEMMA DivBounds ==
  ASSUME NEW t \in Nat
  PROVE  /\ CounterAt(t) \in Nat /\ CounterAt(t) <= t
         /\ TimeStep * CounterAt(t) <= t
         /\ t < TimeStep * CounterAt(t) + TimeStep
BY StepAssumption, Z3 DEF CounterAt

\* Steps and their multiples, in the order of their numbers.
LEMMA Product ==
  ASSUME NEW x \in Int, NEW y \in Int
  PROVE  /\ TimeStep \in Int /\ TimeStep * x \in Int
         /\ x <= y => TimeStep * x <= TimeStep * y
         /\ TimeStep * (y + 1) = TimeStep * y + TimeStep
         /\ TimeStep * (y + 2) = TimeStep * y + 2 * TimeStep
BY StepAssumption, Z3

\* Times that are a step apart at most have counters that are one apart at most,
\* and two steps make a difference of two at least.
LEMMA StepsApart ==
  ASSUME NEW s \in Nat, NEW t \in Nat
  PROVE  /\ s <= t + TimeStep => CounterAt(s) <= CounterAt(t) + 1
         /\ s >= t + 2 * TimeStep => CounterAt(s) >= CounterAt(t) + 2
         /\ s < TimeStep <=> CounterAt(s) = 0
<1> DEFINE p == CounterAt(s)
           q == CounterAt(t)
<1>1. /\ p \in Nat /\ TimeStep * p <= s /\ s < TimeStep * p + TimeStep
      /\ q \in Nat /\ TimeStep * q <= t /\ t < TimeStep * q + TimeStep
  BY DivBounds
<1> HIDE DEF p, q
<1>2. TimeStep \in Nat \ {0}
  BY StepAssumption
<1>3. ASSUME s <= t + TimeStep, q + 2 <= p
      PROVE  FALSE
  <2>1. TimeStep * (q + 2) <= TimeStep * p
    BY <1>1, <1>3, Product
  <2>2. /\ TimeStep * (q + 2) = TimeStep * q + 2 * TimeStep
        /\ TimeStep * q \in Int /\ TimeStep * p \in Int
    BY <1>1, Product
  <2>3. QED
    BY <1>1, <1>2, <1>3, <2>1, <2>2
<1>4. ASSUME s >= t + 2 * TimeStep, p <= q + 1
      PROVE  FALSE
  <2>1. TimeStep * p <= TimeStep * (q + 1)
    BY <1>1, <1>4, Product
  <2>2. /\ TimeStep * (q + 1) = TimeStep * q + TimeStep
        /\ TimeStep * q \in Int /\ TimeStep * p \in Int
    BY <1>1, Product
  <2>3. QED
    BY <1>1, <1>2, <1>4, <2>1, <2>2
<1>5. s < TimeStep <=> p = 0
  <2>1. ASSUME s < TimeStep, 1 <= p
        PROVE  FALSE
    <3>1. TimeStep * 1 <= TimeStep * p /\ TimeStep * p \in Int
      BY <1>1, <2>1, Product
    <3>2. TimeStep * 1 = TimeStep
      BY <1>2
    <3>3. QED
      BY <1>1, <1>2, <2>1, <3>1, <3>2
  <2>2. ASSUME p = 0
        PROVE  s < TimeStep
    <3>1. TimeStep * p = 0
      BY <1>2, <2>2
    <3>2. QED
      BY <1>1, <1>2, <3>1
  <2>3. QED
    BY <1>1, <2>1, <2>2
<1>6. QED
  BY <1>1, <1>3, <1>4, <1>5 DEF p, q

\* A code carries the counter of the device's time when it was read.
TOTPInv ==
  /\ TOTPTypeOK
  /\ code # NoCode => code.counter = CounterAt(code.at)
  /\ WindowIsKept

\* What VerifyTOTP accepts: the counters one apart, none below zero.
LEMMA GoVerdict ==
  ASSUME NEW c \in 0 .. LastSecond + MaxDrift, NEW at \in 0 .. LastSecond
  PROVE  GoAccepts(c, at) <=> c \in CounterAt(at) - 1 .. CounterAt(at) + 1
<1>1. /\ CounterAt(at) \in Nat /\ LastSecond \in Nat /\ MaxDrift \in Nat
      /\ MaxCounter \in Nat /\ LastSecond + MaxDrift < MaxCounter
  BY DivBounds, StepAssumption
<1> DEFINE q == CounterAt(at)
<1> HIDE DEF q
<1>2. GoAccepts(c, at) <=> \E delta \in -1 .. 1 : c = Unsigned(q + delta)
  BY DEF GoAccepts, q
<1>3. ASSUME NEW delta \in -1 .. 1
      PROVE  c = Unsigned(q + delta) <=> c = q + delta
  <2>1. CASE q + delta < 0
    <3>1. q + delta = -1
      BY <1>1, <2>1 DEF q
    <3>2. Unsigned(q + delta) = MaxCounter
      BY <1>1, <3>1 DEF Unsigned
    <3>3. QED
      BY <1>1, <3>1, <3>2
  <2>2. CASE ~(q + delta < 0)
    BY <2>2 DEF Unsigned
  <2>3. QED
    BY <2>1, <2>2
<1>4. (\E delta \in -1 .. 1 : c = q + delta) <=> c \in q - 1 .. q + 1
  <2>1. ASSUME NEW delta \in -1 .. 1, c = q + delta
        PROVE  c \in q - 1 .. q + 1
    BY <1>1, <2>1 DEF q
  <2>2. ASSUME c \in q - 1 .. q + 1
        PROVE  c - q \in -1 .. 1 /\ c = q + (c - q)
    BY <1>1, <2>2 DEF q
  <2>3. QED
    BY <2>1, <2>2
<1>5. QED
  BY <1>2, <1>3, <1>4 DEF q

\* No code has been typed.
LEMMA TOTPStarts == TOTPInit => TOTPInv
<1> SUFFICES ASSUME TOTPInit PROVE TOTPInv
  OBVIOUS
<1>1. deviceTime \in 0 .. LastSecond + MaxDrift /\ serverTime \in 0 .. LastSecond
  BY StepAssumption DEF TOTPInit
<1>2. code = NoCode /\ goSays = "none" /\ pySays = "none"
  BY DEF TOTPInit
<1>3. QED
  BY <1>1, <1>2 DEF TOTPInv, TOTPTypeOK, WindowIsKept

\* The code typed is that of the device's step.
LEMMA TypeCodeStep ==
  ASSUME TOTPInv, TypeCode
  PROVE  TOTPInv'
<1>1. /\ code' = [counter |-> CounterAt(deviceTime), at |-> deviceTime]
      /\ goSays' = "none" /\ pySays' = "none"
      /\ UNCHANGED <<serverTime, deviceTime>>
  BY DEF TypeCode
<1>2. /\ deviceTime \in 0 .. LastSecond + MaxDrift /\ LastSecond + MaxDrift \in Nat
      /\ deviceTime \in Nat
  BY StepAssumption DEF TOTPInv, TOTPTypeOK
<1>3. CounterAt(deviceTime) \in 0 .. LastSecond + MaxDrift
  BY <1>2, DivBounds
<1>4. /\ code' \in [counter : 0 .. LastSecond + MaxDrift, at : 0 .. LastSecond + MaxDrift]
      /\ code'.counter = CounterAt(code'.at)
  BY <1>1, <1>2, <1>3
<1>5. TOTPTypeOK'
  BY <1>1, <1>4 DEF TOTPInv, TOTPTypeOK
<1>6. QED
  BY <1>1, <1>4, <1>5 DEF TOTPInv, WindowIsKept

\* The verdicts on a code that was read `off' seconds ago, or ahead of time.
LEMMA VerifyCodeStep ==
  ASSUME TOTPInv, VerifyCode
  PROVE  TOTPInv'
<1>1. /\ code # NoCode
      /\ goSays' = IF GoAccepts(code.counter, serverTime) THEN "valid" ELSE "invalid"
      /\ pySays' = PyVerdict(code.counter, serverTime)
      /\ UNCHANGED <<serverTime, deviceTime, code>>
  BY DEF VerifyCode
<1>2. /\ serverTime \in 0 .. LastSecond /\ serverTime \in Nat
      /\ TimeStep \in Nat \ {0} /\ LastSecond \in Nat /\ MaxDrift \in Nat
  BY StepAssumption DEF TOTPInv, TOTPTypeOK
<1>3. PICK c \in 0 .. LastSecond + MaxDrift, at \in 0 .. LastSecond + MaxDrift :
        c = code.counter /\ at = code.at
  BY <1>1 DEF TOTPInv, TOTPTypeOK
<1>4. c \in Nat /\ at \in Nat /\ c = CounterAt(at)
  BY <1>1, <1>2, <1>3 DEF TOTPInv
<1> DEFINE q == CounterAt(serverTime)
<1>5. /\ q \in Nat
      /\ serverTime <= at + TimeStep => q <= c + 1
      /\ at <= serverTime + TimeStep => c <= q + 1
      /\ serverTime >= at + 2 * TimeStep => q >= c + 2
      /\ at >= serverTime + 2 * TimeStep => c >= q + 2
      /\ serverTime < TimeStep <=> q = 0
  BY <1>2, <1>4, DivBounds, StepsApart
<1>6. goSays' = IF c \in q - 1 .. q + 1 THEN "valid" ELSE "invalid"
  BY <1>1, <1>2, <1>3, GoVerdict
<1>7. pySays' = IF q - 1 < 0 THEN "raises"
                ELSE IF c \in q - 1 .. q + 1 THEN "valid" ELSE "invalid"
  BY <1>1, <1>3 DEF PyVerdict
<1> HIDE DEF q
<1>8. TOTPTypeOK'
  BY <1>1, <1>6, <1>7 DEF TOTPInv, TOTPTypeOK
<1>9. serverTime - at \in -TimeStep .. TimeStep => goSays' = "valid"
  BY <1>2, <1>4, <1>5, <1>6
<1>10. serverTime - at <= -2 * TimeStep \/ serverTime - at >= 2 * TimeStep
        => goSays' = "invalid"
  <2>1. CASE serverTime - at <= -2 * TimeStep
    <3>1. c >= q + 2
      BY <1>2, <1>4, <1>5, <2>1
    <3>2. QED
      BY <1>4, <1>5, <1>6, <3>1
  <2>2. CASE serverTime - at >= 2 * TimeStep
    <3>1. q >= c + 2
      BY <1>2, <1>4, <1>5, <2>2
    <3>2. QED
      BY <1>4, <1>5, <1>6, <3>1
  <2>3. QED
    BY <2>1, <2>2
<1>11. IF serverTime < TimeStep THEN pySays' = "raises" ELSE pySays' = goSays'
  BY <1>5, <1>6, <1>7
<1>12. WindowIsKept'
  BY <1>1, <1>3, <1>9, <1>10, <1>11 DEF WindowIsKept
<1>13. QED
  BY <1>1, <1>8, <1>12 DEF TOTPInv

\* The clocks go on, and the last verdict is forgotten.
LEMMA ClocksGoStep ==
  ASSUME TOTPInv, ClocksGo
  PROVE  TOTPInv'
<1>1. /\ serverTime' \in serverTime .. serverTime + 1 /\ serverTime' <= LastSecond
      /\ deviceTime' \in deviceTime .. deviceTime + 1
      /\ deviceTime' - serverTime' \in -MaxDrift .. MaxDrift
      /\ goSays' = "none" /\ pySays' = "none" /\ code' = code
  BY DEF ClocksGo
<1>2. /\ serverTime \in Nat /\ deviceTime \in Nat
      /\ LastSecond \in Nat /\ MaxDrift \in Nat
  BY StepAssumption DEF TOTPInv, TOTPTypeOK
<1>3. PICK s \in serverTime .. serverTime + 1, d \in deviceTime .. deviceTime + 1 :
        /\ serverTime' = s /\ deviceTime' = d
        /\ s <= LastSecond /\ d - s \in -MaxDrift .. MaxDrift
  BY <1>1
<1>4. s \in Nat /\ d \in Nat /\ d <= s + MaxDrift
  BY <1>2, <1>3
<1>5. serverTime' \in 0 .. LastSecond /\ deviceTime' \in 0 .. LastSecond + MaxDrift
  BY <1>2, <1>3, <1>4
<1>6. QED
  BY <1>1, <1>5 DEF TOTPInv, TOTPTypeOK, WindowIsKept

\* TOTPInv is inductive.
LEMMA TOTPKept ==
  ASSUME TOTPInv, TOTPStep \/ UNCHANGED totpVars
  PROVE  TOTPInv'
<1>1. CASE TOTPStep
  BY <1>1, TypeCodeStep, VerifyCodeStep, ClocksGoStep DEF TOTPStep
<1>2. CASE UNCHANGED totpVars
  BY <1>2 DEF TOTPInv, TOTPTypeOK, WindowIsKept, totpVars
<1>3. QED
  BY <1>1, <1>2

-----------------------------------------------------------------------------
(* The two user stores.                                                    *)

\* Until a call that only the maps take in full, each map holds exactly the
\* rows of the table, under their ids and under their names.
StoresInv ==
  /\ StoresTypeOK
  /\ ~clashed =>
       /\ alike
       /\ \A i \in DOMAIN byID : byID[i] \in Account /\ byID[i].id = i
       /\ \A n \in DOMAIN byUsername : byUsername[n] \in Account /\ byUsername[n].name = n
       /\ \A a \in Account :
            /\ a \in userTable <=> a.id \in DOMAIN byID /\ byID[a.id] = a
            /\ a \in userTable <=> a.name \in DOMAIN byUsername /\ byUsername[a.name] = a

\* The types of the maps by their entries.
LEMMA StoresTypes ==
  StoresTypeOK <=> /\ DOMAIN byID \subseteq Ids /\ \A i \in DOMAIN byID : byID[i] \in Account
                   /\ DOMAIN byUsername \subseteq Names
                   /\ \A n \in DOMAIN byUsername : byUsername[n] \in Account
                   /\ userTable \subseteq Account
                   /\ alike \in BOOLEAN /\ clashed \in BOOLEAN
BY DEF StoresTypeOK, Everybody

\* The same after a step.
LEMMA StoresTypesNext ==
  StoresTypeOK' <=> /\ DOMAIN byID' \subseteq Ids /\ \A i \in DOMAIN byID' : byID'[i] \in Account
                    /\ DOMAIN byUsername' \subseteq Names
                    /\ \A n \in DOMAIN byUsername' : byUsername'[n] \in Account
                    /\ userTable' \subseteq Account
                    /\ alike' \in BOOLEAN /\ clashed' \in BOOLEAN
BY DEF StoresTypeOK, Everybody

\* The id and the name of an account.
LEMMA AccountFields ==
  ASSUME NEW a \in Account
  PROVE  a.id \in Ids /\ a.name \in Names
BY DEF Account

\* Both stores are empty.
LEMMA StoresStart == StoresInit => StoresInv
<1> SUFFICES ASSUME StoresInit PROVE StoresInv
  OBVIOUS
<1>1. byID = << >> /\ byUsername = << >> /\ userTable = {}
  BY DEF StoresInit
<1>2. DOMAIN byID = {} /\ DOMAIN byUsername = {}
  BY <1>1
<1>3. alike = TRUE /\ clashed = FALSE
  BY DEF StoresInit
<1>4. StoresTypeOK
  BY <1>1, <1>2, <1>3, StoresTypes
<1>5. QED
  BY <1>1, <1>2, <1>3, <1>4 DEF StoresInv

\* Both refuse a name that is taken, or both take the account.
LEMMA CreateUserStep ==
  ASSUME StoresInv, NEW a \in Account, CreateUser(a)
  PROVE  StoresInv'
<1>0. /\ a.id \in Ids /\ a.name \in Names /\ a.id \notin DOMAIN byID
      /\ DOMAIN byID \subseteq Ids /\ \A i \in DOMAIN byID : byID[i] \in Account
      /\ DOMAIN byUsername \subseteq Names
      /\ \A n \in DOMAIN byUsername : byUsername[n] \in Account
      /\ userTable \subseteq Account
      /\ clashed \in BOOLEAN
  BY AccountFields, StoresTypes DEF StoresInv, CreateUser
<1> DEFINE taken  == a.name \in DOMAIN byUsername
           unique == RowsNamed(a.name) = {}
           fits   == a.rest \in Fit
<1>1. /\ taken => UNCHANGED <<byID, byUsername>>
      /\ ~taken => /\ byID' = With(byID, a.id, a)
                   /\ byUsername' = With(byUsername, a.name, a)
      /\ userTable' = IF unique /\ fits THEN userTable \cup {a} ELSE userTable
      /\ alike' = (taken = ~(unique /\ fits))
      /\ clashed' = (clashed \/ (unique /\ ~fits))
  BY DEF CreateUser
<1> HIDE DEF taken, unique, fits
<1>2. ~taken => /\ DOMAIN byID' = DOMAIN byID \cup {a.id} /\ byID'[a.id] = a
                /\ \A i \in DOMAIN byID : byID'[i] = byID[i]
                /\ DOMAIN byUsername' = DOMAIN byUsername \cup {a.name}
                /\ byUsername'[a.name] = a
                /\ \A n \in DOMAIN byUsername : byUsername'[n] = byUsername[n]
  <2>1. /\ DOMAIN With(byID, a.id, a) = DOMAIN byID \cup {a.id}
        /\ With(byID, a.id, a)[a.id] = a
        /\ \A i \in DOMAIN byID : i # a.id => With(byID, a.id, a)[i] = byID[i]
    BY DEF With
  <2>2. /\ DOMAIN With(byUsername, a.name, a) = DOMAIN byUsername \cup {a.name}
        /\ With(byUsername, a.name, a)[a.name] = a
        /\ \A n \in DOMAIN byUsername : n # a.name => With(byUsername, a.name, a)[n] = byUsername[n]
    BY DEF With
  <2>3. ~taken => a.name \notin DOMAIN byUsername
    BY DEF taken
  <2>4. QED
    BY <1>0, <1>1, <2>1, <2>2, <2>3
<1>3. StoresTypeOK'
  <2>1. alike' \in BOOLEAN /\ clashed' \in BOOLEAN
    BY <1>0, <1>1
  <2>2. userTable' \subseteq Account
    BY <1>0, <1>1
  <2>3. CASE taken
    BY <1>0, <1>1, <2>1, <2>2, <2>3, StoresTypesNext
  <2>4. CASE ~taken
    BY <1>0, <1>2, <2>1, <2>2, <2>4, StoresTypesNext
  <2>5. QED
    BY <2>3, <2>4
<1>4. ASSUME ~clashed'
      PROVE  /\ alike'
             /\ \A i \in DOMAIN byID' : byID'[i] \in Account /\ byID'[i].id = i
             /\ \A n \in DOMAIN byUsername' :
                  byUsername'[n] \in Account /\ byUsername'[n].name = n
             /\ \A b \in Account :
                  /\ b \in userTable' <=> b.id \in DOMAIN byID' /\ byID'[b.id] = b
                  /\ b \in userTable' <=>
                       b.name \in DOMAIN byUsername' /\ byUsername'[b.name] = b
  <2>0. ~clashed /\ (unique => fits)
    BY <1>1, <1>4
  <2>1. /\ alike
        /\ \A i \in DOMAIN byID : byID[i] \in Account /\ byID[i].id = i
        /\ \A n \in DOMAIN byUsername : byUsername[n] \in Account /\ byUsername[n].name = n
        /\ \A b \in Account :
             /\ b \in userTable <=> b.id \in DOMAIN byID /\ byID[b.id] = b
             /\ b \in userTable <=> b.name \in DOMAIN byUsername /\ byUsername[b.name] = b
    BY <2>0 DEF StoresInv
  <2>2. taken <=> ~unique
    <3>1. ASSUME taken PROVE ~unique
      <4>1. byUsername[a.name] \in userTable /\ byUsername[a.name].name = a.name
        BY <2>1, <3>1 DEF taken
      <4>2. QED
        BY <4>1 DEF unique, RowsNamed
    <3>2. ASSUME ~unique PROVE taken
      BY <1>0, <2>1, <3>2 DEF taken, unique, RowsNamed
    <3>3. QED
      BY <3>1, <3>2
  <2>a. taken \in BOOLEAN /\ unique \in BOOLEAN /\ fits \in BOOLEAN
    BY DEF taken, unique, fits
  <2>b. taken = ~(unique /\ fits)
    BY <2>0, <2>2, <2>a
  <2>3. alike'
    BY <1>1, <2>b
  <2>4. CASE taken
    BY <1>1, <2>1, <2>2, <2>3, <2>4
  <2>5. CASE ~taken
    <3>1. userTable' = userTable \cup {a} /\ \A b \in userTable : b.name # a.name
      BY <1>1, <2>0, <2>2, <2>5 DEF unique, RowsNamed
    <3>2. \A b \in userTable : b.id # a.id
      BY <1>0, <2>1
    <3>3. ASSUME NEW b \in Account
          PROVE  /\ b \in userTable' <=> b.id \in DOMAIN byID' /\ byID'[b.id] = b
                 /\ b \in userTable' <=>
                      b.name \in DOMAIN byUsername' /\ byUsername'[b.name] = b
      <4>1. CASE b = a
        BY <1>2, <2>5, <3>1, <4>1
      <4>2. CASE b # a
        <5>1. b \in userTable' <=> b \in userTable
          BY <3>1, <4>2
        <5>2. b.id \in DOMAIN byID' /\ byID'[b.id] = b
              <=> b.id \in DOMAIN byID /\ byID[b.id] = b
          BY <1>0, <1>2, <2>5, <4>2
        <5>3. b.name \in DOMAIN byUsername' /\ byUsername'[b.name] = b
              <=> b.name \in DOMAIN byUsername /\ byUsername[b.name] = b
          BY <1>2, <2>5, <4>2 DEF taken
        <5>4. QED
          BY <2>1, <5>1, <5>2, <5>3
      <4>3. QED
        BY <4>1, <4>2
    <3>4. \A i \in DOMAIN byID' : byID'[i] \in Account /\ byID'[i].id = i
      BY <1>2, <2>1, <2>5
    <3>5. \A n \in DOMAIN byUsername' :
            byUsername'[n] \in Account /\ byUsername'[n].name = n
      BY <1>2, <2>1, <2>5
    <3>6. QED
      BY <2>3, <3>3, <3>4, <3>5
  <2>6. QED
    BY <2>4, <2>5
<1>5. QED
  BY <1>1, <1>3, <1>4 DEF StoresInv

\* The maps after UpdateUser of an account they hold: the entry under the old
\* name is gone if the name has changed.
LEMMA UpdatedMaps ==
  ASSUME NEW a \in Account, a.id \in DOMAIN byID, UpdateMaps(a)
  PROVE  /\ DOMAIN byID' = DOMAIN byID /\ byID'[a.id] = a
         /\ \A i \in DOMAIN byID : i # a.id => byID'[i] = byID[i]
         /\ DOMAIN byUsername' = (DOMAIN byUsername \cup {a.name}) \
                                  ({byID[a.id].name} \ {a.name})
         /\ byUsername'[a.name] = a
         /\ \A n \in DOMAIN byUsername' : n # a.name => byUsername'[n] = byUsername[n]
<1> DEFINE old   == byID[a.id].name
           named == With(byUsername, a.name, a)
<1>1. /\ byID' = With(byID, a.id, a)
      /\ byUsername' = IF old = a.name THEN named ELSE Delete(named, old)
  BY DEF UpdateMaps
<1>2. /\ DOMAIN byID' = DOMAIN byID /\ byID'[a.id] = a
      /\ \A i \in DOMAIN byID : i # a.id => byID'[i] = byID[i]
  BY <1>1 DEF With
<1>3. /\ DOMAIN named = DOMAIN byUsername \cup {a.name} /\ named[a.name] = a
      /\ \A n \in DOMAIN named : n # a.name => named[n] = byUsername[n]
  BY DEF With
<1> HIDE DEF old, named
<1>4. /\ DOMAIN Delete(named, old) = DOMAIN named \ {old}
      /\ \A n \in DOMAIN named \ {old} : Delete(named, old)[n] = named[n]
  BY DEF Delete
<1>5. CASE old = a.name
  BY <1>1, <1>2, <1>3, <1>5 DEF old
<1>6. CASE old # a.name
  <2>1. /\ DOMAIN byUsername' = (DOMAIN byUsername \cup {a.name}) \ {old}
        /\ byUsername'[a.name] = a
        /\ \A n \in DOMAIN byUsername' : n # a.name => byUsername'[n] = byUsername[n]
    BY <1>1, <1>3, <1>4, <1>6
  <2>2. {old} \ {a.name} = {old}
    BY <1>6
  <2>3. QED
    BY <1>2, <2>1, <2>2 DEF old
<1>7. QED
  BY <1>5, <1>6

\* A row that is given the created_at it has is given everything.
LEMMA UpdatedIs ==
  ASSUME NEW a \in Account, NEW r \in Account
  PROVE  Updated(a, r) \in Account /\ (r.created = a.created => Updated(a, r) = a)
<1>1. PICK i \in Ids, n \in Names, d \in Dates, x \in Rest :
        a = [id |-> i, name |-> n, created |-> d, rest |-> x]
  BY DEF Account
<1>2. PICK e \in Dates : e = r.created
  BY DEF Account
<1>3. Updated(a, r) = [id |-> i, name |-> n, created |-> e, rest |-> x]
  BY <1>1, <1>2 DEF Updated
<1>4. Updated(a, r) \in Account
  BY <1>2, <1>3 DEF Account
<1>5. a.created = d
  BY <1>1
<1>6. QED
  BY <1>1, <1>2, <1>3, <1>4, <1>5

\* Both write the account, or find none; what the table alone refuses or leaves
\* as it is, is a clash of the stores.
LEMMA UpdateUserStep ==
  ASSUME StoresInv, NEW a \in Account, UpdateUser(a)
  PROVE  StoresInv'
<1>0. /\ a.id \in Ids /\ a.name \in Names
      /\ DOMAIN byID \subseteq Ids /\ \A i \in DOMAIN byID : byID[i] \in Account
      /\ DOMAIN byUsername \subseteq Names
      /\ \A n \in DOMAIN byUsername : byUsername[n] \in Account
      /\ userTable \subseteq Account
      /\ clashed \in BOOLEAN
  BY AccountFields, StoresTypes DEF StoresInv
<1> DEFINE stored == a.id \in DOMAIN byID
           row    == RowsOf(a.id) # {}
           named  == RowsNamed(a.name) \subseteq RowsOf(a.id)
           unique == named /\ a.rest \in Fit
           dated  == \A r \in RowsOf(a.id) : r.created = a.created
<1>1. /\ stored => UpdateMaps(a)
      /\ ~stored => UNCHANGED <<byID, byUsername>>
      /\ userTable' =
           IF row /\ unique
             THEN (userTable \ RowsOf(a.id)) \cup {Updated(a, r) : r \in RowsOf(a.id)}
             ELSE userTable
      /\ alike' = (stored = (row /\ unique))
      /\ clashed' = (clashed \/ (row /\ ~(unique /\ dated)))
  BY DEF UpdateUser
<1>2. stored =>
        /\ DOMAIN byID' = DOMAIN byID /\ byID'[a.id] = a
        /\ \A i \in DOMAIN byID : i # a.id => byID'[i] = byID[i]
        /\ DOMAIN byUsername' = (DOMAIN byUsername \cup {a.name}) \
                                 ({byID[a.id].name} \ {a.name})
        /\ byUsername'[a.name] = a
        /\ \A n \in DOMAIN byUsername' : n # a.name => byUsername'[n] = byUsername[n]
  BY <1>1, UpdatedMaps
<1> HIDE DEF stored, row, unique, named, dated
<1>3. StoresTypeOK'
  <2>1. alike' \in BOOLEAN /\ clashed' \in BOOLEAN
    BY <1>0, <1>1
  <2>2. userTable' \subseteq Account
    <3>1. RowsOf(a.id) \subseteq Account
      BY <1>0 DEF RowsOf
    <3>2. {Updated(a, r) : r \in RowsOf(a.id)} \subseteq Account
      BY <3>1, UpdatedIs
    <3>3. QED
      BY <1>0, <1>1, <3>2
  <2>3. CASE ~stored
    BY <1>0, <1>1, <2>1, <2>2, <2>3, StoresTypesNext
  <2>4. CASE stored
    <3>1. DOMAIN byID' \subseteq Ids /\ \A i \in DOMAIN byID' : byID'[i] \in Account
      BY <1>0, <1>2, <2>4
    <3>2. /\ DOMAIN byUsername' \subseteq Names
          /\ \A n \in DOMAIN byUsername' : byUsername'[n] \in Account
      BY <1>0, <1>2, <2>4
    <3>3. QED
      BY <2>1, <2>2, <3>1, <3>2, StoresTypesNext
  <2>5. QED
    BY <2>3, <2>4
<1>4. ASSUME ~clashed'
      PROVE  /\ alike'
             /\ \A i \in DOMAIN byID' : byID'[i] \in Account /\ byID'[i].id = i
             /\ \A n \in DOMAIN byUsername' :
                  byUsername'[n] \in Account /\ byUsername'[n].name = n
             /\ \A b \in Account :
                  /\ b \in userTable' <=> b.id \in DOMAIN byID' /\ byID'[b.id] = b
                  /\ b \in userTable' <=>
                       b.name \in DOMAIN byUsername' /\ byUsername'[b.name] = b
  <2>0. ~clashed /\ (row => unique /\ dated)
    BY <1>1, <1>4
  <2>1. /\ alike
        /\ \A i \in DOMAIN byID : byID[i] \in Account /\ byID[i].id = i
        /\ \A n \in DOMAIN byUsername : byUsername[n] \in Account /\ byUsername[n].name = n
        /\ \A b \in Account :
             /\ b \in userTable <=> b.id \in DOMAIN byID /\ byID[b.id] = b
             /\ b \in userTable <=> b.name \in DOMAIN byUsername /\ byUsername[b.name] = b
    BY <2>0 DEF StoresInv
  <2>2. stored <=> row
    BY <1>0, <2>1 DEF stored, row, RowsOf
  <2>a. stored \in BOOLEAN /\ row \in BOOLEAN /\ unique \in BOOLEAN
    BY DEF stored, row, unique, named
  <2>b. stored = (row /\ unique)
    BY <2>0, <2>2, <2>a
  <2>3. alike'
    BY <1>1, <2>b
  <2>4. CASE ~stored
    BY <1>1, <2>1, <2>2, <2>3, <2>4
  <2>5. CASE stored
    <3>1. PICK o \in userTable : o = byID[a.id] /\ o.id = a.id /\ o \in Account
      BY <2>1, <2>5 DEF stored
    <3>2. RowsOf(a.id) = {o}
      BY <1>0, <2>1, <3>1 DEF RowsOf
    <3>3. userTable' = (userTable \ {o}) \cup {a}
      <4>1. o.created = a.created
        BY <2>0, <2>2, <2>5, <3>2 DEF dated
      <4>2. Updated(a, o) = a
        BY <3>1, <4>1, UpdatedIs
      <4>3. {Updated(a, r) : r \in RowsOf(a.id)} = {a}
        BY <3>2, <4>2
      <4>4. QED
        BY <1>1, <2>0, <2>2, <2>5, <3>2, <4>3
    <3>4. \A b \in userTable : b.name = a.name => b = o
      BY <2>0, <2>2, <2>5, <3>2 DEF unique, named, RowsNamed
    <3>5. \A b \in userTable : b.id = a.id \/ b.name = o.name => b = o
      BY <1>0, <2>1, <3>1
    <3>6. ASSUME NEW b \in Account
          PROVE  b \in userTable' <=> b.id \in DOMAIN byID' /\ byID'[b.id] = b
      <4>1. CASE b = a
        BY <1>2, <2>5, <3>3, <4>1 DEF stored
      <4>2. CASE b # a /\ b.id = a.id
        <5>1. b \notin userTable'
          BY <3>3, <3>5, <4>2
        <5>2. byID'[b.id] # b
          BY <1>2, <2>5, <4>2
        <5>3. QED
          BY <5>1, <5>2
      <4>3. CASE b.id # a.id
        <5>1. b \in userTable' <=> b \in userTable
          BY <3>1, <3>3, <4>3
        <5>2. b.id \in DOMAIN byID' /\ byID'[b.id] = b
              <=> b.id \in DOMAIN byID /\ byID[b.id] = b
          BY <1>2, <2>5, <4>3
        <5>3. QED
          BY <2>1, <5>1, <5>2
      <4>4. QED
        BY <4>1, <4>2, <4>3
    <3>7. ASSUME NEW b \in Account
          PROVE  b \in userTable' <=>
                   b.name \in DOMAIN byUsername' /\ byUsername'[b.name] = b
      <4>1. CASE b = a
        <5>1. b \in userTable' /\ a.name \in DOMAIN byUsername' /\ byUsername'[a.name] = a
          BY <1>2, <2>5, <3>3, <4>1
        <5>2. QED
          BY <4>1, <5>1
      <4>2. CASE b # a /\ b.name = a.name
        <5>1. b \notin userTable'
          BY <3>3, <3>4, <4>2
        <5>2. byUsername'[b.name] # b
          BY <1>2, <2>5, <4>2
        <5>3. QED
          BY <5>1, <5>2
      <4>3. CASE b.name # a.name /\ b.name = o.name
        <5>1. b \notin userTable'
          BY <3>3, <3>5, <4>3
        <5>2. b.name \notin DOMAIN byUsername'
          BY <1>2, <2>5, <3>1, <4>3
        <5>3. QED
          BY <5>1, <5>2
      <4>4. CASE b.name # a.name /\ b.name # o.name
        <5>1. b \in userTable' <=> b \in userTable
          BY <3>3, <4>4
        <5>2. b.name \in DOMAIN byUsername' <=> b.name \in DOMAIN byUsername
          BY <1>2, <2>5, <3>1, <4>4
        <5>3. b.name \in DOMAIN byUsername' => byUsername'[b.name] = byUsername[b.name]
          BY <1>2, <2>5, <4>4
        <5>4. QED
          BY <2>1, <5>1, <5>2, <5>3
      <4>5. QED
        BY <4>1, <4>2, <4>3, <4>4
    <3>8. \A i \in DOMAIN byID' : byID'[i] \in Account /\ byID'[i].id = i
      BY <1>2, <2>1, <2>5
    <3>9. \A n \in DOMAIN byUsername' :
            byUsername'[n] \in Account /\ byUsername'[n].name = n
      BY <1>2, <2>1, <2>5
    <3>10. QED
      BY <2>3, <3>6, <3>7, <3>8, <3>9
  <2>6. QED
    BY <2>4, <2>5
<1>5. QED
  BY <1>3, <1>4 DEF StoresInv

\* StoresInv is inductive.
LEMMA StoresKept ==
  ASSUME StoresInv, StoresStep \/ UNCHANGED storeVars
  PROVE  StoresInv'
<1>1. CASE StoresStep
  BY <1>1, CreateUserStep, UpdateUserStep DEF StoresStep
<1>2. CASE UNCHANGED storeVars
  BY <1>2 DEF StoresInv, StoresTypeOK, Everybody, storeVars
<1>3. QED
  BY <1>1, <1>2

\* The three ways to ask agree: one account, by name, by id, and all of them.
LEMMA StoresSame == StoresInv => StoresAgree
<1> SUFFICES ASSUME StoresInv, ~clashed
             PROVE  /\ alike
                    /\ Everybody = userTable
                    /\ \A n \in Names : Named(n) = RowsNamed(n)
                    /\ \A i \in Ids : Entry(i) = RowsOf(i)
  BY DEF StoresAgree
<1>1. /\ alike
      /\ \A i \in DOMAIN byID : byID[i] \in Account /\ byID[i].id = i
      /\ \A n \in DOMAIN byUsername : byUsername[n] \in Account /\ byUsername[n].name = n
      /\ \A b \in Account :
           /\ b \in userTable <=> b.id \in DOMAIN byID /\ byID[b.id] = b
           /\ b \in userTable <=> b.name \in DOMAIN byUsername /\ byUsername[b.name] = b
      /\ userTable \subseteq Account
  BY DEF StoresInv, StoresTypeOK
<1>2. Everybody = userTable
  BY <1>1 DEF Everybody
<1>3. \A n \in Names : Named(n) = RowsNamed(n)
  BY <1>1 DEF Named, RowsNamed
<1>4. \A i \in Ids : Entry(i) = RowsOf(i)
  BY <1>1 DEF Entry, RowsOf
<1>5. QED
  BY <1>1, <1>2, <1>3, <1>4

-----------------------------------------------------------------------------
(* The audit trail in PostgreSQL and the reader of its pages.              *)

Readers == [page : Nat \ {0}, stage : {"asked", "counted", "shown"}, total : Nat,
            meant : SUBSET table, seen : SUBSET table, split : BOOLEAN]

Newer(m) == {r \in table : r.time > m.time}

\* The pages that have been shown.
Done == IF reader.stage = "shown" THEN reader.page ELSE reader.page - 1

\* A row that was meant and not seen lies behind the pages shown: rows that come
\* late only push it further back.
BehindInv ==
  NoTies => \A m \in reader.meant \ reader.seen : Done * PageRows <= Cardinality(Newer(m))

\* Unless a row came in between, the total is that of the rows to be selected.
CountInv ==
  reader.stage = "counted" /\ ~reader.split => reader.total = Cardinality(table)

TableInv ==
  /\ TableTypeOK /\ IsFiniteSet(table)
  /\ CountInv /\ BehindInv /\ ReaderSeesAll

\* The fields of the reader.
LEMMA ReaderFields ==
  ASSUME TableTypeOK
  PROVE  /\ reader.page \in Nat \ {0} /\ reader.stage \in {"asked", "counted", "shown"}
         /\ reader.total \in Nat /\ reader.meant \subseteq table
         /\ reader.seen \subseteq table /\ reader.split \in BOOLEAN
BY DEF TableTypeOK

\* A new reader means the rows that are there and has seen none.
LEMMA NewReaderFields ==
  /\ NewReader \in Readers
  /\ NewReader.page = 1 /\ NewReader.stage = "asked" /\ NewReader.seen = {}
BY DEF NewReader, Readers

\* An empty table, and a reader who means nothing yet.
LEMMA TableStarts == TableInit => TableInv
<1> SUFFICES ASSUME TableInit PROVE TableInv
  OBVIOUS
<1>1. /\ clock \in 0 .. LastTime /\ held = {} /\ table = {} /\ reader \in Readers
      /\ reader.stage = "asked" /\ reader.meant = {}
  BY TableAssumption DEF TableInit, NewReader, Readers
<1>2. TableTypeOK
  BY <1>1 DEF TableTypeOK, Readers
<1>3. QED
  BY <1>1, <1>2, FS_EmptySet DEF TableInv, CountInv, BehindInv, ReaderSeesAll, AtEnd

\* The rank of a row never falls as rows come in.
LEMMA NewerGrows ==
  ASSUME IsFiniteSet(table'), table \subseteq table', NEW m
  PROVE  /\ Cardinality(Newer(m)) \in Nat /\ Cardinality(Newer(m)') \in Nat
         /\ Cardinality(Newer(m)) <= Cardinality(Newer(m)')
<1>1. Newer(m)' \subseteq table' /\ Newer(m) \subseteq Newer(m)'
  BY DEF Newer
<1>2. IsFiniteSet(Newer(m)')
  BY <1>1, FS_Subset
<1>3. IsFiniteSet(Newer(m)) /\ Cardinality(Newer(m)) <= Cardinality(Newer(m)')
  BY <1>1, <1>2, FS_Subset
<1>4. QED
  BY <1>2, <1>3, FS_CardinalityType

\* The rank of a row is its place in an ORDER BY timestamp DESC without ties.
LEMMA RankIsPlace ==
  ASSUME IsFiniteSet(table), table \subseteq Row, NoTies,
         NEW order \in ByTime, NEW k \in 1 .. Cardinality(table)
  PROVE  Cardinality(Newer(order[k])) = k - 1
<1> DEFINE n == Cardinality(table)
           m == order[k]
           f == [j \in 1 .. k - 1 |-> order[j]]
<1>1. n \in Nat
  BY FS_CardinalityType
<1> HIDE DEF n
<1>2. /\ order \in [1 .. n -> table] /\ {order[j] : j \in DOMAIN order} = table
      /\ \A i, j \in 1 .. n : i < j => order[i].time >= order[j].time
  BY DEF ByTime, n
<1>3. \A r \in table : \E j \in 1 .. n : order[j] = r
  BY <1>2
<1>4. order \in Surjection(1 .. n, table)
  BY <1>2, <1>3 DEF Surjection
<1>5. IsFiniteSet(1 .. n) /\ Cardinality(1 .. n) = n
  BY <1>1, FS_Interval
<1>6. order \in Injection(1 .. n, table)
  BY <1>4, <1>5, FS_Surjection DEF n
<1>7. \A i, j \in 1 .. n : order[i] = order[j] => i = j
  BY <1>2, <1>6 DEF Injection, IsInjective
<1>8. \A r \in table : r.time \in Int
  BY TableAssumption DEF Row
<1>9. k \in 1 .. n /\ m \in table
  BY <1>2 DEF n
<1>10. ASSUME NEW j \in 1 .. k - 1
       PROVE  order[j] \in Newer(m)
  <2>1. j \in 1 .. n /\ j < k /\ order[j] \in table
    BY <1>1, <1>2, <1>9
  <2>2. order[j].time >= m.time /\ order[j] # m
    BY <1>2, <1>7, <1>9, <2>1
  <2>3. order[j].time # m.time
    BY <1>9, <2>1, <2>2 DEF NoTies
  <2>4. QED
    BY <1>8, <1>9, <2>1, <2>2, <2>3 DEF Newer
<1>11. ASSUME NEW r \in Newer(m)
       PROVE  \E j \in 1 .. k - 1 : order[j] = r
  <2>1. r \in table /\ r.time > m.time
    BY <1>11 DEF Newer
  <2>2. PICK j \in 1 .. n : order[j] = r
    BY <1>3, <2>1
  <2>3. j # k
    BY <1>8, <1>9, <2>1, <2>2
  <2>4. ~(k < j)
    BY <1>2, <1>8, <1>9, <2>1, <2>2
  <2>5. j \in 1 .. k - 1
    BY <1>1, <1>9, <2>3, <2>4
  <2>6. QED
    BY <2>2, <2>5
<1> HIDE DEF m
<1>12. f \in [1 .. k - 1 -> Newer(m)] /\ \A j \in 1 .. k - 1 : f[j] = order[j]
  BY <1>10
<1>13. \A r \in Newer(m) : \E j \in 1 .. k - 1 : f[j] = r
  BY <1>11, <1>12
<1>14. \A i, j \in 1 .. k - 1 : f[i] = f[j] => i = j
  BY <1>1, <1>7, <1>9, <1>12
<1> HIDE DEF f
<1>15. /\ f \in Surjection(1 .. k - 1, Newer(m))
       /\ f \in Injection(1 .. k - 1, Newer(m))
  BY <1>12, <1>13, <1>14 DEF Surjection, Injection, IsInjective
<1>16. IsFiniteSet(1 .. k - 1) /\ Cardinality(1 .. k - 1) = k - 1
  BY <1>1, <1>9, FS_Interval
<1>17. Cardinality(Newer(m)) = Cardinality(1 .. k - 1)
  BY <1>15, <1>16, FS_Surjection
<1>18. QED
  BY <1>16, <1>17 DEF m

\* (page - 1) pages and one more.
LEMMA OnePageMore ==
  ASSUME NEW p \in Nat \ {0}
  PROVE  /\ (p - 1) * PageRows \in Nat /\ p * PageRows \in Nat
         /\ p * PageRows = (p - 1) * PageRows + PageRows
         /\ (p + 1) - 1 = p
BY TableAssumption, Z3

\* What the reader has yet to see when a page is shown lies behind that page.
LEMMA SelectBehind ==
  ASSUME TableInv, reader.stage = "counted", NoTies, NEW order \in ByTime,
         NEW m \in reader.meant \ reader.seen,
         m \notin {order[k] : k \in DOMAIN order \cap
                     ((reader.page - 1) * PageRows + 1
                        .. (reader.page - 1) * PageRows + 1 + PageRows - 1)}
  PROVE  /\ reader.page * PageRows <= Cardinality(Newer(m))
         /\ Cardinality(Newer(m)) < Cardinality(table)
<1> DEFINE n == Cardinality(table)
           before == (reader.page - 1) * PageRows
<1>1. /\ reader.page \in Nat \ {0} /\ reader.meant \subseteq table
      /\ IsFiniteSet(table) /\ table \subseteq Row
      /\ n \in Nat /\ PageRows \in Nat
  BY ReaderFields, FS_CardinalityType, TableAssumption DEF TableInv, TableTypeOK
<1>2. before \in Nat /\ reader.page * PageRows = before + PageRows
  BY <1>1, OnePageMore
<1>3. before <= Cardinality(Newer(m))
  BY DEF TableInv, BehindInv, Done
<1>4. m \notin {order[k] : k \in DOMAIN order \cap (before + 1 .. before + 1 + PageRows - 1)}
  OBVIOUS
<1> HIDE DEF before
<1>5. order \in [1 .. n -> table] /\ {order[k] : k \in DOMAIN order} = table
  BY DEF ByTime
<1>6. PICK k \in 1 .. n : order[k] = m
  BY <1>1, <1>5
<1>7. Cardinality(Newer(m)) = k - 1
  BY <1>1, <1>6, RankIsPlace
<1> HIDE DEF n
<1>8. k \notin before + 1 .. before + 1 + PageRows - 1
  BY <1>4, <1>5, <1>6
<1>9. before + PageRows < k
  BY <1>1, <1>2, <1>3, <1>6, <1>7, <1>8
<1>10. QED
  BY <1>1, <1>2, <1>6, <1>7, <1>9 DEF n

\* Rows that come in, and a reader who sees more, leave the rest behind.
LEMMA BehindKept ==
  ASSUME TableInv, table \subseteq table', IsFiniteSet(table'), Done' = Done,
         reader'.meant \ reader'.seen \subseteq reader.meant \ reader.seen
  PROVE  BehindInv'
<1> SUFFICES ASSUME NoTies', NEW m \in reader'.meant \ reader'.seen
             PROVE  Done * PageRows <= Cardinality(Newer(m)')
  BY DEF BehindInv
<1>1. NoTies
  BY DEF NoTies
<1>2. Done * PageRows <= Cardinality(Newer(m))
  BY <1>1 DEF TableInv, BehindInv
<1>3. reader.page \in Nat \ {0}
  BY ReaderFields DEF TableInv
<1>4. Done \in {reader.page, reader.page - 1}
  BY DEF Done
<1>5. Done * PageRows \in Nat
  BY <1>3, <1>4, OnePageMore
<1>6. /\ Cardinality(Newer(m)) \in Nat /\ Cardinality(Newer(m)') \in Nat
      /\ Cardinality(Newer(m)) <= Cardinality(Newer(m)')
  BY NewerGrows
<1> DEFINE a == Done * PageRows
           b == Cardinality(Newer(m))
           c == Cardinality(Newer(m)')
<1>7. a \in Nat /\ b \in Nat /\ c \in Nat /\ a <= b /\ b <= c
  BY <1>2, <1>5, <1>6
<1> HIDE DEF a, b, c
<1>8. a <= c
  BY <1>7
<1>9. QED
  BY <1>8 DEF a, c

\* A reader of the table as it is, and of the next one.
LEMMA ReaderTyped ==
  ASSUME TableInv, table \subseteq table'
  PROVE  reader \in Readers /\ reader \in Readers'
<1>1. reader \in Readers
  BY DEF TableInv, TableTypeOK, Readers
<1>2. Readers \subseteq Readers'
  BY DEF Readers
<1>3. QED
  BY <1>1, <1>2

\* An event is stamped and held: nothing changes for the reader.
LEMMA LogKept ==
  ASSUME TableInv, NEW id \in Rows, LogEvent(id)
  PROVE  TableInv'
<1> DEFINE new == [id |-> id, time |-> clock']
<1>1. /\ id \notin Logged /\ held' = held \cup {new}
      /\ table' = table /\ reader' = reader
  BY DEF LogEvent
<1>2. clock' \in 0 .. LastTime
  <2>1. clock \in Nat /\ LastTime \in Nat
    BY TableAssumption DEF TableInv, TableTypeOK
  <2>2. QED
    BY <2>1 DEF LogEvent
<1>3. new \in Row /\ new.id = id
  BY <1>2 DEF Row
<1> HIDE DEF new
<1>4. \A r \in held \cup table : r.id # id
  BY <1>1 DEF Logged
<1>5. TableTypeOK'
  <2>1. held' \subseteq Row /\ table' \subseteq Row /\ held' \cap table' = {}
    BY <1>1, <1>3, <1>4 DEF TableInv, TableTypeOK
  <2>2. \A q, r \in held' \cup table' : q.id = r.id => q = r
    BY <1>1, <1>3, <1>4 DEF TableInv, TableTypeOK
  <2>3. reader' \in Readers'
    BY <1>1, ReaderTyped
  <2>4. QED
    BY <1>2, <2>1, <2>2, <2>3 DEF TableTypeOK, Readers
<1>6. CountInv' /\ ReaderSeesAll'
  BY <1>1 DEF TableInv, CountInv, ReaderSeesAll, AtEnd, NoTies
<1>7. IsFiniteSet(table')
  BY <1>1 DEF TableInv
<1>8. BehindInv'
  BY <1>1, <1>7, BehindKept DEF Done
<1>9. QED
  BY <1>5, <1>6, <1>7, <1>8 DEF TableInv

\* A row is inserted: late it may be, but it does no more than push others back.
LEMMA InsertRowKept ==
  ASSUME TableInv, NEW r \in held, InsertRow(r)
  PROVE  TableInv'
<1>1. /\ held' = held \ {r} /\ table' = table \cup {r} /\ clock' = clock
      /\ reader' = [reader EXCEPT !.split = @ \/ reader.stage = "counted"]
  BY DEF InsertRow
<1>2. reader \in Readers /\ reader \in Readers'
  BY <1>1, ReaderTyped
<1>3. PICK split \in BOOLEAN : split <=> (reader.split \/ reader.stage = "counted")
  <2>1. (reader.split \/ reader.stage = "counted") \in BOOLEAN
    BY Zenon
  <2>2. QED
    BY <2>1
<1>4. reader.split \in BOOLEAN
  BY <1>2 DEF Readers
<1>5. (reader.split \/ reader.stage = "counted") = split
  BY <1>3, <1>4
<1>6. reader' = [reader EXCEPT !.split = split]
  BY <1>1, <1>5
<1>7. /\ reader' \in Readers'
      /\ reader'.page = reader.page /\ reader'.stage = reader.stage
      /\ reader'.total = reader.total /\ reader'.meant = reader.meant
      /\ reader'.seen = reader.seen /\ reader'.split = split
  BY <1>2, <1>6 DEF Readers
<1>8. TableTypeOK'
  <2>1. clock' \in 0 .. LastTime /\ held' \subseteq Row /\ table' \subseteq Row
    BY <1>1 DEF TableInv, TableTypeOK
  <2>2. held' \cup table' = held \cup table /\ held' \cap table' = {}
    BY <1>1 DEF TableInv, TableTypeOK
  <2>3. QED
    BY <1>7, <2>1, <2>2 DEF TableInv, TableTypeOK, Readers
<1>9. IsFiniteSet(table')
  BY <1>1, FS_AddElement DEF TableInv
<1>10. BehindInv'
  <2>1. Done' = Done
    BY <1>7 DEF Done
  <2>2. QED
    BY <1>1, <1>7, <1>9, <2>1, BehindKept
<1>11. CountInv'
  BY <1>3, <1>7 DEF CountInv
<1>12. ReaderSeesAll'
  <2>1. NoTies' => NoTies
    BY <1>1 DEF NoTies
  <2>2. AtEnd' => AtEnd
    BY <1>7 DEF AtEnd
  <2>3. reader'.stage = "shown" /\ ~reader'.split => ~reader.split
    BY <1>3, <1>7
  <2>4. QED
    BY <1>7, <2>1, <2>2, <2>3 DEF TableInv, ReaderSeesAll, AtEnd
<1>13. QED
  BY <1>8, <1>9, <1>10, <1>11, <1>12 DEF TableInv

\* A row is lost: it was never in the table.
LEMMA InsertFailsKept ==
  ASSUME TableInv, NEW r \in held, InsertFails(r)
  PROVE  TableInv'
<1>1. held' = held \ {r} /\ clock' = clock /\ table' = table /\ reader' = reader
  BY DEF InsertFails
<1>2. TableTypeOK'
  <2>1. /\ held' \subseteq Row /\ held' \cap table' = {}
        /\ \A q, s \in held' \cup table' : q.id = s.id => q = s
    BY <1>1 DEF TableInv, TableTypeOK
  <2>2. reader' \in Readers'
    BY <1>1, ReaderTyped
  <2>3. QED
    BY <1>1, <2>1, <2>2 DEF TableInv, TableTypeOK, Readers
<1>3. CountInv' /\ ReaderSeesAll'
  BY <1>1 DEF TableInv, CountInv, ReaderSeesAll, AtEnd, NoTies
<1>4. IsFiniteSet(table')
  BY <1>1 DEF TableInv
<1>5. BehindInv'
  BY <1>1, <1>4, BehindKept DEF Done
<1>6. QED
  BY <1>2, <1>3, <1>4, <1>5 DEF TableInv

\* The table stands and the reader goes on: what is left to show of him.
LEMMA ReaderMoves ==
  ASSUME TableInv, UNCHANGED <<clock, held, table>>,
         reader' \in Readers, CountInv', BehindInv', ReaderSeesAll'
  PROVE  TableInv'
<1>1. reader' \in Readers'
  BY DEF Readers
<1>2. TableTypeOK'
  BY <1>1 DEF TableInv, TableTypeOK, Readers
<1>3. QED
  BY <1>2 DEF TableInv

\* The rows are counted.
LEMMA CountKept ==
  ASSUME TableInv, Count
  PROVE  TableInv'
<1> DEFINE n == Cardinality(table)
<1>1. /\ reader.stage = "asked"
      /\ reader' = [reader EXCEPT !.stage = "counted", !.total = n, !.split = FALSE]
      /\ clock' = clock /\ held' = held /\ table' = table
  BY DEF Count
<1>2. reader \in Readers /\ n \in Nat
  BY ReaderTyped, FS_CardinalityType, <1>1 DEF TableInv
<1>3. n' = n
  BY <1>1
<1> HIDE DEF n
<1>4. /\ reader' \in Readers
      /\ reader'.page = reader.page /\ reader'.stage = "counted"
      /\ reader'.total = n /\ reader'.meant = reader.meant /\ reader'.seen = reader.seen
  BY <1>1, <1>2 DEF Readers
<1>5. CountInv' /\ ReaderSeesAll'
  <2>1. reader'.total = Cardinality(table')
    BY <1>1, <1>4 DEF n
  <2>2. QED
    BY <1>4, <2>1 DEF CountInv, ReaderSeesAll, AtEnd
<1>6. BehindInv'
  <2>1. Done' = Done
    BY <1>1, <1>4 DEF Done
  <2>2. IsFiniteSet(table')
    BY <1>1 DEF TableInv
  <2>3. QED
    BY <1>1, <1>4, <2>1, <2>2, BehindKept
<1>7. QED
  BY <1>1, <1>4, <1>5, <1>6, ReaderMoves

\* A query fails: the page is asked for again.
LEMMA QueryFailsKept ==
  ASSUME TableInv, QueryFails
  PROVE  TableInv'
<1>1. /\ reader.stage = "counted"
      /\ reader' = [reader EXCEPT !.stage = "asked"]
      /\ clock' = clock /\ held' = held /\ table' = table
  BY DEF QueryFails
<1>2. reader \in Readers
  BY <1>1, ReaderTyped
<1>3. /\ reader' \in Readers
      /\ reader'.page = reader.page /\ reader'.stage = "asked"
      /\ reader'.meant = reader.meant /\ reader'.seen = reader.seen
  BY <1>1, <1>2 DEF Readers
<1>4. CountInv' /\ ReaderSeesAll'
  BY <1>3 DEF CountInv, ReaderSeesAll, AtEnd
<1>5. BehindInv'
  <2>1. Done' = Done
    BY <1>1, <1>3 DEF Done
  <2>2. IsFiniteSet(table')
    BY <1>1 DEF TableInv
  <2>3. QED
    BY <1>1, <1>3, <2>1, <2>2, BehindKept
<1>6. QED
  BY <1>1, <1>3, <1>4, <1>5, ReaderMoves

\* The next page is asked for.
LEMMA NextPageKept ==
  ASSUME TableInv, NextPage
  PROVE  TableInv'
<1> DEFINE next == reader.page + 1
<1>1. /\ reader.stage = "shown"
      /\ reader' = [reader EXCEPT !.stage = "asked", !.page = next]
      /\ clock' = clock /\ held' = held /\ table' = table
  BY DEF NextPage
<1>2. reader \in Readers
  BY <1>1, ReaderTyped
<1>3. reader.page \in Nat \ {0} /\ next \in Nat \ {0} /\ next - 1 = reader.page
  BY <1>2 DEF Readers
<1> HIDE DEF next
<1>4. /\ reader' \in Readers
      /\ reader'.page = next /\ reader'.stage = "asked"
      /\ reader'.meant = reader.meant /\ reader'.seen = reader.seen
  BY <1>1, <1>2, <1>3 DEF Readers
<1>5. CountInv' /\ ReaderSeesAll'
  BY <1>4 DEF CountInv, ReaderSeesAll, AtEnd
<1>6. BehindInv'
  <2>1. Done' = Done
    BY <1>1, <1>3, <1>4 DEF Done
  <2>2. IsFiniteSet(table')
    BY <1>1 DEF TableInv
  <2>3. QED
    BY <1>1, <1>4, <2>1, <2>2, BehindKept
<1>7. QED
  BY <1>1, <1>4, <1>5, <1>6, ReaderMoves

\* A new walk begins: no page of it has been shown.
LEMMA StartAnewKept ==
  ASSUME TableInv, StartAnew
  PROVE  TableInv'
<1>1. reader' = NewReader /\ clock' = clock /\ held' = held /\ table' = table
  BY DEF StartAnew
<1>2. /\ reader' \in Readers /\ reader'.stage = "asked" /\ reader'.page = 1
  BY <1>1, NewReaderFields
<1>3. CountInv' /\ ReaderSeesAll'
  BY <1>2 DEF CountInv, ReaderSeesAll, AtEnd
<1>4. BehindInv'
  <2>1. Done' = 0 /\ IsFiniteSet(table')
    BY <1>1, <1>2 DEF Done, TableInv
  <2>2. ASSUME NEW m PROVE Cardinality(Newer(m)') \in Nat
    BY <1>1, <2>1, NewerGrows
  <2>3. 0 * PageRows = 0
    BY TableAssumption
  <2>4. \A m : Done' * PageRows <= Cardinality(Newer(m)')
    BY <2>1, <2>2, <2>3
  <2>5. QED
    BY <2>4 DEF BehindInv
<1>5. QED
  BY <1>1, <1>2, <1>3, <1>4, ReaderMoves

\* A page is shown.  What is meant and not yet seen lies behind it; so there is
\* none if the page is the last one of all that are in the table.
LEMMA SelectKept ==
  ASSUME TableInv, Select
  PROVE  TableInv'
<1>1. PICK order \in ByTime :
        reader' = [reader EXCEPT !.stage = "shown",
                     !.seen = @ \cup {order[k] : k \in DOMAIN order \cap
                       ((reader.page - 1) * PageRows + 1
                          .. (reader.page - 1) * PageRows + 1 + PageRows - 1)}]
  BY DEF Select
<1> DEFINE page == {order[k] : k \in DOMAIN order \cap
                      ((reader.page - 1) * PageRows + 1
                         .. (reader.page - 1) * PageRows + 1 + PageRows - 1)}
           seen == reader.seen \cup page
<1>2. reader.stage = "counted" /\ clock' = clock /\ held' = held /\ table' = table
  BY DEF Select
<1>3. reader' = [reader EXCEPT !.stage = "shown", !.seen = seen]
  BY <1>1
<1>4. page \subseteq table
  BY DEF ByTime
<1>5. ASSUME NoTies, NEW m \in reader.meant \ seen
      PROVE  /\ reader.page * PageRows <= Cardinality(Newer(m))
             /\ Cardinality(Newer(m)) < Cardinality(table)
  <2>1. m \in reader.meant \ reader.seen /\ m \notin page
    BY <1>5
  <2>2. QED
    BY <1>2, <1>5, <2>1, SelectBehind
<1> HIDE DEF page
<1>6. reader \in Readers /\ seen \subseteq table
  BY <1>2, <1>4, ReaderTyped DEF Readers
<1> HIDE DEF seen
<1>7. /\ reader' \in Readers
      /\ reader'.page = reader.page /\ reader'.stage = "shown"
      /\ reader'.total = reader.total /\ reader'.meant = reader.meant
      /\ reader'.seen = seen /\ reader'.split = reader.split
  BY <1>3, <1>6 DEF Readers
<1>8. CountInv'
  BY <1>7 DEF CountInv
<1>9. NoTies' => NoTies
  BY <1>2 DEF NoTies
<1>10. BehindInv'
  <2>1. SUFFICES ASSUME NoTies', NEW m \in reader'.meant \ reader'.seen
                 PROVE  Done' * PageRows <= Cardinality(Newer(m)')
    BY DEF BehindInv
  <2>2. Done' = reader.page
    BY <1>7 DEF Done
  <2>3. Newer(m)' = Newer(m)
    BY <1>2 DEF Newer
  <2>4. reader.page * PageRows <= Cardinality(Newer(m))
    BY <1>5, <1>7, <1>9, <2>1
  <2>5. QED
    BY <2>2, <2>3, <2>4
<1>11. ReaderSeesAll'
  <2>1. SUFFICES ASSUME AtEnd', ~reader'.split, NoTies', NEW m \in reader'.meant \ reader'.seen
                 PROVE  FALSE
    BY DEF ReaderSeesAll
  <2>2. /\ reader.page * PageRows <= Cardinality(Newer(m))
        /\ Cardinality(Newer(m)) < Cardinality(table)
    BY <1>5, <1>7, <1>9, <2>1
  <2>3. reader.total = Cardinality(table)
    BY <1>2, <1>7, <2>1 DEF TableInv, CountInv
  <2>4. reader.page * PageRows >= Cardinality(table)
    BY <1>7, <2>1, <2>3 DEF AtEnd
  <2>5. reader.page \in Nat \ {0}
    BY <1>6 DEF Readers
  <2>6. reader.page * PageRows \in Nat
    BY <2>5, OnePageMore
  <2>7. Cardinality(Newer(m)) \in Nat /\ Cardinality(table) \in Nat
    BY <1>2, NewerGrows, FS_CardinalityType DEF TableInv
  <2> DEFINE a == reader.page * PageRows
             b == Cardinality(Newer(m))
             c == Cardinality(table)
  <2>8. a \in Nat /\ b \in Nat /\ c \in Nat /\ a <= b /\ b < c /\ a >= c
    BY <2>2, <2>4, <2>6, <2>7
  <2> HIDE DEF a, b, c
  <2>9. QED
    BY <2>8
<1>12. QED
  BY <1>2, <1>7, <1>8, <1>10, <1>11, ReaderMoves

\* TableInv is inductive.
LEMMA TableKept ==
  ASSUME TableInv, TableStep \/ UNCHANGED tableVars
  PROVE  TableInv'
<1>1. CASE UNCHANGED tableVars
  <2>1. UNCHANGED <<clock, held, table>> /\ reader' = reader
    BY <1>1 DEF tableVars
  <2>2. reader' \in Readers
    BY <2>1, ReaderTyped
  <2>3. CountInv' /\ ReaderSeesAll'
    BY <2>1 DEF TableInv, CountInv, ReaderSeesAll, AtEnd, NoTies
  <2>4. IsFiniteSet(table')
    BY <2>1 DEF TableInv
  <2>5. BehindInv'
    BY <2>1, <2>4, BehindKept DEF Done
  <2>6. QED
    BY <2>1, <2>2, <2>3, <2>5, ReaderMoves
<1>2. ASSUME NEW id \in Rows, LogEvent(id) PROVE TableInv'
  BY <1>2, LogKept
<1>3. ASSUME NEW r \in held, InsertRow(r) PROVE TableInv'
  BY <1>3, InsertRowKept
<1>4. ASSUME NEW r \in held, InsertFails(r) PROVE TableInv'
  BY <1>4, InsertFailsKept
<1>5. CASE Count
  BY <1>5, CountKept
<1>6. CASE Select
  BY <1>6, SelectKept
<1>7. CASE QueryFails
  BY <1>7, QueryFailsKept
<1>8. CASE NextPage
  BY <1>8, NextPageKept
<1>9. CASE StartAnew
  BY <1>9, StartAnewKept
<1>10. QED
  BY <1>1, <1>2, <1>3, <1>4, <1>5, <1>6, <1>7, <1>8, <1>9 DEF TableStep

-----------------------------------------------------------------------------
(* All four parts.                                                         *)

BackendInv == LimiterInv /\ TableInv /\ StoresInv /\ TOTPInv

\* Each part starts well.
LEMMA BackendStarts == Init => BackendInv
BY LimiterStarts, TableStarts, StoresStart, TOTPStarts DEF Init, BackendInv

\* A step is one of the part that is watched; the others stay as they are.
LEMMA BackendKept == BackendInv /\ [Next]_vars => BackendInv'
<1> SUFFICES ASSUME BackendInv, [Next]_vars PROVE BackendInv'
  OBVIOUS
<1>1. /\ LimiterStep \/ UNCHANGED limiterVars
      /\ TableStep \/ UNCHANGED tableVars
      /\ StoresStep \/ UNCHANGED storeVars
      /\ TOTPStep \/ UNCHANGED totpVars
  BY DEF Next, WatchLimiter, WatchTable, WatchStores, WatchCodes, vars
<1>2. QED
  BY <1>1, LimiterKept, TableKept, StoresKept, TOTPKept DEF BackendInv

\* Each part keeps its invariant, however often it is called.
THEOREM BackendInvariant == Spec => []BackendInv
BY BackendStarts, BackendKept, PTL DEF Spec

\* Every variable of the four parts ranges over the values the code can give it.
THEOREM BackendTypeCorrect == Spec => []TypeOK
<1>1. BackendInv => TypeOK
  BY DEF BackendInv, LimiterInv, TableInv, StoresInv, TOTPInv, TypeOK
<1>2. QED
  BY <1>1, BackendInvariant, PTL

\* withRateLimit asks and RecordFailedLogin writes in two calls: attempts that
\* overlap pass MaxLoginAttempts, by no more than there are of them.
THEOREM FailuresAreBounded == Spec => []FailuresBounded
<1>1. BackendInv => FailuresBounded
  <2> SUFFICES ASSUME LimiterInv PROVE FailuresBounded
    BY DEF BackendInv
  <2>1. Admitted \in SUBSET Attempts
    BY DEF Admitted
  <2>2. Cardinality(Admitted) \in Nat /\ Cardinality(Attempts) \in Nat
    BY <2>1, AdmittedCount
  <2>3. Len(recent) \in Nat
    BY DEF LimiterInv, LimiterTypeOK
  <2>4. QED
    BY <2>2, <2>3, LimiterAssumption DEF LimiterInv, FailuresBounded
<1>2. QED
  BY <1>1, BackendInvariant, PTL

\* PostgresLogger.List: COUNT, SELECT and rows that come late and in between; a
\* reader who stops where total says has seen what was there when he began, if
\* no row came between the last two statements and no two share a timestamp.
THEOREM ReaderSeesWhatWasThere == Spec => []ReaderSeesAll
<1>1. BackendInv => ReaderSeesAll
  BY DEF BackendInv, TableInv
<1>2. QED
  BY <1>1, BackendInvariant, PTL

\* MemoryUserStore and PostgresUserStore answer alike and hold the same
\* accounts, until somebody is renamed to a name that is taken.
THEOREM StoresAlwaysAgree == Spec => []StoresAgree
<1>1. BackendInv => StoresAgree
  BY StoresSame DEF BackendInv
<1>2. QED
  BY <1>1, BackendInvariant, PTL

\* VerifyTOTP accepts a code that is a step off and refuses one that is two, and
\* verify_totp.py judges alike but in the first step of all.
THEOREM WindowAlwaysKept == Spec => []WindowIsKept
<1>1. BackendInv => WindowIsKept
  BY DEF BackendInv, TOTPInv
<1>2. QED
  BY <1>1, BackendInvariant, PTL

\* EXPIRE has been confirmed, so the key in Redis expires.
DeadlineInv == expires => ttl \in Nat \ {0}

\* No step of the limiter takes a confirmed deadline away from a key it leaves.
LEMMA DeadlineKept ==
  ASSUME LimiterTypeOK, DeadlineInv, LimiterStep
  PROVE  DeadlineInv'
<1>1. ASSUME NEW a \in Attempts, Admit(a) \/ AdmitBlindly(a) \/ LoginEnds(a)
      PROVE  DeadlineInv'
  BY <1>1 DEF Admit, AdmitBlindly, LoginEnds, redis, DeadlineInv
<1>2. ASSUME NEW a \in Attempts, RecordFailedLogin(a) PROVE DeadlineInv'
  BY <1>2, LimiterAssumption DEF RecordFailedLogin, DeadlineInv
<1>3. ASSUME NEW a \in Attempts, RecordBreaks(a) PROVE DeadlineInv'
  <2>1. ttl' \in {ttl, LockoutDuration} /\ UNCHANGED expires
    BY <1>3 DEF RecordBreaks
  <2> QED
    BY <2>1, LimiterAssumption DEF DeadlineInv
<1>4. ASSUME NEW a \in Attempts, ResetFailedLogins(a) PROVE DeadlineInv'
  BY <1>4 DEF ResetFailedLogins, DeadlineInv
<1>5. CASE Tick
  <2> SUFFICES ASSUME expires' PROVE ttl' \in Nat \ {0}
    BY DEF DeadlineInv
  <2>1. ttl # 1 /\ expires
    BY <1>5 DEF Tick
  <2>2. ttl \in Nat \ {0}
    BY <2>1 DEF DeadlineInv
  <2>3. ttl' = IF ttl > 0 THEN ttl - 1 ELSE 0
    BY <1>5 DEF Tick
  <2> QED
    BY <2>1, <2>2, <2>3
<1>6. CASE RestartLimiter
  BY <1>6 DEF RestartLimiter, redis, DeadlineInv
<1> QED
  BY <1>1, <1>2, <1>3, <1>4, <1>5, <1>6 DEF LimiterStep

\* What a step may do to a lockout.
RunsOut ==
  Locked =>
    /\ ttl \in 1 .. LockoutDuration
    /\ ttl' > ttl => \E a \in UnderWay : UnderWay' = UnderWay \ {a}
    /\ limiter = "redis" /\ UNCHANGED errors => UnderWay' \subseteq UnderWay

\* And no step does more.
LEMMA LockoutStep ==
  ASSUME LimiterTypeOK, DeadlineInv, LimiterStep
  PROVE  RunsOut
<1> SUFFICES ASSUME Locked
             PROVE  /\ ttl' > ttl => \E a \in UnderWay : UnderWay' = UnderWay \ {a}
                    /\ limiter = "redis" /\ UNCHANGED errors => UnderWay' \subseteq UnderWay
  BY DEF RunsOut, Locked, DeadlineInv, LimiterTypeOK
<1>1. ttl \in Nat /\ login \in [Attempts -> {"none", "admitted", "blind"}]
  BY DEF LimiterTypeOK
<1>2. count \in Nat /\ count >= MaxLoginAttempts /\ MaxLoginAttempts \in Nat
  BY LimiterAssumption DEF Locked, LimiterTypeOK
<1>3. ASSUME NEW a \in Attempts, login[a] # "none", Is(a, "none")
      PROVE  a \in UnderWay /\ UnderWay' = UnderWay \ {a}
  BY <1>1, <1>3 DEF Is, UnderWay
<1>4. ASSUME NEW a \in Attempts, Admit(a) PROVE FALSE
  BY <1>2, <1>4 DEF Admit
<1>5. ASSUME NEW a \in Attempts, AdmitBlindly(a)
      PROVE  ttl' = ttl /\ ~(limiter = "redis" /\ UNCHANGED errors)
  <2>1. ttl' = ttl
    BY <1>5 DEF AdmitBlindly, redis
  <2>2. errors \in Nat
    BY LimiterAssumption DEF LimiterTypeOK
  <2> QED
    BY <1>5, <2>1, <2>2 DEF AdmitBlindly, RedisFails
<1>6. ASSUME NEW a \in Attempts,
             RecordFailedLogin(a) \/ RecordBreaks(a) \/ ResetFailedLogins(a) \/ LoginEnds(a)
      PROVE  a \in UnderWay /\ UnderWay' = UnderWay \ {a}
  <2>1. login[a] # "none" /\ Is(a, "none")
    BY <1>6 DEF RecordFailedLogin, RecordBreaks, ResetFailedLogins, LoginEnds
  <2> QED
    BY <1>3, <2>1
<1>7. CASE Tick
  <2>1. ttl' <= ttl
    BY <1>1, <1>7 DEF Tick
  <2>2. UnderWay' = UnderWay
    BY <1>7 DEF Tick, UnderWay
  <2>3. ttl' \in Nat
    BY <1>1, <1>7 DEF Tick
  <2> QED
    BY <1>1, <2>1, <2>2, <2>3
<1>8. CASE RestartLimiter
  <2>1. ttl' = ttl
    BY <1>8 DEF RestartLimiter, redis
  <2>2. UnderWay' = {}
    BY <1>8 DEF RestartLimiter, UnderWay
  <2> QED
    BY <1>1, <2>1, <2>2
<1> QED
  BY <1>1, <1>4, <1>5, <1>6, <1>7, <1>8 DEF LimiterStep

\* A lockout that Redis has confirmed runs out: its end is never further away
\* than LockoutDuration, each attempt under way puts it off once at most, and
\* none joins them as long as Redis answers.
THEOREM LockoutsRunOut == Spec => LockoutRunsOut
<1>1. Init => DeadlineInv
  BY DEF Init, LimiterInit, DeadlineInv
<1>2. ASSUME TypeOK, DeadlineInv, [Next]_vars
      PROVE  DeadlineInv' /\ [RunsOut]_limiterVars
  <2>1. LimiterStep \/ UNCHANGED limiterVars
    BY <1>2 DEF Next, WatchLimiter, WatchTable, WatchStores, WatchCodes, vars
  <2>2. LimiterTypeOK
    BY <1>2 DEF TypeOK
  <2>3. CASE LimiterStep
    BY <1>2, <2>2, <2>3, DeadlineKept, LockoutStep
  <2>4. CASE UNCHANGED limiterVars
    BY <1>2, <2>4 DEF limiterVars, redis, DeadlineInv
  <2> QED
    BY <2>1, <2>3, <2>4
<1>3. [][RunsOut]_limiterVars => LockoutRunsOut
  <2>1. RunsOut <=> (Locked =>
          /\ ttl \in 1 .. LockoutDuration
          /\ ttl' > ttl => \E a \in UnderWay : UnderWay' = UnderWay \ {a}
          /\ limiter = "redis" /\ UNCHANGED errors => UnderWay' \subseteq UnderWay)
    BY DEF RunsOut
  <2> QED
    BY <2>1, PTL DEF LockoutRunsOut
<1> QED
  BY <1>1, <1>2, <1>3, BackendTypeCorrect, PTL DEF Spec
=============================================================================
