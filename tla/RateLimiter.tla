----------------------------- MODULE RateLimiter -----------------------------
(***************************************************************************)
(* internal/security/ratelimit.go under one key, and withRateLimit of      *)
(* main.go in front of the login handler.  The question and the record of  *)
(* a failure are two calls of Redis with a password comparison between     *)
(* them; a pipeline is not a transaction.  auth.Handler.Login of the       *)
(* repository never records a failure (LoginEnds); RecordFailedLogin and   *)
(* ResetFailedLogins are modelled as interview_prep.md:80 has them called. *)
(***************************************************************************)
EXTENDS Integers, Sequences, FiniteSets

CONSTANTS Attempts,           \* login requests under the key at one time
          MaxLoginAttempts,   \* 5
          LockoutDuration,    \* 15 minutes, in ticks
          MaxErrors           \* bound: calls of Redis that fail

ASSUME LimiterAssumption ==
  /\ IsFiniteSet(Attempts)
  /\ MaxLoginAttempts \in Nat \ {0} /\ LockoutDuration \in Nat \ {0}
  /\ MaxErrors \in Nat

VARIABLES count, ttl,   \* the key in Redis: 0 when it is absent; 0 when it does not expire
          limiter,      \* "redis", or "nil" when Redis was down at the start
          login,        \* of each attempt: none, admitted by Redis, or admitted without an answer
          errors,
          recent,       \* history: ages of the failures recorded of attempts Redis admitted
          expires       \* history: an EXPIRE has been confirmed since the key is there

redis       == <<count, ttl, expires>>
limiterVars == <<redis, limiter, login, errors, recent>>

LimiterInit ==
  /\ count = 0 /\ ttl = 0 /\ expires = FALSE
  /\ limiter \in {"redis", "nil"}
  /\ login = [a \in Attempts |-> "none"]
  /\ errors = 0
  /\ recent = << >>

Is(a, state) == login' = [login EXCEPT ![a] = state]

RedisFails == limiter = "redis" /\ errors < MaxErrors /\ errors' = errors + 1

\* Fault: the attempt after the last one allowed is admitted.
AdmitOneMore(a) ==
  /\ login[a] = "none" /\ limiter = "redis"
  /\ count <= MaxLoginAttempts
  /\ Is(a, "admitted")
  /\ UNCHANGED <<redis, limiter, errors, recent>>

\* IsRateLimited says no.  When it says yes, 429 is answered and nothing is
\* changed here.
Admit(a) ==
  /\ login[a] = "none" /\ limiter = "redis"
  /\ count < MaxLoginAttempts
  /\ Is(a, "admitted")
  /\ UNCHANGED <<redis, limiter, errors, recent>>

\* The limiter is not there, or its answer is an error, which is logged.
AdmitBlindly(a) ==
  /\ login[a] = "none"
  /\ RedisFails \/ (limiter = "nil" /\ UNCHANGED errors)
  /\ Is(a, "blind")
  /\ UNCHANGED <<redis, limiter, recent>>

-----------------------------------------------------------------------------
\* Fault: the counter is incremented and nothing more.
RecordWithoutExpire(a) ==
  /\ login[a] # "none" /\ limiter = "redis"
  /\ count' = count + 1
  /\ expires' = TRUE
  /\ recent' = IF login[a] = "admitted" THEN <<0>> \o recent ELSE recent
  /\ Is(a, "none")
  /\ UNCHANGED <<limiter, errors, ttl>>

\* RecordFailedLogin: INCR and EXPIRE, which starts the window anew.
RecordFailedLogin(a) ==
  /\ login[a] # "none" /\ limiter = "redis"
  /\ count' = count + 1
  /\ ttl' = LockoutDuration
  /\ expires' = TRUE
  /\ recent' = IF login[a] = "admitted" THEN <<0>> \o recent ELSE recent
  /\ Is(a, "none")
  /\ UNCHANGED <<limiter, errors>>

\* Its connection breaks before or behind the first command, or before the answer.
RecordBreaks(a) ==
  /\ login[a] # "none"
  /\ RedisFails
  /\ \/ UNCHANGED <<count, ttl>>
     \/ count' = count + 1 /\ ttl' \in {ttl, LockoutDuration}
  /\ Is(a, "none")
  /\ UNCHANGED <<limiter, recent, expires>>

\* ResetFailedLogins, after a login that succeeds.
ResetFailedLogins(a) ==
  /\ login[a] # "none" /\ limiter = "redis"
  /\ count' = 0 /\ ttl' = 0 /\ expires' = FALSE
  /\ recent' = << >>
  /\ Is(a, "none")
  /\ UNCHANGED <<limiter, errors>>

\* Login ends and nobody tells the limiter, or the one that is told is NilRateLimiter.
LoginEnds(a) ==
  /\ login[a] # "none"
  /\ Is(a, "none")
  /\ UNCHANGED <<redis, limiter, errors, recent>>

-----------------------------------------------------------------------------
\* Time passes: Redis drops the key at the end of its time to live.
Tick ==
  /\ ttl' = IF ttl > 0 THEN ttl - 1 ELSE 0
  /\ count' = IF ttl = 1 THEN 0 ELSE count
  /\ expires' = (ttl # 1 /\ expires)
  /\ \E n \in 0 .. Len(recent) :   \* the newest come first
       /\ \A k \in 1 .. Len(recent) : k <= n <=> recent[k] + 1 < LockoutDuration
       /\ recent' = [k \in 1 .. n |-> recent[k] + 1]
  /\ UNCHANGED <<limiter, login, errors>>

\* Another start of the server, with initRateLimiter.
RestartLimiter ==
  /\ limiter' \in {"redis", "nil"}
  /\ login' = [a \in Attempts |-> "none"]
  /\ UNCHANGED <<redis, errors, recent>>

LimiterStep ==
  \/ \E a \in Attempts :
       \/ Admit(a) \/ AdmitBlindly(a)
       \/ RecordFailedLogin(a) \/ RecordBreaks(a) \/ ResetFailedLogins(a) \/ LoginEnds(a)
  \/ Tick \/ RestartLimiter

-----------------------------------------------------------------------------
LimiterTypeOK ==
  /\ count \in Nat /\ ttl \in 0 .. LockoutDuration /\ expires \in BOOLEAN
  /\ limiter \in {"redis", "nil"}
  /\ login \in [Attempts -> {"none", "admitted", "blind"}]
  /\ errors \in 0 .. MaxErrors
  /\ recent \in Seq(0 .. LockoutDuration - 1)

\* ratelimit.go:13, "MaxLoginAttempts before temporary lockout".  The check and
\* the record are two calls, so attempts that overlap pass the limit; but by no
\* more than there are: within any LockoutDuration without a success, at most
\* so many failures are recorded of attempts that Redis admitted.
FailuresBounded == Len(recent) <= MaxLoginAttempts - 1 + Cardinality(Attempts)

\* ratelimit.go:15, "how long a failed-attempt lockout lasts": a lockout ends,
\* although failures that were under way start the window anew, unless every
\* EXPIRE since the first failure was lost.
Locked == count >= MaxLoginAttempts /\ expires

LockoutEnds == Locked ~> count < MaxLoginAttempts

\* Why it does: its end is never more than LockoutDuration away; an attempt puts
\* it off once, when it ends; and nobody joins those under way, unless Redis
\* does not answer the question.
UnderWay == {a \in Attempts : login[a] # "none"}

LockoutRunsOut ==
  [][Locked =>
       /\ ttl \in 1 .. LockoutDuration
       /\ ttl' > ttl => \E a \in UnderWay : UnderWay' = UnderWay \ {a}
       /\ limiter = "redis" /\ UNCHANGED errors => UnderWay' \subseteq UnderWay]_limiterVars
=============================================================================
