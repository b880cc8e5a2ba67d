------------------------------ MODULE TOTPWindow ------------------------------
(***************************************************************************)
(* Time steps of one-time codes: internal/auth/totp.go and, beside it, the *)
(* reference implementation security/totp_verify.py.  A device with a      *)
(* clock of its own shows a code, which is typed and judged by the         *)
(* server's clock later.  Codes of two counters differ (HMAC-SHA1 lets two *)
(* of a million agree).  Counters are 64 bits wide.                        *)
(***************************************************************************)
EXTENDS Integers

CONSTANTS TimeStep,       \* totpTimeStep, 30 seconds
          MaxCounter,     \* the largest uint64
          LastSecond,     \* bound: the server's clock
          MaxDrift        \* bound: the device's clock is off by at most this

ASSUME StepAssumption ==
  /\ TimeStep \in Nat \ {0} /\ LastSecond \in Nat /\ MaxDrift \in Nat
  /\ MaxCounter \in Nat /\ LastSecond + MaxDrift < MaxCounter

VARIABLES serverTime,   \* Unix seconds
          deviceTime,
          code,         \* the counter of the code typed, and the device's time then
          goSays,       \* VerifyTOTP on it, or "none"
          pySays        \* verify_totp on it

totpVars == <<serverTime, deviceTime, code, goSays, pySays>>

NoCode == [counter |-> -1, at |-> 0]

TOTPInit ==
  /\ serverTime = 0
  /\ deviceTime \in 0 .. MaxDrift
  /\ code = NoCode
  /\ goSays = "none" /\ pySays = "none"

CounterAt(time) == time \div TimeStep

\* uint64(counter + delta): -1 is the largest one.
Unsigned(counter) == IF counter < 0 THEN counter + MaxCounter + 1 ELSE counter

\* Fault: the step before is left out.
GoAcceptsTwoSteps(counter, at) ==
  \E delta \in 0 .. 1 : counter = Unsigned(CounterAt(at) + delta)

\* VerifyTOTP: the codes of three counters.
GoAccepts(counter, at) ==
  \E delta \in -1 .. 1 : counter = Unsigned(CounterAt(at) + delta)

\* verify_totp: struct.pack raises an error on the counter -1, the first tried.
PyVerdict(counter, at) ==
  IF CounterAt(at) - 1 < 0 THEN "raises"
  ELSE IF counter \in CounterAt(at) - 1 .. CounterAt(at) + 1 THEN "valid" ELSE "invalid"

\* A code is generated and typed; GenerateTOTP, and any authenticator.
TypeCode ==
  /\ code' = [counter |-> CounterAt(deviceTime), at |-> deviceTime]
  /\ goSays' = "none" /\ pySays' = "none"
  /\ UNCHANGED <<serverTime, deviceTime>>

VerifyCode ==
  /\ code # NoCode
  /\ goSays' = IF GoAccepts(code.counter, serverTime) THEN "valid" ELSE "invalid"
  /\ pySays' = PyVerdict(code.counter, serverTime)
  /\ UNCHANGED <<serverTime, deviceTime, code>>

\* The clocks go, now and then not at the same pace.
ClocksGo ==
  /\ serverTime' \in serverTime .. serverTime + 1 /\ serverTime' <= LastSecond
  /\ deviceTime' \in deviceTime .. deviceTime + 1
  /\ deviceTime' - serverTime' \in -MaxDrift .. MaxDrift
  /\ goSays' = "none" /\ pySays' = "none"
  /\ UNCHANGED code

TOTPStep == TypeCode \/ VerifyCode \/ ClocksGo

-----------------------------------------------------------------------------
TOTPTypeOK ==
  /\ serverTime \in 0 .. LastSecond /\ deviceTime \in 0 .. LastSecond + MaxDrift
  /\ code \in {NoCode} \cup [counter : 0 .. LastSecond + MaxDrift,
                             at : 0 .. LastSecond + MaxDrift]
  /\ goSays \in {"none", "valid", "invalid"}
  /\ pySays \in {"none", "valid", "invalid", "raises"}

\* interview_prep.md:120, "a 90-second acceptance window": drift and delay
\* together may be a step, either way, wherever in the step the code was read;
\* two steps are refused, however they come about; and the two implementations
\* judge alike but in the first step of all, where the Python one fails.
WindowIsKept ==
  goSays # "none" =>
    LET off == serverTime - code.at
    IN  /\ off \in -TimeStep .. TimeStep => goSays = "valid"
        /\ off <= -2 * TimeStep \/ off >= 2 * TimeStep => goSays = "invalid"
        /\ IF serverTime < TimeStep THEN pySays = "raises" ELSE pySays = goSays
=============================================================================
