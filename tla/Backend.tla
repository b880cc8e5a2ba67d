------------------------------- MODULE Backend -------------------------------
(***************************************************************************)
(* Four parts of the backend that share no state: the login limiter, the   *)
(* PostgreSQL audit trail, the two user stores and the one-time codes.  A  *)
(* behaviour watches one of them; the others stay as they are.             *)
(***************************************************************************)
EXTENDS RateLimiter, AuditTable, UserStores, TOTPWindow

VARIABLE watched

vars == <<watched, limiterVars, tableVars, storeVars, totpVars>>

Parts == {"limiter", "table", "stores", "codes"}

Init ==
  /\ watched \in Parts
  /\ LimiterInit /\ TableInit /\ StoresInit /\ TOTPInit
  /\ watched # "limiter" => limiter = "redis"
  /\ watched # "codes" => deviceTime = 0

WatchLimiter ==
  /\ watched = "limiter" /\ LimiterStep
  /\ UNCHANGED <<watched, tableVars, storeVars, totpVars>>

WatchTable ==
  /\ watched = "table" /\ TableStep
  /\ UNCHANGED <<watched, limiterVars, storeVars, totpVars>>

WatchStores ==
  /\ watched = "stores" /\ StoresStep
  /\ UNCHANGED <<watched, limiterVars, tableVars, totpVars>>

WatchCodes ==
  /\ watched = "codes" /\ TOTPStep
  /\ UNCHANGED <<watched, limiterVars, tableVars, storeVars>>

Next == WatchLimiter \/ WatchTable \/ WatchStores \/ WatchCodes

Spec == Init /\ [][Next]_vars

\* Time passes; nothing else has to happen.
FairSpec ==
  Spec /\ WF_vars(watched = "limiter" /\ Tick
                  /\ UNCHANGED <<watched, tableVars, storeVars, totpVars>>)

-----------------------------------------------------------------------------
\* Every variable ranges over the values the code can give it.
TypeOK == LimiterTypeOK /\ TableTypeOK /\ StoresTypeOK /\ TOTPTypeOK
=============================================================================
