------------------------------- MODULE Navbar -------------------------------
(***************************************************************************)
(* The health badge of frontend/src/components/Navbar.tsx: a poll of       *)
(* /health every 30 s, whatever polls are still out.  An answer may come   *)
(* long after the backend has gone, and a failure after it is back.        *)
(***************************************************************************)
EXTENDS Naturals

CONSTANT Polls   \* bound: polls that may be in flight at once

VARIABLES up,            \* the backend can be reached
          healthStatus,  \* useState
          poll           \* each poll: none, in flight, or answered ok or by a failure

navVars == <<up, healthStatus, poll>>

NavbarInit ==
  /\ up = TRUE
  /\ healthStatus = "checking..."
  /\ poll = [k \in Polls |-> "none"]

\* Fault: the badge says "checking..." again during each poll.
CheckBackendAnew ==
  /\ \E k \in Polls : poll[k] = "none" /\ poll' = [poll EXCEPT ![k] = "flight"]
  /\ healthStatus' = "checking..."
  /\ UNCHANGED up

\* The interval; every 30 s as long as the page is open.
CheckBackend ==
  /\ \E k \in Polls : poll[k] = "none" /\ poll' = [poll EXCEPT ![k] = "flight"]
  /\ UNCHANGED <<up, healthStatus>>

\* The poll meets the backend, or does not.
PollMeets(k) ==
  /\ poll[k] = "flight"
  /\ poll' = [poll EXCEPT ![k] = IF up THEN "ok" ELSE "failed"]
  /\ UNCHANGED <<up, healthStatus>>

\* Fault: the catch block is empty.
PollSettlesSilently(k) ==
  /\ poll[k] \in {"ok", "failed"}
  /\ healthStatus' = IF poll[k] = "ok" THEN "ONLINE" ELSE healthStatus
  /\ poll' = [poll EXCEPT ![k] = "none"]
  /\ UNCHANGED up

PollSettles(k) ==
  /\ poll[k] \in {"ok", "failed"}
  /\ healthStatus' = IF poll[k] = "ok" THEN "ONLINE" ELSE "DEGRADED"
  /\ poll' = [poll EXCEPT ![k] = "none"]
  /\ UNCHANGED up

BackendChanges == up' = ~up /\ UNCHANGED <<healthStatus, poll>>

NavbarStep ==
  \/ CheckBackend \/ BackendChanges
  \/ \E k \in Polls : PollMeets(k) \/ PollSettles(k)

NavbarTypeOK ==
  /\ up \in BOOLEAN
  /\ healthStatus \in {"checking...", "ONLINE", "DEGRADED"}
  /\ poll \in [Polls -> {"none", "flight", "ok", "failed"}]

\* Navbar.tsx:70, "API: {healthStatus}": polls overlap and their answers may
\* come in any order, but a backend that stays up is shown ONLINE in the end,
\* for good, and one that stays down DEGRADED.
HealthConverges ==
  /\ (<>[]up)  => <>[](healthStatus = "ONLINE")
  /\ (<>[]~up) => <>[](healthStatus = "DEGRADED")

\* Why it stays so: once the badge is right and no answer of another time is on
\* its way, it is right until the backend changes, through any number of polls.
BadgeSettled ==
  IF up THEN healthStatus = "ONLINE" /\ \A k \in Polls : poll[k] # "failed"
        ELSE healthStatus = "DEGRADED" /\ \A k \in Polls : poll[k] # "ok"

BadgeStaysRight == [][BadgeSettled /\ UNCHANGED up => BadgeSettled']_navVars
=============================================================================
