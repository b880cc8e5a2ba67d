------------------------------- MODULE Requests -------------------------------
(***************************************************************************)
(* frontend/src/services/api.ts under the pages of the console: every      *)
(* method starts a fetch of its own.  Nothing orders the answers, joins    *)
(* two requests for the same thing or cancels one: not the next click, and *)
(* not leaving the page that waits for it.                                 *)
(***************************************************************************)
EXTENDS Naturals, Sequences, Permissions

CONSTANTS Roles,         \* roles of the signed-in user, all of them or some
          MaxRequests    \* bound: requests of a behaviour

ASSUME RequestsAssumption == Roles \subseteq AllRoles /\ MaxRequests \in Nat \ {0}

VARIABLES role,      \* of the signed-in user, in the token and so at the server
          waiting,   \* requests in flight
          sent       \* requests so far: their numbers, and the bound

\* kind is the method of api.ts, arg its argument as a tuple.  served: the
\* backend has handled it, and answer is what it says, 0 for an error.  late is
\* history: a newer one of its kind is over.  orphan: the page that asked has
\* been left, and what it does with the answer is not seen.
NewRequest(n, kind, arg) ==
  [n |-> n, kind |-> kind, arg |-> arg, served |-> FALSE, answer |-> 0,
   late |-> FALSE, orphan |-> FALSE]

\* The pages' calls of api.ts: the next request.
Asked(kind, arg) == NewRequest(sent + 1, kind, arg)

Ask(kind, arg) ==
  /\ sent < MaxRequests
  /\ sent' = sent + 1
  /\ waiting' = waiting \cup {Asked(kind, arg)}
  /\ UNCHANGED role

\* The backend handles r; nobody waits for what it says to an orphan.
Handle(r, answer) ==
  /\ ~r.served
  /\ waiting' = (waiting \ {r}) \cup
                {q \in {[r EXCEPT !.served = TRUE, !.answer = answer]} : ~q.orphan}
  /\ UNCHANGED <<role, sent>>

\* The answer is 2xx and arrives.  Any request in flight may instead fail, for
\* an error it is answered with or for the connection, handled or not.
Answered(r) == ~r.orphan /\ r.served /\ r.answer # 0
Failing(r)  == ~r.orphan

\* What is in flight once r is over: older ones of its kind have become late.
Without(r) ==
  {[q EXCEPT !.late = q.late \/ (q.kind = r.kind /\ q.n < r.n)] : q \in waiting \ {r}}

Over(r) == waiting' = Without(r) /\ UNCHANGED <<role, sent>>

\* What goes on when the page is left: a request to write that the backend has
\* not handled.
Left(writes) ==
  {[q EXCEPT !.orphan = TRUE] : q \in {w \in waiting : w.kind \in writes /\ ~w.served}}

InFlight(kinds) == {r \in waiting : r.kind \in kinds /\ ~r.orphan}
=============================================================================
