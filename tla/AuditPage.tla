------------------------------ MODULE AuditPage ------------------------------
(***************************************************************************)
(* frontend/src/pages/AuditPage.tsx over MemoryLogger: a browser pages     *)
(* through the trail while the backend goes on logging.  Every change of   *)
(* page starts a request; nothing cancels or orders the requests that are  *)
(* still in flight, and the buttons stay enabled while a page loads.       *)
(***************************************************************************)
EXTENDS MemoryLogger

CONSTANTS RowsPerPage,  \* 20 in AuditPage.tsx
          MaxFetches    \* bound: requests in a behaviour

ASSUME RowsAssumption == RowsPerPage \in 1 .. MaxPageSize /\ MaxFetches \in Nat \ {0}
ASSUME NoWrapAssumption == MaxEvents + RowsPerPage <= MaxInt

VARIABLES page, total, rows, loading, error,  \* the page's useState
          waiting,   \* requests in flight, each with its page and, once served, its answer
          fetches,   \* requests sent so far, for MaxFetches
          rowsPage,  \* history: the page that was asked for when rows came
          walk       \* history: what a reader has seen who reads page after page

view    == <<page, total, rows, loading, error>>
history == <<rowsPage, walk>>
vars    == <<logVars, view, waiting, fetches, history>>

Unserved == [ok |-> FALSE, events |-> << >>, total |-> -1]

Ids(list) == {list[k].id : k \in DOMAIN list}

\* A walk starts when page 1 is asked for with nothing in flight; the events
\* of that moment are the ones the reader means to see.  It goes on with Next
\* and stays patient as long as every answer is awaited and none fails.
NewWalk  == [patient |-> TRUE, from |-> Len(events), seen |-> {}]
LostWalk == [patient |-> FALSE, from |-> 0, seen |-> {}]

Init ==
  /\ LogInit
  /\ page = 1 /\ total = 0 /\ rows = << >> /\ loading = TRUE /\ error = FALSE
  /\ waiting = {[n |-> 1, page |-> 1, answer |-> Unserved]}
  /\ fetches = 1
  /\ rowsPage = 1
  /\ walk = NewWalk

\* fetchLogs(p), up to the await.
Fetch(p) ==
  /\ fetches < MaxFetches
  /\ fetches' = fetches + 1
  /\ waiting' = waiting \cup {[n |-> fetches', page |-> p, answer |-> Unserved]}
  /\ loading' = TRUE
  /\ error' = FALSE

Shown == TotalPages(total, RowsPerPage)

\* Fault: a double click on Next passes over a page.
ClickNextTwice ==
  /\ page < Shown
  /\ page' = page + 2
  /\ Fetch(page')
  /\ walk' = IF waiting = {} THEN walk ELSE LostWalk
  /\ UNCHANGED <<logVars, total, rows, rowsPage>>

ClickNext ==
  /\ page < Shown
  /\ page' = page + 1
  /\ Fetch(page')
  /\ walk' = IF waiting = {} THEN walk ELSE LostWalk
  /\ UNCHANGED <<logVars, total, rows, rowsPage>>

ClickPrevious ==
  /\ page > 1
  /\ page' = page - 1
  /\ Fetch(page')
  /\ walk' = IF waiting = {} /\ page' = 1 THEN NewWalk ELSE LostWalk
  /\ UNCHANGED <<logVars, total, rows, rowsPage>>

ClickRefresh ==
  /\ Fetch(page)
  /\ walk' = IF waiting = {} /\ page = 1 THEN NewWalk ELSE LostWalk
  /\ UNCHANGED <<logVars, page, total, rows, rowsPage>>

\* The backend handles a request: Handler.List and MemoryLogger.List.
Serve(r) ==
  /\ r.answer = Unserved
  /\ LET asked == List(events, PageNumber(r.page), PageSize(RowsPerPage))
     IN  waiting' = (waiting \ {r}) \cup {[r EXCEPT !.answer = asked]}
  /\ UNCHANGED <<logVars, view, fetches, history>>

\* The answer arrives: setEvents, setTotal, setIsLoading(false).
Deliver(r) ==
  /\ r.answer.ok
  /\ waiting' = waiting \ {r}
  /\ rows' = r.answer.events
  /\ total' = r.answer.total
  /\ loading' = FALSE
  /\ rowsPage' = r.page
  /\ walk' = [walk EXCEPT !.seen = @ \cup Ids(r.answer.events)]
  /\ UNCHANGED <<logVars, page, error, fetches>>

\* The request fails, at the backend or on the way there or back.
Fail(r) ==
  /\ waiting' = waiting \ {r}
  /\ error' = TRUE
  /\ loading' = FALSE
  /\ walk' = LostWalk
  /\ UNCHANGED <<logVars, page, total, rows, fetches, rowsPage>>

Click  == ClickNext \/ ClickPrevious \/ ClickRefresh
Answer == \E r \in waiting : Serve(r) \/ Deliver(r) \/ Fail(r)

Next == (LogStep /\ UNCHANGED <<view, waiting, fetches, history>>) \/ Click \/ Answer

Spec == Init /\ [][Next]_vars

-----------------------------------------------------------------------------
Reply == [ok : BOOLEAN, events : Seq(Event), total : Nat]

Request == [n : Nat, page : Nat \ {0}, answer : Reply \cup {Unserved}]

\* Every variable ranges over the values the code can give it.
PageTypeOK ==
  /\ page \in Nat \ {0}
  /\ total \in Nat
  /\ rows \in Seq(Event)
  /\ loading \in BOOLEAN
  /\ error \in BOOLEAN
  /\ waiting \in SUBSET Request
  /\ fetches \in 1 .. MaxFetches
  /\ rowsPage \in Nat \ {0}
  /\ walk \in [patient : BOOLEAN, from : Nat, seen : SUBSET Nat]

TypeOK == LogTypeOK /\ PageTypeOK

\* New events push the older ones to higher pages while somebody reads.  Still
\* a reader who waits for each page and clicks Next up to the last has seen
\* every event that was on the trail when page 1 was asked for.
WalkComplete ==
  walk.patient /\ waiting = {} /\ page >= Shown =>
    {events[i].id : i \in 1 .. walk.from} \subseteq walk.seen

\* Of the events the reader means to see, the newest m of a trail of length
\* len have been seen.
Covered(len, m) ==
  \A i \in 1 .. walk.from : len - i < m => events[i].id \in walk.seen

\* A patient reader between two requests has seen the pages up to this one,
\* counted on the trail as it was when the last answer was computed.
Rested ==
  /\ waiting = {}
  /\ walk.from <= total /\ total <= Len(events)
  /\ Covered(total, page * RowsPerPage)

\* While page is being asked for, the pages before it: on the trail as it is,
\* then, once the answer is computed, as it was at that moment.
AskedFor(r) ==
  /\ waiting = {r}
  /\ r.page = page
  /\ (page - 1) * RowsPerPage <= Len(events)
  /\ r.answer = Unserved => Covered(Len(events), (page - 1) * RowsPerPage)
  /\ r.answer # Unserved =>
       /\ walk.from <= r.answer.total /\ r.answer.total <= Len(events)
       /\ Covered(r.answer.total, (page - 1) * RowsPerPage)
       /\ \A i \in 1 .. walk.from :
            /\ (page - 1) * RowsPerPage <= r.answer.total - i
            /\ r.answer.total - i < page * RowsPerPage
            => events[i].id \in Ids(r.answer.events)

\* AuditPage.tsx lets go of no event on the way: what a patient reader has
\* seen, has in flight and has yet to ask for make up the walk.
WalkInv ==
  walk.patient => /\ walk.from <= Len(events)
                  /\ Rested \/ \E r \in waiting : AskedFor(r)

\* AuditPage.tsx:175, "Showing page {page} of {totalPages}": once no request
\* is in flight and none has failed, the rows are those of the page named.
RowsMatchLabel ==
  waiting = {} /\ ~error => rowsPage = page
=============================================================================
