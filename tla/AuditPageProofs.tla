--------------------------- MODULE AuditPageProofs ---------------------------
(***************************************************************************)
(* For every trail, page size and number of requests: the patient reader   *)
(* of AuditPage.tsx misses no event.  What has to be shown is arithmetic   *)
(* (the pages of a trail that grows meet without a gap) and bookkeeping    *)
(* (which answer was computed on which trail).                             *)
(***************************************************************************)
EXTENDS AuditPage, MemoryLoggerProofs, SequenceTheorems

R == RowsPerPage

-----------------------------------------------------------------------------
(* Arithmetic of pages.                                                    *)

\* Products of page and row numbers are ordered as the pages are.
LEMMA PageStarts ==
  ASSUME NEW p \in Nat \ {0}
  PROVE  /\ R \in Nat \ {0}
         /\ p * R \in Nat /\ (p - 1) * R \in Nat
         /\ p * R = (p - 1) * R + R
<1>1. R \in Nat \ {0}
  BY RowsAssumption, SizeAssumption DEF R
<1> QED BY <1>1

\* With a smaller number of pages there are no more rows.
LEMMA PagesMonotonic ==
  ASSUME NEW a \in Nat, NEW b \in Nat, a <= b
  PROVE  a * R <= b * R
<1>1. R \in Nat
  BY RowsAssumption, SizeAssumption DEF R
<1>2. b - a \in Nat /\ b * R = a * R + (b - a) * R /\ (b - a) * R \in Nat /\ a * R \in Nat
  BY <1>1
<1> QED BY <1>2

\* Math.ceil: the last page is the first that reaches the end of the trail.
LEMMA LastPage ==
  ASSUME NEW t \in Nat, NEW p \in Nat \ {0}
  PROVE  /\ TotalPages(t, R) \in Nat \ {0}
         /\ p < TotalPages(t, R) => p * R < t
         /\ p >= TotalPages(t, R) => t <= p * R
<1>1. R \in Nat \ {0}
  BY PageStarts
<1> DEFINE q == t \div R
           m == t % R
<1>2. q \in Nat /\ m \in 0 .. R - 1 /\ t = R * q + m
  BY <1>1
<1> HIDE DEF q, m
<1>3. TotalPages(t, R) = IF t = 0 THEN 1 ELSE IF m = 0 THEN q ELSE q + 1
  BY DEF TotalPages, q, m
<1>4. CASE t = 0
  BY <1>1, <1>3, <1>4, PageStarts
<1>5. CASE t # 0 /\ m = 0
  <2>1. TotalPages(t, R) = q /\ t = q * R /\ q # 0
    BY <1>1, <1>2, <1>3, <1>5
  <2>2. ASSUME p < q PROVE p * R < t
    <3>1. (p + 1) * R <= q * R
      BY <2>2, <1>2, PagesMonotonic
    <3>2. (p + 1) * R = p * R + R /\ p * R \in Nat
      BY <1>1
    <3> QED BY <3>1, <3>2, <2>1, <1>1
  <2>3. ASSUME p >= q PROVE t <= p * R
    BY <2>3, <2>1, <1>2, PagesMonotonic
  <2> QED BY <2>1, <2>2, <2>3, <1>2
<1>6. CASE t # 0 /\ m # 0
  <2>1. TotalPages(t, R) = q + 1 /\ q * R < t /\ t < (q + 1) * R
    <3>1. q * R = R * q /\ (q + 1) * R = q * R + R /\ q * R \in Nat
      BY <1>1, <1>2
    <3> QED BY <3>1, <1>1, <1>2, <1>3, <1>6
  <2>2. ASSUME p < q + 1 PROVE p * R < t
    <3>1. p * R <= q * R
      BY <2>2, <1>2, PagesMonotonic
    <3> QED BY <3>1, <2>1, <1>1, <1>2
  <2>3. ASSUME p >= q + 1 PROVE t <= p * R
    <3>1. (q + 1) * R <= p * R
      BY <2>3, <1>2, PagesMonotonic
    <3> QED BY <3>1, <2>1, <1>1, <1>2
  <2> QED BY <2>1, <2>2, <2>3, <1>2
<1> QED BY <1>4, <1>5, <1>6

\* MemoryLogger.List on a page that does not start beyond the trail by more
\* than one page: it answers, and its rows are the events of that page.
LEMMA ListedPage ==
  ASSUME NEW S, NEW s \in Seq(S), NEW p \in Nat \ {0},
         Len(s) + R <= MaxInt, (p - 1) * R <= Len(s)
  PROVE  /\ List(s, p, R).ok
         /\ List(s, p, R).total = Len(s)
         /\ List(s, p, R).events \in Seq(S)
         /\ \A i \in 1 .. Len(s) :
              (p - 1) * R <= Len(s) - i /\ Len(s) - i < p * R =>
                \E k \in DOMAIN List(s, p, R).events : List(s, p, R).events[k] = s[i]
<1> DEFINE n == Len(s)
           a == (p - 1) * R
           b == IF a + R > n THEN n ELSE a + R
<1>1. /\ n \in Nat /\ a \in Nat /\ R \in Nat \ {0} /\ a <= n /\ p * R = a + R
      /\ MaxInt \in Nat
  BY PageStarts, IntAssumption
<1> HIDE DEF a
<1>2. Wrap(a) = a /\ Wrap(a + R) = a + R
  BY <1>1 DEF Wrap, MinInt
<1>3. List(s, p, R) = IF n = 0 \/ a >= n THEN Page(<< >>, n)
                      ELSE Page(Slice(s, a, b), n)
  BY <1>1, <1>2 DEF List, a
<1>4. CASE n = 0 \/ a >= n
  <2>1. List(s, p, R) = Page(<< >>, n)
    BY <1>3, <1>4
  <2>2. \A i \in 1 .. n : ~(a <= n - i)
    BY <1>1, <1>4
  <2> QED BY <2>1, <2>2, EmptySeq DEF Page, a
<1>5. CASE ~(n = 0 \/ a >= n)
  <2>1. List(s, p, R) = Page(Slice(s, a, b), n)
    BY <1>3, <1>5
  <2>2. b \in Nat /\ a < b /\ b <= n /\ b - a \in Nat
    BY <1>1, <1>5
  <2>3. ASSUME NEW i \in 1 .. n, a <= n - i, n - i < a + R
        PROVE  n - i < b
    BY <2>3, <1>1
  <2> HIDE DEF b
  <2>4. Slice(s, a, b) = [k \in 1 .. b - a |-> s[n - a - k + 1]]
    BY DEF Slice
  <2>5. \A k \in 1 .. b - a : n - a - k + 1 \in 1 .. n
    BY <1>1, <2>2
  <2>6. \A k \in 1 .. b - a : s[n - a - k + 1] \in S
    BY <2>5
  <2>7. Slice(s, a, b) \in Seq(S)
    BY <2>4, <2>2, <2>6
  <2>8. ASSUME NEW i \in 1 .. n, a <= n - i, n - i < a + R
        PROVE  \E k \in DOMAIN Slice(s, a, b) : Slice(s, a, b)[k] = s[i]
    <3> DEFINE k == n - i - a + 1
    <3>1. k \in 1 .. b - a /\ n - a - k + 1 = i
      BY <2>8, <2>3, <1>1, <2>2
    <3> HIDE DEF k
    <3> QED BY <3>1, <2>4
  <2> QED BY <2>1, <2>7, <2>8, <1>1 DEF Page, a
<1> QED BY <1>4, <1>5

\* Whatever page is asked for, the answer is a list of events and a total.
LEMMA ListTyped ==
  ASSUME NEW S, NEW s \in Seq(S), NEW p \in Nat \ {0}, Len(s) + R <= MaxInt
  PROVE  List(s, p, R) \in [ok : BOOLEAN, events : Seq(S), total : Nat]
<1> DEFINE n == Len(s)
           a == Wrap((p - 1) * R)
           b == IF Wrap(a + R) > n THEN n ELSE a + R
<1>1. n \in Nat /\ R \in Nat \ {0} /\ MaxInt \in Nat /\ (p - 1) * R \in Nat
  BY PageStarts, IntAssumption
<1>2. a \in Int
  BY <1>1 DEF Wrap, MinInt
<1> HIDE DEF a
<1>3. List(s, p, R) = IF n = 0 \/ a >= n THEN Page(<< >>, n)
                      ELSE IF a < 0 THEN Panicked
                      ELSE Page(Slice(s, a, b), n)
  BY DEF List, a
<1>4. CASE n = 0 \/ a >= n
  BY <1>1, <1>3, <1>4, EmptySeq DEF Page
<1>5. CASE ~(n = 0 \/ a >= n) /\ a < 0
  BY <1>3, <1>5, EmptySeq DEF Panicked
<1>6. CASE ~(n = 0 \/ a >= n) /\ ~(a < 0)
  <2>1. a \in Nat /\ Wrap(a + R) = a + R
    BY <1>1, <1>2, <1>6 DEF Wrap, MinInt
  <2>2. b \in Nat /\ b <= n /\ b - a \in Nat
    BY <1>1, <1>6, <2>1
  <2> HIDE DEF b
  <2>3. Slice(s, a, b) = [k \in 1 .. b - a |-> s[n - a - k + 1]]
    BY DEF Slice
  <2>4. \A k \in 1 .. b - a : n - a - k + 1 \in 1 .. n
    BY <1>1, <2>1, <2>2
  <2>5. \A k \in 1 .. b - a : s[n - a - k + 1] \in S
    BY <2>4
  <2>6. Slice(s, a, b) \in Seq(S)
    BY <2>2, <2>3, <2>5
  <2> QED BY <1>1, <1>3, <1>6, <2>6 DEF Page
<1> QED BY <1>4, <1>5, <1>6

-----------------------------------------------------------------------------
(* Types.                                                                  *)

IInv == LogInv /\ PageTypeOK /\ WalkInv

\* The trail is short enough for the next offset not to wrap, and the page
\* asked for is the page listed.
LEMMA NoWrap ==
  ASSUME LogInv, NEW p \in Nat \ {0}
  PROVE  /\ events \in Seq(Event)
         /\ Len(events) + R <= MaxInt
         /\ PageNumber(p) = p
         /\ PageSize(RowsPerPage) = R
<1>1. Len(events) \in Nat /\ Len(events) <= MaxEvents /\ events \in Seq(Event)
  BY TrailBounded DEF LogInv, LogTypeOK
<1>2. MaxEvents \in Nat /\ R \in Nat /\ MaxInt \in Nat
  BY EventsAssumption, PageStarts, IntAssumption
<1>3. MaxEvents + R <= MaxInt
  BY NoWrapAssumption DEF R
<1>4. Len(events) + R <= MaxInt
  BY <1>1, <1>2, <1>3
<1>5. PageNumber(p) = p /\ PageSize(RowsPerPage) = R
  BY RowsAssumption DEF PageNumber, PageSize, R
<1> QED BY <1>1, <1>4, <1>5

\* Sending a request.
LEMMA FetchType ==
  ASSUME PageTypeOK, NEW p \in Nat \ {0}, Fetch(p)
  PROVE  /\ waiting' \in SUBSET Request
         /\ fetches' \in 1 .. MaxFetches
         /\ loading' \in BOOLEAN /\ error' \in BOOLEAN
<1>1. fetches' \in 1 .. MaxFetches
  BY RowsAssumption DEF PageTypeOK, Fetch
<1>2. [n |-> fetches', page |-> p, answer |-> Unserved] \in Request
  BY <1>1 DEF Request
<1> QED BY <1>1, <1>2 DEF PageTypeOK, Fetch

\* A walk is a walk.
LEMMA WalkTypes ==
  ASSUME LogInv
  PROVE  /\ NewWalk \in [patient : BOOLEAN, from : Nat, seen : SUBSET Nat]
         /\ LostWalk \in [patient : BOOLEAN, from : Nat, seen : SUBSET Nat]
<1>1. Len(events) \in Nat
  BY DEF LogInv, LogTypeOK
<1> QED BY <1>1 DEF NewWalk, LostWalk

\* The first request.
LEMMA InitType == ASSUME Init PROVE LogInv /\ PageTypeOK
<1>1. LogInv
  BY LogInitInv DEF Init
<1>2. [n |-> 1, page |-> 1, answer |-> Unserved] \in Request
  BY DEF Request
<1>3. /\ page \in Nat \ {0} /\ total \in Nat /\ rowsPage \in Nat \ {0}
      /\ loading \in BOOLEAN /\ error \in BOOLEAN
  <2>1. page \in Nat \ {0} /\ total \in Nat /\ rowsPage \in Nat \ {0}
    BY DEF Init
  <2>2. loading \in BOOLEAN /\ error \in BOOLEAN
    BY Zenon DEF Init
  <2> QED BY <2>1, <2>2
<1>4. rows \in Seq(Event)
  BY EmptySeq DEF Init
<1>5. waiting \in SUBSET Request /\ fetches \in 1 .. MaxFetches
  BY <1>2, RowsAssumption DEF Init
<1>6. walk \in [patient : BOOLEAN, from : Nat, seen : SUBSET Nat]
  BY <1>1, WalkTypes DEF Init
<1> QED BY <1>1, <1>3, <1>4, <1>5, <1>6 DEF PageTypeOK

\* The three buttons.
LEMMA ClickType ==
  ASSUME LogInv, PageTypeOK, Click
  PROVE  LogInv' /\ PageTypeOK'
<1>1. UNCHANGED <<logVars, total, rows, rowsPage>>
  BY DEF Click, ClickNext, ClickPrevious, ClickRefresh
<1>2. LogInv'
  BY <1>1, LogStepInv
<1>3. PICK p \in Nat \ {0} : page' = p /\ Fetch(p)
  <2>1. page \in Nat \ {0} /\ page + 1 \in Nat \ {0} /\ (page > 1 => page - 1 \in Nat \ {0})
    BY DEF PageTypeOK
  <2>2. CASE ClickNext
    BY <2>1, <2>2 DEF ClickNext
  <2>3. CASE ClickPrevious
    BY <2>1, <2>3 DEF ClickPrevious
  <2>4. CASE ClickRefresh
    BY <2>1, <2>4 DEF ClickRefresh
  <2> QED BY <2>2, <2>3, <2>4 DEF Click
<1>4. walk' \in {walk, NewWalk, LostWalk}
  BY DEF Click, ClickNext, ClickPrevious, ClickRefresh
<1>5. walk' \in [patient : BOOLEAN, from : Nat, seen : SUBSET Nat]
  BY <1>4, WalkTypes DEF PageTypeOK
<1> QED BY <1>1, <1>2, <1>3, <1>5, FetchType DEF PageTypeOK

\* The backend computes an answer.
LEMMA ServeType ==
  ASSUME LogInv, PageTypeOK, NEW r \in waiting, Serve(r)
  PROVE  LogInv' /\ PageTypeOK'
<1>1. UNCHANGED <<logVars, view, fetches, history>>
  BY DEF Serve
<1>2. LogInv'
  BY <1>1, LogStepInv
<1> DEFINE asked == List(events, PageNumber(r.page), PageSize(RowsPerPage))
           served == [r EXCEPT !.answer = asked]
<1>3. r \in Request /\ r.page \in Nat \ {0}
  BY DEF PageTypeOK, Request
<1>4. asked \in Reply
  <2>1. asked = List(events, r.page, R)
    BY <1>3, NoWrap
  <2> QED BY <2>1, <1>3, NoWrap, ListTyped DEF Reply
<1>5. waiting' = (waiting \ {r}) \cup {served}
  BY DEF Serve
<1> HIDE DEF asked
<1>6. served \in Request
  BY <1>3, <1>4 DEF Request
<1> HIDE DEF served
<1>7. waiting' \in SUBSET Request
  BY <1>5, <1>6 DEF PageTypeOK
<1> QED BY <1>1, <1>2, <1>7 DEF PageTypeOK, view, history

\* An answer arrives.
LEMMA DeliverType ==
  ASSUME LogInv, PageTypeOK, NEW r \in waiting, Deliver(r)
  PROVE  LogInv' /\ PageTypeOK'
<1>1. UNCHANGED <<logVars, page, error, fetches>>
  BY DEF Deliver
<1>2. LogInv'
  BY <1>1, LogStepInv
<1>3. r.answer \in Reply /\ r.page \in Nat \ {0}
  BY DEF PageTypeOK, Request, Deliver, Unserved
<1>4. rows' \in Seq(Event) /\ total' \in Nat /\ rowsPage' \in Nat \ {0}
  BY <1>3 DEF Deliver, Reply
<1>5. Ids(r.answer.events) \subseteq Nat
  <2> DEFINE ev == r.answer.events
  <2>1. ev \in Seq(Event)
    BY <1>3 DEF Reply
  <2> HIDE DEF ev
  <2>2. \A k \in DOMAIN ev : ev[k] \in Event
    BY <2>1
  <2>3. \A e \in Event : e.id \in Nat
    BY DEF Event
  <2>4. Ids(ev) \subseteq Nat
    BY <2>2, <2>3 DEF Ids
  <2> QED BY <2>4 DEF ev
<1>6. walk' \in [patient : BOOLEAN, from : Nat, seen : SUBSET Nat]
  BY <1>5 DEF Deliver, PageTypeOK
<1>7. waiting' \in SUBSET Request /\ loading' \in BOOLEAN
  BY DEF Deliver, PageTypeOK
<1> QED BY <1>1, <1>2, <1>4, <1>6, <1>7 DEF PageTypeOK

\* A request fails.
LEMMA FailType ==
  ASSUME LogInv, PageTypeOK, NEW r \in waiting, Fail(r)
  PROVE  LogInv' /\ PageTypeOK'
<1>1. UNCHANGED <<logVars, page, total, rows, fetches, rowsPage>>
  BY DEF Fail
<1>2. LogInv'
  BY <1>1, LogStepInv
<1>3. walk' \in [patient : BOOLEAN, from : Nat, seen : SUBSET Nat]
  BY WalkTypes DEF Fail
<1> QED BY <1>1, <1>2, <1>3 DEF Fail, PageTypeOK

-----------------------------------------------------------------------------
(* The walk.                                                               *)

\* A walk that begins has nothing to show for it yet: page 1 starts at row 0.
LEMMA NewWalkInv ==
  ASSUME LogInv, NEW n, UNCHANGED events, page' = 1, walk' = NewWalk,
         waiting' = {[n |-> n, page |-> 1, answer |-> Unserved]}
  PROVE  WalkInv'
<1>1. Len(events) \in Nat /\ R \in Nat
  BY PageStarts DEF LogInv, LogTypeOK
<1>2. walk'.from = Len(events)
  BY DEF NewWalk
<1>3. PICK r : r = [n |-> n, page |-> 1, answer |-> Unserved]
  OBVIOUS
<1>4. r.page = 1 /\ r.answer = Unserved /\ waiting' = {r}
  BY <1>3
<1>5. (page' - 1) * RowsPerPage = 0
  BY <1>1 DEF R
<1>6. Covered(Len(events), (page - 1) * RowsPerPage)'
  BY <1>1, <1>2, <1>5 DEF Covered
<1>7. AskedFor(r)'
  BY <1>1, <1>4, <1>5, <1>6 DEF AskedFor
<1> QED BY <1>1, <1>2, <1>4, <1>7 DEF WalkInv

\* Nothing is claimed for a reader who did not wait.
LEMMA LostWalkInv == ASSUME walk' = LostWalk PROVE WalkInv'
BY DEF WalkInv, LostWalk

\* The next page starts where the last one ended.
LEMMA NextInv ==
  ASSUME IInv, ClickNext
  PROVE  WalkInv'
<1>1. CASE waiting # {}
  BY <1>1, LostWalkInv DEF ClickNext
<1>2. CASE waiting = {} /\ ~walk.patient
  BY <1>2 DEF ClickNext, WalkInv
<1>3. CASE waiting = {} /\ walk.patient
  <2>1. /\ UNCHANGED <<events, walk>>
        /\ page' = page + 1
    BY <1>3 DEF ClickNext, logVars
  <2>2. PICK r : r = [n |-> fetches', page |-> page', answer |-> Unserved]
    OBVIOUS
  <2>3. waiting' = {r} /\ r.page = page' /\ r.answer = Unserved
    BY <1>3, <2>2 DEF ClickNext, Fetch
  <2>4. /\ page \in Nat \ {0} /\ total \in Nat /\ Len(events) \in Nat
        /\ walk.from \in Nat /\ page * R \in Nat
    <3>1. page \in Nat \ {0} /\ total \in Nat /\ walk.from \in Nat
      BY DEF IInv, PageTypeOK
    <3>2. Len(events) \in Nat
      BY DEF IInv, LogInv, LogTypeOK
    <3>3. page * R \in Nat
      BY <3>1, PageStarts
    <3> QED BY <3>1, <3>2, <3>3
  <2>5. walk.from <= total /\ total <= Len(events) /\ Covered(total, page * R)
    BY <1>3 DEF IInv, WalkInv, Rested, R
  <2>6. page * R < total
    BY <2>4, LastPage DEF ClickNext, Shown, R
  <2>7. (page' - 1) * RowsPerPage = page * R
    <3>1. page' - 1 = page
      BY <2>1, <2>4
    <3> QED BY <3>1 DEF R
  <2>8. Covered(Len(events), page * R)
    BY <2>4, <2>5 DEF Covered
  <2>9. Covered(Len(events), (page - 1) * RowsPerPage)'
    BY <2>1, <2>7, <2>8 DEF Covered
  <2>10. AskedFor(r)'
    BY <2>1, <2>3, <2>4, <2>5, <2>6, <2>7, <2>9 DEF AskedFor
  <2>11. walk'.from <= Len(events')
    BY <2>1, <2>4, <2>5
  <2> QED BY <2>3, <2>10, <2>11 DEF WalkInv
<1> QED BY <1>1, <1>2, <1>3

\* Any button.
LEMMA ClickInv == ASSUME IInv, Click PROVE WalkInv'
<1>1. CASE ClickNext
  BY <1>1, NextInv
<1>2. CASE ClickPrevious
  <2>1. CASE waiting = {} /\ page' = 1
    <3>1. /\ UNCHANGED events /\ walk' = NewWalk
          /\ waiting' = {[n |-> fetches', page |-> 1, answer |-> Unserved]}
      BY <1>2, <2>1 DEF ClickPrevious, Fetch, logVars
    <3> QED BY <2>1, <3>1, NewWalkInv DEF IInv
  <2>2. CASE ~(waiting = {} /\ page' = 1)
    BY <1>2, <2>2, LostWalkInv DEF ClickPrevious
  <2> QED BY <2>1, <2>2
<1>3. CASE ClickRefresh
  <2>1. CASE waiting = {} /\ page = 1
    <3>1. /\ UNCHANGED events /\ walk' = NewWalk /\ page' = 1
          /\ waiting' = {[n |-> fetches', page |-> 1, answer |-> Unserved]}
      BY <1>3, <2>1 DEF ClickRefresh, Fetch, logVars
    <3> QED BY <3>1, NewWalkInv DEF IInv
  <2>2. CASE ~(waiting = {} /\ page = 1)
    BY <1>3, <2>2, LostWalkInv DEF ClickRefresh
  <2> QED BY <2>1, <2>2
<1> QED BY <1>1, <1>2, <1>3 DEF Click

\* The answer holds the rows of the page asked for.
LEMMA ServeInv == ASSUME IInv, NEW q \in waiting, Serve(q) PROVE WalkInv'
<1>1. UNCHANGED <<events, page, total, walk>> /\ q.answer = Unserved
  BY DEF Serve, logVars, view, history
<1>2. CASE ~walk.patient
  BY <1>1, <1>2 DEF WalkInv
<1>3. CASE walk.patient
  <2>1. PICK r \in waiting : AskedFor(r)
    BY <1>3 DEF IInv, WalkInv, Rested
  <2>2. q = r /\ waiting = {q}
    BY <2>1 DEF AskedFor
  <2>3. /\ q.page = page /\ (page - 1) * R <= Len(events)
        /\ Covered(Len(events), (page - 1) * R)
    BY <1>1, <2>1, <2>2 DEF AskedFor, R
  <2>4. /\ page \in Nat \ {0} /\ walk.from \in Nat /\ walk.from <= Len(events)
        /\ Len(events) \in Nat /\ events \in Seq(Event) /\ q \in Request
    BY <1>3 DEF IInv, PageTypeOK, LogInv, LogTypeOK, WalkInv
  <2> DEFINE asked == List(events, page, R)
  <2>5. /\ asked.ok /\ asked.total = Len(events)
        /\ \A i \in 1 .. Len(events) :
             (page - 1) * R <= Len(events) - i /\ Len(events) - i < page * R =>
               \E k \in DOMAIN asked.events : asked.events[k] = events[i]
    BY <2>3, <2>4, NoWrap, ListedPage DEF IInv
  <2>6. waiting' = {[q EXCEPT !.answer = asked]}
    BY <2>2, <2>3, <2>4, NoWrap DEF Serve, IInv
  <2>7. PICK s : s = [q EXCEPT !.answer = asked]
    OBVIOUS
  <2> HIDE DEF asked
  <2>8. s.page = page /\ s.answer = asked /\ waiting' = {s}
    BY <2>3, <2>4, <2>6, <2>7 DEF Request
  <2>9. asked # Unserved
    BY <2>5 DEF Unserved
  <2>10. ASSUME NEW i \in 1 .. walk.from,
                (page - 1) * R <= Len(events) - i, Len(events) - i < page * R
         PROVE  events[i].id \in Ids(asked.events)
    <3>1. i \in 1 .. Len(events)
      BY <2>4
    <3>2. PICK k \in DOMAIN asked.events : asked.events[k] = events[i]
      BY <2>5, <2>10, <3>1
    <3> QED BY <3>2 DEF Ids
  <2>11. Covered(Len(events), (page - 1) * RowsPerPage)'
    BY <1>1, <2>3 DEF Covered, R
  <2>12. Covered(asked.total, (page - 1) * R)
    BY <2>3, <2>5
  <2>13. AskedFor(s)'
    <3>1. s.answer.total = Len(events) /\ s.answer.events = asked.events /\ s.answer # Unserved
      BY <2>5, <2>8, <2>9
    <3>2. Covered(s.answer.total, (page - 1) * RowsPerPage)'
      BY <1>1, <2>3, <3>1 DEF Covered, R
    <3>3. \A i \in 1 .. walk.from :
            (page - 1) * R <= s.answer.total - i /\ s.answer.total - i < page * R
              => events[i].id \in Ids(s.answer.events)
      BY <2>10, <3>1
    <3> QED BY <1>1, <2>3, <2>4, <2>8, <3>1, <3>2, <3>3 DEF AskedFor, R
  <2> QED BY <1>1, <2>4, <2>8, <2>13 DEF WalkInv
<1> QED BY <1>2, <1>3

\* The rows of this page join those of the pages before.
LEMMA DeliverInv == ASSUME IInv, NEW q \in waiting, Deliver(q) PROVE WalkInv'
<1>1. /\ UNCHANGED <<events, page>> /\ total' = q.answer.total /\ q.answer.ok
      /\ waiting' = waiting \ {q}
  BY DEF Deliver, logVars
<1>2. /\ walk'.patient = walk.patient /\ walk'.from = walk.from
      /\ walk'.seen = walk.seen \cup Ids(q.answer.events)
  BY DEF Deliver, IInv, PageTypeOK
<1>3. CASE ~walk.patient
  BY <1>2, <1>3 DEF WalkInv
<1>4. CASE walk.patient
  <2>1. PICK r \in waiting : AskedFor(r)
    BY <1>4 DEF IInv, WalkInv, Rested
  <2>2. q = r /\ waiting' = {} /\ q.answer # Unserved
    BY <1>1, <2>1 DEF AskedFor, Unserved
  <2> DEFINE L == q.answer.total
  <2>3. /\ walk.from <= L /\ L <= Len(events)
        /\ Covered(L, (page - 1) * R)
        /\ \A i \in 1 .. walk.from :
             (page - 1) * R <= L - i /\ L - i < page * R
               => events[i].id \in Ids(q.answer.events)
    BY <2>1, <2>2 DEF AskedFor, R
  <2>4. /\ L \in Nat /\ walk.from \in Nat /\ Len(events) \in Nat
        /\ (page - 1) * R \in Nat /\ page * R \in Nat
    <3>1. q.answer \in Reply /\ page \in Nat \ {0}
      BY <2>2 DEF IInv, PageTypeOK, Request
    <3>2. q.answer.total \in Nat
      BY <3>1 DEF Reply
    <3>3. walk.from \in Nat
      BY DEF IInv, PageTypeOK
    <3>4. Len(events) \in Nat
      BY DEF IInv, LogInv, LogTypeOK
    <3> QED BY <3>1, <3>2, <3>3, <3>4, PageStarts
  <2> HIDE DEF L
  <2>5. ASSUME NEW i \in 1 .. walk.from, L - i < page * R
        PROVE  events[i].id \in walk'.seen
    <3>1. CASE L - i < (page - 1) * R
      BY <3>1, <1>2, <2>3 DEF Covered
    <3>2. CASE ~(L - i < (page - 1) * R)
      <4>1. (page - 1) * R <= L - i
        BY <2>4, <3>2
      <4> QED BY <4>1, <1>2, <2>3, <2>5
    <3> QED BY <3>1, <3>2
  <2>6. Covered(total, page * RowsPerPage)'
    BY <1>1, <1>2, <2>5 DEF Covered, R, L
  <2>7. walk'.from <= total' /\ total' <= Len(events') /\ walk'.from <= Len(events')
    BY <1>1, <1>2, <2>3, <2>4 DEF L
  <2> QED BY <2>2, <2>6, <2>7 DEF WalkInv, Rested
<1> QED BY <1>3, <1>4

\* Events that are logged meanwhile only push the others further back.
LEMMA LogWalkInv ==
  ASSUME IInv, [LogStep]_logVars, UNCHANGED <<view, waiting, history>>
  PROVE  WalkInv'
<1>1. UNCHANGED <<page, total, waiting, walk>>
  BY DEF view, history
<1>2. /\ Len(events) \in Nat /\ Len(events') \in Nat /\ Len(events) <= Len(events')
      /\ \A i \in 1 .. Len(events) : events'[i] = events[i]
  BY LogGrows DEF IInv
<1>3. CASE ~walk.patient
  BY <1>1, <1>3 DEF WalkInv
<1>4. CASE walk.patient
  <2>1. walk.from \in Nat /\ walk.from <= Len(events) /\ total \in Nat /\ page \in Nat \ {0}
    BY <1>4 DEF IInv, PageTypeOK, WalkInv
  <2>2. \A i \in 1 .. walk.from : events'[i] = events[i]
    BY <1>2, <2>1
  <2>3. walk'.from <= Len(events')
    BY <1>1, <1>2, <2>1
  <2>4. CASE Rested
    <3>1. Covered(total, page * RowsPerPage)'
      BY <1>1, <2>2, <2>4 DEF Rested, Covered
    <3>2. walk'.from <= total' /\ total' <= Len(events')
      BY <1>1, <1>2, <2>1, <2>4 DEF Rested
    <3> QED BY <1>1, <2>3, <2>4, <3>1, <3>2 DEF WalkInv, Rested
  <2>5. CASE \E r \in waiting : AskedFor(r)
    <3>1. PICK r \in waiting : AskedFor(r)
      BY <2>5
    <3> DEFINE a == (page - 1) * RowsPerPage
    <3>2. a \in Nat /\ a <= Len(events)
      BY <2>1, <3>1, PageStarts DEF AskedFor, R
    <3>3. ASSUME r.answer = Unserved
          PROVE  Covered(Len(events), (page - 1) * RowsPerPage)'
      <4>1. Covered(Len(events), a)
        BY <3>1, <3>3 DEF AskedFor
      <4> HIDE DEF a
      <4>2. ASSUME NEW i \in 1 .. walk.from, Len(events') - i < a
            PROVE  events'[i].id \in walk.seen
        <5>1. Len(events) - i < a
          BY <4>2, <1>2, <2>1, <3>2
        <5> QED BY <5>1, <4>1, <2>2 DEF Covered
      <4> QED BY <1>1, <4>2 DEF Covered, a
    <3>4. ASSUME r.answer # Unserved
          PROVE  /\ r.answer.total \in Nat
                 /\ walk'.from <= r.answer.total /\ r.answer.total <= Len(events')
                 /\ Covered(r.answer.total, (page - 1) * RowsPerPage)'
      <4>1. r.answer.total \in Nat
        BY <3>4 DEF IInv, PageTypeOK, Request, Reply
      <4>2. /\ walk.from <= r.answer.total /\ r.answer.total <= Len(events)
            /\ Covered(r.answer.total, a)
        BY <3>1, <3>4 DEF AskedFor
      <4>3. Covered(r.answer.total, (page - 1) * RowsPerPage)'
        BY <1>1, <2>2, <4>2 DEF Covered
      <4> QED BY <1>1, <1>2, <4>1, <4>2, <4>3
    <3>5. ASSUME r.answer # Unserved, NEW i \in 1 .. walk.from,
                 a <= r.answer.total - i, r.answer.total - i < page * RowsPerPage
          PROVE  events'[i].id \in Ids(r.answer.events)
      BY <2>2, <3>1, <3>5 DEF AskedFor
    <3>6. a <= Len(events')
      BY <1>2, <3>2
    <3>7. AskedFor(r)'
      BY <1>1, <3>1, <3>3, <3>4, <3>5, <3>6 DEF AskedFor
    <3> QED BY <1>1, <2>3, <3>7 DEF WalkInv
  <2> QED BY <1>4, <2>4, <2>5 DEF IInv, WalkInv
<1> QED BY <1>3, <1>4

-----------------------------------------------------------------------------
(* The theorems.                                                           *)

\* The inductive invariant of the browser over the logger.
THEOREM PageInvariant == Spec => []IInv
<1>1. ASSUME Init PROVE IInv
  <2>1. walk = NewWalk /\ waiting = {[n |-> 1, page |-> 1, answer |-> Unserved]} /\ page = 1
    BY <1>1 DEF Init
  <2>2. Len(events) \in Nat /\ R \in Nat
    BY <1>1, InitType, PageStarts DEF LogInv, LogTypeOK
  <2>3. PICK r : r = [n |-> 1, page |-> 1, answer |-> Unserved]
    OBVIOUS
  <2>4. (page - 1) * RowsPerPage = 0
    BY <2>1, <2>2 DEF R
  <2>5. Covered(Len(events), (page - 1) * RowsPerPage)
    BY <2>1, <2>2, <2>4 DEF Covered, NewWalk
  <2>6. AskedFor(r)
    BY <2>1, <2>2, <2>3, <2>4, <2>5 DEF AskedFor
  <2>7. WalkInv
    BY <2>1, <2>2, <2>3, <2>6 DEF WalkInv, NewWalk
  <2> QED BY <1>1, <2>7, InitType DEF IInv
<1>2. ASSUME IInv, [Next]_vars PROVE IInv'
  <2>1. CASE [LogStep]_logVars /\ UNCHANGED <<view, waiting, fetches, history>>
    <3>1. LogInv' /\ WalkInv'
      BY <1>2, <2>1, LogStepInv, LogWalkInv DEF IInv
    <3>2. PageTypeOK'
      BY <1>2, <2>1 DEF IInv, PageTypeOK, view, history
    <3> QED BY <3>1, <3>2 DEF IInv
  <2>2. CASE Click
    BY <1>2, <2>2, ClickType, ClickInv DEF IInv
  <2>3. CASE \E q \in waiting : Serve(q)
    BY <1>2, <2>3, ServeType, ServeInv DEF IInv
  <2>4. CASE \E q \in waiting : Deliver(q)
    BY <1>2, <2>4, DeliverType, DeliverInv DEF IInv
  <2>5. CASE \E q \in waiting : Fail(q)
    <3>1. WalkInv'
      BY <2>5, LostWalkInv DEF Fail
    <3> QED BY <1>2, <2>5, <3>1, FailType DEF IInv
  <2>6. CASE UNCHANGED vars
    BY <2>1, <2>6 DEF vars
  <2> QED BY <1>2, <2>1, <2>2, <2>3, <2>4, <2>5, <2>6 DEF Next, Answer
<1> QED BY <1>1, <1>2, PTL DEF Spec

\* Every variable of the page and of the logger keeps its type.
THEOREM PageTypeCorrect == Spec => []TypeOK
<1>1. IInv => TypeOK
  BY DEF IInv, LogInv, TypeOK
<1> QED BY <1>1, PageInvariant, PTL

\* A reader who waits for each page has, on the last, seen every event that
\* was there when page 1 was asked for.
THEOREM PatientReaderSeesAll == Spec => []WalkComplete
<1>1. IInv => WalkComplete
  <2> SUFFICES ASSUME IInv, walk.patient, waiting = {}, page >= Shown,
                      NEW i \in 1 .. walk.from
               PROVE  events[i].id \in walk.seen
    BY DEF WalkComplete
  <2>1. /\ page \in Nat \ {0} /\ total \in Nat /\ walk.from \in Nat
        /\ page * R \in Nat
    BY PageStarts DEF IInv, PageTypeOK
  <2>2. total <= page * R
    BY <2>1, LastPage DEF Shown, R
  <2>3. walk.from <= total /\ Covered(total, page * R)
    BY DEF IInv, WalkInv, Rested, R
  <2>4. total - i < page * R
    BY <2>1, <2>2, <2>3
  <2> QED BY <2>3, <2>4 DEF Covered
<1> QED BY <1>1, PageInvariant, PTL
=============================================================================
