------------------------- MODULE AuditQueriesProofs -------------------------
(***************************************************************************)
(* GET /api/v1/audit, for any int, any page sizes and any clients: the     *)
(* answer is the page asked for, whatever the parameters, unless its       *)
(* offset wraps.                                                           *)
(***************************************************************************)
EXTENDS AuditQueries, MemoryLoggerProofs, SequenceTheorems,
        WellFoundedInduction

\* The log stays what MemoryLogger's proofs say, beside the queries.
QueriesInv == LogInv /\ TypeOK

\* The parameters a handler goes on with: a page that is positive, a size that
\* is allowed.
LEMMA ParametersValid ==
  ASSUME NEW q \in Query
  PROVE  /\ PageNumber(q.page) \in Nat \ {0} /\ PageSize(q.size) \in 1 .. MaxPageSize
         /\ PageSize(q.size) \in Nat \ {0}
<1>1. q.page \in Int /\ q.size \in Int
  BY IntAssumption DEF Query, MinInt
<1> QED
  BY <1>1, SizeAssumption DEF PageNumber, PageSize

\* No trail is so long that the end of a page would wrap.
LEMMA EndsFit ==
  ASSUME LogInv, NEW size \in 1 .. MaxPageSize
  PROVE  /\ events \in Seq(Event) /\ Len(events) \in 0 .. MaxEvents
         /\ Len(events) + size <= MaxInt
<1>1. events \in Seq(Event) /\ Len(events) \in Nat /\ Len(events) <= MaxEvents
  BY TrailBounded DEF LogInv, LogTypeOK
<1> QED
  BY <1>1, EventsAssumption, TrailAssumption, IntAssumption, SizeAssumption

\* The rows that lie before a page.
LEMMA Offset ==
  ASSUME NEW page \in Nat \ {0}, NEW size \in Nat
  PROVE  (page - 1) * size \in Nat
<1>1. page - 1 \in Nat
  OBVIOUS
<1> DEFINE m == page - 1
<1> HIDE DEF m
<1>2. m \in Nat
  BY <1>1 DEF m
<1>3. m * size \in Nat
  BY <1>2
<1> QED
  BY <1>3 DEF m

\* The slice of a page: the k-th of its rows is the event that from + k - 1
\* newer ones precede.
LEMMA SliceRows ==
  ASSUME NEW S, NEW s \in Seq(S), NEW from \in Nat, NEW to \in Nat,
         from <= to, to <= Len(s)
  PROVE  /\ Slice(s, from, to) \in Seq(S)
         /\ DOMAIN Slice(s, from, to) = 1 .. to - from
         /\ \A k \in 1 .. to - from :
              /\ Len(s) - from - k + 1 \in 1 .. Len(s)
              /\ Slice(s, from, to)[k] = s[Len(s) - from - k + 1]
<1> DEFINE n == Len(s)
<1>1. n \in Nat /\ to - from \in Nat
  OBVIOUS
<1>2. \A k \in 1 .. to - from : n - from - k + 1 \in 1 .. n
  BY <1>1
<1>3. \A k \in 1 .. to - from : s[n - from - k + 1] \in S
  BY <1>2
<1>4. Slice(s, from, to) = [k \in 1 .. to - from |-> s[n - from - k + 1]]
  BY DEF Slice
<1> QED
  BY <1>1, <1>2, <1>3, <1>4

\* Whatever the page, wrapped or not, the answer is a list of events and a total.
LEMMA AnswerTyped ==
  ASSUME NEW S, NEW s \in Seq(S), NEW page \in Nat \ {0}, NEW size \in Nat \ {0},
         Len(s) + size <= MaxInt
  PROVE  List(s, page, size) \in [ok : BOOLEAN, events : Seq(S), total : 0 .. Len(s)]
<1> DEFINE n == Len(s)
           a == Wrap((page - 1) * size)
           b == IF Wrap(a + size) > n THEN n ELSE a + size
<1>1. n \in Nat /\ MaxInt \in Nat /\ (page - 1) * size \in Nat
  BY Offset, IntAssumption
<1>2. a \in Int
  BY <1>1 DEF Wrap, MinInt
<1> HIDE DEF a
<1>3. List(s, page, size) = IF n = 0 \/ a >= n THEN Page(<< >>, n)
                            ELSE IF a < 0 THEN Panicked
                            ELSE Page(Slice(s, a, b), n)
  BY DEF List, a
<1>4. << >> \in Seq(S) /\ 0 \in 0 .. n /\ n \in 0 .. n
  BY <1>1
<1>5. CASE n = 0 \/ a >= n
  BY <1>3, <1>4, <1>5 DEF Page
<1>6. CASE ~(n = 0 \/ a >= n) /\ a < 0
  BY <1>3, <1>4, <1>6 DEF Panicked
<1>7. CASE ~(n = 0 \/ a >= n) /\ ~(a < 0)
  <2>1. a \in Nat /\ Wrap(a + size) = a + size
    BY <1>1, <1>2, <1>7 DEF Wrap, MinInt
  <2>2. b \in Nat /\ a <= b /\ b <= n
    BY <1>1, <1>7, <2>1
  <2> HIDE DEF b
  <2>3. Slice(s, a, b) \in Seq(S)
    BY <2>1, <2>2, SliceRows
  <2> QED
    BY <1>3, <1>4, <1>7, <2>3 DEF Page
<1> QED
  BY <1>5, <1>6, <1>7

\* Unless its offset wraps, a page holds the events that belong on it and no
\* other, each in its place.
LEMMA AnswerListed ==
  ASSUME NEW S, NEW s \in Seq(S), NEW page \in Nat \ {0}, NEW size \in Nat \ {0},
         Len(s) + size <= MaxInt, (page - 1) * size <= MaxInt
  PROVE  /\ List(s, page, size).ok
         /\ List(s, page, size).total = Len(s)
         /\ \A i \in 1 .. Len(s) :
              LET k == (Len(s) - i) - (page - 1) * size + 1
              IN  k \in 1 .. size <=>
                    \E m \in DOMAIN List(s, page, size).events :
                      m = k /\ List(s, page, size).events[m] = s[i]
<1> DEFINE n == Len(s)
           a == (page - 1) * size
           b == IF a + size > n THEN n ELSE a + size
<1>1. n \in Nat /\ MaxInt \in Nat /\ a \in Nat
  BY Offset, IntAssumption
<1>2. Wrap(a) = a
  BY <1>1 DEF Wrap, MinInt
<1> HIDE DEF a
<1>3. a < n => Wrap(a + size) = a + size
  BY <1>1 DEF Wrap, MinInt
<1>4. SUFFICES /\ List(s, page, size).ok /\ List(s, page, size).total = n
               /\ \A i \in 1 .. n :
                    n - i - a + 1 \in 1 .. size <=>
                      \E m \in DOMAIN List(s, page, size).events :
                        m = n - i - a + 1 /\ List(s, page, size).events[m] = s[i]
  BY DEF a
<1>5. CASE n = 0 \/ a >= n
  <2>1. List(s, page, size) = Page(<< >>, n)
    BY <1>2, <1>5 DEF List, a
  <2>2. \A i \in 1 .. n : n - i - a + 1 \notin 1 .. size
    BY <1>1, <1>5
  <2> QED
    BY <2>1, <2>2 DEF Page
<1>6. CASE ~(n = 0 \/ a >= n)
  <2>1. List(s, page, size) = Page(Slice(s, a, b), n)
    BY <1>1, <1>2, <1>3, <1>6 DEF List, a
  <2>2. b \in Nat /\ a <= b /\ b <= n
    BY <1>1, <1>6
  <2>3. \A i \in 1 .. n : n - i - a + 1 \in 1 .. size <=> n - i - a + 1 \in 1 .. b - a
    BY <1>1, <1>6
  <2> HIDE DEF b
  <2>4. /\ DOMAIN Slice(s, a, b) = 1 .. b - a
        /\ \A k \in 1 .. b - a : Slice(s, a, b)[k] = s[n - a - k + 1]
    <3>1. a \in Nat /\ b \in Nat /\ a <= b /\ b <= Len(s)
      BY <1>1, <2>2
    <3>2. /\ DOMAIN Slice(s, a, b) = 1 .. b - a
          /\ \A k \in 1 .. b - a : Slice(s, a, b)[k] = s[Len(s) - a - k + 1]
      BY <3>1, SliceRows
    <3> QED
      BY <3>2
  <2>5. ASSUME NEW i \in 1 .. n, n - i - a + 1 \in 1 .. b - a
        PROVE  Slice(s, a, b)[n - i - a + 1] = s[i]
    <3> DEFINE k == n - i - a + 1
    <3>1. n - a - k + 1 = i
      BY <1>1, <2>2
    <3> HIDE DEF k
    <3>2. k \in 1 .. b - a
      BY <2>5 DEF k
    <3>3. Slice(s, a, b)[k] = s[i]
      BY <2>4, <3>1, <3>2
    <3> QED
      BY <3>3 DEF k
  <2> QED
    BY <2>1, <2>3, <2>4, <2>5 DEF Page
<1> QED
  BY <1>5, <1>6

\* Math.ceil: the browser offers the pages that begin before the end of the trail.
LEMMA OfferedPages ==
  ASSUME NEW n \in Nat \ {0}, NEW size \in Nat \ {0}, NEW page \in Nat \ {0}
  PROVE  page <= TotalPages(n, size) <=> (page - 1) * size < n
<1> DEFINE q == n \div size
           r == n % size
           m == page - 1
<1>0. q \in Nat /\ r \in 0 .. size - 1 /\ n = size * q + r
  OBVIOUS
<1>2. TotalPages(n, size) = IF r = 0 THEN q ELSE q + 1
  BY DEF TotalPages
<1> HIDE DEF q, r
<1>1. q \in Nat /\ r \in 0 .. size - 1 /\ n = q * size + r
  BY <1>0
<1>3. m \in Nat /\ page = m + 1
  OBVIOUS
<1> HIDE DEF m
<1>4. ASSUME NEW x \in Nat, NEW y \in Nat
      PROVE  /\ x * size \in Nat /\ y * size \in Nat
             /\ x <= y => x * size <= y * size
             /\ x < y => x * size + size <= y * size
  <2>1. x * size \in Nat /\ y * size \in Nat
    OBVIOUS
  <2>2. ASSUME NEW d \in Nat, y = x + d
        PROVE  y * size = x * size + d * size /\ d * size \in Nat
    BY <2>2, Z3
  <2>3. ASSUME NEW d \in Nat \ {0}
        PROVE  d * size >= size
    BY Z3
  <2>4. x <= y => y - x \in Nat /\ y = x + (y - x)
    OBVIOUS
  <2>5. x < y => y - x \in Nat \ {0}
    OBVIOUS
  <2>6. x <= y => y * size = x * size + (y - x) * size /\ (y - x) * size \in Nat
    BY <2>2, <2>4
  <2>7. x < y => (y - x) * size >= size
    BY <2>3, <2>5
  <2> QED
    BY <2>1, <2>6, <2>7
<1>5. CASE r = 0
  <2>1. m < q => m * size < n
    BY <1>1, <1>3, <1>4, <1>5
  <2>2. q <= m => n <= m * size
    BY <1>1, <1>3, <1>4, <1>5
  <2> QED
    BY <1>1, <1>2, <1>3, <1>5, <2>1, <2>2 DEF m
<1>6. CASE r # 0
  <2>1. m <= q => m * size < n
    BY <1>1, <1>3, <1>4, <1>6
  <2>2. q < m => n <= m * size
    BY <1>1, <1>3, <1>4, <1>6
  <2> QED
    BY <1>1, <1>2, <1>3, <1>6, <2>1, <2>2 DEF m
<1> QED
  BY <1>5, <1>6

\* Induction, as a set of natural numbers has a least member.
LEMMA LeastMember ==
  ASSUME NEW T, T \subseteq Nat, T # {}
  PROVE  \E x \in T : \A y \in T : x <= y
<1> DEFINE R == OpToRel(<, Nat)
<1>1. IsWellFoundedOn(R, Nat)
  BY NatLessThanWellFounded
<1>2. \A x, y \in Nat : <<y, x>> \in R <=> y < x
  BY DEF OpToRel
<1> HIDE DEF R
<1>3. PICK x \in T : \A y \in T : ~ (<<y, x>> \in R)
  BY <1>1, WFMin
<1>4. x \in Nat
  BY <1>3
<1>5. ASSUME NEW y \in T PROVE x <= y
  <2>1. y \in Nat /\ ~ (<<y, x>> \in R)
    BY <1>3, <1>5
  <2>2. ~ (y < x)
    BY <1>2, <1>4, <2>1
  <2> QED
    BY <1>4, <2>1, <2>2
<1> QED
  BY <1>5

\* FlattenSeq, by what it has put together after each sequence.
LEMMA Flattened ==
  ASSUME NEW seqs, NEW n \in Nat \ {0}, Len(seqs) = n, NEW g,
         \A i \in 1 .. n : g[i] = IF i = 1 THEN seqs[i] ELSE g[i - 1] \o seqs[i]
  PROVE  FlattenSeq(seqs) = g[n]
<1> DEFINE h == [i \in 1 .. n |-> g[i]]
<1>0. h = [i \in 1 .. n |-> IF i = 1 THEN seqs[i] ELSE h[i - 1] \o seqs[i]]
  <2>1. ASSUME NEW i \in 1 .. n, i # 1 PROVE h[i - 1] = g[i - 1]
    <3>1. i - 1 \in 1 .. n
      BY <2>1
    <3> QED
      BY <3>1
  <2> QED
    BY <2>1
<1> HIDE DEF h
<1>1. PICK f : /\ f = [i \in 1 .. n |-> IF i = 1 THEN seqs[i] ELSE f[i - 1] \o seqs[i]]
               /\ FlattenSeq(seqs) = f[n]
  BY <1>0 DEF FlattenSeq
<1> DEFINE T == {i \in 1 .. n : f[i] # g[i]}
<1>2. SUFFICES ASSUME f[n] # g[n] PROVE FALSE
  BY <1>1
<1>21. T \subseteq Nat /\ n \in T
  BY <1>2
<1> HIDE DEF T
<1>3. PICK i \in T : \A j \in T : i <= j
  BY <1>21, LeastMember
<1>4. i \in 1 .. n /\ f[i] # g[i]
  BY <1>3 DEF T
<1>5. f[i] = IF i = 1 THEN seqs[i] ELSE f[i - 1] \o seqs[i]
  BY <1>1, <1>4
<1>6. g[i] = IF i = 1 THEN seqs[i] ELSE g[i - 1] \o seqs[i]
  BY <1>4
<1>7. i # 1
  BY <1>4, <1>5, <1>6
<1>8. i - 1 \in 1 .. n /\ ~ (i <= i - 1)
  BY <1>4, <1>7
<1>9. f[i - 1] = g[i - 1]
  BY <1>3, <1>8 DEF T
<1> QED
  BY <1>4, <1>5, <1>6, <1>9

\* Two slices that meet are one.
LEMMA SlicesJoin ==
  ASSUME NEW S, NEW s \in Seq(S), NEW a \in Nat, NEW b \in Nat, a <= b, b <= Len(s)
  PROVE  Slice(s, 0, a) \o Slice(s, a, b) = Slice(s, 0, b)
<1> DEFINE n == Len(s)
           u == Slice(s, 0, a)
           v == Slice(s, a, b)
           w == Slice(s, 0, b)
<1>1. n \in Nat /\ 0 <= a /\ a <= n /\ 0 <= b /\ 0 \in Nat
  OBVIOUS
<1>2. /\ u \in Seq(S) /\ DOMAIN u = 1 .. a
      /\ \A k \in 1 .. a : u[k] = s[n - k + 1]
  <2>1. /\ u \in Seq(S) /\ DOMAIN u = 1 .. a - 0
        /\ \A k \in 1 .. a - 0 : u[k] = s[n - 0 - k + 1]
    BY <1>1, SliceRows
  <2>2. a - 0 = a /\ n - 0 = n
    BY <1>1
  <2> QED
    BY <2>1, <2>2
<1>3. /\ w \in Seq(S) /\ DOMAIN w = 1 .. b
      /\ \A k \in 1 .. b : w[k] = s[n - k + 1]
  <2>1. /\ w \in Seq(S) /\ DOMAIN w = 1 .. b - 0
        /\ \A k \in 1 .. b - 0 : w[k] = s[n - 0 - k + 1]
    BY <1>1, SliceRows
  <2>2. b - 0 = b /\ n - 0 = n
    BY <1>1
  <2> QED
    BY <2>1, <2>2
<1>4. /\ v \in Seq(S) /\ DOMAIN v = 1 .. b - a
      /\ \A k \in 1 .. b - a : v[k] = s[n - a - k + 1]
  BY <1>1, SliceRows
<1> HIDE DEF u, v, w
<1>5. Len(u) = a /\ Len(v) = b - a /\ Len(w) = b
  BY <1>1, <1>2, <1>3, <1>4
<1>6. u \o v \in Seq(S) /\ Len(u \o v) = b
  BY <1>1, <1>2, <1>4, <1>5
<1>7. ASSUME NEW k \in 1 .. b PROVE (u \o v)[k] = w[k]
  <2>1. CASE k <= a
    <3>1. k \in 1 .. Len(u)
      BY <1>1, <1>5, <2>1
    <3>2. (u \o v)[k] = u[k]
      BY <1>2, <1>4, <3>1
    <3> QED
      BY <1>2, <1>3, <1>5, <3>1, <3>2
  <2>2. CASE ~ (k <= a)
    <3>1. k - a \in 1 .. b - a /\ n - a - (k - a) + 1 = n - k + 1
      BY <1>1, <2>2
    <3>2. (u \o v)[k] = v[k - a]
      <4>1. k \in Len(u) + 1 .. Len(u) + Len(v)
        BY <1>1, <1>5, <2>2
      <4>2. (u \o v)[k] = v[k - Len(u)]
        BY <1>2, <1>4, <4>1
      <4> QED
        BY <1>5, <4>2
    <3>3. v[k - a] = s[n - k + 1]
      BY <1>4, <3>1
    <3> QED
      BY <1>3, <3>2, <3>3
  <2> QED
    BY <2>1, <2>2
<1>8. u \o v = w
  <2>1. u \o v \in Seq(S) /\ w \in Seq(S) /\ Len(u \o v) = Len(w)
    BY <1>3, <1>5, <1>6
  <2>2. \A k \in 1 .. Len(u \o v) : (u \o v)[k] = w[k]
    BY <1>6, <1>7
  <2> QED
    BY <2>1, <2>2, SeqEqual
<1> QED
  BY <1>8 DEF u, v, w

\* Where the pages up to the given one end.
End(s, page, size) == IF page * size > Len(s) THEN Len(s) ELSE page * size

\* A page the browser offers goes on where the one before it ended, the first
\* at the newest event, and the last ends at the oldest.
LEMMA OfferedRows ==
  ASSUME NEW S, NEW s \in Seq(S), Len(s) # 0, NEW size \in Nat \ {0},
         Len(s) + size <= MaxInt,
         NEW page \in Nat \ {0}, page <= TotalPages(Len(s), size)
  PROVE  /\ List(s, page, size).events = Slice(s, End(s, page - 1, size), End(s, page, size))
         /\ End(s, page - 1, size) \in Nat /\ End(s, page, size) \in Nat
         /\ End(s, page - 1, size) <= End(s, page, size) /\ End(s, page, size) <= Len(s)
         /\ page = 1 => End(s, page - 1, size) = 0
         /\ page = TotalPages(Len(s), size) => End(s, page, size) = Len(s)
<1> DEFINE n == Len(s)
           m == page - 1
           a == m * size
           b == IF a + size > n THEN n ELSE a + size
<1>1. n \in Nat \ {0} /\ MaxInt \in Nat /\ m \in Nat /\ page = m + 1
  BY IntAssumption
<1>2. a < n
  BY <1>1, OfferedPages
<1> HIDE DEF m
<1>3. a \in Nat /\ page * size = a + size /\ (m = 0 => a = 0)
  BY <1>1
<1>4. End(s, m, size) = a /\ End(s, page, size) = b
  BY <1>1, <1>2, <1>3 DEF End
<1>5. page = TotalPages(n, size) => b = n
  <2>1. page + 1 \in Nat \ {0} /\ (page + 1) - 1 = page
    OBVIOUS
  <2>2. page + 1 <= TotalPages(n, size) <=> page * size < n
    BY <1>1, <2>1, OfferedPages
  <2>3. page = TotalPages(n, size) => ~ (a + size < n)
    BY <1>3, <2>2
  <2> QED
    BY <1>1, <1>3, <2>3
<1> HIDE DEF a
<1>6. Wrap(a) = a /\ Wrap(a + size) = a + size
  BY <1>1, <1>2, <1>3 DEF Wrap, MinInt
<1>7. List(s, page, size).events = Slice(s, a, b)
  <2>1. List(s, page, size) = Page(Slice(s, a, b), n)
    BY <1>1, <1>2, <1>3, <1>6 DEF List, a, m
  <2> QED
    BY <2>1 DEF Page
<1>8. b \in Nat /\ a <= b /\ b <= n
  BY <1>1, <1>2, <1>3
<1>9. m = page - 1
  BY <1>1
<1> QED
  BY <1>3, <1>4, <1>5, <1>7, <1>8, <1>9

\* The pages of a trail, one after another.
LEMMA PagesJoin ==
  ASSUME NEW S, NEW s \in Seq(S), NEW size \in Nat \ {0}, Len(s) + size <= MaxInt
  PROVE  FlattenSeq([p \in 1 .. TotalPages(Len(s), size) |-> List(s, p, size).events])
           = Reverse(s)
<1> DEFINE n == Len(s)
           last == TotalPages(n, size)
           pages == [p \in 1 .. last |-> List(s, p, size).events]
           g == [p \in 1 .. last |-> Slice(s, 0, End(s, p, size))]
<1>1. n \in Nat /\ last \in Nat \ {0}
  <2>1. CASE n = 0
    BY <2>1 DEF TotalPages
  <2>2. CASE n # 0
    <3>1. 1 \in Nat \ {0} /\ (1 - 1) * size = 0 /\ n \in Nat \ {0} /\ 0 < n
      BY <2>2
    <3>2. 1 <= last
      BY <3>1, OfferedPages
    <3>3. last \in Int
      BY DEF TotalPages
    <3> QED
      BY <3>1, <3>2, <3>3
  <2> QED
    BY <2>1, <2>2
<1>2. Slice(s, 0, n) = Reverse(s)
  <2>1. n - 0 = n /\ \A k \in 1 .. n : n - 0 - k + 1 = (n - k) + 1
    BY <1>1
  <2> QED
    BY <2>1 DEF Slice, Reverse
<1>3. Len(pages) = last
  BY <1>1
<1>4. ASSUME n = 0
      PROVE  last = 1 /\ pages[1] = << >> /\ g[1] = << >>
  <2>1. last = 1 /\ List(s, 1, size) = Page(<< >>, n)
    BY <1>4 DEF TotalPages, List
  <2>2. pages[1] = << >>
    BY <2>1 DEF Page
  <2>3. End(s, 1, size) = 0
    BY <1>4 DEF End
  <2>4. g[1] = Slice(s, 0, 0)
    BY <2>1, <2>3
  <2>5. Slice(s, 0, 0) = << >>
    BY DEF Slice
  <2> QED
    BY <2>1, <2>2, <2>4, <2>5
<1>5. ASSUME NEW p \in 1 .. last
      PROVE  g[p] = IF p = 1 THEN pages[p] ELSE g[p - 1] \o pages[p]
  <2>1. CASE n = 0
    <3> HIDE DEF g, pages, last
    <3> QED
      BY <1>4, <2>1
  <2>2. CASE n # 0
    <3> DEFINE a == End(s, p - 1, size)
               b == End(s, p, size)
    <3>1. p \in Nat \ {0} /\ p <= last
      BY <1>1
    <3>2. /\ pages[p] = Slice(s, a, b) /\ a \in Nat /\ b \in Nat /\ a <= b /\ b <= n
          /\ (p = 1 => a = 0)
      BY <2>2, <3>1, OfferedRows
    <3> HIDE DEF a, pages, last
    <3>3. CASE p = 1
      BY <3>2, <3>3
    <3>4. CASE p # 1
      <4>1. p - 1 \in 1 .. last
        BY <1>1, <3>1, <3>4
      <4>2. g[p - 1] = Slice(s, 0, a)
        BY <4>1 DEF a
      <4> HIDE DEF b
      <4>3. Slice(s, 0, a) \o Slice(s, a, b) = Slice(s, 0, b)
        BY <3>2, SlicesJoin
      <4> QED
        BY <3>2, <3>4, <4>2, <4>3 DEF b
    <3> QED
      BY <3>3, <3>4
  <2> QED
    BY <2>1, <2>2
<1>6. g[last] = Reverse(s)
  <2>1. CASE n = 0
    <3>1. Reverse(s) = << >>
      BY <2>1 DEF Reverse
    <3> HIDE DEF g, pages, last
    <3> QED
      BY <1>4, <2>1, <3>1
  <2>2. CASE n # 0
    <3>1. End(s, last, size) = n
      BY <1>1, <2>2, OfferedRows
    <3> QED
      BY <1>1, <1>2, <3>1
  <2> QED
    BY <2>1, <2>2
<1> HIDE DEF g, pages, last
<1>7. FlattenSeq(pages) = g[last]
  BY <1>1, <1>3, <1>5, Flattened
<1> QED
  BY <1>6, <1>7 DEF pages, last

\* No request and no event yet.
LEMMA QueriesStart == Init => QueriesInv
<1> SUFFICES ASSUME Init PROVE QueriesInv
  OBVIOUS
<1>1. LogInv
  BY LogInitInv DEF Init
<1>2. query \in Query
  BY IntAssumption DEF Init, Query, MinInt
<1>3. reply \in [ok : BOOLEAN, events : Seq(Event), total : 0 .. MaxEvents]
  BY EventsAssumption DEF Init, Page
<1> QED
  BY <1>1, <1>2, <1>3 DEF QueriesInv, TypeOK, LogInv

\* Logging leaves the answer alone; asking leaves the trail alone.
LEMMA QueriesStep == QueriesInv /\ [Next]_vars => QueriesInv'
<1> SUFFICES ASSUME QueriesInv, [Next]_vars PROVE QueriesInv'
  OBVIOUS
<1>1. LogInv'
  <2>1. [LogStep]_logVars
    BY DEF Next, Ask, vars
  <2> QED
    BY <2>1, LogStepInv DEF QueriesInv
<1>2. CASE UNCHANGED <<query, reply>>
  BY <1>1, <1>2 DEF QueriesInv, TypeOK, LogInv
<1>3. CASE Ask
  <2> DEFINE page == PageNumber(query'.page)
             size == PageSize(query'.size)
  <2>1. query' \in Query /\ reply' = List(events, page, size)
    BY <1>3, QueriesAssumption DEF Ask
  <2>2. page \in Nat \ {0} /\ size \in Nat \ {0} /\ size \in 1 .. MaxPageSize
    BY <2>1, ParametersValid
  <2> HIDE DEF page, size
  <2>3. /\ events \in Seq(Event) /\ Len(events) \in 0 .. MaxEvents
        /\ Len(events) + size <= MaxInt
    BY <2>2, EndsFit DEF QueriesInv
  <2>4. reply' \in [ok : BOOLEAN, events : Seq(Event), total : 0 .. Len(events)]
    BY <2>1, <2>2, <2>3, AnswerTyped
  <2>5. 0 .. Len(events) \subseteq 0 .. MaxEvents
    BY <2>3, EventsAssumption
  <2>6. reply' \in [ok : BOOLEAN, events : Seq(Event), total : 0 .. MaxEvents]
    BY <2>4, <2>5
  <2> QED
    BY <1>1, <2>1, <2>6 DEF QueriesInv, TypeOK, LogInv
<1> QED
  BY <1>2, <1>3 DEF Next, vars

\* The invariant of the log and of the last answer.
THEOREM QueriesInvariant == Spec => []QueriesInv
BY QueriesStart, QueriesStep, PTL DEF Spec

\* The log and the answers are of their types, also when an offset wraps.
THEOREM QueriesTypeCorrect == Spec => []TypeOK
<1>1. QueriesInv => TypeOK
  BY DEF QueriesInv
<1> QED
  BY <1>1, QueriesInvariant, PTL

\* audit.Handler.List and MemoryLogger.List: whatever is asked for and whoever
\* logs meanwhile, the answer is exactly the page that was asked for, unless its
\* offset is beyond the largest int.
THEOREM AnswersArePages == Spec => AnswerIsThePage
<1> DEFINE page == PageNumber(query'.page)
           size == IF query'.size \in 1 .. MaxPageSize THEN query'.size
                   ELSE DefaultPageSize
<1>1. ASSUME QueriesInv, [Next]_vars, reply' # reply, ~Overflows(page, size)
      PROVE  /\ reply'.ok
             /\ reply'.total = Len(events)
             /\ \A i \in 1 .. Len(events) :
                  LET newer == Len(events) - i
                      k     == newer - (page - 1) * size + 1
                  IN  k \in 1 .. size <=>
                        \E n \in DOMAIN reply'.events : /\ n = k
                                                        /\ reply'.events[n] = events[i]
  <2>1. query' \in Query /\ reply' = List(events, page, size)
    BY <1>1, QueriesAssumption DEF Next, Ask, vars, PageSize
  <2>2. page \in Nat \ {0} /\ size \in Nat \ {0} /\ size \in 1 .. MaxPageSize
    BY <2>1, ParametersValid DEF PageSize
  <2> HIDE DEF page, size
  <2>3. events \in Seq(Event) /\ Len(events) + size <= MaxInt
    BY <1>1, <2>2, EndsFit DEF QueriesInv
  <2>4. (page - 1) * size <= MaxInt
    <3>1. (page - 1) * size \in Nat /\ MaxInt \in Nat
      BY <2>2, Offset, IntAssumption
    <3> QED
      BY <1>1, <3>1 DEF Overflows
  <2> QED
    BY <2>1, <2>2, <2>3, <2>4, AnswerListed
<1>2. QueriesInv /\ [Next]_vars =>
        [reply' # reply /\ ~Overflows(page, size) =>
           /\ reply'.ok
           /\ reply'.total = Len(events)
           /\ \A i \in 1 .. Len(events) :
                LET newer == Len(events) - i
                    k     == newer - (page - 1) * size + 1
                IN  k \in 1 .. size <=>
                      \E n \in DOMAIN reply'.events : /\ n = k
                                                      /\ reply'.events[n] = events[i]]_vars
  BY <1>1
<1> QED
  BY <1>2, QueriesInvariant, PTL DEF Spec, AnswerIsThePage

\* audit.Handler.List as the browser walks it: however long the trail and
\* whatever the size of a page, the pages from the first to the last it offers
\* are the trail, newest event first.
THEOREM PagesAreTheTrail == Spec => []PagesCoverTrail
<1>1. QueriesInv => PagesCoverTrail
  <2> SUFFICES ASSUME QueriesInv, NEW size \in 1 .. MaxPageSize
               PROVE  FlattenSeq([p \in 1 .. TotalPages(Len(events), size) |->
                                    List(events, p, size).events]) = Reverse(events)
    BY DEF PagesCoverTrail
  <2>1. events \in Seq(Event) /\ Len(events) + size <= MaxInt /\ size \in Nat \ {0}
    BY EndsFit, SizeAssumption DEF QueriesInv
  <2> QED
    BY <2>1, PagesJoin
<1> QED
  BY <1>1, QueriesInvariant, PTL
=============================================================================
