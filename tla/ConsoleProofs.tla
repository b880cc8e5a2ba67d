----------------------------- MODULE ConsoleProofs -----------------------------
(***************************************************************************)
(* For any roles, policies, accounts and any number of requests: what the  *)
(* pages of the console show.  First the requests in flight and the types; *)
(* then one inductive invariant for each thing the pages promise.          *)
(***************************************************************************)
EXTENDS Console, FiniteSetTheorems, TLAPS

\* A request with another mark.
Late(q, l)    == [q EXCEPT !.late = l]
Orphan(q)     == [q EXCEPT !.orphan = TRUE]
Handled(q, a) == [q EXCEPT !.served = TRUE, !.answer = a]

MembersOK == members \in Seq(SUBSET Accounts) /\ members # << >>

\* What every step leaves of the counters that requests speak of, and of the
\* accounts there have been.
Grows ==
  /\ sent' \in 0 .. MaxRequests /\ sent <= sent'
  /\ MembersOK'
  /\ Len(members') \in Nat /\ Len(members) <= Len(members')
  /\ \A v \in 1 .. Len(members) : members'[v] = members[v]
  /\ Len(past') \in Nat /\ Len(past) <= Len(past')

-----------------------------------------------------------------------------
(* What a step leaves of the requests in flight.                           *)

\* A request by its fields.
Rec(n, kind, arg, served, answer, late, orphan) ==
  [n |-> n, kind |-> kind, arg |-> arg, served |-> served,
   answer |-> answer, late |-> late, orphan |-> orphan]

\* Its fields.
LEMMA Fields ==
  ASSUME NEW p, NEW n, NEW kind, NEW arg, NEW served, NEW answer, NEW late, NEW orphan,
         p = Rec(n, kind, arg, served, answer, late, orphan)
  PROVE  /\ p.n = n /\ p.kind = kind /\ p.arg = arg /\ p.served = served
         /\ p.answer = answer /\ p.late = late /\ p.orphan = orphan
BY DEF Rec

\* What EXCEPT makes of a well-formed request.
LEMMA Marked ==
  ASSUME NEW q, RequestOK(q)
  PROVE  /\ \A x : [q EXCEPT !.late = x]
                    = Rec(q.n, q.kind, q.arg, q.served, q.answer, x, q.orphan)
         /\ \A x : [q EXCEPT !.orphan = x]
                    = Rec(q.n, q.kind, q.arg, q.served, q.answer, q.late, x)
         /\ \A x, y : [q EXCEPT !.served = x, !.answer = y]
                       = Rec(q.n, q.kind, q.arg, x, y, q.late, q.orphan)
<1>1. PICK n, kind, arg, served, answer, late, orphan :
        q = Rec(n, kind, arg, served, answer, late, orphan)
  BY DEF RequestOK, Rec
<1>2. /\ q.n = n /\ q.kind = kind /\ q.arg = arg /\ q.served = served
      /\ q.answer = answer /\ q.late = late /\ q.orphan = orphan
  BY <1>1, Fields
<1>3. ASSUME NEW x
      PROVE  [q EXCEPT !.late = x] = Rec(n, kind, arg, served, answer, x, orphan)
  BY <1>1 DEF Rec
<1>4. ASSUME NEW x
      PROVE  [q EXCEPT !.orphan = x] = Rec(n, kind, arg, served, answer, late, x)
  BY <1>1 DEF Rec
<1>5. ASSUME NEW x, NEW y
      PROVE  [q EXCEPT !.served = x, !.answer = y] = Rec(n, kind, arg, x, y, late, orphan)
  <2> DEFINE p == [q EXCEPT !.served = x]
  <2>1. p = Rec(n, kind, arg, x, answer, late, orphan)
    BY <1>1 DEF Rec
  <2>2. [p EXCEPT !.answer = y] = Rec(n, kind, arg, x, y, late, orphan)
    <3> HIDE DEF p
    <3> QED BY <2>1 DEF Rec
  <2>3. [q EXCEPT !.served = x, !.answer = y] = [p EXCEPT !.answer = y]
    OBVIOUS
  <2> QED BY <2>2, <2>3
<1> QED BY <1>2, <1>3, <1>4, <1>5

\* A request stays well-formed.
LEMMA Kept ==
  ASSUME TypeOK, Grows, NEW q, RequestOK(q)
  PROVE  RequestOK(q)'
<1>1. sent \in Nat /\ Len(members) \in Nat /\ Len(past) \in Nat
  BY RequestsAssumption, DirectoryAssumption DEF TypeOK, RequestsTypeOK, PoliciesTypeOK
<1>2. q.n \in 1 .. sent'
  BY <1>1, RequestsAssumption DEF Grows, RequestOK
<1>3. AnswerOK(q)'
  BY <1>1 DEF Grows, RequestOK, AnswerOK
<1> QED BY <1>2, <1>3 DEF RequestOK

\* So does one that has become late.
LEMMA KeptLate ==
  ASSUME TypeOK, Grows, NEW q, RequestOK(q), NEW l \in BOOLEAN
  PROVE  LET p == Late(q, l)
         IN  /\ RequestOK(p)'
             /\ p.n = q.n /\ p.kind = q.kind /\ p.arg = q.arg /\ p.served = q.served
             /\ p.answer = q.answer /\ p.late = l /\ p.orphan = q.orphan
<1> DEFINE p == Late(q, l)
<1>1. p = Rec(q.n, q.kind, q.arg, q.served, q.answer, l, q.orphan)
  BY Marked DEF Late
<1> HIDE DEF p
<1>2. /\ p.n = q.n /\ p.kind = q.kind /\ p.arg = q.arg /\ p.served = q.served
      /\ p.answer = q.answer /\ p.late = l /\ p.orphan = q.orphan
  BY <1>1, Fields
<1>3. RequestOK(q)'
  BY Kept
<1>4. AnswerOK(p)'
  BY <1>2, <1>3 DEF RequestOK, AnswerOK
<1>5. RequestOK(p)'
  BY <1>1, <1>2, <1>3, <1>4 DEF RequestOK, Rec
<1> QED BY <1>2, <1>5 DEF p

\* So does one that is left behind.
LEMMA KeptOrphan ==
  ASSUME TypeOK, Grows, NEW q, RequestOK(q)
  PROVE  LET p == Orphan(q)
         IN  /\ RequestOK(p)'
             /\ p.n = q.n /\ p.kind = q.kind /\ p.orphan = TRUE
<1> DEFINE p == Orphan(q)
<1>1. PICK t : t = TRUE /\ p = Rec(q.n, q.kind, q.arg, q.served, q.answer, q.late, t)
  <2>1. \A x : [q EXCEPT !.orphan = x]
               = Rec(q.n, q.kind, q.arg, q.served, q.answer, q.late, x)
    BY Marked
  <2> QED BY <2>1 DEF Orphan
<1> HIDE DEF p
<1>2. /\ p.n = q.n /\ p.kind = q.kind /\ p.arg = q.arg /\ p.served = q.served
      /\ p.answer = q.answer /\ p.late = q.late /\ p.orphan = TRUE
  <2>1. p = Rec(q.n, q.kind, q.arg, q.served, q.answer, q.late, t)
    BY <1>1
  <2>2. /\ p.n = q.n /\ p.kind = q.kind /\ p.arg = q.arg /\ p.served = q.served
        /\ p.answer = q.answer /\ p.late = q.late /\ p.orphan = t
    BY <2>1, Fields
  <2> QED BY <1>1, <2>2
<1>3. RequestOK(q)'
  BY Kept
<1>4. AnswerOK(p)'
  BY <1>2, <1>3 DEF RequestOK, AnswerOK
<1>5. RequestOK(p)'
  BY <1>1, <1>2, <1>3, <1>4 DEF RequestOK, Rec
<1> QED BY <1>2, <1>5 DEF p

\* So does one that has got an answer its route may give.
LEMMA KeptHandled ==
  ASSUME TypeOK, Grows, NEW q, RequestOK(q), NEW a \in Nat
  PROVE  LET p == Handled(q, a)
         IN  /\ p.n = q.n /\ p.kind = q.kind /\ p.arg = q.arg /\ p.served = TRUE
             /\ p.answer = a /\ p.late = q.late /\ p.orphan = q.orphan
             /\ AnswerOK(p)' => RequestOK(p)'
<1> DEFINE p == Handled(q, a)
<1>1. PICK t : t = TRUE /\ p = Rec(q.n, q.kind, q.arg, t, a, q.late, q.orphan)
  <2>1. \A x, y : [q EXCEPT !.served = x, !.answer = y]
                  = Rec(q.n, q.kind, q.arg, x, y, q.late, q.orphan)
    BY Marked
  <2> QED BY <2>1 DEF Handled
<1> HIDE DEF p
<1>2. /\ p.n = q.n /\ p.kind = q.kind /\ p.arg = q.arg /\ p.served = TRUE
      /\ p.answer = a /\ p.late = q.late /\ p.orphan = q.orphan
  <2>1. p = Rec(q.n, q.kind, q.arg, t, a, q.late, q.orphan)
    BY <1>1
  <2>2. /\ p.n = q.n /\ p.kind = q.kind /\ p.arg = q.arg /\ p.served = t
        /\ p.answer = a /\ p.late = q.late /\ p.orphan = q.orphan
    BY <2>1, Fields
  <2> QED BY <1>1, <2>2
<1>3. RequestOK(q)'
  BY Kept
<1>4. AnswerOK(p)' => RequestOK(p)'
  BY <1>1, <1>2, <1>3 DEF RequestOK, Rec
<1> QED BY <1>2, <1>4 DEF p

\* What a request must be about.
ArgOK(kind, arg) ==
  /\ kind \in Methods
  /\ kind \in {"launch", "evaluate"} => arg \in Questions
  /\ kind = "test" => \E e \in Endpoints : arg = <<e>>

\* A new request.
LEMMA NewFields ==
  ASSUME NEW n, NEW kind, NEW arg, NEW p, p = NewRequest(n, kind, arg)
  PROVE  p.n = n /\ p.kind = kind /\ p.arg = arg /\ p.answer = 0
BY DEF NewRequest

\* Nobody has answered it, overtaken it or left it.
LEMMA NewMarks ==
  ASSUME NEW n, NEW kind, NEW arg, NEW p, p = NewRequest(n, kind, arg)
  PROVE  p.served = FALSE /\ p.late = FALSE /\ p.orphan = FALSE
BY DEF NewRequest

\* It is well-formed.
LEMMA NewKept ==
  ASSUME TypeOK, Grows, NEW n \in 1 .. sent', NEW kind, NEW arg, ArgOK(kind, arg),
         NEW p, p = NewRequest(n, kind, arg)
  PROVE  RequestOK(p)'
<1>1. p = Rec(p.n, p.kind, p.arg, p.served, p.answer, p.late, p.orphan)
  BY DEF NewRequest, Rec
<1>2. p.n = n /\ p.kind = kind /\ p.arg = arg /\ p.answer = 0
  BY NewFields
<1>3. p.served = FALSE /\ p.late = FALSE /\ p.orphan = FALSE
  BY NewMarks
<1>4. AnswerOK(p)'
  BY <1>2, <1>3, FeedAssumption DEF Grows, AnswerOK, ArgOK
<1>5. p.served \in BOOLEAN /\ p.late \in BOOLEAN /\ p.orphan \in BOOLEAN
  BY <1>3
<1>6. p.n \in 1 .. sent' /\ p.kind \in Methods /\ p.answer \in Nat
  BY <1>2 DEF ArgOK
<1> QED BY <1>1, <1>4, <1>5, <1>6 DEF RequestOK, Rec

-----------------------------------------------------------------------------
(* What the steps make of waiting.                                         *)

\* The requests in flight before a step.
LEMMA InFlightOK ==
  ASSUME TypeOK
  PROVE  /\ \A q \in waiting : RequestOK(q) /\ q.n \in Nat /\ q.n <= sent
         /\ \A q, r \in waiting : q.n = r.n => q = r
         /\ sent \in Nat
<1>1. sent \in Nat
  BY RequestsAssumption DEF TypeOK, RequestsTypeOK
<1> QED BY <1>1 DEF TypeOK, RequestsTypeOK, RequestOK

\* An answer of the backend.
LEMMA HandleOK ==
  ASSUME TypeOK, Grows, NEW r \in waiting, NEW a \in Nat, Handle(r, a),
         AnswerOK(Handled(r, a))'
  PROVE  RequestsTypeOK'
<1> DEFINE p == Handled(r, a)
<1>1. /\ RequestOK(r) /\ \A q \in waiting : RequestOK(q)
      /\ \A q, s \in waiting : q.n = s.n => q = s
  BY InFlightOK
<1>2. waiting' = (waiting \ {r}) \cup {q \in {p} : ~q.orphan}
  BY DEF Handle, Handled
<1>3. RequestOK(p)' /\ p.n = r.n
  BY <1>1, KeptHandled
<1> HIDE DEF p
<1>4. waiting' \subseteq (waiting \ {r}) \cup {p}
  BY <1>2
<1>5. \A q \in waiting' : RequestOK(q)'
  BY <1>1, <1>3, <1>4, Kept
<1>6. \A q, s \in waiting' : q.n = s.n => q = s
  BY <1>1, <1>3, <1>4
<1> QED BY <1>5, <1>6 DEF Grows, RequestsTypeOK

\* q is what r's end has made of o.
Later(q, o, r) ==
  /\ q.n = o.n /\ q.kind = o.kind /\ q.arg = o.arg /\ q.served = o.served
  /\ q.answer = o.answer /\ q.orphan = o.orphan
  /\ q.late = (o.late \/ (o.kind = r.kind /\ o.n < r.n))

\* What is in flight once r is over are the other requests, some of them late.
LEMMA WithoutOK ==
  ASSUME TypeOK, Grows, NEW r \in waiting
  PROVE  /\ \A q \in Without(r) :
              RequestOK(q)' /\ q.n <= sent /\ \E o \in waiting \ {r} : Later(q, o, r)
         /\ \A q, s \in Without(r) : q.n = s.n => q = s
         /\ \A o \in waiting \ {r} : \E q \in Without(r) : Later(q, o, r)
<1> DEFINE L(o) == (o.late \/ (o.kind = r.kind /\ o.n < r.n))
<1>1. Without(r) = {Late(o, L(o)) : o \in waiting \ {r}}
  BY DEF Without, Late
<1>2. ASSUME NEW o \in waiting
      PROVE  /\ RequestOK(Late(o, L(o)))' /\ Late(o, L(o)).n <= sent
             /\ Later(Late(o, L(o)), o, r)
  <2>1. RequestOK(o) /\ o.n <= sent
    BY InFlightOK
  <2>2. L(o) \in BOOLEAN
    OBVIOUS
  <2> HIDE DEF L
  <2>3. LET p == Late(o, L(o))
        IN  /\ RequestOK(p)'
            /\ p.n = o.n /\ p.kind = o.kind /\ p.arg = o.arg /\ p.served = o.served
            /\ p.answer = o.answer /\ p.late = L(o) /\ p.orphan = o.orphan
    BY <2>1, <2>2, KeptLate
  <2> DEFINE p == Late(o, L(o))
  <2> HIDE DEF p
  <2>4. /\ RequestOK(p)'
        /\ p.n = o.n /\ p.kind = o.kind /\ p.arg = o.arg /\ p.served = o.served
        /\ p.answer = o.answer /\ p.late = L(o) /\ p.orphan = o.orphan
    BY <2>3 DEF p
  <2>5. p.late = (o.late \/ (o.kind = r.kind /\ o.n < r.n))
    BY <2>4 DEF L
  <2>6. RequestOK(p)' /\ p.n <= sent /\ Later(p, o, r)
    BY <2>1, <2>4, <2>5 DEF Later
  <2> QED BY <2>6 DEF p
<1> HIDE DEF L
<1>3. \A q \in Without(r) : \E o \in waiting \ {r} : q = Late(o, L(o))
  BY <1>1
<1>4. \A q \in Without(r) :
        RequestOK(q)' /\ q.n <= sent /\ \E o \in waiting \ {r} : Later(q, o, r)
  BY <1>2, <1>3
<1>5. ASSUME NEW q \in Without(r), NEW s \in Without(r), q.n = s.n
      PROVE  q = s
  <2>1. PICK o \in waiting \ {r} : q = Late(o, L(o))
    BY <1>3
  <2>2. PICK u \in waiting \ {r} : s = Late(u, L(u))
    BY <1>3
  <2>3. q.n = o.n /\ s.n = u.n
    BY <1>2, <2>1, <2>2 DEF Later
  <2>4. o = u
    BY <1>5, <2>3, InFlightOK
  <2> QED BY <2>1, <2>2, <2>4
<1>6. \A o \in waiting \ {r} : \E q \in Without(r) : Later(q, o, r)
  BY <1>1, <1>2
<1> QED BY <1>4, <1>5, <1>6

\* A request that is over.
LEMMA OverOK ==
  ASSUME TypeOK, Grows, NEW r \in waiting, Over(r)
  PROVE  RequestsTypeOK'
<1>1. waiting' = Without(r)
  BY DEF Over
<1> QED BY <1>1, WithoutOK DEF Grows, RequestsTypeOK

\* A request that is over, and the next one.
LEMMA OverAndAskOK ==
  ASSUME TypeOK, Grows, NEW r \in waiting, NEW kind, NEW arg, ArgOK(kind, arg),
         sent' = sent + 1, waiting' = Without(r) \cup {Asked(kind, arg)}
  PROVE  RequestsTypeOK'
<1>1. PICK n : n = sent + 1
  OBVIOUS
<1>2. n \in 1 .. sent'
  BY <1>1, InFlightOK
<1>3. PICK p : p = NewRequest(n, kind, arg)
  OBVIOUS
<1>4. RequestOK(p)' /\ p.n = n
  <2>1. RequestOK(p)'
    BY <1>2, <1>3, NewKept
  <2>2. p.n = n
    BY <1>3, NewFields
  <2> QED BY <2>1, <2>2
<1>5. waiting' = Without(r) \cup {p}
  BY <1>1, <1>3 DEF Asked
<1>6. /\ \A q \in Without(r) : RequestOK(q)'
      /\ \A q, s \in Without(r) : q.n = s.n => q = s
  BY WithoutOK
<1>7. \A q \in Without(r) : q.n # p.n
  <2>1. \A q \in Without(r) : \E o \in waiting : q.n = o.n
    BY WithoutOK DEF Later
  <2> QED BY <1>1, <1>4, <2>1, InFlightOK
<1>8. \A q \in waiting' : RequestOK(q)'
  BY <1>4, <1>5, <1>6
<1>9. \A q, s \in waiting' : q.n = s.n => q = s
  BY <1>5, <1>6, <1>7
<1> QED BY <1>8, <1>9 DEF Grows, RequestsTypeOK

\* The next request.
LEMMA AskOK ==
  ASSUME TypeOK, Grows, NEW kind, NEW arg, ArgOK(kind, arg), Ask(kind, arg)
  PROVE  RequestsTypeOK'
<1>1. PICK n : n = sent + 1
  OBVIOUS
<1>2. PICK p : p = NewRequest(n, kind, arg)
  OBVIOUS
<1>3. sent' = n /\ waiting' = waiting \cup {p}
  BY <1>1, <1>2 DEF Ask, Asked
<1>4. n \in 1 .. sent'
  BY <1>1, <1>3, InFlightOK
<1>5. RequestOK(p)' /\ p.n = n
  <2>1. RequestOK(p)'
    BY <1>2, <1>4, NewKept
  <2>2. p.n = n
    BY <1>2, NewFields
  <2> QED BY <2>1, <2>2
<1>6. \A q \in waiting : RequestOK(q)' /\ q.n # p.n
  BY <1>1, <1>5, InFlightOK, Kept
<1>7. \A q \in waiting' : RequestOK(q)'
  BY <1>3, <1>5, <1>6
<1>8. \A q, s \in waiting' : q.n = s.n => q = s
  BY <1>3, <1>6, InFlightOK
<1> QED BY <1>7, <1>8 DEF Grows, RequestsTypeOK

\* Nothing happens to the requests.
LEMMA SameRequestsOK ==
  ASSUME TypeOK, Grows, UNCHANGED <<waiting, sent>>
  PROVE  RequestsTypeOK'
BY InFlightOK, Kept DEF Grows, RequestsTypeOK

\* What a page asks for when it is opened.
LEMMA OpeningIs ==
  ASSUME NEW p, NEW n, NEW q \in Opening(p, n)
  PROVE  \E kind \in {"listPolicies", "listUsers", "listAuditLogs"} :
           q = NewRequest(n, kind, << >>)
BY DEF Opening

\* Leaving a page, and the requests of the next one.
LEMMA NavigateOK ==
  ASSUME TypeOK, Grows, NEW p \in Pages, Navigate(p)
  PROVE  RequestsTypeOK'
<1>1. PICK n : n = sent + 1
  OBVIOUS
<1>2. waiting' = Left(PolicyWrites) \cup Opening(p, n)
  BY <1>1 DEF Navigate
<1>3. ASSUME NEW q \in Left(PolicyWrites)
      PROVE  RequestOK(q)' /\ \E o \in waiting : q = Orphan(o) /\ q.n = o.n
  <2>1. PICK o \in waiting : q = Orphan(o)
    BY DEF Left, Orphan
  <2>2. RequestOK(o)
    BY InFlightOK
  <2>3. RequestOK(Orphan(o))' /\ Orphan(o).n = o.n
    BY <2>2, KeptOrphan
  <2> QED BY <2>1, <2>3
<1>4. ASSUME NEW q \in Opening(p, n)
      PROVE  RequestOK(q)' /\ q.n = n
  <2>1. PICK kind \in {"listPolicies", "listUsers", "listAuditLogs"} :
          q = NewRequest(n, kind, << >>)
    BY OpeningIs
  <2>2. sent' = sent + 1
    BY <1>1 DEF Navigate
  <2>3. n \in 1 .. sent'
    BY <1>1, <2>2, InFlightOK
  <2>4. ArgOK(kind, << >>)
    BY DEF ArgOK, Methods
  <2>5. RequestOK(q)'
    BY <2>1, <2>3, <2>4, NewKept
  <2>6. q.n = n
    BY <2>1, NewFields
  <2> QED BY <2>5, <2>6
<1>5. \A q \in waiting' : RequestOK(q)'
  BY <1>2, <1>3, <1>4
<1>6. ASSUME NEW q \in waiting', NEW s \in waiting', q.n = s.n
      PROVE  q = s
  <2>1. CASE q \in Left(PolicyWrites) /\ s \in Left(PolicyWrites)
    BY <1>3, <1>6, <2>1, InFlightOK
  <2>2. CASE q \in Opening(p, n) /\ s \in Opening(p, n)
    BY <2>2 DEF Opening
  <2>3. ASSUME NEW a \in Left(PolicyWrites), NEW b \in Opening(p, n)
        PROVE  a.n # b.n
    BY <1>1, <1>3, <1>4, InFlightOK
  <2> QED BY <1>2, <1>6, <2>1, <2>2, <2>3
<1> QED BY <1>5, <1>6 DEF Grows, RequestsTypeOK

-----------------------------------------------------------------------------
(* Types.                                                                  *)

\* The counters are numbers.
LEMMA Counters ==
  ASSUME TypeOK
  PROVE  /\ sent \in Nat /\ sent <= MaxRequests /\ MaxRequests \in Nat
         /\ MembersOK /\ Len(members) \in Nat /\ 1 <= Len(members)
         /\ past \in Seq(SUBSET PolicyIds) /\ Len(past) \in Nat
BY RequestsAssumption, DirectoryAssumption DEF TypeOK, RequestsTypeOK, PoliciesTypeOK, MembersOK

\* A step adds one to a counter, or leaves it.
LEMMA GrowsIf ==
  ASSUME TypeOK,
         sent' = sent \/ (sent < MaxRequests /\ sent' = sent + 1),
         members' = members \/ \E set \in SUBSET Accounts : members' = Append(members, set),
         past' = past \/ \E set \in SUBSET PolicyIds : past' = Append(past, set)
  PROVE  Grows
<1>1. sent' \in 0 .. MaxRequests /\ sent <= sent'
  BY Counters
<1>2. /\ MembersOK' /\ Len(members') \in Nat /\ Len(members) <= Len(members')
      /\ \A v \in 1 .. Len(members) : members'[v] = members[v]
  <2>1. CASE members' = members
    BY <2>1, Counters DEF MembersOK
  <2>2. ASSUME NEW set \in SUBSET Accounts, members' = Append(members, set)
        PROVE  /\ MembersOK' /\ Len(members') \in Nat /\ Len(members) <= Len(members')
               /\ \A v \in 1 .. Len(members) : members'[v] = members[v]
    BY <2>2, Counters DEF MembersOK
  <2> QED BY <2>1, <2>2
<1>3. Len(past') \in Nat /\ Len(past) <= Len(past')
  BY Counters
<1> QED BY <1>1, <1>2, <1>3 DEF Grows

\* The table and form of the policies page.
LEMMA PoliciesPageTypes ==
  ASSUME TypeOK, PoliciesPageStep, UNCHANGED members
  PROVE  Grows /\ RequestsTypeOK' /\ PoliciesTypeOK'
<1>1. CASE ToggleForm \/ TypeName
  <2>1. UNCHANGED <<waiting, sent, past>>
    BY <1>1 DEF ToggleForm, TypeName, policyServer
  <2>2. Grows
    BY <2>1, GrowsIf
  <2>3. PoliciesTypeOK'
    BY <1>1 DEF TypeOK, PoliciesTypeOK, ToggleForm, TypeName, policyServer
  <2> QED BY <2>1, <2>2, <2>3, SameRequestsOK
<1>2. ASSUME NEW kind \in PolicyWrites, NEW arg, Ask(kind, arg), UNCHANGED policyVars
      PROVE  Grows /\ RequestsTypeOK' /\ PoliciesTypeOK'
  <2>1. Grows
    BY <1>2, GrowsIf DEF Ask, policyVars, policyServer
  <2>2. ArgOK(kind, arg)
    BY DEF ArgOK, Methods, PolicyWrites
  <2>3. PoliciesTypeOK'
    BY <1>2 DEF TypeOK, PoliciesTypeOK, policyVars, policyServer, policyPage, policyView
  <2> QED BY <1>2, <2>1, <2>2, <2>3, AskOK
<1>3. CASE SubmitCreate
  BY <1>2, <1>3 DEF SubmitCreate, PolicyWrites
<1>4. ASSUME NEW p \in PolicyIds, ClickDelete(p)
      PROVE  Grows /\ RequestsTypeOK' /\ PoliciesTypeOK'
  BY <1>2, <1>4 DEF ClickDelete, PolicyWrites
<1>5. ASSUME NEW r \in PolicyLists, ListArrives(r)
      PROVE  Grows /\ RequestsTypeOK' /\ PoliciesTypeOK'
  <2>1. r \in waiting /\ r.kind = "listPolicies"
    BY DEF PolicyLists, InFlight
  <2>2. Over(r) /\ UNCHANGED <<sent, past>>
    BY <1>5 DEF ListArrives, Over, policyServer
  <2>3. Grows
    BY <2>2, GrowsIf
  <2>4. r.answer \in 1 .. Len(past)
    BY <1>5, <2>1, InFlightOK, Counters DEF ListArrives, Answered, RequestOK, AnswerOK
  <2>5. past[r.answer] \in SUBSET PolicyIds
    BY <2>4, Counters
  <2>6. r.late \in BOOLEAN
    BY <2>1, InFlightOK DEF RequestOK
  <2>7. PoliciesTypeOK'
    BY <1>5, <2>5, <2>6 DEF TypeOK, PoliciesTypeOK, ListArrives, policyServer
  <2> QED BY <2>1, <2>2, <2>3, <2>7, OverOK
<1>6. ASSUME NEW r \in PolicyLists, ListFails(r)
      PROVE  Grows /\ RequestsTypeOK' /\ PoliciesTypeOK'
  <2>1. r \in waiting
    BY DEF PolicyLists, InFlight
  <2>2. Over(r) /\ UNCHANGED <<sent, past>>
    BY <1>6 DEF ListFails, Over, policyServer
  <2>3. Grows
    BY <2>2, GrowsIf
  <2>4. PoliciesTypeOK'
    BY <1>6 DEF TypeOK, PoliciesTypeOK, ListFails, policyServer
  <2> QED BY <2>1, <2>2, <2>3, <2>4, OverOK
<1>7. ASSUME NEW r \in InFlight(PolicyWrites), WriteDone(r)
      PROVE  Grows /\ RequestsTypeOK' /\ PoliciesTypeOK'
  <2>1. r \in waiting /\ r.kind \in PolicyWrites
    BY DEF InFlight
  <2>2. UNCHANGED past
    BY <1>7 DEF WriteDone, policyServer
  <2>3. Grows
    BY <1>7, <2>2, GrowsIf DEF WriteDone
  <2>4. ArgOK("listPolicies", << >>)
    BY DEF ArgOK, Methods
  <2>5. RequestsTypeOK'
    BY <1>7, <2>1, <2>3, <2>4, OverAndAskOK DEF WriteDone
  <2>6. r.answer \in 1 .. Len(past)
    BY <1>7, <2>1, InFlightOK, Counters
    DEF WriteDone, Answered, RequestOK, AnswerOK, PolicyWrites
  <2>7. acked' \in 1 .. Len(past)
    BY <1>7, <2>6 DEF WriteDone, TypeOK, PoliciesTypeOK
  <2>8. showCreateForm' \in BOOLEAN /\ policyName' \in BOOLEAN
    BY <1>7 DEF WriteDone, TypeOK, PoliciesTypeOK
  <2>9. PoliciesTypeOK'
    BY <1>7, <2>7, <2>8 DEF TypeOK, PoliciesTypeOK, WriteDone, policyServer
  <2> QED BY <2>3, <2>5, <2>9
<1>8. ASSUME NEW r \in InFlight(PolicyWrites), WriteFails(r)
      PROVE  Grows /\ RequestsTypeOK' /\ PoliciesTypeOK'
  <2>1. r \in waiting
    BY DEF InFlight
  <2>2. Over(r) /\ UNCHANGED <<sent, past>>
    BY <1>8 DEF WriteFails, Over, policyVars, policyServer
  <2>3. Grows
    BY <2>2, GrowsIf
  <2>4. PoliciesTypeOK'
    BY <1>8 DEF TypeOK, PoliciesTypeOK, WriteFails, policyVars, policyServer, policyPage, policyView
  <2> QED BY <2>1, <2>2, <2>3, <2>4, OverOK
<1> QED BY <1>1, <1>3, <1>4, <1>5, <1>6, <1>7, <1>8 DEF PoliciesPageStep, ListSettles

\* An answer that its route may give.
LEMMA AnswersOK ==
  ASSUME TypeOK, Grows, NEW r \in waiting, NEW a \in Nat, Handle(r, a),
         r.kind \in {"listPolicies", "createPolicy", "deletePolicy"} => a <= Len(past'),
         r.kind = "listPolicies" => a # 0,
         r.kind = "listUsers" => a <= Len(members'),
         r.kind = "listAuditLogs" => a <= FeedSize + 1
  PROVE  RequestsTypeOK'
<1>1. RequestOK(r)
  BY InFlightOK
<1>2. PICK p : p = Handled(r, a)
  OBVIOUS
<1>3. p.kind = r.kind /\ p.arg = r.arg /\ p.answer = a
  BY <1>1, <1>2, KeptHandled
<1>4. /\ r.kind \in {"launch", "evaluate"} => r.arg \in Questions
      /\ r.kind = "test" => \E e \in Endpoints : r.arg = <<e>>
  BY <1>1 DEF RequestOK, AnswerOK
<1>5. AnswerOK(p)'
  BY <1>3, <1>4 DEF AnswerOK
<1> QED BY <1>2, <1>5, HandleOK

\* The decision a request is about.
LEMMA DecisionOK ==
  ASSUME NEW r, r.arg \in Questions, NEW allow \in BOOLEAN
  PROVE  Decision(r, allow) \in Decisions
BY DEF Decision, Decisions

\* A launch or evaluation that is in flight.
LEMMA CheckInFlight ==
  ASSUME TypeOK, NEW r \in Launches \cup Evaluations
  PROVE  r \in waiting /\ r.arg \in Questions /\ r.late \in BOOLEAN
<1>1. r \in waiting /\ r.kind \in {"launch", "evaluate"}
  BY DEF Launches, Evaluations, InFlight
<1> QED BY <1>1, InFlightOK DEF RequestOK, AnswerOK

\* The catalog.
LEMMA CatalogTypes ==
  ASSUME TypeOK, CatalogStep, UNCHANGED <<members, past>>
  PROVE  Grows /\ RequestsTypeOK' /\ ChecksTypeOK'
<1>1. ASSUME NEW app \in Apps, LaunchApp(app)
      PROVE  Grows /\ RequestsTypeOK' /\ ChecksTypeOK'
  <2>1. Grows
    BY <1>1, GrowsIf DEF LaunchApp, Ask
  <2>2. <<app, 1>> \in Questions
    BY ChecksAssumption DEF Questions
  <2>3. ArgOK("launch", <<app, 1>>)
    BY <2>2 DEF ArgOK, Methods
  <2>4. RequestsTypeOK'
    BY <1>1, <2>1, <2>3, AskOK DEF LaunchApp
  <2>5. ChecksTypeOK'
    BY <1>1 DEF TypeOK, ChecksTypeOK, LaunchApp, Decisions, sandbox
  <2> QED BY <2>1, <2>4, <2>5
<1>2. ASSUME NEW r \in Launches, LaunchAnswered(r) \/ LaunchFails(r)
      PROVE  Grows /\ RequestsTypeOK' /\ ChecksTypeOK'
  <2>1. r \in waiting /\ r.arg \in Questions /\ r.late \in BOOLEAN
    BY CheckInFlight
  <2>2. Over(r)
    BY <1>2 DEF LaunchAnswered, LaunchFails
  <2>3. Grows
    BY <2>2, GrowsIf DEF Over
  <2>4. RequestsTypeOK'
    BY <2>1, <2>2, <2>3, OverOK
  <2>5. checkResult' = NoDecision \/ \E allow \in BOOLEAN : checkResult' = Decision(r, allow)
    BY <1>2 DEF LaunchAnswered, LaunchFails, Read
  <2>6. checkResult' \in Decisions
    BY <2>1, <2>5, DecisionOK DEF Decisions
  <2>7. crossed' \in BOOLEAN /\ isChecking' \in BOOLEAN
    BY <1>2, <2>1 DEF LaunchAnswered, LaunchFails
  <2>8. ChecksTypeOK'
    BY <1>2, <2>6, <2>7 DEF TypeOK, ChecksTypeOK, LaunchAnswered, LaunchFails, sandbox
  <2> QED BY <2>3, <2>4, <2>8
<1> QED BY <1>1, <1>2 DEF CatalogStep, LaunchSettles

\* The sandbox.
LEMMA SandboxTypes ==
  ASSUME TypeOK, SandboxStep, UNCHANGED <<members, past>>
  PROVE  Grows /\ RequestsTypeOK' /\ ChecksTypeOK'
<1>1. CASE MoveInput
  <2>1. Grows
    BY <1>1, GrowsIf DEF MoveInput
  <2>2. RequestsTypeOK'
    BY <1>1, <2>1, SameRequestsOK DEF MoveInput
  <2>3. ChecksTypeOK'
    BY <1>1 DEF TypeOK, ChecksTypeOK, MoveInput, catalog
  <2> QED BY <2>1, <2>2, <2>3
<1>2. CASE RunEvaluation
  <2>1. Grows
    BY <1>2, GrowsIf DEF RunEvaluation, Ask
  <2>2. PICK input \in Questions : input = sandboxInput
    BY DEF TypeOK, ChecksTypeOK
  <2>3. ArgOK("evaluate", input)
    BY DEF ArgOK, Methods
  <2>4. Ask("evaluate", input)
    BY <1>2, <2>2 DEF RunEvaluation
  <2>5. RequestsTypeOK'
    BY <2>1, <2>3, <2>4, AskOK
  <2>6. ChecksTypeOK'
    BY <1>2 DEF TypeOK, ChecksTypeOK, RunEvaluation, catalog
  <2> QED BY <2>1, <2>5, <2>6
<1>3. ASSUME NEW r \in Evaluations, EvaluationAnswered(r) \/ EvaluationFails(r)
      PROVE  Grows /\ RequestsTypeOK' /\ ChecksTypeOK'
  <2>1. r \in waiting /\ r.arg \in Questions
    BY CheckInFlight
  <2>2. Over(r)
    BY <1>3 DEF EvaluationAnswered, EvaluationFails
  <2>3. Grows
    BY <2>2, GrowsIf DEF Over
  <2>4. RequestsTypeOK'
    BY <2>1, <2>2, <2>3, OverOK
  <2>5. sandboxResult' = NoDecision \/ \E allow \in BOOLEAN : sandboxResult' = Decision(r, allow)
    BY <1>3 DEF EvaluationAnswered, EvaluationFails, Read
  <2>6. sandboxResult' \in Decisions
    BY <2>1, <2>5, DecisionOK DEF Decisions
  <2>7. ChecksTypeOK'
    BY <1>3, <2>6 DEF TypeOK, ChecksTypeOK, EvaluationAnswered, EvaluationFails, catalog
  <2> QED BY <2>3, <2>4, <2>7
<1> QED BY <1>1, <1>2, <1>3 DEF SandboxStep, EvaluationSettles

\* The engine's answers.
LEMMA CheckAccessTypes ==
  ASSUME TypeOK, ChecksServerStep, UNCHANGED <<members, past>>
  PROVE  Grows /\ RequestsTypeOK' /\ ChecksTypeOK'
<1>1. PICK r \in waiting : CheckAccess(r)
  BY DEF ChecksServerStep
<1>2. r.kind \in {"launch", "evaluate"}
  BY <1>1 DEF CheckAccess
<1>3. r.arg \in Questions
  BY <1>2, InFlightOK DEF RequestOK, AnswerOK
<1>4. PICK a \in {1, 2} :
        Handle(r, a) /\ granted' = IF a = 1 THEN granted \cup {r.arg} ELSE granted
  BY <1>1 DEF CheckAccess
<1>5. Grows
  BY <1>4, GrowsIf DEF Handle
<1>6. RequestsTypeOK'
  BY <1>2, <1>4, <1>5, AnswersOK
<1>7. ChecksTypeOK'
  BY <1>1, <1>3, <1>4 DEF TypeOK, ChecksTypeOK, CheckAccess, catalog, sandbox
<1> QED BY <1>5, <1>6, <1>7

\* The directory.
LEMMA UsersPageTypes ==
  ASSUME TypeOK, UsersPageStep, UNCHANGED past
  PROVE  Grows /\ RequestsTypeOK' /\ UsersTypeOK' /\ UNCHANGED members
<1>1. CASE Refresh
  <2>1. Grows
    BY <1>1, GrowsIf DEF Refresh, Ask
  <2>2. ArgOK("listUsers", << >>)
    BY DEF ArgOK, Methods
  <2>3. RequestsTypeOK'
    BY <1>1, <2>1, <2>2, AskOK DEF Refresh
  <2>4. asked' \in 1 .. Len(members') /\ users' \subseteq Accounts
    BY <1>1, Counters DEF TypeOK, UsersTypeOK, Refresh
  <2>5. /\ usersLoading' \in BOOLEAN /\ error' \in BOOLEAN
        /\ UNCHANGED <<filterRole, search, overtaken>>
    BY <1>1 DEF Refresh, filters
  <2>6. UsersTypeOK'
    BY <2>4, <2>5 DEF TypeOK, UsersTypeOK
  <2> QED BY <1>1, <2>1, <2>3, <2>6 DEF Refresh
<1>2. CASE ChooseRole \/ TypeSearch
  <2>1. Grows
    BY <1>2, GrowsIf DEF ChooseRole, TypeSearch
  <2>2. RequestsTypeOK'
    BY <1>2, <2>1, SameRequestsOK DEF ChooseRole, TypeSearch
  <2>3. UsersTypeOK'
    BY <1>2 DEF TypeOK, UsersTypeOK, ChooseRole, TypeSearch, directory
  <2> QED BY <1>2, <2>1, <2>2, <2>3 DEF ChooseRole, TypeSearch
<1>3. ASSUME NEW r \in Directories, DirectoryArrives(r) \/ DirectoryFails(r)
      PROVE  Grows /\ RequestsTypeOK' /\ UsersTypeOK' /\ UNCHANGED members
  <2>1. r \in waiting /\ r.kind = "listUsers"
    BY DEF Directories, InFlight
  <2>2. r.late \in BOOLEAN /\ (r.answer # 0 => members[r.answer] \subseteq Accounts)
    BY <2>1, InFlightOK, Counters DEF RequestOK, AnswerOK, MembersOK
  <2>3. Over(r) /\ UNCHANGED members
    BY <1>3 DEF DirectoryArrives, DirectoryFails
  <2>4. Grows
    BY <2>3, GrowsIf DEF Over
  <2>5. RequestsTypeOK'
    BY <2>1, <2>3, <2>4, OverOK
  <2>6. UsersTypeOK'
    BY <1>3, <2>2 DEF TypeOK, UsersTypeOK, DirectoryArrives, DirectoryFails, filters, Answered
  <2> QED BY <2>3, <2>4, <2>5, <2>6
<1> QED BY <1>1, <1>2, <1>3 DEF UsersPageStep, DirectorySettles

\* The number of users shown.
LEMMA ShownIsNat ==
  ASSUME TypeOK, NEW v \in 1 .. Len(members)
  PROVE  Shown(members[v]) \in Nat
<1>1. members[v] \subseteq Accounts
  BY Counters DEF MembersOK
<1>2. IsFiniteSet(members[v])
  BY <1>1, DirectoryAssumption, FS_Subset
<1>3. Cardinality(members[v]) \in Nat
  BY <1>2, FS_CardinalityType
<1> QED BY <1>3 DEF Shown, DefaultUsers

\* The numbers and the prover of the dashboard.
LEMMA DashboardTypes ==
  ASSUME TypeOK, DashboardStep, UNCHANGED past
  PROVE  Grows /\ RequestsTypeOK' /\ DashboardTypeOK' /\ UNCHANGED members
<1>1. ASSUME NEW r \in Feeds, FeedArrives(r) \/ FeedFails(r)
      PROVE  Grows /\ RequestsTypeOK' /\ DashboardTypeOK' /\ UNCHANGED members
  <2>1. r \in waiting /\ r.kind \in {"listAuditLogs", "listUsers"}
    BY DEF Feeds, InFlight
  <2>2. FeedContinues(r) /\ UNCHANGED members
    BY <1>1 DEF FeedArrives, FeedFails
  <2>3. Grows
    BY <2>2, GrowsIf DEF FeedContinues, Over
  <2>4. ArgOK("listUsers", << >>)
    BY DEF ArgOK, Methods
  <2>5. RequestsTypeOK'
    BY <2>1, <2>2, <2>3, <2>4, OverOK, OverAndAskOK DEF FeedContinues
  <2>6. /\ r.answer \in Nat
        /\ r.kind = "listAuditLogs" => r.answer <= FeedSize + 1
        /\ r.kind = "listUsers" => r.answer <= Len(members)
    BY <2>1, InFlightOK DEF RequestOK, AnswerOK
  <2>7. DashboardTypeOK'
    <3>1. CASE FeedArrives(r)
      <4>1. auditEvents' \in 0 .. FeedSize
        BY <2>6, <3>1, FeedAssumption DEF TypeOK, DashboardTypeOK, FeedArrives, Answered
      <4>2. totalUsers' \in Nat
        <5>1. CASE r.kind = "listAuditLogs"
          BY <3>1, <5>1 DEF TypeOK, DashboardTypeOK, FeedArrives
        <5>2. CASE r.kind # "listAuditLogs"
          <6>1. r.answer \in 1 .. Len(members)
            BY <2>1, <2>6, <3>1, <5>2, Counters DEF FeedArrives, Answered
          <6>2. totalUsers' = Shown(members[r.answer])
            BY <3>1, <5>2 DEF FeedArrives
          <6> QED BY <6>1, <6>2, ShownIsNat
        <5> QED BY <5>1, <5>2
      <4> QED BY <3>1, <4>1, <4>2 DEF TypeOK, DashboardTypeOK, FeedArrives, prover
    <3>2. CASE FeedFails(r)
      BY <2>1, <3>2 DEF TypeOK, DashboardTypeOK, FeedFails, prover
    <3> QED BY <1>1, <3>1, <3>2
  <2> QED BY <2>2, <2>3, <2>5, <2>7
<1>2. ASSUME NEW r \in Tests, TestAnswered(r) \/ TestFails(r)
      PROVE  Grows /\ RequestsTypeOK' /\ DashboardTypeOK' /\ UNCHANGED members
  <2>1. r \in waiting /\ r.kind = "test"
    BY DEF Tests, InFlight
  <2>2. r.arg[1] \in Endpoints
    BY <2>1, InFlightOK DEF RequestOK, AnswerOK
  <2>3. Over(r) /\ UNCHANGED members
    BY <1>2 DEF TestAnswered, TestFails
  <2>4. Grows
    BY <2>3, GrowsIf DEF Over
  <2>5. RequestsTypeOK'
    BY <2>1, <2>3, <2>4, OverOK
  <2>6. testResult' \in TestResults
    <3>1. PICK e \in Endpoints, v \in BOOLEAN : testResult' = [endpoint |-> e, success |-> v]
      BY <1>2, <2>2 DEF TestAnswered, TestFails
    <3> QED BY <3>1 DEF TestResults
  <2>7. DashboardTypeOK'
    BY <1>2, <2>6 DEF TypeOK, DashboardTypeOK, TestAnswered, TestFails, numbers
  <2> QED BY <2>3, <2>4, <2>5, <2>7
<1>3. ASSUME NEW e \in Endpoints, ClickTest(e)
      PROVE  Grows /\ RequestsTypeOK' /\ DashboardTypeOK' /\ UNCHANGED members
  <2>1. Grows
    BY <1>3, GrowsIf DEF ClickTest, Ask
  <2>2. ArgOK("test", <<e>>)
    BY DEF ArgOK, Methods
  <2>3. RequestsTypeOK'
    BY <1>3, <2>1, <2>2, AskOK DEF ClickTest
  <2>4. DashboardTypeOK'
    BY <1>3 DEF TypeOK, DashboardTypeOK, ClickTest, numbers, TestResults
  <2> QED BY <1>3, <2>1, <2>3, <2>4 DEF ClickTest
<1> QED BY <1>1, <1>2, <1>3 DEF DashboardStep, FeedSettles, TestSettles

\* The policy routes, and other administrators.
LEMMA PolicyServerTypes ==
  ASSUME TypeOK, PolicyRequestServed \/ Elsewhere, UNCHANGED members
  PROVE  Grows /\ RequestsTypeOK' /\ PoliciesTypeOK'
<1>1. ASSUME UNCHANGED past \/ \E set : PolicyPut(set), UNCHANGED <<policyPage, acked, sent>>
      PROVE  Grows /\ PoliciesTypeOK' /\ past' # << >> /\ Len(past') # 0
  <2>1. past' = past \/ \E set \in SUBSET PolicyIds : past' = Append(past, set)
    BY <1>1 DEF PolicyPut
  <2>2. Grows
    BY <1>1, <2>1, GrowsIf
  <2>3. past' \in Seq(SUBSET PolicyIds) /\ past' # << >> /\ Len(past') # 0
    BY <2>1 DEF TypeOK, PoliciesTypeOK
  <2>4. acked' \in 1 .. Len(past')
    BY <1>1, <2>2 DEF TypeOK, PoliciesTypeOK, Grows
  <2> QED BY <1>1, <2>2, <2>3, <2>4 DEF TypeOK, PoliciesTypeOK, policyPage, policyView
<1>2. CASE Elsewhere
  <2>1. Grows /\ PoliciesTypeOK'
    BY <1>1, <1>2 DEF Elsewhere
  <2> QED BY <1>2, <2>1, SameRequestsOK DEF Elsewhere
<1>3. ASSUME NEW r \in waiting, ServeList(r) \/ ServeCreate(r) \/ ServeDelete(r)
      PROVE  Grows /\ RequestsTypeOK' /\ PoliciesTypeOK'
  <2>1. PICK a : Handle(r, a) /\ a \in {Len(past'), 0} /\ (r.kind = "listPolicies" => a = Len(past'))
    BY <1>3 DEF ServeList, ServeCreate, ServeDelete, policyVars, policyServer
  <2>2. /\ UNCHANGED past \/ \E set : PolicyPut(set)
        /\ UNCHANGED <<policyPage, acked>>
    BY <1>3 DEF ServeList, ServeCreate, ServeDelete, policyVars, policyServer
  <2>3. Grows /\ PoliciesTypeOK' /\ Len(past') # 0
    BY <1>1, <2>1, <2>2 DEF Handle
  <2>4. a \in Nat /\ a <= Len(past')
    BY <2>1, <2>3 DEF Grows
  <2>5. r.kind \in {"listPolicies", "createPolicy", "deletePolicy"}
    BY <1>3 DEF ServeList, ServeCreate, ServeDelete
  <2>6. RequestsTypeOK'
    BY <2>1, <2>3, <2>4, <2>5, AnswersOK
  <2> QED BY <2>3, <2>6
<1> QED BY <1>2, <1>3 DEF PolicyRequestServed

\* GET /users, new accounts and restarts.
LEMMA DirectoryServerTypes ==
  ASSUME TypeOK, DirectoryServerStep, UNCHANGED past
  PROVE  Grows /\ RequestsTypeOK'
<1>1. ASSUME NEW set \in SUBSET Accounts, MembersBecome(set)
      PROVE  Grows /\ RequestsTypeOK'
  <2>1. Grows
    BY <1>1, GrowsIf DEF MembersBecome
  <2> QED BY <1>1, <2>1, SameRequestsOK DEF MembersBecome
<1>3. CASE Register
  <2>1. PICK a \in Accounts : MembersBecome(Members \cup {a})
    BY <1>3 DEF Register
  <2>2. Members \cup {a} \in SUBSET Accounts
    BY Counters DEF Members, MembersOK
  <2> QED BY <1>1, <2>1, <2>2
<1>4. CASE RestartInMemory
  BY <1>1, <1>4, DirectoryAssumption DEF RestartInMemory
<1>2. ASSUME NEW r \in waiting, ServeUsers(r)
      PROVE  Grows /\ RequestsTypeOK'
  <2>1. PICK a \in {Len(members), 0} : Handle(r, a)
    BY <1>2 DEF ServeUsers
  <2>2. UNCHANGED members /\ r.kind = "listUsers"
    BY <1>2 DEF ServeUsers
  <2>3. Grows
    BY <2>1, <2>2, GrowsIf DEF Handle
  <2>4. a \in Nat /\ a <= Len(members')
    BY <2>1, <2>2, Counters
  <2>5. RequestsTypeOK'
    BY <2>1, <2>2, <2>3, <2>4, AnswersOK
  <2> QED BY <2>3, <2>5
<1> QED BY <1>2, <1>3, <1>4 DEF DirectoryServerStep

\* GET /audit and the endpoints of the prover.
LEMMA DashboardServerTypes ==
  ASSUME TypeOK, DashboardServerStep, UNCHANGED past
  PROVE  Grows /\ RequestsTypeOK'
<1>1. PICK r \in waiting : ServeAudit(r) \/ ServeTest(r)
  BY DEF DashboardServerStep
<1>2. PICK a \in 0 .. (FeedSize + 1) : Handle(r, a)
  <2>1. CASE ServeAudit(r)
    <3>1. PICK n \in 0 .. FeedSize : Handle(r, IF role \in Served("GET /audit") THEN n + 1 ELSE 0)
      BY <2>1 DEF ServeAudit
    <3>2. n + 1 \in 0 .. (FeedSize + 1) /\ 0 \in 0 .. (FeedSize + 1)
      BY FeedAssumption
    <3>3. (IF role \in Served("GET /audit") THEN n + 1 ELSE 0) \in 0 .. (FeedSize + 1)
      BY <3>2
    <3> QED BY <3>1, <3>3
  <2>2. CASE ServeTest(r)
    <3>1. Handle(r, IF role \in Served(r.arg[1]) THEN 1 ELSE 0)
      BY <2>2 DEF ServeTest
    <3>2. (IF role \in Served(r.arg[1]) THEN 1 ELSE 0) \in 0 .. (FeedSize + 1)
      BY FeedAssumption
    <3> QED BY <3>1, <3>2
  <2> QED BY <1>1, <2>1, <2>2
<1>3. r.kind \in {"listAuditLogs", "test"}
  BY <1>1 DEF ServeAudit, ServeTest
<1>4. Grows
  BY <1>2, GrowsIf DEF Handle, DashboardServerStep
<1>5. RequestsTypeOK'
  BY <1>2, <1>3, <1>4, FeedAssumption, AnswersOK
<1> QED BY <1>4, <1>5

\* What a step leaves alone keeps its type.
LEMMA OthersKeepTypes ==
  ASSUME TypeOK, Grows
  PROVE  /\ UNCHANGED policyVars => PoliciesTypeOK'
         /\ UNCHANGED checkVars  => ChecksTypeOK'
         /\ UNCHANGED usersVars  => UsersTypeOK'
         /\ UNCHANGED dashVars   => DashboardTypeOK'
         /\ UNCHANGED navVars    => NavbarTypeOK'
<1>1. UNCHANGED policyVars => PoliciesTypeOK'
  BY DEF TypeOK, PoliciesTypeOK, policyVars, policyServer, policyPage, policyView
<1>2. UNCHANGED checkVars => ChecksTypeOK'
  BY DEF TypeOK, ChecksTypeOK, checkVars, catalog, sandbox
<1>3. UNCHANGED usersVars => UsersTypeOK'
  BY Counters DEF Grows, TypeOK, UsersTypeOK, usersVars, directory, filters
<1>4. UNCHANGED dashVars => DashboardTypeOK'
  BY Counters DEF Grows, TypeOK, DashboardTypeOK, dashVars, numbers, prover
<1>5. UNCHANGED navVars => NavbarTypeOK'
  BY DEF TypeOK, NavbarTypeOK, navVars
<1> QED BY <1>1, <1>2, <1>3, <1>4, <1>5

\* The badge.
LEMMA NavbarTypes ==
  ASSUME NavbarTypeOK, NavbarStep
  PROVE  NavbarTypeOK'
<1>1. CASE CheckBackend
  BY <1>1 DEF NavbarTypeOK, CheckBackend
<1>2. ASSUME NEW k \in Polls, PollMeets(k)
      PROVE  NavbarTypeOK'
  BY <1>2 DEF NavbarTypeOK, PollMeets
<1>3. ASSUME NEW k \in Polls, PollSettles(k)
      PROVE  NavbarTypeOK'
  BY <1>3 DEF NavbarTypeOK, PollSettles
<1>4. CASE BackendChanges
  BY <1>4 DEF NavbarTypeOK, BackendChanges
<1> QED BY <1>1, <1>2, <1>3, <1>4 DEF NavbarStep

\* Pages that have just been mounted.
LEMMA MountTypes ==
  ASSUME MembersOK, past \in Seq(SUBSET PolicyIds), past # << >>,
         acked \in 1 .. Len(past), granted \subseteq Questions, Mount
  PROVE  PoliciesTypeOK /\ ChecksTypeOK /\ UsersTypeOK /\ DashboardTypeOK
<1>1. PoliciesTypeOK
  BY DEF Mount, PoliciesMount, PoliciesTypeOK
<1>2. ChecksTypeOK
  <2>1. <<"aws-console", 1>> \in Questions
    BY ChecksAssumption DEF Questions
  <2> QED BY <2>1 DEF Mount, CatalogMount, SandboxMount, ChecksTypeOK, Decisions
<1>3. UsersTypeOK
  <2>1. users = {} /\ usersLoading = TRUE /\ error = FALSE /\ overtaken = FALSE
    BY DEF Mount, UsersMount
  <2>2. filterRole = "all" /\ search = Accounts /\ asked = Len(members)
    BY DEF Mount, UsersMount
  <2>3. users \subseteq Accounts /\ asked \in 1 .. Len(members)
    BY <2>1, <2>2 DEF MembersOK
  <2>4. filterRole \in Choices /\ search \in Searches
    BY <2>2, AccountsAssumption
  <2>5. usersLoading \in BOOLEAN /\ error \in BOOLEAN /\ overtaken \in BOOLEAN
    BY <2>1
  <2> QED BY <2>3, <2>4, <2>5 DEF UsersTypeOK
<1>4. DashboardTypeOK
  <2>1. auditEvents = 0 /\ totalUsers = DefaultUsers /\ unheard = {}
    BY DEF Mount, DashboardMount
  <2>2. testResult = NoTest /\ clicked = "none"
    BY DEF Mount, DashboardMount
  <2>3. isTesting = FALSE /\ lost = FALSE
    BY DEF Mount, DashboardMount
  <2>4. auditEvents \in 0 .. FeedSize
    BY <2>1, FeedAssumption
  <2>5. isTesting \in BOOLEAN /\ lost \in BOOLEAN
    BY <2>3
  <2> QED BY <2>1, <2>2, <2>4, <2>5 DEF DashboardTypeOK, TestResults, DefaultUsers
<1> QED BY <1>1, <1>2, <1>3, <1>4

\* The same in the state after a step.
LEMMA RemountTypes ==
  ASSUME TypeOK, Remount, UNCHANGED <<members, past, acked, granted>>
  PROVE  (PoliciesTypeOK /\ ChecksTypeOK /\ UsersTypeOK /\ DashboardTypeOK)'
<1>1. PoliciesTypeOK'
  BY DEF Remount, PoliciesMount, PoliciesTypeOK, TypeOK
<1>2. ChecksTypeOK'
  <2>1. <<"aws-console", 1>> \in Questions
    BY ChecksAssumption DEF Questions
  <2> QED BY <2>1 DEF Remount, CatalogMount, SandboxMount, ChecksTypeOK, Decisions, TypeOK
<1>3. UsersTypeOK'
  <2>1. users' = {} /\ usersLoading' = TRUE /\ error' = FALSE /\ overtaken' = FALSE
    BY DEF Remount, UsersMount
  <2>2. filterRole' = "all" /\ search' = Accounts /\ asked' = Len(members')
    BY DEF Remount, UsersMount
  <2>3. users' \subseteq Accounts /\ asked' \in 1 .. Len(members')
    BY <2>1, <2>2, Counters
  <2>4. filterRole' \in Choices /\ search' \in Searches
    BY <2>2, AccountsAssumption
  <2>5. usersLoading' \in BOOLEAN /\ error' \in BOOLEAN /\ overtaken' \in BOOLEAN
    BY <2>1
  <2> QED BY <2>3, <2>4, <2>5 DEF UsersTypeOK
<1>4. DashboardTypeOK'
  <2>1. auditEvents' = 0 /\ totalUsers' = DefaultUsers /\ unheard' = {}
    BY DEF Remount, DashboardMount
  <2>2. testResult' = NoTest /\ clicked' = "none"
    BY DEF Remount, DashboardMount
  <2>3. isTesting' = FALSE /\ lost' = FALSE
    BY DEF Remount, DashboardMount
  <2>4. auditEvents' \in 0 .. FeedSize
    BY <2>1, FeedAssumption
  <2>5. isTesting' \in BOOLEAN /\ lost' \in BOOLEAN
    BY <2>3
  <2> QED BY <2>1, <2>2, <2>4, <2>5 DEF DashboardTypeOK, TestResults, DefaultUsers
<1> QED BY <1>1, <1>2, <1>3, <1>4

\* Nobody's role changes, and the pages' steps leave the router alone.
LEMMA RoleStays ==
  ASSUME TypeOK, Next
  PROVE  role' = role /\ open' \in Pages \cup {"frame"}
<1>1. CASE \E p \in Pages : Navigate(p)
  BY <1>1 DEF Navigate
<1>2. CASE PageStep
  <2>1. CASE InPolicies(PoliciesPageStep)
    BY <2>1 DEF TypeOK, InPolicies, PoliciesPageStep, ToggleForm, TypeName, SubmitCreate,
       ClickDelete, ListSettles, ListArrives, ListFails, WriteDone, WriteFails, Ask, Over
  <2>2. CASE InChecks("sandbox", SandboxStep)
    BY <2>2 DEF TypeOK, InChecks, SandboxStep, MoveInput, RunEvaluation, EvaluationSettles,
       EvaluationAnswered, EvaluationFails, Ask, Over
  <2>3. CASE InChecks("applications", CatalogStep)
    BY <2>3 DEF TypeOK, InChecks, CatalogStep, LaunchApp, LaunchSettles, LaunchAnswered,
       LaunchFails, Ask, Over
  <2>4. CASE InUsers(UsersPageStep)
    BY <2>4 DEF TypeOK, InUsers, UsersPageStep, Refresh, ChooseRole, TypeSearch,
       DirectorySettles, DirectoryArrives, DirectoryFails, Ask, Over
  <2>5. CASE InDashboard(DashboardStep)
    BY <2>5 DEF TypeOK, InDashboard, DashboardStep, FeedSettles, FeedArrives, FeedFails,
       FeedContinues, TestSettles, TestAnswered, TestFails, ClickTest, Ask, Over
  <2> QED BY <1>2, <2>1, <2>2, <2>3, <2>4, <2>5 DEF PageStep
<1>3. CASE ServerStep
  BY <1>3 DEF TypeOK, ServerStep, PolicyRequestServed, ServeList, ServeCreate, ServeDelete,
     Elsewhere, ChecksServerStep, CheckAccess, DirectoryServerStep, ServeUsers, Register,
     RestartInMemory, MembersBecome, DashboardServerStep, ServeAudit, ServeTest, Handle
<1>4. CASE BadgeStep
  BY <1>4 DEF TypeOK, BadgeStep, requests
<1> QED BY <1>1, <1>2, <1>3, <1>4 DEF Next

\* The console as it is first opened.
LEMMA InitTypes ==
  ASSUME Init
  PROVE  TypeOK
<1>1. MembersOK /\ role \in Roles /\ open \in Pages \cup {"frame"}
  BY DirectoryAssumption DEF Init, DirectoryInit, MembersOK
<1>2. past \in Seq(SUBSET PolicyIds) /\ past # << >> /\ Len(past) = 1 /\ acked = 1
  BY PoliciesAssumption DEF Init, PolicyServerInit
<1>3. PoliciesTypeOK /\ ChecksTypeOK /\ UsersTypeOK /\ DashboardTypeOK
  BY <1>1, <1>2, DirectoryAssumption, MountTypes DEF Init
<1>4. NavbarTypeOK
  BY DEF Init, NavbarInit, NavbarTypeOK
<1>5. sent \in 0 .. MaxRequests /\ (waiting # {} => sent = 1)
  BY RequestsAssumption DEF Init
<1>6. ASSUME NEW q \in waiting
      PROVE  RequestOK(q) /\ q.n = 1
  <2>1. PICK n : n = 1
    OBVIOUS
  <2>2. q \in Opening(open, n)
    BY <2>1 DEF Init
  <2>3. PICK kind \in {"listPolicies", "listUsers", "listAuditLogs"} :
          q = NewRequest(n, kind, << >>)
    BY <2>2, OpeningIs
  <2>4. q.n = n /\ q.kind = kind /\ q.arg = << >> /\ q.answer = 0
    BY <2>3, NewFields
  <2>5. q.served = FALSE /\ q.late = FALSE /\ q.orphan = FALSE
    BY <2>3, NewMarks
  <2>6. q = Rec(q.n, q.kind, q.arg, q.served, q.answer, q.late, q.orphan)
    BY <2>3 DEF NewRequest, Rec
  <2>7. AnswerOK(q)
    BY <1>1, <1>2, <2>4, <2>5, FeedAssumption DEF AnswerOK, MembersOK
  <2>8. q.served \in BOOLEAN /\ q.late \in BOOLEAN /\ q.orphan \in BOOLEAN
    BY <2>5
  <2>9. q.n \in 1 .. sent /\ q.kind \in Methods /\ q.answer \in Nat
    BY <1>5, <2>1, <2>4 DEF Methods
  <2> QED BY <2>1, <2>4, <2>6, <2>7, <2>8, <2>9 DEF RequestOK, Rec
<1>7. ASSUME NEW q \in waiting, NEW r \in waiting
      PROVE  q = r
  BY DEF Init, Opening
<1> QED BY <1>1, <1>3, <1>4, <1>5, <1>6, <1>7 DEF TypeOK, RequestsTypeOK, MembersOK

\* Every step keeps the types.
LEMMA NextTypes ==
  ASSUME TypeOK, Next
  PROVE  TypeOK' /\ Grows
<1>1. role' \in Roles /\ open' \in Pages \cup {"frame"}
  BY RoleStays DEF TypeOK
<1>2. ASSUME Grows, RequestsTypeOK', PoliciesTypeOK', ChecksTypeOK', UsersTypeOK',
             DashboardTypeOK', NavbarTypeOK'
      PROVE  TypeOK' /\ Grows
  BY <1>1, <1>2 DEF TypeOK, Grows, MembersOK
<1>3. ASSUME NEW p \in Pages, Navigate(p)
      PROVE  TypeOK' /\ Grows
  <2>1. UNCHANGED <<members, past, acked, granted, navVars>> /\ Remount
    BY <1>3 DEF Navigate, policyServer
  <2>2. sent' = sent \/ (sent < MaxRequests /\ sent' = sent + 1)
    BY <1>3, Counters DEF Navigate
  <2>3. Grows
    BY <2>1, <2>2, GrowsIf
  <2>4. RequestsTypeOK'
    BY <1>3, <2>3, NavigateOK
  <2> QED BY <1>2, <2>1, <2>3, <2>4, RemountTypes, OthersKeepTypes DEF TypeOK
<1>4. CASE PageStep
  <2>1. CASE InPolicies(PoliciesPageStep)
    BY <1>2, <2>1, PoliciesPageTypes, OthersKeepTypes DEF InPolicies, TypeOK
  <2>2. CASE InChecks("sandbox", SandboxStep)
    BY <1>2, <2>2, SandboxTypes, OthersKeepTypes DEF InChecks, TypeOK, policyVars, policyServer
  <2>3. CASE InChecks("applications", CatalogStep)
    BY <1>2, <2>3, CatalogTypes, OthersKeepTypes DEF InChecks, TypeOK, policyVars, policyServer
  <2>4. CASE InUsers(UsersPageStep)
    BY <1>2, <2>4, UsersPageTypes, OthersKeepTypes DEF InUsers, TypeOK, policyVars, policyServer
  <2>5. CASE InDashboard(DashboardStep)
    BY <1>2, <2>5, DashboardTypes, OthersKeepTypes DEF InDashboard, TypeOK, policyVars, policyServer
  <2> QED BY <1>4, <2>1, <2>2, <2>3, <2>4, <2>5 DEF PageStep
<1>5. CASE ServerStep
  <2>1. CASE /\ PolicyRequestServed \/ (open = "policies" /\ Elsewhere)
             /\ UNCHANGED <<members, checkVars, usersVars, dashVars, navVars, open>>
    BY <1>2, <2>1, PolicyServerTypes, OthersKeepTypes DEF TypeOK
  <2>2. CASE ChecksServerStep /\ UNCHANGED <<members, policyVars, usersVars, dashVars, navVars, open>>
    BY <1>2, <2>2, CheckAccessTypes, OthersKeepTypes DEF TypeOK, policyVars, policyServer
  <2>3. CASE /\ open \in {"users", "dashboard"} /\ DirectoryServerStep
             /\ UNCHANGED <<policyVars, checkVars, usersVars, dashVars, navVars, open>>
    BY <1>2, <2>3, DirectoryServerTypes, OthersKeepTypes DEF policyVars, policyServer
  <2>4. CASE DashboardServerStep /\ UNCHANGED <<policyVars, checkVars, usersVars, navVars, open>>
    BY <1>2, <2>4, DashboardServerTypes, OthersKeepTypes
    DEF TypeOK, DashboardServerStep, policyVars, policyServer
  <2> QED BY <1>5, <2>1, <2>2, <2>3, <2>4 DEF ServerStep
<1>6. CASE BadgeStep
  <2>1. Grows
    BY <1>6, GrowsIf DEF BadgeStep, requests, policyVars, policyServer
  <2> QED BY <1>2, <1>6, <2>1, SameRequestsOK, NavbarTypes, OthersKeepTypes
          DEF BadgeStep, requests, TypeOK
<1> QED BY <1>3, <1>4, <1>5, <1>6 DEF Next

\* Steps that stutter.
LEMMA StutterTypes ==
  ASSUME TypeOK, UNCHANGED vars
  PROVE  TypeOK' /\ Grows
<1>1. Grows
  BY GrowsIf DEF vars, requests, policyVars, policyServer
<1> QED BY <1>1, SameRequestsOK, OthersKeepTypes DEF TypeOK, vars, requests, Grows, MembersOK

\* Console.tla, TypeOK: the states of the pages, the requests in flight and the
\* backend's answers are those the code can produce, and no two requests in
\* flight are the same.
THEOREM TypeCorrect == Spec => []TypeOK
<1>1. Init => TypeOK
  BY InitTypes
<1>2. TypeOK /\ [Next]_vars => TypeOK'
  BY NextTypes, StutterTypes
<1> QED BY <1>1, <1>2, PTL DEF Spec

-----------------------------------------------------------------------------
(* Where a request in flight after a step comes from.                      *)

\* q asks what o asks, and has the same answer.
Heir(q, o) ==
  /\ q.n = o.n /\ q.kind = o.kind /\ q.arg = o.arg /\ q.served = o.served /\ q.answer = o.answer
  /\ ~q.orphan => ~o.orphan

\* q is a request of the step itself, made by a page that may make it.
Born(q) ==
  /\ q.answer = 0
  /\ q.kind \in PolicyWrites => canManagePolicies(role) \/ showCreateForm

Sources == \A q \in waiting' : Born(q) \/ \E o \in waiting : Heir(q, o)

\* A new request.
LEMMA AskSources ==
  ASSUME TypeOK, NEW kind, NEW arg, Ask(kind, arg),
         kind \in PolicyWrites => canManagePolicies(role) \/ showCreateForm
  PROVE  Sources
<1>1. PICK n : n = sent + 1
  OBVIOUS
<1>2. PICK p : p = NewRequest(n, kind, arg)
  OBVIOUS
<1>3. waiting' = waiting \cup {p}
  BY <1>1, <1>2 DEF Ask, Asked
<1>4. p.answer = 0 /\ p.kind = kind
  BY <1>2, NewFields
<1> QED BY <1>3, <1>4 DEF Sources, Born, Heir

\* A request that is over.
LEMMA OverSources ==
  ASSUME TypeOK, Grows, NEW r \in waiting, Over(r)
  PROVE  Sources
BY WithoutOK DEF Over, Sources, Later, Heir

\* One that is over, and the next.
LEMMA OverAndAskSources ==
  ASSUME TypeOK, Grows, NEW r \in waiting, NEW kind, NEW arg, kind \notin PolicyWrites,
         waiting' = Without(r) \cup {Asked(kind, arg)}
  PROVE  Sources
<1>1. PICK n : n = sent + 1
  OBVIOUS
<1>2. PICK p : p = NewRequest(n, kind, arg)
  OBVIOUS
<1>3. waiting' = Without(r) \cup {p}
  BY <1>1, <1>2 DEF Asked
<1>4. p.answer = 0 /\ p.kind = kind
  BY <1>2, NewFields
<1>5. \A q \in Without(r) : \E o \in waiting : Heir(q, o)
  BY WithoutOK DEF Later, Heir
<1> QED BY <1>3, <1>4, <1>5 DEF Sources, Born

\* Requests left alone.
LEMMA SameSources ==
  ASSUME waiting' = waiting
  PROVE  Sources
BY DEF Sources, Heir

\* Another page.
LEMMA NavigateSources ==
  ASSUME TypeOK, NEW p \in Pages, Navigate(p)
  PROVE  /\ Sources
         /\ \A q \in waiting' :
              \/ q.orphan = TRUE /\ q.kind \in PolicyWrites
              \/ q.kind \in {"listPolicies", "listUsers", "listAuditLogs"} /\ q \in Opening(p, sent + 1)
<1>1. PICK n : n = sent + 1
  OBVIOUS
<1>2. waiting' = Left(PolicyWrites) \cup Opening(p, n)
  BY <1>1 DEF Navigate
<1>3. ASSUME NEW q \in Left(PolicyWrites)
      PROVE  /\ \E o \in waiting : Heir(q, o)
             /\ q.orphan = TRUE /\ q.kind \in PolicyWrites
  <2>1. PICK o \in waiting : o.kind \in PolicyWrites /\ q = Orphan(o)
    BY DEF Left, Orphan
  <2>2. RequestOK(o)
    BY InFlightOK
  <2>3. PICK t : t = TRUE /\ q = Rec(o.n, o.kind, o.arg, o.served, o.answer, o.late, t)
    <3>1. \A x : [o EXCEPT !.orphan = x]
                 = Rec(o.n, o.kind, o.arg, o.served, o.answer, o.late, x)
      BY <2>2, Marked
    <3> QED BY <2>1, <3>1 DEF Orphan
  <2>4. /\ q.n = o.n /\ q.kind = o.kind /\ q.arg = o.arg /\ q.served = o.served
        /\ q.answer = o.answer /\ q.orphan = t
    <3>1. q = Rec(o.n, o.kind, o.arg, o.served, o.answer, o.late, t)
      BY <2>3
    <3> QED BY <3>1, Fields
  <2> QED BY <2>1, <2>3, <2>4 DEF Heir
<1>4. ASSUME NEW q \in Opening(p, n)
      PROVE  Born(q) /\ q.kind \in {"listPolicies", "listUsers", "listAuditLogs"}
  <2>1. PICK kind \in {"listPolicies", "listUsers", "listAuditLogs"} :
          q = NewRequest(n, kind, << >>)
    BY OpeningIs
  <2>2. q.kind = kind /\ q.answer = 0
    BY <2>1, NewFields
  <2> QED BY <2>2 DEF Born, PolicyWrites
<1> QED BY <1>1, <1>2, <1>3, <1>4 DEF Sources

\* The pages' steps.
LEMMA PageSources ==
  ASSUME TypeOK, Grows, PageStep
  PROVE  Sources
<1>1. CASE InPolicies(PoliciesPageStep)
  <2> USE <1>1 DEF InPolicies
  <2>1. CASE ToggleForm \/ TypeName
    BY <2>1, SameSources DEF ToggleForm, TypeName
  <2>2. CASE SubmitCreate
    BY <2>2, AskSources DEF SubmitCreate, FormAccepts
  <2>3. ASSUME NEW p \in PolicyIds, ClickDelete(p)
        PROVE  Sources
    BY <2>3, AskSources DEF ClickDelete
  <2>4. ASSUME NEW r \in PolicyLists, ListArrives(r) \/ ListFails(r)
        PROVE  Sources
    BY <2>4, OverSources DEF PolicyLists, InFlight, ListArrives, ListFails
  <2>5. ASSUME NEW r \in InFlight(PolicyWrites), WriteDone(r)
        PROVE  Sources
    <3>1. r \in waiting /\ "listPolicies" \notin PolicyWrites
      BY DEF InFlight, PolicyWrites
    <3> QED BY <2>5, <3>1, OverAndAskSources DEF WriteDone
  <2>6. ASSUME NEW r \in InFlight(PolicyWrites), WriteFails(r)
        PROVE  Sources
    BY <2>6, OverSources DEF InFlight, WriteFails
  <2> QED BY <1>1, <2>1, <2>2, <2>3, <2>4, <2>5, <2>6
          DEF InPolicies, PoliciesPageStep, ListSettles
<1>2. CASE InChecks("sandbox", SandboxStep)
  <2> USE <1>2 DEF InChecks
  <2>1. CASE MoveInput
    BY <2>1, SameSources DEF MoveInput
  <2>2. CASE RunEvaluation
    <3>1. PICK input : input = sandboxInput
      OBVIOUS
    <3>2. Ask("evaluate", input)
      BY <2>2, <3>1 DEF RunEvaluation
    <3> QED BY <3>2, AskSources DEF PolicyWrites
  <2>3. ASSUME NEW r \in Evaluations, EvaluationAnswered(r) \/ EvaluationFails(r)
        PROVE  Sources
    BY <2>3, OverSources DEF Evaluations, InFlight, EvaluationAnswered, EvaluationFails
  <2> QED BY <1>2, <2>1, <2>2, <2>3 DEF InChecks, SandboxStep, EvaluationSettles
<1>3. CASE InChecks("applications", CatalogStep)
  <2> USE <1>3 DEF InChecks
  <2>1. ASSUME NEW app \in Apps, LaunchApp(app)
        PROVE  Sources
    BY <2>1, AskSources DEF LaunchApp, PolicyWrites
  <2>2. ASSUME NEW r \in Launches, LaunchAnswered(r) \/ LaunchFails(r)
        PROVE  Sources
    BY <2>2, OverSources DEF Launches, InFlight, LaunchAnswered, LaunchFails
  <2> QED BY <1>3, <2>1, <2>2 DEF InChecks, CatalogStep, LaunchSettles
<1>4. CASE InUsers(UsersPageStep)
  <2> USE <1>4 DEF InUsers
  <2>1. CASE Refresh
    BY <2>1, AskSources DEF Refresh, PolicyWrites
  <2>2. CASE ChooseRole \/ TypeSearch
    BY <2>2, SameSources DEF ChooseRole, TypeSearch
  <2>3. ASSUME NEW r \in Directories, DirectoryArrives(r) \/ DirectoryFails(r)
        PROVE  Sources
    BY <2>3, OverSources DEF Directories, InFlight, DirectoryArrives, DirectoryFails
  <2> QED BY <1>4, <2>1, <2>2, <2>3 DEF InUsers, UsersPageStep, DirectorySettles
<1>5. CASE InDashboard(DashboardStep)
  <2> USE <1>5 DEF InDashboard
  <2>1. ASSUME NEW r \in Feeds, FeedContinues(r)
        PROVE  Sources
    <3>1. r \in waiting /\ "listUsers" \notin PolicyWrites
      BY DEF Feeds, InFlight, PolicyWrites
    <3> QED BY <2>1, <3>1, OverSources, OverAndAskSources DEF FeedContinues
  <2>2. ASSUME NEW r \in Tests, TestAnswered(r) \/ TestFails(r)
        PROVE  Sources
    BY <2>2, OverSources DEF Tests, InFlight, TestAnswered, TestFails
  <2>3. ASSUME NEW e \in Endpoints, ClickTest(e)
        PROVE  Sources
    BY <2>3, AskSources DEF ClickTest, PolicyWrites
  <2> QED BY <1>5, <2>1, <2>2, <2>3
          DEF InDashboard, DashboardStep, FeedSettles, FeedArrives, FeedFails, TestSettles
<1> QED BY <1>1, <1>2, <1>3, <1>4, <1>5 DEF PageStep

\* Handling a request changes nothing but the answer, and nobody waits for an orphan's.
LEMMA HandleIs ==
  ASSUME TypeOK, NEW r \in waiting, NEW a, Handle(r, a)
  PROVE  /\ \A q \in waiting' :
              \/ q \in waiting \ {r}
              \/ /\ q.n = r.n /\ q.kind = r.kind /\ q.arg = r.arg /\ q.served
                 /\ q.answer = a /\ q.late = r.late /\ ~q.orphan /\ ~r.orphan
         /\ waiting \ {r} \subseteq waiting'
         /\ ~r.orphan => \E q \in waiting' :
              /\ q.n = r.n /\ q.kind = r.kind /\ q.arg = r.arg /\ q.served
              /\ q.answer = a /\ q.late = r.late /\ ~q.orphan
<1>1. RequestOK(r)
  BY InFlightOK
<1>2. PICK p : p = Handled(r, a)
  OBVIOUS
<1>3. waiting' = (waiting \ {r}) \cup {q \in {p} : ~q.orphan}
  BY <1>2 DEF Handle, Handled
<1>4. PICK t : t = TRUE /\ p = Rec(r.n, r.kind, r.arg, t, a, r.late, r.orphan)
  <2>1. \A x, y : [r EXCEPT !.served = x, !.answer = y]
                  = Rec(r.n, r.kind, r.arg, x, y, r.late, r.orphan)
    BY <1>1, Marked
  <2> QED BY <1>2, <2>1 DEF Handled
<1>5. /\ p.n = r.n /\ p.kind = r.kind /\ p.arg = r.arg /\ p.served = t
      /\ p.answer = a /\ p.late = r.late /\ p.orphan = r.orphan
  <2>1. p = Rec(r.n, r.kind, r.arg, t, a, r.late, r.orphan)
    BY <1>4
  <2> QED BY <2>1, Fields
<1>6. p.served
  BY <1>4, <1>5
<1>7. ~r.orphan => ~p.orphan /\ p \in waiting'
  BY <1>3, <1>5
<1>8. \A q \in waiting' : q \in waiting \ {r} \/ (q = p /\ ~p.orphan)
  BY <1>3
<1>9. waiting \ {r} \subseteq waiting'
  BY <1>3
<1> QED BY <1>5, <1>6, <1>7, <1>8, <1>9

-----------------------------------------------------------------------------
(* An ALLOW on the screen is the engine's.                                 *)

\* No decision held by a page, shown or not, and no answer on its way is an
\* ALLOW for a question the engine has not answered so.
AllowInv ==
  /\ \A held \in {checkResult, sandboxResult} : held.allow => held.of \in granted
  /\ \A q \in waiting : q.kind \in {"launch", "evaluate"} /\ q.answer = 1 => q.arg \in granted

\* What the panel shows is what it holds, or no decision.
LEMMA AllowInvShows ==
  ASSUME AllowInv
  PROVE  AllowIsTheEngines
<1>1. NoDecision.allow = FALSE
  BY DEF NoDecision
<1> QED BY <1>1 DEF AllowInv, AllowIsTheEngines, PanelVerdict

\* What has been asked only matters when it is answered.
LEMMA SourcesAllow ==
  ASSUME AllowInv, Sources, granted \subseteq granted'
  PROVE  \A q \in waiting' :
           q.kind \in {"launch", "evaluate"} /\ q.answer = 1 => q.arg \in granted'
BY DEF AllowInv, Sources, Born, Heir

\* A decision a page shows.
LEMMA DecisionIs ==
  ASSUME NEW r, NEW allow \in BOOLEAN
  PROVE  Decision(r, allow).of = r.arg /\ (Decision(r, allow).allow <=> allow)
BY DEF Decision

\* A decision made from an answer is an ALLOW when the answer is.
LEMMA DecisionAllow ==
  ASSUME TypeOK, AllowInv, NEW r \in waiting, r.kind \in {"launch", "evaluate"},
         NEW allow \in BOOLEAN, allow => r.answer = 1,
         NEW d, d = Decision(r, allow)
  PROVE  d.allow => d.of \in granted
BY DecisionIs DEF AllowInv

\* Every step keeps AllowInv: only the engine's own answer grants.
LEMMA NextAllow ==
  ASSUME TypeOK, AllowInv, Grows, Next
  PROVE  AllowInv'
<1>1. ASSUME Sources, UNCHANGED granted,
             UNCHANGED checkResult \/ (checkResult'.allow => checkResult'.of \in granted),
             UNCHANGED sandboxResult \/ (sandboxResult'.allow => sandboxResult'.of \in granted)
      PROVE  AllowInv'
  BY <1>1, SourcesAllow DEF AllowInv
<1>2. ASSUME NEW p \in Pages, Navigate(p)
      PROVE  AllowInv'
  <2>1. UNCHANGED granted /\ checkResult' = NoDecision /\ sandboxResult' = NoDecision
    BY <1>2 DEF Navigate, Remount, CatalogMount, SandboxMount
  <2>2. NoDecision.allow = FALSE
    BY DEF NoDecision
  <2> QED BY <1>1, <1>2, <2>1, <2>2, NavigateSources
<1>3. CASE PageStep
  <2>1. CASE InChecks("sandbox", SandboxStep)
    <3>1. UNCHANGED <<granted, checkResult>>
      BY <2>1 DEF InChecks, SandboxStep, MoveInput, RunEvaluation, EvaluationSettles,
         EvaluationAnswered, EvaluationFails, catalog
    <3>2. UNCHANGED sandboxResult \/ (sandboxResult'.allow => sandboxResult'.of \in granted)
      <4>1. CASE MoveInput \/ RunEvaluation
        BY <4>1 DEF MoveInput, RunEvaluation
      <4>2. ASSUME NEW r \in Evaluations, EvaluationAnswered(r) \/ EvaluationFails(r)
            PROVE  sandboxResult'.allow => sandboxResult'.of \in granted
        <5>1. \/ sandboxResult' = NoDecision
              \/ \E allow \in BOOLEAN :
                   sandboxResult' = Decision(r, allow) /\ (allow => r.answer = 1)
          BY <4>2 DEF EvaluationAnswered, EvaluationFails, Read
        <5>2. r \in waiting /\ r.kind \in {"launch", "evaluate"}
          BY DEF Evaluations, InFlight
        <5>3. NoDecision.allow = FALSE
          BY DEF NoDecision
        <5> QED BY <5>1, <5>2, <5>3, DecisionAllow
      <4> QED BY <2>1, <4>1, <4>2 DEF InChecks, SandboxStep, EvaluationSettles
    <3> QED BY <1>1, <1>3, <3>1, <3>2, PageSources
  <2>2. CASE InChecks("applications", CatalogStep)
    <3>1. UNCHANGED <<granted, sandboxResult>>
      BY <2>2 DEF InChecks, CatalogStep, LaunchApp, LaunchSettles, LaunchAnswered,
         LaunchFails, sandbox
    <3>2. UNCHANGED checkResult \/ (checkResult'.allow => checkResult'.of \in granted)
      <4>1. ASSUME NEW app \in Apps, LaunchApp(app)
            PROVE  checkResult'.allow => checkResult'.of \in granted
        <5>1. checkResult' = NoDecision
          BY <4>1 DEF LaunchApp
        <5>2. NoDecision.allow = FALSE
          BY DEF NoDecision
        <5> QED BY <5>1, <5>2
      <4>2. ASSUME NEW r \in Launches, LaunchAnswered(r) \/ LaunchFails(r)
            PROVE  checkResult'.allow => checkResult'.of \in granted
        <5>1. \/ checkResult' = NoDecision
              \/ \E allow \in BOOLEAN :
                   checkResult' = Decision(r, allow) /\ (allow => r.answer = 1)
          BY <4>2 DEF LaunchAnswered, LaunchFails, Read
        <5>2. r \in waiting /\ r.kind \in {"launch", "evaluate"}
          BY DEF Launches, InFlight
        <5>3. NoDecision.allow = FALSE
          BY DEF NoDecision
        <5> QED BY <5>1, <5>2, <5>3, DecisionAllow
      <4> QED BY <2>2, <4>1, <4>2 DEF InChecks, CatalogStep, LaunchSettles
    <3> QED BY <1>1, <1>3, <3>1, <3>2, PageSources
  <2>3. CASE UNCHANGED checkVars
    BY <1>1, <1>3, <2>3, PageSources DEF checkVars, catalog, sandbox
  <2>4. \/ InChecks("sandbox", SandboxStep) \/ InChecks("applications", CatalogStep)
        \/ UNCHANGED checkVars
    BY <1>3 DEF PageStep, InPolicies, InUsers, InDashboard
  <2> QED BY <2>1, <2>2, <2>3, <2>4
<1>4. ASSUME UNCHANGED checkVars,
             \A q \in waiting' : \/ q \in waiting
                                 \/ q.kind \notin {"launch", "evaluate"}
      PROVE  AllowInv'
  BY <1>4 DEF AllowInv, checkVars, catalog, sandbox
<1>5. CASE ServerStep
  <2>1. ASSUME NEW r \in waiting, NEW a, Handle(r, a), UNCHANGED checkVars,
               r.kind \notin {"launch", "evaluate"}
        PROVE  AllowInv'
    BY <1>4, <2>1, HandleIs
  <2>2. ASSUME NEW r \in waiting, ServeList(r) \/ ServeCreate(r) \/ ServeDelete(r),
               UNCHANGED checkVars
        PROVE  AllowInv'
    <3>1. PICK a : Handle(r, a)
      BY <2>2 DEF ServeList, ServeCreate, ServeDelete
    <3>2. r.kind \notin {"launch", "evaluate"}
      BY <2>2 DEF ServeList, ServeCreate, ServeDelete
    <3> QED BY <2>1, <2>2, <3>1, <3>2
  <2>3. ASSUME NEW r \in waiting, ServeUsers(r) \/ ServeAudit(r) \/ ServeTest(r),
               UNCHANGED checkVars
        PROVE  AllowInv'
    <3>1. PICK a : Handle(r, a)
      BY <2>3 DEF ServeUsers, ServeAudit, ServeTest
    <3>2. r.kind \notin {"launch", "evaluate"}
      BY <2>3 DEF ServeUsers, ServeAudit, ServeTest
    <3> QED BY <2>1, <2>3, <3>1, <3>2
  <2>4. ASSUME NEW r \in waiting, CheckAccess(r)
        PROVE  AllowInv'
    <3>1. PICK a \in {1, 2} :
            Handle(r, a) /\ granted' = IF a = 1 THEN granted \cup {r.arg} ELSE granted
      BY <2>4 DEF CheckAccess
    <3>2. granted \subseteq granted' /\ (a = 1 => r.arg \in granted')
      BY <3>1
    <3>3. \A q \in waiting' : q \in waiting \/ (q.arg = r.arg /\ q.answer = a)
      BY <3>1, HandleIs
    <3>4. UNCHANGED <<checkResult, sandboxResult>>
      BY <2>4 DEF CheckAccess, catalog, sandbox
    <3>5. \A q \in waiting' :
            q.kind \in {"launch", "evaluate"} /\ q.answer = 1 => q.arg \in granted'
      BY <3>2, <3>3 DEF AllowInv
    <3>6. \A held \in {checkResult', sandboxResult'} : held.allow => held.of \in granted'
      BY <3>2, <3>4 DEF AllowInv
    <3> QED BY <3>5, <3>6 DEF AllowInv
  <2>5. CASE (Elsewhere \/ Register \/ RestartInMemory) /\ UNCHANGED checkVars
    BY <1>4, <2>5 DEF Elsewhere, Register, RestartInMemory, MembersBecome
  <2> QED BY <1>5, <2>2, <2>3, <2>4, <2>5
          DEF ServerStep, PolicyRequestServed, ChecksServerStep, DirectoryServerStep,
              DashboardServerStep
<1>6. CASE BadgeStep
  BY <1>4, <1>6 DEF BadgeStep, requests
<1> QED BY <1>2, <1>3, <1>5, <1>6 DEF Next

\* At first no decision is shown and no answer is on its way.
LEMMA InitAllow ==
  ASSUME Init
  PROVE  AllowInv
<1>1. checkResult = NoDecision /\ sandboxResult = NoDecision
  BY DEF Init, Mount, CatalogMount, SandboxMount
<1>2. NoDecision.allow = FALSE
  BY DEF NoDecision
<1>3. ASSUME NEW q \in waiting
      PROVE  q.answer = 0
  <2>1. PICK n : n = 1
    OBVIOUS
  <2>2. q \in Opening(open, n)
    BY <2>1 DEF Init
  <2> QED BY <2>2, OpeningIs, NewFields
<1> QED BY <1>1, <1>2, <1>3 DEF AllowInv

\* AccessChecks.tla, AllowIsTheEngines: whatever requests are lost, fail, or are
\* answered out of order, neither page shows an ALLOW for a question that the
\* engine has not answered so.
THEOREM AllowIsGranted == Spec => []AllowIsTheEngines
<1>1. Init => TypeOK /\ AllowInv
  BY InitTypes, InitAllow
<1>2. TypeOK /\ AllowInv /\ [Next]_vars => (TypeOK /\ AllowInv)'
  <2>1. ASSUME TypeOK, AllowInv, UNCHANGED vars
        PROVE  AllowInv'
    BY <2>1 DEF AllowInv, vars, requests, checkVars, catalog, sandbox
  <2> QED BY <2>1, NextTypes, StutterTypes, NextAllow
<1>3. AllowInv => AllowIsTheEngines
  BY AllowInvShows
<1> QED BY <1>1, <1>2, <1>3, PTL DEF Spec

-----------------------------------------------------------------------------
(* The four places that say what a role may do.                            *)

\* Role by role.
LEMMA RolesAgree ==
  ASSUME NEW r \in AllRoles
  PROVE  OneTruth(r)
<1> USE DEF OneTruth, AllRoles, Rows, Columns, Matrix, Holders, rolePermissions, UserRights,
            OrgAndRoleRights, Served, RequireAnyRole, HasRole, canManagePolicies
<1>1. r \in Rows => Matrix[r] = rolePermissions[r] \cap Columns
  OBVIOUS
<1>2. canManagePolicies(r) <=> r \in Holders("policies.manage")
  OBVIOUS
<1>3. \A write \in {"POST /policies", "DELETE /policies"} :
        canManagePolicies(r) <=> r \in Served(write)
  OBVIOUS
<1>4. r \in Served("GET /users") => r \in Holders("users.read")
  OBVIOUS
<1>5. r \in Holders("users.read") \ Served("GET /users")
        <=> r \in {"security_manager", "developer", "analyst"}
  OBVIOUS
<1>6. r \in Served("GET /audit") => r \in Holders("audit.read")
  OBVIOUS
<1>7. r \in Holders("audit.read") \ Served("GET /audit") <=> r = "analyst"
  OBVIOUS
<1>8. r \in Holders("policies.read") => r \in Served("GET /policies")
  OBVIOUS
<1>9. r \in Served("GET /policies") \ Holders("policies.read") <=> r \in {"viewer", "user"}
  OBVIOUS
<1> QED BY <1>1, <1>2, <1>3, <1>4, <1>5, <1>6, <1>7, <1>8, <1>9

\* The form is open, and a write on its way, only for a role that may.
FormInv ==
  /\ showCreateForm => canManagePolicies(role)
  /\ \A q \in waiting : q.kind \in PolicyWrites => canManagePolicies(role)

\* With it no write is on its way that its route would refuse.
LEMMA FormInvIs ==
  ASSUME TypeOK, FormInv
  PROVE  OneTruthAboutRoles
<1>1. role \in AllRoles
  BY RequestsAssumption DEF TypeOK
<1>2. canManagePolicies(role) => role \in Served("POST /policies")
  BY <1>1, RolesAgree DEF OneTruth
<1> QED BY <1>2, RolesAgree DEF FormInv, OneTruthAboutRoles

\* Every step keeps FormInv.
LEMMA NextForm ==
  ASSUME TypeOK, FormInv, Grows, Next
  PROVE  FormInv'
<1>1. role' = role
  BY RoleStays
<1>2. ASSUME Sources, showCreateForm' => showCreateForm \/ canManagePolicies(role)
      PROVE  FormInv'
  BY <1>1, <1>2 DEF FormInv, Sources, Born, Heir
<1>3. ASSUME NEW p \in Pages, Navigate(p)
      PROVE  FormInv'
  <2>1. showCreateForm' = FALSE
    BY <1>3 DEF Navigate, Remount, PoliciesMount
  <2> QED BY <1>2, <1>3, <2>1, NavigateSources
<1>4. CASE PageStep
  <2>1. showCreateForm' => showCreateForm \/ canManagePolicies(role)
    BY <1>4 DEF PageStep, InPolicies, InChecks, InUsers, InDashboard, PoliciesPageStep,
       ToggleForm, TypeName, SubmitCreate, ClickDelete, ListSettles, ListArrives, ListFails,
       WriteDone, WriteFails, policyVars, policyPage, policyView
  <2> QED BY <1>2, <1>4, <2>1, PageSources
<1>5. ASSUME UNCHANGED showCreateForm,
             \A q \in waiting' : \E o \in waiting : q.kind = o.kind
      PROVE  FormInv'
  BY <1>1, <1>5 DEF FormInv
<1>6. CASE ServerStep
  <2>1. UNCHANGED showCreateForm
    BY <1>6 DEF ServerStep, PolicyRequestServed, ServeList, ServeCreate, ServeDelete,
       Elsewhere, policyVars, policyPage, policyView
  <2>2. UNCHANGED waiting \/ \E r \in waiting : \E a : Handle(r, a)
    BY <1>6 DEF ServerStep, PolicyRequestServed, ServeList, ServeCreate, ServeDelete,
       Elsewhere, ChecksServerStep, CheckAccess, DirectoryServerStep, ServeUsers, Register,
       RestartInMemory, MembersBecome, DashboardServerStep, ServeAudit, ServeTest
  <2> QED BY <1>5, <2>1, <2>2, HandleIs
<1>7. CASE BadgeStep
  BY <1>5, <1>7 DEF BadgeStep, requests, policyVars, policyPage, policyView
<1> QED BY <1>3, <1>4, <1>6, <1>7 DEF Next

\* At first there is no form and no write.
LEMMA InitForm ==
  ASSUME Init
  PROVE  FormInv
<1>1. showCreateForm = FALSE
  BY DEF Init, Mount, PoliciesMount
<1>2. ASSUME NEW q \in waiting
      PROVE  q.kind \notin PolicyWrites
  <2>1. PICK n : n = 1
    OBVIOUS
  <2>2. q \in Opening(open, n)
    BY <2>1 DEF Init
  <2> QED BY <2>2, OpeningIs, NewFields DEF PolicyWrites
<1> QED BY <1>1, <1>2 DEF FormInv

\* Console.tla, OneTruthAboutRoles: permissions.go, the routes, the table of
\* RolesPage.tsx and hasRole agree but for the named exceptions, and no write is
\* on its way that its route would refuse.
THEOREM RolesAreOneTruth == Spec => []OneTruthAboutRoles
<1>1. Init => TypeOK /\ FormInv
  BY InitTypes, InitForm
<1>2. TypeOK /\ FormInv /\ [Next]_vars => (TypeOK /\ FormInv)'
  <2>1. ASSUME TypeOK, FormInv, UNCHANGED vars
        PROVE  FormInv'
    BY <2>1 DEF FormInv, vars, requests, policyVars, policyPage, policyView
  <2> QED BY <2>1, NextTypes, StutterTypes, NextForm
<1>3. TypeOK /\ FormInv => OneTruthAboutRoles
  BY FormInvIs
<1> QED BY <1>1, <1>2, <1>3, PTL DEF Spec

-----------------------------------------------------------------------------
(* The decisions belong to what stands over them.                          *)

\* What a step that makes no request and ends none leaves of them: an answer.
Flights ==
  /\ \A q \in waiting' : \E o \in waiting :
       /\ q.n = o.n /\ q.kind = o.kind /\ q.arg = o.arg /\ q.late = o.late
       /\ ~q.orphan => ~o.orphan
  /\ \A o \in waiting : ~o.orphan => \E q \in waiting' :
       /\ q.n = o.n /\ q.kind = o.kind /\ q.arg = o.arg /\ q.late = o.late /\ ~q.orphan

\* An answer leaves what has been asked, and when.
LEMMA HandleFlights ==
  ASSUME TypeOK, NEW r \in waiting, NEW a, Handle(r, a)
  PROVE  Flights
<1>1. \A q \in waiting' : \E o \in waiting :
        /\ q.n = o.n /\ q.kind = o.kind /\ q.arg = o.arg /\ q.late = o.late
        /\ ~q.orphan => ~o.orphan
  BY HandleIs
<1>2. ASSUME NEW o \in waiting, ~o.orphan
      PROVE  \E q \in waiting' :
               /\ q.n = o.n /\ q.kind = o.kind /\ q.arg = o.arg /\ q.late = o.late /\ ~q.orphan
  <2>1. CASE o = r
    <3>1. ~r.orphan
      BY <1>2, <2>1
    <3>2. PICK q \in waiting' :
            /\ q.n = r.n /\ q.kind = r.kind /\ q.arg = r.arg /\ q.late = r.late
            /\ ~q.orphan
      BY <3>1, HandleIs
    <3> QED BY <2>1, <3>1, <3>2
  <2>2. CASE o # r
    BY <1>2, <2>2, HandleIs
  <2> QED BY <2>1, <2>2
<1> QED BY <1>1, <1>2 DEF Flights

\* So does nothing.
LEMMA SameFlights ==
  ASSUME waiting' = waiting
  PROVE  Flights
BY DEF Flights

\* So does every step of the backend and of the badge.
LEMMA ServerFlights ==
  ASSUME TypeOK, ServerStep \/ BadgeStep
  PROVE  Flights /\ open' = open
<1>1. UNCHANGED waiting \/ \E r \in waiting : \E a : Handle(r, a)
  BY DEF ServerStep, PolicyRequestServed, ServeList, ServeCreate, ServeDelete,
     Elsewhere, ChecksServerStep, CheckAccess, DirectoryServerStep, ServeUsers, Register,
     RestartInMemory, MembersBecome, DashboardServerStep, ServeAudit, ServeTest, BadgeStep,
     requests
<1>2. open' = open
  BY DEF ServerStep, BadgeStep
<1> QED BY <1>1, <1>2, HandleFlights, SameFlights

\* The fields of a request that has just been made.
LEMMA AskIs ==
  ASSUME TypeOK, NEW kind, NEW arg, Ask(kind, arg)
  PROVE  \E p : /\ waiting' = waiting \cup {p}
                /\ p.n = sent + 1 /\ p.kind = kind /\ p.arg = arg /\ p.answer = 0
                /\ ~p.served /\ ~p.late /\ ~p.orphan
<1>1. PICK n : n = sent + 1
  OBVIOUS
<1>2. PICK p : p = NewRequest(n, kind, arg)
  OBVIOUS
<1>3. waiting' = waiting \cup {p}
  BY <1>1, <1>2 DEF Ask, Asked
<1>4. p.n = n /\ p.kind = kind /\ p.arg = arg /\ p.answer = 0
  BY <1>2, NewFields
<1>5. p.served = FALSE /\ p.late = FALSE /\ p.orphan = FALSE
  BY <1>2, NewMarks
<1>6. ~p.served /\ ~p.late /\ ~p.orphan
  BY <1>5
<1> QED BY <1>1, <1>3, <1>4, <1>6

\* The catalog: the last launch is in flight, or those that are have been overtaken.
LastLaunch(app) ==
  \/ \A q \in Launches : q.late
  \/ \E r \in Launches : ~r.late /\ r.arg = <<app, 1>> /\ \A q \in Launches : q.n <= r.n

CatalogInv ==
  open = "applications" =>
    IF selectedApp = NoApp
      THEN Launches = {}
      ELSE /\ LastLaunch(selectedApp)
           /\ ~crossed /\ ~isChecking /\ checkResult # NoDecision =>
                checkResult.of = <<selectedApp, 1>>

\* The sandbox: one evaluation at a time.
SandboxInv ==
  open = "sandbox" =>
    /\ ~isEvaluating => Evaluations = {}
    /\ \A q, r \in Evaluations : q = r
    /\ ~edited => \A r \in Evaluations : r.arg = sandboxInput
    /\ SandboxTellsOfItsInputs

\* What the two pages hold puts their decisions in place.
LEMMA VerdictsIn ==
  ASSUME CatalogInv, SandboxInv
  PROVE  VerdictsInPlace
BY DEF CatalogInv, SandboxInv, VerdictsInPlace, PanelTellsOfItsApp, PanelVerdict, PanelTitle

\* Answers of the backend do not matter to what stands over a decision.
LEMMA FlightsKeep ==
  ASSUME TypeOK, Flights, NEW kind
  PROVE  /\ \A q \in InFlight({kind})' : \E o \in InFlight({kind}) :
              q.n = o.n /\ q.kind = o.kind /\ q.arg = o.arg /\ q.late = o.late
         /\ \A o \in InFlight({kind}) : \E q \in InFlight({kind})' :
              q.n = o.n /\ q.kind = o.kind /\ q.arg = o.arg /\ q.late = o.late
BY DEF Flights, InFlight

\* They do not matter to the two invariants.
LEMMA ServerVerdicts ==
  ASSUME TypeOK, RequestsTypeOK', CatalogInv, SandboxInv, Flights, open' = open,
         UNCHANGED <<catalog, sandbox>>
  PROVE  CatalogInv' /\ SandboxInv'
<1>1. /\ \A q \in Launches' : \E o \in Launches :
           q.n = o.n /\ q.arg = o.arg /\ q.late = o.late
      /\ \A o \in Launches : \E q \in Launches' :
           q.n = o.n /\ q.arg = o.arg /\ q.late = o.late
  BY FlightsKeep DEF Launches
<1>2. /\ \A q \in Evaluations' : \E o \in Evaluations : q.n = o.n /\ q.arg = o.arg
  BY FlightsKeep DEF Evaluations
<1>3. CatalogInv'
  <2>1. ASSUME LastLaunch(selectedApp)
        PROVE  LastLaunch(selectedApp)'
    BY <1>1, <2>1 DEF LastLaunch, catalog
  <2>2. Launches = {} => Launches' = {}
    BY <1>1
  <2>3. UNCHANGED <<selectedApp, checkResult, isChecking, crossed>>
    BY DEF catalog
  <2> QED BY <2>1, <2>2, <2>3 DEF CatalogInv
<1>4. SandboxInv'
  <2>1. UNCHANGED <<sandboxInput, sandboxResult, isEvaluating, edited>>
    BY DEF sandbox
  <2>2. \A q, r \in Evaluations' : q.n = r.n => q = r
    BY DEF RequestsTypeOK, Evaluations, InFlight
  <2>3. open = "sandbox" => \A q, r \in Evaluations' : q = r
    BY <1>2, <2>2 DEF SandboxInv
  <2> QED BY <1>2, <2>1, <2>3 DEF SandboxInv, SandboxTellsOfItsInputs
<1> QED BY <1>3, <1>4

\* The catalog's own steps keep CatalogInv.
LEMMA CatalogVerdicts ==
  ASSUME TypeOK, Grows, CatalogInv, InChecks("applications", CatalogStep)
  PROVE  CatalogInv'
<1>1. open = "applications" /\ open' = "applications"
  BY DEF InChecks
<1>2. ASSUME NEW app \in Apps, LaunchApp(app)
      PROVE  CatalogInv'
  <2>1. PICK p : /\ waiting' = waiting \cup {p}
                 /\ p.n = sent + 1 /\ p.kind = "launch" /\ p.arg = <<app, 1>>
                 /\ ~p.late /\ ~p.orphan
    BY <1>2, AskIs DEF LaunchApp
  <2>2. Launches' = Launches \cup {p}
    BY <2>1 DEF Launches, InFlight
  <2>3. \A q \in Launches : q.n <= p.n
    BY <2>1, InFlightOK DEF Launches, InFlight
  <2>4. p.n <= p.n
    BY <2>1, InFlightOK
  <2>5. selectedApp' = app /\ app # NoApp /\ isChecking' = TRUE
    BY <1>2, ChecksAssumption DEF LaunchApp, NoApp, apps
  <2>6. LastLaunch(app)'
    BY <2>1, <2>2, <2>3, <2>4 DEF LastLaunch
  <2>7. LastLaunch(selectedApp)'
    BY <2>5, <2>6 DEF LastLaunch
  <2> QED BY <2>5, <2>7 DEF CatalogInv
<1>3. ASSUME NEW r \in Launches, LaunchAnswered(r) \/ LaunchFails(r)
      PROVE  CatalogInv'
  <2>1. r \in waiting /\ r.kind = "launch" /\ ~r.orphan
    BY DEF Launches, InFlight
  <2>2. UNCHANGED selectedApp /\ waiting' = Without(r)
    BY <1>3 DEF LaunchAnswered, LaunchFails, Over
  <2>3. selectedApp # NoApp /\ LastLaunch(selectedApp)
    BY <1>1 DEF CatalogInv
  <2>4. /\ \A q \in Launches' : \E o \in Launches \ {r} : Later(q, o, r)
        /\ \A o \in Launches \ {r} : \E q \in Launches' : Later(q, o, r)
    BY <2>2, WithoutOK DEF Launches, InFlight, Later
  <2>5. \A q \in Launches : q.n \in Nat
    BY InFlightOK DEF Launches, InFlight
  <2>6. \A q, s \in Launches : q.n = s.n => q = s
    BY InFlightOK DEF Launches, InFlight
  <2>7. LastLaunch(selectedApp)'
    <3>1. CASE \A q \in Launches : q.late
      BY <2>4, <3>1 DEF LastLaunch, Later
    <3>2. ASSUME NEW s \in Launches, ~s.late, s.arg = <<selectedApp, 1>>,
                 \A q \in Launches : q.n <= s.n
          PROVE  LastLaunch(selectedApp)'
      <4>1. CASE s = r
        <5>1. \A o \in Launches \ {r} : o.n < r.n /\ o.kind = r.kind
          BY <2>1, <2>5, <2>6, <3>2, <4>1 DEF Launches, InFlight
        <5>2. ASSUME NEW q \in Launches'
              PROVE  q.late
          <6>1. PICK o \in Launches \ {r} : q.late = (o.late \/ (o.kind = r.kind /\ o.n < r.n))
            BY <2>4 DEF Later
          <6> QED BY <5>1, <6>1
        <5> QED BY <5>2 DEF LastLaunch
      <4>2. CASE s # r
        <5>1. PICK q \in Launches' : Later(q, s, r)
          BY <2>4, <4>2
        <5>2. ~(s.n < r.n)
          BY <2>5, <3>2
        <5>3. ~q.late
          BY <3>2, <5>1, <5>2 DEF Later
        <5>4. q.arg = <<selectedApp', 1>>
          BY <2>2, <3>2, <5>1 DEF Later
        <5>5. \A u \in Launches' : u.n <= q.n
          BY <2>4, <3>2, <5>1 DEF Later
        <5> QED BY <5>3, <5>4, <5>5 DEF LastLaunch
      <4> QED BY <4>1, <4>2
    <3> QED BY <2>3, <3>1, <3>2 DEF LastLaunch
  <2>8. ~crossed' /\ checkResult' # NoDecision => checkResult'.of = <<selectedApp, 1>>
    <3>1. checkResult' = NoDecision \/ \E allow \in BOOLEAN : checkResult' = Decision(r, allow)
      BY <1>3 DEF LaunchAnswered, LaunchFails, Read
    <3>2. checkResult' # NoDecision => checkResult'.of = r.arg
      BY <3>1, DecisionIs
    <3>3. crossed' <=> r.late \/ ~IsNewest(r)
      BY <1>3 DEF LaunchAnswered, LaunchFails
    <3>4. ASSUME ~r.late, IsNewest(r)
          PROVE  r.arg = <<selectedApp, 1>>
      <4>1. PICK s \in Launches : s.arg = <<selectedApp, 1>> /\ \A q \in Launches : q.n <= s.n
        BY <2>3, <3>4 DEF LastLaunch
      <4>2. s.n = r.n
        BY <2>5, <3>4, <4>1 DEF IsNewest
      <4> QED BY <2>6, <4>1, <4>2
    <3> QED BY <3>2, <3>3, <3>4
  <2> QED BY <2>2, <2>3, <2>7, <2>8 DEF CatalogInv
<1> QED BY <1>2, <1>3 DEF InChecks, CatalogStep, LaunchSettles

\* The sandbox's own steps keep SandboxInv.
LEMMA SandboxVerdicts ==
  ASSUME TypeOK, Grows, SandboxInv, InChecks("sandbox", SandboxStep)
  PROVE  SandboxInv'
<1>1. open = "sandbox" /\ open' = "sandbox"
  BY DEF InChecks
<1>2. CASE MoveInput
  <2>1. edited' = TRUE /\ UNCHANGED <<waiting, isEvaluating>>
    BY <1>2 DEF MoveInput
  <2>2. Evaluations' = Evaluations
    BY <2>1 DEF Evaluations, InFlight
  <2> QED BY <1>1, <2>1, <2>2 DEF SandboxInv, SandboxTellsOfItsInputs
<1>3. CASE RunEvaluation
  <2>1. PICK p : /\ waiting' = waiting \cup {p}
                 /\ p.kind = "evaluate" /\ p.arg = sandboxInput
    <3>1. PICK input : input = sandboxInput
      OBVIOUS
    <3>2. Ask("evaluate", input)
      BY <1>3, <3>1 DEF RunEvaluation
    <3> QED BY <3>1, <3>2, AskIs
  <2>2. Evaluations = {} /\ UNCHANGED sandboxInput /\ isEvaluating' = TRUE
    BY <1>1, <1>3 DEF SandboxInv, RunEvaluation
  <2>3. Evaluations' \subseteq {p}
    BY <2>1, <2>2 DEF Evaluations, InFlight
  <2> QED BY <2>1, <2>2, <2>3 DEF SandboxInv, SandboxTellsOfItsInputs
<1>4. ASSUME NEW r \in Evaluations, EvaluationAnswered(r) \/ EvaluationFails(r)
      PROVE  SandboxInv'
  <2>1. r \in waiting
    BY DEF Evaluations, InFlight
  <2>2. waiting' = Without(r) /\ UNCHANGED <<sandboxInput, edited>>
    BY <1>4 DEF EvaluationAnswered, EvaluationFails, Over
  <2>3. \A q \in Evaluations' : \E o \in Evaluations \ {r} : Later(q, o, r)
    BY <2>1, <2>2, WithoutOK DEF Evaluations, InFlight, Later
  <2>4. Evaluations' = {}
    BY <1>1, <2>3 DEF SandboxInv
  <2>5. ~edited => r.arg = sandboxInput
    BY <1>1 DEF SandboxInv
  <2>6. \/ sandboxResult' = NoDecision
        \/ \E allow \in BOOLEAN : sandboxResult' = Decision(r, allow)
    BY <1>4 DEF EvaluationAnswered, EvaluationFails, Read
  <2>7. sandboxResult' # NoDecision => sandboxResult'.of = r.arg
    BY <2>6, DecisionIs
  <2> QED BY <2>2, <2>4, <2>5, <2>7 DEF SandboxInv, SandboxTellsOfItsInputs
<1> QED BY <1>2, <1>3, <1>4 DEF InChecks, SandboxStep, EvaluationSettles

\* Every step keeps both.
LEMMA NextVerdicts ==
  ASSUME TypeOK, Grows, RequestsTypeOK', CatalogInv, SandboxInv, Next
  PROVE  CatalogInv' /\ SandboxInv'
<1>1. ASSUME NEW p \in Pages, Navigate(p)
      PROVE  CatalogInv' /\ SandboxInv'
  <2>1. /\ selectedApp' = NoApp /\ sandboxResult' = NoDecision
    BY <1>1 DEF Navigate, Remount, CatalogMount, SandboxMount
  <2>2. Launches' = {} /\ Evaluations' = {}
    BY <1>1, NavigateSources DEF Launches, Evaluations, InFlight, PolicyWrites
  <2> QED BY <2>1, <2>2 DEF CatalogInv, SandboxInv, SandboxTellsOfItsInputs
<1>2. CASE PageStep
  <2>1. CASE InChecks("sandbox", SandboxStep)
    BY <2>1, SandboxVerdicts DEF InChecks, CatalogInv
  <2>2. CASE InChecks("applications", CatalogStep)
    BY <2>2, CatalogVerdicts DEF InChecks, SandboxInv
  <2>3. CASE open' \notin {"applications", "sandbox"}
    BY <2>3 DEF CatalogInv, SandboxInv
  <2> QED BY <1>2, <2>1, <2>2, <2>3 DEF PageStep, InPolicies, InUsers, InDashboard
<1>3. CASE ServerStep \/ BadgeStep
  <2>1. UNCHANGED <<catalog, sandbox>>
    BY <1>3 DEF ServerStep, BadgeStep, ChecksServerStep, CheckAccess, checkVars
  <2> QED BY <1>3, <2>1, ServerFlights, ServerVerdicts
<1> QED BY <1>1, <1>2, <1>3 DEF Next

\* Both hold at first.
LEMMA InitVerdicts ==
  ASSUME Init
  PROVE  CatalogInv /\ SandboxInv
<1>1. selectedApp = NoApp /\ sandboxResult = NoDecision
  BY DEF Init, Mount, CatalogMount, SandboxMount
<1>2. Launches = {} /\ Evaluations = {}
  <2>1. ASSUME NEW q \in waiting
        PROVE  q.kind \notin {"launch", "evaluate"}
    <3>1. PICK n : n = 1
      OBVIOUS
    <3>2. q \in Opening(open, n)
      BY <3>1 DEF Init
    <3> QED BY <3>2, OpeningIs, NewFields
  <2> QED BY <2>1 DEF Launches, Evaluations, InFlight
<1> QED BY <1>1, <1>2 DEF CatalogInv, SandboxInv, SandboxTellsOfItsInputs

\* The two invariants of the decisions, at every moment.
LEMMA VerdictInvariant == Spec => [](TypeOK /\ CatalogInv /\ SandboxInv)
<1>1. Init => TypeOK /\ CatalogInv /\ SandboxInv
  BY InitTypes, InitVerdicts
<1>2. TypeOK /\ CatalogInv /\ SandboxInv /\ [Next]_vars => (TypeOK /\ CatalogInv /\ SandboxInv)'
  <2>1. ASSUME TypeOK, CatalogInv, SandboxInv, UNCHANGED vars
        PROVE  CatalogInv' /\ SandboxInv'
    <3>1. RequestsTypeOK'
      BY <2>1, StutterTypes DEF TypeOK
    <3>2. UNCHANGED <<waiting, open, catalog, sandbox>>
      BY <2>1 DEF vars, requests, checkVars
    <3> QED BY <2>1, <3>1, <3>2, SameFlights, ServerVerdicts
  <2>2. ASSUME TypeOK, CatalogInv, SandboxInv, Next
        PROVE  (TypeOK /\ CatalogInv /\ SandboxInv)'
    <3>1. TypeOK' /\ Grows /\ RequestsTypeOK'
      BY <2>2, NextTypes DEF TypeOK
    <3> QED BY <2>2, <3>1, NextVerdicts
  <2> QED BY <2>1, <2>2, StutterTypes
<1> QED BY <1>1, <1>2, PTL DEF Spec

\* Console.tla, VerdictsInPlace: several launches in flight answered in any order,
\* inputs moved while an evaluation is on its way: unless the page could not
\* know better, the decision shown is about the name, or the inputs, over it.
THEOREM VerdictsStayInPlace == Spec => []VerdictsInPlace
<1>1. CatalogInv /\ SandboxInv => VerdictsInPlace
  BY VerdictsIn
<1> QED BY <1>1, VerdictInvariant, PTL

-----------------------------------------------------------------------------
(* The directory.                                                          *)

\* The last refresh counts, and a spinner has something to wait for.
DirectoryInv ==
  open = "users" => LastRefreshCounts /\ (usersLoading => Directories # {})

\* It is why the rows leave nobody out.
LEMMA DirectoryInvShows ==
  ASSUME TypeOK, DirectoryInv
  PROVE  DirectoryFresh
<1>1. ASSUME open = "users", Directories = {}, ~error, ~overtaken
      PROVE  \E v \in asked .. Len(members) : UserRows = {a \in members[v] : Passes(a)}
  <2>1. Current /\ ~usersLoading
    BY <1>1 DEF DirectoryInv, LastRefreshCounts
  <2>2. UserRows = {a \in users : Passes(a)}
    BY <2>1 DEF UserRows, filteredUsers
  <2> QED BY <2>1, <2>2 DEF Current
<1> QED BY <1>1 DEF DirectoryInv, DirectoryFresh, DirectoryIsFresh

\* What has been current since the last refresh stays so.
LEMMA CurrentStays ==
  ASSUME TypeOK, Grows, Current, UNCHANGED <<users, asked>>
  PROVE  Current'
<1>1. asked \in 1 .. Len(members) /\ Len(members) \in Nat
  BY Counters DEF TypeOK, UsersTypeOK
<1>2. PICK v \in asked .. Len(members) : users = members[v]
  BY DEF Current
<1>3. v \in asked' .. Len(members') /\ v \in 1 .. Len(members)
  BY <1>1, <1>2 DEF Grows
<1>4. users' = members'[v]
  BY <1>2, <1>3 DEF Grows
<1> QED BY <1>3, <1>4 DEF Current

\* So does LastRefreshCounts when no request changes.
LEMMA LastRefreshStays ==
  ASSUME TypeOK, Grows, LastRefreshCounts, Directories' = Directories,
         UNCHANGED <<users, asked, error, overtaken>>
  PROVE  LastRefreshCounts'
BY CurrentStays DEF LastRefreshCounts, Newest

\* A directory the backend has just been asked for.
LEMMA JustAsked ==
  ASSUME NEW p, p \in Directories', ~p.late, ~p.served, \A q \in Directories' : q.n <= p.n
  PROVE  LastRefreshCounts'
BY DEF LastRefreshCounts, Newest

\* An answer, or none, comes.
LEMMA DirectorySettled ==
  ASSUME TypeOK, Grows, open = "users", DirectoryInv, NEW r \in Directories,
         DirectoryArrives(r) \/ DirectoryFails(r)
  PROVE  LastRefreshCounts' /\ ~usersLoading'
<1>1. r \in waiting /\ r.kind = "listUsers" /\ r.late \in BOOLEAN
  BY InFlightOK DEF Directories, InFlight, RequestOK
<1>2. waiting' = Without(r) /\ asked' = asked /\ usersLoading' = FALSE
  BY DEF DirectoryArrives, DirectoryFails, Over
<1>3. /\ \A q \in Directories' : \E o \in Directories \ {r} : Later(q, o, r)
      /\ \A o \in Directories \ {r} : \E q \in Directories' : Later(q, o, r)
  BY <1>2, WithoutOK DEF Directories, InFlight, Later
<1>4. /\ \A q \in Directories : q.n \in Nat /\ q.kind = "listUsers"
      /\ \A q, s \in Directories : q.n = s.n => q = s
  BY InFlightOK DEF Directories, InFlight
<1>5. CASE \A q \in Directories : q.late
  <2>1. \A q \in Directories' : q.late
    BY <1>3, <1>5 DEF Later
  <2>2. error' \/ overtaken'
    BY <1>5 DEF DirectoryArrives, DirectoryFails
  <2> QED BY <1>2, <2>1, <2>2 DEF LastRefreshCounts
<1>6. ASSUME NEW s \in Directories, Newest(s), ~s.late,
             s.served => s.answer = 0 \/ s.answer >= asked
      PROVE  LastRefreshCounts'
  <2>1. CASE s = r
    <3>1. ASSUME NEW q \in Directories'
          PROVE  q.late
      <4>1. PICK o \in Directories \ {r} : q.late = (o.late \/ (o.kind = r.kind /\ o.n < r.n))
        BY <1>3 DEF Later
      <4>2. o.n < r.n
        BY <1>4, <1>6, <2>1 DEF Newest
      <4> QED BY <1>4, <4>1, <4>2
    <3>2. error' \/ Current'
      <4>1. CASE DirectoryFails(r)
        BY <4>1 DEF DirectoryFails
      <4>2. CASE DirectoryArrives(r)
        <5>1. r.answer \in asked .. Len(members)
          BY <1>1, <1>6, <2>1, <4>2, InFlightOK, Counters
          DEF DirectoryArrives, Answered, RequestOK, AnswerOK, TypeOK, UsersTypeOK
        <5>2. users' = members[r.answer] /\ UNCHANGED <<members, asked>>
          BY <4>2 DEF DirectoryArrives
        <5> QED BY <5>1, <5>2 DEF Current
      <4> QED BY <4>1, <4>2
    <3> QED BY <3>1, <3>2 DEF LastRefreshCounts
  <2>2. CASE s # r
    <3>1. PICK q \in Directories' : Later(q, s, r)
      BY <1>3, <2>2
    <3>2. ~(s.n < r.n)
      BY <1>4, <1>6 DEF Newest
    <3>3. ~q.late
      BY <1>6, <3>1, <3>2 DEF Later
    <3>4. q.served => q.answer = 0 \/ q.answer >= asked'
      BY <1>2, <1>6, <3>1 DEF Later
    <3>5. \A u \in Directories' : u.n <= q.n
      BY <1>3, <1>6, <3>1 DEF Later, Newest
    <3> QED BY <3>3, <3>4, <3>5 DEF LastRefreshCounts, Newest
  <2> QED BY <2>1, <2>2
<1> QED BY <1>2, <1>5, <1>6 DEF DirectoryInv, LastRefreshCounts

\* The backend answers somebody.
LEMMA DirectoryServed ==
  ASSUME TypeOK, Grows, open = "users", DirectoryInv, NEW r \in waiting, NEW a, Handle(r, a),
         r.kind = "listUsers" => a = 0 \/ a = Len(members), UNCHANGED <<usersVars, open>>
  PROVE  DirectoryInv'
<1>1. UNCHANGED <<asked, error, overtaken, users, usersLoading>>
  BY DEF usersVars, directory
<1>2. asked \in Nat /\ Len(members) \in Nat /\ asked <= Len(members)
  BY Counters DEF TypeOK, UsersTypeOK
<1>3. \A q \in Directories' : \E o \in Directories :
        /\ q.n = o.n /\ q.late = o.late
        /\ \/ q.served = o.served /\ q.answer = o.answer
           \/ q.answer = 0 \/ q.answer = Len(members)
  <2>1. ASSUME NEW q \in Directories'
        PROVE  \E o \in Directories :
                 /\ q.n = o.n /\ q.late = o.late
                 /\ \/ q.served = o.served /\ q.answer = o.answer
                    \/ q.answer = 0 \/ q.answer = Len(members)
    <3>1. q \in waiting' /\ q.kind = "listUsers" /\ ~q.orphan
      BY DEF Directories, InFlight
    <3>2. CASE q \in waiting \ {r}
      BY <3>1, <3>2 DEF Directories, InFlight
    <3>3. CASE /\ q.n = r.n /\ q.kind = r.kind
               /\ q.answer = a /\ q.late = r.late /\ ~r.orphan
      BY <3>1, <3>3 DEF Directories, InFlight
    <3> QED BY <3>1, <3>2, <3>3, HandleIs
  <2> QED BY <2>1
<1>4. \A o \in Directories : \E q \in Directories' :
        /\ q.n = o.n /\ q.late = o.late
        /\ \/ q.served = o.served /\ q.answer = o.answer
           \/ q.answer = 0 \/ q.answer = Len(members)
  <2>1. ASSUME NEW o \in Directories, o # r
        PROVE  o \in Directories'
    BY <2>1, HandleIs DEF Directories, InFlight
  <2>2. ASSUME r \in Directories
        PROVE  \E q \in Directories' :
                 /\ q.n = r.n /\ q.late = r.late /\ (q.answer = 0 \/ q.answer = Len(members))
    <3>1. r.kind = "listUsers" /\ ~r.orphan
      BY <2>2 DEF Directories, InFlight
    <3>2. PICK q \in waiting' :
            q.n = r.n /\ q.kind = r.kind /\ q.answer = a /\ q.late = r.late /\ ~q.orphan
      BY <3>1, HandleIs
    <3> QED BY <3>1, <3>2 DEF Directories, InFlight
  <2> QED BY <2>1, <2>2
<1>5. CASE \A q \in Directories : q.late
  <2>1. \A q \in Directories' : q.late
    BY <1>3, <1>5
  <2>2. error \/ overtaken \/ Current
    BY <1>5 DEF DirectoryInv, LastRefreshCounts
  <2>3. LastRefreshCounts'
    BY <1>1, <2>1, <2>2, CurrentStays DEF LastRefreshCounts
  <2> QED BY <1>1, <1>4, <2>3 DEF DirectoryInv
<1>6. ASSUME NEW s \in Directories, Newest(s), ~s.late,
             s.served => s.answer = 0 \/ s.answer >= asked
      PROVE  DirectoryInv'
  <2>1. PICK q \in Directories' :
        /\ q.n = s.n /\ q.late = s.late
        /\ \/ q.served = s.served /\ q.answer = s.answer
           \/ q.answer = 0 \/ q.answer = Len(members)
    BY <1>4
  <2>2. \A u \in Directories' : u.n <= q.n
    BY <1>3, <1>6, <2>1 DEF Newest
  <2>3. q.served => q.answer = 0 \/ q.answer >= asked'
    BY <1>1, <1>2, <1>6, <2>1
  <2>4. LastRefreshCounts'
    BY <1>6, <2>1, <2>2, <2>3 DEF LastRefreshCounts, Newest
  <2> QED BY <2>1, <2>4 DEF DirectoryInv
<1> QED BY <1>5, <1>6 DEF DirectoryInv, LastRefreshCounts

\* What a page asks for first is all that is waited for there.
LEMMA NavigateFlights ==
  ASSUME TypeOK, NEW p \in Pages, Navigate(p), NEW kind,
         NEW q, q \in waiting', q.kind = kind, ~q.orphan
  PROVE  q \in Opening(p, sent + 1)
BY NavigateSources

\* The users page as it is opened.
LEMMA UsersOpened ==
  ASSUME NEW n \in Nat, NEW p, p = NewRequest(n, "listUsers", << >>)
  PROVE  p.n = n /\ p.kind = "listUsers" /\ ~p.served /\ ~p.late /\ ~p.orphan
<1>1. p.n = n /\ p.kind = "listUsers"
  BY NewFields
<1>2. p.served = FALSE /\ p.late = FALSE /\ p.orphan = FALSE
  BY NewMarks
<1> QED BY <1>1, <1>2

\* Opening the users page, or another, establishes DirectoryInv.
LEMMA NavigateDirectory ==
  ASSUME TypeOK, NEW page \in Pages, Navigate(page)
  PROVE  DirectoryInv'
<1>1. open' = page
  BY DEF Navigate
<1>2. CASE page = "users"
  <2>1. PICK n : n = sent + 1
    OBVIOUS
  <2>2. n \in Nat
    BY <2>1, InFlightOK
  <2>3. PICK p : p = NewRequest(n, "listUsers", << >>)
    OBVIOUS
  <2>4. Opening(page, n) = {p}
    BY <1>2, <2>3 DEF Opening
  <2>5. p \in waiting'
    BY <2>1, <2>4 DEF Navigate
  <2>6. p.n = n /\ p.kind = "listUsers" /\ ~p.served /\ ~p.late /\ ~p.orphan
    BY <2>2, <2>3, UsersOpened
  <2>7. Directories' = {p}
    <3>1. \A q \in Directories' : q \in Opening(page, sent + 1)
      BY NavigateFlights DEF Directories, InFlight
    <3>2. p \in Directories'
      BY <2>5, <2>6 DEF Directories, InFlight
    <3> QED BY <2>1, <2>4, <3>1, <3>2
  <2>8. LastRefreshCounts'
    BY <2>2, <2>6, <2>7 DEF LastRefreshCounts, Newest
  <2> QED BY <2>7, <2>8 DEF DirectoryInv
<1> QED BY <1>1, <1>2 DEF DirectoryInv

\* Every step keeps DirectoryInv.
LEMMA NextDirectory ==
  ASSUME TypeOK, DirectoryInv, Grows, Next
  PROVE  DirectoryInv'
<1>1. CASE \E p \in Pages : Navigate(p)
  BY <1>1, NavigateDirectory
<1>2. CASE open' = open /\ open # "users"
  BY <1>2 DEF DirectoryInv
<1>3. CASE open = "users" /\ PageStep
  <2>1. InUsers(UsersPageStep) /\ open' = "users"
    BY <1>3 DEF PageStep, InPolicies, InChecks, InUsers, InDashboard
  <2>2. CASE Refresh
    <3>1. PICK p : /\ waiting' = waiting \cup {p}
                   /\ p.n = sent + 1 /\ p.kind = "listUsers"
                   /\ ~p.served /\ ~p.late /\ ~p.orphan
      BY <2>2, AskIs DEF Refresh
    <3>2. Directories' = Directories \cup {p}
      BY <3>1 DEF Directories, InFlight
    <3>3. \A q \in Directories : q.n <= p.n
      BY <3>1, InFlightOK DEF Directories, InFlight
    <3>4. p.n <= p.n
      BY <3>1, InFlightOK
    <3>5. LastRefreshCounts'
      BY <3>1, <3>2, <3>3, <3>4, JustAsked
    <3> QED BY <3>2, <3>5 DEF DirectoryInv
  <2>3. CASE ChooseRole \/ TypeSearch
    <3>1. UNCHANGED <<waiting, users, usersLoading, error, asked, overtaken>>
      BY <2>3 DEF ChooseRole, TypeSearch, directory
    <3>2. Directories' = Directories
      BY <3>1 DEF Directories, InFlight
    <3>3. LastRefreshCounts => LastRefreshCounts'
      BY <3>1, <3>2, LastRefreshStays
    <3> QED BY <1>3, <3>1, <3>2, <3>3 DEF DirectoryInv
  <2>4. CASE DirectorySettles
    BY <1>3, <2>4, DirectorySettled DEF DirectorySettles, DirectoryInv
  <2> QED BY <2>1, <2>2, <2>3, <2>4 DEF InUsers, UsersPageStep
<1>4. CASE open = "users" /\ (ServerStep \/ BadgeStep)
  <2>1. open' = open
    BY <1>4, ServerFlights
  <2>2. UNCHANGED usersVars
    BY <1>4 DEF ServerStep, BadgeStep
  <2>3. CASE UNCHANGED waiting
    <3>1. Directories' = Directories
      BY <2>3 DEF Directories, InFlight
    <3>2. UNCHANGED <<users, usersLoading, error, asked, overtaken>>
      BY <2>2 DEF usersVars, directory
    <3>3. LastRefreshCounts => LastRefreshCounts'
      BY <3>1, <3>2, LastRefreshStays
    <3> QED BY <2>1, <3>1, <3>2, <3>3 DEF DirectoryInv
  <2>4. CASE \E r \in waiting : \E a : Handle(r, a) /\ (r.kind = "listUsers" => a = 0 \/ a = Len(members))
    BY <1>4, <2>1, <2>2, <2>4, DirectoryServed
  <2>5. UNCHANGED waiting \/ \E r \in waiting : \E a :
          Handle(r, a) /\ (r.kind = "listUsers" => a = 0 \/ a = Len(members))
    <3>1. ASSUME NEW r \in waiting, ServeList(r) \/ ServeCreate(r) \/ ServeDelete(r)
          PROVE  (\E a : Handle(r, a)) /\ r.kind # "listUsers"
      BY <3>1 DEF ServeList, ServeCreate, ServeDelete
    <3>2. ASSUME NEW r \in waiting, CheckAccess(r) \/ ServeAudit(r) \/ ServeTest(r)
          PROVE  (\E a : Handle(r, a)) /\ r.kind # "listUsers"
      BY <3>2 DEF CheckAccess, ServeAudit, ServeTest
    <3>3. ASSUME NEW r \in waiting, ServeUsers(r)
          PROVE  \E a : Handle(r, a) /\ (a = 0 \/ a = Len(members))
      BY <3>3 DEF ServeUsers
    <3>4. CASE Elsewhere \/ Register \/ RestartInMemory \/ BadgeStep
      BY <3>4 DEF Elsewhere, Register, RestartInMemory, MembersBecome, BadgeStep, requests
    <3> QED BY <1>4, <3>1, <3>2, <3>3, <3>4
            DEF ServerStep, PolicyRequestServed, ChecksServerStep, DirectoryServerStep,
                DashboardServerStep
  <2> QED BY <2>3, <2>4, <2>5
<1>5. PageStep => open' = open
  BY DEF PageStep, InPolicies, InChecks, InUsers, InDashboard
<1> QED BY <1>1, <1>2, <1>3, <1>4, <1>5, ServerFlights DEF Next

\* It holds at first.
LEMMA InitDirectory ==
  ASSUME Init
  PROVE  DirectoryInv
<1>1. ASSUME open = "users"
      PROVE  LastRefreshCounts /\ Directories # {}
  <2>1. PICK n : n = 1
    OBVIOUS
  <2>2. PICK p : p = NewRequest(n, "listUsers", << >>)
    OBVIOUS
  <2>3. waiting = {p}
    BY <1>1, <2>1, <2>2 DEF Init, Opening
  <2>4. p.n = n /\ p.kind = "listUsers" /\ ~p.served /\ ~p.late /\ ~p.orphan
    BY <2>1, <2>2, UsersOpened
  <2>5. Directories = {p}
    BY <2>3, <2>4 DEF Directories, InFlight
  <2> QED BY <2>1, <2>4, <2>5 DEF LastRefreshCounts, Newest
<1> QED BY <1>1 DEF DirectoryInv

\* Console.tla, DirectoryFresh: refreshes overlap, fail, and are answered in any
\* order while others register.  Once none is in flight, and unless the page
\* shows an error or the last answer was overtaken, the rows are the accounts
\* of one moment since the last refresh, filtered.
THEOREM DirectoryStaysFresh == Spec => []DirectoryFresh
<1>1. Init => TypeOK /\ DirectoryInv
  BY InitTypes, InitDirectory
<1>2. TypeOK /\ DirectoryInv /\ [Next]_vars => (TypeOK /\ DirectoryInv)'
  <2>1. ASSUME TypeOK, DirectoryInv, UNCHANGED vars
        PROVE  DirectoryInv'
    <3>1. UNCHANGED <<waiting, open, users, usersLoading, error, asked, overtaken>>
      BY <2>1 DEF vars, requests, usersVars, directory
    <3>2. Directories' = Directories
      BY <3>1 DEF Directories, InFlight
    <3>3. Grows
      BY <2>1, StutterTypes
    <3>4. LastRefreshCounts => LastRefreshCounts'
      BY <2>1, <3>1, <3>2, <3>3, LastRefreshStays
    <3> QED BY <2>1, <3>1, <3>2, <3>4 DEF DirectoryInv
  <2> QED BY <2>1, NextTypes, StutterTypes, NextDirectory
<1>3. TypeOK /\ DirectoryInv => DirectoryFresh
  BY DirectoryInvShows
<1> QED BY <1>1, <1>2, <1>3, PTL DEF Spec

-----------------------------------------------------------------------------
(* The administrator's own writes.                                         *)

\* A list that is owed is why the page will show them.
PoliciesInv == open = "policies" => TimelyListIsOwed

\* With no list in flight none is owed, and so the table is fresh.
LEMMA PoliciesInvShows ==
  ASSUME PoliciesInv
  PROVE  ReadYourWrites
BY DEF PoliciesInv, ReadYourWrites, PoliciesReadYourWrites, TimelyListIsOwed, Owed

\* What the table shows stays fresh as the history grows.
LEMMA StaysFresh ==
  ASSUME TypeOK, Fresh, UNCHANGED <<policies, acked>>,
         past' = past \/ \E set : past' = Append(past, set)
  PROVE  Fresh'
<1>1. PICK v \in acked .. Len(past) : policies = past[v]
  BY DEF Fresh
<1>2. acked \in Nat /\ acked # 0 /\ Len(past) \in Nat
  BY Counters DEF TypeOK, PoliciesTypeOK
<1>3. v \in acked' .. Len(past') /\ past'[v] = past[v]
  BY <1>1, <1>2, Counters
<1> QED BY <1>1, <1>3 DEF Fresh

\* A list that has just been asked for, the newest of those in flight.
LEMMA NewListIsOwed ==
  ASSUME NEW p, p \in PolicyLists', ~p.late, ~p.served,
         \A q \in PolicyLists' : q.n \in Nat /\ (q # p => q.n < p.n), p.n \in Nat
  PROVE  TimelyListIsOwed'
<1>1. \A q \in PolicyLists' : q.n >= p.n => q = p
  OBVIOUS
<1>2. Owed(p)'
  BY <1>1 DEF Owed
<1> QED BY <1>2 DEF TimelyListIsOwed

\* The lists in flight.
LEMMA ListsInFlight ==
  ASSUME TypeOK
  PROVE  /\ \A q \in PolicyLists : q \in waiting /\ q.n \in Nat /\ q.n <= sent
                                   /\ q.kind = "listPolicies" /\ ~q.orphan
         /\ \A q, s \in PolicyLists : q.n = s.n => q = s
BY InFlightOK DEF PolicyLists, InFlight

\* A list comes, or fails: if a timely one is left, one that is owed is.
LEMMA ListSettled ==
  ASSUME TypeOK, Grows, TimelyListIsOwed, NEW r \in PolicyLists,
         ListArrives(r) \/ ListFails(r)
  PROVE  TimelyListIsOwed'
<1>1. waiting' = Without(r) /\ acked' = acked /\ past' = past /\ r \in waiting
  BY ListsInFlight DEF ListArrives, ListFails, Over, policyServer
<1>2. /\ \A q \in PolicyLists' : \E o \in PolicyLists \ {r} : Later(q, o, r)
      /\ \A o \in PolicyLists \ {r} : \E q \in PolicyLists' : Later(q, o, r)
  BY <1>1, WithoutOK DEF PolicyLists, InFlight, Later
<1>3. ASSUME NEW s \in PolicyLists, Owed(s), NEW o \in PolicyLists \ {r}, ~o.late,
             o.n >= s.n, o.n > r.n
      PROVE  \E q \in PolicyLists' : Owed(q)'
  <2>1. PICK q \in PolicyLists' : Later(q, o, r)
    BY <1>2
  <2>2. ~q.late
    <3>1. q.late = (o.late \/ (o.kind = r.kind /\ o.n < r.n))
      BY <2>1 DEF Later
    <3>2. ~(o.n < r.n)
      BY <1>3, ListsInFlight
    <3> QED BY <1>3, <3>1, <3>2
  <2>3. ASSUME NEW u \in PolicyLists', u.n >= q.n
        PROVE  ~u.served \/ u.answer = 0 \/ u.answer >= acked'
    <3>1. PICK w \in PolicyLists \ {r} : Later(u, w, r)
      BY <1>2
    <3>2. w.n >= s.n
      BY <1>3, <2>1, <2>3, <3>1, ListsInFlight DEF Later
    <3>3. ~w.served \/ w.answer = 0 \/ w.answer >= acked
      BY <1>3, <3>2 DEF Owed
    <3> QED BY <1>1, <3>1, <3>3 DEF Later
  <2> QED BY <2>2, <2>3 DEF Owed
<1>4. (\E q \in PolicyLists' : ~q.late) => \E q \in PolicyLists' : Owed(q)'
  <2>1. ASSUME NEW q \in PolicyLists', ~q.late
        PROVE  \E p \in PolicyLists' : Owed(p)'
    <3>1. PICK o \in PolicyLists \ {r} : Later(q, o, r)
      BY <1>2
    <3>2. q.late = (o.late \/ (o.kind = r.kind /\ o.n < r.n))
      BY <3>1 DEF Later
    <3>3. ~o.late /\ ~(o.n < r.n)
      BY <2>1, <3>2, ListsInFlight
    <3>4. o.n > r.n
      BY <3>3, ListsInFlight
    <3>5. PICK s \in PolicyLists : Owed(s)
      BY <3>3 DEF TimelyListIsOwed
    <3>6. CASE o.n >= s.n
      BY <1>3, <3>3, <3>4, <3>5, <3>6
    <3>7. CASE ~(o.n >= s.n)
      <4>1. s.n > r.n /\ s # r /\ s.n >= s.n
        BY <3>4, <3>7, ListsInFlight
      <4>2. ~s.late
        BY <3>5 DEF Owed
      <4> QED BY <1>3, <3>5, <4>1, <4>2
    <3> QED BY <3>6, <3>7
  <2> QED BY <2>1
<1>5. lapsed' \/ Fresh' \/ \E q \in PolicyLists' : Owed(q)'
  <2>1. CASE ListFails(r)
    BY <2>1 DEF ListFails
  <2>2. ASSUME ListArrives(r), ~r.late
        PROVE  Fresh' \/ \E q \in PolicyLists' : Owed(q)'
    <3>1. PICK s \in PolicyLists : Owed(s)
      BY <2>2 DEF TimelyListIsOwed
    <3>2. CASE s.n > r.n
      <4>1. s # r /\ s.n >= s.n
        BY <3>2, ListsInFlight
      <4>2. ~s.late
        BY <3>1 DEF Owed
      <4> QED BY <1>3, <3>1, <3>2, <4>1, <4>2
    <3>3. CASE ~(s.n > r.n)
      <4>1. r.n >= s.n
        BY <3>3, ListsInFlight
      <4>2. r.served /\ r.answer # 0
        BY <2>2 DEF ListArrives, Answered
      <4>3. r.answer >= acked
        BY <3>1, <4>1, <4>2 DEF Owed
      <4>4. r.answer \in Nat /\ r.answer <= Len(past)
        BY <1>1, ListsInFlight, InFlightOK DEF RequestOK, AnswerOK
      <4>5. policies' = past'[r.answer] /\ acked' = acked /\ Len(past') = Len(past)
        BY <1>1, <2>2 DEF ListArrives
      <4>6. acked \in Nat /\ Len(past) \in Nat
        BY Counters DEF TypeOK, PoliciesTypeOK
      <4>7. r.answer \in acked' .. Len(past')
        BY <4>3, <4>4, <4>5, <4>6
      <4> QED BY <4>5, <4>7 DEF Fresh
    <3> QED BY <3>2, <3>3
  <2>3. ListArrives(r) => lapsed' = r.late
    BY DEF ListArrives
  <2> QED BY <2>1, <2>2, <2>3
<1> QED BY <1>4, <1>5 DEF TimelyListIsOwed

\* A write is acknowledged, and the list read again.
LEMMA WriteOwes ==
  ASSUME TypeOK, Grows, NEW r \in InFlight(PolicyWrites), WriteDone(r)
  PROVE  TimelyListIsOwed'
<1>1. PICK n : n = sent + 1
  OBVIOUS
<1>2. PICK p : p = NewRequest(n, "listPolicies", << >>)
  OBVIOUS
<1>3. waiting' = Without(r) \cup {p} /\ r \in waiting
  BY <1>1, <1>2 DEF WriteDone, Asked, InFlight
<1>4. p.n = n /\ p.kind = "listPolicies"
  BY <1>2, NewFields
<1>5. p.served = FALSE /\ p.late = FALSE /\ p.orphan = FALSE
  BY <1>2, NewMarks
<1>6. ~p.served /\ ~p.late /\ ~p.orphan
  BY <1>5
<1>7. p \in PolicyLists'
  BY <1>3, <1>4, <1>6 DEF PolicyLists, InFlight
<1>8. n \in Nat /\ sent \in Nat /\ sent < n
  BY <1>1, InFlightOK
<1>9. ASSUME NEW q \in PolicyLists'
      PROVE  q.n \in Nat /\ (q # p => q.n < p.n)
  <2>1. q = p \/ q \in Without(r)
    BY <1>3 DEF PolicyLists, InFlight
  <2>2. CASE q \in Without(r)
    <3>1. PICK o \in waiting : q.n = o.n
      BY <1>3, <2>2, WithoutOK DEF Later
    <3>2. o.n \in Nat /\ o.n <= sent
      BY InFlightOK
    <3> QED BY <1>4, <1>8, <3>1, <3>2
  <2> QED BY <1>4, <1>8, <2>1, <2>2
<1> QED BY <1>4, <1>6, <1>7, <1>8, <1>9, NewListIsOwed

\* A step that neither asks for a list nor ends one.
LEMMA ListsAsTheyWere ==
  ASSUME TypeOK, TimelyListIsOwed, UNCHANGED <<policies, acked, lapsed>>,
         past' = past \/ \E set : past' = Append(past, set),
         \A q \in PolicyLists' : \E o \in PolicyLists :
            /\ q.n = o.n /\ q.late = o.late
            /\ (q.served = o.served /\ q.answer = o.answer) \/ q.answer >= acked,
         \A o \in PolicyLists : \E q \in PolicyLists' : q.n = o.n /\ q.late = o.late
  PROVE  TimelyListIsOwed'
<1>1. ASSUME NEW s \in PolicyLists, Owed(s)
      PROVE  \E q \in PolicyLists' : Owed(q)'
  <2>1. PICK q \in PolicyLists' : q.n = s.n /\ q.late = s.late
    OBVIOUS
  <2>2. ~q.late
    BY <1>1, <2>1 DEF Owed
  <2>3. ASSUME NEW u \in PolicyLists', u.n >= q.n
        PROVE  ~u.served \/ u.answer = 0 \/ u.answer >= acked'
    <3>1. PICK w \in PolicyLists :
            /\ u.n = w.n
            /\ (u.served = w.served /\ u.answer = w.answer) \/ u.answer >= acked
      OBVIOUS
    <3>2. ~w.served \/ w.answer = 0 \/ w.answer >= acked
      BY <1>1, <2>1, <2>3, <3>1 DEF Owed
    <3> QED BY <3>1, <3>2
  <2> QED BY <2>2, <2>3 DEF Owed
<1>2. (\E q \in PolicyLists' : ~q.late) => \E q \in PolicyLists' : Owed(q)'
  BY <1>1 DEF TimelyListIsOwed
<1>3. lapsed' \/ Fresh' \/ \E q \in PolicyLists' : Owed(q)'
  BY <1>1, StaysFresh DEF TimelyListIsOwed
<1> QED BY <1>2, <1>3 DEF TimelyListIsOwed

\* The buttons, and a write that fails.
LEMMA OtherPolicySteps ==
  ASSUME TypeOK, Grows, TimelyListIsOwed,
         \/ ToggleForm \/ TypeName \/ SubmitCreate \/ (\E p \in PolicyIds : ClickDelete(p))
         \/ \E r \in InFlight(PolicyWrites) : WriteFails(r)
  PROVE  TimelyListIsOwed'
<1>1. UNCHANGED <<policies, acked, lapsed, past>>
  BY DEF ToggleForm, TypeName, SubmitCreate, ClickDelete, WriteFails, policyVars,
     policyServer, policyPage, policyView
<1>2. ASSUME PolicyLists' = PolicyLists
      PROVE  TimelyListIsOwed'
  BY <1>1, <1>2, ListsAsTheyWere
<1>3. CASE UNCHANGED waiting
  BY <1>2, <1>3 DEF PolicyLists, InFlight
<1>4. ASSUME NEW kind \in PolicyWrites, NEW arg, Ask(kind, arg)
      PROVE  TimelyListIsOwed'
  <2>1. PICK p : waiting' = waiting \cup {p} /\ p.kind = kind
    BY <1>4, AskIs
  <2>2. p.kind # "listPolicies"
    BY <2>1 DEF PolicyWrites
  <2> QED BY <1>2, <2>1, <2>2 DEF PolicyLists, InFlight
<1>5. ASSUME NEW r \in InFlight(PolicyWrites), WriteFails(r)
      PROVE  TimelyListIsOwed'
  <2>1. waiting' = Without(r) /\ r \in waiting /\ r.kind # "listPolicies"
    BY <1>5 DEF WriteFails, Over, InFlight, PolicyWrites
  <2>2. ASSUME NEW o \in waiting, o.kind = "listPolicies", NEW q, Later(q, o, r)
        PROVE  q.late = o.late
    <3>1. q.late = (o.late \/ (o.kind = r.kind /\ o.n < r.n))
      BY <2>2 DEF Later
    <3>2. ~(o.kind = r.kind /\ o.n < r.n) /\ o.late \in BOOLEAN
      BY <2>1, <2>2, InFlightOK DEF RequestOK
    <3> QED BY <3>1, <3>2
  <2>3. ASSUME NEW q \in PolicyLists'
        PROVE  \E o \in PolicyLists :
                 q.n = o.n /\ q.late = o.late /\ q.served = o.served /\ q.answer = o.answer
    <3>1. PICK o \in waiting : Later(q, o, r)
      BY <2>1, WithoutOK DEF PolicyLists, InFlight
    <3>2. o \in PolicyLists
      BY <3>1 DEF PolicyLists, InFlight, Later
    <3>3. q.late = o.late
      BY <2>2, <3>1, <3>2, ListsInFlight
    <3> QED BY <3>1, <3>2, <3>3 DEF Later
  <2>4. ASSUME NEW o \in PolicyLists
        PROVE  \E q \in PolicyLists' : q.n = o.n /\ q.late = o.late
    <3>1. o \in waiting \ {r} /\ o.kind = "listPolicies"
      BY <2>1, ListsInFlight
    <3>2. PICK q \in Without(r) : Later(q, o, r)
      BY <2>1, <3>1, WithoutOK
    <3>3. q.late = o.late
      BY <2>2, <3>1, <3>2
    <3>4. q \in PolicyLists'
      BY <2>1, <3>2, ListsInFlight DEF PolicyLists, InFlight, Later
    <3> QED BY <3>2, <3>3, <3>4 DEF Later
  <2> QED BY <1>1, <2>3, <2>4, ListsAsTheyWere
<1> QED BY <1>3, <1>4, <1>5 DEF ToggleForm, TypeName, SubmitCreate, ClickDelete, PolicyWrites

\* The backend: a list it answers holds every write it has acknowledged.
LEMMA ServerOwes ==
  ASSUME TypeOK, TimelyListIsOwed, ServerStep \/ BadgeStep
  PROVE  TimelyListIsOwed'
<1>1. UNCHANGED <<policies, acked, lapsed>>
  BY DEF ServerStep, BadgeStep, PolicyRequestServed, ServeList, ServeCreate, ServeDelete,
     Elsewhere, policyVars, policyPage, policyView
<1>2. past' = past \/ \E set : past' = Append(past, set)
  BY DEF ServerStep, BadgeStep, PolicyRequestServed, ServeList, ServeCreate, ServeDelete,
     Elsewhere, PolicyPut, policyVars, policyServer
<1>3. CASE UNCHANGED waiting
  <2>1. PolicyLists' = PolicyLists
    BY <1>3 DEF PolicyLists, InFlight
  <2> QED BY <1>1, <1>2, <2>1, ListsAsTheyWere
<1>4. ASSUME NEW r \in waiting, NEW a, Handle(r, a), r.kind = "listPolicies" => a = Len(past)
      PROVE  TimelyListIsOwed'
  <2>1. Len(past) >= acked
    BY Counters DEF TypeOK, PoliciesTypeOK
  <2>2. ASSUME NEW q \in PolicyLists'
        PROVE  \E o \in PolicyLists :
                 /\ q.n = o.n /\ q.late = o.late
                 /\ (q.served = o.served /\ q.answer = o.answer) \/ q.answer >= acked
    <3>1. q \in waiting' /\ q.kind = "listPolicies" /\ ~q.orphan
      BY DEF PolicyLists, InFlight
    <3>2. CASE q \in waiting \ {r}
      BY <3>1, <3>2 DEF PolicyLists, InFlight
    <3>3. CASE q.n = r.n /\ q.kind = r.kind /\ q.answer = a /\ q.late = r.late /\ ~r.orphan
      <4>1. r \in PolicyLists
        BY <3>1, <3>3 DEF PolicyLists, InFlight
      <4>2. q.answer >= acked
        BY <1>4, <2>1, <3>1, <3>3
      <4> QED BY <3>3, <4>1, <4>2
    <3> QED BY <1>4, <3>1, <3>2, <3>3, HandleIs
  <2>3. ASSUME NEW o \in PolicyLists
        PROVE  \E q \in PolicyLists' : q.n = o.n /\ q.late = o.late
    <3>1. CASE o # r
      BY <1>4, <3>1, HandleIs DEF PolicyLists, InFlight
    <3>2. CASE o = r
      <4>1. PICK q \in waiting' :
              q.n = r.n /\ q.kind = r.kind /\ q.late = r.late /\ ~q.orphan
        BY <1>4, <3>2, HandleIs, ListsInFlight
      <4> QED BY <3>2, <4>1 DEF PolicyLists, InFlight
    <3> QED BY <3>1, <3>2
  <2> QED BY <1>1, <1>2, <2>2, <2>3, ListsAsTheyWere
<1>5. UNCHANGED waiting \/ \E r \in waiting : \E a :
        Handle(r, a) /\ (r.kind = "listPolicies" => a = Len(past))
  <2>1. ASSUME NEW r \in waiting, ServeList(r)
        PROVE  Handle(r, Len(past))
    BY <2>1 DEF ServeList
  <2>2. ASSUME NEW r \in waiting, ServeCreate(r) \/ ServeDelete(r)
        PROVE  (\E a : Handle(r, a)) /\ r.kind # "listPolicies"
    BY <2>2 DEF ServeCreate, ServeDelete
  <2>3. ASSUME NEW r \in waiting, CheckAccess(r) \/ ServeAudit(r) \/ ServeTest(r) \/ ServeUsers(r)
        PROVE  (\E a : Handle(r, a)) /\ r.kind # "listPolicies"
    BY <2>3 DEF CheckAccess, ServeAudit, ServeTest, ServeUsers
  <2>4. CASE Elsewhere \/ Register \/ RestartInMemory \/ BadgeStep
    BY <2>4 DEF Elsewhere, Register, RestartInMemory, MembersBecome, BadgeStep, requests
  <2> QED BY <2>1, <2>2, <2>3, <2>4
          DEF ServerStep, PolicyRequestServed, ChecksServerStep, DirectoryServerStep,
              DashboardServerStep
<1> QED BY <1>3, <1>4, <1>5

\* The page as it is opened: its one list is owed.
LEMMA PoliciesOpened ==
  ASSUME TypeOK, NEW page \in Pages, Navigate(page)
  PROVE  PoliciesInv'
<1>1. open' = page
  BY DEF Navigate
<1>2. CASE page = "policies"
  <2>1. PICK n : n = sent + 1
    OBVIOUS
  <2>2. n \in Nat
    BY <2>1, InFlightOK
  <2>3. PICK p : p = NewRequest(n, "listPolicies", << >>)
    OBVIOUS
  <2>4. Opening(page, n) = {p}
    BY <1>2, <2>3 DEF Opening
  <2>5. p \in waiting'
    BY <2>1, <2>4 DEF Navigate
  <2>6. p.n = n /\ p.kind = "listPolicies"
    BY <2>3, NewFields
  <2>7. p.served = FALSE /\ p.late = FALSE /\ p.orphan = FALSE
    BY <2>3, NewMarks
  <2>8. ~p.served /\ ~p.late /\ ~p.orphan
    BY <2>7
  <2>9. \A q \in PolicyLists' : q = p
    BY <2>1, <2>4, NavigateFlights DEF PolicyLists, InFlight
  <2>10. p \in PolicyLists'
    BY <2>5, <2>6, <2>8 DEF PolicyLists, InFlight
  <2>11. TimelyListIsOwed'
    BY <2>2, <2>6, <2>8, <2>9, <2>10, NewListIsOwed
  <2> QED BY <2>11 DEF PoliciesInv
<1> QED BY <1>1, <1>2 DEF PoliciesInv

\* Every step keeps PoliciesInv.
LEMMA NextPolicies ==
  ASSUME TypeOK, PoliciesInv, Grows, Next
  PROVE  PoliciesInv'
<1>1. CASE \E p \in Pages : Navigate(p)
  BY <1>1, PoliciesOpened
<1>2. CASE open' = open /\ open # "policies"
  BY <1>2 DEF PoliciesInv
<1>3. CASE open = "policies" /\ PageStep
  <2>1. InPolicies(PoliciesPageStep) /\ open' = "policies" /\ TimelyListIsOwed
    BY <1>3 DEF PageStep, InPolicies, InChecks, InUsers, InDashboard, PoliciesInv
  <2>2. CASE ListSettles
    BY <2>1, <2>2, ListSettled DEF ListSettles, PoliciesInv
  <2>3. CASE \E r \in InFlight(PolicyWrites) : WriteDone(r)
    BY <2>3, WriteOwes DEF PoliciesInv
  <2>4. CASE \/ ToggleForm \/ TypeName \/ SubmitCreate \/ (\E p \in PolicyIds : ClickDelete(p))
             \/ \E r \in InFlight(PolicyWrites) : WriteFails(r)
    BY <2>1, <2>4, OtherPolicySteps DEF PoliciesInv
  <2> QED BY <2>1, <2>2, <2>3, <2>4 DEF InPolicies, PoliciesPageStep
<1>4. CASE open = "policies" /\ (ServerStep \/ BadgeStep)
  BY <1>4, ServerOwes, ServerFlights DEF PoliciesInv
<1>5. PageStep => open' = open
  BY DEF PageStep, InPolicies, InChecks, InUsers, InDashboard
<1> QED BY <1>1, <1>2, <1>3, <1>4, <1>5, ServerFlights DEF Next

\* It holds at first.
LEMMA InitPolicies ==
  ASSUME Init
  PROVE  PoliciesInv
<1>1. ASSUME open = "policies"
      PROVE  TimelyListIsOwed
  <2>1. PICK n : n = 1
    OBVIOUS
  <2>2. PICK p : p = NewRequest(n, "listPolicies", << >>)
    OBVIOUS
  <2>3. waiting = {p}
    BY <1>1, <2>1, <2>2 DEF Init, Opening
  <2>4. p.n = n /\ p.kind = "listPolicies"
    BY <2>2, NewFields
  <2>5. p.served = FALSE /\ p.late = FALSE /\ p.orphan = FALSE
    BY <2>2, NewMarks
  <2>6. ~p.served /\ ~p.late /\ ~p.orphan
    BY <2>5
  <2>7. PolicyLists = {p}
    BY <2>3, <2>4, <2>6 DEF PolicyLists, InFlight
  <2>8. Owed(p)
    BY <2>6, <2>7 DEF Owed
  <2> QED BY <2>7, <2>8 DEF TimelyListIsOwed
<1> QED BY <1>1 DEF PoliciesInv

\* Console.tla, ReadYourWrites: lists overlap and come in any order, others write
\* too, the page is left and opened again.  Once no list is in flight, and unless
\* the last one failed or was overtaken, the table holds every write of the
\* administrator's own that was acknowledged.
THEOREM OwnWritesAreRead == Spec => []ReadYourWrites
<1>1. Init => TypeOK /\ PoliciesInv
  BY InitTypes, InitPolicies
<1>2. TypeOK /\ PoliciesInv /\ [Next]_vars => (TypeOK /\ PoliciesInv)'
  <2>1. ASSUME TypeOK, PoliciesInv, UNCHANGED vars
        PROVE  PoliciesInv'
    <3>1. UNCHANGED <<waiting, open, policies, acked, lapsed, past>>
      BY <2>1 DEF vars, requests, policyVars, policyServer, policyPage, policyView
    <3>2. PolicyLists' = PolicyLists
      BY <3>1 DEF PolicyLists, InFlight
    <3> QED BY <2>1, <3>1, <3>2, ListsAsTheyWere DEF PoliciesInv
  <2> QED BY <2>1, NextTypes, StutterTypes, NextPolicies
<1>3. PoliciesInv => ReadYourWrites
  BY PoliciesInvShows
<1> QED BY <1>1, <1>2, <1>3, PTL DEF Spec

-----------------------------------------------------------------------------
(* The numbers and the prover of the dashboard.                            *)

Route(kind) == IF kind = "listAuditLogs" THEN "GET /audit" ELSE "GET /users"

\* What a request for the events that is over has left.
AuditHeard ==
  /\ auditEvents > 0 => "listAuditLogs" \notin unheard
  /\ role \notin Served("GET /audit") => "listAuditLogs" \in unheard

\* The number of users is that of some moment.
Counted == \E v \in 1 .. Len(members) : totalUsers = Shown(members[v])

\* One number is asked for at a time, the events first.
FeedInv ==
  open = "dashboard" =>
    /\ auditEvents > 0 => role \in Served("GET /audit")
    /\ totalUsers # DefaultUsers => role \in Served("GET /users")
    /\ \A q, s \in Feeds : q = s
    /\ \A q \in Feeds : q.answer # 0 => role \in Served(Route(q.kind))
    /\ \A q \in Feeds :
         IF q.kind = "listAuditLogs"
           THEN auditEvents = 0 /\ unheard = {}
           ELSE AuditHeard /\ "listUsers" \notin unheard
    /\ Feeds = {} =>
         /\ AuditHeard
         /\ role \notin Served("GET /users") => "listUsers" \in unheard
         /\ "listUsers" \notin unheard => Counted

\* One endpoint at a time, and a verdict only when none is tried.
ProverInv ==
  open = "dashboard" =>
    /\ \A q, s \in Tests : q = s
    /\ ~isTesting => Tests = {}
    /\ isTesting => testResult = NoTest
    /\ \A q \in Tests : q.arg = <<clicked>> /\ (q.served => (q.answer # 0 <=> role \in Served(clicked)))
    /\ ProverTellsTheTruth

\* The two invariants of the dashboard say what it shows.
LEMMA DashboardInvShows ==
  ASSUME TypeOK, FeedInv, ProverInv
  PROVE  DashboardHonest
<1>1. ASSUME open = "dashboard"
      PROVE  auditEvents > 0 => "listAuditLogs" \notin unheard
  <2>1. CASE Feeds = {}
    BY <1>1, <2>1 DEF FeedInv, AuditHeard
  <2>2. ASSUME NEW q \in Feeds
        PROVE  auditEvents > 0 => "listAuditLogs" \notin unheard
    BY <1>1 DEF FeedInv, AuditHeard
  <2> QED BY <2>1, <2>2
<1>2. ASSUME open = "dashboard"
      PROVE  DashboardTellsWhatItMay
  BY <1>1, <1>2 DEF FeedInv, DashboardTellsWhatItMay, AuditHeard, Counted
<1> QED BY <1>2 DEF ProverInv, DashboardHonest

\* A step that neither asks for a number nor ends such a request.
LEMMA FeedsAsTheyWere ==
  ASSUME TypeOK, RequestsTypeOK', Grows, FeedInv, UNCHANGED <<numbers, role, open>>,
         \A q \in Feeds' : \E o \in Feeds :
           /\ q.n = o.n /\ q.kind = o.kind
           /\ q.answer = o.answer \/ (q.answer # 0 => role \in Served(Route(q.kind))),
         Feeds' = {} => Feeds = {}
  PROVE  FeedInv'
<1>1. UNCHANGED <<auditEvents, totalUsers, unheard>>
  BY DEF numbers
<1>2. \A q, s \in Feeds' : q.n = s.n => q = s
  BY DEF RequestsTypeOK, Feeds, InFlight
<1>3. ASSUME open = "dashboard"
      PROVE  \A q, s \in Feeds' : q = s
  <2>1. \A o, u \in Feeds : o = u
    BY <1>3 DEF FeedInv
  <2>2. \A q \in Feeds' : \E o \in Feeds : q.n = o.n
    OBVIOUS
  <2> QED BY <1>2, <2>1, <2>2
<1>4. ASSUME open = "dashboard", NEW q \in Feeds'
      PROVE  /\ q.answer # 0 => role \in Served(Route(q.kind))
             /\ IF q.kind = "listAuditLogs"
                  THEN auditEvents = 0 /\ unheard = {}
                  ELSE AuditHeard /\ "listUsers" \notin unheard
  BY <1>4 DEF FeedInv
<1>5. ASSUME Counted
      PROVE  Counted'
  <2>1. PICK v \in 1 .. Len(members) : totalUsers = Shown(members[v])
    BY <1>5 DEF Counted
  <2>2. v \in 1 .. Len(members') /\ members'[v] = members[v]
    BY Counters DEF Grows
  <2>3. totalUsers' = Shown(members'[v])
    BY <1>1, <2>1, <2>2
  <2> QED BY <2>2, <2>3 DEF Counted
<1>6. AuditHeard' <=> AuditHeard
  BY <1>1 DEF AuditHeard
<1> QED BY <1>1, <1>3, <1>4, <1>5, <1>6 DEF FeedInv

\* The same of the endpoint that is tried.
LEMMA TestsAsTheyWere ==
  ASSUME TypeOK, RequestsTypeOK', ProverInv, UNCHANGED <<prover, role, open>>,
         \A q \in Tests' : \E o \in Tests :
           /\ q.n = o.n /\ q.arg = o.arg
           /\ \/ q.served = o.served /\ q.answer = o.answer
              \/ q.answer # 0 <=> role \in Served(o.arg[1])
  PROVE  ProverInv'
<1>1. UNCHANGED <<testResult, isTesting, lost, clicked>>
  BY DEF prover
<1>2. \A q, s \in Tests' : q.n = s.n => q = s
  BY DEF RequestsTypeOK, Tests, InFlight
<1>3. ASSUME open = "dashboard"
      PROVE  (\A q, s \in Tests' : q = s) /\ (~isTesting => Tests' = {})
  BY <1>2, <1>3 DEF ProverInv
<1>4. ASSUME open = "dashboard", NEW q \in Tests'
      PROVE  q.arg = <<clicked>> /\ (q.served => (q.answer # 0 <=> role \in Served(clicked)))
  <2>1. PICK o \in Tests :
          /\ q.n = o.n /\ q.arg = o.arg
          /\ \/ q.served = o.served /\ q.answer = o.answer
             \/ q.answer # 0 <=> role \in Served(o.arg[1])
    OBVIOUS
  <2>2. o.arg = <<clicked>> /\ (o.served => (o.answer # 0 <=> role \in Served(clicked)))
    BY <1>4 DEF ProverInv
  <2>3. o.arg[1] = clicked
    BY <2>2
  <2> QED BY <2>1, <2>2, <2>3
<1>5. ProverTellsTheTruth' <=> ProverTellsTheTruth
  BY <1>1 DEF ProverTellsTheTruth
<1> QED BY <1>1, <1>3, <1>4, <1>5 DEF ProverInv

\* What is left of the others when a request of the dashboard is over.
LEMMA OthersLeft ==
  ASSUME TypeOK, Grows, NEW r \in waiting
  PROVE  /\ \A q \in Without(r) : \E o \in waiting \ {r} : Heir(q, o)
         /\ r.kind = "test" => \A o \in Feeds : \E q \in Without(r) :
              q.n = o.n /\ q.kind = o.kind /\ ~q.orphan
<1>1. \A q \in Without(r) : \E o \in waiting \ {r} : Later(q, o, r)
  BY WithoutOK
<1>2. \A q \in Without(r) : \E o \in waiting \ {r} : Heir(q, o)
  BY <1>1 DEF Later, Heir
<1>3. ASSUME r.kind = "test", NEW o \in Feeds
      PROVE  \E q \in Without(r) : q.n = o.n /\ q.kind = o.kind /\ ~q.orphan
  <2>1. o \in waiting \ {r} /\ ~o.orphan
    BY <1>3 DEF Feeds, InFlight
  <2> QED BY <2>1, WithoutOK DEF Later
<1> QED BY <1>2, <1>3

\* The events come, or fail, and the users are asked for.
LEMMA AuditFeedSettled ==
  ASSUME TypeOK, Grows, FeedInv, open = "dashboard", UNCHANGED <<role, open>>,
         NEW r \in Feeds, r.kind = "listAuditLogs", FeedArrives(r) \/ FeedFails(r)
  PROVE  FeedInv'
<1>1. FeedContinues(r) /\ UNCHANGED totalUsers /\ r \in waiting
  BY DEF FeedArrives, FeedFails, Feeds, InFlight
<1>2. PICK n : n = sent + 1
  OBVIOUS
<1>3. PICK p : p = NewRequest(n, "listUsers", << >>)
  OBVIOUS
<1>4. waiting' = Without(r) \cup {p}
  BY <1>1, <1>2, <1>3 DEF FeedContinues, Asked
<1>5. p.kind = "listUsers" /\ p.answer = 0
  BY <1>3, NewFields
<1>6. p.orphan = FALSE
  BY <1>3, NewMarks
<1>7. \A o \in Feeds : o = r
  BY DEF FeedInv
<1>8. \A q \in Feeds' : q = p
  BY <1>1, <1>4, <1>7, OthersLeft DEF Feeds, InFlight, Heir
<1>9. p \in Feeds'
  BY <1>4, <1>5, <1>6 DEF Feeds, InFlight
<1>10. auditEvents = 0 /\ unheard = {}
  BY DEF FeedInv
<1>11. r.answer \in Nat /\ (r.answer # 0 => role \in Served("GET /audit"))
  BY <1>1, InFlightOK DEF FeedInv, RequestOK, Route
<1>12. CASE FeedArrives(r)
  <2>1. r.answer # 0 /\ unheard' = {}
    BY <1>10, <1>12 DEF FeedArrives, Answered
  <2>2. AuditHeard'
    BY <1>11, <2>1 DEF AuditHeard
  <2> QED BY <1>1, <1>5, <1>8, <1>9, <1>11, <2>1, <2>2 DEF FeedInv
<1>13. CASE FeedFails(r)
  <2>1. auditEvents' = 0 /\ unheard' = {"listAuditLogs"}
    BY <1>10, <1>13 DEF FeedFails
  <2>2. AuditHeard'
    BY <2>1 DEF AuditHeard
  <2> QED BY <1>1, <1>5, <1>8, <1>9, <2>1, <2>2 DEF FeedInv
<1> QED BY <1>12, <1>13

\* The users come, or fail.
LEMMA UserFeedSettled ==
  ASSUME TypeOK, Grows, FeedInv, open = "dashboard", UNCHANGED <<role, open, members>>,
         NEW r \in Feeds, r.kind = "listUsers", FeedArrives(r) \/ FeedFails(r)
  PROVE  FeedInv'
<1>1. waiting' = Without(r) /\ UNCHANGED auditEvents /\ r \in waiting
  BY DEF FeedArrives, FeedFails, FeedContinues, Over, Feeds, InFlight
<1>2. \A o \in Feeds : o = r
  BY DEF FeedInv
<1>3. Feeds' = {}
  BY <1>1, <1>2, OthersLeft DEF Feeds, InFlight, Heir
<1>4. AuditHeard /\ "listUsers" \notin unheard
  BY DEF FeedInv
<1>5. /\ r.answer \in Nat /\ r.answer <= Len(members)
      /\ r.answer # 0 => role \in Served("GET /users")
  BY <1>1, InFlightOK DEF FeedInv, RequestOK, AnswerOK, Route
<1>6. CASE FeedArrives(r)
  <2>1. r.answer # 0 /\ unheard' = unheard
    BY <1>6 DEF FeedArrives, Answered
  <2>2. totalUsers' = Shown(members[r.answer])
    BY <1>6 DEF FeedArrives
  <2>3. r.answer \in 1 .. Len(members)
    <3>1. PICK a : a = r.answer
      OBVIOUS
    <3>2. a \in Nat /\ a <= Len(members) /\ a # 0
      BY <1>5, <2>1, <3>1
    <3>3. Len(members) \in Nat
      BY Counters
    <3>4. a \in 1 .. Len(members)
      BY <3>2, <3>3
    <3> QED BY <3>1, <3>4
  <2>4. Counted'
    BY <2>2, <2>3 DEF Counted
  <2>5. AuditHeard'
    BY <1>1, <1>4, <2>1 DEF AuditHeard
  <2>6. role \in Served("GET /users")
    BY <1>5, <2>1
  <2> QED BY <1>1, <1>3, <2>4, <2>5, <2>6 DEF FeedInv
<1>7. CASE FeedFails(r)
  <2>1. totalUsers' = totalUsers /\ unheard' = unheard \cup {"listUsers"}
    BY <1>7 DEF FeedFails
  <2>2. AuditHeard'
    BY <1>1, <1>4, <2>1 DEF AuditHeard
  <2> QED BY <1>1, <1>3, <2>1, <2>2 DEF FeedInv
<1> QED BY <1>6, <1>7

\* A number comes or fails: the endpoint that is tried stays.
LEMMA FeedsLeaveTests ==
  ASSUME TypeOK, RequestsTypeOK', Grows, ProverInv, UNCHANGED <<role, open>>,
         NEW r \in Feeds, FeedArrives(r) \/ FeedFails(r)
  PROVE  ProverInv'
<1>1. FeedContinues(r) /\ UNCHANGED prover /\ r \in waiting
  BY DEF FeedArrives, FeedFails, Feeds, InFlight
<1>2. PICK n : n = sent + 1
  OBVIOUS
<1>3. PICK p : p = NewRequest(n, "listUsers", << >>)
  OBVIOUS
<1>4. waiting' \subseteq Without(r) \cup {p}
  BY <1>1, <1>2, <1>3 DEF FeedContinues, Asked, Over
<1>5. p.kind = "listUsers"
  BY <1>3, NewFields
<1>6. ASSUME NEW q \in Tests'
      PROVE  \E o \in Tests : q.n = o.n /\ q.arg = o.arg /\ q.served = o.served /\ q.answer = o.answer
  <2>1. q \in Without(r)
    BY <1>4, <1>5 DEF Tests, InFlight
  <2>2. PICK o \in waiting : Heir(q, o)
    BY <1>1, <2>1, OthersLeft
  <2>3. o \in Tests
    BY <2>2 DEF Heir, Tests, InFlight
  <2> QED BY <2>2, <2>3 DEF Heir
<1> QED BY <1>1, <1>6, TestsAsTheyWere

\* The verdict comes, or none.
LEMMA TestSettled ==
  ASSUME TypeOK, RequestsTypeOK', Grows, FeedInv, ProverInv, open = "dashboard",
         UNCHANGED <<role, open>>, NEW r \in Tests, TestAnswered(r) \/ TestFails(r)
  PROVE  FeedInv' /\ ProverInv'
<1>1. /\ waiting' = Without(r) /\ UNCHANGED <<numbers, clicked>> /\ isTesting' = FALSE
      /\ r \in waiting /\ r.kind = "test"
  BY DEF TestAnswered, TestFails, Over, Tests, InFlight
<1>2. FeedInv'
  <2>1. ASSUME NEW q \in Feeds'
        PROVE  \E o \in Feeds : q.n = o.n /\ q.kind = o.kind /\ q.answer = o.answer
    <3>1. PICK o \in waiting : Heir(q, o)
      BY <1>1, OthersLeft DEF Feeds, InFlight
    <3>2. o \in Feeds
      BY <3>1 DEF Heir, Feeds, InFlight
    <3> QED BY <3>1, <3>2 DEF Heir
  <2>2. ASSUME NEW o \in Feeds
        PROVE  Feeds' # {}
    <3>1. PICK q \in Without(r) : q.kind = o.kind /\ ~q.orphan
      BY <1>1, OthersLeft
    <3> QED BY <1>1, <3>1 DEF Feeds, InFlight
  <2> QED BY <1>1, <2>1, <2>2, FeedsAsTheyWere
<1>3. Tests' = {}
  <2>1. \A o \in Tests : o = r
    BY DEF ProverInv
  <2> QED BY <1>1, <2>1, OthersLeft DEF Tests, InFlight, Heir
<1>4. r.arg[1] = clicked /\ (r.served => (r.answer # 0 <=> role \in Served(clicked)))
  BY DEF ProverInv
<1>5. ProverTellsTheTruth'
  <2>1. PICK v \in BOOLEAN : /\ testResult' = [endpoint |-> r.arg[1], success |-> v]
                             /\ v => Answered(r)
                             /\ ~v => lost' = ~(r.served /\ r.answer = 0)
    BY DEF TestAnswered, TestFails
  <2>2. testResult'.endpoint = clicked /\ (testResult'.success <=> v)
    BY <1>4, <2>1
  <2>3. v => role \in Served(clicked)
    BY <1>4, <2>1 DEF Answered
  <2>4. ~v => lost' \/ role \notin Served(clicked)
    BY <1>4, <2>1
  <2> QED BY <1>1, <2>2, <2>3, <2>4 DEF ProverTellsTheTruth
<1> QED BY <1>1, <1>2, <1>3, <1>5 DEF ProverInv

\* An endpoint is tried.
LEMMA TestClicked ==
  ASSUME TypeOK, RequestsTypeOK', Grows, FeedInv, ProverInv, open = "dashboard",
         UNCHANGED <<role, open>>, NEW e \in Endpoints, ClickTest(e)
  PROVE  FeedInv' /\ ProverInv'
<1>1. PICK p : /\ waiting' = waiting \cup {p}
               /\ p.kind = "test" /\ p.arg = <<e>> /\ ~p.served
  BY AskIs DEF ClickTest
<1>2. isTesting' = TRUE /\ testResult' = NoTest /\ clicked' = e /\ UNCHANGED numbers /\ ~isTesting
  BY DEF ClickTest
<1>3. Feeds' = Feeds
  BY <1>1 DEF Feeds, InFlight
<1>4. FeedInv'
  BY <1>2, <1>3, FeedsAsTheyWere
<1>5. Tests = {}
  BY <1>2 DEF ProverInv
<1>6. Tests' \subseteq {p}
  BY <1>1, <1>5 DEF Tests, InFlight
<1>7. ProverTellsTheTruth'
  BY <1>2 DEF ProverTellsTheTruth
<1> QED BY <1>1, <1>2, <1>4, <1>6, <1>7 DEF ProverInv

\* The backend answers somebody, as the routes' guards have it.
LEMMA DashboardServed ==
  ASSUME TypeOK, RequestsTypeOK', Grows, FeedInv, ProverInv, UNCHANGED <<dashVars, role, open>>,
         NEW r \in waiting, NEW a, Handle(r, a),
         r.kind \in {"listAuditLogs", "listUsers"} => (a # 0 => role \in Served(Route(r.kind))),
         r.kind = "test" => (a # 0 <=> role \in Served(r.arg[1]))
  PROVE  FeedInv' /\ ProverInv'
<1>1. UNCHANGED <<numbers, prover>>
  BY DEF dashVars
<1>2. ASSUME NEW q \in waiting', ~q.orphan
      PROVE  q \in waiting \/ (~r.orphan /\ q.n = r.n /\ q.kind = r.kind /\ q.arg = r.arg /\ q.answer = a)
  BY HandleIs
<1>3. ASSUME NEW q \in Feeds'
      PROVE  \E o \in Feeds :
               /\ q.n = o.n /\ q.kind = o.kind
               /\ q.answer = o.answer \/ (q.answer # 0 => role \in Served(Route(q.kind)))
  <2>1. q \in waiting' /\ q.kind \in {"listAuditLogs", "listUsers"} /\ ~q.orphan
    BY DEF Feeds, InFlight
  <2>2. CASE q \in waiting
    BY <2>1, <2>2 DEF Feeds, InFlight
  <2>3. CASE ~r.orphan /\ q.n = r.n /\ q.kind = r.kind /\ q.arg = r.arg /\ q.answer = a
    BY <2>1, <2>3 DEF Feeds, InFlight
  <2> QED BY <1>2, <2>1, <2>2, <2>3
<1>4. ASSUME NEW o \in Feeds
      PROVE  Feeds' # {}
  <2>1. CASE o # r
    BY <2>1, HandleIs DEF Feeds, InFlight
  <2>2. CASE o = r
    <3>1. PICK q \in waiting' : q.kind = r.kind /\ ~q.orphan
      BY <2>2, HandleIs DEF Feeds, InFlight
    <3> QED BY <2>2, <3>1 DEF Feeds, InFlight
  <2> QED BY <2>1, <2>2
<1>5. ASSUME NEW q \in Tests'
      PROVE  \E o \in Tests :
               /\ q.n = o.n /\ q.arg = o.arg
               /\ \/ q.served = o.served /\ q.answer = o.answer
                  \/ q.answer # 0 <=> role \in Served(o.arg[1])
  <2>1. q \in waiting' /\ q.kind = "test" /\ ~q.orphan
    BY DEF Tests, InFlight
  <2>2. CASE q \in waiting
    BY <2>1, <2>2 DEF Tests, InFlight
  <2>3. CASE ~r.orphan /\ q.n = r.n /\ q.kind = r.kind /\ q.arg = r.arg /\ q.answer = a
    BY <2>1, <2>3 DEF Tests, InFlight
  <2> QED BY <1>2, <2>1, <2>2, <2>3
<1>6. FeedInv'
  BY <1>1, <1>3, <1>4, FeedsAsTheyWere
<1>7. ProverInv'
  BY <1>1, <1>5, TestsAsTheyWere
<1> QED BY <1>6, <1>7

\* With the first request on the way nothing has been heard.
LEMMA FirstFeed ==
  ASSUME NEW p, Feeds' = {p}, p.kind = "listAuditLogs", p.answer = 0,
         auditEvents' = 0, totalUsers' = DefaultUsers, unheard' = {}
  PROVE  FeedInv'
<1>1. \A q \in Feeds' : q = p
  OBVIOUS
<1>2. Feeds' # {} /\ ~(auditEvents' > 0)
  OBVIOUS
<1> QED BY <1>1, <1>2 DEF FeedInv

\* The dashboard as it is opened.
LEMMA NavigateDashboard ==
  ASSUME TypeOK, NEW page \in Pages, Navigate(page)
  PROVE  FeedInv' /\ ProverInv'
<1>1. open' = page
  BY DEF Navigate
<1>2. CASE page = "dashboard"
  <2>1. PICK n : n = sent + 1
    OBVIOUS
  <2>2. PICK p : p = NewRequest(n, "listAuditLogs", << >>)
    OBVIOUS
  <2>3. Opening(page, n) = {p}
    BY <1>2, <2>2 DEF Opening
  <2>4. p \in waiting'
    BY <2>1, <2>3 DEF Navigate
  <2>5. p.kind = "listAuditLogs" /\ p.answer = 0
    BY <2>2, NewFields
  <2>6. p.orphan = FALSE
    BY <2>2, NewMarks
  <2>7. \A q \in waiting' : ~q.orphan => q = p
    BY <2>1, <2>3, NavigateFlights
  <2>8. Feeds' = {p} /\ Tests' = {}
    <3>1. p \in Feeds'
      BY <2>4, <2>5, <2>6 DEF Feeds, InFlight
    <3>2. Tests' = {} /\ \A q \in Feeds' : q = p
      BY <2>5, <2>7 DEF Feeds, Tests, InFlight
    <3> QED BY <3>1, <3>2
  <2>9. auditEvents' = 0 /\ totalUsers' = DefaultUsers /\ unheard' = {} /\ testResult' = NoTest
    BY DEF Navigate, Remount, DashboardMount
  <2>10. isTesting' = FALSE
    BY DEF Navigate, Remount, DashboardMount
  <2>11. FeedInv'
    BY <2>5, <2>8, <2>9, FirstFeed
  <2>12. ProverInv'
    BY <2>8, <2>9, <2>10 DEF ProverInv, ProverTellsTheTruth
  <2> QED BY <2>11, <2>12
<1> QED BY <1>1, <1>2 DEF FeedInv, ProverInv

\* Every step keeps both.
LEMMA NextDashboard ==
  ASSUME TypeOK, RequestsTypeOK', FeedInv, ProverInv, Grows, Next
  PROVE  FeedInv' /\ ProverInv'
<1>1. CASE \E p \in Pages : Navigate(p)
  BY <1>1, NavigateDashboard
<1>2. CASE open' = open /\ open # "dashboard"
  BY <1>2 DEF FeedInv, ProverInv
<1>3. role' = role
  BY RoleStays
<1>4. CASE open = "dashboard" /\ PageStep
  <2>1. InDashboard(DashboardStep) /\ open' = open
    BY <1>4 DEF PageStep, InPolicies, InChecks, InUsers, InDashboard
  <2>2. ASSUME NEW r \in Feeds, FeedArrives(r) \/ FeedFails(r)
        PROVE  FeedInv' /\ ProverInv'
    <3>1. ProverInv'
      BY <1>3, <2>1, <2>2, FeedsLeaveTests
    <3>2. r.kind \in {"listAuditLogs", "listUsers"} /\ UNCHANGED members
      BY <2>2 DEF Feeds, InFlight, FeedArrives, FeedFails
    <3>3. FeedInv'
      BY <1>3, <1>4, <2>1, <2>2, <3>2, AuditFeedSettled, UserFeedSettled
    <3> QED BY <3>1, <3>3
  <2>3. ASSUME NEW r \in Tests, TestAnswered(r) \/ TestFails(r)
        PROVE  FeedInv' /\ ProverInv'
    BY <1>3, <1>4, <2>1, <2>3, TestSettled
  <2>4. ASSUME NEW e \in Endpoints, ClickTest(e)
        PROVE  FeedInv' /\ ProverInv'
    BY <1>3, <1>4, <2>1, <2>4, TestClicked
  <2> QED BY <2>1, <2>2, <2>3, <2>4 DEF InDashboard, DashboardStep, FeedSettles, TestSettles
<1>5. CASE open = "dashboard" /\ (ServerStep \/ BadgeStep)
  <2>1. open' = open /\ UNCHANGED dashVars
    BY <1>5, ServerFlights DEF ServerStep, BadgeStep, DashboardServerStep
  <2>2. CASE UNCHANGED waiting
    <3>1. Feeds' = Feeds /\ Tests' = Tests /\ UNCHANGED <<numbers, prover>>
      BY <2>1, <2>2 DEF Feeds, Tests, InFlight, dashVars
    <3> QED BY <1>3, <2>1, <3>1, FeedsAsTheyWere, TestsAsTheyWere
  <2>3. ASSUME NEW r \in waiting, ServeList(r) \/ ServeCreate(r) \/ ServeDelete(r) \/ CheckAccess(r)
        PROVE  FeedInv' /\ ProverInv'
    <3>1. PICK a : Handle(r, a)
      BY <2>3 DEF ServeList, ServeCreate, ServeDelete, CheckAccess
    <3>2. r.kind \notin {"listAuditLogs", "listUsers", "test"}
      BY <2>3 DEF ServeList, ServeCreate, ServeDelete, CheckAccess
    <3> QED BY <1>3, <2>1, <3>1, <3>2, DashboardServed
  <2>4. ASSUME NEW r \in waiting, ServeUsers(r)
        PROVE  FeedInv' /\ ProverInv'
    <3>1. PICK a : Handle(r, a) /\ (a # 0 => role \in Served("GET /users"))
      BY <2>4 DEF ServeUsers
    <3>2. r.kind = "listUsers" /\ Route(r.kind) = "GET /users"
      BY <2>4 DEF ServeUsers, Route
    <3> QED BY <1>3, <2>1, <3>1, <3>2, DashboardServed
  <2>5. ASSUME NEW r \in waiting, ServeAudit(r)
        PROVE  FeedInv' /\ ProverInv'
    <3>1. PICK a : Handle(r, a) /\ (a # 0 => role \in Served("GET /audit"))
      BY <2>5 DEF ServeAudit
    <3>2. r.kind = "listAuditLogs" /\ Route(r.kind) = "GET /audit"
      BY <2>5 DEF ServeAudit, Route
    <3> QED BY <1>3, <2>1, <3>1, <3>2, DashboardServed
  <2>6. ASSUME NEW r \in waiting, ServeTest(r)
        PROVE  FeedInv' /\ ProverInv'
    <3>1. PICK a : Handle(r, a) /\ (a # 0 <=> role \in Served(r.arg[1]))
      <4>1. Handle(r, IF role \in Served(r.arg[1]) THEN 1 ELSE 0)
        BY <2>6 DEF ServeTest
      <4> QED BY <4>1
    <3>2. r.kind = "test"
      BY <2>6 DEF ServeTest
    <3> QED BY <1>3, <2>1, <3>1, <3>2, DashboardServed
  <2>7. CASE Elsewhere \/ Register \/ RestartInMemory \/ BadgeStep
    BY <2>2, <2>7 DEF Elsewhere, Register, RestartInMemory, MembersBecome, BadgeStep, requests
  <2> QED BY <1>5, <2>3, <2>4, <2>5, <2>6, <2>7
          DEF ServerStep, PolicyRequestServed, ChecksServerStep, DirectoryServerStep,
              DashboardServerStep
<1>6. PageStep => open' = open
  BY DEF PageStep, InPolicies, InChecks, InUsers, InDashboard
<1> QED BY <1>1, <1>2, <1>4, <1>5, <1>6, ServerFlights DEF Next

\* Both hold at first.
LEMMA InitDashboard ==
  ASSUME Init
  PROVE  FeedInv /\ ProverInv
<1>1. auditEvents = 0 /\ totalUsers = DefaultUsers /\ unheard = {} /\ testResult = NoTest
  BY DEF Init, Mount, DashboardMount
<1>2. isTesting = FALSE
  BY DEF Init, Mount, DashboardMount
<1>3. ASSUME open = "dashboard"
      PROVE  \E p : Feeds = {p} /\ Tests = {} /\ p.kind = "listAuditLogs" /\ p.answer = 0
  <2>1. PICK n : n = 1
    OBVIOUS
  <2>2. PICK p : p = NewRequest(n, "listAuditLogs", << >>)
    OBVIOUS
  <2>3. waiting = {p}
    BY <1>3, <2>1, <2>2 DEF Init, Opening
  <2>4. p.kind = "listAuditLogs" /\ p.answer = 0
    BY <2>2, NewFields
  <2>5. p.orphan = FALSE
    BY <2>2, NewMarks
  <2>6. Feeds = {p}
    BY <2>3, <2>4, <2>5 DEF Feeds, InFlight
  <2>7. Tests = {}
    BY <2>3, <2>4 DEF Tests, InFlight
  <2> QED BY <2>4, <2>6, <2>7
<1>4. FeedInv
  <2>1. ASSUME open = "dashboard"
        PROVE  FeedInv
    <3>1. PICK p : Feeds = {p} /\ p.kind = "listAuditLogs" /\ p.answer = 0
      BY <1>3, <2>1
    <3>2. \A q \in Feeds : q = p
      BY <3>1
    <3>3. Feeds # {} /\ ~(auditEvents > 0)
      BY <1>1, <3>1
    <3> QED BY <1>1, <3>1, <3>2, <3>3 DEF FeedInv
  <2> QED BY <2>1 DEF FeedInv
<1>5. ProverInv
  BY <1>1, <1>2, <1>3 DEF ProverInv, ProverTellsTheTruth
<1> QED BY <1>4, <1>5

\* The two invariants of the dashboard, at every moment.
LEMMA DashboardInvariant == Spec => [](TypeOK /\ FeedInv /\ ProverInv)
<1>1. Init => TypeOK /\ FeedInv /\ ProverInv
  BY InitTypes, InitDashboard
<1>2. TypeOK /\ FeedInv /\ ProverInv /\ [Next]_vars => (TypeOK /\ FeedInv /\ ProverInv)'
  <2>1. ASSUME TypeOK, FeedInv, ProverInv, UNCHANGED vars
        PROVE  FeedInv' /\ ProverInv'
    <3>1. RequestsTypeOK' /\ Grows
      BY <2>1, StutterTypes DEF TypeOK
    <3>2. UNCHANGED <<waiting, open, role, numbers, prover>>
      BY <2>1 DEF vars, requests, dashVars
    <3>3. Feeds' = Feeds /\ Tests' = Tests
      BY <3>2 DEF Feeds, Tests, InFlight
    <3> QED BY <2>1, <3>1, <3>2, <3>3, FeedsAsTheyWere, TestsAsTheyWere
  <2>2. ASSUME TypeOK, FeedInv, ProverInv, Next
        PROVE  (TypeOK /\ FeedInv /\ ProverInv)'
    <3>1. TypeOK' /\ Grows /\ RequestsTypeOK'
      BY <2>2, NextTypes DEF TypeOK
    <3> QED BY <2>2, <3>1, NextDashboard
  <2> QED BY <2>1, <2>2, StutterTypes
<1> QED BY <1>1, <1>2, PTL DEF Spec

\* Console.tla, DashboardHonest: one answer that fails does not keep the page from
\* the other, a role that is refused learns no number and has a failed request, and the prover's verdict is
\* about the endpoint of the last click and true, unless the connection failed.
THEOREM DashboardIsHonest == Spec => []DashboardHonest
<1>1. TypeOK /\ FeedInv /\ ProverInv => DashboardHonest
  BY DashboardInvShows
<1> QED BY <1>1, DashboardInvariant, PTL

-----------------------------------------------------------------------------
(* The spinners.                                                           *)

\* A spinner has a request in flight whose end stops it.
SpinInv ==
  /\ open = "policies" /\ policiesLoading => PolicyLists # {}
  /\ open = "users" /\ usersLoading => Directories # {}
  /\ open = "applications" /\ isChecking => Launches # {}
  /\ open = "sandbox" /\ isEvaluating => Evaluations # {}
  /\ open = "dashboard" /\ isTesting => Tests # {}

\* What is asked for is in flight.
LEMMA AskFlies ==
  ASSUME TypeOK, NEW kind, NEW arg, Ask(kind, arg)
  PROVE  InFlight({kind})' # {}
<1>1. PICK p : waiting' = waiting \cup {p} /\ p.kind = kind /\ ~p.orphan
  BY AskIs
<1>2. p \in InFlight({kind})'
  BY <1>1 DEF InFlight
<1> QED BY <1>2

\* So is still what has been asked for before.
LEMMA AskKeeps ==
  ASSUME NEW kind, NEW arg, Ask(kind, arg), NEW other, InFlight({other}) # {}
  PROVE  InFlight({other})' # {}
BY DEF Ask, InFlight

\* And what is of another kind than a request that is over.
LEMMA OverKeeps ==
  ASSUME TypeOK, Grows, NEW r \in waiting, Without(r) \subseteq waiting',
         NEW kind, r.kind # kind, InFlight({kind}) # {}
  PROVE  InFlight({kind})' # {}
<1>1. PICK o \in waiting : o.kind = kind /\ ~o.orphan
  BY DEF InFlight
<1>2. o \in waiting \ {r}
  BY <1>1
<1>3. PICK q \in Without(r) : Later(q, o, r)
  BY <1>2, WithoutOK
<1>4. q \in waiting' /\ q.kind = kind /\ ~q.orphan
  BY <1>1, <1>3 DEF Later
<1> QED BY <1>4 DEF InFlight

\* The policies page: a write that is done asks for the list, one that fails
\* leaves the lists there are.
LEMMA PoliciesSpin ==
  ASSUME TypeOK, Grows, SpinInv, InPolicies(PoliciesPageStep)
  PROVE  SpinInv'
<1>1. open = "policies" /\ open' = "policies"
  BY DEF InPolicies
<1> SUFFICES ASSUME policiesLoading' PROVE PolicyLists' # {}
  BY <1>1 DEF SpinInv
<1>2. policiesLoading => PolicyLists # {}
  BY <1>1 DEF SpinInv
<1>3. CASE ToggleForm \/ TypeName
  <2>1. UNCHANGED <<policiesLoading, waiting>>
    BY <1>3 DEF ToggleForm, TypeName
  <2> QED BY <1>2, <2>1 DEF PolicyLists, InFlight
<1>4. CASE SubmitCreate \/ \E p \in PolicyIds : ClickDelete(p)
  <2>1. UNCHANGED policiesLoading
    BY <1>4 DEF SubmitCreate, ClickDelete, policyVars, policyPage, policyView
  <2>2. \E kind : \E arg : Ask(kind, arg)
    BY <1>4 DEF SubmitCreate, ClickDelete
  <2> QED BY <1>2, <2>1, <2>2, AskKeeps DEF PolicyLists
<1>5. CASE ListSettles
  BY <1>5 DEF ListSettles, ListArrives, ListFails
<1>6. ASSUME NEW r \in InFlight(PolicyWrites), WriteDone(r)
      PROVE  PolicyLists' # {}
  <2>1. PICK n : n = sent + 1
    OBVIOUS
  <2>2. PICK p : p = NewRequest(n, "listPolicies", << >>)
    OBVIOUS
  <2>3. p \in waiting'
    BY <1>6, <2>1, <2>2 DEF WriteDone, Asked
  <2>4. p.kind = "listPolicies"
    BY <2>2, NewFields
  <2>5. p.orphan = FALSE
    BY <2>2, NewMarks
  <2> QED BY <2>3, <2>4, <2>5 DEF PolicyLists, InFlight
<1>7. ASSUME NEW r \in InFlight(PolicyWrites), WriteFails(r)
      PROVE  PolicyLists' # {}
  <2>1. /\ UNCHANGED policiesLoading /\ waiting' = Without(r)
        /\ r \in waiting /\ r.kind # "listPolicies"
    BY <1>7 DEF WriteFails, Over, InFlight, PolicyWrites, policyVars, policyPage, policyView
  <2> QED BY <1>2, <2>1, OverKeeps DEF PolicyLists
<1> QED BY <1>3, <1>4, <1>5, <1>6, <1>7 DEF InPolicies, PoliciesPageStep

\* The sandbox, the catalog and the users page: a spinner starts with a request,
\* and every answer stops it.
LEMMA SinglePagesSpin ==
  ASSUME TypeOK, SpinInv,
         \/ InChecks("sandbox", SandboxStep)
         \/ InChecks("applications", CatalogStep)
         \/ InUsers(UsersPageStep)
  PROVE  SpinInv'
<1>1. CASE InChecks("sandbox", SandboxStep)
  <2>1. open = "sandbox" /\ open' = "sandbox"
    BY <1>1 DEF InChecks
  <2>2. CASE MoveInput
    BY <2>1, <2>2 DEF MoveInput, SpinInv, Evaluations, InFlight
  <2>3. CASE RunEvaluation
    <3>1. PICK input : input = sandboxInput
      OBVIOUS
    <3>2. Ask("evaluate", input)
      BY <2>3, <3>1 DEF RunEvaluation
    <3>3. Evaluations' # {}
      BY <3>2, AskFlies DEF Evaluations
    <3> QED BY <2>1, <3>3 DEF SpinInv
  <2>4. CASE EvaluationSettles
    BY <2>1, <2>4 DEF EvaluationSettles, EvaluationAnswered, EvaluationFails, SpinInv
  <2> QED BY <1>1, <2>2, <2>3, <2>4 DEF InChecks, SandboxStep
<1>2. CASE InChecks("applications", CatalogStep)
  <2>1. open = "applications" /\ open' = "applications"
    BY <1>2 DEF InChecks
  <2>2. ASSUME NEW app \in Apps, LaunchApp(app) PROVE SpinInv'
    <3>1. Launches' # {}
      BY <2>2, AskFlies DEF LaunchApp, Launches
    <3> QED BY <2>1, <3>1 DEF SpinInv
  <2>3. CASE LaunchSettles
    BY <2>1, <2>3 DEF LaunchSettles, LaunchAnswered, LaunchFails, SpinInv
  <2> QED BY <1>2, <2>2, <2>3 DEF InChecks, CatalogStep
<1>3. CASE InUsers(UsersPageStep)
  <2>1. open = "users" /\ open' = "users"
    BY <1>3 DEF InUsers
  <2>2. CASE Refresh
    <3>1. Directories' # {}
      BY <2>2, AskFlies DEF Refresh, Directories
    <3> QED BY <2>1, <3>1 DEF SpinInv
  <2>3. CASE ChooseRole \/ TypeSearch
    BY <2>1, <2>3 DEF ChooseRole, TypeSearch, directory, SpinInv, Directories, InFlight
  <2>4. CASE DirectorySettles
    BY <2>1, <2>4 DEF DirectorySettles, DirectoryArrives, DirectoryFails, SpinInv
  <2> QED BY <1>3, <2>2, <2>3, <2>4 DEF InUsers, UsersPageStep
<1> QED BY <1>1, <1>2, <1>3

\* The dashboard: the feeds leave the test that is on its way.
LEMMA DashboardSpin ==
  ASSUME TypeOK, Grows, SpinInv, InDashboard(DashboardStep)
  PROVE  SpinInv'
<1>1. open = "dashboard" /\ open' = "dashboard"
  BY DEF InDashboard
<1> SUFFICES ASSUME isTesting' PROVE Tests' # {}
  BY <1>1 DEF SpinInv
<1>2. ASSUME NEW r \in Feeds, FeedArrives(r) \/ FeedFails(r)
      PROVE  Tests' # {}
  <2>1. FeedContinues(r) /\ UNCHANGED isTesting
    BY <1>2 DEF FeedArrives, FeedFails, prover
  <2>2. r \in waiting /\ r.kind # "test"
    BY DEF Feeds, InFlight
  <2>3. Without(r) \subseteq waiting'
    BY <2>1 DEF FeedContinues, Over
  <2>4. Tests # {}
    BY <1>1, <2>1 DEF SpinInv
  <2> QED BY <2>2, <2>3, <2>4, OverKeeps DEF Tests
<1>3. CASE TestSettles
  BY <1>3 DEF TestSettles, TestAnswered, TestFails
<1>4. ASSUME NEW e \in Endpoints, ClickTest(e) PROVE Tests' # {}
  BY <1>4, AskFlies DEF ClickTest, Tests
<1> QED BY <1>2, <1>3, <1>4 DEF InDashboard, DashboardStep, FeedSettles

\* A page that is opened has the requests its spinner waits for.
LEMMA OpenedSpins ==
  ASSUME NEW n, NEW p \in Pages, Opening(p, n) \subseteq waiting', open' = p, Remount
  PROVE  SpinInv'
<1>1. /\ isChecking' = FALSE /\ isEvaluating' = FALSE /\ isTesting' = FALSE
  BY DEF Remount, CatalogMount, SandboxMount, DashboardMount
<1>2. p = "policies" => PolicyLists' # {}
  <2> SUFFICES ASSUME p = "policies" PROVE PolicyLists' # {}
    OBVIOUS
  <2>1. PICK q : q = NewRequest(n, "listPolicies", << >>)
    OBVIOUS
  <2>2. q \in waiting'
    BY <2>1 DEF Opening
  <2>3. q.kind = "listPolicies"
    BY <2>1, NewFields
  <2>4. q.orphan = FALSE
    BY <2>1, NewMarks
  <2> QED BY <2>2, <2>3, <2>4 DEF PolicyLists, InFlight
<1>3. p = "users" => Directories' # {}
  <2> SUFFICES ASSUME p = "users" PROVE Directories' # {}
    OBVIOUS
  <2>1. PICK q : q = NewRequest(n, "listUsers", << >>)
    OBVIOUS
  <2>2. q \in waiting'
    BY <2>1 DEF Opening
  <2>3. q.kind = "listUsers"
    BY <2>1, NewFields
  <2>4. q.orphan = FALSE
    BY <2>1, NewMarks
  <2> QED BY <2>2, <2>3, <2>4 DEF Directories, InFlight
<1> QED BY <1>1, <1>2, <1>3 DEF SpinInv

\* The backend and the badge stop no spinner and end no request.
LEMMA ServerSpin ==
  ASSUME TypeOK, SpinInv, Flights, open' = open,
         UNCHANGED <<policiesLoading, usersLoading, isChecking, isEvaluating, isTesting>>
  PROVE  SpinInv'
<1>1. ASSUME NEW kind, InFlight({kind}) # {} PROVE InFlight({kind})' # {}
  BY <1>1, FlightsKeep
<1>2. /\ PolicyLists # {} => PolicyLists' # {}
      /\ Directories # {} => Directories' # {}
      /\ Launches # {} => Launches' # {}
      /\ Evaluations # {} => Evaluations' # {}
      /\ Tests # {} => Tests' # {}
  BY <1>1 DEF PolicyLists, Directories, Launches, Evaluations, Tests
<1> QED BY <1>2 DEF SpinInv

\* Every step keeps SpinInv.
LEMMA NextSpin ==
  ASSUME TypeOK, Grows, SpinInv, Next
  PROVE  SpinInv'
<1>1. ASSUME NEW p \in Pages, Navigate(p) PROVE SpinInv'
  <2>1. PICK n : n = sent + 1
    OBVIOUS
  <2>2. Opening(p, n) \subseteq waiting' /\ open' = p /\ Remount
    BY <1>1, <2>1 DEF Navigate
  <2> QED BY <2>2, OpenedSpins
<1>2. CASE PageStep
  BY <1>2, PoliciesSpin, SinglePagesSpin, DashboardSpin DEF PageStep
<1>3. CASE ServerStep \/ BadgeStep
  <2>1. Flights /\ open' = open
    BY <1>3, ServerFlights
  <2>2. UNCHANGED <<policiesLoading, usersLoading>>
    BY <1>3 DEF ServerStep, BadgeStep, PolicyRequestServed, ServeList, ServeCreate,
       ServeDelete, Elsewhere, policyVars, policyPage, policyView, usersVars, directory
  <2>3. UNCHANGED <<isChecking, isEvaluating>>
    BY <1>3 DEF ServerStep, BadgeStep, ChecksServerStep, CheckAccess, checkVars,
       catalog, sandbox
  <2>4. UNCHANGED isTesting
    BY <1>3 DEF ServerStep, BadgeStep, DashboardServerStep, dashVars, prover
  <2> QED BY <2>1, <2>2, <2>3, <2>4, ServerSpin
<1> QED BY <1>1, <1>2, <1>3 DEF Next

\* At first the page has been opened.
LEMMA InitSpin ==
  ASSUME Init
  PROVE  SpinInv
<1>1. isChecking = FALSE /\ isEvaluating = FALSE /\ isTesting = FALSE
  BY DEF Init, Mount, CatalogMount, SandboxMount, DashboardMount
<1>2. PICK n : n = 1
  OBVIOUS
<1>3. waiting = Opening(open, n)
  BY <1>2 DEF Init
<1>4. open = "policies" => PolicyLists # {}
  <2> SUFFICES ASSUME open = "policies" PROVE PolicyLists # {}
    OBVIOUS
  <2>1. PICK q : q = NewRequest(n, "listPolicies", << >>)
    OBVIOUS
  <2>2. q \in waiting
    BY <1>3, <2>1 DEF Opening
  <2>3. q.kind = "listPolicies"
    BY <2>1, NewFields
  <2>4. q.orphan = FALSE
    BY <2>1, NewMarks
  <2> QED BY <2>2, <2>3, <2>4 DEF PolicyLists, InFlight
<1>5. open = "users" => Directories # {}
  <2> SUFFICES ASSUME open = "users" PROVE Directories # {}
    OBVIOUS
  <2>1. PICK q : q = NewRequest(n, "listUsers", << >>)
    OBVIOUS
  <2>2. q \in waiting
    BY <1>3, <2>1 DEF Opening
  <2>3. q.kind = "listUsers"
    BY <2>1, NewFields
  <2>4. q.orphan = FALSE
    BY <2>1, NewMarks
  <2> QED BY <2>2, <2>3, <2>4 DEF Directories, InFlight
<1> QED BY <1>1, <1>4, <1>5 DEF SpinInv

\* Console.tla, SpinnersAreOwed: however requests overlap, fail or outlive their
\* page, a spinner always has one in flight that will stop it, and the sandbox
\* and the prover have theirs and no second.
THEOREM SpinnersAlwaysOwed == Spec => []SpinnersAreOwed
<1>1. Init => SpinInv
  BY InitSpin
<1>2. TypeOK /\ SpinInv /\ [Next]_vars => SpinInv'
  <2>1. ASSUME TypeOK, SpinInv, UNCHANGED vars PROVE SpinInv'
    <3>1. UNCHANGED <<waiting, open>>
      BY <2>1 DEF vars, requests
    <3>2. UNCHANGED <<policiesLoading, usersLoading, isChecking, isEvaluating, isTesting>>
      BY <2>1 DEF vars, policyVars, policyPage, policyView, usersVars, directory,
         checkVars, catalog, sandbox, dashVars, prover
    <3> QED BY <2>1, <3>1, <3>2, SameFlights, ServerSpin
  <2>2. ASSUME TypeOK, SpinInv, Next PROVE SpinInv'
    BY <2>2, NextTypes, NextSpin
  <2> QED BY <2>1, <2>2
<1>3. SpinInv /\ SandboxInv /\ ProverInv => SpinnersAreOwed
  BY DEF SpinInv, SandboxInv, ProverInv, SpinnersAreOwed, Single
<1> QED BY <1>1, <1>2, <1>3, TypeCorrect, VerdictInvariant, DashboardInvariant, PTL DEF Spec

-----------------------------------------------------------------------------
(* The badge.                                                              *)

\* Navbar.tla, BadgeStaysRight: with any number of polls in flight at once, a
\* badge that is right and awaits no answer of another time stays right until
\* the backend goes or comes back.
THEOREM BadgeKept == Spec => BadgeStaysRight
<1> DEFINE Right == BadgeSettled /\ UNCHANGED up => BadgeSettled'
<1>1. TypeOK /\ [Next]_vars => [Right]_navVars
  <2> SUFFICES ASSUME TypeOK, [Next]_vars, BadgeSettled, UNCHANGED up,
                      ~UNCHANGED navVars
               PROVE  BadgeSettled'
    OBVIOUS
  <2>1. NavbarStep
    <3>1. PageStep => UNCHANGED navVars
      BY DEF PageStep, InPolicies, InChecks, InUsers, InDashboard
    <3> QED BY <3>1 DEF Next, Navigate, ServerStep, BadgeStep, vars
  <2>2. poll \in [Polls -> {"none", "flight", "ok", "failed"}] /\ up \in BOOLEAN
    BY DEF TypeOK, NavbarTypeOK
  <2>3. CASE CheckBackend
    BY <2>2, <2>3 DEF CheckBackend, BadgeSettled
  <2>4. CASE BackendChanges
    <3>1. up' = ~up /\ up' = up
      BY <2>4 DEF BackendChanges
    <3>2. CASE up = TRUE
      <4>1. up' = FALSE /\ up' = TRUE
        BY <3>1, <3>2
      <4> QED BY <4>1
    <3>3. CASE up = FALSE
      <4>1. up' = TRUE /\ up' = FALSE
        BY <3>1, <3>3
      <4> QED BY <4>1
    <3> QED BY <2>2, <3>2, <3>3
  <2>5. ASSUME NEW k \in Polls, PollMeets(k) PROVE BadgeSettled'
    BY <2>2, <2>5 DEF PollMeets, BadgeSettled
  <2>6. ASSUME NEW k \in Polls, PollSettles(k) PROVE BadgeSettled'
    BY <2>2, <2>6 DEF PollSettles, BadgeSettled
  <2> QED BY <2>1, <2>3, <2>4, <2>5, <2>6 DEF NavbarStep
<1> QED BY <1>1, TypeCorrect, PTL DEF Spec, BadgeStaysRight
=============================================================================
