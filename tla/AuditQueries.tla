---------------------------- MODULE AuditQueries ----------------------------
(***************************************************************************)
(* GET /api/v1/audit asked by any API client while goroutines log.         *)
(***************************************************************************)
EXTENDS MemoryLogger, SequencesExt

CONSTANT Queries      \* what clients ask

ASSUME QueriesAssumption == Queries \subseteq Query
ASSUME TrailAssumption == MaxEvents + MaxPageSize <= MaxInt   \* a trail fits into memory

VARIABLES query, reply   \* the last request answered, and its answer
vars == <<logVars, query, reply>>

Init ==
  /\ LogInit
  /\ query = [page |-> 0, size |-> 0]
  /\ reply = Page(<< >>, 0)

\* Handler.List: the parameters are made valid, then the trail is read.
Ask ==
  /\ query' \in Queries
  /\ reply' = List(events, PageNumber(query'.page), PageSize(query'.size))
  /\ UNCHANGED logVars

Next == (LogStep /\ UNCHANGED <<query, reply>>) \/ Ask

Spec == Init /\ [][Next]_vars

-----------------------------------------------------------------------------
\* Every variable ranges over the values the code can give it.
TypeOK ==
  /\ LogTypeOK
  /\ query \in Query
  /\ reply \in [ok : BOOLEAN, events : Seq(Event), total : 0 .. MaxEvents]

\* For every size a client may ask for, the pages from the first to the last
\* the browser offers show the trail, newest event first, none missing at a
\* page's edge and none twice.
PagesCoverTrail ==
  \A size \in 1 .. MaxPageSize :
    LET pages == [p \in 1 .. TotalPages(Len(events), size) |->
                    List(events, p, size).events]
    IN  FlattenSeq(pages) = Reverse(events)

\* A page holds the events it is asked for, no more of them than page_size
\* allows, also when others are logged meanwhile: the k-th row is the event
\* that (page - 1) * size + k - 1 newer ones precede.
Overflows(page, size) == (page - 1) * size > MaxInt

AnswerIsThePage ==
  [][LET page == PageNumber(query'.page)
         size == IF query'.size \in 1 .. MaxPageSize THEN query'.size
                 ELSE DefaultPageSize
     IN  reply' # reply /\ ~Overflows(page, size) =>
           /\ reply'.ok
           /\ reply'.total = Len(events)
           /\ \A i \in 1 .. Len(events) :
                LET newer == Len(events) - i
                    k     == newer - (page - 1) * size + 1
                IN  k \in 1 .. size <=>
                      \E n \in DOMAIN reply'.events : /\ n = k
                                                      /\ reply'.events[n] = events[i]]_vars
=============================================================================
