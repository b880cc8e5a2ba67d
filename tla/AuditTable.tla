------------------------------ MODULE AuditTable ------------------------------
(***************************************************************************)
(* internal/audit/logger_postgres.go: Log hands the stamped event to a     *)
(* goroutine that inserts it one day, or not at all; List counts the rows  *)
(* and then selects a page of them, in two statements.  A reader of        *)
(* GET /api/v1/audit goes from page to page meanwhile, as AuditPage's does *)
(* over the other logger.                                                  *)
(***************************************************************************)
EXTENDS Integers, Sequences, FiniteSets

CONSTANTS Rows,        \* ids of the events that may be logged
          LastTime,    \* bound: the clock
          PageRows     \* page_size of the reader

ASSUME TableAssumption == LastTime \in Nat /\ PageRows \in Nat \ {0}

VARIABLES clock,     \* of the server; it stands or advances
          held,      \* events stamped, and not yet inserted
          table,     \* audit_logs: its rows
          reader     \* the reader of the pages, see below

tableVars == <<clock, held, table, reader>>

Row == [id : Rows, time : 0 .. LastTime]

Logged == {r.id : r \in held \cup table}

\* page: the page asked for.  stage: of that request.  total: its COUNT.  For
\* the properties, meant: the events that were in the table when page 1 was
\* asked for; seen: those on the pages shown; split: a row was inserted between
\* the two statements of the last request.
NewReader ==
  [page |-> 1, stage |-> "asked", total |-> 0, meant |-> table, seen |-> {}, split |-> FALSE]

TableInit ==
  /\ clock = 0 /\ held = {} /\ table = {}
  /\ reader = NewReader

-----------------------------------------------------------------------------
\* Log: the id and the timestamp, and the goroutine.
LogEvent(id) ==
  /\ id \notin Logged
  /\ clock' \in {clock, clock + 1} /\ clock' <= LastTime
  /\ held' = held \cup {[id |-> id, time |-> clock']}
  /\ UNCHANGED <<table, reader>>

\* The goroutine: Exec, or an error that is printed, or the end of the process.
InsertRow(r) ==
  /\ held' = held \ {r}
  /\ table' = table \cup {r}
  /\ reader' = [reader EXCEPT !.split = @ \/ reader.stage = "counted"]
  /\ UNCHANGED clock

InsertFails(r) ==
  /\ held' = held \ {r}
  /\ UNCHANGED <<clock, table, reader>>

-----------------------------------------------------------------------------
\* SELECT COUNT(*).
Count ==
  /\ reader.stage = "asked"
  /\ reader' = [reader EXCEPT !.stage = "counted", !.total = Cardinality(table),
                              !.split = FALSE]
  /\ UNCHANGED <<clock, held, table>>

\* Fault: no ORDER BY.
AnyOrder == {o \in [1 .. Cardinality(table) -> table] : {o[k] : k \in DOMAIN o} = table}

\* ORDER BY timestamp DESC: rows of one timestamp come in any order, in another
\* one each time.
ByTime ==
  {o \in [1 .. Cardinality(table) -> table] :
     /\ {o[k] : k \in DOMAIN o} = table
     /\ \A j, k \in DOMAIN o : j < k => o[j].time >= o[k].time}

\* LIMIT and OFFSET, and the answer: the page is shown.
Select ==
  /\ reader.stage = "counted"
  /\ \E order \in ByTime :
       LET first == (reader.page - 1) * PageRows + 1
           page  == {order[k] : k \in DOMAIN order \cap (first .. first + PageRows - 1)}
       IN  reader' = [reader EXCEPT !.stage = "shown", !.seen = @ \cup page]
  /\ UNCHANGED <<clock, held, table>>

\* Either statement fails: 500, and the reader asks for the page again.
QueryFails ==
  /\ reader.stage = "counted"
  /\ reader' = [reader EXCEPT !.stage = "asked"]
  /\ UNCHANGED <<clock, held, table>>

\* The reader goes on as long as total says that there is more, or starts anew.
AtEnd == reader.stage = "shown" /\ reader.page * PageRows >= reader.total

NextPage ==
  /\ reader.stage = "shown" /\ ~AtEnd
  /\ reader' = [reader EXCEPT !.stage = "asked", !.page = @ + 1]
  /\ UNCHANGED <<clock, held, table>>

StartAnew ==
  /\ reader.stage = "shown"
  /\ reader' = NewReader
  /\ UNCHANGED <<clock, held, table>>

TableStep ==
  \/ \E id \in Rows : LogEvent(id)
  \/ \E r \in held : InsertRow(r) \/ InsertFails(r)
  \/ Count \/ Select \/ QueryFails \/ NextPage \/ StartAnew

-----------------------------------------------------------------------------
TableTypeOK ==
  /\ clock \in 0 .. LastTime
  /\ held \subseteq Row /\ table \subseteq Row
  /\ \A q, r \in held \cup table : q.id = r.id => q = r
  /\ held \cap table = {}
  /\ reader \in [page : Nat \ {0}, stage : {"asked", "counted", "shown"}, total : Nat,
                 meant : SUBSET table, seen : SUBSET table, split : BOOLEAN]

\* AuditPage's WalkComplete, of the other logger.  Events are inserted late and
\* behind newer ones, which only pushes rows to later pages.  But the reader
\* stops where total says, and rows of one timestamp have no order: he has seen
\* all he meant to see if no row came between the two statements of his last
\* request, and no two events share a timestamp.
NoTies == \A q, r \in table : q.time = r.time => q = r

ReaderSeesAll == AtEnd /\ ~reader.split /\ NoTies => reader.meant \subseteq reader.seen
=============================================================================
