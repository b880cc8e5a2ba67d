----------------------------- MODULE AuditPaging -----------------------------
(***************************************************************************)
(* How a page of the audit trail is computed: the query parameters of      *)
(* GET /api/v1/audit (internal/audit/handler.go), the slice MemoryLogger   *)
(* takes from the end of its events (internal/audit/logger.go), and the    *)
(* number of pages the browser offers (AuditPage.tsx).  Go's int wraps.    *)
(***************************************************************************)
EXTENDS Integers, Sequences

CONSTANTS MaxInt,           \* largest int
          MaxPageSize,      \* 200 in handler.go
          DefaultPageSize   \* 50 in handler.go

ASSUME IntAssumption  == MaxInt \in Nat
ASSUME SizeAssumption == MaxPageSize \in Nat /\ DefaultPageSize \in 1 .. MaxPageSize

MinInt == -MaxInt - 1

\* An int keeps the low bits of a product or a sum.
Wrap(x) == IF x \in MinInt .. MaxInt
             THEN x
             ELSE ((x - MinInt) % (2 * (MaxInt + 1))) + MinInt

\* The parameters as strconv.Atoi leaves them; 0 when absent or not a number.
Query == [page : MinInt .. MaxInt, size : MinInt .. MaxInt]

PageNumber(n) == IF n > 0 THEN n ELSE 1

\* Fault: the upper bound of page_size is forgotten.
PageSizeUnbounded(n) == IF n > 0 THEN n ELSE DefaultPageSize

PageSize(n) == IF n \in 1 .. MaxPageSize THEN n ELSE DefaultPageSize

Page(events, total) == [ok |-> TRUE, events |-> events, total |-> total]

\* A slice bound below zero panics; net/http recovers and drops the connection.
Panicked == [ok |-> FALSE, events |-> << >>, total |-> 0]

\* reversed[from:to], reversed being the trail from its newest event.
Slice(trail, from, to) ==
  [k \in 1 .. to - from |-> trail[Len(trail) - from - k + 1]]

\* Fault: the offset is the page times its size.
ListFromNextPage(trail, page, size) ==
  LET total == Len(trail)
      start == Wrap(page * size)
      end   == IF Wrap(start + size) > total THEN total ELSE start + size
  IN  IF total = 0 \/ start >= total THEN Page(<< >>, total)
      ELSE IF start < 0 THEN Panicked
      ELSE Page(Slice(trail, start, end), total)

List(trail, page, size) ==
  LET total == Len(trail)
      start == Wrap((page - 1) * size)
      end   == IF Wrap(start + size) > total THEN total ELSE start + size
  IN  IF total = 0 \/ start >= total THEN Page(<< >>, total)
      ELSE IF start < 0 THEN Panicked
      ELSE Page(Slice(trail, start, end), total)

\* Math.ceil(total / pageSize) || 1
TotalPages(total, size) ==
  IF total = 0 THEN 1
  ELSE IF total % size = 0 THEN total \div size
  ELSE total \div size + 1
=============================================================================
