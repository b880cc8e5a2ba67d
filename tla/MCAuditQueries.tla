--------------------------- MODULE MCAuditQueries ---------------------------
(***************************************************************************)
(* ints of five bits: -16 .. 15.                                           *)
(***************************************************************************)
EXTENDS AuditQueries

\* Absent, negative, ordinary and boundary parameters, and a page number whose
\* offset wraps below zero.
SomeQueries == [page : {-16, 0, 2, 3, 8}, size : {0, 1, 3, 4}]
=============================================================================
