------------------------- MODULE MCBrowserSession -------------------------
(***************************************************************************)
(* A tab shared by an administrator, to whom every door is open, an         *)
(* analyst, whom App and the server judge differently, and a viewer.       *)
(***************************************************************************)
EXTENDS BrowserSession

TheRoles ==
  [a \in Accounts |->
     CASE a = "ada" -> "admin" [] a = "ann" -> "analyst" [] OTHER -> "viewer"]

\* Public, open to all, with requests of its own, and two guarded pages.
TypedPaths == {"/login", "/dashboard", "/security", "/users", "/audit"}
=============================================================================
