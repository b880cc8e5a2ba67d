--------------------------- MODULE BrowserSession ---------------------------
(***************************************************************************)
(* One browser tab of the single-page application: who it thinks is signed *)
(* in, and which pages it opens.                                           *)
(*                                                                         *)
(* Three places hold the session: sessionStorage, the field of ApiClient   *)
(* and the state of AuthProvider (token, user, isLoading).  JavaScript     *)
(* runs one task at a time, so an action is a task: a click, the loading   *)
(* of the document, or the settling of one request together with the       *)
(* continuations that follow it up to the next request.  Requests overtake *)
(* each other and the server may refuse any of them.                       *)
(*                                                                         *)
(* A token is represented by the account it was issued to.                 *)
(***************************************************************************)
EXTENDS Naturals

CONSTANTS
  Accounts,   \* the accounts of the server
  NoOne,      \* null, as a token and as a user
  RoleOf,     \* the role of an account
  Visits,     \* the paths a visitor types into the address bar
  MaxCalls,   \* bound: requests in flight at once
  MaxLoads    \* bound: loadings of the document

AllRoles == {"super_admin", "admin", "security_manager", "developer",
             "analyst", "viewer", "user"}

ASSUME NoOneAssumption == NoOne \notin Accounts
ASSUME RoleOfAssumption == RoleOf \in [Accounts -> AllRoles]
ASSUME BoundsAssumption == MaxCalls \in Nat \ {0} /\ MaxLoads \in Nat

VARIABLES
  stored,     \* sessionStorage, key nexus_auth_token
  apiToken,   \* ApiClient.token
  token,      \* AuthProvider.token
  user,       \* AuthProvider.user
  loading,    \* AuthProvider.isLoading
  path,       \* the location
  busy,       \* isSubmitting, or isLoading of SecurityPage, of the page shown
  calls,      \* the requests in flight
  strayed,    \* history: see SessionAgrees
  loads       \* bound: loadings so far

vars == <<stored, apiToken, token, user, loading, path, busy, calls, strayed, loads>>
session == <<stored, apiToken, token>>

Slots == 1..MaxCalls
Maybe == Accounts \cup {NoOne}
Kinds == {"none", "profile", "login", "me", "register", "setup", "verify"}

\* A request, what it is about, and whether the page it serves is still mounted.
Call(kind, who, mine) == [kind |-> kind, who |-> who, mine |-> mine]
CallType == [kind : Kinds, who : Maybe, mine : BOOLEAN]
NoCall == Call("none", NoOne, FALSE)
Free(i) == calls[i].kind = "none"

-----------------------------------------------------------------------------
(* The routes of App, the links of Sidebar and the middleware of the server. *)

Public == {"/login", "/register"}
Paths == Public \cup {"/dashboard", "/applications", "/policies", "/security",
                      "/settings", "/users", "/roles", "/audit"}

ASSUME VisitsAssumption == Visits \subseteq Paths

\* Fault: hasRole forgets to look at the role.
HasAnyRole(u, roles) == u # NoOne

HasRole(u, roles) ==
  /\ u # NoOne
  /\ \/ RoleOf[u] = "super_admin"
     \/ RoleOf[u] \in roles

RouteRoles(p) ==
  CASE p = "/users" -> {"admin", "super_admin"}
    [] p = "/roles" -> {"admin", "security_manager", "super_admin"}
    [] p = "/audit" -> {"admin", "security_manager", "analyst", "super_admin"}
    [] OTHER -> AllRoles

LinkRoles(p) ==
  CASE p = "/users" -> {"admin", "super_admin"}
    [] p = "/roles" -> {"admin", "security_manager", "super_admin"}
    [] p = "/policies" -> {"admin", "security_manager", "super_admin",
                           "developer", "analyst", "viewer", "user"}
    [] p = "/audit" -> {"admin", "security_manager", "analyst", "super_admin"}
    [] OTHER -> AllRoles

\* RequireRole and RequireAnyRole of the route a page loads its data from.
ServerRoles(p) ==
  CASE p = "/users" -> {"admin", "super_admin"}
    [] p = "/audit" -> {"admin", "security_manager", "super_admin"}
    [] OTHER -> AllRoles

\* What ProtectedRoute renders.
Screen ==
  CASE path \in Public                 -> path
    [] path \notin Public /\ loading   -> "spinner"
    [] OTHER -> IF HasRole(user, RouteRoles(path)) THEN path ELSE "forbidden"

InApp == path \notin Public /\ ~loading /\ user # NoOne

(***************************************************************************)
(* A task ends with a rendering at p.  A protected path without a user is  *)
(* redirected to the login page.  A page that is left, if only to come     *)
(* back to a fresh one, takes its form with it: the requests it waits for  *)
(* are nobody's now.                                                       *)
(***************************************************************************)
Render(p, cs, b) ==
  LET shown == IF p \notin Public /\ ~loading' /\ user' = NoOne THEN "/login" ELSE p
      stays == p = path /\ shown = path
  IN /\ path' = shown
     /\ busy' = (b /\ stays)
     /\ calls' = IF stays THEN cs
                 ELSE [j \in Slots |-> [cs[j] EXCEPT !.mine = FALSE]]

\* ApiClient.setToken.
SetToken(t) == apiToken' = t /\ stored' = t

-----------------------------------------------------------------------------
Init ==
  /\ stored = NoOne /\ apiToken = NoOne /\ token = NoOne
  /\ user = NoOne
  /\ loading = FALSE
  /\ path = "/login"
  /\ busy = FALSE
  /\ calls = [i \in Slots |-> NoCall]
  /\ strayed = FALSE
  /\ loads = 0

\* The document is loaded at p: the requests of the old one are forgotten,
\* and fetchProfile asks whose the stored token is.
Load(p) ==
  /\ loads < MaxLoads
  /\ loads' = loads + 1
  /\ apiToken' = stored
  /\ token' = stored
  /\ user' = NoOne
  /\ loading' = (stored # NoOne)
  /\ path' = IF p \in Public \/ loading' THEN p ELSE "/login"
  /\ busy' = FALSE
  /\ calls' = [i \in Slots |-> IF i = 1 /\ stored # NoOne
                               THEN Call("profile", stored, FALSE) ELSE NoCall]
  /\ strayed' = FALSE
  /\ UNCHANGED stored

\* A click on the link of LoginPage to RegisterPage, or back.
FollowLink ==
  /\ path \in Public
  /\ UNCHANGED <<session, user, loading, strayed, loads>>
  /\ \E p \in Public \ {path} : Render(p, calls, busy)

\* A click on a link of Sidebar.
OpenPage(p) ==
  /\ InApp
  /\ p \in Paths \ Public
  /\ HasRole(user, LinkRoles(p))
  /\ UNCHANGED <<session, user, loading, strayed, loads>>
  /\ Render(p, calls, busy)

\* A request is sent for the form of the page shown, whose button is disabled.
Submit(i, call) ==
  /\ ~busy
  /\ Free(i)
  /\ UNCHANGED <<session, user, loading, strayed, loads>>
  /\ Render(path, [calls EXCEPT ![i] = call], TRUE)

SubmitLogin(i, a) == path = "/login" /\ Submit(i, Call("login", a, TRUE))

SubmitRegister(i, a) == path = "/register" /\ Submit(i, Call("register", a, TRUE))

SubmitCode(i) ==
  InApp /\ path = "/security" /\ Submit(i, Call("verify", apiToken, TRUE))

SubmitSetup(i) ==
  InApp /\ path = "/security" /\ Submit(i, Call("setup", apiToken, TRUE))

Logout ==
  /\ InApp
  /\ SetToken(NoOne)
  /\ token' = NoOne
  /\ user' = NoOne
  /\ strayed' = FALSE
  /\ UNCHANGED <<loading, loads>>
  /\ Render(path, calls, busy)

-----------------------------------------------------------------------------
(* The settling of a request. *)

\* The request in slot i is over and so is what its page was waiting for.
Done(i, p) == Render(p, [calls EXCEPT ![i] = NoCall], busy /\ ~calls[i].mine)

\* The continuation sends the next request of the same handler.
Then(i, kind, who) ==
  Render(path, [calls EXCEPT ![i] = Call(kind, who, calls[i].mine)], busy)

\* A profile is stored whoever the token belongs to by now.
ProfileArrives(i) ==
  /\ calls[i].kind = "profile"
  /\ user' = calls[i].who
  /\ loading' = FALSE
  /\ strayed' = (calls[i].who # apiToken)
  /\ UNCHANGED <<session, loads>>
  /\ Done(i, path)

\* The answer is 200 but its body is broken off or no JSON: request returns
\* null for the profile, and the token stays.
ProfileUnreadable(i) ==
  /\ calls[i].kind = "profile"
  /\ user' = NoOne
  /\ loading' = FALSE
  /\ strayed' = (apiToken # NoOne)
  /\ UNCHANGED <<session, loads>>
  /\ Done(i, path)

\* Fault: the catch clears the token and forgets the user.
ProfileFailsKeepsUser(i) ==
  /\ calls[i].kind = "profile"
  /\ SetToken(NoOne)
  /\ token' = NoOne
  /\ loading' = FALSE
  /\ strayed' = FALSE
  /\ UNCHANGED <<user, loads>>
  /\ Done(i, path)

ProfileFails(i) ==
  /\ calls[i].kind = "profile"
  /\ SetToken(NoOne)
  /\ token' = NoOne
  /\ user' = NoOne
  /\ loading' = FALSE
  /\ strayed' = FALSE
  /\ UNCHANGED loads
  /\ Done(i, path)

\* The account is created, and register goes on to log in.
Registered(i) ==
  /\ calls[i].kind = "register"
  /\ UNCHANGED <<session, user, loading, strayed, loads>>
  /\ Then(i, "login", calls[i].who)

\* The token is kept in all three places, and login asks for the profile.
LoginAccepted(i) ==
  /\ calls[i].kind = "login"
  /\ SetToken(calls[i].who)
  /\ token' = calls[i].who
  /\ UNCHANGED <<user, loading, strayed, loads>>
  /\ Then(i, "me", calls[i].who)

MeArrives(i) ==
  /\ calls[i].kind = "me"
  /\ user' = calls[i].who
  /\ strayed' = (calls[i].who # apiToken)
  /\ UNCHANGED <<session, loading, loads>>
  /\ Done(i, "/dashboard")

\* The same 200 without a body: the form goes on to the dashboard with nobody,
\* and is sent back to the login page.
MeUnreadable(i) ==
  /\ calls[i].kind = "me"
  /\ user' = NoOne
  /\ strayed' = (apiToken # NoOne)
  /\ UNCHANGED <<session, loading, loads>>
  /\ Done(i, "/dashboard")

\* The code is right: refreshProfile, if there is still a token.
Verified(i) ==
  /\ calls[i].kind = "verify"
  /\ UNCHANGED <<session, loads>>
  /\ \/ /\ apiToken = NoOne
        /\ user' = NoOne
        /\ loading' = FALSE
        /\ strayed' = FALSE
        /\ Done(i, path)
     \/ /\ apiToken # NoOne
        /\ UNCHANGED <<user, loading, strayed>>
        /\ Then(i, "profile", apiToken)

\* The page shows the secret.
SetUp(i) ==
  /\ calls[i].kind = "setup"
  /\ UNCHANGED <<session, user, loading, strayed, loads>>
  /\ Done(i, path)

\* Fault: the handler of the form has no finally.
RefusedStaysBusy(i) ==
  /\ calls[i].kind \in {"login", "register", "setup", "verify", "me"}
  /\ strayed' = (strayed \/ (calls[i].kind = "me" /\ calls[i].who = apiToken))
  /\ UNCHANGED <<session, user, loading, loads>>
  /\ Render(path, [calls EXCEPT ![i] = NoCall], busy)

\* The page shows the error, also for a 200 whose missing body its handler trips
\* over.  The token of a login whose profile is missing stays.
Refused(i) ==
  /\ calls[i].kind \in {"login", "register", "setup", "verify", "me"}
  /\ strayed' = (strayed \/ (calls[i].kind = "me" /\ calls[i].who = apiToken))
  /\ UNCHANGED <<session, user, loading, loads>>
  /\ Done(i, path)

Settle(i) ==
  \/ ProfileArrives(i) \/ ProfileUnreadable(i) \/ ProfileFails(i)
  \/ Registered(i) \/ LoginAccepted(i)
  \/ MeArrives(i) \/ MeUnreadable(i)
  \/ Verified(i) \/ SetUp(i)
  \/ Refused(i)

Next ==
  \/ \E p \in Visits : Load(p)
  \/ FollowLink
  \/ \E p \in Visits : OpenPage(p)
  \/ \E i \in Slots, a \in Accounts : SubmitLogin(i, a) \/ SubmitRegister(i, a)
  \/ \E i \in Slots : SubmitCode(i) \/ SubmitSetup(i)
  \/ Logout
  \/ \E i \in Slots : Settle(i)

Spec == Init /\ [][Next]_vars

\* A request is answered or its connection breaks.
FairSpec == Spec /\ \A i \in Slots : WF_vars(Settle(i))

-----------------------------------------------------------------------------
(* Properties *)

\* Every variable keeps its type; the user shown is an account or nobody.
TypeOK ==
  /\ {stored, apiToken, token, user} \subseteq Maybe
  /\ {loading, busy, strayed} \subseteq BOOLEAN
  /\ path \in Paths
  /\ calls \in [Slots -> CallType]
  /\ loads \in 0..MaxLoads

\* A profile request in flight for the token the tab holds now.
Asked == \E i \in Slots : calls[i].kind \in {"profile", "me"} /\ calls[i].who = apiToken

\* The three places that hold the token always agree.  Once no profile is asked
\* for under that token, the user on the screen (AuthProvider.user) is its owner,
\* however many requests and logouts overlapped, with three exceptions, which
\* are all the ways the code lets the user stray from the token: the last
\* profile stored was asked for under another token, it was a 200 without a
\* body, or a login lost its profile request.  A loading, a logout or a failed
\* profile ends the exception.
SessionAgrees ==
  /\ apiToken = stored
  /\ token = stored
  /\ ~strayed /\ ~Asked => user = apiToken

\* Who sees a page of server data: whom the server serves it, and the analyst.
Expected(a, p) ==
  \/ RoleOf[a] \in ServerRoles(p)
  \/ RoleOf[a] = "analyst" /\ p = "/audit"

\* A link of Sidebar is offered exactly to those ProtectedRoute lets in; and a
\* page that lists users or events is shown, unless the user has strayed from the
\* token (SessionAgrees) or is asked for, exactly to those whose token the server
\* serves with the list.  The analyst is the one
\* exception: App lets him open the audit page, and the server refuses the list.
DoorsAgree ==
  /\ \A a \in Accounts, p \in Paths \ Public :
       HasRole(a, LinkRoles(p)) <=> HasRole(a, RouteRoles(p))
  /\ (~strayed /\ ~Asked /\ InApp /\ path \in {"/users", "/audit"}) =>
       ((Screen = path) <=> Expected(apiToken, path))

\* The spinner of ProtectedRoute goes away, and a button disabled by a request
\* (isSubmitting, or isLoading of SecurityPage) is enabled again or left behind.
SpinnersEnd == (loading ~> ~loading) /\ (busy ~> ~busy)

\* Why they do, and more: the spinner has a profile request to wait for, and a
\* button is disabled exactly while its form has a request in flight, one and
\* no second, whatever was left, reloaded, refused or logged out meanwhile.
SpinnersAreOwed ==
  /\ loading => \E i \in Slots : calls[i].kind = "profile"
  /\ busy <=> \E i \in Slots : calls[i].mine
  /\ \A i, j \in Slots : calls[i].mine /\ calls[j].mine => i = j
=============================================================================
