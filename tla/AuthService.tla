----------------------------- MODULE AuthService -----------------------------
(***************************************************************************)
(* backend/internal/auth behind the routes of cmd/server/main.go: register *)
(* an account, log in, present the token, set up and verify MFA, over a    *)
(* user store and an audit logger that are either in memory or in          *)
(* PostgreSQL, in a process that crashes, shuts down and starts again.     *)
(*                                                                         *)
(* Where a goroutine stands, pc[c]:                                        *)
(*   "idle"    no request on this connection                               *)
(*   "called"  the request has arrived                                     *)
(*   "hashed"  Register: input valid, password hashed, about to CreateUser *)
(*   "found"   Login: holds a copy of the user, about to compare passwords *)
(*   "claimed" the bearer token is valid, the handler goes to the store    *)
(*   "replied" status, event and body fixed: the event is to be logged,    *)
(*             then the response goes out                                  *)
(***************************************************************************)
EXTENDS Integers, Sequences, FiniteSets

CONSTANTS Conns,          \* the connections
          Calls,          \* the calls clients may make
          Names,          \* usernames, without surrounding blanks
          BadNames,       \* those of fewer than 3 or more than 50 bytes
          Passwords,
          WeakPasswords,  \* shorter than 8 bytes
          LongPasswords,  \* longer than the 72 bytes bcrypt takes
          Accounts,       \* seeded, or in the database, when the process starts
          Durable,        \* DATABASE_URL is set: users and events in PostgreSQL
          Keys,           \* what LoadSigningKey may find: vault or environment
          TokenLife,      \* 24 hours, in ticks of the clock
          MaxClock, MaxCalls, MaxBoots   \* bounds of a behaviour

Roles == {"super_admin", "admin", "security_manager", "developer", "analyst",
          "viewer", "user"}

RawName == [base : Names, padded : BOOLEAN]   \* padded: blanks around it

User == [id : Nat, name : Names, password : Passwords, role : Roles,
         active : BOOLEAN, secret : Nat]
NoSecret == 0                                 \* MFA is not enabled

Token == [jti : Nat, user : Nat, name : Names, role : Roles, exp : Nat, key : Keys]
NoToken == [jti |-> 0]

PublicCall == [kind : {"register"}, raw : RawName, password : Passwords,
               role : Roles \cup {"invalid"}]
              \cup [kind : {"login"}, raw : RawName, password : Passwords]
              \cup [kind : {"garbled"}]
AdminKinds == {"admin-only", "users"}
BearerKinds == AdminKinds \cup {"user-or-admin", "me", "mfa/setup", "mfa/verify"}
BearerCall == [kind : BearerKinds, code : Nat]

ASSUME CallsAssumption == Calls \subseteq PublicCall \cup BearerCall
\* seedDevUsers names its users apart, the table has UNIQUE (username).
ASSUME AccountsAssumption ==
  /\ Accounts \in Seq([name : Names, password : Passwords, role : Roles,
                       active : BOOLEAN, secret : Nat])
  /\ \A j, k \in 1 .. Len(Accounts) : Accounts[j].name = Accounts[k].name => j = k
ASSUME KindsAssumption ==
  /\ BadNames \subseteq Names
  /\ WeakPasswords \cup LongPasswords \subseteq Passwords
  /\ Durable \in BOOLEAN
ASSUME BoundsAssumption ==
  TokenLife \in Nat /\ MaxClock \in Nat /\ MaxCalls \in Nat /\ MaxBoots \in Nat

VARIABLES users,     \* the user store
          nextID,    \* the next UUID: of a user, a token, a secret or an event
          key,       \* Service.signingKey
          clock,
          trail,     \* audit events on record
          writing,   \* events in the hands of PostgresLogger's goroutines
          draining,  \* srv.Shutdown was called
          pc, op,
          bearer,    \* the token presented
          found,     \* the copy of a user the store returned
          status,    \* of the response
          due,       \* what is still to be logged and to be handed over
          issued,    \* tokens clients have received
          handed,    \* secrets clients have received from /mfa/setup
          calls, boots

store   == <<users, nextID>>
process == <<key, draining>>
log     == <<trail, writing>>
local   == <<op, bearer, found, status, due>>
client  == <<issued, handed>>
bound   == <<calls, boots>>
vars    == <<store, process, clock, log, pc, local, client, bound>>

\* via is history: the jti of the token a LOGIN_SUCCESS goes with, the secret
\* whose code was presented to MFAVerify, 0 elsewhere.  No event carries it.
Event == [id : Nat, action : {"USER_REGISTERED", "LOGIN_SUCCESS", "LOGIN_FAILED",
                              "MFA_SUCCESS", "MFA_FAILED"},
          user : Nat, via : Nat]

NobodyID == 0
Nothing  == [events |-> {}, tokens |-> {}, secrets |-> {}]
NoUser   == [id |-> NobodyID]
AnyCall  == [kind |-> "garbled"]

\* CreateUser for each of the accounts, the ids counted from first.
Seeded(first) ==
  {[id |-> first + k - 1, name |-> Accounts[k].name,
    password |-> Accounts[k].password, role |-> Accounts[k].role,
    active |-> Accounts[k].active, secret |-> Accounts[k].secret]
   : k \in 1 .. Len(Accounts)}

Init ==
  /\ users = Seeded(1)
  /\ nextID = 1 + Len(Accounts)
  /\ key \in Keys
  /\ clock = 0
  /\ trail = {} /\ writing = {}
  /\ draining = FALSE
  /\ pc = [c \in Conns |-> "idle"]
  /\ op = [c \in Conns |-> AnyCall]
  /\ bearer = [c \in Conns |-> NoToken]
  /\ found = [c \in Conns |-> NoUser]
  /\ status = [c \in Conns |-> 0]
  /\ due = [c \in Conns |-> Nothing]
  /\ issued = {} /\ handed = {}
  /\ calls = 0 /\ boots = 0

Goto(c, label) == pc' = [pc EXCEPT ![c] = label]

Reply(c, code, things) ==
  /\ status' = [status EXCEPT ![c] = code]
  /\ due' = [due EXCEPT ![c] = things]
  /\ Goto(c, "replied")

Logging(action, user, via) ==
  [Nothing EXCEPT !.events =
    {[id |-> nextID, action |-> action, user |-> user, via |-> via]}]

\* A query may fail, but only where there is a database.
Outage == Durable

-----------------------------------------------------------------------------
(* The router.                                                             *)

\* The codes a client can compute: one per secret, and 0 for a malformed one.
Codes == {0} \cup {h.secret : h \in handed} \cup {u.secret : u \in users}

Receive(c) ==
  /\ pc[c] = "idle" /\ ~draining
  /\ calls < MaxCalls
  /\ calls' = calls + 1
  /\ \E call \in Calls :
       IF call.kind \in BearerKinds
         THEN /\ \E t \in issued \cup {NoToken} : bearer' = [bearer EXCEPT ![c] = t]
              /\ \E n \in IF call.kind = "mfa/verify" THEN Codes ELSE {0} :
                   op' = [op EXCEPT ![c] = [call EXCEPT !.code = n]]
         ELSE /\ bearer' = [bearer EXCEPT ![c] = NoToken]
              /\ op' = [op EXCEPT ![c] = call]
  /\ Goto(c, "called")
  /\ UNCHANGED <<store, process, clock, log, found, status, due, client, boots>>

\* A body that is not JSON: 400 and no event.
Garbled(c) ==
  /\ pc[c] = "called" /\ op[c].kind = "garbled"
  /\ Reply(c, 400, Nothing)
  /\ UNCHANGED <<store, process, clock, log, op, bearer, found, client, bound>>

-----------------------------------------------------------------------------
(* POST /auth/register.                                                    *)

BadInput(call) == \/ call.raw.base \in BadNames
                  \/ call.password \in WeakPasswords
                  \/ call.role \notin Roles

\* Whatever went wrong, the handler logs an event that names no account.
RefuseRegistration(c, code) ==
  /\ Reply(c, code, Logging("USER_REGISTERED", NobodyID, 0))
  /\ nextID' = nextID + 1

\* Service.Register up to the hash.
Validate(c) ==
  /\ pc[c] = "called" /\ op[c].kind = "register"
  /\ \/ /\ BadInput(op[c])
        /\ RefuseRegistration(c, 400)
     \/ /\ ~BadInput(op[c]) /\ op[c].password \in LongPasswords
        /\ RefuseRegistration(c, 500)
     \/ /\ ~BadInput(op[c]) /\ op[c].password \notin LongPasswords
        /\ Goto(c, "hashed")
        /\ UNCHANGED <<nextID, status, due>>
  /\ UNCHANGED <<users, process, clock, log, op, bearer, found, client, bound>>

Named(name) == {u \in users : u.name = name}

NewUser(call, id) ==
  [id |-> id, name |-> call.raw.base, password |-> call.password,
   role |-> call.role, active |-> TRUE, secret |-> NoSecret]

\* Fault: the store relies on a check made before the password was hashed.
CreateUnchecked(c) ==
  /\ pc[c] = "hashed"
  /\ users' = users \cup {NewUser(op[c], nextID)}
  /\ nextID' = nextID + 2
  /\ Reply(c, 201, [Nothing EXCEPT !.events =
       {[id |-> nextID + 1, action |-> "USER_REGISTERED", user |-> nextID, via |-> 0]}])
  /\ UNCHANGED <<process, clock, log, op, bearer, found, client, bound>>

\* Fault: the error of CreateUser is dropped.
CreateAssumed(c) ==
  /\ pc[c] = "hashed"
  /\ users' \in {users} \cup (IF Named(op[c].raw.base) = {}
                              THEN {users \cup {NewUser(op[c], nextID)}} ELSE {})
  /\ nextID' = nextID + 2
  /\ Reply(c, 201, [Nothing EXCEPT !.events =
       {[id |-> nextID + 1, action |-> "USER_REGISTERED", user |-> nextID, via |-> 0]}])
  /\ UNCHANGED <<process, clock, log, op, bearer, found, client, bound>>

\* UserStore.CreateUser: under the lock, or by the UNIQUE constraint.
Created(c) ==
  /\ Named(op[c].raw.base) = {}
  /\ users' = users \cup {NewUser(op[c], nextID)}
  /\ nextID' = nextID + 2
  /\ Reply(c, 201, [Nothing EXCEPT !.events =
       {[id |-> nextID + 1, action |-> "USER_REGISTERED", user |-> nextID, via |-> 0]}])

NameTaken(c) ==
  /\ Named(op[c].raw.base) # {}
  /\ RefuseRegistration(c, 409)
  /\ UNCHANGED users

\* The database does not answer, or no longer: then the row may be in.
CreateFails(c) ==
  /\ Outage
  /\ users' \in {users} \cup (IF Named(op[c].raw.base) = {}
                              THEN {users \cup {NewUser(op[c], nextID + 1)}} ELSE {})
  /\ nextID' = nextID + 2
  /\ Reply(c, 500, Logging("USER_REGISTERED", NobodyID, 0))

Create(c) ==
  /\ pc[c] = "hashed"
  /\ Created(c) \/ NameTaken(c) \/ CreateFails(c)
  /\ UNCHANGED <<process, clock, log, op, bearer, found, client, bound>>

-----------------------------------------------------------------------------
(* POST /auth/login.                                                       *)

RefuseLogin(c) ==
  /\ Reply(c, 401, Logging("LOGIN_FAILED", NobodyID, 0))
  /\ nextID' = nextID + 1

\* GetUserByUsername with the name as it was typed; any error is a 401.
Lookup(c) ==
  /\ pc[c] = "called" /\ op[c].kind = "login"
  /\ LET hits == IF op[c].raw.padded THEN {} ELSE Named(op[c].raw.base)
     IN  \/ \E u \in hits : /\ found' = [found EXCEPT ![c] = u]
                            /\ Goto(c, "found")
                            /\ UNCHANGED <<nextID, status, due>>
         \/ /\ hits = {} \/ Outage
            /\ RefuseLogin(c)
            /\ UNCHANGED found
  /\ UNCHANGED <<users, process, clock, log, op, bearer, client, bound>>

TokenFor(u) ==
  [jti |-> nextID, user |-> u.id, name |-> u.name, role |-> u.role,
   exp |-> clock + TokenLife, key |-> key]

\* Fault: the status of the account is not looked at.
VerifyAnyStatus(c) ==
  /\ pc[c] = "found"
  /\ \/ /\ op[c].password # found[c].password
        /\ RefuseLogin(c)
     \/ /\ op[c].password = found[c].password
        /\ Reply(c, 200,
             [Nothing EXCEPT !.tokens = {TokenFor(found[c])},
                             !.events = {[id |-> nextID + 1, action |-> "LOGIN_SUCCESS",
                                          user |-> found[c].id, via |-> nextID]}])
        /\ nextID' = nextID + 2
  /\ UNCHANGED <<users, process, clock, log, op, bearer, found, client, bound>>

\* bcrypt, the status of the account, generateJWT.
Verify(c) ==
  /\ pc[c] = "found"
  /\ \/ /\ op[c].password # found[c].password \/ ~found[c].active
        /\ RefuseLogin(c)
     \/ /\ op[c].password = found[c].password /\ found[c].active
        /\ Reply(c, 200,
             [Nothing EXCEPT !.tokens = {TokenFor(found[c])},
                             !.events = {[id |-> nextID + 1, action |-> "LOGIN_SUCCESS",
                                          user |-> found[c].id, via |-> nextID]}])
        /\ nextID' = nextID + 2
  /\ UNCHANGED <<users, process, clock, log, op, bearer, found, client, bound>>

-----------------------------------------------------------------------------
(* The routes that need a bearer token.                                    *)

\* ValidateToken: the signature, the expiry (the issuer is always NEXUS).
Valid(t) == t # NoToken /\ t.key = key /\ clock < t.exp

Admitted(c) == op[c].kind \in AdminKinds => bearer[c].role \in {"admin", "super_admin"}

\* AdminOnly and UserOrAdmin: the claims are all they need.
Greet(c) ==
  /\ op[c].kind \in {"admin-only", "user-or-admin"}
  /\ Reply(c, 200, Nothing)
  /\ UNCHANGED nextID

\* A new secret goes to the client and nowhere else.
MFASetup(c) ==
  /\ op[c].kind = "mfa/setup"
  /\ Reply(c, 200, [Nothing EXCEPT !.secrets =
       {[user |-> bearer[c].user, secret |-> nextID]}])
  /\ nextID' = nextID + 1

\* RequireAuth, then RequireRole(admin) on the routes of administrators.
Authorize(c) ==
  /\ pc[c] = "called" /\ op[c].kind \in BearerKinds
  /\ \/ /\ ~Valid(bearer[c])
        /\ Reply(c, 401, Nothing)
        /\ UNCHANGED nextID
     \/ /\ Valid(bearer[c]) /\ ~Admitted(c)
        /\ Reply(c, 403, Nothing)
        /\ UNCHANGED nextID
     \/ /\ Valid(bearer[c]) /\ Admitted(c)
        /\ \/ Greet(c)
           \/ MFASetup(c)
           \/ /\ op[c].kind \in {"me", "users", "mfa/verify"}
              /\ Goto(c, "claimed")
              /\ UNCHANGED <<nextID, status, due>>
  /\ UNCHANGED <<users, process, clock, log, op, bearer, found, client, bound>>

Account(id) == {u \in users : u.id = id}

\* GET /auth/me: any error of the store is a 404.
Me(c) ==
  /\ op[c].kind = "me"
  /\ \/ /\ Account(bearer[c].user) # {}
        /\ Reply(c, 200, Nothing)
     \/ /\ Account(bearer[c].user) = {} \/ Outage
        /\ Reply(c, 404, Nothing)

ListUsers(c) ==
  /\ op[c].kind = "users"
  /\ \/ Reply(c, 200, Nothing)
     \/ Outage /\ Reply(c, 500, Nothing)

ReadStore(c) ==
  /\ pc[c] = "claimed"
  /\ Me(c) \/ ListUsers(c)
  /\ UNCHANGED <<store, process, clock, log, op, bearer, found, client, bound>>

\* Fault: an enrolled account may also use a secret of /mfa/setup not stored yet.
MFAVerifyPending(c) ==
  /\ pc[c] = "claimed" /\ op[c].kind = "mfa/verify"
  /\ \E u \in Account(bearer[c].user) :
       IF /\ u.secret # NoSecret
          /\ \/ u.secret = op[c].code
             \/ [user |-> u.id, secret |-> op[c].code] \in handed
         THEN Reply(c, 200, Logging("MFA_SUCCESS", u.id, op[c].code))
         ELSE Reply(c, 401, Logging("MFA_FAILED", u.id, op[c].code))
  /\ nextID' = nextID + 1
  /\ UNCHANGED <<users, process, clock, log, op, bearer, found, client, bound>>

\* POST /mfa/verify: the code is checked against the stored secret and the
\* outcome is logged; nothing is stored.  Code 0 has not six digits.
MFAVerify(c) ==
  /\ pc[c] = "claimed" /\ op[c].kind = "mfa/verify"
  /\ \/ /\ op[c].code = 0
        /\ Reply(c, 400, Nothing)
        /\ UNCHANGED nextID
     \/ /\ op[c].code # 0
        /\ Account(bearer[c].user) = {} \/ Outage
        /\ Reply(c, 404, Nothing)
        /\ UNCHANGED nextID
     \/ /\ op[c].code # 0
        /\ \E u \in Account(bearer[c].user) :
             \/ /\ u.secret = NoSecret
                /\ Reply(c, 400, Nothing)
                /\ UNCHANGED nextID
             \/ /\ u.secret # NoSecret
                /\ IF u.secret = op[c].code
                     THEN Reply(c, 200, Logging("MFA_SUCCESS", u.id, op[c].code))
                     ELSE Reply(c, 401, Logging("MFA_FAILED", u.id, op[c].code))
                /\ nextID' = nextID + 1
  /\ UNCHANGED <<users, process, clock, log, op, bearer, found, client, bound>>

-----------------------------------------------------------------------------
(* The end of a request, and the loggers.                                  *)

\* auditLogger.Log.  MemoryLogger has the event on record when Log returns;
\* PostgresLogger has started a goroutine that will insert it.
Log(c) ==
  /\ pc[c] = "replied" /\ due[c].events # {}
  /\ IF Durable
       THEN writing' = writing \cup due[c].events /\ UNCHANGED trail
       ELSE trail' = trail \cup due[c].events /\ UNCHANGED writing
  /\ due' = [due EXCEPT ![c].events = {}]
  /\ UNCHANGED <<store, process, clock, pc, op, bearer, found, status, client, bound>>

\* Fault: the response is written before Log is called.
AnswerBeforeLog(c) ==
  /\ pc[c] = "replied"
  /\ issued' = issued \cup due[c].tokens
  /\ handed' = handed \cup due[c].secrets
  /\ due' = [due EXCEPT ![c].tokens = {}, ![c].secrets = {}]
  /\ IF due[c].events = {} THEN Goto(c, "idle") ELSE UNCHANGED pc
  /\ UNCHANGED <<store, process, clock, log, op, bearer, found, status, bound>>

\* The client has the response.  Register writes a refusal before it logs it, but
\* net/http holds so short a body back until the handler has returned.
\* The goroutine's variables go with the handler.
Answer(c) ==
  /\ pc[c] = "replied" /\ due[c].events = {}
  /\ issued' = issued \cup due[c].tokens
  /\ handed' = handed \cup due[c].secrets
  /\ due' = [due EXCEPT ![c] = Nothing]
  /\ op' = [op EXCEPT ![c] = AnyCall]
  /\ bearer' = [bearer EXCEPT ![c] = NoToken]
  /\ found' = [found EXCEPT ![c] = NoUser]
  /\ status' = [status EXCEPT ![c] = 0]
  /\ Goto(c, "idle")
  /\ UNCHANGED <<store, process, clock, log, bound>>

\* The INSERT succeeds, or fails and is only written to the console.
Insert(e) ==
  /\ e \in writing
  /\ writing' = writing \ {e}
  /\ trail' \in {trail, trail \cup {e}}
  /\ UNCHANGED <<store, process, clock, pc, local, client, bound>>

-----------------------------------------------------------------------------
(* The process.                                                            *)

Tick ==
  /\ clock < MaxClock
  /\ clock' = clock + 1
  /\ UNCHANGED <<store, process, log, pc, local, client, bound>>

\* main: memory stores start empty and are seeded, the database is as it was,
\* the signing key is loaded anew; whatever was under way is gone.
Start ==
  /\ boots < MaxBoots
  /\ boots' = boots + 1
  /\ key' \in Keys
  /\ draining' = FALSE
  /\ pc' = [c \in Conns |-> "idle"]
  /\ writing' = {}
  /\ IF Durable
       THEN UNCHANGED <<users, nextID, trail>>
       ELSE /\ users' = Seeded(nextID)
            /\ nextID' = nextID + Len(Accounts)
            /\ trail' = {}
  /\ UNCHANGED <<clock, local, client, calls>>

Drained == draining /\ \A c \in Conns : pc[c] = "idle"

\* The process is killed, or Shutdown gives up after 30 s, and it starts again.
Crash == ~Drained /\ Start

\* SIGTERM: srv.Shutdown takes no new requests and waits for those under way.
Terminate ==
  /\ ~draining
  /\ boots < MaxBoots
  /\ draining' = TRUE
  /\ UNCHANGED <<store, key, clock, log, pc, local, client, bound>>

\* Shutdown returns, main returns, the process ends and is started again.
Exit == Drained /\ Start

Register(c)  == Validate(c) \/ Create(c)
Login(c)     == Lookup(c) \/ Verify(c)
Protected(c) == Authorize(c) \/ ReadStore(c) \/ MFAVerify(c)
Handle(c)    == \/ Garbled(c) \/ Register(c) \/ Login(c) \/ Protected(c)
                \/ Log(c) \/ Answer(c)

Next == \/ \E c \in Conns : Receive(c) \/ Handle(c)
        \/ \E e \in writing : Insert(e)
        \/ Tick \/ Crash \/ Terminate \/ Exit

Spec == Init /\ [][Next]_vars

-----------------------------------------------------------------------------
(* Properties.                                                             *)

\* Every variable ranges over the values the code can give it.
TypeOK ==
  /\ users \subseteq User
  /\ nextID \in Nat \ {0}
  /\ key \in Keys
  /\ clock \in 0 .. MaxClock
  /\ trail \subseteq Event /\ writing \subseteq Event
  /\ draining \in BOOLEAN
  /\ pc \in [Conns -> {"idle", "called", "hashed", "found", "claimed", "replied"}]
  /\ op \in [Conns -> PublicCall \cup BearerCall]
  /\ bearer \in [Conns -> Token \cup {NoToken}]
  /\ found \in [Conns -> User \cup {NoUser}]
  /\ status \in [Conns -> {0, 200, 201, 400, 401, 403, 404, 409, 500}]
  /\ due \in [Conns -> [events : SUBSET Event, tokens : SUBSET Token,
                        secrets : SUBSET [user : Nat, secret : Nat]]]
  /\ issued \subseteq Token
  /\ handed \subseteq [user : Nat, secret : Nat]
  /\ calls \in 0 .. MaxCalls /\ boots \in 0 .. MaxBoots

Replying == {c \in Conns : pc[c] = "replied"}
Owed     == UNION {due[c].events : c \in Replying}
OnRecord == trail \cup writing \cup Owed
Tokens   == issued \cup UNION {due[c].tokens : c \in Replying}

\* Of two registrations of one username, however they interleave, one wins:
\* CreateUser looks and inserts in one step.
NamesUnique ==
  \A u, v \in users : u.name = v.name \/ u.id = v.id => u = v

\* An event that names an account was not written for an account that does
\* not exist, also when CreateUser fails.
EventsAreTrue ==
  \A e \in OnRecord : e.user # NobodyID => Account(e.user) # {}

\* interview_prep.md:64, "An audit event USER_REGISTERED is recorded": every
\* account beyond those the process found at its start is on record, or its
\* handler is about to put it there.
Registrations == {e \in OnRecord : e.action = "USER_REGISTERED" /\ e.user # NobodyID}

AccountsMatchTrail ==
  Cardinality(users) = Len(Accounts) + Cardinality(Registrations)

\* A token says who its holder is, for as long as the account exists: nobody
\* holds a token with a role, or for an account, he could not log in with.
TokensTellTheTruth ==
  \A t \in Tokens : \A u \in Account(t.user) :
    t.name = u.name /\ t.role = u.role /\ u.active

\* e is the record of the login that issued t.
Tells(e, t) == e.action = "LOGIN_SUCCESS" /\ e.via = t.jti /\ e.user = t.user

\* Nobody acts with a token whose issue is not on record: Login logs before
\* it answers, so no other request can carry the token before the event, and a
\* process that dies between the two leaves the event and no token.
TokensOnRecord ==
  \A t \in issued : Account(t.user) # {} => \E e \in trail : Tells(e, t)

\* mfa_handler.go:22, "validated against the user's stored MFA secret": a code
\* that was taken is one of the secret stored with the account of the token.
\* A secret that setup handed out and nobody stored proves nothing, also for an
\* account with another one in the store, nor does the secret of somebody else.
SecondFactorIsStored ==
  \A e \in OnRecord : e.action = "MFA_SUCCESS" =>
    \E u \in Account(e.user) : u.secret # NoSecret /\ u.secret = e.via

NewReply(c, code) ==
  pc[c] # "replied" /\ pc'[c] = "replied" /\ status'[c] = code

\* interview_prep.md:13, "This ... gives in-flight HTTP requests and background
\* database operations time to complete before closing the process".
ShutdownCompletesInserts ==
  [][Drained /\ boots' # boots => writing = {}]_vars

\* interview_prep.md:84-86, setup hands out a secret, verify validates the code
\* and "mfa_enabled is set to true": the code of a secret from setup is good.
EnrolmentWorks ==
  [][\A c \in Conns :
       /\ op[c].kind = "mfa/verify" /\ bearer[c] # NoToken
       /\ [user |-> bearer[c].user, secret |-> op[c].code] \in handed
       => ~NewReply(c, 400)]_vars
=============================================================================
