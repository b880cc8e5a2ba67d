-------------------------- MODULE AuthServiceProofs --------------------------
(***************************************************************************)
(* Proofs about AuthService, for any connections, calls, accounts and      *)
(* bounds, over either store.                                              *)
(***************************************************************************)
EXTENDS AuthService, TLAPS, FiniteSetTheorems

Due == [events : SUBSET Event, tokens : SUBSET Token,
        secrets : SUBSET [user : Nat, secret : Nat]]

Statuses == {0, 200, 201, 400, 401, 403, 404, 409, 500}
Labels   == {"idle", "called", "hashed", "found", "claimed", "replied"}

-----------------------------------------------------------------------------
(* The records.                                                            *)

\* The event a handler writes is an event, and has the fields it is given.
LEMMA EventMade ==
  ASSUME NEW id \in Nat, NEW user \in Nat, NEW via \in Nat,
         NEW action \in {"USER_REGISTERED", "LOGIN_SUCCESS", "LOGIN_FAILED",
                         "MFA_SUCCESS", "MFA_FAILED"}
  PROVE  [id |-> id, action |-> action, user |-> user, via |-> via] \in Event
BY DEF Event

\* What a Reply owes: nothing, one event, one secret, or a token with its event.
LEMMA NothingMade ==
  /\ Nothing \in Due
  /\ Nothing.events = {} /\ Nothing.tokens = {} /\ Nothing.secrets = {}
BY DEF Nothing, Due

\* A Reply that owes events and nothing else.
LEMMA EventsMade ==
  ASSUME NEW E \in SUBSET Event
  PROVE  /\ [Nothing EXCEPT !.events = E] \in Due
         /\ [Nothing EXCEPT !.events = E].events = E
         /\ [Nothing EXCEPT !.events = E].tokens = {}
         /\ [Nothing EXCEPT !.events = E].secrets = {}
BY DEF Nothing, Due

\* The event of auditLogger.Log, under the id that was just drawn.
LEMMA LoggingMade ==
  ASSUME nextID \in Nat, NEW user \in Nat, NEW via \in Nat,
         NEW action \in {"USER_REGISTERED", "LOGIN_SUCCESS", "LOGIN_FAILED",
                         "MFA_SUCCESS", "MFA_FAILED"}
  PROVE  /\ Logging(action, user, via) \in Due
         /\ Logging(action, user, via).events =
              {[id |-> nextID, action |-> action, user |-> user, via |-> via]}
         /\ Logging(action, user, via).tokens = {}
         /\ Logging(action, user, via).secrets = {}
<1> DEFINE e == [id |-> nextID, action |-> action, user |-> user, via |-> via]
<1>1. e \in Event
  BY EventMade
<1>2. Logging(action, user, via) = [Nothing EXCEPT !.events = {e}]
  BY DEF Logging
<1> HIDE DEF e
<1>3. {e} \in SUBSET Event
  BY <1>1
<1>4. /\ Logging(action, user, via) \in Due
      /\ Logging(action, user, via).events = {e}
      /\ Logging(action, user, via).tokens = {}
      /\ Logging(action, user, via).secrets = {}
  BY <1>2, <1>3, EventsMade
<1>5. QED
  BY <1>4 DEF e

\* A Reply that hands out a secret.
LEMMA SecretsMade ==
  ASSUME NEW S \in SUBSET [user : Nat, secret : Nat]
  PROVE  /\ [Nothing EXCEPT !.secrets = S] \in Due
         /\ [Nothing EXCEPT !.secrets = S].events = {}
         /\ [Nothing EXCEPT !.secrets = S].tokens = {}
         /\ [Nothing EXCEPT !.secrets = S].secrets = S
BY DEF Nothing, Due

\* A Reply that hands out a token, with the event of its login.
LEMMA TokensMade ==
  ASSUME NEW T \in SUBSET Token, NEW E \in SUBSET Event
  PROVE  /\ [Nothing EXCEPT !.tokens = T, !.events = E] \in Due
         /\ [Nothing EXCEPT !.tokens = T, !.events = E].events = E
         /\ [Nothing EXCEPT !.tokens = T, !.events = E].tokens = T
         /\ [Nothing EXCEPT !.tokens = T, !.events = E].secrets = {}
BY DEF Nothing, Due

\* A token for an account says what the account says.
LEMMA TokenMade ==
  ASSUME nextID \in Nat, clock \in Nat, key \in Keys, NEW u \in User
  PROVE  /\ TokenFor(u) \in Token
         /\ TokenFor(u).jti = nextID /\ TokenFor(u).user = u.id
         /\ TokenFor(u).name = u.name /\ TokenFor(u).role = u.role
BY BoundsAssumption DEF TokenFor, Token, User

\* What Create inserts is an account that is not enrolled.
LEMMA UserMade ==
  ASSUME NEW call \in PublicCall \cup BearerCall, call.kind = "register",
         call.role \in Roles, NEW id \in Nat
  PROVE  /\ NewUser(call, id) \in User
         /\ NewUser(call, id).id = id /\ NewUser(call, id).name = call.raw.base
BY DEF NewUser, PublicCall, BearerCall, BearerKinds, AdminKinds, RawName, User, NoSecret

\* CreateUser for each account at the start: accounts with fresh ids, which
\* are as distinct as the names.
LEMMA SeededMade ==
  ASSUME NEW first \in Nat
  PROVE  /\ Seeded(first) \subseteq User
         /\ \A u \in Seeded(first) : first <= u.id /\ u.id < first + Len(Accounts)
         /\ \A u, v \in Seeded(first) : u.name = v.name \/ u.id = v.id => u = v
<1> DEFINE Acc(k) == [id |-> first + k - 1, name |-> Accounts[k].name,
                      password |-> Accounts[k].password, role |-> Accounts[k].role,
                      active |-> Accounts[k].active, secret |-> Accounts[k].secret]
<1>0. Len(Accounts) \in Nat
  BY AccountsAssumption
<1>1. \A k \in 1 .. Len(Accounts) :
        /\ Acc(k) \in User
        /\ Acc(k).id = first + k - 1 /\ Acc(k).name = Accounts[k].name
  <2>1. TAKE k \in 1 .. Len(Accounts)
  <2> DEFINE A == [name : Names, password : Passwords, role : Roles,
                   active : BOOLEAN, secret : Nat]
  <2>a. Accounts \in Seq(A)
    BY AccountsAssumption
  <2> HIDE DEF A
  <2>b. Accounts[k] \in A
    BY <2>a
  <2> USE DEF A
  <2>2. PICK a \in A : a = Accounts[k]
    BY <2>b
  <2>3. /\ a.name \in Names /\ a.password \in Passwords /\ a.role \in Roles
        /\ a.active \in BOOLEAN /\ a.secret \in Nat
    OBVIOUS
  <2>4. first + k - 1 \in Nat
    OBVIOUS
  <2>5. QED
    BY <2>2, <2>3, <2>4 DEF User
<1>2. \A u \in Seeded(first) : \E k \in 1 .. Len(Accounts) : u = Acc(k)
  BY DEF Seeded
<1> HIDE DEF Acc
<1>3. Seeded(first) \subseteq User
  BY <1>1, <1>2
<1>4. \A u \in Seeded(first) : first <= u.id /\ u.id < first + Len(Accounts)
  BY <1>0, <1>1, <1>2
<1>5. \A u, v \in Seeded(first) : u.name = v.name \/ u.id = v.id => u = v
  BY <1>0, <1>1, <1>2, AccountsAssumption
<1>6. QED
  BY <1>3, <1>4, <1>5

-----------------------------------------------------------------------------
(* What a step of a handler does to the goroutine's own variables, and to  *)
(* what all the goroutines owe.                                            *)

OwedTokens == UNION {due[c].tokens : c \in Replying}

\* In memory, every goroutine that owes a token owes the event that tells of it,
\* or has put it on record.
DueInv ==
  \A c \in Replying : \A t \in due[c].tokens :
    Durable \/ \E e \in due[c].events \cup trail : Tells(e, t)

\* The members of Owed and of OwedTokens, before a step and after it.
LEMMA OwedMembers ==
  /\ \A e : e \in Owed <=> \E c \in Conns : pc[c] = "replied" /\ e \in due[c].events
  /\ \A e : e \in Owed' <=> \E c \in Conns : pc'[c] = "replied" /\ e \in due'[c].events
  /\ \A t : t \in OwedTokens <=> \E c \in Conns : pc[c] = "replied" /\ t \in due[c].tokens
  /\ \A t : t \in OwedTokens' <=>
              \E c \in Conns : pc'[c] = "replied" /\ t \in due'[c].tokens
BY DEF Owed, OwedTokens, Replying

\* Reply adds what it owes to what is owed.
LEMMA ReplyEffect ==
  ASSUME TypeOK, NEW c \in Conns, pc[c] # "replied",
         NEW code \in Statuses, NEW things \in Due, Reply(c, code, things),
         UNCHANGED trail
  PROVE  /\ pc' \in [Conns -> Labels] /\ status' \in [Conns -> Statuses]
         /\ due' \in [Conns -> Due]
         /\ pc' = [pc EXCEPT ![c] = "replied"]
         /\ Owed' = Owed \cup things.events
         /\ OwedTokens' = OwedTokens \cup things.tokens
         /\ DueInv /\ (\A t \in things.tokens : \E e \in things.events :
                          Tells(e, t))
              => DueInv'
<1>1. /\ pc \in [Conns -> Labels] /\ status \in [Conns -> Statuses]
      /\ due \in [Conns -> Due]
  BY DEF TypeOK, Labels, Statuses, Due
<1>2. /\ pc' = [pc EXCEPT ![c] = "replied"]
      /\ status' = [status EXCEPT ![c] = code]
      /\ due' = [due EXCEPT ![c] = things]
  BY DEF Reply, Goto
<1>3. /\ pc' \in [Conns -> Labels] /\ status' \in [Conns -> Statuses]
      /\ due' \in [Conns -> Due]
  BY <1>1, <1>2 DEF Labels
<1>4. /\ pc'[c] = "replied" /\ due'[c] = things
      /\ \A d \in Conns \ {c} : pc'[d] = pc[d] /\ due'[d] = due[d]
  BY <1>1, <1>2
<1>5. Owed' = Owed \cup things.events
  BY <1>4, OwedMembers
<1>6. OwedTokens' = OwedTokens \cup things.tokens
  BY <1>4, OwedMembers
<1>7. ASSUME DueInv,
             \A t \in things.tokens : \E e \in things.events :
               Tells(e, t)
      PROVE  DueInv'
  <2>1. ASSUME NEW d \in Conns, pc'[d] = "replied", NEW t \in due'[d].tokens
        PROVE  Durable \/ \E e \in due'[d].events \cup trail' : Tells(e, t)
    <3>1. CASE d = c
      BY <1>4, <1>7, <2>1, <3>1
    <3>2. CASE d # c
      BY <1>4, <1>7, <2>1, <3>2 DEF DueInv, Replying
    <3>3. QED
      BY <3>1, <3>2
  <2>2. QED
    BY <2>1 DEF DueInv, Replying
<1>8. QED
  BY <1>2, <1>3, <1>5, <1>6, <1>7

\* A step of the handler before its reply changes nothing that is owed.
LEMMA GotoEffect ==
  ASSUME TypeOK, NEW c \in Conns, pc[c] # "replied",
         NEW label \in Labels \ {"replied"}, Goto(c, label), UNCHANGED <<due, trail>>
  PROVE  /\ pc' \in [Conns -> Labels] /\ pc' = [pc EXCEPT ![c] = label]
         /\ Owed' = Owed /\ OwedTokens' = OwedTokens
         /\ DueInv => DueInv'
<1>1. pc \in [Conns -> Labels]
  BY DEF TypeOK, Labels
<1>2. pc' = [pc EXCEPT ![c] = label]
  BY DEF Goto
<1>3. pc'[c] = label /\ \A d \in Conns \ {c} : pc'[d] = pc[d]
  BY <1>1, <1>2
<1>4. pc' \in [Conns -> Labels]
  BY <1>1, <1>2
<1>5. Replying' = Replying
  BY <1>3 DEF Replying
<1>6. Owed' = Owed /\ OwedTokens' = OwedTokens
  BY <1>5 DEF Owed, OwedTokens
<1>7. DueInv => DueInv'
  BY <1>5 DEF DueInv
<1>8. QED
  BY <1>2, <1>4, <1>6, <1>7

\* Where no goroutine moves, what is owed stays owed.
LEMMA IdleEffect ==
  ASSUME UNCHANGED <<pc, due>>, trail \subseteq trail'
  PROVE  /\ Owed' = Owed /\ OwedTokens' = OwedTokens
         /\ DueInv => DueInv'
BY DEF Owed, OwedTokens, Replying, DueInv

-----------------------------------------------------------------------------
(* Types.                                                                  *)

\* Where a goroutine stands, it has what it needs there: a checked role, a copy
\* of an account that is in the store.
StandInv ==
  \A c \in Conns :
    /\ pc[c] = "hashed" => op[c].kind = "register" /\ op[c].role \in Roles
    /\ pc[c] = "found" => found[c] \in users

\* The first state is well typed.
LEMMA InitType == Init => TypeOK
<1> SUFFICES ASSUME Init PROVE TypeOK
  OBVIOUS
<1>1. users \subseteq User /\ nextID \in Nat \ {0}
  BY SeededMade, AccountsAssumption DEF Init
<1>2. AnyCall \in PublicCall \cup BearerCall
  BY DEF AnyCall, PublicCall
<1>3. due \in [Conns -> Due]
  BY NothingMade DEF Init
<1>4. clock \in 0 .. MaxClock /\ calls \in 0 .. MaxCalls /\ boots \in 0 .. MaxBoots
  BY BoundsAssumption DEF Init
<1>5. /\ pc \in [Conns -> {"idle", "called", "hashed", "found", "claimed", "replied"}]
      /\ status \in [Conns -> {0, 200, 201, 400, 401, 403, 404, 409, 500}]
  BY DEF Init
<1>6. /\ op \in [Conns -> PublicCall \cup BearerCall]
      /\ bearer \in [Conns -> Token \cup {NoToken}]
      /\ found \in [Conns -> User \cup {NoUser}]
  BY <1>2 DEF Init
<1>7. /\ key \in Keys /\ draining \in BOOLEAN /\ trail \subseteq Event /\ writing \subseteq Event
      /\ issued \subseteq Token /\ handed \subseteq [user : Nat, secret : Nat]
  BY DEF Init
<1>8. QED
  BY <1>1, <1>3, <1>4, <1>5, <1>6, <1>7 DEF TypeOK, Due

\* The codes a client can send are numbers.
LEMMA CodesType == TypeOK => Codes \subseteq Nat
BY DEF TypeOK, Codes, User

\* A request as it arrives.
LEMMA ReceiveCall ==
  ASSUME NEW call \in Calls, NEW n \in Nat
  PROVE  /\ call \in PublicCall \cup BearerCall
         /\ call.kind \in BearerKinds => [call EXCEPT !.code = n] \in BearerCall
BY CallsAssumption DEF PublicCall, BearerCall, BearerKinds, AdminKinds

\* A call that comes in is one of the routes, with a token that was issued or none.
LEMMA ReceiveType ==
  ASSUME TypeOK, NEW c \in Conns, Receive(c)
  PROVE  /\ op' \in [Conns -> PublicCall \cup BearerCall]
         /\ bearer' \in [Conns -> Token \cup {NoToken}]
         /\ op' = [op EXCEPT ![c] = op'[c]]
<1>1. PICK call \in Calls :
        IF call.kind \in BearerKinds
          THEN /\ \E t \in issued \cup {NoToken} : bearer' = [bearer EXCEPT ![c] = t]
               /\ \E n \in IF call.kind = "mfa/verify" THEN Codes ELSE {0} :
                    op' = [op EXCEPT ![c] = [call EXCEPT !.code = n]]
          ELSE /\ bearer' = [bearer EXCEPT ![c] = NoToken]
               /\ op' = [op EXCEPT ![c] = call]
  BY DEF Receive
<1>2. PICK t \in Token \cup {NoToken} : bearer' = [bearer EXCEPT ![c] = t]
  BY <1>1 DEF TypeOK
<1>3. PICK o \in PublicCall \cup BearerCall : op' = [op EXCEPT ![c] = o]
  <2>1. CASE call.kind \in BearerKinds
    <3>1. PICK n \in Nat : op' = [op EXCEPT ![c] = [call EXCEPT !.code = n]]
      BY <1>1, <2>1, CodesType
    <3>2. QED
      BY <2>1, <3>1, ReceiveCall
  <2>2. CASE call.kind \notin BearerKinds
    <3>1. call \in PublicCall \cup BearerCall
      BY ReceiveCall
    <3>2. QED
      BY <1>1, <2>2, <3>1
  <2>3. QED
    BY <2>1, <2>2
<1>4. bearer \in [Conns -> Token \cup {NoToken}] /\ op \in [Conns -> PublicCall \cup BearerCall]
  BY DEF TypeOK
<1>5. QED
  BY <1>2, <1>3, <1>4

\* What every action of a handler leaves as it is.
Frame(c) ==
  /\ UNCHANGED <<process, clock, log, client, boots>>
  /\ pc[c] # "replied"
  /\ op' \in [Conns -> PublicCall \cup BearerCall]
  /\ bearer' \in [Conns -> Token \cup {NoToken}]
  /\ found' \in [Conns -> User \cup {NoUser}]
  /\ calls' \in 0 .. MaxCalls

\* It is well typed after such an action if what it does change is.
LEMMA FrameType ==
  ASSUME TypeOK, NEW c \in Conns, Frame(c),
         users' \subseteq User, nextID' \in Nat \ {0},
         pc' \in [Conns -> Labels], status' \in [Conns -> Statuses],
         due' \in [Conns -> Due]
  PROVE  TypeOK'
BY DEF TypeOK, Frame, process, log, client, Labels, Statuses, Due

\* A variable that is left alone is left alone at c.
LEMMA Unchanged ==
  ASSUME TypeOK, NEW c \in Conns
  PROVE  /\ op' = op => op' = [op EXCEPT ![c] = op'[c]]
         /\ found' = found => found' = [found EXCEPT ![c] = found'[c]]
<1>1. /\ op \in [Conns -> PublicCall \cup BearerCall]
      /\ found \in [Conns -> User \cup {NoUser}]
  BY DEF TypeOK
<1>2. QED
  BY <1>1

\* A step of one goroutine leaves the others where they stand.
LEMMA StandKept ==
  ASSUME TypeOK, StandInv, NEW c \in Conns, NEW label \in Labels,
         pc' = [pc EXCEPT ![c] = label],
         op' = [op EXCEPT ![c] = op'[c]], found' = [found EXCEPT ![c] = found'[c]],
         users \subseteq users',
         label = "hashed" => op'[c].kind = "register" /\ op'[c].role \in Roles,
         label = "found" => found'[c] \in users'
  PROVE  StandInv'
<1>1. /\ pc \in [Conns -> Labels]
      /\ op \in [Conns -> PublicCall \cup BearerCall]
      /\ found \in [Conns -> User \cup {NoUser}]
  BY DEF TypeOK, Labels
<1>2. ASSUME NEW d \in Conns
      PROVE  /\ pc'[d] = "hashed" => op'[d].kind = "register" /\ op'[d].role \in Roles
             /\ pc'[d] = "found" => found'[d] \in users'
  <2>1. CASE d = c
    BY <1>1, <2>1
  <2>2. CASE d # c
    <3>1. pc'[d] = pc[d] /\ op'[d] = op[d] /\ found'[d] = found[d]
      BY <1>1, <2>2
    <3>2. QED
      BY <3>1 DEF StandInv
  <2>3. QED
    BY <2>1, <2>2
<1>3. QED
  BY <1>2 DEF StandInv

-----------------------------------------------------------------------------
(* What a step does to the accounts, to what is on record and to tokens.   *)

\* Nothing.
Silent ==
  /\ users' = users /\ nextID' \in {nextID, nextID + 1}
  /\ Owed' = Owed /\ OwedTokens' = OwedTokens
  /\ UNCHANGED <<log, issued>>

\* An event is owed that names nobody, or the account whose code was judged.
Noted ==
  \E e \in Event :
    /\ users' = users /\ nextID' = nextID + 1
    /\ e.id = nextID
    /\ \/ e.user = NobodyID /\ e.action \in {"USER_REGISTERED", "LOGIN_FAILED"}
       \/ /\ e.action \in {"MFA_SUCCESS", "MFA_FAILED"}
          /\ \E u \in Account(e.user) :
               e.action = "MFA_SUCCESS" => u.secret # NoSecret /\ u.secret = e.via
    /\ Owed' = Owed \cup {e} /\ OwedTokens' = OwedTokens
    /\ UNCHANGED <<log, issued>>

\* An account is made under a new name, and the event that says so is owed.
Enrolled ==
  \E u \in User, e \in Event :
    /\ Named(u.name) = {} /\ u.id = nextID
    /\ users' = users \cup {u} /\ nextID' = nextID + 2
    /\ e.id = nextID + 1 /\ e.user = nextID /\ e.action = "USER_REGISTERED"
    /\ Owed' = Owed \cup {e} /\ OwedTokens' = OwedTokens
    /\ UNCHANGED <<log, issued>>

\* The database does not say whether the account was made.
HalfEnrolled ==
  \E e \in Event :
    /\ Durable
    /\ \/ users' = users
       \/ \E u \in User : /\ Named(u.name) = {} /\ u.id = nextID + 1
                          /\ users' = users \cup {u}
    /\ nextID' = nextID + 2
    /\ e.id = nextID /\ e.user = NobodyID /\ e.action = "USER_REGISTERED"
    /\ Owed' = Owed \cup {e} /\ OwedTokens' = OwedTokens
    /\ UNCHANGED <<log, issued>>

\* A token of an active account is owed, and its event.
LoggedIn ==
  \E u \in users, t \in Token, e \in Event :
    /\ u.active
    /\ users' = users /\ nextID' = nextID + 2
    /\ t.jti = nextID /\ t.user = u.id /\ t.name = u.name /\ t.role = u.role
    /\ e.id = nextID + 1 /\ e.user = u.id /\ e.action = "LOGIN_SUCCESS"
    /\ Owed' = Owed \cup {e} /\ OwedTokens' = OwedTokens \cup {t}
    /\ UNCHANGED <<log, issued>>

Handled == Silent \/ Noted \/ Enrolled \/ HalfEnrolled \/ LoggedIn

Placed == TypeOK /\ StandInv /\ DueInv

\* An action that replies with no token and nothing on record: 200, 404, ...
LEMMA QuietReply ==
  ASSUME Placed, NEW c \in Conns, Frame(c), UNCHANGED <<users, op, found>>,
         nextID' \in {nextID, nextID + 1},
         NEW code \in Statuses, NEW things \in Due, Reply(c, code, things),
         things.events = {}, things.tokens = {}
  PROVE  Placed' /\ Handled
<1>a. TypeOK /\ DueInv /\ pc[c] # "replied" /\ UNCHANGED trail
  BY DEF Placed, Frame, log
<1>b. \A t \in things.tokens : \E e \in things.events :
        Tells(e, t)
  OBVIOUS
<1>0. /\ pc' \in [Conns -> Labels] /\ status' \in [Conns -> Statuses]
      /\ due' \in [Conns -> Due]
      /\ pc' = [pc EXCEPT ![c] = "replied"]
      /\ Owed' = Owed \cup things.events /\ OwedTokens' = OwedTokens \cup things.tokens
      /\ DueInv'
  BY <1>a, <1>b, ReplyEffect
<1>1. Owed' = Owed /\ OwedTokens' = OwedTokens
  BY <1>0
<1>2. users' \subseteq User /\ nextID' \in Nat \ {0}
  BY DEF Placed, TypeOK
<1>3. TypeOK'
  BY <1>0, <1>2, FrameType DEF Placed
<1>4. StandInv'
  BY <1>0, Unchanged, StandKept DEF Placed, Labels
<1>5. Handled
  BY <1>1 DEF Handled, Silent, Frame, client
<1>6. QED
  BY <1>0, <1>3, <1>4, <1>5 DEF Placed

\* An action that replies with one event and no token.
LEMMA NotedReply ==
  ASSUME Placed, NEW c \in Conns, Frame(c), UNCHANGED <<op, found>>,
         users \subseteq users', users' \subseteq User, nextID' \in Nat \ {0},
         NEW code \in Statuses, NEW e \in Event, NEW things \in Due, Reply(c, code, things),
         things.events = {e}, things.tokens = {}
  PROVE  Placed' /\ Owed' = Owed \cup {e} /\ OwedTokens' = OwedTokens
<1>a. TypeOK /\ DueInv /\ pc[c] # "replied" /\ UNCHANGED trail
  BY DEF Placed, Frame, log
<1>b. \A t \in things.tokens : \E d \in things.events :
        Tells(d, t)
  OBVIOUS
<1>0. /\ pc' \in [Conns -> Labels] /\ status' \in [Conns -> Statuses]
      /\ due' \in [Conns -> Due]
      /\ pc' = [pc EXCEPT ![c] = "replied"]
      /\ Owed' = Owed \cup things.events /\ OwedTokens' = OwedTokens \cup things.tokens
      /\ DueInv'
  BY <1>a, <1>b, ReplyEffect
<1>1. /\ pc' \in [Conns -> Labels] /\ status' \in [Conns -> Statuses]
      /\ due' \in [Conns -> Due]
      /\ pc' = [pc EXCEPT ![c] = "replied"]
      /\ Owed' = Owed \cup {e} /\ OwedTokens' = OwedTokens
      /\ DueInv'
  BY <1>0
<1>2. TypeOK'
  BY <1>1, FrameType DEF Placed
<1>3. StandInv'
  BY <1>1, Unchanged, StandKept DEF Placed, Labels
<1>4. QED
  BY <1>1, <1>2, <1>3 DEF Placed

\* An action that goes on without a reply.
LEMMA QuietGoto ==
  ASSUME Placed, NEW c \in Conns, Frame(c), UNCHANGED <<store, status, due>>,
         op' = [op EXCEPT ![c] = op'[c]], found' = [found EXCEPT ![c] = found'[c]],
         NEW label \in Labels \ {"replied"}, Goto(c, label),
         label = "hashed" => op'[c].kind = "register" /\ op'[c].role \in Roles,
         label = "found" => found'[c] \in users
  PROVE  Placed' /\ Handled
<1>1. /\ pc' \in [Conns -> Labels] /\ pc' = [pc EXCEPT ![c] = label]
      /\ Owed' = Owed /\ OwedTokens' = OwedTokens
      /\ DueInv'
  BY GotoEffect DEF Placed, Frame, log
<1>2. /\ users' = users /\ nextID' = nextID
      /\ status' \in [Conns -> Statuses] /\ due' \in [Conns -> Due]
  BY DEF Placed, TypeOK, store, Statuses, Due
<1>3. users' \subseteq User /\ nextID' \in Nat \ {0}
  BY <1>2 DEF Placed, TypeOK
<1>4. TypeOK'
  BY <1>1, <1>2, <1>3, FrameType DEF Placed
<1>5. StandInv'
  BY <1>1, <1>2, StandKept DEF Placed
<1>6. Handled
  BY <1>1, <1>2 DEF Handled, Silent, Frame, client
<1>7. QED
  BY <1>1, <1>4, <1>5, <1>6 DEF Placed

-----------------------------------------------------------------------------
(* The actions of the handlers, one by one.                                *)

\* What they have in common but Receive and Lookup.
LEMMA HandlerFrame ==
  ASSUME TypeOK, NEW c \in Conns, pc[c] # "replied",
         UNCHANGED <<process, clock, log, op, bearer, found, client, bound>>
  PROVE  Frame(c)
BY DEF TypeOK, Frame, bound

\* A call comes in: nothing is owed for it yet.
LEMMA ReceiveStep ==
  ASSUME Placed, NEW c \in Conns, Receive(c)
  PROVE  Placed' /\ Handled
<1>1. /\ op' \in [Conns -> PublicCall \cup BearerCall]
      /\ bearer' \in [Conns -> Token \cup {NoToken}]
      /\ op' = [op EXCEPT ![c] = op'[c]]
  BY ReceiveType DEF Placed
<1>2. Frame(c)
  <2>1. calls' \in 0 .. MaxCalls
    BY BoundsAssumption DEF Receive, Placed, TypeOK
  <2>2. pc[c] # "replied" /\ UNCHANGED <<process, clock, log, found, client, boots>>
    BY DEF Receive
  <2>3. QED
    BY <1>1, <2>1, <2>2 DEF Frame, Placed, TypeOK
<1>3. /\ Goto(c, "called") /\ UNCHANGED <<store, status, due>>
      /\ found' = [found EXCEPT ![c] = found'[c]]
  BY Unchanged DEF Receive, Placed
<1>4. "called" \in Labels \ {"replied"} /\ "called" # "hashed" /\ "called" # "found"
  BY DEF Labels
<1>5. QED
  BY <1>1, <1>2, <1>3, <1>4, QuietGoto

\* 400 for a body that cannot be read: no store is touched.
LEMMA GarbledStep ==
  ASSUME Placed, NEW c \in Conns, Garbled(c)
  PROVE  Placed' /\ Handled
<1>1. /\ Frame(c) /\ UNCHANGED <<users, op, found>> /\ nextID' = nextID
      /\ Reply(c, 400, Nothing)
  BY HandlerFrame DEF Garbled, Placed, store
<1>2. 400 \in Statuses
  BY DEF Statuses
<1>3. QED
  BY <1>1, <1>2, NothingMade, QuietReply

\* Whatever is refused is logged, and nobody named.
LEMMA RefusalStep ==
  ASSUME Placed, NEW c \in Conns, Frame(c), UNCHANGED <<users, op, found>>,
         NEW code \in Statuses, NEW action \in {"USER_REGISTERED", "LOGIN_FAILED"},
         Reply(c, code, Logging(action, NobodyID, 0)), nextID' = nextID + 1
  PROVE  Placed' /\ Handled
<1> DEFINE e == [id |-> nextID, action |-> action, user |-> NobodyID, via |-> 0]
<1>1. nextID \in Nat /\ NobodyID \in Nat /\ nextID' \in Nat \ {0}
  BY DEF Placed, TypeOK, NobodyID
<1>2. e \in Event /\ e.id = nextID /\ e.user = NobodyID /\ e.action = action
  BY <1>1, EventMade
<1>3. /\ Logging(action, NobodyID, 0) \in Due
      /\ Logging(action, NobodyID, 0).events = {e} /\ Logging(action, NobodyID, 0).tokens = {}
  BY <1>1, LoggingMade
<1> HIDE DEF e
<1>4. users \subseteq users' /\ users' \subseteq User
  BY DEF Placed, TypeOK
<1>5. Placed' /\ Owed' = Owed \cup {e} /\ OwedTokens' = OwedTokens
  BY <1>1, <1>2, <1>3, <1>4, NotedReply
<1>6. Noted
  BY <1>2, <1>5 DEF Noted, Frame, client
<1>7. QED
  BY <1>5, <1>6 DEF Handled

\* Register up to the hash of the password: refused, or on its way.
LEMMA ValidateStep ==
  ASSUME Placed, NEW c \in Conns, Validate(c)
  PROVE  Placed' /\ Handled
<1>1. Frame(c) /\ UNCHANGED <<users, op, found>> /\ op[c].kind = "register"
  BY HandlerFrame DEF Validate, Placed
<1>2. 400 \in Statuses /\ 500 \in Statuses /\ "hashed" \in Labels \ {"replied"}
  BY DEF Statuses, Labels
<1>3. CASE RefuseRegistration(c, 400)
  BY <1>1, <1>2, <1>3, RefusalStep DEF RefuseRegistration
<1>4. CASE RefuseRegistration(c, 500)
  BY <1>1, <1>2, <1>4, RefusalStep DEF RefuseRegistration
<1>5. CASE /\ ~BadInput(op[c]) /\ Goto(c, "hashed")
           /\ UNCHANGED <<nextID, status, due>>
  <2>1. op'[c].kind = "register" /\ op'[c].role \in Roles
    BY <1>1, <1>5 DEF BadInput
  <2>2. UNCHANGED <<store, status, due>>
    BY <1>1, <1>5 DEF store
  <2>3. op' = [op EXCEPT ![c] = op'[c]] /\ found' = [found EXCEPT ![c] = found'[c]]
    BY <1>1, Unchanged DEF Placed
  <2>4. QED
    BY <1>1, <1>2, <1>5, <2>1, <2>2, <2>3, QuietGoto
<1>6. QED
  BY <1>3, <1>4, <1>5 DEF Validate

\* Register's CreateUser: a new account with its event, or a refusal.
LEMMA CreateStep ==
  ASSUME Placed, NEW c \in Conns, Create(c)
  PROVE  Placed' /\ Handled
<1>1. Frame(c) /\ UNCHANGED <<op, found>>
  BY HandlerFrame DEF Create, Placed
<1>2. /\ 409 \in Statuses /\ 500 \in Statuses /\ 201 \in Statuses
  BY DEF Statuses
<1>3. op[c] \in PublicCall \cup BearerCall /\ op[c].kind = "register" /\ op[c].role \in Roles
  BY DEF Create, Placed, StandInv, TypeOK
<1>4. nextID \in Nat \ {0} /\ NobodyID \in Nat /\ users \subseteq User
  BY DEF Placed, TypeOK, NobodyID
<1>5. \A id \in Nat : /\ NewUser(op[c], id) \in User
                      /\ NewUser(op[c], id).id = id
                      /\ NewUser(op[c], id).name = op[c].raw.base
  BY <1>3, UserMade
<1>6. CASE Created(c)
  <2> DEFINE u == NewUser(op[c], nextID)
             e == [id |-> nextID + 1, action |-> "USER_REGISTERED",
                   user |-> nextID, via |-> 0]
             things == [Nothing EXCEPT !.events = {e}]
  <2>0. nextID + 1 \in Nat /\ nextID \in Nat /\ 0 \in Nat
    BY <1>4
  <2>1. e \in Event /\ e.id = nextID + 1 /\ e.user = nextID /\ e.action = "USER_REGISTERED"
    BY <2>0, EventMade
  <2>2. /\ Named(op[c].raw.base) = {} /\ users' = users \cup {u}
        /\ nextID' = nextID + 2 /\ Reply(c, 201, things)
    BY <1>6 DEF Created
  <2> HIDE DEF e
  <2>3. things \in Due /\ things.events = {e} /\ things.tokens = {}
    BY <2>1, EventsMade
  <2>4. u \in User /\ u.id = nextID /\ u.name = op[c].raw.base
    BY <1>4, <1>5
  <2> HIDE DEF u, things
  <2>5. users \subseteq users' /\ users' \subseteq User /\ nextID' \in Nat \ {0}
    BY <1>4, <2>2, <2>4
  <2>6. Placed' /\ Owed' = Owed \cup {e} /\ OwedTokens' = OwedTokens
    BY <1>1, <1>2, <2>1, <2>2, <2>3, <2>5, NotedReply
  <2>7. Enrolled
    BY <1>1, <2>1, <2>2, <2>4, <2>6 DEF Enrolled, Frame, client
  <2>8. QED
    BY <2>6, <2>7 DEF Handled
<1>7. CASE NameTaken(c)
  BY <1>1, <1>2, <1>7, RefusalStep DEF NameTaken, RefuseRegistration
<1>8. CASE CreateFails(c)
  <2> DEFINE u == NewUser(op[c], nextID + 1)
             e == [id |-> nextID, action |-> "USER_REGISTERED",
                   user |-> NobodyID, via |-> 0]
             things == Logging("USER_REGISTERED", NobodyID, 0)
  <2>1. e \in Event /\ e.id = nextID /\ e.user = NobodyID /\ e.action = "USER_REGISTERED"
    BY <1>4, EventMade
  <2>2. things \in Due /\ things.events = {e} /\ things.tokens = {}
    BY <1>4, LoggingMade
  <2>3. /\ Durable /\ nextID' = nextID + 2 /\ Reply(c, 500, things)
        /\ users' = users \/ (Named(op[c].raw.base) = {} /\ users' = users \cup {u})
    BY <1>8 DEF CreateFails, Outage
  <2>4. u \in User /\ u.id = nextID + 1 /\ u.name = op[c].raw.base
    BY <1>4, <1>5
  <2> HIDE DEF u, e, things
  <2>5. users \subseteq users' /\ users' \subseteq User /\ nextID' \in Nat \ {0}
    BY <1>4, <2>3, <2>4
  <2>6. Placed' /\ Owed' = Owed \cup {e} /\ OwedTokens' = OwedTokens
    BY <1>1, <1>2, <2>1, <2>2, <2>3, <2>5, NotedReply
  <2>7. \/ users' = users
        \/ \E v \in User : /\ Named(v.name) = {} /\ v.id = nextID + 1
                           /\ users' = users \cup {v}
    BY <2>3, <2>4
  <2>8. UNCHANGED <<log, issued>>
    BY <1>1 DEF Frame, client
  <2>9. HalfEnrolled
    BY <2>1, <2>3, <2>6, <2>7, <2>8 DEF HalfEnrolled
  <2>10. QED
    BY <2>6, <2>9 DEF Handled
<1>9. QED
  BY <1>6, <1>7, <1>8 DEF Create

\* The store hands out a copy, or the login is refused.
LEMMA LookupStep ==
  ASSUME Placed, NEW c \in Conns, Lookup(c)
  PROVE  Placed' /\ Handled
<1>1. /\ pc[c] = "called"
      /\ UNCHANGED <<users, process, clock, log, op, bearer, client, bound>>
  BY DEF Lookup
<1>2. /\ 401 \in Statuses /\ "found" \in Labels \ {"replied"} /\ "found" # "hashed"
      /\ op' = [op EXCEPT ![c] = op'[c]]
  BY <1>1, Unchanged DEF Statuses, Labels, Placed
<1>3. CASE /\ RefuseLogin(c) /\ UNCHANGED found
  <2>1. Frame(c)
    BY <1>1, <1>3, HandlerFrame DEF Placed
  <2>2. QED
    BY <1>1, <1>2, <1>3, <2>1, RefusalStep DEF RefuseLogin
<1>4. ASSUME NEW u \in Named(op[c].raw.base),
             found' = [found EXCEPT ![c] = u], Goto(c, "found"),
             UNCHANGED <<nextID, status, due>>
      PROVE  Placed' /\ Handled
  <2>1. u \in users /\ u \in User
    BY DEF Named, Placed, TypeOK
  <2>2. /\ found' \in [Conns -> User \cup {NoUser}] /\ found'[c] = u
        /\ found' = [found EXCEPT ![c] = found'[c]]
    BY <1>4, <2>1 DEF Placed, TypeOK
  <2>3. Frame(c)
    BY <1>1, <2>2 DEF Frame, Placed, TypeOK, bound
  <2>4. UNCHANGED <<store, status, due>>
    BY <1>1, <1>4 DEF store
  <2>5. QED
    BY <1>2, <1>4, <2>1, <2>2, <2>3, <2>4, QuietGoto
<1>5. QED
  BY <1>3, <1>4 DEF Lookup

\* Login: LOGIN_FAILED, or a token with LOGIN_SUCCESS.
LEMMA VerifyStep ==
  ASSUME Placed, NEW c \in Conns, Verify(c)
  PROVE  Placed' /\ Handled
<1>1. Frame(c) /\ UNCHANGED <<users, op, found>>
  BY HandlerFrame DEF Verify, Placed
<1>2. 401 \in Statuses /\ 200 \in Statuses
  BY DEF Statuses
<1>3. CASE RefuseLogin(c)
  BY <1>1, <1>2, <1>3, RefusalStep DEF RefuseLogin
<1>4. ASSUME found[c].active,
             Reply(c, 200,
               [Nothing EXCEPT !.tokens = {TokenFor(found[c])},
                               !.events = {[id |-> nextID + 1, action |-> "LOGIN_SUCCESS",
                                            user |-> found[c].id, via |-> nextID]}]),
             nextID' = nextID + 2
      PROVE  Placed' /\ Handled
  <2> DEFINE t == TokenFor(found[c])
             e == [id |-> nextID + 1, action |-> "LOGIN_SUCCESS",
                   user |-> found[c].id, via |-> nextID]
             things == [Nothing EXCEPT !.tokens = {t}, !.events = {e}]
  <2>1. found[c] \in users /\ found[c] \in User
    BY DEF Verify, Placed, StandInv, TypeOK
  <2>2. /\ nextID \in Nat /\ nextID + 1 \in Nat /\ nextID' \in Nat \ {0}
        /\ clock \in Nat /\ key \in Keys /\ found[c].id \in Nat
    BY <1>4, <2>1, BoundsAssumption DEF Placed, TypeOK, User
  <2>3. /\ t \in Token /\ t.jti = nextID /\ t.user = found[c].id
        /\ t.name = found[c].name /\ t.role = found[c].role
    BY <2>1, <2>2, TokenMade
  <2>4. e \in Event
    BY <2>2, EventMade
  <2>5. e.id = nextID + 1 /\ e.user = found[c].id /\ e.action = "LOGIN_SUCCESS" /\ e.via = nextID
    OBVIOUS
  <2>6. Reply(c, 200, things)
    BY <1>4
  <2> HIDE DEF t, e
  <2>a. {t} \in SUBSET Token /\ {e} \in SUBSET Event
    BY <2>3, <2>4
  <2>7. things \in Due /\ things.events = {e} /\ things.tokens = {t}
    BY <2>a, TokensMade
  <2> HIDE DEF things
  <2>8. \A x \in things.tokens : \E y \in things.events :
          Tells(y, x)
    BY <2>3, <2>5, <2>7 DEF Tells
  <2>b. TypeOK /\ DueInv /\ pc[c] # "replied" /\ UNCHANGED trail
    BY <1>1 DEF Placed, Frame, log
  <2>9. /\ pc' \in [Conns -> Labels] /\ status' \in [Conns -> Statuses]
        /\ due' \in [Conns -> Due]
        /\ pc' = [pc EXCEPT ![c] = "replied"]
        /\ Owed' = Owed \cup {e} /\ OwedTokens' = OwedTokens \cup {t}
        /\ DueInv'
    BY <1>2, <2>6, <2>7, <2>8, <2>b, ReplyEffect
  <2>10. users' \subseteq User
    BY <1>1 DEF Placed, TypeOK
  <2>11. TypeOK'
    BY <1>1, <2>2, <2>9, <2>10, FrameType DEF Placed
  <2>12. StandInv'
    BY <1>1, <2>9, Unchanged, StandKept DEF Placed, Labels
  <2>13. LoggedIn
    BY <1>1, <1>4, <2>1, <2>3, <2>4, <2>5, <2>9 DEF LoggedIn, Frame, client
  <2>14. QED
    BY <2>9, <2>11, <2>12, <2>13 DEF Handled, Placed
<1>5. QED
  BY <1>3, <1>4 DEF Verify

\* RequireAuth and RequireRole.
LEMMA AuthorizeStep ==
  ASSUME Placed, NEW c \in Conns, Authorize(c)
  PROVE  Placed' /\ Handled
<1>1. Frame(c) /\ UNCHANGED <<users, op, found>>
  BY HandlerFrame DEF Authorize, Placed
<1>2. /\ 200 \in Statuses /\ 401 \in Statuses /\ 403 \in Statuses
      /\ "claimed" \in Labels \ {"replied"} /\ "claimed" # "hashed" /\ "claimed" # "found"
  BY DEF Statuses, Labels
<1>3. CASE Reply(c, 401, Nothing) /\ UNCHANGED nextID
  BY <1>1, <1>2, <1>3, NothingMade, QuietReply
<1>4. CASE Reply(c, 403, Nothing) /\ UNCHANGED nextID
  BY <1>1, <1>2, <1>4, NothingMade, QuietReply
<1>5. CASE Greet(c)
  <2>1. Reply(c, 200, Nothing) /\ UNCHANGED nextID
    BY <1>5 DEF Greet
  <2>2. QED
    BY <1>1, <1>2, <2>1, NothingMade, QuietReply
<1>6. CASE Valid(bearer[c]) /\ MFASetup(c)
  <2> DEFINE S == {[user |-> bearer[c].user, secret |-> nextID]}
  <2>1. bearer[c] \in Token /\ nextID \in Nat
    BY <1>6 DEF Valid, Placed, TypeOK
  <2>2. S \in SUBSET [user : Nat, secret : Nat]
    BY <2>1 DEF Token
  <2>3. Reply(c, 200, [Nothing EXCEPT !.secrets = S]) /\ nextID' = nextID + 1
    BY <1>6 DEF MFASetup
  <2> HIDE DEF S
  <2> DEFINE things == [Nothing EXCEPT !.secrets = S]
  <2>4. things \in Due /\ things.events = {} /\ things.tokens = {}
    BY <2>2, SecretsMade
  <2>5. Reply(c, 200, things) /\ nextID' \in {nextID, nextID + 1}
    BY <2>3
  <2> HIDE DEF things
  <2>6. QED
    BY <1>1, <1>2, <2>4, <2>5, QuietReply
<1>7. CASE Goto(c, "claimed") /\ UNCHANGED <<nextID, status, due>>
  <2>1. UNCHANGED <<store, status, due>>
    BY <1>1, <1>7 DEF store
  <2>2. op' = [op EXCEPT ![c] = op'[c]] /\ found' = [found EXCEPT ![c] = found'[c]]
    BY <1>1, Unchanged DEF Placed
  <2>3. QED
    BY <1>1, <1>2, <1>7, <2>1, <2>2, QuietGoto
<1>8. QED
  BY <1>3, <1>4, <1>5, <1>6, <1>7 DEF Authorize

\* GET /auth/me and the list of users.
LEMMA ReadStoreStep ==
  ASSUME Placed, NEW c \in Conns, ReadStore(c)
  PROVE  Placed' /\ Handled
<1>1. Frame(c) /\ UNCHANGED <<users, op, found>> /\ nextID' = nextID
  BY HandlerFrame DEF ReadStore, Placed, store
<1>2. PICK code \in Statuses : Reply(c, code, Nothing)
  BY DEF ReadStore, Me, ListUsers, Statuses
<1>3. QED
  BY <1>1, <1>2, NothingMade, QuietReply

\* MFA verify: a refusal, or the event of a code that was right or wrong.
LEMMA MFAVerifyStep ==
  ASSUME Placed, NEW c \in Conns, MFAVerify(c)
  PROVE  Placed' /\ Handled
<1>1. Frame(c) /\ UNCHANGED <<users, op, found>>
  BY HandlerFrame DEF MFAVerify, Placed
<1>2. 200 \in Statuses /\ 400 \in Statuses /\ 401 \in Statuses /\ 404 \in Statuses
  BY DEF Statuses
<1>3. ASSUME NEW code \in {400, 404}, Reply(c, code, Nothing), UNCHANGED nextID
      PROVE  Placed' /\ Handled
  BY <1>1, <1>2, <1>3, NothingMade, QuietReply
<1>4. ASSUME NEW u \in Account(bearer[c].user), NEW code \in Statuses,
             NEW action \in {"MFA_SUCCESS", "MFA_FAILED"},
             u.secret # NoSecret, action = "MFA_SUCCESS" => u.secret = op[c].code,
             Reply(c, code, Logging(action, u.id, op[c].code)),
             nextID' = nextID + 1
      PROVE  Placed' /\ Handled
  <2> DEFINE n == op[c].code
             e == [id |-> nextID, action |-> action, user |-> u.id, via |-> n]
  <2>1. nextID \in Nat /\ nextID' \in Nat \ {0} /\ u \in users /\ u.id \in Nat
    BY <1>4 DEF Placed, TypeOK, Account, User
  <2>a. n \in Nat
    <3>1. op[c] \in PublicCall \cup BearerCall /\ op[c].kind = "mfa/verify"
      BY DEF MFAVerify, Placed, TypeOK
    <3>2. QED
      BY <3>1 DEF PublicCall, BearerCall
  <2> HIDE DEF n
  <2>2. e \in Event
    BY <2>1, <2>a, EventMade
  <2>3. e.id = nextID /\ e.user = u.id /\ e.action = action /\ e.via = n
    OBVIOUS
  <2>4. /\ Logging(action, u.id, n) \in Due
        /\ Logging(action, u.id, n).events = {e} /\ Logging(action, u.id, n).tokens = {}
    BY <2>1, <2>a, LoggingMade
  <2>b. Reply(c, code, Logging(action, u.id, n))
    BY <1>4 DEF n
  <2> HIDE DEF e
  <2>5. users \subseteq users' /\ users' \subseteq User
    BY <1>1 DEF Placed, TypeOK
  <2>6. Placed' /\ Owed' = Owed \cup {e} /\ OwedTokens' = OwedTokens
    BY <1>1, <2>1, <2>2, <2>4, <2>5, <2>b, NotedReply
  <2>7. /\ u \in Account(e.user)
        /\ e.action = "MFA_SUCCESS" => u.secret # NoSecret /\ u.secret = e.via
    BY <1>4, <2>1, <2>3 DEF Account, n
  <2>8. Noted
    BY <1>1, <1>4, <2>2, <2>3, <2>6, <2>7 DEF Noted, Frame, client
  <2>9. QED
    BY <2>6, <2>8 DEF Handled
<1>5. ASSUME NEW u \in Account(bearer[c].user), u.secret # NoSecret,
             IF u.secret = op[c].code
               THEN Reply(c, 200, Logging("MFA_SUCCESS", u.id, op[c].code))
               ELSE Reply(c, 401, Logging("MFA_FAILED", u.id, op[c].code)),
             nextID' = nextID + 1
      PROVE  Placed' /\ Handled
  <2>1. CASE u.secret = op[c].code
    BY <1>2, <1>4, <1>5, <2>1
  <2>2. CASE u.secret # op[c].code
    BY <1>2, <1>4, <1>5, <2>2
  <2>3. QED
    BY <2>1, <2>2
<1>6. QED
  BY <1>3, <1>5 DEF MFAVerify

-----------------------------------------------------------------------------
(* The end of a request, the loggers and the process.                      *)

\* The end of a request: what was owed goes on record, then to the client.
Finished ==
  /\ UNCHANGED store
  /\ OnRecord' = OnRecord /\ Tokens' = Tokens
  /\ ~Durable =>
       /\ UNCHANGED writing /\ trail \subseteq trail'
       /\ \A t \in issued' \ issued : \E e \in trail' :
            Tells(e, t)

\* An INSERT ends, well or not.
Inserted ==
  /\ UNCHANGED store
  /\ writing # {}
  /\ OnRecord' \subseteq OnRecord /\ Tokens' = Tokens
  /\ writing' \subseteq writing

\* The process starts anew.
Restarted ==
  /\ IF Durable THEN UNCHANGED store
     ELSE users' = Seeded(nextID) /\ nextID' = nextID + Len(Accounts)
  /\ OnRecord' = IF Durable THEN trail ELSE {}
  /\ Tokens' = issued
  /\ writing' = {} /\ issued' = issued

\* OnRecord and Tokens by their parts, before a step and after it.
LEMMA Records ==
  /\ OnRecord = trail \cup writing \cup Owed
  /\ OnRecord' = trail' \cup writing' \cup Owed'
  /\ Tokens = issued \cup OwedTokens
  /\ Tokens' = issued' \cup OwedTokens'
BY DEF OnRecord, Tokens, OwedTokens

\* Log: what the goroutine owed to the trail is on record, or on its way.
LEMMA LogStep ==
  ASSUME Placed, NEW c \in Conns, Log(c)
  PROVE  Placed' /\ Finished
<1>1. /\ due \in [Conns -> Due] /\ pc[c] = "replied"
      /\ due' = [due EXCEPT ![c].events = {}]
      /\ UNCHANGED <<store, process, clock, pc, op, bearer, found, status, client, bound>>
  BY DEF Log, Placed, TypeOK, Due
<1>2. /\ due' \in [Conns -> Due]
      /\ due'[c].events = {} /\ due'[c].tokens = due[c].tokens
      /\ \A d \in Conns \ {c} : due'[d] = due[d]
  BY <1>1 DEF Due
<1>3. due[c].events \subseteq Event
  BY <1>1 DEF Due
<1>4. trail' \subseteq Event /\ writing' \subseteq Event /\ trail \subseteq trail'
  BY <1>3 DEF Log, Placed, TypeOK
<1>5. TypeOK'
  BY <1>1, <1>2, <1>4 DEF Placed, TypeOK, Due, store, process, client, bound
<1>6. StandInv'
  BY <1>1 DEF Placed, StandInv, store
<1>7. trail' \cup writing' = trail \cup writing \cup due[c].events
  BY DEF Log
<1>8. ~Durable => UNCHANGED writing /\ trail' = trail \cup due[c].events
  BY DEF Log
<1>9. ASSUME NEW d \in Conns, pc'[d] = "replied", NEW t \in due'[d].tokens
      PROVE  Durable \/ \E e \in due'[d].events \cup trail' : Tells(e, t)
  <2>1. pc[d] = "replied" /\ t \in due[d].tokens
    BY <1>1, <1>2, <1>9
  <2>2. Durable \/ \E e \in due[d].events \cup trail : Tells(e, t)
    BY <2>1 DEF Placed, DueInv, Replying
  <2>3. ~Durable => due[d].events \cup trail \subseteq due'[d].events \cup trail'
    BY <1>2, <1>4, <1>8
  <2>4. QED
    BY <2>2, <2>3
<1>10. DueInv'
  BY <1>9 DEF DueInv, Replying
<1>11. Owed = Owed' \cup due[c].events
  <2>1. \A e : e \in Owed <=> e \in Owed' \/ e \in due[c].events
    BY <1>1, <1>2, OwedMembers
  <2>2. QED
    BY <2>1
<1>12. OwedTokens' = OwedTokens
  <2>1. \A d \in Conns : due'[d].tokens = due[d].tokens
    BY <1>2
  <2>2. \A t : t \in OwedTokens' <=> t \in OwedTokens
    BY <1>1, <2>1, OwedMembers
  <2>3. QED
    BY <2>2
<1>13. OnRecord' = OnRecord
  BY <1>7, <1>11, Records
<1>14. Tokens' = Tokens /\ issued' = issued
  BY <1>1, <1>12, Records DEF client
<1>15. Finished
  BY <1>1, <1>4, <1>8, <1>13, <1>14 DEF Finished
<1>16. QED
  BY <1>5, <1>6, <1>10, <1>15 DEF Placed

\* The response is out: the token that was owed is now the client's.
LEMMA AnswerStep ==
  ASSUME Placed, NEW c \in Conns, Answer(c)
  PROVE  Placed' /\ Finished
<1>1. /\ pc \in [Conns -> Labels] /\ due \in [Conns -> Due]
      /\ pc[c] = "replied" /\ due[c].events = {}
      /\ pc' = [pc EXCEPT ![c] = "idle"] /\ due' = [due EXCEPT ![c] = Nothing]
      /\ issued' = issued \cup due[c].tokens
      /\ handed' = handed \cup due[c].secrets
      /\ op' = [op EXCEPT ![c] = AnyCall] /\ bearer' = [bearer EXCEPT ![c] = NoToken]
      /\ found' = [found EXCEPT ![c] = NoUser] /\ status' = [status EXCEPT ![c] = 0]
      /\ UNCHANGED <<store, process, clock, log, bound>>
  BY DEF Answer, Goto, Placed, TypeOK, Labels, Due
<1>2. /\ pc' \in [Conns -> Labels] /\ due' \in [Conns -> Due]
      /\ pc'[c] = "idle" /\ \A d \in Conns \ {c} : pc'[d] = pc[d] /\ due'[d] = due[d]
  BY <1>1, NothingMade DEF Labels
<1>3. /\ due[c].tokens \subseteq Token
      /\ due[c].secrets \subseteq [user : Nat, secret : Nat]
  BY <1>1 DEF Due
<1>4. /\ op \in [Conns -> PublicCall \cup BearerCall]
      /\ bearer \in [Conns -> Token \cup {NoToken}]
      /\ found \in [Conns -> User \cup {NoUser}]
      /\ status \in [Conns -> Statuses] /\ AnyCall \in PublicCall
  BY DEF Placed, TypeOK, Statuses, AnyCall, PublicCall
<1>5. TypeOK'
  <2>1. /\ op' \in [Conns -> PublicCall \cup BearerCall]
        /\ bearer' \in [Conns -> Token \cup {NoToken}]
        /\ found' \in [Conns -> User \cup {NoUser}]
        /\ status' \in [Conns -> Statuses]
    BY <1>1, <1>4 DEF Statuses
  <2>2. QED
    BY <1>1, <1>2, <1>3, <2>1
       DEF Placed, TypeOK, Labels, Due, Statuses, store, process, log, bound
<1>6. StandInv'
  <2>1. "idle" # "hashed" /\ "idle" # "found" /\ "idle" \in Labels
    BY DEF Labels
  <2>2. op'[c] = AnyCall /\ found'[c] = NoUser
    BY <1>1, <1>4
  <2>3. users \subseteq users'
    BY <1>1 DEF store
  <2>4. op' = [op EXCEPT ![c] = op'[c]] /\ found' = [found EXCEPT ![c] = found'[c]]
    BY <1>1, <2>2
  <2>5. QED
    BY <1>1, <2>1, <2>3, <2>4, StandKept DEF Placed
<1>7. Replying' = Replying \ {c} /\ c \in Replying
  BY <1>1, <1>2 DEF Replying
<1>8. DueInv'
  BY <1>1, <1>2, <1>7 DEF Placed, DueInv, log
<1>9. Owed' = Owed
  <2>1. \A e : e \in Owed' <=> e \in Owed
    BY <1>1, <1>2, OwedMembers
  <2>2. QED
    BY <2>1
<1>10. OwedTokens = OwedTokens' \cup due[c].tokens
  <2>1. \A t : t \in OwedTokens <=> t \in OwedTokens' \/ t \in due[c].tokens
    BY <1>1, <1>2, OwedMembers
  <2>2. QED
    BY <2>1
<1>11. OnRecord' = OnRecord
  BY <1>1, <1>9, Records DEF log
<1>12. Tokens' = Tokens
  BY <1>1, <1>10, Records
<1>13. ~Durable => \A t \in issued' \ issued : \E e \in trail' : Tells(e, t)
  BY <1>1, <1>7 DEF Placed, DueInv, log
<1>14. Finished
  BY <1>1, <1>11, <1>12, <1>13 DEF Finished, log
<1>15. QED
  BY <1>5, <1>6, <1>8, <1>14 DEF Placed

\* An INSERT of an event ends well or not.
LEMMA InsertStep ==
  ASSUME Placed, NEW e \in writing, Insert(e)
  PROVE  Placed' /\ Inserted
<1>1. /\ writing' = writing \ {e} /\ trail' \in {trail, trail \cup {e}}
      /\ UNCHANGED <<store, process, clock, pc, local, client, bound>>
  BY DEF Insert
<1>2. UNCHANGED <<pc, due, issued>> /\ trail \subseteq trail'
  BY <1>1 DEF local, client
<1>3. Owed' = Owed /\ OwedTokens' = OwedTokens /\ DueInv'
  BY <1>2, IdleEffect DEF Placed
<1>4. TypeOK'
  BY <1>1 DEF Placed, TypeOK, store, process, local, client, bound
<1>5. StandInv'
  BY <1>1 DEF Placed, StandInv, store, local
<1>6. OnRecord' \subseteq OnRecord /\ Tokens' = Tokens
  BY <1>1, <1>2, <1>3 DEF OnRecord, Tokens, OwedTokens
<1>7. QED
  BY <1>1, <1>3, <1>4, <1>5, <1>6 DEF Placed, Inserted

\* The clock and SIGTERM.
LEMMA OutsideStep ==
  ASSUME Placed, Tick \/ Terminate
  PROVE  Placed' /\ Handled
<1>1. UNCHANGED <<store, key, log, pc, local, client, bound>>
  BY DEF Tick, Terminate, process
<1>2. UNCHANGED <<pc, due, issued>> /\ trail \subseteq trail'
  BY <1>1 DEF local, client, log
<1>3. Owed' = Owed /\ OwedTokens' = OwedTokens /\ DueInv'
  BY <1>2, IdleEffect DEF Placed
<1>4. clock' \in 0 .. MaxClock /\ draining' \in BOOLEAN
  <2>1. CASE Tick
    BY <2>1, BoundsAssumption DEF Tick, Placed, TypeOK, process
  <2>2. CASE Terminate
    BY <2>2 DEF Terminate, Placed, TypeOK
  <2>3. QED
    BY <2>1, <2>2
<1>5. TypeOK'
  BY <1>1, <1>4 DEF Placed, TypeOK, store, log, local, client, bound
<1>6. StandInv'
  BY <1>1 DEF Placed, StandInv, store, local
<1>7. Handled
  BY <1>1, <1>3 DEF Handled, Silent, store, client
<1>8. QED
  BY <1>3, <1>5, <1>6, <1>7 DEF Placed

\* An unchanged state.
LEMMA StutterStep ==
  ASSUME Placed, UNCHANGED vars
  PROVE  Placed' /\ Handled
<1>1. UNCHANGED <<store, process, clock, log, pc, local, client, bound>>
  BY DEF vars
<1>2. UNCHANGED <<pc, due, issued>> /\ trail \subseteq trail'
  BY <1>1 DEF local, client, log
<1>3. Owed' = Owed /\ OwedTokens' = OwedTokens /\ DueInv'
  BY <1>2, IdleEffect DEF Placed
<1>4. TypeOK'
  BY <1>1 DEF Placed, TypeOK, store, process, log, local, client, bound
<1>5. StandInv'
  BY <1>1 DEF Placed, StandInv, store, local
<1>6. Handled
  BY <1>1, <1>3 DEF Handled, Silent, store, client
<1>7. QED
  BY <1>3, <1>4, <1>5, <1>6 DEF Placed

\* The process comes up again, over the same table or over nothing.
LEMMA StartStep ==
  ASSUME Placed, Start
  PROVE  Placed' /\ Restarted
<1>1. /\ pc' = [c \in Conns |-> "idle"] /\ writing' = {} /\ key' \in Keys
      /\ draining' = FALSE /\ boots' = boots + 1 /\ boots < MaxBoots
      /\ UNCHANGED <<clock, local, client, calls>>
      /\ IF Durable
           THEN UNCHANGED <<users, nextID, trail>>
           ELSE /\ users' = Seeded(nextID) /\ nextID' = nextID + Len(Accounts)
                /\ trail' = {}
  BY DEF Start
<1>2. Replying' = {}
  BY <1>1 DEF Replying
<1>3. DueInv' /\ Owed' = {} /\ OwedTokens' = {}
  BY <1>2 DEF DueInv, Owed, OwedTokens
<1>4. StandInv'
  BY <1>1 DEF StandInv
<1>5. /\ pc' \in [Conns -> {"idle", "called", "hashed", "found", "claimed", "replied"}]
      /\ boots' \in 0 .. MaxBoots
  BY <1>1, BoundsAssumption DEF Placed, TypeOK
<1>6. users' \subseteq User /\ nextID' \in Nat \ {0} /\ trail' \subseteq Event
  <2>1. CASE Durable
    BY <1>1, <2>1 DEF Placed, TypeOK
  <2>2. CASE ~Durable
    BY <1>1, <2>2, SeededMade, AccountsAssumption DEF Placed, TypeOK
  <2>3. QED
    BY <2>1, <2>2
<1>7. TypeOK'
  BY <1>1, <1>5, <1>6 DEF Placed, TypeOK, local, client
<1>8. Restarted
  BY <1>1, <1>3 DEF Restarted, OnRecord, Tokens, OwedTokens, store, client
<1>9. QED
  BY <1>3, <1>4, <1>7, <1>8 DEF Placed

\* Every step is one of these.
LEMMA StepKinds ==
  Placed /\ [Next]_vars => Placed' /\ (Handled \/ Finished \/ Inserted \/ Restarted)
<1> SUFFICES ASSUME Placed, [Next]_vars
             PROVE  Placed' /\ (Handled \/ Finished \/ Inserted \/ Restarted)
  OBVIOUS
<1>1. ASSUME NEW c \in Conns, Receive(c)
      PROVE  Placed' /\ Handled
  BY <1>1, ReceiveStep
<1>2. ASSUME NEW c \in Conns, Handle(c)
      PROVE  Placed' /\ (Handled \/ Finished)
  BY <1>2, GarbledStep, ValidateStep, CreateStep, LookupStep, VerifyStep, AuthorizeStep,
     ReadStoreStep, MFAVerifyStep, LogStep, AnswerStep
     DEF Handle, Register, Login, Protected
<1>3. ASSUME NEW e \in writing, Insert(e)
      PROVE  Placed' /\ Inserted
  BY <1>3, InsertStep
<1>4. CASE Tick \/ Terminate
  BY <1>4, OutsideStep
<1>5. CASE Crash \/ Exit
  BY <1>5, StartStep DEF Crash, Exit
<1>6. CASE UNCHANGED vars
  BY <1>6, StutterStep
<1>7. QED
  BY <1>1, <1>2, <1>3, <1>4, <1>5, <1>6 DEF Next

-----------------------------------------------------------------------------
(* The inductive invariant.                                                *)

\* An id is given out once: all that exist are below the next one.
FreshInv ==
  /\ \A u \in users : u.id < nextID
  /\ \A e \in OnRecord : e.id < nextID
  /\ \A t \in Tokens : t.user < nextID

\* In memory every account beyond the seeded ones has its registration on record,
\* and every registration its account.
Counted == /\ IsFiniteSet(users) /\ IsFiniteSet(Registrations)
           /\ AccountsMatchTrail

\* What holds of the stores in memory only: MemoryLogger has nothing under way
\* and loses nothing, so that accounts and tokens agree with the trail.
MemoryInv ==
  ~Durable =>
    /\ writing = {}
    /\ TokensOnRecord
    /\ Counted

AuthInv ==
  /\ Placed /\ FreshInv
  /\ NamesUnique /\ EventsAreTrue /\ SecondFactorIsStored /\ TokensTellTheTruth
  /\ MemoryInv

\* What a handler adds, an event, an account or a token, comes with a new id.
LEMMA RecordsType ==
  ASSUME TypeOK
  PROVE  /\ OnRecord \subseteq Event /\ Tokens \subseteq Token
         /\ \A e \in Event : e.id \in Nat /\ e.user \in Nat
         /\ \A t \in Token : t.user \in Nat
         /\ \A u \in User : u.id \in Nat
<1>1. /\ due \in [Conns -> Due] /\ issued \subseteq Token
      /\ trail \subseteq Event /\ writing \subseteq Event
  BY DEF TypeOK, Due
<1>2. \A c \in Conns : due[c].events \subseteq Event /\ due[c].tokens \subseteq Token
  BY <1>1 DEF Due
<1>3. Owed \subseteq Event /\ OwedTokens \subseteq Token
  BY <1>2, OwedMembers
<1>4. OnRecord \subseteq Event /\ Tokens \subseteq Token
  BY <1>1, <1>3, Records
<1>5. QED
  BY <1>4 DEF Event, Token, User

\* Ids are drawn upwards: nothing on record has one that is yet to come.
LEMMA FreshStep ==
  ASSUME Placed, Placed', FreshInv, Handled \/ Finished \/ Inserted \/ Restarted
  PROVE  FreshInv' /\ nextID <= nextID'
<1>0. nextID \in Nat /\ Len(Accounts) \in Nat
  BY AccountsAssumption DEF Placed, TypeOK
<1>1. /\ OnRecord \subseteq Event /\ Tokens \subseteq Token /\ users \subseteq User
      /\ \A e \in Event : e.id \in Nat
      /\ \A t \in Token : t.user \in Nat
      /\ \A u \in User : u.id \in Nat
  BY RecordsType DEF Placed, TypeOK
<1>2. CASE Silent
  <2>1. OnRecord' = OnRecord /\ Tokens' = Tokens /\ users' = users
    BY <1>2, Records DEF Silent, log
  <2>2. nextID <= nextID' /\ nextID' \in Nat
    BY <1>0, <1>2 DEF Silent
  <2>3. QED
    BY <1>0, <1>1, <2>1, <2>2 DEF FreshInv
<1>3. CASE Noted
  <2>1. PICK e \in Event : /\ e.id = nextID /\ users' = users /\ nextID' = nextID + 1
                           /\ Owed' = Owed \cup {e} /\ OwedTokens' = OwedTokens
                           /\ UNCHANGED <<log, issued>>
    BY <1>3 DEF Noted
  <2>2. OnRecord' = OnRecord \cup {e} /\ Tokens' = Tokens
    BY <2>1, Records DEF log
  <2>3. QED
    BY <1>0, <1>1, <2>1, <2>2 DEF FreshInv
<1>4. CASE Enrolled
  <2>1. PICK u \in User, e \in Event :
          /\ u.id = nextID /\ e.id = nextID + 1
          /\ users' = users \cup {u} /\ nextID' = nextID + 2
          /\ Owed' = Owed \cup {e} /\ OwedTokens' = OwedTokens
          /\ UNCHANGED <<log, issued>>
    BY <1>4 DEF Enrolled
  <2>2. OnRecord' = OnRecord \cup {e} /\ Tokens' = Tokens
    BY <2>1, Records DEF log
  <2>3. QED
    BY <1>0, <1>1, <2>1, <2>2 DEF FreshInv
<1>5. CASE HalfEnrolled
  <2>1. PICK e \in Event :
          /\ e.id = nextID /\ nextID' = nextID + 2
          /\ \/ users' = users
             \/ \E u \in User : u.id = nextID + 1 /\ users' = users \cup {u}
          /\ Owed' = Owed \cup {e} /\ OwedTokens' = OwedTokens
          /\ UNCHANGED <<log, issued>>
    BY <1>5 DEF HalfEnrolled
  <2>2. OnRecord' = OnRecord \cup {e} /\ Tokens' = Tokens
    BY <2>1, Records DEF log
  <2>3. \A u \in users' : u \in users \/ u.id = nextID + 1
    BY <2>1
  <2>4. QED
    BY <1>0, <1>1, <2>1, <2>2, <2>3 DEF FreshInv
<1>6. CASE LoggedIn
  <2>1. PICK u \in users, t \in Token, e \in Event :
          /\ users' = users /\ nextID' = nextID + 2
          /\ t.user = u.id /\ e.id = nextID + 1
          /\ Owed' = Owed \cup {e} /\ OwedTokens' = OwedTokens \cup {t}
          /\ UNCHANGED <<log, issued>>
    BY <1>6 DEF LoggedIn
  <2>2. OnRecord' = OnRecord \cup {e} /\ Tokens' = Tokens \cup {t}
    BY <2>1, Records DEF log
  <2>3. QED
    BY <1>0, <1>1, <2>1, <2>2 DEF FreshInv
<1>7. CASE Finished \/ Inserted
  <2>1. /\ OnRecord' \subseteq OnRecord /\ Tokens' = Tokens
        /\ users' = users /\ nextID' = nextID
    BY <1>7 DEF Finished, Inserted, store
  <2>2. QED
    BY <1>0, <2>1 DEF FreshInv
<1>8. CASE Restarted
  <2>1. OnRecord' \subseteq OnRecord /\ Tokens' \subseteq Tokens
    BY <1>8, Records DEF Restarted
  <2>2. CASE Durable
    BY <1>0, <1>8, <2>1, <2>2 DEF FreshInv, Restarted, store
  <2>3. CASE ~Durable
    <3>1. users' = Seeded(nextID) /\ nextID' = nextID + Len(Accounts)
      BY <1>8, <2>3 DEF Restarted
    <3>2. \A u \in users' : u.id < nextID'
      BY <1>0, <3>1, SeededMade
    <3>3. \A e \in OnRecord' : e.id < nextID'
      BY <1>0, <1>1, <2>1, <3>1 DEF FreshInv
    <3>4. \A t \in Tokens' : t.user < nextID'
      BY <1>0, <1>1, <2>1, <3>1 DEF FreshInv
    <3>5. QED
      BY <1>0, <3>1, <3>2, <3>3, <3>4 DEF FreshInv
  <2>4. QED
    BY <2>2, <2>3
<1>9. QED
  BY <1>2, <1>3, <1>4, <1>5, <1>6, <1>7, <1>8 DEF Handled

Happens == Handled \/ Finished \/ Inserted \/ Restarted

Reseeded ==
  /\ ~Durable
  /\ users' = Seeded(nextID) /\ OnRecord' = {} /\ Tokens' = issued

\* The store stays, gains an account whose name and id are new, or is seeded anew.
LEMMA UsersChange ==
  ASSUME Happens, nextID \in Nat
  PROVE  \/ users' = users
         \/ \E u \in User : /\ users' = users \cup {u}
                            /\ u.id >= nextID /\ Named(u.name) = {}
         \/ Reseeded
<1>1. CASE Silent \/ Noted \/ LoggedIn
  BY <1>1 DEF Silent, Noted, LoggedIn
<1>2. CASE Enrolled
  BY <1>2 DEF Enrolled
<1>3. CASE HalfEnrolled
  <2>1. CASE users' = users
    BY <2>1
  <2>2. CASE \E u \in User : /\ Named(u.name) = {} /\ u.id = nextID + 1
                             /\ users' = users \cup {u}
    BY <2>2
  <2>3. QED
    BY <1>3, <2>1, <2>2 DEF HalfEnrolled
<1>4. CASE Finished \/ Inserted
  BY <1>4 DEF Finished, Inserted, store
<1>5. CASE Restarted
  BY <1>5, KindsAssumption DEF Restarted, Reseeded, store
<1>6. QED
  BY <1>1, <1>2, <1>3, <1>4, <1>5 DEF Happens, Handled

\* An event that was not on record before is true of the account it names.
TrueEvent(e) ==
  /\ e.user # NobodyID => Account(e.user)' # {}
  /\ e.action = "MFA_SUCCESS" =>
       \E u \in Account(e.user)' : u.secret # NoSecret /\ u.secret = e.via

\* Every event that comes on record names an account that is there, and an
\* MFA_SUCCESS one with the secret whose code was presented.
LEMMA RecordChange ==
  ASSUME Happens, nextID \in Nat \ {0}
  PROVE  \A e \in OnRecord' : e \in OnRecord \/ TrueEvent(e)
<1>1. CASE Silent \/ Finished \/ Inserted
  BY <1>1, Records DEF Silent, Finished, Inserted, log
<1>2. CASE Noted
  <2>1. PICK e \in Event :
          /\ users' = users
          /\ \/ e.user = NobodyID /\ e.action \in {"USER_REGISTERED", "LOGIN_FAILED"}
             \/ /\ e.action \in {"MFA_SUCCESS", "MFA_FAILED"}
                /\ \E u \in Account(e.user) :
                     e.action = "MFA_SUCCESS" => u.secret # NoSecret /\ u.secret = e.via
          /\ Owed' = Owed \cup {e} /\ UNCHANGED log
    BY <1>2 DEF Noted
  <2>2. TrueEvent(e)
    BY <2>1 DEF TrueEvent, Account
  <2>3. OnRecord' = OnRecord \cup {e}
    BY <2>1, Records DEF log
  <2>4. QED
    BY <2>2, <2>3
<1>3. CASE Enrolled
  <2>1. PICK u \in User, e \in Event :
          /\ u.id = nextID /\ users' = users \cup {u}
          /\ e.user = nextID /\ e.action = "USER_REGISTERED"
          /\ Owed' = Owed \cup {e} /\ UNCHANGED log
    BY <1>3 DEF Enrolled
  <2>2. TrueEvent(e)
    BY <2>1 DEF TrueEvent, Account
  <2>3. OnRecord' = OnRecord \cup {e}
    BY <2>1, Records DEF log
  <2>4. QED
    BY <2>2, <2>3
<1>4. CASE HalfEnrolled
  <2>1. PICK e \in Event :
          /\ e.user = NobodyID /\ e.action = "USER_REGISTERED"
          /\ Owed' = Owed \cup {e} /\ UNCHANGED log
    BY <1>4 DEF HalfEnrolled
  <2>2. TrueEvent(e)
    BY <2>1 DEF TrueEvent
  <2>3. OnRecord' = OnRecord \cup {e}
    BY <2>1, Records DEF log
  <2>4. QED
    BY <2>2, <2>3
<1>5. CASE LoggedIn
  <2>1. PICK u \in users, e \in Event :
          /\ users' = users
          /\ e.user = u.id /\ e.action = "LOGIN_SUCCESS"
          /\ Owed' = Owed \cup {e} /\ UNCHANGED log
    BY <1>5 DEF LoggedIn
  <2>2. TrueEvent(e)
    BY <2>1 DEF TrueEvent, Account
  <2>3. OnRecord' = OnRecord \cup {e}
    BY <2>1, Records DEF log
  <2>4. QED
    BY <2>2, <2>3
<1>6. CASE Restarted
  BY <1>6, Records DEF Restarted
<1>7. QED
  BY <1>1, <1>2, <1>3, <1>4, <1>5, <1>6 DEF Happens, Handled

\* A token that nobody held or was owed before is one of an active account.
LEMMA TokenChange ==
  ASSUME Happens
  PROVE  \A t \in Tokens' :
           \/ t \in Tokens
           \/ \E u \in users : /\ users' = users /\ u.active
                               /\ t.user = u.id /\ t.name = u.name /\ t.role = u.role
<1>1. CASE Silent \/ Noted \/ Enrolled \/ HalfEnrolled
  BY <1>1, Records DEF Silent, Noted, Enrolled, HalfEnrolled
<1>2. CASE Finished \/ Inserted
  BY <1>2 DEF Finished, Inserted
<1>3. CASE LoggedIn
  <2>1. PICK u \in users, t \in Token :
          /\ users' = users /\ u.active
          /\ t.user = u.id /\ t.name = u.name /\ t.role = u.role
          /\ OwedTokens' = OwedTokens \cup {t} /\ issued' = issued
    BY <1>3 DEF LoggedIn
  <2>2. Tokens' = Tokens \cup {t}
    BY <2>1, Records
  <2>3. QED
    BY <2>1, <2>2
<1>4. CASE Restarted
  BY <1>4, Records DEF Restarted
<1>5. QED
  BY <1>1, <1>2, <1>3, <1>4 DEF Happens, Handled

-----------------------------------------------------------------------------
(* Each part of the invariant, after each kind of step.                    *)

\* CreateUser refuses a name that is taken, so names stay apart.
LEMMA NamesStep ==
  ASSUME Placed, FreshInv, NamesUnique, Happens
  PROVE  NamesUnique'
<1>0. nextID \in Nat /\ users \subseteq User /\ \A u \in User : u.id \in Nat
  BY RecordsType DEF Placed, TypeOK
<1>1. CASE users' = users
  BY <1>1 DEF NamesUnique
<1>2. ASSUME NEW u \in User, users' = users \cup {u}, u.id >= nextID, Named(u.name) = {}
      PROVE  NamesUnique'
  <2>1. \A v \in users : v.name # u.name /\ v.id # u.id
    BY <1>0, <1>2 DEF Named, FreshInv
  <2>2. QED
    BY <1>2, <2>1 DEF NamesUnique
<1>3. CASE Reseeded
  BY <1>0, <1>3, SeededMade DEF Reseeded, NamesUnique
<1>4. QED
  BY <1>0, <1>1, <1>2, <1>3, UsersChange

\* What was true of an account stays true of it unless the store is seeded anew.
LEMMA AccountsStay ==
  ASSUME Placed, Happens, ~Reseeded
  PROVE  users \subseteq users'
BY UsersChange DEF Placed, TypeOK

\* What an event says stays true: no account is removed and no secret cleared
\* but by a restart that forgets the events as well.
LEMMA EventsStep ==
  ASSUME Placed, EventsAreTrue, SecondFactorIsStored, Happens
  PROVE  EventsAreTrue' /\ SecondFactorIsStored'
<1>0. nextID \in Nat \ {0}
  BY DEF Placed, TypeOK
<1>1. CASE Reseeded
  BY <1>1 DEF Reseeded, EventsAreTrue, SecondFactorIsStored
<1>2. CASE ~Reseeded
  <2>1. \A id : Account(id) \subseteq Account(id)'
    BY <1>2, AccountsStay DEF Account
  <2>2. \A e \in OnRecord : TrueEvent(e)
    BY <2>1 DEF EventsAreTrue, SecondFactorIsStored, TrueEvent
  <2>3. \A e \in OnRecord' : TrueEvent(e)
    BY <1>0, <2>2, RecordChange
  <2>4. QED
    BY <2>3 DEF EventsAreTrue, SecondFactorIsStored, TrueEvent
<1>3. QED
  BY <1>1, <1>2

\* What a token says of its account is what the account said when it was made,
\* and role and name of an account do not change.
LEMMA TruthStep ==
  ASSUME Placed, FreshInv, NamesUnique, TokensTellTheTruth, Happens
  PROVE  TokensTellTheTruth'
<1>0. /\ nextID \in Nat /\ users \subseteq User /\ Tokens \subseteq Token
      /\ \A u \in User : u.id \in Nat
      /\ \A t \in Token : t.user \in Nat
  BY RecordsType DEF Placed, TypeOK
<1>1. \A u \in users' : u \in users \/ u.id >= nextID
  <2>1. CASE Reseeded
    BY <1>0, <2>1, SeededMade DEF Reseeded
  <2>2. CASE ~Reseeded
    BY <1>0, <2>2, UsersChange
  <2>3. QED
    BY <2>1, <2>2
<1>2. ASSUME NEW t \in Tokens', NEW u \in users', t.user = u.id
      PROVE  t.name = u.name /\ t.role = u.role /\ u.active
  <2>1. CASE t \in Tokens
    <3>1. t.user < nextID /\ t.user \in Nat
      BY <1>0, <2>1 DEF FreshInv
    <3>2. u \in users
      BY <1>0, <1>1, <1>2, <3>1
    <3>3. u \in Account(t.user)
      BY <1>2, <3>2 DEF Account
    <3>4. QED
      BY <2>1, <3>3 DEF TokensTellTheTruth
  <2>2. CASE t \notin Tokens
    <3>1. PICK v \in users : /\ users' = users /\ v.active
                             /\ t.user = v.id /\ t.name = v.name /\ t.role = v.role
      BY <2>2, TokenChange
    <3>2. u = v
      BY <1>2, <3>1 DEF NamesUnique
    <3>3. QED
      BY <3>1, <3>2
  <2>3. QED
    BY <2>1, <2>2
<1>3. QED
  BY <1>2 DEF TokensTellTheTruth, Account

\* In memory a token is issued with its event, and a restart that forgets the
\* event forgets the account.
LEMMA TokensStep ==
  ASSUME Placed, FreshInv, ~Durable, writing = {}, TokensOnRecord, Happens
  PROVE  writing' = {} /\ TokensOnRecord'
<1>0. /\ nextID \in Nat /\ users \subseteq User
      /\ Tokens \subseteq Token /\ issued \subseteq Tokens
      /\ \A u \in User : u.id \in Nat
      /\ \A t \in Token : t.user \in Nat
  BY RecordsType, Records DEF Placed, TypeOK
<1>1. CASE Restarted
  <2>1. users' = Seeded(nextID) /\ issued' = issued /\ writing' = {}
    BY <1>1 DEF Restarted
  <2>2. \A t \in issued' : Account(t.user)' = {}
    BY <1>0, <2>1, SeededMade DEF Account, FreshInv
  <2>3. QED
    BY <2>1, <2>2 DEF TokensOnRecord
<1>2. CASE ~Restarted
  <2>1. /\ writing' = {} /\ trail \subseteq trail'
        /\ \A t \in issued' \ issued : \E e \in trail' :
             Tells(e, t)
    <3>1. CASE Handled
      BY <3>1 DEF Handled, Silent, Noted, Enrolled, HalfEnrolled, LoggedIn, log
    <3>2. CASE Finished
      BY <3>2 DEF Finished
    <3>3. QED
      BY <1>2, <3>1, <3>2 DEF Happens, Inserted
  <2>3. \A u \in users' : u \in users \/ u.id >= nextID
    <3>1. CASE Reseeded
      BY <1>0, <3>1, SeededMade DEF Reseeded
    <3>2. CASE ~Reseeded
      BY <1>0, <3>2, UsersChange
    <3>3. QED
      BY <3>1, <3>2
  <2>4. ASSUME NEW t \in issued', Account(t.user)' # {}
        PROVE  \E e \in trail' : Tells(e, t)
    <3>1. CASE t \in issued
      <4>1. t.user < nextID /\ t.user \in Nat
        BY <1>0, <3>1 DEF FreshInv
      <4>2. PICK u \in users' : u.id = t.user
        BY <2>4 DEF Account
      <4>3. u \in users
        BY <1>0, <2>3, <4>1, <4>2
      <4>4. Account(t.user) # {}
        BY <4>2, <4>3 DEF Account
      <4>5. QED
        BY <2>1, <3>1, <4>4 DEF TokensOnRecord
    <3>2. CASE t \notin issued
      BY <2>1, <2>4, <3>2
    <3>3. QED
      BY <3>1, <3>2
  <2>5. QED
    BY <2>1, <2>4 DEF TokensOnRecord
<1>3. QED
  BY <1>1, <1>2

\* As many accounts as are seeded are there afterwards.
LEMMA SeededCount ==
  ASSUME NEW first \in Nat
  PROVE  IsFiniteSet(Seeded(first)) /\ Cardinality(Seeded(first)) = Len(Accounts)
<1> DEFINE n == Len(Accounts)
           Acc(k) == [id |-> first + k - 1, name |-> Accounts[k].name,
                      password |-> Accounts[k].password, role |-> Accounts[k].role,
                      active |-> Accounts[k].active, secret |-> Accounts[k].secret]
           f == [k \in 1 .. n |-> Acc(k)]
<1>0. n \in Nat
  BY AccountsAssumption
<1>1. \A k \in 1 .. n : Acc(k) \in Seeded(first) /\ Acc(k).id = first + k - 1
  BY DEF Seeded
<1>2. \A u \in Seeded(first) : \E k \in 1 .. n : u = Acc(k)
  BY DEF Seeded
<1> HIDE DEF Acc
<1>3. f \in [1 .. n -> Seeded(first)] /\ \A k \in 1 .. n : f[k] = Acc(k)
  BY <1>1
<1>4. \A u \in Seeded(first) : \E k \in 1 .. n : f[k] = u
  BY <1>2, <1>3
<1>5. \A j, k \in 1 .. n : f[j] = f[k] => j = k
  BY <1>0, <1>1, <1>3
<1> HIDE DEF f
<1>6. f \in Surjection(1 .. n, Seeded(first)) /\ f \in Injection(1 .. n, Seeded(first))
  BY <1>3, <1>4, <1>5 DEF Surjection, Injection, IsInjective
<1> HIDE DEF n
<1>7. IsFiniteSet(1 .. n) /\ Cardinality(1 .. n) = n
  BY <1>0, FS_Interval
<1>8. IsFiniteSet(Seeded(first)) /\ Cardinality(Seeded(first)) = Cardinality(1 .. n)
  BY <1>6, <1>7, FS_Surjection
<1>9. QED
  BY <1>7, <1>8 DEF n

\* Registering makes an account and its event together.
LEMMA CountStep ==
  ASSUME Placed, FreshInv, ~Durable, writing = {}, Counted, Happens
  PROVE  Counted'
<1>0. /\ nextID \in Nat \ {0} /\ users \subseteq User /\ OnRecord \subseteq Event
      /\ \A u \in User : u.id \in Nat
      /\ \A e \in Event : e.id \in Nat
      /\ Len(Accounts) \in Nat
  BY RecordsType, AccountsAssumption DEF Placed, TypeOK
<1>1. ASSUME users' = users, Registrations' = Registrations
      PROVE  Counted'
  BY <1>1 DEF Counted, AccountsMatchTrail
<1>2. CASE Silent \/ Finished
  <2>1. users' = users /\ OnRecord' = OnRecord
    BY <1>2, Records DEF Silent, Finished, store, log
  <2>2. Registrations' = Registrations
    BY <2>1 DEF Registrations
  <2>3. QED
    BY <1>1, <2>1, <2>2
<1>3. CASE Noted \/ LoggedIn
  <2>1. PICK e \in Event : /\ users' = users /\ Owed' = Owed \cup {e} /\ UNCHANGED log
                           /\ e.action # "USER_REGISTERED" \/ e.user = NobodyID
    <3>1. CASE Noted
      <4>1. PICK e \in Event :
              /\ users' = users /\ Owed' = Owed \cup {e} /\ UNCHANGED log
              /\ e.user = NobodyID \/ e.action \in {"MFA_SUCCESS", "MFA_FAILED"}
        BY <3>1 DEF Noted
      <4>2. QED
        BY <4>1
    <3>2. CASE LoggedIn
      <4>1. PICK e \in Event :
              /\ users' = users /\ Owed' = Owed \cup {e} /\ UNCHANGED log
              /\ e.action = "LOGIN_SUCCESS"
        BY <3>2 DEF LoggedIn
      <4>2. QED
        BY <4>1
    <3>3. QED
      BY <1>3, <3>1, <3>2
  <2>2. OnRecord' = OnRecord \cup {e}
    BY <2>1, Records DEF log
  <2>3. Registrations' = Registrations
    BY <2>1, <2>2 DEF Registrations
  <2>4. QED
    BY <1>1, <2>1, <2>3
<1>4. CASE Enrolled
  <2>1. PICK u \in User, e \in Event :
          /\ u.id = nextID /\ users' = users \cup {u}
          /\ e.id = nextID + 1 /\ e.user = nextID /\ e.action = "USER_REGISTERED"
          /\ Owed' = Owed \cup {e} /\ UNCHANGED log
    BY <1>4 DEF Enrolled
  <2>2. u \notin users
    BY <1>0, <2>1 DEF FreshInv
  <2>3. OnRecord' = OnRecord \cup {e} /\ e \notin OnRecord
    BY <1>0, <2>1, Records DEF log, FreshInv
  <2>4. Registrations' = Registrations \cup {e} /\ e \notin Registrations
    BY <1>0, <2>1, <2>3 DEF Registrations, NobodyID
  <2>5. /\ IsFiniteSet(users') /\ Cardinality(users') = Cardinality(users) + 1
    BY <2>1, <2>2, FS_AddElement DEF Counted
  <2>6. /\ IsFiniteSet(Registrations')
        /\ Cardinality(Registrations') = Cardinality(Registrations) + 1
    BY <2>4, FS_AddElement DEF Counted
  <2>7. Cardinality(Registrations) \in Nat
    BY FS_CardinalityType DEF Counted
  <2>8. Cardinality(users) = Len(Accounts) + Cardinality(Registrations)
    BY DEF Counted, AccountsMatchTrail
  <2>9. Cardinality(users') = Len(Accounts) + Cardinality(Registrations')
    BY <1>0, <2>5, <2>6, <2>7, <2>8
  <2>10. QED
    BY <2>5, <2>6, <2>9 DEF Counted, AccountsMatchTrail
<1>5. CASE Restarted
  <2>1. users' = Seeded(nextID) /\ OnRecord' = {}
    BY <1>5 DEF Restarted
  <2>2. Registrations' = {}
    BY <2>1 DEF Registrations
  <2>3. IsFiniteSet(users') /\ Cardinality(users') = Len(Accounts)
    BY <1>0, <2>1, SeededCount
  <2>4. IsFiniteSet(Registrations') /\ Cardinality(Registrations') = 0
    BY <2>2, FS_EmptySet
  <2>5. QED
    BY <1>0, <2>3, <2>4 DEF Counted, AccountsMatchTrail
<1>6. QED
  BY <1>2, <1>3, <1>4, <1>5 DEF Happens, Handled, HalfEnrolled, Inserted

-----------------------------------------------------------------------------
(* The theorems.                                                           *)

\* The first boot.
LEMMA InitInv == Init => AuthInv
<1> SUFFICES ASSUME Init PROVE AuthInv
  OBVIOUS
<1>1. Placed
  <2>1. StandInv /\ DueInv
    BY DEF Init, StandInv, DueInv, Replying
  <2>2. QED
    BY <2>1, InitType DEF Placed
<1>2. Owed = {} /\ OwedTokens = {}
  BY DEF Init, Owed, OwedTokens, Replying
<1>3. OnRecord = {} /\ Tokens = {}
  BY <1>2, Records DEF Init
<1>4. users = Seeded(1) /\ nextID = 1 + Len(Accounts) /\ writing = {} /\ issued = {}
  BY DEF Init
<1>5. FreshInv /\ NamesUnique
  BY <1>3, <1>4, SeededMade DEF FreshInv, NamesUnique
<1>6. EventsAreTrue /\ SecondFactorIsStored /\ TokensTellTheTruth /\ TokensOnRecord
  BY <1>3, <1>4 DEF EventsAreTrue, SecondFactorIsStored, TokensTellTheTruth, TokensOnRecord
<1>7. Counted
  <2>1. Registrations = {}
    BY <1>3 DEF Registrations
  <2>2. IsFiniteSet(users) /\ Cardinality(users) = Len(Accounts) /\ Len(Accounts) \in Nat
    BY <1>4, SeededCount, AccountsAssumption
  <2>3. QED
    BY <2>1, <2>2, FS_EmptySet DEF Counted, AccountsMatchTrail
<1>8. QED
  BY <1>1, <1>4, <1>5, <1>6, <1>7 DEF AuthInv, MemoryInv

\* AuthInv is inductive.
LEMMA StepInv == AuthInv /\ [Next]_vars => AuthInv'
<1> SUFFICES ASSUME AuthInv, [Next]_vars PROVE AuthInv'
  OBVIOUS
<1>1. Placed' /\ Happens
  BY StepKinds DEF AuthInv, Happens
<1>2. FreshInv'
  BY <1>1, FreshStep DEF AuthInv, Happens
<1>3. NamesUnique'
  BY <1>1, NamesStep DEF AuthInv
<1>4. EventsAreTrue' /\ SecondFactorIsStored'
  BY <1>1, EventsStep DEF AuthInv
<1>5. TokensTellTheTruth'
  BY <1>1, TruthStep DEF AuthInv
<1>6. ASSUME ~Durable
      PROVE  writing' = {} /\ TokensOnRecord' /\ Counted'
  BY <1>1, <1>6, TokensStep, CountStep DEF AuthInv, MemoryInv
<1>7. MemoryInv'
  BY <1>6 DEF MemoryInv
<1>8. QED
  BY <1>1, <1>2, <1>3, <1>4, <1>5, <1>7 DEF AuthInv

\* The inductive invariant of the auth service holds in every state.
THEOREM AuthInvariant == Spec => []AuthInv
<1>1. AuthInv /\ UNCHANGED vars => AuthInv'
  BY StepInv
<1>2. QED
  BY InitInv, StepInv, PTL DEF Spec

\* Handlers, loggers, crashes and restarts keep every variable in its range.
THEOREM AuthTypeCorrect == Spec => []TypeOK
<1>1. AuthInv => TypeOK
  BY DEF AuthInv, Placed
<1>2. QED
  BY <1>1, AuthInvariant, PTL

\* However registrations interleave with hashing and with restarts, no two
\* accounts share a username or an id (CreateUser, UNIQUE (username)).
THEOREM NamesAreUnique == Spec => []NamesUnique
<1>1. AuthInv => NamesUnique
  BY DEF AuthInv
<1>2. QED
  BY <1>1, AuthInvariant, PTL

\* No event names an account that was never made, not even when CreateUser
\* fails with the row in the table (Handler.Register, MFAVerify).
THEOREM EventsTrue == Spec => []EventsAreTrue
<1>1. AuthInv => EventsAreTrue
  BY DEF AuthInv
<1>2. QED
  BY <1>1, AuthInvariant, PTL

\* MFAVerify never succeeds on a secret that MFASetup handed out and nobody
\* stored.
THEOREM SecondFactorStored == Spec => []SecondFactorIsStored
<1>1. AuthInv => SecondFactorIsStored
  BY DEF AuthInv
<1>2. QED
  BY <1>1, AuthInvariant, PTL

\* The claims of a token are those of its account, which may log in, whatever
\* happened between the lookup and generateJWT, also across restarts.
THEOREM TokensTruthful == Spec => []TokensTellTheTruth
<1>1. AuthInv => TokensTellTheTruth
  BY DEF AuthInv
<1>2. QED
  BY <1>1, AuthInvariant, PTL

\* With MemoryLogger, who holds a token of an account has its LOGIN_SUCCESS on
\* record.  PostgresLogger gives no such promise: its INSERT may fail.
THEOREM TokensRecorded == ~Durable /\ Spec => []TokensOnRecord
<1>1. AuthInv /\ ~Durable => TokensOnRecord
  BY DEF AuthInv, MemoryInv
<1>2. CASE ~Durable
  <2>1. AuthInv => TokensOnRecord
    BY <1>1, <1>2
  <2>2. QED
    BY <2>1, AuthInvariant, PTL
<1>3. CASE Durable
  BY <1>3
<1>4. QED
  BY <1>2, <1>3, KindsAssumption

\* With the stores in memory, accounts and USER_REGISTERED events match one to
\* one.  Over PostgreSQL they do not: CreateFails may leave the row.
THEOREM AccountsRecorded == ~Durable /\ Spec => []AccountsMatchTrail
<1>1. AuthInv /\ ~Durable => AccountsMatchTrail
  BY DEF AuthInv, MemoryInv, Counted
<1>2. CASE ~Durable
  <2>1. AuthInv => AccountsMatchTrail
    BY <1>1, <1>2
  <2>2. QED
    BY <2>1, AuthInvariant, PTL
<1>3. CASE Durable
  BY <1>3
<1>4. QED
  BY <1>2, <1>3, KindsAssumption
=============================================================================
