------------------------ MODULE BrowserSessionProofs ------------------------
(***************************************************************************)
(* For any number of accounts, requests in flight and loadings: the places *)
(* that hold a session agree, and unless he has strayed the user on the    *)
(* screen is the owner of the token.                                       *)
(***************************************************************************)
EXTENDS BrowserSession, TLAPS

\* The three copies of the token.
Copies == apiToken = stored /\ token = stored

\* Nobody strays from the token but in the ways SessionAgrees names.
Settled == ~strayed /\ ~Asked => user = apiToken

SessionInv == TypeOK /\ Copies /\ Settled

-----------------------------------------------------------------------------
(* What a rendering does to the requests.                                  *)

\* Whatever is rendered, the requests stay requests of the same kind about the
\* same account, and the location is a path of App.
LEMMA Rendered ==
  ASSUME TypeOK,
         NEW p \in Paths, NEW cs \in [Slots -> CallType], NEW b \in BOOLEAN,
         Render(p, cs, b)
  PROVE  /\ path' \in Paths
         /\ busy' \in BOOLEAN
         /\ calls' \in [Slots -> CallType]
         /\ \A j \in Slots : calls'[j].kind = cs[j].kind /\ calls'[j].who = cs[j].who
<1> DEFINE shown == IF p \notin Public /\ ~loading' /\ user' = NoOne THEN "/login" ELSE p
           stays == p = path /\ shown = path
           orphans == [j \in Slots |-> [cs[j] EXCEPT !.mine = FALSE]]
<1>1. path' = shown /\ busy' = (b /\ stays)
  BY DEF Render
<1>2. calls' = IF stays THEN cs ELSE orphans
  BY DEF Render
<1>3. path' \in Paths
  BY <1>1 DEF Paths, Public
<1>4. busy' \in BOOLEAN
  BY <1>1
<1>5. ASSUME NEW j \in Slots
      PROVE  /\ orphans[j] \in CallType
             /\ orphans[j].kind = cs[j].kind /\ orphans[j].who = cs[j].who
  BY DEF CallType
<1>6. orphans \in [Slots -> CallType]
  BY <1>5
<1>7. calls' \in [Slots -> CallType]
  BY <1>2, <1>6
<1>8. \A j \in Slots : calls'[j].kind = cs[j].kind /\ calls'[j].who = cs[j].who
  BY <1>2, <1>5
<1> QED BY <1>3, <1>4, <1>7, <1>8

\* The same for a rendering after which slot i holds the request c.
LEMMA RenderedWith ==
  ASSUME TypeOK,
         NEW p \in Paths, NEW i \in Slots, NEW c \in CallType, NEW b \in BOOLEAN,
         Render(p, [calls EXCEPT ![i] = c], b)
  PROVE  /\ path' \in Paths
         /\ busy' \in BOOLEAN
         /\ calls' \in [Slots -> CallType]
         /\ calls'[i].kind = c.kind /\ calls'[i].who = c.who
         /\ \A j \in Slots \ {i} :
              calls'[j].kind = calls[j].kind /\ calls'[j].who = calls[j].who
<1>1. calls \in [Slots -> CallType]
  BY DEF TypeOK
<1>2. [calls EXCEPT ![i] = c] \in [Slots -> CallType]
  BY <1>1
<1> QED BY <1>1, <1>2, Rendered

\* Every request written down by the actions is well-formed.
LEMMA CallTyped ==
  ASSUME NEW k \in Kinds, NEW w \in Maybe, NEW m \in BOOLEAN
  PROVE  Call(k, w, m) \in CallType /\ Call(k, w, m).kind = k /\ Call(k, w, m).who = w
BY DEF Call, CallType

\* The empty slot is well-formed.
LEMMA NoCallTyped == NoCall \in CallType /\ NoCall.kind = "none" /\ NoCall.who = NoOne
BY DEF NoCall, Call, CallType, Kinds, Maybe

\* A request in flight is about an account or nobody and knows its page.
LEMMA CallParts ==
  ASSUME TypeOK, NEW i \in Slots
  PROVE  calls[i].kind \in Kinds /\ calls[i].who \in Maybe /\ calls[i].mine \in BOOLEAN
BY DEF TypeOK, CallType

-----------------------------------------------------------------------------
(* When a step keeps the user with the token.                              *)

\* The request of slot i is none that asks for the profile of the token's owner.
Other(i) == ~(calls[i].kind \in {"profile", "me"} /\ calls[i].who = apiToken)

\* The session is left alone, and so is what the other slots ask for.
LEMMA SettledKept ==
  ASSUME Settled, strayed' = strayed, apiToken' = apiToken, user' = user,
         NEW i \in Slots, Other(i),
         \A j \in Slots \ {i} :
           calls'[j].kind = calls[j].kind /\ calls'[j].who = calls[j].who
  PROVE  Settled'
<1> SUFFICES ASSUME ~strayed', ~Asked' PROVE user' = apiToken'
  BY DEF Settled
<1>1. ASSUME NEW j \in Slots, calls[j].kind \in {"profile", "me"}, calls[j].who = apiToken
      PROVE  FALSE
  <2>1. j # i
    BY <1>1 DEF Other
  <2>2. calls'[j].kind \in {"profile", "me"} /\ calls'[j].who = apiToken'
    BY <1>1, <2>1
  <2> QED BY <2>2 DEF Asked
<1>2. ~Asked
  BY <1>1 DEF Asked
<1> QED BY <1>2 DEF Settled

\* A click that sends nothing and leaves the session alone.
LEMMA SettledClick ==
  ASSUME Settled, strayed' = strayed, apiToken' = apiToken, user' = user,
         \A j \in Slots :
           calls'[j].kind = calls[j].kind /\ calls'[j].who = calls[j].who
  PROVE  Settled'
<1> SUFFICES ASSUME ~strayed', ~Asked' PROVE user' = apiToken'
  BY DEF Settled
<1>1. ~Asked
  BY DEF Asked
<1> QED BY <1>1 DEF Settled

-----------------------------------------------------------------------------
(* What the three endings of a task leave in slot i.                       *)

\* The request is over.
LEMMA Finished ==
  ASSUME TypeOK, NEW p \in Paths, NEW i \in Slots, Done(i, p)
  PROVE  /\ path' \in Paths /\ busy' \in BOOLEAN /\ calls' \in [Slots -> CallType]
         /\ calls'[i].kind = "none"
         /\ \A j \in Slots \ {i} :
              calls'[j].kind = calls[j].kind /\ calls'[j].who = calls[j].who
<1> DEFINE b == busy /\ ~calls[i].mine
           c == NoCall
<1>1. b \in BOOLEAN /\ c \in CallType /\ c.kind = "none"
  BY NoCallTyped
<1>2. Render(p, [calls EXCEPT ![i] = c], b)
  BY DEF Done
<1> HIDE DEF b, c
<1> QED BY <1>1, <1>2, RenderedWith

\* Another request has taken its place.
LEMMA Continued ==
  ASSUME TypeOK, NEW i \in Slots, NEW k \in Kinds, NEW w \in Maybe, Then(i, k, w)
  PROVE  /\ path' \in Paths /\ busy' \in BOOLEAN /\ calls' \in [Slots -> CallType]
         /\ calls'[i].kind = k /\ calls'[i].who = w
         /\ \A j \in Slots \ {i} :
              calls'[j].kind = calls[j].kind /\ calls'[j].who = calls[j].who
<1> DEFINE c == Call(k, w, calls[i].mine)
<1>1. calls[i].mine \in BOOLEAN
  BY CallParts
<1>2. c \in CallType /\ c.kind = k /\ c.who = w
  BY <1>1, CallTyped
<1>3. path \in Paths /\ busy \in BOOLEAN
  BY DEF TypeOK
<1>4. Render(path, [calls EXCEPT ![i] = c], busy)
  BY DEF Then
<1> HIDE DEF c
<1> QED BY <1>2, <1>3, <1>4, RenderedWith

\* A first request has been sent.
LEMMA Submitted ==
  ASSUME TypeOK, NEW i \in Slots, NEW k \in Kinds, NEW w \in Maybe,
         Submit(i, Call(k, w, TRUE))
  PROVE  /\ path' \in Paths /\ busy' \in BOOLEAN /\ calls' \in [Slots -> CallType]
         /\ calls'[i].kind = k /\ calls'[i].who = w
         /\ \A j \in Slots \ {i} :
              calls'[j].kind = calls[j].kind /\ calls'[j].who = calls[j].who
<1> DEFINE c == Call(k, w, TRUE)
<1>1. c \in CallType /\ c.kind = k /\ c.who = w
  BY CallTyped
<1>2. path \in Paths
  BY DEF TypeOK
<1>3. Render(path, [calls EXCEPT ![i] = c], TRUE)
  BY DEF Submit
<1> HIDE DEF c
<1> QED BY <1>1, <1>2, <1>3, RenderedWith

-----------------------------------------------------------------------------
(* The actions preserve the invariant.                                     *)

\* A form sends its first request.
LEMMA SubmitStep ==
  ASSUME SessionInv, NEW i \in Slots, NEW w \in Maybe,
         NEW k \in {"login", "register", "setup", "verify"},
         Submit(i, Call(k, w, TRUE))
  PROVE  SessionInv'
<1>1. TypeOK /\ Copies /\ Settled
  BY DEF SessionInv
<1>2. k \in Kinds
  BY DEF Kinds
<1>3. /\ path' \in Paths /\ busy' \in BOOLEAN /\ calls' \in [Slots -> CallType]
      /\ \A j \in Slots \ {i} :
           calls'[j].kind = calls[j].kind /\ calls'[j].who = calls[j].who
  BY <1>1, <1>2, Submitted
<1>4. UNCHANGED <<stored, apiToken, token, user, loading, strayed, loads>>
  BY DEF Submit, session
<1>5. TypeOK'
  BY <1>1, <1>3, <1>4 DEF TypeOK
<1>6. Copies'
  BY <1>1, <1>4 DEF Copies
<1>7. Settled'
  <2>1. Other(i)
    BY DEF Submit, Free, Other
  <2> QED BY <1>1, <1>3, <1>4, <2>1, SettledKept
<1> QED BY <1>5, <1>6, <1>7 DEF SessionInv

\* A profile arrives, unreadable or not, or fails: the last word on the session.
LEMMA ProfileStep ==
  ASSUME SessionInv, NEW i \in Slots,
         ProfileArrives(i) \/ ProfileUnreadable(i) \/ ProfileFails(i)
  PROVE  SessionInv'
<1>1. TypeOK /\ Copies
  BY DEF SessionInv
<1>2. loading' = FALSE /\ UNCHANGED loads
  BY DEF ProfileArrives, ProfileUnreadable, ProfileFails
<1>3. Done(i, path) /\ path \in Paths
  BY <1>1 DEF ProfileArrives, ProfileUnreadable, ProfileFails, TypeOK
<1>4. path' \in Paths /\ busy' \in BOOLEAN /\ calls' \in [Slots -> CallType]
  BY <1>1, <1>3, Finished
<1>5. \/ /\ user' = calls[i].who /\ strayed' = (calls[i].who # apiToken)
         /\ UNCHANGED <<stored, apiToken, token>>
      \/ /\ user' = NoOne /\ strayed' = (apiToken # NoOne)
         /\ UNCHANGED <<stored, apiToken, token>>
      \/ /\ user' = NoOne /\ strayed' = FALSE
         /\ stored' = NoOne /\ apiToken' = NoOne /\ token' = NoOne
  BY DEF ProfileArrives, ProfileUnreadable, ProfileFails, SetToken, session
<1>6. TypeOK'
  <2>1. calls[i].who \in Maybe /\ NoOne \in Maybe
    BY <1>1, CallParts DEF Maybe
  <2>2. strayed' \in BOOLEAN
    BY <1>5
  <2> QED BY <1>1, <1>2, <1>4, <1>5, <2>1, <2>2 DEF TypeOK
<1>7. Copies'
  BY <1>1, <1>5 DEF Copies
<1>8. Settled'
  <2>1. CASE user' = NoOne /\ apiToken' = NoOne
    BY <2>1 DEF Settled
  <2>2. CASE user' = calls[i].who /\ apiToken' = apiToken /\ strayed' = (calls[i].who # apiToken)
    <3>1. strayed' \/ user' = apiToken'
      BY <2>2
    <3> QED BY <3>1 DEF Settled
  <2>3. CASE user' = NoOne /\ apiToken' = apiToken /\ strayed' = (apiToken # NoOne)
    <3>1. strayed' \/ user' = apiToken'
      BY <2>3
    <3> QED BY <3>1 DEF Settled
  <2> QED BY <1>5, <2>1, <2>2, <2>3
<1> QED BY <1>6, <1>7, <1>8 DEF SessionInv

\* A handler goes on to its next request: login after register, the profile
\* after login, the profile after a verified code.
LEMMA ContinueStep ==
  ASSUME SessionInv, NEW i \in Slots, NEW k \in {"login", "me", "profile"},
         NEW w \in Maybe, Then(i, k, w),
         UNCHANGED <<user, loading, strayed, loads>>,
         \/ k = "login" /\ calls[i].kind = "register" /\ UNCHANGED session
         \/ k = "me" /\ SetToken(w) /\ token' = w
         \/ k = "profile" /\ w = apiToken /\ UNCHANGED session
  PROVE  SessionInv'
<1>1. TypeOK /\ Copies /\ Settled
  BY DEF SessionInv
<1>2. k \in Kinds
  BY DEF Kinds
<1>3. /\ path' \in Paths /\ busy' \in BOOLEAN /\ calls' \in [Slots -> CallType]
      /\ calls'[i].kind = k /\ calls'[i].who = w
      /\ \A j \in Slots \ {i} :
           calls'[j].kind = calls[j].kind /\ calls'[j].who = calls[j].who
  BY <1>1, <1>2, Continued
<1>4. TypeOK'
  BY <1>1, <1>3 DEF TypeOK, session, SetToken
<1>5. Copies'
  BY <1>1 DEF Copies, session, SetToken
<1>6. Settled'
  <2>1. CASE k = "login"
    <3>1. Other(i) /\ apiToken' = apiToken
      BY <2>1 DEF Other, session
    <3> QED BY <1>1, <1>3, <3>1, SettledKept
  <2>2. CASE k \in {"me", "profile"}
    <3>1. w = apiToken'
      BY <2>2 DEF session, SetToken
    <3>2. calls'[i].kind \in {"profile", "me"} /\ calls'[i].who = apiToken'
      BY <1>3, <2>2, <3>1
    <3>3. Asked'
      BY <3>2 DEF Asked
    <3> QED BY <3>3 DEF Settled
  <2> QED BY <2>1, <2>2
<1> QED BY <1>4, <1>5, <1>6 DEF SessionInv

\* The last request of a handler settles without a word on the token, and
\* leaves the user to it or as he was.
LEMMA EndStep ==
  ASSUME SessionInv, NEW i \in Slots, NEW p \in Paths, Done(i, p),
         UNCHANGED <<session, loads>>,
         strayed' \in BOOLEAN, loading' \in BOOLEAN, user' \in Maybe,
         \/ ~strayed' => user' = apiToken
         \/ user' = user /\ strayed' = strayed /\ Other(i)
  PROVE  SessionInv'
<1>1. TypeOK /\ Copies /\ Settled
  BY DEF SessionInv
<1>2. /\ path' \in Paths /\ busy' \in BOOLEAN /\ calls' \in [Slots -> CallType]
      /\ \A j \in Slots \ {i} :
           calls'[j].kind = calls[j].kind /\ calls'[j].who = calls[j].who
  BY <1>1, Finished
<1>3. TypeOK'
  BY <1>1, <1>2 DEF TypeOK, session
<1>4. Copies'
  BY <1>1 DEF Copies, session
<1>5. Settled'
  <2>1. CASE ~strayed' => user' = apiToken
    BY <2>1 DEF Settled, session
  <2>2. CASE user' = user /\ strayed' = strayed /\ Other(i)
    BY <1>1, <1>2, <2>2, SettledKept DEF session
  <2> QED BY <2>1, <2>2
<1> QED BY <1>3, <1>4, <1>5 DEF SessionInv

\* Every settling of a request preserves the invariant.
LEMMA SettleStep ==
  ASSUME SessionInv, NEW i \in Slots, Settle(i)
  PROVE  SessionInv'
<1>1. TypeOK
  BY DEF SessionInv
<1>2. /\ calls[i].kind \in Kinds /\ calls[i].who \in Maybe
      /\ user \in Maybe /\ apiToken \in Maybe /\ NoOne \in Maybe
      /\ strayed \in BOOLEAN /\ loading \in BOOLEAN
      /\ path \in Paths /\ "/dashboard" \in Paths
  BY <1>1, CallParts DEF TypeOK, Maybe, Paths
<1>3. CASE ProfileArrives(i) \/ ProfileUnreadable(i) \/ ProfileFails(i)
  BY <1>3, ProfileStep
<1>4. CASE Registered(i)
  BY <1>2, <1>4, ContinueStep DEF Registered
<1>5. CASE LoginAccepted(i)
  BY <1>2, <1>5, ContinueStep DEF LoginAccepted
<1>6. CASE MeArrives(i) \/ MeUnreadable(i)
  <2>1. Done(i, "/dashboard") /\ UNCHANGED <<session, loading, loads>>
    BY <1>6 DEF MeArrives, MeUnreadable
  <2>2. \/ user' = calls[i].who /\ strayed' = (calls[i].who # apiToken)
        \/ user' = NoOne /\ strayed' = (apiToken # NoOne)
    BY <1>6 DEF MeArrives, MeUnreadable
  <2>3. strayed' \in BOOLEAN /\ user' \in Maybe /\ loading' \in BOOLEAN
    BY <1>2, <2>1, <2>2
  <2>4. ~strayed' => user' = apiToken
    <3>1. CASE user' = calls[i].who /\ strayed' = (calls[i].who # apiToken)
      BY <3>1
    <3>2. CASE user' = NoOne /\ strayed' = (apiToken # NoOne)
      BY <3>2
    <3> QED BY <2>2, <3>1, <3>2
  <2> QED BY <1>2, <2>1, <2>3, <2>4, EndStep
<1>7. CASE Verified(i)
  <2>1. UNCHANGED <<session, loads>>
    BY <1>7 DEF Verified
  <2>2. CASE apiToken = NoOne
    <3>1. user' = NoOne /\ loading' = FALSE /\ strayed' = FALSE /\ Done(i, path)
      BY <1>7, <2>2 DEF Verified
    <3> QED BY <1>2, <2>1, <2>2, <3>1, EndStep
  <2>3. CASE apiToken # NoOne
    <3>1. UNCHANGED <<user, loading, strayed>> /\ Then(i, "profile", apiToken)
      BY <1>7, <2>3 DEF Verified
    <3> QED BY <1>2, <2>1, <3>1, ContinueStep
  <2> QED BY <2>2, <2>3
<1>8. CASE SetUp(i)
  <2>1. Done(i, path) /\ Other(i)
    BY <1>8 DEF SetUp, Other
  <2> QED BY <1>2, <1>8, <2>1, EndStep DEF SetUp
<1>9. CASE Refused(i)
  <2>1. /\ calls[i].kind \in {"login", "register", "setup", "verify", "me"}
        /\ Done(i, path) /\ UNCHANGED <<session, user, loading, loads>>
        /\ strayed' = (strayed \/ (calls[i].kind = "me" /\ calls[i].who = apiToken))
    BY <1>9 DEF Refused
  <2>2. CASE calls[i].kind = "me" /\ calls[i].who = apiToken
    <3>1. strayed' = TRUE
      BY <2>1, <2>2
    <3> QED BY <1>2, <2>1, <3>1, EndStep
  <2>3. CASE ~(calls[i].kind = "me" /\ calls[i].who = apiToken)
    <3>1. strayed' = strayed /\ Other(i)
      BY <1>2, <2>1, <2>3 DEF Other
    <3> QED BY <1>2, <2>1, <3>1, EndStep
  <2> QED BY <2>2, <2>3
<1> QED BY <1>3, <1>4, <1>5, <1>6, <1>7, <1>8, <1>9 DEF Settle

\* A click that sends nothing and leaves the session alone.
LEMMA ClickStep ==
  ASSUME SessionInv, NEW p \in Paths, Render(p, calls, busy),
         UNCHANGED <<session, user, loading, strayed, loads>>
  PROVE  SessionInv'
<1>1. TypeOK /\ Copies /\ Settled
  BY DEF SessionInv
<1>2. /\ path' \in Paths /\ busy' \in BOOLEAN /\ calls' \in [Slots -> CallType]
      /\ \A j \in Slots :
           calls'[j].kind = calls[j].kind /\ calls'[j].who = calls[j].who
  <2>1. busy \in BOOLEAN /\ calls \in [Slots -> CallType]
    BY <1>1 DEF TypeOK
  <2> QED BY <1>1, <2>1, Rendered
<1>3. TypeOK'
  BY <1>1, <1>2 DEF TypeOK, session
<1>4. Copies'
  BY <1>1 DEF Copies, session
<1>5. Settled'
  BY <1>1, <1>2, SettledClick DEF session
<1> QED BY <1>3, <1>4, <1>5 DEF SessionInv

\* Logging out empties all copies.
LEMMA LogoutStep ==
  ASSUME SessionInv, Logout
  PROVE  SessionInv'
<1>1. TypeOK
  BY DEF SessionInv
<1>2. /\ stored' = NoOne /\ apiToken' = NoOne /\ token' = NoOne /\ user' = NoOne
      /\ strayed' = FALSE /\ UNCHANGED <<loading, loads>>
      /\ Render(path, calls, busy)
  BY DEF Logout, SetToken
<1>3. path' \in Paths /\ busy' \in BOOLEAN /\ calls' \in [Slots -> CallType]
  <2>1. path \in Paths /\ busy \in BOOLEAN /\ calls \in [Slots -> CallType]
    BY <1>1 DEF TypeOK
  <2> QED BY <1>1, <1>2, <2>1, Rendered
<1>4. TypeOK'
  <2>1. NoOne \in Maybe
    BY DEF Maybe
  <2> QED BY <1>1, <1>2, <1>3, <2>1 DEF TypeOK
<1>5. Copies' /\ Settled'
  BY <1>2 DEF Copies, Settled
<1> QED BY <1>4, <1>5 DEF SessionInv

\* Loading the document starts over from sessionStorage.
LEMMA LoadStep ==
  ASSUME SessionInv, NEW p \in Paths, Load(p)
  PROVE  SessionInv'
<1>1. TypeOK /\ Copies
  BY DEF SessionInv
<1>2. /\ apiToken' = stored /\ token' = stored /\ stored' = stored /\ user' = NoOne
      /\ loading' = (stored # NoOne) /\ busy' = FALSE /\ strayed' = FALSE
      /\ path' = IF p \in Public \/ loading' THEN p ELSE "/login"
      /\ loads < MaxLoads /\ loads' = loads + 1
  BY DEF Load
<1>3. 1 \in Slots
  BY BoundsAssumption DEF Slots
<1>4. calls' = [i \in Slots |-> IF i = 1 /\ stored # NoOne
                               THEN Call("profile", stored, FALSE) ELSE NoCall]
  BY DEF Load
<1>5. stored \in Maybe
  BY <1>1 DEF TypeOK
<1>6. /\ Call("profile", stored, FALSE) \in CallType
      /\ Call("profile", stored, FALSE).kind = "profile"
      /\ Call("profile", stored, FALSE).who = stored
  <2>1. "profile" \in Kinds /\ FALSE \in BOOLEAN
    BY DEF Kinds
  <2> QED BY <1>5, <2>1, CallTyped
<1>7. calls' \in [Slots -> CallType]
  BY <1>4, <1>6, NoCallTyped
<1>8. stored # NoOne => Asked'
  <2> SUFFICES ASSUME stored # NoOne PROVE Asked'
    OBVIOUS
  <2>1. calls'[1].kind = "profile" /\ calls'[1].who = apiToken'
    BY <1>2, <1>3, <1>4, <1>6
  <2> QED BY <1>3, <2>1 DEF Asked
<1>10. TypeOK'
  <2>1. path' \in Paths
    BY <1>2 DEF Paths, Public
  <2>2. loads' \in 0..MaxLoads
    BY <1>1, <1>2, BoundsAssumption DEF TypeOK
  <2>3. loading' \in BOOLEAN /\ NoOne \in Maybe
    BY <1>2 DEF Maybe
  <2> QED BY <1>2, <1>5, <1>7, <2>1, <2>2, <2>3 DEF TypeOK
<1>11. Copies'
  BY <1>2 DEF Copies
<1>12. Settled'
  BY <1>2, <1>8 DEF Settled
<1> QED BY <1>10, <1>11, <1>12 DEF SessionInv

-----------------------------------------------------------------------------
(* The theorems.                                                           *)

\* A tab nobody has signed in to.
LEMMA SessionInit == Init => SessionInv
<1> SUFFICES ASSUME Init PROVE SessionInv
  OBVIOUS
<1>1. calls \in [Slots -> CallType] /\ \A i \in Slots : calls[i].kind = "none"
  BY NoCallTyped DEF Init
<1>2. TypeOK
  <2>1. loads \in 0..MaxLoads
    BY BoundsAssumption DEF Init
  <2>2. "/login" \in Paths /\ NoOne \in Maybe
    BY DEF Paths, Public, Maybe
  <2> QED BY <1>1, <2>1, <2>2 DEF Init, TypeOK
<1>3. Copies
  BY DEF Init, Copies
<1>4. Settled
  BY DEF Init, Settled
<1> QED BY <1>2, <1>3, <1>4 DEF SessionInv

\* SessionInv is inductive.
LEMMA SessionStep == SessionInv /\ [Next]_vars => SessionInv'
<1> SUFFICES ASSUME SessionInv, [Next]_vars PROVE SessionInv'
  OBVIOUS
<1>1. ASSUME NEW p \in Visits, Load(p) PROVE SessionInv'
  BY <1>1, VisitsAssumption, LoadStep
<1>2. CASE FollowLink
  <2>1. PICK p \in Public \ {path} : Render(p, calls, busy)
    BY <1>2 DEF FollowLink
  <2>2. p \in Paths
    BY <2>1 DEF Paths
  <2> QED BY <1>2, <2>1, <2>2, ClickStep DEF FollowLink
<1>3. ASSUME NEW p \in Visits, OpenPage(p) PROVE SessionInv'
  <2>1. p \in Paths
    BY VisitsAssumption
  <2> QED BY <1>3, <2>1, ClickStep DEF OpenPage
<1>4. ASSUME NEW i \in Slots, NEW a \in Accounts,
             SubmitLogin(i, a) \/ SubmitRegister(i, a)
      PROVE  SessionInv'
  <2>1. a \in Maybe
    BY DEF Maybe
  <2> QED BY <1>4, <2>1, SubmitStep DEF SubmitLogin, SubmitRegister
<1>5. ASSUME NEW i \in Slots, SubmitCode(i) \/ SubmitSetup(i)
      PROVE  SessionInv'
  <2>1. apiToken \in Maybe
    BY DEF SessionInv, TypeOK
  <2> QED BY <1>5, <2>1, SubmitStep DEF SubmitCode, SubmitSetup
<1>6. CASE Logout
  BY <1>6, LogoutStep
<1>7. ASSUME NEW i \in Slots, Settle(i) PROVE SessionInv'
  BY <1>7, SettleStep
<1>8. CASE UNCHANGED vars
  <2>1. UNCHANGED <<stored, apiToken, token, user, loading, path, busy, calls, strayed, loads>>
    BY <1>8 DEF vars
  <2>2. TypeOK' /\ Copies'
    BY <2>1 DEF SessionInv, TypeOK, Copies
  <2>3. Settled'
    BY <2>1, SettledClick DEF SessionInv
  <2> QED BY <2>2, <2>3 DEF SessionInv
<1> QED BY <1>1, <1>2, <1>3, <1>4, <1>5, <1>6, <1>7, <1>8 DEF Next

\* The invariant of the session in sessionStorage, in AuthProvider and in ApiClient.
THEOREM SessionInvariant == Spec => []SessionInv
BY SessionInit, SessionStep, PTL DEF Spec

\* The variables of AuthProvider and ApiClient keep their types.
THEOREM SessionTypeCorrect == Spec => []TypeOK
<1>1. SessionInv => TypeOK
  BY DEF SessionInv
<1> QED BY <1>1, SessionInvariant, PTL

\* The copies of the token agree, and nobody but its owner is on the screen once
\* no profile is asked for under it, whatever overlapped, unless a profile of
\* another token or none was stored or a login lost its profile request.
THEOREM SessionsAgree == Spec => []SessionAgrees
<1>1. SessionInv => SessionAgrees
  BY DEF SessionInv, Copies, Settled, SessionAgrees
<1> QED BY <1>1, SessionInvariant, PTL

-----------------------------------------------------------------------------
(* The doors.                                                              *)

\* Sidebar and App spell out the same roles for every page.
LEMMA LinksFollowRoutes ==
  ASSUME NEW p \in Paths \ Public
  PROVE  LinkRoles(p) = RouteRoles(p)
<1>1. CASE p \in {"/users", "/roles", "/audit"}
  BY <1>1 DEF LinkRoles, RouteRoles
<1>2. CASE p = "/policies"
  BY <1>2 DEF LinkRoles, RouteRoles, AllRoles
<1>3. CASE p \in {"/dashboard", "/applications", "/security", "/settings"}
  BY <1>3 DEF LinkRoles, RouteRoles
<1> QED BY <1>1, <1>2, <1>3 DEF Paths

\* Whoever the server serves a list is let in by App, and nobody else but the
\* analyst at the audit page.
LEMMA RoutesFollowServer ==
  ASSUME NEW a \in Accounts, NEW p \in {"/users", "/audit"}
  PROVE  HasRole(a, RouteRoles(p)) <=> Expected(a, p)
<1>1. a # NoOne
  BY NoOneAssumption
<1>2. CASE p = "/users"
  BY <1>1, <1>2 DEF HasRole, RouteRoles, ServerRoles, Expected
<1>3. CASE p = "/audit"
  BY <1>1, <1>3 DEF HasRole, RouteRoles, ServerRoles, Expected
<1> QED BY <1>2, <1>3

\* The doors of App, of its menu and of the server agree but for the analyst.
THEOREM DoorsAlwaysAgree == Spec => []DoorsAgree
<1>1. ASSUME SessionInv PROVE DoorsAgree
  <2>1. ASSUME NEW a \in Accounts, NEW p \in Paths \ Public
        PROVE  HasRole(a, LinkRoles(p)) <=> HasRole(a, RouteRoles(p))
    BY LinksFollowRoutes
  <2>2. ASSUME ~strayed, ~Asked, InApp, path \in {"/users", "/audit"}
        PROVE  (Screen = path) <=> Expected(apiToken, path)
    <3>1. user = apiToken
      BY <1>1, <2>2 DEF SessionInv, Settled
    <3>2. user \in Accounts
      BY <1>1, <2>2 DEF SessionInv, TypeOK, Maybe, InApp
    <3>3. Screen = IF HasRole(user, RouteRoles(path)) THEN path ELSE "forbidden"
      BY <2>2 DEF Screen, InApp
    <3>4. path # "forbidden"
      BY <2>2
    <3>5. (Screen = path) <=> HasRole(user, RouteRoles(path))
      BY <3>3, <3>4
    <3> QED BY <2>2, <3>1, <3>2, <3>5, RoutesFollowServer
  <2> QED BY <2>1, <2>2 DEF DoorsAgree
<1> QED BY <1>1, SessionInvariant, PTL

-----------------------------------------------------------------------------
(* The spinners.                                                           *)

\* A button is disabled, b, just as long as one of the requests cs is its own.
Waits(cs, b) ==
  /\ b <=> \E i \in Slots : cs[i].mine
  /\ \A i, j \in Slots : cs[i].mine /\ cs[j].mine => i = j

\* A rendering keeps it so: a page that is left has neither button nor request.
LEMMA RenderWaits ==
  ASSUME NEW p \in Paths, NEW cs \in [Slots -> CallType], NEW b \in BOOLEAN,
         Render(p, cs, b), Waits(cs, b)
  PROVE  Waits(calls', busy')
<1> DEFINE orphans == [j \in Slots |-> [cs[j] EXCEPT !.mine = FALSE]]
<1>1. \/ calls' = cs /\ busy' = b
      \/ calls' = orphans /\ busy' = FALSE
  BY DEF Render
<1>2. CASE calls' = cs /\ busy' = b
  BY <1>2 DEF Waits
<1>3. CASE calls' = orphans /\ busy' = FALSE
  <2>1. \A j \in Slots : orphans[j].mine = FALSE
    BY DEF CallType
  <2> QED
    BY <1>3, <2>1 DEF Waits
<1> QED
  BY <1>1, <1>2, <1>3

\* The fields of a request.
LEMMA CallMine ==
  ASSUME NEW k \in Kinds, NEW w \in Maybe, NEW m \in BOOLEAN
  PROVE  /\ Call(k, w, m) \in CallType
         /\ Call(k, w, m).kind = k /\ Call(k, w, m).mine = m
BY DEF Call, CallType

\* The request in slot i gives way to c, after which its button is as b says.
LEMMA ReplaceWaits ==
  ASSUME TypeOK, NEW p \in Paths, NEW i \in Slots, NEW c \in CallType, NEW b \in BOOLEAN,
         Render(p, [calls EXCEPT ![i] = c], b),
         Waits(calls, busy),
         \/ ~busy /\ c.mine /\ b
         \/ c.mine = calls[i].mine /\ b = busy
         \/ ~c.mine /\ b = (busy /\ ~calls[i].mine)
  PROVE  Waits(calls', busy')
<1> DEFINE cs == [calls EXCEPT ![i] = c]
<1>1. calls \in [Slots -> CallType] /\ busy \in BOOLEAN
  BY DEF TypeOK
<1>2. cs \in [Slots -> CallType]
  BY <1>1
<1>3. cs[i].mine = c.mine /\ \A j \in Slots \ {i} : cs[j].mine = calls[j].mine
  BY <1>1
<1>4. \A j \in Slots : calls[j].mine \in BOOLEAN
  BY <1>1 DEF CallType
<1>5. c.mine \in BOOLEAN
  BY DEF CallType
<1>6. Render(p, cs, b)
  OBVIOUS
<1> HIDE DEF cs
<1>7. CASE ~busy /\ c.mine /\ b
  <2>1. \A j \in Slots : ~calls[j].mine
    BY <1>7 DEF Waits
  <2>2. Waits(cs, b)
    BY <1>3, <1>7, <2>1 DEF Waits
  <2> QED
    BY <1>2, <1>6, <2>2, RenderWaits
<1>8. CASE c.mine = calls[i].mine /\ b = busy
  <2>1. \A j \in Slots : cs[j].mine = calls[j].mine
    BY <1>3, <1>8
  <2>2. Waits(cs, b)
    BY <1>8, <2>1 DEF Waits
  <2> QED
    BY <1>2, <1>6, <2>2, RenderWaits
<1>9. CASE ~c.mine /\ b = (busy /\ ~calls[i].mine)
  <2>1. \A j \in Slots : cs[j].mine <=> j # i /\ calls[j].mine
    BY <1>3, <1>9
  <2>2. Waits(cs, b)
    <3>1. CASE calls[i].mine
      BY <1>9, <2>1, <3>1 DEF Waits
    <3>2. CASE ~calls[i].mine
      BY <1>9, <2>1, <3>2 DEF Waits
    <3> QED
      BY <3>1, <3>2
  <2> QED
    BY <1>2, <1>6, <2>2, RenderWaits
<1> QED
  BY <1>7, <1>8, <1>9

\* While the spinner turns, a profile is asked for.
Awaited == loading => \E i \in Slots : calls[i].kind = "profile"

\* It goes on to be asked for when another request than it takes a slot.
LEMMA AwaitedOn ==
  ASSUME TypeOK, Awaited, UNCHANGED loading, NEW i \in Slots,
         calls[i].kind # "profile",
         \A j \in Slots \ {i} : calls'[j].kind = calls[j].kind
  PROVE  Awaited'
<1> SUFFICES ASSUME loading PROVE \E j \in Slots : calls'[j].kind = "profile"
  BY DEF Awaited
<1>1. PICK j \in Slots : calls[j].kind = "profile"
  BY DEF Awaited
<1>2. j # i
  BY <1>1
<1> QED
  BY <1>1, <1>2

\* A click that sends nothing.
LEMMA OwedClick ==
  ASSUME TypeOK, SpinnersAreOwed, NEW p \in Paths, Render(p, calls, busy), UNCHANGED loading
  PROVE  SpinnersAreOwed'
<1>1. calls \in [Slots -> CallType] /\ busy \in BOOLEAN
  BY DEF TypeOK
<1>2. Waits(calls', busy')
  BY <1>1, RenderWaits DEF SpinnersAreOwed, Waits
<1>3. \A j \in Slots : calls'[j].kind = calls[j].kind
  BY <1>1, Rendered
<1> QED
  BY <1>2, <1>3 DEF SpinnersAreOwed, Waits

\* A request takes the place of another, or a free one, that was no profile.
LEMMA OwedStep ==
  ASSUME TypeOK, SpinnersAreOwed, NEW p \in Paths, NEW i \in Slots, NEW c \in CallType,
         NEW b \in BOOLEAN, Render(p, [calls EXCEPT ![i] = c], b),
         \/ ~busy /\ c.mine /\ b
         \/ c.mine = calls[i].mine /\ b = busy
         \/ ~c.mine /\ b = (busy /\ ~calls[i].mine),
         \/ loading' = FALSE
         \/ UNCHANGED loading /\ calls[i].kind # "profile"
  PROVE  SpinnersAreOwed'
<1>1. Waits(calls, busy) /\ Awaited
  BY DEF SpinnersAreOwed, Waits, Awaited
<1>2. Waits(calls', busy')
  BY <1>1, ReplaceWaits
<1>3. \A j \in Slots \ {i} : calls'[j].kind = calls[j].kind
  BY RenderedWith
<1>4. Awaited'
  <2>1. CASE loading' = FALSE
    BY <2>1 DEF Awaited
  <2>2. CASE UNCHANGED loading /\ calls[i].kind # "profile"
    BY <1>1, <1>3, <2>2, AwaitedOn
  <2> QED
    BY <2>1, <2>2
<1> QED
  BY <1>2, <1>4 DEF SpinnersAreOwed, Waits, Awaited

\* A form is sent.
LEMMA OwedSubmit ==
  ASSUME TypeOK, SpinnersAreOwed, NEW i \in Slots, NEW k \in Kinds, NEW w \in Maybe,
         Submit(i, Call(k, w, TRUE))
  PROVE  SpinnersAreOwed'
<1> DEFINE c == Call(k, w, TRUE)
<1>1. c \in CallType /\ c.mine = TRUE
  BY CallMine
<1>2. Render(path, [calls EXCEPT ![i] = c], TRUE)
  BY DEF Submit
<1>3. ~busy /\ UNCHANGED loading /\ calls[i].kind # "profile" /\ path \in Paths
  BY DEF Submit, Free, TypeOK
<1> HIDE DEF c
<1> QED
  BY <1>1, <1>2, <1>3, OwedStep

\* A request is over.
LEMMA OwedDone ==
  ASSUME TypeOK, SpinnersAreOwed, NEW i \in Slots, NEW p \in Paths, Done(i, p),
         \/ loading' = FALSE
         \/ UNCHANGED loading /\ calls[i].kind # "profile"
  PROVE  SpinnersAreOwed'
<1>1. NoCall \in CallType /\ NoCall.mine = FALSE
  BY CallMine DEF NoCall, Kinds, Maybe
<1>2. busy \in BOOLEAN /\ calls[i].mine \in BOOLEAN
  BY DEF TypeOK, CallType
<1>3. Render(p, [calls EXCEPT ![i] = NoCall], busy /\ ~calls[i].mine)
  BY DEF Done
<1> DEFINE b == busy /\ ~calls[i].mine
<1>4. b \in BOOLEAN /\ b = (busy /\ ~calls[i].mine)
  OBVIOUS
<1>5. Render(p, [calls EXCEPT ![i] = NoCall], b)
  BY <1>3
<1> HIDE DEF b
<1> QED
  BY <1>1, <1>4, <1>5, OwedStep

\* A request is followed by the next of the same handler.
LEMMA OwedThen ==
  ASSUME TypeOK, SpinnersAreOwed, NEW i \in Slots, NEW k \in Kinds, NEW w \in Maybe,
         Then(i, k, w), UNCHANGED loading, calls[i].kind # "profile"
  PROVE  SpinnersAreOwed'
<1> DEFINE c == Call(k, w, calls[i].mine)
<1>1. busy \in BOOLEAN /\ calls[i].mine \in BOOLEAN /\ path \in Paths
  BY DEF TypeOK, CallType
<1>2. c \in CallType /\ c.mine = calls[i].mine
  BY <1>1, CallMine
<1>3. Render(path, [calls EXCEPT ![i] = c], busy)
  BY DEF Then
<1> HIDE DEF c
<1> QED
  BY <1>1, <1>2, <1>3, OwedStep

\* Whichever way a request settles.
LEMMA OwedSettle ==
  ASSUME TypeOK, SpinnersAreOwed, NEW i \in Slots, Settle(i)
  PROVE  SpinnersAreOwed'
<1>1. path \in Paths /\ "/dashboard" \in Paths /\ apiToken \in Maybe /\ calls[i].who \in Maybe
  BY DEF TypeOK, Paths, CallType
<1>2. CASE ProfileArrives(i) \/ ProfileUnreadable(i) \/ ProfileFails(i)
  BY <1>1, <1>2, OwedDone DEF ProfileArrives, ProfileUnreadable, ProfileFails
<1>3. CASE Registered(i)
  <2>1. "login" \in Kinds /\ Then(i, "login", calls[i].who)
        /\ UNCHANGED loading /\ calls[i].kind # "profile"
    BY <1>3 DEF Registered, Kinds
  <2> QED
    BY <1>1, <2>1, OwedThen
<1>4. CASE LoginAccepted(i)
  <2>1. "me" \in Kinds /\ Then(i, "me", calls[i].who)
        /\ UNCHANGED loading /\ calls[i].kind # "profile"
    BY <1>4 DEF LoginAccepted, Kinds
  <2> QED
    BY <1>1, <2>1, OwedThen
<1>5. CASE MeArrives(i) \/ MeUnreadable(i)
  BY <1>1, <1>5, OwedDone DEF MeArrives, MeUnreadable
<1>6. CASE Verified(i)
  <2>1. CASE loading' = FALSE /\ Done(i, path)
    BY <1>1, <2>1, OwedDone
  <2>2. CASE Then(i, "profile", apiToken) /\ UNCHANGED loading
    <3>1. "profile" \in Kinds /\ calls[i].kind # "profile"
      BY <1>6 DEF Verified, Kinds
    <3> QED
      BY <1>1, <2>2, <3>1, OwedThen
  <2> QED
    BY <1>6, <2>1, <2>2 DEF Verified
<1>7. CASE SetUp(i)
  BY <1>1, <1>7, OwedDone DEF SetUp
<1>8. CASE Refused(i)
  BY <1>1, <1>8, OwedDone DEF Refused
<1> QED
  BY <1>2, <1>3, <1>4, <1>5, <1>6, <1>7, <1>8 DEF Settle

\* The document is loaded: no form, and a profile is asked for if it spins.
LEMMA OwedLoad ==
  ASSUME NEW p \in Paths, Load(p)
  PROVE  SpinnersAreOwed'
<1>1. busy' = FALSE /\ loading' = (stored # NoOne)
  BY DEF Load
<1>2. calls' = [i \in Slots |-> IF i = 1 /\ stored # NoOne
                                THEN Call("profile", stored, FALSE) ELSE NoCall]
  BY DEF Load
<1>3. \A i \in Slots : calls'[i].mine = FALSE
  BY <1>2 DEF Call, NoCall
<1>4. 1 \in Slots
  BY BoundsAssumption DEF Slots
<1>5. stored # NoOne => calls'[1].kind = "profile"
  BY <1>2, <1>4 DEF Call
<1> QED
  BY <1>1, <1>3, <1>4, <1>5 DEF SpinnersAreOwed

\* The spinner of ProtectedRoute always waits for a profile request, and a
\* button of a form for exactly one request of its own, for any number of
\* requests in flight and whatever was left, reloaded or logged out meanwhile.
THEOREM SpinnersAlwaysOwed == Spec => []SpinnersAreOwed
<1>1. Init => SpinnersAreOwed
  <2> SUFFICES ASSUME Init PROVE SpinnersAreOwed
    OBVIOUS
  <2>1. \A i \in Slots : calls[i].mine = FALSE
    BY DEF Init, NoCall, Call
  <2> QED
    BY <2>1 DEF Init, SpinnersAreOwed
<1>2. TypeOK /\ SpinnersAreOwed /\ [Next]_vars => SpinnersAreOwed'
  <2> SUFFICES ASSUME TypeOK, SpinnersAreOwed, [Next]_vars PROVE SpinnersAreOwed'
    OBVIOUS
  <2>1. path \in Paths
    BY DEF TypeOK
  <2>2. ASSUME NEW p \in Visits, Load(p) PROVE SpinnersAreOwed'
    BY <2>2, VisitsAssumption, OwedLoad
  <2>3. CASE FollowLink
    <3>1. PICK p \in Public \ {path} : Render(p, calls, busy)
      BY <2>3 DEF FollowLink
    <3>2. p \in Paths /\ UNCHANGED loading
      BY <2>3, <3>1 DEF FollowLink, Paths
    <3> QED
      BY <3>1, <3>2, OwedClick
  <2>4. ASSUME NEW p \in Visits, OpenPage(p) PROVE SpinnersAreOwed'
    BY <2>4, OwedClick DEF OpenPage
  <2>5. ASSUME NEW i \in Slots, NEW a \in Accounts,
               SubmitLogin(i, a) \/ SubmitRegister(i, a)
        PROVE  SpinnersAreOwed'
    <3>1. a \in Maybe /\ "login" \in Kinds /\ "register" \in Kinds
      BY DEF Maybe, Kinds
    <3> QED
      BY <2>5, <3>1, OwedSubmit DEF SubmitLogin, SubmitRegister
  <2>6. ASSUME NEW i \in Slots, SubmitCode(i) \/ SubmitSetup(i)
        PROVE  SpinnersAreOwed'
    <3>1. apiToken \in Maybe /\ "verify" \in Kinds /\ "setup" \in Kinds
      BY DEF TypeOK, Kinds
    <3> QED
      BY <2>6, <3>1, OwedSubmit DEF SubmitCode, SubmitSetup
  <2>7. CASE Logout
    BY <2>1, <2>7, OwedClick DEF Logout
  <2>8. ASSUME NEW i \in Slots, Settle(i) PROVE SpinnersAreOwed'
    BY <2>8, OwedSettle
  <2>9. CASE UNCHANGED vars
    BY <2>9 DEF vars, SpinnersAreOwed
  <2> QED
    BY <2>2, <2>3, <2>4, <2>5, <2>6, <2>7, <2>8, <2>9 DEF Next
<1> QED
  BY <1>1, <1>2, SessionTypeCorrect, PTL DEF Spec
=============================================================================
