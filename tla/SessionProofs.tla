--------------------------- MODULE SessionProofs ---------------------------
(***************************************************************************)
(* Theorems about Session, for any tabs, pages and bounds: its types; that *)
(* a sign-in has one living refresh token at most; that a logout which met *)
(* the token of a sign-in ends it for good; and that whatever waits for a  *)
(* refresh has one under way.                                              *)
(*                                                                         *)
(* A refresh token taken by GetDel and not yet replaced is in nobody's     *)
(* store, but the request that took it will bring a new one.  The          *)
(* invariant therefore speaks of the tokens held: stored, taken by a tab,  *)
(* or taken by a request whose tab is gone.                                *)
(***************************************************************************)
EXTENDS Session, TLAPS

Taken(t) == refresh[t].st = "taken"

Held(n) == n \in store \/ n \in orphans \/ \E t \in Tab : Taken(t) /\ refresh[t].ref = n

\* A token is held in one place only.
HeldOnce ==
    /\ store \intersect orphans = {}
    /\ \A t \in Tab : Taken(t) => /\ refresh[t].ref \in Token
                                  /\ refresh[t].ref \notin store \union orphans
    /\ \A t, u \in Tab : Taken(t) /\ Taken(u) /\ refresh[t].ref = refresh[u].ref => t = u

OneHeld == \A m, n \in Token : Held(m) /\ Held(n) /\ issued[m] = issued[n] => m = n

EndedNotHeld == \A n \in Token : Held(n) => issued[n] \notin ended

\* Only sign-ins that took place have ended.
EndedLogins == ended \subseteq Token

SessionInv == TypeOK /\ HeldOnce /\ OneHeld /\ EndedNotHeld /\ EndedLogins

-----------------------------------------------------------------------------

\* A new pair extends what was issued and leaves the rest as it was.
LEMMA IssueExtends ==
    ASSUME TypeOK, NEW login \in Nat, Issue(login)
    PROVE  /\ issued' \in Seq(Nat)
           /\ Len(issued') = Fresh
           /\ issued'[Fresh] = login
           /\ \A n \in Token : n \in Token' /\ issued'[n] = issued[n]
           /\ Token' = Token \union {Fresh}
           /\ Fresh \notin Token /\ Fresh \in Nat
           /\ store' = store \union {Fresh}
           /\ login \in Token' => Logins' \subseteq Token'
  <1>1. issued \in Seq(Nat) /\ \A n \in Token : issued[n] \in Token
    BY DEF TypeOK, Logins
  <1>2. issued' = Append(issued, login) /\ store' = store \union {Fresh}
    BY DEF Issue
  <1>3. issued' \in Seq(Nat) /\ Len(issued') = Len(issued) + 1 /\ Len(issued) \in Nat
    BY <1>1, <1>2
  <1>4. Token' = Token \union {Fresh} /\ Fresh \notin Token /\ Fresh \in Nat
    BY <1>3 DEF Token, Fresh
  <1>5. issued'[Fresh] = login /\ \A n \in Token : issued'[n] = issued[n]
    BY <1>1, <1>2, <1>3 DEF Token, Fresh
  <1>6. login \in Token' => Logins' \subseteq Token'
    BY <1>1, <1>4, <1>5 DEF Logins
  <1> QED BY <1>2, <1>3, <1>4, <1>5, <1>6 DEF Fresh

TabType == [token : Token \union {None}, signedIn : BOOLEAN, loading : BOOLEAN, page : Pages]
CallsOver(T) == [me : T, data : T, first : T, login : T, logout : T]
CallsType == CallsOver(CallType)
RefreshType == [st : Outcome, ref : Token \union {None}, tok : Token \union {None}]

\* The layout leaves a tab a tab, wherever it sends it.
LEMMA GuardedTyped ==
    ASSUME NEW tab \in TabType
    PROVE  Guarded(tab) \in TabType /\ SignedOut(tab) \in TabType /\ SignedIn(tab) \in TabType
  BY DEF TabType, Guarded, SignedOut, SignedIn, Pages

\* The middleware answers with a page of the client.
LEMMA MiddlewareTyped ==
    ASSUME NEW page \in Pages, NEW target \in Middleware(page)
    PROVE  target \in Pages
  BY HomeAssumption DEF Middleware, Pages

\* Requests and refreshes sent now carry tokens that were issued.
LEMMA SentTyped ==
    ASSUME TypeOK, NEW n \in Token \union {None}, NEW c \in CallsType
    PROVE  Sent(n) \in CallType /\ Asking(c, n) \in CallsType /\ Released(c) \in CallsType
  <1>1. Idle \in CallType /\ Sent(n) \in CallType
    BY DEF TypeOK, Sent, Idle, CallType, Outcome
  <1> QED BY <1>1 DEF Asking, Released, CallsType, CallsOver

\* One call of a tab is replaced by another.
LEMMA CallReplaced ==
    ASSUME NEW T, NEW c \in CallsOver(T), NEW x \in T
    PROVE  /\ [c EXCEPT !.me = x] \in CallsOver(T)
           /\ [c EXCEPT !.data = x] \in CallsOver(T)
           /\ [c EXCEPT !.first = x] \in CallsOver(T)
           /\ [c EXCEPT !.login = x] \in CallsOver(T)
           /\ [c EXCEPT !.logout = x] \in CallsOver(T)
  BY DEF CallsOver

LEMMA RefreshingTyped ==
    ASSUME TypeOK, NEW t \in Tab
    PROVE  Refreshing(t) \in [Tab -> RefreshType]
  <1>1. refresh \in [Tab -> RefreshType] /\ jar.refresh \in Token \union {None}
    BY DEF TypeOK, RefreshType
  <1>2. [NoRefresh EXCEPT !.st = "sent", !.ref = jar.refresh] \in RefreshType
    BY <1>1 DEF NoRefresh, RefreshType, Outcome
  <1> QED BY <1>1, <1>2 DEF Refreshing

LEMMA FetchMeTyped ==
    ASSUME TypeOK, NEW t \in Tab, NEW n \in Token \union {None}, FetchMe(t, n)
    PROVE  calls' \in [Tab -> CallsType] /\ refresh' \in [Tab -> RefreshType]
  <1>1. calls \in [Tab -> CallsType] /\ refresh \in [Tab -> RefreshType]
    BY DEF TypeOK, CallsType, CallsOver, RefreshType
  <1>2. [calls EXCEPT ![t].first = Waiting] \in [Tab -> CallsType]
    <2>1. Waiting \in CallType
      BY DEF CallType, Waiting, Idle, Outcome
    <2> QED BY <1>1, <2>1, CallReplaced DEF CallsType
  <1>3. [calls EXCEPT ![t] = Asking(@, n)] \in [Tab -> CallsType]
    BY <1>1, SentTyped
  <1> QED BY <1>1, <1>2, <1>3, RefreshingTyped DEF FetchMe

\* The types, in the parts the steps disturb.
ServerTyped == /\ issued \in Seq(Nat) /\ Logins \subseteq Token
               /\ store \subseteq Token /\ dead \subseteq Token
               /\ ended \subseteq Nat /\ orphans \subseteq Token
JarTyped == jar \in [access : Token \union {None}, refresh : Token \union {None}]
ClientTyped == tabs \in [Tab -> TabType] /\ calls \in [Tab -> CallsType]

LEMMA TypeParts ==
    TypeOK <=> /\ ServerTyped /\ JarTyped /\ ClientTyped
               /\ refresh \in [Tab -> RefreshType]
               /\ mishaps \in 0 .. MaxMishaps
  BY DEF TypeOK, ServerTyped, JarTyped, ClientTyped, TabType, CallsType, CallsOver, RefreshType

\* What the user does keeps the types.
LEMMA UserTypes ==
    ASSUME TypeOK, HeldOnce, NEW t \in Tab, User(t)
    PROVE  TypeOK'
  <1>t. /\ ServerTyped /\ JarTyped /\ ClientTyped /\ mishaps \in 0 .. MaxMishaps
        /\ refresh \in [Tab -> RefreshType]
    BY TypeParts
  <1>c. Idle \in CallType /\ Waiting \in CallType /\ NoCalls \in CallsType /\ NoRefresh \in RefreshType
    BY DEF Idle, Waiting, NoCalls, NoRefresh, CallType, CallsType, CallsOver, RefreshType, Outcome
  <1>1. ASSUME NEW page \in Pages, Visit(t, page) PROVE TypeOK'
    <2>1. PICK target \in Middleware(page) :
            /\ tabs' = [tabs EXCEPT ![t] = Guarded([@ EXCEPT !.page = target])]
            /\ IF Protected(target) THEN FetchMe(t, tabs[t].token) ELSE UNCHANGED <<calls, refresh>>
      BY <1>1 DEF Visit
    <2>2. tabs' \in [Tab -> TabType]
      <3>1. [tabs[t] EXCEPT !.page = target] \in TabType
        BY <1>t, MiddlewareTyped DEF ClientTyped, TabType
      <3> QED BY <1>t, <2>1, <3>1, GuardedTyped DEF ClientTyped
    <2>3. calls' \in [Tab -> CallsType] /\ refresh' \in [Tab -> RefreshType]
      <3>1. tabs[t].token \in Token \union {None}
        BY <1>t DEF ClientTyped, TabType
      <3> QED BY <1>t, <2>1, <3>1, FetchMeTyped DEF ClientTyped
    <2>4. UNCHANGED <<server, jar, orphans, mishaps>>
      BY <1>1 DEF Visit
    <2> QED BY <1>t, <2>2, <2>3, <2>4
         DEF server, TypeOK, ServerTyped, JarTyped, Token, Logins, TabType, CallsType, CallsOver, CallType, RefreshType
  <1>2. ASSUME NEW page \in Pages, Load(t, page) PROVE TypeOK'
    <2>1. PICK target \in Middleware(page) :
            tabs' = [tabs EXCEPT ![t] = [token |-> None, signedIn |-> FALSE,
                                         loading |-> TRUE, page |-> target]]
      BY <1>2 DEF Load
    <2>2. tabs' \in [Tab -> TabType]
      BY <1>t, <2>1, MiddlewareTyped DEF ClientTyped, TabType
    <2>3. calls' \in [Tab -> CallsType]
      <3>1. [NoCalls EXCEPT !.first = Waiting] \in CallsType
        BY <1>c, CallReplaced DEF CallsType
      <3> QED BY <1>t, <1>c, <1>2, <3>1 DEF Load, ClientTyped
    <2>4. refresh' \in [Tab -> RefreshType]
      <3>1. [NoRefresh EXCEPT !.st = "sent", !.ref = jar.refresh] \in RefreshType
        BY <1>t DEF JarTyped, NoRefresh, RefreshType, Outcome
      <3> QED BY <1>t, <1>c, <1>2, <3>1 DEF Load
    <2>5. orphans' \subseteq Token
      <3>1. Taken(t) => refresh[t].ref \in Token
        BY DEF HeldOnce
      <3>2. orphans' = IF refresh[t].st = "taken" THEN orphans \union {refresh[t].ref} ELSE orphans
        BY <1>2 DEF Load
      <3> QED BY <1>t, <3>1, <3>2 DEF ServerTyped, Taken
    <2>6. UNCHANGED <<server, jar>> /\ mishaps' \in 0 .. MaxMishaps
      BY <1>t, <1>2, BoundsAssumption DEF Load, Mishap
    <2> QED BY <1>t, <2>2, <2>3, <2>4, <2>5, <2>6
         DEF server, TypeOK, ServerTyped, JarTyped, Token, Logins, TabType, CallsType, CallsOver, CallType, RefreshType
  <1>3. CASE SubmitLogin(t)
    <2>1. Issue(Fresh) /\ Fresh \in Nat
      BY <1>3, <1>t DEF SubmitLogin, Fresh, ServerTyped
    <2>2. /\ Token \subseteq Token' /\ Fresh \in Token' /\ issued' \in Seq(Nat)
          /\ Logins' \subseteq Token' /\ store' \subseteq Token'
      BY <1>t, <2>1, IssueExtends DEF ServerTyped
    <2>3. calls' \in [Tab -> CallsOver(CallType')]
      <3>1. [st |-> "given", tok |-> Fresh] \in CallType' /\ CallType \subseteq CallType'
        BY <2>2 DEF CallType, Outcome
      <3>2. calls \in [Tab -> CallsOver(CallType')]
        BY <1>t, <3>1 DEF ClientTyped, CallsType, CallsOver
      <3> HIDE DEF CallType
      <3> QED BY <1>3, <3>1, <3>2, CallReplaced DEF SubmitLogin
    <2>4. UNCHANGED <<dead, ended, jar, tabs, refresh, orphans, mishaps>>
      BY <1>3 DEF SubmitLogin
    <2> QED BY <1>t, <2>2, <2>3, <2>4
         DEF TypeOK, ServerTyped, JarTyped, ClientTyped, TabType, CallsType, CallsOver, RefreshType
  <1>4. CASE HandleLogout(t)
    <2>1. calls' \in [Tab -> CallsType]
      <3>1. PICK st \in Outcome : calls' = [calls EXCEPT ![t].logout.st = st]
        BY <1>4 DEF HandleLogout, Outcome
      <3>2. calls[t] \in CallsType /\ [calls[t].logout EXCEPT !.st = st] \in CallType
        BY <1>t DEF ClientTyped, CallsType, CallsOver, CallType
      <3> QED BY <1>t, <3>1, <3>2, CallReplaced DEF ClientTyped, CallsType
    <2>2. dead' \subseteq Token
      <3>1. tabs[t].token \in Token \union {None} /\ jar.access \in Token \union {None}
        BY <1>t DEF ClientTyped, TabType, JarTyped
      <3> QED BY <1>t, <1>4, <3>1 DEF HandleLogout, ServerTyped
    <2>3. store' \subseteq Token
      BY <1>t, <1>4 DEF HandleLogout, ServerTyped
    <2>4. ended' \subseteq Nat
      <3>1. \A n \in store : issued[n] \in Nat
        BY <1>t DEF ServerTyped, Token
      <3> QED BY <1>t, <1>4, <3>1 DEF HandleLogout, ServerTyped
    <2>5. UNCHANGED <<issued, jar, tabs, refresh, orphans, mishaps>>
      BY <1>4 DEF HandleLogout
    <2> QED BY <1>t, <2>1, <2>2, <2>3, <2>4, <2>5
         DEF TypeOK, ServerTyped, JarTyped, ClientTyped, Token, Logins, TabType, CallsType, CallsOver, CallType, RefreshType
  <1>5. CASE Poll(t)
    <2>1. calls' \in [Tab -> CallsType] /\ refresh' \in [Tab -> RefreshType]
      BY <1>t, <1>c, <1>5, RefreshingTyped, CallReplaced DEF Poll, ClientTyped, CallsType
    <2>2. UNCHANGED <<server, jar, tabs, orphans, mishaps>>
      BY <1>5 DEF Poll
    <2> QED BY <1>t, <2>1, <2>2
         DEF server, TypeOK, ServerTyped, JarTyped, ClientTyped, Token, Logins, TabType, CallsType, CallsOver, CallType, RefreshType
  <1> QED BY <1>1, <1>2, <1>3, <1>4, <1>5 DEF User

\* So does the service.
LEMMA ServiceTypes ==
    ASSUME TypeOK, HeldOnce, NEW t \in Tab, Service(t)
    PROVE  TypeOK'
  <1>t. /\ ServerTyped /\ JarTyped /\ ClientTyped /\ mishaps \in 0 .. MaxMishaps
        /\ refresh \in [Tab -> RefreshType]
    BY TypeParts
  <1>c. Idle \in CallType /\ Waiting \in CallType /\ NoRefresh \in RefreshType
    BY DEF Idle, Waiting, NoRefresh, CallType, RefreshType, Outcome
  <1>1. CASE ServeRefresh(t)
    <2>1. refresh' \in [Tab -> RefreshType] /\ store' \subseteq Token
      BY <1>t, <1>1 DEF ServeRefresh, NoRefresh, RefreshType, Outcome, ServerTyped
    <2>2. UNCHANGED <<issued, dead, ended, jar, tabs, calls, orphans, mishaps>>
      BY <1>1 DEF ServeRefresh
    <2> QED BY <1>t, <2>1, <2>2
         DEF TypeOK, ServerTyped, JarTyped, ClientTyped, Token, Logins, TabType, CallsType, CallsOver, CallType, RefreshType
  <1>2. CASE RotateRefresh(t)
    <2>1. UNCHANGED <<dead, ended, jar, tabs, calls, orphans, mishaps>>
      BY <1>2 DEF RotateRefresh
    <2>2. CASE /\ Issue(issued[refresh[t].ref])
               /\ refresh' = [refresh EXCEPT ![t] = [NoRefresh EXCEPT !.st = "given", !.tok = Fresh]]
      <3>1. issued[refresh[t].ref] \in Token
        BY <1>t, <1>2 DEF RotateRefresh, HeldOnce, Taken, ServerTyped, Logins
      <3>2. issued[refresh[t].ref] \in Nat
        BY <3>1 DEF Token
      <3>3. /\ Token \subseteq Token' /\ Fresh \in Token' /\ issued' \in Seq(Nat)
            /\ Logins' \subseteq Token' /\ store' \subseteq Token'
        BY <1>t, <2>2, <3>1, <3>2, IssueExtends DEF ServerTyped
      <3>4. refresh' \in [Tab -> [st : Outcome, ref : Token' \union {None}, tok : Token' \union {None}]]
        BY <1>t, <2>2, <3>3 DEF NoRefresh, RefreshType, Outcome
      <3> QED BY <1>t, <2>1, <3>3, <3>4
           DEF TypeOK, ServerTyped, JarTyped, ClientTyped, TabType, CallsType, CallType
    <2>3. CASE /\ refresh' = [refresh EXCEPT ![t] = [NoRefresh EXCEPT !.st = "refused"]]
               /\ UNCHANGED <<issued, store>>
      <3>1. refresh' \in [Tab -> RefreshType]
        BY <1>t, <2>3 DEF NoRefresh, RefreshType, Outcome
      <3> QED BY <1>t, <2>1, <2>3, <3>1
           DEF TypeOK, ServerTyped, JarTyped, ClientTyped, Token, Logins, TabType, CallsType, CallsOver, CallType, RefreshType
    <2> QED BY <1>2, <2>2, <2>3 DEF RotateRefresh
  <1>3. CASE ServeMe(t)
    <2>1. [Idle EXCEPT !.st = "yes"] \in CallType
      BY DEF Idle, CallType, Outcome
    <2>2. calls' \in [Tab -> CallsType] /\ refresh' \in [Tab -> RefreshType]
      <3>1. calls \in [Tab -> CallsOver(CallType)]
        BY <1>t DEF ClientTyped, CallsType
      <3>2. [calls EXCEPT ![t].me = Waiting] \in [Tab -> CallsOver(CallType)]
        BY <1>c, <3>1, CallReplaced
      <3>3. [calls EXCEPT ![t].me = [Idle EXCEPT !.st = "yes"]] \in [Tab -> CallsOver(CallType)]
        BY <2>1, <3>1, CallReplaced
      <3> QED BY <1>t, <1>3, <3>2, <3>3, RefreshingTyped DEF ServeMe, CallsType
    <2>3. UNCHANGED <<server, jar, tabs, orphans, mishaps>>
      BY <1>3 DEF ServeMe
    <2> QED BY <1>t, <2>2, <2>3
         DEF server, TypeOK, ServerTyped, JarTyped, ClientTyped, Token, Logins, TabType, CallsType, CallsOver, CallType, RefreshType
  <1> QED BY <1>1, <1>2, <1>3 DEF Service

\* So do the answers.
LEMMA ArrivalTypes ==
    ASSUME TypeOK, NEW t \in Tab, Arrival(t)
    PROVE  TypeOK'
  <1>t. /\ ServerTyped /\ JarTyped /\ ClientTyped /\ mishaps \in 0 .. MaxMishaps
        /\ refresh \in [Tab -> RefreshType]
    BY TypeParts
  <1>c. Idle \in CallType /\ NoRefresh \in RefreshType /\ WithoutPair \in [access : {None}, refresh : {None}]
    BY DEF Idle, NoRefresh, CallType, RefreshType, Outcome, WithoutPair
  <1>m. ASSUME NEW st, Lost(st) \/ \E sts \in SUBSET Outcome : Arrived(st, sts) PROVE mishaps' \in 0 .. MaxMishaps
    BY <1>m, <1>t, BoundsAssumption DEF Lost, Arrived, Mishap
  <1>u. ASSUME UNCHANGED <<server, orphans>>, JarTyped', ClientTyped', mishaps' \in 0 .. MaxMishaps,
               refresh' \in [Tab -> RefreshType]
        PROVE  TypeOK'
    BY <1>t, <1>u DEF server, TypeOK, ServerTyped, JarTyped, ClientTyped, Token, Logins, TabType, CallsType, CallsOver, CallType, RefreshType
  <1>v. tabs[t] \in TabType /\ calls[t] \in CallsType /\ refresh[t] \in RefreshType
    BY <1>t DEF ClientTyped
  <1>w. calls \in [Tab -> CallsOver(CallType)]
    BY <1>t DEF ClientTyped, CallsType
  <1>1. CASE RefreshGiven(t)
    <2>1. refresh[t].tok \in Token \union {None}
      BY <1>v DEF RefreshType
    <2>2. JarTyped'
      BY <1>t, <1>1, <2>1 DEF RefreshGiven, WithPair, server, JarTyped, Token
    <2>3. tabs' \in [Tab -> TabType]
      BY <1>t, <1>1, <2>1 DEF RefreshGiven, ClientTyped, TabType
    <2>4. calls' \in [Tab -> CallsType]
      <3> DEFINE again == [calls[t] EXCEPT !.first = Idle, !.data = Idle,
                             !.me = IF @.st = "waiting" THEN Sent(refresh[t].tok) ELSE @]
      <3>1. Sent(refresh[t].tok) \in CallType /\ calls[t] \in CallsOver(CallType) /\ calls[t].me \in CallType
        BY <1>v, <2>1, SentTyped DEF CallsType, CallsOver
      <3>2. again \in CallsOver(CallType)
        BY <1>c, <3>1 DEF CallsOver
      <3>3. Asking(again, refresh[t].tok) \in CallsOver(CallType)
        BY <3>2, <2>1, SentTyped DEF CallsType
      <3>4. calls' = [calls EXCEPT ![t] = IF calls[t].first.st = "waiting"
                                           THEN Asking(again, refresh[t].tok) ELSE again]
        BY <1>1 DEF RefreshGiven
      <3> HIDE DEF again
      <3> QED BY <1>w, <3>2, <3>3, <3>4 DEF CallsType
    <2>5. refresh' \in [Tab -> RefreshType] /\ UNCHANGED <<server, orphans>> /\ mishaps' = mishaps
      BY <1>t, <1>c, <1>1 DEF RefreshGiven, Arrived
    <2>6. ClientTyped'
      BY <2>3, <2>4, <2>5 DEF ClientTyped, TabType, CallsType, CallsOver, CallType, server, Token
    <2>7. refresh' \in [Tab -> RefreshType'] /\ TabType' = TabType
      BY <2>5 DEF RefreshType, TabType, server, Token
    <2> QED BY <1>t, <1>u, <2>2, <2>5, <2>6
  <1>2. CASE RefreshFailed(t)
    <2>1. jar' \in [access : Token \union {None}, refresh : Token \union {None}]
          /\ mishaps' \in 0 .. MaxMishaps
      BY <1>t, <1>c, <1>2, BoundsAssumption
         DEF RefreshFailed, Refused, Lost, Arrived, Mishap, WithoutPair, JarTyped
    <2>2. tabs' \in [Tab -> TabType]
      <3>1. SignedOut(tabs[t]) \in TabType
        BY <1>v, GuardedTyped
      <3>2. Guarded(SignedOut(tabs[t])) \in TabType
        BY <3>1, GuardedTyped
      <3>3. [SignedOut(tabs[t]) EXCEPT !.token = None, !.page = "public"] \in TabType
        BY <3>1 DEF TabType, Pages
      <3> QED BY <1>t, <1>v, <1>2, <3>2, <3>3 DEF RefreshFailed, ClientTyped
    <2>3. calls' \in [Tab -> CallsType]
      <3>1. Released(calls[t]) \in CallsType
        BY <1>v, SentTyped
      <3> QED BY <1>t, <1>2, <3>1 DEF RefreshFailed, ClientTyped
    <2>4. refresh' \in [Tab -> RefreshType] /\ UNCHANGED <<server, orphans>>
      BY <1>t, <1>c, <1>2 DEF RefreshFailed
    <2>5. JarTyped' /\ ClientTyped'
      BY <2>1, <2>2, <2>3, <2>4
         DEF JarTyped, ClientTyped, TabType, CallsType, CallsOver, CallType, server, Token
    <2> QED BY <1>u, <2>1, <2>4, <2>5
  <1>3. CASE MeReturns(t)
    <2>1. tabs' \in [Tab -> TabType] /\ mishaps' \in 0 .. MaxMishaps
      <3>1. SignedIn(tabs[t]) \in TabType /\ [SignedOut(tabs[t]) EXCEPT !.token = None] \in TabType
        BY <1>v, GuardedTyped DEF TabType
      <3>2. Guarded(SignedIn(tabs[t])) \in TabType /\ Guarded([SignedOut(tabs[t]) EXCEPT !.token = None]) \in TabType
        BY <3>1, GuardedTyped
      <3> QED BY <1>t, <1>3, <3>2, BoundsAssumption
           DEF MeReturns, ClientTyped, Arrived, Lost, Mishap
    <2>2. calls' \in [Tab -> CallsType]
      BY <1>w, <1>c, <1>3, CallReplaced DEF MeReturns, CallsType
    <2>3. UNCHANGED <<server, jar, refresh, orphans>>
      BY <1>3 DEF MeReturns
    <2>4. JarTyped' /\ ClientTyped'
      BY <1>t, <2>1, <2>2, <2>3
         DEF JarTyped, ClientTyped, TabType, CallsType, CallsOver, CallType, server, Token
    <2> QED BY <1>t, <1>u, <2>1, <2>3, <2>4
  <1>4. CASE LoginReturns(t)
    <2>1. calls[t].login.tok \in Token \union {None}
      BY <1>v DEF CallsType, CallsOver, CallType
    <2>2. jar' \in [access : Token \union {None}, refresh : Token \union {None}]
          /\ mishaps' \in 0 .. MaxMishaps
      BY <1>t, <1>4, <2>1, BoundsAssumption
         DEF LoginReturns, WithPair, JarTyped, Arrived, Lost, Mishap
    <2>3. tabs' \in [Tab -> TabType]
      <3>1. SignedIn(tabs[t]) \in TabType
        BY <1>v, GuardedTyped
      <3>2. [SignedIn(tabs[t]) EXCEPT !.token = calls[t].login.tok, !.page = Home(Role)] \in TabType
        BY <2>1, <3>1, HomeAssumption DEF TabType, Pages
      <3> QED BY <1>t, <1>4, <3>2 DEF LoginReturns, ClientTyped
    <2>4. calls' \in [Tab -> CallsType]
      <3>1. [calls[t] EXCEPT !.login = Idle] \in CallsType
        BY <1>c, <1>v, CallReplaced DEF CallsType
      <3>2. Asking([calls[t] EXCEPT !.login = Idle], calls[t].login.tok) \in CallsType
        BY <2>1, <3>1, SentTyped
      <3> QED BY <1>t, <1>w, <1>4, <3>1, <3>2 DEF LoginReturns, ClientTyped
    <2>5. UNCHANGED <<server, refresh, orphans>>
      BY <1>4 DEF LoginReturns
    <2>6. JarTyped' /\ ClientTyped'
      BY <2>2, <2>3, <2>4, <2>5
         DEF JarTyped, ClientTyped, TabType, CallsType, CallsOver, CallType, server, Token
    <2> QED BY <1>t, <1>u, <2>2, <2>5, <2>6
  <1>5. CASE LogoutReturns(t)
    <2>1. jar' \in [access : Token \union {None}, refresh : Token \union {None}]
          /\ mishaps' \in 0 .. MaxMishaps
      BY <1>t, <1>5, BoundsAssumption
         DEF LogoutReturns, WithoutPair, JarTyped, Arrived, Lost, Mishap
    <2>2. tabs' \in [Tab -> TabType]
      <3>1. [SignedOut(tabs[t]) EXCEPT !.token = None] \in TabType
        BY <1>v, GuardedTyped DEF TabType
      <3>2. Guarded([SignedOut(tabs[t]) EXCEPT !.token = None]) \in TabType
        BY <3>1, GuardedTyped
      <3> QED BY <1>t, <1>5, <3>2 DEF LogoutReturns, ClientTyped
    <2>3. calls' \in [Tab -> CallsType]
      BY <1>w, <1>c, <1>5, CallReplaced DEF LogoutReturns, CallsType
    <2>4. UNCHANGED <<server, refresh, orphans>>
      BY <1>5 DEF LogoutReturns
    <2>5. JarTyped' /\ ClientTyped'
      BY <2>1, <2>2, <2>3, <2>4
         DEF JarTyped, ClientTyped, TabType, CallsType, CallsOver, CallType, server, Token
    <2> QED BY <1>t, <1>u, <2>1, <2>4, <2>5
  <1> QED BY <1>1, <1>2, <1>3, <1>4, <1>5 DEF Arrival

\* So do the requests of tabs that are gone, and time.
LEMMA OtherTypes ==
    ASSUME TypeOK,
           \/ \E r \in orphans : RotateOrphan(r)
           \/ \E n \in Token : LapseAccess(n) \/ LapseRefresh(n)
           \/ UNCHANGED vars
    PROVE  TypeOK'
  <1>t. /\ ServerTyped /\ JarTyped /\ ClientTyped /\ mishaps \in 0 .. MaxMishaps
        /\ refresh \in [Tab -> RefreshType]
    BY TypeParts
  <1>1. ASSUME NEW r \in orphans, RotateOrphan(r) PROVE TypeOK'
    <2>1. UNCHANGED <<dead, ended, jar, tabs, calls, refresh, mishaps>> /\ orphans' \subseteq orphans
      BY <1>1 DEF RotateOrphan
    <2>2. CASE Issue(issued[r])
      <3>1. issued[r] \in Token /\ issued[r] \in Nat
        BY <1>t, <1>1 DEF ServerTyped, Logins, Token
      <3>2. /\ Token \subseteq Token' /\ issued' \in Seq(Nat)
            /\ Logins' \subseteq Token' /\ store' \subseteq Token'
        BY <1>t, <2>2, <3>1, IssueExtends DEF ServerTyped
      <3> QED BY <1>t, <2>1, <3>2
           DEF TypeOK, ServerTyped, JarTyped, ClientTyped, TabType, CallsType, CallsOver, CallType, RefreshType
    <2>3. CASE UNCHANGED <<issued, store>>
      BY <1>t, <2>1, <2>3
         DEF TypeOK, ServerTyped, JarTyped, ClientTyped, Token, Logins, TabType, CallsType, CallsOver, CallType, RefreshType
    <2> QED BY <1>1, <2>2, <2>3 DEF RotateOrphan
  <1>2. ASSUME NEW n \in Token, LapseAccess(n) PROVE TypeOK'
    <2>1. jar' \in [access : Token \union {None}, refresh : Token \union {None}] /\ dead' \subseteq Token
      BY <1>t, <1>2 DEF LapseAccess, JarTyped, ServerTyped
    <2>2. UNCHANGED <<issued, store, ended, tabs, calls, refresh, orphans, mishaps>>
      BY <1>2 DEF LapseAccess
    <2> QED BY <1>t, <2>1, <2>2
         DEF TypeOK, ServerTyped, ClientTyped, Token, Logins, TabType, CallsType, CallsOver, CallType, RefreshType
  <1>3. ASSUME NEW n \in Token, LapseRefresh(n) PROVE TypeOK'
    <2>1. jar' \in [access : Token \union {None}, refresh : Token \union {None}] /\ store' \subseteq Token
          /\ mishaps' \in 0 .. MaxMishaps
      BY <1>t, <1>3, BoundsAssumption DEF LapseRefresh, Mishap, JarTyped, ServerTyped
    <2>2. UNCHANGED <<issued, dead, ended, tabs, calls, refresh, orphans>>
      BY <1>3 DEF LapseRefresh
    <2> QED BY <1>t, <2>1, <2>2
         DEF TypeOK, ServerTyped, ClientTyped, Token, Logins, TabType, CallsType, CallsOver, CallType, RefreshType
  <1>4. CASE UNCHANGED vars
    BY <1>t, <1>4
       DEF vars, TypeOK, ServerTyped, JarTyped, ClientTyped, Token, Logins, TabType, CallsType, CallsOver, CallType, RefreshType
  <1> QED BY <1>1, <1>2, <1>3, <1>4

-----------------------------------------------------------------------------

\* What matters of a step for the refresh tokens: a step that brings no new one
\* holds no token that was not held, and holds each in one place.
NoneGained ==
    /\ UNCHANGED issued
    /\ \A n \in Token : Held(n)' => Held(n)
    /\ HeldOnce'

LEMMA NoneGainedSuffices ==
    ASSUME SessionInv, NoneGained, TypeOK', UNCHANGED ended
    PROVE  SessionInv'
  <1>1. Token' = Token
    BY DEF NoneGained, Token
  <1>2. OneHeld' /\ EndedNotHeld' /\ EndedLogins'
    BY <1>1 DEF SessionInv, NoneGained, OneHeld, EndedNotHeld, EndedLogins
  <1> QED BY <1>2 DEF SessionInv, NoneGained

\* A rotation replaces a held token by a new one of the same sign-in.
LEMMA RotationSuffices ==
    ASSUME SessionInv, NEW r \in Token, Held(r), TypeOK', HeldOnce',
           Issue(issued[r]), UNCHANGED ended,
           \A n \in Token : Held(n)' => Held(n) /\ n # r
    PROVE  SessionInv'
  <1>1. issued[r] \in Token /\ issued[r] \in Nat
    BY DEF SessionInv, TypeOK, Logins, Token
  <1>2. /\ issued'[Fresh] = issued[r]
        /\ \A n \in Token : n \in Token' /\ issued'[n] = issued[n]
        /\ Token' = Token \union {Fresh}
        /\ Fresh \notin Token
    BY <1>1, IssueExtends DEF SessionInv
  <1>3. OneHeld'
    <2> SUFFICES ASSUME NEW m \in Token', NEW n \in Token', Held(m)', Held(n)', issued'[m] = issued'[n]
                 PROVE  m = n
      BY DEF OneHeld
    <2>1. CASE m \in Token /\ n \in Token
      BY <1>2, <2>1 DEF SessionInv, OneHeld
    <2>2. CASE m = Fresh /\ n \in Token
      BY <1>2, <2>2 DEF SessionInv, OneHeld
    <2>3. CASE n = Fresh /\ m \in Token
      BY <1>2, <2>3 DEF SessionInv, OneHeld
    <2> QED BY <1>2, <2>1, <2>2, <2>3
  <1>4. EndedNotHeld'
    <2> SUFFICES ASSUME NEW n \in Token', Held(n)' PROVE issued'[n] \notin ended
      BY DEF EndedNotHeld
    <2>1. CASE n \in Token
      BY <1>2, <2>1 DEF SessionInv, EndedNotHeld
    <2>2. CASE n = Fresh
      BY <1>2, <2>2 DEF SessionInv, EndedNotHeld
    <2> QED BY <1>2, <2>1, <2>2
  <1> QED BY <1>2, <1>3, <1>4 DEF SessionInv, EndedLogins

\* Most steps take no token from the store and bring none.
LEMMA QuietSuffices ==
    ASSUME SessionInv, TypeOK', UNCHANGED <<issued, ended>>,
           store' \subseteq store, orphans' \subseteq orphans,
           \A u \in Tab : Taken(u)' => Taken(u) /\ refresh'[u].ref = refresh[u].ref
    PROVE  SessionInv'
  <1>1. Token' = Token
    BY DEF Token
  <1>2. \A n \in Token : Held(n)' => Held(n)
    BY DEF Held
  <1>3. HeldOnce'
    BY <1>1 DEF SessionInv, HeldOnce
  <1> QED BY <1>2, <1>3, NoneGainedSuffices DEF NoneGained

LEMMA RefreshingQuiet ==
    ASSUME SessionInv, NEW t \in Tab, refresh' = Refreshing(t) \/ UNCHANGED refresh
    PROVE  \A u \in Tab : Taken(u)' => Taken(u) /\ refresh'[u].ref = refresh[u].ref
  <1>1. refresh \in [Tab -> RefreshType]
    BY TypeParts DEF SessionInv
  <1> QED BY <1>1 DEF Refreshing, NoRefresh, Taken

\* A step of the user, the service, the network or time keeps the invariant.
LEMMA SessionStep ==
    ASSUME SessionInv, [Next]_vars
    PROVE  SessionInv'
  <1>i. /\ TypeOK /\ HeldOnce /\ refresh \in [Tab -> RefreshType]
        /\ issued \in Seq(Nat) /\ store \subseteq Token /\ orphans \subseteq Token
        /\ \A n \in Token : issued[n] \in Token /\ issued[n] \in Nat
    BY TypeParts DEF SessionInv, ServerTyped, Logins, Token
  <1>t. TypeOK'
    <2>1. CASE \E t \in Tab : User(t) \/ Service(t) \/ Arrival(t)
      BY <1>i, <2>1, UserTypes, ServiceTypes, ArrivalTypes
    <2>2. CASE ~\E t \in Tab : User(t) \/ Service(t) \/ Arrival(t)
      BY <1>i, <2>2, OtherTypes DEF Next
    <2> QED BY <2>1, <2>2
  <1>1. ASSUME NEW t \in Tab, NEW page \in Pages, Visit(t, page) PROVE SessionInv'
    <2>1. refresh' = Refreshing(t) \/ UNCHANGED refresh
      BY <1>1 DEF Visit, FetchMe
    <2> QED BY <1>1, <1>t, <2>1, RefreshingQuiet, QuietSuffices DEF Visit, server
  <1>2. ASSUME NEW t \in Tab, NEW page \in Pages, Load(t, page) PROVE SessionInv'
    <2>1. /\ UNCHANGED <<issued, store, ended>>
          /\ orphans' = IF Taken(t) THEN orphans \union {refresh[t].ref} ELSE orphans
          /\ \E x \in RefreshType : x.st # "taken" /\ refresh' = [refresh EXCEPT ![t] = x]
      <3>1. [NoRefresh EXCEPT !.st = "sent", !.ref = jar.refresh] \in RefreshType /\ NoRefresh \in RefreshType
        BY <1>i DEF TypeOK, NoRefresh, RefreshType, Outcome
      <3>2. [NoRefresh EXCEPT !.st = "sent", !.ref = jar.refresh].st # "taken" /\ NoRefresh.st # "taken"
        BY DEF NoRefresh
      <3> QED BY <1>2, <3>1, <3>2 DEF Load, server, Taken
    <2>2. ~Taken(t)' /\ \A u \in Tab : u # t => refresh'[u] = refresh[u]
      BY <1>i, <2>1 DEF Taken
    <2>3. Token' = Token
      BY <2>1 DEF Token
    <2>4. HeldOnce'
      BY <1>i, <2>1, <2>2, <2>3 DEF HeldOnce, Taken
    <2>5. \A n \in Token : Held(n)' => Held(n)
      BY <2>1, <2>2 DEF Held, Taken
    <2> QED BY <1>t, <2>1, <2>4, <2>5, NoneGainedSuffices DEF NoneGained
  <1>3. ASSUME NEW t \in Tab, SubmitLogin(t) PROVE SessionInv'
    <2>1. Issue(Fresh) /\ Fresh \in Nat /\ UNCHANGED <<ended, refresh, orphans>>
      BY <1>i, <1>3 DEF SubmitLogin, Fresh
    <2>2. /\ issued'[Fresh] = Fresh
          /\ \A n \in Token : n \in Token' /\ issued'[n] = issued[n]
          /\ Token' = Token \union {Fresh} /\ Fresh \notin Token
          /\ store' = store \union {Fresh}
      BY <1>i, <2>1, IssueExtends
    <2>3. \A n \in Token : Held(n)' => Held(n)
      BY <2>1, <2>2 DEF Held, Taken
    <2>4. HeldOnce'
      BY <1>i, <2>1, <2>2 DEF HeldOnce, Taken
    <2>5. OneHeld'
      BY <1>i, <2>2, <2>3 DEF SessionInv, OneHeld
    <2>6. EndedNotHeld' /\ EndedLogins'
      BY <1>i, <2>1, <2>2, <2>3 DEF SessionInv, EndedNotHeld, EndedLogins
    <2> QED BY <1>t, <2>4, <2>5, <2>6 DEF SessionInv
  <1>4. ASSUME NEW t \in Tab, HandleLogout(t) PROVE SessionInv'
    <2> DEFINE r == jar.refresh
    <2>1. /\ store' = store \ {r} /\ UNCHANGED <<issued, refresh, orphans>>
          /\ ended' = ended \union {issued[n] : n \in store \intersect {r}}
      BY <1>4 DEF HandleLogout
    <2>2. Token' = Token
      BY <2>1 DEF Token
    <2>3. HeldOnce'
      BY <1>i, <2>1, <2>2 DEF HeldOnce, Taken
    <2>4. \A n \in Token : Held(n)' => Held(n) /\ (n = r => r \notin store)
      BY <1>i, <2>1 DEF Held, HeldOnce, Taken
    <2>5. OneHeld'
      BY <2>1, <2>2, <2>4 DEF SessionInv, OneHeld
    <2>6. EndedNotHeld'
      <3> SUFFICES ASSUME NEW n \in Token, Held(n)' PROVE issued[n] \notin ended'
        BY <2>1, <2>2 DEF EndedNotHeld
      <3>1. Held(n) /\ issued[n] \notin ended
        BY <2>4 DEF SessionInv, EndedNotHeld
      <3>2. ASSUME r \in store PROVE issued[n] # issued[r]
        BY <1>i, <2>4, <3>1, <3>2 DEF SessionInv, OneHeld, Held
      <3> QED BY <2>1, <3>1, <3>2
    <2>7. EndedLogins'
      BY <1>i, <2>1, <2>2 DEF SessionInv, EndedLogins
    <2> QED BY <1>t, <2>3, <2>5, <2>6, <2>7 DEF SessionInv
  <1>5. ASSUME NEW t \in Tab, Poll(t) PROVE SessionInv'
    BY <1>5, <1>t, RefreshingQuiet, QuietSuffices DEF Poll, server
  <1>6. ASSUME NEW t \in Tab, ServeRefresh(t) PROVE SessionInv'
    <2> DEFINE r == refresh[t].ref
    <2>1. store' = store \ {r} /\ UNCHANGED <<issued, ended, orphans>> /\ Token' = Token
      BY <1>6 DEF ServeRefresh, Token
    <2>2. \A u \in Tab : u # t => refresh'[u] = refresh[u]
      BY <1>i, <1>6 DEF ServeRefresh
    <2>3. Taken(t)' => r \in store /\ refresh'[t].ref = r
      BY <1>i, <1>6 DEF ServeRefresh, Taken, RefreshType, NoRefresh
    <2>4. HeldOnce'
      BY <1>i, <2>1, <2>2, <2>3 DEF HeldOnce, Taken
    <2>5. \A n \in Token : Held(n)' => Held(n)
      BY <2>1, <2>2, <2>3 DEF Held, Taken
    <2> QED BY <1>t, <2>1, <2>4, <2>5, NoneGainedSuffices DEF NoneGained
  <1>7. ASSUME NEW t \in Tab, RotateRefresh(t) PROVE SessionInv'
    <2> DEFINE r == refresh[t].ref
    <2>1. Taken(t) /\ r \in Token /\ UNCHANGED <<ended, orphans>>
      BY <1>i, <1>7 DEF RotateRefresh, Taken, HeldOnce
    <2>2. ~Taken(t)' /\ \A u \in Tab : u # t => refresh'[u] = refresh[u]
      BY <1>i, <1>7 DEF RotateRefresh, Taken, NoRefresh
    <2>3. CASE UNCHANGED <<issued, store>>
      BY <1>t, <2>1, <2>2, <2>3, QuietSuffices DEF Taken
    <2>4. CASE Issue(issued[r])
      <3>1. /\ store' = store \union {Fresh} /\ Token' = Token \union {Fresh} /\ Fresh \notin Token
        BY <1>i, <2>1, <2>4, IssueExtends
      <3>2. \A n \in Token : Held(n)' => Held(n) /\ n # r
        BY <1>i, <2>1, <2>2, <3>1 DEF Held, HeldOnce, Taken
      <3>3. HeldOnce'
        BY <1>i, <2>1, <2>2, <3>1 DEF HeldOnce, Taken
      <3>4. Held(r)
        BY <2>1 DEF Held
      <3> QED BY <1>t, <2>1, <2>4, <3>2, <3>3, <3>4, RotationSuffices
    <2> QED BY <1>7, <2>3, <2>4 DEF RotateRefresh
  <1>8. ASSUME NEW t \in Tab, ServeMe(t) PROVE SessionInv'
    BY <1>8, <1>t, RefreshingQuiet, QuietSuffices DEF ServeMe, server
  <1>9. ASSUME NEW t \in Tab, Arrival(t) PROVE SessionInv'
    <2>1. UNCHANGED <<server, orphans>>
      BY <1>9 DEF Arrival, RefreshGiven, RefreshFailed, MeReturns, LoginReturns, LogoutReturns
    <2>2. UNCHANGED refresh \/ refresh' = [refresh EXCEPT ![t] = NoRefresh]
      BY <1>9 DEF Arrival, RefreshGiven, RefreshFailed, MeReturns, LoginReturns, LogoutReturns
    <2>3. \A u \in Tab : Taken(u)' => Taken(u) /\ refresh'[u].ref = refresh[u].ref
      BY <1>i, <2>2 DEF Taken, NoRefresh
    <2> QED BY <1>t, <2>1, <2>3, QuietSuffices DEF server
  <1>10. ASSUME NEW r \in orphans, RotateOrphan(r) PROVE SessionInv'
    <2>1. r \in Token /\ orphans' = orphans \ {r} /\ UNCHANGED <<ended, refresh>>
      BY <1>i, <1>10 DEF RotateOrphan
    <2>3. CASE UNCHANGED <<issued, store>>
      BY <1>t, <2>1, <2>3, QuietSuffices DEF Taken
    <2>4. CASE Issue(issued[r])
      <3>1. /\ store' = store \union {Fresh} /\ Token' = Token \union {Fresh} /\ Fresh \notin Token
        BY <1>i, <2>1, <2>4, IssueExtends
      <3>2. \A n \in Token : Held(n)' => Held(n) /\ n # r
        BY <1>i, <1>10, <2>1, <3>1 DEF Held, HeldOnce, Taken
      <3>3. HeldOnce'
        BY <1>i, <2>1, <3>1 DEF HeldOnce, Taken
      <3>4. Held(r)
        BY <1>10 DEF Held
      <3> QED BY <1>t, <2>1, <2>4, <3>2, <3>3, <3>4, RotationSuffices
    <2> QED BY <1>10, <2>3, <2>4 DEF RotateOrphan
  <1>11. ASSUME NEW n \in Token, LapseAccess(n) \/ LapseRefresh(n) PROVE SessionInv'
    BY <1>11, <1>t, QuietSuffices DEF LapseAccess, LapseRefresh, Taken
  <1>12. CASE UNCHANGED vars
    BY <1>12, <1>t, QuietSuffices DEF vars, Taken
  <1> QED
    BY <1>1, <1>2, <1>3, <1>4, <1>5, <1>6, <1>7, <1>8, <1>9, <1>10, <1>11, <1>12
       DEF Next, User, Service

LEMMA SessionStart == Init => SessionInv
  <1> SUFFICES ASSUME Init PROVE SessionInv
    OBVIOUS
  <1>1. TypeOK
    BY BoundsAssumption
       DEF Init, TypeOK, Token, Logins, Pages, NoCalls, NoRefresh, Idle, CallType, Outcome, None
  <1>2. HeldOnce /\ OneHeld /\ EndedNotHeld /\ EndedLogins
    BY DEF Init, HeldOnce, OneHeld, EndedNotHeld, EndedLogins, Taken, NoRefresh, Token
  <1> QED BY <1>1, <1>2 DEF SessionInv

THEOREM SessionInvariant == Spec => []SessionInv
  BY SessionStart, SessionStep, PTL DEF Spec

\* Every token in a cookie, in a tab, in a request or at the service was issued
\* by the service, whatever is lost, reloaded or run out (Issue, GetDel).
THEOREM SessionTypes == Spec => []TypeOK
  BY SessionInvariant, PTL DEF SessionInv

\* Rotation honours one of the requests that bring the same refresh token
\* (RefreshToken's GetDel): a sign-in never has two.
THEOREM OneRefreshPerLogin == Spec => []OneLivingRefresh
  <1>1. SessionInv => OneLivingRefresh
    BY DEF SessionInv, TypeOK, OneHeld, OneLivingRefresh, Held
  <1> QED BY <1>1, SessionInvariant, PTL

\* A sign-in that a logout ended gets no token any more, from no refresh that
\* was under way (Logout's deletion against RefreshToken's GetDel).
THEOREM LoggedOutForGood == Spec => []LogoutIsFinal
  <1>1. SessionInv => LogoutIsFinal
    BY DEF SessionInv, TypeOK, EndedNotHeld, LogoutIsFinal, Held
  <1> QED BY <1>1, SessionInvariant, PTL

-----------------------------------------------------------------------------

\* What WaitersAreWoken says of one tab; a fetchMe that wants a token first
\* does nothing but wait.
Woken(t) ==
    /\ (tabs[t].loading /\ Protected(tabs[t].page))
         => calls[t].me.st # "idle" \/ calls[t].first.st # "idle"
    /\ "waiting" \in {calls[t].me.st, calls[t].data.st, calls[t].first.st}
         => refresh[t].st # "idle"
    /\ calls[t].first.st \in {"idle", "waiting"}

AllWoken == \A t \in Tab : Woken(t)

LEMMA Statuses ==
    /\ Idle.st = "idle" /\ Waiting.st = "waiting" /\ NoRefresh.st = "idle"
    /\ \A n : Sent(n).st = "sent"
    /\ [Idle EXCEPT !.st = "yes"].st = "yes"
    /\ \A n : [NoRefresh EXCEPT !.st = "sent", !.ref = n].st = "sent"
    /\ NoCalls.me = Idle /\ NoCalls.data = Idle /\ NoCalls.first = Idle
  BY DEF Idle, Waiting, NoRefresh, Sent, NoCalls

LEMMA RefreshingWakes ==
    ASSUME TypeOK, NEW t \in Tab
    PROVE  /\ Refreshing(t)[t].st # "idle"
           /\ \A u \in Tab : u # t => Refreshing(t)[u] = refresh[u]
  <1>1. refresh \in [Tab -> RefreshType]
    BY TypeParts
  <1> QED BY <1>1, Statuses DEF Refreshing

\* The layout never starts a spinner.
LEMMA GuardedSpins ==
    ASSUME NEW tab \in TabType
    PROVE  /\ Guarded(tab).loading = tab.loading
           /\ ~SignedOut(tab).loading /\ ~SignedIn(tab).loading
  BY DEF TabType, Guarded, SignedOut, SignedIn

LEMMA FetchMeWakes ==
    ASSUME TypeOK, NEW t \in Tab, NEW n, FetchMe(t, n), Woken(t)
    PROVE  /\ calls'[t].me.st # "idle" \/ calls'[t].first.st # "idle"
           /\ "waiting" \in {calls'[t].me.st, calls'[t].data.st, calls'[t].first.st}
                => refresh'[t].st # "idle"
           /\ calls'[t].first.st \in {"idle", "waiting"}
           /\ \A u \in Tab : u # t => calls'[u] = calls[u] /\ refresh'[u] = refresh[u]
  <1>1. calls \in [Tab -> CallsOver(CallType)] /\ refresh \in [Tab -> RefreshType]
    BY TypeParts DEF ClientTyped, CallsType
  <1>2. CASE n = None
    <2>1. calls' = [calls EXCEPT ![t].first = Waiting] /\ refresh' = Refreshing(t)
      BY <1>2 DEF FetchMe
    <2>2. calls'[t].first = Waiting
      BY <1>1, <2>1 DEF CallsOver
    <2> QED BY <1>1, <2>1, <2>2, RefreshingWakes, Statuses
  <1>3. CASE n # None
    <2>1. calls' = [calls EXCEPT ![t] = Asking(@, n)] /\ refresh' = refresh
      BY <1>3 DEF FetchMe
    <2>2. Sent(n).st = "sent"
      BY Statuses
    <2>3. Asking(calls[t], n).me.st # "idle" /\ Asking(calls[t], n).data = calls[t].data
          /\ Asking(calls[t], n).first = calls[t].first
          /\ Asking(calls[t], n).me.st \in {"sent", calls[t].me.st}
      BY <1>1, <2>2 DEF Asking, CallsOver
    <2> QED BY <1>1, <2>1, <2>3 DEF Woken
  <1> QED BY <1>2, <1>3

\* A step keeps every tab woken.
LEMMA WokenStep ==
    ASSUME TypeOK, AllWoken, [Next]_vars
    PROVE  AllWoken'
  <1> SUFFICES ASSUME NEW u \in Tab PROVE Woken(u)'
    BY DEF AllWoken
  <1>i. /\ tabs \in [Tab -> TabType] /\ calls \in [Tab -> CallsOver(CallType)]
        /\ refresh \in [Tab -> RefreshType]
        /\ \A t \in Tab : Woken(t)
    BY TypeParts DEF ClientTyped, CallsType, AllWoken
  <1>0. ASSUME tabs'[u] = tabs[u], calls'[u] = calls[u], refresh'[u] = refresh[u] PROVE Woken(u)'
    BY <1>0, <1>i DEF Woken
  <1>1. ASSUME NEW t \in Tab, NEW page \in Pages, Visit(t, page) PROVE Woken(u)'
    <2>1. PICK target \in Middleware(page) :
            /\ tabs' = [tabs EXCEPT ![t] = Guarded([@ EXCEPT !.page = target])]
            /\ IF Protected(target) THEN FetchMe(t, tabs[t].token) ELSE UNCHANGED <<calls, refresh>>
      BY <1>1 DEF Visit
    <2>2. CASE u # t
      BY <1>0, <1>i, <2>1, <2>2, FetchMeWakes
    <2>3. CASE u = t /\ Protected(target)
      BY <1>i, <2>1, <2>3, FetchMeWakes DEF Woken
    <2>4. CASE u = t /\ ~Protected(target)
      <3>1. Guarded([tabs[t] EXCEPT !.page = target]).page = target
        BY <1>i, <2>4 DEF Guarded, TabType
      <3> QED BY <1>i, <2>1, <2>4, <3>1 DEF Woken
    <2> QED BY <2>2, <2>3, <2>4
  <1>2. ASSUME NEW t \in Tab, NEW page \in Pages, Load(t, page) PROVE Woken(u)'
    <2>1. CASE u # t
      BY <1>0, <1>2, <1>i, <2>1 DEF Load
    <2>2. CASE u = t
      <3>1. PICK target \in Middleware(page) :
              /\ tabs'[t].page = target
              /\ IF Protected(target)
                 THEN /\ calls'[t] = [NoCalls EXCEPT !.first = Waiting]
                      /\ refresh'[t] = [NoRefresh EXCEPT !.st = "sent", !.ref = jar.refresh]
                 ELSE calls'[t] = NoCalls
        BY <1>2, <1>i DEF Load
      <3>2. [NoCalls EXCEPT !.first = Waiting].first = Waiting /\ [NoCalls EXCEPT !.first = Waiting].me = Idle
            /\ [NoCalls EXCEPT !.first = Waiting].data = Idle
        BY DEF NoCalls
      <3> QED BY <2>2, <3>1, <3>2, Statuses DEF Woken
    <2> QED BY <2>1, <2>2
  <1>3. ASSUME NEW t \in Tab, SubmitLogin(t) PROVE Woken(u)'
    BY <1>3, <1>i DEF SubmitLogin, Woken, CallsOver
  <1>4. ASSUME NEW t \in Tab, HandleLogout(t) PROVE Woken(u)'
    BY <1>4, <1>i DEF HandleLogout, Woken, CallsOver
  <1>5. ASSUME NEW t \in Tab, Poll(t) PROVE Woken(u)'
    <2>1. calls' = [calls EXCEPT ![t].data = Waiting] /\ refresh' = Refreshing(t) /\ tabs' = tabs
      BY <1>5 DEF Poll
    <2>2. CASE u # t
      BY <1>0, <1>i, <2>1, <2>2, RefreshingWakes
    <2>3. CASE u = t
      <3>1. /\ calls'[t].me = calls[t].me /\ calls'[t].first = calls[t].first
            /\ refresh'[t].st # "idle" /\ tabs'[t] = tabs[t]
        BY <1>i, <2>1, RefreshingWakes DEF CallsOver
      <3> QED BY <1>i, <2>3, <3>1 DEF Woken
    <2> QED BY <2>2, <2>3
  <1>6. ASSUME NEW t \in Tab, ServeRefresh(t) PROVE Woken(u)'
    BY <1>6, <1>i DEF ServeRefresh, Woken, NoRefresh, RefreshType
  <1>7. ASSUME NEW t \in Tab, RotateRefresh(t) PROVE Woken(u)'
    BY <1>7, <1>i DEF RotateRefresh, Woken, NoRefresh, RefreshType
  <1>8. ASSUME NEW t \in Tab, ServeMe(t) PROVE Woken(u)'
    <2>1. /\ tabs' = tabs
          /\ \/ calls' = [calls EXCEPT ![t].me = [Idle EXCEPT !.st = "yes"]] /\ UNCHANGED refresh
             \/ calls' = [calls EXCEPT ![t].me = Waiting] /\ refresh' = Refreshing(t)
      BY <1>8 DEF ServeMe
    <2>2. CASE u # t
      BY <1>0, <1>i, <2>1, <2>2, RefreshingWakes
    <2>3. CASE u = t
      <3>1. /\ calls'[t].data = calls[t].data /\ calls'[t].first = calls[t].first /\ tabs'[t] = tabs[t]
            /\ \/ calls'[t].me.st = "yes" /\ refresh'[t] = refresh[t]
               \/ calls'[t].me.st = "waiting" /\ refresh'[t].st # "idle"
        <4> DEFINE yes == [Idle EXCEPT !.st = "yes"]
        <4>1. yes.st = "yes" /\ Waiting.st = "waiting"
          BY Statuses
        <4> HIDE DEF yes
        <4>2. CASE calls' = [calls EXCEPT ![t].me = yes] /\ UNCHANGED refresh
          BY <1>i, <2>1, <4>1, <4>2 DEF CallsOver
        <4>3. CASE calls' = [calls EXCEPT ![t].me = Waiting] /\ refresh' = Refreshing(t)
          <5>1. refresh'[t].st # "idle"
            BY <4>3, RefreshingWakes
          <5> QED BY <1>i, <2>1, <4>1, <4>3, <5>1 DEF CallsOver
        <4> QED BY <2>1, <4>2, <4>3 DEF yes
      <3> QED BY <1>i, <2>3, <3>1 DEF Woken
    <2> QED BY <2>2, <2>3
  <1>9. ASSUME NEW t \in Tab, RefreshGiven(t) PROVE Woken(u)'
    <2>1. CASE u # t
      BY <1>0, <1>9, <1>i, <2>1 DEF RefreshGiven
    <2>2. CASE u = t
      <3> DEFINE n == refresh[t].tok
                 again == [calls[t] EXCEPT !.first = Idle, !.data = Idle,
                             !.me = IF @.st = "waiting" THEN Sent(n) ELSE @]
      <3>1. Sent(n).st = "sent" /\ Idle.st = "idle"
        BY DEF Sent, Idle
      <3>2. /\ again.data.st = "idle" /\ again.first.st = "idle" /\ again.me.st # "waiting"
            /\ calls[t].me.st # "idle" => again.me.st # "idle"
        BY <1>i, <3>1 DEF CallsOver
      <3>3. /\ Asking(again, n).data.st = "idle" /\ Asking(again, n).first.st = "idle"
            /\ Asking(again, n).me.st # "waiting" /\ Asking(again, n).me.st # "idle"
        BY <1>i, <3>1, <3>2 DEF Asking, CallsOver
      <3>4. calls'[t] = IF calls[t].first.st = "waiting" THEN Asking(again, n) ELSE again
        BY <1>9, <1>i DEF RefreshGiven
      <3>5. tabs'[t].loading = tabs[t].loading /\ tabs'[t].page = tabs[t].page
        BY <1>9, <1>i DEF RefreshGiven, TabType
      <3>6. refresh[t].st # "idle" /\ calls[t].first.st \in {"idle", "waiting"}
        BY <1>9, <1>i DEF RefreshGiven, Arrived, Woken
      <3> HIDE DEF again, n
      <3> QED BY <1>i, <2>2, <3>2, <3>3, <3>4, <3>5, <3>6 DEF Woken
    <2> QED BY <2>1, <2>2
  <1>10. ASSUME NEW t \in Tab, RefreshFailed(t) PROVE Woken(u)'
    <2>1. CASE u # t
      BY <1>0, <1>10, <1>i, <2>1 DEF RefreshFailed
    <2>2. CASE u = t
      <3>1. /\ Released(calls[t]).first = Idle /\ Released(calls[t]).data = Idle
            /\ Released(calls[t]).me = IF calls[t].me.st = "waiting" THEN Idle ELSE calls[t].me
        BY <1>i DEF Released, CallsOver
      <3>2. calls'[t] = Released(calls[t])
        BY <1>10, <1>i DEF RefreshFailed
      <3>3. /\ SignedOut(tabs[t]) \in TabType /\ ~SignedOut(tabs[t]).loading
            /\ ~Guarded(SignedOut(tabs[t])).loading
            /\ ~[SignedOut(tabs[t]) EXCEPT !.token = None, !.page = "public"].loading
        BY <1>i, GuardedTyped, GuardedSpins DEF TabType
      <3>4. calls[t].me.st # "waiting" /\ calls[t].data.st # "waiting" /\ calls[t].first.st # "waiting"
               => tabs'[t] = tabs[t]
        BY <1>10, <1>i DEF RefreshFailed
      <3>5. calls[t].me.st = "waiting" \/ calls[t].data.st = "waiting" \/ calls[t].first.st = "waiting"
               => ~tabs'[t].loading
        BY <1>10, <1>i, <3>3 DEF RefreshFailed
      <3> QED BY <1>i, <2>2, <3>1, <3>2, <3>4, <3>5, Statuses DEF Woken
    <2> QED BY <2>1, <2>2
  <1>11. ASSUME NEW t \in Tab, MeReturns(t) PROVE Woken(u)'
    <2>1. CASE u # t
      BY <1>0, <1>11, <1>i, <2>1 DEF MeReturns
    <2>2. CASE u = t
      <3>1. ~tabs'[t].loading
        <4>1. /\ SignedIn(tabs[t]) \in TabType /\ ~SignedIn(tabs[t]).loading
              /\ [SignedOut(tabs[t]) EXCEPT !.token = None] \in TabType
              /\ ~[SignedOut(tabs[t]) EXCEPT !.token = None].loading
          <5>1. SignedOut(tabs[t]) \in TabType /\ ~SignedOut(tabs[t]).loading
                /\ SignedIn(tabs[t]) \in TabType /\ ~SignedIn(tabs[t]).loading
            BY <1>i, GuardedTyped, GuardedSpins
          <5> QED BY <5>1 DEF TabType
        <4>2. ~Guarded(SignedIn(tabs[t])).loading /\ ~Guarded([SignedOut(tabs[t]) EXCEPT !.token = None]).loading
          BY <4>1, GuardedSpins
        <4> QED BY <1>11, <1>i, <4>2 DEF MeReturns
      <3>2. calls' = [calls EXCEPT ![t].me = Idle] /\ refresh' = refresh
        BY <1>11 DEF MeReturns
      <3> QED BY <1>i, <2>2, <3>1, <3>2, Statuses DEF Woken, CallsOver
    <2> QED BY <2>1, <2>2
  <1>12. ASSUME NEW t \in Tab, LoginReturns(t) PROVE Woken(u)'
    <2>1. CASE u # t
      BY <1>0, <1>12, <1>i, <2>1 DEF LoginReturns
    <2>2. CASE u = t
      <3> DEFINE n == calls[t].login.tok
                 c == [calls[t] EXCEPT !.login = Idle]
      <3>1. c.me = calls[t].me /\ c.data = calls[t].data /\ c.first = calls[t].first
        BY <1>i DEF CallsOver
      <3>2. c \in CallsOver(CallType)
        BY <1>i, CallReplaced DEF Idle, CallType, Outcome
      <3>3. /\ Asking(c, n).data = calls[t].data /\ Asking(c, n).first = calls[t].first
            /\ Asking(c, n).me.st \in {"sent", calls[t].me.st}
        BY <3>1, <3>2, Statuses DEF Asking, CallsOver
      <3>4. refresh' = refresh
        BY <1>12 DEF LoginReturns
      <3>5. CASE calls' = [calls EXCEPT ![t].login = Idle] /\ UNCHANGED tabs
        <4>1. calls'[t] = c
          BY <1>i, <3>5
        <4> HIDE DEF c
        <4> QED BY <1>i, <2>2, <3>1, <3>4, <3>5, <4>1 DEF Woken
      <3>6. CASE /\ tabs' = [tabs EXCEPT ![t] = [SignedIn(tabs[t]) EXCEPT !.token = n, !.page = Home(Role)]]
                 /\ calls' = [calls EXCEPT ![t] = Asking(c, n)]
        <4>1. ~tabs'[t].loading
          BY <1>i, <3>6, GuardedTyped, GuardedSpins DEF TabType
        <4>2. calls'[t] = Asking(c, n)
          BY <1>i, <3>6
        <4> HIDE DEF c, n
        <4> QED BY <1>i, <2>2, <3>3, <3>4, <4>1, <4>2 DEF Woken
      <3> QED BY <1>12, <3>5, <3>6 DEF LoginReturns
    <2> QED BY <2>1, <2>2
  <1>13. ASSUME NEW t \in Tab, LogoutReturns(t) PROVE Woken(u)'
    <2>1. CASE u # t
      BY <1>0, <1>13, <1>i, <2>1 DEF LogoutReturns
    <2>2. CASE u = t
      <3>1. ~tabs'[t].loading
        <4>1. [SignedOut(tabs[t]) EXCEPT !.token = None] \in TabType
              /\ ~[SignedOut(tabs[t]) EXCEPT !.token = None].loading
          <5>1. SignedOut(tabs[t]) \in TabType /\ ~SignedOut(tabs[t]).loading
            BY <1>i, GuardedTyped, GuardedSpins
          <5> QED BY <5>1 DEF TabType
        <4>2. ~Guarded([SignedOut(tabs[t]) EXCEPT !.token = None]).loading
          BY <4>1, GuardedSpins
        <4> QED BY <1>13, <1>i, <4>2 DEF LogoutReturns
      <3>2. calls' = [calls EXCEPT ![t].logout = Idle] /\ refresh' = refresh
        BY <1>13 DEF LogoutReturns
      <3> QED BY <1>i, <2>2, <3>1, <3>2 DEF Woken, CallsOver
    <2> QED BY <2>1, <2>2
  <1>14. CASE \/ \E r \in orphans : RotateOrphan(r)
              \/ \E n \in Token : LapseAccess(n) \/ LapseRefresh(n)
              \/ UNCHANGED vars
    BY <1>0, <1>14 DEF RotateOrphan, LapseAccess, LapseRefresh, vars
  <1> QED
    BY <1>1, <1>2, <1>3, <1>4, <1>5, <1>6, <1>7, <1>8, <1>9, <1>10, <1>11, <1>12, <1>13, <1>14
       DEF Next, User, Service, Arrival

\* A protected page on its spinner has a fetchMe under way, and a request that
\* waits for a refresh has one that will wake it (refreshPromise and its
\* finally, handle401, fetchMe).
THEOREM NobodyWaitsForNothing == Spec => []WaitersAreWoken
  <1>1. Init => AllWoken
    BY Statuses, HomeAssumption DEF Init, AllWoken, Woken, Protected
  <1>2. AllWoken => WaitersAreWoken
    BY DEF AllWoken, Woken, WaitersAreWoken
  <1> QED BY <1>1, <1>2, WokenStep, SessionTypes, PTL DEF Spec
=============================================================================
