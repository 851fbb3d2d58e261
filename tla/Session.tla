------------------------------ MODULE Session ------------------------------
(***************************************************************************)
(* The sessions of one account in one browser: the tabs of the web client  *)
(* (lib/api.ts, store/auth-store.ts, BaseLayout, SessionWatcher and        *)
(* middleware.ts), the cookies they share, and the service that issues,    *)
(* rotates and revokes the tokens (auth_service.go, auth_handler.go).      *)
(*                                                                         *)
(* Every tab keeps the access token in memory; the refresh token is in a   *)
(* cookie that scripts cannot read and that all tabs share.  Requests and  *)
(* answers take time and may be lost.  Token n stands for the n-th pair of *)
(* an access and a refresh token; 0 is no token.                           *)
(***************************************************************************)
EXTENDS Naturals, Sequences, FiniteSets

CONSTANTS Tab,          \* the tabs of the browser
          Page,         \* the protected pages visited
          Role,         \* the role of the account
          MaxTokens,    \* bound: pairs of tokens the service issues
          MaxLogins,    \* bound: times the user signs in
          MaxMishaps    \* bound: full page loads, losses, refresh tokens that run out

ASSUME BoundsAssumption ==
    MaxTokens \in Nat /\ MaxLogins \in Nat /\ MaxMishaps \in Nat

VARIABLES issued,    \* issued[n]: the sign-in that token n descends from
          store,     \* refresh tokens the service would honour
          dead,      \* access tokens past their expiry or on the blacklist
          ended,     \* sign-ins ended by a logout that met their refresh token
          jar,       \* the cookies of the browser
          tabs,      \* what each tab holds in memory, and its page
          calls,     \* the requests of each tab that are under way
          refresh,   \* the refresh of each tab, which its other requests may wait for
          orphans,   \* refresh tokens taken for a tab that has been reloaded
          mishaps    \* how many of those so far

server == <<issued, store, dead, ended>>
vars == <<issued, store, dead, ended, jar, tabs, calls, refresh, orphans, mishaps>>

Token == 1 .. Len(issued)
None == 0

\* Every page that needs no session is "public", the login page among them.
Pages == Page \union {"public"}

(***************************************************************************)
(* Pages, the middleware and the layout                                    *)
(***************************************************************************)

Roles(page) == CASE page = "admin" -> {"admin", "superadmin"}
                 [] page = "coach" -> {"coach"}
                 [] page = "referee" -> {"referee", "admin", "superadmin"}
                 [] page = "dashboard" -> {"player", "admin", "superadmin", "coach"}

\* allowedRoles of the page's layout: an empty list lets everyone in.
LayoutRoles(page) == CASE page = "coach" -> {"coach", "admin", "superadmin"}
                       [] page = "dashboard" -> {Role}
                       [] OTHER -> Roles(page)

Home(role) == IF role \in {"admin", "superadmin"} THEN "admin"
              ELSE IF role = "player" THEN "dashboard" ELSE role

ASSUME HomeAssumption == Home(Role) \in Page /\ "public" \notin Page

Protected(page) == page \in Page

\* The cookies a page request carries.  The refresh cookie has the path of the
\* auth endpoints, so a request for a page never carries it.
PageCookies == [access |-> jar.access, refresh |-> None]

\* Where a request for a page may end.  The role cookie has a life of its own, so
\* the check of the role may or may not take place.
Middleware(page) ==
    IF ~Protected(page) THEN {page}
    ELSE IF PageCookies.access = None
         THEN IF PageCookies.refresh # None THEN {page} ELSE {"public"}
         ELSE {page} \union (IF Role \in Roles(page) THEN {} ELSE {Home(Role)})

\* BaseLayout sends a tab that is not signed in to the login page, and one of
\* another role to the public page; it runs on every change of the store.
Guarded(tab) ==
    IF tab.loading \/ ~Protected(tab.page) THEN tab
    ELSE IF ~tab.signedIn THEN [tab EXCEPT !.page = "public"]
    ELSE IF Role \notin LayoutRoles(tab.page) THEN [tab EXCEPT !.page = "public"] ELSE tab

SignedOut(tab) == [tab EXCEPT !.signedIn = FALSE, !.loading = FALSE]
SignedIn(tab) == [tab EXCEPT !.signedIn = TRUE, !.loading = FALSE]

(***************************************************************************)
(* Requests                                                                *)
(***************************************************************************)

Idle == [st |-> "idle", tok |-> None]
NoCalls == [me |-> Idle, data |-> Idle, first |-> Idle, login |-> Idle, logout |-> Idle]
NoRefresh == [st |-> "idle", ref |-> None, tok |-> None]

\* fetchWithAuth: the token in memory, else the cookie, as they are when the
\* request leaves.  The browser adds the refresh cookie on the auth endpoints.
Sent(token) == [Idle EXCEPT !.st = "sent",
                            !.tok = IF token # None THEN token ELSE jar.access]

Waiting == [Idle EXCEPT !.st = "waiting"]

\* refreshSession: one refresh per tab at a time, which others join.
Refreshing(t) ==
    IF refresh[t].st = "idle"
    THEN [refresh EXCEPT ![t] = [NoRefresh EXCEPT !.st = "sent", !.ref = jar.refresh]]
    ELSE refresh

\* api.get: a GET for an endpoint that is under way is joined.
Asking(c, token) == IF c.me.st = "idle" THEN [c EXCEPT !.me = Sent(token)] ELSE c

\* fetchMe: refresh first if there is no token in memory.  The access cookie is
\* hidden from scripts, so migrateOldCookieToken finds nothing.
FetchMe(t, token) ==
    IF token = None
    THEN calls' = [calls EXCEPT ![t].first = Waiting] /\ refresh' = Refreshing(t)
    ELSE calls' = [calls EXCEPT ![t] = Asking(@, token)] /\ UNCHANGED refresh

\* AuthMiddleware: a token that is neither past its expiry nor on the blacklist.
Accepts(token) == token # None /\ token \notin dead

(***************************************************************************)
(* The user                                                                *)
(***************************************************************************)

Mishap == mishaps < MaxMishaps /\ mishaps' = mishaps + 1

\* A link inside the client: the middleware decides, the memory of the tab
\* stays, and the layout of a protected page fetches the user again.
Visit(t, page) ==
    /\ page # tabs[t].page
    /\ \E target \in Middleware(page) :
         /\ tabs' = [tabs EXCEPT ![t] = Guarded([@ EXCEPT !.page = target])]
         /\ IF Protected(target) THEN FetchMe(t, tabs[t].token) ELSE UNCHANGED <<calls, refresh>>
    /\ UNCHANGED <<server, jar, orphans, mishaps>>

\* A full load: everything in memory is gone, answers under way included.
Load(t, page) ==
    /\ Mishap
    /\ \E target \in Middleware(page) :
         /\ tabs' = [tabs EXCEPT ![t] = [token |-> None, signedIn |-> FALSE,
                                         loading |-> TRUE, page |-> target]]
         /\ IF Protected(target)
            THEN /\ calls' = [calls EXCEPT ![t] = [NoCalls EXCEPT !.first = Waiting]]
                 /\ refresh' = [refresh EXCEPT ![t] =
                                   [NoRefresh EXCEPT !.st = "sent", !.ref = jar.refresh]]
            ELSE /\ calls' = [calls EXCEPT ![t] = NoCalls]
                 /\ refresh' = [refresh EXCEPT ![t] = NoRefresh]
    /\ orphans' = IF refresh[t].st = "taken" THEN orphans \union {refresh[t].ref} ELSE orphans
    /\ UNCHANGED <<server, jar>>

(***************************************************************************)
(* The service                                                             *)
(***************************************************************************)

Fresh == Len(issued) + 1

Issue(login) ==
    /\ Fresh <= MaxTokens
    /\ issued' = Append(issued, login)
    /\ store' = store \union {Fresh}

\* A sign-in is known by the first token it got.
Logins == {issued[n] : n \in Token}

\* handleSubmit on the login page, and Login: a new pair.  Wrong credentials are
\* answered with a code that starts no refresh and change nothing.
SubmitLogin(t) ==
    /\ tabs[t].page = "public" /\ calls[t].login.st = "idle"
    /\ Cardinality(Logins) < MaxLogins
    /\ Issue(Fresh)
    /\ calls' = [calls EXCEPT ![t].login = [st |-> "given", tok |-> Fresh]]
    /\ UNCHANGED <<dead, ended, jar, tabs, refresh, orphans, mishaps>>

\* The logout button of the layout, and Logout: with a refresh cookie its token
\* is deleted and the access token that came along is put on the blacklist;
\* without one nothing is done.
HandleLogout(t) ==
    LET r == jar.refresh
        tok == IF tabs[t].token # None THEN tabs[t].token ELSE jar.access
    IN /\ tabs[t].signedIn /\ Protected(tabs[t].page) /\ calls[t].logout.st = "idle"
       /\ store' = store \ {r}
       /\ ended' = ended \union {issued[n] : n \in store \intersect {r}}
       /\ dead' = IF r = None THEN dead ELSE dead \union ({tok} \ {None})
       /\ calls' = [calls EXCEPT ![t].logout.st = IF r = None THEN "refused" ELSE "done"]
       /\ UNCHANGED <<issued, jar, tabs, refresh, orphans, mishaps>>

\* A request of a page that the service refuses; NotificationBell makes one a
\* minute while signed in.  One that is accepted changes nothing here.
Poll(t) ==
    /\ tabs[t].signedIn /\ calls[t].data.st = "idle"
    /\ ~Accepts(IF tabs[t].token # None THEN tabs[t].token ELSE jar.access)
    /\ calls' = [calls EXCEPT ![t].data = Waiting]
    /\ refresh' = Refreshing(t)
    /\ UNCHANGED <<server, jar, tabs, orphans, mishaps>>

\* Mutant: the old token is read and not deleted.
ServeRefreshReads(t) ==
    /\ refresh[t].st = "sent" /\ refresh[t].ref # None
    /\ refresh' = [refresh EXCEPT ![t].st = IF refresh[t].ref \in store THEN "taken" ELSE "refused"]
    /\ UNCHANGED <<server, jar, tabs, calls, orphans, mishaps>>

\* RefreshToken, first half: GetDel takes the old token, or refuses it.
ServeRefresh(t) ==
    LET r == refresh[t].ref IN
    /\ refresh[t].st = "sent" /\ r # None
    /\ store' = store \ {r}
    /\ refresh' = [refresh EXCEPT ![t] =
                      IF r \in store THEN [@ EXCEPT !.st = "taken"]
                      ELSE [NoRefresh EXCEPT !.st = "refused"]]
    /\ UNCHANGED <<issued, dead, ended, jar, tabs, calls, orphans, mishaps>>

\* RefreshToken, second half: the new pair is stored, or the call fails after
\* the old token is gone.
RotateRefresh(t) ==
    /\ refresh[t].st = "taken"
    /\ \/ /\ Issue(issued[refresh[t].ref])
          /\ refresh' = [refresh EXCEPT ![t] = [NoRefresh EXCEPT !.st = "given", !.tok = Fresh]]
       \/ /\ refresh' = [refresh EXCEPT ![t] = [NoRefresh EXCEPT !.st = "refused"]]
          /\ UNCHANGED <<issued, store>>
    /\ UNCHANGED <<dead, ended, jar, tabs, calls, orphans, mishaps>>

\* The same for a request whose tab no longer waits for the answer.
RotateOrphan(r) ==
    /\ orphans' = orphans \ {r}
    /\ Issue(issued[r]) \/ UNCHANGED <<issued, store>>
    /\ UNCHANGED <<dead, ended, jar, tabs, calls, refresh, mishaps>>

\* GetProfile, behind AuthMiddleware; a refusal makes the tab refresh.
ServeMe(t) ==
    /\ calls[t].me.st = "sent"
    /\ IF Accepts(calls[t].me.tok)
       THEN calls' = [calls EXCEPT ![t].me = [Idle EXCEPT !.st = "yes"]] /\ UNCHANGED refresh
       ELSE calls' = [calls EXCEPT ![t].me = Waiting] /\ refresh' = Refreshing(t)
    /\ UNCHANGED <<server, jar, tabs, orphans, mishaps>>

(***************************************************************************)
(* The answers arrive                                                      *)
(***************************************************************************)

\* An answer arrives, or fetch rejects: no route, a timeout, an answer that
\* never came.
Lost(st) == st \in {"sent", "given", "refused", "done", "yes"} /\ Mishap
Arrived(st, sts) == st \in sts /\ UNCHANGED mishaps

WithPair(n) == [access |-> n, refresh |-> n]
WithoutPair == [access |-> None, refresh |-> None]

\* doRefresh succeeded: the cookies and the token in memory are new, and what
\* waited for it is sent again with the new token.
RefreshGiven(t) ==
    LET c == calls[t]
        n == refresh[t].tok
        again == [c EXCEPT !.first = Idle, !.data = Idle,
                           !.me = IF @.st = "waiting" THEN Sent(n) ELSE @]
    IN /\ Arrived(refresh[t].st, {"given"})
       /\ jar' = WithPair(n)
       /\ tabs' = [tabs EXCEPT ![t].token = n]
       /\ calls' = [calls EXCEPT ![t] =
                      IF c.first.st = "waiting" THEN Asking(again, n) ELSE again]
       /\ refresh' = [refresh EXCEPT ![t] = NoRefresh]
       /\ UNCHANGED <<server, orphans>>

\* What doRefresh is told: a refusal clears the cookies of the pair, except that
\* without a refresh cookie the handler refuses before it touches anything.
Refused(t) ==
    \/ Arrived(refresh[t].st, {"refused"}) /\ jar' = WithoutPair
    \/ Lost(refresh[t].st) /\ jar' = jar
    \/ Arrived(refresh[t].st, {"sent"}) /\ refresh[t].ref = None /\ jar' = jar

Released(c) ==
    [c EXCEPT !.first = Idle, !.data = Idle, !.me = IF @.st = "waiting" THEN Idle ELSE @]

\* Mutants: only the refresh itself is put back; nobody hears that the session is over.
RefreshFailedAlone(t) ==
    /\ Refused(t)
    /\ tabs' = [tabs EXCEPT ![t] = SignedOut(@)]
    /\ refresh' = [refresh EXCEPT ![t] = NoRefresh]
    /\ UNCHANGED <<server, calls, orphans>>
RefreshFailedQuietly(t) ==
    /\ Refused(t)
    /\ tabs' = [tabs EXCEPT ![t] = IF calls[t].first.st = "waiting" THEN Guarded(SignedOut(@)) ELSE @]
    /\ calls' = [calls EXCEPT ![t] = Released(@)]
    /\ refresh' = [refresh EXCEPT ![t] = NoRefresh]
    /\ UNCHANGED <<server, orphans>>

\* doRefresh answered false.  A request that waited raises auth:session-expired,
\* which SessionWatcher turns into a tab on the login page without a token;
\* fetchMe that wanted a token first only leaves the tab signed out.
RefreshFailed(t) ==
    LET c == calls[t]
        out == SignedOut(tabs[t])
    IN /\ Refused(t)
       /\ tabs' = [tabs EXCEPT ![t] =
                     IF c.me.st = "waiting" \/ c.data.st = "waiting"
                     THEN [out EXCEPT !.token = None, !.page = "public"]
                     ELSE IF c.first.st = "waiting" THEN Guarded(out) ELSE @]
       /\ calls' = [calls EXCEPT ![t] = Released(@)]
       /\ refresh' = [refresh EXCEPT ![t] = NoRefresh]
       /\ UNCHANGED <<server, orphans>>

\* fetchMe gets its answer; its catch clears the tab.
MeReturns(t) ==
    /\ \/ /\ Arrived(calls[t].me.st, {"yes"})
          /\ tabs' = [tabs EXCEPT ![t] = Guarded(SignedIn(@))]
       \/ /\ Lost(calls[t].me.st)
          /\ tabs' = [tabs EXCEPT ![t] = Guarded([SignedOut(@) EXCEPT !.token = None])]
    /\ calls' = [calls EXCEPT ![t].me = Idle]
    /\ UNCHANGED <<server, jar, refresh, orphans>>

LoginReturns(t) ==
    LET n == calls[t].login.tok
        tab == [SignedIn(tabs[t]) EXCEPT !.token = n, !.page = Home(Role)]
    IN /\ \/ /\ Arrived(calls[t].login.st, {"given"})
             /\ jar' = WithPair(n)
             /\ tabs' = [tabs EXCEPT ![t] = tab]
             /\ calls' = [calls EXCEPT ![t] = Asking([@ EXCEPT !.login = Idle], n)]
          \/ /\ Lost(calls[t].login.st)
             /\ calls' = [calls EXCEPT ![t].login = Idle]
             /\ UNCHANGED <<jar, tabs>>
       /\ UNCHANGED <<server, refresh, orphans>>

\* logout's finally runs whatever came back; the cookies of the pair go only
\* with the answer of the service.  The layout and the handler both navigate.
LogoutReturns(t) ==
    LET out == Guarded([SignedOut(tabs[t]) EXCEPT !.token = None]) IN
    /\ \/ /\ Arrived(calls[t].logout.st, {"done"})
          /\ jar' = WithoutPair
          /\ tabs' = [tabs EXCEPT ![t] = out]
       \/ /\ Arrived(calls[t].logout.st, {"refused"}) \/ Lost(calls[t].logout.st)
          /\ tabs' = [tabs EXCEPT ![t] = out]
          /\ jar' = jar
    /\ calls' = [calls EXCEPT ![t].logout = Idle]
    /\ UNCHANGED <<server, refresh, orphans>>

(***************************************************************************)
(* Time                                                                    *)
(***************************************************************************)

\* An access token and the cookie that holds it have the same life, and so has
\* every other: the older ones run out first.
LapseAccess(n) ==
    /\ n \notin dead \/ jar.access = n
    /\ 1 .. (n - 1) \subseteq dead
    /\ dead' = dead \union {n}
    /\ jar' = IF jar.access = n THEN [jar EXCEPT !.access = None] ELSE jar
    /\ UNCHANGED <<issued, store, ended, tabs, calls, refresh, orphans, mishaps>>

\* A refresh token outlives the access token it came with (two hours and a week).
LapseRefresh(n) ==
    /\ n \in store /\ n \in dead /\ Mishap
    /\ store' = store \ {n}
    /\ jar' = IF jar.refresh = n THEN [jar EXCEPT !.refresh = None] ELSE jar
    /\ UNCHANGED <<issued, dead, ended, tabs, calls, refresh, orphans>>

(***************************************************************************)
(* Specification                                                           *)
(***************************************************************************)

Init ==
    /\ issued = <<>> /\ store = {} /\ dead = {} /\ ended = {}
    /\ jar = [access |-> None, refresh |-> None]
    /\ tabs = [t \in Tab |-> [token |-> None, signedIn |-> FALSE, loading |-> TRUE,
                              page |-> "public"]]
    /\ calls = [t \in Tab |-> NoCalls]
    /\ refresh = [t \in Tab |-> NoRefresh]
    /\ orphans = {}
    /\ mishaps = 0

Service(t) ==
    \/ ServeRefresh(t) \/ RotateRefresh(t) \/ ServeMe(t)

Arrival(t) ==
    \/ RefreshGiven(t) \/ RefreshFailed(t) \/ MeReturns(t)
    \/ LoginReturns(t) \/ LogoutReturns(t)

User(t) ==
    \/ \E page \in Pages : Visit(t, page) \/ Load(t, page)
    \/ SubmitLogin(t) \/ HandleLogout(t) \/ Poll(t)

Next ==
    \/ \E t \in Tab : User(t) \/ Service(t) \/ Arrival(t)
    \/ \E r \in orphans : RotateOrphan(r)
    \/ \E n \in Token : LapseAccess(n) \/ LapseRefresh(n)

Spec == Init /\ [][Next]_vars

\* The service answers, the network brings the answers, pages poll and tokens
\* run out; what the user does is not forced.
Fairness ==
    /\ \A t \in Tab :
         /\ WF_vars(ServeRefresh(t) \/ RotateRefresh(t) \/ RefreshGiven(t) \/ RefreshFailed(t))
         /\ WF_vars(ServeMe(t) \/ MeReturns(t))
         /\ WF_vars(Poll(t))
    /\ WF_vars(\E n \in Token : LapseAccess(n))

FairSpec == Spec /\ Fairness

(***************************************************************************)
(* Properties                                                              *)
(***************************************************************************)

Outcome == {"idle", "sent", "waiting", "taken", "given", "refused", "done", "yes"}
CallType == [st : Outcome, tok : Token \union {None}]

\* Every token named anywhere was issued, and every tab is on a page it can be on.
TypeOK ==
    /\ issued \in Seq(Nat) /\ Logins \subseteq Token
    /\ store \subseteq Token /\ dead \subseteq Token
    /\ ended \subseteq Nat /\ orphans \subseteq Token
    /\ jar \in [access : Token \union {None}, refresh : Token \union {None}]
    /\ tabs \in [Tab -> [token : Token \union {None}, signedIn : BOOLEAN,
                         loading : BOOLEAN, page : Pages]]
    /\ calls \in [Tab -> [me : CallType, data : CallType, first : CallType,
                          login : CallType, logout : CallType]]
    /\ refresh \in [Tab -> [st : Outcome, ref : Token \union {None}, tok : Token \union {None}]]
    /\ mishaps \in 0 .. MaxMishaps

\* However many tabs refresh at once, and whatever is lost or reloaded on the
\* way, a sign-in has one refresh token at most: rotation honours one of the
\* requests that bring the same token.
OneLivingRefresh == \A m, n \in store : issued[m] = issued[n] => m = n

\* Once a logout has met the refresh token of a sign-in, that sign-in has none
\* ever after: no refresh that was under way brings it back.
LogoutIsFinal == \A n \in store : issued[n] \notin ended

\* Nothing waits for nothing: a protected page on its spinner has a fetchMe under
\* way, and whatever waits for a refresh has one under way that will wake it.
WaitersAreWoken ==
    \A t \in Tab :
      /\ (tabs[t].loading /\ Protected(tabs[t].page))
           => calls[t].me.st # "idle" \/ calls[t].first.st # "idle"
      /\ "waiting" \in {calls[t].me.st, calls[t].data.st, calls[t].first.st}
           => refresh[t].st # "idle"

\* A tab that shows a user although the service would honour no refresh token
\* finds out, if nobody signs in again: its requests are refused once the access
\* token has run out, and the refresh fails.  (Tabs are alike: one stands for all.)
SessionEndNoticed ==
    LET t == CHOOSE t \in Tab : TRUE
    IN (tabs[t].signedIn /\ store = {}) ~> (~tabs[t].signedIn \/ store # {})

\* While the refresh cookie is there, a request for a page of the account's role
\* is let through, for the client to refresh (middleware.ts:83-85).
RefreshCookieSuffices ==
    \A page \in Page : (jar.refresh # None /\ Role \in Roles(page))
                           => Middleware(page) = {page}
=============================================================================
