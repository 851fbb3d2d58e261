----------------------------- MODULE Enrolment -----------------------------
(***************************************************************************)
(* Teams of one game and their entries in one tournament: the pages on     *)
(* which players found, join and manage teams and organisers review and    *)
(* enter them (app/dashboard/teams, app/teams/join, app/admin), and the    *)
(* services behind them (team_service.go, team_members.go,                 *)
(* team_invites.go, tournament_service.go).                                *)
(*                                                                         *)
(* The services check with some statements and write with a later one;     *)
(* only the uses of one invite are serialised.  A page acts on what it     *)
(* last loaded, and goes on when the answer of the service arrives.        *)
(***************************************************************************)
EXTENDS Naturals, FiniteSets

CONSTANTS Player,       \* users of the client, each with one tab
          Organiser,    \* the pages of organisers; one that is loaded again is another one
          Team, Invite, \* identifiers, used once
          Conn,         \* bound: requests under way at the same time
          None,         \* no team, no invite
          Founder,      \* the captain of each team at the start, None if it is yet to be founded
          FoundedAs,    \* the status the teams founded at the start may have
          Issued,       \* the team of each invite at the start, None if it is yet to be made
          Limit,        \* max_team_members + max_substitutes of the game
          MinMembers,   \* min_team_members of the game
          MaxTeams,     \* max_teams of the tournament
          MaxUses,      \* max_uses of an invite, 0 for any number
          MaxVisits,    \* bound: pages each player opens
          MaxRequests,  \* bound: changes asked for
          MaxMishaps    \* bound: answers lost, increments that fail

ASSUME PeopleAssumption ==
    /\ IsFiniteSet(Conn) /\ IsFiniteSet(Invite) /\ IsFiniteSet(Organiser) /\ IsFiniteSet(Player)
    /\ Player \intersect Organiser = {}
    /\ None \notin Player \union Organiser \union Team \union Invite
    /\ Invite \intersect Organiser = {}

ASSUME StartAssumption ==
    /\ Founder \in [Team -> Player \union {None}] /\ FoundedAs \subseteq {"pending", "approved"}
    /\ Issued \in [Invite -> Team \union {None}]
    /\ \A i \in Invite : Issued[i] # None => Founder[Issued[i]] # None
    /\ Limit \in Nat \ {0} /\ MinMembers \in Nat /\ MaxTeams \in Nat /\ MaxUses \in Nat
    /\ MaxVisits \in [Player -> Nat] /\ MaxRequests \in Nat /\ MaxMishaps \in Nat

VARIABLES team,      \* team[t]: its row and its members
          invite,    \* invite[i]: its row
          locks,     \* invites being used
          entries,   \* teams entered in the tournament
          phase,     \* the status of the tournament
          rev,       \* rev[t]: how often what a page shows of the team has changed
          conn,      \* the requests under way
          page,      \* the page each player is on
          gets,      \* gets[p][t]: loads of a team under way in the tab of a player
          visits,    \* pages each player has opened
          spent,     \* changes asked for
          mishaps,
          doors,     \* history: the invites and organisers' pages each team let members in by
          imported   \* history: the members each team has from an organiser's file

rows == <<team, invite, locks, entries, phase, rev, doors, imported>>
client == <<page, gets, visits, spent>>
vars == <<rows, conn, client, mishaps>>

Exists(t) == team[t].status \notin {"free", "gone"}
Full(t) == Cardinality(team[t].members) >= Limit
TeamsOf(u) == {t \in Team : u \in team[t].members}
InvitesOf(t) == {i \in Invite : invite[i].team = t}

Changed(t) == rev' = [rev EXCEPT ![t] = @ + 1]

Mishap == mishaps < MaxMishaps /\ mishaps' = mishaps + 1

(***************************************************************************)
(* Requests                                                                *)
(***************************************************************************)

\* by is the tab, who the user the request is about; a request that is not mine
\* any more was left behind by a tab that went to another page.
Idle == [op |-> "none", by |-> None, team |-> None, invite |-> None, who |-> None,
         st |-> "idle", mine |-> FALSE]

Ask(request) ==
    /\ spent < MaxRequests /\ spent' = spent + 1
    /\ \E c \in Conn : conn[c] = Idle /\ conn' = [conn EXCEPT ![c] = request]
    /\ UNCHANGED <<rows, page, gets, visits, mishaps>>

\* The flag that disables a button while its request is under way.
Busy(tab, op) == \E c \in Conn : conn[c].by = tab /\ conn[c].op = op /\ conn[c].mine

Request(op, tab, t, i, who) ==
    [Idle EXCEPT !.op = op, !.by = tab, !.team = t, !.invite = i, !.who = who,
                 !.st = "sent", !.mine = TRUE]

Becomes(c, st) == conn' = [conn EXCEPT ![c].st = st]
Left(p) == [c \in Conn |-> IF conn[c].by = p THEN [conn[c] EXCEPT !.mine = FALSE] ELSE conn[c]]

(***************************************************************************)
(* The pages of players                                                    *)
(***************************************************************************)

Away == [at |-> "away", team |-> None, invite |-> None, shown |-> None, failed |-> FALSE]

\* Mutant: every load is a request of its own.
FetchAnew(p, t) == [gets EXCEPT ![p][t] = @ \union {[st |-> "sent", data |-> None]}]

\* api.get: a load of the same team that is under way in the tab is joined.
Fetch(p, t) == IF gets[p][t] # {} THEN gets
               ELSE [gets EXCEPT ![p][t] = {[st |-> "sent", data |-> None]}]

Opens(p) ==
    /\ visits[p] < MaxVisits[p] /\ visits' = [visits EXCEPT ![p] = @ + 1]
    /\ conn' = Left(p)

\* The page of a team, whose link the client shows once the team is there.
OpenTeam(p, t) ==
    /\ team[t].status # "free"
    /\ page' = [page EXCEPT ![p] = [Away EXCEPT !.at = "team", !.team = t]]
    /\ gets' = Fetch(p, t)
    /\ Opens(p)
    /\ UNCHANGED <<rows, spent, mishaps>>

\* The page of an invite, once it has loaded: a form, unless the team is full.
OpenJoin(p, i) ==
    /\ invite[i].active /\ ~Full(invite[i].team)
    /\ page' = [page EXCEPT ![p] = [Away EXCEPT !.at = "join", !.invite = i]]
    /\ Opens(p)
    /\ UNCHANGED <<rows, gets, spent, mishaps>>

OpenCreate(p) ==
    /\ page[p].at # "create"
    /\ page' = [page EXCEPT ![p] = [Away EXCEPT !.at = "create"]]
    /\ Opens(p)
    /\ UNCHANGED <<rows, gets, spent, mishaps>>

\* handleSubmit of the page that founds a team.
SubmitTeam(p, t) ==
    /\ page[p].at = "create" /\ ~Busy(p, "create")
    /\ team[t].status = "free"
    /\ Ask(Request("create", p, t, None, p))

HandleJoin(p) ==
    /\ page[p].at = "join" /\ ~Busy(p, "join")
    /\ Ask(Request("join", p, invite[page[p].invite].team, page[p].invite, p))

\* What only the captain is shown, as long as no load has failed: a failure
\* replaces the page until it is opened again.
Manages(p) ==
    /\ page[p].at = "team" /\ ~page[p].failed
    /\ page[p].shown # None /\ page[p].shown.team.captain = p

HandleRemoveMember(p, u) ==
    /\ Manages(p) /\ ~Busy(p, "remove")
    /\ u \in page[p].shown.team.members \ {p}
    /\ Ask(Request("remove", p, page[p].team, None, u))

HandleRegister(p) ==
    /\ Manages(p) /\ ~Busy(p, "register")
    /\ page[p].shown.team.status = "approved" /\ ~page[p].shown.entered
    /\ Ask(Request("register", p, page[p].team, None, p))

HandleDeleteTeam(p) ==
    /\ Manages(p) /\ ~Busy(p, "delete")
    /\ Ask(Request("delete", p, page[p].team, None, p))

\* The card of invite links: making one waits for its answer, ending one does not.
HandleGenerate(p, i) ==
    /\ Manages(p) /\ ~Busy(p, "invite") /\ invite[i].st = "unused"
    /\ Ask(Request("invite", p, page[p].team, i, p))

HandleDeactivate(p, i) ==
    /\ Manages(p) /\ i \in InvitesOf(page[p].team) /\ invite[i].active
    /\ Ask(Request("deactivate", p, page[p].team, i, p))

(***************************************************************************)
(* The pages of organisers: their lists may be old, so they act on any     *)
(* team.                                                                   *)
(***************************************************************************)

HandleAssignPlayer(o, t, u) ==
    /\ ~Busy(o, "assign") /\ team[t].status # "free"
    /\ Ask(Request("assign", o, t, None, u))

HandleAddTeam(o, t) ==
    /\ ~Busy(o, "enter") /\ team[t].status # "free"
    /\ Ask(Request("enter", o, t, None, None))

\* One statement each, on a team that is there.
Direct(t) ==
    /\ spent < MaxRequests /\ spent' = spent + 1
    /\ Exists(t) /\ Changed(t)
    /\ UNCHANGED <<doors, locks, phase, conn, page, gets, visits, mishaps>>

\* Approve and Reject look at no earlier status; a bulk request is several.
Review(t, verdict) ==
    /\ Direct(t)
    /\ team' = [team EXCEPT ![t].status = verdict]
    /\ UNCHANGED <<imported, invite, entries>>

\* One row of the organisers' file: a player is put into the team of that name.
\* Nothing is checked but that he is not in it yet.
ImportParticipants(t, u) ==
    /\ Direct(t) /\ u \notin team[t].members
    /\ team' = [team EXCEPT ![t].members = @ \union {u}]
    /\ imported' = [imported EXCEPT ![t] = @ \union {u}]
    /\ UNCHANGED <<invite, entries>>

Gone == [status |-> "gone", captain |-> None, members |-> {}]
GoneInvite == [st |-> "gone", team |-> None, active |-> FALSE, used |-> 0]

\* Mutant: the entry stays behind.
DeletedAlone(t) ==
    /\ team' = [team EXCEPT ![t] = Gone]
    /\ invite' = [i \in Invite |-> IF invite[i].team = t THEN GoneInvite ELSE invite[i]]
    /\ UNCHANGED <<imported, entries>>

\* Members, invites and entries go with the row of the team.
Deleted(t) ==
    /\ team' = [team EXCEPT ![t] = Gone]
    /\ invite' = [i \in Invite |-> IF invite[i].team = t THEN GoneInvite ELSE invite[i]]
    /\ entries' = entries \ {t}
    /\ UNCHANGED imported

AdminDelete(t) == Direct(t) /\ Deleted(t)

HandleRemoveTeam(t) ==
    /\ Direct(t) /\ t \in entries
    /\ entries' = entries \ {t}
    /\ UNCHANGED <<imported, team, invite>>

Phases == {"registration", "ongoing", "completed", "cancelled"}

\* The page offers every status, the service only a step forward; a tournament that
\* is still upcoming is not modelled.
HandleStatusChange(status) ==
    /\ <<phase, status>> \in {<<"registration", "ongoing">>, <<"registration", "cancelled">>,
                             <<"ongoing", "completed">>, <<"ongoing", "cancelled">>}
    /\ spent < MaxRequests /\ spent' = spent + 1
    /\ phase' = status
    /\ UNCHANGED <<doors, imported, team, invite, locks, entries, rev, conn, page, gets, visits, mishaps>>

(***************************************************************************)
(* The services                                                            *)
(***************************************************************************)

Sent(c, op) == conn[c].op = op /\ conn[c].st = "sent"
Checked(c, op) == conn[c].op = op /\ conn[c].st = "checked"

Check(c, passes) ==
    /\ Becomes(c, IF passes THEN "checked" ELSE "error")
    /\ UNCHANGED <<rows, client, mishaps>>

\* Create: first the look for other teams of the user, then row and captain in
\* one transaction.
CheckCreate(c) == Sent(c, "create") /\ Check(c, TeamsOf(conn[c].who) = {})

InsertTeam(c) ==
    LET t == conn[c].team
        p == conn[c].who
    IN /\ Checked(c, "create")
       /\ IF team[t].status = "free"
          THEN /\ team' = [team EXCEPT ![t] = [status |-> "pending", captain |-> p, members |-> {p}]]
               /\ Changed(t)
               /\ Becomes(c, "ok")
          ELSE Becomes(c, "error") /\ UNCHANGED <<team, rev>>
       /\ UNCHANGED <<doors, imported, invite, locks, entries, phase, client, mishaps>>

HasRoom(t, u) == Exists(t) /\ ~Full(t) /\ TeamsOf(u) = {}

Usable(i) == invite[i].active /\ (MaxUses = 0 \/ invite[i].used < MaxUses)

\* Mutant: the invite is not locked.
UseInviteUnlocked(c) ==
    LET i == conn[c].invite
        passes == Usable(i) /\ HasRoom(invite[i].team, conn[c].who)
    IN /\ Sent(c, "join")
       /\ Becomes(c, IF passes THEN "checked" ELSE "error")
       /\ UNCHANGED <<rows, client, mishaps>>

\* JoinViaInvite up to its last check.  Between the lock and the checks nobody
\* else uses the invite; a lock that is taken is an error, and so is one that
\* cannot be had.
UseInvite(c) ==
    LET i == conn[c].invite
        passes == i \notin locks /\ Usable(i) /\ HasRoom(invite[i].team, conn[c].who)
    IN /\ Sent(c, "join")
       /\ Becomes(c, IF passes THEN "checked" ELSE "error")
       /\ locks' = IF passes THEN locks \union {i} ELSE locks
       /\ UNCHANGED <<doors, imported, team, invite, entries, phase, rev, client, mishaps>>

\* AdminAddMember up to its last check: no lock.
CheckAssign(c) == Sent(c, "assign") /\ Check(c, HasRoom(conn[c].team, conn[c].who))

Door(r) == IF r.op = "join" THEN r.invite ELSE r.by

\* The insert, which only the keys of the table can refuse.
InsertMember(c) ==
    LET t == conn[c].team
        u == conn[c].who
        fits == Exists(t) /\ u \notin team[t].members
        joins == conn[c].op = "join"
    IN /\ Checked(c, "join") \/ Checked(c, "assign")
       /\ IF fits
          THEN /\ team' = [team EXCEPT ![t].members = @ \union {u}] /\ Changed(t)
               /\ doors' = [doors EXCEPT ![t] = @ \union {Door(conn[c])}]
               /\ imported' = [imported EXCEPT ![t] = @ \ {u}]
          ELSE UNCHANGED <<team, rev, doors, imported>>
       /\ Becomes(c, IF ~fits THEN "error" ELSE IF joins THEN "inserted" ELSE "ok")
       /\ locks' = IF joins /\ ~fits THEN locks \ {conn[c].invite} ELSE locks
       /\ UNCHANGED <<invite, entries, phase, client, mishaps>>

\* IncrementUsed, a statement of its own: if it fails the member stays and the
\* answer is an error.  The lock comes back either way.
CountUse(c) ==
    LET i == conn[c].invite IN
    /\ conn[c].op = "join" /\ conn[c].st = "inserted"
    /\ locks' = locks \ {i}
    /\ \/ /\ invite' = IF invite[i].st = "made" THEN [invite EXCEPT ![i].used = @ + 1] ELSE invite
          /\ Becomes(c, "ok") /\ UNCHANGED mishaps
       \/ Mishap /\ Becomes(c, "error") /\ UNCHANGED invite
    /\ UNCHANGED <<doors, imported, team, entries, phase, rev, client>>

\* RegisterTeam: every check, each a statement of its own, before the insert.
CheckRegister(c) ==
    LET t == conn[c].team IN
    /\ Sent(c, "register")
    /\ Check(c, /\ phase = "registration"
                /\ Cardinality(entries) < MaxTeams
                /\ team[t].status = "approved" /\ team[t].captain = conn[c].who
                /\ Cardinality(team[t].members) >= MinMembers
                /\ t \notin entries)

\* AdminRegisterTeam checks neither the phase nor the numbers.
CheckEnter(c) ==
    /\ Sent(c, "enter")
    /\ Check(c, team[conn[c].team].status = "approved" /\ conn[c].team \notin entries)

InsertEntry(c) ==
    LET t == conn[c].team
        fits == Exists(t) /\ t \notin entries
    IN /\ Checked(c, "register") \/ Checked(c, "enter")
       /\ IF fits THEN entries' = entries \union {t} /\ Changed(t)
                  ELSE UNCHANGED <<entries, rev>>
       /\ Becomes(c, IF fits THEN "ok" ELSE "error")
       /\ UNCHANGED <<doors, imported, team, invite, locks, phase, client, mishaps>>

CheckDelete(c) ==
    LET t == conn[c].team IN
    /\ Sent(c, "delete")
    /\ Check(c, /\ Exists(t) /\ team[t].captain = conn[c].by
                /\ t \in entries => phase \in {"completed", "cancelled"})

\* A row that is gone already is deleted without an error.
DeleteTeam(c) ==
    LET t == conn[c].team IN
    /\ Checked(c, "delete")
    /\ Deleted(t) /\ Changed(t)
    /\ Becomes(c, "ok")
    /\ UNCHANGED <<doors, locks, phase, client, mishaps>>

\* RemoveMember: the captain's own request, and never the captain.
ServeRemove(c) ==
    LET t == conn[c].team
        allowed == /\ Exists(t) /\ team[t].captain = conn[c].by
                   /\ conn[c].who \in team[t].members /\ conn[c].who # team[t].captain
    IN /\ Sent(c, "remove")
       /\ IF allowed
          THEN /\ team' = [team EXCEPT ![t].members = @ \ {conn[c].who}] /\ Changed(t)
               /\ imported' = [imported EXCEPT ![t] = @ \ {conn[c].who}]
          ELSE UNCHANGED <<team, rev, imported>>
       /\ Becomes(c, IF allowed THEN "ok" ELSE "error")
       /\ UNCHANGED <<doors, invite, locks, entries, phase, client, mishaps>>

ServeInvite(c) ==
    LET t == conn[c].team
        i == conn[c].invite
        allowed == Exists(t) /\ team[t].captain = conn[c].by /\ invite[i].st = "unused"
    IN /\ Sent(c, "invite")
       /\ invite' = IF allowed
                    THEN [invite EXCEPT ![i] = [st |-> "made", team |-> t, active |-> TRUE, used |-> 0]]
                    ELSE invite
       /\ Becomes(c, IF allowed THEN "ok" ELSE "error")
       /\ UNCHANGED <<doors, imported, team, locks, entries, phase, rev, client, mishaps>>

ServeDeactivate(c) ==
    LET i == conn[c].invite
        allowed == /\ Exists(conn[c].team) /\ team[conn[c].team].captain = conn[c].by
                   /\ invite[i].team = conn[c].team
    IN /\ Sent(c, "deactivate")
       /\ invite' = IF allowed THEN [invite EXCEPT ![i].active = FALSE] ELSE invite
       /\ Becomes(c, IF allowed THEN "ok" ELSE "error")
       /\ UNCHANGED <<doors, imported, team, locks, entries, phase, rev, client, mishaps>>

\* A link runs out by itself as well.
Expire(i) ==
    /\ invite[i].active
    /\ Mishap
    /\ invite' = [invite EXCEPT ![i].active = FALSE]
    /\ UNCHANGED <<doors, imported, team, locks, entries, phase, rev, conn, client>>

(***************************************************************************)
(* Answers                                                                 *)
(***************************************************************************)

\* The handler goes on: it loads the team again, or leaves the page.  An error
\* and a lost answer only put a message on the screen.
Answer(c) ==
    LET r == conn[c] IN
    /\ r.st \in {"ok", "error"}
    /\ conn' = [conn EXCEPT ![c] = Idle]
    /\ \/ /\ r.st = "ok" /\ r.mine /\ r.by \in Player
          /\ page' = IF r.op \in {"create", "join", "delete"}
                     THEN [page EXCEPT ![r.by] = Away] ELSE page
          /\ gets' = IF r.op \in {"remove", "register"} THEN Fetch(r.by, r.team) ELSE gets
          /\ UNCHANGED mishaps
       \/ /\ r.st = "error" \/ ~r.mine \/ r.by \notin Player
          /\ UNCHANGED <<page, gets, mishaps>>
       \/ /\ r.st = "ok" /\ Mishap
          /\ UNCHANGED <<page, gets>>
    /\ UNCHANGED <<rows, visits, spent>>

ServeGet(p, t, g) ==
    /\ g.st = "sent"
    /\ LET answer == IF Exists(t)
                     THEN [st |-> "found",
                           data |-> [rev |-> rev[t], team |-> team[t], entered |-> t \in entries]]
                     ELSE [st |-> "missing", data |-> None]
       IN gets' = [gets EXCEPT ![p][t] = (@ \ {g}) \union {answer}]
    /\ UNCHANGED <<rows, conn, page, visits, spent, mishaps>>

\* fetchTeam: what came is shown; an error stays until the page is opened again.
GetArrives(p, t, g) ==
    /\ gets' = [gets EXCEPT ![p][t] = @ \ {g}]
    /\ \/ g.st = "found" /\ UNCHANGED mishaps
          /\ page' = IF page[p].at = "team" /\ page[p].team = t
                     THEN [page EXCEPT ![p].shown = g.data] ELSE page
       \/ \/ g.st = "missing" /\ UNCHANGED mishaps
          \/ g.st # "missing" /\ Mishap
          /\ page' = IF page[p].at = "team" /\ page[p].team = t
                     THEN [page EXCEPT ![p].failed = TRUE] ELSE page
    /\ UNCHANGED <<rows, conn, visits, spent>>

(***************************************************************************)
(* Specification                                                           *)
(***************************************************************************)

Init ==
    /\ \E status \in FoundedAs :
         team = [t \in Team |->
                   IF Founder[t] = None THEN [status |-> "free", captain |-> None, members |-> {}]
                   ELSE [status |-> status, captain |-> Founder[t], members |-> {Founder[t]}]]
    /\ invite = [i \in Invite |->
                   IF Issued[i] = None
                   THEN [st |-> "unused", team |-> None, active |-> FALSE, used |-> 0]
                   ELSE [st |-> "made", team |-> Issued[i], active |-> TRUE, used |-> 0]]
    /\ locks = {} /\ entries = {} /\ phase = "registration"
    /\ rev = [t \in Team |-> 0]
    /\ conn = [c \in Conn |-> Idle]
    /\ page = [p \in Player |-> Away]
    /\ gets = [p \in Player |-> [t \in Team |-> {}]]
    /\ visits = [p \in Player |-> 0] /\ spent = 0 /\ mishaps = 0
    /\ doors = [t \in Team |-> {}] /\ imported = [t \in Team |-> {}]

PlayerStep(p) ==
    \/ OpenCreate(p) \/ HandleJoin(p) \/ HandleRegister(p) \/ HandleDeleteTeam(p)
    \/ \E t \in Team : OpenTeam(p, t) \/ SubmitTeam(p, t)
    \/ \E i \in Invite : OpenJoin(p, i) \/ HandleGenerate(p, i) \/ HandleDeactivate(p, i)
    \/ \E u \in Player : HandleRemoveMember(p, u)
    \/ \E t \in Team : \E g \in gets[p][t] : ServeGet(p, t, g) \/ GetArrives(p, t, g)

OrganiserStep ==
    \/ \E o \in Organiser, t \in Team :
         HandleAddTeam(o, t) \/ \E u \in Player : HandleAssignPlayer(o, t, u)
    \/ \E t \in Team, u \in Player : ImportParticipants(t, u)
    \/ \E t \in Team :
         \/ Review(t, "approved") \/ Review(t, "rejected")
         \/ AdminDelete(t) \/ HandleRemoveTeam(t)
    \/ \E status \in Phases : HandleStatusChange(status)

ServiceStep(c) ==
    \/ CheckCreate(c) \/ InsertTeam(c)
    \/ UseInvite(c) \/ CheckAssign(c) \/ InsertMember(c) \/ CountUse(c)
    \/ CheckRegister(c) \/ CheckEnter(c) \/ InsertEntry(c)
    \/ CheckDelete(c) \/ DeleteTeam(c)
    \/ ServeRemove(c) \/ ServeInvite(c) \/ ServeDeactivate(c)

Next ==
    \/ \E p \in Player : PlayerStep(p)
    \/ OrganiserStep
    \/ \E c \in Conn : ServiceStep(c) \/ Answer(c)
    \/ \E i \in Invite : Expire(i)

Spec == Init /\ [][Next]_vars

(***************************************************************************)
(* Properties                                                              *)
(***************************************************************************)

Statuses == {"pending", "approved", "rejected"}
Snapshot == [rev : Nat, team : [status : Statuses, captain : Player, members : SUBSET Player],
             entered : BOOLEAN]
Operation == {"none", "create", "join", "remove", "register", "delete", "invite",
              "deactivate", "assign", "enter"}

RequestType ==
    [op : Operation, by : Player \union Organiser \union {None}, team : Team \union {None},
     invite : Invite \union {None}, who : Player \union {None},
     st : {"idle", "sent", "checked", "inserted", "ok", "error"}, mine : BOOLEAN]

\* A team that is there has a captain, who is one of its members.
TypeOK ==
    /\ team \in [Team -> [status : Statuses \union {"free", "gone"},
                          captain : Player \union {None}, members : SUBSET Player]]
    /\ \A t \in Team : IF Exists(t) THEN team[t].captain \in team[t].members
                                    ELSE team[t].members = {}
    /\ invite \in [Invite -> [st : {"unused", "made", "gone"}, team : Team \union {None},
                              active : BOOLEAN, used : Nat]]
    /\ \A i \in Invite : invite[i].team # None => invite[i].st = "made" /\ Exists(invite[i].team)
    /\ locks \subseteq Invite /\ entries \subseteq Team /\ phase \in Phases
    /\ rev \in [Team -> Nat]
    /\ conn \in [Conn -> RequestType]
    /\ page \in [Player -> [at : {"away", "team", "join", "create"}, team : Team \union {None},
                            invite : Invite \union {None}, shown : Snapshot \union {None},
                            failed : BOOLEAN]]
    /\ gets \in [Player -> [Team -> SUBSET [st : {"sent", "found", "missing"},
                                            data : Snapshot \union {None}]]]
    /\ doors \in [Team -> SUBSET (Invite \union Organiser)] /\ imported \in [Team -> SUBSET Player]
    /\ visits \in [Player -> Nat] /\ spent \in 0 .. MaxRequests /\ mishaps \in 0 .. MaxMishaps

\* An invite is never counted past its limit, however many players follow the
\* link at once: the lock covers the check and the increment.
InviteBudget ==
    MaxUses > 0 => \A i \in Invite : invite[i].used <= MaxUses

\* The members a team has by its own doors, whose limit is checked at each.
LetIn(t) == team[t].members \ imported[t]

\* The count of members and the insert are two statements and the lock is that of
\* an invite, so a roster can grow past its limit; but, leaving aside whom a file
\* of the organisers put into it, by fewer members than the invites and
\* organisers' pages that let somebody in.
RosterOverrun ==
    \A t \in Team : \/ Cardinality(LetIn(t)) <= Limit
                    \/ Cardinality(LetIn(t)) < Limit + Cardinality(doors[t])

\* "Team cannot exceed max_team_members + max_substitutes defined by the game":
\* what the validation rules ask of every way into a team.
RosterWithinLimit == \A t \in Team : Cardinality(team[t].members) <= Limit

\* Every entry is of a team that is there and has been reviewed, whatever was
\* deleted, withdrawn or rejected between the checks and the insert.
EntriesReviewed == \A t \in entries : team[t].status \in {"approved", "rejected"}

\* A page never goes back to an older state of its team: of all the loads that its
\* handlers start, one is under way at a time.
ViewNeverGoesBack ==
    [][\A p \in Player :
         (page[p].shown # None /\ page'[p].shown # None /\ page'[p].team = page[p].team)
           => page'[p].shown.rev >= page[p].shown.rev]_vars
=============================================================================
