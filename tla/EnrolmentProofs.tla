-------------------------- MODULE EnrolmentProofs --------------------------
(***************************************************************************)
(* Theorems about Enrolment, for any players, teams, invites and bounds:   *)
(* its types; that no invite is counted past its limit; that every entry   *)
(* is of a reviewed team; that a page never goes back to an older state;   *)
(* and how far a roster can grow past its limit.                           *)
(***************************************************************************)
EXTENDS Enrolment, FiniteSetTheorems, TLAPS

\* What a handler puts into its request.
Shaped(r) ==
    /\ r.op \notin {"none", "join"} => r.team \in Team
    /\ r.op \in {"create", "join", "remove", "assign"} => r.who \in Player
    /\ r.op \in {"join", "invite", "deactivate"} => r.invite \in Invite
    /\ r.op = "assign" => r.by \in Organiser
    /\ r.op = "join" /\ r.st = "checked" => r.team \in Team

\* A request to join is about the team its invite was made for.
Invited(r) ==
    r.op = "join" => /\ invite[r.invite].st # "unused"
                     /\ invite[r.invite].active => r.team = invite[r.invite].team

InvitesShaped == \A i \in Invite : invite[i].active => invite[i].team # None

Opened(p) ==
    /\ page[p].at = "team" => page[p].team \in Team
    /\ page[p].at = "join" => page[p].invite \in Invite /\ invite[page[p].invite].st # "unused"
    /\ page[p].shown # None => page[p].at = "team"

TeamRow == [status : Statuses \union {"free", "gone"}, captain : Player \union {None},
            members : SUBSET Player]
InviteRow == [st : {"unused", "made", "gone"}, team : Team \union {None},
              active : BOOLEAN, used : Nat]
PageType == [at : {"away", "team", "join", "create"}, team : Team \union {None},
             invite : Invite \union {None}, shown : Snapshot \union {None}, failed : BOOLEAN]
GetType == [st : {"sent", "found", "missing"}, data : Snapshot \union {None}]

TeamTyped == /\ team \in [Team -> TeamRow]
             /\ \A t \in Team : IF Exists(t) THEN team[t].captain \in team[t].members
                                             ELSE team[t].members = {}
InviteTyped == /\ invite \in [Invite -> InviteRow] /\ InvitesShaped
               /\ \A i \in Invite : invite[i].team # None => invite[i].st = "made" /\ Exists(invite[i].team)
OtherRowsTyped == /\ locks \subseteq Invite /\ entries \subseteq Team /\ phase \in Phases
                  /\ rev \in [Team -> Nat] /\ doors \in [Team -> SUBSET (Invite \union Organiser)]
                  /\ imported \in [Team -> SUBSET Player]
RowsTyped == TeamTyped /\ InviteTyped /\ OtherRowsTyped

ConnTyped == /\ conn \in [Conn -> RequestType]
             /\ \A c \in Conn : Shaped(conn[c]) /\ Invited(conn[c])
PageTyped == page \in [Player -> PageType] /\ \A p \in Player : Opened(p)
GetsTyped == gets \in [Player -> [Team -> SUBSET GetType]]
CountTyped == /\ visits \in [Player -> Nat]
              /\ spent \in 0 .. MaxRequests /\ mishaps \in 0 .. MaxMishaps

TypeInv == RowsTyped /\ ConnTyped /\ PageTyped /\ GetsTyped /\ CountTyped

-----------------------------------------------------------------------------
(***************************************************************************)
(* The parts of a step                                                     *)
(***************************************************************************)

Stage == {"idle", "sent", "checked", "inserted", "ok", "error"}

\* A service brings one request to its next stage.
LEMMA Becoming ==
    ASSUME conn \in [Conn -> RequestType], NEW c \in Conn, NEW st \in Stage, Becomes(c, st)
    PROVE  /\ conn' \in [Conn -> RequestType]
           /\ conn'[c] = [conn[c] EXCEPT !.st = st]
           /\ conn'[c].st = st /\ conn'[c].op = conn[c].op /\ conn'[c].by = conn[c].by
           /\ conn'[c].team = conn[c].team /\ conn'[c].invite = conn[c].invite
           /\ conn'[c].who = conn[c].who /\ conn'[c].mine = conn[c].mine
           /\ \A d \in Conn \ {c} : conn'[d] = conn[d]
  BY DEF Becomes, RequestType, Stage

LEMMA IdleTyped == Idle \in RequestType /\ Shaped(Idle) /\ Idle.op = "none" /\ Idle.st = "idle"
  BY DEF Idle, RequestType, Operation, Shaped

\* What a handler asks for.
NewRequest(r) ==
    /\ r \in RequestType /\ Shaped(r) /\ Invited(r)
    /\ r.st = "sent" /\ r.mine
    /\ r.op = "assign" => ~Busy(r.by, "assign")

Asks == \E r \in RequestType : NewRequest(r) /\ Ask(r)

LEMMA Asked ==
    ASSUME conn \in [Conn -> RequestType], NEW r \in RequestType, NewRequest(r), Ask(r)
    PROVE  \E c \in Conn : /\ conn[c] = Idle
                           /\ conn' \in [Conn -> RequestType] /\ conn'[c] = r
                           /\ \A d \in Conn \ {c} : conn'[d] = conn[d]
  BY DEF Ask

\* A tab goes to another page: its requests are not its own any more.
LEMMA Leaving ==
    ASSUME conn \in [Conn -> RequestType], NEW p \in Player, Opens(p)
    PROVE  /\ conn' \in [Conn -> RequestType]
           /\ \A c \in Conn :
                /\ conn'[c].st = conn[c].st /\ conn'[c].op = conn[c].op
                /\ conn'[c].by = conn[c].by /\ conn'[c].team = conn[c].team
                /\ conn'[c].invite = conn[c].invite /\ conn'[c].who = conn[c].who
                /\ conn'[c].mine = (conn[c].mine /\ conn[c].by # p)
  BY ZenonT(60) DEF Opens, Left, RequestType

LEMMA RequestTyped ==
    ASSUME NEW op \in Operation, NEW tab \in Player \union Organiser, NEW t \in Team \union {None},
           NEW i \in Invite \union {None}, NEW who \in Player \union {None}
    PROVE  /\ Request(op, tab, t, i, who) \in RequestType
           /\ Request(op, tab, t, i, who).op = op /\ Request(op, tab, t, i, who).by = tab
           /\ Request(op, tab, t, i, who).team = t /\ Request(op, tab, t, i, who).invite = i
           /\ Request(op, tab, t, i, who).who = who
           /\ Request(op, tab, t, i, who).st = "sent" /\ Request(op, tab, t, i, who).mine
  BY DEF Request, Idle, RequestType

\* The handlers of the players' pages ask for one thing each.
LEMMA PlayerAsks ==
    ASSUME TypeInv, NEW p \in Player,
           \/ HandleJoin(p) \/ HandleRegister(p) \/ HandleDeleteTeam(p)
           \/ \E t \in Team : SubmitTeam(p, t)
           \/ \E i \in Invite : HandleGenerate(p, i) \/ HandleDeactivate(p, i)
           \/ \E u \in Player : HandleRemoveMember(p, u)
    PROVE  Asks
  <1>o. Opened(p) /\ invite \in [Invite -> [st : {"unused", "made", "gone"}, team : Team \union {None},
                              active : BOOLEAN, used : Nat]]
    BY DEF TypeInv, PageTyped, RowsTyped, InviteTyped, InviteRow
  <1>m. Manages(p) => page[p].team \in Team
    BY <1>o DEF Manages, Opened
  <1>1. ASSUME HandleJoin(p) PROVE Asks
    <2> DEFINE i == page[p].invite
               r == Request("join", p, invite[i].team, i, p)
    <2>1. i \in Invite /\ invite[i].st # "unused" /\ invite[i].team \in Team \union {None}
      BY <1>1, <1>o DEF HandleJoin, Opened
    <2>a. "join" \in Operation /\ p \in Player \union Organiser /\ p \in Player \union {None}
          /\ invite[i].team \in Team \union {None} /\ i \in Invite \union {None}
      BY <2>1 DEF Operation
    <2>2. r \in RequestType /\ r.op = "join" /\ r.by = p /\ r.team = invite[i].team
          /\ r.invite = i /\ r.who = p /\ r.st = "sent" /\ r.mine
      BY <2>a DEF Request, Idle, RequestType
    <2>3. NewRequest(r)
      <3> HIDE DEF r
      <3> QED BY <2>1, <2>2 DEF NewRequest, Shaped, Invited
    <2> QED BY <2>2, <2>3, <1>1 DEF Asks, HandleJoin
  <1>2. ASSUME HandleRegister(p) PROVE Asks
    <2> DEFINE r == Request("register", p, page[p].team, None, p)
    <2>1. page[p].team \in Team
      BY <1>2, <1>m DEF HandleRegister
    <2>a. "register" \in Operation /\ p \in Player \union Organiser /\ p \in Player \union {None}
          /\ page[p].team \in Team \union {None}
      BY <2>1 DEF Operation
    <2>2. r \in RequestType /\ r.op = "register" /\ r.team = page[p].team /\ r.st = "sent" /\ r.mine
      BY <2>a DEF Request, Idle, RequestType
    <2>3. NewRequest(r)
      <3> HIDE DEF r
      <3> QED BY <2>1, <2>2 DEF NewRequest, Shaped, Invited
    <2> QED BY <2>2, <2>3, <1>2 DEF Asks, HandleRegister
  <1>3. ASSUME HandleDeleteTeam(p) PROVE Asks
    <2> DEFINE r == Request("delete", p, page[p].team, None, p)
    <2>1. page[p].team \in Team
      BY <1>3, <1>m DEF HandleDeleteTeam
    <2>a. "delete" \in Operation /\ p \in Player \union Organiser /\ p \in Player \union {None}
          /\ page[p].team \in Team \union {None}
      BY <2>1 DEF Operation
    <2>2. r \in RequestType /\ r.op = "delete" /\ r.team = page[p].team /\ r.st = "sent" /\ r.mine
      BY <2>a DEF Request, Idle, RequestType
    <2>3. NewRequest(r)
      <3> HIDE DEF r
      <3> QED BY <2>1, <2>2 DEF NewRequest, Shaped, Invited
    <2> QED BY <2>2, <2>3, <1>3 DEF Asks, HandleDeleteTeam
  <1>4. ASSUME NEW t \in Team, SubmitTeam(p, t) PROVE Asks
    <2> DEFINE r == Request("create", p, t, None, p)
    <2>2. r \in RequestType /\ r.op = "create" /\ r.team = t /\ r.who = p /\ r.st = "sent" /\ r.mine
      BY SMTT(30), RequestTyped DEF Operation
    <2>3. NewRequest(r)
      <3> HIDE DEF r
      <3> QED BY <2>2 DEF NewRequest, Shaped, Invited
    <2> QED BY <2>2, <2>3, <1>4 DEF Asks, SubmitTeam
  <1>5. ASSUME NEW i \in Invite, HandleGenerate(p, i) PROVE Asks
    <2> DEFINE r == Request("invite", p, page[p].team, i, p)
    <2>1. page[p].team \in Team
      BY <1>5, <1>m DEF HandleGenerate
    <2>2. r \in RequestType /\ r.op = "invite" /\ r.team = page[p].team /\ r.invite = i
          /\ r.st = "sent" /\ r.mine
      BY <2>1, RequestTyped DEF Operation
    <2>3. NewRequest(r)
      <3> HIDE DEF r
      <3> QED BY <2>1, <2>2 DEF NewRequest, Shaped, Invited
    <2> QED BY <2>2, <2>3, <1>5 DEF Asks, HandleGenerate
  <1>6. ASSUME NEW i \in Invite, HandleDeactivate(p, i) PROVE Asks
    <2> DEFINE r == Request("deactivate", p, page[p].team, i, p)
    <2>1. page[p].team \in Team
      BY <1>6, <1>m DEF HandleDeactivate
    <2>2. r \in RequestType /\ r.op = "deactivate" /\ r.team = page[p].team /\ r.invite = i
          /\ r.st = "sent" /\ r.mine
      BY <2>1, RequestTyped DEF Operation
    <2>3. NewRequest(r)
      <3> HIDE DEF r
      <3> QED BY <2>1, <2>2 DEF NewRequest, Shaped, Invited
    <2> QED BY <2>2, <2>3, <1>6 DEF Asks, HandleDeactivate
  <1>7. ASSUME NEW u \in Player, HandleRemoveMember(p, u) PROVE Asks
    <2> DEFINE r == Request("remove", p, page[p].team, None, u)
    <2>1. page[p].team \in Team
      BY <1>7, <1>m DEF HandleRemoveMember
    <2>a. "remove" \in Operation /\ p \in Player \union Organiser /\ p \in Player \union {None}
          /\ page[p].team \in Team \union {None}
      BY <2>1 DEF Operation
    <2>2. r \in RequestType /\ r.op = "remove" /\ r.team = page[p].team /\ r.who = u
          /\ r.st = "sent" /\ r.mine
      BY <2>a DEF Request, Idle, RequestType
    <2>3. NewRequest(r)
      <3> HIDE DEF r
      <3> QED BY <2>1, <2>2 DEF NewRequest, Shaped, Invited
    <2> QED BY <2>2, <2>3, <1>7 DEF Asks, HandleRemoveMember
  <1> QED BY <1>1, <1>2, <1>3, <1>4, <1>5, <1>6, <1>7

\* So do those of the organisers' pages.
LEMMA OrganiserAsks ==
    ASSUME NEW o \in Organiser, NEW t \in Team,
           HandleAddTeam(o, t) \/ \E u \in Player : HandleAssignPlayer(o, t, u)
    PROVE  Asks
  <1>1. ASSUME HandleAddTeam(o, t) PROVE Asks
    <2> DEFINE r == Request("enter", o, t, None, None)
    <2>2. r \in RequestType /\ r.op = "enter" /\ r.team = t /\ r.st = "sent" /\ r.mine
      BY RequestTyped DEF Operation
    <2>3. NewRequest(r)
      <3> HIDE DEF r
      <3> QED BY <2>2 DEF NewRequest, Shaped, Invited
    <2> QED BY <2>2, <2>3, <1>1 DEF Asks, HandleAddTeam
  <1>2. ASSUME NEW u \in Player, HandleAssignPlayer(o, t, u) PROVE Asks
    <2> DEFINE r == Request("assign", o, t, None, u)
    <2>2. r \in RequestType /\ r.op = "assign" /\ r.by = o /\ r.team = t /\ r.who = u
          /\ r.st = "sent" /\ r.mine
      BY RequestTyped DEF Operation
    <2>3. NewRequest(r)
      <3>1. ~Busy(o, "assign")
        BY <1>2 DEF HandleAssignPlayer
      <3> HIDE DEF r
      <3> QED BY <2>2, <3>1 DEF NewRequest, Shaped, Invited
    <2> QED BY <2>2, <2>3, <1>2 DEF Asks, HandleAssignPlayer
  <1> QED BY <1>1, <1>2

\* The checks that take no lock: only the request is changed.
Judges(c) == /\ \/ CheckCreate(c) \/ CheckAssign(c) \/ CheckRegister(c)
                \/ CheckEnter(c) \/ CheckDelete(c)
             /\ UNCHANGED <<rows, client, mishaps>>

Imports(t) == \E u \in Player : ImportParticipants(t, u)

Navigates(p) == OpenCreate(p) \/ (\E t \in Team : OpenTeam(p, t)) \/ \E i \in Invite : OpenJoin(p, i)

\* The steps of the specification, by what they do.
Uncounted ==
    \/ Asks
    \/ \E p \in Player : Navigates(p)
    \/ \E p \in Player, t \in Team : \E g \in gets[p][t] : ServeGet(p, t, g) \/ GetArrives(p, t, g)
    \/ \E t \in Team : \/ Review(t, "approved") \/ Review(t, "rejected")
                       \/ AdminDelete(t) \/ HandleRemoveTeam(t) \/ Imports(t)
    \/ \E status \in Phases : HandleStatusChange(status)
    \/ \E c \in Conn :
         \/ Judges(c) \/ UseInvite(c)
         \/ InsertTeam(c) \/ InsertMember(c) \/ InsertEntry(c)
         \/ DeleteTeam(c) \/ ServeRemove(c) \/ ServeInvite(c) \/ ServeDeactivate(c)
         \/ Answer(c)
    \/ \E i \in Invite : Expire(i)

Cases == Uncounted \/ \E c \in Conn : CountUse(c)

LEMMA StepCases ==
    ASSUME TypeInv, Next
    PROVE  Cases
  <1>1. ASSUME NEW p \in Player, PlayerStep(p) PROVE Cases
    BY <1>1, PlayerAsks, Zenon DEF PlayerStep, Cases, Uncounted, Navigates
  <1>2. ASSUME OrganiserStep PROVE Cases
    BY <1>2, OrganiserAsks, Zenon DEF OrganiserStep, Cases, Uncounted, Imports
  <1>3. ASSUME NEW c \in Conn, ServiceStep(c) PROVE Cases
    <2>1. CheckCreate(c) \/ CheckAssign(c) \/ CheckRegister(c) \/ CheckEnter(c) \/ CheckDelete(c)
            => UNCHANGED <<rows, client, mishaps>>
      BY DEF CheckCreate, CheckAssign, CheckRegister, CheckEnter, CheckDelete, Check
    <2> QED BY <1>3, <2>1, Zenon DEF ServiceStep, Judges, Cases, Uncounted
  <1> QED BY <1>1, <1>2, <1>3, Zenon DEF Next, Cases, Uncounted

-----------------------------------------------------------------------------
(***************************************************************************)
(* Types                                                                   *)
(***************************************************************************)

LEMMA TypesFollow == TypeInv => TypeOK
  BY Zenon DEF TypeInv, TypeOK, RowsTyped, TeamTyped, InviteTyped, OtherRowsTyped, ConnTyped, PageTyped,
         GetsTyped, CountTyped, TeamRow, InviteRow, PageType, GetType

\* An invite is made once, ends once and never changes its team.
InvitesMove ==
    \A i \in Invite : /\ invite'[i].st = "unused" => invite[i].st = "unused"
                      /\ invite'[i].active /\ invite[i].st # "unused"
                           => invite[i].active /\ invite'[i].team = invite[i].team

LEMMA MishapTyped ==
    ASSUME CountTyped, Mishap PROVE mishaps' \in 0 .. MaxMishaps
  BY StartAssumption DEF CountTyped, Mishap

LEMMA SnapshotTyped ==
    ASSUME RowsTyped, NEW t \in Team, Exists(t)
    PROVE  [rev |-> rev[t], team |-> team[t], entered |-> t \in entries] \in Snapshot
  <1>1. rev[t] \in Nat /\ team[t] \in TeamRow /\ team[t].captain \in team[t].members
    BY DEF RowsTyped, TeamTyped, OtherRowsTyped
  <1>2. team[t] \in [status : Statuses, captain : Player, members : SUBSET Player]
    BY <1>1 DEF TeamRow, Exists
  <1> DEFINE e == t \in entries
  <1>3. e \in BOOLEAN
    OBVIOUS
  <1> HIDE DEF e
  <1>4. [rev |-> rev[t], team |-> team[t], entered |-> e] \in Snapshot
    BY <1>1, <1>2, <1>3 DEF Snapshot
  <1> QED BY <1>4 DEF e

LEMMA FetchTyped ==
    ASSUME GetsTyped, NEW p \in Player, NEW t \in Team
    PROVE  Fetch(p, t) \in [Player -> [Team -> SUBSET GetType]]
  <1>1. [st |-> "sent", data |-> None] \in GetType
    BY DEF GetType
  <1> QED BY <1>1 DEF GetsTyped, Fetch

LEMMA AsksTypes ==
    ASSUME TypeInv, Asks
    PROVE  TypeInv'
  <1>t. RowsTyped /\ ConnTyped /\ PageTyped /\ GetsTyped /\ CountTyped
    BY DEF TypeInv
  <1>1. PICK r \in RequestType : NewRequest(r) /\ Ask(r)
    BY DEF Asks
  <1>2. UNCHANGED <<rows, page, gets, visits, mishaps>> /\ spent' \in 0 .. MaxRequests
    BY <1>1, <1>t, StartAssumption DEF Ask, CountTyped
  <1>3. RowsTyped'
    BY <1>2, <1>t DEF RowsTyped, TeamTyped, InviteTyped, OtherRowsTyped, InvitesShaped, Exists, rows
  <1>4. ConnTyped'
    <2>1. PICK c \in Conn : /\ conn[c] = Idle
                            /\ conn' \in [Conn -> RequestType] /\ conn'[c] = r
                            /\ \A d \in Conn \ {c} : conn'[d] = conn[d]
      BY <1>1, <1>t, Asked DEF ConnTyped
    <2>2. Shaped(r) /\ Invited(r) /\ \A d \in Conn : Shaped(conn[d]) /\ Invited(conn[d])
      BY <1>1, <1>t DEF NewRequest, ConnTyped
    <2>3. \A d \in Conn : Shaped(conn'[d])
      BY <2>1, <2>2
    <2>4. \A d \in Conn : Invited(conn[d])'
      BY <2>1, <2>2, <1>2 DEF Invited, rows
    <2> QED BY <2>1, <2>3, <2>4 DEF ConnTyped, Shaped
  <1>5. PageTyped' /\ GetsTyped' /\ CountTyped'
    BY <1>2, <1>t DEF PageTyped, Opened, GetsTyped, CountTyped, rows
  <1> QED BY <1>3, <1>4, <1>5 DEF TypeInv

\* The page that is opened: nothing is shown yet.
OpensOn(p) ==
    \E a \in PageType : /\ page' = [page EXCEPT ![p] = a] /\ a.shown = None
                        /\ a.at = "team" => a.team \in Team
                        /\ a.at = "join" => a.invite \in Invite /\ invite[a.invite].st # "unused"

\* Leaving a page takes nothing from what the requests are about.
LEMMA NavigatesTypes ==
    ASSUME TypeInv, NEW p \in Player, Navigates(p)
    PROVE  TypeInv'
  <1>t. RowsTyped /\ ConnTyped /\ PageTyped /\ GetsTyped /\ CountTyped
    BY DEF TypeInv
  <1>1. Opens(p) /\ UNCHANGED <<rows, spent, mishaps>>
    BY DEF Navigates, OpenTeam, OpenCreate, OpenJoin
  <1>3. RowsTyped'
    BY <1>1, <1>t DEF RowsTyped, TeamTyped, InviteTyped, OtherRowsTyped, InvitesShaped, Exists, rows
  <1>4. ConnTyped'
    <2>1. conn' \in [Conn -> RequestType] /\ \A c \in Conn :
                /\ conn'[c].st = conn[c].st /\ conn'[c].op = conn[c].op
                /\ conn'[c].by = conn[c].by /\ conn'[c].team = conn[c].team
                /\ conn'[c].invite = conn[c].invite /\ conn'[c].who = conn[c].who
      BY <1>1, <1>t, Leaving DEF ConnTyped
    <2> QED BY <2>1, <1>1, <1>t DEF ConnTyped, Shaped, Invited, rows
  <1>5. CountTyped'
    BY <1>1, <1>t DEF CountTyped, Opens
  <1>6. GetsTyped'
    <2>1. gets' = gets \/ \E t \in Team : gets' = Fetch(p, t)
      BY DEF Navigates, OpenTeam, OpenCreate, OpenJoin
    <2> QED BY <2>1, <1>t, FetchTyped DEF GetsTyped
  <1>7. PageTyped'
    <2>1. OpensOn(p)
      <3>1. ASSUME OpenCreate(p) PROVE OpensOn(p)
        <4> DEFINE a == [Away EXCEPT !.at = "create"]
        <4>3. page' = [page EXCEPT ![p] = a]
          BY <3>1 DEF OpenCreate
        <4>4. a \in PageType /\ a.shown = None /\ a.at = "create"
          BY DEF Away, PageType
        <4> HIDE DEF a
        <4> QED BY <4>3, <4>4 DEF OpensOn
      <3>2. ASSUME NEW t \in Team, OpenTeam(p, t) PROVE OpensOn(p)
        <4> DEFINE a == [Away EXCEPT !.at = "team", !.team = t]
        <4>3. page' = [page EXCEPT ![p] = a]
          BY <3>2 DEF OpenTeam
        <4>4. a \in PageType /\ a.shown = None /\ a.at = "team" /\ a.team = t
          BY DEF Away, PageType
        <4> HIDE DEF a
        <4> QED BY <4>3, <4>4 DEF OpensOn
      <3>3. ASSUME NEW i \in Invite, OpenJoin(p, i) PROVE OpensOn(p)
        <4> DEFINE a == [Away EXCEPT !.at = "join", !.invite = i]
        <4>1. invite[i].team # None => invite[i].st = "made"
          BY <1>t DEF RowsTyped, InviteTyped
        <4>2. invite[i].active /\ invite[i].team # None
          BY <3>3, <1>t DEF OpenJoin, RowsTyped, InviteTyped, InvitesShaped
        <4>3. page' = [page EXCEPT ![p] = a]
          BY <3>3 DEF OpenJoin
        <4>4. a \in PageType /\ a.shown = None /\ a.at = "join" /\ a.invite = i /\ invite[i].st # "unused"
          BY <4>1, <4>2 DEF Away, PageType
        <4> HIDE DEF a
        <4> QED BY <4>3, <4>4 DEF OpensOn
      <3> QED BY <3>1, <3>2, <3>3 DEF Navigates
    <2>2. PICK a \in PageType :
               /\ page' = [page EXCEPT ![p] = a] /\ a.shown = None
               /\ a.at = "team" => a.team \in Team
               /\ a.at = "join" => a.invite \in Invite /\ invite[a.invite].st # "unused"
      BY <2>1 DEF OpensOn
    <2>3. invite' = invite
      BY <1>1 DEF rows
    <2>4. page' \in [Player -> PageType] /\ page'[p] = a
          /\ \A u \in Player \ {p} : page'[u] = page[u]
      BY <2>2, <1>t DEF PageTyped
    <2>5. \A u \in Player : Opened(u)
      BY <1>t DEF PageTyped
    <2>6. \A u \in Player : Opened(u)'
      BY <2>2, <2>3, <2>4, <2>5 DEF Opened
    <2> QED BY <2>4, <2>6 DEF PageTyped
  <1> QED BY <1>3, <1>4, <1>5, <1>6, <1>7 DEF TypeInv

LEMMA GetsTypes ==
    ASSUME TypeInv, NEW p \in Player, NEW t \in Team, NEW g \in gets[p][t],
           ServeGet(p, t, g) \/ GetArrives(p, t, g)
    PROVE  TypeInv'
  <1>t. RowsTyped /\ ConnTyped /\ PageTyped /\ GetsTyped /\ CountTyped
    BY DEF TypeInv
  <1>1. UNCHANGED <<rows, conn, visits, spent>>
    BY DEF ServeGet, GetArrives
  <1>3. RowsTyped' /\ ConnTyped'
    BY <1>1, <1>t DEF RowsTyped, TeamTyped, InviteTyped, OtherRowsTyped, InvitesShaped, Exists, rows,
                      ConnTyped, Shaped, Invited
  <1>5. CountTyped'
    BY <1>1, <1>t, MishapTyped DEF CountTyped, ServeGet, GetArrives
  <1>g. g \in GetType
    BY <1>t DEF GetsTyped
  <1>6. CASE ServeGet(p, t, g)
    <2>1. PICK answer \in GetType : gets' = [gets EXCEPT ![p][t] = (@ \ {g}) \union {answer}]
      <3>1. CASE Exists(t)
        <4> DEFINE data == [rev |-> rev[t], team |-> team[t], entered |-> t \in entries]
        <4>1. data \in Snapshot
          BY <3>1, <1>t, SnapshotTyped
        <4>2. [st |-> "found", data |-> data] \in GetType
          <5> HIDE DEF data
          <5> QED BY <4>1 DEF GetType
        <4> QED BY <1>6, <3>1, <4>2 DEF ServeGet
      <3>2. CASE ~Exists(t)
        <4>1. [st |-> "missing", data |-> None] \in GetType
          BY DEF GetType
        <4> QED BY <1>6, <3>2, <4>1 DEF ServeGet
      <3> QED BY <3>1, <3>2
    <2>2. GetsTyped'
      BY <2>1, <1>t DEF GetsTyped
    <2>3. PageTyped'
      BY <1>6, <1>t DEF ServeGet, PageTyped, Opened, rows
    <2> QED BY <1>3, <1>5, <2>2, <2>3 DEF TypeInv
  <1>7. CASE GetArrives(p, t, g)
    <2>2. GetsTyped'
      BY <1>7, <1>t DEF GetsTyped, GetArrives
    <2>3. PageTyped'
      <3>1. invite' = invite /\ page[p] \in PageType
        BY <1>1, <1>t DEF rows, PageTyped
      <3>2. PICK x \in Snapshot \union {None}, f \in BOOLEAN :
               \/ page' = page
               \/ /\ page[p].at = "team"
                  /\ page' = [page EXCEPT ![p].shown = x] \/ page' = [page EXCEPT ![p].failed = f]
        BY <1>7, <1>g DEF GetArrives, GetType
      <3>3. CASE page' = [page EXCEPT ![p].shown = x] /\ page[p].at = "team"
        BY <3>1, <3>3, <1>t DEF PageTyped, Opened, PageType
      <3>4. CASE page' = [page EXCEPT ![p].failed = f]
        BY <3>1, <3>4, <1>t DEF PageTyped, Opened, PageType
      <3>5. CASE page' = page
        BY <3>1, <3>5, <1>t DEF PageTyped, Opened
      <3> QED BY <3>2, <3>3, <3>4, <3>5
    <2> QED BY <1>3, <1>5, <2>2, <2>3 DEF TypeInv
  <1> QED BY <1>6, <1>7

LEMMA ConnServed ==
    ASSUME ConnTyped, InvitesMove, NEW c \in Conn, NEW st \in Stage, Becomes(c, st),
           st = "checked" /\ conn[c].op = "join" => conn[c].team \in Team
    PROVE  ConnTyped'
  <1>1. /\ conn' \in [Conn -> RequestType]
        /\ conn'[c].st = st /\ conn'[c].op = conn[c].op /\ conn'[c].by = conn[c].by
        /\ conn'[c].team = conn[c].team /\ conn'[c].invite = conn[c].invite
        /\ conn'[c].who = conn[c].who
        /\ \A d \in Conn \ {c} : conn'[d] = conn[d]
    BY Becoming DEF ConnTyped
  <1>2. \A d \in Conn : Shaped(conn[d]) /\ Invited(conn[d])
    BY DEF ConnTyped
  <1>3. \A d \in Conn : Shaped(conn'[d])
    BY <1>1, <1>2 DEF Shaped
  <1>4. \A d \in Conn : Invited(conn[d])'
    BY <1>1, <1>2 DEF Invited, InvitesMove, Shaped
  <1> QED BY <1>1, <1>3, <1>4 DEF ConnTyped, Shaped

LEMMA PagesKept ==
    ASSUME PageTyped, InvitesMove, UNCHANGED page
    PROVE  PageTyped'
  BY DEF PageTyped, InvitesMove, Opened

LEMMA ConnKept ==
    ASSUME ConnTyped, InvitesMove, UNCHANGED conn
    PROVE  ConnTyped'
  <1>1. \A d \in Conn : Shaped(conn[d]) /\ Invited(conn[d])
    BY DEF ConnTyped
  <1>2. \A d \in Conn : Invited(conn[d])'
    BY <1>1 DEF Invited, InvitesMove, Shaped
  <1> QED BY <1>1, <1>2 DEF ConnTyped, Shaped

\* A team is replaced by another row that is as well formed and still there.
LEMMA TeamReplaced ==
    ASSUME TeamTyped, InviteTyped, NEW t \in Team, NEW row \in TeamRow,
           row.status \notin {"free", "gone"}, row.captain \in row.members,
           team' = [team EXCEPT ![t] = row], UNCHANGED invite
    PROVE  TeamTyped' /\ InviteTyped' /\ InvitesMove
  <1>1. team' \in [Team -> TeamRow] /\ team'[t] = row /\ \A u \in Team \ {t} : team'[u] = team[u]
    BY DEF TeamTyped
  <1>2. TeamTyped'
    BY <1>1 DEF TeamTyped, Exists
  <1>3. \A i \in Invite : invite[i].team \in Team \union {None}
    BY DEF InviteTyped, InviteRow
  <1>4. InviteTyped' /\ InvitesMove
    BY <1>1, <1>3 DEF InviteTyped, InvitesShaped, Exists, InvitesMove
  <1> QED BY <1>2, <1>4

\* With a team go its invites.
LEMMA DeletedTyped ==
    ASSUME TeamTyped, InviteTyped, NEW t \in Team, Deleted(t)
    PROVE  TeamTyped' /\ InviteTyped' /\ InvitesMove
  <1>1. Gone \in TeamRow /\ Gone.status = "gone" /\ Gone.members = {}
    BY DEF Gone, TeamRow
  <1>2. team' \in [Team -> TeamRow] /\ team'[t] = Gone /\ \A u \in Team \ {t} : team'[u] = team[u]
    BY <1>1 DEF Deleted, TeamTyped
  <1>3. TeamTyped'
    BY <1>1, <1>2 DEF TeamTyped, Exists
  <1>4. /\ GoneInvite \in InviteRow /\ GoneInvite.st = "gone" /\ GoneInvite.team = None
        /\ ~GoneInvite.active
    BY DEF GoneInvite, InviteRow
  <1>5. /\ invite' \in [Invite -> InviteRow]
        /\ \A i \in Invite : \/ invite[i].team = t /\ invite'[i] = GoneInvite
                             \/ invite[i].team # t /\ invite'[i] = invite[i]
    BY <1>4 DEF Deleted, InviteTyped
  <1>6. \A i \in Invite : invite[i].team \in Team \union {None}
    BY DEF InviteTyped, InviteRow
  <1>7. \A i \in Invite : invite'[i].team # None =>
                             invite'[i] = invite[i] /\ invite[i].team \in Team \ {t}
    BY <1>4, <1>5, <1>6
  <1>8. InvitesShaped' /\ InvitesMove
    BY <1>4, <1>5 DEF InviteTyped, InvitesShaped, InvitesMove
  <1>9. \A i \in Invite : invite'[i].team # None => invite'[i].st = "made" /\ Exists(invite[i].team)
    BY <1>7 DEF InviteTyped
  <1>10. \A i \in Invite : invite'[i].team # None =>
            team'[invite'[i].team].status \notin {"free", "gone"}
    BY <1>2, <1>7, <1>9 DEF Exists
  <1> QED BY <1>3, <1>5, <1>8, <1>9, <1>10 DEF InviteTyped, Exists

\* The changes organisers make at once.
LEMMA DirectTypes ==
    ASSUME TypeInv, NEW t \in Team,
           Review(t, "approved") \/ Review(t, "rejected") \/ AdminDelete(t) \/ HandleRemoveTeam(t) \/ Imports(t)
    PROVE  TypeInv'
  <1>t. /\ TeamTyped /\ InviteTyped /\ OtherRowsTyped
        /\ ConnTyped /\ PageTyped /\ GetsTyped /\ CountTyped
    BY DEF TypeInv, RowsTyped
  <1>1. Direct(t) /\ entries' \subseteq entries
    BY DEF Review, AdminDelete, HandleRemoveTeam, Imports, ImportParticipants, Deleted
  <1>i. imported' \in [Team -> SUBSET Player]
    BY <1>t DEF Review, AdminDelete, HandleRemoveTeam, Imports, ImportParticipants, Deleted, OtherRowsTyped
  <1>2. OtherRowsTyped'
    BY <1>1, <1>i, <1>t DEF Direct, Changed, OtherRowsTyped
  <1>3. GetsTyped' /\ CountTyped'
    BY <1>1, <1>t, StartAssumption DEF Direct, GetsTyped, CountTyped
  <1>4. TeamTyped' /\ InviteTyped' /\ InvitesMove
    <2>1. CASE AdminDelete(t)
      BY <2>1, <1>t, DeletedTyped DEF AdminDelete
    <2>2. ASSUME NEW verdict \in {"approved", "rejected"}, Review(t, verdict)
          PROVE  TeamTyped' /\ InviteTyped' /\ InvitesMove
      <3> DEFINE row == [team[t] EXCEPT !.status = verdict]
      <3>1. team[t] \in TeamRow /\ team[t].captain \in team[t].members
        BY <1>1, <1>t DEF Direct, TeamTyped
      <3>2. /\ row \in TeamRow /\ row.status \notin {"free", "gone"}
            /\ row.captain \in row.members
        BY <3>1 DEF TeamRow, Statuses
      <3>3. team' = [team EXCEPT ![t] = row] /\ UNCHANGED invite
        BY <2>2 DEF Review
      <3> HIDE DEF row
      <3> QED BY <3>2, <3>3, <1>t, TeamReplaced
    <2>3. CASE HandleRemoveTeam(t)
      BY <2>3, <1>t DEF HandleRemoveTeam, TeamTyped, InviteTyped, InvitesShaped, InvitesMove, Exists
    <2>4. ASSUME NEW u \in Player, ImportParticipants(t, u)
          PROVE  TeamTyped' /\ InviteTyped' /\ InvitesMove
      <3> DEFINE row == [team[t] EXCEPT !.members = @ \union {u}]
      <3>1. /\ team[t] \in TeamRow /\ team[t].captain \in team[t].members
            /\ team[t].status \notin {"free", "gone"}
        BY <1>1, <1>t DEF Direct, TeamTyped, Exists
      <3>2. /\ row \in TeamRow /\ row.status \notin {"free", "gone"}
            /\ row.captain \in row.members
        BY <3>1 DEF TeamRow
      <3>3. team' = [team EXCEPT ![t] = row] /\ UNCHANGED invite
        BY <2>4 DEF ImportParticipants
      <3> HIDE DEF row
      <3> QED BY <3>2, <3>3, <1>t, TeamReplaced
    <2> QED BY <2>1, <2>2, <2>3, <2>4 DEF Imports
  <1>5. ConnTyped' /\ PageTyped'
    BY <1>1, <1>4, <1>t, ConnKept, PagesKept DEF Direct
  <1> QED BY <1>2, <1>3, <1>4, <1>5 DEF TypeInv, RowsTyped

LEMMA StatusTypes ==
    ASSUME TypeInv, NEW status \in Phases, HandleStatusChange(status)
    PROVE  TypeInv'
  <1>1. OtherRowsTyped' /\ CountTyped' /\ GetsTyped'
    BY StartAssumption DEF HandleStatusChange, TypeInv, RowsTyped, OtherRowsTyped, CountTyped, GetsTyped
  <1>2. TeamTyped' /\ InviteTyped' /\ InvitesMove
    BY DEF HandleStatusChange, TypeInv, RowsTyped, TeamTyped, InviteTyped, InvitesShaped, InvitesMove, Exists
  <1>3. ConnTyped' /\ PageTyped'
    BY <1>2, ConnKept, PagesKept DEF HandleStatusChange, TypeInv
  <1> QED BY <1>1, <1>2, <1>3 DEF TypeInv, RowsTyped

LEMMA ExpireTypes ==
    ASSUME TypeInv, NEW i \in Invite, Expire(i)
    PROVE  TypeInv'
  <1>t. /\ TeamTyped /\ InviteTyped /\ OtherRowsTyped
        /\ ConnTyped /\ PageTyped /\ GetsTyped /\ CountTyped
    BY DEF TypeInv, RowsTyped
  <1>1. OtherRowsTyped' /\ TeamTyped' /\ CountTyped' /\ GetsTyped'
    BY <1>t, MishapTyped DEF Expire, client, OtherRowsTyped, TeamTyped, CountTyped, GetsTyped, Exists
  <1>2. InviteTyped' /\ InvitesMove
    <2>1. invite' \in [Invite -> InviteRow] /\ \A j \in Invite :
             /\ invite'[j].st = invite[j].st /\ invite'[j].team = invite[j].team
             /\ invite'[j].active => invite[j].active
      BY <1>t DEF Expire, InviteTyped, InviteRow
    <2> QED BY <2>1, <1>t DEF Expire, InviteTyped, InvitesShaped, InvitesMove, Exists
  <1>3. ConnTyped' /\ PageTyped'
    BY <1>t, <1>2, ConnKept, PagesKept DEF Expire, client
  <1> QED BY <1>1, <1>2, <1>3 DEF TypeInv, RowsTyped

LEMMA ServiceTypes ==
    ASSUME TypeInv, NEW c \in Conn,
           \/ Judges(c) \/ UseInvite(c) \/ InsertTeam(c) \/ InsertMember(c) \/ CountUse(c)
           \/ InsertEntry(c) \/ DeleteTeam(c) \/ ServeRemove(c) \/ ServeInvite(c) \/ ServeDeactivate(c)
    PROVE  TypeInv'
  <1> DEFINE r == conn[c]
  <1>t. /\ TeamTyped /\ InviteTyped /\ OtherRowsTyped
        /\ ConnTyped /\ PageTyped /\ GetsTyped /\ CountTyped
    BY DEF TypeInv, RowsTyped
  <1>r. r \in RequestType /\ Shaped(r) /\ Invited(r)
    BY <1>t DEF ConnTyped
  <1>s. \E st \in Stage : Becomes(c, st) /\ (st = "checked" /\ r.op = "join" => r.team \in Team)
    <2>1. ASSUME UseInvite(c), ~(r.team \in Team) PROVE Becomes(c, "error")
      <3>1. Usable(r.invite) => invite[r.invite].team # None /\ invite[r.invite].team = r.team
        BY <2>1, <1>r, <1>t DEF UseInvite, Sent, Usable, InviteTyped, InvitesShaped, Shaped, Invited
      <3>2. r.team \in Team \union {None}
        BY <1>r DEF RequestType
      <3> QED BY <2>1, <3>1, <3>2 DEF UseInvite
    <2>2. CASE UseInvite(c)
      BY <2>1, <2>2 DEF UseInvite, Stage
    <2>3. CASE Judges(c)
      BY <2>3 DEF Judges, CheckCreate, CheckAssign, CheckRegister, CheckEnter, CheckDelete, Check,
                  Sent, Stage
    <2>4. CASE InsertTeam(c) \/ InsertMember(c) \/ CountUse(c) \/ InsertEntry(c) \/ DeleteTeam(c)
      BY <2>4 DEF InsertTeam, InsertMember, CountUse, InsertEntry, DeleteTeam, Stage
    <2>5. CASE ServeRemove(c) \/ ServeInvite(c) \/ ServeDeactivate(c)
      BY <2>5 DEF ServeRemove, ServeInvite, ServeDeactivate, Stage
    <2> QED BY <2>2, <2>3, <2>4, <2>5
  <1>c. InvitesMove => ConnTyped'
    <2>1. PICK st \in Stage : Becomes(c, st) /\ (st = "checked" /\ r.op = "join" => r.team \in Team)
      BY SMTT(30), <1>s
    <2> QED BY <2>1, <1>t, ConnServed
  <1>p. UNCHANGED client
    BY DEF Judges, UseInvite, InsertTeam, InsertMember, CountUse, InsertEntry, DeleteTeam,
           ServeRemove, ServeInvite, ServeDeactivate
  <1>k. GetsTyped' /\ CountTyped'
    <2>1. mishaps' \in 0 .. MaxMishaps
      BY <1>t, MishapTyped DEF CountTyped, Judges, UseInvite, InsertTeam, InsertMember, CountUse,
           InsertEntry, DeleteTeam, ServeRemove, ServeInvite, ServeDeactivate
    <2> QED BY SMTT(30), <2>1, <1>p, <1>t DEF GetsTyped, CountTyped, client
  <1>e. SUFFICES TeamTyped' /\ InviteTyped' /\ OtherRowsTyped' /\ InvitesMove
    BY <1>c, <1>p, <1>k, <1>t, PagesKept DEF client, TypeInv, RowsTyped
  <1>u. ASSUME UNCHANGED <<team, invite>> PROVE TeamTyped' /\ InviteTyped' /\ InvitesMove
    BY <1>u, <1>t DEF TeamTyped, InviteTyped, InvitesShaped, InvitesMove, Exists
  <1>1. CASE Judges(c)
    <2>1. UNCHANGED rows
      BY <1>1 DEF Judges
    <2> QED BY <2>1, <1>u, <1>t DEF rows, OtherRowsTyped
  <1>2. CASE UseInvite(c)
    <2>1. r.invite \in Invite
      BY <1>2, <1>r DEF UseInvite, Sent, Shaped
    <2> QED BY <2>1, <1>2, <1>u, <1>t DEF UseInvite, OtherRowsTyped
  <1>3. CASE InsertTeam(c)
    <2>1. r.team \in Team /\ r.who \in Player
      BY <1>3, <1>r DEF InsertTeam, Checked, Shaped
    <2>2. OtherRowsTyped'
      BY <1>3, <2>1, <1>t DEF InsertTeam, Changed, OtherRowsTyped
    <2>3. CASE team[r.team].status = "free"
      <3> DEFINE row == [status |-> "pending", captain |-> r.who, members |-> {r.who}]
      <3>1. /\ row \in TeamRow /\ row.status \notin {"free", "gone"} /\ row.captain \in row.members
        BY <2>1 DEF TeamRow, Statuses
      <3>2. team' = [team EXCEPT ![r.team] = row] /\ UNCHANGED invite
        BY <1>3, <2>3 DEF InsertTeam
      <3> HIDE DEF row
      <3> QED BY <3>1, <3>2, <2>1, <2>2, <1>t, TeamReplaced
    <2>4. CASE team[r.team].status # "free"
      BY <2>4, <2>2, <1>3, <1>u DEF InsertTeam
    <2> QED BY <2>3, <2>4
  <1>4. CASE InsertMember(c)
    <2>1. r.team \in Team /\ r.who \in Player /\ Door(r) \in Invite \union Organiser
      BY <1>4, <1>r DEF InsertMember, Checked, Shaped, Door
    <2>2. OtherRowsTyped'
      <3>1. locks' \subseteq Invite /\ entries' = entries /\ phase' = phase
        BY <1>4, <1>t DEF InsertMember, OtherRowsTyped
      <3>2. rev' \in [Team -> Nat] /\ doors' \in [Team -> SUBSET (Invite \union Organiser)]
        BY <1>4, <2>1, <1>t DEF InsertMember, Changed, OtherRowsTyped
      <3>3. imported' \in [Team -> SUBSET Player]
        BY <1>4, <2>1, <1>t DEF InsertMember, OtherRowsTyped
      <3> QED BY <3>1, <3>2, <3>3, <1>t DEF OtherRowsTyped
    <2>3. CASE Exists(r.team) /\ r.who \notin team[r.team].members
      <3> DEFINE row == [team[r.team] EXCEPT !.members = @ \union {r.who}]
      <3>1. team[r.team] \in TeamRow /\ team[r.team].captain \in team[r.team].members
            /\ team[r.team].status \notin {"free", "gone"}
        BY <2>1, <2>3, <1>t DEF TeamTyped, Exists
      <3>2. /\ row \in TeamRow /\ row.status \notin {"free", "gone"} /\ row.captain \in row.members
        BY <2>1, <3>1 DEF TeamRow
      <3>3. team' = [team EXCEPT ![r.team] = row] /\ UNCHANGED invite
        BY <1>4, <2>3 DEF InsertMember
      <3> HIDE DEF row
      <3> QED BY <3>2, <3>3, <2>1, <2>2, <1>t, TeamReplaced
    <2>4. CASE ~(Exists(r.team) /\ r.who \notin team[r.team].members)
      BY <2>4, <2>2, <1>4, <1>u DEF InsertMember
    <2> QED BY <2>3, <2>4
  <1>5. CASE CountUse(c)
    <2>1. r.invite \in Invite
      BY <1>5, <1>r DEF CountUse, Shaped
    <2>2. UNCHANGED <<doors, imported, team, entries, phase, rev>> /\ locks' \subseteq Invite
      BY <1>5, <1>t DEF CountUse, OtherRowsTyped
    <2>3. OtherRowsTyped' /\ TeamTyped'
      BY <2>2, <1>t DEF OtherRowsTyped, TeamTyped, Exists
    <2>4. invite' \in [Invite -> InviteRow] /\ \A i \in Invite :
            invite'[i].st = invite[i].st /\ invite'[i].team = invite[i].team
            /\ invite'[i].active = invite[i].active
      <3>1. CASE invite' = [invite EXCEPT ![r.invite].used = @ + 1]
        BY <3>1, <2>1, <1>t DEF InviteTyped, InviteRow
      <3>2. CASE invite' = invite
        BY <3>2, <1>t DEF InviteTyped
      <3> QED BY <1>5, <3>1, <3>2 DEF CountUse
    <2>5. InviteTyped' /\ InvitesMove
      BY <2>2, <2>4, <1>t DEF InviteTyped, InvitesShaped, InvitesMove, Exists
    <2> QED BY <2>3, <2>5
  <1>6. CASE InsertEntry(c)
    <2>1. r.team \in Team
      BY <1>6, <1>r DEF InsertEntry, Checked, Shaped
    <2> QED BY <2>1, <1>6, <1>u, <1>t DEF InsertEntry, Changed, OtherRowsTyped
  <1>7. CASE DeleteTeam(c)
    <2>1. r.team \in Team /\ Deleted(r.team)
      BY <1>7, <1>r DEF DeleteTeam, Checked, Shaped
    <2>2. OtherRowsTyped'
      BY <1>7, <2>1, <1>t DEF DeleteTeam, Deleted, Changed, OtherRowsTyped
    <2> QED BY <2>1, <2>2, <1>t, DeletedTyped
  <1>8. CASE ServeRemove(c)
    <2>1. r.team \in Team /\ r.who \in Player
      BY <1>8, <1>r DEF ServeRemove, Sent, Shaped
    <2>2. OtherRowsTyped'
      BY <1>8, <2>1, <1>t DEF ServeRemove, Changed, OtherRowsTyped
    <2>3. CASE team' = team
      BY <2>3, <2>2, <1>8, <1>u DEF ServeRemove
    <2>4. CASE /\ Exists(r.team) /\ r.who # team[r.team].captain
               /\ team' = [team EXCEPT ![r.team].members = @ \ {r.who}]
      <3> DEFINE row == [team[r.team] EXCEPT !.members = @ \ {r.who}]
      <3>1. team[r.team] \in TeamRow /\ team[r.team].captain \in team[r.team].members
            /\ team[r.team].status \notin {"free", "gone"}
        BY <2>1, <2>4, <1>t DEF TeamTyped, Exists
      <3>2. /\ row \in TeamRow /\ row.status \notin {"free", "gone"} /\ row.captain \in row.members
        BY <2>1, <2>4, <3>1 DEF TeamRow
      <3>3. team' = [team EXCEPT ![r.team] = row] /\ UNCHANGED invite
        BY <1>8, <2>4 DEF ServeRemove
      <3> HIDE DEF row
      <3> QED BY <3>2, <3>3, <2>1, <2>2, <1>t, TeamReplaced
    <2> QED BY <2>3, <2>4, <1>8 DEF ServeRemove
  <1>9. CASE ServeInvite(c)
    <2>1. r.team \in Team /\ r.invite \in Invite
      BY <1>9, <1>r DEF ServeInvite, Sent, Shaped
    <2>2. OtherRowsTyped' /\ TeamTyped'
      BY SMTT(30), <1>9, <1>t DEF ServeInvite, OtherRowsTyped, TeamTyped, Exists
    <2>3. CASE invite' = invite
      BY <2>3, <2>2, <1>9, <1>u DEF ServeInvite
    <2>4. CASE /\ Exists(r.team) /\ invite[r.invite].st = "unused"
               /\ invite' = [invite EXCEPT ![r.invite] =
                               [st |-> "made", team |-> r.team, active |-> TRUE, used |-> 0]]
      <3> DEFINE row == [st |-> "made", team |-> r.team, active |-> TRUE, used |-> 0]
      <3>1. row \in InviteRow /\ row.st = "made" /\ row.team = r.team /\ row.team # None
        BY <2>1, PeopleAssumption DEF InviteRow
      <3>2. invite' = [invite EXCEPT ![r.invite] = row]
        BY <2>4
      <3> HIDE DEF row
      <3>3. invite' \in [Invite -> InviteRow] /\ invite'[r.invite] = row
            /\ \A i \in Invite \ {r.invite} : invite'[i] = invite[i]
        BY <2>1, <3>1, <3>2, <1>t DEF InviteTyped
      <3>4. team' = team
        BY <1>9 DEF ServeInvite
      <3> QED BY <3>1, <3>3, <3>4, <2>2, <2>4, <1>t DEF InviteTyped, InvitesShaped, InvitesMove, Exists
    <2> QED BY <2>3, <2>4, <1>9 DEF ServeInvite
  <1>10. CASE ServeDeactivate(c)
    <2>1. r.invite \in Invite
      BY <1>10, <1>r DEF ServeDeactivate, Sent, Shaped
    <2>2. OtherRowsTyped' /\ TeamTyped'
      BY <1>10, <1>t DEF ServeDeactivate, OtherRowsTyped, TeamTyped, Exists
    <2>3. invite' \in [Invite -> InviteRow] /\ \A j \in Invite :
             /\ invite'[j].st = invite[j].st /\ invite'[j].team = invite[j].team
             /\ invite'[j].active => invite[j].active
      BY <2>1, <1>10, <1>t DEF ServeDeactivate, InviteTyped, InviteRow
    <2>4. team' = team
      BY <1>10 DEF ServeDeactivate
    <2> QED BY <2>2, <2>3, <2>4, <1>t DEF InviteTyped, InvitesShaped, InvitesMove, Exists
  <1> QED BY <1>1, <1>2, <1>3, <1>4, <1>5, <1>6, <1>7, <1>8, <1>9, <1>10

LEMMA AnswerTypes ==
    ASSUME TypeInv, NEW c \in Conn, Answer(c)
    PROVE  TypeInv'
  <1> DEFINE r == conn[c]
  <1>t. RowsTyped /\ ConnTyped /\ PageTyped /\ GetsTyped /\ CountTyped
    BY DEF TypeInv
  <1>r. r \in RequestType /\ Shaped(r)
    BY <1>t DEF ConnTyped
  <1>1. RowsTyped' /\ UNCHANGED <<invite, visits, spent>>
    BY <1>t DEF Answer, rows, RowsTyped, TeamTyped, InviteTyped, InvitesShaped, OtherRowsTyped, Exists
  <1>2. CountTyped'
    BY <1>1, <1>t, MishapTyped DEF Answer, CountTyped
  <1>3. ConnTyped'
    <2>1. conn' \in [Conn -> RequestType] /\ conn'[c] = Idle
          /\ \A d \in Conn \ {c} : conn'[d] = conn[d]
      BY <1>t, IdleTyped DEF Answer, ConnTyped
    <2>2. \A d \in Conn : Shaped(conn[d]) /\ Invited(conn[d])
      BY <1>t DEF ConnTyped
    <2>3. \A d \in Conn : Shaped(conn'[d])
      BY <2>1, <2>2, IdleTyped
    <2>4. \A d \in Conn : Invited(conn[d])'
      BY <2>1, <2>2, <1>1, IdleTyped DEF Invited
    <2> QED BY <2>1, <2>3, <2>4 DEF ConnTyped, Shaped
  <1>4. GetsTyped'
    <2>1. gets' = gets \/ (r.op \in {"remove", "register"} /\ r.by \in Player /\ gets' = Fetch(r.by, r.team))
      BY DEF Answer
    <2>2. r.op \in {"remove", "register"} => r.team \in Team
      BY <1>r DEF Shaped
    <2> QED BY <2>1, <2>2, <1>t, FetchTyped DEF GetsTyped
  <1>5. PageTyped'
    <2>1. Away \in PageType /\ Away.at = "away" /\ Away.shown = None
      BY DEF Away, PageType
    <2>2. page' = page \/ (r.by \in Player /\ page' = [page EXCEPT ![r.by] = Away])
      BY DEF Answer
    <2>3. page' \in [Player -> PageType] /\ \A p \in Player : page'[p] \in {page[p], Away}
      BY <2>1, <2>2, <1>t DEF PageTyped
    <2>4. \A p \in Player : Opened(p)
      BY <1>t DEF PageTyped
    <2>5. \A p \in Player : Opened(p)'
      BY <2>1, <2>3, <2>4, <1>1 DEF Opened
    <2> QED BY <2>3, <2>5 DEF PageTyped
  <1> QED BY <1>1, <1>2, <1>3, <1>4, <1>5 DEF TypeInv

LEMMA InitTypes == Init => TypeInv
  <1> SUFFICES ASSUME Init PROVE TypeInv
    OBVIOUS
  <1>1. TeamTyped
    <2>1. PICK status \in {"pending", "approved"} :
            team = [t \in Team |->
                   IF Founder[t] = None THEN [status |-> "free", captain |-> None, members |-> {}]
                   ELSE [status |-> status, captain |-> Founder[t], members |-> {Founder[t]}]]
      BY StartAssumption DEF Init
    <2>2. \A t \in Team : Founder[t] \in Player \union {None}
      BY StartAssumption
    <2>3. \A t \in Team : team[t] \in TeamRow
      BY <2>1, <2>2 DEF TeamRow, Statuses
    <2> QED BY <2>1, <2>2, <2>3 DEF TeamTyped, Exists
  <1>2. InviteTyped
    <2>1. invite = [i \in Invite |->
                   IF Issued[i] = None
                   THEN [st |-> "unused", team |-> None, active |-> FALSE, used |-> 0]
                   ELSE [st |-> "made", team |-> Issued[i], active |-> TRUE, used |-> 0]]
      BY DEF Init
    <2>2. \A i \in Invite : Issued[i] \in Team \union {None}
      BY StartAssumption
    <2>4. \A t \in Team : Founder[t] # None => Exists(t)
      BY StartAssumption DEF Init, Exists
    <2>5. \A i \in Invite : Issued[i] # None => Issued[i] \in Team /\ Exists(Issued[i])
      BY <2>2, <2>4, StartAssumption
    <2>3. invite \in [Invite -> InviteRow]
      BY <2>1, <2>2 DEF InviteRow
    <2> QED BY <2>1, <2>3, <2>5, PeopleAssumption DEF InviteTyped, InvitesShaped
  <1>3. OtherRowsTyped /\ GetsTyped /\ CountTyped
    BY StartAssumption DEF Init, OtherRowsTyped, Phases, GetsTyped, CountTyped
  <1>4. ConnTyped
    BY IdleTyped DEF Init, ConnTyped, Invited
  <1>5. PageTyped
    <2>1. Away \in PageType /\ Away.at = "away" /\ Away.shown = None
      BY DEF Away, PageType
    <2> QED BY <2>1 DEF Init, PageTyped, Opened
  <1> QED BY <1>1, <1>2, <1>3, <1>4, <1>5 DEF TypeInv, RowsTyped

LEMMA StutterTypes ==
    ASSUME TypeInv, UNCHANGED vars
    PROVE  TypeInv'
  BY DEF vars, rows, client, TypeInv, RowsTyped, TeamTyped, InviteTyped, InvitesShaped, OtherRowsTyped,
         ConnTyped, Shaped, Invited, PageTyped, Opened, GetsTyped, CountTyped, Exists

LEMMA NextTypes == TypeInv /\ [Next]_vars => TypeInv'
  <1> SUFFICES ASSUME TypeInv, Next PROVE TypeInv'
    BY StutterTypes
  <1>1. Cases
    BY StepCases
  <1> QED BY <1>1, AsksTypes, NavigatesTypes, GetsTypes, DirectTypes, StatusTypes, ExpireTypes,
             ServiceTypes, AnswerTypes, Zenon DEF Cases, Uncounted

LEMMA AlwaysTyped == Spec => []TypeInv
  BY InitTypes, NextTypes, PTL DEF Spec

\* The rows, the requests and the pages are always of the declared types, and a
\* team that is there has its captain among its members.
THEOREM EnrolmentTypes == Spec => []TypeOK
  <1>1. TypeInv => TypeOK
    BY TypesFollow
  <1> QED BY <1>1, AlwaysTyped, PTL

-----------------------------------------------------------------------------
(***************************************************************************)
(* The uses of an invite                                                   *)
(***************************************************************************)

UnderWay(c) == conn[c].st \in {"checked", "inserted"}

\* The same requests are past their checks, about the same things.
Calm == \A c \in Conn :
            /\ UnderWay(c) => UnderWay(c)'
            /\ UnderWay(c)' => /\ conn'[c].st = conn[c].st /\ conn'[c].op = conn[c].op
                               /\ conn'[c].team = conn[c].team
                               /\ conn'[c].invite = conn[c].invite
                               /\ conn'[c].by = conn[c].by

\* Only the services bring a request past its checks.
LEMMA CalmSteps ==
    ASSUME TypeInv,
           \/ Asks
           \/ \E p \in Player : Navigates(p)
           \/ \E p \in Player, t \in Team : \E g \in gets[p][t] : ServeGet(p, t, g) \/ GetArrives(p, t, g)
           \/ \E t \in Team : \/ Review(t, "approved") \/ Review(t, "rejected")
                              \/ AdminDelete(t) \/ HandleRemoveTeam(t) \/ Imports(t)
           \/ \E status \in Phases : HandleStatusChange(status)
           \/ \E c \in Conn : Answer(c)
           \/ \E i \in Invite : Expire(i)
    PROVE  Calm /\ locks' = locks /\ doors' = doors
  <1>t. conn \in [Conn -> RequestType]
    BY DEF TypeInv, ConnTyped
  <1>1. CASE Asks
    <2>1. PICK r \in RequestType : NewRequest(r) /\ Ask(r)
      BY <1>1 DEF Asks
    <2>2. PICK c \in Conn : conn[c] = Idle /\ conn'[c] = r /\ \A d \in Conn \ {c} : conn'[d] = conn[d]
      BY <2>1, <1>t, Asked
    <2>3. r.st = "sent" /\ Idle.st = "idle"
      BY <2>1, IdleTyped DEF NewRequest
    <2> QED BY <2>1, <2>2, <2>3 DEF Calm, UnderWay, Ask, rows
  <1>2. ASSUME NEW p \in Player, Navigates(p) PROVE Calm /\ locks' = locks /\ doors' = doors
    <2>1. Opens(p) /\ UNCHANGED rows
      BY <1>2 DEF Navigates, OpenTeam, OpenCreate, OpenJoin
    <2> QED BY SMTT(30), <2>1, <1>t, Leaving DEF Calm, UnderWay, rows
  <1>3. ASSUME UNCHANGED <<conn, locks, doors>> PROVE Calm /\ locks' = locks /\ doors' = doors
    BY <1>3 DEF Calm, UnderWay
  <1>4. CASE \E p \in Player, t \in Team : \E g \in gets[p][t] : ServeGet(p, t, g) \/ GetArrives(p, t, g)
    BY <1>3, <1>4 DEF ServeGet, GetArrives, rows
  <1>5. CASE \E t \in Team : \/ Review(t, "approved") \/ Review(t, "rejected")
                             \/ AdminDelete(t) \/ HandleRemoveTeam(t) \/ Imports(t)
    BY <1>3, <1>5 DEF Review, AdminDelete, HandleRemoveTeam, Imports, ImportParticipants, Direct
  <1>6. CASE \E status \in Phases : HandleStatusChange(status)
    BY <1>3, <1>6 DEF HandleStatusChange
  <1>7. CASE \E c \in Conn : Answer(c)
    <2>1. PICK c \in Conn : Answer(c)
      BY <1>7
    <2>2. conn'[c] = Idle /\ \A d \in Conn \ {c} : conn'[d] = conn[d]
      BY <2>1, <1>t DEF Answer
    <2> QED BY <2>1, <2>2, IdleTyped DEF Calm, UnderWay, Answer, rows
  <1>8. CASE \E i \in Invite : Expire(i)
    BY <1>3, <1>8 DEF Expire
  <1> QED BY <1>1, <1>2, <1>4, <1>5, <1>6, <1>7, <1>8

Using(c) == conn[c].op = "join" /\ UnderWay(c)

\* Whoever is between the checks and the end of a use holds the lock of the invite.
OneUse ==
    /\ \A c \in Conn : Using(c) => conn[c].invite \in locks
    /\ \A c, d \in Conn : Using(c) /\ Using(d) /\ conn[c].invite = conn[d].invite => c = d

\* There is a use left for whoever holds it.
UseLeft ==
    MaxUses > 0 => \A i \in Invite : /\ invite[i].used <= MaxUses
                                     /\ \A c \in Conn : Using(c) /\ conn[c].invite = i
                                                          => invite[i].used < MaxUses

LEMMA UsesCalm ==
    ASSUME OneUse, UseLeft, TypeInv,
           \A c \in Conn : Using(c)' => Using(c) /\ conn'[c].invite = conn[c].invite,
           locks' = locks, \A i \in Invite : invite'[i].used \in {0, invite[i].used}
    PROVE  OneUse' /\ UseLeft'
  <1>1. OneUse'
    BY DEF OneUse
  <1>2. UseLeft'
    BY StartAssumption DEF UseLeft, TypeInv, RowsTyped, InviteTyped, InviteRow
  <1> QED BY <1>1, <1>2

\* What an invite counts is changed by counting, and cleared with its row.
LEMMA UsedKept ==
    ASSUME TypeInv, Uncounted
    PROVE  \A i \in Invite : invite'[i].used \in {0, invite[i].used}
  <1>i. invite \in [Invite -> InviteRow]
    BY DEF TypeInv, RowsTyped, InviteTyped
  <1>u. ASSUME UNCHANGED invite PROVE \A i \in Invite : invite'[i].used \in {0, invite[i].used}
    BY SMTT(30), <1>u
  <1>1. CASE Asks \/ (\E p \in Player : Navigates(p)) \/ (\E c \in Conn : Answer(c))
             \/ \E p \in Player, t \in Team : \E g \in gets[p][t] : ServeGet(p, t, g) \/ GetArrives(p, t, g)
    BY <1>1, <1>u DEF Asks, Ask, Navigates, OpenTeam, OpenJoin, OpenCreate, Answer, ServeGet, GetArrives,
                      rows
  <1>2. ASSUME NEW t \in Team, Deleted(t) PROVE \A i \in Invite : invite'[i].used \in {0, invite[i].used}
    BY <1>2 DEF Deleted, GoneInvite
  <1>3. CASE \E t \in Team : \/ Review(t, "approved") \/ Review(t, "rejected")
                             \/ AdminDelete(t) \/ HandleRemoveTeam(t) \/ Imports(t)
    BY <1>2, <1>3, <1>u DEF Review, AdminDelete, HandleRemoveTeam, Imports, ImportParticipants
  <1>4. CASE \E status \in Phases : HandleStatusChange(status)
    BY <1>4, <1>u DEF HandleStatusChange
  <1>5. CASE \E i \in Invite : Expire(i)
    BY <1>5, <1>i DEF Expire, InviteRow
  <1>6. ASSUME NEW c \in Conn, Judges(c) \/ UseInvite(c) \/ InsertTeam(c) \/ InsertMember(c) \/ InsertEntry(c)
                               \/ ServeRemove(c)
        PROVE \A i \in Invite : invite'[i].used \in {0, invite[i].used}
    BY <1>6, <1>u DEF Judges, UseInvite, InsertTeam, InsertMember, InsertEntry, ServeRemove, rows
  <1>7. ASSUME NEW c \in Conn, DeleteTeam(c)
        PROVE \A i \in Invite : invite'[i].used \in {0, invite[i].used}
    <2>1. conn[c].team \in Team
      BY <1>7 DEF DeleteTeam, Checked, TypeInv, ConnTyped, Shaped
    <2> QED BY <2>1, <1>2, <1>7 DEF DeleteTeam
  <1>8. ASSUME NEW c \in Conn, ServeInvite(c) \/ ServeDeactivate(c)
        PROVE \A i \in Invite : invite'[i].used \in {0, invite[i].used}
    BY <1>8, <1>i DEF ServeInvite, ServeDeactivate, InviteRow
  <1> QED BY <1>1, <1>3, <1>4, <1>5, <1>6, <1>7, <1>8 DEF Uncounted

LEMMA UsesStep ==
    ASSUME TypeInv, OneUse, UseLeft, Next
    PROVE  OneUse' /\ UseLeft'
  <1>c. Cases
    BY StepCases
  <1>t. conn \in [Conn -> RequestType] /\ \A c \in Conn : Shaped(conn[c])
    BY DEF TypeInv, ConnTyped
  <1>i. invite \in [Invite -> InviteRow]
    BY DEF TypeInv, RowsTyped, InviteTyped
  <1>1. ASSUME Calm, locks' = locks, Uncounted
        PROVE  OneUse' /\ UseLeft'
    <2>1. \A c \in Conn : Using(c)' => Using(c) /\ conn'[c].invite = conn[c].invite
      BY <1>1 DEF Calm, Using, UnderWay
    <2> QED BY <2>1, <1>1, UsedKept, UsesCalm
  <1>2. ASSUME NEW c \in Conn, NEW st \in Stage, Becomes(c, st), conn[c].op # "join",
               locks' = locks, Uncounted
        PROVE  OneUse' /\ UseLeft'
    <2>1. \A d \in Conn : Using(d)' => Using(d) /\ conn'[d].invite = conn[d].invite
      BY ZenonT(60), <1>2, <1>t, Becoming DEF Using, UnderWay
    <2> QED BY <2>1, <1>2, UsedKept, UsesCalm
  <1>3. ASSUME NEW c \in Conn, UseInvite(c) PROVE OneUse' /\ UseLeft'
    <2>1. conn[c].invite \in Invite /\ conn[c].op = "join"
      BY <1>3, <1>t DEF UseInvite, Sent, Shaped
    <2>2. invite' = invite
      BY <1>3 DEF UseInvite
    <2>3. CASE Becomes(c, "error") /\ locks' = locks
      <3>1. \A d \in Conn : Using(d)' => Using(d) /\ conn'[d].invite = conn[d].invite
        BY <2>3, <1>t, Becoming DEF Using, UnderWay, Stage
      <3> QED BY <3>1, <2>2, <2>3, UsesCalm
    <2>4. CASE /\ Becomes(c, "checked") /\ locks' = locks \union {conn[c].invite}
               /\ conn[c].invite \notin locks /\ Usable(conn[c].invite)
      <3>1. /\ conn'[c].invite = conn[c].invite
            /\ \A d \in Conn \ {c} : conn'[d] = conn[d]
        BY <2>4, <1>t, Becoming DEF Stage
      <3>2. OneUse'
        BY <3>1, <2>4 DEF OneUse, Using, UnderWay
      <3>3. MaxUses > 0 => invite[conn[c].invite].used < MaxUses
        BY <2>4 DEF Usable
      <3>4. UseLeft'
        BY <3>1, <3>3, <2>2 DEF UseLeft, Using, UnderWay
      <3> QED BY <3>2, <3>4
    <2> QED BY <1>3, <2>3, <2>4 DEF UseInvite
  <1>4. ASSUME NEW c \in Conn, InsertMember(c), conn[c].op = "join" PROVE OneUse' /\ UseLeft'
    <2>1. Using(c) /\ invite' = invite
      BY <1>4 DEF InsertMember, Checked, Using, UnderWay
    <2>2. \/ Becomes(c, "inserted") /\ locks' = locks
          \/ Becomes(c, "error") /\ locks' = locks \ {conn[c].invite}
      BY <1>4 DEF InsertMember
    <2>3. CASE Becomes(c, "inserted") /\ locks' = locks
      <3>1. \A d \in Conn : Using(d)' => Using(d) /\ conn'[d].invite = conn[d].invite
        BY <2>1, <2>3, <1>t, Becoming DEF Using, UnderWay, Stage
      <3> QED BY <3>1, <2>1, <2>3, UsesCalm
    <2>4. CASE Becomes(c, "error") /\ locks' = locks \ {conn[c].invite}
      <3>1. /\ conn'[c].st = "error"
            /\ \A d \in Conn \ {c} : conn'[d] = conn[d]
        BY <2>4, <1>t, Becoming DEF Stage
      <3>2. \A d \in Conn : Using(d)' => Using(d) /\ d # c /\ conn'[d].invite = conn[d].invite
        BY <3>1 DEF Using, UnderWay
      <3> QED BY <3>2, <2>1, <2>4 DEF OneUse, UseLeft
    <2> QED BY <2>2, <2>3, <2>4
  <1>5. ASSUME NEW c \in Conn, CountUse(c) PROVE OneUse' /\ UseLeft'
    <2> DEFINE i == conn[c].invite
    <2>1. i \in Invite /\ Using(c)
      BY <1>5, <1>t DEF CountUse, Shaped, Using, UnderWay
    <2>2. PICK st \in {"ok", "error"} : Becomes(c, st)
      BY <1>5 DEF CountUse
    <2>3. conn'[c].st = st /\ \A d \in Conn \ {c} : conn'[d] = conn[d]
      BY <2>2, <1>t, Becoming DEF Stage
    <2>4. \A d \in Conn : Using(d)' => Using(d) /\ d # c /\ conn'[d].invite = conn[d].invite
      BY <2>2, <2>3 DEF Using, UnderWay
    <2>5. \A d \in Conn : Using(d)' => conn'[d].invite # i
      BY <2>1, <2>4 DEF OneUse
    <2>6. locks' = locks \ {i}
      BY <1>5 DEF CountUse
    <2>7. OneUse'
      BY <2>4, <2>5, <2>6 DEF OneUse
    <2>8. invite' = invite \/ invite' = [invite EXCEPT ![i].used = @ + 1]
      BY <1>5 DEF CountUse
    <2>9. UseLeft'
      <3> SUFFICES ASSUME MaxUses > 0 PROVE UseLeft'
        BY DEF UseLeft
      <3>1. /\ MaxUses \in Nat /\ invite[i].used \in Nat /\ invite[i].used < MaxUses
            /\ \A j \in Invite : invite[j].used <= MaxUses
        BY <2>1, <1>i, StartAssumption DEF UseLeft, InviteRow
      <3>2. invite'[i].used <= MaxUses /\ \A j \in Invite \ {i} : invite'[j].used = invite[j].used
        BY <2>1, <2>8, <3>1, <1>i DEF InviteRow
      <3>3. \A j \in Invite : invite'[j].used <= MaxUses
        BY <3>1, <3>2
      <3>4. \A j \in Invite, d \in Conn : Using(d)' /\ conn'[d].invite = j => invite'[j].used < MaxUses
        BY <2>4, <2>5, <3>2 DEF UseLeft
      <3> QED BY <3>3, <3>4 DEF UseLeft
    <2> QED BY <2>7, <2>9
  <1>6. ASSUME NEW c \in Conn, Uncounted,
               \/ Judges(c) \/ InsertTeam(c) \/ InsertEntry(c) \/ DeleteTeam(c)
               \/ ServeRemove(c) \/ ServeInvite(c) \/ ServeDeactivate(c)
               \/ InsertMember(c) /\ conn[c].op # "join"
        PROVE  OneUse' /\ UseLeft'
    <2>1. conn[c].op # "join" /\ locks' = locks
      BY <1>6 DEF Judges, CheckCreate, CheckAssign, CheckRegister, CheckEnter, CheckDelete, Sent, Checked,
                  InsertTeam, InsertEntry, DeleteTeam, ServeRemove, ServeInvite, ServeDeactivate,
                  InsertMember, rows
    <2>2. \E st \in Stage : Becomes(c, st)
      BY <1>6 DEF Judges, CheckCreate, CheckAssign, CheckRegister, CheckEnter, CheckDelete, Check,
                  InsertTeam, InsertEntry, DeleteTeam, ServeRemove, ServeInvite, ServeDeactivate,
                  InsertMember, Stage
    <2> QED BY SMTT(30), <2>1, <2>2, <1>2, <1>6
  <1>7. CASE \E c \in Conn : CountUse(c)
    BY <1>5, <1>7
  <1>8. ASSUME Uncounted PROVE OneUse' /\ UseLeft'
    <2>1. CASE \E c \in Conn : UseInvite(c)
      BY <1>3, <2>1
    <2>2. ASSUME NEW c \in Conn, InsertMember(c) PROVE OneUse' /\ UseLeft'
      BY <1>4, <1>6, <1>8, <2>2
    <2>3. ASSUME NEW c \in Conn,
                 \/ Judges(c) \/ InsertTeam(c) \/ InsertEntry(c) \/ DeleteTeam(c)
                 \/ ServeRemove(c) \/ ServeInvite(c) \/ ServeDeactivate(c)
          PROVE  OneUse' /\ UseLeft'
      BY <1>6, <1>8, <2>3
    <2>4. ASSUME Calm, locks' = locks PROVE OneUse' /\ UseLeft'
      BY <1>1, <1>8, <2>4
    <2> QED BY <1>8, <2>1, <2>2, <2>3, <2>4, CalmSteps, Zenon DEF Uncounted
  <1> QED BY <1>c, <1>7, <1>8 DEF Cases

LEMMA InitCalm == Init => \A c \in Conn : ~UnderWay(c)
  BY IdleTyped DEF Init, UnderWay

\* Joins with one invite follow one another, and each has a use left to take.
LEMMA UsesApart == Spec => [](OneUse /\ UseLeft)
  <1> DEFINE Inv == OneUse /\ UseLeft
  <1>1. Init => Inv
    <2>1. Init => \A i \in Invite : invite[i].used = 0
      BY DEF Init
    <2> QED BY <2>1, InitCalm, StartAssumption DEF OneUse, UseLeft, Using
  <1>2. TypeInv /\ Inv /\ [Next]_vars => Inv'
    <2>1. TypeInv /\ Inv /\ UNCHANGED vars => Inv'
      BY DEF vars, rows, OneUse, UseLeft, Using, UnderWay
    <2> QED BY <2>1, UsesStep
  <1> QED BY <1>1, <1>2, AlwaysTyped, PTL DEF Spec

\* An invite is never counted past its limit, however many players follow the link
\* at once.
THEOREM InvitesWithinBudget == Spec => []InviteBudget
  <1>1. OneUse /\ UseLeft => InviteBudget
    BY DEF UseLeft, InviteBudget
  <1> QED BY <1>1, UsesApart, PTL

-----------------------------------------------------------------------------
(***************************************************************************)
(* Entries                                                                 *)
(***************************************************************************)

Entering(c) == conn[c].op \in {"register", "enter"} /\ conn[c].st = "checked"

\* What is entered, or about to be, was reviewed; a team never waits for a review again.
Reviewed ==
    /\ EntriesReviewed
    /\ \A c \in Conn : Entering(c) => team[conn[c].team].status \notin {"free", "pending"}

\* The status of a team never goes back to pending.
StatusMoves ==
    \A t \in Team : team[t].status \notin {"free", "pending"}
                       => team'[t].status \notin {"free", "pending"}

LEMMA ReviewedKept ==
    ASSUME TypeInv, Reviewed, entries' \subseteq entries, StatusMoves,
           \A t \in entries' : team'[t].status # "gone",
           \A c \in Conn : Entering(c)' => Entering(c) /\ conn'[c].team = conn[c].team,
           team' \in [Team -> TeamRow]
    PROVE  Reviewed'
  <1>1. \A c \in Conn : Entering(c) => conn[c].team \in Team
    BY DEF Entering, TypeInv, ConnTyped, Shaped
  <1>2. \A t \in entries : t \in Team
    BY DEF TypeInv, RowsTyped, OtherRowsTyped
  <1>3. \A t \in entries' : team'[t].status \in {"approved", "rejected"}
    BY <1>2 DEF Reviewed, EntriesReviewed, StatusMoves, TeamRow, Statuses
  <1>4. \A c \in Conn : Entering(c)' => team'[conn'[c].team].status \notin {"free", "pending"}
    BY <1>1 DEF Reviewed, StatusMoves
  <1> QED BY <1>3, <1>4 DEF Reviewed, EntriesReviewed

LEMMA ReviewedStep ==
    ASSUME TypeInv, TypeInv', Reviewed, Next
    PROVE  Reviewed'
  <1>c. Cases
    BY StepCases
  <1>t. /\ conn \in [Conn -> RequestType] /\ \A c \in Conn : Shaped(conn[c])
        /\ team \in [Team -> TeamRow] /\ team' \in [Team -> TeamRow] /\ entries \subseteq Team
    BY DEF TypeInv, ConnTyped, RowsTyped, TeamTyped, OtherRowsTyped
  <1>g. \A t \in entries : team[t].status \in {"approved", "rejected"}
    BY DEF Reviewed, EntriesReviewed
  <1>d. ASSUME NEW t \in Team, Deleted(t)
        PROVE  /\ StatusMoves /\ entries' \subseteq entries
               /\ \A u \in entries' : team'[u].status # "gone"
    BY <1>d, <1>t, <1>g DEF Deleted, Gone, StatusMoves
  <1>1. ASSUME Calm, StatusMoves, entries' \subseteq entries,
               \A t \in entries' : team'[t].status # "gone"
        PROVE  Reviewed'
    <2>1. \A c \in Conn : Entering(c)' => Entering(c) /\ conn'[c].team = conn[c].team
      BY <1>1 DEF Calm, Entering, UnderWay
    <2> QED BY <2>1, <1>1, <1>t, ReviewedKept
  <1>2. ASSUME NEW c \in Conn, NEW st \in Stage, Becomes(c, st), StatusMoves,
               st = "checked" => conn[c].op \notin {"register", "enter"},
               entries' \subseteq entries, \A t \in entries' : team'[t].status # "gone"
        PROVE  Reviewed'
    <2>1. /\ conn'[c].st = st /\ conn'[c].op = conn[c].op
          /\ \A d \in Conn \ {c} : conn'[d] = conn[d]
      BY <1>2, <1>t, Becoming
    <2>2. \A d \in Conn : Entering(d)' => Entering(d) /\ conn'[d].team = conn[d].team
      BY <1>2, <2>1 DEF Entering
    <2> QED BY <2>2, <1>2, <1>t, ReviewedKept
  <1>s. ASSUME UNCHANGED <<team, entries>>
        PROVE  /\ StatusMoves /\ entries' \subseteq entries
               /\ \A t \in entries' : team'[t].status # "gone"
    BY <1>s, <1>g DEF StatusMoves
  <1>3. CASE Asks \/ (\E p \in Player : Navigates(p)) \/ (\E c \in Conn : Answer(c))
             \/ (\E p \in Player, t \in Team : \E g \in gets[p][t] : ServeGet(p, t, g) \/ GetArrives(p, t, g))
             \/ (\E status \in Phases : HandleStatusChange(status)) \/ \E i \in Invite : Expire(i)
    <2>1. UNCHANGED <<team, entries>>
      BY <1>3 DEF Asks, Ask, Navigates, OpenTeam, OpenJoin, OpenCreate, Answer, ServeGet, GetArrives,
                  HandleStatusChange, Expire, rows
    <2>2. Calm
      BY <1>3, CalmSteps
    <2> QED BY <2>1, <2>2, <1>1, <1>s
  <1>4. ASSUME NEW t \in Team, \/ Review(t, "approved") \/ Review(t, "rejected")
                               \/ AdminDelete(t) \/ HandleRemoveTeam(t) \/ Imports(t)
        PROVE  Reviewed'
    <2>1. Calm
      BY <1>4, CalmSteps
    <2>2. CASE AdminDelete(t)
      BY <2>1, <2>2, <1>1, <1>d DEF AdminDelete
    <2>3. ASSUME NEW verdict \in {"approved", "rejected"}, Review(t, verdict) PROVE Reviewed'
      <3>1. team' = [team EXCEPT ![t].status = verdict] /\ entries' = entries
        BY <2>3 DEF Review
      <3>2. StatusMoves /\ \A u \in entries' : team'[u].status # "gone"
        BY <3>1, <1>t, <1>g DEF StatusMoves, TeamRow
      <3> QED BY <3>1, <3>2, <2>1, <1>1
    <2>4. CASE HandleRemoveTeam(t)
      <3>1. entries' \subseteq entries /\ team' = team
        BY <2>4 DEF HandleRemoveTeam
      <3> QED BY <3>1, <2>1, <1>1, <1>g DEF StatusMoves
    <2>5. ASSUME NEW u \in Player, ImportParticipants(t, u) PROVE Reviewed'
      <3>1. team' = [team EXCEPT ![t].members = @ \union {u}] /\ entries' = entries
        BY <2>5 DEF ImportParticipants
      <3>2. StatusMoves /\ \A x \in entries' : team'[x].status # "gone"
        BY <3>1, <1>t, <1>g DEF StatusMoves, TeamRow
      <3> QED BY <3>1, <3>2, <2>1, <1>1
    <2> QED BY <1>4, <2>2, <2>3, <2>4, <2>5 DEF Imports
  <1>5. ASSUME NEW c \in Conn, Judges(c) PROVE Reviewed'
    <2>1. UNCHANGED <<team, entries>>
      BY <1>5 DEF Judges, rows
    <2>2. CASE conn[c].op \in {"register", "enter"}
      <3>1. PICK st \in {"checked", "error"} :
               Becomes(c, st) /\ (st = "checked" => team[conn[c].team].status = "approved")
        BY <1>5, <2>2 DEF Judges, CheckCreate, CheckAssign, CheckRegister, CheckEnter, CheckDelete, Check, Sent
      <3>2. /\ conn'[c].st = st /\ conn'[c].team = conn[c].team
            /\ \A d \in Conn \ {c} : conn'[d] = conn[d]
        BY <3>1, <1>t, Becoming DEF Stage
      <3> QED BY <3>1, <3>2, <2>1 DEF Reviewed, EntriesReviewed, Entering
    <2>3. CASE conn[c].op \notin {"register", "enter"}
      <3>1. PICK st \in Stage : Becomes(c, st)
        BY <1>5 DEF Judges, CheckCreate, CheckAssign, CheckRegister, CheckEnter, CheckDelete, Check, Stage
      <3> QED BY <3>1, <2>1, <2>3, <1>2, <1>s
    <2> QED BY <2>2, <2>3
  <1>6. ASSUME NEW c \in Conn, UseInvite(c) \/ CountUse(c) \/ ServeInvite(c) \/ ServeDeactivate(c)
        PROVE  Reviewed'
    <2>1. UNCHANGED <<team, entries>> /\ conn[c].op \notin {"register", "enter"}
      BY <1>6 DEF UseInvite, CountUse, ServeInvite, ServeDeactivate, Sent
    <2>2. PICK st \in Stage : Becomes(c, st)
      BY <1>6 DEF UseInvite, CountUse, ServeInvite, ServeDeactivate, Stage
    <2> QED BY <2>1, <2>2, <1>2, <1>s
  <1>7. ASSUME NEW c \in Conn, InsertTeam(c) \/ InsertMember(c) \/ ServeRemove(c)
        PROVE  Reviewed'
    <2>1. entries' = entries /\ conn[c].op \notin {"register", "enter"}
      BY <1>7 DEF InsertTeam, InsertMember, ServeRemove, Sent, Checked
    <2>2. PICK st \in Stage : Becomes(c, st)
      BY <1>7 DEF InsertTeam, InsertMember, ServeRemove, Stage
    <2>3. conn[c].team \in Team
      BY <1>7, <1>t DEF InsertTeam, InsertMember, ServeRemove, Sent, Checked, Shaped
    <2>4. /\ \A u \in Team \ {conn[c].team} : team'[u] = team[u]
          /\ \/ team'[conn[c].team].status = team[conn[c].team].status
             \/ team[conn[c].team].status = "free" /\ team'[conn[c].team].status = "pending"
      <3>1. CASE InsertTeam(c)
        BY <3>1, <2>3, <1>t DEF InsertTeam
      <3>2. CASE InsertMember(c)
        BY <3>2, <2>3, <1>t DEF InsertMember, TeamRow
      <3>3. CASE ServeRemove(c)
        BY <3>3, <2>3, <1>t DEF ServeRemove, TeamRow
      <3> QED BY <1>7, <3>1, <3>2, <3>3
    <2>5. StatusMoves /\ \A t \in entries' : team'[t].status # "gone"
      BY <2>1, <2>4, <1>t, <1>g DEF StatusMoves
    <2> QED BY <2>1, <2>2, <2>5, <1>2
  <1>8. ASSUME NEW c \in Conn, InsertEntry(c) PROVE Reviewed'
    <2> DEFINE t == conn[c].team
    <2>1. Entering(c) /\ t \in Team /\ team' = team
      BY <1>8, <1>t DEF InsertEntry, Checked, Entering, Shaped
    <2>2. PICK st \in {"ok", "error"} : Becomes(c, st)
      BY <1>8 DEF InsertEntry
    <2>3. conn'[c].st = st /\ \A d \in Conn \ {c} : conn'[d] = conn[d]
      BY <2>2, <1>t, Becoming DEF Stage
    <2>4. entries' = entries \/ (entries' = entries \union {t} /\ Exists(t))
      BY <1>8 DEF InsertEntry
    <2>5. Exists(t) => team[t].status \in {"approved", "rejected"}
      BY <2>1, <1>t DEF Reviewed, Exists, TeamRow, Statuses
    <2>6. EntriesReviewed'
      BY <2>1, <2>4, <2>5, <1>g DEF EntriesReviewed
    <2> QED BY <2>1, <2>2, <2>3, <2>6 DEF Reviewed, Entering
  <1>9. ASSUME NEW c \in Conn, DeleteTeam(c) PROVE Reviewed'
    <2>1. conn[c].team \in Team /\ Deleted(conn[c].team) /\ Becomes(c, "ok") /\ "ok" \in Stage
      BY <1>9, <1>t DEF DeleteTeam, Checked, Shaped, Stage
    <2> QED BY <2>1, <1>d, <1>2
  <1> QED BY <1>c, <1>3, <1>4, <1>5, <1>6, <1>7, <1>8, <1>9, Zenon DEF Cases, Uncounted

\* Every entry is of a reviewed team that is there, whatever is deleted, withdrawn or
\* rejected between the checks of a registration and its insert.
THEOREM EntriesAreReviewed == Spec => []EntriesReviewed
  <1>1. Init => Reviewed
    BY InitCalm DEF Init, Reviewed, EntriesReviewed, Entering, UnderWay
  <1>2. TypeInv /\ TypeInv' /\ Reviewed /\ [Next]_vars => Reviewed'
    <2>1. Reviewed /\ UNCHANGED vars => Reviewed'
      BY DEF vars, rows, Reviewed, EntriesReviewed, Entering
    <2> QED BY <2>1, ReviewedStep
  <1>3. Reviewed => EntriesReviewed
    BY DEF Reviewed
  <1> QED BY <1>1, <1>2, <1>3, AlwaysTyped, PTL DEF Spec

-----------------------------------------------------------------------------
(***************************************************************************)
(* What the pages show                                                     *)
(***************************************************************************)

\* One load of a team is under way in a tab, and nothing is shown or on its way that
\* is newer than the team; what is on its way is not older than what is shown.
OneLoad == \A p \in Player, t \in Team : \A g, h \in gets[p][t] : g = h

LoadsPast ==
    \A p \in Player, t \in Team : \A g \in gets[p][t] :
        g.st = "found" /\ g.data # None => g.data.rev <= rev[t]

ShownPast == \A p \in Player : page[p].shown # None => page[p].shown.rev <= rev[page[p].team]

LoadsNewer ==
    \A p \in Player, t \in Team : \A g \in gets[p][t] :
        g.st = "found" /\ g.data # None /\ page[p].team = t /\ page[p].shown # None
          => g.data.rev >= page[p].shown.rev

ViewInv == OneLoad /\ LoadsPast /\ ShownPast /\ LoadsNewer

\* The loads of a tab after a handler asked for one.
LEMMA FetchLoads ==
    ASSUME TypeInv, ViewInv, NEW p \in Player, NEW t \in Team, gets' = Fetch(p, t)
    PROVE  \A q \in Player, u \in Team :
              /\ \A g, h \in gets'[q][u] : g = h
              /\ \A g \in gets'[q][u] : g \in gets[q][u] \/ g.st = "sent"
  <1>1. gets \in [Player -> [Team -> SUBSET GetType]]
    BY DEF TypeInv, GetsTyped
  <1>2. CASE gets' = gets
    BY <1>2 DEF ViewInv, OneLoad
  <1>3. CASE gets' = [gets EXCEPT ![p][t] = {[st |-> "sent", data |-> None]}]
    <2>1. \A q \in Player, u \in Team :
            gets'[q][u] = IF q = p /\ u = t THEN {[st |-> "sent", data |-> None]} ELSE gets[q][u]
      BY <1>1, <1>3
    <2> QED BY <2>1 DEF ViewInv, OneLoad
  <1> QED BY <1>2, <1>3 DEF Fetch

\* Nothing newer is shown, and whatever comes is not older.
LEMMA ViewKept ==
    ASSUME TypeInv, TypeInv', ViewInv,
           \A t \in Team : rev'[t] >= rev[t],
           \A p \in Player : page'[p].shown \in {None, page[p].shown}
                             /\ (page'[p].shown # None => page'[p].team = page[p].team),
           \A p \in Player, t \in Team :
              /\ \A g, h \in gets'[p][t] : g = h
              /\ \A g \in gets'[p][t] : g \in gets[p][t] \/ g.st = "sent"
    PROVE  ViewInv'
  <1>t. /\ rev \in [Team -> Nat] /\ rev' \in [Team -> Nat]
        /\ page \in [Player -> PageType] /\ gets \in [Player -> [Team -> SUBSET GetType]]
        /\ \A p \in Player : page[p].shown # None => page[p].team \in Team
    BY DEF TypeInv, RowsTyped, OtherRowsTyped, PageTyped, GetsTyped, Opened
  <1>n. /\ \A p \in Player : page[p].shown # None => page[p].shown.rev \in Nat
        /\ \A p \in Player, t \in Team : \A g \in gets[p][t] : g.data # None => g.data.rev \in Nat
    BY <1>t DEF PageType, GetType, Snapshot
  <1>1. OneLoad'
    BY DEF OneLoad
  <1>2. LoadsPast'
    <2> SUFFICES ASSUME NEW p \in Player, NEW t \in Team, NEW g \in gets'[p][t],
                        g.st = "found", g.data # None
                 PROVE  g.data.rev <= rev'[t]
      BY DEF LoadsPast
    <2>1. g \in gets[p][t]
      OBVIOUS
    <2>2. g.data.rev <= rev[t]
      BY <2>1 DEF ViewInv, LoadsPast
    <2>3. g.data.rev \in Nat /\ rev[t] \in Nat /\ rev'[t] \in Nat /\ rev'[t] >= rev[t]
      BY <2>1, <2>2, <1>t, <1>n
    <2> QED BY <2>2, <2>3
  <1>3. ShownPast'
    <2> SUFFICES ASSUME NEW p \in Player, page'[p].shown # None
                 PROVE  page'[p].shown.rev <= rev'[page'[p].team]
      BY DEF ShownPast
    <2> DEFINE t == page[p].team
    <2>1. page'[p].shown = page[p].shown /\ page'[p].team = t
      OBVIOUS
    <2>2. page[p].shown.rev <= rev[t] /\ t \in Team
      BY <2>1, <1>t DEF ViewInv, ShownPast
    <2>3. page[p].shown.rev \in Nat /\ rev[t] \in Nat /\ rev'[t] \in Nat /\ rev'[t] >= rev[t]
      BY <2>1, <2>2, <1>t, <1>n
    <2> QED BY <2>1, <2>2, <2>3
  <1>4. LoadsNewer'
    BY DEF ViewInv, LoadsNewer
  <1> QED BY <1>1, <1>2, <1>3, <1>4 DEF ViewInv

\* The count of changes of a team only grows.
LEMMA ChangedGrows ==
    ASSUME TypeInv, UNCHANGED rev \/ \E t \in Team : Changed(t)
    PROVE  \A t \in Team : rev'[t] >= rev[t]
  <1>1. rev \in [Team -> Nat]
    BY DEF TypeInv, RowsTyped, OtherRowsTyped
  <1> QED BY <1>1 DEF Changed

\* A load that comes back is the only one under way.
LEMMA ArrivalView ==
    ASSUME TypeInv, TypeInv', ViewInv, NEW p \in Player, NEW t \in Team, NEW g \in gets[p][t],
           GetArrives(p, t, g)
    PROVE  ViewInv' /\ (page[p].shown # None /\ page'[p].shown # None /\ page'[p].team = page[p].team
                            => page'[p].shown.rev >= page[p].shown.rev)
                    /\ \A q \in Player \ {p} : page'[q] = page[q]
  <1>t. /\ rev \in [Team -> Nat] /\ page \in [Player -> PageType]
        /\ gets \in [Player -> [Team -> SUBSET GetType]]
        /\ \A q \in Player : page[q].shown # None => page[q].team \in Team
    BY DEF TypeInv, RowsTyped, OtherRowsTyped, PageTyped, GetsTyped, Opened
  <1>n. page[p].shown # None => page[p].shown.rev \in Nat
    BY <1>t DEF PageType, Snapshot
  <1>1. /\ gets'[p][t] = {}
        /\ \A q \in Player, u \in Team : gets'[q][u] \subseteq gets[q][u]
        /\ rev' = rev
    <2>1. gets' = [gets EXCEPT ![p][t] = @ \ {g}] /\ rev' = rev
      BY DEF GetArrives, rows
    <2>2. \A h \in gets[p][t] : h = g
      BY DEF ViewInv, OneLoad
    <2> QED BY <2>1, <2>2, <1>t
  <1>2. \A q \in Player, u \in Team :
              /\ \A h, k \in gets'[q][u] : h = k
              /\ \A h \in gets'[q][u] : h \in gets[q][u] \/ h.st = "sent"
    BY <1>1 DEF ViewInv, OneLoad
  <1>3. \/ /\ g.st = "found" /\ page[p].team = t /\ page[p].at = "team"
           /\ page' = [page EXCEPT ![p].shown = g.data]
        \/ page' = [page EXCEPT ![p].failed = TRUE]
        \/ page' = page
    BY DEF GetArrives
  <1>4. CASE page' = [page EXCEPT ![p].failed = TRUE] \/ page' = page
    <2>1. \A q \in Player : page'[q].shown = page[q].shown /\ page'[q].team = page[q].team
      BY <1>4, <1>t DEF PageType
    <2>2. ViewInv'
      BY <2>1, <1>1, <1>2, <1>t, ViewKept
    <2>3. \A q \in Player \ {p} : page'[q] = page[q]
      BY <1>4, <1>t
    <2> QED BY <2>1, <2>2, <2>3, <1>n
  <1>5. CASE /\ g.st = "found" /\ page[p].team = t /\ page[p].at = "team"
             /\ page' = [page EXCEPT ![p].shown = g.data]
    <2>1. /\ page'[p].shown = g.data /\ page'[p].team = t
          /\ \A q \in Player \ {p} : page'[q] = page[q]
      BY <1>5, <1>t DEF PageType
    <2>2. g.data # None => g.data.rev <= rev[t]
      BY <1>5 DEF ViewInv, LoadsPast
    <2>3. page[p].shown # None /\ g.data # None => g.data.rev >= page[p].shown.rev
      BY <1>5 DEF ViewInv, LoadsNewer
    <2>4. OneLoad' /\ LoadsPast'
      BY <1>1, <1>2 DEF ViewInv, OneLoad, LoadsPast
    <2>5. ShownPast'
      BY <2>1, <2>2, <1>1 DEF ViewInv, ShownPast
    <2>6. LoadsNewer'
      <3> SUFFICES ASSUME NEW q \in Player, NEW u \in Team, NEW h \in gets'[q][u], h.st = "found",
                          h.data # None, page'[q].team = u, page'[q].shown # None
                   PROVE  h.data.rev >= page'[q].shown.rev
        BY DEF LoadsNewer
      <3>1. q # p
        BY <2>1, <1>1
      <3> QED BY <3>1, <2>1, <1>1 DEF ViewInv, LoadsNewer
    <2> QED BY <2>1, <2>3, <2>4, <2>5, <2>6 DEF ViewInv
  <1> QED BY <1>3, <1>4, <1>5

LEMMA ServedView ==
    ASSUME TypeInv, ViewInv, NEW p \in Player, NEW t \in Team, NEW g \in gets[p][t],
           ServeGet(p, t, g)
    PROVE  ViewInv'
  <1>t. /\ rev \in [Team -> Nat] /\ page \in [Player -> PageType]
        /\ gets \in [Player -> [Team -> SUBSET GetType]]
    BY DEF TypeInv, RowsTyped, OtherRowsTyped, PageTyped, GetsTyped
  <1>1. rev' = rev /\ page' = page
    BY DEF ServeGet, rows
  <1>2. PICK a \in GetType :
           /\ a.st = "found" /\ a.data # None => a.data.rev = rev[t]
           /\ a \in gets'[p][t] /\ gets'[p][t] \subseteq (gets[p][t] \ {g}) \union {a}
           /\ \A q \in Player, u \in Team : q # p \/ u # t => gets'[q][u] = gets[q][u]
    <2>1. CASE Exists(t)
      <3> DEFINE data == [rev |-> rev[t], team |-> team[t], entered |-> t \in entries]
                 a == [st |-> "found", data |-> data]
      <3>1. data \in Snapshot /\ data.rev = rev[t]
        BY <2>1, SnapshotTyped DEF TypeInv
      <3>2. a \in GetType /\ a.data = data
        <4> HIDE DEF data
        <4> QED BY <3>1 DEF GetType
      <3>3. gets' = [gets EXCEPT ![p][t] = (@ \ {g}) \union {a}]
        BY <2>1 DEF ServeGet
      <3> HIDE DEF a, data
      <3> QED BY <3>1, <3>2, <3>3, <1>t
    <2>2. CASE ~Exists(t)
      <3> DEFINE a == [st |-> "missing", data |-> None]
      <3>1. a \in GetType /\ a.st # "found"
        BY DEF GetType
      <3>2. gets' = [gets EXCEPT ![p][t] = (@ \ {g}) \union {a}]
        BY <2>2 DEF ServeGet
      <3> HIDE DEF a
      <3> QED BY <3>1, <3>2, <1>t
    <2> QED BY <2>1, <2>2
  <1>3. \A h \in gets'[p][t] : h = a
    BY <1>2 DEF ViewInv, OneLoad
  <1>4. OneLoad'
    BY <1>2, <1>3 DEF ViewInv, OneLoad
  <1>5. LoadsPast'
    <2> SUFFICES ASSUME NEW q \in Player, NEW u \in Team, NEW h \in gets'[q][u],
                        h.st = "found", h.data # None
                 PROVE  h.data.rev <= rev[u]
      BY <1>1 DEF LoadsPast
    <2>1. CASE q = p /\ u = t
      BY <2>1, <1>2, <1>3, <1>t
    <2>2. CASE q # p \/ u # t
      BY <2>2, <1>2 DEF ViewInv, LoadsPast
    <2> QED BY <2>1, <2>2
  <1>6. ShownPast'
    BY <1>1 DEF ViewInv, ShownPast
  <1>7. LoadsNewer'
    <2> SUFFICES ASSUME NEW q \in Player, NEW u \in Team, NEW h \in gets'[q][u],
                        h.st = "found", h.data # None, page[q].team = u, page[q].shown # None
                 PROVE  h.data.rev >= page[q].shown.rev
      BY <1>1 DEF LoadsNewer
    <2>1. CASE q = p /\ u = t
      <3>1. h.data.rev = rev[t] /\ page[q].shown.rev <= rev[t]
        BY <2>1, <1>2, <1>3 DEF ViewInv, ShownPast
      <3>2. rev[t] \in Nat /\ page[q].shown.rev \in Nat
        BY <1>t DEF PageType, Snapshot
      <3> QED BY <3>1, <3>2
    <2>2. CASE q # p \/ u # t
      BY <2>2, <1>2 DEF ViewInv, LoadsNewer
    <2> QED BY <2>1, <2>2
  <1> QED BY <1>4, <1>5, <1>6, <1>7 DEF ViewInv

\* What a step may do to the view of one page.
NotBack(p) == page[p].shown # None /\ page'[p].shown # None /\ page'[p].team = page[p].team
                => page'[p].shown.rev >= page[p].shown.rev

LEMMA ViewStep ==
    ASSUME TypeInv, TypeInv', ViewInv, [Next]_vars
    PROVE  ViewInv' /\ \A p \in Player : NotBack(p)
  <1>t. /\ page \in [Player -> PageType] /\ gets \in [Player -> [Team -> SUBSET GetType]]
        /\ conn \in [Conn -> RequestType] /\ \A c \in Conn : Shaped(conn[c])
    BY DEF TypeInv, PageTyped, GetsTyped, ConnTyped
  <1>n. \A p \in Player : page[p].shown # None => page[p].shown.rev \in Nat
    BY <1>t DEF PageType, Snapshot
  <1>1. ASSUME \A t \in Team : rev'[t] >= rev[t],
               \A p \in Player : page'[p].shown \in {None, page[p].shown}
                             /\ (page'[p].shown # None => page'[p].team = page[p].team),
               gets' = gets \/ \E p \in Player, t \in Team : gets' = Fetch(p, t)
        PROVE  ViewInv' /\ \A p \in Player : NotBack(p)
    <2>1. \A p \in Player, t \in Team :
              /\ \A g, h \in gets'[p][t] : g = h
              /\ \A g \in gets'[p][t] : g \in gets[p][t] \/ g.st = "sent"
      BY <1>1, FetchLoads DEF ViewInv, OneLoad
    <2> QED BY <2>1, <1>1, <1>n, ViewKept DEF NotBack
  <1>2. ASSUME UNCHANGED <<page, gets>>, UNCHANGED rev \/ \E t \in Team : Changed(t)
        PROVE  ViewInv' /\ \A p \in Player : NotBack(p)
    BY <1>1, <1>2, ChangedGrows
  <1>3. CASE UNCHANGED vars
    BY <1>2, <1>3 DEF vars, rows, client
  <1>4. CASE Asks \/ (\E status \in Phases : HandleStatusChange(status)) \/ \E i \in Invite : Expire(i)
    BY <1>2, <1>4 DEF Asks, Ask, HandleStatusChange, Expire, rows, client
  <1>5. CASE \E t \in Team : \/ Review(t, "approved") \/ Review(t, "rejected")
                             \/ AdminDelete(t) \/ HandleRemoveTeam(t) \/ Imports(t)
    <2>1. \E t \in Team : Changed(t) /\ UNCHANGED <<page, gets>>
      BY <1>5 DEF Review, AdminDelete, HandleRemoveTeam, Imports, ImportParticipants, Direct
    <2> QED BY <2>1, <1>2
  <1>6. ASSUME NEW c \in Conn, \/ Judges(c) \/ UseInvite(c)
         \/ InsertTeam(c) \/ InsertMember(c) \/ CountUse(c) \/ InsertEntry(c)
         \/ DeleteTeam(c) \/ ServeRemove(c) \/ ServeInvite(c) \/ ServeDeactivate(c)
        PROVE  ViewInv' /\ \A p \in Player : NotBack(p)
    <2>3. UNCHANGED client
      BY <1>6 DEF Judges, UseInvite, InsertTeam, InsertMember, CountUse, InsertEntry, DeleteTeam,
                  ServeRemove, ServeInvite, ServeDeactivate
    <2>1. UNCHANGED <<page, gets>>
      BY <2>3 DEF client
    <2>2. UNCHANGED rev \/ (conn[c].team \in Team /\ Changed(conn[c].team))
      BY <1>6, <1>t DEF Judges, UseInvite, InsertTeam, InsertMember, CountUse, InsertEntry, DeleteTeam,
                  ServeRemove, ServeInvite, ServeDeactivate, rows, Sent, Checked, Shaped
    <2> QED BY SMTT(30), <2>1, <2>2, <1>2
  <1>7. ASSUME NEW p \in Player, Navigates(p) PROVE ViewInv' /\ \A q \in Player : NotBack(q)
    <2>1. rev' = rev /\ (gets' = gets \/ \E t \in Team : gets' = Fetch(p, t))
      BY <1>7 DEF Navigates, OpenTeam, OpenJoin, OpenCreate, rows
    <2>2. \A q \in Player : page'[q].shown \in {None, page[q].shown}
                             /\ (page'[q].shown # None => page'[q].team = page[q].team)
      <3>1. CASE OpenCreate(p)
        BY <3>1, <1>t DEF OpenCreate, Away
      <3>2. CASE \E t \in Team : OpenTeam(p, t)
        BY <3>2, <1>t DEF OpenTeam, Away
      <3>3. CASE \E i \in Invite : OpenJoin(p, i)
        BY <3>3, <1>t DEF OpenJoin, Away
      <3> QED BY <1>7, <3>1, <3>2, <3>3 DEF Navigates
    <2> QED BY <2>1, <2>2, <1>1, ChangedGrows
  <1>8. ASSUME NEW c \in Conn, Answer(c) PROVE ViewInv' /\ \A q \in Player : NotBack(q)
    <2>1. rev' = rev /\ (gets' = gets \/ \E p \in Player, t \in Team : gets' = Fetch(p, t))
      BY <1>8, <1>t DEF Answer, rows, Shaped
    <2>2. page' = page \/ \E q \in Player : page' = [page EXCEPT ![q] = Away]
      BY <1>8 DEF Answer
    <2>3. \A q \in Player : page'[q].shown \in {None, page[q].shown}
                             /\ (page'[q].shown # None => page'[q].team = page[q].team)
      BY <2>2, <1>t DEF Away, PageType
    <2> QED BY <2>1, <2>3, <1>1, ChangedGrows
  <1>9. ASSUME NEW p \in Player, NEW t \in Team, NEW g \in gets[p][t], ServeGet(p, t, g)
        PROVE  ViewInv' /\ \A q \in Player : NotBack(q)
    <2>1. page' = page
      BY <1>9 DEF ServeGet
    <2> QED BY <2>1, <1>9, <1>n, ServedView DEF NotBack
  <1>10. ASSUME NEW p \in Player, NEW t \in Team, NEW g \in gets[p][t], GetArrives(p, t, g)
         PROVE  ViewInv' /\ \A q \in Player : NotBack(q)
    BY <1>10, <1>n, ArrivalView DEF NotBack
  <1>11. CASE Cases
    <2>1. CASE \E p \in Player, t \in Team : \E g \in gets[p][t] : ServeGet(p, t, g) \/ GetArrives(p, t, g)
      BY <2>1, <1>9, <1>10
    <2> QED BY <2>1, <1>4, <1>5, <1>6, <1>7, <1>8, <1>11, Zenon DEF Cases, Uncounted
  <1> QED BY <1>3, <1>11, StepCases

\* A page never goes back to an older state of its team.
THEOREM ViewsGoForward == Spec => ViewNeverGoesBack
  <1>1. Init => ViewInv
    BY DEF Init, Away, ViewInv, OneLoad, LoadsPast, ShownPast, LoadsNewer
  <1>2. TypeInv /\ TypeInv' /\ ViewInv /\ [Next]_vars => ViewInv'
    BY ViewStep
  <1>3. TypeInv /\ TypeInv' /\ ViewInv /\ [Next]_vars =>
          [\A p \in Player :
             (page[p].shown # None /\ page'[p].shown # None /\ page'[p].team = page[p].team)
                => page'[p].shown.rev >= page[p].shown.rev]_vars
    BY ViewStep DEF NotBack
  <1> QED BY <1>1, <1>2, <1>3, AlwaysTyped, PTL DEF Spec, ViewNeverGoesBack

-----------------------------------------------------------------------------
(***************************************************************************)
(* The size of a roster                                                    *)
(***************************************************************************)

\* Players who are past the checks of a team and not yet among its members.
Joining(c) == conn[c].op \in {"join", "assign"} /\ conn[c].st = "checked"
Past(t) == {c \in Conn : Joining(c) /\ conn[c].team = t}
DoorsPast(t) == {Door(conn[c]) : c \in Past(t)}

\* A page of an organiser assigns one player at a time.
OneAssign ==
    /\ \A c \in Conn : conn[c].op = "assign" => conn[c].mine
    /\ \A c, d \in Conn : conn[c].op = "assign" /\ conn[d].op = "assign" /\ conn[c].by = conn[d].by
                           => c = d

LEMMA OneAssignStep ==
    ASSUME TypeInv, OneAssign, [Next]_vars
    PROVE  OneAssign'
  <1>t. conn \in [Conn -> RequestType] /\ \A c \in Conn : Shaped(conn[c])
    BY DEF TypeInv, ConnTyped
  <1>k. ASSUME UNCHANGED conn PROVE OneAssign'
    BY <1>k DEF OneAssign
  <1>1. CASE Asks
    <2>1. PICK r \in RequestType : NewRequest(r) /\ Ask(r)
      BY <1>1 DEF Asks
    <2>2. PICK c \in Conn : conn'[c] = r /\ \A d \in Conn \ {c} : conn'[d] = conn[d]
      BY <2>1, <1>t, Asked
    <2>3. r.mine /\ (r.op = "assign" => \A d \in Conn : conn[d].op = "assign" => conn[d].by # r.by)
      BY <2>1 DEF NewRequest, Busy, OneAssign
    <2> QED BY <2>2, <2>3 DEF OneAssign
  <1>2. ASSUME NEW p \in Player, Navigates(p) PROVE OneAssign'
    <2>1. Opens(p)
      BY <1>2 DEF Navigates, OpenTeam, OpenCreate, OpenJoin
    <2>2. \A c \in Conn : /\ conn'[c].op = conn[c].op /\ conn'[c].by = conn[c].by
                          /\ conn'[c].mine = (conn[c].mine /\ conn[c].by # p)
      BY <2>1, <1>t, Leaving
    <2>3. \A c \in Conn : conn[c].op = "assign" => conn[c].by # p
      BY <1>t, PeopleAssumption DEF Shaped
    <2>4. \A c \in Conn : conn'[c].op = "assign" => conn'[c].mine
      BY <2>2, <2>3, Zenon DEF OneAssign
    <2>5. \A c \in Conn : conn'[c].op = conn[c].op /\ conn'[c].by = conn[c].by
      BY <2>2, Zenon
    <2> QED BY <2>4, <2>5 DEF OneAssign
  <1>3. CASE \/ \E p \in Player, t \in Team : \E g \in gets[p][t] : ServeGet(p, t, g) \/ GetArrives(p, t, g)
             \/ \E t \in Team : \/ Review(t, "approved") \/ Review(t, "rejected")
                                \/ AdminDelete(t) \/ HandleRemoveTeam(t) \/ Imports(t)
             \/ \E status \in Phases : HandleStatusChange(status)
             \/ \E i \in Invite : Expire(i)
    BY <1>3, <1>k DEF ServeGet, GetArrives, Review, AdminDelete, HandleRemoveTeam, Imports, ImportParticipants, Direct,
                      HandleStatusChange, Expire
  <1>4. ASSUME NEW c \in Conn, NEW st \in Stage, Becomes(c, st) PROVE OneAssign'
    <2>1. \A d \in Conn : conn'[d].op = conn[d].op /\ conn'[d].by = conn[d].by /\ conn'[d].mine = conn[d].mine
      BY <1>4, <1>t, Becoming
    <2> QED BY <2>1 DEF OneAssign
  <1>5. ASSUME NEW c \in Conn, \/ Judges(c) \/ UseInvite(c)
         \/ InsertTeam(c) \/ InsertMember(c) \/ CountUse(c) \/ InsertEntry(c)
         \/ DeleteTeam(c) \/ ServeRemove(c) \/ ServeInvite(c) \/ ServeDeactivate(c)
        PROVE OneAssign'
    <2>1. \E st \in Stage : Becomes(c, st)
      BY <1>5 DEF Judges, CheckCreate, CheckAssign, CheckRegister, CheckEnter, CheckDelete, Check,
         UseInvite, InsertTeam, InsertMember, CountUse, InsertEntry, DeleteTeam, ServeRemove,
         ServeInvite, ServeDeactivate, Stage
    <2> QED BY SMTT(30), <2>1, <1>4
  <1>6. ASSUME NEW c \in Conn, Answer(c) PROVE OneAssign'
    <2>1. conn'[c] = Idle /\ \A d \in Conn \ {c} : conn'[d] = conn[d]
      BY <1>6, <1>t DEF Answer
    <2> QED BY <2>1, IdleTyped DEF OneAssign
  <1>7. CASE UNCHANGED vars
    BY <1>7, <1>k DEF vars
  <1>8. CASE Cases
    BY <1>8, <1>1, <1>2, <1>3, <1>5, <1>6, Zenon DEF Cases, Uncounted
  <1> QED BY <1>7, <1>8, StepCases

\* Requests that are counted apart have doors that are counted apart.
LEMMA DoorsCounted ==
    ASSUME NEW P \in SUBSET Conn, NEW D, NEW f \in [P -> D],
           \A c, d \in P : f[c] = f[d] => c = d,
           \A x \in D : \E c \in P : f[c] = x
    PROVE  IsFiniteSet(P) /\ IsFiniteSet(D) /\ Cardinality(P) = Cardinality(D)
  <1>1. IsFiniteSet(P)
    BY PeopleAssumption, FS_Subset
  <1>2. f \in Injection(P, D) /\ f \in Surjection(P, D)
    BY DEF Injection, IsInjective, Surjection
  <1>3. ExistsBijection(P, D)
    BY <1>2 DEF Bijection, ExistsBijection
  <1> QED BY <1>1, <1>3, FS_Bijection

\* The sets that are counted.
Sized ==
    \A t \in Team :
      /\ IsFiniteSet(Past(t)) /\ IsFiniteSet(DoorsPast(t)) /\ IsFiniteSet(doors[t])
      /\ IsFiniteSet(team[t].members) /\ IsFiniteSet(LetIn(t))
      /\ Cardinality(Past(t)) = Cardinality(DoorsPast(t))

LEMMA AlwaysSized == TypeInv /\ OneUse /\ OneAssign => Sized
  <1> SUFFICES ASSUME TypeInv, OneUse, OneAssign, NEW t \in Team
               PROVE  /\ IsFiniteSet(Past(t)) /\ IsFiniteSet(DoorsPast(t)) /\ IsFiniteSet(doors[t])
                      /\ IsFiniteSet(team[t].members) /\ IsFiniteSet(LetIn(t))
                      /\ Cardinality(Past(t)) = Cardinality(DoorsPast(t))
    BY DEF Sized
  <1>t. /\ conn \in [Conn -> RequestType] /\ \A c \in Conn : Shaped(conn[c])
        /\ team[t].members \in SUBSET Player /\ doors[t] \in SUBSET (Invite \union Organiser)
    BY DEF TypeInv, ConnTyped, RowsTyped, TeamTyped, OtherRowsTyped, TeamRow
  <1>1. IsFiniteSet(team[t].members) /\ IsFiniteSet(LetIn(t)) /\ IsFiniteSet(doors[t])
    BY <1>t, PeopleAssumption, FS_Subset, FS_Union DEF LetIn
  <1>2. \A c, d \in Past(t) : Door(conn[c]) = Door(conn[d]) => c = d
    <2> SUFFICES ASSUME NEW c \in Past(t), NEW d \in Past(t), Door(conn[c]) = Door(conn[d])
                 PROVE  c = d
      OBVIOUS
    <2>1. CASE conn[c].op = "join" /\ conn[d].op = "join"
      BY <2>1 DEF Door, OneUse, Using, UnderWay, Past, Joining
    <2>2. CASE conn[c].op = "assign" /\ conn[d].op = "assign"
      BY <2>2 DEF Door, OneAssign, Past, Joining
    <2>3. CASE conn[c].op # conn[d].op
      BY <2>3, <1>t, PeopleAssumption DEF Door, Past, Joining, Shaped
    <2> QED BY <2>1, <2>2, <2>3 DEF Past, Joining
  <1>3. Past(t) \in SUBSET Conn
    BY DEF Past
  <1>4. IsFiniteSet(Past(t)) /\ IsFiniteSet(DoorsPast(t)) /\ Cardinality(Past(t)) = Cardinality(DoorsPast(t))
    <2> DEFINE P == Past(t)
               D == DoorsPast(t)
               f == [c \in P |-> Door(conn[c])]
    <2>1. /\ P \in SUBSET Conn /\ f \in [P -> D]
          /\ \A c, d \in P : f[c] = f[d] => c = d
          /\ \A x \in D : \E c \in P : f[c] = x
      BY <1>2, <1>3 DEF DoorsPast
    <2> HIDE DEF P, D, f
    <2>2. IsFiniteSet(P) /\ IsFiniteSet(D) /\ Cardinality(P) = Cardinality(D)
      BY <2>1, DoorsCounted
    <2> QED BY <2>2 DEF P, D
  <1> QED BY <1>1, <1>4

\* How far a team may be past its limit: by what its doors let in at once.
RosterOf(members, past, doorsOf, doorsPast) ==
    /\ \/ Cardinality(members) <= Limit
       \/ Cardinality(members) < Limit + Cardinality(doorsOf)
    /\ past # {} => Cardinality(members) + Cardinality(past) < Limit + Cardinality(doorsOf \union doorsPast)

RosterAt(t) ==
    /\ RosterOf(LetIn(t), Past(t), doors[t], DoorsPast(t))
    /\ Past(t) # {} => team[t].status # "free"

RosterInv == \A t \in Team : RosterAt(t)

\* Members leave, or a request gives up.
LEMMA RosterShrinks ==
    ASSUME NEW M, IsFiniteSet(M), NEW N \in SUBSET M,
           NEW P, IsFiniteSet(P), NEW c, NEW Q, Q = P \/ (c \in P /\ Q = P \ {c}),
           NEW D, IsFiniteSet(D), NEW E, IsFiniteSet(E), NEW F, IsFiniteSet(F), NEW x,
           E = F \/ (Q # P /\ E \subseteq F \union {x}),
           RosterOf(M, P, D, E)
    PROVE  RosterOf(N, Q, D, F)
  <1>1. /\ Cardinality(M) \in Nat /\ Cardinality(N) \in Nat /\ Cardinality(N) <= Cardinality(M)
        /\ Cardinality(P) \in Nat /\ Cardinality(Q) \in Nat /\ Cardinality(D) \in Nat
    BY FS_CardinalityType, FS_Subset, FS_RemoveElement
  <1>2. Limit \in Nat
    BY StartAssumption
  <1>3. /\ IsFiniteSet(D \union E) /\ IsFiniteSet(D \union F)
        /\ Cardinality(D \union E) \in Nat /\ Cardinality(D \union F) \in Nat
    BY FS_Union, FS_CardinalityType
  <1>4. ASSUME Q # {} PROVE Cardinality(N) + Cardinality(Q) < Limit + Cardinality(D \union F)
    <2>1. Cardinality(M) + Cardinality(P) < Limit + Cardinality(D \union E)
      BY <1>4 DEF RosterOf
    <2>2. CASE Q = P
      BY <2>1, <2>2, <1>1, <1>2, <1>3
    <2>3. CASE Q # P
      <3>1. Cardinality(Q) = Cardinality(P) - 1
        BY <2>3, FS_RemoveElement
      <3>2. D \union E \subseteq (D \union F) \union {x}
        OBVIOUS
      <3>3. /\ IsFiniteSet((D \union F) \union {x})
            /\ Cardinality((D \union F) \union {x}) <= Cardinality(D \union F) + 1
        <4> DEFINE S == D \union F
        <4>1. IsFiniteSet(S) /\ Cardinality(S) \in Nat
          BY <1>3
        <4> HIDE DEF S
        <4>2. /\ IsFiniteSet(S \union {x})
              /\ Cardinality(S \union {x}) = IF x \in S THEN Cardinality(S) ELSE Cardinality(S) + 1
          BY <4>1, FS_AddElement
        <4>3. IsFiniteSet(S \union {x}) /\ Cardinality(S \union {x}) <= Cardinality(S) + 1
          BY <4>1, <4>2
        <4> QED BY <4>3 DEF S
      <3>4. Cardinality(D \union E) <= Cardinality((D \union F) \union {x})
        BY <3>2, <3>3, FS_Subset
      <3>5. Cardinality((D \union F) \union {x}) \in Nat
        BY <3>3, FS_CardinalityType
      <3> QED BY <2>1, <3>1, <3>3, <3>4, <3>5, <1>1, <1>2, <1>3
    <2> QED BY <2>2, <2>3
  <1>5. \/ Cardinality(N) <= Limit \/ Cardinality(N) < Limit + Cardinality(D)
    BY <1>1, <1>2 DEF RosterOf
  <1> QED BY <1>4, <1>5 DEF RosterOf

\* A request passes its checks: there is a place left in the roster.
LEMMA RosterChecked ==
    ASSUME NEW M, IsFiniteSet(M), Cardinality(M) < Limit,
           NEW Q, NEW D, IsFiniteSet(D), NEW F, IsFiniteSet(F),
           IsFiniteSet(Q), Cardinality(Q) = Cardinality(F)
    PROVE  RosterOf(M, Q, D, F)
  <1>1. /\ Cardinality(M) \in Nat /\ Cardinality(Q) \in Nat /\ Limit \in Nat
    BY FS_CardinalityType, StartAssumption
  <1>2. IsFiniteSet(D \union F) /\ F \in SUBSET (D \union F)
    BY FS_Union
  <1>3. Cardinality(F) <= Cardinality(D \union F) /\ Cardinality(D \union F) \in Nat
    BY <1>2, FS_Subset, FS_CardinalityType
  <1> QED BY <1>1, <1>3 DEF RosterOf

\* A request that is past its checks becomes a member.
LEMMA RosterGrows ==
    ASSUME NEW M, IsFiniteSet(M), NEW u, u \notin M,
           NEW P, IsFiniteSet(P), NEW c \in P,
           NEW D, IsFiniteSet(D), NEW E, IsFiniteSet(E), NEW F, IsFiniteSet(F), NEW x \in E,
           E \subseteq F \union {x}, F \subseteq E, Cardinality(P \ {c}) = Cardinality(F),
           RosterOf(M, P, D, E)
    PROVE  RosterOf(M \union {u}, P \ {c}, D \union {x}, F)
  <1>1. /\ Cardinality(M) \in Nat /\ Cardinality(M \union {u}) = Cardinality(M) + 1
        /\ Cardinality(P) \in Nat /\ Cardinality(P \ {c}) = Cardinality(P) - 1
        /\ Limit \in Nat
    BY FS_CardinalityType, FS_AddElement, FS_RemoveElement, StartAssumption
  <1>2. (D \union {x}) \union F = D \union E
    OBVIOUS
  <1>3. Cardinality(M) + Cardinality(P) < Limit + Cardinality(D \union E)
    BY DEF RosterOf
  <1>4. /\ IsFiniteSet(D \union {x}) /\ Cardinality(D \union {x}) \in Nat
        /\ IsFiniteSet(D \union E) /\ Cardinality(D \union E) \in Nat
    BY FS_AddElement, FS_Union, FS_CardinalityType
  <1>5. Cardinality(D \union E) <= Cardinality(D \union {x}) + Cardinality(F)
    <2>1. /\ IsFiniteSet((D \union {x}) \intersect F) /\ Cardinality(F) \in Nat
          /\ Cardinality((D \union {x}) \intersect F) \in Nat
      BY FS_Subset, FS_CardinalityType
    <2>2. Cardinality((D \union {x}) \union F) =
            Cardinality(D \union {x}) + Cardinality(F) - Cardinality((D \union {x}) \intersect F)
      BY <1>4, FS_Union
    <2>3. Cardinality(D \union E) =
            Cardinality(D \union {x}) + Cardinality(F) - Cardinality((D \union {x}) \intersect F)
      BY <2>2, <1>2, Zenon
    <2> DEFINE k == Cardinality(D \union {x})
               f == Cardinality(F)
               i == Cardinality((D \union {x}) \intersect F)
               e == Cardinality(D \union E)
    <2>4. k \in Nat /\ f \in Nat /\ i \in Nat /\ e \in Nat /\ e = k + f - i
      BY <2>1, <2>3, <1>4, Zenon
    <2>5. e <= k + f
      <3> HIDE DEF k, f, i, e
      <3> QED BY <2>4
    <2> QED BY <2>5
  <1> DEFINE m == Cardinality(M)
             n == Cardinality(M \union {u})
             b == Cardinality(P)
             a == Cardinality(P \ {c})
             k == Cardinality(D \union {x})
             e == Cardinality(D \union E)
  <1>6. /\ m \in Nat /\ b \in Nat /\ Limit \in Nat /\ k \in Nat /\ e \in Nat
        /\ n = m + 1 /\ a = b - 1 /\ m + b < Limit + e /\ e <= k + a
    BY <1>1, <1>3, <1>4, <1>5
  <1>7. n < Limit + k /\ n + a < Limit + e
    <2> HIDE DEF m, n, b, a, k, e
    <2> QED BY <1>6
  <1>8. Cardinality((D \union {x}) \union F) = e
    BY <1>2, Zenon
  <1>9. n < Limit + k
    BY <1>7
  <1>10. n + a < Limit + Cardinality((D \union {x}) \union F)
    <2> HIDE DEF n, a, e
    <2> QED BY <1>7, <1>8
  <1> QED BY <1>9, <1>10, Zenon DEF RosterOf

\* Members leave, and nobody gets past a check.
LEMMA RosterLess ==
    ASSUME NEW M, IsFiniteSet(M), NEW N \in SUBSET M, NEW P, NEW D, NEW E, IsFiniteSet(P),
           IsFiniteSet(D), IsFiniteSet(E), RosterOf(M, P, D, E)
    PROVE  RosterOf(N, P, D, E)
  <1> DEFINE m == Cardinality(M)
             n == Cardinality(N)
             k == Cardinality(P)
             d == Cardinality(D)
             e == Cardinality(D \union E)
  <1>1. m \in Nat /\ n \in Nat /\ n <= m /\ k \in Nat /\ d \in Nat /\ e \in Nat /\ Limit \in Nat
    BY FS_CardinalityType, FS_Subset, FS_Union, StartAssumption
  <1>2. (m <= Limit \/ m < Limit + d) /\ (P # {} => m + k < Limit + e)
    BY DEF RosterOf
  <1>3. (n <= Limit \/ n < Limit + d) /\ (P # {} => n + k < Limit + e)
    <2> HIDE DEF m, n, k, d, e
    <2> QED BY <1>1, <1>2
  <1> QED BY <1>3, Zenon DEF RosterOf

\* The same players are past the checks of a team.
SamePast(t) ==
    \A c \in Conn : /\ (Joining(c) /\ conn[c].team = t) <=> (Joining(c) /\ conn[c].team = t)'
                    /\ Joining(c) /\ conn[c].team = t => Door(conn'[c]) = Door(conn[c])

LEMMA PastSame ==
    ASSUME NEW t \in Team, SamePast(t)
    PROVE  Past(t)' = Past(t) /\ DoorsPast(t)' = DoorsPast(t)
  <1>1. Past(t)' = Past(t)
    BY DEF SamePast, Past
  <1>2. \A c \in Past(t) : Door(conn'[c]) = Door(conn[c])
    BY DEF SamePast, Past
  <1> QED BY <1>1, <1>2 DEF DoorsPast

LEMMA RosterKept ==
    ASSUME Sized, RosterInv, NEW t \in Team, SamePast(t),
           LetIn(t)' \subseteq LetIn(t), doors'[t] = doors[t],
           team[t].status # "free" => team'[t].status # "free"
    PROVE  RosterAt(t)'
  <1>1. Past(t)' = Past(t) /\ DoorsPast(t)' = DoorsPast(t)
    BY PastSame
  <1>2. RosterOf(LetIn(t), Past(t), doors[t], DoorsPast(t)) /\ (Past(t) # {} => team[t].status # "free")
    BY DEF RosterInv, RosterAt
  <1>3. /\ IsFiniteSet(Past(t)) /\ IsFiniteSet(DoorsPast(t)) /\ IsFiniteSet(doors[t])
        /\ IsFiniteSet(LetIn(t))
    BY DEF Sized
  <1>4. RosterOf(LetIn(t)', Past(t), doors[t], DoorsPast(t))
    BY <1>2, <1>3, RosterLess
  <1> QED BY <1>1, <1>2, <1>4, Zenon DEF RosterAt

TeamsCalm ==
    \A t \in Team : /\ LetIn(t)' \subseteq LetIn(t) /\ doors'[t] = doors[t]
                    /\ team[t].status # "free" => team'[t].status # "free"

\* A request that was not past a check comes to a stage that is not either.
LEMMA RosterCalm ==
    ASSUME TypeInv, Sized, RosterInv, TeamsCalm,
           \A c \in Conn :
             \/ ~Joining(c) /\ ~Joining(c)'
             \/ /\ conn'[c].op = conn[c].op /\ conn'[c].st = conn[c].st /\ conn'[c].by = conn[c].by
                /\ conn'[c].team = conn[c].team /\ conn'[c].invite = conn[c].invite
    PROVE  RosterInv'
  <1>1. \A t \in Team : SamePast(t)
    BY DEF SamePast, Joining, Door
  <1> QED BY <1>1, RosterKept DEF RosterInv, TeamsCalm

\* A request passes its checks: there is a place left.
LEMMA RosterEnters ==
    ASSUME TypeInv, Sized, Sized', RosterInv, NEW c \in Conn,
           conn[c].op \in {"join", "assign"}, conn[c].st = "sent", Becomes(c, "checked"),
           UNCHANGED <<team, doors, imported>>, Exists(conn[c].team), ~Full(conn[c].team)
    PROVE  RosterInv'
  <1>1. /\ conn[c].team \in Team \union {None} /\ "checked" \in Stage /\ conn \in [Conn -> RequestType]
        /\ Shaped(conn[c])
    BY DEF TypeInv, ConnTyped, RequestType, Stage
  <1>2. /\ conn'[c].st = "checked" /\ conn'[c].op = conn[c].op /\ conn'[c].by = conn[c].by
        /\ conn'[c].team = conn[c].team /\ conn'[c].invite = conn[c].invite
        /\ \A d \in Conn \ {c} : conn'[d] = conn[d]
    BY <1>1, Becoming
  <1>3. ASSUME NEW t \in Team, t # conn[c].team PROVE RosterAt(t)'
    <2>1. SamePast(t)
      BY <1>2, <1>3 DEF SamePast, Joining
    <2> QED BY <2>1, RosterKept DEF LetIn
  <1>4. ASSUME NEW t \in Team, t = conn[c].team PROVE RosterAt(t)'
    <2>1. /\ IsFiniteSet(Past(t)') /\ IsFiniteSet(DoorsPast(t)') /\ IsFiniteSet(doors'[t])
          /\ IsFiniteSet(team'[t].members) /\ IsFiniteSet(LetIn(t)')
          /\ Cardinality(Past(t)') = Cardinality(DoorsPast(t)')
      BY DEF Sized
    <2>2. Cardinality(team'[t].members) < Limit
      <3>1. team[t].members = team'[t].members
        OBVIOUS
      <3>2. Cardinality(team'[t].members) \in Nat
        BY <2>1, FS_CardinalityType
      <3>3. ~(Cardinality(team'[t].members) >= Limit)
        BY <1>4, <3>1, Zenon DEF Full
      <3> QED BY <3>2, <3>3, StartAssumption
    <2>5. Cardinality(LetIn(t)') < Limit
      <3>1. LetIn(t)' \in SUBSET team'[t].members
        BY DEF LetIn
      <3>2. /\ Cardinality(LetIn(t)') <= Cardinality(team'[t].members)
            /\ Cardinality(LetIn(t)') \in Nat /\ Cardinality(team'[t].members) \in Nat
        BY <2>1, <3>1, FS_Subset, FS_CardinalityType
      <3> QED BY <2>2, <3>2, StartAssumption
    <2>3. RosterOf(LetIn(t)', Past(t)', doors'[t], DoorsPast(t)')
      BY <2>1, <2>5, RosterChecked
    <2>4. team'[t].status # "free"
      BY <1>4 DEF Exists
    <2> QED BY <2>3, <2>4, Zenon DEF RosterAt
  <1> QED BY <1>3, <1>4 DEF RosterInv

\* A request that is past the checks becomes a member, or is refused by a key.
LEMMA RosterInserts ==
    ASSUME TypeInv, Sized, Sized', RosterInv, NEW c \in Conn, InsertMember(c)
    PROVE  RosterInv'
  <1>1. /\ Shaped(conn[c]) /\ conn \in [Conn -> RequestType] /\ Joining(c)
    BY DEF TypeInv, ConnTyped, InsertMember, Checked, Joining
  <1>2. PICK t0 \in Team, u \in Player : t0 = conn[c].team /\ u = conn[c].who
    BY <1>1 DEF Shaped, Joining
  <1>9. PICK x : x = Door(conn[c])
    OBVIOUS
  <1> DEFINE fits == Exists(t0) /\ u \notin team[t0].members
  <1>3. PICK st \in Stage : Becomes(c, st) /\ st # "checked"
    BY DEF InsertMember, Stage
  <1>4. /\ conn'[c].st # "checked" /\ conn'[c].team = t0
        /\ \A d \in Conn \ {c} : conn'[d] = conn[d]
    <2>1. /\ conn'[c].st = st /\ conn'[c].team = conn[c].team
          /\ \A d \in Conn \ {c} : conn'[d] = conn[d]
      BY <1>1, <1>3, Becoming
    <2> QED BY <2>1, <1>2, <1>3
  <1>5. /\ team \in [Team -> TeamRow] /\ doors \in [Team -> SUBSET (Invite \union Organiser)]
        /\ imported \in [Team -> SUBSET Player]
    BY DEF TypeInv, RowsTyped, TeamTyped, OtherRowsTyped
  <1>6. /\ fits => /\ team' = [team EXCEPT ![t0].members = @ \union {u}]
                   /\ doors' = [doors EXCEPT ![t0] = @ \union {x}]
                   /\ imported' = [imported EXCEPT ![t0] = @ \ {u}]
        /\ ~fits => UNCHANGED <<team, doors, imported>>
    BY <1>2, <1>9 DEF InsertMember
  <1>7. ASSUME NEW t \in Team, t # t0 PROVE RosterAt(t)'
    <2>1. SamePast(t)
      BY <1>2, <1>4, <1>7 DEF SamePast, Joining
    <2>2. team'[t] = team[t] /\ doors'[t] = doors[t] /\ imported'[t] = imported[t]
      BY <1>5, <1>6, <1>7
    <2> QED BY <2>1, <2>2, RosterKept DEF LetIn
  <1>8. RosterAt(t0)'
    <2>1. /\ IsFiniteSet(LetIn(t0)) /\ IsFiniteSet(Past(t0)) /\ IsFiniteSet(doors[t0])
          /\ IsFiniteSet(DoorsPast(t0)) /\ IsFiniteSet(DoorsPast(t0)')
          /\ Cardinality(Past(t0)') = Cardinality(DoorsPast(t0)')
      BY DEF Sized
    <2>2. c \in Past(t0) /\ Past(t0)' = Past(t0) \ {c}
      BY <1>1, <1>2, <1>4 DEF Past, Joining
    <2>3. \A d \in Past(t0) \ {c} : Door(conn'[d]) = Door(conn[d])
      BY <1>4 DEF Past
    <2>4. /\ x \in DoorsPast(t0) /\ DoorsPast(t0) \subseteq DoorsPast(t0)' \union {x}
          /\ DoorsPast(t0)' \subseteq DoorsPast(t0)
      BY <1>2, <1>9, <2>2, <2>3 DEF DoorsPast
    <2>5. RosterOf(LetIn(t0), Past(t0), doors[t0], DoorsPast(t0)) /\ team[t0].status # "free"
      BY <2>2 DEF RosterInv, RosterAt
    <2>6. CASE fits
      <3>1. RosterOf(LetIn(t0) \union {u}, Past(t0) \ {c}, doors[t0] \union {x}, DoorsPast(t0)')
        <4>1. u \notin LetIn(t0)
          BY <2>6 DEF LetIn
        <4> QED BY <2>1, <2>2, <2>4, <2>5, <4>1, RosterGrows
      <3>2. /\ LetIn(t0)' = LetIn(t0) \union {u} /\ team'[t0].status = team[t0].status
            /\ doors'[t0] = doors[t0] \union {x}
        BY <1>5, <1>6, <2>6 DEF TeamRow, LetIn
      <3> QED BY <3>1, <3>2, <2>2, <2>5, Zenon DEF RosterAt
    <2>7. CASE ~fits
      <3>1. RosterOf(LetIn(t0), Past(t0) \ {c}, doors[t0], DoorsPast(t0)')
        BY <2>1, <2>2, <2>4, <2>5, RosterShrinks
      <3>2. team'[t0] = team[t0] /\ doors'[t0] = doors[t0] /\ LetIn(t0)' = LetIn(t0)
        BY <1>6, <2>7 DEF LetIn
      <3> QED BY <3>1, <3>2, <2>2, <2>5, Zenon DEF RosterAt
    <2> QED BY <2>6, <2>7
  <1> QED BY <1>7, <1>8 DEF RosterInv

\* A team is founded: its captain is its only member.
LEMMA RosterFounded ==
    ASSUME TypeInv, Sized, RosterInv, NEW c \in Conn, InsertTeam(c)
    PROVE  RosterInv'
  <1>1. /\ Shaped(conn[c]) /\ conn \in [Conn -> RequestType] /\ conn[c].op = "create"
    BY DEF TypeInv, ConnTyped, InsertTeam, Checked
  <1>2. PICK t0 \in Team, p \in Player : t0 = conn[c].team /\ p = conn[c].who
    BY <1>1 DEF Shaped
  <1>3. PICK st \in Stage : Becomes(c, st)
    BY DEF InsertTeam, Stage
  <1>4. \A t \in Team : SamePast(t)
    BY <1>1, <1>3, Becoming DEF SamePast, Joining
  <1>5. team \in [Team -> TeamRow] /\ UNCHANGED <<doors, imported>>
    BY DEF TypeInv, RowsTyped, TeamTyped, InsertTeam
  <1>6. \/ UNCHANGED team
        \/ /\ team[t0].status = "free"
           /\ team' = [team EXCEPT ![t0] = [status |-> "pending", captain |-> p, members |-> {p}]]
    BY <1>2 DEF InsertTeam
  <1>7. ASSUME NEW t \in Team, team'[t] = team[t] PROVE RosterAt(t)'
    BY <1>4, <1>5, <1>7, RosterKept DEF LetIn
  <1>8. ASSUME team[t0].status = "free", team'[t0].members = {p} PROVE RosterAt(t0)'
    <2>1. Past(t0)' = {}
      BY <1>4, <1>8, PastSame, Zenon DEF RosterInv, RosterAt
    <2>2. Cardinality(LetIn(t0)') <= Limit
      <3>1. LetIn(t0)' = {} \/ LetIn(t0)' = {p}
        BY <1>8 DEF LetIn
      <3>2. Cardinality(LetIn(t0)') = 0 \/ Cardinality(LetIn(t0)') = 1
        BY <3>1, FS_EmptySet, FS_Singleton
      <3> QED BY <3>2, StartAssumption
    <2> QED BY <2>1, <2>2 DEF RosterAt, RosterOf
  <1>9. ASSUME NEW t \in Team PROVE RosterAt(t)'
    <2>1. CASE UNCHANGED team
      BY <2>1, <1>7
    <2>2. CASE ~UNCHANGED team /\ t # t0
      BY <2>2, <1>5, <1>6, <1>7
    <2>3. CASE ~UNCHANGED team /\ t = t0
      BY <2>3, <1>5, <1>6, <1>8
    <2> QED BY <2>1, <2>2, <2>3
  <1> QED BY <1>9 DEF RosterInv

LEMMA RosterStep ==
    ASSUME TypeInv, Sized, Sized', RosterInv, [Next]_vars
    PROVE  RosterInv'
  <1>t. /\ conn \in [Conn -> RequestType] /\ \A c \in Conn : Shaped(conn[c])
        /\ team \in [Team -> TeamRow] /\ imported \in [Team -> SUBSET Player]
        /\ \A t \in Team : ~Exists(t) => team[t].members = {}
    BY DEF TypeInv, ConnTyped, RowsTyped, TeamTyped, OtherRowsTyped
  <1>k. ASSUME UNCHANGED conn, TeamsCalm PROVE RosterInv'
    BY <1>k, RosterCalm
  <1>r. ASSUME UNCHANGED <<team, doors, imported>> PROVE TeamsCalm
    BY <1>r DEF TeamsCalm, LetIn
  <1>1. CASE Asks
    <2>1. PICK r \in RequestType : NewRequest(r) /\ Ask(r)
      BY <1>1 DEF Asks
    <2>2. PICK c \in Conn : conn[c] = Idle /\ conn'[c] = r /\ \A d \in Conn \ {c} : conn'[d] = conn[d]
      BY <2>1, <1>t, Asked
    <2>3. ~Joining(c) /\ ~Joining(c)'
      BY <2>1, <2>2, IdleTyped DEF NewRequest, Joining
    <2>4. UNCHANGED <<team, doors, imported>>
      BY <2>1 DEF Ask, rows
    <2> QED BY <2>2, <2>3, <2>4, <1>r, RosterCalm
  <1>2. ASSUME NEW p \in Player, Navigates(p) PROVE RosterInv'
    <2>a. Opens(p) /\ UNCHANGED rows
      BY <1>2, Zenon DEF Navigates, OpenTeam, OpenCreate, OpenJoin
    <2>1. Opens(p) /\ UNCHANGED <<team, doors, imported>>
      BY <2>a DEF rows
    <2>2. \A c \in Conn : /\ conn'[c].op = conn[c].op /\ conn'[c].st = conn[c].st
                          /\ conn'[c].by = conn[c].by /\ conn'[c].team = conn[c].team
                          /\ conn'[c].invite = conn[c].invite
      BY <2>1, <1>t, Leaving
    <2> QED BY <2>1, <2>2, <1>r, RosterCalm
  <1>3. CASE \/ \E p \in Player, t \in Team : \E g \in gets[p][t] : ServeGet(p, t, g) \/ GetArrives(p, t, g)
             \/ \E status \in Phases : HandleStatusChange(status)
             \/ \E i \in Invite : Expire(i)
    <2>1. UNCHANGED <<conn, team, doors, imported>>
      BY <1>3 DEF ServeGet, GetArrives, HandleStatusChange, Expire, rows
    <2> QED BY <2>1, <1>r, <1>k
  <1>4. ASSUME NEW t \in Team, \/ Review(t, "approved") \/ Review(t, "rejected")
                                \/ AdminDelete(t) \/ HandleRemoveTeam(t) \/ Imports(t)
        PROVE RosterInv'
    <2>1. UNCHANGED <<conn, doors>>
      BY <1>4 DEF Review, AdminDelete, HandleRemoveTeam, Imports, ImportParticipants, Direct
    <2>2. TeamsCalm
      <3>1. CASE \/ Review(t, "approved") \/ Review(t, "rejected")
                 \/ AdminDelete(t) \/ HandleRemoveTeam(t)
        BY <3>1, <2>1, <1>t DEF Review, AdminDelete, Deleted, Gone, HandleRemoveTeam, TeamsCalm, TeamRow, LetIn
      <3>2. ASSUME NEW u \in Player, ImportParticipants(t, u) PROVE TeamsCalm
        BY <3>2, <2>1, <1>t DEF ImportParticipants, TeamsCalm, TeamRow, LetIn
      <3> QED BY <1>4, <3>1, <3>2 DEF Imports
    <2> QED BY <2>1, <2>2, <1>k
  <1>5. ASSUME NEW c \in Conn, NEW st \in Stage, Becomes(c, st), ~Joining(c), st # "checked" \/ conn[c].op \notin {"join", "assign"},
               TeamsCalm
        PROVE RosterInv'
    <2>1. /\ conn'[c].st = st /\ conn'[c].op = conn[c].op
          /\ \A d \in Conn \ {c} : conn'[d] = conn[d]
      BY <1>5, <1>t, Becoming
    <2>2. ~Joining(c)'
      BY <2>1, <1>5 DEF Joining
    <2> QED BY <2>1, <2>2, <1>5, RosterCalm
  <1>6. ASSUME NEW c \in Conn, Judges(c) PROVE RosterInv'
    <2>1. /\ UNCHANGED <<team, doors, imported>> /\ conn[c].st = "sent"
          /\ \E st \in {"checked", "error"} : Becomes(c, st)
      BY <1>6 DEF Judges, CheckCreate, CheckAssign, CheckRegister, CheckEnter, CheckDelete, Sent, Check, rows
    <2>2. PICK st \in {"checked", "error"} : Becomes(c, st)
      BY <2>1
    <2>3. CASE st = "checked" /\ conn[c].op \in {"join", "assign"}
      <3>1. CheckAssign(c)
        BY <1>6, <2>3 DEF Judges, CheckCreate, CheckRegister, CheckEnter, CheckDelete, Sent
      <3>2. conn[c].op = "assign" /\ conn[c].team \in Team
        BY <3>1, <1>t DEF CheckAssign, Sent, Shaped
      <3>3. conn'[c].st = st
        BY <2>2, <1>t, Becoming DEF Stage
      <3>4. HasRoom(conn[c].team, conn[c].who)
        <4>1. SUFFICES ASSUME ~HasRoom(conn[c].team, conn[c].who) PROVE FALSE
          OBVIOUS
        <4>2. Becomes(c, "error")
          BY <3>1, <4>1 DEF CheckAssign, Check
        <4>3. conn'[c].st = "error"
          BY <4>2, <1>t, Becoming DEF Stage
        <4> QED BY <3>3, <4>3, <2>3
      <3> QED BY <2>1, <2>2, <2>3, <3>2, <3>4, RosterEnters DEF HasRoom
    <2>4. CASE ~(st = "checked" /\ conn[c].op \in {"join", "assign"})
      BY <2>1, <2>2, <2>4, <1>5, <1>r DEF Joining, Stage
    <2> QED BY <2>3, <2>4
  <1>7. ASSUME NEW c \in Conn, UseInvite(c) PROVE RosterInv'
    <2> DEFINE i == conn[c].invite
               passes == i \notin locks /\ Usable(i) /\ HasRoom(invite[i].team, conn[c].who)
    <2>1. /\ UNCHANGED <<team, doors, imported>> /\ conn[c].st = "sent" /\ conn[c].op = "join"
          /\ Becomes(c, IF passes THEN "checked" ELSE "error")
      BY <1>7 DEF UseInvite, Sent
    <2>2. CASE passes
      <3>1. invite[i].active /\ HasRoom(invite[i].team, conn[c].who)
        BY <2>2 DEF Usable
      <3>2. Invited(conn[c])
        BY DEF TypeInv, ConnTyped
      <3>3. conn[c].team = invite[i].team
        BY <3>1, <3>2, <2>1 DEF Invited
      <3> QED BY <2>1, <2>2, <3>1, <3>3, RosterEnters DEF HasRoom
    <2>3. CASE ~passes
      BY <2>1, <2>3, <1>5, <1>r DEF Joining, Stage
    <2> QED BY <2>2, <2>3
  <1>8. ASSUME NEW c \in Conn, InsertTeam(c) PROVE RosterInv'
    BY <1>8, RosterFounded
  <1>9. ASSUME NEW c \in Conn, InsertMember(c) PROVE RosterInv'
    BY <1>9, RosterInserts
  <1>10. ASSUME NEW c \in Conn, \/ CountUse(c) \/ InsertEntry(c) \/ ServeInvite(c) \/ ServeDeactivate(c)
         PROVE RosterInv'
    <2>1. /\ UNCHANGED <<team, doors, imported>> /\ ~Joining(c)
          /\ \E st \in {"ok", "error"} : Becomes(c, st)
      BY <1>10 DEF CountUse, InsertEntry, ServeInvite, ServeDeactivate, Joining, Checked, Sent
    <2> QED BY <2>1, <1>5, <1>r DEF Stage
  <1>11. ASSUME NEW c \in Conn, DeleteTeam(c) \/ ServeRemove(c) PROVE RosterInv'
    <2>1. /\ UNCHANGED doors /\ ~Joining(c)
          /\ \E st \in {"ok", "error"} : Becomes(c, st)
      BY <1>11 DEF DeleteTeam, ServeRemove, Joining, Checked, Sent
    <2>2. TeamsCalm
      BY <1>11, <2>1, <1>t DEF DeleteTeam, ServeRemove, Deleted, Gone, TeamsCalm, TeamRow, LetIn
    <2> QED BY <2>1, <2>2, <1>5 DEF Stage
  <1>12. ASSUME NEW c \in Conn, Answer(c) PROVE RosterInv'
    <2>1. /\ conn'[c] = Idle /\ \A d \in Conn \ {c} : conn'[d] = conn[d]
          /\ UNCHANGED <<team, doors, imported>> /\ conn[c].st \in {"ok", "error"}
      BY <1>12, <1>t DEF Answer, rows
    <2>2. ~Joining(c) /\ ~Joining(c)'
      BY <2>1, IdleTyped DEF Joining
    <2> QED BY <2>1, <2>2, <1>r, RosterCalm
  <1>13. CASE UNCHANGED vars
    BY <1>13, <1>r, <1>k DEF vars, rows
  <1>14. CASE Cases
    BY <1>14, <1>1, <1>2, <1>3, <1>4, <1>6, <1>7, <1>8, <1>9, <1>10, <1>11, <1>12, Zenon DEF Cases, Uncounted
  <1> QED BY <1>13, <1>14, StepCases

\* Leaving aside whom an organisers' file put into it (import_handler.go), a roster
\* grows past its limit by fewer members than the invites and organisers' pages that
\* let somebody in (team_invites.go, team_members.go: count, then insert).
THEOREM RosterWithinDoors == Spec => []RosterOverrun
  <1>1. Init => RosterInv
    <2> SUFFICES ASSUME Init, NEW t \in Team PROVE RosterAt(t)
      BY DEF RosterInv
    <2>1. Past(t) = {}
      BY IdleTyped DEF Init, Past, Joining
    <2>2. LetIn(t) = {} \/ LetIn(t) = {Founder[t]}
      BY DEF Init, LetIn
    <2>3. Cardinality(LetIn(t)) = 0 \/ Cardinality(LetIn(t)) = 1
      BY <2>2, FS_EmptySet, FS_Singleton
    <2>4. Cardinality(LetIn(t)) <= Limit
      BY <2>3, StartAssumption
    <2> QED BY <2>1, <2>4 DEF RosterAt, RosterOf
  <1>2. TypeInv /\ Sized /\ Sized' /\ RosterInv /\ [Next]_vars => RosterInv'
    BY RosterStep
  <1>3. RosterInv => RosterOverrun
    BY DEF RosterInv, RosterAt, RosterOf, RosterOverrun
  <1>4. Init => OneAssign
    BY IdleTyped DEF Init, OneAssign
  <1>5. TypeInv /\ OneAssign /\ [Next]_vars => OneAssign'
    BY OneAssignStep
  <1>6. TypeInv /\ OneUse /\ OneAssign => Sized
    BY AlwaysSized
  <1> QED BY <1>1, <1>2, <1>3, <1>4, <1>5, <1>6, UsesApart, AlwaysTyped, PTL DEF Spec

=============================================================================
