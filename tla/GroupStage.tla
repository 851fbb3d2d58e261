---------------------------- MODULE GroupStage -----------------------------
(***************************************************************************)
(* One group of a tournament, a round robin or a Swiss system, while       *)
(* requests overlap: results, penalties and resets, each followed by a     *)
(* recalculation of the table; the rounds of a Swiss system; and the       *)
(* status of a Swiss system, which crowns the champion when it is asked    *)
(* for.  Only recalculations exclude each other, by a lock in Redis: one   *)
(* that finds another under way is given up, one that Redis does not       *)
(* answer goes on without it.  Rounds may be generated at the same time.   *)
(***************************************************************************)
EXTENDS GroupTable

CONSTANTS Request,        \* requests of organisers and players that may run at once
          Viewer,         \* requests for the status
          Groups,         \* groups tried: pairing_mode, legs, and the teams in order
          Ties,           \* orders in which rows of equal rank are read
          Scores(_),      \* results tried in each group
          Penalties,      \* penalties tried: pairs of a team and its points
          MaxRounds,      \* swiss_config.max_rounds
          WinThreshold,   \* swiss_config.win_threshold
          LossThreshold,  \* swiss_config.loss_threshold
          MaxMeddling(_), \* bound: penalties, resets and matches put live
          Faults,         \* "error": calls to the database fail; "redis": calls to
                          \* Redis fail, and the lock runs out after its 30 seconds
          MaxMishaps(_)   \* bound: how often something fails, or a round is
                          \* generated while another one is

ASSUME GroupAssumption ==
    /\ \A g \in Groups : /\ g.teams \in Seq(Team) /\ IsInjective(g.teams) /\ Len(g.teams) >= 2
                         /\ g.legs \in Nat
                         /\ Scores(g) \subseteq Nat \X Nat
                         /\ MaxMeddling(g) \in Nat /\ MaxMishaps(g) \in Nat
    /\ Penalties \subseteq Team \X Nat
    /\ Nobody \notin Request
    /\ MaxRounds \in Nat \ {0}
    /\ Faults \subseteq {"error", "redis"}

VARIABLES group,     \* tournament_groups
          matches,   \* group_matches
          table,     \* group_standings
          round,     \* swiss_config.current_round
          lock,      \* the request whose standings-recalc is in Redis
          champion,  \* tournaments.champion_team_id
          over,      \* tournaments.status is "completed"
          request,   \* what each request has read and goes on with
          meddled,   \* penalties, resets and matches put live so far
          mishaps,   \* failures and rounds generated at once so far
          dirty,     \* history: the matches or a penalty have changed since a
                     \* recalculation read them, or that recalculation failed
          exposed,   \* history: recalculations may be at work that the lock does
                     \* not keep from each other
          orderly    \* history: no two requests have been generating a round at
                     \* once, and none has stopped in the middle

rows == <<group, matches, table, round>>
tournament == <<champion, over>>
bounds == <<meddled, mishaps>>
history == <<dirty, exposed, orderly>>
vars == <<rows, lock, tournament, request, bounds, history>>

Idle == [step |-> "idle"]

At(r, step) == request[r].step = step

Goes(r, to) == request' = [request EXCEPT ![r] = to]

Teams == DOMAIN table

Init ==
    /\ group \in Groups
    /\ matches = IF group.mode = "swiss" THEN <<>>
                 ELSE Schedule(group.teams, group.legs)
    /\ table = [t \in ToSet(group.teams) |-> ZeroRow(0)]
    /\ round = 0
    /\ lock = Nobody
    /\ champion = Nobody
    /\ over = FALSE
    /\ request = [r \in Request \union Viewer |-> Idle]
    /\ meddled = 0
    /\ mishaps = 0
    /\ dirty = TRUE
    /\ exposed = FALSE
    /\ orderly = TRUE

Meddle == meddled < MaxMeddling(group) /\ meddled' = meddled + 1 /\ UNCHANGED mishaps

May(fault) == fault \in Faults

Mishap == mishaps < MaxMishaps(group) /\ mishaps' = mishaps + 1 /\ UNCHANGED meddled

-----------------------------------------------------------------------------
(* recalculateStandings *)

Recalculating == {r \in Request : request[r].step \in {"locked", "matches", "sorted"}}

\* Mutant: the lock is not asked for.
LockIgnored(r) ==
    /\ At(r, "recalculate")
    /\ lock' = r
    /\ Goes(r, [step |-> "locked", own |-> TRUE])
    /\ UNCHANGED <<rows, tournament, bounds, history>>

\* Granted; refused; or the call fails and it goes on without.
Lock(r) ==
    /\ At(r, "recalculate")
    /\ \/ /\ lock = Nobody
          /\ lock' = r
          /\ Goes(r, [step |-> "locked", own |-> TRUE])
          /\ exposed' = (exposed /\ Recalculating # {})
          /\ UNCHANGED bounds
       \/ /\ lock # Nobody
          /\ Goes(r, Idle)
          /\ UNCHANGED <<lock, exposed, bounds>>
       \/ /\ May("redis") /\ Mishap
          /\ Goes(r, [step |-> "locked", own |-> FALSE])
          /\ exposed' = TRUE
          /\ UNCHANGED lock
    /\ UNCHANGED <<rows, tournament, dirty, orderly>>

Expire ==
    /\ lock # Nobody
    /\ May("redis") /\ Mishap
    /\ lock' = Nobody
    /\ exposed' = (exposed \/ Recalculating # {})
    /\ UNCHANGED <<rows, tournament, request, dirty, orderly>>

ReadMatches(r) ==
    /\ At(r, "locked")
    /\ Goes(r, [step |-> "matches", own |-> request[r].own, matches |-> matches])
    /\ dirty' = FALSE
    /\ UNCHANGED <<rows, lock, tournament, bounds, exposed, orderly>>

Penalty == [t \in Teams |-> table[t].penalty]

ReadPenalties(r) ==
    /\ At(r, "matches")
    /\ Goes(r, [step |-> "sorted", own |-> request[r].own,
                rows |-> Rows(request[r].matches, Penalty), todo |-> Teams])
    /\ UNCHANGED <<rows, lock, tournament, bounds, history>>

\* The rows are written one by one in the order of their ranks.
UpsertStanding(r) ==
    /\ At(r, "sorted")
    /\ \E t \in request[r].todo :
          /\ \A u \in request[r].todo : request[r].rows[t].rank <= request[r].rows[u].rank
          /\ table' = [table EXCEPT ![t] = request[r].rows[t]]
          /\ Goes(r, [request[r] EXCEPT !.todo = @ \ {t}])
    /\ UNCHANGED <<group, matches, round, lock, tournament, bounds, history>>

\* The key is deleted, whoever has set it meanwhile, by one that had set it.
Released(r) == IF request[r].own THEN Nobody ELSE lock

Unlock(r) ==
    /\ At(r, "sorted") /\ request[r].todo = {}
    /\ \/ lock' = Released(r) /\ UNCHANGED bounds
       \/ May("redis") /\ Mishap /\ UNCHANGED lock
    /\ Goes(r, Idle)
    /\ UNCHANGED <<rows, tournament, history>>

\* A read fails, or a write, with some of the rows written.
RecalculationFails(r) ==
    /\ r \in Recalculating
    /\ May("error") /\ Mishap
    /\ lock' = Released(r)
    /\ dirty' = TRUE
    /\ Goes(r, Idle)
    /\ UNCHANGED <<rows, tournament, exposed, orderly>>

Recalculate(r) ==
    \/ Lock(r) \/ ReadMatches(r) \/ ReadPenalties(r) \/ UpsertStanding(r) \/ Unlock(r)
    \/ RecalculationFails(r)

-----------------------------------------------------------------------------
(* Results, from organisers and from approved submissions; resets and      *)
(* penalties                                                               *)

SubmitMatchResult(r, i, score) ==
    /\ At(r, "idle")
    /\ matches[i].status # "completed"
    /\ Goes(r, [step |-> "result", match |-> i, score |-> score])
    /\ UNCHANGED <<rows, lock, tournament, bounds, history>>

UpdateMatchScore(r) ==
    /\ At(r, "result")
    /\ matches' = [matches EXCEPT ![request[r].match] =
                      [@ EXCEPT !.sa = request[r].score[1], !.sb = request[r].score[2],
                                !.status = "completed"]]
    /\ dirty' = TRUE
    /\ Goes(r, [step |-> "recalculate"])
    /\ UNCHANGED <<group, table, round, lock, tournament, bounds, exposed, orderly>>

SetMatchLive(r, i) ==
    /\ At(r, "idle")
    /\ matches[i].status \in {"pending", "scheduled"}
    /\ Meddle
    /\ Goes(r, [step |-> "live", match |-> i])
    /\ UNCHANGED <<rows, lock, tournament, history>>

\* Whatever has happened to the match since it was read.
UpdateMatchStatus(r) ==
    /\ At(r, "live")
    /\ matches' = [matches EXCEPT ![request[r].match].status = "live"]
    /\ dirty' = TRUE
    /\ Goes(r, Idle)
    /\ UNCHANGED <<group, table, round, lock, tournament, bounds, exposed, orderly>>

SetPenaltyPoints(r, t, points) ==
    /\ At(r, "idle")
    /\ Meddle
    /\ table' = [table EXCEPT ![t].penalty = points]
    /\ dirty' = TRUE
    /\ Goes(r, [step |-> "recalculate"])
    /\ UNCHANGED <<group, matches, round, lock, tournament, exposed, orderly>>

ResetSingleGroupResults(r) ==
    /\ At(r, "idle")
    /\ Meddle
    /\ matches' = [i \in DOMAIN matches |->
                      [matches[i] EXCEPT !.sa = 0, !.sb = 0, !.status = "scheduled"]]
    /\ table' = [t \in Teams |-> ZeroRow(table[t].penalty)]
    /\ dirty' = TRUE
    /\ Goes(r, [step |-> "recalculate"])
    /\ UNCHANGED <<group, round, lock, tournament, exposed, orderly>>

\* ResetGroupMatchSubmissions: the score first, which completes the match, then
\* the status.  A write that fails is logged, and the rest is done.
Writes(new) ==
    \/ matches' = new /\ dirty' = TRUE /\ UNCHANGED bounds
    \/ May("error") /\ Mishap /\ UNCHANGED <<matches, dirty>>

ResetGroupMatch(r, i) ==
    /\ At(r, "idle")
    /\ Meddle
    /\ matches' = [matches EXCEPT ![i] = [@ EXCEPT !.sa = 0, !.sb = 0, !.status = "completed"]]
    /\ dirty' = TRUE
    /\ Goes(r, [step |-> "unscored", match |-> i])
    /\ UNCHANGED <<group, table, round, lock, tournament, exposed, orderly>>

Reschedule(r) ==
    /\ At(r, "unscored")
    /\ Writes([matches EXCEPT ![request[r].match].status = "scheduled"])
    /\ Goes(r, [step |-> "recalculate"])
    /\ UNCHANGED <<group, table, round, lock, tournament, exposed, orderly>>

-----------------------------------------------------------------------------
(* Swiss rounds *)

Undecided(tbl) == {t \in DOMAIN tbl : tbl[t].wins < WinThreshold /\ tbl[t].losses < LossThreshold}

Generating == {r \in Request : request[r].step \in {"round", "pairs"}}

GenerateSwissRound(r) ==
    /\ At(r, "idle")
    /\ group.mode = "swiss"
    /\ round < MaxRounds
    /\ \A i \in DOMAIN matches : matches[i].round = round => matches[i].status = "completed"
    /\ Goes(r, [step |-> "round", round |-> round])
    /\ IF Generating = {} THEN UNCHANGED <<orderly, bounds>>
                          ELSE orderly' = FALSE /\ Mishap
    /\ UNCHANGED <<rows, lock, tournament, dirty, exposed>>

PairTeams(r, tie) ==
    /\ At(r, "round")
    /\ \E order \in Listings(Undecided(table), table, tie) :
           IF Len(order) < 2 THEN Goes(r, Idle)
           ELSE Goes(r, [step  |-> "pairs",
                         round |-> request[r].round + 1,
                         todo  |-> SwissRound(request[r].round + 1, order, Pairs(matches)),
                         read  |-> [table |-> table, matches |-> matches,
                                    exact |-> ~dirty /\ ~exposed /\ Recalculating = {}]])
    /\ UNCHANGED <<rows, lock, tournament, bounds, history>>

CreateMatch(r) ==
    /\ At(r, "pairs") /\ request[r].todo # <<>>
    /\ matches' = Append(matches, Head(request[r].todo))
    /\ dirty' = TRUE
    /\ Goes(r, [request[r] EXCEPT !.todo = Tail(@)])
    /\ UNCHANGED <<group, table, round, lock, tournament, bounds, exposed, orderly>>

\* Mutant: the number of the round is not advanced.
RoundNotCounted(r) ==
    /\ At(r, "pairs") /\ request[r].todo = <<>>
    /\ Goes(r, [step |-> "recalculate"])
    /\ UNCHANGED <<rows, lock, tournament, bounds, history>>

UpdateSwissConfig(r) ==
    /\ At(r, "pairs") /\ request[r].todo = <<>>
    /\ round' = request[r].round
    /\ Goes(r, [step |-> "recalculate"])
    /\ UNCHANGED <<group, matches, table, lock, tournament, bounds, history>>

\* CreateMatch or UpdateSwissConfig fails: the matches that are there stay, and
\* so does the number of the round.
GenerationFails(r) ==
    /\ At(r, "pairs")
    /\ May("error") /\ Mishap
    /\ orderly' = FALSE
    /\ Goes(r, Idle)
    /\ UNCHANGED <<rows, lock, tournament, dirty, exposed>>

-----------------------------------------------------------------------------
(* GetSwissStatus *)

AllPlayed == \A i \in DOMAIN matches : matches[i].status = "completed"

\* Mutant: the last round does not end it.
StatusByTeams(v) ==
    /\ At(v, "idle")
    /\ group.mode = "swiss"
    /\ Undecided(table) = {}
    /\ Goes(v, [step |-> "complete", first |-> {t \in Teams : table[t].rank = 1}])
    /\ UNCHANGED <<rows, lock, tournament, bounds, history>>

GetSwissStatus(v) ==
    /\ At(v, "idle")
    /\ group.mode = "swiss"
    /\ Undecided(table) = {} \/ round >= MaxRounds
    /\ Goes(v, [step |-> "complete", first |-> {t \in Teams : table[t].rank = 1}])
    /\ UNCHANGED <<rows, lock, tournament, bounds, history>>

\* maybeCrownStandaloneSwissChampion
MaybeCrown(v) ==
    /\ At(v, "complete")
    /\ IF ~over /\ AllPlayed /\ request[v].first # {}
       THEN \E t \in request[v].first : Goes(v, [step |-> "crown", team |-> t])
       ELSE Goes(v, Idle)
    /\ UNCHANGED <<rows, lock, tournament, bounds, history>>

SetChampion(v) ==
    /\ At(v, "crown")
    /\ champion' = request[v].team
    /\ over' = TRUE
    /\ Goes(v, Idle)
    /\ UNCHANGED <<rows, lock, bounds, history>>

-----------------------------------------------------------------------------
Serve(r) ==
    \/ Recalculate(r)
    \/ UpdateMatchScore(r) \/ UpdateMatchStatus(r) \/ Reschedule(r)
    \/ \E tie \in Ties : PairTeams(r, tie)
    \/ CreateMatch(r) \/ UpdateSwissConfig(r) \/ GenerationFails(r)

Result(r) == \E i \in DOMAIN matches, score \in Scores(group) : SubmitMatchResult(r, i, score)

Next ==
    \/ \E r \in Request :
          \/ Serve(r)
          \/ Result(r)
          \/ GenerateSwissRound(r)
          \/ \E i \in DOMAIN matches : SetMatchLive(r, i)
          \/ \E x \in Penalties : x[1] \in Teams /\ SetPenaltyPoints(r, x[1], x[2])
          \/ ResetSingleGroupResults(r)
          \/ \E i \in DOMAIN matches : ResetGroupMatch(r, i)
    \/ Expire
    \/ \E v \in Viewer : GetSwissStatus(v) \/ MaybeCrown(v) \/ SetChampion(v)

Spec == Init /\ [][Next]_vars

\* The server answers, the organisers enter results and generate rounds, and
\* somebody looks at the page.
Fairness ==
    /\ \A r \in Request : []<>At(r, "idle")
    /\ WF_vars(\E r \in Request : Result(r))
    /\ WF_vars(\E r \in Request : GenerateSwissRound(r))
    /\ \A v \in Viewer : WF_vars(GetSwissStatus(v) \/ MaybeCrown(v) \/ SetChampion(v))

FairSpec == Spec /\ Fairness

-----------------------------------------------------------------------------
(* Properties *)

\* The table is never silently behind: unless something has changed since the
\* last recalculation read the matches, or that one failed, or one is writing,
\* or Redis has let two work at once, every row is what the matches say,
\* penalties and rank included.  (After a recalculation that was given up, dirty
\* stays.)
TableUpToDate ==
    (~dirty /\ ~exposed /\ Recalculating = {}) =>
        table = Rows(matches, Penalty)

Sides(m) == {m.a, m.b} \ {Nobody}

\* Nobody sits twice in one round, and only one team of a round has a bye.
OneSeatEach(ms) ==
    \A i, j \in DOMAIN ms : (i # j /\ ms[i].round = ms[j].round) =>
       /\ Sides(ms[i]) \intersect Sides(ms[j]) = {}
       /\ Nobody \notin {ms[i].b} \intersect {ms[j].b}

\* Every two teams meet once in each leg, at home and away.
EveryPairInEachLeg ==
    \A t, u \in Teams : t # u =>
       LET meetings == {i \in DOMAIN matches : Sides(matches[i]) = {t, u}}
       IN  /\ Cardinality(meetings) = LegsPlayed(group.legs)
           /\ group.legs >= 2 => \E i \in meetings : matches[i].a = t

\* The calendar can be played.  A round robin is complete, with as many home
\* games as away games in two legs, and in each of its rounds every team sits
\* once and one team at most has the bye, whatever else is going on.  The rounds
\* of a Swiss system are such rounds unless two requests have generated at once
\* or one has failed in the middle.
CalendarIsFair ==
    IF group.mode = "swiss" THEN orderly => OneSeatEach(matches)
    ELSE OneSeatEach(matches) /\ EveryPairInEachLeg

Before(tbl, t, u) == Above(<<tbl[t].points, -tbl[t].rank>>, <<tbl[u].points, -tbl[u].rank>>)

\* What r has written is a round of the table that it read: who is undecided
\* there plays or has the bye, and nobody else; and a team plays one it has met
\* only when it has met everybody behind it who is not paired with somebody who
\* is not behind it.  If nothing had changed since the table was written, the
\* undecided are those who have not reached a threshold in the matches.
FollowsFromTheTable(r) ==
    LET read == request[r].read
        new  == {matches[i] : i \in {j \in DOMAIN matches : matches[j].round = request[r].round}}
        Met(t, u)     == {t, u} \in Pairs(read.matches)
        Plays(t, u)   == \E m \in new : Sides(m) = {t, u}
        InFront(t, u) == Before(read.table, t, u)
    IN  /\ UNION {Sides(m) : m \in new} = Undecided(read.table)
        /\ \A m \in new : \A t \in Undecided(read.table) \ {m.a} :
              (m.b # Nobody /\ Met(m.a, m.b) /\ InFront(m.a, t)) =>
                 \/ Met(m.a, t)
                 \/ \E u \in Undecided(read.table) : Plays(u, t) /\ ~InFront(m.a, u)
        /\ read.exact =>
              Undecided(read.table) =
                 {t \in Teams : LET record == Record(read.matches, t)
                                IN  record.wins < WinThreshold /\ record.losses < LossThreshold}

\* Every round that is announced is the round of the table it was made from,
\* whatever has been entered, reset or recalculated since, unless two requests
\* have generated at once or one has failed in the middle.
RoundFromTheTable ==
    [][\A r \in Request : UpdateSwissConfig(r) /\ orderly => FollowsFromTheTable(r)]_vars

\* A Swiss system ends: it gets its champion, or a single team is left that is
\* neither through nor out, unless something has failed on the way.
SwissEnds ==
    group.mode = "swiss" => <>(over \/ Cardinality(Undecided(table)) = 1 \/ mishaps > 0)

\* "Standings auto-update after match completion" (Docs/09-feature-specs.md:187):
\* when no request is under way, they show the matches that are completed.
StandingsFollowResults ==
    ((\A r \in Request : At(r, "idle")) /\ Completed(matches) # {}) => table = Rows(matches, Penalty)

\* "BYE: if odd number of active teams, last unpaired gets BYE"
\* (swiss_tournament_service.go:149): one team of a round, and once, also when a
\* generation that failed is asked for again.
OneByeInARound ==
    \A i, j \in DOMAIN matches :
       (i # j /\ matches[i].round = matches[j].round) => Nobody \notin {matches[i].b} \intersect {matches[j].b}

\* maybeCrownStandaloneSwissChampion "crowns the rank-1 team as champion once" all
\* matches are completed (swiss_tournament_service.go:266-267): the first of the
\* table that those matches make.
ChampionIsFirst ==
    [][\A v \in Viewer : SetChampion(v) => Rows(matches, Penalty)[request[v].team].rank = 1]_vars
=============================================================================
