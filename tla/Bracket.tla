------------------------------ MODULE Bracket ------------------------------
(***************************************************************************)
(* The life of one generated bracket: what BracketService, the match       *)
(* scheduler and the match reset do to the rows of bracket_matches, to the *)
(* standings and to the tournament's champion.  One action is one whole    *)
(* request (or scheduler tick), so this module shows what the handlers     *)
(* promise when requests do not overlap.                                   *)
(*                                                                         *)
(* The bracket itself (its links and its rows after GenerateBracket) is a  *)
(* parameter; BracketGen computes it for TLC, and the proofs hold for      *)
(* every bracket.                                                          *)
(***************************************************************************)
EXTENDS BracketLinks

CONSTANTS
    Order,            \* the place in ListByTournament: round, then number
    Requests,         \* what the organisers do besides starting and completing
    MaxWins           \* bound on the wins counted for one team

ASSUME BracketShape ==
    /\ IsFiniteSet(Match)
    /\ NoMatch \notin Match
    /\ NextMatch \in [Match -> Match \union {NoMatch}]
    /\ LoserNextMatch \in [Match -> Match \union {NoMatch}]
    /\ Order \in [Match -> Nat]
    /\ \A m, x \in Match : Order[m] = Order[x] => m = x
    /\ \A x \in Match : \E a, b \in Match : {m \in Match : NextMatch[m] = x} \subseteq {a, b}

\* Generation decides nothing but byes and seats nobody against himself.
ASSUME GeneratedShape ==
    /\ Generated \in [Match -> Row]
    /\ \A m \in Match :
          /\ Generated[m].status \in {"absent", "pending", "bye"}
          /\ Generated[m].loser = Nobody
          /\ Generated[m].status # "bye" => Generated[m].winner = Nobody
          /\ Full(Generated[m]) => Generated[m].teamA # Generated[m].teamB

ASSUME FormatKnown ==
    Format \in {"single_elimination", "double_elimination", "round_robin"}

\* score:    UpdateMatchScore        schedule: ScheduleMatch, ScheduleRound
\* unready:  schedule or start a match whose teams are not both known yet
\* force:    PUT status "completed", which names no winner
\* swap:     SwapBracketTeams        reseat:   the same, before the first result
\* reset:    ResetBracketMatchSubmissions      restart:  ResetResults
ASSUME RequestsKnown ==
    Requests \subseteq {"score", "schedule", "unready", "force",
                        "swap", "reseat", "reset", "restart"}

ASSUME MaxWinsNat == MaxWins \in Nat

VARIABLES matches, standings, champion

vars == <<matches, standings, champion>>

\* The columns of standings that bracket play writes; row is FALSE until
\* IncrementBracketStats inserts the team.
Standing == [row : BOOLEAN, wins : Nat, losses : Nat, eliminated : BOOLEAN]

NoStanding == [row |-> FALSE, wins |-> 0, losses |-> 0, eliminated |-> FALSE]

TypeOK ==
    /\ matches \in [Match -> Row]
    /\ standings \in [Team -> Standing]
    /\ champion \in Slot

Init ==
    /\ matches = Generated
    /\ standings = [t \in Team |-> NoStanding]
    /\ champion = Nobody

-----------------------------------------------------------------------------
(* Status, score and schedule *)

Ready(m) == "unready" \in Requests \/ Full(matches[m])

\* Mutant: a completed match may be started again.
TransitionsReopen ==
    {<<"pending", "scheduled">>, <<"pending", "live">>, <<"scheduled", "live">>,
     <<"live", "completed">>, <<"completed", "live">>}

\* isValidTransition
Transitions == {<<"pending", "scheduled">>, <<"pending", "live">>,
                <<"scheduled", "live">>, <<"live", "completed">>}

UpdateMatchStatus(m, to) ==
    /\ <<matches[m].status, to>> \in Transitions
    /\ to = "completed" => "force" \in Requests
    /\ to = "scheduled" => "schedule" \in Requests
    /\ Ready(m)
    /\ matches' = [matches EXCEPT ![m].status = to]
    /\ UNCHANGED <<standings, champion>>

UpdateMatchScore(m, lead) ==
    /\ "score" \in Requests
    /\ matches[m].status = "live"
    /\ matches' = [matches EXCEPT ![m].lead = lead]
    /\ UNCHANGED <<standings, champion>>

Unstarted == {m \in Match : matches[m].status \in {"pending", "scheduled"}}

ScheduleMatch(m) ==
    /\ "schedule" \in Requests
    /\ m \in Unstarted
    /\ Ready(m)
    /\ matches' = [matches EXCEPT ![m].status = "scheduled"]
    /\ UNCHANGED <<standings, champion>>

ScheduleRound(r) ==
    LET due == {m \in Unstarted : Round[m] = r}
    IN  /\ "schedule" \in Requests
        /\ \A m \in due : Ready(m)
        /\ matches' = [m \in Match |->
                         IF m \in due THEN [matches[m] EXCEPT !.status = "scheduled"]
                                      ELSE matches[m]]
        /\ UNCHANGED <<standings, champion>>

Scheduled == {m \in Match : matches[m].status = "scheduled"}

\* MatchScheduler.tick: due are the scheduled matches whose time has come.
SchedulerTick(due) ==
    /\ due \subseteq Scheduled
    /\ matches' = [m \in Match |->
                     IF m \in due THEN [matches[m] EXCEPT !.status = "live"]
                                  ELSE matches[m]]
    /\ UNCHANGED <<standings, champion>>

-----------------------------------------------------------------------------
(* Advancement.  rows is the table as the statement finds it. *)

\* Mutant: the winner is not advanced.
AdvanceNobody(rows, m, team) == rows

AdvanceWinner(rows, m, team) ==
    IF NextMatch[m] = NoMatch THEN rows
    ELSE [rows EXCEPT ![NextMatch[m]] = Seat(@, team)]

\* Mutant: a losers match always waits for its second team.
AwaitsAlways(rows, x, m) == TRUE

\* A match other than m that is still to be played and sends a team to x.
AwaitsFeeder(rows, x, m) ==
    \E f \in Match :
        /\ rows[f].status \notin {"absent", "completed", "bye"}
        /\ \/ Position[f] = "losers" /\ NextMatch[f] = x
           \/ LoserNextMatch[f] = x /\ f # m

\* A losers-bracket match that nobody else will reach is won by its one team.
PassAlone(rows, x) ==
    AdvanceWinner([rows EXCEPT ![x].status = "bye",
                               ![x].winner = SoleTeam(rows[x])],
                  x, SoleTeam(rows[x]))

AdvanceToLosers(rows, m, team) ==
    LET x      == LoserNextMatch[m]
        seated == [rows EXCEPT ![x] = Seat(@, team)]
        alone  == /\ team \notin Seated(rows[x])
                  /\ seated[x].status = "pending"
                  /\ Single(seated[x])
                  /\ ~AwaitsFeeder(seated, x, m)
    IN  IF x = NoMatch THEN rows
        ELSE IF alone THEN PassAlone(seated, x)
        ELSE seated

\* Mutant: the first loss in the grand final is final too.
GrandFinalNeverReset(m, loser) == FALSE

\* The winners-bracket finalist's first loss in the grand final is not final.
GrandFinalReset(m, loser) ==
    /\ Format = "double_elimination"
    /\ Position[m] = "grand_final"
    /\ standings[loser].row
    /\ standings[loser].losses = 0

CreateGrandFinalReset(rows, winner, loser) ==
    [m \in Match |->
        IF Position[m] = "grand_final_reset" /\ rows[m].status = "absent"
        THEN [EmptyRow EXCEPT !.teamA = winner, !.teamB = loser]
        ELSE rows[m]]

-----------------------------------------------------------------------------
(* CompleteMatch *)

\* Mutant: the match stays live.
DecidedStaysLive(row, winner) ==
    [row EXCEPT !.winner = winner, !.loser = Opponent(row, winner)]

\* UpdateResult: NULL scores become 0-0.
Decided(row, winner) ==
    [row EXCEPT !.winner = winner,
                !.loser  = Opponent(row, winner),
                !.status = "completed",
                !.lead   = IF row.lead = "unset" THEN "level" ELSE row.lead]

\* The leader of the score may not lose.
ScoreAllows(row, winner) ==
    /\ winner = row.teamA => row.lead # "B"
    /\ winner = row.teamB => row.lead # "A"

\* Mutant: the loser goes on and the winner drops to the losers bracket.
RowsSwapped(m, winner) ==
    LET loser  == Opponent(matches[m], winner)
        result == [matches EXCEPT ![m] = Decided(@, winner)]
    IN  AdvanceToLosers(AdvanceWinner(result, m, loser), m, winner)

RowsAfter(m, winner) ==
    LET loser  == Opponent(matches[m], winner)
        result == [matches EXCEPT ![m] = Decided(@, winner)]
        moved  == AdvanceToLosers(AdvanceWinner(result, m, winner), m, loser)
    IN  IF GrandFinalReset(m, loser)
        THEN CreateGrandFinalReset(moved, winner, loser)
        ELSE moved

\* Mutant: the last loss is not counted.
LossUncounted(s, out) ==
    [row |-> TRUE, wins |-> s.wins, losses |-> IF out THEN s.losses ELSE s.losses + 1,
     eliminated |-> s.eliminated \/ out]

\* IncrementBracketStats and, after a team's last match, UpdateElimination.
WithLoss(s, out) ==
    [row |-> TRUE, wins |-> s.wins, losses |-> s.losses + 1, eliminated |-> s.eliminated \/ out]

WithWin(s) == [s EXCEPT !.row = TRUE, !.wins = s.wins + 1]

StandingsAfter(m, winner) ==
    LET loser == Opponent(matches[m], winner)
        out   == LoserNextMatch[m] = NoMatch /\ ~GrandFinalReset(m, loser)
        lost  == [standings EXCEPT ![loser] = WithLoss(standings[loser], out)]
    IN  [lost EXCEPT ![winner] = WithWin(lost[winner])]

\* The teams UpdateRankPositions may rank first: most wins, then fewest
\* losses; the points columns it sorts on before are 0 in bracket play.
FirstRanked(table) ==
    {t \in Team :
        /\ table[t].row
        /\ \A u \in Team :
              table[u].row =>
                \/ table[t].wins > table[u].wins
                \/ table[t].wins = table[u].wins /\ table[t].losses <= table[u].losses}

\* Mutant: every winner is crowned.
CrownedEarly(m, winner, rows, table) == {winner}

Crowned(m, winner, rows, table) ==
    CASE Format # "round_robin" ->
            IF /\ NextMatch[m] = NoMatch
               /\ LoserNextMatch[m] = NoMatch
               /\ ~GrandFinalReset(m, Opponent(matches[m], winner))
            THEN {winner} ELSE {champion}
      [] OTHER ->
            IF \A f \in Match : rows[f].status \in {"completed", "absent"}
            THEN FirstRanked(table) ELSE {champion}

CompleteMatch(m, winner) ==
    /\ matches[m].status = "live"
    /\ Full(matches[m])
    /\ winner \in Seated(matches[m])
    /\ ScoreAllows(matches[m], winner)
    /\ standings[winner].wins < MaxWins
    /\ matches' = RowsAfter(m, winner)
    /\ standings' = StandingsAfter(m, winner)
    /\ champion' \in Crowned(m, winner, RowsAfter(m, winner), StandingsAfter(m, winner))

-----------------------------------------------------------------------------
(* Corrections by the organisers *)

Latest(ms) == CHOOSE m \in ms : \A x \in ms : Order[m] >= Order[x]

MayTrade == \/ "swap" \in Requests
            \/ "reseat" \in Requests /\ \A t \in Team : ~standings[t].row

\* The unstarted matches that seat a team; the last one listed is its place.
SwapPlaces(team) == {m \in Unstarted : team \in Seated(matches[m])}

Replace(row, old, new) ==
    IF row.teamA = old THEN [row EXCEPT !.teamA = new] ELSE [row EXCEPT !.teamB = new]

\* Mutant: one team takes the other's place and nobody takes its own.
SwapOneSided(t, u) ==
    LET mt == Latest(SwapPlaces(t))
    IN  /\ MayTrade
        /\ t # u
        /\ SwapPlaces(t) # {} /\ SwapPlaces(u) # {}
        /\ matches' = [matches EXCEPT ![mt] = Replace(@, t, u)]
        /\ UNCHANGED <<standings, champion>>

SwapBracketTeams(t, u) ==
    LET mt == Latest(SwapPlaces(t))
        mu == Latest(SwapPlaces(u))
    IN  /\ MayTrade
        /\ t # u
        /\ SwapPlaces(t) # {} /\ SwapPlaces(u) # {}
        /\ matches' = IF mt = mu
                      THEN [matches EXCEPT ![mt].teamA = matches[mt].teamB,
                                           ![mt].teamB = matches[mt].teamA]
                      ELSE [matches EXCEPT ![mt] = Replace(@, t, u),
                                           ![mu] = Replace(@, u, t)]
        /\ UNCHANGED <<standings, champion>>

\* ResetBracketMatchSubmissions: the result is wiped and the two teams are
\* taken out of the matches it sent them to; standings, elimination and
\* champion stay.
ResetMatch(m) ==
    LET row   == matches[m]
        live  == [row EXCEPT !.lead = "level", !.winner = Nobody, !.loser = Nobody,
                             !.status = IF @ = "completed" THEN "live" ELSE @]
        wiped == [matches EXCEPT ![m] = live]
        back  == IF NextMatch[m] = NoMatch \/ row.winner = Nobody THEN wiped
                 ELSE [wiped EXCEPT ![NextMatch[m]] = Unseat(@, row.winner)]
    IN  /\ "reset" \in Requests
        /\ row.status # "absent"
        /\ matches' = IF LoserNextMatch[m] = NoMatch \/ row.loser = Nobody THEN back
                      ELSE [back EXCEPT ![LoserNextMatch[m]] = Unseat(@, row.loser)]
        /\ UNCHANGED <<standings, champion>>

\* ResetResultsByTournament, steps 3 and 4, then the deletion of the
\* grand-final reset.
Cleared(m) ==
    LET row == matches[m]
    IN  CASE Position[m] = "grand_final_reset" -> AbsentRow
          [] row.status = "bye" /\ Position[m] # "grand_final_reset" -> row
          [] /\ row.status # "bye"
             /\ Position[m] # "grand_final_reset"
             /\ Round[m] > 1 \/ Position[m] \in {"losers", "grand_final"} -> EmptyRow
          [] row.status # "bye" /\ Round[m] = 1 /\ Position[m] = "winners" ->
                [EmptyRow EXCEPT !.teamA = row.teamA, !.teamB = row.teamB,
                                 !.status = IF Full(row) THEN "scheduled" ELSE "pending"]
          [] OTHER -> row

\* The byes whose winner goes to x; there are at most two.
ByesInto(rows, x) ==
    {m \in Match : /\ rows[m].status = "bye"
                   /\ rows[m].winner # Nobody
                   /\ NextMatch[m] = x}

\* One or two matches in listing order (one match stands twice).
InOrder(ms) == CHOOSE p \in ms \X ms : ms = {p[1], p[2]} /\ Order[p[1]] <= Order[p[2]]

\* Byes are advanced again, in listing order.
Readvanced(rows, x) ==
    LET byes == ByesInto(rows, x)
        p    == InOrder(byes)
    IN  IF byes = {} THEN rows[x]
        ELSE Seat(Seat(rows[x], rows[p[1]].winner), rows[p[2]].winner)

Zeroed(s) == [row |-> s.row, wins |-> 0, losses |-> 0, eliminated |-> FALSE]

ResetResults ==
    LET rows == [m \in Match |-> Cleared(m)]
    IN  /\ "restart" \in Requests
        /\ matches' = [x \in Match |-> Readvanced(rows, x)]
        /\ standings' = [t \in Team |-> Zeroed(standings[t])]
        /\ UNCHANGED champion

-----------------------------------------------------------------------------

Play(m) ==
    \/ \E to \in Status : UpdateMatchStatus(m, to)
    \/ \E lead \in Lead \ {"unset"} : UpdateMatchScore(m, lead)
    \/ ScheduleMatch(m)
    \/ \E winner \in Team : CompleteMatch(m, winner)
    \/ ResetMatch(m)

Next ==
    \/ \E m \in Match : Play(m)
    \/ \E r \in {Round[m] : m \in Match} : ScheduleRound(r)
    \/ \E due \in SUBSET Scheduled : SchedulerTick(due)
    \/ \E t, u \in Team : SwapBracketTeams(t, u)
    \/ ResetResults

Spec == Init /\ [][Next]_vars

(***************************************************************************)
(* The organisers start every match that has its two teams and decide      *)
(* every match they started; nothing else is assumed of them.              *)
(***************************************************************************)
Organisers ==
    \A m \in Match :
        /\ WF_vars(UpdateMatchStatus(m, "live"))
        /\ WF_vars(\E winner \in Team : CompleteMatch(m, winner))

FairSpec == Spec /\ Organisers

-----------------------------------------------------------------------------
(* Properties *)

Elimination == Format # "round_robin"

\* Losses a team may take before it is out.
Lives == IF Format = "double_elimination" THEN 2 ELSE 1

Open(m) == Playable(matches[m])

\* Every win and every loss in the standings is a completed match of the
\* bracket, and every completed match is counted once: IncrementBracketStats
\* is called exactly once for each side of a result.
StandingsTally ==
    \A t \in Team :
        /\ standings[t].wins =
             Cardinality({m \in Match : matches[m].status = "completed" /\ matches[m].winner = t})
        /\ standings[t].losses =
             Cardinality({m \in Match : matches[m].status = "completed" /\ matches[m].loser = t})

\* is_eliminated is set at a team's last life and never before: at the first
\* loss in single elimination, at the second in double elimination, where the
\* grand final's reset rule has to spare the unbeaten finalist.
EliminationDiscipline ==
    Elimination => \A t \in Team :
        /\ standings[t].losses <= Lives
        /\ standings[t].eliminated <=> standings[t].losses = Lives

\* Advancement never seats a team in two matches that are still to be
\* decided, and an eliminated team is in none.
OneOpenMatch ==
    Elimination => \A t \in Team :
        LET seats == {m \in Match : Open(m) /\ t \in Seated(matches[m])}
        IN  /\ Cardinality(seats) <= 1
            /\ standings[t].eliminated => seats = {}

\* Teams still to play are on the side of the bracket their losses put them:
\* unbeaten in the winners bracket, beaten once in the losers bracket, one of
\* each in the grand final, both beaten once in its reset.
BracketSide ==
    Format = "double_elimination" => \A m \in Match : Open(m) =>
        LET losses == {standings[t].losses : t \in Seated(matches[m])}
        IN  CASE Position[m] = "winners"           -> losses \subseteq {0}
              [] Position[m] = "losers"            -> losses \subseteq {1}
              [] Position[m] = "grand_final"       -> Full(matches[m]) => losses = {0, 1}
              [] Position[m] = "grand_final_reset" -> losses = {1}

\* A result reaches the rest of the bracket: the winner of a completed match
\* is in its next match and the loser in its loser-next match.
ResultsPropagated ==
    \A m \in Match : matches[m].status = "completed" =>
        /\ NextMatch[m] # NoMatch => matches[m].winner \in Seated(matches[NextMatch[m]])
        /\ LoserNextMatch[m] # NoMatch => matches[m].loser \in Seated(matches[LoserNextMatch[m]])

\* CompleteMatch crowns the team that has outlived everybody: when a champion
\* is set, all other teams are out and it is not.
ChampionRightful ==
    [][(Elimination /\ champion' # champion) =>
          \A t \in Team : standings'[t].eliminated <=> t # champion']_vars

\* As long as more than one team is in, some match has both its teams and can
\* be played: byes and advancement never strand the bracket.
NotStuck ==
    Cardinality({t \in Team : ~standings[t].eliminated}) > 1 =>
        \E m \in Match : Open(m) /\ Full(matches[m])

\* A match's two slots never hold the same team: what the idempotency checks
\* of advanceWinner and advanceToLosers are for ("prevents self-match").
NoSelfMatch ==
    \A m \in Match : Full(matches[m]) => matches[m].teamA # matches[m].teamB

\* A decided match keeps its result: no request or scheduler tick but the two
\* resets reopens it or changes who won.
ResultFinal ==
    [][\A m \in Match : matches[m].status \in {"completed", "bye"} =>
          \/ /\ matches'[m].status = matches[m].status
             /\ matches'[m].winner = matches[m].winner
             /\ matches'[m].loser = matches[m].loser
          \/ \E x \in Match : ResetMatch(x)
          \/ ResetResults]_vars

\* The champion, once crowned, is never replaced.
ChampionFinal ==
    [][champion # Nobody => champion' = champion]_vars

\* If the organisers keep playing, the tournament gets its champion.
ChampionCrowned == <>(champion # Nobody)

\* A round-robin champion has played everything out and nobody has won more.
RoundRobinChampion ==
    (Format = "round_robin" /\ champion # Nobody) =>
        /\ \A m \in Match : matches[m].status = "completed"
        /\ \A t \in Team : standings[t].wins <= standings[champion].wins

\* What the comment on ResetResults promises: all results are cleared, round 1
\* keeps its teams, and the byes of the bracket are advanced again, so that
\* every match is seated and decided as it was when it was generated.
RestartRestores ==
    [][ResetResults =>
          \A m \in Match :
              /\ Seated(matches'[m]) = Seated(Generated[m])
              /\ matches'[m].winner = Generated[m].winner]_vars
=============================================================================
