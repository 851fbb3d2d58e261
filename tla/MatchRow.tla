------------------------------ MODULE MatchRow ------------------------------
(***************************************************************************)
(* A row of the table bracket_matches, as model.BracketMatch carries it    *)
(* between the repository and the bracket service, and the rule by which a *)
(* team is put into one of its two slots.  The links of a match (next,     *)
(* loser-next, round, position) never change after generation, so they are *)
(* functions of the match id in the modules that need them and not fields  *)
(* of the row.  The two scores are kept as their comparison: every test in *)
(* the bracket service is of that comparison or of NULL.                   *)
(***************************************************************************)
CONSTANTS Team,    \* the teams of one tournament
          Nobody,  \* NULL in team_a_id, team_b_id, winner_id, loser_id
          NoMatch  \* NULL in next_match_id and loser_next_match_id

ASSUME NobodyIsNoTeam == Nobody \notin Team

Slot == Team \union {Nobody}

\* "absent" is a row that does not exist (yet, or any more).
Status == {"absent", "pending", "scheduled", "live", "completed", "bye"}

Lead == {"unset", "level", "A", "B"}

Row == [teamA : Slot, teamB : Slot, winner : Slot, loser : Slot,
        status : Status, lead : Lead]

EmptyRow == [teamA |-> Nobody, teamB |-> Nobody, winner |-> Nobody,
             loser |-> Nobody, status |-> "pending", lead |-> "unset"]

AbsentRow == [EmptyRow EXCEPT !.status = "absent"]

\* The teams seated in a row.
Seated(row) == {row.teamA, row.teamB} \ {Nobody}

Full(row) == row.teamA # Nobody /\ row.teamB # Nobody

\* Exactly one slot is taken.
Single(row) == (row.teamA = Nobody) # (row.teamB = Nobody)

\* The team of a row with exactly one.
SoleTeam(row) == IF row.teamA # Nobody THEN row.teamA ELSE row.teamB

\* The other team of a full row.
Opponent(row, team) == IF team = row.teamA THEN row.teamB ELSE row.teamA

(***************************************************************************)
(* advanceWinner and advanceToLosers seat a team alike: not at all when it *)
(* is seated already, else in the first free slot, else nowhere (the row   *)
(* is written back as it was).                                             *)
(***************************************************************************)
Seat(row, team) ==
    IF team \in Seated(row) \/ Full(row) THEN row
    ELSE IF row.teamA = Nobody THEN [row EXCEPT !.teamA = team]
                               ELSE [row EXCEPT !.teamB = team]

\* ResetBracketMatchSubmissions takes a team out of the slot it was put in.
Unseat(row, team) ==
    IF row.teamA = team THEN [row EXCEPT !.teamA = Nobody]
    ELSE IF row.teamB = team THEN [row EXCEPT !.teamB = Nobody]
    ELSE row
=============================================================================
