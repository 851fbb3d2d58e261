---------------------------- MODULE BracketLinks ----------------------------
(***************************************************************************)
(* How the matches of a generated bracket hang together: the links along   *)
(* which a decided match sends its winner and its loser, the rounds, and   *)
(* the rows that GenerateBracket leaves.  The shapes at the end are what   *)
(* play relies on; BracketSetup checks them on generated brackets, and the *)
(* theorems on play assume them.                                           *)
(***************************************************************************)
EXTENDS MatchRow, Naturals, FiniteSets

CONSTANTS
    Match,            \* ids of bracket_matches, the grand-final reset included
    Format,           \* tournaments.format
    NextMatch,        \* next_match_id
    LoserNextMatch,   \* loser_next_match_id
    Position,         \* bracket_position
    Round,            \* round
    Generated         \* the rows GenerateBracket leaves

Over(row) == row.status \in {"completed", "bye"}

Playable(row) == row.status \in {"pending", "scheduled", "live"}

\* A link sends the winner or the loser of a match on.
Link == Match \X {"winner", "loser"}

To(e) == IF e[2] = "winner" THEN NextMatch[e[1]] ELSE LoserNextMatch[e[1]]

\* The links into x that have still to send a team.
Owed(rows) == {e \in Link : ~Over(rows[e[1]])}

Into(links, x) == {e \in links : To(e) = x}

-----------------------------------------------------------------------------
(* The slots of every match are accounted for.  owed is the set of links   *)
(* that have still to send a team.                                         *)

\* There is a free slot for every team that is still to come.
RoomIn(x, rows, owed) ==
    /\ Into(owed, x) # {} => ~Full(rows[x])
    /\ (\E d, e \in Into(owed, x) : d # e) => Seated(rows[x]) = {}

\* A match that can be played has its teams or gets them.  Only where losers
\* alone are still to come may one team be too few: there the last to come
\* passes on.
FedIn(x, rows, owed) ==
    Playable(rows[x]) =>
        /\ Full(rows[x]) \/ Into(owed, x) # {}
        /\ \/ Seated(rows[x]) # {}
           \/ \E d, e \in Into(owed, x) : d # e
           \/ \A e \in Into(owed, x) : e[2] = "loser"

Room(rows, owed) == \A x \in Match : RoomIn(x, rows, owed)

Fed(rows, owed) == \A x \in Match : FedIn(x, rows, owed)

\* No team is sent to a match that is over.
Awaited(rows, owed) ==
    \A e \in owed : To(e) # NoMatch => Playable(rows[To(e)])

Flow(rows, owed) == Room(rows, owed) /\ Fed(rows, owed) /\ Awaited(rows, owed)

-----------------------------------------------------------------------------
(* Shapes *)

\* Links lead to later rounds, at most two to one match.
LinksForward ==
    /\ Round \in [Match -> Nat]
    /\ \A e \in Link : To(e) # NoMatch => To(e) \in Match /\ Round[e[1]] < Round[To(e)]
    /\ \A x \in Match : \A c, d, e \in Into(Link, x) : c = d \/ d = e \/ c = e

SingleShape ==
    /\ \A m \in Match : LoserNextMatch[m] = NoMatch /\ Generated[m].status # "absent"
    /\ \A m, x \in Match : NextMatch[m] = NoMatch /\ NextMatch[x] = NoMatch => m = x

\* Where winners and losers go, by the side of the bracket.
DoubleLinks(m) ==
    CASE Position[m] = "winners" ->
            /\ NextMatch[m] \in Match
            /\ Position[NextMatch[m]] \in {"winners", "grand_final"}
            /\ LoserNextMatch[m] \in Match
            /\ Position[LoserNextMatch[m]] = "losers"
      [] Position[m] = "losers" ->
            /\ NextMatch[m] \in Match
            /\ Position[NextMatch[m]] \in {"losers", "grand_final"}
            /\ LoserNextMatch[m] = NoMatch
      [] Position[m] \in {"grand_final", "grand_final_reset"} ->
            NextMatch[m] = NoMatch /\ LoserNextMatch[m] = NoMatch
      [] OTHER -> FALSE

DoubleShape ==
    /\ \A m \in Match : DoubleLinks(m)
    /\ \A m \in Match : Generated[m].status = "absent" <=> Position[m] = "grand_final_reset"
    /\ \A m, x \in Match : 
          Position[m] = Position[x] /\ Position[m] \in {"grand_final", "grand_final_reset"} => m = x
    /\ \E m \in Match : Position[m] = "grand_final_reset"
    /\ \A m, x \in Match :
          /\ Position[m] = Position[x] /\ NextMatch[m] = NextMatch[x]
          /\ NextMatch[m] \in Match /\ Position[NextMatch[m]] = "grand_final"
          => m = x
    /\ \A m \in Match : Playable(Generated[m]) /\ Seated(Generated[m]) # {} => Position[m] = "winners"

\* Every team starts in one match.
Entrants ==
    /\ \A t \in Team : \E m \in Match : Playable(Generated[m]) /\ t \in Seated(Generated[m])
    /\ \A m, x \in Match :
          /\ Playable(Generated[m]) /\ Playable(Generated[x])
          /\ Seated(Generated[m]) \intersect Seated(Generated[x]) # {}
          => m = x

EliminationShape ==
    /\ LinksForward
    /\ Format = "single_elimination" => SingleShape
    /\ Format = "double_elimination" => DoubleShape
    /\ Entrants
    /\ Flow(Generated, Owed(Generated))

\* Everybody's matches stand from the start and lead nowhere.
RoundRobinShape ==
    \A m \in Match :
        /\ Playable(Generated[m])
        /\ NextMatch[m] = NoMatch /\ LoserNextMatch[m] = NoMatch

\* What generation promises to play, in each format.
BracketFits == IF Format = "round_robin" THEN RoundRobinShape ELSE EliminationShape
=============================================================================
