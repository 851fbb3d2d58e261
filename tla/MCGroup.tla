------------------------------ MODULE MCGroup ------------------------------
(***************************************************************************)
(* Swiss systems of the sizes in Swiss and one round robin for every size  *)
(* in Leagues are played; of the others in Sizes only the calendar is      *)
(* made.                                                                   *)
(***************************************************************************)
EXTENDS GroupStage

CONSTANTS Swiss, Leagues, Sizes, SwissScores

MCTeam == 1..Max(Sizes)

MCGroups ==
    {[mode |-> "swiss", legs |-> 1, teams |-> [i \in 1..n |-> i]] : n \in Swiss}
    \union {[mode |-> "round_robin", legs |-> l, teams |-> [i \in 1..n |-> i]] : n \in Sizes, l \in 1..3}

MCTies == {[t \in Team |-> t]}

Name(g) == <<g.mode, Len(g.teams)>>

Played(g) == g.mode = "swiss" \/ (g.legs = 1 /\ Len(g.teams) \in Leagues)

HomeWins == {<<1, 0>>}

EitherWins == {<<1, 0>>, <<0, 1>>}

MCScores(g) ==
    CASE g.mode = "swiss" -> SwissScores
      [] Played(g) /\ Name(g) = <<"round_robin", 2>> -> {<<1, 0>>, <<1, 1>>}
      [] Played(g) /\ g.mode # "swiss" /\ Len(g.teams) > 2 -> HomeWins
      [] OTHER -> {}

\* The groups with penalties, resets and matches put live, and those with failures.
Meddled == {<<"round_robin", 2>>, <<"round_robin", 3>>}

Shaken == {<<"swiss", 2>>, <<"round_robin", 2>>}

MCPenalties == {<<1, 1>>}

MCMeddling(g) == IF Played(g) /\ Name(g) \in Meddled THEN 1 ELSE 0

MCMishaps(g) == IF Played(g) /\ Name(g) \in Shaken THEN 1 ELSE 0
=============================================================================
