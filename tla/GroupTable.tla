---------------------------- MODULE GroupTable -----------------------------
(***************************************************************************)
(* The arithmetic of one group: the schedule of a round robin, the pairs   *)
(* of a Swiss round, and the table that recalculateStandings makes of the  *)
(* matches.  Teams are numbers in the order of their ids, the last         *)
(* criterion of the table.  Matches are a sequence in order of creation.   *)
(***************************************************************************)
EXTENDS Integers, FiniteSets, FiniteSetsExt, Sequences, SequencesExt, Functions

CONSTANTS Team, Nobody

ASSUME TeamAssumption == Team \subseteq Nat /\ IsFiniteSet(Team) /\ Nobody \notin Team

Fixture(round, a, b) ==
    [round |-> round, a |-> a, b |-> b, sa |-> 0, sb |-> 0, status |-> "pending"]

\* A match against nobody, won when it is made.
Bye(round, t) == [Fixture(round, t, Nobody) EXCEPT !.sa = 1, !.status = "completed"]

-----------------------------------------------------------------------------
(* group_match_generation.go *)

\* The rounds of one leg, and the games of a round, the one with the bye included.
Rounds(n) == n + (n % 2) - 1

Half(n) == (n + (n % 2)) \div 2

\* Mutant: nobody rotates.
SeatFixed(n, round, i) == i

\* The circle method: the first team stays, the others move on by one place
\* in each round.  A place above n is the bye of an odd field.
Seat(n, round, i) ==
    IF i = 1 THEN 1 ELSE ((i - 1 - round) % Rounds(n)) + 2

\* The places that meet in a round, the home side first; home and away
\* alternate with the rounds, and the other way round in the second leg.
Meeting(n, leg, round, i) ==
    LET here  == Seat(n, round, i)
        there == Seat(n, round, n + (n % 2) + 1 - i)
    IN  IF (round + leg) % 2 = 0 THEN <<here, there>> ELSE <<there, here>>

\* A group of two legs or more plays two.
LegsPlayed(legs) == IF legs >= 2 THEN 2 ELSE 1

\* The games without the bye: leg, round and place.
Games(n, legs) ==
    {g \in (1 .. LegsPlayed(legs)) \X (1 .. Rounds(n)) \X (1 .. Half(n)) :
        \A e \in {1, 2} : Meeting(n, g[1], g[2], g[3])[e] <= n}

\* The members of D in the order of their numbers.
InOrder(D, number) ==
    [k \in 1 .. Cardinality(D) |->
        CHOOSE x \in D : Cardinality({y \in D : number[y] <= number[x]}) = k]

\* GenerateMatches
Schedule(teams, legs) ==
    LET n       == Len(teams)
        number  == [g \in Games(n, legs) |-> (g[1] * Rounds(n) + g[2]) * Half(n) + g[3]]
        games   == InOrder(Games(n, legs), number)
        Made(g) == LET meets == Meeting(n, g[1], g[2], g[3])
                   IN  Fixture((g[1] - 1) * Rounds(n) + g[2], teams[meets[1]], teams[meets[2]])
    IN  [k \in DOMAIN games |-> Made(games[k])]

-----------------------------------------------------------------------------
(* swiss_tournament_service.go *)

Pairs(ms) == {{ms[i].a, ms[i].b} : i \in {j \in DOMAIN ms : ms[j].b # Nobody}}

\* Mutant: a team may be paired although it has met everybody below, with the
\* last of them.
SwissPairLast(order, met) ==
    [i \in 1 .. Len(order) \div 2 |-> <<order[i], order[Len(order) + 1 - i]>>]

\* The opponent of the first in rest: the next one it has not met, or the next
\* one if it has met them all.
Opponent(rest, met) ==
    LET new == {j \in 2 .. Len(rest) : {rest[1], rest[j]} \notin met}
    IN  IF new = {} THEN 2 ELSE Min(new)

\* Who is left when the first has been paired with the j-th.
Without(rest, j) == [i \in 1 .. Len(rest) - 2 |-> rest[IF i < j - 1 THEN i + 1 ELSE i + 2]]

\* Who is left after each pair.
Unpaired(order, met) ==
    LET left[k \in 0 .. Len(order) \div 2] ==
          IF k = 0 THEN order ELSE Without(left[k - 1], Opponent(left[k - 1], met))
    IN  left

\* swissPair
SwissPair(order, met) ==
    LET left == Unpaired(order, met)
    IN  [k \in 1 .. Len(order) \div 2 |-> <<left[k - 1][1], left[k - 1][Opponent(left[k - 1], met)]>>]

\* The matches of a round: the pairs, and a bye for the team left over.
SwissRound(round, order, met) ==
    LET pairs == SwissPair(order, met)
        alone == {i \in DOMAIN order : \A k \in DOMAIN pairs : order[i] \notin {pairs[k][1], pairs[k][2]}}
    IN  [k \in DOMAIN pairs |-> Fixture(round, pairs[k][1], pairs[k][2])]
        \o [i \in 1 .. Cardinality(alone) |-> Bye(round, order[InOrder(alone, [x \in alone |-> x])[i]])]

-----------------------------------------------------------------------------
(* group_standings_service.go *)

Completed(ms) == {i \in DOMAIN ms : ms[i].status = "completed"}

GoalsFor(m, t) == IF t = m.a THEN m.sa ELSE m.sb

GoalsAgainst(m, t) == IF m.b = Nobody THEN 0 ELSE IF t = m.a THEN m.sb ELSE m.sa

Wins(m, t) == m.b = Nobody \/ GoalsFor(m, t) > GoalsAgainst(m, t)

Draws(m, t) == m.b # Nobody /\ GoalsFor(m, t) = GoalsAgainst(m, t)

\* What the matches with the numbers D say of a team.
Tally(ms, D, t) ==
    LET own   == {i \in D : t \in {ms[i].a, ms[i].b}}
        won   == {i \in own : Wins(ms[i], t)}
        drawn == {i \in own : Draws(ms[i], t)}
    IN  [played  |-> Cardinality(own),
         wins    |-> Cardinality(won),
         draws   |-> Cardinality(drawn),
         losses  |-> Cardinality(own \ (won \union drawn)),
         for     |-> MapThenSumSet(LAMBDA i : GoalsFor(ms[i], t), own),
         against |-> MapThenSumSet(LAMBDA i : GoalsAgainst(ms[i], t), own),
         points  |-> 3 * Cardinality(won) + Cardinality(drawn)]

Record(ms, t) == Tally(ms, Completed(ms), t)

Above(x, y) == \E i \in DOMAIN x : x[i] > y[i] /\ \A j \in 1 .. i-1 : x[j] = y[j]

\* The rows that recalculateStandings makes.  Points less penalties come first,
\* then goal difference and goals; resolveTiedGroup takes the same in the
\* matches that teams tied on those three have played among themselves, then
\* wins, then the id.
Rows(ms, penalty) ==
    LET teams == DOMAIN penalty
        records ==
          {LET r == Record(ms, t)
           IN  [team    |-> t,
                wins    |-> r.wins,
                losses  |-> r.losses,
                points  |-> r.points - penalty[t],
                primary |-> <<r.points - penalty[t], r.for - r.against, r.for>>] : t \in teams}
        Tied(x) == {y.team : y \in {z \in records : z.primary = x.primary}}
        Mini(x) == Tally(ms, {i \in Completed(ms) : {ms[i].a, ms[i].b} \subseteq Tied(x)}, x.team)
        keys ==
          {LET m == Mini(x)
           IN  [of |-> x, key |-> x.primary \o <<m.points, m.for - m.against, m.for,
                                                x.wins, -x.team>>] : x \in records}
        RowOf(k) == [wins    |-> k.of.wins,
                     losses  |-> k.of.losses,
                     points  |-> k.of.points,
                     penalty |-> penalty[k.of.team],
                     rank    |-> 1 + Cardinality({l \in keys : Above(l.key, k.key)})]
    IN  [t \in teams |-> RowOf(CHOOSE k \in keys : k.of.team = t)]

\* A row of zeros that keeps its penalty, and so after a reset.
ZeroRow(p) == [wins |-> 0, losses |-> 0, points |-> 0, penalty |-> p, rank |-> 0]

\* The rows of D as FindStandingsByGroup gives them, by rank, stably sorted by
\* points; rows of equal rank come in any order, here that of tie.
Listings(D, table, tie) ==
    LET Ahead(t, u) == Above(<<table[t].points, -table[t].rank, -tie[t]>>,
                             <<table[u].points, -table[u].rank, -tie[u]>>)
    IN  {order \in Bijection(1 .. Cardinality(D), D) :
            \A i, j \in DOMAIN order : i < j => ~Ahead(order[j], order[i])}
=============================================================================
