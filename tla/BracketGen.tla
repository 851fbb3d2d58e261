----------------------------- MODULE BracketGen -----------------------------
(***************************************************************************)
(* The generators of internal/pkg/bracket and the part of                  *)
(* BracketService.GenerateBracket that fills the generated rows: seeding   *)
(* order, links, byes.  A match id is <<position, round, number>>, which   *)
(* is unique in one bracket.  n is the padded number of entries, 2^k.      *)
(***************************************************************************)
EXTENDS MatchRow, Integers, FiniteSets, Sequences, SequencesExt

\* NULL is not the id of a match.
ASSUME NoMatchIsNoId ==
    NoMatch \notin {"single", "winners", "losers", "grand_final", "grand_final_reset", "round_robin"}
                     \X Nat \X Nat

-----------------------------------------------------------------------------
(* seeding.go *)

\* nextPowerOfTwo, as the exponent.
Exponent(n) == CHOOSE k \in 0..n : 2^k >= n /\ \A j \in 0..k-1 : 2^j < n

\* Mutant: the seeds in their own order.
SlotsInOrder(k) == [i \in 1..2^k |-> i]

\* standardPairingsIterative: each doubling puts the complement of a seed
\* next to it.
SeedSlots(k) ==
    LET slots[j \in 0..k] ==
          IF j = 0 THEN <<1>>
          ELSE [i \in 1..2^j |-> IF i % 2 = 1 THEN slots[j-1][(i + 1) \div 2]
                                 ELSE 2^j + 1 - slots[j-1][i \div 2]]
    IN  slots[k]

\* Mutant: the pairs overlap.
PairingOverlaps(k) == [i \in 1..2^(k-1) |-> <<SeedSlots(k)[i], SeedSlots(k)[i + 1]>>]

StandardSeedPairing(k) ==
    [i \in 1..2^(k-1) |-> <<SeedSlots(k)[2*i - 1], SeedSlots(k)[2*i]>>]

\* ApplySeeding: manual seeds stay as they are, the other teams get seeds of
\* 1..n that are left over, at random.
Seedings(teams, manual) ==
    LET given == teams \intersect DOMAIN manual
        left  == (1..Cardinality(teams)) \ {manual[t] : t \in given}
    IN  {[t \in teams |-> IF t \in given THEN manual[t] ELSE rest[t]] :
            rest \in Injection(teams \ given, left)}

\* A seed of 1..n that nobody has: seedMap returns nil for it, and the
\* elimination generators dereference what it returns.
SeedsHaveHole(teams, seeding) == \E s \in 1..Cardinality(teams) : \A t \in teams : seeding[t] # s

\* seedMap after PadToPowerOfTwo: the entry of every seed, a bye above n.
Entries(teams, seeding, k) ==
    [s \in 1..2^k |-> IF \E t \in teams : seeding[t] = s
                      THEN CHOOSE t \in teams : seeding[t] = s ELSE Nobody]

\* The entries sorted by seed, as the round robin takes them.
Sorted(teams, seeding) ==
    [i \in 1..Cardinality(teams) |->
        CHOOSE t \in teams : Cardinality({u \in teams : seeding[u] <= seeding[t]}) = i]

-----------------------------------------------------------------------------
(* single_elim.go and the winners bracket of double_elim.go *)

TreeMatches(position, k) ==
    UNION {{<<position, r, i>> : i \in 1..2^(k-r)} : r \in 1..k}

\* The two matches of the round before that feed match i of round r.
Pair(position, r, i) == {<<position, r, 2*i - 1>>, <<position, r, 2*i>>}

-----------------------------------------------------------------------------
(* The losers bracket: round 1 pairs the losers of winners round 1; then   *)
(* each winners round w drops into a round of its own ("major"), followed  *)
(* by a halving round while more than one match is left.                   *)

Smaller(a, b) == IF a < b THEN a ELSE b

LosersRounds(k) ==
    LET upto[w \in 1..k] ==
          IF w = 1 THEN << [size |-> 2^(k-1) \div 2, drop |-> 1] >>
          ELSE LET before == upto[w-1]
                   size   == Smaller(2^(k-w), before[Len(before)].size)
                   major  == [size |-> size, drop |-> w]
               IN  IF size > 1
                   THEN before \o << major, [size |-> size \div 2, drop |-> 0] >>
                   ELSE Append(before, major)
    IN  upto[k]

LosersMatches(k) ==
    UNION {{<<"losers", k + j, i>> : i \in 1..LosersRounds(k)[j].size} :
              j \in 1..Len(LosersRounds(k))}

GrandFinal(k) == <<"grand_final", k + Len(LosersRounds(k)) + 1, 1>>
ResetFinal(k) == <<"grand_final_reset", k + Len(LosersRounds(k)) + 2, 1>>

\* The matches whose winner goes to m.
WinnerFeeders(k, m) ==
    LET r == m[2]
        i == m[3]
        lr == LosersRounds(k)
    IN  CASE m[1] \in {"single", "winners"} ->
               IF r = 1 THEN {} ELSE Pair(m[1], r - 1, i)
          [] m[1] = "losers" ->
               IF r = k + 1 THEN {}
               ELSE IF lr[r - k].drop > 0 THEN {<<"losers", r - 1, i>>}
               ELSE Pair("losers", r - 1, i)
          [] m[1] = "grand_final" ->
               {<<"winners", k, 1>>} \union
               (IF lr[Len(lr)].size = 1 THEN {<<"losers", k + Len(lr), 1>>} ELSE {})
          [] OTHER -> {}

\* The matches whose loser goes to m.
LoserFeeders(k, m) ==
    LET lr == LosersRounds(k)
    IN  IF m[1] # "losers" THEN {}
        ELSE IF m[2] = k + 1 THEN Pair("winners", 1, m[3])
        ELSE IF lr[m[2] - k].drop > 0 THEN {<<"winners", lr[m[2] - k].drop, m[3]>>}
        ELSE {}

-----------------------------------------------------------------------------
(* round_robin.go: the circle method.  Entry 0 stays, the others rotate by *)
(* one place to the right after every round; an odd field has a bye.       *)

\* The field with its dummy.
Even(n) == IF n % 2 = 0 THEN n ELSE n + 1

\* Mutant: the circle does not turn.
GameUnrotated(n, r, i) == IF i = 0 THEN <<1, 2>> ELSE <<2 + i, Even(n) + 1 - i>>

\* The entries that meet in game i (from 0) of round r.
RoundRobinGame(n, r, i) ==
    LET len == Even(n) - 1
        Rotating(j) == 2 + ((j - (r - 1)) % len)
    IN  IF i = 0 THEN <<1, Rotating(0)>> ELSE <<Rotating(i), Rotating(len - i)>>

\* Games against the dummy are not created.
RoundRobinMatches(n) ==
    {m \in {"round_robin"} \X (1..Even(n) - 1) \X (0..Even(n) \div 2 - 1) :
        \A j \in {1, 2} : RoundRobinGame(n, m[2], m[3])[j] <= n}

-----------------------------------------------------------------------------
(* The generated bracket: its matches and links *)

MatchesOf(format, k, n) ==
    CASE format = "single_elimination" -> TreeMatches("single", k)
      [] format = "double_elimination" ->
           TreeMatches("winners", k) \union LosersMatches(k) \union {GrandFinal(k)}
      [] format = "round_robin" ->
           RoundRobinMatches(n)

Target(ms, m, Feeders(_)) ==
    IF \E x \in ms : m \in Feeders(x) THEN CHOOSE x \in ms : m \in Feeders(x) ELSE NoMatch

WinnerLinks(format, k, ms) ==
    [m \in ms |-> IF format = "round_robin" THEN NoMatch
                  ELSE Target(ms, m, LAMBDA x : WinnerFeeders(k, x))]

LoserLinks(format, k, ms) ==
    [m \in ms |-> IF format # "double_elimination" THEN NoMatch
                  ELSE Target(ms, m, LAMBDA x : LoserFeeders(k, x))]

\* ListByTournament: round, then number.
Before(m, x) == m[2] < x[2] \/ (m[2] = x[2] /\ m[3] < x[3])
ListingOf(ms) ==
    [i \in 1..Cardinality(ms) |->
        CHOOSE m \in ms : Cardinality({x \in ms : Before(x, m)}) = i - 1]

-----------------------------------------------------------------------------
(* GenerateBracket: first the rows as created, then the byes of round 1,   *)
(* then the losers matches that no played match feeds.                     *)

Created(format, k, n, ms, entries) ==
    [m \in ms |->
        IF format = "round_robin"
        THEN [EmptyRow EXCEPT !.teamA = entries[RoundRobinGame(n, m[2], m[3])[1]],
                              !.teamB = entries[RoundRobinGame(n, m[2], m[3])[2]]]
        ELSE IF m[2] = 1
        THEN [EmptyRow EXCEPT !.teamA = entries[StandardSeedPairing(k)[m[3]][1]],
                              !.teamB = entries[StandardSeedPairing(k)[m[3]][2]]]
        ELSE EmptyRow]

SeatNext(rows, links, m, team) ==
    IF links[m] = NoMatch THEN rows ELSE [rows EXCEPT ![links[m]] = Seat(@, team)]

\* A match with fewer than two teams is over without being played.
MarkBye(rows, m) ==
    [rows EXCEPT ![m].status = "bye", ![m].winner = SoleTeam(rows[m])]

AdvanceByes(rows, links) ==
    LET byes == ListingOf({m \in DOMAIN rows : m[2] = 1 /\ Single(rows[m])})
        after[i \in 0..Len(byes)] ==
          IF i = 0 THEN rows
          ELSE LET before == after[i-1]
                   m      == byes[i]
               IN  SeatNext(MarkBye(before, m), links, m, SoleTeam(before[m]))
    IN  after[Len(byes)]

RealFeeders(rows, links, loserLinks, x) ==
    Cardinality({m \in DOMAIN rows : rows[m].status # "bye" /\ loserLinks[m] = x})
    + Cardinality({m \in DOMAIN rows : m[1] = "losers" /\ links[m] = x /\ rows[m].status # "bye"})

\* acc.count is realFeederCount, acc.rows the table.
EmptyLosersMatch(acc, links, m) ==
    LET over == MarkBye(acc.rows, m)
        team == SoleTeam(acc.rows[m])
    IN  IF acc.count[m] > 0 \/ acc.rows[m].status # "pending" \/ Full(acc.rows[m]) THEN acc
        ELSE IF team # Nobody THEN [acc EXCEPT !.rows = SeatNext(over, links, m, team)]
        ELSE IF links[m] = NoMatch THEN [acc EXCEPT !.rows = over]
        ELSE [rows |-> over, count |-> [acc.count EXCEPT ![links[m]] = @ - 1]]

\* Mutant: nothing is closed.
CascadeNothing(rows, links, loserLinks) == rows

CascadeEmptyByes(rows, links, loserLinks) ==
    LET losers == ListingOf({m \in DOMAIN rows : m[1] = "losers"})
        after[i \in 0..Len(losers)] ==
          IF i = 0 THEN [rows  |-> rows,
                         count |-> [m \in DOMAIN rows |-> RealFeeders(rows, links, loserLinks, m)]]
          ELSE EmptyLosersMatch(after[i-1], links, losers[i])
    IN  after[Len(losers)].rows

GenerateBracket(format, teams, seeding) ==
    LET n     == Cardinality(teams)
        k     == Exponent(n)
        ms    == MatchesOf(format, k, n)
        links == WinnerLinks(format, k, ms)
        entries == IF format = "round_robin" THEN Sorted(teams, seeding)
                                             ELSE Entries(teams, seeding, k)
        rows  == Created(format, k, n, ms, entries)
    IN  CASE format = "round_robin"        -> rows
          [] format = "single_elimination" -> AdvanceByes(rows, links)
          [] format = "double_elimination" ->
               CascadeEmptyByes(AdvanceByes(rows, links), links, LoserLinks(format, k, ms))
=============================================================================
