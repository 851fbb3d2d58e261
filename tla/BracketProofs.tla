--------------------------- MODULE BracketProofs ----------------------------
(***************************************************************************)
(* Theorems about Bracket, for every bracket and every number of teams.    *)
(* The actions are built from a few functions of the table; the lemmas say *)
(* of each what it does to the type of the table, to the teams of a match  *)
(* ("apart") and to results already decided ("settled").                   *)
(***************************************************************************)
EXTENDS Bracket, FiniteSetTheorems, WellFoundedInduction, TLAPS

\* No row of a table seats a team against itself.
Apart(row) == Full(row) => row.teamA # row.teamB

\* From old to new a row keeps its result, or gets what an advancement may
\* give it: a bye, or its creation.
Settled(old, new) ==
    /\ old.status \in {"completed", "bye", "live", "scheduled"} =>
          new.status = old.status /\ new.winner = old.winner /\ new.loser = old.loser
    /\ old.status \in {"pending", "absent"} =>
          \/ new.status = old.status /\ new.winner = old.winner /\ new.loser = old.loser
          \/ new.status = "bye" /\ new.loser = old.loser
          \/ new.status = "pending" /\ new.winner = Nobody /\ new.loser = Nobody

Undecided(row) ==
    row.status \notin {"completed", "bye"} => row.winner = Nobody /\ row.loser = Nobody

-----------------------------------------------------------------------------
(* Rows *)

\* The two rows that are created are rows, and nobody sits in them.
LEMMA EmptyRows ==
    /\ EmptyRow \in Row /\ Apart(EmptyRow) /\ Undecided(EmptyRow)
    /\ AbsentRow \in Row /\ Apart(AbsentRow) /\ Undecided(AbsentRow)
  BY DEF EmptyRow, AbsentRow, Row, Slot, Status, Lead, Apart, Full, Undecided

\* Seat only writes the two slots, keeps the row well typed and never puts a
\* team into both slots.
LEMMA SeatLemma ==
    ASSUME NEW row \in Row, NEW team \in Slot
    PROVE  /\ Seat(row, team) \in Row
           /\ Seat(row, team).status = row.status
           /\ Seat(row, team).winner = row.winner
           /\ Seat(row, team).loser = row.loser
           /\ Apart(row) => Apart(Seat(row, team))
  BY DEF Row, Seat, Slot, Seated, Full, Apart

\* Unseat only empties a slot.
LEMMA UnseatLemma ==
    ASSUME NEW row \in Row, NEW team \in Slot
    PROVE  /\ Unseat(row, team) \in Row
           /\ Apart(row) => Apart(Unseat(row, team))
  BY DEF Row, Unseat, Slot, Full, Apart

\* The sole team of a row is one of its slots.
LEMMA SoleTeamType ==
    ASSUME NEW row \in Row PROVE SoleTeam(row) \in Slot
  BY DEF Row, SoleTeam, Slot

\* The opponent of a seated team is the other one.
LEMMA OpponentLemma ==
    ASSUME NEW row \in Row, Full(row), NEW team \in Team, team \in Seated(row)
    PROVE  /\ Opponent(row, team) \in Team
           /\ Apart(row) => Opponent(row, team) # team
  BY NobodyIsNoTeam DEF Row, Opponent, Slot, Seated, Full, Apart

\* Settled is transitive on rows that are undecided until they are decided.
LEMMA SettledSteps ==
    ASSUME NEW a \in Row, NEW b \in Row, NEW c \in Row,
           Undecided(a), Settled(a, b), Settled(b, c)
    PROVE  Settled(a, c) /\ Undecided(c)
  BY DEF Settled, Undecided, Row, Status

-----------------------------------------------------------------------------
(* Advancement *)

\* AdvanceWinner keeps the type and every result.
LEMMA AdvanceWinnerLemma ==
    ASSUME NEW rows \in [Match -> Row], NEW m \in Match, NEW team \in Slot
    PROVE  /\ AdvanceWinner(rows, m, team) \in [Match -> Row]
           /\ \A x \in Match :
                 /\ AdvanceWinner(rows, m, team)[x].status = rows[x].status
                 /\ AdvanceWinner(rows, m, team)[x].winner = rows[x].winner
                 /\ AdvanceWinner(rows, m, team)[x].loser = rows[x].loser
                 /\ Apart(rows[x]) => Apart(AdvanceWinner(rows, m, team)[x])
  <1>1. CASE NextMatch[m] = NoMatch
    BY <1>1 DEF AdvanceWinner
  <1>2. CASE NextMatch[m] # NoMatch
    <2>1. NextMatch[m] \in Match
      BY <1>2, BracketShape
    <2>2. AdvanceWinner(rows, m, team) = [rows EXCEPT ![NextMatch[m]] = Seat(rows[NextMatch[m]], team)]
      BY <1>2, <2>1 DEF AdvanceWinner
    <2> QED
      BY <2>1, <2>2, SeatLemma
  <1> QED
    BY <1>1, <1>2

\* A match passed alone was pending and becomes a bye; all else is kept.
LEMMA PassAloneLemma ==
    ASSUME NEW rows \in [Match -> Row], NEW x \in Match, rows[x].status = "pending"
    PROVE  /\ PassAlone(rows, x) \in [Match -> Row]
           /\ \A y \in Match :
                 /\ y = x => PassAlone(rows, x)[y].status = "bye"
                 /\ y # x => /\ PassAlone(rows, x)[y].status = rows[y].status
                             /\ PassAlone(rows, x)[y].winner = rows[y].winner
                 /\ PassAlone(rows, x)[y].loser = rows[y].loser
                 /\ Apart(rows[y]) => Apart(PassAlone(rows, x)[y])
  <1> DEFINE bye == [rows EXCEPT ![x].status = "bye", ![x].winner = SoleTeam(rows[x])]
             team == SoleTeam(rows[x])
  <1>1. team \in Slot
    BY SoleTeamType
  <1>2. /\ bye \in [Match -> Row]
        /\ \A y \in Match :
              /\ y = x => bye[y].status = "bye"
              /\ y # x => bye[y] = rows[y]
              /\ bye[y].loser = rows[y].loser
              /\ Apart(rows[y]) => Apart(bye[y])
    <2>1. [rows[x] EXCEPT !.status = "bye", !.winner = team] \in Row
      BY <1>1 DEF Row, Status
    <2> HIDE DEF team
    <2>2. \A y \in Match : y # x => bye[y] = rows[y]
      OBVIOUS
    <2>3. /\ bye[x].status = "bye"
          /\ bye[x].loser = rows[x].loser
          /\ bye[x].teamA = rows[x].teamA
          /\ bye[x].teamB = rows[x].teamB
      BY DEF Row
    <2>4. bye \in [Match -> Row]
      <3> DEFINE row == [rows[x] EXCEPT !.status = "bye", !.winner = SoleTeam(rows[x])]
      <3>1. bye = [rows EXCEPT ![x] = row]
        OBVIOUS
      <3>2. row \in Row
        BY <2>1 DEF team
      <3> HIDE DEF row, bye
      <3> QED
        BY <3>1, <3>2
    <2> HIDE DEF bye
    <2> QED
      BY <2>2, <2>3, <2>4 DEF Apart, Full
  <1>3. PassAlone(rows, x) = AdvanceWinner(bye, x, team)
    BY DEF PassAlone
  <1> HIDE DEF bye, team
  <1> QED
    BY <1>1, <1>2, <1>3, AdvanceWinnerLemma

\* AdvanceToLosers seats the loser and may pass a pending match by; results
\* are kept.
LEMMA AdvanceToLosersLemma ==
    ASSUME NEW rows \in [Match -> Row], NEW m \in Match, NEW team \in Slot
    PROVE  /\ AdvanceToLosers(rows, m, team) \in [Match -> Row]
           /\ \A y \in Match :
                 /\ Settled(rows[y], AdvanceToLosers(rows, m, team)[y])
                 /\ Apart(rows[y]) => Apart(AdvanceToLosers(rows, m, team)[y])
  <1> DEFINE x      == LoserNextMatch[m]
             seated == [rows EXCEPT ![x] = Seat(@, team)]
  <1>1. CASE x = NoMatch
    <2>1. AdvanceToLosers(rows, m, team) = rows
      BY <1>1 DEF AdvanceToLosers
    <2> QED
      BY <2>1 DEF Settled, Row, Status
  <1>2. CASE x # NoMatch
    <2>1. x \in Match
      BY <1>2, BracketShape
    <2>2. seated = [rows EXCEPT ![x] = Seat(rows[x], team)]
      BY <2>1
    <2>3. /\ seated \in [Match -> Row]
          /\ \A y \in Match :
                /\ seated[y].status = rows[y].status
                /\ seated[y].winner = rows[y].winner
                /\ seated[y].loser = rows[y].loser
                /\ Apart(rows[y]) => Apart(seated[y])
      BY <2>1, <2>2, SeatLemma
    <2>4. CASE AdvanceToLosers(rows, m, team) = seated
      <3>1. \A y \in Match : Settled(rows[y], seated[y])
        BY <2>3 DEF Settled, Row, Status
      <3> QED
        BY <2>3, <2>4, <3>1
    <2>5. CASE /\ AdvanceToLosers(rows, m, team) = PassAlone(seated, x)
               /\ seated[x].status = "pending"
      <3> DEFINE passed == PassAlone(seated, x)
      <3> HIDE DEF x, seated
      <3>1. /\ passed \in [Match -> Row]
            /\ \A y \in Match :
                  /\ y = x => passed[y].status = "bye"
                  /\ y # x => passed[y].status = seated[y].status /\ passed[y].winner = seated[y].winner
                  /\ passed[y].loser = seated[y].loser
                  /\ Apart(seated[y]) => Apart(passed[y])
        BY <2>1, <2>3, <2>5, PassAloneLemma
      <3> HIDE DEF passed
      <3>2. \A y \in Match : Settled(rows[y], passed[y])
        <4> SUFFICES ASSUME NEW y \in Match PROVE Settled(rows[y], passed[y])
          OBVIOUS
        <4>1. CASE y = x
          BY <4>1, <2>3, <2>5, <3>1 DEF Settled
        <4>2. CASE y # x
          <5>1. rows[y] \in Row
            OBVIOUS
          <5> QED
            BY <4>2, <5>1, <2>3, <3>1 DEF Settled, Row, Status
        <4> QED
          BY <4>1, <4>2
      <3>3. AdvanceToLosers(rows, m, team) = passed
        BY <2>5 DEF passed
      <3> QED
        BY <2>3, <3>1, <3>2, <3>3
    <2>6. \/ AdvanceToLosers(rows, m, team) = seated
          \/ /\ AdvanceToLosers(rows, m, team) = PassAlone(seated, x)
             /\ seated[x].status = "pending"
      BY <1>2 DEF AdvanceToLosers
    <2> QED
      BY <2>4, <2>5, <2>6
  <1> QED
    BY <1>1, <1>2

\* The grand-final reset only creates a row that was absent.
LEMMA GrandFinalResetLemma ==
    ASSUME NEW rows \in [Match -> Row], NEW winner \in Team, NEW loser \in Team
    PROVE  /\ CreateGrandFinalReset(rows, winner, loser) \in [Match -> Row]
           /\ \A y \in Match :
                 /\ Settled(rows[y], CreateGrandFinalReset(rows, winner, loser)[y])
                 /\ winner # loser /\ Apart(rows[y]) =>
                       Apart(CreateGrandFinalReset(rows, winner, loser)[y])
  <1> DEFINE new == [EmptyRow EXCEPT !.teamA = winner, !.teamB = loser]
             made == CreateGrandFinalReset(rows, winner, loser)
  <1>1. new \in Row /\ new.status = "pending" /\ new.winner = Nobody /\ new.loser = Nobody
    BY DEF EmptyRow, Row, Slot, Status, Lead
  <1>2. winner # loser => Apart(new)
    BY DEF EmptyRow, Apart, Full
  <1>3. \A y \in Match : made[y] = IF Position[y] = "grand_final_reset" /\ rows[y].status = "absent"
                                   THEN new ELSE rows[y]
    BY DEF CreateGrandFinalReset
  <1>4. made = [y \in Match |-> made[y]]
    BY DEF CreateGrandFinalReset
  <1> HIDE DEF new, made
  <1>5. made \in [Match -> Row]
    BY <1>1, <1>3, <1>4
  <1>6. \A y \in Match : Settled(rows[y], made[y])
    BY <1>1, <1>3 DEF Settled, Row, Status
  <1>7. \A y \in Match : winner # loser /\ Apart(rows[y]) => Apart(made[y])
    BY <1>2, <1>3
  <1> QED
    BY <1>5, <1>6, <1>7 DEF made

-----------------------------------------------------------------------------
(* CompleteMatch *)

\* The inductive invariant behind the theorems: besides types, only decided
\* matches and byes name a winner or a loser.
IInv == TypeOK /\ \A m \in Match : Undecided(matches[m])

\* A decided row is well typed and keeps its teams.
LEMMA DecidedLemma ==
    ASSUME NEW row \in Row, NEW winner \in Team, Full(row), winner \in Seated(row)
    PROVE  /\ Decided(row, winner) \in Row
           /\ Decided(row, winner).status = "completed"
           /\ Decided(row, winner).winner = winner
           /\ Decided(row, winner).loser = Opponent(row, winner)
           /\ Apart(row) => Apart(Decided(row, winner))
  <1>1. Opponent(row, winner) \in Team
    BY OpponentLemma
  <1> DEFINE lead == IF row.lead = "unset" THEN "level" ELSE row.lead
             loser == Opponent(row, winner)
  <1>2. lead \in Lead
    BY DEF Row, Lead
  <1>3. Decided(row, winner) =
          [row EXCEPT !.winner = winner, !.loser = loser, !.status = "completed", !.lead = lead]
    BY DEF Decided
  <1> HIDE DEF lead, loser
  <1>4. loser \in Slot /\ winner \in Slot /\ "completed" \in Status
    BY <1>1 DEF Slot, Status, loser
  <1>5. Decided(row, winner) \in Row
    BY <1>2, <1>3, <1>4 DEF Row
  <1>6. /\ Decided(row, winner).status = "completed"
        /\ Decided(row, winner).winner = winner
        /\ Decided(row, winner).loser = loser
        /\ Decided(row, winner).teamA = row.teamA
        /\ Decided(row, winner).teamB = row.teamB
    BY <1>3 DEF Row
  <1> QED
    BY <1>5, <1>6 DEF loser, Apart, Full

\* What a completion does to the table: the match has its result, and every
\* other row keeps its own.
LEMMA RowsAfterLemma ==
    ASSUME IInv, NEW m \in Match, NEW winner \in Team, matches[m].status = "live",
           Full(matches[m]), winner \in Seated(matches[m])
    PROVE  /\ RowsAfter(m, winner) \in [Match -> Row]
           /\ RowsAfter(m, winner)[m].status = "completed"
           /\ RowsAfter(m, winner)[m].winner = winner
           /\ RowsAfter(m, winner)[m].loser = Opponent(matches[m], winner)
           /\ \A y \in Match : Undecided(RowsAfter(m, winner)[y])
           /\ \A y \in Match \ {m} : Settled(matches[y], RowsAfter(m, winner)[y])
           /\ (\A y \in Match : Apart(matches[y])) =>
                 \A y \in Match : Apart(RowsAfter(m, winner)[y])
  <1> DEFINE loser  == Opponent(matches[m], winner)
             result == [matches EXCEPT ![m] = Decided(@, winner)]
             won    == AdvanceWinner(result, m, winner)
             moved  == AdvanceToLosers(won, m, loser)
             after  == RowsAfter(m, winner)
  <1>1. /\ matches \in [Match -> Row]
        /\ matches[m] \in Row
        /\ \A y \in Match : Undecided(matches[y])
    BY DEF IInv, TypeOK
  <1>2. /\ loser \in Team /\ loser \in Slot /\ winner \in Slot
        /\ Apart(matches[m]) => loser # winner
    BY <1>1, OpponentLemma DEF Slot
  <1>3. /\ result \in [Match -> Row]
        /\ result[m].status = "completed" /\ result[m].winner = winner /\ result[m].loser = loser
        /\ \A y \in Match \ {m} : result[y] = matches[y]
        /\ \A y \in Match : Undecided(result[y])
        /\ (\A y \in Match : Apart(matches[y])) => \A y \in Match : Apart(result[y])
    BY <1>1, DecidedLemma DEF Undecided
  <1> HIDE DEF loser, result
  <1>4. /\ won \in [Match -> Row]
        /\ \A y \in Match : /\ Settled(result[y], won[y])
                            /\ Apart(result[y]) => Apart(won[y])
    <2>1. /\ won \in [Match -> Row]
          /\ \A y \in Match : /\ won[y].status = result[y].status
                              /\ won[y].winner = result[y].winner
                              /\ won[y].loser = result[y].loser
                              /\ Apart(result[y]) => Apart(won[y])
      BY <1>2, <1>3, AdvanceWinnerLemma
    <2> HIDE DEF won
    <2>2. \A y \in Match : result[y] \in Row
      BY <1>3
    <2> QED
      BY <2>1, <2>2 DEF Settled, Row, Status
  <1> HIDE DEF won
  <1>5. /\ moved \in [Match -> Row]
        /\ \A y \in Match : /\ Settled(won[y], moved[y])
                            /\ Apart(won[y]) => Apart(moved[y])
    BY <1>2, <1>4, AdvanceToLosersLemma
  <1> HIDE DEF moved
  <1>6. /\ after \in [Match -> Row]
        /\ \A y \in Match : /\ Settled(moved[y], after[y])
                            /\ loser # winner /\ Apart(moved[y]) => Apart(after[y])
    <2>1. CASE after = moved
      BY <1>5, <2>1 DEF Settled, Row, Status
    <2>2. CASE after = CreateGrandFinalReset(moved, winner, loser)
      BY <1>2, <1>5, <2>2, GrandFinalResetLemma
    <2> QED
      BY <2>1, <2>2 DEF RowsAfter, moved, won, result, loser
  <1> HIDE DEF after
  <1>7. \A y \in Match : Settled(result[y], after[y]) /\ Undecided(after[y])
    <2> SUFFICES ASSUME NEW y \in Match PROVE Settled(result[y], after[y]) /\ Undecided(after[y])
      OBVIOUS
    <2>1. result[y] \in Row /\ won[y] \in Row /\ moved[y] \in Row /\ after[y] \in Row
      BY <1>3, <1>4, <1>5, <1>6
    <2>2. Settled(result[y], moved[y]) /\ Undecided(result[y])
      BY <1>3, <1>4, <1>5, <2>1, SettledSteps
    <2> QED
      BY <1>6, <2>1, <2>2, SettledSteps
  <1>8. after[m].status = "completed" /\ after[m].winner = winner /\ after[m].loser = loser
    BY <1>3, <1>7 DEF Settled
  <1>9. \A y \in Match \ {m} : Settled(matches[y], after[y])
    BY <1>3, <1>7
  <1>10. (\A y \in Match : Apart(matches[y])) => \A y \in Match : Apart(after[y])
    BY <1>2, <1>3, <1>4, <1>5, <1>6
  <1> QED
    BY <1>6, <1>7, <1>8, <1>9, <1>10 DEF after, loser

\* A win and a loss are counted in the record they belong to.
LEMMA CountedLemma ==
    ASSUME NEW s \in Standing, NEW out \in BOOLEAN
    PROVE  /\ WithWin(s) \in Standing
           /\ WithWin(s).wins = s.wins + 1 /\ WithWin(s).losses = s.losses
           /\ WithLoss(s, out) \in Standing
           /\ WithLoss(s, out).wins = s.wins /\ WithLoss(s, out).losses = s.losses + 1
  <1>1. /\ s.wins \in Nat /\ s.wins + 1 \in Nat /\ s.losses + 1 \in Nat
        /\ (s.eliminated \/ out) \in BOOLEAN
    BY DEF Standing
  <1>2. WithWin(s) \in Standing
    BY <1>1, Zenon DEF WithWin, Standing
  <1>3. WithLoss(s, out) \in Standing
    BY <1>1, Zenon DEF WithLoss, Standing
  <1>4. WithWin(s).wins = s.wins + 1 /\ WithWin(s).losses = s.losses
    BY DEF WithWin, Standing
  <1>5. WithLoss(s, out).wins = s.wins /\ WithLoss(s, out).losses = s.losses + 1
    BY DEF WithLoss, Standing
  <1> QED
    BY <1>2, <1>3, <1>4, <1>5

\* A completion counts one win and one loss, and nothing else.
LEMMA StandingsAfterLemma ==
    ASSUME IInv, NEW m \in Match, NEW winner \in Team,
           Full(matches[m]), winner \in Seated(matches[m])
    PROVE  /\ StandingsAfter(m, winner) \in [Team -> Standing]
           /\ \A t \in Team :
                 /\ StandingsAfter(m, winner)[t].wins =
                       IF t = winner THEN standings[t].wins + 1 ELSE standings[t].wins
                 /\ StandingsAfter(m, winner)[t].losses =
                       IF t = Opponent(matches[m], winner)
                       THEN standings[t].losses + 1 ELSE standings[t].losses
  <1> DEFINE loser == Opponent(matches[m], winner)
             out   == LoserNextMatch[m] = NoMatch /\ ~GrandFinalReset(m, loser)
             lost  == [standings EXCEPT ![loser] = WithLoss(standings[loser], out)]
             after == StandingsAfter(m, winner)
  <1>1. matches[m] \in Row /\ standings \in [Team -> Standing]
    BY DEF IInv, TypeOK
  <1>2. loser \in Team /\ out \in BOOLEAN
    BY <1>1, OpponentLemma
  <1>3. after = [lost EXCEPT ![winner] = WithWin(lost[winner])]
    BY DEF StandingsAfter
  <1> HIDE DEF loser, out, after
  <1>4. WithLoss(standings[loser], out) \in Standing
    BY <1>1, <1>2, CountedLemma
  <1>5. lost \in [Team -> Standing]
    BY <1>1, <1>2, <1>4
  <1>6. \A t \in Team :
              /\ lost[t].wins = standings[t].wins
              /\ lost[t].losses = IF t = loser THEN standings[t].losses + 1 ELSE standings[t].losses
    BY <1>1, <1>2, CountedLemma
  <1> HIDE DEF lost
  <1>7. WithWin(lost[winner]) \in Standing
    BY <1>2, <1>5, CountedLemma
  <1>8. after \in [Team -> Standing]
    BY <1>3, <1>5, <1>7
  <1>9. \A t \in Team :
              /\ after[t].wins = IF t = winner THEN lost[t].wins + 1 ELSE lost[t].wins
              /\ after[t].losses = lost[t].losses
    BY <1>2, <1>3, <1>5, CountedLemma
  <1> QED
    BY <1>6, <1>8, <1>9 DEF after, loser

-----------------------------------------------------------------------------
(* The corrections *)

\* Replacing a team in a row keeps its type and its result.
LEMMA ReplaceLemma ==
    ASSUME NEW row \in Row, NEW t \in Team, NEW u \in Team
    PROVE  /\ Replace(row, t, u) \in Row
           /\ Replace(row, t, u).status = row.status
           /\ Replace(row, t, u).winner = row.winner
           /\ Replace(row, t, u).loser = row.loser
  BY DEF Replace, Row, Slot

\* Clearing a row for a restart leaves a well-typed, undecided row or a bye.
LEMMA ClearedLemma ==
    ASSUME IInv, NEW m \in Match
    PROVE  /\ Cleared(m) \in Row
           /\ Undecided(Cleared(m))
           /\ Apart(matches[m]) => Apart(Cleared(m))
  <1> DEFINE row  == matches[m]
             kept == [EmptyRow EXCEPT !.teamA = row.teamA, !.teamB = row.teamB,
                                      !.status = IF Full(row) THEN "scheduled" ELSE "pending"]
  <1>1. row \in Row /\ Undecided(row)
    BY DEF IInv, TypeOK
  <1>2. /\ kept \in Row /\ kept.teamA = row.teamA /\ kept.teamB = row.teamB
        /\ kept.winner = Nobody /\ kept.loser = Nobody
    BY <1>1 DEF EmptyRow, Row, Slot, Status, Lead
  <1>3. Undecided(kept) /\ (Apart(row) => Apart(kept))
    BY <1>2 DEF Undecided, Apart, Full
  <1>4. Cleared(m) \in {AbsentRow, row, EmptyRow, kept}
    BY DEF Cleared
  <1> QED
    BY <1>1, <1>2, <1>3, <1>4, EmptyRows

\* Advancing the byes again only fills slots.
LEMMA ReadvancedLemma ==
    ASSUME NEW rows \in [Match -> Row], NEW x \in Match
    PROVE  /\ Readvanced(rows, x) \in Row
           /\ Readvanced(rows, x).status = rows[x].status
           /\ Readvanced(rows, x).winner = rows[x].winner
           /\ Readvanced(rows, x).loser = rows[x].loser
           /\ Apart(rows[x]) => Apart(Readvanced(rows, x))
  <1> DEFINE byes == ByesInto(rows, x)
             p    == InOrder(byes)
  <1>1. CASE byes = {}
    BY <1>1 DEF Readvanced
  <1>2. CASE byes # {}
    <2>1. byes \subseteq Match /\ \E a, b \in Match : byes \subseteq {a, b}
      BY BracketShape DEF ByesInto
    <2>2. \E q \in byes \X byes : byes = {q[1], q[2]} /\ Order[q[1]] <= Order[q[2]]
      <3>1. PICK a \in Match, b \in Match : byes \subseteq {a, b}
        BY <2>1
      <3>2. PICK c \in byes, d \in byes : byes = {c, d}
        BY <1>2, <3>1
      <3>3. Order[c] \in Nat /\ Order[d] \in Nat
        BY <2>1, BracketShape
      <3>4. CASE Order[c] <= Order[d]
        <4>1. <<c, d>> \in byes \X byes /\ byes = {<<c, d>>[1], <<c, d>>[2]}
          BY <3>2
        <4> QED
          BY <3>4, <4>1
      <3>5. CASE Order[d] <= Order[c]
        <4>1. <<d, c>> \in byes \X byes /\ byes = {<<d, c>>[1], <<d, c>>[2]}
          BY <3>2
        <4> QED
          BY <3>5, <4>1
      <3> QED
        BY <3>3, <3>4, <3>5
    <2>3. p[1] \in byes /\ p[2] \in byes
      BY <2>2 DEF InOrder
    <2> HIDE DEF p
    <2>4. rows[p[1]].winner \in Slot /\ rows[p[2]].winner \in Slot
      BY <2>1, <2>3 DEF Row
    <2>5. Readvanced(rows, x) = Seat(Seat(rows[x], rows[p[1]].winner), rows[p[2]].winner)
      BY <1>2 DEF Readvanced, p
    <2> QED
      BY <2>4, <2>5, SeatLemma
  <1> QED
    BY <1>1, <1>2

-----------------------------------------------------------------------------
(* Types *)

\* A step that leaves standings and champion alone keeps IInv when the rows
\* it writes are rows and undecided until they are decided.
LEMMA RowsOnly ==
    ASSUME IInv, UNCHANGED <<standings, champion>>,
           matches' \in [Match -> Row], \A m \in Match : Undecided(matches'[m])
    PROVE  IInv'
  BY DEF IInv, TypeOK

\* Changing the status of an undecided row to one of play.
LEMMA StatusLemma ==
    ASSUME NEW row \in Row, Undecided(row), row.status \in {"pending", "scheduled", "live"},
           NEW to \in {"scheduled", "live", "completed"}
    PROVE  /\ [row EXCEPT !.status = to] \in Row
           /\ Undecided([row EXCEPT !.status = to])
           /\ Apart(row) => Apart([row EXCEPT !.status = to])
           /\ [row EXCEPT !.status = to].winner = Nobody
           /\ [row EXCEPT !.status = to].loser = Nobody
           /\ [row EXCEPT !.status = to].status = to
  <1>1. to \in Status
    BY DEF Status
  <1> QED
    BY <1>1 DEF Row, Undecided, Apart, Full

\* Every action keeps the types, whatever the organisers request.
LEMMA TypeStep == IInv /\ [Next]_vars => IInv'
  <1> SUFFICES ASSUME IInv, [Next]_vars PROVE IInv'
    OBVIOUS
  <1>0. /\ matches \in [Match -> Row]
        /\ \A m \in Match : matches[m] \in Row /\ Undecided(matches[m])
    BY DEF IInv, TypeOK
  <1>1. ASSUME NEW m \in Match, NEW to \in Status, UpdateMatchStatus(m, to) PROVE IInv'
    <2>1. /\ matches[m].status \in {"pending", "scheduled", "live"}
          /\ to \in {"scheduled", "live", "completed"}
          /\ matches' = [matches EXCEPT ![m] = [matches[m] EXCEPT !.status = to]]
      BY <1>1 DEF UpdateMatchStatus, Transitions
    <2>2. matches' \in [Match -> Row] /\ \A x \in Match : Undecided(matches'[x])
      BY <1>0, <2>1, StatusLemma
    <2> QED
      BY <1>1, <2>2, RowsOnly DEF UpdateMatchStatus
  <1>2. ASSUME NEW m \in Match, NEW lead \in Lead \ {"unset"}, UpdateMatchScore(m, lead) PROVE IInv'
    <2>1. matches' = [matches EXCEPT ![m] = [matches[m] EXCEPT !.lead = lead]]
      BY <1>2 DEF UpdateMatchScore
    <2>2. [matches[m] EXCEPT !.lead = lead] \in Row /\ Undecided([matches[m] EXCEPT !.lead = lead])
      BY <1>0 DEF Row, Undecided
    <2>3. matches' \in [Match -> Row] /\ \A x \in Match : Undecided(matches'[x])
      BY <1>0, <2>1, <2>2
    <2> QED
      BY <1>2, <2>3, RowsOnly DEF UpdateMatchScore
  <1>3. ASSUME NEW m \in Match, ScheduleMatch(m) PROVE IInv'
    <2>1. /\ matches[m].status \in {"pending", "scheduled", "live"}
          /\ matches' = [matches EXCEPT ![m] = [matches[m] EXCEPT !.status = "scheduled"]]
      BY <1>3 DEF ScheduleMatch, Unstarted
    <2>2. matches' \in [Match -> Row] /\ \A x \in Match : Undecided(matches'[x])
      BY <1>0, <2>1, StatusLemma
    <2> QED
      BY <1>3, <2>2, RowsOnly DEF ScheduleMatch
  <1>4. ASSUME NEW r, ScheduleRound(r) PROVE IInv'
    <2>1. \A x \in Match : matches'[x] \in Row /\ Undecided(matches'[x])
      BY <1>0, <1>4, StatusLemma DEF ScheduleRound, Unstarted
    <2>2. matches' = [x \in Match |-> matches'[x]]
      BY <1>4 DEF ScheduleRound
    <2> QED
      BY <1>4, <2>1, <2>2, RowsOnly DEF ScheduleRound
  <1>5. ASSUME NEW due \in SUBSET Scheduled, SchedulerTick(due) PROVE IInv'
    <2>1. \A x \in Match : matches'[x] \in Row /\ Undecided(matches'[x])
      BY <1>0, <1>5, StatusLemma DEF SchedulerTick, Scheduled
    <2>2. matches' = [x \in Match |-> matches'[x]]
      BY <1>5 DEF SchedulerTick
    <2> QED
      BY <1>5, <2>1, <2>2, RowsOnly DEF SchedulerTick
  <1>6. ASSUME NEW m \in Match, NEW winner \in Team, CompleteMatch(m, winner) PROVE IInv'
    <2>1. matches' = RowsAfter(m, winner) /\ standings' = StandingsAfter(m, winner)
      BY <1>6 DEF CompleteMatch
    <2>2. matches' \in [Match -> Row] /\ \A x \in Match : Undecided(matches'[x])
      BY <1>6, <2>1, RowsAfterLemma DEF CompleteMatch
    <2>3. standings' \in [Team -> Standing]
      BY <1>6, <2>1, StandingsAfterLemma DEF CompleteMatch
    <2>4. champion' \in Slot
      BY <1>6 DEF CompleteMatch, Crowned, FirstRanked, IInv, TypeOK, Slot
    <2> QED
      BY <2>2, <2>3, <2>4 DEF IInv, TypeOK
  <1>7. ASSUME NEW m \in Match, ResetMatch(m) PROVE IInv'
    <2> DEFINE row   == matches[m]
               live  == [row EXCEPT !.lead = "level", !.winner = Nobody, !.loser = Nobody,
                                    !.status = IF @ = "completed" THEN "live" ELSE @]
               wiped == [matches EXCEPT ![m] = live]
               back  == IF NextMatch[m] = NoMatch \/ row.winner = Nobody THEN wiped
                        ELSE [wiped EXCEPT ![NextMatch[m]] = Unseat(@, row.winner)]
    <2>1. live \in Row /\ Undecided(live)
      BY <1>0 DEF Row, Undecided, Slot, Status, Lead
    <2>2. \A rows \in [Match -> Row], y \in Match, team \in Slot :
            (\A x \in Match : Undecided(rows[x])) =>
              LET n == [rows EXCEPT ![y] = Unseat(@, team)]
              IN  n \in [Match -> Row] /\ \A x \in Match : Undecided(n[x])
      BY UnseatLemma DEF Unseat, Row, Undecided
    <2>3. /\ matches' = IF LoserNextMatch[m] = NoMatch \/ row.loser = Nobody THEN back
                        ELSE [back EXCEPT ![LoserNextMatch[m]] = Unseat(@, row.loser)]
          /\ UNCHANGED <<standings, champion>>
      BY <1>7 DEF ResetMatch
    <2>4. /\ row.winner \in Slot /\ row.loser \in Slot
          /\ NextMatch[m] # NoMatch => NextMatch[m] \in Match
          /\ LoserNextMatch[m] # NoMatch => LoserNextMatch[m] \in Match
      BY <1>0, BracketShape DEF Row
    <2> HIDE DEF live
    <2>5. wiped \in [Match -> Row] /\ \A x \in Match : Undecided(wiped[x])
      BY <1>0, <2>1
    <2> HIDE DEF row, wiped
    <2>6. back \in [Match -> Row] /\ \A x \in Match : Undecided(back[x])
      BY <2>2, <2>4, <2>5
    <2> HIDE DEF back
    <2>7. matches' \in [Match -> Row] /\ \A x \in Match : Undecided(matches'[x])
      BY <2>2, <2>3, <2>4, <2>6
    <2> QED
      BY <2>3, <2>7, RowsOnly
  <1>8. ASSUME NEW t \in Team, NEW u \in Team, SwapBracketTeams(t, u) PROVE IInv'
    <2> DEFINE mt == Latest(SwapPlaces(t))
               mu == Latest(SwapPlaces(u))
    <2>1. CASE mt = mu
      <3>1. matches' = [matches EXCEPT ![mt] = [matches[mt] EXCEPT !.teamA = matches[mt].teamB,
                                                                 !.teamB = matches[mt].teamA]]
        BY <1>8, <2>1 DEF SwapBracketTeams
      <3>2. matches' \in [Match -> Row] /\ \A x \in Match : Undecided(matches'[x])
        BY <1>0, <3>1 DEF Row, Undecided
      <3> QED
        BY <1>8, <3>2, RowsOnly DEF SwapBracketTeams
    <2>2. CASE mt # mu
      <3>1. matches' = [matches EXCEPT ![mt] = Replace(matches[mt], t, u),
                                       ![mu] = Replace(matches[mu], u, t)]
        BY <1>8, <2>2 DEF SwapBracketTeams
      <3> HIDE DEF mt, mu
      <3>2. matches' \in [Match -> Row] /\ \A x \in Match : Undecided(matches'[x])
        <4>1. \A x \in Match :
                 matches'[x] \in {matches[x], Replace(matches[x], t, u), Replace(matches[x], u, t)}
          BY <1>0, <2>2, <3>1
        <4>2. matches' = [x \in Match |-> matches'[x]]
          BY <1>0, <3>1
        <4>3. \A x \in Match : matches'[x] \in Row /\ Undecided(matches'[x])
          BY <1>0, <4>1, ReplaceLemma DEF Undecided
        <4> QED
          BY <4>2, <4>3
      <3> QED
        BY <1>8, <3>2, RowsOnly DEF SwapBracketTeams
    <2> QED
      BY <2>1, <2>2
  <1>9. ASSUME ResetResults PROVE IInv'
    <2> DEFINE rows == [m \in Match |-> Cleared(m)]
    <2>1. rows \in [Match -> Row] /\ \A x \in Match : Undecided(rows[x])
      BY ClearedLemma
    <2>2. matches' = [x \in Match |-> Readvanced(rows, x)]
      BY <1>9 DEF ResetResults
    <2> HIDE DEF rows
    <2>3. matches' \in [Match -> Row] /\ \A x \in Match : Undecided(matches'[x])
      BY <2>1, <2>2, ReadvancedLemma DEF Undecided
    <2>4. standings' \in [Team -> Standing] /\ champion' \in Slot
      <3>1. \A t \in Team : standings[t].row \in BOOLEAN
        BY DEF IInv, TypeOK, Standing
      <3>2. \A t \in Team : Zeroed(standings[t]) \in Standing
        <4>1. 0 \in Nat /\ FALSE \in BOOLEAN
          OBVIOUS
        <4> QED
          BY <3>1, <4>1, Zenon DEF Zeroed, Standing
      <3> QED
        BY <1>9, <3>1, <3>2 DEF ResetResults, IInv, TypeOK
    <2> QED
      BY <2>3, <2>4 DEF IInv, TypeOK
  <1>10. CASE UNCHANGED vars
    BY <1>10 DEF vars, IInv, TypeOK
  <1> QED
    BY <1>1, <1>2, <1>3, <1>4, <1>5, <1>6, <1>7, <1>8, <1>9, <1>10 DEF Next, Play

\* The generated bracket is well typed and undecided.
LEMMA TypeInit == Init => IInv
  <1> SUFFICES ASSUME Init PROVE IInv
    OBVIOUS
  <1>1. NoStanding \in Standing
    <2>1. 0 \in Nat /\ FALSE \in BOOLEAN
      OBVIOUS
    <2> QED
      BY <2>1, Zenon DEF NoStanding, Standing
  <1> QED
    BY <1>1, GeneratedShape DEF Init, IInv, TypeOK, Undecided, Slot

\* The inductive invariant holds throughout.
LEMMA Inductive == Spec => []IInv
  BY TypeInit, TypeStep, PTL DEF Spec

\* Rows, standings and champion keep their types under every request: no
\* order of play, swaps, resets and restarts writes a row that a slot, a
\* status or a counter of the tables could not hold.
THEOREM TypeCorrect == Spec => []TypeOK
  <1>1. IInv => TypeOK
    BY DEF IInv
  <1> QED
    BY Inductive, <1>1, PTL

-----------------------------------------------------------------------------
(* Results *)

\* A step that is neither a reset nor a restart keeps every decided row, and
\* unless it completes a match properly it counts nothing and names no winner.
LEMMA PlayStep ==
    ASSUME IInv, [Next]_vars, ~ResetResults, \A m \in Match : ~ResetMatch(m)
    PROVE  /\ \A m \in Match : matches[m].status \in {"completed", "bye"} =>
                 /\ matches'[m].status = matches[m].status
                 /\ matches'[m].winner = matches[m].winner
                 /\ matches'[m].loser = matches[m].loser
           /\ \/ \E m \in Match, winner \in Team : CompleteMatch(m, winner)
              \/ /\ UNCHANGED standings
                 /\ \A m \in Match : matches'[m].status = "completed" =>
                       \/ matches[m].status = "completed"
                       \/ matches'[m].winner = Nobody /\ matches'[m].loser = Nobody
  <1> DEFINE Keeps == \A m \in Match : matches[m].status \in {"completed", "bye"} =>
                         /\ matches'[m].status = matches[m].status
                         /\ matches'[m].winner = matches[m].winner
                         /\ matches'[m].loser = matches[m].loser
             Quiet == /\ UNCHANGED standings
                      /\ \A m \in Match : matches'[m].status = "completed" =>
                            \/ matches[m].status = "completed"
                            \/ matches'[m].winner = Nobody /\ matches'[m].loser = Nobody
  <1>0. /\ matches \in [Match -> Row]
        /\ \A m \in Match : matches[m] \in Row /\ Undecided(matches[m])
    BY DEF IInv, TypeOK
  <1>1. ASSUME NEW m \in Match, NEW to \in Status, UpdateMatchStatus(m, to) PROVE Keeps /\ Quiet
    <2>1. /\ matches[m].status \in {"pending", "scheduled", "live"}
          /\ to \in {"scheduled", "live", "completed"}
          /\ matches' = [matches EXCEPT ![m] = [matches[m] EXCEPT !.status = to]]
          /\ UNCHANGED standings
      BY <1>1 DEF UpdateMatchStatus, Transitions
    <2> QED
      BY <1>0, <2>1, StatusLemma
  <1>2. ASSUME NEW m \in Match, NEW lead \in Lead \ {"unset"}, UpdateMatchScore(m, lead)
        PROVE Keeps /\ Quiet
    <2>1. /\ matches[m].status = "live"
          /\ matches' = [matches EXCEPT ![m] = [matches[m] EXCEPT !.lead = lead]]
          /\ UNCHANGED standings
      BY <1>2 DEF UpdateMatchScore
    <2> QED
      BY <1>0, <2>1 DEF Row
  <1>3. ASSUME NEW m \in Match, ScheduleMatch(m) PROVE Keeps /\ Quiet
    <2>1. /\ matches[m].status \in {"pending", "scheduled", "live"}
          /\ matches[m].status \notin {"completed", "bye"}
          /\ matches' = [matches EXCEPT ![m] = [matches[m] EXCEPT !.status = "scheduled"]]
          /\ UNCHANGED standings
      BY <1>3 DEF ScheduleMatch, Unstarted
    <2> QED
      BY <1>0, <2>1, StatusLemma
  <1>4. ASSUME NEW r, ScheduleRound(r) PROVE Keeps /\ Quiet
    BY <1>0, <1>4, StatusLemma DEF ScheduleRound, Unstarted
  <1>5. ASSUME NEW due \in SUBSET Scheduled, SchedulerTick(due) PROVE Keeps /\ Quiet
    BY <1>0, <1>5, StatusLemma DEF SchedulerTick, Scheduled
  <1>6. ASSUME NEW m \in Match, NEW winner \in Team, CompleteMatch(m, winner) PROVE Keeps
    <2>1. /\ matches' = RowsAfter(m, winner)
          /\ matches[m].status = "live"
          /\ \A y \in Match \ {m} : Settled(matches[y], RowsAfter(m, winner)[y])
      BY <1>6, RowsAfterLemma DEF CompleteMatch
    <2> QED
      BY <2>1 DEF Settled
  <1>7. ASSUME NEW t \in Team, NEW u \in Team, SwapBracketTeams(t, u) PROVE Keeps /\ Quiet
    <2> DEFINE mt == Latest(SwapPlaces(t))
               mu == Latest(SwapPlaces(u))
    <2>1. CASE mt = mu
      <3>1. matches' = [matches EXCEPT ![mt] = [matches[mt] EXCEPT !.teamA = matches[mt].teamB,
                                                                 !.teamB = matches[mt].teamA]]
        BY <1>7, <2>1 DEF SwapBracketTeams
      <3> HIDE DEF mt
      <3>2. \A x \in Match : /\ matches'[x].status = matches[x].status
                            /\ matches'[x].winner = matches[x].winner
                            /\ matches'[x].loser = matches[x].loser
        BY <1>0, <3>1 DEF Row
      <3> QED
        BY <1>7, <3>2 DEF SwapBracketTeams
    <2>2. CASE mt # mu
      <3>1. matches' = [matches EXCEPT ![mt] = Replace(matches[mt], t, u),
                                       ![mu] = Replace(matches[mu], u, t)]
        BY <1>7, <2>2 DEF SwapBracketTeams
      <3> HIDE DEF mt, mu
      <3>2. \A x \in Match :
               matches'[x] \in {matches[x], Replace(matches[x], t, u), Replace(matches[x], u, t)}
        BY <1>0, <2>2, <3>1
      <3>3. \A x \in Match : /\ matches'[x].status = matches[x].status
                            /\ matches'[x].winner = matches[x].winner
                            /\ matches'[x].loser = matches[x].loser
        BY <1>0, <3>2, ReplaceLemma
      <3> QED
        BY <1>7, <3>3 DEF SwapBracketTeams
    <2> QED
      BY <2>1, <2>2
  <1>8. UNCHANGED vars => Keeps /\ Quiet
    BY DEF vars
  <1> HIDE DEF Keeps, Quiet
  <1>9. Keeps /\ (Quiet \/ \E m \in Match, winner \in Team : CompleteMatch(m, winner))
    BY <1>1, <1>2, <1>3, <1>4, <1>5, <1>6, <1>7, <1>8 DEF Next, Play
  <1> QED
    BY <1>9 DEF Keeps, Quiet

\* A decided match keeps its result for ever: whatever the organisers ask
\* for, only the match reset and the restart take a result back.
THEOREM ResultsAreFinal == Spec => ResultFinal
  <1>1. ASSUME IInv, [Next]_vars
        PROVE  [\A m \in Match : matches[m].status \in {"completed", "bye"} =>
                  \/ /\ matches'[m].status = matches[m].status
                     /\ matches'[m].winner = matches[m].winner
                     /\ matches'[m].loser = matches[m].loser
                  \/ \E x \in Match : ResetMatch(x)
                  \/ ResetResults]_vars
    <2>1. CASE ResetResults \/ \E x \in Match : ResetMatch(x)
      BY <2>1
    <2>2. CASE ~ResetResults /\ \A x \in Match : ~ResetMatch(x)
      BY <1>1, <2>2, PlayStep
    <2> QED
      BY <2>1, <2>2
  <1> QED
    BY Inductive, <1>1, PTL DEF Spec, ResultFinal

-----------------------------------------------------------------------------
(* The standings count the results *)

Won(rows, t)  == {m \in Match : rows[m].status = "completed" /\ rows[m].winner = t}
Lost(rows, t) == {m \in Match : rows[m].status = "completed" /\ rows[m].loser = t}

Tally == \A t \in Team : /\ standings[t].wins = Cardinality(Won(matches, t))
                         /\ standings[t].losses = Cardinality(Lost(matches, t))

\* One more match is one more match.
LEMMA OneMore ==
    ASSUME NEW S \in SUBSET Match, NEW m \in Match, m \notin S
    PROVE  Cardinality(S \union {m}) = Cardinality(S) + 1
  <1>1. IsFiniteSet(S)
    BY BracketShape, FS_Subset
  <1> QED
    BY <1>1, FS_AddElement

\* A completed match is counted when it is decided, and nothing else is.
LEMMA TallyStep ==
    ASSUME IInv, Tally, [Next]_vars, "reset" \notin Requests, "restart" \notin Requests
    PROVE  Tally'
  <1>0. ~ResetResults /\ \A m \in Match : ~ResetMatch(m)
    BY DEF ResetMatch, ResetResults
  <1>1. \A m \in Match : matches[m].status \in {"completed", "bye"} =>
           /\ matches'[m].status = matches[m].status
           /\ matches'[m].winner = matches[m].winner
           /\ matches'[m].loser = matches[m].loser
    BY <1>0, PlayStep
  <1>2. CASE /\ UNCHANGED standings
             /\ \A m \in Match : matches'[m].status = "completed" =>
                   \/ matches[m].status = "completed"
                   \/ matches'[m].winner = Nobody /\ matches'[m].loser = Nobody
    <2>1. \A t \in Team : Won(matches', t) = Won(matches, t) /\ Lost(matches', t) = Lost(matches, t)
      BY <1>1, <1>2, NobodyIsNoTeam DEF Won, Lost
    <2> QED
      BY <1>2, <2>1 DEF Tally, Won, Lost
  <1>3. ASSUME NEW m \in Match, NEW winner \in Team, CompleteMatch(m, winner)
        PROVE  Tally'
    <2> DEFINE loser == Opponent(matches[m], winner)
    <2>1. /\ matches' = RowsAfter(m, winner) /\ standings' = StandingsAfter(m, winner)
          /\ matches[m].status = "live" /\ Full(matches[m]) /\ winner \in Seated(matches[m])
      BY <1>3 DEF CompleteMatch
    <2>2. /\ matches'[m].status = "completed"
          /\ matches'[m].winner = winner
          /\ matches'[m].loser = loser
          /\ \A y \in Match \ {m} : Settled(matches[y], matches'[y])
          /\ \A y \in Match : matches[y].status \in Status
      BY <2>1, RowsAfterLemma DEF IInv, TypeOK, Row
    <2>3. \A t \in Team :
            /\ standings'[t].wins = IF t = winner THEN standings[t].wins + 1 ELSE standings[t].wins
            /\ standings'[t].losses = IF t = loser THEN standings[t].losses + 1 ELSE standings[t].losses
      BY <2>1, StandingsAfterLemma
    <2> HIDE DEF loser
    <2>4. \A y \in Match \ {m} : matches'[y].status = "completed" => matches[y].status = "completed"
      BY <2>2 DEF Settled, Status
    <2>5. ASSUME NEW t \in Team
          PROVE  /\ Won(matches', t) = IF t = winner THEN Won(matches, t) \union {m} ELSE Won(matches, t)
                 /\ Lost(matches', t) = IF t = loser THEN Lost(matches, t) \union {m} ELSE Lost(matches, t)
      BY <1>1, <2>1, <2>2, <2>4 DEF Won, Lost
    <2>6. ASSUME NEW t \in Team
          PROVE  /\ m \notin Won(matches, t) /\ Won(matches, t) \in SUBSET Match
                 /\ m \notin Lost(matches, t) /\ Lost(matches, t) \in SUBSET Match
      BY <2>1 DEF Won, Lost
    <2>7. ASSUME NEW t \in Team
          PROVE  /\ Cardinality(Won(matches', t)) =
                      IF t = winner THEN Cardinality(Won(matches, t)) + 1 ELSE Cardinality(Won(matches, t))
                 /\ Cardinality(Lost(matches', t)) =
                      IF t = loser THEN Cardinality(Lost(matches, t)) + 1 ELSE Cardinality(Lost(matches, t))
      BY <2>5, <2>6, OneMore
    <2>8. \A t \in Team : Won(matches, t)' = Won(matches', t) /\ Lost(matches, t)' = Lost(matches', t)
      BY DEF Won, Lost
    <2> QED
      BY <2>3, <2>7, <2>8 DEF Tally
  <1> QED
    BY <1>0, <1>2, <1>3, PlayStep, SMTT(30)

\* Before the first result nothing is counted.
LEMMA TallyInit == Init => Tally
  <1> SUFFICES ASSUME Init PROVE Tally
    OBVIOUS
  <1>1. \A t \in Team : Won(matches, t) = {} /\ Lost(matches, t) = {}
    BY GeneratedShape DEF Init, Won, Lost
  <1> QED
    BY <1>1, FS_EmptySet DEF Init, Tally, NoStanding

\* The standings are the completed matches, counted: while results are only
\* added, every win and loss in the table is one completed match and none is
\* forgotten or counted twice, in whatever order matches are played.
THEOREM StandingsAreResults ==
    ASSUME "reset" \notin Requests, "restart" \notin Requests
    PROVE  Spec => []StandingsTally
  <1>1. Tally => StandingsTally
    BY DEF Tally, StandingsTally, Won, Lost
  <1>2. IInv /\ Tally /\ [Next]_vars => Tally'
    BY TallyStep
  <1> QED
    BY Inductive, TallyInit, <1>1, <1>2, PTL DEF Spec

-----------------------------------------------------------------------------
(* Nobody plays against himself *)

AllApart == \A m \in Match : Apart(matches[m])

\* Every action but the swap keeps the two teams of a match apart.
LEMMA ApartStep ==
    ASSUME IInv, AllApart, [Next]_vars, "swap" \notin Requests, "reseat" \notin Requests
    PROVE  AllApart'
  <1>0. /\ matches \in [Match -> Row]
        /\ \A m \in Match : matches[m] \in Row /\ Undecided(matches[m]) /\ Apart(matches[m])
    BY DEF IInv, TypeOK, AllApart
  <1>1. ASSUME NEW m \in Match, NEW to \in Status, UpdateMatchStatus(m, to) PROVE AllApart'
    BY <1>0, <1>1 DEF UpdateMatchStatus, AllApart, Apart, Full, Row
  <1>2. ASSUME NEW m \in Match, NEW lead \in Lead \ {"unset"}, UpdateMatchScore(m, lead) PROVE AllApart'
    BY <1>0, <1>2 DEF UpdateMatchScore, AllApart, Apart, Full, Row
  <1>3. ASSUME NEW m \in Match, ScheduleMatch(m) PROVE AllApart'
    BY <1>0, <1>3 DEF ScheduleMatch, AllApart, Apart, Full, Row
  <1>4. ASSUME NEW r, ScheduleRound(r) PROVE AllApart'
    BY <1>0, <1>4, StatusLemma DEF ScheduleRound, Unstarted, AllApart
  <1>5. ASSUME NEW due \in SUBSET Scheduled, SchedulerTick(due) PROVE AllApart'
    BY <1>0, <1>5, StatusLemma DEF SchedulerTick, Scheduled, AllApart
  <1>6. ASSUME NEW m \in Match, NEW winner \in Team, CompleteMatch(m, winner) PROVE AllApart'
    <2>1. matches' = RowsAfter(m, winner) /\ \A y \in Match : Apart(RowsAfter(m, winner)[y])
      BY <1>0, <1>6, RowsAfterLemma DEF CompleteMatch
    <2> QED
      BY <2>1 DEF AllApart
  <1>7. ASSUME NEW m \in Match, ResetMatch(m) PROVE AllApart'
    <2> DEFINE row   == matches[m]
               live  == [row EXCEPT !.lead = "level", !.winner = Nobody, !.loser = Nobody,
                                    !.status = IF @ = "completed" THEN "live" ELSE @]
               wiped == [matches EXCEPT ![m] = live]
               back  == IF NextMatch[m] = NoMatch \/ row.winner = Nobody THEN wiped
                        ELSE [wiped EXCEPT ![NextMatch[m]] = Unseat(@, row.winner)]
    <2>1. live \in Row /\ Apart(live)
      BY <1>0 DEF Row, Apart, Full, Slot, Status, Lead
    <2>2. \A rows \in [Match -> Row], y \in Match, team \in Slot :
            (\A x \in Match : Apart(rows[x])) =>
              LET n == [rows EXCEPT ![y] = Unseat(@, team)]
              IN  n \in [Match -> Row] /\ \A x \in Match : Apart(n[x])
      BY UnseatLemma
    <2>3. matches' = IF LoserNextMatch[m] = NoMatch \/ row.loser = Nobody THEN back
                     ELSE [back EXCEPT ![LoserNextMatch[m]] = Unseat(@, row.loser)]
      BY <1>7 DEF ResetMatch
    <2>4. /\ row.winner \in Slot /\ row.loser \in Slot
          /\ NextMatch[m] # NoMatch => NextMatch[m] \in Match
          /\ LoserNextMatch[m] # NoMatch => LoserNextMatch[m] \in Match
      BY <1>0, BracketShape DEF Row
    <2> HIDE DEF live
    <2>5. wiped \in [Match -> Row] /\ \A x \in Match : Apart(wiped[x])
      BY <1>0, <2>1
    <2> HIDE DEF row, wiped
    <2>6. back \in [Match -> Row] /\ \A x \in Match : Apart(back[x])
      BY <2>2, <2>4, <2>5
    <2> HIDE DEF back
    <2> QED
      BY <2>2, <2>3, <2>4, <2>6 DEF AllApart
  <1>8. ASSUME NEW t \in Team, NEW u \in Team PROVE ~SwapBracketTeams(t, u)
    BY DEF SwapBracketTeams, MayTrade
  <1>9. ASSUME ResetResults PROVE AllApart'
    <2> DEFINE rows == [m \in Match |-> Cleared(m)]
    <2>1. rows \in [Match -> Row] /\ \A x \in Match : Apart(rows[x])
      BY <1>0, ClearedLemma
    <2>2. matches' = [x \in Match |-> Readvanced(rows, x)]
      BY <1>9 DEF ResetResults
    <2> HIDE DEF rows
    <2> QED
      BY <2>1, <2>2, ReadvancedLemma DEF AllApart
  <1>10. CASE UNCHANGED vars
    BY <1>0, <1>10 DEF vars, AllApart
  <1> QED
    BY <1>1, <1>2, <1>3, <1>4, <1>5, <1>6, <1>7, <1>8, <1>9, <1>10 DEF Next, Play

\* Advancement, byes, the grand-final reset, match resets and restarts never
\* seat a team against itself.
THEOREM NobodyMeetsHimself ==
    ASSUME "swap" \notin Requests, "reseat" \notin Requests
    PROVE  Spec => []NoSelfMatch
  <1>1. Init => AllApart
    BY GeneratedShape DEF Init, AllApart, Apart
  <1>2. IInv /\ AllApart /\ [Next]_vars => AllApart'
    BY ApartStep
  <1>3. AllApart => NoSelfMatch
    BY DEF AllApart, Apart, NoSelfMatch
  <1> QED
    BY Inductive, <1>1, <1>2, <1>3, PTL DEF Spec

-----------------------------------------------------------------------------
(* Round robin *)

\* Every match has its row, teams without a row in the standings have won
\* nothing, and a champion has played everything out and won the most.
TableLeader ==
    /\ \A m \in Match : matches[m].status # "absent"
    /\ \A t \in Team : ~standings[t].row => standings[t].wins = 0
    /\ champion # Nobody =>
          /\ champion \in Team
          /\ \A m \in Match : matches[m].status = "completed"
          /\ \A t \in Team : standings[t].wins <= standings[champion].wins

\* No request deletes a row but the restart.
LEMMA RowsStay ==
    ASSUME IInv, [Next]_vars, ~ResetResults, NEW x \in Match, matches[x].status # "absent",
           \A m \in Match : ~ResetMatch(m)
    PROVE  matches'[x].status # "absent"
  <1>0. matches \in [Match -> Row] /\ \A m \in Match : matches[m] \in Row /\ Undecided(matches[m])
    BY DEF IInv, TypeOK
  <1>1. ASSUME NEW m \in Match, NEW to \in Status, UpdateMatchStatus(m, to)
        PROVE  matches'[x].status # "absent"
    BY <1>0, <1>1 DEF UpdateMatchStatus, Transitions, Row
  <1>2. ASSUME NEW m \in Match, NEW lead \in Lead \ {"unset"}, UpdateMatchScore(m, lead)
        PROVE  matches'[x].status # "absent"
    BY <1>0, <1>2 DEF UpdateMatchScore, Row
  <1>3. ASSUME NEW m \in Match, ScheduleMatch(m) PROVE matches'[x].status # "absent"
    BY <1>0, <1>3 DEF ScheduleMatch, Row
  <1>4. ASSUME NEW r, ScheduleRound(r) PROVE matches'[x].status # "absent"
    BY <1>0, <1>4, StatusLemma DEF ScheduleRound, Unstarted
  <1>5. ASSUME NEW due \in SUBSET Scheduled, SchedulerTick(due) PROVE matches'[x].status # "absent"
    BY <1>0, <1>5, StatusLemma DEF SchedulerTick, Scheduled
  <1>6. ASSUME NEW m \in Match, NEW winner \in Team, CompleteMatch(m, winner)
        PROVE  matches'[x].status # "absent"
    <2>1. /\ matches'[m].status = "completed"
          /\ \A y \in Match \ {m} : Settled(matches[y], matches'[y])
      BY <1>6, RowsAfterLemma DEF CompleteMatch
    <2>2. matches[x].status \in Status
      BY <1>0 DEF Row
    <2> QED
      BY <2>1, <2>2 DEF Settled, Status
  <1>7. ASSUME NEW t \in Team, NEW u \in Team, SwapBracketTeams(t, u)
        PROVE  matches'[x].status # "absent"
    <2> DEFINE mt == Latest(SwapPlaces(t))
               mu == Latest(SwapPlaces(u))
    <2>1. CASE mt = mu
      <3>1. matches' = [matches EXCEPT ![mt] = [matches[mt] EXCEPT !.teamA = matches[mt].teamB,
                                                                 !.teamB = matches[mt].teamA]]
        BY <1>7, <2>1 DEF SwapBracketTeams
      <3> QED
        BY <1>0, <3>1 DEF Row
    <2>2. CASE mt # mu
      <3>1. matches' = [matches EXCEPT ![mt] = Replace(matches[mt], t, u),
                                       ![mu] = Replace(matches[mu], u, t)]
        BY <1>7, <2>2 DEF SwapBracketTeams
      <3> HIDE DEF mt, mu
      <3>2. matches'[x] \in {matches[x], Replace(matches[x], t, u), Replace(matches[x], u, t)}
        BY <1>0, <2>2, <3>1
      <3> QED
        BY <1>0, <3>2, ReplaceLemma
    <2> QED
      BY <2>1, <2>2
  <1>8. CASE UNCHANGED vars
    BY <1>8 DEF vars
  <1> QED
    BY <1>1, <1>2, <1>3, <1>4, <1>5, <1>6, <1>7, <1>8 DEF Next, Play

\* Only a completion counts anything or crowns anybody.
LEMMA OnlyCompletionCounts ==
    ASSUME [Next]_vars, ~ResetResults, \A m \in Match, winner \in Team : ~CompleteMatch(m, winner)
    PROVE  UNCHANGED <<standings, champion>>
  BY DEF Next, Play, vars, UpdateMatchStatus, UpdateMatchScore, ScheduleMatch, ResetMatch,
         ScheduleRound, SchedulerTick, SwapBracketTeams

\* The teams of a completion have their rows in the standings.
LEMMA CountedRows ==
    ASSUME IInv, NEW m \in Match, NEW winner \in Team,
           Full(matches[m]), winner \in Seated(matches[m]), NEW t \in Team
    PROVE  StandingsAfter(m, winner)[t].row <=>
              standings[t].row \/ t = winner \/ t = Opponent(matches[m], winner)
  <1> DEFINE loser == Opponent(matches[m], winner)
             out   == LoserNextMatch[m] = NoMatch /\ ~GrandFinalReset(m, loser)
             lost  == [standings EXCEPT ![loser] = WithLoss(standings[loser], out)]
             after == StandingsAfter(m, winner)
  <1>1. matches[m] \in Row /\ standings \in [Team -> Standing]
    BY DEF IInv, TypeOK
  <1>2. loser \in Team /\ out \in BOOLEAN
    BY <1>1, OpponentLemma
  <1>3. after = [lost EXCEPT ![winner] = WithWin(lost[winner])]
    BY DEF StandingsAfter
  <1> HIDE DEF loser, out, after
  <1>4. WithLoss(standings[loser], out) \in Standing /\ WithLoss(standings[loser], out).row
    BY <1>1, <1>2, CountedLemma DEF WithLoss
  <1>5. /\ lost \in [Team -> Standing]
        /\ lost[t].row <=> standings[t].row \/ t = loser
    <2>1. lost \in [Team -> Standing]
      BY <1>1, <1>2, <1>4
    <2>2. CASE t = loser
      <3>1. lost[t] = WithLoss(standings[loser], out)
        BY <1>1, <1>2, <2>2
      <3> QED
        BY <1>4, <2>1, <2>2, <3>1
    <2>3. CASE t # loser
      <3>1. lost[t] = standings[t]
        BY <1>1, <1>2, <2>3
      <3> QED
        BY <2>1, <2>3, <3>1
    <2> QED
      BY <2>1, <2>2, <2>3
  <1> HIDE DEF lost
  <1>6. /\ WithWin(lost[winner]) \in Standing /\ WithWin(lost[winner]).row
    <2>1. lost[winner] \in Standing
      BY <1>5
    <2>2. WithWin(lost[winner]) \in Standing
      BY <2>1, CountedLemma
    <2>3. [lost[winner] EXCEPT !.row = TRUE, !.wins = lost[winner].wins + 1].row
      BY <2>1 DEF Standing
    <2> QED
      BY <2>2, <2>3 DEF WithWin
  <1>7. CASE t = winner
    <2>1. after[t] = WithWin(lost[winner])
      BY <1>3, <1>5, <1>7
    <2> QED
      BY <1>6, <1>7, <2>1 DEF after
  <1>8. CASE t # winner
    <2>1. after[t] = lost[t]
      BY <1>3, <1>5, <1>8
    <2> QED
      BY <1>5, <1>8, <2>1 DEF after, loser
  <1> QED
    BY <1>7, <1>8

\* The leader of the table is crowned when everything is played, and then
\* nothing is left that could change it.
LEMMA LeaderStep ==
    ASSUME IInv, TableLeader, Format = "round_robin", [Next]_vars,
           "reset" \notin Requests, "restart" \notin Requests
    PROVE  TableLeader' /\ (champion # Nobody => champion' = champion)
  <1>0. ~ResetResults /\ \A m \in Match : ~ResetMatch(m)
    BY DEF ResetMatch, ResetResults
  <1>1. \A m \in Match : matches'[m].status # "absent"
    BY <1>0, RowsStay DEF TableLeader
  <1>2. \A m \in Match : matches[m].status = "completed" => matches'[m].status = "completed"
    BY <1>0, PlayStep
  <1>3. CASE UNCHANGED <<standings, champion>>
    BY <1>1, <1>2, <1>3 DEF TableLeader
  <1>4. ASSUME NEW m \in Match, NEW winner \in Team, CompleteMatch(m, winner)
        PROVE  TableLeader' /\ champion = Nobody
    <2>1. /\ standings' = StandingsAfter(m, winner) /\ matches' = RowsAfter(m, winner)
          /\ Full(matches[m]) /\ winner \in Seated(matches[m]) /\ matches[m].status = "live"
      BY <1>4 DEF CompleteMatch
    <2>2. champion = Nobody
      BY <2>1 DEF TableLeader
    <2>3. \A t \in Team : standings'[t].wins = IF t = winner THEN standings[t].wins + 1
                                               ELSE standings[t].wins
      BY <2>1, StandingsAfterLemma
    <2>4. \A t \in Team : standings'[t].row <=>
             standings[t].row \/ t = winner \/ t = Opponent(matches[m], winner)
      BY <2>1, CountedRows
    <2>5. \A t \in Team : ~standings'[t].row => standings'[t].wins = 0
      BY <2>3, <2>4 DEF TableLeader
    <2>6. ASSUME champion' # Nobody
          PROVE  /\ champion' \in Team
                 /\ \A x \in Match : matches'[x].status = "completed"
                 /\ \A t \in Team : standings'[t].wins <= standings'[champion'].wins
      <3>1. /\ \A x \in Match : matches'[x].status \in {"completed", "absent"}
            /\ champion' \in FirstRanked(standings')
        BY <1>4, <2>1, <2>2, <2>6 DEF CompleteMatch, Crowned
      <3>2. \A t \in Team : standings'[t].wins \in Nat
        BY TypeStep DEF IInv, TypeOK, Standing
      <3>3. /\ champion' \in Team
            /\ \A u \in Team : standings'[u].row => standings'[u].wins <= standings'[champion'].wins
        BY <3>1, <3>2 DEF FirstRanked
      <3> QED
        BY <1>1, <2>5, <3>1, <3>2, <3>3
    <2> QED
      BY <1>1, <2>2, <2>5, <2>6 DEF TableLeader
  <1> QED
    BY <1>0, <1>3, <1>4, OnlyCompletionCounts, SMTT(30)

\* In a round robin the table is led rightly at every step.
LEMMA LeaderInvariant ==
    ASSUME BracketFits, Format = "round_robin", "reset" \notin Requests, "restart" \notin Requests
    PROVE  Spec => [](IInv /\ TableLeader)
  <1>1. Init => TableLeader
    BY DEF Init, TableLeader, NoStanding, BracketFits, RoundRobinShape, Playable
  <1>2. IInv /\ TableLeader /\ [Next]_vars => TableLeader'
    BY LeaderStep
  <1> QED
    BY Inductive, <1>1, <1>2, PTL DEF Spec

\* A round robin crowns nobody before everything is played, and then a team
\* that nobody has more wins than, whatever is scored, swapped or forced.
THEOREM TheTableDecides ==
    ASSUME BracketFits, "reset" \notin Requests, "restart" \notin Requests
    PROVE  Spec => []RoundRobinChampion
  <1>1. CASE Format = "round_robin"
    <2>1. TableLeader => RoundRobinChampion
      BY DEF TableLeader, RoundRobinChampion
    <2> QED
      BY <1>1, <2>1, LeaderInvariant, PTL
  <1>2. CASE Format # "round_robin"
    <2>1. RoundRobinChampion
      BY <1>2 DEF RoundRobinChampion
    <2> QED
      BY <2>1, PTL
  <1> QED
    BY <1>1, <1>2

-----------------------------------------------------------------------------
(* Play in an elimination bracket, for every bracket of the shape that      *)
(* BracketLinks states: where teams sit, how often they have lost, and on   *)
(* which side of the bracket.                                               *)

Double == Format = "double_elimination"

-----------------------------------------------------------------------------
(* The inductive invariant, in parts *)

\* A team sits in at most one match that is still to be decided.
OneSeat ==
    \A t \in Team : \A x, y \in Match :
        (Open(x) /\ Open(y) /\ t \in Seated(matches[x]) /\ t \in Seated(matches[y])) => x = y

\* A team is out when it has lost as often as it may, and who has lost has a
\* row in the standings.
LossesCounted ==
    \A t \in Team :
        /\ standings[t].losses <= Lives
        /\ standings[t].eliminated <=> standings[t].losses = Lives
        /\ standings[t].losses > 0 => standings[t].row

\* Who is seated in a match to be decided is not out.
StillIn == \A x \in Match : Open(x) => \A t \in Seated(matches[x]) : ~standings[t].eliminated

FeedersOver(position, x) ==
    \A m \in Match : (Position[m] = position /\ NextMatch[m] = x) => Over(matches[m])

\* The losses of a team seated in x, by the side of the bracket.  The grand
\* final has its team of a side only once that side is decided.
OnItsSide(t, x) ==
    LET losses == standings[t].losses
    IN  CASE Position[x] = "winners" -> losses = 0
          [] Position[x] = "losers" -> losses = 1
          [] Position[x] = "grand_final_reset" -> losses = 1
          [] OTHER -> \/ losses = 0 /\ standings[t].row /\ FeedersOver("winners", x)
                      \/ losses = 1 /\ FeedersOver("losers", x)

Sides == Double => \A x \in Match : Open(x) => \A t \in Seated(matches[x]) : OnItsSide(t, x)

\* The grand final is between the two sides.
Finalists ==
    Double => \A x \in Match : (Open(x) /\ Position[x] = "grand_final") =>
        \A t, u \in Seated(matches[x]) : standings[t].losses = standings[u].losses => t = u

\* The reset exists only after the grand final, and with its two teams.
ResetLast ==
    Double => \A x \in Match :
        (Position[x] = "grand_final_reset" /\ matches[x].status # "absent") =>
            /\ Full(matches[x])
            /\ \A y \in Match : Position[y] = "grand_final" => Over(matches[y])

Placed == OneSeat /\ LossesCounted /\ StillIn /\ Sides /\ Finalists /\ ResetLast

Seating == AllApart /\ Placed

-----------------------------------------------------------------------------
(* What a completion does to the rows *)

\* Seat adds the team when there is a free slot.
LEMMA SeatTeams ==
    ASSUME NEW row \in Row, NEW team \in Team
    PROVE  /\ Seated(Seat(row, team)) \subseteq Seated(row) \union {team}
           /\ ~Full(row) => Seated(Seat(row, team)) = Seated(row) \union {team}
           /\ Full(row) => Seat(row, team) = row
           /\ ~Full(row) /\ Seated(row) # {} /\ team \notin Seated(row) => Full(Seat(row, team))
  BY NobodyIsNoTeam DEF Row, Slot, Seat, Seated, Full

\* Only teams sit in a row; a full row has two of them, an empty one none.
LEMMA SeatedTeams ==
    ASSUME NEW row \in Row
    PROVE  /\ Seated(row) \subseteq Team
           /\ Full(row) => Seated(row) = {row.teamA, row.teamB}
           /\ ~Full(row) /\ ~Single(row) => Seated(row) = {}
           /\ Single(row) => Seated(row) = {SoleTeam(row)}
           /\ Single(row) => ~Full(row)
  BY DEF Row, Slot, Seated, Full, Single, SoleTeam

\* The rows after AdvanceWinner, row by row.
LEMMA AdvancedRow ==
    ASSUME NEW rows \in [Match -> Row], NEW m \in Match, NEW team \in Slot, NEW y \in Match
    PROVE  AdvanceWinner(rows, m, team)[y] =
             IF y = NextMatch[m] THEN Seat(rows[y], team) ELSE rows[y]
  BY BracketShape DEF AdvanceWinner

\* The row of a match that is over without being played.
Passed(row) == [row EXCEPT !.status = "bye", !.winner = SoleTeam(row)]

\* It keeps its teams, and the team alone in it is the winner.
LEMMA PassedRow ==
    ASSUME NEW row \in Row
    PROVE  /\ Passed(row) \in Row
           /\ Passed(row).status = "bye"
           /\ Passed(row).teamA = row.teamA
           /\ Passed(row).teamB = row.teamB
           /\ Passed(row).winner = SoleTeam(row)
           /\ Passed(row).loser = row.loser
           /\ Seated(Passed(row)) = Seated(row)
           /\ Full(Passed(row)) = Full(row)
  <1> DEFINE team == SoleTeam(row)
  <1>1. team \in Slot
    BY SoleTeamType
  <1>2. Passed(row) = [row EXCEPT !.status = "bye", !.winner = team]
    BY DEF Passed
  <1> HIDE DEF team
  <1>3. Passed(row) \in Row
    BY <1>1, <1>2 DEF Row, Status
  <1>4. /\ Passed(row).status = "bye"
        /\ Passed(row).teamA = row.teamA
        /\ Passed(row).teamB = row.teamB
        /\ Passed(row).winner = team
        /\ Passed(row).loser = row.loser
    BY <1>2 DEF Row
  <1> QED
    BY <1>3, <1>4 DEF team, Seated, Full

\* The rows after PassAlone, row by row.
LEMMA PassAloneRow ==
    ASSUME NEW rows \in [Match -> Row], NEW x \in Match, NextMatch[x] # x, NEW y \in Match
    PROVE  PassAlone(rows, x)[y] =
             IF y = x THEN Passed(rows[x])
             ELSE IF y = NextMatch[x] THEN Seat(rows[y], SoleTeam(rows[x]))
             ELSE rows[y]
  <1> DEFINE bye == [rows EXCEPT ![x].status = "bye", ![x].winner = SoleTeam(rows[x])]
             team == SoleTeam(rows[x])
  <1>1. bye = [rows EXCEPT ![x] = Passed(rows[x])]
    BY DEF Passed
  <1>2. team \in Slot /\ Passed(rows[x]) \in Row
    BY SoleTeamType, PassedRow
  <1>3. PassAlone(rows, x) = AdvanceWinner(bye, x, team)
    BY DEF PassAlone
  <1> HIDE DEF bye, team
  <1>4. bye \in [Match -> Row] /\ bye[x] = Passed(rows[x]) /\ \A z \in Match : z # x => bye[z] = rows[z]
    BY <1>1, <1>2
  <1>5. PassAlone(rows, x)[y] = IF y = NextMatch[x] THEN Seat(bye[y], team) ELSE bye[y]
    BY <1>2, <1>3, <1>4, AdvancedRow
  <1> QED
    BY <1>4, <1>5 DEF team

\* Whether the loser of m is the last that match x waits for.
Alone(rows, m, team) ==
    LET x == LoserNextMatch[m]
    IN  /\ x # NoMatch
        /\ team \notin Seated(rows[x])
        /\ rows[x].status = "pending"
        /\ Single(Seat(rows[x], team))
        /\ ~AwaitsFeeder([rows EXCEPT ![x] = Seat(@, team)], x, m)

\* The rows after AdvanceToLosers, row by row.
LEMMA DroppedRow ==
    ASSUME NEW rows \in [Match -> Row], NEW m \in Match, NEW team \in Team, NEW y \in Match,
           LinksForward
    PROVE  LET x == LoserNextMatch[m]
           IN  AdvanceToLosers(rows, m, team)[y] =
                 IF Alone(rows, m, team)
                 THEN IF y = x THEN Passed(Seat(rows[x], team))
                      ELSE IF y = NextMatch[x] THEN Seat(rows[y], team)
                      ELSE rows[y]
                 ELSE IF y = x THEN Seat(rows[x], team) ELSE rows[y]
  <1> DEFINE x == LoserNextMatch[m]
             seated == [rows EXCEPT ![x] = Seat(@, team)]
  <1>1. CASE x = NoMatch
    BY <1>1, BracketShape DEF AdvanceToLosers, Alone
  <1>2. CASE x # NoMatch
    <2>1. x \in Match /\ team \in Slot
      BY <1>2, BracketShape DEF Slot
    <2>2. Seat(rows[x], team) \in Row /\ Seat(rows[x], team).status = rows[x].status
      BY <2>1, SeatLemma
    <2>3. seated \in [Match -> Row] /\ seated[x] = Seat(rows[x], team)
          /\ \A z \in Match : z # x => seated[z] = rows[z]
      BY <2>1, <2>2
    <2>4. AdvanceToLosers(rows, m, team) = IF Alone(rows, m, team) THEN PassAlone(seated, x) ELSE seated
      BY <1>2, <2>2, <2>3 DEF AdvanceToLosers, Alone
    <2>5. NextMatch[x] # x
      <3>1. <<x, "winner">> \in Link /\ To(<<x, "winner">>) = NextMatch[x] /\ <<x, "winner">>[1] = x
        BY <2>1 DEF Link, To
      <3>2. CASE NextMatch[x] = NoMatch
        BY <3>2, <2>1, BracketShape
      <3>3. CASE NextMatch[x] # NoMatch
        <4>1. Round[x] < Round[NextMatch[x]] /\ Round[x] \in Nat
          BY <3>1, <3>3, <2>1 DEF LinksForward
        <4> QED
          BY <4>1
      <3> QED
        BY <3>2, <3>3
    <2>6. CASE ~Alone(rows, m, team)
      BY <2>3, <2>4, <2>6
    <2>7. CASE Alone(rows, m, team)
      <3>1. SoleTeam(seated[x]) = team
        <4>1. Single(seated[x]) /\ team \in Seated(seated[x])
          <5>1. ~Full(rows[x])
            BY <2>7, <2>1, <2>2, SeatTeams, SeatedTeams DEF Alone
          <5> QED
            BY <2>7, <2>1, <2>3, <5>1, SeatTeams DEF Alone
        <4> QED
          BY <4>1, <2>1, <2>3, SeatedTeams
      <3>2. PassAlone(seated, x)[y] =
              IF y = x THEN Passed(seated[x])
              ELSE IF y = NextMatch[x] THEN Seat(seated[y], SoleTeam(seated[x]))
              ELSE seated[y]
        <4> HIDE DEF seated, x
        <4> QED
          BY <2>1, <2>3, <2>5, PassAloneRow
      <3> HIDE DEF seated, x
      <3>3. AdvanceToLosers(rows, m, team)[y] = PassAlone(seated, x)[y]
        BY <2>4, <2>7
      <3> QED
        BY <2>3, <2>7, <3>1, <3>2, <3>3 DEF x
    <2> QED
      BY <2>6, <2>7
  <1> QED
    BY <1>1, <1>2

\* Links never lead back.
LEMMA LinksApart ==
    ASSUME LinksForward, NEW m \in Match
    PROVE  /\ NextMatch[m] # m /\ LoserNextMatch[m] # m
           /\ LoserNextMatch[m] # NoMatch =>
                 /\ LoserNextMatch[m] \in Match
                 /\ NextMatch[LoserNextMatch[m]] \notin {m, LoserNextMatch[m]}
           /\ NextMatch[m] # NoMatch => NextMatch[m] \in Match
  <1>1. ASSUME NEW x \in Match
        PROVE  /\ NextMatch[x] # NoMatch =>
                     NextMatch[x] \in Match /\ Round[x] < Round[NextMatch[x]]
               /\ LoserNextMatch[x] # NoMatch =>
                     LoserNextMatch[x] \in Match /\ Round[x] < Round[LoserNextMatch[x]]
    <2>1. <<x, "winner">> \in Link /\ <<x, "loser">> \in Link
      BY DEF Link
    <2>2. To(<<x, "winner">>) = NextMatch[x] /\ To(<<x, "loser">>) = LoserNextMatch[x]
      BY DEF To
    <2> QED
      BY <2>1, <2>2 DEF LinksForward
  <1>2. \A x \in Match : Round[x] \in Nat /\ x # NoMatch
    BY BracketShape DEF LinksForward
  <1> QED
    BY <1>1, <1>2

-----------------------------------------------------------------------------
(* The rows after CompleteMatch, in the order in which they are written *)

Loser(m, winner) == Opponent(matches[m], winner)

\* With the result and the winner advanced.
WonRows(m, winner) == AdvanceWinner([matches EXCEPT ![m] = Decided(@, winner)], m, winner)

\* With the loser in the losers bracket.
Moved(m, winner) == AdvanceToLosers(WonRows(m, winner), m, Loser(m, winner))

\* The loser passes his first losers match without playing.
Passes(m, winner) == Alone(WonRows(m, winner), m, Loser(m, winner))

\* Where the loser goes.
Drops(m, winner) ==
    IF Passes(m, winner) THEN NextMatch[LoserNextMatch[m]] ELSE LoserNextMatch[m]

\* A match that is completed: live, with both its teams.
Completes(m, winner) ==
    /\ matches[m].status = "live"
    /\ Full(matches[m])
    /\ winner \in Seated(matches[m])

\* Winner and loser move on first, then the reset of the grand final is made.
LEMMA RowsAfterMoved ==
    \A m \in Match, winner \in Team :
        RowsAfter(m, winner) = IF GrandFinalReset(m, Loser(m, winner))
                               THEN CreateGrandFinalReset(Moved(m, winner), winner, Loser(m, winner))
                               ELSE Moved(m, winner)
  BY DEF RowsAfter, Moved, WonRows, Loser

\* The match has its result, the next match its winner, and no other row changes.
LEMMA WonRow ==
    ASSUME IInv, LinksForward, NEW m \in Match, NEW winner \in Team, Completes(m, winner)
    PROVE  /\ WonRows(m, winner) \in [Match -> Row]
           /\ \A y \in Match :
                 WonRows(m, winner)[y] =
                    IF y = m THEN Decided(matches[m], winner)
                    ELSE IF y = NextMatch[m] THEN Seat(matches[y], winner)
                    ELSE matches[y]
  <1> DEFINE result == [matches EXCEPT ![m] = Decided(@, winner)]
  <1>1. matches \in [Match -> Row] /\ matches[m] \in Row /\ winner \in Slot
    BY DEF IInv, TypeOK, Slot
  <1>2. Decided(matches[m], winner) \in Row
    BY <1>1, DecidedLemma DEF Completes
  <1>3. result \in [Match -> Row] /\ result[m] = Decided(matches[m], winner)
        /\ \A y \in Match : y # m => result[y] = matches[y]
    BY <1>1, <1>2
  <1>4. WonRows(m, winner) = AdvanceWinner(result, m, winner)
    BY DEF WonRows
  <1> HIDE DEF result
  <1>5. WonRows(m, winner) \in [Match -> Row]
    BY <1>1, <1>3, <1>4, AdvanceWinnerLemma
  <1>6. \A y \in Match : WonRows(m, winner)[y] =
                            IF y = NextMatch[m] THEN Seat(result[y], winner) ELSE result[y]
    BY <1>1, <1>3, <1>4, AdvancedRow
  <1> QED
    BY <1>3, <1>5, <1>6, LinksApart

\* When the winner and the loser have moved on: nobody has lost his seat, only
\* these two have taken new ones, in the matches the links name, and only the
\* match decided and the one passed have a new status.
LEMMA MovedSeats ==
    ASSUME IInv, LinksForward, NEW m \in Match, NEW winner \in Team, Completes(m, winner),
           NEW y \in Match
    PROVE  LET old == matches[y]
               new == Moved(m, winner)[y]
           IN  /\ y = m => new.status = "completed"
               /\ (y = LoserNextMatch[m] /\ Passes(m, winner)) =>
                     new.status = "bye" /\ old.status = "pending" /\ Seated(old) = {}
               /\ (y # m /\ ~(y = LoserNextMatch[m] /\ Passes(m, winner))) =>
                     new.status = old.status
               /\ Seated(old) \subseteq Seated(new)
               /\ Full(old) => Full(new)
               /\ \A t \in Seated(new) :
                     \/ t \in Seated(old)
                     \/ t = winner /\ y = NextMatch[m]
                     \/ t = Loser(m, winner) /\ y = Drops(m, winner)
                     \/ t = Loser(m, winner) /\ y = LoserNextMatch[m] /\ Passes(m, winner)
  <1> DEFINE old   == matches[y]
             won   == WonRows(m, winner)[y]
             new   == Moved(m, winner)[y]
             loser == Loser(m, winner)
             x     == LoserNextMatch[m]
             pass  == Passes(m, winner)
             beyond == NextMatch[x]
  <1>1. /\ old \in Row /\ matches[m] \in Row
        /\ loser \in Team
        /\ WonRows(m, winner) \in [Match -> Row] /\ won \in Row
    BY OpponentLemma, WonRow DEF IInv, TypeOK, Loser, Completes
  <1>2. new = IF pass
              THEN IF y = x THEN Passed(Seat(won, loser))
                   ELSE IF y = beyond THEN Seat(won, loser)
                   ELSE won
              ELSE IF y = x THEN Seat(won, loser) ELSE won
    BY <1>1, DroppedRow DEF Moved, Passes
  <1>3. /\ y = m => won.status = "completed" /\ Seated(won) = Seated(old) /\ Full(won)
        /\ y # m => won.status = old.status
        /\ Seated(old) \subseteq Seated(won)
        /\ Full(old) => Full(won)
        /\ \A t \in Seated(won) : t \in Seated(old) \/ (t = winner /\ y = NextMatch[m])
    <2>1. CASE y = m
      <3>1. /\ Decided(matches[m], winner).status = "completed"
            /\ Decided(matches[m], winner).teamA = matches[m].teamA
            /\ Decided(matches[m], winner).teamB = matches[m].teamB
        BY <1>1 DEF Decided, Row
      <3>2. won = Decided(matches[m], winner)
        BY <2>1, WonRow
      <3> QED
        BY <2>1, <3>1, <3>2 DEF Seated, Full, Completes
    <2>2. CASE y # m /\ y = NextMatch[m]
      <3>1. won = Seat(old, winner)
        BY <2>2, WonRow
      <3>2. winner \in Slot
        BY DEF Slot
      <3> QED
        BY <1>1, <2>2, <3>1, <3>2, SeatTeams, SeatLemma
    <2>3. CASE y # m /\ y # NextMatch[m]
      <3>1. won = old
        BY <2>3, WonRow
      <3> QED
        BY <2>3, <3>1
    <2> QED
      BY <2>1, <2>2, <2>3
  <1>4. LET seat == Seat(won, loser)
        IN  /\ seat \in Row /\ seat.status = won.status
            /\ Seated(won) \subseteq Seated(seat)
            /\ Full(won) => Full(seat)
            /\ \A t \in Seated(seat) : t \in Seated(won) \/ t = loser
            /\ (Single(seat) /\ loser \notin Seated(won)) => Seated(won) = {}
            /\ Passed(seat).status = "bye"
            /\ Seated(Passed(seat)) = Seated(seat)
            /\ Full(Passed(seat)) = Full(seat)
    <2>1. loser \in Slot
      BY <1>1 DEF Slot
    <2> HIDE DEF won, loser
    <2>2. (Single(Seat(won, loser)) /\ loser \notin Seated(won)) => Seated(won) = {}
      <3>1. CASE Full(won)
        BY <1>1, <3>1, SeatTeams, SeatedTeams
      <3>2. CASE ~Full(won)
        <4>1. Seated(Seat(won, loser)) = Seated(won) \union {loser}
          BY <1>1, <3>2, SeatTeams
        <4>2. Single(Seat(won, loser)) => \E t : Seated(Seat(won, loser)) = {t}
          BY <1>1, <2>1, SeatLemma, SeatedTeams
        <4> QED
          BY <4>1, <4>2
      <3> QED
        BY <3>1, <3>2
    <2> QED
      BY <1>1, <2>1, <2>2, SeatTeams, SeatLemma, PassedRow
  <1>5. /\ x # m
        /\ y = x /\ pass => beyond \notin {m, x}
        /\ pass => x \in Match /\ beyond \notin {m, x}
        /\ pass /\ y = x => won.status = "pending" /\ loser \notin Seated(won) /\ Single(Seat(won, loser))
    BY LinksApart DEF Passes, Alone
  <1>6. Drops(m, winner) = IF pass THEN beyond ELSE x
    BY DEF Drops
  <1> HIDE DEF old, won, new, loser, x, pass, beyond
  <1> DEFINE Claim ==
               /\ y = m => new.status = "completed"
               /\ (y = x /\ pass) => new.status = "bye" /\ old.status = "pending" /\ Seated(old) = {}
               /\ (y # m /\ ~(y = x /\ pass)) => new.status = old.status
               /\ Seated(old) \subseteq Seated(new)
               /\ Full(old) => Full(new)
               /\ \A t \in Seated(new) :
                     \/ t \in Seated(old)
                     \/ t = winner /\ y = NextMatch[m]
                     \/ t = loser /\ y = Drops(m, winner)
                     \/ t = loser /\ y = x /\ pass
  <1>7. ASSUME pass, y = x PROVE Claim
    BY <1>2, <1>3, <1>4, <1>5, <1>6, <1>7
  <1>8. ASSUME pass, y # x PROVE Claim
    BY <1>2, <1>3, <1>4, <1>5, <1>6, <1>8
  <1>9. ASSUME ~pass PROVE Claim
    BY <1>2, <1>3, <1>4, <1>5, <1>6, <1>9
  <1>10. Claim
    BY <1>7, <1>8, <1>9
  <1> QED
    BY <1>10 DEF old, new, loser, x, pass

\* The record of a team after a completion.
LEMMA StandingsRow ==
    ASSUME IInv, NEW m \in Match, NEW winner \in Team, Completes(m, winner),
           AllApart, NEW t \in Team
    PROVE  LET new == StandingsAfter(m, winner)[t]
           IN  /\ t \in {winner, Loser(m, winner)} => new.row
               /\ t \notin {winner, Loser(m, winner)} => new = standings[t]
               /\ t # Loser(m, winner) => new.losses = standings[t].losses
               /\ t = Loser(m, winner) => new.losses = standings[t].losses + 1
               /\ t # Loser(m, winner) => (new.eliminated <=> standings[t].eliminated)
               /\ t = Loser(m, winner) =>
                     (new.eliminated <=>
                        \/ standings[t].eliminated
                        \/ LoserNextMatch[m] = NoMatch /\ ~GrandFinalReset(m, t))
  <1> DEFINE loser == Opponent(matches[m], winner)
             out   == LoserNextMatch[m] = NoMatch /\ ~GrandFinalReset(m, loser)
             lost  == [standings EXCEPT ![loser] = WithLoss(standings[loser], out)]
             after == StandingsAfter(m, winner)
  <1>1. standings \in [Team -> Standing] /\ loser \in Team /\ loser # winner /\ out \in BOOLEAN
    BY OpponentLemma DEF IInv, TypeOK, AllApart, Completes
  <1>2. after = [lost EXCEPT ![winner] = WithWin(lost[winner])]
    BY DEF StandingsAfter
  <1>3. Loser(m, winner) = loser
    BY DEF Loser
  <1>4. \A s \in Standing : /\ WithWin(s).row = TRUE
                            /\ WithWin(s).losses = s.losses
                            /\ WithWin(s).eliminated = s.eliminated
                            /\ WithLoss(s, out).row = TRUE
                            /\ WithLoss(s, out).losses = s.losses + 1
                            /\ WithLoss(s, out).eliminated <=> (s.eliminated \/ out)
    BY DEF WithWin, WithLoss, Standing
  <1>5. lost[loser] = WithLoss(standings[loser], out) /\ lost[winner] = standings[winner]
        /\ \A u \in Team : u # loser => lost[u] = standings[u]
    BY <1>1
  <1>6. /\ after[winner] = WithWin(standings[winner])
        /\ after[loser] = WithLoss(standings[loser], out)
        /\ \A u \in Team : u \notin {winner, loser} => after[u] = standings[u]
    <2> HIDE DEF loser, out
    <2>1. lost \in [Team -> {lost[u] : u \in Team}]
      BY <1>1
    <2> HIDE DEF lost
    <2> QED
      BY <1>1, <1>2, <1>5, <2>1
  <1>7. out <=> LoserNextMatch[m] = NoMatch /\ ~GrandFinalReset(m, loser)
    OBVIOUS
  <1> HIDE DEF loser, out, lost, after
  <1>8. CASE t = winner
    BY <1>1, <1>3, <1>4, <1>6, <1>8 DEF after
  <1>9. CASE t = loser
    <2> DEFINE new == WithLoss(standings[t], out)
    <2>0. standings[t] \in Standing /\ after[t] = new
      BY <1>1, <1>6, <1>9
    <2>1. /\ new.row /\ new.losses = standings[t].losses + 1
          /\ new.eliminated <=> (standings[t].eliminated \/ out)
      BY <1>4, <2>0
    <2> HIDE DEF new
    <2>2. /\ after[t].row /\ after[t].losses = standings[t].losses + 1
          /\ after[t].eliminated <=> (standings[t].eliminated \/ out)
      BY <2>0, <2>1
    <2> QED
      BY <1>1, <1>3, <1>7, <1>9, <2>2 DEF after
  <1>10. CASE t \notin {winner, loser}
    BY <1>3, <1>6, <1>10 DEF after
  <1> QED
    BY <1>8, <1>9, <1>10

\* What a completion does to the teams of matches to be decided: a match is
\* the reset it creates, or it was there, and new in it are at most the winner,
\* in the next match, and the loser, where he drops to.
LEMMA Landing ==
    ASSUME IInv, OneSeat, AllApart, LinksForward,
           NEW m \in Match, NEW winner \in Team, CompleteMatch(m, winner)
    PROVE  LET loser == Loser(m, winner)
           IN  /\ Completes(m, winner)
               /\ loser \in Team /\ loser # winner /\ loser \in Seated(matches[m])
               /\ Seated(matches[m]) = {winner, loser}
               /\ matches'[m].status = "completed"
               /\ Passes(m, winner) => /\ LoserNextMatch[m] \in Match
                                       /\ matches[LoserNextMatch[m]].status = "pending"
                                       /\ matches'[LoserNextMatch[m]].status = "bye"
               /\ \A y \in Match :
                     /\ Over(matches[y]) => Over(matches'[y])
                     /\ Full(matches[y]) /\ matches[y].status # "absent" => Full(matches'[y])
                     /\ matches[y].status # "absent" => matches'[y].status # "absent"
                     /\ Playable(matches'[y]) =>
                           \/ /\ GrandFinalReset(m, loser)
                              /\ Position[y] = "grand_final_reset"
                              /\ matches[y].status = "absent"
                              /\ Seated(matches'[y]) = {winner, loser} /\ Full(matches'[y])
                           \/ /\ y # m /\ Playable(matches[y])
                              /\ matches'[y].status = matches[y].status
                              /\ \A t \in Seated(matches'[y]) :
                                    IF t = winner THEN y = NextMatch[m]
                                    ELSE IF t = loser THEN y = Drops(m, winner)
                                    ELSE t \in Seated(matches[y])
  <1> DEFINE loser == Loser(m, winner)
             moved == Moved(m, winner)
             x     == LoserNextMatch[m]
             Lands(y, rows) == \A t \in Seated(rows[y]) :
                                  IF t = winner THEN y = NextMatch[m]
                                  ELSE IF t = loser THEN y = Drops(m, winner)
                                  ELSE t \in Seated(matches[y])
  <1>1. /\ Completes(m, winner)
        /\ matches' = RowsAfter(m, winner)
        /\ matches \in [Match -> Row] /\ matches[m] \in Row
    BY DEF CompleteMatch, Completes, IInv, TypeOK
  <1>2. /\ loser \in Team /\ loser # winner /\ loser \in Seated(matches[m])
        /\ Seated(matches[m]) = {winner, loser}
    BY <1>1, OpponentLemma, NobodyIsNoTeam DEF Loser, Opponent, Completes, AllApart, Apart, Seated, Full, Row, Slot
  <1>3. Passes(m, winner) => x \in Match
    BY LinksApart DEF Passes, Alone
  <1>4. \A y \in Match :
          /\ y = m => moved[y].status = "completed"
          /\ (y = x /\ Passes(m, winner)) => moved[y].status = "bye" /\ matches[y].status = "pending"
          /\ (y # m /\ ~(y = x /\ Passes(m, winner))) => moved[y].status = matches[y].status
          /\ Full(matches[y]) => Full(moved[y])
          /\ \A t \in Seated(moved[y]) :
                \/ t \in Seated(matches[y])
                \/ t = winner /\ y = NextMatch[m]
                \/ t = loser /\ y = Drops(m, winner)
                \/ t = loser /\ y = x /\ Passes(m, winner)
    BY <1>1, MovedSeats
  <1>5. \A y \in Match : Playable(moved[y]) =>
          y # m /\ Playable(matches[y]) /\ moved[y].status = matches[y].status /\ Lands(y, moved)
    <2> SUFFICES ASSUME NEW y \in Match, Playable(moved[y])
                 PROVE  y # m /\ Playable(matches[y]) /\ moved[y].status = matches[y].status /\ Lands(y, moved)
      OBVIOUS
    <2>1. y # m /\ moved[y].status = matches[y].status /\ Playable(matches[y]) /\ ~(y = x /\ Passes(m, winner))
      BY <1>4 DEF Playable
    <2>2. ASSUME NEW t \in Seated(matches[y]) PROVE t \notin {winner, loser}
      <3>1. Open(y) /\ Open(m)
        BY <1>1, <2>1 DEF Open, Playable, Completes
      <3> QED
        BY <1>2, <2>1, <2>2, <3>1 DEF OneSeat
    <2> QED
      BY <1>2, <1>4, <2>1, <2>2
  <1>6. \A y \in Match :
          matches'[y] = IF /\ GrandFinalReset(m, loser)
                           /\ Position[y] = "grand_final_reset" /\ moved[y].status = "absent"
                        THEN [EmptyRow EXCEPT !.teamA = winner, !.teamB = loser]
                        ELSE moved[y]
    BY <1>1, RowsAfterMoved DEF CreateGrandFinalReset
  <1>7. LET new == [EmptyRow EXCEPT !.teamA = winner, !.teamB = loser]
        IN  Seated(new) = {winner, loser} /\ Full(new) /\ new.status = "pending"
    BY <1>2, NobodyIsNoTeam DEF EmptyRow, Seated, Full
  <1> HIDE DEF loser, moved, x, Lands
  <1>8. matches'[m].status = "completed" /\ (Passes(m, winner) => matches'[x].status = "bye")
    BY <1>3, <1>4, <1>6
  <1>9. ASSUME NEW y \in Match
        PROVE  /\ Over(matches[y]) => Over(matches'[y])
               /\ Full(matches[y]) /\ matches[y].status # "absent" => Full(matches'[y])
               /\ matches[y].status # "absent" => matches'[y].status # "absent"
    BY <1>4, <1>6, <1>7 DEF Over
  <1>10. ASSUME NEW y \in Match, Playable(matches'[y])
         PROVE  \/ /\ GrandFinalReset(m, loser)
                   /\ Position[y] = "grand_final_reset"
                   /\ matches[y].status = "absent"
                   /\ Seated(matches'[y]) = {winner, loser} /\ Full(matches'[y])
                \/ /\ y # m /\ Playable(matches[y]) /\ matches'[y].status = matches[y].status
                   /\ Lands(y, matches')
    <2>1. CASE /\ GrandFinalReset(m, loser)
               /\ Position[y] = "grand_final_reset" /\ moved[y].status = "absent"
      BY <1>4, <1>6, <1>7, <2>1
    <2>2. CASE matches'[y] = moved[y]
      BY <1>5, <1>10, <2>2 DEF Lands
    <2> QED
      BY <1>6, <2>1, <2>2
  <1> QED
    BY <1>1, <1>2, <1>3, <1>4, <1>8, <1>9, <1>10 DEF loser, x, Lands

-----------------------------------------------------------------------------
(* A completion keeps the seating *)

\* Single elimination has no losers bracket and no reset.
LEMMA SingleFacts ==
    ASSUME EliminationShape, Elimination, ~Double, NEW m \in Match
    PROVE  /\ LoserNextMatch[m] = NoMatch
           /\ Lives = 1
           /\ \A t \in Team : ~GrandFinalReset(m, t)
  BY FormatKnown DEF EliminationShape, SingleShape, Elimination, Double, Lives, GrandFinalReset

\* Where the links of double elimination lead, by the side of the bracket.
LEMMA DoubleFacts ==
    ASSUME EliminationShape, Double, NEW m \in Match
    PROVE  /\ Position[m] \in {"winners", "losers", "grand_final", "grand_final_reset"}
           /\ Position[m] = "winners" =>
                 /\ NextMatch[m] \in Match
                 /\ Position[NextMatch[m]] \in {"winners", "grand_final"}
                 /\ LoserNextMatch[m] \in Match
                 /\ Position[LoserNextMatch[m]] = "losers"
           /\ Position[m] = "losers" =>
                 /\ NextMatch[m] \in Match
                 /\ Position[NextMatch[m]] \in {"losers", "grand_final"}
                 /\ LoserNextMatch[m] = NoMatch
           /\ Position[m] \in {"grand_final", "grand_final_reset"} =>
                 NextMatch[m] = NoMatch /\ LoserNextMatch[m] = NoMatch
           /\ Lives = 2
  BY DEF EliminationShape, DoubleShape, DoubleLinks, Double, Lives

\* Somebody passes a losers match only when a winners match sends him there.
LEMMA PassFacts ==
    ASSUME EliminationShape, Double, NEW m \in Match, NEW winner \in Team
    PROVE  Drops(m, winner) \in Match =>
             /\ Position[m] = "winners"
             /\ LoserNextMatch[m] \in Match
             /\ ~Passes(m, winner) => Drops(m, winner) = LoserNextMatch[m]
             /\ Passes(m, winner) =>
                   /\ Drops(m, winner) = NextMatch[LoserNextMatch[m]]
                   /\ Position[Drops(m, winner)] \in {"losers", "grand_final"}
  <1>1. NoMatch \notin Match
    BY BracketShape
  <1>2. Passes(m, winner) => LoserNextMatch[m] # NoMatch
    BY DEF Passes, Alone
  <1>3. Drops(m, winner) \in Match => LoserNextMatch[m] # NoMatch
    BY <1>1, <1>2 DEF Drops
  <1> QED
    BY <1>1, <1>2, <1>3, DoubleFacts DEF Drops

\* A team that drops is not out.
LEMMA DropsStaysIn ==
    ASSUME EliminationShape, Elimination, NEW m \in Match, NEW winner \in Team,
           Drops(m, winner) \in Match
    PROVE  LoserNextMatch[m] # NoMatch
  BY BracketShape DEF Drops, Passes, Alone

\* The losses of the two teams of a match that is completed.
LEMMA LossesBefore ==
    ASSUME IInv, Seating, EliminationShape, Elimination,
           NEW m \in Match, NEW winner \in Team, CompleteMatch(m, winner)
    PROVE  LET loser == Loser(m, winner)
           IN  /\ ~Double => standings[loser].losses = 0
               /\ Double =>
                     /\ Position[m] = "winners" => standings[loser].losses = 0 /\ standings[winner].losses = 0
                     /\ Position[m] = "losers" => standings[loser].losses = 1 /\ standings[winner].losses = 1
                     /\ Position[m] = "grand_final_reset" =>
                           standings[loser].losses = 1 /\ standings[winner].losses = 1
                     /\ Position[m] = "grand_final" =>
                           /\ standings[loser].losses \in {0, 1} /\ standings[winner].losses \in {0, 1}
                           /\ standings[loser].losses # standings[winner].losses
                           /\ standings[loser].losses = 0 => standings[loser].row
               /\ GrandFinalReset(m, loser) <=>
                     Double /\ Position[m] = "grand_final" /\ standings[loser].losses = 0
               /\ ~standings[loser].eliminated /\ ~standings[winner].eliminated
  <1> DEFINE loser == Loser(m, winner)
  <1>1. /\ loser \in Team /\ loser # winner /\ loser \in Seated(matches[m])
        /\ winner \in Seated(matches[m]) /\ Open(m)
    BY Landing DEF Seating, Placed, EliminationShape, Completes, Open, Playable
  <1>2. \A t \in Team : standings[t].losses \in Nat
    BY DEF IInv, TypeOK, Standing
  <1> HIDE DEF loser
  <1>3. ~standings[loser].eliminated /\ ~standings[winner].eliminated
    BY <1>1 DEF Seating, Placed, StillIn
  <1>4. ~Double => standings[loser].losses = 0
    BY <1>1, <1>2, <1>3, SingleFacts DEF Seating, Placed, LossesCounted
  <1>5. Double => \A t \in {winner, loser} :
          /\ Position[m] = "winners" => standings[t].losses = 0
          /\ Position[m] \in {"losers", "grand_final_reset"} => standings[t].losses = 1
          /\ Position[m] = "grand_final" =>
                /\ standings[t].losses \in {0, 1}
                /\ standings[t].losses = 0 => standings[t].row
    BY <1>1, DoubleFacts DEF Seating, Placed, Sides, OnItsSide
  <1>6. (Double /\ Position[m] = "grand_final") => standings[loser].losses # standings[winner].losses
    BY <1>1 DEF Seating, Placed, Finalists
  <1>7. GrandFinalReset(m, loser) <=>
          Double /\ Position[m] = "grand_final" /\ standings[loser].losses = 0
    BY <1>5 DEF GrandFinalReset, Double
  <1> QED
    BY <1>3, <1>4, <1>5, <1>6, <1>7 DEF loser

\* After a completion the losses are counted, and a team is out with its last.
LEMMA LossesStep ==
    ASSUME IInv, Seating, EliminationShape, Elimination,
           NEW m \in Match, NEW winner \in Team, CompleteMatch(m, winner)
    PROVE  LossesCounted'
  <1> DEFINE loser == Loser(m, winner)
  <1>1. Completes(m, winner) /\ loser \in Team /\ loser # winner
    BY Landing DEF Seating, Placed, EliminationShape
  <1>2. standings' = StandingsAfter(m, winner)
    BY DEF CompleteMatch
  <1> SUFFICES ASSUME NEW t \in Team
               PROVE  /\ standings'[t].losses <= Lives
                      /\ standings'[t].eliminated <=> standings'[t].losses = Lives
                      /\ standings'[t].losses > 0 => standings'[t].row
    BY DEF LossesCounted, Lives
  <1>3. /\ t \in {winner, loser} => standings'[t].row
        /\ t \notin {winner, loser} => standings'[t] = standings[t]
        /\ t # loser => standings'[t].losses = standings[t].losses
        /\ t = loser => standings'[t].losses = standings[t].losses + 1
        /\ t # loser => (standings'[t].eliminated <=> standings[t].eliminated)
        /\ t = loser => (standings'[t].eliminated <=>
                           \/ standings[t].eliminated
                           \/ LoserNextMatch[m] = NoMatch /\ ~GrandFinalReset(m, t))
    BY <1>1, <1>2, StandingsRow DEF Seating
  <1>4. /\ standings[t].losses <= Lives
        /\ standings[t].eliminated <=> standings[t].losses = Lives
        /\ standings[t].losses > 0 => standings[t].row
    BY DEF Seating, Placed, LossesCounted
  <1>5. CASE t # loser
    BY <1>3, <1>4, <1>5
  <1>6. CASE t = loser
    <2> HIDE DEF loser
    <2>1. /\ ~Double => standings[loser].losses = 0
          /\ Double =>
               /\ Position[m] = "winners" => standings[loser].losses = 0
               /\ Position[m] = "losers" => standings[loser].losses = 1
               /\ Position[m] = "grand_final_reset" => standings[loser].losses = 1
               /\ Position[m] = "grand_final" => standings[loser].losses \in {0, 1}
          /\ GrandFinalReset(m, loser) <=>
               Double /\ Position[m] = "grand_final" /\ standings[loser].losses = 0
          /\ ~standings[loser].eliminated
      BY LossesBefore DEF loser
    <2>2. CASE ~Double
      BY <1>1, <1>3, <1>6, <2>1, <2>2, SingleFacts
    <2>3. CASE Double
      <3>1. NoMatch \notin Match
        BY BracketShape
      <3> QED
        BY <1>3, <1>6, <2>1, <2>3, <3>1, DoubleFacts
    <2> QED
      BY <2>2, <2>3
  <1> QED
    BY <1>5, <1>6

\* The two teams of the reset, when a completion creates it.
LEMMA CreatedReset ==
    ASSUME IInv, Seating, EliminationShape, Elimination,
           NEW m \in Match, NEW winner \in Team, CompleteMatch(m, winner),
           GrandFinalReset(m, Loser(m, winner))
    PROVE  /\ Double /\ Position[m] = "grand_final"
           /\ NextMatch[m] = NoMatch /\ Drops(m, winner) = NoMatch
           /\ \A x, y \in Match :
                 Position[x] = "grand_final_reset" /\ Position[y] = "grand_final_reset" => x = y
  <1>1. Double /\ Position[m] = "grand_final"
    BY DEF GrandFinalReset, Double
  <1>2. NextMatch[m] = NoMatch /\ LoserNextMatch[m] = NoMatch
    BY <1>1, DoubleFacts
  <1>3. ~Passes(m, winner)
    BY <1>2 DEF Passes, Alone
  <1>4. \A x, y \in Match :
            Position[x] = "grand_final_reset" /\ Position[y] = "grand_final_reset" => x = y
    BY <1>1 DEF EliminationShape, DoubleShape, Double
  <1> QED
    BY <1>1, <1>2, <1>3, <1>4 DEF Drops

\* Nobody is seated twice after a completion.
LEMMA OneSeatStep ==
    ASSUME IInv, Seating, EliminationShape, Elimination,
           NEW m \in Match, NEW winner \in Team, CompleteMatch(m, winner)
    PROVE  OneSeat'
  <1> DEFINE loser == Loser(m, winner)
             Created(y) == /\ GrandFinalReset(m, loser)
                           /\ Position[y] = "grand_final_reset"
                           /\ Seated(matches'[y]) = {winner, loser}
             Kept(y) == \A t \in Seated(matches'[y]) :
                           IF t = winner THEN y = NextMatch[m]
                           ELSE IF t = loser THEN y = Drops(m, winner)
                           ELSE Open(y) /\ t \in Seated(matches[y])
  <1>1. \A y \in Match : Playable(matches'[y]) => Created(y) \/ Kept(y)
    BY Landing DEF Seating, Placed, EliminationShape, Open
  <1>2. NoMatch \notin Match
    BY BracketShape
  <1>3. SUFFICES ASSUME NEW t \in Team, NEW x \in Match, NEW y \in Match,
                        Playable(matches'[x]), Playable(matches'[y]),
                        t \in Seated(matches'[x]), t \in Seated(matches'[y])
                 PROVE  x = y
    BY DEF OneSeat, Open
  <1>4. CASE Created(x) \/ Created(y)
    <2>1. GrandFinalReset(m, loser)
      BY <1>4
    <2>2. /\ NextMatch[m] = NoMatch /\ Drops(m, winner) = NoMatch
          /\ Position[x] = "grand_final_reset" /\ Position[y] = "grand_final_reset" => x = y
      BY <2>1, CreatedReset
    <2> HIDE DEF loser
    <2>3. t \in {winner, loser}
      BY <1>3, <1>4
    <2>4. ~Kept(x) /\ ~Kept(y)
      BY <1>2, <1>3, <2>2, <2>3
    <2> QED
      BY <1>1, <1>3, <2>2, <2>4
  <1>5. CASE Kept(x) /\ Kept(y)
    BY <1>3, <1>5 DEF Seating, Placed, OneSeat
  <1> QED
    BY <1>1, <1>3, <1>4, <1>5

\* Whoever is seated after a completion is still in.
LEMMA StillInStep ==
    ASSUME IInv, Seating, EliminationShape, Elimination,
           NEW m \in Match, NEW winner \in Team, CompleteMatch(m, winner)
    PROVE  StillIn'
  <1> DEFINE loser == Loser(m, winner)
  <1>1. SUFFICES ASSUME NEW y \in Match, Playable(matches'[y]), NEW t \in Seated(matches'[y])
                 PROVE  ~standings'[t].eliminated
    BY DEF StillIn, Open
  <1>2. /\ Completes(m, winner) /\ loser \in Team /\ loser # winner
        /\ \/ GrandFinalReset(m, loser) /\ t \in {winner, loser}
           \/ /\ Playable(matches[y])
              /\ IF t = winner THEN y = NextMatch[m]
                 ELSE IF t = loser THEN y = Drops(m, winner)
                 ELSE t \in Seated(matches[y])
    <2>1. Completes(m, winner) /\ loser \in Team /\ loser # winner
      BY Landing DEF Seating, Placed, EliminationShape
    <2>2. \/ GrandFinalReset(m, loser) /\ Seated(matches'[y]) = {winner, loser}
          \/ /\ Playable(matches[y])
             /\ \A u \in Seated(matches'[y]) :
                   IF u = winner THEN y = NextMatch[m]
                   ELSE IF u = loser THEN y = Drops(m, winner)
                   ELSE u \in Seated(matches[y])
      BY <1>1, Landing DEF Seating, Placed, EliminationShape
    <2> HIDE DEF loser
    <2> QED
      BY <1>1, <2>1, <2>2
  <1>3. standings' = StandingsAfter(m, winner)
    BY DEF CompleteMatch
  <1>4. matches[y] \in Row
    BY DEF IInv, TypeOK
  <1> HIDE DEF loser
  <1>5. t \in Team
    BY <1>2, <1>4, SeatedTeams
  <1>6. ~standings[loser].eliminated /\ ~standings[winner].eliminated
    BY LossesBefore DEF loser
  <1>7. /\ t # loser => (standings'[t].eliminated <=> standings[t].eliminated)
        /\ t = loser => (standings'[t].eliminated <=>
                           \/ standings[t].eliminated
                           \/ LoserNextMatch[m] = NoMatch /\ ~GrandFinalReset(m, t))
    BY <1>2, <1>3, <1>5, StandingsRow DEF Seating, loser
  <1>8. CASE t \notin {winner, loser}
    BY <1>2, <1>7, <1>8 DEF Seating, Placed, StillIn, Open
  <1>9. CASE t = winner
    BY <1>2, <1>6, <1>7, <1>9
  <1>10. CASE t = loser
    BY <1>1, <1>2, <1>6, <1>7, <1>10, DropsStaysIn
  <1> QED
    BY <1>8, <1>9, <1>10

\* The losses of the teams after a completion.
LEMMA LossesAfter ==
    ASSUME IInv, Seating, EliminationShape, Elimination,
           NEW m \in Match, NEW winner \in Team, CompleteMatch(m, winner), NEW t \in Team
    PROVE  /\ t \in {winner, Loser(m, winner)} => standings'[t].row
           /\ t # Loser(m, winner) => standings'[t].losses = standings[t].losses
           /\ t = Loser(m, winner) => standings'[t].losses = standings[t].losses + 1
           /\ t \notin {winner, Loser(m, winner)} => standings'[t] = standings[t]
  <1>1. Completes(m, winner) /\ standings' = StandingsAfter(m, winner)
    BY DEF CompleteMatch, Completes
  <1> QED
    BY <1>1, StandingsRow DEF Seating

\* A side of the bracket that was decided stays decided.
LEMMA FeedersStayOver ==
    ASSUME IInv, Seating, EliminationShape, Elimination,
           NEW m \in Match, NEW winner \in Team, CompleteMatch(m, winner),
           NEW position, NEW x \in Match, FeedersOver(position, x)
    PROVE  FeedersOver(position, x)'
  <1>1. \A y \in Match : Over(matches[y]) => Over(matches'[y])
    BY Landing DEF Seating, Placed, EliminationShape
  <1> QED
    BY <1>1 DEF FeedersOver

\* The winner of a match arrives on his side of the bracket.
LEMMA WinnerArrives ==
    ASSUME IInv, Seating, EliminationShape, Elimination, Double,
           NEW m \in Match, NEW winner \in Team, CompleteMatch(m, winner),
           NextMatch[m] \in Match
    PROVE  OnItsSide(winner, NextMatch[m])'
  <1> DEFINE y == NextMatch[m]
  <1>0. Loser(m, winner) # winner /\ matches'[m].status = "completed"
    BY Landing DEF Seating, Placed, EliminationShape
  <1>1. standings'[winner].losses = standings[winner].losses /\ standings'[winner].row
    BY <1>0, LossesAfter
  <1>2. NoMatch \notin Match
    BY BracketShape
  <1>3. \A z \in Match : (NextMatch[z] = y /\ Position[y] = "grand_final" /\ Position[z] = Position[m]) => z = m
    BY DEF EliminationShape, DoubleShape, Double
  <1>4. Over(matches'[m])
    BY <1>0 DEF Over
  <1>5. CASE Position[m] = "winners"
    <2>1. standings'[winner].losses = 0 /\ Position[y] \in {"winners", "grand_final"}
      BY <1>1, <1>5, DoubleFacts, LossesBefore
    <2>2. Position[y] = "grand_final" => FeedersOver("winners", y)'
      BY <1>3, <1>4, <1>5 DEF FeedersOver
    <2> QED
      BY <1>1, <2>1, <2>2 DEF OnItsSide
  <1>6. CASE Position[m] = "losers"
    <2>1. standings'[winner].losses = 1 /\ Position[y] \in {"losers", "grand_final"}
      BY <1>1, <1>6, DoubleFacts, LossesBefore
    <2>2. Position[y] = "grand_final" => FeedersOver("losers", y)'
      BY <1>3, <1>4, <1>6 DEF FeedersOver
    <2> QED
      BY <1>1, <2>1, <2>2 DEF OnItsSide
  <1> QED
    BY <1>2, <1>5, <1>6, DoubleFacts

\* The loser drops to the losers bracket, or through it to the grand final.
LEMMA LoserArrives ==
    ASSUME IInv, Seating, EliminationShape, Elimination, Double,
           NEW m \in Match, NEW winner \in Team, CompleteMatch(m, winner),
           NEW loser \in Team, loser = Loser(m, winner),
           NEW y \in Match, y = Drops(m, winner)
    PROVE  OnItsSide(loser, y)'
  <1> DEFINE x == LoserNextMatch[m]
  <1>1. /\ Position[m] = "winners" /\ x \in Match
        /\ ~Passes(m, winner) => y = x
        /\ Passes(m, winner) => y = NextMatch[x] /\ Position[y] \in {"losers", "grand_final"}
    BY PassFacts
  <1>2. Position[x] = "losers"
    BY <1>1, DoubleFacts
  <1>3. standings'[loser].losses = 1
    <2>1. standings[loser].losses = 0
      BY <1>1, LossesBefore
    <2> QED
      BY <2>1, LossesAfter
  <1>4. Passes(m, winner) => Over(matches'[x])
    BY Landing DEF Seating, Placed, EliminationShape, Over
  <1>5. (Passes(m, winner) /\ Position[y] = "grand_final") => FeedersOver("losers", y)'
    <2>1. \A z \in Match : (NextMatch[z] = NextMatch[x] /\ NextMatch[x] \in Match
                               /\ Position[NextMatch[x]] = "grand_final" /\ Position[z] = Position[x]) => z = x
      BY <1>1 DEF EliminationShape, DoubleShape, Double
    <2> QED
      BY <1>1, <1>2, <1>4, <2>1 DEF FeedersOver
  <1> QED
    BY <1>1, <1>2, <1>3, <1>5 DEF OnItsSide

\* Everybody seated after a completion is on the side of his losses.
LEMMA SidesStep ==
    ASSUME IInv, Seating, EliminationShape, Elimination,
           NEW m \in Match, NEW winner \in Team, CompleteMatch(m, winner)
    PROVE  Sides'
  <1> DEFINE loser == Loser(m, winner)
  <1>1. SUFFICES ASSUME Double, NEW y \in Match, Playable(matches'[y]), NEW t \in Seated(matches'[y])
                 PROVE  OnItsSide(t, y)'
    BY DEF Sides, Open, Double
  <1>2. /\ loser \in Team /\ loser # winner
        /\ \/ /\ GrandFinalReset(m, loser) /\ t \in {winner, loser}
              /\ Position[y] = "grand_final_reset"
           \/ /\ Playable(matches[y])
              /\ IF t = winner THEN y = NextMatch[m]
                 ELSE IF t = loser THEN y = Drops(m, winner)
                 ELSE t \in Seated(matches[y])
    BY <1>1, Landing DEF Seating, Placed, EliminationShape
  <1>3. CASE /\ GrandFinalReset(m, loser) /\ t \in {winner, loser}
             /\ Position[y] = "grand_final_reset"
    <2>1. standings[loser].losses = 0 /\ standings[winner].losses = 1
      BY <1>1, <1>3, CreatedReset, LossesBefore
    <2>2. standings'[t].losses = 1
      BY <1>2, <1>3, <2>1, LossesAfter
    <2> QED
      BY <1>3, <2>2 DEF OnItsSide
  <1>4. CASE t = winner /\ y = NextMatch[m]
    BY <1>1, <1>4, WinnerArrives
  <1>5. CASE t = loser /\ y = Drops(m, winner)
    BY <1>1, <1>2, <1>5, LoserArrives
  <1>6. CASE t \notin {winner, loser} /\ Playable(matches[y]) /\ t \in Seated(matches[y])
    <2>1. matches[y] \in Row
      BY DEF IInv, TypeOK
    <2>2. t \in Team
      BY <1>6, <2>1, SeatedTeams
    <2>3. standings'[t] = standings[t]
      BY <1>6, <2>2, LossesAfter
    <2>4. OnItsSide(t, y)
      BY <1>1, <1>6 DEF Seating, Placed, Sides, Open
    <2>5. /\ FeedersOver("winners", y) => FeedersOver("winners", y)'
          /\ FeedersOver("losers", y) => FeedersOver("losers", y)'
      BY FeedersStayOver
    <2> QED
      BY <2>3, <2>4, <2>5 DEF OnItsSide
  <1> QED
    BY <1>2, <1>3, <1>4, <1>5, <1>6

\* The two teams of the grand final differ in their losses.
LEMMA FinalistsStep ==
    ASSUME IInv, Seating, EliminationShape, Elimination,
           NEW m \in Match, NEW winner \in Team, CompleteMatch(m, winner)
    PROVE  Finalists'
  <1> DEFINE loser == Loser(m, winner)
  <1>1. SUFFICES ASSUME Double, NEW y \in Match, Playable(matches'[y]), Position[y] = "grand_final",
                        NEW t \in Seated(matches'[y]), NEW u \in Seated(matches'[y]),
                        standings'[t].losses = standings'[u].losses
                 PROVE  t = u
    BY DEF Finalists, Open, Double
  <1>2. /\ loser \in Team /\ loser # winner
        /\ y # m /\ Playable(matches[y])
        /\ \A v \in Seated(matches'[y]) :
              IF v = winner THEN y = NextMatch[m]
              ELSE IF v = loser THEN y = Drops(m, winner)
              ELSE v \in Seated(matches[y])
    BY <1>1, Landing, SMTT(30) DEF Seating, Placed, EliminationShape
  <1>3. matches[y] \in Row /\ matches[m].status = "live"
    BY DEF IInv, TypeOK, CompleteMatch
  <1>4. ASSUME NEW v \in Seated(matches'[y])
        PROVE  /\ v \in Team
               /\ v \in {winner, loser} \/ (v \in Seated(matches[y]) /\ standings'[v] = standings[v])
    <2>1. v \in Team
      BY <1>2, <1>3, SeatedTeams
    <2> QED
      BY <1>2, <2>1, LossesAfter
  <1>5. ASSUME NEW v \in Seated(matches[y])
        PROVE  /\ standings[v].losses \in {0, 1}
               /\ standings[v].losses = 0 => FeedersOver("winners", y)
               /\ standings[v].losses = 1 => FeedersOver("losers", y)
    BY <1>1, <1>2 DEF Seating, Placed, Sides, Open, OnItsSide
  <1>6. ~Over(matches[m])
    BY <1>3 DEF Over
  \* The winner meets nobody of his own side.
  <1>7. ASSUME y = NextMatch[m], NEW v \in Seated(matches[y])
        PROVE  standings'[winner].losses # standings[v].losses
    <2>1. Position[m] \in {"winners", "losers"}
      <3>1. NextMatch[m] # NoMatch
        BY <1>7, BracketShape
      <3> QED
        BY <1>1, <3>1, DoubleFacts
    <2>2. standings'[winner].losses = standings[winner].losses
      BY <1>2, LossesAfter
    <2>3. standings[winner].losses = IF Position[m] = "winners" THEN 0 ELSE 1
      BY <1>1, <2>1, LossesBefore
    <2>4. ~FeedersOver(Position[m], y)
      BY <1>6, <1>7 DEF FeedersOver
    <2> QED
      BY <1>5, <2>1, <2>2, <2>3, <2>4
  \* Nor does the loser.
  <1>8. ASSUME y = Drops(m, winner)
        PROVE  /\ Position[m] = "winners"
               /\ standings'[loser].losses = 1
               /\ \A v \in Seated(matches[y]) : standings[v].losses # 1
    <2>1. /\ Position[m] = "winners" /\ LoserNextMatch[m] \in Match
          /\ ~Passes(m, winner) => y = LoserNextMatch[m]
          /\ Passes(m, winner) => y = NextMatch[LoserNextMatch[m]]
      BY <1>1, <1>8, PassFacts
    <2>2. Position[LoserNextMatch[m]] = "losers"
      BY <1>1, <2>1, DoubleFacts
    <2>3. Passes(m, winner)
      BY <1>1, <2>1, <2>2
    <2>4. matches[LoserNextMatch[m]].status = "pending"
      BY <2>3, Landing DEF Seating, Placed, EliminationShape
    <2>5. ~FeedersOver("losers", y)
      BY <2>1, <2>2, <2>3, <2>4 DEF FeedersOver, Over
    <2>6. standings[loser].losses = 0
      BY <1>1, <2>1, LossesBefore
    <2>7. standings'[loser].losses = 1
      BY <1>2, <2>6, LossesAfter
    <2> QED
      BY <1>5, <2>1, <2>5, <2>7
  <1>9. (y = NextMatch[m] /\ Position[m] = "winners") => standings'[winner].losses = 0
    BY <1>1, <1>2, LossesBefore, LossesAfter
  <1> HIDE DEF loser
  <1>10. CASE t \in Seated(matches[y]) /\ u \in Seated(matches[y]) /\ t \notin {winner, loser} /\ u \notin {winner, loser}
    BY <1>1, <1>2, <1>4, <1>10 DEF Seating, Placed, Finalists, Open
  <1>11. CASE t \in {winner, loser} /\ u \notin {winner, loser}
    BY <1>1, <1>2, <1>4, <1>7, <1>8, <1>11
  <1>12. CASE u \in {winner, loser} /\ t \notin {winner, loser}
    BY <1>1, <1>2, <1>4, <1>7, <1>8, <1>12
  <1>13. CASE u \in {winner, loser} /\ t \in {winner, loser}
    BY <1>1, <1>2, <1>8, <1>9, <1>13
  <1> QED
    BY <1>4, <1>10, <1>11, <1>12, <1>13

\* The reset keeps its teams, or is created with the teams of the grand final.
LEMMA ResetLastStep ==
    ASSUME IInv, Seating, EliminationShape, Elimination,
           NEW m \in Match, NEW winner \in Team, CompleteMatch(m, winner)
    PROVE  ResetLast'
  <1> DEFINE loser == Loser(m, winner)
  <1>1. SUFFICES ASSUME Double, NEW x \in Match, Position[x] = "grand_final_reset",
                        matches'[x].status # "absent"
                 PROVE  /\ Full(matches'[x])
                        /\ \A y \in Match : Position[y] = "grand_final" => Over(matches'[y])
    BY DEF ResetLast, Double
  <1>2. /\ matches'[m].status = "completed"
        /\ \A y \in Match :
              /\ Over(matches[y]) => Over(matches'[y])
              /\ (Full(matches[y]) /\ matches[y].status # "absent") => Full(matches'[y])
    BY Landing DEF Seating, Placed, EliminationShape
  <1>3. Playable(matches'[x]) =>
          \/ GrandFinalReset(m, loser) /\ Full(matches'[x])
          \/ Playable(matches[x])
    BY <1>1, Landing DEF Seating, Placed, EliminationShape
  <1>4. CASE matches[x].status # "absent"
    BY <1>1, <1>2, <1>4 DEF Seating, Placed, ResetLast
  <1>5. CASE matches[x].status = "absent"
    <2>0. matches[x] \in Row /\ matches'[x] \in Row /\ Completes(m, winner) /\ matches' = RowsAfter(m, winner)
      <3>1. Completes(m, winner) /\ matches' = RowsAfter(m, winner)
        BY DEF CompleteMatch, Completes
      <3> QED
        BY <3>1, RowsAfterLemma DEF IInv, TypeOK, Completes
    <2>1. Playable(matches'[x])
      <3>1. x # m
        BY <1>5, <2>0 DEF Completes
      <3>2. Settled(matches[x], matches'[x])
        BY <2>0, <3>1, RowsAfterLemma DEF Completes
      <3>3. Passes(m, winner) => x # LoserNextMatch[m]
        BY <1>5, Landing DEF Seating, Placed, EliminationShape
      <3>4. Moved(m, winner)[x].status = "absent"
        BY <1>5, <2>0, <3>1, <3>3, MovedSeats DEF EliminationShape
      <3>5. matches'[x] \in {Moved(m, winner)[x], [EmptyRow EXCEPT !.teamA = winner, !.teamB = loser]}
        BY <2>0, RowsAfterMoved DEF CreateGrandFinalReset
      <3>6. [EmptyRow EXCEPT !.teamA = winner, !.teamB = loser].status = "pending"
        BY DEF EmptyRow
      <3> QED
        BY <1>1, <3>4, <3>5, <3>6 DEF Playable
    <2>2. GrandFinalReset(m, loser) /\ Full(matches'[x])
      BY <1>3, <1>5, <2>1 DEF Playable
    <2>3. Position[m] = "grand_final"
      BY <2>2, CreatedReset
    <2>4. \A y \in Match : Position[y] = "grand_final" => y = m
      BY <1>1, <2>3 DEF EliminationShape, DoubleShape, Double
    <2> QED
      BY <1>2, <2>2, <2>4 DEF Over
  <1> QED
    BY <1>4, <1>5

\* A completion keeps the seating.
LEMMA CompletionSeating ==
    ASSUME IInv, Seating, EliminationShape, Elimination,
           NEW m \in Match, NEW winner \in Team, CompleteMatch(m, winner)
    PROVE  Seating'
  <1>1. AllApart'
    BY RowsAfterLemma DEF CompleteMatch, Seating, AllApart
  <1> QED
    BY <1>1, OneSeatStep, LossesStep, StillInStep, SidesStep, FinalistsStep, ResetLastStep
    DEF Seating, Placed

-----------------------------------------------------------------------------
(* The other requests *)

\* A step that moves nobody: it may start or end a match, no more.
Quiet ==
    /\ UNCHANGED <<standings, champion>>
    /\ \A x \in Match :
          /\ matches'[x].teamA = matches[x].teamA /\ matches'[x].teamB = matches[x].teamB
          /\ matches'[x].winner = matches[x].winner /\ matches'[x].loser = matches[x].loser
          /\ \/ matches'[x].status = matches[x].status
             \/ /\ Playable(matches[x])
                /\ Playable(matches'[x]) \/ ("force" \in Requests /\ matches'[x].status = "completed")
                /\ matches[x].status = "scheduled" \/ Full(matches[x]) \/ "unready" \in Requests

\* Writing a status writes nothing else.
LEMMA StatusOnly ==
    ASSUME NEW row \in Row, NEW to \in Status
    PROVE  LET new == [row EXCEPT !.status = to]
           IN  /\ new.teamA = row.teamA /\ new.teamB = row.teamB
               /\ new.winner = row.winner /\ new.loser = row.loser
               /\ new.status = to
  BY DEF Row

\* Status, score and schedule requests and the scheduler are quiet.
LEMMA QuietStep ==
    ASSUME IInv, [Next]_vars,
           \A m \in Match : ~ResetMatch(m), ~ResetResults,
           \A t, u \in Team : ~SwapBracketTeams(t, u),
           \A m \in Match, winner \in Team : ~CompleteMatch(m, winner)
    PROVE  Quiet
  <1>0. matches \in [Match -> Row] /\ \A m \in Match : matches[m] \in Row
    BY DEF IInv, TypeOK
  <1>1. ASSUME NEW m \in Match, NEW to \in Status, UpdateMatchStatus(m, to) PROVE Quiet
    <2>1. /\ Playable(matches[m])
          /\ to \in {"scheduled", "live"} \/ (to = "completed" /\ "force" \in Requests)
          /\ "unready" \in Requests \/ Full(matches[m])
          /\ matches' = [matches EXCEPT ![m] = [matches[m] EXCEPT !.status = to]]
          /\ UNCHANGED <<standings, champion>>
      BY <1>1 DEF UpdateMatchStatus, Transitions, Ready, Playable
    <2>2. \A x \in Match : matches'[x] = IF x = m THEN [matches[m] EXCEPT !.status = to] ELSE matches[x]
      BY <1>0, <2>1
    <2> QED
      BY <1>0, <2>1, <2>2, StatusOnly DEF Quiet, Playable
  <1>2. ASSUME NEW m \in Match, NEW lead \in Lead \ {"unset"}, UpdateMatchScore(m, lead) PROVE Quiet
    BY <1>0, <1>2 DEF UpdateMatchScore, Quiet, Row
  <1>3. ASSUME NEW m \in Match, ScheduleMatch(m) PROVE Quiet
    <2>1. /\ Playable(matches[m])
          /\ "unready" \in Requests \/ Full(matches[m])
          /\ matches' = [matches EXCEPT ![m] = [matches[m] EXCEPT !.status = "scheduled"]]
          /\ UNCHANGED <<standings, champion>> /\ "scheduled" \in Status
      BY <1>3 DEF ScheduleMatch, Unstarted, Ready, Playable, Status
    <2>2. \A x \in Match : matches'[x] = IF x = m THEN [matches[m] EXCEPT !.status = "scheduled"] ELSE matches[x]
      BY <1>0, <2>1
    <2> QED
      BY <1>0, <2>1, <2>2, StatusOnly DEF Quiet, Playable
  <1>4. ASSUME NEW r, ScheduleRound(r) PROVE Quiet
    <2>1. /\ \A x \in Match :
               \/ matches'[x] = matches[x]
               \/ /\ Playable(matches[x])
                  /\ "unready" \in Requests \/ Full(matches[x])
                  /\ matches'[x] = [matches[x] EXCEPT !.status = "scheduled"]
          /\ UNCHANGED <<standings, champion>> /\ "scheduled" \in Status
      BY <1>4 DEF ScheduleRound, Unstarted, Ready, Playable, Status
    <2>2. ASSUME NEW x \in Match, matches'[x] # matches[x]
          PROVE  /\ matches'[x].teamA = matches[x].teamA /\ matches'[x].teamB = matches[x].teamB
                 /\ matches'[x].winner = matches[x].winner /\ matches'[x].loser = matches[x].loser
                 /\ matches'[x].status = "scheduled"
                 /\ Playable(matches[x]) /\ Playable(matches'[x])
                 /\ matches[x].status = "scheduled" \/ Full(matches[x]) \/ "unready" \in Requests
      <3>1. matches'[x] = [matches[x] EXCEPT !.status = "scheduled"]
        BY <2>1, <2>2
      <3>2. /\ matches'[x].teamA = matches[x].teamA /\ matches'[x].teamB = matches[x].teamB
            /\ matches'[x].winner = matches[x].winner /\ matches'[x].loser = matches[x].loser
            /\ matches'[x].status = "scheduled"
        BY <1>0, <2>1, <3>1, StatusOnly
      <3> QED
        BY <2>1, <2>2, <3>2 DEF Playable
    <2> QED
      BY <2>1, <2>2 DEF Quiet
  <1>5. ASSUME NEW due \in SUBSET Scheduled, SchedulerTick(due) PROVE Quiet
    <2>1. /\ \A x \in Match :
               \/ matches'[x] = matches[x]
               \/ /\ matches[x].status = "scheduled"
                  /\ matches'[x] = [matches[x] EXCEPT !.status = "live"]
          /\ UNCHANGED <<standings, champion>> /\ "live" \in Status
      BY <1>5 DEF SchedulerTick, Scheduled, Status
    <2>2. ASSUME NEW x \in Match, matches'[x] # matches[x]
          PROVE  /\ matches'[x].teamA = matches[x].teamA /\ matches'[x].teamB = matches[x].teamB
                 /\ matches'[x].winner = matches[x].winner /\ matches'[x].loser = matches[x].loser
                 /\ matches'[x].status = "live"
                 /\ Playable(matches[x]) /\ Playable(matches'[x])
                 /\ matches[x].status = "scheduled" \/ Full(matches[x]) \/ "unready" \in Requests
      <3>1. matches'[x] = [matches[x] EXCEPT !.status = "live"]
        BY <2>1, <2>2
      <3>2. /\ matches'[x].teamA = matches[x].teamA /\ matches'[x].teamB = matches[x].teamB
            /\ matches'[x].winner = matches[x].winner /\ matches'[x].loser = matches[x].loser
            /\ matches'[x].status = "live"
        BY <1>0, <2>1, <3>1, StatusOnly
      <3> QED
        BY <2>1, <2>2, <3>2 DEF Playable
    <2> QED
      BY <2>1, <2>2 DEF Quiet
  <1>6. UNCHANGED vars => Quiet
    BY DEF vars, Quiet
  <1> QED
    BY <1>1, <1>2, <1>3, <1>4, <1>5, <1>6 DEF Next, Play

\* Two teams change places: what a reseat does, seen from the teams.
Traded(swap) ==
    /\ UNCHANGED <<standings, champion>>
    /\ \A t \in Team : swap[t] \in Team /\ swap[swap[t]] = t
    /\ \A x \in Match :
          /\ matches'[x].status = matches[x].status
          /\ matches'[x].winner = matches[x].winner /\ matches'[x].loser = matches[x].loser
          /\ Full(matches'[x]) <=> Full(matches[x])
          /\ Seated(matches[x]) = {} <=> Seated(matches'[x]) = {}
          /\ ~Open(x) => matches'[x] = matches[x]
          /\ Open(x) => \A t \in Team : t \in Seated(matches'[x]) <=> swap[t] \in Seated(matches[x])

\* A team's place is the match it sits in.
LEMMA OnePlace ==
    ASSUME OneSeat, NEW t \in Team, SwapPlaces(t) # {}
    PROVE  /\ Latest(SwapPlaces(t)) \in Match
           /\ Open(Latest(SwapPlaces(t)))
           /\ t \in Seated(matches[Latest(SwapPlaces(t))])
           /\ \A x \in Match : Open(x) /\ t \in Seated(matches[x]) => x = Latest(SwapPlaces(t))
  <1>1. PICK p \in Match : /\ Open(p) /\ t \in Seated(matches[p])
                           /\ p \in SwapPlaces(t)
    BY DEF SwapPlaces, Unstarted, Open, Playable
  <1>2. \A x \in Match : Open(x) /\ t \in Seated(matches[x]) => x = p
    BY <1>1 DEF OneSeat
  <1>3. SwapPlaces(t) = {p}
    BY <1>1, <1>2 DEF SwapPlaces, Unstarted, Open, Playable
  <1>4. Order[p] >= Order[p]
    BY <1>1, BracketShape
  <1>5. Latest({p}) = p
    BY <1>4 DEF Latest
  <1> QED
    BY <1>1, <1>2, <1>3, <1>5

\* Replacing a team by one that is not there.
LEMMA ReplaceTeams ==
    ASSUME NEW row \in Row, Apart(row), NEW t \in Seated(row), t \in Team,
           NEW u \in Team, u \notin Seated(row)
    PROVE  LET new == Replace(row, t, u)
           IN  /\ Seated(new) = (Seated(row) \ {t}) \union {u}
               /\ Full(new) <=> Full(row)
               /\ Apart(new)
  BY NobodyIsNoTeam DEF Row, Slot, Apart, Seated, Full, Replace

\* A swap trades the places of the two teams.
LEMMA SwapTrades ==
    ASSUME IInv, OneSeat, AllApart, NEW t \in Team, NEW u \in Team, SwapBracketTeams(t, u)
    PROVE  /\ AllApart'
           /\ \E swap \in [Team -> Team] : Traded(swap)
           /\ \E x \in Match : Open(x)
  <1> DEFINE mt == Latest(SwapPlaces(t))
             mu == Latest(SwapPlaces(u))
             swap == [s \in Team |-> IF s = t THEN u ELSE IF s = u THEN t ELSE s]
  <1>0. /\ matches \in [Match -> Row]
        /\ \A x \in Match : matches[x] \in Row /\ Apart(matches[x])
        /\ t # u
        /\ UNCHANGED <<standings, champion>>
    BY DEF IInv, TypeOK, AllApart, SwapBracketTeams
  <1>1. /\ mt \in Match /\ Open(mt) /\ t \in Seated(matches[mt])
        /\ \A x \in Match : Open(x) /\ t \in Seated(matches[x]) => x = mt
        /\ mu \in Match /\ Open(mu) /\ u \in Seated(matches[mu])
        /\ \A x \in Match : Open(x) /\ u \in Seated(matches[x]) => x = mu
    BY OnePlace DEF SwapBracketTeams
  <1>2. matches' = IF mt = mu
                   THEN [matches EXCEPT ![mt] = [matches[mt] EXCEPT !.teamA = matches[mt].teamB,
                                                                   !.teamB = matches[mt].teamA]]
                   ELSE [matches EXCEPT ![mt] = Replace(matches[mt], t, u),
                                        ![mu] = Replace(matches[mu], u, t)]
    BY DEF SwapBracketTeams
  <1> HIDE DEF mt, mu
  <1>3. /\ swap \in [Team -> Team]
        /\ swap[t] = u /\ swap[u] = t
        /\ \A s \in Team : s \notin {t, u} => swap[s] = s
        /\ \A s \in Team : swap[s] \in Team /\ swap[swap[s]] = s
    BY <1>0
  <1> HIDE DEF swap
  <1>4. ASSUME NEW x \in Match
        PROVE  /\ matches'[x].status = matches[x].status
               /\ matches'[x].winner = matches[x].winner /\ matches'[x].loser = matches[x].loser
               /\ Full(matches'[x]) <=> Full(matches[x])
               /\ Seated(matches[x]) = {} <=> Seated(matches'[x]) = {}
               /\ ~Open(x) => matches'[x] = matches[x]
               /\ Open(x) => \A s \in Team : s \in Seated(matches'[x]) <=> swap[s] \in Seated(matches[x])
               /\ Apart(matches'[x])
    <2>1. CASE x \notin {mt, mu}
      <3>1. matches'[x] = matches[x]
        BY <1>0, <1>1, <1>2, <2>1
      <3>2. Open(x) => t \notin Seated(matches[x]) /\ u \notin Seated(matches[x])
        BY <1>1, <2>1
      <3> QED
        BY <1>0, <1>3, <3>1, <3>2
    <2>2. CASE x = mt /\ mt = mu
      <3>1. matches'[x] = [matches[x] EXCEPT !.teamA = matches[x].teamB, !.teamB = matches[x].teamA]
        BY <1>0, <1>1, <1>2, <2>2
      <3>2. /\ matches'[x].status = matches[x].status
            /\ matches'[x].winner = matches[x].winner /\ matches'[x].loser = matches[x].loser
            /\ matches'[x].teamA = matches[x].teamB /\ matches'[x].teamB = matches[x].teamA
        BY <1>0, <3>1 DEF Row
      <3>3. Seated(matches'[x]) = Seated(matches[x]) /\ (Full(matches'[x]) <=> Full(matches[x]))
            /\ Apart(matches'[x])
        BY <1>0, <3>2 DEF Seated, Full, Apart
      <3>4. Seated(matches[x]) = {t, u}
        BY <1>0, <1>1, <2>2 DEF Seated
      <3> QED
        BY <1>0, <1>1, <1>3, <2>2, <3>2, <3>3, <3>4
    <2>3. CASE x = mt /\ mt # mu
      <3>1. matches'[x] = Replace(matches[x], t, u)
        BY <1>0, <1>1, <1>2, <2>3
      <3>2. u \notin Seated(matches[x])
        BY <1>1, <2>3
      <3>3. /\ Seated(matches'[x]) = (Seated(matches[x]) \ {t}) \union {u}
            /\ Full(matches'[x]) <=> Full(matches[x])
            /\ Apart(matches'[x])
        BY <1>0, <1>1, <2>3, <3>1, <3>2, ReplaceTeams
      <3>4. /\ matches'[x].status = matches[x].status
            /\ matches'[x].winner = matches[x].winner /\ matches'[x].loser = matches[x].loser
        BY <1>0, <3>1, ReplaceLemma
      <3>5. Open(x) /\ Seated(matches[x]) # {} /\ Seated(matches'[x]) # {}
        BY <1>1, <2>3, <3>3
      <3>6. ASSUME NEW s \in Team PROVE s \in Seated(matches'[x]) <=> swap[s] \in Seated(matches[x])
        BY <1>0, <1>1, <1>3, <2>3, <3>2, <3>3
      <3> QED
        BY <3>3, <3>4, <3>5, <3>6
    <2>4. CASE x = mu /\ mt # mu
      <3>1. matches'[x] = Replace(matches[x], u, t)
        BY <1>0, <1>1, <1>2, <2>4
      <3>2. t \notin Seated(matches[x])
        BY <1>1, <2>4
      <3>3. /\ Seated(matches'[x]) = (Seated(matches[x]) \ {u}) \union {t}
            /\ Full(matches'[x]) <=> Full(matches[x])
            /\ Apart(matches'[x])
        BY <1>0, <1>1, <2>4, <3>1, <3>2, ReplaceTeams
      <3>4. /\ matches'[x].status = matches[x].status
            /\ matches'[x].winner = matches[x].winner /\ matches'[x].loser = matches[x].loser
        BY <1>0, <3>1, ReplaceLemma
      <3>5. Open(x) /\ Seated(matches[x]) # {} /\ Seated(matches'[x]) # {}
        BY <1>1, <2>4, <3>3
      <3>6. ASSUME NEW s \in Team PROVE s \in Seated(matches'[x]) <=> swap[s] \in Seated(matches[x])
        BY <1>0, <1>1, <1>3, <2>4, <3>2, <3>3
      <3> QED
        BY <3>3, <3>4, <3>5, <3>6
    <2> QED
      BY <2>1, <2>2, <2>3, <2>4
  <1>5. Traded(swap)
    BY <1>0, <1>3, <1>4 DEF Traded
  <1>6. AllApart'
    BY <1>4 DEF AllApart
  <1> QED
    BY <1>1, <1>3, <1>5, <1>6

-----------------------------------------------------------------------------
(* The seating is invariant *)

\* A quiet step keeps the seating.
LEMMA QuietSeating ==
    ASSUME IInv, Seating, Quiet PROVE Seating'
  <1>1. /\ standings' = standings
        /\ \A x \in Match :
              /\ matches'[x].teamA = matches[x].teamA /\ matches'[x].teamB = matches[x].teamB
              /\ Seated(matches'[x]) = Seated(matches[x])
              /\ Full(matches'[x]) <=> Full(matches[x])
              /\ Playable(matches'[x]) => Playable(matches[x])
              /\ Over(matches[x]) => Over(matches'[x])
              /\ matches'[x].status # "absent" => matches[x].status # "absent"
    BY DEF Quiet, Seated, Full, Playable, Over
  <1>2. AllApart'
    BY <1>1 DEF Seating, AllApart, Apart
  <1>3. OneSeat'
    BY <1>1 DEF Seating, Placed, OneSeat, Open
  <1>4. LossesCounted'
    BY <1>1 DEF Seating, Placed, LossesCounted, Lives
  <1>5. StillIn'
    BY <1>1 DEF Seating, Placed, StillIn, Open
  <1>6. ASSUME NEW position, NEW x \in Match, FeedersOver(position, x) PROVE FeedersOver(position, x)'
    BY <1>1, <1>6 DEF FeedersOver
  <1>7. Sides'
    <2>1. SUFFICES ASSUME Double, NEW x \in Match, Playable(matches'[x]), NEW t \in Seated(matches'[x])
                   PROVE  OnItsSide(t, x)'
      BY DEF Sides, Double, Open
    <2>2. OnItsSide(t, x)
      BY <1>1, <2>1 DEF Seating, Placed, Sides, Open
    <2> QED
      BY <1>1, <1>6, <2>2 DEF OnItsSide
  <1>8. Finalists'
    BY <1>1 DEF Seating, Placed, Finalists, Open, Double
  <1>9. ResetLast'
    BY <1>1 DEF Seating, Placed, ResetLast, Double
  <1> QED
    BY <1>2, <1>3, <1>4, <1>5, <1>7, <1>8, <1>9 DEF Seating, Placed

\* Before the first result nobody has lost, and only the winners bracket
\* seats anybody.
LEMMA BeforeTheFirstResult ==
    ASSUME IInv, Seating, EliminationShape, Elimination, \A t \in Team : ~standings[t].row
    PROVE  /\ \A t \in Team : standings[t].losses = 0 /\ ~standings[t].eliminated
           /\ Double => \A x \in Match : (Open(x) /\ Seated(matches[x]) # {}) => Position[x] = "winners"
  <1>1. \A t \in Team : standings[t].losses = 0 /\ ~standings[t].eliminated
    <2>1. \A t \in Team : standings[t].losses \in Nat
      BY DEF IInv, TypeOK, Standing
    <2>2. Lives \in {1, 2}
      BY DEF Lives
    <2>3. ASSUME NEW t \in Team PROVE standings[t].losses = 0 /\ ~standings[t].eliminated
      <3>1. /\ standings[t].eliminated <=> standings[t].losses = Lives
            /\ standings[t].losses > 0 => standings[t].row
            /\ ~standings[t].row
        BY DEF Seating, Placed, LossesCounted
      <3>2. standings[t].losses = 0
        BY <2>1, <3>1
      <3> QED
        BY <2>2, <3>1, <3>2
    <2> QED
      BY <2>3
  <1>2. ASSUME Double, NEW x \in Match, Open(x), NEW t \in Seated(matches[x]) PROVE Position[x] = "winners"
    <2>1. t \in Team
      BY SeatedTeams DEF IInv, TypeOK
    <2>2. OnItsSide(t, x)
      BY <1>2 DEF Seating, Placed, Sides
    <2> QED
      BY <1>1, <2>1, <2>2 DEF OnItsSide
  <1> QED
    BY <1>1, <1>2

\* A reseat before the first result keeps the seating.
LEMMA ReseatSeating ==
    ASSUME IInv, Seating, EliminationShape, Elimination, "swap" \notin Requests,
           NEW t \in Team, NEW u \in Team, SwapBracketTeams(t, u)
    PROVE  Seating'
  <1>1. \A s \in Team : ~standings[s].row
    BY DEF SwapBracketTeams, MayTrade
  <1>2. /\ \A s \in Team : standings[s].losses = 0 /\ ~standings[s].eliminated
        /\ Double => \A x \in Match : (Open(x) /\ Seated(matches[x]) # {}) => Position[x] = "winners"
    BY <1>1, BeforeTheFirstResult
  <1>3. AllApart' /\ \E swap \in [Team -> Team] : Traded(swap)
    BY SwapTrades DEF Seating, Placed
  <1>4. PICK swap \in [Team -> Team] : Traded(swap)
    BY <1>3
  <1>5. standings' = standings /\ \A x \in Match : Playable(matches'[x]) <=> Open(x)
    BY <1>4 DEF Traded, Open, Playable
  <1>6. ASSUME NEW x \in Match, NEW s \in Seated(matches'[x]) PROVE s \in Team
    BY TypeStep, SeatedTeams DEF IInv, TypeOK, Next
  <1>7. ASSUME NEW x \in Match, Open(x), NEW s \in Seated(matches'[x])
        PROVE  swap[s] \in Seated(matches[x]) /\ swap[s] \in Team
    BY <1>4, <1>6, <1>7 DEF Traded
  <1>8. OneSeat'
    <2>1. SUFFICES ASSUME NEW s \in Team, NEW x \in Match, NEW y \in Match,
                          Playable(matches'[x]), Playable(matches'[y]),
                          s \in Seated(matches'[x]), s \in Seated(matches'[y])
                   PROVE  x = y
      BY DEF OneSeat, Open
    <2>2. Open(x) /\ Open(y) /\ swap[s] \in Team
          /\ swap[s] \in Seated(matches[x]) /\ swap[s] \in Seated(matches[y])
      BY <1>5, <1>7, <2>1
    <2> QED
      BY <2>2 DEF Seating, Placed, OneSeat
  <1>9. LossesCounted'
    BY <1>5 DEF Seating, Placed, LossesCounted, Lives
  <1>10. StillIn'
    BY <1>2, <1>5, <1>6 DEF StillIn, Open
  <1>11. ASSUME Double, NEW x \in Match, Playable(matches'[x]), NEW s \in Seated(matches'[x])
         PROVE  Position[x] = "winners" /\ standings'[s].losses = 0
    BY <1>2, <1>5, <1>6, <1>7, <1>11
  <1>12. Sides'
    <2>1. SUFFICES ASSUME Double, NEW x \in Match, Playable(matches'[x]), NEW s \in Seated(matches'[x])
                   PROVE  OnItsSide(s, x)'
      BY DEF Sides, Double, Open
    <2> QED
      BY <1>11, <2>1 DEF OnItsSide
  <1>13. Finalists'
    BY <1>11 DEF Finalists, Open, Double
  <1>14. ResetLast'
    BY <1>4 DEF Traded, Seating, Placed, ResetLast, Double, Over
  <1> QED
    BY <1>3, <1>8, <1>9, <1>10, <1>12, <1>13, <1>14 DEF Seating, Placed

\* The requests of the theorems: a reseat before the first result, but no swap
\* after it, no match reset and no restart.
Undisturbed == {"swap", "reset", "restart"} \intersect Requests = {}

\* Every step of play keeps the seating.
LEMMA SeatingStep ==
    ASSUME IInv, Seating, EliminationShape, Elimination, Undisturbed, [Next]_vars
    PROVE  Seating'
  <1>1. ~ResetResults /\ \A m \in Match : ~ResetMatch(m)
    BY DEF Undisturbed, ResetResults, ResetMatch
  <1>2. ASSUME NEW t \in Team, NEW u \in Team, SwapBracketTeams(t, u) PROVE Seating'
    BY <1>2, ReseatSeating DEF Undisturbed
  <1>3. ASSUME NEW m \in Match, NEW winner \in Team, CompleteMatch(m, winner) PROVE Seating'
    BY <1>3, CompletionSeating
  <1>4. CASE /\ \A t, u \in Team : ~SwapBracketTeams(t, u)
             /\ \A m \in Match, winner \in Team : ~CompleteMatch(m, winner)
    BY <1>1, <1>4, QuietStep, QuietSeating
  <1> QED
    BY <1>2, <1>3, <1>4, SMTT(30)

\* A generated bracket seats every team in one match of the winners bracket.
LEMMA SeatingInit ==
    ASSUME Init, EliminationShape, Elimination PROVE Seating
  <1>1. matches = Generated /\ \A t \in Team : standings[t] = NoStanding
    BY DEF Init
  <1>2. Generated \in [Match -> Row]
    BY GeneratedShape
  <1>0. NoStanding.losses = 0 /\ ~NoStanding.eliminated /\ ~NoStanding.row
    BY DEF NoStanding
  <1>3. AllApart
    BY <1>1, GeneratedShape DEF AllApart, Apart
  <1>4. OneSeat
    BY <1>1 DEF EliminationShape, Entrants, OneSeat, Open
  <1>5. LossesCounted
    <2>1. Lives \in {1, 2}
      BY DEF Lives
    <2>2. ASSUME NEW t \in Team
          PROVE  /\ standings[t].losses <= Lives
                 /\ standings[t].eliminated <=> standings[t].losses = Lives
                 /\ standings[t].losses > 0 => standings[t].row
      <3>1. standings[t].losses = 0 /\ ~standings[t].eliminated
        BY <1>0, <1>1
      <3> QED
        BY <2>1, <3>1
    <2> QED
      BY <2>2 DEF LossesCounted
  <1>6. \A x \in Match : Seated(matches[x]) \subseteq Team
    BY <1>1, <1>2, SeatedTeams
  <1>7. StillIn
    BY <1>0, <1>1, <1>6 DEF StillIn
  <1>8. Double => \A x \in Match : (Open(x) /\ Seated(matches[x]) # {}) => Position[x] = "winners"
    BY <1>1 DEF EliminationShape, DoubleShape, Open, Double
  <1>9. Sides
    BY <1>0, <1>1, <1>6, <1>8 DEF Sides, OnItsSide
  <1>10. Finalists
    BY <1>8 DEF Finalists
  <1>11. ResetLast
    BY <1>1 DEF ResetLast, EliminationShape, DoubleShape, Double
  <1> QED
    BY <1>3, <1>4, <1>5, <1>7, <1>9, <1>10, <1>11 DEF Seating, Placed

\* Types and seating are inductive together.
LEMMA SeatingInvariant ==
    ASSUME EliminationShape, Elimination, Undisturbed
    PROVE  Spec => [](IInv /\ Seating)
  <1>1. Init => IInv /\ Seating
    BY TypeInit, SeatingInit
  <1>2. IInv /\ Seating /\ [Next]_vars => (IInv /\ Seating)'
    BY TypeStep, SeatingStep
  <1> QED
    BY <1>1, <1>2, PTL DEF Spec

-----------------------------------------------------------------------------
(* What the seating means *)

\* A bracket generated in one of the elimination formats has their shape.
LEMMA EliminationFits ==
    ASSUME BracketFits, Elimination PROVE EliminationShape
  BY DEF BracketFits, Elimination

\* A team is eliminated exactly when it takes its last loss, in whatever order
\* matches are decided: CompleteMatch judges by the links of the match and by
\* the standings of the grand finalists, and that is the same as counting.
THEOREM EliminatedAtTheLastLoss ==
    ASSUME BracketFits, Undisturbed
    PROVE  Spec => []EliminationDiscipline
  <1>1. CASE ~Elimination
    <2>1. EliminationDiscipline
      BY <1>1 DEF EliminationDiscipline
    <2> QED
      BY <2>1, PTL
  <1>2. CASE Elimination
    <2>1. Seating => EliminationDiscipline
      BY DEF Seating, Placed, LossesCounted, EliminationDiscipline
    <2> QED
      BY <1>2, <2>1, EliminationFits, SeatingInvariant, PTL
  <1> QED
    BY <1>1, <1>2

\* A set with no two elements has at most one.
LEMMA AtMostOne ==
    ASSUME NEW S, \A x, y \in S : x = y
    PROVE  IsFiniteSet(S) /\ Cardinality(S) <= 1
  <1>1. CASE S = {}
    BY <1>1, FS_EmptySet
  <1>2. CASE S # {}
    <2>1. PICK x \in S : S = {x}
      BY <1>2
    <2>2. IsFiniteSet({x}) /\ Cardinality({x}) = 1
      BY FS_Singleton
    <2> QED
      BY <2>1, <2>2
  <1> QED
    BY <1>1, <1>2

\* Winner and loser are taken on one by one, and a loser may be passed through
\* a match without playing; still nobody is ever expected in two matches, and
\* an eliminated team in none.
THEOREM NobodyIsExpectedTwice ==
    ASSUME BracketFits, Undisturbed
    PROVE  Spec => []OneOpenMatch
  <1>1. CASE ~Elimination
    <2>1. OneOpenMatch
      BY <1>1 DEF OneOpenMatch
    <2> QED
      BY <2>1, PTL
  <1>2. CASE Elimination
    <2>1. IInv /\ Seating => OneOpenMatch
      <3>1. SUFFICES ASSUME IInv, Seating, NEW t \in Team
                     PROVE  LET seats == {m \in Match : Open(m) /\ t \in Seated(matches[m])}
                            IN  /\ Cardinality(seats) <= 1
                                /\ standings[t].eliminated => seats = {}
        BY DEF OneOpenMatch
      <3> DEFINE seats == {m \in Match : Open(m) /\ t \in Seated(matches[m])}
      <3>2. \A x, y \in seats : x = y
        BY <3>1 DEF Seating, Placed, OneSeat
      <3>3. standings[t].eliminated => seats = {}
        BY <3>1 DEF Seating, Placed, StillIn
      <3> QED
        BY <3>2, <3>3, AtMostOne
    <2> QED
      BY <1>2, <2>1, EliminationFits, SeatingInvariant, PTL
  <1> QED
    BY <1>1, <1>2

\* The losses of a team and the side of the bracket it is on always agree; the
\* grand final is between an unbeaten team and one beaten once, and its reset
\* between two beaten once.
THEOREM LossesDecideTheSide ==
    ASSUME BracketFits, Undisturbed
    PROVE  Spec => []BracketSide
  <1>1. CASE ~Double
    <2>1. BracketSide
      BY <1>1 DEF BracketSide, Double
    <2> QED
      BY <2>1, PTL
  <1>2. CASE Double
    <2>0. Elimination /\ EliminationShape
      BY <1>2, EliminationFits DEF Double, Elimination
    <2>1. IInv /\ Seating => BracketSide
      <3> DEFINE losses(m) == {standings[t].losses : t \in Seated(matches[m])}
      <3>1. SUFFICES ASSUME IInv, Seating, NEW m \in Match, Open(m)
                     PROVE  CASE Position[m] = "winners"           -> losses(m) \subseteq {0}
                              [] Position[m] = "losers"            -> losses(m) \subseteq {1}
                              [] Position[m] = "grand_final"       -> Full(matches[m]) => losses(m) = {0, 1}
                              [] Position[m] = "grand_final_reset" -> losses(m) = {1}
        BY DEF BracketSide
      <3>2. \A t \in Seated(matches[m]) : OnItsSide(t, m)
        BY <1>2, <3>1 DEF Seating, Placed, Sides
      <3>3. Full(matches[m]) => /\ Seated(matches[m]) = {matches[m].teamA, matches[m].teamB}
                               /\ matches[m].teamA # matches[m].teamB
        BY <3>1, SeatedTeams DEF IInv, TypeOK, Seating, AllApart, Apart
      <3>4. CASE Position[m] = "winners"
        BY <3>2, <3>4 DEF OnItsSide
      <3>5. CASE Position[m] = "losers"
        BY <3>2, <3>5 DEF OnItsSide
      <3>6. CASE Position[m] = "grand_final"
        <4>1. \A t \in Seated(matches[m]) : standings[t].losses \in {0, 1}
          BY <3>2, <3>6 DEF OnItsSide
        <4>2. Full(matches[m]) => standings[matches[m].teamA].losses # standings[matches[m].teamB].losses
          BY <1>2, <3>1, <3>3, <3>6 DEF Seating, Placed, Finalists
        <4>3. Full(matches[m]) => losses(m) = {0, 1}
          BY <3>3, <4>1, <4>2
        <4> QED
          BY <3>6, <4>3
      <3>7. CASE Position[m] = "grand_final_reset"
        <4>1. matches[m].status # "absent"
          BY <3>1 DEF Open, Playable
        <4>2. Full(matches[m])
          BY <1>2, <3>1, <3>7, <4>1 DEF Seating, Placed, ResetLast
        <4>3. \A t \in Seated(matches[m]) : standings[t].losses = 1
          BY <3>2, <3>7 DEF OnItsSide
        <4>4. losses(m) = {1}
          BY <3>3, <4>2, <4>3
        <4> QED
          BY <3>7, <4>4
      <3>8. Position[m] \in {"winners", "losers", "grand_final", "grand_final_reset"}
        BY <1>2, <2>0, DoubleFacts
      <3> QED
        BY <3>4, <3>5, <3>6, <3>7, <3>8
    <2> QED
      BY <2>0, <2>1, SeatingInvariant, PTL
  <1> QED
    BY <1>1, <1>2

\* In an elimination bracket nobody is seated against himself even when teams
\* are reseated before the first result.
THEOREM NobodyMeetsHimselfReseated ==
    ASSUME BracketFits, Elimination, Undisturbed
    PROVE  Spec => []NoSelfMatch
  <1>1. Seating => NoSelfMatch
    BY DEF Seating, AllApart, Apart, NoSelfMatch
  <1> QED
    BY <1>1, EliminationFits, SeatingInvariant, PTL

-----------------------------------------------------------------------------
(***************************************************************************)
(* The flow of results: every link of a match that is still to be decided  *)
(* has a free slot waiting for its team, every match that can be played    *)
(* has its teams or gets them, and every team that is still in is seated   *)
(* in a match to be played.  Hence results arrive, the bracket is never    *)
(* stuck, and the champion is the last team standing.                      *)
(***************************************************************************)

\* The requests of these theorems: nothing is started before both its teams
\* are known and nothing completed without a winner.
Orderly == Undisturbed /\ {"unready", "force"} \intersect Requests = {}

-----------------------------------------------------------------------------
(* The invariant *)

\* Only the grand-final reset may have no row yet.
OnlyResetAbsent ==
    \A x \in Match : matches[x].status = "absent" => Double /\ Position[x] = "grand_final_reset"

\* A match without both teams has not been started.
Waiting == \A x \in Match : (Open(x) /\ ~Full(matches[x])) => matches[x].status = "pending"

\* Whoever is still in, and not champion, has a match to play.
StillSeated ==
    \A t \in Team : ~standings[t].eliminated =>
        t = champion \/ \E x \in Match : Open(x) /\ t \in Seated(matches[x])

\* The champion is crowned when nothing is left to be played.
PlayedOut == champion # Nobody => \A x \in Match : ~Open(x)

\* A completed match has a winner, whom the standings know.
Credited ==
    \A m \in Match : matches[m].status = "completed" =>
        matches[m].winner \in Team /\ standings[matches[m].winner].row

FlowNow == Flow(matches, Owed(matches))

Accounted ==
    /\ OnlyResetAbsent /\ FlowNow /\ Waiting
    /\ StillSeated /\ PlayedOut /\ Credited /\ ResultsPropagated

-----------------------------------------------------------------------------
(* One link at a time *)

\* From rows to new a team takes its seat in x.
Sends(rows, new, x, team) ==
    \A y \in Match : new[y] = IF y = x THEN Seat(rows[x], team) ELSE rows[y]

\* What becomes of the accounts when the team of link e does.
Delivered(rows, new, owed, e, x, team) ==
    /\ ~Full(rows[x])
    /\ Seated(new[x]) = Seated(rows[x]) \union {team}
    /\ Room(new, owed \ {e}) /\ Awaited(new, owed \ {e})
    /\ \A y \in Match : (y # x /\ FedIn(y, rows, owed)) => FedIn(y, new, owed \ {e})
    /\ \/ ~FedIn(x, rows, owed)
       \/ e[2] = "loser" /\ Seated(rows[x]) = {} /\ Into(owed, x) = {e}
       \/ FedIn(x, new, owed \ {e})

\* A team sent along a link finds a slot, and the accounts balance without
\* the link; only a loser who is the last to come to an empty match is left
\* there alone.
LEMMA Deliver ==
    ASSUME LinksForward, NEW rows \in [Match -> Row], NEW owed \in SUBSET Link,
           Room(rows, owed), Awaited(rows, owed),
           NEW e \in owed, NEW x \in Match, To(e) = x,
           NEW team \in Team, team \notin Seated(rows[x]),
           NEW new, Sends(rows, new, x, team)
    PROVE  Delivered(rows, new, owed, e, x, team)
  <1> DEFINE left == owed \ {e}
  <1>0. \A y \in Match : new[y] = IF y = x THEN Seat(rows[x], team) ELSE rows[y]
    BY DEF Sends
  <1>1. e \in Into(owed, x) /\ rows[x] \in Row
    BY DEF Into
  <1>2. ~Full(rows[x])
    BY <1>1 DEF Room, RoomIn
  <1>3. /\ Seated(new[x]) = Seated(rows[x]) \union {team}
        /\ new[x].status = rows[x].status
        /\ Seated(rows[x]) # {} => Full(new[x])
        /\ Seated(rows[x]) = {} => ~Full(new[x])
    <2>1. new[x] = Seat(rows[x], team)
      BY <1>0
    <2>2. Seated(new[x]) = Seated(rows[x]) \union {team}
      BY <1>1, <1>2, <2>1, SeatTeams
    <2>3. Seated(rows[x]) # {} => Full(new[x])
      BY <1>1, <1>2, <2>1, SeatTeams
    <2>4. new[x].status = rows[x].status
      BY <1>1, <2>1 DEF Seat, Row
    <2>5. ASSUME Seated(rows[x]) = {} PROVE ~Full(new[x])
      <3>1. rows[x].teamA = Nobody /\ rows[x].teamB = Nobody
        BY <2>5 DEF Seated
      <3>2. new[x] = [rows[x] EXCEPT !.teamA = team]
        BY <1>2, <2>1, <3>1 DEF Seat
      <3>3. new[x].teamB = Nobody
        BY <1>1, <3>1, <3>2 DEF Row
      <3> QED
        BY <3>3 DEF Full
    <2> QED
      BY <2>2, <2>3, <2>4, <2>5
  <1>4. /\ Into(left, x) = Into(owed, x) \ {e}
        /\ \A y \in Match : y # x => Into(left, y) = Into(owed, y) /\ new[y] = rows[y]
    BY <1>0 DEF Into
  <1>5. \A c, d \in Into(left, x) : c = d
    <2>1. \A c \in Into(owed, x) : c \in Into(Link, x)
      BY DEF Into
    <2>2. \A b, c, d \in Into(Link, x) : b = c \/ c = d \/ b = d
      BY DEF LinksForward
    <2>3. ASSUME NEW c \in Into(left, x), NEW d \in Into(left, x) PROVE c = d
      <3>1. c \in Into(owed, x) /\ d \in Into(owed, x) /\ c # e /\ d # e
        BY <1>4, <2>3
      <3> QED
        BY <1>1, <2>1, <2>2, <3>1
    <2> QED
      BY <2>3
  <1>6. Into(left, x) # {} => Seated(rows[x]) = {}
    BY <1>1, <1>4 DEF Room, RoomIn
  <1> HIDE DEF left
  <1>7. Room(new, left)
    <2>1. RoomIn(x, new, left)
      BY <1>3, <1>5, <1>6 DEF RoomIn
    <2>2. ASSUME NEW y \in Match, y # x PROVE RoomIn(y, new, left)
      BY <1>4, <2>2 DEF Room, RoomIn
    <2> QED
      BY <2>1, <2>2 DEF Room
  <1>8. Awaited(new, left)
    <2>1. left \subseteq owed
      BY DEF left
    <2>2. ASSUME NEW d \in left, To(d) # NoMatch PROVE Playable(new[To(d)])
      <3>1. To(d) \in Match /\ Playable(rows[To(d)])
        BY <2>1, <2>2 DEF Awaited, LinksForward
      <3> QED
        BY <1>3, <1>4, <3>1 DEF Playable
    <2> QED
      BY <2>2 DEF Awaited
  <1>9. ASSUME NEW y \in Match, y # x, FedIn(y, rows, owed) PROVE FedIn(y, new, left)
    BY <1>4, <1>9 DEF FedIn
  <1>10. ASSUME FedIn(x, rows, owed), ~(e[2] = "loser" /\ Seated(rows[x]) = {} /\ Into(owed, x) = {e})
         PROVE  FedIn(x, new, left)
    <2>1. Seated(new[x]) # {}
      BY <1>3
    <2>2. ASSUME Playable(new[x]) PROVE Full(new[x]) \/ Into(left, x) # {}
      <3>1. Playable(rows[x])
        BY <1>3, <2>2 DEF Playable
      <3>2. CASE Seated(rows[x]) # {}
        BY <1>3, <3>2
      <3>3. CASE Seated(rows[x]) = {} /\ Into(left, x) = {}
        <4>1. Into(owed, x) = {e}
          BY <1>1, <1>4, <3>3
        <4>2. e[2] = "loser"
          BY <1>10, <3>1, <3>3, <4>1 DEF FedIn
        <4> QED
          BY <1>10, <3>3, <4>1, <4>2
      <3> QED
        BY <3>2, <3>3
    <2> QED
      BY <2>1, <2>2 DEF FedIn
  <1> QED
    BY <1>2, <1>3, <1>7, <1>8, <1>9, <1>10 DEF Delivered, left

\* A link that leads nowhere is in no account.
LEMMA DropLink ==
    ASSUME NEW rows, NEW owed, NEW e, To(e) \notin Match
    PROVE  /\ Room(rows, owed) => Room(rows, owed \ {e})
           /\ Awaited(rows, owed) => Awaited(rows, owed \ {e})
           /\ \A y \in Match : FedIn(y, rows, owed) => FedIn(y, rows, owed \ {e})
  <1>1. \A y \in Match : Into(owed \ {e}, y) = Into(owed, y)
    BY DEF Into
  <1> QED
    BY <1>1 DEF Room, RoomIn, Awaited, FedIn

\* A match that nobody is sent to any more may be closed.
LEMMA CloseMatch ==
    ASSUME NEW rows, NEW new, NEW owed, NEW m \in Match, Into(owed, m) = {},
           Room(rows, owed), Awaited(rows, owed),
           \A y \in Match : y # m => new[y] = rows[y],
           ~Playable(new[m]), \A e \in owed : To(e) # NoMatch => To(e) \in Match
    PROVE  /\ Room(new, owed) /\ Awaited(new, owed) /\ FedIn(m, new, owed)
           /\ \A y \in Match : (y # m /\ FedIn(y, rows, owed)) => FedIn(y, new, owed)
  <1>1. \A e \in owed : To(e) # m
    BY DEF Into
  <1>2. Room(new, owed)
    BY DEF Room, RoomIn
  <1>3. Awaited(new, owed)
    BY <1>1 DEF Awaited
  <1>4. FedIn(m, new, owed)
    BY DEF FedIn
  <1>5. ASSUME NEW y \in Match, y # m, FedIn(y, rows, owed) PROVE FedIn(y, new, owed)
    BY <1>5 DEF FedIn
  <1> QED
    BY <1>2, <1>3, <1>4, <1>5

-----------------------------------------------------------------------------
(* A completion, link by link *)

WinnerLink(m) == <<m, "winner">>
LoserLink(m)  == <<m, "loser">>

\* A match has two links, and no other match has them.
LEMMA LinksOf ==
    ASSUME NEW m \in Match
    PROVE  /\ WinnerLink(m) \in Link /\ To(WinnerLink(m)) = NextMatch[m]
           /\ LoserLink(m) \in Link /\ To(LoserLink(m)) = LoserNextMatch[m]
           /\ WinnerLink(m) # LoserLink(m) /\ LoserLink(m)[2] = "loser" /\ WinnerLink(m)[2] = "winner"
           /\ \A e \in Link : e[1] = m => e = WinnerLink(m) \/ e = LoserLink(m)
           /\ \A x \in Match : WinnerLink(m) = WinnerLink(x) => m = x
  BY DEF Link, To, WinnerLink, LoserLink

\* A team of a match being decided is not seated in a match that still waits.
LEMMA Fresh ==
    ASSUME NEW m \in Match, NEW winner \in Team, Completes(m, winner),
           IInv, OneSeat, LinksForward, FlowNow,
           NEW e \in Link, ~Over(matches[e[1]]), To(e) # NoMatch, To(e) # m
    PROVE  /\ To(e) \in Match /\ Open(To(e))
           /\ \A t \in Seated(matches[m]) : t \notin Seated(matches[To(e)])
  <1>1. To(e) \in Match /\ Open(To(e))
    BY DEF FlowNow, Flow, Awaited, Owed, LinksForward, Open
  <1>2. Open(m) /\ matches[m] \in Row
    BY DEF Completes, Open, Playable, IInv, TypeOK
  <1>3. Seated(matches[m]) \subseteq Team
    BY <1>2, SeatedTeams
  <1> QED
    BY <1>1, <1>2, <1>3 DEF OneSeat

\* The match is decided and its winner seated in the next match.
LEMMA WonFlow ==
    ASSUME IInv, Seating, Accounted, EliminationShape,
           NEW m \in Match, NEW winner \in Team, Completes(m, winner)
    PROVE  /\ Flow(WonRows(m, winner), Owed(matches) \ {WinnerLink(m)})
           /\ NextMatch[m] # NoMatch => winner \in Seated(WonRows(m, winner)[NextMatch[m]])
  <1> DEFINE owed == Owed(matches)
             e == WinnerLink(m)
             rows == [matches EXCEPT ![m] = Decided(@, winner)]
             new == WonRows(m, winner)
  <1>1. /\ LinksForward /\ OneSeat /\ FlowNow
        /\ Room(matches, owed) /\ Fed(matches, owed) /\ Awaited(matches, owed)
        /\ owed \in SUBSET Link
    BY DEF EliminationShape, Seating, Placed, Accounted, FlowNow, Flow, Owed
  <1>2. Into(owed, m) = {}
    BY <1>1 DEF Completes, Room, RoomIn
  <1>3. ~Over(matches[m])
    BY DEF Completes, Over
  <1>4. e \in owed /\ To(e) = NextMatch[m] /\ e[2] = "winner" /\ e[1] = m /\ e \in Link
    BY <1>3, LinksOf DEF Owed, WinnerLink
  <1>5. /\ rows \in [Match -> Row] /\ ~Playable(rows[m])
        /\ \A y \in Match : y # m => rows[y] = matches[y]
        /\ NextMatch[m] # m
        /\ new \in [Match -> Row]
        /\ \A y \in Match : new[y] = IF y = NextMatch[m] THEN Seat(rows[y], winner) ELSE rows[y]
    <2>1. matches \in [Match -> Row] /\ Decided(matches[m], winner) \in Row
      BY DecidedLemma DEF IInv, TypeOK, Completes
    <2>2. Decided(matches[m], winner).status = "completed"
      BY <2>1 DEF Decided, Row, IInv, TypeOK
    <2>3. rows[m] = Decided(matches[m], winner)
      BY <2>1
    <2>4. NextMatch[m] # m
      BY <1>1, LinksApart
    <2>5. rows \in [Match -> Row]
      BY <2>1
    <2>6. winner \in Slot
      BY DEF Slot
    <2>7. \A y \in Match : new[y] = IF y = NextMatch[m] THEN Seat(rows[y], winner) ELSE rows[y]
      <3>1. new = AdvanceWinner(rows, m, winner)
        BY DEF WonRows
      <3> HIDE DEF rows, new
      <3> QED
        BY <2>5, <2>6, <3>1, AdvancedRow
    <2>8. new \in [Match -> Row]
      BY <1>1, WonRow
    <2> QED
      BY <2>1, <2>2, <2>3, <2>4, <2>5, <2>7, <2>8 DEF Playable
  <1>6. \A d \in owed : To(d) # NoMatch => To(d) \in Match
    BY <1>1 DEF LinksForward
  <1> HIDE DEF owed, e, rows, new
  <1>7. Room(rows, owed) /\ Fed(rows, owed) /\ Awaited(rows, owed)
    <2>1. /\ Room(rows, owed) /\ Awaited(rows, owed) /\ FedIn(m, rows, owed)
          /\ \A y \in Match : (y # m /\ FedIn(y, matches, owed)) => FedIn(y, rows, owed)
      BY <1>1, <1>2, <1>5, <1>6, CloseMatch
    <2> QED
      BY <1>1, <2>1 DEF Fed
  <1>8. CASE NextMatch[m] = NoMatch
    <2>1. To(e) \notin Match
      BY <1>4, <1>8, BracketShape
    <2>2. Room(rows, owed \ {e}) /\ Fed(rows, owed \ {e}) /\ Awaited(rows, owed \ {e})
      BY <1>7, <2>1, DropLink DEF Fed
    <2>3. \A y \in Match : new[y] = rows[y]
      BY <1>5, <1>8, BracketShape
    <2>4. new = rows
      BY <1>5, <2>3
    <2> QED
      BY <1>8, <2>2, <2>4 DEF Flow, new, owed, e
  <1>9. CASE NextMatch[m] # NoMatch
    <2> DEFINE x == NextMatch[m]
    <2>1. x \in Match /\ winner \notin Seated(rows[x])
      <3>1. winner \in Seated(matches[m])
        BY DEF Completes
      <3>2. To(e) \in Match /\ winner \notin Seated(matches[To(e)])
        BY <1>1, <1>3, <1>4, <1>5, <1>9, <3>1, Fresh
      <3> QED
        BY <1>4, <1>5, <3>2
    <2>2. To(e) = x /\ Sends(rows, new, x, winner)
      BY <1>4, <1>5 DEF Sends
    <2> HIDE DEF x
    <2>3. Delivered(rows, new, owed, e, x, winner)
      <3>1. /\ LinksForward /\ rows \in [Match -> Row] /\ owed \in SUBSET Link /\ e \in owed
            /\ Room(rows, owed) /\ Awaited(rows, owed)
        BY <1>1, <1>4, <1>5, <1>7
      <3> QED
        BY <2>1, <2>2, <3>1, Deliver
    <2>4. Fed(new, owed \ {e})
      BY <1>4, <1>7, <2>1, <2>3 DEF Fed, Delivered
    <2> QED
      BY <1>4, <2>1, <2>3, <2>4 DEF Flow, Delivered, new, owed, e, x
  <1> QED
    BY <1>8, <1>9

\* Seated alone in an empty row.
LEMMA SeatEmpty ==
    ASSUME NEW row \in Row, NEW team \in Team, Seated(row) = {}
    PROVE  ~Full(row) /\ Single(Seat(row, team))
  <1>1. row.teamA = Nobody /\ row.teamB = Nobody
    BY DEF Seated
  <1>2. Seat(row, team) = [row EXCEPT !.teamA = team]
    BY <1>1, NobodyIsNoTeam DEF Seat, Full, Seated
  <1>3. Seat(row, team).teamA = team /\ Seat(row, team).teamB = Nobody
    BY <1>1, <1>2 DEF Row
  <1> QED
    BY <1>1, <1>3, NobodyIsNoTeam DEF Full, Single

\* The rows once m is decided and nothing else is.
OnlyDecides(rows, m) ==
    /\ rows[m].status = "completed"
    /\ \A f \in Match : f # m => rows[f].status = matches[f].status

\* A match that another match still sends a team to awaits it, and no other.
LEMMA AwaitsIsOwed ==
    ASSUME EliminationShape, Double, OnlyResetAbsent, IInv,
           NEW m \in Match, NEW x \in Match, x = LoserNextMatch[m],
           NEW rows, NEW owed \in SUBSET Link,
           owed = Owed(matches) \ {WinnerLink(m), LoserLink(m)},
           OnlyDecides(rows, m)
    PROVE  AwaitsFeeder(rows, x, m) <=> Into(owed, x) # {}
  <1>1. /\ rows[m].status = "completed"
        /\ \A f \in Match : f # m => rows[f].status = matches[f].status
    BY DEF OnlyDecides
  <1>2. Position[x] = "losers"
    <2>1. LoserNextMatch[m] # NoMatch
      BY BracketShape
    <2>2. Position[m] = "winners"
      BY <2>1, DoubleFacts
    <2> QED
      BY <2>2, DoubleFacts
  <1>3. ASSUME AwaitsFeeder(rows, x, m) PROVE Into(owed, x) # {}
    <2>1. PICK f \in Match : /\ rows[f].status \notin {"absent", "completed", "bye"}
                             /\ \/ Position[f] = "losers" /\ NextMatch[f] = x
                                \/ LoserNextMatch[f] = x /\ f # m
      BY <1>3 DEF AwaitsFeeder
    <2>2. f # m /\ ~Over(matches[f])
      BY <1>1, <2>1 DEF Over
    <2>3. WinnerLink(f) \in owed /\ LoserLink(f) \in owed
      BY <2>2, LinksOf DEF Owed, WinnerLink, LoserLink
    <2> QED
      BY <2>1, <2>3, LinksOf DEF Into
  <1>4. ASSUME NEW e \in Into(owed, x) PROVE AwaitsFeeder(rows, x, m)
    <2>1. e \in owed /\ To(e) = x /\ e \in Link
      BY DEF Into
    <2>2. PICK f \in Match : e = WinnerLink(f) \/ e = LoserLink(f)
      BY <2>1 DEF Link, WinnerLink, LoserLink
    <2>3. f # m /\ ~Over(matches[f])
      BY <2>1, <2>2 DEF Owed, WinnerLink, LoserLink
    <2>4. NextMatch[f] = x \/ LoserNextMatch[f] = x
      BY <2>1, <2>2, LinksOf
    <2>5. x # NoMatch
      BY BracketShape
    <2>6. matches[f].status # "absent" /\ (NextMatch[f] = x => Position[f] = "losers")
      BY <1>2, <2>4, <2>5, DoubleFacts DEF OnlyResetAbsent
    <2>7. rows[f].status \notin {"absent", "completed", "bye"}
      BY <1>1, <2>3, <2>6 DEF Over
    <2> QED
      BY <2>3, <2>4, <2>6, <2>7 DEF AwaitsFeeder
  <1> QED
    BY <1>3, <1>4

\* From rows to new the loser of m is seated in x; x itself may be left short.
Dropped(m, loser, x, rows, new, owed) ==
    /\ new \in [Match -> Row] /\ Sends(rows, new, x, loser)
    /\ OnlyDecides(new, m)
    /\ Room(new, owed) /\ Awaited(new, owed)
    /\ \A y \in Match : y # x => FedIn(y, new, owed)
    /\ loser \in Seated(new[x])

\* The loser is seated in the losers bracket: the accounts balance, but for
\* the match he is left alone in.
LEMMA LostFlow ==
    ASSUME IInv, Seating, Accounted, EliminationShape, Double,
           NEW m \in Match, NEW winner \in Team, CompleteMatch(m, winner),
           NEW loser \in Team, loser = Loser(m, winner),
           NEW x \in Match, x = LoserNextMatch[m],
           NEW rows, rows = WonRows(m, winner),
           NEW new, new = [rows EXCEPT ![x] = Seat(@, loser)],
           NEW owed, owed = Owed(matches) \ {WinnerLink(m), LoserLink(m)}
    PROVE  /\ Dropped(m, loser, x, rows, new, owed)
           /\ FedIn(x, new, owed) \/ Passes(m, winner)
  <1> DEFINE before == Owed(matches) \ {WinnerLink(m)}
             e == LoserLink(m)
  <1>1. /\ Completes(m, winner) /\ loser # winner /\ loser \in Seated(matches[m])
        /\ LinksForward /\ OneSeat /\ FlowNow /\ OnlyResetAbsent /\ Waiting
    BY Landing DEF EliminationShape, Seating, Placed, Accounted
  <1>2. /\ rows \in [Match -> Row]
        /\ \A y \in Match :
              rows[y] = IF y = m THEN Decided(matches[m], winner)
                        ELSE IF y = NextMatch[m] THEN Seat(matches[y], winner)
                        ELSE matches[y]
    BY <1>1, WonRow
  <1>3. /\ matches[m] \in Row /\ \A y \in Match : matches[y] \in Row
        /\ winner \in Slot /\ loser \in Slot /\ x # m /\ x # NoMatch
    BY <1>1, LinksApart, BracketShape DEF IInv, TypeOK, Slot
  <1>4. rows[m].status = "completed" /\ \A y \in Match : y # m => rows[y].status = matches[y].status
    <2>1. Decided(matches[m], winner).status = "completed"
      BY <1>3 DEF Decided, Row
    <2> QED
      BY <1>2, <1>3, <2>1, SeatLemma
  <1>5. /\ new \in [Match -> Row] /\ Sends(rows, new, x, loser)
        /\ \A y \in Match : new[y].status = rows[y].status
    <2>1. rows[x] \in Row /\ Seat(rows[x], loser) \in Row /\ Seat(rows[x], loser).status = rows[x].status
      BY <1>2, <1>3, SeatLemma
    <2>2. \A y \in Match : new[y] = IF y = x THEN Seat(rows[x], loser) ELSE rows[y]
      BY <1>2
    <2>3. new \in [Match -> Row]
      BY <1>2, <2>1
    <2> QED
      BY <2>1, <2>2, <2>3 DEF Sends
  <1>6. /\ Room(rows, before) /\ Fed(rows, before) /\ Awaited(rows, before)
        /\ NextMatch[m] # NoMatch => winner \in Seated(rows[NextMatch[m]])
    BY <1>1, WonFlow DEF Flow
  <1>7. /\ ~Over(matches[m]) /\ e \in before /\ before \in SUBSET Link /\ To(e) = x
        /\ before \ {e} = owed /\ e[2] = "loser" /\ e[1] = m /\ e \in Link
    <2>1. ~Over(matches[m])
      BY <1>1 DEF Completes, Over
    <2> QED
      BY <2>1, LinksOf DEF Owed, LoserLink
  <1>8. x \in Match /\ Open(x) /\ loser \notin Seated(matches[x])
    BY <1>1, <1>3, <1>7, Fresh
  <1>9. loser \notin Seated(rows[x])
    <2>1. Seated(rows[x]) \subseteq Seated(matches[x]) \union {winner}
      BY <1>2, <1>3, SeatTeams
    <2> QED
      BY <1>1, <1>8, <2>1
  <1> HIDE DEF before, e
  <1>10. Delivered(rows, new, before, e, x, loser)
    <2>1. LinksForward /\ rows \in [Match -> Row] /\ Room(rows, before) /\ Awaited(rows, before)
      BY <1>1, <1>2, <1>6
    <2>2. e \in before /\ before \in SUBSET Link /\ To(e) = x /\ Sends(rows, new, x, loser)
      BY <1>5, <1>7
    <2> QED
      BY <1>9, <2>1, <2>2, Deliver
  <1>11. ASSUME Seated(rows[x]) = {}, Into(before, x) = {e} PROVE Passes(m, winner)
    <2>1. rows[x] = matches[x]
      BY <1>2, <1>3, <1>6, <1>11
    <2>2. rows[x].status = "pending" /\ Single(Seat(rows[x], loser))
      BY <1>1, <1>3, <1>8, <1>11, <2>1, SeatEmpty DEF Waiting
    <2>3. Into(owed, x) = {}
      BY <1>7, <1>11 DEF Into
    <2>4. OnlyDecides(new, m) /\ owed \in SUBSET Link
      BY <1>4, <1>5 DEF OnlyDecides, Owed
    <2>5. ~AwaitsFeeder(new, x, m)
      BY <1>1, <2>3, <2>4, AwaitsIsOwed
    <2>6. ~AwaitsFeeder([rows EXCEPT ![x] = Seat(@, loser)], x, m)
      BY <2>5
    <2> QED
      BY <1>3, <1>9, <2>2, <2>6 DEF Passes, Alone
  <1>12. \A y \in Match : y # x => FedIn(y, new, owed)
    BY <1>6, <1>7, <1>10 DEF Delivered, Fed
  <1>13. FedIn(x, new, owed) \/ Passes(m, winner)
    BY <1>6, <1>7, <1>10, <1>11 DEF Delivered, Fed
  <1> QED
    BY <1>3, <1>4, <1>5, <1>7, <1>10, <1>12, <1>13 DEF Delivered, OnlyDecides, Dropped

\* Flow reads a table row by row.
LEMMA SameFlow ==
    ASSUME NEW rows, NEW new, NEW owed, LinksForward, owed \subseteq Link,
           \A y \in Match : new[y] = rows[y],
           Flow(rows, owed)
    PROVE  Flow(new, owed)
  <1>1. \A e \in owed : To(e) # NoMatch => To(e) \in Match
    BY DEF LinksForward
  <1>2. Room(new, owed)
    BY DEF Flow, Room, RoomIn
  <1>3. Fed(new, owed)
    BY DEF Flow, Fed, FedIn
  <1>4. Awaited(new, owed)
    BY <1>1 DEF Flow, Awaited
  <1> QED
    BY <1>2, <1>3, <1>4 DEF Flow

\* A decided match owes nobody a team any more.
LEMMA OwedAfter ==
    ASSUME NEW m \in Match, NEW rows, OnlyDecides(rows, m)
    PROVE  Owed(rows) = Owed(matches) \ {WinnerLink(m), LoserLink(m)}
  <1>1. /\ rows[m].status = "completed"
        /\ \A f \in Match : f # m => rows[f].status = matches[f].status
    BY DEF OnlyDecides
  <1>2. ASSUME NEW e \in Link
        PROVE  ~Over(rows[e[1]]) <=> ~Over(matches[e[1]]) /\ e \notin {WinnerLink(m), LoserLink(m)}
    <2>1. e[1] \in Match
      BY DEF Link
    <2>2. CASE e[1] = m
      BY <1>1, <2>2, LinksOf DEF Over
    <2>3. CASE e[1] # m
      BY <1>1, <2>1, <2>3 DEF Over, WinnerLink, LoserLink
    <2> QED
      BY <2>2, <2>3
  <1> QED
    BY <1>2 DEF Owed

\* What a completion leaves: the accounts balance, and both teams are where
\* the links of the match lead, the loser in a match that is open.
Moves(m, winner, loser) ==
    LET moved == Moved(m, winner)
    IN  /\ Flow(moved, Owed(moved))
        /\ NextMatch[m] # NoMatch => winner \in Seated(moved[NextMatch[m]])
        /\ LoserNextMatch[m] # NoMatch =>
              /\ loser \in Seated(moved[LoserNextMatch[m]])
              /\ Drops(m, winner) \in Match
              /\ Playable(moved[Drops(m, winner)])
              /\ loser \in Seated(moved[Drops(m, winner)])

\* Nobody drops.
LEMMA NobodyDrops ==
    ASSUME IInv, Seating, Accounted, EliminationShape,
           NEW m \in Match, NEW winner \in Team, CompleteMatch(m, winner),
           LoserNextMatch[m] = NoMatch
    PROVE  Moves(m, winner, Loser(m, winner))
  <1> DEFINE rows == WonRows(m, winner)
             moved == Moved(m, winner)
             owed == Owed(matches) \ {WinnerLink(m)}
  <1>1. Completes(m, winner) /\ LinksForward
    BY Landing DEF EliminationShape, Seating, Placed
  <1>2. moved = rows
    BY DEF Moved, AdvanceToLosers
  <1>3. /\ Flow(rows, owed)
        /\ NextMatch[m] # NoMatch => winner \in Seated(rows[NextMatch[m]])
    BY <1>1, WonFlow
  <1>4. OnlyDecides(rows, m)
    <2>1. \A y \in Match : rows[y] = IF y = m THEN Decided(matches[m], winner)
                                     ELSE IF y = NextMatch[m] THEN Seat(matches[y], winner)
                                     ELSE matches[y]
      BY <1>1, WonRow
    <2>2. \A y \in Match : matches[y] \in Row
      BY DEF IInv, TypeOK
    <2>3. winner \in Slot /\ Decided(matches[m], winner).status = "completed"
      BY <2>2 DEF Slot, Decided, Row
    <2> QED
      BY <2>1, <2>2, <2>3, SeatLemma DEF OnlyDecides
  <1> HIDE DEF rows, moved, owed
  <1>5. Owed(rows) = owed \ {LoserLink(m)}
    BY <1>4, OwedAfter DEF owed
  <1>6. Flow(rows, Owed(rows))
    <2>1. To(LoserLink(m)) \notin Match
      BY LinksOf, BracketShape
    <2> QED
      BY <1>3, <1>5, <2>1, DropLink DEF Flow, Fed
  <1> QED
    BY <1>2, <1>3, <1>6 DEF Moves, moved

\* The loser drops and waits for others, or is not the last to come.
LEMMA LoserDrops ==
    ASSUME IInv, Seating, Accounted, EliminationShape, Double,
           NEW m \in Match, NEW winner \in Team, CompleteMatch(m, winner),
           LoserNextMatch[m] # NoMatch, ~Passes(m, winner)
    PROVE  Moves(m, winner, Loser(m, winner))
  <1> DEFINE loser == Loser(m, winner)
             x == LoserNextMatch[m]
             rows == WonRows(m, winner)
             new == [rows EXCEPT ![x] = Seat(@, loser)]
             moved == Moved(m, winner)
             owed == Owed(matches) \ {WinnerLink(m), LoserLink(m)}
  <1>1. /\ Completes(m, winner) /\ LinksForward /\ loser \in Team /\ x \in Match /\ x # m
        /\ OneSeat /\ FlowNow
    BY Landing, LinksApart DEF EliminationShape, Seating, Placed, Accounted
  <1>2. NextMatch[m] # NoMatch => winner \in Seated(rows[NextMatch[m]])
    BY <1>1, WonFlow
  <1>3. /\ Dropped(m, loser, x, rows, new, owed)
        /\ FedIn(x, new, owed)
    BY <1>1, LostFlow
  <1>4. rows \in [Match -> Row]
    BY <1>1, WonRow
  <1>5. \A y \in Match : moved[y] = IF y = x THEN Seat(rows[x], loser) ELSE rows[y]
    BY <1>1, <1>4, DroppedRow DEF Moved, Passes
  <1>6. ~Over(matches[m])
    BY <1>1 DEF Completes, Over
  <1>7. Open(x)
    <2>1. LoserLink(m) \in Link /\ To(LoserLink(m)) = x /\ LoserLink(m)[1] = m
      BY LinksOf DEF LoserLink
    <2> QED
      BY <1>1, <1>6, <2>1, Fresh
  <1>8. Drops(m, winner) = x
    BY DEF Drops
  <1> HIDE DEF rows, new, moved, owed, loser, x
  <1>9. \A y \in Match : moved[y] = new[y]
    BY <1>3, <1>5 DEF Sends, Dropped
  <1>10. OnlyDecides(moved, m)
    BY <1>3, <1>9 DEF OnlyDecides, Dropped
  <1>11. Owed(moved) = owed /\ owed \subseteq Link
    BY <1>10, OwedAfter DEF owed, Owed
  <1>12. Flow(moved, owed)
    <2>1. Flow(new, owed)
      BY <1>3 DEF Flow, Fed, Dropped
    <2> QED
      BY <1>1, <1>9, <1>11, <2>1, SameFlow
  <1>13. loser \in Seated(moved[x]) /\ Playable(moved[x])
    BY <1>1, <1>3, <1>7, <1>9 DEF OnlyDecides, Open, Playable, Dropped
  <1>14. NextMatch[m] # NoMatch => winner \in Seated(moved[NextMatch[m]])
    <2>1. NextMatch[m] # NoMatch => NextMatch[m] \in Match
      BY <1>1, LinksApart
    <2>2. Seated(rows[x]) \subseteq Seated(Seat(rows[x], loser))
      BY <1>1, <1>4, SeatTeams
    <2> QED
      BY <1>2, <1>5, <2>1, <2>2
  <1> QED
    BY <1>1, <1>8, <1>11, <1>12, <1>13, <1>14 DEF Moves, moved, x, loser

\* The loser is the last to come to an empty match, passes it and goes on.
LEMMA LoserPasses ==
    ASSUME IInv, Seating, Accounted, EliminationShape, Double,
           NEW m \in Match, NEW winner \in Team, CompleteMatch(m, winner), Passes(m, winner)
    PROVE  Moves(m, winner, Loser(m, winner))
  <1> DEFINE loser == Loser(m, winner)
             x == LoserNextMatch[m]
             b == NextMatch[x]
             rows == WonRows(m, winner)
             new == [rows EXCEPT ![x] = Seat(@, loser)]
             closed == [new EXCEPT ![x] = Passed(@)]
             moved == Moved(m, winner)
             owed == Owed(matches) \ {WinnerLink(m), LoserLink(m)}
             e == WinnerLink(x)
             left == owed \ {e}
  <1>1. /\ Completes(m, winner) /\ LinksForward /\ OneSeat /\ FlowNow /\ OnlyResetAbsent
        /\ loser \in Team /\ loser # winner /\ loser \in Seated(matches[m])
        /\ x \in Match /\ x # m /\ matches[x].status = "pending"
    BY Landing, LinksApart DEF EliminationShape, Seating, Placed, Accounted
  <1>2. /\ b \in Match /\ b \notin {m, x} /\ LoserNextMatch[x] = NoMatch
    <2>1. LoserNextMatch[m] # NoMatch /\ LoserNextMatch[m] \in Match
      BY <1>1, BracketShape
    <2>2. Position[m] = "winners"
      BY <2>1, DoubleFacts
    <2>3. Position[x] = "losers"
      BY <2>2, DoubleFacts
    <2> QED
      BY <1>1, <2>1, <2>3, DoubleFacts, LinksApart
  <1>3. NextMatch[m] # NoMatch => winner \in Seated(rows[NextMatch[m]])
    BY <1>1, WonFlow
  <1>4. Dropped(m, loser, x, rows, new, owed)
    BY <1>1, LostFlow
  <1>5. rows \in [Match -> Row] /\ \A y \in Match : matches[y] \in Row
    BY <1>1, WonRow DEF IInv, TypeOK
  <1>6. \A y \in Match : moved[y] = IF y = x THEN Passed(Seat(rows[x], loser))
                                    ELSE IF y = b THEN Seat(rows[y], loser)
                                    ELSE rows[y]
    BY <1>1, <1>5, DroppedRow DEF Moved, Passes
  <1>7. Drops(m, winner) = b
    BY DEF Drops
  <1>8. ~AwaitsFeeder(new, x, m)
    BY DEF Passes, Alone
  <1>9. Seated(rows[b]) \subseteq Seated(matches[b]) \union {winner}
    <2>1. rows[b] = IF b = NextMatch[m] THEN Seat(matches[b], winner) ELSE matches[b]
      BY <1>1, <1>2, WonRow
    <2> QED
      BY <1>2, <1>5, <2>1, SeatTeams
  <1>10. ~Over(matches[x]) /\ e \in Link /\ To(e) = b /\ e[1] = x /\ e \in owed
         /\ To(LoserLink(x)) \notin Match /\ e[2] = "winner"
    <2>1. ~Over(matches[x])
      BY <1>1 DEF Over
    <2>2. e \in Link /\ To(e) = b /\ e[1] = x /\ e[2] = "winner" /\ To(LoserLink(x)) = NoMatch
      BY <1>1, <1>2, LinksOf DEF WinnerLink
    <2>3. e \in Owed(matches) /\ e # WinnerLink(m) /\ e # LoserLink(m)
      BY <1>1, <2>1, <2>2 DEF Owed, WinnerLink, LoserLink
    <2> QED
      BY <2>1, <2>2, <2>3, BracketShape
  <1>11. NoMatch \notin Match
    BY BracketShape
  <1>12. Open(b) /\ loser \notin Seated(matches[b])
    BY <1>1, <1>2, <1>10, <1>11, Fresh
  <1> HIDE DEF loser, b, rows, moved, owed, e
  <1>13. /\ \A y \in Match : new[y] = IF y = x THEN Seat(rows[x], loser) ELSE rows[y]
         /\ new \in [Match -> Row] /\ OnlyDecides(new, m) /\ Room(new, owed) /\ Awaited(new, owed)
         /\ \A y \in Match : y # x => FedIn(y, new, owed)
         /\ loser \in Seated(new[x])
    BY <1>4 DEF Dropped, Sends
  <1> HIDE DEF new
  <1>14. /\ closed \in [Match -> Row] /\ closed[x] = Passed(new[x])
         /\ \A y \in Match : y # x => closed[y] = new[y]
         /\ Passed(new[x]).status = "bye" /\ Seated(Passed(new[x])) = Seated(new[x])
    BY <1>1, <1>13, PassedRow
  <1> HIDE DEF closed
  <1>15. Room(closed, owed) /\ Fed(closed, owed) /\ Awaited(closed, owed)
    <2>1. owed \subseteq Link
      BY DEF owed, Owed
    <2>2. Into(owed, x) = {}
      BY <1>1, <1>8, <1>13, <2>1, AwaitsIsOwed DEF owed
    <2>3. ~Playable(closed[x]) /\ \A d \in owed : To(d) # NoMatch => To(d) \in Match
      BY <1>1, <1>14, <2>1 DEF Playable, LinksForward
    <2>4. /\ Room(closed, owed) /\ Awaited(closed, owed) /\ FedIn(x, closed, owed)
          /\ \A y \in Match : (y # x /\ FedIn(y, new, owed)) => FedIn(y, closed, owed)
      <3> HIDE DEF x
      <3> QED
        BY <1>1, <1>13, <1>14, <2>2, <2>3, CloseMatch
    <2> QED
      BY <1>13, <2>4 DEF Fed
  <1>16. Sends(closed, moved, b, loser) /\ loser \notin Seated(closed[b])
    <2>1. closed[b] = rows[b]
      BY <1>2, <1>13, <1>14
    <2>2. loser \notin Seated(closed[b])
      BY <1>1, <1>9, <1>12, <2>1
    <2>3. ASSUME NEW y \in Match PROVE moved[y] = IF y = b THEN Seat(closed[b], loser) ELSE closed[y]
      <3>1. CASE y = x
        BY <1>1, <1>2, <1>6, <1>13, <1>14, <3>1
      <3>2. CASE y = b
        BY <1>2, <1>6, <2>1, <3>2
      <3>3. CASE y # x /\ y # b
        BY <1>6, <1>13, <1>14, <3>3
      <3> QED
        BY <3>1, <3>2, <3>3
    <2> QED
      BY <2>2, <2>3 DEF Sends
  <1>17. Delivered(closed, moved, owed, e, b, loser)
    <2>1. /\ owed \in SUBSET Link /\ e \in owed /\ To(e) = b /\ b \in Match
          /\ Room(closed, owed) /\ Awaited(closed, owed) /\ LinksForward /\ loser \in Team
      BY <1>1, <1>2, <1>10, <1>15 DEF owed, Owed
    <2> QED
      BY <1>14, <1>16, <2>1, Deliver
  <1>18. Flow(moved, left)
    BY <1>2, <1>10, <1>15, <1>17 DEF Delivered, Flow, Fed
  <1>19. Owed(moved) = left \ {LoserLink(x)}
    <2>1. ASSUME NEW y \in Match PROVE moved[y].status = closed[y].status
      <3>1. closed[y] \in Row /\ loser \in Slot
        BY <1>1, <1>14 DEF Slot
      <3> QED
        BY <1>16, <3>1, SeatLemma DEF Sends
    <2>2. \A y \in Match : Over(moved[y]) <=> (y = x \/ Over(new[y]))
      BY <1>14, <2>1 DEF Over
    <2>3. Owed(new) = owed
      BY <1>13, OwedAfter DEF owed
    <2>4. Owed(moved) = {d \in Owed(new) : d[1] # x}
      <3>1. \A d \in Link : d[1] \in Match
        BY DEF Link
      <3> QED
        BY <2>2, <3>1 DEF Owed
    <2>5. \A d \in owed : d[1] = x <=> d = e \/ d = LoserLink(x)
      <3>1. \A d \in Link : d[1] = x <=> d = WinnerLink(x) \/ d = LoserLink(x)
        BY <1>1 DEF Link, WinnerLink, LoserLink
      <3> QED
        BY <3>1 DEF owed, Owed, e
    <2> QED
      BY <2>3, <2>4, <2>5
  <1>20. Flow(moved, Owed(moved))
    BY <1>10, <1>18, <1>19, DropLink DEF Flow, Fed
  <1>21. /\ loser \in Seated(moved[x])
         /\ loser \in Seated(moved[b]) /\ Playable(moved[b])
    <2>1. moved[x] = closed[x]
      BY <1>1, <1>2, <1>16 DEF Sends
    <2>2. loser \in Seated(moved[b])
      BY <1>17 DEF Delivered
    <2>3. closed[b].status = matches[b].status
      BY <1>2, <1>13, <1>14 DEF OnlyDecides
    <2>4. moved[b].status = closed[b].status
      <3>1. closed[b] \in Row /\ loser \in Slot
        BY <1>1, <1>2, <1>14 DEF Slot
      <3> QED
        BY <1>2, <1>16, <3>1, SeatLemma DEF Sends
    <2> QED
      BY <1>12, <1>13, <1>14, <2>1, <2>2, <2>3, <2>4 DEF Open, Playable
  <1>22. NextMatch[m] # NoMatch => winner \in Seated(moved[NextMatch[m]])
    <2>1. NextMatch[m] # NoMatch => NextMatch[m] \in Match
      BY <1>1, LinksApart
    <2>2. \A y \in Match : Seated(rows[y]) \subseteq Seated(Seat(rows[y], loser))
      BY <1>1, <1>5, SeatTeams
    <2>3. Seated(moved[x]) = Seated(Seat(rows[x], loser))
      <3>1. Seat(rows[x], loser) = new[x] /\ moved[x] = Passed(new[x])
        BY <1>1, <1>6, <1>13
      <3> QED
        BY <1>14, <3>1
    <2> QED
      BY <1>3, <1>6, <2>1, <2>2, <2>3
  <1> QED
    BY <1>2, <1>7, <1>20, <1>21, <1>22 DEF Moves, moved, loser

\* However the loser goes on, the accounts balance again.
LEMMA MovesOn ==
    ASSUME IInv, Seating, Accounted, EliminationShape, Elimination,
           NEW m \in Match, NEW winner \in Team, CompleteMatch(m, winner)
    PROVE  Moves(m, winner, Loser(m, winner))
  <1>1. CASE LoserNextMatch[m] = NoMatch
    BY <1>1, NobodyDrops
  <1>2. CASE LoserNextMatch[m] # NoMatch
    <2>1. Double
      BY <1>2, SingleFacts
    <2> QED
      BY <1>2, <2>1, LoserDrops, LoserPasses
  <1> QED
    BY <1>1, <1>2

-----------------------------------------------------------------------------
(* A completion keeps the accounts *)

\* No link leads to the reset.
LEMMA NoLinkToTheReset ==
    ASSUME EliminationShape, Double, NEW x \in Match, Position[x] = "grand_final_reset"
    PROVE  /\ Into(Link, x) = {}
           /\ \A m \in Match : NextMatch[m] # x /\ LoserNextMatch[m] # x
  <1>1. ASSUME NEW m \in Match PROVE NextMatch[m] # x /\ LoserNextMatch[m] # x
    <2>1. x # NoMatch
      BY BracketShape
    <2>2. CASE Position[m] = "winners"
      BY <2>2, DoubleFacts
    <2>3. CASE Position[m] = "losers"
      BY <2>1, <2>3, DoubleFacts
    <2>4. CASE Position[m] \in {"grand_final", "grand_final_reset"}
      BY <2>1, <2>4, DoubleFacts
    <2> QED
      BY <2>2, <2>3, <2>4, DoubleFacts
  <1>2. ASSUME NEW e \in Into(Link, x) PROVE FALSE
    BY <1>1 DEF Into, Link, To
  <1> QED
    BY <1>1, <1>2

\* The rows a completion leaves: the moved ones and, where the final asks for
\* it, the reset.
LEMMA AfterCompletion ==
    ASSUME IInv, Seating, Accounted, EliminationShape, Elimination,
           NEW m \in Match, NEW winner \in Team, CompleteMatch(m, winner),
           NEW loser \in Team, loser = Loser(m, winner), NEW y \in Match
    PROVE  LET moved == Moved(m, winner)
           IN  \/ /\ GrandFinalReset(m, loser) /\ Position[y] = "grand_final_reset"
                  /\ moved[y].status = "absent" /\ matches[y].status = "absent"
                  /\ Full(matches'[y]) /\ Seated(matches'[y]) = {winner, loser}
                  /\ matches'[y].status = "pending"
               \/ matches'[y] = moved[y]
  <1> DEFINE moved == Moved(m, winner)
  <1>1. /\ Completes(m, winner) /\ LinksForward /\ matches' = RowsAfter(m, winner)
        /\ winner # loser
    BY Landing DEF CompleteMatch, EliminationShape, Seating, Placed
  <1>2. matches'[y] = IF /\ GrandFinalReset(m, loser)
                         /\ Position[y] = "grand_final_reset" /\ moved[y].status = "absent"
                      THEN [EmptyRow EXCEPT !.teamA = winner, !.teamB = loser]
                      ELSE moved[y]
    BY <1>1, RowsAfterMoved DEF CreateGrandFinalReset
  <1>3. LET new == [EmptyRow EXCEPT !.teamA = winner, !.teamB = loser]
        IN  Seated(new) = {winner, loser} /\ Full(new) /\ new.status = "pending"
    BY <1>1, NobodyIsNoTeam DEF EmptyRow, Seated, Full
  <1>4. moved[y].status = "absent" => matches[y].status = "absent"
    BY <1>1, MovedSeats
  <1> HIDE DEF moved
  <1> QED
    BY <1>2, <1>3, <1>4 DEF moved

\* The accounts balance after a completion.
LEMMA FlowStep ==
    ASSUME IInv, Seating, Accounted, EliminationShape, Elimination,
           NEW m \in Match, NEW winner \in Team, CompleteMatch(m, winner)
    PROVE  FlowNow'
  <1> DEFINE loser == Loser(m, winner)
             moved == Moved(m, winner)
             Created(y) == /\ Double /\ Position[y] = "grand_final_reset"
                           /\ moved[y].status = "absent"
                           /\ Full(matches'[y]) /\ Seated(matches'[y]) # {}
                           /\ matches'[y].status = "pending"
  <1>1. LinksForward /\ loser \in Team
    BY Landing DEF EliminationShape, Seating, Placed
  <1>2. Flow(moved, Owed(moved))
    BY MovesOn DEF Moves
  <1>3. \A y \in Match : Created(y) \/ matches'[y] = moved[y]
    BY <1>1, AfterCompletion DEF GrandFinalReset, Double
  <1>4. \A y \in Match : Created(y) => Into(Owed(moved), y) = {}
    BY NoLinkToTheReset DEF Into, Owed
  <1> HIDE DEF moved, loser
  <1>5. \A y \in Match : Over(matches'[y]) <=> Over(moved[y])
    BY <1>3 DEF Over
  <1>6. Owed(matches') = Owed(moved)
    BY <1>5 DEF Owed, Link
  <1>7. Room(matches', Owed(moved))
    <2>1. ASSUME NEW y \in Match PROVE RoomIn(y, matches', Owed(moved))
      <3>1. CASE Created(y)
        BY <1>4, <3>1 DEF RoomIn
      <3>2. CASE matches'[y] = moved[y]
        BY <1>2, <3>2 DEF Flow, Room, RoomIn
      <3> QED
        BY <1>3, <3>1, <3>2
    <2> QED
      BY <2>1 DEF Room
  <1>8. Fed(matches', Owed(moved))
    <2>1. ASSUME NEW y \in Match PROVE FedIn(y, matches', Owed(moved))
      <3>1. CASE Created(y)
        BY <3>1 DEF FedIn
      <3>2. CASE matches'[y] = moved[y]
        BY <1>2, <3>2 DEF Flow, Fed, FedIn
      <3> QED
        BY <1>3, <3>1, <3>2
    <2> QED
      BY <2>1 DEF Fed
  <1>9. Awaited(matches', Owed(moved))
    <2>1. \A e \in Owed(moved) : To(e) # NoMatch => To(e) \in Match /\ Playable(moved[To(e)])
      BY <1>1, <1>2 DEF Flow, Awaited, Owed, LinksForward
    <2>2. \A y \in Match : Playable(moved[y]) => Playable(matches'[y])
      BY <1>3 DEF Playable
    <2> QED
      BY <2>1, <2>2 DEF Awaited
  <1> QED
    BY <1>6, <1>7, <1>8, <1>9 DEF FlowNow, Flow

\* A decided match, and what it says, after a completion.
LEMMA DecidedAfter ==
    ASSUME IInv, Seating, Accounted, EliminationShape, Elimination,
           NEW m \in Match, NEW winner \in Team, CompleteMatch(m, winner),
           NEW y \in Match, matches'[y].status = "completed"
    PROVE  IF y = m THEN matches'[y].winner = winner /\ matches'[y].loser = Loser(m, winner)
                    ELSE /\ matches[y].status = "completed"
                         /\ matches'[y].winner = matches[y].winner
                         /\ matches'[y].loser = matches[y].loser
  <1> DEFINE loser == Loser(m, winner)
             moved == Moved(m, winner)
             rows == WonRows(m, winner)
             x == LoserNextMatch[m]
  <1>1. Completes(m, winner) /\ LinksForward /\ loser \in Team /\ loser \in Slot /\ winner \in Slot
    BY Landing DEF EliminationShape, Seating, Placed, Slot
  <1>2. matches'[y] = moved[y]
    BY <1>1, AfterCompletion
  <1>3. /\ rows \in [Match -> Row] /\ matches[m] \in Row /\ matches[y] \in Row
        /\ rows[y] = IF y = m THEN Decided(matches[m], winner)
                     ELSE IF y = NextMatch[m] THEN Seat(matches[y], winner)
                     ELSE matches[y]
    BY <1>1, WonRow DEF IInv, TypeOK
  <1>4. moved[y] = IF Passes(m, winner)
                   THEN IF y = x THEN Passed(Seat(rows[x], loser))
                        ELSE IF y = NextMatch[x] THEN Seat(rows[y], loser)
                        ELSE rows[y]
                   ELSE IF y = x THEN Seat(rows[x], loser) ELSE rows[y]
    BY <1>1, <1>3, DroppedRow DEF Moved, Passes
  <1>5. \/ /\ moved[y].status = rows[y].status /\ moved[y].winner = rows[y].winner
           /\ moved[y].loser = rows[y].loser
        \/ moved[y].status = "bye"
    <2>1. rows[y] \in Row
      BY <1>3
    <2>2. Seat(rows[y], loser) \in Row
      BY <1>1, <2>1, SeatLemma
    <2> HIDE DEF rows, loser, moved, x
    <2> QED
      BY <1>1, <1>4, <2>1, <2>2, SeatLemma, PassedRow
  <1> HIDE DEF moved, rows, x
  <1>6. y = m => rows[y].winner = winner /\ rows[y].loser = loser
    BY <1>3 DEF Decided, Row, Loser
  <1>7. y # m => /\ rows[y].status = matches[y].status
                 /\ rows[y].winner = matches[y].winner
                 /\ rows[y].loser = matches[y].loser
    BY <1>1, <1>3, SeatLemma
  <1> HIDE DEF loser
  <1>8. moved[y].status = "completed"
    BY <1>2
  <1> QED
    BY <1>2, <1>5, <1>6, <1>7, <1>8 DEF loser

\* A match that a link leads to keeps its teams through a completion.
LEMMA LinkedRow ==
    ASSUME IInv, Seating, Accounted, EliminationShape, Elimination,
           NEW m \in Match, NEW winner \in Team, CompleteMatch(m, winner),
           NEW f \in Match, NEW y \in Match, y = NextMatch[f] \/ y = LoserNextMatch[f]
    PROVE  /\ matches'[y] = Moved(m, winner)[y]
           /\ Seated(matches[y]) \subseteq Seated(matches'[y])
  <1>1. Completes(m, winner) /\ LinksForward /\ Loser(m, winner) \in Team
    BY Landing DEF EliminationShape, Seating, Placed
  <1>2. ~(GrandFinalReset(m, Loser(m, winner)) /\ Position[y] = "grand_final_reset")
    BY NoLinkToTheReset DEF GrandFinalReset, Double
  <1>3. matches'[y] = Moved(m, winner)[y]
    BY <1>1, <1>2, AfterCompletion
  <1> QED
    BY <1>1, <1>3, MovedSeats

\* Results still arrive after a completion.
LEMMA ResultsStep ==
    ASSUME IInv, Seating, Accounted, EliminationShape, Elimination,
           NEW m \in Match, NEW winner \in Team, CompleteMatch(m, winner)
    PROVE  ResultsPropagated'
  <1>1. LinksForward
    BY DEF EliminationShape
  <1>2. Moves(m, winner, Loser(m, winner))
    BY MovesOn
  <1>3. ASSUME NEW y \in Match, matches'[y].status = "completed"
        PROVE  /\ NextMatch[y] # NoMatch => matches'[y].winner \in Seated(matches'[NextMatch[y]])
               /\ LoserNextMatch[y] # NoMatch => matches'[y].loser \in Seated(matches'[LoserNextMatch[y]])
    <2>1. /\ NextMatch[y] # NoMatch => NextMatch[y] \in Match
          /\ LoserNextMatch[y] # NoMatch => LoserNextMatch[y] \in Match
      BY <1>1, LinksApart
    <2>2. CASE y = m
      <3>1. matches'[y].winner = winner /\ matches'[y].loser = Loser(m, winner)
        BY <1>3, <2>2, DecidedAfter
      <3>2. ASSUME NextMatch[m] # NoMatch PROVE winner \in Seated(matches'[NextMatch[m]])
        BY <1>2, <2>1, <2>2, <3>2, LinkedRow DEF Moves
      <3>3. ASSUME LoserNextMatch[m] # NoMatch
            PROVE  Loser(m, winner) \in Seated(matches'[LoserNextMatch[m]])
        BY <1>2, <2>1, <2>2, <3>3, LinkedRow DEF Moves
      <3> QED
        BY <2>2, <3>1, <3>2, <3>3
    <2>3. CASE y # m
      <3>1. /\ matches[y].status = "completed"
            /\ matches'[y].winner = matches[y].winner /\ matches'[y].loser = matches[y].loser
        BY <1>3, <2>3, DecidedAfter
      <3>2. /\ NextMatch[y] # NoMatch => matches[y].winner \in Seated(matches[NextMatch[y]])
            /\ LoserNextMatch[y] # NoMatch => matches[y].loser \in Seated(matches[LoserNextMatch[y]])
        BY <3>1 DEF Accounted, ResultsPropagated
      <3>3. NextMatch[y] # NoMatch => Seated(matches[NextMatch[y]]) \subseteq Seated(matches'[NextMatch[y]])
        BY <2>1, LinkedRow
      <3>4. LoserNextMatch[y] # NoMatch =>
              Seated(matches[LoserNextMatch[y]]) \subseteq Seated(matches'[LoserNextMatch[y]])
        BY <2>1, LinkedRow
      <3> QED
        BY <3>1, <3>2, <3>3, <3>4
    <2> QED
      BY <2>2, <2>3
  <1> QED
    BY <1>3 DEF ResultsPropagated

\* Whoever is still in after a completion is champion or seated.
LEMMA StillSeatedStep ==
    ASSUME IInv, Seating, Accounted, EliminationShape, Elimination,
           NEW m \in Match, NEW winner \in Team, CompleteMatch(m, winner)
    PROVE  StillSeated'
  <1> DEFINE loser == Loser(m, winner)
             Plays(t) == t = champion' \/ \E y \in Match : Playable(matches'[y]) /\ t \in Seated(matches'[y])
  <1>1. /\ Completes(m, winner) /\ LinksForward /\ loser \in Team /\ loser # winner
        /\ Seated(matches[m]) = {winner, loser}
        /\ OneSeat /\ FlowNow
    <2>1. LinksForward /\ OneSeat /\ AllApart /\ FlowNow
      BY DEF EliminationShape, Seating, Placed, Accounted
    <2> QED
      BY <2>1, Landing
  <1>2. Moves(m, winner, loser)
    BY MovesOn
  <1>3. Open(m) /\ ~Over(matches[m])
    BY <1>1 DEF Completes, Open, Playable, Over
  <1>4. champion = Nobody
    BY <1>3 DEF Accounted, PlayedOut
  <1>5. champion' \in Crowned(m, winner, RowsAfter(m, winner), StandingsAfter(m, winner))
        /\ standings' = StandingsAfter(m, winner)
    BY DEF CompleteMatch
  <1>6. ASSUME GrandFinalReset(m, loser) PROVE Plays(winner) /\ Plays(loser)
    <2>1. Double /\ Position[m] = "grand_final"
      BY <1>6, <1>1, CreatedReset DEF GrandFinalReset, Double
    <2>2. PICK y \in Match : Position[y] = "grand_final_reset"
      BY <2>1 DEF EliminationShape, DoubleShape, Double
    <2>3. matches[y].status = "absent"
      BY <1>3, <2>1, <2>2 DEF Seating, Placed, ResetLast
    <2>4. matches' = RowsAfter(m, winner)
      BY DEF CompleteMatch
    <2>5. Moved(m, winner)[y].status = "absent"
      <3>1. y # m /\ y # LoserNextMatch[m]
        BY <2>1, <2>2, NoLinkToTheReset
      <3> QED
        BY <1>1, <2>3, <3>1, MovedSeats
    <2>6. matches'[y] = [EmptyRow EXCEPT !.teamA = winner, !.teamB = loser]
      BY <1>6, <2>2, <2>4, <2>5, RowsAfterMoved DEF CreateGrandFinalReset
    <2>7. Seated(matches'[y]) = {winner, loser} /\ matches'[y].status = "pending"
      BY <1>1, <2>6, NobodyIsNoTeam DEF EmptyRow, Seated
    <2> QED
      BY <2>7 DEF Playable
  <1>7. ASSUME ~GrandFinalReset(m, loser) PROVE Plays(winner)
    <2>1. CASE NextMatch[m] # NoMatch
      <3>1. WinnerLink(m) \in Link /\ To(WinnerLink(m)) = NextMatch[m] /\ WinnerLink(m)[1] = m
        BY LinksOf DEF WinnerLink
      <3>2. NextMatch[m] \in Match /\ Open(NextMatch[m]) /\ NextMatch[m] # m
        BY <1>1, <1>3, <2>1, <3>1, Fresh, LinksApart
      <3>3. NextMatch[m] # LoserNextMatch[m]
        <4>1. CASE Double
          <5>1. Position[m] \in {"winners", "losers"}
            BY <2>1, <4>1, DoubleFacts
          <5>2. Position[m] = "winners" => Position[NextMatch[m]] # Position[LoserNextMatch[m]]
            BY <4>1, DoubleFacts
          <5> QED
            BY <2>1, <4>1, <5>1, <5>2, DoubleFacts
        <4>2. CASE ~Double
          BY <2>1, <4>2, SingleFacts
        <4> QED
          BY <4>1, <4>2
      <3>4. Moved(m, winner)[NextMatch[m]].status = matches[NextMatch[m]].status
        BY <1>1, <3>2, <3>3, MovedSeats
      <3>5. winner \in Seated(matches'[NextMatch[m]]) /\ Playable(matches'[NextMatch[m]])
        BY <1>2, <2>1, <3>2, <3>4, LinkedRow DEF Moves, Open, Playable
      <3> QED
        BY <3>2, <3>5
    <2>2. CASE NextMatch[m] = NoMatch
      <3>1. LoserNextMatch[m] = NoMatch
        <4>1. CASE Double
          BY <2>2, <4>1, DoubleFacts, BracketShape
        <4>2. CASE ~Double
          BY <4>2, SingleFacts
        <4> QED
          BY <4>1, <4>2
      <3>2. champion' = winner
        BY <1>5, <1>7, <2>2, <3>1 DEF Crowned, Elimination, Loser
      <3> QED
        BY <3>2
    <2> QED
      BY <2>1, <2>2
  <1>8. ASSUME ~GrandFinalReset(m, loser), ~standings'[loser].eliminated PROVE Plays(loser)
    <2>1. LoserNextMatch[m] # NoMatch
      BY <1>1, <1>5, <1>8, StandingsRow DEF Seating
    <2>2. /\ Drops(m, winner) \in Match /\ Playable(Moved(m, winner)[Drops(m, winner)])
          /\ loser \in Seated(Moved(m, winner)[Drops(m, winner)])
      BY <1>2, <2>1 DEF Moves
    <2>3. Drops(m, winner) = LoserNextMatch[m] \/ Drops(m, winner) = NextMatch[LoserNextMatch[m]]
      BY DEF Drops
    <2>4. LoserNextMatch[m] \in Match
      BY <1>1, <2>1, LinksApart
    <2>5. matches'[Drops(m, winner)] = Moved(m, winner)[Drops(m, winner)]
      BY <2>2, <2>3, <2>4, LinkedRow
    <2> QED
      BY <2>2, <2>5
  <1>9. ASSUME NEW t \in Team, t \notin {winner, loser}, ~standings'[t].eliminated PROVE Plays(t)
    <2>1. ~standings[t].eliminated
      BY <1>1, <1>5, <1>9, StandingsRow DEF Seating
    <2>2. PICK y \in Match : Open(y) /\ t \in Seated(matches[y])
      BY <1>4, <2>1, NobodyIsNoTeam DEF Accounted, StillSeated
    <2>3. y # m
      BY <1>1, <1>9, <2>2
    <2>4. ~(y = LoserNextMatch[m] /\ Passes(m, winner))
      BY <1>1, <2>2, MovedSeats
    <2>5. /\ Moved(m, winner)[y].status = matches[y].status
          /\ t \in Seated(Moved(m, winner)[y])
      BY <1>1, <2>2, <2>3, <2>4, MovedSeats
    <2>6. matches'[y] = Moved(m, winner)[y]
      BY <1>1, <2>2, <2>5, AfterCompletion DEF Open, Playable
    <2> QED
      BY <2>2, <2>5, <2>6 DEF Open, Playable
  <1> HIDE DEF loser
  <1>10. ASSUME NEW t \in Team, ~standings'[t].eliminated PROVE Plays(t)
    BY <1>6, <1>7, <1>8, <1>9, <1>10
  <1> QED
    BY <1>10 DEF StillSeated, Open

\* Some match of a set is in its first round, and some in its last.
LEMMA FirstAndLast ==
    ASSUME LinksForward, NEW T \in SUBSET Match, T # {}
    PROVE  /\ \E m \in T : \A x \in T : Round[m] <= Round[x]
           /\ \E m \in T : \A x \in T : Round[x] <= Round[m]
  <1> DEFINE Below(m) == {x \in Match : Round[x] < Round[m]}
             Above(m) == {x \in Match : Round[m] < Round[x]}
             Sub == StrictSubsetOrdering(Match)
  <1>1. Round \in [Match -> Nat] /\ \A m \in T : Round[m] \in Nat
    BY DEF LinksForward
  <1>2. IsWellFoundedOn(Sub, SUBSET Match)
    <2>1. IsFiniteSet(Match)
      BY BracketShape
    <2>2. IsWellFoundedOn(StrictSubsetOrdering(Match), FiniteSubsetsOf(Match))
      BY FS_StrictSubsetOrderingWellFounded
    <2>3. FiniteSubsetsOf(Match) = SUBSET Match
      BY <2>1, FS_FiniteSubsetsOfFinite
    <2> QED
      BY <2>2, <2>3
  <1>3. \E m \in T : \A x \in T : Round[m] <= Round[x]
    <2> DEFINE B == {Below(m) : m \in T}
    <2>1. B \subseteq SUBSET Match /\ B # {}
      OBVIOUS
    <2>2. \E b \in B : \A a \in B : ~(<<a, b>> \in Sub)
      <3> HIDE DEF B, Sub
      <3> QED
        BY <1>2, <2>1, WFMin
    <2>3. PICK m \in T : \A x \in T : <<Below(x), Below(m)>> \notin Sub
      BY <2>2
    <2>4. ASSUME NEW x \in T, Round[x] < Round[m] PROVE FALSE
      <3>1. Below(x) \subseteq Below(m) /\ x \in Below(m) /\ x \notin Below(x)
        BY <1>1, <2>4
      <3>2. <<Below(x), Below(m)>> \in Sub
        BY <3>1 DEF StrictSubsetOrdering
      <3> QED
        BY <2>3, <3>2
    <2> QED
      BY <1>1, <2>4
  <1>4. \E m \in T : \A x \in T : Round[x] <= Round[m]
    <2> DEFINE B == {Above(m) : m \in T}
    <2>1. B \subseteq SUBSET Match /\ B # {}
      OBVIOUS
    <2>2. \E b \in B : \A a \in B : ~(<<a, b>> \in Sub)
      <3> HIDE DEF B, Sub
      <3> QED
        BY <1>2, <2>1, WFMin
    <2>3. PICK m \in T : \A x \in T : <<Above(x), Above(m)>> \notin Sub
      BY <2>2
    <2>4. ASSUME NEW x \in T, Round[m] < Round[x] PROVE FALSE
      <3>1. Above(x) \subseteq Above(m) /\ x \in Above(m) /\ x \notin Above(x)
        BY <1>1, <2>4
      <3>2. <<Above(x), Above(m)>> \in Sub
        BY <3>1 DEF StrictSubsetOrdering
      <3> QED
        BY <2>3, <3>2
    <2> QED
      BY <1>1, <2>4
  <1> QED
    BY <1>3, <1>4

\* A completion crowns a champion only when nothing is left to be played.
LEMMA PlayedOutStep ==
    ASSUME IInv, Seating, Accounted, EliminationShape, Elimination,
           NEW m \in Match, NEW winner \in Team, CompleteMatch(m, winner)
    PROVE  PlayedOut'
  <1> DEFINE loser == Loser(m, winner)
             Left == {y \in Match : Playable(matches'[y])}
  <1>1. LinksForward /\ OneSeat /\ AllApart /\ ResetLast
    BY DEF EliminationShape, Seating, Placed
  <1>2. Open(m) /\ ~Over(matches[m]) /\ champion = Nobody
    <2>1. Open(m) /\ ~Over(matches[m])
      BY DEF CompleteMatch, Open, Playable, Over
    <2> QED
      BY <2>1 DEF Accounted, PlayedOut
  <1>3. SUFFICES ASSUME champion' # Nobody, Left # {} PROVE FALSE
    BY DEF PlayedOut, Open
  <1>4. NextMatch[m] = NoMatch /\ ~GrandFinalReset(m, loser)
    BY <1>2, <1>3 DEF CompleteMatch, Crowned, Elimination, Loser
  <1>5. PICK y \in Left : \A x \in Left : Round[x] <= Round[y]
    BY <1>1, <1>3, FirstAndLast
  <1>6. y \in Match /\ Playable(matches'[y]) /\ y # m /\ Open(y)
    <2>1. y \in Match /\ Playable(matches'[y])
      BY <1>5
    <2>2. GrandFinalReset(m, Loser(m, winner)) \/ (y # m /\ Playable(matches[y]))
      BY <1>1, <2>1, Landing
    <2> QED
      BY <1>4, <2>1, <2>2 DEF Open
  <1>7. NextMatch[y] = NoMatch
    <2>1. ASSUME NextMatch[y] # NoMatch PROVE FALSE
      <3>1. WinnerLink(y) \in Link /\ To(WinnerLink(y)) = NextMatch[y] /\ WinnerLink(y)[1] = y
        BY <1>6, LinksOf DEF WinnerLink
      <3>2. WinnerLink(y) \in Owed(matches')
        BY <1>6, <3>1 DEF Owed, Over, Playable
      <3>3. Playable(matches'[NextMatch[y]])
        BY <2>1, <3>1, <3>2, FlowStep DEF FlowNow, Flow, Awaited
      <3>4. NextMatch[y] \in Match /\ Round[y] < Round[NextMatch[y]]
        BY <1>1, <2>1, <3>1 DEF LinksForward
      <3>5. Round[y] \in Nat /\ Round[NextMatch[y]] \in Nat
        BY <1>1, <1>6, <3>4 DEF LinksForward
      <3> QED
        BY <1>5, <3>3, <3>4, <3>5
    <2> QED
      BY <2>1
  <1>8. CASE ~Double
    BY <1>4, <1>6, <1>7, <1>8, FormatKnown DEF EliminationShape, SingleShape, Double, Elimination
  <1>9. CASE Double
    <2>1. /\ Position[m] \in {"grand_final", "grand_final_reset"}
          /\ Position[y] \in {"grand_final", "grand_final_reset"}
      <3>1. \A x \in Match : NextMatch[x] = NoMatch =>
               Position[x] \in {"grand_final", "grand_final_reset"}
        <4>1. NoMatch \notin Match
          BY BracketShape
        <4>2. ASSUME NEW x \in Match, NextMatch[x] = NoMatch
              PROVE  Position[x] \in {"grand_final", "grand_final_reset"}
          BY <1>9, <4>1, <4>2, DoubleFacts
        <4> QED
          BY <4>2
      <3> QED
        BY <1>4, <1>6, <1>7, <3>1
    <2>2. Position[m] # Position[y]
      BY <1>6, <1>9, <2>1 DEF EliminationShape, DoubleShape, Double
    <2>3. ~Over(matches[y]) /\ matches[y].status # "absent" /\ matches[m].status # "absent"
      BY <1>2, <1>6 DEF Open, Playable, Over
    <2> QED
      BY <1>1, <1>2, <1>6, <1>9, <2>1, <2>2, <2>3 DEF ResetLast
  <1> QED
    BY <1>8, <1>9

\* A completion keeps the accounts.
LEMMA CompletionAccounted ==
    ASSUME IInv, Seating, Accounted, EliminationShape, Elimination,
           NEW m \in Match, NEW winner \in Team, CompleteMatch(m, winner)
    PROVE  Accounted'
  <1>1. LinksForward /\ OneSeat /\ AllApart /\ OnlyResetAbsent /\ Waiting /\ Credited
    BY DEF EliminationShape, Seating, Placed, Accounted
  <1>2. OnlyResetAbsent'
    BY <1>1, Landing DEF OnlyResetAbsent, Double
  <1>3. Waiting'
    <2>1. ASSUME NEW y \in Match, Playable(matches'[y]), ~Full(matches'[y])
          PROVE  matches'[y].status = "pending"
      <3>1. /\ Playable(matches[y]) /\ matches'[y].status = matches[y].status
            /\ Full(matches[y]) /\ matches[y].status # "absent" => Full(matches'[y])
        BY <1>1, <2>1, Landing
      <3>2. ~Full(matches[y])
        BY <2>1, <3>1 DEF Playable
      <3> QED
        BY <1>1, <3>1, <3>2 DEF Waiting, Open
    <2> QED
      BY <2>1 DEF Waiting, Open
  <1>4. Credited'
    <2>1. ASSUME NEW y \in Match, matches'[y].status = "completed"
          PROVE  matches'[y].winner \in Team /\ standings'[matches'[y].winner].row
      <3>1. CASE y = m
        BY <2>1, <3>1, DecidedAfter, LossesAfter
      <3>2. CASE y # m
        <4>1. matches[y].status = "completed" /\ matches'[y].winner = matches[y].winner
          BY <2>1, <3>2, DecidedAfter
        <4>2. matches[y].winner \in Team /\ standings[matches[y].winner].row
          BY <1>1, <4>1 DEF Credited
        <4>3. \A t \in Team : standings[t].row => standings'[t].row
          BY LossesAfter
        <4> QED
          BY <4>1, <4>2, <4>3
      <3> QED
        BY <3>1, <3>2
    <2> QED
      BY <2>1 DEF Credited
  <1> QED
    BY <1>2, <1>3, <1>4, FlowStep, ResultsStep, StillSeatedStep, PlayedOutStep DEF Accounted

-----------------------------------------------------------------------------
(* The accounts are invariant *)

\* A quiet step in good order keeps the accounts.
LEMMA QuietAccounted ==
    ASSUME IInv, Accounted, Orderly, EliminationShape, Quiet PROVE Accounted'
  <1>1. /\ standings' = standings /\ champion' = champion
        /\ \A x \in Match :
              /\ matches'[x].winner = matches[x].winner /\ matches'[x].loser = matches[x].loser
              /\ Seated(matches'[x]) = Seated(matches[x])
              /\ Full(matches'[x]) <=> Full(matches[x])
              /\ \/ matches'[x].status = matches[x].status
                 \/ /\ Playable(matches[x]) /\ Playable(matches'[x])
                    /\ matches[x].status = "scheduled" \/ Full(matches[x])
    BY DEF Quiet, Seated, Full, Orderly
  <1>2. \A x \in Match : /\ Playable(matches'[x]) <=> Playable(matches[x])
                         /\ Over(matches'[x]) <=> Over(matches[x])
                         /\ matches'[x].status = "absent" <=> matches[x].status = "absent"
                         /\ matches'[x].status = "completed" <=> matches[x].status = "completed"
    BY <1>1 DEF Playable, Over
  <1>3. LinksForward
    BY DEF EliminationShape
  <1>4. Owed(matches') = Owed(matches)
    BY <1>2 DEF Owed, Link
  <1>5. FlowNow'
    <2>1. Room(matches, Owed(matches)) /\ Fed(matches, Owed(matches)) /\ Awaited(matches, Owed(matches))
      BY DEF Accounted, FlowNow, Flow
    <2>2. ASSUME NEW y \in Match PROVE RoomIn(y, matches', Owed(matches))
      BY <1>1, <2>1 DEF Room, RoomIn
    <2>3. ASSUME NEW y \in Match PROVE FedIn(y, matches', Owed(matches))
      BY <1>1, <1>2, <2>1 DEF Fed, FedIn
    <2>4. ASSUME NEW e \in Owed(matches), To(e) # NoMatch PROVE Playable(matches'[To(e)])
      <3>1. To(e) \in Match
        BY <1>3, <2>4 DEF LinksForward, Owed
      <3> QED
        BY <1>2, <2>1, <2>4, <3>1 DEF Awaited
    <2> QED
      BY <1>4, <2>2, <2>3, <2>4 DEF FlowNow, Flow, Room, Fed, Awaited
  <1>6. OnlyResetAbsent'
    BY <1>2 DEF Accounted, OnlyResetAbsent, Double
  <1>7. Waiting'
    <2>1. ASSUME NEW x \in Match, Playable(matches'[x]), ~Full(matches'[x])
          PROVE  matches'[x].status = "pending"
      <3>1. matches[x].status = "pending"
        BY <1>1, <1>2, <2>1 DEF Accounted, Waiting, Open
      <3> QED
        BY <1>1, <2>1, <3>1
    <2> QED
      BY <2>1 DEF Waiting, Open
  <1>8. StillSeated'
    BY <1>1, <1>2 DEF Accounted, StillSeated, Open
  <1>9. PlayedOut'
    BY <1>1, <1>2 DEF Accounted, PlayedOut, Open
  <1>10. Credited'
    BY <1>1, <1>2 DEF Accounted, Credited
  <1>11. ResultsPropagated'
    <2>1. \A m \in Match : /\ NextMatch[m] # NoMatch => NextMatch[m] \in Match
                           /\ LoserNextMatch[m] # NoMatch => LoserNextMatch[m] \in Match
      BY <1>3, LinksApart
    <2> QED
      BY <1>1, <1>2, <2>1 DEF Accounted, ResultsPropagated
  <1> QED
    BY <1>5, <1>6, <1>7, <1>8, <1>9, <1>10, <1>11 DEF Accounted

\* A reseat before the first result keeps the accounts.
LEMMA ReseatAccounted ==
    ASSUME IInv, Seating, Accounted, EliminationShape, Elimination, "swap" \notin Requests,
           NEW t \in Team, NEW u \in Team, SwapBracketTeams(t, u)
    PROVE  Accounted'
  <1>1. \A s \in Team : ~standings[s].row
    BY DEF SwapBracketTeams, MayTrade
  <1>2. \A s \in Team : ~standings[s].eliminated
    BY <1>1, BeforeTheFirstResult
  <1>3. (\E swap \in [Team -> Team] : Traded(swap)) /\ \E x \in Match : Open(x)
    BY SwapTrades DEF Seating, Placed
  <1>4. PICK swap \in [Team -> Team] : Traded(swap)
    BY <1>3
  <1>5. champion = Nobody
    BY <1>3 DEF Accounted, PlayedOut
  <1>6. /\ standings' = standings /\ champion' = champion
        /\ \A x \in Match :
              /\ matches'[x].status = matches[x].status
              /\ matches'[x].winner = matches[x].winner /\ matches'[x].loser = matches[x].loser
              /\ Full(matches'[x]) <=> Full(matches[x])
              /\ Seated(matches[x]) = {} <=> Seated(matches'[x]) = {}
    BY <1>4 DEF Traded
  <1>7. \A x \in Match : /\ Playable(matches'[x]) <=> Playable(matches[x])
                         /\ Over(matches'[x]) <=> Over(matches[x])
    BY <1>6 DEF Playable, Over
  <1>8. LinksForward
    BY DEF EliminationShape
  <1>9. Owed(matches') = Owed(matches)
    BY <1>7 DEF Owed, Link
  <1>10. FlowNow'
    <2>1. Room(matches, Owed(matches)) /\ Fed(matches, Owed(matches)) /\ Awaited(matches, Owed(matches))
      BY DEF Accounted, FlowNow, Flow
    <2>2. ASSUME NEW y \in Match PROVE RoomIn(y, matches', Owed(matches))
      BY <1>6, <2>1 DEF Room, RoomIn
    <2>3. ASSUME NEW y \in Match PROVE FedIn(y, matches', Owed(matches))
      BY <1>6, <1>7, <2>1 DEF Fed, FedIn
    <2>4. ASSUME NEW e \in Owed(matches), To(e) # NoMatch PROVE Playable(matches'[To(e)])
      <3>1. To(e) \in Match
        BY <1>8, <2>4 DEF LinksForward, Owed
      <3> QED
        BY <1>7, <2>1, <2>4, <3>1 DEF Awaited
    <2> QED
      BY <1>9, <2>2, <2>3, <2>4 DEF FlowNow, Flow, Room, Fed, Awaited
  <1>11. OnlyResetAbsent'
    BY <1>6 DEF Accounted, OnlyResetAbsent, Double
  <1>12. Waiting'
    BY <1>6, <1>7 DEF Accounted, Waiting, Open
  <1>13. StillSeated'
    <2>1. ASSUME NEW s \in Team
          PROVE  \E x \in Match : Playable(matches'[x]) /\ s \in Seated(matches'[x])
      <3>1. swap[s] \in Team /\ swap[s] # Nobody
        BY NobodyIsNoTeam
      <3>2. PICK x \in Match : Open(x) /\ swap[s] \in Seated(matches[x])
        BY <1>2, <1>5, <3>1 DEF Accounted, StillSeated
      <3>3. s \in Seated(matches'[x])
        BY <1>4, <3>2 DEF Traded
      <3> QED
        BY <1>7, <3>2, <3>3 DEF Open
    <2> QED
      BY <2>1 DEF StillSeated, Open
  <1>14. PlayedOut'
    BY <1>6, <1>7 DEF Accounted, PlayedOut, Open
  <1>15. \A m \in Match : matches[m].status # "completed"
    BY <1>1 DEF Accounted, Credited
  <1>16. Credited' /\ ResultsPropagated'
    BY <1>6, <1>15 DEF Credited, ResultsPropagated
  <1> QED
    BY <1>10, <1>11, <1>12, <1>13, <1>14, <1>16 DEF Accounted

\* Every step of orderly play keeps the accounts.
LEMMA AccountedStep ==
    ASSUME IInv, Seating, Accounted, EliminationShape, Elimination, Orderly, [Next]_vars
    PROVE  Accounted'
  <1>1. Undisturbed /\ ~ResetResults /\ \A m \in Match : ~ResetMatch(m)
    BY DEF Orderly, Undisturbed, ResetResults, ResetMatch
  <1>2. ASSUME NEW t \in Team, NEW u \in Team, SwapBracketTeams(t, u) PROVE Accounted'
    BY <1>1, <1>2, ReseatAccounted DEF Undisturbed
  <1>3. ASSUME NEW m \in Match, NEW winner \in Team, CompleteMatch(m, winner) PROVE Accounted'
    BY <1>3, CompletionAccounted
  <1>4. CASE /\ \A t, u \in Team : ~SwapBracketTeams(t, u)
             /\ \A m \in Match, winner \in Team : ~CompleteMatch(m, winner)
    BY <1>1, <1>4, QuietStep, QuietAccounted
  <1> QED
    BY <1>2, <1>3, <1>4, SMTT(30)

\* The accounts of a generated bracket balance.
LEMMA AccountedInit ==
    ASSUME Init, EliminationShape, Elimination PROVE Accounted
  <1>1. matches = Generated /\ champion = Nobody /\ \A t \in Team : standings[t] = NoStanding
    BY DEF Init
  <1>2. \A x \in Match : Generated[x].status \in {"absent", "pending", "bye"}
    BY GeneratedShape
  <1>3. OnlyResetAbsent
    BY <1>1, FormatKnown
    DEF OnlyResetAbsent, EliminationShape, SingleShape, DoubleShape, Double, Elimination
  <1>4. FlowNow
    BY <1>1 DEF FlowNow, EliminationShape
  <1>5. Waiting
    BY <1>1, <1>2 DEF Waiting, Open, Playable
  <1>6. StillSeated
    BY <1>1 DEF StillSeated, EliminationShape, Entrants, Open
  <1>7. PlayedOut
    BY <1>1 DEF PlayedOut
  <1>8. Credited /\ ResultsPropagated
    BY <1>1, <1>2 DEF Credited, ResultsPropagated
  <1> QED
    BY <1>3, <1>4, <1>5, <1>6, <1>7, <1>8 DEF Accounted

\* The three parts are inductive together.
LEMMA AccountedInvariant ==
    ASSUME EliminationShape, Elimination, Orderly
    PROVE  Spec => [](IInv /\ Seating /\ Accounted)
  <1>1. Undisturbed
    BY DEF Orderly
  <1>2. Init => IInv /\ Seating /\ Accounted
    BY TypeInit, SeatingInit, AccountedInit
  <1>3. IInv /\ Seating /\ Accounted /\ [Next]_vars => (IInv /\ Seating /\ Accounted)'
    BY <1>1, TypeStep, SeatingStep, AccountedStep
  <1> QED
    BY <1>2, <1>3, PTL DEF Spec

-----------------------------------------------------------------------------
(* What the accounts mean *)

\* Every result arrives: the winner of a completed match is in its next match
\* and the loser where losers of that match drop, however many others arrive
\* there first and in whatever order.
THEOREM ResultsArrive ==
    ASSUME BracketFits, Elimination, Orderly
    PROVE  Spec => []ResultsPropagated
  <1>1. Accounted => ResultsPropagated
    BY DEF Accounted
  <1> QED
    BY <1>1, EliminationFits, AccountedInvariant, PTL

\* Of the matches that are open, one in the first round is waiting for nobody.
LEMMA SomethingToPlay ==
    ASSUME IInv, Seating, Accounted, EliminationShape, Elimination
    PROVE  NotStuck
  <1>1. SUFFICES ASSUME Cardinality({t \in Team : ~standings[t].eliminated}) > 1
                 PROVE  \E m \in Match : Open(m) /\ Full(matches[m])
    BY DEF NotStuck
  <1>2. PICK t \in Team, u \in Team : t # u /\ ~standings[t].eliminated /\ ~standings[u].eliminated
    <2> DEFINE S == {t \in Team : ~standings[t].eliminated}
    <2>1. Cardinality(S) > 1
      BY <1>1
    <2>2. ASSUME \A x, y \in S : x = y PROVE FALSE
      <3>1. IsFiniteSet(S) /\ Cardinality(S) <= 1
        <4> HIDE DEF S
        <4> QED
          BY <2>2, AtMostOne
      <3>2. Cardinality(S) \in Nat
        BY <3>1, FS_CardinalityType
      <3> HIDE DEF S
      <3> QED
        BY <2>1, <3>1, <3>2
    <2> QED
      BY <2>2
  <1> DEFINE Left == {x \in Match : Open(x)}
  <1>3. Left # {}
    BY <1>2 DEF Accounted, StillSeated
  <1>4. LinksForward
    BY DEF EliminationShape
  <1>5. PICK m \in Left : \A x \in Left : Round[m] <= Round[x]
    BY <1>3, <1>4, FirstAndLast
  <1>6. ASSUME NEW e \in Into(Owed(matches), m) PROVE FALSE
    <2>1. e \in Link /\ e[1] \in Match /\ To(e) = m /\ ~Over(matches[e[1]])
      BY DEF Into, Owed, Link
    <2>2. matches[e[1]].status # "absent"
      <3>1. e[2] \in {"winner", "loser"} /\ m # NoMatch
        BY <1>5, <2>1, BracketShape DEF Link
      <3>2. NextMatch[e[1]] # NoMatch \/ LoserNextMatch[e[1]] # NoMatch
        BY <2>1, <3>1 DEF To
      <3> QED
        BY <2>1, <3>2, DoubleFacts DEF Accounted, OnlyResetAbsent
    <2>3. Open(e[1])
      <3>1. matches[e[1]].status \in Status
        BY <2>1 DEF IInv, TypeOK, Row
      <3> QED
        BY <2>1, <2>2, <3>1 DEF Open, Playable, Over, Status
    <2>4. Round[e[1]] \in Nat /\ Round[m] \in Nat /\ Round[e[1]] < Round[m]
      BY <1>4, <1>5, <2>1, BracketShape DEF LinksForward
    <2> QED
      BY <1>5, <2>1, <2>3, <2>4
  <1>7. Full(matches[m])
    BY <1>5, <1>6 DEF Accounted, FlowNow, Flow, Fed, FedIn, Open
  <1> QED
    BY <1>5, <1>7

\* Byes and advancement never strand the bracket: while two teams are still in,
\* some match has both its teams and can be played.
THEOREM NeverStuck ==
    ASSUME BracketFits, Elimination, Orderly
    PROVE  Spec => []NotStuck
  <1>1. IInv /\ Seating /\ Accounted => NotStuck
    BY EliminationFits, SomethingToPlay
  <1> QED
    BY <1>1, EliminationFits, AccountedInvariant, PTL

\* Only a completion crowns, and whom it crowns is still in.
LEMMA Crowning ==
    ASSUME IInv, Seating, Accounted, EliminationShape, Elimination, Orderly,
           [Next]_vars, champion' # champion
    PROVE  /\ champion = Nobody
           /\ champion' \in Team /\ ~standings'[champion'].eliminated
  <1>1. Undisturbed /\ ~ResetResults /\ \A m \in Match : ~ResetMatch(m)
    BY DEF Orderly, Undisturbed, ResetResults, ResetMatch
  <1>2. \A t, u \in Team : ~SwapBracketTeams(t, u)
    BY DEF SwapBracketTeams
  <1>3. PICK m \in Match, winner \in Team : CompleteMatch(m, winner)
    BY <1>1, <1>2, QuietStep DEF Quiet
  <1>4. LinksForward /\ OneSeat /\ AllApart
    BY DEF EliminationShape, Seating, Placed
  <1>5. Completes(m, winner) /\ Loser(m, winner) # winner
    BY <1>3, <1>4, Landing
  <1>6. champion = Nobody
    <2>1. Open(m)
      BY <1>5 DEF Completes, Open, Playable
    <2> QED
      BY <2>1 DEF Accounted, PlayedOut
  <1>7. champion' = winner
    BY <1>3 DEF CompleteMatch, Crowned, Elimination
  <1>8. ~standings'[winner].eliminated
    <2>1. ~standings[winner].eliminated
      BY <1>3, LossesBefore
    <2>2. standings' = StandingsAfter(m, winner)
      BY <1>3 DEF CompleteMatch
    <2> QED
      BY <1>4, <1>5, <2>1, <2>2, StandingsRow
  <1> QED
    BY <1>6, <1>7, <1>8, SMTT(30)

\* The champion has outlived everybody: when one is crowned, all other teams
\* are out and it is not, whichever match of the final comes last.
THEOREM ChampionIsLastStanding ==
    ASSUME BracketFits, Elimination, Orderly
    PROVE  Spec => ChampionRightful
  <1>1. ASSUME IInv, Seating, Accounted, [Next]_vars, (IInv /\ Seating /\ Accounted)',
               champion' # champion, NEW t \in Team
        PROVE  standings'[t].eliminated <=> t # champion'
    <2>1. champion' # Nobody /\ ~standings'[champion'].eliminated
      BY <1>1, EliminationFits, Crowning, NobodyIsNoTeam
    <2>2. \A x \in Match : ~Playable(matches'[x])
      BY <1>1, <2>1 DEF Accounted, PlayedOut, Open
    <2>3. ~standings'[t].eliminated => t = champion'
      BY <1>1, <2>2 DEF Accounted, StillSeated, Open
    <2> QED
      BY <2>1, <2>3
  <1>2. /\ IInv /\ Seating /\ Accounted /\ [Next]_vars /\ (IInv /\ Seating /\ Accounted)'
        => [(Elimination /\ champion' # champion) =>
              \A t \in Team : standings'[t].eliminated <=> t # champion']_vars
    BY <1>1
  <1> QED
    BY <1>2, EliminationFits, AccountedInvariant, PTL DEF Spec, ChampionRightful

\* A champion, once crowned, is never replaced: not by the final nor by its
\* reset, and not by the table of a round robin.
THEOREM ChampionStays ==
    ASSUME BracketFits, Orderly
    PROVE  Spec => ChampionFinal
  <1>1. CASE Elimination
    <2>1. EliminationShape
      BY <1>1, EliminationFits
    <2>2. IInv /\ Seating /\ Accounted /\ [Next]_vars =>
            [champion # Nobody => champion' = champion]_vars
      BY <1>1, <2>1, Crowning
    <2> QED
      BY <1>1, <2>1, <2>2, AccountedInvariant, PTL DEF Spec, ChampionFinal
  <1>2. CASE ~Elimination
    <2>1. Format = "round_robin" /\ "reset" \notin Requests /\ "restart" \notin Requests
      BY <1>2, FormatKnown DEF Elimination, Orderly, Undisturbed
    <2>2. IInv /\ TableLeader /\ [Next]_vars =>
            [champion # Nobody => champion' = champion]_vars
      BY <2>1, LeaderStep
    <2> QED
      BY <2>1, <2>2, LeaderInvariant, PTL DEF Spec, ChampionFinal
  <1> QED
    BY <1>1, <1>2
=============================================================================
