---------------------------- MODULE SetupProofs ----------------------------
(***************************************************************************)
(* What generation makes, for fields of any size.  A round robin is        *)
(* arithmetic modulo the odd number of its rounds.  An elimination bracket *)
(* is followed through the doubling of the seeds, the rows of round 1, the *)
(* byes and the losers matches that are closed; then through its links, up *)
(* to the shape that the theorems on play start from.  The seeds are       *)
(* different whatever happens to the field between the reads of a request. *)
(***************************************************************************)
EXTENDS BracketSetup, CommonLemmas

-----------------------------------------------------------------------------
(* The games of the round robin; place 0 of the circle is entry 2. *)

RoundsOf(n) == 1..Even(n) - 1

GamesOf(n) == 0..Even(n) \div 2 - 1

\* The two entries of a game.
Meeting(n, r, i) == Both(RoundRobinGame(n, r, i))

\* What the generator computes for n entries: with an odd field, one more.
LEMMA Games ==
    ASSUME NEW n \in Nat, n >= 2
    PROVE  \E h \in Nat :
              /\ Even(n) = 2*h + 2 /\ n <= 2*h + 2
              /\ RoundsOf(n) = 1..2*h + 1 /\ GamesOf(n) = 0..h
              /\ \A r \in 1..2*h + 1, i \in 0..h : RoundRobinGame(n, r, i) = Game(h, r - 1, i)
  <1>1. PICK h \in Nat : Even(n) = 2*h + 2
    <2>1. CASE n % 2 = 0
      <3>1. n = 2 * (n \div 2) /\ n \div 2 \in Nat /\ n \div 2 >= 1
        BY <2>1
      <3>2. n \div 2 - 1 \in Nat /\ n = 2 * (n \div 2 - 1) + 2
        BY <3>1
      <3> QED
        BY <2>1, <3>2 DEF Even
    <2>2. CASE n % 2 # 0
      <3>1. n + 1 = 2 * (n \div 2) + 2 /\ n \div 2 \in Nat
        BY <2>2
      <3> QED
        BY <2>2, <3>1 DEF Even
    <2> QED
      BY <2>1, <2>2
  <1>2. n <= 2*h + 2
    BY <1>1 DEF Even
  <1>3. Even(n) - 1 = 2*h + 1 /\ Even(n) \div 2 - 1 = h
    BY <1>1
  <1>4. ASSUME NEW r \in 1..2*h + 1, NEW i \in 0..h
        PROVE  RoundRobinGame(n, r, i) = Game(h, r - 1, i)
    BY <1>3 DEF RoundRobinGame, Game, Place
  <1> QED
    BY <1>1, <1>2, <1>3, <1>4 DEF RoundsOf, GamesOf

\* A game has two entries.
LEMMA EntriesOfAGame ==
    ASSUME NEW n \in Nat, n >= 2, NEW r \in RoundsOf(n), NEW i \in GamesOf(n)
    PROVE  /\ RoundRobinGame(n, r, i)[1] \in 1..Even(n)
           /\ RoundRobinGame(n, r, i)[2] \in 1..Even(n)
           /\ RoundRobinGame(n, r, i)[1] # RoundRobinGame(n, r, i)[2]
  <1>1. PICK h \in Nat :
          /\ Even(n) = 2*h + 2 /\ RoundsOf(n) = 1..2*h + 1 /\ GamesOf(n) = 0..h
          /\ \A q \in 1..2*h + 1, k \in 0..h : RoundRobinGame(n, q, k) = Game(h, q - 1, k)
    BY Games
  <1>2. r - 1 \in 0..2*h /\ i \in 0..h /\ RoundRobinGame(n, r, i) = Game(h, r - 1, i)
    BY <1>1
  <1> QED
    BY <1>1, <1>2, GameOfTwo

\* An entry plays once in a round.
LEMMA EntriesPlayOnce ==
    ASSUME NEW n \in Nat, n >= 2, NEW r \in RoundsOf(n), NEW i \in GamesOf(n), NEW k \in GamesOf(n),
           Meeting(n, r, i) \intersect Meeting(n, r, k) # {}
    PROVE  i = k
  <1>1. PICK h \in Nat :
          /\ RoundsOf(n) = 1..2*h + 1 /\ GamesOf(n) = 0..h
          /\ \A q \in 1..2*h + 1, j \in 0..h : RoundRobinGame(n, q, j) = Game(h, q - 1, j)
    BY Games
  <1>2. /\ r - 1 \in 0..2*h /\ i \in 0..h /\ k \in 0..h
        /\ RoundRobinGame(n, r, i) = Game(h, r - 1, i) /\ RoundRobinGame(n, r, k) = Game(h, r - 1, k)
    BY <1>1
  <1> QED
    BY <1>2, OneGameARound DEF Meeting

\* Two entries meet once.
LEMMA EntriesMeetOnce ==
    ASSUME NEW n \in Nat, n >= 2, NEW r \in RoundsOf(n), NEW q \in RoundsOf(n),
           NEW i \in GamesOf(n), NEW k \in GamesOf(n),
           Meeting(n, r, i) = Meeting(n, q, k)
    PROVE  r = q /\ i = k
  <1>1. PICK h \in Nat :
          /\ RoundsOf(n) = 1..2*h + 1 /\ GamesOf(n) = 0..h
          /\ \A s \in 1..2*h + 1, j \in 0..h : RoundRobinGame(n, s, j) = Game(h, s - 1, j)
    BY Games
  <1>2. /\ r - 1 \in 0..2*h /\ q - 1 \in 0..2*h /\ i \in 0..h /\ k \in 0..h
        /\ RoundRobinGame(n, r, i) = Game(h, r - 1, i) /\ RoundRobinGame(n, q, k) = Game(h, q - 1, k)
    BY <1>1
  <1>3. r - 1 = q - 1 /\ i = k
    BY <1>2, OneGameAPair DEF Meeting
  <1> QED
    BY <1>1, <1>3

\* Any two entries meet.
LEMMA EntriesMeet ==
    ASSUME NEW n \in Nat, n >= 2, NEW x \in 1..n, NEW y \in 1..n, x # y
    PROVE  \E r \in RoundsOf(n), i \in GamesOf(n) : Meeting(n, r, i) = {x, y}
  <1>1. PICK h \in Nat :
          /\ n <= 2*h + 2 /\ RoundsOf(n) = 1..2*h + 1 /\ GamesOf(n) = 0..h
          /\ \A q \in 1..2*h + 1, j \in 0..h : RoundRobinGame(n, q, j) = Game(h, q - 1, j)
    BY Games
  <1>2. x \in 1..2*h + 2 /\ y \in 1..2*h + 2
    BY <1>1
  <1>3. PICK c \in 0..2*h, k \in 0..h : Both(Game(h, c, k)) = {x, y}
    BY <1>2, EveryPairPlays
  <1>4. c + 1 \in 1..2*h + 1 /\ (c + 1) - 1 = c
    OBVIOUS
  <1>5. RoundRobinGame(n, c + 1, k) = Game(h, c, k)
    BY <1>1, <1>4
  <1> QED
    BY <1>1, <1>3, <1>4, <1>5 DEF Meeting

-----------------------------------------------------------------------------
(* The entries are the field in the order of its seeds. *)

\* Every team of the field has a seed of its own.
Seeded(seeding) == Numbered(seeding) /\ DOMAIN seeding \subseteq Team

\* Sorted lists every team of the field once.
LEMMA SortedLists ==
    ASSUME NEW seeding, Seeded(seeding)
    PROVE  LET T == DOMAIN seeding
               entries == Sorted(T, seeding)
           IN  /\ Cardinality(T) \in Nat
               /\ entries \in [1..Cardinality(T) -> T]
               /\ \A i, j \in 1..Cardinality(T) : entries[i] = entries[j] => i = j
               /\ \A t \in T : \E i \in 1..Cardinality(T) : entries[i] = t
  <1>1. Sorted(DOMAIN seeding, seeding) = Listing(seeding)
    BY DEF Sorted, Listing, UpTo
  <1> QED
    BY <1>1, ListingLists DEF Seeded

-----------------------------------------------------------------------------
(* The rows of a round robin *)

\* A match has the two entries of its game, both of them teams of the field.
LEMMA RowsOfGames ==
    ASSUME NEW seeding, Seeded(seeding), Cardinality(DOMAIN seeding) >= 2
    PROVE  LET b       == NewBracket("round_robin", seeding)
               n       == Cardinality(DOMAIN seeding)
               entries == Sorted(DOMAIN seeding, seeding)
           IN  /\ b.format = "round_robin" /\ b.seeding = seeding
               /\ DOMAIN b.rows = RoundRobinMatches(n)
               /\ \A m \in RoundRobinMatches(n) :
                     /\ Meeting(n, m[2], m[3]) \subseteq 1..n
                     /\ Full(b.rows[m])
                     /\ Seated(b.rows[m]) = {entries[i] : i \in Meeting(n, m[2], m[3])}
  <1> DEFINE b       == NewBracket("round_robin", seeding)
             n       == Cardinality(DOMAIN seeding)
             entries == Sorted(DOMAIN seeding, seeding)
             rows    == GenerateBracket("round_robin", DOMAIN seeding, seeding)
             Row1(m) == [EmptyRow EXCEPT !.teamA = entries[RoundRobinGame(n, m[2], m[3])[1]],
                                         !.teamB = entries[RoundRobinGame(n, m[2], m[3])[2]]]
  <1>1. b.format = "round_robin" /\ b.seeding = seeding /\ b.rows = rows
    BY DEF NewBracket
  <1>2. rows = [m \in RoundRobinMatches(n) |-> Row1(m)]
    <2>1. MatchesOf("round_robin", Exponent(n), n) = RoundRobinMatches(n)
      BY DEF MatchesOf
    <2>2. rows = Created("round_robin", Exponent(n), n, RoundRobinMatches(n), entries)
      BY <2>1 DEF GenerateBracket
    <2> QED
      BY <2>2 DEF Created
  <1>3. n \in Nat /\ entries \in [1..n -> DOMAIN seeding]
    BY Ranks, SortedLists DEF Seeded
  <1>4. ASSUME NEW m \in RoundRobinMatches(n)
        PROVE  /\ Meeting(n, m[2], m[3]) \subseteq 1..n
               /\ Full(rows[m])
               /\ Seated(rows[m]) = {entries[i] : i \in Meeting(n, m[2], m[3])}
    <2> DEFINE x == RoundRobinGame(n, m[2], m[3])[1]
               y == RoundRobinGame(n, m[2], m[3])[2]
    <2>1. m[2] \in RoundsOf(n) /\ m[3] \in GamesOf(n) /\ x <= n /\ y <= n
      BY DEF RoundRobinMatches, RoundsOf, GamesOf
    <2>2. x \in 1..n /\ y \in 1..n
      <3>1. x \in 1..Even(n) /\ y \in 1..Even(n)
        BY <1>3, <2>1, EntriesOfAGame
      <3> HIDE DEF x, y
      <3> QED
        BY <1>3, <2>1, <3>1
    <2>3. rows[m].teamA = entries[x] /\ rows[m].teamB = entries[y]
      <3>1. rows[m] = Row1(m)
        <4> HIDE DEF rows, Row1
        <4> QED
          BY <1>2
      <3> HIDE DEF rows, entries, n, x, y
      <3>2. rows[m] = [EmptyRow EXCEPT !.teamA = entries[x], !.teamB = entries[y]]
        BY <3>1 DEF x, y
      <3> QED
        BY <3>2 DEF EmptyRow
    <2>4. Meeting(n, m[2], m[3]) = {x, y}
      BY DEF Meeting, Both
    <2> HIDE DEF x, y, rows, entries, n
    <2>5. entries[x] \in Team /\ entries[y] \in Team
      BY <1>3, <2>2 DEF Seeded, Numbered
    <2> QED
      BY <2>2, <2>3, <2>4, <2>5, NobodyIsNoTeam DEF Seated, Full
  <1>5. DOMAIN rows = RoundRobinMatches(n)
    BY <1>2
  <1> HIDE DEF b, n, entries, rows
  <1> QED
    BY <1>1, <1>4, <1>5 DEF b, n, entries

\* EveryPairOnce, of one round robin.
LEMMA EveryPairOnceOf ==
    ASSUME NEW seeding, Seeded(seeding), Cardinality(DOMAIN seeding) >= 2
    PROVE  LET b == NewBracket("round_robin", seeding)
           IN  /\ \A t, u \in Field(b) : t # u =>
                     One({m \in DOMAIN b.rows : Seated(b.rows[m]) = {t, u}})
               /\ \A m, x \in DOMAIN b.rows : (m # x /\ m[2] = x[2]) =>
                     Seated(b.rows[m]) \intersect Seated(b.rows[x]) = {}
               /\ \A m \in DOMAIN b.rows : Full(b.rows[m])
  <1> DEFINE b       == NewBracket("round_robin", seeding)
             n       == Cardinality(DOMAIN seeding)
             entries == Sorted(DOMAIN seeding, seeding)
             Between(m) == Meeting(n, m[2], m[3])
  <1>1. /\ b.seeding = seeding
        /\ DOMAIN b.rows = RoundRobinMatches(n)
        /\ \A m \in RoundRobinMatches(n) :
              /\ Between(m) \subseteq 1..n
              /\ Full(b.rows[m])
              /\ Seated(b.rows[m]) = {entries[i] : i \in Between(m)}
    BY RowsOfGames
  <1>2. /\ n \in Nat /\ n >= 2
        /\ entries \in [1..n -> DOMAIN seeding]
        /\ \A i, j \in 1..n : entries[i] = entries[j] => i = j
        /\ \A t \in DOMAIN seeding : \E i \in 1..n : entries[i] = t
    BY Ranks, SortedLists DEF Seeded
  <1>3. \A m \in RoundRobinMatches(n) :
          m = <<"round_robin", m[2], m[3]>> /\ m[2] \in RoundsOf(n) /\ m[3] \in GamesOf(n)
    BY DEF RoundRobinMatches, RoundsOf, GamesOf
  <1> HIDE DEF b, n, entries
  <1>4. ASSUME NEW t \in DOMAIN seeding, NEW u \in DOMAIN seeding, t # u
        PROVE  One({m \in DOMAIN b.rows : Seated(b.rows[m]) = {t, u}})
    <2>1. PICK i \in 1..n, j \in 1..n : entries[i] = t /\ entries[j] = u
      BY <1>2
    <2>2. i # j /\ i \in Nat /\ j \in Nat
      BY <1>4, <2>1
    <2>3. n \in Nat /\ n >= 2
      BY <1>2
    <2>4. PICK r \in RoundsOf(n), k \in GamesOf(n) : Meeting(n, r, k) = {i, j}
      <3>1. \A x, y \in 1..n : x # y =>
               \E r \in RoundsOf(n), k \in GamesOf(n) : Meeting(n, r, k) = {x, y}
        BY <2>3, EntriesMeet
      <3> QED
        BY <2>2, <3>1
    <2> DEFINE game == <<"round_robin", r, k>>
    <2>5. game \in RoundRobinMatches(n) /\ game[2] = r /\ game[3] = k
      <3>1. \A e \in {1, 2} : RoundRobinGame(n, r, k)[e] \in {i, j}
        BY <2>4 DEF Meeting, Both
      <3>2. \A e \in {1, 2} : RoundRobinGame(n, r, k)[e] <= n
        BY <1>2, <3>1
      <3> QED
        BY <3>2 DEF RoundRobinMatches, RoundsOf, GamesOf
    <2>6. Seated(b.rows[game]) = {t, u}
      BY <1>1, <2>1, <2>4, <2>5
    <2>7. ASSUME NEW m \in RoundRobinMatches(n), Seated(b.rows[m]) = {t, u} PROVE m = game
      <3>1. {entries[e] : e \in Between(m)} = {entries[i], entries[j]} /\ Between(m) \subseteq 1..n
        BY <1>1, <2>1, <2>7
      <3>2. Between(m) = {i, j}
        <4> HIDE DEF Between
        <4>1. ASSUME NEW e \in Between(m) PROVE e \in {i, j}
          <5>1. e \in 1..n /\ (entries[e] = entries[i] \/ entries[e] = entries[j])
            BY <3>1
          <5> QED
            BY <1>2, <5>1
        <4>2. i \in Between(m) /\ j \in Between(m)
          <5>1. PICK d \in Between(m), e \in Between(m) : entries[d] = entries[i] /\ entries[e] = entries[j]
            BY <3>1
          <5>2. d = i /\ e = j
            BY <1>2, <3>1, <5>1
          <5> QED
            BY <5>2
        <4> QED
          BY <4>1, <4>2
      <3>3. m[2] = r /\ m[3] = k
        <4>1. Meeting(n, m[2], m[3]) = Meeting(n, r, k)
          BY <2>4, <3>2
        <4> QED
          BY <1>2, <1>3, <4>1, EntriesMeetOnce
      <3> QED
        BY <1>3, <3>3
    <2>8. {m \in DOMAIN b.rows : Seated(b.rows[m]) = {t, u}} = {game}
      <3> HIDE DEF game
      <3> QED
        BY <1>1, <2>5, <2>6, <2>7
    <2> QED
      BY <2>8, FS_Singleton DEF One
  <1>5. ASSUME NEW m \in RoundRobinMatches(n), NEW x \in RoundRobinMatches(n), m # x, m[2] = x[2]
        PROVE  Seated(b.rows[m]) \intersect Seated(b.rows[x]) = {}
    <2>1. SUFFICES ASSUME NEW t \in Seated(b.rows[m]), t \in Seated(b.rows[x]) PROVE FALSE
      OBVIOUS
    <2>2. PICK i \in Between(m), j \in Between(x) : entries[i] = t /\ entries[j] = t
      BY <1>1, <2>1
    <2>3. i = j
      BY <1>1, <1>2, <2>2
    <2>4. m[3] = x[3]
      <3>1. Meeting(n, m[2], m[3]) \intersect Meeting(n, m[2], x[3]) # {}
        BY <1>5, <2>2, <2>3
      <3> QED
        BY <1>2, <1>3, <1>5, <3>1, EntriesPlayOnce
    <2> QED
      BY <1>3, <1>5, <2>4
  <1>6. Field(b) = DOMAIN seeding
    BY <1>1 DEF Field
  <1>7. /\ \A t, u \in Field(b) : t # u =>
              One({m \in DOMAIN b.rows : Seated(b.rows[m]) = {t, u}})
        /\ \A m, x \in DOMAIN b.rows : (m # x /\ m[2] = x[2]) =>
              Seated(b.rows[m]) \intersect Seated(b.rows[x]) = {}
        /\ \A m \in DOMAIN b.rows : Full(b.rows[m])
    <2>1. \A t, u \in Field(b) : t # u => One({m \in DOMAIN b.rows : Seated(b.rows[m]) = {t, u}})
      BY <1>4, <1>6
    <2>2. \A m, x \in DOMAIN b.rows : (m # x /\ m[2] = x[2]) =>
              Seated(b.rows[m]) \intersect Seated(b.rows[x]) = {}
      BY <1>1, <1>5
    <2>3. \A m \in DOMAIN b.rows : Full(b.rows[m])
      BY <1>1
    <2> QED
      BY <2>1, <2>2, <2>3
  <1> QED
    BY <1>7 DEF b

-----------------------------------------------------------------------------
(* The slots of the seeds *)

\* The slots of 2^j seeds from those of half as many.
Doubled(j, slots) ==
    [i \in 1..2^j |-> IF i % 2 = 1 THEN slots[(i + 1) \div 2] ELSE 2^j + 1 - slots[i \div 2]]

IsSlotTable(f, k) == f = [j \in 0..k |-> IF j = 0 THEN <<1>> ELSE Doubled(j, f[j - 1])]

\* The slots of every smaller bracket on the way to 2^k.
SlotTable(k) == CHOOSE f : IsSlotTable(f, k)

\* The table of the smaller brackets exists.
LEMMA SlotTableIs ==
    ASSUME NEW k \in Nat
    PROVE  IsSlotTable(SlotTable(k), k)
  <1> DEFINE S == {m \in 0..k : \E f : IsSlotTable(f, m)}
  <1>1. 0 \in S
    <2> DEFINE f == [j \in 0..0 |-> <<1>>]
    <2>1. IsSlotTable(f, 0) /\ 0 \in 0..k
      BY DEF IsSlotTable
    <2> HIDE DEF f
    <2> QED
      BY <2>1
  <1>2. ASSUME NEW m \in 0..k, m \in S, m + 1 <= k PROVE m + 1 \in S
    <2>1. PICK f : IsSlotTable(f, m)
      BY <1>2
    <2> DEFINE g == [j \in 0 .. m + 1 |-> IF j = m + 1 THEN Doubled(j, f[m]) ELSE f[j]]
               G == [j \in 0 .. m + 1 |-> IF j = 0 THEN <<1>> ELSE Doubled(j, g[j - 1])]
    <2>2. ASSUME NEW j \in 0 .. m + 1 PROVE g[j] = G[j]
      <3>1. CASE j = m + 1
        <4>1. g[j - 1] = f[m] /\ g[j] = Doubled(j, f[m])
          BY <3>1
        <4> QED
          BY <3>1, <4>1
      <3>2. CASE j # m + 1 /\ j # 0
        <4>1. j - 1 \in 0 .. m + 1 /\ j - 1 # m + 1 /\ j \in 0..m
          BY <3>2
        <4>2. g[j - 1] = f[j - 1] /\ g[j] = f[j]
          BY <3>2, <4>1
        <4>3. f[j] = Doubled(j, f[j - 1])
          BY <2>1, <3>2, <4>1 DEF IsSlotTable
        <4> QED
          BY <3>2, <4>2, <4>3
      <3>3. CASE j # m + 1 /\ j = 0
        <4>1. g[0] = f[0] /\ f[0] = <<1>>
          BY <2>1, <3>3 DEF IsSlotTable
        <4> QED
          BY <3>3, <4>1
      <3> QED
        BY <3>1, <3>2, <3>3
    <2>3. g = G
      <3>1. g = [j \in 0 .. m + 1 |-> g[j]] /\ G = [j \in 0 .. m + 1 |-> G[j]]
        OBVIOUS
      <3> HIDE DEF g, G
      <3> QED
        BY <2>2, <3>1
    <2>4. IsSlotTable(g, m + 1)
      BY <2>3 DEF IsSlotTable
    <2>5. m + 1 \in 0..k
      BY <1>2
    <2> HIDE DEF g
    <2> QED
      BY <2>4, <2>5
  <1>3. k \in S
    <2> HIDE DEF S
    <2>1. \A m \in 0..k : m \in S
      BY <1>1, <1>2, Climb
    <2> QED
      BY <2>1
  <1> QED
    BY <1>3 DEF SlotTable

\* The slots of the whole bracket are its last entry.
LEMMA SlotsOfTable == ASSUME NEW k \in Nat PROVE SeedSlots(k) = SlotTable(k)[k]
  BY DEF SeedSlots, SlotTable, IsSlotTable, Doubled

\* Each entry of the table doubles the one before.
LEMMA SlotSteps ==
    ASSUME NEW k \in Nat
    PROVE  /\ SlotTable(k)[0] = <<1>>
           /\ \A j \in 1..k : SlotTable(k)[j] = Doubled(j, SlotTable(k)[j - 1])
  BY SlotTableIs DEF IsSlotTable

\* Every other slot is that of a half, the next one its complement.
LEMMA DoubledAt ==
    ASSUME NEW j \in Nat \ {0}, NEW slots, NEW q \in 1..2^(j - 1)
    PROVE  /\ 2*q - 1 \in 1..2^j /\ 2*q \in 1..2^j
           /\ Doubled(j, slots)[2*q - 1] = slots[q]
           /\ Doubled(j, slots)[2*q] = 2^j + 1 - slots[q]
  <1>1. 2^(j - 1) \in Nat /\ 2^j = 2 * 2^(j - 1)
    <2>1. j - 1 \in Nat /\ (j - 1) + 1 = j
      OBVIOUS
    <2> QED
      BY <2>1, PowerIsNat, PowerDoubles
  <1>2. 2*q - 1 \in 1..2^j /\ 2*q \in 1..2^j
    BY <1>1
  <1>3. (2*q - 1) % 2 = 1 /\ (2*q - 1 + 1) \div 2 = q /\ (2*q) % 2 # 1 /\ (2*q) \div 2 = q
    <2>1. q \in Int
      BY <1>1
    <2> QED
      BY <2>1
  <1> QED
    BY <1>2, <1>3 DEF Doubled

\* Every place is odd or even.
LEMMA Places2 ==
    ASSUME NEW j \in Nat \ {0}, NEW p \in 1..2^j
    PROVE  \E q \in 1..2^(j - 1) : p = 2*q - 1 \/ p = 2*q
  <1>1. 2^(j - 1) \in Nat /\ 2^j = 2 * 2^(j - 1)
    <2>1. j - 1 \in Nat /\ (j - 1) + 1 = j
      OBVIOUS
    <2> QED
      BY <2>1, PowerIsNat, PowerDoubles
  <1>2. (p + 1) \div 2 \in 1..2^(j - 1) /\ (p = 2 * ((p + 1) \div 2) - 1 \/ p = 2 * ((p + 1) \div 2))
    BY <1>1
  <1> QED
    BY <1>2

\* The slots are a permutation of the seeds.
Permuted(slots, w) ==
    /\ slots \in [1..w -> 1..w]
    /\ \A p, q \in 1..w : slots[p] = slots[q] => p = q
    /\ \A s \in 1..w : \E p \in 1..w : slots[p] = s

\* Doubling a permutation gives one.
LEMMA DoubledPermutes ==
    ASSUME NEW j \in Nat \ {0}, NEW slots, Permuted(slots, 2^(j - 1))
    PROVE  Permuted(Doubled(j, slots), 2^j)
  <1> DEFINE w == 2^(j - 1)
             d == Doubled(j, slots)
  <1>1. w \in Nat /\ 2^j = 2 * w
    <2>1. j - 1 \in Nat /\ (j - 1) + 1 = j
      OBVIOUS
    <2> QED
      BY <2>1, PowerIsNat, PowerDoubles
  <1>2. \A q \in 1..w : /\ 2*q - 1 \in 1..2^j /\ 2*q \in 1..2^j
                        /\ d[2*q - 1] = slots[q] /\ d[2*q] = 2^j + 1 - slots[q]
    BY DoubledAt
  <1>3. \A p \in 1..2^j : \E q \in 1..w : p = 2*q - 1 \/ p = 2*q
    BY Places2
  <1>4. d = [i \in 1..2^j |-> d[i]]
    BY DEF Doubled
  <1>5. /\ \A q \in 1..w : slots[q] \in 1..w
        /\ \A p, q \in 1..w : slots[p] = slots[q] => p = q
        /\ \A s \in 1..w : \E p \in 1..w : slots[p] = s
    BY DEF Permuted
  <1> HIDE DEF w, d
  <1>6. ASSUME NEW p \in 1..2^j PROVE d[p] \in 1..2^j
    <2>1. PICK q \in 1..w : p = 2*q - 1 \/ p = 2*q
      BY <1>3
    <2>2. slots[q] \in 1..w /\ d[2*q - 1] = slots[q] /\ d[2*q] = 2*w + 1 - slots[q]
      BY <1>1, <1>2, <1>5
    <2> QED
      BY <1>1, <2>1, <2>2
  <1>7. ASSUME NEW p \in 1..2^j, NEW q \in 1..2^j, d[p] = d[q] PROVE p = q
    <2>1. PICK x \in 1..w : p = 2*x - 1 \/ p = 2*x
      BY <1>3
    <2>2. PICK y \in 1..w : q = 2*y - 1 \/ q = 2*y
      BY <1>3
    <2>3. /\ d[2*x - 1] = slots[x] /\ d[2*x] = 2*w + 1 - slots[x]
          /\ d[2*y - 1] = slots[y] /\ d[2*y] = 2*w + 1 - slots[y]
          /\ slots[x] \in 1..w /\ slots[y] \in 1..w
      BY <1>1, <1>2, <1>5
    <2>4. slots[x] = slots[y]
      BY <1>1, <1>7, <2>1, <2>2, <2>3
    <2>5. x = y
      BY <1>5, <2>4
    <2> QED
      BY <1>1, <1>7, <2>1, <2>2, <2>3, <2>5
  <1>8. ASSUME NEW s \in 1..2^j PROVE \E p \in 1..2^j : d[p] = s
    <2>1. CASE s \in 1..w
      <3>1. PICK q \in 1..w : slots[q] = s
        BY <1>5, <2>1
      <3> QED
        BY <1>2, <3>1
    <2>2. CASE s \notin 1..w
      <3>1. 2^j + 1 - s \in 1..w
        BY <1>1, <2>2
      <3>2. PICK q \in 1..w : slots[q] = 2^j + 1 - s
        BY <1>5, <3>1
      <3>3. d[2*q] = s
        BY <1>1, <1>2, <3>2
      <3> QED
        BY <1>2, <3>3
    <2> QED
      BY <2>1, <2>2
  <1> QED
    BY <1>4, <1>6, <1>7, <1>8 DEF Permuted, d

\* The slots of every bracket on the way are a permutation of its seeds.
LEMMA SlotsPermute ==
    ASSUME NEW k \in Nat
    PROVE  \A j \in 0..k : Permuted(SlotTable(k)[j], 2^j)
  <1> DEFINE S == {j \in Nat : Permuted(SlotTable(k)[j], 2^j)}
  <1>1. 0 \in S
    <2>1. SlotTable(k)[0] = <<1>> /\ 2^0 = 1 /\ 1..1 = {1}
      BY SlotSteps
    <2>2. Permuted(<<1>>, 1)
      BY <2>1 DEF Permuted
    <2> QED
      BY <2>1, <2>2
  <1>2. ASSUME NEW j \in 0..k, j \in S, j + 1 <= k PROVE j + 1 \in S
    <2>1. j + 1 \in 1..k /\ j + 1 \in Nat \ {0} /\ j + 1 - 1 = j
      BY <1>2
    <2>2. SlotTable(k)[j + 1] = Doubled(j + 1, SlotTable(k)[j])
      BY <2>1, SlotSteps
    <2> QED
      BY <1>2, <2>1, <2>2, DoubledPermutes
  <1> HIDE DEF S
  <1>3. \A j \in 0..k : j \in S
    BY <1>1, <1>2, Climb
  <1> QED
    BY <1>3 DEF S

\* The matches of round 1 pair a seed of the upper half with its complement.
LEMMA Pairings ==
    ASSUME NEW k \in Nat \ {0}
    PROVE  \E top : /\ Permuted(top, 2^(k - 1))
                    /\ top = SlotTable(k)[k - 1]
                    /\ StandardSeedPairing(k) = [i \in 1..2^(k - 1) |-> <<top[i], 2^k + 1 - top[i]>>]
  <1> DEFINE top == SlotTable(k)[k - 1]
  <1>1. Permuted(top, 2^(k - 1))
    <2>1. k - 1 \in 0..k
      OBVIOUS
    <2> QED
      BY <2>1, SlotsPermute
  <1>2. SeedSlots(k) = Doubled(k, top)
    BY SlotsOfTable, SlotSteps
  <1> HIDE DEF top
  <1>3. \A i \in 1..2^(k - 1) : SeedSlots(k)[2*i - 1] = top[i] /\ SeedSlots(k)[2*i] = 2^k + 1 - top[i]
    BY <1>2, DoubledAt
  <1>4. StandardSeedPairing(k) = [i \in 1..2^(k - 1) |-> <<top[i], 2^k + 1 - top[i]>>]
    BY <1>3 DEF StandardSeedPairing
  <1> QED
    BY <1>1, <1>4 DEF top

-----------------------------------------------------------------------------
(* The rounds of the losers bracket *)

\* Round j of the losers bracket, for four entries and more: it halves in every
\* other round.
LosersRound(k, j) ==
    [size |-> 2^(k - 2 - ((j - 1) \div 2)),
     drop |-> IF j = 1 THEN 1 ELSE IF j % 2 = 0 THEN j \div 2 + 1 ELSE 0]

\* How many losers rounds there are when winners round w has dropped.
LosersUpTo(k, w) == IF w < k THEN 2*w - 1 ELSE 2*k - 2

\* What is added for winners round w.
NextLosers(k, w, before) ==
    LET size  == Smaller(2^(k-w), before[Len(before)].size)
        major == [size |-> size, drop |-> w]
    IN  IF size > 1 THEN before \o << major, [size |-> size \div 2, drop |-> 0] >>
                    ELSE Append(before, major)

IsLosersTable(f, k) ==
    f = [w \in 1..k |-> IF w = 1 THEN << [size |-> 2^(k-1) \div 2, drop |-> 1] >>
                        ELSE NextLosers(k, w, f[w - 1])]

\* Half of a power of two is the one before.
LEMMA HalfPower ==
    ASSUME NEW k \in Nat \ {0}
    PROVE  2^k \div 2 = 2^(k - 1) /\ 2^(k - 1) \in Nat \ {0} /\ 2^k = 2 * 2^(k - 1)
  <1>1. k - 1 \in Nat /\ (k - 1) + 1 = k
    OBVIOUS
  <1>2. 2^(k - 1) \in Nat /\ 2^k = 2 * 2^(k - 1)
    BY <1>1, PowerIsNat, PowerDoubles
  <1>3. k - 1 < 2^(k - 1)
    <2>1. k - 1 \in 0..k - 1
      BY <1>1
    <2> QED
      BY <1>1, <2>1, Powers
  <1> QED
    BY <1>1, <1>2, <1>3

\* One more winners round adds the losers rounds that the closed form says.
LEMMA NextLosersIs ==
    ASSUME NEW k \in Nat, k >= 2, NEW w \in 2..k, NEW before,
           before = [j \in 1..LosersUpTo(k, w - 1) |-> LosersRound(k, j)]
    PROVE  NextLosers(k, w, before) = [j \in 1..LosersUpTo(k, w) |-> LosersRound(k, j)]
  <1> DEFINE L == 2*w - 3
             size == 2^(k-w)
             R == [size : Nat, drop : Nat]
  <1>1. LosersUpTo(k, w - 1) = L /\ L \in Nat \ {0}
    BY DEF LosersUpTo
  <1>2. \A j \in 1..2*k - 2 : k - 2 - ((j - 1) \div 2) \in Nat
    OBVIOUS
  <1>3. \A j \in 1..2*k - 2 : 2^(k - 2 - ((j - 1) \div 2)) \in Nat
    BY <1>2, PowerIsNat
  <1>4. \A j \in 1..2*k - 2 : LosersRound(k, j) \in R
    BY <1>3 DEF LosersRound
  <1>5. before \in Seq(R) /\ Len(before) = L /\ \A j \in 1..L : before[j] = LosersRound(k, j)
    <2>1. \A j \in 1..L : j \in 1..2*k - 2
      OBVIOUS
    <2>2. before = [j \in 1..L |-> LosersRound(k, j)]
      BY <1>1
    <2> HIDE DEF L, R
    <2>3. before \in [1..L -> R]
      BY <1>4, <2>1, <2>2
    <2> QED
      BY <1>1, <2>2, <2>3
  <1>6. before[L].size = size
    <2>1. L \in 1..L /\ (L - 1) \div 2 = w - 2 /\ k - 2 - (w - 2) = k - w
      BY <1>1
    <2>2. before[L] = LosersRound(k, L)
      BY <1>5, <2>1
    <2> HIDE DEF L
    <2>3. LosersRound(k, L).size = 2^(k - 2 - ((L - 1) \div 2))
      BY DEF LosersRound
    <2> QED
      BY <2>1, <2>2, <2>3
  <1>7. size \in Nat /\ k - w \in Nat
    BY PowerIsNat
  <1>8. Smaller(2^(k-w), before[Len(before)].size) = size
    BY <1>5, <1>6, <1>7 DEF Smaller
  <1> DEFINE major == [size |-> size, drop |-> w]
             minor == [size |-> size \div 2, drop |-> 0]
  <1>9. NextLosers(k, w, before) = IF size > 1 THEN before \o << major, minor >> ELSE Append(before, major)
    <2> DEFINE s == Smaller(2^(k-w), before[Len(before)].size)
    <2>1. NextLosers(k, w, before) =
            IF s > 1 THEN before \o << [size |-> s, drop |-> w], [size |-> s \div 2, drop |-> 0] >>
                     ELSE Append(before, [size |-> s, drop |-> w])
      BY DEF NextLosers
    <2>2. s = size
      BY <1>8
    <2> HIDE DEF s, size
    <2> QED
      BY <2>1, <2>2, Zenon DEF major, minor
  <1>10. L + 1 = 2*w - 2 /\ L + 2 = 2*w - 1
    OBVIOUS
  <1>11. LosersRound(k, L + 1) = major
    <2>1. (2*w - 2 - 1) \div 2 = w - 2 /\ 2*w - 2 # 1 /\ (2*w - 2) % 2 = 0 /\ (2*w - 2) \div 2 + 1 = w
      OBVIOUS
    <2>2. k - 2 - (w - 2) = k - w
      OBVIOUS
    <2> HIDE DEF L
    <2> QED
      BY <1>10, <2>1, <2>2 DEF LosersRound
  <1>12. CASE w < k
    <2>1. size \in Nat \ {0} /\ size = 2 * 2^(k - w - 1) /\ size \div 2 = 2^(k - w - 1) /\ size > 1
      <3>1. k - w \in Nat \ {0}
        BY <1>12
      <3> QED
        BY <3>1, HalfPower
    <2>2. LosersRound(k, L + 2) = minor
      <3>1. (2*w - 1 - 1) \div 2 = w - 1 /\ 2*w - 1 # 1 /\ (2*w - 1) % 2 # 0
        OBVIOUS
      <3>2. k - 2 - (w - 1) = k - w - 1
        OBVIOUS
      <3> HIDE DEF L
      <3> QED
        BY <1>10, <2>1, <3>1, <3>2 DEF LosersRound
    <2>3. LosersUpTo(k, w) = L + 2
      BY <1>12 DEF LosersUpTo
    <2>4. NextLosers(k, w, before) = before \o << major, minor >>
      BY <1>9, <2>1
    <2>5. major \in R /\ minor \in R
      BY <1>4, <1>10, <1>11, <1>12, <2>2
    <2> HIDE DEF L, size, major, minor, R
    <2>6. before \o << major, minor >> = [j \in 1..L + 2 |-> LosersRound(k, j)]
      BY <1>1, <1>5, <1>11, <2>2, <2>5
    <2> QED
      BY <2>3, <2>4, <2>6
  <1>13. CASE w = k
    <2>1. size = 1
      BY <1>13, PowerOfZero
    <2>2. NextLosers(k, w, before) = Append(before, major)
      <3>1. ~(size > 1)
        BY <2>1
      <3> HIDE DEF size, major, minor
      <3> QED
        BY <1>9, <3>1
    <2>3. LosersUpTo(k, w) = L + 1
      BY <1>13 DEF LosersUpTo
    <2>4. major \in R
      BY <1>7
    <2> HIDE DEF L, size, major, R
    <2>5. Append(before, major) = [j \in 1..L + 1 |-> LosersRound(k, j)]
      BY <1>1, <1>5, <1>11, <2>4
    <2> QED
      BY <2>2, <2>3, <2>5
  <1> QED
    BY <1>12, <1>13

\* The losers bracket in closed form.
LEMMA LosersRoundsAre ==
    ASSUME NEW k \in Nat, k >= 2
    PROVE  LosersRounds(k) = [j \in 1..2*k - 2 |-> LosersRound(k, j)]
  <1> DEFINE g == [w \in 1..k |-> [j \in 1..LosersUpTo(k, w) |-> LosersRound(k, j)]]
             f == CHOOSE f : IsLosersTable(f, k)
             first == << [size |-> 2^(k-1) \div 2, drop |-> 1] >>
  <1>1. g[1] = first
    <2>1. LosersUpTo(k, 1) = 1 /\ 1..1 = {1} /\ 1 \in 1..k
      BY DEF LosersUpTo
    <2>2. 2^(k-1) \div 2 = 2^(k - 2)
      <3>1. k - 1 \in Nat \ {0} /\ k - 1 - 1 = k - 2
        OBVIOUS
      <3> QED
        BY <3>1, HalfPower
    <2>3. LosersRound(k, 1) = [size |-> 2^(k - 2), drop |-> 1]
      <3>1. (1 - 1) \div 2 = 0 /\ k - 2 - 0 = k - 2
        OBVIOUS
      <3> QED
        BY <3>1 DEF LosersRound
    <2>4. g[1] = [j \in {1} |-> LosersRound(k, j)]
      BY <2>1
    <2> DEFINE r == [size |-> 2^(k - 2), drop |-> 1]
    <2>5. g[1] = [j \in {1} |-> r]
      <3> HIDE DEF r, g
      <3> QED
        BY <2>3, <2>4 DEF r
    <2>6. first = <<r>>
      BY <2>2
    <2> HIDE DEF r, g, first
    <2>7. <<r>> = [j \in {1} |-> r]
      BY <2>1
    <2> QED
      BY <2>5, <2>6, <2>7
  <1>2. ASSUME NEW w \in 2..k PROVE g[w] = NextLosers(k, w, g[w - 1])
    <2>1. w - 1 \in 1..k /\ w \in 1..k
      OBVIOUS
    <2>2. g[w - 1] = [j \in 1..LosersUpTo(k, w - 1) |-> LosersRound(k, j)]
      BY <2>1
    <2>3. g[w] = [j \in 1..LosersUpTo(k, w) |-> LosersRound(k, j)]
      BY <2>1
    <2> HIDE DEF g
    <2> QED
      BY <2>2, <2>3, NextLosersIs
  <1>3. IsLosersTable(g, k)
    <2> DEFINE G == [w \in 1..k |-> IF w = 1 THEN first ELSE NextLosers(k, w, g[w - 1])]
    <2>1. g = [w \in 1..k |-> g[w]]
      OBVIOUS
    <2> HIDE DEF g, first
    <2>2. \A w \in 1..k : g[w] = G[w]
      BY <1>1, <1>2
    <2>3. g = G
      BY <2>1, <2>2
    <2> QED
      BY <2>3 DEF IsLosersTable, first
  <1>4. IsLosersTable(f, k)
    <2> HIDE DEF g, first
    <2> QED
      BY <1>3
  <1>5. LosersRounds(k) = f[k]
    BY DEF LosersRounds, IsLosersTable, NextLosers
  <1>6. /\ f[1] = first /\ \A w \in 2..k : f[w] = NextLosers(k, w, f[w - 1])
    <2> HIDE DEF f
    <2>1. \A w \in 1..k : f[w] = IF w = 1 THEN first ELSE NextLosers(k, w, f[w - 1])
      BY <1>4 DEF IsLosersTable
    <2>2. 1 \in 1..k /\ \A w \in 2..k : w \in 1..k /\ w # 1
      OBVIOUS
    <2> QED
      BY <2>1, <2>2
  <1> DEFINE S == {w \in Nat : w + 1 <= k => f[w + 1] = g[w + 1]}
  <1>7. \A w \in 0..k : w \in S
    <2> HIDE DEF f, g, first
    <2>1. 0 \in S
      BY <1>1, <1>6
    <2>2. ASSUME NEW w \in 0..k, w \in S, w + 1 <= k PROVE w + 1 \in S
      <3>1. CASE w + 1 + 1 <= k
        <4>1. w + 2 \in 2..k /\ (w + 2) - 1 = w + 1 /\ w + 1 + 1 = w + 2
          BY <3>1
        <4>2. f[w + 1] = g[w + 1]
          BY <2>2
        <4>3. f[w + 2] = NextLosers(k, w + 2, f[w + 1]) /\ g[w + 2] = NextLosers(k, w + 2, g[w + 1])
          BY <1>2, <1>6, <4>1
        <4> QED
          BY <4>1, <4>2, <4>3
      <3>2. CASE ~(w + 1 + 1 <= k)
        BY <3>2
      <3> QED
        BY <3>1, <3>2
    <2> HIDE DEF S
    <2> QED
      BY <2>1, <2>2, Climb
  <1>8. f[k] = g[k]
    <2>1. k - 1 \in 0..k /\ (k - 1) + 1 = k
      OBVIOUS
    <2> HIDE DEF f, g
    <2> QED
      BY <1>7, <2>1
  <1>9. g[k] = [j \in 1..2*k - 2 |-> LosersRound(k, j)]
    BY DEF LosersUpTo
  <1> QED
    BY <1>5, <1>8, <1>9
\* Two entries have no losers bracket: its only round has no match.
LEMMA LosersRoundsOfTwo == LosersRounds(1) = << [size |-> 0, drop |-> 1] >>
  <1> DEFINE first == << [size |-> 2^(1-1) \div 2, drop |-> 1] >>
             g == [w \in 1..1 |-> first]
             f == CHOOSE f : IsLosersTable(f, 1)
  <1>1. IsLosersTable(g, 1)
    <2> HIDE DEF first
    <2> QED
      BY DEF IsLosersTable, first
  <1>2. IsLosersTable(f, 1)
    <2> HIDE DEF g
    <2> QED
      BY <1>1
  <1>3. f[1] = first
    <2> HIDE DEF f
    <2> QED
      BY <1>2 DEF IsLosersTable
  <1>4. LosersRounds(1) = f[1]
    BY DEF LosersRounds, IsLosersTable, NextLosers
  <1>5. 2^(1-1) \div 2 = 0
    OBVIOUS
  <1> QED
    BY <1>3, <1>4, <1>5

\* As many rounds as matches in them at most, and none without a number.
LEMMA LosersRoundsBounded ==
    ASSUME NEW k \in Nat \ {0}
    PROVE  /\ Len(LosersRounds(k)) \in Nat \ {0}
           /\ \A j \in 1..Len(LosersRounds(k)) :
                 /\ LosersRounds(k)[j].size \in Nat
                 /\ LosersRounds(k)[j].size <= 2^k
  <1>1. CASE k = 1
    <2>1. LosersRounds(k) = << [size |-> 0, drop |-> 1] >>
      BY <1>1, LosersRoundsOfTwo
    <2>2. 2^k \in Nat
      BY PowerIsNat
    <2> QED
      BY <2>1, <2>2
  <1>2. CASE k # 1
    <2>1. LosersRounds(k) = [j \in 1..2*k - 2 |-> LosersRound(k, j)]
      BY <1>2, LosersRoundsAre
    <2>2. 2*k - 2 \in Nat \ {0}
      BY <1>2
    <2>3. Len(LosersRounds(k)) = 2*k - 2
      BY <2>1, <2>2
    <2>4. ASSUME NEW j \in 1..2*k - 2
          PROVE  LosersRounds(k)[j].size \in Nat /\ LosersRounds(k)[j].size <= 2^k
      <3> DEFINE e == k - 2 - ((j - 1) \div 2)
      <3>1. e \in Nat /\ e <= k
        OBVIOUS
      <3>2. LosersRounds(k)[j].size = 2^e
        BY <2>1, <2>4 DEF LosersRound
      <3> HIDE DEF e
      <3>3. 2^e \in Nat /\ 2^e <= 2^k
        BY <3>1, PowerIsNat, PowersGrow
      <3> QED
        BY <3>2, <3>3
    <2> QED
      BY <2>2, <2>3, <2>4
  <1> QED
    BY <1>1, <1>2

-----------------------------------------------------------------------------
(* How many rounds an elimination bracket has *)

\* The exponent is the least that makes room for everybody.
LEMMA ExponentFits ==
    ASSUME NEW n \in Nat, n >= 2
    PROVE  /\ Exponent(n) \in Nat \ {0}
           /\ n <= 2^Exponent(n) /\ 2^(Exponent(n) - 1) < n
           /\ 2^(Exponent(n) - 1) \in Nat \ {0}
           /\ 2^Exponent(n) = 2 * 2^(Exponent(n) - 1)
  <1> DEFINE S == {k \in 0..n : 2^k >= n}
             Fits(k) == 2^k >= n /\ \A j \in 0..k-1 : 2^j < n
  <1>1. \A k \in 0..n : 2^k \in Nat /\ k < 2^k
    BY Powers
  <1>2. \E k \in 0..n : Fits(k)
    <2>1. S \subseteq Nat /\ n \in S
      BY <1>1
    <2>2. PICK k \in S : \A l \in S : k <= l
      <3> HIDE DEF S
      <3> QED
        BY <2>1, LeastNumber
    <2>3. k \in 0..n /\ 2^k >= n
      BY <2>2
    <2>4. ASSUME NEW j \in 0..k-1 PROVE 2^j < n
      <3>1. j \in 0..n /\ ~(k <= j)
        BY <2>3
      <3>2. j \notin S
        BY <2>2, <3>1
      <3>3. 2^j \in Nat
        BY <1>1, <3>1
      <3> QED
        BY <3>1, <3>2, <3>3
    <2> QED
      BY <2>3, <2>4
  <1>3. Exponent(n) \in 0..n /\ Fits(Exponent(n))
    <2> HIDE DEF S
    <2>1. Exponent(n) = CHOOSE k \in 0..n : Fits(k)
      BY DEF Exponent
    <2> HIDE DEF Fits
    <2> QED
      BY <1>2, <2>1
  <1> HIDE DEF S
  <1> DEFINE k == Exponent(n)
  <1>4. k # 0
    <2> HIDE DEF k
    <2>1. k = 0 => 2^k = 1
      BY PowerOfZero, Zenon
    <2>2. k \in Nat /\ 2^k >= n
      BY <1>3 DEF k
    <2> QED
      BY <2>1, <2>2
  <1>5. k - 1 \in 0..k-1 /\ k - 1 \in Nat /\ (k - 1) + 1 = k
    BY <1>3, <1>4
  <1>6. 2^(k - 1) < n /\ n <= 2^k
    BY <1>1, <1>3, <1>5
  <1>7. 2^(k - 1) \in Nat /\ k - 1 < 2^(k - 1) /\ 2^k = 2 * 2^(k - 1)
    BY <1>1, <1>3, <1>5, PowerDoubles
  <1> QED
    BY <1>3, <1>4, <1>5, <1>6, <1>7

-----------------------------------------------------------------------------
(* The entries of an elimination bracket *)

\* What round 1 relies on: every team has a seed of its own, from 1 without a
\* hole (with one the generator panics).
Drawn(seeding) ==
    /\ Seeded(seeding)
    /\ Cardinality(DOMAIN seeding) >= 2
    /\ ~SeedsHaveHole(DOMAIN seeding, seeding)

\* The seeds are 1..n.
LEMMA SeedsOfDraw ==
    ASSUME NEW seeding, Drawn(seeding)
    PROVE  LET T == DOMAIN seeding
               n == Cardinality(T)
           IN  /\ IsFiniteSet(T) /\ n \in Nat
               /\ \A t \in T : seeding[t] \in 1..n
               /\ \A s \in 1..n : \E t \in T : seeding[t] = s
  <1> DEFINE T == DOMAIN seeding
             n == Cardinality(T)
             image == {seeding[t] : t \in T}
  <1>1. IsFiniteSet(T) /\ n \in Nat
    BY FS_CardinalityType DEF Drawn, Seeded, Numbered
  <1>2. \A s \in 1..n : \E t \in T : seeding[t] = s
    BY DEF Drawn, SeedsHaveHole
  <1>3. 1..n \subseteq image
    BY <1>2
  <1>4. IsFiniteSet(1..n) /\ Cardinality(1..n) = n
    BY <1>1, FS_Interval
  <1>5. IsFiniteSet(image) /\ Cardinality(image) = n
    <2> DEFINE f == [t \in T |-> seeding[t]]
    <2>1. f \in Bijection(T, image)
      <3>1. \A t, u \in T : seeding[t] = seeding[u] => t = u
        BY DEF Drawn, Seeded, Numbered
      <3>2. f \in [T -> image] /\ \A t \in T : f[t] = seeding[t]
        OBVIOUS
      <3>3. \A s \in image : \E t \in T : seeding[t] = s
        OBVIOUS
      <3> HIDE DEF f, T, image
      <3> QED
        BY <3>1, <3>2, <3>3 DEF Bijection, Injection, Surjection, IsInjective
    <2> HIDE DEF f, image, T
    <2> QED
      BY <1>1, <2>1, FS_Bijection DEF ExistsBijection, n
  <1>6. image = 1..n
    <2> HIDE DEF image, n
    <2> QED
      BY <1>3, <1>4, <1>5, FS_Subset
  <1>7. \A t \in T : seeding[t] \in 1..n
    BY <1>6
  <1> QED
    BY <1>1, <1>2, <1>7

\* Every team is the entry of its seed, and beyond the field are byes.
BySeed(entries, seeding, n, w) ==
    /\ \A t \in DOMAIN seeding : seeding[t] \in 1..w /\ entries[seeding[t]] = t
    /\ \A s \in 1..n : s \in 1..w /\ entries[s] \in DOMAIN seeding /\ seeding[entries[s]] = s
    /\ \A s \in 1..w : s > n => entries[s] = Nobody

\* seedMap gives them: every seed has its team, and the rest are byes.
LEMMA EntriesOfDraw ==
    ASSUME NEW seeding, Drawn(seeding), NEW k \in Nat, Cardinality(DOMAIN seeding) <= 2^k
    PROVE  BySeed(Entries(DOMAIN seeding, seeding, k), seeding, Cardinality(DOMAIN seeding), 2^k)
  <1> DEFINE T == DOMAIN seeding
             n == Cardinality(T)
             entries == Entries(T, seeding, k)
  <1>1. /\ n \in Nat /\ \A t \in T : seeding[t] \in 1..n
        /\ \A s \in 1..n : \E t \in T : seeding[t] = s
    BY SeedsOfDraw
  <1>2. T \subseteq Team /\ \A t, u \in T : seeding[t] = seeding[u] => t = u
    BY DEF Drawn, Seeded, Numbered
  <1>3. 2^k \in Nat
    BY PowerIsNat
  <1>4. n <= 2^k
    OBVIOUS
  <1>5. entries = [s \in 1..2^k |-> IF \E t \in T : seeding[t] = s
                      THEN CHOOSE t \in T : seeding[t] = s ELSE Nobody]
    BY DEF Entries
  <1> HIDE DEF T, n, entries
  <1>6. ASSUME NEW t \in T PROVE seeding[t] \in 1..2^k /\ entries[seeding[t]] = t
    <2>1. seeding[t] \in 1..2^k
      BY <1>1, <1>3, <1>4
    <2>2. entries[seeding[t]] = CHOOSE u \in T : seeding[u] = seeding[t]
      BY <1>5, <2>1
    <2> QED
      BY <1>2, <2>1, <2>2
  <1>7. ASSUME NEW s \in 1..n PROVE s \in 1..2^k /\ entries[s] \in T /\ seeding[entries[s]] = s
    BY <1>1, <1>6
  <1>8. ASSUME NEW s \in 1..2^k, s > n PROVE entries[s] = Nobody
    BY <1>1, <1>5, <1>8
  <1> QED
    BY <1>6, <1>7, <1>8 DEF T, n, entries, BySeed

-----------------------------------------------------------------------------
(* Round 1 as it is created *)

EliminationFormat == {"single_elimination", "double_elimination"}

\* The side of the bracket that everybody starts on.
Side(fmt) == IF fmt = "single_elimination" THEN "single" ELSE "winners"

\* Round 1 is the first round of the winners' tree, and of no other part.
LEMMA TreeRounds ==
    ASSUME NEW position, NEW k \in Nat \ {0}
    PROVE  /\ \A m \in TreeMatches(position, k) :
                 /\ m = <<position, m[2], m[3]>> /\ m[2] \in 1..k /\ m[3] \in 1..2^(k - m[2])
           /\ \A r \in 1..k : \A i \in 1..2^(k - r) : <<position, r, i>> \in TreeMatches(position, k)
  <1>1. ASSUME NEW m \in TreeMatches(position, k)
        PROVE  m = <<position, m[2], m[3]>> /\ m[2] \in 1..k /\ m[3] \in 1..2^(k - m[2])
    <2>1. PICK r \in 1..k : m \in {<<position, r, i>> : i \in 1..2^(k - r)}
      BY DEF TreeMatches
    <2>2. PICK i \in 1..2^(k - r) : m = <<position, r, i>>
      BY <2>1
    <2> QED
      BY <2>2
  <1>2. ASSUME NEW r \in 1..k, NEW i \in 1..2^(k - r)
        PROVE  <<position, r, i>> \in TreeMatches(position, k)
    <2>1. <<position, r, i>> \in {<<position, r, j>> : j \in 1..2^(k - r)}
      OBVIOUS
    <2> QED
      BY <2>1 DEF TreeMatches
  <1> QED
    BY <1>1, <1>2

\* Where everybody starts, in a field of n.
FirstOf(fmt, k) == {<<Side(fmt), 1, i>> : i \in 1..2^(k - 1)}

\* The members of the losers bracket.
LEMMA LosersMatchesAre ==
    ASSUME NEW k \in Nat \ {0}
    PROVE  \A m \in LosersMatches(k) :
                 /\ m = <<"losers", m[2], m[3]>>
                 /\ m[2] \in k + 1 .. k + Len(LosersRounds(k))
                 /\ m[3] \in 1..LosersRounds(k)[m[2] - k].size /\ m[3] \in 1..2^k
  <1> DEFINE len == Len(LosersRounds(k))
  <1>1. /\ len \in Nat \ {0} /\ 2^k \in Nat
        /\ \A j \in 1..len : LosersRounds(k)[j].size \in Nat /\ LosersRounds(k)[j].size <= 2^k
    BY LosersRoundsBounded, PowerIsNat
  <1>2. ASSUME NEW m \in LosersMatches(k)
        PROVE  /\ m = <<"losers", m[2], m[3]>> /\ m[2] \in k + 1 .. k + len
               /\ m[3] \in 1..LosersRounds(k)[m[2] - k].size /\ m[3] \in 1..2^k
    <2>1. PICK j \in 1..len : m \in {<<"losers", k + j, i>> : i \in 1..LosersRounds(k)[j].size}
      BY DEF LosersMatches
    <2>2. PICK i \in 1..LosersRounds(k)[j].size : m = <<"losers", k + j, i>>
      BY <2>1
    <2>3. k + j - k = j /\ k + j \in k + 1 .. k + len
      BY <1>1
    <2>4. i \in 1..2^k
      BY <1>1
    <2> HIDE DEF len
    <2> QED
      BY <2>2, <2>3, <2>4
  <1> QED
    BY <1>2

-----------------------------------------------------------------------------
(* The order of the rows: round, then number *)

\* The matches of one side, numbered in that order.
Numbers(ms, W) == [m \in ms |-> m[2] * W + m[3]]

\* Those numbers are in the order of ListByTournament.
LEMMA NumbersInOrder ==
    ASSUME NEW W \in Nat, NEW r \in Nat, NEW q \in Nat, NEW i \in 1..W, NEW j \in 1..W
    PROVE  /\ r * W \in Nat /\ q * W \in Nat
           /\ r < q => r * W + i < q * W + j
  <1>1. r * W \in Nat /\ q * W \in Nat
    OBVIOUS
  <1>2. ASSUME r < q PROVE r * W + i < q * W + j
    <2>1. q - r - 1 \in Nat
      BY <1>2
    <2>2. (q - r - 1) * W \in Nat
      BY <2>1
    <2>3. q * W = r * W + W + (q - r - 1) * W
      BY <2>1
    <2> QED
      BY <1>1, <2>2, <2>3
  <1> QED
    BY <1>1, <1>2

OnOneSide(ms, side, a, W) ==
    \A m \in ms : m = <<side, m[2], m[3]>> /\ m[2] \in 0..a /\ m[3] \in 1..W

\* list has every member of the set once, and they are c.
ListsAll(list, set, c) ==
    /\ IsFiniteSet(set) /\ c \in Nat
    /\ list \in [1..c -> set] /\ Len(list) = c
    /\ \A i, j \in 1..c : list[i] = list[j] => i = j
    /\ \A x \in set : \E i \in 1..c : list[i] = x

\* The list of the matches of one side has each of them once.
LEMMA ListingOfSide ==
    ASSUME NEW ms, NEW side, NEW a \in Nat, NEW W \in Nat, OnOneSide(ms, side, a, W)
    PROVE  ListsAll(ListingOf(ms), ms, Cardinality(ms))
  <1> DEFINE number == Numbers(ms, W)
             top == a * W + W
  <1>0. \A m \in ms : m = <<side, m[2], m[3]>> /\ m[2] \in 0..a /\ m[3] \in 1..W
    BY DEF OnOneSide
  <1>1. DOMAIN number = ms /\ \A m \in ms : number[m] = m[2] * W + m[3]
    BY DEF Numbers
  <1> HIDE DEF number
  <1>2. ASSUME NEW m \in ms, NEW x \in ms
        PROVE  /\ number[m] \in Nat /\ number[m] <= top
               /\ Before(m, x) <=> number[m] < number[x]
               /\ number[m] = number[x] => m = x
    <2>1. m[2] \in Nat /\ x[2] \in Nat /\ m[3] \in 1..W /\ x[3] \in 1..W /\ m[2] <= a
      BY <1>0
    <2>2. m[2] * W \in Nat /\ x[2] * W \in Nat /\ a * W \in Nat
      BY <2>1
    <2>3. /\ m[2] < x[2] => m[2] * W + m[3] < x[2] * W + x[3]
          /\ x[2] < m[2] => x[2] * W + x[3] < m[2] * W + m[3]
      BY <2>1, NumbersInOrder
    <2>4. m[2] = x[2] => m[2] * W = x[2] * W
      OBVIOUS
    <2>5. m[2] * W <= a * W
      <3>1. a - m[2] \in Nat
        BY <2>1
      <3>2. (a - m[2]) * W \in Nat /\ a * W = m[2] * W + (a - m[2]) * W
        BY <2>1, <3>1
      <3> QED
        BY <2>2, <3>2
    <2>6. number[m] \in Nat /\ number[m] <= top
      BY <1>1, <2>1, <2>2, <2>5
    <2>7. Before(m, x) <=> number[m] < number[x]
      BY <1>1, <2>1, <2>2, <2>3, <2>4 DEF Before
    <2>8. number[m] = number[x] => m[2] = x[2] /\ m[3] = x[3]
      BY <1>1, <2>1, <2>2, <2>3, <2>4
    <2> QED
      BY <1>0, <2>6, <2>7, <2>8
  <1>3. IsFiniteSet(ms)
    <2>1. top \in Nat
      <3>1. a * W \in Nat
        OBVIOUS
      <3> QED
        BY <3>1
    <2>2. number \in [ms -> 0..top]
      <3>1. number = [m \in ms |-> number[m]]
        BY DEF number, Numbers
      <3>2. \A m \in ms : number[m] \in 0..top
        BY <1>2, <2>1
      <3> QED
        BY <3>1, <3>2
    <2>3. IsFiniteSet(0..top)
      BY <2>1, FS_Interval
    <2>4. number \in Injection(ms, 0..top)
      BY <1>2, <2>2 DEF Injection, IsInjective
    <2> QED
      BY <2>3, <2>4, FS_Injection
  <1>4. Numbered(number)
    BY <1>1, <1>2, <1>3 DEF Numbered
  <1>5. ASSUME NEW m \in ms
        PROVE  Cardinality({x \in ms : Before(x, m)}) = Cardinality(UpTo(number, m)) - 1
    <2>1. {x \in ms : Before(x, m)} = UpTo(number, m) \ {m}
      <3>1. \A x \in ms : number[x] <= number[m] <=> Before(x, m) \/ x = m
        BY <1>2
      <3>2. ~Before(m, m)
        BY <1>2
      <3> QED
        BY <1>1, <3>1, <3>2 DEF UpTo
    <2>2. m \in UpTo(number, m)
      BY <1>1, <1>2 DEF UpTo
    <2>3. IsFiniteSet(UpTo(number, m))
      BY <1>1, <1>3, FS_Subset DEF UpTo
    <2> QED
      BY <2>1, <2>2, <2>3, FS_RemoveElement
  <1>6. ListingOf(ms) = Listing(number)
    <2> DEFINE c == Cardinality(ms)
    <2>1. ASSUME NEW i \in 1..c, NEW m \in ms
          PROVE  Cardinality({x \in ms : Before(x, m)}) = i - 1 <=> Cardinality(UpTo(number, m)) = i
      <3>1. Cardinality(UpTo(number, m)) \in Nat
        BY <1>1, <1>4, Ranks
      <3> QED
        BY <1>5, <3>1
    <2> DEFINE P(i) == CHOOSE m \in ms : Cardinality({x \in ms : Before(x, m)}) = i - 1
               Q(i) == CHOOSE m \in ms : Cardinality(UpTo(number, m)) = i
    <2>2. \A i \in 1..c : P(i) = Q(i)
      BY <2>1
    <2>3. ListingOf(ms) = [i \in 1..c |-> P(i)]
      BY DEF ListingOf
    <2>4. Listing(number) = [i \in 1..c |-> Q(i)]
      BY <1>1 DEF Listing
    <2> HIDE DEF P, Q
    <2> QED
      BY <2>2, <2>3, <2>4
  <1>7. /\ Cardinality(ms) \in Nat
        /\ ListingOf(ms) \in [1..Cardinality(ms) -> ms]
        /\ \A i, j \in 1..Cardinality(ms) : ListingOf(ms)[i] = ListingOf(ms)[j] => i = j
        /\ \A m \in ms : \E i \in 1..Cardinality(ms) : ListingOf(ms)[i] = m
    BY <1>1, <1>4, <1>6, ListingLists
  <1>8. Len(ListingOf(ms)) = Cardinality(ms)
    BY <1>7
  <1> QED
    BY <1>3, <1>7, <1>8 DEF ListsAll

-----------------------------------------------------------------------------
(* The byes of round 1 *)

\* Seating a team changes no other column.
LEMMA SeatedRow ==
    ASSUME NEW row \in Row, NEW team \in Slot
    PROVE  /\ Seat(row, team) \in Row /\ SoleTeam(row) \in Slot
           /\ Seat(row, team).status = row.status /\ Seat(row, team).winner = row.winner
           /\ Seat(row, team).loser = row.loser /\ Seat(row, team).lead = row.lead
           /\ team # Nobody /\ ~Full(row) => Seated(Seat(row, team)) = Seated(row) \union {team}
  <1>1. \/ Seat(row, team) = row
        \/ Seat(row, team) = [row EXCEPT !.teamA = team]
        \/ Seat(row, team) = [row EXCEPT !.teamB = team]
    BY DEF Seat
  <1>2. /\ Seat(row, team) \in Row
        /\ Seat(row, team).status = row.status /\ Seat(row, team).winner = row.winner
        /\ Seat(row, team).loser = row.loser /\ Seat(row, team).lead = row.lead
    BY <1>1 DEF Row
  <1>3. SoleTeam(row) \in Slot
    BY DEF Row, SoleTeam
  <1>4. ASSUME team # Nobody, ~Full(row) PROVE Seated(Seat(row, team)) = Seated(row) \union {team}
    <2>1. CASE team \in Seated(row)
      BY <2>1 DEF Seat
    <2>2. CASE team \notin Seated(row) /\ row.teamA = Nobody
      <3>1. Seat(row, team) = [row EXCEPT !.teamA = team]
        BY <1>4, <2>2 DEF Seat
      <3>2. Seat(row, team).teamA = team /\ Seat(row, team).teamB = row.teamB
        BY <3>1 DEF Row
      <3> QED
        BY <1>4, <2>2, <3>2 DEF Seated
    <2>3. CASE team \notin Seated(row) /\ row.teamA # Nobody
      <3>1. Seat(row, team) = [row EXCEPT !.teamB = team] /\ row.teamB = Nobody
        BY <1>4, <2>3 DEF Seat, Full
      <3>2. Seat(row, team).teamB = team /\ Seat(row, team).teamA = row.teamA
        BY <3>1 DEF Row
      <3> QED
        BY <1>4, <2>3, <3>1, <3>2 DEF Seated
    <2> QED
      BY <2>1, <2>2, <2>3
  <1> QED
    BY <1>2, <1>3, <1>4

\* A match that is over because it has one team.
Closed(row) == [row EXCEPT !.status = "bye", !.winner = SoleTeam(row)]

\* Winners' links lead out of round 1.
LinksOn(ms, links) ==
    /\ links = [m \in ms |-> links[m]]
    /\ \A m \in ms : links[m] # NoMatch => links[m] \in ms /\ links[m][2] # 1

\* One bye over and its team one match further.
LEMMA MarkAndSeat ==
    ASSUME NEW ms, NEW rows \in [ms -> Row], NEW links, LinksOn(ms, links), NEW m \in ms, m[2] = 1
    PROVE  LET team == SoleTeam(rows[m])
               next == SeatNext(MarkBye(rows, m), links, m, team)
           IN  /\ next \in [ms -> Row]
               /\ next[m] = Closed(rows[m])
               /\ \A x \in ms : x # m /\ x # links[m] => next[x] = rows[x]
               /\ links[m] # NoMatch => next[links[m]] = Seat(rows[links[m]], team)
               /\ links[m] = NoMatch => \A x \in ms : x # m => next[x] = rows[x]
  <1> DEFINE team == SoleTeam(rows[m])
             marked == MarkBye(rows, m)
             next == SeatNext(marked, links, m, team)
  <1>1. rows[m] \in Row /\ team \in Slot
    BY SeatedRow DEF Slot
  <1>2. /\ marked = [rows EXCEPT ![m] = Closed(rows[m])]
    BY DEF MarkBye, Closed
  <1>3. Closed(rows[m]) \in Row
    BY <1>1 DEF Closed, Row, Status
  <1>4. /\ marked \in [ms -> Row] /\ marked[m] = Closed(rows[m])
        /\ \A x \in ms : x # m => marked[x] = rows[x]
    BY <1>2, <1>3
  <1> HIDE DEF marked, team
  <1>5. CASE links[m] = NoMatch
    <2>1. next = marked
      BY <1>5 DEF SeatNext
    <2> HIDE DEF next
    <2>2. /\ next \in [ms -> Row] /\ next[m] = Closed(rows[m])
          /\ \A x \in ms : x # m => next[x] = rows[x]
      BY <1>4, <2>1
    <2> QED
      BY <1>5, <2>2 DEF team, marked, next
  <1>6. CASE links[m] # NoMatch
    <2>1. links[m] \in ms /\ links[m] # m
      BY <1>6 DEF LinksOn
    <2>2. next = [marked EXCEPT ![links[m]] = Seat(@, team)]
      BY <1>6 DEF SeatNext
    <2>3. Seat(marked[links[m]], team) \in Row
      BY <1>1, <1>4, <2>1, SeatedRow
    <2> HIDE DEF next
    <2>4. /\ next \in [ms -> Row] /\ next[m] = Closed(rows[m])
          /\ \A x \in ms : x # m /\ x # links[m] => next[x] = rows[x]
          /\ next[links[m]] = Seat(rows[links[m]], team)
      BY <1>4, <2>1, <2>2, <2>3
    <2> QED
      BY <1>6, <2>4 DEF team, marked, next
  <1> QED
    BY <1>5, <1>6

\* The matches of round 1 with one team.
Byes(rows) == {m \in DOMAIN rows : m[2] = 1 /\ Single(rows[m])}

\* One step of the loop.
OneBye(before, links, m) == SeatNext(MarkBye(before, m), links, m, SoleTeam(before[m]))

\* The rows after each of them.
ByeSteps(after, c, ms, rows, links, byes) ==
    /\ after \in [0..c -> [ms -> Row]] /\ after[0] = rows
    /\ \A i \in 1..c : after[i] = OneBye(after[i - 1], links, byes[i])
    /\ AdvanceByes(rows, links) = after[c]

\* The loop over the byes goes through them.
LEMMA AdvanceLoop ==
    ASSUME NEW ms, NEW rows \in [ms -> Row], NEW links, LinksOn(ms, links),
           NEW c \in Nat, NEW byes \in [1..c -> Byes(rows)], byes = ListingOf(Byes(rows)),
           Len(byes) = c
    PROVE  \E after : ByeSteps(after, c, ms, rows, links, byes)
  <1> DEFINE D == [ms -> Row]
             step == [p \in (1..c) \X D |-> OneBye(p[2], links, byes[p[1]])]
             Steps(f) == f = [i \in 0..c |-> IF i = 0 THEN rows ELSE OneBye(f[i - 1], links, byes[i])]
  <1>1. \A i \in 1..c : byes[i] \in ms /\ byes[i][2] = 1
    BY DEF Byes
  <1>2. step \in [(1..c) \X D -> D]
    <2>1. ASSUME NEW i \in 1..c, NEW f \in D PROVE OneBye(f, links, byes[i]) \in D
      BY <1>1, MarkAndSeat DEF OneBye
    <2> HIDE DEF D
    <2> QED
      BY <2>1
  <1>3. PICK f : BuiltUp(f, c, D, rows, step)
    <2> HIDE DEF step, D
    <2>1. rows \in D
      BY DEF D
    <2> QED
      BY <1>2, <2>1, StepByStep
  <1> HIDE DEF step
  <1>3a. f \in [0..c -> D] /\ f[0] = rows /\ \A i \in 1..c : f[i] = step[<<i, f[i - 1]>>]
    BY <1>3 DEF BuiltUp
  <1> USE DEF step
  <1>4. \A i \in 1..c : f[i] = OneBye(f[i - 1], links, byes[i])
    <2> TAKE i \in 1..c
    <2>1. i - 1 \in 0..c /\ f[i - 1] \in D
      <3> HIDE DEF D, step
      <3>1. i - 1 \in 0..c
        OBVIOUS
      <3> QED
        BY <1>3a, <3>1
    <2>2. <<i, f[i - 1]>> \in (1..c) \X D
      BY <2>1
    <2>3. step[<<i, f[i - 1]>>] = OneBye(f[i - 1], links, byes[i])
      <3> HIDE DEF D
      <3> QED
        BY <2>2
    <2> QED
      BY <1>3a, <2>3
  <1>5. Steps(f)
    <2> DEFINE g == [i \in 0..c |-> IF i = 0 THEN rows ELSE OneBye(f[i - 1], links, byes[i])]
    <2>1. \A i \in 0..c : i = 0 \/ i \in 1..c
      OBVIOUS
    <2>2. \A i \in 0..c : f[i] = g[i]
      BY <1>3a, <1>4, <2>1
    <2>3. f = [i \in 0..c |-> f[i]]
      BY <1>3a
    <2>4. g = [i \in 0..c |-> g[i]]
      OBVIOUS
    <2> HIDE DEF g
    <2>5. f = g
      BY <2>2, <2>3, <2>4
    <2> QED
      BY <2>5 DEF g
  <1> DEFINE chosen == CHOOSE g : Steps(g)
  <1>6. Steps(chosen)
    <2> HIDE DEF Steps
    <2> QED
      BY <1>5
  <1>7. AdvanceByes(rows, links) = chosen[c]
    <2>1. {m \in DOMAIN rows : m[2] = 1 /\ Single(rows[m])} = Byes(rows)
      BY DEF Byes
    <2> QED
      BY <2>1 DEF AdvanceByes, OneBye
  <1>8. \A i \in 0..c : chosen[i] = IF i = 0 THEN rows ELSE OneBye(chosen[i - 1], links, byes[i])
    <2> HIDE DEF chosen
    <2> QED
      BY <1>6
  <1> HIDE DEF Steps, chosen
  <1> DEFINE S == {i \in Nat : chosen[i] = f[i]}
  <1>9. 0 \in S
    <2>1. 0 \in 0..c
      OBVIOUS
    <2> QED
      BY <1>3a, <1>8, <2>1
  <1>10. ASSUME NEW i \in 0..c, i \in S, i + 1 <= c PROVE i + 1 \in S
    <2>1. i + 1 \in 0..c /\ i + 1 \in 1..c /\ i + 1 # 0 /\ (i + 1) - 1 = i
      <3> HIDE DEF S, D, step
      <3> QED
        BY <1>10
    <2> QED
      BY <1>4, <1>8, <1>10, <2>1
  <1>11. c \in S
    <2> HIDE DEF S
    <2>1. c \in 0..c
      OBVIOUS
    <2> QED
      BY <1>9, <1>10, <2>1, Climb
  <1>12. chosen[c] = f[c]
    BY <1>11
  <1> QED
    BY <1>3a, <1>4, <1>7, <1>12 DEF ByeSteps

\* The rows when some of the byes have been seen to: these are over, and the
\* teams they had sit in the matches that follow.
SentTo(rows, links, done, x) == {SoleTeam(rows[m]) : m \in {d \in done : links[d] = x /\ x # NoMatch}}

ByesDone(ms, rows, links, done, now) ==
    /\ now \in [ms -> Row]
    /\ \A m \in ms : m[2] = 1 => now[m] = IF m \in done THEN Closed(rows[m]) ELSE rows[m]
    /\ \A x \in ms : x[2] # 1 =>
          /\ now[x].status = "pending" /\ now[x].winner = Nobody
          /\ now[x].loser = Nobody /\ now[x].lead = "unset"
          /\ Seated(now[x]) = SentTo(rows, links, done, x)
          /\ Full(now[x]) => now[x].teamA # now[x].teamB

\* The rows as created: the later matches are empty, no two byes have the same
\* team, and no three lead to the same match.
ReadyForByes(ms, rows, links) ==
    /\ rows \in [ms -> Row] /\ LinksOn(ms, links)
    /\ \A x \in ms : x[2] # 1 => rows[x] = EmptyRow
    /\ \A m, d \in Byes(rows) : SoleTeam(rows[m]) = SoleTeam(rows[d]) => m = d
    /\ \A m, d, e \in Byes(rows) :
          links[m] # NoMatch /\ links[m] = links[d] /\ links[m] = links[e] => m = d \/ d = e \/ m = e

\* One more of them.
LEMMA OneByeMore ==
    ASSUME NEW ms, NEW rows, NEW links, ReadyForByes(ms, rows, links), NEW done, done \subseteq Byes(rows),
           NEW now, ByesDone(ms, rows, links, done, now), NEW m \in Byes(rows), m \notin done
    PROVE  ByesDone(ms, rows, links, done \union {m}, OneBye(now, links, m))
  <1> DEFINE team == SoleTeam(rows[m])
             next == OneBye(now, links, m)
             more == done \union {m}
  <1>1. m \in ms /\ m[2] = 1 /\ Single(rows[m]) /\ rows[m] \in Row /\ now \in [ms -> Row]
    BY DEF Byes, ReadyForByes, ByesDone
  <1>2. now[m] = rows[m] /\ LinksOn(ms, links)
    BY <1>1 DEF ByesDone, ReadyForByes
  <1>3. team # Nobody /\ team \in Slot
    BY <1>1, SeatedRow DEF Single, SoleTeam, Slot
  <1>4. /\ next \in [ms -> Row] /\ next[m] = Closed(rows[m])
        /\ \A x \in ms : x # m /\ x # links[m] => next[x] = now[x]
        /\ links[m] # NoMatch => next[links[m]] = Seat(now[links[m]], team)
        /\ links[m] = NoMatch => \A x \in ms : x # m => next[x] = now[x]
    <2>1. next = SeatNext(MarkBye(now, m), links, m, SoleTeam(now[m]))
      BY DEF OneBye
    <2> QED
      BY <1>1, <1>2, <2>1, MarkAndSeat
  <1>5. links[m] # NoMatch => links[m] \in ms /\ links[m][2] # 1
    BY <1>1, <1>2 DEF LinksOn
  <1> HIDE DEF team, next
  <1>6. ASSUME NEW x \in ms, x[2] = 1
        PROVE  next[x] = IF x \in more THEN Closed(rows[x]) ELSE rows[x]
    <2>1. now[x] = IF x \in done THEN Closed(rows[x]) ELSE rows[x]
      BY <1>6 DEF ByesDone
    <2>2. CASE x = m
      BY <1>4, <2>2
    <2>3. CASE x # m
      <3>1. next[x] = now[x]
        BY <1>4, <1>5, <1>6, <2>3
      <3> QED
        BY <2>1, <2>3, <3>1
    <2> QED
      BY <2>2, <2>3
  <1>7. ASSUME NEW x \in ms, x[2] # 1
        PROVE  /\ next[x].status = "pending" /\ next[x].winner = Nobody
               /\ next[x].loser = Nobody /\ next[x].lead = "unset"
               /\ Seated(next[x]) = SentTo(rows, links, more, x)
               /\ Full(next[x]) => next[x].teamA # next[x].teamB
    <2>1. /\ now[x] \in Row /\ now[x].status = "pending" /\ now[x].winner = Nobody
          /\ now[x].loser = Nobody /\ now[x].lead = "unset"
          /\ Seated(now[x]) = SentTo(rows, links, done, x)
          /\ Full(now[x]) => now[x].teamA # now[x].teamB
      BY <1>7 DEF ByesDone
    <2>2. x # m
      BY <1>1, <1>7
    <2>3. CASE links[m] # x
      <3>1. next[x] = now[x]
        BY <1>4, <2>2, <2>3
      <3>2. {d \in more : links[d] = x /\ x # NoMatch} = {d \in done : links[d] = x /\ x # NoMatch}
        BY <2>3
      <3>3. SentTo(rows, links, more, x) = SentTo(rows, links, done, x)
        BY <3>2 DEF SentTo
      <3> QED
        BY <2>1, <3>1, <3>3
    <2>4. CASE links[m] = x /\ x = NoMatch
      <3>1. next[x] = now[x]
        BY <1>4, <2>2, <2>4
      <3>2. SentTo(rows, links, more, x) = SentTo(rows, links, done, x)
        BY <2>4 DEF SentTo
      <3> QED
        BY <2>1, <3>1, <3>2
    <2>5. CASE links[m] = x /\ x # NoMatch
      <3>1. next[x] = Seat(now[x], team)
        BY <1>4, <2>5
      <3>2. {d \in more : links[d] = x /\ x # NoMatch} = {d \in done : links[d] = x /\ x # NoMatch} \union {m}
        BY <2>5
      <3>3. SentTo(rows, links, more, x) = SentTo(rows, links, done, x) \union {team}
        BY <3>2 DEF SentTo, team
      <3>4. ~Full(now[x])
        <4> SUFFICES ASSUME Full(now[x]) PROVE FALSE
          OBVIOUS
        <4>1. now[x].teamA \in Seated(now[x]) /\ now[x].teamB \in Seated(now[x])
          BY DEF Full, Seated
        <4>2. PICK d \in done : links[d] = x /\ SoleTeam(rows[d]) = now[x].teamA
          BY <2>1, <4>1 DEF SentTo
        <4>3. PICK e \in done : links[e] = x /\ SoleTeam(rows[e]) = now[x].teamB
          BY <2>1, <4>1 DEF SentTo
        <4>4. d # e /\ d # m /\ e # m
          BY <2>1, <4>2, <4>3
        <4> QED
          BY <2>5, <4>2, <4>3, <4>4 DEF ReadyForByes
      <3>5. Seated(next[x]) = Seated(now[x]) \union {team}
        BY <1>3, <2>1, <3>1, <3>4, SeatedRow, ZenonT(60)
      <3>6. Full(next[x]) => next[x].teamA # next[x].teamB
        <4> SUFFICES ASSUME Full(next[x]) PROVE next[x].teamA # next[x].teamB
          OBVIOUS
        <4>1. team \notin Seated(now[x])
          BY <3>1, <3>4 DEF Seat
        <4>2. CASE now[x].teamA = Nobody
          <5>1. next[x] = [now[x] EXCEPT !.teamA = team]
            BY <3>1, <3>4, <4>1, <4>2 DEF Seat
          <5>2. next[x].teamA = team /\ next[x].teamB = now[x].teamB
            BY <2>1, <5>1 DEF Row
          <5> QED
            BY <1>3, <4>1, <5>2 DEF Seated, Full
        <4>3. CASE now[x].teamA # Nobody
          <5>1. next[x] = [now[x] EXCEPT !.teamB = team]
            BY <3>1, <3>4, <4>1, <4>3 DEF Seat
          <5>2. next[x].teamB = team /\ next[x].teamA = now[x].teamA
            BY <2>1, <5>1 DEF Row
          <5> QED
            BY <1>3, <4>1, <4>3, <5>2 DEF Seated, Full
        <4> QED
          BY <4>2, <4>3
      <3>7. /\ next[x].status = now[x].status /\ next[x].winner = now[x].winner
            /\ next[x].loser = now[x].loser /\ next[x].lead = now[x].lead
        <4> DEFINE row == now[x]
        <4>1. row \in Row /\ team \in Slot
          BY <1>3, <2>1
        <4> HIDE DEF row
        <4>2. /\ Seat(row, team).status = row.status /\ Seat(row, team).winner = row.winner
              /\ Seat(row, team).loser = row.loser /\ Seat(row, team).lead = row.lead
          BY <4>1, SeatedRow
        <4> QED
          BY <3>1, <4>2 DEF row
      <3> QED
        BY <2>1, <3>3, <3>5, <3>6, <3>7
    <2> QED
      BY <2>3, <2>4, <2>5
  <1> QED
    BY <1>4, <1>6, <1>7 DEF ByesDone, next, team

\* When the loop has ended.
LEMMA AfterByes ==
    ASSUME NEW ms, NEW rows, NEW links, ReadyForByes(ms, rows, links),
           NEW c, NEW byes, byes = ListingOf(Byes(rows)), ListsAll(byes, Byes(rows), c)
    PROVE  ByesDone(ms, rows, links, Byes(rows), AdvanceByes(rows, links))
  <1>0. /\ c \in Nat /\ byes \in [1..c -> Byes(rows)] /\ Len(byes) = c
        /\ \A i, j \in 1..c : byes[i] = byes[j] => i = j
        /\ \A m \in Byes(rows) : \E i \in 1..c : byes[i] = m
    BY DEF ListsAll
  <1>1a. PICK after : ByeSteps(after, c, ms, rows, links, byes)
    <2>1. rows \in [ms -> Row] /\ LinksOn(ms, links)
      BY DEF ReadyForByes
    <2> QED
      BY <1>0, <2>1, AdvanceLoop
  <1>1. /\ after \in [0..c -> [ms -> Row]] /\ after[0] = rows
        /\ \A i \in 1..c : after[i] = OneBye(after[i - 1], links, byes[i])
        /\ AdvanceByes(rows, links) = after[c]
    BY <1>1a DEF ByeSteps
  <1> DEFINE Upto(i) == {byes[j] : j \in 1..i}
             S == {i \in Nat : ByesDone(ms, rows, links, Upto(i), after[i])}
  <1>2. 0 \in S
    <2>1. Upto(0) = {} /\ rows \in [ms -> Row]
      BY DEF ReadyForByes
    <2>2. \A x \in ms : x[2] # 1 => rows[x] = EmptyRow
      BY DEF ReadyForByes
    <2>3. EmptyRow.status = "pending" /\ EmptyRow.winner = Nobody /\ EmptyRow.loser = Nobody
             /\ EmptyRow.lead = "unset" /\ Seated(EmptyRow) = {} /\ ~Full(EmptyRow)
      BY DEF EmptyRow, Seated, Full
    <2>4. \A x : SentTo(rows, links, {}, x) = {}
      BY DEF SentTo
    <2>5. ByesDone(ms, rows, links, {}, rows)
      BY <2>1, <2>2, <2>3, <2>4 DEF ByesDone
    <2> QED
      BY <1>1, <2>1, <2>5
  <1>3. ASSUME NEW i \in 0..c, i \in S, i + 1 <= c PROVE i + 1 \in S
    <2>1. i + 1 \in 1..c /\ (i + 1) - 1 = i /\ i + 1 \in Nat
      <3> HIDE DEF S
      <3> QED
        BY <1>0, <1>3
    <2>2. Upto(i) \subseteq Byes(rows) /\ byes[i + 1] \in Byes(rows) /\ byes[i + 1] \notin Upto(i)
      <3>1. \A j \in 1..i : j \in 1..c /\ j # i + 1
        BY <1>0, <2>1
      <3> HIDE DEF S
      <3> QED
        BY <1>0, <2>1, <3>1
    <2>3. Upto(i + 1) = Upto(i) \union {byes[i + 1]}
      <3>1. \A j : j \in 1..i + 1 <=> j \in 1..i \/ j = i + 1
        BY <2>1
      <3> HIDE DEF S
      <3> QED
        BY <3>1
    <2>4. after[i + 1] = OneBye(after[i], links, byes[i + 1])
      BY <1>1, <2>1
    <2>5. ByesDone(ms, rows, links, Upto(i), after[i])
      BY <1>3
    <2> HIDE DEF Upto
    <2>6. ByesDone(ms, rows, links, Upto(i) \union {byes[i + 1]}, OneBye(after[i], links, byes[i + 1]))
      BY <2>2, <2>5, OneByeMore
    <2> QED
      BY <2>1, <2>3, <2>4, <2>6
  <1>4. c \in S
    <2> HIDE DEF S
    <2>1. c \in 0..c
      BY <1>0
    <2> QED
      BY <1>0, <1>2, <1>3, <2>1, Climb
  <1>5. Upto(c) = Byes(rows)
    BY <1>0
  <1> HIDE DEF Upto
  <1> QED
    BY <1>1, <1>4, <1>5

\* A winner goes to the match it feeds, if there is one.
LEMMA LinkIs ==
    ASSUME NEW fmt \in EliminationFormat, NEW k, NEW ms, NEW m \in ms
    PROVE  LET next == WinnerLinks(fmt, k, ms)[m]
           IN  \/ next \in ms /\ m \in WinnerFeeders(k, next)
               \/ next = NoMatch /\ \A x \in ms : m \notin WinnerFeeders(k, x)
  <1>1. WinnerLinks(fmt, k, ms)[m] =
          IF \E x \in ms : m \in WinnerFeeders(k, x) THEN CHOOSE x \in ms : m \in WinnerFeeders(k, x)
                                                     ELSE NoMatch
    BY DEF WinnerLinks, Target, EliminationFormat
  <1> QED
    BY <1>1

\* The matches of an elimination bracket, side by side.
LEMMA MatchesAre ==
    ASSUME NEW fmt \in EliminationFormat, NEW k \in Nat \ {0}, NEW n
    PROVE  LET ms == MatchesOf(fmt, k, n)
           IN  /\ fmt = "single_elimination" => ms = TreeMatches("single", k)
               /\ fmt = "double_elimination" =>
                     ms = TreeMatches("winners", k) \union LosersMatches(k) \union {GrandFinal(k)}
               /\ TreeMatches(Side(fmt), k) \subseteq ms
               /\ \A m \in ms : \/ m \in TreeMatches(Side(fmt), k)
                                \/ m \in LosersMatches(k) /\ fmt = "double_elimination"
                                \/ m = GrandFinal(k) /\ fmt = "double_elimination"
  BY DEF MatchesOf, EliminationFormat, Side

\* The grand final comes after both sides.
LEMMA GrandFinalIs ==
    ASSUME NEW k \in Nat \ {0}
    PROVE  /\ GrandFinal(k)[1] = "grand_final" /\ GrandFinal(k)[3] = 1
           /\ GrandFinal(k)[2] = k + Len(LosersRounds(k)) + 1 /\ GrandFinal(k)[2] \in Nat
           /\ GrandFinal(k)[2] >= k + 2
  BY LosersRoundsBounded DEF GrandFinal

\* Round 1 is where everybody starts; nobody is sent there.
LEMMA FirstRoundIs ==
    ASSUME NEW fmt \in EliminationFormat, NEW k \in Nat \ {0}, NEW n
    PROVE  LET ms == MatchesOf(fmt, k, n)
           IN  /\ \A m \in ms : m = <<m[1], m[2], m[3]>> /\ m[2] \in Nat \ {0}
               /\ {m \in ms : m[2] = 1} = FirstOf(fmt, k)
               /\ {m \in ms : m[1] = "losers"} =
                     IF fmt = "double_elimination" THEN LosersMatches(k) ELSE {}
               /\ \A x \in ms : \A m \in WinnerFeeders(k, x) : x[2] # 1
  <1> DEFINE ms == MatchesOf(fmt, k, n)
             tree == TreeMatches(Side(fmt), k)
  <1>1. /\ tree \subseteq ms
        /\ \A m \in ms : \/ m \in tree
                         \/ m \in LosersMatches(k) /\ fmt = "double_elimination"
                         \/ m = GrandFinal(k) /\ fmt = "double_elimination"
    BY MatchesAre
  <1>2. \A m \in tree : m = <<Side(fmt), m[2], m[3]>> /\ m[2] \in 1..k /\ m[3] \in 1..2^(k - m[2])
    BY TreeRounds
  <1>3. \A m \in LosersMatches(k) : m = <<"losers", m[2], m[3]>> /\ m[2] \in Nat /\ m[2] >= k + 1
    <2>1. Len(LosersRounds(k)) \in Nat
      BY LosersRoundsBounded
    <2> QED
      BY <2>1, LosersMatchesAre
  <1>4. /\ GrandFinal(k) = <<"grand_final", GrandFinal(k)[2], GrandFinal(k)[3]>>
        /\ GrandFinal(k)[2] \in Nat /\ GrandFinal(k)[2] >= k + 2
    BY GrandFinalIs DEF GrandFinal
  <1>5. Side(fmt) \in {"single", "winners"}
    BY DEF Side
  <1> HIDE DEF ms, tree
  <1>6. \A m \in ms : m = <<m[1], m[2], m[3]>> /\ m[2] \in Nat \ {0}
    BY <1>1, <1>2, <1>3, <1>4
  <1>7. {m \in ms : m[2] = 1} = FirstOf(fmt, k)
    <2>1. ASSUME NEW m \in ms, m[2] = 1 PROVE m \in FirstOf(fmt, k)
      <3>1. m \in tree
        BY <1>1, <1>3, <1>4, <2>1
      <3>2. m = <<Side(fmt), 1, m[3]>> /\ m[3] \in 1..2^(k - 1)
        BY <1>2, <2>1, <3>1
      <3> QED
        BY <3>2 DEF FirstOf
    <2>2. ASSUME NEW m \in FirstOf(fmt, k) PROVE m \in ms /\ m[2] = 1
      <3>1. PICK i \in 1..2^(k - 1) : m = <<Side(fmt), 1, i>>
        BY DEF FirstOf
      <3>2. m \in tree
        <4>1. 1 \in 1..k
          OBVIOUS
        <4> QED
          BY <3>1, <4>1, TreeRounds DEF tree
      <3> QED
        BY <1>1, <3>1, <3>2
    <2> QED
      BY <2>1, <2>2
  <1>8. {m \in ms : m[1] = "losers"} = IF fmt = "double_elimination" THEN LosersMatches(k) ELSE {}
    <2>1. ASSUME NEW m \in ms, m[1] = "losers" PROVE m \in LosersMatches(k) /\ fmt = "double_elimination"
      BY <1>1, <1>2, <1>4, <1>5, <2>1
    <2>2. ASSUME NEW m \in LosersMatches(k), fmt = "double_elimination" PROVE m \in ms /\ m[1] = "losers"
      BY <1>3, <2>2, MatchesAre DEF ms
    <2> QED
      BY <2>1, <2>2
  <1>9. ASSUME NEW x \in ms, NEW m \in WinnerFeeders(k, x) PROVE x[2] # 1
    <2>1. CASE x \in tree
      <3>1. x[1] \in {"single", "winners"}
        BY <1>2, <1>5, <2>1
      <3> QED
        BY <1>9, <3>1 DEF WinnerFeeders
    <2>2. CASE x \in LosersMatches(k) \/ x = GrandFinal(k)
      BY <1>3, <1>4, <2>2
    <2> QED
      BY <1>1, <2>1, <2>2
  <1> QED
    BY <1>6, <1>7, <1>8, <1>9 DEF ms

\* What feeds a match from the winners' side: a pair, or the last winner.
LEMMA FedFromTheTree ==
    ASSUME NEW fmt \in EliminationFormat, NEW k \in Nat \ {0}, NEW n,
           NEW x \in MatchesOf(fmt, k, n), NEW m \in WinnerFeeders(k, x), m[1] = Side(fmt)
    PROVE  \/ x[1] = Side(fmt) /\ x[2] # 1 /\ m \in Pair(Side(fmt), x[2] - 1, x[3])
           \/ x = GrandFinal(k) /\ m = <<"winners", k, 1>>
  <1>1. CASE x \in TreeMatches(Side(fmt), k)
    <2>1. x[1] = Side(fmt) /\ x[1] \in {"single", "winners"}
      BY <1>1, TreeRounds DEF Side
    <2> QED
      BY <2>1 DEF WinnerFeeders
  <1>2. CASE x \in LosersMatches(k)
    <2>1. x[1] = "losers"
      BY <1>2, LosersMatchesAre
    <2>2. m[1] = "losers"
      BY <2>1 DEF WinnerFeeders, Pair
    <2> QED
      BY <2>2 DEF Side
  <1>3. CASE x = GrandFinal(k) /\ fmt = "double_elimination"
    <2>1. x[1] = "grand_final" /\ m[1] = "winners"
      BY <1>3 DEF GrandFinal, Side
    <2> QED
      BY <1>3, <2>1 DEF WinnerFeeders
  <1> QED
    BY <1>1, <1>2, <1>3, MatchesAre

\* A match of round 1 pairs the seed top[i] with its complement, who may be
\* missing; the rest is empty.
FirstRows(seeding, fmt, k, n, ms, rows, top) ==
    /\ rows \in [ms -> Row]
    /\ \A x \in ms : x[2] # 1 => rows[x] = EmptyRow
    /\ \A i \in 1..2^(k - 1) :
          LET row == rows[<<Side(fmt), 1, i>>]
          IN  /\ top[i] \in 1..n /\ row.teamA \in DOMAIN seeding /\ seeding[row.teamA] = top[i]
              /\ IF 2^k + 1 - top[i] <= n
                 THEN row.teamB \in DOMAIN seeding /\ seeding[row.teamB] = 2^k + 1 - top[i]
                 ELSE row.teamB = Nobody
              /\ row.status = "pending" /\ row.winner = Nobody
              /\ row.loser = Nobody /\ row.lead = "unset"

\* The rows as the elimination generators create them.
LEMMA CreatedRows ==
    ASSUME NEW seeding, Drawn(seeding), NEW fmt \in EliminationFormat
    PROVE  LET n == Cardinality(DOMAIN seeding)
               k == Exponent(n)
               ms == MatchesOf(fmt, k, n)
               rows == Created(fmt, k, n, ms, Entries(DOMAIN seeding, seeding, k))
           IN  \E top : Permuted(top, 2^(k - 1)) /\ top = SlotTable(k)[k - 1]
                        /\ FirstRows(seeding, fmt, k, n, ms, rows, top)
  <1> DEFINE T == DOMAIN seeding
             n == Cardinality(T)
             k == Exponent(n)
             half == 2^(k - 1)
             ms == MatchesOf(fmt, k, n)
             entries == Entries(T, seeding, k)
             rows == Created(fmt, k, n, ms, entries)
  <1>1. n \in Nat /\ n >= 2
    BY SeedsOfDraw DEF Drawn
  <1>2. k \in Nat \ {0} /\ n <= 2^k /\ half < n /\ half \in Nat \ {0} /\ 2^k = 2 * half
    <2> HIDE DEF n
    <2> QED
      BY <1>1, ExponentFits
  <1>3. PICK top : /\ Permuted(top, half) /\ top = SlotTable(k)[k - 1]
                   /\ StandardSeedPairing(k) = [i \in 1..half |-> <<top[i], 2^k + 1 - top[i]>>]
    <2> HIDE DEF k
    <2> QED
      BY <1>2, Pairings
  <1>4. /\ \A s \in 1..n : s \in 1..2^k /\ entries[s] \in T /\ seeding[entries[s]] = s
        /\ \A s \in 1..2^k : s > n => entries[s] = Nobody
    <2>1. k \in Nat /\ Cardinality(DOMAIN seeding) <= 2^k
      BY <1>2
    <2>2. BySeed(entries, seeding, n, 2^k)
      <3> HIDE DEF k
      <3> QED
        BY <2>1, EntriesOfDraw
    <2> HIDE DEF k, entries, n
    <2> QED
      BY <2>2 DEF BySeed
  <1>5. T \subseteq Team
    <2> HIDE DEF k, n, entries, ms, rows
    <2> QED
      BY SMTT(30) DEF Drawn, Seeded
  <1>6. {m \in ms : m[2] = 1} = FirstOf(fmt, k)
    <2> HIDE DEF k, n, entries, rows
    <2>1. k \in Nat \ {0}
      BY <1>2
    <2> QED
      BY <2>1, FirstRoundIs, SMTT(30)
  <1>7. rows = [m \in ms |-> IF m[2] = 1
                  THEN [EmptyRow EXCEPT !.teamA = entries[top[m[3]]], !.teamB = entries[2^k + 1 - top[m[3]]]]
                  ELSE EmptyRow]
    <2>1. fmt # "round_robin"
      BY DEF EliminationFormat
    <2>2. \A m \in ms : m[2] = 1 => m[3] \in 1..half
      BY <1>6 DEF FirstOf
    <2>3. \A m \in ms : m[2] = 1 => /\ StandardSeedPairing(k)[m[3]][1] = top[m[3]]
                                    /\ StandardSeedPairing(k)[m[3]][2] = 2^k + 1 - top[m[3]]
      <3> HIDE DEF ms, k, half
      <3> QED
        BY <1>3, <2>2
    <2>4. rows = [m \in ms |-> IF m[2] = 1
                  THEN [EmptyRow EXCEPT !.teamA = entries[StandardSeedPairing(k)[m[3]][1]],
                                        !.teamB = entries[StandardSeedPairing(k)[m[3]][2]]]
                  ELSE EmptyRow]
      <3> HIDE DEF ms, k, n, T, half, entries
      <3> QED
        BY <2>1 DEF Created, rows
    <2> HIDE DEF rows, ms, k, entries
    <2> QED
      BY <2>3, <2>4, Zenon
  <1> HIDE DEF rows, ms, k, entries, n, T, half
  <1>8. ASSUME NEW i \in 1..half
        PROVE  /\ top[i] \in 1..n /\ top[i] \in 1..half
               /\ 2^k + 1 - top[i] \in 1..2^k
               /\ entries[top[i]] \in T /\ seeding[entries[top[i]]] = top[i]
               /\ IF 2^k + 1 - top[i] <= n
                  THEN /\ entries[2^k + 1 - top[i]] \in T
                       /\ seeding[entries[2^k + 1 - top[i]]] = 2^k + 1 - top[i]
                  ELSE entries[2^k + 1 - top[i]] = Nobody
    <2>1. top[i] \in 1..half
      BY <1>3 DEF Permuted
    <2>2. top[i] \in 1..n /\ 2^k + 1 - top[i] \in 1..2^k
      BY <1>1, <1>2, <2>1
    <2>3. 2^k + 1 - top[i] <= n => 2^k + 1 - top[i] \in 1..n
      BY <1>1, <2>2
    <2>4. ~(2^k + 1 - top[i] <= n) => 2^k + 1 - top[i] > n
      BY <1>1, <1>2, <2>2
    <2> QED
      BY <1>4, <2>1, <2>2, <2>3, <2>4
  <1>9. \A m \in ms : m[2] = 1 => m[3] \in 1..half
    BY <1>6 DEF FirstOf, half
  <1>10. EmptyRow \in Row
    BY DEF EmptyRow, Row, Slot, Status, Lead
  <1>11. rows \in [ms -> Row]
    <2>1. \A i \in 1..half : entries[top[i]] \in Slot /\ entries[2^k + 1 - top[i]] \in Slot
      BY <1>5, <1>8 DEF Slot
    <2>2. \A a, b \in Slot : [EmptyRow EXCEPT !.teamA = a, !.teamB = b] \in Row
      BY <1>10 DEF EmptyRow, Row
    <2> QED
      BY <1>7, <1>9, <1>10, <2>1, <2>2
  <1>12. ASSUME NEW i \in 1..half
         PROVE  LET row == rows[<<Side(fmt), 1, i>>]
                IN  /\ row.teamA = entries[top[i]] /\ row.teamB = entries[2^k + 1 - top[i]]
                    /\ row.status = "pending" /\ row.winner = Nobody
                    /\ row.loser = Nobody /\ row.lead = "unset"
    <2> DEFINE m == <<Side(fmt), 1, i>>
    <2>1. m \in ms /\ m[2] = 1 /\ m[3] = i
      BY <1>6 DEF FirstOf, half
    <2> HIDE DEF m
    <2>2. rows[m] = [EmptyRow EXCEPT !.teamA = entries[top[i]], !.teamB = entries[2^k + 1 - top[i]]]
      BY <1>7, <2>1
    <2>3. /\ rows[m].teamA = entries[top[i]] /\ rows[m].teamB = entries[2^k + 1 - top[i]]
          /\ rows[m].status = "pending" /\ rows[m].winner = Nobody
          /\ rows[m].loser = Nobody /\ rows[m].lead = "unset"
      BY <2>2 DEF EmptyRow
    <2> QED
      BY <2>3 DEF m
  <1>13. FirstRows(seeding, fmt, k, n, ms, rows, top)
    <2>1. \A x \in ms : x[2] # 1 => rows[x] = EmptyRow
      BY <1>7
    <2> QED
      BY <1>8, <1>11, <1>12, <2>1 DEF FirstRows, T, half
  <1> QED
    BY <1>3, <1>13 DEF rows, ms, k, entries, n, T, half

\* The byes are the matches whose complement is missing.
LEMMA ByesOfRound ==
    ASSUME NEW seeding, Drawn(seeding), NEW fmt, NEW k, NEW n, NEW ms, NEW rows, NEW top,
           {m \in ms : m[2] = 1} = FirstOf(fmt, k),
           FirstRows(seeding, fmt, k, n, ms, rows, top)
    PROVE  /\ Byes(rows) = {<<Side(fmt), 1, i>> : i \in {j \in 1..2^(k - 1) : ~(2^k + 1 - top[j] <= n)}}
           /\ \A m \in FirstOf(fmt, k) : SoleTeam(rows[m]) = rows[m].teamA /\ rows[m].teamA # Nobody
  <1>1. Nobody \notin DOMAIN seeding
    BY NobodyIsNoTeam DEF Drawn, Seeded
  <1>2. ASSUME NEW i \in 1..2^(k - 1)
        PROVE  LET row == rows[<<Side(fmt), 1, i>>]
               IN  /\ row.teamA # Nobody
                   /\ Single(row) <=> ~(2^k + 1 - top[i] <= n)
    BY <1>1 DEF FirstRows, Single
  <1>3. DOMAIN rows = ms
    BY DEF FirstRows
  <1>4. Byes(rows) = {m \in FirstOf(fmt, k) : Single(rows[m])}
    BY <1>3 DEF Byes
  <1>5. \A m \in FirstOf(fmt, k) : \E i \in 1..2^(k - 1) : m = <<Side(fmt), 1, i>>
    BY DEF FirstOf
  <1>6. \A i \in 1..2^(k - 1) : <<Side(fmt), 1, i>> \in FirstOf(fmt, k)
    BY DEF FirstOf
  <1>7. ASSUME NEW m \in Byes(rows)
        PROVE  \E i \in {j \in 1..2^(k - 1) : ~(2^k + 1 - top[j] <= n)} : m = <<Side(fmt), 1, i>>
    <2>1. PICK i \in 1..2^(k - 1) : m = <<Side(fmt), 1, i>>
      BY <1>4, <1>5
    <2> QED
      BY <1>2, <1>4, <2>1
  <1>8. ASSUME NEW i \in {j \in 1..2^(k - 1) : ~(2^k + 1 - top[j] <= n)}
        PROVE  <<Side(fmt), 1, i>> \in Byes(rows)
    BY <1>2, <1>4, <1>6
  <1>9. \A m \in FirstOf(fmt, k) : SoleTeam(rows[m]) = rows[m].teamA /\ rows[m].teamA # Nobody
    BY <1>2, <1>5 DEF SoleTeam
  <1> QED
    BY <1>7, <1>8, <1>9

\* What GenerateBracket makes of a draw before it looks for empty losers
\* matches: the byes of round 1 are over and their teams one round further.
LEMMA Advanced ==
    ASSUME NEW seeding, Drawn(seeding), NEW fmt \in EliminationFormat
    PROVE  LET n == Cardinality(DOMAIN seeding)
               k == Exponent(n)
               ms == MatchesOf(fmt, k, n)
               links == WinnerLinks(fmt, k, ms)
               rows == Created(fmt, k, n, ms, Entries(DOMAIN seeding, seeding, k))
           IN  \E top : /\ Permuted(top, 2^(k - 1)) /\ top = SlotTable(k)[k - 1]
                        /\ FirstRows(seeding, fmt, k, n, ms, rows, top)
                        /\ LinksOn(ms, links)
                        /\ Byes(rows) = {<<Side(fmt), 1, i>> : i \in {j \in 1..2^(k - 1) : ~(2^k + 1 - top[j] <= n)}}
                        /\ \A m \in FirstOf(fmt, k) : SoleTeam(rows[m]) = rows[m].teamA /\ rows[m].teamA # Nobody
                        /\ ByesDone(ms, rows, links, Byes(rows), AdvanceByes(rows, links))
  <1> DEFINE n == Cardinality(DOMAIN seeding)
             k == Exponent(n)
             half == 2^(k - 1)
             ms == MatchesOf(fmt, k, n)
             links == WinnerLinks(fmt, k, ms)
             rows == Created(fmt, k, n, ms, Entries(DOMAIN seeding, seeding, k))
  <1>1. n \in Nat /\ n >= 2
    BY SeedsOfDraw DEF Drawn
  <1>2. k \in Nat \ {0} /\ half \in Nat \ {0}
    <2> HIDE DEF n
    <2> QED
      BY <1>1, ExponentFits
  <1>3. PICK top : /\ Permuted(top, half) /\ top = SlotTable(k)[k - 1]
                   /\ FirstRows(seeding, fmt, k, n, ms, rows, top)
    BY CreatedRows
  <1>4. /\ \A m \in ms : m = <<m[1], m[2], m[3]>> /\ m[2] \in Nat \ {0}
        /\ {m \in ms : m[2] = 1} = FirstOf(fmt, k)
        /\ \A x \in ms : \A m \in WinnerFeeders(k, x) : x[2] # 1
    <2> HIDE DEF k
    <2> QED
      BY <1>2, FirstRoundIs
  <1> HIDE DEF rows
  <1>5. /\ Byes(rows) = {<<Side(fmt), 1, i>> : i \in {j \in 1..half : ~(2^k + 1 - top[j] <= n)}}
        /\ \A m \in FirstOf(fmt, k) : SoleTeam(rows[m]) = rows[m].teamA /\ rows[m].teamA # Nobody
    <2> HIDE DEF k, n, ms
    <2> QED
      BY <1>3, <1>4, ByesOfRound
  <1>6. \A m \in ms : \/ links[m] \in ms /\ m \in WinnerFeeders(k, links[m])
                      \/ links[m] = NoMatch
    <2> HIDE DEF k, ms
    <2> QED
      BY LinkIs
  <1>7. LinksOn(ms, links)
    <2>1. links = [m \in ms |-> links[m]]
      BY DEF WinnerLinks
    <2>2. \A m \in ms : links[m] # NoMatch => links[m] \in ms /\ links[m][2] # 1
      BY <1>4, <1>6
    <2> HIDE DEF links, ms
    <2> QED
      BY <2>1, <2>2 DEF LinksOn
  <1>8. ASSUME NEW x \in ms, NEW m \in WinnerFeeders(k, x), m[1] = Side(fmt)
        PROVE  \/ x[1] = Side(fmt) /\ m \in Pair(Side(fmt), x[2] - 1, x[3])
               \/ x = GrandFinal(k) /\ m = <<"winners", k, 1>>
    <2> HIDE DEF k
    <2> QED
      BY <1>2, <1>8, FedFromTheTree
  <1>9. \A m \in Byes(rows) : m \in ms /\ m \in FirstOf(fmt, k) /\ m[1] = Side(fmt)
    BY <1>4, <1>5 DEF FirstOf
  <1>10. \A m, d, e \in Byes(rows) :
            links[m] # NoMatch /\ links[m] = links[d] /\ links[m] = links[e] => m = d \/ d = e \/ m = e
    <2> SUFFICES ASSUME NEW m \in Byes(rows), NEW d \in Byes(rows), NEW e \in Byes(rows),
                        links[m] # NoMatch, links[m] = links[d], links[m] = links[e]
                 PROVE  m = d \/ d = e \/ m = e
      OBVIOUS
    <2> DEFINE x == links[m]
    <2>1. x \in ms /\ \A y \in {m, d, e} : y \in WinnerFeeders(k, x) /\ y[1] = Side(fmt)
      BY <1>6, <1>9
    <2> HIDE DEF x, k, ms
    <2>2. CASE x = GrandFinal(k) /\ x[1] # Side(fmt)
      BY <1>8, <2>1, <2>2
    <2>3. CASE x[1] = Side(fmt)
      <3>1. x # GrandFinal(k)
        BY <2>3 DEF GrandFinal, Side
      <3>2. \A y \in {m, d, e} : y \in Pair(Side(fmt), x[2] - 1, x[3])
        BY <1>8, <2>1, <3>1
      <3> QED
        BY <3>2 DEF Pair
    <2> QED
      BY <1>8, <2>1, <2>2, <2>3
  <1>11. \A m, d \in Byes(rows) : SoleTeam(rows[m]) = SoleTeam(rows[d]) => m = d
    <2> SUFFICES ASSUME NEW m \in Byes(rows), NEW d \in Byes(rows), SoleTeam(rows[m]) = SoleTeam(rows[d])
                 PROVE  m = d
      OBVIOUS
    <2> HIDE DEF k, ms
    <2>1. PICK i \in 1..half : m = <<Side(fmt), 1, i>>
      BY <1>5
    <2>2. PICK j \in 1..half : d = <<Side(fmt), 1, j>>
      BY <1>5
    <2>3. seeding[rows[m].teamA] = top[i] /\ seeding[rows[d].teamA] = top[j]
      BY <1>3, <2>1, <2>2 DEF FirstRows
    <2>4. rows[m].teamA = rows[d].teamA
      BY <1>5, <1>9
    <2>5. i = j
      BY <1>3, <2>3, <2>4 DEF Permuted
    <2> QED
      BY <2>1, <2>2, <2>5
  <1>12. ReadyForByes(ms, rows, links)
    <2> HIDE DEF ms, links, k
    <2> QED
      BY <1>3, <1>7, <1>10, <1>11 DEF ReadyForByes, FirstRows
  <1>13. ListsAll(ListingOf(Byes(rows)), Byes(rows), Cardinality(Byes(rows)))
    <2>1. OnOneSide(Byes(rows), Side(fmt), 1, half)
      BY <1>5 DEF OnOneSide
    <2> HIDE DEF half
    <2>2. half \in Nat /\ 1 \in Nat
      BY <1>2
    <2> QED
      BY <2>1, <2>2, ListingOfSide
  <1>14. ByesDone(ms, rows, links, Byes(rows), AdvanceByes(rows, links))
    <2> HIDE DEF ms, links
    <2> QED
      BY <1>12, <1>13, AfterByes
  <1> QED
    BY <1>3, <1>5, <1>7, <1>14 DEF rows

\* Each side of the bracket has finitely many matches, in the order of the list.
LEMMA SidesAreFinite ==
    ASSUME NEW k \in Nat \ {0}, NEW position
    PROVE  /\ ListsAll(ListingOf(TreeMatches(position, k)), TreeMatches(position, k),
                       Cardinality(TreeMatches(position, k)))
           /\ ListsAll(ListingOf(LosersMatches(k)), LosersMatches(k), Cardinality(LosersMatches(k)))
  <1>1. 2^k \in Nat
    BY PowerIsNat
  <1>2. OnOneSide(TreeMatches(position, k), position, k, 2^k)
    <2> SUFFICES ASSUME NEW m \in TreeMatches(position, k)
                 PROVE  m = <<position, m[2], m[3]>> /\ m[2] \in 0..k /\ m[3] \in 1..2^k
      BY DEF OnOneSide
    <2>1. m = <<position, m[2], m[3]>> /\ m[2] \in 1..k /\ m[3] \in 1..2^(k - m[2])
      BY TreeRounds
    <2>2. k - m[2] \in Nat /\ k - m[2] <= k
      BY <2>1
    <2>3. 2^(k - m[2]) \in Nat /\ 2^(k - m[2]) <= 2^k
      BY <2>2, PowerIsNat, PowersGrow
    <2> QED
      BY <1>1, <2>1, <2>3
  <1>3. k + Len(LosersRounds(k)) \in Nat
    BY LosersRoundsBounded
  <1>4. OnOneSide(LosersMatches(k), "losers", k + Len(LosersRounds(k)), 2^k)
    BY <1>3, LosersMatchesAre DEF OnOneSide
  <1> QED
    BY <1>1, <1>2, <1>3, <1>4, ListingOfSide

\* So has the whole bracket.
LEMMA MatchesFinite ==
    ASSUME NEW fmt \in EliminationFormat, NEW k \in Nat \ {0}, NEW n
    PROVE  IsFiniteSet(MatchesOf(fmt, k, n))
  <1>1. /\ IsFiniteSet(TreeMatches("single", k)) /\ IsFiniteSet(TreeMatches("winners", k))
        /\ IsFiniteSet(LosersMatches(k)) /\ IsFiniteSet({GrandFinal(k)})
    BY SidesAreFinite, FS_Singleton DEF ListsAll
  <1>2. IsFiniteSet(TreeMatches("winners", k) \union LosersMatches(k) \union {GrandFinal(k)})
    BY <1>1, FS_Union
  <1> QED
    BY <1>1, <1>2, MatchesAre DEF EliminationFormat

-----------------------------------------------------------------------------
(* Closing the losers matches that nobody will reach *)

\* The table with the number of matches that still feed a row.
Accounts(ms) == [rows : [ms -> Row], count : [ms -> Int]]

Opening(ms, rows, links, drops) ==
    [rows |-> rows, count |-> [m \in ms |-> RealFeeders(rows, links, drops, m)]]

\* One match of the cascade: round 1 is not concerned.
LEMMA OneLosersMatch ==
    ASSUME NEW ms, NEW links, LinksOn(ms, links), NEW acc \in Accounts(ms), NEW m \in ms, m[2] # 1
    PROVE  /\ EmptyLosersMatch(acc, links, m) \in Accounts(ms)
           /\ \A x \in ms : x[2] = 1 => EmptyLosersMatch(acc, links, m).rows[x] = acc.rows[x]
  <1> DEFINE team == SoleTeam(acc.rows[m])
             over == MarkBye(acc.rows, m)
             next == EmptyLosersMatch(acc, links, m)
  <1>1. acc.rows \in [ms -> Row] /\ acc.count \in [ms -> Int] /\ acc.rows[m] \in Row
        /\ acc = [rows |-> acc.rows, count |-> acc.count]
    BY DEF Accounts
  <1>2. team \in Slot /\ Closed(acc.rows[m]) \in Row
    <2>1. team \in Slot
      BY <1>1, SeatedRow DEF Slot
    <2> QED
      BY <1>1, <2>1 DEF Closed, Row, Status
  <1>3. over \in [ms -> Row] /\ \A x \in ms : x # m => over[x] = acc.rows[x]
    <2>1. over = [acc.rows EXCEPT ![m] = Closed(acc.rows[m])]
      BY DEF MarkBye, Closed
    <2> HIDE DEF over
    <2> QED
      BY <1>1, <1>2, <2>1
  <1>4. /\ SeatNext(over, links, m, team) \in [ms -> Row]
        /\ \A x \in ms : x[2] = 1 => SeatNext(over, links, m, team)[x] = acc.rows[x]
    <2> HIDE DEF over, team
    <2>1. CASE links[m] = NoMatch
      BY <1>3, <2>1 DEF SeatNext
    <2>2. CASE links[m] # NoMatch
      <3>1. links[m] \in ms /\ links[m][2] # 1
        BY <2>2 DEF LinksOn
      <3>2. SeatNext(over, links, m, team) = [over EXCEPT ![links[m]] = Seat(@, team)]
        BY <2>2 DEF SeatNext
      <3>3. Seat(over[links[m]], team) \in Row
        BY <1>2, <1>3, <3>1, SeatedRow
      <3> QED
        BY <1>3, <3>1, <3>2, <3>3
    <2> QED
      BY <2>1, <2>2
  <1> HIDE DEF over, team
  <1>5. \/ next = acc
        \/ next = [acc EXCEPT !.rows = SeatNext(over, links, m, team)]
        \/ next = [acc EXCEPT !.rows = over]
        \/ links[m] # NoMatch /\ next = [rows |-> over, count |-> [acc.count EXCEPT ![links[m]] = @ - 1]]
    BY DEF EmptyLosersMatch, over, team
  <1>6. links[m] # NoMatch => links[m] \in ms
    BY DEF LinksOn
  <1> HIDE DEF next
  <1>7. CASE next = acc
    BY <1>1, <1>7 DEF next
  <1>8. CASE next = [acc EXCEPT !.rows = SeatNext(over, links, m, team)]
    <2>1. next = [rows |-> SeatNext(over, links, m, team), count |-> acc.count]
      BY <1>1, <1>8
    <2> QED
      BY <1>1, <1>4, <2>1 DEF Accounts, next
  <1>9. CASE next = [acc EXCEPT !.rows = over]
    <2>1. next = [rows |-> over, count |-> acc.count]
      BY <1>1, <1>9
    <2> QED
      BY <1>1, <1>3, <2>1 DEF Accounts, next
  <1>10. CASE links[m] # NoMatch /\ next = [rows |-> over, count |-> [acc.count EXCEPT ![links[m]] = @ - 1]]
    <2>1. [acc.count EXCEPT ![links[m]] = @ - 1] \in [ms -> Int]
      BY <1>1, <1>6, <1>10
    <2> QED
      BY <1>1, <1>3, <1>10, <2>1 DEF Accounts, next
  <1> QED
    BY <1>5, <1>7, <1>8, <1>9, <1>10

\* The accounts after each losers match.
CascadeSteps(after, c, ms, rows, links, drops, losers) ==
    /\ after \in [0..c -> Accounts(ms)] /\ after[0] = Opening(ms, rows, links, drops)
    /\ \A i \in 1..c : after[i] = EmptyLosersMatch(after[i - 1], links, losers[i])
    /\ CascadeEmptyByes(rows, links, drops) = after[c].rows

\* The cascade goes through the losers matches.
LEMMA CascadeLoop ==
    ASSUME NEW ms, IsFiniteSet(ms), NEW rows \in [ms -> Row], NEW links, LinksOn(ms, links), NEW drops,
           NEW set, set = {m \in ms : m[1] = "losers"}, \A m \in set : m[2] # 1,
           NEW c, NEW losers, losers = ListingOf(set), ListsAll(losers, set, c)
    PROVE  \E after : CascadeSteps(after, c, ms, rows, links, drops, losers)
  <1> DEFINE D == Accounts(ms)
             base == Opening(ms, rows, links, drops)
             step == [p \in (1..c) \X D |-> EmptyLosersMatch(p[2], links, losers[p[1]])]
             Steps(f) == f = [i \in 0..c |-> IF i = 0 THEN base
                                             ELSE EmptyLosersMatch(f[i - 1], links, losers[i])]
  <1>0. c \in Nat /\ losers \in [1..c -> set] /\ Len(losers) = c
    BY DEF ListsAll
  <1>1. \A i \in 1..c : losers[i] \in ms /\ losers[i][2] # 1
    BY <1>0
  <1>2. step \in [(1..c) \X D -> D]
    <2>1. ASSUME NEW i \in 1..c, NEW acc \in D PROVE EmptyLosersMatch(acc, links, losers[i]) \in D
      BY <1>1, OneLosersMatch
    <2> HIDE DEF D
    <2> QED
      BY <2>1
  <1>2a. base \in D
    <2>1. ASSUME NEW m \in ms PROVE RealFeeders(rows, links, drops, m) \in Int
      <3> DEFINE A == {x \in DOMAIN rows : rows[x].status # "bye" /\ drops[x] = m}
                 B == {x \in DOMAIN rows : x[1] = "losers" /\ links[x] = m /\ rows[x].status # "bye"}
      <3>1. A \subseteq ms /\ B \subseteq ms
        OBVIOUS
      <3>2. RealFeeders(rows, links, drops, m) = Cardinality(A) + Cardinality(B)
        BY DEF RealFeeders
      <3> HIDE DEF A, B
      <3>3. Cardinality(A) \in Nat /\ Cardinality(B) \in Nat
        BY <3>1, FS_Subset, FS_CardinalityType
      <3> QED
        BY <3>2, <3>3
    <2>2. [m \in ms |-> RealFeeders(rows, links, drops, m)] \in [ms -> Int]
      BY <2>1
    <2> QED
      BY <2>2 DEF Accounts, Opening
  <1>3. PICK f : BuiltUp(f, c, D, base, step)
    <2> HIDE DEF step, D, base
    <2> QED
      BY <1>0, <1>2, <1>2a, StepByStep
  <1> HIDE DEF step, base
  <1>3a. f \in [0..c -> D] /\ f[0] = base /\ \A i \in 1..c : f[i] = step[<<i, f[i - 1]>>]
    BY <1>3 DEF BuiltUp
  <1> USE DEF step
  <1>4. \A i \in 1..c : f[i] = EmptyLosersMatch(f[i - 1], links, losers[i])
    <2> TAKE i \in 1..c
    <2>1. i - 1 \in 0..c /\ f[i - 1] \in D
      <3> HIDE DEF D, step
      <3>1. i - 1 \in 0..c
        BY <1>0
      <3> QED
        BY <1>3a, <3>1
    <2>2. <<i, f[i - 1]>> \in (1..c) \X D
      BY <2>1
    <2>3. step[<<i, f[i - 1]>>] = EmptyLosersMatch(f[i - 1], links, losers[i])
      <3> HIDE DEF D
      <3> QED
        BY <2>2
    <2> QED
      BY <1>3a, <2>3
  <1>5. Steps(f)
    <2> DEFINE g == [i \in 0..c |-> IF i = 0 THEN base ELSE EmptyLosersMatch(f[i - 1], links, losers[i])]
    <2>1. \A i \in 0..c : i = 0 \/ i \in 1..c
      BY <1>0
    <2>2. \A i \in 0..c : f[i] = g[i]
      BY <1>3a, <1>4, <2>1
    <2>3. f = [i \in 0..c |-> f[i]]
      BY <1>3a
    <2>4. g = [i \in 0..c |-> g[i]]
      OBVIOUS
    <2> HIDE DEF g
    <2>5. f = g
      BY <2>2, <2>3, <2>4
    <2> QED
      BY <2>5 DEF g
  <1> DEFINE chosen == CHOOSE g : Steps(g)
  <1>6. Steps(chosen)
    <2> HIDE DEF Steps
    <2> QED
      BY <1>5
  <1>7. CascadeEmptyByes(rows, links, drops) = chosen[c].rows
    <2>1. DOMAIN rows = ms
      OBVIOUS
    <2> QED
      BY <1>0, <2>1, ZenonT(60) DEF CascadeEmptyByes, Opening, base
  <1>8. \A i \in 0..c : chosen[i] = IF i = 0 THEN base ELSE EmptyLosersMatch(chosen[i - 1], links, losers[i])
    <2> HIDE DEF chosen
    <2> QED
      BY <1>6
  <1> HIDE DEF Steps, chosen
  <1> DEFINE S == {i \in Nat : chosen[i] = f[i]}
  <1>9. 0 \in S
    <2>1. 0 \in 0..c
      BY <1>0
    <2> QED
      BY <1>3a, <1>8, <2>1
  <1>10. ASSUME NEW i \in 0..c, i \in S, i + 1 <= c PROVE i + 1 \in S
    <2>1. i + 1 \in 0..c /\ i + 1 \in 1..c /\ i + 1 # 0 /\ (i + 1) - 1 = i
      <3> HIDE DEF S, D, step
      <3> QED
        BY <1>0, <1>10
    <2> QED
      BY <1>4, <1>8, <1>10, <2>1
  <1>11. c \in S
    <2> HIDE DEF S
    <2>1. c \in 0..c
      BY <1>0
    <2> QED
      BY <1>0, <1>9, <1>10, <2>1, Climb
  <1>12. chosen[c] = f[c]
    BY <1>11
  <1>13. f \in [0..c -> D] /\ f[0] = base
    BY <1>3a
  <1>14. CascadeSteps(f, c, ms, rows, links, drops, losers)
    <2>1. f \in [0..c -> Accounts(ms)] /\ f[0] = Opening(ms, rows, links, drops)
      BY <1>13 DEF base
    <2> HIDE DEF D
    <2> QED
      BY <1>4, <1>7, <1>12, <2>1 DEF CascadeSteps
  <1> QED
    BY <1>14

\* Closing losers matches leaves round 1 alone.
LEMMA CascadeKeeps ==
    ASSUME NEW ms, IsFiniteSet(ms), NEW rows \in [ms -> Row], NEW links, LinksOn(ms, links), NEW drops,
           NEW set, set = {m \in ms : m[1] = "losers"}, \A m \in set : m[2] # 1,
           NEW c, NEW losers, losers = ListingOf(set), ListsAll(losers, set, c)
    PROVE  LET now == CascadeEmptyByes(rows, links, drops)
           IN  now \in [ms -> Row] /\ \A x \in ms : x[2] = 1 => now[x] = rows[x]
  <1>0. c \in Nat /\ losers \in [1..c -> set]
    BY DEF ListsAll
  <1>1. PICK after : CascadeSteps(after, c, ms, rows, links, drops, losers)
    BY CascadeLoop
  <1>2. /\ after \in [0..c -> Accounts(ms)] /\ after[0] = Opening(ms, rows, links, drops)
        /\ \A i \in 1..c : after[i] = EmptyLosersMatch(after[i - 1], links, losers[i])
        /\ CascadeEmptyByes(rows, links, drops) = after[c].rows
    BY <1>1 DEF CascadeSteps
  <1> DEFINE S == {i \in Nat : \A x \in ms : x[2] = 1 => after[i].rows[x] = rows[x]}
  <1>3. 0 \in S
    BY <1>2 DEF Opening
  <1>4. ASSUME NEW i \in 0..c, i \in S, i + 1 <= c PROVE i + 1 \in S
    <2>1. i + 1 \in 1..c /\ (i + 1) - 1 = i /\ i + 1 \in Nat
      <3> HIDE DEF S
      <3> QED
        BY <1>0, <1>4
    <2>2. after[i] \in Accounts(ms) /\ losers[i + 1] \in ms /\ losers[i + 1][2] # 1
      <3> HIDE DEF S
      <3> QED
        BY <1>0, <1>2, <2>1
    <2>3. after[i + 1] = EmptyLosersMatch(after[i], links, losers[i + 1])
      BY <1>2, <2>1
    <2>4. \A x \in ms : x[2] = 1 => after[i + 1].rows[x] = after[i].rows[x]
      <3> HIDE DEF S
      <3> QED
        BY <2>2, <2>3, OneLosersMatch
    <2> QED
      BY <1>4, <2>1, <2>4
  <1>5. c \in S /\ after[c] \in Accounts(ms)
    <2>1. c \in 0..c
      BY <1>0
    <2> HIDE DEF S
    <2> QED
      BY <1>0, <1>2, <1>3, <1>4, <2>1, Climb
  <1> QED
    BY <1>2, <1>5 DEF Accounts

\* A bye is over, its team the winner; the others are to be played.
OpeningRows(seeding, fmt, k, n, rows, top) ==
    \A i \in 1..2^(k - 1) :
        LET row == rows[<<Side(fmt), 1, i>>]
        IN  /\ top[i] \in 1..n /\ row.teamA \in DOMAIN seeding /\ seeding[row.teamA] = top[i]
            /\ IF 2^k + 1 - top[i] <= n
               THEN /\ row.teamB \in DOMAIN seeding /\ seeding[row.teamB] = 2^k + 1 - top[i]
                    /\ row.winner = Nobody
               ELSE row.teamB = Nobody /\ row.winner = row.teamA

\* Round 1 of the bracket that a draw gives.
LEMMA OpeningRound ==
    ASSUME NEW seeding, Drawn(seeding), NEW fmt \in EliminationFormat
    PROVE  LET b == NewBracket(fmt, seeding)
               n == Cardinality(DOMAIN seeding)
               k == Exponent(n)
           IN  /\ b.format = fmt /\ b.seeding = seeding
               /\ FirstRound(b) = FirstOf(fmt, k)
               /\ \E top : /\ Permuted(top, 2^(k - 1)) /\ top = SlotTable(k)[k - 1]
                           /\ OpeningRows(seeding, fmt, k, n, b.rows, top)
  <1> DEFINE b == NewBracket(fmt, seeding)
             n == Cardinality(DOMAIN seeding)
             k == Exponent(n)
             ms == MatchesOf(fmt, k, n)
             links == WinnerLinks(fmt, k, ms)
             drops == LoserLinks(fmt, k, ms)
             rows == Created(fmt, k, n, ms, Entries(DOMAIN seeding, seeding, k))
             advanced == AdvanceByes(rows, links)
             closed == CascadeEmptyByes(advanced, links, drops)
  <1>1. n \in Nat /\ n >= 2
    BY SeedsOfDraw DEF Drawn
  <1>2. k \in Nat \ {0}
    <2> HIDE DEF n
    <2> QED
      BY <1>1, ExponentFits
  <1>3. PICK top : /\ Permuted(top, 2^(k - 1)) /\ top = SlotTable(k)[k - 1]
                   /\ FirstRows(seeding, fmt, k, n, ms, rows, top)
                   /\ LinksOn(ms, links)
                   /\ Byes(rows) = {<<Side(fmt), 1, i>> : i \in {j \in 1..2^(k - 1) : ~(2^k + 1 - top[j] <= n)}}
                   /\ \A m \in FirstOf(fmt, k) : SoleTeam(rows[m]) = rows[m].teamA /\ rows[m].teamA # Nobody
                   /\ ByesDone(ms, rows, links, Byes(rows), advanced)
    BY Advanced
  <1>4. b.format = fmt /\ b.seeding = seeding /\ b.rows = GenerateBracket(fmt, DOMAIN seeding, seeding)
    BY DEF NewBracket
  <1>5. b.rows = IF fmt = "single_elimination" THEN advanced ELSE closed
    <2>1. fmt \in {"single_elimination", "double_elimination"}
      BY DEF EliminationFormat
    <2> QED
      BY <1>4, <2>1 DEF GenerateBracket
  <1> HIDE DEF b
  <1>6. /\ {m \in ms : m[2] = 1} = FirstOf(fmt, k)
        /\ {m \in ms : m[1] = "losers"} = IF fmt = "double_elimination" THEN LosersMatches(k) ELSE {}
    <2> HIDE DEF k
    <2> QED
      BY <1>2, FirstRoundIs
  <1>7. advanced \in [ms -> Row]
    BY <1>3 DEF ByesDone
  <1>8. fmt = "double_elimination" =>
          closed \in [ms -> Row] /\ \A x \in ms : x[2] = 1 => closed[x] = advanced[x]
    <2> SUFFICES ASSUME fmt = "double_elimination"
                 PROVE  closed \in [ms -> Row] /\ \A x \in ms : x[2] = 1 => closed[x] = advanced[x]
      OBVIOUS
    <2>1. ListsAll(ListingOf(LosersMatches(k)), LosersMatches(k), Cardinality(LosersMatches(k)))
      <3> HIDE DEF k
      <3> QED
        BY <1>2, SidesAreFinite
    <2>2. IsFiniteSet(ms)
      <3> HIDE DEF k
      <3> QED
        BY <1>2, MatchesFinite
    <2>3. \A m \in LosersMatches(k) : m[2] # 1
      <3> HIDE DEF k
      <3>1. \A m \in LosersMatches(k) : m[2] \in Nat /\ m[2] >= k + 1
        <4>1. Len(LosersRounds(k)) \in Nat
          BY <1>2, LosersRoundsBounded
        <4> QED
          BY <1>2, <4>1, LosersMatchesAre
      <3> QED
        BY <1>2, <3>1
    <2>4. LosersMatches(k) = {m \in ms : m[1] = "losers"}
      BY <1>6
    <2>5. LinksOn(ms, links)
      BY <1>3
    <2> HIDE DEF k, ms, links, drops, advanced
    <2> QED
      BY <1>7, <2>1, <2>2, <2>3, <2>4, <2>5, CascadeKeeps
  <1> HIDE DEF closed, advanced, links, drops, rows
  <1>9. b.rows \in [ms -> Row] /\ \A x \in ms : x[2] = 1 => b.rows[x] = advanced[x]
    <2> HIDE DEF ms
    <2> QED
      BY <1>5, <1>7, <1>8 DEF EliminationFormat
  <1>10. FirstRound(b) = FirstOf(fmt, k)
    <2> HIDE DEF ms, k
    <2>1. DOMAIN b.rows = ms
      BY <1>9
    <2> QED
      BY <1>6, <2>1 DEF FirstRound
  <1> HIDE DEF ms, k, n
  <1>11. ASSUME NEW i \in 1..2^(k - 1)
         PROVE  LET row == b.rows[<<Side(fmt), 1, i>>]
                IN  /\ top[i] \in 1..n /\ row.teamA \in DOMAIN seeding /\ seeding[row.teamA] = top[i]
                    /\ IF 2^k + 1 - top[i] <= n
                       THEN /\ row.teamB \in DOMAIN seeding /\ seeding[row.teamB] = 2^k + 1 - top[i]
                            /\ row.winner = Nobody
                       ELSE row.teamB = Nobody /\ row.winner = row.teamA
    <2> DEFINE m == <<Side(fmt), 1, i>>
    <2>1. m \in FirstOf(fmt, k) /\ m \in ms /\ m[2] = 1
      BY <1>6 DEF FirstOf
    <2>2. /\ top[i] \in 1..n /\ rows[m].teamA \in DOMAIN seeding /\ seeding[rows[m].teamA] = top[i]
          /\ IF 2^k + 1 - top[i] <= n
             THEN rows[m].teamB \in DOMAIN seeding /\ seeding[rows[m].teamB] = 2^k + 1 - top[i]
             ELSE rows[m].teamB = Nobody
          /\ rows[m].winner = Nobody
      BY <1>3 DEF FirstRows
    <2>3. SoleTeam(rows[m]) = rows[m].teamA /\ rows[m] \in Row
      BY <1>3, <2>1 DEF FirstRows
    <2>4. m \in Byes(rows) <=> ~(2^k + 1 - top[i] <= n)
      <3>1. \A j : m = <<Side(fmt), 1, j>> => j = i
        OBVIOUS
      <3> QED
        BY <1>3, <3>1
    <2>5. b.rows[m] = IF m \in Byes(rows) THEN Closed(rows[m]) ELSE rows[m]
      BY <1>3, <1>9, <2>1 DEF ByesDone
    <2> HIDE DEF m
    <2>6. /\ Closed(rows[m]).teamA = rows[m].teamA /\ Closed(rows[m]).teamB = rows[m].teamB
          /\ Closed(rows[m]).winner = rows[m].teamA
      BY <2>3 DEF Closed, Row
    <2> QED
      BY <2>2, <2>4, <2>5, <2>6 DEF m
  <1>12. OpeningRows(seeding, fmt, k, n, b.rows, top)
    BY <1>11 DEF OpeningRows
  <1> QED
    BY <1>3, <1>4, <1>10, <1>12 DEF b, k, n

-----------------------------------------------------------------------------
(* Standard seeding *)

\* Block c of the 2^d blocks that 2^j slots fall into, and its best seeds.
InBlock(j, d, c) == {q \in 1..2^j : (q - 1) \div 2^(j - d) = c - 1}
BestOf(slots, j, d, c) == {q \in InBlock(j, d, c) : slots[q] <= 2^d}

\* Twice as many slots in twice as large blocks.
LEMMA SameBlock ==
    ASSUME NEW a \in Nat, NEW b \in Nat \ {0}
    PROVE  (2*a) \div (2*b) = a \div b
  OBVIOUS

\* Doubling leaves a best seed where it was and adds none.
LEMMA DoubledKeepsBest ==
    ASSUME NEW j \in Nat, NEW d \in Nat, d <= j, NEW slots, Permuted(slots, 2^j), NEW c,
           NEW q, BestOf(slots, j, d, c) = {q}
    PROVE  BestOf(Doubled(j + 1, slots), j + 1, d, c) = {2*q - 1}
  <1> DEFINE next == Doubled(j + 1, slots)
  <1>1. /\ 2^j \in Nat \ {0} /\ 2^d \in Nat /\ 2^d <= 2^j /\ 2^(j + 1) = 2 * 2^j
        /\ 2^(j - d) \in Nat \ {0} /\ 2^(j + 1 - d) = 2 * 2^(j - d)
    <2>1. j - d \in Nat /\ (j - d) + 1 = j + 1 - d
      OBVIOUS
    <2>2. \A e \in Nat : 2^e \in Nat \ {0}
      <3> TAKE e \in Nat
      <3>1. 2^e \in Nat /\ e < 2^e
        BY Powers
      <3> QED
        BY <3>1
    <2>3. 2^((j - d) + 1) = 2 * 2^(j - d)
      BY <2>1, PowerDoubles
    <2> QED
      BY <2>1, <2>2, <2>3, PowerDoubles, PowersGrow
  <1>2. \A p \in 1..2^j : /\ 2*p - 1 \in 1..2^(j + 1) /\ 2*p \in 1..2^(j + 1)
                          /\ next[2*p - 1] = slots[p] /\ next[2*p] = 2^(j + 1) + 1 - slots[p]
    <2>1. j + 1 \in Nat \ {0} /\ (j + 1) - 1 = j
      OBVIOUS
    <2> QED
      BY <2>1, DoubledAt
  <1>3. \A p \in 1..2^(j + 1) : \E x \in 1..2^j : p = 2*x - 1 \/ p = 2*x
    <2>1. j + 1 \in Nat \ {0} /\ (j + 1) - 1 = j
      OBVIOUS
    <2> QED
      BY <2>1, Places2
  <1>4. \A p \in 1..2^j : slots[p] \in 1..2^j
    BY DEF Permuted
  <1> HIDE DEF next
  <1>5. ASSUME NEW p \in 1..2^j
        PROVE  (2*p - 1 - 1) \div 2^(j + 1 - d) = (p - 1) \div 2^(j - d)
    <2>1. p - 1 \in Nat /\ 2*p - 1 - 1 = 2 * (p - 1)
      BY <1>1
    <2> QED
      BY <1>1, <2>1, SameBlock
  <1>6. q \in 1..2^j /\ (q - 1) \div 2^(j - d) = c - 1 /\ slots[q] <= 2^d
    BY DEF BestOf, InBlock
  <1>7. 2*q - 1 \in BestOf(next, j + 1, d, c)
    BY <1>2, <1>5, <1>6 DEF BestOf, InBlock
  <1>8. ASSUME NEW p \in BestOf(next, j + 1, d, c) PROVE p = 2*q - 1
    <2>1. p \in 1..2^(j + 1) /\ (p - 1) \div 2^(j + 1 - d) = c - 1 /\ next[p] <= 2^d
      BY DEF BestOf, InBlock
    <2>2. PICK x \in 1..2^j : p = 2*x - 1 \/ p = 2*x
      BY <1>3, <2>1
    <2>3. p = 2*x - 1
      <3> DEFINE w == 2^j
                 v == slots[x]
                 u == 2^d
      <3>1. w \in Nat /\ u \in Nat /\ u <= w /\ v \in 1..w
        BY <1>1, <1>4
      <3>2. next[2*x] = 2*w + 1 - v
        BY <1>1, <1>2
      <3>3. p = 2*x => next[2*x] <= u
        BY <2>1
      <3> HIDE DEF w, v, u
      <3>4. 2*w + 1 - v > u
        BY <3>1
      <3>5. ~(2*w + 1 - v <= u)
        BY <3>1, <3>4
      <3> QED
        BY <2>2, <3>2, <3>3, <3>5
    <2>4. x \in BestOf(slots, j, d, c)
      BY <1>2, <1>5, <2>1, <2>3 DEF BestOf, InBlock
    <2> QED
      BY <2>3, <2>4
  <1> QED
    BY <1>7, <1>8 DEF next

\* Each of the 2^d blocks has one of the 2^d best seeds.
LEMMA OneBestEach ==
    ASSUME NEW k \in Nat, NEW d \in 0..k, NEW c \in 1..2^d
    PROVE  \A j \in d..k : \E q : BestOf(SlotTable(k)[j], j, d, c) = {q}
  <1> DEFINE S == {e \in Nat : \E q : BestOf(SlotTable(k)[d + e], d + e, d, c) = {q}}
             h == k - d
  <1>0. h \in Nat
    OBVIOUS
  <1>1. 0 \in S
    <2>1. Permuted(SlotTable(k)[d], 2^d)
      BY SlotsPermute
    <2>2. \A p \in 1..2^d : SlotTable(k)[d][p] <= 2^d
      <3>1. 2^d \in Nat
        BY PowerIsNat
      <3> DEFINE w == 2^d
                 slots == SlotTable(k)[d]
      <3>2. slots \in [1..w -> 1..w] /\ w \in Nat
        BY <2>1, <3>1 DEF Permuted
      <3> HIDE DEF slots, w
      <3>3. \A p \in 1..w : slots[p] \in 1..w
        BY <3>2
      <3>4. \A p \in 1..w : slots[p] <= w
        BY <3>2, <3>3
      <3> QED
        BY <3>4 DEF slots, w
    <2>3. d + 0 = d /\ 2^(d - d) = 1
      <3>1. d - d = 0
        OBVIOUS
      <3> QED
        BY <3>1, PowerOfZero
    <2>4. InBlock(d, d, c) = {c}
      <3>1. 2^d \in Nat
        BY PowerIsNat
      <3>2. \A p \in 1..2^d : (p - 1) \div 1 = p - 1
        BY <3>1
      <3>3. \A p \in 1..2^d : p \in InBlock(d, d, c) <=> p = c
        BY <2>3, <3>1, <3>2 DEF InBlock
      <3> QED
        BY <3>3 DEF InBlock
    <2>5. BestOf(SlotTable(k)[d], d, d, c) = {c}
      BY <2>2, <2>4 DEF BestOf
    <2> QED
      BY <2>3, <2>5
  <1>2. ASSUME NEW e \in 0..h, e \in S, e + 1 <= h PROVE e + 1 \in S
    <2> DEFINE j == d + e
    <2>1. j \in 0..k /\ j \in Nat /\ d <= j /\ j + 1 \in 1..k /\ j + 1 = d + (e + 1) /\ (j + 1) - 1 = j
          /\ e + 1 \in Nat
      <3> HIDE DEF S
      <3> QED
        BY <1>0, <1>2
    <2>2. PICK q : BestOf(SlotTable(k)[j], j, d, c) = {q}
      BY <1>2
    <2>3. Permuted(SlotTable(k)[j], 2^j)
      BY <2>1, SlotsPermute
    <2>4. SlotTable(k)[j + 1] = Doubled(j + 1, SlotTable(k)[j])
      BY <2>1, SlotSteps
    <2>5. BestOf(SlotTable(k)[j + 1], j + 1, d, c) = {2*q - 1}
      <3> HIDE DEF j, h
      <3> QED
        BY <2>1, <2>2, <2>3, <2>4, DoubledKeepsBest
    <2> HIDE DEF j
    <2>6. \E p : BestOf(SlotTable(k)[d + (e + 1)], d + (e + 1), d, c) = {p}
      BY <2>1, <2>5
    <2> QED
      BY <2>1, <2>6
  <1>3. \A e \in 0..h : e \in S
    <2> HIDE DEF S, h
    <2> QED
      BY <1>0, <1>1, <1>2, Climb
  <1>4. ASSUME NEW j \in d..k PROVE \E q : BestOf(SlotTable(k)[j], j, d, c) = {q}
    <2>1. j - d \in 0..h /\ d + (j - d) = j
      OBVIOUS
    <2>2. j - d \in S
      <3> HIDE DEF S
      <3> QED
        BY <1>3, <2>1
    <2> QED
      BY <2>1, <2>2
  <1> QED
    BY <1>4

\* What the properties of round 1 follow from: who sits where, and who wins.
RoundOne(b, seeding, side, n, k, half, top) ==
    /\ n \in Nat /\ n >= 2 /\ k \in Nat \ {0} /\ half \in Nat \ {0} /\ half = 2^(k - 1) /\ 2^k = 2 * half
    /\ half < n /\ n <= 2 * half
    /\ Field(b) = DOMAIN seeding /\ Size(b) = n /\ Depth(b) = k /\ b.seeding = seeding
    /\ \A t \in DOMAIN seeding : seeding[t] \in 1..n
    /\ \A s \in 1..n : \E t \in DOMAIN seeding : seeding[t] = s
    /\ \A t, u \in DOMAIN seeding : seeding[t] = seeding[u] => t = u
    /\ Permuted(top, half) /\ top = SlotTable(k)[k - 1]
    /\ FirstRound(b) = {<<side, 1, i>> : i \in 1..half}
    /\ \A i \in 1..half :
          /\ top[i] \in 1..half /\ top[i] \in 1..n
          /\ Seated(b.rows[<<side, 1, i>>]) =
                {t \in DOMAIN seeding : seeding[t] = top[i] \/ seeding[t] = 2 * half + 1 - top[i]}
          /\ \A t \in DOMAIN seeding : b.rows[<<side, 1, i>>].winner = t <=>
                seeding[t] = top[i] /\ top[i] <= 2 * half - n

\* That is what a draw gives.
LEMMA OpeningSeats ==
    ASSUME NEW seeding, Drawn(seeding), NEW fmt \in EliminationFormat
    PROVE  LET b == NewBracket(fmt, seeding)
               n == Cardinality(DOMAIN seeding)
               k == Exponent(n)
           IN  \E top : RoundOne(b, seeding, Side(fmt), n, k, 2^(k - 1), top)
  <1> DEFINE b == NewBracket(fmt, seeding)
             n == Cardinality(DOMAIN seeding)
             k == Exponent(n)
             half == 2^(k - 1)
             T == DOMAIN seeding
  <1>1. /\ n \in Nat /\ n >= 2
        /\ \A t \in T : seeding[t] \in 1..n
        /\ \A s \in 1..n : \E t \in T : seeding[t] = s
    BY SeedsOfDraw DEF Drawn
  <1>2. k \in Nat \ {0} /\ n <= 2^k /\ half < n /\ half \in Nat \ {0} /\ 2^k = 2 * half
    <2> HIDE DEF n
    <2> QED
      BY <1>1, ExponentFits
  <1>3. \A t, u \in T : seeding[t] = seeding[u] => t = u
    BY DEF Drawn, Seeded, Numbered
  <1>4. Nobody \notin T
    BY NobodyIsNoTeam DEF Drawn, Seeded
  <1>5. /\ b.format = fmt /\ b.seeding = seeding
        /\ FirstRound(b) = FirstOf(fmt, k)
        /\ \E top : /\ Permuted(top, half) /\ top = SlotTable(k)[k - 1]
                    /\ OpeningRows(seeding, fmt, k, n, b.rows, top)
    BY OpeningRound
  <1>6. PICK top : /\ Permuted(top, half) /\ top = SlotTable(k)[k - 1]
                   /\ OpeningRows(seeding, fmt, k, n, b.rows, top)
    BY <1>5
  <1> HIDE DEF b, n, k, half
  <1>7. ASSUME NEW i \in 1..half
        PROVE  /\ top[i] \in 1..half /\ top[i] \in 1..n
               /\ Seated(b.rows[<<Side(fmt), 1, i>>]) =
                    {t \in T : seeding[t] = top[i] \/ seeding[t] = 2 * half + 1 - top[i]}
               /\ \A t \in T : b.rows[<<Side(fmt), 1, i>>].winner = t <=>
                    seeding[t] = top[i] /\ top[i] <= 2 * half - n
    <2> DEFINE row == b.rows[<<Side(fmt), 1, i>>]
    <2>1. /\ top[i] \in 1..n /\ row.teamA \in T /\ seeding[row.teamA] = top[i]
          /\ IF 2 * half + 1 - top[i] <= n
             THEN row.teamB \in T /\ seeding[row.teamB] = 2 * half + 1 - top[i] /\ row.winner = Nobody
             ELSE row.teamB = Nobody /\ row.winner = row.teamA
      BY <1>2, <1>6 DEF OpeningRows, half
    <2> HIDE DEF row
    <2>2. top[i] \in 1..half
      BY <1>6 DEF Permuted
    <2>3. CASE 2 * half + 1 - top[i] <= n
      <3>1. Seated(row) = {row.teamA, row.teamB}
        BY <1>4, <2>1, <2>3 DEF Seated
      <3>2. Seated(row) = {t \in T : seeding[t] = top[i] \/ seeding[t] = 2 * half + 1 - top[i]}
        BY <1>3, <2>1, <2>3, <3>1
      <3>3. ~(top[i] <= 2 * half - n) /\ \A t \in T : row.winner # t
        BY <1>1, <1>2, <1>4, <2>1, <2>2, <2>3
      <3> QED
        BY <2>1, <2>2, <3>2, <3>3 DEF row
    <2>4. CASE ~(2 * half + 1 - top[i] <= n)
      <3>1. Seated(row) = {row.teamA}
        BY <1>4, <2>1, <2>4 DEF Seated
      <3>2. \A t \in T : seeding[t] # 2 * half + 1 - top[i]
        BY <1>1, <2>4
      <3>3. Seated(row) = {t \in T : seeding[t] = top[i] \/ seeding[t] = 2 * half + 1 - top[i]}
        BY <1>3, <2>1, <3>1, <3>2
      <3>4. top[i] <= 2 * half - n
        BY <1>1, <1>2, <2>2, <2>4
      <3>5. \A t \in T : row.winner = t <=> seeding[t] = top[i]
        BY <1>3, <2>1, <2>4
      <3> QED
        BY <2>1, <2>2, <3>3, <3>4, <3>5 DEF row
    <2> QED
      BY <2>3, <2>4
  <1>8. Field(b) = T /\ Size(b) = n /\ Depth(b) = k
    BY <1>5 DEF Field, Size, Depth, n, k
  <1>9. FirstRound(b) = {<<Side(fmt), 1, i>> : i \in 1..half}
    BY <1>5 DEF FirstOf, half
  <1>10. half = 2^(k - 1)
    BY DEF half
  <1>11. RoundOne(b, seeding, Side(fmt), n, k, half, top)
    BY <1>1, <1>2, <1>3, <1>5, <1>6, <1>7, <1>8, <1>9, <1>10 DEF RoundOne
  <1> QED
    BY <1>11 DEF b, n, k, half

\* EveryTeamStartsOnce, of one bracket.
LEMMA StartsOnceOf ==
    ASSUME NEW b, NEW seeding, NEW side, NEW n, NEW k, NEW half, NEW top,
           RoundOne(b, seeding, side, n, k, half, top)
    PROVE  /\ \A t \in Field(b) : One({m \in FirstRound(b) : t \in Seated(b.rows[m])})
           /\ \A m \in FirstRound(b) : Seated(b.rows[m]) # {}
  <1> DEFINE T == DOMAIN seeding
  <1>1. /\ Field(b) = T /\ half \in Nat /\ n <= 2 * half /\ n \in Nat
        /\ \A t \in T : seeding[t] \in 1..n
        /\ \A s \in 1..n : \E t \in T : seeding[t] = s
        /\ FirstRound(b) = {<<side, 1, i>> : i \in 1..half}
        /\ \A i \in 1..half :
              /\ top[i] \in 1..half /\ top[i] \in 1..n
              /\ Seated(b.rows[<<side, 1, i>>]) =
                    {t \in T : seeding[t] = top[i] \/ seeding[t] = 2 * half + 1 - top[i]}
    BY DEF RoundOne
  <1>2. /\ \A s \in 1..half : \E i \in 1..half : top[i] = s
        /\ \A i, j \in 1..half : top[i] = top[j] => i = j
    BY DEF RoundOne, Permuted
  <1>3. ASSUME NEW t \in T PROVE One({m \in FirstRound(b) : t \in Seated(b.rows[m])})
    <2>1. PICK i \in 1..half : seeding[t] = top[i] \/ seeding[t] = 2 * half + 1 - top[i]
      <3>1. CASE seeding[t] <= half
        BY <1>1, <1>2, <3>1
      <3>2. CASE ~(seeding[t] <= half)
        <4>1. 2 * half + 1 - seeding[t] \in 1..half
          BY <1>1, <3>2
        <4>2. PICK i \in 1..half : top[i] = 2 * half + 1 - seeding[t]
          BY <1>2, <4>1
        <4>3. seeding[t] = 2 * half + 1 - top[i]
          BY <1>1, <4>2
        <4> QED
          BY <4>3
      <3> QED
        BY <3>1, <3>2
    <2>2. ASSUME NEW j \in 1..half, seeding[t] = top[j] \/ seeding[t] = 2 * half + 1 - top[j] PROVE j = i
      <3>1. top[i] \in 1..half /\ top[j] \in 1..half
        BY <1>1
      <3>2. top[i] = top[j]
        BY <1>1, <2>1, <2>2, <3>1
      <3> QED
        BY <1>2, <3>2
    <2>3. {m \in FirstRound(b) : t \in Seated(b.rows[m])} = {<<side, 1, i>>}
      BY <1>1, <2>1, <2>2
    <2> QED
      BY <2>3, FS_Singleton DEF One
  <1>4. ASSUME NEW m \in FirstRound(b) PROVE Seated(b.rows[m]) # {}
    <2>1. PICK i \in 1..half : m = <<side, 1, i>>
      BY <1>1
    <2>2. PICK t \in T : seeding[t] = top[i]
      BY <1>1
    <2> QED
      BY <1>1, <2>1, <2>2
  <1> QED
    BY <1>1, <1>3, <1>4

\* ByesToTopSeeds, of one bracket.
LEMMA ByesOf ==
    ASSUME NEW b, NEW seeding, NEW side, NEW n, NEW k, NEW half, NEW top,
           RoundOne(b, seeding, side, n, k, half, top)
    PROVE  {t \in Field(b) : \E m \in FirstRound(b) : b.rows[m].winner = t} =
              {t \in Field(b) : b.seeding[t] <= 2^Depth(b) - Size(b)}
  <1> DEFINE T == DOMAIN seeding
  <1>1. /\ Field(b) = T /\ Depth(b) = k /\ Size(b) = n /\ b.seeding = seeding /\ 2^k = 2 * half
        /\ half \in Nat /\ n \in Nat /\ half < n
        /\ \A t \in T : seeding[t] \in 1..n
        /\ FirstRound(b) = {<<side, 1, i>> : i \in 1..half}
        /\ \A i \in 1..half :
              /\ top[i] \in 1..half
              /\ \A t \in T : b.rows[<<side, 1, i>>].winner = t <=>
                    seeding[t] = top[i] /\ top[i] <= 2 * half - n
    BY DEF RoundOne
  <1>2. \A s \in 1..half : \E i \in 1..half : top[i] = s
    BY DEF RoundOne, Permuted
  <1>3. ASSUME NEW t \in T
        PROVE  (\E m \in FirstRound(b) : b.rows[m].winner = t) <=> seeding[t] <= 2 * half - n
    <2>1. ASSUME NEW m \in FirstRound(b), b.rows[m].winner = t PROVE seeding[t] <= 2 * half - n
      BY <1>1, <2>1
    <2>2. ASSUME seeding[t] <= 2 * half - n PROVE \E m \in FirstRound(b) : b.rows[m].winner = t
      <3>1. seeding[t] \in 1..half
        BY <1>1, <2>2
      <3>2. PICK i \in 1..half : top[i] = seeding[t]
        BY <1>2, <3>1
      <3>3. top[i] <= 2 * half - n /\ seeding[t] = top[i]
        BY <2>2, <3>2
      <3>4. b.rows[<<side, 1, i>>].winner = t
        BY <1>1, <3>3
      <3>5. <<side, 1, i>> \in FirstRound(b)
        BY <1>1
      <3> QED
        BY <3>4, <3>5
    <2> QED
      BY <2>1, <2>2
  <1> QED
    BY <1>1, <1>3

\* TopSeedsApart, of one bracket.
LEMMA ApartOf ==
    ASSUME NEW b, NEW seeding, NEW side, NEW n, NEW k, NEW half, NEW top,
           RoundOne(b, seeding, side, n, k, half, top),
           NEW r \in 1..Depth(b), NEW i \in 1..2^(Depth(b)-r)
    PROVE  One({t \in Field(b) : /\ b.seeding[t] <= 2^(Depth(b)-r)
                                 /\ \E m \in Leaves(b, r, i) : t \in Seated(b.rows[m])})
  <1> DEFINE T == DOMAIN seeding
             d == k - r
             best == 2^d
  <1>1. /\ Field(b) = T /\ Depth(b) = k /\ b.seeding = seeding /\ half = 2^(k - 1)
        /\ half \in Nat /\ n \in Nat /\ k \in Nat \ {0} /\ top = SlotTable(k)[k - 1]
        /\ \A t \in T : seeding[t] \in 1..n
        /\ \A s \in 1..n : \E t \in T : seeding[t] = s
        /\ \A t, u \in T : seeding[t] = seeding[u] => t = u
        /\ FirstRound(b) = {<<side, 1, p>> : p \in 1..half}
        /\ \A p \in 1..half :
              /\ top[p] \in 1..half /\ top[p] \in 1..n
              /\ Seated(b.rows[<<side, 1, p>>]) =
                    {t \in T : seeding[t] = top[p] \/ seeding[t] = 2 * half + 1 - top[p]}
    BY DEF RoundOne
  <1>2. /\ d \in Nat /\ d <= k - 1 /\ k - 1 \in Nat /\ (k - 1) - d = r - 1
        /\ d \in 0..k /\ k - 1 \in d..k
    BY <1>1
  <1>3. best \in Nat /\ best <= half /\ i \in 1..best
    <2>1. 2^d \in Nat /\ 2^d <= 2^(k - 1)
      <3> HIDE DEF d
      <3> QED
        BY <1>2, PowerIsNat, PowersGrow
    <2> QED
      BY <1>1, <2>1
  <1>4. PICK q : BestOf(top, k - 1, d, i) = {q}
    <2>1. k \in Nat /\ i \in 1..2^d
      BY <1>1
    <2> HIDE DEF d
    <2>2. \A j \in d..k : \E q : BestOf(SlotTable(k)[j], j, d, i) = {q}
      BY <1>2, <2>1, OneBestEach, ZenonT(60)
    <2> QED
      BY <1>1, <1>2, <2>2
  <1>5. \A p : p \in BestOf(top, k - 1, d, i) <=>
               p \in 1..half /\ (p - 1) \div 2^(r - 1) = i - 1 /\ top[p] <= best
    <2> HIDE DEF d
    <2> QED
      BY <1>1, <1>2 DEF BestOf, InBlock, best
  <1>6. \A m : m \in Leaves(b, r, i) <=>
               \E p \in 1..half : m = <<side, 1, p>> /\ (p - 1) \div 2^(r - 1) = i - 1
    BY <1>1 DEF Leaves
  <1>7. 2^(Depth(b) - r) = best
    BY <1>1
  <1> HIDE DEF best, d
  <1>8. q \in 1..half /\ (q - 1) \div 2^(r - 1) = i - 1 /\ top[q] <= best
    BY <1>4, <1>5
  <1>9. PICK t \in T : seeding[t] = top[q]
    BY <1>1, <1>8
  <1> DEFINE Here(u) == seeding[u] <= best /\ \E m \in Leaves(b, r, i) : u \in Seated(b.rows[m])
  <1>10. Here(t)
    <2> DEFINE m == <<side, 1, q>>
    <2>1. m \in Leaves(b, r, i)
      BY <1>6, <1>8
    <2>2. t \in Seated(b.rows[m])
      BY <1>1, <1>8, <1>9
    <2> HIDE DEF m
    <2> QED
      BY <1>8, <1>9, <2>1, <2>2
  <1>11. ASSUME NEW u \in T, Here(u) PROVE u = t
    <2>1. PICK p \in 1..half : /\ (p - 1) \div 2^(r - 1) = i - 1
                               /\ seeding[u] = top[p] \/ seeding[u] = 2 * half + 1 - top[p]
      BY <1>1, <1>6, <1>11
    <2>2. seeding[u] = top[p]
      <3>1. top[p] \in 1..half /\ seeding[u] <= best
        BY <1>1, <1>11
      <3>2. ~(2 * half + 1 - top[p] <= best)
        BY <1>1, <1>3, <3>1
      <3> QED
        BY <2>1, <3>1, <3>2
    <2>3. p = q
      BY <1>4, <1>5, <1>11, <2>1, <2>2
    <2> QED
      BY <1>1, <1>9, <2>2, <2>3
  <1>12. {u \in T : Here(u)} = {t}
    <2> HIDE DEF Here
    <2> QED
      BY <1>10, <1>11
  <1>13. Cardinality({u \in T : Here(u)}) = 1
    <2> HIDE DEF Here, T
    <2> QED
      BY <1>12, FS_Singleton
  <1>14. {u \in Field(b) : /\ b.seeding[u] <= 2^(Depth(b)-r)
                           /\ \E m \in Leaves(b, r, i) : u \in Seated(b.rows[m])} = {u \in T : Here(u)}
    BY <1>1, <1>7
  <1> HIDE DEF Here, T
  <1> QED
    BY <1>13, <1>14 DEF One

-----------------------------------------------------------------------------
(* How an elimination bracket hangs together.  won[x] are the matches      *)
(* whose winners go to x, lost[x] those whose losers do.                   *)

\* Both entries are winners of matches that start with two teams or are fed.
FromWinners(ms, won, lost, x) ==
    \E m, d \in ms : /\ m # d /\ won[x] = {m, d} /\ lost[x] = {}
                     /\ \A z \in {m, d} : z[2] = 1 \/ won[z] # {}

\* One is a loser of a later round.
FromBoth(ms, won, lost, x) ==
    \E m, d \in ms : won[x] = {m} /\ lost[x] = {d} /\ d[2] # 1 /\ won[d] # {}

\* Both are losers of round 1.
FromLosers(ms, won, lost, x) ==
    \E m, d \in ms : m # d /\ won[x] = {} /\ lost[x] = {m, d} /\ m[2] = 1 /\ d[2] = 1

Hung(ms, won, lost) ==
    /\ won \in [ms -> SUBSET ms] /\ lost \in [ms -> SUBSET ms]
    /\ \A x \in ms : x[2] \in Nat
    /\ \A x, y \in ms :
          won[x] \intersect won[y] # {} \/ lost[x] \intersect lost[y] # {} => x = y
    /\ \A x \in ms : \A m \in won[x] \union lost[x] : m[2] < x[2]
    /\ \A x \in ms : x[2] = 1 => won[x] = {} /\ lost[x] = {}
    /\ \A x \in ms : x[2] # 1 =>
          \/ FromWinners(ms, won, lost, x)
          \/ FromBoth(ms, won, lost, x)
          \/ FromLosers(ms, won, lost, x)

\* The links say so; a match that is yet to be created has none.
Linked(play, ms, won, lost) ==
    /\ ms \subseteq play.match /\ NoMatch \notin play.match
    /\ \A m \in ms : play.next[m] \in ms \union {NoMatch} /\ play.drop[m] \in ms \union {NoMatch}
    /\ \A m \in ms : \A x \in ms : /\ play.next[m] = x <=> m \in won[x]
                                   /\ play.drop[m] = x <=> m \in lost[x]
    /\ \A m \in play.match \ ms :
          /\ play.next[m] = NoMatch /\ play.drop[m] = NoMatch /\ m[2] \in Nat
          /\ play.rows[m].status = "absent"

\* The losers matches that nobody will reach.
Dead(ms, won, lost, byes) == {x \in ms : x[2] # 1 /\ won[x] = {} /\ lost[x] \subseteq byes}

\* Round 1 seats every team once; a bye is over, its team one match further.
\* The later matches are still to be played, but for the dead ones.
Filled(rows, field, ms, won, lost, byes) ==
    /\ byes \subseteq {m \in ms : m[2] = 1}
    /\ \A t \in field : \E m \in ms : m[2] = 1 /\ t \in Seated(rows[m])
    /\ \A m, d \in ms : m[2] = 1 /\ d[2] = 1 /\ Seated(rows[m]) \intersect Seated(rows[d]) # {} => m = d
    /\ \A m \in ms : m[2] = 1 /\ m \notin byes => rows[m].status = "pending" /\ Full(rows[m])
    /\ \A m \in byes : /\ rows[m].status = "bye" /\ rows[m].teamA # Nobody
                       /\ Seated(rows[m]) = {rows[m].teamA}
                       /\ \E x \in ms : m \in won[x]
    /\ \A x \in Dead(ms, won, lost, byes) : rows[x].status = "bye"
    /\ \A x \in ms : x[2] # 1 /\ x \notin Dead(ms, won, lost, byes) =>
          /\ rows[x].status = "pending"
          /\ Seated(rows[x]) = {rows[m].teamA : m \in byes \intersect won[x]}
          /\ Full(rows[x]) <=> \E m, d \in byes \intersect won[x] : m # d

\* A round robin stands as it is made.
LEMMA RoundRobinFits ==
    ASSUME NEW play, play.format = "round_robin",
           \A m \in play.match : /\ play.rows[m].status = "pending"
                                 /\ play.next[m] = NoMatch /\ play.drop[m] = NoMatch
    PROVE  Generation(play)!BracketFits
  <1>1. Generation(play)!RoundRobinShape
    BY DEF Generation!RoundRobinShape, Generation!Playable
  <1> QED
    BY <1>1 DEF Generation!BracketFits

\* A link comes from a match that feeds where it leads.
LEMMA LinksFrom ==
    ASSUME NEW play, NEW ms, NEW won, NEW lost, Linked(play, ms, won, lost),
           NEW e \in Generation(play)!Link
    PROVE  /\ e[1] \in play.match /\ e[2] \in {"winner", "loser"} /\ e = <<e[1], e[2]>>
           /\ Generation(play)!To(e) = IF e[2] = "winner" THEN play.next[e[1]] ELSE play.drop[e[1]]
           /\ Generation(play)!To(e) # NoMatch => Generation(play)!To(e) \in ms
           /\ \A x \in play.match : Generation(play)!To(e) = x =>
                /\ e[1] \in ms /\ x \in ms
                /\ e[1] \in IF e[2] = "winner" THEN won[x] ELSE lost[x]
  <1>1. e[1] \in play.match /\ e[2] \in {"winner", "loser"} /\ e = <<e[1], e[2]>>
    BY DEF Generation!Link
  <1>2. Generation(play)!To(e) = IF e[2] = "winner" THEN play.next[e[1]] ELSE play.drop[e[1]]
    BY DEF Generation!To
  <1> DEFINE y == Generation(play)!To(e)
             m == e[1]
             s == e[2]
  <1>3. m \in play.match /\ s \in {"winner", "loser"} /\ y = IF s = "winner" THEN play.next[m] ELSE play.drop[m]
    BY <1>1, <1>2
  <1> HIDE DEF y, m, s
  <1>4. y # NoMatch => y \in ms /\ m \in ms
    BY <1>3 DEF Linked
  <1>5. ASSUME NEW x \in play.match, y = x
        PROVE  m \in ms /\ x \in ms /\ m \in IF s = "winner" THEN won[x] ELSE lost[x]
    BY <1>3, <1>4, <1>5 DEF Linked
  <1> QED
    BY <1>1, <1>2, <1>4, <1>5 DEF y, m, s

\* Links lead to later rounds, two at most to one match.
LEMMA HangsForward ==
    ASSUME NEW play, NEW ms, NEW won, NEW lost, Hung(ms, won, lost), Linked(play, ms, won, lost)
    PROVE  Generation(play)!LinksForward
  <1>1. \A m \in play.match : m[2] \in Nat
    BY DEF Hung, Linked
  <1>2. ASSUME NEW e \in Generation(play)!Link, Generation(play)!To(e) # NoMatch
        PROVE  /\ Generation(play)!To(e) \in play.match
               /\ e[1][2] < Generation(play)!To(e)[2]
    <2> DEFINE x == Generation(play)!To(e)
               m == e[1]
    <2>1. x \in ms /\ x \in play.match
      <3>1. x \in ms
        BY <1>2, LinksFrom
      <3> QED
        BY <3>1 DEF Linked
    <2>2. m \in won[x] \union lost[x]
      BY <2>1, LinksFrom
    <2> HIDE DEF x, m
    <2>3. m[2] < x[2]
      BY <2>1, <2>2 DEF Hung
    <2> QED
      BY <2>1, <2>3 DEF x, m
  <1>3. ASSUME NEW x \in play.match, NEW c \in Generation(play)!Link, NEW d \in Generation(play)!Link,
               NEW e \in Generation(play)!Link, Generation(play)!To(c) = x, Generation(play)!To(d) = x,
               Generation(play)!To(e) = x
        PROVE  c = d \/ d = e \/ c = e
    <2>1. \A l \in Generation(play)!Link : l = <<l[1], l[2]>> /\ l[2] \in {"winner", "loser"}
      BY LinksFrom
    <2>2. \A l \in Generation(play)!Link : Generation(play)!To(l) = x =>
            x \in ms /\ l[1] \in IF l[2] = "winner" THEN won[x] ELSE lost[x]
      BY LinksFrom
    <2>3. x \in ms /\ (x[2] = 1 => won[x] = {} /\ lost[x] = {})
      BY <1>3, <2>2 DEF Hung
    <2>4. x[2] # 1
      BY <1>3, <2>2, <2>3
    <2>5. CASE FromWinners(ms, won, lost, x)
      BY <1>3, <2>1, <2>2, <2>5 DEF FromWinners
    <2>6. CASE FromBoth(ms, won, lost, x)
      BY <1>3, <2>1, <2>2, <2>6 DEF FromBoth
    <2>7. CASE FromLosers(ms, won, lost, x)
      BY <1>3, <2>1, <2>2, <2>7 DEF FromLosers
    <2> QED
      BY <2>3, <2>4, <2>5, <2>6, <2>7 DEF Hung
  <1>4. [m \in play.match |-> m[2]] \in [play.match -> Nat]
    BY <1>1
  <1>5. \A e \in Generation(play)!Link : e[1] \in play.match
    BY DEF Generation!Link
  <1>6. ASSUME NEW e \in Generation(play)!Link, Generation(play)!To(e) # NoMatch
        PROVE  /\ Generation(play)!To(e) \in play.match
               /\ [m \in play.match |-> m[2]][e[1]] < [m \in play.match |-> m[2]][Generation(play)!To(e)]
    BY <1>2, <1>5, <1>6
  <1>7. \A x \in play.match : \A c, d, e \in Generation(play)!Into(Generation(play)!Link, x) :
           c = d \/ d = e \/ c = e
    BY <1>3 DEF Generation!Into
  <1> QED
    BY <1>4, <1>6, <1>7 DEF Generation!LinksForward

\* Play reads who is in a match as generation wrote it.
LEMMA SeatsAlike ==
    ASSUME NEW play, NEW row
    PROVE  /\ Generation(play)!Seated(row) = Seated(row)
           /\ Generation(play)!Full(row) <=> Full(row)
  <1>1. Generation(play)!Seated(row) = Seated(row)
    BY DEF Generation!Seated, Seated
  <1>2. Generation(play)!Full(row) <=> Full(row)
    BY DEF Generation!Full, Full
  <1> QED
    BY <1>1, <1>2

\* Who sits in a match that can be played.
LEMMA PlayableAre ==
    ASSUME NEW play, NEW field, NEW ms, NEW won, NEW lost, NEW byes,
           Hung(ms, won, lost), Linked(play, ms, won, lost),
           Filled(play.rows, field, ms, won, lost, byes), NEW m \in play.match
    PROVE  Generation(play)!Playable(play.rows[m]) <=>
              /\ m \in ms /\ m \notin byes
              /\ m \notin Dead(ms, won, lost, byes)
  <1>1. CASE m \notin ms
    <2>1. play.rows[m].status = "absent"
      BY <1>1 DEF Linked
    <2> QED
      BY <1>1, <2>1 DEF Generation!Playable
  <1>2. CASE m \in byes \/ m \in Dead(ms, won, lost, byes)
    <2>1. play.rows[m].status = "bye"
      BY <1>2 DEF Filled
    <2> QED
      BY <1>2, <2>1 DEF Generation!Playable
  <1>3. CASE m \in ms /\ m \notin byes /\ m \notin Dead(ms, won, lost, byes)
    <2>1. play.rows[m].status = "pending"
      BY <1>3 DEF Filled
    <2> QED
      BY <1>3, <2>1 DEF Generation!Playable
  <1> QED
    BY <1>1, <1>2, <1>3

\* Every team starts in one match: where round 1 seats it, or one round on.
LEMMA EntrantsStart ==
    ASSUME NEW play, NEW ms, NEW won, NEW lost, NEW byes,
           Hung(ms, won, lost), Linked(play, ms, won, lost),
           Filled(play.rows, play.team, ms, won, lost, byes)
    PROVE  Generation(play)!Entrants
  <1> DEFINE rows == play.rows
             dead == Dead(ms, won, lost, byes)
  <1>0. /\ byes \subseteq {m \in ms : m[2] = 1} /\ ms \subseteq play.match
        /\ \A m \in dead : m[2] # 1 /\ won[m] = {}
        /\ won \in [ms -> SUBSET ms]
        /\ \A x, y \in ms : won[x] \intersect won[y] # {} => x = y
        /\ \A m \in ms : m[2] = 1 => won[m] = {}
    BY DEF Filled, Linked, Dead, Hung
  <1>1. \A m \in play.match : Generation(play)!Playable(rows[m]) <=> m \in ms /\ m \notin byes /\ m \notin dead
    BY PlayableAre
  <1>2. \A row : Generation(play)!Seated(row) = Seated(row)
    BY DEF Generation!Seated, Seated
  <1>3. /\ \A t \in play.team : \E m \in ms : m[2] = 1 /\ t \in Seated(rows[m])
        /\ \A m, d \in ms : m[2] = 1 /\ d[2] = 1 /\ Seated(rows[m]) \intersect Seated(rows[d]) # {} => m = d
        /\ \A m \in byes : /\ Seated(rows[m]) = {rows[m].teamA}
                           /\ \E x \in ms : m \in won[x]
        /\ \A x \in ms : x[2] # 1 /\ x \notin dead =>
              Seated(rows[x]) = {rows[m].teamA : m \in byes \intersect won[x]}
    BY DEF Filled
  <1> HIDE DEF rows, dead
  <1>4. ASSUME NEW t \in play.team PROVE \E m \in ms : m \notin byes /\ m \notin dead /\ t \in Seated(rows[m])
    <2>1. PICK m \in ms : m[2] = 1 /\ t \in Seated(rows[m])
      BY <1>3
    <2>2. CASE m \notin byes
      BY <1>0, <2>1, <2>2
    <2>3. CASE m \in byes
      <3>1. PICK x \in ms : m \in won[x]
        BY <1>3, <2>3
      <3>2. x \notin dead /\ x[2] # 1
        BY <1>0, <3>1
      <3>3. t = rows[m].teamA
        BY <1>3, <2>1, <2>3
      <3>4. t \in Seated(rows[x])
        BY <1>3, <2>3, <3>1, <3>2, <3>3
      <3>5. x \notin byes
        BY <1>0, <3>2
      <3> QED
        BY <3>2, <3>4, <3>5
    <2> QED
      BY <2>2, <2>3
  \* Where a team sits in a match that can be played, seen from round 1.
  <1>5. ASSUME NEW m \in ms, m \notin byes, m \notin dead, NEW t \in Seated(rows[m])
        PROVE  \/ m[2] = 1
               \/ \E d \in byes : d \in won[m] /\ t \in Seated(rows[d])
    BY <1>3, <1>5
  <1>6. ASSUME NEW m \in ms, NEW x \in ms, m \notin byes, m \notin dead, x \notin byes, x \notin dead,
               NEW t \in Seated(rows[m]), t \in Seated(rows[x])
        PROVE  m = x
    <2>1. CASE m[2] = 1 /\ x[2] = 1
      BY <1>3, <1>6, <2>1
    <2>2. CASE m[2] = 1 /\ \E d \in byes : d \in won[x] /\ t \in Seated(rows[d])
      BY <1>0, <1>3, <1>6, <2>2
    <2>3. CASE x[2] = 1 /\ \E d \in byes : d \in won[m] /\ t \in Seated(rows[d])
      BY <1>0, <1>3, <1>6, <2>3
    <2>4. CASE (\E d \in byes : d \in won[x] /\ t \in Seated(rows[d]))
               /\ (\E d \in byes : d \in won[m] /\ t \in Seated(rows[d]))
      <3>1. PICK d \in byes, e \in byes : d \in won[x] /\ t \in Seated(rows[d]) /\ e \in won[m] /\ t \in Seated(rows[e])
        BY <2>4
      <3>2. d = e
        BY <1>0, <1>3, <3>1
      <3> QED
        BY <1>0, <3>1, <3>2
    <2> QED
      BY <1>5, <1>6, <2>1, <2>2, <2>3, <2>4
  <1>7. \A t \in play.team : \E m \in play.match :
           Generation(play)!Playable(rows[m]) /\ t \in Generation(play)!Seated(rows[m])
    BY <1>0, <1>1, <1>2, <1>4
  <1>8. ASSUME NEW m \in play.match, NEW x \in play.match,
               Generation(play)!Playable(rows[m]), Generation(play)!Playable(rows[x]),
               Generation(play)!Seated(rows[m]) \intersect Generation(play)!Seated(rows[x]) # {}
        PROVE  m = x
    BY <1>1, <1>2, <1>6, <1>8
  <1> QED
    BY <1>7, <1>8 DEF Generation!Entrants, rows

\* What is still to be sent to x: winners and losers of matches to be played.
StillSent(ms, won, lost, byes, x, owed) ==
    LET out(m) == m \in byes \/ m \in Dead(ms, won, lost, byes)
    IN  /\ \A e \in owed : /\ x \in ms /\ e[1] \in ms /\ ~out(e[1]) /\ e = <<e[1], e[2]>>
                           /\ \/ e[2] = "winner" /\ e[1] \in won[x]
                              \/ e[2] = "loser" /\ e[1] \in lost[x]
        /\ \A m \in ms : ~out(m) =>
              /\ x \in ms /\ m \in won[x] => <<m, "winner">> \in owed
              /\ x \in ms /\ m \in lost[x] => <<m, "loser">> \in owed

\* Whose links are still to send a team.
LEMMA StillOwed ==
    ASSUME NEW play, NEW field, NEW ms, NEW won, NEW lost, NEW byes,
           Hung(ms, won, lost), Linked(play, ms, won, lost),
           Filled(play.rows, field, ms, won, lost, byes), NEW x \in play.match
    PROVE  StillSent(ms, won, lost, byes, x, Generation(play)!Into(Generation(play)!Owed(play.rows), x))
  <1> DEFINE owed == Generation(play)!Into(Generation(play)!Owed(play.rows), x)
             dead == Dead(ms, won, lost, byes)
  <1>1. \A m \in ms : Generation(play)!Over(play.rows[m]) <=> m \in byes \/ m \in dead
    BY DEF Filled, Generation!Over
  <1>2. ms \subseteq play.match
    BY DEF Linked
  <1>3. \A e : e \in owed <=> /\ e \in Generation(play)!Link /\ ~Generation(play)!Over(play.rows[e[1]])
                             /\ Generation(play)!To(e) = x
    BY DEF Generation!Into, Generation!Owed
  <1> HIDE DEF owed, dead
  <1>4. ASSUME NEW e \in owed
        PROVE  /\ x \in ms /\ e[1] \in ms /\ e[1] \notin byes /\ e[1] \notin dead /\ e = <<e[1], e[2]>>
               /\ \/ e[2] = "winner" /\ e[1] \in won[x]
                  \/ e[2] = "loser" /\ e[1] \in lost[x]
    <2>1. /\ e[1] \in ms /\ x \in ms /\ e = <<e[1], e[2]>> /\ e[2] \in {"winner", "loser"}
          /\ e[1] \in IF e[2] = "winner" THEN won[x] ELSE lost[x]
      BY <1>3, LinksFrom
    <2> QED
      BY <1>1, <1>3, <2>1
  <1>5. ASSUME NEW m \in ms, m \notin byes, m \notin dead, x \in ms
        PROVE  /\ m \in won[x] => <<m, "winner">> \in owed
               /\ m \in lost[x] => <<m, "loser">> \in owed
    <2>1. /\ <<m, "winner">> \in Generation(play)!Link /\ <<m, "loser">> \in Generation(play)!Link
          /\ Generation(play)!To(<<m, "winner">>) = play.next[m]
          /\ Generation(play)!To(<<m, "loser">>) = play.drop[m]
      BY <1>2 DEF Generation!Link, Generation!To
    <2>2. (play.next[m] = x <=> m \in won[x]) /\ (play.drop[m] = x <=> m \in lost[x])
      BY <1>5 DEF Linked
    <2>3. ~Generation(play)!Over(play.rows[m])
      BY <1>1, <1>5
    <2> QED
      BY <1>3, <2>1, <2>2, <2>3
  <1> QED
    BY <1>4, <1>5 DEF StillSent, owed, dead

\* Every slot is accounted for.
LEMMA SlotsAccounted ==
    ASSUME NEW play, NEW field, NEW ms, NEW won, NEW lost, NEW byes,
           Hung(ms, won, lost), Linked(play, ms, won, lost),
           Filled(play.rows, field, ms, won, lost, byes)
    PROVE  Generation(play)!Flow(play.rows, Generation(play)!Owed(play.rows))
  <1> DEFINE owed(x) == Generation(play)!Into(Generation(play)!Owed(play.rows), x)
             dead == Dead(ms, won, lost, byes)
             out(m) == m \in byes \/ m \in dead
             rows == play.rows
  <1>o. \A x \in play.match : StillSent(ms, won, lost, byes, x, owed(x))
    BY StillOwed
  <1>1. ASSUME NEW x \in play.match
        PROVE  /\ \A e \in owed(x) : /\ x \in ms /\ e[1] \in ms /\ ~out(e[1]) /\ e = <<e[1], e[2]>>
                                     /\ \/ e[2] = "winner" /\ e[1] \in won[x]
                                        \/ e[2] = "loser" /\ e[1] \in lost[x]
               /\ \A m \in ms : ~out(m) =>
                     /\ x \in ms /\ m \in won[x] => <<m, "winner">> \in owed(x)
                     /\ x \in ms /\ m \in lost[x] => <<m, "loser">> \in owed(x)
    <2> HIDE DEF owed
    <2> QED
      BY <1>o DEF StillSent
  <1>2. \A m \in play.match : Generation(play)!Playable(rows[m]) <=> m \in ms /\ ~out(m)
    BY PlayableAre
  <1>3. \A row : Generation(play)!Seated(row) = Seated(row) /\ (Generation(play)!Full(row) <=> Full(row))
    BY SeatsAlike
  <1>4. /\ \A m \in byes : m \in ms /\ m[2] = 1
        /\ \A m \in dead : m[2] # 1 /\ won[m] = {} /\ lost[m] \subseteq byes
        /\ \A x \in ms : x[2] # 1 /\ won[x] = {} /\ lost[x] \subseteq byes => x \in dead
        /\ \A x \in ms : won[x] \subseteq ms /\ lost[x] \subseteq ms
        /\ \A x \in ms : x[2] = 1 => won[x] = {} /\ lost[x] = {}
    BY DEF Filled, Dead, Hung
  <1>5. ASSUME NEW x \in ms, x[2] # 1, x \notin dead
        PROVE  /\ Seated(rows[x]) = {rows[m].teamA : m \in byes \intersect won[x]}
               /\ Full(rows[x]) <=> \E m, d \in byes \intersect won[x] : m # d
    BY <1>5 DEF Filled
  <1>6. \A x \in ms : x[2] = 1 /\ x \notin byes => Full(rows[x])
    BY DEF Filled
  <1>f. \A x \in ms : x[2] # 1 =>
          \/ FromWinners(ms, won, lost, x)
          \/ FromBoth(ms, won, lost, x)
          \/ FromLosers(ms, won, lost, x)
    BY DEF Hung
  <1>m. ms \subseteq play.match
    BY DEF Linked
  <1> HIDE DEF owed, dead, rows
  <1>7. ASSUME NEW x \in ms, x[2] # 1, x \notin dead
        PROVE  /\ owed(x) # {} => ~Full(rows[x])
               /\ (\E d, e \in owed(x) : d # e) => Seated(rows[x]) = {}
               /\ Full(rows[x]) \/ owed(x) # {}
               /\ \/ Seated(rows[x]) # {}
                  \/ \E d, e \in owed(x) : d # e
                  \/ \A e \in owed(x) : e[2] = "loser"
    <2>1. CASE FromWinners(ms, won, lost, x)
      <3>1. PICK m \in ms, d \in ms : /\ m # d /\ won[x] = {m, d} /\ lost[x] = {}
                                      /\ m \notin dead /\ d \notin dead
        BY <1>4, <2>1 DEF FromWinners
      <3>2. \A e \in owed(x) : e \in {<<m, "winner">>, <<d, "winner">>} /\ e[1] \notin byes
        BY <1>1, <1>m, <3>1
      <3>3. (m \notin byes => <<m, "winner">> \in owed(x)) /\ (d \notin byes => <<d, "winner">> \in owed(x))
        BY <1>1, <1>m, <3>1
      <3>4. /\ Seated(rows[x]) = {rows[z].teamA : z \in byes \intersect {m, d}}
            /\ Full(rows[x]) <=> m \in byes /\ d \in byes
        BY <1>5, <1>7, <3>1
      <3>5. CASE m \in byes /\ d \in byes
        BY <3>2, <3>4, <3>5
      <3>6. CASE m \in byes /\ d \notin byes
        BY <3>2, <3>3, <3>4, <3>6
      <3>7. CASE m \notin byes /\ d \in byes
        BY <3>2, <3>3, <3>4, <3>7
      <3>8. CASE m \notin byes /\ d \notin byes
        <4>1. <<m, "winner">> # <<d, "winner">>
          BY <3>1
        <4> QED
          BY <3>2, <3>3, <3>4, <3>8, <4>1
      <3> QED
        BY <3>5, <3>6, <3>7, <3>8
    <2>2. CASE FromBoth(ms, won, lost, x)
      <3>1. PICK m \in ms, d \in ms : won[x] = {m} /\ lost[x] = {d} /\ d \notin byes /\ d \notin dead
        BY <1>4, <2>2 DEF FromBoth
      <3>2. \A e \in owed(x) : \/ e = <<m, "winner">> /\ m \notin byes
                             \/ e = <<d, "loser">>
        BY <1>1, <1>m, <3>1
      <3>3. <<d, "loser">> \in owed(x) /\ (m \notin byes /\ m \notin dead => <<m, "winner">> \in owed(x))
        BY <1>1, <1>m, <3>1
      <3>4. Seated(rows[x]) = {rows[z].teamA : z \in byes \intersect {m}} /\ ~Full(rows[x])
        BY <1>5, <1>7, <3>1
      <3>5. <<m, "winner">> # <<d, "loser">> /\ <<d, "loser">>[2] = "loser"
        OBVIOUS
      <3>6. CASE m \in byes
        BY <3>2, <3>3, <3>4, <3>6
      <3>7. CASE m \notin byes /\ m \notin dead
        BY <3>2, <3>3, <3>4, <3>5, <3>7
      <3>8. CASE m \in dead /\ m \notin byes
        <4>1. \A e \in owed(x) : e = <<d, "loser">>
          BY <1>1, <1>m, <3>2, <3>8
        <4> QED
          BY <3>3, <3>4, <3>5, <3>8, <4>1
      <3> QED
        BY <3>6, <3>7, <3>8
    <2>3. CASE FromLosers(ms, won, lost, x)
      <3>1. PICK m \in ms, d \in ms : m # d /\ won[x] = {} /\ lost[x] = {m, d} /\ m \notin dead /\ d \notin dead
        BY <1>4, <2>3 DEF FromLosers
      <3>2. \A e \in owed(x) : e[2] = "loser"
        BY <1>1, <1>m, <3>1
      <3>3. \E z \in {m, d} : z \notin byes
        BY <1>4, <1>7, <3>1
      <3>4. owed(x) # {}
        BY <1>1, <1>m, <3>1, <3>3
      <3>5. Seated(rows[x]) = {} /\ ~Full(rows[x])
        BY <1>5, <1>7, <3>1
      <3> QED
        BY <3>2, <3>4, <3>5
    <2> QED
      BY <1>7, <1>f, <2>1, <2>2, <2>3
  <1>8. ASSUME NEW x \in play.match, owed(x) # {}
        PROVE  x \in ms /\ x[2] # 1 /\ x \notin dead
    BY <1>1, <1>4, <1>8
  <1>9. Generation(play)!Room(rows, Generation(play)!Owed(rows))
    <2>1. ASSUME NEW x \in play.match
          PROVE  /\ owed(x) # {} => ~Full(rows[x])
                 /\ (\E d, e \in owed(x) : d # e) => Seated(rows[x]) = {}
      BY <1>7, <1>8
    <2> QED
      BY <1>3, <2>1 DEF Generation!Room, Generation!RoomIn, owed, rows
  <1>10. Generation(play)!Fed(rows, Generation(play)!Owed(rows))
    <2>1. ASSUME NEW x \in play.match, Generation(play)!Playable(rows[x])
          PROVE  /\ Full(rows[x]) \/ owed(x) # {}
                 /\ \/ Seated(rows[x]) # {}
                    \/ \E d, e \in owed(x) : d # e
                    \/ \A e \in owed(x) : e[2] = "loser"
      <3>1. x \in ms /\ x \notin byes /\ x \notin dead
        BY <1>2, <2>1
      <3>2. CASE x[2] = 1
        <4>1. Full(rows[x]) /\ owed(x) = {}
          BY <1>6, <1>8, <3>1, <3>2
        <4> QED
          BY <4>1
      <3> QED
        BY <1>7, <3>1, <3>2
    <2> QED
      BY <1>3, <2>1 DEF Generation!Fed, Generation!FedIn, owed, rows
  <1>11. Generation(play)!Awaited(rows, Generation(play)!Owed(rows))
    <2>1. ASSUME NEW e \in Generation(play)!Owed(rows), Generation(play)!To(e) # NoMatch
          PROVE  Generation(play)!Playable(rows[Generation(play)!To(e)])
      <3> DEFINE x == Generation(play)!To(e)
      <3>1. e \in Generation(play)!Link
        BY DEF Generation!Owed
      <3>2. x \in ms
        BY <2>1, <3>1, LinksFrom
      <3>3. e \in owed(x)
        BY DEF Generation!Into, owed, rows
      <3> HIDE DEF x
      <3>4. x \in ms /\ x[2] # 1 /\ x \notin dead
        BY <1>8, <1>m, <3>2, <3>3
      <3>5. x \notin byes
        BY <1>4, <3>4
      <3> QED
        BY <1>2, <1>m, <3>4, <3>5 DEF x
    <2> QED
      BY <2>1 DEF Generation!Awaited
  <1> QED
    BY <1>9, <1>10, <1>11 DEF Generation!Flow, rows

-----------------------------------------------------------------------------
(* The shape of the two elimination brackets.                              *)

\* A match of the tree has two feeders in the round before, and all but the
\* last feed one match.
FedBy(side, x) == Pair(side, x[2] - 1, x[3])

FeedsAsTree(tree, side, k) ==
    /\ <<side, k, 1>> \in tree /\ \A m \in tree : m[2] = k => m = <<side, k, 1>>
    /\ \A x \in tree : /\ WinnerFeeders(k, x) = IF x[2] = 1 THEN {} ELSE FedBy(side, x)
                       /\ LoserFeeders(k, x) = {}
    /\ \A x \in tree : x[2] # 1 =>
          \E m, d \in tree : m # d /\ FedBy(side, x) = {m, d} /\ m[2] = x[2] - 1 /\ d[2] = x[2] - 1
    /\ \A x, y \in tree : FedBy(side, x) \intersect FedBy(side, y) # {} => x = y
    /\ \A m \in tree : m[2] # k => \E x \in tree : x[2] = m[2] + 1 /\ m \in FedBy(side, x)

\* Every match of a tree but the first round is fed by two of the round before,
\* each but the last feeds one of the round after.
LEMMA TreeFeeds ==
    ASSUME NEW side \in {"single", "winners"}, NEW k \in Nat \ {0}
    PROVE  FeedsAsTree(TreeMatches(side, k), side, k)
  <1> DEFINE tree == TreeMatches(side, k)
             top == <<side, k, 1>>
  <1>1. \A m \in tree : m = <<side, m[2], m[3]>> /\ m[2] \in 1..k /\ m[3] \in 1..2^(k - m[2])
    BY TreeRounds
  <1>2. \A r \in 1..k : \A i \in 1..2^(k - r) : <<side, r, i>> \in tree
    BY TreeRounds
  <1>p. \A r \in 1..k : k - r \in Nat /\ 2^(k - r) \in Nat /\ (r # 1 => 2^(k - (r - 1)) = 2 * 2^(k - r))
    <2> SUFFICES ASSUME NEW r \in 1..k
                 PROVE  k - r \in Nat /\ 2^(k - r) \in Nat /\ (r # 1 => 2^(k - (r - 1)) = 2 * 2^(k - r))
      OBVIOUS
    <2> DEFINE e == k - r
    <2>1. e \in Nat /\ k - (r - 1) = e + 1
      OBVIOUS
    <2> HIDE DEF e
    <2>2. 2^e \in Nat /\ 2^(e + 1) = 2 * 2^e
      BY <2>1, PowerIsNat, PowerDoubles
    <2> QED
      BY <2>1, <2>2 DEF e
  <1> HIDE DEF tree
  <1>3. top \in tree /\ \A m \in tree : m[2] = k => m = top
    <2>1. k - k = 0 /\ k \in 1..k /\ 2^0 = 1
      BY PowerOfZero
    <2>2. 1 \in 1..2^(k - k) /\ \A i \in 1..2^(k - k) : i = 1
      BY <2>1
    <2>3. top \in tree
      BY <1>2, <2>1, <2>2
    <2>4. ASSUME NEW m \in tree, m[2] = k PROVE m = top
      BY <1>1, <2>2, <2>4
    <2> QED
      BY <2>3, <2>4
  <1>4. ASSUME NEW x \in tree
        PROVE  /\ WinnerFeeders(k, x) = IF x[2] = 1 THEN {} ELSE FedBy(side, x)
               /\ LoserFeeders(k, x) = {}
    <2>1. x[1] = side /\ x[1] \in {"single", "winners"}
      BY <1>1
    <2>2. x[1] # "losers"
      BY <2>1
    <2> QED
      BY <2>1, <2>2 DEF WinnerFeeders, LoserFeeders, FedBy
  <1>5. ASSUME NEW x \in tree, x[2] # 1
        PROVE  \E m, d \in tree : /\ m # d /\ FedBy(side, x) = {m, d}
                                  /\ m[2] = x[2] - 1 /\ d[2] = x[2] - 1
    <2> DEFINE r == x[2]
               i == x[3]
    <2>1. r \in 1..k /\ r # 1 /\ i \in 1..2^(k - r)
      BY <1>1, <1>5
    <2> HIDE DEF r, i
    <2>2. 2*i - 1 \in 1..2^(k - (r - 1)) /\ 2*i \in 1..2^(k - (r - 1)) /\ r - 1 \in 1..k
      <3> DEFINE h == 2^(k - r)
      <3>1. h \in Nat /\ 2^(k - (r - 1)) = 2 * h /\ i \in 1..h
        BY <1>p, <2>1
      <3> HIDE DEF h
      <3> QED
        BY <2>1, <3>1
    <2>3. /\ <<side, r - 1, 2*i - 1>> \in tree /\ <<side, r - 1, 2*i>> \in tree
          /\ <<side, r - 1, 2*i - 1>> # <<side, r - 1, 2*i>>
      BY <1>2, <2>1, <2>2
    <2>4. Pair(side, r - 1, i) = {<<side, r - 1, 2*i - 1>>, <<side, r - 1, 2*i>>}
      BY DEF Pair
    <2> QED
      BY <2>3, <2>4 DEF r, i, FedBy
  <1>6. ASSUME NEW x \in tree, NEW y \in tree,
               FedBy(side, x) \intersect FedBy(side, y) # {}
        PROVE  x = y
    <2>1. /\ x = <<side, x[2], x[3]>> /\ x[2] \in 1..k /\ x[3] \in Nat
          /\ y = <<side, y[2], y[3]>> /\ y[2] \in 1..k /\ y[3] \in Nat
      BY <1>1, <1>p
    <2>2. PICK m \in FedBy(side, x) : m \in FedBy(side, y)
      BY <1>6
    <2>3. /\ m[2] = x[2] - 1 /\ m[2] = y[2] - 1 /\ m[3] \in {2 * x[3] - 1, 2 * x[3]}
          /\ m[3] \in {2 * y[3] - 1, 2 * y[3]}
      BY <2>2 DEF Pair, FedBy
    <2>4. x[2] = y[2] /\ x[3] = y[3]
      BY <2>1, <2>3
    <2> QED
      BY <2>1, <2>4
  <1>7. ASSUME NEW m \in tree, m[2] # k
        PROVE  \E x \in tree : x[2] = m[2] + 1 /\ m \in FedBy(side, x)
    <2> DEFINE r == m[2] + 1
               h == 2^(k - r)
               q == (m[3] + 1) \div 2
    <2>1. r \in 1..k /\ r # 1 /\ r - 1 = m[2] /\ m[3] \in 1..2^(k - m[2]) /\ m = <<side, r - 1, m[3]>>
      BY <1>1, <1>7
    <2>2. h \in Nat /\ 2^(k - (r - 1)) = 2 * h
      BY <1>p, <2>1
    <2>3. m[3] \in 1..2 * h
      BY <2>1, <2>2
    <2> HIDE DEF h, r
    <2>4. q \in 1..h /\ (m[3] = 2*q - 1 \/ m[3] = 2*q)
      BY <2>2, <2>3
    <2> HIDE DEF q
    <2>5. <<side, r, q>> \in tree
      BY <1>2, <2>1, <2>4 DEF h
    <2>6. m \in FedBy(side, <<side, r, q>>)
      BY <2>1, <2>4 DEF Pair, FedBy
    <2> QED
      BY <2>1, <2>5, <2>6 DEF r
  <1>8. \A x \in tree : /\ WinnerFeeders(k, x) = IF x[2] = 1 THEN {} ELSE FedBy(side, x)
                        /\ LoserFeeders(k, x) = {}
    BY <1>4
  <1>9. \A x \in tree : x[2] # 1 =>
           \E m, d \in tree : /\ m # d /\ FedBy(side, x) = {m, d}
                              /\ m[2] = x[2] - 1 /\ d[2] = x[2] - 1
    BY <1>5
  <1>10. \A x, y \in tree : FedBy(side, x) \intersect FedBy(side, y) # {} => x = y
    BY <1>6
  <1>11. \A m \in tree : m[2] # k => \E x \in tree : x[2] = m[2] + 1 /\ m \in FedBy(side, x)
    BY <1>7
  <1> QED
    <2>1. FeedsAsTree(tree, side, k)
      BY <1>3, <1>8, <1>9, <1>10, <1>11 DEF FeedsAsTree
    <2> QED
      BY <2>1 DEF tree

\* Who feeds whom in the bracket of one format.
WonBy(k, ms) == [x \in ms |-> WinnerFeeders(k, x)]
LostBy(fmt, k, ms) == [x \in ms |-> IF fmt = "double_elimination" THEN LoserFeeders(k, x) ELSE {}]

\* A single elimination bracket is one tree.
LEMMA SingleHangs ==
    ASSUME NEW k \in Nat \ {0}
    PROVE  LET ms == TreeMatches("single", k)
               won == WonBy(k, ms)
           IN  /\ Hung(ms, won, LostBy("single_elimination", k, ms))
               /\ \A m \in ms : (\A x \in ms : m \notin won[x]) => m = <<"single", k, 1>>
               /\ \A m \in ms : m[2] = 1 /\ k # 1 => \E x \in ms : m \in won[x]
  <1> DEFINE ms == TreeMatches("single", k)
             won == WonBy(k, ms)
             lost == LostBy("single_elimination", k, ms)
             fed(x) == FedBy("single", x)
  <1>1. /\ \A m \in ms : m[2] = k => m = <<"single", k, 1>>
        /\ \A x \in ms : WinnerFeeders(k, x) = IF x[2] = 1 THEN {} ELSE fed(x)
        /\ \A x \in ms : x[2] # 1 =>
              \E m, d \in ms : m # d /\ fed(x) = {m, d} /\ m[2] = x[2] - 1 /\ d[2] = x[2] - 1
        /\ \A x, y \in ms : fed(x) \intersect fed(y) # {} => x = y
        /\ \A m \in ms : m[2] # k => \E x \in ms : x[2] = m[2] + 1 /\ m \in fed(x)
    <2>1. FeedsAsTree(ms, "single", k)
      BY TreeFeeds
    <2> QED
      BY <2>1 DEF FeedsAsTree
  <1>2. \A m \in ms : m[2] \in 1..k
    BY TreeRounds
  <1>3. \A x \in ms : won[x] = IF x[2] = 1 THEN {} ELSE fed(x)
    BY <1>1 DEF WonBy
  <1>4. \A x \in ms : lost[x] = {}
    BY DEF LostBy
  <1> HIDE DEF ms, won, lost, fed
  <1>6. ASSUME NEW x \in ms, x[2] # 1
        PROVE  FromWinners(ms, won, lost, x) /\ won[x] \subseteq ms /\ \A m \in won[x] : m[2] < x[2]
    <2>1. PICK m \in ms, d \in ms : m # d /\ won[x] = {m, d} /\ m[2] = x[2] - 1 /\ d[2] = x[2] - 1
      BY <1>1, <1>3, <1>6
    <2>2. \A z \in {m, d} : z[2] = 1 \/ won[z] # {}
      BY <1>1, <1>3
    <2> QED
      BY <1>2, <1>4, <2>1, <2>2 DEF FromWinners
  <1>7. Hung(ms, won, lost)
    <2>1. won \in [ms -> SUBSET ms] /\ lost \in [ms -> SUBSET ms]
      <3>1. \A x \in ms : won[x] \in SUBSET ms
        BY <1>3, <1>6
      <3>2. \A x \in ms : lost[x] \in SUBSET ms
        BY <1>4
      <3>3. won \in [ms -> SUBSET ms]
        BY <3>1 DEF won, WonBy
      <3>4. lost \in [ms -> SUBSET ms]
        BY <3>2 DEF lost, LostBy
      <3> QED
        BY <3>3, <3>4
    <2>2. \A x \in ms : x[2] \in Nat
      BY <1>2
    <2>3. \A x, y \in ms : won[x] \intersect won[y] # {} \/ lost[x] \intersect lost[y] # {} => x = y
      BY <1>1, <1>3, <1>4
    <2>4. \A x \in ms : \A m \in won[x] \union lost[x] : m[2] < x[2]
      BY <1>3, <1>4, <1>6
    <2>5. \A x \in ms : x[2] = 1 => won[x] = {} /\ lost[x] = {}
      BY <1>3, <1>4
    <2> QED
      BY <1>6, <2>1, <2>2, <2>3, <2>4, <2>5 DEF Hung
  <1>8. ASSUME NEW m \in ms, m[2] # k PROVE \E x \in ms : m \in won[x]
    <2>1. PICK x \in ms : x[2] = m[2] + 1 /\ m \in fed(x)
      BY <1>1, <1>8
    <2>2. x[2] # 1
      BY <1>2, <2>1
    <2> QED
      BY <1>3, <2>1, <2>2
  <1> QED
    BY <1>1, <1>7, <1>8 DEF ms, won, lost

\* The losers bracket alternates: matches of a halving round (the first pairs
\* losers of round 1), then those that the losers of one winners round enter.
Halving(k, a, i) == <<"losers", k + 2*a - 1, i>>
Major(k, a, i) == <<"losers", k + 2*a, i>>
Width(k, a) == 2^(k - 1 - a)

\* Every part of the double elimination bracket with what feeds it.
DoubleParts(k, tree, ms, won, lost) ==
    /\ \A x \in ms : \/ x \in tree
                     \/ \E a \in 1..k-1 : \E i \in 1..Width(k, a) : x = Halving(k, a, i)
                     \/ \E a \in 1..k-1 : \E i \in 1..Width(k, a) : x = Major(k, a, i)
                     \/ x = <<"grand_final", 3*k - 1, 1>>
    /\ tree \subseteq ms /\ <<"grand_final", 3*k - 1, 1>> \in ms
    /\ \A x \in tree : won[x] = (IF x[2] = 1 THEN {} ELSE FedBy("winners", x)) /\ lost[x] = {}
    /\ \A a \in 1..k-1 : \A i \in 1..Width(k, a) :
          /\ Halving(k, a, i) \in ms /\ Major(k, a, i) \in ms
          /\ won[Halving(k, a, i)] = IF a = 1 THEN {} ELSE {Major(k, a - 1, 2*i - 1), Major(k, a - 1, 2*i)}
          /\ lost[Halving(k, a, i)] = IF a = 1 THEN {<<"winners", 1, 2*i - 1>>, <<"winners", 1, 2*i>>} ELSE {}
          /\ won[Major(k, a, i)] = {Halving(k, a, i)}
          /\ lost[Major(k, a, i)] = {<<"winners", a + 1, i>>}
    /\ won[<<"grand_final", 3*k - 1, 1>>] = {<<"winners", k, 1>>, Major(k, k - 1, 1)}
    /\ lost[<<"grand_final", 3*k - 1, 1>>] = {}

\* How wide the rounds are.
LEMMA Widths ==
    ASSUME NEW k \in Nat, k >= 2
    PROVE  /\ \A a \in 1..k-1 : /\ Width(k, a) \in Nat \ {0}
                                /\ a # 1 => Width(k, a - 1) = 2 * Width(k, a)
                                /\ Width(k, a) = 2^(k - (a + 1))
           /\ Width(k, k - 1) = 1
           /\ 2^(k - 1) = 2 * Width(k, 1)
  <1>1. ASSUME NEW a \in 1..k-1
        PROVE  /\ Width(k, a) \in Nat \ {0}
               /\ a # 1 => Width(k, a - 1) = 2 * Width(k, a)
               /\ Width(k, a) = 2^(k - (a + 1))
    <2> DEFINE e == k - 1 - a
    <2>1. e \in Nat /\ k - 1 - (a - 1) = e + 1 /\ k - (a + 1) = e
      OBVIOUS
    <2> HIDE DEF e
    <2>2. 2^e \in Nat /\ e < 2^e /\ 2^(e + 1) = 2 * 2^e
      BY <2>1, PowerIsNat, PowerDoubles, Powers
    <2> QED
      BY <2>1, <2>2 DEF Width, e
  <1>2. Width(k, k - 1) = 1
    <2>1. k - 1 - (k - 1) = 0
      OBVIOUS
    <2> QED
      BY <2>1, PowerOfZero DEF Width
  <1>3. 2^(k - 1) = 2 * Width(k, 1)
    <2>1. k - 2 \in Nat /\ k - 1 - 1 = k - 2 /\ k - 1 = (k - 2) + 1
      OBVIOUS
    <2>2. 2^((k - 2) + 1) = 2 * 2^(k - 2)
      BY <2>1, PowerDoubles
    <2> QED
      BY <2>1, <2>2 DEF Width
  <1> QED
    BY <1>1, <1>2, <1>3

\* The losers rounds two by two.
RoundPair(k, lr, a) ==
    /\ lr[2*a - 1].size = Width(k, a) /\ lr[2*a - 1].drop = IF a = 1 THEN 1 ELSE 0
    /\ lr[2*a].size = Width(k, a) /\ lr[2*a].drop = a + 1

\* The losers rounds come in pairs of one width.
LEMMA RoundsInPairs ==
    ASSUME NEW k \in Nat, k >= 2
    PROVE  /\ Len(LosersRounds(k)) = 2*k - 2
           /\ \A a \in 1..k-1 : RoundPair(k, LosersRounds(k), a)
           /\ \A j \in 1..2*k - 2 : \E a \in 1..k-1 : j = 2*a - 1 \/ j = 2*a
  <1>1. LosersRounds(k) = [j \in 1..2*k - 2 |-> LosersRound(k, j)]
    BY LosersRoundsAre
  <1>2. Len(LosersRounds(k)) = 2*k - 2
    <2>1. 2*k - 2 \in Nat
      OBVIOUS
    <2> QED
      BY <1>1, <2>1
  <1>3. ASSUME NEW a \in 1..k-1
        PROVE  RoundPair(k, LosersRounds(k), a)
    <2>1. /\ 2*a - 1 \in 1..2*k - 2 /\ 2*a \in 1..2*k - 2
          /\ (2*a - 1 - 1) \div 2 = a - 1 /\ (2*a - 1) \div 2 = a - 1
          /\ k - 2 - (a - 1) = k - 1 - a
          /\ (2*a) % 2 = 0 /\ (2*a - 1) % 2 = 1 /\ (2*a) \div 2 = a
          /\ 2*a # 1 /\ (2*a - 1 = 1 <=> a = 1)
      OBVIOUS
    <2>2. LosersRounds(k)[2*a - 1] = LosersRound(k, 2*a - 1) /\ LosersRounds(k)[2*a] = LosersRound(k, 2*a)
      BY <1>1, <2>1
    <2> DEFINE p == 2*a - 1
               q == 2*a
    <2>3. /\ (p - 1) \div 2 = a - 1 /\ (q - 1) \div 2 = a - 1 /\ k - 2 - (a - 1) = k - 1 - a
          /\ q % 2 = 0 /\ p % 2 # 0 /\ q \div 2 = a /\ q # 1 /\ (p = 1 <=> a = 1)
      BY <2>1
    <2> HIDE DEF p, q
    <2>4. LosersRound(k, p) = [size |-> Width(k, a), drop |-> IF a = 1 THEN 1 ELSE 0]
      BY <2>3 DEF LosersRound, Width
    <2>5. LosersRound(k, q) = [size |-> Width(k, a), drop |-> a + 1]
      BY <2>3 DEF LosersRound, Width
    <2> QED
      BY <2>2, <2>4, <2>5 DEF p, q, RoundPair
  <1>4. ASSUME NEW j \in 1..2*k - 2 PROVE \E a \in 1..k-1 : j = 2*a - 1 \/ j = 2*a
    <2> DEFINE a == (j + 1) \div 2
    <2>1. a \in 1..k-1 /\ (j = 2*a - 1 \/ j = 2*a)
      OBVIOUS
    <2> QED
      BY <2>1
  <1> QED
    BY <1>2, <1>3, <1>4

\* The parts of the bracket that is generated for 2^k entries.
LEMMA PartsOfDouble ==
    ASSUME NEW k \in Nat, k >= 2, NEW n
    PROVE  LET ms == MatchesOf("double_elimination", k, n)
           IN  /\ GrandFinal(k) = <<"grand_final", 3*k - 1, 1>>
               /\ \A m \in LosersMatches(k) : m[1] = "losers"
               /\ DoubleParts(k, TreeMatches("winners", k), ms, WonBy(k, ms), LostBy("double_elimination", k, ms))
  <1> DEFINE ms == MatchesOf("double_elimination", k, n)
             tree == TreeMatches("winners", k)
             won == WonBy(k, ms)
             lost == LostBy("double_elimination", k, ms)
             lr == LosersRounds(k)
             gf == <<"grand_final", 3*k - 1, 1>>
  <1>1. /\ Len(lr) = 2*k - 2
        /\ \A a \in 1..k-1 : RoundPair(k, lr, a)
        /\ \A j \in 1..2*k - 2 : \E a \in 1..k-1 : j = 2*a - 1 \/ j = 2*a
    BY RoundsInPairs
  <1>2. /\ \A a \in 1..k-1 : Width(k, a) \in Nat \ {0}
        /\ Width(k, k - 1) = 1
    BY Widths
  <1> HIDE DEF lr
  <1>3. GrandFinal(k) = gf
    <2>1. k + (2*k - 2) + 1 = 3*k - 1
      OBVIOUS
    <2> QED
      BY <1>1, <2>1 DEF GrandFinal, lr
  <1>4. ms = tree \union LosersMatches(k) \union {gf}
    BY <1>3 DEF MatchesOf
  <1>5. LosersMatches(k) = UNION {{<<"losers", k + j, i>> : i \in 1..lr[j].size} : j \in 1..2*k - 2}
    BY <1>1 DEF LosersMatches, lr
  <1>6. ASSUME NEW x \in LosersMatches(k)
        PROVE  /\ x[1] = "losers"
               /\ \/ \E a \in 1..k-1 : \E i \in 1..Width(k, a) : x = Halving(k, a, i)
                  \/ \E a \in 1..k-1 : \E i \in 1..Width(k, a) : x = Major(k, a, i)
    <2>1. PICK j \in 1..2*k - 2 : x \in {<<"losers", k + j, i>> : i \in 1..lr[j].size}
      BY <1>5
    <2>2. PICK i \in 1..lr[j].size : x = <<"losers", k + j, i>>
      BY <2>1
    <2>3. PICK a \in 1..k-1 : j = 2*a - 1 \/ j = 2*a
      BY <1>1
    <2>4. lr[j].size = Width(k, a)
      <3>1. RoundPair(k, lr, a)
        BY <1>1
      <3> QED
        BY <2>3, <3>1 DEF RoundPair
    <2>5. k + (2*a - 1) = k + 2*a - 1
      OBVIOUS
    <2> QED
      BY <2>2, <2>3, <2>4, <2>5 DEF Halving, Major
  <1>7. ASSUME NEW a \in 1..k-1, NEW i \in 1..Width(k, a)
        PROVE  /\ Halving(k, a, i) \in LosersMatches(k) /\ Major(k, a, i) \in LosersMatches(k)
    <2>1. 2*a - 1 \in 1..2*k - 2 /\ 2*a \in 1..2*k - 2 /\ k + (2*a - 1) = k + 2*a - 1
      OBVIOUS
    <2>2. lr[2*a - 1].size = Width(k, a) /\ lr[2*a].size = Width(k, a)
      <3>1. RoundPair(k, lr, a)
        BY <1>1
      <3> QED
        BY <3>1 DEF RoundPair
    <2>3. ASSUME NEW j \in 1..2*k - 2, i \in 1..lr[j].size PROVE <<"losers", k + j, i>> \in LosersMatches(k)
      <3>1. <<"losers", k + j, i>> \in {<<"losers", k + j, l>> : l \in 1..lr[j].size}
        BY <2>3
      <3> QED
        BY <1>5, <3>1
    <2> QED
      BY <2>1, <2>2, <2>3 DEF Halving, Major
  <1>8. ASSUME NEW a \in 1..k-1, NEW i \in 1..Width(k, a)
        PROVE  /\ WinnerFeeders(k, Halving(k, a, i)) =
                     IF a = 1 THEN {} ELSE {Major(k, a - 1, 2*i - 1), Major(k, a - 1, 2*i)}
               /\ LoserFeeders(k, Halving(k, a, i)) =
                     IF a = 1 THEN {<<"winners", 1, 2*i - 1>>, <<"winners", 1, 2*i>>} ELSE {}
    <2> DEFINE m == Halving(k, a, i)
    <2>1. /\ m[1] = "losers" /\ m[1] \notin {"single", "winners"} /\ m[1] # "grand_final"
          /\ m[2] = k + 2*a - 1 /\ m[3] = i
      BY DEF Halving
    <2> HIDE DEF m
    <2>2. /\ m[2] = k + 1 <=> a = 1
          /\ m[2] - k = 2*a - 1 /\ m[2] - 1 = k + 2 * (a - 1)
      BY <2>1
    <2>3. lr[m[2] - k].drop = IF a = 1 THEN 1 ELSE 0
      <3>1. RoundPair(k, lr, a)
        BY <1>1
      <3> QED
        BY <2>2, <3>1 DEF RoundPair
    <2>4. WinnerFeeders(k, m) = IF m[2] = k + 1 THEN {}
                                ELSE IF lr[m[2] - k].drop > 0 THEN {<<"losers", m[2] - 1, m[3]>>}
                                ELSE Pair("losers", m[2] - 1, m[3])
      BY <2>1 DEF WinnerFeeders, lr
    <2>5. LoserFeeders(k, m) = IF m[2] = k + 1 THEN Pair("winners", 1, m[3])
                               ELSE IF lr[m[2] - k].drop > 0 THEN {<<"winners", lr[m[2] - k].drop, m[3]>>}
                               ELSE {}
      BY <2>1 DEF LoserFeeders, lr
    <2>6. CASE a = 1
      BY <2>1, <2>2, <2>4, <2>5, <2>6 DEF Pair, m
    <2>7. CASE a # 1
      <3>1. WinnerFeeders(k, m) = Pair("losers", k + 2 * (a - 1), i)
        BY <2>1, <2>2, <2>3, <2>4, <2>7
      <3>2. LoserFeeders(k, m) = {}
        BY <2>2, <2>3, <2>5, <2>7
      <3> QED
        BY <2>7, <3>1, <3>2 DEF Pair, Major, m
    <2> QED
      BY <2>6, <2>7
  <1>9. ASSUME NEW a \in 1..k-1, NEW i \in 1..Width(k, a)
        PROVE  /\ WinnerFeeders(k, Major(k, a, i)) = {Halving(k, a, i)}
               /\ LoserFeeders(k, Major(k, a, i)) = {<<"winners", a + 1, i>>}
    <2> DEFINE m == Major(k, a, i)
    <2>1. /\ m[1] = "losers" /\ m[1] \notin {"single", "winners"} /\ m[1] # "grand_final"
          /\ m[2] = k + 2*a /\ m[3] = i
      BY DEF Major
    <2> HIDE DEF m
    <2>2. m[2] # k + 1 /\ m[2] - k = 2*a /\ m[2] - 1 = k + 2*a - 1
      BY <2>1
    <2>3. lr[m[2] - k].drop = a + 1 /\ a + 1 > 0
      <3>1. RoundPair(k, lr, a)
        BY <1>1
      <3> QED
        BY <2>2, <3>1 DEF RoundPair
    <2>4. WinnerFeeders(k, m) = IF m[2] = k + 1 THEN {}
                                ELSE IF lr[m[2] - k].drop > 0 THEN {<<"losers", m[2] - 1, m[3]>>}
                                ELSE Pair("losers", m[2] - 1, m[3])
      BY <2>1 DEF WinnerFeeders, lr
    <2>5. LoserFeeders(k, m) = IF m[2] = k + 1 THEN Pair("winners", 1, m[3])
                               ELSE IF lr[m[2] - k].drop > 0 THEN {<<"winners", lr[m[2] - k].drop, m[3]>>}
                               ELSE {}
      BY <2>1 DEF LoserFeeders, lr
    <2>6. WinnerFeeders(k, m) = {<<"losers", k + 2*a - 1, i>>}
      BY <2>1, <2>2, <2>3, <2>4
    <2>7. LoserFeeders(k, m) = {<<"winners", a + 1, i>>}
      BY <2>1, <2>2, <2>3, <2>5
    <2> QED
      BY <2>6, <2>7 DEF Halving, m
  <1>10. WinnerFeeders(k, gf) = {<<"winners", k, 1>>, Major(k, k - 1, 1)} /\ LoserFeeders(k, gf) = {}
    <2>1. gf[1] = "grand_final" /\ gf[1] # "losers" /\ gf[1] \notin {"single", "winners"}
      OBVIOUS
    <2> HIDE DEF gf
    <2>2. k - 1 \in 1..k-1 /\ 2 * (k - 1) = 2*k - 2 /\ k + (2*k - 2) = k + 2 * (k - 1)
      OBVIOUS
    <2>3. lr[Len(lr)].size = 1
      <3>1. RoundPair(k, lr, k - 1)
        BY <1>1, <2>2
      <3> QED
        BY <1>1, <1>2, <2>2, <3>1 DEF RoundPair
    <2>4. WinnerFeeders(k, gf) = {<<"winners", k, 1>>} \union
               (IF lr[Len(lr)].size = 1 THEN {<<"losers", k + Len(lr), 1>>} ELSE {})
      BY <2>1 DEF WinnerFeeders, lr
    <2>5. LoserFeeders(k, gf) = {}
      BY <2>1 DEF LoserFeeders
    <2> QED
      BY <1>1, <2>2, <2>3, <2>4, <2>5 DEF Major
  <1>11. \A x \in tree : /\ WinnerFeeders(k, x) = IF x[2] = 1 THEN {} ELSE FedBy("winners", x)
                         /\ LoserFeeders(k, x) = {}
    <2>1. FeedsAsTree(tree, "winners", k)
      BY TreeFeeds
    <2> QED
      BY <2>1 DEF FeedsAsTree
  <1>12. \A x \in ms : won[x] = WinnerFeeders(k, x) /\ lost[x] = LoserFeeders(k, x)
    BY DEF WonBy, LostBy
  <1> HIDE DEF ms, tree, won, lost, gf
  <1>13. DoubleParts(k, tree, ms, won, lost)
    <2>1. \A x \in ms : \/ x \in tree
                        \/ \E a \in 1..k-1 : \E i \in 1..Width(k, a) : x = Halving(k, a, i)
                        \/ \E a \in 1..k-1 : \E i \in 1..Width(k, a) : x = Major(k, a, i)
                        \/ x = gf
      BY <1>4, <1>6
    <2>2. tree \subseteq ms /\ gf \in ms /\ LosersMatches(k) \subseteq ms
      BY <1>4
    <2>3. \A x \in tree : won[x] = (IF x[2] = 1 THEN {} ELSE FedBy("winners", x)) /\ lost[x] = {}
      BY <1>11, <1>12, <2>2
    <2>4. \A a \in 1..k-1 : \A i \in 1..Width(k, a) :
             /\ Halving(k, a, i) \in ms /\ Major(k, a, i) \in ms
             /\ won[Halving(k, a, i)] = IF a = 1 THEN {} ELSE {Major(k, a - 1, 2*i - 1), Major(k, a - 1, 2*i)}
             /\ lost[Halving(k, a, i)] = IF a = 1 THEN {<<"winners", 1, 2*i - 1>>, <<"winners", 1, 2*i>>} ELSE {}
             /\ won[Major(k, a, i)] = {Halving(k, a, i)}
             /\ lost[Major(k, a, i)] = {<<"winners", a + 1, i>>}
      <3> SUFFICES ASSUME NEW a \in 1..k-1, NEW i \in 1..Width(k, a)
                   PROVE  /\ Halving(k, a, i) \in ms /\ Major(k, a, i) \in ms
                          /\ won[Halving(k, a, i)] = IF a = 1 THEN {} ELSE {Major(k, a - 1, 2*i - 1), Major(k, a - 1, 2*i)}
                          /\ lost[Halving(k, a, i)] = IF a = 1 THEN {<<"winners", 1, 2*i - 1>>, <<"winners", 1, 2*i>>} ELSE {}
                          /\ won[Major(k, a, i)] = {Halving(k, a, i)}
                          /\ lost[Major(k, a, i)] = {<<"winners", a + 1, i>>}
        OBVIOUS
      <3>1. Halving(k, a, i) \in ms /\ Major(k, a, i) \in ms
        BY <1>7, <2>2
      <3>2. /\ won[Halving(k, a, i)] = WinnerFeeders(k, Halving(k, a, i))
            /\ lost[Halving(k, a, i)] = LoserFeeders(k, Halving(k, a, i))
            /\ won[Major(k, a, i)] = WinnerFeeders(k, Major(k, a, i))
            /\ lost[Major(k, a, i)] = LoserFeeders(k, Major(k, a, i))
        BY <1>12, <3>1
      <3>3. /\ WinnerFeeders(k, Halving(k, a, i)) =
                  IF a = 1 THEN {} ELSE {Major(k, a - 1, 2*i - 1), Major(k, a - 1, 2*i)}
            /\ LoserFeeders(k, Halving(k, a, i)) =
                  IF a = 1 THEN {<<"winners", 1, 2*i - 1>>, <<"winners", 1, 2*i>>} ELSE {}
        BY <1>8
      <3>4. /\ WinnerFeeders(k, Major(k, a, i)) = {Halving(k, a, i)}
            /\ LoserFeeders(k, Major(k, a, i)) = {<<"winners", a + 1, i>>}
        BY <1>9
      <3> QED
        BY <3>1, <3>2, <3>3, <3>4
    <2>5. won[gf] = {<<"winners", k, 1>>, Major(k, k - 1, 1)} /\ lost[gf] = {}
      BY <1>10, <1>12, <2>2
    <2> QED
      BY <2>1, <2>2, <2>3, <2>4, <2>5 DEF DoubleParts, gf
  <1> QED
    BY <1>3, <1>6, <1>13 DEF ms, tree, won, lost, gf

\* Where the winner and the loser of a match go, if anywhere.
Up(k, m) ==
    IF (m[1] = "winners" /\ m[2] = k) \/ (m[1] = "losers" /\ m[2] = 3*k - 2) THEN <<"grand_final", 3*k - 1, 1>>
    ELSE IF m[1] = "losers" /\ (m[2] - k) % 2 = 1 THEN <<"losers", m[2] + 1, m[3]>>
    ELSE <<m[1], m[2] + 1, (m[3] + 1) \div 2>>

Down(k, m) ==
    IF m[2] = 1 THEN <<"losers", k + 1, (m[3] + 1) \div 2>> ELSE <<"losers", k + 2 * (m[2] - 1), m[3]>>

\* What a match of one part is fed by.
LEMMA PartIsFed ==
    ASSUME NEW k \in Nat, k >= 2, NEW ms, NEW won, NEW lost,
           DoubleParts(k, TreeMatches("winners", k), ms, won, lost), NEW x \in ms
    PROVE  /\ x[2] \in Nat \ {0}
           /\ \A m \in won[x] : m \in ms /\ x = Up(k, m) /\ m[2] \in Nat /\ m[2] < x[2]
           /\ \A m \in lost[x] : /\ m \in TreeMatches("winners", k) /\ x = Down(k, m) /\ m[2] < x[2]
                                 /\ x[1] = "losers"
           /\ x[2] = 1 => won[x] = {} /\ lost[x] = {}
           /\ x[2] # 1 => FromWinners(ms, won, lost, x) \/ FromBoth(ms, won, lost, x) \/ FromLosers(ms, won, lost, x)
  <1> DEFINE tree == TreeMatches("winners", k)
             gf == <<"grand_final", 3*k - 1, 1>>
  <1>1. /\ \A m \in tree : m = <<"winners", m[2], m[3]>> /\ m[2] \in 1..k /\ m[3] \in 1..2^(k - m[2])
        /\ \A r \in 1..k : \A i \in 1..2^(k - r) : <<"winners", r, i>> \in tree
    BY TreeRounds
  <1>2. /\ <<"winners", k, 1>> \in tree
        /\ \A z \in tree : z[2] # 1 =>
              \E m, d \in tree : m # d /\ FedBy("winners", z) = {m, d} /\ m[2] = z[2] - 1 /\ d[2] = z[2] - 1
    <2>1. FeedsAsTree(tree, "winners", k)
      BY TreeFeeds
    <2> QED
      BY <2>1 DEF FeedsAsTree
  <1>3. /\ \A a \in 1..k-1 : /\ Width(k, a) \in Nat \ {0}
                             /\ a # 1 => Width(k, a - 1) = 2 * Width(k, a)
                             /\ Width(k, a) = 2^(k - (a + 1))
        /\ Width(k, k - 1) = 1 /\ 2^(k - 1) = 2 * Width(k, 1)
    BY Widths
  <1>p. DoubleParts(k, tree, ms, won, lost)
    OBVIOUS
  <1> HIDE DEF tree, gf
  <1>4. /\ \/ x \in tree
           \/ \E a \in 1..k-1 : \E i \in 1..Width(k, a) : x = Halving(k, a, i)
           \/ \E a \in 1..k-1 : \E i \in 1..Width(k, a) : x = Major(k, a, i)
           \/ x = gf
        /\ tree \subseteq ms /\ gf \in ms
        /\ \A z \in tree : won[z] = (IF z[2] = 1 THEN {} ELSE FedBy("winners", z)) /\ lost[z] = {}
        /\ won[gf] = {<<"winners", k, 1>>, Major(k, k - 1, 1)} /\ lost[gf] = {}
    BY <1>p DEF DoubleParts, gf
  <1>5. ASSUME NEW a \in 1..k-1, NEW i \in 1..Width(k, a)
        PROVE  /\ Halving(k, a, i) \in ms /\ Major(k, a, i) \in ms
               /\ won[Halving(k, a, i)] = IF a = 1 THEN {} ELSE {Major(k, a - 1, 2*i - 1), Major(k, a - 1, 2*i)}
               /\ lost[Halving(k, a, i)] = IF a = 1 THEN {<<"winners", 1, 2*i - 1>>, <<"winners", 1, 2*i>>} ELSE {}
               /\ won[Major(k, a, i)] = {Halving(k, a, i)}
               /\ lost[Major(k, a, i)] = {<<"winners", a + 1, i>>}
    BY <1>p DEF DoubleParts
  <1>m. \A a \in 1..k-1 : \A i \in 1..Width(k, a) :
           Major(k, a, i) \in ms /\ won[Major(k, a, i)] = {Halving(k, a, i)}
    BY <1>5
  <1>6. CASE x \in tree
    <2>1. x = <<"winners", x[2], x[3]>> /\ x[2] \in 1..k /\ x[3] \in Nat
      BY <1>1, <1>6
    <2>2. lost[x] = {} /\ won[x] = IF x[2] = 1 THEN {} ELSE FedBy("winners", x)
      BY <1>4, <1>6
    <2>3. CASE x[2] = 1
      BY <2>1, <2>2, <2>3
    <2>4. CASE x[2] # 1
      <3>1. PICK m \in tree, d \in tree : m # d /\ FedBy("winners", x) = {m, d} /\ m[2] = x[2] - 1 /\ d[2] = x[2] - 1
        BY <1>2, <1>6, <2>4
      <3>2. ASSUME NEW z \in tree PROVE z[2] = 1 \/ won[z] # {}
        <4>1. CASE z[2] # 1
          <5>1. PICK y \in tree, w \in tree : FedBy("winners", z) = {y, w}
            BY <1>2, <4>1
          <5> QED
            BY <1>4, <4>1, <5>1
        <4> QED
          BY <4>1
      <3>3. FromWinners(ms, won, lost, x)
        BY <1>4, <2>2, <2>4, <3>1, <3>2 DEF FromWinners
      <3>4. ASSUME NEW z \in FedBy("winners", x) PROVE z \in ms /\ x = Up(k, z) /\ z[2] \in Nat /\ z[2] < x[2]
        <4>1. z \in tree /\ z[2] = x[2] - 1
          BY <3>1
        <4>2. z \in {<<"winners", x[2] - 1, 2 * x[3] - 1>>, <<"winners", x[2] - 1, 2 * x[3]>>}
          BY DEF FedBy, Pair
        <4> DEFINE r == x[2]
                   i == x[3]
        <4>3. x = <<"winners", r, i>> /\ r \in 1..k /\ i \in Nat
          BY <2>1
        <4>4. z[1] = "winners" /\ z[2] = r - 1 /\ (z[3] = 2*i - 1 \/ z[3] = 2*i)
          BY <4>2
        <4> HIDE DEF r, i
        <4>5. z[2] # k /\ z[2] + 1 = r /\ (z[3] + 1) \div 2 = i
          BY <4>3, <4>4
        <4>6. Up(k, z) = <<"winners", r, i>>
          BY <4>4, <4>5 DEF Up
        <4> QED
          BY <1>4, <2>1, <4>1, <4>3, <4>6
      <3> QED
        BY <2>1, <2>2, <2>4, <3>3, <3>4
    <2> QED
      BY <2>3, <2>4
  <1>7. ASSUME NEW a \in 1..k-1, NEW i \in 1..Width(k, a), x = Halving(k, a, i)
        PROVE  /\ x[2] \in Nat \ {0, 1} /\ x[1] = "losers"
               /\ \A m \in won[x] : m \in ms /\ x = Up(k, m) /\ m[2] \in Nat /\ m[2] < x[2]
               /\ \A m \in lost[x] : m \in tree /\ x = Down(k, m) /\ m[2] < x[2]
               /\ FromWinners(ms, won, lost, x) \/ FromLosers(ms, won, lost, x)
    <2>1. x[1] = "losers" /\ x[2] = k + 2*a - 1 /\ x[3] = i /\ x = <<"losers", k + 2*a - 1, i>> /\ i \in Nat \ {0}
      BY <1>3, <1>7 DEF Halving
    <2>2. CASE a = 1
      <3> DEFINE y == <<"winners", 1, 2*i - 1>>
                 z == <<"winners", 1, 2*i>>
      <3>1. won[x] = {} /\ lost[x] = {y, z}
        BY <1>5, <1>7, <2>2
      <3>2. 2*i - 1 \in 1..2^(k - 1) /\ 2*i \in 1..2^(k - 1) /\ 1 \in 1..k
        BY <1>3, <2>2
      <3>3. y \in tree /\ z \in tree /\ y # z /\ y[2] = 1 /\ z[2] = 1
        BY <1>1, <3>2
      <3>4. Down(k, y) = x /\ Down(k, z) = x
        <4>1. (2*i - 1 + 1) \div 2 = i /\ (2*i + 1) \div 2 = i /\ k + 2*a - 1 = k + 1
          BY <2>1, <2>2
        <4> QED
          BY <2>1, <4>1 DEF Down
      <3> HIDE DEF y, z
      <3>5. FromLosers(ms, won, lost, x)
        BY <1>4, <3>1, <3>3 DEF FromLosers
      <3> QED
        BY <2>1, <2>2, <3>1, <3>3, <3>4, <3>5
    <2>3. CASE a # 1
      <3> DEFINE b == a - 1
      <3>1. /\ b \in 1..k-1 /\ 2*i - 1 \in 1..Width(k, b) /\ 2*i \in 1..Width(k, b)
            /\ 2*i - 1 # 2*i /\ b # k - 1
        BY <1>3, <2>3
      <3> DEFINE y == Major(k, b, 2*i - 1)
                 z == Major(k, b, 2*i)
      <3>2. won[x] = {y, z} /\ lost[x] = {}
        BY <1>5, <1>7, <2>3
      <3>3. y \in ms /\ z \in ms /\ won[y] # {} /\ won[z] # {}
        <4>1. \A j \in 1..Width(k, b) : Major(k, b, j) \in ms /\ won[Major(k, b, j)] # {}
          <5> HIDE DEF b
          <5>1. b \in 1..k-1
            BY <3>1
          <5>2. \A j \in 1..Width(k, b) : Major(k, b, j) \in ms /\ won[Major(k, b, j)] = {Halving(k, b, j)}
            BY <1>m, <5>1
          <5> QED
            BY <5>2
        <4> DEFINE p == 2*i - 1
                   q == 2*i
        <4>2. p \in 1..Width(k, b) /\ q \in 1..Width(k, b)
          BY <3>1
        <4>3. /\ Major(k, b, p) \in ms /\ won[Major(k, b, p)] # {}
              /\ Major(k, b, q) \in ms /\ won[Major(k, b, q)] # {}
          <5> HIDE DEF p, q, b
          <5> QED
            BY <4>1, <4>2
        <4> QED
          BY <4>3
      <3>4. y # z /\ y[2] = k + 2*a - 2 /\ z[2] = k + 2*a - 2 /\ y[1] = "losers" /\ z[1] = "losers"
            /\ y[3] = 2*i - 1 /\ z[3] = 2*i
        BY <3>1 DEF Major
      <3> HIDE DEF y, z
      <3>5. /\ k + 2*a - 2 # 3*k - 2 /\ (k + 2*a - 2 - k) % 2 = 0 /\ k + 2*a - 2 + 1 = k + 2*a - 1
            /\ (2*i - 1 + 1) \div 2 = i /\ (2*i + 1) \div 2 = i
        BY <2>1
      <3>6. Up(k, y) = x /\ Up(k, z) = x
        BY <2>1, <3>4, <3>5 DEF Up
      <3>7. FromWinners(ms, won, lost, x)
        BY <3>2, <3>3, <3>4 DEF FromWinners
      <3> QED
        BY <2>1, <2>3, <3>2, <3>3, <3>4, <3>6, <3>7
    <2> QED
      BY <2>2, <2>3
  <1>8. ASSUME NEW a \in 1..k-1, NEW i \in 1..Width(k, a), x = Major(k, a, i)
        PROVE  /\ x[2] \in Nat \ {0, 1} /\ x[1] = "losers"
               /\ \A m \in won[x] : m \in ms /\ x = Up(k, m) /\ m[2] \in Nat /\ m[2] < x[2]
               /\ \A m \in lost[x] : m \in tree /\ x = Down(k, m) /\ m[2] < x[2]
               /\ FromBoth(ms, won, lost, x)
    <2> DEFINE y == Halving(k, a, i)
               z == <<"winners", a + 1, i>>
    <2>1. x[1] = "losers" /\ x[2] = k + 2*a /\ x = <<"losers", k + 2*a, i>> /\ i \in Nat \ {0}
      BY <1>3, <1>8 DEF Major
    <2>2. won[x] = {y} /\ lost[x] = {z} /\ y \in ms
      BY <1>5, <1>8
    <2>3. z \in tree /\ z[2] = a + 1 /\ z[3] = i
      <3>1. a + 1 \in 1..k /\ i \in 1..2^(k - (a + 1))
        BY <1>3
      <3> QED
        BY <1>1, <3>1
    <2>4. y[1] = "losers" /\ y[2] = k + 2*a - 1 /\ y[3] = i
      BY DEF Halving
    <2> HIDE DEF y, z
    <2>5. /\ k + 2*a - 1 # 3*k - 2 /\ (k + 2*a - 1 - k) % 2 = 1 /\ k + 2*a - 1 + 1 = k + 2*a
          /\ a + 1 # 1 /\ k + 2 * (a + 1 - 1) = k + 2*a
      OBVIOUS
    <2>6. Up(k, y) = x
      BY <2>1, <2>4, <2>5 DEF Up
    <2>7. Down(k, z) = x
      BY <2>1, <2>3, <2>5 DEF Down
    <2>8. FromBoth(ms, won, lost, x)
      <3>1. z[2] # 1
        BY <2>3
      <3>2. won[z] # {}
        <4>1. PICK v \in tree, w \in tree : FedBy("winners", z) = {v, w}
          BY <1>2, <2>3, <3>1
        <4> QED
          BY <1>4, <2>3, <3>1, <4>1
      <3> QED
        BY <1>4, <2>2, <2>3, <3>1, <3>2 DEF FromBoth
    <2> QED
      BY <2>1, <2>2, <2>3, <2>4, <2>6, <2>7, <2>8
  <1>9. CASE x = gf
    <2> DEFINE y == <<"winners", k, 1>>
               z == Major(k, k - 1, 1)
    <2>1. x[2] = 3*k - 1 /\ x[1] = "grand_final"
      BY <1>9 DEF gf
    <2>2. won[x] = {y, z} /\ lost[x] = {} /\ y \in tree
      BY <1>2, <1>4, <1>9
    <2>3. z \in ms /\ won[z] # {}
      <3> DEFINE a == k - 1
      <3>1. a \in 1..k-1 /\ 1 \in 1..Width(k, a)
        BY <1>3
      <3>2. Major(k, a, 1) \in ms /\ won[Major(k, a, 1)] # {}
        <4> HIDE DEF a
        <4>1. Major(k, a, 1) \in ms /\ won[Major(k, a, 1)] = {Halving(k, a, 1)}
          BY <1>m, <3>1
        <4> QED
          BY <4>1
      <3> QED
        BY <3>2
    <2>4. y[1] = "winners" /\ y[2] = k /\ z[1] = "losers" /\ z[2] = 3*k - 2 /\ y # z
      <3>1. k + 2 * (k - 1) = 3*k - 2
        OBVIOUS
      <3> QED
        BY <3>1 DEF Major
    <2> HIDE DEF y, z
    <2>5. Up(k, y) = gf /\ Up(k, z) = gf
      BY <2>4 DEF Up, gf
    <2>6. won[y] # {}
      <3>1. y[2] # 1
        BY <2>4
      <3>2. PICK v \in tree, w \in tree : FedBy("winners", y) = {v, w}
        BY <1>2, <2>2, <3>1
      <3> QED
        BY <1>4, <2>2, <3>1, <3>2
    <2>7. FromWinners(ms, won, lost, x)
      BY <1>4, <2>2, <2>3, <2>4, <2>6 DEF FromWinners
    <2> QED
      BY <1>4, <1>9, <2>1, <2>2, <2>3, <2>4, <2>5, <2>7
  <1> QED
    BY <1>4, <1>6, <1>7, <1>8, <1>9 DEF tree

\* The sides of the double elimination bracket, and where each sends its teams.
SidesLinked(ms, won, lost, gf) ==
    /\ \A m \in ms : m[1] \in {"winners", "losers", "grand_final"}
    /\ gf \in ms /\ gf[1] = "grand_final" /\ \A m \in ms : m[1] = "grand_final" => m = gf
    /\ \A x \in ms : \A m \in won[x] : m # gf /\ x[1] \in {m[1], "grand_final"}
    /\ \A m \in ms : m # gf => \E x \in ms : m \in won[x]
    /\ \A x \in ms : \A m \in lost[x] : m[1] = "winners" /\ x[1] = "losers"
    /\ \A m \in ms : m[1] = "winners" => \E x \in ms : m \in lost[x]
    /\ \A m, d \in won[gf] : m[1] = d[1] => m = d
    /\ \A m \in ms : m[2] = 1 => m[1] = "winners"
    /\ \A x \in ms : x[1] # "winners" => \A m \in won[x] : m[2] # 1

\* Who sends where, part by part.
LEMMA SidesOfDouble ==
    ASSUME NEW k \in Nat, k >= 2, NEW ms, NEW won, NEW lost,
           DoubleParts(k, TreeMatches("winners", k), ms, won, lost)
    PROVE  SidesLinked(ms, won, lost, <<"grand_final", 3*k - 1, 1>>)
  <1> DEFINE tree == TreeMatches("winners", k)
             gf == <<"grand_final", 3*k - 1, 1>>
  <1>1. /\ \A m \in tree : m = <<"winners", m[2], m[3]>> /\ m[2] \in 1..k /\ m[3] \in 1..2^(k - m[2])
        /\ \A r \in 1..k : \A i \in 1..2^(k - r) : <<"winners", r, i>> \in tree
    BY TreeRounds
  <1>2. /\ <<"winners", k, 1>> \in tree /\ \A m \in tree : m[2] = k => m = <<"winners", k, 1>>
        /\ \A m \in tree : m[2] # k => \E x \in tree : x[2] = m[2] + 1 /\ m \in FedBy("winners", x)
    <2>1. FeedsAsTree(tree, "winners", k)
      BY TreeFeeds
    <2> QED
      BY <2>1 DEF FeedsAsTree
  <1>3. /\ \A a \in 1..k-1 : /\ Width(k, a) \in Nat \ {0}
                             /\ a # 1 => Width(k, a - 1) = 2 * Width(k, a)
                             /\ Width(k, a) = 2^(k - (a + 1))
        /\ Width(k, k - 1) = 1 /\ 2^(k - 1) = 2 * Width(k, 1)
    BY Widths
  <1>f. ASSUME NEW x \in ms
        PROVE  /\ \A m \in won[x] : m \in ms /\ x = Up(k, m) /\ m[2] \in Nat /\ m[2] < x[2]
               /\ \A m \in lost[x] : m \in tree /\ x = Down(k, m) /\ m[2] < x[2] /\ x[1] = "losers"
    BY PartIsFed
  <1>p. DoubleParts(k, tree, ms, won, lost)
    OBVIOUS
  <1> HIDE DEF tree, gf
  <1>4. /\ \A x \in ms : \/ x \in tree
                         \/ \E a \in 1..k-1 : \E i \in 1..Width(k, a) : x = Halving(k, a, i)
                         \/ \E a \in 1..k-1 : \E i \in 1..Width(k, a) : x = Major(k, a, i)
                         \/ x = gf
        /\ tree \subseteq ms /\ gf \in ms
        /\ \A z \in tree : won[z] = (IF z[2] = 1 THEN {} ELSE FedBy("winners", z)) /\ lost[z] = {}
        /\ won[gf] = {<<"winners", k, 1>>, Major(k, k - 1, 1)} /\ lost[gf] = {}
    BY <1>p DEF DoubleParts, gf
  <1>5. \A a \in 1..k-1 : \A i \in 1..Width(k, a) :
           /\ Halving(k, a, i) \in ms /\ Major(k, a, i) \in ms
           /\ won[Halving(k, a, i)] = IF a = 1 THEN {} ELSE {Major(k, a - 1, 2*i - 1), Major(k, a - 1, 2*i)}
           /\ lost[Halving(k, a, i)] = IF a = 1 THEN {<<"winners", 1, 2*i - 1>>, <<"winners", 1, 2*i>>} ELSE {}
           /\ won[Major(k, a, i)] = {Halving(k, a, i)}
           /\ lost[Major(k, a, i)] = {<<"winners", a + 1, i>>}
    BY <1>p DEF DoubleParts
  <1>6. ASSUME NEW a \in 1..k-1, NEW i \in 1..Width(k, a)
        PROVE  /\ Halving(k, a, i)[1] = "losers" /\ Major(k, a, i)[1] = "losers"
               /\ Halving(k, a, i)[2] = k + 2*a - 1 /\ Major(k, a, i)[2] = k + 2*a
               /\ Halving(k, a, i)[2] >= 3 /\ Major(k, a, i)[2] >= 3
               /\ Halving(k, a, i)[3] = i /\ Major(k, a, i)[3] = i
    BY DEF Halving, Major
  <1>7. gf[1] = "grand_final" /\ gf[2] = 3*k - 1 /\ gf[2] >= 3
    BY DEF gf
  <1>8. ASSUME NEW m \in ms
        PROVE  \/ m \in tree /\ m[1] = "winners" /\ m[2] \in 1..k
               \/ m[1] = "losers" /\ m \notin tree /\ m[2] >= 3
               \/ m[1] = "grand_final" /\ m = gf /\ m \notin tree /\ m[2] >= 3
    <2>1. CASE m \in tree
      BY <1>1, <2>1
    <2>2. CASE \E a \in 1..k-1 : \E i \in 1..Width(k, a) : m = Halving(k, a, i)
      BY <1>1, <1>6, <2>2
    <2>3. CASE \E a \in 1..k-1 : \E i \in 1..Width(k, a) : m = Major(k, a, i)
      BY <1>1, <1>6, <2>3
    <2>4. CASE m = gf
      BY <1>1, <1>7, <2>4
    <2> QED
      BY <1>4, <2>1, <2>2, <2>3, <2>4
  <1>9. ASSUME NEW x \in ms, NEW m \in won[x] PROVE m # gf /\ x[1] \in {m[1], "grand_final"}
    <2>1. m \in ms /\ x = Up(k, m) /\ m[2] < x[2] /\ m[2] \in Nat
      BY <1>f
    <2>2. x[1] \in {m[1], "grand_final", "losers"} /\ (m[1] # "losers" => x[1] \in {m[1], "grand_final"})
      BY <2>1 DEF Up
    <2>3. m = gf => FALSE
      <3>1. ASSUME m = gf PROVE FALSE
        <4>1. x[1] = "grand_final"
          BY <1>7, <2>2, <3>1
        <4>2. x = gf
          BY <1>8, <4>1
        <4> QED
          BY <1>7, <2>1, <3>1, <4>2
      <3> QED
        BY <3>1
    <2> QED
      BY <2>2, <2>3
  <1>10. ASSUME NEW m \in ms, m # gf PROVE \E x \in ms : m \in won[x]
    <2>1. CASE m \in tree
      <3>1. CASE m[2] = k
        BY <1>2, <1>4, <2>1, <3>1
      <3>2. CASE m[2] # k
        <4>1. PICK x \in tree : x[2] = m[2] + 1 /\ m \in FedBy("winners", x)
          BY <1>2, <2>1, <3>2
        <4>2. x[2] # 1
          BY <1>1, <2>1, <4>1
        <4> QED
          BY <1>4, <4>1, <4>2
      <3> QED
        BY <3>1, <3>2
    <2>2. CASE \E a \in 1..k-1 : \E i \in 1..Width(k, a) : m = Halving(k, a, i)
      <3>0. PICK a \in 1..k-1 : \E i \in 1..Width(k, a) : m = Halving(k, a, i)
        BY <2>2
      <3>1. PICK i \in 1..Width(k, a) : m = Halving(k, a, i)
        BY <3>0
      <3>2. Major(k, a, i) \in ms /\ won[Major(k, a, i)] = {Halving(k, a, i)}
        BY <1>5
      <3> QED
        BY <3>1, <3>2
    <2>3. CASE \E a \in 1..k-1 : \E i \in 1..Width(k, a) : m = Major(k, a, i)
      <3>0. PICK a \in 1..k-1 : \E i \in 1..Width(k, a) : m = Major(k, a, i)
        BY <2>3
      <3>1. PICK i \in 1..Width(k, a) : m = Major(k, a, i)
        BY <3>0
      <3>2. CASE a = k - 1
        <4>1. i = 1
          BY <1>3, <3>2
        <4> QED
          BY <1>4, <3>1, <3>2, <4>1
      <3>3. CASE a # k - 1
        <4> DEFINE b == a + 1
                   q == (i + 1) \div 2
        <4>1. b \in 1..k-1 /\ b # 1 /\ b - 1 = a
          BY <3>3
        <4>2. Width(k, b) \in Nat /\ Width(k, a) = 2 * Width(k, b)
          <5> HIDE DEF b
          <5> QED
            BY <1>3, <4>1
        <4> DEFINE w == Width(k, b)
        <4>3. w \in Nat /\ i \in 1..2 * w
          BY <4>2
        <4> HIDE DEF w
        <4>4. q \in 1..w /\ (i = 2*q - 1 \/ i = 2*q)
          BY <4>3
        <4> HIDE DEF b, q
        <4>5. /\ Halving(k, b, q) \in ms
              /\ won[Halving(k, b, q)] = {Major(k, b - 1, 2*q - 1), Major(k, b - 1, 2*q)}
          BY <1>5, <4>1, <4>4 DEF w
        <4>6. m \in won[Halving(k, b, q)]
          BY <3>1, <4>1, <4>4, <4>5
        <4> QED
          BY <4>5, <4>6
      <3> QED
        BY <3>2, <3>3
    <2> QED
      BY <1>4, <1>10, <2>1, <2>2, <2>3
  <1>11. ASSUME NEW m \in tree PROVE \E x \in ms : m \in lost[x]
    <2>1. m = <<"winners", m[2], m[3]>> /\ m[2] \in 1..k /\ m[3] \in 1..2^(k - m[2])
      BY <1>1
    <2>2. CASE m[2] = 1
      <3> DEFINE q == (m[3] + 1) \div 2
                 w == Width(k, 1)
      <3>1. w \in Nat /\ m[3] \in 1..2 * w /\ 1 \in 1..k-1
        BY <1>3, <2>1, <2>2
      <3> HIDE DEF w
      <3>2. q \in 1..w /\ (m[3] = 2*q - 1 \/ m[3] = 2*q)
        BY <3>1
      <3> HIDE DEF q
      <3>3. /\ Halving(k, 1, q) \in ms
            /\ lost[Halving(k, 1, q)] = {<<"winners", 1, 2*q - 1>>, <<"winners", 1, 2*q>>}
        BY <1>5, <3>1, <3>2 DEF w
      <3>4. m \in lost[Halving(k, 1, q)]
        BY <2>1, <2>2, <3>2, <3>3
      <3> QED
        BY <3>3, <3>4
    <2>3. CASE m[2] # 1
      <3> DEFINE a == m[2] - 1
                 i == m[3]
      <3>1. a \in 1..k-1 /\ a + 1 = m[2]
        BY <2>1, <2>3
      <3>2. i \in 1..Width(k, a)
        <4>1. Width(k, a) = 2^(k - (a + 1))
          <5> HIDE DEF a
          <5> QED
            BY <1>3, <3>1
        <4> QED
          BY <2>1, <3>1, <4>1
      <3> HIDE DEF a
      <3>3. Major(k, a, i) \in ms /\ lost[Major(k, a, i)] = {<<"winners", a + 1, i>>}
        <4> HIDE DEF i
        <4> QED
          BY <1>5, <3>1, <3>2
      <3> QED
        BY <2>1, <3>1, <3>3
    <2> QED
      BY <2>2, <2>3
  <1>12. \A x \in ms : \A m \in lost[x] : m[1] = "winners" /\ x[1] = "losers"
    BY <1>1, <1>f
  <1>13. \A m, d \in won[gf] : m[1] = d[1] => m = d
    <2>1. Major(k, k - 1, 1)[1] = "losers" /\ <<"winners", k, 1>>[1] = "winners"
      BY DEF Major
    <2> QED
      BY <1>4, <2>1
  <1>14. ASSUME NEW x \in ms, x[1] # "winners", NEW m \in won[x] PROVE m[2] # 1
    <2>1. m \in ms
      BY <1>f
    <2>2. CASE m \in tree
      <3>1. x = Up(k, m) /\ m[1] = "winners"
        BY <1>1, <1>f, <2>2
      <3>2. m[2] = k
        BY <1>14, <3>1 DEF Up
      <3> QED
        BY <3>2
    <2> QED
      BY <1>8, <2>1, <2>2
  <1> QED
    <2>1. \A m \in ms : m[1] \in {"winners", "losers", "grand_final"}
      BY <1>8
    <2>2. gf \in ms /\ gf[1] = "grand_final" /\ \A m \in ms : m[1] = "grand_final" => m = gf
      BY <1>4, <1>7, <1>8
    <2>3. \A m \in ms : m[1] = "winners" => \E x \in ms : m \in lost[x]
      BY <1>8, <1>11
    <2>4. \A m \in ms : m[2] = 1 => m[1] = "winners"
      BY <1>8
    <2>5. SidesLinked(ms, won, lost, gf)
      BY <1>9, <1>10, <1>12, <1>13, <1>14, <2>1, <2>2, <2>3, <2>4 DEF SidesLinked
    <2> QED
      BY <2>5 DEF gf

\* A double elimination bracket hangs together.
LEMMA DoubleHangs ==
    ASSUME NEW k \in Nat, k >= 2, NEW n
    PROVE  LET ms == MatchesOf("double_elimination", k, n)
               won == WonBy(k, ms)
               lost == LostBy("double_elimination", k, ms)
           IN  /\ DoubleParts(k, TreeMatches("winners", k), ms, won, lost)
               /\ SidesLinked(ms, won, lost, GrandFinal(k))
               /\ Hung(ms, won, lost)
  <1> DEFINE ms == MatchesOf("double_elimination", k, n)
             won == WonBy(k, ms)
             lost == LostBy("double_elimination", k, ms)
  <1>1. /\ GrandFinal(k) = <<"grand_final", 3*k - 1, 1>>
        /\ DoubleParts(k, TreeMatches("winners", k), ms, won, lost)
    BY PartsOfDouble
  <1>w. won = [x \in ms |-> WinnerFeeders(k, x)]
    BY DEF WonBy
  <1>l. lost = [x \in ms |-> LoserFeeders(k, x)]
    BY DEF LostBy
  <1> HIDE DEF ms, won, lost
  <1>2. SidesLinked(ms, won, lost, GrandFinal(k))
    BY <1>1, SidesOfDouble
  <1>3. ASSUME NEW x \in ms
        PROVE  /\ x[2] \in Nat \ {0}
               /\ \A m \in won[x] : m \in ms /\ x = Up(k, m) /\ m[2] \in Nat /\ m[2] < x[2]
               /\ \A m \in lost[x] : m \in ms /\ x = Down(k, m) /\ m[2] < x[2]
               /\ x[2] = 1 => won[x] = {} /\ lost[x] = {}
               /\ x[2] # 1 => FromWinners(ms, won, lost, x) \/ FromBoth(ms, won, lost, x) \/ FromLosers(ms, won, lost, x)
    <2>1. TreeMatches("winners", k) \subseteq ms
      BY <1>1 DEF DoubleParts
    <2>2. /\ x[2] \in Nat \ {0}
          /\ \A m \in won[x] : m \in ms /\ x = Up(k, m) /\ m[2] \in Nat /\ m[2] < x[2]
          /\ \A m \in lost[x] : m \in TreeMatches("winners", k) /\ x = Down(k, m) /\ m[2] < x[2]
          /\ x[2] = 1 => won[x] = {} /\ lost[x] = {}
          /\ x[2] # 1 => FromWinners(ms, won, lost, x) \/ FromBoth(ms, won, lost, x) \/ FromLosers(ms, won, lost, x)
      BY <1>1, PartIsFed
    <2> QED
      BY <2>1, <2>2
  <1>4. Hung(ms, won, lost)
    <2>1. won \in [ms -> SUBSET ms]
      <3>1. \A x \in ms : WinnerFeeders(k, x) \in SUBSET ms
        BY <1>3, <1>w
      <3> QED
        BY <1>w, <3>1
    <2>2. lost \in [ms -> SUBSET ms]
      <3>1. \A x \in ms : LoserFeeders(k, x) \in SUBSET ms
        BY <1>3, <1>l
      <3> QED
        BY <1>l, <3>1
    <2>3. \A x, y \in ms : won[x] \intersect won[y] # {} \/ lost[x] \intersect lost[y] # {} => x = y
      <3> SUFFICES ASSUME NEW x \in ms, NEW y \in ms,
                          won[x] \intersect won[y] # {} \/ lost[x] \intersect lost[y] # {}
                   PROVE  x = y
        OBVIOUS
      <3>1. CASE won[x] \intersect won[y] # {}
        <4>1. PICK m \in won[x] : m \in won[y]
          BY <3>1
        <4>2. x = Up(k, m) /\ y = Up(k, m)
          BY <1>3, <4>1
        <4> QED
          BY <4>2
      <3>2. CASE lost[x] \intersect lost[y] # {}
        <4>1. PICK m \in lost[x] : m \in lost[y]
          BY <3>2
        <4>2. x = Down(k, m) /\ y = Down(k, m)
          BY <1>3, <4>1
        <4> QED
          BY <4>2
      <3> QED
        BY <3>1, <3>2
    <2>4. \A x \in ms : x[2] \in Nat
      BY <1>3
    <2>5. \A x \in ms : \A m \in won[x] \union lost[x] : m[2] < x[2]
      BY <1>3
    <2>6. \A x \in ms : x[2] = 1 => won[x] = {} /\ lost[x] = {}
      BY <1>3
    <2>7. \A x \in ms : x[2] # 1 =>
             FromWinners(ms, won, lost, x) \/ FromBoth(ms, won, lost, x) \/ FromLosers(ms, won, lost, x)
      BY <1>3
    <2> QED
      BY <2>1, <2>2, <2>3, <2>4, <2>5, <2>6, <2>7 DEF Hung
  <1> QED
    BY <1>1, <1>2, <1>4 DEF ms, won, lost

\* Links run along the feeders.
LEMMA LinksAlong ==
    ASSUME NEW fmt \in EliminationFormat, NEW k, NEW ms, NoMatch \notin ms,
           Hung(ms, WonBy(k, ms), LostBy(fmt, k, ms))
    PROVE  LET won == WonBy(k, ms)
               lost == LostBy(fmt, k, ms)
               links == WinnerLinks(fmt, k, ms)
               drops == LoserLinks(fmt, k, ms)
           IN  \A m \in ms :
                 /\ links[m] \in ms \union {NoMatch} /\ drops[m] \in ms \union {NoMatch}
                 /\ \A x \in ms : (links[m] = x <=> m \in won[x]) /\ (drops[m] = x <=> m \in lost[x])
  <1> DEFINE won == WonBy(k, ms)
             lost == LostBy(fmt, k, ms)
             links == WinnerLinks(fmt, k, ms)
             drops == LoserLinks(fmt, k, ms)
  <1>1. \A x, y \in ms : won[x] \intersect won[y] # {} \/ lost[x] \intersect lost[y] # {} => x = y
    BY DEF Hung
  <1>2. \A x \in ms : won[x] = WinnerFeeders(k, x)
    BY DEF WonBy
  <1>3. \A x \in ms : lost[x] = IF fmt = "double_elimination" THEN LoserFeeders(k, x) ELSE {}
    BY DEF LostBy
  <1>4. ASSUME NEW m \in ms
        PROVE  /\ \/ links[m] \in ms /\ m \in WinnerFeeders(k, links[m])
                  \/ links[m] = NoMatch /\ \A x \in ms : m \notin WinnerFeeders(k, x)
               /\ \/ drops[m] \in ms /\ m \in lost[drops[m]]
                  \/ drops[m] = NoMatch /\ \A x \in ms : m \notin lost[x]
    <2>1. \/ links[m] \in ms /\ m \in WinnerFeeders(k, links[m])
          \/ links[m] = NoMatch /\ \A x \in ms : m \notin WinnerFeeders(k, x)
      BY LinkIs
    <2>2. CASE fmt = "double_elimination"
      <3>1. drops[m] = IF \E x \in ms : m \in LoserFeeders(k, x) THEN CHOOSE x \in ms : m \in LoserFeeders(k, x)
                                                                  ELSE NoMatch
        BY <2>2 DEF LoserLinks, Target
      <3> QED
        BY <1>3, <2>1, <2>2, <3>1
    <2>3. CASE fmt # "double_elimination"
      <3>1. drops[m] = NoMatch
        BY <2>3 DEF LoserLinks
      <3> QED
        BY <1>3, <2>1, <2>3, <3>1
    <2> QED
      BY <2>2, <2>3
  <1> HIDE DEF won, lost, links, drops
  <1>5. ASSUME NEW m \in ms
        PROVE  /\ links[m] \in ms \union {NoMatch} /\ drops[m] \in ms \union {NoMatch}
               /\ \A x \in ms : (links[m] = x <=> m \in won[x]) /\ (drops[m] = x <=> m \in lost[x])
    <2>1. \/ links[m] \in ms /\ m \in won[links[m]]
          \/ links[m] = NoMatch /\ \A x \in ms : m \notin won[x]
      BY <1>2, <1>4
    <2>2. \/ drops[m] \in ms /\ m \in lost[drops[m]]
          \/ drops[m] = NoMatch /\ \A x \in ms : m \notin lost[x]
      BY <1>4
    <2> QED
      BY <1>1, <2>1, <2>2
  <1> QED
    BY <1>5 DEF won, lost, links, drops

\* The sides of the elimination brackets.
Sides == {"single", "winners", "losers", "grand_final", "grand_final_reset"}

\* No match of an elimination bracket is NULL.
LEMMA MatchesHaveIds ==
    ASSUME NEW fmt \in EliminationFormat, NEW k \in Nat \ {0}, NEW n
    PROVE  /\ NoMatch \notin MatchesOf(fmt, k, n)
           /\ NoMatch # ResetFinal(k) /\ ResetFinal(k) \notin MatchesOf(fmt, k, n)
           /\ ResetFinal(k)[1] = "grand_final_reset" /\ ResetFinal(k)[2] \in Nat
  <1>1. \A m \in TreeMatches(Side(fmt), k) : m \in Sides \X Nat \X Nat /\ m[1] = Side(fmt)
    <2>1. Side(fmt) \in {"single", "winners"} /\ Side(fmt) \in Sides
      BY DEF Side, Sides
    <2>2. ASSUME NEW m \in TreeMatches(Side(fmt), k) PROVE m \in Sides \X Nat \X Nat /\ m[1] = Side(fmt)
      <3>1. m = <<Side(fmt), m[2], m[3]>> /\ m[2] \in 1..k /\ m[3] \in 1..2^(k - m[2])
        BY TreeRounds
      <3>2. m[2] \in Nat /\ m[3] \in Nat
        BY <3>1
      <3> QED
        BY <2>1, <3>1, <3>2
    <2> QED
      BY <2>2
  <1>2. \A m \in LosersMatches(k) : m \in Sides \X Nat \X Nat /\ m[1] = "losers"
    <2>1. ASSUME NEW m \in LosersMatches(k) PROVE m \in Sides \X Nat \X Nat /\ m[1] = "losers"
      <3>1. m = <<"losers", m[2], m[3]>> /\ m[2] \in k + 1 .. k + Len(LosersRounds(k)) /\ m[3] \in 1..2^k
        BY LosersMatchesAre
      <3>2. Len(LosersRounds(k)) \in Nat
        BY LosersRoundsBounded
      <3>3. m[2] \in Nat /\ m[3] \in Nat
        BY <3>1, <3>2
      <3> QED
        BY <3>1, <3>3 DEF Sides
    <2> QED
      BY <2>1
  <1>3. /\ GrandFinal(k) \in Sides \X Nat \X Nat /\ GrandFinal(k)[1] = "grand_final"
        /\ ResetFinal(k) \in Sides \X Nat \X Nat /\ ResetFinal(k)[1] = "grand_final_reset"
        /\ ResetFinal(k)[2] \in Nat
    <2>1. Len(LosersRounds(k)) \in Nat
      BY LosersRoundsBounded
    <2>2. k + Len(LosersRounds(k)) + 1 \in Nat /\ k + Len(LosersRounds(k)) + 2 \in Nat
      BY <2>1
    <2> QED
      BY <2>2 DEF GrandFinal, ResetFinal, Sides
  <1>4. Side(fmt) # "grand_final_reset"
    BY DEF Side
  <1>5. ASSUME NEW m \in MatchesOf(fmt, k, n)
        PROVE  m \in Sides \X Nat \X Nat /\ m[1] # "grand_final_reset"
    <2>1. \/ m \in TreeMatches(Side(fmt), k)
          \/ m \in LosersMatches(k)
          \/ m = GrandFinal(k)
      BY MatchesAre
    <2> QED
      BY <1>1, <1>2, <1>3, <1>4, <2>1
  <1> QED
    BY <1>3, <1>5, NoMatchIsNoId DEF Sides

\* Round 1 seats every team once.
LEMMA SeatsOnce ==
    ASSUME NEW b, NEW seeding, NEW side, NEW n, NEW k, NEW half, NEW top,
           RoundOne(b, seeding, side, n, k, half, top)
    PROVE  /\ \A t \in Field(b) : \E m \in FirstRound(b) : t \in Seated(b.rows[m])
           /\ \A m, d \in FirstRound(b) : Seated(b.rows[m]) \intersect Seated(b.rows[d]) # {} => m = d
  <1> DEFINE T == DOMAIN seeding
  <1>1. /\ Field(b) = T /\ half \in Nat /\ n <= 2 * half /\ n \in Nat
        /\ \A t \in T : seeding[t] \in 1..n
        /\ FirstRound(b) = {<<side, 1, i>> : i \in 1..half}
        /\ \A i \in 1..half :
              /\ top[i] \in 1..half /\ top[i] \in 1..n
              /\ Seated(b.rows[<<side, 1, i>>]) =
                    {t \in T : seeding[t] = top[i] \/ seeding[t] = 2 * half + 1 - top[i]}
    BY DEF RoundOne
  <1>2. /\ \A s \in 1..half : \E i \in 1..half : top[i] = s
        /\ \A i, j \in 1..half : top[i] = top[j] => i = j
    BY DEF RoundOne, Permuted
  <1>3. ASSUME NEW t \in T PROVE \E m \in FirstRound(b) : t \in Seated(b.rows[m])
    <2>1. PICK i \in 1..half : seeding[t] = top[i] \/ seeding[t] = 2 * half + 1 - top[i]
      <3>1. CASE seeding[t] <= half
        BY <1>1, <1>2, <3>1
      <3>2. CASE ~(seeding[t] <= half)
        <4>1. 2 * half + 1 - seeding[t] \in 1..half
          BY <1>1, <3>2
        <4>2. PICK i \in 1..half : top[i] = 2 * half + 1 - seeding[t]
          BY <1>2, <4>1
        <4>3. seeding[t] = 2 * half + 1 - top[i]
          BY <1>1, <4>2
        <4> QED
          BY <4>3
      <3> QED
        BY <3>1, <3>2
    <2>2. t \in Seated(b.rows[<<side, 1, i>>])
      BY <1>1, <2>1
    <2> QED
      BY <1>1, <2>2
  <1>4. ASSUME NEW i \in 1..half, NEW j \in 1..half, NEW t \in T,
               seeding[t] = top[i] \/ seeding[t] = 2 * half + 1 - top[i],
               seeding[t] = top[j] \/ seeding[t] = 2 * half + 1 - top[j]
        PROVE  j = i
    <2>1. top[i] \in 1..half /\ top[j] \in 1..half
      BY <1>1
    <2>2. top[i] = top[j]
      BY <1>1, <1>4, <2>1
    <2> QED
      BY <1>2, <2>2
  <1>5. ASSUME NEW m \in FirstRound(b), NEW d \in FirstRound(b),
               Seated(b.rows[m]) \intersect Seated(b.rows[d]) # {}
        PROVE  m = d
    <2>1. PICK i \in 1..half : m = <<side, 1, i>>
      BY <1>1
    <2>2. PICK j \in 1..half : d = <<side, 1, j>>
      BY <1>1
    <2>3. PICK t : t \in Seated(b.rows[m]) /\ t \in Seated(b.rows[d])
      BY <1>5
    <2>4. t \in T /\ (seeding[t] = top[i] \/ seeding[t] = 2 * half + 1 - top[i])
      BY <1>1, <2>1, <2>3
    <2>5. seeding[t] = top[j] \/ seeding[t] = 2 * half + 1 - top[j]
      BY <1>1, <2>2, <2>3
    <2> QED
      BY <1>4, <2>1, <2>2, <2>4, <2>5
  <1> QED
    BY <1>1, <1>3, <1>5

-----------------------------------------------------------------------------
(* What the byes of round 1 leave *)

\* A bye is over with its only team; the other matches of round 1 have two.
Opened(now, ms, byes) ==
    /\ byes \subseteq {m \in ms : m[2] = 1}
    /\ \A m \in ms : m[2] = 1 /\ m \notin byes => now[m].status = "pending" /\ Full(now[m])
    /\ \A m \in byes : /\ now[m].status = "bye" /\ now[m].teamA # Nobody
                       /\ Seated(now[m]) = {now[m].teamA}

\* A later match has the teams of the byes that lead to it.
Joined(now, won, byes, x) ==
    /\ now[x].status = "pending"
    /\ Seated(now[x]) = {now[m].teamA : m \in byes \intersect won[x]}
    /\ (Full(now[x]) <=> \E m, d \in byes \intersect won[x] : m # d)

\* AdvanceByes leaves them so, whatever the links.
LEMMA OpenedByByes ==
    ASSUME NEW ms, NEW rows \in [ms -> Row], NEW links, NEW now, NEW won, NEW byes,
           ByesDone(ms, rows, links, byes, now), byes \subseteq {m \in ms : m[2] = 1},
           \A m \in ms : m[2] = 1 =>
              /\ rows[m].teamA # Nobody /\ rows[m].status = "pending"
              /\ SoleTeam(rows[m]) = rows[m].teamA
              /\ (m \in byes <=> rows[m].teamB = Nobody),
           \A m, d \in byes : rows[m].teamA = rows[d].teamA => m = d,
           \A m \in ms : \A x \in ms : links[m] = x <=> m \in won[x],
           NoMatch \notin ms
    PROVE  /\ Opened(now, ms, byes)
           /\ \A x \in ms : x[2] # 1 => Joined(now, won, byes, x)
  <1>1. \A m \in ms : m[2] = 1 => now[m] = IF m \in byes THEN Closed(rows[m]) ELSE rows[m]
    BY DEF ByesDone
  <1>2. \A m \in byes : /\ now[m].status = "bye" /\ now[m].teamA = rows[m].teamA
                        /\ now[m].teamB = Nobody
    <2> SUFFICES ASSUME NEW m \in byes
                 PROVE  /\ now[m].status = "bye" /\ now[m].teamA = rows[m].teamA
                        /\ now[m].teamB = Nobody
      OBVIOUS
    <2>1. m \in ms /\ m[2] = 1 /\ now[m] = Closed(rows[m]) /\ rows[m] \in Row /\ rows[m].teamB = Nobody
      BY <1>1
    <2> QED
      BY <2>1 DEF Closed, Row
  <1>3. Opened(now, ms, byes)
    <2>1. \A m \in ms : m[2] = 1 /\ m \notin byes => now[m].status = "pending" /\ Full(now[m])
      BY <1>1 DEF Full
    <2>2. \A m \in byes : /\ now[m].status = "bye" /\ now[m].teamA # Nobody
                          /\ Seated(now[m]) = {now[m].teamA}
      BY <1>2 DEF Seated
    <2> QED
      BY <2>1, <2>2 DEF Opened
  <1>4. ASSUME NEW x \in ms, x[2] # 1 PROVE Joined(now, won, byes, x)
    <2>1. /\ now[x].status = "pending"
          /\ Seated(now[x]) = SentTo(rows, links, byes, x)
          /\ Full(now[x]) => now[x].teamA # now[x].teamB
      BY <1>4 DEF ByesDone
    <2>2. {d \in byes : links[d] = x /\ x # NoMatch} = byes \intersect won[x]
      <3>1. x # NoMatch
        OBVIOUS
      <3>2. \A d \in byes : links[d] = x <=> d \in won[x]
        OBVIOUS
      <3> QED
        BY <3>1, <3>2
    <2>3. Seated(now[x]) = {SoleTeam(rows[m]) : m \in byes \intersect won[x]}
      BY <2>1, <2>2 DEF SentTo
    <2>4. \A m \in byes : SoleTeam(rows[m]) = now[m].teamA
      BY <1>2
    <2>5. Seated(now[x]) = {now[m].teamA : m \in byes \intersect won[x]}
      BY <2>3, <2>4
    <2>6. Full(now[x]) => \E m, d \in byes \intersect won[x] : m # d
      <3> SUFFICES ASSUME Full(now[x]) PROVE \E m, d \in byes \intersect won[x] : m # d
        OBVIOUS
      <3>1. now[x].teamA \in Seated(now[x]) /\ now[x].teamB \in Seated(now[x]) /\ now[x].teamA # now[x].teamB
        BY <2>1 DEF Full, Seated
      <3>2. PICK m \in byes \intersect won[x] : now[x].teamA = now[m].teamA
        BY <2>5, <3>1
      <3>3. PICK d \in byes \intersect won[x] : now[x].teamB = now[d].teamA
        BY <2>5, <3>1
      <3> QED
        BY <3>1, <3>2, <3>3
    <2>7. ASSUME NEW m \in byes \intersect won[x], NEW d \in byes \intersect won[x], m # d
          PROVE  Full(now[x])
      <3>1. now[m].teamA # now[d].teamA
        BY <1>2, <2>7
      <3>2. now[m].teamA \in Seated(now[x]) /\ now[d].teamA \in Seated(now[x])
        BY <2>5
      <3> QED
        BY <3>1, <3>2 DEF Seated, Full
    <2> QED
      BY <2>1, <2>5, <2>6, <2>7 DEF Joined
  <1> QED
    BY <1>3, <1>4

\* The same, of a generator's matches.
LEMMA OpenedByDraw ==
    ASSUME NEW seeding, Drawn(seeding), NEW fmt \in EliminationFormat
    PROVE  LET n == Cardinality(DOMAIN seeding)
               k == Exponent(n)
               ms == MatchesOf(fmt, k, n)
               won == WonBy(k, ms)
               rows == Created(fmt, k, n, ms, Entries(DOMAIN seeding, seeding, k))
               now == AdvanceByes(rows, WinnerLinks(fmt, k, ms))
           IN  Hung(ms, won, LostBy(fmt, k, ms)) =>
                 \E byes : /\ now \in [ms -> Row] /\ Opened(now, ms, byes)
                           /\ \A x \in ms : x[2] # 1 => Joined(now, won, byes, x)
                           /\ k = 1 => byes = {}
  <1> DEFINE n == Cardinality(DOMAIN seeding)
             k == Exponent(n)
             ms == MatchesOf(fmt, k, n)
             won == WonBy(k, ms)
             lost == LostBy(fmt, k, ms)
             links == WinnerLinks(fmt, k, ms)
             rows == Created(fmt, k, n, ms, Entries(DOMAIN seeding, seeding, k))
             now == AdvanceByes(rows, links)
  <1> SUFFICES ASSUME Hung(ms, won, lost)
               PROVE  \E byes : /\ now \in [ms -> Row] /\ Opened(now, ms, byes)
                                /\ \A x \in ms : x[2] # 1 => Joined(now, won, byes, x)
                                /\ k = 1 => byes = {}
    OBVIOUS
  <1>1. n \in Nat /\ n >= 2 /\ \A s \in DOMAIN seeding : seeding[s] \in 1..n
    BY SeedsOfDraw DEF Drawn
  <1>2. PICK top : /\ Permuted(top, 2^(k - 1)) /\ top = SlotTable(k)[k - 1]
                   /\ FirstRows(seeding, fmt, k, n, ms, rows, top)
                   /\ LinksOn(ms, links)
                   /\ Byes(rows) = {<<Side(fmt), 1, i>> : i \in {j \in 1..2^(k - 1) : ~(2^k + 1 - top[j] <= n)}}
                   /\ \A m \in FirstOf(fmt, k) : SoleTeam(rows[m]) = rows[m].teamA /\ rows[m].teamA # Nobody
                   /\ ByesDone(ms, rows, links, Byes(rows), now)
    BY Advanced
  <1>3. k \in Nat \ {0} /\ n <= 2^k /\ 2^(k - 1) < n /\ 2^(k - 1) \in Nat \ {0} /\ 2^k = 2 * 2^(k - 1)
    <2> HIDE DEF n
    <2> QED
      BY <1>1, ExponentFits
  <1> HIDE DEF n, k
  <1>4. {m \in ms : m[2] = 1} = FirstOf(fmt, k)
    BY <1>3, FirstRoundIs
  <1>5. NoMatch \notin ms
    BY <1>3, MatchesHaveIds
  <1>6. \A m \in ms : \A x \in ms : links[m] = x <=> m \in won[x]
    <2> HIDE DEF ms
    <2> QED
      BY <1>5, LinksAlong
  <1> HIDE DEF ms, won, lost, links, now, rows
  <1> DEFINE byes == Byes(rows)
  <1>7. rows \in [ms -> Row]
    BY <1>2 DEF FirstRows
  <1>8. byes \subseteq {m \in ms : m[2] = 1}
    BY <1>7 DEF Byes
  <1>9. ASSUME NEW i \in 1..2^(k - 1)
        PROVE  LET m == <<Side(fmt), 1, i>>
               IN  /\ rows[m].teamA # Nobody /\ rows[m].status = "pending"
                   /\ SoleTeam(rows[m]) = rows[m].teamA
                   /\ m \in byes <=> rows[m].teamB = Nobody
                   /\ top[i] = seeding[rows[m].teamA]
    <2> DEFINE m == <<Side(fmt), 1, i>>
    <2>1. m \in FirstOf(fmt, k) /\ m \in ms /\ m[2] = 1
      BY <1>4 DEF FirstOf
    <2>2. /\ seeding[rows[m].teamA] = top[i] /\ rows[m].status = "pending"
          /\ IF 2^k + 1 - top[i] <= n
             THEN rows[m].teamB \in DOMAIN seeding
             ELSE rows[m].teamB = Nobody
      BY <1>2 DEF FirstRows
    <2>3. SoleTeam(rows[m]) = rows[m].teamA /\ rows[m].teamA # Nobody
      BY <1>2, <2>1
    <2>4. DOMAIN seeding \subseteq Team
      BY DEF Drawn, Seeded
    <2>5. m \in byes <=> rows[m].teamB = Nobody
      <3>1. Byes(rows) = {d \in ms : d[2] = 1 /\ Single(rows[d])}
        BY <1>7 DEF Byes
      <3> HIDE DEF m
      <3> QED
        BY <2>1, <2>3, <3>1 DEF Single
    <2> QED
      BY <2>2, <2>3, <2>5
  <1>10. \A m \in ms : m[2] = 1 =>
              /\ rows[m].teamA # Nobody /\ rows[m].status = "pending"
              /\ SoleTeam(rows[m]) = rows[m].teamA
              /\ (m \in byes <=> rows[m].teamB = Nobody)
    <2> SUFFICES ASSUME NEW m \in ms, m[2] = 1
                 PROVE  /\ rows[m].teamA # Nobody /\ rows[m].status = "pending"
                        /\ SoleTeam(rows[m]) = rows[m].teamA
                        /\ (m \in byes <=> rows[m].teamB = Nobody)
      OBVIOUS
    <2>1. PICK i \in 1..2^(k - 1) : m = <<Side(fmt), 1, i>>
      BY <1>4 DEF FirstOf
    <2> QED
      BY <1>9, <2>1
  <1>11. \A m, d \in byes : rows[m].teamA = rows[d].teamA => m = d
    <2> SUFFICES ASSUME NEW m \in byes, NEW d \in byes, rows[m].teamA = rows[d].teamA
                 PROVE  m = d
      OBVIOUS
    <2>1. PICK i \in 1..2^(k - 1) : m = <<Side(fmt), 1, i>>
      BY <1>2
    <2>2. PICK j \in 1..2^(k - 1) : d = <<Side(fmt), 1, j>>
      BY <1>2
    <2>3. top[i] = top[j]
      BY <1>9, <2>1, <2>2
    <2>4. i = j
      BY <1>2, <2>3 DEF Permuted
    <2> QED
      BY <2>1, <2>2, <2>4
  <1>12. k = 1 => byes = {}
    <2> SUFFICES ASSUME k = 1 PROVE byes = {}
      OBVIOUS
    <2>1. 2^(k - 1) = 1 /\ 2^k = 2 /\ n = 2
      <3>1. 2^(k - 1) = 1
        BY PowerOfZero
      <3> QED
        BY <1>1, <1>3, <3>1
    <2>2. \A j \in 1..2^(k - 1) : top[j] = 1
      BY <1>2, <2>1 DEF Permuted
    <2> QED
      BY <1>2, <2>1, <2>2
  <1>13. Opened(now, ms, byes) /\ \A x \in ms : x[2] # 1 => Joined(now, won, byes, x)
    <2> HIDE DEF byes
    <2>1. ByesDone(ms, rows, links, byes, now)
      BY <1>2 DEF byes
    <2> QED
      BY <1>5, <1>6, <1>7, <1>8, <1>10, <1>11, <2>1, OpenedByByes
  <1>14. now \in [ms -> Row]
    BY <1>2 DEF ByesDone
  <1> QED
    BY <1>12, <1>13, <1>14

-----------------------------------------------------------------------------
(* Elimination brackets fit play *)

\* The rows are those of the byes but for the dead matches, which are closed.
LEMMA FilledAfter ==
    ASSUME NEW rows, NEW field, NEW ms, NEW won, NEW lost, NEW byes, NEW now,
           Opened(now, ms, byes), \A x \in ms : x[2] # 1 => Joined(now, won, byes, x),
           \A m \in byes : \E x \in ms : m \in won[x],
           \A x \in ms : x \notin Dead(ms, won, lost, byes) => rows[x] = now[x],
           \A x \in Dead(ms, won, lost, byes) : rows[x].status = "bye",
           \A t \in field : \E m \in ms : m[2] = 1 /\ t \in Seated(rows[m]),
           \A m, d \in ms : m[2] = 1 /\ d[2] = 1 /\ Seated(rows[m]) \intersect Seated(rows[d]) # {} => m = d
    PROVE  Filled(rows, field, ms, won, lost, byes)
  <1>1. \A m \in ms : m[2] = 1 => rows[m] = now[m]
    BY DEF Dead
  <1>2. \A m \in byes : m \in ms /\ m[2] = 1 /\ rows[m] = now[m]
    BY <1>1 DEF Opened
  <1>3. \A m \in ms : m[2] = 1 /\ m \notin byes => rows[m].status = "pending" /\ Full(rows[m])
    BY <1>1 DEF Opened
  <1>4. \A m \in byes : /\ rows[m].status = "bye" /\ rows[m].teamA # Nobody
                        /\ Seated(rows[m]) = {rows[m].teamA}
    BY <1>2 DEF Opened
  <1>5. ASSUME NEW x \in ms, x[2] # 1, x \notin Dead(ms, won, lost, byes)
        PROVE  /\ rows[x].status = "pending"
               /\ Seated(rows[x]) = {rows[m].teamA : m \in byes \intersect won[x]}
               /\ (Full(rows[x]) <=> \E m, d \in byes \intersect won[x] : m # d)
    <2>1. rows[x] = now[x] /\ Joined(now, won, byes, x)
      BY <1>5
    <2>2. {rows[m].teamA : m \in byes \intersect won[x]} = {now[m].teamA : m \in byes \intersect won[x]}
      BY <1>2
    <2> QED
      BY <2>1, <2>2 DEF Joined
  <1>6. byes \subseteq {m \in ms : m[2] = 1}
    BY DEF Opened
  <1> QED
    BY <1>3, <1>4, <1>5, <1>6 DEF Filled

\* Hanging together and filled is fit for play, with the shape of its format.
LEMMA EliminationFits ==
    ASSUME NEW play, NEW ms, NEW won, NEW lost, NEW byes,
           Hung(ms, won, lost), Linked(play, ms, won, lost),
           Filled(play.rows, play.team, ms, won, lost, byes),
           play.format \in EliminationFormat,
           play.format = "single_elimination" => Generation(play)!SingleShape,
           play.format = "double_elimination" => Generation(play)!DoubleShape
    PROVE  Generation(play)!BracketFits
  <1>1. Generation(play)!LinksForward
    BY HangsForward
  <1>2. Generation(play)!Entrants
    BY EntrantsStart
  <1>3. Generation(play)!Flow(play.rows, Generation(play)!Owed(play.rows))
    BY SlotsAccounted
  <1>4. play.format # "round_robin"
    BY DEF EliminationFormat
  <1> QED
    BY <1>1, <1>2, <1>3, <1>4 DEF Generation!BracketFits, Generation!EliminationShape

\* Single elimination: losers go nowhere, winners everywhere but one.
OneTree(play, ms, won, lost, byes) ==
    /\ Linked(play, ms, won, lost) /\ play.match = ms
    /\ Filled(play.rows, play.team, ms, won, lost, byes)
    /\ \A x \in ms : lost[x] = {}
    /\ \A m, d \in ms : (\A x \in ms : m \notin won[x]) /\ (\A x \in ms : d \notin won[x]) => m = d

\* Then the links of single elimination have their shape.
LEMMA SingleShapeOf ==
    ASSUME NEW play, NEW ms, NEW won, NEW lost, NEW byes, OneTree(play, ms, won, lost, byes)
    PROVE  Generation(play)!SingleShape
  <1> USE DEF OneTree
  <1>1. ASSUME NEW m \in ms PROVE play.drop[m] = NoMatch
    BY DEF Linked
  <1>2. ASSUME NEW m \in ms PROVE play.rows[m].status # "absent"
    <2>1. CASE m[2] = 1
      BY <2>1 DEF Filled
    <2>2. CASE m[2] # 1
      BY <2>2 DEF Filled
    <2> QED
      BY <2>1, <2>2
  <1>3. ASSUME NEW m \in ms, NEW d \in ms, play.next[m] = NoMatch, play.next[d] = NoMatch PROVE m = d
    <2>1. \A x \in ms : m \notin won[x] /\ d \notin won[x]
      BY <1>3 DEF Linked
    <2> QED
      BY <2>1
  <1> QED
    BY <1>1, <1>2, <1>3 DEF Generation!SingleShape

\* The links of double elimination have theirs if the sides are linked.
LEMMA DoubleShapeOf ==
    ASSUME NEW play, NEW ms, NEW won, NEW lost, NEW byes, NEW gf, NEW reset,
           Hung(ms, won, lost), Linked(play, ms, won, lost), SidesLinked(ms, won, lost, gf),
           play.match = ms \union {reset}, reset \notin ms, reset[1] = "grand_final_reset",
           Filled(play.rows, play.team, ms, won, lost, byes)
    PROVE  Generation(play)!DoubleShape
  <1>1. /\ NoMatch \notin ms /\ NoMatch # reset
        /\ \A m \in ms : play.next[m] \in ms \union {NoMatch} /\ play.drop[m] \in ms \union {NoMatch}
        /\ \A m \in ms : \A x \in ms : (play.next[m] = x <=> m \in won[x]) /\ (play.drop[m] = x <=> m \in lost[x])
        /\ play.next[reset] = NoMatch /\ play.drop[reset] = NoMatch /\ play.rows[reset].status = "absent"
    BY DEF Linked
  <1>2. ASSUME NEW m \in ms
        PROVE  \/ m[1] = "winners" /\ play.next[m] \in ms /\ play.drop[m] \in ms
                  /\ play.next[m][1] \in {"winners", "grand_final"} /\ play.drop[m][1] = "losers"
               \/ m[1] = "losers" /\ play.next[m] \in ms /\ play.drop[m] = NoMatch
                  /\ play.next[m][1] \in {"losers", "grand_final"}
               \/ m[1] = "grand_final" /\ m = gf /\ play.next[m] = NoMatch /\ play.drop[m] = NoMatch
    <2>1. m[1] \in {"winners", "losers", "grand_final"}
      BY DEF SidesLinked
    <2>2. m # gf => \E x \in ms : play.next[m] = x /\ x[1] \in {m[1], "grand_final"}
      BY <1>1 DEF SidesLinked
    <2>3. m[1] = "winners" => \E x \in ms : play.drop[m] = x /\ x[1] = "losers"
      BY <1>1 DEF SidesLinked
    <2>4. m[1] # "winners" => play.drop[m] = NoMatch
      BY <1>1 DEF SidesLinked
    <2>5. gf[1] = "grand_final" /\ (m[1] = "grand_final" => m = gf) /\ \A x \in ms : gf \notin won[x]
      BY DEF SidesLinked
    <2>6. m = gf => play.next[m] = NoMatch
      BY <1>1, <2>5
    <2> QED
      BY <2>1, <2>2, <2>3, <2>4, <2>5, <2>6
  <1>3. ASSUME NEW m \in ms PROVE play.rows[m].status # "absent"
    <2>1. CASE m[2] = 1
      BY <2>1 DEF Filled
    <2>2. CASE m[2] # 1
      BY <2>2 DEF Filled
    <2> QED
      BY <2>1, <2>2
  <1>4. ASSUME NEW m \in ms, Generation(play)!Playable(play.rows[m]), Seated(play.rows[m]) # {}
        PROVE  m[1] = "winners"
    <2>1. CASE m[2] = 1
      BY <2>1 DEF SidesLinked
    <2>2. CASE m[2] # 1
      <3>1. m \notin Dead(ms, won, lost, byes)
        <4>1. m \in Dead(ms, won, lost, byes) => play.rows[m].status = "bye"
          BY DEF Filled
        <4> QED
          BY <1>4, <4>1 DEF Generation!Playable
      <3>2. \E d \in byes : d \in won[m]
        BY <1>4, <2>2, <3>1 DEF Filled
      <3>3. \A d \in byes : d[2] = 1
        BY DEF Filled
      <3> QED
        BY <3>2, <3>3 DEF SidesLinked
    <2> QED
      BY <2>1, <2>2
  <1>5. \A row : Generation(play)!Seated(row) = Seated(row)
    BY DEF Generation!Seated, Seated
  <1>6. \A m \in play.match : Generation(play)!DoubleLinks(m)
    <2> DEFINE pos == [m \in play.match |-> m[1]]
    <2>1. ASSUME NEW m \in play.match PROVE Generation(play)!DoubleLinks(m)
      <3>1. pos[m] = m[1]
        OBVIOUS
      <3>2. \A x \in ms : pos[x] = x[1]
        OBVIOUS
      <3>3. CASE m = reset
        <4>1. pos[m] = "grand_final_reset"
          BY <3>1, <3>3
        <4> QED
          BY <1>1, <3>3, <4>1 DEF Generation!DoubleLinks
      <3>4. CASE m \in ms
        <4>1. pos[m] = m[1]
          BY <3>1
        <4>2. play.next[m] \in ms => play.next[m] \in play.match /\ pos[play.next[m]] = play.next[m][1]
          BY <3>2
        <4>3. play.drop[m] \in ms => play.drop[m] \in play.match /\ pos[play.drop[m]] = play.drop[m][1]
          BY <3>2
        <4>4. CASE m[1] = "winners"
          <5> HIDE DEF pos
          <5> QED
            BY <1>2, <3>4, <4>1, <4>2, <4>3, <4>4 DEF Generation!DoubleLinks, pos
        <4>5. CASE m[1] = "losers"
          BY <1>2, <3>4, <4>1, <4>2, <4>3, <4>5 DEF Generation!DoubleLinks
        <4>6. CASE m[1] = "grand_final"
          BY <1>2, <3>4, <4>1, <4>2, <4>3, <4>6 DEF Generation!DoubleLinks
        <4> QED
          BY <1>2, <3>4, <4>4, <4>5, <4>6
      <3> QED
        BY <3>3, <3>4
    <2> QED
      BY <2>1
  <1>7. \A m \in play.match : play.rows[m].status = "absent" <=> m[1] = "grand_final_reset"
    BY <1>1, <1>2, <1>3
  <1>8. \A m, x \in play.match :
          m[1] = x[1] /\ m[1] \in {"grand_final", "grand_final_reset"} => m = x
    BY <1>2
  <1>9. \A m, x \in play.match :
          m[1] = x[1] /\ play.next[m] = play.next[x] /\ play.next[m] \in play.match
          /\ play.next[m][1] = "grand_final" => m = x
    <2> SUFFICES ASSUME NEW m \in play.match, NEW x \in play.match,
                        m[1] = x[1], play.next[m] = play.next[x], play.next[m] \in play.match,
                        play.next[m][1] = "grand_final"
                 PROVE  m = x
      OBVIOUS
    <2>1. play.next[m] \in ms /\ m \in ms /\ x \in ms
      BY <1>1
    <2>2. play.next[m] = gf
      BY <2>1 DEF SidesLinked
    <2>3. m \in won[gf] /\ x \in won[gf]
      BY <1>1, <2>1, <2>2
    <2> QED
      BY <2>3 DEF SidesLinked
  <1>10. \A m \in play.match : Generation(play)!Playable(play.rows[m]) /\ Generation(play)!Seated(play.rows[m]) # {}
            => m[1] = "winners"
    <2>1. ~Generation(play)!Playable(play.rows[reset])
      BY <1>1 DEF Generation!Playable
    <2> QED
      BY <1>4, <1>5, <2>1
  <1> QED
    BY <1>6, <1>7, <1>8, <1>9, <1>10 DEF Generation!DoubleShape

\* What play is given of a generated elimination bracket.
GivenTo(play, b, fmt, k, ms) ==
    /\ play.format = fmt /\ play.team = Field(b)
    /\ play.match = ms \union (IF fmt = "double_elimination" THEN {ResetFinal(k)} ELSE {})
    /\ \A m \in ms : play.rows[m] = b.rows[m]
    /\ Linked(play, ms, WonBy(k, ms), LostBy(fmt, k, ms))

\* InPlay gives play the links along the feeders, and a reset that is absent.
LEMMA GivenInPlay ==
    ASSUME NEW b, NEW fmt \in EliminationFormat, NEW k \in Nat \ {0}, NEW n, NEW ms,
           ms = MatchesOf(fmt, k, n), b.format = fmt, Depth(b) = k, DOMAIN b.rows = ms,
           b.links = WinnerLinks(fmt, k, ms), b.drops = LoserLinks(fmt, k, ms),
           Hung(ms, WonBy(k, ms), LostBy(fmt, k, ms))
    PROVE  GivenTo(InPlay(b), b, fmt, k, ms)
  <1> DEFINE play == InPlay(b)
             won == WonBy(k, ms)
             lost == LostBy(fmt, k, ms)
             more == IF fmt = "double_elimination" THEN {ResetFinal(k)} ELSE {}
             known == ms \union more
  <1>1. /\ NoMatch \notin ms /\ NoMatch # ResetFinal(k) /\ ResetFinal(k) \notin ms
        /\ ResetFinal(k)[2] \in Nat
    BY MatchesHaveIds
  <1>2. /\ play.match = known /\ play.format = fmt /\ play.team = Field(b)
        /\ play.next = [m \in known |-> IF m \in ms THEN b.links[m] ELSE NoMatch]
        /\ play.drop = [m \in known |-> IF m \in ms THEN b.drops[m] ELSE NoMatch]
        /\ play.rows = [m \in known |-> IF m \in ms THEN b.rows[m] ELSE AbsentRow]
    BY DEF InPlay
  <1>3. \A m \in ms :
           /\ b.links[m] \in ms \union {NoMatch} /\ b.drops[m] \in ms \union {NoMatch}
           /\ \A x \in ms : (b.links[m] = x <=> m \in won[x]) /\ (b.drops[m] = x <=> m \in lost[x])
    BY <1>1, LinksAlong
  <1>4. AbsentRow.status = "absent"
    BY DEF AbsentRow, EmptyRow
  <1>5. more \intersect ms = {} /\ NoMatch \notin more /\ \A m \in more : m[2] \in Nat
    BY <1>1
  <1> HIDE DEF play, won, lost, more
  <1>6. Linked(play, ms, won, lost)
    <2>1. ms \subseteq play.match /\ NoMatch \notin play.match
      BY <1>1, <1>2, <1>5
    <2>2. \A m \in ms : play.next[m] = b.links[m] /\ play.drop[m] = b.drops[m]
      BY <1>2
    <2>3. \A m \in play.match \ ms :
             /\ play.next[m] = NoMatch /\ play.drop[m] = NoMatch /\ m[2] \in Nat
             /\ play.rows[m].status = "absent"
      BY <1>2, <1>4, <1>5
    <2> QED
      BY <1>3, <2>1, <2>2, <2>3 DEF Linked
  <1>7. \A m \in ms : play.rows[m] = b.rows[m]
    BY <1>2
  <1> QED
    BY <1>2, <1>6, <1>7 DEF GivenTo, play, won, lost, more

\* What generation makes: its matches and links, and, if the bracket hangs
\* together, rows that differ from those of the byes only beyond round 1.
Makes(b, seeding, fmt, n, k, ms, now, byes) ==
    /\ b.format = fmt /\ b.links = WinnerLinks(fmt, k, ms) /\ b.drops = LoserLinks(fmt, k, ms)
    /\ Depth(b) = k /\ DOMAIN b.rows = ms
    /\ b.rows = IF fmt = "single_elimination" THEN now
                ELSE CascadeEmptyByes(now, WinnerLinks(fmt, k, ms), LoserLinks(fmt, k, ms))
    /\ \A m \in ms : m[2] = 1 => b.rows[m] = now[m]
    /\ now \in [ms -> Row] /\ Opened(now, ms, byes)
    /\ \A x \in ms : x[2] # 1 => Joined(now, WonBy(k, ms), byes, x)
    /\ k = 1 => byes = {}
    /\ \A t \in Field(b) : \E m \in ms : m[2] = 1 /\ t \in Seated(b.rows[m])
    /\ \A m, d \in ms : m[2] = 1 /\ d[2] = 1 /\ Seated(b.rows[m]) \intersect Seated(b.rows[d]) # {} => m = d

\* GenerateBracket makes that of any draw.
LEMMA Making ==
    ASSUME NEW seeding, Drawn(seeding), NEW fmt \in EliminationFormat
    PROVE  LET b == NewBracket(fmt, seeding)
               n == Cardinality(DOMAIN seeding)
               k == Exponent(n)
               ms == MatchesOf(fmt, k, n)
               rows == Created(fmt, k, n, ms, Entries(DOMAIN seeding, seeding, k))
               now == AdvanceByes(rows, WinnerLinks(fmt, k, ms))
           IN  Hung(ms, WonBy(k, ms), LostBy(fmt, k, ms)) =>
                 \E byes : Makes(b, seeding, fmt, n, k, ms, now, byes)
  <1> DEFINE b == NewBracket(fmt, seeding)
             n == Cardinality(DOMAIN seeding)
             k == Exponent(n)
             ms == MatchesOf(fmt, k, n)
             won == WonBy(k, ms)
             links == WinnerLinks(fmt, k, ms)
             drops == LoserLinks(fmt, k, ms)
             rows == Created(fmt, k, n, ms, Entries(DOMAIN seeding, seeding, k))
             now == AdvanceByes(rows, links)
             closed == CascadeEmptyByes(now, links, drops)
  <1> SUFFICES ASSUME Hung(ms, won, LostBy(fmt, k, ms))
               PROVE  \E byes : Makes(b, seeding, fmt, n, k, ms, now, byes)
    OBVIOUS
  <1>1. n \in Nat /\ n >= 2
    BY SeedsOfDraw DEF Drawn
  <1>2. k \in Nat \ {0}
    <2> HIDE DEF n
    <2> QED
      BY <1>1, ExponentFits
  <1>3. PICK byes : /\ now \in [ms -> Row] /\ Opened(now, ms, byes)
                    /\ \A x \in ms : x[2] # 1 => Joined(now, won, byes, x)
                    /\ k = 1 => byes = {}
    BY OpenedByDraw
  <1>4. /\ b.format = fmt /\ b.seeding = seeding /\ b.rows = GenerateBracket(fmt, DOMAIN seeding, seeding)
        /\ b.links = WinnerLinks(fmt, k, DOMAIN b.rows) /\ b.drops = LoserLinks(fmt, k, DOMAIN b.rows)
    BY DEF NewBracket
  <1>5. b.rows = IF fmt = "single_elimination" THEN now ELSE closed
    <2>1. fmt \in {"single_elimination", "double_elimination"}
      BY DEF EliminationFormat
    <2> QED
      BY <1>4, <2>1 DEF GenerateBracket
  <1>6. PICK top : RoundOne(b, seeding, Side(fmt), n, k, 2^(k - 1), top)
    BY OpeningSeats
  <1> HIDE DEF b
  <1>7. /\ {m \in ms : m[2] = 1} = FirstOf(fmt, k)
        /\ {m \in ms : m[1] = "losers"} = IF fmt = "double_elimination" THEN LosersMatches(k) ELSE {}
    <2> HIDE DEF k
    <2> QED
      BY <1>2, FirstRoundIs
  <1>8. LinksOn(ms, links)
    <2>1. PICK top1 : LinksOn(ms, links)
      BY Advanced
    <2> QED
      BY <2>1
  <1>9. fmt = "double_elimination" =>
          closed \in [ms -> Row] /\ \A x \in ms : x[2] = 1 => closed[x] = now[x]
    <2> SUFFICES ASSUME fmt = "double_elimination"
                 PROVE  closed \in [ms -> Row] /\ \A x \in ms : x[2] = 1 => closed[x] = now[x]
      OBVIOUS
    <2>1. ListsAll(ListingOf(LosersMatches(k)), LosersMatches(k), Cardinality(LosersMatches(k)))
      <3> HIDE DEF k
      <3> QED
        BY <1>2, SidesAreFinite
    <2>2. IsFiniteSet(ms)
      <3> HIDE DEF k
      <3> QED
        BY <1>2, MatchesFinite
    <2>3. \A m \in LosersMatches(k) : m[2] # 1
      <3> HIDE DEF k
      <3>1. \A m \in LosersMatches(k) : m[2] \in Nat /\ m[2] >= k + 1
        <4>1. Len(LosersRounds(k)) \in Nat
          BY <1>2, LosersRoundsBounded
        <4> QED
          BY <1>2, <4>1, LosersMatchesAre
      <3> QED
        BY <1>2, <3>1
    <2>4. LosersMatches(k) = {m \in ms : m[1] = "losers"}
      BY <1>7
    <2> HIDE DEF k, ms, links, drops, now
    <2> QED
      BY <1>3, <1>8, <2>1, <2>2, <2>3, <2>4, CascadeKeeps
  <1> HIDE DEF closed, now, links, drops, rows, won
  <1>10. b.rows \in [ms -> Row] /\ \A x \in ms : x[2] = 1 => b.rows[x] = now[x]
    <2> HIDE DEF ms
    <2> QED
      BY <1>3, <1>5, <1>9 DEF EliminationFormat
  <1>11. DOMAIN b.rows = ms
    <2> HIDE DEF ms
    <2> QED
      BY <1>10
  <1>12. FirstRound(b) = {m \in ms : m[2] = 1} /\ Depth(b) = k
    <2> HIDE DEF ms
    <2> QED
      BY <1>6, <1>11 DEF FirstRound, RoundOne
  <1>13. /\ \A t \in Field(b) : \E m \in FirstRound(b) : t \in Seated(b.rows[m])
         /\ \A m, d \in FirstRound(b) : Seated(b.rows[m]) \intersect Seated(b.rows[d]) # {} => m = d
    <2> HIDE DEF k, n
    <2> QED
      BY <1>6, SeatsOnce
  <1>14. /\ \A t \in Field(b) : \E m \in ms : m[2] = 1 /\ t \in Seated(b.rows[m])
         /\ \A m, d \in ms : m[2] = 1 /\ d[2] = 1 /\ Seated(b.rows[m]) \intersect Seated(b.rows[d]) # {} => m = d
    <2> HIDE DEF ms
    <2> QED
      BY <1>12, <1>13
  <1>15. b.links = links /\ b.drops = drops
    BY <1>4, <1>11 DEF links, drops
  <1> HIDE DEF ms, k, n
  <1>16. Makes(b, seeding, fmt, n, k, ms, now, byes)
    BY <1>3, <1>4, <1>5, <1>10, <1>11, <1>12, <1>14, <1>15 DEF Makes, closed, links, drops, won
  <1> QED
    BY <1>16

\* A single elimination bracket fits play.
LEMMA SingleFits ==
    ASSUME NEW seeding, Drawn(seeding)
    PROVE  Generation(InPlay(NewBracket("single_elimination", seeding)))!BracketFits
  <1> DEFINE fmt == "single_elimination"
             b == NewBracket(fmt, seeding)
             n == Cardinality(DOMAIN seeding)
             k == Exponent(n)
             ms == MatchesOf(fmt, k, n)
             won == WonBy(k, ms)
             lost == LostBy(fmt, k, ms)
             play == InPlay(b)
  <1>1. n \in Nat /\ n >= 2
    BY SeedsOfDraw DEF Drawn
  <1>2. k \in Nat \ {0}
    <2> HIDE DEF n
    <2> QED
      BY <1>1, ExponentFits
  <1>3. fmt \in EliminationFormat
    BY DEF EliminationFormat
  <1>4. ms = TreeMatches("single", k)
    BY <1>2, <1>3, MatchesAre
  <1>5. /\ Hung(ms, won, lost)
        /\ \A m \in ms : (\A x \in ms : m \notin won[x]) => m = <<"single", k, 1>>
        /\ \A m \in ms : m[2] = 1 /\ k # 1 => \E x \in ms : m \in won[x]
    <2> HIDE DEF k
    <2> QED
      BY <1>2, <1>4, SingleHangs
  <1>6. PICK now, byes : Makes(b, seeding, fmt, n, k, ms, now, byes)
    <2>1. Hung(ms, won, lost) =>
            \E byes : Makes(b, seeding, fmt, n, k, ms,
                            AdvanceByes(Created(fmt, k, n, ms, Entries(DOMAIN seeding, seeding, k)),
                                        WinnerLinks(fmt, k, ms)), byes)
      BY <1>3, Making
    <2> QED
      BY <1>5, <2>1
  <1> HIDE DEF b, n, k
  <1>7. GivenTo(play, b, fmt, k, ms)
    <2>1. /\ b.format = fmt /\ Depth(b) = k /\ DOMAIN b.rows = ms
          /\ b.links = WinnerLinks(fmt, k, ms) /\ b.drops = LoserLinks(fmt, k, ms)
      BY <1>6 DEF Makes
    <2> QED
      BY <1>2, <1>3, <1>5, <2>1, GivenInPlay
  <1>8. \A x \in ms : lost[x] = {}
    BY DEF LostBy
  <1> HIDE DEF ms, won, lost, play
  <1>9. Linked(play, ms, won, lost) /\ play.match = ms /\ play.format = fmt /\ play.team = Field(b)
        /\ \A m \in ms : play.rows[m] = b.rows[m]
    BY <1>7 DEF GivenTo, won, lost
  <1>10. Dead(ms, won, lost, byes) = {}
    BY <1>5, <1>8 DEF Dead, Hung, FromWinners, FromBoth, FromLosers
  <1>11. Filled(play.rows, play.team, ms, won, lost, byes)
    <2>1. Opened(now, ms, byes) /\ \A x \in ms : x[2] # 1 => Joined(now, won, byes, x)
      BY <1>6 DEF Makes, won
    <2>2. \A m \in byes : \E x \in ms : m \in won[x]
      BY <1>5, <1>6 DEF Makes, Opened
    <2>3. \A x \in ms : play.rows[x] = now[x]
      BY <1>6, <1>9 DEF Makes
    <2>4. /\ \A t \in play.team : \E m \in ms : m[2] = 1 /\ t \in Seated(play.rows[m])
          /\ \A m, d \in ms : m[2] = 1 /\ d[2] = 1
                              /\ Seated(play.rows[m]) \intersect Seated(play.rows[d]) # {} => m = d
      BY <1>6, <1>9 DEF Makes
    <2> QED
      BY <1>10, <2>1, <2>2, <2>3, <2>4, FilledAfter
  <1>12. Generation(play)!SingleShape
    <2>1. \A m, d \in ms : (\A x \in ms : m \notin won[x]) /\ (\A x \in ms : d \notin won[x]) => m = d
      BY <1>5
    <2>2. OneTree(play, ms, won, lost, byes)
      BY <1>8, <1>9, <1>11, <2>1 DEF OneTree
    <2>3. \A p, m, w, l, y : OneTree(p, m, w, l, y) => Generation(p)!SingleShape
      BY SingleShapeOf
    <2> QED
      BY <2>2, <2>3
  <1>13. Generation(play)!BracketFits
    BY <1>3, <1>5, <1>9, <1>11, <1>12, EliminationFits
  <1> QED
    BY <1>13 DEF play, b

-----------------------------------------------------------------------------
(* Which losers matches are closed *)

\* A double elimination bracket whose byes of round 1 are done.
Cascading(ms, won, lost, links, drops, now, byes, gf) ==
    /\ IsFiniteSet(ms) /\ NoMatch \notin ms /\ now \in [ms -> Row]
    /\ Hung(ms, won, lost) /\ SidesLinked(ms, won, lost, gf)
    /\ Opened(now, ms, byes) /\ \A x \in ms : x[2] # 1 => Joined(now, won, byes, x)
    /\ \A m \in ms : \A x \in ms : (links[m] = x <=> m \in won[x]) /\ (drops[m] = x <=> m \in lost[x])

\* A bye is what the byes of round 1 are.
LEMMA ByesAre ==
    ASSUME NEW ms, NEW won, NEW now, NEW byes,
           Opened(now, ms, byes), \A x \in ms : x[2] # 1 => Joined(now, won, byes, x), NEW m \in ms
    PROVE  now[m].status = IF m \in byes THEN "bye" ELSE "pending"
  <1>1. CASE m \in byes
    BY <1>1 DEF Opened
  <1>2. CASE m \notin byes /\ m[2] = 1
    BY <1>2 DEF Opened
  <1>3. CASE m \notin byes /\ m[2] # 1
    BY <1>3 DEF Joined
  <1> QED
    BY <1>1, <1>2, <1>3

\* A dead match leads to a match of its side that is not dead and that has no
\* other match to wait for a winner from; nobody is in it.
LEMMA DeadLeads ==
    ASSUME NEW ms, NEW won, NEW lost, NEW links, NEW drops, NEW now, NEW byes, NEW gf,
           Cascading(ms, won, lost, links, drops, now, byes, gf),
           NEW y \in Dead(ms, won, lost, byes)
    PROVE  /\ y \in ms /\ y[1] = "losers" /\ links[y] \in ms /\ links[y] # y
           /\ links[y] \notin Dead(ms, won, lost, byes) /\ won[links[y]] = {y}
           /\ \E d \in ms : lost[links[y]] = {d} /\ d \notin byes
           /\ now[y].status = "pending" /\ ~Full(now[y]) /\ SoleTeam(now[y]) = Nobody
  <1>1. y \in ms /\ y[2] # 1 /\ won[y] = {} /\ lost[y] \subseteq byes
    BY DEF Dead
  <1>2. FromLosers(ms, won, lost, y)
    BY <1>1 DEF Cascading, Hung, FromWinners, FromBoth
  <1>3. y[1] = "losers"
    BY <1>1, <1>2 DEF Cascading, SidesLinked, FromLosers
  <1>4. PICK x \in ms : y \in won[x]
    BY <1>1, <1>3 DEF Cascading, SidesLinked
  <1>5. links[y] = x
    BY <1>1, <1>4 DEF Cascading
  <1>6. x[2] # 1 /\ won[x] # {} /\ x # y /\ x \notin Dead(ms, won, lost, byes)
    BY <1>1, <1>4 DEF Cascading, Hung, Dead
  <1>7. FromBoth(ms, won, lost, x)
    <2>1. ~FromWinners(ms, won, lost, x)
      BY <1>1, <1>4 DEF FromWinners
    <2>2. ~FromLosers(ms, won, lost, x)
      BY <1>6 DEF FromLosers
    <2> QED
      BY <1>6, <2>1, <2>2 DEF Cascading, Hung
  <1>8. won[x] = {y} /\ \E d \in ms : lost[x] = {d} /\ d \notin byes
    BY <1>4, <1>7 DEF FromBoth, Cascading, Opened
  <1>9. Joined(now, won, byes, y)
    BY <1>1 DEF Cascading
  <1>10. now[y].status = "pending" /\ Seated(now[y]) = {}
    BY <1>1, <1>9 DEF Joined
  <1> QED
    BY <1>1, <1>3, <1>4, <1>5, <1>6, <1>8, <1>10 DEF Seated, Full, SoleTeam

\* The count of a losers match, before any is closed: nobody comes to a dead
\* match, somebody to the others, two to one that a dead match leads to.
LEMMA OpeningCounts ==
    ASSUME NEW ms, NEW won, NEW lost, NEW links, NEW drops, NEW now, NEW byes, NEW gf,
           Cascading(ms, won, lost, links, drops, now, byes, gf),
           NEW x \in ms, x[1] = "losers"
    PROVE  LET count == RealFeeders(now, links, drops, x)
           IN  IF x \in Dead(ms, won, lost, byes) THEN count = 0
               ELSE count >= 1 /\ \A y \in Dead(ms, won, lost, byes) : links[y] = x => count >= 2
  <1> DEFINE A == {m \in ms : now[m].status # "bye" /\ drops[m] = x}
             B == {m \in ms : m[1] = "losers" /\ links[m] = x /\ now[m].status # "bye"}
             dead == Dead(ms, won, lost, byes)
             count == RealFeeders(now, links, drops, x)
  <1>1. count = Cardinality(A) + Cardinality(B)
    <2>1. DOMAIN now = ms
      BY DEF Cascading
    <2> QED
      BY <2>1 DEF RealFeeders
  <1>2. /\ Cardinality(A) \in Nat /\ (Cardinality(A) = 0 <=> A = {})
        /\ Cardinality(B) \in Nat /\ (Cardinality(B) = 0 <=> B = {})
    <2>1. IsFiniteSet(ms) /\ A \subseteq ms /\ B \subseteq ms
      BY DEF Cascading
    <2> HIDE DEF A, B
    <2>2. IsFiniteSet(A) /\ IsFiniteSet(B)
      BY <2>1, FS_Subset
    <2> QED
      BY <2>2, FS_CardinalityType, FS_EmptySet
  <1>3. \A m \in ms : now[m].status # "bye" <=> m \notin byes
    BY ByesAre DEF Cascading
  <1>4. A = lost[x] \ byes
    <2>1. lost[x] \subseteq ms
      BY DEF Cascading, Hung
    <2>2. \A m \in ms : drops[m] = x <=> m \in lost[x]
      BY DEF Cascading
    <2> QED
      BY <1>3, <2>1, <2>2
  <1>5. \A m \in won[x] : m \in ms /\ m[1] = "losers" /\ m \notin byes
    <2> TAKE m \in won[x]
    <2>1. m \in ms
      BY DEF Cascading, Hung
    <2>2. m[1] = "losers"
      BY <2>1 DEF Cascading, SidesLinked
    <2>3. m[2] # 1
      BY <2>1, <2>2 DEF Cascading, SidesLinked
    <2> QED
      BY <2>1, <2>2, <2>3 DEF Cascading, Opened
  <1>6. B = won[x]
    <2>1. \A m \in ms : links[m] = x <=> m \in won[x]
      BY DEF Cascading
    <2> QED
      BY <1>3, <1>5, <2>1
  <1> HIDE DEF A, B, count
  <1>7. x[2] # 1
    BY DEF Cascading, SidesLinked
  <1>8. CASE x \in dead
    <2>1. won[x] = {} /\ lost[x] \subseteq byes
      BY <1>8 DEF Dead
    <2> QED
      BY <1>1, <1>2, <1>4, <1>6, <1>8, <2>1 DEF count
  <1>9. CASE x \notin dead
    <2>1. A # {} \/ B # {}
      BY <1>4, <1>6, <1>7, <1>9 DEF Dead
    <2>2. count >= 1
      BY <1>1, <1>2, <2>1
    <2>3. ASSUME NEW y \in dead, links[y] = x PROVE count >= 2
      <3>1. won[x] = {y} /\ \E d \in ms : lost[x] = {d} /\ d \notin byes
        BY <2>3, DeadLeads
      <3>2. A # {} /\ B # {}
        BY <1>4, <1>6, <3>1
      <3> QED
        BY <1>1, <1>2, <3>2
    <2> QED
      BY <1>9, <2>2, <2>3 DEF count
  <1> QED
    BY <1>8, <1>9

\* The accounts when the matches seen so far are done.
Accounted(acc, seen, ms, links, now, dead) ==
    /\ acc \in Accounts(ms)
    /\ \A x \in ms : acc.rows[x] = IF x \in seen /\ x \in dead THEN Closed(now[x]) ELSE now[x]
    /\ \A x \in ms : x[1] = "losers" =>
          IF x \in dead THEN acc.count[x] = 0
          ELSE acc.count[x] >= 1 /\ \A y \in dead : y \notin seen /\ links[y] = x => acc.count[x] >= 2

\* One match of the cascade: a dead one is closed and taken from the count of
\* the match it leads to, which is left with a loser to wait for.
LEMMA OneMoreSeen ==
    ASSUME NEW ms, NEW won, NEW lost, NEW links, NEW drops, NEW now, NEW byes, NEW gf,
           Cascading(ms, won, lost, links, drops, now, byes, gf), LinksOn(ms, links),
           NEW acc, NEW seen, Accounted(acc, seen, ms, links, now, Dead(ms, won, lost, byes)),
           NEW m \in ms, m[1] = "losers", m \notin seen
    PROVE  Accounted(EmptyLosersMatch(acc, links, m), seen \union {m}, ms, links, now,
                     Dead(ms, won, lost, byes))
  <1> DEFINE dead == Dead(ms, won, lost, byes)
             next == EmptyLosersMatch(acc, links, m)
  <1>1. /\ acc \in Accounts(ms) /\ acc.rows \in [ms -> Row] /\ acc.count \in [ms -> Int]
        /\ acc = [rows |-> acc.rows, count |-> acc.count]
    BY DEF Accounted, Accounts
  <1>2. /\ \A x \in ms : acc.rows[x] = IF x \in seen /\ x \in dead THEN Closed(now[x]) ELSE now[x]
        /\ \A x \in ms : x[1] = "losers" =>
              IF x \in dead THEN acc.count[x] = 0
              ELSE acc.count[x] >= 1 /\ \A y \in dead : y \notin seen /\ links[y] = x => acc.count[x] >= 2
    BY DEF Accounted
  <1>3. acc.rows[m] = now[m]
    BY <1>2
  <1>4. next \in Accounts(ms)
    <2>1. m[2] # 1
      BY DEF Cascading, SidesLinked
    <2> QED
      BY <1>1, <2>1, OneLosersMatch
  <1>5. CASE m \notin dead
    <2>1. acc.count[m] > 0
      BY <1>1, <1>2, <1>5
    <2>2. next = acc
      BY <2>1 DEF EmptyLosersMatch
    <2> HIDE DEF next, dead
    <2>3. \A x \in ms : acc.rows[x] =
             IF x \in seen \union {m} /\ x \in dead THEN Closed(now[x]) ELSE now[x]
      BY <1>2, <1>5
    <2>4. \A x \in ms : x[1] = "losers" =>
             IF x \in dead THEN acc.count[x] = 0
             ELSE /\ acc.count[x] >= 1
                  /\ \A y \in dead : y \notin seen \union {m} /\ links[y] = x => acc.count[x] >= 2
      BY <1>2
    <2> QED
      BY <1>4, <2>2, <2>3, <2>4 DEF Accounted, next, dead
  <1>6. CASE m \in dead
    <2>1. /\ links[m] \in ms /\ links[m] # m /\ links[m] \notin dead /\ won[links[m]] = {m}
          /\ now[m].status = "pending" /\ ~Full(now[m]) /\ SoleTeam(now[m]) = Nobody
      BY <1>6, DeadLeads
    <2>2. links[m] # NoMatch
      BY <2>1 DEF Cascading
    <2>3. ~(acc.count[m] > 0)
      BY <1>2, <1>6
    <2>4. next = [rows |-> MarkBye(acc.rows, m), count |-> [acc.count EXCEPT ![links[m]] = @ - 1]]
      BY <1>3, <2>1, <2>2, <2>3 DEF EmptyLosersMatch
    <2>5. MarkBye(acc.rows, m) = [acc.rows EXCEPT ![m] = Closed(now[m])]
      BY <1>3 DEF MarkBye, Closed
    <2> HIDE DEF next, dead
    <2>6. \A x \in ms : next.rows[x] = IF x = m THEN Closed(now[m]) ELSE acc.rows[x]
      BY <1>1, <2>4, <2>5
    <2>7. \A x \in ms : next.count[x] = IF x = links[m] THEN acc.count[x] - 1 ELSE acc.count[x]
      BY <1>1, <2>1, <2>4
    <2>8. \A x \in ms : next.rows[x] =
             IF x \in seen \union {m} /\ x \in dead THEN Closed(now[x]) ELSE now[x]
      BY <1>2, <1>6, <2>6
    <2>9. ASSUME NEW x \in ms, x[1] = "losers"
          PROVE  IF x \in dead THEN next.count[x] = 0
                 ELSE /\ next.count[x] >= 1
                      /\ \A y \in dead : y \notin seen \union {m} /\ links[y] = x => next.count[x] >= 2
      <3>1. CASE x = links[m]
        <4>1. x \notin dead /\ acc.count[x] >= 2 /\ acc.count[x] \in Int
          BY <1>1, <1>2, <1>6, <2>1, <2>9, <3>1
        <4>2. \A y \in dead : links[y] = x => y = m
          <5> TAKE y \in dead
          <5>1. links[y] = x => won[x] = {y}
            BY DeadLeads DEF dead
          <5> QED
            BY <2>1, <3>1, <5>1
        <4> QED
          BY <2>7, <3>1, <4>1, <4>2
      <3>2. CASE x # links[m]
        BY <1>2, <2>7, <2>9, <3>2
      <3> QED
        BY <3>1, <3>2
    <2> QED
      BY <1>4, <2>8, <2>9 DEF Accounted, dead, next
  <1> QED
    BY <1>5, <1>6

\* The cascade closes the dead matches and nothing else.
LEMMA CascadeCloses ==
    ASSUME NEW ms, NEW won, NEW lost, NEW links, NEW drops, NEW now, NEW byes, NEW gf,
           Cascading(ms, won, lost, links, drops, now, byes, gf), LinksOn(ms, links),
           NEW set, set = {m \in ms : m[1] = "losers"}, 
           NEW c, NEW losers, losers = ListingOf(set), ListsAll(losers, set, c)
    PROVE  LET final == CascadeEmptyByes(now, links, drops)
               dead == Dead(ms, won, lost, byes)
           IN  \A x \in ms : final[x] = IF x \in dead THEN Closed(now[x]) ELSE now[x]
  <1> DEFINE dead == Dead(ms, won, lost, byes)
             Seen(i) == {losers[j] : j \in 1..i}
  <1>0. /\ c \in Nat /\ losers \in [1..c -> set]
        /\ \A i, j \in 1..c : losers[i] = losers[j] => i = j
        /\ \A x \in set : \E i \in 1..c : losers[i] = x
    BY DEF ListsAll
  <1>a. /\ IsFiniteSet(ms) /\ now \in [ms -> Row]
        /\ \A m \in set : m[2] # 1
    BY DEF Cascading, SidesLinked
  <1>1. PICK after : CascadeSteps(after, c, ms, now, links, drops, losers)
    BY <1>a, CascadeLoop
  <1>2. /\ after \in [0..c -> Accounts(ms)] /\ after[0] = Opening(ms, now, links, drops)
        /\ \A i \in 1..c : after[i] = EmptyLosersMatch(after[i - 1], links, losers[i])
        /\ CascadeEmptyByes(now, links, drops) = after[c].rows
    BY <1>1 DEF CascadeSteps
  <1> HIDE DEF dead
  <1> DEFINE S == {i \in Nat : Accounted(after[i], Seen(i), ms, links, now, dead)}
  <1>3. 0 \in S
    <2>1. Seen(0) = {}
      OBVIOUS
    <2>2. after[0] \in Accounts(ms)
      <3>1. 0 \in 0..c
        BY <1>0
      <3> QED
        BY <1>2, <3>1
    <2>3. /\ \A x \in ms : after[0].rows[x] = now[x]
          /\ \A x \in ms : after[0].count[x] = RealFeeders(now, links, drops, x)
      BY <1>2 DEF Opening
    <2>4. \A x \in ms : x[1] = "losers" =>
            IF x \in dead THEN after[0].count[x] = 0
            ELSE /\ after[0].count[x] >= 1
                 /\ \A y \in dead : links[y] = x => after[0].count[x] >= 2
      BY <2>3, OpeningCounts DEF dead
    <2> HIDE DEF Seen
    <2>5. Accounted(after[0], Seen(0), ms, links, now, dead)
      BY <2>1, <2>2, <2>3, <2>4 DEF Accounted
    <2> QED
      BY <2>5
  <1>4. ASSUME NEW i \in 0..c, i \in S, i + 1 <= c PROVE i + 1 \in S
    <2>1. i + 1 \in 1..c /\ (i + 1) - 1 = i /\ i + 1 \in Nat /\ i \in Nat
      <3> HIDE DEF S
      <3> QED
        BY <1>0, <1>4
    <2> DEFINE m == losers[i + 1]
    <2>2. m \in ms /\ m[1] = "losers"
      <3> HIDE DEF S
      <3> QED
        BY <1>0, <2>1
    <2>3. m \notin Seen(i)
      <3>1. \A j \in 1..i : j \in 1..c /\ j # i + 1
        <4> HIDE DEF S
        <4> QED
          BY <1>0, <2>1
      <3> HIDE DEF S
      <3> QED
        BY <1>0, <2>1, <3>1
    <2>4. Seen(i + 1) = Seen(i) \union {m}
      <3>1. 1..i + 1 = (1..i) \union {i + 1}
        <4> HIDE DEF S
        <4> QED
          BY <1>0, <2>1
      <3> HIDE DEF S
      <3> QED
        BY <3>1
    <2>5. after[i + 1] = EmptyLosersMatch(after[i], links, m)
      BY <1>2, <2>1
    <2>6. Accounted(after[i], Seen(i), ms, links, now, dead)
      BY <1>4
    <2> HIDE DEF S, Seen, m
    <2>7. Accounted(after[i + 1], Seen(i + 1), ms, links, now, dead)
      BY <2>2, <2>3, <2>4, <2>5, <2>6, OneMoreSeen DEF dead
    <2> QED
      BY <2>1, <2>7 DEF S
  <1>5. c \in S
    <2>1. c \in 0..c
      BY <1>0
    <2> HIDE DEF S
    <2> QED
      BY <1>0, <1>3, <1>4, <2>1, Climb
  <1>6. Accounted(after[c], Seen(c), ms, links, now, dead)
    BY <1>5
  <1>7. \A x \in dead : x \in Seen(c)
    <2> TAKE x \in dead
    <2>1. x \in set
      BY DeadLeads DEF dead
    <2> QED
      BY <1>0, <2>1
  <1> HIDE DEF S, Seen
  <1> QED
    BY <1>2, <1>6, <1>7 DEF Accounted, dead

\* A double elimination bracket of more than two teams fits play.
LEMMA DoubleFits ==
    ASSUME NEW seeding, Drawn(seeding), Cardinality(DOMAIN seeding) > 2
    PROVE  Generation(InPlay(NewBracket("double_elimination", seeding)))!BracketFits
  <1> DEFINE fmt == "double_elimination"
             b == NewBracket(fmt, seeding)
             n == Cardinality(DOMAIN seeding)
             k == Exponent(n)
             ms == MatchesOf(fmt, k, n)
             won == WonBy(k, ms)
             lost == LostBy(fmt, k, ms)
             links == WinnerLinks(fmt, k, ms)
             drops == LoserLinks(fmt, k, ms)
             play == InPlay(b)
  <1>1. n \in Nat /\ n > 2
    BY SeedsOfDraw
  <1>2. k \in Nat /\ k >= 2
    <2> HIDE DEF n
    <2>1. k \in Nat \ {0} /\ n <= 2^k
      BY <1>1, ExponentFits
    <2>2. k # 1
      <3>1. 2^1 = 2
        BY PowerOfZero, PowerDoubles
      <3> HIDE DEF k
      <3>2. k = 1 => 2^k = 2
        BY <3>1
      <3> QED
        BY <1>1, <2>1, <3>2
    <2> HIDE DEF k
    <2> QED
      BY <2>1, <2>2
  <1>3. fmt \in EliminationFormat
    BY DEF EliminationFormat
  <1>4. SidesLinked(ms, won, lost, GrandFinal(k)) /\ Hung(ms, won, lost)
    <2> HIDE DEF k, n
    <2> QED
      BY <1>2, DoubleHangs
  <1>5. PICK now, byes : Makes(b, seeding, fmt, n, k, ms, now, byes)
    <2>1. Hung(ms, won, lost) =>
            \E byes : Makes(b, seeding, fmt, n, k, ms,
                            AdvanceByes(Created(fmt, k, n, ms, Entries(DOMAIN seeding, seeding, k)),
                                        WinnerLinks(fmt, k, ms)), byes)
      BY <1>3, Making
    <2> QED
      BY <1>4, <2>1
  <1>6. LinksOn(ms, links)
    <2>1. PICK top : LinksOn(ms, links)
      BY <1>3, Advanced
    <2> QED
      BY <2>1
  <1> HIDE DEF b, n, k
  <1>7. /\ NoMatch \notin ms /\ ResetFinal(k) \notin ms /\ ResetFinal(k)[1] = "grand_final_reset"
    BY <1>2, <1>3, MatchesHaveIds
  <1>8. \A m \in ms : \A x \in ms : (links[m] = x <=> m \in won[x]) /\ (drops[m] = x <=> m \in lost[x])
    <2> HIDE DEF ms
    <2> QED
      BY <1>3, <1>4, <1>7, LinksAlong
  <1>9. GivenTo(play, b, fmt, k, ms)
    <2>1. /\ b.format = fmt /\ Depth(b) = k /\ DOMAIN b.rows = ms
          /\ b.links = WinnerLinks(fmt, k, ms) /\ b.drops = LoserLinks(fmt, k, ms)
      BY <1>5 DEF Makes
    <2> QED
      BY <1>2, <1>3, <1>4, <2>1, GivenInPlay
  <1>10. /\ IsFiniteSet(ms) /\ {m \in ms : m[1] = "losers"} = LosersMatches(k)
         /\ ListsAll(ListingOf(LosersMatches(k)), LosersMatches(k), Cardinality(LosersMatches(k)))
    BY <1>2, <1>3, MatchesFinite, SidesAreFinite, FirstRoundIs
  <1> HIDE DEF ms, won, lost, links, drops, play
  <1>11. /\ Linked(play, ms, won, lost) /\ play.match = ms \union {ResetFinal(k)} /\ play.format = fmt
         /\ play.team = Field(b) /\ \A m \in ms : play.rows[m] = b.rows[m]
    BY <1>9 DEF GivenTo, won, lost
  <1>12. /\ now \in [ms -> Row] /\ Opened(now, ms, byes)
         /\ \A x \in ms : x[2] # 1 => Joined(now, won, byes, x)
         /\ b.rows = CascadeEmptyByes(now, links, drops)
    BY <1>5 DEF Makes, won, links, drops
  <1>13. Cascading(ms, won, lost, links, drops, now, byes, GrandFinal(k))
    BY <1>4, <1>7, <1>8, <1>10, <1>12 DEF Cascading
  <1> DEFINE dead == Dead(ms, won, lost, byes)
  <1>14. \A x \in ms : b.rows[x] = IF x \in dead THEN Closed(now[x]) ELSE now[x]
    BY <1>6, <1>10, <1>12, <1>13, CascadeCloses
  <1>15. \A x \in dead : Closed(now[x]).status = "bye"
    <2>1. \A x \in dead : now[x] \in Row
      BY <1>12 DEF Dead
    <2> QED
      BY <2>1 DEF Closed, Row
  <1>16. \A m \in byes : \E x \in ms : m \in won[x]
    <2> TAKE m \in byes
    <2>1. m \in ms /\ m[2] = 1
      BY <1>12 DEF Opened
    <2>2. m # GrandFinal(k)
      BY <1>4, <2>1 DEF SidesLinked
    <2> QED
      BY <1>4, <2>1, <2>2 DEF SidesLinked
  <1>17. Filled(play.rows, play.team, ms, won, lost, byes)
    <2>1. /\ \A t \in play.team : \E m \in ms : m[2] = 1 /\ t \in Seated(play.rows[m])
          /\ \A m, d \in ms : m[2] = 1 /\ d[2] = 1
                              /\ Seated(play.rows[m]) \intersect Seated(play.rows[d]) # {} => m = d
      BY <1>5, <1>11 DEF Makes
    <2>2. /\ \A x \in ms : x \notin dead => play.rows[x] = now[x]
          /\ \A x \in dead : play.rows[x].status = "bye"
      BY <1>11, <1>14, <1>15 DEF Dead
    <2> QED
      BY <1>12, <1>16, <2>1, <2>2, FilledAfter
  <1>18. Generation(play)!DoubleShape
    BY <1>4, <1>7, <1>11, <1>17, DoubleShapeOf
  <1>19. Generation(play)!BracketFits
    BY <1>3, <1>4, <1>11, <1>17, <1>18, EliminationFits
  <1> QED
    BY <1>19 DEF play, b

\* So does a round robin.
LEMMA RoundRobinFitsPlay ==
    ASSUME NEW seeding, Seeded(seeding), Cardinality(DOMAIN seeding) >= 2
    PROVE  Generation(InPlay(NewBracket("round_robin", seeding)))!BracketFits
  <1> DEFINE fmt == "round_robin"
             b == NewBracket(fmt, seeding)
             n == Cardinality(DOMAIN seeding)
             k == Exponent(n)
             ms == MatchesOf(fmt, k, n)
             play == InPlay(b)
  <1>1. /\ b.format = fmt /\ b.links = WinnerLinks(fmt, k, DOMAIN b.rows)
        /\ b.drops = LoserLinks(fmt, k, DOMAIN b.rows)
        /\ b.rows = Created(fmt, k, n, ms, Sorted(DOMAIN seeding, seeding))
    BY DEF NewBracket, GenerateBracket
  <1>2. \A m \in ms : b.rows[m].status = "pending"
    <2> TAKE m \in ms
    <2> DEFINE entries == Sorted(DOMAIN seeding, seeding)
               first == entries[RoundRobinGame(n, m[2], m[3])[1]]
               second == entries[RoundRobinGame(n, m[2], m[3])[2]]
    <2> HIDE DEF b, ms, k, n
    <2>1. b.rows[m] = [EmptyRow EXCEPT !.teamA = first, !.teamB = second]
      BY <1>1 DEF Created
    <2> HIDE DEF first, second
    <2> QED
      BY <2>1 DEF EmptyRow
  <1>3. DOMAIN b.rows = ms
    <2> HIDE DEF b, ms, k, n
    <2> QED
      BY <1>1 DEF Created
  <1> HIDE DEF b, ms, k, n
  <1>4. \A m \in ms : b.links[m] = NoMatch /\ b.drops[m] = NoMatch
    BY <1>1, <1>3 DEF WinnerLinks, LoserLinks
  <1>5. /\ play.match = ms /\ play.format = "round_robin"
        /\ \A m \in ms : play.rows[m] = b.rows[m] /\ play.next[m] = b.links[m] /\ play.drop[m] = b.drops[m]
    BY <1>1, <1>3 DEF InPlay
  <1> HIDE DEF play
  <1>6. Generation(play)!BracketFits
    BY <1>2, <1>4, <1>5, RoundRobinFits
  <1> QED
    BY <1>6 DEF play, b

-----------------------------------------------------------------------------
(* The requests *)

\* What a request has read is a seeding, whatever has become of the field since.
Read(r) ==
    /\ r = [stage |-> r.stage, seeding |-> r.seeding, format |-> r.format]
    /\ \A t \in DOMAIN r.seeding : r.seeding[t] \in Nat
    /\ \A t, u \in DOMAIN r.seeding : r.seeding[t] = r.seeding[u] => t = u
    /\ r.stage = "checked" => /\ Seeded(r.seeding) /\ Cardinality(DOMAIN r.seeding) >= 2
                              /\ r.format \in BracketFormats

\* A bracket is what a generator makes of a seeding; the elimination
\* generators need one without a hole.
Made(b) ==
    b = NoBracket \/ \E fmt \in BracketFormats : \E seeding :
                       /\ Seeded(seeding) /\ Cardinality(DOMAIN seeding) >= 2
                       /\ fmt \in EliminationFormat => Drawn(seeding)
                       /\ b = NewBracket(fmt, seeding)

SetupInv ==
    /\ approved \in Fields
    /\ request = [o \in Organiser |-> request[o]] /\ \A o \in Organiser : Read(request[o])
    /\ bracket = [o \in Organiser |-> bracket[o]] /\ \A o \in Organiser : Made(bracket[o])

\* The seeds that are given, and those that are drawn from what is left.
LEMMA SeedingsAreSeeded ==
    ASSUME NEW field \in Fields, NEW manual,
           \A t \in DOMAIN manual : manual[t] \in Nat,
           \A t, u \in DOMAIN manual : manual[t] = manual[u] => t = u,
           NEW seeding \in Seedings(field, manual)
    PROVE  Seeded(seeding) /\ DOMAIN seeding = field
  <1> DEFINE given == field \intersect DOMAIN manual
             left  == (1..Cardinality(field)) \ {manual[t] : t \in given}
  <1>1. PICK rest \in Injection(field \ given, left) :
          seeding = [t \in field |-> IF t \in given THEN manual[t] ELSE rest[t]]
    BY DEF Seedings
  <1>2. field \subseteq Team /\ IsFiniteSet(field) /\ Cardinality(field) \in Nat
    BY FieldsAreTeams, FS_CardinalityType
  <1>3. /\ rest \in [field \ given -> left]
        /\ \A t, u \in field \ given : rest[t] = rest[u] => t = u
    BY <1>1 DEF Injection, IsInjective
  <1>4. \A t \in field : seeding[t] \in Nat
    BY <1>1, <1>2, <1>3
  <1>5. ASSUME NEW t \in field, NEW u \in field, seeding[t] = seeding[u] PROVE t = u
    BY <1>1, <1>3, <1>5
  <1> QED
    BY <1>1, <1>2, <1>4, <1>5 DEF Seeded, Numbered

\* A team of the list has a last place in it, so the places of a stage are
\* numbers too, and no two teams have the same.
LEMMA PlacesAreSeeds ==
    ASSUME NEW list \in Qualifying
    PROVE  /\ \A t \in DOMAIN Places(list) : Places(list)[t] \in Nat
           /\ \A t, u \in DOMAIN Places(list) : Places(list)[t] = Places(list)[u] => t = u
  <1>1. PICK len \in Nat : list = [i \in 1..len |-> list[i]] /\ DOMAIN list = 1..len
    BY QualifyingAreLists DEF Seq
  <1> DEFINE Latest(t, i) == list[i] = t /\ \A j \in DOMAIN list : list[j] = t => j <= i
  <1>2. ASSUME NEW t \in Range(list) PROVE \E i \in DOMAIN list : Latest(t, i)
    <2> DEFINE behind == {d \in 0..len : \E i \in 1..len : d = len - i /\ list[i] = t}
    <2>1. behind \subseteq Nat /\ behind # {}
      <3>1. PICK i \in 1..len : list[i] = t
        BY <1>1 DEF Range
      <3>2. len - i \in 0..len
        BY <1>1
      <3>3. len - i \in behind
        BY <3>1, <3>2
      <3>4. behind \subseteq Nat
        OBVIOUS
      <3> HIDE DEF behind
      <3> QED
        BY <3>3, <3>4
    <2> HIDE DEF behind
    <2>2. PICK d \in behind : \A e \in behind : d <= e
      BY <2>1, LeastNumber
    <2>3. PICK i \in 1..len : d = len - i /\ list[i] = t
      BY <2>2 DEF behind
    <2>4. ASSUME NEW j \in 1..len, list[j] = t PROVE j <= i
      <3>1. len - j \in behind
        BY <1>1, <2>4 DEF behind
      <3>2. len - i <= len - j
        BY <2>2, <2>3, <3>1
      <3> QED
        BY <1>1, <3>2
    <2> QED
      BY <1>1, <2>3, <2>4
  <1>3. ASSUME NEW t \in DOMAIN Places(list)
        PROVE  Places(list)[t] \in DOMAIN list /\ Latest(t, Places(list)[t])
    <2>1. t \in Range(list) /\ Places(list)[t] = CHOOSE i \in DOMAIN list : Latest(t, i)
      BY DEF Places
    <2> HIDE DEF Latest
    <2> QED
      BY <1>2, <2>1
  <1>4. \A t, u \in DOMAIN Places(list) : Places(list)[t] = Places(list)[u] => t = u
    BY <1>3
  <1> QED
    BY <1>1, <1>3, <1>4

\* No request has read anything yet, and there is no bracket.
LEMMA SetupInvInit == Init => SetupInv
  <1> SUFFICES ASSUME Init PROVE SetupInv
    OBVIOUS
  <1>1. Read(Idle)
    BY DEF Read, Idle, NoSeeding
  <1>2. Made(NoBracket)
    BY DEF Made
  <1> QED
    BY <1>1, <1>2 DEF Init, SetupInv

\* One request moves on.
LEMMA RequestMoves ==
    ASSUME SetupInv, NEW o \in Organiser, NEW r, Read(r), request' = [request EXCEPT ![o] = r],
           approved' \in Fields, bracket' = [q \in Organiser |-> bracket'[q]],
           \A q \in Organiser : Made(bracket'[q])
    PROVE  SetupInv'
  BY DEF SetupInv

\* Each step of a request, and each change made beside it, keeps the invariant.
LEMMA SetupInvStep == SetupInv /\ [Next]_vars => SetupInv'
  <1> SUFFICES ASSUME SetupInv, [Next]_vars PROVE SetupInv'
    OBVIOUS
  <1>1. ASSUME NEW field \in Fields, ChangeTournament(field) PROVE SetupInv'
    BY <1>1 DEF ChangeTournament, SetupInv
  <1>2. ASSUME NEW o \in Organiser, NEW manual \in ManualSeeds(approved), Validate(o, manual)
        PROVE  SetupInv'
    <2> DEFINE r == [stage |-> "asked", seeding |-> manual, format |-> "unread"]
    <2>1. request' = [request EXCEPT ![o] = r] /\ UNCHANGED <<approved, bracket>>
      BY <1>2 DEF Validate
    <2>2. Read(r)
      <3>1. Cardinality(approved) \in Nat
        BY FieldsAreTeams, FS_CardinalityType DEF SetupInv
      <3>2. \A t \in DOMAIN manual : manual[t] \in Nat
        BY <1>2, <3>1 DEF Validate, SeedsAccepted
      <3> QED
        BY <1>2, <3>2 DEF Read, Validate, SeedsAccepted
    <2> HIDE DEF r
    <2> QED
      BY <2>1, <2>2, RequestMoves DEF SetupInv
  <1>3. Read(Idle)
    BY DEF Read, Idle, NoSeeding
  <1>4. ASSUME NEW o \in Organiser, Check(o) PROVE SetupInv'
    <2>1. UNCHANGED <<approved, bracket>>
      BY <1>4 DEF Check
    <2>2. CASE ~Admissible
      <3>1. request' = [request EXCEPT ![o] = Idle]
        BY <1>4, <2>2 DEF Check
      <3> QED
        BY <1>3, <2>1, <3>1, RequestMoves DEF SetupInv
    <2>3. CASE Admissible
      <3>1. PICK seeding \in Seedings(approved, request[o].seeding) :
              request' = [request EXCEPT ![o] = [stage   |-> "checked",
                                                 seeding |-> seeding,
                                                 format  |-> format]]
        BY <1>4, <2>3 DEF Check
      <3> DEFINE r == [stage |-> "checked", seeding |-> seeding, format |-> format]
      <3>2. Seeded(seeding) /\ DOMAIN seeding = approved
        BY SeedingsAreSeeded DEF SetupInv, Read
      <3>3. Read(r)
        BY <2>3, <3>2 DEF Read, Seeded, Numbered, Admissible
      <3>4. request' = [request EXCEPT ![o] = r]
        BY <3>1
      <3> HIDE DEF r
      <3> QED
        BY <2>1, <3>3, <3>4, RequestMoves DEF SetupInv
    <2> QED
      BY <2>2, <2>3
  <1>5. ASSUME NEW o \in Organiser, Create(o) PROVE SetupInv'
    <2>1. request' = [request EXCEPT ![o] = Idle] /\ approved' = approved
      BY <1>5 DEF Create
    <2> DEFINE b == NewBracket(request[o].format, request[o].seeding)
    <2>2. bracket' = bracket \/ (~Crashes(o) /\ bracket' = [bracket EXCEPT ![o] = b])
      BY <1>5 DEF Create
    <2>3. ~Crashes(o) => Made(b)
      <3>1. /\ request[o].stage = "checked" /\ Read(request[o])
        BY <1>5 DEF Create, SetupInv
      <3>2. /\ Seeded(request[o].seeding) /\ Cardinality(DOMAIN request[o].seeding) >= 2
            /\ request[o].format \in BracketFormats
        BY <3>1 DEF Read
      <3>3. ~Crashes(o) => (request[o].format \in EliminationFormat => Drawn(request[o].seeding))
        BY <3>1, <3>2 DEF Crashes, Drawn, EliminationFormat
      <3> QED
        BY <3>2, <3>3 DEF Made
    <2> HIDE DEF b
    <2>4. bracket' = [q \in Organiser |-> bracket'[q]] /\ \A q \in Organiser : Made(bracket'[q])
      BY <2>2, <2>3 DEF SetupInv
    <2> QED
      BY <1>3, <2>1, <2>4, RequestMoves DEF SetupInv
  <1>6. CASE ResetBracket
    BY <1>6 DEF ResetBracket, SetupInv, Made
  <1>7. CASE UNCHANGED vars
    BY <1>7 DEF vars, SetupInv
  <1>8. ASSUME NEW o \in Organiser, NEW list \in Qualifying, Advance(o, list) PROVE SetupInv'
    <2> DEFINE r == [stage |-> "asked", seeding |-> Places(list), format |-> "unread"]
    <2>1. request' = [request EXCEPT ![o] = r] /\ approved' \in Fields /\ bracket' = bracket
      BY <1>8 DEF Advance
    <2>2. Read(r)
      BY PlacesAreSeeds DEF Read
    <2> HIDE DEF r
    <2> QED
      BY <2>1, <2>2, RequestMoves DEF SetupInv
  <1> QED
    BY <1>1, <1>2, <1>4, <1>5, <1>6, <1>7, <1>8 DEF Next

\* The circle method: in a round robin of any size every two teams of the field
\* meet exactly once and nobody plays twice in a round, however the field has
\* changed between the reads of the request that made it (round_robin.go).
THEOREM EveryPairMeetsOnce == Spec => []EveryPairOnce
  <1>1. SetupInv => EveryPairOnce
    <2> SUFFICES ASSUME SetupInv, NEW b \in Brackets \ Eliminations
                 PROVE  /\ \A t, u \in Field(b) : t # u =>
                              One({m \in DOMAIN b.rows : Seated(b.rows[m]) = {t, u}})
                        /\ \A m, x \in DOMAIN b.rows : (m # x /\ m[2] = x[2]) =>
                              Seated(b.rows[m]) \intersect Seated(b.rows[x]) = {}
                        /\ \A m \in DOMAIN b.rows : Full(b.rows[m])
      BY DEF EveryPairOnce
    <2>1. b.format = "round_robin" /\ b # NoBracket /\ Made(b)
      BY DEF Brackets, Eliminations, SetupInv
    <2>2. PICK fmt, seeding :
              /\ Seeded(seeding) /\ Cardinality(DOMAIN seeding) >= 2
              /\ b = NewBracket(fmt, seeding)
      BY <2>1 DEF Made
    <2>3. NewBracket(fmt, seeding).format = fmt
      BY DEF NewBracket
    <2>4. b = NewBracket("round_robin", seeding)
      BY <2>1, <2>2, <2>3, Zenon
    <2> QED
      BY <2>2, <2>4, EveryPairOnceOf
  <1> QED
    BY <1>1, SetupInvInit, SetupInvStep, PTL DEF Spec

\* An elimination bracket comes from a draw, in one of the two formats.
LEMMA DrawnBrackets ==
    ASSUME SetupInv, NEW b \in Eliminations
    PROVE  \E seeding, side, n, k, half, top : RoundOne(b, seeding, side, n, k, half, top)
  <1>1. b.format # "round_robin" /\ b # NoBracket /\ Made(b)
    BY DEF Brackets, Eliminations, SetupInv
  <1>2. PICK fmt, seeding :
            /\ fmt \in BracketFormats /\ (fmt \in EliminationFormat => Drawn(seeding))
            /\ b = NewBracket(fmt, seeding)
    BY <1>1 DEF Made
  <1>3. b.format = fmt
    BY <1>2 DEF NewBracket
  <1>4. fmt \in EliminationFormat
    BY <1>1, <1>2, <1>3 DEF BracketFormats, EliminationFormat
  <1> QED
    BY <1>2, <1>4, OpeningSeats

\* Seeding, padding and advancing the byes lose nobody and leave no match of
\* round 1 empty, for a field of any size, whatever its seeds and however it
\* has changed since they were validated (seeding.go, single_elim.go,
\* double_elim.go, bracket_generation.go).
THEOREM EverybodyStarts == Spec => []EveryTeamStartsOnce
  <1>1. SetupInv => EveryTeamStartsOnce
    BY DrawnBrackets, StartsOnceOf DEF EveryTeamStartsOnce
  <1> QED
    BY <1>1, SetupInvInit, SetupInvStep, PTL DEF Spec

\* The byes go to the best seeds and to nobody else, for a field of any size
\* ("Highest seeds get BYEs", seeding.go).
THEOREM BestSeedsGetByes == Spec => []ByesToTopSeeds
  <1>1. SetupInv => ByesToTopSeeds
    BY DrawnBrackets, ByesOf DEF ByesToTopSeeds
  <1> QED
    BY <1>1, SetupInvInit, SetupInvStep, PTL DEF Spec

\* The 2^d best seeds are in different subtrees of the last d rounds, for a
\* field of any size: the doubling of standardPairingsIterative leaves a best
\* seed where it was and puts none beside it (seeding.go).
THEOREM BestSeedsMeetLate == Spec => []TopSeedsApart
  <1>1. SetupInv => TopSeedsApart
    BY DrawnBrackets, ApartOf DEF TopSeedsApart
  <1> QED
    BY <1>1, SetupInvInit, SetupInvStep, PTL DEF Spec
\* Whatever is generated, for a field of any size, has the shape that the
\* theorems on play start from: links lead on and to the right side, every
\* slot is accounted for, dead matches are closed, every team starts once
\* (GenerateBracket with its byes and cascadeEmptyByes, single_elim.go,
\* double_elim.go, round_robin.go).
THEOREM GeneratedFitsPlay == Spec => []FitToPlay
  <1>1. SetupInv => FitToPlay
    <2> SUFFICES ASSUME SetupInv, NEW b \in Brackets, b.format = "double_elimination" => Size(b) > 2
                 PROVE  Generation(InPlay(b))!BracketFits
      BY DEF FitToPlay
    <2>1. b # NoBracket /\ Made(b)
      BY DEF Brackets, SetupInv
    <2>2. PICK fmt, seeding :
             /\ fmt \in BracketFormats /\ Seeded(seeding) /\ Cardinality(DOMAIN seeding) >= 2
             /\ fmt \in EliminationFormat => Drawn(seeding)
             /\ b = NewBracket(fmt, seeding)
      BY <2>1 DEF Made
    <2>3. b.format = fmt /\ Size(b) = Cardinality(DOMAIN seeding)
      BY <2>2 DEF NewBracket, Size, Field
    <2>4. CASE fmt = "single_elimination"
      BY <2>2, <2>4, SingleFits DEF EliminationFormat
    <2>5. CASE fmt = "double_elimination"
      BY <2>2, <2>3, <2>5, DoubleFits DEF EliminationFormat
    <2>6. CASE fmt = "round_robin"
      BY <2>2, <2>6, RoundRobinFitsPlay
    <2> QED
      BY <2>2, <2>4, <2>5, <2>6 DEF BracketFormats
  <1> QED
    BY <1>1, SetupInvInit, SetupInvStep, PTL DEF Spec
=============================================================================
