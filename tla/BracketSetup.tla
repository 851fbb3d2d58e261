---------------------------- MODULE BracketSetup ----------------------------
(***************************************************************************)
(* When a bracket exists: the generate-bracket request, from the handler's *)
(* check of the manual seeds (or the end of a stage, whose seeds nobody    *)
(* checks) over the guards of GenerateBracket to the rows it creates,      *)
(* while teams are added and removed and other requests run; and           *)
(* ResetBracket, which deletes the matches.  What is generated is          *)
(* BracketGen.  The three steps of a request are its three reads of the    *)
(* database that nothing locks against each other.                         *)
(***************************************************************************)
EXTENDS BracketGen

CONSTANTS Organiser,       \* requests that may run at once
          Formats,         \* the values of tournaments.format tried
          Fields,          \* the sets of teams that may come to be approved
          ManualSeeds(_),  \* the manual_seeds tried for a field
          Qualifying       \* what the groups of a stage may send on: lists of teams

ASSUME QualifyingAreLists == \A list \in Qualifying : list \in Seq(Range(list))

ASSUME FieldsAreTeams == Fields \subseteq SUBSET Team /\ \A field \in Fields : IsFiniteSet(field)

VARIABLES approved,   \* tournament_teams with status approved
          ongoing,    \* tournaments.status is "ongoing" (or the older "active")
          format,     \* tournaments.format
          request,    \* what each request has read
          bracket     \* the matches each request has created

vars == <<approved, ongoing, format, request, bracket>>

NoSeeding == <<>>

Idle == [stage |-> "idle", seeding |-> NoSeeding, format |-> "unread"]

NoBracket == [seeding |-> NoSeeding, format |-> "unread",
              rows |-> <<>>, links |-> <<>>, drops |-> <<>>]

Init ==
    /\ approved \in Fields
    /\ ongoing \in BOOLEAN
    /\ format \in Formats
    /\ request = [o \in Organiser |-> Idle]
    /\ bracket = [o \in Organiser |-> NoBracket]

\* AdminRegisterTeam, AdminRemoveTeam and TournamentService.Update.
ChangeTournament(field) ==
    /\ approved' = field
    /\ ongoing' \in BOOLEAN
    /\ format' \in Formats
    /\ UNCHANGED <<request, bracket>>

\* The handler: manual seeds are unique and within 1..n.
SeedsAccepted(manual) ==
    /\ \A t \in DOMAIN manual : manual[t] \in 1..Cardinality(approved)
    /\ \A t, u \in DOMAIN manual : manual[t] = manual[u] => t = u

Validate(o, manual) ==
    /\ request[o] = Idle
    /\ SeedsAccepted(manual)
    /\ request' = [request EXCEPT ![o] = [stage   |-> "asked",
                                          seeding |-> manual,
                                          format  |-> "unread"]]
    /\ UNCHANGED <<approved, ongoing, format, bracket>>

\* manualSeeds[tid] = i + 1 in a loop: a team of two groups keeps its last place.
Places(list) ==
    [t \in Range(list) |->
        CHOOSE i \in DOMAIN list : /\ list[i] = t
                                   /\ \A j \in DOMAIN list : list[j] = t => j <= i]

\* AdvanceToNextStage enters who has qualified and has no entry (an insert may
\* fail, an entry may be one that is not approved), and asks for a bracket.
Advance(o, list) ==
    /\ request[o] = Idle
    /\ Len(list) >= 2
    /\ \E field \in Fields :
          /\ approved \subseteq field
          /\ field \subseteq approved \union Range(list)
          /\ approved' = field
    /\ request' = [request EXCEPT ![o] = [stage   |-> "asked",
                                          seeding |-> Places(list),
                                          format  |-> "unread"]]
    /\ UNCHANGED <<ongoing, format, bracket>>

\* The formats that have a generator.
BracketFormats == {"single_elimination", "double_elimination", "round_robin"}

\* GenerateBracket up to the generator; a refused request is over.
Admissible ==
    /\ ongoing
    /\ \A o \in Organiser : bracket[o] = NoBracket
    /\ Cardinality(approved) >= 2
    /\ format \in BracketFormats

\* The seeds stored with the entries add nothing: every entry is created
\* without one, and a swap of two teams swaps what is there.
Check(o) ==
    /\ request[o].stage = "asked"
    /\ IF Admissible
       THEN \E seeding \in Seedings(approved, request[o].seeding) :
              request' = [request EXCEPT ![o] = [stage   |-> "checked",
                                                 seeding |-> seeding,
                                                 format  |-> format]]
       ELSE request' = [request EXCEPT ![o] = Idle]
    /\ UNCHANGED <<approved, ongoing, format, bracket>>

\* The generator panics on a hole in the seeds before a row is written.
Crashes(o) ==
    /\ request[o].stage = "checked"
    /\ request[o].format # "round_robin"
    /\ SeedsHaveHole(DOMAIN request[o].seeding, request[o].seeding)

\* The matches with their next_match_id and loser_next_match_id.
NewBracket(fmt, seeding) ==
    LET rows == GenerateBracket(fmt, DOMAIN seeding, seeding)
        k    == Exponent(Cardinality(DOMAIN seeding))
    IN  [seeding |-> seeding,
         format  |-> fmt,
         rows    |-> rows,
         links   |-> WinnerLinks(fmt, k, DOMAIN rows),
         drops   |-> LoserLinks(fmt, k, DOMAIN rows)]

Create(o) ==
    /\ request[o].stage = "checked"
    /\ bracket' = IF Crashes(o) THEN bracket
                  ELSE [bracket EXCEPT ![o] = NewBracket(request[o].format, request[o].seeding)]
    /\ request' = [request EXCEPT ![o] = Idle]
    /\ UNCHANGED <<approved, ongoing, format>>

ResetBracket ==
    /\ bracket' = [o \in Organiser |-> NoBracket]
    /\ UNCHANGED <<approved, ongoing, format, request>>

Next ==
    \/ \E field \in Fields : ChangeTournament(field)
    \/ \E o \in Organiser :
          \/ \E manual \in ManualSeeds(approved) : Validate(o, manual)
          \/ \E list \in Qualifying : Advance(o, list)
          \/ Check(o)
          \/ Create(o)
    \/ ResetBracket

Spec == Init /\ [][Next]_vars

-----------------------------------------------------------------------------
(* Properties.  Those of a bracket speak of every bracket there is; Field  *)
(* is the teams it was generated for.                                      *)

Brackets == {bracket[o] : o \in Organiser} \ {NoBracket}

Field(b) == DOMAIN b.seeding
Size(b) == Cardinality(Field(b))
Depth(b) == Exponent(Size(b))

One(S) == Cardinality(S) = 1

Eliminations == {b \in Brackets : b.format # "round_robin"}

TypeOK ==
    /\ approved \in Fields
    /\ ongoing \in BOOLEAN
    /\ \A o \in Organiser : request[o].stage \in {"idle", "asked", "checked"}
    /\ \A b \in Brackets : \A m \in DOMAIN b.rows : b.rows[m] \in Row

FirstRound(b) == {m \in DOMAIN b.rows : m[2] = 1}

\* Seeding and padding lose nobody: in an elimination bracket every team of
\* the field starts in exactly one match of round 1, and no match of round 1
\* is without a team.
EveryTeamStartsOnce ==
    \A b \in Eliminations :
        /\ \A t \in Field(b) : One({m \in FirstRound(b) : t \in Seated(b.rows[m])})
        /\ \A m \in FirstRound(b) : Seated(b.rows[m]) # {}

\* "Highest seeds get BYEs": the teams with a bye in round 1 are the best
\* seeded, one for every missing entry.
ByesToTopSeeds ==
    \A b \in Eliminations :
        {t \in Field(b) : \E m \in FirstRound(b) : b.rows[m].winner = t} =
            {t \in Field(b) : b.seeding[t] <= 2^Depth(b) - Size(b)}

\* The first-round matches of the subtree below match i of round r.
Leaves(b, r, i) == {m \in FirstRound(b) : (m[3] - 1) \div 2^(r-1) = i - 1}

\* Standard seeding: in every round r the matches are the subtrees of the
\* 2^(Depth-r) best seeds, one each, so that seeds 1 and 2 can only meet in the
\* final, 1 to 4 not before the semifinals, and so on.
TopSeedsApart ==
    \A b \in Eliminations : \A r \in 1..Depth(b) : \A i \in 1..2^(Depth(b)-r) :
        One({t \in Field(b) : /\ b.seeding[t] <= 2^(Depth(b)-r)
                              /\ \E m \in Leaves(b, r, i) : t \in Seated(b.rows[m])})

\* The bracket as play sees it: the matches created and, in double
\* elimination, the reset that the grand final may yet create.
InPlay(b) ==
    LET created == DOMAIN b.rows
        known   == created \union (IF b.format = "double_elimination" THEN {ResetFinal(Depth(b))}
                                                                      ELSE {})
    IN  [format |-> b.format,
         team   |-> Field(b),
         match  |-> known,
         next   |-> [m \in known |-> IF m \in created THEN b.links[m] ELSE NoMatch],
         drop   |-> [m \in known |-> IF m \in created THEN b.drops[m] ELSE NoMatch],
         rows   |-> [m \in known |-> IF m \in created THEN b.rows[m] ELSE AbsentRow]]

Generation(play) == INSTANCE BracketLinks
    WITH Team <- play.team,
         Match <- play.match,
         Format <- play.format,
         NextMatch <- play.next,
         LoserNextMatch <- play.drop,
         Position <- [m \in play.match |-> m[1]],
         Round <- [m \in play.match |-> m[2]],
         Generated <- play.rows

\* What is generated can be played out: links lead to later rounds and to the
\* side of the bracket they should, every match has a slot for each team that
\* is still to be sent to it, is closed if too few will come, and every team
\* starts once.  Double elimination of two teams is left out: it has no losers
\* bracket, and nobody ever joins the winner in its final.
FitToPlay ==
    \A b \in Brackets : (b.format = "double_elimination" => Size(b) > 2) =>
        LET play == InPlay(b) IN Generation(play)!BracketFits

\* The circle method: every two teams meet exactly once, and nobody plays
\* twice in a round.
EveryPairOnce ==
    \A b \in Brackets \ Eliminations :
        /\ \A t, u \in Field(b) : t # u =>
              One({m \in DOMAIN b.rows : Seated(b.rows[m]) = {t, u}})
        /\ \A m, x \in DOMAIN b.rows : (m # x /\ m[2] = x[2]) =>
              Seated(b.rows[m]) \intersect Seated(b.rows[x]) = {}
        /\ \A m \in DOMAIN b.rows : Full(b.rows[m])
=============================================================================
