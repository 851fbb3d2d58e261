----------------------------- MODULE MCBracket ------------------------------
(***************************************************************************)
(* Bracket on the brackets that BracketGen generates for the teams 1..N,   *)
(* seeded in that order (teams are interchangeable, so one seeding stands  *)
(* for all).                                                               *)
(***************************************************************************)
EXTENDS Bracket, BracketGen

CONSTANT N

MCTeam == 1..N

MCExponent == Exponent(N)

MCReset == IF Format = "double_elimination" THEN {ResetFinal(MCExponent)} ELSE {}

MCPlayed == MatchesOf(Format, MCExponent, N)

MCMatch == MCPlayed \union MCReset

MCWinnerLinks == WinnerLinks(Format, MCExponent, MCPlayed)

MCLoserLinks == LoserLinks(Format, MCExponent, MCPlayed)

MCNextMatch == [m \in MCMatch |-> IF m \in MCPlayed THEN MCWinnerLinks[m] ELSE NoMatch]

MCLoserNextMatch == [m \in MCMatch |-> IF m \in MCPlayed THEN MCLoserLinks[m] ELSE NoMatch]

MCPosition == [m \in MCMatch |-> m[1]]

MCRound == [m \in MCMatch |-> m[2]]

MCOrder == [m \in MCMatch |-> CHOOSE i \in 1..Cardinality(MCMatch) : ListingOf(MCMatch)[i] = m]

MCSeeding == [t \in MCTeam |-> t]

MCRows == GenerateBracket(Format, MCTeam, MCSeeding)

MCGenerated == [m \in MCMatch |-> IF m \in MCPlayed THEN MCRows[m] ELSE AbsentRow]

\* The hypothesis of the theorems on play holds of the brackets played here.
ASSUME GeneratedFits == BracketFits
=============================================================================
