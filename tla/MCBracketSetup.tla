--------------------------- MODULE MCBracketSetup ---------------------------
(***************************************************************************)
(* BracketSetup for TLC, on two kinds of fields.  Fields of at most Small  *)
(* teams share their teams: every partial assignment of manual seeds is    *)
(* tried, with every random completion.  Each larger size has teams of its *)
(* own, and the requests seed all of them, in every rotation of one order. *)
(***************************************************************************)
EXTENDS BracketSetup

CONSTANTS Small, Large

Block(size, m) == {<<size, i>> : i \in 1..m}

SmallFields == {Block(Small, m) : m \in 1..Small}

MCFields == SmallFields \union {Block(m, m) : m \in (Small + 1)..Large}

MCTeam == UNION MCFields

Rotations(field) ==
    LET m == Cardinality(field)
    IN  {[t \in field |-> ((t[2] + s) % m) + 1] : s \in 0..m-1}

MCManualSeeds(field) ==
    IF field \in SmallFields THEN UNION {[d -> 1..Small] : d \in SUBSET Block(Small, Small)}
                             ELSE Rotations(field)

\* What groups of the small field may send on: every list of two or three places
\* for all but one of its teams, also one in which a team of two groups comes twice.
MCQualifying == UNION {[1..m -> Block(Small, Small - 1)] : m \in 2..3}

\* Bounds.  For the larger fields, nobody joins or leaves between the
\* validation of a request and its guards, so that no seed is drawn at random.
\* Once there is a bracket, no other request is followed until it is reset:
\* the rows of a bracket do not change any more.
Followed ==
    \A o \in Organiser :
        /\ (request[o].stage = "asked" /\ approved \notin SmallFields) =>
              DOMAIN request[o].seeding = approved
        /\ bracket[o] # NoBracket =>
              /\ request[o] = Idle
              /\ approved = DOMAIN bracket[o].seeding
              /\ ongoing
=============================================================================
