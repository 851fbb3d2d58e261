---------------------------- MODULE MCEnrolment ----------------------------
(***************************************************************************)
(* An instance of Enrolment: a team with an invite, and another team and   *)
(* another invite that may be made.                                        *)
(***************************************************************************)
EXTENDS Enrolment, TLC

CONSTANTS c,    \* the captain of the founded team
          t1,   \* the founded team
          i1    \* the invite that is made

FoundedFirst == (t1 :> c) @@ [t \in Team |-> None]
FirstForFirst == (i1 :> t1) @@ [i \in Invite |-> None]
TwiceFirst == (c :> 2) @@ [u \in Player |-> 1]
Symmetry == Permutations(Conn) \union Permutations(Player \ {c})
=============================================================================
