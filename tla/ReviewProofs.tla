---------------------------- MODULE ReviewProofs ----------------------------
(***************************************************************************)
(* Proofs about SubmissionReview, for any teams, processes and series: its *)
(* types, that every lock comes back and, where no organiser completes the *)
(* match himself, that it is decided once and not taken back but by a late *)
(* start, and only for a team that earned it.                              *)
(***************************************************************************)
EXTENDS SubmissionReview, FiniteSetTheorems, SequenceTheorems, TLAPS

Submitters == {p \in Process : proc[p].at \in Submitting}

\* Every submission under way has a place left.
PlaceKept == made + Cardinality(Submitters) <= MaxSubs

Reviewing == {"write", "apply", "count", "lock", "refetch", "score", "applied"}

\* What a process has in its hands where it needs it.
Equipped(p) ==
    /\ proc[p].at \in Submitting => proc[p].draft \in Sub
    /\ proc[p].hand \in Seq(1..made) /\ proc[p].todo \in Seq(1..made)
    /\ proc[p].at = "write" => proc[p].todo # <<>>
    /\ proc[p].at \in Reviewing => proc[p].hand # <<>>
    /\ proc[p].at \in {"started", "score", "result"} => proc[p].row \in Match

\* Only a goroutine counts tries, and it has submissions in hand wherever a
\* request would be over.
Answerable(p) ==
    /\ proc[p].at \in {"auto", "pairs", "end"} => proc[p].tries > 0
    /\ proc[p].tries > 0 =>
          /\ proc[p].at \notin Submitting \union Starting \union {"idle"}
          /\ proc[p].at \in {"auto", "pairs", "end"} \/ proc[p].hand # <<>>

\* A process holds only the locks of the section it is in.
Held(p) ==
    /\ \A t \in Team : holder[t] = p => proc[p].at \in {"number", "insert"} /\ proc[p].draft.team = t
    /\ holder["auto"] = p => proc[p].tries > 0 /\ proc[p].at # "auto"
    /\ holder["apply"] = p => proc[p].at \in Applying \union {"failed"} /\ proc[p].hand # <<>>
    /\ holder["complete"] = p => proc[p].at \in {"decide", "result"}

Orderly(p) == Equipped(p) /\ Answerable(p) /\ Held(p)

IInv ==
    /\ TypeOK
    /\ PlaceKept
    /\ \A p \in Process : Orderly(p)

\* Where organisers do not complete the match themselves, who applies holds the
\* lock: what it has read is what the match is, unless a start made it live.
Undisturbed(p) ==
    /\ proc[p].at \in Applying => holder["apply"] = p
    /\ proc[p].at = "score" => proc[p].row = match \/ match.status = "live"
    /\ proc[p].at = "result" => match.status = "live"

Alone ==
    /\ \A p \in Process : Undisturbed(p)
    /\ counted \in {0, 1}
    /\ match.status # "completed" => counted = 0

-----------------------------------------------------------------------------
(* Types *)

\* The state a process begins and ends in.
LEMMA IdleType == Idle \in Local
BY ReviewShape DEF Idle, Local, Phases, Starting, Submitting, Applying, Sub, Verdict, Wins, NoWins,
                   Match, Id

\* A tally is a number of games per team.
LEMMA TallyType ==
    ASSUME TypeOK
    PROVE  Tallies \subseteq Wins
<1>1. IsFiniteSet(Games)
  <2>1. Games \subseteq 0..(MaxSubs + 1)
    BY DEF TypeOK, Games, With, Sub
  <2>2. IsFiniteSet(0..(MaxSubs + 1))
    BY FS_Interval, ReviewShape
  <2> QED BY <2>1, <2>2, FS_Subset
<1>2. ASSUME NEW w
      PROVE  [t \in Team |-> Cardinality({g \in Games : w[g] = t})] \in Wins
  <2> DEFINE won(t) == Cardinality({g \in Games : w[g] = t})
  <2>1. ASSUME NEW t \in Team
        PROVE  won(t) \in Nat
    <3>1. {g \in Games : w[g] = t} \subseteq Games
      OBVIOUS
    <3>2. IsFiniteSet({g \in Games : w[g] = t})
      BY <1>1, <3>1, FS_Subset, Zenon
    <3> QED BY <3>2, FS_CardinalityType
  <2> HIDE DEF won
  <2>2. [t \in Team |-> won(t)] \in Wins
    BY <2>1 DEF Wins
  <2> QED BY <2>2 DEF won
<1>3. ASSUME NEW wins \in Tallies
      PROVE  wins \in Wins
  <2>1. PICK w \in Resolutions : wins = [t \in Team |-> Cardinality({g \in Games : w[g] = t})]
    BY <1>3, Zenon DEF Tallies
  <2> QED BY <1>2, <2>1, Zenon
<1> QED BY <1>3

\* A process that goes on in a state of its type leaves the others theirs.
LEMMA GoType ==
    ASSUME TypeOK, NEW p \in Process, NEW next \in Local, Go(p, next)
    PROVE  proc' \in [Process -> Local]
BY DEF TypeOK, Go

LEMMA TryLockType ==
    ASSUME TypeOK, NEW p \in Process, NEW l \in Lock,
           NEW taken \in Local, NEW refused \in Local, TryLock(p, l, taken, refused)
    PROVE  TypeOK'
<1>1. proc' \in [Process -> Local]
  BY GoType DEF TryLock
<1>2. holder' \in [Lock -> Process \union {Nobody}]
  BY DEF TryLock, TypeOK
<1> QED BY <1>1, <1>2 DEF TryLock, TypeOK

LEMMA BeginType ==
    ASSUME TypeOK, NEW p \in Process, Begin(p)
    PROVE  TypeOK'
<1>1. PICK request \in Submissions \union Verifications \union Completions \union Starts : Go(p, request)
  BY DEF Begin
<1>2. request \in Local
  <2>1. CASE request \in Submissions
    <3>1. PICK t \in Team, w \in Team, x \in Score :
            request = Submission(t, w, x)
      BY <2>1 DEF Submissions
    <3>2. [team |-> t, game |-> 0, winner |-> w, score |-> x, status |-> "pending"] \in Sub
      BY ReviewShape DEF Sub, Verdict
    <3> QED BY <3>1, <3>2, IdleType DEF Submission, Local, Phases, Submitting
  <2>2. CASE request \in Verifications
    <3>1. PICK s \in With("pending") \union With("disputed"), to \in {"approved", "rejected"} :
            request = Verification(s, to)
      BY <2>2 DEF Verifications
    <3>2. s \in Id
      BY ReviewShape DEF With, TypeOK, Id
    <3>3. <<s>> \in Seq(Id)
      BY <3>2
    <3>4. Verification(s, to) \in Local
      BY <3>3, IdleType DEF Verification, Local, Phases, Verdict
    <3> QED BY <3>1, <3>4
  <2>3. CASE request \in Completions
    <3>1. PICK t \in Team : request = [Idle EXCEPT !.at = "complete", !.winner = t]
      BY <2>3 DEF Completions
    <3> QED BY <3>1, IdleType DEF Local, Phases, Applying
  <2>4. CASE request \in Starts
    <3>1. PICK row \in {match, <<>>} : request = [Idle EXCEPT !.at = "start", !.row = row]
      BY <2>4 DEF Starts
    <3>2. row \in Match \union {<<>>}
      BY DEF TypeOK
    <3> QED BY <3>1, <3>2, IdleType DEF Local, Phases, Starting
  <2> QED BY <1>1, <2>1, <2>2, <2>3, <2>4
<1> QED BY <1>1, <1>2, GoType DEF Begin, TypeOK

LEMMA StartType ==
    ASSUME IInv, NEW p \in Process, Start(p) \/ Started(p)
    PROVE  TypeOK'
<1>1. CASE Start(p)
  <2>1. [proc[p] EXCEPT !.at = "started"] \in Local
    <3>1. proc[p] \in Local
      BY DEF IInv, TypeOK
    <3> QED BY <3>1 DEF Local, Phases, Starting
  <2> QED BY <1>1, <2>1, IdleType, GoType DEF Start, Reopens, IInv, TypeOK, Match
<1>2. CASE Started(p)
  BY <1>2, IdleType, GoType DEF Started, Reopens, IInv, TypeOK, Orderly, Equipped, Match
<1> QED BY <1>1, <1>2

\* Who submits has a place left.
LEMMA PlaceLeft ==
    ASSUME IInv, NEW p \in Process, proc[p].at \in Submitting
    PROVE  made + 1 \in 0..MaxSubs
<1>1. IsFiniteSet(Submitters) /\ Cardinality(Submitters) \in Nat
  BY FS_Subset, FS_CardinalityType, ReviewShape DEF Submitters
<1>2. Cardinality(Submitters) # 0
  BY <1>1, FS_EmptySet DEF Submitters
<1> QED BY <1>1, <1>2, ReviewShape DEF IInv, PlaceKept, TypeOK

LEMMA SubmitType ==
    ASSUME IInv, NEW p \in Process, Submit(p) \/ Number(p) \/ Insert(p)
    PROVE  TypeOK'
<1> DEFINE draft == proc[p].draft
<1>1. TypeOK /\ proc[p] \in Local /\ draft \in Sub /\ draft.team \in Lock
  BY DEF IInv, TypeOK, Orderly, Equipped, Submit, Number, Insert, Submitting, Sub, Lock
<1>2. CASE Submit(p)
  <2>1. [proc[p] EXCEPT !.at = "number"] \in Local
    BY <1>1 DEF Local, Phases, Submitting
  <2> QED BY <1>1, <1>2, <2>1, IdleType, TryLockType DEF Submit
<1>3. CASE Number(p)
  <2>1. ASSUME NEW g \in 1..(MaxSubs + 1)
        PROVE  [proc[p] EXCEPT !.at = "insert", !.draft.game = g] \in Local
    <3>1. [draft EXCEPT !.game = g] \in Sub
      BY <1>1, ReviewShape DEF Sub
    <3> QED BY <1>1, <3>1 DEF Local, Phases, Submitting
  <2>2. proc' \in [Process -> Local]
    BY <1>1, <1>3, <2>1, IdleType, GoType DEF Number
  <2>3. holder' \in [Lock -> Process \union {Nobody}]
    BY <1>1, <1>3 DEF Number, TypeOK
  <2> QED BY <1>1, <1>3, <2>2, <2>3 DEF Number, TypeOK
<1>4. CASE Insert(p)
  <2>1. [Idle EXCEPT !.at = "auto", !.tries = 1] \in Local
    BY IdleType DEF Local, Phases
  <2>2. proc' \in [Process -> Local]
    BY <1>1, <1>4, <2>1, IdleType, GoType DEF Insert
  <2>3. holder' \in [Lock -> Process \union {Nobody}]
    BY <1>1, <1>4 DEF Insert, TypeOK
  <2>4. made' \in 0..MaxSubs /\ subs' \in [1..made' -> Sub]
    <3>1. CASE HasPending(draft.team)
      BY <1>1, <1>4, <3>1 DEF Insert, TypeOK
    <3>2. CASE ~HasPending(draft.team)
      <4>1. made' = made + 1 /\ subs' = Append(subs, draft)
        BY <1>4, <3>2 DEF Insert
      <4>2. made' \in 0..MaxSubs
        BY <1>4, <4>1, PlaceLeft DEF Insert, Submitting
      <4>3. subs \in Seq(Sub) /\ Len(subs) = made
        BY <1>1 DEF TypeOK
      <4>4. Append(subs, draft) \in Seq(Sub) /\ Len(Append(subs, draft)) = made + 1
        BY <1>1, <4>3
      <4> QED BY <4>1, <4>2, <4>4, LenProperties
    <3> QED BY <3>1, <3>2
  <2> QED BY <1>1, <1>4, <2>2, <2>3, <2>4 DEF Insert, TypeOK
<1> QED BY <1>2, <1>3, <1>4

\* What ends the work on the submissions in hand.
LEMMA OverType ==
    ASSUME TypeOK, NEW p \in Process
    PROVE  Over(p) \in Local
<1>1. <<>> \in Seq(Id) /\ proc[p] \in Local
  BY DEF TypeOK
<1>2. [proc[p] EXCEPT !.at = "end", !.todo = <<>>] \in Local
  BY <1>1 DEF Local, Phases
<1> QED BY <1>2, IdleType DEF Over

LEMMA VerifyType ==
    ASSUME IInv, NEW p \in Process, AutoLock(p) \/ Pairs(p) \/ Write(p) \/ End(p)
    PROVE  TypeOK'
<1>1. TypeOK /\ proc[p] \in Local /\ "auto" \in Lock
  BY DEF IInv, TypeOK, Lock
<1>2. CASE AutoLock(p)
  <2>1. [proc[p] EXCEPT !.at = "pairs"] \in Local
    BY <1>1 DEF Local, Phases
  <2> QED BY <1>1, <1>2, <2>1, IdleType, TryLockType DEF AutoLock
<1>3. CASE Pairs(p)
  <2>1. [proc[p] EXCEPT !.at = "end"] \in Local
    BY <1>1 DEF Local, Phases
  <2>2. ASSUME NEW ab \in With("pending") \X With("pending"), NEW to \in {"approved", "disputed"}
        PROVE  [proc[p] EXCEPT !.at = "write", !.hand = ab, !.todo = ab, !.to = to] \in Local
    <3>1. With("pending") \subseteq Id
      BY <1>1, ReviewShape DEF With, TypeOK, Id
    <3>2. ab \in Seq(Id)
      <4>1. ab = <<ab[1], ab[2]>> /\ ab[1] \in Id /\ ab[2] \in Id
        BY <3>1
      <4>2. <<ab[1], ab[2]>> \in Seq(Id)
        BY <4>1
      <4> QED BY <4>1, <4>2
    <3> QED BY <1>1, <3>2 DEF Local, Phases, Verdict
  <2>3. proc' \in [Process -> Local]
    BY <1>1, <1>3, <2>1, <2>2, GoType DEF Pairs, To
  <2> QED BY <1>1, <1>3, <2>3 DEF Pairs, TypeOK
<1>4. CASE Write(p)
  <2> DEFINE s == Head(proc[p].todo)
             left == Tail(proc[p].todo)
  <2>1. s \in 1..made /\ left \in Seq(Id) /\ proc[p].to \in Verdict
    <3>1. /\ proc[p].todo \in Seq(1..made) /\ proc[p].todo # <<>>
          /\ proc[p].todo \in Seq(Id) /\ proc[p].to \in Verdict
      BY <1>1, <1>4 DEF IInv, Orderly, Equipped, Write, Local
    <3> QED BY <3>1, HeadTailProperties
  <2>2. subs' \in [1..made -> Sub]
    BY <1>1, <1>4, <2>1 DEF Write, TypeOK, Sub
  <2>3. /\ [proc[p] EXCEPT !.todo = left] \in Local
        /\ [proc[p] EXCEPT !.at = "apply", !.todo = <<>>] \in Local
    <3>1. <<>> \in Seq(Id)
      OBVIOUS
    <3> QED BY <1>1, <2>1, <3>1 DEF Local, Phases
  <2>4. proc' \in [Process -> Local]
    BY <1>1, <1>4, <2>3, OverType, GoType DEF Write
  <2> QED BY <1>1, <1>4, <2>2, <2>4 DEF Write, TypeOK
<1>5. CASE End(p)
  <2>1. [Idle EXCEPT !.at = "auto", !.tries = proc[p].tries + 1] \in Local
    <3>1. proc[p].tries + 1 \in Nat
      BY <1>1 DEF Local
    <3> QED BY <3>1, IdleType DEF Local, Phases
  <2>2. proc' \in [Process -> Local]
    BY <1>1, <1>5, <2>1, IdleType, GoType DEF End
  <2> QED BY <1>1, <1>5, <2>2 DEF End, TypeOK
<1> QED BY <1>2, <1>3, <1>4, <1>5

LEMMA ApplyType ==
    ASSUME IInv, NEW p \in Process,
           \/ Apply(p) \/ Count(p) \/ ApplyLock(p) \/ Refetch(p)
           \/ ScoreSeries(p) \/ Applied(p) \/ Failed(p)
    PROVE  TypeOK'
<1>1. TypeOK /\ proc[p] \in Local /\ "apply" \in Lock /\ NoWins \in Wins
  BY DEF IInv, TypeOK, Lock, NoWins, Wins
<1>2. CASE Apply(p)
  <2>1. [proc[p] EXCEPT !.at = "count"] \in Local
    BY <1>1 DEF Local, Phases
  <2>2. proc' \in [Process -> Local]
    BY <1>1, <1>2, <2>1, OverType, GoType DEF Apply, To
  <2> QED BY <1>1, <1>2, <2>2 DEF Apply, TypeOK
<1>3. CASE Count(p)
  <2>1. ASSUME NEW wins \in Tallies
        PROVE  [proc[p] EXCEPT !.at = "lock", !.wins = wins] \in Local
    <3>1. wins \in Wins
      BY <1>1, TallyType
    <3> QED BY <1>1, <3>1 DEF Local, Phases
  <2>2. proc' \in [Process -> Local]
    BY <1>1, <1>3, <2>1, GoType DEF Count
  <2> QED BY <1>1, <1>3, <2>2 DEF Count, TypeOK
<1>4. CASE ApplyLock(p)
  <2>1. /\ [proc[p] EXCEPT !.at = "refetch"] \in Local
        /\ [proc[p] EXCEPT !.at = "failed", !.wins = NoWins] \in Local
    BY <1>1 DEF Local, Phases, Applying
  <2> QED BY <1>1, <1>4, <2>1, TryLockType DEF ApplyLock
<1>5. CASE Refetch(p)
  <2>1. match \in Match
    BY <1>1 DEF TypeOK
  <2>2. [proc[p] EXCEPT !.at = "score", !.row = match] \in Local
    BY <1>1, <2>1 DEF Local, Phases, Applying
  <2>3. proc' \in [Process -> Local]
    BY <1>1, <1>5, <2>2, GoType DEF Refetch
  <2> QED BY <1>1, <1>5, <2>3 DEF Refetch, TypeOK
<1>6. CASE ScoreSeries(p)
  <2> DEFINE row     == proc[p].row
             wins    == proc[p].wins
             winners == {t \in Team : Decides(wins, t)}
             to      == IF winners = {} THEN "applied" ELSE "complete"
             winner  == IF winners = {} THEN Nobody ELSE CHOOSE t \in winners : TRUE
  <2>1. row \in Match /\ wins \in Wins
    BY <1>1, <1>6 DEF IInv, Orderly, Equipped, ScoreSeries, Local
  <2>2. match' \in Match
    BY <1>6, <2>1 DEF ScoreSeries, Match
  <2>3. winner \in Team \union {Nobody} /\ to \in {"applied", "complete"}
    OBVIOUS
  <2>4. proc' = [proc EXCEPT ![p] = [proc[p] EXCEPT !.at = to, !.winner = winner,
                                                    !.wins = NoWins, !.row = <<>>]]
    BY <1>6 DEF ScoreSeries, Go
  <2> HIDE DEF to, winner
  <2>5. [proc[p] EXCEPT !.at = to, !.winner = winner, !.wins = NoWins, !.row = <<>>] \in Local
    BY <1>1, <2>3 DEF Local, Phases, Applying
  <2>6. proc' \in [Process -> Local]
    BY <1>1, <2>4, <2>5 DEF TypeOK
  <2> QED BY <1>1, <1>6, <2>2, <2>6 DEF ScoreSeries, TypeOK
<1>7. CASE Applied(p)
  <2>1. proc' \in [Process -> Local]
    BY <1>1, <1>7, OverType, GoType DEF Applied
  <2> QED BY <1>1, <1>7, <2>1 DEF Applied, TypeOK
<1>8. CASE Failed(p)
  <2>1. [proc[p] EXCEPT !.at = "write", !.todo = proc[p].hand, !.to = "pending", !.winner = Nobody]
            \in Local
    BY <1>1 DEF Local, Phases, Verdict
  <2>2. proc' \in [Process -> Local]
    BY <1>1, <1>8, <2>1, IdleType, GoType DEF Failed
  <2>3. holder' \in [Lock -> Process \union {Nobody}]
    BY <1>1, <1>8 DEF Failed, TypeOK
  <2> QED BY <1>1, <1>8, <2>2, <2>3 DEF Failed, TypeOK
<1> QED BY <1>2, <1>3, <1>4, <1>5, <1>6, <1>7, <1>8

LEMMA CompleteType ==
    ASSUME IInv, NEW p \in Process, CompleteLock(p) \/ Decide(p) \/ Result(p)
    PROVE  TypeOK'
<1>1. TypeOK /\ proc[p] \in Local /\ "complete" \in Lock /\ match \in Match
  BY DEF IInv, TypeOK, Lock
<1>2. [proc[p] EXCEPT !.at = "failed"] \in Local
  BY <1>1 DEF Local, Phases
<1>3. CASE CompleteLock(p)
  <2>1. [proc[p] EXCEPT !.at = "decide"] \in Local
    BY <1>1 DEF Local, Phases, Applying
  <2> QED BY <1>1, <1>2, <1>3, <2>1, TryLockType DEF CompleteLock
<1>4. CASE Decide(p)
  <2>1. [proc[p] EXCEPT !.at = "result", !.row = match] \in Local
    BY <1>1 DEF Local, Phases, Applying
  <2>2. proc' \in [Process -> Local]
    BY <1>1, <1>2, <1>4, <2>1, GoType DEF Decide, To
  <2>3. holder' \in [Lock -> Process \union {Nobody}]
    BY <1>1, <1>4 DEF Decide, TypeOK
  <2> QED BY <1>1, <1>4, <2>2, <2>3 DEF Decide, TypeOK
<1>5. CASE Result(p)
  <2>1. [proc[p] EXCEPT !.at = "applied", !.winner = Nobody, !.row = <<>>] \in Local
    BY <1>1 DEF Local, Phases, Applying
  <2>2. proc' \in [Process -> Local]
    BY <1>1, <1>5, <2>1, IdleType, GoType DEF Result
  <2>3. match' \in Match
    <3>1. proc[p].winner \in Team \union {Nobody} /\ proc[p].row \in Match
      BY <1>1, <1>5 DEF IInv, Orderly, Equipped, Result, Local
    <3> QED BY <1>5, <3>1 DEF Result, Match
  <2> QED BY <1>1, <1>5, <2>2, <2>3 DEF Result, TypeOK
<1> QED BY <1>3, <1>4, <1>5

LEMMA TypeStep ==
    ASSUME IInv, [Next]_vars
    PROVE  TypeOK'
<1>1. CASE UNCHANGED vars
  BY <1>1 DEF vars, IInv, TypeOK
<1>2. ASSUME NEW p \in Process, Begin(p) \/ Proceed(p)
      PROVE  TypeOK'
  BY <1>2, BeginType, StartType, SubmitType, VerifyType, ApplyType, CompleteType DEF Proceed, IInv
<1> QED BY <1>1, <1>2 DEF Next

-----------------------------------------------------------------------------
(* Locks *)

\* What a process does leaves the others as they are.
LEMMA GoOthers ==
    ASSUME TypeOK, NEW p \in Process, NEW next, Go(p, next)
    PROVE  proc'[p] = next /\ \A q \in Process \ {p} : proc'[q] = proc[q]
BY DEF TypeOK, Go

LEMMA SeqGrows ==
    ASSUME NEW S, NEW T, S \subseteq T, NEW s \in Seq(S)
    PROVE  s \in Seq(T)
<1>1. Len(s) \in Nat /\ s \in [1..Len(s) -> S]
  BY LenProperties
<1>2. s \in [1..Len(s) -> T]
  BY <1>1
<1> QED BY <1>1, <1>2

LEMMA OthersOrderly ==
    ASSUME IInv, TypeOK', NEW p \in Process, NEW next, Go(p, next), made <= made',
           \A l \in Lock : holder'[l] \in {holder[l], p, Nobody}
    PROVE  \A q \in Process \ {p} : Orderly(q)'
<1> SUFFICES ASSUME NEW q \in Process \ {p} PROVE Orderly(q)'
  OBVIOUS
<1>1. proc'[q] = proc[q] /\ Orderly(q)
  BY GoOthers DEF IInv
<1>2. \A l \in Lock : holder'[l] = q => holder[l] = q
  BY ReviewShape
<1>3. Equipped(q)'
  <2>1. 1..made \subseteq 1..made'
    BY DEF IInv, TypeOK
  <2>2. Seq(1..made) \subseteq Seq(1..made')
    BY <2>1, SeqGrows
  <2> QED BY <1>1, <2>2 DEF Orderly, Equipped
<1>4. Answerable(q)'
  BY <1>1 DEF Orderly, Answerable
<1>5. Held(q)'
  BY <1>1, <1>2 DEF Orderly, Held, Lock
<1> QED BY <1>3, <1>4, <1>5 DEF Orderly

LEMMA BeginOrderly ==
    ASSUME IInv, TypeOK', NEW p \in Process, Begin(p)
    PROVE  \A q \in Process : Orderly(q)'
<1>1. PICK request \in Submissions \union Verifications \union Completions \union Starts : Go(p, request)
  BY DEF Begin
<1>2. TypeOK /\ proc'[p] = request /\ made' = made /\ holder' = holder /\ proc[p] = Idle
  BY <1>1, GoOthers DEF Begin, IInv
<1>3. \A l \in Lock : holder[l] # p
  BY <1>2 DEF IInv, Orderly, Held, Idle, Lock, Applying
<1>4. Held(p)'
  BY <1>2, <1>3 DEF Held, Lock
<1>5. Equipped(p)' /\ Answerable(p)'
  <2>1. <<>> \in Seq(1..made)
    OBVIOUS
  <2>2. CASE request \in Submissions
    <3>1. PICK t \in Team, w \in Team, x \in Score : request = Submission(t, w, x)
      BY <2>2 DEF Submissions
    <3>2. /\ request.draft \in Sub /\ request.at = "submit" /\ request.tries = 0
          /\ request.hand = <<>> /\ request.todo = <<>>
      BY <3>1, ReviewShape DEF Submission, Idle, Sub, Verdict
    <3> QED BY <1>2, <2>1, <3>2 DEF Equipped, Reviewing, Answerable
  <2>3. CASE request \in Verifications
    <3>1. PICK s \in With("pending") \union With("disputed"), to \in {"approved", "rejected"} :
            request = Verification(s, to)
      BY <2>3 DEF Verifications
    <3>2. <<s>> \in Seq(1..made) /\ <<s>> # <<>>
      BY DEF With
    <3>3. request.at = "write" /\ request.hand = <<s>> /\ request.todo = <<s>> /\ request.tries = 0
      BY <3>1 DEF Verification, Idle
    <3> QED BY <1>2, <3>2, <3>3 DEF Equipped, Reviewing, Answerable, Submitting
  <2>4. CASE request \in Completions \union Starts
    <3>1. /\ request.at \in {"complete", "start"} /\ request.tries = 0
          /\ request.hand = <<>> /\ request.todo = <<>>
      BY <2>4 DEF Completions, Starts, Idle
    <3> QED BY <1>2, <2>1, <3>1 DEF Equipped, Reviewing, Answerable, Submitting
  <2> QED BY <1>1, <2>2, <2>3, <2>4
<1>6. \A q \in Process \ {p} : Orderly(q)'
  BY <1>1, <1>2, OthersOrderly DEF TypeOK
<1> QED BY <1>4, <1>5, <1>6 DEF Orderly

LEMMA StartOrderly ==
    ASSUME IInv, TypeOK', NEW p \in Process, Start(p) \/ Started(p)
    PROVE  \A q \in Process : Orderly(q)'
<1>1. PICK next : Go(p, next) /\ next \in {Idle, [proc[p] EXCEPT !.at = "started"]}
                  /\ (next # Idle => Start(p) /\ proc[p].row # <<>>)
  BY DEF Start, Started
<1>2. TypeOK /\ proc'[p] = next /\ made' = made /\ holder' = holder /\ proc[p].at \in Starting
  BY <1>1, GoOthers DEF Start, Started, Starting, IInv
<1>3. \A l \in Lock : holder[l] # p
  BY <1>2 DEF IInv, Orderly, Held, Answerable, Lock, Starting, Applying
<1>4. Held(p)'
  BY <1>2, <1>3 DEF Held, Lock
<1>5. Equipped(p)' /\ Answerable(p)'
  <2>1. CASE next = Idle
    BY <1>2, <2>1 DEF Equipped, Reviewing, Answerable, Idle, Submitting
  <2>2. CASE next # Idle
    <3>1. proc[p] \in Local /\ proc[p].tries = 0 /\ proc[p].row \in Match
      BY <1>1, <1>2, <2>2 DEF TypeOK, IInv, Orderly, Answerable, Local
    <3> QED BY <1>1, <1>2, <2>2, <3>1 DEF IInv, Orderly, Equipped, Reviewing, Answerable, Submitting, Local
  <2> QED BY <2>1, <2>2
<1>6. \A q \in Process \ {p} : Orderly(q)'
  BY <1>1, <1>2, OthersOrderly DEF TypeOK
<1> QED BY <1>4, <1>5, <1>6 DEF Orderly

\* An idle process with no lock is orderly.
LEMMA IdleOrderly ==
    ASSUME NEW p, proc'[p] = Idle, \A l \in Lock : holder'[l] # p
    PROVE  Orderly(p)'
<1>1. <<>> \in Seq(1..made')
  OBVIOUS
<1> QED BY <1>1 DEF Orderly, Equipped, Reviewing, Answerable, Held, Lock, Idle, Submitting

\* A goroutine that has just been started or starts again, too.
LEMMA AutoOrderly ==
    ASSUME NEW p, NEW n \in Nat \ {0}, proc'[p] = [Idle EXCEPT !.at = "auto", !.tries = n],
           \A l \in Lock : holder'[l] # p
    PROVE  Orderly(p)'
<1>1. <<>> \in Seq(1..made')
  OBVIOUS
<1>2. /\ proc'[p].at = "auto" /\ proc'[p].hand = <<>> /\ proc'[p].todo = <<>>
      /\ proc'[p].tries = n
  BY DEF Idle
<1>3. Equipped(p)'
  BY <1>1, <1>2 DEF Equipped, Reviewing, Submitting
<1>4. Answerable(p)'
  BY <1>2 DEF Answerable, Submitting, Starting
<1>5. Held(p)'
  BY DEF Held, Lock
<1> QED BY <1>3, <1>4, <1>5 DEF Orderly

LEMMA SubmitOrderly ==
    ASSUME IInv, TypeOK', NEW p \in Process, Submit(p) \/ Number(p) \/ Insert(p)
    PROVE  \A q \in Process : Orderly(q)'
<1> DEFINE draft == proc[p].draft
<1>1. /\ TypeOK /\ Orderly(p) /\ proc[p] \in Local /\ proc[p].at \in Submitting
      /\ draft \in Sub /\ draft.team \in Team
  BY DEF IInv, TypeOK, Orderly, Equipped, Submit, Number, Insert, Submitting, Sub
<1>2. \A l \in Lock : holder[l] = p => l = draft.team /\ proc[p].at # "submit"
  BY <1>1 DEF Orderly, Held, Answerable, Lock, Submitting, Applying
<1>3. CASE Submit(p)
  <2>1. PICK next : Go(p, next) /\ next \in {Idle, [proc[p] EXCEPT !.at = "number"]}
    BY <1>3 DEF Submit, TryLock
  <2>2. proc'[p] = next /\ made' = made
    BY <1>1, <1>3, <2>1, GoOthers DEF Submit, TryLock
  <2>3. /\ \A l \in Lock : holder'[l] \in {holder[l], p}
        /\ \A l \in Lock : holder'[l] = p => l = draft.team /\ next = [proc[p] EXCEPT !.at = "number"]
    <3>1. \A l \in Lock : holder[l] # p
      BY <1>2, <1>3 DEF Submit
    <3>2. CASE holder[draft.team] = Nobody
      <4>1. holder' = [holder EXCEPT ![draft.team] = p] /\ Go(p, [proc[p] EXCEPT !.at = "number"])
        BY <1>3, <3>2 DEF Submit, TryLock
      <4>2. next = [proc[p] EXCEPT !.at = "number"]
        BY <1>1, <2>2, <4>1, GoOthers
      <4> QED BY <1>1, <3>1, <4>1, <4>2 DEF TypeOK
    <3>3. CASE holder[draft.team] # Nobody
      BY <1>3, <3>1, <3>3 DEF Submit, TryLock
    <3> QED BY <3>2, <3>3
  <2>4. Orderly(p)'
    <3>1. CASE next = Idle
      BY <2>2, <2>3, <3>1, IdleOrderly DEF Idle
    <3>2. CASE next = [proc[p] EXCEPT !.at = "number"]
      <4>1. /\ proc'[p].at = "number" /\ proc'[p].draft = draft /\ proc'[p].tries = proc[p].tries
            /\ proc'[p].hand = proc[p].hand /\ proc'[p].todo = proc[p].todo
        BY <1>1, <2>2, <3>2 DEF Local
      <4>2. Equipped(p)' /\ Answerable(p)'
        BY <1>1, <2>2, <4>1 DEF Orderly, Equipped, Reviewing, Answerable, Submitting
      <4>3. Held(p)'
        BY <1>1, <2>3, <4>1, ReviewShape DEF Held, Lock
      <4> QED BY <4>2, <4>3 DEF Orderly
    <3> QED BY <2>1, <3>1, <3>2
  <2> QED BY <2>1, <2>2, <2>3, <2>4, OthersOrderly DEF IInv, TypeOK
<1>4. CASE Number(p)
  <2>1. PICK g, next :
          /\ g \in 1..(MaxSubs + 1)
          /\ Go(p, next)
          /\ \/ next = Idle /\ holder' = [holder EXCEPT ![draft.team] = Nobody]
             \/ next = [proc[p] EXCEPT !.at = "insert", !.draft.game = g] /\ holder' = holder
    BY ZenonT(60), <1>4 DEF Number
  <2>2. proc'[p] = next /\ made' = made
    BY <1>1, <1>4, <2>1, GoOthers DEF Number
  <2>3. \A l \in Lock : holder'[l] \in {holder[l], Nobody}
    BY <1>1, <2>1 DEF TypeOK
  <2>4. Orderly(p)'
    <3>1. CASE next = Idle
      <4>1. next # [proc[p] EXCEPT !.at = "insert", !.draft.game = g]
        BY <1>1, <3>1 DEF Local, Idle
      <4>2. \A l \in Lock : holder'[l] # p
        BY <1>1, <1>2, <2>1, <4>1, ReviewShape DEF TypeOK
      <4> QED BY <2>2, <3>1, <4>2, IdleOrderly
    <3>2. CASE next = [proc[p] EXCEPT !.at = "insert", !.draft.game = g]
      <4>1. /\ proc'[p].at = "insert" /\ proc'[p].draft = [draft EXCEPT !.game = g]
            /\ proc'[p].tries = proc[p].tries
            /\ proc'[p].hand = proc[p].hand /\ proc'[p].todo = proc[p].todo
        BY <1>1, <2>2, <3>2 DEF Local
      <4>2. [draft EXCEPT !.game = g] \in Sub /\ [draft EXCEPT !.game = g].team = draft.team
        BY <1>1, <2>1, ReviewShape DEF Sub
      <4>3. Equipped(p)' /\ Answerable(p)'
        BY <1>1, <2>2, <4>1, <4>2 DEF Orderly, Equipped, Reviewing, Answerable, Submitting
      <4>4. Held(p)'
        BY <1>1, <1>2, <2>3, <4>1, <4>2, ReviewShape DEF Held, Lock
      <4> QED BY <4>3, <4>4 DEF Orderly
    <3> QED BY <2>1, <3>1, <3>2
  <2> QED BY SMTT(30), <2>1, <2>2, <2>3, <2>4, OthersOrderly DEF IInv, TypeOK
<1>5. CASE Insert(p)
  <2>1. PICK next : Go(p, next) /\ next \in {Idle, [Idle EXCEPT !.at = "auto", !.tries = 1]}
    BY <1>5 DEF Insert
  <2>2. proc'[p] = next /\ made <= made'
    BY <1>1, <1>5, <2>1, GoOthers DEF Insert, TypeOK
  <2>3. holder' = [holder EXCEPT ![draft.team] = Nobody]
    BY <1>5 DEF Insert
  <2>4. \A l \in Lock : holder'[l] # p /\ holder'[l] \in {holder[l], Nobody}
    BY <1>1, <1>2, <2>3, ReviewShape DEF TypeOK
  <2>5. Orderly(p)'
    <3>1. 1 \in Nat \ {0}
      OBVIOUS
    <3> QED BY <2>1, <2>2, <2>4, <3>1, IdleOrderly, AutoOrderly
  <2> QED BY <2>1, <2>2, <2>4, <2>5, OthersOrderly DEF IInv
<1> QED BY <1>3, <1>4, <1>5

\* Whoever is done gives back all locks but the goroutine's, which "end" does.
LEMMA OverOrderly ==
    ASSUME IInv, NEW p \in Process, proc'[p] = Over(p), made' = made,
           proc[p].at \notin Submitting \union Starting \union {"idle", "auto"},
           \A l \in Lock : holder'[l] = p => l = "auto" /\ holder["auto"] = p
    PROVE  Orderly(p)'
<1>1. TypeOK /\ Orderly(p) /\ proc[p] \in Local
  BY DEF IInv, TypeOK
<1>2. CASE proc[p].tries > 0
  <2>1. /\ proc'[p].at = "end" /\ proc'[p].todo = <<>> /\ proc'[p].hand = proc[p].hand
        /\ proc'[p].tries = proc[p].tries
    BY <1>1, <1>2 DEF Over, Local
  <2>2. <<>> \in Seq(1..made)
    OBVIOUS
  <2>3. Equipped(p)' /\ Answerable(p)'
    BY <1>1, <1>2, <2>1, <2>2 DEF Orderly, Equipped, Reviewing, Answerable, Submitting, Starting
  <2>4. Held(p)'
    BY <1>2, <2>1, ReviewShape DEF Held, Lock
  <2> QED BY <2>3, <2>4 DEF Orderly
<1>3. CASE ~(proc[p].tries > 0)
  <2>1. \A l \in Lock : holder'[l] # p
    BY <1>1, <1>3 DEF Orderly, Held
  <2> QED BY <1>3, <2>1, IdleOrderly DEF Over
<1> QED BY <1>2, <1>3

LEMMA VerifyOrderly ==
    ASSUME IInv, TypeOK', NEW p \in Process, AutoLock(p) \/ Pairs(p) \/ Write(p) \/ End(p)
    PROVE  \A q \in Process : Orderly(q)'
<1>1. /\ TypeOK /\ Orderly(p) /\ proc[p] \in Local /\ "auto" \in Lock
      /\ proc[p].at \in {"auto", "pairs", "write", "end"}
  BY DEF IInv, TypeOK, Lock, AutoLock, Pairs, Write, End
<1>2. \A l \in Lock : holder[l] = p => l = "auto" /\ proc[p].at # "auto"
  BY <1>1 DEF Orderly, Held, Lock, Applying
<1>3. CASE AutoLock(p)
  <2>1. PICK next :
          /\ Go(p, next)
          /\ \/ next = [proc[p] EXCEPT !.at = "pairs"] /\ holder' = [holder EXCEPT !["auto"] = p]
             \/ next = Idle /\ holder' = holder
    BY <1>3 DEF AutoLock, TryLock
  <2>2. proc'[p] = next /\ made' = made
    BY <1>1, <1>3, <2>1, GoOthers DEF AutoLock, TryLock
  <2>3. \A l \in Lock : holder'[l] \in {holder[l], p}
    BY <1>1, <2>1 DEF TypeOK
  <2>4. Orderly(p)'
    <3>1. CASE next = Idle
      <4>1. holder' = holder
        BY <1>1, <2>1, <3>1 DEF Local, Idle
      <4>2. \A l \in Lock : holder'[l] # p
        BY <1>2, <1>3, <4>1 DEF AutoLock
      <4> QED BY <2>2, <3>1, <4>2, IdleOrderly
    <3>2. CASE next = [proc[p] EXCEPT !.at = "pairs"]
      <4>1. /\ proc'[p].at = "pairs" /\ proc'[p].tries = proc[p].tries
            /\ proc'[p].hand = proc[p].hand /\ proc'[p].todo = proc[p].todo
        BY <1>1, <2>2, <3>2 DEF Local
      <4>2. proc[p].tries > 0
        BY <1>1, <1>3 DEF AutoLock, Orderly, Answerable
      <4>3. Equipped(p)' /\ Answerable(p)'
        BY <1>1, <2>2, <4>1, <4>2 DEF Orderly, Equipped, Reviewing, Answerable, Submitting, Starting
      <4>4. Held(p)'
        <5>1. \A l \in Lock : holder'[l] = p => l = "auto"
          BY <1>1, <1>2, <2>1 DEF TypeOK
        <5> QED BY <4>1, <4>2, <5>1, ReviewShape DEF Held, Lock
      <4> QED BY <4>3, <4>4 DEF Orderly
    <3> QED BY <2>1, <3>1, <3>2
  <2> QED BY <2>1, <2>2, <2>3, <2>4, OthersOrderly DEF IInv, TypeOK
<1>4. CASE Pairs(p)
  <2>1. PICK next :
          /\ Go(p, next)
          /\ \/ next = [proc[p] EXCEPT !.at = "end"]
             \/ \E ab \in With("pending") \X With("pending"), to \in Verdict :
                   next = [proc[p] EXCEPT !.at = "write", !.hand = ab, !.todo = ab, !.to = to]
    BY <1>4 DEF Pairs, To, Verdict
  <2>2. proc'[p] = next /\ made' = made /\ holder' = holder /\ proc[p].tries > 0
    BY <1>1, <1>4, <2>1, GoOthers DEF Pairs, Orderly, Answerable
  <2>3. Equipped(p)' /\ Answerable(p)' /\ proc'[p].at # "auto" /\ proc'[p].tries > 0
    <3>1. CASE next = [proc[p] EXCEPT !.at = "end"]
      <4>1. /\ proc'[p].at = "end" /\ proc'[p].tries = proc[p].tries
            /\ proc'[p].hand = proc[p].hand /\ proc'[p].todo = proc[p].todo
        BY <1>1, <2>2, <3>1 DEF Local
      <4> QED BY <1>1, <2>2, <4>1 DEF Orderly, Equipped, Reviewing, Answerable, Submitting, Starting
    <3>2. ASSUME NEW ab \in With("pending") \X With("pending"), NEW to \in Verdict,
                 next = [proc[p] EXCEPT !.at = "write", !.hand = ab, !.todo = ab, !.to = to]
          PROVE  Equipped(p)' /\ Answerable(p)' /\ proc'[p].at # "auto" /\ proc'[p].tries > 0
      <4>1. /\ proc'[p].at = "write" /\ proc'[p].tries = proc[p].tries
            /\ proc'[p].hand = ab /\ proc'[p].todo = ab
        BY <1>1, <2>2, <3>2 DEF Local
      <4>2. ab \in Seq(1..made) /\ ab # <<>>
        <5>1. ab = <<ab[1], ab[2]>> /\ ab[1] \in 1..made /\ ab[2] \in 1..made
          BY DEF With
        <5>2. <<ab[1], ab[2]>> \in Seq(1..made) /\ <<ab[1], ab[2]>> # <<>>
          BY <5>1
        <5> QED BY <5>1, <5>2
      <4> QED BY <1>1, <2>2, <4>1, <4>2 DEF Equipped, Reviewing, Answerable, Submitting, Starting
    <3> QED BY <2>1, <3>1, <3>2
  <2>4. Held(p)'
    BY <1>2, <2>2, <2>3, ReviewShape DEF Held, Lock
  <2>5. Orderly(p)'
    BY <2>3, <2>4 DEF Orderly
  <2>6. Go(p, next)
    BY <2>1
  <2>7. made <= made' /\ \A l \in Lock : holder'[l] \in {holder[l], p, Nobody}
    BY <1>1, <2>2 DEF TypeOK
  <2> QED BY <2>5, <2>6, <2>7, OthersOrderly
<1>5. CASE Write(p)
  <2>1. PICK next :
          /\ Go(p, next)
          /\ \/ next = [proc[p] EXCEPT !.todo = Tail(proc[p].todo)] /\ Tail(proc[p].todo) # <<>>
             \/ next = [proc[p] EXCEPT !.at = "apply", !.todo = <<>>]
             \/ next = Over(p)
    BY <1>5 DEF Write
  <2>2. proc'[p] = next /\ made' = made /\ holder' = holder /\ proc[p].at = "write"
    BY <1>1, <1>5, <2>1, GoOthers DEF Write
  <2>3. CASE next = Over(p)
    <3>1. Orderly(p)'
      BY <1>1, <1>2, <2>2, <2>3, OverOrderly DEF Submitting, Starting
    <3> QED BY <2>1, <2>2, <3>1, OthersOrderly DEF IInv, TypeOK
  <2>4. CASE next # Over(p)
    <3>1. /\ proc'[p].tries = proc[p].tries /\ proc'[p].hand = proc[p].hand
          /\ \/ /\ proc'[p].at = "write" /\ proc'[p].todo = Tail(proc[p].todo)
                /\ Tail(proc[p].todo) # <<>>
             \/ proc'[p].at = "apply" /\ proc'[p].todo = <<>>
      BY <1>1, <2>1, <2>2, <2>4 DEF Local
    <3>2. <<>> \in Seq(1..made) /\ Tail(proc[p].todo) \in Seq(1..made)
      <4>1. proc[p].todo \in Seq(1..made) /\ proc[p].todo # <<>>
        BY <1>1, <2>2 DEF Orderly, Equipped
      <4>2. Tail(proc[p].todo) \in Seq(1..made)
        BY <4>1, HeadTailProperties
      <4>3. <<>> \in Seq(1..made)
        OBVIOUS
      <4> QED BY <4>2, <4>3
    <3>3. Equipped(p)' /\ Answerable(p)'
      BY <1>1, <2>2, <3>1, <3>2 DEF Orderly, Equipped, Reviewing, Answerable, Submitting, Starting
    <3>4. Held(p)'
      BY <1>1, <1>2, <2>2, <3>1, ReviewShape DEF Orderly, Held, Lock
    <3>5. Orderly(p)'
      BY <3>3, <3>4 DEF Orderly
    <3> QED BY <2>1, <2>2, <3>5, OthersOrderly DEF IInv, TypeOK
  <2> QED BY <2>3, <2>4
<1>6. CASE End(p)
  <2>1. PICK next : Go(p, next) /\ next \in {Idle, [Idle EXCEPT !.at = "auto", !.tries = proc[p].tries + 1]}
    BY <1>6 DEF End
  <2>2. proc'[p] = next /\ made' = made /\ holder' = [holder EXCEPT !["auto"] = Nobody]
    BY <1>1, <1>6, <2>1, GoOthers DEF End
  <2>3. \A l \in Lock : holder'[l] # p /\ holder'[l] \in {holder[l], Nobody}
    BY <1>1, <1>2, <2>2, ReviewShape DEF TypeOK
  <2>4. proc[p].tries + 1 \in Nat \ {0}
    BY <1>1 DEF Local
  <2>5. Orderly(p)'
    BY <2>1, <2>2, <2>3, <2>4, IdleOrderly, AutoOrderly
  <2> QED BY <2>1, <2>2, <2>3, <2>5, OthersOrderly DEF IInv, TypeOK
<1> QED BY <1>3, <1>4, <1>5, <1>6

LEMMA ApplyOrderly ==
    ASSUME IInv, TypeOK', NEW p \in Process,
           \/ Apply(p) \/ Count(p) \/ ApplyLock(p) \/ Refetch(p)
           \/ ScoreSeries(p) \/ Applied(p) \/ Failed(p)
    PROVE  \A q \in Process : Orderly(q)'
<1>1. /\ TypeOK /\ Orderly(p) /\ proc[p] \in Local /\ "apply" \in Lock
      /\ proc[p].at \in {"apply", "count", "lock", "refetch", "score", "applied", "failed"}
  BY DEF IInv, TypeOK, Lock, Apply, Count, ApplyLock, Refetch, ScoreSeries, Applied, Failed
<1>2. \A l \in Lock : holder[l] = p => l \in {"auto", "apply"}
  BY <1>1 DEF Orderly, Held, Lock
<1>3. ASSUME proc[p].at # "failed", proc'[p].tries = proc[p].tries,
             proc'[p].hand = proc[p].hand, proc'[p].todo = proc[p].todo,
             proc'[p].at \in {"count", "lock", "refetch", "score", "complete", "applied", "failed"},
             proc'[p].at = "score" => proc'[p].row \in Match,
             made' = made, \A l \in Lock : holder'[l] = p => l = "apply" \/ holder[l] = p,
             holder'["apply"] = p =>
                proc'[p].at \in Applying \union {"failed"} /\ proc[p].hand # <<>>
      PROVE  Orderly(p)'
  <2>1. Equipped(p)'
    BY <1>1, <1>3 DEF Orderly, Equipped, Reviewing, Submitting
  <2>2. Answerable(p)'
    BY <1>1, <1>3 DEF Orderly, Answerable, Submitting, Starting
  <2>3. Held(p)'
    BY <1>1, <1>2, <1>3, ReviewShape DEF Orderly, Held, Lock
  <2> QED BY <2>1, <2>2, <2>3 DEF Orderly
<1>4. CASE Apply(p)
  <2>1. PICK next : Go(p, next) /\ next \in {Over(p), [proc[p] EXCEPT !.at = "count"]}
    BY <1>4 DEF Apply, To
  <2>2. proc'[p] = next /\ made' = made /\ holder' = holder /\ proc[p].at = "apply"
    BY <1>1, <1>4, <2>1, GoOthers DEF Apply
  <2>3. \A l \in Lock : holder[l] = p => l = "auto"
    BY <1>1, <1>2, <2>2 DEF Orderly, Held, Applying
  <2>4. Orderly(p)'
    <3>1. CASE next = Over(p)
      BY <1>1, <2>2, <2>3, <3>1, OverOrderly DEF Submitting, Starting
    <3>2. CASE next = [proc[p] EXCEPT !.at = "count"]
      BY <1>1, <1>3, <2>2, <2>3, <3>2 DEF Local
    <3> QED BY <2>1, <3>1, <3>2
  <2> QED BY <2>1, <2>2, <2>4, OthersOrderly DEF IInv, TypeOK
<1>5. CASE Count(p)
  <2>1. PICK wins \in Tallies : Go(p, [proc[p] EXCEPT !.at = "lock", !.wins = wins])
    BY <1>5 DEF Count
  <2>2. proc'[p] = [proc[p] EXCEPT !.at = "lock", !.wins = wins] /\ made' = made /\ holder' = holder
    BY <1>1, <1>5, <2>1, GoOthers DEF Count
  <2>3. \A l \in Lock : holder[l] = p => l = "auto"
    BY <1>1, <1>2, <1>5 DEF Orderly, Held, Applying, Count
  <2>4. Orderly(p)'
    BY <1>1, <1>3, <1>5, <2>2, <2>3 DEF Local, Count
  <2> QED BY <2>1, <2>2, <2>4, OthersOrderly DEF IInv, TypeOK
<1>6. CASE ApplyLock(p)
  <2>1. PICK next :
          /\ Go(p, next)
          /\ \/ next = [proc[p] EXCEPT !.at = "refetch"] /\ holder' = [holder EXCEPT !["apply"] = p]
             \/ next = [proc[p] EXCEPT !.at = "failed", !.wins = NoWins] /\ holder' = holder
    BY <1>6 DEF ApplyLock, TryLock
  <2>2. proc'[p] = next /\ made' = made
    BY <1>1, <1>6, <2>1, GoOthers DEF ApplyLock, TryLock
  <2>3. /\ proc'[p].at \in {"refetch", "failed"} /\ proc'[p].tries = proc[p].tries
        /\ proc'[p].hand = proc[p].hand /\ proc'[p].todo = proc[p].todo
    BY <1>1, <2>1, <2>2 DEF Local
  <2>4. \A l \in Lock : holder'[l] = holder[l] \/ (l = "apply" /\ holder'[l] = p)
    BY <1>1, <2>1 DEF TypeOK
  <2>5. proc[p].hand # <<>>
    BY <1>1, <1>6 DEF ApplyLock, Orderly, Equipped, Reviewing
  <2>6. Orderly(p)'
    BY <1>3, <1>6, <2>2, <2>3, <2>4, <2>5 DEF Applying, ApplyLock
  <2> QED BY <2>1, <2>2, <2>4, <2>6, OthersOrderly DEF IInv, TypeOK
<1>7. CASE Refetch(p)
  <2>1. Go(p, [proc[p] EXCEPT !.at = "score", !.row = match]) /\ made' = made /\ holder' = holder
    BY <1>7 DEF Refetch
  <2>2. proc'[p] = [proc[p] EXCEPT !.at = "score", !.row = match]
    BY <1>1, <2>1, GoOthers
  <2>3. holder["apply"] = p => proc[p].hand # <<>>
    BY <1>1 DEF Orderly, Held
  <2>4. Orderly(p)'
    BY <1>1, <1>3, <1>7, <2>1, <2>2, <2>3 DEF Local, Applying, TypeOK, Refetch
  <2> QED BY <2>1, <2>4, OthersOrderly DEF IInv, TypeOK
<1>8. CASE ScoreSeries(p)
  <2> DEFINE winners == {t \in Team : Decides(proc[p].wins, t)}
             to      == IF winners = {} THEN "applied" ELSE "complete"
             winner  == IF winners = {} THEN Nobody ELSE CHOOSE t \in winners : TRUE
             next    == [proc[p] EXCEPT !.at = to, !.winner = winner, !.wins = NoWins, !.row = <<>>]
  <2>1. Go(p, next) /\ made' = made /\ holder' = holder
    BY <1>8 DEF ScoreSeries
  <2>2. proc'[p] = next /\ to \in {"applied", "complete"}
    BY <1>1, <2>1, GoOthers
  <2> HIDE DEF to, winner
  <2>3. holder["apply"] = p => proc[p].hand # <<>>
    BY <1>1 DEF Orderly, Held
  <2>4. /\ proc'[p].at \in {"applied", "complete"} /\ proc'[p].tries = proc[p].tries
        /\ proc'[p].hand = proc[p].hand /\ proc'[p].todo = proc[p].todo
    BY <1>1, <2>2 DEF Local
  <2>5. Orderly(p)'
    BY <1>1, <1>3, <1>8, <2>1, <2>3, <2>4 DEF Applying, ScoreSeries
  <2> QED BY <2>1, <2>5, OthersOrderly DEF IInv, TypeOK
<1>9. CASE Applied(p)
  <2>1. Go(p, Over(p)) /\ made' = made /\ holder' = [holder EXCEPT !["apply"] = Nobody]
    BY <1>9 DEF Applied
  <2>2. proc'[p] = Over(p) /\ proc[p].at = "applied"
    BY <1>1, <1>9, <2>1, GoOthers DEF Applied
  <2>3. /\ \A l \in Lock : holder'[l] \in {holder[l], Nobody}
        /\ \A l \in Lock : holder'[l] = p => l = "auto" /\ holder["auto"] = p
    BY <1>1, <1>2, <2>1, ReviewShape DEF TypeOK
  <2>4. Orderly(p)'
    BY <2>1, <2>2, <2>3, OverOrderly DEF Submitting, Starting
  <2> QED BY <2>1, <2>3, <2>4, OthersOrderly DEF IInv, TypeOK
<1>10. CASE Failed(p)
  <2>1. PICK next :
          /\ Go(p, next)
          /\ \/ next = Idle /\ proc[p].hand = <<>>
             \/ /\ next = [proc[p] EXCEPT !.at = "write", !.todo = proc[p].hand, !.to = "pending",
                                           !.winner = Nobody]
                /\ proc[p].hand # <<>>
    BY <1>10 DEF Failed
  <2>2. proc'[p] = next /\ made' = made
    BY <1>1, <1>10, <2>1, GoOthers DEF Failed
  <2>3. /\ \A l \in Lock : holder'[l] \in {holder[l], Nobody}
        /\ \A l \in Lock : holder'[l] = p => l = "auto" /\ holder["auto"] = p
    BY <1>1, <1>2, <1>10, ReviewShape DEF Failed, TypeOK
  <2>4. Orderly(p)'
    <3>1. CASE proc[p].hand = <<>>
      <4>1. ~(proc[p].tries > 0)
        BY <1>1, <1>10, <3>1 DEF Failed, Orderly, Answerable
      <4>2. \A l \in Lock : holder'[l] # p
        BY <1>1, <2>3, <4>1 DEF Orderly, Held
      <4> QED BY <2>1, <2>2, <3>1, <4>2, IdleOrderly
    <3>2. CASE proc[p].hand # <<>>
      <4>1. /\ proc'[p].at = "write" /\ proc'[p].todo = proc[p].hand
            /\ proc'[p].tries = proc[p].tries /\ proc'[p].hand = proc[p].hand
        BY <1>1, <2>1, <2>2, <3>2 DEF Local
      <4>2. Equipped(p)'
        BY <1>1, <2>2, <3>2, <4>1 DEF Orderly, Equipped, Submitting, Reviewing
      <4>3. Answerable(p)'
        BY <1>1, <3>2, <4>1 DEF Orderly, Answerable, Submitting, Starting
      <4>4. Held(p)'
        BY <1>1, <2>3, <4>1, ReviewShape DEF Orderly, Held, Lock
      <4> QED BY <4>2, <4>3, <4>4 DEF Orderly
    <3> QED BY <3>1, <3>2
  <2> QED BY <2>1, <2>2, <2>3, <2>4, OthersOrderly DEF IInv, TypeOK
<1> QED BY <1>4, <1>5, <1>6, <1>7, <1>8, <1>9, <1>10

LEMMA CompleteOrderly ==
    ASSUME IInv, TypeOK', NEW p \in Process, CompleteLock(p) \/ Decide(p) \/ Result(p)
    PROVE  \A q \in Process : Orderly(q)'
<1>1. /\ TypeOK /\ Orderly(p) /\ proc[p] \in Local /\ "complete" \in Lock
      /\ proc[p].at \in {"complete", "decide", "result"}
  BY DEF IInv, TypeOK, Lock, CompleteLock, Decide, Result
<1>2. \A l \in Lock : holder[l] = p => l \in {"auto", "apply", "complete"}
  BY <1>1 DEF Orderly, Held, Lock
<1>3. ASSUME proc'[p].tries = proc[p].tries, proc'[p].hand = proc[p].hand, proc'[p].todo = proc[p].todo,
             proc'[p].at \in {"decide", "result", "applied", "failed"},
             proc'[p].at = "applied" => proc[p].hand # <<>>,
             proc'[p].at = "result" => proc'[p].row \in Match,
             made' = made, \A l \in Lock : holder'[l] = p => l = "complete" \/ holder[l] = p,
             holder'["complete"] = p => proc'[p].at \in {"decide", "result"}
      PROVE  Orderly(p)'
  <2>1. Equipped(p)'
    BY <1>1, <1>3 DEF Orderly, Equipped, Reviewing, Submitting
  <2>2. Answerable(p)'
    BY <1>1, <1>3 DEF Orderly, Answerable, Submitting, Starting
  <2>3. Held(p)'
    BY <1>1, <1>2, <1>3, ReviewShape DEF Orderly, Held, Lock, Applying
  <2> QED BY <2>1, <2>2, <2>3 DEF Orderly
<1>4. CASE CompleteLock(p)
  <2>1. PICK next :
          /\ Go(p, next)
          /\ \/ next = [proc[p] EXCEPT !.at = "decide"] /\ holder' = [holder EXCEPT !["complete"] = p]
             \/ next = [proc[p] EXCEPT !.at = "failed"] /\ holder' = holder
    BY <1>4 DEF CompleteLock, TryLock
  <2>2. proc'[p] = next /\ made' = made
    BY <1>1, <1>4, <2>1, GoOthers DEF CompleteLock, TryLock
  <2>3. holder["complete"] # p
    BY <1>1, <1>4 DEF Orderly, Held, CompleteLock
  <2>4. /\ proc'[p].tries = proc[p].tries /\ proc'[p].hand = proc[p].hand
        /\ proc'[p].todo = proc[p].todo
        /\ \/ proc'[p].at = "decide"
           \/ proc'[p].at = "failed" /\ holder' = holder
    BY <1>1, <2>1, <2>2 DEF Local
  <2>5. \A l \in Lock : holder'[l] = holder[l] \/ (l = "complete" /\ holder'[l] = p)
    BY <1>1, <2>1 DEF TypeOK
  <2>6. Orderly(p)'
    BY <1>3, <2>2, <2>3, <2>4, <2>5
  <2> QED BY <2>1, <2>2, <2>5, <2>6, OthersOrderly DEF IInv, TypeOK
<1>5. CASE Decide(p)
  <2>1. PICK next :
          /\ Go(p, next)
          /\ \/ next = [proc[p] EXCEPT !.at = "result", !.row = match] /\ holder' = holder
             \/ next = [proc[p] EXCEPT !.at = "failed"] /\ holder' = [holder EXCEPT !["complete"] = Nobody]
    BY <1>5 DEF Decide, To
  <2>2. proc'[p] = next /\ made' = made
    BY <1>1, <1>5, <2>1, GoOthers DEF Decide
  <2>3. /\ proc'[p].tries = proc[p].tries /\ proc'[p].hand = proc[p].hand
        /\ proc'[p].todo = proc[p].todo
        /\ \/ proc'[p].at = "result" /\ proc'[p].row \in Match
           \/ proc'[p].at = "failed" /\ holder' = [holder EXCEPT !["complete"] = Nobody]
    BY <1>1, <2>1, <2>2 DEF Local, TypeOK
  <2>4. \A l \in Lock : holder'[l] = holder[l] \/ holder'[l] = Nobody
    BY <1>1, <2>1 DEF TypeOK
  <2>5. holder'["complete"] = p => proc'[p].at = "result"
    BY <1>1, <2>3, ReviewShape DEF TypeOK
  <2>6. Orderly(p)'
    BY <1>3, <2>2, <2>3, <2>4, <2>5, ReviewShape
  <2> QED BY <2>1, <2>2, <2>4, <2>6, OthersOrderly DEF IInv, TypeOK
<1>6. CASE Result(p)
  <2>1. PICK next :
          /\ Go(p, next)
          /\ \/ next = Idle /\ proc[p].hand = <<>>
             \/ /\ next = [proc[p] EXCEPT !.at = "applied", !.winner = Nobody, !.row = <<>>]
                /\ proc[p].hand # <<>>
    BY <1>6 DEF Result
  <2>2. proc'[p] = next /\ made' = made /\ holder' = [holder EXCEPT !["complete"] = Nobody]
    BY <1>1, <1>6, <2>1, GoOthers DEF Result
  <2>3. \A l \in Lock : holder'[l] \in {holder[l], Nobody} /\ (l = "complete" => holder'[l] # p)
    BY <1>1, <2>2, ReviewShape DEF TypeOK
  <2>4. Orderly(p)'
    <3>1. CASE proc[p].hand = <<>>
      <4>1. ~(proc[p].tries > 0)
        BY <1>1, <1>6, <3>1 DEF Result, Orderly, Answerable
      <4>2. \A l \in Lock : holder'[l] # p
        BY <1>1, <1>2, <2>3, <3>1, <4>1, ReviewShape DEF Orderly, Held
      <4> QED BY <2>1, <2>2, <3>1, <4>2, IdleOrderly
    <3>2. CASE proc[p].hand # <<>>
      <4>1. /\ proc'[p].at = "applied" /\ proc'[p].tries = proc[p].tries
            /\ proc'[p].hand = proc[p].hand /\ proc'[p].todo = proc[p].todo
        BY <1>1, <2>1, <2>2, <3>2 DEF Local
      <4> QED BY <1>1, <1>3, <2>2, <2>3, <3>2, <4>1, ReviewShape
    <3> QED BY <3>1, <3>2
  <2> QED BY <2>1, <2>2, <2>3, <2>4, OthersOrderly DEF IInv, TypeOK
<1> QED BY <1>4, <1>5, <1>6

LEMMA OrderlyStep ==
    ASSUME IInv, [Next]_vars
    PROVE  \A p \in Process : Orderly(p)'
<1>1. CASE UNCHANGED vars
  <2> SUFFICES ASSUME NEW p \in Process PROVE Orderly(p)'
    OBVIOUS
  <2> QED BY <1>1 DEF vars, IInv, Orderly, Equipped, Answerable, Held
<1>2. ASSUME NEW p \in Process, Begin(p) \/ Proceed(p), TypeOK'
      PROVE  \A q \in Process : Orderly(q)'
  BY <1>2, BeginOrderly, StartOrderly, SubmitOrderly, VerifyOrderly, ApplyOrderly, CompleteOrderly
     DEF Proceed
<1> QED BY <1>1, <1>2, TypeStep DEF Next

-----------------------------------------------------------------------------
(* The place of every submission *)

\* The submissions under way are finitely many.
LEMMA SubmittersFinite ==
    /\ IsFiniteSet(Submitters) /\ Cardinality(Submitters) \in Nat
    /\ IsFiniteSet(Submitters') /\ Cardinality(Submitters') \in Nat
BY FS_Subset, FS_CardinalityType, ReviewShape DEF Submitters

\* A step that brings no new submission under way keeps the places.
LEMMA NoNewSubmitter ==
    ASSUME IInv, NEW p \in Process, NEW next, Go(p, next), made' = made,
           next.at \in Submitting => proc[p].at \in Submitting
    PROVE  PlaceKept'
<1>1. Submitters' \subseteq Submitters
  BY GoOthers DEF Submitters, IInv
<1>2. Cardinality(Submitters') <= Cardinality(Submitters)
  BY <1>1, SubmittersFinite, FS_Subset
<1> QED BY <1>2, SubmittersFinite, ReviewShape DEF IInv, PlaceKept, TypeOK

LEMMA PlaceStep ==
    ASSUME IInv, [Next]_vars
    PROVE  PlaceKept'
<1>1. CASE UNCHANGED vars
  BY <1>1 DEF vars, IInv, PlaceKept, Submitters
<1>2. ASSUME NEW p \in Process, Begin(p)
      PROVE  PlaceKept'
  <2>1. PICK request \in Submissions \union Verifications \union Completions \union Starts :
          /\ request \in Submissions => Room
          /\ Go(p, request)
    BY <1>2 DEF Begin
  <2>2. made' = made /\ proc'[p] = request /\ \A q \in Process \ {p} : proc'[q] = proc[q]
    BY <1>2, <2>1, GoOthers DEF Begin, IInv
  <2>3. CASE request \in Submissions
    <3>1. Submitters' \subseteq Submitters \union {p}
      BY <2>2 DEF Submitters
    <3>2. Cardinality(Submitters') <= Cardinality(Submitters) + 1
      <4>1. /\ IsFiniteSet(Submitters \union {p})
            /\ Cardinality(Submitters \union {p}) <= Cardinality(Submitters) + 1
        <5>1. IsFiniteSet(Submitters) /\ Cardinality(Submitters) \in Nat
          BY SubmittersFinite
        <5>2. /\ IsFiniteSet(Submitters \union {p})
              /\ \/ Cardinality(Submitters \union {p}) = Cardinality(Submitters)
                 \/ Cardinality(Submitters \union {p}) = Cardinality(Submitters) + 1
          BY <5>1, FS_AddElement, Zenon
        <5> QED BY <5>1, <5>2
      <4>2. Cardinality(Submitters') <= Cardinality(Submitters \union {p})
        BY <3>1, <4>1, FS_Subset
      <4>3. Cardinality(Submitters \union {p}) \in Nat
        BY <4>1, FS_CardinalityType
      <4> QED BY <4>1, <4>2, <4>3, SubmittersFinite
    <3>3. made + Cardinality(Submitters) < MaxSubs
      BY <2>1, <2>3 DEF Room, Submitters
    <3> QED BY <2>2, <3>2, <3>3, SubmittersFinite, ReviewShape DEF IInv, PlaceKept, TypeOK
  <2>4. CASE request \notin Submissions
    <3>1. request.at \notin Submitting
      <4>1. ASSUME request \in Verifications
            PROVE  request.at = "write"
        <5>1. PICK s, to : request = Verification(s, to)
          BY <4>1 DEF Verifications
        <5> QED BY <5>1 DEF Verification, Idle
      <4>2. request \in Completions => request.at = "complete"
        BY DEF Completions, Idle
      <4>3. request \in Starts => request.at = "start"
        BY DEF Starts, Idle
      <4> QED BY <2>1, <2>4, <4>1, <4>2, <4>3 DEF Submitting
    <3> QED BY <2>1, <2>2, <3>1, NoNewSubmitter
  <2> QED BY <2>3, <2>4
<1>3. ASSUME NEW p \in Process, Insert(p)
      PROVE  PlaceKept'
  <2>1. PICK next : Go(p, next) /\ next.at \notin Submitting
    <3>1. Idle.at = "idle" /\ [Idle EXCEPT !.at = "auto", !.tries = 1].at = "auto"
      BY DEF Idle
    <3> QED BY <1>3, <3>1 DEF Insert, Submitting
  <2>2. proc'[p] = next /\ (\A q \in Process \ {p} : proc'[q] = proc[q]) /\ made' \in {made, made + 1}
    BY <1>3, <2>1, GoOthers DEF Insert, IInv
  <2>3. p \in Submitters /\ Submitters' = Submitters \ {p}
    BY <1>3, <2>1, <2>2 DEF Submitters, Insert, Submitting
  <2>4. Cardinality(Submitters') = Cardinality(Submitters) - 1
    BY <2>3, SubmittersFinite, FS_RemoveElement
  <2> QED BY <2>2, <2>4, SubmittersFinite, ReviewShape DEF IInv, PlaceKept, TypeOK
<1>4. ASSUME NEW p \in Process, Proceed(p), ~Insert(p)
      PROVE  PlaceKept'
  <2>1. proc[p] \in Local /\ made' = made
    BY <1>4 DEF IInv, TypeOK, Proceed, Start, Started, Submit, TryLock, Number, AutoLock, Pairs, Write,
                End, Apply, Count, ApplyLock, Refetch, ScoreSeries, Applied, Failed, CompleteLock,
                Decide, Result
  <2>2. Over(p).at \notin Submitting /\ Idle.at \notin Submitting
    BY <2>1 DEF Over, Idle, Submitting, Local
  <2>3. \E next : Go(p, next) /\ (next.at \in Submitting => proc[p].at \in Submitting)
    <3>1. CASE Start(p) \/ Started(p)
      BY SMTT(30), <2>1, <2>2, <3>1 DEF Start, Started, Local, Submitting
    <3>2. CASE Submit(p) \/ Number(p)
      BY <3>2 DEF Submit, Number, TryLock, Submitting
    <3>3. CASE AutoLock(p) \/ Pairs(p)
      <4>1. CASE AutoLock(p)
        <5>1. [proc[p] EXCEPT !.at = "pairs"].at = "pairs"
          BY <2>1 DEF Local
        <5> QED BY <2>2, <4>1, <5>1 DEF AutoLock, TryLock, Submitting
      <4>2. CASE Pairs(p)
        <5>1. PICK ab, to, next :
                /\ Go(p, next)
                /\ next \in {[proc[p] EXCEPT !.at = "end"],
                             [proc[p] EXCEPT !.at = "write", !.hand = ab, !.todo = ab, !.to = to]}
          BY <4>2 DEF Pairs, To
        <5>2. next.at \in {"end", "write"}
          BY <2>1, <5>1 DEF Local
        <5> QED BY <5>1, <5>2 DEF Submitting
      <4> QED BY <3>3, <4>1, <4>2
    <3>4. CASE Write(p) \/ End(p)
      <4>1. CASE Write(p)
        <5>1. PICK left : \E next :
                /\ Go(p, next)
                /\ next \in {[proc[p] EXCEPT !.todo = left],
                             [proc[p] EXCEPT !.at = "apply", !.todo = <<>>], Over(p)}
          BY <4>1 DEF Write
        <5>2. /\ [proc[p] EXCEPT !.todo = left].at = proc[p].at
              /\ [proc[p] EXCEPT !.at = "apply", !.todo = <<>>].at = "apply"
          BY <2>1 DEF Local
        <5> QED BY <2>2, <5>1, <5>2 DEF Submitting
      <4>2. CASE End(p)
        <5>1. [Idle EXCEPT !.at = "auto", !.tries = proc[p].tries + 1].at = "auto"
          BY DEF Idle
        <5> QED BY <2>2, <4>2, <5>1 DEF End, Submitting
      <4> QED BY <3>4, <4>1, <4>2
    <3>5. CASE Apply(p) \/ Count(p) \/ ApplyLock(p) \/ Refetch(p)
      <4>1. CASE Apply(p)
        BY <2>1, <2>2, <4>1 DEF Apply, To, Local, Submitting
      <4>2. CASE Count(p)
        <5>1. PICK wins : Go(p, [proc[p] EXCEPT !.at = "lock", !.wins = wins])
          BY <4>2 DEF Count
        <5>2. [proc[p] EXCEPT !.at = "lock", !.wins = wins].at = "lock"
          BY <2>1 DEF Local
        <5> QED BY <5>1, <5>2 DEF Submitting
      <4>3. CASE ApplyLock(p)
        <5>1. /\ [proc[p] EXCEPT !.at = "refetch"].at = "refetch"
              /\ [proc[p] EXCEPT !.at = "failed", !.wins = NoWins].at = "failed"
          BY <2>1 DEF Local
        <5> QED BY <4>3, <5>1 DEF ApplyLock, TryLock, Submitting
      <4>4. CASE Refetch(p)
        <5>1. [proc[p] EXCEPT !.at = "score", !.row = match].at = "score"
          BY <2>1 DEF Local
        <5> QED BY <4>4, <5>1 DEF Refetch, Submitting
      <4> QED BY <3>5, <4>1, <4>2, <4>3, <4>4
    <3>6. CASE ScoreSeries(p) \/ Applied(p) \/ Failed(p)
      <4>1. CASE ScoreSeries(p)
        <5> DEFINE winners == {t \in Team : Decides(proc[p].wins, t)}
                   to      == IF winners = {} THEN "applied" ELSE "complete"
                   winner  == IF winners = {} THEN Nobody ELSE CHOOSE t \in winners : TRUE
        <5>1. /\ to \in {"applied", "complete"}
              /\ Go(p, [proc[p] EXCEPT !.at = to, !.winner = winner, !.wins = NoWins, !.row = <<>>])
          BY <4>1 DEF ScoreSeries
        <5> HIDE DEF to, winner
        <5>2. [proc[p] EXCEPT !.at = to, !.winner = winner, !.wins = NoWins, !.row = <<>>].at = to
          BY <2>1 DEF Local
        <5> QED BY <5>1, <5>2 DEF Submitting
      <4>2. CASE Applied(p)
        BY <2>2, <4>2 DEF Applied
      <4>3. CASE Failed(p)
        <5>1. [proc[p] EXCEPT !.at = "write", !.todo = proc[p].hand, !.to = "pending",
                             !.winner = Nobody].at = "write"
          BY <2>1 DEF Local
        <5> QED BY <2>2, <4>3, <5>1 DEF Failed, Submitting
      <4> QED BY <3>6, <4>1, <4>2, <4>3
    <3>7. CASE CompleteLock(p) \/ Decide(p) \/ Result(p)
      <4>1. /\ [proc[p] EXCEPT !.at = "decide"].at = "decide"
            /\ [proc[p] EXCEPT !.at = "failed"].at = "failed"
            /\ [proc[p] EXCEPT !.at = "result", !.row = match].at = "result"
            /\ [proc[p] EXCEPT !.at = "applied", !.winner = Nobody, !.row = <<>>].at = "applied"
        BY <2>1 DEF Local
      <4>2. CASE CompleteLock(p)
        BY <4>1, <4>2 DEF CompleteLock, TryLock, Submitting
      <4>3. CASE Decide(p)
        BY <4>1, <4>3 DEF Decide, To, Submitting
      <4>4. CASE Result(p)
        BY <2>2, <4>1, <4>4 DEF Result, Submitting
      <4> QED BY <3>7, <4>2, <4>3, <4>4
    <3> QED BY <1>4, <3>1, <3>2, <3>3, <3>4, <3>5, <3>6, <3>7 DEF Proceed
  <2> QED BY SMTT(30), <2>1, <2>3, NoNewSubmitter
<1> QED BY <1>1, <1>2, <1>3, <1>4 DEF Next

-----------------------------------------------------------------------------
(* The invariant *)

LEMMA ReviewInit == Init => IInv
<1> SUFFICES ASSUME Init PROVE IInv
  OBVIOUS
<1>1. TypeOK
  <2>1. match \in Match
    BY DEF Init, Match, NoWins, Wins
  <2>2. subs \in [1..made -> Sub] /\ made \in 0..MaxSubs
    BY ReviewShape DEF Init
  <2> QED BY <2>1, <2>2, IdleType DEF Init, TypeOK
<1>2. PlaceKept
  <2>1. Submitters = {}
    BY DEF Init, Submitters, Idle, Submitting
  <2> QED BY <2>1, FS_EmptySet, ReviewShape DEF Init, PlaceKept
<1>3. ASSUME NEW p \in Process PROVE Orderly(p)
  <2>1. <<>> \in Seq(1..made)
    OBVIOUS
  <2>2. proc[p] = Idle /\ \A l \in Lock : holder[l] # p
    BY ReviewShape DEF Init
  <2> QED BY <2>1, <2>2 DEF Orderly, Equipped, Reviewing, Answerable, Held, Lock, Idle, Submitting
<1> QED BY <1>1, <1>2, <1>3 DEF IInv

LEMMA ReviewStep == IInv /\ [Next]_vars => IInv'
BY TypeStep, PlaceStep, OrderlyStep DEF IInv

LEMMA ReviewInv == Spec => []IInv
BY ReviewInit, ReviewStep, PTL DEF Spec

\* The rows, locks and processes keep their types: no submission is numbered
\* or inserted beyond the bound, no step reads a row it has not read before.
THEOREM ReviewTypes == Spec => []TypeOK
<1>1. IInv => TypeOK
  BY DEF IInv
<1> QED BY <1>1, ReviewInv, PTL

\* Every lock is in the hands of a process that still has to give it back, in
\* the section the lock is for: no path of the code leaves one behind.
THEOREM LocksReturn == Spec => []LocksComeBack
<1>1. IInv => LocksComeBack
  <2> SUFFICES ASSUME IInv PROVE LocksComeBack
    OBVIOUS
  <2>1. \A l \in Lock : holder[l] # Nobody => holder[l] \in Process /\ Held(holder[l])
    BY DEF IInv, TypeOK, Orderly
  <2> QED BY <2>1 DEF LocksComeBack, Held, Lock
<1> QED BY <1>1, ReviewInv, PTL

-----------------------------------------------------------------------------
(* Where only submissions complete the match *)

\* What every step keeps of a decided match.
Standing ==
    match.status = "completed" =>
        \/ match'.status = "completed" /\ match'.winner = match.winner
        \/ \E p \in Process : Start(p) \/ Started(p)

\* Only the process that holds the lock writes the match, and it alone has
\* read it, except that a start makes it live; the others are where they were.
LEMMA LockShields ==
    ASSUME IInv, Alone, NEW p \in Process, NEW next, Go(p, next),
           match' = match \/ holder["apply"] = p \/ match'.status = "live",
           \/ holder'["apply"] = holder["apply"]
           \/ holder["apply"] = Nobody /\ holder'["apply"] = p
           \/ holder["apply"] = p /\ holder'["apply"] = Nobody,
           next.at \in Applying => holder'["apply"] = p,
           next.at = "score" => next.row = match',
           next.at = "result" => match'.status = "live"
    PROVE  \A q \in Process : Undisturbed(q)'
<1>1. proc'[p] = next /\ \A q \in Process \ {p} : proc'[q] = proc[q]
  BY GoOthers DEF IInv
<1>2. Undisturbed(p)'
  BY <1>1 DEF Undisturbed
<1>3. ASSUME NEW q \in Process \ {p}
      PROVE  Undisturbed(q)'
  <2>1. proc'[q] = proc[q] /\ Undisturbed(q)
    BY <1>1 DEF Alone
  <2>2. proc[q].at \in Applying => holder["apply"] = q /\ q # Nobody
    BY <2>1, ReviewShape DEF Undisturbed
  <2>3. proc[q].at \in Applying => holder'["apply"] = q /\ (match' = match \/ match'.status = "live")
    BY <2>2
  <2> QED BY <2>1, <2>3 DEF Undisturbed, Applying
<1> QED BY <1>2, <1>3

\* Away from the match, nothing can go wrong.
LEMMA Bystander ==
    ASSUME IInv, Alone, NEW p \in Process, NEW next, Go(p, next),
           UNCHANGED <<match, counted>>,
           \/ holder'["apply"] = holder["apply"]
           \/ holder["apply"] = p /\ holder'["apply"] = Nobody,
           next.at \notin Applying
    PROVE  Alone' /\ Standing
<1>1. \A q \in Process : Undisturbed(q)'
  BY LockShields DEF Applying
<1> QED BY <1>1 DEF Alone, Standing

LEMMA SubmitAlone ==
    ASSUME "direct" \notin Requests, IInv, Alone, NEW p \in Process,
           Begin(p) \/ Submit(p) \/ Number(p) \/ Insert(p)
    PROVE  Alone' /\ Standing
<1>1. TypeOK /\ proc[p] \in Local /\ "apply" \in Lock
  BY DEF IInv, TypeOK, Lock
<1>2. CASE Begin(p)
  <2>1. PICK request \in Submissions \union Verifications \union Starts : Go(p, request)
    BY <1>2 DEF Begin
  <2>2. request.at \in {"submit", "write", "start"}
    <3>1. CASE request \in Submissions
      <4>1. PICK t, w, x : request = Submission(t, w, x)
        BY <3>1 DEF Submissions
      <4> QED BY <4>1 DEF Submission, Idle
    <3>2. CASE request \in Verifications
      <4>1. PICK s, to : request = Verification(s, to)
        BY <3>2 DEF Verifications
      <4> QED BY <4>1 DEF Verification, Idle
    <3>3. CASE request \in Starts
      <4>1. PICK row : request = [Idle EXCEPT !.at = "start", !.row = row]
        BY <3>3 DEF Starts
      <4> QED BY <4>1 DEF Idle
    <3> QED BY <3>1, <3>2, <3>3
  <2>3. UNCHANGED <<match, counted, holder>>
    BY <1>2 DEF Begin
  <2> QED BY <2>1, <2>2, <2>3, Bystander DEF Applying
<1>3. CASE Submit(p) \/ Number(p) \/ Insert(p)
  <2> DEFINE draft == proc[p].draft
  <2>1. draft.team # "apply"
    BY <1>3, ReviewShape DEF IInv, Orderly, Equipped, Submitting, Sub, Submit, Number, Insert
  <2>2. /\ Idle.at = "idle" /\ [Idle EXCEPT !.at = "auto", !.tries = 1].at = "auto"
        /\ [proc[p] EXCEPT !.at = "number"].at = "number"
    BY <1>1 DEF Idle, Local
  <2>3. \A g : [proc[p] EXCEPT !.at = "insert", !.draft.game = g].at = "insert"
    BY <1>1 DEF Local
  <2>4. CASE Submit(p)
    <3>1. PICK next : Go(p, next) /\ next \in {[proc[p] EXCEPT !.at = "number"], Idle}
      BY <2>4 DEF Submit, TryLock
    <3>2. UNCHANGED <<match, counted>> /\ holder'["apply"] = holder["apply"]
      BY <1>1, <2>1, <2>4 DEF Submit, TryLock, TypeOK
    <3> QED BY <2>2, <3>1, <3>2, Bystander DEF Applying
  <2>5. CASE Number(p)
    <3>1. PICK g, next : Go(p, next) /\ next \in {[proc[p] EXCEPT !.at = "insert", !.draft.game = g], Idle}
      BY <2>5 DEF Number
    <3>2. UNCHANGED <<match, counted>> /\ holder'["apply"] = holder["apply"]
      BY <1>1, <2>1, <2>5 DEF Number, TypeOK
    <3> QED BY <2>2, <2>3, <3>1, <3>2, Bystander DEF Applying
  <2>6. CASE Insert(p)
    <3>1. PICK next : Go(p, next) /\ next \in {[Idle EXCEPT !.at = "auto", !.tries = 1], Idle}
      BY <2>6 DEF Insert
    <3>2. UNCHANGED <<match, counted>> /\ holder'["apply"] = holder["apply"]
      BY <1>1, <2>1, <2>6 DEF Insert, TypeOK
    <3> QED BY <2>2, <3>1, <3>2, Bystander DEF Applying
  <2> QED BY SMTT(30), <1>3, <2>4, <2>5, <2>6
<1> QED BY <1>2, <1>3

\* A start leaves the match live, with nothing counted.
LEMMA StartAlone ==
    ASSUME IInv, Alone, NEW p \in Process, Start(p) \/ Started(p)
    PROVE  Alone' /\ Standing
<1>1. TypeOK /\ proc[p] \in Local
  BY DEF IInv, TypeOK
<1>2. match'.status = "live"
  <2>1. CASE Start(p)
    BY <1>1, <2>1 DEF Start, TypeOK, Match
  <2>2. CASE Started(p)
    BY <2>2 DEF Started, IInv, Orderly, Equipped, Match
  <2> QED BY <2>1, <2>2
<1>3. UNCHANGED holder /\ counted' = 0
  BY DEF Start, Started, Reopens, Alone
<1>4. \E next : Go(p, next) /\ next.at \in {"idle", "started"}
  <2>1. Idle.at = "idle" /\ [proc[p] EXCEPT !.at = "started"].at = "started"
    BY <1>1 DEF Idle, Local
  <2> QED BY <2>1 DEF Start, Started
<1>5. \A q \in Process : Undisturbed(q)'
  BY <1>2, <1>3, <1>4, LockShields DEF Applying
<1> QED BY <1>2, <1>3, <1>5 DEF Alone, Standing

\* What ends the work on the submissions in hand is away from the match.
LEMMA OverAway ==
    ASSUME TypeOK, NEW p \in Process
    PROVE  Over(p).at \in {"idle", "end"}
<1>1. [proc[p] EXCEPT !.at = "end", !.todo = <<>>].at = "end" /\ Idle.at = "idle"
  BY DEF TypeOK, Local, Idle
<1> QED BY <1>1 DEF Over

LEMMA VerifyAlone ==
    ASSUME IInv, Alone, NEW p \in Process, AutoLock(p) \/ Pairs(p) \/ Write(p) \/ End(p)
    PROVE  Alone' /\ Standing
<1>1. TypeOK /\ proc[p] \in Local /\ "apply" \in Lock
  BY DEF IInv, TypeOK, Lock
<1>2. UNCHANGED <<match, counted>> /\ holder'["apply"] = holder["apply"]
  BY <1>1 DEF AutoLock, Pairs, Write, End, TryLock, TypeOK
<1>3. \E next : Go(p, next) /\ next.at \in {"idle", "auto", "pairs", "write", "apply", "end"}
  <2>1. CASE AutoLock(p)
    <3>1. Idle.at = "idle" /\ [proc[p] EXCEPT !.at = "pairs"].at = "pairs"
      BY <1>1 DEF Idle, Local
    <3> QED BY <2>1, <3>1 DEF AutoLock, TryLock
  <2>2. CASE Pairs(p)
    <3>1. PICK ab, to, next :
            /\ Go(p, next)
            /\ next \in {[proc[p] EXCEPT !.at = "end"],
                         [proc[p] EXCEPT !.at = "write", !.hand = ab, !.todo = ab, !.to = to]}
      BY <2>2 DEF Pairs, To
    <3>2. next.at \in {"end", "write"}
      BY <1>1, <3>1 DEF Local
    <3> QED BY <3>1, <3>2
  <2>3. CASE Write(p)
    <3>1. PICK left : \E next :
            /\ Go(p, next)
            /\ next \in {[proc[p] EXCEPT !.todo = left],
                         [proc[p] EXCEPT !.at = "apply", !.todo = <<>>], Over(p)}
      BY <2>3 DEF Write
    <3>2. /\ [proc[p] EXCEPT !.todo = left].at = "write"
          /\ [proc[p] EXCEPT !.at = "apply", !.todo = <<>>].at = "apply"
      BY <1>1, <2>3 DEF Local, Write
    <3> QED BY <1>1, <3>1, <3>2, OverAway
  <2>4. CASE End(p)
    <3>1. Idle.at = "idle" /\ [Idle EXCEPT !.at = "auto", !.tries = proc[p].tries + 1].at = "auto"
      BY DEF Idle
    <3> QED BY <2>4, <3>1 DEF End
  <2> QED BY <2>1, <2>2, <2>3, <2>4
<1> QED BY <1>2, <1>3, Bystander DEF Applying

LEMMA ApplyAlone ==
    ASSUME IInv, Alone, NEW p \in Process,
           \/ Apply(p) \/ Count(p) \/ ApplyLock(p) \/ Refetch(p)
           \/ ScoreSeries(p) \/ Applied(p) \/ Failed(p)
    PROVE  Alone' /\ Standing
<1>1. TypeOK /\ proc[p] \in Local /\ "apply" \in Lock /\ Undisturbed(p) /\ p # Nobody
  BY ReviewShape DEF IInv, TypeOK, Lock, Alone
<1>2. CASE Apply(p) \/ Count(p)
  <2>1. UNCHANGED <<match, counted, holder>>
    BY <1>2 DEF Apply, Count
  <2>2. \E next : Go(p, next) /\ next.at \in {"idle", "end", "count", "lock"}
    <3>1. CASE Apply(p)
      <4>1. [proc[p] EXCEPT !.at = "count"].at = "count"
        BY <1>1 DEF Local
      <4> QED BY <1>1, <3>1, <4>1, OverAway DEF Apply, To
    <3>2. CASE Count(p)
      <4>1. PICK wins : Go(p, [proc[p] EXCEPT !.at = "lock", !.wins = wins])
        BY <3>2 DEF Count
      <4>2. [proc[p] EXCEPT !.at = "lock", !.wins = wins].at = "lock"
        BY <1>1 DEF Local
      <4> QED BY <4>1, <4>2
    <3> QED BY <1>2, <3>1, <3>2
  <2> QED BY <2>1, <2>2, Bystander DEF Applying
<1>3. CASE ApplyLock(p)
  <2>1. /\ [proc[p] EXCEPT !.at = "refetch"].at = "refetch"
        /\ [proc[p] EXCEPT !.at = "failed", !.wins = NoWins].at = "failed"
    BY <1>1 DEF Local
  <2>2. UNCHANGED <<match, counted>>
    BY <1>3 DEF ApplyLock, TryLock
  <2>3. CASE holder["apply"] = Nobody
    <3>1. holder'["apply"] = p /\ Go(p, [proc[p] EXCEPT !.at = "refetch"])
      BY <1>1, <1>3, <2>3 DEF ApplyLock, TryLock, TypeOK
    <3>2. \A q \in Process : Undisturbed(q)'
      BY <2>1, <2>2, <2>3, <3>1, LockShields DEF Applying
    <3> QED BY <2>2, <3>2 DEF Alone, Standing
  <2>4. CASE holder["apply"] # Nobody
    <3>1. holder' = holder /\ Go(p, [proc[p] EXCEPT !.at = "failed", !.wins = NoWins])
      BY <1>3, <2>4 DEF ApplyLock, TryLock
    <3> QED BY <2>1, <2>2, <3>1, Bystander DEF Applying
  <2> QED BY <2>3, <2>4
<1>4. CASE Refetch(p)
  <2> DEFINE next == [proc[p] EXCEPT !.at = "score", !.row = match]
  <2>1. next.at = "score" /\ next.row = match
    BY <1>1 DEF Local
  <2>2. Go(p, next) /\ UNCHANGED <<match, counted, holder>> /\ holder["apply"] = p
    BY <1>1, <1>4 DEF Refetch, Undisturbed, Applying
  <2> HIDE DEF next
  <2>3. \A q \in Process : Undisturbed(q)'
    BY <2>1, <2>2, LockShields DEF Applying
  <2> QED BY <2>2, <2>3 DEF Alone, Standing
<1>5. CASE ScoreSeries(p)
  <2> DEFINE winners == {t \in Team : Decides(proc[p].wins, t)}
             to      == IF winners = {} THEN "applied" ELSE "complete"
             winner  == IF winners = {} THEN Nobody ELSE CHOOSE t \in winners : TRUE
  <2>1. /\ to \in {"applied", "complete"}
        /\ Go(p, [proc[p] EXCEPT !.at = to, !.winner = winner, !.wins = NoWins, !.row = <<>>])
    BY <1>5 DEF ScoreSeries
  <2> HIDE DEF to, winner
  <2>2. [proc[p] EXCEPT !.at = to, !.winner = winner, !.wins = NoWins, !.row = <<>>].at = to
    BY <1>1 DEF Local
  <2>3. /\ UNCHANGED <<counted, holder>> /\ holder["apply"] = p
        /\ proc[p].row = match \/ match.status = "live"
    BY <1>1, <1>5 DEF ScoreSeries, Undisturbed, Applying
  <2>4. match' = [proc[p].row EXCEPT !.status = IF @ = "scheduled" THEN "live" ELSE @, !.score = proc[p].wins]
    BY <1>5 DEF ScoreSeries
  <2>5. /\ match.status = "completed" => match'.status = "completed" /\ match'.winner = match.winner
        /\ match'.status # "completed" => match.status # "completed"
    BY <1>1, <2>3, <2>4 DEF TypeOK, Match
  <2>6. \A q \in Process : Undisturbed(q)'
    BY <2>1, <2>2, <2>3, LockShields DEF Applying
  <2> QED BY <2>3, <2>5, <2>6 DEF Alone, Standing
<1>6. CASE Applied(p)
  <2>1. holder["apply"] = p /\ holder'["apply"] = Nobody /\ UNCHANGED <<match, counted>>
    BY <1>1, <1>6 DEF Applied, Undisturbed, Applying, TypeOK
  <2> QED BY <1>1, <1>6, <2>1, OverAway, Bystander DEF Applied, Applying
<1>7. CASE Failed(p)
  <2>1. \/ holder'["apply"] = holder["apply"]
        \/ holder["apply"] = p /\ holder'["apply"] = Nobody
    BY <1>1, <1>7 DEF Failed
  <2>2. /\ [proc[p] EXCEPT !.at = "write", !.todo = proc[p].hand, !.to = "pending",
                           !.winner = Nobody].at = "write"
        /\ Idle.at = "idle" /\ UNCHANGED <<match, counted>>
    BY <1>1, <1>7 DEF Failed, Local, Idle
  <2> QED BY <1>7, <2>1, <2>2, Bystander DEF Failed, Applying
<1> QED BY <1>2, <1>3, <1>4, <1>5, <1>6, <1>7

LEMMA CompleteAlone ==
    ASSUME IInv, Alone, NEW p \in Process, CompleteLock(p) \/ Decide(p) \/ Result(p)
    PROVE  Alone' /\ Standing
<1>1. /\ TypeOK /\ proc[p] \in Local /\ Undisturbed(p)
      /\ holder["apply"] = p /\ holder'["apply"] = p
  BY DEF IInv, TypeOK, Lock, Alone, Undisturbed, Applying, CompleteLock, TryLock, Decide, Result
<1>2. /\ [proc[p] EXCEPT !.at = "decide"].at = "decide"
      /\ [proc[p] EXCEPT !.at = "failed"].at = "failed"
      /\ [proc[p] EXCEPT !.at = "result", !.row = match].at = "result"
      /\ [proc[p] EXCEPT !.at = "applied", !.winner = Nobody, !.row = <<>>].at = "applied"
      /\ Idle.at = "idle"
  BY <1>1 DEF Local, Idle
<1>3. CASE CompleteLock(p) \/ Decide(p)
  <2>1. UNCHANGED <<match, counted>>
    BY <1>3 DEF CompleteLock, TryLock, Decide
  <2>2. \E next : /\ Go(p, next) /\ next.at \in {"decide", "failed", "result"}
                  /\ next.at = "result" => match.status = "live"
    BY <1>2, <1>3 DEF CompleteLock, TryLock, Decide, To
  <2>3. \A q \in Process : Undisturbed(q)'
    BY <1>1, <2>1, <2>2, LockShields DEF Applying
  <2> QED BY <2>1, <2>3 DEF Alone, Standing
<1>4. CASE Result(p)
  <2>1. PICK next : Go(p, next) /\ next.at \in {"idle", "applied"}
    BY <1>2, <1>4 DEF Result
  <2>2. match.status = "live" /\ match'.status = "completed" /\ counted' = counted + 1
    BY <1>1, <1>4 DEF Result, Undisturbed
  <2>3. \A q \in Process : Undisturbed(q)'
    BY <1>1, <2>1, LockShields DEF Applying
  <2>4. counted' = 1
    BY <2>2 DEF Alone
  <2> QED BY <2>2, <2>3, <2>4 DEF Alone, Standing
<1> QED BY <1>3, <1>4

LEMMA AloneStep ==
    ASSUME "direct" \notin Requests, IInv, Alone, [Next]_vars
    PROVE  Alone' /\ Standing
<1>1. CASE UNCHANGED vars
  BY <1>1 DEF vars, Alone, Undisturbed, Standing
<1>2. ASSUME NEW p \in Process, Begin(p) \/ Proceed(p)
      PROVE  Alone' /\ Standing
  BY <1>2, SubmitAlone, StartAlone, VerifyAlone, ApplyAlone, CompleteAlone DEF Proceed
<1> QED BY <1>1, <1>2 DEF Next

LEMMA AloneInit == Init => Alone
BY DEF Init, Alone, Undisturbed, Idle, Applying

\* However many submissions, verifications and goroutines decide a series at
\* the same time, its result is entered and counted once, or once more each time
\* a late start takes it back, as long as no organiser completes the match.
THEOREM SeriesDecidedOnce == ("direct" \notin Requests) => (Spec => []CompletedOnce)
<1> SUFFICES ASSUME "direct" \notin Requests PROVE Spec => []CompletedOnce
  OBVIOUS
<1>1. IInv /\ Alone /\ [Next]_vars => Alone'
  BY AloneStep
<1>2. Alone => CompletedOnce
  BY DEF Alone, CompletedOnce
<1> QED BY <1>1, <1>2, AloneInit, ReviewInv, PTL DEF Spec

\* Nor does any of them undo a result or turn it: what each writes is what it
\* read while it holds the lock, and only a late start makes the match live.
THEOREM ResultsStand == ("direct" \notin Requests) => (Spec => ResultStands)
<1> SUFFICES ASSUME "direct" \notin Requests PROVE Spec => ResultStands
  OBVIOUS
<1>1. IInv /\ Alone /\ [Next]_vars => Alone'
  BY AloneStep
<1>2. IInv /\ Alone /\ [Next]_vars =>
        [match.status = "completed" =>
            \/ match'.status = "completed" /\ match'.winner = match.winner
            \/ \E p \in Process : Start(p) \/ Started(p)]_vars
  BY AloneStep DEF Standing
<1> QED BY <1>1, <1>2, AloneInit, ReviewInv, PTL DEF Spec, ResultStands

-----------------------------------------------------------------------------
(* What a series is won with *)

\* The games that a submission says t has won.
Claims ==
    [t \in Team |-> Cardinality({subs[s].game : s \in {x \in 1..made : subs[x].winner = t}})]

Earned(t, claims) == t \in Team /\ claims[t] >= WinsNeeded

\* A process has counted no more wins than games are claimed, and decides the
\* match, or writes a decided match back, for a team that has claimed enough.
Backed(local, claims) ==
    /\ \A t \in Team : local.wins[t] <= claims[t]
    /\ local.at \in {"complete", "decide", "result"} => Earned(local.winner, claims)
    /\ (local.at = "score" /\ local.row.status = "completed") => Earned(local.row.winner, claims)

AllBacked ==
    /\ \A p \in Process : Backed(proc[p], Claims)
    /\ match.status = "completed" => Earned(match.winner, Claims)

\* A set of games is finite.
LEMMA FiniteGames ==
    ASSUME NEW games \in SUBSET (0..(MaxSubs + 1))
    PROVE  IsFiniteSet(games) /\ Cardinality(games) \in Nat
<1>1. 0 \in Int /\ MaxSubs + 1 \in Int
  BY ReviewShape
<1>2. IsFiniteSet(0..(MaxSubs + 1))
  BY <1>1, FS_Interval
<1> QED BY <1>2, FS_Subset, FS_CardinalityType

\* A tally of claims is a number per team.
LEMMA ClaimsType ==
    ASSUME TypeOK
    PROVE  Claims \in [Team -> Nat]
<1>1. ASSUME NEW t \in Team
      PROVE  Cardinality({subs[s].game : s \in {x \in 1..made : subs[x].winner = t}}) \in Nat
  <2>1. {subs[s].game : s \in {x \in 1..made : subs[x].winner = t}} \subseteq 0..(MaxSubs + 1)
    BY DEF TypeOK, Sub
  <2> QED BY <2>1, FiniteGames
<1> QED BY <1>1 DEF Claims

\* No step takes a claim back: submissions are added, and of the others only
\* the verdict changes.
LEMMA ClaimsGrow ==
    ASSUME IInv, TypeOK', [Next]_vars, NEW t \in Team
    PROVE  Claims'[t] \in Nat /\ Claims[t] <= Claims'[t]
<1> DEFINE games == {subs[s].game : s \in {x \in 1..made : subs[x].winner = t}}
<1> DEFINE Kept == /\ made \in Nat /\ made' \in Nat /\ made <= made'
                   /\ \A s \in 1..made : subs'[s].game = subs[s].game /\ subs'[s].winner = subs[s].winner
<1>1. Kept
  <2>1. CASE UNCHANGED <<made, subs>>
    BY <2>1, ReviewShape DEF IInv, TypeOK
  <2>2. ASSUME NEW p \in Process, Insert(p), ~HasPending(proc[p].draft.team) PROVE Kept
    <3>1. made' = made + 1 /\ subs' = Append(subs, proc[p].draft)
      BY <2>2 DEF Insert
    <3>2. subs \in Seq(Sub) /\ Len(subs) = made /\ made \in Nat
      BY ReviewShape DEF IInv, TypeOK
    <3> QED BY <3>1, <3>2
  <2>3. ASSUME NEW p \in Process, Write(p) PROVE Kept
    <3> DEFINE s == Head(proc[p].todo)
    <3>1. made' = made /\ made \in Nat /\ subs \in [1..made -> Sub]
      BY <2>3, ReviewShape DEF Write, IInv, TypeOK
    <3>2. subs' = subs \/ subs' = [subs EXCEPT ![s].status = proc[p].to]
      BY <2>3 DEF Write
    <3> HIDE DEF s
    <3> QED BY SMTT(30), <3>1, <3>2 DEF Sub
  <2> QED BY <2>1, <2>2, <2>3
      DEF Next, Proceed, vars, Begin, Start, Started, Submit, Number, Insert, AutoLock, Pairs, End, Apply,
          Count, ApplyLock, Refetch, ScoreSeries, Applied, Failed, CompleteLock, Decide, Result, TryLock
<1>2. games \subseteq games'
  BY <1>1
<1>3. IsFiniteSet(games') /\ Cardinality(games') \in Nat
  <2>1. games' \subseteq 0..(MaxSubs + 1)
    BY DEF TypeOK, Sub
  <2> QED BY <2>1, FiniteGames
<1>4. Cardinality(games) <= Cardinality(games')
  <2> HIDE DEF games
  <2> QED BY <1>2, <1>3, FS_Subset
<1>5. Claims[t] = Cardinality(games) /\ Claims'[t] = Cardinality(games')
  BY DEF Claims
<1> QED BY SMTT(30), <1>3, <1>4, <1>5

\* What was earned stays earned.
LEMMA StillEarned ==
    ASSUME NEW old \in [Team -> Nat], NEW new \in [Team -> Nat],
           \A t \in Team : old[t] <= new[t], NEW t, Earned(t, old)
    PROVE  Earned(t, new)
<1>1. old[t] \in Nat /\ new[t] \in Nat /\ old[t] <= new[t] /\ WinsNeeded \in Nat
  BY ReviewShape DEF Earned, WinsNeeded
<1> QED BY <1>1 DEF Earned

LEMMA StillBacked ==
    ASSUME NEW old \in [Team -> Nat], NEW new \in [Team -> Nat],
           \A t \in Team : old[t] <= new[t], NEW local \in Local, Backed(local, old)
    PROVE  Backed(local, new)
<1>1. ASSUME NEW t \in Team PROVE local.wins[t] <= new[t]
  <2>1. local.wins[t] \in Nat /\ old[t] \in Nat /\ new[t] \in Nat
    BY DEF Local, Wins
  <2>2. local.wins[t] <= old[t]
    BY DEF Backed
  <2> QED BY <2>1, <2>2
<1> QED BY <1>1, StillEarned DEF Backed

\* Away from the decision a process claims no more than what it has counted.
LEMMA Undeciding ==
    ASSUME NEW claims \in [Team -> Nat], NEW local, NEW next,
           Backed(local, claims),
           next.wins \in {local.wins, NoWins},
           next.at \notin {"complete", "decide", "result", "score"}
    PROVE  Backed(next, claims)
BY DEF Backed, NoWins

\* One process moves, and what it does next is backed; so are the others.
LEMMA MoverBacked ==
    ASSUME IInv, TypeOK', AllBacked, [Next]_vars, NEW p \in Process, NEW next, Go(p, next),
           Backed(next, Claims),
           match'.status = "completed" => Earned(match'.winner, Claims)
    PROVE  AllBacked'
<1>1. /\ Claims \in [Team -> Nat] /\ Claims' \in [Team -> Nat]
      /\ \A t \in Team : Claims[t] <= Claims'[t]
  <2>1. Claims' \in [Team -> Nat]
    BY ClaimsGrow DEF Claims
  <2> QED BY <2>1, ClaimsType, ClaimsGrow DEF IInv
<1>2. proc'[p] = next /\ \A q \in Process \ {p} : proc'[q] = proc[q]
  BY GoOthers DEF IInv
<1>3. \A q \in Process : proc'[q] \in Local /\ Backed(proc'[q], Claims)
  BY <1>2 DEF AllBacked, TypeOK
<1>4. \A q \in Process : Backed(proc'[q], Claims')
  <2> HIDE DEF Claims
  <2> QED BY <1>1, <1>3, StillBacked
<1>5. match'.status = "completed" => Earned(match'.winner, Claims')
  <2> HIDE DEF Claims
  <2> QED BY <1>1, StillEarned
<1> QED BY <1>4, <1>5 DEF AllBacked

\* The tally of approved submissions does not exceed the claims.
LEMMA TallyClaimed ==
    ASSUME TypeOK, NEW wins \in Tallies, NEW t \in Team
    PROVE  wins[t] <= Claims[t]
<1>1. PICK w \in Resolutions : wins = [u \in Team |-> Cardinality({g \in Games : w[g] = u})]
  BY Zenon DEF Tallies
<1> DEFINE won   == {g \in Games : w[g] = t}
           games == {subs[s].game : s \in {x \in 1..made : subs[x].winner = t}}
<1>2. won \subseteq games
  <2>1. ASSUME NEW g \in won PROVE g \in games
    <3>1. PICK s \in With("approved") : subs[s].game = g /\ subs[s].winner = w[g]
      BY DEF Resolutions
    <3> QED BY <3>1 DEF With
  <2> QED BY <2>1
<1>3. IsFiniteSet(games)
  <2>1. games \subseteq 0..(MaxSubs + 1)
    BY DEF TypeOK, Sub
  <2> QED BY <2>1, FiniteGames
<1>4. wins[t] = Cardinality(won) /\ Claims[t] = Cardinality(games)
  BY <1>1 DEF Claims
<1> HIDE DEF won, games
<1> QED BY <1>2, <1>3, <1>4, FS_Subset

\* Steps away from the decision.
Undecided(p, next) ==
    /\ next.wins \in {proc[p].wins, NoWins}
    /\ next.at \notin {"complete", "decide", "result", "score"}

LEMMA OverUndecided ==
    ASSUME TypeOK, NEW p \in Process
    PROVE  Undecided(p, Over(p)) /\ Undecided(p, Idle)
<1>1. /\ [proc[p] EXCEPT !.at = "end", !.todo = <<>>].at = "end"
      /\ [proc[p] EXCEPT !.at = "end", !.todo = <<>>].wins = proc[p].wins
      /\ Idle.at = "idle" /\ Idle.wins = NoWins
  BY DEF TypeOK, Local, Idle
<1> QED BY <1>1 DEF Over, Undecided

\* What is asked for begins with nothing counted and nothing decided.
LEMMA BeginUndecided ==
    ASSUME "direct" \notin Requests, NEW p \in Process, Begin(p)
    PROVE  \E next : Go(p, next) /\ Undecided(p, next)
<1>1. PICK request \in Submissions \union Verifications \union Starts : Go(p, request)
  BY DEF Begin
<1>2. request.wins = NoWins /\ request.at \in {"submit", "write", "start"}
  <2>1. CASE request \in Submissions
    <3>1. PICK t, w, x : request = Submission(t, w, x)
      BY <2>1 DEF Submissions
    <3> QED BY <3>1 DEF Submission, Idle
  <2>2. CASE request \in Verifications
    <3>1. PICK s, to : request = Verification(s, to)
      BY <2>2 DEF Verifications
    <3> QED BY <3>1 DEF Verification, Idle
  <2>3. CASE request \in Starts
    <3>1. PICK row : request = [Idle EXCEPT !.at = "start", !.row = row]
      BY <2>3 DEF Starts
    <3> QED BY <3>1 DEF Idle
  <2> QED BY <1>1, <2>1, <2>2, <2>3
<1> QED BY <1>1, <1>2 DEF Undecided

LEMMA SubmitUndecided ==
    ASSUME TypeOK, NEW p \in Process,
           \/ Start(p) \/ Started(p) \/ Submit(p) \/ Number(p) \/ Insert(p)
    PROVE  \E next : Go(p, next) /\ Undecided(p, next)
<1>1. proc[p] \in Local /\ Undecided(p, Idle)
  BY OverUndecided DEF TypeOK
<1>2. /\ Undecided(p, [proc[p] EXCEPT !.at = "started"])
      /\ Undecided(p, [proc[p] EXCEPT !.at = "number"])
      /\ Undecided(p, [Idle EXCEPT !.at = "auto", !.tries = 1])
  BY <1>1 DEF Undecided, Local, Idle
<1>3. \A g : Undecided(p, [proc[p] EXCEPT !.at = "insert", !.draft.game = g])
  BY <1>1 DEF Undecided, Local
<1>4. CASE Start(p) \/ Started(p) \/ Submit(p) \/ Insert(p)
  BY <1>1, <1>2, <1>4 DEF Start, Started, Submit, TryLock, Insert
<1>5. CASE Number(p)
  <2>1. \/ Go(p, Idle)
        \/ \E g : Go(p, [proc[p] EXCEPT !.at = "insert", !.draft.game = g])
    BY <1>5 DEF Number
  <2> QED BY <1>1, <1>3, <2>1
<1> QED BY <1>4, <1>5

LEMMA VerifyUndecided ==
    ASSUME TypeOK, NEW p \in Process, AutoLock(p) \/ Pairs(p) \/ Write(p) \/ End(p)
    PROVE  \E next : Go(p, next) /\ Undecided(p, next)
<1>1. proc[p] \in Local /\ Undecided(p, Idle) /\ Undecided(p, Over(p))
  BY OverUndecided DEF TypeOK
<1>2. CASE AutoLock(p)
  <2>1. Undecided(p, [proc[p] EXCEPT !.at = "pairs"])
    BY <1>1 DEF Undecided, Local
  <2> QED BY <1>1, <1>2, <2>1 DEF AutoLock, TryLock
<1>3. CASE Pairs(p)
  <2>1. PICK ab, to, next :
          /\ Go(p, next)
          /\ next \in {[proc[p] EXCEPT !.at = "end"],
                       [proc[p] EXCEPT !.at = "write", !.hand = ab, !.todo = ab, !.to = to]}
    BY <1>3 DEF Pairs, To
  <2>2. Undecided(p, next)
    BY <1>1, <2>1 DEF Undecided, Local
  <2> QED BY <2>1, <2>2
<1>4. CASE Write(p)
  <2>1. PICK left, next :
          /\ Go(p, next)
          /\ next \in {[proc[p] EXCEPT !.todo = left],
                       [proc[p] EXCEPT !.at = "apply", !.todo = <<>>], Over(p)}
    BY <1>4 DEF Write
  <2>2. /\ Undecided(p, [proc[p] EXCEPT !.todo = left])
        /\ Undecided(p, [proc[p] EXCEPT !.at = "apply", !.todo = <<>>])
    BY <1>1, <1>4 DEF Undecided, Local, Write
  <2> QED BY <1>1, <2>1, <2>2
<1>5. CASE End(p)
  <2>1. Undecided(p, [Idle EXCEPT !.at = "auto", !.tries = proc[p].tries + 1])
    BY DEF Undecided, Idle
  <2> QED BY <1>1, <1>5, <2>1 DEF End
<1> QED BY <1>2, <1>3, <1>4, <1>5

LEMMA ApplyUndecided ==
    ASSUME TypeOK, NEW p \in Process,
           Apply(p) \/ Applied(p) \/ Failed(p) \/ Result(p)
           \/ (ApplyLock(p) /\ holder["apply"] # Nobody)
    PROVE  \E next : Go(p, next) /\ Undecided(p, next)
<1>1. proc[p] \in Local /\ Undecided(p, Idle) /\ Undecided(p, Over(p))
  BY OverUndecided DEF TypeOK
<1>2. /\ Undecided(p, [proc[p] EXCEPT !.at = "count"])
      /\ Undecided(p, [proc[p] EXCEPT !.at = "failed", !.wins = NoWins])
      /\ Undecided(p, [proc[p] EXCEPT !.at = "write", !.todo = proc[p].hand, !.to = "pending",
                                      !.winner = Nobody])
      /\ Undecided(p, [proc[p] EXCEPT !.at = "applied", !.winner = Nobody, !.row = <<>>])
  BY <1>1 DEF Undecided, Local
<1> QED BY <1>1, <1>2 DEF Apply, To, Applied, Failed, Result, ApplyLock, TryLock

\* A completed match was completed by this step or was completed before.
LEMMA StepBacked ==
    ASSUME "direct" \notin Requests, IInv, TypeOK', AllBacked, NEW p \in Process, Begin(p) \/ Proceed(p)
    PROVE  AllBacked'
<1>1. TypeOK /\ proc[p] \in Local /\ Claims \in [Team -> Nat] /\ Backed(proc[p], Claims) /\ [Next]_vars
  BY ClaimsType DEF IInv, TypeOK, AllBacked, Next
<1> HIDE DEF Claims
<1>2. ASSUME \E next : Go(p, next) /\ Undecided(p, next),
             match'.status = "completed" => Earned(match'.winner, Claims)
      PROVE  AllBacked'
  BY <1>1, <1>2, Undeciding, MoverBacked DEF Undecided
<1>3. match' = match => (match'.status = "completed" => Earned(match'.winner, Claims))
  BY DEF AllBacked
<1>4. CASE Begin(p) \/ AutoLock(p) \/ Pairs(p) \/ Write(p) \/ End(p) \/ Submit(p) \/ Number(p) \/ Insert(p)
  <2>1. match' = match
    BY <1>4 DEF Begin, AutoLock, Pairs, Write, End, Submit, Number, Insert, TryLock
  <2> QED BY SMTT(30), <1>1, <1>2, <1>3, <1>4, <2>1, BeginUndecided, SubmitUndecided, VerifyUndecided
<1>5. CASE Start(p) \/ Started(p)
  <2>1. match'.status # "completed"
    BY <1>1, <1>5 DEF Start, Started, IInv, Orderly, Equipped, TypeOK, Match
  <2> QED BY <1>1, <1>2, <1>5, <2>1, SubmitUndecided
<1>6. CASE Apply(p) \/ Applied(p) \/ Failed(p) \/ (ApplyLock(p) /\ holder["apply"] # Nobody)
  <2>1. match' = match
    BY <1>6 DEF Apply, Applied, Failed, ApplyLock, TryLock
  <2> QED BY <1>1, <1>2, <1>3, <1>6, <2>1, ApplyUndecided
<1>7. CASE ApplyLock(p) /\ holder["apply"] = Nobody
  <2>1. Go(p, [proc[p] EXCEPT !.at = "refetch"]) /\ match' = match
    BY <1>7 DEF ApplyLock, TryLock
  <2>2. Undecided(p, [proc[p] EXCEPT !.at = "refetch"])
    BY <1>1 DEF Undecided, Local
  <2> QED BY <1>2, <1>3, <2>1, <2>2
<1>8. CASE Count(p)
  <2>1. PICK wins \in Tallies : Go(p, [proc[p] EXCEPT !.at = "lock", !.wins = wins])
    BY <1>8 DEF Count
  <2> DEFINE next == [proc[p] EXCEPT !.at = "lock", !.wins = wins]
  <2>2. next.at = "lock" /\ next.wins = wins
    BY <1>1 DEF Local
  <2> HIDE DEF next
  <2>3. Backed(next, Claims)
    BY <1>1, <2>2, TallyClaimed DEF Backed
  <2>4. match' = match
    BY <1>8 DEF Count
  <2> QED BY <1>1, <1>3, <2>1, <2>3, <2>4, MoverBacked DEF next
<1>9. CASE Refetch(p)
  <2> DEFINE next == [proc[p] EXCEPT !.at = "score", !.row = match]
  <2>1. next.at = "score" /\ next.row = match /\ next.wins = proc[p].wins
    BY <1>1 DEF Local
  <2>2. Go(p, next) /\ match' = match
    BY <1>9 DEF Refetch
  <2> HIDE DEF next
  <2>3. Backed(next, Claims)
    BY <1>1, <2>1 DEF Backed, AllBacked
  <2> QED BY <1>1, <1>3, <2>2, <2>3, MoverBacked
<1>10. CASE ScoreSeries(p)
  <2> DEFINE winners == {t \in Team : Decides(proc[p].wins, t)}
             to      == IF winners = {} THEN "applied" ELSE "complete"
             winner  == IF winners = {} THEN Nobody ELSE CHOOSE t \in winners : TRUE
             next    == [proc[p] EXCEPT !.at = to, !.winner = winner, !.wins = NoWins, !.row = <<>>]
  <2>1. Go(p, next)
    BY <1>10 DEF ScoreSeries
  <2>2. to \in {"applied", "complete"} /\ (to = "complete" => winner \in winners)
    OBVIOUS
  <2>3. winner \in winners => Earned(winner, Claims)
    <3>1. ASSUME NEW t \in Team, Decides(proc[p].wins, t) PROVE Earned(t, Claims)
      <4>1. proc[p].wins[t] \in Nat /\ Claims[t] \in Nat /\ WinsNeeded \in Nat
        BY <1>1, ReviewShape DEF Local, Wins, WinsNeeded
      <4>2. proc[p].wins[t] <= Claims[t] /\ proc[p].wins[t] >= WinsNeeded
        BY <1>1, <3>1 DEF Backed, Decides
      <4> QED BY <4>1, <4>2 DEF Earned
    <3> QED BY <3>1
  <2> HIDE DEF winners, to, winner
  <2>4. next.at = to /\ next.winner = winner /\ next.wins = NoWins
    BY <1>1 DEF Local
  <2> HIDE DEF next
  <2>5. Backed(next, Claims)
    BY <1>1, <2>2, <2>3, <2>4 DEF Backed, NoWins
  <2>6. match'.status = "completed" => Earned(match'.winner, Claims)
    <3>1. /\ proc[p].row \in Match /\ proc[p].at = "score"
          /\ match' = [proc[p].row EXCEPT !.status = IF @ = "scheduled" THEN "live" ELSE @,
                                          !.score = proc[p].wins]
      BY <1>10 DEF ScoreSeries, IInv, Orderly, Equipped
    <3>2. match'.winner = proc[p].row.winner
          /\ (match'.status = "completed" => proc[p].row.status = "completed")
      BY <3>1 DEF Match
    <3> QED BY <1>1, <3>1, <3>2 DEF Backed
  <2> QED BY <1>1, <2>1, <2>5, <2>6, MoverBacked
<1>11. CASE CompleteLock(p) \/ Decide(p)
  <2>1. PICK next : /\ Go(p, next)
                    /\ next \in {[proc[p] EXCEPT !.at = "decide"], [proc[p] EXCEPT !.at = "failed"],
                                 [proc[p] EXCEPT !.at = "result", !.row = match]}
    BY <1>11 DEF CompleteLock, TryLock, Decide, To
  <2>2. next.wins = proc[p].wins /\ next.winner = proc[p].winner /\ next.at # "score"
    BY <1>1, <2>1 DEF Local
  <2>3. Earned(proc[p].winner, Claims)
    BY <1>1, <1>11 DEF Backed, CompleteLock, Decide
  <2>4. Backed(next, Claims)
    BY <1>1, <2>2, <2>3 DEF Backed
  <2>5. match' = match
    BY <1>11 DEF CompleteLock, TryLock, Decide
  <2> QED BY <1>1, <1>3, <2>1, <2>4, <2>5, MoverBacked
<1>12. CASE Result(p)
  <2>1. match'.winner = proc[p].winner /\ Earned(proc[p].winner, Claims)
    BY <1>1, <1>12 DEF Result, Backed
  <2> QED BY <1>1, <1>2, <1>12, <2>1, ApplyUndecided
<1> QED BY <1>4, <1>5, <1>6, <1>7, <1>8, <1>9, <1>10, <1>11, <1>12 DEF Proceed

LEMMA BackedInit == Init => AllBacked
<1> SUFFICES ASSUME Init PROVE AllBacked
  OBVIOUS
<1>1. TypeOK
  BY ReviewInit DEF IInv
<1>2. match.status # "completed" /\ \A p \in Process : proc[p] = Idle
  BY DEF Init
<1>3. \A t \in Team : Claims[t] \in Nat
  BY <1>1, ClaimsType
<1> HIDE DEF Claims
<1> QED BY <1>2, <1>3 DEF AllBacked, Backed, Idle, NoWins

\* Approvals, rollbacks, second approvals and rows written back may come in any
\* order, and a tally may be old: still nobody wins a series without a claim on
\* a majority of its games, unless an organiser decides it himself.
THEOREM SeriesIsEarned == ("direct" \notin Requests) => (Spec => []SeriesEarned)
<1> SUFFICES ASSUME "direct" \notin Requests PROVE Spec => []SeriesEarned
  OBVIOUS
<1>1. IInv /\ AllBacked /\ [Next]_vars => AllBacked'
  <2> SUFFICES ASSUME IInv, AllBacked, [Next]_vars PROVE AllBacked'
    OBVIOUS
  <2>1. CASE UNCHANGED vars
    BY <2>1 DEF vars, AllBacked, Claims
  <2>2. ASSUME NEW p \in Process, Begin(p) \/ Proceed(p) PROVE AllBacked'
    BY <2>2, TypeStep, StepBacked
  <2> QED BY <2>1, <2>2 DEF Next
<1>2. AllBacked => SeriesEarned
  BY DEF AllBacked, Earned, Claims, SeriesEarned
<1> QED BY <1>1, <1>2, BackedInit, ReviewInv, PTL DEF Spec
=============================================================================
