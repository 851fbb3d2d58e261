-------------------------- MODULE SubmissionReview --------------------------
(***************************************************************************)
(* How the submissions of two teams decide one bracket match that is a     *)
(* series of games: submitting a result, the auto-verification that every  *)
(* submission starts in a goroutine, the verification by an organiser, and *)
(* what both apply to the match, next to requests that complete it or make *)
(* it live.  A request or goroutine is a process, and every read, write    *)
(* and lock of it is a step of its own.                                    *)
(*                                                                         *)
(* Locks are Redis keys set with SETNX: nobody waits for one.  Their 30    *)
(* seconds are taken to be long enough, and no call is taken to fail.      *)
(* Edits of a submission and the match reset are left out.                 *)
(***************************************************************************)
EXTENDS Naturals, FiniteSets, Sequences

CONSTANTS
    Team,       \* the two teams of the match
    Nobody,     \* NULL in winner_id; the holder of a free lock
    Score,      \* what the claims of two teams may differ in besides the winner
    BestOf,     \* bracket_matches.best_of
    Process,    \* requests and goroutines that may run at once
    MaxSubs,    \* bound on the submissions made
    MaxTries,   \* attempts at auto-verification
    Requests    \* "direct": organisers complete the match themselves;
                \* "start", "tick": they, or the scheduler, make it live

ASSUME ReviewShape ==
    /\ IsFiniteSet(Team) /\ Cardinality(Team) = 2 /\ IsFiniteSet(Process)
    /\ Nobody \notin Team /\ Nobody \notin Process
    /\ Team \intersect {"auto", "apply", "complete"} = {}
    /\ BestOf \in Nat \ {0} /\ MaxSubs \in Nat /\ MaxTries \in Nat \ {0}
    /\ Requests \subseteq {"direct", "start", "tick"}

VARIABLES
    match,    \* the row of bracket_matches
    made,     \* submissions made; their ids are 1..made
    subs,     \* the rows of match_submissions
    holder,   \* the locks
    proc,     \* the local state of the processes
    counted   \* results counted in the standings since the match was last
              \* taken back by a late start

vars == <<match, made, subs, holder, proc, counted>>

Id == 1..MaxSubs

WinsNeeded == (BestOf \div 2) + 1

Wins == [Team -> Nat]

NoWins == [t \in Team |-> 0]

Match == [status : {"scheduled", "live", "completed"}, winner : Team \union {Nobody}, score : Wins]

Verdict == {"pending", "approved", "rejected", "disputed"}

\* A draft has no game yet.
Sub == [team : Team, game : 0..(MaxSubs + 1), winner : Team, score : Score, status : Verdict]

\* bracket-submit:<match>:<team>, autoverify:lock, bracket-apply, complete_match:lock
Lock == Team \union {"auto", "apply", "complete"}

\* team_a of the match.
TeamA == CHOOSE t \in Team : TRUE

Idle == [at |-> "idle", draft |-> <<>>, hand |-> <<>>, todo |-> <<>>, to |-> "pending",
         wins |-> NoWins, winner |-> Nobody, row |-> <<>>, tries |-> 0]

Submitting == {"submit", "number", "insert"}

Applying == {"refetch", "score", "complete", "decide", "result", "applied"}

Starting == {"start", "started"}

Phases == {"idle", "auto", "pairs", "write", "apply", "count", "lock", "failed", "end"}
          \union Starting \union Submitting \union Applying

\* draft is the submission to insert, hand the submissions under review and
\* todo those of them still to be written, row what was read of the match.
Local == [at : Phases, draft : Sub \union {<<>>}, hand : Seq(Id), todo : Seq(Id), to : Verdict,
          wins : Wins, winner : Team \union {Nobody}, row : Match \union {<<>>}, tries : Nat]

TypeOK ==
    /\ match \in Match
    /\ made \in 0..MaxSubs
    /\ subs \in [1..made -> Sub]
    /\ holder \in [Lock -> Process \union {Nobody}]
    /\ proc \in [Process -> Local]
    /\ counted \in Nat

Init ==
    /\ match \in {[status |-> s, winner |-> Nobody, score |-> NoWins] : s \in {"scheduled", "live"}}
    /\ made = 0
    /\ subs = <<>>
    /\ holder = [l \in Lock |-> Nobody]
    /\ proc = [p \in Process |-> Idle]
    /\ counted = 0

Go(p, next) == proc' = [proc EXCEPT ![p] = next]

To(p, phase) == Go(p, [proc[p] EXCEPT !.at = phase])

\* SETNX: the lock is taken, or the process goes on without it.
TryLock(p, l, taken, refused) ==
    /\ UNCHANGED <<match, made, subs, counted>>
    /\ \/ holder[l] = Nobody /\ holder' = [holder EXCEPT ![l] = p] /\ Go(p, taken)
       \/ holder[l] # Nobody /\ UNCHANGED holder /\ Go(p, refused)

With(status) == {s \in 1..made : subs[s].status = status}

-----------------------------------------------------------------------------
(* Requests *)

Submission(t, w, x) ==
    [Idle EXCEPT !.at = "submit",
                 !.draft = [team |-> t, game |-> 0, winner |-> w, score |-> x, status |-> "pending"]]

\* SubmitBracketResult up to its lock.
Submissions == {Submission(t, w, x) : t \in Team, w \in Team, x \in Score}

Verification(s, to) == [Idle EXCEPT !.at = "write", !.hand = <<s>>, !.todo = <<s>>, !.to = to]

\* VerifySubmission: pending and disputed submissions are approved or rejected.
Verifications ==
    {Verification(s, to) : s \in With("pending") \union With("disputed"), to \in {"approved", "rejected"}}

\* CompleteMatch, called by an organiser.
Completions == {[Idle EXCEPT !.at = "complete", !.winner = t] : t \in Team}

\* UpdateMatchStatus to live reads the row, the scheduler's tick the id only.
Starts ==
    {[Idle EXCEPT !.at = "start", !.row = row] :
        row \in {x \in {match} : "start" \in Requests} \union {x \in {<<>>} : "tick" \in Requests}}

Room == made + Cardinality({p \in Process : proc[p].at \in Submitting}) < MaxSubs

Begin(p) ==
    /\ proc[p] = Idle
    /\ \E request \in Submissions \union Verifications \union Completions \union Starts :
          /\ request \in Submissions => match.status \in {"scheduled", "live"} /\ Room
          /\ request \in Completions => "direct" \in Requests
          /\ request \in Starts => match.status = "scheduled"
          /\ Go(p, request)
    /\ UNCHANGED <<match, made, subs, holder, counted>>

\* What is made live again after its result was entered is played anew.
Reopens == counted' = IF match.status = "completed" THEN 0 ELSE counted

\* The status is written whatever it is by now.
Start(p) ==
    /\ proc[p].at = "start"
    /\ match' = [match EXCEPT !.status = "live"]
    /\ Go(p, IF proc[p].row = <<>> THEN Idle ELSE [proc[p] EXCEPT !.at = "started"])
    /\ Reopens
    /\ UNCHANGED <<made, subs, holder>>

\* The organiser's request then writes the whole row, for started_at.
Started(p) ==
    /\ proc[p].at = "started"
    /\ match' = [proc[p].row EXCEPT !.status = "live"]
    /\ Go(p, Idle)
    /\ Reopens
    /\ UNCHANGED <<made, subs, holder>>

-----------------------------------------------------------------------------
(* SubmitBracketResult *)

Submit(p) ==
    /\ proc[p].at = "submit"
    /\ TryLock(p, proc[p].draft.team, [proc[p] EXCEPT !.at = "number"], Idle)

Games == {subs[s].game : s \in With("approved")}

\* The winner of each game that has an approved submission.  When two of them
\* disagree, the order of the rows decides, which the query leaves open.
Resolutions ==
    {w \in [Games -> Team] :
        \A g \in Games : \E s \in With("approved") : subs[s].game = g /\ subs[s].winner = w[g]}

\* Mutant: submissions are counted, not games.
SubmissionsCounted ==
    {[t \in Team |-> Cardinality({s \in With("approved") : subs[s].winner = t})]}

Tallies == {[t \in Team |-> Cardinality({g \in Games : w[g] = t})] : w \in Resolutions}

Decides(wins, t) == wins[t] >= WinsNeeded

\* maxApprovedGame + 1
NextGame(g) == g - 1 \in Games \union {0} /\ \A h \in Games : h < g

\* A decided series and a second pending submission for the game are refused.
Number(p) ==
    LET team     == proc[p].draft.team
        twice(g) == \E s \in With("pending") : subs[s].team = team /\ subs[s].game = g
    IN  /\ proc[p].at = "number"
        /\ \E wins \in Tallies, g \in 1..(MaxSubs + 1) :
              /\ NextGame(g)
              /\ IF twice(g) \/ \E t \in Team : Decides(wins, t)
                 THEN Go(p, Idle) /\ holder' = [holder EXCEPT ![team] = Nobody]
                 ELSE /\ Go(p, [proc[p] EXCEPT !.at = "insert", !.draft.game = g])
                      /\ UNCHANGED holder
        /\ UNCHANGED <<match, made, subs, counted>>

\* uniq_pending_bracket_submission
HasPending(t) == \E s \in With("pending") : subs[s].team = t

\* The row is inserted and the goroutine started.
Insert(p) ==
    LET draft == proc[p].draft
    IN  /\ proc[p].at = "insert"
        /\ IF HasPending(draft.team)
           THEN Go(p, Idle) /\ UNCHANGED <<made, subs>>
           ELSE /\ made' = made + 1
                /\ subs' = Append(subs, draft)
                /\ Go(p, [Idle EXCEPT !.at = "auto", !.tries = 1])
        /\ holder' = [holder EXCEPT ![draft.team] = Nobody]
        /\ UNCHANGED <<match, counted>>

-----------------------------------------------------------------------------
(* AutoVerify *)

\* Another goroutine that holds the lock ends this one: no error, no retry.
AutoLock(p) ==
    /\ proc[p].at = "auto"
    /\ TryLock(p, "auto", [proc[p] EXCEPT !.at = "pairs"], Idle)

\* The two teams' pending submissions for the same game, team A's first.
Paired(a, b) == subs[a].team = TeamA /\ subs[b].team # TeamA /\ subs[a].game = subs[b].game

Agree(a, b) == subs[a].winner = subs[b].winner /\ subs[a].score = subs[b].score

Pairs(p) ==
    LET pairs == {ab \in With("pending") \X With("pending") : Paired(ab[1], ab[2])}
    IN  /\ proc[p].at = "pairs"
        /\ \/ pairs = {} /\ To(p, "end")
           \/ \E ab \in pairs :
                 Go(p, [proc[p] EXCEPT !.at = "write", !.hand = ab, !.todo = ab,
                          !.to = IF Agree(ab[1], ab[2]) THEN "approved" ELSE "disputed"])
        /\ UNCHANGED <<match, made, subs, holder, counted>>

\* A goroutine still has its lock to give back; a request is over.
Over(p) == IF proc[p].tries > 0 THEN [proc[p] EXCEPT !.at = "end", !.todo = <<>>] ELSE Idle

\* UpdateStatus of one submission, whatever its status is by now; the index
\* refuses a second pending one.
Write(p) ==
    LET s       == Head(proc[p].todo)
        to      == proc[p].to
        refused == to = "pending" /\ \E x \in With("pending") : x # s /\ subs[x].team = subs[s].team
        left    == Tail(proc[p].todo)
    IN  /\ proc[p].at = "write"
        /\ subs' = IF refused THEN subs ELSE [subs EXCEPT ![s].status = to]
        /\ Go(p, IF left # <<>> THEN [proc[p] EXCEPT !.todo = left]
                 ELSE IF to = "approved" THEN [proc[p] EXCEPT !.at = "apply", !.todo = <<>>]
                 ELSE Over(p))
        /\ UNCHANGED <<match, made, holder, counted>>

\* The goroutine gives its lock back; after a rollback it tries again.
End(p) ==
    LET again == proc[p].to = "pending" /\ proc[p].hand # <<>> /\ proc[p].tries < MaxTries
    IN  /\ proc[p].at = "end"
        /\ holder' = [holder EXCEPT !["auto"] = Nobody]
        /\ Go(p, IF again THEN [Idle EXCEPT !.at = "auto", !.tries = proc[p].tries + 1] ELSE Idle)
        /\ UNCHANGED <<match, made, subs, counted>>

-----------------------------------------------------------------------------
(* applyApprovedBracketSubmission *)

Apply(p) ==
    /\ proc[p].at = "apply"
    /\ IF match.status = "completed" THEN Go(p, Over(p)) ELSE To(p, "count")
    /\ UNCHANGED <<match, made, subs, holder, counted>>

\* Approved wins are counted before the lock is taken.
Count(p) ==
    /\ proc[p].at = "count"
    /\ \E wins \in Tallies : Go(p, [proc[p] EXCEPT !.at = "lock", !.wins = wins])
    /\ UNCHANGED <<match, made, subs, holder, counted>>

ApplyLock(p) ==
    /\ proc[p].at = "lock"
    /\ TryLock(p, "apply", [proc[p] EXCEPT !.at = "refetch"],
                           [proc[p] EXCEPT !.at = "failed", !.wins = NoWins])

Refetch(p) ==
    /\ proc[p].at = "refetch"
    /\ Go(p, [proc[p] EXCEPT !.at = "score", !.row = match])
    /\ UNCHANGED <<match, made, subs, holder, counted>>

\* Mutant: the lock does not stand for a fresh read; the row is taken for live.
ScoreStale(p) ==
    LET wins    == proc[p].wins
        winners == {t \in Team : Decides(wins, t)}
    IN  /\ proc[p].at = "score"
        /\ match' = [match EXCEPT !.status = "live", !.score = wins]
        /\ Go(p, [proc[p] EXCEPT !.at = IF winners = {} THEN "applied" ELSE "complete",
                                 !.winner = IF winners = {} THEN Nobody ELSE CHOOSE t \in winners : TRUE,
                                 !.wins = NoWins, !.row = <<>>])
        /\ UNCHANGED <<made, subs, holder, counted>>

\* The whole row is written back, with the series score; a majority decides.
ScoreSeries(p) ==
    LET row     == proc[p].row
        wins    == proc[p].wins
        winners == {t \in Team : Decides(wins, t)}
    IN  /\ proc[p].at = "score"
        /\ match' = [row EXCEPT !.status = IF @ = "scheduled" THEN "live" ELSE @, !.score = wins]
        /\ Go(p, [proc[p] EXCEPT !.at = IF winners = {} THEN "applied" ELSE "complete",
                                 !.winner = IF winners = {} THEN Nobody ELSE CHOOSE t \in winners : TRUE,
                                 !.wins = NoWins, !.row = <<>>])
        /\ UNCHANGED <<made, subs, holder, counted>>

Applied(p) ==
    /\ proc[p].at = "applied"
    /\ holder' = [holder EXCEPT !["apply"] = Nobody]
    /\ Go(p, Over(p))
    /\ UNCHANGED <<match, made, subs, counted>>

\* Mutant: the lock is given back on success only.
FailedKeepsLock(p) ==
    /\ proc[p].at = "failed"
    /\ UNCHANGED holder
    /\ Go(p, IF proc[p].hand = <<>> THEN Idle
             ELSE [proc[p] EXCEPT !.at = "write", !.todo = proc[p].hand, !.to = "pending",
                                  !.winner = Nobody])
    /\ UNCHANGED <<match, made, subs, counted>>

\* Locks are given back and the submissions rolled back to pending; an
\* organiser's own completion just ends.
Failed(p) ==
    /\ proc[p].at = "failed"
    /\ holder' = [l \in Lock |-> IF l = "apply" /\ holder[l] = p THEN Nobody ELSE holder[l]]
    /\ Go(p, IF proc[p].hand = <<>> THEN Idle
             ELSE [proc[p] EXCEPT !.at = "write", !.todo = proc[p].hand, !.to = "pending",
                                  !.winner = Nobody])
    /\ UNCHANGED <<match, made, subs, counted>>

-----------------------------------------------------------------------------
(* CompleteMatch *)

CompleteLock(p) ==
    /\ proc[p].at = "complete"
    /\ TryLock(p, "complete", [proc[p] EXCEPT !.at = "decide"], [proc[p] EXCEPT !.at = "failed"])

\* The match must be live and its score not against the winner.
Decide(p) ==
    LET allowed == /\ match.status = "live"
                   /\ \A t \in Team : match.score[proc[p].winner] >= match.score[t]
    IN  /\ proc[p].at = "decide"
        /\ IF allowed
           THEN Go(p, [proc[p] EXCEPT !.at = "result", !.row = match]) /\ UNCHANGED holder
           ELSE To(p, "failed") /\ holder' = [holder EXCEPT !["complete"] = Nobody]
        /\ UNCHANGED <<match, made, subs, counted>>

\* UpdateResult, then advancement and standings, which Bracket models.
Result(p) ==
    /\ proc[p].at = "result"
    /\ match' = [status |-> "completed", winner |-> proc[p].winner, score |-> proc[p].row.score]
    /\ counted' = counted + 1
    /\ holder' = [holder EXCEPT !["complete"] = Nobody]
    /\ Go(p, IF proc[p].hand = <<>> THEN Idle
             ELSE [proc[p] EXCEPT !.at = "applied", !.winner = Nobody, !.row = <<>>])
    /\ UNCHANGED <<made, subs>>

-----------------------------------------------------------------------------

Proceed(p) ==
    \/ Start(p) \/ Started(p)
    \/ Submit(p) \/ Number(p) \/ Insert(p)
    \/ AutoLock(p) \/ Pairs(p) \/ Write(p) \/ End(p)
    \/ Apply(p) \/ Count(p) \/ ApplyLock(p) \/ Refetch(p) \/ ScoreSeries(p) \/ Applied(p) \/ Failed(p)
    \/ CompleteLock(p) \/ Decide(p) \/ Result(p)

Next == \E p \in Process : Begin(p) \/ Proceed(p)

Spec == Init /\ [][Next]_vars

\* What has begun is carried on; nobody has to begin anything.
FairSpec == Spec /\ \A p \in Process : WF_vars(Proceed(p))

-----------------------------------------------------------------------------
(* Properties *)

\* Auto-verification, two organisers and a retry may all find the series
\* decided; the result is entered, advanced and counted once, or once more each
\* time a start takes the match back that read it before it was decided.
CompletedOnce == counted <= 1

\* A decided series stays decided, for the same team, whatever is still under
\* review: the late processes write the row they read under the lock.  Nothing
\* takes it back but a start or a tick that found the match scheduled.
ResultStands ==
    [][match.status = "completed" =>
          \/ match'.status = "completed" /\ match'.winner = match.winner
          \/ \E p \in Process : Start(p) \/ Started(p)]_vars

\* Nobody wins a series without a majority of its games: two submissions for
\* one game are one win.
SeriesEarned ==
    match.status = "completed" =>
        Cardinality({subs[s].game : s \in {x \in 1..made : subs[x].winner = match.winner}}) >= WinsNeeded

\* Locks come back on every path: a process holds only those of the section it
\* is in, so no lock outlives its process.
LocksComeBack ==
    /\ \A t \in Team : holder[t] # Nobody =>
          proc[holder[t]].at \in {"number", "insert"} /\ proc[holder[t]].draft.team = t
    /\ holder["auto"] # Nobody =>
          proc[holder["auto"]].tries > 0 /\ proc[holder["auto"]].at # "auto"
    /\ holder["apply"] # Nobody => proc[holder["apply"]].at \in Applying \union {"failed"}
    /\ holder["complete"] # Nobody => proc[holder["complete"]].at \in {"decide", "result"}

\* "Retry up to 3 times if lock is held by the other team's goroutine": two
\* pending submissions that agree do not stay pending while the match is open.
AgreementSettles ==
    \A a, b \in Id :
        LET waiting == a \in With("pending") /\ b \in With("pending") /\ Paired(a, b) /\ Agree(a, b)
        IN  waiting ~> (~waiting \/ match.status = "completed")
=============================================================================
