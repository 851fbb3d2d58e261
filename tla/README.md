# porjar, the tournament platform: specifications and proofs

porjar (`src/porjar-api`, Go; `src/porjar-web`, Next.js) runs school e-sports
tournaments: registration of teams, brackets in several formats, results that
the teams submit and organisers review, standings, a champion. This directory
holds TLA+ modules that model its core, TLC configurations that check them on
small instances, and TLAPS proofs of what matters most for every instance.
Paths below are relative to the repository; `pb/` stands for
`src/porjar-api/internal/`, and `app/`, `lib/`, `store/`, `components/` are below
`src/porjar-web/src/`.

## 1. The system

### 1.1 Components, their state and operations

| Component | Code | State | Operations |
|---|---|---|---|
| Bracket generation | `pb/pkg/bracket`, `pb/service/bracket_generation.go`, `pb/handler/bracket_handler.go` | `bracket_matches` rows with their links, approved teams, tournament status and format | validate manual seeds, generate, reset bracket |
| Bracket play | `pb/service/bracket_match_ops.go`, `bracket_generation.go`, `pb/service/match_scheduler.go` | rows of `bracket_matches`, `standings`, `tournaments.champion_team_id` | status, score, games, complete, schedule match or round, scheduler tick, swap teams, reset of one match, reset of all results |
| Submission queue | `pb/queue`, `cmd/server/main.go` | a Redis Stream with a consumer group, dedup keys, a dead-letter stream; the workers' local state | enqueue, read a batch, dispatch, retry, ack, nack, start, stop |
| Submission review | `pb/service/match_submission_*.go` | `match_submissions` (pending, approved, rejected, disputed), Redis locks, the score of a series | submit, verify, auto-verify, dispute, edit, reset |
| Registration and life cycle | `pb/service/tournament_service.go`, `event_scheduler.go`; `app/admin/tournaments/[id]/page.tsx` | `tournaments.status`, `tournament_teams` | register up to `max_teams`, enter, withdraw, change status, set champion |
| Teams and invites | `pb/service/team_members.go`, `team_invites.go`, `team_service.go`, `pb/handler/import_handler.go`; `app/dashboard/teams`, `app/teams/join`, `app/admin/teams`, `app/admin/approvals` | teams, their members and status, invites and their uses; what each page has last loaded | found, invite, join, assign, import from a file, remove, review, delete |
| Sessions | `pb/service/auth_service.go`, `pb/handler/auth_handler.go`; `lib/api.ts`, `store/auth-store.ts`, `middleware.ts`, `SessionWatcher`, `NotificationBell` | refresh tokens and a blacklist in Redis, the cookies of the browser, the store and the requests of every tab | sign in, refresh, sign out, load a page, notice that the session is over |
| Group stage, playoffs, Swiss | `pb/service/group_*.go`, `swiss_tournament_service.go`, `stage_service.go`; `app/admin/tournaments/[id]/swiss`, `.../groups` | groups, their matches and standings, the round of a Swiss system, a Redis lock | make the calendar, enter a result, penalty, reset of one match or of all, recalculate, pair a round, crown, advance a stage |
| Battle royale | `pb/service/br_*.go` | lobbies, placements, points | open, record, finalise |
| Check-in, referees | `pb/service/match_checkin_service.go`, `referee_service.go` | flags per side, assignments | check in, assign |
| Broadcasts, notifications | `pb/ws`, `pb/service/notification_service.go`, `webhook_service.go` | none that is read back | fire and forget |
| Content, reports, statistics; the rest of the web client; caches and middleware | | single rows; pages; caches | reads and writes without a protocol |

### 1.2 How they interact

A captain's result goes from the API to the **queue** (an asynchronous copy of
the request) and from there to **review**, which inserts a pending submission;
two agreeing submissions, or an organiser, approve it and move the score of the
series; a decided series calls **CompleteMatch** of bracket play. CompleteMatch
writes the result, seats the winner in `next_match_id` and the loser in
`loser_next_match_id`, counts both in the standings, decides whether the loser
is out, may create the grand-final reset, and may crown the champion. All of
this is a sequence of separate statements: there is no transaction around it,
only a Redis lock per match. **Generation** reads the approved teams once and
leaves rows that play never links differently. The **match scheduler** makes
scheduled matches live when their time has come, next to the organisers.

Teams reach a tournament by **registration**: a captain founds a team, players
follow its invite, an organiser reviews it, and a reviewed team is entered. A
**group stage** or a **Swiss system** does without the bracket: results go to
`group_matches`, and every change is followed by a recalculation of the table,
from which the next Swiss round, the champion or a playoff bracket is made.
Every page stands behind a **session**: the client keeps an access token per
tab, and all tabs share the cookie with the refresh token.

### 1.3 Where it is hard

- *Seeding, links and byes.* Three formats of arithmetic on indices; in double
  elimination a bye in the winners bracket leaves a losers match with one team
  or none, which has to be closed when the bracket is generated or when the
  one team arrives, never too early and never too late.
- *The grand final.* What a result means depends on the loser's record, read
  before it is incremented, in a sequence of statements written for other
  formats too.
- *Corrections.* A result is taken back after its teams have moved on; all
  results are taken back, but generated byes have to stay; teams are swapped.
- *The queue.* Delivery at least once, a process that can die between any two
  calls, a shutdown that cancels the context of calls under way, retries with
  a growing delay, dead letters that nothing reads.
- *Requests that overlap.* Generation, completion, registration and roster
  changes read, decide and write without a common lock.
- *The table of a group.* One recalculation at a time, as long as Redis answers
  and the lock does not run out; one that finds the lock taken is given up, even
  if it is the one that knows the newer result. Swiss rounds and the champion
  are made from that table, a round match by match, without a lock.
- *Several tabs, one cookie.* A refresh rotates the token that another tab is
  just sending; answers are lost after the old token has been taken; requests
  queue behind a refresh and must be woken; a sign-out elsewhere has to be
  noticed.
- *What a page shows.* A page acts on what it loaded last; a load joins one
  that is under way; an answer may arrive after the user has gone elsewhere.

`PROJECT.json` lists each such place with its line under `hazards`, and the
properties aimed at it.

### 1.4 What makes it correct

Generation: everybody starts once, byes go to the top seeds, equally good
seeds meet as late as possible, every slot of every later match is fed by
exactly one earlier result. Play: the standings are the results, a team is out
exactly when its lives are spent, a team waits in one place only and on the
side of the bracket its losses put it, decided matches stay decided, the
champion is the one who is not out, the tournament can always go on and, if
played, ends. Queue: no accepted job disappears, none is worked on twice at
once, each is settled once and in one way, and every waiting job is settled.
Sessions: one living refresh token per sign-in, a sign-out is final, nothing
waits for an answer that nobody will give, and every tab learns in the end
that its session is over. Teams: no invite beyond its uses, no entry of a team
that was not reviewed, rosters within their limit as far as the locks reach,
no page that goes back in time. Groups: no calendar that seats a team twice in
a round, no table that stays wrong after a recalculation of its own, every Swiss
round from one table, and an end to it.

## 2. The modules

| Module | Models | Lines of code behind it |
|---|---|---|
| `MatchRow` | a row of `bracket_matches`, the rule by which a team is put into a slot | `model/bracket.go`, `advanceWinner`, `advanceToLosers` |
| `BracketLinks` | how the matches of a bracket hang together: links, which of them still owe a team, and the shapes that play relies on (`BracketFits`) | `model/bracket.go`, `bracket_match_ops.go` |
| `BracketGen` | the generators: seeding order, three formats, links, byes, cascade | `pb/pkg/bracket/*.go`, `GenerateBracket` |
| `BracketSetup` | the generate request, of an organiser or at the end of a stage, in its three reads (seeds, guards, rows), while teams, format and status change | `bracket_handler.go`, `stage_service.go`, `bracket_generation.go` |
| `Bracket` | everything that happens to a generated bracket | `bracket_match_ops.go`, `bracket_generation.go`, `bracket_repo.go`, `standings_repo.go`, `match_submission_reset.go`, `match_scheduler.go` |
| `SubmissionQueue` | handler, consumer group, worker pool, server process | `pb/queue/*.go`, `cmd/server/main.go` |
| `JobLedger` | the abstract specification of the queue: a job is accepted once and settled once, unless a submission of it was taken for failed | |
| `SubmissionReview` | the submissions of one match of a series: submit, auto-verify, verify, apply, roll back, next to requests that complete the match or make it live | `match_submission_bracket.go`, `match_submission_verify.go`, `match_submission_repo.go`, `CompleteMatch` to its result, `UpdateMatchStatus`, the scheduler |
| `Session` | the tabs of one browser, its cookies and the service that issues, rotates and revokes their tokens, with losses and reloads | `lib/api.ts`, `store/auth-store.ts`, `middleware.ts`, the layouts, `SessionWatcher` and `NotificationBell`; `auth_service.go`, `auth_handler.go` |
| `Enrolment` | teams of one game and their entries in one tournament: the pages on which they are founded, joined, managed, reviewed and entered, and the services behind them | `app/dashboard/teams`, `app/teams/join`, `app/admin/teams`, `app/admin/approvals`, `InviteLinkCard`; `team_*.go`, `import_handler.go`, `tournament_service.go` |
| `GroupTable` | the arithmetic of a group: calendar, Swiss pairs, table with its tie-breaks | `group_match_generation.go`, `swiss_tournament_service.go`, `group_standings_service.go` |
| `GroupStage` | one group in play: results, penalties, resets, recalculations, Swiss rounds, champion, with requests that overlap, fail half way or go on without Redis | the same, `match_submission_reset.go`, `group_repo.go`, `app/admin/tournaments/[id]/swiss/page.tsx` |
| `MCBracket`, `MCBracketSetup`, `MCReview`, `MCEnrolment`, `MCGroup` | instances for TLC (`Session` and the queue need none) | |
| `SetupProofs`, `BracketProofs`, `QueueProofs`, `ReviewProofs`, `SessionProofs`, `EnrolmentProofs`, `GroupProofs` | the theorems | |
| `CommonLemmas` | what `SetupProofs` and `GroupProofs` share: induction over a bounded range, what is built up step by step, powers of two, the circle method, lists in the order of numbers | |

**Rows.** A match id stands for the row's UUID; its links, position and round
are written once by generation and are constants of `Bracket`. The two scores
are kept as their comparison (`lead`: unset, level, A, B): every test in the
bracket service is of that comparison or of NULL. `status = "absent"` is a row
that does not exist, which is what the grand-final reset is until it is
created and after a restart deletes it. Of `standings` the model has the
columns that bracket play writes, and whether the row exists, because
`FindByTeam` returning nothing decides the grand-final rule.

**Actions of `Bracket`.** One action is one whole request: `CompleteMatch`
includes the result, both advancements, the losers match that its one team
passes alone, the standings, the elimination, the grand-final reset and the
champion, in the order of the code (`RowsAfter`, `StandingsAfter`, `Crowned`).
What an overlap of two completions can do is thus not in this module; it is
planned as a module of its own (section 8). The CONSTANT `Requests` says which
requests the organisers make besides starting and completing matches, so that
a configuration asks one question; no request is removed from the model. The
proofs hold for any `Requests` unless a theorem names one.

**Generation.** `BracketGen` computes the rows from teams and seeds as the Go
code does: the folds over `ListingOf` are its loops over matches ordered by
round and number. `LosersRounds` is the recursive function of the loop that
alternates major and halving rounds. `MCBracket` gives these rows to `Bracket`
as its constants, so that play is checked on the brackets the generator makes.
Play itself and its proofs know a bracket only by its links, rounds and rows.
What they rely on is `BracketFits`, of `BracketLinks`; the module has these as
CONSTANTS, so `Bracket` extends it and `BracketSetup` instantiates it with every
bracket that generation makes (`FitToPlay`). A request has its seeds from the
organiser, whom the handler checks, or from the list of those who qualified in
a stage (`Advance`), which nobody checks: a place in it may be beyond the
field, and a team of two groups leaves one out. The seeds stored in
`tournament_teams`, which are merged with them (`bracket_generation.go:50-64`), add
nothing: every insert of an entry leaves them empty, and the one statement that
writes them exchanges those of two teams (`bracket_match_ops.go:601-602`). A link is a pair of a match and
`"winner"` or `"loser"`; it is owed until its match is over.

**The queue.** A job is its stream id; ids grow, so the stream is `1..last`
and the group's cursor moves over it. A worker's `phase` is its place in
`runWorker`/`processWithRetry`; every Redis or database call is a step, and each
may fail when `Faults` says so or when the shutdown has cancelled its context
(`CallFails`; `Nack` uses a context of its own and does not fail for this
reason). Errors of the service are abstracted to "the job fails now".
`late` is a commit whose answer is lost. The INSERT runs on the context that a
shutdown cancels, so it can be lost in the same way then, whatever `Faults`
says (`Dispatch`): the worker takes the job for failed and dead-letters it. The
jobs this has happened to are `unanswered`, which is a history variable and a
state of the ledger. `replay` is a consumer group that was
lost and created again from the beginning of the stream (`"0"`).

**Review.** A request, or the goroutine a submission starts, is a process with
its own copy of what it has read (`proc`): `at` names the next statement,
`hand` the submissions it is deciding, `row` the match row it will write back,
`wins` the tally it took. Reads, writes and SETNX are single steps, because
the code takes four different locks and no transaction: `bracket-submit` (per
team), `autoverify:lock`, `bracket-apply`, `complete_match:lock`. Nobody waits
for a lock: `TryLock` has the branch of the refused one. Two reads with nothing
in between that the result depends on are one step (`Number` reads the
submissions and the approved ones; what it misses the unique index refuses in
`Insert`). `Result` is UpdateResult with what follows it in CompleteMatch, which
`Bracket` models; the requests that meet it half done are refused either by
the lock or by the status. Claims are a winner and a `Score`, which stands for
the points of the game; the efootball rules for points are checked in `Submit`
and cannot fail again in AutoVerify. The goroutine's hold on `autoverify:lock`
is `tries > 0`. `counted` is what the standings have counted of the match since a
start that came late last took it back (`Reopens`).

**Sessions.** Token n is the n-th pair of an access and a refresh token;
`issued[n]` the sign-in it descends from. A request of a tab is in `calls`
(`me`, `data`, and `first`, the request a page starts with), the one refresh of
a tab in `refresh`: `api.ts` lets a tab have one at a time, and its other
requests wait for it. Asking, serving and the arrival of the answer are steps
of their own; an answer may be lost, a tab reloaded, a refresh token run out
(`MaxMishaps`). `RotateRefresh` is between the `GetDel` of the old token and
the storing of the new one, which is where a logout can come. The poll of
`NotificationBell`, every 60 seconds, and the layouts' checks are actions of the
tab; `SessionWatcher` is the listener that takes a tab whose refresh was refused
to the login page. What the page
middleware decides follows from the cookies a page request carries: the
refresh cookie has the path of the auth endpoints and is never among them.
The refreshes of a sign-in by several tabs at once are what the module is for.

**Enrolment.** `conn[c]` is a request on its way: the page that asked (`by`),
the user it is about (`who`), and its stage, `asked`, `checked` when its
statements have let it pass, and `answered`. The checks of a service are read
at one instant before its insert; what changes in between is the race that
matters, and what two of those checks could see of each other the pages
cannot ask for. An invite is locked from the check to the increment
(`UseInvite`, `CountUse`). A page shows `shown`, a copy with the revision
`rev` it was loaded at; `gets` are its loads under way, joined as `api.get`
joins them. The captain of a team never changes in this code. `doors` is a
history variable: by which invites and organisers' pages a team has let
members in. `ImportParticipants` is one row of the organisers' file that puts a
player into a team that is there, with no look at the roster or at his other
teams; `imported` remembers who came that way.

**Groups.** `GroupTable` computes what the Go code computes, on teams numbered
in the order of their ids. The columns of a row that nothing else reads
(games played, goals) are inside `Rows` only. In `GroupStage` every statement
that reads or writes is a step of its request (`request[r].step`); the
recalculation is the five steps of `Recalculate`. `Lock` gives it up when
somebody holds the lock, and goes on without it when Redis does not answer; the
lock may run out (`Expire`), and its key may outlive its holder when the DEL
fails (`Unlock`). Upserts go one row at a time, and any of the statements may
fail (`RecalculationFails`), as may the inserts of a round (`GenerationFails`).
These are `Faults`; `MaxMishaps` bounds them, and with them how often a round is
asked for while another request is making it. `dirty`, `exposed` and `orderly`
are history variables: matches or penalties have changed since a recalculation
last read the matches, or the last one has failed; the lock has not kept two
recalculations apart, and none has worked alone since; every round so far was
made by one request at a time and to its end. A reset of one match is what the
code does: completed 0-0, then scheduled, then recalculated. Requests of
organisers and approved submissions are alike here (`Request`), and whoever asks
for the status of a Swiss system (`Viewer`) may crown its champion.

## 3. The runs

| Run | Question | States |
|---|---|---|
| `double4` | Four teams, double elimination, every order of scheduling, starting and completing, restart at any time: do rows, standings, bracket sides and champion agree at every step? | 6,113 |
| `double6_byes` | Six teams, double elimination, two byes: can the tournament always go on, and does it end with a champion? | 37,604 |
| `single4_corrections` | Reseating before the first result, match resets at any time, replays: is nobody seated against himself, and do decided matches agree with what they feed? | 420,288 |
| `round_robin4` | Four teams, scores: is the champion crowned after the last match of all, from a true tally? | 534,001 |
| `setup` | Generation with teams joining, leaving and the format changing between the steps, 2 to 8 teams, seeds of an organiser or of the end of a stage, three formats and one without a generator: who starts where, whom do the seeds meet, and is what comes out fit to be played to its end, as the theorems on play assume? | 25,112 |
| `queue` | Two workers, two jobs, failing Redis calls, service errors, inserts taken for failed, shutdown, kill, restart: is every job in one place, settled once unless such an insert left it in doubt, in the way the ledger says? | @queue@ |
| `queue_replay` | Inserts taken for failed, shutdown, kill, restart and a replayed stream: does every waiting job settle? | @queue_replay@ |
| `review` | A series of three, two teams, three processes, starts and ticks that may come late: is it decided once, by a majority of its games, for good unless such a start takes it back, and does every lock come back? | @review@ |
| `session` | Two tabs, one sign-in, reloads, losses, expiring tokens: is rotation single, a logout final, does nothing wait in vain, and is the end of a session noticed? | @session@ |
| `teams` | Two teams, three players, an organiser and his file, two requests that overlap, one loss: do invites stay in budget, rosters within their doors, entries reviewed, pages current? | @teams@ |
| `groups` | Swiss systems of two with failures and of three and four, round robins of two with failures and of three, two requests that overlap, and calendars of two to nine teams: is the table true when nothing says otherwise, are rounds made from it, are calendars playable, does a Swiss system end? | @groups@ |

One run shows where the code does something else than its own comment says
(`findings` in `PROJECT.json` quotes both):

| Run | What TLC finds |
|---|---|
| `queue_shutdown` | a job interrupted in back-off is dead-lettered and acknowledged; it does not come back at the next start |

The configuration `queue` has every fault but the replay, which may submit a
settled job again: the ledger is then no longer implemented. `queue_replay` has
replays and no failing Redis calls, since a job whose every call fails need not
settle. Both are parameters (`Faults`) of one specification.

Other values of the constants give runs that end in a counterexample. They are
not kept, but section 7 names, with each place where the code does something
else than its comments or documents say, the property and the values that show
it.

### Bounds, and why they are enough

- `N` (teams). Four teams in double elimination have all kinds of matches: a
  losers round that halves, one that takes a drop, the grand final and its
  reset. Six is the smallest field whose byes give a losers match one team and
  another one none; with three and five (in `setup`) the cascade only meets
  the first kind. `setup` goes to eight teams: three winners rounds and losers
  rounds of both kinds in a row. Teams are interchangeable once seeded, so
  `MCBracket` uses one seeding.
- `MaxWins` bounds the wins counted for one team. It is 9, more than any
  bracket of the runs has matches for a team, except in
  `single4_corrections`: there a match reset leaves the standings as they are,
  so wins grow with every replay, and 2 lets a team win a semifinal, have it
  reset and win again, or win both rounds. Nothing but crowning reads wins in
  that format.
- `reseat` is the swap of teams allowed before the first result only; `swap`
  without that restriction, together with match resets, can seat a team
  against itself (section 7), so the run would stop at that trace.
- `Small`, `Large`: up to four teams every partial assignment of manual seeds
  with every random completion is tried; five to eight teams are fully seeded
  in every rotation, since `ApplySeeding` has no case that a larger field adds.
- `Qualifying`: lists of those who qualified in which one team is there twice, so
  that a place of the field stays empty, or who are more than the field.
- `Followed` (constraint of `setup`): once a bracket exists no other request is
  followed until it is reset, because its rows do not change any more; and the
  larger fields are not changed between the two reads of the teams. The
  smaller ones are.
- `MaxJobs` 2, `BatchSize` 2, two workers: a batch of one and of two, jobs
  split over two workers or in one batch, and two claims or the same one, on
  which the second submission is refused while the first is pending.
  `MaxRetries` 2 has a retry and an exhausted one (the code has 3; the bound is
  a parameter of the proofs). `MaxStarts` 2 has one restart.
- `review`: three processes, so that an organiser, a goroutine and a second
  organiser or a submission meet; two submissions, which are one agreeing (or
  disagreeing) pair for a game, or two games one after the other, and with
  `BestOf` 3 the second of these decides the series; `MaxTries` 2 has a retry
  and an exhausted one (the code has 3). `Requests` has the starts and the ticks,
  as many as there are processes and however late; it leaves out the organiser's
  own completion of the match, which breaks the properties (section 7).
- `session`: two tabs of one sign-in, two pairs of tokens (the one of the
  sign-in and one rotation, which the two tabs compete for), one page besides
  the public ones, one mishap: a reload, a loss or a refresh token that runs
  out. The proofs are for any number of tabs, pages, tokens and mishaps.
- `teams`: an approved team with an invite, a team and an invite that are yet to
  be made (that team waits for its review first); the captain, two more players and one organiser's page; `Conn` two
  requests under way at once, `MaxRequests` two changes, of which one answer
  may be lost or one increment fail (`MaxMishaps`); the captain opens two
  pages, the others one (`MaxVisits`). `Limit` 2, `MaxUses` 1 and `MaxTeams` 1
  put every second request at a limit. A row of the organisers' file is one of the
  requests. Connections and the players who are not
  captain are interchangeable (symmetry; no liveness is asked).
- `groups`: Swiss systems of four teams and of three, which has a bye in every
  round, without failures; three rounds with thresholds of two, so that teams are
  through or out after two rounds, a rematch may be needed in the third, and a table
  that is behind leaves more teams in than there should be. `Scores` is one result
  there, because who is the home side already makes every outcome. `MaxMeddling` is
  one penalty, reset or match put live in the round robins of two and of three and
  none in the Swiss systems, whose end is asked for (a reset in the last round would
  begin it anew, without a bound). `MaxMishaps` is one failure, or one generation
  beside another, in the Swiss system of two, where it can double a round, and in
  the round robin of two, where it can let two recalculations work at once and a
  later one make good for it. That two requests generate at once is bounded with
  the failures because the page that asks for a round disables its button while
  the request is under way: it takes two pages. Of the other leagues (`Sizes`, one
  leg, two and three) only the calendar is made; nothing happens in them.
- `CHECK_DEADLOCK FALSE`: a tournament that has been played out, a server that
  has been started `MaxStarts` times, a decided match with no submission left,
  a browser whose sign-ins, and players whose visits and requests are spent,
  stop. `NotStuck` and the liveness properties say what the deadlock check
  would.

### Fairness

- `Organisers`: for each match, weak fairness of starting it when both teams
  are there and of deciding it when it is live. The program never does either
  by itself; the property `ChampionCrowned` is about a tournament that is
  played, and the program's part is that there is always something to play.
  Neither scores nor scheduling, swaps or resets are assumed.
- Review: none of its run's properties is about liveness.
- Sessions: for each tab, weak fairness of its refresh (sent, rotated and
  answered, or refused), of its fetchMe, and of the poll of `NotificationBell`, a
  timer; and access tokens run out. Nobody has to click, reload or sign out.
- Groups: every request that the server has begun ends (`[]<>` idle, written so
  because it says the same as weak fairness of its steps and TLC need not
  evaluate the table to know whether they are enabled); organisers go on
  entering results and making rounds; and somebody goes on looking at the
  status, which the Swiss pages do after every change (`loadData`).
- Queue: weak fairness of each goroutine's loop (`Consume(w)`: the Go scheduler
  runs every runnable goroutine, blocked reads return after two seconds,
  back-offs end) and of `Start` (the process supervisor restarts a server that
  is down). No fairness of `Verify`, `Expire`, of success or of any fault.

## 4. What is proved

TLAPS proves, for every bracket, every set of teams and every field, every number of workers,
jobs and retries and every batch size, every number of processes and every
length of a series, any number of tabs, tokens and losses, any people, teams,
invites and limits, any groups, results and requests that overlap:

| Theorem | Says | Needs |
|---|---|---|
| `EverybodyStarts` | in a generated elimination bracket every team starts in one match of round 1, and none is empty | |
| `BestSeedsGetByes` | the byes go to the best seeds and to nobody else | |
| `BestSeedsMeetLate` | the 2^d best seeds are in different subtrees of the last d rounds | |
| `GeneratedFitsPlay` | every generated bracket, of any size, is what `BracketFits` says; double elimination of two teams excepted | |
| `EveryPairMeetsOnce` | in a generated round robin every two teams meet once and nobody plays twice in a round | |
| `TypeCorrect` | rows, standings, champion keep their types | |
| `ResultsAreFinal` | only the match reset and the restart change a decided match | |
| `StandingsAreResults` | wins and losses are the completed matches, counted once | no match reset, no restart |
| `NobodyMeetsHimself` | no match seats one team twice | no swaps |
| `TheTableDecides` | a round robin crowns nobody before its last match, and then one that nobody has more wins than | `BracketFits`; no match reset, no restart |
| `EliminatedAtTheLastLoss` | a team is out exactly when its losses have used up its lives | `BracketFits`, `Undisturbed` |
| `NobodyIsExpectedTwice` | no team is in two undecided matches, and one that is out in none | the same |
| `LossesDecideTheSide` | winners bracket without a loss, losers bracket with one; the grand final and its reset have the right teams | the same |
| `NobodyMeetsHimselfReseated` | no match seats one team twice, reseats before the first result included | the same, elimination |
| `ResultsArrive` | winner and loser of a completed match are where its links lead | `BracketFits`, `Orderly`, elimination |
| `NeverStuck` | while two teams are in, some match can be played | the same |
| `ChampionIsLastStanding` | who is crowned is in and all others are out | the same |
| `ChampionStays` | a champion is never replaced | `BracketFits`, `Orderly`; any format |
| `QueueTypes` | types of the queue | |
| `NoJobVanishes` | a delivered job is pending, submitted or dead-lettered | any faults |
| `JobsHeldOnce` | two workers never hold one job | any faults |
| `DeadStaysDead` | a dead letter is out of the workers' hands | any faults but the replay |
| `OneSubmission` | a job makes at most one submission, or one in each attempt once an insert of it was taken for failed | the same |
| `QueueImplementsLedger` | the queue implements `JobLedger`, in which jobs may be left in doubt | the same |
| `ReviewTypes` | types of the match, the submissions, the locks and the processes | |
| `LocksReturn` | each lock is with a process that is in its section and gives it back | any requests |
| `SeriesDecidedOnce` | a series is completed and counted at most once, or once more after each start that comes late | any requests but a direct result |
| `ResultsStand` | nothing but such a start takes a decided series back, or turns it | the same |
| `SeriesIsEarned` | a series is won only with claims to a majority of its games | the same |
| `SessionTypes` | types of the tokens, cookies, tabs and requests | |
| `OneRefreshPerLogin` | a sign-in has one living refresh token at most | any losses |
| `LoggedOutForGood` | no token of a sign-in that a logout has ended lives again | any losses |
| `NobodyWaitsForNothing` | a request waits only while the refresh that wakes it is under way | any losses |
| `EnrolmentTypes` | types of the teams, invites, entries, pages and requests | |
| `InvitesWithinBudget` | no invite is used more often than it may be | locks do not expire |
| `RosterWithinDoors` | a roster, leaving aside whom a file put into it, exceeds its limit by fewer members than the doors that let somebody in | the same |
| `EntriesAreReviewed` | every entry is of a team that exists and was reviewed | |
| `ViewsGoForward` | no page shows an older state of its team than it has shown | |
| `TableIsUpToDate` | a table with nothing pending is the one the matches and penalties give | any failures, while not `exposed` |
| `OneRecalculation` | one request at a time is recalculating | while not `exposed` |
| `CalendarStaysFair` | every round seats a team once and has one bye at most; a round robin of any size and legs is complete, with a home game each in two legs | any failures and overlaps; the rounds of a Swiss system while `orderly` |
| `RoundsAreFromTheTable` | an announced Swiss round has the undecided of the table that was read, and rematches only where nobody else was left behind | while `orderly` |

**Assumptions.** `BracketShape` (links stay in the bracket, the listing order
is strict, at most two matches send their winner to one match) and
`GeneratedShape` (generation decides nothing but byes and seats nobody against
himself) are what generation leaves; TLC evaluates them in every run of
`MCBracket`, on generated brackets, and `setup` checks the facts behind them
for other sizes. `FieldsAreTeams` says that what an organiser generates for is
a finite set of teams, `QualifyingAreLists` that those who qualified are a list of
teams. `Sizes`, `FaultsKnown`, `ReviewShape`, `BoundsAssumption`,
`PeopleAssumption`, `TeamAssumption` and `GroupAssumption` are the ranges of the
parameters and say that names of different kinds differ. A group has two
teams at least (`NOT_ENOUGH_TEAMS`, `group_match_generation.go:32`), none of them
twice (the primary key of `group_teams`, migration 0037). `StartAssumption` says
that an invite belongs to a team that has been founded, as the handler that
makes it does; `HomeAssumption` that the page a role is sent to is a protected
one (`roleHomePage` in `middleware.ts`).

`BracketFits` is what generation promises to play. For an elimination format
(`EliminationShape`): links lead to later rounds and at most two to one match;
one match of a single elimination has no next one, and in a double elimination
winners drop once and the sides lead where they should; every team starts in
one match; and the accounts of the slots balance (`Flow`): a free slot for
every team that is still to come, for every undecided match two teams that are
there or to come (one may be missing where only losers are to come, which is
the match that its one team passes alone), and no team sent to a match that is
over. For a round robin (`RoundRobinShape`): all matches stand from the start
and lead nowhere. As an assumption of `Bracket` it is evaluated by TLC in every run of `MCBracket`
(`GeneratedFits`); that generation keeps it is `FitToPlay`, which `setup`
checks for two to eight teams and `GeneratedFitsPlay` proves for a field of any
size. So the theorems below that need it hold for every bracket the
generators make, with one exception: double elimination with two teams does
not fit (section 7), and both leave it out. `NoMatchIsNoId` says that NULL is not
the id of a match. `Undisturbed` leaves
out match resets, restarts and swaps after the first result, each of which
breaks these properties (section 7); reseats before the first result are in.
`Orderly` is the same without two requests of organisers that the runs do not
make either: starting a match that has not got its teams (`"unready"`), and
completing one without a winner (`"force"`).

**The argument for generation.** In a round robin of `2h + 2` entries, the last
of which may be the bye, entry 1 stays and the others turn on a circle of
`2h + 1` places. Where an entry stands after some turns is a difference modulo
that odd number (`PlaceValue`): two entries never stand in one place
(`PlacesDiffer`), they face each other in one round only, since otherwise the
number would divide the double of something smaller (`RoundsDiffer`), and the
round in which they do is found from half their sum (`PlacesMeet`). Hence every two
entries play once (`OneGameAPair`, `EveryTwoPlay`). That the entries are the
field is the other half: `Sorted` lists each team once because the seeds
differ (`Ranks`, `SortedLists`). `SetupInv` keeps this for the rows and for
the seeding that a request has read, whoever has joined or left since.

In an elimination bracket the seeds are a permutation of 1..n, since there are
as many as teams and no hole (`SeedsOfDraw`), and the field fills more than
half of the 2^k entries (`ExponentFits`). `SlotTable` is the list that
`standardPairingsIterative` doubles: every doubling permutes (`SlotsPermute`),
and a match of round 1 pairs a seed of the upper half with its complement
(`Pairings`), so nobody but a complement can be missing and the byes are where
it is (`ByesOfRound`). The loops over byes and over losers matches are climbed
step by step: a bye closes its match and seats its team one round further
(`OneByeMore`, `AfterByes`), and the cascade never touches round 1
(`OneLosersMatch`, `CascadeKeeps`). That round 1 is not fed by anything, and
the losers bracket lies behind it, needs the sizes of its rounds in closed form
(`LosersRoundsAre`). The best seeds: a doubling leaves the 2^d best where they
were and puts none beside them (`DoubledKeepsBest`), so each block of slots
keeps exactly the one it had when there were 2^d slots (`OneBestEach`).

`GeneratedFitsPlay` follows the same bracket to its end, in three parts. *How it
hangs together* (`Hung`): every match after round 1 is fed by two winners, by a
winner and a loser of a later round, or by two losers of round 1, and nothing
feeds two matches. For a tree this is `TreeFeeds`; for the losers bracket the
rounds are taken in pairs of one width, a halving and a major one
(`RoundsInPairs`, `DoubleParts`), and each match names where its winner and its
loser go (`Up`, `Down`, `PartIsFed`), so that two feeders of one match cannot be
one. *What is in it* (`Filled`): round 1 and the byes as above, a later match
with exactly the teams of the byes that lead to it (`Joined`), and the losers
matches that nobody can reach closed. These are the halvings of the first
losers round whose two feeders are both byes (`Dead`); the cascade finds them
by counting. Its invariant (`Accounted`) is that the count of a match is 0 if it
is dead and at least 1 otherwise, and at least 2 as long as a dead match that
leads to it is still to be seen: such a match also waits for a loser of the
winners bracket (`DeadLeads`, `OpeningCounts`), so closing the dead one never
brings it to 0 (`OneMoreSeen`, `CascadeCloses`). *What follows*: links lead
forward (`HangsForward`), every team starts once (`EntrantsStart`), and, case
by case of the three ways to be fed, each slot is taken or owed
(`SlotsAccounted`).

The provers know nothing of `2^k` but that a set of `k` members has `2^k`
subsets, which is where `PowerDoubles` comes from, and the library's induction
theorems take an operator, which they cannot instantiate; `Climb` is
induction over the members of a set instead, proved from the least number that
is not in it, and `StepByStep` gives the function that a loop computes.

**The argument for the bracket.** `TypeOK` alone is not inductive for what is
asked: a row could carry a winner before it is decided, and advancing it as a
bye, or counting it, would then be wrong. `IInv` adds that only decided
matches and byes name a winner or a loser. With it, a lemma per helper says
what that helper keeps (`SeatLemma`, `AdvanceWinnerLemma`, `PassAloneLemma`,
`AdvanceToLosersLemma`, `GrandFinalResetLemma`), `RowsAfterLemma` composes them
in the order of CompleteMatch, and `TypeStep` goes over the actions. The tally
is a second invariant over the sets `Won` and `Lost`: a completion adds one
match to each of two sets, and the standings one to each of two counters.
`NobodyMeetsHimself` is `Apart` of each row, which every helper keeps.
`TheTableDecides` adds to the tally that nobody is crowned while a match is
undecided, and that afterwards nothing is left to change the wins that the
champion was chosen by (`TableLeader`).

**The argument for elimination.** What is asked of losses, sides and seats
fails to be inductive one by one: that a loser is not out already follows from
his being seated in one place, and that he is seated in one place from the
match he drops to, which depends on his losses. `Seating` is the conjunction
that is: besides `AllApart`, `OneSeat` (a team sits in one undecided match at
most), `LossesCounted` (out exactly when the lives are spent), `StillIn` (who
sits in an undecided match is in), and for double elimination `Sides` (losses
by the side of the bracket), `Finalists` (no two teams of the grand final have
the same losses) and `ResetLast` (the reset exists only after the grand final,
with both its teams).
`CompletionSeating` has one lemma per conjunct. They rest on what the winner
and the loser of one match do to the rows (`SeatTeams` and what follows it);
the cascade, which moves a team on without a match, is one more place it can
be in. A reseat is a permutation of the teams before any losses (`Traded`).

**The argument for the flow.** `NotStuck` says that something can be played,
and no step shows that by itself: the match that a result makes playable may be
any later one. `Accounted` keeps the accounts of `Flow` through play
(`FlowNow`): a completed match delivers its one or two links, and each delivery
takes one free slot and one expected team at once (`Delivered`), so that room
and expectation stay in balance whichever match is decided; a match that passes
its one team alone delivers a link of its own. `Waiting` (a match without both
teams has not been started), `StillSeated` (who is in sits in an undecided
match, or is champion), `PlayedOut` (nothing is left once a champion is
crowned), `Credited` and `OnlyResetAbsent` tie rows, standings and champion
together. `SomethingToPlay` then looks at an undecided match of the lowest
round: all that leads to it is over, nothing is owed to it any more, so it has
its teams (`Fed`). The champion follows: one is crowned when only one is in, so
no match is left that could crown another.

**The argument for the queue.** The properties do not mention the worker's
phase, and no step could be justified without it. `Book` says where every job
is: `JobInHand` (a goroutine has a job exactly while it works on one),
`Witnessed` (what it has done by the time it acknowledges), `InPlace` (jobs in
hand were delivered, are in one place, and nobody holds any while the server
is down). `Settling` adds that a job that still is in hand before its
acknowledgement has not been given up, and has been submitted only if it is among
the `unanswered` (`Counted`), which is what fails when an acknowledged job is
delivered again. The refinement maps every step to a step of
the ledger or to a stutter (`ConsumeRefines`).

**The argument for review.** `TypeOK` is not inductive: a step reads the row,
the draft or the list its process is supposed to carry, and an insert needs a
place. `PlaceKept` counts the submissions under way; `Equipped` says what a
process has in hand in each phase; `Answerable` that only a goroutine counts
tries, so that `Over` ends a request and gives back a goroutine's lock; `Held`
is `LocksComeBack` seen from each process. A lemma per group of actions says
that the process that moves stays so (`SubmitOrderly`, `VerifyOrderly`,
`ApplyOrderly`, `CompleteOrderly`), and one that the others do
(`OthersOrderly`). For the result, `Alone` adds that who applies holds
`bracket-apply`, that the row he will write back is what the match is unless a
start has made it live, and that a match that is not completed has not been
counted since a start last took it back. This is the claim the code's comments
make for that lock; it needs that nobody else completes the match: a completion
between the re-fetch and the update breaks it (section 7; `LockShields`,
`StartAlone`, `AloneStep`). A start that comes late does not: an approval that read
the row completed before it writes it back so, and counts nothing.

`SeriesEarned` counts submissions at the end, and what completes a series is a
tally that was taken some statements before, from approvals that may have been
taken back since. So nothing can be said of approvals; `AllBacked` says instead
that no tally a process holds exceeds the number of games that the team has
claimed (`Claims`), and that the winner of the match, of a row about to be
written back, and of every process about to decide, has claimed a majority.
Claims only grow (`ClaimsGrow`), so old tallies stay backed whatever the others
do (`StillBacked`).

**The argument for sessions.** `OneLivingRefresh` and `LogoutIsFinal` speak of
the store alone, but a rotation is two calls to it, and between them the old
token is gone and the new one is not there. `SessionInv` adds the refreshes in
that gap: a sign-in has either a living token or one refresh that holds its old
one (`OneHeld`, `HeldOnce`), and neither when a logout has ended it
(`EndedNotHeld`, `EndedLogins`). Most steps gain no token
(`NoneGainedSuffices`) or touch neither store nor refreshes (`QuietSuffices`);
what is left are the two halves of the rotation and the logout. That waiters
are woken is inductive with the types: `WokenStep` goes over the steps that end
a refresh, each of which settles the promise that the others wait for
(`refreshPromise` in `api.ts`) in one way or the other.

**The argument for teams.** Four invariants on top of the types (`TypeInv`),
each about the requests between their checks and their writes. Invites: who is
in that section holds the lock of the invite (`OneUse`), so the use that the
check found is still left (`UseLeft`). Entries: a team that is entered, or
about to be, is reviewed, and no statement makes a team wait for its review
again (`Reviewed`). Rosters: the members and the requests past their check,
taken together, exceed the limit by no more than the doors they came through,
since one invite lets in one request at a time (`OneUse`) and one organiser's
page sends one (`OneAssign`); whom a file put in is counted on neither side; `RosterInv` says so of each team and is kept by
counting (`RosterGrows`, `RosterLess`). Pages: a team has one load under way per
tab (`OneLoad`: the client joins a GET that is under way), so the state that
arrives is at least as new as the state that is shown (`ViewInv`).

**The argument for the table.** `TableUpToDate` holds at the end of a
recalculation only if nobody else has written the table since its matches were
read. `Alone` is the lock: the request that works on the table holds it, as long as
Redis keeps it. When a call fails or the lock runs out, `exposed` says that this
may no longer be so, until a request holds the lock and no other is at work.
`Basis` says that, unless `dirty` says that something has changed since, the
matches it has read are still the matches, the rows it has computed are what
they and the penalties say, and the rows it has written are in the table. The
one fact about the arithmetic is `RowsKeepPenalties`: a row carries its penalty
along, so writing the rows does not change what they should be.

**The argument for calendars and rounds.** A group's calendar is the same circle
as a generated round robin, entered otherwise: `SeatPlace` says where a seat of
`GenerateMatches` stands on it, so `CommonLemmas` gives that two games of a
round have no team in common (`RoundsOfGames`) and that two teams meet once in
a leg, at home in one of two (`GameOfPair`). The calendar lists the games by
number (`GamesNumbered`, `ListingLists`), each once: `ScheduleFair`.

A Swiss round takes the first team that is left and the first of the others it
has not met. `Unpaired` is that loop, one step per pair; `LeftInLine` climbs it
(`Climb` is the induction, over a set of numbers that is bounded): what is left
is still in the order of the table, without those that have been paired. Hence
no team is paired twice, at most one is left over, and when a team meets one
again, everybody behind it that was still left it has met too, and who was not
left had been taken by a team in front (`PairsInLine`). With the bye
(`Byes`) and the rows (`SwissSeats`) this is what is asked of the round
(`ListedRound`).

Both hold when the matches are made. That they hold later is the invariant
`CInv`: results, status and resets change neither teams nor round of a match
(`Alike`, `Quiet`); who makes a round is alone in it (`Numbers`); and the matches it has written so far, with those it still has
to write, are the pairs of one round that follows from what it read
(`Making`). The last of them is what makes the properties provable: between
two inserts there is half a round, of which nothing can be said but that it is
the beginning of a whole one. In a Swiss system all this holds while `orderly`
(`Orderly`): the code has nothing that keeps two generations apart or finishes one
that failed, and what they leave is in section 7. In the first form of `RoundFromTheTable` a
rematch was allowed only if everybody else behind had been met or was paired
with a team strictly in front. That is false: in a table that is being written
two rows may have the same points and rank, and then neither is in front.

## 5. What is only model-checked

- Liveness: `ChampionCrowned`, `EveryJobSettles`, `SessionEndNoticed` and
  `SwissEnds`. The installed provers do not reason about `WF_`.
- That generated rows and links also are `BracketShape` and `GeneratedShape`:
  TLC evaluates both assumptions in every run of `MCBracket`.
- Play after a match reset, a restart, a start with a team missing or a
  completion without a winner, for everything that needs `Orderly`.
- The rows of a table: that `Rows` ranks as `recalculateStandings` does is how it
  is translated; the proofs use of it that a row carries the penalty, the wins
  and the losses of its team.
- `InterruptedJobsReturn`, the comment that `queue_shutdown` refutes.

The type invariants are proved (and were checked by TLC before), except those
of `BracketSetup`. `GroupStage` has none of its own; `Shape` in `GroupProofs` is
the part of one that the proof needs.

## 6. Not modelled

Inside the modelled parts:

- *Generation.* A failure between two inserts of one bracket.
- *Play.* The single statements of a completion; best-of changes, single games,
  streams and notes.
- *Review.* Edits and resets of a submission, submissions of group and
  battle-royale matches, calls that fail, and locks that expire before their
  holder is done (and are then deleted by it).
- *Queue.* Messages that are not what `Enqueue` writes, which `ReadBatch`
  acknowledges and skips (`submission_queue.go:105-131`): nothing in the repository
  writes one. Trimming: at about 100,000 entries it is far outside a small
  instance; an unread job that is trimmed is gone.
- *Sessions.* Registration, passwords, account activation and login limits;
  several browsers, which share nothing but the account.
- *Teams.* The 15 seconds of an invite's lock; failing statements other than
  the increment; names, logos and schools. Of the organisers' file the rows that
  found accounts and teams. The captain's own way to add a member, which no page
  can ask for (section 7). Entries made at the end of a stage
  (`stage_service.go:146-158`, `:232-244`): they are of teams that have been entered
  in another tournament, and no status is looked at.
- *Groups.* A lock that Redis has set without the answer arriving; a server that
  dies inside a recalculation; `GenerateSwissRound` reads the table and the matches
  in one step (`PairTeams`); teams added and removed, and calendars made anew,
  while matches are played; the playoff bracket and points distributed to schools.
- *Life cycle.* The event scheduler, dates, edits of a tournament.

Whole parts: battle royale, check-in and referees keep small states of their
own and are arithmetic on single rows for the most part. Broadcasts, mail, push
and webhooks are calls whose outcome nothing reads. Content, reports and
statistics read and write single rows. Caches and rate limits change what is
read by a known age at most; rows of brackets, jobs and submissions are not
cached (the cached list of tournaments is in section 7). Of the web client the
parts with a protocol are in `Session`, `Enrolment` and `GroupStage`; the rest,
most of the client's lines, is layout, forms and lists that load once and post
one row.

## 7. Noticed, without a run of its own

Generation and play:

- Two generate requests at once both find no bracket and both create one
  (`bracket_generation.go:26`; two `Organiser`s in `BracketSetup` do it in six
  steps). `src/Docs/09-feature-specs.md:164` says the second is blocked.
- The status request can complete a match that has no winner
  (`bracket_match_ops.go:18`); `src/Docs/08-validation-rules.md:131` forbids it.
- Double elimination with two teams: the losers bracket has no match, the
  grand final waits for ever for its second team (`double_elim.go:254`), and no
  champion is crowned (`ChampionCrowned` with `N = 2`).
- A match may be started with one team or none (`UpdateMatchStatus` does not
  look at the teams); `src/Docs/08-validation-rules.md:130` forbids it. The
  runs do not make this request (`unready`); the proofs allow it.
- Manual seeds are validated against one list of teams
  (`bracket_handler.go:139-143`) and used with a later one. If a team has left
  in between, a seed may be missing and the generator dereferences nil before
  any row is written (`Crashes`); the recovery middleware answers with an error.
- After a restart of the results, byes that arose in play (a losers match
  passed alone) stay byes (`bracket_repo.go:397`), and a round robin loses the
  teams of all rounds after the first, because their games have no other
  source of teams.
- In single elimination the same restart keeps the teams and results of round
  one: it looks for rows whose `bracket_position` is `winners`
  (`bracket_repo.go:417`), and the generator names them `R1M1` and so on. The
  comment at `bracket_generation.go:262-264` says that all results are cleared.
  (`RestartRestores` with `single_elimination`, `N = 4` and
  `Requests = {"schedule", "restart"}`. In `double4` it would hold: that field has
  no byes, which is why it says nothing of a restart in general.)
- A bye that a match reset touches is not advanced again.
- A match reset leaves standings, elimination and champion as they were, and
  so does a restart with the champion: a replayed final can crown a team that
  is marked eliminated, and the tally counts the replay twice. This is why
  `StandingsTally` is not asked in `single4_corrections`.
- A swap takes a decided team out of the match it was sent to; reset and
  replay of the match it came from then seat it again, and a second swap can
  put it against itself (`NoSelfMatch` with `single_elimination`, `N = 4`,
  `Requests = {"swap", "reset"}` and `MaxWins = 3`). The checks that the code
  comments call "prevents self-match" (`bracket_generation.go:317`, `:452`) look at
  one match only.
- `advanceWinner` says that an odd match number fills slot A and an even one
  slot B; it fills the first free slot. Only the display depends on it.

Review:

- "Retry up to 3 times if lock is held by the other team's goroutine"
  (`match_submission_bracket.go:206`): AutoVerify answers `false, nil` when it
  finds the lock taken (`match_submission_verify.go:160`), and the loop ends on
  a nil error. Two agreeing submissions that are made at once stay pending
  (`AgreementSettles` under `FairSpec` of `SubmissionReview`).
- A request of an organiser that completes the match between the re-fetch and
  the update of an approval (`match_submission_bracket.go:309`, `:338`, the
  whole row) is overwritten: the match is live again and counted twice
  (`CompletedOnce` with `Requests = {"direct"}`), although the comments call each of
  the two locks the one that prevents this (`bracket_match_ops.go:210`,
  `match_submission_bracket.go:308`).
- A start request or a scheduler tick that has read the match as scheduled
  writes `live` whatever has happened since (`bracket_match_ops.go:34-42`,
  `match_scheduler.go:89`). If the series was decided in between, the match is
  live again and the next approval completes it a second time. `review` has these
  steps; they are what `ResultStands` allows and where `counted` begins anew.
  `src/Docs/08-validation-rules.md:135` and the refusal in
  `bracket_match_ops.go:23-25` say that a completed match is not edited.
- Wins are counted before `bracket-apply` is taken. Of two approvals the one
  that counted first may write last, so a match completed 2-0 can show 1-0;
  and a win can be counted from an approval that is then rolled back.
- "Roll back to pending so the admin can retry" (`match_submission_verify.go:56`):
  when the team has submitted again in the meantime, the unique index refuses
  the rollback, and the submission stays approved without having been applied.
- UpdateStatus is unconditional: an auto-approval overwrites an organiser's
  rejection made between its read and its write.

The queue:

- A job replayed after the loss of the group may be submitted twice, when its
  dedup key has expired and its first submission is decided
  (`submission_queue.go:205-206`).
- Entries that a crashed worker had pending are never reclaimed: they stay in
  the pending list. `NothingVanishes` counts them as pending, and
  `EveryJobSettles` promises nothing of them.
- The stream is trimmed at about 100,000 entries and the dead letters at about
  10,000, read or not. This is not modelled.

Sessions:

- Of two tabs that refresh with the same cookie one is refused, and its client
  answers the refusal by signing out: the cookies that the other has just been
  given are cleared, and both tabs are signed out. So does a tab whose answer
  was lost after the old token had been taken.
- An answer to `/auth/me` that arrives after a sign-out signs the tab in again
  (in the store only: its next request is refused). A GET under way is shared
  across a sign-out and a sign-in. A logout whose request is lost leaves the
  cookies, which the client cannot delete.
- The refresh has no timeout; a request whose retry is refused again refreshes
  again, without a bound; pages outside the layouts never ask who is signed in;
  nothing uses `useAuth.ts`.
- `middleware.ts:83-85` lets a page request through that has only the refresh
  cookie, but that cookie has the path of the auth endpoints
  (`auth_handler.go:80-88`) and comes with no page request
  (`RefreshCookieSuffices` is false in `session`): after an access token has
  run out, a full page load goes to the sign-in page.

Teams:

- The organisers' file of participants puts players into existing teams without
  counting the members and without looking for another team of the player in the
  game (`import_handler.go:338-354`): a roster passes its limit by any number
  (`src/Docs/08-validation-rules.md:68-69`; `RosterWithinLimit` in `teams`).
- Different doors into a team do not exclude each other: a roster can exceed its
  limit (`src/Docs/08-validation-rules.md:69`; `RosterOverrun` says how far), a
  player can join two teams of a game (`:68`), and the last places of a
  tournament can be given twice (`:99`, `tournament_service.go:398`).
  `src/Docs/08-validation-rules.md:71` has no counterpart in the code.
- A join whose increment fails is answered with an error, but the player is a
  member and the use is not counted. The lock of an invite lasts 15 seconds
  and carries no owner, so a slow holder deletes the lock of another.
- Approve and reject do not look at the status; the status page offers every
  status although the service goes forward only; deleting a team takes its
  entries along (migration 0071), in a running tournament too.
- The form that adds a member sends no `user_id` and is always refused
  (`team_handler.go:308-322`). `TeamDetailSheet.tsx:93` passes a user's id where
  the service wants the row's, to an endpoint for captains; and the list it is
  taken from has no ids. A team that an organiser creates
  (`useTeamCrud`) has the organiser for its captain.
- A page whose reload failed goes on showing the error after the next one has
  succeeded. A load that joins one under way may show the state from before the
  write that caused it. `usePaginatedTeams` does neither join nor drop late
  answers. The selection of the review page survives reloads, and when one of a
  bulk fails nothing is reloaded or cleared.

Groups:

- A group of three legs or more plays two (`group_match_generation.go:97`;
  nothing bounds `legs`).
- The champion of a Swiss system is read from the standings, which the last
  result may not have reached yet (`swiss_tournament_service.go:229-298`); two
  polls can crown two teams. The comment at `:266-267` says that the first of the
  table is crowned (`ChampionIsFirst` with `SwissScores <- EitherWins`). A system with one undecided team left never ends:
  no round can be made for it (`SwissEnds` names that case).
- A recalculation that finds the lock taken is given up, so the table may stay
  behind until the next result, and a round made from it pairs teams that are
  through or out already. `src/Docs/09-feature-specs.md:187` says that standings are
  updated after every match (`StandingsFollowResults`). A penalty set while one is under way can be
  overwritten by it.
- Two requests for a round make it twice, and a request that fails between two
  inserts leaves the round number behind, so that the next makes them again, with
  a second bye in an odd field (`OneByeInARound` with `Faults = {"error"}` and a
  mishap in a Swiss system of three).
- A recalculation that fails half way leaves a table of old and new rows until the
  next one, and nothing asks for it. The lock of a recalculation carries no owner:
  one that has run out is deleted by the slow holder under the next one's feet.
- Putting a match live does not look at its status; of two results for one
  match the later wins; a reset of a Swiss group leaves scheduled matches
  without an opponent where there were byes. A match of several games takes
  one: the next is refused, since the first completed it.
- Advancing a stage enrols all teams of the tournament in a Swiss group, takes
  the qualified of all groups (`stage_id` is never set), and may be repeated.
  A playoff of three groups with two qualified each lets two teams of one group
  meet at once; with nine or ten teams it has a second-round match that nobody
  reaches.

The life cycle:

- `Update` and `SetChampion` of a tournament write back the whole row they read;
  the event scheduler (`cmd/server/main.go:209-226`) writes the status of what
  it listed before. A change in between is lost.
- The cached list of tournaments has a key without the event
  (`listCacheKey`), so an event that is finished may complete the tournaments
  of another one (`event_handler.go:371-425`), cancelled ones included.
- Points are distributed by a delete and an insert with no constraint behind
  them (migration 0061): two requests at once may leave them doubled.

## 8. Plan

Written in this order; each module was checked before it was proved about.

1. *Done.* `MatchRow`, `BracketGen`, `Bracket`, `BracketSetup`,
   `SubmissionQueue`, `JobLedger`, `SubmissionReview` with their runs,
   `BracketProofs`, `QueueProofs`, `ReviewProofs`.
2. *Done.* Sessions (`Session`, `SessionProofs`); teams, invites and
   registration with their pages (`Enrolment`, `EnrolmentProofs`); a group in
   play (`GroupTable`, `GroupStage`, `GroupProofs`).
3. Review: edits of a pending submission and the match reset (both race with
   the application), locks that expire, failing calls.
4. `Completion`: CompleteMatch in its single statements, for two matches that
   feed one, with the per-match lock, crashes and failing calls; `Bracket`'s
   atomic completion as the abstract specification. Properties: a slot is never
   lost, standings are not overwritten, a crash leaves nothing that a second
   request cannot finish.
5. The playoff bracket and the stages, on `BracketGen` and `GroupStage`.
6. The life cycle of a tournament and of an event, with the event scheduler and
   the cached list.
7. Proofs. *Done:* generation for any field (`EveryPairOnce`, round 1,
   the byes, the seeds, `FitToPlay`); the structural invariants of play from
   `BracketFits`; `SeriesEarned`; `CalendarIsFair` and `RoundFromTheTable`.
   *Left:* `BracketShape` and `GeneratedShape` of generated brackets; that
   `Completion` without overlap implements `Bracket`.
