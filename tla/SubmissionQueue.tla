-------------------------- MODULE SubmissionQueue ---------------------------
(***************************************************************************)
(* The Redis Stream of result submissions (internal/queue): the handler    *)
(* that enqueues a job, the consumer group, the pool of workers with their *)
(* retries and the dead-letter stream, and what happens to jobs when a     *)
(* call to Redis or to the database fails, when the server is shut down,   *)
(* killed and started again.                                               *)
(*                                                                         *)
(* A job is its stream id; Redis gives ids in increasing order, so 1, 2, ..  *)
(* stand for them and the stream is the interval 1..last.  XREADGROUP ">"  *)
(* moves the group's cursor over it.                                       *)
(***************************************************************************)
EXTENDS Naturals, FiniteSets

CONSTANTS
    Worker,      \* the goroutines of the pool
    Claim,       \* (match, team) pairs that jobs submit a result for
    BatchSize,   \* COUNT of XREADGROUP
    MaxRetries,  \* attempts at one job
    MaxJobs,     \* bound on the jobs enqueued
    MaxStarts,   \* bound on the starts of the server
    Faults       \* what may go wrong

ASSUME Sizes == BatchSize \in Nat \ {0} /\ MaxRetries \in Nat \ {0} /\ MaxJobs \in Nat

\* error:  the service refuses a job or the database fails before the insert
\* late:   the insert is committed, but its answer is lost
\* redis:  XACK, XADD and SET may fail
\* stop:   SIGTERM           kill:  the process dies
\* replay: the consumer group is made anew, from the beginning of the stream
ASSUME FaultsKnown == Faults \subseteq {"error", "late", "redis", "stop", "kill", "replay"}

VARIABLES
    last,       \* id of the newest entry
    claim,      \* claim[j], the data of entry j
    cursor,     \* last-delivered-id of the group
    pending,    \* the group's pending entries list
    processed,  \* jobs with a key job:processed:<id>
    dlq,        \* the dead-letter stream: job and reason
    worker,     \* the goroutines' local state
    server,     \* "running", "stopping" (serverCtx cancelled) or "down"
    starts,
    open,       \* claims with a pending match_submission
    submitted,  \* how many match_submissions a job has made
    unanswered  \* the jobs whose worker took an insert that was made for failed;
                \* only properties look at it

redisVars == <<last, claim, cursor, pending, processed, dlq>>
dbVars == <<open, submitted, unanswered>>
vars == <<redisVars, worker, server, starts, dbVars>>

Job == 1..MaxJobs

Phases == {"idle", "reading", "dispatch", "backoff", "ack", "mark", "nack", "nackAck"}

Reasons == {"exhausted", "shutdown"}

\* job is the one in hand unless idle, todo the rest of its batch.
Goroutine == [phase : Phases, job : Job \union {0}, todo : SUBSET Job,
              attempt : Nat, reason : Reasons]

Fresh == [phase |-> "idle", job |-> 0, todo |-> {}, attempt |-> 0, reason |-> "exhausted"]

TypeOK ==
    /\ last \in 0..MaxJobs
    /\ claim \in [Job -> Claim]
    /\ cursor \in 0..last
    /\ pending \in SUBSET Job
    /\ processed \in SUBSET Job
    /\ dlq \in SUBSET (Job \X Reasons)
    /\ worker \in [Worker -> Goroutine]
    /\ server \in {"running", "stopping", "down"}
    /\ starts \in Nat
    /\ open \in SUBSET Claim
    /\ submitted \in [Job -> Nat]
    /\ unanswered \in SUBSET Job

Init ==
    /\ last = 0
    /\ claim \in [Job -> Claim]
    /\ cursor = 0
    /\ pending = {}
    /\ processed = {}
    /\ dlq = {}
    /\ worker = [w \in Worker |-> Fresh]
    /\ server = "running"
    /\ starts = 1
    /\ open = {}
    /\ submitted = [j \in Job |-> 0]
    /\ unanswered = {}

May(fault) == fault \in Faults

\* A Redis call on serverCtx fails once that is cancelled.
CallFails == May("redis") \/ server = "stopping"

Goto(w, phase) == worker' = [worker EXCEPT ![w].phase = phase]

\* The job is done with, whatever became of it.
Drop(w) == worker' = [worker EXCEPT ![w].phase = "idle", ![w].job = 0]

-----------------------------------------------------------------------------
(* Producer *)

\* The claims of the jobs to come are drawn in Init.  Requests under way are
\* still served while the server stops.
Enqueue ==
    /\ server # "down"
    /\ last < MaxJobs
    /\ last' = last + 1
    /\ UNCHANGED <<claim, cursor, pending, processed, dlq, worker, server, starts, dbVars>>

-----------------------------------------------------------------------------
(* Consumers *)

Lesser(a, b) == IF a < b THEN a ELSE b

\* The loop reads only between batches and only before the context is
\* cancelled; XREADGROUP then blocks for up to two seconds.
BeginRead(w) ==
    /\ server = "running"
    /\ worker[w].phase = "idle" /\ worker[w].todo = {}
    /\ Goto(w, "reading")
    /\ UNCHANGED <<redisVars, server, starts, dbVars>>

\* Mutant: the batch is whatever is pending, as after XREADGROUP "0".
ReadPending(w) ==
    /\ server # "down"
    /\ worker[w].phase = "reading"
    /\ cursor < last
    /\ cursor' = last
    /\ pending' = pending \union (cursor + 1)..last
    /\ worker' = [worker EXCEPT ![w].phase = "idle", ![w].todo = pending']
    /\ UNCHANGED <<last, claim, processed, dlq, server, starts, dbVars>>

\* The calls that go through for a set of jobs, one call each.
Reached(jobs) == IF CallFails THEN SUBSET jobs ELSE {jobs}

\* Entries already processed are skipped and acknowledged: one EXISTS and one
\* XACK for each of them.
ReadBatch(w) ==
    LET upto  == Lesser(cursor + BatchSize, last)
        batch == (cursor + 1)..upto
    IN  /\ server # "down"
        /\ worker[w].phase = "reading"
        /\ cursor < last
        /\ cursor' = upto
        /\ \E skipped \in Reached(batch \intersect processed) :
              /\ \E acked \in Reached(skipped) : pending' = (pending \union batch) \ acked
              /\ worker' = [worker EXCEPT ![w].phase = "idle", ![w].todo = batch \ skipped]
        /\ UNCHANGED <<last, claim, processed, dlq, server, starts, dbVars>>

\* Nothing came within the block, or the entries are delivered and the answer is lost.
ReadNothing(w) ==
    /\ server # "down"
    /\ worker[w].phase = "reading"
    /\ Goto(w, "idle")
    /\ \/ cursor = last /\ UNCHANGED <<cursor, pending>>
       \/ /\ May("redis") /\ cursor < last
          /\ cursor' = Lesser(cursor + BatchSize, last)
          /\ pending' = pending \union (cursor + 1)..cursor'
    /\ UNCHANGED <<last, claim, processed, dlq, server, starts, dbVars>>

\* Mutant: the job is marked as processed when it is taken up.
NextJobMarks(w) ==
    /\ server # "down"
    /\ worker[w].phase = "idle"
    /\ \E j \in worker[w].todo :
          /\ processed' = processed \union {j}
          /\ worker' = [worker EXCEPT ![w].phase = "dispatch", ![w].job = j,
                                      ![w].todo = @ \ {j}, ![w].attempt = 1]
    /\ UNCHANGED <<last, claim, cursor, pending, dlq, server, starts, dbVars>>

\* The batch is worked off in stream order, after a cancellation too.
NextJob(w) ==
    /\ server # "down"
    /\ worker[w].phase = "idle"
    /\ \E j \in worker[w].todo :
          /\ \A k \in worker[w].todo : j <= k
          /\ worker' = [worker EXCEPT ![w].phase = "dispatch", ![w].job = j,
                                      ![w].todo = @ \ {j}, ![w].attempt = 1]
    /\ UNCHANGED <<redisVars, server, starts, dbVars>>

\* The service inserts unless the team has a pending submission for the
\* match, which uniq_pending_bracket_submission also forbids.
Insert(j) ==
    /\ claim[j] \notin open
    /\ open' = open \union {claim[j]}
    /\ submitted' = [submitted EXCEPT ![j] = @ + 1]

\* Mutant: after the last attempt the job is dropped.
FailedDropped(w) ==
    worker' = [worker EXCEPT
                 ![w].phase = IF worker[w].attempt < MaxRetries THEN "backoff" ELSE "idle",
                 ![w].job   = IF worker[w].attempt < MaxRetries THEN @ ELSE 0]

\* After an error: wait for the next attempt, or give up.
Failed(w) ==
    worker' = [worker EXCEPT
                 ![w].phase  = IF worker[w].attempt < MaxRetries THEN "backoff" ELSE "nack",
                 ![w].reason = "exhausted"]

\* The INSERT runs on serverCtx: one that the shutdown cancels may have been
\* committed and is reported as failed all the same.
Dispatch(w) ==
    LET j == worker[w].job
    IN  /\ server # "down"
        /\ worker[w].phase = "dispatch"
        /\ \/ Insert(j) /\ Goto(w, "ack") /\ UNCHANGED unanswered
           \/ /\ May("late") \/ server = "stopping"
              /\ Insert(j)
              /\ Failed(w)
              /\ unanswered' = unanswered \union {j}
           \/ /\ May("error") \/ server = "stopping" \/ claim[j] \in open
              /\ Failed(w)
              /\ UNCHANGED dbVars
        /\ UNCHANGED <<redisVars, server, starts>>

Retry(w) ==
    /\ server # "down"
    /\ worker[w].phase = "backoff"
    /\ worker' = [worker EXCEPT ![w].phase = "dispatch", ![w].attempt = @ + 1]
    /\ UNCHANGED <<redisVars, server, starts, dbVars>>

\* The cancelled context wakes a worker that waits.
Interrupt(w) ==
    /\ server = "stopping"
    /\ worker[w].phase = "backoff"
    /\ worker' = [worker EXCEPT ![w].phase = "nack", ![w].reason = "shutdown"]
    /\ UNCHANGED <<redisVars, server, starts, dbVars>>

\* Mutant: a failed XACK counts as a failed attempt.
AckRetries(w) ==
    /\ server # "down"
    /\ worker[w].phase = "ack"
    /\ \/ pending' = pending \ {worker[w].job} /\ Goto(w, "mark")
       \/ CallFails /\ Failed(w) /\ UNCHANGED pending
    /\ UNCHANGED <<last, claim, cursor, processed, dlq, server, starts, dbVars>>

\* XACK after success.
Ack(w) ==
    /\ server # "down"
    /\ worker[w].phase = "ack"
    /\ \/ pending' = pending \ {worker[w].job} /\ Goto(w, "mark")
       \/ CallFails /\ Drop(w) /\ UNCHANGED pending
    /\ UNCHANGED <<last, claim, cursor, processed, dlq, server, starts, dbVars>>

MarkProcessed(w) ==
    /\ server # "down"
    /\ worker[w].phase = "mark"
    /\ Drop(w)
    /\ \/ processed' = processed \union {worker[w].job}
       \/ CallFails /\ UNCHANGED processed
    /\ UNCHANGED <<last, claim, cursor, pending, dlq, server, starts, dbVars>>

\* Mutants: the acknowledgement does not wait for the dead letter; the worker
\* goes on with the next attempt.
NackUnwritten(w) ==
    /\ server # "down"
    /\ worker[w].phase = "nack"
    /\ Goto(w, "nackAck")
    /\ dlq' = IF May("redis") THEN dlq ELSE dlq \union {<<worker[w].job, worker[w].reason>>}
    /\ UNCHANGED <<last, claim, cursor, pending, processed, server, starts, dbVars>>

NackThenRetry(w) ==
    /\ server # "down"
    /\ worker[w].phase = "nack"
    /\ dlq' = dlq \union {<<worker[w].job, worker[w].reason>>}
    /\ Goto(w, "backoff")
    /\ UNCHANGED <<last, claim, cursor, pending, processed, server, starts, dbVars>>

\* Nack, on a context of its own: first the dead-letter stream, then XACK.
Nack(w) ==
    /\ server # "down"
    /\ worker[w].phase = "nack"
    /\ \/ /\ dlq' = dlq \union {<<worker[w].job, worker[w].reason>>}
          /\ Goto(w, "nackAck")
       \/ May("redis") /\ Drop(w) /\ UNCHANGED dlq
    /\ UNCHANGED <<last, claim, cursor, pending, processed, server, starts, dbVars>>

NackAck(w) ==
    /\ server # "down"
    /\ worker[w].phase = "nackAck"
    /\ Drop(w)
    /\ \/ pending' = pending \ {worker[w].job}
       \/ May("redis") /\ UNCHANGED pending
    /\ UNCHANGED <<last, claim, cursor, processed, dlq, server, starts, dbVars>>

-----------------------------------------------------------------------------
(* The rest of the system *)

\* A pending submission is verified or rejected; the series may go on.
Verify(c) ==
    /\ c \in open
    /\ open' = open \ {c}
    /\ UNCHANGED <<redisVars, worker, server, starts, submitted, unanswered>>

\* The dedup key lives for ten minutes.
Expire(j) ==
    /\ j \in processed
    /\ processed' = processed \ {j}
    /\ UNCHANGED <<last, claim, cursor, pending, dlq, worker, server, starts, dbVars>>

\* main cancels the context and does not wait for the workers.
Shutdown ==
    /\ May("stop")
    /\ server = "running"
    /\ server' = "stopping"
    /\ UNCHANGED <<redisVars, worker, starts, dbVars>>

Exit ==
    /\ server = "stopping" \/ (May("kill") /\ server = "running")
    /\ server' = "down"
    /\ worker' = [w \in Worker |-> Fresh]
    /\ UNCHANGED <<redisVars, starts, dbVars>>

\* EnsureConsumerGroup finds its group, cursor and pending list as they were.
Start ==
    /\ server = "down"
    /\ starts < MaxStarts
    /\ server' = "running"
    /\ starts' = starts + 1
    /\ UNCHANGED <<redisVars, worker, dbVars>>

\* The group was lost while the server was down: it is created from "0".
StartReplaying ==
    /\ May("replay")
    /\ server = "down"
    /\ starts < MaxStarts
    /\ server' = "running"
    /\ starts' = starts + 1
    /\ cursor' = 0
    /\ pending' = {}
    /\ UNCHANGED <<last, claim, processed, dlq, worker, dbVars>>

Consume(w) ==
    \/ BeginRead(w) \/ ReadBatch(w) \/ ReadNothing(w) \/ NextJob(w) \/ Dispatch(w) \/ Retry(w) \/ Interrupt(w)
    \/ Ack(w) \/ MarkProcessed(w) \/ Nack(w) \/ NackAck(w)

Next ==
    \/ Enqueue
    \/ \E w \in Worker : Consume(w)
    \/ \E c \in Claim : Verify(c)
    \/ \E j \in Job : Expire(j)
    \/ Shutdown \/ Exit \/ Start \/ StartReplaying

Spec == Init /\ [][Next]_vars

\* The goroutines run, and a server that is down is started again.
FairSpec == Spec /\ \A w \in Worker : WF_vars(Consume(w)) /\ WF_vars(Start)

-----------------------------------------------------------------------------
(* Properties *)

Dead(j) == \E r \in Reasons : <<j, r>> \in dlq

Settled(j) == submitted[j] > 0 \/ Dead(j)

\* The jobs a goroutine holds.
InHand(w) == worker[w].todo \union ({worker[w].job} \ {0})

\* No job vanishes: what the group has delivered and no longer lists as
\* pending was submitted or is in the dead-letter stream.  This is why Nack
\* writes there before it acknowledges, and why an acknowledgement waits for
\* the submission.
NothingVanishes == \A j \in 1..cursor : j \in pending \/ Settled(j)

\* Two workers never hold the same job, across shutdowns and crashes.
OneWorkerPerJob ==
    \A v, w \in Worker : v # w => InHand(v) \intersect InHand(w) = {}

\* A job that was given up is out of every worker's hands for good, so that
\* an organiser who handles the dead letter does not race a late retry.
DeadMeansOver ==
    \A w \in Worker : Dead(worker[w].job) => worker[w].phase = "nackAck"

\* A job makes at most one match_submission, and at most one in each attempt
\* when an insert that was made has been taken for a failed one: no redelivery,
\* no restart and no failed acknowledgement makes another.
SubmittedOnce ==
    \A j \in Job : submitted[j] <= IF j \in unanswered THEN MaxRetries ELSE 1

\* Every job that waits in the stream is submitted or dead-lettered in the end,
\* unless the server is stopped first; after a restart this holds again of the
\* jobs that no worker had been given.
EveryJobSettles ==
    \A j \in Job : (cursor < j /\ j <= last) ~> (Settled(j) \/ server # "running")

\* "NACK the job so it gets re-delivered properly on next startup": a job that
\* a shutdown sent back comes into a worker's hands again.
InterruptedJobsReturn ==
    \A j \in Job :
        (<<j, "shutdown">> \in dlq /\ server = "down" /\ starts < MaxStarts)
            ~> (\E w \in Worker : j \in InHand(w))

\* The state of a job in the ledger; a job submitted twice, or submitted and
\* dead-lettered, has none, unless it was once submitted without an answer.
Entry(j) ==
    CASE j > last -> "none"
      [] j <= last /\ submitted[j] = 0 /\ ~Dead(j) -> "accepted"
      [] j <= last /\ submitted[j] = 0 /\ Dead(j)  -> "dead"
      [] j <= last /\ submitted[j] > 0 /\ j \in unanswered -> "unanswered"
      [] j <= last /\ submitted[j] = 1 /\ j \notin unanswered /\ ~Dead(j) -> "submitted"
      [] OTHER -> "botched"

Ledger == INSTANCE JobLedger WITH ledger <- [j \in Job |-> Entry(j)]

\* The queue implements the ledger of its jobs: each is accepted once and
\* settled once, in one way, and in doubt is only what the database did not
\* answer for.
ImplementsLedger == Ledger!LedgerSpec
=============================================================================
