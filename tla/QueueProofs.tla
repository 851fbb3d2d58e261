----------------------------- MODULE QueueProofs -----------------------------
(***************************************************************************)
(* Proofs about SubmissionQueue for every number of workers, jobs and      *)
(* retries and every batch size.                                           *)
(*                                                                         *)
(* The inductive invariant Book keeps account of each job by the place it  *)
(* is in: not yet delivered, in one worker's hands (and, from its phase,   *)
(* how far), or settled.  What a job's phase says about submitted and dlq  *)
(* is what the properties need and do not say themselves.                  *)
(***************************************************************************)
EXTENDS SubmissionQueue, TLAPS

Busy == {"dispatch", "backoff", "ack", "mark", "nack", "nackAck"}

\* A goroutine has a job exactly while it works on one.
JobInHand ==
    \A w \in Worker :
        /\ worker[w].phase \in Busy => worker[w].job \in Job
        /\ worker[w].phase \notin Busy => worker[w].job = 0

\* What a goroutine has done for its job by the time it acknowledges it.
Witnessed ==
    /\ \A w \in Worker :
          /\ worker[w].phase \in {"ack", "mark"} => submitted[worker[w].job] > 0
          /\ worker[w].phase = "nackAck" => Dead(worker[w].job)
    /\ \A j \in processed : submitted[j] > 0

\* The jobs in hand were delivered, and each is in one place.
InPlace ==
    \A w \in Worker :
        /\ InHand(w) \subseteq 1..cursor
        /\ worker[w].job \notin worker[w].todo
        /\ \A v \in Worker : v # w => InHand(v) \intersect InHand(w) = {}
        /\ server = "down" => InHand(w) = {}

-----------------------------------------------------------------------------
(* Types *)

\* A batch consists of jobs.
LEMMA UptoType ==
    ASSUME TypeOK
    PROVE  /\ Lesser(cursor + BatchSize, last) \in 0..last
           /\ (cursor + 1)..Lesser(cursor + BatchSize, last) \subseteq Job
BY Sizes DEF TypeOK, Lesser, Job

\* Each step of a goroutine keeps the types and JobInHand.
LEMMA ConsumeType ==
    ASSUME TypeOK, JobInHand, NEW w \in Worker, Consume(w)
    PROVE  TypeOK' /\ JobInHand'
<1> USE DEF Goto, Drop, Phases, Reasons, Busy, Goroutine, redisVars, dbVars
<1>0. worker[w] \in Goroutine
  BY DEF TypeOK
<1>1. CASE BeginRead(w)
  BY <1>0, <1>1 DEF TypeOK, JobInHand, BeginRead
<1>2. CASE ReadBatch(w)
  <2>1. PICK skipped \in SUBSET Job, acked \in SUBSET Job :
          /\ acked \subseteq skipped
          /\ cursor' = Lesser(cursor + BatchSize, last)
          /\ pending' = (pending \union (cursor + 1)..cursor') \ acked
          /\ worker' = [worker EXCEPT ![w].phase = "idle",
                                      ![w].todo = (cursor + 1)..cursor' \ skipped]
    BY <1>2, UptoType DEF ReadBatch, Reached, TypeOK
  <2> QED
    BY <1>0, <1>2, <2>1, UptoType DEF ReadBatch, TypeOK, JobInHand
<1>3. CASE ReadNothing(w)
  BY <1>0, <1>3, UptoType DEF TypeOK, JobInHand, ReadNothing
<1>4. CASE NextJob(w)
  BY <1>0, <1>4 DEF TypeOK, JobInHand, NextJob
<1>5. CASE Dispatch(w)
  <2>1. worker[w].job \in Job
    BY <1>5 DEF Dispatch, JobInHand
  <2>2. /\ worker' \in [Worker -> Goroutine]
        /\ JobInHand'
    BY <1>0, <1>5, <2>1 DEF TypeOK, JobInHand, Dispatch, Insert, Failed
  <2>3. /\ open' \in SUBSET Claim
        /\ submitted' \in [Job -> Nat]
        /\ unanswered' \in SUBSET Job
    BY <1>5, <2>1 DEF TypeOK, Dispatch, Insert
  <2> QED
    BY <1>5, <2>2, <2>3 DEF TypeOK, Dispatch
<1>6. CASE Retry(w)
  BY <1>0, <1>6 DEF TypeOK, JobInHand, Retry
<1>7. CASE Interrupt(w)
  BY <1>0, <1>7 DEF TypeOK, JobInHand, Interrupt
<1>8. CASE Ack(w)
  BY <1>0, <1>8 DEF TypeOK, JobInHand, Ack
<1>9. CASE MarkProcessed(w)
  BY <1>0, <1>9 DEF TypeOK, JobInHand, MarkProcessed
<1>10. CASE Nack(w)
  BY <1>0, <1>10 DEF TypeOK, JobInHand, Nack
<1>11. CASE NackAck(w)
  BY <1>0, <1>11 DEF TypeOK, JobInHand, NackAck
<1> QED
  BY <1>1, <1>2, <1>3, <1>4, <1>5, <1>6, <1>7, <1>8, <1>9, <1>10, <1>11 DEF Consume

\* Every step keeps the types and JobInHand.
LEMMA TypeStep ==
    ASSUME TypeOK, JobInHand, [Next]_vars
    PROVE  TypeOK' /\ JobInHand'
<1> USE DEF redisVars, dbVars
<1>1. CASE Enqueue
  BY <1>1, Sizes DEF TypeOK, JobInHand, Enqueue
<1>2. ASSUME NEW w \in Worker, Consume(w) PROVE TypeOK' /\ JobInHand'
  BY <1>2, ConsumeType
<1>3. ASSUME NEW c \in Claim, Verify(c) PROVE TypeOK' /\ JobInHand'
  BY <1>3 DEF TypeOK, JobInHand, Verify
<1>4. ASSUME NEW j \in Job, Expire(j) PROVE TypeOK' /\ JobInHand'
  BY <1>4 DEF TypeOK, JobInHand, Expire
<1>5. CASE Shutdown
  BY <1>5 DEF TypeOK, JobInHand, Shutdown
<1>6. CASE Exit
  BY <1>6 DEF TypeOK, JobInHand, Exit, Fresh, Goroutine, Phases, Reasons, Busy
<1>7. CASE Start \/ StartReplaying
  BY <1>7 DEF TypeOK, JobInHand, Start, StartReplaying
<1>8. CASE UNCHANGED vars
  BY <1>8 DEF TypeOK, JobInHand, vars
<1> QED
  BY <1>1, <1>2, <1>3, <1>4, <1>5, <1>6, <1>7, <1>8 DEF Next

-----------------------------------------------------------------------------
(* The account of jobs *)

\* Each step of a goroutine keeps its witness and loses no job.
LEMMA ConsumeKeeps ==
    ASSUME TypeOK, JobInHand, Witnessed, NothingVanishes,
           NEW w \in Worker, Consume(w)
    PROVE  Witnessed' /\ NothingVanishes'
<1> USE DEF Goto, Drop, Settled, Dead, Goroutine, redisVars, dbVars
<1>0. worker \in [Worker -> Goroutine] /\ cursor \in Nat /\ last \in Nat
  BY DEF TypeOK
<1>1. CASE BeginRead(w)
  BY <1>0, <1>1 DEF Witnessed, NothingVanishes, BeginRead
<1>2. CASE ReadBatch(w)
  <2>1. PICK skipped \in SUBSET processed, acked \in SUBSET processed :
          /\ acked \subseteq skipped
          /\ cursor' = Lesser(cursor + BatchSize, last)
          /\ pending' = (pending \union (cursor + 1)..cursor') \ acked
          /\ worker' = [worker EXCEPT ![w].phase = "idle",
                                      ![w].todo = (cursor + 1)..cursor' \ skipped]
    BY <1>2 DEF ReadBatch, Reached
  <2>2. Witnessed'
    <3>1. worker'[w].phase = "idle" /\ \A v \in Worker \ {w} : worker'[v] = worker[v]
      BY <1>0, <2>1
    <3>2. UNCHANGED <<processed, submitted, dlq>>
      BY <1>2 DEF ReadBatch
    <3> QED
      BY <3>1, <3>2 DEF Witnessed
  <2>3. ASSUME NEW j \in 1..cursor' PROVE j \in pending' \/ Settled(j)'
    <3>1. j \in 1..cursor \/ j \in (cursor + 1)..cursor'
      BY <1>0, <2>1, UptoType
    <3>2. j \in pending \union (cursor + 1)..cursor' \/ Settled(j)
      BY <3>1 DEF NothingVanishes
    <3>3. Settled(j)' <=> Settled(j)
      BY <1>2 DEF ReadBatch
    <3>4. j \in acked => Settled(j)
      BY DEF Witnessed
    <3> QED
      BY <2>1, <3>2, <3>3, <3>4
  <2> QED
    BY <2>2, <2>3 DEF NothingVanishes
<1>3. CASE ReadNothing(w)
  <2>1. Witnessed'
    BY <1>0, <1>3 DEF ReadNothing, Witnessed
  <2>2. CASE cursor = last /\ UNCHANGED <<cursor, pending>>
    BY <1>3, <2>1, <2>2 DEF ReadNothing, NothingVanishes
  <2>3. CASE /\ cursor' = Lesser(cursor + BatchSize, last)
             /\ pending' = pending \union (cursor + 1)..cursor'
    <3>1. \A j \in 1..cursor' : j \in 1..cursor \/ j \in (cursor + 1)..cursor'
      BY <1>0, <2>3, UptoType
    <3> QED
      BY <1>3, <2>1, <2>3, <3>1 DEF ReadNothing, NothingVanishes
  <2> QED
    BY <1>3, <2>2, <2>3 DEF ReadNothing
<1>4. CASE NextJob(w)
  BY <1>0, <1>4 DEF Witnessed, NothingVanishes, NextJob
<1>5. CASE Dispatch(w)
  <2>1. worker[w].job \in Job
    BY <1>5 DEF Dispatch, JobInHand, Busy
  <2>2. \A j \in Job : submitted[j] > 0 => submitted'[j] > 0
    BY <1>5 DEF Dispatch, Insert, TypeOK
  <2>3. \A v \in Worker \ {w} : worker'[v] = worker[v]
    BY <1>0, <1>5 DEF Dispatch, Failed
  <2>4. /\ worker'[w].job = worker[w].job
        /\ worker'[w].phase \notin {"mark", "nackAck"}
        /\ worker'[w].phase = "ack" => submitted'[worker[w].job] > 0
    BY <1>0, <1>5, <2>1 DEF Dispatch, Failed, Insert, TypeOK, Goroutine
  <2>5. \A v \in Worker : worker[v].phase \in {"ack", "mark", "nackAck"} => worker[v].job \in Job
    BY DEF JobInHand, Busy
  <2>6. Witnessed'
    BY <1>5, <2>2, <2>3, <2>4, <2>5 DEF Dispatch, Witnessed, TypeOK
  <2>7. 1..cursor \subseteq Job
    BY Sizes DEF TypeOK, Job
  <2>8. NothingVanishes'
    BY <1>5, <2>2, <2>7 DEF Dispatch, NothingVanishes
  <2> QED
    BY <2>6, <2>8
<1>6. CASE Retry(w)
  BY <1>0, <1>6 DEF Witnessed, NothingVanishes, Retry
<1>7. CASE Interrupt(w)
  BY <1>0, <1>7 DEF Witnessed, NothingVanishes, Interrupt
<1>8. CASE Ack(w)
  <2>1. /\ UNCHANGED <<cursor, processed, submitted, dlq>>
        /\ pending \subseteq pending' \union {worker[w].job}
        /\ submitted[worker[w].job] > 0
    BY <1>8 DEF Ack, Witnessed
  <2>2. /\ \A v \in Worker \ {w} : worker'[v] = worker[v]
        /\ \/ worker'[w].phase = "mark" /\ worker'[w].job = worker[w].job
           \/ worker'[w].phase = "idle"
    BY <1>0, <1>8 DEF Ack
  <2>3. Witnessed'
    BY <2>1, <2>2 DEF Witnessed
  <2>4. NothingVanishes'
    BY <2>1 DEF NothingVanishes
  <2> QED
    BY <2>3, <2>4
<1>9. CASE MarkProcessed(w)
  BY <1>0, <1>9 DEF Witnessed, NothingVanishes, MarkProcessed
<1>10. CASE Nack(w)
  <2>1. worker[w].job \in Job
    BY <1>10 DEF Nack, JobInHand, Busy
  <2>2. \A j \in Job : Dead(j) => Dead(j)'
    BY <1>10 DEF Nack
  <2>3. \A v \in Worker \ {w} : worker'[v] = worker[v]
    BY <1>0, <1>10 DEF Nack
  <2>4. worker'[w].phase \in {"nackAck", "idle"}
    BY <1>0, <1>10 DEF Nack
  <2>5. (worker[w].phase = "nackAck" => Dead(worker[w].job))'
    <3>1. CASE Drop(w)
      BY <1>0, <3>1
    <3>2. CASE dlq' = dlq \union {<<worker[w].job, worker[w].reason>>} /\ Goto(w, "nackAck")
      <4>1. worker[w].reason \in Reasons /\ worker'[w].job = worker[w].job
        BY <1>0, <3>2
      <4> QED
        BY <3>2, <4>1
    <3> QED
      BY <1>10, <3>1, <3>2 DEF Nack
  <2>6. \A v \in Worker : worker[v].phase = "nackAck" => worker[v].job \in Job
    BY DEF JobInHand, Busy
  <2>7. Witnessed'
    <3>1. UNCHANGED <<processed, submitted>>
      BY <1>10 DEF Nack
    <3> HIDE DEF Dead
    <3> QED
      BY <2>2, <2>3, <2>4, <2>5, <2>6, <3>1 DEF Witnessed
  <2>8. 1..cursor \subseteq Job
    BY Sizes DEF TypeOK, Job
  <2> QED
    BY <1>10, <2>2, <2>7, <2>8 DEF Nack, NothingVanishes
<1>11. CASE NackAck(w)
  BY <1>0, <1>11 DEF Witnessed, NothingVanishes, NackAck
<1> QED
  BY <1>1, <1>2, <1>3, <1>4, <1>5, <1>6, <1>7, <1>8, <1>9, <1>10, <1>11 DEF Consume

\* A step of a goroutine leaves the others alone.  It fetches a batch from
\* beyond the cursor, or else it holds on to jobs of its own at most; the
\* cursor only moves forward.
LEMMA ConsumeHands ==
    ASSUME TypeOK, JobInHand, InPlace, NEW w \in Worker, Consume(w)
    PROVE  /\ \A v \in Worker \ {w} : worker'[v] = worker[v]
           /\ server # "down" /\ server' = server
           /\ cursor' \in Nat /\ cursor <= cursor'
           /\ worker'[w].job \notin worker'[w].todo
           /\ \/ InHand(w)' \subseteq (cursor + 1)..cursor'
              \/ InHand(w)' \subseteq InHand(w)
<1> USE DEF Goto, Drop, Goroutine, redisVars, dbVars, InHand
<1>0. /\ worker \in [Worker -> Goroutine] /\ cursor \in Nat /\ last \in Nat
      /\ worker[w].job \notin worker[w].todo
      /\ 0 \notin worker[w].todo
  BY DEF TypeOK, InPlace, Job
<1>1. CASE BeginRead(w)
  BY <1>0, <1>1 DEF BeginRead
<1>2. CASE ReadBatch(w)
  <2>1. worker[w].job = 0
    BY <1>2 DEF ReadBatch, JobInHand, Busy
  <2>2. PICK skipped :
          /\ cursor' = Lesser(cursor + BatchSize, last)
          /\ worker' = [worker EXCEPT ![w].phase = "idle",
                                      ![w].todo = (cursor + 1)..cursor' \ skipped]
    BY <1>2 DEF ReadBatch
  <2>3. cursor' \in Nat /\ cursor <= cursor'
    BY <1>0, <1>2, <2>2, Sizes DEF Lesser, ReadBatch
  <2> QED
    BY <1>0, <1>2, <2>1, <2>2, <2>3 DEF ReadBatch
<1>3. CASE ReadNothing(w)
  <2>1. cursor' \in Nat /\ cursor <= cursor'
    BY <1>0, <1>3, Sizes DEF Lesser, ReadNothing
  <2> QED
    BY <1>0, <1>3, <2>1 DEF ReadNothing
<1>4. CASE NextJob(w)
  BY <1>0, <1>4 DEF NextJob
<1>5. CASE Dispatch(w)
  BY <1>0, <1>5 DEF Dispatch, Failed
<1>6. CASE Retry(w)
  BY <1>0, <1>6 DEF Retry
<1>7. CASE Interrupt(w)
  BY <1>0, <1>7 DEF Interrupt
<1>8. CASE Ack(w)
  BY <1>0, <1>8 DEF Ack
<1>9. CASE MarkProcessed(w)
  BY <1>0, <1>9 DEF MarkProcessed
<1>10. CASE Nack(w)
  BY <1>0, <1>10 DEF Nack
<1>11. CASE NackAck(w)
  BY <1>0, <1>11 DEF NackAck
<1> QED
  BY <1>1, <1>2, <1>3, <1>4, <1>5, <1>6, <1>7, <1>8, <1>9, <1>10, <1>11 DEF Consume

\* Every step keeps the jobs in hand apart.
LEMMA InPlaceStep ==
    ASSUME TypeOK, JobInHand, InPlace, [Next]_vars
    PROVE  InPlace'
<1> USE DEF redisVars, dbVars
<1>1. ASSUME NEW w \in Worker, Consume(w) PROVE InPlace'
  <2>1. /\ \A v \in Worker \ {w} : worker'[v] = worker[v]
        /\ server # "down" /\ server' = server
        /\ cursor' \in Nat /\ cursor <= cursor'
        /\ worker'[w].job \notin worker'[w].todo
        /\ \/ InHand(w)' \subseteq (cursor + 1)..cursor'
           \/ InHand(w)' \subseteq InHand(w)
    BY <1>1, ConsumeHands
  <2>2. \A v \in Worker \ {w} : InHand(v)' = InHand(v)
    BY <2>1 DEF InHand
  <2>3. cursor \in Nat
    BY DEF TypeOK
  <2>4. InHand(w)' \subseteq 1..cursor'
    BY <2>1, <2>3 DEF InPlace
  <2>5. \A v \in Worker \ {w} : InHand(v)' \subseteq 1..cursor /\ InHand(v)' \subseteq 1..cursor'
    BY <2>1, <2>2, <2>3 DEF InPlace
  <2>6. \A v \in Worker \ {w} : InHand(v)' \intersect InHand(w)' = {}
    BY <2>1, <2>2, <2>3, <2>5 DEF InPlace
  <2>7. \A u, v \in Worker \ {w} : u # v => InHand(u)' \intersect InHand(v)' = {}
    BY <2>2 DEF InPlace
  <2>8. \A v \in Worker : worker'[v].job \notin worker'[v].todo
    BY <2>1 DEF InPlace
  <2> HIDE DEF InHand
  <2> QED
    BY <2>1, <2>4, <2>5, <2>6, <2>7, <2>8 DEF InPlace
<1>2. CASE Enqueue \/ (\E c \in Claim : Verify(c)) \/ (\E j \in Job : Expire(j)) \/ Shutdown
  BY <1>2 DEF InPlace, InHand, Enqueue, Verify, Expire, Shutdown
<1>3. CASE Exit
  <2>1. \A w \in Worker : InHand(w)' = {} /\ worker'[w].job \notin worker'[w].todo
    BY <1>3 DEF Exit, Fresh, InHand
  <2> QED
    BY <1>3, <2>1 DEF InPlace
<1>4. CASE Start \/ StartReplaying
  <2>1. \A w \in Worker : InHand(w)' = {} /\ worker'[w].job \notin worker'[w].todo
    BY <1>4 DEF Start, StartReplaying, InPlace, InHand
  <2> QED
    BY <2>1 DEF InPlace
<1>5. CASE UNCHANGED vars
  BY <1>5 DEF InPlace, InHand, vars
<1> QED
  BY <1>1, <1>2, <1>3, <1>4, <1>5 DEF Next

\* The steps outside the goroutines keep the witnesses and lose no job.
LEMMA AccountStep ==
    ASSUME TypeOK, JobInHand, Witnessed, NothingVanishes, [Next]_vars
    PROVE  Witnessed' /\ NothingVanishes'
<1> USE DEF Settled, Dead, redisVars, dbVars
<1>1. ASSUME NEW w \in Worker, Consume(w) PROVE Witnessed' /\ NothingVanishes'
  BY <1>1, ConsumeKeeps
<1>2. CASE Enqueue \/ (\E c \in Claim : Verify(c)) \/ Shutdown \/ Start
  BY <1>2 DEF Witnessed, NothingVanishes, Enqueue, Verify, Shutdown, Start
<1>3. CASE \E j \in Job : Expire(j)
  BY <1>3 DEF Witnessed, NothingVanishes, Expire
<1>4. CASE Exit
  <2>1. \A w \in Worker : worker'[w].phase = "idle"
    BY <1>4 DEF Exit, Fresh
  <2> QED
    BY <1>4, <2>1 DEF Exit, Witnessed, NothingVanishes
<1>5. CASE StartReplaying
  <2>1. cursor' = 0 /\ 1..0 = {}
    BY <1>5 DEF StartReplaying
  <2> QED
    BY <1>5, <2>1 DEF StartReplaying, Witnessed, NothingVanishes
<1>6. CASE UNCHANGED vars
  BY <1>6 DEF Witnessed, NothingVanishes, vars
<1> QED
  BY <1>1, <1>2, <1>3, <1>4, <1>5, <1>6 DEF Next

\* The inductive invariant.
Book == TypeOK /\ JobInHand /\ Witnessed /\ NothingVanishes /\ InPlace

\* The account of the jobs holds from the start and at every step.
THEOREM BookKept == Spec => []Book
<1>1. Init => Book
  <2> SUFFICES ASSUME Init PROVE Book
    OBVIOUS
  <2>1. /\ \A w \in Worker : worker[w] = Fresh
        /\ 1..cursor = {}
    BY DEF Init
  <2>2. TypeOK
    BY Sizes DEF Init, TypeOK, Fresh, Goroutine, Phases, Reasons
  <2>3. JobInHand /\ Witnessed /\ NothingVanishes /\ InPlace
    BY <2>1 DEF Init, Fresh, JobInHand, Witnessed, NothingVanishes, InPlace, InHand, Busy
  <2> QED
    BY <2>2, <2>3 DEF Book
<1>2. Book /\ [Next]_vars => Book'
  BY TypeStep, AccountStep, InPlaceStep DEF Book
<1> QED
  BY <1>1, <1>2, PTL DEF Spec

\* Every variable of the queue keeps its type, whatever fails.
THEOREM QueueTypes == Spec => []TypeOK
<1>1. Book => TypeOK
  BY DEF Book
<1> QED
  BY <1>1, BookKept, PTL

\* No delivered job vanishes, whatever fails: it is pending, submitted or in
\* the dead-letter stream.
THEOREM NoJobVanishes == Spec => []NothingVanishes
<1>1. Book => NothingVanishes
  BY DEF Book
<1> QED
  BY <1>1, BookKept, PTL

\* Two goroutines never hold the same job, whatever fails.
THEOREM JobsHeldOnce == Spec => []OneWorkerPerJob
<1>1. Book => OneWorkerPerJob
  BY DEF Book, InPlace, OneWorkerPerJob
<1> QED
  BY <1>1, BookKept, PTL

-----------------------------------------------------------------------------
(* Jobs are settled once, as long as the consumer group is not lost *)

DeadInPlace ==
    \A j \in Job : Dead(j) =>
        /\ j <= cursor
        /\ \A w \in Worker : j \in InHand(w) =>
              j = worker[w].job /\ worker[w].phase = "nackAck"

\* Where a submitted job is in hand, its worker knows, unless it had no answer.
SubmittedInPlace ==
    /\ \A j \in Job : submitted[j] > 0 =>
          /\ j <= cursor
          /\ j \notin unanswered => submitted[j] = 1 /\ ~Dead(j)
          /\ \A w \in Worker : j \in InHand(w) =>
                /\ j = worker[w].job
                /\ j \notin unanswered => worker[w].phase \in {"ack", "mark"}
    /\ \A j \in unanswered : submitted[j] > 0

\* An attempt makes one submission at most.
Counted ==
    /\ \A j \in Job : submitted[j] <= MaxRetries
    /\ \A w \in Worker : worker[w].phase \in Busy =>
          /\ worker[w].attempt \in 1..MaxRetries
          /\ submitted[worker[w].job] <= worker[w].attempt
          /\ worker[w].phase = "dispatch" => submitted[worker[w].job] < worker[w].attempt
          /\ worker[w].phase = "backoff" => worker[w].attempt < MaxRetries

\* A goroutine that has a job goes on with it or drops it, and fetches nothing.
LEMMA Working ==
    ASSUME TypeOK, NEW w \in Worker, Consume(w), worker[w].phase \in Busy
    PROVE  /\ cursor' = cursor
           /\ worker'[w].todo = worker[w].todo
           /\ worker'[w].job \in {0, worker[w].job}
<1>0. worker \in [Worker -> Goroutine]
  BY DEF TypeOK
<1>1. Dispatch(w) \/ Retry(w) \/ Interrupt(w) \/ Ack(w) \/ MarkProcessed(w) \/ Nack(w) \/ NackAck(w)
  BY DEF Consume, BeginRead, ReadBatch, ReadNothing, NextJob, Busy
<1> QED
  BY <1>0, <1>1 DEF Dispatch, Failed, Retry, Interrupt, Ack, MarkProcessed, Nack, NackAck,
     Goto, Drop, Goroutine, redisVars, dbVars

\* A goroutine that acknowledges its job does nothing else with it.
LEMMA Acknowledging ==
    ASSUME TypeOK, NEW w \in Worker, Consume(w),
           worker[w].phase \in {"ack", "mark", "nackAck"}
    PROVE  /\ UNCHANGED <<cursor, dlq, submitted, unanswered>>
           /\ worker'[w].todo = worker[w].todo
           /\ \/ worker'[w].job = 0
              \/ /\ worker[w].phase = "ack" /\ worker'[w].phase = "mark"
                 /\ worker'[w].job = worker[w].job
<1>0. worker \in [Worker -> Goroutine]
  BY DEF TypeOK
<1>1. Ack(w) \/ MarkProcessed(w) \/ NackAck(w)
  BY DEF Consume, BeginRead, ReadBatch, ReadNothing, NextJob, Dispatch, Retry, Interrupt, Nack
<1> QED
  BY <1>0, <1>1 DEF Ack, MarkProcessed, NackAck, Goto, Drop, Goroutine, redisVars, dbVars

\* A step of a goroutine writes a dead letter, a submission or neither.
LEMMA Writing ==
    ASSUME TypeOK, NEW w \in Worker, Consume(w)
    PROVE  \/ UNCHANGED <<dlq, submitted, unanswered>>
           \/ /\ worker[w].phase = "nack"
              /\ dlq' = dlq \union {<<worker[w].job, worker[w].reason>>}
              /\ worker' = [worker EXCEPT ![w].phase = "nackAck"]
              /\ UNCHANGED <<cursor, submitted, unanswered>>
           \/ /\ worker[w].phase = "dispatch"
              /\ submitted' = [submitted EXCEPT ![worker[w].job] = @ + 1]
              /\ UNCHANGED <<cursor, dlq>>
              /\ worker'[w].job = worker[w].job /\ worker'[w].todo = worker[w].todo
              /\ \/ worker'[w].phase = "ack" /\ unanswered' = unanswered
                 \/ unanswered' = unanswered \union {worker[w].job}
<1> USE DEF redisVars, dbVars
<1>0. worker \in [Worker -> Goroutine]
  BY DEF TypeOK
<1>1. CASE Dispatch(w)
  BY <1>0, <1>1 DEF Dispatch, Insert, Goto, Failed, Goroutine
<1>2. CASE Nack(w)
  BY <1>2 DEF Nack, Goto
<1>3. CASE \/ BeginRead(w) \/ ReadBatch(w) \/ ReadNothing(w) \/ NextJob(w) \/ Retry(w)
           \/ Interrupt(w) \/ Ack(w) \/ MarkProcessed(w) \/ NackAck(w)
  BY <1>3 DEF BeginRead, ReadBatch, ReadNothing, NextJob, Retry, Interrupt, Ack,
              MarkProcessed, NackAck
<1> QED
  BY <1>1, <1>2, <1>3 DEF Consume

\* A goroutine's step keeps settled jobs in place.
LEMMA ConsumeSettles ==
    ASSUME Book, DeadInPlace, SubmittedInPlace, NEW w \in Worker, Consume(w)
    PROVE  DeadInPlace' /\ SubmittedInPlace'
<1>1. /\ \A v \in Worker \ {w} : worker'[v] = worker[v]
      /\ cursor' \in Nat /\ cursor <= cursor'
      /\ worker'[w].job \notin worker'[w].todo
      /\ \/ InHand(w)' \subseteq (cursor + 1)..cursor'
         \/ InHand(w)' \subseteq InHand(w)
  BY ConsumeHands DEF Book
<1>2. /\ cursor \in Nat /\ Job \subseteq Nat
      /\ worker \in [Worker -> Goroutine] /\ submitted \in [Job -> Nat]
      /\ worker[w].job \notin worker[w].todo
      /\ \A v \in Worker \ {w} : InHand(v) \intersect InHand(w) = {}
      /\ InHand(w) \subseteq 1..cursor
  BY DEF Book, TypeOK, InPlace, Job
<1>3. \A v \in Worker \ {w} : InHand(v)' = InHand(v)
  BY <1>1 DEF InHand
<1>4. CASE UNCHANGED <<dlq, submitted, unanswered>>
  <2>1. ASSUME NEW j \in Job, Dead(j) \/ submitted[j] > 0, j \in InHand(w)'
        PROVE  /\ ~Dead(j) /\ j \in InHand(w)
               /\ j = worker'[w].job
               /\ j \notin unanswered => worker'[w].phase \in {"ack", "mark"}
    <3>1. j <= cursor
      BY <2>1 DEF DeadInPlace, SubmittedInPlace
    <3>2. j \in InHand(w)
      BY <1>1, <1>2, <2>1, <3>1
    <3>3. j = worker[w].job
      BY <2>1, <3>2 DEF DeadInPlace, SubmittedInPlace
    <3>4. worker[w].phase \in Busy
      BY <2>1, <3>3, <1>2 DEF Book, JobInHand, Job
    <3>5. /\ worker'[w].todo = worker[w].todo
          /\ worker'[w].job \in {0, worker[w].job}
      BY <3>4, Working DEF Book
    <3>6. worker'[w].job = j
      BY <1>2, <2>1, <3>3, <3>5 DEF InHand
    <3>7. 0 \notin Job
      BY DEF Job
    <3>8. ~Dead(j)
      <4>1. Dead(j) => worker[w].phase = "nackAck"
        BY <3>2 DEF DeadInPlace
      <4>2. worker[w].phase = "nackAck" => worker'[w].job = 0
        BY Acknowledging DEF Book
      <4> QED
        BY <3>6, <3>7, <4>1, <4>2
    <3>9. j \notin unanswered => worker'[w].phase \in {"ack", "mark"}
      <4>1. j \notin unanswered => worker[w].phase \in {"ack", "mark"}
        BY <2>1, <3>2, <3>8 DEF SubmittedInPlace
      <4>2. worker[w].phase \in {"ack", "mark"} => worker'[w].job = 0 \/ worker'[w].phase = "mark"
        BY Acknowledging DEF Book
      <4> QED
        BY <3>6, <3>7, <4>1, <4>2
    <3> QED
      BY <3>2, <3>6, <3>8, <3>9
  <2>2. \A j \in Job : Dead(j)' = Dead(j)
    BY <1>4 DEF Dead
  <2> HIDE DEF InHand, Dead
  <2>3. DeadInPlace'
    BY <1>1, <1>2, <1>3, <1>4, <2>1, <2>2 DEF DeadInPlace
  <2>4. SubmittedInPlace'
    BY <1>1, <1>2, <1>3, <1>4, <2>1, <2>2 DEF SubmittedInPlace
  <2> QED
    BY <2>3, <2>4
<1>5. CASE /\ worker[w].phase = "nack"
           /\ dlq' = dlq \union {<<worker[w].job, worker[w].reason>>}
           /\ worker' = [worker EXCEPT ![w].phase = "nackAck"]
           /\ UNCHANGED <<cursor, submitted, unanswered>>
  <2>1. worker[w].job \in Job /\ worker[w].job \in InHand(w)
    BY <1>5 DEF Book, JobInHand, Busy, InHand, Job
  <2>2. submitted[worker[w].job] > 0 => worker[w].job \in unanswered
    BY <1>5, <2>1 DEF SubmittedInPlace
  <2>3. \A j \in Job : Dead(j)' => Dead(j) \/ j = worker[w].job
    BY <1>5 DEF Dead
  <2>4. /\ worker'[w].job = worker[w].job /\ worker'[w].phase = "nackAck"
        /\ InHand(w)' = InHand(w)
    BY <1>2, <1>5 DEF Goroutine, InHand
  <2>5. \A j \in Job : Dead(j) => j \notin InHand(w)
    BY <1>5 DEF DeadInPlace
  <2>6. \A v \in Worker \ {w} : worker[w].job \notin InHand(v)
    BY <1>2, <2>1
  <2>7. worker[w].job <= cursor
    BY <1>2, <2>1
  <2> HIDE DEF InHand, Dead
  <2>9. ASSUME NEW j \in Job, Dead(j)'
        PROVE  /\ j <= cursor
               /\ \A v \in Worker : j \in InHand(v)' =>
                     j = worker'[v].job /\ worker'[v].phase = "nackAck"
    <3>1. CASE j = worker[w].job
      BY <1>3, <2>4, <2>6, <2>7, <3>1
    <3>2. CASE Dead(j)
      BY <1>1, <1>3, <2>4, <2>5, <3>2 DEF DeadInPlace
    <3> QED
      BY <2>3, <2>9, <3>1, <3>2
  <2>10. DeadInPlace'
    BY <1>5, <2>9 DEF DeadInPlace
  <2>11. ASSUME NEW j \in Job, submitted[j] > 0, j \in InHand(w)
         PROVE  j = worker[w].job /\ j \in unanswered
    BY <1>5, <2>11 DEF SubmittedInPlace
  <2>12. SubmittedInPlace'
    BY <1>1, <1>3, <1>5, <2>2, <2>3, <2>4, <2>11 DEF SubmittedInPlace
  <2> QED
    BY <2>10, <2>12
<1>6. CASE /\ worker[w].phase = "dispatch"
           /\ submitted' = [submitted EXCEPT ![worker[w].job] = @ + 1]
           /\ UNCHANGED <<cursor, dlq>>
           /\ worker'[w].job = worker[w].job /\ worker'[w].todo = worker[w].todo
           /\ \/ worker'[w].phase = "ack" /\ unanswered' = unanswered
              \/ unanswered' = unanswered \union {worker[w].job}
  <2>1. worker[w].job \in Job /\ worker[w].job \in InHand(w)
    BY <1>6 DEF Book, JobInHand, Busy, InHand, Job
  <2>2. InHand(w)' = InHand(w)
    BY <1>6 DEF InHand
  <2>3. \A j \in Job : Dead(j) => j \notin InHand(w)
    BY <1>6 DEF DeadInPlace
  <2>4. worker[w].job \notin unanswered => submitted[worker[w].job] = 0
    BY <1>2, <1>6, <2>1 DEF SubmittedInPlace
  <2>5. /\ submitted'[worker[w].job] = submitted[worker[w].job] + 1
        /\ submitted[worker[w].job] \in Nat
        /\ \A j \in Job : j # worker[w].job => submitted'[j] = submitted[j]
    BY <1>2, <1>6, <2>1
  <2>6. \A j \in Job : Dead(j)' = Dead(j)
    BY <1>6 DEF Dead
  <2>7. \A v \in Worker \ {w} : worker[w].job \notin InHand(v)
    BY <1>2, <2>1
  <2>8. worker[w].job <= cursor
    BY <1>2, <2>1
  <2> HIDE DEF InHand, Dead
  <2>9. DeadInPlace'
    BY <1>1, <1>3, <1>6, <2>2, <2>3, <2>6 DEF DeadInPlace
  <2>10. ASSUME NEW j \in Job, submitted'[j] > 0
         PROVE  /\ j <= cursor
                /\ j \notin unanswered' => submitted'[j] = 1 /\ ~Dead(j)
                /\ \A v \in Worker : j \in InHand(v)' =>
                      /\ j = worker'[v].job
                      /\ j \notin unanswered' => worker'[v].phase \in {"ack", "mark"}
    <3>1. CASE j = worker[w].job
      <4>1. ~Dead(j)
        BY <2>1, <2>3, <3>1
      <4>2. j \notin unanswered' => submitted'[j] = 1 /\ worker'[w].phase = "ack"
        BY <1>6, <2>4, <2>5, <3>1
      <4>3. \A v \in Worker : j \in InHand(v)' => v = w
        BY <1>3, <2>7, <3>1
      <4> QED
        BY <1>6, <2>8, <3>1, <4>1, <4>2, <4>3
    <3>2. CASE j # worker[w].job
      <4>1. submitted[j] > 0 /\ submitted'[j] = submitted[j]
        BY <2>5, <2>10, <3>2
      <4>2. j \notin InHand(w)
        BY <3>2, <4>1 DEF SubmittedInPlace
      <4>3. j \in unanswered <=> j \in unanswered'
        BY <1>6, <3>2
      <4>4. /\ j <= cursor
            /\ j \notin unanswered => submitted[j] = 1 /\ ~Dead(j)
        BY <4>1 DEF SubmittedInPlace
      <4>5. \A v \in Worker : j \in InHand(v)' =>
               /\ j = worker'[v].job
               /\ j \notin unanswered => worker'[v].phase \in {"ack", "mark"}
        BY <1>1, <1>3, <2>2, <4>1, <4>2 DEF SubmittedInPlace
      <4> QED
        BY <4>1, <4>3, <4>4, <4>5
    <3> QED
      BY <3>1, <3>2
  <2>11. \A j \in unanswered' : submitted'[j] > 0
    <3>1. unanswered \subseteq Job
      BY DEF Book, TypeOK
    <3> QED
      BY <1>6, <2>1, <2>5, <3>1 DEF SubmittedInPlace
  <2>12. SubmittedInPlace'
    BY <1>6, <2>6, <2>10, <2>11 DEF SubmittedInPlace
  <2> QED
    BY <2>9, <2>12
<1> QED
  BY <1>4, <1>5, <1>6, Writing DEF Book

\* A goroutine's step keeps count of its attempts.
LEMMA ConsumeCounts ==
    ASSUME Book, SubmittedInPlace, Counted, NEW w \in Worker, Consume(w)
    PROVE  Counted'
<1> USE DEF redisVars, dbVars, Goto, Drop, Goroutine
<1>1. /\ worker \in [Worker -> Goroutine] /\ submitted \in [Job -> Nat]
      /\ MaxRetries \in Nat \ {0}
  BY Sizes DEF Book, TypeOK
<1>2. \A v \in Worker : worker[v].phase \in Busy => worker[v].job \in Job
  BY DEF Book, JobInHand
<1>3. CASE Dispatch(w)
  <2>1. worker[w].job \in Job /\ worker[w].phase \in Busy /\ worker[w].phase = "dispatch"
    BY <1>2, <1>3 DEF Dispatch, Busy
  <2>2. /\ \A v \in Worker \ {w} : worker'[v] = worker[v]
        /\ worker'[w].job = worker[w].job /\ worker'[w].attempt = worker[w].attempt
        /\ worker'[w].phase = "backoff" => worker[w].attempt < MaxRetries
        /\ worker'[w].phase # "dispatch"
    BY <1>1, <1>3 DEF Dispatch, Failed
  <2>3. /\ \A j \in Job : j # worker[w].job => submitted'[j] = submitted[j]
        /\ submitted'[worker[w].job] \in {submitted[worker[w].job], submitted[worker[w].job] + 1}
    BY <1>1, <1>3, <2>1 DEF Dispatch, Insert
  <2>4. \A v \in Worker \ {w} : worker[v].phase \in Busy => worker[v].job # worker[w].job
    <3>1. \A v \in Worker \ {w} : InHand(v) \intersect InHand(w) = {}
      BY DEF Book, InPlace
    <3>2. worker[w].job \in InHand(w)
      BY <2>1 DEF InHand, Job
    <3>3. \A v \in Worker : worker[v].phase \in Busy => worker[v].job \in InHand(v)
      BY <1>2 DEF InHand, Job
    <3> HIDE DEF InHand
    <3> QED
      BY <3>1, <3>2, <3>3
  <2>5. /\ submitted'[worker[w].job] <= worker[w].attempt
        /\ worker[w].attempt \in 1..MaxRetries
        /\ submitted'[worker[w].job] <= MaxRetries
    BY <1>1, <2>1, <2>3 DEF Counted
  <2>6. \A j \in Job : submitted'[j] <= MaxRetries
    BY <2>3, <2>5 DEF Counted
  <2>7. ASSUME NEW v \in Worker \ {w}, worker[v].phase \in Busy
        PROVE  submitted'[worker[v].job] = submitted[worker[v].job]
    BY <1>2, <2>3, <2>4, <2>7
  <2> QED
    BY <1>1, <2>2, <2>5, <2>6, <2>7 DEF Counted
<1>4. CASE NextJob(w)
  <2>1. PICK j \in worker[w].todo :
           worker' = [worker EXCEPT ![w].phase = "dispatch", ![w].job = j,
                                    ![w].todo = @ \ {j}, ![w].attempt = 1]
    BY <1>4 DEF NextJob
  <2>2. j \in Job /\ j \in InHand(w) /\ worker[w].job = 0
    BY <1>1, <1>4, <2>1 DEF NextJob, InHand, Job, Book, JobInHand, Busy
  <2>3. ~(submitted[j] > 0)
    BY <2>2 DEF SubmittedInPlace, Job
  <2>4. submitted[j] = 0 /\ submitted' = submitted
    BY <1>1, <1>4, <2>2, <2>3 DEF NextJob
  <2>5. /\ worker'[w].phase = "dispatch" /\ worker'[w].job = j /\ worker'[w].attempt = 1
        /\ \A v \in Worker \ {w} : worker'[v] = worker[v]
    BY <1>1, <2>1
  <2> QED
    BY <1>1, <2>4, <2>5 DEF Counted
<1>5. CASE Retry(w)
  BY <1>1, <1>5 DEF Counted, Retry, Busy
<1>6. CASE BeginRead(w) \/ ReadBatch(w) \/ ReadNothing(w)
  <2>1. /\ submitted' = submitted
        /\ worker'[w].phase \notin Busy
        /\ \A v \in Worker \ {w} : worker'[v] = worker[v]
    BY <1>1, <1>6 DEF BeginRead, ReadBatch, ReadNothing, Busy
  <2> QED
    BY <2>1 DEF Counted
<1>7. CASE Interrupt(w) \/ Ack(w) \/ MarkProcessed(w) \/ Nack(w) \/ NackAck(w)
  <2>1. /\ submitted' = submitted
        /\ worker[w].phase \in Busy
        /\ worker'[w].phase \in {"nack", "mark", "nackAck", "idle"}
        /\ worker'[w].phase # "idle" => /\ worker'[w].job = worker[w].job
                                        /\ worker'[w].attempt = worker[w].attempt
        /\ \A v \in Worker \ {w} : worker'[v] = worker[v]
    BY <1>1, <1>7 DEF Interrupt, Ack, MarkProcessed, Nack, NackAck, Busy
  <2> QED
    BY <2>1 DEF Counted, Busy
<1> QED
  BY <1>3, <1>4, <1>5, <1>6, <1>7 DEF Consume

\* So does every other step, unless the group is made anew.
LEMMA SettledStep ==
    ASSUME Book, DeadInPlace, SubmittedInPlace, Counted, [Next]_vars, "replay" \notin Faults
    PROVE  DeadInPlace' /\ SubmittedInPlace' /\ Counted'
<1> USE DEF redisVars, dbVars
<1>1. ASSUME NEW w \in Worker, Consume(w) PROVE DeadInPlace' /\ SubmittedInPlace' /\ Counted'
  BY <1>1, ConsumeSettles, ConsumeCounts
<1>2. CASE \/ Enqueue \/ (\E c \in Claim : Verify(c)) \/ (\E j \in Job : Expire(j))
           \/ Shutdown \/ Start
  <2>1. UNCHANGED <<cursor, dlq, worker, submitted, unanswered>>
    BY <1>2 DEF Enqueue, Verify, Expire, Shutdown, Start
  <2> QED
    BY <2>1 DEF DeadInPlace, SubmittedInPlace, Counted, Dead, InHand
<1>3. CASE Exit
  <2>1. \A w \in Worker : InHand(w)' = {} /\ worker'[w].phase \notin Busy
    BY <1>3 DEF Exit, Fresh, InHand, Busy
  <2> QED
    BY <1>3, <2>1 DEF Exit, DeadInPlace, SubmittedInPlace, Counted, Dead
<1>4. ~StartReplaying
  BY DEF StartReplaying, May
<1>5. CASE UNCHANGED vars
  BY <1>5 DEF DeadInPlace, SubmittedInPlace, Counted, Dead, InHand, vars
<1> QED
  BY <1>1, <1>2, <1>3, <1>4, <1>5 DEF Next

Settling == Book /\ DeadInPlace /\ SubmittedInPlace /\ Counted

\* Settled jobs stay in place and are counted, unless the group is lost.
THEOREM SettledKept ==
    ASSUME "replay" \notin Faults
    PROVE  Spec => []Settling
<1>1. Init => DeadInPlace /\ SubmittedInPlace /\ Counted
  BY Sizes DEF Init, DeadInPlace, SubmittedInPlace, Counted, Dead, Fresh, Busy
<1>2. Book /\ DeadInPlace /\ SubmittedInPlace /\ Counted /\ [Next]_vars
        => DeadInPlace' /\ SubmittedInPlace' /\ Counted'
  BY SettledStep
<1> QED
  BY <1>1, <1>2, BookKept, PTL DEF Spec, Settling

\* A job that was given up is out of every goroutine's hands for good, lost
\* answers and cancelled calls included.
THEOREM DeadStaysDead ==
    ASSUME "replay" \notin Faults
    PROVE  Spec => []DeadMeansOver
<1>1. Settling => DeadMeansOver
  <2> SUFFICES ASSUME Settling, NEW w \in Worker, Dead(worker[w].job)
               PROVE  worker[w].phase = "nackAck"
    BY DEF DeadMeansOver
  <2>1. worker[w].job \in Job
    BY DEF Settling, Book, TypeOK, Dead
  <2>2. worker[w].job \in InHand(w)
    BY <2>1 DEF InHand, Job
  <2> QED
    BY <2>1, <2>2 DEF Settling, DeadInPlace
<1> QED
  BY <1>1, SettledKept, PTL

\* A job makes at most one submission, or one in each attempt if an insert that
\* was made has been taken for a failed one.
THEOREM OneSubmission ==
    ASSUME "replay" \notin Faults
    PROVE  Spec => []SubmittedOnce
<1>1. Settling => SubmittedOnce
  <2> SUFFICES ASSUME Settling, NEW j \in Job
               PROVE  submitted[j] <= IF j \in unanswered THEN MaxRetries ELSE 1
    BY DEF SubmittedOnce
  <2>1. submitted[j] \in Nat /\ submitted[j] <= MaxRetries
    BY DEF Settling, Book, TypeOK, Counted
  <2>2. submitted[j] > 0 /\ j \notin unanswered => submitted[j] = 1
    BY DEF Settling, SubmittedInPlace
  <2> QED
    BY <2>1, <2>2
<1> QED
  BY <1>1, SettledKept, PTL

-----------------------------------------------------------------------------
(* Refinement *)

\* The refinement mapping.
ledgerBar == [j \in Job |-> Entry(j)]

\* When only one job's entry changes, and as the ledger allows, the step is
\* a step of the ledger.
LEMMA LedgerMove ==
    ASSUME NEW k \in Job,
           \A j \in Job \ {k} : Entry(j)' = Entry(j),
           \/ Entry(k)' = Entry(k)
           \/ Entry(k) = "none" /\ Entry(k)' = "accepted"
           \/ Entry(k) = "accepted" /\ Entry(k)' \in {"submitted", "dead", "unanswered"}
    PROVE  [Ledger!LedgerNext]_ledgerBar
<1> HIDE DEF Entry
<1>1. ledgerBar' = [ledgerBar EXCEPT ![k] = Entry(k)']
  BY DEF ledgerBar
<1>2. CASE Entry(k)' = Entry(k)
  BY <1>2 DEF ledgerBar
<1>3. CASE Entry(k) = "none" /\ Entry(k)' = "accepted"
  <2>1. Ledger!Accept(k)
    BY <1>1, <1>3 DEF Ledger!Accept, ledgerBar, Entry
  <2> QED
    BY <2>1 DEF Ledger!LedgerNext
<1>4. CASE Entry(k) = "accepted" /\ Entry(k)' = "submitted"
  <2>1. Ledger!Submitted(k)
    BY <1>1, <1>4 DEF Ledger!Submitted, ledgerBar, Entry
  <2> QED
    BY <2>1 DEF Ledger!LedgerNext
<1>5. CASE Entry(k) = "accepted" /\ Entry(k)' = "dead"
  <2>1. Ledger!DeadLettered(k)
    BY <1>1, <1>5 DEF Ledger!DeadLettered, ledgerBar, Entry
  <2> QED
    BY <2>1 DEF Ledger!LedgerNext
<1>6. CASE Entry(k) = "accepted" /\ Entry(k)' = "unanswered"
  <2>1. Ledger!Unanswered(k)
    BY <1>1, <1>6 DEF Ledger!Unanswered, ledgerBar, Entry
  <2> QED
    BY <2>1 DEF Ledger!LedgerNext
<1> QED
  BY <1>2, <1>3, <1>4, <1>5, <1>6

\* A goroutine's step is a step of the ledger or a stutter.
LEMMA ConsumeRefines ==
    ASSUME Settling, NEW w \in Worker, Consume(w)
    PROVE  [Ledger!LedgerNext]_ledgerBar
<1>0. last \in Nat /\ cursor \in Nat /\ cursor <= last /\ Job \subseteq Nat
  BY DEF Settling, Book, TypeOK, Job
<1>1. last' = last
  BY DEF Consume, BeginRead, ReadBatch, ReadNothing, NextJob, Dispatch, Retry, Interrupt,
         Ack, MarkProcessed, Nack, NackAck, redisVars
<1>2. CASE UNCHANGED <<dlq, submitted, unanswered>>
  BY <1>1, <1>2 DEF ledgerBar, Entry, Dead
<1>3. InHand(w) \subseteq 1..last
  BY <1>0 DEF Settling, Book, InPlace
<1>4. CASE /\ worker[w].phase = "nack"
           /\ dlq' = dlq \union {<<worker[w].job, worker[w].reason>>}
           /\ UNCHANGED <<submitted, unanswered>>
  <2>0. PICK k \in Job : k = worker[w].job
    BY <1>4 DEF Settling, Book, JobInHand, Busy
  <2>1. k \in InHand(w) /\ worker[w].reason \in Reasons /\ submitted[k] \in Nat
    BY <1>4, <2>0 DEF Settling, Book, InHand, Job, TypeOK, Goroutine
  <2>2. ~Dead(k) /\ (submitted[k] > 0 => k \in unanswered)
    BY <1>4, <2>0, <2>1 DEF Settling, SubmittedInPlace, DeadInPlace
  <2>3. Dead(k)' /\ (\A j \in Job \ {k} : Dead(j)' <=> Dead(j))
    BY <1>4, <2>0, <2>1 DEF Dead
  <2>4. \A j \in Job \ {k} : Entry(j)' = Entry(j)
    BY <1>1, <1>4, <2>3 DEF Entry
  <2>5. k \in Nat /\ k <= last /\ ~(k > last)
    BY <1>0, <1>3, <2>1
  <2> HIDE DEF Dead
  <2>6. CASE submitted[k] = 0
    <3>1. Entry(k) = "accepted" /\ Entry(k)' = "dead"
      BY <1>1, <1>4, <2>2, <2>3, <2>5, <2>6 DEF Entry
    <3> QED
      BY <2>4, <3>1, LedgerMove
  <2>7. CASE submitted[k] > 0
    <3>1. Entry(k) = "unanswered" /\ Entry(k)' = "unanswered"
      BY <1>1, <1>4, <2>1, <2>2, <2>5, <2>7 DEF Entry
    <3> QED
      BY <2>4, <3>1, LedgerMove
  <2> QED
    BY <2>1, <2>6, <2>7
<1>5. CASE /\ worker[w].phase = "dispatch"
           /\ submitted' = [submitted EXCEPT ![worker[w].job] = @ + 1]
           /\ UNCHANGED dlq
           /\ \/ unanswered' = unanswered
              \/ unanswered' = unanswered \union {worker[w].job}
  <2>0. PICK k \in Job : k = worker[w].job
    BY <1>5 DEF Settling, Book, JobInHand, Busy
  <2>1. k \in InHand(w) /\ submitted \in [Job -> Nat]
    BY <1>5, <2>0 DEF Settling, Book, InHand, Job, TypeOK
  <2>2. ~Dead(k) /\ (submitted[k] > 0 => k \in unanswered)
    BY <1>5, <2>0, <2>1 DEF Settling, SubmittedInPlace, DeadInPlace
  <2>3. submitted'[k] = submitted[k] + 1 /\ (\A j \in Job \ {k} : submitted'[j] = submitted[j])
    BY <1>5, <2>0, <2>1
  <2>4. \A j \in Job \ {k} : j \in unanswered' <=> j \in unanswered
    BY <1>5, <2>0
  <2>5. \A j \in Job \ {k} : Entry(j)' = Entry(j)
    BY <1>1, <1>5, <2>3, <2>4 DEF Entry, Dead
  <2>6. k \in Nat /\ k <= last /\ ~(k > last) /\ submitted[k] \in Nat
    BY <1>0, <1>3, <2>1
  <2>7. ~Dead(k)'
    BY <1>5, <2>2 DEF Dead
  <2> HIDE DEF Dead
  <2>8. CASE submitted[k] > 0
    <3>1. k \in unanswered /\ k \in unanswered' /\ submitted'[k] > 0
      BY <1>5, <2>2, <2>3, <2>6, <2>8
    <3>2. Entry(k) = "unanswered" /\ Entry(k)' = "unanswered"
      BY <1>1, <2>6, <2>8, <3>1 DEF Entry
    <3> QED
      BY <2>5, <3>2, LedgerMove
  <2>9. CASE submitted[k] = 0
    <3>1. submitted'[k] = 1
      BY <2>3, <2>9
    <3>2. Entry(k) = "accepted"
      BY <2>2, <2>6, <2>9 DEF Entry
    <3>3. Entry(k)' \in {"submitted", "unanswered"}
      BY <1>1, <2>6, <2>7, <3>1 DEF Entry
    <3> QED
      BY <2>5, <3>2, <3>3, LedgerMove
  <2> QED
    BY <2>6, <2>8, <2>9
<1> QED
  BY <1>2, <1>4, <1>5, Writing DEF Settling, Book

\* A step that leaves last, dlq, submitted and unanswered alone is a stutter.
LEMMA LedgerStutter ==
    ASSUME UNCHANGED <<last, dlq, submitted, unanswered>>
    PROVE  [Ledger!LedgerNext]_ledgerBar
BY DEF ledgerBar, Entry, Dead

\* The queue implements the ledger: every job is accepted once and then
\* either submitted or dead-lettered, once, unless its submission was not
\* answered.
THEOREM QueueImplementsLedger ==
    ASSUME "replay" \notin Faults
    PROVE  Spec => ImplementsLedger
<1>1. Init => Ledger!LedgerInit
  <2> SUFFICES ASSUME Init PROVE Ledger!LedgerInit
    OBVIOUS
  <2>1. \A j \in Job : Entry(j) = "none"
    BY DEF Init, Job, Entry
  <2> QED
    BY <2>1 DEF Ledger!LedgerInit
<1>2. Settling /\ Settling' /\ [Next]_vars => [Ledger!LedgerNext]_ledgerBar
  <2> SUFFICES ASSUME Settling, Settling', [Next]_vars PROVE [Ledger!LedgerNext]_ledgerBar
    OBVIOUS
  <2>1. ASSUME NEW w \in Worker, Consume(w) PROVE [Ledger!LedgerNext]_ledgerBar
    BY <2>1, ConsumeRefines
  <2>2. CASE Enqueue
    <3>1. last \in Nat /\ cursor <= last /\ cursor \in Nat /\ last' = last + 1 /\ last' \in Job
      BY <2>2, Sizes DEF Settling, Book, TypeOK, Enqueue, Job
    <3>2. UNCHANGED <<dlq, submitted, unanswered>>
      BY <2>2 DEF Enqueue, dbVars
    <3>3. PICK k \in Job : k = last + 1
      BY <3>1
    <3>4. submitted[k] = 0 /\ ~Dead(k)
      BY <3>1, <3>3 DEF Settling, Book, TypeOK, SubmittedInPlace, DeadInPlace
    <3>5. Entry(k) = "none" /\ Entry(k)' = "accepted"
      <4>1. /\ k > last /\ ~(k <= last)
            /\ ~(k > last') /\ k <= last'
            /\ submitted'[k] = 0 /\ ~Dead(k)'
        BY <3>1, <3>2, <3>3, <3>4 DEF Dead
      <4> HIDE DEF Dead
      <4>2. Entry(k) = "none"
        BY <4>1 DEF Entry
      <4>3. Entry(k)' = "accepted"
        BY <4>1 DEF Entry
      <4> QED
        BY <4>2, <4>3
    <3>6. \A j \in Job \ {k} : Entry(j)' = Entry(j)
      <4> SUFFICES ASSUME NEW j \in Job \ {k} PROVE Entry(j)' = Entry(j)
        OBVIOUS
      <4>1. (j > last <=> j > last') /\ (j <= last <=> j <= last')
        BY <3>1, <3>3 DEF Job
      <4>2. submitted' = submitted /\ unanswered' = unanswered /\ Dead(j)' = Dead(j)
        BY <3>2 DEF Dead
      <4> HIDE DEF Dead
      <4> QED
        BY <4>1, <4>2 DEF Entry
    <3> QED
      BY <3>5, <3>6, LedgerMove
  <2>3. CASE \/ (\E c \in Claim : Verify(c)) \/ (\E j \in Job : Expire(j))
             \/ Shutdown \/ Exit \/ Start
    <3>1. UNCHANGED <<last, dlq, submitted, unanswered>>
      BY <2>3 DEF Verify, Expire, Shutdown, Exit, Start, redisVars, dbVars
    <3> QED
      BY <3>1, LedgerStutter
  <2>4. ~StartReplaying
    BY DEF StartReplaying, May
  <2>5. CASE UNCHANGED vars
    BY <2>5, LedgerStutter DEF vars, redisVars, dbVars
  <2> QED
    BY <2>1, <2>2, <2>3, <2>4, <2>5 DEF Next
<1> QED
  BY <1>1, <1>2, SettledKept, PTL DEF Spec, ImplementsLedger, Ledger!LedgerSpec, ledgerBar, Entry
=============================================================================
