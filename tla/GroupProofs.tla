---------------------------- MODULE GroupProofs ----------------------------
(***************************************************************************)
(* TableUpToDate, CalendarIsFair and RoundFromTheTable for every group and *)
(* every set of requests.                                                  *)
(*                                                                         *)
(* The table: as long as Redis keeps the lock only its holder writes rows  *)
(* (Alone); what it goes on with is what the matches and penalties say,    *)
(* unless they have changed since (Basis).  Of what Rows computes it matters here that a    *)
(* row carries the penalty it was made from, or writing the rows would     *)
(* change what the table ought to be, and the wins and losses of its       *)
(* matches.                                                                *)
(*                                                                         *)
(* The calendar: a round robin is the circle method in order (Schedule),   *)
(* a Swiss round the pairs of a list in the order of the table, each time  *)
(* the first that is left with the first it has not met (SwissRound).  No  *)
(* other request moves a match (League), and a round that is being written *)
(* is the beginning of one that follows from what was read (Making).       *)
(***************************************************************************)
EXTENDS GroupStage, CommonLemmas

-----------------------------------------------------------------------------
(* The table: the inductive invariant, in parts *)

Working == {"locked", "matches", "sorted"}

Sorted(x) == x = [step |-> "sorted", own |-> x.own, rows |-> x.rows, todo |-> x.todo]

Paired(x) == x = [step |-> "pairs", round |-> x.round, todo |-> x.todo, read |-> x.read]

Shape ==
    /\ request = [r \in Request \union Viewer |-> request[r]]
    /\ \A r \in Request : At(r, "sorted") => Sorted(request[r])
    /\ \A r \in Request : At(r, "pairs") => Paired(request[r])
    /\ table = [t \in Teams |-> table[t]]
    /\ lock \in Request \union {Nobody}
    /\ dirty \in BOOLEAN
    /\ exposed \in BOOLEAN

\* Who is recalculating has the lock and will give it back.
Alone == ~exposed => \A r \in Request : request[r].step \in Working => lock = r /\ request[r].own = TRUE

\* What a recalculation has read is still so, and what it has written is there.
Basis ==
    \A r \in Request : (~dirty /\ ~exposed) =>
       /\ At(r, "matches") => request[r].matches = matches
       /\ At(r, "sorted") =>
             /\ request[r].rows = Rows(matches, Penalty)
             /\ \A t \in Teams \ request[r].todo : table[t] = request[r].rows[t]

IInv == Shape /\ Alone /\ Basis /\ TableUpToDate

-----------------------------------------------------------------------------
\* A row carries the penalty of its team, and what its matches say of it.
LEMMA RowsKeepPenalties ==
    ASSUME NEW ms, NEW penalty, NEW t \in DOMAIN penalty
    PROVE  /\ Rows(ms, penalty) = [u \in DOMAIN penalty |-> Rows(ms, penalty)[u]]
           /\ Rows(ms, penalty)[t].penalty = penalty[t]
           /\ Rows(ms, penalty)[t].wins = Record(ms, t).wins
           /\ Rows(ms, penalty)[t].losses = Record(ms, t).losses
  <1> DEFINE recordOf(u) ==
        LET r == Record(ms, u)
        IN  [team    |-> u,
             wins    |-> r.wins,
             losses  |-> r.losses,
             points  |-> r.points - penalty[u],
             primary |-> <<r.points - penalty[u], r.for - r.against, r.for>>]
      records == {recordOf(u) : u \in DOMAIN penalty}
      Tied(x) == {y.team : y \in {z \in records : z.primary = x.primary}}
      Mini(x) == Tally(ms, {i \in Completed(ms) : {ms[i].a, ms[i].b} \subseteq Tied(x)}, x.team)
      keyed(x) == LET m == Mini(x)
                  IN  [of |-> x, key |-> x.primary \o <<m.points, m.for - m.against, m.for,
                                                       x.wins, -x.team>>]
      keys == {keyed(x) : x \in records}
      RowOf(k) == [wins    |-> k.of.wins,
                   losses  |-> k.of.losses,
                   points  |-> k.of.points,
                   penalty |-> penalty[k.of.team],
                   rank    |-> 1 + Cardinality({l \in keys : Above(l.key, k.key)})]
      chosen(u) == CHOOSE k \in keys : k.of.team = u
  <1>1. Rows(ms, penalty) = [u \in DOMAIN penalty |-> RowOf(chosen(u))]
    BY DEF Rows
  <1>2. \E k \in keys : k.of.team = t
    <2>1. PICK x \in records : x.team = t
      <3>1. recordOf(t).team = t
        OBVIOUS
      <3> HIDE DEF recordOf
      <3> QED BY <3>1
    <2>2. keyed(x) \in keys /\ keyed(x).of.team = t
      BY <2>1
    <2> HIDE DEF keys, keyed
    <2> QED BY <2>2
  <1>3. chosen(t).of.team = t /\ chosen(t) \in keys
    <2> HIDE DEF keys
    <2> QED BY <1>2
  <1>4. RowOf(chosen(t)).penalty = penalty[t]
    <2> HIDE DEF chosen, keys
    <2> QED BY <1>3
  <1>5. chosen(t).of \in records
    <2> DEFINE made == chosen(t)
    <2>1. made \in {keyed(x) : x \in records}
      BY <1>3
    <2> HIDE DEF made, records
    <2>2. PICK x \in records : made = keyed(x)
      BY <2>1
    <2>3. made.of = x
      BY <2>2
    <2> QED BY <2>3 DEF made
  <1>6. chosen(t).of = recordOf(t)
    <2> DEFINE row == chosen(t).of
    <2>1. row \in {recordOf(u) : u \in DOMAIN penalty} /\ row.team = t
      BY <1>3, <1>5
    <2> HIDE DEF row
    <2>2. PICK u \in DOMAIN penalty : row = recordOf(u)
      <3> HIDE DEF recordOf
      <3> QED BY <2>1
    <2>3. recordOf(u).team = u
      OBVIOUS
    <2> HIDE DEF recordOf
    <2>4. row = recordOf(t)
      BY <2>1, <2>2, <2>3
    <2> QED BY <2>4 DEF row
  <1>7. /\ RowOf(chosen(t)).wins = Record(ms, t).wins
        /\ RowOf(chosen(t)).losses = Record(ms, t).losses
    <2>1. recordOf(t).wins = Record(ms, t).wins /\ recordOf(t).losses = Record(ms, t).losses
      OBVIOUS
    <2> HIDE DEF recordOf, chosen, keys
    <2> QED BY <1>6, <2>1
  <1> HIDE DEF RowOf, chosen
  <1> QED BY <1>1, <1>4, <1>7

-----------------------------------------------------------------------------
\* What the step of one request leaves alone.
LEMMA OthersKept ==
    ASSUME IInv, NEW r \in Request \union Viewer, NEW to, Goes(r, to)
    PROVE  /\ request'[r] = to
           /\ \A q \in (Request \union Viewer) \ {r} : request'[q] = request[q]
           /\ request' = [q \in Request \union Viewer |-> request'[q]]
  BY DEF IInv, Shape, Goes

\* A step of one request keeps the shape of all.
LEMMA ShapeKept ==
    ASSUME IInv, NEW r \in Request \union Viewer, NEW to, Goes(r, to),
           to.step = "sorted" => Sorted(to), to.step = "pairs" => Paired(to),
           table' = [t \in DOMAIN table' |-> table'[t]],
           lock' \in Request \union {Nobody}, dirty' \in BOOLEAN, exposed' \in BOOLEAN
    PROVE  Shape'
  <1>1. ASSUME NEW q \in Request
        PROVE  /\ request'[q].step = "sorted" => Sorted(request'[q])
               /\ request'[q].step = "pairs" => Paired(request'[q])
    <2>1. CASE q = r
      BY <2>1, OthersKept
    <2>2. CASE q # r
      BY <2>2, OthersKept DEF IInv, Shape, At
    <2> QED BY <2>1, <2>2
  <1> QED BY <1>1, OthersKept DEF Shape, At, Sorted, Paired, Teams

\* While the lock does not keep recalculations apart nothing is claimed.
LEMMA NothingClaimed ==
    ASSUME Shape', exposed' = TRUE
    PROVE  IInv'
  BY DEF IInv, Alone, Basis, TableUpToDate

\* While one works, nothing is claimed of the table.
LEMMA OneWorks ==
    ASSUME NEW r \in Request, request'[r].step \in Working
    PROVE  TableUpToDate'
  <1>1. r \in Recalculating'
    BY DEF Recalculating, Working
  <1> QED BY <1>1 DEF TableUpToDate

\* A step of a request that is not recalculating before or after it.
LEMMA Aside ==
    ASSUME IInv,
           NEW r \in Request \union Viewer, NEW to, Goes(r, to),
           r \in Request => request[r].step \notin Working,
           to.step \notin Working, to.step = "pairs" => Paired(to),
           UNCHANGED <<lock, exposed>>,
           table' = [t \in DOMAIN table' |-> table'[t]],
           \/ dirty' = TRUE
           \/ UNCHANGED <<matches, table, dirty>>
    PROVE  IInv'
  <1>1. /\ request'[r] = to
        /\ \A q \in (Request \union Viewer) \ {r} : request'[q] = request[q]
        /\ request' = [q \in Request \union Viewer |-> request'[q]]
    BY OthersKept
  <1>2. Shape'
    <2>1. /\ to.step # "sorted"
          /\ dirty' \in BOOLEAN /\ exposed' \in BOOLEAN /\ lock' \in Request \union {Nobody}
      BY DEF Working, IInv, Shape
    <2> QED BY <2>1, ShapeKept
  <1>3. \A q \in Request : request'[q].step \in Working => request'[q] = request[q]
    BY <1>1
  <1>4. Alone'
    BY <1>3 DEF IInv, Alone
  <1>5. Basis' /\ TableUpToDate'
    <2>1. CASE dirty' = TRUE
      BY <2>1 DEF Basis, TableUpToDate
    <2>2. CASE UNCHANGED <<matches, table, dirty>>
      <3>1. Penalty' = Penalty /\ Teams' = Teams
        BY <2>2 DEF Penalty, Teams
      <3>2. Basis'
        <4> SUFFICES ASSUME NEW q \in Request, ~dirty', ~exposed'
                     PROVE  /\ At(q, "matches")' => request'[q].matches = matches'
                            /\ At(q, "sorted")' =>
                                  /\ request'[q].rows = Rows(matches', Penalty')
                                  /\ \A t \in Teams' \ request'[q].todo : table'[t] = request'[q].rows[t]
          BY DEF Basis
        <4>1. CASE request'[q].step \in Working
          BY <1>3, <2>2, <3>1, <4>1 DEF IInv, Basis, At
        <4>2. CASE request'[q].step \notin Working
          BY <4>2 DEF At, Working
        <4> QED BY <4>1, <4>2
      <3>3. Recalculating' = Recalculating
        <4>1. ASSUME NEW q \in Request
              PROVE  request'[q].step \in Working <=> request[q].step \in Working
          BY <1>1
        <4> QED BY <4>1 DEF Recalculating, Working
      <3>4. TableUpToDate'
        BY <2>2, <3>1, <3>3 DEF IInv, TableUpToDate
      <3> QED BY <3>2, <3>4
    <2> QED BY <2>1, <2>2
  <1> QED BY <1>2, <1>4, <1>5 DEF IInv

\* The lock is taken, or the recalculation is given up, or goes on without it.
LEMMA LockKeeps ==
    ASSUME IInv, NEW r \in Request, Lock(r)
    PROVE  IInv'
  <1>1. /\ UNCHANGED <<matches, table, dirty>> /\ UNCHANGED <<Penalty, Teams>>
        /\ table' = [t \in DOMAIN table' |-> table'[t]]
    BY DEF Lock, rows, Penalty, Teams, IInv, Shape
  <1>2. request[r].step \notin Working
    BY DEF Lock, At, Working
  <1> DEFINE to(own) == [step |-> "locked", own |-> own]
  <1>3. ASSUME lock = Nobody, lock' = r, Goes(r, to(TRUE)), exposed' = (exposed /\ Recalculating # {})
        PROVE  IInv'
    <2>1. Shape'
      <3>1. lock' \in Request \union {Nobody} /\ dirty' \in BOOLEAN /\ exposed' \in BOOLEAN
        BY <1>1, <1>3 DEF IInv, Shape
      <3> QED BY <1>1, <1>3, <3>1, ShapeKept
    <2>2. request'[r] = to(TRUE) /\ \A q \in Request \ {r} : request'[q] = request[q]
      BY <1>3, OthersKept
    <2>3. ASSUME ~exposed' PROVE \A q \in Request \ {r} : request'[q].step \notin Working
      <3>1. CASE Recalculating = {}
        BY <2>2, <3>1 DEF Recalculating, Working
      <3>2. CASE ~exposed
        BY <1>3, <2>2, <3>2, GroupAssumption DEF IInv, Alone
      <3> QED BY <1>3, <2>3, <3>1, <3>2
    <2>4. Alone' /\ Basis'
      BY <1>3, <2>2, <2>3 DEF Alone, Basis, At, Working
    <2>5. TableUpToDate'
      BY <2>2, OneWorks DEF Working
    <2> QED BY <2>1, <2>4, <2>5 DEF IInv
  <1>4. ASSUME Goes(r, Idle), UNCHANGED <<lock, exposed>> PROVE IInv'
    <2>1. Idle.step \notin Working /\ Idle.step # "pairs"
      BY DEF Idle, Working
    <2> QED BY <1>1, <1>2, <1>4, <2>1, Aside
  <1>5. ASSUME Goes(r, to(FALSE)), UNCHANGED lock, exposed' = TRUE PROVE IInv'
    <2>1. lock' \in Request \union {Nobody} /\ dirty' \in BOOLEAN /\ exposed' \in BOOLEAN
      BY <1>1, <1>5 DEF IInv, Shape
    <2>2. Shape'
      BY <1>1, <1>5, <2>1, ShapeKept
    <2> QED BY <1>5, <2>2, NothingClaimed
  <1> QED BY <1>3, <1>4, <1>5 DEF Lock

\* What has just been read is what is there.
LEMMA ReadMatchesKeeps ==
    ASSUME IInv, NEW r \in Request, ReadMatches(r)
    PROVE  IInv'
  <1> DEFINE to == [step |-> "matches", own |-> request[r].own, matches |-> matches]
  <1>1. Goes(r, to) /\ UNCHANGED <<matches, table, lock, exposed>> /\ dirty' = FALSE
    BY DEF ReadMatches, rows
  <1>2. Shape'
    <2>1. table' = [t \in DOMAIN table' |-> table'[t]]
      BY <1>1 DEF IInv, Shape, Teams
    <2>2. lock' \in Request \union {Nobody} /\ dirty' \in BOOLEAN /\ exposed' \in BOOLEAN
      BY <1>1 DEF IInv, Shape
    <2> QED BY <1>1, <2>1, <2>2, ShapeKept DEF Sorted
  <1>3. CASE exposed
    BY <1>1, <1>2, <1>3, NothingClaimed DEF IInv, Shape
  <1>4. CASE ~exposed
    <2>1. /\ lock = r /\ request[r].own = TRUE
          /\ \A q \in Request \ {r} : request[q].step \notin Working
      BY <1>4 DEF IInv, Alone, ReadMatches, At, Working
    <2>2. Alone'
      BY <1>1, <2>1, OthersKept DEF Alone, Working
    <2>3. Basis'
      BY <1>1, <2>1, OthersKept DEF Basis, At, Working
    <2>4. TableUpToDate'
      BY <1>1, OthersKept, OneWorks DEF Working
    <2> QED BY <1>2, <2>2, <2>3, <2>4 DEF IInv
  <1> QED BY <1>3, <1>4

\* The rows are made from what was read.
LEMMA ReadPenaltiesKeeps ==
    ASSUME IInv, NEW r \in Request, ReadPenalties(r)
    PROVE  IInv'
  <1> DEFINE to == [step |-> "sorted", own |-> request[r].own,
                    rows |-> Rows(request[r].matches, Penalty), todo |-> Teams]
  <1>1. /\ Goes(r, to) /\ UNCHANGED <<matches, table, lock, dirty, exposed>>
        /\ UNCHANGED <<Penalty, Teams>>
    BY DEF ReadPenalties, rows, history, Penalty, Teams
  <1>2. Shape'
    <2>1. table' = [t \in DOMAIN table' |-> table'[t]]
      BY <1>1 DEF IInv, Shape, Teams
    <2>2. lock' \in Request \union {Nobody} /\ dirty' \in BOOLEAN /\ exposed' \in BOOLEAN
      BY <1>1 DEF IInv, Shape
    <2> QED BY <1>1, <2>1, <2>2, ShapeKept DEF Sorted
  <1>3. CASE exposed
    BY <1>1, <1>2, <1>3, NothingClaimed DEF IInv, Shape
  <1>4. CASE ~exposed
    <2>1. /\ lock = r /\ request[r].own = TRUE
          /\ \A q \in Request \ {r} : request[q].step \notin Working
      BY <1>4 DEF IInv, Alone, ReadPenalties, At, Working
    <2>2. ~dirty => request[r].matches = matches
      BY <1>4 DEF IInv, Basis, ReadPenalties
    <2>3. Alone'
      BY <1>1, <2>1, OthersKept DEF Alone, Working
    <2>4. Basis'
      BY <1>1, <2>1, <2>2, OthersKept DEF Basis, At, Working
    <2>5. TableUpToDate'
      BY <1>1, OthersKept, OneWorks DEF Working
    <2> QED BY <1>2, <2>3, <2>4, <2>5 DEF IInv
  <1> QED BY <1>3, <1>4

\* A row is written; if nothing has changed since the matches were read, the
\* penalties stay what they are.
LEMMA UpsertKeeps ==
    ASSUME IInv, NEW r \in Request, UpsertStanding(r)
    PROVE  IInv'
  <1>1. PICK t \in request[r].todo :
           /\ table' = [table EXCEPT ![t] = request[r].rows[t]]
           /\ Goes(r, [request[r] EXCEPT !.todo = @ \ {t}])
    BY DEF UpsertStanding
  <1> DEFINE to == [step |-> "sorted", own |-> request[r].own, rows |-> request[r].rows,
                    todo |-> request[r].todo \ {t}]
  <1>2. Sorted(request[r]) /\ request[r].step = "sorted"
    BY DEF UpsertStanding, IInv, Shape, At
  <1>3. [request[r] EXCEPT !.todo = @ \ {t}] = to
    BY <1>2 DEF Sorted
  <1>4. Goes(r, to) /\ UNCHANGED <<matches, lock, dirty, exposed>>
    BY <1>1, <1>3 DEF UpsertStanding, history
  <1>5. /\ Teams' = Teams /\ table' = [u \in Teams |-> table'[u]]
        /\ \A u \in Teams : table'[u] = IF u = t THEN request[r].rows[u] ELSE table[u]
    BY <1>1 DEF IInv, Shape, Teams
  <1>6. Shape'
    <2>1. table' = [u \in DOMAIN table' |-> table'[u]]
      BY <1>4, <1>5 DEF IInv, Shape, Teams
    <2>2. lock' \in Request \union {Nobody} /\ dirty' \in BOOLEAN /\ exposed' \in BOOLEAN
      BY <1>4 DEF IInv, Shape
    <2> QED BY <1>4, <2>1, <2>2, ShapeKept DEF Sorted
  <1>7. CASE exposed
    BY <1>4, <1>6, <1>7, NothingClaimed DEF IInv, Shape
  <1>8. CASE ~exposed
    <2>1. /\ lock = r /\ request[r].own = TRUE
          /\ \A q \in Request \ {r} : request[q].step \notin Working
      BY <1>2, <1>8 DEF IInv, Alone, Working
    <2>2. Alone'
      BY <1>2, <1>4, <2>1, OthersKept DEF Alone, Working
    <2>3. Basis'
      <3>1. ASSUME ~dirty PROVE Penalty' = Penalty
        <4>1. request[r].rows = Rows(matches, Penalty) /\ DOMAIN Penalty = Teams
          BY <1>2, <1>8, <3>1 DEF IInv, Basis, At, Penalty
        <4>2. \A u \in Teams : request[r].rows[u].penalty = table[u].penalty
          BY <4>1, RowsKeepPenalties DEF Penalty
        <4>3. \A u \in Teams : table'[u].penalty = table[u].penalty
          BY <1>5, <4>2
        <4> QED BY <1>5, <4>3 DEF Penalty
      <3>2. request'[r] = to
        BY <1>4, OthersKept
      <3>3. ~dirty => /\ request'[r].rows = Rows(matches', Penalty')
                      /\ \A u \in Teams' \ request'[r].todo : table'[u] = request'[r].rows[u]
        BY <1>2, <1>4, <1>5, <1>8, <3>1, <3>2 DEF IInv, Basis, At
      <3>4. \A q \in Request \ {r} : request'[q].step \notin Working
        BY <1>4, <2>1, OthersKept
      <3> QED BY <1>4, <3>2, <3>3, <3>4 DEF Basis, At, Working
    <2>4. TableUpToDate'
      BY <1>4, OthersKept, OneWorks DEF Working
    <2> QED BY <1>6, <2>2, <2>3, <2>4 DEF IInv
  <1> QED BY <1>7, <1>8

\* The last row is written, so the table is what was computed.
LEMMA UnlockKeeps ==
    ASSUME IInv, NEW r \in Request, Unlock(r)
    PROVE  IInv'
  <1>1. /\ At(r, "sorted") /\ request[r].todo = {} /\ lock' \in {lock, Nobody} /\ Goes(r, Idle)
        /\ UNCHANGED <<matches, table, dirty, exposed>> /\ UNCHANGED <<Penalty, Teams>>
    BY DEF Unlock, Released, rows, history, Penalty, Teams
  <1>2. Shape'
    <2>1. table' = [t \in DOMAIN table' |-> table'[t]]
      BY <1>1 DEF IInv, Shape, Teams
    <2>2. lock' \in Request \union {Nobody} /\ dirty' \in BOOLEAN /\ exposed' \in BOOLEAN
      BY <1>1 DEF IInv, Shape
    <2> QED BY <1>1, <2>1, <2>2, ShapeKept DEF Idle
  <1>3. CASE exposed
    BY <1>1, <1>2, <1>3, NothingClaimed DEF IInv, Shape
  <1>4. CASE ~exposed
    <2>1. \A q \in Request \ {r} : request[q].step \notin Working
      BY <1>1, <1>4 DEF IInv, Alone, At, Working
    <2>2. \A q \in Request : request'[q].step \notin Working
      BY <1>1, <2>1, OthersKept DEF Working, Idle
    <2>3. Alone' /\ Basis'
      BY <2>2 DEF Alone, Basis, At, Working
    <2>4. ASSUME ~dirty PROVE table = Rows(matches, Penalty)
      <3>1. /\ request[r].rows = Rows(matches, Penalty)
            /\ \A t \in Teams : table[t] = request[r].rows[t]
        BY <1>1, <1>4, <2>4 DEF IInv, Basis
      <3>2. DOMAIN Penalty = Teams
        BY DEF Penalty
      <3>3. CASE Teams = {}
        <4>1. Rows(matches, Penalty) = [t \in DOMAIN Penalty |-> Rows(matches, Penalty)[t]]
          BY <3>2, <3>3 DEF Rows
        <4> QED BY <3>2, <3>3, <4>1 DEF IInv, Shape
      <3>4. CASE Teams # {}
        <4>1. Rows(matches, Penalty) = [t \in DOMAIN Penalty |-> Rows(matches, Penalty)[t]]
          BY <3>2, <3>4, RowsKeepPenalties
        <4> QED BY <3>1, <3>2, <4>1 DEF IInv, Shape
      <3> QED BY <3>3, <3>4
    <2>5. TableUpToDate'
      BY <1>1, <2>4 DEF TableUpToDate
    <2> QED BY <1>2, <2>3, <2>5 DEF IInv
  <1> QED BY <1>3, <1>4

\* A recalculation that fails leaves nothing that counts as up to date.
LEMMA RecalculationFailsKeeps ==
    ASSUME IInv, NEW r \in Request, RecalculationFails(r)
    PROVE  IInv'
  <1>1. /\ request[r].step \in Working /\ lock' \in {lock, Nobody} /\ dirty' = TRUE /\ Goes(r, Idle)
        /\ UNCHANGED <<table, exposed>>
    BY DEF RecalculationFails, Recalculating, Released, rows, Working
  <1>2. Shape'
    <2>1. table' = [t \in DOMAIN table' |-> table'[t]]
      BY <1>1 DEF IInv, Shape, Teams
    <2>2. lock' \in Request \union {Nobody} /\ dirty' \in BOOLEAN /\ exposed' \in BOOLEAN
      BY <1>1 DEF IInv, Shape
    <2> QED BY <1>1, <2>1, <2>2, ShapeKept DEF Idle
  <1>3. Alone'
    <2> SUFFICES ASSUME ~exposed' PROVE \A q \in Request : request'[q].step \notin Working
      BY DEF Alone
    <2>1. \A q \in Request \ {r} : request[q].step \notin Working
      BY <1>1 DEF IInv, Alone
    <2> QED BY <1>1, <2>1, OthersKept DEF Working, Idle
  <1>4. Basis' /\ TableUpToDate'
    BY <1>1 DEF Basis, TableUpToDate
  <1> QED BY <1>2, <1>3, <1>4 DEF IInv

\* The lock runs out.
LEMMA ExpireKeeps ==
    ASSUME IInv, Expire
    PROVE  IInv'
  <1>1. /\ UNCHANGED <<matches, table, request, dirty>> /\ lock' = Nobody
        /\ exposed' = (exposed \/ Recalculating # {})
    BY DEF Expire, rows
  <1>2. Shape' /\ Recalculating' = Recalculating
    BY <1>1 DEF IInv, Shape, At, Teams, Recalculating
  <1>3. CASE exposed'
    BY <1>1, <1>2, <1>3, NothingClaimed DEF IInv, Shape
  <1>4. CASE ~exposed'
    <2>1. \A q \in Request : request'[q].step \notin Working
      BY <1>1, <1>4 DEF Recalculating, Working
    <2>2. Alone' /\ Basis'
      BY <2>1 DEF Alone, Basis, At, Working
    <2>3. TableUpToDate'
      BY <1>1, <1>2, <1>4 DEF IInv, TableUpToDate, Penalty, Teams
    <2> QED BY <1>2, <2>2, <2>3 DEF IInv
  <1> QED BY <1>3, <1>4

-----------------------------------------------------------------------------
\* Results, resets, penalties, rounds and the status: all change what the table
\* has to show only together with dirty.
LEMMA OtherStepsKeep ==
    ASSUME IInv, NEW r \in Request,
           \/ UpdateMatchScore(r) \/ UpdateMatchStatus(r)
           \/ \E tie \in Ties : PairTeams(r, tie)
           \/ CreateMatch(r) \/ UpdateSwissConfig(r)
           \/ Result(r) \/ GenerateSwissRound(r)
           \/ \E i \in DOMAIN matches : SetMatchLive(r, i)
           \/ \E x \in Penalties : x[1] \in Teams /\ SetPenaltyPoints(r, x[1], x[2])
           \/ ResetSingleGroupResults(r)
           \/ \E i \in DOMAIN matches : ResetGroupMatch(r, i)
           \/ Reschedule(r) \/ GenerationFails(r)
    PROVE  IInv'
  <1>1. table = [t \in DOMAIN table |-> table[t]]
    BY DEF IInv, Shape, Teams
  <1>2. ASSUME NEW to, Goes(r, to), request[r].step \notin Working, UNCHANGED <<lock, exposed>>,
               to.step \notin Working, to.step = "pairs" => Paired(to),
               \/ UNCHANGED <<matches, table, dirty>>
               \/ dirty' = TRUE /\ UNCHANGED table
        PROVE  IInv'
    BY <1>1, <1>2, Aside
  <1>3. CASE UpdateMatchScore(r)
    <2>1. Goes(r, [step |-> "recalculate"]) /\ UNCHANGED <<table, lock, exposed>> /\ dirty' = TRUE
      BY <1>3 DEF UpdateMatchScore
    <2>2. request[r].step \notin Working
      BY <1>3 DEF UpdateMatchScore, At, Working
    <2> QED BY <1>2, <2>1, <2>2 DEF Working
  <1>4. CASE UpdateMatchStatus(r)
    <2>1. Goes(r, Idle) /\ UNCHANGED <<table, lock, exposed>> /\ dirty' = TRUE
      BY <1>4 DEF UpdateMatchStatus
    <2>2. request[r].step \notin Working
      BY <1>4 DEF UpdateMatchStatus, At, Working
    <2> QED BY <1>2, <2>1, <2>2 DEF Working, Idle
  <1>5. ASSUME NEW tie \in Ties, PairTeams(r, tie) PROVE IInv'
    <2>1. request[r].step \notin Working /\ UNCHANGED <<matches, table, dirty, lock, exposed>>
      BY <1>5 DEF PairTeams, At, Working, rows, history
    <2>2. CASE Goes(r, Idle)
      BY <1>2, <2>1, <2>2 DEF Working, Idle
    <2>3. ASSUME NEW a, NEW b, NEW c, Goes(r, [step |-> "pairs", round |-> a, todo |-> b, read |-> c])
          PROVE  IInv'
      BY <1>2, <2>1, <2>3 DEF Working, Paired
    <2> QED BY <1>5, <2>2, <2>3 DEF PairTeams
  <1>6. CASE CreateMatch(r)
    <2> DEFINE to == [step |-> "pairs", round |-> request[r].round,
                      todo |-> Tail(request[r].todo), read |-> request[r].read]
    <2>1. request[r].step = "pairs" /\ Paired(request[r])
      BY <1>6 DEF CreateMatch, At, IInv, Shape
    <2>2. [request[r] EXCEPT !.todo = Tail(@)] = to
      <3>1. ASSUME NEW x, NEW y, Paired(x)
            PROVE  [x EXCEPT !.todo = y] = [step |-> "pairs", round |-> x.round, todo |-> y, read |-> x.read]
        BY <3>1 DEF Paired
      <3> QED BY <2>1, <3>1
    <2>3. Goes(r, to) /\ UNCHANGED <<table, lock, exposed>> /\ dirty' = TRUE
      BY <1>6, <2>2 DEF CreateMatch
    <2> QED BY <1>2, <2>1, <2>3 DEF Working, Paired
  <1>7. CASE UpdateSwissConfig(r)
    <2>1. Goes(r, [step |-> "recalculate"]) /\ UNCHANGED <<matches, table, dirty, lock, exposed>>
      BY <1>7 DEF UpdateSwissConfig, history
    <2>2. request[r].step \notin Working
      BY <1>7 DEF UpdateSwissConfig, At, Working
    <2> QED BY <1>2, <2>1, <2>2 DEF Working
  <1>8. CASE Result(r)
    <2>1. PICK i \in DOMAIN matches, score \in Scores(group) : SubmitMatchResult(r, i, score)
      BY <1>8 DEF Result
    <2>2. /\ Goes(r, [step |-> "result", match |-> i, score |-> score])
          /\ UNCHANGED <<matches, table, dirty, lock, exposed>>
      BY <2>1 DEF SubmitMatchResult, rows, history
    <2>3. request[r].step \notin Working
      BY <2>1 DEF SubmitMatchResult, At, Working
    <2> QED BY <1>2, <2>2, <2>3 DEF Working
  <1>9. CASE GenerateSwissRound(r)
    <2>1. Goes(r, [step |-> "round", round |-> round]) /\ UNCHANGED <<matches, table, dirty, lock, exposed>>
      BY <1>9 DEF GenerateSwissRound, rows, history
    <2>2. request[r].step \notin Working
      BY <1>9 DEF GenerateSwissRound, At, Working
    <2> QED BY <1>2, <2>1, <2>2 DEF Working
  <1>10. ASSUME NEW i \in DOMAIN matches, SetMatchLive(r, i) PROVE IInv'
    <2>1. Goes(r, [step |-> "live", match |-> i]) /\ UNCHANGED <<matches, table, dirty, lock, exposed>>
      BY <1>10 DEF SetMatchLive, rows, history
    <2>2. request[r].step \notin Working
      BY <1>10 DEF SetMatchLive, At, Working
    <2> QED BY <1>2, <2>1, <2>2 DEF Working
  <1>11. ASSUME NEW t \in Teams, NEW points, SetPenaltyPoints(r, t, points) PROVE IInv'
    <2>1. Goes(r, [step |-> "recalculate"]) /\ UNCHANGED <<lock, exposed>> /\ dirty' = TRUE
      BY <1>11 DEF SetPenaltyPoints
    <2>2. table' = [u \in DOMAIN table' |-> table'[u]]
      BY <1>11 DEF SetPenaltyPoints
    <2>3. request[r].step \notin Working
      BY <1>11 DEF SetPenaltyPoints, At, Working
    <2> QED BY <2>1, <2>2, <2>3, Aside DEF Working
  <1>12. CASE ResetSingleGroupResults(r)
    <2>1. Goes(r, [step |-> "recalculate"]) /\ UNCHANGED <<lock, exposed>> /\ dirty' = TRUE
      BY <1>12 DEF ResetSingleGroupResults
    <2>2. table' = [u \in DOMAIN table' |-> table'[u]]
      BY <1>12 DEF ResetSingleGroupResults
    <2>3. request[r].step \notin Working
      BY <1>12 DEF ResetSingleGroupResults, At, Working
    <2> QED BY <2>1, <2>2, <2>3, Aside DEF Working
  <1>13. ASSUME NEW i \in DOMAIN matches, ResetGroupMatch(r, i) PROVE IInv'
    <2>1. Goes(r, [step |-> "unscored", match |-> i]) /\ UNCHANGED <<table, lock, exposed>> /\ dirty' = TRUE
      BY <1>13 DEF ResetGroupMatch
    <2>2. request[r].step \notin Working
      BY <1>13 DEF ResetGroupMatch, At, Working
    <2> QED BY <1>2, <2>1, <2>2 DEF Working
  <1>14. CASE Reschedule(r)
    <2>1. /\ Goes(r, [step |-> "recalculate"]) /\ UNCHANGED <<table, lock, exposed>>
          /\ dirty' = TRUE \/ UNCHANGED <<matches, dirty>>
      BY <1>14 DEF Reschedule, Writes
    <2>2. request[r].step \notin Working
      BY <1>14 DEF Reschedule, At, Working
    <2> QED BY <1>2, <2>1, <2>2 DEF Working
  <1>15. CASE GenerationFails(r)
    <2>1. Goes(r, Idle) /\ UNCHANGED <<matches, table, dirty, lock, exposed>>
      BY <1>15 DEF GenerationFails, rows
    <2>2. request[r].step \notin Working
      BY <1>15 DEF GenerationFails, At, Working
    <2> QED BY <1>2, <2>1, <2>2 DEF Working, Idle
  <1> QED
    BY <1>3, <1>4, <1>5, <1>6, <1>7, <1>8, <1>9, <1>10, <1>11, <1>12, <1>13, <1>14, <1>15

\* Somebody looks at the page, and a champion may be set.
LEMMA ViewersKeep ==
    ASSUME IInv, NEW v \in Viewer, GetSwissStatus(v) \/ MaybeCrown(v) \/ SetChampion(v)
    PROVE  IInv'
  <1>1. /\ UNCHANGED <<matches, table, dirty, lock, exposed>>
        /\ request[v].step \notin Working
    BY DEF GetSwissStatus, MaybeCrown, SetChampion, rows, history, At, Working
  <1>2. table' = [t \in DOMAIN table' |-> table'[t]]
    BY <1>1 DEF IInv, Shape, Teams
  <1>3. ASSUME NEW to, Goes(v, to), to.step \in {"idle", "complete", "crown"} PROVE IInv'
    BY <1>1, <1>2, <1>3, Aside DEF Working
  <1>4. CASE GetSwissStatus(v)
    BY <1>3, <1>4 DEF GetSwissStatus
  <1>5. CASE MaybeCrown(v)
    BY <1>3, <1>5 DEF MaybeCrown, Idle
  <1>6. CASE SetChampion(v)
    BY <1>3, <1>6 DEF SetChampion, Idle
  <1> QED BY <1>4, <1>5, <1>6

\* Nothing changes.
LEMMA StuttersKeep ==
    ASSUME IInv, UNCHANGED vars
    PROVE  IInv'
  <1>1. UNCHANGED <<matches, table, lock, request, dirty, exposed>>
    BY DEF vars, rows, history
  <1>2. Shape'
    BY <1>1 DEF IInv, Shape, At, Teams
  <1>3. Alone'
    BY <1>1 DEF IInv, Alone
  <1>4. Basis'
    BY <1>1 DEF IInv, Basis, At, Teams, Penalty
  <1>5. TableUpToDate'
    BY <1>1 DEF IInv, TableUpToDate, Recalculating, Teams, Penalty
  <1> QED BY <1>2, <1>3, <1>4, <1>5 DEF IInv

\* The table is always as the invariant has it.
LEMMA IInvHolds == Spec => []IInv
  <1>1. Init => IInv
    <2> SUFFICES ASSUME Init PROVE IInv
      OBVIOUS
    <2>1. /\ request = [r \in Request \union Viewer |-> Idle]
          /\ \A r \in Request : request[r].step = "idle"
      BY DEF Init, Idle
    <2>2. Shape
      BY <2>1 DEF Init, Shape, At, Teams
    <2>3. Alone /\ Basis /\ TableUpToDate
      BY <2>1, GroupAssumption DEF Init, Alone, Basis, TableUpToDate, Working, At
    <2> QED BY <2>2, <2>3 DEF IInv
  <1>2. IInv /\ [Next]_vars => IInv'
    <2> SUFFICES ASSUME IInv, [Next]_vars PROVE IInv'
      OBVIOUS
    <2>1. ASSUME NEW r \in Request, Recalculate(r) PROVE IInv'
      BY <2>1, LockKeeps, ReadMatchesKeeps, ReadPenaltiesKeeps, UpsertKeeps, UnlockKeeps,
         RecalculationFailsKeeps DEF Recalculate
    <2> QED BY <2>1, OtherStepsKeep, ExpireKeeps, ViewersKeep, StuttersKeep DEF Next, Serve
  <1> QED BY <1>1, <1>2, PTL DEF Spec

\* TableUpToDate: what the standings show is what the matches and penalties say
\* unless something has changed that no recalculation has read, or the last one
\* failed, or Redis has let two work at once, whichever requests overlap
\* (group_standings_service.go).
THEOREM TableIsUpToDate == Spec => []TableUpToDate
  <1>1. IInv => TableUpToDate
    BY DEF IInv
  <1> QED BY <1>1, IInvHolds, PTL

\* One recalculation works at a time (group_standings_service.go:96), and again
\* as soon as one has the lock and no other is left from a time without.
THEOREM OneRecalculation ==
    Spec => [](~exposed => \A r, q \in Request :
                  (request[r].step \in Working /\ request[q].step \in Working) => r = q)
  <1>1. IInv => (~exposed => \A r, q \in Request :
                  (request[r].step \in Working /\ request[q].step \in Working) => r = q)
    BY DEF IInv, Alone
  <1> QED BY <1>1, IInvHolds, PTL

-----------------------------------------------------------------------------
(* The calendar of a round robin *)

\* A product that is smaller than one of its factors is nothing.
LEMMA SmallMultiple ==
    ASSUME NEW d \in Nat, NEW x \in Int, d * x < d, 0 - d < d * x
    PROVE  x = 0
  <1>1. d > 0
    <2>1. CASE d = 0
      <3>1. d * x = 0
        BY <2>1
      <3> QED
        BY <2>1, <3>1
    <2> QED
      BY <2>1
  <1>2. ASSUME x >= 1 PROVE FALSE
    <2>1. d * x = d + d * (x - 1) /\ d * (x - 1) >= 0
      BY <1>1, <1>2
    <2> QED
      BY <2>1
  <1>3. ASSUME x <= -1 PROVE FALSE
    <2>1. d * (0 - x) = d + d * (0 - x - 1) /\ d * (0 - x - 1) >= 0 /\ d * (0 - x) = 0 - d * x
      BY <1>1, <1>3
    <2> QED
      BY <2>1
  <1> QED
    BY <1>2, <1>3

\* Digits: d places for each of the numbers a.
LEMMA Digits ==
    ASSUME NEW d \in Nat, NEW a \in Int, NEW b \in Int, NEW i \in 1..d, NEW j \in 1..d,
           a * d + i = b * d + j
    PROVE  a = b /\ i = j
  <1>1. d * (a - b) = j - i
    OBVIOUS
  <1>2. a - b = 0
    BY <1>1, SmallMultiple
  <1> QED
    BY <1>1, <1>2

\* How often the circle has turned in a round.
Turn(h, nr) == IF nr = 2*h + 1 THEN 0 ELSE nr

\* No two rounds turn it as far, and no two games have one place.
LEMMA TurnOnce ==
    ASSUME NEW h \in Nat, NEW r \in 1 .. 2*h + 1, NEW s \in 1 .. 2*h + 1,
           NEW i \in Int, NEW j \in Int, Turn(h, r) = Turn(h, s), i - 1 = j - 1
    PROVE  r = s /\ i = j
  <1>1. r = s
    BY DEF Turn
  <1>2. i = j
    OBVIOUS
  <1> QED
    BY <1>1, <1>2

\* With two teams or more there are an odd number of rounds.
LEMMA CalendarSize ==
    ASSUME NEW n \in Nat, n >= 2
    PROVE  \E h \in Nat : /\ n + (n % 2) = 2*h + 2 /\ n <= 2*h + 2
                          /\ Rounds(n) = 2*h + 1 /\ Half(n) = h + 1
  <1>1. PICK h \in Nat : n + (n % 2) = 2*h + 2
    <2>1. CASE n % 2 = 0
      <3>1. n = 2 * (n \div 2) /\ n \div 2 \in Nat /\ n \div 2 >= 1
        BY <2>1
      <3>2. n \div 2 - 1 \in Nat /\ n = 2 * (n \div 2 - 1) + 2
        BY <3>1
      <3>3. n + (n % 2) = n
        BY <2>1
      <3> QED
        BY <3>2, <3>3
    <2>2. CASE n % 2 # 0
      <3>1. n % 2 = 1
        BY <2>2
      <3>2. n + 1 = 2 * (n \div 2) + 2 /\ n \div 2 \in Nat
        BY <3>1
      <3> QED
        BY <3>1, <3>2
    <2> QED
      BY <2>1, <2>2
  <1>2. n % 2 \in {0, 1}
    OBVIOUS
  <1>3. n <= 2*h + 2 /\ Rounds(n) = 2*h + 1
    BY <1>1, <1>2 DEF Rounds
  <1>4. Half(n) = h + 1
    BY <1>1 DEF Half
  <1> QED
    BY <1>1, <1>3, <1>4

\* Who sits where is the circle method with places counted from 1.
LEMMA SeatPlace ==
    ASSUME NEW n \in Nat, NEW h \in Nat, Rounds(n) = 2*h + 1, NEW nr \in 1..2*h + 1
    PROVE  /\ Turn(h, nr) \in 0..2*h
           /\ Seat(n, nr, 1) = 1
           /\ Seat(n, nr, 2*h + 2) = 2 + Place(2*h + 1, Turn(h, nr), 0)
           /\ \A i \in 2..2*h + 1 :
                 Seat(n, nr, i) = 2 + Place(2*h + 1, Turn(h, nr), i - 1)
  <1> DEFINE len == 2*h + 1
  <1>1. Turn(h, nr) \in 0..2*h
    <2>1. nr # 2*h + 1 => nr \in 0..2*h
      OBVIOUS
    <2>2. 0 \in 0..2*h
      OBVIOUS
    <2> QED
      BY <2>1, <2>2 DEF Turn
  <1>2. ASSUME NEW p \in 1..len
        PROVE  (p - nr) % len = IF p >= nr THEN p - nr ELSE p - nr + len
    <2> DEFINE v == p - nr
    <2>1. len \in Nat \ {0} /\ v \in Int /\ -len < v /\ v < len
      OBVIOUS
    <2>2. v % len = IF v >= 0 THEN v ELSE v + len
      <3> HIDE DEF len, v
      <3> QED
        BY <2>1
    <2> QED
      BY <2>2
  <1>3. Seat(n, nr, 1) = 1
    BY DEF Seat
  <1>4. Seat(n, nr, 2*h + 2) = 2 + Place(2*h + 1, Turn(h, nr), 0)
    <2>1. Place(2*h + 1, Turn(h, nr), 0) =
            IF 0 >= Turn(h, nr) THEN 0 - Turn(h, nr) ELSE 0 - Turn(h, nr) + 2*h + 1
      <3>1. 0 \in 0..2*h
        OBVIOUS
      <3> QED
        BY <1>1, <3>1, PlaceValue
    <2>2. Seat(n, nr, 2*h + 2) = ((2*h + 2 - 1 - nr) % len) + 2
      BY DEF Seat
    <2>3. (len - nr) % len = IF len >= nr THEN len - nr ELSE len - nr + len
      BY <1>2
    <2>4. 2*h + 2 - 1 - nr = len - nr
      OBVIOUS
    <2>5. (2*h + 2 - 1 - nr) % len = len - nr
      BY <2>3, <2>4
    <2> QED
      BY <2>1, <2>2, <2>5 DEF Turn
  <1>5. ASSUME NEW i \in 2..2*h + 1
        PROVE  Seat(n, nr, i) = 2 + Place(2*h + 1, Turn(h, nr), i - 1)
    <2>1. i - 1 \in 1..2*h /\ i - 1 \in 0..2*h /\ i - 1 \in 1..len
      OBVIOUS
    <2>2. Place(2*h + 1, Turn(h, nr), i - 1) =
            IF i - 1 >= Turn(h, nr) THEN i - 1 - Turn(h, nr) ELSE i - 1 - Turn(h, nr) + 2*h + 1
      BY <1>1, <2>1, PlaceValue
    <2>3. Seat(n, nr, i) = ((i - 1 - nr) % len) + 2
      BY DEF Seat
    <2>4. (i - 1 - nr) % len = IF i - 1 >= nr THEN i - 1 - nr ELSE i - 1 - nr + len
      BY <1>2, <2>1
    <2>5. CASE nr = 2*h + 1
      <3>1. (i - 1 - nr) % len = i - 1
        BY <2>1, <2>4, <2>5
      <3>2. Place(2*h + 1, Turn(h, nr), i - 1) = i - 1
        BY <2>1, <2>2, <2>5 DEF Turn
      <3> QED
        BY <2>3, <3>1, <3>2
    <2>6. CASE nr # 2*h + 1
      <3>1. Turn(h, nr) = nr
        BY <2>6 DEF Turn
      <3>2. Place(2*h + 1, Turn(h, nr), i - 1) = (i - 1 - nr) % len
        BY <3>1 DEF Place
      <3> QED
        BY <2>3, <3>2
    <2> QED
      BY <2>5, <2>6
  <1> QED
    BY <1>1, <1>3, <1>4, <1>5

\* A game of the calendar is one of the circle method; the second leg has the
\* sides the other way round.
LEMMA MeetingGame ==
    ASSUME NEW n \in Nat, NEW h \in Nat, n + (n % 2) = 2*h + 2, Rounds(n) = 2*h + 1,
           NEW leg \in {1, 2}, NEW nr \in 1..2*h + 1, NEW i \in 0..h
    PROVE  /\ Both(Meeting(n, leg, nr, i + 1)) = Both(Game(h, Turn(h, nr), i))
           /\ Meeting(n, 1, nr, i + 1)[1] = Meeting(n, 2, nr, i + 1)[2]
           /\ Meeting(n, 1, nr, i + 1)[2] = Meeting(n, 2, nr, i + 1)[1]
  <1> DEFINE here  == Seat(n, nr, i + 1)
             there == Seat(n, nr, 2*h + 3 - (i + 1))
             Odd(l) == (nr + l) % 2 = 0
  <1>1. \A l : Meeting(n, l, nr, i + 1) = IF Odd(l) THEN <<here, there>> ELSE <<there, here>>
    BY DEF Meeting
  <1>2. Odd(1) <=> ~Odd(2)
    OBVIOUS
  <1>3. {here, there} = Both(Game(h, Turn(h, nr), i))
    <2>1. CASE i = 0
      <3>1. here = 1 /\ there = 2 + Place(2*h + 1, Turn(h, nr), 0)
        BY <2>1, SeatPlace
      <3> QED
        BY <2>1, <3>1 DEF Game, Both
    <2>2. CASE i \in 1..h
      <3>1. i + 1 \in 2..2*h + 1 /\ 2*h + 3 - (i + 1) \in 2..2*h + 1
        BY <2>2
      <3>2. i + 1 - 1 = i /\ 2*h + 3 - (i + 1) - 1 = 2*h + 1 - i
        BY <2>2
      <3>3. here = 2 + Place(2*h + 1, Turn(h, nr), i)
        BY <3>1, <3>2, SeatPlace
      <3>4. there = 2 + Place(2*h + 1, Turn(h, nr), 2*h + 1 - i)
        BY <3>1, <3>2, SeatPlace
      <3> HIDE DEF here, there
      <3> QED
        BY <2>2, <3>3, <3>4 DEF Game, Both
    <2> QED
      BY <2>1, <2>2
  <1> HIDE DEF here, there, Odd
  <1> QED
    BY <1>1, <1>2, <1>3 DEF Both

\* The games are numbered in the order in which they are made.
GameNumber(n, legs) ==
    [g \in Games(n, legs) |-> (g[1] * Rounds(n) + g[2]) * Half(n) + g[3]]

\* Games are numbered in the order in which they are made, no two alike.
LEMMA GamesNumbered ==
    ASSUME NEW n \in Nat, n >= 2, NEW legs \in Nat
    PROVE  Numbered(GameNumber(n, legs))
  <1> DEFINE R == Rounds(n)
             H == Half(n)
             all == (1 .. LegsPlayed(legs)) \X (1 .. R) \X (1 .. H)
  <1>1. R \in Nat /\ H \in Nat /\ LegsPlayed(legs) \in Nat
    BY CalendarSize DEF LegsPlayed
  <1>2. Games(n, legs) \subseteq all
    BY DEF Games
  <1> HIDE DEF R, H
  <1>3. IsFiniteSet(Games(n, legs))
    <2>1. all = {<<a, b, c>> : a \in 1 .. LegsPlayed(legs), b \in 1 .. R, c \in 1 .. H}
      OBVIOUS
    <2>2. IsFiniteSet(1 .. LegsPlayed(legs)) /\ IsFiniteSet(1 .. R) /\ IsFiniteSet(1 .. H)
      <3>1. ASSUME NEW m \in Nat PROVE IsFiniteSet(1 .. m)
        BY FS_Interval
      <3> HIDE DEF all
      <3> QED
        BY <1>1, <3>1
    <2> DEFINE pairs == (1 .. R) \X (1 .. H)
               nested == (1 .. LegsPlayed(legs)) \X pairs
               triple == [x \in nested |-> <<x[1], x[2][1], x[2][2]>>]
               flat == {triple[x] : x \in nested}
    <2>3. IsFiniteSet(nested)
      BY <2>2, FS_Product
    <2>4. IsFiniteSet(flat)
      <3>1. triple \in [nested -> flat]
        <4> HIDE DEF nested
        <4> QED
          OBVIOUS
      <3>2. triple \in Surjection(nested, flat)
        <4> HIDE DEF nested, triple
        <4> QED
          BY <3>1 DEF Surjection
      <3> HIDE DEF nested, triple, flat
      <3> QED
        BY <2>3, <3>2, FS_Surjection
    <2>5. all \subseteq flat
      <3> SUFFICES ASSUME NEW g \in all PROVE g \in flat
        OBVIOUS
      <3>1. <<g[1], <<g[2], g[3]>>>> \in nested
        OBVIOUS
      <3>2. g = <<g[1], g[2], g[3]>>
        OBVIOUS
      <3> QED
        BY <3>1, <3>2
    <2> QED
      BY <1>2, <2>4, <2>5, FS_Subset
  <1>4. \A g \in Games(n, legs) : /\ g = <<g[1], g[2], g[3]>> /\ g[1] \in 1 .. LegsPlayed(legs)
                                  /\ g[2] \in 1 .. R /\ g[3] \in 1 .. H
    BY <1>2
  <1>5. GameNumber(n, legs) = [g \in Games(n, legs) |-> (g[1] * R + g[2]) * H + g[3]]
    BY DEF GameNumber, R, H
  <1>6. ASSUME NEW g \in Games(n, legs) PROVE GameNumber(n, legs)[g] \in Nat
    <2>1. g[1] \in Nat /\ g[2] \in Nat /\ g[3] \in Nat
      BY <1>1, <1>4
    <2>2. g[1] * R \in Nat
      BY <1>1, <2>1
    <2>3. (g[1] * R + g[2]) * H \in Nat
      BY <1>1, <2>1, <2>2
    <2> QED
      BY <1>5, <2>1, <2>3
  <1>7. ASSUME NEW g \in Games(n, legs), NEW f \in Games(n, legs),
               GameNumber(n, legs)[g] = GameNumber(n, legs)[f]
        PROVE  g = f
    <2> DEFINE a == g[1] * R + g[2]
               b == f[1] * R + f[2]
    <2>1. a * H + g[3] = b * H + f[3]
      BY <1>5, <1>7
    <2>2. a \in Int /\ b \in Int
      BY <1>1, <1>4
    <2>3. a = b /\ g[3] = f[3]
      <3> HIDE DEF a, b
      <3> QED
        BY <1>1, <1>4, <2>1, <2>2, Digits
    <2>4. g[1] = f[1] /\ g[2] = f[2]
      <3>1. g[1] \in Int /\ f[1] \in Int
        BY <1>4
      <3> QED
        BY <1>1, <1>4, <2>3, <3>1, Digits
    <2> QED
      BY <1>4, <2>3, <2>4
  <1>8. DOMAIN GameNumber(n, legs) = Games(n, legs)
    BY <1>5
  <1> QED
    BY <1>3, <1>6, <1>7, <1>8 DEF Numbered

\* The schedule is one match for each game.
LEMMA ScheduleGames ==
    ASSUME NEW teams \in Seq(Team), Len(teams) >= 2, NEW legs \in Nat
    PROVE  LET n == Len(teams)
               all == Games(n, legs)
           IN  \E games \in [1 .. Cardinality(all) -> all] :
                 /\ Cardinality(all) \in Nat
                 /\ \A k, l \in 1 .. Cardinality(all) : games[k] = games[l] => k = l
                 /\ \A g \in all : \E k \in 1 .. Cardinality(all) : games[k] = g
                 /\ Schedule(teams, legs) =
                      [k \in 1 .. Cardinality(all) |->
                         LET g == games[k]
                             meets == Meeting(n, g[1], g[2], g[3])
                         IN  Fixture((g[1] - 1) * Rounds(n) + g[2], teams[meets[1]], teams[meets[2]])]
  <1> DEFINE n == Len(teams)
             all == Games(n, legs)
             number == GameNumber(n, legs)
             games == Listing(number)
  <1>1. n \in Nat /\ DOMAIN number = all
    BY DEF GameNumber
  <1>2. InOrder(all, number) = games
    BY <1>1 DEF InOrder, Listing, UpTo
  <1>3. Schedule(teams, legs) =
          [k \in DOMAIN games |->
             LET g == games[k]
                 meets == Meeting(n, g[1], g[2], g[3])
             IN  Fixture((g[1] - 1) * Rounds(n) + g[2], teams[meets[1]], teams[meets[2]])]
    BY <1>2 DEF Schedule, GameNumber
  <1>4. Numbered(number)
    BY <1>1, GamesNumbered
  <1>5. /\ Cardinality(all) \in Nat /\ games \in [1 .. Cardinality(all) -> all]
        /\ \A k, l \in 1 .. Cardinality(all) : games[k] = games[l] => k = l
        /\ \A g \in all : \E k \in 1 .. Cardinality(all) : games[k] = g
    BY <1>1, <1>4, ListingLists
  <1> HIDE DEF games
  <1>6. DOMAIN games = 1 .. Cardinality(all)
    BY <1>5
  <1> QED
    BY <1>3, <1>5, <1>6

\* The two sides of a game.
Meets(n, g) == Meeting(n, g[1], g[2], g[3])

\* A game of the calendar is a game of the circle method between two teams.
LEMMA GameOfCircle ==
    ASSUME NEW n \in Nat, NEW legs \in Nat, NEW h \in Nat,
           n + (n % 2) = 2*h + 2, Rounds(n) = 2*h + 1, Half(n) = h + 1,
           NEW g \in Games(n, legs)
    PROVE  /\ g = <<g[1], g[2], g[3]>> /\ g[1] \in {1, 2} /\ g[1] \in 1 .. LegsPlayed(legs)
           /\ g[2] \in 1 .. 2*h + 1 /\ g[3] \in 1 .. h + 1 /\ g[3] - 1 \in 0..h
           /\ Turn(h, g[2]) \in 0..2*h
           /\ Both(Meets(n, g)) = Both(Game(h, Turn(h, g[2]), g[3] - 1))
           /\ Meets(n, g)[1] \in 1..n /\ Meets(n, g)[2] \in 1..n
           /\ Meets(n, g)[1] # Meets(n, g)[2]
  <1>1. /\ g = <<g[1], g[2], g[3]>> /\ g[1] \in 1 .. LegsPlayed(legs)
        /\ g[2] \in 1 .. 2*h + 1 /\ g[3] \in 1 .. h + 1
        /\ \A e \in {1, 2} : Meets(n, g)[e] <= n
    BY DEF Games, Meets
  <1>2. g[1] \in {1, 2} /\ g[3] - 1 \in 0..h /\ (g[3] - 1) + 1 = g[3]
    BY <1>1 DEF LegsPlayed
  <1>3. Turn(h, g[2]) \in 0..2*h
    BY <1>1, SeatPlace
  <1>4. Both(Meets(n, g)) = Both(Game(h, Turn(h, g[2]), g[3] - 1))
    <2>1. Both(Meeting(n, g[1], g[2], (g[3] - 1) + 1)) = Both(Game(h, Turn(h, g[2]), g[3] - 1))
      BY <1>1, <1>2, MeetingGame
    <2> QED
      BY <1>2, <2>1 DEF Meets
  <1> DEFINE game == Game(h, Turn(h, g[2]), g[3] - 1)
  <1>5. game[1] \in 1..2*h + 2 /\ game[2] \in 1..2*h + 2 /\ game[1] # game[2]
    BY <1>2, <1>3, GameOfTwo
  <1> HIDE DEF game
  <1>6. /\ Meets(n, g)[1] \in 1..2*h + 2 /\ Meets(n, g)[2] \in 1..2*h + 2
        /\ Meets(n, g)[1] # Meets(n, g)[2]
    <2>1. {Meets(n, g)[1], Meets(n, g)[2]} = {game[1], game[2]}
      BY <1>4 DEF Both, game
    <2> QED
      BY <1>5, <2>1
  <1> QED
    BY <1>1, <1>2, <1>3, <1>4, <1>6

\* In one round of a leg nobody plays twice.
LEMMA RoundsOfGames ==
    ASSUME NEW n \in Nat, n >= 2, NEW legs \in Nat,
           NEW g \in Games(n, legs), NEW f \in Games(n, legs), g # f,
           (g[1] - 1) * Rounds(n) + g[2] = (f[1] - 1) * Rounds(n) + f[2]
    PROVE  Both(Meets(n, g)) \intersect Both(Meets(n, f)) = {}
  <1>1. PICK h \in Nat : /\ n + (n % 2) = 2*h + 2 /\ n <= 2*h + 2
                         /\ Rounds(n) = 2*h + 1 /\ Half(n) = h + 1
    BY CalendarSize
  <1>2. /\ g = <<g[1], g[2], g[3]>> /\ g[1] \in {1, 2} /\ g[2] \in 1 .. 2*h + 1
        /\ g[3] \in Int /\ g[3] - 1 \in 0..h
        /\ Turn(h, g[2]) \in 0..2*h
        /\ Both(Meets(n, g)) = Both(Game(h, Turn(h, g[2]), g[3] - 1))
    BY <1>1, GameOfCircle
  <1>3. /\ f = <<f[1], f[2], f[3]>> /\ f[1] \in {1, 2} /\ f[2] \in 1 .. 2*h + 1
        /\ f[3] \in Int /\ f[3] - 1 \in 0..h
        /\ Both(Meets(n, f)) = Both(Game(h, Turn(h, f[2]), f[3] - 1))
    BY <1>1, GameOfCircle
  <1>4. g[1] = f[1] /\ g[2] = f[2]
    <2> DEFINE a == g[1] - 1
               b == f[1] - 1
               d == Rounds(n)
    <2>1. /\ a \in Int /\ b \in Int /\ d \in Nat
          /\ g[2] \in 1 .. d /\ f[2] \in 1 .. d /\ a * d + g[2] = b * d + f[2]
      BY <1>1, <1>2, <1>3
    <2>2. a = b /\ g[2] = f[2]
      <3> HIDE DEF a, b, d
      <3> QED
        BY <2>1, Digits
    <2> QED
      BY <1>2, <1>3, <2>2
  <1>5. g[3] - 1 # f[3] - 1
    BY <1>2, <1>3, <1>4
  <1> QED
    BY <1>2, <1>3, <1>4, <1>5, OneGameARound

Couple(x, y) == {x, y}

\* Any two teams have one game in each leg.
LEMMA GameOfPair ==
    ASSUME NEW n \in Nat, n >= 2, NEW legs \in Nat, NEW leg \in 1 .. LegsPlayed(legs),
           NEW x \in 1..n, NEW y \in 1..n, x # y
    PROVE  /\ \E g \in Games(n, legs) : g[1] = leg /\ Both(Meets(n, g)) = Couple(x, y)
           /\ \A g, f \in Games(n, legs) :
                 (g[1] = leg /\ f[1] = leg /\ Both(Meets(n, g)) = Couple(x, y) /\ Both(Meets(n, f)) = Couple(x, y))
                    => g = f
  <1>1. PICK h \in Nat : /\ n + (n % 2) = 2*h + 2 /\ n <= 2*h + 2
                         /\ Rounds(n) = 2*h + 1 /\ Half(n) = h + 1
    BY CalendarSize
  <1>2. \E g \in Games(n, legs) : g[1] = leg /\ Both(Meets(n, g)) = {x, y}
    <2>1. x \in 1..2*h + 2 /\ y \in 1..2*h + 2
      BY <1>1
    <2>2. PICK c \in 0..2*h, k \in 0..h : Both(Game(h, c, k)) = {x, y}
      BY <2>1, EveryPairPlays
    <2> DEFINE r == IF c = 0 THEN 2*h + 1 ELSE c
               g == <<leg, r, k + 1>>
    <2>3. r \in 1..2*h + 1 /\ Turn(h, r) = c
      BY DEF Turn
    <2> HIDE DEF r
    <2>4. leg \in {1, 2} /\ k + 1 \in 1..h + 1
      BY DEF LegsPlayed
    <2>5. Both(Meeting(n, leg, r, k + 1)) = {x, y}
      <3>1. Both(Meeting(n, leg, r, k + 1)) = Both(Game(h, Turn(h, r), k))
        <4> HIDE DEF g
        <4> QED
          BY <1>1, <2>3, <2>4, MeetingGame
      <3> QED
        BY <2>2, <2>3, <3>1
    <2>6. g \in Games(n, legs)
      <3>1. \A e \in {1, 2} : Meeting(n, leg, r, k + 1)[e] \in {x, y}
        BY <2>5 DEF Both
      <3>2. \A e \in {1, 2} : Meeting(n, leg, r, k + 1)[e] <= n
        BY <3>1
      <3> QED
        BY <1>1, <2>3, <2>4, <3>2 DEF Games
    <2>7. g[1] = leg /\ Meets(n, g) = Meeting(n, leg, r, k + 1)
      BY DEF Meets
    <2> HIDE DEF g
    <2> QED
      BY <2>5, <2>6, <2>7
  <1>3. ASSUME NEW g \in Games(n, legs), NEW f \in Games(n, legs), g[1] = leg, f[1] = leg,
               Both(Meets(n, g)) = {x, y}, Both(Meets(n, f)) = {x, y}
        PROVE  g = f
    <2>1. /\ g = <<g[1], g[2], g[3]>> /\ g[2] \in 1 .. 2*h + 1
          /\ g[3] \in Int /\ g[3] - 1 \in 0..h /\ Turn(h, g[2]) \in 0..2*h
          /\ Both(Meets(n, g)) = Both(Game(h, Turn(h, g[2]), g[3] - 1))
      BY <1>1, GameOfCircle
    <2>2. /\ f = <<f[1], f[2], f[3]>> /\ f[2] \in 1 .. 2*h + 1
          /\ f[3] \in Int /\ f[3] - 1 \in 0..h /\ Turn(h, f[2]) \in 0..2*h
          /\ Both(Meets(n, f)) = Both(Game(h, Turn(h, f[2]), f[3] - 1))
      BY <1>1, GameOfCircle
    <2>3. Turn(h, g[2]) = Turn(h, f[2]) /\ g[3] - 1 = f[3] - 1
      <3>1. Both(Game(h, Turn(h, g[2]), g[3] - 1)) = Both(Game(h, Turn(h, f[2]), f[3] - 1))
        BY <1>3, <2>1, <2>2
      <3> DEFINE c == Turn(h, g[2])
                 d == Turn(h, f[2])
                 k == g[3] - 1
                 l == f[3] - 1
      <3>2. /\ c \in 0..2*h /\ d \in 0..2*h /\ k \in 0..h /\ l \in 0..h
            /\ Both(Game(h, c, k)) = Both(Game(h, d, l))
        BY <2>1, <2>2, <3>1
      <3>3. c = d /\ k = l
        <4> HIDE DEF c, d, k, l
        <4> QED
          BY <3>2, OneGameAPair
      <3> QED
        BY <3>3
    <2>4. g[2] = f[2]
      BY <2>1, <2>2, <2>3 DEF Turn
    <2> QED
      BY <1>3, <2>1, <2>2, <2>3, <2>4
  <1> QED
    BY <1>2, <1>3 DEF Couple

\* Two that differ are two.
LEMMA TwoElements ==
    ASSUME NEW x, NEW y, x # y
    PROVE  Cardinality({x, y}) = 2
  <1>1. IsFiniteSet({x}) /\ Cardinality({x}) = 1
    BY FS_Singleton
  <1>2. y \notin {x}
    OBVIOUS
  <1>3. Cardinality({x} \union {y}) = Cardinality({x}) + 1
    BY <1>1, <1>2, FS_AddElement
  <1>4. {x} \union {y} = {x, y}
    OBVIOUS
  <1>5. Cardinality({x, y}) = 1 + 1
    BY <1>1, <1>3, <1>4, Zenon
  <1> QED
    BY <1>5

\* A row of group_matches.
Match == [round : Nat, a : Team, b : Team \union {Nobody}, sa : Nat, sb : Nat,
          status : {"pending", "scheduled", "live", "completed"}]

\* EveryPairInEachLeg of given matches.
PairsMeet(ms, teams, legs) ==
    \A t, u \in teams : t # u =>
       LET meetings == {i \in DOMAIN ms : Sides(ms[i]) = {t, u}}
       IN  /\ Cardinality(meetings) = LegsPlayed(legs)
           /\ legs >= 2 => \E i \in meetings : ms[i].a = t

\* The calendar of a round robin can be played, and is complete.
LEMMA ScheduleFair ==
    ASSUME NEW teams \in Seq(Team), Len(teams) >= 2, IsInjective(teams), NEW legs \in Nat
    PROVE  /\ Schedule(teams, legs) \in Seq(Match)
           /\ OneSeatEach(Schedule(teams, legs))
           /\ PairsMeet(Schedule(teams, legs), ToSet(teams), legs)
  <1> DEFINE n == Len(teams)
             all == Games(n, legs)
             ms == Schedule(teams, legs)
             Made(g) == Fixture((g[1] - 1) * Rounds(n) + g[2], teams[Meets(n, g)[1]], teams[Meets(n, g)[2]])
             Round(g) == (g[1] - 1) * Rounds(n) + g[2]
  <1>1. PICK games \in [1 .. Cardinality(all) -> all] :
          /\ Cardinality(all) \in Nat
          /\ \A k, l \in 1 .. Cardinality(all) : games[k] = games[l] => k = l
          /\ \A g \in all : \E k \in 1 .. Cardinality(all) : games[k] = g
          /\ ms = [k \in 1 .. Cardinality(all) |-> Made(games[k])]
    BY ScheduleGames DEF Meets
  <1>2. n \in Nat /\ n >= 2 /\ \A i \in 1..n : teams[i] \in Team
    OBVIOUS
  <1>3. ASSUME NEW g \in all
        PROVE  /\ g[1] \in {1, 2} /\ g[1] \in 1 .. LegsPlayed(legs)
               /\ Meets(n, g)[1] \in 1..n /\ Meets(n, g)[2] \in 1..n /\ Meets(n, g)[1] # Meets(n, g)[2]
    BY <1>2, CalendarSize, GameOfCircle
  <1>4. ASSUME NEW k \in DOMAIN ms
        PROVE  /\ k \in 1 .. Cardinality(all) /\ games[k] \in all
               /\ ms[k].round = Round(games[k])
               /\ ms[k].a = teams[Meets(n, games[k])[1]] /\ ms[k].b = teams[Meets(n, games[k])[2]]
               /\ ms[k].a \in Team /\ ms[k].b \in Team
               /\ Sides(ms[k]) = {teams[x] : x \in Both(Meets(n, games[k]))}
    <2>1. k \in 1 .. Cardinality(all) /\ games[k] \in all /\ ms[k] = Made(games[k])
      BY <1>1
    <2>2. /\ ms[k].round = Round(games[k])
          /\ ms[k].a = teams[Meets(n, games[k])[1]] /\ ms[k].b = teams[Meets(n, games[k])[2]]
      BY <2>1 DEF Fixture
    <2>3. ms[k].a \in Team /\ ms[k].b \in Team
      BY <1>2, <1>3, <2>1, <2>2
    <2>4. Sides(ms[k]) = {ms[k].a, ms[k].b}
      BY <2>3, TeamAssumption DEF Sides
    <2> QED
      BY <2>1, <2>2, <2>3, <2>4 DEF Both
  <1>10. ASSUME NEW leg \in 1 .. LegsPlayed(legs), NEW x \in 1..n, NEW y \in 1..n, x # y
         PROVE  /\ \E g \in all : g[1] = leg /\ Both(Meets(n, g)) = Couple(x, y)
                /\ \A g, f \in all :
                      (g[1] = leg /\ f[1] = leg /\ Both(Meets(n, g)) = Couple(x, y) /\ Both(Meets(n, f)) = Couple(x, y))
                         => g = f
    <2> HIDE DEF n
    <2>1. n \in Nat /\ n >= 2 /\ legs \in Nat /\ all = Games(n, legs)
      BY <1>2
    <2> HIDE DEF all
    <2>2. \E g \in Games(n, legs) : g[1] = leg /\ Both(Meets(n, g)) = Couple(x, y)
      BY <1>10, <2>1, GameOfPair
    <2>3. ASSUME NEW g \in Games(n, legs), NEW f \in Games(n, legs), g[1] = leg, f[1] = leg,
                 Both(Meets(n, g)) = Couple(x, y), Both(Meets(n, f)) = Couple(x, y)
          PROVE  g = f
      BY <1>10, <2>1, <2>3, GameOfPair
    <2> QED
      BY <2>1, <2>2, <2>3
  <1>11. ms \in Seq(Match)
    <2>1. ASSUME NEW k \in 1 .. Cardinality(all) PROVE Made(games[k]) \in Match
      <3> DEFINE g == games[k]
      <3>1. g \in all
        BY <1>1
      <3> HIDE DEF g
      <3>2. teams[Meets(n, g)[1]] \in Team /\ teams[Meets(n, g)[2]] \in Team
        BY <1>2, <1>3, <3>1
      <3>3. (g[1] - 1) * Rounds(n) + g[2] \in Nat
        <4>1. g[1] \in {1, 2} /\ g[2] \in Nat /\ Rounds(n) \in Nat
          <5>1. PICK h \in Nat : /\ n + (n % 2) = 2*h + 2 /\ n <= 2*h + 2
                                 /\ Rounds(n) = 2*h + 1 /\ Half(n) = h + 1
            BY <1>2, CalendarSize
          <5>2. g[1] \in {1, 2} /\ g[2] \in 1 .. 2*h + 1
            BY <1>2, <3>1, <5>1, GameOfCircle
          <5> QED
            BY <5>1, <5>2
        <4>2. CASE g[1] = 1
          BY <4>1, <4>2
        <4>3. CASE g[1] = 2
          BY <4>1, <4>3
        <4> QED
          BY <4>1, <4>2, <4>3
      <3>4. Made(g) \in Match
        BY <3>2, <3>3 DEF Fixture, Match
      <3> QED
        BY <3>4 DEF g
    <2>2. ms \in [1 .. Cardinality(all) -> Match]
      BY <1>1, <2>1
    <2>3. Cardinality(all) \in Nat
      BY <1>1
    <2> HIDE DEF ms, all
    <2> QED
      BY <2>2, <2>3
  <1> HIDE DEF ms, all, n, Round
  <1>5. ASSUME NEW g \in all, NEW f \in all, g # f, Round(g) = Round(f)
        PROVE  Both(Meets(n, g)) \intersect Both(Meets(n, f)) = {}
    BY <1>2, <1>5, RoundsOfGames DEF all, Round
  <1>6. ASSUME NEW g \in all PROVE Both(Meets(n, g)) \subseteq 1..n
    BY <1>3 DEF Both
  <1>7. \A x, y \in 1..n : teams[x] = teams[y] => x = y
    BY DEF IsInjective, n
  <1>8. OneSeatEach(ms)
    <2> SUFFICES ASSUME NEW i \in DOMAIN ms, NEW j \in DOMAIN ms, i # j, ms[i].round = ms[j].round
                 PROVE  /\ Sides(ms[i]) \intersect Sides(ms[j]) = {}
                        /\ Nobody \notin {ms[i].b} \intersect {ms[j].b}
      BY SMTT(30) DEF OneSeatEach
    <2>1. games[i] # games[j] /\ Round(games[i]) = Round(games[j])
      BY <1>1, <1>4
    <2>2. Both(Meets(n, games[i])) \intersect Both(Meets(n, games[j])) = {}
      BY <1>4, <1>5, <2>1
    <2>3. Sides(ms[i]) \intersect Sides(ms[j]) = {}
      BY <1>4, <1>6, <1>7, <2>2
    <2> QED
      BY <1>4, <2>3, TeamAssumption
  <1>9. PairsMeet(ms, ToSet(teams), legs)
    <2> SUFFICES ASSUME NEW t \in ToSet(teams), NEW u \in ToSet(teams), t # u
                 PROVE  LET meetings == {i \in DOMAIN ms : Sides(ms[i]) = {t, u}}
                        IN  /\ Cardinality(meetings) = LegsPlayed(legs)
                            /\ legs >= 2 => \E i \in meetings : ms[i].a = t
      BY DEF PairsMeet
    <2> DEFINE meetings == {i \in DOMAIN ms : Sides(ms[i]) = {t, u}}
    <2>1. PICK x \in 1..n, y \in 1..n : t = teams[x] /\ u = teams[y] /\ x # y
      BY DEF ToSet, n
    <2>2. \A i \in DOMAIN ms : i \in meetings <=> Both(Meets(n, games[i])) = {x, y}
      <3> SUFFICES ASSUME NEW i \in DOMAIN ms
                   PROVE  Sides(ms[i]) = {t, u} <=> Both(Meets(n, games[i])) = {x, y}
        OBVIOUS
      <3>1. /\ Sides(ms[i]) = {teams[z] : z \in Both(Meets(n, games[i]))}
            /\ Both(Meets(n, games[i])) \subseteq 1..n
        BY <1>4, <1>6
      <3>2. CASE Both(Meets(n, games[i])) = {x, y}
        BY <2>1, <3>1, <3>2
      <3>3. CASE Sides(ms[i]) = {t, u}
        <4> DEFINE both == Both(Meets(n, games[i]))
        <4> HIDE DEF both
        <4>0. both \subseteq 1..n /\ {teams[z] : z \in both} = {t, u}
          BY <3>1, <3>3 DEF both
        <4>1. \A z \in both : z = x \/ z = y
          <5> SUFFICES ASSUME NEW z \in both PROVE z = x \/ z = y
            OBVIOUS
          <5>1. z \in 1..n /\ teams[z] \in {t, u}
            BY <4>0
          <5>2. teams[z] = teams[x] \/ teams[z] = teams[y]
            BY <2>1, <5>1
          <5> QED
            BY <1>7, <2>1, <5>1, <5>2
        <4>2. x \in both /\ y \in both
          <5>1. PICK v \in both : teams[v] = t
            BY <4>0
          <5>2. PICK w \in both : teams[w] = u
            BY <4>0
          <5>3. v = x
            BY <1>7, <2>1, <4>0, <5>1
          <5>4. w = y
            BY <1>7, <2>1, <4>0, <5>2
          <5> QED
            BY <5>3, <5>4
        <4>3. both = {x, y}
          BY <4>1, <4>2
        <4> QED
          BY <3>3, <4>3 DEF both
      <3> QED
        BY <3>2, <3>3
    <2>3. ASSUME NEW leg \in 1 .. LegsPlayed(legs)
          PROVE  /\ \E i \in meetings : games[i][1] = leg
                 /\ \A i, j \in meetings : games[i][1] = leg /\ games[j][1] = leg => i = j
      <3>1. /\ \E g \in all : g[1] = leg /\ Both(Meets(n, g)) = {x, y}
            /\ \A g, f \in all :
                  (g[1] = leg /\ f[1] = leg /\ Both(Meets(n, g)) = {x, y} /\ Both(Meets(n, f)) = {x, y})
                     => g = f
        <4>1. /\ \E g \in all : g[1] = leg /\ Both(Meets(n, g)) = Couple(x, y)
              /\ \A g, f \in all :
                    (g[1] = leg /\ f[1] = leg /\ Both(Meets(n, g)) = Couple(x, y)
                        /\ Both(Meets(n, f)) = Couple(x, y))
                       => g = f
          BY <1>10, <2>1
        <4> QED
          BY <4>1 DEF Couple
      <3>2. DOMAIN ms = 1 .. Cardinality(all)
        BY <1>1
      <3>3. \E i \in meetings : games[i][1] = leg
        <4>1. PICK g \in all : g[1] = leg /\ Both(Meets(n, g)) = {x, y}
          BY <3>1
        <4>2. PICK i \in DOMAIN ms : games[i] = g
          BY <1>1, <3>2
        <4>3. i \in meetings
          BY <2>2, <4>1, <4>2
        <4> QED
          BY <4>1, <4>2, <4>3
      <3>4. ASSUME NEW i \in meetings, NEW j \in meetings, games[i][1] = leg, games[j][1] = leg
            PROVE  i = j
        <4>1. /\ i \in DOMAIN ms /\ j \in DOMAIN ms /\ games[i] \in all /\ games[j] \in all
              /\ Both(Meets(n, games[i])) = {x, y} /\ Both(Meets(n, games[j])) = {x, y}
          BY <1>4, <2>2
        <4>2. games[i] = games[j]
          BY <3>1, <3>4, <4>1
        <4> QED
          BY <1>1, <3>2, <4>1, <4>2
      <3> QED
        BY <3>3, <3>4
    <2>4. \A i \in meetings : games[i][1] \in 1 .. LegsPlayed(legs)
      BY <1>3, <1>4
    <2> HIDE DEF meetings
    <2>5. CASE legs < 2
      <3>1. LegsPlayed(legs) = 1
        BY <2>5 DEF LegsPlayed
      <3>2. PICK i \in meetings : games[i][1] = 1
        BY <2>3, <3>1
      <3>3. meetings = {i}
        BY <2>3, <2>4, <3>1, <3>2
      <3>4. Cardinality(meetings) = 1
        BY <3>3, FS_Singleton
      <3> QED
        BY <2>5, <3>1, <3>4 DEF meetings
    <2>6. CASE legs >= 2
      <3>1. LegsPlayed(legs) = 2
        BY <2>6 DEF LegsPlayed
      <3>2. PICK i \in meetings : games[i][1] = 1
        BY <2>3, <3>1
      <3>3. PICK j \in meetings : games[j][1] = 2
        BY <2>3, <3>1
      <3>4. meetings = {i, j} /\ i # j
        <4>1. \A k \in meetings : games[k][1] = 1 \/ games[k][1] = 2
          BY <2>4, <3>1
        <4>2. \A k \in meetings : k = i \/ k = j
          BY <2>3, <3>1, <3>2, <3>3, <4>1
        <4> QED
          BY <3>2, <3>3, <4>2
      <3>5. Cardinality(meetings) = 2
        BY <3>4, TwoElements
      <3>6. ms[i].a = t \/ ms[j].a = t
        <4> DEFINE g == games[i]
                   f == games[j]
        <4>1. /\ i \in DOMAIN ms /\ j \in DOMAIN ms /\ g \in all /\ f \in all
              /\ Both(Meets(n, g)) = {x, y} /\ Both(Meets(n, f)) = {x, y}
          BY <1>4, <2>2, <3>2, <3>3 DEF meetings
        <4>2. Meets(n, g)[1] = Meets(n, f)[2] /\ Meets(n, g)[2] = Meets(n, f)[1]
          <5>1. PICK h \in Nat : /\ n + (n % 2) = 2*h + 2 /\ n <= 2*h + 2
                                 /\ Rounds(n) = 2*h + 1 /\ Half(n) = h + 1
            BY <1>2, CalendarSize
          <5> HIDE DEF g, f
          <5>2. /\ g[2] \in 1 .. 2*h + 1 /\ g[3] \in Int /\ g[3] - 1 \in 0..h
                /\ Turn(h, g[2]) \in 0..2*h
                /\ Both(Meets(n, g)) = Both(Game(h, Turn(h, g[2]), g[3] - 1))
            <6>1. g \in Games(n, legs)
              BY <4>1 DEF all
            <6> QED
              BY <1>2, <5>1, <6>1, GameOfCircle
          <5>3. /\ f[2] \in 1 .. 2*h + 1 /\ f[3] \in Int /\ f[3] - 1 \in 0..h
                /\ Turn(h, f[2]) \in 0..2*h
                /\ Both(Meets(n, f)) = Both(Game(h, Turn(h, f[2]), f[3] - 1))
            <6>1. f \in Games(n, legs)
              BY <4>1 DEF all
            <6> QED
              BY <1>2, <5>1, <6>1, GameOfCircle
          <5>4. Turn(h, g[2]) = Turn(h, f[2]) /\ g[3] - 1 = f[3] - 1
            <6> DEFINE c == Turn(h, g[2])
                       d == Turn(h, f[2])
                       k == g[3] - 1
                       l == f[3] - 1
            <6>1. /\ c \in 0..2*h /\ d \in 0..2*h /\ k \in 0..h /\ l \in 0..h
                  /\ Both(Game(h, c, k)) = Both(Game(h, d, l))
              BY <4>1, <5>2, <5>3
            <6>2. c = d /\ k = l
              <7> HIDE DEF c, d, k, l
              <7> QED
                BY <6>1, OneGameAPair
            <6> QED
              BY <6>2
          <5>5. g[2] = f[2] /\ g[3] = f[3]
            <6> DEFINE r == g[2]
                       s == f[2]
                       k == g[3]
                       l == f[3]
            <6>1. /\ r \in 1 .. 2*h + 1 /\ s \in 1 .. 2*h + 1 /\ k \in Int /\ l \in Int
                  /\ Turn(h, r) = Turn(h, s) /\ k - 1 = l - 1
              BY <5>2, <5>3, <5>4
            <6>2. r = s /\ k = l
              <7> HIDE DEF r, s, k, l
              <7> QED
                BY <6>1, TurnOnce
            <6> QED
              BY <6>2
          <5> DEFINE k == g[3] - 1
          <5>6. k \in 0..h /\ g[3] = k + 1 /\ f[3] = k + 1 /\ g[1] = 1 /\ f[1] = 2
            BY <3>2, <3>3, <5>2, <5>3, <5>5, SMTT(30) DEF g, f
          <5> HIDE DEF k
          <5>7. /\ Meeting(n, 1, g[2], k + 1)[1] = Meeting(n, 2, g[2], k + 1)[2]
                /\ Meeting(n, 1, g[2], k + 1)[2] = Meeting(n, 2, g[2], k + 1)[1]
            BY <1>2, <5>1, <5>2, <5>6, MeetingGame
          <5> QED
            BY <5>5, <5>6, <5>7 DEF Meets
        <4>3. /\ ms[i].a = teams[Meets(n, g)[1]] /\ ms[j].a = teams[Meets(n, f)[1]]
          BY <1>4, <4>1
        <4> HIDE DEF g, f
        <4>4. Meets(n, g)[1] = x \/ Meets(n, f)[1] = x
          BY <4>1, <4>2 DEF Both
        <4> QED
          BY <2>1, <4>3, <4>4
      <3> QED
        BY <3>1, <3>2, <3>3, <3>5, <3>6 DEF meetings
    <2> QED
      BY <2>5, <2>6
  <1> QED
    BY <1>8, <1>9, <1>11 DEF ms

-----------------------------------------------------------------------------
(* The pairs of a Swiss round *)

\* Who is left after one more pair.
Rest(rest, met) == Without(rest, Opponent(rest, met))

\* The function that Unpaired defines exists.
LEMMA UnpairedStep ==
    ASSUME NEW order \in Seq(Team), NEW met
    PROVE  LET left == Unpaired(order, met)
           IN  /\ left[0] = order
               /\ \A k \in 1 .. Len(order) \div 2 : left[k] = Rest(left[k - 1], met)
  <1> DEFINE h == Len(order) \div 2
             Fits(f, m) == f = [k \in 0..m |-> IF k = 0 THEN order ELSE Rest(f[k - 1], met)]
             S == {m \in 0..h : \E f : Fits(f, m)}
  <1>1. h \in Nat
    OBVIOUS
  <1>2. 0 \in S
    <2> DEFINE f == [k \in 0..0 |-> order]
    <2>1. f = [k \in 0..0 |-> IF k = 0 THEN order ELSE Rest(f[k - 1], met)]
      OBVIOUS
    <2>2. Fits(f, 0) /\ 0 \in 0..h
      BY <1>1, <2>1
    <2> HIDE DEF Fits, f, h
    <2> QED
      BY <2>2
  <1>3. ASSUME NEW m \in 0..h, m \in S, m + 1 <= h PROVE m + 1 \in S
    <2>1. PICK f : Fits(f, m)
      BY <1>3
    <2> DEFINE g == [k \in 0 .. m + 1 |-> IF k = m + 1 THEN Rest(f[m], met) ELSE f[k]]
               G == [k \in 0 .. m + 1 |-> IF k = 0 THEN order ELSE Rest(g[k - 1], met)]
    <2>2. ASSUME NEW k \in 0 .. m + 1 PROVE g[k] = G[k]
      <3>1. CASE k = m + 1
        <4>1. g[k - 1] = f[m] /\ g[k] = Rest(f[m], met)
          BY <3>1
        <4> QED
          BY <3>1, <4>1
      <3>2. CASE k # m + 1 /\ k # 0
        <4>1. k - 1 \in 0 .. m + 1 /\ k - 1 # m + 1 /\ k \in 0..m
          BY <3>2
        <4>2. g[k - 1] = f[k - 1] /\ g[k] = f[k]
          BY <3>2, <4>1
        <4>3. f[k] = Rest(f[k - 1], met)
          BY <2>1, <3>2, <4>1
        <4> QED
          BY <3>2, <4>2, <4>3
      <3>3. CASE k # m + 1 /\ k = 0
        <4>1. g[0] = f[0] /\ f[0] = order
          BY <2>1, <3>3
        <4> QED
          BY <3>3, <4>1
      <3> QED
        BY <3>1, <3>2, <3>3
    <2>3. g = G
      <3> HIDE DEF Fits
      <3>1. g = [k \in 0 .. m + 1 |-> g[k]] /\ G = [k \in 0 .. m + 1 |-> G[k]]
        OBVIOUS
      <3> HIDE DEF g, G
      <3> QED
        BY <2>2, <3>1
    <2>4. Fits(g, m + 1)
      BY <2>3
    <2>5. m + 1 \in 0..h
      BY <1>3
    <2> HIDE DEF Fits, g
    <2> QED
      BY <2>4, <2>5
  <1>4. h \in S
    <2> HIDE DEF S, h
    <2>1. \A k \in 0..h : (k \in S /\ k + 1 <= h) => k + 1 \in S
      BY <1>3
    <2>2. \A k \in 0..h : k \in S
      BY <1>1, <1>2, <2>1, Climb
    <2> QED
      BY <1>1, <2>2
  <1>5. Unpaired(order, met) = CHOOSE f : Fits(f, h)
    BY DEF Unpaired, Rest
  <1>6. Fits(Unpaired(order, met), h)
    <2> HIDE DEF Fits
    <2>1. \E f : Fits(f, h)
      BY <1>4
    <2> QED
      BY <1>5, <2>1
  <1> HIDE DEF h
  <1> QED
    BY <1>1, <1>6 DEF h

\* The opponent is behind, and has not been met unless everybody behind has.
LEMMA OpponentFits ==
    ASSUME NEW rest \in Seq(Team), Len(rest) >= 2, NEW met
    PROVE  /\ Opponent(rest, met) \in 2 .. Len(rest)
           /\ {rest[1], rest[Opponent(rest, met)]} \in met =>
                 \A j \in 2 .. Len(rest) : {rest[1], rest[j]} \in met
  <1> DEFINE new == {j \in 2 .. Len(rest) : {rest[1], rest[j]} \notin met}
  <1>1. CASE new = {}
    <2>1. Opponent(rest, met) = 2
      BY <1>1 DEF Opponent
    <2>2. \A j \in 2 .. Len(rest) : {rest[1], rest[j]} \in met
      BY <1>1
    <2> HIDE DEF new
    <2> QED
      BY <2>1, <2>2
  <1>2. CASE new # {}
    <2>1. PICK j \in new : \A l \in new : <<l, j>> \notin OpToRel(<, Nat)
      <3>1. new \subseteq Nat
        OBVIOUS
      <3> HIDE DEF new
      <3> QED
        BY <1>2, <3>1, NatLessThanWellFounded, WFMin
    <2>2. new \subseteq Nat /\ \A l \in new : j <= l
      <3>1. ASSUME NEW l \in new, l < j PROVE FALSE
        <4>1. l \in Nat /\ j \in Nat
          OBVIOUS
        <4>2. <<l, j>> \in OpToRel(<, Nat)
          BY <3>1, <4>1 DEF OpToRel
        <4> QED
          BY <2>1, <4>2
      <3> QED
        BY <3>1
    <2>3. Min(new) \in new
      <3> HIDE DEF new
      <3> QED
        BY <2>2 DEF Min
    <2>4. Opponent(rest, met) = Min(new)
      <3> HIDE DEF Min
      <3> QED
        BY <1>2 DEF Opponent
    <2> QED
      BY <2>3, <2>4
  <1> QED
    BY <1>1, <1>2

\* Where the i-th of those left was.
From(j, i) == IF i < j - 1 THEN i + 1 ELSE i + 2

\* Taking out the first and the j-th keeps the order of the others.
LEMMA WithoutFits ==
    ASSUME NEW rest \in Seq(Team), Len(rest) >= 2, NEW j \in 2 .. Len(rest)
    PROVE  /\ Without(rest, j) \in Seq(Team)
           /\ Len(Without(rest, j)) = Len(rest) - 2
           /\ \A i \in 1 .. Len(rest) - 2 :
                 /\ From(j, i) \in 2 .. Len(rest) /\ From(j, i) # j
                 /\ Without(rest, j)[i] = rest[From(j, i)]
           /\ \A i, k \in 1 .. Len(rest) - 2 : i < k => From(j, i) < From(j, k)
           /\ \A x \in 2 .. Len(rest) : x # j => \E i \in 1 .. Len(rest) - 2 : From(j, i) = x
  <1> DEFINE n == Len(rest) - 2
             new == Without(rest, j)
  <1>1. n \in Nat
    OBVIOUS
  <1>2. \A i \in 1..n : From(j, i) \in 2 .. Len(rest) /\ From(j, i) # j
    BY DEF From
  <1>3. new = [i \in 1..n |-> rest[From(j, i)]]
    BY DEF Without, From
  <1>4. new \in [1..n -> Team]
    BY <1>2, <1>3
  <1>5. new \in Seq(Team) /\ Len(new) = n
    <2> HIDE DEF new
    <2> QED
      BY <1>1, <1>4
  <1>6. \A x \in 2 .. Len(rest) : x # j => \E i \in 1..n : From(j, i) = x
    <2> SUFFICES ASSUME NEW x \in 2 .. Len(rest), x # j PROVE \E i \in 1..n : From(j, i) = x
      OBVIOUS
    <2>1. CASE x < j
      <3>1. x - 1 \in 1..n /\ From(j, x - 1) = x
        BY <2>1 DEF From
      <3> QED
        BY <3>1
    <2>2. CASE x > j
      <3>1. x - 2 \in 1..n /\ From(j, x - 2) = x
        BY <2>2 DEF From
      <3> QED
        BY <3>1
    <2> QED
      BY <2>1, <2>2
  <1>7. \A i, k \in 1..n : i < k => From(j, i) < From(j, k)
    BY DEF From
  <1> QED
    BY <1>2, <1>3, <1>5, <1>6, <1>7

\* Where each team stands in a list.
Stands(pos, order) == \A i \in 1 .. Len(order) : pos[order[i]] = i

Inline(pos, s) == \A i, j \in 1 .. Len(s) : i < j => pos[s[i]] < pos[s[j]]

First(rest) == rest[1]

Second(rest, met) == rest[Opponent(rest, met)]

Members(s) == {s[i] : i \in 1 .. Len(s)}

\* One more pair: the first of those left, who is in front of the others, and
\* somebody else, are left no longer, and the others are, in the same order.
LEMMA OnePair ==
    ASSUME NEW rest \in Seq(Team), Len(rest) >= 2, NEW met, NEW pos,
           \A i \in 1 .. Len(rest) : pos[rest[i]] \in Nat, Inline(pos, rest)
    PROVE  LET new == Rest(rest, met)
               a   == First(rest)
               b   == Second(rest, met)
           IN  /\ new \in Seq(Team) /\ Len(new) = Len(rest) - 2 /\ Inline(pos, new)
               /\ a \in Members(rest) /\ b \in Members(rest) /\ a # b
               /\ Members(new) = Members(rest) \ {a, b}
               /\ \A z \in Members(rest) : z # a => pos[a] < pos[z]
               /\ {a, b} \in met => \A z \in Members(rest) : z # a => {a, z} \in met
  <1> DEFINE j == Opponent(rest, met)
             n == Len(rest) - 2
             new == Rest(rest, met)
             a == First(rest)
             b == Second(rest, met)
  <1>1. /\ j \in 2 .. Len(rest)
        /\ {rest[1], rest[j]} \in met => \A k \in 2 .. Len(rest) : {rest[1], rest[k]} \in met
    BY OpponentFits
  <1>2. /\ new \in Seq(Team) /\ Len(new) = n
        /\ \A i \in 1..n : From(j, i) \in 2 .. Len(rest) /\ From(j, i) # j /\ new[i] = rest[From(j, i)]
        /\ \A i, k \in 1..n : i < k => From(j, i) < From(j, k)
        /\ \A x \in 2 .. Len(rest) : x # j => \E i \in 1..n : From(j, i) = x
    <2>1. new = Without(rest, j)
      BY DEF Rest
    <2> HIDE DEF j, new
    <2>2. j \in 2 .. Len(rest)
      BY <1>1
    <2>3. /\ Without(rest, j) \in Seq(Team)
          /\ Len(Without(rest, j)) = Len(rest) - 2
      BY <2>2, WithoutFits
    <2>4. \A i \in 1 .. Len(rest) - 2 :
             /\ From(j, i) \in 2 .. Len(rest) /\ From(j, i) # j
             /\ Without(rest, j)[i] = rest[From(j, i)]
      BY <2>2, WithoutFits
    <2>5. \A i, k \in 1 .. Len(rest) - 2 : i < k => From(j, i) < From(j, k)
      BY <2>2, WithoutFits
    <2>6. \A x \in 2 .. Len(rest) : x # j => \E i \in 1 .. Len(rest) - 2 : From(j, i) = x
      BY <2>2, WithoutFits
    <2> QED
      BY <2>1, <2>3, <2>4, <2>5, <2>6
  <1>3. a = rest[1] /\ b = rest[j]
    BY DEF First, Second
  <1> HIDE DEF j, new, a, b
  <1>4. Inline(pos, new)
    <2> SUFFICES ASSUME NEW i \in 1..n, NEW k \in 1..n, i < k PROVE pos[new[i]] < pos[new[k]]
      BY <1>2 DEF Inline
    <2>1. /\ new[i] = rest[From(j, i)] /\ new[k] = rest[From(j, k)] /\ From(j, i) < From(j, k)
          /\ From(j, i) \in 1 .. Len(rest) /\ From(j, k) \in 1 .. Len(rest)
      BY <1>2, SMTT(30)
    <2> QED
      BY <2>1 DEF Inline
  <1>5. \A i, k \in 1 .. Len(rest) : rest[i] = rest[k] => i = k
    BY DEF Inline
  <1>6. a \in Members(rest) /\ b \in Members(rest) /\ a # b
    BY <1>1, <1>3, <1>5 DEF Members
  <1>7. Members(new) = Members(rest) \ {a, b}
    <2>1. ASSUME NEW z \in Members(new) PROVE z \in Members(rest) \ {a, b}
      <3>1. PICK i \in 1..n : z = rest[From(j, i)] /\ From(j, i) \in 2 .. Len(rest) /\ From(j, i) # j
        BY <1>2, <2>1 DEF Members
      <3> QED
        BY <1>1, <1>3, <1>5, <3>1 DEF Members
    <2>2. ASSUME NEW z \in Members(rest) \ {a, b} PROVE z \in Members(new)
      <3>1. PICK x \in 1 .. Len(rest) : z = rest[x]
        BY <2>2 DEF Members
      <3>2. x \in 2 .. Len(rest) /\ x # j
        BY <1>3, <2>2, <3>1
      <3>3. PICK i \in 1..n : From(j, i) = x
        BY <1>2, <3>2
      <3> QED
        BY <1>2, <3>1, <3>3 DEF Members
    <2> QED
      BY <2>1, <2>2
  <1>8. ASSUME NEW z \in Members(rest), z # a
        PROVE  pos[a] < pos[z] /\ ({a, b} \in met => {a, z} \in met)
    <2>1. PICK x \in 1 .. Len(rest) : z = rest[x]
      BY DEF Members
    <2>2. x \in 2 .. Len(rest)
      BY <1>3, <1>8, <2>1
    <2> QED
      BY <1>1, <1>3, <2>1, <2>2 DEF Inline
  <1> QED
    BY <1>2, <1>4, <1>6, <1>7, <1>8 DEF new, a, b

\* Those left are in the order they were in, two fewer after each pair.
LEMMA LeftInLine ==
    ASSUME NEW order \in Seq(Team), NEW met, NEW pos, Stands(pos, order)
    PROVE  \A k \in 0 .. Len(order) \div 2 :
              LET rest == Unpaired(order, met)[k]
              IN  /\ rest \in Seq(Team) /\ Len(rest) = Len(order) - 2*k
                  /\ Inline(pos, rest) /\ Members(rest) \subseteq Members(order)
  <1> DEFINE h == Len(order) \div 2
             left == Unpaired(order, met)
             Good(k) == /\ left[k] \in Seq(Team) /\ Len(left[k]) = Len(order) - 2*k
                        /\ Inline(pos, left[k]) /\ Members(left[k]) \subseteq Members(order)
             S == {k \in 0..h : Good(k)}
  <1>1. h \in Nat /\ 2*h <= Len(order) /\ left[0] = order /\ \A k \in 1..h : left[k] = Rest(left[k - 1], met)
    <2>1. h \in Nat /\ 2*h <= Len(order)
      OBVIOUS
    <2> QED
      BY <2>1, UnpairedStep
  <1> HIDE DEF h, left
  <1>2. 0 \in S
    <2>1. Inline(pos, order)
      BY DEF Inline, Stands
    <2> QED
      BY <1>1, <2>1
  <1>3. ASSUME NEW k \in 0..h, k \in S, k + 1 <= h PROVE k + 1 \in S
    <2> DEFINE rest == left[k]
    <2>1. /\ rest \in Seq(Team) /\ Len(rest) = Len(order) - 2*k /\ Len(rest) >= 2
          /\ Inline(pos, rest) /\ Members(rest) \subseteq Members(order)
      <3>1. rest \in Seq(Team) /\ Inline(pos, rest) /\ Members(rest) \subseteq Members(order)
        BY <1>3
      <3>2. Len(rest) = Len(order) - 2*k
        BY <1>3
      <3>3. Len(order) - 2*k >= 2
        BY <1>1, <1>3
      <3> QED
        BY <3>1, <3>2, <3>3
    <2>2. left[k + 1] = Rest(rest, met)
      <3>1. k + 1 \in 1..h /\ (k + 1) - 1 = k
        BY <1>1, <1>3
      <3> QED
        BY <1>1, <3>1
    <2> HIDE DEF rest
    <2>3. \A i \in 1 .. Len(rest) : pos[rest[i]] \in Nat
      <3>1. \A z \in Members(order) : pos[z] \in Nat
        BY DEF Members, Stands
      <3>2. \A i \in 1 .. Len(rest) : rest[i] \in Members(rest)
        BY DEF Members
      <3> QED
        BY <2>1, <3>1, <3>2
    <2>4. /\ Rest(rest, met) \in Seq(Team) /\ Len(Rest(rest, met)) = Len(rest) - 2
          /\ Inline(pos, Rest(rest, met)) /\ Members(Rest(rest, met)) \subseteq Members(rest)
      <3>1. /\ Rest(rest, met) \in Seq(Team) /\ Len(Rest(rest, met)) = Len(rest) - 2
            /\ Inline(pos, Rest(rest, met))
            /\ Members(Rest(rest, met)) = Members(rest) \ {First(rest), Second(rest, met)}
        BY <2>1, <2>3, OnePair
      <3> QED
        BY <3>1
    <2>5. Good(k + 1)
      BY <1>1, <2>1, <2>2, <2>4
    <2> HIDE DEF Good
    <2> QED
      BY <1>1, <1>3, <2>5
  <1>4. \A k \in 0..h : k \in S
    <2> HIDE DEF S
    <2>1. \A k \in 0..h : (k \in S /\ k + 1 <= h) => k + 1 \in S
      BY <1>3
    <2> QED
      BY <1>1, <1>2, <2>1, Climb
  <1> QED
    BY <1>4 DEF h, left

\* The pairs take everybody once, but for the last of an odd number; and who
\* has to meet somebody again has met everybody behind that is not taken by
\* somebody in front.
LEMMA PairsInLine ==
    ASSUME NEW order \in Seq(Team), NEW met, NEW pos, Stands(pos, order)
    PROVE  LET h == Len(order) \div 2
               left == Unpaired(order, met)
               a(k) == First(left[k - 1])
               b(k) == Second(left[k - 1], met)
           IN  /\ \A k \in 1..h : a(k) \in Members(order) /\ b(k) \in Members(order) /\ a(k) # b(k)
               /\ \A k, l \in 1..h : k # l => {a(k), b(k)} \intersect {a(l), b(l)} = {}
               /\ \A k \in 1..h : {a(k), b(k)} \intersect Members(left[h]) = {}
               /\ \A t \in Members(order) : t \in Members(left[h]) \/ \E k \in 1..h : t \in {a(k), b(k)}
               /\ \A k \in 1..h, t \in Members(order) :
                     ({a(k), b(k)} \in met /\ pos[a(k)] < pos[t]) =>
                        \/ {a(k), t} \in met
                        \/ \E l \in 1..h : t = b(l) /\ pos[a(l)] < pos[a(k)]
  <1> DEFINE h == Len(order) \div 2
             left == Unpaired(order, met)
             a(k) == First(left[k - 1])
             b(k) == Second(left[k - 1], met)
             R(k) == Members(left[k])
  <1>1. h \in Nat /\ 2*h <= Len(order) /\ left[0] = order /\ \A k \in 1..h : left[k] = Rest(left[k - 1], met)
    <2>1. h \in Nat /\ 2*h <= Len(order)
      OBVIOUS
    <2> QED
      BY <2>1, UnpairedStep
  <1>2. \A k \in 0..h : /\ left[k] \in Seq(Team) /\ Len(left[k]) = Len(order) - 2*k
                        /\ Inline(pos, left[k]) /\ R(k) \subseteq Members(order)
    BY LeftInLine
  <1> HIDE DEF h, left
  <1>3. ASSUME NEW k \in 1..h
        PROVE  /\ k - 1 \in 0..h /\ k \in 0..h
               /\ a(k) \in R(k - 1) /\ b(k) \in R(k - 1) /\ a(k) # b(k)
               /\ R(k) = R(k - 1) \ {a(k), b(k)}
               /\ \A z \in R(k - 1) : z # a(k) => pos[a(k)] < pos[z]
               /\ {a(k), b(k)} \in met => \A z \in R(k - 1) : z # a(k) => {a(k), z} \in met
    <2> DEFINE rest == left[k - 1]
    <2>1. k - 1 \in 0..h /\ k \in 0..h
      BY <1>1
    <2>2. rest \in Seq(Team) /\ Len(rest) >= 2 /\ Inline(pos, rest) /\ Members(rest) \subseteq Members(order)
      <3>1. Len(order) - 2*(k - 1) >= 2
        BY <1>1
      <3>2. /\ rest \in Seq(Team) /\ Len(rest) = Len(order) - 2*(k - 1) /\ Inline(pos, rest)
            /\ Members(rest) \subseteq Members(order)
        BY <1>2, <2>1
      <3> QED
        BY <3>1, <3>2
    <2>3. left[k] = Rest(rest, met)
      BY <1>1
    <2> HIDE DEF rest
    <2>4. \A i \in 1 .. Len(rest) : pos[rest[i]] \in Nat
      <3>1. \A z \in Members(order) : pos[z] \in Nat
        BY DEF Members, Stands
      <3>2. \A i \in 1 .. Len(rest) : rest[i] \in Members(rest)
        BY DEF Members
      <3> QED
        BY <2>2, <3>1, <3>2
    <2>5. /\ First(rest) \in Members(rest) /\ Second(rest, met) \in Members(rest)
          /\ First(rest) # Second(rest, met)
          /\ Members(Rest(rest, met)) = Members(rest) \ {First(rest), Second(rest, met)}
          /\ \A z \in Members(rest) : z # First(rest) => pos[First(rest)] < pos[z]
          /\ {First(rest), Second(rest, met)} \in met =>
                \A z \in Members(rest) : z # First(rest) => {First(rest), z} \in met
      BY <2>2, <2>4, OnePair
    <2> QED
      BY <2>1, <2>3, <2>5 DEF rest
  <1> HIDE DEF a, b, R
  <1>4. \A l \in 0..h : \A k \in 0..l : R(l) \subseteq R(k)
    <2> DEFINE S == {l \in 0..h : \A k \in 0..l : R(l) \subseteq R(k)}
    <2>1. 0 \in S
      BY <1>1
    <2>2. ASSUME NEW l \in 0..h, l \in S, l + 1 <= h PROVE l + 1 \in S
      <3>1. l + 1 \in 1..h /\ (l + 1) - 1 = l
        BY <1>1, <2>2
      <3>2. R(l + 1) \subseteq R(l)
        <4>1. R(l + 1) = R((l + 1) - 1) \ {a(l + 1), b(l + 1)}
          BY <1>3, <3>1
        <4> QED
          BY <3>1, <4>1
      <3>3. ASSUME NEW k \in 0 .. l + 1 PROVE R(l + 1) \subseteq R(k)
        <4>1. CASE k = l + 1
          BY <4>1
        <4>2. CASE k # l + 1
          <5>1. k \in 0..l
            BY <4>2
          <5> QED
            BY <2>2, <3>2, <5>1
        <4> QED
          BY <4>1, <4>2
      <3> QED
        BY <3>1, <3>3
    <2>3. \A l \in 0..h : (l \in S /\ l + 1 <= h) => l + 1 \in S
      BY <2>2
    <2>4. \A l \in 0..h : l \in S
      <3> HIDE DEF S
      <3> QED
        BY <1>1, <2>1, <2>3, Climb
    <2> QED
      BY <2>4
  <1>5. \A l \in 0..h : \A t \in Members(order) : t \in R(l) \/ \E k \in 1..l : t \in {a(k), b(k)}
    <2> DEFINE S == {l \in 0..h : \A t \in Members(order) : t \in R(l) \/ \E k \in 1..l : t \in {a(k), b(k)}}
    <2>1. 0 \in S
      <3>1. R(0) = Members(order) /\ 0 \in 0..h
        BY <1>1 DEF R
      <3> QED
        BY <3>1
    <2>2. ASSUME NEW l \in 0..h, l \in S, l + 1 <= h PROVE l + 1 \in S
      <3>1. l + 1 \in 1..h /\ (l + 1) - 1 = l /\ l + 1 \in 0..h
        BY <1>1, <2>2
      <3>2. R(l + 1) = R(l) \ {a(l + 1), b(l + 1)}
        BY <1>3, <3>1
      <3>3. ASSUME NEW t \in Members(order)
            PROVE  t \in R(l + 1) \/ \E k \in 1 .. l + 1 : t \in {a(k), b(k)}
        <4>1. CASE t \in R(l)
          <5>1. l + 1 \in 1 .. l + 1
            BY <3>1
          <5> QED
            BY <3>2, <4>1, <5>1
        <4>2. CASE t \notin R(l)
          <5>1. PICK k \in 1..l : t \in {a(k), b(k)}
            BY <2>2, <4>2
          <5>2. k \in 1 .. l + 1
            BY <3>1
          <5> QED
            BY <5>1, <5>2
        <4> QED
          BY <4>1, <4>2
      <3> QED
        BY <3>1, <3>3
    <2>3. \A l \in 0..h : (l \in S /\ l + 1 <= h) => l + 1 \in S
      BY <2>2
    <2>4. \A l \in 0..h : l \in S
      <3> HIDE DEF S
      <3> QED
        BY <1>1, <2>1, <2>3, Climb
    <2> QED
      BY <2>4
  <1>6. ASSUME NEW k \in 1..h
        PROVE  a(k) \in Members(order) /\ b(k) \in Members(order) /\ a(k) # b(k)
    BY <1>2, <1>3
  <1>7. ASSUME NEW k \in 1..h, NEW l \in 1..h, k < l
        PROVE  {a(k), b(k)} \intersect {a(l), b(l)} = {}
    <2>1. k \in 0 .. l - 1 /\ l - 1 \in 0..h
      BY <1>1, <1>7
    <2>2. R(l - 1) \subseteq R(k)
      BY <1>4, <2>1
    <2> QED
      BY <1>3, <2>2
  <1>8. ASSUME NEW k \in 1..h, NEW l \in 1..h, k # l
        PROVE  {a(k), b(k)} \intersect {a(l), b(l)} = {}
    <2>1. k < l \/ l < k
      BY <1>8
    <2>2. CASE k < l
      BY <1>7, <2>2
    <2>3. CASE l < k
      BY <1>7, <2>3
    <2> QED
      BY <2>1, <2>2, <2>3
  <1>9. ASSUME NEW k \in 1..h PROVE {a(k), b(k)} \intersect R(h) = {}
    <2>1. k \in 0..h /\ h \in 0..h
      BY <1>1
    <2>2. R(h) \subseteq R(k)
      BY <1>4, <2>1
    <2> QED
      BY <1>3, <2>2
  <1>10. \A t \in Members(order) : t \in R(h) \/ \E k \in 1..h : t \in {a(k), b(k)}
    <2>1. h \in 0..h
      BY <1>1
    <2> QED
      BY <1>5, <2>1
  <1>11. ASSUME NEW k \in 1..h, NEW t \in Members(order), {a(k), b(k)} \in met, pos[a(k)] < pos[t]
         PROVE  \/ {a(k), t} \in met
                \/ \E l \in 1..h : t = b(l) /\ pos[a(l)] < pos[a(k)]
    <2>1. \A z \in Members(order) : pos[z] \in Nat
      BY DEF Members, Stands
    <2>2. a(k) # t
      BY <1>6, <1>11, <2>1
    <2>3. CASE t \in R(k - 1)
      BY <1>3, <1>11, <2>2, <2>3
    <2>4. CASE t \notin R(k - 1)
      <3>1. k - 1 \in 0..h
        BY <1>3
      <3>2. PICK l \in 1 .. k - 1 : t \in {a(l), b(l)}
        BY <1>5, <2>4, <3>1
      <3>3. l \in 1..h /\ l - 1 \in 0 .. k - 1 /\ l \in 0 .. k - 1 /\ k # l
        BY <1>1, <3>1, <3>2
      <3>4. a(k) \in R(l - 1)
        BY <1>3, <1>4, <3>1, <3>3
      <3>5. a(k) # a(l)
        BY <1>8, <3>3
      <3>6. pos[a(l)] < pos[a(k)]
        BY <1>3, <3>3, <3>4, <3>5
      <3>7. t # a(l)
        BY <1>6, <1>11, <2>1, <3>3, <3>6
      <3> QED
        BY <3>2, <3>3, <3>6, <3>7
    <2> QED
      BY <2>3, <2>4
  <1> QED
    BY <1>6, <1>8, <1>9, <1>10, <1>11 DEF h, left, a, b, R

\* One team at most is left over, and has the bye.
LEMMA Byes ==
    ASSUME NEW number \in Nat, NEW order \in Seq(Team), NEW met, NEW pos, Stands(pos, order)
    PROVE  LET h == Len(order) \div 2
               left == Unpaired(order, met)
               a(k) == First(left[k - 1])
               b(k) == Second(left[k - 1], met)
           IN  \E c \in {0, 1}, z \in Team \union {Nobody} :
                  /\ Members(left[h]) = IF c = 1 THEN {z} ELSE {}
                  /\ c = 1 => z \in Members(order)
                  /\ SwissRound(number, order, met) =
                        [k \in 1..h |-> Fixture(number, a(k), b(k))] \o [i \in 1..c |-> Bye(number, z)]
  <1> DEFINE h == Len(order) \div 2
             left == Unpaired(order, met)
             a(k) == First(left[k - 1])
             b(k) == Second(left[k - 1], met)
             pairs == SwissPair(order, met)
             alone == {i \in DOMAIN order : \A k \in DOMAIN pairs : order[i] \notin {pairs[k][1], pairs[k][2]}}
             out(i) == Bye(number, order[InOrder(alone, [x \in alone |-> x])[i]])
  <1>1. pairs = [k \in 1..h |-> <<a(k), b(k)>>]
    BY DEF SwissPair, First, Second
  <1>2. SwissRound(number, order, met) =
           [k \in 1..h |-> Fixture(number, a(k), b(k))] \o [i \in 1 .. Cardinality(alone) |-> out(i)]
    <2>1. SwissRound(number, order, met) =
             [k \in DOMAIN pairs |-> Fixture(number, pairs[k][1], pairs[k][2])]
                \o [i \in 1 .. Cardinality(alone) |-> out(i)]
      BY DEF SwissRound
    <2> HIDE DEF a, b, alone, out, h, pairs
    <2>2. DOMAIN pairs = 1..h /\ \A k \in 1..h : pairs[k][1] = a(k) /\ pairs[k][2] = b(k)
      BY <1>1
    <2>3. [k \in DOMAIN pairs |-> Fixture(number, pairs[k][1], pairs[k][2])]
             = [k \in 1..h |-> Fixture(number, a(k), b(k))]
      BY <2>2
    <2> QED
      BY <2>1, <2>3
  <1>3. /\ \A k \in 1..h : {a(k), b(k)} \intersect Members(left[h]) = {}
        /\ \A t \in Members(order) : t \in Members(left[h]) \/ \E k \in 1..h : t \in {a(k), b(k)}
    <2> HIDE DEF h, left, a, b
    <2> QED
      BY PairsInLine DEF h, left, a, b
  <1>4. alone = {i \in 1 .. Len(order) : order[i] \in Members(left[h])}
    <2> HIDE DEF h, left, a, b, pairs
    <2>1. DOMAIN pairs = 1..h /\ \A k \in 1..h : pairs[k][1] = a(k) /\ pairs[k][2] = b(k)
      BY <1>1
    <2>2. ASSUME NEW i \in 1 .. Len(order)
          PROVE  (\A k \in 1..h : order[i] \notin {a(k), b(k)}) <=> order[i] \in Members(left[h])
      <3>1. order[i] \in Members(order)
        BY DEF Members
      <3> QED
        BY <1>3, <3>1
    <2> QED
      BY <2>1, <2>2
  <1>5. /\ left[h] \in Seq(Team) /\ Len(left[h]) = Len(order) - 2*h
        /\ Members(left[h]) \subseteq Members(order) /\ Len(order) - 2*h \in {0, 1}
    <2>1. h \in 0..h /\ Len(order) - 2*h \in {0, 1}
      OBVIOUS
    <2> QED
      BY <2>1, LeftInLine
  <1> HIDE DEF h, left, a, b, pairs, alone
  <1>6. CASE Len(order) - 2*h = 0
    <2>1. Members(left[h]) = {}
      BY <1>5, <1>6 DEF Members
    <2>2. alone = {}
      BY <1>4, <2>1
    <2>3. Cardinality(alone) = 0
      BY <2>2, FS_EmptySet
    <2>4. [i \in 1 .. Cardinality(alone) |-> out(i)] = [i \in 1..0 |-> Bye(number, Nobody)]
      BY <2>3
    <2> HIDE DEF out
    <2>5. Members(left[h]) = IF 0 = 1 THEN {Nobody} ELSE {}
      BY <2>1
    <2>6. SwissRound(number, order, met) =
             [k \in 1..h |-> Fixture(number, a(k), b(k))] \o [i \in 1..0 |-> Bye(number, Nobody)]
      BY <1>2, <2>4
    <2>7. \E c \in {0, 1}, z \in Team \union {Nobody} :
             /\ Members(left[h]) = IF c = 1 THEN {z} ELSE {}
             /\ c = 1 => z \in Members(order)
             /\ SwissRound(number, order, met) =
                   [k \in 1..h |-> Fixture(number, a(k), b(k))] \o [i \in 1..c |-> Bye(number, z)]
      <3>1. 0 \in {0, 1} /\ Nobody \in Team \union {Nobody} /\ (0 = 1 => Nobody \in Members(order))
        OBVIOUS
      <3> QED
        BY <2>5, <2>6, <3>1
    <2> QED
      BY <2>7 DEF h, left, a, b
  <1>7. CASE Len(order) - 2*h = 1
    <2> DEFINE z == left[h][1]
    <2>1. Members(left[h]) = {z} /\ z \in Team
      BY <1>5, <1>7 DEF Members
    <2>2. z \in Members(order)
      BY <1>5, <2>1
    <2>3. PICK p \in 1 .. Len(order) : z = order[p]
      BY <2>2 DEF Members
    <2> HIDE DEF z
    <2>4. alone = {p}
      BY <1>4, <2>1, <2>3 DEF Stands
    <2>5. Cardinality(alone) = 1
      BY <2>4, FS_Singleton
    <2>6. InOrder(alone, [x \in alone |-> x])[1] = p
      <3> DEFINE number1 == [x \in alone |-> x]
                 x1 == CHOOSE x \in alone : Cardinality({y \in alone : number1[y] <= number1[x]}) = 1
      <3>1. {y \in alone : number1[y] <= number1[p]} = {p}
        BY <2>4
      <3>2. Cardinality({y \in alone : number1[y] <= number1[p]}) = 1
        BY <3>1, FS_Singleton
      <3>3. x1 = p
        <4> HIDE DEF number1
        <4> QED
          BY <2>4, <3>2
      <3>4. InOrder(alone, number1)[1] = x1
        <4> DEFINE Ranked(k) == CHOOSE x \in alone : Cardinality({y \in alone : number1[y] <= number1[x]}) = k
        <4> HIDE DEF number1
        <4>1. InOrder(alone, number1) = [k \in 1 .. Cardinality(alone) |-> Ranked(k)]
          BY DEF InOrder
        <4>2. x1 = Ranked(1)
          OBVIOUS
        <4> HIDE DEF Ranked, x1
        <4> QED
          BY <2>5, <4>1, <4>2
      <3> QED
        BY <3>3, <3>4
    <2>7. out(1) = Bye(number, z)
      BY <2>3, <2>6
    <2> HIDE DEF out
    <2>8. [i \in 1 .. Cardinality(alone) |-> out(i)] = [i \in 1..1 |-> Bye(number, z)]
      <3>1. \A i \in 1..1 : out(i) = Bye(number, z)
        BY <2>7
      <3> QED
        BY <2>5, <3>1
    <2> QED
      BY <1>2, <2>1, <2>2, <2>8 DEF h, left, a, b
  <1> QED
    BY <1>5, <1>6, <1>7

\* A bye as it stands in the table.
LEMMA ByeRow ==
    ASSUME NEW number, NEW t
    PROVE  Bye(number, t) =
              [round |-> number, a |-> t, b |-> Nobody, sa |-> 1, sb |-> 0, status |-> "completed"]
  <1>1. Fixture(number, t, Nobody) =
           [round |-> number, a |-> t, b |-> Nobody, sa |-> 0, sb |-> 0, status |-> "pending"]
    BY DEF Fixture
  <1>2. Bye(number, t) =
           [[round |-> number, a |-> t, b |-> Nobody, sa |-> 0, sb |-> 0, status |-> "pending"]
              EXCEPT !.sa = 1, !.status = "completed"]
    BY <1>1 DEF Bye
  <1> QED
    BY <1>2

\* A match against nobody, and one against somebody.
LEMMA MatchesMade ==
    ASSUME NEW number \in Nat, NEW t \in Team, NEW u \in Team, t # u
    PROVE  /\ Fixture(number, t, u) \in Match /\ Bye(number, t) \in Match
           /\ Fixture(number, t, u).round = number /\ Bye(number, t).round = number
           /\ Fixture(number, t, u).a = t /\ Fixture(number, t, u).b = u
           /\ Bye(number, t).b = Nobody /\ Bye(number, t).a = t
           /\ Sides(Fixture(number, t, u)) = {t, u} /\ Sides(Bye(number, t)) = {t}
           /\ t # Nobody /\ u # Nobody
  <1>1. t # Nobody /\ u # Nobody
    BY TeamAssumption
  <1>2. /\ Fixture(number, t, u) = [round |-> number, a |-> t, b |-> u, sa |-> 0, sb |-> 0, status |-> "pending"]
        /\ Bye(number, t) = [round |-> number, a |-> t, b |-> Nobody, sa |-> 1, sb |-> 0, status |-> "completed"]
    BY ByeRow DEF Fixture
  <1>3. Fixture(number, t, u) \in Match /\ Bye(number, t) \in Match
    BY <1>2 DEF Match
  <1>4. Sides(Fixture(number, t, u)) = {t, u} /\ Sides(Bye(number, t)) = {t}
    BY <1>1, <1>2 DEF Sides
  <1> QED
    BY <1>1, <1>2, <1>3, <1>4

\* A Swiss round seats everybody once.
LEMMA SwissSeats ==
    ASSUME NEW number \in Nat, NEW order \in Seq(Team), NEW met, NEW pos, Stands(pos, order)
    PROVE  LET ms == SwissRound(number, order, met)
           IN  /\ ms \in Seq(Match)
               /\ \A i \in 1 .. Len(ms) : ms[i].round = number
               /\ OneSeatEach(ms)
               /\ UNION {Sides(ms[i]) : i \in 1 .. Len(ms)} = Members(order)
               /\ \A i \in 1 .. Len(ms), t \in Members(order) :
                     (ms[i].b # Nobody /\ {ms[i].a, ms[i].b} \in met /\ pos[ms[i].a] < pos[t]) =>
                        \/ {ms[i].a, t} \in met
                        \/ \E j \in 1 .. Len(ms), u \in Members(order) :
                              Sides(ms[j]) = {u, t} /\ pos[u] < pos[ms[i].a]
  <1> DEFINE h == Len(order) \div 2
             left == Unpaired(order, met)
             a(k) == First(left[k - 1])
             b(k) == Second(left[k - 1], met)
             ms == SwissRound(number, order, met)
  <1>1. PICK c \in {0, 1}, z \in Team \union {Nobody} :
           /\ Members(left[h]) = IF c = 1 THEN {z} ELSE {}
           /\ c = 1 => z \in Members(order)
           /\ ms = [k \in 1..h |-> Fixture(number, a(k), b(k))] \o [i \in 1..c |-> Bye(number, z)]
    BY Byes, ZenonT(60)
  <1>2. /\ h \in Nat /\ Members(order) \subseteq Team
        /\ \A k \in 1..h : a(k) \in Members(order) /\ b(k) \in Members(order) /\ a(k) # b(k)
        /\ \A k, l \in 1..h : k # l => {a(k), b(k)} \intersect {a(l), b(l)} = {}
        /\ \A k \in 1..h : {a(k), b(k)} \intersect Members(left[h]) = {}
        /\ \A t \in Members(order) : t \in Members(left[h]) \/ \E k \in 1..h : t \in {a(k), b(k)}
        /\ \A k \in 1..h, t \in Members(order) :
              ({a(k), b(k)} \in met /\ pos[a(k)] < pos[t]) =>
                 \/ {a(k), t} \in met
                 \/ \E l \in 1..h : t = b(l) /\ pos[a(l)] < pos[a(k)]
    <2>1. h \in Nat /\ Members(order) \subseteq Team
      BY DEF Members
    <2> HIDE DEF h, left, a, b
    <2> QED
      BY <2>1, PairsInLine DEF h, left, a, b
  <1> HIDE DEF h, left, a, b, ms
  <1> DEFINE A == [k \in 1..h |-> Fixture(number, a(k), b(k))]
             B == [i \in 1..c |-> Bye(number, z)]
  <1>3. ASSUME NEW k \in 1..h
        PROVE  /\ A[k] = Fixture(number, a(k), b(k)) /\ A[k] \in Match /\ A[k].round = number
               /\ A[k].a = a(k) /\ A[k].b = b(k) /\ A[k].b # Nobody /\ Sides(A[k]) = {a(k), b(k)}
    <2>1. a(k) \in Team /\ b(k) \in Team /\ a(k) # b(k)
      BY <1>2
    <2>2. A[k] = Fixture(number, a(k), b(k))
      OBVIOUS
    <2> DEFINE x == a(k)
               y == b(k)
               m == Fixture(number, x, y)
    <2> HIDE DEF A, x, y
    <2>3. x \in Team /\ y \in Team /\ x # y
      BY <2>1 DEF x, y
    <2>4. m \in Match /\ m.round = number /\ m.a = x /\ m.b = y /\ Sides(m) = {x, y} /\ y # Nobody
      BY <2>3, MatchesMade
    <2>5. A[k] = m
      BY <2>2 DEF x, y
    <2> HIDE DEF m
    <2>6. /\ A[k] \in Match /\ A[k].round = number
          /\ A[k].a = x /\ A[k].b = y /\ A[k].b # Nobody /\ Sides(A[k]) = {x, y}
      BY <2>4, <2>5
    <2> QED
      BY <2>2, <2>6 DEF x, y
  <1>4. ASSUME NEW i \in 1..c
        PROVE  /\ B[i] = Bye(number, z) /\ B[i] \in Match /\ B[i].round = number
               /\ B[i].b = Nobody /\ Sides(B[i]) = {z} /\ i = 1 /\ c = 1 /\ z \in Members(order)
               /\ Members(left[h]) = {z}
    <2>1. c = 1 /\ i = 1 /\ z \in Members(order) /\ Members(left[h]) = {z}
      BY <1>1
    <2>2. z \in Team
      BY <1>2, <2>1
    <2>3. Bye(number, z) = [round |-> number, a |-> z, b |-> Nobody, sa |-> 1, sb |-> 0, status |-> "completed"]
      BY ByeRow
    <2>4. z # Nobody
      BY <2>2, TeamAssumption
    <2>5. Bye(number, z) \in Match /\ Sides(Bye(number, z)) = {z}
      BY <2>2, <2>3, <2>4 DEF Match, Sides
    <2> QED
      BY <2>1, <2>3, <2>5
  <1>5. A \in Seq(Match) /\ Len(A) = h /\ B \in Seq(Match) /\ Len(B) = c
    <2>1. A \in [1..h -> Match] /\ B \in [1..c -> Match] /\ c \in Nat
      BY <1>3, <1>4
    <2> HIDE DEF A, B
    <2> QED
      BY <1>2, <2>1
  <1>6. /\ ms \in Seq(Match) /\ Len(ms) = h + c
        /\ \A i \in 1..h : ms[i] = A[i]
        /\ \A i \in 1..c : ms[h + i] = B[i] /\ h + i \in 1 .. h + c
        /\ \A i \in 1 .. h + c : i \in 1..h \/ (i = h + c /\ c = 1)
    <2>1. ms = A \o B
      BY <1>1
    <2> HIDE DEF A, B
    <2> QED
      BY <1>2, <1>5, <2>1
  <1> HIDE DEF A, B
  <1>7. ASSUME NEW i \in 1 .. Len(ms)
        PROVE  \/ /\ i \in 1..h /\ ms[i].round = number /\ ms[i].a = a(i) /\ ms[i].b = b(i)
                  /\ ms[i].b # Nobody /\ Sides(ms[i]) = {a(i), b(i)}
               \/ /\ i = h + 1 /\ c = 1 /\ ms[i].round = number /\ ms[i].b = Nobody
                  /\ Sides(ms[i]) = {z} /\ z \in Members(order) /\ Members(left[h]) = {z}
    <2>1. CASE i \in 1..h
      BY <1>3, <1>6, <2>1
    <2>2. CASE i \notin 1..h
      <3>1. i = h + 1 /\ c = 1 /\ 1 \in 1..c
        BY <1>6, <2>2
      <3>2. ms[i] = B[1]
        BY <1>6, <3>1
      <3> QED
        BY <1>4, <3>1, <3>2
    <2> QED
      BY <2>1, <2>2
  <1>8. \A i \in 1 .. Len(ms) : ms[i].round = number
    BY <1>7
  <1>9. OneSeatEach(ms)
    <2> SUFFICES ASSUME NEW i \in 1 .. Len(ms), NEW j \in 1 .. Len(ms), i # j
                 PROVE  /\ Sides(ms[i]) \intersect Sides(ms[j]) = {}
                        /\ Nobody \notin {ms[i].b} \intersect {ms[j].b}
      <3>1. DOMAIN ms = 1 .. Len(ms)
        BY <1>6
      <3> QED
        BY <3>1 DEF OneSeatEach
    <2>1. CASE i \in 1..h /\ j \in 1..h
      BY <1>2, <1>7, <2>1
    <2>2. CASE i \in 1..h /\ j \notin 1..h
      BY <1>2, <1>7, <2>2
    <2>3. CASE i \notin 1..h /\ j \in 1..h
      BY <1>2, <1>7, <2>3
    <2>4. CASE i \notin 1..h /\ j \notin 1..h
      BY <1>7, <2>4
    <2> QED
      BY <2>1, <2>2, <2>3, <2>4
  <1>10. UNION {Sides(ms[i]) : i \in 1 .. Len(ms)} = Members(order)
    <2>1. ASSUME NEW i \in 1 .. Len(ms) PROVE Sides(ms[i]) \subseteq Members(order)
      <3>1. CASE i \in 1..h
        <4>1. Sides(ms[i]) = {a(i), b(i)}
          BY <1>3, <1>6, <3>1
        <4>2. a(i) \in Members(order) /\ b(i) \in Members(order)
          BY <1>2, <3>1
        <4> QED
          BY <4>1, <4>2
      <3>2. CASE i \notin 1..h
        BY <1>7, <3>2
      <3> QED
        BY <3>1, <3>2
    <2>2. ASSUME NEW t \in Members(order) PROVE \E i \in 1 .. Len(ms) : t \in Sides(ms[i])
      <3>1. CASE \E k \in 1..h : t \in {a(k), b(k)}
        <4>1. PICK k \in 1..h : t \in {a(k), b(k)}
          BY <3>1
        <4>2. k \in 1 .. Len(ms) /\ ms[k] = A[k]
          BY <1>2, <1>6
        <4> QED
          BY <1>3, <4>1, <4>2
      <3>2. CASE t \in Members(left[h])
        <4>1. c = 1 /\ t = z /\ 1 \in 1..c
          BY <1>1, <3>2
        <4>2. h + 1 \in 1 .. Len(ms) /\ ms[h + 1] = B[1]
          BY <1>6, <4>1
        <4> QED
          BY <1>4, <4>1, <4>2
      <3> QED
        BY <1>2, <3>1, <3>2
    <2> QED
      BY <2>1, <2>2
  <1>11. ASSUME NEW i \in 1 .. Len(ms), NEW t \in Members(order),
                ms[i].b # Nobody, {ms[i].a, ms[i].b} \in met, pos[ms[i].a] < pos[t]
         PROVE  \/ {ms[i].a, t} \in met
                \/ \E j \in 1 .. Len(ms), u \in Members(order) :
                      Sides(ms[j]) = {u, t} /\ pos[u] < pos[ms[i].a]
    <2>1. i \in 1..h /\ ms[i].a = a(i) /\ ms[i].b = b(i)
      BY <1>7, <1>11
    <2>2. CASE \E l \in 1..h : t = b(l) /\ pos[a(l)] < pos[a(i)]
      <3>1. PICK l \in 1..h : t = b(l) /\ pos[a(l)] < pos[a(i)]
        BY <2>2
      <3>2. l \in 1 .. Len(ms) /\ ms[l] = A[l]
        BY <1>2, <1>6
      <3>3. Sides(ms[l]) = {a(l), t} /\ a(l) \in Members(order)
        BY <1>2, <1>3, <3>1, <3>2
      <3> QED
        BY <2>1, <3>1, <3>2, <3>3
    <2>3. CASE {a(i), t} \in met
      BY <2>1, <2>3
    <2> QED
      BY <1>2, <1>11, <2>1, <2>2, <2>3
  <1> QED
    BY <1>6, <1>8, <1>9, <1>10, <1>11 DEF ms

\* A round of given number in which the teams D are seated once, and those
\* that meet again have met everybody behind that is not taken by somebody in
\* front.
Seated(ms, number, D, rowsOf, met) ==
    /\ ms \in Seq(Match)
    /\ \A i \in 1 .. Len(ms) : ms[i].round = number
    /\ OneSeatEach(ms)
    /\ UNION {Sides(ms[i]) : i \in 1 .. Len(ms)} = D
    /\ \A i \in 1 .. Len(ms), t \in D :
          (/\ t # ms[i].a /\ ms[i].b # Nobody /\ {ms[i].a, ms[i].b} \in met
           /\ Before(rowsOf, ms[i].a, t)) =>
             \/ {ms[i].a, t} \in met
             \/ \E j \in 1 .. Len(ms), u \in D :
                   Sides(ms[j]) = {u, t} /\ ~Before(rowsOf, ms[i].a, u)

\* Such is a round made from a table.
LEMMA ListedRound ==
    ASSUME NEW number \in Nat, NEW D, D \subseteq Team, NEW rowsOf, NEW tie, NEW met,
           NEW order \in Listings(D, rowsOf, tie)
    PROVE  Seated(SwissRound(number, order, met), number, D, rowsOf, met)
  <1> DEFINE n == Cardinality(D)
             ms == SwissRound(number, order, met)
             pos == [t \in D |-> CHOOSE i \in 1..n : order[i] = t]
             Ahead(t, u) == Above(<<rowsOf[t].points, -rowsOf[t].rank, -tie[t]>>,
                                  <<rowsOf[u].points, -rowsOf[u].rank, -tie[u]>>)
  <1>1. n \in Nat
    <2>1. IsFiniteSet(D)
      BY TeamAssumption, FS_Subset
    <2> QED
      BY <2>1, FS_CardinalityType
  <1>2. /\ order \in [1..n -> D]
        /\ \A i, j \in 1..n : order[i] = order[j] => i = j
        /\ \A t \in D : \E i \in 1..n : order[i] = t
        /\ \A i, j \in 1..n : i < j => ~Ahead(order[j], order[i])
    <2> HIDE DEF Ahead
    <2>1. order \in Bijection(1..n, D) /\ \A i, j \in DOMAIN order : i < j => ~Ahead(order[j], order[i])
      BY DEF Listings, Ahead
    <2>2. /\ order \in [1..n -> D] /\ IsInjective(order)
          /\ \A t \in D : \E i \in 1..n : order[i] = t
      BY <2>1 DEF Bijection, Injection, Surjection
    <2> QED
      BY <2>1, <2>2 DEF IsInjective
  <1> HIDE DEF n, Ahead
  <1>3. order \in Seq(Team) /\ Len(order) = n /\ Members(order) = D
    <2>1. order \in Seq(Team) /\ Len(order) = n
      BY <1>1, <1>2
    <2> QED
      BY <1>2, <2>1 DEF Members
  <1>4. \A t \in D : pos[t] \in 1..n /\ order[pos[t]] = t
    BY <1>2
  <1> HIDE DEF pos
  <1>5. Stands(pos, order)
    BY <1>2, <1>3, <1>4 DEF Stands
  <1>6. ASSUME NEW t \in D, NEW u \in D, Before(rowsOf, t, u) PROVE Ahead(t, u)
    <2> DEFINE x == <<rowsOf[t].points, -rowsOf[t].rank>>
               y == <<rowsOf[u].points, -rowsOf[u].rank>>
               v == <<rowsOf[t].points, -rowsOf[t].rank, -tie[t]>>
               w == <<rowsOf[u].points, -rowsOf[u].rank, -tie[u]>>
    <2>1. /\ DOMAIN x = 1..2 /\ DOMAIN v = 1..3
          /\ \A i \in 1..2 : x[i] = v[i] /\ y[i] = w[i]
      OBVIOUS
    <2>2. Above(x, y)
      BY <1>6 DEF Before
    <2> HIDE DEF x, y, v, w
    <2>3. PICK i \in 1..2 : x[i] > y[i] /\ \A j \in 1 .. i - 1 : x[j] = y[j]
      BY <2>1, <2>2 DEF Above
    <2>4. i \in 1..3 /\ v[i] > w[i] /\ \A j \in 1 .. i - 1 : v[j] = w[j]
      BY <2>1, <2>3
    <2>5. Above(v, w)
      BY <2>1, <2>4 DEF Above
    <2> QED
      BY <2>5 DEF Ahead, v, w
  <1>7. ASSUME NEW t \in D, NEW u \in D, pos[u] < pos[t] PROVE ~Before(rowsOf, t, u)
    <2>1. ~Ahead(order[pos[t]], order[pos[u]])
      BY <1>2, <1>4, <1>7
    <2> QED
      BY <1>4, <1>6, <2>1
  <1>8. ASSUME NEW t \in D, NEW u \in D, t # u, Before(rowsOf, t, u) PROVE pos[t] < pos[u]
    <2>1. pos[t] # pos[u] /\ pos[t] \in Nat /\ pos[u] \in Nat
      BY <1>4, <1>8
    <2>2. ~(pos[u] < pos[t])
      BY <1>7, <1>8
    <2> QED
      BY <2>1, <2>2
  <1> HIDE DEF ms
  <1>9. /\ ms \in Seq(Match)
        /\ \A i \in 1 .. Len(ms) : ms[i].round = number
        /\ OneSeatEach(ms)
        /\ UNION {Sides(ms[i]) : i \in 1 .. Len(ms)} = D
        /\ \A i \in 1 .. Len(ms), t \in D :
              (ms[i].b # Nobody /\ {ms[i].a, ms[i].b} \in met /\ pos[ms[i].a] < pos[t]) =>
                 \/ {ms[i].a, t} \in met
                 \/ \E j \in 1 .. Len(ms), u \in D : Sides(ms[j]) = {u, t} /\ pos[u] < pos[ms[i].a]
    <2> DEFINE Sits(made, all) ==
             /\ made \in Seq(Match)
             /\ \A i \in 1 .. Len(made) : made[i].round = number
             /\ OneSeatEach(made)
             /\ UNION {Sides(made[i]) : i \in 1 .. Len(made)} = all
             /\ \A i \in 1 .. Len(made), t \in all :
                   (made[i].b # Nobody /\ {made[i].a, made[i].b} \in met /\ pos[made[i].a] < pos[t]) =>
                      \/ {made[i].a, t} \in met
                      \/ \E j \in 1 .. Len(made), u \in all :
                            Sides(made[j]) = {u, t} /\ pos[u] < pos[made[i].a]
    <2>1. Sits(SwissRound(number, order, met), Members(order))
      BY <1>3, <1>5, SwissSeats
    <2>2. Sits(ms, D)
      <3> HIDE DEF Sits
      <3> QED
        BY <1>3, <2>1 DEF ms
    <2> QED
      BY <2>2
  <1>10. ASSUME NEW i \in 1 .. Len(ms), NEW t \in D, t # ms[i].a, ms[i].b # Nobody,
                {ms[i].a, ms[i].b} \in met, Before(rowsOf, ms[i].a, t)
         PROVE  \/ {ms[i].a, t} \in met
                \/ \E j \in 1 .. Len(ms), u \in D : Sides(ms[j]) = {u, t} /\ ~Before(rowsOf, ms[i].a, u)
    <2>1. ms[i].a \in D
      <3>1. ms[i] \in Match
        BY <1>9
      <3>2. ms[i].a \in Team /\ ms[i].a # Nobody
        BY <3>1, TeamAssumption DEF Match
      <3>3. ms[i].a \in Sides(ms[i])
        BY <3>2 DEF Sides
      <3> QED
        BY <1>9, <3>3
    <2>2. pos[ms[i].a] < pos[t]
      BY <1>8, <1>10, <2>1
    <2>3. CASE {ms[i].a, t} \in met
      BY <2>3
    <2>4. CASE \E j \in 1 .. Len(ms), u \in D : Sides(ms[j]) = {u, t} /\ pos[u] < pos[ms[i].a]
      <3>1. PICK j \in 1 .. Len(ms), u \in D : Sides(ms[j]) = {u, t} /\ pos[u] < pos[ms[i].a]
        BY <2>4
      <3>2. ~Before(rowsOf, ms[i].a, u)
        BY <1>7, <2>1, <3>1
      <3> QED
        BY <3>1, <3>2
    <2> QED
      BY <1>9, <1>10, <2>2, <2>3, <2>4
  <1> QED
    BY <1>9, <1>10 DEF ms, Seated

-----------------------------------------------------------------------------
(* Play: the inductive invariant, in parts *)

\* What the undecided have not reached in given matches.
Short(ms, t) ==
    LET record == Record(ms, t)
    IN  record.wins < WinThreshold /\ record.losses < LossThreshold

\* A round of given number that follows from what was read.
Follows(plan, read, number, teams) ==
    LET D   == Undecided(read.table)
        met == Pairs(read.matches)
    IN  /\ Seated(plan, number, D, read.table, met)
        /\ read.exact => D = {t \in teams : Short(read.matches, t)}

\* The same teams in the same round.
Alike(m, p) == m.round = p.round /\ m.a = p.a /\ m.b = p.b

\* A request has written the first k matches of a round: they are the last of
\* all, and the only ones with its number; the others are still to be written.
Written(plan, k, ms, x) ==
    /\ k \in 0 .. Len(plan) /\ k <= Len(ms)
    /\ x.todo \in Seq(Match) /\ Len(x.todo) = Len(plan) - k
    /\ \A i \in 1 .. Len(x.todo) : x.todo[i] = plan[k + i]
    /\ \A i \in 1 .. Len(ms) - k : ms[i].round # x.round
    /\ \A i \in 1 .. k : Alike(ms[Len(ms) - k + i], plan[i])

InTheMaking(ms, x, teams) ==
    \E plan \in Seq(Match), k \in Nat :
        Follows(plan, x.read, x.round, teams) /\ Written(plan, k, ms, x)

Kept ==
    /\ group \in Groups
    /\ Teams = ToSet(group.teams)
    /\ matches \in Seq(Match)
    /\ round \in Nat
    /\ \A r \in Request : At(r, "result") => request[r].score \in Nat \X Nat

\* The calendar of a round robin stays as it was made.
League ==
    group.mode # "swiss" =>
       PairsMeet(matches, Teams, group.legs) /\ \A r \in Request : request[r].step \notin {"round", "pairs"}

\* One request makes a round, the one after the last.
Numbers ==
    /\ \A r, q \in Generating : r = q
    /\ \A r \in Request : At(r, "round") => request[r].round = round
    /\ \A r \in Request : At(r, "pairs") => request[r].round = round + 1
    /\ group.mode = "swiss" =>
          \A i \in 1 .. Len(matches) :
             matches[i].round <= round \/ \E r \in Request : At(r, "pairs") /\ matches[i].round = round + 1

Making == \A r \in Request : At(r, "pairs") => InTheMaking(matches, request[r], Teams)

CInv == Kept /\ OneSeatEach(matches) /\ League /\ Numbers /\ Making

\* All of that until two requests generate at once or one stops in the middle,
\* which in a round robin none can.
Orderly ==
    /\ orderly \in BOOLEAN
    /\ group.mode # "swiss" => orderly
    /\ orderly => CInv

-----------------------------------------------------------------------------
\* Matches of the same teams in the same rounds.
AllAlike(new, old) ==
    /\ new \in Seq(Match) /\ old \in Seq(Match) /\ Len(new) = Len(old)
    /\ \A i \in 1 .. Len(old) : Alike(new[i], old[i])

\* All that is said of the calendar is said of teams and rounds only.
LEMMA AlikeKeeps ==
    ASSUME NEW new, NEW old, AllAlike(new, old), NEW teams, NEW legs, NEW x
    PROVE  /\ OneSeatEach(old) => OneSeatEach(new)
           /\ PairsMeet(old, teams, legs) => PairsMeet(new, teams, legs)
           /\ InTheMaking(old, x, teams) => InTheMaking(new, x, teams)
  <1>1. /\ DOMAIN new = DOMAIN old /\ DOMAIN old = 1 .. Len(old) /\ Len(old) \in Nat /\ Len(new) = Len(old)
        /\ \A i \in DOMAIN old : /\ new[i].round = old[i].round /\ new[i].a = old[i].a /\ new[i].b = old[i].b
                                 /\ Sides(new[i]) = Sides(old[i])
    BY DEF AllAlike, Alike, Sides
  <1>2. OneSeatEach(old) => OneSeatEach(new)
    BY <1>1 DEF OneSeatEach
  <1>3. ASSUME PairsMeet(old, teams, legs) PROVE PairsMeet(new, teams, legs)
    <2> SUFFICES ASSUME NEW t \in teams, NEW u \in teams, t # u
                 PROVE  LET meetings == {i \in DOMAIN new : Sides(new[i]) = {t, u}}
                        IN  /\ Cardinality(meetings) = LegsPlayed(legs)
                            /\ legs >= 2 => \E i \in meetings : new[i].a = t
      BY DEF PairsMeet
    <2> DEFINE before == {i \in DOMAIN old : Sides(old[i]) = {t, u}}
    <2>1. {i \in DOMAIN new : Sides(new[i]) = {t, u}} = before
      BY <1>1
    <2>2. /\ Cardinality(before) = LegsPlayed(legs)
          /\ legs >= 2 => \E i \in before : old[i].a = t
      BY <1>3 DEF PairsMeet
    <2> QED
      BY <1>1, <2>1, <2>2
  <1>4. ASSUME InTheMaking(old, x, teams) PROVE InTheMaking(new, x, teams)
    <2>1. PICK plan \in Seq(Match), k \in Nat :
             Follows(plan, x.read, x.round, teams) /\ Written(plan, k, old, x)
      BY <1>4 DEF InTheMaking
    <2>2. Written(plan, k, new, x)
      <3>1. /\ k \in 0 .. Len(plan) /\ k <= Len(new)
            /\ x.todo \in Seq(Match) /\ Len(x.todo) = Len(plan) - k
            /\ \A i \in 1 .. Len(x.todo) : x.todo[i] = plan[k + i]
        BY <1>1, <2>1 DEF Written
      <3>2. ASSUME NEW i \in 1 .. Len(new) - k PROVE new[i].round # x.round
        <4>1. i \in 1 .. Len(old) - k /\ i \in DOMAIN old
          BY <1>1, <3>1
        <4> QED
          BY <1>1, <2>1, <4>1 DEF Written
      <3>3. ASSUME NEW i \in 1 .. k PROVE Alike(new[Len(new) - k + i], plan[i])
        <4> DEFINE j == Len(old) - k + i
        <4>1. j \in DOMAIN old /\ Len(new) - k + i = j
          BY <1>1, <3>1
        <4>2. Alike(old[j], plan[i])
          BY <2>1 DEF Written
        <4> HIDE DEF j
        <4> QED
          BY <1>1, <4>1, <4>2 DEF Alike
      <3> QED
        BY <3>1, <3>2, <3>3 DEF Written
    <2> QED
      BY <2>1, <2>2 DEF InTheMaking
  <1> QED
    BY <1>2, <1>3, <1>4

\* A step that makes no round and moves no match.
LEMMA Quiet ==
    ASSUME IInv, CInv, NEW r \in Request \union Viewer, NEW to, Goes(r, to),
           r \in Request => ~At(r, "pairs"),
           to.step \notin {"round", "pairs"}, to.step = "result" => to.score \in Nat \X Nat,
           AllAlike(matches', matches), UNCHANGED <<group, round, Teams>>
    PROVE  CInv'
  <1>1. /\ request'[r] = to
        /\ \A q \in (Request \union Viewer) \ {r} : request'[q] = request[q]
    BY OthersKept
  <1>2. Kept'
    <2>1. ASSUME NEW q \in Request, request'[q].step = "result" PROVE request'[q].score \in Nat \X Nat
      BY <1>1, <2>1 DEF CInv, Kept, At
    <2> QED
      BY <2>1 DEF CInv, Kept, At, AllAlike
  <1>3. \A q \in Request : request'[q].step \in {"round", "pairs"} => request'[q] = request[q]
    BY <1>1
  <1>4. OneSeatEach(matches')
    BY AlikeKeeps DEF CInv
  <1>5. League'
    BY <1>3, AlikeKeeps DEF CInv, League
  <1>6. \A q \in Request : At(q, "pairs") => request'[q] = request[q]
    BY <1>1 DEF At
  <1>7. Numbers'
    <2>1. Generating' \subseteq Generating
      BY <1>3 DEF Generating
    <2>2. \A q \in Request : /\ At(q, "round")' => request'[q].round = round'
                             /\ At(q, "pairs")' => request'[q].round = round' + 1
      BY <1>3 DEF CInv, Numbers, At
    <2>3. ASSUME group'.mode = "swiss", NEW i \in 1 .. Len(matches')
          PROVE  matches'[i].round <= round'
                    \/ \E q \in Request : At(q, "pairs")' /\ matches'[i].round = round' + 1
      <3>1. i \in 1 .. Len(matches) /\ matches'[i].round = matches[i].round
        BY DEF AllAlike, Alike
      <3>2. matches[i].round <= round \/ \E q \in Request : At(q, "pairs") /\ matches[i].round = round + 1
        BY <2>3, <3>1 DEF CInv, Numbers
      <3> QED
        BY <1>6, <3>1, <3>2 DEF At
    <2> QED
      BY <2>1, <2>2, <2>3 DEF CInv, Numbers
  <1>8. Making'
    <2> SUFFICES ASSUME NEW q \in Request, request'[q].step = "pairs"
                 PROVE  InTheMaking(matches', request'[q], Teams')
      BY DEF Making, At
    <2>1. request'[q] = request[q]
      BY <1>3
    <2>2. InTheMaking(matches, request[q], Teams)
      BY <2>1 DEF CInv, Making, At
    <2>3. InTheMaking(matches', request[q], Teams)
      BY <2>2, AlikeKeeps
    <2> QED
      BY <2>1, <2>3
  <1> QED
    BY <1>2, <1>4, <1>5, <1>7, <1>8 DEF CInv

\* A round is asked for, and no other is being made.
LEMMA GenerateKeeps ==
    ASSUME IInv, CInv, NEW r \in Request, GenerateSwissRound(r), orderly'
    PROVE  CInv'
  <1> DEFINE to == [step |-> "round", round |-> round]
  <1>1. /\ Goes(r, to) /\ UNCHANGED <<group, matches, table, round>> /\ Teams' = Teams
        /\ Generating = {} /\ group.mode = "swiss"
    BY DEF GenerateSwissRound, rows, Teams
  <1>2. /\ request'[r] = to
        /\ \A q \in (Request \union Viewer) \ {r} : request'[q] = request[q]
    BY <1>1, OthersKept
  <1>3. \A q \in Request : request[q].step \notin {"round", "pairs"}
    BY <1>1 DEF Generating
  <1>4. \A q \in Request : request'[q].step # "pairs"
    BY <1>2, <1>3
  <1>5. Kept'
    <2>1. ASSUME NEW q \in Request, request'[q].step = "result" PROVE request'[q].score \in Nat \X Nat
      BY <1>2, <2>1 DEF CInv, Kept, At
    <2> QED
      BY <1>1, <2>1 DEF CInv, Kept, At
  <1>6. League'
    BY <1>1 DEF League
  <1>7. Numbers'
    <2>1. \A q \in Generating' : q = r
      BY <1>2, <1>3 DEF Generating
    <2>2. \A q \in Request : request'[q].step = "round" => request'[q].round = round'
      BY <1>1, <1>2, <1>3
    <2>3. \A i \in 1 .. Len(matches') : matches'[i].round <= round'
      BY <1>1, <1>3 DEF CInv, Numbers, At
    <2> QED
      BY <1>4, <2>1, <2>2, <2>3 DEF Numbers, At
  <1>8. Making'
    BY <1>4 DEF Making, At
  <1> QED
    BY <1>1, <1>5, <1>6, <1>7, <1>8 DEF CInv

\* What was read when nothing had changed since the table was written.
LEMMA ExactTables ==
    ASSUME IInv, ~dirty, ~exposed, Recalculating = {}
    PROVE  Undecided(table) = {t \in Teams : Short(matches, t)}
  <1>1. table = Rows(matches, Penalty) /\ DOMAIN Penalty = Teams
    BY DEF IInv, TableUpToDate, Penalty
  <1>2. \A t \in Teams : table[t].wins = Record(matches, t).wins /\ table[t].losses = Record(matches, t).losses
    BY <1>1, RowsKeepPenalties
  <1> QED
    BY <1>2 DEF Undecided, Short, Teams

\* The teams are paired, or there are too few of them.
LEMMA PairTeamsKeeps ==
    ASSUME IInv, CInv, NEW r \in Request, NEW tie \in Ties, PairTeams(r, tie)
    PROVE  CInv'
  <1> DEFINE D == Undecided(table)
             number == request[r].round + 1
             read == [table |-> table, matches |-> matches, exact |-> ~dirty /\ ~exposed /\ Recalculating = {}]
  <1>1. /\ At(r, "round") /\ UNCHANGED <<group, matches, table, round>> /\ Teams' = Teams
    BY DEF PairTeams, rows, Teams
  <1>2. CASE Goes(r, Idle)
    <2>1. AllAlike(matches', matches)
      BY <1>1 DEF AllAlike, Alike, CInv, Kept
    <2>2. Idle.step \notin {"round", "pairs"} /\ Idle.step # "result"
      BY DEF Idle
    <2>3. ~At(r, "pairs")
      BY <1>1 DEF At
    <2> QED
      BY <1>1, <1>2, <2>1, <2>2, <2>3, Quiet
  <1>3. ASSUME NEW order \in Listings(D, table, tie),
               Goes(r, [step |-> "pairs", round |-> number,
                        todo |-> SwissRound(number, order, Pairs(matches)), read |-> read])
        PROVE  CInv'
    <2> DEFINE plan == SwissRound(number, order, Pairs(matches))
               to == [step |-> "pairs", round |-> number, todo |-> plan, read |-> read]
    <2>1. /\ request'[r] = to
          /\ \A q \in (Request \union Viewer) \ {r} : request'[q] = request[q]
      BY <1>3, OthersKept
    <2>2. /\ number = round + 1 /\ number \in Nat /\ group.mode = "swiss"
          /\ D \subseteq Team
      <3>1. request[r].round = round /\ round \in Nat
        BY <1>1 DEF CInv, Numbers, Kept
      <3>2. group.mode = "swiss"
        BY <1>1 DEF CInv, League, At
      <3>3. D \subseteq Teams /\ Teams = ToSet(group.teams) /\ group.teams \in Seq(Team)
        BY GroupAssumption DEF Undecided, Teams, CInv, Kept
      <3>4. D \subseteq Team
        BY <3>3 DEF ToSet
      <3> QED
        BY <3>1, <3>2, <3>4
    <2>3. Seated(plan, number, D, table, Pairs(matches))
      <3> HIDE DEF D, number
      <3> QED
        BY <1>3, <2>2, ListedRound
    <2> HIDE DEF plan
    <2>4. Follows(plan, read, number, Teams)
      <3>1. read.exact => D = {t \in Teams : Short(read.matches, t)}
        BY ExactTables
      <3> QED
        BY <2>3, <3>1 DEF Follows
    <2> HIDE DEF read, D, number
    <2>5. \A q \in Request \ {r} : request[q].step \notin {"round", "pairs"}
      BY <1>1 DEF CInv, Numbers, Generating, At
    <2>6. ASSUME NEW q \in Request \ {r} PROVE request'[q].step \notin {"round", "pairs"}
      BY <2>1, <2>5
    <2>7. \A i \in 1 .. Len(matches) : matches[i].round <= round
      BY <1>1, <2>2, <2>5 DEF CInv, Numbers, At
    <2>8. Kept'
      <3>1. ASSUME NEW q \in Request, request'[q].step = "result" PROVE request'[q].score \in Nat \X Nat
        BY <2>1, <3>1 DEF CInv, Kept, At
      <3> QED
        BY <1>1, <3>1 DEF CInv, Kept, At
    <2>9. League'
      BY <1>1, <2>2 DEF League
    <2>10. Numbers'
      <3>1. \A q \in Generating' : q = r
        BY <2>6 DEF Generating
      <3>2. \A q \in Request : request'[q].step # "round"
        BY <2>1, <2>6
      <3>3. \A q \in Request : request'[q].step = "pairs" => request'[q].round = round' + 1
        BY <1>1, <2>1, <2>2, <2>6
      <3>4. \A i \in 1 .. Len(matches') : matches'[i].round <= round'
        BY <1>1, <2>7
      <3> QED
        BY <3>1, <3>2, <3>3, <3>4 DEF Numbers, At
    <2>11. Making'
      <3>1. Written(plan, 0, matches, to)
        <4>1. plan \in Seq(Match) /\ matches \in Seq(Match)
          BY <2>3 DEF CInv, Kept, Seated
        <4>2. \A i \in 1 .. Len(matches) - 0 : matches[i].round # to.round
          <5> SUFFICES ASSUME NEW i \in 1 .. Len(matches) PROVE matches[i].round # number
            BY <4>1
          <5>1. matches[i] \in Match /\ round \in Nat
            BY <4>1 DEF CInv, Kept
          <5>2. matches[i].round \in Nat
            BY <5>1 DEF Match
          <5>3. matches[i].round <= round
            BY <2>7
          <5> QED
            BY <2>2, <5>1, <5>2, <5>3
        <4> QED
          BY <2>3, <4>1, <4>2 DEF Written
      <3>2. InTheMaking(matches, to, Teams)
        <4>1. to.read = read /\ to.round = number
          OBVIOUS
        <4> HIDE DEF to
        <4> QED
          BY <2>3, <2>4, <3>1, <4>1 DEF InTheMaking, Seated
      <3> HIDE DEF to
      <3>3. ASSUME NEW q \in Request, request'[q].step = "pairs"
            PROVE  InTheMaking(matches', request'[q], Teams')
        <4>1. q = r
          BY <2>6, <3>3
        <4> QED
          BY <1>1, <2>1, <3>2, <4>1
      <3> QED
        BY <3>3 DEF Making, At
    <2> QED
      BY <1>1, <2>8, <2>9, <2>10, <2>11 DEF CInv
  <1> QED
    BY <1>2, <1>3 DEF PairTeams

\* The next match of the round is written.
LEMMA CreateMatchKeeps ==
    ASSUME IInv, CInv, NEW r \in Request, CreateMatch(r)
    PROVE  CInv'
  <1> DEFINE x == request[r]
             to == [step |-> "pairs", round |-> x.round, todo |-> Tail(x.todo), read |-> x.read]
             m == Head(x.todo)
             n == Len(matches)
  <1>1. /\ At(r, "pairs") /\ x.todo # <<>> /\ matches' = Append(matches, m)
        /\ UNCHANGED <<group, table, round>> /\ Teams' = Teams
    BY DEF CreateMatch, Teams
  <1>2. Goes(r, to)
    <2>1. Paired(x)
      BY <1>1 DEF IInv, Shape
    <2>2. [x EXCEPT !.todo = Tail(@)] = to
      <3>1. ASSUME NEW v, NEW y, Paired(v)
            PROVE  [v EXCEPT !.todo = y] = [step |-> "pairs", round |-> v.round, todo |-> y, read |-> v.read]
        BY <3>1 DEF Paired
      <3> QED
        BY <2>1, <3>1
    <2> HIDE DEF to, x
    <2>3. Goes(r, [x EXCEPT !.todo = Tail(@)])
      BY DEF CreateMatch, x
    <2> QED
      BY <2>2, <2>3
  <1>3. /\ request'[r] = to
        /\ \A q \in (Request \union Viewer) \ {r} : request'[q] = request[q]
    BY <1>2, OthersKept
  <1>4. PICK plan \in Seq(Match), k \in Nat :
           Follows(plan, x.read, x.round, Teams) /\ Written(plan, k, matches, x)
    BY <1>1 DEF CInv, Making, InTheMaking
  <1>5. /\ x.round = round + 1 /\ round \in Nat /\ matches \in Seq(Match) /\ group.mode = "swiss"
        /\ \A q \in Request \ {r} : request[q].step \notin {"round", "pairs"}
    <2>1. group.mode = "swiss"
      BY <1>1 DEF CInv, League, At
    <2> QED
      BY <1>1, <2>1 DEF CInv, Numbers, Kept, Generating, At
  <1>6. /\ k + 1 \in 0 .. Len(plan) /\ x.todo \in Seq(Match) /\ Len(x.todo) = Len(plan) - k
        /\ m = plan[k + 1] /\ m \in Match /\ m.round = x.round
        /\ Tail(x.todo) \in Seq(Match) /\ Len(Tail(x.todo)) = Len(plan) - (k + 1)
        /\ \A i \in 1 .. Len(Tail(x.todo)) : Tail(x.todo)[i] = plan[(k + 1) + i]
    <2>1. /\ k \in 0 .. Len(plan) /\ x.todo \in Seq(Match) /\ Len(x.todo) = Len(plan) - k
          /\ \A i \in 1 .. Len(x.todo) : x.todo[i] = plan[k + i]
      BY <1>4 DEF Written
    <2> HIDE DEF x
    <2>2. Len(x.todo) >= 1 /\ m = x.todo[1] /\ m \in Match
      BY <1>1, <2>1
    <2>3. /\ Tail(x.todo) \in Seq(Match) /\ Len(Tail(x.todo)) = Len(x.todo) - 1
          /\ \A i \in 1 .. Len(x.todo) - 1 : Tail(x.todo)[i] = x.todo[i + 1]
      BY <1>1, <2>1
    <2>4. m = plan[k + 1] /\ k + 1 \in 0 .. Len(plan) /\ k + 1 \in 1 .. Len(plan)
      BY <2>1, <2>2
    <2>5. m.round = x.round
      BY <1>4, <2>4 DEF Follows, Seated
    <2>6. \A i \in 1 .. Len(Tail(x.todo)) : Tail(x.todo)[i] = plan[(k + 1) + i]
      <3> SUFFICES ASSUME NEW i \in 1 .. Len(x.todo) - 1 PROVE Tail(x.todo)[i] = plan[(k + 1) + i]
        BY <2>3
      <3>1. Tail(x.todo)[i] = x.todo[i + 1] /\ i + 1 \in 1 .. Len(x.todo)
        BY <2>1, <2>3
      <3>2. x.todo[i + 1] = plan[k + (i + 1)] /\ k + (i + 1) = (k + 1) + i
        BY <2>1, <3>1
      <3> QED
        BY <3>1, <3>2
    <2> QED
      BY <2>1, <2>2, <2>3, <2>4, <2>5, <2>6, SMTT(30)
  <1>7. /\ matches' \in Seq(Match) /\ Len(matches') = n + 1 /\ n \in Nat
        /\ \A i \in 1..n : matches'[i] = matches[i]
        /\ matches'[n + 1] = m
    BY <1>1, <1>5, <1>6
  <1>8. /\ k <= n /\ \A i \in 1 .. n - k : matches[i].round # x.round
        /\ \A i \in 1 .. k : Alike(matches[n - k + i], plan[i])
    BY <1>4 DEF Written
  <1>9. OneSeatEach(plan) /\ Len(plan) \in Nat /\ DOMAIN plan = 1 .. Len(plan)
    BY <1>4 DEF Follows, Seated
  <1> HIDE DEF x, to, m, n
  \* The new match and one of the same round seat different teams.
  <1>10. ASSUME NEW i \in 1..n, matches[i].round = m.round
         PROVE  /\ Sides(matches[i]) \intersect Sides(m) = {}
                /\ Nobody \notin {matches[i].b} \intersect {m.b}
    <2>1. i \notin 1 .. n - k
      BY <1>6, <1>8, <1>10
    <2> DEFINE j == i - (n - k)
    <2>2. j \in 1..k /\ i = n - k + j
      BY <1>7, <1>8, <2>1
    <2> HIDE DEF j
    <2>3. Alike(matches[i], plan[j])
      BY <1>8, <2>2
    <2>4. j \in DOMAIN plan /\ k + 1 \in DOMAIN plan /\ j # k + 1
      <3>1. k + 1 \in 0 .. Len(plan) /\ Len(plan) \in Nat /\ k \in Nat
        BY <1>6, <1>9
      <3>2. j \in 1 .. Len(plan) /\ k + 1 \in 1 .. Len(plan) /\ j # k + 1
        BY <2>2, <3>1
      <3> QED
        BY <1>9, <3>2
    <2>5. plan[j].round = plan[k + 1].round
      BY <1>6, <1>10, <2>3 DEF Alike
    <2>6. /\ Sides(plan[j]) \intersect Sides(plan[k + 1]) = {}
          /\ Nobody \notin {plan[j].b} \intersect {plan[k + 1].b}
      BY <1>9, <2>4, <2>5 DEF OneSeatEach
    <2>7. Sides(matches[i]) = Sides(plan[j]) /\ matches[i].b = plan[j].b
      BY <2>3 DEF Alike, Sides
    <2> QED
      BY <1>6, <2>6, <2>7
  <1>11. OneSeatEach(matches')
    <2> SUFFICES ASSUME NEW i \in 1 .. n + 1, NEW j \in 1 .. n + 1, i # j, matches'[i].round = matches'[j].round
                 PROVE  /\ Sides(matches'[i]) \intersect Sides(matches'[j]) = {}
                        /\ Nobody \notin {matches'[i].b} \intersect {matches'[j].b}
      <3>1. DOMAIN matches' = 1 .. n + 1
        BY <1>7
      <3> QED
        BY <3>1 DEF OneSeatEach
    <2>1. CASE i \in 1..n /\ j \in 1..n
      <3>1. i \in DOMAIN matches /\ j \in DOMAIN matches
        BY <1>5, <2>1 DEF n
      <3> QED
        BY <1>7, <2>1, <3>1 DEF CInv, OneSeatEach
    <2>2. CASE i \in 1..n /\ j = n + 1
      BY <1>7, <1>10, <2>2
    <2>3. CASE j \in 1..n /\ i = n + 1
      BY <1>7, <1>10, <2>3
    <2> QED
      BY <1>7, <2>1, <2>2, <2>3
  <1>12. Kept'
    <2>1. ASSUME NEW q \in Request, request'[q].step = "result" PROVE request'[q].score \in Nat \X Nat
      BY <1>3, <2>1 DEF CInv, Kept, At, to
    <2> QED
      BY <1>1, <1>7, <2>1 DEF CInv, Kept, At
  <1>13. League'
    BY <1>1, <1>5 DEF League
  <1>14. \A q \in Request \ {r} : request'[q].step \notin {"round", "pairs"}
    BY <1>3, <1>5
  <1>15. request'[r].step = "pairs" /\ request'[r].round = round + 1
    BY <1>3, <1>5 DEF to
  <1>16. Numbers'
    <2>1. \A q \in Generating' : q = r
      BY <1>14 DEF Generating
    <2>2. \A q \in Request : request'[q].step # "round"
      BY <1>14, <1>15
    <2>3. \A q \in Request : request'[q].step = "pairs" => request'[q].round = round' + 1
      BY <1>1, <1>14, <1>15
    <2>4. \A i \in 1 .. Len(matches') : matches'[i].round <= round' \/ matches'[i].round = round' + 1
      <3> SUFFICES ASSUME NEW i \in 1 .. n + 1
                   PROVE  matches'[i].round <= round \/ matches'[i].round = round + 1
        BY <1>1, <1>7
      <3>1. CASE i \in 1..n
        <4>1. matches[i].round <= round \/ matches[i].round = round + 1
          BY <1>5, <3>1 DEF CInv, Numbers, n
        <4> QED
          BY <1>7, <3>1, <4>1
      <3>2. CASE i = n + 1
        BY <1>5, <1>6, <1>7, <3>2
      <3> QED
        BY <1>7, <3>1, <3>2
    <2> QED
      BY <1>15, <2>1, <2>2, <2>3, <2>4 DEF Numbers, At
  <1>17. Written(plan, k + 1, matches', to)
    <2>1. k + 1 <= Len(matches') /\ Len(matches') - (k + 1) = n - k
      BY <1>7, <1>8
    <2>2. to.todo = Tail(x.todo) /\ to.round = x.round
      BY DEF to
    <2>3. ASSUME NEW i \in 1 .. n - k PROVE matches'[i].round # to.round
      <3>1. i \in 1..n
        BY <1>7, <1>8
      <3> QED
        BY <1>7, <1>8, <2>2, <3>1
    <2>4. ASSUME NEW i \in 1 .. k + 1 PROVE Alike(matches'[n - k + i], plan[i])
      <3>1. CASE i = k + 1
        <4>1. n - k + i = n + 1
          BY <1>7, <1>8, <3>1
        <4> QED
          BY <1>6, <1>7, <3>1, <4>1 DEF Alike
      <3>2. CASE i # k + 1
        <4>1. i \in 1..k /\ n - k + i \in 1..n
          BY <1>7, <1>8, <3>2
        <4>2. matches'[n - k + i] = matches[n - k + i]
          BY <1>7, <4>1
        <4> QED
          BY <1>8, <4>1, <4>2
      <3> QED
        BY <3>1, <3>2
    <2> QED
      BY <1>6, <2>1, <2>2, <2>3, <2>4 DEF Written
  <1>18. Making'
    <2>1. Follows(plan, to.read, to.round, Teams)
      BY <1>4 DEF to
    <2>2. k + 1 \in Nat
      OBVIOUS
    <2>3. InTheMaking(matches', to, Teams)
      BY <1>17, <2>1, <2>2 DEF InTheMaking
    <2>4. ASSUME NEW q \in Request, request'[q].step = "pairs"
          PROVE  InTheMaking(matches', request'[q], Teams')
      <3>1. q = r
        BY <1>14, <2>4
      <3> QED
        BY <1>1, <1>3, <2>3, <3>1
    <2> QED
      BY <2>4 DEF Making, At
  <1> QED
    BY <1>11, <1>12, <1>13, <1>16, <1>18 DEF CInv

\* The round is complete.
LEMMA UpdateConfigKeeps ==
    ASSUME IInv, CInv, NEW r \in Request, UpdateSwissConfig(r)
    PROVE  CInv'
  <1>1. /\ At(r, "pairs") /\ round' = request[r].round /\ Goes(r, [step |-> "recalculate"])
        /\ UNCHANGED <<group, matches, table>> /\ Teams' = Teams
    BY DEF UpdateSwissConfig, Teams
  <1>2. /\ request'[r] = [step |-> "recalculate"]
        /\ \A q \in (Request \union Viewer) \ {r} : request'[q] = request[q]
    BY <1>1, OthersKept
  <1>3. /\ request[r].round = round + 1 /\ round \in Nat /\ group.mode = "swiss"
        /\ \A q \in Request \ {r} : request[q].step \notin {"round", "pairs"}
    <2>1. group.mode = "swiss"
      BY <1>1 DEF CInv, League, At
    <2> QED
      BY <1>1, <2>1 DEF CInv, Numbers, Kept, Generating, At
  <1>4. \A q \in Request : request'[q].step \notin {"round", "pairs"}
    BY <1>2, <1>3
  <1>5. Kept'
    <2>1. ASSUME NEW q \in Request, request'[q].step = "result" PROVE request'[q].score \in Nat \X Nat
      BY <1>2, <2>1 DEF CInv, Kept, At
    <2> QED
      BY <1>1, <1>3, <2>1 DEF CInv, Kept, At
  <1>6. Numbers'
    <2>1. ASSUME NEW i \in 1 .. Len(matches) PROVE matches[i].round <= round'
      <3>1. matches[i].round <= round \/ matches[i].round = round + 1
        BY <1>3 DEF CInv, Numbers
      <3>2. matches[i].round \in Nat
        <4>1. matches[i] \in Match
          BY DEF CInv, Kept
        <4> QED
          BY <4>1 DEF Match
      <3> QED
        BY <1>1, <1>3, <3>1, <3>2
    <2>2. Generating' = {}
      BY <1>4 DEF Generating
    <2> QED
      BY <1>1, <1>4, <2>1, <2>2 DEF Numbers, At
  <1>7. League'
    BY <1>1, <1>3 DEF League
  <1>8. Making'
    BY <1>4 DEF Making, At
  <1> QED
    BY <1>1, <1>5, <1>6, <1>7, <1>8 DEF CInv

\* And its matches are those that the table made.
LEMMA RoundComplete ==
    ASSUME CInv, NEW r \in Request, UpdateSwissConfig(r)
    PROVE  LET new == {matches[i] : i \in {j \in DOMAIN matches : matches[j].round = request[r].round}}
           IN  \E plan :
                  /\ Follows(plan, request[r].read, request[r].round, Teams)
                  /\ \A m \in new : \E i \in 1 .. Len(plan) : Alike(m, plan[i])
                  /\ \A i \in 1 .. Len(plan) : \E m \in new : Alike(m, plan[i])
  <1> DEFINE x == request[r]
             n == Len(matches)
             new == {matches[i] : i \in {j \in DOMAIN matches : matches[j].round = request[r].round}}
  <1>1. At(r, "pairs") /\ x.todo = <<>>
    BY DEF UpdateSwissConfig
  <1>2. PICK plan \in Seq(Match), k \in Nat :
           Follows(plan, x.read, x.round, Teams) /\ Written(plan, k, matches, x)
    BY <1>1 DEF CInv, Making, InTheMaking
  <1>3. /\ k = Len(plan) /\ k <= n /\ n \in Nat /\ DOMAIN matches = 1..n
        /\ \A i \in 1 .. n - k : matches[i].round # x.round
        /\ \A i \in 1 .. k : Alike(matches[n - k + i], plan[i])
    <2>1. matches \in Seq(Match) /\ Len(plan) \in Nat
      BY <1>2 DEF CInv, Kept
    <2>2. Len(x.todo) = 0
      BY <1>1
    <2>3. k \in 0 .. Len(plan) /\ k <= n /\ Len(x.todo) = Len(plan) - k
      BY <1>2 DEF Written
    <2>4. k = Len(plan)
      <3> HIDE DEF x, n
      <3> QED
        BY <2>1, <2>2, <2>3
    <2>5. /\ \A i \in 1 .. n - k : matches[i].round # x.round
          /\ \A i \in 1 .. k : Alike(matches[n - k + i], plan[i])
      BY <1>2 DEF Written
    <2>6. n \in Nat /\ DOMAIN matches = 1..n
      BY <2>1
    <2> QED
      BY <2>3, <2>4, <2>5, <2>6
  <1>4. \A i \in 1 .. k : plan[i].round = x.round
    BY <1>2, <1>3 DEF Follows, Seated
  <1> HIDE DEF x, n
  <1>5. ASSUME NEW m \in new PROVE \E i \in 1 .. k : Alike(m, plan[i])
    <2>1. PICK j \in 1..n : m = matches[j] /\ matches[j].round = x.round
      BY <1>3 DEF x
    <2>2. j \notin 1 .. n - k
      BY <1>3, <2>1
    <2>3. j - (n - k) \in 1..k /\ n - k + (j - (n - k)) = j
      BY <1>3, <2>2
    <2>4. Alike(matches[n - k + (j - (n - k))], plan[j - (n - k)])
      BY <1>3, <2>3
    <2> QED
      BY <2>1, <2>3, <2>4
  <1>6. ASSUME NEW i \in 1 .. k PROVE \E m \in new : Alike(m, plan[i])
    <2>1. n - k + i \in 1..n
      BY <1>3
    <2>2. Alike(matches[n - k + i], plan[i])
      BY <1>3
    <2>3. matches[n - k + i].round = x.round
      BY <1>1, <1>4, <2>2 DEF Alike
    <2> QED
      BY <1>3, <2>1, <2>2, <2>3 DEF x
  <1> QED
    BY <1>2, <1>3, <1>5, <1>6 DEF x

\* A result, a status or a reset changes neither the teams nor the round.
LEMMA ResultsMoveNobody ==
    ASSUME NEW m \in Match, NEW sa \in Nat, NEW sb \in Nat,
           NEW status \in {"pending", "scheduled", "live", "completed"}
    PROVE  /\ [m EXCEPT !.sa = sa, !.sb = sb, !.status = status] \in Match
           /\ Alike([m EXCEPT !.sa = sa, !.sb = sb, !.status = status], m)
           /\ [m EXCEPT !.status = status] \in Match
           /\ Alike([m EXCEPT !.status = status], m)
  <1>1. PICK n \in Nat, a \in Team, b \in Team \union {Nobody}, sc \in Nat, sd \in Nat,
             st \in {"pending", "scheduled", "live", "completed"} :
             m = [round |-> n, a |-> a, b |-> b, sa |-> sc, sb |-> sd, status |-> st]
    BY DEF Match
  <1> DEFINE base == [round |-> n, a |-> a, b |-> b, sa |-> sc, sb |-> sd, status |-> st]
             new == [round |-> n, a |-> a, b |-> b, sa |-> sa, sb |-> sb, status |-> status]
             live == [round |-> n, a |-> a, b |-> b, sa |-> sc, sb |-> sd, status |-> status]
  <1>2. [base EXCEPT !.sa = sa, !.sb = sb, !.status = status] = new
    <2>1. [base EXCEPT !.sa = sa] = [round |-> n, a |-> a, b |-> b, sa |-> sa, sb |-> sd, status |-> st]
      OBVIOUS
    <2>2. [[round |-> n, a |-> a, b |-> b, sa |-> sa, sb |-> sd, status |-> st] EXCEPT !.sb = sb]
             = [round |-> n, a |-> a, b |-> b, sa |-> sa, sb |-> sb, status |-> st]
      OBVIOUS
    <2>3. [[round |-> n, a |-> a, b |-> b, sa |-> sa, sb |-> sb, status |-> st] EXCEPT !.status = status]
             = new
      OBVIOUS
    <2> HIDE DEF base, new
    <2> QED
      BY <2>1, <2>2, <2>3, Zenon
  <1>3. [base EXCEPT !.status = status] = live
    OBVIOUS
  <1>4. m = base
    BY <1>1
  <1>5. new \in Match /\ live \in Match
    BY DEF Match
  <1>6. /\ new.round = base.round /\ new.a = base.a /\ new.b = base.b
        /\ live.round = base.round /\ live.a = base.a /\ live.b = base.b
    OBVIOUS
  <1> HIDE DEF base, new, live
  <1> QED
    BY <1>2, <1>3, <1>4, <1>5, <1>6 DEF Alike

\* Matches changed all at once, each into one of the same teams.
LEMMA OneByOne ==
    ASSUME NEW ms \in Seq(Match), NEW new, DOMAIN new = DOMAIN ms, new = [i \in DOMAIN new |-> new[i]],
           \A i \in DOMAIN ms : new[i] \in Match /\ Alike(new[i], ms[i])
    PROVE  AllAlike(new, ms)
  <1>1. DOMAIN ms = 1 .. Len(ms) /\ Len(ms) \in Nat
    OBVIOUS
  <1>2. new \in [1 .. Len(ms) -> Match]
    BY <1>1
  <1>3. new \in Seq(Match) /\ Len(new) = Len(ms)
    BY <1>1, <1>2
  <1> QED
    BY <1>1, <1>3 DEF AllAlike

\* One match changed into one of the same teams.
LEMMA OneChanged ==
    ASSUME NEW ms \in Seq(Match), NEW i, NEW m, i \in DOMAIN ms => m \in Match /\ Alike(m, ms[i])
    PROVE  AllAlike([ms EXCEPT ![i] = m], ms)
  <1> DEFINE new == [ms EXCEPT ![i] = m]
  <1>1. /\ DOMAIN new = DOMAIN ms /\ new = [j \in DOMAIN new |-> new[j]]
        /\ \A j \in DOMAIN ms : new[j] = IF j = i THEN m ELSE ms[j]
    OBVIOUS
  <1>2. \A j \in DOMAIN ms : ms[j] \in Match /\ Alike(ms[j], ms[j])
    BY DEF Alike
  <1> HIDE DEF new
  <1>3. \A j \in DOMAIN ms : new[j] \in Match /\ Alike(new[j], ms[j])
    BY <1>1, <1>2
  <1>4. AllAlike(new, ms)
    BY <1>1, <1>3, OneByOne
  <1> QED
    BY <1>4 DEF new

\* Recalculations, results, resets and penalties move no match.
LEMMA OtherStepsAreQuiet ==
    ASSUME IInv, CInv, NEW r \in Request,
           \/ Recalculate(r)
           \/ UpdateMatchScore(r) \/ UpdateMatchStatus(r) \/ Result(r)
           \/ \E i \in DOMAIN matches : SetMatchLive(r, i)
           \/ \E x \in Penalties : x[1] \in Teams /\ SetPenaltyPoints(r, x[1], x[2])
           \/ ResetSingleGroupResults(r)
           \/ \E i \in DOMAIN matches : ResetGroupMatch(r, i)
           \/ Reschedule(r)
    PROVE  CInv'
  <1>1. matches \in Seq(Match) /\ AllAlike(matches, matches)
    BY DEF CInv, Kept, AllAlike, Alike
  <1>2. ASSUME NEW to, Goes(r, to), request[r].step # "pairs",
               to.step \notin {"round", "pairs"}, to.step = "result" => to.score \in Nat \X Nat,
               AllAlike(matches', matches), UNCHANGED <<group, round>>, Teams' = Teams
        PROVE  CInv'
    BY <1>2, Quiet DEF At
  <1>3. ASSUME NEW to, Goes(r, to), request[r].step # "pairs",
               to.step \notin {"round", "pairs"}, to.step # "result",
               UNCHANGED <<group, matches, table, round>>
        PROVE  CInv'
    BY <1>1, <1>2, <1>3 DEF Teams
  <1>4. Idle.step = "idle"
    BY DEF Idle
  <1>5. CASE Lock(r)
    BY <1>3, <1>4, <1>5 DEF Lock, At, rows
  <1>6. CASE ReadMatches(r)
    BY <1>3, <1>6 DEF ReadMatches, At, rows
  <1>7. CASE ReadPenalties(r)
    BY <1>3, <1>7 DEF ReadPenalties, At, rows
  <1>8. CASE UpsertStanding(r)
    <2>1. PICK t \in request[r].todo :
             /\ table' = [table EXCEPT ![t] = request[r].rows[t]]
             /\ Goes(r, [request[r] EXCEPT !.todo = @ \ {t}])
      BY <1>8 DEF UpsertStanding
    <2> DEFINE to == [step |-> "sorted", own |-> request[r].own, rows |-> request[r].rows,
                      todo |-> request[r].todo \ {t}]
    <2>2. Sorted(request[r]) /\ request[r].step = "sorted"
      BY <1>8 DEF UpsertStanding, IInv, Shape, At
    <2>3. [request[r] EXCEPT !.todo = @ \ {t}] = to
      BY <2>2 DEF Sorted
    <2>4. Goes(r, to) /\ UNCHANGED <<group, matches, round>> /\ Teams' = Teams
      BY <1>8, <2>1, <2>3 DEF UpsertStanding, Teams
    <2> QED
      BY <1>1, <1>2, <2>2, <2>4
  <1>9. CASE Unlock(r)
    BY <1>3, <1>4, <1>9 DEF Unlock, At, rows
  <1>10. CASE UpdateMatchScore(r)
    <2> DEFINE i == request[r].match
               s == request[r].score
    <2>1. /\ At(r, "result")
          /\ matches' = [matches EXCEPT ![i] = [@ EXCEPT !.sa = s[1], !.sb = s[2], !.status = "completed"]]
          /\ Goes(r, [step |-> "recalculate"]) /\ UNCHANGED <<group, table, round>> /\ Teams' = Teams
      BY <1>10 DEF UpdateMatchScore, Teams
    <2>2. s[1] \in Nat /\ s[2] \in Nat
      <3>1. s \in Nat \X Nat
        BY <2>1 DEF CInv, Kept
      <3> QED
        BY <3>1
    <2>3. AllAlike(matches', matches)
      <3> DEFINE m == [matches[i] EXCEPT !.sa = s[1], !.sb = s[2], !.status = "completed"]
      <3> HIDE DEF i, s
      <3>1. i \in DOMAIN matches => m \in Match /\ Alike(m, matches[i])
        <4> SUFFICES ASSUME i \in DOMAIN matches PROVE m \in Match /\ Alike(m, matches[i])
          OBVIOUS
        <4>1. matches[i] \in Match
          BY <1>1
        <4> QED
          BY <2>2, <4>1, ResultsMoveNobody
      <3>2. matches' = [matches EXCEPT ![i] = m]
        BY <2>1
      <3> HIDE DEF m
      <3> QED
        BY <1>1, <3>1, <3>2, OneChanged
    <2> QED
      BY <1>2, <2>1, <2>3 DEF At
  <1>11. CASE UpdateMatchStatus(r)
    <2> DEFINE i == request[r].match
    <2>1. /\ At(r, "live")
          /\ matches' = [matches EXCEPT ![i].status = "live"]
          /\ Goes(r, Idle) /\ UNCHANGED <<group, table, round>> /\ Teams' = Teams
      BY <1>11 DEF UpdateMatchStatus, Teams
    <2>2. AllAlike(matches', matches)
      <3> DEFINE m == [matches[i] EXCEPT !.status = "live"]
      <3> HIDE DEF i
      <3>1. i \in DOMAIN matches => m \in Match /\ Alike(m, matches[i])
        <4> SUFFICES ASSUME i \in DOMAIN matches PROVE m \in Match /\ Alike(m, matches[i])
          OBVIOUS
        <4>1. matches[i] \in Match
          BY <1>1
        <4> QED
          BY <4>1, ResultsMoveNobody
      <3>2. matches' = [matches EXCEPT ![i] = m]
        BY <2>1
      <3> HIDE DEF m
      <3> QED
        BY <1>1, <3>1, <3>2, OneChanged
    <2> QED
      BY <1>2, <1>4, <2>1, <2>2 DEF At
  <1>12. CASE Result(r)
    <2>1. PICK i \in DOMAIN matches, score \in Scores(group) : SubmitMatchResult(r, i, score)
      BY <1>12 DEF Result
    <2> DEFINE to == [step |-> "result", match |-> i, score |-> score]
    <2>2. score \in Nat \X Nat
      BY GroupAssumption DEF CInv, Kept
    <2>3. /\ Goes(r, to) /\ UNCHANGED <<group, matches, table, round>> /\ Teams' = Teams
          /\ request[r].step # "pairs"
      BY <2>1 DEF SubmitMatchResult, rows, At, Teams
    <2>4. to.step = "result" /\ to.score = score
      OBVIOUS
    <2> HIDE DEF to
    <2> QED
      BY <1>1, <1>2, <2>2, <2>3, <2>4
  <1>13. ASSUME NEW i \in DOMAIN matches, SetMatchLive(r, i) PROVE CInv'
    BY <1>3, <1>13 DEF SetMatchLive, At, rows
  <1>14. ASSUME NEW t \in Teams, NEW points, SetPenaltyPoints(r, t, points) PROVE CInv'
    <2>1. /\ Goes(r, [step |-> "recalculate"]) /\ UNCHANGED <<group, matches, round>> /\ Teams' = Teams
          /\ request[r].step # "pairs"
      BY <1>14 DEF SetPenaltyPoints, At, Teams
    <2> QED
      BY <1>1, <1>2, <2>1
  <1>15. CASE ResetSingleGroupResults(r)
    <2>1. /\ matches' = [i \in DOMAIN matches |->
                            [matches[i] EXCEPT !.sa = 0, !.sb = 0, !.status = "scheduled"]]
          /\ Goes(r, [step |-> "recalculate"]) /\ UNCHANGED <<group, round>> /\ Teams' = Teams
          /\ request[r].step # "pairs"
      BY <1>15 DEF ResetSingleGroupResults, At, Teams
    <2>2. AllAlike(matches', matches)
      <3> DEFINE new == [i \in DOMAIN matches |->
                            [matches[i] EXCEPT !.sa = 0, !.sb = 0, !.status = "scheduled"]]
      <3>1. ASSUME NEW i \in DOMAIN matches
            PROVE  new[i] \in Match /\ Alike(new[i], matches[i])
        <4>1. matches[i] \in Match
          BY <1>1
        <4>2. new[i] = [matches[i] EXCEPT !.sa = 0, !.sb = 0, !.status = "scheduled"]
          OBVIOUS
        <4> DEFINE m == matches[i]
        <4> HIDE DEF new, m
        <4>3. m \in Match /\ new[i] = [m EXCEPT !.sa = 0, !.sb = 0, !.status = "scheduled"]
          BY <4>1, <4>2 DEF m
        <4>4. new[i] \in Match /\ Alike(new[i], m)
          <5>1. ASSUME NEW zero \in Nat, NEW status \in {"pending", "scheduled", "live", "completed"}
                PROVE  LET reset == [m EXCEPT !.sa = zero, !.sb = zero, !.status = status]
                       IN  reset \in Match /\ Alike(reset, m)
            BY <4>3, ResultsMoveNobody
          <5>2. LET reset == [m EXCEPT !.sa = 0, !.sb = 0, !.status = "scheduled"]
                IN  reset \in Match /\ Alike(reset, m)
            BY <5>1
          <5> QED
            BY <4>3, <5>2
        <4> QED
          BY <4>4 DEF m
      <3>2. DOMAIN new = DOMAIN matches /\ new = [i \in DOMAIN new |-> new[i]]
        OBVIOUS
      <3>3. matches' = new
        BY <2>1
      <3> HIDE DEF new
      <3>4. AllAlike(new, matches)
        BY <1>1, <3>1, <3>2, OneByOne
      <3> QED
        BY <3>3, <3>4
    <2> QED
      BY <1>2, <2>1, <2>2
  <1>16. CASE RecalculationFails(r)
    BY <1>3, <1>4, <1>16 DEF RecalculationFails, Recalculating, rows
  <1>17. ASSUME NEW i \in DOMAIN matches, ResetGroupMatch(r, i) PROVE CInv'
    <2>1. /\ matches' = [matches EXCEPT ![i] = [@ EXCEPT !.sa = 0, !.sb = 0, !.status = "completed"]]
          /\ Goes(r, [step |-> "unscored", match |-> i]) /\ UNCHANGED <<group, round>> /\ Teams' = Teams
          /\ request[r].step # "pairs"
      BY <1>17 DEF ResetGroupMatch, At, Teams
    <2>2. AllAlike(matches', matches)
      <3> DEFINE m == [matches[i] EXCEPT !.sa = 0, !.sb = 0, !.status = "completed"]
      <3>1. m \in Match /\ Alike(m, matches[i])
        <4>1. matches[i] \in Match
          BY <1>1
        <4>2. ASSUME NEW zero \in Nat, NEW status \in {"pending", "scheduled", "live", "completed"}
              PROVE  LET reset == [matches[i] EXCEPT !.sa = zero, !.sb = zero, !.status = status]
                     IN  reset \in Match /\ Alike(reset, matches[i])
          BY <4>1, ResultsMoveNobody
        <4> QED
          BY <4>2
      <3>2. matches' = [matches EXCEPT ![i] = m]
        BY <2>1
      <3> HIDE DEF m
      <3> QED
        BY <1>1, <3>1, <3>2, OneChanged
    <2> QED
      BY <1>2, <2>1, <2>2
  <1>18. CASE Reschedule(r)
    <2> DEFINE i == request[r].match
    <2>1. /\ At(r, "unscored")
          /\ matches' = [matches EXCEPT ![i].status = "scheduled"] \/ UNCHANGED matches
          /\ Goes(r, [step |-> "recalculate"]) /\ UNCHANGED <<group, round>> /\ Teams' = Teams
      BY <1>18 DEF Reschedule, Writes, Teams
    <2>2. AllAlike([matches EXCEPT ![i].status = "scheduled"], matches)
      <3> DEFINE m == [matches[i] EXCEPT !.status = "scheduled"]
      <3> HIDE DEF i
      <3>1. i \in DOMAIN matches => m \in Match /\ Alike(m, matches[i])
        <4> SUFFICES ASSUME i \in DOMAIN matches PROVE m \in Match /\ Alike(m, matches[i])
          OBVIOUS
        <4>1. matches[i] \in Match
          BY <1>1
        <4> QED
          BY <4>1, ResultsMoveNobody
      <3>2. [matches EXCEPT ![i].status = "scheduled"] = [matches EXCEPT ![i] = m]
        OBVIOUS
      <3> HIDE DEF m
      <3> QED
        BY <1>1, <3>1, <3>2, OneChanged
    <2>3. AllAlike(matches', matches)
      BY <1>1, <2>1, <2>2
    <2> QED
      BY <1>2, <2>1, <2>3 DEF At
  <1> QED
    BY <1>5, <1>6, <1>7, <1>8, <1>9, <1>10, <1>11, <1>12, <1>13, <1>14, <1>15, <1>16, <1>17, <1>18
       DEF Recalculate

\* Who looks at the status changes no match.
LEMMA ViewersAreQuiet ==
    ASSUME IInv, CInv, NEW v \in Viewer, GetSwissStatus(v) \/ MaybeCrown(v) \/ SetChampion(v)
    PROVE  CInv'
  <1>1. AllAlike(matches, matches)
    BY DEF CInv, Kept, AllAlike, Alike
  <1>2. UNCHANGED <<group, matches, table, round>> /\ Teams' = Teams
    BY DEF GetSwissStatus, MaybeCrown, SetChampion, rows, Teams
  <1>3. ~At(v, "pairs")
    BY DEF GetSwissStatus, MaybeCrown, SetChampion, At
  <1>4. ASSUME NEW to, Goes(v, to), to.step \in {"idle", "complete", "crown"} PROVE CInv'
    <2>1. to.step \notin {"round", "pairs"} /\ to.step # "result"
      BY <1>4
    <2> QED
      BY <1>1, <1>2, <1>3, <1>4, <2>1, Quiet
  <1>5. CASE GetSwissStatus(v)
    BY <1>4, <1>5 DEF GetSwissStatus
  <1>6. CASE MaybeCrown(v)
    BY <1>4, <1>6 DEF MaybeCrown, Idle
  <1>7. CASE SetChampion(v)
    BY <1>4, <1>7 DEF SetChampion, Idle
  <1> QED
    BY <1>5, <1>6, <1>7

\* Nothing changes.
LEMMA CInvStutters ==
    ASSUME CInv, UNCHANGED vars \/ Expire
    PROVE  CInv'
  <1>1. UNCHANGED <<group, matches, table, round, request>>
    BY DEF Expire, vars, rows
  <1>2. Kept' /\ OneSeatEach(matches')
    BY <1>1 DEF CInv, Kept, At, Teams
  <1>3. League'
    BY <1>1 DEF CInv, League, Teams
  <1>4. Numbers'
    BY <1>1 DEF CInv, Numbers, Generating, At
  <1>5. Making'
    BY <1>1 DEF CInv, Making, At, Teams
  <1> QED
    BY <1>2, <1>3, <1>4, <1>5 DEF CInv

\* A step of a generation leaves the order as it was, or breaks it.
LEMMA OrderKept ==
    ASSUME Orderly, [Next]_vars
    PROVE  /\ group' = group /\ orderly' \in BOOLEAN
           /\ orderly' => orderly
           /\ group.mode # "swiss" => orderly'
  <1>1. ASSUME NEW r \in Request, GenerateSwissRound(r)
        PROVE  group' = group /\ group.mode = "swiss" /\ (orderly' = orderly \/ orderly' = FALSE)
    BY <1>1 DEF GenerateSwissRound, rows
  <1>2. ASSUME NEW r \in Request, GenerationFails(r)
        PROVE  group' = group /\ group.mode = "swiss" /\ orderly' = FALSE
    <2>1. group' = group /\ request[r].step = "pairs" /\ orderly' = FALSE
      BY <1>2 DEF GenerationFails, rows, At
    <2>2. group.mode = "swiss"
      BY <2>1 DEF Orderly, CInv, League
    <2> QED
      BY <2>1, <2>2
  <1>3. ASSUME NEW r \in Request, Recalculate(r)
        PROVE  UNCHANGED <<group, orderly>>
    BY <1>3 DEF Recalculate, Lock, ReadMatches, ReadPenalties, UpsertStanding, Unlock,
                RecalculationFails, rows, history
  <1>4. ASSUME NEW r \in Request,
               \/ UpdateMatchScore(r) \/ UpdateMatchStatus(r) \/ Reschedule(r)
               \/ \E tie \in Ties : PairTeams(r, tie)
               \/ CreateMatch(r) \/ UpdateSwissConfig(r)
        PROVE  UNCHANGED <<group, orderly>>
    BY <1>4 DEF UpdateMatchScore, UpdateMatchStatus, Reschedule, PairTeams, CreateMatch,
                UpdateSwissConfig, rows, history
  <1>5. ASSUME NEW r \in Request,
               \/ Result(r)
               \/ \E i \in DOMAIN matches : SetMatchLive(r, i) \/ ResetGroupMatch(r, i)
               \/ \E x \in Penalties : x[1] \in Teams /\ SetPenaltyPoints(r, x[1], x[2])
               \/ ResetSingleGroupResults(r)
        PROVE  UNCHANGED <<group, orderly>>
    BY <1>5 DEF Result, SubmitMatchResult, SetMatchLive, ResetGroupMatch, SetPenaltyPoints,
                ResetSingleGroupResults, rows, history
  <1>6. ASSUME \/ Expire \/ UNCHANGED vars
               \/ \E v \in Viewer : GetSwissStatus(v) \/ MaybeCrown(v) \/ SetChampion(v)
        PROVE  UNCHANGED <<group, orderly>>
    BY <1>6 DEF Expire, vars, GetSwissStatus, MaybeCrown, SetChampion, rows, history
  <1>7. \/ UNCHANGED <<group, orderly>>
        \/ group' = group /\ group.mode = "swiss" /\ (orderly' = orderly \/ orderly' = FALSE)
    BY <1>1, <1>2, <1>3, <1>4, <1>5, <1>6 DEF Next, Serve
  <1>8. orderly \in BOOLEAN /\ (group.mode # "swiss" => orderly)
    BY DEF Orderly
  <1>9. CASE UNCHANGED <<group, orderly>>
    BY <1>8, <1>9, Zenon
  <1>10. CASE group' = group /\ group.mode = "swiss" /\ orderly' = FALSE
    BY <1>10
  <1> QED
    BY <1>7, <1>9, <1>10, Zenon

\* The calendar and the rounds in the making are always as the invariant has
\* them.
LEMMA OrderlyHolds == Spec => []Orderly
  <1>1. Init => Orderly
    <2> SUFFICES ASSUME Init PROVE CInv
      BY DEF Init, Orderly
    <2>1. /\ group \in Groups /\ round = 0
          /\ matches = IF group.mode = "swiss" THEN <<>> ELSE Schedule(group.teams, group.legs)
          /\ \A r \in Request : request[r].step = "idle"
          /\ Teams = ToSet(group.teams)
      BY DEF Init, Idle, Teams
    <2>2. /\ group.teams \in Seq(Team) /\ Len(group.teams) >= 2 /\ IsInjective(group.teams)
          /\ group.legs \in Nat
      BY <2>1, GroupAssumption
    <2>3. /\ matches \in Seq(Match) /\ OneSeatEach(matches)
          /\ group.mode # "swiss" => PairsMeet(matches, Teams, group.legs)
      <3>1. CASE group.mode = "swiss"
        <4>1. matches = <<>>
          BY <2>1, <3>1
        <4>2. matches \in Seq(Match) /\ DOMAIN matches = {}
          BY <4>1
        <4> QED
          BY <3>1, <4>2 DEF OneSeatEach
      <3>2. CASE group.mode # "swiss"
        BY <2>1, <2>2, <3>2, ScheduleFair
      <3> QED
        BY <3>1, <3>2
    <2>4. Kept
      BY <2>1, <2>3 DEF Kept, At
    <2>5. League
      BY <2>1, <2>3 DEF League
    <2>6. Numbers
      <3>1. Generating = {}
        BY <2>1 DEF Generating
      <3>2. group.mode = "swiss" => Len(matches) = 0
        BY <2>1
      <3> QED
        BY <2>1, <3>1, <3>2 DEF Numbers, At
    <2>7. Making
      BY <2>1 DEF Making, At
    <2> QED
      BY <2>3, <2>4, <2>5, <2>6, <2>7 DEF CInv
  <1>2. IInv /\ Orderly /\ [Next]_vars => Orderly'
    <2> SUFFICES ASSUME IInv, Orderly, [Next]_vars PROVE Orderly'
      OBVIOUS
    <2>1. ASSUME orderly' PROVE CInv'
      <3>1. orderly' /\ CInv
        BY <2>1, OrderKept DEF Orderly
      <3>2. ASSUME NEW r \in Request PROVE ~GenerationFails(r)
        BY <3>1 DEF GenerationFails
      <3> QED
        BY <3>1, <3>2, OtherStepsAreQuiet, GenerateKeeps, PairTeamsKeeps, CreateMatchKeeps,
           UpdateConfigKeeps, ViewersAreQuiet, CInvStutters DEF Next, Serve
    <2> QED
      BY <2>1, OrderKept DEF Orderly
  <1> QED
    BY <1>1, <1>2, IInvHolds, PTL DEF Spec

-----------------------------------------------------------------------------
\* Whatever is entered, reset, recalculated or fails while it is played, a round
\* robin of any number of teams and legs stays the fair calendar it was made
\* with, and a Swiss system gets rounds that can be played as long as its rounds
\* are generated one after the other and none stops in the middle.
THEOREM CalendarStaysFair == Spec => []CalendarIsFair
  <1>1. Orderly => CalendarIsFair
    BY DEF Orderly, CInv, League, CalendarIsFair, EveryPairInEachLeg, PairsMeet
  <1> QED
    BY <1>1, OrderlyHolds, PTL

\* The round that is announced follows from the table.
LEMMA AnnouncedRound ==
    ASSUME CInv, NEW r \in Request, UpdateSwissConfig(r)
    PROVE  FollowsFromTheTable(r)
  <1> DEFINE read == request[r].read
             new  == {matches[i] : i \in {j \in DOMAIN matches : matches[j].round = request[r].round}}
             D    == Undecided(read.table)
             met  == Pairs(read.matches)
  <1>1. PICK plan :
           /\ Follows(plan, read, request[r].round, Teams)
           /\ \A m \in new : \E i \in 1 .. Len(plan) : Alike(m, plan[i])
           /\ \A i \in 1 .. Len(plan) : \E m \in new : Alike(m, plan[i])
    BY RoundComplete
  <1>2. /\ UNION {Sides(plan[i]) : i \in 1 .. Len(plan)} = D
        /\ \A i \in 1 .. Len(plan), t \in D :
              (/\ t # plan[i].a /\ plan[i].b # Nobody /\ {plan[i].a, plan[i].b} \in met
               /\ Before(read.table, plan[i].a, t)) =>
                 \/ {plan[i].a, t} \in met
                 \/ \E j \in 1 .. Len(plan), u \in D :
                       Sides(plan[j]) = {u, t} /\ ~Before(read.table, plan[i].a, u)
        /\ read.exact => D = {t \in Teams : Short(read.matches, t)}
    BY <1>1 DEF Follows, Seated
  <1>3. \A m, p : Alike(m, p) => m.a = p.a /\ m.b = p.b /\ Sides(m) = Sides(p)
    BY DEF Alike, Sides
  <1> HIDE DEF read, new, D, met
  <1>4. UNION {Sides(m) : m \in new} = D
    BY <1>1, <1>2, <1>3
  <1>5. ASSUME NEW m \in new, NEW t \in D \ {m.a}, m.b # Nobody, {m.a, m.b} \in met,
               Before(read.table, m.a, t)
        PROVE  \/ {m.a, t} \in met
               \/ \E u \in D : (\E o \in new : Sides(o) = {u, t}) /\ ~Before(read.table, m.a, u)
    <2>1. PICK i \in 1 .. Len(plan) : Alike(m, plan[i])
      BY <1>1
    <2>2. m.a = plan[i].a /\ m.b = plan[i].b
      BY <1>3, <2>1
    <2>3. \/ {plan[i].a, t} \in met
          \/ \E j \in 1 .. Len(plan), u \in D :
                Sides(plan[j]) = {u, t} /\ ~Before(read.table, plan[i].a, u)
      BY <1>2, <1>5, <2>2
    <2>4. CASE {plan[i].a, t} \in met
      BY <2>2, <2>4
    <2>5. ASSUME NEW j \in 1 .. Len(plan), NEW u \in D,
                 Sides(plan[j]) = {u, t}, ~Before(read.table, plan[i].a, u)
          PROVE  \E w \in D : (\E o \in new : Sides(o) = {w, t}) /\ ~Before(read.table, m.a, w)
      <3>1. PICK o \in new : Alike(o, plan[j])
        BY <1>1
      <3>2. Sides(o) = {u, t} /\ ~Before(read.table, m.a, u)
        BY <1>3, <2>2, <2>5, <3>1
      <3> QED
        BY <3>2
    <2> QED
      BY <2>3, <2>4, <2>5
  <1>6. read.exact =>
           D = {t \in Teams : LET record == Record(read.matches, t)
                              IN  record.wins < WinThreshold /\ record.losses < LossThreshold}
    BY <1>2 DEF Short
  <1> QED
    BY <1>4, <1>5, <1>6 DEF FollowsFromTheTable, read, new, D, met

\* Every round of a Swiss system is one that the table asks for, as long as its
\* rounds are generated one after the other and none stops in the middle.
THEOREM RoundsAreFromTheTable == Spec => RoundFromTheTable
  <1>1. Orderly /\ [Next]_vars =>
           [\A r \in Request : UpdateSwissConfig(r) /\ orderly => FollowsFromTheTable(r)]_vars
    BY AnnouncedRound DEF Orderly
  <1> QED
    BY <1>1, OrderlyHolds, PTL DEF Spec, RoundFromTheTable
=============================================================================
