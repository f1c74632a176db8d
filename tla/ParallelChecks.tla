---------------------------- MODULE ParallelChecks ----------------------------
(***************************************************************************)
(* The smokes of OpenMP and oneTBB: openmp/probe/main.cpp, llvm-openmp/    *)
(* consumer/main.cpp and onetbb/consumer/main.cpp under admin/smokes.      *)
(* Each runs a list of checks.  A check lets a team of threads work on     *)
(* shared data and compares the result, when the work is over.             *)
(*                                                                         *)
(* The threads, the distribution of the work and the containers belong to  *)
(* the runtime under test, which may behave wrongly up to MaxSlips times.  *)
(* Whatever is not written to shared memory is one step.  A list of 4096   *)
(* or 2048 elements has Elements here, a loop of 128 rounds has Rounds.    *)
(* ParallelScripts gives the programs.                                     *)
(***************************************************************************)
EXTENDS Naturals, FiniteSets, Sequences

CONSTANTS
  Lists,                     \* the programs: a function from their names to lists of checks
  Elements, Rounds, MaxSlips \* bounds of the model

VARIABLES
  list,    \* the program that runs
  index,   \* which of its checks
  stage,   \* "idle", "start", "run", "check", "ended"
  team,    \* the number of threads that take part
  place,   \* where each of them stands in the body, 0: it asks for an element; Out
  todo,    \* elements that nobody has taken
  item,    \* the element of each thread
  partial, \* its share of a reduction
  reg,     \* the value it has loaded
  lock,    \* the holder of the lock or critical section, 0: free
  mem,     \* the data that the threads share
  sorted,  \* vecSorted of the oneTBB smoke: how often each element is in it, and its order
  bOk,     \* ok, bSuccess
  slips,   \* what the runtime has done wrong and no check has noticed
  noticed  \* whether a check has noticed anything

teamVars == <<team, place, todo, item, partial, reg, lock, mem>>
parallelVars == <<list, index, stage, teamVars, sorted, bOk, slips, noticed>>

Threads == {1, 2}
NoItem == Elements + 1

FromZero == 0..(Elements - 1)
FromOne == 1..Elements

Tbb == list = "oneTbb"
Now == Lists[list][index]
IsLoop == Now.loop
Items == IF ~IsLoop THEN {} ELSE IF Now.first = 0 THEN FromZero ELSE FromOne
\* Behind the body: done, or not in the team.
Out == Len(Now.body) + 1
Alone == Now.name \in {"simd", "runtime-dll", "parallel-sort", "exception-propagation"}

-----------------------------------------------------------------------------
(* The runtime: teams, elements, waiting. *)

Nothing ==
  [visits |-> [i \in 0..Elements |-> 0], assigned |-> {}, total |-> 0, guarded |-> 0,
   atomic |-> 0, arrived |-> 0, failed |-> 0, single |-> 0]

Slip(kind, elements) ==
  /\ Cardinality(slips) < MaxSlips /\ ~noticed
  /\ slips' = slips \cup {[check |-> Now.name, kind |-> kind, elements |-> elements]}

Begin(program) ==
  /\ stage = "idle"
  /\ list' = program /\ index' = 1 /\ stage' = "start"
  /\ UNCHANGED <<teamVars, sorted, bOk, slips, noticed>>

\* omp_set_num_threads(2) demands two threads; oneTBB takes what it likes.
Fork(n) ==
  /\ stage = "start"
  /\ IF n = 1 /\ ~Alone /\ ~Tbb THEN Slip("team", {}) ELSE slips' = slips
  /\ Alone => n = 1
  /\ stage' = "run" /\ team' = n
  /\ place' = [t \in Threads |-> IF t > n THEN Out ELSE IF IsLoop THEN 0 ELSE 1]
  /\ todo' = Items
  /\ item' = [t \in Threads |-> NoItem]
  /\ partial' = [t \in Threads |-> 0]
  /\ reg' = [t \in Threads |-> 0]
  /\ lock' = 0 /\ mem' = Nothing
  /\ UNCHANGED <<list, index, sorted, bOk, noticed>>

\* An element is handed out, or handed out although it stays to be done.
Take(t, i) ==
  /\ stage = "run" /\ place[t] = 0
  /\ i \in todo
  /\ \/ todo' = todo \ {i} /\ slips' = slips
     \/ todo' = todo /\ Slip("again", {i})
  /\ item' = [item EXCEPT ![t] = i]
  /\ place' = [place EXCEPT ![t] = 1]
  /\ UNCHANGED <<list, index, stage, team, partial, reg, lock, mem, sorted, bOk, noticed>>

Lose(i) ==
  /\ stage = "run" /\ i \in todo
  /\ todo' = todo \ {i}
  /\ Slip("lost", {i})
  /\ UNCHANGED <<list, index, stage, team, place, item, partial, reg, lock, mem, sorted, bOk, noticed>>

Done(t) ==
  \/ place[t] = Out
  \/ IsLoop /\ place[t] = 0 /\ todo = {}

\* Reductions end with the sum of the shares.
Combined(shares) == [mem EXCEPT !.total = @ + shares[1] + shares[2]]

\* The wait at the end: all is done; a share gets lost; or it does not wait.
Join ==
  /\ stage = "run"
  /\ \/ /\ \A t \in Threads : Done(t)
        /\ \/ mem' = Combined(partial) /\ slips' = slips
           \/ \E t \in Threads : /\ partial[t] > 0
                                 /\ mem' = Combined([partial EXCEPT ![t] = 0])
                                 /\ Slip("share", {})
     \/ todo # {} /\ mem' = Combined(partial) /\ Slip("early", todo)
  /\ stage' = "check"
  /\ UNCHANGED <<list, index, team, place, todo, item, partial, reg, lock, sorted, bOk, noticed>>

\* oneTBB throws: the handler of main, and the result is FAIL.
Throw ==
  /\ stage = "run" /\ Tbb
  /\ Slip("throws", {})
  /\ bOk' = FALSE /\ stage' = "ended"
  /\ UNCHANGED <<list, index, teamVars, sorted, noticed>>

-----------------------------------------------------------------------------
(* The bodies. *)

At(t, ops) == stage = "run" /\ place[t] \in DOMAIN Now.body /\ Now.body[place[t]] \in ops

Advance(t) ==
  /\ IF IsLoop /\ place[t] = Len(Now.body)
     THEN place' = [place EXCEPT ![t] = 0] /\ item' = [item EXCEPT ![t] = NoItem]
     ELSE place' = [place EXCEPT ![t] = @ + 1] /\ item' = item
  /\ UNCHANGED <<list, index, stage, team, todo, bOk, noticed>>

\* What reaches an atomic variable or a container of the library is kept or lost.
Keep(t, new) ==
  \/ mem' = new /\ slips' = slips
  \/ mem' = mem /\ Slip("dropped", IF IsLoop THEN {item[t]} ELSE {})

\* fetch_add on the counter of the element; push_back, push.
Visit(t) ==
  /\ At(t, {"visit"})
  /\ Keep(t, [mem EXCEPT !.visits[item[t]] = @ + 1])
  /\ Advance(t)
  /\ UNCHANGED <<partial, reg, lock, sorted>>

\* The same, and total += i, which is private to the thread.
VisitAndReduce(t) ==
  /\ At(t, {"visitAndReduce"})
  /\ Keep(t, [mem EXCEPT !.visits[item[t]] = @ + 1])
  /\ partial' = [partial EXCEPT ![t] = @ + item[t]]
  /\ Advance(t)
  /\ UNCHANGED <<reg, lock, sorted>>

\* An insertion with a key, an assignment to the element.
Assign(t) ==
  /\ At(t, {"assign"})
  /\ Keep(t, [mem EXCEPT !.assigned = @ \cup {item[t]}])
  /\ Advance(t)
  /\ UNCHANGED <<partial, reg, lock, sorted>>

\* fetch_add(1), fetch_add(i), and an exception that the wait throws again.
Count(t) ==
  /\ At(t, {"count", "throw"})
  /\ Keep(t, [mem EXCEPT !.total = @ + 1])
  /\ Advance(t)
  /\ UNCHANGED <<partial, reg, lock, sorted>>

Add(t) ==
  /\ At(t, {"add"})
  /\ Keep(t, [mem EXCEPT !.total = @ + item[t]])
  /\ Advance(t)
  /\ UNCHANGED <<partial, reg, lock, sorted>>

\* iValue += i, count += 1 of a reduction.
Reduce(t) ==
  /\ At(t, {"reduce", "one"})
  /\ partial' = [partial EXCEPT ![t] = @ + (IF IsLoop THEN item[t] ELSE 1)]
  /\ Advance(t)
  /\ UNCHANGED <<reg, lock, mem, sorted, slips>>

Lock(t) ==
  /\ At(t, {"lock"})
  /\ IF lock = 0 THEN slips' = slips ELSE Slip("lock", {})
  /\ lock' = t
  /\ Advance(t)
  /\ UNCHANGED <<partial, reg, mem, sorted>>

Load(t) ==
  /\ At(t, {"load"})
  /\ reg' = [reg EXCEPT ![t] = mem.guarded]
  /\ Advance(t)
  /\ UNCHANGED <<partial, lock, mem, sorted, slips>>

Store(t) ==
  /\ At(t, {"store"})
  /\ mem' = [mem EXCEPT !.guarded = reg[t] + 1]
  /\ Advance(t)
  /\ UNCHANGED <<partial, reg, lock, sorted, slips>>

Unlock(t) ==
  /\ At(t, {"unlock"})
  /\ lock' = 0
  /\ Advance(t)
  /\ UNCHANGED <<partial, reg, mem, sorted, slips>>

Atomic(t) ==
  /\ At(t, {"atomic"})
  /\ Keep(t, [mem EXCEPT !.atomic = @ + 1])
  /\ Advance(t)
  /\ UNCHANGED <<partial, reg, lock, sorted>>

Arrive(t) ==
  /\ At(t, {"arrive"})
  /\ Keep(t, [mem EXCEPT !.arrived = @ + 1])
  /\ Advance(t)
  /\ UNCHANGED <<partial, reg, lock, sorted>>

\* Plausible bug: nothing holds the threads before they compare.
BarrierMissing(t) ==
  /\ At(t, {"barrier"})
  /\ Advance(t)
  /\ UNCHANGED <<partial, reg, lock, mem, sorted, slips>>

Barrier(t) ==
  /\ At(t, {"barrier"})
  /\ IF \A u \in Threads : place[u] >= place[t] THEN slips' = slips ELSE Slip("barrier", {})
  /\ Advance(t)
  /\ UNCHANGED <<partial, reg, lock, mem, sorted>>

\* if(barrierCount != omp_get_num_threads()) ++failed.
Compare(t) ==
  /\ At(t, {"compare"})
  /\ mem' = IF mem.arrived # team THEN [mem EXCEPT !.failed = @ + 1] ELSE mem
  /\ Advance(t)
  /\ UNCHANGED <<partial, reg, lock, sorted, slips>>

\* ++singleCount by the thread that comes first.
Single(t) ==
  /\ At(t, {"single"})
  /\ \/ mem' = [mem EXCEPT !.single = 1] /\ slips' = slips
     \/ mem.single > 0 /\ mem' = [mem EXCEPT !.single = 2] /\ Slip("single", {})
  /\ Advance(t)
  /\ UNCHANGED <<partial, reg, lock, sorted>>

\* threads = omp_get_num_threads() by one of them.
CountThreads(t) ==
  /\ At(t, {"threads"})
  /\ mem' = [mem EXCEPT !.total = team]
  /\ Advance(t)
  /\ UNCHANGED <<partial, reg, lock, sorted, slips>>

\* if(seed != 29) ++bad.
Scope(t) ==
  /\ At(t, {"scope"})
  /\ \/ mem' = mem /\ slips' = slips
     \/ mem' = [mem EXCEPT !.failed = @ + 1] /\ Slip("scope", {})
  /\ Advance(t)
  /\ UNCHANGED <<partial, reg, lock, sorted>>

\* The module is found, its path fits, the expected one is given and equal.
Identity(t) ==
  /\ At(t, {"identity"})
  /\ Keep(t, [mem EXCEPT !.total = 1])
  /\ Advance(t)
  /\ UNCHANGED <<partial, reg, lock, sorted>>

\* One element takes the place of another, or the order is wrong.
Sort(t) ==
  /\ At(t, {"sort"})
  /\ \/ sorted' = sorted /\ slips' = slips
     \/ \E i, j \in FromZero : /\ i # j
                               /\ sorted' = [sorted EXCEPT !.times[i] = 0, !.times[j] = 2]
                               /\ Slip("sort", {i})
     \/ sorted' = [sorted EXCEPT !.ordered = FALSE] /\ Slip("sort", {})
  /\ Advance(t)
  /\ UNCHANGED <<partial, reg, lock, mem>>

-----------------------------------------------------------------------------
(* The verdicts. *)

\* The sum of the numbers below n, as the sources write it.
Expected(n) == (n * (n - 1)) \div 2
Visited == \A i \in FromZero : mem.visits[i] = 1
FrontAndBack == sorted.times[0] > 0 /\ sorted.times[Elements - 1] > 0
AsSorted == sorted.ordered /\ \A i \in FromZero : mem.visits[i] = sorted.times[i]

Schedules == {"schedule-static", "schedule-dynamic", "schedule-guided"}

OpenMpVerdict(name) ==
  /\ name \in Schedules => Visited /\ mem.total = Expected(Elements)
  /\ name = "tasks-taskgroup" => Visited
  /\ name = "synchronization" => /\ mem.failed = 0 /\ mem.single = 1
                                 /\ mem.guarded = mem.atomic /\ mem.atomic >= 2 * Rounds
  /\ name \in {"parallel-region", "repeated-regions"} => mem.total >= 2
  /\ name = "data-sharing" => mem.failed = 0 /\ mem.total >= 2
  /\ name = "simd" => mem.total = Expected(Elements) /\ mem.visits[Elements - 1] = 1
  /\ name = "runtime-dll" => mem.total = 1

TbbVerdict(name) ==
  /\ name \in {"parallel-reduce", "flow-graph"} => mem.total = Expected(Elements + 1)
  /\ name = "parallel-for" => Visited
  /\ name = "parallel-sort" => sorted.ordered /\ FrontAndBack
  /\ name \in {"parallel-scan", "concurrent-hash-map"} => mem.assigned = FromZero
  /\ name \in {"task-arena", "task-group"} => mem.total = Elements
  /\ name \in {"concurrent-vector", "concurrent-queue"} => AsSorted
  /\ name = "spin-mutex" => mem.guarded = Elements
  /\ name = "parallel-pipeline" => mem.total = Expected(Elements)
  /\ name = "exception-propagation" => mem.total = 1

Verdict == IF Tbb THEN TbbVerdict(Now.name) ELSE OpenMpVerdict(Now.name)

\* ok = Check(...) && ok.
Check ==
  /\ stage = "check"
  /\ bOk' = (Verdict /\ bOk)
  /\ noticed' = (noticed \/ (~Verdict /\ slips # {}))
  /\ slips' = IF Verdict THEN slips ELSE {}
  /\ IF index < Len(Lists[list]) THEN index' = index + 1 /\ stage' = "start"
                          ELSE index' = index /\ stage' = "ended"
  /\ UNCHANGED <<list, teamVars, sorted>>

Init ==
  /\ list = "none" /\ index = 0 /\ stage = "idle"
  /\ team = 0
  /\ place = [t \in Threads |-> 0]
  /\ todo = {}
  /\ item = [t \in Threads |-> NoItem]
  /\ partial = [t \in Threads |-> 0]
  /\ reg = [t \in Threads |-> 0]
  /\ lock = 0 /\ mem = Nothing
  /\ sorted = [times |-> [i \in FromZero |-> 1], ordered |-> TRUE]
  /\ bOk = TRUE /\ slips = {} /\ noticed = FALSE

Body(t) ==
  \/ Visit(t) \/ VisitAndReduce(t) \/ Assign(t) \/ Count(t) \/ Add(t) \/ Reduce(t)
  \/ Lock(t) \/ Load(t) \/ Store(t) \/ Unlock(t)
  \/ Atomic(t) \/ Arrive(t) \/ Barrier(t) \/ Compare(t) \/ Single(t)
  \/ CountThreads(t) \/ Scope(t) \/ Identity(t) \/ Sort(t)

Run ==
  \/ \E n \in Threads : Fork(n)
  \/ \E t \in Threads : Body(t) \/ \E i \in todo : Take(t, i)
  \/ \E i \in todo : Lose(i)
  \/ Join \/ Throw \/ Check

Next == Run \/ \E program \in DOMAIN Lists : Begin(program)

Spec == Init /\ [][Next]_parallelVars

-----------------------------------------------------------------------------
(* Properties. *)

Ended == stage = "ended"

\* Types.
TypeOK ==
  /\ list \in DOMAIN Lists \cup {"none"}
  /\ list # "none" => index \in DOMAIN Lists[list]
  /\ stage \in {"idle", "start", "run", "check", "ended"}
  /\ team \in 0..2
  /\ place \in [Threads -> Nat]
  /\ todo \subseteq 0..Elements
  /\ item \in [Threads -> FromZero \cup FromOne \cup {NoItem}]
  /\ partial \in [Threads -> Nat] /\ reg \in [Threads -> Nat]
  /\ lock \in Threads \cup {0}
  /\ bOk \in BOOLEAN /\ noticed \in BOOLEAN

\* A runtime that behaves is never reported, however the threads interleave.
NoFalseAlarm == Ended /\ slips = {} /\ ~noticed => bOk

\* What the checks cannot see: a team of one where nothing counts the threads;
\* element 0 in a sum; an element that simd does not write, the last excepted;
\* a repeated assignment; a lock or a barrier that lets someone through without
\* consequences.
Unseen ==
  {s \in slips :
     \/ s.kind = "team" /\ s.check \in Schedules \cup {"tasks-taskgroup"}
     \/ s.elements = {0} /\ s.check \in {"simd", "parallel-pipeline"}
     \/ s.kind = "dropped" /\ s.check = "simd" /\ Elements - 1 \notin s.elements
     \/ s.kind = "again" /\ s.check \in {"parallel-scan", "concurrent-hash-map"}
     \/ s.kind \in {"lock", "barrier"}}

\* Nothing else gets through: one lost, repeated or early piece of work, in
\* whatever check and at whatever moment, makes the smoke fail, in a later
\* check at the latest.
SlipsNoticed == Ended /\ bOk => slips \subseteq Unseen

=============================================================================
