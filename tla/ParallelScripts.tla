---------------------------- MODULE ParallelScripts ----------------------------
(***************************************************************************)
(* The checks of the smokes of OpenMP and oneTBB, in the order of their    *)
(* sources: what each thread of a team does, for each element it takes if  *)
(* there are elements to distribute, counted from 0 or from 1.             *)
(***************************************************************************)
EXTENDS Naturals, SequencesExt

Region(szName, body) == <<[name |-> szName, loop |-> FALSE, first |-> 0, body |-> body]>>
Loop(szName, first, body) == <<[name |-> szName, loop |-> TRUE, first |-> first, body |-> body]>>

TestSchedule(szName) == Loop(szName, 0, <<"visitAndReduce">>)

\* All tasks of the task group, which the single thread has created.
TestTasks == Loop("tasks-taskgroup", 0, <<"visit">>)

Critical == <<"lock", "load", "store", "unlock">>

TestSynchronization(rounds) ==
  Region("synchronization",
         FlattenSeq([i \in 1..rounds |-> Append(Critical, "atomic")])
           \o <<"arrive", "barrier", "compare", "single">>)

TestDataScopes == Region("data-sharing", <<"scope", "count">>)
TestSimd == Loop("simd", 0, <<"visitAndReduce">>)
TestRepeatedRegions(rounds) ==
  FlattenSeq([round \in 1..rounds |-> Region("repeated-regions", <<"one">>)])

OpenMpProbe(rounds) ==
  FlattenSeq(<<Region("parallel-region", <<"threads">>),
               TestSchedule("schedule-static"), TestSchedule("schedule-dynamic"),
               TestSchedule("schedule-guided"), TestTasks, TestSynchronization(rounds),
               TestDataScopes, TestSimd, TestRepeatedRegions(rounds)>>)

\* PrintRuntimeIdentity: the path of the loaded libomp.dll is the expected one.
LlvmOpenMpConsumer(rounds) == OpenMpProbe(rounds) \o Region("runtime-dll", <<"identity">>)

OneTbbConsumer ==
  FlattenSeq(<<
    Loop("parallel-reduce", 1, <<"reduce">>),
    Loop("parallel-for", 0, <<"visit">>),
    Region("parallel-sort", <<"sort">>),
    Loop("parallel-scan", 0, <<"assign">>),
    Loop("task-arena", 0, <<"count">>),
    Loop("concurrent-vector", 0, <<"visit">>),
    Loop("concurrent-queue", 0, <<"visit">>),
    Loop("concurrent-hash-map", 0, <<"assign">>),
    Loop("spin-mutex", 0, Critical),
    Loop("parallel-pipeline", 0, <<"add">>),
    Loop("task-group", 0, <<"count">>),
    Loop("flow-graph", 1, <<"add">>),
    Region("exception-propagation", <<"throw">>)>>)

ParallelSmokes(rounds) ==
  [openmp |-> OpenMpProbe(rounds), llvmOpenMp |-> LlvmOpenMpConsumer(rounds),
   oneTbb |-> OneTbbConsumer]
=============================================================================
