------------------------------ MODULE SmokeStage ------------------------------
(***************************************************************************)
(* The consumer smokes of admin/smokes on a build machine.  The BuildEngine*)
(* runs one kind of program at a time; each kind has a machine of its own: *)
(*   ScriptedSmoke   programs that call their library from one thread,     *)
(*   ParallelChecks  OpenMP and oneTBB, with a team of threads,            *)
(*   ComLifetime     WIL, one object and the pointers to it,               *)
(*   TerminateSmoke  oneTBB, a program that starts itself as a child,      *)
(*   NamingSmoke     ACE/TAO, a program that starts a service; several runs*)
(*                   of it on one machine may overlap.                     *)
(* What all of them owe to the BuildEngine is stated here.                 *)
(***************************************************************************)
EXTENDS Naturals

CONSTANTS
  Scripts, Reproducers, Tolerated,                       \* of ScriptedSmoke
  Leftover, Remains, Outliving, MaxFaults,
  Lists, Elements, Rounds, MaxSlips,                     \* of ParallelChecks
  MaxDefects,                                            \* of ComLifetime
  Smokes, Parallel, Ports, NoOne, MaxAttempts, MaxKills  \* of NamingSmoke

VARIABLES
  kind, \* of the programs that run
  smoke, script, part, at, mode, facts, missed, live, links, stack, report, exit, misuse,
  list, index, stage, team, place, todo, item, partial, reg, lock, mem, sorted, bOk, slips, noticed,
  step, held, object, bPass, defects, dead,
  caller, case, child, code, iWait, told, handle, mishap,
  pc, port, attempt, naming, resolved, same, verdict, service, bound, trouble, kills

scriptVars ==
  <<smoke, script, part, at, mode, facts, missed, live, links, stack, report, exit, misuse>>
parallelVars ==
  <<list, index, stage, team, place, todo, item, partial, reg, lock, mem, sorted, bOk, slips, noticed>>
comVars == <<step, held, object, bPass, defects, dead>>
terminateVars == <<caller, case, child, code, iWait, told, handle, mishap>>
namingVars ==
  <<pc, port, attempt, naming, resolved, same, verdict, service, bound, trouble, kills>>
vars == <<kind, scriptVars, parallelVars, comVars, terminateVars, namingVars>>

ASSUME ScriptedAssumption ==
  MaxFaults \in Nat /\ Reproducers \subseteq DOMAIN Scripts
ASSUME ParallelChecksAssumption ==
  Elements \in Nat \ {0} /\ Rounds \in Nat \ {0} /\ MaxSlips \in Nat
ASSUME DefectsAssumption == MaxDefects \in Nat
ASSUME NamingAssumption ==
  /\ NoOne \notin Smokes \cup Ports /\ Ports # {} /\ Parallel \in BOOLEAN
  /\ MaxAttempts \in Nat /\ MaxKills \in Nat

S == INSTANCE ScriptedSmoke
P == INSTANCE ParallelChecks
C == INSTANCE ComLifetime
T == INSTANCE TerminateSmoke
N == INSTANCE NamingSmoke

Runs(k) == kind \in {"none", k} /\ kind' = k

Scripted ==
  /\ Runs("scripted") /\ S!Next
  /\ UNCHANGED <<parallelVars, comVars, terminateVars, namingVars>>
Threaded ==
  /\ Runs("threads") /\ P!Next
  /\ UNCHANGED <<scriptVars, comVars, terminateVars, namingVars>>
Com ==
  /\ Runs("com") /\ C!Next
  /\ UNCHANGED <<scriptVars, parallelVars, terminateVars, namingVars>>
Terminating ==
  /\ Runs("terminate") /\ T!Next
  /\ UNCHANGED <<scriptVars, parallelVars, comVars, namingVars>>
Naming ==
  /\ Runs("naming") /\ N!Next
  /\ UNCHANGED <<scriptVars, parallelVars, comVars, terminateVars>>

Init == kind = "none" /\ S!Init /\ P!Init /\ C!Init /\ T!Init /\ N!Init

\* The only states without a step.
Finished ==
  /\ \/ S!Over \/ P!Ended \/ C!Ended \/ T!Ended
     \/ kind = "naming" /\ \A s \in Smokes : N!AtRest(s)
  /\ UNCHANGED vars

Next == Scripted \/ Threaded \/ Com \/ Terminating \/ Naming \/ Finished

Spec == Init /\ [][Next]_vars

\* A process that runs goes on, but not a call to a service that does not
\* answer; and the system ends what is to be ended.  Nothing is assumed of the
\* children and of the services.
FairSpec ==
  /\ Spec
  /\ WF_terminateVars(kind = "terminate" /\ T!Smoke)
  /\ WF_terminateVars(kind = "terminate" /\ T!Machine)
  /\ \A s \in Smokes : WF_namingVars(kind = "naming" /\ N!Run(s))

-----------------------------------------------------------------------------
(* Properties. *)

\* Types.
TypeOK ==
  /\ kind \in {"none", "scripted", "threads", "com", "terminate", "naming"}
  /\ S!TypeOK /\ P!TypeOK /\ C!TypeOK /\ T!TypeOK /\ N!TypeOK

\* No smoke accuses a correct library: whatever the order of threads, children
\* and other runs, a smoke fails only if its library or the machine has done
\* something wrong, or another run has used its port.
NoFalseAlarm ==
  S!NoFalseAlarm /\ P!NoFalseAlarm /\ C!NoFalseAlarm /\ T!NoFalseAlarm /\ N!FailsForCause

\* A smoke that passes has met no failure of its library.  A failed call is
\* not forgotten on any path through conditions, early returns and handlers;
\* and what no call tells of is noticed too, known blind spots excepted: lost,
\* repeated or early work of a parallel runtime, references of a COM pointer
\* that are not counted, an answer after the timeout.
PassIsDeserved ==
  /\ S!ZeroIsDeserved
  /\ P!SlipsNoticed /\ C!LifetimeKept /\ C!OneDefectNoticed /\ T!LateAnswersFail

\* The BuildEngine looks at the exit code and at the report; they agree.
VerdictsAgree == S!VerdictsAgree

\* Nothing is used after its end, or ends before what uses it; the exception
\* of the Xerces smoke, which outlives its runtime, is left out by name.
NothingDangles == S!NothingDangles

\* A smoke that ends leaves no process running, on whatever path, and no handle
\* open but those that Leftover and Remains name.  A binding stays in a naming
\* service that runs on only if a call of the smoke to that service has failed,
\* and then the smoke fails.
NothingLeftBehind ==
  S!AllReleased /\ T!ChildrenOver /\ N!NothingLeftRunning /\ N!NoBindingLeft

\* The smokes that wait for other processes end: the terminate smoke although
\* its children hang, the naming smoke unless a service at its port accepts its
\* calls and does not answer, for which it sets no limit.
Ends == T!Ends /\ N!Ends

\* admin/smokes/README.md says that every executable writes its result to
\* stdout.
ResultOnStdout == S!ResultOnStdout

=============================================================================
