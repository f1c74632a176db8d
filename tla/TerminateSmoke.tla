---------------------------- MODULE TerminateSmoke ----------------------------
(***************************************************************************)
(* admin/smokes/onetbb/terminate/terminate_smoke.cpp: oneTBB ends the      *)
(* process when terminate_on_exception is set and a loop fails.  The smoke *)
(* starts itself as a child, once for an error in the library and once for *)
(* one in a worker, and expects exit code 77 and 78.  It waits 30 s for a  *)
(* child, which may hang, end otherwise, or end when the time is over.     *)
(***************************************************************************)
EXTENDS Naturals

VARIABLES
  caller,  \* where Child stands, or main
  case,    \* the case that runs
  child,   \* the child process of each case
  code,    \* its exit code
  iWait,   \* what the first wait of each case has returned
  told,    \* what Child has returned for each case
  handle,  \* cases whose handles are open
  mishap   \* anything but the library and the machine as they should be (history)

terminateVars == <<caller, case, child, code, iWait, told, handle, mishap>>

Cases == {"internal", "user"}
iInternalExit == 77
iUserExit == 78
Expected(c) == IF c = "internal" THEN iInternalExit ELSE iUserExit

\* STILL_ACTIVE, and the exit codes a child can have: expected ones, return 1,
\* abort, and that of TerminateProcess(theProcess.hProcess, 99).
StillActive == 259
Codes == {iInternalExit, iUserExit, 1, 3, 99, StillActive}

Goto(from, to) == caller = from /\ caller' = to
Over(c) == child[c] = "over"

-----------------------------------------------------------------------------
(* Child, for one case after the other. *)

Begin ==
  /\ Goto("idle", "start")
  /\ UNCHANGED <<case, child, code, iWait, told, handle, mishap>>

Return(result) ==
  /\ told' = [told EXCEPT ![case] = IF result THEN "PASS" ELSE "FAIL"]
  /\ IF case = "internal" THEN case' = "user" /\ caller' = "start"
                          ELSE case' = case /\ caller' = "ended"

\* CreateProcessW, or GetModuleFileNameW, fails.
NotStarted ==
  /\ caller = "start"
  /\ Return(FALSE)
  /\ mishap' = TRUE
  /\ UNCHANGED <<child, code, iWait, handle>>

Start ==
  /\ Goto("start", "wait")
  /\ child' = [child EXCEPT ![case] = "running"]
  /\ handle' = handle \cup {case}
  /\ UNCHANGED <<case, code, iWait, told, mishap>>

\* WAIT_OBJECT_0.
Signaled ==
  /\ Over(case)
  /\ Goto("wait", "exit code")
  /\ iWait' = [iWait EXCEPT ![case] = "object"]
  /\ UNCHANGED <<case, child, code, told, handle, mishap>>

\* The child still runs after 30 s.
TimedOut ==
  /\ ~Over(case)
  /\ Goto("wait", "terminate")
  /\ iWait' = [iWait EXCEPT ![case] = "timeout"]
  /\ mishap' = TRUE
  /\ UNCHANGED <<case, child, code, told, handle>>

\* TerminateProcess; the child may have ended since.
Terminate ==
  /\ Goto("terminate", "wait on")
  /\ child' = [child EXCEPT ![case] = IF Over(case) THEN @ ELSE "dying"]
  /\ UNCHANGED <<case, code, iWait, told, handle, mishap>>

\* WaitForSingleObject(theProcess.hProcess, INFINITE).
WaitOn ==
  /\ Over(case)
  /\ Goto("wait on", "exit code")
  /\ UNCHANGED <<case, child, code, iWait, told, handle, mishap>>

\* Plausible bug: the exit code is read in any case.
ExitCodeAlways ==
  /\ caller = "exit code"
  /\ handle' = handle \ {case}
  /\ Return(code[case] = Expected(case))
  /\ UNCHANGED <<child, code, iWait, mishap>>

\* The exit code of a child that has ended in time; CloseHandle.
ExitCode ==
  /\ caller = "exit code"
  /\ handle' = handle \ {case}
  /\ Return(iWait[case] = "object" /\ code[case] = Expected(case))
  /\ UNCHANGED <<child, code, iWait, mishap>>

-----------------------------------------------------------------------------
(* The children and the machine. *)

Leave(c, iExit) ==
  /\ child' = [child EXCEPT ![c] = "over"]
  /\ code' = [code EXCEPT ![c] = iExit]

\* The handler that set_terminate has installed ends the process.
OnTerminate(c) ==
  /\ child[c] = "running"
  /\ Leave(c, Expected(c))
  /\ UNCHANGED <<caller, case, iWait, told, handle, mishap>>

\* The loop returns, or an exception leaves it: return 1, or abort.
Otherwise(c) ==
  /\ child[c] = "running"
  /\ \E iExit \in {1, 3} : Leave(c, iExit)
  /\ mishap' = TRUE
  /\ UNCHANGED <<caller, case, iWait, told, handle>>

\* The loop never returns.
Hang(c) ==
  /\ child[c] = "running"
  /\ child' = [child EXCEPT ![c] = "hanging"]
  /\ mishap' = TRUE
  /\ UNCHANGED <<caller, case, code, iWait, told, handle>>

\* A terminated process ends.
Die(c) ==
  /\ child[c] = "dying"
  /\ Leave(c, 99)
  /\ UNCHANGED <<caller, case, iWait, told, handle, mishap>>

Init ==
  /\ caller = "idle" /\ case = "internal"
  /\ child = [c \in Cases |-> "none"]
  /\ code = [c \in Cases |-> StillActive]
  /\ iWait = [c \in Cases |-> "none"]
  /\ told = [c \in Cases |-> "none"]
  /\ handle = {}
  /\ mishap = FALSE

Smoke ==
  \/ NotStarted \/ Start \/ Signaled \/ TimedOut \/ Terminate \/ WaitOn \/ ExitCode

Machine == \E c \in Cases : Die(c)

Next ==
  \/ Begin \/ Smoke \/ Machine
  \/ \E c \in Cases : OnTerminate(c) \/ Otherwise(c) \/ Hang(c)

Spec == Init /\ [][Next]_terminateVars

\* The smoke runs and the system ends what it is told to end; the library may
\* hang, and nothing is assumed of the children.
FairSpec == Spec /\ WF_terminateVars(Smoke) /\ WF_terminateVars(Machine)

-----------------------------------------------------------------------------
(* Properties. *)

Ended == caller = "ended"
Passed == \A c \in Cases : told[c] = "PASS"

\* Types.
TypeOK ==
  /\ caller \in {"idle", "start", "wait", "terminate", "wait on", "exit code", "ended"}
  /\ case \in Cases
  /\ child \in [Cases -> {"none", "running", "hanging", "dying", "over"}]
  /\ code \in [Cases -> Codes]
  /\ iWait \in [Cases -> {"none", "object", "timeout"}]
  /\ told \in [Cases -> {"none", "PASS", "FAIL"}]
  /\ handle \subseteq Cases
  /\ mishap \in BOOLEAN

\* A child that terminates as it should and in time is never reported.
NoFalseAlarm == Ended /\ ~mishap => Passed

\* A case passes only for a child that has ended by its own handler, and has
\* done so before the time was over: an answer that comes between the timeout
\* and TerminateProcess does not count.
LateAnswersFail ==
  \A c \in Cases : told[c] = "PASS" => code[c] = Expected(c) /\ iWait[c] = "object"

\* When Child has returned, its process is over and its handles are closed.
ChildrenOver ==
  \A c \in Cases : told[c] # "none" => child[c] \in {"none", "over"} /\ c \notin handle

\* The smoke ends although its children may hang.
Ends == caller # "idle" ~> Ended

=============================================================================
