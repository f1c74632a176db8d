---------------------------- MODULE NamingSmoke ----------------------------
(***************************************************************************)
(* admin/smokes/ace-tao/consumer/main.cpp: the smoke test of ACE/TAO.  It  *)
(* starts a naming service as a child process, connects to it at a port    *)
(* that is computed from its own process id, binds, resolves and unbinds   *)
(* one name, and stops the child.                                          *)
(*                                                                         *)
(* The smoke runs again and again on a machine, and a run may be killed,   *)
(* which does not end its child.  Process ids that are equal modulo 1000   *)
(* give the same port.  A naming service that finds its port taken ends.   *)
(* One that hangs still accepts calls; as no timeout is set for the ORB, a *)
(* call to it waits until the service is ended.                            *)
(***************************************************************************)
EXTENDS Naturals

CONSTANTS
  Smokes,      \* runs of the smoke; run s owns the naming service it starts
  Parallel,    \* whether two of them may run at a time
  Ports,       \* the ports that are computed from process ids
  NoOne,
  MaxAttempts, \* 50 in the code
  MaxKills     \* how many smokes are killed (bound of the model)

VARIABLES
  pc,       \* where each smoke stands
  port,     \* uPort, given by the process id
  attempt,  \* uAttempt of ConnectNaming
  naming,   \* theNaming: the owner of the service the smoke talks to
  resolved, \* theResolved: the owner of the reference, theReference is the smoke's own
  same,     \* bSameReference
  verdict,  \* of the check "runtime" and of the result
  service,  \* the child process of each smoke
  bound,    \* what the name is bound to in each service
  trouble,  \* smokes that met a failure of the machine (history)
  kills

smokeVars == <<port, attempt, naming, resolved, same>>
serviceVars == <<service, bound>>
vars == <<pc, smokeVars, verdict, serviceVars, trouble, kills>>

Running == {"connect", "reference", "rebind", "resolve", "compare", "unbind"}

\* The services that answer at the port of s, and whether one there accepts
\* calls and does not answer.
Answering(s) == {t \in Smokes : service[t] = "up" /\ port[t] = port[s]}
Hanging(s) == \E t \in Smokes : service[t] = "hanging" /\ port[t] = port[s]

-----------------------------------------------------------------------------
(* RunNamingSmoke. *)

Goto(s, p) == pc' = [pc EXCEPT ![s] = p]

\* Any return or exception after the child has been started runs the
\* destructor of theNamingProcess, and the check fails.
Leave(s) == Goto(s, "unwind")

Trouble(s) == trouble' = trouble \cup {s}

\* The locals of a smoke go with it.
Gone(s) ==
  /\ attempt' = [attempt EXCEPT ![s] = 0]
  /\ naming' = [naming EXCEPT ![s] = NoOne]
  /\ resolved' = [resolved EXCEPT ![s] = NoOne]
  /\ same' = [same EXCEPT ![s] = FALSE]

Startable(s) ==
  /\ pc[s] = "idle"
  /\ Parallel \/ \A t \in Smokes : pc[t] \in {"idle", "ended", "killed"}

\* No tao_cosnaming.exe, or it cannot be started.
NotStarted(s) ==
  /\ Startable(s)
  /\ Goto(s, "ended")
  /\ verdict' = [verdict EXCEPT ![s] = "FAIL"]
  /\ Trouble(s)
  /\ UNCHANGED <<smokeVars, serviceVars, kills>>

\* The port is that of the process id.
StartChild(s) ==
  /\ Startable(s)
  /\ \E p \in Ports : port' = [port EXCEPT ![s] = p]
  /\ service' = [service EXCEPT ![s] = "starting"]
  /\ Goto(s, "orb")
  /\ UNCHANGED <<attempt, naming, resolved, same, verdict, bound, trouble, kills>>

\* ORB_init and the root POA; the library may fail or throw.
InitOrb(s) ==
  /\ pc[s] = "orb"
  /\ \/ Goto(s, "connect") /\ trouble' = trouble
     \/ Leave(s) /\ Trouble(s)
  /\ UNCHANGED <<smokeVars, verdict, serviceVars, kills>>

Connected(s) ==
  /\ \E t \in Answering(s) : naming' = [naming EXCEPT ![s] = t]
  /\ Goto(s, "reference")

\* Plausible bug: an attempt that throws is not counted.
ConnectUncounted(s) ==
  /\ pc[s] = "connect" /\ attempt[s] < MaxAttempts /\ ~Hanging(s)
  /\ Connected(s) \/ UNCHANGED <<naming, pc>>
  /\ UNCHANGED <<port, attempt, resolved, same, verdict, serviceVars, trouble, kills>>

\* Plausible bug: one attempt too many.
ConnectOnceMore(s) ==
  /\ pc[s] = "connect" /\ attempt[s] <= MaxAttempts /\ ~Hanging(s)
  /\ \/ Connected(s) /\ attempt' = attempt
     \/ attempt' = [attempt EXCEPT ![s] = @ + 1] /\ UNCHANGED <<naming, pc>>
  /\ UNCHANGED <<port, resolved, same, verdict, serviceVars, trouble, kills>>

\* An attempt of ConnectNaming.  One that throws or gives nil, because nothing
\* answers at the port or a call fails, is followed by 100 ms.
Connect(s) ==
  /\ pc[s] = "connect" /\ attempt[s] < MaxAttempts /\ ~Hanging(s)
  /\ \/ Connected(s) /\ attempt' = attempt
     \/ attempt' = [attempt EXCEPT ![s] = @ + 1] /\ UNCHANGED <<naming, pc>>
  /\ UNCHANGED <<port, resolved, same, verdict, serviceVars, trouble, kills>>

\* No attempt succeeded: its own service is too slow or fails, or has ended as
\* its port is taken.
ConnectFailed(s) ==
  /\ pc[s] = "connect"
  /\ attempt[s] = MaxAttempts
  /\ Leave(s)
  /\ IF service[s] = "gone" THEN trouble' = trouble ELSE Trouble(s)
  /\ UNCHANGED <<smokeVars, verdict, serviceVars, kills>>

CreateReference(s) ==
  /\ pc[s] = "reference"
  /\ Goto(s, "rebind")
  /\ UNCHANGED <<smokeVars, verdict, serviceVars, trouble, kills>>

Calling == {"rebind", "resolve", "unbind"}

\* A call is answered, or throws if the service is gone.
Call(s) == service[naming[s]] = "up"

CallFails(s) ==
  /\ pc[s] \in Calling
  /\ service[naming[s]] \in {"dying", "gone"}
  /\ Leave(s)
  /\ UNCHANGED <<smokeVars, verdict, serviceVars, trouble, kills>>

\* Any of the calls may throw or give nil for another reason, those to a
\* service before or after it has done its work.
Throws(s) ==
  /\ \/ pc[s] \in {"reference", "resolve", "compare"} /\ bound' = bound
     \/ pc[s] = "rebind" /\ bound' \in {bound, [bound EXCEPT ![naming[s]] = s]}
     \/ pc[s] = "unbind" /\ bound' \in {bound, [bound EXCEPT ![naming[s]] = NoOne]}
  /\ pc[s] \in Calling => Call(s)
  /\ Leave(s) /\ Trouble(s)
  /\ UNCHANGED <<smokeVars, verdict, service, kills>>

\* A call has been accepted and is not answered.
Blocked(s) ==
  \/ pc[s] = "connect" /\ attempt[s] < MaxAttempts /\ Hanging(s)
  \/ pc[s] \in Calling /\ service[naming[s]] = "hanging"

\* resolve and unbind of a name that is not bound throw NotFound.
NotFound(s) ==
  /\ pc[s] \in {"resolve", "unbind"}
  /\ Call(s)
  /\ bound[naming[s]] = NoOne
  /\ Leave(s)
  /\ UNCHANGED <<smokeVars, verdict, serviceVars, trouble, kills>>

Rebind(s) ==
  /\ pc[s] = "rebind"
  /\ Call(s)
  /\ bound' = [bound EXCEPT ![naming[s]] = s]
  /\ Goto(s, "resolve")
  /\ UNCHANGED <<smokeVars, verdict, service, trouble, kills>>

Resolve(s) ==
  /\ pc[s] = "resolve"
  /\ Call(s)
  /\ bound[naming[s]] # NoOne
  /\ resolved' = [resolved EXCEPT ![s] = bound[naming[s]]]
  /\ Goto(s, "compare")
  /\ UNCHANGED <<port, attempt, naming, same, verdict, serviceVars, trouble, kills>>

\* bSameReference; the name is unbound whatever it is.
Compare(s) ==
  /\ pc[s] = "compare"
  /\ same' = [same EXCEPT ![s] = resolved[s] = s]
  /\ Goto(s, "unbind")
  /\ UNCHANGED <<port, attempt, naming, resolved, verdict, serviceVars, trouble, kills>>

\* Plausible bug: the call is missing, as the service is stopped anyway.
UnbindMissing(s) ==
  /\ pc[s] = "unbind"
  /\ Goto(s, "stop")
  /\ UNCHANGED <<smokeVars, verdict, serviceVars, trouble, kills>>

\* unbind and theOrb->destroy.
Unbind(s) ==
  /\ pc[s] = "unbind"
  /\ Call(s)
  /\ bound[naming[s]] # NoOne
  /\ bound' = [bound EXCEPT ![naming[s]] = NoOne]
  /\ Goto(s, "stop")
  /\ UNCHANGED <<smokeVars, verdict, service, trouble, kills>>

-----------------------------------------------------------------------------
(* ChildProcess::Stop, called at the end or by the destructor. *)

Terminate(s) ==
  /\ pc[s] \in {"stop", "unwind"}
  /\ service' = [service EXCEPT ![s] = IF @ = "gone" THEN @ ELSE "dying"]
  /\ Goto(s, IF pc[s] = "stop" THEN "wait" ELSE "unwindWait")
  /\ UNCHANGED <<smokeVars, verdict, bound, trouble, kills>>

\* The child is gone, or 5 s have passed; bSameReference && bStopped.
Wait(s) ==
  /\ pc[s] \in {"wait", "unwindWait"}
  /\ Goto(s, "ended")
  /\ verdict' = [verdict EXCEPT ![s] =
                   IF pc[s] = "wait" /\ same[s] /\ service[s] = "gone" THEN "PASS" ELSE "FAIL"]
  /\ IF service[s] = "gone" THEN trouble' = trouble ELSE Trouble(s)
  /\ Gone(s)
  /\ UNCHANGED <<port, serviceVars, kills>>

-----------------------------------------------------------------------------
(* Around the smoke. *)

\* The child listens, unless its port is taken.
Serve(t) ==
  /\ service[t] = "starting"
  /\ IF \E u \in Smokes \ {t} : service[u] \in {"up", "hanging", "dying"} /\ port[u] = port[t]
     THEN service' = [service EXCEPT ![t] = "gone"]
     ELSE service' = [service EXCEPT ![t] = "up"]
  /\ UNCHANGED <<pc, smokeVars, verdict, bound, trouble, kills>>

\* A service stops to answer, with its port still open.
Hang(t) ==
  /\ service[t] = "up"
  /\ service' = [service EXCEPT ![t] = "hanging"]
  /\ UNCHANGED <<pc, smokeVars, verdict, bound, trouble, kills>>

\* A terminated child ends, and its bindings with it.
Die(t) ==
  /\ service[t] = "dying"
  /\ service' = [service EXCEPT ![t] = "gone"]
  /\ bound' = [bound EXCEPT ![t] = NoOne]
  /\ UNCHANGED <<pc, smokeVars, verdict, trouble, kills>>

\* The smoke is killed; its child runs on.
Kill(s) ==
  /\ pc[s] \notin {"idle", "ended", "killed"}
  /\ kills < MaxKills
  /\ kills' = kills + 1
  /\ Goto(s, "killed")
  /\ Gone(s)
  /\ UNCHANGED <<port, verdict, serviceVars, trouble>>

Init ==
  /\ pc = [s \in Smokes |-> "idle"]
  /\ port = [s \in Smokes |-> NoOne]
  /\ attempt = [s \in Smokes |-> 0]
  /\ naming = [s \in Smokes |-> NoOne]
  /\ resolved = [s \in Smokes |-> NoOne]
  /\ same = [s \in Smokes |-> FALSE]
  /\ verdict = [s \in Smokes |-> "none"]
  /\ service = [s \in Smokes |-> "none"]
  /\ bound = [s \in Smokes |-> NoOne]
  /\ trouble = {}
  /\ kills = 0

Begin(s) == NotStarted(s) \/ StartChild(s)

Run(s) ==
  \/ InitOrb(s)
  \/ Connect(s) \/ ConnectFailed(s) \/ CreateReference(s)
  \/ Rebind(s) \/ Resolve(s) \/ Compare(s) \/ Unbind(s)
  \/ CallFails(s) \/ NotFound(s) \/ Throws(s)
  \/ Terminate(s) \/ Wait(s)

Next ==
  \/ \E s \in Smokes : Begin(s) \/ Run(s) \/ Kill(s)
  \/ \E t \in Smokes : Serve(t) \/ Hang(t) \/ Die(t)

\* Nothing is left to do for s: it has ended, waits for an answer, or is not
\* to be started beside one that waits.
AtRest(s) ==
  \/ pc[s] \in {"ended", "killed"} \/ Blocked(s)
  \/ pc[s] = "idle" /\ ~Startable(s)

Spec == Init /\ [][Next]_vars

\* A started process runs.  A call that is not answered is no step: it has no
\* limit, so nothing is assumed of it.
FairSpec == Spec /\ \A s \in Smokes : WF_vars(Run(s))

-----------------------------------------------------------------------------
(* Properties. *)

\* Types.
TypeOK ==
  /\ pc \in [Smokes -> Running \cup {"idle", "orb", "stop", "wait", "unwind",
                                     "unwindWait", "ended", "killed"}]
  /\ port \in [Smokes -> Ports \cup {NoOne}]
  /\ attempt \in [Smokes -> 0..MaxAttempts]
  /\ naming \in [Smokes -> Smokes \cup {NoOne}]
  /\ resolved \in [Smokes -> Smokes \cup {NoOne}]
  /\ same \in [Smokes -> BOOLEAN]
  /\ verdict \in [Smokes -> {"none", "PASS", "FAIL"}]
  /\ service \in [Smokes -> {"none", "starting", "up", "hanging", "dying", "gone"}]
  /\ bound \in [Smokes -> Smokes \cup {NoOne}]
  /\ trouble \in SUBSET Smokes
  /\ kills \in 0..MaxKills

\* A smoke that ends by itself, on whatever path, leaves no naming service
\* running: every return and every exception ends the child it has started.
NothingLeftRunning ==
  \A s \in Smokes : pc[s] = "ended" => service[s] \in {"none", "dying", "gone"}

\* No service that runs on (that of another smoke at the same port, or one
\* that a killed smoke has left) keeps the binding of a smoke that has ended
\* by itself, in whatever order the smokes bind, resolve and unbind: unless a
\* call between rebind and unbind failed, and then the smoke says FAIL.
NoBindingLeft ==
  \A s, t \in Smokes :
    pc[s] = "ended" /\ service[t] \in {"up", "hanging"} /\ bound[t] = s =>
      s \in trouble /\ verdict[s] = "FAIL"

\* A smoke whose port no other smoke has ever used fails only for a failure
\* of the machine: a child that cannot be started, listens too late or does
\* not end in time, an ORB that cannot be had, or a call that fails.
FailsForCause ==
  \A s \in Smokes :
    verdict[s] = "FAIL" =>
      \/ s \in trouble
      \/ \E t \in Smokes \ {s} : service[t] # "none" /\ port[t] = port[s]

\* Every smoke that has started ends, unless it waits for the answer of a
\* service that hangs, or does so again and again.
Ends == \A s \in Smokes : pc[s] # "idle" ~> pc[s] \in {"ended", "killed"} \/ Blocked(s)
=============================================================================
