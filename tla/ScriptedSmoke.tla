---------------------------- MODULE ScriptedSmoke ----------------------------
(***************************************************************************)
(* A consumer smoke (admin/smokes) as the BuildEngine runs it: one or more *)
(* programs, one after the other, of which the last one reports checks and *)
(* a result.  A program is a sequence of instructions: calls of the library*)
(* under test, handles that are opened and closed by hand, objects that    *)
(* their block destroys, conditions, early returns, exceptions, and lines  *)
(* of the report.  SmokeScripts gives the programs; this module runs them. *)
(*                                                                         *)
(* A call may fail each time it is made, at most MaxFaults of them in a    *)
(* smoke.                                                                  *)
(***************************************************************************)
EXTENDS Naturals, Sequences, FiniteSets

CONSTANTS
  Scripts,     \* the smokes: a function from their names to sequences of programs
  Reproducers, \* the programs among them that are kept as evidence, outside any gate
  Tolerated,   \* calls whose outcome a smoke may ignore
  Leftover,    \* what a smoke may leave even when it passes
  Remains,     \* what it may leave when it does not
  Outliving,   \* objects that go only after what they use
  MaxFaults    \* how many calls fail in a smoke (bound of the model)

VARIABLES
  smoke,  \* the smoke that runs
  script, \* Scripts[smoke], its programs
  part,   \* which of its programs
  at,     \* the next instruction of it
  mode,   \* "run", "throw" (on the way to a handler), "leave" (out of main), ...
  facts,  \* what has turned out well, by name
  missed, \* calls that have failed (history)
  live,   \* handles and objects that exist
  links,  \* pairs <<x, y>>: x uses y as long as it exists
  stack,  \* automatic objects and blocks, innermost last
  report, \* the lines written to stdout, and results written elsewhere
  exit,   \* the exit code: 0, 1 for any other, 3 for a program that is aborted
  misuse  \* objects that have been used after their end, or have ended after
          \* what they use (history)

scriptVars == <<smoke, script, part, at, mode, facts, missed, live, links, stack, report, exit, misuse>>

Program == script[part]
Here == Program[at]

\* Plausible bug: a handle is closed without a look at whether it was opened.
AppliesOrCloses(i) == i.op = "close" \/ (i.when \subseteq facts /\ (i.unless = {} \/ ~(i.unless \subseteq facts)))

\* if(...) around an instruction.
Applies(i) == i.when \subseteq facts /\ (i.unless = {} \/ ~(i.unless \subseteq facts))

Step(ops) == mode = "run" /\ Here.op \in ops /\ Applies(Here)
Advance == at' = at + 1 /\ mode' = mode
Throw == at' = at /\ mode' = "throw"

NoReport == [pass |-> 0, fail |-> 0, good |-> 0, bad |-> 0, stray |-> 0]
Told(line) == report' = [report EXCEPT ![line] = @ + 1]

Hit == facts' = facts \cup {Here.x} /\ missed' = missed
Miss ==
  /\ Cardinality(missed) < MaxFaults
  /\ missed' = missed \cup {Here.x}
  /\ facts' = facts \ {Here.x}

\* A use of what does not exist (yet, or any more) is a misuse.
Touch(on) == misuse' = misuse \cup (on \ live)

Fresh ==
  /\ at' = 1 /\ mode' = "run" /\ facts' = {"bSuccess"} /\ live' = {} /\ links' = {}
  /\ stack' = <<>> /\ report' = NoReport /\ exit' = 1

Begin(s) ==
  /\ mode = "idle"
  /\ smoke' = s /\ script' = Scripts[s] /\ part' = 1 /\ Fresh
  /\ UNCHANGED <<missed, misuse>>

-----------------------------------------------------------------------------
(* The calls. *)

Skip ==
  /\ mode = "run" /\ ~Applies(Here)
  /\ Advance
  /\ UNCHANGED <<smoke, script, part, facts, missed, live, links, stack, report, exit, misuse>>

\* A call that tells by its result whether it succeeded.
Call ==
  /\ Step({"call"})
  /\ Touch(Here.on)
  /\ (Hit \/ Miss)
  /\ Advance
  /\ UNCHANGED <<smoke, script, part, live, links, stack, report, exit>>

\* A call that throws when it fails.
Invoke ==
  /\ Step({"invoke"})
  /\ Touch(Here.on)
  /\ \/ Hit /\ Advance
     \/ Miss /\ Throw
  /\ UNCHANGED <<smoke, script, part, live, links, stack, report, exit>>

\* A call that cannot fail, or whose failure shows later.
Use ==
  /\ Step({"use"})
  /\ Touch(Here.on)
  /\ Advance
  /\ UNCHANGED <<smoke, script, part, facts, missed, live, links, stack, report, exit>>

\* A name for a condition that holds at this point.
Mark ==
  /\ Step({"mark"})
  /\ facts' = facts \cup {Here.x}
  /\ Advance
  /\ UNCHANGED <<smoke, script, part, missed, live, links, stack, report, exit, misuse>>

Acquired ==
  /\ Hit /\ Advance
  /\ live' = live \cup {Here.x}
  /\ links' = links \cup {<<Here.x, y>> : y \in Here.on}

\* A raw handle: null when the call fails, if it can ("start" cannot).
Open ==
  /\ Step({"open", "start"})
  /\ Touch(Here.on)
  /\ Acquired \/ (Here.op = "open" /\ Miss /\ Advance /\ UNCHANGED <<live, links>>)
  /\ UNCHANGED <<smoke, script, part, stack, report, exit>>

\* A handle with an owner, null when the call fails.
Hold ==
  /\ Step({"hold"})
  /\ Touch(Here.on)
  /\ \/ Acquired /\ stack' = Append(stack, Here.x)
     \/ Miss /\ Advance /\ UNCHANGED <<live, links, stack>>
  /\ UNCHANGED <<smoke, script, part, report, exit>>

\* An automatic object, whose constructor throws when it fails ("local": cannot).
Own ==
  /\ Step({"own", "local"})
  /\ Touch(Here.on)
  /\ \/ Acquired /\ stack' = Append(stack, Here.x)
     \/ Here.op = "own" /\ Miss /\ Throw /\ UNCHANGED <<live, links, stack>>
  /\ UNCHANGED <<smoke, script, part, report, exit>>

\* An existing object uses others from now on: a stream the facet of its locale.
Attach ==
  /\ Step({"attach"})
  /\ Touch({Here.x} \cup Here.on)
  /\ links' = links \cup {<<Here.x, y>> : y \in Here.on}
  /\ Advance
  /\ UNCHANGED <<smoke, script, part, facts, missed, live, stack, report, exit>>

\* operator<< of a DLL to a stream of the executable: undefined, 0xC0000005 on
\* BCC64X.
Insert ==
  /\ Step({"insert"})
  /\ \/ Advance /\ exit' = exit
     \/ at' = at /\ mode' = "ended" /\ exit' = 3
  /\ UNCHANGED <<smoke, script, part, facts, missed, live, links, stack, report, misuse>>

-----------------------------------------------------------------------------
(* The end of handles and objects. *)

\* x ends; what it uses has to exist for that.
Release(x) ==
  /\ misuse' = misuse \cup ({x} \ live) \cup {p[1] : p \in {q \in links : q[1] = x /\ q[2] \notin live}}
  /\ live' = live \ {x}
  /\ links' = {p \in links : p[1] # x}

Close ==
  /\ Step({"close"})
  /\ Release(Here.x)
  /\ Advance
  /\ UNCHANGED <<smoke, script, part, facts, missed, stack, report, exit>>

\* Blocks and try blocks are on the stack by their names.
Opening == {"block", "try"}
Names(ops) == {Program[i].x : i \in {j \in DOMAIN Program : Program[j].op \in ops}}
Top == stack[Len(stack)]
Pop == stack' = SubSeq(stack, 1, Len(stack) - 1)

OpenBlock ==
  /\ Step(Opening)
  /\ stack' = Append(stack, Here.x)
  /\ Advance
  /\ UNCHANGED <<smoke, script, part, facts, missed, live, links, report, exit, misuse>>

CloseBlock ==
  /\ Step({"end", "catch"})
  /\ Top \in Names(Opening)
  /\ Pop /\ Advance
  /\ UNCHANGED <<smoke, script, part, facts, missed, live, links, report, exit, misuse>>

\* Some try block catches what is thrown now.
Guarded == \E i \in DOMAIN stack : stack[i] \in Names({"try"})

\* The objects of a block go at its end, by a caught exception or by a return,
\* the last one first.
Destroy ==
  /\ \/ Step({"end", "catch"})
     \/ mode = "throw" /\ Guarded
     \/ mode = "leave"
  /\ stack # <<>> /\ Top \notin Names(Opening)
  /\ Release(Top) /\ Pop
  /\ UNCHANGED <<smoke, script, part, at, mode, facts, missed, report, exit>>

PassBlock ==
  /\ \/ mode = "throw" /\ Guarded /\ Top \in Names({"block"})
     \/ mode = "leave" /\ stack # <<>> /\ Top \in Names(Opening)
  /\ Pop
  /\ UNCHANGED <<smoke, script, part, at, mode, facts, missed, live, links, report, exit, misuse>>

-----------------------------------------------------------------------------
(* Exceptions and returns. *)

\* if(!condition) throw, or return false from the function that a try block
\* calls: either way the objects up to the try block are destroyed.
Demand ==
  /\ Step({"demand"})
  /\ IF Here.on \subseteq facts THEN Advance ELSE Throw
  /\ UNCHANGED <<smoke, script, part, facts, missed, live, links, stack, report, exit, misuse>>

Handler == CHOOSE i \in at..Len(Program) :
             /\ Program[i].op = "catch" /\ Program[i].x = Top
             /\ \A j \in at..(i - 1) : ~(Program[j].op = "catch" /\ Program[j].x = Top)

\* The handler of the innermost try block; the instructions after it follow.
Caught ==
  /\ mode = "throw" /\ stack # <<>> /\ Top \in Names({"try"})
  /\ Pop
  /\ at' = Handler + 1 /\ mode' = "run"
  /\ UNCHANGED <<smoke, script, part, facts, missed, live, links, report, exit, misuse>>

\* std::terminate: nothing is destroyed.
Uncaught ==
  /\ mode = "throw" /\ ~Guarded
  /\ mode' = "ended" /\ exit' = 3
  /\ UNCHANGED <<smoke, script, part, at, facts, missed, live, links, stack, report, misuse>>

\* if(!condition) return, with the lines that are written before it.
Leave ==
  /\ Step({"leave"})
  /\ IF Here.on \subseteq facts
     THEN Advance /\ UNCHANGED <<exit, report>>
     ELSE /\ at' = at /\ mode' = "leave" /\ exit' = 1
          /\ report' = [report EXCEPT
               !.fail  = IF Here.x = "check and result" THEN @ + 1 ELSE @,
               !.bad   = IF Here.x \in {"result", "check and result"} THEN @ + 1 ELSE @,
               !.stray = IF Here.x = "stderr" THEN @ + 1 ELSE @]
  /\ UNCHANGED <<smoke, script, part, facts, missed, live, links, stack, misuse>>

\* return condition ? 0 : 1.
Return ==
  /\ Step({"return"})
  /\ at' = at /\ mode' = "leave"
  /\ exit' = IF Here.on \subseteq facts THEN 0 ELSE 1
  /\ UNCHANGED <<smoke, script, part, facts, missed, live, links, stack, report, misuse>>

End ==
  /\ mode = "leave" /\ stack = <<>>
  /\ mode' = "ended"
  /\ UNCHANGED <<smoke, script, part, at, facts, missed, live, links, stack, report, exit, misuse>>

\* Every program but the last must exit with 0 before the next one is started.
NextProgram ==
  /\ mode = "ended" /\ exit = 0 /\ part < Len(script)
  /\ part' = part + 1 /\ Fresh
  /\ UNCHANGED <<smoke, script, missed, misuse>>

-----------------------------------------------------------------------------
(* The report. *)

\* Plausible bug: the report tells of the failed check, bSuccess does not.
CheckOnlyTold ==
  /\ Step({"check"})
  /\ Told(IF Here.on \subseteq facts THEN "pass" ELSE "fail")
  /\ Advance
  /\ UNCHANGED <<smoke, script, part, facts, missed, live, links, stack, exit, misuse>>

\* SMOKE|CHECK|x|PASS or FAIL; most smokes collect the checks in bSuccess.
Check ==
  /\ Step({"check"})
  /\ Told(IF Here.on \subseteq facts THEN "pass" ELSE "fail")
  /\ facts' = IF Here.on \subseteq facts THEN facts ELSE facts \ {"bSuccess"}
  /\ Advance
  /\ UNCHANGED <<smoke, script, part, missed, live, links, stack, exit, misuse>>

\* SMOKE|RESULT|PASS or FAIL.
Result ==
  /\ Step({"result"})
  /\ Told(IF Here.on \subseteq facts THEN "good" ELSE "bad")
  /\ Advance
  /\ UNCHANGED <<smoke, script, part, facts, missed, live, links, stack, exit, misuse>>

Last == part = Len(script)
Over == mode = "ended" /\ (exit # 0 \/ Last)

\* What the BuildEngine demands of the last program: a check, one passing
\* result, nothing failed, no line elsewhere, and exit code zero.
GoodReport ==
  /\ report.pass > 0 /\ report.fail = 0
  /\ report.good = 1 /\ report.bad = 0 /\ report.stray = 0
Accepted == Over /\ exit = 0 /\ GoodReport

Init ==
  /\ smoke = "none" /\ script = <<>> /\ part = 0 /\ at = 0 /\ mode = "idle"
  /\ facts = {} /\ missed = {} /\ live = {} /\ links = {} /\ stack = <<>>
  /\ report = NoReport /\ exit = 1 /\ misuse = {}

Run ==
  \/ Skip \/ Call \/ Invoke \/ Use \/ Mark \/ Open \/ Hold \/ Own \/ Attach \/ Insert
  \/ Close \/ OpenBlock \/ CloseBlock \/ Destroy \/ PassBlock
  \/ Demand \/ Caught \/ Uncaught \/ Leave \/ Return \/ End \/ NextProgram
  \/ Check \/ Result

Next == Run \/ \E s \in DOMAIN Scripts : Begin(s)

Spec == Init /\ [][Next]_scriptVars

-----------------------------------------------------------------------------
(* Properties. *)

\* Types.
TypeOK ==
  /\ mode \in {"idle", "run", "throw", "leave", "ended"}
  /\ mode # "idle" => /\ smoke \in DOMAIN Scripts
                      /\ part \in DOMAIN script
                      /\ at \in DOMAIN Program
  /\ exit \in {0, 1, 3}

\* A program whose exit code is zero has met no failure of its library, those
\* excepted that it ignores on purpose: whatever calls fail, on whatever path
\* through conditions, early returns and handlers, main reports it.
ZeroIsDeserved == mode = "ended" /\ exit = 0 => missed \subseteq Tolerated

\* A smoke whose library never fails is accepted.
NoFalseAlarm == Over /\ missed = {} /\ smoke \notin Reproducers => Accepted

\* The two verdicts of a program agree, its exit code with its report: one is
\* good exactly when the other is.
VerdictsAgree == Over /\ Last /\ smoke \notin Reproducers => (exit = 0 <=> GoodReport)

\* Nothing is used or closed after its end, and nothing ends while something
\* that uses it remains, on any path through early returns and exceptions.  The
\* one exception is named by Outliving: what Xerces-C throws is caught and
\* destroyed after the runtime whose object it is has ended.
NothingDangles ==
  /\ misuse \subseteq Outliving
  /\ \A p \in links : p[1] \in live \ Outliving => p[2] \in live

\* A program that returns has closed and destroyed all it had opened: a passing
\* one, but for a file it failed to remove (Leftover); a failing one, but for
\* files and the state of a library that it does not clean up on an early
\* return (Remains).
AllReleased ==
  mode = "ended" /\ exit # 3 => live \subseteq (IF exit = 0 THEN Leftover ELSE Remains)

\* Every executable writes its result to stdout.
ResultOnStdout ==
  Over /\ Last /\ exit # 3 /\ smoke \notin Reproducers => report.good + report.bad = 1

=============================================================================
