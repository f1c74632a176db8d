-------------------------- MODULE SmokeInvariants ---------------------------
(***************************************************************************)
(* What is true in the middle of a smoke: the inductive invariants of the  *)
(* consumer smokes on the build machine, kind by kind, and the terms in    *)
(* which SmokeStageProofs proves them.                                     *)
(***************************************************************************)
EXTENDS SmokeRules, Integers

-----------------------------------------------------------------------------
(* The naming smokes. *)

Talking == {"reference", "rebind", "resolve", "compare", "unbind"}

\* Another run has used the port of s.
Shared(s) == \E t \in Smokes \ {s} : service[t] # "none" /\ port[t] = port[s]

\* A run that has started has a service of its own, which it stops before it
\* ends.
OwnInv ==
  \A s \in Smokes :
    /\ pc[s] = "idle" => service[s] = "none" /\ verdict[s] = "none"
    /\ pc[s] \notin {"idle", "ended", "killed"} => service[s] # "none"
    /\ pc[s] \in {"orb", "connect"} => service[s] # "dying"
    /\ pc[s] \in {"wait", "unwindWait", "ended"} => service[s] \in {"none", "dying", "gone"}

\* A run talks to a service that has listened at its port; its own one is not
\* ended as long as it talks.
TalkInv ==
  \A s \in Smokes :
    pc[s] \in Talking =>
      /\ naming[s] \in Smokes /\ port[naming[s]] = port[s]
      /\ service[naming[s]] \in {"up", "hanging", "dying", "gone"}
      /\ naming[s] = s => service[s] \in {"up", "hanging"}

\* A call has failed, and so does the run.
Failed(s) ==
  /\ s \in trouble /\ pc[s] \in {"unwind", "unwindWait", "ended"}
  /\ pc[s] = "ended" => verdict[s] = "FAIL"

\* Where a run is bound: in the service it talks to, or in one that is ending,
\* unless it has been killed or a call of it has failed.
BindInv ==
  \A s, t \in Smokes :
    bound[t] = s =>
      /\ service[s] # "none" /\ service[t] # "none" /\ port[t] = port[s]
      /\ \/ pc[s] \in {"resolve", "compare", "unbind"} /\ naming[s] = t
         \/ pc[s] = "killed"
         \/ service[t] \in {"dying", "gone"}
         \/ Failed(s)

\* What a run meets only if another one has its port: its own service finds it
\* taken, its binding is replaced or removed, the reference is not its own.
Disturbed(s) ==
  \/ pc[s] \in {"orb", "connect"} /\ service[s] = "gone"
  \/ pc[s] \in {"resolve", "compare", "unbind"} /\ naming[s] = s /\ bound[s] # s
  \/ pc[s] = "compare" /\ resolved[s] # s
  \/ pc[s] \in {"unbind", "stop", "wait"} /\ ~same[s]

Fails(s) == pc[s] \in {"unwind", "unwindWait"} \/ verdict[s] = "FAIL"

\* What leads to a failure has a cause.
CauseInv ==
  \A s \in Smokes :
    /\ Disturbed(s) => Shared(s)
    /\ Fails(s) => s \in trouble \/ Shared(s)

NamingInv == N!TypeOK /\ OwnInv /\ TalkInv /\ BindInv /\ CauseInv

-----------------------------------------------------------------------------
(* The naming smokes: the steps of one run, of its service, or a kill. *)

Step(s) == N!Begin(s) \/ N!Run(s) \/ N!Kill(s) \/ N!Serve(s) \/ N!Hang(s) \/ N!Die(s)

-----------------------------------------------------------------------------
(* The terminate smoke of oneTBB. *)

Waiting == {"wait", "terminate", "wait on", "exit code"}

\* Where Child stands: a case is untouched before its turn, has a child while
\* its turn lasts, and an answer afterwards.
TurnInv ==
  /\ case = "internal" =>
       /\ told["user"] = "none" /\ child["user"] = "none" /\ "user" \notin handle
       /\ iWait["user"] = "none" /\ caller # "ended"
  /\ case = "user" => told["internal"] # "none"
  /\ caller = "ended" => told[case] # "none"
  /\ caller # "ended" => told[case] = "none"
  /\ caller \in {"idle", "start"} =>
       child[case] = "none" /\ iWait[case] = "none" /\ case \notin handle
  /\ caller \in Waiting => child[case] # "none"
  /\ caller = "wait" => iWait[case] = "none"
  /\ caller \in {"terminate", "wait on"} => iWait[case] = "timeout"
  /\ caller = "exit code" => child[case] = "over" /\ iWait[case] # "none"

\* What a verdict says, and what it takes to get a bad one.
AnswerInv ==
  \A c \in T!Cases :
    /\ told[c] # "none" => child[c] \in {"none", "over"} /\ c \notin handle
    /\ told[c] = "PASS" =>
         child[c] = "over" /\ code[c] = T!Expected(c) /\ iWait[c] = "object"
    /\ ~mishap =>
         /\ child[c] \notin {"hanging", "dying"} /\ iWait[c] # "timeout"
         /\ child[c] = "over" => code[c] = T!Expected(c)
         /\ told[c] # "FAIL"

TerminateInv == T!TypeOK /\ TurnInv /\ AnswerInv

-----------------------------------------------------------------------------
(* The smoke of WIL. *)

InnerPointers == {"theCopy", "theMoved", "theQueried", "theQueriedViaIID"}
Counts == {"refs", "active", "destroyed", "addRef", "release", "query"}

\* The steps before the first Release, and those after the last AddRef.
Early == {"copy", "move", "query", "query by IID", "detach"}
Late == {"attach owned", "inner end", "reset", "outer end", "ended"}

\* The counts of a mock that exists fit together.
CountsFit ==
  /\ object.addRef >= 0 /\ object.release >= 0
  /\ object.refs = 1 + object.addRef - object.release
  /\ object.active = (IF object.release <= object.addRef THEN 1 ELSE 0)
  /\ object.destroyed = 1 - object.active

\* Only a Release too many reaches a mock after its end.
CountInv ==
  /\ step \in Early \cup Late => CountsFit
  /\ step \in Early => object.release = 0
  /\ dead => step \in Late /\ object.release >= object.addRef + 2
  /\ step \in Late \cup {"detach"} /\ bPass => object.addRef = 3
  /\ step = "ended" /\ bPass => object.destroyed = 1 /\ object.release = 4

ComInv == C!TypeOK /\ CountInv

\* One defect or none.
Lone == \A x, y \in defects : x = y

\* The pointers before each destructor of the inner block, and how many of
\* them have been called.
Before(k) ==
  CASE k = 0 -> {"theObject", "theMoved", "theQueried", "theQueriedViaIID"}
    [] k = 1 -> {"theObject", "theMoved", "theQueried"}
    [] k = 2 -> {"theObject", "theMoved"}
    [] k = 3 -> {"theObject"}
Destructed(k) ==
  /\ held = Before(k)
  /\ defects \cap {"detach releases", "destructor skips"} = {} => object.release = k
  /\ "destructor skips" \in defects => object.release = 0
  /\ "detach releases" \in defects => object.release = k + 1

\* What main sees of a library with one defect or none as long as its checks
\* succeed: the pointers and the counts before each statement.
Seen ==
  /\ step = "copy" =>
       /\ held = {"theObject"} /\ object.query = 0
       /\ "attach adds" \in defects => object.addRef = 1
       /\ "attach adds" \notin defects => object.addRef = 0
  /\ step = "move" =>
       held = {"theObject", "theCopy"} /\ object.addRef = 1 /\ object.query = 0
  /\ step = "query" =>
       /\ held = {"theObject", "theMoved"} /\ object.query = 0
       /\ "move adds" \in defects => object.addRef = 2
       /\ "move adds" \notin defects => object.addRef = 1
  /\ step = "query by IID" =>
       /\ held = {"theObject", "theMoved", "theQueried"}
       /\ object.addRef = 2 /\ object.query = 0
  /\ step = "detach" =>
       held = {"theObject", "theMoved", "theQueried", "theQueriedViaIID"}
  /\ step = "attach owned" =>
       /\ held = {"theObject", "theMoved", "pRaw", "theQueriedViaIID"}
       /\ "detach releases" \in defects => object.release = 1
       /\ "detach releases" \notin defects => object.release = 0
  /\ step = "inner end" => \E k \in 0..3 : Destructed(k)
  /\ step = "reset" => held = {"theObject"} /\ object.release = 3
  /\ step = "outer end" =>
       /\ "reset skips" \in defects => held = {} /\ object.release = 3
       /\ "reset skips" \notin defects => object.release = 4
       /\ "reset keeps" \in defects => held = {"theObject"}
       /\ "reset keeps" \notin defects => held = {}

\* The defects that the checks have excluded by now.
Cleared ==
  /\ step \notin {"idle", "attach", "copy"} =>
       "attach adds" \notin defects /\ "copy shares" \notin defects
  /\ step \notin {"idle", "attach", "copy", "move"} => "move keeps" \notin defects
  /\ step \in Late \cup {"query by IID", "detach"} =>
       {"move adds", "query refuses", "no fast path", "fast path shares"} \cap defects = {}
  /\ step \in Late \cup {"detach"} => "no query" \notin defects
  /\ step \in Late => "detach keeps" \notin defects
  /\ step \in {"reset", "outer end", "ended"} =>
       "detach releases" \notin defects /\ "destructor skips" \notin defects
  /\ step = "ended" => "reset skips" \notin defects /\ "reset keeps" \notin defects

NoticeInv ==
  /\ step = "idle" => defects = {} /\ bPass
  /\ Lone /\ bPass => Seen /\ Cleared
  /\ defects = {} => bPass

-----------------------------------------------------------------------------
(* The scripted smokes: what is known of the conditions. *)

\* c is right about the conditions that hold.
Sat(c, holds) == c.can /\ c.yes \subseteq holds /\ \A n \in c.not : ~(n \subseteq holds)

\* What e needs, and what it makes of the conditions.
Happens(ins, e, holds) ==
  /\ e \in Events(ins)
  /\ IF e = "skip" THEN ~(ins.when \subseteq holds /\ (ins.unless = {} \/ ~(ins.unless \subseteq holds)))
     ELSE ins.when \subseteq holds /\ (ins.unless = {} \/ ~(ins.unless \subseteq holds))
  /\ e = "good" => ins.on \subseteq holds
  /\ e = "bad" => ~(ins.on \subseteq holds)

Result(ins, e, holds) ==
  CASE e = "hit" -> holds \cup {ins.x}
    [] e = "miss" -> holds \ {ins.x}
    [] e = "bad" /\ ins.op = "check" -> holds \ {"bSuccess"}
    [] OTHER -> holds

-----------------------------------------------------------------------------
(* The scripted smokes: the blocks that are open. *)

\* The blocks on the stack, whose names are in blocks, are those of nest.
Places(stk, nest, blocks, pos) ==
  /\ pos \in [1..Len(nest) -> 1..Len(stk)]
  /\ \A k, l \in 1..Len(nest) : k < l => pos[k] < pos[l]
  /\ \A k \in 1..Len(nest) : stk[pos[k]] = nest[k] /\ nest[k] \in blocks
  /\ \A i \in 1..Len(stk) : stk[i] \in blocks => \E k \in 1..Len(nest) : pos[k] = i

Matches(stk, nest, blocks) == \E pos : Places(stk, nest, blocks, pos)

-----------------------------------------------------------------------------
(* The scripted smokes: the steps of main as events. *)

Reports == [pass : Nat, fail : Nat, good : Nat, bad : Nat, stray : Nat]

PlaceInv ==
  /\ mode \in {"idle", "run", "throw", "leave", "ended"} /\ exit \in {0, 1, 3}
  /\ report \in Reports /\ stack \in Seq(Labels)
  /\ mode # "idle" =>
       /\ smoke \in DOMAIN Scripts /\ script = Scripts[smoke] /\ part \in DOMAIN script
       /\ at \in DOMAIN S!Program

Told(e, line) ==
  \/ line = "pass" /\ S!Here.op = "check" /\ e = "good"
  \/ line = "fail" /\ S!Here.op = "check" /\ e = "bad"
  \/ line = "good" /\ S!Here.op = "result" /\ e = "good"
  \/ line = "bad" /\ S!Here.op = "result" /\ e = "bad"
  \/ line = "fail" /\ S!Here.op = "leave" /\ e = "bad" /\ S!Here.x = "check and result"
  \/ line = "bad" /\ S!Here.op = "leave" /\ e = "bad" /\ S!Here.x \in {"result", "check and result"}
  \/ line = "stray" /\ S!Here.op = "leave" /\ e = "bad" /\ S!Here.x = "stderr"

\* What a step of main does when e happens to the instruction.
Event(e) ==
  /\ mode = "run" /\ Happens(S!Here, e, facts) /\ facts' = Result(S!Here, e, facts)
  /\ smoke' = smoke /\ script' = script /\ part' = part
  /\ missed' = IF e = "miss" THEN missed \cup {S!Here.x} ELSE missed
  /\ live' = IF e = "hit" /\ S!Here.op \in Handles THEN live \cup {S!Here.x}
             ELSE IF e = "plain" /\ S!Here.op = "close" THEN live \ {S!Here.x}
             ELSE live
  /\ stack' = IF \/ e = "hit" /\ S!Here.op \in Automatic
                 \/ e = "plain" /\ S!Here.op \in {"block", "try"} THEN Append(stack, S!Here.x)
              ELSE IF e = "plain" /\ S!Here.op \in {"end", "catch"}
                   THEN SubSeq(stack, 1, Len(stack) - 1)
              ELSE stack
  /\ e = "plain" /\ S!Here.op \in {"end", "catch"} => stack[Len(stack)] \in S!Names(S!Opening)
  /\ report' \in Reports
  /\ \A line \in {"pass", "fail", "good", "bad", "stray"} :
       report'[line] = IF Told(e, line) THEN report[line] + 1 ELSE report[line]
  /\ Leads(S!Here, e) = "next" => at' = at + 1 /\ mode' = "run" /\ exit' = exit
  /\ Leads(S!Here, e) = "throw" => at' = at /\ mode' = "throw" /\ exit' = exit
  /\ Leads(S!Here, e) = "leave" => at' = at /\ mode' = "leave" /\ exit' = IF e = "good" THEN 0 ELSE 1

Happening == \E e \in {"skip", "hit", "miss", "plain", "good", "bad"} : Event(e)

-----------------------------------------------------------------------------
(* The scripted smokes: what is known at each instruction. *)

Clean == report.fail = 0 /\ report.bad = 0 /\ report.stray = 0

\* What a trace is a trace of.
Present(t) ==
  /\ t.of = "sound" => missed = {}
  /\ t.of = "clean" => Clean
  /\ t.of = "bad" => ~Clean
  /\ t.of = "unchecked" => report.pass = 0
  /\ t.of = "open" => report.good = 0
  /\ t.of = "given" => report.good > 0
  /\ t.of = "missed" => t.x \in missed
  /\ t.of = "live" => t.x \in live
  /\ t.of = "dead" => t.x \notin live

Table == Knowledge[smoke][part]
Knows(line) == \A t \in Traces(S!Program) : Present(t) => Sat(line[t], facts)

-----------------------------------------------------------------------------
(* The scripted smokes: the inductive invariant. *)

Blocks == NamesOf(S!Program, {"block", "try"})
Tries == NamesOf(S!Program, {"try"})

\* The stack holds the open blocks; on the way to a handler, those at least
\* that the handler is to find.
NestInv ==
  /\ mode = "run" => Table[at].nest \in Seq(Labels) /\ Matches(stack, Table[at].nest, Blocks)
  /\ mode = "throw" =>
       /\ Table[at].nest \in Seq(Labels)
       /\ \E m \in 0..Len(Table[at].nest) :
            /\ Matches(stack, SubSeq(Table[at].nest, 1, m), Blocks)
            /\ \A j \in (m + 1)..Len(Table[at].nest) : Table[at].nest[j] \notin Tries

KnownInv ==
  /\ mode = "run" => Knows(Table[at].run)
  /\ mode = "throw" => Knows(Table[at].throw)

\* Where the names come from: what is open has been opened by hand, or is to
\* be destroyed, and what is on the stack is a block or is to be destroyed.
NameInv ==
  /\ mode \in {"run", "throw"} =>
       /\ facts \subseteq NamesOf(S!Program, Giving) \cup {"bSuccess"} /\ exit = 1
       /\ missed \subseteq NamesOf(S!Program, Failing) \cup Tolerated
  /\ mode = "idle" => missed \subseteq Tolerated
  /\ mode \in {"run", "throw", "leave"} =>
       /\ \A y \in live : \/ y \in NamesOf(S!Program, ByHand)
                          \/ y \notin Blocks /\ \E i \in 1..Len(stack) : stack[i] = y
       /\ \A i \in 1..Len(stack) : stack[i] \in Blocks \cup NamesOf(S!Program, Automatic)

\* main returns what it deserves.
LeaveInv ==
  /\ mode = "leave" =>
       exit # 3 /\ live \cap NamesOf(S!Program, ByHand) \subseteq (IF exit = 0 THEN Leftover ELSE Remains)
  /\ mode = "ended" /\ exit # 3 => live \subseteq (IF exit = 0 THEN Leftover ELSE Remains)
  /\ mode \in {"leave", "ended"} /\ exit = 0 => missed \subseteq Tolerated

VerdictInv ==
  smoke \notin Reproducers =>
    /\ mode \in {"leave", "ended"} /\ missed = {} => exit = 0
    /\ mode \in {"run", "throw"} /\ S!Last => report.good <= 1
    /\ mode \in {"leave", "ended"} /\ S!Last => (exit = 0 <=> S!GoodReport)

ScriptInv == PlaceInv /\ NestInv /\ KnownInv /\ NameInv /\ LeaveInv /\ VerdictInv

-----------------------------------------------------------------------------
(* The scripted smokes: the steps that are no event. *)

\* A step that takes the top off the stack; an object on top ends.
Unwinding ==
  /\ stack # << >> /\ stack' = SubSeq(stack, 1, Len(stack) - 1)
  /\ live' \subseteq live
  /\ S!Top \in live' => S!Top \in Blocks
  /\ \A y \in live : y \in NamesOf(S!Program, ByHand) => y \in live'
  /\ smoke' = smoke /\ script' = script /\ part' = part /\ facts' = facts
  /\ missed' = missed /\ report' = report /\ exit' = exit
  /\ mode \in {"run", "throw", "leave"}

\* Nothing but the mode and the exit code: main is over.
Stopping ==
  /\ mode' = "ended" /\ mode # "idle"
  /\ UNCHANGED <<smoke, script, part, at, facts, missed, live, links, stack, report>>

-----------------------------------------------------------------------------
(* The scripted smokes: what is in scope is on the stack. *)

ScopeTable == Scopes[smoke][part]
Scope == ScopeTable[at]

\* What main is to find on the stack: a block, or an object that has been
\* constructed, if it is in scope.  At the end of a block and on the way to a
\* handler the objects go, but none that is older than the block.
Due(d) ==
  /\ d \in Scope
  /\ S!Program[d].op \in Opening \/ S!Program[d].x \in facts
  /\ mode = "run" /\ S!Here.op \in {"end", "catch"} =>
       \E c \in Scope : S!Program[c].op \in Opening /\ d <= c
  /\ mode = "throw" => \E c \in Scope : S!Program[c].op = "try" /\ d <= c

\* The stack holds what has been opened or declared at s, in that order.
Mirrors(stk, p, scope, s) ==
  /\ s \in [1..Len(stk) -> scope]
  /\ \A i, j \in 1..Len(stk) : i < j => s[i] < s[j]
  /\ \A i \in 1..Len(stk) : p[s[i]].x = stk[i]

Within(stk, s, d) == \E i \in 1..Len(stk) : s[i] = d

StackInv ==
  mode \in {"run", "throw", "leave"} =>
    \E s : /\ Mirrors(stack, S!Program, Scope, s)
           /\ mode # "leave" => \A d : Due(d) => Within(stack, s, d)

-----------------------------------------------------------------------------
(* The scripted smokes: nothing is used after its end. *)

\* Both are on the stack, and y goes later than x.
Below(y, x) ==
  /\ x \in NamesOf(S!Program, Automatic) /\ y \in NamesOf(S!Program, Automatic)
  /\ \E i, j \in 1..Len(stack) : j < i /\ stack[j] = y /\ stack[i] = x

\* What is used exists, unless its user may outlive it.  A user that has been
\* opened by hand is to be closed before what it uses; an automatic one goes
\* first.
DangleInv ==
  /\ misuse \subseteq Outliving
  /\ \A l \in links : l[2] \in live \/ l[1] \in Outliving
  /\ mode \in {"run", "throw", "leave"} =>
       /\ \A i \in 1..Len(stack) : stack[i] \notin Blocks => stack[i] \in live
       /\ \A l \in links :
            /\ l[1] \in live
            /\ \/ /\ l[1] \in NamesOf(S!Program, ByHand) /\ l[2] \in NamesOf(S!Program, ByHand)
                  /\ l[1] \in Users(S!Program, l[2])
               \/ Below(l[2], l[1])
               \/ l[1] \in Outliving

\* What an event touches, and who uses what from now on.
Links(e, l) ==
  /\ \/ e = "hit" /\ S!Here.op \in Handles
     \/ e = "plain" /\ S!Here.op = "attach"
  /\ \E y \in S!Here.on : l = <<S!Here.x, y>>

Touching(e) ==
  /\ e = "skip" => misuse' = misuse
  /\ \A y \in misuse' : \/ y \in misuse \/ (y \in Touched(S!Here) /\ y \notin live)
                        \/ \E l \in links : l[1] = y /\ l[2] \notin live
  /\ \A l \in links' : \/ l \in links /\ ~(e = "plain" /\ S!Here.op = "close" /\ l[1] = S!Here.x)
                       \/ Links(e, l)

Touch == \E e \in {"skip", "hit", "miss", "plain", "good", "bad"} : Event(e) /\ Touching(e)

\* Every step.
SafeInv == ScriptInv /\ StackInv /\ DangleInv

-----------------------------------------------------------------------------
(* The smokes of OpenMP and oneTBB: types. *)

Items == P!FromZero \cup P!FromOne

ThreadsInv ==
  /\ P!TypeOK
  /\ stage # "idle" => list \in DOMAIN Lists /\ index \in DOMAIN Lists[list]
  /\ "guarded" \in DOMAIN mem /\ mem.guarded \in Nat

\* What most steps leave alone.
SameCheck == UNCHANGED <<list, index, stage, team>>

-----------------------------------------------------------------------------
(* The smokes of OpenMP and oneTBB: what the threads make, and what the    *)
(* checks see of it.                                                       *)

\* What each thread does, for each element or once.
Duty == P!Now.body

\* The first instruction tells the checks apart, but for one.
Task == IF P!Now.name = "synchronization" THEN P!Now.name ELSE Duty[1]
Works(t) == place[t] \in DOMAIN Duty
Through(t) == IF t <= team /\ place[t] = P!Out THEN 1 ELSE 0

MemTypes ==
  [visits : [0..Elements -> Nat], assigned : SUBSET (0..Elements), total : Nat, guarded : Nat,
   atomic : Nat, arrived : Nat, failed : Nat, single : Nat]

\* Where the threads stand, and what they hold.
TeamInv ==
  stage = "run" =>
    /\ team \in P!Threads /\ (P!Alone => team = 1)
    /\ mem \in MemTypes
    /\ todo \subseteq P!Items
    /\ \A t \in P!Threads :
         /\ IF t > team THEN place[t] = P!Out
            ELSE place[t] \in (IF P!IsLoop THEN 0..Len(Duty) ELSE 1..(Len(Duty) + 1))
         /\ P!IsLoop /\ Works(t) => item[t] \in P!Items

\* A slip that some check has to notice, if there is one.
Faulty(s) == slips = {s} /\ s \notin P!Unseen
Watched ==
  ~noticed /\ (slips = {} \/ (bOk /\ MaxSlips \in {0, 1} /\ \E s \in slips : Faulty(s)))

Hit(kinds) == \E s \in slips : s.kind \in kinds
Struck(i, kinds) == \E s \in slips : s.kind \in kinds /\ s.elements = {i}
OneIf(A) == IF A THEN 1 ELSE 0

\* A slip belongs to the check that runs, unless it has spoiled the order.
SlipLaw ==
  /\ \A s \in slips :
       \/ s.kind = "sort"
       \/ /\ s.check = P!Now.name
          /\ \/ s.kind = "team" /\ team = 1 /\ ~P!Tbb /\ ~P!Alone
             \/ s.kind \in {"again", "lost"} /\ \E i \in P!Items : s.elements = {i}
             \/ /\ s.kind = "dropped" /\ Task \notin {"reduce", "lock", "threads", "sort"}
                /\ P!IsLoop => \E i \in P!Items : s.elements = {i}
             \/ s.kind = "scope" /\ Task = "scope"
             \/ s.kind = "single" /\ Task = "synchronization"
  /\ team = 2 \/ P!Alone \/ P!Tbb \/ Hit({"team"})

\* The lock is held in the critical section, and nobody else writes there.
LockLaw ==
  \A t \in P!Threads :
    Works(t) =>
      /\ Duty[place[t]] \in {"load", "store", "unlock"} => lock = t
      /\ Duty[place[t]] = "store" => reg[t] = mem.guarded

\* Each element is visited once, in somebody's hands, or still to be taken.
InHand(t, i) == OneIf(Works(t) /\ item[t] = i)
Pending(i) == InHand(1, i) + InHand(2, i) + OneIf(i \in todo)

VisitLaw ==
  Task \in {"visit", "visitAndReduce"} =>
    \A i \in P!Items :
      mem.visits[i] + Pending(i) + OneIf(Struck(i, {"lost", "dropped"})) = 1 + OneIf(Struck(i, {"again"}))

AssignLaw ==
  Task = "assign" =>
    /\ mem.assigned \subseteq P!Items
    /\ \A i \in P!Items :
         OneIf(i \in mem.assigned) + Pending(i) + OneIf(Struck(i, {"lost", "dropped"})) = 1

\* What is counted or summed up, is in somebody's hands, or still to be taken,
\* is all there is.
Counting == Task \in {"count", "lock"}
Weight(counting, i) == IF counting THEN 1 ELSE i

\* As many pairs as the elements of it sum up to.
Units(of) == {u \in of \X (1..Elements) : u[2] <= u[1]}
SumOf(counting, of) == Cardinality(IF counting THEN of ELSE Units(of))
Made == IF Task = "lock" THEN mem.guarded ELSE mem.total + partial[1] + partial[2]
Load(t) == IF Works(t) /\ place[t] < 4 THEN Weight(Counting, item[t]) ELSE 0
Losses == IF Task \in {"add", "count"} THEN {"lost", "dropped"} ELSE {"lost"}
Weighs(kinds, n) ==
  IF Hit(kinds) THEN \E i \in P!Items : Struck(i, kinds) /\ n = Weight(Counting, i) ELSE n = 0

Accounted == Made + Load(1) + Load(2) + SumOf(Counting, todo)

TotalLaw ==
  P!IsLoop /\ Task \notin {"visit", "assign"} =>
    \E more, less \in 0..Elements :
      /\ Weighs({"again"}, more) /\ Weighs(Losses, less)
      /\ Accounted + less = SumOf(Counting, P!Items) + more

PartialLaw ==
  Task \notin {"visitAndReduce", "reduce", "one"} => partial[1] = 0 /\ partial[2] = 0

\* What the threads count in a region, each of them once.
RegionLaw ==
  /\ Task \in {"one", "throw", "scope"} =>
       mem.total + partial[1] + partial[2] + OneIf(Hit({"dropped"})) = Through(1) + Through(2)
  /\ Task = "threads" => (Through(1) + Through(2) > 0 => mem.total = team)
  /\ Task = "identity" => mem.total + OneIf(Hit({"dropped"})) = Through(1)
  /\ Task = "scope" => (mem.failed > 0 <=> Hit({"scope"}))

\* How often the threads of the team have done op.
Past(t, op) == {k \in 1..(place[t] - 1) : Duty[k] = op}
Share(t, op) == IF t <= team THEN Cardinality(Past(t, op)) ELSE 0

\* Only the last k instructions are ahead of it.
Passed(t, k) == t <= team /\ place[t] > Len(Duty) - k

SyncLaw ==
  Task = "synchronization" =>
    /\ mem.guarded = Share(1, "store") + Share(2, "store")
    /\ \E a, r \in {0, 1} :
         /\ a + r = OneIf(Hit({"dropped"}))
         /\ mem.atomic + a = Share(1, "atomic") + Share(2, "atomic")
         /\ mem.arrived + r = OneIf(Passed(1, 3)) + OneIf(Passed(2, 3))
    /\ \A t, u \in P!Threads : Passed(t, 2) /\ u <= team => Passed(u, 3)
    /\ \A t \in P!Threads : Passed(t, 1) => mem.arrived = team \/ mem.failed > 0
    /\ mem.failed > 0 => Hit({"dropped"})
    /\ mem.single > 0 <=> Passed(1, 0) \/ Passed(2, 0)
    /\ IF Hit({"single"}) THEN mem.single = 2 /\ Passed(1, 0) /\ Passed(2, 0) ELSE mem.single <= 1

\* vecSorted, until a container is compared with it.
AtFirst == [times |-> [i \in P!FromZero |-> 1], ordered |-> TRUE]
SortLaw ==
  IF Hit({"sort"})
  THEN /\ ~sorted.ordered \/ \E i \in P!FromZero : sorted.times[i] # 1
       /\ list = "oneTbb"
       /\ \E m \in DOMAIN Lists[list] : m >= index /\ Lists[list][m].name = "concurrent-vector"
  ELSE sorted = AtFirst

RunLaw ==
  SlipLaw /\ LockLaw /\ VisitLaw /\ AssignLaw /\ TotalLaw /\ PartialLaw /\ RegionLaw /\ SyncLaw

CheckLaw ==
  /\ slips = {} => P!Verdict
  /\ \A s \in slips : s.kind # "sort" => ~P!Verdict
  /\ Hit({"sort"}) /\ P!Now.name = "concurrent-vector" => ~P!Verdict

WorkInv ==
  Watched =>
    /\ stage # "ended" => SortLaw
    /\ stage = "run" => RunLaw
    /\ stage = "check" => CheckLaw
    /\ stage = "start" => \A s \in slips : s.kind = "sort"
    /\ stage \in {"idle", "ended"} => slips = {}

BlameInv ==
  /\ noticed => slips = {}
  /\ slips = {} /\ ~noticed => bOk
  /\ MaxSlips \in {0, 1} => slips = {} \/ \E s \in slips : slips = {s}

SlipInv == TeamInv /\ WorkInv /\ BlameInv

-----------------------------------------------------------------------------
(* The smokes of OpenMP and oneTBB: slips. *)

\* What a check cannot see of a slip, in terms of the slip.
Invisible(s) ==
  \/ s.kind = "team" /\ s.check \in P!Schedules \cup {"tasks-taskgroup"}
  \/ s.elements = {0} /\ s.check \in {"simd", "parallel-pipeline"}
  \/ s.kind = "dropped" /\ s.check = "simd" /\ Elements - 1 \notin s.elements
  \/ s.kind = "again" /\ s.check \in {"parallel-scan", "concurrent-hash-map"}
  \/ s.kind \in {"lock", "barrier"}

NewSlip(ill, spoiled) == [check |-> P!Now.name, kind |-> ill, elements |-> spoiled]

-----------------------------------------------------------------------------
(* The smokes of OpenMP and oneTBB: how a thread goes on. *)

\* Thread t does the next instruction, or asks for the next element.
Goes(t) ==
  /\ place' = [place EXCEPT ![t] = IF P!IsLoop /\ place[t] = Len(Duty) THEN 0 ELSE place[t] + 1]
  /\ \A u \in P!Threads \ {t} : item'[u] = item[u]
  /\ ~P!IsLoop \/ place[t] # Len(Duty) => item' = item
  /\ SameCheck /\ todo' = todo /\ bOk' = bOk /\ noticed' = noticed
  /\ t <= team /\ place[t] \in 1..Len(Duty)

-----------------------------------------------------------------------------
(* The smokes of OpenMP and oneTBB: the end of the work. *)

AllDone == \A t \in P!Threads : P!Done(t)

\* The work is over, or one more thing has gone wrong.
ShareLost ==
  /\ AllDone /\ slips = {} /\ slips' = {NewSlip("share", {})}
  /\ \E t \in P!Threads : partial[t] > 0 /\ mem'.total + partial[t] = mem.total + partial[1] + partial[2]
TooEarly ==
  /\ todo # {} /\ slips = {} /\ slips' = {NewSlip("early", todo)} /\ ~Invisible(NewSlip("early", todo))
  /\ mem'.total = mem.total + partial[1] + partial[2]
Waited ==
  /\ AllDone /\ slips' = slips
  /\ mem'.total = mem.total + partial[1] + partial[2]
  /\ slips = {} \/ \E s \in slips : slips = {s} /\ ~Invisible(s)
=============================================================================
