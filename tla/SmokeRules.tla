------------------------------ MODULE SmokeRules ------------------------------
(***************************************************************************)
(* The rules that the programs of SmokeScripts keep and that make them     *)
(* right whatever calls fail, and how often.  A program is read once, from *)
(* its first instruction to its last, and what is known of the conditions  *)
(* is written down for each instruction: Knowledge.  The rules relate the  *)
(* instructions to that table, each of them to the next one and to its     *)
(* handler.  The assumptions at the end are evaluated for every program;   *)
(* SmokeStageProofs shows that they are enough.                            *)
(*                                                                         *)
(* What is known depends on what has happened.  A trace is something that  *)
(* has happened: a call has failed, a handle is open, a check has failed.  *)
(* For each instruction and each trace the table tells whether main may get*)
(* there with that trace, and if so which conditions then hold (yes) and   *)
(* which do not hold, or not all of them (not).                            *)
(***************************************************************************)
EXTENDS SmokeStage, Sequences, FiniteSets

Failing == {"call", "invoke", "open", "hold", "own"}
Giving == Failing \cup {"mark", "start", "local"}
ByHand == {"open", "start"}
Automatic == {"hold", "own", "local"}
Handles == {"open", "start", "hold", "own", "local"}
Opening == {"block", "try"}
Asking == {"check", "result", "demand", "leave", "return"}

NamesOf(p, ops) == {p[i].x : i \in {j \in DOMAIN p : p[j].op \in ops}}

-----------------------------------------------------------------------------
(* The blocks that are open, by their names: after the instruction ins if  *)
(* those of nest are open before it.                                       *)

Nested(ins, nest) ==
  CASE ins.op \in {"block", "try"} -> Append(nest, ins.x)
    [] ins.op \in {"end", "catch"} -> SubSeq(nest, 1, Len(nest) - 1)
    [] OTHER -> nest

\* Depth k of nest is its innermost try block.
Innermost(p, nest, k) ==
  /\ k \in DOMAIN nest /\ nest[k] \in NamesOf(p, {"try"})
  /\ \A j \in DOMAIN nest : j > k => nest[j] \notin NamesOf(p, {"try"})

\* The handler of what is thrown at i and caught by the try block x.
HandlerOf(p, i, x, h) ==
  /\ h \in i..Len(p) /\ p[h].op = "catch" /\ p[h].x = x
  /\ \A j \in i..(h - 1) : ~(p[j].op = "catch" /\ p[j].x = x)

\* Blocks are nested, every try block has its handler, and main ends with a
\* return at the latest.
WellNested(p, table) ==
  /\ table[1].nest = << >>
  /\ \A i \in DOMAIN p :
       /\ p[i].op \in {"block", "try", "end", "catch"} => p[i].when = {} /\ p[i].unless = {}
       /\ p[i].op \in {"end", "catch"} => table[i].nest # << >>
       /\ i < Len(p) => table[i + 1].nest = Nested(p[i], table[i].nest)
       /\ \A k \in DOMAIN table[i].nest :
            Innermost(p, table[i].nest, k) =>
              \E h \in i..(Len(p) - 1) :
                HandlerOf(p, i, table[i].nest[k], h) /\ table[h + 1].nest = SubSeq(table[i].nest, 1, k - 1)
  /\ NamesOf(p, {"block", "try"}) \cap NamesOf(p, Automatic) = {}
  /\ NamesOf(p, {"block"}) \cap NamesOf(p, {"try"}) = {}
  /\ LET last == p[Len(p)]
     IN  /\ last.when = {} /\ last.unless = {}
         /\ last.op = "return" \/ (last.op = "leave" /\ "never" \in last.on)
  /\ "never" \notin NamesOf(p, Giving) \cup {"bSuccess"}

-----------------------------------------------------------------------------
(* What can come of an instruction: it is skipped, its call succeeds or    *)
(* fails, its condition holds or does not, or nothing of that kind.        *)

Trace(of, x) == [of |-> of, x |-> x]
Always == Trace("always", "")

Traces(p) ==
  {Always, Trace("sound", ""),                          \* no call has failed
   Trace("clean", ""), Trace("bad", ""),                \* of the report
   Trace("unchecked", ""), Trace("open", ""), Trace("given", "")}
  \cup {Trace("missed", x) : x \in NamesOf(p, Failing) \ Tolerated}
  \cup {Trace("live", x) : x \in NamesOf(p, ByHand)}
  \cup {Trace("dead", x) : x \in NamesOf(p, ByHand)}

Events(ins) ==
  {"skip"} \cup (IF ins.op \in Giving THEN {"hit"} ELSE {})
           \cup (IF ins.op \in Failing THEN {"miss"} ELSE {})
           \cup (IF ins.op \in Asking THEN {"good", "bad"} ELSE {})
           \cup (IF ins.op \notin Giving \cup Asking THEN {"plain"} ELSE {})

\* Where it leads.
Leads(ins, e) ==
  CASE (e = "miss" /\ ins.op \in {"invoke", "own"}) \/ (e = "bad" /\ ins.op = "demand") -> "throw"
    [] e \in {"good", "bad"} /\ (ins.op = "return" \/ (ins.op = "leave" /\ e = "bad")) -> "leave"
    [] OTHER -> "next"

\* The traces that it leaves and removes.
Leaves(ins, e) ==
  (IF e = "miss" THEN {Trace("missed", ins.x)} ELSE {})
  \cup (IF e = "hit" /\ ins.op \in ByHand THEN {Trace("live", ins.x)} ELSE {})
  \cup (IF e = "plain" /\ ins.op = "close" THEN {Trace("dead", ins.x)} ELSE {})
  \cup (IF e = "bad" /\ ins.op \in {"check", "result"} THEN {Trace("bad", "")} ELSE {})
  \cup (IF e = "good" /\ ins.op = "result" THEN {Trace("given", "")} ELSE {})

Removes(ins, e) ==
  (IF e = "miss" THEN {Trace("sound", "")} ELSE {})
  \cup (IF e = "plain" /\ ins.op = "close" THEN {Trace("live", ins.x)} ELSE {})
  \cup (IF e = "hit" /\ ins.op \in ByHand THEN {Trace("dead", ins.x)} ELSE {})
  \cup (IF e = "bad" /\ ins.op \in {"check", "result"} THEN {Trace("clean", "")} ELSE {})
  \cup (IF e = "good" /\ ins.op = "check" THEN {Trace("unchecked", "")} ELSE {})
  \cup (IF e = "good" /\ ins.op = "result" THEN {Trace("open", "")} ELSE {})

-----------------------------------------------------------------------------
(* What is known of the conditions, where main can get at all: those in yes*)
(* hold, and no member of not is a set of conditions that all hold.        *)

Known(not, yes) == [can |-> TRUE, not |-> not, yes |-> yes]
Nowhere == [can |-> FALSE, not |-> {}, yes |-> {}]

Refuted(c, on) == \E n \in c.not : n \subseteq on
Granted(c, on) == on \subseteq c.yes

Denied(c, on) == Known(c.not \cup {on}, c.yes)
Asserted(c, on) == Known(c.not, c.yes \cup on)

With(c, x) == Known({n \in c.not : x \notin n}, c.yes \cup {x})
Without(c, x) == Known(c.not \cup {{x}}, c.yes \ {x})

\* The condition of the instruction itself.
Applied(ins, c) ==
  IF ins.unless = {} THEN Asserted(c, ins.when) ELSE Denied(Asserted(c, ins.when), ins.unless)

Skipped(ins, c) ==
  IF Granted(c, ins.when) THEN Asserted(c, ins.unless)
  ELSE IF ins.unless = {} \/ Refuted(c, ins.unless) THEN Denied(c, ins.when)
  ELSE c

\* Whether e may happen where c is known, and what is known afterwards.
May(ins, e, c) ==
  /\ c.can /\ e \in Events(ins)
  /\ IF e = "skip" THEN ~(Granted(c, ins.when) /\ (ins.unless = {} \/ Refuted(c, ins.unless)))
     ELSE ~Refuted(c, ins.when) /\ (ins.unless = {} \/ ~Granted(c, ins.unless))
  /\ e = "good" => ~Refuted(Applied(ins, c), ins.on)
  /\ e = "bad" => ~Granted(Applied(ins, c), ins.on)

After(ins, e, c) ==
  CASE e = "skip" -> Skipped(ins, c)
    [] e = "hit" -> With(Applied(ins, c), ins.x)
    [] e = "miss" -> Without(Applied(ins, c), ins.x)
    [] e = "good" -> Asserted(Applied(ins, c), ins.on)
    [] e = "bad" -> IF ins.op = "check" THEN Without(Denied(Applied(ins, c), ins.on), "bSuccess")
                    ELSE Denied(Applied(ins, c), ins.on)
    [] OTHER -> Applied(ins, c)

\* c holds wherever d does.
Covers(c, d) ==
  d.can => /\ c.can /\ c.yes \subseteq d.yes
           /\ \A n \in c.not : Refuted(d, n)

\* What all of cs have in common, as far as it is of use for what is asked.
Common(cs, asked) ==
  IF cs = {} THEN Nowhere
  ELSE Known({n \in asked \cup UNION {c.not : c \in cs} : \A c \in cs : Refuted(c, n)},
             {x \in UNION {c.yes : c \in cs} : \A c \in cs : x \in c.yes})

-----------------------------------------------------------------------------
(* The table: for each instruction the blocks that are open before it      *)
(* (nest), what is known before it (run), and on the way from it to a      *)
(* handler (throw).                                                        *)

Conditions(p) == UNION {{p[i].x} \cup p[i].on \cup p[i].when \cup p[i].unless : i \in DOMAIN p}

\* main begins with bSuccess alone, and without most traces.
First(p) ==
  [t \in Traces(p) |->
     IF t.of \in {"missed", "live", "bad", "given"} THEN Nowhere
     ELSE Known({{x} : x \in Conditions(p) \ {"bSuccess"}}, {"bSuccess"})]

\* What is known of trace t after an event of ins that leads there, if known
\* is known before.
From(ins, known, t, there) ==
  {After(ins, e, known[t]) :
     e \in {f \in Events(ins) : Leads(ins, f) = there /\ May(ins, f, known[t]) /\ t \notin Removes(ins, f)}}
  \cup
  {After(ins, e, known[Always]) :
     e \in {f \in Events(ins) : Leads(ins, f) = there /\ May(ins, f, known[Always]) /\ t \in Leaves(ins, f)}}

\* v itself: TLC evaluates what it compares, and once.
Evaluated(v) == CHOOSE w \in {v} : w = v

TableOf(p) ==
  LET traces == Traces(p)
      asked == {p[i].on : i \in DOMAIN p}
      Catches(h, line, i) ==
        \E k \in DOMAIN line.nest :
          Innermost(p, line.nest, k) /\ HandlerOf(p, i, line.nest[k], h)
      Line(i, nest, run) ==
        [nest |-> nest, run |-> run,
         throw |-> Evaluated([t \in traces |-> Common(From(p[i], run, t, "throw"), asked)])]
      Caught(lines, h, t) ==
        IF p[h].op # "catch" THEN {}
        ELSE {lines[i].throw[t] : i \in {j \in 1..h : Catches(h, lines[j], j)}}
      Arriving(lines, i) ==
        [t \in traces |->
           Common(From(p[i], lines[i].run, t, "next") \cup {c \in Caught(lines, i, t) : c.can}, asked)]
      NextLine(lines, i) ==
        Line(i, Nested(p[i - 1], lines[i - 1].nest), Evaluated(Arriving(lines, i - 1)))
      upTo[i \in DOMAIN p] ==
        IF i = 1 THEN {<<Line(1, << >>, Evaluated(First(p)))>>}
        ELSE {Append(lines, NextLine(lines, i)) : lines \in upTo[i - 1]}
  IN  CHOOSE table \in upTo[Len(p)] : TRUE

Knowledge ==
  [s \in DOMAIN Scripts |->
     [k \in DOMAIN Scripts[s] |-> TableOf(Scripts[s][k])]]

\* The table is right: it begins with what main begins with, and follows each
\* instruction to the next one and each exception to its handler.
Follows(p, table) ==
  /\ \A t \in Traces(p) : Covers(table[1].run[t], First(p)[t])
  /\ \A i \in DOMAIN p : \A t \in Traces(p), e \in Events(p[i]) :
       LET there == IF Leads(p[i], e) = "next" THEN table[i + 1].run[t] ELSE table[i].throw[t]
       IN  Leads(p[i], e) # "leave" =>
             /\ May(p[i], e, table[i].run[t]) /\ t \notin Removes(p[i], e) =>
                  Covers(there, After(p[i], e, table[i].run[t]))
             /\ May(p[i], e, table[i].run[Always]) /\ t \in Leaves(p[i], e) =>
                  Covers(there, After(p[i], e, table[i].run[Always]))
  /\ \A i \in DOMAIN p : \A k \in DOMAIN table[i].nest : \A h \in i..(Len(p) - 1) :
       Innermost(p, table[i].nest, k) /\ HandlerOf(p, i, table[i].nest[k], h) =>
         \A t \in Traces(p) : Covers(table[h + 1].run[t], table[i].throw[t])

-----------------------------------------------------------------------------
(* The rules. *)

\* Whether e may happen to instruction i of a main with trace t.
Occurs(p, table, i, e, of, x) == May(p[i], e, table[i].run[Trace(of, x)])

\* main returns zero only where no call can have failed, and returns at all
\* only where no handle can be open but those that may.
ReturnsDeserved(p, table) ==
  \A i \in DOMAIN p :
    /\ p[i].op = "return" =>
         /\ \A x \in NamesOf(p, Failing) \ Tolerated : ~Occurs(p, table, i, "good", "missed", x)
         /\ \A x \in NamesOf(p, ByHand) \ Leftover : ~Occurs(p, table, i, "good", "live", x)
    /\ p[i].op \in {"return", "leave"} =>
         \A x \in NamesOf(p, ByHand) \ Remains : ~Occurs(p, table, i, "bad", "live", x)

\* Without a failing call main returns zero.
SoundReturnsZero(p, table) ==
  \A i \in DOMAIN p :
    /\ p[i].op # "insert"
    /\ ~table[i].throw[Trace("sound", "")].can
    /\ p[i].op \in {"return", "leave"} => ~Occurs(p, table, i, "bad", "sound", "")

\* main returns zero only where its report is good, and anything else only
\* where it is not; what nobody catches comes before the result.
ReportsAgree(p, table) ==
  \A i \in DOMAIN p :
    /\ p[i].op = "return" =>
         /\ \A of \in {"bad", "unchecked", "open"} : ~Occurs(p, table, i, "good", of, "")
         /\ ~Occurs(p, table, i, "bad", "clean", "")
    /\ p[i].op = "leave" /\ p[i].x \notin {"result", "check and result", "stderr"} =>
         ~Occurs(p, table, i, "bad", "clean", "")
    /\ p[i].op = "result" => ~Occurs(p, table, i, "good", "given", "")
    /\ (\A k \in DOMAIN table[i].nest : table[i].nest[k] \notin NamesOf(p, {"try"})) =>
         ~table[i].throw[Trace("given", "")].can

-----------------------------------------------------------------------------
(* The scopes.  A block, and an object that its block destroys, is known by*)
(* the place of the instruction that opens or declares it.                 *)

\* What is in scope before each instruction: what has been opened or declared
\* before it, in a block that has been open since.
ScopesOf(p, table) ==
  [i \in DOMAIN p |->
     {d \in 1..(i - 1) :
        /\ p[d].op \in Opening \cup Automatic
        /\ \A j \in (d + 1)..i : Len(table[d + 1].nest) <= Len(table[j].nest)}]

Scopes ==
  [s \in DOMAIN Scripts |->
     [k \in DOMAIN Scripts[s] |-> ScopesOf(Scripts[s][k], Knowledge[s][k])]]

\* The last one of scope that was opened or declared by one of ops.
LastOf(p, scope, ops, d) ==
  /\ d \in scope /\ p[d].op \in ops
  /\ \A c \in scope : p[c].op \in ops => c <= d

ScopeAfter(p, i, scope) ==
  CASE p[i].op \in Opening \cup Automatic -> scope \cup {i}
    [] p[i].op \in {"end", "catch"} ->
         {c \in scope : \E d \in scope : p[d].op \in Opening /\ c < d}
    [] OTHER -> scope

\* A handler is in the scope of its try block.
HandlersScoped(p, i, scopes) ==
  \A d \in scopes[i], h \in i..Len(p) :
    LastOf(p, scopes[i], {"try"}, d) /\ HandlerOf(p, i, p[d].x, h) =>
      h < Len(p) /\ scopes[h + 1] = {c \in scopes[i] : c < d}

\* The scopes follow the instructions, and each exception to its handler; the
\* objects in scope have different names, and what has not been declared yet
\* has not turned out well.
WellScoped(p, table, scopes) ==
  /\ scopes[1] = {}
  /\ NamesOf(p, Giving \ Automatic) \cap NamesOf(p, Automatic) = {}
  /\ \A i \in DOMAIN p :
       /\ scopes[i] \subseteq 1..(i - 1)
       /\ \A d \in scopes[i] : p[d].op \in Opening \cup Automatic
       /\ i < Len(p) => scopes[i + 1] = ScopeAfter(p, i, scopes[i])
       /\ p[i].op \in {"end", "catch"} => \E d \in scopes[i] : LastOf(p, scopes[i], Opening, d)
       /\ \A c \in scopes[i], d \in scopes[i] \cup {i} :
            p[c].op \in Automatic /\ p[d].op \in Automatic /\ p[c].x = p[d].x => c = d
       /\ HandlersScoped(p, i, scopes)
       /\ p[i].op \in Automatic /\ May(p[i], "skip", table[i].run[Always]) =>
            Refuted(table[i].run[Always], {p[i].x})

Touched(ins) ==
  CASE ins.op \in Handles \cup {"call", "invoke", "use"} -> ins.on
    [] ins.op = "attach" -> {ins.x} \cup ins.on
    [] ins.op = "close" -> {ins.x}
    [] OTHER -> {}

\* What may use y as long as it exists.
Users(p, y) ==
  {p[i].x : i \in {j \in DOMAIN p : p[j].op \in Handles \cup {"attach"} /\ y \in p[j].on}}

\* main touches what exists: what is opened by hand, unless it has been closed
\* or was not opened, and objects in scope that have turned out well.  What is
\* opened by hand is closed after its users; an object is declared after what
\* it uses.  What is outliving may end after it.
UsedInTime(p, table, scopes) ==
  \A i \in DOMAIN p :
    /\ \A y \in Touched(p[i]) :
         \/ /\ y \in NamesOf(p, ByHand)
            /\ \A e \in Events(p[i]) \ {"skip"} : ~Occurs(p, table, i, e, "dead", y)
         \/ /\ y \in Applied(p[i], table[i].run[Always]).yes
            /\ \E d \in scopes[i] : p[d].op \in Automatic /\ p[d].x = y
    /\ p[i].op = "close" =>
         \A u \in Users(p, p[i].x) : ~Occurs(p, table, i, "plain", "live", u)
    /\ p[i].op \in Handles \cup {"attach"} /\ p[i].on # {} /\ p[i].x \notin Outliving =>
         \/ {p[i].x} \cup p[i].on \subseteq NamesOf(p, Automatic)
         \/ {p[i].x} \cup p[i].on \subseteq NamesOf(p, ByHand)
    /\ p[i].op = "attach" =>
         \A c, d \in scopes[i] :
           p[c].op \in Automatic /\ p[d].op \in Automatic /\ p[c].x \in p[i].on /\ p[d].x = p[i].x =>
             c < d

\* What is opened by hand has no owner.
NoOwner(p) ==
  /\ NamesOf(p, ByHand) \cap NamesOf(p, Automatic) = {}
  /\ NamesOf(p, {"close"}) \subseteq NamesOf(p, ByHand)

Labels == STRING
Instructions ==
  [op : STRING, x : Labels, on : SUBSET Labels, when : SUBSET Labels, unless : SUBSET Labels]

ASSUME ScriptsAssumption ==
  \A s \in DOMAIN Scripts : Scripts[s] \in Seq(Seq(Instructions) \ {<< >>}) \ {<< >>}

\* The programs of the thread-based smokes are lists of checks.
ASSUME ListsAssumption ==
  \A program \in DOMAIN Lists :
    Lists[program] \in Seq([name : Labels, loop : BOOLEAN, first : {0, 1}, body : Seq(Labels)]) \ {<< >>}

\* What the checks of OpenMP and oneTBB let their threads do.
Loops(names, first, body) == {[name |-> n, loop |-> TRUE, first |-> first, body |-> body] : n \in names}
Regions(names, body) == {[name |-> n, loop |-> FALSE, first |-> 0, body |-> body] : n \in names}

Section == <<"lock", "load", "store", "unlock">>
Scoping == <<"scope", "count">>

OpenMpChecks ==
  Loops(P!Schedules \cup {"simd"}, 0, <<"visitAndReduce">>)
  \cup Loops({"tasks-taskgroup"}, 0, <<"visit">>)
  \cup Regions({"parallel-region"}, <<"threads">>) \cup Regions({"repeated-regions"}, <<"one">>)
  \cup Regions({"data-sharing"}, Scoping) \cup Regions({"runtime-dll"}, <<"identity">>)

TbbChecks ==
  Loops({"parallel-reduce"}, 1, <<"reduce">>)
  \cup Loops({"parallel-for", "concurrent-vector", "concurrent-queue"}, 0, <<"visit">>)
  \cup Loops({"parallel-scan", "concurrent-hash-map"}, 0, <<"assign">>)
  \cup Loops({"task-arena", "task-group"}, 0, <<"count">>)
  \cup Loops({"spin-mutex"}, 0, Section)
  \cup Loops({"parallel-pipeline"}, 0, <<"add">>) \cup Loops({"flow-graph"}, 1, <<"add">>)
  \cup Regions({"parallel-sort"}, <<"sort">>) \cup Regions({"exception-propagation"}, <<"throw">>)

\* Each thread increments both counters Rounds times, the first one in a
\* critical section; then come the barrier and the single construct.
Synchronizes(c) ==
  LET n == Len(c.body)
      Times(op) == Cardinality({k \in 1..n : c.body[k] = op})
  IN  /\ c.name = "synchronization" /\ ~c.loop
      /\ n > 4 /\ SubSeq(c.body, n - 3, n) = <<"arrive", "barrier", "compare", "single">>
      /\ \A k \in 1..(n - 4) : c.body[k] \in {"lock", "load", "store", "unlock", "atomic"}
      /\ \A k \in 1..n, i \in 2..4 :
           c.body[k] = Section[i] <=> k > 1 /\ c.body[k - 1] = Section[i - 1]
      /\ Times("store") = Rounds /\ Times("atomic") = Rounds

\* What is sorted is compared with the contents of a container later.
ASSUME ChecksAssumption ==
  \A program \in DOMAIN Lists : \A k \in DOMAIN Lists[program] :
    LET c == Lists[program][k]
    IN  /\ IF program = "oneTbb" THEN c \in TbbChecks ELSE c \in OpenMpChecks \/ Synchronizes(c)
        /\ c.name = "parallel-sort" =>
             \E m \in DOMAIN Lists[program] : m > k /\ Lists[program][m].name = "concurrent-vector"

ASSUME NestingAssumption ==
  \A s \in DOMAIN Scripts : \A k \in DOMAIN Scripts[s] : WellNested(Scripts[s][k], Knowledge[s][k])

ASSUME KnowledgeAssumption ==
  \A s \in DOMAIN Scripts : \A k \in DOMAIN Scripts[s] :
    LET p == Scripts[s][k]
        table == Knowledge[s][k]
    IN  NoOwner(p) /\ Follows(p, table) /\ ReturnsDeserved(p, table)

ASSUME ScopesAssumption ==
  \A s \in DOMAIN Scripts : \A k \in DOMAIN Scripts[s] :
    LET p == Scripts[s][k]
        table == Knowledge[s][k]
        scopes == Scopes[s][k]
    IN  WellScoped(p, table, scopes) /\ UsedInTime(p, table, scopes)

ASSUME ReportsAssumption ==
  \A s \in DOMAIN Scripts \ Reproducers : \A k \in DOMAIN Scripts[s] :
    LET p == Scripts[s][k]
        table == Knowledge[s][k]
    IN  /\ SoundReturnsZero(p, table)
        /\ k = Len(Scripts[s]) => ReportsAgree(p, table)
=============================================================================
