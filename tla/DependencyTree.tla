--------------------------- MODULE DependencyTree ---------------------------
(***************************************************************************)
(* ReportDependencyTree of admin/programs/bcc64x/RuntimeLoaderProbe.cpp:   *)
(* the depth-first traversal of the PE import tables below a DLL that      *)
(* Windows refused to load.  It stops at depth 32 and at 512 nodes, reads  *)
(* at most 1024 descriptors of one table, and visits every file once.      *)
(*                                                                         *)
(* A name is a lower-cased DLL name; a path says in which of the places    *)
(* the probe looks the file lies.                                          *)
(***************************************************************************)
EXTENDS Naturals, Sequences, FiniteSets

CONSTANTS
    Names,       \* DLL names without a path
    BadName,     \* an import name that is unreadable, empty or holds a path
    Systems,     \* the machines and directories the probe may run on
    MaxDepth,    \* 32 in the code
    MaxNodes,    \* 512 in the code
    MaxImports   \* 1024 in the code

Places == {"app", "loaded", "system"}
Paths == Places \X Names
NoPath == <<"none", BadName>>

\* An import table: its readable names, in order, and whether it ends in a
\* descriptor that cannot be read instead of the null descriptor.
Table == [names : Seq(Names \cup {BadName}), broken : BOOLEAN]

\* local: names present beside the executable; loaded: names of modules in
\* the probe process; system: names present in System32; pe: the files that
\* are AMD64 PE32+ images; table: the import tables of the files.
System == [local : SUBSET Names, loaded : SUBSET Names, system : SUBSET Names,
           pe : SUBSET Paths, table : [Paths -> Table], root : Paths]

ASSUME NamesAssumption == BadName \notin Names
ASSUME SystemsAssumption == Systems \subseteq System
ASSUME LimitsAssumption ==
    MaxDepth \in Nat /\ MaxNodes \in Nat \ {0} /\ MaxImports \in Nat

VARIABLES
    sys,         \* the machine the report is made on
    call,        \* the path Visit has been called with, or NoPath
    stack,       \* the paths whose tables are being read, outermost first
    row,         \* row[p]: index of the next descriptor of p
    visited,     \* setVisited
    nodes,       \* uNodes
    invalid,     \* uInvalid
    missing,     \* uMissing
    cut,         \* has a "TREE LIMIT" line been written?
    done         \* has the "TREE SUMMARY" line been written?

vars == <<sys, call, stack, row, visited, nodes, invalid, missing, cut, done>>

\* Where the probe takes a name to come from: the executable's directory, a
\* module that is already loaded, System32, or nowhere.
Resolve(n) ==
    IF n \in sys.local THEN <<"app", n>>
    ELSE IF n \in sys.loaded THEN <<"loaded", n>>
    ELSE IF n \in sys.system THEN <<"system", n>>
    ELSE NoPath

Imports(p) == sys.table[p].names
\* The descriptors the loop over the table of p reaches.
Reached(p) == IF Len(Imports(p)) < MaxImports THEN Len(Imports(p)) ELSE MaxImports

Init ==
    /\ sys \in Systems
    /\ call = sys.root
    /\ stack = << >>
    /\ row = [p \in Paths |-> 1]
    /\ visited = {}
    /\ nodes = 0
    /\ invalid = 0
    /\ missing = 0
    /\ cut = FALSE
    /\ done = FALSE

-----------------------------------------------------------------------------
(***************************************************************************)
(* The call Visit(call, Len(stack)).                                       *)
(***************************************************************************)

AtLimitLate == Len(stack) > MaxDepth \/ nodes > MaxNodes   \* mutant
AtLimit == Len(stack) > MaxDepth \/ nodes >= MaxNodes

\* Too deep or too many: a line says so, and the call returns.
LimitSilent ==   \* mutant: the subtree is dropped without a word
    /\ call # NoPath
    /\ AtLimit
    /\ call' = NoPath
    /\ UNCHANGED <<sys, stack, row, visited, nodes, invalid, missing, cut, done>>

Limit ==
    /\ call # NoPath
    /\ AtLimit
    /\ cut' = TRUE
    /\ call' = NoPath
    /\ UNCHANGED <<sys, stack, row, visited, nodes, invalid, missing, done>>

\* A path that was visited before is only named.
Revisit ==
    /\ call # NoPath
    /\ ~AtLimit
    /\ call \in visited
    /\ call' = NoPath
    /\ UNCHANGED <<sys, stack, row, visited, nodes, invalid, missing, cut, done>>

\* mutant: a file is remembered only once it has proved to be an image.
VisitInvalidAgain ==
    /\ call # NoPath
    /\ ~AtLimit
    /\ call \notin visited
    /\ call \notin sys.pe
    /\ invalid' = invalid + 1
    /\ call' = NoPath
    /\ UNCHANGED <<sys, stack, row, visited, nodes, missing, cut, done>>

\* A file that is missing or no AMD64 image counts as a node and as invalid.
VisitInvalid ==
    /\ call # NoPath
    /\ ~AtLimit
    /\ call \notin visited
    /\ call \notin sys.pe
    /\ visited' = visited \cup {call}
    /\ nodes' = nodes + 1
    /\ invalid' = invalid + 1
    /\ call' = NoPath
    /\ UNCHANGED <<sys, stack, row, missing, cut, done>>

\* An image: its import table is read.
VisitImageLate ==   \* mutant: the path is remembered when its table is done
    /\ call # NoPath
    /\ ~AtLimit
    /\ call \notin visited
    /\ call \in sys.pe
    /\ nodes' = nodes + 1
    /\ stack' = Append(stack, call)
    /\ call' = NoPath
    /\ UNCHANGED <<sys, row, visited, invalid, missing, cut, done>>

VisitImage ==
    /\ call # NoPath
    /\ ~AtLimit
    /\ call \notin visited
    /\ call \in sys.pe
    /\ visited' = visited \cup {call}
    /\ nodes' = nodes + 1
    /\ stack' = Append(stack, call)
    /\ call' = NoPath
    /\ UNCHANGED <<sys, row, invalid, missing, cut, done>>

-----------------------------------------------------------------------------
(***************************************************************************)
(* The loop over the descriptors of the innermost image.                   *)
(***************************************************************************)

Top == stack[Len(stack)]
Reading == call = NoPath /\ stack # << >>

FollowName(n) ==   \* mutant: the name is visited, not its path
    /\ n # BadName
    /\ call' = n
    /\ UNCHANGED <<invalid, missing>>

\* A bad name or a name found nowhere is counted, any other is visited.
Follow(n) ==
    \/ /\ n = BadName
       /\ invalid' = invalid + 1
       /\ UNCHANGED <<call, missing>>
    \/ /\ n # BadName
       /\ Resolve(n) = NoPath
       /\ missing' = missing + 1
       /\ UNCHANGED <<call, invalid>>
    \/ /\ n # BadName
       /\ Resolve(n) # NoPath
       /\ call' = Resolve(n)
       /\ UNCHANGED <<invalid, missing>>

\* The next descriptor of the innermost image.
Import ==
    /\ Reading
    /\ row[Top] <= Reached(Top)
    /\ row' = [row EXCEPT ![Top] = @ + 1]
    /\ Follow(Imports(Top)[row[Top]])
    /\ UNCHANGED <<sys, stack, visited, nodes, cut, done>>

\* The loop ends at the null descriptor, after MaxImports descriptors, or at
\* one that cannot be read; then the call of Visit returns.
Broken(p) == sys.table[p].broken /\ Len(Imports(p)) < MaxImports

Return ==
    /\ Reading
    /\ row[Top] > Reached(Top)
    /\ stack' = SubSeq(stack, 1, Len(stack) - 1)
    /\ invalid' = IF Broken(Top) THEN invalid + 1 ELSE invalid
    /\ UNCHANGED <<sys, call, row, visited, nodes, missing, cut, done>>

\* The outermost call has returned: the summary line.
Summary ==
    /\ call = NoPath /\ stack = << >> /\ ~done
    /\ done' = TRUE
    /\ UNCHANGED <<sys, call, stack, row, visited, nodes, invalid, missing, cut>>

Next == Limit \/ Revisit \/ VisitInvalid \/ VisitImage \/ Import \/ Return
        \/ Summary

Spec == Init /\ [][Next]_vars

-----------------------------------------------------------------------------
(***************************************************************************)
(* Properties.                                                             *)
(***************************************************************************)

\* Type invariant of the traversal.
TypeOK ==
    /\ sys \in System
    /\ call \in Paths \cup {NoPath}
    /\ stack \in Seq(Paths)
    /\ row \in [Paths -> Nat \ {0}]
    /\ visited \subseteq Paths
    /\ nodes \in Nat /\ invalid \in Nat /\ missing \in Nat
    /\ cut \in BOOLEAN /\ done \in BOOLEAN

\* The import relation of the machine: descriptor by descriptor, as far as
\* the loop over the table gets.
Edges ==
    {e \in sys.pe \X Paths :
       \E k \in 1..Reached(e[1]) :
         Imports(e[1])[k] # BadName /\ Resolve(Imports(e[1])[k]) = e[2]}

\* A report without a LIMIT line is complete: it names the root and, with a
\* file, every file the import table of that one resolves to, although the
\* recursion drops every path it has seen before, at whatever depth.
Complete ==
    done /\ ~cut =>
      /\ sys.root \in visited
      /\ \A p \in visited, q \in Paths : <<p, q>> \in Edges => q \in visited

\* The limits hold: the recursion is never deeper than MaxDepth calls below
\* the root, the node count is the number of files read and is bounded.
WithinLimits ==
    /\ Len(stack) <= MaxDepth + 1
    /\ nodes = Cardinality(visited)
    /\ nodes <= MaxNodes

\* The two counters of the summary line are exact: every bad file, bad name
\* and broken table below the root is counted once, and so is every import
\* found nowhere.
SummaryExact ==
    done =>
      LET images == visited \cap sys.pe
          entries == {e \in images \X (1..MaxImports) : e[2] <= Reached(e[1])}
          bad == {e \in entries : Imports(e[1])[e[2]] = BadName}
      IN
      /\ invalid = Cardinality(visited \ sys.pe) + Cardinality(bad)
                     + Cardinality({p \in images : Broken(p)})
      /\ missing = Cardinality({e \in entries \ bad :
                                  Resolve(Imports(e[1])[e[2]]) = NoPath})

(***************************************************************************)
(* The inductive invariant.                                                *)
(***************************************************************************)

\* Only images that have been visited are read.
StackInv == \A i \in 1..Len(stack) : stack[i] \in visited \cap sys.pe

\* Visit is called with the root, or with an import of the image being read.
CallInv ==
    call # NoPath => IF stack = << >> THEN call = sys.root /\ visited = {}
                                      ELSE <<Top, call>> \in Edges

\* No table is read before its file is visited.
FreshInv == \A p \in Paths \ visited : row[p] = 1

DoneInv == done => call = NoPath /\ stack = << >>

\* The descriptors of p that have been read led to visited files.
Handled(p) ==
    \A k \in 1..Reached(p) :
      k < row[p] /\ Imports(p)[k] # BadName /\ Resolve(Imports(p)[k]) # NoPath =>
        Resolve(Imports(p)[k]) \in visited \cup {call}

\* Every visited image has been read to its end, or is being read.
CoverInv ==
    /\ cut \/ sys.root \in visited \cup {call}
    /\ \A p \in visited \cap sys.pe :
         /\ cut \/ Handled(p)
         /\ row[p] > Reached(p) \/ \E i \in 1..Len(stack) : stack[i] = p

TreeInv == StackInv /\ CallInv /\ FreshInv /\ DoneInv /\ CoverInv

\* The traversal implements the report ImportClosure describes.
Report == INSTANCE ImportClosure WITH
    Tables <- SUBSET (Paths \X Paths),
    root <- sys.root,
    needs <- Edges,
    found <- visited,
    answer <- IF ~done THEN "open" ELSE IF cut THEN "cut" ELSE "complete"

Implements == Report!Spec
=============================================================================
