------------------------- MODULE LoaderProbeProofs -------------------------
(***************************************************************************)
(* Proofs about the loader probe: for any machine, any list of names and   *)
(* any list of runtimes, each entry is judged as in a fresh process.       *)
(***************************************************************************)
EXTENDS LoaderProbe, FiniteSetTheorems, SequenceTheorems, TLAPS

-----------------------------------------------------------------------------
(* The machine does not change, and neither does what follows from it. *)

Entries == Names \cup {BadName}

\* The entries that deserve to pass.
Good == {n \in Entries : Sound(n)}

LEMMA SameMachine ==
  ASSUME sys' = sys
  PROVE  /\ Initially' = Initially
         /\ Good' = Good
         /\ Chosen' = Chosen
         /\ Accepted(Chosen)' <=> Accepted(Chosen)
<1>1. Initially' = Initially
  BY DEF Initially
<1>2. ASSUME NEW S PROVE Closure(S)' = Closure(S)
  BY DEF Closure, Closed
<1>3. Loaded(Initially)' = Loaded(Initially)
  <2> DEFINE I == {m \in Names : Initially[m] > 0}
  <2>1. I' = I
    BY <1>1
  <2>2. Closure(I)' = Closure(I)
    BY <1>2, <2>1 DEF Closure, Closed
  <2> QED
    BY <2>2 DEF Loaded
<1>4. ASSUME NEW n PROVE Fresh(n, Initially)' = Fresh(n, Initially)
  BY <1>2, <1>3 DEF Fresh
<1>5. ASSUME NEW n PROVE Outcome(n, Initially)' = Outcome(n, Initially)
  BY <1>4 DEF Outcome, Missing
<1>6. Good' = Good
  <2>1. ASSUME NEW n PROVE Sound(n)' <=> Sound(n)
    BY <1>3, <1>5 DEF Sound
  <2> QED
    BY <2>1 DEF Good, Entries
<1>7. Chosen' = Chosen
  BY DEF Chosen
<1> QED
  BY <1>1, <1>6, <1>7 DEF Accepted

-----------------------------------------------------------------------------
(* One module more, and one less. *)

One(n) == [Initially EXCEPT ![n] = @ + 1]

LEMMA UpAndDown ==
  ASSUME NEW f \in [Names -> Nat], NEW n \in Names
  PROVE  /\ [f EXCEPT ![n] = @ + 1] \in [Names -> Nat]
         /\ [[f EXCEPT ![n] = @ + 1] EXCEPT ![n] = @ - 1] = f
<1> DEFINE g == [f EXCEPT ![n] = f[n] + 1]
           h == [g EXCEPT ![n] = g[n] - 1]
<1>1. f[n] \in Nat /\ f[n] + 1 \in Nat
  OBVIOUS
<1>2. g \in [Names -> Nat] /\ g[n] = f[n] + 1 /\ \A x \in Names \ {n} : g[x] = f[x]
  BY <1>1
<1> HIDE DEF g
<1>3. h = [x \in Names |-> IF x = n THEN g[n] - 1 ELSE g[x]]
  BY <1>2
<1> HIDE DEF h
<1>4. \A x \in Names : h[x] = f[x]
  BY <1>1, <1>2, <1>3
<1>5. h = [x \in Names |-> h[x]] /\ f = [x \in Names |-> f[x]]
  BY <1>3
<1>6. h = f
  BY <1>4, <1>5
<1> QED
  BY <1>2, <1>6 DEF g, h

LEMMA OneMore ==
  ASSUME NEW n \in Names
  PROVE  /\ Initially \in [Names -> Nat]
         /\ One(n) \in [Names -> Nat]
         /\ [One(n) EXCEPT ![n] = @ - 1] = Initially
<1>1. Initially \in [Names -> Nat]
  BY DEF Initially
<1> QED
  BY <1>1, UpAndDown DEF One

\* A part of 1 to n that has as many members is all of it.
LEMMA AllOf ==
  ASSUME NEW n \in Nat, NEW T \in SUBSET (1..n)
  PROVE  Cardinality(T) = n <=> T = 1..n
<1>1. IsFiniteSet(1..n) /\ Cardinality(1..n) = n
  BY FS_Interval
<1> QED
  BY <1>1, FS_Subset

-----------------------------------------------------------------------------
(* The invariant. *)

Running == {"begin", "loaded", "runtimes", "diagnosed"}

AllGood == \A i \in 1..Len(list) : list[i] \in Good

ListInv ==
  /\ sys \in Machines
  /\ pc \in Running \cup {"list", "end"}
  /\ list \in Seq(Entries)
  /\ pc = "list" => list = << >> /\ index = 1 /\ results = << >> /\ exit = NoExit
  /\ pc \in Running => Accepted(Chosen) /\ sys.located /\ list = Chosen.items /\ exit = NoExit
  /\ pc = "end" => IF Accepted(Chosen) /\ sys.located
                   THEN /\ list = Chosen.items /\ index = Len(list) + 1
                        /\ exit = IF AllGood THEN 0 ELSE 1
                   ELSE list = << >> /\ results = << >> /\ exit = 2

\* An entry for which a load is reported on or is to be released.
VerdictInv ==
  /\ index \in 1..(Len(list) + 1)
  /\ results \in Seq(BOOLEAN)
  /\ Len(results) = index - 1
  /\ \A i \in 1..(index - 1) : results[i] <=> list[i] \in Good
  /\ pc = "loaded" => index <= Len(list) /\ Name \in Names /\ Name \in Good
  /\ pc \in {"runtimes", "diagnosed"} => index <= Len(list) /\ Name \in Names /\ Name \notin Good

\* What the process holds beyond the modules it started with.
HeldInv ==
  /\ borrowed \in SUBSET Names /\ reported \in 0..Len(Runtimes) /\ mapped \in SUBSET Names
  /\ error \in Errors \cup {NoError}
  /\ pc = "loaded" => held = One(Name)
  /\ pc = "runtimes" => \/ borrowed = {} /\ held = Initially
                        \/ \E n \in Names : borrowed = {n} /\ held = One(n) /\ reported < Len(Runtimes)
  /\ pc \notin {"loaded", "runtimes"} => held = Initially
  /\ pc # "diagnosed" => mapped = {}
  /\ pc # "runtimes" => borrowed = {}

ProbeInv == ListInv /\ VerdictInv /\ HeldInv

LEMMA InitInv == Init => ProbeInv
<1> SUFFICES ASSUME Init PROVE ProbeInv
  OBVIOUS
<1> USE DEF Init
<1>1. ListInv
  BY DEF ListInv, Running
<1>2. VerdictInv
  <2>1. << >> \in Seq(BOOLEAN) /\ Len(<< >>) = 0 /\ 1..(1 - 1) = {}
    OBVIOUS
  <2> QED
    BY <2>1 DEF VerdictInv
<1>3. HeldInv
  <2>1. Len(Runtimes) \in Nat
    BY RuntimesAssumption
  <2>2. held = Initially
    BY DEF Initially
  <2> QED
    BY <2>1, <2>2 DEF HeldInv
<1> QED
  BY <1>1, <1>2, <1>3 DEF ProbeInv

\* An entry that gets a name: what it can be.
LEMMA AcceptedEntries ==
  ASSUME sys \in Machines, Accepted(Chosen)
  PROVE  Chosen.items \in Seq(Entries)
<1>1. Chosen.items \in Seq(Names \cup {BadName, Blank})
  BY MachinesAssumption DEF Chosen, Machine, Setting
<1>2. \A i \in 1..Len(Chosen.items) : Chosen.items[i] \in Entries
  BY <1>1 DEF Accepted, Entries
<1> QED
  BY <1>1, <1>2

\* The RESULT line of an entry: the verdict is the one it deserves.
LEMMA ResultFacts ==
  ASSUME ProbeInv, pc \in Running, index <= Len(list), UNCHANGED <<sys, list, exit>>,
         NEW pass \in BOOLEAN, Result(pass), pass <=> Name \in Good
  PROVE  ListInv' /\ VerdictInv'
<1>1. /\ results' = Append(results, pass) /\ index' = index + 1 /\ pc' = "begin"
  BY DEF Result
<1>2. /\ index \in 1..(Len(list) + 1) /\ results \in Seq(BOOLEAN) /\ Len(results) = index - 1
      /\ list \in Seq(Entries) /\ Len(list) \in Nat
  BY DEF ProbeInv, VerdictInv, ListInv
<1>3. /\ results' \in Seq(BOOLEAN) /\ Len(results') = index
      /\ results'[index] = pass
      /\ \A i \in 1..(index - 1) : results'[i] = results[i]
  BY <1>1, <1>2, AppendProperties
<1>4. ASSUME NEW i \in 1..index PROVE results'[i] <=> list[i] \in Good
  <2>1. CASE i = index
    <3>1. results'[i] = pass /\ list[i] = Name
      BY <1>3, <2>1 DEF Name
    <3> QED
      BY <3>1
  <2>2. CASE i # index
    <3>1. i \in 1..(index - 1)
      BY <1>2, <2>2
    <3>2. results'[i] = results[i]
      BY <1>3, <3>1
    <3>3. results[i] <=> list[i] \in Good
      BY <3>1 DEF ProbeInv, VerdictInv
    <3> QED
      BY <3>2, <3>3
  <2> QED
    BY <2>1, <2>2
<1>5. (\A i \in 1..(index - 1) : results[i] <=> list[i] \in Good)'
  <2>1. Good' = Good /\ list' = list
    BY SameMachine
  <2>2. index' - 1 = index
    BY <1>1, <1>2
  <2> QED
    BY <1>4, <2>1, <2>2
<1>7. index' \in 1..(Len(list') + 1) /\ Len(results') = index' - 1
  BY <1>1, <1>2, <1>3
<1>8. VerdictInv'
  BY <1>1, <1>3, <1>5, <1>7 DEF VerdictInv
<1>9. ListInv'
  BY <1>1, SameMachine DEF ProbeInv, ListInv, Running
<1> QED
  BY <1>8, <1>9

LEMMA NextInv == ProbeInv /\ [Next]_vars => ProbeInv'
<1> SUFFICES ASSUME ProbeInv, [Next]_vars PROVE ProbeInv'
  OBVIOUS
<1>0. sys' = sys /\ Good' = Good /\ Initially' = Initially /\ Chosen' = Chosen
      /\ (Accepted(Chosen)' <=> Accepted(Chosen))
  <2>1. sys' = sys
    BY DEF Next, ReadList, Reject, Load, Pass, ReportRuntime, FreeRuntime, Diagnose,
           Failed, Summary, vars
  <2> QED
    BY <2>1, SameMachine
<1>a. /\ list \in Seq(Entries) /\ Len(list) \in Nat /\ index \in Nat \ {0}
      /\ Len(Runtimes) \in Nat
  BY RuntimesAssumption DEF ProbeInv, ListInv, VerdictInv
<1>b. ASSUME NEW n \in Names
      PROVE  One(n)' = One(n)
  BY <1>0 DEF One
<1>1. CASE ReadList
  <2>1. /\ pc = "list" /\ UNCHANGED <<index, held, mapped, error, reported, borrowed, results>>
    BY <1>1 DEF ReadList
  <2>2. CASE Accepted(Chosen) /\ sys.located
    <3>1. pc' = "begin" /\ list' = Chosen.items /\ exit' = exit
      BY <1>1, <2>2 DEF ReadList
    <3>2. list' \in Seq(Entries)
      BY <2>2, <3>1, AcceptedEntries DEF ProbeInv, ListInv
    <3>3. ListInv'
      BY <1>0, <2>1, <2>2, <3>1, <3>2 DEF ProbeInv, ListInv, Running
    <3>4. index = 1 /\ results = << >> /\ Len(results) = 0 /\ index' \in 1..(Len(list') + 1)
      BY <2>1, <3>2 DEF ProbeInv, ListInv
    <3>5. VerdictInv'
      BY <2>1, <3>1, <3>4 DEF ProbeInv, VerdictInv
    <3>6. HeldInv'
      BY <1>0, <2>1, <3>1 DEF ProbeInv, HeldInv
    <3> QED
      BY <3>3, <3>5, <3>6 DEF ProbeInv
  <2>3. CASE ~(Accepted(Chosen) /\ sys.located)
    <3>1. pc' = "end" /\ list' = list /\ exit' = 2
      BY <1>1, <2>3 DEF ReadList
    <3>2. ListInv'
      BY <1>0, <2>1, <2>3, <3>1 DEF ProbeInv, ListInv, Running
    <3>3. VerdictInv'
      BY <1>0, <2>1, <3>1 DEF ProbeInv, VerdictInv
    <3>4. HeldInv'
      BY <1>0, <2>1, <3>1 DEF ProbeInv, HeldInv
    <3> QED
      BY <3>2, <3>3, <3>4 DEF ProbeInv
  <2> QED
    BY <2>2, <2>3
<1>2. CASE Reject
  <2>1. /\ pc = "begin" /\ index <= Len(list) /\ Result(FALSE)
        /\ UNCHANGED <<sys, list, held, mapped, error, reported, borrowed, exit>>
    BY <1>2 DEF Reject
  <2>2. held = Initially
    BY <2>1 DEF ProbeInv, HeldInv
  <2>3. Name \notin Good
    BY <1>2, <2>2 DEF Reject, Good, Sound
  <2>4. ListInv' /\ VerdictInv'
    BY <2>1, <2>3, ResultFacts DEF Running
  <2>5. pc' = "begin"
    BY <2>1 DEF Result
  <2>6. HeldInv'
    BY <1>0, <2>1, <2>5 DEF ProbeInv, HeldInv
  <2> QED
    BY <2>4, <2>6 DEF ProbeInv
<1>3. CASE Load
  <2>1. /\ pc = "begin" /\ index <= Len(list) /\ Name # BadName
        /\ Name \in sys.local \cup Loaded(held) /\ error' = Outcome(Name, held)
        /\ reported' = 0 /\ UNCHANGED <<list, index, mapped, borrowed, results, exit>>
    BY <1>3 DEF Load
  <2>2. held = Initially /\ borrowed = {} /\ mapped = {}
    BY <2>1 DEF ProbeInv, HeldInv
  <2>3. Name \in Entries /\ Name \in Names /\ Name' = Name
    BY <1>a, <2>1 DEF Name, Entries
  <2>4. Name \in Good <=> error' = NoError
    BY <2>1, <2>2, <2>3 DEF Good, Sound
  <2>5. error' \in Errors \cup {NoError}
    BY <2>1 DEF Outcome, Errors
  <2>6. CASE error' = NoError
    <3>1. pc' = "loaded" /\ held' = One(Name)
      BY <1>3, <2>2, <2>6 DEF Load, Acquire, One
    <3>2. ListInv'
      BY <1>0, <2>1, <3>1 DEF ProbeInv, ListInv, Running
    <3>3. VerdictInv'
      BY <1>0, <2>1, <2>3, <2>4, <2>6, <3>1 DEF ProbeInv, VerdictInv
    <3>4. One(Name)' = One(Name)
      BY <1>0, <2>3 DEF One
    <3>5. HeldInv'
      BY <1>a, <2>1, <2>2, <2>5, <3>1, <3>4 DEF ProbeInv, HeldInv
    <3> QED
      BY <3>2, <3>3, <3>5 DEF ProbeInv
  <2>7. CASE error' # NoError
    <3>1. pc' = "runtimes" /\ held' = held
      BY <1>3, <2>7 DEF Load
    <3>2. ListInv'
      BY <1>0, <2>1, <3>1 DEF ProbeInv, ListInv, Running
    <3>3. VerdictInv'
      BY <1>0, <2>1, <2>3, <2>4, <2>7, <3>1 DEF ProbeInv, VerdictInv
    <3>4. HeldInv'
      BY <1>0, <1>a, <2>1, <2>2, <2>5, <3>1 DEF ProbeInv, HeldInv
    <3> QED
      BY <3>2, <3>3, <3>4 DEF ProbeInv
  <2> QED
    BY <2>6, <2>7
<1>4. CASE Pass
  <2>1. /\ pc = "loaded" /\ Release(Name) /\ Result(TRUE)
        /\ UNCHANGED <<sys, list, mapped, error, reported, borrowed, exit>>
    BY <1>4 DEF Pass
  <2>2. index <= Len(list) /\ Name \in Names /\ Name \in Good
    BY <2>1 DEF ProbeInv, VerdictInv
  <2>3. ListInv' /\ VerdictInv'
    BY <2>1, <2>2, ResultFacts DEF Running
  <2>4. pc' = "begin"
    BY <2>1 DEF Result
  <2>5. held' = Initially
    <3>1. held = One(Name) /\ held' = [held EXCEPT ![Name] = @ - 1]
      BY <2>1 DEF ProbeInv, HeldInv, Release
    <3> QED
      BY <2>2, <3>1, OneMore, Zenon
  <2>6. HeldInv'
    BY <1>0, <2>1, <2>4, <2>5 DEF ProbeInv, HeldInv
  <2> QED
    BY <2>3, <2>6 DEF ProbeInv
<1>5. CASE ReportRuntime
  <2>1. /\ pc = "runtimes" /\ borrowed = {} /\ reported < Len(Runtimes)
        /\ UNCHANGED <<pc, list, index, mapped, error, results, exit>>
    BY <1>5 DEF ReportRuntime
  <2>2. ListInv'
    BY <1>0, <2>1 DEF ProbeInv, ListInv, Running
  <2>3. VerdictInv'
    BY <1>0, <2>1 DEF ProbeInv, VerdictInv, Name
  <2>4. held = Initially /\ reported \in 0..Len(Runtimes)
    BY <2>1 DEF ProbeInv, HeldInv
  <2>5. PICK n \in Names : n = Runtimes[reported + 1]
    BY <1>a, <2>1, <2>4, RuntimesAssumption
  <2>6. \/ held' = One(n) /\ borrowed' = {n} /\ reported' = reported
        \/ held' = held /\ borrowed' = {} /\ reported' = reported + 1
    BY <1>5, <2>4, <2>5 DEF ReportRuntime, Acquire, One
  <2>7. One(n)' = One(n)
    BY <1>b
  <2>8. HeldInv'
    BY <1>0, <1>a, <2>1, <2>4, <2>6, <2>7 DEF ProbeInv, HeldInv
  <2> QED
    BY <2>2, <2>3, <2>8 DEF ProbeInv
<1>6. CASE FreeRuntime
  <2>1. PICK n \in borrowed :
          /\ pc = "runtimes" /\ held' = [held EXCEPT ![n] = @ - 1] /\ borrowed' = {}
          /\ reported' = reported + 1
          /\ UNCHANGED <<pc, list, index, mapped, error, results, exit>>
    BY <1>6 DEF FreeRuntime, Release
  <2>2. n \in Names /\ held = One(n) /\ reported < Len(Runtimes) /\ reported \in 0..Len(Runtimes)
    BY <2>1 DEF ProbeInv, HeldInv
  <2>3. held' = Initially
    BY <2>1, <2>2, OneMore, Zenon
  <2>4. ListInv'
    BY <1>0, <2>1 DEF ProbeInv, ListInv, Running
  <2>5. VerdictInv'
    BY <1>0, <2>1 DEF ProbeInv, VerdictInv, Name
  <2>6. HeldInv'
    BY <1>0, <1>a, <2>1, <2>2, <2>3 DEF ProbeInv, HeldInv
  <2> QED
    BY <2>4, <2>5, <2>6 DEF ProbeInv
<1>7. CASE Diagnose
  <2>1. /\ pc = "runtimes" /\ borrowed = {} /\ pc' = "diagnosed" /\ mapped' \in {{}, {Name}}
        /\ UNCHANGED <<list, index, held, error, reported, borrowed, results, exit>>
    BY <1>7 DEF Diagnose
  <2>2. Name \in Names /\ held = Initially
    BY <2>1 DEF ProbeInv, VerdictInv, HeldInv
  <2>3. ListInv'
    BY <1>0, <2>1 DEF ProbeInv, ListInv, Running
  <2>4. VerdictInv'
    BY <1>0, <2>1 DEF ProbeInv, VerdictInv, Name
  <2>5. HeldInv'
    BY <1>0, <2>1, <2>2 DEF ProbeInv, HeldInv
  <2> QED
    BY <2>3, <2>4, <2>5 DEF ProbeInv
<1>8. CASE Failed
  <2>1. /\ pc \in {"runtimes", "diagnosed"} /\ mapped' = {} /\ Result(FALSE)
        /\ UNCHANGED <<sys, list, held, error, reported, borrowed, exit>>
        /\ pc = "runtimes" => borrowed = {}
    BY <1>8 DEF Failed
  <2>2. index <= Len(list) /\ Name \notin Good
    BY <2>1 DEF ProbeInv, VerdictInv
  <2>3. ListInv' /\ VerdictInv'
    BY <2>1, <2>2, ResultFacts DEF Running
  <2>4. pc' = "begin"
    BY <2>1 DEF Result
  <2>5. HeldInv'
    BY <1>0, <2>1, <2>4 DEF ProbeInv, HeldInv
  <2> QED
    BY <2>3, <2>5 DEF ProbeInv
<1>9. CASE Summary
  <2>1. /\ pc = "begin" /\ index > Len(list) /\ pc' = "end"
        /\ exit' = IF Passed = Len(list) THEN 0 ELSE 1
        /\ UNCHANGED <<list, index, held, mapped, error, reported, borrowed, results>>
    BY <1>9 DEF Summary
  <2>2. index = Len(list) + 1
    BY <1>a, <2>1 DEF ProbeInv, VerdictInv
  <2> DEFINE T == {i \in 1..Len(list) : list[i] \in Good}
  <2>6. Passed = Cardinality(T)
    <3>1. results \in Seq(BOOLEAN) /\ Len(results) = Len(list)
          /\ \A i \in 1..Len(list) : results[i] <=> list[i] \in Good
      BY <1>a, <2>2 DEF ProbeInv, VerdictInv
    <3>2. DOMAIN results = 1..Len(list)
      BY <1>a, <3>1
    <3>3. {i \in DOMAIN results : results[i]} = T
      BY <3>1, <3>2, Zenon
    <3> QED
      BY <3>3 DEF Passed
  <2>7. Passed = Len(list) <=> AllGood
    <3>1. T \in SUBSET (1..Len(list))
      OBVIOUS
    <3>2. Cardinality(T) = Len(list) <=> T = 1..Len(list)
      BY ONLY <1>a, <3>1, AllOf
    <3> QED
      BY <2>6, <3>2 DEF AllGood
  <2>8. AllGood' <=> AllGood
    BY <1>0, <2>1 DEF AllGood
  <2>3. ListInv'
    BY <1>0, <2>1, <2>2, <2>7, <2>8 DEF ProbeInv, ListInv, Running
  <2>4. VerdictInv'
    BY <1>0, <2>1 DEF ProbeInv, VerdictInv
  <2>5. HeldInv'
    BY <1>0, <2>1 DEF ProbeInv, HeldInv
  <2> QED
    BY <2>3, <2>4, <2>5 DEF ProbeInv
<1>10. CASE UNCHANGED vars
  <2>1. UNCHANGED <<pc, list, index, held, mapped, error, reported, borrowed, results, exit>>
    BY <1>10 DEF vars
  <2>2. ListInv'
    BY <1>0, <2>1 DEF ProbeInv, ListInv, Running, AllGood
  <2>3. VerdictInv'
    BY <1>0, <2>1 DEF ProbeInv, VerdictInv, Name
  <2>4. HeldInv'
    <3>1. Name' = Name
      BY <2>1 DEF Name
    <3>2. ASSUME pc = "loaded" PROVE One(Name)' = One(Name)
      BY <1>0, <3>1 DEF One
    <3> QED
      BY <1>0, <1>b, <2>1, <3>2 DEF ProbeInv, HeldInv
  <2> QED
    BY <2>2, <2>3, <2>4 DEF ProbeInv
<1> QED
  BY <1>1, <1>2, <1>3, <1>4, <1>5, <1>6, <1>7, <1>8, <1>9, <1>10 DEF Next

LEMMA ProbeInvariant == Spec => []ProbeInv
BY InitInv, NextInv, PTL DEF Spec

-----------------------------------------------------------------------------
(* What follows. *)

\* Between two entries, and at the end, the process holds exactly the modules
\* it started with, on every path and whatever the list and the machine are.
THEOREM ProbeBalanced == Spec => []Balanced
<1>1. ProbeInv => Balanced
  <2> SUFFICES ASSUME ProbeInv PROVE Balanced
    OBVIOUS
  <2>1. pc \in {"begin", "end"} => held = Initially /\ mapped = {}
    BY DEF ProbeInv, HeldInv
  <2>2. held \in [Names -> Nat]
    <3>1. \A n \in Names : One(n) \in [Names -> Nat]
      BY OneMore
    <3>2. Initially \in [Names -> Nat]
      BY DEF Initially
    <3>3. CASE pc = "loaded"
      BY <3>1, <3>3 DEF ProbeInv, HeldInv, VerdictInv
    <3>4. CASE pc = "runtimes"
      BY <3>1, <3>2, <3>4 DEF ProbeInv, HeldInv
    <3>5. CASE pc \notin {"loaded", "runtimes"}
      BY <3>2, <3>5 DEF ProbeInv, HeldInv
    <3> QED
      BY <3>3, <3>4, <3>5
  <2>3. TypeOK
    <3>1. list \in Seq(Names \cup {BadName}) /\ sys \in Machines
          /\ pc \in {"list", "begin", "loaded", "runtimes", "diagnosed", "end"}
      BY DEF ProbeInv, ListInv, Entries, Running
    <3>2. exit \in {0, 1, 2, NoExit}
      BY <3>1 DEF ProbeInv, ListInv, Running
    <3>3. index \in 1..Len(list) + 1 /\ results \in Seq(BOOLEAN)
      BY DEF ProbeInv, VerdictInv
    <3>4. /\ mapped \in SUBSET Names /\ error \in Errors \cup {NoError}
          /\ reported \in 0..Len(Runtimes) /\ borrowed \in SUBSET Names
      BY DEF ProbeInv, HeldInv
    <3> QED
      BY <2>2, <3>1, <3>2, <3>3, <3>4 DEF TypeOK
  <2> QED
    BY <2>1, <2>3 DEF Balanced
<1> QED
  BY <1>1, ProbeInvariant, PTL

\* The verdict on an entry depends neither on the entries before it nor on how
\* those ended: it is that of a load into the process as it started.
THEOREM VerdictsAreFresh == Spec => []FreshVerdicts
<1>1. ProbeInv => FreshVerdicts
  <2> SUFFICES ASSUME ProbeInv, NEW i \in DOMAIN results
               PROVE  results[i] <=> Sound(list[i])
    BY DEF FreshVerdicts
  <2>1. i \in 1..(index - 1) /\ index \in 1..(Len(list) + 1) /\ list \in Seq(Entries)
    BY DEF ProbeInv, VerdictInv, ListInv
  <2>2. list[i] \in Entries
    BY <2>1
  <2>3. results[i] <=> list[i] \in Good
    BY <2>1 DEF ProbeInv, VerdictInv
  <2> QED
    BY <2>2, <2>3 DEF Good
<1> QED
  BY <1>1, ProbeInvariant, PTL

\* The exit code is 0 exactly when there is a list and every entry of it is
\* sound, 2 exactly when the settings give no list: no failure ends the run.
THEOREM ExitCodeTells == Spec => []ExitCode
<1>1. ProbeInv => ExitCode
  <2> SUFFICES ASSUME ProbeInv, pc = "end" PROVE ExitCode
    BY DEF ExitCode
  <2>1. CASE Accepted(Chosen) /\ sys.located
    <3>1. /\ list = Chosen.items /\ index = Len(list) + 1 /\ list \in Seq(Entries)
          /\ exit = IF AllGood THEN 0 ELSE 1
      BY <2>1 DEF ProbeInv, ListInv
    <3>2. Len(results) = Len(Chosen.items) /\ DOMAIN list = 1..Len(list)
      BY <3>1 DEF ProbeInv, VerdictInv
    <3>3. AllGood <=> \A i \in DOMAIN Chosen.items : Sound(Chosen.items[i])
      BY <3>1, <3>2 DEF AllGood, Good
    <3> QED
      BY <2>1, <3>1, <3>2, <3>3 DEF ExitCode
  <2>2. CASE ~(Accepted(Chosen) /\ sys.located)
    BY <2>2 DEF ProbeInv, ListInv, ExitCode
  <2> QED
    BY <2>1, <2>2
<1> QED
  BY <1>1, ProbeInvariant, PTL
=============================================================================
