---------------------------- MODULE LoaderProbe ----------------------------
(***************************************************************************)
(* main and ProbeOne of admin/programs/bcc64x/RuntimeLoaderProbe.cpp: the  *)
(* process that loads a list of DLLs one after the other, releases each    *)
(* before it goes on, continues after failures, and reports the outcome in *)
(* its exit code.  The report on the import tree of a DLL that Windows     *)
(* takes for a bad image is module DependencyTree; it loads nothing.       *)
(*                                                                         *)
(* The Windows loader is outside the program.  A module is in the process  *)
(* while it is held by a LoadLibrary that was not freed, or imported by    *)
(* one that is.  Every path fits the 32 768 characters of the buffers.     *)
(***************************************************************************)
EXTENDS Naturals, Sequences, FiniteSets

CONSTANTS
  Names,     \* DLL names
  BadName,   \* an entry that is no plain file name
  Blank,     \* an entry of blanks only
  Runtimes,  \* the two compiler runtimes, in the order they are reported on
  Machines,  \* the directories, images and settings the probe may meet
  MaxItems   \* 64 in the code

VARIABLES
  sys,      \* the machine and the settings, which do not change
  pc,       \* where the process stands
  list,     \* libraries
  index,    \* the entry that is probed
  held,     \* how often each module has been loaded and not freed
  mapped,   \* modules mapped without their imports
  error,    \* what LoadLibraryExW said
  reported, \* how many of the compiler runtimes have been reported on
  borrowed, \* the runtime that the report has loaded itself
  results,  \* the RESULT lines: TRUE for PASS
  exit      \* the exit code, NoExit before

vars == <<sys, pc, list, index, held, mapped, error, reported, borrowed, results,
          exit>>

-----------------------------------------------------------------------------
(* The machine and its loader. *)

\* dlls, dll: the two environment variables, each a list that is empty when
\* the variable is not set, and oversized when it does not fit the buffer;
\* located: the executable knows its own directory; initial: the modules in
\* the process when main starts; local: files beside the executable; found:
\* files in the default directories; needs: imports; bad: not a valid image;
\* dead: its initialisation fails.
Setting == [items : Seq(Names \cup {BadName, Blank}), oversized : BOOLEAN]
Machine ==
  [dlls : Setting, dll : Setting, located : BOOLEAN,
   initial : SUBSET Names, local : SUBSET Names, found : SUBSET Names,
   needs : [Names -> SUBSET Names], bad : SUBSET Names, dead : SUBSET Names]

NoExit == 99
NoError == "none"
Errors == {"module_not_found", "bad_exe_format", "init_failed"}

ASSUME NamesAssumption == BadName \notin Names /\ Blank \notin Names /\ BadName # Blank
ASSUME RuntimesAssumption == Runtimes \in Seq(Names)
ASSUME MachinesAssumption == Machines \subseteq Machine
ASSUME MaxItemsAssumption == MaxItems \in Nat

\* The modules in S and everything they import.
Closed(T) == \A m \in T : sys.needs[m] \subseteq T
Closure(S) == {m \in Names : \A T \in SUBSET Names : S \subseteq T /\ Closed(T) => m \in T}

Loaded(h) == Closure({m \in Names : h[m] > 0})

\* The modules that loading n would bring into a process that holds h.
Fresh(n, h) == Closure({n}) \ Loaded(h)

Missing(n, h) == {m \in Fresh(n, h) \ {n} : m \notin sys.local \cup sys.found}

\* How LoadLibraryExW of n ends; the image of n is read before its imports.
Outcome(n, h) ==
  IF n \in Fresh(n, h) \cap sys.bad THEN "bad_exe_format"
  ELSE IF Missing(n, h) # {} THEN "module_not_found"
  ELSE IF Fresh(n, h) \cap sys.bad # {} THEN "bad_exe_format"
  ELSE IF Fresh(n, h) \cap sys.dead # {} THEN "init_failed"
  ELSE NoError

\* The same for a search by name, as the report on the runtimes makes it.
Search(n, h) ==
  IF n \notin sys.local \cup sys.found \cup Loaded(h) THEN "module_not_found"
  ELSE Outcome(n, h)

Acquire(n) == held' = [held EXCEPT ![n] = @ + 1]
Release(n) == held' = [held EXCEPT ![n] = @ - 1]

-----------------------------------------------------------------------------
(* main: the list. *)

\* The first variable that is not empty counts.
Chosen == IF sys.dlls.items # << >> \/ sys.dlls.oversized THEN sys.dlls ELSE sys.dll

\* Every entry must hold a name, and there is a limit to their number.
Accepted(s) ==
  /\ ~s.oversized
  /\ Len(s.items) \in 1..MaxItems
  /\ \A i \in DOMAIN s.items : s.items[i] # Blank

ReadList ==
  /\ pc = "list"
  /\ IF Accepted(Chosen) /\ sys.located
     THEN pc' = "begin" /\ list' = Chosen.items /\ exit' = exit
     ELSE pc' = "end" /\ list' = list /\ exit' = 2
  /\ UNCHANGED <<sys, index, held, mapped, error, reported, borrowed, results>>

-----------------------------------------------------------------------------
(* ProbeOne. *)

Name == list[index]

\* The RESULT line; main goes on with the next entry.
Result(pass) ==
  /\ results' = Append(results, pass)
  /\ index' = index + 1
  /\ pc' = "begin"

\* Plausible bug: the first failure ends the run.
RejectStops ==
  /\ pc = "begin"
  /\ index <= Len(list)
  /\ Name = BadName \/ Name \notin sys.local \cup Loaded(held)
  /\ results' = Append(results, FALSE)
  /\ pc' = "end"
  /\ exit' = 1
  /\ UNCHANGED <<sys, list, index, held, mapped, error, reported, borrowed>>

\* Not a file name, or neither beside the executable nor in the process.
Reject ==
  /\ pc = "begin"
  /\ index <= Len(list)
  /\ Name = BadName \/ Name \notin sys.local \cup Loaded(held)
  /\ Result(FALSE)
  /\ UNCHANGED <<sys, list, held, mapped, error, reported, borrowed, exit>>

\* LoadLibraryExW of the path that was found.
Load ==
  /\ pc = "begin"
  /\ index <= Len(list)
  /\ Name # BadName
  /\ Name \in sys.local \cup Loaded(held)
  /\ error' = Outcome(Name, held)
  /\ IF error' = NoError THEN pc' = "loaded" /\ Acquire(Name)
                         ELSE pc' = "runtimes" /\ held' = held
  /\ reported' = 0
  /\ UNCHANGED <<sys, list, index, mapped, borrowed, results, exit>>

\* Plausible bug: the DLL stays loaded.
PassHeld ==
  /\ pc = "loaded"
  /\ Result(TRUE)
  /\ UNCHANGED <<sys, list, held, mapped, error, reported, borrowed, exit>>

\* PASS, FreeLibrary.
Pass ==
  /\ pc = "loaded"
  /\ Release(Name)
  /\ Result(TRUE)
  /\ UNCHANGED <<sys, list, mapped, error, reported, borrowed, exit>>

\* After a failure: is the next compiler runtime in the process, and if not,
\* can it be loaded?
ReportRuntime ==
  /\ pc = "runtimes"
  /\ borrowed = {}
  /\ reported < Len(Runtimes)
  /\ LET n == Runtimes[reported + 1]
     IN  IF n \notin Loaded(held) /\ Search(n, held) = NoError
         THEN Acquire(n) /\ borrowed' = {n} /\ reported' = reported
         ELSE held' = held /\ borrowed' = {} /\ reported' = reported + 1
  /\ UNCHANGED <<sys, pc, list, index, mapped, error, results, exit>>

\* Plausible bug: the runtime is not freed.
FreeRuntimeNever ==
  /\ pc = "runtimes"
  /\ borrowed # {}
  /\ borrowed' = {}
  /\ reported' = reported + 1
  /\ UNCHANGED <<sys, pc, list, index, held, mapped, error, results, exit>>

\* if(hModule && !hExisting) FreeLibrary(hModule)
FreeRuntime ==
  /\ pc = "runtimes"
  /\ \E n \in borrowed : Release(n)
  /\ borrowed' = {}
  /\ reported' = reported + 1
  /\ UNCHANGED <<sys, pc, list, index, mapped, error, results, exit>>

\* DiagnoseImage, ReportDependencyTree and a mapping without imports.
Diagnose ==
  /\ pc = "runtimes"
  /\ borrowed = {}
  /\ reported = Len(Runtimes)
  /\ error = "bad_exe_format"
  /\ pc' = "diagnosed"
  /\ mapped' \in {{}, {Name}}
  /\ UNCHANGED <<sys, list, index, held, error, reported, borrowed, results, exit>>

\* FAIL; what the diagnosis mapped is freed before.
Failed ==
  /\ \/ pc = "diagnosed"
     \/ /\ pc = "runtimes"
        /\ borrowed = {}
        /\ reported = Len(Runtimes)
        /\ error # "bad_exe_format"
  /\ mapped' = {}
  /\ Result(FALSE)
  /\ UNCHANGED <<sys, list, held, error, reported, borrowed, exit>>

\* The exit code says whether every entry passed.
Passed == Cardinality({i \in DOMAIN results : results[i]})

Summary ==
  /\ pc = "begin"
  /\ index > Len(list)
  /\ pc' = "end"
  /\ exit' = IF Passed = Len(list) THEN 0 ELSE 1
  /\ UNCHANGED <<sys, list, index, held, mapped, error, reported, borrowed, results>>

-----------------------------------------------------------------------------
Init ==
  /\ sys \in Machines
  /\ pc = "list"
  /\ list = << >>
  /\ index = 1
  /\ held = [n \in Names |-> IF n \in sys.initial THEN 1 ELSE 0]
  /\ mapped = {}
  /\ error = NoError
  /\ reported = 0
  /\ borrowed = {}
  /\ results = << >>
  /\ exit = NoExit

Next ==
  \/ ReadList
  \/ Reject \/ Load \/ Pass
  \/ ReportRuntime \/ FreeRuntime \/ Diagnose \/ Failed
  \/ Summary

Spec == Init /\ [][Next]_vars

-----------------------------------------------------------------------------
(* Properties. *)

\* Types.
TypeOK ==
  /\ sys \in Machines
  /\ pc \in {"list", "begin", "loaded", "runtimes", "diagnosed", "end"}
  /\ list \in Seq(Names \cup {BadName})
  /\ index \in 1..Len(list) + 1
  /\ held \in [Names -> Nat]
  /\ mapped \in SUBSET Names
  /\ error \in Errors \cup {NoError}
  /\ reported \in 0..Len(Runtimes)
  /\ borrowed \in SUBSET Names
  /\ results \in Seq(BOOLEAN)
  /\ exit \in {0, 1, 2, NoExit}

Initially == [n \in Names |-> IF n \in sys.initial THEN 1 ELSE 0]

\* Between two entries, and at the end, the process holds exactly the modules
\* it started with: whatever an entry, the report on the runtimes or the
\* diagnosis loaded has been freed, on every path ("Each successful load is
\* released before the next test", migration.md of PDFium).
Balanced == TypeOK /\ (pc \in {"begin", "end"} => held = Initially /\ mapped = {})

\* Whether an entry passes, from the machine alone.
Sound(n) ==
  /\ n # BadName
  /\ n \in sys.local \cup Loaded(Initially)
  /\ Outcome(n, Initially) = NoError

\* Every verdict is that of a fresh load: it depends neither on the entries
\* before nor on how those ended.
FreshVerdicts ==
  \A i \in DOMAIN results : results[i] <=> Sound(list[i])

\* The exit code is 0 exactly when there is a list and every entry of it is
\* sound, 2 exactly when the settings give no list; a failure in the middle
\* does not end the run.
ExitCode ==
  pc = "end" =>
    IF Accepted(Chosen) /\ sys.located
    THEN /\ Len(results) = Len(Chosen.items)
         /\ exit = IF \A i \in DOMAIN Chosen.items : Sound(Chosen.items[i]) THEN 0 ELSE 1
    ELSE exit = 2 /\ results = << >>
=============================================================================
