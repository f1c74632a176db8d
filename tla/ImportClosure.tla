---------------------------- MODULE ImportClosure ----------------------------
(***************************************************************************)
(* What ReportDependencyTree of admin/programs/bcc64x/RuntimeLoaderProbe.cpp *)
(* promises, without saying how the import tables are traversed: it reports  *)
(* modules that the root needs, one after the other, and ends either knowing *)
(* that none is missing or admitting that it stopped early.                  *)
(***************************************************************************)
CONSTANTS
    Paths,      \* files
    Tables      \* import relations: sets of pairs <<importing, imported>>

VARIABLES
    root,       \* the file the report is about
    needs,      \* the import relation
    found,      \* files reported so far
    answer      \* "open", "complete" or "cut"

vars == <<root, needs, found, answer>>

Closed(S) == \A p \in S, q \in Paths : <<p, q>> \in needs => q \in S

Init ==
    /\ root \in Paths
    /\ needs \in Tables
    /\ found = {}
    /\ answer = "open"

\* One more file that the root, or a reported file, needs.
Discover(q) ==
    /\ answer = "open"
    /\ q \notin found
    /\ q = root \/ \E p \in found : <<p, q>> \in needs
    /\ found' = found \cup {q}
    /\ UNCHANGED <<root, needs, answer>>

\* The report ends; "complete" only when nothing is missing.
Conclude ==
    /\ answer = "open"
    /\ \/ answer' = "cut"
       \/ answer' = "complete" /\ root \in found /\ Closed(found)
    /\ UNCHANGED <<root, needs, found>>

Next == (\E q \in Paths : Discover(q)) \/ Conclude

Spec == Init /\ [][Next]_vars
=============================================================================
