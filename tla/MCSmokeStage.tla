----------------------------- MODULE MCSmokeStage -----------------------------
(***************************************************************************)
(* All smokes of admin/smokes, with up to MaxFaults failing calls, one slip*)
(* of a parallel runtime, two defects of the COM pointers, and two runs of *)
(* the naming smoke at one port or at two.                                 *)
(***************************************************************************)
EXTENDS SmokeRules, SmokeScripts, ParallelScripts, TLC

CONSTANTS s1, s2, p1, p2

AllScripts == BoostSmokes @@ ConsumerSmokes

AllLists == ParallelSmokes(Rounds)

\* Built by no target.
NotInAGate == {"diagnostics", "uncaught"}

\* What a smoke does without on purpose: a capture backend, an OpenGL context,
\* the deletion of a queue; a file that it fails to remove; and answers of the
\* streaming validation of libxml2 that are no failures.
Optional ==
  {"MSMF", "glContext", "removed", "theFile removed",
   "first streamed", "bad pushed", "bad streamed", "last streamed"}

\* A smoke may leave these files, the first one even when it passes, and the
\* state of libxml2, which its first return does not clean up.
Unremoved == {"theFile"}
Unclean == {"theFile", "workbook", "parser state"}

\* The exception object of Xerces-C, which its handler destroys after Terminate.
CaughtLate == {"theException"}

TwoSmokes == {s1, s2}
TwoPorts == {p1, p2}
=============================================================================
