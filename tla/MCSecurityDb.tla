---------------------------- MODULE MCSecurityDb ----------------------------
(***************************************************************************)
(* Two findings and two Managers; the databases are a new file, one of     *)
(* version 2, and the one in the repository.                               *)
(***************************************************************************)
EXTENDS SecurityDb

CONSTANTS f1, f2, m1, m2

TwoFindings == {f1, f2}
TwoManagers == {m1, m2}
AllOrigins == {"empty", "version2", "shipped"}
Shipped == {"shipped"}
Enforced == {TRUE}
NotEnforced == {FALSE}
=============================================================================
