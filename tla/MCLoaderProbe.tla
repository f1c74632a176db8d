--------------------------- MODULE MCLoaderProbe ---------------------------
(***************************************************************************)
(* An application DLL that imports a library and, perhaps, the compiler    *)
(* runtime; each may lie beside the executable, in the default directories *)
(* or nowhere, and may be in the process from the start.                   *)
(***************************************************************************)
EXTENDS LoaderProbe

CONSTANTS app, dep, rt, other

FourNames == {app, dep, rt, other}
TwoRuntimes == <<rt, other>>

Unset == [items |-> << >>, oversized |-> FALSE]
TooLong == [items |-> <<app>>, oversized |-> TRUE]
Listed(s) == [items |-> s, oversized |-> FALSE]

Lists == {<<app, dep>>, <<dep, app>>, <<app, rt, app>>, <<dep, BadName, rt>>}

Settings ==
  {<<Listed(s), Unset>> : s \in Lists} \cup
  {<<Unset, Listed(<<app>>)>>, <<Unset, Unset>>, <<TooLong, Listed(<<app>>)>>,
   <<Listed(<<app, Blank>>), Listed(<<app>>)>>,
   <<Listed(<<app, dep, rt, app>>), Unset>>}

Imports == {[n \in FourNames |-> IF n = app THEN {dep} ELSE {}],
            [n \in FourNames |-> IF n = app THEN {dep, rt}
                                 ELSE IF n = dep THEN {rt} ELSE {}]}

SmallMachines ==
  {[dlls |-> s[1], dll |-> s[2], located |-> TRUE, initial |-> i, local |-> l,
    found |-> f, needs |-> w, bad |-> b, dead |-> d] :
     s \in Settings, i \in {{}, {rt}}, l \in {{app}, {app, dep}, {app, dep, rt}},
     f \in {{}, {dep, other}, {rt}}, w \in Imports,
     b \in {{}, {app}, {dep}}, d \in {{}, {rt}}}
  \cup
  {[dlls |-> Listed(<<app>>), dll |-> Unset, located |-> FALSE, initial |-> {},
    local |-> {app}, found |-> {}, needs |-> w, bad |-> {}, dead |-> {}] :
     w \in Imports}
=============================================================================
