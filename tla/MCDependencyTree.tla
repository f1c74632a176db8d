-------------------------- MODULE MCDependencyTree --------------------------
(* Machines with seven DLLs whose import tables are small ones. *)
EXTENDS DependencyTree

CONSTANTS a, b, c, d, e, f, g

\* Tables of up to two descriptors, and of up to three for the root, one more
\* than the loop reads.  b, c and d form chains, and cycles of two and of three
\* of them, with the root and without it.  Behind them, e is the last file in
\* reach of the recursion, f is too deep, unless it is met at the root as well,
\* and g is then one file too many.
RootTables ==
    [names : {<< >>, <<b>>, <<a, b>>, <<c, b, a>>, <<b, f>>, <<b, BadName, c>>},
     broken : BOOLEAN]
TablesOf(n) ==
    [names : CASE n = b -> {<< >>, <<b, c>>, <<c, a>>, <<c, d>>}
               [] n = c -> {<< >>, <<b>>, <<d>>, <<d, b>>, <<c, BadName>>}
               [] n = d -> {<< >>, <<b>>, <<c, a>>, <<e, b>>}
               [] n = e -> {<<f>>}
               [] n = f -> {<<g>>}
               [] n = g -> {<< >>},
     broken : {FALSE}]

\* Where the files lie, the root beside the executable, the others beside it, in
\* the process, in System32 or nowhere; and which of them are images.
FilePlaces ==
    {[local |-> {a, b, d, e}, loaded |-> {}, system |-> {c, f, g}, pe |-> Paths],
     [local |-> {a, b, d, e}, loaded |-> {}, system |-> {c, f, g}, pe |-> Paths \ (Places \X {c})],
     [local |-> {a}, loaded |-> {b, c, f}, system |-> {b, d, g}, pe |-> Paths],
     [local |-> {a, b, c}, loaded |-> {}, system |-> {e}, pe |-> Paths]}

SmallSystems ==
    {[local |-> w.local, loaded |-> w.loaded, system |-> w.system,
      pe |-> w.pe, root |-> <<"app", a>>,
      table |-> [p \in Paths |-> CASE p[2] = a -> ta [] p[2] = b -> tb
                                   [] p[2] = c -> tc [] p[2] = d -> td
                                   [] OTHER -> CHOOSE t \in TablesOf(p[2]) : TRUE]] :
       w \in FilePlaces, ta \in RootTables, tb \in TablesOf(b), tc \in TablesOf(c), td \in TablesOf(d)}

=============================================================================
