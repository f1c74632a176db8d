---------------------------- MODULE MCPeImports ----------------------------
(***************************************************************************)
(* Files of up to ten bytes in an address space of sixteen, with one or    *)
(* two sections that may overlap, reach beyond the file or beyond the      *)
(* image, and a table of descriptors of two bytes each, of which three are *)
(* read.                                                                   *)
(***************************************************************************)
EXTENDS PeImports

TwoNames == {"a.dll", "b.dll"}

Sect(v, w, p, n) == [va |-> v, vsize |-> w, raw |-> p, size |-> n]

SectionTables ==
  {<< >>,
   <<Sect(4, 4, 4, 6)>>, <<Sect(4, 4, 2, 8)>>, <<Sect(4, 6, 9, 4)>>, <<Sect(12, 3, 4, 4)>>,
   <<Sect(4, 4, 9, 3), Sect(2, 4, 4, 6)>>, <<Sect(4, 2, 3, 3), Sect(5, 4, 5, 5)>>,
   <<Sect(4, 4, 4, 0), Sect(4, 4, 3, 7)>>}

\* The names of descriptors and the texts by offset.
Descs ==
  {[p \in 0..10 |-> IF p \in S THEN n ELSE 0] :
     S \in {{4}, {4, 6}, 0..10}, n \in {1, 7}}
  \cup {[p \in 0..10 |-> IF p \in {4, 6} THEN p + 1 ELSE 0]}
Text ==
  {[p \in 0..10 |-> IF p <= 6 THEN "a.dll" ELSE t] : t \in {"b.dll", "path", "open"}}

File(v, w, h, x, t, n, d, e) ==
  [pe |-> v, amd64 |-> w, length |-> 10, headers |-> h, imageSize |-> 10, sections |-> x,
   table |-> t, tableSize |-> n, desc |-> d, text |-> e]

SmallImages ==
  {File(TRUE, TRUE, h, x, t, n, d, e) :
     h \in {0, 4}, x \in SectionTables, t \in {4, 13}, n \in {4, 8}, d \in Descs, e \in Text}
  \cup
  {File(v, w, 4, x, t, 0, d, e) :
     v, w \in BOOLEAN, x \in {<< >>, <<Sect(4, 4, 2, 8)>>},
     t \in {0, 4}, d \in Descs, e \in Text}
=============================================================================
