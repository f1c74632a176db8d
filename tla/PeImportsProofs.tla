-------------------------- MODULE PeImportsProofs --------------------------
(***************************************************************************)
(* Proofs about PeImports: for files, section tables and import tables of  *)
(* any size, and for words of any width.                                   *)
(***************************************************************************)
EXTENDS PeImports, FiniteSetTheorems, WellFoundedInduction, TLAPS

-----------------------------------------------------------------------------
(* Offsets. *)

\* A set of natural numbers has a smallest one.
LEMMA MinOfNaturals ==
  ASSUME NEW S, S \subseteq Nat, S # {}
  PROVE  Min(S) \in S
<1> DEFINE R == {ss \in Nat \X Nat : ss[1] < ss[2]}
<1>2. IsWellFoundedOn(R, Nat)
  BY NatLessThanWellFounded DEF OpToRel
<1>3. PICK x \in S : \A y \in S : ~(<<y, x>> \in R)
  BY <1>2, WFMin
<1>4. ASSUME NEW y \in S
      PROVE  x =< y
  <2>1. x \in Nat /\ y \in Nat
    OBVIOUS
  <2>2. <<y, x>> \in Nat \X Nat /\ <<y, x>>[1] = y /\ <<y, x>>[2] = x
    BY <2>1
  <2>3. ~(<<y, x>>[1] < <<y, x>>[2])
    BY <1>3, <2>2
  <2> QED
    BY <2>1, <2>2, <2>3
<1> QED
  BY <1>4 DEF Min

\* rva and rawOffset return the length of the file, or an offset at which the
\* bytes asked for are in the file; the latter whenever a section holds them.
LEMMA RvaInFile ==
  ASSUME IsImage(image), NEW r, NEW n
  PROVE  /\ Rva(r, n) = image.length \/ InFile(Rva(r, n), n)
         /\ Hits(r, n) # {} => InFile(Rva(r, n), n)
<1>1. CASE Hits(r, n) = {}
  BY <1>1 DEF Rva
<1>2. CASE Hits(r, n) # {}
  <2>1. Hits(r, n) \subseteq Nat
    BY DEF Hits, IsImage
  <2>2. Min(Hits(r, n)) \in Hits(r, n)
    BY <1>2, <2>1, MinOfNaturals
  <2> QED
    BY <1>2, <2>2 DEF Rva, Hits
<1> QED
  BY <1>1, <1>2

\* The offsets that the two loops read from are natural numbers, and where
\* the bytes are in the file they are in the domain of its contents.
LEMMA OffsetsInFile ==
  ASSUME IsImage(image), NEW r \in Nat, NEW n \in Nat
  PROVE  /\ Rva(r, n) \in Nat
         /\ InFile(Rva(r, n), n) => Rva(r, n) <= image.length
<1>1. Rva(r, n) \in Nat
  <2>1. CASE Hits(r, n) = {}
    BY <2>1 DEF Rva, IsImage
  <2>2. CASE Hits(r, n) # {}
    <3> DEFINE i == Min(Hits(r, n))
               s == image.sections[i]
    <3>1. Hits(r, n) \subseteq Nat
      BY DEF Hits, IsImage
    <3>2. i \in Hits(r, n)
      BY <2>2, <3>1, MinOfNaturals
    <3>3. i \in DOMAIN image.sections /\ InRaw(s, r, n)
      BY <3>2 DEF Hits
    <3>4. s \in Section
      <4>1. image.sections \in Seq(Section)
        BY DEF IsImage
      <4> HIDE DEF i
      <4> QED
        BY <3>3, <4>1
    <3>5. s.raw \in Nat /\ s.va \in Nat
      <4> HIDE DEF s
      <4> QED
        BY <3>4, DwordsAssumption DEF Section, Dwords
    <3>6. s.va <= r
      BY <3>3 DEF InRaw
    <3>7. Rva(r, n) = s.raw + (r - s.va)
      BY <2>2 DEF Rva, At
    <3> HIDE DEF s
    <3> QED
      BY <3>5, <3>6, <3>7
  <2> QED
    BY <2>1, <2>2
<1> QED
  BY <1>1 DEF InFile

-----------------------------------------------------------------------------
(* The invariant. *)

Suspects ==
  {i \in DOMAIN image.sections :
     ~RawValid(image.sections[i]) \/ ~RvaValid(image.sections[i])}

\* What has been counted at each stage.
Counted ==
  /\ pc \in {"report", "diagnose"} => followed = << >> /\ invalid = 0
  /\ pc = "diagnose" => u = 0
  /\ pc = "tree" => Len(followed) + invalid = u
  /\ pc = "end" /\ Valid => Len(followed) + invalid = u + (IF Broken THEN 1 ELSE 0)
  /\ pc \in {"tree", "end"} /\ image.pe => suspicious = Cardinality(Suspects)

Inv == TypeOK /\ IsImage(image) /\ Counted

LEMMA SuspectsFinite ==
  ASSUME IsImage(image)
  PROVE  /\ IsFiniteSet(Suspects)
         /\ Cardinality(Suspects) \in 0..Len(image.sections)
<1>1. Len(image.sections) \in Nat /\ DOMAIN image.sections = 1..Len(image.sections)
  BY DEF IsImage
<1>2. /\ IsFiniteSet(DOMAIN image.sections)
      /\ Cardinality(DOMAIN image.sections) = Len(image.sections)
  BY <1>1, FS_Interval
<1>3. Suspects \subseteq DOMAIN image.sections
  BY DEF Suspects
<1>4. IsFiniteSet(Suspects) /\ Cardinality(Suspects) <= Cardinality(DOMAIN image.sections)
  BY <1>2, <1>3, FS_Subset
<1>5. Cardinality(Suspects) \in Nat
  BY <1>4, FS_CardinalityType
<1> QED
  BY <1>1, <1>2, <1>4, <1>5

\* The operators on the file do not change while the file stays.
LEMMA ImageFrame ==
  ASSUME image' = image
  PROVE  /\ IsImage(image)' <=> IsImage(image)
         /\ Valid' <=> Valid
         /\ NoTable' <=> NoTable
         /\ Suspects' = Suspects
         /\ u' = u => (Broken' <=> Broken)
BY DEF IsImage, Valid, NoTable, Suspects, RawValid, RvaValid, Broken, TreeExhausted,
       TreeOffset, ToOffset, Rva, Hits, InRaw, InFile, At

LEMMA InitInv == Init => Inv
<1> SUFFICES ASSUME Init PROVE Inv
  OBVIOUS
<1>1. IsImage(image)
  BY ImagesAssumption DEF Init
<1>2. TypeOK
  <2>1. Len(image.sections) \in Nat
    BY <1>1 DEF IsImage
  <2> QED
    BY <2>1, SizesAssumption DEF Init, TypeOK
<1>3. Counted
  BY DEF Init, Counted
<1> QED
  BY <1>1, <1>2, <1>3 DEF Inv

LEMMA StepInv == Inv /\ [Next]_vars => Inv'
<1> SUFFICES ASSUME Inv, [Next]_vars PROVE Inv'
  OBVIOUS
<1>1. TypeOK /\ IsImage(image) /\ Counted
  BY DEF Inv
<1>2. /\ image \in Images /\ u \in 0..MaxDescriptors
      /\ reported \in Seq(Texts \ {"open"}) /\ suspicious \in 0..Len(image.sections)
      /\ followed \in Seq(Names) /\ invalid \in 0..MaxDescriptors + 1
      /\ pc \in {"report", "diagnose", "tree", "end"}
  BY <1>1 DEF TypeOK
<1>3. MaxDescriptors \in Nat /\ DescriptorSize \in Nat /\ DescriptorSize > 0 /\ MaxDword \in Nat
  BY SizesAssumption, DwordsAssumption
<1>4. Len(followed) \in Nat /\ Len(image.sections) \in Nat
  BY <1>1, <1>2 DEF IsImage
<1>5. CASE ReportEntry
  <2>1. u < MaxDescriptors
    <3>1. image.tableSize \in Nat
      BY <1>1, <1>3 DEF IsImage, Dwords
    <3>2. image.tableSize \div DescriptorSize \in Int
      BY <1>3, <3>1
    <3> QED
      BY <1>2, <1>3, <1>5, <3>2 DEF ReportEntry, ReportLimit, Minimum
  <2>2. reported' \in Seq(Texts \ {"open"})
    <3> DEFINE r == image.desc[ReportOffset(u)]
               name == Rva(r, 1)
    <3>1. r \in Nat
      <4> DEFINE a == Wrapped(image.table + u * DescriptorSize)
      <4>1. a \in Nat
        <5>1. image.table \in Nat
          BY <1>1, <1>3 DEF IsImage, Dwords
        <5>2. u * DescriptorSize \in Nat
          BY <1>2, <1>3
        <5>3. image.table + u * DescriptorSize \in Nat
          BY <5>1, <5>2
        <5> QED
          BY <1>3, <5>3 DEF Wrapped
      <4> HIDE DEF a
      <4>2. ReportOffset(u) = Rva(a, DescriptorSize)
        BY DEF ReportOffset, a
      <4>3. ReportOffset(u) \in Nat /\ ReportOffset(u) <= image.length
        BY <1>1, <1>3, <1>5, <4>1, <4>2, OffsetsInFile DEF ReportEntry
      <4> QED
        BY <1>1, <1>3, <4>3 DEF IsImage, Dwords
    <3>2. name \in Nat
      BY <1>1, <3>1, OffsetsInFile
    <3>3. CASE name < image.length /\ image.text[name] # "open"
      <4>1. image.text[name] \in Texts \ {"open"}
        BY <1>1, <3>2, <3>3 DEF IsImage
      <4> QED
        BY <1>2, <1>5, <3>3, <4>1 DEF ReportEntry
    <3>4. CASE ~(name < image.length /\ image.text[name] # "open")
      BY <1>2, <1>5, <3>4 DEF ReportEntry
    <3> QED
      BY <3>3, <3>4
  <2>3. /\ image' = image /\ pc = "report" /\ pc' = pc /\ u' = u + 1 /\ suspicious' = suspicious
        /\ followed' = followed /\ invalid' = invalid
    BY <1>5 DEF ReportEntry
  <2>4. TypeOK'
    BY <1>2, <1>3, <2>1, <2>2, <2>3 DEF TypeOK
  <2>5. Counted'
    BY <1>1, <2>3 DEF Counted
  <2> QED
    BY <1>1, <2>3, <2>4, <2>5, ImageFrame DEF Inv
<1>6. CASE ReportEnd
  <2>1. /\ image' = image /\ pc = "report" /\ pc' = "diagnose" /\ u' = 0 /\ suspicious' = suspicious
        /\ reported' = reported /\ followed' = followed /\ invalid' = invalid
    BY <1>6 DEF ReportEnd
  <2>2. TypeOK'
    BY <1>2, <1>3, <2>1 DEF TypeOK
  <2>3. Counted'
    BY <1>1, <2>1 DEF Counted
  <2> QED
    BY <1>1, <2>1, <2>2, <2>3, ImageFrame DEF Inv
<1>7. CASE Diagnose
  <2>1. /\ image' = image /\ pc = "diagnose" /\ pc' = "tree" /\ u' = u /\ reported' = reported
        /\ followed' = followed /\ invalid' = invalid
        /\ suspicious' = IF image.pe THEN Cardinality(Suspects) ELSE 0
    BY <1>7 DEF Diagnose, Suspects
  <2>2. suspicious' \in 0..Len(image.sections)
    BY <1>1, <1>4, <2>1, SuspectsFinite
  <2>3. TypeOK'
    BY <1>2, <2>1, <2>2 DEF TypeOK
  <2>4. Counted'
    <3>1. followed = << >> /\ invalid = 0 /\ u = 0
      BY <1>1, <2>1 DEF Counted
    <3>2. Len(followed') + invalid' = u'
      BY <2>1, <3>1
    <3> QED
      BY <2>1, <3>2, ImageFrame DEF Counted
  <2> QED
    BY <1>1, <2>1, <2>3, <2>4, ImageFrame DEF Inv
<1>8. CASE TreeEntry
  <2>1. u < MaxDescriptors
    BY <1>2, <1>3, <1>8 DEF TreeEntry, TreeExhausted
  <2>2. /\ image' = image /\ pc = "tree" /\ pc' = pc /\ u' = u + 1 /\ suspicious' = suspicious
        /\ reported' = reported
    BY <1>8 DEF TreeEntry
  <2>3. Len(followed) + invalid = u
    BY <1>1, <2>2 DEF Counted
  <2>4. /\ followed' \in Seq(Names) /\ invalid' \in Nat
        /\ Len(followed') + invalid' = u + 1
    <3> DEFINE name == ToOffset(image.desc[TreeOffset(u)], 1)
    <3>1. CASE name < image.length /\ image.text[name] \in Names
      <4>1. followed' = Append(followed, image.text[name]) /\ invalid' = invalid
        BY <1>8, <3>1 DEF TreeEntry
      <4>2. followed' \in Seq(Names) /\ Len(followed') = Len(followed) + 1
        BY <1>2, <3>1, <4>1
      <4> QED
        BY <1>2, <1>3, <1>4, <2>3, <4>1, <4>2
    <3>2. CASE ~(name < image.length /\ image.text[name] \in Names)
      <4>1. followed' = followed /\ invalid' = invalid + 1
        BY <1>8, <3>2 DEF TreeEntry
      <4> QED
        BY <1>2, <1>3, <1>4, <2>3, <4>1
    <3> QED
      BY <3>1, <3>2
  <2>5. Len(followed') \in Nat
    BY <2>4
  <2>6. invalid' \in 0..MaxDescriptors + 1 /\ u' \in 0..MaxDescriptors
    BY <1>2, <1>3, <2>1, <2>2, <2>4, <2>5
  <2>7. TypeOK'
    BY <1>2, <2>2, <2>4, <2>6 DEF TypeOK
  <2>8. Counted'
    BY <1>1, <2>2, <2>4, ImageFrame DEF Counted
  <2> QED
    BY <1>1, <2>2, <2>7, <2>8, ImageFrame DEF Inv
<1>9. CASE TreeEnd
  <2>1. /\ image' = image /\ pc = "tree" /\ pc' = "end" /\ u' = u /\ reported' = reported
        /\ suspicious' = suspicious /\ followed' = followed
        /\ invalid' = IF ~Valid \/ Broken THEN invalid + 1 ELSE invalid
    BY <1>9 DEF TreeEnd
  <2>2. Len(followed) + invalid = u
    BY <1>1, <2>1 DEF Counted
  <2>3. invalid' \in 0..MaxDescriptors + 1
    BY <1>2, <1>3, <1>4, <2>1, <2>2
  <2>4. TypeOK'
    BY <1>2, <2>1, <2>3 DEF TypeOK
  <2>5. Valid => Len(followed') + invalid' = u' + (IF Broken THEN 1 ELSE 0)
    BY <1>2, <1>3, <1>4, <2>1, <2>2
  <2>6. Counted'
    BY <1>1, <2>1, <2>5, ImageFrame DEF Counted
  <2> QED
    BY <1>1, <2>1, <2>4, <2>6, ImageFrame DEF Inv
<1>10. CASE UNCHANGED vars
  <2>1. /\ image' = image /\ pc' = pc /\ u' = u /\ reported' = reported
        /\ suspicious' = suspicious /\ followed' = followed /\ invalid' = invalid
    BY <1>10 DEF vars
  <2>2. TypeOK'
    BY <1>1, <2>1 DEF TypeOK
  <2>3. Counted'
    BY <1>1, <2>1, ImageFrame DEF Counted
  <2> QED
    BY <1>1, <2>1, <2>2, <2>3, ImageFrame DEF Inv
<1> QED
  BY <1>5, <1>6, <1>7, <1>8, <1>9, <1>10 DEF Next

LEMMA InvAlways == Spec => []Inv
BY InitInv, StepInv, PTL DEF Spec

-----------------------------------------------------------------------------
(* Theorems. *)

\* Types: among others, both loops stop at the limit on descriptors, and no
\* text without an end is printed, whatever the file holds.
THEOREM PeTypes == Spec => []TypeOK
<1>1. Inv => TypeOK
  BY DEF Inv
<1> QED
  BY <1>1, InvAlways, PTL

\* Every descriptor that ReportDependencyTree has read is followed or counted,
\* for import tables of any length.
THEOREM EverythingCounted == Spec => []NothingUncounted
<1>1. Inv => NothingUncounted
  BY DEF Inv, Counted, NothingUncounted
<1> QED
  BY <1>1, InvAlways, PTL

\* A section table that DiagnoseImage does not suspect lets both readers find
\* every RVA of its raw data, for words of any width.
THEOREM SoundSections == Spec => []SoundSectionsResolve
<1>1. Inv => SoundSectionsResolve
  <2> SUFFICES ASSUME Inv, pc = "end", image.pe, suspicious = 0,
                      NEW i \in DOMAIN image.sections, NEW r \in Dwords,
                      NEW n \in 1..DescriptorSize, InRaw(image.sections[i], r, n)
               PROVE  InFile(Rva(r, n), n) /\ InFile(ToOffset(r, n), n)
    BY DEF SoundSectionsResolve
  <2>1. IsImage(image) /\ Cardinality(Suspects) = 0
    BY DEF Inv, Counted
  <2>2. Suspects = {}
    BY <2>1, SuspectsFinite, FS_EmptySet
  <2> DEFINE s == image.sections[i]
  <2>3. RawValid(s)
    BY <2>2 DEF Suspects
  <2>4. s \in Section
    BY <2>1 DEF IsImage
  <2>5. InRaw(s, r, n)
    OBVIOUS
  <2>6. InFile(At(s, r), n)
    <3> HIDE DEF s
    <3>1. s.raw \in Nat /\ s.va \in Nat /\ s.size \in Nat /\ r \in Nat
      BY <2>4, DwordsAssumption DEF Section, Dwords
    <3>2. n \in Nat /\ n > 0
      BY SizesAssumption
    <3>3. image.length \in Nat
      BY <2>1 DEF IsImage
    <3> QED
      BY <2>3, <2>5, <3>1, <3>2, <3>3 DEF RawValid, InRaw, InFile, At
  <2>7. i \in Hits(r, n)
    BY <2>5, <2>6 DEF Hits
  <2>8. InFile(Rva(r, n), n)
    BY <2>1, <2>7, RvaInFile
  <2> QED
    BY <2>8 DEF ToOffset
<1> QED
  BY <1>1, InvAlways, PTL

-----------------------------------------------------------------------------
(* The two readers agree. *)

\* Descriptor j, as ReportImports reads it.
NameOf(j) == Rva(image.desc[ReportOffset(j)], 1)
Text(j) == image.text[NameOf(j)]
Printed(j) == NameOf(j) < image.length /\ Text(j) # "open"
PrintedBefore(j) == Cardinality({i \in 0..j-1 : Printed(i)})

\* The report consists of the texts of the first n descriptors.
ReportIs(n) ==
  /\ Len(reported) = PrintedBefore(n)
  /\ \A j \in 0..n-1 : Printed(j) => reported[PrintedBefore(j) + 1] = Text(j)

\* No descriptor before the nth ends the loop.
GoesOn(n) ==
  \A j \in 0..n-1 : /\ j < ReportLimit /\ InFile(ReportOffset(j), DescriptorSize)
                    /\ image.desc[ReportOffset(j)] # 0

\* The tree has followed the DLLs among the first m texts of the report.
FollowedIs(m) ==
  /\ Len(followed) = DllsIn(m)
  /\ \A k \in 1..m : reported[k] \in Names => followed[DllsIn(k)] = reported[k]

\* On a regular image both loops end at the first null descriptor, n, and the
\* report tells what they have read before it.
AgreeInv ==
  /\ pc = "report" /\ ~NoTable => GoesOn(u) /\ ReportIs(u)
  /\ pc # "report" /\ Regular =>
       \E n \in 0..ReportLimit - 1 :
         /\ Ends(n) /\ GoesOn(n) /\ ReportIs(n)
         /\ pc \in {"tree", "end"} => u <= n /\ FollowedIs(PrintedBefore(u))
         /\ pc = "end" => u = n

LEMMA AgreeFrame ==
  ASSUME image' = image
  PROVE  /\ NoTable' <=> NoTable
         /\ Regular' <=> Regular
         /\ ReportLimit' = ReportLimit
         /\ \A n : /\ PrintedBefore(n)' = PrintedBefore(n)
                   /\ Ends(n)' <=> Ends(n)
                   /\ GoesOn(n)' <=> GoesOn(n)
                   /\ Printed(n)' <=> Printed(n)
                   /\ Text(n)' = Text(n)
         /\ reported' = reported => \A n : ReportIs(n)' <=> ReportIs(n)
         /\ reported' = reported /\ followed' = followed =>
              \A n : FollowedIs(n)' <=> FollowedIs(n)
<1>1. /\ \A r, n : Rva(r, n)' = Rva(r, n)
      /\ \A p, n : InFile(p, n)' <=> InFile(p, n)
  BY DEF Rva, Hits, InRaw, InFile, At
<1>2. \A j : ReportOffset(j)' = ReportOffset(j)
  BY <1>1 DEF ReportOffset
<1>3. \A j : NameOf(j)' = NameOf(j) /\ Text(j)' = Text(j)
  BY <1>1, <1>2 DEF NameOf, Text
<1>4. \A j : Printed(j)' <=> Printed(j)
  BY <1>3 DEF Printed
<1>5. \A n : PrintedBefore(n)' = PrintedBefore(n)
  BY <1>4 DEF PrintedBefore
<1>6. /\ NoTable' <=> NoTable
      /\ Valid' <=> Valid
      /\ ReportLimit' = ReportLimit
  BY DEF NoTable, Valid, ReportLimit
<1>7. \A n : Ends(n)' <=> Ends(n)
  BY <1>1, <1>2 DEF Ends
<1>8. \A n : GoesOn(n)' <=> GoesOn(n)
  BY <1>1, <1>2, <1>6 DEF GoesOn
<1>9. Regular' <=> Regular
  BY <1>6, <1>7 DEF Regular
<1>10. reported' = reported => \A n : ReportIs(n)' <=> ReportIs(n)
  BY <1>3, <1>4, <1>5 DEF ReportIs
<1>11. reported' = reported /\ followed' = followed => \A n : FollowedIs(n)' <=> FollowedIs(n)
  BY DEF FollowedIs, DllsIn
<1> QED
  BY <1>3, <1>4, <1>5, <1>6, <1>7, <1>8, <1>9, <1>10, <1>11

\* Counting up to the next element.
LEMMA PrintedCounts ==
  /\ PrintedBefore(0) = 0
  /\ \A n \in Nat : PrintedBefore(n) \in Nat
  /\ \A n \in Nat : PrintedBefore(n + 1) = PrintedBefore(n) + (IF Printed(n) THEN 1 ELSE 0)
  /\ \A m, n \in Nat : m <= n => PrintedBefore(m) <= PrintedBefore(n)
<1> DEFINE S(n) == {i \in 0..n-1 : Printed(i)}
<1>1. ASSUME NEW n \in Nat PROVE IsFiniteSet(S(n))
  <2>1. IsFiniteSet(0..n-1) /\ S(n) \subseteq 0..n-1
    BY FS_Interval
  <2> QED
    BY <2>1, FS_Subset
<1>2. S(0) = {} /\ Cardinality({}) = 0
  BY FS_EmptySet
<1>3. ASSUME NEW n \in Nat
      PROVE  Cardinality(S(n + 1)) = Cardinality(S(n)) + (IF Printed(n) THEN 1 ELSE 0)
  <2>1. CASE Printed(n)
    <3>1. S(n + 1) = S(n) \cup {n} /\ n \notin S(n)
      BY <2>1
    <3> QED
      BY <1>1, <2>1, <3>1, FS_AddElement
  <2>2. CASE ~Printed(n)
    <3>1. S(n + 1) = S(n)
      BY <2>2
    <3>2. Cardinality(S(n)) \in Nat
      BY <1>1, FS_CardinalityType
    <3> HIDE DEF S
    <3> QED
      BY <2>2, <3>1, <3>2
  <2> QED
    BY <2>1, <2>2
<1>4. ASSUME NEW m \in Nat, NEW n \in Nat, m <= n PROVE Cardinality(S(m)) <= Cardinality(S(n))
  <2>1. S(m) \subseteq S(n)
    BY <1>4
  <2> QED
    BY <1>1, <2>1, FS_Subset
<1> QED
  BY <1>1, <1>2, <1>3, <1>4, FS_CardinalityType DEF PrintedBefore

LEMMA DllsCount ==
  /\ DllsIn(0) = 0
  /\ \A n \in Nat : DllsIn(n) \in Nat
  /\ \A n \in Nat : DllsIn(n + 1) = DllsIn(n) + (IF reported[n + 1] \in Names THEN 1 ELSE 0)
  /\ \A m, n \in Nat : m <= n => DllsIn(m) <= DllsIn(n)
  /\ \A k \in Nat \ {0} : reported[k] \in Names => DllsIn(k) >= 1
<1> DEFINE S(n) == {i \in 1..n : reported[i] \in Names}
<1>1. ASSUME NEW n \in Nat PROVE IsFiniteSet(S(n))
  <2>1. IsFiniteSet(1..n) /\ S(n) \subseteq 1..n
    BY FS_Interval
  <2> QED
    BY <2>1, FS_Subset
<1>2. S(0) = {} /\ Cardinality({}) = 0
  BY FS_EmptySet
<1>3. ASSUME NEW n \in Nat
      PROVE  Cardinality(S(n + 1)) =
               Cardinality(S(n)) + (IF reported[n + 1] \in Names THEN 1 ELSE 0)
  <2>1. CASE reported[n + 1] \in Names
    <3>1. S(n + 1) = S(n) \cup {n + 1} /\ n + 1 \notin S(n)
      BY <2>1
    <3> QED
      BY <1>1, <2>1, <3>1, FS_AddElement
  <2>2. CASE reported[n + 1] \notin Names
    <3>1. S(n + 1) = S(n)
      BY <2>2
    <3>2. Cardinality(S(n)) \in Nat
      BY <1>1, FS_CardinalityType
    <3> HIDE DEF S
    <3> QED
      BY <2>2, <3>1, <3>2
  <2> QED
    BY <2>1, <2>2
<1>4. ASSUME NEW m \in Nat, NEW n \in Nat, m <= n PROVE Cardinality(S(m)) <= Cardinality(S(n))
  <2>1. S(m) \subseteq S(n)
    BY <1>4
  <2> QED
    BY <1>1, <2>1, FS_Subset
<1>5. \A n \in Nat : DllsIn(n) = Cardinality(S(n))
  BY DEF DllsIn
<1>6. ASSUME NEW k \in Nat \ {0}, reported[k] \in Names PROVE DllsIn(k) >= 1
  <2>1. k \in S(k) /\ k \in Nat
    BY <1>6
  <2>2. Cardinality(S(k)) # 0 /\ Cardinality(S(k)) \in Nat
    BY <1>1, <2>1, FS_EmptySet, FS_CardinalityType
  <2> HIDE DEF S
  <2> QED
    BY <1>5, <2>1, <2>2
<1>7. \A n \in Nat : Cardinality(S(n)) \in Nat
  BY <1>1, FS_CardinalityType
<1> HIDE DEF S
<1>8. \A n \in Nat : DllsIn(n + 1) = DllsIn(n) + (IF reported[n + 1] \in Names THEN 1 ELSE 0)
  BY <1>3, <1>5
<1>9. DllsIn(0) = 0
  BY <1>2, <1>5
<1> QED
  BY <1>4, <1>5, <1>6, <1>7, <1>8, <1>9

\* One more text is printed, or none.
LEMMA ReportGrows ==
  ASSUME NEW n \in Nat, image' = image, reported \in Seq(Texts \ {"open"}), ReportIs(n),
         reported' = IF Printed(n) THEN Append(reported, Text(n)) ELSE reported,
         Printed(n) => Text(n) \in Texts \ {"open"}
  PROVE  ReportIs(n + 1)'
<1>1. /\ PrintedBefore(n + 1)' = PrintedBefore(n + 1)
      /\ \A j : PrintedBefore(j)' = PrintedBefore(j) /\ (Printed(j)' <=> Printed(j))
      /\ \A j : Text(j)' = Text(j)
  BY AgreeFrame
<1>2. /\ Len(reported) = PrintedBefore(n) /\ PrintedBefore(n) \in Nat
      /\ \A j \in 0..n-1 : Printed(j) => reported[PrintedBefore(j) + 1] = Text(j)
  BY PrintedCounts DEF ReportIs
<1>3. CASE Printed(n)
  <2>1. /\ Len(reported') = PrintedBefore(n) + 1
        /\ reported'[PrintedBefore(n) + 1] = Text(n)
        /\ \A k \in 1..PrintedBefore(n) : reported'[k] = reported[k]
    BY <1>2, <1>3
  <2>2. PrintedBefore(n + 1) = PrintedBefore(n) + 1
    BY <1>3, PrintedCounts
  <2>3. ASSUME NEW j \in 0..n, Printed(j) PROVE reported'[PrintedBefore(j) + 1] = Text(j)
    <3>1. CASE j = n
      BY <2>1, <3>1
    <3>2. CASE j # n
      <4>1. j \in 0..n-1 /\ j \in Nat /\ j + 1 \in Nat /\ j + 1 <= n
        BY <3>2
      <4>2. /\ PrintedBefore(j + 1) = PrintedBefore(j) + 1 /\ PrintedBefore(j) \in Nat
            /\ PrintedBefore(j + 1) <= PrintedBefore(n)
        BY <2>3, <4>1, PrintedCounts
      <4>3. PrintedBefore(j) + 1 \in 1..PrintedBefore(n)
        BY <1>2, <4>2
      <4> QED
        BY <1>2, <2>1, <2>3, <4>1, <4>3
    <3> QED
      BY <3>1, <3>2
  <2>4. (n + 1) - 1 = n
    OBVIOUS
  <2> QED
    BY <1>1, <2>1, <2>2, <2>3, <2>4 DEF ReportIs
<1>4. CASE ~Printed(n)
  <2>1. PrintedBefore(n + 1) = PrintedBefore(n)
    BY <1>2, <1>4, PrintedCounts
  <2>2. \A j \in 0..n : Printed(j) => j \in 0..n-1
    BY <1>4
  <2>3. (n + 1) - 1 = n
    OBVIOUS
  <2> QED
    BY <1>1, <1>2, <1>4, <2>1, <2>2, <2>3 DEF ReportIs
<1> QED
  BY <1>3, <1>4

\* The tree follows one more text of the report, or passes it over.
LEMMA FollowedGrows ==
  ASSUME NEW m \in Nat, reported' = reported, followed \in Seq(Names), FollowedIs(m),
         followed' = IF reported[m + 1] \in Names THEN Append(followed, reported[m + 1])
                                                  ELSE followed
  PROVE  FollowedIs(m + 1)'
<1>1. \A k : DllsIn(k)' = DllsIn(k)
  BY DEF DllsIn
<1>2. /\ Len(followed) = DllsIn(m) /\ DllsIn(m) \in Nat
      /\ \A k \in 1..m : reported[k] \in Names => followed[DllsIn(k)] = reported[k]
  BY DllsCount DEF FollowedIs
<1>3. \A k \in 1..m+1 : k \in 1..m \/ k = m + 1
  OBVIOUS
<1>4. CASE reported[m + 1] \in Names
  <2>1. DllsIn(m + 1) = DllsIn(m) + 1
    BY <1>4, DllsCount
  <2>2. /\ Len(followed') = DllsIn(m) + 1
        /\ followed'[DllsIn(m) + 1] = reported[m + 1]
        /\ \A k \in 1..DllsIn(m) : followed'[k] = followed[k]
    BY <1>2, <1>4
  <2>3. ASSUME NEW k \in 1..m, reported[k] \in Names PROVE DllsIn(k) \in 1..DllsIn(m)
    <3>1. k \in Nat \ {0} /\ k <= m /\ k \in Nat
      OBVIOUS
    <3>2. DllsIn(k) >= 1 /\ DllsIn(k) \in Nat /\ DllsIn(k) <= DllsIn(m)
      BY <2>3, <3>1, DllsCount
    <3> QED
      BY <1>2, <3>2
  <2>4. \A k \in 1..m+1 : reported[k] \in Names => followed'[DllsIn(k)] = reported[k]
    BY <1>2, <1>3, <2>1, <2>2, <2>3
  <2> QED
    BY <1>1, <2>1, <2>2, <2>4 DEF FollowedIs
<1>5. CASE reported[m + 1] \notin Names
  <2>1. DllsIn(m + 1) = DllsIn(m)
    <3>1. DllsIn(m + 1) = DllsIn(m) + 0
      BY <1>5, DllsCount
    <3> QED
      BY <1>2, <3>1
  <2> QED
    BY <1>1, <1>2, <1>3, <1>5, <2>1 DEF FollowedIs
<1> QED
  BY <1>4, <1>5

\* Where the table is regular, the tree reads what ReportImports has read.
LEMMA SameDescriptor ==
  ASSUME IsImage(image), Regular, NEW n \in 0..ReportLimit - 1, Ends(n), NEW j \in 0..n
  PROVE  /\ TreeOffset(j) = ReportOffset(j)
         /\ image.table + j * DescriptorSize \in Dwords
         /\ InFile(ReportOffset(j), DescriptorSize)
         /\ j < n => ToOffset(image.desc[ReportOffset(j)], 1) = NameOf(j)
         /\ j < MaxDescriptors
<1>1. /\ MaxDescriptors \in Nat /\ DescriptorSize \in Nat /\ MaxDword \in Nat
      /\ image.headers \in Nat /\ image.table \in Nat /\ image.tableSize \in Nat
      /\ DescriptorSize > 0
  BY SizesAssumption, DwordsAssumption DEF IsImage, Dwords
<1>2. /\ image.table + j * DescriptorSize \in Dwords
      /\ InFile(ReportOffset(j), DescriptorSize)
  BY DEF Ends
<1>3. j * DescriptorSize \in Nat /\ image.headers <= image.table
  BY <1>1 DEF Regular
<1> DEFINE r == image.table + j * DescriptorSize
<1>4. r \in Nat /\ r <= MaxDword /\ ~(r < image.headers)
  BY <1>1, <1>2, <1>3 DEF Dwords
<1>5. Wrapped(r) = r
  <2> HIDE DEF r
  <2> QED
    BY <1>1, <1>4 DEF Wrapped
<1>6. TreeOffset(j) = ReportOffset(j)
  BY <1>4, <1>5 DEF TreeOffset, ReportOffset, ToOffset
<1>7. ASSUME j < n PROVE ToOffset(image.desc[ReportOffset(j)], 1) = NameOf(j)
  <2>1. j \in 0..n-1
    BY <1>7
  <2>2. image.desc[ReportOffset(j)] >= image.headers
    BY <2>1 DEF Ends
  <2>3. image.desc[ReportOffset(j)] \in Nat
    <3>1. ReportOffset(j) \in Nat
      BY <1>1, <1>4, <1>5, OffsetsInFile DEF ReportOffset
    <3>2. ReportOffset(j) <= image.length
      BY <1>1, <1>2, <1>4, <1>5, OffsetsInFile DEF ReportOffset
    <3> QED
      BY <1>1, <3>1, <3>2 DEF IsImage, Dwords
  <2>4. ~(image.desc[ReportOffset(j)] < image.headers)
    BY <1>1, <2>2, <2>3
  <2> QED
    BY <2>4 DEF ToOffset, NameOf
<1>8. j < MaxDescriptors
  <2>1. image.tableSize \div DescriptorSize \in Int
    BY <1>1
  <2>2. ReportLimit <= MaxDescriptors /\ ReportLimit \in Int
    BY <1>1, <2>1 DEF ReportLimit, Minimum
  <2> QED
    BY <1>1, <2>2
<1> QED
  BY <1>2, <1>6, <1>7, <1>8

LEMMA AgreeReport == ASSUME Inv, AgreeInv, ReportEntry PROVE AgreeInv'
<1>1. /\ image' = image /\ pc = "report" /\ pc' = "report" /\ u' = u + 1 /\ ~NoTable
      /\ u < ReportLimit /\ InFile(ReportOffset(u), DescriptorSize)
      /\ image.desc[ReportOffset(u)] # 0
      /\ reported' = IF Printed(u) THEN Append(reported, Text(u)) ELSE reported
  BY DEF ReportEntry, Printed, Text, NameOf
<1>2. u \in Nat /\ reported \in Seq(Texts \ {"open"}) /\ reported' \in Seq(Texts \ {"open"})
  BY StepInv DEF Inv, TypeOK, Next
<1>3. GoesOn(u) /\ ReportIs(u)
  BY <1>1 DEF AgreeInv
<1>4. Printed(u) => Text(u) \in Texts \ {"open"}
  <2>1. ASSUME Printed(u) PROVE Text(u) \in Texts \ {"open"}
    <3>1. reported' = Append(reported, Text(u))
      BY <1>1, <2>1
    <3>2. Len(reported') = Len(reported) + 1 /\ reported'[Len(reported) + 1] = Text(u)
      BY <1>2, <3>1
    <3>3. Len(reported) + 1 \in 1..Len(reported')
      BY <1>2, <3>2
    <3> QED
      BY <1>2, <3>2, <3>3
  <2> QED
    BY <2>1
<1>5. PICK n \in Nat : n = u
  BY <1>2
<1>6. ReportIs(n + 1)'
  BY <1>1, <1>2, <1>3, <1>4, <1>5, ReportGrows
<1>7. GoesOn(n + 1)
  <2>1. \A j \in 0..(n + 1) - 1 : j \in 0..n-1 \/ j = n
    OBVIOUS
  <2> QED
    BY <1>1, <1>3, <1>5, <2>1 DEF GoesOn
<1>8. GoesOn(n + 1)'
  BY <1>1, <1>7, AgreeFrame
<1>9. u' = n + 1
  BY <1>1, <1>5
<1>10. GoesOn(u)' /\ ReportIs(u)'
  BY <1>6, <1>8, <1>9 DEF GoesOn, ReportIs
<1> QED
  BY <1>1, <1>10 DEF AgreeInv

LEMMA AgreeReportEnd == ASSUME Inv, AgreeInv, ReportEnd PROVE AgreeInv'
<1>1. /\ image' = image /\ pc = "report" /\ pc' = "diagnose" /\ reported' = reported
      /\ \/ NoTable
         \/ u >= ReportLimit
         \/ ~InFile(ReportOffset(u), DescriptorSize)
         \/ image.desc[ReportOffset(u)] = 0
  BY DEF ReportEnd
<1>2. u \in Nat
  BY DEF Inv, TypeOK
<1>3. ASSUME Regular
      PROVE  u \in 0..ReportLimit - 1 /\ Ends(u) /\ GoesOn(u) /\ ReportIs(u)
  <2>1. GoesOn(u) /\ ReportIs(u) /\ ~NoTable
    BY <1>1, <1>3 DEF AgreeInv, Regular
  <2>2. PICK k \in 0..ReportLimit - 1 : Ends(k)
    BY <1>3 DEF Regular
  <2>3. ReportLimit \in Int
    <3>1. image.tableSize \in Nat /\ DescriptorSize \in Nat /\ DescriptorSize > 0
          /\ MaxDescriptors \in Nat
      BY SizesAssumption, DwordsAssumption DEF Inv, IsImage, Dwords
    <3>2. image.tableSize \div DescriptorSize \in Int
      BY <3>1
    <3> QED
      BY <3>1, <3>2 DEF ReportLimit, Minimum
  <2>4. u <= k
    <3> SUFFICES ASSUME ~(u <= k) PROVE FALSE
      OBVIOUS
    <3>1. k \in 0..u-1
      BY <1>2, <2>2, <2>3
    <3>2. image.desc[ReportOffset(k)] # 0 /\ image.desc[ReportOffset(k)] = 0
      BY <2>1, <2>2, <3>1 DEF GoesOn, Ends
    <3> QED
      BY <3>2
  <2>5. u \in 0..k /\ u \in 0..ReportLimit - 1 /\ ~(u >= ReportLimit)
    BY <1>2, <2>2, <2>3, <2>4
  <2>6. InFile(ReportOffset(u), DescriptorSize)
    BY <2>2, <2>5 DEF Ends
  <2>7. image.desc[ReportOffset(u)] = 0
    BY <1>1, <2>1, <2>5, <2>6
  <2>8. \A j \in 0..u : j \in 0..k
    BY <1>2, <2>2, <2>4
  <2>9. \A j \in 0..u-1 : j \in 0..k-1
    BY <1>2, <2>2, <2>4
  <2>10. Ends(u)
    BY <2>2, <2>7, <2>8, <2>9 DEF Ends
  <2> QED
    BY <2>1, <2>5, <2>10
<1>4. ASSUME Regular'
      PROVE  \E n \in (0..ReportLimit - 1)' : Ends(n)' /\ GoesOn(n)' /\ ReportIs(n)'
  <2>1. Regular
    BY <1>1, <1>4, AgreeFrame
  <2>2. u \in (0..ReportLimit - 1)'
    BY <1>1, <1>3, <2>1, AgreeFrame
  <2>3. \A n : /\ Ends(n)' <=> Ends(n)
               /\ GoesOn(n)' <=> GoesOn(n)
               /\ ReportIs(n)' <=> ReportIs(n)
    BY <1>1, AgreeFrame
  <2> QED
    BY <1>3, <2>1, <2>2, <2>3
<1> QED
  BY <1>1, <1>4 DEF AgreeInv

LEMMA AgreeDiagnose == ASSUME Inv, AgreeInv, Diagnose PROVE AgreeInv'
<1>1. /\ image' = image /\ pc = "diagnose" /\ pc' = "tree" /\ u' = u /\ u = 0
      /\ reported' = reported /\ followed' = followed /\ followed = << >>
  BY DEF Diagnose, Inv, Counted
<1>2. ASSUME Regular'
      PROVE  \E n \in (0..ReportLimit - 1)' :
               /\ Ends(n)' /\ GoesOn(n)' /\ ReportIs(n)'
               /\ u' <= n /\ FollowedIs(PrintedBefore(u))'
  <2>1. Regular
    BY <1>1, <1>2, AgreeFrame
  <2>2. PICK n \in 0..ReportLimit - 1 : Ends(n) /\ GoesOn(n) /\ ReportIs(n)
    BY <1>1, <2>1 DEF AgreeInv
  <2>3. n \in (0..ReportLimit - 1)' /\ Ends(n)' /\ GoesOn(n)' /\ ReportIs(n)'
    BY <1>1, <2>2, AgreeFrame
  <2>4. FollowedIs(0)
    BY <1>1, DllsCount DEF FollowedIs
  <2>5. PrintedBefore(u) = 0
    BY <1>1, PrintedCounts
  <2>6. PrintedBefore(u)' = 0
    BY <1>1, <2>5, AgreeFrame
  <2>7. FollowedIs(0)'
    BY <1>1, <2>4, AgreeFrame
  <2>8. FollowedIs(PrintedBefore(u))'
    BY <2>6, <2>7
  <2> QED
    BY <1>1, <2>2, <2>3, <2>8
<1> QED
  BY <1>1, <1>2 DEF AgreeInv

LEMMA AgreeTree == ASSUME Inv, AgreeInv, TreeEntry PROVE AgreeInv'
<1> DEFINE name == ToOffset(image.desc[TreeOffset(u)], 1)
<1>1. /\ image' = image /\ pc = "tree" /\ pc' = "tree" /\ u' = u + 1 /\ reported' = reported
      /\ image.desc[TreeOffset(u)] # 0
      /\ followed' = IF name < image.length /\ image.text[name] \in Names
                     THEN Append(followed, image.text[name]) ELSE followed
  BY DEF TreeEntry
<1> HIDE DEF name
<1>2. PICK v \in Nat : v = u
  BY DEF Inv, TypeOK
<1>3. followed \in Seq(Names) /\ IsImage(image) /\ PrintedBefore(v) \in Nat
  BY PrintedCounts DEF Inv, TypeOK
<1>4. ASSUME Regular
      PROVE  \E n \in 0..ReportLimit - 1 :
               /\ Ends(n) /\ GoesOn(n) /\ ReportIs(n)
               /\ v + 1 <= n /\ FollowedIs(PrintedBefore(v + 1))'
  <2>1. PICK n \in 0..ReportLimit - 1 :
          /\ Ends(n) /\ GoesOn(n) /\ ReportIs(n)
          /\ v <= n /\ FollowedIs(PrintedBefore(v))
    BY <1>1, <1>2, <1>4 DEF AgreeInv
  <2>2. n \in Nat /\ v \in 0..n
    BY <2>1
  <2>3. TreeOffset(v) = ReportOffset(v)
    BY <1>3, <1>4, <2>1, <2>2, SameDescriptor
  <2>4. image.desc[ReportOffset(n)] = 0
    BY <2>1 DEF Ends
  <2>5. v # n
    BY <1>1, <1>2, <2>3, <2>4
  <2>6. v < n /\ v + 1 <= n /\ v \in 0..n-1
    BY <2>2, <2>5
  <2>7. name = NameOf(v)
    BY <1>2, <1>3, <1>4, <2>1, <2>2, <2>3, <2>6, SameDescriptor DEF name
  <2>8. followed' = IF NameOf(v) < image.length /\ Text(v) \in Names
                    THEN Append(followed, Text(v)) ELSE followed
    BY <1>1, <2>7 DEF Text
  <2>9. CASE Printed(v)
    <3>1. reported[PrintedBefore(v) + 1] = Text(v)
      BY <2>1, <2>6, <2>9 DEF ReportIs
    <3>2. NameOf(v) < image.length
      BY <2>9 DEF Printed
    <3>3. FollowedIs(PrintedBefore(v) + 1)'
      <4> PICK m \in Nat : m = PrintedBefore(v)
        BY <1>3
      <4>1. FollowedIs(m + 1)'
        BY <1>1, <1>3, <2>1, <2>8, <3>1, <3>2, FollowedGrows
      <4>2. PrintedBefore(v)' = m
        BY <1>1, AgreeFrame
      <4> QED
        BY <4>1, <4>2
    <3>4. PrintedBefore(v + 1)' = PrintedBefore(v)' + 1
      BY <1>1, <2>9, AgreeFrame, PrintedCounts
    <3>5. FollowedIs(PrintedBefore(v + 1))'
      BY <3>3, <3>4
    <3> QED
      BY <2>1, <2>6, <3>5
  <2>10. CASE ~Printed(v)
    <3>1. ~(NameOf(v) < image.length /\ Text(v) \in Names)
      BY <2>10, NamesAssumption DEF Printed
    <3>2. followed' = followed
      BY <2>8, <3>1
    <3>3. PrintedBefore(v + 1) = PrintedBefore(v) + 0
      BY <2>10, PrintedCounts
    <3>4. PrintedBefore(v + 1)' = PrintedBefore(v)
      BY <1>1, <1>3, <3>3, AgreeFrame
    <3> PICK m \in Nat : m = PrintedBefore(v)
      BY <1>3
    <3>5. FollowedIs(m)'
      BY <1>1, <2>1, <3>2, AgreeFrame
    <3>6. FollowedIs(PrintedBefore(v + 1))'
      BY <3>4, <3>5
    <3> QED
      BY <2>1, <2>6, <3>6
  <2> QED
    BY <2>9, <2>10
<1>5. ASSUME Regular'
      PROVE  \E n \in (0..ReportLimit - 1)' :
               /\ Ends(n)' /\ GoesOn(n)' /\ ReportIs(n)'
               /\ u' <= n /\ FollowedIs(PrintedBefore(u))'
  <2>1. Regular
    BY <1>1, <1>5, AgreeFrame
  <2>2. PICK n \in 0..ReportLimit - 1 :
          /\ Ends(n) /\ GoesOn(n) /\ ReportIs(n)
          /\ v + 1 <= n /\ FollowedIs(PrintedBefore(v + 1))'
    BY <1>4, <2>1
  <2>3. n \in (0..ReportLimit - 1)' /\ Ends(n)' /\ GoesOn(n)' /\ ReportIs(n)'
    BY <1>1, <2>2, AgreeFrame
  <2>4. u' = v + 1
    BY <1>1, <1>2
  <2>5. FollowedIs(PrintedBefore(u))'
    BY <2>2, <2>4
  <2> QED
    BY <2>2, <2>3, <2>4, <2>5
<1> QED
  BY <1>1, <1>5 DEF AgreeInv

LEMMA AgreeTreeEnd == ASSUME Inv, AgreeInv, TreeEnd PROVE AgreeInv'
<1>1. /\ image' = image /\ pc = "tree" /\ pc' = "end" /\ u' = u
      /\ reported' = reported /\ followed' = followed
      /\ \/ NoTable \/ TreeExhausted
         \/ ~InFile(TreeOffset(u), DescriptorSize)
         \/ image.desc[TreeOffset(u)] = 0
  BY DEF TreeEnd
<1>2. u \in Nat /\ IsImage(image)
  BY DEF Inv, TypeOK
<1>3. ASSUME Regular'
      PROVE  \E n \in (0..ReportLimit - 1)' :
               /\ Ends(n)' /\ GoesOn(n)' /\ ReportIs(n)'
               /\ u' = n /\ u' <= n /\ FollowedIs(PrintedBefore(u))'
  <2>1. Regular
    BY <1>1, <1>3, AgreeFrame
  <2>2. PICK n \in 0..ReportLimit - 1 :
          /\ Ends(n) /\ GoesOn(n) /\ ReportIs(n)
          /\ u <= n /\ FollowedIs(PrintedBefore(u))
    BY <1>1, <2>1 DEF AgreeInv
  <2>3. n \in Nat /\ u \in 0..n
    BY <1>2, <2>2
  <2>4. /\ TreeOffset(u) = ReportOffset(u)
        /\ image.table + u * DescriptorSize \in Dwords
        /\ InFile(ReportOffset(u), DescriptorSize) /\ u < MaxDescriptors
    BY <1>2, <2>1, <2>2, <2>3, SameDescriptor
  <2>5. ~NoTable /\ ~TreeExhausted
    BY <1>2, <2>1, <2>4, SizesAssumption DEF TreeExhausted, Regular
  <2>6. image.desc[ReportOffset(u)] = 0
    BY <1>1, <2>4, <2>5
  <2>7. ~(u \in 0..n-1)
    BY <2>2, <2>6 DEF GoesOn
  <2>8. u = n
    BY <2>3, <2>7
  <2>9. n \in (0..ReportLimit - 1)' /\ Ends(n)' /\ GoesOn(n)' /\ ReportIs(n)'
    BY <1>1, <2>2, AgreeFrame
  <2>10. FollowedIs(PrintedBefore(n))'
    <3> PICK m \in Nat : m = PrintedBefore(n)
      BY <2>3, PrintedCounts
    <3>1. FollowedIs(m)'
      BY <1>1, <2>2, <2>8, AgreeFrame
    <3>2. PrintedBefore(n)' = m
      BY <1>1, AgreeFrame
    <3> QED
      BY <3>1, <3>2
  <2>11. u' = n /\ u' <= n
    BY <1>1, <2>3, <2>8
  <2>12. FollowedIs(PrintedBefore(u))'
    BY <2>10, <2>11
  <2> QED
    BY <2>9, <2>11, <2>12
<1> QED
  BY <1>1, <1>3 DEF AgreeInv

LEMMA AgreeStep == Inv /\ AgreeInv /\ [Next]_vars => AgreeInv'
<1> SUFFICES ASSUME Inv, AgreeInv, [Next]_vars PROVE AgreeInv'
  OBVIOUS
<1>1. CASE UNCHANGED vars
  <2>1. /\ image' = image /\ pc' = pc /\ u' = u /\ reported' = reported /\ followed' = followed
    BY <1>1 DEF vars
  <2>2. GoesOn(u)' <=> GoesOn(u)
    BY <2>1 DEF GoesOn, ReportLimit, ReportOffset, Rva, Hits, InRaw, InFile, At
  <2> QED
    BY <2>1, AgreeFrame DEF AgreeInv
<1> QED
  BY <1>1, AgreeReport, AgreeReportEnd, AgreeDiagnose, AgreeTree, AgreeTreeEnd DEF Next

\* On a regular image ReportDependencyTree follows exactly the DLLs that
\* ReportImports has reported, in the same order, although the two find
\* offsets and end their loops by different code: for tables of any length.
THEOREM ReadersGiveSame == Spec => []ReadersAgree
<1>1. Init => AgreeInv
  <2> SUFFICES ASSUME Init PROVE AgreeInv
    OBVIOUS
  <2>1. pc = "report" /\ u = 0 /\ reported = << >>
    BY DEF Init
  <2>2. GoesOn(0)
    BY DEF GoesOn
  <2>3. ReportIs(0)
    BY <2>1, PrintedCounts DEF ReportIs
  <2> QED
    BY <2>1, <2>2, <2>3 DEF AgreeInv
<1>2. Inv /\ AgreeInv => ReadersAgree
  <2> SUFFICES ASSUME Inv, AgreeInv, pc = "end", Regular
               PROVE  /\ Len(followed) = DllsIn(Len(reported))
                      /\ \A k \in DOMAIN reported :
                           reported[k] \in Names => followed[DllsIn(k)] = reported[k]
    BY DEF ReadersAgree
  <2>1. PICK n \in 0..ReportLimit - 1 : ReportIs(n) /\ u = n /\ FollowedIs(PrintedBefore(u))
    BY DEF AgreeInv
  <2>2. Len(reported) = PrintedBefore(u)
    BY <2>1 DEF ReportIs
  <2>3. DOMAIN reported = 1..Len(reported)
    BY DEF Inv, TypeOK
  <2> QED
    BY <2>1, <2>2, <2>3 DEF FollowedIs
<1> QED
  BY <1>1, <1>2, InvAlways, AgreeStep, PTL DEF Spec
=============================================================================
