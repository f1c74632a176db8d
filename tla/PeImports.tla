----------------------------- MODULE PeImports -----------------------------
(***************************************************************************)
(* How RuntimeLoaderProbe.cpp reads the import table of one image: in      *)
(* ReportImports, before it loads a DLL, and again, by code of its own, in *)
(* ReportDependencyTree when Windows has refused the DLL.  Between the two *)
(* DiagnoseImage judges the section table.                                 *)
(*                                                                         *)
(* RVAs are DWORDs; offsets in the file are wider and do not wrap.  Of a   *)
(* section table that the end of the file cuts off the model holds the     *)
(* entries that are whole.                                                 *)
(***************************************************************************)
EXTENDS Integers, Sequences, FiniteSets, FiniteSetsExt

CONSTANTS
  MaxDword,       \* the largest DWORD, 2^32 - 1
  DescriptorSize, \* 20
  MaxDescriptors, \* 1024
  Images,         \* the files the probe may read
  Names           \* names of DLLs

VARIABLES
  image,      \* the file
  pc,         \* the function that runs
  u,          \* the index of the next descriptor
  reported,   \* the names that ReportImports prints
  suspicious, \* suspicious-section-count
  followed,   \* the names that ReportDependencyTree follows
  invalid     \* uInvalid

vars == <<image, pc, u, reported, suspicious, followed, invalid>>

-----------------------------------------------------------------------------
(* Files. *)

Dwords == 0..MaxDword

\* What is read as a name: a DLL, the empty string, something with a
\* separator, or bytes without a terminating zero.
Texts == Names \cup {"empty", "path", "open"}

Section == [va : Dwords, vsize : Dwords, raw : Dwords, size : Dwords]

\* pe: DOS header, NT header and PE32+; headers: SizeOfHeaders;
\* imageSize: SizeOfImage; table, tableSize: the import directory;
\* desc, text: the Name field of a descriptor, and the text, at an offset.
IsImage(f) ==
  /\ {f.pe, f.amd64} \subseteq BOOLEAN
  /\ f.length \in Nat
  /\ f.sections \in Seq(Section)
  /\ {f.headers, f.imageSize, f.table, f.tableSize} \subseteq Dwords
  /\ f.desc \in [0..f.length -> Dwords]
  /\ f.text \in [0..f.length -> Texts]

ASSUME ImagesAssumption == \A f \in Images : IsImage(f)
ASSUME DwordsAssumption == MaxDword \in Nat
ASSUME SizesAssumption == DescriptorSize \in Nat \ {0} /\ MaxDescriptors \in Nat
ASSUME NamesAssumption == {"empty", "path", "open"} \cap Names = {}

Wrapped(n) == n % (MaxDword + 1)

-----------------------------------------------------------------------------
(* From an RVA to an offset. *)

\* n bytes at offset p are in the file.
InFile(p, n) == p <= image.length /\ n <= image.length - p

\* n bytes at RVA r are in the raw data of section s.
InRaw(s, r, n) == s.va <= r /\ r - s.va <= s.size /\ n <= s.size - (r - s.va)

At(s, r) == s.raw + (r - s.va)

Hits(r, n) ==
  {i \in DOMAIN image.sections :
     InRaw(image.sections[i], r, n) /\ InFile(At(image.sections[i], r), n)}

\* rva of ReportImports and rawOffset of DiagnoseImage: the first section
\* that has the bytes; the length of the file is no offset.
Rva(r, n) ==
  IF Hits(r, n) = {} THEN image.length ELSE At(image.sections[Min(Hits(r, n))], r)

\* Plausible bug: an RVA is taken for an offset wherever the file is long enough.
ToOffsetRaw(r, n) == IF InFile(r, n) THEN r ELSE Rva(r, n)

\* ToOffset of ReportDependencyTree: the headers come first.
ToOffset(r, n) == IF r < image.headers /\ InFile(r, n) THEN r ELSE Rva(r, n)

-----------------------------------------------------------------------------
(* ReportImports. *)

\* Only 64-bit images are read.
Valid == image.pe /\ image.amd64

NoTable == ~Valid \/ image.table = 0 \/ image.tableSize = 0

Minimum(a, b) == IF a < b THEN a ELSE b

\* Plausible bug: only the directory limits the loop.
ReportLimitSize == image.tableSize \div DescriptorSize

\* The end of the loop over the descriptors.
ReportLimit == Minimum(image.tableSize \div DescriptorSize, MaxDescriptors)

ReportOffset(k) == Rva(Wrapped(image.table + k * DescriptorSize), DescriptorSize)

ReportEnd ==
  /\ pc = "report"
  /\ \/ NoTable
     \/ u >= ReportLimit
     \/ ~InFile(ReportOffset(u), DescriptorSize)
     \/ image.desc[ReportOffset(u)] = 0
  /\ pc' = "diagnose"
  /\ u' = 0
  /\ UNCHANGED <<image, reported, suspicious, followed, invalid>>

\* A name that is malformed or not terminated is passed over.
ReportEntry ==
  /\ pc = "report"
  /\ ~NoTable
  /\ u < ReportLimit
  /\ InFile(ReportOffset(u), DescriptorSize)
  /\ image.desc[ReportOffset(u)] # 0
  /\ LET name == Rva(image.desc[ReportOffset(u)], 1)
     IN  reported' = IF name < image.length /\ image.text[name] # "open"
                     THEN Append(reported, image.text[name]) ELSE reported
  /\ u' = u + 1
  /\ UNCHANGED <<image, pc, suspicious, followed, invalid>>

-----------------------------------------------------------------------------
(* DiagnoseImage. *)

\* Plausible bug: only the start of the raw data is looked at.
RawValidStart(s) == s.size = 0 \/ InFile(s.raw, 0)

RawValid(s) == s.size = 0 \/ InFile(s.raw, s.size)
RvaValid(s) == s.va <= image.imageSize /\ s.vsize <= image.imageSize - s.va

Diagnose ==
  /\ pc = "diagnose"
  /\ suspicious' = IF image.pe
                   THEN Cardinality({i \in DOMAIN image.sections :
                          ~RawValid(image.sections[i]) \/ ~RvaValid(image.sections[i])})
                   ELSE 0
  /\ pc' = "tree"
  /\ UNCHANGED <<image, u, reported, followed, invalid>>

-----------------------------------------------------------------------------
(* The loop of ReportDependencyTree. *)

TreeOffset(k) == ToOffset(image.table + k * DescriptorSize, DescriptorSize)

\* Another 1024 descriptors, or the end of the address space.
TreeExhausted == u >= MaxDescriptors \/ image.table + u * DescriptorSize \notin Dwords

\* The table is not in the file where it should go on.
Broken == ~NoTable /\ ~TreeExhausted /\ ~InFile(TreeOffset(u), DescriptorSize)

TreeEnd ==
  /\ pc = "tree"
  /\ \/ NoTable \/ TreeExhausted
     \/ ~InFile(TreeOffset(u), DescriptorSize)
     \/ image.desc[TreeOffset(u)] = 0
  /\ invalid' = IF ~Valid \/ Broken THEN invalid + 1 ELSE invalid
  /\ pc' = "end"
  /\ UNCHANGED <<image, u, reported, suspicious, followed>>

\* Plausible bug: a name that is no file name is passed over uncounted.
TreeEntryUncounted ==
  /\ pc = "tree"
  /\ ~NoTable /\ ~TreeExhausted
  /\ InFile(TreeOffset(u), DescriptorSize)
  /\ image.desc[TreeOffset(u)] # 0
  /\ LET name == ToOffset(image.desc[TreeOffset(u)], 1)
     IN  IF name < image.length /\ image.text[name] \in Names
         THEN followed' = Append(followed, image.text[name]) /\ invalid' = invalid
         ELSE /\ followed' = followed
              /\ invalid' = IF name < image.length /\ image.text[name] = "path"
                            THEN invalid ELSE invalid + 1
  /\ u' = u + 1
  /\ UNCHANGED <<image, pc, reported, suspicious>>

\* A name that is malformed, empty, a path or not terminated is counted.
TreeEntry ==
  /\ pc = "tree"
  /\ ~NoTable /\ ~TreeExhausted
  /\ InFile(TreeOffset(u), DescriptorSize)
  /\ image.desc[TreeOffset(u)] # 0
  /\ LET name == ToOffset(image.desc[TreeOffset(u)], 1)
     IN  IF name < image.length /\ image.text[name] \in Names
         THEN followed' = Append(followed, image.text[name]) /\ invalid' = invalid
         ELSE followed' = followed /\ invalid' = invalid + 1
  /\ u' = u + 1
  /\ UNCHANGED <<image, pc, reported, suspicious>>

-----------------------------------------------------------------------------
Init ==
  /\ image \in Images
  /\ pc = "report"
  /\ u = 0
  /\ reported = << >>
  /\ suspicious = 0
  /\ followed = << >>
  /\ invalid = 0

Next == ReportEntry \/ ReportEnd \/ Diagnose \/ TreeEntry \/ TreeEnd

Spec == Init /\ [][Next]_vars

-----------------------------------------------------------------------------
(* Properties. *)

\* Types.
TypeOK ==
  /\ image \in Images
  /\ pc \in {"report", "diagnose", "tree", "end"}
  /\ u \in 0..MaxDescriptors
  /\ reported \in Seq(Texts \ {"open"})
  /\ suspicious \in 0..Len(image.sections)
  /\ followed \in Seq(Names)
  /\ invalid \in 0..MaxDescriptors + 1

\* The verdict of DiagnoseImage on the sections is one on all reads: without a
\* suspicious section, every RVA in the raw data of a section, whichever one
\* of several that overlap, has an offset for both readers.
SoundSectionsResolve ==
  pc = "end" /\ image.pe /\ suspicious = 0 =>
    \A i \in DOMAIN image.sections, r \in Dwords, n \in 1..DescriptorSize :
      InRaw(image.sections[i], r, n) => /\ InFile(Rva(r, n), n)
                                        /\ InFile(ToOffset(r, n), n)

\* What linkers write: the sections lie behind the headers, and the table
\* ends with a null descriptor that the size of the directory includes. It is
\* descriptor k.
Ends(k) ==
  /\ \A j \in 0..k : /\ image.table + j * DescriptorSize \in Dwords
                     /\ InFile(ReportOffset(j), DescriptorSize)
  /\ \A j \in 0..k-1 : image.desc[ReportOffset(j)] >= image.headers
  /\ image.desc[ReportOffset(k)] = 0

Regular ==
  /\ Valid /\ ~NoTable
  /\ image.headers <= image.table
  /\ \E k \in 0..ReportLimit - 1 : Ends(k)

\* How many of the first k reported texts are names of DLLs.
DllsIn(k) == Cardinality({j \in 1..k : reported[j] \in Names})

\* The two readers agree: on a regular image the tree follows exactly the
\* names of DLLs that were reported before, in the same order.
ReadersAgree ==
  pc = "end" /\ Regular =>
    /\ Len(followed) = DllsIn(Len(reported))
    /\ \A k \in DOMAIN reported : reported[k] \in Names => followed[DllsIn(k)] = reported[k]

\* Nothing is dropped in silence: each descriptor that the tree has read is
\* followed or counted as invalid, and so is a table that breaks off.
NothingUncounted ==
  pc = "end" /\ Valid =>
    Len(followed) + invalid = u + (IF Broken THEN 1 ELSE 0)
=============================================================================
