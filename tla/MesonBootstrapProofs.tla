------------------------ MODULE MesonBootstrapProofs ------------------------
(***************************************************************************)
(* Proofs about the Meson bootstrap, for any number of variants, killed    *)
(* processes and initial trees, and whether or not the variants take       *)
(* turns: the types, what Meson may find in a file, and that foreign files *)
(* are kept.  MesonSeesPatches is inductive relative to the types, whose   *)
(* telling part is that a process about to write holds a patched text.     *)
(* For variants that take turns, TurnsInv adds that one process works and  *)
(* which files it may open, EmptyAttributed whose the empty files are:     *)
(* from these follow what Meson finds and why a file is refused.           *)
(***************************************************************************)
EXTENDS MesonBootstrap, TLAPS

-----------------------------------------------------------------------------
(* The files and the texts. *)

\* There are four files.
LEMMA FilesAre == Files = {"detect", "linkers", "vsenv", "glcpp"}
  BY DEF Files, Hunks

\* Each file has a hunk that is checked.
LEMMA SomeChecked == \A f \in Files : Checked(f) # {} /\ Checked(f) \subseteq Hunks[f]
<1>1. Hunks.detect = {"win", "nix"} /\ Hunks.linkers = {"probe", "method"}
      /\ Hunks.vsenv = {"clangcl"} /\ Hunks.glcpp = {"newlines"}
  BY DEF Hunks
<1>2. "win" \in Checked("detect") /\ "probe" \in Checked("linkers")
      /\ "clangcl" \in Checked("vsenv") /\ "newlines" \in Checked("glcpp")
  BY <1>1 DEF Checked
<1> QED
  BY <1>2, FilesAre DEF Checked

\* What a process prepares from a text that fits is a text of the file with
\* every patch in it.
LEMMA ApplyPatches ==
  ASSUME NEW f \in Files, NEW t \in Texts(f), Fits(f, t)
  PROVE  Apply(f, t) \in Texts(f) /\ Patched(f, Apply(f, t))
<1>1. \A h \in Checked(f) : h \in Hunks[f]
  BY SomeChecked
<1>2. \A h \in Hunks[f] : t[h] \in HunkStates /\ t[h] # "absent"
  <2>1. \E h \in Checked(f) : t[h] # "absent"
    BY SomeChecked DEF Fits
  <2>2. t # Empty(f)
    BY <1>1, <2>1 DEF Empty
  <2> QED
    BY <2>2 DEF Texts
<1> DEFINE New(h) == CASE h \in Checked(f) -> "patched"
                       [] h = "method" /\ t[h] = "previous" -> "upstream"
                       [] OTHER -> t[h]
<1>3. ASSUME NEW h \in Hunks[f] PROVE New(h) \in HunkStates \ {"absent"}
  <2>1. CASE h \in Checked(f)
    BY <2>1 DEF HunkStates, Checked
  <2>2. CASE h \notin Checked(f)
    BY <2>2, <1>2 DEF HunkStates
  <2> QED
    BY <2>1, <2>2
<1>4. ASSUME NEW h \in Checked(f) PROVE New(h) = "patched"
  BY <1>4 DEF Checked
<1>5. Apply(f, t) = [h \in Hunks[f] |-> New(h)]
  BY DEF Apply
<1> HIDE DEF New
<1>6. Patched(f, Apply(f, t))
  BY <1>1, <1>4, <1>5 DEF Patched
<1>7. Apply(f, t) \in Texts(f)
  BY <1>1, <1>3, <1>4, <1>5 DEF Texts
<1> QED
  BY <1>6, <1>7

LEMMA EmptyIsText == \A f \in Files : Empty(f) \in Texts(f)
  BY SomeChecked DEF Empty, Texts, HunkStates

LEMMA UpstreamIsText == \A f \in Files : Upstream(f) \in Texts(f)
  BY SomeChecked DEF Upstream, Texts, HunkStates

-----------------------------------------------------------------------------
(* Types. *)

PcStates == {"idle", "tools", "read", "open", "write", "meson", "exit"}

\* What TypeOK says about the process of one variant.
ProcessOK(r) ==
  /\ pc[r] \in {"read", "open", "write"} <=> at[r] # "none"
  /\ pc[r] \in {"open", "write"} =>
       text[r] \in Texts(at[r]) /\ Patched(at[r], text[r])
  /\ Active(r) => step[r] \in Steps

\* The types hold initially.
LEMMA TypesInit == Init => TypeOK
<1> SUFFICES ASSUME Init PROVE TypeOK
  OBVIOUS
<1>1. DOMAIN disk = Files /\ \A f \in Files : disk[f] \in Texts(f)
  BY WorkspacesAssumption DEF Init
<1>2. torn \subseteq Files /\ tools \subseteq Required /\ DOMAIN text = Runs
  BY DEF Init
<1>3. kills \in 0..MaxKills /\ extracts \in 0..MaxExtracts
  BY BoundsAssumption DEF Init
<1>4. /\ step \in [Runs -> Steps \cup {"done"}]
      /\ pc \in [Runs -> PcStates]
      /\ at \in [Runs -> Files \cup {"none"}]
  BY DEF Init, Steps, PcStates
<1>5. \A r \in Runs : ProcessOK(r)
  BY DEF Init, ProcessOK, Active, Steps
<1> QED
  BY <1>1, <1>2, <1>3, <1>4, <1>5 DEF TypeOK, ProcessOK, PcStates

\* A process that moves is the only one that does.
LEMMA MovedFacts ==
  ASSUME TypeOK, NEW r \in Runs, NEW where \in PcStates,
         NEW f \in Files \cup {"none"}, Moved(r, where, f)
  PROVE  /\ pc' \in [Runs -> PcStates]
         /\ at' \in [Runs -> Files \cup {"none"}]
         /\ pc'[r] = where /\ at'[r] = f
         /\ \A q \in Runs \ {r} : pc'[q] = pc[q] /\ at'[q] = at[q]
<1>1. pc \in [Runs -> PcStates] /\ at \in [Runs -> Files \cup {"none"}]
  BY DEF TypeOK, PcStates
<1> QED
  BY <1>1 DEF Moved

\* After a file comes the next file or Meson.
LEMMA AdvanceFacts ==
  ASSUME TypeOK, NEW r \in Runs, Advance(r)
  PROVE  /\ pc' \in [Runs -> PcStates]
         /\ at' \in [Runs -> Files \cup {"none"}]
         /\ at'[r] = Following(r, at[r])
         /\ pc'[r] = IF at'[r] = "none" THEN "meson" ELSE "read"
         /\ \A q \in Runs \ {r} : pc'[q] = pc[q] /\ at'[q] = at[q]
<1> DEFINE f == Following(r, at[r])
           where == IF f = "none" THEN "meson" ELSE "read"
<1>1. f \in Files \cup {"none"}
  BY FilesAre DEF Following
<1>2. where \in PcStates
  BY DEF PcStates
<1>3. Moved(r, where, f)
  BY DEF Advance
<1> HIDE DEF f, where
<1>4. /\ pc' \in [Runs -> PcStates]
      /\ at' \in [Runs -> Files \cup {"none"}]
      /\ pc'[r] = where /\ at'[r] = f
      /\ \A q \in Runs \ {r} : pc'[q] = pc[q] /\ at'[q] = at[q]
  BY <1>1, <1>2, <1>3, MovedFacts
<1> QED
  BY <1>4 DEF f, where

\* Types survive a step of process r if its own part does, and the parts that
\* a step of a process leaves alone are left alone.
LEMMA TypesByProcess ==
  ASSUME TypeOK, NEW r \in Runs,
         DOMAIN disk' = Files, \A f \in Files : disk'[f] \in Texts(f),
         torn' \subseteq Files, tools' \subseteq Required,
         step' \in [Runs -> Steps \cup {"done"}],
         pc' \in [Runs -> PcStates], at' \in [Runs -> Files \cup {"none"}],
         DOMAIN text' = Runs,
         kills' \in 0..MaxKills, extracts' \in 0..MaxExtracts,
         \A q \in Runs \ {r} : /\ pc'[q] = pc[q] /\ at'[q] = at[q]
                                /\ text'[q] = text[q] /\ step'[q] = step[q],
         ProcessOK(r)'
  PROVE  TypeOK'
<1>1. \A q \in Runs : ProcessOK(q)
  BY DEF TypeOK, ProcessOK
<1>2. \A q \in Runs \ {r} : ProcessOK(q)'
  BY <1>1 DEF ProcessOK, Active
<1>3. \A q \in Runs : ProcessOK(q)'
  BY <1>2
<1> QED
  BY <1>3 DEF TypeOK, ProcessOK, PcStates

\* What the parts of the state are worth, one by one.
LEMMA TypesGive ==
  ASSUME TypeOK
  PROVE  /\ DOMAIN disk = Files /\ \A f \in Files : disk[f] \in Texts(f)
         /\ torn \subseteq Files /\ tools \subseteq Required
         /\ step \in [Runs -> Steps \cup {"done"}]
         /\ pc \in [Runs -> PcStates] /\ at \in [Runs -> Files \cup {"none"}]
         /\ DOMAIN text = Runs
         /\ kills \in 0..MaxKills /\ extracts \in 0..MaxExtracts
         /\ \A r \in Runs : ProcessOK(r)
BY DEF TypeOK, ProcessOK, PcStates

\* A process busy with a file stands at one.
LEMMA BusyAtFile ==
  ASSUME TypeOK, NEW r \in Runs, pc[r] \in {"read", "open", "write"}
  PROVE  /\ at[r] \in Files /\ Active(r) /\ step[r] \in Steps
         /\ disk[at[r]] \in Texts(at[r])
         /\ pc[r] \in {"open", "write"} =>
              text[r] \in Texts(at[r]) /\ Patched(at[r], text[r])
<1>1. ProcessOK(r) /\ at[r] \in Files \cup {"none"}
  BY TypesGive
<1>2. Active(r)
  BY DEF Active
<1>3. at[r] \in Files /\ step[r] \in Steps
  BY <1>1, <1>2 DEF ProcessOK
<1> QED
  BY <1>1, <1>2, <1>3, TypesGive DEF ProcessOK

\* Every step keeps the types.
LEMMA TypesNext == TypeOK /\ [Next]_vars => TypeOK'
<1> SUFFICES ASSUME TypeOK, [Next]_vars PROVE TypeOK'
  OBVIOUS
<1> USE TypesGive
<1>1. ASSUME NEW r \in Runs, Start(r) PROVE TypeOK'
  <2>1. Moved(r, "tools", "none") /\ step[r] \in Steps
    BY <1>1 DEF Start
  <2>2. /\ pc' \in [Runs -> PcStates] /\ at' \in [Runs -> Files \cup {"none"}]
        /\ pc'[r] = "tools" /\ at'[r] = "none"
        /\ \A q \in Runs \ {r} : pc'[q] = pc[q] /\ at'[q] = at[q]
    BY <2>1, MovedFacts DEF PcStates
  <2>3. UNCHANGED <<disk, torn, tools, step, text, kills, extracts>>
    BY <1>1 DEF Start
  <2>4. ProcessOK(r)'
    BY <2>1, <2>2, <2>3 DEF ProcessOK
  <2> QED
    BY <2>2, <2>3, <2>4, TypesByProcess
<1>2. ASSUME NEW r \in Runs, ExposeTools(r) PROVE TypeOK'
  <2>1. pc[r] = "tools" /\ Active(r) /\ step[r] \in Steps
    BY <1>2 DEF ExposeTools, Active, ProcessOK
  <2>2. PICK w \in {"exit", "read", "meson"}, f \in {"none", "detect"} :
          Moved(r, w, f) /\ (w = "read" <=> f = "detect")
    BY <1>2 DEF ExposeTools
  <2>3. /\ pc' \in [Runs -> PcStates] /\ at' \in [Runs -> Files \cup {"none"}]
        /\ pc'[r] = w /\ at'[r] = f
        /\ \A q \in Runs \ {r} : pc'[q] = pc[q] /\ at'[q] = at[q]
    BY <2>2, MovedFacts, FilesAre DEF PcStates
  <2>4. UNCHANGED <<disk, torn, tools, step, text, kills, extracts>>
    BY <1>2 DEF ExposeTools
  <2>5. ProcessOK(r)'
    BY <2>1, <2>2, <2>3, <2>4 DEF ProcessOK
  <2> QED
    BY <2>3, <2>4, <2>5, TypesByProcess
<1>3. ASSUME NEW r \in Runs, Refuse(r) PROVE TypeOK'
  <2>1. /\ pc' \in [Runs -> PcStates] /\ at' \in [Runs -> Files \cup {"none"}]
        /\ pc'[r] = "exit" /\ at'[r] = "none"
        /\ \A q \in Runs \ {r} : pc'[q] = pc[q] /\ at'[q] = at[q]
    BY <1>3, MovedFacts DEF Refuse, PcStates
  <2>2. UNCHANGED <<disk, torn, tools, step, text, kills, extracts>>
    BY <1>3 DEF Refuse
  <2>3. ProcessOK(r)'
    BY <2>1, <2>2 DEF ProcessOK, Active
  <2> QED
    BY <2>1, <2>2, <2>3, TypesByProcess
<1>4. ASSUME NEW r \in Runs, Skip(r) PROVE TypeOK'
  <2>1. pc[r] = "read" /\ Advance(r) /\ step[r] \in Steps
    BY <1>4, BusyAtFile DEF Skip
  <2>2. UNCHANGED <<disk, torn, tools, step, text, kills, extracts>>
    BY <1>4 DEF Skip
  <2>3. ProcessOK(r)'
    BY <2>1, <2>2, AdvanceFacts DEF ProcessOK
  <2> QED
    BY <2>1, <2>2, <2>3, AdvanceFacts, TypesByProcess
<1>5. ASSUME NEW r \in Runs, Read(r) PROVE TypeOK'
  <2>1. pc[r] = "read" /\ Moved(r, "open", at[r])
    BY <1>5 DEF Read
  <2>2. at[r] \in Files /\ step[r] \in Steps /\ disk[at[r]] \in Texts(at[r])
    BY <2>1, BusyAtFile
  <2>3. /\ pc' \in [Runs -> PcStates] /\ at' \in [Runs -> Files \cup {"none"}]
        /\ pc'[r] = "open" /\ at'[r] = at[r]
        /\ \A q \in Runs \ {r} : pc'[q] = pc[q] /\ at'[q] = at[q]
    BY <2>1, <2>2, MovedFacts DEF PcStates
  <2>4. UNCHANGED <<disk, torn, tools, step, kills, extracts>>
    BY <1>5 DEF Read
  <2>5. /\ text' = [text EXCEPT ![r] = Apply(at[r], disk[at[r]])]
        /\ DOMAIN text' = Runs
        /\ \A q \in Runs \ {r} : text'[q] = text[q]
    BY <1>5 DEF Read
  <2>6. text'[r] \in Texts(at[r]) /\ Patched(at[r], text'[r])
    BY <1>5, <2>2, <2>5, ApplyPatches DEF Read
  <2>7. at[r] # "none"
    BY <2>2, FilesAre
  <2>8. ProcessOK(r)'
    BY <2>2, <2>3, <2>4, <2>6, <2>7 DEF ProcessOK, Patched, Texts
  <2> QED
    BY <2>3, <2>4, <2>5, <2>8, TypesByProcess
<1>6. ASSUME NEW r \in Runs, Open(r) PROVE TypeOK'
  <2>1. pc[r] = "open" /\ Moved(r, "write", at[r])
    BY <1>6 DEF Open
  <2>2. at[r] \in Files /\ step[r] \in Steps
    BY <2>1, BusyAtFile
  <2>3. /\ pc' \in [Runs -> PcStates] /\ at' \in [Runs -> Files \cup {"none"}]
        /\ pc'[r] = "write" /\ at'[r] = at[r]
        /\ \A q \in Runs \ {r} : pc'[q] = pc[q] /\ at'[q] = at[q]
    BY <2>1, <2>2, MovedFacts DEF PcStates
  <2>4. UNCHANGED <<torn, tools, step, text, kills, extracts>>
    BY <1>6 DEF Open
  <2>5. DOMAIN disk' = Files /\ \A f \in Files : disk'[f] \in Texts(f)
    BY <1>6, <2>2, EmptyIsText DEF Open
  <2>6. text[r] \in Texts(at[r]) /\ Patched(at[r], text[r]) /\ at[r] # "none"
    BY <2>1, <2>2, BusyAtFile, FilesAre
  <2>7. ProcessOK(r)'
    BY <2>2, <2>3, <2>4, <2>6 DEF ProcessOK, Patched, Texts
  <2> QED
    BY <2>3, <2>4, <2>5, <2>7, TypesByProcess
<1>7. ASSUME NEW r \in Runs, Write(r) PROVE TypeOK'
  <2>1. pc[r] = "write" /\ Advance(r)
    BY <1>7 DEF Write
  <2>2. at[r] \in Files /\ step[r] \in Steps /\ text[r] \in Texts(at[r])
    BY <2>1, BusyAtFile
  <2>3. UNCHANGED <<tools, step, text, kills, extracts>>
    BY <1>7 DEF Write
  <2>4. DOMAIN disk' = Files /\ \A f \in Files : disk'[f] \in Texts(f)
    BY <1>7, <2>2 DEF Write
  <2>5. torn' \subseteq Files
    BY <1>7 DEF Write
  <2>6. ProcessOK(r)'
    BY <2>1, <2>2, <2>3, AdvanceFacts DEF ProcessOK
  <2> QED
    BY <2>1, <2>3, <2>4, <2>5, <2>6, AdvanceFacts, TypesByProcess
<1>8. ASSUME NEW r \in Runs, Meson(r) PROVE TypeOK'
  <2>1. pc[r] = "meson" /\ Moved(r, "idle", "none") /\ step[r] \in Steps
    BY <1>8 DEF Meson, ProcessOK, Active
  <2>2. /\ pc' \in [Runs -> PcStates] /\ at' \in [Runs -> Files \cup {"none"}]
        /\ pc'[r] = "idle" /\ at'[r] = "none"
        /\ \A q \in Runs \ {r} : pc'[q] = pc[q] /\ at'[q] = at[q]
    BY <2>1, MovedFacts DEF PcStates
  <2>3. UNCHANGED <<disk, torn, tools, text, kills, extracts>>
    BY <1>8 DEF Meson
  <2>4. FollowingStep[step[r]] \in Steps \cup {"done"}
    BY <2>1 DEF FollowingStep, Steps
  <2>5. /\ step' \in [Runs -> Steps \cup {"done"}]
        /\ \A q \in Runs \ {r} : step'[q] = step[q]
    BY <1>8, <2>4 DEF Meson
  <2>6. ProcessOK(r)'
    BY <2>2 DEF ProcessOK, Active
  <2> QED
    BY <2>2, <2>3, <2>5, <2>6, TypesByProcess
<1>9. ASSUME NEW r \in Runs, Retry(r) PROVE TypeOK'
  <2>1. /\ pc' \in [Runs -> PcStates] /\ at' \in [Runs -> Files \cup {"none"}]
        /\ pc'[r] = "idle" /\ at'[r] = "none"
        /\ \A q \in Runs \ {r} : pc'[q] = pc[q] /\ at'[q] = at[q]
    BY <1>9, MovedFacts DEF Retry, PcStates
  <2>2. UNCHANGED <<disk, torn, tools, text, kills, extracts>>
    BY <1>9 DEF Retry
  <2>3. /\ step' \in [Runs -> Steps \cup {"done"}]
        /\ \A q \in Runs \ {r} : step'[q] = step[q]
    BY <1>9 DEF Retry, Steps
  <2>4. ProcessOK(r)'
    BY <2>1 DEF ProcessOK, Active
  <2> QED
    BY <2>1, <2>2, <2>3, <2>4, TypesByProcess
<1>10. ASSUME NEW r \in Runs, Kill(r) PROVE TypeOK'
  <2>1. /\ pc' \in [Runs -> PcStates] /\ at' \in [Runs -> Files \cup {"none"}]
        /\ pc'[r] = "exit" /\ at'[r] = "none"
        /\ \A q \in Runs \ {r} : pc'[q] = pc[q] /\ at'[q] = at[q]
    BY <1>10, MovedFacts DEF Kill, PcStates
  <2>2. UNCHANGED <<disk, tools, step, text, extracts>>
    BY <1>10 DEF Kill
  <2>3. kills' \in 0..MaxKills
    BY <1>10, BoundsAssumption DEF Kill
  <2>4. torn' \subseteq Files
    BY <1>10, BusyAtFile DEF Kill
  <2>5. ProcessOK(r)'
    BY <2>1 DEF ProcessOK, Active
  <2> QED
    BY <2>1, <2>2, <2>3, <2>4, <2>5, TypesByProcess
<1>11. CASE Extract
  <2>1. /\ DOMAIN disk' = Files /\ \A f \in Files : disk'[f] \in Texts(f)
        /\ torn' \subseteq Files
    BY <1>11, UpstreamIsText DEF Extract
  <2>2. extracts' \in 0..MaxExtracts
    BY <1>11, BoundsAssumption DEF Extract
  <2>3. /\ step' \in [Runs -> Steps \cup {"done"}]
        /\ pc' \in [Runs -> PcStates] /\ at' \in [Runs -> Files \cup {"none"}]
    BY <1>11 DEF Extract, Steps, PcStates
  <2>4. \A r \in Runs : ProcessOK(r)'
    BY <1>11 DEF Extract, ProcessOK, Active
  <2>5. UNCHANGED <<tools, text, kills>>
    BY <1>11 DEF Extract
  <2> QED
    BY <2>1, <2>2, <2>3, <2>4, <2>5 DEF TypeOK, ProcessOK, PcStates
<1>12. CASE RegisterTools
  <2>1. tools' \subseteq Required
    BY <1>12 DEF RegisterTools
  <2>2. UNCHANGED <<disk, torn, step, pc, at, text, kills, extracts>>
    BY <1>12 DEF RegisterTools
  <2> QED
    BY <2>1, <2>2 DEF TypeOK, Active
<1>13. CASE UNCHANGED vars
  BY <1>13 DEF vars, TypeOK, Active
<1> QED
  BY <1>1, <1>2, <1>3, <1>4, <1>5, <1>6, <1>7, <1>8, <1>9, <1>10, <1>11,
     <1>12, <1>13 DEF Next, Step, Bootstrap

\* No behaviour of the bootstrap leaves the types, and whatever a process is
\* about to write is a complete text of its file with every patch in it
\* (patch_* functions: the text is replaced before the file is opened).
THEOREM MesonTypes == Spec => []TypeOK
<1>1. Init => TypeOK
  BY TypesInit
<1>2. TypeOK /\ [Next]_vars => TypeOK'
  BY TypesNext
<1> QED
  BY <1>1, <1>2, PTL DEF Spec

-----------------------------------------------------------------------------
(* What Meson finds. *)

Safe(f) == Patched(f, disk[f]) \/ Interrupted(f)

\* The steps that write no file, and end no process that is writing one.
LEMMA QuietKeepsSafe ==
  ASSUME NEW f \in Files, Safe(f), disk' = disk, torn' = torn,
         \A q \in Runs : pc[q] = "write" => pc'[q] = "write" /\ at'[q] = at[q]
  PROVE  Safe(f)'
BY DEF Safe, Interrupted, Patched, Checked, Empty

\* Opening a file leaves it interrupted by the process that opened it.
LEMMA OpenKeepsSafe ==
  ASSUME TypeOK, NEW r \in Runs, Open(r), NEW f \in Files, Safe(f)
  PROVE  Safe(f)'
<1>1. /\ at[r] \in Files /\ pc'[r] = "write" /\ at'[r] = at[r] /\ torn' = torn
      /\ \A q \in Runs \ {r} : pc'[q] = pc[q] /\ at'[q] = at[q]
  BY BusyAtFile, MovedFacts DEF Open, PcStates
<1>2. disk' = [disk EXCEPT ![at[r]] = Empty(at[r])] /\ pc[r] = "open"
  BY DEF Open
<1>3. CASE f = at[r]
  <2>1. disk'[f] = Empty(f)
    BY <1>2, <1>3, TypesGive
  <2> QED
    BY <1>1, <1>3, <2>1 DEF Safe, Interrupted, Empty
<1>4. CASE f # at[r]
  <2>1. disk'[f] = disk[f]
    BY <1>2, <1>4, TypesGive
  <2>2. \A q \in Runs : pc[q] = "write" => pc'[q] = "write" /\ at'[q] = at[q]
    BY <1>1, <1>2
  <2> QED
    BY <1>1, <2>1, <2>2 DEF Safe, Interrupted, Patched, Checked, Empty
<1> QED
  BY <1>3, <1>4

\* A write completes one file and disturbs no other.
LEMMA WriteKeepsSafe ==
  ASSUME TypeOK, NEW r \in Runs, Write(r), NEW f \in Files,
         Safe(f) \/ f = at[r]
  PROVE  Safe(f)'
<1>1. /\ pc[r] = "write" /\ at[r] \in Files /\ Patched(at[r], text[r])
      /\ disk' = [disk EXCEPT ![at[r]] = text[r]]
      /\ torn' = torn \ {at[r]} /\ Advance(r)
  BY BusyAtFile DEF Write
<1>2. \A q \in Runs \ {r} : pc'[q] = pc[q] /\ at'[q] = at[q]
  BY <1>1, AdvanceFacts
<1>3. CASE f = at[r]
  <2>1. disk'[f] = text[r]
    BY <1>1, <1>3, TypesGive
  <2> QED
    BY <1>1, <1>3, <2>1 DEF Safe, Patched, Checked
<1>4. CASE f # at[r]
  <2>1. disk'[f] = disk[f] /\ (f \in torn => f \in torn')
    BY <1>1, <1>4, TypesGive
  <2>2. ASSUME NEW q \in Runs, pc[q] = "write", at[q] = f
        PROVE  pc'[q] = "write" /\ at'[q] = f
    BY <1>2, <1>4, <2>2
  <2> QED
    BY <1>4, <2>1, <2>2 DEF Safe, Interrupted, Patched, Checked, Empty
<1> QED
  BY <1>3, <1>4

\* A process killed while its file is empty leaves the file torn.
LEMMA KillKeepsSafe ==
  ASSUME TypeOK, NEW r \in Runs, Kill(r), NEW f \in Files, Safe(f)
  PROVE  Safe(f)'
<1>1. disk' = disk /\ torn \subseteq torn'
  BY DEF Kill
<1>2. \A q \in Runs \ {r} : pc'[q] = pc[q] /\ at'[q] = at[q]
  BY MovedFacts DEF Kill, PcStates
<1>3. CASE Patched(f, disk[f])
  BY <1>1, <1>3 DEF Safe, Patched, Checked
<1>4. CASE Interrupted(f) /\ pc[r] = "write" /\ at[r] = f
  <2>1. disk[f] = Empty(f)
    BY <1>4 DEF Interrupted
  <2>2. torn' = torn \cup {f}
    BY <1>4, <2>1 DEF Kill
  <2> QED
    BY <1>1, <2>1, <2>2 DEF Safe, Interrupted, Empty
<1>5. CASE Interrupted(f) /\ ~(pc[r] = "write" /\ at[r] = f)
  <2>1. ASSUME NEW q \in Runs, pc[q] = "write", at[q] = f
        PROVE  pc'[q] = "write" /\ at'[q] = f
    BY <1>2, <1>5, <2>1
  <2> QED
    BY <1>1, <1>5, <2>1 DEF Safe, Interrupted, Empty
<1> QED
  BY <1>3, <1>4, <1>5 DEF Safe

\* A safe file stays safe, except that an extraction starts all over.
LEMMA SafeStays ==
  ASSUME TypeOK, [Next]_vars, ~Extract, NEW f \in Files, Safe(f)
  PROVE  Safe(f)'
<1> DEFINE Quiet ==
      /\ disk' = disk /\ torn' = torn
      /\ \A q \in Runs : pc[q] = "write" => pc'[q] = "write" /\ at'[q] = at[q]
<1> USE TypesGive
<1>1. ASSUME NEW r \in Runs, Start(r) PROVE Quiet
  BY <1>1, MovedFacts DEF Start, PcStates
<1>2. ASSUME NEW r \in Runs, ExposeTools(r) PROVE Quiet
  BY <1>2, MovedFacts, FilesAre DEF ExposeTools, PcStates
<1>3. ASSUME NEW r \in Runs, Refuse(r) PROVE Quiet
  BY <1>3, MovedFacts DEF Refuse, PcStates
<1>4. ASSUME NEW r \in Runs, Skip(r) PROVE Quiet
  BY <1>4, AdvanceFacts DEF Skip
<1>5. ASSUME NEW r \in Runs, Read(r) PROVE Quiet
  <2>1. pc[r] = "read" /\ Moved(r, "open", at[r]) /\ disk' = disk /\ torn' = torn
    BY <1>5 DEF Read
  <2>2. at[r] \in Files \cup {"none"} /\ "open" \in PcStates
    BY DEF PcStates
  <2>3. \A q \in Runs \ {r} : pc'[q] = pc[q] /\ at'[q] = at[q]
    BY <2>1, <2>2, MovedFacts
  <2> QED
    BY <2>1, <2>3
<1>6. ASSUME NEW r \in Runs, Meson(r) PROVE Quiet
  BY <1>6, MovedFacts DEF Meson, PcStates
<1>7. ASSUME NEW r \in Runs, Retry(r) PROVE Quiet
  BY <1>7, MovedFacts DEF Retry, PcStates
<1>8. ASSUME RegisterTools PROVE Quiet
  BY <1>8 DEF RegisterTools
<1>9. ASSUME UNCHANGED vars PROVE Quiet
  BY <1>9 DEF vars
<1>10. ASSUME Quiet PROVE Safe(f)'
  BY <1>10, QuietKeepsSafe
<1> HIDE DEF Quiet
<1> QED
  BY <1>1, <1>2, <1>3, <1>4, <1>5, <1>6, <1>7, <1>8, <1>9, <1>10,
     OpenKeepsSafe, WriteKeepsSafe, KillKeepsSafe DEF Next, Step, Bootstrap

\* A process leaves a file behind only when it has just found it patched or
\* has written it.
LEMMA PassedGrows ==
  ASSUME TypeOK, [Next]_vars, ~Extract, NEW r \in Bcc64x, NEW f \in Passed(r)'
  PROVE  \/ f \in Passed(r)
         \/ (Skip(r) \/ Write(r)) /\ f = at[r]
<1> USE TypesGive
<1>0. r \in Runs
  BY RunsAssumption
<1> DEFINE Same == pc'[r] = pc[r] /\ at'[r] = at[r] /\ step'[r] = step[r]
<1>1. ASSUME Same PROVE f \in Passed(r)
  BY <1>1 DEF Passed, Behind
<1>2. ASSUME step'[r] = step[r], at'[r] \in {"none", "detect", at[r]},
             pc'[r] # "meson", pc[r] # "meson" \/ at'[r] = "none"
      PROVE  f \in Passed(r)
  BY <1>2 DEF Passed, Behind
<1>3. ASSUME Start(r) PROVE f \in Passed(r)
  <2>1. pc'[r] = "tools" /\ at'[r] = "none" /\ step'[r] = step[r]
    BY <1>0, <1>3, MovedFacts DEF Start, PcStates
  <2> QED
    BY <1>2, <2>1
<1>4. ASSUME ExposeTools(r) PROVE f \in Passed(r)
  <2>1. Moved(r, "exit", "none") \/ Moved(r, "read", "detect")
    BY <1>4 DEF ExposeTools
  <2>2. /\ pc[r] = "tools" /\ step'[r] = step[r] /\ pc'[r] # "meson"
        /\ at'[r] \in {"none", "detect"}
    BY <1>0, <1>4, <2>1, MovedFacts, FilesAre DEF ExposeTools, PcStates
  <2> QED
    BY <1>2, <2>2
<1>5. ASSUME Refuse(r) \/ Kill(r) PROVE f \in Passed(r)
  <2>1. pc'[r] = "exit" /\ at'[r] = "none" /\ step'[r] = step[r]
    BY <1>0, <1>5, MovedFacts DEF Refuse, Kill, PcStates
  <2> QED
    BY <1>2, <2>1
<1>6. ASSUME Read(r) \/ Open(r) PROVE f \in Passed(r)
  <2>1. at[r] \in Files /\ pc[r] \in {"read", "open"}
    BY <1>0, <1>6, BusyAtFile DEF Read, Open
  <2>2. /\ pc'[r] \in {"open", "write"} /\ at'[r] = at[r] /\ step'[r] = step[r]
    BY <1>0, <1>6, <2>1, MovedFacts DEF Read, Open, PcStates
  <2> QED
    BY <1>2, <2>1, <2>2
<1>7. ASSUME Skip(r) \/ Write(r) PROVE f \in Passed(r) \/ f = at[r]
  <2>1. /\ at[r] \in Files /\ pc[r] \in {"read", "write"} /\ Advance(r)
        /\ step[r] \in Steps /\ step'[r] = step[r]
    BY <1>0, <1>7, BusyAtFile DEF Skip, Write
  <2>2. /\ at'[r] = Following(r, at[r])
        /\ pc'[r] = IF at'[r] = "none" THEN "meson" ELSE "read"
    BY <1>0, <2>1, AdvanceFacts
  <2>3. CASE at[r] = "detect"
    BY <2>1, <2>2, <2>3 DEF Following, Passed, Behind
  <2>4. CASE at[r] = "linkers"
    BY <2>1, <2>2, <2>4 DEF Following, Passed, Behind
  <2>5. CASE at[r] = "vsenv" /\ Mesa /\ step[r] = "setup"
    BY <2>1, <2>2, <2>5 DEF Following, Passed, Behind
  <2>6. CASE at[r] = "vsenv" /\ ~(Mesa /\ step[r] = "setup")
    BY <2>1, <2>2, <2>6 DEF Following, Passed, Behind, Steps
  <2>7. CASE at[r] = "glcpp"
    BY <2>1, <2>2, <2>7 DEF Following, Passed, Behind, Steps
  <2> QED
    BY <2>1, <2>3, <2>4, <2>5, <2>6, <2>7, FilesAre
<1>8. ASSUME Meson(r) PROVE f \in Passed(r)
  <2>1. pc[r] = "meson" /\ pc'[r] = "idle" /\ at'[r] = "none" /\ step[r] \in Steps
    BY <1>0, <1>8, MovedFacts DEF Meson, PcStates, ProcessOK, Active
  <2> QED
    BY <2>1 DEF Passed, Behind, Steps
<1>9. ASSUME Retry(r) PROVE f \in Passed(r)
  <2>1. pc'[r] = "idle" /\ at'[r] = "none" /\ step'[r] = "setup"
    BY <1>0, <1>9, MovedFacts DEF Retry, PcStates
  <2> QED
    BY <2>1 DEF Passed, Behind
<1>10. ASSUME NEW q \in Runs \ {r}, Start(q) \/ Bootstrap(q) \/ Retry(q) \/ Kill(q)
       PROVE  Same
  <2>1. pc'[r] = pc[r] /\ at'[r] = at[r]
    BY <1>0, <1>10 DEF Start, Bootstrap, Retry, Kill, ExposeTools, Refuse, Skip,
       Read, Open, Write, Meson, Advance, Moved
  <2>2. step'[r] = step[r]
    BY <1>0, <1>10 DEF Start, Bootstrap, Retry, Kill, ExposeTools, Refuse, Skip,
       Read, Open, Write, Meson
  <2> QED
    BY <2>1, <2>2
<1>11. ASSUME RegisterTools \/ UNCHANGED vars PROVE Same
  BY <1>11 DEF RegisterTools, vars
<1> HIDE DEF Same
<1> QED
  BY <1>0, <1>1, <1>3, <1>4, <1>5, <1>6, <1>7, <1>8, <1>9, <1>10, <1>11
     DEF Next, Step, Bootstrap

\* After an extraction no process has passed anything.
LEMMA NothingPassed ==
  ASSUME Extract, NEW r \in Runs
  PROVE  Passed(r)' = {}
BY DEF Extract, Passed, Behind

\* Whatever a process has checked, Meson finds patched or in the hands of a
\* process that is writing it, or was killed there (main: the patches come
\* before runpy.run_path; the texts written never lack a patch).
THEOREM MesonIsPatched == Spec => []MesonSeesPatches
<1>1. Init => MesonSeesPatches
  <2> SUFFICES ASSUME Init, NEW r \in Bcc64x PROVE Passed(r) = {}
    BY DEF MesonSeesPatches
  <2> QED
    BY RunsAssumption DEF Init, Passed, Behind
<1>2. TypeOK /\ MesonSeesPatches /\ [Next]_vars => MesonSeesPatches'
  <2> SUFFICES ASSUME TypeOK, MesonSeesPatches, [Next]_vars,
                      NEW r \in Bcc64x, NEW f \in Passed(r)'
               PROVE  Safe(f)'
    BY DEF MesonSeesPatches, Safe
  <2>1. r \in Runs
    BY RunsAssumption
  <2>2. f \in Files
    BY FilesAre DEF Passed, Behind
  <2>3. ~Extract
    BY <2>1, NothingPassed
  <2>4. CASE f \in Passed(r)
    BY <2>2, <2>3, <2>4, SafeStays DEF MesonSeesPatches, Safe
  <2>5. CASE Skip(r) /\ f = at[r]
    BY <2>2, <2>3, <2>5, SafeStays DEF Skip, Safe
  <2>6. CASE Write(r) /\ f = at[r]
    BY <2>1, <2>2, <2>6, WriteKeepsSafe
  <2> QED
    BY <2>3, <2>4, <2>5, <2>6, PassedGrows
<1> QED
  BY <1>1, <1>2, MesonTypes, PTL DEF Spec

-----------------------------------------------------------------------------
(* Foreign files. *)

\* Only a file with every context in place is ever opened.
NoForeignWriter ==
  \A r \in Runs : pc[r] \in {"open", "write"} => ~Foreign(at[r])

\* No step of the bootstrap makes a file foreign, and none writes one that is.
LEMMA ForeignStep ==
  ASSUME TypeOK, NoForeignWriter, [Next]_vars, ~Extract, NEW f \in Files
  PROVE  disk'[f] = disk[f] \/ (~Foreign(f) /\ ~Foreign(f)')
<1> USE TypesGive
<1>1. ASSUME NEW r \in Runs, Open(r) PROVE disk'[f] = disk[f] \/ (~Foreign(f) /\ ~Foreign(f)')
  <2>1. disk' = [disk EXCEPT ![at[r]] = Empty(at[r])] /\ ~Foreign(at[r])
    BY <1>1 DEF Open, NoForeignWriter
  <2>2. CASE f = at[r]
    BY <2>1, <2>2 DEF Foreign, Empty, Checked
  <2>3. CASE f # at[r]
    BY <2>1, <2>3
  <2> QED
    BY <2>2, <2>3
<1>2. ASSUME NEW r \in Runs, Write(r) PROVE disk'[f] = disk[f] \/ (~Foreign(f) /\ ~Foreign(f)')
  <2>1. /\ disk' = [disk EXCEPT ![at[r]] = text[r]] /\ ~Foreign(at[r])
        /\ Patched(at[r], text[r])
    BY <1>2, BusyAtFile DEF Write, NoForeignWriter
  <2>2. CASE f = at[r]
    BY <2>1, <2>2 DEF Foreign, Patched, Checked
  <2>3. CASE f # at[r]
    BY <2>1, <2>3
  <2> QED
    BY <2>2, <2>3
<1>3. ASSUME disk' = disk PROVE disk'[f] = disk[f]
  BY <1>3
<1> QED
  BY <1>1, <1>2, <1>3 DEF Next, Step, Bootstrap, Start, ExposeTools, Refuse, Skip, Read,
     Meson, Retry, Kill, RegisterTools, vars

\* The writers stay with files that fit.
LEMMA ForeignNext == TypeOK /\ NoForeignWriter /\ [Next]_vars => NoForeignWriter'
<1> SUFFICES ASSUME TypeOK, NoForeignWriter, [Next]_vars, NEW r \in Runs,
                    pc'[r] \in {"open", "write"}
             PROVE  ~Foreign(at[r])'
  BY DEF NoForeignWriter
<1>1. ~Extract
  BY DEF Extract
<1>2. CASE Read(r)
  <2>1. at[r] \in Files /\ at'[r] = at[r] /\ disk' = disk /\ Fits(at[r], disk[at[r]])
    BY <1>2, BusyAtFile, MovedFacts DEF Read, PcStates
  <2> QED
    BY <2>1 DEF Fits, Foreign, Checked
<1>3. CASE pc[r] \in {"open", "write"} /\ at'[r] = at[r]
  <2>1. at[r] \in Files /\ ~Foreign(at[r])
    BY <1>3, BusyAtFile DEF NoForeignWriter
  <2>2. disk'[at[r]] = disk[at[r]] \/ ~Foreign(at[r])'
    BY <1>1, <1>3, <2>1, ForeignStep DEF Foreign, Checked
  <2> QED
    BY <1>3, <2>1, <2>2 DEF Foreign, Checked
<1>4. Read(r) \/ (pc[r] \in {"open", "write"} /\ at'[r] = at[r])
  <2>1. ASSUME Start(r) \/ ExposeTools(r) \/ Refuse(r) \/ Meson(r) \/ Retry(r) \/ Kill(r)
        PROVE  FALSE
    BY <2>1, TypesGive DEF Start, ExposeTools, Refuse, Meson, Retry, Kill, Moved
  <2>2. ASSUME Skip(r) \/ Write(r) PROVE FALSE
    BY <2>2, AdvanceFacts DEF Skip, Write
  <2>3. ASSUME Open(r) PROVE pc[r] \in {"open", "write"} /\ at'[r] = at[r]
    BY <2>3, TypesGive DEF Open, Moved
  <2>4. ASSUME NEW q \in Runs \ {r}, Start(q) \/ Bootstrap(q) \/ Retry(q) \/ Kill(q)
        PROVE  pc'[r] = pc[r] /\ at'[r] = at[r]
    BY <2>4, TypesGive DEF Start, Bootstrap, Retry, Kill, ExposeTools, Refuse, Skip,
       Read, Open, Write, Meson, Advance, Moved
  <2>5. ASSUME RegisterTools \/ UNCHANGED vars PROVE pc'[r] = pc[r] /\ at'[r] = at[r]
    BY <2>5 DEF RegisterTools, vars
  <2> QED
    BY <1>1, <2>1, <2>2, <2>3, <2>4, <2>5 DEF Next, Step, Bootstrap
<1> QED
  BY <1>2, <1>3, <1>4

\* A file with a context that does not match is never written by the bootstrap
\* (the counts are checked before the first write of a file); what replaces it
\* is a new extraction.
THEOREM ForeignFilesAreKept == Spec => ForeignKept
<1>1. Init => NoForeignWriter
  BY DEF Init, NoForeignWriter
<1>2. Spec => []NoForeignWriter
  BY <1>1, ForeignNext, MesonTypes, PTL DEF Spec
<1> DEFINE Kept == \A f \in Files : Foreign(f) => disk'[f] = disk[f] \/ extracts' # extracts
<1>3. TypeOK /\ NoForeignWriter /\ [Next]_vars => [Kept]_vars
  <2> SUFFICES ASSUME TypeOK, NoForeignWriter, [Next]_vars PROVE Kept
    OBVIOUS
  <2>1. CASE Extract
    <3>1. extracts \in Nat /\ extracts' = extracts + 1
      BY <2>1, TypesGive, BoundsAssumption DEF Extract
    <3> QED
      BY <3>1
  <2>2. CASE ~Extract
    BY <2>2, ForeignStep
  <2> QED
    BY <2>1, <2>2
<1> HIDE DEF Kept
<1>4. Spec => [][Kept]_vars
  BY <1>2, <1>3, MesonTypes, PTL DEF Spec
<1> QED
  BY <1>4 DEF Kept, ForeignKept
-----------------------------------------------------------------------------
(* Variants that take turns. *)

\* At most one process is at work.
Alone == \A q, r \in Runs : Active(q) /\ Active(r) => q = r

\* What a process has checked is patched, without exception.
PassedIsPatched ==
  \A r \in Bcc64x : \A f \in Passed(r) : Patched(f, disk[f])

\* The files that a process opens are linkers.py and those that lack a patch.
WritersNeeded ==
  \A r \in Runs : pc[r] \in {"open", "write"} =>
    at[r] \in Rewritten \/ ~Patched(at[r], disk[at[r]])

\* The three need each other: an opened file loses its patches, which a process
\* may only see if it is another one or has checked the file before.
InTurns == Alone /\ PassedIsPatched /\ WritersNeeded

TurnsInv == ~parallel => InTurns

\* A step of one process leaves the others where they are.
LEMMA OthersRest ==
  ASSUME TypeOK, NEW r \in Runs, Start(r) \/ Bootstrap(r) \/ Retry(r) \/ Kill(r),
         NEW q \in Runs \ {r}
  PROVE  pc'[q] = pc[q] /\ at'[q] = at[q] /\ step'[q] = step[q]
<1>1. pc'[q] = pc[q] /\ at'[q] = at[q]
  BY TypesGive DEF Start, Bootstrap, Retry, Kill, ExposeTools, Refuse, Skip, Read,
     Open, Write, Meson, Advance, Moved
<1>2. step'[q] = step[q]
  BY TypesGive DEF Start, Bootstrap, Retry, Kill, ExposeTools, Refuse, Skip, Read,
     Open, Write, Meson
<1> QED
  BY <1>1, <1>2

\* Only Start sets a process to work.
LEMMA WorksOn ==
  ASSUME TypeOK, NEW r \in Runs, Bootstrap(r) \/ Retry(r) \/ Kill(r), Active(r)'
  PROVE  Active(r)
<1>1. CASE Bootstrap(r)
  BY <1>1 DEF Bootstrap, ExposeTools, Refuse, Skip, Read, Open, Write, Meson, Active
<1>2. CASE Kill(r)
  BY <1>2 DEF Kill
<1>3. CASE Retry(r)
  BY <1>3, TypesGive DEF Retry, Moved, Active
<1> QED
  BY <1>1, <1>2, <1>3

\* Only an opening and a write change a file of a tree that stays.
LEMMA WhoWrites ==
  ASSUME TypeOK, [Next]_vars, ~Extract, NEW f \in Files, disk'[f] # disk[f]
  PROVE  \E q \in Runs : (Open(q) \/ Write(q)) /\ f = at[q]
<1>1. PICK q \in Runs : Open(q) \/ Write(q)
  BY DEF Next, Step, Bootstrap, Start, ExposeTools, Refuse, Skip, Read, Meson,
     Retry, Kill, RegisterTools, vars
<1>2. f = at[q]
  BY <1>1, TypesGive DEF Open, Write
<1> QED
  BY <1>1, <1>2

\* What a write leaves is patched.
LEMMA WriteLeavesPatches ==
  ASSUME TypeOK, NEW r \in Runs, Write(r)
  PROVE  at[r] \in Files /\ Patched(at[r], disk'[at[r]])
<1>1. /\ at[r] \in Files /\ Patched(at[r], text[r])
      /\ disk' = [disk EXCEPT ![at[r]] = text[r]]
  BY BusyAtFile DEF Write
<1> QED
  BY <1>1, TypesGive

\* Nobody starts while another process is at work.
LEMMA AloneNext ==
  ASSUME TypeOK, ~parallel, Alone, [Next]_vars
  PROVE  Alone'
<1> SUFFICES ASSUME NEW q \in Runs, NEW r \in Runs, Active(q)', Active(r)'
             PROVE  q = r
  BY DEF Alone
<1>1. ASSUME NEW p \in Runs, Start(p) PROVE q = r
  <2>1. \A s \in Runs \ {p} : pc'[s] = pc[s]
    BY <1>1, OthersRest
  <2>2. \A s \in Runs : ~Active(s)
    BY <1>1 DEF Start, Resting
  <2>3. \A s \in Runs \ {p} : ~Active(s)'
    BY <2>1, <2>2 DEF Active
  <2> QED
    BY <2>3
<1>2. ASSUME NEW p \in Runs, Bootstrap(p) \/ Retry(p) \/ Kill(p) PROVE q = r
  <2>1. \A s \in Runs \ {p} : pc'[s] = pc[s]
    BY <1>2, OthersRest
  <2>2. ASSUME NEW s \in Runs, Active(s)' PROVE Active(s)
    BY <1>2, <2>1, <2>2, WorksOn DEF Active
  <2> QED
    BY <2>2 DEF Alone
<1>3. CASE Extract
  BY <1>3 DEF Extract, Active
<1>4. CASE RegisterTools \/ UNCHANGED vars
  BY <1>4 DEF RegisterTools, vars, Active, Alone
<1> QED
  BY <1>1, <1>2, <1>3, <1>4 DEF Next, Step

\* A process that works alone opens no file that anybody has checked.
LEMMA PassedNext ==
  ASSUME TypeOK, InTurns, [Next]_vars, NEW r \in Bcc64x, NEW f \in Passed(r)'
  PROVE  Patched(f, disk'[f])
<1>1. r \in Runs
  BY RunsAssumption
<1>2. ~Extract /\ f \in Files
  BY <1>1, NothingPassed, FilesAre DEF Passed, Behind
<1>3. CASE Skip(r) /\ f = at[r]
  BY <1>3 DEF Skip
<1>4. CASE Write(r) /\ f = at[r]
  BY <1>1, <1>4, WriteLeavesPatches
<1>5. CASE f \in Passed(r)
  <2>1. Patched(f, disk[f])
    BY <1>5 DEF InTurns, PassedIsPatched
  <2>2. CASE disk'[f] = disk[f]
    BY <2>1, <2>2
  <2>3. CASE disk'[f] # disk[f]
    <3>1. PICK q \in Runs : (Open(q) \/ Write(q)) /\ f = at[q]
      BY <1>2, <2>3, WhoWrites
    <3>2. CASE Write(q)
      BY <3>1, <3>2, WriteLeavesPatches
    <3>3. CASE Open(q)
      <4>1. pc[q] = "open" /\ f = "linkers"
        BY <2>1, <3>1, <3>3 DEF Open, InTurns, WritersNeeded, Rewritten
      <4>2. CASE q = r
        BY <1>5, <3>1, <4>1, <4>2 DEF Passed, Behind
      <4>3. CASE q # r
        <5>1. ~Active(r)
          BY <1>1, <4>1, <4>3 DEF InTurns, Alone, Active
        <5>2. pc[r] # "meson" /\ at[r] = "none"
          BY <1>1, <5>1, TypesGive DEF Active, ProcessOK
        <5> QED
          BY <1>5, <4>1, <5>2 DEF Passed, Behind
      <4> QED
        BY <4>2, <4>3
    <3> QED
      BY <3>1, <3>2, <3>3
  <2> QED
    BY <2>2, <2>3
<1> QED
  BY <1>2, <1>3, <1>4, <1>5, PassedGrows

\* A process opens a file for a patch that it lacks, and keeps it empty until
\* the write.
LEMMA WritersNext ==
  ASSUME TypeOK, InTurns, [Next]_vars, NEW r \in Runs, pc'[r] \in {"open", "write"}
  PROVE  at'[r] \in Rewritten \/ ~Patched(at'[r], disk'[at'[r]])
<1>1. CASE Read(r)
  <2>1. at[r] \in Files /\ disk' = disk /\ Moved(r, "open", at[r])
    BY <1>1, BusyAtFile DEF Read
  <2>2. at'[r] = at[r]
    BY <2>1, TypesGive DEF Moved
  <2> QED
    BY <1>1, <2>1, <2>2 DEF Read
<1>2. CASE Open(r)
  <2>1. at[r] \in Files /\ Moved(r, "write", at[r])
    BY <1>2, BusyAtFile DEF Open
  <2>2. at'[r] = at[r] /\ disk'[at[r]] = Empty(at[r])
    BY <1>2, <2>1, TypesGive DEF Moved, Open
  <2>3. ~Patched(at[r], Empty(at[r]))
    BY <2>1, SomeChecked DEF Patched, Empty
  <2> QED
    BY <2>2, <2>3
<1>3. CASE Skip(r) \/ Write(r)
  BY <1>3, AdvanceFacts DEF Skip, Write
<1>4. CASE Start(r) \/ ExposeTools(r) \/ Refuse(r) \/ Meson(r) \/ Retry(r) \/ Kill(r)
  BY <1>4, TypesGive DEF Start, ExposeTools, Refuse, Meson, Retry, Kill, Moved
<1>5. ASSUME pc'[r] = pc[r], at'[r] = at[r], ~Extract,
             \A q \in Runs : Open(q) \/ Write(q) => q # r
      PROVE  at'[r] \in Rewritten \/ ~Patched(at'[r], disk'[at'[r]])
  <2>1. at[r] \in Files /\ Active(r)
    BY <1>5, BusyAtFile
  <2>2. ASSUME NEW q \in Runs, Open(q) \/ Write(q) PROVE FALSE
    BY <1>5, <2>1, <2>2 DEF Open, Write, Active, InTurns, Alone
  <2>3. disk'[at[r]] = disk[at[r]]
    BY <1>5, <2>1, <2>2, WhoWrites
  <2> QED
    BY <1>5, <2>3 DEF InTurns, WritersNeeded
<1>6. ASSUME NEW p \in Runs \ {r}, Start(p) \/ Bootstrap(p) \/ Retry(p) \/ Kill(p)
      PROVE  at'[r] \in Rewritten \/ ~Patched(at'[r], disk'[at'[r]])
  <2>1. pc'[r] = pc[r] /\ at'[r] = at[r]
    BY <1>6, OthersRest
  <2>2. CASE Open(r) \/ Write(r)
    BY <1>2, <1>3, <2>2
  <2>3. CASE ~(Open(r) \/ Write(r)) /\ ~Extract
    BY <1>5, <2>1, <2>3
  <2>4. ~Extract
    BY DEF Extract
  <2> QED
    BY <2>2, <2>3, <2>4
<1>7. CASE RegisterTools \/ UNCHANGED vars
  <2>1. pc' = pc /\ at' = at /\ disk' = disk
    BY <1>7 DEF RegisterTools, vars
  <2> QED
    BY <2>1 DEF InTurns, WritersNeeded
<1>8. ~Extract
  BY DEF Extract
<1> QED
  BY <1>1, <1>2, <1>3, <1>4, <1>6, <1>7, <1>8 DEF Next, Step, Bootstrap

\* The order of turns is kept, with what it gives.
LEMMA TurnsKept == Spec => []TurnsInv
<1>1. Init => TurnsInv
  BY RunsAssumption DEF Init, TurnsInv, InTurns, Alone, PassedIsPatched, WritersNeeded,
     Active, Passed, Behind
<1>2. TypeOK /\ TurnsInv /\ [Next]_vars => TurnsInv'
  <2> SUFFICES ASSUME TypeOK, TurnsInv, [Next]_vars, ~parallel' PROVE InTurns'
    BY DEF TurnsInv
  <2>1. ~parallel /\ InTurns
    BY DEF Next, vars, TurnsInv
  <2>2. Alone'
    BY <2>1, AloneNext DEF InTurns
  <2>3. PassedIsPatched'
    BY <2>1, PassedNext DEF PassedIsPatched, Patched, Checked
  <2>4. WritersNeeded'
    BY <2>1, WritersNext DEF WritersNeeded, Patched, Checked
  <2> QED
    BY <2>2, <2>3, <2>4 DEF InTurns
<1> QED
  BY <1>1, <1>2, MesonTypes, PTL DEF Spec

\* When the variants take turns, Meson finds every file that was checked for it
\* with its patches (meson_bootstrap.py, main: the patches, then run_path): a
\* kill may leave a file empty, but never one that a process has passed.
THEOREM MesonFindsFiles == Spec => []MesonSeesFiles
<1>1. TurnsInv => MesonSeesFiles
  BY DEF TurnsInv, InTurns, PassedIsPatched, MesonSeesFiles
<1> QED
  BY <1>1, TurnsKept, PTL

\* An empty file is owed to a kill, or to a process that is writing it.
EmptyAttributed ==
  \A f \in Files : disk[f] = Empty(f) => Interrupted(f)

\* No text that a process or an extraction leaves behind is empty.
LEMMA NotEmpty ==
  \A f \in Files : ~Patched(f, Empty(f)) /\ Upstream(f) # Empty(f)
<1> SUFFICES ASSUME NEW f \in Files
             PROVE  ~Patched(f, Empty(f)) /\ Upstream(f) # Empty(f)
  OBVIOUS
<1>1. PICK h \in Checked(f) : h \in Hunks[f]
  BY SomeChecked
<1>2. Empty(f)[h] = "absent" /\ Upstream(f)[h] = "upstream"
  BY <1>1 DEF Empty, Upstream
<1> QED
  BY <1>1, <1>2 DEF Patched

\* An interrupted file stays interrupted until somebody writes it.
LEMMA EmptyNext == TypeOK /\ EmptyAttributed /\ [Next]_vars => EmptyAttributed'
<1> SUFFICES ASSUME TypeOK, EmptyAttributed, [Next]_vars, NEW f \in Files,
                    disk'[f] = Empty(f)
             PROVE  Interrupted(f)'
  BY DEF EmptyAttributed, Empty
<1>1. ~Extract
  BY NotEmpty DEF Extract
<1>2. CASE disk'[f] = disk[f]
  <2>1. Interrupted(f)
    BY <1>2 DEF EmptyAttributed
  <2>2. Safe(f)'
    BY <1>1, <2>1, SafeStays DEF Safe
  <2>3. ~Patched(f, disk'[f])
    BY NotEmpty
  <2> QED
    BY <2>2, <2>3 DEF Safe, Patched, Checked
<1>3. CASE disk'[f] # disk[f]
  <2>1. PICK q \in Runs : (Open(q) \/ Write(q)) /\ f = at[q]
    BY <1>1, <1>3, WhoWrites
  <2>2. ~Write(q)
    BY <2>1, WriteLeavesPatches, NotEmpty
  <2>3. Moved(q, "write", f)
    BY <2>1, <2>2 DEF Open
  <2>4. pc'[q] = "write" /\ at'[q] = f
    BY <2>3, TypesGive DEF Moved
  <2> QED
    BY <2>4 DEF Interrupted, Empty
<1> QED
  BY <1>2, <1>3

\* A text that does not fit has a passage that was changed, or no passage.
LEMMA WhyRefused ==
  ASSUME NEW f \in Files, NEW t \in Texts(f), ~Fits(f, t)
  PROVE  t = Empty(f) \/ \E h \in Checked(f) : t[h] = "changed"
<1>1. PICK h \in Checked(f) : t[h] \notin {"upstream", "patched"}
  BY DEF Fits
<1>2. h \in Hunks[f] /\ t[h] \in HunkStates \ {"previous"}
  BY <1>1, SomeChecked DEF Texts
<1>3. CASE t[h] = "absent"
  BY <1>2, <1>3 DEF Texts
<1> QED
  BY <1>1, <1>2, <1>3 DEF HunkStates

\* Variants that take turns refuse a file only for a foreign passage or because
\* a kill emptied it (the counts in the patch_ functions, which raise SystemExit):
\* what an earlier attempt, an earlier step or the other variant wrote is accepted.
THEOREM RefusalsHaveCause == Spec => RefusedForCause
<1>1. Init => EmptyAttributed
  BY DEF Init, EmptyAttributed, Interrupted
<1>2. Spec => []EmptyAttributed
  BY <1>1, EmptyNext, MesonTypes, PTL DEF Spec
<1> DEFINE Cause ==
      \A r \in Runs : ~parallel /\ pc[r] = "read" /\ pc'[r] = "exit" =>
        Foreign(at[r]) \/ at[r] \in torn \/ kills' # kills
<1>3. TypeOK /\ TurnsInv /\ EmptyAttributed /\ [Next]_vars => [Cause]_vars
  <2> SUFFICES ASSUME TypeOK, TurnsInv, EmptyAttributed, [Next]_vars,
                      NEW r \in Runs, ~parallel, pc[r] = "read", pc'[r] = "exit"
               PROVE  Foreign(at[r]) \/ at[r] \in torn \/ kills' # kills
    OBVIOUS
  <2>1. Alone
    BY DEF TurnsInv, InTurns
  <2>2. at[r] \in Files /\ Active(r) /\ disk[at[r]] \in Texts(at[r])
    BY BusyAtFile
  <2>3. CASE Refuse(r)
    <3>1. CASE disk[at[r]] = Empty(at[r])
      <4>1. Interrupted(at[r])
        BY <2>2, <3>1 DEF EmptyAttributed
      <4>2. ASSUME NEW q \in Runs, pc[q] = "write" PROVE FALSE
        BY <2>1, <2>2, <4>2 DEF Alone, Active
      <4> QED
        BY <4>1, <4>2 DEF Interrupted
    <3>2. CASE disk[at[r]] # Empty(at[r])
      BY <2>2, <2>3, <3>2, WhyRefused DEF Refuse, Foreign
    <3> QED
      BY <3>1, <3>2
  <2>4. CASE Kill(r)
    BY <2>4, TypesGive, BoundsAssumption DEF Kill
  <2>5. ASSUME NEW q \in Runs \ {r}, Start(q) \/ Bootstrap(q) \/ Retry(q) \/ Kill(q)
        PROVE  FALSE
    BY <2>5, OthersRest
  <2>6. ASSUME Skip(r) \/ Write(r) PROVE FALSE
    BY <2>6, AdvanceFacts DEF Skip, Write
  <2>7. ASSUME Start(r) \/ ExposeTools(r) \/ Read(r) \/ Open(r) \/ Meson(r) \/ Retry(r)
        PROVE  FALSE
    BY <2>7, TypesGive DEF Start, ExposeTools, Read, Open, Meson, Retry, Moved
  <2>8. ~Extract /\ ~RegisterTools /\ ~UNCHANGED vars
    BY DEF Extract, RegisterTools, vars
  <2> QED
    BY <2>3, <2>4, <2>5, <2>6, <2>7, <2>8 DEF Next, Step, Bootstrap
<1> HIDE DEF Cause
<1>4. Spec => [][Cause]_vars
  BY <1>2, <1>3, MesonTypes, TurnsKept, PTL DEF Spec
<1> QED
  BY <1>4 DEF Cause, RefusedForCause
=============================================================================
