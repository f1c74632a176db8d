--------------------------- MODULE MesonBootstrap ---------------------------
(***************************************************************************)
(* The Meson bootstrap of the OpenGL and libpq packages                    *)
(* (admin/programs/opengl/meson_bootstrap.py and                           *)
(* admin/programs/meson/bcc64x_bootstrap.py).                              *)
(*                                                                         *)
(* Every Meson step of a variant (setup, compile, test, install) starts a  *)
(* bootstrap process.  The process checks the tool registry, patches three *)
(* files of the shared Meson source tree (and, for the setup step, Mesa's  *)
(* test driver) and then runs Meson in the same interpreter.  The Debug    *)
(* and the Release variant share the tree, and nothing locks it.           *)
(*                                                                         *)
(* A file is a text, and a text is known here by the state of the passages *)
(* ("hunks") that the patches look for.  Path.write_text truncates the     *)
(* file when it opens it and delivers the new text in one write: between   *)
(* the two the file is empty, and a process killed there leaves it so.     *)
(***************************************************************************)
EXTENDS Naturals, FiniteSets

CONSTANTS
  Runs,        \* the variants, each building with its own processes
  Bcc64x,      \* the variants whose CC names bcc64x
  Mesa,        \* TRUE: the OpenGL bootstrap, which patches a file of Mesa too
  Schedulers,  \* TRUE among them: processes of two variants may run at the same time
  Workspaces,  \* the contents the tree may have when the model starts
  MaxKills,    \* bound: processes killed
  MaxExtracts  \* bound: fresh extractions of the source archives

VARIABLES
  disk,      \* the text of each file
  torn,      \* the files that a killed process left without their text
  tools,     \* the required tools that the registry describes correctly
  step,      \* the Meson step each variant has reached
  parallel,  \* whether the scheduler of this build runs variants at the same time
  pc,        \* where the bootstrap process of each variant stands
  at,        \* the file it is busy with
  text,      \* the text it is about to write
  kills, extracts

vars == <<disk, torn, tools, step, parallel, pc, at, text, kills, extracts>>

-----------------------------------------------------------------------------
(* The files and their hunks. *)

Hunks == [detect  |-> {"win", "nix"},
          linkers |-> {"probe", "method"},
          vsenv   |-> {"clangcl"},
          glcpp   |-> {"newlines"}]

Files == DOMAIN Hunks

Required == {"winflexbison", "pkg-config"}

Steps == {"setup", "compile", "test", "install"}

\* A hunk is as upstream ships it (its context occurs exactly once), patched,
\* left by the first compatibility attempt (the method only), changed so that
\* no context matches, or absent because the file is empty or missing.
HunkStates == {"upstream", "patched", "previous", "changed", "absent"}

Empty(f) == [h \in Hunks[f] |-> "absent"]
Upstream(f) == [h \in Hunks[f] |-> "upstream"]

\* The method of linkers.py is only migrated back, never checked.
Checked(f) == Hunks[f] \ {"method"}

\* The first attempt left its mark in the method alone, and a passage is absent
\* only together with all the others.
Texts(f) ==
  {t \in [Hunks[f] -> HunkStates] :
     /\ \A h \in Checked(f) : t[h] # "previous"
     /\ (\E h \in Hunks[f] : t[h] = "absent") => t = Empty(f)}

Patched(f, t) == \A h \in Checked(f) : t[h] = "patched"

\* Plausible bugs: one context that fits is enough; a file must be unpatched.
FitsFirst(f, t) == \E h \in Checked(f) : t[h] \in {"upstream", "patched"}
FitsUpstream(f, t) == \A h \in Checked(f) : t[h] = "upstream"

\* Every context that is not patched yet occurs exactly once.
Fits(f, t) == \A h \in Checked(f) : t[h] \in {"upstream", "patched"}

\* Plausible bug: the migrated text is written without the patches.
ApplyMigration(f, t) ==
  [h \in Hunks[f] |-> IF t[h] = "previous" THEN "upstream" ELSE t[h]]

\* Migrates the method and applies whatever is missing.
Apply(f, t) ==
  [h \in Hunks[f] |-> CASE h \in Checked(f) -> "patched"
                        [] h = "method" /\ t[h] = "previous" -> "upstream"
                        [] OTHER -> t[h]]

\* linkers.py is written on every run, the other files only when they change.
Rewritten == {"linkers"}

ASSUME RunsAssumption == Bcc64x \subseteq Runs
ASSUME SwitchAssumption == Mesa \in BOOLEAN /\ Schedulers \subseteq BOOLEAN
ASSUME WorkspacesAssumption ==
  \A w \in Workspaces : DOMAIN w = Files /\ \A f \in Files : w[f] \in Texts(f)
ASSUME BoundsAssumption == MaxKills \in Nat /\ MaxExtracts \in Nat

-----------------------------------------------------------------------------
(* One bootstrap process. *)

Active(r) == pc[r] \in {"tools", "read", "open", "write", "meson"}
Resting == \A r \in Runs : ~Active(r)

Moved(r, where, f) ==
  /\ pc' = [pc EXCEPT ![r] = where]
  /\ at' = [at EXCEPT ![r] = f]

\* The patch functions run in this order; the last one returns at once unless
\* the step is Mesa's setup.
Following(r, f) ==
  CASE f = "detect" -> "linkers"
    [] f = "linkers" -> "vsenv"
    [] f = "vsenv" /\ Mesa /\ step[r] = "setup" -> "glcpp"
    [] OTHER -> "none"

Advance(r) ==
  LET f == Following(r, at[r])
  IN  Moved(r, IF f = "none" THEN "meson" ELSE "read", f)

\* The next step of the variant starts a process.
Start(r) ==
  /\ pc[r] = "idle"
  /\ step[r] \in Steps
  /\ parallel \/ Resting
  /\ Moved(r, "tools", "none")
  /\ UNCHANGED <<disk, torn, tools, step, text, kills, extracts>>

\* The registry must describe every required tool; one that is missing ends
\* the process before any file is touched.
ExposeTools(r) ==
  /\ pc[r] = "tools"
  /\ IF tools # Required THEN Moved(r, "exit", "none")
     ELSE IF r \in Bcc64x THEN Moved(r, "read", "detect")
     ELSE Moved(r, "meson", "none")
  /\ UNCHANGED <<disk, torn, tools, step, text, kills, extracts>>

\* The file is missing, or a context does not match: SystemExit, unwritten.
Refuse(r) ==
  /\ pc[r] = "read"
  /\ ~Fits(at[r], disk[at[r]])
  /\ Moved(r, "exit", "none")
  /\ UNCHANGED <<disk, torn, tools, step, text, kills, extracts>>

\* Plausible bugs: one patched passage is taken for all of them; a text without
\* the contexts is taken for one that needs no patch.
SkipPartly(r) ==
  /\ pc[r] = "read"
  /\ at[r] \notin Rewritten
  /\ \E h \in Checked(at[r]) : disk[at[r]][h] = "patched"
  /\ Advance(r)
  /\ UNCHANGED <<disk, torn, tools, step, text, kills, extracts>>

SkipUnmatched(r) ==
  /\ pc[r] = "read"
  /\ \A h \in Checked(at[r]) : disk[at[r]][h] # "upstream"
  /\ Advance(r)
  /\ UNCHANGED <<disk, torn, tools, step, text, kills, extracts>>

\* Nothing to do for this file.
Skip(r) ==
  /\ pc[r] = "read"
  /\ at[r] \notin Rewritten
  /\ Patched(at[r], disk[at[r]])
  /\ Advance(r)
  /\ UNCHANGED <<disk, torn, tools, step, text, kills, extracts>>

\* The new text is computed from the text read here.
Read(r) ==
  /\ pc[r] = "read"
  /\ Fits(at[r], disk[at[r]])
  /\ at[r] \in Rewritten \/ ~Patched(at[r], disk[at[r]])
  /\ Moved(r, "open", at[r])
  /\ text' = [text EXCEPT ![r] = Apply(at[r], disk[at[r]])]
  /\ UNCHANGED <<disk, torn, tools, step, kills, extracts>>

\* write_text opens the file: whatever it holds by now is gone.
Open(r) ==
  /\ pc[r] = "open"
  /\ Moved(r, "write", at[r])
  /\ disk' = [disk EXCEPT ![at[r]] = Empty(at[r])]
  /\ UNCHANGED <<torn, tools, step, text, kills, extracts>>

\* The text arrives in one write and the file is closed.
Write(r) ==
  /\ pc[r] = "write"
  /\ disk' = [disk EXCEPT ![at[r]] = text[r]]
  /\ torn' = torn \ {at[r]}
  /\ Advance(r)
  /\ UNCHANGED <<tools, step, text, kills, extracts>>

\* Meson has done the step in the same interpreter.
FollowingStep == [setup |-> "compile", compile |-> "test",
                  test |-> "install", install |-> "done"]

Meson(r) ==
  /\ pc[r] = "meson"
  /\ Moved(r, "idle", "none")
  /\ step' = [step EXCEPT ![r] = FollowingStep[step[r]]]
  /\ UNCHANGED <<disk, torn, tools, text, kills, extracts>>

-----------------------------------------------------------------------------
(* Around the processes. *)

\* A failed variant starts over: its build directory is removed first.
Retry(r) ==
  /\ pc[r] = "exit"
  /\ Moved(r, "idle", "none")
  /\ step' = [step EXCEPT ![r] = "setup"]
  /\ UNCHANGED <<disk, torn, tools, text, kills, extracts>>

Kill(r) ==
  /\ Active(r)
  /\ kills < MaxKills
  /\ kills' = kills + 1
  /\ Moved(r, "exit", "none")
  /\ torn' = IF pc[r] = "write" /\ disk[at[r]] = Empty(at[r])
             THEN torn \cup {at[r]} ELSE torn
  /\ UNCHANGED <<disk, tools, step, text, extracts>>

\* The source stage extracts the archives anew; every variant is rebuilt.
Extract ==
  /\ extracts < MaxExtracts
  /\ Resting
  /\ extracts' = extracts + 1
  /\ disk' = [f \in Files |-> Upstream(f)]
  /\ torn' = {}
  /\ step' = [r \in Runs |-> "setup"]
  /\ pc' = [r \in Runs |-> "idle"]
  /\ at' = [r \in Runs |-> "none"]
  /\ UNCHANGED <<tools, text, kills>>

RegisterTools ==
  /\ tools # Required
  /\ tools' = Required
  /\ UNCHANGED <<disk, torn, step, pc, at, text, kills, extracts>>

-----------------------------------------------------------------------------
Init ==
  /\ disk \in Workspaces
  /\ torn = {f \in Files : disk[f] = Empty(f)}
  /\ tools \in SUBSET Required
  /\ step = [r \in Runs |-> "setup"]
  /\ parallel \in Schedulers
  /\ pc = [r \in Runs |-> "idle"]
  /\ at = [r \in Runs |-> "none"]
  /\ text = [r \in Runs |-> Empty("vsenv")]
  /\ kills = 0
  /\ extracts = 0

Bootstrap(r) ==
  \/ ExposeTools(r) \/ Refuse(r) \/ Skip(r) \/ Read(r)
  \/ Open(r) \/ Write(r) \/ Meson(r)

Step ==
  \/ \E r \in Runs : Start(r) \/ Bootstrap(r) \/ Retry(r) \/ Kill(r)
  \/ Extract
  \/ RegisterTools

Next == Step /\ UNCHANGED parallel

Spec == Init /\ [][Next]_vars

\* A process that was started runs on, and the scheduler starts the next step
\* of a variant that is waiting for it.  Nobody promises a retry, an
\* extraction or a repair of the registry.
Fairness ==
  \A r \in Runs : /\ WF_vars(Bootstrap(r) /\ UNCHANGED parallel)
                  /\ SF_vars(Start(r) /\ UNCHANGED parallel)

FairSpec == Spec /\ Fairness

-----------------------------------------------------------------------------
(* Properties. *)

\* Types; a process that is to write holds a complete patched text of the file
\* it is busy with.
TypeOK ==
  /\ \A f \in Files : disk[f] \in Texts(f)
  /\ DOMAIN disk = Files
  /\ torn \subseteq Files
  /\ tools \subseteq Required
  /\ step \in [Runs -> Steps \cup {"done"}]
  /\ pc \in [Runs -> {"idle", "tools", "read", "open", "write", "meson", "exit"}]
  /\ at \in [Runs -> Files \cup {"none"}]
  /\ \A r \in Runs :
       /\ pc[r] \in {"read", "open", "write"} <=> at[r] # "none"
       /\ pc[r] \in {"open", "write"} =>
            text[r] \in Texts(at[r]) /\ Patched(at[r], text[r])
       /\ Active(r) => step[r] \in Steps
  /\ DOMAIN text = Runs
  /\ kills \in 0..MaxKills
  /\ extracts \in 0..MaxExtracts

\* The file is empty because a process of another variant is between opening
\* and writing it, or because one was killed there.
Interrupted(f) ==
  /\ disk[f] = Empty(f)
  /\ f \in torn \/ \E q \in Runs : pc[q] = "write" /\ at[q] = f

\* The files a process of variant r has been through when it stands at f.
Behind(f) ==
  CASE f = "linkers" -> {"detect"}
    [] f = "vsenv" -> {"detect", "linkers"}
    [] f = "glcpp" -> {"detect", "linkers", "vsenv"}
    [] OTHER -> {}

Passed(r) ==
  (CASE pc[r] = "meson" -> {"detect", "linkers", "vsenv"}
     [] OTHER -> Behind(at[r]))
  \cup
  (IF Mesa /\ (step[r] \in {"compile", "test", "install", "done"}
               \/ (pc[r] = "meson" /\ step[r] = "setup"))
   THEN {"glcpp"} ELSE {})

\* What a BCC64X process has checked stays patched while it works on and while
\* Meson imports it, and Mesa's test driver from setup to the end of the
\* build: another variant that patches the same tree from a text it read
\* earlier may leave a file empty for a moment, but never puts back a text
\* without the patches.
MesonSeesPatches ==
  \A r \in Bcc64x : \A f \in Passed(r) :
    Patched(f, disk[f]) \/ Interrupted(f)

\* When the variants take turns, Meson never meets an empty file either: a
\* process stops before Meson at a file that a kill emptied, and no process
\* that runs alone leaves one behind.
MesonSeesFiles ==
  \A r \in Bcc64x : ~parallel /\ pc[r] = "meson" =>
    \A f \in Passed(r) : Patched(f, disk[f])

\* A file with a context that does not match is left as it is, down to its
\* other hunks: nothing is applied unless everything fits.  Only a fresh
\* extraction replaces it.
Foreign(f) == \E h \in Checked(f) : disk[f][h] = "changed"

ForeignKept ==
  [][\A f \in Files : Foreign(f) => disk'[f] = disk[f] \/ extracts' # extracts]_vars

\* When the variants take turns, a process refuses a file only because its
\* context is foreign or because a kill emptied it: a tree that an earlier
\* step, an earlier attempt or the other variant patched is always accepted.
RefusedForCause ==
  [][\A r \in Runs : ~parallel /\ pc[r] = "read" /\ pc'[r] = "exit" =>
       Foreign(at[r]) \/ at[r] \in torn \/ kills' # kills]_vars

\* When the variants take turns and nobody is killed, a healthy tree and a
\* complete registry mean that every variant gets through its four steps;
\* kills of earlier builds do not matter as long as they left the tree healthy.
Healthy ==
  /\ tools = Required
  /\ \A f \in Files : Fits(f, disk[f])
  /\ \A r \in Runs : pc[r] # "exit"

Completes ==
  \A k \in 0..MaxKills :
    ~parallel /\ Healthy /\ kills = k ~>
      kills # k \/ \A r \in Runs : step[r] = "done"

=============================================================================
