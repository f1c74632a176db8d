--------------------------- MODULE RuntimeStaging ---------------------------
(***************************************************************************)
(* Staging of runtime DLLs beside a consumer's executable:                 *)
(*   admin/cmake/consumer/BuildEngineRuntime.cmake       (configure time)  *)
(*   admin/cmake/consumer/BuildEngineStageRuntime.cmake  (build time)      *)
(*                                                                         *)
(* Every target that calls adecc_stage_runtime owns a `cmake -P' process   *)
(* that copies the DLLs of the declared package roots into the directory   *)
(* of the target's executable.  Targets may share that directory and a     *)
(* parallel build runs their stagers at the same time, so every file       *)
(* operation of the script is a step of its own.  Packages are published   *)
(* by the BuildEngine, which is outside this repository: Publish and       *)
(* RemoveRoot are its steps as the scripts see them.                       *)
(*                                                                         *)
(* Data: a name is the lower-cased basename of a DLL (other files are      *)
(* never looked at), an image is the contents of a file up to SHA-256.     *)
(***************************************************************************)
EXTENDS Naturals, Sequences, FiniteSets

CONSTANTS
    Targets,     \* consumer targets whose executables share one directory
    Names,       \* lower-cased DLL basenames, numbered in list(SORT) order
    Images,      \* file contents, told apart by SHA-256
    X64,         \* the images that pass the PE32+ AMD64 header check
    Roots,       \* package roots
    Requests,    \* argument lists a target may pass to adecc_stage_runtime
    Layouts,     \* package directories as published before the first build
    AppImages,   \* images the application itself may have put in the directory
    PublishWhileStaging, \* may packages change while a stager runs?
    MaxPublish,  \* bound on package changes
    MaxKills     \* bound on stagers killed by an interrupted build

NoFile == "no file"
Torn == "torn"            \* a file that is half written, or garbled
NoRequest == [roots |-> << >>, cfg |-> "none", tool |-> {}, excl |-> {}]
ToolBin == <<"toolchain", "bin64">>

Configurations == {"Debug", "Release"}
BuildTypes == Configurations \cup {"RelWithDebInfo"}

\* The directories DLLs come from: <root>/bin/win64/<configuration>,
\* <root>/bin and the bin64 directory of the selected toolchain.
Dirs == {ToolBin} \cup (Roots \X (BuildTypes \cup {"bin"}))

ASSUME NamesAssumption == Names \subseteq Nat
ASSUME ImagesAssumption ==
    /\ NoFile \notin Images
    /\ Torn \notin Images
    /\ X64 \subseteq Images
    /\ AppImages \subseteq Images
ASSUME RequestsAssumption ==
    Requests \subseteq [roots : Seq(Roots), cfg : BuildTypes,
                        tool : SUBSET Names, excl : SUBSET Names]
ASSUME LayoutsAssumption ==
    Layouts \subseteq [Dirs -> [Names -> Images \cup {NoFile}]]
ASSUME BoundsAssumption ==
    /\ PublishWhileStaging \in BOOLEAN
    /\ MaxPublish \in Nat
    /\ MaxKills \in Nat

VARIABLES
    pkg,       \* pkg[d][n]: the image of file n in package directory d
    rootDirs,  \* the package roots that exist
    manifest,  \* manifest[t]: the three manifest files written for target t
    out,       \* out[n]: file n of the shared executable directory
    installed, \* installed[n]: file n of the installation directory
    pc,        \* pc[t]: where the stager of target t stands
    passes,    \* passes[t]: staging runs left in this build of t
    at,        \* at[t]: directory being scanned; 0 is the toolchain list
    files,     \* files[t]: names still to handle there (or to purge)
    cur,       \* cur[t]: the DLL inside _adecc_stage_dll
    buf,       \* buf[t]: the image COPY_FILE is writing
    log,       \* log[t][n]: vecNames, vecSources and the logged SHA-256
    pubs,      \* package changes so far
    kills      \* stagers killed so far

packageVars == <<pkg, rootDirs, pubs>>
scanVars == <<passes, at, files>>
vars == <<pkg, rootDirs, manifest, out, installed, pc, passes, at, files,
          cur, buf, log, pubs, kills>>

NoLog == [src |-> ToolBin, hash |-> NoFile]

(***************************************************************************)
(* What a manifest selects.                                                *)
(***************************************************************************)

\* Directory i of the scan: both bin directories of the first root, then
\* of the second, and so on.  Index 0 stands for the toolchain list.
Dir(m, i) ==
    IF i = 0 THEN ToolBin
             ELSE <<m.roots[(i + 1) \div 2],
                    IF i % 2 = 1 THEN m.cfg ELSE "bin">>

LastDir(m) == 2 * Len(m.roots)

\* The files the scan of directory i meets: the declared list for the
\* toolchain, a glob for a package.
Listed(m, i) ==
    IF i = 0 THEN m.tool
             ELSE {n \in Names : pkg[Dir(m, i)][n] # NoFile}

\* Target t deploys image pkg[Dir(m, i)][n] under the name n.
Selects(t, i, n) ==
    /\ i \in 0..LastDir(manifest[t])
    /\ n \in Listed(manifest[t], i)
    /\ n \notin manifest[t].excl

Source(t) == Dir(manifest[t], at[t])

Ended == {"idle", "done", "failed", "killed"}
Active(t) == pc[t] \notin Ended
Quiet == \A t \in Targets : ~Active(t)

Writers(n) == {t \in Targets : pc[t] = "write" /\ cur[t] = n}

(***************************************************************************)
(* Initial state: nothing configured or staged; the executable directory   *)
(* may hold DLLs of the application.                                       *)
(***************************************************************************)
Init ==
    /\ pkg \in Layouts
    /\ rootDirs = Roots
    /\ manifest = [t \in Targets |-> NoRequest]
    /\ out \in [Names -> AppImages \cup {NoFile}]
    /\ installed = [n \in Names |-> NoFile]
    /\ pc = [t \in Targets |-> "idle"]
    /\ passes = [t \in Targets |-> 0]
    /\ at = [t \in Targets |-> 0]
    /\ files = [t \in Targets |-> {}]
    /\ cur = [t \in Targets |-> 0]
    /\ buf = [t \in Targets |-> Torn]
    /\ log = [t \in Targets |-> [n \in Names |-> NoLog]]
    /\ pubs = 0
    /\ kills = 0

-----------------------------------------------------------------------------
(***************************************************************************)
(* The BuildEngine's steps on the packages (external).                     *)
(***************************************************************************)

\* A changed package makes the outcome of earlier builds meaningless: a
\* stager that has ended is "idle" again and keeps its log.
Outdated == [t \in Targets |-> IF Active(t) THEN pc[t] ELSE "idle"]

MayPublish == pubs < MaxPublish /\ (PublishWhileStaging \/ Quiet)

\* One file of a published package is added, replaced or dropped.
Publish(d, n, img) ==
    /\ MayPublish
    /\ pkg[d][n] # img
    /\ d = ToolBin \/ d[1] \in rootDirs
    /\ pkg' = [pkg EXCEPT ![d][n] = img]
    /\ pubs' = pubs + 1
    /\ pc' = Outdated
    /\ UNCHANGED <<rootDirs, manifest, out, installed, scanVars, cur, buf,
                   log, kills>>

\* A package version is removed from the tree with all its directories.
RemoveRoot(r) ==
    /\ MayPublish
    /\ r \in rootDirs
    /\ rootDirs' = rootDirs \ {r}
    /\ pkg' = [d \in Dirs |-> IF d # ToolBin /\ d[1] = r
                                THEN [n \in Names |-> NoFile] ELSE pkg[d]]
    /\ pubs' = pubs + 1
    /\ pc' = Outdated
    /\ UNCHANGED <<manifest, out, installed, scanVars, cur, buf, log, kills>>

-----------------------------------------------------------------------------
(***************************************************************************)
(* Configure time: adecc_stage_runtime.                                    *)
(***************************************************************************)

\* The checks of adecc_stage_runtime; when one fails the configure run stops
\* with FATAL_ERROR before it has written a manifest.
ValidRequest(m) ==
    /\ m.roots # << >>
    /\ \A i \in 1..Len(m.roots) : m.roots[i] \in rootDirs
    /\ \A n \in m.tool : pkg[ToolBin][n] # NoFile

\* adecc_stage_runtime(t ...): writes the three manifest files of t.  The
\* build tool configures a build tree only while it runs none of its steps.
Configure(t, m) ==
    /\ Quiet
    /\ ValidRequest(m)
    /\ manifest[t] # m
    /\ manifest' = [manifest EXCEPT ![t] = m]
    /\ pc' = [u \in Targets |-> "idle"]
    /\ UNCHANGED <<packageVars, out, installed, scanVars, cur, buf, log, kills>>

-----------------------------------------------------------------------------
(***************************************************************************)
(* Build time: BuildEngineStageRuntime.cmake.                              *)
(***************************************************************************)

\* message(FATAL_ERROR): the script stops and leaves the directory as it is.
Fail(t) == pc' = [pc EXCEPT ![t] = "failed"]

\* A staging run begins: nothing seen yet, and the retired DLLs found in the
\* directory are to be purged.
BeginPass(t) ==
    /\ pc' = [pc EXCEPT ![t] = "purge"]
    /\ files' = [files EXCEPT ![t] = {n \in manifest[t].excl : out[n] # NoFile}]
    /\ at' = [at EXCEPT ![t] = 0]
    /\ log' = [log EXCEPT ![t] = [n \in Names |-> NoLog]]

\* The buildengine-stage target has no output the build tool could find up to
\* date: every build runs it again, after a success and after a failure.
StartableUnlessFailed(t) == pc[t] \in {"idle", "done"}   \* mutant: stamp file
Startable(t) == ~Active(t)

\* A build of t.  Relinking runs the script as POST_BUILD command; the
\* buildengine-stage target, which depends on t, runs it in every build.
\* An unsupported build type fails in the first lines of the script.
StartBuild(t, relink) ==
    /\ Startable(t)
    /\ manifest[t] # NoRequest
    /\ IF manifest[t].cfg \in Configurations
         THEN /\ BeginPass(t)
              /\ passes' = [passes EXCEPT ![t] = IF relink THEN 2 ELSE 1]
         ELSE /\ Fail(t)
              /\ log' = [log EXCEPT ![t] = [n \in Names |-> NoLog]]
              /\ UNCHANGED scanVars
    /\ UNCHANGED <<packageVars, manifest, out, installed, cur, buf, kills>>

\* One retired DLL is removed.  A file another process holds open, a stager
\* that writes it or an application that runs it, survives file(REMOVE), and
\* the script stops.
Purge(t) ==
    /\ pc[t] = "purge"
    /\ \E n \in files[t] :
         \/ /\ Writers(n) = {}
            /\ out' = [out EXCEPT ![n] = NoFile]
            /\ files' = [files EXCEPT ![t] = @ \ {n}]
            /\ pc' = pc
         \/ /\ out[n] # NoFile
            /\ Fail(t)
            /\ UNCHANGED <<out, files>>
    /\ UNCHANGED <<packageVars, manifest, installed, passes, at, cur, buf, log,
                   kills>>

\* mutant: the toolchain list is begun before the purge is complete.
PurgeEndEarly(t) ==
    /\ pc[t] = "purge"
    /\ pc' = [pc EXCEPT ![t] = "scan"]
    /\ files' = [files EXCEPT ![t] = manifest[t].tool]
    /\ UNCHANGED <<packageVars, manifest, out, installed, passes, at, cur, buf,
                   log, kills>>

\* All retired DLLs are gone: the toolchain list comes first.
PurgeEnd(t) ==
    /\ pc[t] = "purge"
    /\ files[t] = {}
    /\ pc' = [pc EXCEPT ![t] = "scan"]
    /\ files' = [files EXCEPT ![t] = manifest[t].tool]
    /\ UNCHANGED <<packageVars, manifest, out, installed, passes, at, cur, buf,
                   log, kills>>

\* The next directory.  A root is looked for once, before its first bin
\* directory: when it is gone the script stops.  A bin directory that does
\* not exist holds no file.
NextDir(t) ==
    /\ pc[t] = "scan"
    /\ files[t] = {}
    /\ at[t] < LastDir(manifest[t])
    /\ LET i == at[t] + 1 IN
         IF i % 2 = 1 /\ Dir(manifest[t], i)[1] \notin rootDirs
           THEN Fail(t) /\ UNCHANGED <<at, files>>
           ELSE /\ at' = [at EXCEPT ![t] = i]
                /\ files' = [files EXCEPT ![t] = Listed(manifest[t], i)]
                /\ pc' = pc
    /\ UNCHANGED <<packageVars, manifest, out, installed, passes, cur, buf, log,
                   kills>>

\* After the last directory the run has succeeded; a relinked target is
\* staged a second time by its buildengine-stage target.
PassEnd(t) ==
    /\ pc[t] = "scan"
    /\ files[t] = {}
    /\ at[t] = LastDir(manifest[t])
    /\ passes' = [passes EXCEPT ![t] = @ - 1]
    /\ IF passes[t] > 1 THEN BeginPass(t)
                        ELSE /\ pc' = [pc EXCEPT ![t] = "done"]
                             /\ UNCHANGED <<at, files, log>>
    /\ UNCHANGED <<packageVars, manifest, out, installed, cur, buf, kills>>

(***************************************************************************)
(* _adecc_stage_dll for one file; glob results are sorted, the toolchain   *)
(* list has the order of the caller.                                       *)
(***************************************************************************)

Pick(t, n) ==
    /\ n \in files[t]
    /\ at[t] = 0 \/ \A k \in files[t] : n <= k

\* The name was staged before from another source: do the hashes differ?
CollidesNever(t, n) == FALSE   \* mutant: the first root wins
Collides(t, n) ==
    /\ log[t][n] # NoLog
    /\ pkg[log[t][n].src][n] # pkg[Source(t)][n]

\* A DLL of the toolchain list is looked for before its name is compared with
\* the retired ones.
Absent(t, n) == at[t] = 0 /\ pkg[ToolBin][n] = NoFile

\* The start of the function, up to the test whether the file is there.
\* A retired DLL, or one that was staged before, is passed over.  If the
\* source is gone or is no x64 image, or it collides with a DLL staged
\* before, the script stops.
StageDll(t) ==
    /\ pc[t] = "scan"
    /\ \E n \in Names :
         LET retired == n \in manifest[t].excl
             staged == log[t][n] # NoLog
             valid == pkg[Source(t)][n] \in X64
         IN
         /\ Pick(t, n)
         /\ files' = [files EXCEPT ![t] = @ \ {n}]
         /\ \/ /\ ~Absent(t, n)
               /\ retired \/ (valid /\ staged /\ ~Collides(t, n))
               /\ UNCHANGED <<pc, cur>>
            \/ /\ Absent(t, n) \/ (~retired /\ (~valid \/ Collides(t, n)))
               /\ Fail(t)
               /\ cur' = cur
            \/ /\ ~retired /\ valid /\ ~staged
               /\ cur' = [cur EXCEPT ![t] = n]
               /\ pc' = [pc EXCEPT ![t] =
                           IF out[n] # NoFile THEN "compare" ELSE "copy"]
    /\ UNCHANGED <<packageVars, manifest, out, installed, passes, at, buf, log,
                   kills>>

\* mutant: a DLL that is there is taken for the right one.
CompareNameOnly(t) ==
    /\ pc[t] = "compare"
    /\ pc' = [pc EXCEPT ![t] = "log"]
    /\ UNCHANGED <<packageVars, manifest, out, installed, scanVars, cur, buf,
                   log, kills>>

\* The destination was there: its hash is compared with the source.  A
\* source or a destination that vanished meanwhile cannot be hashed.
Compare(t) ==
    LET src == pkg[Source(t)][cur[t]] IN
    /\ pc[t] = "compare"
    /\ IF src # NoFile /\ out[cur[t]] = src
         THEN pc' = [pc EXCEPT ![t] = "log"]
         ELSE Fail(t)
    /\ UNCHANGED <<packageVars, manifest, out, installed, scanVars, cur, buf,
                   log, kills>>

\* COPY_FILE ... ONLY_IF_DIFFERENT compares before it writes.
CopyCheck(t) ==
    LET src == pkg[Source(t)][cur[t]] IN
    /\ pc[t] = "copy"
    /\ IF src = NoFile
         THEN Fail(t)
         ELSE pc' = [pc EXCEPT ![t] =
                       IF out[cur[t]] = src THEN "log" ELSE "open"]
    /\ UNCHANGED <<packageVars, manifest, out, installed, scanVars, cur, buf,
                   log, kills>>

\* COPY_FILE opens the destination and truncates it.  The platform may
\* refuse to open a file that is already there (another stager writes it, an
\* application has loaded it): then the script stops.
CopyOpen(t) ==
    LET n == cur[t]
        src == pkg[Source(t)][n]
    IN
    /\ pc[t] = "open"
    /\ \/ /\ src # NoFile
          /\ out' = [out EXCEPT ![n] = Torn]
          /\ buf' = [buf EXCEPT ![t] = src]
          /\ pc' = [pc EXCEPT ![t] = "write"]
       \/ /\ src = NoFile \/ out[n] # NoFile
          /\ Fail(t)
          /\ UNCHANGED <<out, buf>>
    /\ UNCHANGED <<packageVars, manifest, installed, scanVars, cur, log, kills>>

\* What the writers of the same file are left with when t stops
\* writing: two different images written at once may leave a garbled file.
Blends(t) ==
    {b \in [Targets -> Images \cup {Torn}] :
       \A u \in Targets : b[u] \in
          IF u = t THEN {Torn}
          ELSE IF u \in Writers(cur[t]) /\ buf[u] # buf[t] THEN {buf[u], Torn}
          ELSE {buf[u]}}

\* The copy is complete; while another stager writes the file it is not whole.
CopyEnd(t) ==
    /\ pc[t] = "write"
    /\ out' = [out EXCEPT ![cur[t]] =
                 IF Writers(cur[t]) = {t} THEN buf[t] ELSE Torn]
    /\ buf' \in Blends(t)
    /\ pc' = [pc EXCEPT ![t] = "log"]
    /\ UNCHANGED <<packageVars, manifest, installed, scanVars, cur, log, kills>>

\* mutant: the destination is hashed instead of the source.
LogDllDestination(t) ==
    /\ pc[t] = "log"
    /\ log' = [log EXCEPT ![t][cur[t]] =
                 [src |-> Source(t), hash |-> out[cur[t]]]]
    /\ pc' = [pc EXCEPT ![t] = "scan"]
    /\ UNCHANGED <<packageVars, manifest, out, installed, scanVars, cur, buf,
                   kills>>

\* The source is hashed once more for the provenance line, and the name and
\* its source are appended to vecNames and vecSources.
LogDll(t) ==
    LET src == pkg[Source(t)][cur[t]] IN
    /\ pc[t] = "log"
    /\ IF src = NoFile
         THEN Fail(t) /\ log' = log
         ELSE /\ log' = [log EXCEPT ![t][cur[t]] =
                           [src |-> Source(t), hash |-> src]]
              /\ pc' = [pc EXCEPT ![t] = "scan"]
    /\ UNCHANGED <<packageVars, manifest, out, installed, scanVars, cur, buf,
                   kills>>

\* The build is interrupted: the stager of t dies where it stands.
Kill(t) ==
    /\ Active(t)
    /\ kills < MaxKills
    /\ kills' = kills + 1
    /\ pc' = [pc EXCEPT ![t] = "killed"]
    /\ buf' \in (IF pc[t] = "write" THEN Blends(t) ELSE {buf})
    /\ UNCHANGED <<packageVars, manifest, out, installed, scanVars, cur, log>>

-----------------------------------------------------------------------------
(***************************************************************************)
(* adecc_install_application: the install target, which depends on all     *)
(* targets of the build, copies every DLL of the executable directory over *)
(* the installation directory.                                             *)
(***************************************************************************)
InstallAnyTime ==   \* mutant: install does not wait for the stagers
    /\ \E t \in Targets : pc[t] = "done"
    /\ installed' = [n \in Names |->
                       IF out[n] # NoFile THEN out[n] ELSE installed[n]]
    /\ UNCHANGED <<packageVars, manifest, out, pc, scanVars, cur, buf, log,
                   kills>>

Install ==
    /\ \A t \in Targets : pc[t] = "done"
    /\ installed' = [n \in Names |->
                       IF out[n] # NoFile THEN out[n] ELSE installed[n]]
    /\ UNCHANGED <<packageVars, manifest, out, pc, scanVars, cur, buf, log,
                   kills>>

-----------------------------------------------------------------------------
Stager(t) ==
    \/ Purge(t) \/ PurgeEnd(t) \/ NextDir(t) \/ PassEnd(t)
    \/ StageDll(t) \/ Compare(t) \/ CopyCheck(t) \/ CopyOpen(t)
    \/ CopyEnd(t) \/ LogDll(t)

Environment ==
    \/ \E d \in Dirs, n \in Names, img \in Images \cup {NoFile} :
         Publish(d, n, img)
    \/ \E r \in Roots : RemoveRoot(r)
    \/ \E t \in Targets, m \in Requests : Configure(t, m)
    \/ \E t \in Targets : Kill(t)

Next ==
    \/ \E t \in Targets : Stager(t)
    \/ \E t \in Targets, relink \in BOOLEAN : StartBuild(t, relink)
    \/ Environment
    \/ Install

Spec == Init /\ [][Next]_vars

\* A started script keeps running, and the developer keeps building: every
\* default build starts the buildengine-stage target of t.
FairSpec ==
    /\ Spec
    /\ \A t \in Targets : WF_vars(Stager(t)) /\ WF_vars(StartBuild(t, FALSE))

-----------------------------------------------------------------------------
(***************************************************************************)
(* Properties.                                                             *)
(***************************************************************************)

Staging == {"compare", "copy", "open", "write", "log"}
Phases == Ended \cup {"purge", "scan"} \cup Staging

\* Type invariant of the staging model.
TypeOK ==
    /\ pkg \in [Dirs -> [Names -> Images \cup {NoFile}]]
    /\ rootDirs \subseteq Roots
    /\ manifest \in [Targets -> Requests \cup {NoRequest}]
    /\ out \in [Names -> Images \cup {NoFile, Torn}]
    /\ installed \in [Names -> Images \cup {NoFile, Torn}]
    /\ pc \in [Targets -> Phases]
    /\ passes \in [Targets -> 0..2]
    /\ at \in [Targets -> Nat]
    /\ files \in [Targets -> SUBSET Names]
    /\ cur \in [Targets -> Names \cup {0}]
    /\ buf \in [Targets -> Images \cup {Torn}]
    /\ log \in [Targets -> [Names -> [src : Dirs, hash : Images \cup {NoFile}]]]
    /\ pubs \in 0..MaxPublish
    /\ kills \in 0..MaxKills

\* A running stager scans a directory its manifest names, in a pass that is due.
InRange ==
    \A t \in Targets :
      /\ Active(t) => /\ manifest[t] \in Requests
                      /\ at[t] \in 0..LastDir(manifest[t])
                      /\ passes[t] \in 1..2
      /\ pc[t] \in Staging => cur[t] \in Names

\* No two targets want different things under the name n: all sources they
\* select have one image, and none retires a DLL that another one deploys.
Undisputed(n) ==
    \A t, u \in Targets :
      \A i \in 0..LastDir(manifest[t]) :
        Selects(t, i, n) =>
          /\ n \notin manifest[u].excl
          /\ \A j \in 0..LastDir(manifest[u]) :
               Selects(u, j, n) =>
                 pkg[Dir(manifest[t], i)][n] = pkg[Dir(manifest[u], j)][n]

Logged(t, n) == pc[t] # "idle" /\ log[t][n] # NoLog

\* The provenance line "[RUNTIME] name SHA256=... source=..." tells the truth:
\* an undisputed DLL that some stager has logged since the last change of
\* packages or arguments lies in the executable directory with exactly the
\* logged hash, however the stagers interleave; the only exceptions are a
\* file that is being rewritten at this moment and one torn by a killed build.
DeployedAsLogged ==
    \A t \in Targets, n \in Names :
      Logged(t, n) /\ Undisputed(n) =>
        \/ out[n] = log[t][n].hash
        \/ out[n] = Torn /\ (Writers(n) # {} \/ kills > 0)

\* A staging run that succeeded has skipped nothing: every DLL of every
\* directory it was told to deploy, and that is not retired, was staged, and
\* all directories that hold the name hold the same image.
StagedClosure ==
    \A t \in Targets : pc[t] = "done" =>
      \A i \in 0..LastDir(manifest[t]), n \in Names :
        Selects(t, i, n) =>
          /\ log[t][n] # NoLog
          /\ pkg[Dir(manifest[t], i)][n] = log[t][n].hash

\* After a successful run no DLL the target retired is left beside its
\* executable, unless another target deploys it there.
RetiredGone ==
    \A t \in Targets, n \in Names :
      /\ pc[t] = "done"
      /\ n \in manifest[t].excl
      /\ Undisputed(n)
      => out[n] = NoFile

\* What install ships is what the stagers logged: once every target of the
\* build has been staged, no undisputed DLL is torn, missing or different,
\* even after builds that were killed in the middle of a copy.
InstallShipsLogged ==
    [][Install => \A t \in Targets, n \in Names :
         Undisputed(n) /\ log[t][n] # NoLog => installed'[n] = log[t][n].hash]_vars

-----------------------------------------------------------------------------
(***************************************************************************)
(* The inductive invariant behind the safety properties, for packages that *)
(* do not change while a stager runs.                                      *)
(***************************************************************************)
Scanning == {"scan"} \cup Staging

\* Stager t has made sure, since the last change, that n is deployed.
Vouched(t, n) ==
    /\ pc[t] # "idle"
    /\ \/ log[t][n] # NoLog
       \/ pc[t] = "log" /\ cur[t] = n

\* The scan position: what is left to purge or to stage, and the DLL in work.
ScanOk(t) ==
    /\ pc[t] = "purge" => /\ at[t] = 0
                          /\ files[t] \subseteq manifest[t].excl
                          /\ \A n \in Names : log[t][n] = NoLog
    /\ pc[t] \in Scanning => files[t] \subseteq Listed(manifest[t], at[t])
    /\ pc[t] \in Staging => /\ Selects(t, at[t], cur[t])
                            /\ log[t][cur[t]] = NoLog
                            /\ cur[t] \notin files[t]
                            /\ pkg[Source(t)][cur[t]] \in X64
    /\ pc[t] = "done" => /\ manifest[t] \in Requests
                         /\ at[t] = LastDir(manifest[t])
                         /\ files[t] = {}

\* A log entry names a directory the target selects and its present image.
LogOk(t) ==
    \A n \in Names :
      Logged(t, n) =>
        \E i \in 0..LastDir(manifest[t]) :
          /\ Selects(t, i, n)
          /\ log[t][n] = [src |-> Dir(manifest[t], i),
                          hash |-> pkg[Dir(manifest[t], i)][n]]

\* The scan has passed file n of directory i.
Passed(t, i, n) ==
    /\ pc[t] \in Scanning \cup {"done"}
    /\ \/ i < at[t]
       \/ /\ i = at[t]
          /\ n \notin files[t]
          /\ pc[t] \in Staging => n # cur[t]

\* Every file the scan has passed is in the log.
PassedOk(t) ==
    \A n \in Names : \A i \in 0..LastDir(manifest[t]) :
      Selects(t, i, n) /\ Passed(t, i, n) =>
        /\ log[t][n] # NoLog
        /\ log[t][n].hash = pkg[Dir(manifest[t], i)][n]

LocalInv == \A t \in Targets : ScanOk(t) /\ LogOk(t) /\ PassedOk(t)

\* Nobody writes anything but the one image of an undisputed name.
BufInv ==
    \A t \in Targets :
      pc[t] = "write" /\ Undisputed(cur[t]) => buf[t] = pkg[Source(t)][cur[t]]

\* Some target of the build that selects n has not staged it yet.
Owed(n) ==
    \E u \in Targets :
      /\ pc[u] # "idle"
      /\ \E i \in 0..LastDir(manifest[u]) : Selects(u, i, n)
      /\ ~Vouched(u, n)

\* A deployed name holds its image; a torn one is being written, or was torn
\* by a kill, and then the killed stager has it to stage again.
OutInv ==
    \A t \in Targets, n \in Names :
      Vouched(t, n) /\ Undisputed(n) =>
        \A u \in Targets : \A i \in 0..LastDir(manifest[u]) :
          Selects(u, i, n) =>
            \/ out[n] = pkg[Dir(manifest[u], i)][n]
            \/ /\ out[n] = Torn
               /\ Writers(n) # {} \/ (kills > 0 /\ Owed(n))

\* A retired name is gone, or still to be purged.
RetiredInv ==
    \A t \in Targets, n \in Names :
      /\ pc[t] \in Scanning \cup {"done"} \/ (pc[t] = "purge" /\ n \notin files[t])
      /\ n \in manifest[t].excl
      /\ Undisputed(n)
      => out[n] = NoFile

\* The conjunction: inductive together with the types.
StagingInv == LocalInv /\ BufInv /\ OutInv /\ RetiredInv

\* Every target has its arguments, no name is disputed, every selected DLL is
\* an x64 image, and the toolchain has what is declared of it: from some point
\* on for good.
Orderly ==
    /\ \A t \in Targets : manifest[t] # NoRequest
    /\ \A t \in Targets : \A n \in manifest[t].tool : pkg[ToolBin][n] # NoFile
    /\ \A t \in Targets, n \in Names : Undisputed(n) /\
         \A i \in 0..LastDir(manifest[t]) :
           Selects(t, i, n) => pkg[Dir(manifest[t], i)][n] \in X64

Settled == <>[]Orderly /\ <>[][FALSE]_manifest

\* No DLL of the application, or of packages and arguments that have changed
\* since, lies in the way, and no file that nobody will complete.
Unobstructed ==
    \A n \in Names :
      \/ out[n] = NoFile
      \/ out[n] = Torn /\ Writers(n) # {}
      \/ \E t \in Targets : \E i \in 0..LastDir(manifest[t]) :
           Selects(t, i, n) /\ out[n] = pkg[Dir(manifest[t], i)][n]

\* Spurious failures heal: a stager may fail because it met a half-written
\* copy of another one, or be killed, but unless a kill or a replaced package
\* leaves a file in the way, repeating the build ends with every target staged.
Converges ==
    Settled /\ <>[]Unobstructed => \A t \in Targets : []<>(pc[t] = "done")

\* The comment of adecc_stage_runtime: "refresh and validate the runtime
\* package closure on every default build".  After a package has replaced
\* one of its DLLs, some later build has the new one in the directory.
Refreshes ==
    Settled =>
      []<>(\A t \in Targets, n \in Names : \A i \in 0..LastDir(manifest[t]) :
             Selects(t, i, n) => out[n] = pkg[Dir(manifest[t], i)][n])

=============================================================================
