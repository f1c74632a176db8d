# Verification of BuildEngine-Admin

BuildEngine-Admin is the administrative layer of a build system that compiles
third-party libraries for C++Builder / BCC64X: a declarative inventory
(`admin/build-libraries.xml`), CMake helpers for toolchains and consumers, small
programs that run around a build (a DLL loader probe, a Meson bootstrap, an
argument adapter for GN), smoke programs for the finished packages, and a SQLite
database of security assessments. The BuildEngine itself (the library state
machine, the scheduler, Manager and Server) is private and not in the repository;
where its behaviour matters, it is modelled from how the code here depends on it,
and marked *external*.

This directory holds TLA+ modules for the parts of the repository that keep state,
the TLC configurations that check them on small instances, and TLAPS proofs of the
properties that matter most. Paths below are relative to `src/`.

    tlc -workers 2 -config StagingShared.cfg MCRuntimeStaging   # a run
    tlapm RuntimeStagingProofs.tla                               # a proof module

`PROJECT.json` lists the runs, the source lines of each definition ("map"), the
hazards, the mutants and the theorems.

## 1. Inventory

### Runtime staging — `admin/cmake/consumer/BuildEngine{Runtime,StageRuntime}.cmake`
*State*: three manifest files per target, the executable directory (shared by all
targets that are linked into it), the installation directory, and the local
variables of each running stager: the directory scanned, the names left, `vecNames`
and `vecSources`. *Operations*: `adecc_stage_runtime` (configure time) validates its
arguments and writes the manifests; the `cmake -P` script purges retired DLLs, then
stages the toolchain list and both bin directories of each package root through
`_adecc_stage_dll` (validate, compare or copy, hash, log);
`adecc_install_application` copies all DLLs of the directory.
*Interaction*: stagers of one parallel build share the directory; packages are
published by the BuildEngine; the build tool starts the script after linking and,
through `buildengine-stage`, in every default build.
*Hard*: interleaved stagers, a copy that is not atomic, builds killed inside a copy,
the same name in several roots, packages that change between builds.
*Correct when*: a provenance line is true, a success has skipped and left behind
nothing, install ships what was logged, failures that come from an interleaving heal
when the build is repeated.

### Loader probe — `admin/programs/bcc64x/RuntimeLoaderProbe.cpp`
*State*: the list from two environment variables, the modules of the process, the
results; while a bad image is diagnosed, `setVisited`, the counters and the recursion
of `ReportDependencyTree`, and the raw bytes of the file. *Operations*: `main`,
`ProbeOne`, `ReportImports`, the runtime report, `DiagnoseImage`,
`ReportDependencyTree`. *Interaction*: only with the Windows loader and the files.
*Hard*: module references that outlive an entry, cycles and limits of the walk, RVA
arithmetic near the end of the word or of the file, two readers of one table.
*Correct when*: every verdict is that of a fresh load, the exit code is true, a report
without a LIMIT line is complete, counters are exact, the readers agree.

### Meson bootstrap — `admin/programs/meson/bcc64x_bootstrap.py`, `admin/programs/opengl/meson_bootstrap.py`
*State*: the files of one Meson source tree. *Operations*: expose the required tools,
patch three files of Meson and one of Mesa, run Meson in the same interpreter.
*Interaction*: the Debug and the Release variant of a package use one tree
(`{Workspace}\meson-1.12.0`, `build-libraries.xml` 3401–3475, 3624–3685), and nothing
locks it. *Hard*: read–compute–write races, `write_text` that truncates first, kills,
trees patched by half or by an earlier version. *Correct when*: what was checked stays
patched, foreign files are untouched, a sound tree is accepted, variants complete.

### Security database — `admin/security/*.sql`, `build-assessments.sqlite`
*State*: tables, views, `user_version`, reference values, assessments. *Operations*:
`schema.sql` (no transaction), the migration and `reference-data.sql` (one transaction
each). *Interaction*: the Manager (external) writes assessments, programs read the
views. *Hard*: interrupted scripts, scripts run again, two editors of one finding.
*Correct when*: revisions are gapless, the shared view follows the last decision, a
completed schema is complete, ids are stable.

### GN argument adapter — `admin/programs/bcc64x/gn_argument_adapter.py`
*State*: the argument vector under translation, the errors, the translated response
file on disk. *Operations*: compiler mode and linker mode. *Hard*: pairs (`-mllvm`
and its value), several errors in one call, a stale or torn file under a fixed name.
*Correct when*: BCC64X runs exactly when no argument is bad, no flag is dropped in
silence, the linker reads the translation of this call.

### Consumer smokes — `admin/smokes/**`
57 smokes and the component gates of Boost, in five kinds with a machine each:

* *scripts* of library calls from one thread (the Boost component gates, libxml2, OpenCV,
  VTK, curl, OpenSSL, Tesseract, ...). *State*: handles and objects, conditions,
  the report and the exit code. *Hard*: early returns, handlers and destructors on the
  path of a failing call; several programs in the order of the inventory
  (`build-libraries.xml` 2842–2848), of which the last one reports.
* *thread checks* (OpenMP probe and consumer, oneTBB). *State*: what a team of threads
  shares: counters, locks, barriers, containers. *Hard*: interleavings, and whether a
  check would notice a runtime that goes wrong.
* *COM pointers* (WIL). *State*: the reference count of a mock and the pointers to it.
* *oneTBB terminate*: a program that starts itself as a child, waits 30 s, terminates it.
* *ACE/TAO naming*: a child service at a port derived from the process id, a client that
  binds, resolves and unbinds. *Hard*: ports collide, services outlive killed runs,
  another run's binding replaces one's own, a call may fail or be answered never.

*Interaction*: the BuildEngine (external) starts a smoke, reads its `SMOKE|...` lines and
its exit code. *Correct when*: a correct library is never accused, a failure of the
library never passes, report and exit code agree, nothing is used after its end, nothing
is left behind, and a smoke that waits ends. The last three hold but for exceptions
that the code has and that the constants and properties name (below).

### Parts without a model
The toolchain rules, the consumer package helper, the inventory XML, the Python/web
helpers, the C shims and the package build files: section 7.

## 2. Modules and how they correspond to the code

| module | models | state ↔ code |
|---|---|---|
| `RuntimeStaging` | both staging CMake files | `manifest[t]`: the three manifest files; `pc/at/files/cur/buf/log[t]`: the script of target t at a file operation (`files`: rest of the GLOB or list, `cur`: argument of `_adecc_stage_dll`, `log`: `vecNames`, `vecSources` and the logged hash, `buf`: what `COPY_FILE` is writing); `out`, `installed`: the directories; `pkg`, `rootDirs`: published packages (external) |
| `DependencyTree` | `ReportDependencyTree` | `stack`, `row`: the recursion of `Visit` and each loop index; `call`: the call about to be made; `visited`, `nodes`, `invalid`, `missing`: the variables of the same meaning; `cut`, `done`: the LIMIT and SUMMARY lines |
| `ImportClosure` | the abstract report | found files and an answer that is open, complete or cut |
| `PeImports` | `ReportImports`, `DiagnoseImage`, the loop of `ReportDependencyTree` over one file | `image`: the bytes as far as they are read; `u`: the loop index; the names reported and followed |
| `LoaderProbe` | `main`, `ProbeOne` | `held`: module references; `borrowed`: the runtime the report has loaded; `results`, `exit` |
| `MesonBootstrap` | both bootstrap programs | `disk[f][h]`: passage h of file f is upstream, patched, left by the first attempt, foreign or absent; `pc/at/text[r]`: the process of variant r between read, open and write |
| `SecurityDb` | the three scripts, constraints and views | `statement`: position inside `schema.sql`; `values`, `texts`, `assessments`: rows; `editing[m]`: what Manager m has read |
| `SmokeStage` | a smoke on a build machine | composes the next five; `kind`: which kind of program runs. States what all smokes owe to the BuildEngine |
| `ScriptedSmoke`, `SmokeScripts` | the sequential smokes | `SmokeScripts`: each `main` as a sequence of calls, handles, scopes, conditions, returns, handlers and report lines; `ScriptedSmoke` runs it: `at` is the position, `mode` what an exception or return is doing, `facts` the outcomes, `live` the handles and objects, `report`, `exit` |
| `SmokeRules` | rules about the programs of `SmokeScripts` | no state: what is known of the conditions at each instruction, and the assumptions that the proofs use |
| `SmokeInvariants` | invariants of the smokes in the middle of a step | no state: the inductive invariants that `SmokeStageProofs` proves, kind by kind, and their terms |
| `ParallelChecks`, `ParallelScripts` | OpenMP and oneTBB smokes | `ParallelScripts`: what each thread does in each check; `place/item/reg[t]`: a thread's position and locals, `lock`, `mem`: shared memory, `slips`: what the runtime has done wrong |
| `ComLifetime` | WIL smoke | `object`: the mock with its counts; `held`: pointers that are not null; `defects`: how the library misbehaves |
| `TerminateSmoke` | oneTBB terminate smoke | `caller`: where `Child` stands; `child/code[c]`: the child process; `handle`: open handles |
| `NamingSmoke` | ACE/TAO smoke, several runs | `pc[s]`: the smoke; `service[s]`: its child; `bound[t]`: the name in service t; `naming[s]`: whom it talks to |
| `ArgumentAdapter` | both modes of the adapter | `next`, `vecArguments`, `lstErrors`: the loop of `Main`; `translated`: the file `<response>.bcc64x` |

`MC*` modules hold the constants of the runs, `*Proofs` the theorems. Operators whose
comment says *mutant* or *Plausible bug* are altered forms of the definition that
follows; no specification uses them, and each shows that a property can fail.

Every file operation, statement or call after which another process can run, or the
process can be killed, is an action. What has no state is data: a DLL is its SHA-256
class, a patched passage is one of five states, an MSVC option is the flags it becomes.

`SmokeScripts` keeps of every program each call that can fail, each handle and object
with a lifetime, each condition, early return, handler and report line, in the order of
the source; arguments and the values compared are left out. A call may fail or throw
each time it is made. `Reproducers` are two programs no target builds (`runtime.cpp` as
case `diagnostics`, `runtime-uncaught.cpp`): they are run, and exempt from what a gate
owes. Four constants name what the source does not do, and the properties except exactly
that:

* `Tolerated`, calls after whose failure a smoke may pass: a capture backend of
  OpenCV (`MSMF`), an OpenGL context (`glContext`), the deletion of a queue
  (`removed`), the file of `bitmapplusplus/consumer/main.cpp`, whose `remove` has its error
  discarded (33–34, `theFile removed`), and four answers of the streaming validation in
  `libxml2/consumer/main.c` that only choose how the element is validated (18–27).
* `Leftover`, what a smoke that passes may leave: that file.
* `Remains`, what a smoke that fails may leave: that file, the workbook of OpenXLSX, and
  the parser state of libxml2, which is cleaned up at 150 and 156, but not on the
  return at 139.
* `Outliving`, what may end after what it uses: the `XMLException` that
  `xerces-c/consumer/main.cpp` catches at 89. The handler runs after `~XercesRuntime` has
  called `Terminate` (20), and the object is destroyed when the handler ends.

`DependencyTree` is parametrised by a machine (where each name resolves, which files
are images, their tables); `PeImports` looks inside one such table. `LoaderProbe`
treats the diagnosis as one step because it loads no module that stays; that step's
contents are the other two modules.

## 3. Runs

| run | instance | what it shows |
|---|---|---|
| `staging_shared` | 2 targets in one directory, 1 DLL name, packages that agree or ship different images, 1 kill | `DeployedAsLogged`: a logged undisputed DLL is in the directory with the logged hash, whatever the interleaving; `InstallShipsLogged`: install copies exactly that, also after a kill; `Converges`: unless something foreign lies in the way, repeating the build ends with every target staged |
| `staging_single` | 1 target, 2 roots and the toolchain, 2 names, a DLL of the application or none, 1 package change, reconfiguration, 1 kill | `StagedClosure`: success means nothing skipped and one image per name; `RetiredGone`: no retired DLL is left |
| `staging_refresh` | 1 target, 1 DLL, replaced once | *violation* of `Refreshes`, see findings |
| `tree_small` | machines with 7 names: chains to the depth limit and beyond, cycles through the root and below it, bad names, broken tables, missing files; depth 4, 6 nodes, 2 descriptors | `Complete`, `WithinLimits`, `SummaryExact`, `Implements` (`ImportClosure`) |
| `pe_small` | all small images: one or two sections that overlap, reach beyond the file or the image; 16 addresses, 10 bytes | `SoundSectionsResolve`, `ReadersAgree`, `NothingUncounted` |
| `probe_small` | lists of up to 4 entries (limit 3), dependencies beside the executable, in the system, missing, bad or failing; runtimes loaded or not | `Balanced`, `FreshVerdicts`, `ExitCode` |
| `meson_variants` | Debug and Release, in turns or in parallel, 6 initial trees, 2 kills, 1 extraction | `MesonSeesPatches`, `ForeignKept` in both modes; `MesonSeesFiles`, `RefusedForCause`, `Completes` for variants that take turns |
| `db_scripts` | an empty, a version 2 and the shipped database; 2 findings, 2 Managers, 2 revisions, 2 interruptions; a connection that enforces foreign keys | `RevisionsInOrder`, `SharedIsLastDecision`, `SchemaComplete` |
| `db_reference_data` | the shipped database, foreign keys off | *violation* of `IdsStable`, see findings |
| `smoke_stage` | all smokes: 2 failing calls in any script, 1 slip of a parallel runtime at any point, 2 defects of the COM pointers, children that answer, answer late, wrongly or never, 2 naming runs at the same or different ports with 1 kill, calls that throw and services that hang | `NoFalseAlarm`, `PassIsDeserved`, `VerdictsAgree`, `NothingDangles`, `NothingLeftBehind`, `Ends` |
| `smoke_protocol` | the scripts, 1 failing call | *violation* of `ResultOnStdout`, see findings |
| `adapter_small` | all sequences of 1 to 4 arguments of 11 sorts; 3 response files, one refused, 2 further calls | `CompiledUnlessBad`, `NothingDropped`, `LinkedFresh` |

Each run also checks the module's `TypeOK`, except where two runs share a module; in
`LoaderProbe` and `ArgumentAdapter` it is a conjunct of `Balanced` and of `LinkedFresh`.

**Bounds.** *Staging*: a race needs two writers of one file; a third adds no new pair,
and the theorems hold for any number. One kill leaves every torn state a stager can
leave, and the proofs are for any number. Two roots give all collisions; two names let
one be handled while another waits. *Tree*: with limits 4/6/2 each of
the depth, node and descriptor limits is met alone, and missed. b, c and d below the root
a form chains and cycles of two and of three files, with and without the root, that are
shorter than the limits, so that only the visited set ends them; longer cycles are left to the theorems, which are for every graph. e is the last file in
reach of the recursion, f a file first met too deep and sometimes met again higher up, g
the one beyond the node limit. *PE*: 16 addresses make sums wrap; descriptors of 2 bytes cross section ends
in all ways. *Probe*: an entry, its dependency, a runtime both may need, and another
runtime give every way in which one entry can influence the next; a list longer than
the limit is among the settings. *Meson*: all four patched files, each in the states
a tree is found in; two kills tear two files. *Database*: two revisions make "latest"
differ from "any"; the first two interruptions already reach every prefix of the script
on top of every other. Foreign keys are enforced in `db_scripts`: `schema.sql` 1 and the
migration turn them on, but `reference-data.sql` sets nothing, and what it does then is
up to its connection. SQLite's default is off, and that is the run `db_reference_data`.
*Smokes*: `MaxFaults` 2 lets a second call fail while the first failure
is handled; `Elements` 3 and `Rounds` 2 give a thread a second element and a second
entry into a critical section while another one has one left; `MaxSlips` 1, because two
slips may cancel out in a sum (a blind spot of any checksum); `MaxDefects` 2 lets one
defect hide another one (`LifetimeKept` holds with all 13 as well); a collision of ports
needs two naming runs, and the proofs are for any number; `MaxAttempts` 2 has an attempt
before and after the service listens; one kill leaves one orphaned service. *Adapter*: four arguments hold an
`-mllvm` pair whose value is itself `-mllvm`, with one argument on either side.

**Deadlock.** `CHECK_DEADLOCK FALSE` stands where programs end (probe, tree, PE reader,
adapter) or where a build stops for good when a tree is refused and nobody retries
(Meson, staging with no valid manifest left once a root was removed). `staging_shared`,
`db_scripts` and `db_reference_data` check for deadlock, and so does `smoke_stage`:
`Finished` is a step only of smokes that are over, or wait for a service that hangs, so
that threads that wait for each
other at a lock or a barrier would be reported.

**Fairness.** *Staging*: weak fairness of each `Stager(t)`, since a started `cmake -P`
script runs on, and of `StartBuild(t, FALSE)`, since the developer keeps building and
every default build runs `buildengine-stage`, which has no output to be up to date.
Relinking, publication, configuration and kills are not fair. *Meson*: weak fairness of a started process and strong
fairness of `Start(r)`, since the scheduler gives a waiting variant its turn (with only
weak fairness the other variant could take every turn); no fairness for retry,
extraction or repair of the registry. *Smokes*: weak fairness
only of the processes that wait for others (the terminate smoke, the system that ends a
process it was told to end, each naming run), and only while they can take a step. The waits of the
terminate smoke (30 s) and of `ChildProcess::Stop` (5 s) have a limit, and the attempts of
`ConnectNaming` are counted, but the time of a CORBA call is not limited: no timeout is
set for the ORB. A service that hangs (`Hang`) gives no answer, the run is `Blocked`, no
fairness takes it on, and `Ends` excepts it. The children and services owe nothing.
That threads get on follows from the absence of deadlock.

## 4. Findings

* `Refreshes` (`staging_refresh`): after a package replaces a DLL under its old name,
  the stager finds its own earlier copy, takes it for a DLL of the application and stops
  (`BuildEngineStageRuntime.cmake` 112–117). The comment in `BuildEngineRuntime.cmake`
  103 promises a refresh on every default build. Deleting the copy is the only way out.
* `IdsStable` (`db_reference_data`): the shipped database has other ids than
  `reference-data.sql`; `INSERT OR REPLACE` on `UNIQUE(category_id, code)` replaces the
  rows under new ids. `security/README.md` 81 calls the ids stable. With foreign keys
  off, labels and assessments are orphaned; with them on, the script fails.
* `ResultOnStdout` (`smoke_protocol`): `tesseract/ocr/main.cpp` returns 2 to 7 after a
  failed check (21, 25, 29, ...) without a RESULT line, and `openxlsx/consumer/main.cpp`
  53 writes its RESULT to stderr. `smokes/README.md` 6 says that every executable writes
  the protocol, which ends with a RESULT line, to stdout. The exit code still tells.

Limits that the properties respect and no document contradicts: DLLs that no manifest
names any more stay in the directory; import tables are read up to 1024 descriptors
without a line that says so; variants that bootstrap *in parallel* may refuse a sound
tree or let Meson import an empty file in the instant between truncation and write; the
naming smoke talks to whatever answers at its port, and can pass against the service of
an earlier killed run; it waits without a limit for a service that accepts a call and does
not answer; and if a call fails between `rebind` (124) and `unbind` (133), by the return at
127 or an exception of 126, 129, 130 or 133, its binding stays in a service that is not its
own. `NoBindingLeft` then asks for a FAIL and no more. `ReportImports` computes the
address of a descriptor in 32 bits, `ReportDependencyTree` in 64: `ReadersAgree` is
stated for `Regular` images, on which the first does not wrap. A `schema.sql` that
ended early has set the version to 3: `SchemaComplete` speaks of databases that a script
has brought to its end. Of a target that retires a DLL and another one that deploys it
into the same directory, the last one wins: `RetiredGone` speaks of names nobody
disputes. Some checks cannot see certain slips of the runtime they test, for
instance element 0 left out of a sum, an assignment done twice, or a lock that lets
somebody through without consequences: `Unseen` in `ParallelChecks` lists these blind
spots, and `PassIsDeserved` holds but for them.

## 5. Proofs

Assumptions: only the named `ASSUME`s of the modules, evaluated by TLC, plus, where stated,
`~PublishWhileStaging`: packages do not change while a stager runs. The latter is a precondition of use: with
`PublishWhileStaging = TRUE` the source may change between `COPY_FILE` and the second
`file(SHA256)`, and the model then has a counterexample to `DeployedAsLogged`.

* **`RuntimeStagingProofs`**, for any numbers of targets, names, images, roots and kills.
  `StagingTypes` (`TypeOK` and `InRange`) needs no assumption on publication.
  `StagingInvariant` proves `StagingInv`, four parts that need each other:
  `LocalInv` (per stager: what is left to do is listed, log entries name a selected
  directory and its present image, everything behind the scan position is logged);
  `BufInv` (whoever writes an undisputed name writes its one image: without it two
  writers could garble it); `OutInv` (a vouched name holds that image, or is torn while
  somebody writes it, or after a kill while some target of the build still *owes* the
  name: the last case is what makes install correct although a kill leaves torn files);
  `RetiredInv` (a retired name is gone or still to be purged). `DeployedAsLogged` alone
  is not inductive: the compare branch logs a file because of what it found there, so
  the invariant must speak of names before they are logged, and of what other writers
  hold. From it: `ProvenanceIsTrue`, `NothingSkipped`, `NothingRetiredLeft`,
  `InstallIsTrue`.
* **`DependencyTreeProofs`**, for every machine and every limit: `TreeTypes`,
  `TreeLimits`, `TreeComplete`, `TreeImplements`, `SummaryCounts`. The invariant `TreeInv` says that only
  visited images are on the stack, that a call is the root or an import of the top, that
  no table is read before its file is visited, and (`CoverInv`) that each visited image
  is read to its end or on the stack, its finished descriptors leading to visited files
  or to the pending call; with an empty stack this is closure. `TreeImplements` maps
  `visited` to the abstract `found` and the lines LIMIT and SUMMARY to `answer`.
  `SummaryInv` says what the counters are in the middle of the walk, in terms of the
  descriptors below each loop index; a table that breaks off is counted when its image
  leaves the stack, which it entered once.
* **`MesonBootstrapProofs`**, for any number of variants, in parallel or in turns:
  `MesonTypes`, `MesonIsPatched` (a checked file is patched, or empty for a writer or
  because of a kill) and `ForeignFilesAreKept` (a foreign file has no writer, because
  the text to be written was computed from a text that fitted and only such a writer
  changes a file; then no step writes it). For variants that take turns, `MesonFindsFiles`
  and `RefusalsHaveCause`. `TurnsInv` is what turns give: one process works (`Alone`), it
  opens only files that lack a patch, and what it has passed stays patched; the three need
  each other. `EmptyAttributed` says that an empty file is owed to a kill or to a writer.
* **`PeImportsProofs`**, for every set of images and every word width: `PeTypes`,
  `EverythingCounted`, `ReadersGiveSame`, `SoundSections` (a section whose raw range was accepted has each
  of its ranges inside the file, so the set of hits is not empty and the chosen minimum
  is inside as well). For the two readers, `AgreeInv`: on a regular image both
  loops end at the first null descriptor, and the tree has followed the names of DLLs
  among the texts that were reported for the descriptors before its index.
* **`LoaderProbeProofs`**, for any machine, list and runtimes: `ProbeBalanced`,
  `VerdictsAreFresh`, `ExitCodeTells`, with the types in `Balanced`. `ProbeInv` says which
  modules are held beyond those the process started with: the entry that was just
  loaded, or the runtime the report has borrowed, and nothing before a verdict. Without
  that part the verdicts are not inductive, since `Load` judges by what is held. The exit
  code counts passes; `AllOf` (a part of 1..n with n members is all of it) turns the count
  into "every entry".
* **`SecurityDbProofs`**, for any findings, Managers, revisions and interruptions:
  `DbTypes`, `RevisionsNumbered`, `SchemaGetsComplete`; and with `\A e \in Enforcement : e`
  `SharedIsDecision`: on a connection with foreign keys off, `reference-data.sql` can take
  the row away that says "shared". The script sets no pragma, so this is an assumption on
  whoever runs it, and no theorem about what reference values mean is stated under it; what
  happens without it is the finding `IdsStable`. The
  invariant: an id stands for one code and a code has one row (`ValuesInv`), the revisions
  of a finding are 1 to n in n rows (`RowsInv`), what a Manager has read is one of them or
  0 (`EditInv`), so that a save that meets no equal revision is the next one; a prefix of
  the tables exists while `schema.sql` runs (`SchemaInv`); saved rows refer to values that
  are there, and the latest one says what was saved last (`LastInv`).
* **`ArgumentAdapterProofs`**, for any arguments, response files, calls and kills:
  `AdapterTypes`, `CompilesUnlessBad`, `NoFlagIsDropped`, `LinkerReadsFresh`. The scanner takes pairs and the
  property speaks of positions: the invariant `EvenRun` says that an even number of
  `-mllvm` stands directly before the next argument, so both agree on what is a value.
  `FlagInv`: the arguments before `next` have given what is their own, in order, the others
  nothing yet, and the additions come last.
* **`SmokeStageProofs`**, inside the composed specification; its invariants are in
  `SmokeInvariants`, where TLC can evaluate them on the states of `smoke_stage`:
  * *Naming smokes*, for any number of runs, ports, attempts and kills, overlapping or
    not, with calls that fail or throw at any step and services that hang:
    `NamingInvariant`, `NothingLeftByNaming`, `NamingFailsForCause`. The invariant
    says who owns which service (`OwnInv`), that a run talks to a service that has listened
    at its port (`TalkInv`), where a name can be bound, a run whose call has failed
    included (`BindInv`), and that whatever disturbs a run was done by another one at its
    port (`CauseInv`).
  * *Terminate smoke*, whatever its children do: `TerminateSmokeIsRight`. `TurnInv` says
    where `Child` stands (a case is untouched before its turn, has a child while it lasts,
    and an answer afterwards), `AnswerInv` what an answer says of the child.
  * *WIL smoke*, for any number of defects: `ComLifetimeKept`, where `CountInv` relates the
    counts of the mock to the pointers that are held; and `OneDefectIsNoticed`, where
    `NoticeInv` says at each step of `main` which defects the checks so far have excluded,
    and what the counts are if the library has one of the others.
  * *Scripted smokes*, whatever calls fail and however many: `ScriptedSmokesAreRight`,
    `ReportsAndExitCodesAgree`, `NothingUsedAfterItsEnd`. The proofs do not go through the
    programs; they use the assumptions about `Scripts` in `SmokeRules`, which TLC evaluates
    for every program.
    `Knowledge` gives for each instruction, and for each *trace* ("this call has failed",
    "this handle is open", "a check has failed"), whether `main` can get there with the
    trace, and which conditions hold then and which do not. The assumptions are local: one
    instruction and its successor or handler (`Follows`, `WellNested`), or one return
    (`ReturnsDeserved`, `ReportsAgree`, `SoundReturnsZero`). What the proof adds is that
    local rules are enough on every path with any number of failures: `ScriptInv` says
    that the blocks on the stack are those the table names (`NestInv`), that a trace that
    is true at an instruction is one the table admits there, with its conditions
    (`KnownInv`), in `run`, on the way to a handler and out of `main` (`LeaveInv`), and
    what a finished program has reported (`VerdictInv`). TLC's run stops at two failing
    calls; the theorems do not.
  * *Lifetimes in the scripted smokes*: `NothingUsedAfterItsEnd` needs two more rules.
    `WellScoped` says what is in scope at each instruction; `UsedInTime`, that `main`
    touches an object only in its scope and where it has turned out well, and a handle only
    where the trace "this one is closed or was not opened" is excluded. `StackInv`: the
    stack is what is in scope, in the order of declaration, except for what is being
    unwound. `DangleInv`: what is on the stack exists; a handle is closed after its users,
    and an object that uses another one lies above it on the stack, unless it is one of
    `Outliving`, about which the theorem says nothing. The first without the
    second does not say who uses whom, the second without the first is not kept by a throw,
    which leaves several blocks at once.
  * *Smokes of OpenMP and oneTBB*, for any number of elements and rounds: their types
    (`ThreadsTyped`); `NoCorrectRuntimeAccused`, for any number of slips; and
    `OneSlipIsNoticed`, for at most one. Of the programs only `ListsAssumption` (their
    shape) and `ChecksAssumption` of `SmokeRules` are used: which body goes with which
    verdict, and of the `synchronization` check, which is longer, that each thread increments both counters `Rounds` times, the
    first one between `lock` and `unlock`, before barrier and `single` (`Synchronizes`).
    A verdict speaks of the end, so the invariant is a *conservation law* for each kind of
    work, and a slip is the term that is missing in it:
    for each element, its visits, the hands that hold it and whether it is still to be
    taken make 1, plus 1 if it was handed out again, minus 1 if it or its visit was lost
    (`VisitLaw`, `AssignLaw`); what was summed up or counted, what threads are about to add
    and what is to be taken make the whole sum, again but for a slip (`TotalLaw`); each
    increment of `synchronization` was made by a thread that has it behind it, and nobody is
    behind the barrier before all have arrived (`SyncLaw`); the holder of the lock is the
    only one in the critical section and what it has loaded is still there (`LockLaw`,
    without which an increment could be lost and `TotalLaw` is not inductive). `SortLaw`
    carries a wrong order from `parallel-sort` to `concurrent-vector`, the first check
    that compares. `Judged` puts them together: when everybody is through, the law without
    a slip is the verdict, and with one it refutes it.
    A sum over the elements is the cardinality of a set of pairs (`Units`), which replaces
    the induction by the library's facts on cardinality; that the sum of 0 to n - 1 is the
    `Expected` of the sources holds because the pairs are half of a rectangle (`Triangle`).
    At most one slip, because two may make up for each other: an element that is handed out
    again and a dropped increment leave the counter right.
  * *All together*: `SmokesTyped`, `NothingIsLeftBehind`, `NoCorrectLibraryAccused` and
    `PassesAreDeserved`, from the parts above.

**Only model-checked.** Liveness (`Converges`, `Completes`, `Ends`), which
TLAPS does not handle under fairness. That the tree walk ends is not stated: the depth
and node limits (`TreeLimits`) and the loop limit end it whatever the visited set does;
what the visited set is for, that no file is counted twice and none is missed, is
`SummaryCounts` and `TreeComplete`. Every invariant and every action property that a
passing run checks is a theorem, where stated under the conditions above;
`PassIsDeserved` for `MaxSlips \in {0, 1}`. What the
programs of the smokes are is not proved but evaluated: the assumptions of `SmokeRules` hold
for `AllScripts` and `AllLists`, in the run `smoke_stage`.

## 6. Abstractions worth knowing

* CMake: a toolchain list keeps the caller's order (any order in the model), globs are
  sorted. `file(REMOVE)` and `COPY_FILE` may fail on a file in use; a killed process
  leaves what it had written. Two writers of one file with different images may garble
  it (`Torn`); with equal images they do not.
* Python: `Path.write_text` is an open that truncates and one write.
* Windows loader: an image is read before its imports; imports missing, bad or failing
  make the load fail; a module stays while it or an importer is referenced.
* SQLite: a script without `BEGIN` commits statement by statement; `INSERT OR REPLACE`
  deletes rows that conflict in any unique key.
* Naming service: a service whose port is taken ends; a call to one that is gone throws;
  any other call may throw or give nil, before or after it has done its work
  (`create_reference` at 118, which is local, as well); one to a service that hangs is not
  answered, and ends with the service or its smoke.

## 7. Not modelled

* *BCC64X toolchain rules* (`bcc64x-rules.cmake`, toolchain file): assignments of CMake
  variables and a policy check at configure time. The archive rule (`rm`, `ar qc`, index,
  222) is three commands whose failure leaves an archive without index or none; whether
  it is made again is a matter of Ninja.
* *Library inventory* (`build-libraries.xml`): a catalogue; its interpreter is private.
* *Consumer helper, C shims, package build files*: no state.
* *Python / web helpers*: copy or extract one thing.
* Functions of the Boost sources that nothing calls: the text archive and `operator<<`
  across the DLL boundary.
* Logging, formatting, path normalisation, hashing itself, the rules for single MSVC
  options; of `DiagnoseImage` the printout of load-config, TLS and a `SEC_IMAGE` mapping
  (236–330), which changes nothing and whose RVAs go through the modelled `rawOffset`.

## 8. Plan

Order of work: shared state first (staging, Meson), then the long-running sequential
programs (probe, tree, PE), then database, adapter and smokes; proofs follow each module
once TLC agrees. Done: all modules and runs above; theorems about every component.

Worth modelling next (a new composition replaces the run it subsumes):
1. `ProbeDiagnosis`: `LoaderProbe` composed with `DependencyTree` over one machine: when
   Windows reports a bad image and the tree report is complete, it names at least one
   invalid or missing file.
2. `ArchiveRules`: remove, create and index under kills and repeated builds.
3. The helpers that extract or copy, with a stop between two steps.
4. An atomic deployment that `RuntimeStaging` implements for undisputed names, and a
   register of decisions that `SecurityDb` implements.
