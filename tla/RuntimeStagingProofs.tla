----------------------- MODULE RuntimeStagingProofs -------------------------
(***************************************************************************)
(* Proofs about RuntimeStaging, for any number of targets, names, packages *)
(* and images.                                                             *)
(***************************************************************************)
EXTENDS RuntimeStaging, TLAPS

LEMMA DirType ==
    ASSUME NEW m \in Requests, NEW i \in 0..LastDir(m)
    PROVE  Dir(m, i) \in Dirs
<1>1. m.roots \in Seq(Roots) /\ m.cfg \in BuildTypes
  BY RequestsAssumption
<1>2. CASE i = 0
  BY <1>2 DEF Dir, Dirs
<1>3. CASE i # 0
  <2>1. Len(m.roots) \in Nat /\ i \in 1..(2 * Len(m.roots))
    BY <1>1, <1>3 DEF LastDir
  <2>2. (i + 1) \div 2 \in 1..Len(m.roots)
    BY <2>1
  <2>3. m.roots[(i + 1) \div 2] \in Roots
    BY <1>1, <2>2
  <2> QED BY <1>1, <1>3, <2>3 DEF Dir, Dirs
<1> QED BY <1>2, <1>3

\* The source of a running stager is one of the directories.
LEMMA SourceType ==
    ASSUME InRange, NEW t \in Targets, Active(t)
    PROVE  Source(t) \in Dirs
BY DirType DEF InRange, Source

LEMMA InitType == Init => TypeOK /\ InRange
<1> SUFFICES ASSUME Init PROVE TypeOK /\ InRange
  OBVIOUS
<1>1. NoLog \in [src : Dirs, hash : Images \cup {NoFile}]
  BY DEF NoLog, Dirs
<1>2. TypeOK
  BY <1>1, LayoutsAssumption, ImagesAssumption, BoundsAssumption
  DEF Init, TypeOK, Phases, Ended
<1>3. InRange
  BY DEF Init, InRange, Active, Ended, Staging
<1> QED BY <1>2, <1>3

\* What a step of the stager of t has to show about its scan position.
LEMMA InRangeStep ==
    ASSUME InRange, NEW t \in Targets, manifest' = manifest,
           \A u \in Targets \ {t} :
             /\ pc'[u] = pc[u] /\ at'[u] = at[u]
             /\ cur'[u] = cur[u] /\ passes'[u] = passes[u],
           Active(t)' => /\ manifest[t] \in Requests
                         /\ at'[t] \in 0..LastDir(manifest[t])
                         /\ passes'[t] \in 1..2,
           pc'[t] \in Staging => cur'[t] \in Names
    PROVE  InRange'
<1> SUFFICES ASSUME NEW u \in Targets
             PROVE  /\ Active(u)' => /\ manifest'[u] \in Requests
                                     /\ at'[u] \in 0..LastDir(manifest'[u])
                                     /\ passes'[u] \in 1..2
                    /\ pc'[u] \in Staging => cur'[u] \in Names
  BY DEF InRange, LastDir
<1>1. CASE u = t
  BY <1>1
<1>2. CASE u # t
  BY <1>2 DEF InRange, Active
<1> QED BY <1>1, <1>2

\* A stager's step keeps the types.
LEMMA StagerType ==
    ASSUME TypeOK, InRange, NEW t \in Targets, Stager(t)
    PROVE  TypeOK' /\ InRange'
<1> USE DEF packageVars, scanVars
<1>a. NoLog \in [src : Dirs, hash : Images \cup {NoFile}]
  BY DEF NoLog, Dirs
<1>b. Active(t) => /\ Source(t) \in Dirs
                   /\ manifest[t] \in Requests
                   /\ manifest[t].excl \subseteq Names
                   /\ manifest[t].tool \subseteq Names
                   /\ LastDir(manifest[t]) \in Nat
                   /\ at[t] \in 0..LastDir(manifest[t])
                   /\ passes[t] \in 1..2
  BY SourceType, RequestsAssumption DEF InRange, LastDir
<1>c. pc[t] \in Staging => cur[t] \in Names /\ Active(t)
  BY DEF InRange, Staging, Active, Ended
<1>d. pc[t] \in {"purge", "scan"} => Active(t)
  BY DEF Active, Ended
<1>e. /\ pc \in [Targets -> Phases]
      /\ at \in [Targets -> Nat]
      /\ cur \in [Targets -> Names \cup {0}]
      /\ passes \in [Targets -> 0..2]
      /\ files \in [Targets -> SUBSET Names]
      /\ out \in [Names -> Images \cup {NoFile, Torn}]
      /\ log \in [Targets -> [Names -> [src : Dirs, hash : Images \cup {NoFile}]]]
  BY DEF TypeOK
<1>1. CASE Purge(t)
  <2>1. TypeOK'
    <3>0. PICK n \in files[t] :
            \/ /\ out' = [out EXCEPT ![n] = NoFile]
               /\ files' = [files EXCEPT ![t] = @ \ {n}]
            \/ UNCHANGED <<out, files>>
      BY <1>1, Zenon DEF Purge
    <3>1. out' \in [Names -> Images \cup {NoFile, Torn}]
      BY <1>e, <3>0
    <3>2. pc' \in [Targets -> Phases]
      BY <1>1, <1>e DEF Purge, Fail, Phases, Ended
    <3>4. files[t] \ {n} \in SUBSET Names
      BY <1>e
    <3>3. files' \in [Targets -> SUBSET Names]
      BY <1>e, <3>0, <3>4
    <3> QED BY <1>1, <3>1, <3>2, <3>3 DEF Purge, TypeOK
  <2>2. InRange'
    BY <1>1, <1>b, <1>c, <1>d, <1>e, InRangeStep
    DEF Purge, Fail, Active, Ended, Staging
  <2> QED BY <2>1, <2>2
<1>2. CASE PurgeEnd(t)
  <2>1. TypeOK'
    BY <1>2, <1>b, <1>d DEF PurgeEnd, TypeOK, Phases, Ended
  <2>2. InRange'
    BY <1>2, <1>b, <1>c, <1>d, <1>e, InRangeStep
    DEF PurgeEnd, Fail, Active, Ended, Staging
  <2> QED BY <2>1, <2>2
<1>3. CASE NextDir(t)
  <2>1. TypeOK'
    <3>a. at[t] + 1 \in Nat
      BY <1>e
    <3>b. Listed(manifest[t], at[t] + 1) \subseteq Names
      BY <1>3, <1>b, <1>d DEF NextDir, Listed
    <3>1. at' \in [Targets -> Nat] /\ files' \in [Targets -> SUBSET Names]
      BY <1>3, <1>e, <3>a, <3>b DEF NextDir
    <3>2. pc' \in [Targets -> Phases]
      BY <1>3, <1>e DEF NextDir, Fail, Phases, Ended
    <3> QED BY <1>3, <3>1, <3>2 DEF NextDir, TypeOK
  <2>2. InRange'
    <3>1. \A u \in Targets \ {t} :
            /\ pc'[u] = pc[u] /\ at'[u] = at[u]
            /\ cur'[u] = cur[u] /\ passes'[u] = passes[u]
      BY <1>3, <1>e DEF NextDir, Fail
    <3>2. /\ manifest' = manifest /\ manifest[t] \in Requests
          /\ at'[t] \in 0..LastDir(manifest[t])
          /\ Active(t)' => passes'[t] \in 1..2
      BY <1>3, <1>b, <1>d, <1>e DEF NextDir, Fail, Active, Ended
    <3>3. pc'[t] \in Staging => cur'[t] \in Names
      BY <1>3, <1>e DEF NextDir, Fail, Staging
    <3> QED BY <3>1, <3>2, <3>3, InRangeStep
  <2> QED BY <2>1, <2>2
<1>4. CASE PassEnd(t)
  <2>1. TypeOK'
    <3> DEFINE purged == {n \in manifest[t].excl : out[n] # NoFile}
               fresh == [n \in Names |-> NoLog]
    <3>a. purged \in SUBSET Names
      BY <1>4, <1>b, <1>d DEF PassEnd
    <3>b. fresh \in [Names -> [src : Dirs, hash : Images \cup {NoFile}]]
      BY <1>a
    <3>c. \/ /\ pc' = [pc EXCEPT ![t] = "purge"]
             /\ files' = [files EXCEPT ![t] = purged]
             /\ at' = [at EXCEPT ![t] = 0]
             /\ log' = [log EXCEPT ![t] = fresh]
          \/ /\ pc' = [pc EXCEPT ![t] = "done"]
             /\ UNCHANGED <<at, files, log>>
      BY <1>4 DEF PassEnd, BeginPass
    <3> HIDE DEF purged, fresh
    <3>1. at' \in [Targets -> Nat] /\ files' \in [Targets -> SUBSET Names]
      BY <1>e, <3>a, <3>c
    <3>2. pc' \in [Targets -> Phases]
      BY <1>e, <3>c DEF Phases, Ended
    <3>3. log' \in [Targets -> [Names -> [src : Dirs, hash : Images \cup {NoFile}]]]
      BY <1>e, <3>b, <3>c
    <3>4. passes' \in [Targets -> 0..2]
      BY <1>4, <1>b, <1>d, <1>e DEF PassEnd
    <3> QED BY <1>4, <3>1, <3>2, <3>3, <3>4 DEF PassEnd, TypeOK
  <2>2. InRange'
    <3>1. \A u \in Targets \ {t} :
            /\ pc'[u] = pc[u] /\ at'[u] = at[u]
            /\ cur'[u] = cur[u] /\ passes'[u] = passes[u]
      BY <1>4, <1>e DEF PassEnd, Fail, BeginPass
    <3>2. /\ manifest' = manifest /\ manifest[t] \in Requests
          /\ at'[t] \in 0..LastDir(manifest[t])
          /\ Active(t)' => passes'[t] \in 1..2
      BY <1>4, <1>b, <1>d, <1>e DEF PassEnd, Fail, BeginPass, Active, Ended
    <3>3. pc'[t] \in Staging => cur'[t] \in Names
      BY <1>4, <1>e DEF PassEnd, Fail, BeginPass, Staging
    <3> QED BY <3>1, <3>2, <3>3, InRangeStep
  <2> QED BY <2>1, <2>2
<1>5. CASE StageDll(t)
  <2>1. TypeOK'
    <3>1. PICK n \in Names : /\ files' = [files EXCEPT ![t] = @ \ {n}]
                             /\ cur' = cur \/ cur' = [cur EXCEPT ![t] = n]
      BY <1>5 DEF StageDll
    <3>2. \E x \in Phases : pc' = pc \/ pc' = [pc EXCEPT ![t] = x]
      BY <1>5 DEF StageDll, Fail, Phases, Ended, Staging
    <3>3. /\ files' \in [Targets -> SUBSET Names]
          /\ cur' \in [Targets -> Names \cup {0}]
      BY <1>e, <3>1
    <3>4. pc' \in [Targets -> Phases]
      BY <1>e, <3>2
    <3> QED BY <1>5, <3>3, <3>4 DEF StageDll, TypeOK
  <2>2. InRange'
    <3>1. \A u \in Targets \ {t} :
            /\ pc'[u] = pc[u] /\ at'[u] = at[u]
            /\ cur'[u] = cur[u] /\ passes'[u] = passes[u]
      BY <1>5, <1>e DEF StageDll, Fail
    <3>2. /\ manifest' = manifest /\ manifest[t] \in Requests
          /\ at'[t] \in 0..LastDir(manifest[t])
          /\ Active(t)' => passes'[t] \in 1..2
      BY <1>5, <1>b, <1>d, <1>e DEF StageDll, Fail, Active, Ended
    <3>3. pc'[t] \in Staging => cur'[t] \in Names
      BY <1>5, <1>e DEF StageDll, Fail, Staging
    <3> QED BY <3>1, <3>2, <3>3, InRangeStep
  <2> QED BY <2>1, <2>2
<1>6. CASE Compare(t)
  <2>1. TypeOK'
    BY <1>6 DEF Compare, Fail, TypeOK, Phases, Ended, Staging
  <2>2. InRange'
    BY <1>6, <1>b, <1>c, <1>d, <1>e, InRangeStep
    DEF Compare, Fail, Active, Ended, Staging
  <2> QED BY <2>1, <2>2
<1>7. CASE CopyCheck(t)
  <2>1. TypeOK'
    BY <1>7 DEF CopyCheck, Fail, TypeOK, Phases, Ended, Staging
  <2>2. InRange'
    BY <1>7, <1>b, <1>c, <1>d, <1>e, InRangeStep
    DEF CopyCheck, Fail, Active, Ended, Staging
  <2> QED BY <2>1, <2>2
<1>8. CASE CopyOpen(t)
  <2>1. pkg[Source(t)][cur[t]] \in Images \cup {NoFile} /\ cur[t] \in Names
    BY <1>8, <1>b, <1>c DEF CopyOpen, TypeOK, Staging
  <2>2. TypeOK'
    BY <1>8, <2>1 DEF CopyOpen, Fail, TypeOK, Phases, Ended, Staging
  <2>3. InRange'
    BY <1>8, <1>b, <1>c, <1>d, <1>e, InRangeStep
    DEF CopyOpen, Fail, Active, Ended, Staging
  <2> QED BY <2>2, <2>3
<1>9. CASE CopyEnd(t)
  <2>1. TypeOK'
    BY <1>9 DEF CopyEnd, Blends, TypeOK, Phases, Ended, Staging
  <2>2. InRange'
    BY <1>9, <1>b, <1>c, <1>d, <1>e, InRangeStep
    DEF CopyEnd, Fail, Active, Ended, Staging
  <2> QED BY <2>1, <2>2
<1>10. CASE LogDll(t)
  <2>1. Source(t) \in Dirs /\ cur[t] \in Names
    BY <1>10, <1>b, <1>c DEF LogDll, Staging
  <2>2. log' \in [Targets -> [Names -> [src : Dirs, hash : Images \cup {NoFile}]]]
    <3> DEFINE img == pkg[Source(t)][cur[t]]
               new == [src |-> Source(t), hash |-> img]
    <3>1. new \in [src : Dirs, hash : Images \cup {NoFile}]
      BY <2>1 DEF TypeOK
    <3>2. log' = log \/ log' = [log EXCEPT ![t] = [log[t] EXCEPT ![cur[t]] = new]]
      BY <1>10 DEF LogDll
    <3> HIDE DEF new
    <3>3. log[t] \in [Names -> [src : Dirs, hash : Images \cup {NoFile}]]
      BY DEF TypeOK
    <3>4. [log[t] EXCEPT ![cur[t]] = new] \in [Names -> [src : Dirs, hash : Images \cup {NoFile}]]
      BY <2>1, <3>1, <3>3
    <3> QED BY <3>2, <3>4 DEF TypeOK
  <2>3. TypeOK'
    BY <1>10, <2>2 DEF LogDll, Fail, TypeOK, Phases, Ended, Staging
  <2>4. InRange'
    BY <1>10, <1>b, <1>c, <1>d, <1>e, InRangeStep
    DEF LogDll, Fail, Active, Ended, Staging
  <2> QED BY <2>3, <2>4
<1> QED BY <1>1, <1>2, <1>3, <1>4, <1>5, <1>6, <1>7, <1>8, <1>9, <1>10 DEF Stager

\* Building, publishing, configuring, killing and installing keep the types.
LEMMA OtherType ==
    ASSUME TypeOK, InRange, [Next]_vars, \A t \in Targets : ~Stager(t)
    PROVE  TypeOK' /\ InRange'
<1> USE DEF packageVars, scanVars
<1>a. NoLog \in [src : Dirs, hash : Images \cup {NoFile}]
  BY DEF NoLog, Dirs
<1>e. /\ pc \in [Targets -> Phases]
      /\ at \in [Targets -> Nat]
      /\ passes \in [Targets -> 0..2]
      /\ manifest \in [Targets -> Requests \cup {NoRequest}]
      /\ pkg \in [Dirs -> [Names -> Images \cup {NoFile}]]
      /\ pubs \in 0..MaxPublish /\ kills \in 0..MaxKills
      /\ MaxPublish \in Nat /\ MaxKills \in Nat
  BY BoundsAssumption DEF TypeOK
<1>f. Outdated \in [Targets -> Phases] /\ \A t \in Targets :
         Outdated[t] = pc[t] \/ Outdated[t] = "idle"
  BY <1>e DEF Outdated, Phases, Ended
<1>g. ASSUME pc' = Outdated, UNCHANGED <<manifest, at, passes, cur>>
      PROVE  InRange'
  BY <1>f, <1>g DEF InRange, Active, Ended, Staging, LastDir
<1>1. ASSUME NEW d \in Dirs, NEW n \in Names, NEW img \in Images \cup {NoFile},
             Publish(d, n, img)
      PROVE  TypeOK' /\ InRange'
  <2>1. pkg' \in [Dirs -> [Names -> Images \cup {NoFile}]]
    BY <1>1, <1>e DEF Publish
  <2>2. pubs' \in 0..MaxPublish
    BY <1>1, <1>e DEF Publish, MayPublish
  <2> QED BY <1>1, <2>1, <2>2, <1>f, <1>g DEF Publish, TypeOK
<1>2. ASSUME NEW r \in Roots, RemoveRoot(r)
      PROVE  TypeOK' /\ InRange'
  <2>1. pkg' \in [Dirs -> [Names -> Images \cup {NoFile}]]
    BY <1>2, <1>e DEF RemoveRoot
  <2>2. pubs' \in 0..MaxPublish
    BY <1>2, <1>e DEF RemoveRoot, MayPublish
  <2> QED BY <1>2, <2>1, <2>2, <1>f, <1>g DEF RemoveRoot, TypeOK
<1>3. ASSUME NEW t \in Targets, NEW m \in Requests, Configure(t, m)
      PROVE  TypeOK' /\ InRange'
  <2>1. TypeOK'
    BY <1>3, <1>e DEF Configure, TypeOK, Phases, Ended
  <2>2. InRange'
    BY <1>3 DEF Configure, InRange, Active, Ended, Staging
  <2> QED BY <2>1, <2>2
<1>4. ASSUME NEW t \in Targets, NEW relink \in BOOLEAN, StartBuild(t, relink)
      PROVE  TypeOK' /\ InRange'
  <2> DEFINE purged == {n \in manifest[t].excl : out[n] # NoFile}
             fresh == [n \in Names |-> NoLog]
  <2>a. manifest[t] \in Requests
    BY <1>4, <1>e DEF StartBuild
  <2>b. purged \in SUBSET Names /\ LastDir(manifest[t]) \in Nat
    BY <2>a, RequestsAssumption DEF LastDir
  <2>c. fresh \in [Names -> [src : Dirs, hash : Images \cup {NoFile}]]
    BY <1>a
  <2>d. /\ log' = [log EXCEPT ![t] = fresh]
        /\ \/ /\ pc' = [pc EXCEPT ![t] = "purge"]
              /\ files' = [files EXCEPT ![t] = purged]
              /\ at' = [at EXCEPT ![t] = 0]
              /\ \E k \in 1..2 : passes' = [passes EXCEPT ![t] = k]
           \/ /\ pc' = [pc EXCEPT ![t] = "failed"]
              /\ UNCHANGED <<files, at, passes>>
        /\ UNCHANGED <<pkg, rootDirs, pubs, manifest, out, installed, cur, buf, kills>>
    BY <1>4 DEF StartBuild, BeginPass, Fail
  <2> HIDE DEF purged, fresh
  <2>1. /\ files' \in [Targets -> SUBSET Names]
        /\ at' \in [Targets -> Nat]
        /\ passes' \in [Targets -> 0..2]
    <3>1. files' \in [Targets -> SUBSET Names]
      BY <2>b, <2>d DEF TypeOK
    <3>2. at' \in [Targets -> Nat]
      BY <2>d, <1>e
    <3>3. passes' \in [Targets -> 0..2]
      BY <2>d, <1>e
    <3> QED BY <3>1, <3>2, <3>3
  <2>2. log' \in [Targets -> [Names -> [src : Dirs, hash : Images \cup {NoFile}]]]
    BY <2>c, <2>d DEF TypeOK
  <2>3. pc' \in [Targets -> Phases]
    BY <2>d, <1>e DEF Phases, Ended
  <2>4. TypeOK'
    BY <2>d, <2>1, <2>2, <2>3 DEF TypeOK
  <2>5. \A u \in Targets \ {t} :
          /\ pc'[u] = pc[u] /\ at'[u] = at[u]
          /\ cur'[u] = cur[u] /\ passes'[u] = passes[u]
    BY <2>d, <1>e DEF TypeOK
  <2>6. Active(t)' => at'[t] \in 0..LastDir(manifest[t]) /\ passes'[t] \in 1..2
    BY <2>b, <2>d, <1>e DEF Active, Ended
  <2>7. pc'[t] \notin Staging
    BY <2>d, <1>e DEF Staging
  <2>8. InRange'
    BY <2>a, <2>d, <2>5, <2>6, <2>7, InRangeStep
  <2> QED BY <2>4, <2>8
<1>5. ASSUME NEW t \in Targets, Kill(t)
      PROVE  TypeOK' /\ InRange'
  <2>1. buf' \in [Targets -> Images \cup {Torn}]
    BY <1>5 DEF Kill, Blends, TypeOK
  <2>2. pc' \in [Targets -> Phases]
    BY <1>5, <1>e DEF Kill, Phases, Ended
  <2>3. kills' \in 0..MaxKills
    BY <1>5, <1>e DEF Kill
  <2>4. TypeOK'
    BY <1>5, <2>1, <2>2, <2>3 DEF Kill, TypeOK
  <2>5. InRange'
    BY <1>5, <1>e DEF Kill, InRange, Active, Ended, Staging
  <2> QED BY <2>4, <2>5
<1>6. CASE Install
  <2>1. installed' \in [Names -> Images \cup {NoFile, Torn}]
    BY <1>6 DEF Install, TypeOK
  <2> QED BY <1>6, <2>1 DEF Install, TypeOK, InRange, Active
<1>7. CASE UNCHANGED vars
  BY <1>7 DEF vars, TypeOK, InRange, Active
<1> QED BY <1>1, <1>2, <1>3, <1>4, <1>5, <1>6, <1>7 DEF Next, Environment

\* Type correctness: every reachable state has the declared types, and a
\* running stager never scans a directory its manifest does not name.
THEOREM StagingTypes == Spec => [](TypeOK /\ InRange)
<1>1. TypeOK /\ InRange /\ [Next]_vars => (TypeOK /\ InRange)'
  BY StagerType, OtherType
<1> QED BY InitType, <1>1, PTL DEF Spec

-----------------------------------------------------------------------------
(***************************************************************************)
(* The staging invariant.                                                  *)
(***************************************************************************)

\* What is selected and what is disputed depends on packages and arguments.
LEMMA SelectionFrame ==
    ASSUME pkg' = pkg, manifest' = manifest
    PROVE  /\ \A t, i, n : Selects(t, i, n)' <=> Selects(t, i, n)
           /\ \A n : Undisputed(n)' <=> Undisputed(n)
           /\ \A m, i : Listed(m, i)' = Listed(m, i)
           /\ \A t \in Targets : at'[t] = at[t] => Source(t)' = Source(t)
<1>1. \A m, i : Listed(m, i)' = Listed(m, i)
  BY DEF Listed
<1>2. \A t, i, n : Selects(t, i, n)' <=> Selects(t, i, n)
  BY <1>1 DEF Selects
<1>3. \A n : Undisputed(n)' <=> Undisputed(n)
  BY <1>2 DEF Undisputed
<1>4. \A t \in Targets : at'[t] = at[t] => Source(t)' = Source(t)
  BY DEF Source
<1> QED BY <1>1, <1>2, <1>3, <1>4

\* Two targets that select an undisputed name mean the same image, and no
\* target retires it.
LEMMA UndisputedImage ==
    ASSUME NEW n, Undisputed(n), NEW t \in Targets, NEW u \in Targets, NEW i, NEW j,
           Selects(t, i, n), Selects(u, j, n)
    PROVE  /\ pkg[Dir(manifest[t], i)][n] = pkg[Dir(manifest[u], j)][n]
           /\ n \notin manifest[u].excl
<1>1. i \in 0..LastDir(manifest[t]) /\ j \in 0..LastDir(manifest[u])
  BY DEF Selects
<1> QED BY <1>1 DEF Undisputed

\* A step of stager t leaves the bookkeeping of the others alone.
LEMMA LocalFrame ==
    ASSUME LocalInv, NEW t \in Targets, pkg' = pkg, manifest' = manifest,
           \A u \in Targets \ {t} :
             /\ pc'[u] = pc[u] /\ at'[u] = at[u] /\ files'[u] = files[u]
             /\ cur'[u] = cur[u] /\ log'[u] = log[u],
           (ScanOk(t) /\ LogOk(t) /\ PassedOk(t))'
    PROVE  LocalInv'
<1> SUFFICES ASSUME NEW u \in Targets PROVE (ScanOk(u) /\ LogOk(u) /\ PassedOk(u))'
  BY DEF LocalInv
<1>1. CASE u = t
  BY <1>1
<1>2. CASE u # t
  <2>0. /\ pc'[u] = pc[u] /\ at'[u] = at[u] /\ files'[u] = files[u]
        /\ cur'[u] = cur[u] /\ log'[u] = log[u]
        /\ Source(u)' = Source(u)
    BY <1>2, SelectionFrame
  <2>1. ScanOk(u)'
    BY <2>0, SelectionFrame DEF LocalInv, ScanOk
  <2>2. LogOk(u)'
    BY <2>0, SelectionFrame DEF LocalInv, LogOk, Logged
  <2>3. PassedOk(u)'
    BY <2>0, SelectionFrame DEF LocalInv, PassedOk, Passed
  <2> QED BY <2>1, <2>2, <2>3
<1> QED BY <1>1, <1>2

\* The types a stager's step is computed with.
LEMMA ScanTypes ==
    ASSUME TypeOK, InRange, NEW t \in Targets
    PROVE  /\ pc \in [Targets -> Phases] /\ at \in [Targets -> Nat]
           /\ files \in [Targets -> SUBSET Names]
           /\ cur \in [Targets -> Names \cup {0}]
           /\ log \in [Targets -> [Names -> [src : Dirs, hash : Images \cup {NoFile}]]]
           /\ Active(t) => /\ manifest[t] \in Requests
                           /\ LastDir(manifest[t]) \in Nat
                           /\ at[t] \in 0..LastDir(manifest[t])
                           /\ Source(t) \in Dirs
           /\ pc[t] \in Staging => Active(t) /\ cur[t] \in Names
           /\ pc[t] \in {"purge", "scan"} => Active(t)
BY SourceType, RequestsAssumption
DEF TypeOK, InRange, LastDir, Active, Ended, Staging

\* A stager's own step keeps its bookkeeping in order.
LEMMA LocalStep ==
    ASSUME TypeOK, InRange, LocalInv, NEW t \in Targets, Stager(t)
    PROVE  LocalInv'
<1> USE DEF packageVars, scanVars
<1>a. /\ pc \in [Targets -> Phases] /\ at \in [Targets -> Nat]
      /\ files \in [Targets -> SUBSET Names]
      /\ cur \in [Targets -> Names \cup {0}]
      /\ log \in [Targets -> [Names -> [src : Dirs, hash : Images \cup {NoFile}]]]
  BY ScanTypes
<1>b. /\ Active(t) => /\ manifest[t] \in Requests
                      /\ LastDir(manifest[t]) \in Nat
                      /\ at[t] \in 0..LastDir(manifest[t])
                      /\ Source(t) \in Dirs
      /\ pc[t] \in Staging => Active(t) /\ cur[t] \in Names
      /\ pc[t] \in {"purge", "scan"} => Active(t)
  BY ScanTypes
<1>c. ScanOk(t) /\ LogOk(t) /\ PassedOk(t)
  BY DEF LocalInv
<1>d. pkg' = pkg /\ manifest' = manifest
  BY DEF Stager, Purge, PurgeEnd, NextDir, PassEnd, StageDll, Compare,
         CopyCheck, CopyOpen, CopyEnd, LogDll
<1>e. /\ \A i, n : Selects(t, i, n)' <=> Selects(t, i, n)
      /\ \A m, i : Listed(m, i)' = Listed(m, i)
      /\ at'[t] = at[t] => Source(t)' = Source(t)
  BY <1>d, SelectionFrame
<1>g. /\ \A i, n : Selects(t, i, n) => n \in Listed(manifest[t], i)
      /\ Listed(manifest[t], 0) = manifest[t].tool
  BY DEF Selects, Listed
<1>h. log'[t] = log[t] /\ pc[t] # "idle" => LogOk(t)'
  BY <1>c, <1>d, <1>e DEF LogOk, Logged
<1>f. SUFFICES
        /\ \A u \in Targets \ {t} :
             /\ pc'[u] = pc[u] /\ at'[u] = at[u] /\ files'[u] = files[u]
             /\ cur'[u] = cur[u] /\ log'[u] = log[u]
        /\ ScanOk(t)' /\ LogOk(t)' /\ PassedOk(t)'
  BY <1>d, LocalFrame
<1>1. CASE Purge(t)
  <2>1. \A u \in Targets \ {t} :
          /\ pc'[u] = pc[u] /\ at'[u] = at[u] /\ files'[u] = files[u]
          /\ cur'[u] = cur[u] /\ log'[u] = log[u]
    BY <1>1, <1>a DEF Purge, Fail
  <2>2. ScanOk(t)'
    BY <1>1, <1>a, <1>b, <1>c, <1>d, <1>e DEF Purge, Fail, ScanOk, Scanning, Staging
  <2>3. LogOk(t)'
    BY <1>1, <1>a, <1>b, <1>c, <1>d, <1>e DEF Purge, Fail, LogOk, Logged
  <2>4. PassedOk(t)'
    BY <1>1, <1>a, <1>b, <1>c, <1>d, <1>e DEF Purge, Fail, ScanOk, PassedOk, Passed, Scanning, Staging
  <2> QED BY <2>1, <2>2, <2>3, <2>4
<1>2. CASE PurgeEnd(t)
  <2>1. \A u \in Targets \ {t} :
          /\ pc'[u] = pc[u] /\ at'[u] = at[u] /\ files'[u] = files[u]
          /\ cur'[u] = cur[u] /\ log'[u] = log[u]
    BY <1>2, <1>a DEF PurgeEnd
  <2>2. ScanOk(t)'
    BY <1>2, <1>a, <1>c, <1>d, <1>e, <1>g DEF PurgeEnd, ScanOk, Scanning, Staging
  <2>3. LogOk(t)'
    BY <1>2, <1>a, <1>b, <1>c, <1>d, <1>e DEF PurgeEnd, LogOk, Logged
  <2>4. PassedOk(t)'
    <3>1. pc'[t] = "scan" /\ at'[t] = 0 /\ files'[t] = Listed(manifest[t], 0)
      BY <1>2, <1>a, <1>c, <1>g DEF PurgeEnd, ScanOk
    <3>2. ASSUME NEW n \in Names, NEW i \in 0..LastDir(manifest[t]),
                 Selects(t, i, n), Passed(t, i, n)'
          PROVE  FALSE
      BY <3>1, <3>2, <1>g DEF Passed
    <3> QED BY <3>2, <1>d, <1>e DEF PassedOk
  <2> QED BY <2>1, <2>2, <2>3, <2>4
<1>3. CASE NextDir(t)
  <2>1. \A u \in Targets \ {t} :
          /\ pc'[u] = pc[u] /\ at'[u] = at[u] /\ files'[u] = files[u]
          /\ cur'[u] = cur[u] /\ log'[u] = log[u]
    BY <1>3, <1>a DEF NextDir, Fail
  <2>2. ScanOk(t)'
    BY <1>3, <1>a, <1>b, <1>c, <1>d, <1>e DEF NextDir, Fail, ScanOk, Scanning, Staging
  <2>3. LogOk(t)'
    BY <1>3, <1>h DEF NextDir
  <2>4. PassedOk(t)'
    <3>1. CASE pc'[t] = "failed"
      BY <3>1 DEF PassedOk, Passed, Scanning, Staging
    <3>2. CASE pc'[t] # "failed"
      <4>1. /\ pc'[t] = "scan" /\ at'[t] = at[t] + 1 /\ log'[t] = log[t]
            /\ files'[t] = Listed(manifest[t], at[t] + 1)
            /\ files[t] = {} /\ pc[t] = "scan" /\ at[t] \in Nat
        BY <1>3, <1>a, <3>2 DEF NextDir, Fail
      <4>2. ASSUME NEW n \in Names, NEW i \in 0..LastDir(manifest[t]),
                   Selects(t, i, n), Passed(t, i, n)'
            PROVE  Passed(t, i, n)
        <5>1. i # at[t] + 1
          BY <4>1, <4>2, <1>g DEF Passed
        <5>2. i \in Nat /\ i < at[t] + 1
          BY <4>1, <4>2, <5>1 DEF Passed
        <5> QED BY <4>1, <5>2 DEF Passed, Scanning, Staging
      <4> QED BY <4>1, <4>2, <1>c, <1>d, <1>e DEF PassedOk
    <3> QED BY <3>1, <3>2
  <2> QED BY <2>1, <2>2, <2>3, <2>4
<1>4. CASE PassEnd(t)
  <2>1. \A u \in Targets \ {t} :
          /\ pc'[u] = pc[u] /\ at'[u] = at[u] /\ files'[u] = files[u]
          /\ cur'[u] = cur[u] /\ log'[u] = log[u]
    BY <1>4, <1>a DEF PassEnd, BeginPass
  <2>2. ScanOk(t)'
    BY <1>4, <1>a, <1>b, <1>c, <1>d, <1>e DEF PassEnd, BeginPass, ScanOk, Scanning, Staging
  <2>3. LogOk(t)'
    BY <1>4, <1>a, <1>b, <1>c, <1>d, <1>e DEF PassEnd, BeginPass, LogOk, Logged
  <2>4. PassedOk(t)'
    BY <1>4, <1>a, <1>b, <1>c, <1>d, <1>e DEF PassEnd, BeginPass, ScanOk, PassedOk, Passed, Scanning, Staging
  <2> QED BY <2>1, <2>2, <2>3, <2>4
<1>5. CASE StageDll(t)
  <2>1. \A u \in Targets \ {t} :
          /\ pc'[u] = pc[u] /\ at'[u] = at[u] /\ files'[u] = files[u]
          /\ cur'[u] = cur[u] /\ log'[u] = log[u]
    BY <1>5, <1>a DEF StageDll, Fail
  <2>a. PICK n \in Names :
          /\ n \in files[t]
          /\ files' = [files EXCEPT ![t] = @ \ {n}]
          /\ \/ /\ \/ n \in manifest[t].excl
                   \/ log[t][n] # NoLog /\ ~Collides(t, n)
                /\ UNCHANGED <<pc, cur>>
             \/ pc' = [pc EXCEPT ![t] = "failed"]
             \/ /\ n \notin manifest[t].excl
                /\ pkg[Source(t)][n] \in X64
                /\ log[t][n] = NoLog
                /\ cur' = [cur EXCEPT ![t] = n]
                /\ \/ pc' = [pc EXCEPT ![t] = "compare"]
                   \/ pc' = [pc EXCEPT ![t] = "copy"]
    BY <1>5 DEF StageDll, Pick, Fail
  <2>b. /\ pc[t] = "scan" /\ at' = at /\ log' = log
        /\ files'[t] = files[t] \ {n}
        /\ files[t] \subseteq Listed(manifest[t], at[t])
        /\ at[t] \in 0..LastDir(manifest[t])
    BY <1>5, <2>a, <1>a, <1>b, <1>c DEF StageDll, ScanOk, Scanning
  <2>c. \/ pc'[t] = "failed"
        \/ /\ pc'[t] = "scan"
           /\ \/ n \in manifest[t].excl
              \/ log[t][n] # NoLog /\ ~Collides(t, n)
        \/ /\ pc'[t] \in {"compare", "copy"} /\ cur'[t] = n
           /\ Selects(t, at[t], n)
           /\ log[t][n] = NoLog /\ pkg[Source(t)][n] \in X64
    BY <2>a, <2>b, <1>a DEF Selects
  <2>2. ScanOk(t)'
    BY <2>a, <2>b, <2>c, <1>d, <1>e DEF ScanOk, Scanning, Staging
  <2>3. LogOk(t)'
    BY <2>b, <1>h
  <2>4. PassedOk(t)'
    <3> SUFFICES ASSUME NEW k \in Names, NEW i \in 0..LastDir(manifest[t]),
                        Selects(t, i, k), Passed(t, i, k)'
                 PROVE  /\ log[t][k] # NoLog
                        /\ log[t][k].hash = pkg[Dir(manifest[t], i)][k]
      BY <2>b, <1>d, <1>e DEF PassedOk
    <3>1. CASE Passed(t, i, k)
      BY <3>1, <1>c DEF PassedOk
    <3>2. CASE ~Passed(t, i, k)
      <4>1. i = at[t] /\ k = n /\ pc'[t] = "scan"
        BY <3>2, <2>a, <2>b, <2>c DEF Passed, Scanning, Staging
      <4>2. k \notin manifest[t].excl
        BY DEF Selects
      <4>3. log[t][k] # NoLog /\ pkg[log[t][k].src][k] = pkg[Source(t)][k]
        BY <4>1, <4>2, <2>c DEF Collides
      <4>4. log[t][k].hash = pkg[log[t][k].src][k]
        <5>1. Logged(t, k)
          BY <4>3, <2>b DEF Logged
        <5>2. PICK j \in 0..LastDir(manifest[t]) :
                log[t][k] = [src |-> Dir(manifest[t], j),
                             hash |-> pkg[Dir(manifest[t], j)][k]]
          BY <5>1, <1>c DEF LogOk
        <5> QED BY <5>2
      <4> QED BY <4>1, <4>3, <4>4 DEF Source
    <3> QED BY <3>1, <3>2
  <2> QED BY <2>1, <2>2, <2>3, <2>4
<1>6. CASE Compare(t)
  <2>1. \A u \in Targets \ {t} :
          /\ pc'[u] = pc[u] /\ at'[u] = at[u] /\ files'[u] = files[u]
          /\ cur'[u] = cur[u] /\ log'[u] = log[u]
    BY <1>6, <1>a DEF Compare, Fail
  <2>2. ScanOk(t)'
    BY <1>6, <1>a, <1>b, <1>c, <1>d, <1>e DEF Compare, Fail, ScanOk, Scanning, Staging
  <2>3. LogOk(t)'
    BY <1>6, <1>a, <1>b, <1>c, <1>d, <1>e DEF Compare, Fail, LogOk, Logged
  <2>4. PassedOk(t)'
    BY <1>6, <1>a, <1>b, <1>c, <1>d, <1>e DEF Compare, Fail, ScanOk, PassedOk, Passed, Scanning, Staging
  <2> QED BY <2>1, <2>2, <2>3, <2>4
<1>7. CASE CopyCheck(t)
  <2>1. \A u \in Targets \ {t} :
          /\ pc'[u] = pc[u] /\ at'[u] = at[u] /\ files'[u] = files[u]
          /\ cur'[u] = cur[u] /\ log'[u] = log[u]
    BY <1>7, <1>a DEF CopyCheck, Fail
  <2>2. ScanOk(t)'
    BY <1>7, <1>a, <1>b, <1>c, <1>d, <1>e DEF CopyCheck, Fail, ScanOk, Scanning, Staging
  <2>3. LogOk(t)'
    BY <1>7, <1>a, <1>b, <1>c, <1>d, <1>e DEF CopyCheck, Fail, LogOk, Logged
  <2>4. PassedOk(t)'
    BY <1>7, <1>a, <1>b, <1>c, <1>d, <1>e DEF CopyCheck, Fail, ScanOk, PassedOk, Passed, Scanning, Staging
  <2> QED BY <2>1, <2>2, <2>3, <2>4
<1>8. CASE CopyOpen(t)
  <2>1. \A u \in Targets \ {t} :
          /\ pc'[u] = pc[u] /\ at'[u] = at[u] /\ files'[u] = files[u]
          /\ cur'[u] = cur[u] /\ log'[u] = log[u]
    BY <1>8, <1>a DEF CopyOpen, Fail
  <2>2. ScanOk(t)'
    BY <1>8, <1>a, <1>b, <1>c, <1>d, <1>e DEF CopyOpen, Fail, ScanOk, Scanning, Staging
  <2>3. LogOk(t)'
    BY <1>8, <1>a, <1>b, <1>c, <1>d, <1>e DEF CopyOpen, Fail, LogOk, Logged
  <2>4. PassedOk(t)'
    BY <1>8, <1>a, <1>b, <1>c, <1>d, <1>e DEF CopyOpen, Fail, ScanOk, PassedOk, Passed, Scanning, Staging
  <2> QED BY <2>1, <2>2, <2>3, <2>4
<1>9. CASE CopyEnd(t)
  <2>1. \A u \in Targets \ {t} :
          /\ pc'[u] = pc[u] /\ at'[u] = at[u] /\ files'[u] = files[u]
          /\ cur'[u] = cur[u] /\ log'[u] = log[u]
    BY <1>9, <1>a DEF CopyEnd
  <2>2. ScanOk(t)'
    BY <1>9, <1>a, <1>b, <1>c, <1>d, <1>e DEF CopyEnd, ScanOk, Scanning, Staging
  <2>3. LogOk(t)'
    BY <1>9, <1>a, <1>b, <1>c, <1>d, <1>e DEF CopyEnd, LogOk, Logged
  <2>4. PassedOk(t)'
    BY <1>9, <1>a, <1>b, <1>c, <1>d, <1>e DEF CopyEnd, ScanOk, PassedOk, Passed, Scanning, Staging
  <2> QED BY <2>1, <2>2, <2>3, <2>4
<1>10. CASE LogDll(t)
  <2>1. \A u \in Targets \ {t} :
          /\ pc'[u] = pc[u] /\ at'[u] = at[u] /\ files'[u] = files[u]
          /\ cur'[u] = cur[u] /\ log'[u] = log[u]
    BY <1>10, <1>a DEF LogDll, Fail
  <2>2. ScanOk(t)'
    BY <1>10, <1>a, <1>b, <1>c, <1>d, <1>e DEF LogDll, Fail, ScanOk, Scanning, Staging
  <2>a. pc[t] = "log" /\ at' = at /\ files' = files /\ cur' = cur
        /\ cur[t] \in Names /\ Selects(t, at[t], cur[t]) /\ log[t][cur[t]] = NoLog
        /\ at[t] \in 0..LastDir(manifest[t])
    BY <1>10, <1>b, <1>c DEF LogDll, ScanOk, Staging
  <2>b. \/ pc'[t] = "failed" /\ log'[t] = log[t]
        \/ /\ pc'[t] = "scan"
           /\ log'[t] = [log[t] EXCEPT ![cur[t]] =
                           [src |-> Source(t), hash |-> pkg[Source(t)][cur[t]]]]
           /\ pkg[Source(t)][cur[t]] # NoFile
    BY <1>10, <1>a DEF LogDll, Fail
  <2>c. log[t] \in [Names -> [src : Dirs, hash : Images \cup {NoFile}]]
    BY <1>a
  <2>3. LogOk(t)'
    <3>1. CASE log'[t] = log[t]
      BY <3>1, <2>a, <1>h
    <3>2. CASE log'[t] # log[t]
      <4> SUFFICES ASSUME NEW n \in Names, Logged(t, n)'
                   PROVE  \E i \in 0..LastDir(manifest[t]) :
                            /\ Selects(t, i, n)
                            /\ log'[t][n] = [src |-> Dir(manifest[t], i),
                                             hash |-> pkg[Dir(manifest[t], i)][n]]
        BY <1>d, <1>e DEF LogOk
      <4>1. CASE n = cur[t]
        BY <4>1, <3>2, <2>a, <2>b, <2>c DEF Source
      <4>2. CASE n # cur[t]
        <5>1. log'[t][n] = log[t][n] /\ Logged(t, n)
          BY <4>2, <3>2, <2>a, <2>b, <2>c DEF Logged
        <5> QED BY <5>1, <1>c DEF LogOk
      <4> QED BY <4>1, <4>2
    <3> QED BY <3>1, <3>2
  <2>4. PassedOk(t)'
    <3> SUFFICES ASSUME NEW n \in Names, NEW i \in 0..LastDir(manifest[t]),
                        Selects(t, i, n), Passed(t, i, n)'
                 PROVE  /\ log'[t][n] # NoLog
                        /\ log'[t][n].hash = pkg[Dir(manifest[t], i)][n]
      BY <1>d, <1>e DEF PassedOk
    <3>1. /\ pc'[t] = "scan" /\ pkg[Source(t)][cur[t]] # NoFile
          /\ log'[t] = [log[t] EXCEPT ![cur[t]] =
                          [src |-> Source(t), hash |-> pkg[Source(t)][cur[t]]]]
      BY <2>b DEF Passed, Scanning, Staging
    <3>2. CASE n = cur[t]
      <4>1. log'[t][n] = [src |-> Source(t), hash |-> pkg[Source(t)][n]]
        BY <3>1, <3>2, <2>a, <2>c
      <4>2. i = at[t]
        <5>1. CASE i < at[t]
          BY <5>1, <3>2, <2>a, <1>c DEF PassedOk, Passed, Scanning, Staging
        <5> QED BY <5>1, <2>a DEF Passed
      <4> QED BY <4>1, <4>2, <3>1, <3>2 DEF Source, NoLog
    <3>3. CASE n # cur[t]
      <4>1. log'[t][n] = log[t][n]
        BY <3>1, <3>3, <2>a, <2>c
      <4>2. Passed(t, i, n)
        BY <3>3, <2>a DEF Passed, Scanning, Staging
      <4> QED BY <4>1, <4>2, <1>c DEF PassedOk
    <3> QED BY <3>2, <3>3
  <2> QED BY <2>1, <2>2, <2>3, <2>4
<1> QED BY <1>1, <1>2, <1>3, <1>4, <1>5, <1>6, <1>7, <1>8, <1>9, <1>10 DEF Stager

\* Nobody but the writer of a name can change what its copy will be.
LEMMA BlendStep ==
    ASSUME LocalInv, BufInv, NEW t \in Targets, pc[t] = "write",
           NEW b \in Blends(t), NEW u \in Targets \ {t}, pc[u] = "write",
           Undisputed(cur[u])
    PROVE  b[u] = buf[u]
<1>1. CASE u \in Writers(cur[t])
  <2>1. cur[u] = cur[t]
    BY <1>1 DEF Writers
  <2>2. Selects(t, at[t], cur[t]) /\ Selects(u, at[u], cur[u])
    BY DEF LocalInv, ScanOk, Staging
  <2>3. pkg[Source(t)][cur[t]] = pkg[Source(u)][cur[u]]
    BY <2>1, <2>2, UndisputedImage DEF Source
  <2>4. buf[u] = buf[t]
    BY <2>1, <2>3 DEF BufInv
  <2> QED BY <2>4 DEF Blends
<1>2. CASE u \notin Writers(cur[t])
  BY <1>2 DEF Blends
<1> QED BY <1>1, <1>2

\* A step that keeps the images of the writers.
LEMMA BufStep ==
    ASSUME BufInv, pkg' = pkg, manifest' = manifest,
           \A u \in Targets :
             pc'[u] = "write" =>
               \/ /\ at'[u] = at[u] /\ cur'[u] = cur[u] /\ pc[u] = "write"
                  /\ Undisputed(cur[u]) => buf'[u] = buf[u]
               \/ /\ at'[u] = at[u] /\ cur'[u] = cur[u]
                  /\ buf'[u] = pkg[Source(u)][cur[u]]
    PROVE  BufInv'
<1> SUFFICES ASSUME NEW u \in Targets, pc'[u] = "write", Undisputed(cur'[u])
             PROVE  buf'[u] = pkg[Source(u)'][cur'[u]]
  BY SelectionFrame DEF BufInv
<1>1. at'[u] = at[u] /\ cur'[u] = cur[u] /\ Source(u)' = Source(u)
  BY SelectionFrame
<1> QED BY <1>1 DEF BufInv

\* What a step has to show about an undisputed name: it is deployed, it is
\* being written, or nobody has newly vouched for it.
LEMMA OutStep ==
    ASSUME OutInv, pkg' = pkg, manifest' = manifest, kills' = kills,
           \A v \in Targets : pc[v] # "idle" => pc'[v] # "idle",
           \A n \in Names : Undisputed(n) =>
             \/ \A u \in Targets : \A i \in 0..LastDir(manifest[u]) :
                  Selects(u, i, n) => out'[n] = pkg[Dir(manifest[u], i)][n]
             \/ out'[n] = Torn /\ Writers(n)' # {}
             \/ /\ out'[n] = out[n]
                /\ Writers(n) # {} => Writers(n)' # {}
                /\ \A v \in Targets : Vouched(v, n)' => Vouched(v, n)
    PROVE  OutInv'
<1> SUFFICES ASSUME NEW v \in Targets, NEW n \in Names, Vouched(v, n)', Undisputed(n),
                    NEW u \in Targets, NEW i \in 0..LastDir(manifest[u]),
                    Selects(u, i, n)
             PROVE  \/ out'[n] = pkg[Dir(manifest[u], i)][n]
                    \/ /\ out'[n] = Torn
                       /\ Writers(n)' # {} \/ (kills > 0 /\ Owed(n)')
  BY SelectionFrame DEF OutInv
<1>1. CASE /\ out'[n] = out[n]
           /\ Writers(n) # {} => Writers(n)' # {}
           /\ \A w \in Targets : Vouched(w, n)' => Vouched(w, n)
  <2>1. \/ out[n] = pkg[Dir(manifest[u], i)][n]
        \/ /\ out[n] = Torn
           /\ Writers(n) # {} \/ (kills > 0 /\ Owed(n))
    BY <1>1 DEF OutInv
  <2>2. Owed(n) => Owed(n)'
    BY <1>1, SelectionFrame DEF Owed
  <2> QED BY <1>1, <2>1, <2>2
<1> QED BY <1>1

\* What a step has to show about retired names.
LEMMA RetiredStep ==
    ASSUME RetiredInv, pkg' = pkg, manifest' = manifest,
           \A v \in Targets, n \in Names :
             n \in manifest[v].excl /\ Undisputed(n) =>
               \/ out'[n] = NoFile
               \/ /\ out'[n] = out[n]
                  /\ \/ pc'[v] \in Scanning \cup {"done"}
                     \/ pc'[v] = "purge" /\ n \notin files'[v]
                     => \/ pc[v] \in Scanning \cup {"done"}
                        \/ pc[v] = "purge" /\ n \notin files[v]
    PROVE  RetiredInv'
BY SelectionFrame DEF RetiredInv

\* A stager's step keeps what the writers write.
LEMMA StagerBuf ==
    ASSUME TypeOK, InRange, LocalInv, BufInv, NEW t \in Targets, Stager(t)
    PROVE  BufInv'
<1> USE DEF packageVars, scanVars
<1>a. /\ pc \in [Targets -> Phases] /\ at \in [Targets -> Nat]
      /\ cur \in [Targets -> Names \cup {0}]
      /\ buf \in [Targets -> Images \cup {Torn}]
  BY DEF TypeOK
<1>d. pkg' = pkg /\ manifest' = manifest
  BY DEF Stager, Purge, PurgeEnd, NextDir, PassEnd, StageDll, Compare,
         CopyCheck, CopyOpen, CopyEnd, LogDll
<1>1. CASE CopyOpen(t)
  BY <1>1, <1>a, <1>d, BufStep DEF CopyOpen, Fail
<1>2. CASE CopyEnd(t)
  <2>1. ASSUME NEW u \in Targets, pc'[u] = "write"
        PROVE  /\ at'[u] = at[u] /\ cur'[u] = cur[u] /\ pc[u] = "write"
               /\ Undisputed(cur[u]) => buf'[u] = buf[u]
    <3>1. /\ at' = at /\ cur' = cur /\ pc[u] = "write" /\ pc[t] = "write"
          /\ buf' \in Blends(t) /\ u # t
      BY <1>2, <1>a, <2>1 DEF CopyEnd
    <3> QED BY <3>1, BlendStep
  <2> QED BY <2>1, <1>d, BufStep
<1>3. CASE ~CopyOpen(t) /\ ~CopyEnd(t)
  <2>1. /\ buf' = buf
        /\ pc'[t] # "write"
        /\ \A u \in Targets \ {t} : pc'[u] = pc[u] /\ at'[u] = at[u] /\ cur'[u] = cur[u]
    BY <1>3, <1>a DEF Stager, Purge, PurgeEnd, NextDir, PassEnd, BeginPass, StageDll,
       Compare, CopyCheck, LogDll, Fail
  <2>2. ASSUME NEW u \in Targets, pc'[u] = "write"
        PROVE  at'[u] = at[u] /\ cur'[u] = cur[u] /\ pc[u] = "write" /\ buf'[u] = buf[u]
    BY <2>1, <2>2
  <2> QED BY <2>2, <1>d, BufStep
<1> QED BY <1>1, <1>2, <1>3

\* What a stager's step that copies nothing does to the shared directory.
LEMMA QuietStep ==
    ASSUME TypeOK, InRange, LocalInv, NEW t \in Targets, Stager(t),
           ~CopyOpen(t), ~CopyEnd(t)
    PROVE  /\ kills' = kills
           /\ \A v \in Targets : pc[v] # "idle" => pc'[v] # "idle"
           /\ \A n \in Names : Writers(n)' = Writers(n)
           /\ \A n \in Names :
                \/ out'[n] = out[n]
                \/ out'[n] = NoFile /\ n \in manifest[t].excl
           /\ \A v \in Targets, n \in Names :
                Vouched(v, n)' =>
                  \/ Vouched(v, n)
                  \/ /\ v = t /\ n = cur[t] /\ pc[t] \in {"compare", "copy"}
                     /\ out'[n] = out[n] /\ out[n] = pkg[Source(t)][n]
<1> USE DEF packageVars, scanVars
<1>a. /\ pc \in [Targets -> Phases] /\ cur \in [Targets -> Names \cup {0}]
      /\ out \in [Names -> Images \cup {NoFile, Torn}]
      /\ log \in [Targets -> [Names -> [src : Dirs, hash : Images \cup {NoFile}]]]
      /\ files \in [Targets -> SUBSET Names]
  BY DEF TypeOK
<1>b. ScanOk(t)
  BY DEF LocalInv
<1>1. kills' = kills /\ (\A v \in Targets : pc[v] # "idle" => pc'[v] # "idle")
  BY <1>a DEF Stager, Purge, PurgeEnd, NextDir, PassEnd, BeginPass, StageDll,
     Compare, CopyCheck, LogDll, Fail
<1>2. /\ pc[t] # "write" /\ pc'[t] # "write"
      /\ \A u \in Targets \ {t} : pc'[u] = pc[u] /\ cur'[u] = cur[u] /\ log'[u] = log[u]
  BY <1>a DEF Stager, Purge, PurgeEnd, NextDir, PassEnd, BeginPass, StageDll,
     Compare, CopyCheck, LogDll, Fail
<1>3. \A n \in Names : Writers(n)' = Writers(n)
  BY <1>2 DEF Writers
<1>4. \A n \in Names :
         \/ out'[n] = out[n]
         \/ out'[n] = NoFile /\ n \in manifest[t].excl
  <2>1. CASE Purge(t)
    <3>1. files[t] \subseteq manifest[t].excl
      BY <2>1, <1>b DEF Purge, ScanOk
    <3>2. out' = out \/ \E k \in files[t] : out' = [out EXCEPT ![k] = NoFile]
      BY <2>1 DEF Purge
    <3> QED BY <3>1, <3>2, <1>a
  <2>2. CASE ~Purge(t)
    <3>1. out' = out
      BY <2>2 DEF Stager, PurgeEnd, NextDir, PassEnd, StageDll, Compare,
         CopyCheck, LogDll
    <3> QED BY <3>1
  <2> QED BY <2>1, <2>2
<1>5. ASSUME NEW v \in Targets, NEW n \in Names, Vouched(v, n)'
      PROVE  \/ Vouched(v, n)
             \/ /\ v = t /\ n = cur[t] /\ pc[t] \in {"compare", "copy"}
                /\ out'[n] = out[n] /\ out[n] = pkg[Source(t)][n]
  <2>1. CASE v # t
    BY <2>1, <1>2, <1>5 DEF Vouched
  <2>2. CASE v = t
    <3>0. pc[t] # "idle"
      BY DEF Stager, Purge, PurgeEnd, NextDir, PassEnd, StageDll,
         Compare, CopyCheck, LogDll
    <3>1. CASE Compare(t)
      <4>1. log' = log /\ cur' = cur /\ out' = out /\ pc[t] = "compare"
            /\ (pc'[t] = "log" => out[cur[t]] = pkg[Source(t)][cur[t]])
        BY <3>1, <1>a DEF Compare, Fail
      <4> QED BY <2>2, <3>0, <4>1, <1>5 DEF Vouched
    <3>2. CASE CopyCheck(t)
      <4>1. log' = log /\ cur' = cur /\ out' = out /\ pc[t] = "copy"
            /\ (pc'[t] = "log" => out[cur[t]] = pkg[Source(t)][cur[t]])
        BY <3>2, <1>a DEF CopyCheck, Fail
      <4> QED BY <2>2, <3>0, <4>1, <1>5 DEF Vouched
    <3>3. CASE LogDll(t)
      <4>1. pc[t] = "log" /\ pc'[t] # "log"
        BY <3>3, <1>a DEF LogDll, Fail
      <4>2. CASE n = cur[t]
        BY <2>2, <4>1, <4>2 DEF Vouched
      <4>3. CASE n # cur[t]
        <5>1. log'[t][n] = log[t][n]
          BY <3>3, <4>3, <1>a DEF LogDll
        <5> QED BY <2>2, <4>1, <5>1, <1>5 DEF Vouched
      <4> QED BY <4>2, <4>3
    <3>4. CASE PassEnd(t)
      <4>1. pc'[t] # "log" /\ (log'[t] = log[t] \/ log'[t][n] = NoLog)
        BY <3>4, <1>a DEF PassEnd, BeginPass
      <4> QED BY <2>2, <3>0, <4>1, <1>5 DEF Vouched
    <3>5. CASE Purge(t) \/ PurgeEnd(t) \/ NextDir(t) \/ StageDll(t)
      <4>1. pc'[t] # "log" /\ log' = log
        BY <3>5, <1>a DEF Purge, PurgeEnd, NextDir, StageDll, Fail
      <4> QED BY <2>2, <3>0, <4>1, <1>5 DEF Vouched
    <3> QED BY <3>1, <3>2, <3>3, <3>4, <3>5 DEF Stager
  <2> QED BY <2>1, <2>2
<1> QED BY <1>1, <1>3, <1>4, <1>5

\* A stager's step keeps deployed names deployed.
LEMMA StagerOut ==
    ASSUME TypeOK, InRange, LocalInv, BufInv, OutInv, NEW t \in Targets, Stager(t)
    PROVE  OutInv'
<1> USE DEF packageVars, scanVars
<1>a. /\ pc \in [Targets -> Phases] /\ cur \in [Targets -> Names \cup {0}]
      /\ out \in [Names -> Images \cup {NoFile, Torn}]
  BY DEF TypeOK
<1>b. pc[t] \in Staging => cur[t] \in Names /\ Selects(t, at[t], cur[t])
  BY DEF LocalInv, ScanOk, InRange
<1>d. pkg' = pkg /\ manifest' = manifest
  BY DEF Stager, Purge, PurgeEnd, NextDir, PassEnd, StageDll, Compare,
         CopyCheck, CopyOpen, CopyEnd, LogDll
\* What t copies is what every target means by the name.
<1>e. ASSUME NEW n \in Names, pc[t] \in Staging, n = cur[t], Undisputed(n)
      PROVE  \A u \in Targets : \A i \in 0..LastDir(manifest[u]) :
               Selects(u, i, n) => pkg[Source(t)][n] = pkg[Dir(manifest[u], i)][n]
  BY <1>b, <1>e, UndisputedImage DEF Source
<1>1. CASE CopyOpen(t)
  <2>1. /\ kills' = kills /\ pc[t] = "open" /\ pc'[t] \in {"write", "failed"}
        /\ log' = log /\ cur' = cur
        /\ \A u \in Targets \ {t} : pc'[u] = pc[u]
        /\ \A n \in Names : n # cur[t] => out'[n] = out[n]
        /\ \/ pc'[t] = "write" /\ out'[cur[t]] = Torn
           \/ out' = out
    BY <1>1, <1>a, <1>b DEF CopyOpen, Fail, Staging
  <2>2. \A n \in Names, v \in Targets : Vouched(v, n)' => Vouched(v, n)
    BY <2>1 DEF Vouched
  <2>3. \A n \in Names : Writers(n) \subseteq Writers(n)'
    BY <2>1 DEF Writers
  <2>4. \A n \in Names : n = cur[t] /\ out'[n] # out[n] =>
           out'[n] = Torn /\ t \in Writers(n)'
    BY <2>1 DEF Writers
  <2>5. \A v \in Targets : pc[v] # "idle" => pc'[v] # "idle"
    BY <2>1
  <2>6. \A n \in Names :
          \/ out'[n] = Torn /\ Writers(n)' # {}
          \/ /\ out'[n] = out[n]
             /\ Writers(n) # {} => Writers(n)' # {}
             /\ \A v \in Targets : Vouched(v, n)' => Vouched(v, n)
    BY <2>1, <2>2, <2>3, <2>4
  <2> QED BY <1>d, <2>1, <2>5, <2>6, OutStep
<1>2. CASE CopyEnd(t)
  <2>1. /\ kills' = kills /\ pc[t] = "write" /\ pc'[t] = "log"
        /\ log' = log /\ cur' = cur /\ cur[t] \in Names
        /\ \A u \in Targets \ {t} : pc'[u] = pc[u]
        /\ \A n \in Names : n # cur[t] => out'[n] = out[n]
        /\ Writers(cur[t]) = {t} => out'[cur[t]] = buf[t]
        /\ Writers(cur[t]) # {t} => out'[cur[t]] = Torn
    BY <1>2, <1>a, <1>b DEF CopyEnd, Staging
  <2>2. \A n \in Names, v \in Targets : n # cur[t] /\ Vouched(v, n)' => Vouched(v, n)
    BY <2>1 DEF Vouched
  <2>3. \A n \in Names : Writers(n) \ {t} \subseteq Writers(n)' /\ (n # cur[t] => t \notin Writers(n))
    BY <2>1 DEF Writers
  <2>4. t \in Writers(cur[t])
    BY <2>1 DEF Writers
  <2>5. \A v \in Targets : pc[v] # "idle" => pc'[v] # "idle"
    BY <2>1
  <2>6. ASSUME NEW n \in Names, Undisputed(n)
        PROVE  \/ \A u \in Targets : \A i \in 0..LastDir(manifest[u]) :
                    Selects(u, i, n) => out'[n] = pkg[Dir(manifest[u], i)][n]
               \/ out'[n] = Torn /\ Writers(n)' # {}
               \/ /\ out'[n] = out[n]
                  /\ Writers(n) # {} => Writers(n)' # {}
                  /\ \A v \in Targets : Vouched(v, n)' => Vouched(v, n)
    <3>1. CASE n # cur[t]
      BY <3>1, <2>1, <2>2, <2>3
    <3>2. CASE n = cur[t] /\ Writers(n) # {t}
      BY <3>2, <2>1, <2>3, <2>4
    <3>3. CASE n = cur[t] /\ Writers(n) = {t}
      <4>1. out'[n] = pkg[Source(t)][n]
        BY <3>3, <2>1, <2>6 DEF BufInv
      <4> QED BY <4>1, <3>3, <2>1, <2>6, <1>e DEF Staging
    <3> QED BY <3>1, <3>2, <3>3
  <2> QED BY <1>d, <2>1, <2>5, <2>6, OutStep
<1>3. CASE ~CopyOpen(t) /\ ~CopyEnd(t)
  <2>1. /\ kills' = kills
        /\ \A v \in Targets : pc[v] # "idle" => pc'[v] # "idle"
        /\ \A n \in Names : Writers(n)' = Writers(n)
        /\ \A n \in Names :
             \/ out'[n] = out[n]
             \/ out'[n] = NoFile /\ n \in manifest[t].excl
        /\ \A v \in Targets, n \in Names :
             Vouched(v, n)' =>
               \/ Vouched(v, n)
               \/ /\ v = t /\ n = cur[t] /\ pc[t] \in {"compare", "copy"}
                  /\ out'[n] = out[n] /\ out[n] = pkg[Source(t)][n]
    BY <1>3, QuietStep
  <2>6. ASSUME NEW n \in Names, Undisputed(n)
        PROVE  \/ \A u \in Targets : \A i \in 0..LastDir(manifest[u]) :
                    Selects(u, i, n) => out'[n] = pkg[Dir(manifest[u], i)][n]
               \/ out'[n] = Torn /\ Writers(n)' # {}
               \/ /\ out'[n] = out[n]
                  /\ Writers(n) # {} => Writers(n)' # {}
                  /\ \A v \in Targets : Vouched(v, n)' => Vouched(v, n)
    <3>1. CASE out'[n] # out[n]
      <4>1. n \in manifest[t].excl
        BY <3>1, <2>1
      <4>2. \A u \in Targets : \A i \in 0..LastDir(manifest[u]) : ~Selects(u, i, n)
        BY <4>1, <2>6 DEF Undisputed
      <4> QED BY <4>2
    <3>2. CASE out'[n] = out[n] /\ \A v \in Targets : Vouched(v, n)' => Vouched(v, n)
      BY <3>2, <2>1
    <3>3. CASE /\ n = cur[t] /\ pc[t] \in {"compare", "copy"}
               /\ out'[n] = out[n] /\ out[n] = pkg[Source(t)][n]
      BY <3>3, <2>6, <1>e DEF Staging
    <3> QED BY <3>1, <3>2, <3>3, <2>1
  <2> QED BY <1>d, <2>1, <2>6, OutStep
<1> QED BY <1>1, <1>2, <1>3

\* A stager's step keeps retired names away.
LEMMA StagerRetired ==
    ASSUME TypeOK, InRange, LocalInv, RetiredInv, NEW t \in Targets, Stager(t)
    PROVE  RetiredInv'
<1> USE DEF packageVars, scanVars
<1>a. /\ pc \in [Targets -> Phases] /\ cur \in [Targets -> Names \cup {0}]
      /\ out \in [Names -> Images \cup {NoFile, Torn}]
      /\ files \in [Targets -> SUBSET Names]
  BY DEF TypeOK
<1>d. pkg' = pkg /\ manifest' = manifest
  BY DEF Stager, Purge, PurgeEnd, NextDir, PassEnd, StageDll, Compare,
         CopyCheck, CopyOpen, CopyEnd, LogDll
<1>1. ASSUME NEW v \in Targets, NEW n \in Names, n \in manifest[v].excl, Undisputed(n)
      PROVE  \/ out'[n] = NoFile
             \/ /\ out'[n] = out[n]
                /\ \/ pc'[v] \in Scanning \cup {"done"}
                   \/ pc'[v] = "purge" /\ n \notin files'[v]
                   => \/ pc[v] \in Scanning \cup {"done"}
                      \/ pc[v] = "purge" /\ n \notin files[v]
  <2>1. out'[n] = out[n] \/ out'[n] = NoFile
    <3>1. CASE CopyOpen(t) \/ CopyEnd(t)
      <4>1. cur[t] \in Names /\ Selects(t, at[t], cur[t])
        BY <3>1 DEF LocalInv, ScanOk, InRange, Staging, CopyOpen, CopyEnd
      <4>2. n # cur[t]
        BY <4>1, <1>1 DEF Undisputed, Selects
      <4> QED BY <3>1, <4>1, <4>2, <1>a DEF CopyOpen, CopyEnd
    <3>2. CASE ~CopyOpen(t) /\ ~CopyEnd(t)
      BY <3>2, QuietStep
    <3> QED BY <3>1, <3>2
  <2>2. CASE v # t
    <3>1. pc'[v] = pc[v] /\ files'[v] = files[v]
      BY <2>2, <1>a DEF Stager, Purge, PurgeEnd, NextDir, PassEnd, BeginPass, StageDll,
         Compare, CopyCheck, CopyOpen, CopyEnd, LogDll, Fail
    <3> QED BY <2>1, <3>1
  <2>3. CASE v = t
    <3>1. CASE Purge(t)
      <4>1. PICK k \in files[t] :
              \/ /\ out' = [out EXCEPT ![k] = NoFile]
                 /\ files' = [files EXCEPT ![t] = @ \ {k}]
                 /\ pc' = pc
              \/ pc' = [pc EXCEPT ![t] = "failed"]
        BY <3>1, Zenon DEF Purge, Fail
      <4>2. CASE pc' = pc /\ out' = [out EXCEPT ![k] = NoFile]
                 /\ files' = [files EXCEPT ![t] = @ \ {k}]
        BY <4>2, <2>1, <2>3, <3>1, <1>a DEF Purge, Scanning, Staging
      <4>3. CASE pc' = [pc EXCEPT ![t] = "failed"]
        BY <4>3, <2>1, <2>3, <1>a DEF Scanning, Staging
      <4> QED BY <4>1, <4>2, <4>3
    <3>2. CASE PassEnd(t)
      <4>1. out' = out /\ pc[t] = "scan"
            /\ (pc'[t] = "purge" => files'[t] = {k \in manifest[t].excl : out[k] # NoFile})
        BY <3>2, <1>a DEF PassEnd, BeginPass
      <4> QED BY <4>1, <1>1, <2>3 DEF Scanning
    <3>3. CASE PurgeEnd(t)
      <4>1. pc[t] = "purge" /\ n \notin files[t]
        BY <3>3 DEF PurgeEnd
      <4> QED BY <4>1, <2>1, <2>3
    <3>4. CASE ~Purge(t) /\ ~PassEnd(t) /\ ~PurgeEnd(t)
      <4>1. pc[t] \in Scanning
        BY <3>4 DEF Stager, NextDir, StageDll, Compare, CopyCheck, CopyOpen,
           CopyEnd, LogDll, Scanning, Staging
      <4> QED BY <4>1, <2>1, <2>3
    <3> QED BY <3>1, <3>2, <3>3, <3>4
  <2> QED BY <2>2, <2>3
<1> QED BY <1>1, <1>d, RetiredStep

\* Nothing is claimed of targets none of which is being built.
LEMMA IdleInv ==
    ASSUME \A t \in Targets : pc[t] = "idle"
    PROVE  StagingInv
BY DEF StagingInv, LocalInv, ScanOk, LogOk, PassedOk, Passed, BufInv, OutInv,
   RetiredInv, Vouched, Logged, Scanning, Staging

\* A build that begins.
LEMMA StartStep ==
    ASSUME TypeOK, InRange, StagingInv, NEW t \in Targets, NEW relink \in BOOLEAN,
           StartBuild(t, relink)
    PROVE  StagingInv'
<1> USE DEF packageVars, scanVars
<1> DEFINE purged == {n \in manifest[t].excl : out[n] # NoFile}
<1>a. /\ pc \in [Targets -> Phases] /\ at \in [Targets -> Nat]
      /\ files \in [Targets -> SUBSET Names]
      /\ log \in [Targets -> [Names -> [src : Dirs, hash : Images \cup {NoFile}]]]
  BY DEF TypeOK
<1>b. /\ pkg' = pkg /\ manifest' = manifest /\ out' = out /\ cur' = cur
      /\ buf' = buf /\ kills' = kills
      /\ pc[t] \in Ended
      /\ \A u \in Targets \ {t} : /\ pc'[u] = pc[u] /\ at'[u] = at[u]
                                  /\ files'[u] = files[u] /\ log'[u] = log[u]
      /\ \A n \in Names : log'[t][n] = NoLog
      /\ \/ pc'[t] = "purge" /\ at'[t] = 0 /\ files'[t] = purged
         \/ pc'[t] = "failed"
  BY <1>a DEF StartBuild, BeginPass, Fail, Startable, Active
<1>1. LocalInv'
  <2>1. (ScanOk(t) /\ LogOk(t) /\ PassedOk(t))'
    BY <1>b DEF ScanOk, LogOk, PassedOk, Passed, Logged, Scanning, Staging
  <2>2. LocalInv
    BY DEF StagingInv
  <2> QED BY <1>b, <2>1, <2>2, LocalFrame
<1>2. BufInv'
  <2>1. ASSUME NEW u \in Targets, pc'[u] = "write"
        PROVE  at'[u] = at[u] /\ cur'[u] = cur[u] /\ pc[u] = "write" /\ buf'[u] = buf[u]
    BY <2>1, <1>b
  <2> QED BY <2>1, <1>b, BufStep DEF StagingInv
<1>3. OutInv'
  <2>1. \A n \in Names : Writers(n)' = Writers(n)
    BY <1>b DEF Writers, Ended
  <2>2. ASSUME NEW n \in Names, NEW v \in Targets, Vouched(v, n)'
        PROVE  Vouched(v, n)
    BY <2>2, <1>b DEF Vouched
  <2>3. \A v \in Targets : pc[v] # "idle" => pc'[v] # "idle"
    BY <1>b
  <2> QED BY <1>b, <2>1, <2>2, <2>3, OutStep DEF StagingInv
<1>4. RetiredInv'
  <2>1. ASSUME NEW v \in Targets, NEW n \in Names, n \in manifest[v].excl
        PROVE  \/ out'[n] = NoFile
               \/ /\ out'[n] = out[n]
                  /\ \/ pc'[v] \in Scanning \cup {"done"}
                     \/ pc'[v] = "purge" /\ n \notin files'[v]
                     => \/ pc[v] \in Scanning \cup {"done"}
                        \/ pc[v] = "purge" /\ n \notin files[v]
    <3>1. CASE v = t
      BY <3>1, <2>1, <1>b DEF Scanning, Staging
    <3>2. CASE v # t
      BY <3>2, <1>b
    <3> QED BY <3>1, <3>2
  <2> QED BY <2>1, <1>b, RetiredStep DEF StagingInv
<1> QED BY <1>1, <1>2, <1>3, <1>4 DEF StagingInv

\* A killed stager leaves a torn file at most where it still has to stage.
LEMMA KillStep ==
    ASSUME TypeOK, InRange, StagingInv, NEW t \in Targets, Kill(t)
    PROVE  StagingInv'
<1> USE DEF packageVars, scanVars
<1>a. /\ pc \in [Targets -> Phases] /\ kills \in Nat
      /\ buf \in [Targets -> Images \cup {Torn}]
  BY BoundsAssumption DEF TypeOK
<1>b. /\ pkg' = pkg /\ manifest' = manifest /\ out' = out /\ cur' = cur
      /\ at' = at /\ files' = files /\ log' = log
      /\ kills' > 0
      /\ pc[t] # "idle" /\ pc'[t] = "killed"
      /\ \A u \in Targets \ {t} : pc'[u] = pc[u]
      /\ pc[t] = "write" => buf' \in Blends(t)
      /\ pc[t] # "write" => buf' = buf
  BY <1>a DEF Kill, Active, Ended
<1>c. LocalInv /\ BufInv /\ OutInv /\ RetiredInv
  BY DEF StagingInv
<1>1. LocalInv'
  <2>1. LogOk(t)
    BY <1>c DEF LocalInv
  <2>2. (ScanOk(t) /\ LogOk(t) /\ PassedOk(t))'
    BY <2>1, <1>b, SelectionFrame
    DEF ScanOk, LogOk, PassedOk, Passed, Logged, Scanning, Staging
  <2> QED BY <1>b, <1>c, <2>2, LocalFrame
<1>2. BufInv'
  <2>1. ASSUME NEW u \in Targets, pc'[u] = "write"
        PROVE  /\ at'[u] = at[u] /\ cur'[u] = cur[u] /\ pc[u] = "write"
               /\ Undisputed(cur[u]) => buf'[u] = buf[u]
    <3>1. at' = at /\ cur' = cur /\ pc[u] = "write" /\ u # t
      BY <1>b, <2>1
    <3> QED BY <3>1, <1>b, <1>c, BlendStep
  <2> QED BY <2>1, <1>b, <1>c, BufStep
<1>3. OutInv'
  <2> SUFFICES ASSUME NEW v \in Targets, NEW n \in Names, Vouched(v, n)', Undisputed(n),
                      NEW u \in Targets, NEW i \in 0..LastDir(manifest[u]),
                      Selects(u, i, n)
               PROVE  \/ out[n] = pkg[Dir(manifest[u], i)][n]
                      \/ /\ out[n] = Torn
                         /\ Writers(n)' # {} \/ Owed(n)'
    BY <1>b, SelectionFrame DEF OutInv
  <2>1. \A w \in Targets : Vouched(w, n)' => Vouched(w, n)
    BY <1>b DEF Vouched
  <2>2. \/ out[n] = pkg[Dir(manifest[u], i)][n]
        \/ /\ out[n] = Torn
           /\ Writers(n) # {} \/ Owed(n)
    BY <2>1, <1>c DEF OutInv
  <2>3. Owed(n) => Owed(n)'
    BY <2>1, <1>b, SelectionFrame DEF Owed
  <2>4. ASSUME Writers(n) # {}, Writers(n)' = {}
        PROVE  Owed(n)'
    <3>1. pc[t] = "write" /\ cur[t] = n
      BY <2>4, <1>b DEF Writers
    <3>2. Selects(t, at[t], n) /\ log[t][n] = NoLog
      BY <3>1, <1>c DEF LocalInv, ScanOk, Staging
    <3>3. ~Vouched(t, n)'
      BY <3>2, <1>b DEF Vouched
    <3>4. at[t] \in 0..LastDir(manifest[t])
      BY <3>2 DEF Selects
    <3> QED BY <3>2, <3>3, <3>4, <1>b, SelectionFrame DEF Owed
  <2> QED BY <2>2, <2>3, <2>4
<1>4. RetiredInv'
  <2>1. \A v \in Targets : pc'[v] = pc[v] \/ pc'[v] = "killed"
    BY <1>b
  <2> QED BY <2>1, <1>b, <1>c, RetiredStep DEF Scanning, Staging
<1> QED BY <1>1, <1>2, <1>3, <1>4 DEF StagingInv

\* Every step keeps the staging invariant when packages change only while no
\* stager runs.
LEMMA StagingStep ==
    ASSUME ~PublishWhileStaging, TypeOK, InRange, StagingInv, [Next]_vars
    PROVE  StagingInv'
<1>i. ASSUME \A t \in Targets : pc'[t] = "idle"
      PROVE  StagingInv'
  BY <1>i DEF StagingInv, LocalInv, ScanOk, LogOk, PassedOk, Passed, BufInv, OutInv,
     RetiredInv, Vouched, Logged, Scanning, Staging
<1>o. Quiet => \A t \in Targets : Outdated[t] = "idle"
  BY DEF Quiet, Outdated
<1>1. ASSUME NEW t \in Targets, Stager(t)
      PROVE  StagingInv'
  BY <1>1, LocalStep, StagerBuf, StagerOut, StagerRetired DEF StagingInv
<1>2. ASSUME NEW t \in Targets, NEW relink \in BOOLEAN, StartBuild(t, relink)
      PROVE  StagingInv'
  BY <1>2, StartStep
<1>3. ASSUME NEW d \in Dirs, NEW n \in Names, NEW img \in Images \cup {NoFile},
             Publish(d, n, img)
      PROVE  StagingInv'
  BY <1>3, <1>i, <1>o DEF Publish, MayPublish
<1>4. ASSUME NEW r \in Roots, RemoveRoot(r)
      PROVE  StagingInv'
  BY <1>4, <1>i, <1>o DEF RemoveRoot, MayPublish
<1>5. ASSUME NEW t \in Targets, NEW m \in Requests, Configure(t, m)
      PROVE  StagingInv'
  BY <1>5, <1>i DEF Configure
<1>6. ASSUME NEW t \in Targets, Kill(t)
      PROVE  StagingInv'
  BY <1>6, KillStep
<1>7. ASSUME UNCHANGED <<pkg, manifest, out, pc, at, files, cur, buf, log, kills>>
      PROVE  StagingInv'
  <2>1. /\ LocalInv /\ BufInv /\ OutInv /\ RetiredInv
    BY DEF StagingInv
  <2>2. LocalInv'
    BY <1>7, <2>1, SelectionFrame
    DEF LocalInv, ScanOk, LogOk, PassedOk, Passed, Logged
  <2>3. BufInv'
    BY <1>7, <2>1, BufStep
  <2>4. OutInv'
    BY <1>7, <2>1, OutStep DEF Vouched, Writers
  <2>5. RetiredInv'
    BY <1>7, <2>1, RetiredStep
  <2> QED BY <2>2, <2>3, <2>4, <2>5 DEF StagingInv
<1>8. CASE Install
  BY <1>8, <1>7 DEF Install, packageVars, scanVars
<1>9. CASE UNCHANGED vars
  BY <1>9, <1>7 DEF vars
<1> QED BY <1>1, <1>2, <1>3, <1>4, <1>5, <1>6, <1>8, <1>9 DEF Next, Environment

\* The staging invariant holds in every reachable state.
THEOREM StagingInvariant ==
    ASSUME ~PublishWhileStaging
    PROVE  Spec => [](TypeOK /\ InRange /\ StagingInv)
<1>1. Init => StagingInv
  BY IdleInv DEF Init
<1>2. TypeOK /\ InRange /\ StagingInv /\ [Next]_vars => (TypeOK /\ InRange /\ StagingInv)'
  BY StagerType, OtherType, StagingStep
<1> QED BY InitType, <1>1, <1>2, PTL DEF Spec

-----------------------------------------------------------------------------
(***************************************************************************)
(* The safety properties.                                                  *)
(***************************************************************************)

\* An undisputed DLL in some stager's log is in the directory with the logged
\* hash, is being rewritten, or was torn by a kill.
THEOREM ProvenanceIsTrue ==
    ASSUME ~PublishWhileStaging
    PROVE  Spec => []DeployedAsLogged
<1>1. StagingInv => DeployedAsLogged
  <2> SUFFICES ASSUME StagingInv, NEW t \in Targets, NEW n \in Names,
                      Logged(t, n), Undisputed(n)
               PROVE  \/ out[n] = log[t][n].hash
                      \/ out[n] = Torn /\ (Writers(n) # {} \/ kills > 0)
    BY DEF DeployedAsLogged
  <2>1. PICK i \in 0..LastDir(manifest[t]) :
          /\ Selects(t, i, n)
          /\ log[t][n] = [src |-> Dir(manifest[t], i),
                          hash |-> pkg[Dir(manifest[t], i)][n]]
    BY DEF StagingInv, LocalInv, LogOk
  <2>2. Vouched(t, n)
    BY DEF Logged, Vouched
  <2> QED BY <2>1, <2>2 DEF StagingInv, OutInv
<1> QED BY <1>1, StagingInvariant, PTL

\* What a stager that is done has staged.
LEMMA DoneStaged ==
    ASSUME InRange, StagingInv
    PROVE  StagedClosure
<1> SUFFICES ASSUME NEW t \in Targets, pc[t] = "done",
                    NEW i \in 0..LastDir(manifest[t]), NEW n \in Names,
                    Selects(t, i, n)
             PROVE  /\ log[t][n] # NoLog
                    /\ pkg[Dir(manifest[t], i)][n] = log[t][n].hash
  BY DEF StagedClosure
<1>1. /\ at[t] = LastDir(manifest[t]) /\ files[t] = {} /\ manifest[t] \in Requests
  BY DEF StagingInv, LocalInv, ScanOk
<1>2. LastDir(manifest[t]) \in Nat
  BY <1>1, RequestsAssumption DEF LastDir
<1>3. Passed(t, i, n)
  BY <1>1, <1>2 DEF Passed, Staging
<1> QED BY <1>3 DEF StagingInv, LocalInv, PassedOk

\* A staging run that succeeded has skipped nothing.
THEOREM NothingSkipped ==
    ASSUME ~PublishWhileStaging
    PROVE  Spec => []StagedClosure
BY DoneStaged, StagingInvariant, PTL

\* No DLL a target retired is left beside its executable.
THEOREM NothingRetiredLeft ==
    ASSUME ~PublishWhileStaging
    PROVE  Spec => []RetiredGone
<1>1. StagingInv => RetiredGone
  BY DEF StagingInv, RetiredInv, RetiredGone
<1> QED BY <1>1, StagingInvariant, PTL

\* Install ships what the stagers logged, killed builds or not.
THEOREM InstallIsTrue ==
    ASSUME ~PublishWhileStaging
    PROVE  Spec => InstallShipsLogged
<1> DEFINE A == Install => \A t \in Targets, n \in Names :
                  Undisputed(n) /\ log[t][n] # NoLog => installed'[n] = log[t][n].hash
<1>1. TypeOK /\ InRange /\ StagingInv => A
  <2> SUFFICES ASSUME TypeOK, InRange, StagingInv, Install,
                      NEW t \in Targets, NEW n \in Names,
                      Undisputed(n), log[t][n] # NoLog
               PROVE  installed'[n] = log[t][n].hash
    OBVIOUS
  <2>1. \A u \in Targets : pc[u] = "done"
    BY DEF Install
  <2>2. PICK i \in 0..LastDir(manifest[t]) :
          /\ Selects(t, i, n)
          /\ log[t][n] = [src |-> Dir(manifest[t], i),
                          hash |-> pkg[Dir(manifest[t], i)][n]]
    BY <2>1 DEF StagingInv, LocalInv, LogOk, Logged
  <2>3. Vouched(t, n)
    BY <2>1 DEF Vouched
  <2>4. \/ out[n] = pkg[Dir(manifest[t], i)][n]
        \/ out[n] = Torn /\ (Writers(n) # {} \/ Owed(n))
    BY <2>2, <2>3 DEF StagingInv, OutInv
  <2>5. Writers(n) = {}
    BY <2>1 DEF Writers
  <2>6. ~Owed(n)
    BY <2>1, DoneStaged DEF Owed, Vouched, StagedClosure
  <2>7. pkg[Dir(manifest[t], i)][n] # NoFile
    BY <2>2 DEF Selects, Listed, NoLog, Dir
  <2>8. installed' = [k \in Names |-> IF out[k] # NoFile THEN out[k] ELSE installed[k]]
    BY DEF Install
  <2> QED BY <2>2, <2>4, <2>5, <2>6, <2>7, <2>8
<1>2. Spec => [](TypeOK /\ InRange /\ StagingInv)
  BY StagingInvariant
<1>3. Spec => [][A]_vars
  BY <1>1, <1>2, PTL
<1> QED BY <1>3 DEF InstallShipsLogged

=============================================================================
