-------------------------- MODULE SecurityDbProofs --------------------------
(***************************************************************************)
(* Proofs about the assessment database, for any findings, any number of   *)
(* Managers and revisions, and any number of interrupted scripts.          *)
(***************************************************************************)
EXTENDS SecurityDb, FiniteSetTheorems, TLAPS

Ids == {601, 602, 37, 38}

-----------------------------------------------------------------------------
(* The reference values. *)

\* Each id stands for one code, each code is that of one row.
ValuesInv ==
  /\ DOMAIN values \subseteq Ids
  /\ \A i \in DOMAIN values : values[i] = IF i \in {601, 37} THEN "local" ELSE "shared"
  /\ \A i, j \in DOMAIN values : values[i] = values[j] => i = j
  /\ texts \subseteq Ids

LEMMA ShippedRows ==
  LET rows == ReferenceRows(NoRows, ShippedId)
  IN  DOMAIN rows = {37, 38} /\ rows[37] = "local" /\ rows[38] = "shared"
BY DEF ReferenceRows, InsertOrReplace, NoRows, ShippedId

\* After reference-data.sql there are the rows of the script, and no others:
\* those of the same codes have gone.
LEMMA ScriptRows ==
  ASSUME ValuesInv
  PROVE  LET rows == ReferenceRows(values, ScriptId)
         IN  DOMAIN rows = {601, 602} /\ rows[601] = "local" /\ rows[602] = "shared"
<1> DEFINE first == InsertOrReplace(values, 601, "local")
           rows == InsertOrReplace(first, 602, "shared")
<1>1. /\ DOMAIN first = {j \in DOMAIN values : values[j] # "local"} \cup {601}
      /\ first[601] = "local" /\ \A i \in DOMAIN first \ {601} : first[i] = "shared"
  BY DEF InsertOrReplace, ValuesInv
<1> HIDE DEF first
<1>2. /\ DOMAIN rows = {j \in DOMAIN first : first[j] # "shared"} \cup {602}
      /\ rows[602] = "shared" /\ \A i \in DOMAIN rows \ {602} : rows[i] = first[i]
  BY DEF InsertOrReplace
<1>3. {j \in DOMAIN first : first[j] # "shared"} = {601}
  BY <1>1
<1>4. ReferenceRows(values, ScriptId) = rows
  BY DEF ReferenceRows, ScriptId, first
<1> HIDE DEF rows
<1> QED
  BY <1>1, <1>2, <1>3, <1>4

-----------------------------------------------------------------------------
(* The invariant. *)

Rows(f) == {a \in assessments : a.finding = f}

\* The revisions of a finding are 1 to n, each in one row.
Counted(f, n) == Revisions(f) = 1..n /\ IsFiniteSet(Rows(f)) /\ Cardinality(Rows(f)) = n

\* What a Manager has read is the latest revision or an earlier one.
EditInv ==
  \A m \in Managers :
    editing[m] # Idle =>
      /\ editing[m].finding \in Findings
      /\ editing[m].revision \in 0..(MaxRevisions - 1)
      /\ editing[m].revision \in Revisions(editing[m].finding) \cup {0}

RowsInv ==
  /\ assessments \subseteq [finding : Findings, revision : 1..MaxRevisions, state : Ids]
  /\ \A f \in Findings : \E n \in 0..MaxRevisions : Counted(f, n)

\* What is there while schema.sql runs, and before the migration.
SchemaInv ==
  /\ \A k \in 1..Length : k < statement => Script[k] \in tables \cup {"version", "views"}
  /\ userVersion = 2 => AllTables \ {"observation"} \subseteq tables /\ \A v \in ViewGroups : views[v] # 0
  /\ SchemaComplete

-----------------------------------------------------------------------------
(* Revisions. *)

LEMMA GreatestIs ==
  ASSUME NEW S, NEW n \in Nat, S = 1..n
  PROVE  (CHOOSE k \in S \cup {0} : \A j \in S : j <= k) = n
<1>1. n \in S \cup {0} /\ \A j \in S : j <= n
  OBVIOUS
<1>2. \A k \in S \cup {0} : (\A j \in S : j <= k) => k = n
  OBVIOUS
<1>3. \E k \in S \cup {0} : \A j \in S : j <= k
  BY <1>1
<1> QED
  BY <1>2, <1>3

LEMMA LatestIs ==
  ASSUME NEW f, NEW n \in Nat, Revisions(f) = 1..n
  PROVE  Latest(f) = n
BY GreatestIs DEF Latest

Row(f, n, id) == [finding |-> f, revision |-> n, state |-> id]

\* What Save does: the next revision of a finding, in one new row.
LEMMA SaveFacts ==
  ASSUME RowsInv, EditInv, ValuesInv, NEW m \in Managers, Save(m)
  PROVE  \E f \in Findings, n \in 1..MaxRevisions, id \in DOMAIN values :
           /\ assessments' = assessments \cup {Row(f, n, id)}
           /\ lastSaved' = [lastSaved EXCEPT ![f] = values[id]]
           /\ editing' = [editing EXCEPT ![m] = Idle]
           /\ Revisions(f) = 1..(n - 1)
<1>1. /\ editing[m] # Idle /\ editing[m].revision + 1 \notin Revisions(editing[m].finding)
      /\ editing' = [editing EXCEPT ![m] = Idle]
  BY DEF Save, Unique
<1>2. PICK f \in Findings, v \in 0..(MaxRevisions - 1) :
        f = editing[m].finding /\ v = editing[m].revision /\ v \in Revisions(f) \cup {0}
  BY <1>1 DEF EditInv
<1>3. PICK k \in 0..MaxRevisions : Revisions(f) = 1..k
  BY <1>2 DEF RowsInv, Counted
<1>4. k = v /\ v + 1 \in 1..MaxRevisions /\ (v + 1) - 1 = v
  BY <1>1, <1>2, <1>3, BoundsAssumption
<1>5. PICK id \in DOMAIN values :
        /\ assessments' = assessments \cup {Row(f, v + 1, id)}
        /\ lastSaved' = [lastSaved EXCEPT ![f] = values[id]]
  BY <1>2 DEF Save, Row
<1> QED
  BY <1>1, <1>3, <1>4, <1>5

\* One more revision.
LEMMA OneMoreRow ==
  ASSUME RowsInv, NEW f \in Findings, NEW n \in 1..MaxRevisions, NEW id \in Ids,
         Revisions(f) = 1..(n - 1), assessments' = assessments \cup {Row(f, n, id)}
  PROVE  /\ Row(f, n, id) \notin assessments
         /\ Counted(f, n)'
         /\ \A g \in Findings \ {f} : Rows(g)' = Rows(g) /\ Revisions(g)' = Revisions(g)
         /\ RowsInv'
<1> DEFINE r == Row(f, n, id)
<1>1. r.finding = f /\ r.revision = n /\ r \in [finding : Findings, revision : 1..MaxRevisions, state : Ids]
  BY DEF Row
<1>2. n \in Nat /\ n \notin 1..(n - 1) /\ 1..n = 1..(n - 1) \cup {n}
  BY BoundsAssumption
<1> HIDE DEF r
<1>3. r \notin assessments
  BY <1>1, <1>2 DEF Revisions
<1>4. Rows(f)' = Rows(f) \cup {r} /\ r \notin Rows(f)
  BY <1>1, <1>3 DEF Rows, r
<1>5. \A g \in Findings \ {f} : Rows(g)' = Rows(g) /\ Revisions(g)' = Revisions(g)
  <2>1. \A g \in Findings \ {f} : Rows(g)' = Rows(g)
    BY <1>1 DEF Rows, r
  <2> QED
    BY <2>1 DEF Revisions, Rows
<1>6. Revisions(f)' = Revisions(f) \cup {n}
  <2>1. Revisions(f)' = {a.revision : a \in Rows(f)'} /\ Revisions(f) = {a.revision : a \in Rows(f)}
    BY DEF Revisions, Rows
  <2> QED
    BY <1>1, <1>4, <2>1
<1>7. PICK k \in 0..MaxRevisions : Counted(f, k)
  BY DEF RowsInv
<1>8. k = n - 1
  BY <1>7, BoundsAssumption DEF Counted
<1>9. IsFiniteSet(Rows(f)') /\ Cardinality(Rows(f)') = n
  BY <1>4, <1>7, <1>8, FS_AddElement, BoundsAssumption DEF Counted
<1>10. Counted(f, n)'
  BY <1>2, <1>6, <1>9 DEF Counted
<1>11. RowsInv'
  <2>1. assessments' \subseteq [finding : Findings, revision : 1..MaxRevisions, state : Ids]
    BY <1>1 DEF RowsInv, r
  <2>2. ASSUME NEW g \in Findings PROVE \E j \in 0..MaxRevisions : Counted(g, j)'
    <3>1. CASE g = f
      BY <1>10, <3>1, BoundsAssumption
    <3>2. CASE g # f
      BY <1>5, <3>2 DEF RowsInv, Counted
    <3> QED
      BY <3>1, <3>2
  <2> QED
    BY <2>1, <2>2 DEF RowsInv
<1> QED
  BY <1>3, <1>5, <1>10, <1>11 DEF r

-----------------------------------------------------------------------------
(* Types: the conjuncts of TypeOK about the variables one by one. *)

Types ==
  /\ tables \subseteq AllTables
  /\ views \in [ViewGroups -> {0, 2, 3}]
  /\ userVersion \in {0, 2, 3}
  /\ statement \in 0..Length
  /\ editing \in [Managers -> [finding : Findings \cup {"none"},
                               revision : 0..MaxRevisions]]
  /\ lastSaved \in [Findings -> Codes \cup {"none"}]
  /\ completed \in BOOLEAN
  /\ crashes \in 0..MaxCrashes

DbInv == ValuesInv /\ Types /\ EditInv /\ RowsInv /\ SchemaInv

LEMMA InitInv == Init => DbInv
<1> SUFFICES ASSUME Init PROVE DbInv
  OBVIOUS
<1>1. PICK origin \in Origins :
        /\ tables = CASE origin = "empty" -> {}
                     [] origin = "version2" -> AllTables \ {"observation"}
                     [] OTHER -> AllTables
        /\ views = CASE origin = "empty" -> [v \in ViewGroups |-> 0]
                    [] origin = "version2" -> [v \in ViewGroups |-> 2]
                    [] OTHER -> [v \in ViewGroups |-> 3]
        /\ userVersion = CASE origin = "empty" -> 0
                          [] origin = "version2" -> 2
                          [] OTHER -> 3
        /\ values = IF origin = "empty" THEN NoRows
                   ELSE ReferenceRows(NoRows, ShippedId)
        /\ texts = DOMAIN values
        /\ completed = (origin = "shipped")
  BY DEF Init
<1>2. statement = 0 /\ assessments = {} /\ crashes = 0
      /\ editing = [m \in Managers |-> Idle] /\ lastSaved = [f \in Findings |-> "none"]
  BY DEF Init
<1>3. origin \in {"empty", "version2", "shipped"}
  BY OriginsAssumption
<1>4. ValuesInv
  <2>1. CASE origin = "empty"
    BY <1>1, <2>1 DEF NoRows, ValuesInv
  <2>2. CASE origin # "empty"
    <3>1. DOMAIN values = {37, 38} /\ values[37] = "local" /\ values[38] = "shared"
      BY <1>1, <2>2, ShippedRows
    <3> QED
      BY <1>1, <3>1 DEF ValuesInv, Ids
  <2> QED
    BY <2>1, <2>2
<1>5. tables \subseteq AllTables /\ views \in [ViewGroups -> {0, 2, 3}]
      /\ userVersion \in {0, 2, 3}
  BY <1>1, <1>3
<1>6. Types
  BY <1>1, <1>2, <1>5, BoundsAssumption DEF Types, Length, Idle, Codes
<1>7. EditInv
  BY <1>2 DEF EditInv
<1>8. RowsInv
  <2>1. ASSUME NEW f \in Findings PROVE Counted(f, 0)
    BY <1>2, FS_EmptySet DEF Counted, Revisions, Rows
  <2> QED
    BY <1>2, <2>1, BoundsAssumption DEF RowsInv
<1>9. SchemaInv
  <2> DEFINE Ready == AllTables \ {"observation"} \subseteq tables /\ \A v \in ViewGroups : views[v] # 0
  <2>1. \A k \in 1..Length : ~(k < statement)
    BY <1>2 DEF Length
  <2>2. CASE origin = "empty"
    <3>1. userVersion = 0 /\ ~completed
      BY <1>1, <2>2
    <3> QED
      BY <2>1, <3>1 DEF SchemaInv, SchemaComplete
  <2>3. CASE origin = "version2"
    <3>1. views = [v \in ViewGroups |-> 2] /\ tables = AllTables \ {"observation"}
      BY <1>1, <2>3
    <3>2. ~completed
      BY <1>1, <2>3
    <3> QED
      BY <2>1, <3>1, <3>2 DEF SchemaInv, SchemaComplete
  <2>4. CASE origin = "shipped"
    <3>1. Ready /\ tables = AllTables
      BY <1>1, <2>4
    <3> QED
      BY <2>1, <3>1 DEF SchemaInv, SchemaComplete
  <2> QED
    BY <1>3, <2>2, <2>3, <2>4
<1> QED
  BY <1>4, <1>6, <1>7, <1>8, <1>9 DEF DbInv

LEMMA ValuesStep == DbInv /\ [Next]_vars => ValuesInv'
<1> SUFFICES ASSUME ValuesInv, [Next]_vars PROVE ValuesInv'
  BY DEF DbInv
<1>1. ASSUME NEW enforced \in Enforcement, LoadReferenceData(enforced) PROVE ValuesInv'
  <2>1. DOMAIN values' = {601, 602} /\ values'[601] = "local" /\ values'[602] = "shared"
    BY <1>1, ScriptRows DEF LoadReferenceData
  <2>2. texts' = texts \cup DOMAIN values'
    BY <1>1 DEF LoadReferenceData
  <2> QED
    BY <2>1, <2>2 DEF ValuesInv, Ids
<1>2. CASE UNCHANGED <<values, texts>>
  BY <1>2 DEF ValuesInv
<1>3. ASSUME NEW m \in Managers, Save(m) PROVE UNCHANGED <<values, texts>>
  BY <1>3 DEF Save
<1>4. ASSUME NEW m \in Managers, NEW f \in Findings, Edit(m, f) PROVE UNCHANGED <<values, texts>>
  BY <1>4 DEF Edit
<1>5. ASSUME NEW m \in Managers, Abandon(m) PROVE UNCHANGED <<values, texts>>
  BY <1>5 DEF Abandon
<1>6. CASE Begin \/ Execute \/ Crash \/ Migrate \/ UNCHANGED vars
  BY <1>2, <1>6 DEF Begin, Execute, Crash, Migrate, vars
<1> QED
  BY <1>1, <1>2, <1>3, <1>4, <1>5, <1>6 DEF Next

LEMMA RowsStep == DbInv /\ [Next]_vars => RowsInv'
<1> SUFFICES ASSUME DbInv, [Next]_vars PROVE RowsInv'
  OBVIOUS
<1>1. CASE UNCHANGED assessments
  BY <1>1 DEF DbInv, RowsInv, Counted, Revisions, Rows
<1>2. ASSUME NEW m \in Managers, Save(m) PROVE RowsInv'
  BY <1>2, SaveFacts, OneMoreRow DEF DbInv, ValuesInv
<1>3. ASSUME NEW m \in Managers, NEW f \in Findings, Edit(m, f) PROVE UNCHANGED assessments
  BY <1>3 DEF Edit
<1>4. ASSUME NEW m \in Managers, Abandon(m) PROVE UNCHANGED assessments
  BY <1>4 DEF Abandon
<1>5. ASSUME NEW enforced \in Enforcement, LoadReferenceData(enforced) PROVE UNCHANGED assessments
  BY <1>5 DEF LoadReferenceData
<1>6. CASE Begin \/ Execute \/ Crash \/ Migrate \/ UNCHANGED vars
  BY <1>1, <1>6 DEF Begin, Execute, Crash, Migrate, vars
<1> QED
  BY <1>1, <1>2, <1>3, <1>4, <1>5, <1>6 DEF Next

LEMMA EditStep == DbInv /\ [Next]_vars => EditInv'
<1> SUFFICES ASSUME DbInv, [Next]_vars PROVE EditInv'
  OBVIOUS
<1>1. CASE UNCHANGED <<editing, assessments>>
  BY <1>1 DEF DbInv, EditInv, Revisions
<1>2. ASSUME NEW m \in Managers, Save(m) PROVE EditInv'
  <2>1. assessments \subseteq assessments' /\ editing' = [editing EXCEPT ![m] = Idle]
    BY <1>2 DEF Save
  <2>2. ASSUME NEW f PROVE Revisions(f) \subseteq Revisions(f)'
    BY <2>1 DEF Revisions
  <2>3. ASSUME NEW k \in Managers, editing'[k] # Idle PROVE editing'[k] = editing[k]
    BY <2>1, <2>3 DEF DbInv, Types
  <2> QED
    BY <2>2, <2>3 DEF DbInv, EditInv
<1>3. ASSUME NEW m \in Managers, NEW f \in Findings, Edit(m, f) PROVE EditInv'
  <2>1. PICK n \in 0..MaxRevisions : Revisions(f) = 1..n
    BY DEF DbInv, RowsInv, Counted
  <2>2. Latest(f) = n /\ n \in Revisions(f) \cup {0}
    BY <2>1, LatestIs, BoundsAssumption
  <2>3. /\ n \in 0..(MaxRevisions - 1) /\ assessments' = assessments
        /\ editing' = [editing EXCEPT ![m] = [finding |-> f, revision |-> n]]
    BY <1>3, <2>2, BoundsAssumption DEF Edit
  <2>4. ASSUME NEW g PROVE Revisions(g)' = Revisions(g)
    BY <2>3 DEF Revisions
  <2>5. ASSUME NEW k \in Managers, k # m PROVE editing'[k] = editing[k]
    BY <2>3, <2>5 DEF DbInv, Types
  <2>6. editing'[m] = [finding |-> f, revision |-> n]
    BY <2>3 DEF DbInv, Types
  <2> QED
    BY <2>2, <2>3, <2>4, <2>5, <2>6 DEF DbInv, EditInv
<1>4. ASSUME NEW m \in Managers, Abandon(m) PROVE EditInv'
  <2>1. assessments' = assessments /\ editing' = [editing EXCEPT ![m] = Idle]
    BY <1>4 DEF Abandon
  <2>2. ASSUME NEW f PROVE Revisions(f)' = Revisions(f)
    BY <2>1 DEF Revisions
  <2>3. ASSUME NEW k \in Managers, editing'[k] # Idle PROVE editing'[k] = editing[k]
    BY <2>1, <2>3 DEF DbInv, Types
  <2> QED
    BY <2>2, <2>3 DEF DbInv, EditInv
<1>5. ASSUME NEW enforced \in Enforcement, LoadReferenceData(enforced)
      PROVE  UNCHANGED <<editing, assessments>>
  BY <1>5 DEF LoadReferenceData
<1>6. CASE Begin \/ Execute \/ Crash \/ Migrate \/ UNCHANGED vars
  BY <1>1, <1>6 DEF Begin, Execute, Crash, Migrate, vars
<1> QED
  BY <1>1, <1>2, <1>3, <1>4, <1>5, <1>6 DEF Next

LEMMA SchemaStep == DbInv /\ [Next]_vars => SchemaInv'
<1> SUFFICES ASSUME DbInv, [Next]_vars PROVE SchemaInv'
  OBVIOUS
<1> USE DEF DbInv
<1>1. CASE UNCHANGED <<tables, views, userVersion, statement, completed>>
  BY <1>1 DEF SchemaInv, SchemaComplete
<1>2. CASE Begin
  <2>1. statement' = 1 /\ UNCHANGED <<tables, views, userVersion, completed>>
    BY <1>2 DEF Begin
  <2> QED
    BY <2>1 DEF SchemaInv, SchemaComplete
<1>3. CASE Execute
  <2>1. statement \in 1..6 /\ tables \subseteq AllTables /\ userVersion \in {0, 2, 3}
        /\ views \in [ViewGroups -> {0, 2, 3}]
    BY <1>3 DEF Execute, Types, Length
  <2>2. /\ tables' = tables \cup ({Script[statement]} \cap AllTables)
        /\ statement' = IF statement = 6 THEN 0 ELSE statement + 1
        /\ userVersion' = IF Script[statement] = "version" THEN 3 ELSE userVersion
        /\ completed' = (completed \/ statement = 6)
    BY <1>3 DEF Execute, Length
  <2>3. \A v \in ViewGroups : (views[v] # 0 \/ Script[statement] = "views") => views'[v] # 0
    BY <1>3, <2>1 DEF Execute
  <2>4. \A k \in 1..6 : Script[k] \in AllTables \cup {"version", "views"}
    BY DEF Script, AllTables
  <2>5. \A k \in 1..Length : k < statement' => Script[k] \in tables' \cup {"version", "views"}
    <3> SUFFICES ASSUME NEW k \in 1..6, k < statement'
                 PROVE  Script[k] \in tables' \cup {"version", "views"}
      BY DEF Length
    <3>1. k < statement \/ k = statement
      BY <2>1, <2>2
    <3>2. CASE k < statement
      BY <2>2, <3>2 DEF SchemaInv, Length
    <3>3. CASE k = statement
      BY <2>2, <2>4, <3>3
    <3> QED
      BY <3>1, <3>2, <3>3
  <2>6. (userVersion = 2 => AllTables \ {"observation"} \subseteq tables /\ \A v \in ViewGroups : views[v] # 0)'
    BY <2>2, <2>3 DEF SchemaInv
  <2>7. SchemaComplete'
    <3>1. CASE statement = 6
      <4>1. Script[6] = "views" /\ Script[2] = "reference" /\ Script[3] = "provider"
            /\ Script[4] = "observation" /\ Script[5] = "assessment"
        BY DEF Script
      <4>2. AllTables \subseteq tables
        BY <3>1, <4>1 DEF SchemaInv, AllTables, Length
      <4> QED
        BY <2>1, <2>2, <2>3, <3>1, <4>1, <4>2 DEF SchemaComplete
    <3>2. CASE statement # 6
      BY <2>1, <2>2, <2>3, <3>2 DEF SchemaInv, SchemaComplete
    <3> QED
      BY <3>1, <3>2
  <2> QED
    BY <2>5, <2>6, <2>7 DEF SchemaInv
<1>4. CASE Crash
  <2>1. statement' = 0 /\ UNCHANGED <<tables, views, userVersion, completed>>
    BY <1>4 DEF Crash
  <2> QED
    BY <2>1 DEF SchemaInv, SchemaComplete, Length
<1>5. CASE Migrate
  <2>1. /\ statement' = 0 /\ userVersion = 2 /\ userVersion' = 3
        /\ tables' = tables \cup {"observation"} /\ views' = [views EXCEPT !["external"] = 3]
    BY <1>5 DEF Migrate
  <2>2. tables' = AllTables
    BY <2>1 DEF SchemaInv, Types, AllTables
  <2>3. \A v \in ViewGroups : views[v] # 0
    BY <2>1 DEF SchemaInv
  <2>4. \A v \in ViewGroups : views'[v] # 0
    BY <2>1, <2>3 DEF Types
  <2> QED
    BY <2>1, <2>2, <2>4 DEF SchemaInv, SchemaComplete, Length
<1>6. ASSUME NEW m \in Managers, Save(m) \/ Abandon(m) PROVE SchemaInv'
  BY <1>1, <1>6 DEF Save, Abandon
<1>7. ASSUME NEW m \in Managers, NEW f \in Findings, Edit(m, f) PROVE SchemaInv'
  BY <1>1, <1>7 DEF Edit
<1>8. ASSUME NEW enforced \in Enforcement, LoadReferenceData(enforced) PROVE SchemaInv'
  BY <1>1, <1>8 DEF LoadReferenceData
<1>9. CASE UNCHANGED vars
  BY <1>1, <1>9 DEF vars
<1> QED
  BY <1>2, <1>3, <1>4, <1>5, <1>6, <1>7, <1>8, <1>9 DEF Next

LEMMA TypesStep == DbInv /\ [Next]_vars => Types'
<1> SUFFICES ASSUME DbInv, [Next]_vars PROVE Types'
  OBVIOUS
<1> USE DEF DbInv
<1>1. CASE Begin
  BY <1>1 DEF Begin, Types, Length
<1>2. CASE Execute
  <2>1. statement \in 1..6 /\ statement' \in 0..6
    BY <1>2 DEF Execute, Length
  <2>2. tables' \subseteq AllTables /\ userVersion' \in {0, 2, 3}
    BY <1>2 DEF Execute, Types
  <2>3. views' \in [ViewGroups -> {0, 2, 3}]
    BY <1>2 DEF Execute, Types
  <2>4. completed' \in BOOLEAN
    BY <1>2 DEF Execute
  <2>5. UNCHANGED <<editing, lastSaved, crashes>>
    BY <1>2 DEF Execute
  <2> QED
    BY <2>1, <2>2, <2>3, <2>4, <2>5 DEF Types, Length
<1>3. CASE Crash
  BY <1>3, BoundsAssumption DEF Crash, Types, Length
<1>4. CASE Migrate
  <2>1. tables' \subseteq AllTables /\ views' \in [ViewGroups -> {0, 2, 3}]
    BY <1>4 DEF Migrate, Types, AllTables
  <2> QED
    BY <1>4, <2>1 DEF Migrate, Types
<1>5. ASSUME NEW enforced \in Enforcement, LoadReferenceData(enforced) PROVE Types'
  BY <1>5 DEF LoadReferenceData, Types
<1>6. ASSUME NEW m \in Managers, NEW f \in Findings, Edit(m, f) PROVE Types'
  <2>1. PICK n \in 0..MaxRevisions : Revisions(f) = 1..n
    BY DEF RowsInv, Counted
  <2>2. Latest(f) = n
    BY <2>1, LatestIs, BoundsAssumption
  <2>3. editing' = [editing EXCEPT ![m] = [finding |-> f, revision |-> n]]
    BY <1>6, <2>2 DEF Edit
  <2>4. UNCHANGED <<tables, views, userVersion, statement, lastSaved, completed, crashes>>
    BY <1>6 DEF Edit
  <2> QED
    BY <2>3, <2>4 DEF Types
<1>7. ASSUME NEW m \in Managers, Save(m) PROVE Types'
  <2>1. PICK f \in Findings, id \in DOMAIN values :
          lastSaved' = [lastSaved EXCEPT ![f] = values[id]] /\ editing' = [editing EXCEPT ![m] = Idle]
    BY <1>7, SaveFacts
  <2>2. values[id] \in Codes \cup {"none"}
    BY <2>1 DEF ValuesInv, Codes
  <2>3. UNCHANGED <<tables, views, userVersion, statement, completed, crashes>>
    BY <1>7 DEF Save
  <2> QED
    BY <2>1, <2>2, <2>3, BoundsAssumption DEF Types, Idle
<1>8. ASSUME NEW m \in Managers, Abandon(m) PROVE Types'
  BY <1>8, BoundsAssumption DEF Abandon, Types, Idle
<1>9. CASE UNCHANGED vars
  BY <1>9 DEF Types, vars
<1> QED
  BY <1>1, <1>2, <1>3, <1>4, <1>5, <1>6, <1>7, <1>8, <1>9 DEF Next

LEMMA DbStep == DbInv /\ [Next]_vars => DbInv'
BY ValuesStep, TypesStep, EditStep, RowsStep, SchemaStep DEF DbInv

LEMMA DbInvariant == Spec => []DbInv
BY InitInv, DbStep, PTL DEF Spec

-----------------------------------------------------------------------------
(* What follows. *)

LEMMA InvTypes == DbInv => TypeOK
<1> SUFFICES ASSUME DbInv PROVE TypeOK
  OBVIOUS
<1>1. /\ DOMAIN values \subseteq {601, 602, 37, 38} /\ texts \subseteq {601, 602, 37, 38}
      /\ \A i, j \in DOMAIN values : values[i] \in Codes /\ (values[i] = values[j] => i = j)
  BY DEF DbInv, ValuesInv, Ids, Codes
<1>2. assessments \subseteq [finding : Findings, revision : 1..MaxRevisions,
                             state : {601, 602, 37, 38}]
  BY DEF DbInv, RowsInv, Ids
<1> QED
  BY <1>1, <1>2 DEF DbInv, Types, TypeOK

\* Every row has the types of the schema, whatever scripts and Managers did:
\* each of the ids stands for one code and each code has one row.
THEOREM DbTypes == Spec => []TypeOK
BY DbInvariant, InvTypes, PTL

\* The revisions of a finding are numbered from 1 without a gap, each once,
\* for any number of Managers that save from what they read earlier.
THEOREM RevisionsNumbered == Spec => []RevisionsInOrder
<1>1. DbInv => RevisionsInOrder
  <2> SUFFICES ASSUME DbInv, NEW f \in Findings
               PROVE  {a.revision : a \in Rows(f)} = 1..Cardinality(Rows(f))
    BY DEF RevisionsInOrder, Rows
  <2>1. PICK n \in 0..MaxRevisions : Counted(f, n)
    BY DEF DbInv, RowsInv
  <2>2. {a.revision : a \in Rows(f)} = Revisions(f)
    BY DEF Rows, Revisions
  <2> QED
    BY <2>1, <2>2 DEF Counted
<1> QED
  BY <1>1, DbInvariant, PTL

\* A database that a script has brought to its end has every table and view,
\* however many runs of schema.sql broke off before.
THEOREM SchemaGetsComplete == Spec => []SchemaComplete
<1>1. DbInv => SchemaComplete
  BY DEF DbInv, SchemaInv
<1> QED
  BY <1>1, DbInvariant, PTL

-----------------------------------------------------------------------------
(* With foreign keys enforced, what was saved keeps its meaning. *)

\* The row is the latest one of its finding.
Top(a) == \A b \in assessments : b.finding = a.finding => b.revision <= a.revision

\* A saved row refers to a value that is there; the latest one of a finding has
\* the state that was saved last.
LastInv ==
  /\ \A a \in assessments : a.state \in DOMAIN values
  /\ \A a \in assessments : Top(a) => values[a.state] = lastSaved[a.finding]
  /\ \A f \in Findings : Rows(f) = {} => lastSaved[f] = "none"

\* The script finds its ids, or those of the shipped database, and the code of
\* an id is always the same.
LEMMA LoadKeeps ==
  ASSUME DbInv, LastInv, NEW enforced \in Enforcement, enforced,
         LoadReferenceData(enforced)
  PROVE  \A a \in assessments : a.state \in DOMAIN values' /\ values'[a.state] = values[a.state]
<1> SUFFICES ASSUME NEW a \in assessments
             PROVE  a.state \in DOMAIN values' /\ values'[a.state] = values[a.state]
  OBVIOUS
<1>1. values' = ReferenceRows(values, ScriptId) /\ Referenced \subseteq DOMAIN values'
  BY DEF LoadReferenceData
<1>2. a.state \in Referenced
  BY DEF Referenced
<1>3. DOMAIN values' = {601, 602} /\ values'[601] = "local" /\ values'[602] = "shared"
  BY <1>1, ScriptRows DEF DbInv
<1>4. a.state \in DOMAIN values
  BY DEF LastInv
<1> QED
  BY <1>1, <1>2, <1>3, <1>4 DEF DbInv, ValuesInv

LEMMA LastStep ==
  ASSUME \A e \in Enforcement : e
  PROVE  DbInv /\ LastInv /\ [Next]_vars => LastInv'
<1> SUFFICES ASSUME DbInv, LastInv, [Next]_vars PROVE LastInv'
  OBVIOUS
<1>1. CASE UNCHANGED <<values, assessments, lastSaved>>
  <2>1. ASSUME NEW a, Top(a)' PROVE Top(a)
    BY <1>1, <2>1 DEF Top
  <2>2. ASSUME NEW f, Rows(f)' = {} PROVE Rows(f) = {}
    BY <1>1, <2>2 DEF Rows
  <2> QED
    BY <1>1, <2>1, <2>2 DEF LastInv
<1>2. ASSUME NEW enforced \in Enforcement, LoadReferenceData(enforced) PROVE LastInv'
  <2>1. enforced
    OBVIOUS
  <2>2. assessments' = assessments /\ lastSaved' = lastSaved
    BY <1>2 DEF LoadReferenceData
  <2>3. \A a \in assessments : a.state \in DOMAIN values' /\ values'[a.state] = values[a.state]
    BY <1>2, <2>1, LoadKeeps
  <2>4. ASSUME NEW a, Top(a)' PROVE Top(a)
    BY <2>2, <2>4 DEF Top
  <2>5. ASSUME NEW f, Rows(f)' = {} PROVE Rows(f) = {}
    BY <2>2, <2>5 DEF Rows
  <2> QED
    BY <2>2, <2>3, <2>4, <2>5 DEF LastInv
<1>3. ASSUME NEW m \in Managers, Save(m) PROVE LastInv'
  <2>1. PICK f \in Findings, n \in 1..MaxRevisions, id \in DOMAIN values :
          /\ assessments' = assessments \cup {Row(f, n, id)}
          /\ lastSaved' = [lastSaved EXCEPT ![f] = values[id]]
          /\ Revisions(f) = 1..(n - 1)
    BY <1>3, SaveFacts DEF DbInv
  <2>2. values' = values
    BY <1>3 DEF Save
  <2>3. lastSaved \in [Findings -> Codes \cup {"none"}]
    BY DEF DbInv, Types
  <2> DEFINE r == Row(f, n, id)
  <2>4. r.finding = f /\ r.revision = n /\ r.state = id
    BY DEF Row
  <2>5. assessments' = assessments \cup {r}
    BY <2>1
  <2> HIDE DEF r
  <2>6. \A a \in assessments : a.finding \in Findings
    BY DEF DbInv, RowsInv
  <2>7. \A a \in assessments : a.finding = f => a.revision \in 1..(n - 1)
    BY <2>1 DEF Revisions
  <2>8. \A a \in assessments' : a.state \in DOMAIN values'
    BY <2>1, <2>2, <2>4, <2>5 DEF LastInv
  <2>9. ASSUME NEW a \in assessments', Top(a)'
        PROVE  values'[a.state] = lastSaved'[a.finding]
    <3>1. CASE a = r
      BY <2>1, <2>2, <2>3, <2>4, <3>1
    <3>2. CASE a # r /\ a.finding = f
      <4>1. a \in assessments /\ a.revision \in 1..(n - 1)
        BY <2>5, <2>7, <3>2
      <4>2. r.revision <= a.revision
        BY <2>4, <2>5, <2>9, <3>2 DEF Top
      <4> QED
        BY <2>4, <4>1, <4>2, BoundsAssumption
    <3>3. CASE a # r /\ a.finding # f
      <4>1. a \in assessments
        BY <2>5, <3>3
      <4>2. Top(a)
        BY <2>5, <2>9 DEF Top
      <4>3. values[a.state] = lastSaved[a.finding]
        BY <4>1, <4>2 DEF LastInv
      <4>4. lastSaved'[a.finding] = lastSaved[a.finding]
        BY <2>1, <2>3, <2>6, <3>3, <4>1
      <4> QED
        BY <2>2, <4>3, <4>4
    <3> QED
      BY <3>1, <3>2, <3>3
  <2>10. ASSUME NEW g \in Findings, Rows(g)' = {} PROVE lastSaved'[g] = "none"
    <3>1. g # f
      BY <2>4, <2>5, <2>10 DEF Rows
    <3>2. Rows(g) = {}
      BY <2>5, <2>10 DEF Rows
    <3> QED
      BY <2>1, <2>3, <3>1, <3>2 DEF LastInv
  <2> QED
    BY <2>8, <2>9, <2>10 DEF LastInv
<1>4. ASSUME NEW m \in Managers, NEW f \in Findings, Edit(m, f) PROVE LastInv'
  BY <1>1, <1>4 DEF Edit
<1>5. ASSUME NEW m \in Managers, Abandon(m) PROVE LastInv'
  BY <1>1, <1>5 DEF Abandon
<1>6. CASE Begin \/ Execute \/ Crash \/ Migrate \/ UNCHANGED vars
  BY <1>1, <1>6 DEF Begin, Execute, Crash, Migrate, vars
<1> QED
  BY <1>2, <1>3, <1>4, <1>5, <1>6 DEF Next

LEMMA LastInvariant ==
  ASSUME \A e \in Enforcement : e
  PROVE  Spec => [](DbInv /\ LastInv)
<1>1. Init => LastInv
  BY DEF Init, LastInv
<1>2. LastInv /\ DbInv /\ [Next]_vars => LastInv'
  BY LastStep
<1> QED
  BY <1>1, <1>2, DbInvariant, PTL DEF Spec

\* With foreign keys enforced a finding is listed as shared exactly when the
\* decision saved last for it says so.
THEOREM SharedIsDecision ==
  ASSUME \A e \in Enforcement : e
  PROVE  Spec => []SharedIsLastDecision
<1>1. DbInv /\ LastInv => SharedIsLastDecision
  <2> SUFFICES ASSUME DbInv, LastInv, NEW f \in Findings
               PROVE  (\E a \in SharedCurrentAssessment : a.finding = f) <=> lastSaved[f] = "shared"
    BY DEF SharedIsLastDecision
  <2>1. PICK n \in 0..MaxRevisions : Counted(f, n)
    BY DEF DbInv, RowsInv
  <2>2. n \in Nat /\ Revisions(f) = 1..n
    BY <2>1, BoundsAssumption DEF Counted
  <2>3. Latest(f) = n
    BY <2>2, LatestIs
  <2>4. ASSUME NEW a \in assessments, a.finding = f, a.revision = n
        PROVE  values[a.state] = lastSaved[f] /\ a.state \in DOMAIN values /\ a \in CurrentAssessment
    <3>1. Top(a)
      BY <2>2, <2>4 DEF Top, Revisions
    <3> QED
      BY <2>3, <2>4, <3>1 DEF LastInv, CurrentAssessment
  <2>5. ASSUME NEW a \in SharedCurrentAssessment, a.finding = f PROVE lastSaved[f] = "shared"
    BY <2>3, <2>4, <2>5 DEF SharedCurrentAssessment, CurrentAssessment
  <2>6. ASSUME lastSaved[f] = "shared" PROVE \E a \in SharedCurrentAssessment : a.finding = f
    <3>1. Rows(f) # {}
      BY <2>6 DEF LastInv
    <3>2. n \in Revisions(f)
      BY <2>2, <3>1 DEF Rows, Revisions
    <3>3. PICK a \in assessments : a.finding = f /\ a.revision = n
      BY <3>2 DEF Revisions
    <3> QED
      BY <2>4, <2>6, <3>3 DEF SharedCurrentAssessment
  <2> QED
    BY <2>5, <2>6
<1> QED
  BY <1>1, LastInvariant, PTL
=============================================================================
