----------------------------- MODULE SecurityDb -----------------------------
(***************************************************************************)
(* The assessment database admin/security/build-assessments.sqlite: what   *)
(* schema.sql, migrations/002-to-003.sql and reference-data.sql do to it,  *)
(* and what its constraints and views promise to the programs that write   *)
(* and read it.                                                            *)
(*                                                                         *)
(* schema.sql has no transaction: each statement commits alone, and the    *)
(* run can end between two.  The other two scripts are one transaction     *)
(* each.  The Manager, which is not part of this repository, saves an      *)
(* assessment of a finding as the next revision after the one it read.     *)
(***************************************************************************)
EXTENDS Naturals, FiniteSets

CONSTANTS
  Findings,      \* rows of build_finding
  Managers,      \* Manager processes that edit the database
  Origins,       \* the databases the model may start from
  Enforcement,   \* what PRAGMA foreign_keys may be when reference-data.sql runs:
                 \* off by SQLite's default, on if the caller has turned it on
  MaxRevisions,  \* bound: revisions of one finding
  MaxCrashes     \* bound: interrupted runs of schema.sql

VARIABLES
  tables,       \* the tables that exist
  views,        \* for each group of views: missing, of version 2, of version 3
  userVersion,  \* PRAGMA user_version
  statement,    \* the next statement of a running schema.sql, 0 when none runs
  values,       \* reference_value: the code of each id
  texts,        \* reference_value_text: the values that have labels
  assessments,  \* rows of assessment
  editing,      \* what each Manager has read
  lastSaved,    \* history: the publication state saved last for each finding
  completed,    \* history: a script that sets the schema up has finished
  crashes

vars == <<tables, views, userVersion, statement, values, texts, assessments,
          editing, lastSaved, completed, crashes>>

-----------------------------------------------------------------------------
(* Schema. *)

AllTables == {"reference", "provider", "observation", "assessment"}
ViewGroups == {"assessment", "external"}

\* The statements of schema.sql in their order, in groups.
Script == <<"version", "reference", "provider", "observation", "assessment",
            "views">>
Length == 6

\* The publication states, the reference values that a view depends on, with
\* the ids of reference-data.sql and those of the database as it is shipped.
Codes == {"local", "shared"}
ScriptId == [local |-> 601, shared |-> 602]
ShippedId == [local |-> 37, shared |-> 38]

NoRows == [i \in {} |-> "local"]

\* Plausible bug: only a row with the same id is replaced.
InsertOrReplaceId(rows, id, code) ==
  [i \in DOMAIN rows \cup {id} |-> IF i = id THEN code ELSE rows[i]]

\* The id and, because of UNIQUE(category_id, code), the code of a row identify
\* it: INSERT OR REPLACE deletes the rows that have either.
InsertOrReplace(rows, id, code) ==
  [i \in {j \in DOMAIN rows : rows[j] # code} \cup {id} |->
     IF i = id THEN code ELSE rows[i]]

ReferenceRows(rows, ids) ==
  InsertOrReplace(InsertOrReplace(rows, ids.local, "local"), ids.shared, "shared")

ASSUME EnforcementAssumption == Enforcement \subseteq BOOLEAN
ASSUME OriginsAssumption == Origins \subseteq {"empty", "version2", "shipped"}
ASSUME BoundsAssumption == MaxRevisions \in Nat /\ MaxCrashes \in Nat

-----------------------------------------------------------------------------
(* schema.sql, statement by statement. *)

Begin ==
  /\ statement = 0
  /\ statement' = 1
  /\ UNCHANGED <<tables, views, userVersion, values, texts, assessments, editing,
                 lastSaved, completed, crashes>>

\* Plausible bug: nothing is executed once the version is the current one.
ExecuteOutdated ==
  /\ statement \in 1..Length
  /\ statement' = IF statement = Length \/ userVersion = 3 THEN 0 ELSE statement + 1
  /\ userVersion' = IF Script[statement] = "version" THEN 3 ELSE userVersion
  /\ tables' = tables \cup ({Script[statement]} \cap AllTables)
  /\ views' = IF Script[statement] = "views"
              THEN [v \in ViewGroups |-> IF views[v] = 0 THEN 3 ELSE views[v]]
              ELSE views
  /\ completed' = (completed \/ statement' = 0)
  /\ UNCHANGED <<values, texts, assessments, editing, lastSaved, crashes>>

\* CREATE TABLE IF NOT EXISTS and CREATE VIEW IF NOT EXISTS leave alone what
\* there is, whatever its definition.
Execute ==
  /\ statement \in 1..Length
  /\ statement' = IF statement = Length THEN 0 ELSE statement + 1
  /\ userVersion' = IF Script[statement] = "version" THEN 3 ELSE userVersion
  /\ tables' = tables \cup ({Script[statement]} \cap AllTables)
  /\ views' = IF Script[statement] = "views"
              THEN [v \in ViewGroups |-> IF views[v] = 0 THEN 3 ELSE views[v]]
              ELSE views
  /\ completed' = (completed \/ statement = Length)
  /\ UNCHANGED <<values, texts, assessments, editing, lastSaved, crashes>>

\* The run ends early; what was executed stays.
Crash ==
  /\ statement # 0
  /\ crashes < MaxCrashes
  /\ crashes' = crashes + 1
  /\ statement' = 0
  /\ UNCHANGED <<tables, views, userVersion, values, texts, assessments, editing,
                 lastSaved, completed>>

-----------------------------------------------------------------------------
(* 002-to-003.sql and reference-data.sql: one transaction each. *)

Migrate ==
  /\ statement = 0
  /\ userVersion = 2
  /\ tables' = tables \cup {"observation"}
  /\ views' = [views EXCEPT !["external"] = 3]
  /\ userVersion' = 3
  /\ completed' = TRUE
  /\ UNCHANGED <<statement, values, texts, assessments, editing, lastSaved,
                 crashes>>

\* The values that rows of assessment and of reference_value_text refer to.
Referenced == {a.state : a \in assessments} \cup texts

\* reference-data.sql leaves PRAGMA foreign_keys to the connection it is run on
\* (schema.sql and the migration turn it on for theirs).  The transaction
\* commits, unless foreign keys are enforced and a value that goes away is
\* referenced: then it fails and leaves everything as it was.  The labels of
\* values that went away stay behind.
LoadReferenceData(enforced) ==
  /\ "reference" \in tables
  /\ values' = ReferenceRows(values, ScriptId)
  /\ enforced => Referenced \subseteq DOMAIN values'
  /\ texts' = texts \cup DOMAIN values'
  /\ UNCHANGED <<tables, views, userVersion, statement, assessments, editing,
                 lastSaved, completed, crashes>>

-----------------------------------------------------------------------------
(* What the Manager does with the tables. *)

Idle == [finding |-> "none", revision |-> 0]

Revisions(f) == {a.revision : a \in {b \in assessments : b.finding = f}}

\* The latest revision of a finding is read, 0 when there is none.
Latest(f) == CHOOSE n \in Revisions(f) \cup {0} :
               \A k \in Revisions(f) : k <= n

Edit(m, f) ==
  /\ completed
  /\ editing[m] = Idle
  /\ Latest(f) < MaxRevisions
  /\ editing' = [editing EXCEPT ![m] = [finding |-> f, revision |-> Latest(f)]]
  /\ UNCHANGED <<tables, views, userVersion, statement, values, texts,
                 assessments, lastSaved, completed, crashes>>

\* Plausible bug: the table has no such constraint.
UniqueNever(f, revision) == TRUE

\* UNIQUE(finding_id, revision)
Unique(f, revision) == revision \notin Revisions(f)

\* The row refers to a reference value by its id.
Save(m) ==
  /\ editing[m] # Idle
  /\ Unique(editing[m].finding, editing[m].revision + 1)
  /\ \E id \in DOMAIN values :
       /\ assessments' = assessments \cup
            {[finding |-> editing[m].finding,
              revision |-> editing[m].revision + 1, state |-> id]}
       /\ lastSaved' = [lastSaved EXCEPT ![editing[m].finding] = values[id]]
  /\ editing' = [editing EXCEPT ![m] = Idle]
  /\ UNCHANGED <<tables, views, userVersion, statement, values, texts, completed,
                 crashes>>

\* Another Manager has saved that revision, or the Manager gives up.
Abandon(m) ==
  /\ editing[m] # Idle
  /\ editing' = [editing EXCEPT ![m] = Idle]
  /\ UNCHANGED <<tables, views, userVersion, statement, values, texts,
                 assessments, lastSaved, completed, crashes>>

-----------------------------------------------------------------------------
(* Views. *)

\* Plausible bug: the view is built on the table.
CurrentAssessmentAll == assessments

\* current_assessment: the row with the highest revision of each finding.
CurrentAssessment ==
  {a \in assessments : a.revision = Latest(a.finding)}

\* shared_current_assessment: an inner join with the value "shared".
SharedCurrentAssessment ==
  {a \in CurrentAssessment : a.state \in DOMAIN values /\ values[a.state] = "shared"}

-----------------------------------------------------------------------------
Init ==
  /\ \E origin \in Origins :
       /\ tables = CASE origin = "empty" -> {}
                     [] origin = "version2" -> AllTables \ {"observation"}
                     [] OTHER -> AllTables
       /\ views = CASE origin = "empty" -> [v \in ViewGroups |-> 0]
                    [] origin = "version2" -> [v \in ViewGroups |-> 2]
                    [] OTHER -> [v \in ViewGroups |-> 3]
       /\ userVersion = CASE origin = "empty" -> 0
                          [] origin = "version2" -> 2
                          [] OTHER -> 3
       /\ values = IF origin = "empty" THEN NoRows
                   ELSE ReferenceRows(NoRows, ShippedId)
       /\ texts = DOMAIN values
       /\ completed = (origin = "shipped")
  /\ statement = 0
  /\ assessments = {}
  /\ editing = [m \in Managers |-> Idle]
  /\ lastSaved = [f \in Findings |-> "none"]
  /\ crashes = 0

Next ==
  \/ Begin \/ Execute \/ Crash \/ Migrate
  \/ \E enforced \in Enforcement : LoadReferenceData(enforced)
  \/ \E m \in Managers : \/ \E f \in Findings : Edit(m, f)
                         \/ Save(m) \/ Abandon(m)

Spec == Init /\ [][Next]_vars

-----------------------------------------------------------------------------
(* Properties. *)

\* Types.
TypeOK ==
  /\ tables \subseteq AllTables
  /\ views \in [ViewGroups -> {0, 2, 3}]
  /\ userVersion \in {0, 2, 3}
  /\ statement \in 0..Length
  /\ DOMAIN values \subseteq {601, 602, 37, 38}
  /\ \A i, j \in DOMAIN values : values[i] \in Codes /\ (values[i] = values[j] => i = j)
  /\ texts \subseteq {601, 602, 37, 38}
  /\ assessments \subseteq [finding : Findings, revision : 1..MaxRevisions,
                            state : {601, 602, 37, 38}]
  /\ editing \in [Managers -> [finding : Findings \cup {"none"},
                               revision : 0..MaxRevisions]]
  /\ lastSaved \in [Findings -> Codes \cup {"none"}]
  /\ completed \in BOOLEAN
  /\ crashes \in 0..MaxCrashes

\* The revisions of a finding are numbered from 1 without a gap, each once,
\* however many Managers save from a revision they read earlier: nobody's
\* decision takes the place of another one (UNIQUE(finding_id, revision)).
RevisionsInOrder ==
  \A f \in Findings :
    LET rows == {a \in assessments : a.finding = f}
    IN  {a.revision : a \in rows} = 1..Cardinality(rows)

\* A finding is listed as shared exactly when the decision saved last for it
\* says so: a local revision withdraws an earlier shared one.  This is stated
\* of databases whose foreign keys are enforced: there reference data is not
\* loaded again under other ids, as the load is refused.
SharedIsLastDecision ==
  \A f \in Findings :
    (\E a \in SharedCurrentAssessment : a.finding = f) <=> lastSaved[f] = "shared"

\* However often schema.sql was interrupted, the run that gets to its end
\* leaves every table and every view in place.
SchemaComplete ==
  completed => tables = AllTables /\ \A v \in ViewGroups : views[v] # 0

\* The ids of the reference values are stable: a row that is replaced keeps
\* its id (admin/security/README.md).
IdsStable ==
  [][\A i \in DOMAIN values : i \in DOMAIN values' /\ values'[i] = values[i]]_vars
=============================================================================
