----------------------------- MODULE ComLifetime -----------------------------
(***************************************************************************)
(* admin/smokes/wil/consumer/main.cpp: the smoke of wil::com_ptr_nothrow.  *)
(* It leads one COM object, a mock that counts its calls, through the      *)
(* pointers of the library and compares the counts after each operation.   *)
(*                                                                         *)
(* The library may behave wrongly in up to MaxDefects ways, which are chosen *)
(* before main runs.  All the pointers of the program point to the one     *)
(* object or to nothing, so it is enough to know which of them are held.   *)
(***************************************************************************)
EXTENDS Integers, FiniteSets

CONSTANT MaxDefects \* bound of the model

VARIABLES
  step,   \* the next statement of main
  held,   \* the pointers that are not null
  object, \* the mock: its reference count and the counts of ComCounters
  bPass,
  defects,  \* in which ways the library behaves wrongly
  dead    \* calls of the object after its destruction (history)

comVars == <<step, held, object, bPass, defects, dead>>

Defects ==
  {"attach adds", "copy shares", "move adds", "move keeps", "query refuses", "no fast path",
   "fast path shares", "no query", "detach releases", "detach keeps", "reset skips",
   "reset keeps", "destructor skips"}

\* The pointers of the inner block, in the order of their declarations.
Inner == [theCopy |-> 1, theMoved |-> 2, theQueried |-> 3, theQueriedViaIID |-> 4]
Pointers == DOMAIN Inner \cup {"theObject", "pRaw"}
Steps ==
  {"idle", "attach", "copy", "move", "query", "query by IID", "detach", "attach owned",
   "inner end", "reset", "outer end", "ended"}

-----------------------------------------------------------------------------
(* MockUnknown. *)

NoObject == [refs |-> 0, active |-> 0, destroyed |-> 0, addRef |-> 0, release |-> 0, query |-> 0]
NewMockUnknown == [NoObject EXCEPT !.refs = 1, !.active = 1]

AddRef(o) == [o EXCEPT !.addRef = @ + 1, !.refs = @ + 1]

\* Zero references: delete this.
Release(o) ==
  LET gone == IF o.refs = 1 THEN 1 ELSE 0
  IN [o EXCEPT !.release = @ + 1, !.refs = @ - 1,
               !.active = @ - gone, !.destroyed = @ + gone]

QueryInterface(o) == AddRef([o EXCEPT !.query = @ + 1])

-----------------------------------------------------------------------------
(* The library. *)

Defect(s) == s \in defects
Unless(s, call(_), o) == IF Defect(s) THEN o ELSE call(o)
Also(s, call(_), o) == IF Defect(s) THEN call(o) ELSE o

QueryTo(o) ==
  IF Defect("query refuses") \/ Defect("fast path shares") THEN o
  ELSE IF Defect("no fast path") THEN QueryInterface(o) ELSE AddRef(o)
QueryToIID(o) ==
  IF Defect("query refuses") THEN o
  ELSE IF Defect("no query") THEN AddRef(o) ELSE QueryInterface(o)
Queried == IF Defect("query refuses") THEN {} ELSE {"theQueried"}
QueriedViaIID == IF Defect("query refuses") THEN {} ELSE {"theQueriedViaIID"}

\* The next call reaches a destroyed object.
Becomes(o) ==
  /\ object' = o
  /\ dead' = (dead \/ (o # object /\ object.refs <= 0))

-----------------------------------------------------------------------------
(* main, a statement and the check that follows it at a time. *)

Goto(from, to) == step = from /\ step' = to

\* bPass = Check(bCondition, ...) && bPass.
Check(bCondition) == bPass' = (bCondition /\ bPass)

Begin(chosen) ==
  /\ Goto("idle", "attach")
  /\ defects' = chosen
  /\ UNCHANGED <<held, object, bPass, dead>>

Attach ==
  /\ Goto("attach", "copy")
  /\ object' = Also("attach adds", AddRef, NewMockUnknown)
  /\ held' = {"theObject"}
  /\ Check(object'.active = 1)
  /\ UNCHANGED <<defects, dead>>

Copy ==
  /\ Goto("copy", "move")
  /\ Becomes(Unless("copy shares", AddRef, object))
  /\ held' = held \cup {"theCopy"}
  /\ Check(object'.addRef = 1)
  /\ UNCHANGED defects

Move ==
  /\ Goto("move", "query")
  /\ Becomes(Also("move adds", AddRef, object))
  /\ held' = (IF Defect("move keeps") THEN held ELSE held \ {"theCopy"}) \cup {"theMoved"}
  /\ Check("theCopy" \notin held')
  /\ UNCHANGED defects

Query ==
  /\ Goto("query", "query by IID")
  /\ Becomes(QueryTo(object))
  /\ held' = held \cup Queried
  /\ Check("theQueried" \in held' /\ object'.query = 0 /\ object'.addRef = 2)
  /\ UNCHANGED defects

QueryByIID ==
  /\ Goto("query by IID", "detach")
  /\ Becomes(QueryToIID(object))
  /\ held' = held \cup QueriedViaIID
  /\ Check("theQueriedViaIID" \in held' /\ object'.query = 1 /\ object'.addRef = 3)
  /\ UNCHANGED defects

\* pRaw = theQueried.detach().
Detach ==
  /\ Goto("detach", "attach owned")
  /\ Becomes(IF "theQueried" \in held THEN Also("detach releases", Release, object) ELSE object)
  /\ held' = IF "theQueried" \notin held THEN held
             ELSE (IF Defect("detach keeps") THEN held ELSE held \ {"theQueried"}) \cup {"pRaw"}
  /\ Check("theQueried" \notin held' /\ "pRaw" \in held')
  /\ UNCHANGED defects

\* theQueried.attach(pRaw) releases what theQueried holds.
AttachOwned ==
  /\ Goto("attach owned", "inner end")
  /\ Becomes(IF "theQueried" \in held THEN Release(object) ELSE object)
  /\ held' = (held \ {"pRaw", "theQueried"}) \cup (IF "pRaw" \in held THEN {"theQueried"} ELSE {})
  /\ Check("theQueried" \in held')
  /\ UNCHANGED defects

\* The destructor of the last pointer of the inner block that is held.
EndPointer(p) ==
  /\ step = "inner end" /\ p \in held \cap DOMAIN Inner
  /\ \A q \in held \cap DOMAIN Inner : Inner[q] <= Inner[p]
  /\ Becomes(Unless("destructor skips", Release, object))
  /\ held' = held \ {p}
  /\ UNCHANGED <<step, bPass, defects>>

InnerEnd ==
  /\ Goto("inner end", "reset")
  /\ held \cap DOMAIN Inner = {}
  /\ Check(object.active = 1 /\ object.release = 3)
  /\ UNCHANGED <<held, object, defects, dead>>

Reset ==
  /\ Goto("reset", "outer end")
  /\ Becomes(Unless("reset skips", Release, object))
  /\ held' = IF Defect("reset keeps") THEN held ELSE held \ {"theObject"}
  /\ UNCHANGED <<bPass, defects>>

\* The destructor of theObject, the last check and the result.
OuterEnd ==
  /\ Goto("outer end", "ended")
  /\ Becomes(IF "theObject" \in held THEN Unless("destructor skips", Release, object) ELSE object)
  /\ held' = held \ {"theObject"}
  /\ Check(object'.active = 0 /\ object'.destroyed = 1 /\ object'.release = 4)
  /\ UNCHANGED defects

Init ==
  /\ step = "idle" /\ held = {} /\ object = NoObject
  /\ bPass = TRUE /\ defects = {} /\ dead = FALSE

Run ==
  \/ Attach \/ Copy \/ Move \/ Query \/ QueryByIID \/ Detach \/ AttachOwned
  \/ \E p \in DOMAIN Inner : EndPointer(p)
  \/ InnerEnd \/ Reset \/ OuterEnd

Next ==
  Run \/ \E chosen \in SUBSET Defects : Cardinality(chosen) <= MaxDefects /\ Begin(chosen)

Spec == Init /\ [][Next]_comVars

-----------------------------------------------------------------------------
(* Properties. *)

Ended == step = "ended"

\* Types.
TypeOK ==
  /\ step \in Steps
  /\ held \subseteq Pointers
  /\ object \in [DOMAIN NoObject -> Int]
  /\ bPass \in BOOLEAN /\ dead \in BOOLEAN
  /\ defects \subseteq Defects

\* The counts that main expects are those of a correct library.
NoFalseAlarm == Ended /\ defects = {} => bPass

\* A library that behaves wrongly in one way does not pass.
OneDefectNoticed == Ended /\ Cardinality(defects) = 1 => ~bPass

\* In whatever ways the library behaves wrongly: when the smoke passes, the
\* object has been destroyed once and never been called afterwards, and each
\* AddRef has had its Release.
LifetimeKept ==
  Ended /\ bPass =>
    /\ ~dead /\ object.destroyed = 1 /\ object.refs = 0
    /\ object.release = object.addRef + 1

=============================================================================
