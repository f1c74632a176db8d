-------------------------- MODULE SmokeStageProofs --------------------------
(***************************************************************************)
(* Proofs about the consumer smokes on the build machine:                  *)
(*   the naming smokes, for any number of runs, ports, attempts and kills, *)
(*     and whether or not runs overlap;                                    *)
(*   the terminate smoke of oneTBB, whatever its children do;              *)
(*   the WIL smoke, for any number of defects of the library;              *)
(*   the scripted smokes, whatever calls fail and however many of them:    *)
(*     their programs are known by the rules of SmokeRules only;           *)
(*   the smokes with threads, for any number of elements and rounds: their *)
(*     types, that a runtime that behaves is not accused, and that one slip*)
(*     is noticed.                                                         *)
(***************************************************************************)
EXTENDS SmokeInvariants, FiniteSetTheorems, FunctionTheorems, TLAPS

-----------------------------------------------------------------------------
(* Types. *)

LEMMA NamingTypeStep == N!TypeOK /\ TalkInv /\ N!Next => N!TypeOK'
<1> SUFFICES ASSUME N!TypeOK, TalkInv, NEW s \in Smokes,
                    N!Begin(s) \/ N!Run(s) \/ N!Kill(s) \/ N!Serve(s) \/ N!Hang(s) \/ N!Die(s)
             PROVE  N!TypeOK'
  BY DEF N!Next
<1> USE NamingAssumption
    DEF N!TypeOK, N!Goto, N!Leave, N!Trouble, N!Gone, N!smokeVars, N!serviceVars, N!Running
<1>1. CASE N!NotStarted(s)  BY <1>1 DEF N!NotStarted, N!Startable
<1>2. CASE N!StartChild(s)  BY <1>2 DEF N!StartChild
<1>3. CASE N!InitOrb(s)  BY <1>3 DEF N!InitOrb
<1>4. CASE N!Connect(s)  BY <1>4 DEF N!Connect, N!Connected, N!Answering
<1>5. CASE N!ConnectFailed(s)  BY <1>5 DEF N!ConnectFailed
<1>6. CASE N!CreateReference(s) \/ N!CallFails(s) \/ N!NotFound(s)
  BY <1>6 DEF N!CreateReference, N!CallFails, N!NotFound
<1>7. CASE N!Rebind(s)  BY <1>7 DEF N!Rebind
<1>8. CASE N!Resolve(s)
  <2>1. naming[s] \in Smokes  BY <1>8 DEF N!Resolve, TalkInv, Talking
  <2> QED BY <1>8, <2>1 DEF N!Resolve
<1>9. CASE N!Compare(s)
  <2>1. same' \in [Smokes -> BOOLEAN]
    <3>1. (resolved[s] = s) \in BOOLEAN  OBVIOUS
    <3>2. \A b \in BOOLEAN : [same EXCEPT ![s] = b] \in [Smokes -> BOOLEAN]  OBVIOUS
    <3> QED BY <1>9, <3>1, <3>2, Zenon DEF N!Compare
  <2> QED BY <1>9, <2>1 DEF N!Compare
<1>10. CASE N!Unbind(s)  BY <1>10 DEF N!Unbind
<1>11. CASE N!Terminate(s)  BY <1>11 DEF N!Terminate
<1>12. CASE N!Wait(s)  BY <1>12 DEF N!Wait
<1>13. CASE N!Serve(s) \/ N!Hang(s)  BY <1>13 DEF N!Serve, N!Hang
<1>14. CASE N!Die(s)  BY <1>14 DEF N!Die
<1>15. CASE N!Kill(s)  BY <1>15 DEF N!Kill
<1>16. CASE N!Throws(s)  BY <1>16 DEF N!Throws
<1> QED BY <1>1, <1>2, <1>3, <1>4, <1>5, <1>6, <1>7, <1>8, <1>9, <1>10, <1>11, <1>12, <1>13,
     <1>14, <1>15, <1>16 DEF N!Begin, N!Run

(* The steps of one run, of its service, or a kill. *)

\* What a step of s leaves alone: the other runs and their services.
LEMMA OthersKept ==
  ASSUME N!TypeOK, NEW s \in Smokes, Step(s), NEW t \in Smokes \ {s}
  PROVE  /\ pc'[t] = pc[t] /\ port'[t] = port[t] /\ naming'[t] = naming[t]
         /\ resolved'[t] = resolved[t] /\ same'[t] = same[t] /\ verdict'[t] = verdict[t]
         /\ service'[t] = service[t] /\ (t \in trouble' <=> t \in trouble)
BY DEF Step, N!TypeOK, N!Begin, N!Run, N!NotStarted, N!StartChild, N!InitOrb, N!Connect,
   N!Connected, N!ConnectFailed, N!CreateReference, N!CallFails, N!Throws, N!NotFound, N!Rebind,
   N!Resolve, N!Compare, N!Unbind, N!Terminate, N!Wait, N!Serve, N!Hang, N!Die, N!Kill, N!Goto, N!Leave, N!Trouble, N!Gone,
   N!smokeVars, N!serviceVars

\* A run gets its port when it starts; a service that has been started has been
\* there for good.
LEMMA HistoryKept ==
  ASSUME N!TypeOK, NEW s \in Smokes, Step(s)
  PROVE  /\ pc[s] # "idle" => port'[s] = port[s] /\ pc'[s] # "idle"
         /\ service[s] # "none" => service'[s] # "none"
         /\ pc[s] # "idle" /\ service[s] \in {"dying", "gone"} => service'[s] \in {"dying", "gone"}
         /\ pc[s] # "idle" /\ service[s] \in {"up", "hanging"} => service'[s] \in {"up", "hanging", "dying"}
         /\ s \in trouble => s \in trouble'
<1> USE DEF N!TypeOK, N!Goto, N!Leave, N!Trouble, N!Gone, N!smokeVars, N!serviceVars
<1>1. CASE N!NotStarted(s) \/ N!StartChild(s)
  BY <1>1 DEF N!NotStarted, N!StartChild, N!Startable
<1>2. CASE \/ N!InitOrb(s) \/ N!Connect(s) \/ N!ConnectFailed(s) \/ N!CreateReference(s)
           \/ N!CallFails(s) \/ N!Throws(s) \/ N!NotFound(s)
  BY <1>2 DEF N!InitOrb, N!Connect, N!Connected, N!ConnectFailed, N!CreateReference, N!CallFails,
     N!Throws, N!NotFound
<1>3. CASE N!Rebind(s) \/ N!Resolve(s) \/ N!Compare(s) \/ N!Unbind(s)
  BY <1>3 DEF N!Rebind, N!Resolve, N!Compare, N!Unbind
<1>4. CASE N!Terminate(s) \/ N!Wait(s)  BY <1>4 DEF N!Terminate, N!Wait
<1>5. CASE N!Serve(s) \/ N!Hang(s) \/ N!Die(s) \/ N!Kill(s)
  BY <1>5 DEF N!Serve, N!Hang, N!Die, N!Kill
<1> QED BY <1>1, <1>2, <1>3, <1>4, <1>5 DEF Step, N!Begin, N!Run

\* A port that has been shared remains so.
LEMMA SharedKept ==
  ASSUME N!TypeOK, OwnInv, NEW s \in Smokes, Step(s), NEW t \in Smokes, pc[t] # "idle", Shared(t)
  PROVE  Shared(t)'
<1>1. PICK u \in Smokes \ {t} : service[u] # "none" /\ port[u] = port[t]  BY DEF Shared
<1>2. pc[u] # "idle"  BY <1>1 DEF OwnInv
<1>3. port'[u] = port[u] /\ service'[u] # "none" /\ port'[t] = port[t]
  BY <1>1, <1>2, OthersKept, HistoryKept
<1> QED BY <1>1, <1>3 DEF Shared

(* The steps keep the invariant. *)

LEMMA OwnStep == ASSUME N!TypeOK, OwnInv, NEW s \in Smokes, Step(s) PROVE OwnInv'
<1> SUFFICES ASSUME NEW t \in Smokes
             PROVE  /\ pc'[t] = "idle" => service'[t] = "none" /\ verdict'[t] = "none"
                    /\ pc'[t] \notin {"idle", "ended", "killed"} => service'[t] # "none"
                    /\ pc'[t] \in {"orb", "connect"} => service'[t] # "dying"
                    /\ pc'[t] \in {"wait", "unwindWait", "ended"} =>
                         service'[t] \in {"none", "dying", "gone"}
  BY DEF OwnInv
<1>1. CASE t # s  BY <1>1, OthersKept DEF OwnInv
<1>2. CASE t = s
  <2> USE <1>2 DEF N!TypeOK, OwnInv, N!Goto, N!Leave, N!smokeVars, N!serviceVars
  <2>1. CASE N!NotStarted(s) \/ N!StartChild(s)
    BY <2>1 DEF N!NotStarted, N!StartChild, N!Startable
  <2>2. CASE \/ N!InitOrb(s) \/ N!Connect(s) \/ N!ConnectFailed(s) \/ N!CreateReference(s)
             \/ N!CallFails(s) \/ N!Throws(s) \/ N!NotFound(s)
    BY <2>2 DEF N!InitOrb, N!Connect, N!Connected, N!ConnectFailed, N!CreateReference,
       N!CallFails, N!Calling, N!Throws, N!NotFound
  <2>3. CASE N!Rebind(s) \/ N!Resolve(s) \/ N!Compare(s) \/ N!Unbind(s)
    BY <2>3 DEF N!Rebind, N!Resolve, N!Compare, N!Unbind
  <2>4. CASE N!Terminate(s) \/ N!Wait(s)  BY <2>4 DEF N!Terminate, N!Wait
  <2>5. CASE N!Serve(s) \/ N!Hang(s) \/ N!Die(s) \/ N!Kill(s)
    BY <2>5 DEF N!Serve, N!Hang, N!Die, N!Kill
  <2> QED BY <2>1, <2>2, <2>3, <2>4, <2>5 DEF Step, N!Begin, N!Run
<1> QED BY <1>1, <1>2

LEMMA TalkStep ==
  ASSUME N!TypeOK, OwnInv, TalkInv, NEW s \in Smokes, Step(s)
  PROVE  TalkInv'
<1> SUFFICES ASSUME NEW t \in Smokes, pc'[t] \in Talking
             PROVE  /\ naming'[t] \in Smokes /\ port'[naming'[t]] = port'[t]
                    /\ service'[naming'[t]] \in {"up", "hanging", "dying", "gone"}
                    /\ naming'[t] = t => service'[t] \in {"up", "hanging"}
  BY DEF TalkInv, Talking
<1>1. ASSUME NEW u \in Smokes, service[u] \in {"up", "hanging", "dying", "gone"}
      PROVE  port'[u] = port[u] /\ service'[u] \in {"up", "hanging", "dying", "gone"}
  <2>1. pc[u] # "idle"  BY <1>1 DEF OwnInv
  <2> QED BY <1>1, <2>1, OthersKept, HistoryKept
<1>2. CASE t # s
  <2>1. pc[t] \in Talking /\ naming'[t] = naming[t] /\ port'[t] = port[t] /\ service'[t] = service[t]
    BY <1>2, OthersKept
  <2> QED BY <2>1, <1>1 DEF TalkInv
<1>3. CASE t = s /\ pc[s] \in Talking /\ naming'[s] = naming[s] /\ service'[s] = service[s]
  <2>1. port'[s] = port[s]  BY <1>3, HistoryKept DEF Talking
  <2> QED BY <1>3, <2>1, <1>1 DEF TalkInv
<1>4. CASE t = s /\ N!Connect(s) /\ pc'[s] = "reference"
  <2>1. PICK u \in Smokes : /\ service[u] = "up" /\ port[u] = port[s]
                            /\ naming' = [naming EXCEPT ![s] = u]
    BY <1>4 DEF N!Connect, N!Connected, N!Answering, N!TypeOK
  <2>2. naming'[s] = u /\ port' = port /\ service' = service
    BY <1>4, <2>1 DEF N!Connect, N!Connected, N!TypeOK, N!serviceVars
  <2> QED BY <1>4, <2>1, <2>2
<1>5. CASE t = s /\ pc[s] \in Talking /\ (N!Serve(s) \/ N!Die(s))
  <2>1. naming[s] # s /\ naming'[s] = naming[s] /\ port'[s] = port[s]
    BY <1>5 DEF N!Serve, N!Die, TalkInv, N!smokeVars
  <2> QED BY <1>5, <2>1, <1>1 DEF TalkInv
<1>6. CASE t = s /\ N!Hang(s)
  <2>1. /\ pc[s] \in Talking /\ naming'[s] = naming[s] /\ port'[s] = port[s]
        /\ service'[s] = "hanging"
    BY <1>6 DEF N!Hang, N!TypeOK, N!smokeVars
  <2> QED BY <1>6, <2>1, <1>1 DEF TalkInv
<1> QED
  <2> USE DEF Talking, N!TypeOK, N!Goto, N!Leave, N!smokeVars, N!serviceVars
  <2>1. CASE t = s /\ (N!NotStarted(s) \/ N!StartChild(s))
    BY <2>1 DEF N!NotStarted, N!StartChild, N!Startable
  <2>2. CASE t = s /\ (\/ N!InitOrb(s) \/ N!ConnectFailed(s) \/ N!CallFails(s) \/ N!Throws(s)
                       \/ N!NotFound(s))
    BY <2>2 DEF N!InitOrb, N!ConnectFailed, N!CallFails, N!Throws, N!NotFound
  <2>3. CASE t = s /\ N!Connect(s)  BY <2>3, <1>4 DEF N!Connect, N!Connected
  <2>4. CASE t = s /\ (\/ N!CreateReference(s) \/ N!Rebind(s) \/ N!Resolve(s) \/ N!Compare(s)
                       \/ N!Unbind(s))
    BY <2>4, <1>3 DEF N!CreateReference, N!Rebind, N!Resolve, N!Compare, N!Unbind
  <2>5. CASE t = s /\ (N!Terminate(s) \/ N!Wait(s) \/ N!Kill(s))
    BY <2>5 DEF N!Terminate, N!Wait, N!Kill
  <2>6. CASE t = s /\ (N!Serve(s) \/ N!Die(s))  BY <2>6, <1>5 DEF N!Serve, N!Die
  <2> QED BY <1>2, <1>6, <2>1, <2>2, <2>3, <2>4, <2>5, <2>6 DEF Step, N!Begin, N!Run

\* A call that throws makes its run fail.
LEMMA ThrowsFails == ASSUME N!TypeOK, NEW s \in Smokes, N!Throws(s) PROVE Failed(s)'
BY DEF N!Throws, N!TypeOK, N!Leave, N!Goto, N!Trouble, Failed

\* A run that fails ends with FAIL, unless it is killed.
LEMMA FailedKept ==
  ASSUME N!TypeOK, NEW s \in Smokes, Step(s), NEW t \in Smokes, Failed(t)
  PROVE  Failed(t)' \/ pc'[t] = "killed"
<1>1. CASE t # s  BY <1>1, OthersKept DEF Failed
<1>2. CASE t = s
  BY <1>2 DEF Failed, Step, N!TypeOK, N!Begin, N!Run, N!NotStarted, N!StartChild, N!Startable,
     N!InitOrb, N!Connect, N!ConnectFailed, N!CreateReference, N!CallFails, N!Throws, N!NotFound,
     N!Calling, N!Rebind, N!Resolve, N!Compare, N!Unbind, N!Terminate, N!Wait, N!Serve, N!Hang,
     N!Die, N!Kill, N!Goto, N!Trouble
<1> QED BY <1>1, <1>2

LEMMA BindStep ==
  ASSUME N!TypeOK, OwnInv, TalkInv, BindInv, NEW s \in Smokes, Step(s)
  PROVE  BindInv'
<1> SUFFICES ASSUME NEW v \in Smokes, NEW t \in Smokes, bound'[t] = v
             PROVE  /\ service'[v] # "none" /\ service'[t] # "none" /\ port'[t] = port'[v]
                    /\ \/ pc'[v] \in {"resolve", "compare", "unbind"} /\ naming'[v] = t
                       \/ pc'[v] = "killed"
                       \/ service'[t] \in {"dying", "gone"}
                       \/ Failed(v)'
  BY DEF BindInv
<1>0. v # NoOne  BY NamingAssumption
<1>1. ASSUME NEW u \in Smokes, service[u] # "none"
      PROVE  /\ port'[u] = port[u] /\ service'[u] # "none"
             /\ service[u] \in {"dying", "gone"} => service'[u] \in {"dying", "gone"}
  <2>1. pc[u] # "idle"  BY <1>1 DEF OwnInv
  <2> QED BY <1>1, <2>1, OthersKept, HistoryKept
<1>2. CASE (N!Rebind(s) \/ N!Throws(s)) /\ pc[s] = "rebind" /\ v = s /\ t = naming[s]
  <2>1. service[s] # "none" /\ service[t] # "none" /\ port[t] = port[s]
    BY <1>2 DEF TalkInv, Talking, OwnInv
  <2>2. CASE N!Rebind(s)
    <3>1. pc'[s] = "resolve" /\ naming'[s] = naming[s]
      BY <2>2 DEF N!Rebind, N!TypeOK, N!Goto, N!smokeVars
    <3> QED BY <1>1, <1>2, <2>1, <3>1
  <2>3. CASE N!Throws(s)  BY <1>1, <1>2, <2>1, <2>3, ThrowsFails
  <2> QED BY <1>2, <2>2, <2>3
<1>3. CASE bound[t] = v
  <2>1. service[v] # "none" /\ service[t] # "none" /\ port[t] = port[v]  BY <1>3 DEF BindInv
  <2>2. service'[v] # "none" /\ service'[t] # "none" /\ port'[t] = port'[v]  BY <1>1, <2>1
  <2>3. CASE service[t] \in {"dying", "gone"}  BY <1>1, <2>1, <2>2, <2>3
  <2>4. CASE pc[v] = "killed"
    <3>1. pc'[v] = "killed"
      <4>1. CASE v # s  BY <2>4, <4>1, OthersKept
      <4>2. CASE v = s
        BY <2>4, <4>2 DEF Step, N!Begin, N!Run, N!NotStarted, N!StartChild, N!Startable, N!InitOrb,
           N!Connect, N!ConnectFailed, N!CreateReference, N!CallFails, N!Throws, N!NotFound,
           N!Calling, N!Rebind, N!Resolve, N!Compare, N!Unbind, N!Terminate, N!Wait, N!Serve,
           N!Hang, N!Die, N!Kill
      <4> QED BY <4>1, <4>2
    <3> QED BY <2>2, <3>1
  <2>5. CASE pc[v] \in {"resolve", "compare", "unbind"} /\ naming[v] = t /\ v # s
    BY <2>2, <2>5, OthersKept
  <2>6. CASE pc[s] \in {"resolve", "compare", "unbind"} /\ naming[s] = t /\ v = s
    <3> USE DEF N!TypeOK, N!Goto, N!Leave, N!smokeVars, N!serviceVars
    <3>1. CASE N!Resolve(s) \/ N!Compare(s) \/ N!Kill(s) \/ N!Serve(s) \/ N!Hang(s) \/ N!Die(s)
      BY <2>2, <2>6, <3>1 DEF N!Resolve, N!Compare, N!Kill, N!Serve, N!Hang, N!Die
    <3>2. CASE N!CallFails(s)
      <4>1. service[t] \in {"dying", "gone"}
        BY <2>6, <3>2 DEF N!CallFails
      <4> QED BY <1>1, <2>1, <2>2, <4>1
    <3>3. CASE N!NotFound(s) \/ N!Unbind(s)  BY <1>0, <1>3, <2>6, <3>3 DEF N!NotFound, N!Unbind
    <3>4. CASE N!Throws(s)  BY <2>2, <2>6, <3>4, ThrowsFails
    <3> QED
      BY <2>6, <3>1, <3>2, <3>3, <3>4 DEF Step, N!Begin, N!Run, N!NotStarted, N!StartChild,
         N!Startable, N!InitOrb, N!Connect, N!ConnectFailed, N!CreateReference, N!Rebind,
         N!Terminate, N!Wait
  <2>7. CASE Failed(v)  BY <2>2, <2>7, FailedKept
  <2> QED BY <1>3, <2>3, <2>4, <2>5, <2>6, <2>7 DEF BindInv
<1> QED
  <2>1. CASE N!Rebind(s)  BY <2>1, <1>2, <1>3 DEF N!Rebind, N!TypeOK
  <2>2. CASE N!Unbind(s)  BY <2>2, <1>0, <1>3 DEF N!Unbind, N!TypeOK
  <2>3. CASE N!Die(s)  BY <2>3, <1>0, <1>3 DEF N!Die, N!TypeOK
  <2>4. CASE bound' = bound  BY <2>4, <1>3
  <2>5. CASE N!Throws(s)  BY <2>5, <1>0, <1>2, <1>3 DEF N!Throws, N!TypeOK
  <2> QED
    BY <2>1, <2>2, <2>3, <2>4, <2>5 DEF Step, N!Begin, N!Run, N!NotStarted, N!StartChild,
       N!InitOrb, N!Connect, N!ConnectFailed, N!CreateReference, N!CallFails, N!NotFound,
       N!Resolve, N!Compare, N!Terminate, N!Wait, N!Serve, N!Hang, N!Kill, N!serviceVars

\* A run that talks to the service of another run shares its port with it.
LEMMA TalksToOther ==
  ASSUME TalkInv, NEW s \in Smokes, pc[s] \in Talking, naming[s] # s
  PROVE  Shared(s)
BY DEF TalkInv, Shared

\* A run that talks to its own service and is bound there stays so, unless
\* another run at its port interferes.
LEMMA OwnBinding ==
  ASSUME N!TypeOK, OwnInv, TalkInv, NEW s \in Smokes, Step(s), NEW t \in Smokes \ {s},
         pc[t] \in Talking, naming[t] = t, bound[t] = t, bound'[t] # t
  PROVE  Shared(t)
<1>1. naming[s] = t /\ pc[s] \in Talking
  BY DEF Step, N!TypeOK, N!Begin, N!Run, N!NotStarted, N!StartChild, N!InitOrb,
     N!Connect, N!ConnectFailed, N!CreateReference, N!CallFails, N!Throws, N!NotFound, N!Rebind,
     N!Resolve, N!Compare, N!Unbind, N!Terminate, N!Wait, N!Serve, N!Hang, N!Die, N!Kill,
     N!serviceVars, Talking
<1>2. service[s] # "none" /\ port[s] = port[t]  BY <1>1 DEF OwnInv, TalkInv, Talking
<1> QED BY <1>2 DEF Shared

LEMMA DisturbedStep ==
  ASSUME N!TypeOK, OwnInv, TalkInv, BindInv, CauseInv, NEW s \in Smokes, Step(s),
         NEW t \in Smokes, Disturbed(t)'
  PROVE  Shared(t)'
<1>1. SUFFICES pc[t] # "idle" /\ Shared(t)  BY SharedKept
<1>2. pc[t] # "idle"
  <2>1. CASE t # s  BY <2>1, OthersKept DEF Disturbed
  <2>2. CASE t = s /\ pc[s] = "idle"
    BY <2>2 DEF Disturbed, Step, N!TypeOK, OwnInv, N!Begin, N!Run, N!NotStarted, N!StartChild,
       N!Startable, N!InitOrb, N!Connect, N!ConnectFailed, N!CreateReference, N!CallFails,
       N!Throws, N!NotFound, N!Calling, N!Rebind, N!Resolve, N!Compare, N!Unbind, N!Terminate,
       N!Wait, N!Serve, N!Hang, N!Die, N!Kill, N!Goto
  <2> QED BY <2>1, <2>2
<1>3. CASE t # s
  <2>1. /\ pc'[t] = pc[t] /\ naming'[t] = naming[t] /\ resolved'[t] = resolved[t]
        /\ same'[t] = same[t] /\ service'[t] = service[t]
    BY <1>3, OthersKept
  <2>2. CASE Disturbed(t)  BY <1>2, <2>2 DEF CauseInv
  <2>3. CASE ~Disturbed(t)
    <3>1. pc[t] \in Talking /\ naming[t] = t /\ bound[t] = t /\ bound'[t] # t
      BY <2>1, <2>3 DEF Disturbed, Talking
    <3> QED BY <1>2, <1>3, <3>1, OwnBinding
  <2> QED BY <2>2, <2>3
<1>4. CASE t = s /\ Disturbed(s)  BY <1>2, <1>4 DEF CauseInv
<1>5. CASE t = s /\ ~Disturbed(s)
  <2> USE DEF Disturbed, N!TypeOK, N!Goto, N!Leave, N!smokeVars, N!serviceVars
  <2>1. CASE N!Resolve(s)
    <3>1. /\ pc[s] \in Talking /\ bound[naming[s]] \in Smokes /\ naming[s] \in Smokes
          /\ port[naming[s]] = port[s]
      BY <2>1 DEF N!Resolve, TalkInv, Talking
    <3>2. bound[naming[s]] # s  BY <1>5, <2>1, <3>1 DEF N!Resolve
    <3>3. service[bound[naming[s]]] # "none" /\ port[bound[naming[s]]] = port[s]
      BY <3>1 DEF BindInv
    <3> QED BY <1>2, <1>5, <3>1, <3>2, <3>3 DEF Shared
  <2>2. CASE N!Compare(s)
    <3>1. same'[s] <=> resolved[s] = s  BY <2>2, Zenon DEF N!Compare
    <3> QED BY <1>2, <1>5, <2>2, <3>1 DEF N!Compare
  <2>3. CASE N!Serve(s)
    <3>1. service[s] = "starting" /\ bound' = bound /\ pc' = pc  BY <2>3 DEF N!Serve
    <3>2. \E u \in Smokes \ {s} : service[u] \in {"up", "hanging", "dying"} /\ port[u] = port[s]
      BY <1>5, <2>3, <3>1 DEF N!Serve
    <3> QED BY <1>2, <1>5, <3>2 DEF Shared
  <2>4. CASE N!Die(s)  BY <1>5, <2>4 DEF N!Die, OwnInv, TalkInv, Talking
  <2>5. CASE N!Rebind(s) \/ N!Unbind(s)  BY <1>5, <2>5 DEF N!Rebind, N!Unbind
  <2>6. CASE \/ N!NotStarted(s) \/ N!StartChild(s) \/ N!InitOrb(s) \/ N!Connect(s)
             \/ N!ConnectFailed(s) \/ N!CreateReference(s) \/ N!CallFails(s) \/ N!Throws(s)
             \/ N!NotFound(s)
    BY <1>5, <2>6 DEF N!NotStarted, N!StartChild, N!InitOrb, N!Connect, N!Connected,
       N!ConnectFailed, N!CreateReference, N!CallFails, N!Throws, N!NotFound
  <2>7. CASE N!Terminate(s) \/ N!Wait(s) \/ N!Hang(s) \/ N!Kill(s)
    BY <1>5, <2>7 DEF N!Terminate, N!Wait, N!Hang, N!Kill
  <2> QED BY <2>1, <2>2, <2>3, <2>4, <2>5, <2>6, <2>7 DEF Step, N!Begin, N!Run
<1> QED BY <1>3, <1>4, <1>5

LEMMA FailsStep ==
  ASSUME N!TypeOK, OwnInv, TalkInv, BindInv, CauseInv, NEW s \in Smokes, Step(s),
         NEW t \in Smokes, Fails(t)'
  PROVE  t \in trouble' \/ Shared(t)'
<1>1. CASE Fails(t)
  <2>1. pc[t] # "idle"  BY <1>1 DEF Fails, OwnInv
  <2> QED BY <1>1, <2>1, SharedKept, OthersKept, HistoryKept DEF CauseInv
<1>2. CASE ~Fails(t)
  <2>1. t = s  BY <1>2, OthersKept DEF Fails
  <2>2. CASE pc[s] # "idle" /\ Shared(s)  BY <2>1, <2>2, SharedKept
  <2>3. CASE s \in trouble'  BY <2>1, <2>3
  <2> USE DEF Fails, N!TypeOK, N!Goto, N!Leave, N!smokeVars, N!serviceVars
  <2>4. CASE N!NotStarted(s) \/ N!StartChild(s)
    BY <1>2, <2>1, <2>3, <2>4 DEF N!NotStarted, N!StartChild, N!Trouble
  <2>5. CASE N!InitOrb(s)  BY <1>2, <2>1, <2>3, <2>5 DEF N!InitOrb, N!Trouble
  <2>6. CASE N!ConnectFailed(s)
    BY <2>2, <2>3, <2>6 DEF N!ConnectFailed, N!Trouble, CauseInv, Disturbed
  <2>7. CASE N!CallFails(s)
    BY <2>2, <2>7, TalksToOther DEF N!CallFails, N!Calling, TalkInv, Talking
  <2>8. CASE N!NotFound(s)
    <3>1. bound[naming[s]] # s  BY <2>8, NamingAssumption DEF N!NotFound
    <3> QED BY <2>2, <2>8, <3>1, TalksToOther DEF N!NotFound, Talking, CauseInv, Disturbed
  <2>9. CASE N!Wait(s)
    <3>1. pc[s] = "wait" /\ service[s] = "gone" => ~same[s]  BY <1>2, <2>1, <2>9 DEF N!Wait
    <3> QED BY <1>2, <2>1, <2>2, <2>3, <2>9, <3>1 DEF N!Wait, N!Trouble, CauseInv, Disturbed
  <2>10. CASE \/ N!Connect(s) \/ N!CreateReference(s) \/ N!Rebind(s) \/ N!Resolve(s)
              \/ N!Compare(s) \/ N!Unbind(s) \/ N!Terminate(s) \/ N!Serve(s) \/ N!Hang(s)
              \/ N!Die(s) \/ N!Kill(s)
    BY <1>2, <2>1, <2>10 DEF N!Connect, N!Connected, N!CreateReference, N!Rebind, N!Resolve,
       N!Compare, N!Unbind, N!Terminate, N!Serve, N!Hang, N!Die, N!Kill
  <2>11. CASE N!Throws(s)  BY <2>3, <2>11, ThrowsFails DEF Failed
  <2> QED BY <2>4, <2>5, <2>6, <2>7, <2>8, <2>9, <2>10, <2>11 DEF Step, N!Begin, N!Run
<1> QED BY <1>1, <1>2

(* The theorems. *)

LEMMA NamingInit == Init => NamingInv
<1> SUFFICES ASSUME Init PROVE NamingInv
  OBVIOUS
<1>1. N!Init  BY DEF Init
<1>2. N!TypeOK  BY <1>1, NamingAssumption DEF N!Init, N!TypeOK
<1>3. OwnInv /\ TalkInv  BY <1>1 DEF N!Init, OwnInv, TalkInv, Talking
<1>4. BindInv /\ CauseInv
  BY <1>1, NamingAssumption DEF N!Init, BindInv, CauseInv, Disturbed, Fails
<1> QED BY <1>2, <1>3, <1>4 DEF NamingInv

LEMMA NamingNext == NamingInv /\ [Next]_vars => NamingInv'
<1> SUFFICES ASSUME NamingInv, [Next]_vars PROVE NamingInv'
  OBVIOUS
<1>1. CASE UNCHANGED namingVars
  BY <1>1 DEF namingVars, NamingInv, N!TypeOK, OwnInv, TalkInv, BindInv, CauseInv, Disturbed,
     Fails, Failed, Shared
<1>2. CASE N!Next
  <2>1. PICK s \in Smokes : Step(s)  BY <1>2 DEF N!Next, Step
  <2>2. N!TypeOK' /\ OwnInv' /\ TalkInv' /\ BindInv'
    BY <1>2, <2>1, NamingTypeStep, OwnStep, TalkStep, BindStep DEF NamingInv
  <2>3. CauseInv'  BY <2>1, DisturbedStep, FailsStep DEF NamingInv, CauseInv
  <2> QED BY <2>2, <2>3 DEF NamingInv
<1> QED BY <1>1, <1>2 DEF Next, Scripted, Threaded, Com, Terminating, Naming, Finished, vars

\* The invariant of the naming smokes, the types included.
THEOREM NamingInvariant == Spec => []NamingInv
  BY NamingInit, NamingNext, PTL DEF Spec

\* Every run of the ACE/TAO smoke that ends by itself has ended the service it
\* has started, and a service that runs on keeps its binding only if a call of
\* the run has failed, which then says FAIL: for any number of runs, ports,
\* attempts and kills, overlapping or not, and whichever services hang.
THEOREM NothingLeftByNaming == Spec => [](N!NothingLeftRunning /\ N!NoBindingLeft)
<1>1. NamingInv => N!NothingLeftRunning /\ N!NoBindingLeft
  BY DEF NamingInv, OwnInv, BindInv, Failed, N!NothingLeftRunning, N!NoBindingLeft
<1> QED BY <1>1, NamingInvariant, PTL

\* A run of the ACE/TAO smoke fails only for a failure of the machine or
\* because another run has used its port, whatever the other runs do.
THEOREM NamingFailsForCause == Spec => []N!FailsForCause
<1>1. NamingInv => N!FailsForCause  BY DEF NamingInv, CauseInv, Fails, Shared, N!FailsForCause
<1> QED BY <1>1, NamingInvariant, PTL

-----------------------------------------------------------------------------
(* The terminate smoke of oneTBB. *)

LEMMA TerminateInit == Init => TerminateInv
  BY DEF Init, T!Init, TerminateInv, T!TypeOK, TurnInv, AnswerInv, T!Cases, T!Codes, Waiting

\* A step of the caller.
LEMMA CallerStep == TerminateInv /\ (T!Begin \/ T!Smoke) => TerminateInv'
<1> USE DEF TerminateInv, T!TypeOK, TurnInv, AnswerInv, T!Cases, T!Codes, Waiting, T!Goto,
           T!Over, T!Return
<1>1. ASSUME TerminateInv, T!Begin PROVE TerminateInv'  BY <1>1 DEF T!Begin
<1>2. ASSUME TerminateInv, T!NotStarted PROVE TerminateInv'
  <2>1. T!TypeOK'  BY <1>2 DEF T!NotStarted
  <2>2. TurnInv'  BY <1>2 DEF T!NotStarted
  <2>3. AnswerInv'  BY <1>2 DEF T!NotStarted
  <2> QED BY <2>1, <2>2, <2>3
<1>3. ASSUME TerminateInv, T!Start PROVE TerminateInv'  BY <1>3 DEF T!Start
<1>4. ASSUME TerminateInv, T!Signaled PROVE TerminateInv'
  <2>1. T!TypeOK'  BY <1>4 DEF T!Signaled
  <2>2. TurnInv'  BY <1>4 DEF T!Signaled
  <2>3. AnswerInv'  BY <1>4 DEF T!Signaled
  <2> QED BY <2>1, <2>2, <2>3
<1>5. ASSUME TerminateInv, T!TimedOut PROVE TerminateInv'
  <2>1. T!TypeOK'  BY <1>5 DEF T!TimedOut
  <2>2. TurnInv'  BY <1>5 DEF T!TimedOut
  <2>3. AnswerInv'  BY <1>5 DEF T!TimedOut
  <2> QED BY <2>1, <2>2, <2>3
<1>6. ASSUME TerminateInv, T!Terminate PROVE TerminateInv'
  <2>1. T!TypeOK'  BY <1>6 DEF T!Terminate
  <2>2. TurnInv'  BY <1>6 DEF T!Terminate
  <2>3. AnswerInv'  BY <1>6 DEF T!Terminate
  <2> QED BY <2>1, <2>2, <2>3
<1>7. ASSUME TerminateInv, T!WaitOn PROVE TerminateInv'
  <2>1. T!TypeOK'  BY <1>7 DEF T!WaitOn
  <2>2. TurnInv'  BY <1>7 DEF T!WaitOn
  <2>3. AnswerInv'  BY <1>7 DEF T!WaitOn
  <2> QED BY <2>1, <2>2, <2>3
<1>8. ASSUME TerminateInv, T!ExitCode PROVE TerminateInv'
  <2>1. T!TypeOK'  BY <1>8 DEF T!ExitCode
  <2>2. TurnInv'  BY <1>8 DEF T!ExitCode
  <2>3. AnswerInv'
    <3>1. /\ case \in T!Cases /\ child' = child /\ code' = code /\ iWait' = iWait /\ mishap' = mishap
          /\ handle' = handle \ {case} /\ child[case] = "over"
          /\ told' = [told EXCEPT ![case] = IF iWait[case] = "object" /\ code[case] = T!Expected(case)
                                            THEN "PASS" ELSE "FAIL"]
      BY <1>8 DEF T!ExitCode
    <3>2. iWait[case] \in {"object", "timeout"}  BY <1>8 DEF T!ExitCode
    <3> QED BY <1>8, <3>1, <3>2
  <2> QED BY <2>1, <2>2, <2>3
<1> QED BY <1>1, <1>2, <1>3, <1>4, <1>5, <1>6, <1>7, <1>8 DEF T!Smoke

\* A step of a child, or of the system that ends one.
LEMMA ChildStep ==
  ASSUME TerminateInv, NEW c \in T!Cases,
         T!Die(c) \/ T!OnTerminate(c) \/ T!Otherwise(c) \/ T!Hang(c)
  PROVE  TerminateInv'
<1> USE DEF TerminateInv, T!TypeOK, TurnInv, AnswerInv, T!Cases, T!Codes, Waiting, T!Leave
<1>1. CASE T!Die(c)  BY <1>1 DEF T!Die
<1>2. ASSUME NEW iExit \in {T!Expected(c), 1, 3}, child[c] = "running", T!Leave(c, iExit),
             UNCHANGED <<caller, case, iWait, told, handle>>,
             mishap' \in BOOLEAN, mishap => mishap', mishap' \/ iExit = T!Expected(c)
      PROVE  TerminateInv'
  <2>1. iExit \in T!Codes  BY <1>2 DEF T!Expected, T!iInternalExit, T!iUserExit
  <2>2. /\ child' \in [T!Cases -> {"none", "running", "hanging", "dying", "over"}]
        /\ code' \in [T!Cases -> T!Codes]
    BY <1>2, <2>1
  <2>3. T!TypeOK'  BY <1>2, <2>2
  <2>4. TurnInv'  BY <1>2
  <2>5. AnswerInv'  BY <1>2 DEF T!Expected
  <2> QED BY <2>3, <2>4, <2>5
<1>3. CASE T!OnTerminate(c) \/ T!Otherwise(c)  BY <1>2, <1>3 DEF T!OnTerminate, T!Otherwise
<1>4. CASE T!Hang(c)
  <2>1. T!TypeOK'  BY <1>4 DEF T!Hang
  <2>2. TurnInv'  BY <1>4 DEF T!Hang
  <2>3. AnswerInv'  BY <1>4 DEF T!Hang
  <2> QED BY <2>1, <2>2, <2>3
<1> QED BY <1>1, <1>3, <1>4

LEMMA TerminateNext == TerminateInv /\ [Next]_vars => TerminateInv'
<1> SUFFICES ASSUME TerminateInv, [Next]_vars PROVE TerminateInv'
  OBVIOUS
<1>1. CASE T!Next  BY <1>1, CallerStep, ChildStep DEF T!Next, T!Machine
<1>2. CASE UNCHANGED terminateVars
  BY <1>2 DEF terminateVars, TerminateInv, T!TypeOK, TurnInv, AnswerInv
<1> QED BY <1>1, <1>2 DEF Next, Scripted, Threaded, Com, Terminating, Naming, Finished, vars

\* The terminate smoke (terminate_smoke.cpp, Child and main): it never accuses
\* a library whose children end by their handlers in time; an answer that comes
\* after the timeout does not count; and when Child has returned, its process
\* is over and its handles are closed, in whatever order the child, the timeout
\* and TerminateProcess come.
THEOREM TerminateSmokeIsRight ==
  Spec => [](T!TypeOK /\ T!NoFalseAlarm /\ T!LateAnswersFail /\ T!ChildrenOver)
<1>1. TerminateInv => T!TypeOK /\ T!NoFalseAlarm /\ T!LateAnswersFail /\ T!ChildrenOver
  <2> SUFFICES ASSUME TerminateInv
               PROVE  T!NoFalseAlarm /\ T!LateAnswersFail /\ T!ChildrenOver
    BY DEF TerminateInv
  <2>1. T!LateAnswersFail /\ T!ChildrenOver
    BY DEF TerminateInv, AnswerInv, T!LateAnswersFail, T!ChildrenOver
  <2>2. T!NoFalseAlarm
    BY DEF TerminateInv, T!TypeOK, TurnInv, AnswerInv, T!NoFalseAlarm, T!Ended, T!Passed,
       T!Cases
  <2> QED BY <2>1, <2>2
<1> QED BY <1>1, TerminateInit, TerminateNext, PTL DEF Spec

-----------------------------------------------------------------------------
(* The smoke of WIL. *)

LEMMA ComNames ==
  /\ DOMAIN C!Inner = InnerPointers /\ DOMAIN C!NoObject = Counts
  /\ C!Inner["theCopy"] = 1 /\ C!Inner["theMoved"] = 2
  /\ C!Inner["theQueried"] = 3 /\ C!Inner["theQueriedViaIID"] = 4
BY DEF C!Inner, C!NoObject, InnerPointers, Counts

\* What the operations of the mock do to its counts.
LEMMA AddRefCounts ==
  ASSUME NEW o \in [Counts -> Int]
  PROVE  /\ C!AddRef(o) \in [Counts -> Int]
         /\ C!AddRef(o).addRef = o.addRef + 1 /\ C!AddRef(o).refs = o.refs + 1
         /\ C!AddRef(o).release = o.release /\ C!AddRef(o).active = o.active
         /\ C!AddRef(o).destroyed = o.destroyed /\ C!AddRef(o).query = o.query
<1> DEFINE added == [o EXCEPT !.addRef = @ + 1]
<1>1. /\ added \in [Counts -> Int] /\ added.addRef = o.addRef + 1
      /\ added.refs = o.refs /\ added.release = o.release /\ added.active = o.active
      /\ added.destroyed = o.destroyed /\ added.query = o.query
  BY DEF Counts
<1>2. C!AddRef(o) = [added EXCEPT !.refs = @ + 1]  BY DEF C!AddRef
<1> HIDE DEF added
<1> QED BY <1>1, <1>2 DEF Counts

LEMMA ReleaseCounts ==
  ASSUME NEW o \in [Counts -> Int]
  PROVE  /\ C!Release(o) \in [Counts -> Int]
         /\ C!Release(o).release = o.release + 1 /\ C!Release(o).refs = o.refs - 1
         /\ C!Release(o).addRef = o.addRef /\ C!Release(o).query = o.query
         /\ C!Release(o).active = o.active - (IF o.refs = 1 THEN 1 ELSE 0)
         /\ C!Release(o).destroyed = o.destroyed + (IF o.refs = 1 THEN 1 ELSE 0)
<1> DEFINE gone == IF o.refs = 1 THEN 1 ELSE 0
           one == [o EXCEPT !.release = @ + 1]
           two == [one EXCEPT !.refs = @ - 1]
           three == [two EXCEPT !.active = @ - gone]
<1>1. gone \in Int  OBVIOUS
<1>2. C!Release(o) = [three EXCEPT !.destroyed = @ + gone]  BY DEF C!Release
<1>3. /\ one \in [Counts -> Int] /\ one.release = o.release + 1
      /\ \A k \in Counts \ {"release"} : one[k] = o[k]
  BY DEF Counts
<1> HIDE DEF one
<1>4. /\ two \in [Counts -> Int] /\ two.refs = one.refs - 1
      /\ \A k \in Counts \ {"refs"} : two[k] = one[k]
  BY <1>3 DEF Counts
<1> HIDE DEF two, gone
<1>5. /\ three \in [Counts -> Int] /\ three.active = two.active - gone
      /\ \A k \in Counts \ {"active"} : three[k] = two[k]
  BY <1>1, <1>4 DEF Counts
<1> HIDE DEF three
<1>6. /\ C!Release(o) \in [Counts -> Int] /\ C!Release(o).destroyed = three.destroyed + gone
      /\ \A k \in Counts \ {"destroyed"} : C!Release(o)[k] = three[k]
  BY <1>1, <1>2, <1>5 DEF Counts
<1> QED BY <1>3, <1>4, <1>5, <1>6 DEF Counts, gone

LEMMA QueryCounts ==
  ASSUME NEW o \in [Counts -> Int]
  PROVE  /\ C!QueryInterface(o) \in [Counts -> Int]
         /\ C!QueryInterface(o).addRef = o.addRef + 1
         /\ C!QueryInterface(o).refs = o.refs + 1
         /\ C!QueryInterface(o).release = o.release
         /\ C!QueryInterface(o).active = o.active
         /\ C!QueryInterface(o).destroyed = o.destroyed
         /\ C!QueryInterface(o).query = o.query + 1
<1> DEFINE asked == [o EXCEPT !.query = @ + 1]
<1>1. /\ asked \in [Counts -> Int] /\ asked.query = o.query + 1
      /\ asked.refs = o.refs /\ asked.addRef = o.addRef /\ asked.release = o.release
      /\ asked.active = o.active /\ asked.destroyed = o.destroyed
  BY DEF Counts
<1>2. C!QueryInterface(o) = C!AddRef(asked)  BY DEF C!QueryInterface
<1> HIDE DEF asked
<1> QED BY <1>1, <1>2, AddRefCounts

LEMMA ComTypes ==
  C!TypeOK <=> /\ step \in C!Steps /\ held \subseteq C!Pointers /\ defects \subseteq C!Defects
               /\ object \in [Counts -> Int] /\ bPass \in BOOLEAN /\ dead \in BOOLEAN
  BY ComNames DEF C!TypeOK

\* The counts before and at the creation of the mock.
LEMMA NoCounts ==
  /\ C!NoObject \in [Counts -> Int] /\ C!NewMockUnknown \in [Counts -> Int]
  /\ \A k \in Counts :
       C!NoObject[k] = 0 /\ C!NewMockUnknown[k] = (IF k \in {"refs", "active"} THEN 1 ELSE 0)
<1>1. DOMAIN C!NoObject = Counts /\ C!NoObject = [k \in DOMAIN C!NoObject |-> C!NoObject[k]]
  BY DEF C!NoObject, Counts
<1>2. \A k \in Counts : C!NoObject[k] = 0  BY DEF C!NoObject, Counts
<1>3. C!NoObject \in [Counts -> Int]  BY <1>1, <1>2
<1> DEFINE one == [C!NoObject EXCEPT !.refs = 1]
<1>4. one \in [Counts -> Int] /\ \A k \in Counts : one[k] = (IF k = "refs" THEN 1 ELSE 0)
  BY <1>2, <1>3 DEF Counts
<1>5. C!NewMockUnknown = [one EXCEPT !.active = 1]  BY DEF C!NewMockUnknown
<1> HIDE DEF one
<1> QED BY <1>2, <1>3, <1>4, <1>5 DEF Counts

\* Before the first Release the mock lives.
LEMMA EarlyCalls ==
  ASSUME ComInv, step \in Early,
         NEW o \in {object, C!AddRef(object), C!QueryInterface(object)}, C!Becomes(o)
  PROVE  /\ object' \in [Counts -> Int] /\ CountsFit' /\ object'.release = 0
         /\ dead' = FALSE
<1>1. object \in [Counts -> Int] /\ CountsFit /\ object.release = 0 /\ dead = FALSE
  BY ComTypes DEF ComInv, CountInv, Early, Late
<1>2. object.refs > 0  BY <1>1 DEF CountsFit, Counts
<1>3. ~(o # object /\ object.refs <= 0) /\ object.refs \in Int  BY <1>1, <1>2 DEF Counts
<1>4. dead' = FALSE /\ object' = o  BY <1>1, <1>3, Zenon DEF C!Becomes
<1>5. CASE o = object  BY <1>1, <1>4, <1>5 DEF CountsFit
<1>6. CASE o = C!AddRef(object)  BY <1>1, <1>4, <1>6, AddRefCounts DEF CountsFit, Counts
<1>7. CASE o = C!QueryInterface(object)  BY <1>1, <1>4, <1>7, QueryCounts DEF CountsFit, Counts
<1> QED BY <1>4, <1>5, <1>6, <1>7

\* From then on there is no AddRef.
LEMMA LateCalls ==
  ASSUME ComInv, step \in Late \cup {"detach"},
         NEW o \in {object, C!Release(object)}, C!Becomes(o)
  PROVE  /\ object' \in [Counts -> Int] /\ CountsFit' /\ object'.addRef = object.addRef
         /\ dead' \in BOOLEAN
         /\ dead' => object'.release >= object'.addRef + 2
<1>1. /\ object \in [Counts -> Int] /\ CountsFit /\ dead \in BOOLEAN
      /\ dead => object.release >= object.addRef + 2
  BY ComTypes DEF ComInv, CountInv, Early, Late
<1>2. object' = o /\ (dead' <=> dead \/ (o # object /\ object.refs <= 0)) /\ dead' \in BOOLEAN
  BY <1>1 DEF C!Becomes
<1>3. CASE o = object  BY <1>1, <1>2, <1>3 DEF CountsFit
<1>4. CASE o = C!Release(object)  BY <1>1, <1>2, <1>4, ReleaseCounts DEF CountsFit, Counts
<1> QED BY <1>3, <1>4

LEMMA ComInit == Init => ComInv
<1> SUFFICES ASSUME Init PROVE ComInv
  OBVIOUS
<1>1. /\ step = "idle" /\ held = {} /\ object = C!NoObject /\ bPass = TRUE /\ dead = FALSE
      /\ defects = {}
  BY DEF Init, C!Init
<1>2. C!TypeOK  BY <1>1, NoCounts, ComTypes DEF C!Steps
<1> QED BY <1>1, <1>2 DEF ComInv, CountInv, Early, Late

\* Every statement of main keeps the counts.
LEMMA ComStep == ComInv /\ C!Next => ComInv'
<1> SUFFICES ASSUME ComInv, C!Next PROVE ComInv'
  OBVIOUS
<1> USE DEF C!Goto, C!Check
<1>0. /\ step \in C!Steps /\ held \subseteq C!Pointers /\ defects \subseteq C!Defects
      /\ object \in [Counts -> Int] /\ bPass \in BOOLEAN /\ dead \in BOOLEAN
  BY ComTypes DEF ComInv
<1>1. ASSUME NEW chosen \in SUBSET C!Defects, C!Begin(chosen) PROVE ComInv'
  <2>1. C!TypeOK'  BY <1>0, <1>1, ComNames DEF C!TypeOK, C!Begin, C!Steps
  <2> QED BY <1>1, <2>1 DEF C!Begin, ComInv, CountInv, Early, Late
<1>2. CASE C!Attach
  <2>1. C!NewMockUnknown \in [Counts -> Int]  BY NoCounts
  <2>2. /\ C!NewMockUnknown.refs = 1 /\ C!NewMockUnknown.active = 1
        /\ C!NewMockUnknown.addRef = 0 /\ C!NewMockUnknown.release = 0
        /\ C!NewMockUnknown.destroyed = 0
    BY NoCounts DEF Counts
  <2>3. object' \in {C!NewMockUnknown, C!AddRef(C!NewMockUnknown)}
    BY <1>2 DEF C!Attach, C!Also
  <2>4. object' \in [Counts -> Int] /\ CountsFit' /\ object'.release = 0
    BY <2>1, <2>2, <2>3, AddRefCounts DEF CountsFit
  <2>5. /\ step' = "copy" /\ held' = {"theObject"} /\ bPass' \in BOOLEAN /\ dead' = FALSE
        /\ defects' = defects
    BY <1>0, <1>2 DEF C!Attach, ComInv, CountInv, Late
  <2>6. C!TypeOK'  BY <1>0, <2>4, <2>5, ComNames DEF C!TypeOK, C!Steps, C!Pointers
  <2> QED BY <2>4, <2>5, <2>6 DEF ComInv, CountInv, Early, Late
<1>3. ASSUME NEW o \in {object, C!AddRef(object), C!QueryInterface(object)}, C!Becomes(o),
             step \in Early \ {"detach"}, step' \in Early \ {"detach"}, held' \subseteq C!Pointers,
             bPass' \in BOOLEAN, defects' = defects
      PROVE  ComInv'
  <2>1. /\ object' \in [Counts -> Int] /\ CountsFit' /\ object'.release = 0 /\ dead' = FALSE
    BY <1>3, EarlyCalls
  <2>2. C!TypeOK'  BY <1>0, <1>3, <2>1, ComNames DEF C!TypeOK, C!Steps, Early
  <2> QED BY <1>3, <2>1, <2>2 DEF ComInv, CountInv, Early, Late
<1>4. CASE C!Copy
  BY <1>0, <1>3, <1>4, ComNames DEF C!Copy, C!Unless, Early, C!Pointers, InnerPointers
<1>5. CASE C!Move
  BY <1>0, <1>3, <1>5, ComNames DEF C!Move, C!Also, Early, C!Pointers, InnerPointers
<1>6. CASE C!Query
  BY <1>0, <1>3, <1>6, ComNames DEF C!Query, C!QueryTo, C!Queried, Early, C!Pointers, InnerPointers
<1>7. ASSUME NEW o \in {object, C!Release(object)}, C!Becomes(o),
             step \in Late \cup {"detach"}, step' \in Late, held' \subseteq C!Pointers,
             bPass' \in BOOLEAN, defects' = defects, bPass' => object.addRef = 3,
             step' = "ended" /\ bPass' => object'.destroyed = 1 /\ object'.release = 4
      PROVE  ComInv'
  <2>1. /\ object' \in [Counts -> Int] /\ CountsFit' /\ object'.addRef = object.addRef
        /\ dead' \in BOOLEAN
        /\ dead' => object'.release >= object'.addRef + 2
    BY <1>7, LateCalls
  <2>2. step' \in C!Steps  BY <1>7 DEF C!Steps, Late
  <2>3. object' \in [DOMAIN C!NoObject -> Int]  BY <2>1, ComNames
  <2>4. held' \subseteq C!Pointers /\ defects' \subseteq C!Defects
        /\ bPass' \in BOOLEAN
    BY <1>0, <1>7
  <2>5. dead' \in BOOLEAN  BY <2>1, Zenon
  <2>6. C!TypeOK'  BY <2>2, <2>3, <2>4, <2>5 DEF C!TypeOK
  <2> QED BY <1>7, <2>1, <2>6 DEF ComInv, CountInv, Early, Late
<1>8. CASE C!QueryByIID
  <2>1. PICK o \in {object, C!AddRef(object), C!QueryInterface(object)} : C!Becomes(o)
    BY <1>8 DEF C!QueryByIID, C!QueryToIID
  <2>2. /\ object' \in [Counts -> Int] /\ CountsFit' /\ object'.release = 0 /\ dead' = FALSE
    BY <1>8, <2>1, EarlyCalls DEF C!QueryByIID, Early
  <2>3. held' \subseteq C!Pointers
    BY <1>0, <1>8, ComNames DEF C!QueryByIID, C!QueriedViaIID, C!Pointers, InnerPointers
  <2>4. /\ bPass' \in BOOLEAN /\ step' = "detach" /\ defects' = defects
        /\ bPass' => object'.addRef = 3
    BY <1>0, <1>8 DEF C!QueryByIID
  <2>5. C!TypeOK'  BY <1>0, <2>2, <2>3, <2>4, ComNames DEF C!TypeOK, C!Steps
  <2> QED BY <2>2, <2>4, <2>5 DEF ComInv, CountInv, Early, Late
<1>9. step \in Late \cup {"detach"} /\ bPass => object.addRef = 3  BY DEF ComInv, CountInv
<1>10. CASE C!Detach
  BY <1>0, <1>7, <1>9, <1>10, ComNames DEF C!Detach, C!Also, Late, C!Pointers, InnerPointers
<1>11. CASE C!AttachOwned
  BY <1>0, <1>7, <1>9, <1>11, ComNames DEF C!AttachOwned, Late, C!Pointers, InnerPointers
<1>12. ASSUME NEW p \in DOMAIN C!Inner, C!EndPointer(p) PROVE ComInv'
  BY <1>0, <1>7, <1>9, <1>12 DEF C!EndPointer, C!Unless, Late
<1>13. CASE C!InnerEnd
  <2>1. C!Becomes(object)  BY <1>13, <1>0, Zenon DEF C!InnerEnd, C!Becomes
  <2> QED BY <1>0, <1>7, <1>9, <1>13, <2>1 DEF C!InnerEnd, Late
<1>14. CASE C!Reset  BY <1>0, <1>7, <1>9, <1>14 DEF C!Reset, C!Unless, Late
<1>15. CASE C!OuterEnd
  <2>1. PICK o \in {object, C!Release(object)} : C!Becomes(o)
    BY <1>15 DEF C!OuterEnd, C!Unless
  <2>2. bPass' => bPass /\ object'.destroyed = 1 /\ object'.release = 4
    BY <1>15 DEF C!OuterEnd
  <2> QED BY <1>0, <1>7, <1>9, <1>15, <2>1, <2>2 DEF C!OuterEnd, Late
<1> QED BY <1>1, <1>2, <1>4, <1>5, <1>6, <1>8, <1>10, <1>11, <1>12, <1>13, <1>14, <1>15
     DEF C!Next, C!Run

LEMMA ComNext == ComInv /\ [Next]_vars => ComInv'
<1> SUFFICES ASSUME ComInv, [Next]_vars PROVE ComInv'
  OBVIOUS
<1>1. CASE C!Next  BY <1>1, ComStep
<1>2. CASE UNCHANGED comVars  BY <1>2 DEF comVars, ComInv, CountInv, CountsFit, C!TypeOK
<1> QED BY <1>1, <1>2 DEF Next, Scripted, Threaded, Com, Terminating, Naming, Finished, vars

LEMMA ComInvariant == Spec => []ComInv
  BY ComInit, ComNext, PTL DEF Spec

\* When the WIL smoke passes (wil/consumer/main.cpp), the object has been
\* destroyed once and not called afterwards, and each AddRef has had its
\* Release: in whatever and however many ways the library behaves wrongly.
THEOREM ComLifetimeKept == Spec => []C!LifetimeKept
<1>1. ComInv => C!LifetimeKept
  <2> SUFFICES ASSUME ComInv, step = "ended", bPass
               PROVE  /\ ~dead /\ object.destroyed = 1 /\ object.refs = 0
                      /\ object.release = object.addRef + 1
    BY DEF C!LifetimeKept, C!Ended
  <2> QED BY DEF ComInv, CountInv, CountsFit, Late
<1> QED BY <1>1, ComInvariant, PTL

LEMMA NoticeInit == Init => NoticeInv
<1> SUFFICES ASSUME Init PROVE NoticeInv
  OBVIOUS
<1>1. step = "idle" /\ bPass = TRUE /\ defects = {}  BY DEF Init, C!Init
<1> QED BY <1>1 DEF NoticeInv, Seen, Cleared, Late

\* A call of the mock, as the counts tell it.
LEMMA CallsSeen ==
  ASSUME object \in [Counts -> Int]
  PROVE  /\ object.addRef \in Int /\ object.query \in Int /\ object.release \in Int
         /\ object' = C!AddRef(object) =>
              /\ object'.addRef = object.addRef + 1 /\ object'.query = object.query
              /\ object'.release = object.release
         /\ object' = C!QueryInterface(object) =>
              /\ object'.addRef = object.addRef + 1 /\ object'.query = object.query + 1
              /\ object'.release = object.release
         /\ object' = C!Release(object) => object'.release = object.release + 1
<1>1. object.addRef \in Int /\ object.query \in Int /\ object.release \in Int  BY DEF Counts
<1> QED BY <1>1, AddRefCounts, QueryCounts, ReleaseCounts

LEMMA CreationSeen ==
  /\ object' = C!NewMockUnknown =>
       object'.addRef = 0 /\ object'.query = 0 /\ object'.active = 1
  /\ object' = C!AddRef(C!NewMockUnknown) =>
       object'.addRef = 1 /\ object'.query = 0 /\ object'.active = 1
<1>1. /\ C!NewMockUnknown \in [Counts -> Int] /\ C!NewMockUnknown.addRef = 0
      /\ C!NewMockUnknown.query = 0 /\ C!NewMockUnknown.active = 1
  BY NoCounts DEF Counts
<1> QED BY <1>1, AddRefCounts

LEMMA NoticeStart ==
  ASSUME NoticeInv, NEW chosen \in SUBSET C!Defects, C!Begin(chosen) PROVE NoticeInv'
<1>1. step = "idle" /\ step' = "attach" /\ bPass /\ bPass'  BY DEF C!Begin, C!Goto, NoticeInv
<1> QED BY <1>1 DEF NoticeInv, Seen, Cleared, Late

LEMMA NoticeAttach == ASSUME ComInv, NoticeInv, C!Attach PROVE NoticeInv'
<1>1. /\ step = "attach" /\ step' = "copy" /\ held' = {"theObject"} /\ defects' = defects
      /\ bPass \in BOOLEAN
      /\ bPass' <=> (object'.active = 1 /\ bPass)
  BY ComTypes DEF ComInv, C!Attach, C!Goto, C!Check
<1>2. object' = IF "attach adds" \in defects THEN C!AddRef(C!NewMockUnknown) ELSE C!NewMockUnknown
  BY DEF C!Attach, C!Also, C!Defect
<1>3. /\ object'.query = 0 /\ object'.active = 1
      /\ "attach adds" \in defects => object'.addRef = 1
      /\ "attach adds" \notin defects => object'.addRef = 0
  BY <1>2, CreationSeen
<1> QED BY <1>1, <1>3 DEF NoticeInv, Seen, Cleared, Late, Lone

LEMMA NoticeCopy == ASSUME ComInv, NoticeInv, C!Copy PROVE NoticeInv'
<1>0. object \in [Counts -> Int] /\ bPass \in BOOLEAN  BY ComTypes DEF ComInv
<1>1. /\ step = "copy" /\ step' = "move" /\ held' = held \cup {"theCopy"} /\ defects' = defects
      /\ bPass' <=> (object'.addRef = 1 /\ bPass)
  BY <1>0 DEF C!Copy, C!Goto, C!Check
<1>2. object' = IF "copy shares" \in defects THEN object ELSE C!AddRef(object)
  BY DEF C!Copy, C!Becomes, C!Unless, C!Defect
<1>3. Lone /\ bPass => /\ held = {"theObject"} /\ object.query = 0
                       /\ "attach adds" \in defects => object.addRef = 1
                       /\ "attach adds" \notin defects => object.addRef = 0
  BY <1>1 DEF NoticeInv, Seen
<1>4. CASE "copy shares" \in defects
  <2>1. object' = object  BY <1>2, <1>4
  <2>2. Lone => "attach adds" \notin defects  BY <1>4 DEF Lone
  <2>3. Lone /\ bPass => object'.addRef = 0  BY <1>3, <2>1, <2>2
  <2>4. object'.addRef = 0 => ~bPass'  BY <1>1
  <2> QED BY <1>1, <1>4, <2>3, <2>4 DEF NoticeInv, Lone
<1>5. CASE "copy shares" \notin defects
  <2>1. object.addRef \in Int /\ object'.addRef = object.addRef + 1 /\ object'.query = object.query
    BY <1>0, <1>2, <1>5, CallsSeen
  <2>2. CASE "attach adds" \in defects
    <3>1. Lone /\ bPass => object.addRef = 1  BY <1>3, <2>2
    <3>2. object.addRef = 1 => ~bPass'  BY <1>1, <2>1
    <3> QED BY <1>1, <2>2, <3>1, <3>2 DEF NoticeInv, Lone
  <2>3. CASE "attach adds" \notin defects
    <3>1. Lone /\ bPass => object'.addRef = 1 /\ object'.query = 0
      <4>1. Lone /\ bPass => object.addRef = 0 /\ object.query = 0  BY <1>3, <2>3
      <4> QED BY <2>1, <4>1
    <3>2. Lone /\ bPass => Seen'  BY <1>1, <1>3, <3>1 DEF Seen
    <3>3. Lone /\ bPass => Cleared'  BY <1>1, <1>5, <2>3 DEF Cleared, Late
    <3>4. defects = {} => bPass'  BY <1>1, <3>1 DEF NoticeInv, Lone
    <3> QED BY <1>1, <3>2, <3>3, <3>4 DEF NoticeInv, Lone
  <2> QED BY <2>2, <2>3
<1> QED BY <1>4, <1>5

LEMMA NoticeMove == ASSUME ComInv, NoticeInv, C!Move PROVE NoticeInv'
<1>0. object \in [Counts -> Int] /\ bPass \in BOOLEAN  BY ComTypes DEF ComInv
<1>1. /\ step = "move" /\ step' = "query" /\ defects' = defects
      /\ held' = (IF "move keeps" \in defects THEN held ELSE held \ {"theCopy"}) \cup {"theMoved"}
      /\ bPass' <=> ("theCopy" \notin held' /\ bPass)
  BY <1>0 DEF C!Move, C!Goto, C!Check, C!Defect
<1>2. object' = IF "move adds" \in defects THEN C!AddRef(object) ELSE object
  BY DEF C!Move, C!Becomes, C!Also, C!Defect
<1>3. Lone /\ bPass =>
        held = {"theObject", "theCopy"} /\ object.addRef = 1 /\ object.query = 0
  BY <1>1 DEF NoticeInv, Seen
<1>4. Lone /\ bPass => /\ object'.query = 0
                       /\ "move adds" \in defects => object'.addRef = 2
                       /\ "move adds" \notin defects => object'.addRef = 1
  <2>1. CASE "move adds" \in defects
    <3>1. object'.addRef = object.addRef + 1 /\ object'.query = object.query
      BY <1>0, <1>2, <2>1, CallsSeen
    <3>2. Lone /\ bPass => object'.addRef = 2 /\ object'.query = 0  BY <1>3, <3>1
    <3> QED BY <2>1, <3>2
  <2>2. CASE "move adds" \notin defects  BY <1>2, <1>3, <2>2
  <2> QED BY <2>1, <2>2
<1>5. Lone /\ bPass' => Seen'  BY <1>1, <1>3, <1>4 DEF Seen
<1>6. Lone /\ bPass' => Cleared'  BY <1>1, <1>3 DEF NoticeInv, Cleared, Late
<1>7. defects = {} => bPass'  BY <1>1, <1>3 DEF NoticeInv, Lone
<1> QED BY <1>1, <1>5, <1>6, <1>7 DEF NoticeInv, Lone

LEMMA NoticeQuery == ASSUME ComInv, NoticeInv, C!Query PROVE NoticeInv'
<1>0. object \in [Counts -> Int] /\ bPass \in BOOLEAN  BY ComTypes DEF ComInv
<1>1. /\ step = "query" /\ step' = "query by IID" /\ defects' = defects
      /\ held' = held \cup (IF "query refuses" \in defects THEN {} ELSE {"theQueried"})
      /\ bPass' <=> ("theQueried" \in held' /\ object'.query = 0 /\ object'.addRef = 2 /\ bPass)
  BY <1>0 DEF C!Query, C!Queried, C!Goto, C!Check, C!Defect
<1>2. object' = IF "query refuses" \in defects \/ "fast path shares" \in defects THEN object
                ELSE IF "no fast path" \in defects THEN C!QueryInterface(object)
                ELSE C!AddRef(object)
  BY DEF C!Query, C!Becomes, C!QueryTo, C!Defect
<1>3. Lone /\ bPass => /\ held = {"theObject", "theMoved"} /\ object.query = 0
                       /\ "move adds" \in defects => object.addRef = 2
                       /\ "move adds" \notin defects => object.addRef = 1
  BY <1>1 DEF NoticeInv, Seen
<1>4. object.addRef \in Int /\ object.query \in Int  BY <1>0, CallsSeen
<1>5. Lone /\ bPass' => {"move adds", "query refuses", "no fast path", "fast path shares"} \cap defects = {}
  <2>1. CASE "query refuses" \in defects  BY <1>1, <1>3, <2>1
  <2>2. CASE "query refuses" \notin defects /\ "fast path shares" \in defects
    <3>1. Lone /\ bPass => object'.addRef = 1  BY <1>2, <1>3, <2>2 DEF Lone
    <3>2. bPass' => bPass /\ object'.addRef = 2  BY <1>1
    <3>3. object'.addRef = 1 => object'.addRef # 2  OBVIOUS
    <3> QED BY <2>2, <3>1, <3>2, <3>3
  <2>3. CASE /\ "query refuses" \notin defects /\ "fast path shares" \notin defects
             /\ "no fast path" \in defects
    <3>1. object'.query = object.query + 1  BY <1>0, <1>2, <2>3, CallsSeen
    <3>2. object.query = 0 => object'.query # 0  BY <3>1
    <3> QED BY <1>1, <1>3, <3>2
  <2>4. CASE /\ "query refuses" \notin defects /\ "fast path shares" \notin defects
             /\ "no fast path" \notin defects /\ "move adds" \in defects
    <3>1. object'.addRef = object.addRef + 1  BY <1>0, <1>2, <2>4, CallsSeen
    <3>2. object.addRef = 2 => object'.addRef # 2  BY <3>1
    <3> QED BY <1>1, <1>3, <2>4, <3>2
  <2> QED BY <2>1, <2>2, <2>3, <2>4
<1>6. Lone /\ bPass' => Seen'  BY <1>1, <1>3, <1>5 DEF Seen
<1>7. Lone /\ bPass' => Cleared'  BY <1>1, <1>5 DEF NoticeInv, Cleared, Late
<1>8. defects = {} => bPass'
  <2> SUFFICES ASSUME defects = {} PROVE bPass'
    OBVIOUS
  <2>1. object'.addRef = object.addRef + 1 /\ object'.query = object.query
    BY <1>0, <1>2, CallsSeen
  <2>2. bPass /\ object.addRef = 1 /\ object.query = 0  BY <1>3 DEF NoticeInv, Lone
  <2>3. object'.addRef = 2 /\ object'.query = 0  BY <2>1, <2>2
  <2> QED BY <1>1, <2>2, <2>3
<1> QED BY <1>1, <1>6, <1>7, <1>8 DEF NoticeInv, Lone

LEMMA NoticeQueryByIID == ASSUME ComInv, NoticeInv, C!QueryByIID PROVE NoticeInv'
<1>0. object \in [Counts -> Int] /\ bPass \in BOOLEAN  BY ComTypes DEF ComInv
<1>1. /\ step = "query by IID" /\ step' = "detach" /\ defects' = defects
      /\ held' = held \cup (IF "query refuses" \in defects THEN {} ELSE {"theQueriedViaIID"})
      /\ bPass' <=> ("theQueriedViaIID" \in held' /\ object'.query = 1 /\ object'.addRef = 3 /\ bPass)
  BY <1>0 DEF C!QueryByIID, C!QueriedViaIID, C!Goto, C!Check, C!Defect
<1>2. object' = IF "query refuses" \in defects THEN object
                ELSE IF "no query" \in defects THEN C!AddRef(object)
                ELSE C!QueryInterface(object)
  BY DEF C!QueryByIID, C!Becomes, C!QueryToIID, C!Defect
<1>3. Lone /\ bPass => /\ held = {"theObject", "theMoved", "theQueried"}
                       /\ object.addRef = 2 /\ object.query = 0
                       /\ "query refuses" \notin defects
  BY <1>1 DEF NoticeInv, Seen, Cleared
<1>4. Lone /\ bPass' => "no query" \notin defects
  <2>1. bPass' => object'.query = 1  BY <1>1
  <2>2. object' = C!AddRef(object) => object'.query = object.query  BY <1>0, CallsSeen
  <2>3. object.query = 0 /\ object' = C!AddRef(object) => ~bPass'  BY <2>1, <2>2
  <2>4. Lone /\ bPass /\ "no query" \in defects => object' = C!AddRef(object)  BY <1>2, <1>3
  <2> QED BY <1>1, <1>3, <2>3, <2>4
<1>5. Lone /\ bPass' => Seen'  BY <1>1, <1>3 DEF Seen
<1>6. Lone /\ bPass' => Cleared'  BY <1>1, <1>4 DEF NoticeInv, Cleared, Late
<1>7. defects = {} => bPass'
  <2> SUFFICES ASSUME defects = {} PROVE bPass'
    OBVIOUS
  <2>1. object'.addRef = object.addRef + 1 /\ object'.query = object.query + 1
    BY <1>0, <1>2, CallsSeen
  <2>2. bPass /\ object.addRef = 2 /\ object.query = 0  BY <1>3 DEF NoticeInv, Lone
  <2>3. object'.addRef = 3 /\ object'.query = 1  BY <2>1, <2>2
  <2> QED BY <1>1, <2>2, <2>3
<1> QED BY <1>1, <1>5, <1>6, <1>7 DEF NoticeInv, Lone

LEMMA NoticeDetach == ASSUME ComInv, NoticeInv, C!Detach PROVE NoticeInv'
<1>0. object \in [Counts -> Int] /\ bPass \in BOOLEAN  BY ComTypes DEF ComInv
<1>1. /\ step = "detach" /\ step' = "attach owned" /\ defects' = defects
      /\ held' = IF "theQueried" \notin held THEN held
                 ELSE (IF "detach keeps" \in defects THEN held ELSE held \ {"theQueried"})
                      \cup {"pRaw"}
      /\ bPass' <=> ("theQueried" \notin held' /\ "pRaw" \in held' /\ bPass)
  BY <1>0 DEF C!Detach, C!Goto, C!Check, C!Defect
<1>2. "theQueried" \in held =>
        object' = IF "detach releases" \in defects THEN C!Release(object) ELSE object
  BY DEF C!Detach, C!Becomes, C!Also, C!Defect
<1>3. Lone /\ bPass => held = {"theObject", "theMoved", "theQueried", "theQueriedViaIID"}
  BY <1>1 DEF NoticeInv, Seen
<1>4. object.release = 0  BY <1>1 DEF ComInv, CountInv, Early
<1>5. Lone /\ bPass => /\ "detach releases" \in defects => object'.release = 1
                       /\ "detach releases" \notin defects => object'.release = 0
  <2> SUFFICES ASSUME Lone, bPass
               PROVE  /\ "detach releases" \in defects => object'.release = 1
                      /\ "detach releases" \notin defects => object'.release = 0
    OBVIOUS
  <2>1. object' = IF "detach releases" \in defects THEN C!Release(object) ELSE object
    BY <1>2, <1>3
  <2>2. object' = C!Release(object) => object'.release = 1  BY <1>0, <1>4, CallsSeen
  <2> QED BY <1>4, <2>1, <2>2
<1>6. Lone /\ bPass' => Seen' /\ "detach keeps" \notin defects  BY <1>1, <1>3, <1>5 DEF Seen
<1>7. Lone /\ bPass' => Cleared'  BY <1>1, <1>6 DEF NoticeInv, Cleared, Late
<1>8. defects = {} => bPass'  BY <1>1, <1>3 DEF NoticeInv, Lone
<1> QED BY <1>1, <1>6, <1>7, <1>8 DEF NoticeInv, Lone

LEMMA NoticeAttachOwned == ASSUME ComInv, NoticeInv, C!AttachOwned PROVE NoticeInv'
<1>1. /\ step = "attach owned" /\ step' = "inner end" /\ defects' = defects
      /\ "theQueried" \notin held => object' = object
      /\ held' = (held \ {"pRaw", "theQueried"}) \cup (IF "pRaw" \in held THEN {"theQueried"} ELSE {})
      /\ bPass \in BOOLEAN
      /\ bPass' <=> ("theQueried" \in held' /\ bPass)
  BY ComTypes DEF ComInv, C!AttachOwned, C!Becomes, C!Goto, C!Check
<1>2. Lone /\ bPass => /\ held = {"theObject", "theMoved", "pRaw", "theQueriedViaIID"}
                       /\ "detach releases" \in defects => object.release = 1
                       /\ "detach releases" \notin defects => object.release = 0
  BY <1>1 DEF NoticeInv, Seen
<1>3. ASSUME Lone, bPass PROVE Destructed(0)'
  <2>0. "pRaw" \in held /\ "theQueried" \notin held  BY <1>2, <1>3
  <2>1. held' = {"theObject", "theMoved", "theQueried", "theQueriedViaIID"} /\ object' = object
    <3>1. held' = (held \ {"pRaw", "theQueried"}) \cup {"theQueried"} /\ object' = object
      BY <1>1, <2>0
    <3> QED BY <1>2, <1>3, <3>1
  <2>2. held' = Before(0)  BY <2>1 DEF Before
  <2>3. /\ "detach releases" \in defects => object.release = 1 /\ "destructor skips" \notin defects
        /\ "detach releases" \notin defects => object.release = 0
    BY <1>2, <1>3 DEF Lone
  <2>4. 0 + 1 = 1  OBVIOUS
  <2> QED BY <1>1, <2>1, <2>2, <2>3, <2>4 DEF Destructed
<1>4. Lone /\ bPass => Seen'
  <2>1. Lone /\ bPass => \E k \in 0..3 : Destructed(k)'  BY <1>3
  <2> QED BY <1>1, <2>1 DEF Seen
<1>5. Lone /\ bPass => Cleared'  BY <1>1 DEF NoticeInv, Cleared, Late
<1>6. defects = {} => bPass'  BY <1>1, <1>2 DEF NoticeInv, Lone
<1> QED BY <1>1, <1>4, <1>5, <1>6 DEF NoticeInv, Lone

\* The destructors of the inner block run in a fixed order.
LEMMA EndsInTurn ==
  ASSUME NEW k \in 0..3, NEW p \in DOMAIN C!Inner, held = Before(k), C!EndPointer(p)
  PROVE  k + 1 \in 0..3 /\ held' = Before(k + 1)
<1>1. /\ DOMAIN C!Inner = {"theCopy", "theMoved", "theQueried", "theQueriedViaIID"}
      /\ C!Inner["theMoved"] = 2 /\ C!Inner["theQueried"] = 3 /\ C!Inner["theQueriedViaIID"] = 4
  BY DEF C!Inner
<1>2. /\ p \in held /\ held' = held \ {p}
      /\ \A q \in held : q \in DOMAIN C!Inner => C!Inner[q] <= C!Inner[p]
  BY DEF C!EndPointer
<1>3. CASE k = 0
  <2>1. held = {"theObject", "theMoved", "theQueried", "theQueriedViaIID"}  BY <1>3 DEF Before
  <2>2. p = "theQueriedViaIID"  BY <1>1, <1>2, <2>1
  <2>3. held' = Before(1)  BY <1>2, <2>1, <2>2 DEF Before
  <2> QED BY <1>3, <2>3
<1>4. CASE k = 1
  <2>1. held = {"theObject", "theMoved", "theQueried"}  BY <1>4 DEF Before
  <2>2. p = "theQueried"  BY <1>1, <1>2, <2>1
  <2>3. held' = Before(2)  BY <1>2, <2>1, <2>2 DEF Before
  <2> QED BY <1>4, <2>3
<1>5. CASE k = 2
  <2>1. held = {"theObject", "theMoved"}  BY <1>5 DEF Before
  <2>2. p = "theMoved"  BY <1>1, <1>2, <2>1
  <2>3. held' = Before(3)  BY <1>2, <2>1, <2>2 DEF Before
  <2> QED BY <1>5, <2>3
<1>6. CASE k = 3
  <2>1. held = {"theObject"}  BY <1>6 DEF Before
  <2> QED BY <1>1, <1>2, <2>1
<1> QED BY <1>3, <1>4, <1>5, <1>6

LEMMA NoticeEndPointer ==
  ASSUME ComInv, NoticeInv, NEW p \in DOMAIN C!Inner, C!EndPointer(p) PROVE NoticeInv'
<1>0. object \in [Counts -> Int]  BY ComTypes DEF ComInv
<1>1. /\ step = "inner end" /\ step' = "inner end" /\ defects' = defects /\ bPass' = bPass
      /\ object' = IF "destructor skips" \in defects THEN object ELSE C!Release(object)
  BY DEF C!EndPointer, C!Becomes, C!Unless, C!Defect
<1>2. ASSUME Lone, bPass PROVE \E k \in 0..3 : Destructed(k)'
  <2>1. PICK k \in 0..3 : Destructed(k)  BY <1>1, <1>2 DEF NoticeInv, Seen
  <2>2. k + 1 \in 0..3 /\ held' = Before(k + 1)  BY <2>1, EndsInTurn DEF Destructed
  <2>3. object' = C!Release(object) => object'.release = object.release + 1  BY <1>0, CallsSeen
  <2>4. CASE "destructor skips" \in defects
    <3>1. object' = object /\ "detach releases" \notin defects /\ object.release = 0
      BY <1>1, <1>2, <2>1, <2>4 DEF Lone, Destructed
    <3> QED BY <1>1, <2>2, <2>4, <3>1 DEF Destructed
  <2>5. CASE "detach releases" \in defects
    <3>1. "destructor skips" \notin defects /\ object.release = k + 1
      BY <1>2, <2>1, <2>5 DEF Lone, Destructed
    <3>2. object'.release = (k + 1) + 1  BY <1>1, <2>3, <3>1
    <3> QED BY <1>1, <2>2, <2>5, <3>1, <3>2 DEF Destructed
  <2>6. CASE "destructor skips" \notin defects /\ "detach releases" \notin defects
    <3>1. object.release = k  BY <2>1, <2>6 DEF Destructed
    <3>2. object'.release = k + 1  BY <1>1, <2>3, <2>6, <3>1
    <3> QED BY <1>1, <2>2, <2>6, <3>2 DEF Destructed
  <2> QED BY <2>4, <2>5, <2>6
<1>3. Lone /\ bPass => Seen'  BY <1>1, <1>2 DEF Seen
<1>4. Lone /\ bPass => Cleared'  BY <1>1 DEF NoticeInv, Cleared
<1> QED BY <1>1, <1>3, <1>4 DEF NoticeInv, Lone

LEMMA NoticeInnerEnd == ASSUME ComInv, NoticeInv, C!InnerEnd PROVE NoticeInv'
<1>1. /\ step = "inner end" /\ step' = "reset" /\ defects' = defects /\ held' = held
      /\ object' = object /\ held \cap DOMAIN C!Inner = {} /\ bPass \in BOOLEAN
      /\ bPass' <=> (object.active = 1 /\ object.release = 3 /\ bPass)
  BY ComTypes DEF ComInv, C!InnerEnd, C!Goto, C!Check
<1>2. ASSUME Lone, bPass
      PROVE  /\ held = {"theObject"}
             /\ defects \cap {"detach releases", "destructor skips"} = {} => object.release = 3
             /\ "destructor skips" \in defects => object.release = 0
             /\ "detach releases" \in defects => object.release = 4
  <2>1. PICK k \in 0..3 : Destructed(k)  BY <1>1, <1>2 DEF NoticeInv, Seen
  <2>2. held = Before(k) /\ "theMoved" \notin held  BY <1>1, <2>1 DEF Destructed, C!Inner
  <2>3. k = 3  BY <2>2 DEF Before
  <2>4. held = {"theObject"}  BY <2>2, <2>3 DEF Before
  <2>5. 3 + 1 = 4  OBVIOUS
  <2> QED BY <2>1, <2>3, <2>4, <2>5 DEF Destructed
<1>3. object.release = 0 \/ object.release = 4 => ~bPass'
  <2>1. bPass' => object.release = 3  BY <1>1
  <2> QED BY <2>1
<1>4. Lone /\ bPass' =>
        "detach releases" \notin defects /\ "destructor skips" \notin defects
  BY <1>1, <1>2, <1>3
<1>5. Lone /\ bPass' => Seen'  BY <1>1, <1>2 DEF Seen
<1>6. Lone /\ bPass' => Cleared'  BY <1>1, <1>4 DEF NoticeInv, Cleared, Late
<1>7. defects = {} => bPass'
  <2> SUFFICES ASSUME defects = {} PROVE bPass'
    OBVIOUS
  <2>1. bPass /\ Lone  BY DEF NoticeInv, Lone
  <2>2. object.release = 3  BY <1>2, <2>1
  <2>3. object.addRef = 3  BY <1>1, <2>1 DEF ComInv, CountInv, Late
  <2>4. object.active = IF object.release <= object.addRef THEN 1 ELSE 0
    BY <1>1 DEF ComInv, CountInv, CountsFit, Late
  <2>5. object.active = 1  BY <2>2, <2>3, <2>4
  <2> QED BY <1>1, <2>1, <2>2, <2>5
<1> QED BY <1>1, <1>5, <1>6, <1>7 DEF NoticeInv, Lone

LEMMA NoticeReset == ASSUME ComInv, NoticeInv, C!Reset PROVE NoticeInv'
<1>0. object \in [Counts -> Int]  BY ComTypes DEF ComInv
<1>1. /\ step = "reset" /\ step' = "outer end" /\ defects' = defects /\ bPass' = bPass
      /\ object' = IF "reset skips" \in defects THEN object ELSE C!Release(object)
      /\ held' = IF "reset keeps" \in defects THEN held ELSE held \ {"theObject"}
  BY DEF C!Reset, C!Goto, C!Becomes, C!Unless, C!Defect
<1>2. Lone /\ bPass => held = {"theObject"} /\ object.release = 3  BY <1>1 DEF NoticeInv, Seen
<1>3. object.release = 3 /\ object' = C!Release(object) => object'.release = 4
  BY <1>0, CallsSeen
<1>4. ASSUME Lone, bPass
      PROVE  /\ "reset skips" \in defects => held' = {} /\ object'.release = 3
             /\ "reset skips" \notin defects => object'.release = 4
             /\ "reset keeps" \in defects => held' = {"theObject"}
             /\ "reset keeps" \notin defects => held' = {}
  <2>1. "reset skips" \in defects => "reset keeps" \notin defects  BY <1>4 DEF Lone
  <2>2. /\ "reset keeps" \in defects => held' = {"theObject"}
        /\ "reset keeps" \notin defects => held' = {}
    BY <1>1, <1>2, <1>4
  <2>3. /\ "reset skips" \in defects => object'.release = 3
        /\ "reset skips" \notin defects => object'.release = 4
    BY <1>1, <1>2, <1>3, <1>4
  <2> QED BY <2>1, <2>2, <2>3
<1>5. Lone /\ bPass => Seen'  BY <1>1, <1>4 DEF Seen
<1>6. Lone /\ bPass => Cleared'  BY <1>1 DEF NoticeInv, Cleared, Late
<1> QED BY <1>1, <1>5, <1>6 DEF NoticeInv, Lone

LEMMA NoticeOuterEnd == ASSUME ComInv, NoticeInv, C!OuterEnd PROVE NoticeInv'
<1>0. object \in [Counts -> Int] /\ CountsFit
  <2>1. step = "outer end"  BY DEF C!OuterEnd, C!Goto
  <2> QED BY <2>1, ComTypes DEF ComInv, CountInv, Late
<1>1. /\ step = "outer end" /\ step' = "ended" /\ defects' = defects /\ bPass \in BOOLEAN
      /\ object' = IF "theObject" \in held
                   THEN IF "destructor skips" \in defects THEN object ELSE C!Release(object)
                   ELSE object
      /\ bPass' <=> (object'.active = 0 /\ object'.destroyed = 1 /\ object'.release = 4 /\ bPass)
  BY ComTypes DEF ComInv, C!OuterEnd, C!Goto, C!Check, C!Becomes, C!Unless, C!Defect
<1>2. Lone /\ bPass => /\ "reset skips" \in defects => held = {} /\ object.release = 3
                       /\ "reset skips" \notin defects => object.release = 4
                       /\ "reset keeps" \in defects => held = {"theObject"}
                       /\ "reset keeps" \notin defects => held = {}
                       /\ "destructor skips" \notin defects
  BY <1>1 DEF NoticeInv, Seen, Cleared
<1>3. bPass' => object'.release # 3 /\ object'.release # 5
  <2>1. bPass' => object'.release = 4  BY <1>1
  <2> QED BY <2>1
<1>4. Lone /\ bPass' => "reset skips" \notin defects
  <2>1. Lone /\ bPass /\ "reset skips" \in defects => object'.release = 3  BY <1>1, <1>2
  <2> QED BY <1>1, <1>3, <2>1
<1>5. Lone /\ bPass' => "reset keeps" \notin defects
  <2>1. Lone /\ bPass /\ "reset keeps" \in defects =>
          object.release = 4 /\ object' = C!Release(object)
    BY <1>1, <1>2 DEF Lone
  <2>2. object.release = 4 /\ object' = C!Release(object) => object'.release = 5
    BY <1>0, CallsSeen
  <2> QED BY <1>1, <1>3, <2>1, <2>2
<1>6. Lone /\ bPass' => Seen'  BY <1>1 DEF Seen
<1>7. Lone /\ bPass' => Cleared'  BY <1>1, <1>4, <1>5 DEF NoticeInv, Cleared, Late
<1>8. defects = {} => bPass'
  <2> SUFFICES ASSUME defects = {} PROVE bPass'
    OBVIOUS
  <2>1. bPass /\ Lone  BY DEF NoticeInv, Lone
  <2>2. object.release = 4 /\ held = {}  BY <1>2, <2>1
  <2>3. object' = object /\ object.addRef = 3  BY <1>1, <2>1, <2>2 DEF ComInv, CountInv, Late
  <2>4. object.active = 0 /\ object.destroyed = 1  BY <1>0, <2>2, <2>3 DEF CountsFit
  <2> QED BY <1>1, <2>1, <2>2, <2>3, <2>4
<1> QED BY <1>1, <1>6, <1>7, <1>8 DEF NoticeInv, Lone

LEMMA NoticeNext == ComInv /\ NoticeInv /\ [Next]_vars => NoticeInv'
<1> SUFFICES ASSUME ComInv, NoticeInv, [Next]_vars PROVE NoticeInv'
  OBVIOUS
<1>1. CASE UNCHANGED comVars
  <2>1. \A k \in 0..3 : Destructed(k) => Destructed(k)'
    BY <1>1 DEF comVars, Destructed, Before
  <2>2. step' = step /\ held' = held /\ object' = object /\ defects' = defects
    BY <1>1 DEF comVars
  <2>3. ASSUME Seen PROVE Seen'
    <3>1. CASE step = "inner end"  BY <2>1, <2>2, <2>3, <3>1, Zenon DEF Seen
    <3>2. CASE step # "inner end"  BY <2>2, <2>3, <3>2, ZenonT(30) DEF Seen
    <3> QED BY <3>1, <3>2
  <2> QED BY <1>1, <2>3 DEF comVars, NoticeInv, Cleared, Lone
<1>2. CASE C!Next
  BY <1>2, NoticeStart, NoticeAttach, NoticeCopy, NoticeMove, NoticeQuery, NoticeQueryByIID,
     NoticeDetach, NoticeAttachOwned, NoticeEndPointer, NoticeInnerEnd, NoticeReset,
     NoticeOuterEnd DEF C!Next, C!Run
<1> QED BY <1>1, <1>2 DEF Next, vars, Scripted, Threaded, Com, Terminating, Naming, Finished

\* Finite sets of ComLifetime, and its cardinality.
LEMMA FourFinite == \A a, b, c, d : IsFiniteSet({a, b, c, d})
<1>1. \A a, b : IsFiniteSet({a} \cup {b})  BY FS_Singleton, FS_Union
<1>2. \A a, b, c, d : IsFiniteSet(({a} \cup {b}) \cup ({c} \cup {d}))  BY <1>1, FS_Union
<1> TAKE a, b, c, d
<1>3. ({a} \cup {b}) \cup ({c} \cup {d}) = {a, b, c, d}  OBVIOUS
<1>4. IsFiniteSet(({a} \cup {b}) \cup ({c} \cup {d}))  BY <1>2
<1> QED BY <1>3, <1>4, Zenon

LEMMA DefectsFinite == IsFiniteSet(C!Defects)
<1> DEFINE first == {"attach adds", "copy shares", "move adds", "move keeps"}
           second == {"query refuses", "no fast path", "fast path shares", "no query"}
           third == {"detach releases", "detach keeps", "reset skips", "reset keeps"}
           fourth == {"destructor skips"}
<1>1. IsFiniteSet(first) /\ IsFiniteSet(second) /\ IsFiniteSet(third) /\ IsFiniteSet(fourth)
  BY FourFinite, FS_Singleton
<1>2. C!Defects = (first \cup second) \cup (third \cup fourth)  BY DEF C!Defects
<1> HIDE DEF first, second, third, fourth
<1>3. IsFiniteSet(first \cup second) /\ IsFiniteSet(third \cup fourth)  BY <1>1, FS_Union
<1> QED BY <1>2, <1>3, FS_Union

LEMMA CardinalityIs == \A D : C!Cardinality(D) = Cardinality(D)
BY DEF C!Cardinality, Cardinality

\* The wil::com_ptr smoke accuses no library that counts correctly, and a
\* library with exactly one of the defects never passes it: the checks of
\* main.cpp are enough for each of them alone, in however many at a time the
\* library may err otherwise.
THEOREM OneDefectIsNoticed == Spec => [](C!NoFalseAlarm /\ C!OneDefectNoticed)
<1>1. ComInv /\ NoticeInv => C!NoFalseAlarm  BY DEF NoticeInv, C!NoFalseAlarm
<1>2. ComInv /\ NoticeInv => C!OneDefectNoticed
  <2> SUFFICES ASSUME ComInv, NoticeInv, C!Ended, C!Cardinality(defects) = 1, bPass PROVE FALSE
    BY Zenon DEF C!OneDefectNoticed
  <2>1. defects \subseteq C!Defects /\ IsFiniteSet(C!Defects) /\ Cardinality(defects) = 1
    BY DefectsFinite, CardinalityIs DEF ComInv, C!TypeOK
  <2>2. PICK x : defects = {x}  BY <2>1, FS_Subset, FS_Singleton
  <2>3. Lone  BY <2>2 DEF Lone
  <2>4. Cleared /\ step = "ended"  BY <2>3 DEF NoticeInv, C!Ended
  <2> QED BY <2>1, <2>2, <2>4 DEF Cleared, Late, C!Defects
<1>3. Spec => []NoticeInv
  <2>1. Init => NoticeInv  BY NoticeInit
  <2> QED BY <2>1, NoticeNext, ComInvariant, PTL DEF Spec
<1> QED BY <1>1, <1>2, <1>3, ComInvariant, PTL

-----------------------------------------------------------------------------
(* The scripted smokes: what is known of the conditions. *)

LEMMA SatRefuted == ASSUME NEW c, NEW holds, NEW on, Sat(c, holds), on \subseteq holds PROVE ~Refuted(c, on)
BY DEF Sat, Refuted

LEMMA SatGranted == ASSUME NEW c, NEW holds, NEW on, Sat(c, holds), ~(on \subseteq holds) PROVE ~Granted(c, on)
BY DEF Sat, Granted

LEMMA SatDenied ==
  ASSUME NEW c, NEW holds, NEW on, Sat(c, holds), ~(on \subseteq holds)
  PROVE  Sat(Denied(c, on), holds)
BY DEF Sat, Denied, Known

LEMMA SatAsserted ==
  ASSUME NEW c, NEW holds, NEW on, Sat(c, holds), on \subseteq holds
  PROVE  Sat(Asserted(c, on), holds)
BY DEF Sat, Asserted, Known

LEMMA SatWith ==
  ASSUME NEW c, NEW holds, NEW x, Sat(c, holds)
  PROVE  Sat(With(c, x), holds \cup {x})
BY DEF Sat, With, Known

LEMMA SatWithout ==
  ASSUME NEW c, NEW holds, NEW x, Sat(c, holds)
  PROVE  Sat(Without(c, x), holds \ {x})
BY DEF Sat, Without, Known

LEMMA SatCovers ==
  ASSUME NEW c, NEW d, NEW holds, Covers(c, d), Sat(d, holds)
  PROVE  Sat(c, holds)
<1>1. c.can /\ c.yes \subseteq holds  BY DEF Covers, Sat
<1>2. ASSUME NEW n \in c.not PROVE ~(n \subseteq holds)
  <2>1. PICK m \in d.not : m \subseteq n  BY DEF Covers, Sat, Refuted
  <2> QED BY <2>1 DEF Sat
<1> QED BY <1>1, <1>2 DEF Sat

\* What happens may happen, and what is known afterwards is right.
LEMMA SatAfter ==
  ASSUME NEW c, NEW holds, NEW ins, NEW e, Sat(c, holds), Happens(ins, e, holds)
  PROVE  May(ins, e, c) /\ Sat(After(ins, e, c), Result(ins, e, holds))
<1>1. CASE e = "skip"
  <2>1. ~(Granted(c, ins.when) /\ (ins.unless = {} \/ Refuted(c, ins.unless)))
    BY <1>1 DEF Happens, Sat, Granted, Refuted
  <2>2. May(ins, e, c)  BY <1>1, <2>1 DEF May, Happens, Sat
  <2>3. Result(ins, e, holds) = holds /\ After(ins, e, c) = Skipped(ins, c)
    BY <1>1 DEF Result, After
  <2>4. Sat(Skipped(ins, c), holds)
    <3>1. CASE Granted(c, ins.when)
      <4>1. ins.unless \subseteq holds  BY <1>1, <3>1 DEF Happens, Granted, Sat
      <4> QED BY <3>1, <4>1, SatAsserted DEF Skipped
    <3>2. CASE ~Granted(c, ins.when) /\ (ins.unless = {} \/ Refuted(c, ins.unless))
      <4>1. ~(ins.when \subseteq holds)  BY <1>1, <3>2, SatRefuted DEF Happens
      <4> QED BY <3>2, <4>1, SatDenied DEF Skipped
    <3> QED BY <3>1, <3>2 DEF Skipped
  <2> QED BY <2>2, <2>3, <2>4
<1>2. CASE e # "skip"
  <2>1. ins.when \subseteq holds /\ (ins.unless = {} \/ ~(ins.unless \subseteq holds))
    BY <1>2 DEF Happens
  <2>2. ~Refuted(c, ins.when) /\ (ins.unless = {} \/ ~Granted(c, ins.unless))
    BY <2>1, SatRefuted, SatGranted
  <2>3. Sat(Applied(ins, c), holds)
    <3>1. Sat(Asserted(c, ins.when), holds)  BY <2>1, SatAsserted
    <3> QED BY <2>1, <3>1, SatDenied DEF Applied
  <2>4. May(ins, e, c)
    <3>1. e = "good" => ~Refuted(Applied(ins, c), ins.on)  BY <2>3, SatRefuted DEF Happens
    <3>2. e = "bad" => ~Granted(Applied(ins, c), ins.on)  BY <2>3, SatGranted DEF Happens
    <3> QED BY <1>2, <2>2, <3>1, <3>2 DEF May, Happens, Sat
  <2>5. Sat(After(ins, e, c), Result(ins, e, holds))
    <3>1. CASE e = "hit"  BY <2>3, <3>1, SatWith DEF After, Result
    <3>2. CASE e = "miss"  BY <2>3, <3>2, SatWithout DEF After, Result
    <3>3. CASE e = "good"  BY <2>3, <3>3, SatAsserted DEF After, Result, Happens
    <3>4. CASE e = "bad"
      <4>1. Sat(Denied(Applied(ins, c), ins.on), holds)  BY <2>3, <3>4, SatDenied DEF Happens
      <4> QED BY <3>4, <4>1, SatWithout DEF After, Result
    <3>5. CASE e \notin {"skip", "hit", "miss", "good", "bad"}  BY <2>3, <3>5 DEF After, Result
    <3> QED BY <1>2, <3>1, <3>2, <3>3, <3>4, <3>5
  <2> QED BY <2>4, <2>5
<1> QED BY <1>1, <1>2

(* The scripted smokes: the blocks that are open. *)

LEMMA MatchesEmpty == ASSUME NEW blocks PROVE Matches(<< >>, << >>, blocks)
<1> DEFINE pos == [k \in 1..0 |-> 1]
<1>1. Places(<< >>, << >>, blocks, pos)  BY DEF Places
<1> QED BY <1>1 DEF Matches

LEMMA AppendIs ==
  ASSUME NEW stk \in Seq(Labels), NEW x \in Labels
  PROVE  LET t == Append(stk, x)
         IN  /\ t \in Seq(Labels) /\ Len(t) = Len(stk) + 1 /\ Len(stk) \in Nat
             /\ \A i \in 1..Len(stk) : t[i] = stk[i]
             /\ t[Len(stk) + 1] = x
OBVIOUS

LEMMA PrefixIs ==
  ASSUME NEW stk \in Seq(Labels), NEW n \in Nat, n <= Len(stk)
  PROVE  LET t == SubSeq(stk, 1, n)
         IN  /\ t \in Seq(Labels) /\ Len(t) = n
             /\ \A i \in 1..n : t[i] = stk[i]
OBVIOUS

LEMMA FrontIs ==
  ASSUME NEW stk \in Seq(Labels), stk # << >>
  PROVE  LET t == SubSeq(stk, 1, Len(stk) - 1)
         IN  /\ t \in Seq(Labels) /\ Len(t) = Len(stk) - 1 /\ Len(stk) \in Nat /\ Len(stk) > 0
             /\ \A i \in 1..Len(t) : t[i] = stk[i]
<1>1. PICK n \in Nat : Len(stk) = n + 1  OBVIOUS
<1>2. Len(stk) - 1 = n /\ n <= Len(stk)  BY <1>1
<1> QED BY <1>1, <1>2, PrefixIs

LEMMA MatchesObject ==
  ASSUME NEW stk \in Seq(Labels), NEW nest \in Seq(Labels), NEW blocks, NEW x \in Labels,
         x \notin blocks, Matches(stk, nest, blocks)
  PROVE  Matches(Append(stk, x), nest, blocks)
<1>1. PICK pos : Places(stk, nest, blocks, pos)  BY DEF Matches
<1> DEFINE t == Append(stk, x)
<1>2. /\ t \in Seq(Labels) /\ Len(t) = Len(stk) + 1 /\ Len(stk) \in Nat /\ Len(nest) \in Nat
      /\ \A i \in 1..Len(stk) : t[i] = stk[i]
      /\ t[Len(stk) + 1] = x
  BY AppendIs
<1> HIDE DEF t
<1>3. Places(t, nest, blocks, pos)
  <2>1. \A k \in 1..Len(nest) : pos[k] \in 1..Len(stk)  BY <1>1 DEF Places
  <2>0. \A k \in 1..Len(nest) : pos[k] \in 1..Len(t)  BY <1>2, <2>1
  <2>4. pos \in [1..Len(nest) -> 1..Len(t)]  BY <1>1, <2>0 DEF Places
  <2>2. \A k \in 1..Len(nest) : t[pos[k]] = nest[k] /\ nest[k] \in blocks
    BY <1>1, <1>2, <2>1 DEF Places
  <2>3. ASSUME NEW i \in 1..Len(t), t[i] \in blocks PROVE \E k \in 1..Len(nest) : pos[k] = i
    <3>1. i # Len(stk) + 1  BY <1>2, <2>3
    <3>2. i \in 1..Len(stk)  BY <1>2, <3>1
    <3> QED BY <1>1, <1>2, <2>3, <3>2 DEF Places
  <2> QED BY <1>1, <2>2, <2>3, <2>4 DEF Places
<1> QED BY <1>3 DEF Matches, t

LEMMA MatchesBlock ==
  ASSUME NEW stk \in Seq(Labels), NEW nest \in Seq(Labels), NEW blocks, NEW x \in Labels,
         x \in blocks, Matches(stk, nest, blocks)
  PROVE  Matches(Append(stk, x), Append(nest, x), blocks)
<1>1. PICK pos : Places(stk, nest, blocks, pos)  BY DEF Matches
<1> DEFINE t == Append(stk, x)
           m == Append(nest, x)
           at2 == [k \in 1..(Len(nest) + 1) |-> IF k = Len(nest) + 1 THEN Len(stk) + 1 ELSE pos[k]]
<1>2. /\ t \in Seq(Labels) /\ Len(t) = Len(stk) + 1 /\ Len(stk) \in Nat
      /\ \A i \in 1..Len(stk) : t[i] = stk[i]
      /\ t[Len(stk) + 1] = x
  BY AppendIs
<1>3. /\ m \in Seq(Labels) /\ Len(m) = Len(nest) + 1 /\ Len(nest) \in Nat
      /\ \A i \in 1..Len(nest) : m[i] = nest[i]
      /\ m[Len(nest) + 1] = x
  BY AppendIs
<1>4. /\ \A k \in 1..Len(nest) : at2[k] = pos[k] /\ pos[k] \in 1..Len(stk)
      /\ at2[Len(nest) + 1] = Len(stk) + 1
      /\ at2 \in [1..Len(m) -> 1..Len(t)]
  <2>1. \A k \in 1..Len(nest) : pos[k] \in 1..Len(stk)  BY <1>1 DEF Places
  <2> QED BY <1>2, <1>3, <2>1
<1> HIDE DEF t, m, at2
<1>5. Places(t, m, blocks, at2)
  <2>1. \A k, l \in 1..Len(m) : k < l => at2[k] < at2[l]
    <3> SUFFICES ASSUME NEW k \in 1..Len(m), NEW l \in 1..Len(m), k < l PROVE at2[k] < at2[l]
      OBVIOUS
    <3>1. k \in 1..Len(nest) /\ at2[k] = pos[k] /\ pos[k] \in 1..Len(stk)  BY <1>3, <1>4
    <3>2. CASE l = Len(nest) + 1  BY <1>2, <1>4, <3>1, <3>2
    <3>3. CASE l \in 1..Len(nest)  BY <1>1, <1>4, <3>1, <3>3 DEF Places
    <3> QED BY <1>3, <3>2, <3>3
  <2>2. \A k \in 1..Len(m) : t[at2[k]] = m[k] /\ m[k] \in blocks
    <3> SUFFICES ASSUME NEW k \in 1..Len(m) PROVE t[at2[k]] = m[k] /\ m[k] \in blocks
      OBVIOUS
    <3>1. CASE k = Len(nest) + 1  BY <1>2, <1>3, <1>4, <3>1
    <3>2. CASE k \in 1..Len(nest)
      <4>1. stk[pos[k]] = nest[k] /\ nest[k] \in blocks  BY <1>1, <3>2 DEF Places
      <4>2. at2[k] = pos[k] /\ t[pos[k]] = stk[pos[k]] /\ m[k] = nest[k]
        BY <1>2, <1>3, <1>4, <3>2
      <4> QED BY <4>1, <4>2
    <3> QED BY <1>3, <3>1, <3>2
  <2>3. ASSUME NEW i \in 1..Len(t), t[i] \in blocks PROVE \E k \in 1..Len(m) : at2[k] = i
    <3>1. CASE i = Len(stk) + 1  BY <1>3, <1>4, <3>1
    <3>2. CASE i \in 1..Len(stk)
      <4>1. PICK k \in 1..Len(nest) : pos[k] = i  BY <1>1, <1>2, <2>3, <3>2 DEF Places
      <4>2. k \in 1..Len(m) /\ at2[k] = i  BY <1>3, <1>4, <4>1
      <4> QED BY <4>2
    <3> QED BY <1>2, <3>1, <3>2
  <2> QED BY <1>4, <2>1, <2>2, <2>3 DEF Places
<1> QED BY <1>5 DEF Matches, t, m

\* The object on top goes.
LEMMA MatchesDestroyed ==
  ASSUME NEW stk \in Seq(Labels), NEW nest \in Seq(Labels), NEW blocks,
         stk # << >>, stk[Len(stk)] \notin blocks, Matches(stk, nest, blocks)
  PROVE  Matches(SubSeq(stk, 1, Len(stk) - 1), nest, blocks)
<1>1. PICK pos : Places(stk, nest, blocks, pos)  BY DEF Matches
<1> DEFINE t == SubSeq(stk, 1, Len(stk) - 1)
<1>2. /\ t \in Seq(Labels) /\ Len(t) = Len(stk) - 1 /\ Len(stk) \in Nat /\ Len(stk) > 0
      /\ \A i \in 1..Len(t) : t[i] = stk[i]
  BY FrontIs
<1> HIDE DEF t
<1>3. \A k \in 1..Len(nest) : pos[k] \in 1..Len(t)
  <2> SUFFICES ASSUME NEW k \in 1..Len(nest) PROVE pos[k] \in 1..Len(t)
    OBVIOUS
  <2>1. pos[k] \in 1..Len(stk) /\ stk[pos[k]] \in blocks  BY <1>1 DEF Places
  <2>2. pos[k] # Len(stk)  BY <2>1
  <2> QED BY <1>2, <2>1, <2>2
<1>4. Places(t, nest, blocks, pos)
  <2>1. pos \in [1..Len(nest) -> 1..Len(t)]  BY <1>1, <1>3 DEF Places
  <2>2. \A k \in 1..Len(nest) : t[pos[k]] = nest[k] /\ nest[k] \in blocks
    BY <1>1, <1>2, <1>3 DEF Places
  <2>3. \A i \in 1..Len(t) : t[i] \in blocks => \E k \in 1..Len(nest) : pos[k] = i
    <3>1. \A i \in 1..Len(t) : i \in 1..Len(stk)  BY <1>2
    <3> QED BY <1>1, <1>2, <3>1 DEF Places
  <2> QED BY <1>1, <2>1, <2>2, <2>3 DEF Places
<1> QED BY <1>4 DEF Matches, t

\* The block on top is the innermost one, and may be left.
LEMMA MatchesLeft ==
  ASSUME NEW stk \in Seq(Labels), NEW nest \in Seq(Labels), NEW blocks,
         stk # << >>, stk[Len(stk)] \in blocks, Matches(stk, nest, blocks)
  PROVE  /\ nest # << >> /\ nest[Len(nest)] = stk[Len(stk)]
         /\ Matches(SubSeq(stk, 1, Len(stk) - 1), SubSeq(nest, 1, Len(nest) - 1), blocks)
<1>1. PICK pos : Places(stk, nest, blocks, pos)  BY DEF Matches
<1> DEFINE t == SubSeq(stk, 1, Len(stk) - 1)
           m == SubSeq(nest, 1, Len(nest) - 1)
<1>2. /\ t \in Seq(Labels) /\ Len(t) = Len(stk) - 1 /\ Len(stk) \in Nat /\ Len(stk) > 0
      /\ \A i \in 1..Len(t) : t[i] = stk[i]
  BY FrontIs
<1>3. PICK top \in 1..Len(nest) : pos[top] = Len(stk)  BY <1>1, <1>2 DEF Places
<1>4. Len(nest) \in Nat /\ Len(nest) > 0 /\ nest # << >>  BY <1>3
<1>5. /\ m \in Seq(Labels) /\ Len(m) = Len(nest) - 1
      /\ \A i \in 1..Len(m) : m[i] = nest[i]
  BY <1>4, FrontIs
<1> HIDE DEF t, m
<1>6. pos[Len(nest)] = Len(stk)
  <2>1. Len(nest) \in 1..Len(nest) /\ pos[Len(nest)] \in 1..Len(stk)  BY <1>1, <1>4 DEF Places
  <2>2. top < Len(nest) => pos[top] < pos[Len(nest)]  BY <1>1, <2>1 DEF Places
  <2>3. top = Len(nest)  BY <1>2, <1>3, <1>4, <2>1, <2>2
  <2> QED BY <1>3, <2>3
<1>7. \A k \in 1..Len(m) : k \in 1..Len(nest) /\ pos[k] \in 1..Len(t)
  <2> SUFFICES ASSUME NEW k \in 1..Len(m) PROVE k \in 1..Len(nest) /\ pos[k] \in 1..Len(t)
    OBVIOUS
  <2>1. k \in 1..Len(nest) /\ Len(nest) \in 1..Len(nest) /\ k < Len(nest)  BY <1>4, <1>5
  <2>2. pos[k] \in 1..Len(stk) /\ pos[k] < pos[Len(nest)]  BY <1>1, <2>1 DEF Places
  <2> QED BY <1>2, <1>6, <2>1, <2>2
<1> DEFINE rest == [k \in 1..Len(m) |-> pos[k]]
<1>8. rest \in [1..Len(m) -> 1..Len(t)] /\ \A k \in 1..Len(m) : rest[k] = pos[k]  BY <1>7
<1> HIDE DEF rest
<1>9. Places(t, m, blocks, rest)
  <2>1. \A k, l \in 1..Len(m) : k < l => rest[k] < rest[l]  BY <1>1, <1>7, <1>8 DEF Places
  <2>2. \A k \in 1..Len(m) : t[rest[k]] = m[k] /\ m[k] \in blocks
    <3> SUFFICES ASSUME NEW k \in 1..Len(m) PROVE t[rest[k]] = m[k] /\ m[k] \in blocks
      OBVIOUS
    <3>1. stk[pos[k]] = nest[k] /\ nest[k] \in blocks  BY <1>1, <1>7 DEF Places
    <3>2. rest[k] = pos[k] /\ t[pos[k]] = stk[pos[k]] /\ m[k] = nest[k]
      BY <1>2, <1>5, <1>7, <1>8
    <3> QED BY <3>1, <3>2
  <2>3. ASSUME NEW i \in 1..Len(t), t[i] \in blocks PROVE \E k \in 1..Len(m) : rest[k] = i
    <3>1. i \in 1..Len(stk) /\ stk[i] \in blocks /\ i < Len(stk)  BY <1>2, <2>3
    <3>2. PICK k \in 1..Len(nest) : pos[k] = i  BY <1>1, <3>1 DEF Places
    <3>3. k # Len(nest)  BY <1>2, <1>6, <3>1, <3>2
    <3>4. k \in 1..Len(m) /\ rest[k] = i  BY <1>4, <1>5, <1>8, <3>2, <3>3
    <3> QED BY <3>4
  <2> QED BY <1>8, <2>1, <2>2, <2>3 DEF Places
<1>10. nest[Len(nest)] = stk[Len(stk)]
  <2>1. stk[pos[Len(nest)]] = nest[Len(nest)]  BY <1>1, <1>4 DEF Places
  <2> QED BY <1>6, <2>1
<1> QED BY <1>4, <1>9, <1>10 DEF Matches, t, m

\* The same, for the innermost of the first m blocks of nest.
LEMMA LeftPrefix ==
  ASSUME NEW stk \in Seq(Labels), NEW nest \in Seq(Labels), NEW blocks, NEW m \in 0..Len(nest),
         stk # << >>, stk[Len(stk)] \in blocks, Matches(stk, SubSeq(nest, 1, m), blocks)
  PROVE  \E n \in Nat :
           /\ n + 1 = m /\ nest[m] = stk[Len(stk)]
           /\ Matches(SubSeq(stk, 1, Len(stk) - 1), SubSeq(nest, 1, n), blocks)
<1> DEFINE first == SubSeq(nest, 1, m)
<1>1. first \in Seq(Labels) /\ Len(first) = m /\ \A i \in 1..m : first[i] = nest[i]
  BY PrefixIs
<1>2. /\ first # << >> /\ first[Len(first)] = stk[Len(stk)]
      /\ Matches(SubSeq(stk, 1, Len(stk) - 1), SubSeq(first, 1, Len(first) - 1), blocks)
  BY <1>1, MatchesLeft
<1>3. PICK n \in Nat : n + 1 = m  BY <1>1, <1>2
<1>4. n <= Len(nest) /\ n <= Len(first) /\ m \in 1..m /\ m - 1 = n  BY <1>1, <1>3
<1>5. SubSeq(first, 1, n) = SubSeq(nest, 1, n)
  <2>1. /\ SubSeq(first, 1, n) \in Seq(Labels) /\ Len(SubSeq(first, 1, n)) = n
        /\ \A i \in 1..n : SubSeq(first, 1, n)[i] = first[i]
    BY <1>1, <1>4, PrefixIs
  <2>2. /\ SubSeq(nest, 1, n) \in Seq(Labels) /\ Len(SubSeq(nest, 1, n)) = n
        /\ \A i \in 1..n : SubSeq(nest, 1, n)[i] = nest[i]
    BY <1>4, PrefixIs
  <2>3. \A i \in 1..n : i \in 1..m  BY <1>3
  <2> HIDE DEF first
  <2> QED BY <1>1, <2>1, <2>2, <2>3
<1> QED BY <1>1, <1>2, <1>3, <1>4, <1>5

\* Each open block is on the stack.
LEMMA MatchesHas ==
  ASSUME NEW stk, NEW nest, NEW blocks, Matches(stk, nest, blocks), NEW k \in 1..Len(nest)
  PROVE  \E i \in 1..Len(stk) : stk[i] = nest[k]
<1>1. PICK pos : Places(stk, nest, blocks, pos)  BY DEF Matches
<1> QED BY <1>1 DEF Places

(* The scripted smokes: the steps of main as events. *)

LEMMA ProgramIs ==
  ASSUME PlaceInv, mode # "idle"
  PROVE  /\ S!Program \in Seq(Instructions) /\ S!Program # << >>
         /\ S!Program = Scripts[smoke][part] /\ part \in DOMAIN Scripts[smoke]
         /\ smoke \in DOMAIN Scripts /\ script # << >>
         /\ script \in Seq(Seq(Instructions) \ {<< >>})
<1>1. Scripts[smoke] \in Seq(Seq(Instructions) \ {<< >>}) \ {<< >>}
  BY ScriptsAssumption DEF PlaceInv
<1>2. script = Scripts[smoke] /\ part \in DOMAIN script /\ S!Program = script[part]
  BY DEF PlaceInv, S!Program
<1>3. script[part] \in Seq(Instructions) \ {<< >>}  BY <1>1, <1>2
<1> QED BY <1>1, <1>2, <1>3 DEF PlaceInv

LEMMA HereIs ==
  ASSUME PlaceInv, mode # "idle"
  PROVE  /\ S!Here \in Instructions /\ S!Here = S!Program[at] /\ S!Here.x \in Labels
         /\ at \in Nat /\ 1 <= at /\ at <= Len(S!Program) /\ Len(S!Program) \in Nat
<1>1. S!Program \in Seq(Instructions) /\ at \in DOMAIN S!Program  BY ProgramIs DEF PlaceInv
<1>2. S!Program[at] \in Instructions  BY <1>1
<1>3. S!Program[at].x \in Labels  BY <1>2 DEF Instructions
<1> QED BY <1>1, <1>2, <1>3 DEF S!Here

LEMMA NothingTold ==
  ASSUME PlaceInv, report' = report, NEW e,
         S!Here.op \notin {"check", "result", "leave"} \/ e \notin {"good", "bad"}
  PROVE  /\ report' \in Reports
         /\ \A line \in {"pass", "fail", "good", "bad", "stray"} :
              report'[line] = IF Told(e, line) THEN report[line] + 1 ELSE report[line]
BY DEF PlaceInv, Told

LEMMA SkipEvent == ASSUME PlaceInv, S!Skip PROVE Event("skip")
BY NothingTold DEF S!Skip, S!Applies, S!Advance, Event, Happens, Events, Result, Leads

LEMMA CallEvent == ASSUME PlaceInv, S!Call PROVE Event("hit") \/ Event("miss")
<1>1. CASE S!Hit
  BY <1>1, NothingTold DEF S!Call, S!Step, S!Applies, S!Advance, S!Hit, Event, Happens, Events,
     Result, Leads, Failing, Giving, Asking, Automatic, Handles
<1>2. CASE S!Miss
  BY <1>2, NothingTold DEF S!Call, S!Step, S!Applies, S!Advance, S!Miss, Event, Happens, Events,
     Result, Leads, Failing, Giving, Asking, Automatic, Handles
<1> QED BY <1>1, <1>2 DEF S!Call

LEMMA InvokeEvent == ASSUME PlaceInv, S!Invoke PROVE Event("hit") \/ Event("miss")
<1>1. CASE S!Hit
  BY <1>1, NothingTold DEF S!Invoke, S!Step, S!Applies, S!Advance, S!Hit, S!Throw, S!Miss, Event,
     Happens, Events, Result, Leads, Failing, Giving, Asking, Automatic, Handles
<1>2. CASE S!Miss
  BY <1>2, NothingTold DEF S!Invoke, S!Step, S!Applies, S!Hit, S!Advance, S!Throw, S!Miss, Event,
     Happens, Events, Result, Leads, Failing, Giving, Asking, Automatic, Handles
<1> QED BY <1>1, <1>2 DEF S!Invoke

LEMMA OpenEvent == ASSUME PlaceInv, S!Open PROVE Event("hit") \/ Event("miss")
<1>1. CASE S!Acquired
  BY <1>1, NothingTold DEF S!Open, S!Step, S!Applies, S!Acquired, S!Advance, S!Hit, S!Throw,
     S!Miss, Event, Happens, Events, Result, Leads, Failing, Giving, Asking, Automatic, Handles
<1>2. CASE S!Miss
  BY <1>2, NothingTold DEF S!Open, S!Step, S!Applies, S!Acquired, S!Advance, S!Hit, S!Throw,
     S!Miss, Event, Happens, Events, Result, Leads, Failing, Giving, Asking, Automatic, Handles
<1> QED BY <1>1, <1>2 DEF S!Open

LEMMA HoldEvent == ASSUME PlaceInv, S!Hold PROVE Event("hit") \/ Event("miss")
<1>1. CASE S!Acquired
  BY <1>1, NothingTold DEF S!Hold, S!Step, S!Applies, S!Acquired, S!Advance, S!Hit, S!Throw,
     S!Miss, Event, Happens, Events, Result, Leads, Failing, Giving, Asking, Automatic, Handles
<1>2. CASE S!Miss
  BY <1>2, NothingTold DEF S!Hold, S!Step, S!Applies, S!Acquired, S!Advance, S!Hit, S!Throw,
     S!Miss, Event, Happens, Events, Result, Leads, Failing, Giving, Asking, Automatic, Handles
<1> QED BY <1>1, <1>2 DEF S!Hold

LEMMA OwnEvent == ASSUME PlaceInv, S!Own PROVE Event("hit") \/ Event("miss")
<1>1. CASE S!Acquired
  BY <1>1, NothingTold DEF S!Own, S!Step, S!Applies, S!Acquired, S!Advance, S!Hit, S!Throw, S!Miss,
     Event, Happens, Events, Result, Leads, Failing, Giving, Asking, Automatic, Handles
<1>2. CASE S!Miss
  BY <1>2, NothingTold DEF S!Own, S!Step, S!Applies, S!Acquired, S!Advance, S!Hit, S!Throw, S!Miss,
     Event, Happens, Events, Result, Leads, Failing, Giving, Asking, Automatic, Handles
<1> QED BY <1>1, <1>2 DEF S!Own

LEMMA MarkEvent == ASSUME PlaceInv, S!Mark PROVE Event("hit")
BY NothingTold DEF S!Mark, S!Step, S!Applies, S!Advance, Event, Happens, Events, Result, Leads,
   Failing, Giving, Asking, Automatic, Handles

LEMMA PlainEvent ==
  ASSUME PlaceInv, S!Use \/ S!Attach \/ S!Close \/ S!OpenBlock \/ S!CloseBlock \/ (S!Insert /\ mode' # "ended")
  PROVE  Event("plain")
<1>1. CASE S!Use \/ S!Attach
  BY <1>1, NothingTold DEF S!Use, S!Attach, S!Step, S!Applies, S!Advance, Event, Happens, Events,
     Result, Leads, Failing, Giving, Asking, Automatic, Handles
<1>2. CASE S!Close
  BY <1>2, NothingTold DEF S!Close, S!Release, S!Step, S!Applies, S!Advance, Event, Happens,
     Events, Result, Leads, Failing, Giving, Asking, Automatic, Handles, ByHand
<1>3. CASE S!OpenBlock
  BY <1>3, NothingTold DEF S!OpenBlock, S!Opening, S!Step, S!Applies, S!Advance, Event, Happens,
     Events, Result, Leads, Failing, Giving, Asking, Automatic, Handles
<1>4. CASE S!CloseBlock
  BY <1>4, NothingTold DEF S!CloseBlock, S!Top, S!Pop, S!Step, S!Applies, S!Advance, Event,
     Happens, Events, Result, Leads, Failing, Giving, Asking, Automatic, Handles
<1>5. CASE S!Insert /\ mode' # "ended"
  BY <1>5, NothingTold DEF S!Insert, S!Step, S!Applies, S!Advance, Event, Happens, Events, Result,
     Leads, Failing, Giving, Asking, Automatic, Handles
<1> QED BY <1>1, <1>2, <1>3, <1>4, <1>5

LEMMA DemandEvent == ASSUME PlaceInv, S!Demand PROVE Event("good") \/ Event("bad")
<1>1. CASE S!Here.on \subseteq facts
  BY <1>1, NothingTold DEF S!Demand, S!Step, S!Applies, S!Advance, Event, Happens, Events, Result,
     Leads, Failing, Giving, Asking, Automatic, Handles
<1>2. CASE ~(S!Here.on \subseteq facts)
  BY <1>2, NothingTold DEF S!Demand, S!Step, S!Applies, S!Throw, Event, Happens, Events, Result,
     Leads, Failing, Giving, Asking, Automatic, Handles
<1> QED BY <1>1, <1>2

LEMMA LineTold ==
  ASSUME PlaceInv, NEW line \in {"pass", "fail", "good", "bad", "stray"}, S!Told(line)
  PROVE  /\ report' \in Reports
         /\ report'[line] = report[line] + 1
         /\ \A other \in {"pass", "fail", "good", "bad", "stray"} \ {line} : report'[other] = report[other]
BY DEF PlaceInv, Reports, S!Told

LEMMA CheckEvent == ASSUME PlaceInv, S!Check PROVE Event("good") \/ Event("bad")
<1>1. CASE S!Here.on \subseteq facts
  <2>1. S!Told("pass")  BY <1>1 DEF S!Check
  <2>2. \A line \in {"pass", "fail", "good", "bad", "stray"} :
          report'[line] = IF Told("good", line) THEN report[line] + 1 ELSE report[line]
    BY <2>1, LineTold DEF Told, S!Check, S!Step
  <2> QED BY <1>1, <2>1, <2>2, LineTold DEF S!Check, S!Step, S!Applies, S!Advance, Event, Happens,
       Events, Result, Leads, Failing, Giving, Asking, Automatic, Handles
<1>2. CASE ~(S!Here.on \subseteq facts)
  <2>1. S!Told("fail")  BY <1>2 DEF S!Check
  <2>2. \A line \in {"pass", "fail", "good", "bad", "stray"} :
          report'[line] = IF Told("bad", line) THEN report[line] + 1 ELSE report[line]
    BY <2>1, LineTold DEF Told, S!Check, S!Step
  <2> QED BY <1>2, <2>1, <2>2, LineTold DEF S!Check, S!Step, S!Applies, S!Advance, Event, Happens,
       Events, Result, Leads, Failing, Giving, Asking, Automatic, Handles
<1> QED BY <1>1, <1>2

LEMMA ResultEvent == ASSUME PlaceInv, S!Result PROVE Event("good") \/ Event("bad")
<1>1. CASE S!Here.on \subseteq facts
  <2>1. S!Told("good")  BY <1>1 DEF S!Result
  <2>2. \A line \in {"pass", "fail", "good", "bad", "stray"} :
          report'[line] = IF Told("good", line) THEN report[line] + 1 ELSE report[line]
    BY <2>1, LineTold DEF Told, S!Result, S!Step
  <2> QED BY <1>1, <2>1, <2>2, LineTold DEF S!Result, S!Step, S!Applies, S!Advance, Event, Happens,
       Events, Result, Leads, Failing, Giving, Asking, Automatic, Handles
<1>2. CASE ~(S!Here.on \subseteq facts)
  <2>1. S!Told("bad")  BY <1>2 DEF S!Result
  <2>2. \A line \in {"pass", "fail", "good", "bad", "stray"} :
          report'[line] = IF Told("bad", line) THEN report[line] + 1 ELSE report[line]
    BY <2>1, LineTold DEF Told, S!Result, S!Step
  <2> QED BY <1>2, <2>1, <2>2, LineTold DEF S!Result, S!Step, S!Applies, S!Advance, Event, Happens,
       Events, Result, Leads, Failing, Giving, Asking, Automatic, Handles
<1> QED BY <1>1, <1>2

LEMMA LeaveEvent == ASSUME PlaceInv, S!Leave PROVE Event("good") \/ Event("bad")
<1>1. CASE S!Here.on \subseteq facts
  <2>1. report' = report /\ S!Here.op = "leave"  BY <1>1 DEF S!Leave, S!Step
  <2>2. \A line \in {"pass", "fail", "good", "bad", "stray"} :
          report'[line] = IF Told("good", line) THEN report[line] + 1 ELSE report[line]
    BY <2>1 DEF Told
  <2> QED BY <1>1, <2>1, <2>2 DEF PlaceInv, S!Leave, S!Step, S!Applies, S!Advance, Event, Happens,
       Events, Result, Leads, Failing, Giving, Asking, Automatic, Handles
<1>2. CASE ~(S!Here.on \subseteq facts)
  <2>1. S!Here.op = "leave" /\ report' = [report EXCEPT
               !.fail  = IF S!Here.x = "check and result" THEN @ + 1 ELSE @,
               !.bad   = IF S!Here.x \in {"result", "check and result"} THEN @ + 1 ELSE @,
               !.stray = IF S!Here.x = "stderr" THEN @ + 1 ELSE @]
    BY <1>2 DEF S!Leave, S!Step
  <2>2. report' \in Reports
    <3>1. report \in Reports  BY DEF PlaceInv
    <3>2. /\ (IF S!Here.x = "check and result" THEN report.fail + 1 ELSE report.fail) \in Nat
          /\ (IF S!Here.x \in {"result", "check and result"} THEN report.bad + 1 ELSE report.bad) \in Nat
          /\ (IF S!Here.x = "stderr" THEN report.stray + 1 ELSE report.stray) \in Nat
      <4>1. /\ report.fail \in Nat /\ report.bad \in Nat /\ report.stray \in Nat
            /\ report.fail + 1 \in Nat /\ report.bad + 1 \in Nat /\ report.stray + 1 \in Nat
        BY <3>1 DEF Reports
      <4> QED BY <4>1, Zenon
    <3> QED BY <2>1, <3>1, <3>2 DEF Reports
  <2>3. \A line \in {"pass", "fail", "good", "bad", "stray"} :
          report'[line] = IF Told("bad", line) THEN report[line] + 1 ELSE report[line]
    BY <2>1 DEF PlaceInv, Reports, Told
  <2> QED
    BY <1>2, <2>2, <2>3 DEF S!Leave, S!Step, S!Applies, Event, Happens, Events, Result, Leads,
       Failing, Giving, Asking, Automatic, Handles
<1> QED BY <1>1, <1>2

LEMMA ReturnEvent == ASSUME PlaceInv, S!Return PROVE Event("good") \/ Event("bad")
<1>1. S!Here.op = "return" /\ report' = report  BY DEF S!Return, S!Step
<1>2. \A e \in {"good", "bad"} : \A line \in {"pass", "fail", "good", "bad", "stray"} :
        report'[line] = IF Told(e, line) THEN report[line] + 1 ELSE report[line]
  BY <1>1 DEF Told
<1>3. CASE S!Here.on \subseteq facts
  BY <1>1, <1>2, <1>3 DEF PlaceInv, S!Return, S!Step, S!Applies, Event, Happens, Events, Result,
     Leads, Failing, Giving, Asking, Automatic, Handles
<1>4. CASE ~(S!Here.on \subseteq facts)
  BY <1>1, <1>2, <1>4 DEF PlaceInv, S!Return, S!Step, S!Applies, Event, Happens, Events, Result,
     Leads, Failing, Giving, Asking, Automatic, Handles
<1> QED BY <1>3, <1>4

(* The scripted smokes: what is known at each instruction. *)

LEMMA RulesKept ==
  ASSUME PlaceInv, mode # "idle"
  PROVE  /\ WellNested(S!Program, Table) /\ NoOwner(S!Program)
         /\ Follows(S!Program, Table) /\ ReturnsDeserved(S!Program, Table)
<1>1. /\ S!Program = Scripts[smoke][part] /\ part \in DOMAIN Scripts[smoke]
      /\ smoke \in DOMAIN Scripts
  BY ProgramIs
<1>2. WellNested(Scripts[smoke][part], Knowledge[smoke][part])  BY <1>1, NestingAssumption
<1>3. /\ NoOwner(Scripts[smoke][part]) /\ Follows(Scripts[smoke][part], Knowledge[smoke][part])
      /\ ReturnsDeserved(Scripts[smoke][part], Knowledge[smoke][part])
  BY <1>1, KnowledgeAssumption
<1> QED BY <1>1, <1>2, <1>3 DEF Table

LEMMA TraceForms ==
  ASSUME NEW p, NEW t \in Traces(p)
  PROVE  \/ t = Always \/ t = Trace("sound", "") \/ t = Trace("clean", "") \/ t = Trace("bad", "")
         \/ t = Trace("unchecked", "") \/ t = Trace("open", "") \/ t = Trace("given", "")
         \/ \E y \in NamesOf(p, Failing) \ Tolerated : t = Trace("missed", y)
         \/ \E y \in NamesOf(p, ByHand) : t = Trace("live", y)
         \/ \E y \in NamesOf(p, ByHand) : t = Trace("dead", y)
BY DEF Traces

LEMMA AlwaysThere == \A p : Always \in Traces(p) /\ Present(Always)
BY DEF Traces, Trace, Always, Present

\* The lines of the report, by what happens.
LEMMA CleanAfter ==
  ASSUME PlaceInv, NEW e, Event(e), Leads(S!Here, e) # "leave"
  PROVE  /\ Clean' <=> Clean /\ ~(e = "bad" /\ S!Here.op \in {"check", "result"})
         /\ report'.pass = 0 => report.pass = 0 /\ ~(e = "good" /\ S!Here.op = "check")
         /\ report'.good = 0 => report.good = 0 /\ ~(e = "good" /\ S!Here.op = "result")
         /\ report'.good > 0 => report.good > 0 \/ (e = "good" /\ S!Here.op = "result")
<1>1. report \in Reports  BY DEF PlaceInv
<1>2. \A line \in {"pass", "fail", "good", "bad", "stray"} :
        report'[line] = IF Told(e, line) THEN report[line] + 1 ELSE report[line]
  BY DEF Event
<1>3. ~(S!Here.op = "leave" /\ e = "bad")  BY DEF Leads
<1>4. /\ report.pass \in Nat /\ report.fail \in Nat /\ report.good \in Nat
      /\ report.bad \in Nat /\ report.stray \in Nat
  BY <1>1 DEF Reports
<1>5. /\ Told(e, "pass") <=> e = "good" /\ S!Here.op = "check"
      /\ Told(e, "good") <=> e = "good" /\ S!Here.op = "result"
      /\ Told(e, "fail") <=> e = "bad" /\ S!Here.op = "check"
      /\ Told(e, "bad") <=> e = "bad" /\ S!Here.op = "result"
      /\ ~Told(e, "stray")
  BY <1>3 DEF Told
<1>6. /\ report'.pass = IF Told(e, "pass") THEN report.pass + 1 ELSE report.pass
      /\ report'.fail = IF Told(e, "fail") THEN report.fail + 1 ELSE report.fail
      /\ report'.good = IF Told(e, "good") THEN report.good + 1 ELSE report.good
      /\ report'.bad = IF Told(e, "bad") THEN report.bad + 1 ELSE report.bad
      /\ report'.stray = IF Told(e, "stray") THEN report.stray + 1 ELSE report.stray
  BY <1>2
<1>7. /\ report'.pass = 0 => report.pass = 0 /\ ~Told(e, "pass")
      /\ report'.good = 0 => report.good = 0 /\ ~Told(e, "good")
      /\ report'.good > 0 => report.good > 0 \/ Told(e, "good")
      /\ report'.fail = 0 <=> report.fail = 0 /\ ~Told(e, "fail")
      /\ report'.bad = 0 <=> report.bad = 0 /\ ~Told(e, "bad")
      /\ report'.stray = 0 <=> report.stray = 0
  BY <1>4, <1>5, <1>6
<1> QED BY <1>5, <1>7 DEF Clean

LEMMA TraceIs ==
  /\ \A of, x : Trace(of, x).of = of /\ Trace(of, x).x = x
  /\ \A of, x, y : Trace(of, x) = Trace(of, y) => x = y
BY DEF Trace

LEMMA RemovedForms ==
  ASSUME NEW ins, NEW e, NEW t \in Removes(ins, e)
  PROVE  \/ t.of \in {"sound", "clean", "unchecked", "open"}
         \/ t = Trace("live", ins.x) /\ e = "plain" /\ ins.op = "close"
         \/ t = Trace("dead", ins.x) /\ e = "hit" /\ ins.op \in ByHand
<1>1. \/ t = Trace("sound", "") \/ t = Trace("clean", "") \/ t = Trace("unchecked", "")
      \/ t = Trace("open", "") \/ (e = "plain" /\ ins.op = "close" /\ t = Trace("live", ins.x))
      \/ (e = "hit" /\ ins.op \in ByHand /\ t = Trace("dead", ins.x))
  BY Zenon DEF Removes
<1>2. /\ Trace("sound", "").of = "sound" /\ Trace("clean", "").of = "clean"
      /\ Trace("unchecked", "").of = "unchecked" /\ Trace("open", "").of = "open"
  BY TraceIs
<1> QED BY <1>1, <1>2, Zenon

\* A trace that is there has been there before, or is left by what happens.
LEMMA TracesAfter ==
  ASSUME PlaceInv, NEW e, Event(e), Leads(S!Here, e) # "leave", NoOwner(S!Program),
         NEW t \in Traces(S!Program), Present(t)'
  PROVE  \/ Present(t) /\ t \notin Removes(S!Here, e)
         \/ t \in Leaves(S!Here, e)
<1>0. mode = "run" /\ mode # "idle"  BY DEF Event
<1>1. CASE t = Always  BY <1>1 DEF Present, Removes, Always, Trace
<1>2. CASE t = Trace("sound", "")
  <2>1. missed' = {} /\ missed' = IF e = "miss" THEN missed \cup {S!Here.x} ELSE missed
    BY <1>2 DEF Present, Trace, Event
  <2>2. missed = {} /\ e # "miss"  BY <2>1
  <2> QED BY <1>2, <2>2 DEF Present, Removes, Trace
<1>3. CASE t = Trace("clean", "")
  <2>1. Clean'  BY <1>3 DEF Present, Trace
  <2> QED BY <1>3, <2>1, CleanAfter DEF Present, Removes, Trace
<1>4. CASE t = Trace("bad", "")
  <2>1. ~Clean'  BY <1>4 DEF Present, Trace
  <2> QED BY <1>4, <2>1, CleanAfter DEF Present, Removes, Leaves, Trace
<1>5. CASE t = Trace("unchecked", "")
  <2>1. report'.pass = 0  BY <1>5 DEF Present, Trace
  <2> QED BY <1>5, <2>1, CleanAfter DEF Present, Removes, Trace
<1>6. CASE t = Trace("open", "")
  <2>1. report'.good = 0  BY <1>6 DEF Present, Trace
  <2> QED BY <1>6, <2>1, CleanAfter DEF Present, Removes, Trace
<1>7. CASE t = Trace("given", "")
  <2>1. report'.good > 0  BY <1>7 DEF Present, Trace
  <2> QED BY <1>7, <2>1, CleanAfter DEF Present, Removes, Leaves, Trace
<1>8. CASE \E y \in NamesOf(S!Program, Failing) \ Tolerated : t = Trace("missed", y)
  <2>0. PICK y : t = Trace("missed", y)  BY <1>8
  <2>3. t.of = "missed" /\ t.x = y  BY <2>0 DEF Trace
  <2>1. t.x \in missed'  BY <2>3 DEF Present
  <2>2. t.x \in missed \/ (e = "miss" /\ t.x = S!Here.x)  BY <2>1 DEF Event
  <2>4. t.x \in missed => Present(t) /\ t \notin Removes(S!Here, e)
    <3>1. t \notin Removes(S!Here, e)  BY <2>3, RemovedForms, TraceIs
    <3> QED BY <2>3, <3>1 DEF Present
  <2> QED BY <2>0, <2>2, <2>3, <2>4 DEF Leaves
<1>9. CASE \E y \in NamesOf(S!Program, ByHand) : t = Trace("live", y)
  <2>0. PICK y \in NamesOf(S!Program, ByHand) : t = Trace("live", y)  BY <1>9
  <2>4. t.of = "live" /\ t.x = y  BY <2>0 DEF Trace
  <2>1. t.x \in live'  BY <2>4 DEF Present
  <2>2. \/ t.x \in live /\ ~(e = "plain" /\ S!Here.op = "close" /\ t.x = S!Here.x)
        \/ e = "hit" /\ S!Here.op \in Handles /\ t.x = S!Here.x
    BY <2>1 DEF Event
  <2>3. ASSUME e = "hit", S!Here.op \in Handles, t.x = S!Here.x PROVE S!Here.op \in ByHand
    <3>1. S!Here = S!Program[at] /\ at \in DOMAIN S!Program  BY <1>0, HereIs DEF PlaceInv
    <3>2. S!Here.op \in Automatic => S!Here.x \in NamesOf(S!Program, Automatic)
      BY <3>1 DEF NamesOf
    <3> QED BY <2>3, <2>4, <3>2 DEF NoOwner, Handles, ByHand, Automatic
  <2>5. t.x \in live /\ ~(e = "plain" /\ S!Here.op = "close" /\ t.x = S!Here.x) =>
          Present(t) /\ t \notin Removes(S!Here, e)
    <3>1. t.x \in live => Present(t)  BY <2>4 DEF Present
    <3>2. t \in Removes(S!Here, e) => e = "plain" /\ S!Here.op = "close" /\ t.x = S!Here.x
      BY <2>0, <2>4, RemovedForms, TraceIs
    <3> QED BY <3>1, <3>2
  <2>6. e = "hit" /\ S!Here.op \in ByHand /\ t.x = S!Here.x => t \in Leaves(S!Here, e)
    BY <2>0, <2>4 DEF Leaves
  <2> QED BY <2>2, <2>3, <2>5, <2>6
<1>10. CASE \E y \in NamesOf(S!Program, ByHand) : t = Trace("dead", y)
  <2>0. PICK y \in NamesOf(S!Program, ByHand) : t = Trace("dead", y)  BY <1>10
  <2>1. t.of = "dead" /\ t.x = y  BY <2>0 DEF Trace
  <2>2. y \notin live'  BY <2>1 DEF Present
  <2>3. /\ ~(e = "hit" /\ S!Here.op \in Handles /\ y = S!Here.x)
        /\ y \in live => e = "plain" /\ S!Here.op = "close" /\ y = S!Here.x
    BY <2>2 DEF Event
  <2>4. y \in live => t \in Leaves(S!Here, e)  BY <2>0, <2>3 DEF Leaves
  <2>5. t \in Removes(S!Here, e) => e = "hit" /\ S!Here.op \in ByHand /\ y = S!Here.x
    BY <2>0, <2>1, RemovedForms, TraceIs
  <2>6. ByHand \subseteq Handles  BY DEF ByHand, Handles
  <2>7. y \notin live => Present(t)  BY <2>1 DEF Present
  <2> QED BY <2>3, <2>4, <2>5, <2>6, <2>7
<1> QED BY <1>1, <1>2, <1>3, <1>4, <1>5, <1>6, <1>7, <1>8, <1>9, <1>10, TraceForms

\* What is known after an instruction.
LEMMA KnownAfter ==
  ASSUME PlaceInv, NEW e, Event(e), Leads(S!Here, e) # "leave", Knows(Table[at].run),
         NEW t \in Traces(S!Program), Present(t)'
  PROVE  Sat(IF Leads(S!Here, e) = "next" THEN Table[at + 1].run[t] ELSE Table[at].throw[t], facts')
<1>0. mode = "run" /\ mode # "idle" /\ Happens(S!Here, e, facts)
      /\ facts' = Result(S!Here, e, facts)
  BY DEF Event
<1>1. /\ S!Here = S!Program[at] /\ at \in DOMAIN S!Program /\ e \in Events(S!Here)
      /\ Follows(S!Program, Table) /\ NoOwner(S!Program)
  BY <1>0, HereIs, RulesKept DEF PlaceInv, Happens
<1> DEFINE there == IF Leads(S!Here, e) = "next" THEN Table[at + 1].run[t] ELSE Table[at].throw[t]
<1>2. /\ May(S!Here, e, Table[at].run[t]) /\ t \notin Removes(S!Here, e) =>
           Covers(there, After(S!Here, e, Table[at].run[t]))
      /\ May(S!Here, e, Table[at].run[Always]) /\ t \in Leaves(S!Here, e) =>
           Covers(there, After(S!Here, e, Table[at].run[Always]))
  BY <1>1 DEF Follows
<1> HIDE DEF there
<1>3. CASE Present(t) /\ t \notin Removes(S!Here, e)
  <2>1. Sat(Table[at].run[t], facts)  BY <1>3 DEF Knows
  <2> QED BY <1>0, <1>2, <1>3, <2>1, SatAfter, SatCovers DEF there
<1>4. CASE t \in Leaves(S!Here, e)
  <2>1. Sat(Table[at].run[Always], facts)  BY AlwaysThere DEF Knows
  <2> QED BY <1>0, <1>2, <1>4, <2>1, SatAfter, SatCovers DEF there
<1> QED BY <1>1, <1>3, <1>4, TracesAfter

(* The scripted smokes: the inductive invariant. *)

LEMMA NamesAre == \A ops : S!Names(ops) = NamesOf(S!Program, ops)
BY DEF S!Names, NamesOf

\* At the end of a block there is a block on the stack.
LEMMA EndsBlock ==
  ASSUME ScriptInv, mode = "run", S!Here.op \in {"end", "catch"}
  PROVE  stack # << >>
<1>1. Table[at].nest # << >>  BY RulesKept, HereIs DEF ScriptInv, PlaceInv, WellNested
<1>2. Table[at].nest \in Seq(Labels) /\ Matches(stack, Table[at].nest, Blocks) /\ stack \in Seq(Labels)
  BY DEF ScriptInv, NestInv, PlaceInv
<1>3. 1 \in 1..Len(Table[at].nest)  BY <1>1, <1>2
<1>4. \E i \in 1..Len(stack) : stack[i] = Table[at].nest[1]  BY <1>2, <1>3, MatchesHas
<1> QED BY <1>2, <1>4

\* The last instruction has no next one.
LEMMA NextThere ==
  ASSUME ScriptInv, NEW e, Event(e), Leads(S!Here, e) = "next"
  PROVE  at + 1 \in DOMAIN S!Program /\ at < Len(S!Program)
<1>0. mode = "run" /\ Happens(S!Here, e, facts)  BY DEF Event
<1>1. /\ S!Program \in Seq(Instructions) /\ S!Here = S!Program[at]
      /\ at \in Nat /\ 1 <= at /\ at <= Len(S!Program) /\ Len(S!Program) \in Nat
  BY <1>0, ProgramIs, HereIs DEF ScriptInv
<1>2. ASSUME at = Len(S!Program) PROVE FALSE
  <2>1. /\ S!Here.when = {} /\ S!Here.unless = {}
        /\ S!Here.op = "return" \/ (S!Here.op = "leave" /\ "never" \in S!Here.on)
        /\ "never" \notin NamesOf(S!Program, Giving) \cup {"bSuccess"}
    BY <1>0, <1>1, <1>2, RulesKept DEF ScriptInv, WellNested
  <2>2. "never" \notin facts  BY <1>0, <2>1 DEF ScriptInv, NameInv
  <2>3. e \in {"good", "bad"}  BY <1>0, <2>1 DEF Happens, Events, Giving, Failing, Asking
  <2>4. S!Here.op = "leave" => e = "bad"  BY <1>0, <2>1, <2>2, <2>3 DEF Happens
  <2> QED BY <2>1, <2>3, <2>4 DEF Leads
<1>3. at < Len(S!Program)  BY <1>1, <1>2
<1> QED BY <1>1, <1>3

LEMMA PlaceEvent == ASSUME ScriptInv, NEW e, Event(e) PROVE PlaceInv'
<1>0. mode = "run" /\ mode # "idle" /\ PlaceInv  BY DEF Event, ScriptInv
<1>1. S!Here.x \in Labels /\ stack \in Seq(Labels)  BY <1>0, HereIs DEF PlaceInv
<1>2. stack' \in Seq(Labels)
  <2>1. Append(stack, S!Here.x) \in Seq(Labels)  BY <1>1, AppendIs
  <2>2. S!Here.op \in {"end", "catch"} => SubSeq(stack, 1, Len(stack) - 1) \in Seq(Labels)
    BY <1>0, <1>1, EndsBlock, FrontIs
  <2> QED BY <1>1, <2>1, <2>2 DEF Event
<1>3. /\ S!Program' = S!Program /\ smoke' \in DOMAIN Scripts /\ script' = Scripts[smoke']
      /\ part' \in DOMAIN script' /\ report' \in Reports
  BY <1>0 DEF Event, PlaceInv, S!Program
<1>4. Leads(S!Here, e) \in {"next", "throw", "leave"}  BY DEF Leads
<1>5. mode' \in {"run", "throw", "leave"} /\ exit' \in {0, 1, 3} /\ at' \in DOMAIN S!Program
  BY <1>0, <1>4, NextThere DEF Event, PlaceInv
<1> QED BY <1>2, <1>3, <1>5 DEF PlaceInv

LEMMA NestEvent == ASSUME ScriptInv, NEW e, Event(e) PROVE NestInv'
<1>0. mode = "run" /\ mode # "idle" /\ PlaceInv /\ Happens(S!Here, e, facts)
  BY DEF Event, ScriptInv
<1> DEFINE nest == Table[at].nest
<1>1. /\ nest \in Seq(Labels) /\ Matches(stack, nest, Blocks) /\ stack \in Seq(Labels)
      /\ S!Here.x \in Labels /\ S!Here = S!Program[at] /\ at \in DOMAIN S!Program
  BY <1>0, HereIs DEF ScriptInv, NestInv, PlaceInv
<1>2. Table' = Table /\ Blocks' = Blocks /\ Tries' = Tries
  BY DEF Event, Table, Blocks, Tries, S!Program
<1> HIDE DEF nest
<1>3. CASE Leads(S!Here, e) = "next"
  <2>1. Table[at + 1].nest = Nested(S!Here, nest)
    BY <1>0, <1>1, <1>3, RulesKept, NextThere DEF WellNested, nest
  <2>2. CASE S!Here.op \in {"block", "try"}
    <3>1. e = "plain"
      BY <1>0, <1>1, <2>2, RulesKept DEF Happens, Events, Giving, Failing, Asking, WellNested
    <3>2. stack' = Append(stack, S!Here.x) /\ Nested(S!Here, nest) = Append(nest, S!Here.x)
      BY <2>2, <3>1 DEF Event, Nested
    <3>3. S!Here.x \in Blocks  BY <1>1, <2>2 DEF Blocks, NamesOf
    <3>4. Append(nest, S!Here.x) \in Seq(Labels) /\ Matches(Append(stack, S!Here.x), Append(nest, S!Here.x), Blocks)
      BY <1>1, <3>3, AppendIs, MatchesBlock
    <3> QED BY <1>2, <1>3, <2>1, <3>2, <3>4 DEF Event, NestInv
  <2>3. CASE S!Here.op \in {"end", "catch"}
    <3>1. e = "plain"
      BY <1>0, <1>1, <2>3, RulesKept DEF Happens, Events, Giving, Failing, Asking, WellNested
    <3>2. /\ stack' = SubSeq(stack, 1, Len(stack) - 1)
          /\ Nested(S!Here, nest) = SubSeq(nest, 1, Len(nest) - 1)
          /\ stack[Len(stack)] \in Blocks
      BY <2>3, <3>1, NamesAre DEF Event, Nested, Blocks, S!Opening
    <3>3. stack # << >>  BY <1>0, <2>3, EndsBlock
    <3>4. nest # << >> /\ Matches(SubSeq(stack, 1, Len(stack) - 1), SubSeq(nest, 1, Len(nest) - 1), Blocks)
      BY <1>1, <3>2, <3>3, MatchesLeft
    <3>5. SubSeq(nest, 1, Len(nest) - 1) \in Seq(Labels)  BY <1>1, <3>4, FrontIs
    <3> QED BY <1>2, <1>3, <2>1, <3>2, <3>4, <3>5 DEF Event, NestInv
  <2>4. CASE S!Here.op \notin {"block", "try", "end", "catch"}
    <3>1. Nested(S!Here, nest) = nest  BY <2>4 DEF Nested
    <3>2. CASE e = "hit" /\ S!Here.op \in Automatic
      <4>1. S!Here.x \notin Blocks
        <5>1. S!Here.x \in NamesOf(S!Program, Automatic)  BY <1>1, <3>2 DEF NamesOf
        <5> QED BY <1>0, <5>1, RulesKept DEF WellNested, Blocks
      <4>2. Matches(Append(stack, S!Here.x), nest, Blocks)  BY <1>1, <4>1, MatchesObject
      <4> QED BY <1>1, <1>2, <1>3, <2>1, <3>1, <3>2, <4>2 DEF Event, NestInv
    <3>3. CASE ~(e = "hit" /\ S!Here.op \in Automatic)
      <4>1. stack' = stack  BY <2>4, <3>3 DEF Event
      <4> QED BY <1>1, <1>2, <1>3, <2>1, <3>1, <4>1 DEF Event, NestInv
    <3> QED BY <3>2, <3>3
  <2> QED BY <2>2, <2>3, <2>4
<1>4. CASE Leads(S!Here, e) = "throw"
  <2>1. /\ mode' = "throw" /\ at' = at /\ stack' = stack  BY <1>4 DEF Event, Leads, Automatic
  <2>2. SubSeq(nest, 1, Len(nest)) = nest /\ Len(nest) \in 0..Len(nest)  BY <1>1
  <2>3. (Len(nest) + 1)..Len(nest) = {}  BY <1>1
  <2> QED BY <1>1, <1>2, <2>1, <2>2, <2>3 DEF NestInv, nest
<1>5. CASE Leads(S!Here, e) = "leave"  BY <1>5 DEF Event, NestInv
<1> QED BY <1>3, <1>4, <1>5 DEF Leads

LEMMA KnownEvent == ASSUME ScriptInv, NEW e, Event(e) PROVE KnownInv'
<1>0. mode = "run" /\ mode # "idle" /\ PlaceInv /\ Knows(Table[at].run)
  BY DEF Event, ScriptInv, KnownInv
<1>2. Table' = Table /\ S!Program' = S!Program  BY DEF Event, Table, S!Program
<1>3. CASE Leads(S!Here, e) = "next"
  <2>1. \A t \in Traces(S!Program) : Present(t)' => Sat(Table[at + 1].run[t], facts')
    BY <1>0, <1>3, KnownAfter
  <2> QED BY <1>2, <1>3, <2>1 DEF Event, KnownInv, Knows
<1>4. CASE Leads(S!Here, e) = "throw"
  <2>1. \A t \in Traces(S!Program) : Present(t)' => Sat(Table[at].throw[t], facts')
    BY <1>0, <1>4, KnownAfter
  <2> QED BY <1>2, <1>4, <2>1 DEF Event, KnownInv, Knows
<1>5. CASE Leads(S!Here, e) = "leave"  BY <1>5 DEF Event, KnownInv
<1> QED BY <1>3, <1>4, <1>5 DEF Leads

LEMMA NameEvent == ASSUME ScriptInv, NEW e, Event(e) PROVE NameInv'
<1>0. /\ mode = "run" /\ mode # "idle" /\ PlaceInv /\ Happens(S!Here, e, facts)
      /\ e \in Events(S!Here) /\ mode' # "idle"
  BY DEF Event, ScriptInv, Happens, Leads
<1>1. /\ S!Here = S!Program[at] /\ at \in DOMAIN S!Program /\ S!Here.x \in Labels
      /\ stack \in Seq(Labels)
  BY <1>0, HereIs DEF PlaceInv
<1>2. /\ S!Program' = S!Program /\ Blocks' = Blocks
      /\ facts \subseteq NamesOf(S!Program, Giving) \cup {"bSuccess"} /\ exit = 1
      /\ missed \subseteq NamesOf(S!Program, Failing) \cup Tolerated
  BY <1>0 DEF Event, S!Program, Blocks, ScriptInv, NameInv
<1>3. facts' \subseteq NamesOf(S!Program, Giving) \cup {"bSuccess"}
  <2>1. e = "hit" => S!Here.x \in NamesOf(S!Program, Giving)
    BY <1>0, <1>1 DEF Events, NamesOf, Giving, Failing, Asking
  <2>2. facts' = Result(S!Here, e, facts)  BY DEF Event
  <2> QED BY <1>2, <2>1, <2>2 DEF Result
<1>4. missed' \subseteq NamesOf(S!Program, Failing) \cup Tolerated
  <2>1. e = "miss" => S!Here.x \in NamesOf(S!Program, Failing)
    BY <1>0, <1>1 DEF Events, NamesOf, Giving, Failing, Asking
  <2> QED BY <1>2, <2>1 DEF Event
<1>5. mode' \in {"run", "throw"} => exit' = 1  BY <1>2 DEF Event, Leads
<1>6. ASSUME NEW y \in live'
      PROVE  \/ y \in NamesOf(S!Program, ByHand)
             \/ y \notin Blocks /\ \E i \in 1..Len(stack') : stack'[i] = y
  <2>1. CASE e = "hit" /\ S!Here.op \in Handles /\ y = S!Here.x
    <3>1. CASE S!Here.op \in ByHand  BY <1>1, <2>1, <3>1 DEF NamesOf
    <3>2. CASE S!Here.op \notin ByHand
      <4>1. S!Here.op \in Automatic  BY <2>1, <3>2 DEF Handles, ByHand, Automatic
      <4>2. stack' = Append(stack, S!Here.x)  BY <2>1, <4>1 DEF Event
      <4>3. S!Here.x \in NamesOf(S!Program, Automatic)  BY <1>1, <4>1 DEF NamesOf
      <4>4. S!Here.x \notin Blocks  BY <1>0, <4>3, RulesKept DEF WellNested, Blocks
      <4>5. Len(stack') = Len(stack) + 1 /\ Len(stack) \in Nat /\ stack'[Len(stack) + 1] = S!Here.x
        BY <1>1, <4>2, AppendIs
      <4>6. Len(stack) + 1 \in 1..Len(stack')  BY <4>5
      <4> QED BY <2>1, <4>4, <4>5, <4>6
    <3> QED BY <3>1, <3>2
  <2>2. CASE ~(e = "hit" /\ S!Here.op \in Handles /\ y = S!Here.x) /\ y \notin NamesOf(S!Program, ByHand)
    <3>1. y \in live  BY <2>2 DEF Event
    <3>2. PICK i \in 1..Len(stack) : stack[i] = y /\ y \notin Blocks
      BY <1>0, <2>2, <3>1 DEF ScriptInv, NameInv
    <3>3. CASE stack' = Append(stack, S!Here.x)
      <4>1. i \in 1..Len(stack') /\ stack'[i] = y  BY <1>1, <3>2, <3>3, AppendIs
      <4> QED BY <3>2, <4>1
    <3>4. CASE stack' = stack  BY <3>2, <3>4
    <3>5. CASE e = "plain" /\ S!Here.op \in {"end", "catch"} /\ stack' = SubSeq(stack, 1, Len(stack) - 1)
      <4>1. stack[Len(stack)] \in Blocks  BY <3>5, NamesAre DEF Event, Blocks, S!Opening
      <4>2. i # Len(stack)  BY <3>2, <4>1
      <4>3. i \in 1..Len(stack') /\ stack'[i] = y
        <5>1. stack # << >>  BY <1>0, <3>5, EndsBlock
        <5>2. /\ Len(stack') = Len(stack) - 1 /\ Len(stack) \in Nat
              /\ \A j \in 1..Len(stack') : stack'[j] = stack[j]
          BY <1>1, <3>5, <5>1, FrontIs
        <5>3. i \in 1..Len(stack')  BY <3>2, <4>2, <5>2
        <5> QED BY <3>2, <5>2, <5>3
      <4> QED BY <3>2, <4>3
    <3> QED BY <3>3, <3>4, <3>5 DEF Event
  <2> QED BY <2>1, <2>2
<1>7. \A y \in live' : \/ y \in NamesOf(S!Program', ByHand)
                       \/ y \notin Blocks' /\ \E i \in 1..Len(stack') : stack'[i] = y
  <2>1. \A y \in live' : \/ y \in NamesOf(S!Program, ByHand)
                         \/ y \notin Blocks /\ \E i \in 1..Len(stack') : stack'[i] = y
    BY <1>6, Zenon
  <2>2. NamesOf(S!Program', ByHand) = NamesOf(S!Program, ByHand)  BY <1>2, Zenon
  <2> QED BY <1>2, <2>1, <2>2
<1>8. /\ facts' \subseteq NamesOf(S!Program', Giving) \cup {"bSuccess"}
      /\ missed' \subseteq NamesOf(S!Program', Failing) \cup Tolerated
  BY <1>2, <1>3, <1>4
<1>9. \A i \in 1..Len(stack') : stack'[i] \in Blocks' \cup NamesOf(S!Program', Automatic)
  <2> SUFFICES ASSUME NEW i \in 1..Len(stack') PROVE stack'[i] \in Blocks \cup NamesOf(S!Program, Automatic)
    BY <1>2
  <2>0. \A j \in 1..Len(stack) : stack[j] \in Blocks \cup NamesOf(S!Program, Automatic)
    BY <1>0 DEF ScriptInv, NameInv
  <2>1. CASE stack' = Append(stack, S!Here.x) /\ S!Here.op \in Automatic \cup {"block", "try"}
    <3>1. S!Here.x \in Blocks \cup NamesOf(S!Program, Automatic)
      BY <1>1, <2>1 DEF Blocks, NamesOf
    <3>2. /\ Len(stack') = Len(stack) + 1 /\ Len(stack) \in Nat /\ stack'[Len(stack) + 1] = S!Here.x
          /\ \A j \in 1..Len(stack) : stack'[j] = stack[j]
      BY <1>1, <2>1, AppendIs
    <3>3. i \in 1..Len(stack) \/ i = Len(stack) + 1  BY <3>2
    <3> QED BY <2>0, <3>1, <3>2, <3>3
  <2>2. CASE stack' = stack  BY <2>0, <2>2
  <2>3. CASE e = "plain" /\ S!Here.op \in {"end", "catch"} /\ stack' = SubSeq(stack, 1, Len(stack) - 1)
    <3>1. stack # << >>  BY <1>0, <2>3, EndsBlock
    <3>2. /\ Len(stack') = Len(stack) - 1 /\ Len(stack) \in Nat
          /\ \A j \in 1..Len(stack') : stack'[j] = stack[j]
      BY <1>1, <2>3, <3>1, FrontIs
    <3>3. i \in 1..Len(stack)  BY <3>2
    <3> QED BY <2>0, <3>2, <3>3
  <2> QED BY <2>1, <2>2, <2>3 DEF Event
<1> QED
  <2>1. (mode \in {"run", "throw"} =>
           /\ facts \subseteq NamesOf(S!Program, Giving) \cup {"bSuccess"} /\ exit = 1
           /\ missed \subseteq NamesOf(S!Program, Failing) \cup Tolerated)'
    BY <1>5, <1>8
  <2>2. (mode = "idle" => missed \subseteq Tolerated)'  BY <1>0
  <2>3. (mode \in {"run", "throw", "leave"} =>
           /\ \A y \in live : \/ y \in NamesOf(S!Program, ByHand)
                              \/ y \notin Blocks /\ \E i \in 1..Len(stack) : stack[i] = y
           /\ \A i \in 1..Len(stack) : stack[i] \in Blocks \cup NamesOf(S!Program, Automatic))'
    BY <1>7, <1>9
  <2> QED BY <2>1, <2>2, <2>3 DEF NameInv

\* What the table rules out does not happen.
LEMMA NotThere ==
  ASSUME ScriptInv, NEW e, Event(e), NEW of, NEW x,
         Trace(of, x) \in Traces(S!Program), ~Occurs(S!Program, Table, at, e, of, x)
  PROVE  ~Present(Trace(of, x))
<1>0. mode = "run" /\ mode # "idle" /\ PlaceInv /\ Happens(S!Here, e, facts)
  BY DEF Event, ScriptInv
<1>1. S!Here = S!Program[at]  BY <1>0, HereIs
<1>2. Present(Trace(of, x)) => Sat(Table[at].run[Trace(of, x)], facts)
  BY <1>0 DEF ScriptInv, KnownInv, Knows
<1>3. Sat(Table[at].run[Trace(of, x)], facts) => May(S!Here, e, Table[at].run[Trace(of, x)])
  BY <1>0, SatAfter
<1> QED BY <1>1, <1>2, <1>3 DEF Occurs

LEMMA LeavingEvents ==
  ASSUME ScriptInv, NEW e, Event(e), Leads(S!Here, e) = "leave"
  PROVE  /\ mode = "run" /\ mode' = "leave" /\ live' = live /\ missed' = missed /\ stack' = stack
         /\ S!Program' = S!Program /\ smoke' = smoke /\ part' = part /\ script' = script
         /\ \/ e = "good" /\ S!Here.op = "return" /\ exit' = 0
            \/ e = "bad" /\ S!Here.op \in {"return", "leave"} /\ exit' = 1
BY DEF Event, Leads, S!Program

LEMMA LeaveInvEvent == ASSUME ScriptInv, NEW e, Event(e) PROVE LeaveInv'
<1>0. mode = "run" /\ mode # "idle" /\ PlaceInv  BY DEF Event, ScriptInv
<1>1. S!Here = S!Program[at] /\ at \in DOMAIN S!Program /\ ReturnsDeserved(S!Program, Table)
  BY <1>0, HereIs, RulesKept DEF PlaceInv
<1>2. CASE Leads(S!Here, e) # "leave"  BY <1>2 DEF Event, Leads, LeaveInv
<1>3. CASE Leads(S!Here, e) = "leave"
  <2>1. CASE e = "good" /\ S!Here.op = "return" /\ exit' = 0
    <3>1. ASSUME NEW y \in missed PROVE y \in Tolerated
      <4>1. SUFFICES ASSUME y \in NamesOf(S!Program, Failing) \ Tolerated PROVE FALSE
        BY <1>0, <3>1 DEF ScriptInv, NameInv
      <4>2. Trace("missed", y) \in Traces(S!Program)  BY <4>1 DEF Traces
      <4>3. ~Occurs(S!Program, Table, at, e, "missed", y)
        BY <1>1, <2>1, <4>1 DEF ReturnsDeserved
      <4>4. ~Present(Trace("missed", y))  BY <4>2, <4>3, NotThere
      <4> QED BY <3>1, <4>4, TraceIs DEF Present
    <3>2. ASSUME NEW y \in live, y \in NamesOf(S!Program, ByHand) PROVE y \in Leftover
      <4>1. SUFFICES ASSUME y \notin Leftover PROVE FALSE  OBVIOUS
      <4>2. Trace("live", y) \in Traces(S!Program)  BY <3>2 DEF Traces
      <4>3. ~Occurs(S!Program, Table, at, e, "live", y)
        BY <1>1, <2>1, <3>2, <4>1 DEF ReturnsDeserved
      <4>4. ~Present(Trace("live", y))  BY <4>2, <4>3, NotThere
      <4> QED BY <3>2, <4>4, TraceIs DEF Present
    <3> QED BY <1>3, <2>1, <3>1, <3>2, LeavingEvents DEF LeaveInv
  <2>2. CASE e = "bad" /\ S!Here.op \in {"return", "leave"} /\ exit' = 1
    <3>1. ASSUME NEW y \in live, y \in NamesOf(S!Program, ByHand) PROVE y \in Remains
      <4>1. SUFFICES ASSUME y \notin Remains PROVE FALSE  OBVIOUS
      <4>2. Trace("live", y) \in Traces(S!Program)  BY <3>1 DEF Traces
      <4>3. ~Occurs(S!Program, Table, at, e, "live", y)
        BY <1>1, <2>2, <3>1, <4>1 DEF ReturnsDeserved
      <4>4. ~Present(Trace("live", y))  BY <4>2, <4>3, NotThere
      <4> QED BY <3>1, <4>4, TraceIs DEF Present
    <3> QED BY <1>3, <2>2, <3>1, LeavingEvents DEF LeaveInv
  <2> QED BY <1>3, <2>1, <2>2, LeavingEvents
<1> QED BY <1>2, <1>3

LEMMA ReportsKept ==
  ASSUME PlaceInv, mode # "idle", smoke \notin Reproducers
  PROVE  /\ SoundReturnsZero(S!Program, Table)
         /\ S!Last => ReportsAgree(S!Program, Table)
<1>1. /\ S!Program = Scripts[smoke][part] /\ part \in DOMAIN Scripts[smoke]
      /\ smoke \in DOMAIN Scripts \ Reproducers /\ script = Scripts[smoke]
  BY ProgramIs DEF PlaceInv
<1>2. /\ SoundReturnsZero(Scripts[smoke][part], Knowledge[smoke][part])
      /\ part = Len(Scripts[smoke]) => ReportsAgree(Scripts[smoke][part], Knowledge[smoke][part])
  BY <1>1, ReportsAssumption
<1> QED BY <1>1, <1>2 DEF Table, S!Last

\* The lines of the report, one by one.
LEMMA LinesAfter ==
  ASSUME PlaceInv, NEW e, Event(e)
  PROVE  /\ report \in Reports /\ report' \in Reports
         /\ report.pass \in Nat /\ report.fail \in Nat /\ report.good \in Nat
         /\ report.bad \in Nat /\ report.stray \in Nat
         /\ report'.pass = IF Told(e, "pass") THEN report.pass + 1 ELSE report.pass
         /\ report'.fail = IF Told(e, "fail") THEN report.fail + 1 ELSE report.fail
         /\ report'.good = IF Told(e, "good") THEN report.good + 1 ELSE report.good
         /\ report'.bad = IF Told(e, "bad") THEN report.bad + 1 ELSE report.bad
         /\ report'.stray = IF Told(e, "stray") THEN report.stray + 1 ELSE report.stray
<1>1. report \in Reports /\ report' \in Reports  BY DEF PlaceInv, Event
<1>2. \A line \in {"pass", "fail", "good", "bad", "stray"} :
        report'[line] = IF Told(e, line) THEN report[line] + 1 ELSE report[line]
  BY DEF Event
<1> QED BY <1>1, <1>2 DEF Reports

LEMMA PresentIs ==
  /\ Present(Trace("sound", "")) <=> missed = {}
  /\ Present(Trace("clean", "")) <=> Clean
  /\ Present(Trace("bad", "")) <=> ~Clean
  /\ Present(Trace("unchecked", "")) <=> report.pass = 0
  /\ Present(Trace("open", "")) <=> report.good = 0
  /\ Present(Trace("given", "")) <=> report.good > 0
BY DEF Present, Trace

LEMMA VerdictEvent == ASSUME ScriptInv, NEW e, Event(e) PROVE VerdictInv'
<1>0. /\ mode = "run" /\ mode # "idle" /\ PlaceInv /\ Happens(S!Here, e, facts)
      /\ smoke' = smoke /\ part' = part /\ script' = script
  BY DEF Event, ScriptInv
<1> SUFFICES ASSUME smoke \notin Reproducers PROVE VerdictInv'
  BY <1>0 DEF VerdictInv
<1>1. /\ S!Here = S!Program[at] /\ at \in DOMAIN S!Program
      /\ SoundReturnsZero(S!Program, Table)
      /\ S!Last => ReportsAgree(S!Program, Table)
      /\ S!Last' <=> S!Last
  BY <1>0, HereIs, ReportsKept DEF PlaceInv, S!Last
<1>2. \A of \in {"sound", "clean", "bad", "unchecked", "open", "given"} :
        Trace(of, "") \in Traces(S!Program)
  BY DEF Traces
<1>3. (mode \in {"leave", "ended"} /\ missed = {} => exit = 0)'
  <2>1. SUFFICES ASSUME mode' \in {"leave", "ended"}, missed' = {}, exit' # 0 PROVE FALSE
    OBVIOUS
  <2>2. Leads(S!Here, e) = "leave"  BY <2>1 DEF Event, Leads
  <2>3. e = "bad" /\ S!Here.op \in {"return", "leave"} /\ missed = {}
    BY <2>1, <2>2, LeavingEvents
  <2>4. ~Occurs(S!Program, Table, at, e, "sound", "")  BY <1>1, <2>3 DEF SoundReturnsZero
  <2>5. ~Present(Trace("sound", ""))  BY <1>2, <2>4, NotThere
  <2> QED BY <2>3, <2>5, PresentIs
<1>4. (mode \in {"run", "throw"} /\ S!Last => report.good <= 1)'
  <2>1. SUFFICES ASSUME mode' \in {"run", "throw"}, S!Last PROVE report'.good <= 1  BY <1>1
  <2>2. Leads(S!Here, e) # "leave" /\ report.good <= 1
    BY <1>0, <2>1 DEF Event, ScriptInv, VerdictInv
  <2>3. CASE Told(e, "good")
    <3>1. e = "good" /\ S!Here.op = "result"  BY <2>3 DEF Told
    <3>2. ~Occurs(S!Program, Table, at, e, "given", "")  BY <1>1, <2>1, <3>1 DEF ReportsAgree
    <3>3. ~Present(Trace("given", ""))  BY <1>2, <3>2, NotThere
    <3>4. ~(report.good > 0)  BY <3>3, PresentIs
    <3> QED BY <1>0, <2>3, <3>4, LinesAfter
  <2>4. CASE ~Told(e, "good")  BY <1>0, <2>2, <2>4, LinesAfter
  <2> QED BY <2>3, <2>4
<1>5. (mode \in {"leave", "ended"} /\ S!Last => (exit = 0 <=> S!GoodReport))'
  <2>1. SUFFICES ASSUME mode' \in {"leave", "ended"}, S!Last PROVE exit' = 0 <=> S!GoodReport'
    BY <1>1
  <2>2. Leads(S!Here, e) = "leave" /\ report.good <= 1 /\ ReportsAgree(S!Program, Table)
    BY <1>0, <1>1, <2>1 DEF Event, Leads, ScriptInv, VerdictInv
  <2>3. CASE e = "good" /\ S!Here.op = "return" /\ exit' = 0
    <3>1. \A of \in {"bad", "unchecked", "open"} : ~Occurs(S!Program, Table, at, e, of, "")
      BY <1>1, <2>2, <2>3 DEF ReportsAgree
    <3>2. ~Present(Trace("bad", "")) /\ ~Present(Trace("unchecked", "")) /\ ~Present(Trace("open", ""))
      BY <1>2, <3>1, NotThere
    <3>3. Clean /\ report.pass # 0 /\ report.good # 0  BY <3>2, PresentIs
    <3>4. \A line \in {"pass", "fail", "good", "bad", "stray"} : ~Told(e, line)
      BY <2>3 DEF Told
    <3> QED BY <1>0, <2>2, <2>3, <3>3, <3>4, LinesAfter DEF Clean, S!GoodReport
  <2>4. CASE e = "bad" /\ S!Here.op = "leave" /\ S!Here.x \in {"result", "check and result", "stderr"}
    <3>1. Told(e, "bad") \/ Told(e, "stray")  BY <2>4 DEF Told
    <3>2. exit' = 1  BY <2>2, <2>4, LeavingEvents
    <3> QED BY <1>0, <3>1, <3>2, LinesAfter DEF S!GoodReport
  <2>5. CASE e = "bad" /\ (S!Here.op = "return" \/ (S!Here.op = "leave" /\ S!Here.x \notin {"result", "check and result", "stderr"}))
    <3>1. ~Occurs(S!Program, Table, at, e, "clean", "")  BY <1>1, <2>2, <2>5 DEF ReportsAgree
    <3>2. ~Present(Trace("clean", ""))  BY <1>2, <3>1, NotThere
    <3>3. ~Clean  BY <3>2, PresentIs
    <3>4. \A line \in {"pass", "fail", "good", "bad", "stray"} : ~Told(e, line)
      BY <2>5 DEF Told
    <3>5. exit' = 1
      <4>1. e = "bad"  BY <2>5
      <4> QED BY <2>2, <4>1, LeavingEvents
    <3> QED BY <1>0, <3>3, <3>4, <3>5, LinesAfter DEF Clean, S!GoodReport
  <2> QED BY <2>2, <2>3, <2>4, <2>5, LeavingEvents
<1> QED BY <1>3, <1>4, <1>5 DEF VerdictInv

(* The scripted smokes: the steps that are no event. *)

\* What is present has been so, if a step ends automatic objects at most.
LEMMA PresentBefore ==
  ASSUME missed' = missed, report' = report, live' \subseteq live,
         \A y \in live : y \in NamesOf(S!Program, ByHand) => y \in live',
         NEW t \in Traces(S!Program), Present(t)'
  PROVE  Present(t)
<1>1. t.of = "dead" => t.x \in NamesOf(S!Program, ByHand)
  <2>1. ASSUME NEW y \in NamesOf(S!Program, ByHand), t = Trace("dead", y)
        PROVE  t.x \in NamesOf(S!Program, ByHand)
    BY <2>1, TraceIs
  <2>2. ASSUME NEW of \in {"always", "sound", "clean", "bad", "unchecked", "open", "given", "missed", "live"},
               NEW y, t = Trace(of, y)
        PROVE  t.of # "dead"
    BY <2>2, TraceIs
  <2> QED BY <2>1, <2>2, TraceForms DEF Always
<1> QED BY <1>1 DEF Present, Clean

LEMMA UnwindNames == ASSUME ScriptInv, Unwinding
  PROVE  /\ \A y \in live' : \/ y \in NamesOf(S!Program, ByHand)
                             \/ y \notin Blocks /\ \E i \in 1..Len(stack') : stack'[i] = y
         /\ \A i \in 1..Len(stack') : stack'[i] \in Blocks \cup NamesOf(S!Program, Automatic)
<1>3. /\ Len(stack') = Len(stack) - 1 /\ Len(stack) \in Nat
      /\ \A j \in 1..Len(stack') : stack'[j] = stack[j]
  BY FrontIs DEF Unwinding, ScriptInv, PlaceInv
<1>5. ASSUME NEW y \in live', y \notin NamesOf(S!Program, ByHand)
      PROVE  y \notin Blocks /\ \E i \in 1..Len(stack') : stack'[i] = y
  <2>1. PICK i \in 1..Len(stack) : stack[i] = y /\ y \notin Blocks
    BY <1>5 DEF Unwinding, ScriptInv, NameInv
  <2>2. i # Len(stack)  BY <1>5, <2>1 DEF Unwinding, S!Top
  <2>4. i \in 1..Len(stack')  BY <1>3, <2>1, <2>2
  <2> QED BY <1>3, <2>1, <2>4
<1>6. ASSUME NEW i \in 1..Len(stack') PROVE stack'[i] \in Blocks \cup NamesOf(S!Program, Automatic)
  <2>1. i \in 1..Len(stack)  BY <1>3
  <2>2. stack[i] \in Blocks \cup NamesOf(S!Program, Automatic)
    BY <2>1 DEF Unwinding, ScriptInv, NameInv
  <2> QED BY <1>3, <2>2
<1> QED BY <1>5, <1>6

LEMMA UnwindPlace == ASSUME ScriptInv, Unwinding
  PROVE  /\ S!Program' = S!Program /\ Table' = Table /\ Blocks' = Blocks /\ Tries' = Tries
         /\ stack' \in Seq(Labels) /\ stack \in Seq(Labels)
<1>1. stack \in Seq(Labels)  BY DEF ScriptInv, PlaceInv
<1> QED BY <1>1, FrontIs DEF Unwinding, S!Program, Table, Blocks, Tries

\* All but the place of main.
LEMMA UnwindKept == ASSUME ScriptInv, Unwinding, mode' = mode \/ (mode = "throw" /\ mode' = "run")
  PROVE  NameInv' /\ LeaveInv' /\ VerdictInv'
<1>1. NameInv'
  <2>1. (mode \in {"run", "throw"} =>
           /\ facts \subseteq NamesOf(S!Program, Giving) \cup {"bSuccess"} /\ exit = 1
           /\ missed \subseteq NamesOf(S!Program, Failing) \cup Tolerated)'
    BY UnwindPlace DEF ScriptInv, NameInv, Unwinding
  <2>2. (mode = "idle" => missed \subseteq Tolerated)'  BY DEF Unwinding
  <2>3. (mode \in {"run", "throw", "leave"} =>
           /\ \A y \in live : \/ y \in NamesOf(S!Program, ByHand)
                              \/ y \notin Blocks /\ \E i \in 1..Len(stack) : stack[i] = y
           /\ \A i \in 1..Len(stack) : stack[i] \in Blocks \cup NamesOf(S!Program, Automatic))'
    BY UnwindNames, UnwindPlace
  <2> QED BY <2>1, <2>2, <2>3 DEF NameInv
<1>2. LeaveInv'  BY UnwindPlace DEF ScriptInv, LeaveInv, Unwinding
<1>3. VerdictInv'  BY DEF ScriptInv, VerdictInv, Unwinding, S!Last, S!GoodReport
<1> QED BY <1>1, <1>2, <1>3

LEMMA DestroyKept == ASSUME ScriptInv, S!Destroy PROVE ScriptInv'
<1>0. /\ mode \in {"run", "throw", "leave"} /\ live' = live \ {S!Top} /\ mode' = mode /\ at' = at
      /\ stack # << >> /\ stack[Len(stack)] \notin Blocks /\ S!Top = stack[Len(stack)]
      /\ stack \in Seq(Labels) /\ PlaceInv
  BY NamesAre DEF S!Destroy, S!Step, S!Release, S!Top, S!Opening, Blocks, ScriptInv, PlaceInv
<1>5. S!Top \notin NamesOf(S!Program, ByHand)
  <2>1. Len(stack) \in 1..Len(stack)  BY <1>0
  <2>2. S!Top \in NamesOf(S!Program, Automatic)  BY <1>0, <2>1 DEF ScriptInv, NameInv
  <2>3. NoOwner(S!Program)  BY <1>0, RulesKept
  <2> QED BY <2>2, <2>3 DEF NoOwner
<1>1. /\ Unwinding /\ mode' = mode /\ at' = at
      /\ stack # << >> /\ stack[Len(stack)] \notin Blocks
  BY <1>0, <1>5 DEF S!Destroy, S!Pop, Unwinding
<1>2. PlaceInv'  BY <1>1, UnwindPlace DEF ScriptInv, PlaceInv, Unwinding
<1>3. NestInv'
  <2>1. ASSUME NEW nest \in Seq(Labels), Matches(stack, nest, Blocks)
        PROVE  Matches(stack', nest, Blocks)
    BY <1>1, <2>1, UnwindPlace, MatchesDestroyed DEF Unwinding
  <2>2. CASE mode = "run"  BY <1>1, <2>1, <2>2, UnwindPlace DEF ScriptInv, NestInv
  <2>3. CASE mode = "throw"
    <3>1. PICK m \in 0..Len(Table[at].nest) :
            /\ Matches(stack, SubSeq(Table[at].nest, 1, m), Blocks)
            /\ \A j \in (m + 1)..Len(Table[at].nest) : Table[at].nest[j] \notin Tries
      BY <2>3 DEF ScriptInv, NestInv
    <3>2. Table[at].nest \in Seq(Labels)  BY <2>3 DEF ScriptInv, NestInv
    <3>3. SubSeq(Table[at].nest, 1, m) \in Seq(Labels)  BY <3>2
    <3>4. Matches(stack', SubSeq(Table[at].nest, 1, m), Blocks)  BY <2>1, <3>1, <3>3
    <3> QED BY <1>1, <2>3, <3>1, <3>2, <3>4, UnwindPlace DEF NestInv
  <2>4. CASE mode = "leave"  BY <1>1, <2>4 DEF NestInv
  <2> QED BY <1>1, <2>2, <2>3, <2>4 DEF Unwinding
<1>4. KnownInv'
  <2>1. \A t \in Traces(S!Program) : Present(t)' => Present(t)
    BY <1>1, PresentBefore DEF Unwinding
  <2>2. ASSUME NEW line, Knows(line) PROVE \A t \in Traces(S!Program) : Present(t)' => Sat(line[t], facts)
    BY <2>1, <2>2 DEF Knows
  <2>3. facts' = facts  BY <1>1 DEF Unwinding
  <2> QED BY <1>1, <2>2, <2>3, UnwindPlace DEF ScriptInv, KnownInv, Knows
<1> QED BY <1>1, <1>2, <1>3, <1>4, UnwindKept DEF ScriptInv

LEMMA PassBlockKept == ASSUME ScriptInv, S!PassBlock PROVE ScriptInv'
<1>1. /\ Unwinding /\ mode' = mode /\ at' = at /\ live' = live
      /\ stack # << >> /\ stack[Len(stack)] \in Blocks /\ mode \in {"throw", "leave"}
      /\ mode = "throw" => stack[Len(stack)] \in NamesOf(S!Program, {"block"})
  <2>1. stack \in Seq(Labels)  BY DEF ScriptInv, PlaceInv
  <2>2. S!Guarded => stack # << >>  BY <2>1 DEF S!Guarded
  <2>3. S!Top \in Blocks  BY NamesAre DEF S!PassBlock, S!Top, S!Opening, Blocks, NamesOf
  <2> QED BY <2>2, <2>3, NamesAre DEF S!PassBlock, S!Pop, S!Top, Unwinding
<1>2. PlaceInv'  BY <1>1, UnwindPlace DEF ScriptInv, PlaceInv, Unwinding
<1>3. NestInv'
  <2>1. CASE mode = "throw"
    <3> DEFINE nest == Table[at].nest
    <3>1. PICK m \in 0..Len(nest) :
            /\ Matches(stack, SubSeq(nest, 1, m), Blocks)
            /\ \A j \in (m + 1)..Len(nest) : nest[j] \notin Tries
      BY <2>1 DEF ScriptInv, NestInv
    <3>2. nest \in Seq(Labels)  BY <2>1 DEF ScriptInv, NestInv
    <3> HIDE DEF nest
    <3>3. PICK n \in Nat : n + 1 = m /\ nest[m] = stack[Len(stack)] /\ Matches(stack', SubSeq(nest, 1, n), Blocks)
      BY <1>1, <3>1, <3>2, LeftPrefix, UnwindPlace DEF Unwinding
    <3>4. nest[m] \notin Tries  BY <1>1, <2>1, <3>3, RulesKept DEF WellNested, Tries, ScriptInv
    <3>5. n \in 0..Len(nest) /\ \A j \in (n + 1)..Len(nest) : nest[j] \notin Tries
      BY <3>1, <3>2, <3>3, <3>4
    <3> QED BY <1>1, <2>1, <3>2, <3>3, <3>5, UnwindPlace DEF NestInv, nest
  <2>2. CASE mode = "leave"  BY <1>1, <2>2 DEF NestInv
  <2> QED BY <1>1, <2>1, <2>2
<1>4. KnownInv'
  <2>1. \A t \in Traces(S!Program) : Present(t)' => Present(t)
    BY <1>1, PresentBefore DEF Unwinding
  <2>2. ASSUME NEW line, Knows(line) PROVE \A t \in Traces(S!Program) : Present(t)' => Sat(line[t], facts)
    BY <2>1, <2>2 DEF Knows
  <2>3. facts' = facts  BY <1>1 DEF Unwinding
  <2> QED BY <1>1, <2>2, <2>3, UnwindPlace DEF ScriptInv, KnownInv, Knows
<1> QED BY <1>1, <1>2, <1>3, <1>4, UnwindKept DEF ScriptInv

\* On the way to a handler, the innermost try block is the one on the stack.
LEMMA CaughtPlace ==
  ASSUME ScriptInv, S!Caught
  PROVE  \E h \in DOMAIN S!Program :
           /\ at' = h + 1 /\ h + 1 \in DOMAIN S!Program
           /\ Table[h + 1].nest \in Seq(Labels)
           /\ Matches(stack', Table[h + 1].nest, Blocks)
           /\ \A t \in Traces(S!Program) : Covers(Table[h + 1].run[t], Table[at].throw[t])
           /\ HandlerOf(S!Program, at, S!Top, h) /\ h \in at..Len(S!Program)
<1> DEFINE nest == Table[at].nest
<1>0. /\ mode = "throw" /\ mode # "idle" /\ PlaceInv /\ stack # << >> /\ stack \in Seq(Labels)
      /\ S!Top = stack[Len(stack)] /\ S!Top \in Tries /\ S!Top \in Blocks
      /\ stack' = SubSeq(stack, 1, Len(stack) - 1) /\ at' = S!Handler + 1
      /\ nest \in Seq(Labels)
  BY NamesAre DEF S!Caught, S!Top, S!Pop, ScriptInv, PlaceInv, NestInv, Tries, Blocks, NamesOf
<1>1. PICK m \in 0..Len(nest) :
        /\ Matches(stack, SubSeq(nest, 1, m), Blocks)
        /\ \A j \in (m + 1)..Len(nest) : nest[j] \notin Tries
  BY <1>0 DEF ScriptInv, NestInv
<1> HIDE DEF nest
<1>2. PICK n \in Nat : n + 1 = m /\ nest[m] = S!Top /\ Matches(stack', SubSeq(nest, 1, n), Blocks)
  BY <1>0, <1>1, LeftPrefix
<1>3. /\ S!Program \in Seq(Instructions) /\ at \in Nat /\ 1 <= at /\ at <= Len(S!Program)
      /\ at \in DOMAIN S!Program /\ Len(S!Program) \in Nat
      /\ WellNested(S!Program, Table) /\ Follows(S!Program, Table)
  BY <1>0, ProgramIs, HereIs, RulesKept DEF PlaceInv
<1>4. m \in DOMAIN nest /\ m - 1 = n  BY <1>0, <1>2
<1>5. Innermost(S!Program, nest, m)
  <2>1. \A j \in DOMAIN nest : j > m => nest[j] \notin Tries  BY <1>0, <1>1, <1>4
  <2> QED BY <1>0, <1>2, <1>4, <2>1 DEF Innermost, Tries
<1>6. PICK h \in at..(Len(S!Program) - 1) :
        HandlerOf(S!Program, at, nest[m], h) /\ Table[h + 1].nest = SubSeq(nest, 1, m - 1)
  BY <1>3, <1>4, <1>5 DEF WellNested, nest
<1>7. S!Handler = h
  <2>1. /\ h \in at..Len(S!Program) /\ S!Program[h].op = "catch" /\ S!Program[h].x = S!Top
        /\ \A j \in at..(h - 1) : ~(S!Program[j].op = "catch" /\ S!Program[j].x = S!Top)
    BY <1>2, <1>6 DEF HandlerOf
  <2>2. ASSUME NEW i \in at..Len(S!Program),
               S!Program[i].op = "catch" /\ S!Program[i].x = S!Top,
               \A j \in at..(i - 1) : ~(S!Program[j].op = "catch" /\ S!Program[j].x = S!Top)
        PROVE  i = h
    <3>1. ~(i < h) /\ ~(h < i)  BY <1>3, <2>1, <2>2
    <3> QED BY <1>3, <2>1, <3>1
  <2> QED BY <2>1, <2>2 DEF S!Handler
<1>8. h \in DOMAIN S!Program /\ h + 1 \in DOMAIN S!Program  BY <1>3, <1>6
<1>9. SubSeq(nest, 1, n) \in Seq(Labels)  BY <1>0, <1>4, <1>1
<1>10. \A t \in Traces(S!Program) : Covers(Table[h + 1].run[t], Table[at].throw[t])
  BY <1>3, <1>4, <1>5, <1>6 DEF Follows, nest
<1>11. HandlerOf(S!Program, at, S!Top, h) /\ h \in at..Len(S!Program)  BY <1>2, <1>3, <1>6
<1> QED BY <1>0, <1>2, <1>4, <1>6, <1>7, <1>8, <1>9, <1>10, <1>11

LEMMA CaughtKept == ASSUME ScriptInv, S!Caught PROVE ScriptInv'
<1>1. PICK h \in DOMAIN S!Program :
           /\ at' = h + 1 /\ h + 1 \in DOMAIN S!Program
           /\ Table[h + 1].nest \in Seq(Labels)
           /\ Matches(stack', Table[h + 1].nest, Blocks)
           /\ \A t \in Traces(S!Program) : Covers(Table[h + 1].run[t], Table[at].throw[t])
  BY CaughtPlace
<1>2. /\ Unwinding /\ mode = "throw" /\ mode' = "run" /\ live' = live
      /\ facts' = facts /\ missed' = missed /\ report' = report
  BY NamesAre DEF S!Caught, S!Top, S!Pop, Unwinding, Blocks, NamesOf
<1>3. PlaceInv'  BY <1>1, <1>2, UnwindPlace DEF ScriptInv, PlaceInv, Unwinding
<1>4. NestInv'  BY <1>1, <1>2, UnwindPlace DEF NestInv
<1>5. KnownInv'
  <2>1. \A t \in Traces(S!Program) : Present(t)' => Present(t)
    BY <1>2, PresentBefore DEF Unwinding
  <2>2. ASSUME NEW t \in Traces(S!Program), Present(t)' PROVE Sat(Table[h + 1].run[t], facts)
    BY <1>1, <1>2, <2>1, <2>2, SatCovers DEF ScriptInv, KnownInv, Knows
  <2> QED BY <1>1, <1>2, <2>2, UnwindPlace DEF KnownInv, Knows
<1> QED BY <1>2, <1>3, <1>4, <1>5, UnwindKept DEF ScriptInv

LEMMA StopKept ==
  ASSUME ScriptInv, Stopping, exit' \in {0, 1, 3}, LeaveInv', VerdictInv'
  PROVE  ScriptInv'
<1>1. PlaceInv'  BY DEF Stopping, ScriptInv, PlaceInv, S!Program
<1>2. NestInv' /\ KnownInv' /\ NameInv'  BY DEF Stopping, NestInv, KnownInv, NameInv
<1> QED BY <1>1, <1>2 DEF ScriptInv

\* Nobody catches what is thrown: a call has failed, and no result is given.
LEMMA UncaughtKept == ASSUME ScriptInv, S!Uncaught PROVE ScriptInv'
<1>0. Stopping /\ exit' = 3 /\ mode = "throw" /\ mode # "idle" /\ ~S!Guarded /\ PlaceInv
  BY DEF S!Uncaught, Stopping, ScriptInv
<1>1. LeaveInv'  BY <1>0 DEF Stopping, LeaveInv
<1>2. VerdictInv'
  <2> SUFFICES ASSUME smoke \notin Reproducers PROVE VerdictInv'
    BY <1>0 DEF VerdictInv, Stopping
  <2>1. /\ SoundReturnsZero(S!Program, Table)
        /\ S!Last => ReportsAgree(S!Program, Table)
        /\ at \in DOMAIN S!Program
    BY <1>0, ReportsKept DEF PlaceInv
  <2>2. \A of \in {"sound", "given"} : Trace(of, "") \in Traces(S!Program)  BY DEF Traces
  <2>3. \A t \in Traces(S!Program) : Present(t) => Table[at].throw[t].can
    BY <1>0 DEF ScriptInv, KnownInv, Knows, Sat
  <2>4. missed # {}  BY <2>1, <2>2, <2>3, PresentIs DEF SoundReturnsZero
  <2>5. ASSUME S!Last PROVE ~S!GoodReport
    <3>1. ASSUME NEW k \in DOMAIN Table[at].nest, Table[at].nest[k] \in Tries PROVE FALSE
      <4> DEFINE nest == Table[at].nest
      <4>1. PICK m \in 0..Len(nest) :
              /\ Matches(stack, SubSeq(nest, 1, m), Blocks)
              /\ \A j \in (m + 1)..Len(nest) : nest[j] \notin Tries
        BY <1>0 DEF ScriptInv, NestInv
      <4>2. nest \in Seq(Labels) /\ stack \in Seq(Labels)
        BY <1>0 DEF ScriptInv, NestInv, PlaceInv
      <4>3. k \in DOMAIN nest /\ nest[k] \in Tries  BY <3>1
      <4> HIDE DEF nest
      <4>4. k \in 1..m /\ m \in Nat /\ m <= Len(nest)  BY <4>1, <4>2, <4>3
      <4> DEFINE first == SubSeq(nest, 1, m)
      <4>5. k \in 1..Len(first) /\ first[k] = nest[k] /\ Matches(stack, first, Blocks)
        BY <4>1, <4>2, <4>4, PrefixIs
      <4> HIDE DEF first
      <4>6. PICK i \in 1..Len(stack) : stack[i] = nest[k]  BY <4>5, MatchesHas
      <4>7. i \in DOMAIN stack  BY <4>2, <4>6
      <4> QED BY <1>0, <4>3, <4>6, <4>7, NamesAre DEF S!Guarded, Tries
    <3>2. ~Table[at].throw[Trace("given", "")].can  BY <2>1, <2>5, <3>1 DEF ReportsAgree, Tries
    <3>3. ~(report.good > 0)  BY <2>2, <2>3, <3>2, PresentIs
    <3> QED BY <3>3 DEF S!GoodReport
  <2> QED BY <1>0, <2>4, <2>5 DEF VerdictInv, Stopping, S!Last, S!GoodReport
<1> QED BY <1>0, <1>1, <1>2, StopKept

\* A stream is inserted into only by reproducers.
LEMMA InsertAbortKept == ASSUME ScriptInv, S!Insert, mode' = "ended" PROVE ScriptInv'
<1>0. Stopping /\ exit' = 3 /\ mode = "run" /\ mode # "idle" /\ S!Here.op = "insert" /\ PlaceInv
  BY DEF S!Insert, S!Step, S!Advance, Stopping, ScriptInv
<1>1. LeaveInv'  BY <1>0 DEF Stopping, LeaveInv
<1>2. smoke \in Reproducers  BY <1>0, HereIs, ReportsKept DEF PlaceInv, SoundReturnsZero
<1> QED BY <1>0, <1>1, <1>2, StopKept DEF VerdictInv, Stopping

\* Nothing is left on the stack.
LEMMA EndKept == ASSUME ScriptInv, S!End PROVE ScriptInv'
<1>0. Stopping /\ exit' = exit /\ mode = "leave" /\ stack = << >>  BY DEF S!End, Stopping
<1>1. \A y \in live : y \in NamesOf(S!Program, ByHand)  BY <1>0 DEF ScriptInv, NameInv
<1>2. LeaveInv'  BY <1>0, <1>1 DEF Stopping, ScriptInv, LeaveInv
<1>3. VerdictInv'  BY <1>0 DEF Stopping, ScriptInv, VerdictInv, S!Last, S!GoodReport
<1>4. exit' \in {0, 1, 3}  BY <1>0 DEF ScriptInv, PlaceInv
<1> QED BY <1>0, <1>2, <1>3, <1>4, StopKept

\* A program begins: what its table says of its first instruction is right.
LEMMA FreshKept ==
  ASSUME S!Fresh, smoke' \in DOMAIN Scripts, script' = Scripts[smoke'], part' \in DOMAIN script',
         missed' = missed, missed \subseteq Tolerated
  PROVE  ScriptInv'
<1> DEFINE p == Scripts[smoke'][part']
           table == Knowledge[smoke'][part']
<1>1. p \in Seq(Instructions) /\ 1 \in DOMAIN p
  <2>1. Scripts[smoke'] \in Seq(Seq(Instructions) \ {<< >>}) \ {<< >>}  BY ScriptsAssumption
  <2>2. p \in Seq(Instructions) \ {<< >>}  BY <2>1
  <2> QED BY <2>2
<1>2. WellNested(p, table) /\ Follows(p, table)  BY NestingAssumption, KnowledgeAssumption
<1>3. S!Program' = p /\ Table' = table  BY DEF S!Program, Table
<1> HIDE DEF p, table
<1>4. /\ at' = 1 /\ mode' = "run" /\ facts' = {"bSuccess"} /\ live' = {} /\ stack' = << >>
      /\ report'.pass = 0 /\ report'.fail = 0 /\ report'.good = 0 /\ report'.bad = 0 /\ report'.stray = 0
      /\ report' \in Reports /\ exit' = 1 /\ stack' \in Seq(Labels)
  BY DEF S!Fresh, S!NoReport, Reports
<1>5. PlaceInv'  BY <1>1, <1>3, <1>4 DEF PlaceInv
<1>6. NestInv'
  <2>1. table[1].nest = << >> /\ << >> \in Seq(Labels)  BY <1>2 DEF WellNested
  <2>2. Matches(<< >>, << >>, Blocks')  BY MatchesEmpty
  <2> QED BY <1>3, <1>4, <2>1, <2>2 DEF NestInv
<1>7. KnownInv'
  <2> SUFFICES ASSUME NEW t \in Traces(p), Present(t)' PROVE Sat(table[1].run[t], {"bSuccess"})
    BY <1>3, <1>4 DEF KnownInv, Knows
  <2>1. Clean'  BY <1>4 DEF Clean
  <2>2. t.of \notin {"missed", "live", "bad", "given"}
    <3>1. ASSUME NEW y \in NamesOf(p, Failing) \ Tolerated, t = Trace("missed", y) PROVE FALSE
      <4>1. t.of = "missed" /\ t.x = y  BY <3>1, TraceIs
      <4>2. y \in missed'  BY <4>1 DEF Present
      <4> QED BY <3>1, <4>2
    <3>2. ASSUME NEW y, t = Trace("live", y) PROVE FALSE
      <4>1. t.of = "live" /\ t.x = y  BY <3>2, TraceIs
      <4> QED BY <1>4, <4>1 DEF Present
    <3>3. t # Trace("bad", "") /\ t # Trace("given", "")
      <4>1. t = Trace("bad", "") => t.of = "bad"  BY TraceIs
      <4>2. t = Trace("given", "") => t.of = "given"  BY TraceIs
      <4>3. t.of = "bad" => ~Clean'  BY DEF Present
      <4>4. t.of = "given" => report'.good > 0  BY DEF Present
      <4>5. ~(report'.good > 0)  BY <1>4
      <4> QED BY <2>1, <4>1, <4>2, <4>3, <4>4, <4>5
    <3>4. \/ t \in {Always, Trace("sound", ""), Trace("clean", ""), Trace("unchecked", ""), Trace("open", "")}
          \/ \E y : t = Trace("dead", y)
      BY <3>1, <3>2, <3>3, TraceForms
    <3>5. t.of \in {"always", "sound", "clean", "unchecked", "open", "dead"}
      <4>1. /\ Always.of = "always" /\ Trace("sound", "").of = "sound" /\ Trace("clean", "").of = "clean"
            /\ Trace("unchecked", "").of = "unchecked" /\ Trace("open", "").of = "open"
            /\ \A y : Trace("dead", y).of = "dead"
        BY TraceIs DEF Always
      <4> QED BY <3>4, <4>1, Zenon
    <3> QED BY <3>5
  <2>3. First(p)[t] = Known({{x} : x \in Conditions(p) \ {"bSuccess"}}, {"bSuccess"})
    BY <2>2 DEF First
  <2>4. Sat(Known({{x} : x \in Conditions(p) \ {"bSuccess"}}, {"bSuccess"}), {"bSuccess"})
    BY DEF Sat, Known
  <2>5. Covers(table[1].run[t], First(p)[t])  BY <1>2 DEF Follows
  <2> QED BY <2>3, <2>4, <2>5, SatCovers
<1>8. NameInv'  BY <1>3, <1>4 DEF NameInv
<1>9. LeaveInv'  BY <1>4 DEF LeaveInv
<1>10. VerdictInv'  BY <1>4 DEF VerdictInv
<1> QED BY <1>5, <1>6, <1>7, <1>8, <1>9, <1>10 DEF ScriptInv

LEMMA BeginKept == ASSUME ScriptInv, NEW s \in DOMAIN Scripts, S!Begin(s) PROVE ScriptInv'
<1>1. /\ S!Fresh /\ smoke' = s /\ script' = Scripts[s] /\ part' = 1 /\ missed' = missed /\ mode = "idle"
  BY DEF S!Begin
<1>2. missed \subseteq Tolerated  BY <1>1 DEF ScriptInv, NameInv
<1>3. Scripts[s] \in Seq(Seq(Instructions) \ {<< >>}) \ {<< >>}  BY ScriptsAssumption
<1>4. 1 \in DOMAIN Scripts[s]  BY <1>3
<1> QED BY <1>1, <1>2, <1>4, FreshKept

LEMMA NextProgramKept == ASSUME ScriptInv, S!NextProgram PROVE ScriptInv'
<1>1. /\ S!Fresh /\ smoke' = smoke /\ script' = script /\ part' = part + 1 /\ part < Len(script)
      /\ missed' = missed /\ mode = "ended" /\ mode # "idle" /\ exit = 0 /\ PlaceInv
  BY DEF S!NextProgram, ScriptInv
<1>2. missed \subseteq Tolerated  BY <1>1 DEF ScriptInv, LeaveInv
<1>3. script \in Seq(Seq(Instructions) \ {<< >>}) /\ part \in DOMAIN script
  BY <1>1, ProgramIs DEF PlaceInv
<1>4. part + 1 \in DOMAIN script  BY <1>1, <1>3
<1>5. smoke \in DOMAIN Scripts /\ script = Scripts[smoke]  BY <1>1 DEF PlaceInv
<1> QED BY <1>1, <1>2, <1>4, <1>5, FreshKept

(* The scripted smokes: every step. *)

LEMMA HappeningKept == ASSUME ScriptInv, Happening PROVE ScriptInv'
BY PlaceEvent, NestEvent, KnownEvent, NameEvent, LeaveInvEvent, VerdictEvent DEF Happening,
   ScriptInv

LEMMA ScriptStep == ASSUME ScriptInv, S!Next PROVE ScriptInv'
<1>0. PlaceInv  BY DEF ScriptInv
<1>1. CASE \/ S!Skip \/ S!Call \/ S!Invoke \/ S!Use \/ S!Mark \/ S!Open \/ S!Hold \/ S!Own
           \/ S!Attach \/ S!Close \/ S!OpenBlock \/ S!CloseBlock
  <2>1. Happening
    BY <1>0, <1>1, SkipEvent, CallEvent, InvokeEvent, PlainEvent, MarkEvent, OpenEvent, HoldEvent,
       OwnEvent DEF Happening
  <2> QED BY <2>1, HappeningKept
<1>2. CASE S!Demand \/ S!Leave \/ S!Return \/ S!Check \/ S!Result
  <2>1. Happening
    BY <1>0, <1>2, DemandEvent, LeaveEvent, ReturnEvent, CheckEvent, ResultEvent DEF Happening
  <2> QED BY <2>1, HappeningKept
<1>3. CASE S!Insert
  <2>1. CASE mode' # "ended"
    <3>1. Happening  BY <1>0, <1>3, <2>1, PlainEvent DEF Happening
    <3> QED BY <3>1, HappeningKept
  <2> QED BY <1>3, <2>1, InsertAbortKept
<1>4. CASE S!Destroy \/ S!PassBlock \/ S!Caught \/ S!Uncaught
  BY <1>4, DestroyKept, PassBlockKept, CaughtKept, UncaughtKept
<1>5. CASE S!End \/ S!NextProgram  BY <1>5, EndKept, NextProgramKept
<1>6. CASE \E s \in DOMAIN Scripts : S!Begin(s)  BY <1>6, BeginKept
<1> QED BY <1>1, <1>2, <1>3, <1>4, <1>5, <1>6 DEF S!Next, S!Run

LEMMA ScriptStutter == ASSUME ScriptInv, UNCHANGED scriptVars PROVE ScriptInv'
<1>1. /\ S!Program' = S!Program /\ Table' = Table /\ Blocks' = Blocks /\ Tries' = Tries
      /\ S!Last' <=> S!Last
      /\ S!GoodReport' <=> S!GoodReport
  BY DEF scriptVars, S!Program, Table, Blocks, Tries, S!Last, S!GoodReport
<1>2. PlaceInv'  BY <1>1 DEF ScriptInv, PlaceInv, scriptVars
<1>3. NestInv'  BY <1>1 DEF ScriptInv, NestInv, scriptVars
<1>4. KnownInv'
  <2>1. \A t \in Traces(S!Program) : Present(t)' => Present(t)  BY PresentBefore DEF scriptVars
  <2> QED BY <1>1, <2>1 DEF ScriptInv, KnownInv, Knows, scriptVars
<1>5. NameInv'  BY <1>1 DEF ScriptInv, NameInv, scriptVars
<1>6. LeaveInv' /\ VerdictInv'  BY <1>1 DEF ScriptInv, LeaveInv, VerdictInv, scriptVars
<1> QED BY <1>2, <1>3, <1>4, <1>5, <1>6 DEF ScriptInv

LEMMA ScriptInit == Init => ScriptInv
<1> SUFFICES ASSUME S!Init PROVE ScriptInv
  BY DEF Init
<1>1. /\ mode = "idle" /\ missed = {} /\ stack = << >> /\ exit = 1 /\ report = S!NoReport
  BY DEF S!Init
<1>2. PlaceInv  BY <1>1 DEF PlaceInv, S!NoReport, Reports
<1>3. NestInv /\ KnownInv /\ NameInv /\ LeaveInv /\ VerdictInv
  BY <1>1 DEF NestInv, KnownInv, NameInv, LeaveInv, VerdictInv
<1> QED BY <1>2, <1>3 DEF ScriptInv

LEMMA ScriptNext == ScriptInv /\ [Next]_vars => ScriptInv'
<1> SUFFICES ASSUME ScriptInv, [Next]_vars PROVE ScriptInv'
  OBVIOUS
<1>1. CASE Scripted  BY <1>1, ScriptStep DEF Scripted
<1>2. CASE Threaded \/ Com \/ Terminating \/ Naming \/ Finished \/ UNCHANGED vars
  BY <1>2, ScriptStutter DEF Threaded, Com, Terminating, Naming, Finished, vars
<1> QED BY <1>1, <1>2 DEF Next

LEMMA ScriptInvariant == Spec => []ScriptInv
<1>1. Init => ScriptInv  BY ScriptInit
<1>2. ScriptInv /\ [Next]_vars => ScriptInv'  BY ScriptNext
<1> QED BY <1>1, <1>2, PTL DEF Spec

LEMMA ScriptInvImplies ==
  ScriptInv => S!TypeOK /\ S!ZeroIsDeserved /\ S!NoFalseAlarm /\ S!AllReleased /\ VerdictsAgree
<1> SUFFICES ASSUME ScriptInv PROVE S!TypeOK /\ S!ZeroIsDeserved /\ S!NoFalseAlarm /\ S!AllReleased /\ VerdictsAgree
  OBVIOUS
<1>1. S!TypeOK  BY DEF ScriptInv, PlaceInv, S!TypeOK
<1>2. S!ZeroIsDeserved /\ S!AllReleased
  BY DEF ScriptInv, LeaveInv, S!ZeroIsDeserved, S!AllReleased
<1>3. S!NoFalseAlarm  BY DEF ScriptInv, VerdictInv, S!NoFalseAlarm, S!Over, S!Accepted
<1>4. VerdictsAgree  BY DEF ScriptInv, VerdictInv, VerdictsAgree, S!VerdictsAgree, S!Over
<1> QED BY <1>1, <1>2, <1>3, <1>4

\* The scripted smokes of admin/smokes: main returns zero only if no call has
\* failed that it must not ignore, a smoke whose library never fails is
\* accepted, and whichever way main ends, by a return, an early return or an
\* exception, it has closed what it has opened, but what Leftover and Remains
\* name.
THEOREM ScriptedSmokesAreRight ==
  Spec => [](S!TypeOK /\ S!ZeroIsDeserved /\ S!NoFalseAlarm /\ S!AllReleased)
BY ScriptInvariant, ScriptInvImplies, PTL

\* The exit code of a smoke's last program is zero exactly when its report
\* (SMOKE|CHECK|..., SMOKE|RESULT|...) is one that the BuildEngine accepts.
THEOREM ReportsAndExitCodesAgree == Spec => []VerdictsAgree
BY ScriptInvariant, ScriptInvImplies, PTL

(* The scripted smokes: what is in scope is on the stack. *)

LEMMA MirrorsEmpty == \A p, scope : \E s : Mirrors(<< >>, p, scope, s)
<1> SUFFICES ASSUME NEW p, NEW scope PROVE \E s : Mirrors(<< >>, p, scope, s)
  OBVIOUS
<1> DEFINE s == [i \in 1..0 |-> i]
<1>1. Mirrors(<< >>, p, scope, s)  BY DEF Mirrors
<1> QED BY <1>1

LEMMA MirrorsPush ==
  ASSUME NEW stk \in Seq(Labels), NEW p, NEW scope \in SUBSET Nat, NEW s, Mirrors(stk, p, scope, s),
         NEW i \in Nat, \A c \in scope : c < i, p[i].x \in Labels
  PROVE  \E r : /\ Mirrors(Append(stk, p[i].x), p, scope \cup {i}, r)
                /\ Within(Append(stk, p[i].x), r, i)
                /\ \A d : Within(stk, s, d) => Within(Append(stk, p[i].x), r, d)
<1> DEFINE t == Append(stk, p[i].x)
           n == Len(stk)
           r == [j \in 1..(n + 1) |-> IF j \in 1..n THEN s[j] ELSE i]
<1>1. /\ n \in Nat /\ Len(t) = n + 1
      /\ \A j \in 1..n : t[j] = stk[j]
      /\ t[n + 1] = p[i].x
  BY AppendIs
<1>2. /\ s \in [1..n -> scope]
      /\ \A j, k \in 1..n : j < k => s[j] < s[k]
      /\ \A j \in 1..n : p[s[j]].x = stk[j]
  BY DEF Mirrors
<1> HIDE DEF t, n
<1>3. /\ \A j \in 1..n : j \in 1..(n + 1) /\ r[j] = s[j]
      /\ r[n + 1] = i /\ n + 1 \in 1..(n + 1)
      /\ \A j \in 1..(n + 1) : j \in 1..n \/ j = n + 1
  BY <1>1
<1>4. r \in [1..(n + 1) -> scope \cup {i}]  BY <1>2
<1> HIDE DEF r
<1>5. ASSUME NEW j \in 1..(n + 1), NEW k \in 1..(n + 1), j < k PROVE r[j] < r[k]
  <2>1. j \in 1..n  BY <1>1, <1>5
  <2>2. CASE k \in 1..n  BY <1>2, <1>3, <1>5, <2>1, <2>2
  <2>3. CASE k = n + 1
    <3>1. s[j] \in scope  BY <1>2, <2>1
    <3> QED BY <1>3, <2>1, <2>3, <3>1
  <2> QED BY <1>3, <2>2, <2>3
<1>6. ASSUME NEW j \in 1..(n + 1) PROVE p[r[j]].x = t[j]
  <2>1. CASE j \in 1..n  BY <1>1, <1>2, <1>3, <2>1
  <2>2. CASE j = n + 1  BY <1>1, <1>3, <2>2
  <2> QED BY <1>3, <2>1, <2>2
<1>7. Mirrors(t, p, scope \cup {i}, r)  BY <1>1, <1>4, <1>5, <1>6 DEF Mirrors
<1>8. Within(t, r, i)  BY <1>1, <1>3 DEF Within
<1>9. \A d : Within(stk, s, d) => Within(t, r, d)  BY <1>1, <1>3 DEF Within, n
<1> QED BY <1>7, <1>8, <1>9 DEF t

LEMMA MirrorsPop ==
  ASSUME NEW stk \in Seq(Labels), stk # << >>, NEW p, NEW scope \in SUBSET Nat,
         NEW s, Mirrors(stk, p, scope, s), NEW rest,
         \A c \in scope : c < s[Len(stk)] => c \in rest
  PROVE  \E r : /\ Mirrors(SubSeq(stk, 1, Len(stk) - 1), p, rest, r)
                /\ \A d : Within(stk, s, d) /\ d # s[Len(stk)] =>
                            Within(SubSeq(stk, 1, Len(stk) - 1), r, d)
<1> DEFINE t == SubSeq(stk, 1, Len(stk) - 1)
           n == Len(stk)
           m == Len(t)
           r == [j \in 1..m |-> s[j]]
<1>1. /\ n \in Nat /\ m = n - 1 /\ n > 0
      /\ \A j \in 1..m : t[j] = stk[j]
  BY FrontIs
<1>2. /\ s \in [1..n -> scope]
      /\ \A j, k \in 1..n : j < k => s[j] < s[k]
      /\ \A j \in 1..n : p[s[j]].x = stk[j]
  BY DEF Mirrors
<1>0. \A c \in scope : c < s[n] => c \in rest  OBVIOUS
<1> HIDE DEF t, n, m
<1>3. \A j \in 1..m : j \in 1..n /\ j < n /\ n \in 1..n  BY <1>1
<1>4. \A j \in 1..m : s[j] \in rest  BY <1>0, <1>2, <1>3
<1>5. r \in [1..m -> rest] /\ \A j \in 1..m : r[j] = s[j]  BY <1>4
<1> HIDE DEF r
<1>6. Mirrors(t, p, rest, r)  BY <1>1, <1>2, <1>3, <1>5 DEF Mirrors, m
<1>7. ASSUME NEW d, Within(stk, s, d), d # s[n] PROVE Within(t, r, d)
  <2>1. PICK j \in 1..n : s[j] = d  BY <1>7 DEF Within, n
  <2>2. j \in 1..m  BY <1>1, <1>7, <2>1
  <2> QED BY <1>5, <2>1, <2>2 DEF Within, m
<1> QED BY <1>6, <1>7 DEF t, n

\* The rules of the scopes.
LEMMA ScopesKept ==
  ASSUME PlaceInv, mode # "idle"
  PROVE  WellScoped(S!Program, Table, ScopeTable) /\ UsedInTime(S!Program, Table, ScopeTable)
<1>1. /\ S!Program = Scripts[smoke][part] /\ part \in DOMAIN Scripts[smoke]
      /\ smoke \in DOMAIN Scripts
  BY ProgramIs
<1>2. /\ WellScoped(Scripts[smoke][part], Knowledge[smoke][part], Scopes[smoke][part])
      /\ UsedInTime(Scripts[smoke][part], Knowledge[smoke][part], Scopes[smoke][part])
  BY <1>1, ScopesAssumption
<1> QED BY <1>1, <1>2 DEF Table, ScopeTable

\* What is in scope: older than the instruction, blocks and objects, the
\* objects with names of their own.
LEMMA ScopeIs ==
  ASSUME PlaceInv, mode # "idle"
  PROVE  /\ Scope \in SUBSET Nat /\ \A d \in Scope : d < at /\ d \in DOMAIN S!Program
         /\ \A d \in Scope : S!Program[d].op \in Opening \/ S!Program[d].op \in Automatic
         /\ \A d \in Scope : S!Program[d].op \in Opening <=> S!Program[d].x \in Blocks
         /\ \A d \in Scope : S!Program[d].op = "try" <=> S!Program[d].x \in Tries
         /\ \A d \in Scope : S!Program[d].op \in Automatic <=> S!Program[d].x \in NamesOf(S!Program, Automatic)
         /\ \A d \in Scope : S!Program[d].op \notin Opening <=> S!Program[d].op \in Automatic
         /\ \A c, d \in Scope :
              S!Program[c].op \in Automatic /\ S!Program[d].op \in Automatic
                /\ S!Program[c].x = S!Program[d].x => c = d
<1>1. /\ WellScoped(S!Program, Table, ScopeTable) /\ WellNested(S!Program, Table)
      /\ at \in DOMAIN S!Program /\ at \in Nat /\ at <= Len(S!Program) /\ Len(S!Program) \in Nat
      /\ S!Program \in Seq(Instructions)
  BY ScopesKept, RulesKept, HereIs, ProgramIs DEF PlaceInv
<1>2. /\ Scope \subseteq 1..(at - 1)
      /\ \A d \in Scope : S!Program[d].op \in Opening \cup Automatic
      /\ \A c \in Scope, d \in Scope \cup {at} :
           S!Program[c].op \in Automatic /\ S!Program[d].op \in Automatic
             /\ S!Program[c].x = S!Program[d].x => c = d
  BY <1>1 DEF WellScoped, Scope
<1>3. /\ Blocks \cap NamesOf(S!Program, Automatic) = {}
      /\ NamesOf(S!Program, {"block"}) \cap NamesOf(S!Program, {"try"}) = {}
  BY <1>1 DEF WellNested, Blocks
<1>4. \A d \in Scope : d \in Nat /\ d < at /\ d \in DOMAIN S!Program  BY <1>1, <1>2
<1>5. ASSUME NEW d \in Scope
      PROVE  /\ S!Program[d].op \in Opening => S!Program[d].x \in Blocks
             /\ S!Program[d].op = "try" => S!Program[d].x \in Tries
             /\ S!Program[d].op = "block" => S!Program[d].x \in NamesOf(S!Program, {"block"})
             /\ S!Program[d].op \in Automatic => S!Program[d].x \in NamesOf(S!Program, Automatic)
             /\ S!Program[d].op \in {"block", "try"} \/ S!Program[d].op \in Automatic
             /\ S!Program[d].op \in Opening <=> S!Program[d].op \in {"block", "try"}
             /\ ~(S!Program[d].op \in Opening /\ S!Program[d].op \in Automatic)
  BY <1>2, <1>4 DEF NamesOf, Blocks, Tries, Opening, Automatic
<1>6. Tries \subseteq Blocks  BY DEF Tries, Blocks, NamesOf
<1>7. ASSUME NEW d \in Scope
      PROVE  /\ S!Program[d].op \in Opening <=> S!Program[d].x \in Blocks
             /\ S!Program[d].op \in Automatic <=> S!Program[d].x \in NamesOf(S!Program, Automatic)
             /\ S!Program[d].op \notin Opening <=> S!Program[d].op \in Automatic
             /\ S!Program[d].op \in Opening \/ S!Program[d].op \in Automatic
    BY <1>3, <1>5
<1>8. ASSUME NEW d \in Scope PROVE S!Program[d].op = "try" <=> S!Program[d].x \in Tries
  <2>1. S!Program[d].x \in Tries => S!Program[d].op \in {"block", "try"}  BY <1>5, <1>6, <1>7
  <2> QED BY <1>3, <1>5, <2>1 DEF Tries
<1> QED BY <1>2, <1>4, <1>7, <1>8

\* The object on the stack is not there twice.
LEMMA NotTwice ==
  ASSUME PlaceInv, mode # "idle", NEW s, Mirrors(stack, S!Program, Scope, s),
         NEW i \in 1..Len(stack), NEW j \in 1..Len(stack), stack[i] = stack[j], stack[i] \notin Blocks
  PROVE  i = j
<1>1. /\ s[i] \in Scope /\ s[j] \in Scope /\ Len(stack) \in Nat
      /\ S!Program[s[i]].x = stack[i] /\ S!Program[s[j]].x = stack[j]
      /\ i < j => s[i] < s[j]
      /\ j < i => s[j] < s[i]
  BY DEF Mirrors, PlaceInv
<1>2. S!Program[s[i]].op \in Automatic /\ S!Program[s[j]].op \in Automatic  BY <1>1, ScopeIs
<1>3. s[i] = s[j] /\ s[i] \in Nat  BY <1>1, <1>2, ScopeIs
<1> QED BY <1>1, <1>3

\* What is due later is in scope then, and is a block or has turned out well.
LEMMA DueLater ==
  ASSUME S!Program' = S!Program, NEW d, Due(d)'
  PROVE  d \in Scope' /\ (S!Program[d].op \in Opening \/ S!Program[d].x \in facts')
BY DEF Due

LEMMA StackEvent == ASSUME ScriptInv, StackInv, NEW e, Event(e) PROVE StackInv'
<1>0. /\ mode = "run" /\ mode # "idle" /\ PlaceInv /\ Happens(S!Here, e, facts)
      /\ e \in Events(S!Here) /\ facts' = Result(S!Here, e, facts)
  BY DEF Event, ScriptInv, Happens
<1>1. /\ S!Here = S!Program[at] /\ at \in DOMAIN S!Program /\ S!Here.x \in Labels /\ at \in Nat
      /\ at <= Len(S!Program) /\ Len(S!Program) \in Nat /\ stack \in Seq(Labels)
      /\ WellScoped(S!Program, Table, ScopeTable) /\ WellNested(S!Program, Table)
  BY <1>0, HereIs, ScopesKept, RulesKept DEF PlaceInv
<1>2. S!Program' = S!Program /\ ScopeTable' = ScopeTable /\ Scope' = ScopeTable[at']
  BY <1>0 DEF Event, S!Program, ScopeTable, Scope
<1>3. PICK s : Mirrors(stack, S!Program, Scope, s) /\ \A d : Due(d) => Within(stack, s, d)
  BY <1>0 DEF StackInv
<1>4. /\ Scope \in SUBSET Nat /\ \A d \in Scope : d < at
      /\ \A d \in Scope : S!Program[d].op \notin Opening => S!Program[d].op \in Automatic /\ S!Program[d].x \in NamesOf(S!Program, Automatic)
  BY <1>0, ScopeIs
<1>5. \A d \in Scope : S!Here.op \notin {"end", "catch"} /\ (S!Program[d].op \in Opening \/ S!Program[d].x \in facts) => Due(d)
  BY <1>0 DEF Due
<1>6. CASE Leads(S!Here, e) = "leave"
  <2>1. stack' = stack /\ at' = at /\ mode' = "leave"  BY <1>6, LeavingEvents DEF Event
  <2>2. Mirrors(stack', S!Program', Scope', s)  BY <1>2, <1>3, <2>1 DEF Scope
  <2> QED BY <2>1, <2>2 DEF StackInv
<1>7. CASE Leads(S!Here, e) = "throw"
  <2>1. \/ e = "miss" /\ S!Here.op \in {"invoke", "own"}
        \/ e = "bad" /\ S!Here.op = "demand"
    BY <1>7 DEF Leads
  <2>2. stack' = stack /\ at' = at /\ mode' = "throw" /\ facts' \subseteq facts
    BY <1>0, <1>7, <2>1 DEF Event, Result
  <2>3. Mirrors(stack', S!Program', Scope', s)  BY <1>2, <1>3, <2>2 DEF Scope
  <2>4. ASSUME NEW d, Due(d)' PROVE Within(stack', s, d)
    <3>1. d \in Scope /\ (S!Program[d].op \in Opening \/ S!Program[d].x \in facts)
      BY <1>2, <2>2, <2>4, DueLater DEF Scope
    <3>2. Due(d)  BY <1>5, <2>1, <3>1
    <3> QED BY <1>3, <2>2, <3>2
  <2> QED BY <2>3, <2>4 DEF StackInv
<1>8. CASE Leads(S!Here, e) = "next"
  <2>0. /\ at' = at + 1 /\ mode' = "run" /\ at + 1 \in DOMAIN S!Program
        /\ Scope' = ScopeAfter(S!Program, at, Scope)
    <3>1. at' = at + 1 /\ mode' = "run" /\ at + 1 \in DOMAIN S!Program /\ at < Len(S!Program)
      BY <1>8, NextThere DEF Event
    <3>2. ScopeTable[at + 1] = ScopeAfter(S!Program, at, ScopeTable[at])
      BY <1>1, <3>1 DEF WellScoped
    <3> QED BY <1>2, <3>1, <3>2 DEF Scope
  <2>1. CASE S!Here.op \in Opening
    <3>1. e = "plain"
      BY <1>0, <1>1, <2>1 DEF Events, Giving, Failing, Asking, Opening, WellNested, Happens
    <3>2. stack' = Append(stack, S!Here.x) /\ facts' = facts /\ Scope' = Scope \cup {at}
      BY <1>0, <1>1, <2>0, <2>1, <3>1 DEF Event, Result, ScopeAfter, Opening
    <3>3. PICK q : /\ Mirrors(stack', S!Program, Scope \cup {at}, q)
                   /\ Within(stack', q, at)
                   /\ \A d : Within(stack, s, d) => Within(stack', q, d)
      BY <1>1, <1>3, <1>4, <3>2, MirrorsPush
    <3>4. ASSUME NEW d, Due(d)' PROVE Within(stack', q, d)
      <4>1. d \in Scope \cup {at} /\ (S!Program[d].op \in Opening \/ S!Program[d].x \in facts)
        BY <1>2, <3>2, <3>4, DueLater
      <4>2. d # at => Due(d)  BY <1>5, <2>1, <4>1 DEF Opening
      <4> QED BY <1>3, <3>3, <4>1, <4>2
    <3> QED BY <1>2, <3>2, <3>3, <3>4 DEF StackInv
  <2>2. CASE S!Here.op \in Automatic
    <3>0. /\ e \in {"skip", "hit", "miss"} /\ Scope' = Scope \cup {at}
          /\ S!Here.op \notin {"end", "catch"} /\ S!Here.op \notin Opening
      BY <1>0, <1>1, <2>0, <2>2 DEF Events, Giving, Failing, Asking, Automatic, ScopeAfter, Opening
    <3>1. CASE e = "hit"
      <4>1. stack' = Append(stack, S!Here.x) /\ facts' = facts \cup {S!Here.x}
        BY <1>0, <2>2, <3>1 DEF Event, Result
      <4>2. PICK q : /\ Mirrors(stack', S!Program, Scope \cup {at}, q)
                     /\ Within(stack', q, at)
                     /\ \A d : Within(stack, s, d) => Within(stack', q, d)
        BY <1>1, <1>3, <1>4, <4>1, MirrorsPush
      <4>3. ASSUME NEW d, Due(d)' PROVE Within(stack', q, d)
        <5>1. d \in Scope \cup {at} /\ (S!Program[d].op \in Opening \/ S!Program[d].x \in facts \cup {S!Here.x})
          BY <1>2, <3>0, <4>1, <4>3, DueLater
        <5>2. ASSUME d \in Scope, S!Program[d].op \notin Opening PROVE S!Program[d].x # S!Here.x
          <6>1. S!Program[d].op \in Automatic /\ d < at  BY <1>4, <5>2
          <6>2. S!Program[d].x = S!Here.x => d = at
            BY <1>1, <2>2, <5>2, <6>1 DEF WellScoped, Scope
          <6> QED BY <1>1, <6>1, <6>2
        <5>3. d # at => Due(d)  BY <1>5, <3>0, <5>1, <5>2
        <5> QED BY <1>3, <4>2, <5>1, <5>3
      <4> QED BY <1>2, <3>0, <4>1, <4>2, <4>3 DEF StackInv
    <3>2. CASE e \in {"skip", "miss"}
      <4>1. stack' = stack /\ facts' \subseteq facts /\ S!Here.x \notin facts'
        <5>1. e = "skip" => S!Here.x \notin facts
          <6> SUFFICES ASSUME e = "skip" PROVE S!Here.x \notin facts
            OBVIOUS
          <6>1. Sat(Table[at].run[Always], facts)
            BY <1>0, AlwaysThere DEF ScriptInv, KnownInv, Knows
          <6>2. May(S!Here, "skip", Table[at].run[Always])  BY <1>0, <6>1, SatAfter
          <6>3. Refuted(Table[at].run[Always], {S!Here.x})  BY <1>1, <2>2, <6>2 DEF WellScoped
          <6> QED BY <6>1, <6>3, SatRefuted
        <5> QED BY <1>0, <3>2, <5>1 DEF Event, Result
      <4>2. Mirrors(stack', S!Program, Scope \cup {at}, s)  BY <1>3, <4>1 DEF Mirrors
      <4>3. ASSUME NEW d, Due(d)' PROVE Within(stack', s, d)
        <5>1. d \in Scope \cup {at} /\ (S!Program[d].op \in Opening \/ S!Program[d].x \in facts')
          BY <1>2, <3>0, <4>3, DueLater
        <5>2. d # at  BY <1>1, <3>0, <4>1, <5>1
        <5>3. Due(d)  BY <1>5, <3>0, <4>1, <5>1, <5>2
        <5> QED BY <1>3, <4>1, <5>3
      <4> QED BY <1>2, <3>0, <4>2, <4>3 DEF StackInv
    <3> QED BY <3>0, <3>1, <3>2
  <2>3. CASE S!Here.op \in {"end", "catch"}
    <3>1. e = "plain"
      BY <1>0, <1>1, <2>3 DEF Events, Giving, Failing, Asking, WellNested, Happens
    <3>2. /\ stack' = SubSeq(stack, 1, Len(stack) - 1) /\ facts' = facts
          /\ Scope' = {c \in Scope : \E d \in Scope : S!Program[d].op \in Opening /\ c < d}
          /\ stack[Len(stack)] \in Blocks /\ stack # << >>
      <4>1. S!Here.op \notin Opening \cup Automatic  BY <2>3 DEF Opening, Automatic
      <4>2. Scope' = {c \in Scope : \E d \in Scope : S!Program[d].op \in Opening /\ c < d}
        BY <1>1, <2>0, <2>3, <4>1 DEF ScopeAfter
      <4>3. stack' = SubSeq(stack, 1, Len(stack) - 1) /\ facts' = facts
        BY <1>0, <2>3, <3>1, <4>1 DEF Event, Result, Opening
      <4> QED BY <1>0, <2>3, <3>1, <4>2, <4>3, EndsBlock, NamesAre DEF Event, Blocks, S!Opening
    <3> DEFINE top == s[Len(stack)]
    <3>3. top \in Scope /\ S!Program[top].op \in Opening
      <4>1. Len(stack) \in 1..Len(stack)  BY <1>1, <3>2
      <4>2. top \in Scope /\ S!Program[top].x = stack[Len(stack)]  BY <1>3, <4>1 DEF Mirrors
      <4> QED BY <1>0, <3>2, <4>2, ScopeIs
    <3> HIDE DEF top
    <3>4. ASSUME NEW c \in Scope, S!Program[c].op \in Opening PROVE c <= top
      <4>1. Due(c)  BY <1>0, <1>4, <3>4 DEF Due
      <4>2. PICK i \in 1..Len(stack) : s[i] = c  BY <1>3, <4>1 DEF Within
      <4>3. Len(stack) \in 1..Len(stack) /\ (i < Len(stack) \/ i = Len(stack))  BY <1>1, <4>2
      <4>4. s[i] < top \/ s[i] = top  BY <1>3, <4>3 DEF Mirrors, top
      <4> QED BY <1>4, <3>3, <4>2, <4>4
    <3>5. \A c \in Scope : c < top <=> c \in Scope'  BY <1>4, <3>2, <3>3, <3>4
    <3>6. PICK q : /\ Mirrors(stack', S!Program, Scope', q)
                   /\ \A d : Within(stack, s, d) /\ d # top => Within(stack', q, d)
      BY <1>1, <1>3, <1>4, <3>2, <3>5, MirrorsPop DEF top
    <3>7. ASSUME NEW d, Due(d)' PROVE Within(stack', q, d)
      <4>1. d \in Scope' /\ (S!Program[d].op \in Opening \/ S!Program[d].x \in facts)
        BY <1>2, <3>2, <3>7, DueLater
      <4>2. d \in Scope /\ d < top  BY <3>2, <3>5, <4>1
      <4>3. d # top /\ d <= top  BY <1>4, <3>3, <4>2
      <4>4. Due(d)  BY <1>0, <3>3, <4>1, <4>2, <4>3 DEF Due
      <4> QED BY <1>3, <3>6, <4>3, <4>4
    <3> QED BY <1>2, <3>6, <3>7 DEF StackInv
  <2>4. CASE S!Here.op \notin Opening \cup Automatic \cup {"end", "catch"}
    <3>1. stack' = stack /\ Scope' = Scope  BY <1>1, <2>0, <2>4 DEF Event, ScopeAfter, Opening
    <3>2. Mirrors(stack', S!Program', Scope', s)  BY <1>2, <1>3, <3>1
    <3>3. facts' \subseteq facts \/ (facts' = facts \cup {S!Here.x} /\ S!Here.x \notin NamesOf(S!Program, Automatic))
      <4>1. e = "hit" => S!Here.op \in Giving  BY <1>0 DEF Events, Giving, Failing, Asking
      <4>2. e = "hit" => S!Here.x \in NamesOf(S!Program, Giving \ Automatic)
        BY <1>1, <2>4, <4>1 DEF NamesOf
      <4>3. e = "hit" => S!Here.x \notin NamesOf(S!Program, Automatic)
        BY <1>1, <4>2 DEF WellScoped
      <4> QED BY <1>0, <4>3 DEF Result
    <3>4. ASSUME NEW d, Due(d)' PROVE Within(stack', s, d)
      <4>1. d \in Scope /\ (S!Program[d].op \in Opening \/ S!Program[d].x \in facts')
        BY <1>2, <3>1, <3>4, DueLater
      <4>2. S!Program[d].op \in Opening \/ S!Program[d].x \in facts  BY <1>4, <3>3, <4>1
      <4>3. Due(d)  BY <1>5, <2>4, <4>1, <4>2
      <4> QED BY <1>3, <3>1, <4>3
    <3> QED BY <3>2, <3>4 DEF StackInv
  <2> QED BY <2>1, <2>2, <2>3, <2>4
<1> QED BY <1>6, <1>7, <1>8 DEF Leads

\* What is taken off the stack at the end of a block or on the way to a handler
\* is not due, unless it is a block, or a try block.
LEMMA TopIsLast ==
  ASSUME PlaceInv, mode # "idle", NEW s, Mirrors(stack, S!Program, Scope, s),
         \A d : Due(d) => Within(stack, s, d), stack # << >>
  PROVE  /\ s[Len(stack)] \in Scope /\ S!Program[s[Len(stack)]].x = stack[Len(stack)]
         /\ \A d : Due(d) => d <= s[Len(stack)] /\ d \in Scope
<1>1. stack \in Seq(Labels) /\ Len(stack) \in 1..Len(stack)  BY DEF PlaceInv
<1>2. s[Len(stack)] \in Scope /\ S!Program[s[Len(stack)]].x = stack[Len(stack)]
  BY <1>1 DEF Mirrors
<1>3. ASSUME NEW d, Due(d) PROVE d <= s[Len(stack)] /\ d \in Scope
  <2>1. PICK i \in 1..Len(stack) : s[i] = d  BY <1>3 DEF Within
  <2>2. i < Len(stack) \/ i = Len(stack)  BY <1>1, <2>1
  <2>3. s[i] < s[Len(stack)] \/ s[i] = s[Len(stack)]  BY <1>1, <2>1, <2>2 DEF Mirrors
  <2>4. d \in Scope /\ d \in Nat /\ s[Len(stack)] \in Nat  BY <1>2, <1>3, ScopeIs DEF Due
  <2> QED BY <1>2, <2>1, <2>3, <2>4
<1> QED BY <1>2, <1>3

LEMMA TopIsKept ==
  ASSUME PlaceInv, mode # "idle", NEW s, Mirrors(stack, S!Program, Scope, s),
         \A d : Due(d) => Within(stack, s, d), stack # << >>, Due(s[Len(stack)])
  PROVE  /\ mode = "run" /\ S!Here.op \in {"end", "catch"} => stack[Len(stack)] \in Blocks
         /\ mode = "throw" => stack[Len(stack)] \in Tries
<1> DEFINE top == s[Len(stack)]
<1>1. /\ top \in Scope /\ S!Program[top].x = stack[Len(stack)]
      /\ \A d : Due(d) => d <= top /\ d \in Scope
  BY TopIsLast
<1>2. /\ \A d \in Scope : d \in Nat
      /\ \A d \in Scope : S!Program[d].op \in Opening <=> S!Program[d].x \in Blocks
      /\ \A d \in Scope : S!Program[d].op = "try" <=> S!Program[d].x \in Tries
  BY ScopeIs
<1> HIDE DEF top
<1>3. ASSUME mode = "run", S!Here.op \in {"end", "catch"} PROVE stack[Len(stack)] \in Blocks
  <2>1. PICK c \in Scope : S!Program[c].op \in Opening /\ top <= c  BY <1>3 DEF Due, top
  <2>2. Due(c)  BY <1>2, <1>3, <2>1 DEF Due
  <2>3. c = top  BY <1>1, <1>2, <2>1, <2>2
  <2> QED BY <1>1, <1>2, <2>1, <2>3
<1>4. ASSUME mode = "throw" PROVE stack[Len(stack)] \in Tries
  <2>1. PICK c \in Scope : S!Program[c].op = "try" /\ top <= c  BY <1>4 DEF Due, top
  <2>2. Due(c)  BY <1>2, <1>4, <2>1 DEF Due, Opening
  <2>3. c = top  BY <1>1, <1>2, <2>1, <2>2
  <2> QED BY <1>1, <1>2, <2>1, <2>3
<1> QED BY <1>3, <1>4

LEMMA StackUnwind ==
  ASSUME ScriptInv, StackInv, Unwinding, at' = at, mode' = mode,
         mode = "run" => S!Here.op \in {"end", "catch"} /\ stack[Len(stack)] \notin Blocks,
         mode = "throw" => stack[Len(stack)] \notin Tries
  PROVE  StackInv'
<1>0. /\ mode # "idle" /\ PlaceInv /\ stack # << >> /\ stack \in Seq(Labels)
      /\ stack' = SubSeq(stack, 1, Len(stack) - 1) /\ facts' = facts
      /\ mode \in {"run", "throw", "leave"}
      /\ S!Program' = S!Program /\ Scope' = Scope /\ S!Here' = S!Here
  BY DEF Unwinding, ScriptInv, PlaceInv, S!Program, Scope, ScopeTable, S!Here
<1>1. PICK s : /\ Mirrors(stack, S!Program, Scope, s)
               /\ mode # "leave" => \A d : Due(d) => Within(stack, s, d)
  BY <1>0 DEF StackInv
<1>2. Scope \in SUBSET Nat  BY <1>0, ScopeIs
<1>3. PICK q : /\ Mirrors(stack', S!Program, Scope, q)
               /\ \A d : Within(stack, s, d) /\ d # s[Len(stack)] => Within(stack', q, d)
  BY <1>0, <1>1, <1>2, MirrorsPop
<1>4. ASSUME mode # "leave", NEW d, Due(d)' PROVE Within(stack', q, d)
  <2>1. Due(d)  BY <1>0, <1>4 DEF Due
  <2>2. d # s[Len(stack)]  BY <1>0, <1>1, <1>4, <2>1, TopIsKept
  <2> QED BY <1>1, <1>3, <1>4, <2>1, <2>2
<1> QED BY <1>0, <1>3, <1>4 DEF StackInv

LEMMA StackCaught == ASSUME ScriptInv, StackInv, S!Caught PROVE StackInv'
<1>0. /\ mode = "throw" /\ mode # "idle" /\ mode' = "run" /\ PlaceInv /\ stack # << >> /\ stack \in Seq(Labels)
      /\ stack' = SubSeq(stack, 1, Len(stack) - 1) /\ facts' = facts
      /\ stack[Len(stack)] = S!Top /\ S!Top \in Tries
      /\ S!Program' = S!Program /\ ScopeTable' = ScopeTable
  BY NamesAre DEF S!Caught, S!Top, S!Pop, ScriptInv, PlaceInv, S!Program, ScopeTable, Tries
<1>1. PICK h \in DOMAIN S!Program :
        /\ at' = h + 1 /\ HandlerOf(S!Program, at, S!Top, h) /\ h \in at..Len(S!Program)
  BY CaughtPlace
<1>2. PICK s : Mirrors(stack, S!Program, Scope, s) /\ \A d : Due(d) => Within(stack, s, d)
  BY <1>0 DEF StackInv
<1> DEFINE top == s[Len(stack)]
<1>3. /\ Scope \in SUBSET Nat /\ \A d \in Scope : d \in Nat
      /\ \A d \in Scope : S!Program[d].op = "try" <=> S!Program[d].x \in Tries
  BY <1>0, ScopeIs
<1>4. /\ top \in Scope /\ S!Program[top].x = stack[Len(stack)]
      /\ \A d : Due(d) => d <= top /\ d \in Scope
  BY <1>0, <1>2, TopIsLast
<1> HIDE DEF top
<1>5. LastOf(S!Program, Scope, {"try"}, top)
  <2>1. \A c \in Scope : S!Program[c].op = "try" => Due(c)  BY <1>0, <1>3 DEF Due, Opening
  <2> QED BY <1>0, <1>3, <1>4, <2>1 DEF LastOf
<1>6. Scope' = {c \in Scope : c < top}
  <2>1. WellScoped(S!Program, Table, ScopeTable) /\ at \in DOMAIN S!Program
    BY <1>0, ScopesKept DEF PlaceInv
  <2>3. \A d \in Scope, g \in at..Len(S!Program) :
          LastOf(S!Program, Scope, {"try"}, d) /\ HandlerOf(S!Program, at, S!Program[d].x, g) =>
            ScopeTable[g + 1] = {c \in Scope : c < d}
    <3>1. HandlersScoped(S!Program, at, ScopeTable)  BY <2>1 DEF WellScoped
    <3> QED BY <3>1 DEF HandlersScoped, Scope
  <2>2. ScopeTable[h + 1] = {c \in Scope : c < top}  BY <1>0, <1>1, <1>4, <1>5, <2>3
  <2> QED BY <1>0, <1>1, <2>2 DEF Scope
<1>7. PICK q : /\ Mirrors(stack', S!Program, Scope', q)
               /\ \A d : Within(stack, s, d) /\ d # top => Within(stack', q, d)
  BY <1>0, <1>2, <1>3, <1>6, MirrorsPop DEF top
<1>8. ASSUME NEW d, Due(d)' PROVE Within(stack', q, d)
  <2>1. d \in Scope' /\ (S!Program[d].op \in Opening \/ S!Program[d].x \in facts)
    BY <1>0, <1>8, DueLater
  <2>5. d \in Scope /\ d < top  BY <1>6, <2>1
  <2>6. d \in Nat /\ top \in Nat  BY <1>3, <1>4, <2>5
  <2>2. d \in Scope /\ d < top /\ d # top /\ d <= top  BY <2>5, <2>6
  <2>3. S!Program[top].op = "try"  BY <1>0, <1>3, <1>4
  <2>4. Due(d)  BY <1>0, <1>4, <2>1, <2>2, <2>3 DEF Due
  <2> QED BY <1>2, <1>7, <2>2, <2>4
<1> QED BY <1>0, <1>7, <1>8 DEF StackInv

LEMMA StackFresh ==
  ASSUME S!Fresh, smoke' \in DOMAIN Scripts, script' = Scripts[smoke'], part' \in DOMAIN script'
  PROVE  StackInv'
<1>1. WellScoped(Scripts[smoke'][part'], Knowledge[smoke'][part'], Scopes[smoke'][part'])
  BY ScopesAssumption
<1>2. Scope' = {} /\ stack' = << >>  BY <1>1 DEF S!Fresh, Scope, ScopeTable, WellScoped
<1>3. PICK s : Mirrors(<< >>, S!Program', {}, s)  BY MirrorsEmpty
<1>4. \A d : ~Due(d)'  BY <1>2 DEF Due
<1> QED BY <1>2, <1>3, <1>4 DEF StackInv

(* The scripted smokes: nothing is used after its end. *)

LEMMA TouchesNothing ==
  ASSUME links' = links, misuse' = misuse, S!Here.op # "close", NEW e
  PROVE  Touching(e)
BY DEF Touching

LEMMA TouchesOn ==
  ASSUME links' = links, S!Touch(S!Here.on), S!Here.op \in {"call", "invoke", "use"},
         NEW e, e # "skip"
  PROVE  Touching(e)
<1>1. Touched(S!Here) = S!Here.on  BY DEF Touched, Handles
<1> QED BY <1>1 DEF Touching, S!Touch

LEMMA TouchesOpened ==
  ASSUME S!Touch(S!Here.on), S!Here.op \in Handles, NEW e \in {"hit", "miss"}, Event(e),
         \/ S!Hit /\ links' = links \cup {<<S!Here.x, y>> : y \in S!Here.on}
         \/ S!Miss /\ links' = links
  PROVE  Touching(e)
<1>1. Touched(S!Here) = S!Here.on /\ S!Here.op # "close"  BY DEF Touched, Handles
<1>2. facts' = Result(S!Here, e, facts)  BY DEF Event
<1>3. CASE e = "hit"  BY <1>1, <1>3 DEF Touching, S!Touch, Links
<1>4. CASE e = "miss"
  <2>1. S!Here.x \notin facts'  BY <1>2, <1>4 DEF Result
  <2>2. links' = links  BY <2>1 DEF S!Hit
  <2> QED BY <1>1, <1>4, <2>2 DEF Touching, S!Touch
<1> QED BY <1>3, <1>4

LEMMA TouchesClosed == ASSUME S!Close PROVE Touching("plain")
<1>1. Touched(S!Here) = {S!Here.x}  BY DEF S!Close, S!Step, Touched, Handles
<1> QED BY <1>1 DEF S!Close, S!Release, Touching

LEMMA TouchesAttached == ASSUME S!Attach PROVE Touching("plain")
<1>1. Touched(S!Here) = {S!Here.x} \cup S!Here.on /\ S!Here.op = "attach"
  BY DEF S!Attach, S!Step, Touched, Handles
<1> QED BY <1>1 DEF S!Attach, S!Touch, Touching, Links

LEMMA EveryTouch ==
  ASSUME PlaceInv,
         \/ S!Skip \/ S!Call \/ S!Invoke \/ S!Use \/ S!Mark \/ S!Open \/ S!Hold \/ S!Own
         \/ S!Attach \/ S!Close \/ S!OpenBlock \/ S!CloseBlock \/ (S!Insert /\ mode' # "ended")
         \/ S!Demand \/ S!Leave \/ S!Return \/ S!Check \/ S!Result
  PROVE  Touch
<1>1. CASE S!Skip
  <2>1. Touching("skip")
    <3>1. links' = links /\ misuse' = misuse  BY <1>1 DEF S!Skip
    <3> QED BY <3>1 DEF Touching
  <2> QED BY <1>1, <2>1, SkipEvent DEF Touch
<1>2. CASE S!Call \/ S!Invoke \/ S!Use
  <2>1. \A e : e # "skip" => Touching(e)
    BY <1>2, TouchesOn DEF S!Call, S!Invoke, S!Use, S!Step
  <2> QED BY <1>2, <2>1, CallEvent, InvokeEvent, PlainEvent DEF Touch
<1>3. CASE S!Mark \/ S!OpenBlock \/ S!CloseBlock \/ (S!Insert /\ mode' # "ended")
  <2>1. \A e : Touching(e)
    BY <1>3, TouchesNothing DEF S!Mark, S!OpenBlock, S!CloseBlock, S!Insert, S!Step, S!Opening
  <2> QED BY <1>3, <2>1, MarkEvent, PlainEvent DEF Touch
<1>4. CASE S!Demand \/ S!Leave \/ S!Return \/ S!Check \/ S!Result
  <2>1. \A e : Touching(e)
    BY <1>4, TouchesNothing DEF S!Demand, S!Leave, S!Return, S!Check, S!Result, S!Step
  <2> QED BY <1>4, <2>1, DemandEvent, LeaveEvent, ReturnEvent, CheckEvent, ResultEvent DEF Touch
<1>5. CASE S!Open \/ S!Hold \/ S!Own
  <2>1. \A e \in {"hit", "miss"} : Event(e) => Touching(e)
    BY <1>5, TouchesOpened DEF S!Open, S!Hold, S!Own, S!Step, S!Acquired, Handles
  <2> QED BY <1>5, <2>1, OpenEvent, HoldEvent, OwnEvent DEF Touch
<1>6. CASE S!Attach \/ S!Close  BY <1>6, TouchesAttached, TouchesClosed, PlainEvent DEF Touch
<1> QED BY <1>1, <1>2, <1>3, <1>4, <1>5, <1>6

\* What main touches exists.
LEMMA TouchedLives ==
  ASSUME ScriptInv, StackInv, DangleInv, NEW e, Event(e), e # "skip"
  PROVE  Touched(S!Here) \subseteq live
<1> SUFFICES ASSUME NEW y \in Touched(S!Here) PROVE y \in live
  OBVIOUS
<1>0. /\ mode = "run" /\ mode # "idle" /\ PlaceInv /\ Happens(S!Here, e, facts) /\ e \in Events(S!Here)
  BY DEF Event, ScriptInv, Happens
<1>1. /\ S!Here = S!Program[at] /\ at \in DOMAIN S!Program
      /\ UsedInTime(S!Program, Table, ScopeTable)
  BY <1>0, HereIs, ScopesKept DEF PlaceInv
<1>2. \/ /\ y \in NamesOf(S!Program, ByHand)
         /\ \A f \in Events(S!Here) \ {"skip"} : ~Occurs(S!Program, Table, at, f, "dead", y)
      \/ /\ y \in Applied(S!Here, Table[at].run[Always]).yes
         /\ \E d \in Scope : S!Program[d].op \in Automatic /\ S!Program[d].x = y
  BY <1>1, Zenon DEF UsedInTime, Scope
<1>3. CASE y \in NamesOf(S!Program, ByHand) /\ ~Occurs(S!Program, Table, at, e, "dead", y)
  <2>1. Trace("dead", y) \in Traces(S!Program)  BY <1>3 DEF Traces
  <2>2. ~Present(Trace("dead", y))  BY <1>3, <2>1, NotThere
  <2> QED BY <2>2 DEF Present, Trace
<1>4. CASE /\ y \in Applied(S!Here, Table[at].run[Always]).yes
           /\ \E d \in Scope : S!Program[d].op \in Automatic /\ S!Program[d].x = y
  <2>1. Sat(Table[at].run[Always], facts)  BY <1>0, AlwaysThere DEF ScriptInv, KnownInv, Knows
  <2>2. S!Here.when \subseteq facts  BY <1>0 DEF Happens
  <2>3. y \in facts  BY <1>4, <2>1, <2>2 DEF Applied, Asserted, Denied, Known, Sat
  <2>4. PICK d \in Scope : S!Program[d].op \in Automatic /\ S!Program[d].x = y  BY <1>4
  <2>5. S!Here.op \notin {"end", "catch"}  BY DEF Touched, Handles
  <2>6. Due(d)  BY <1>0, <2>3, <2>4, <2>5 DEF Due
  <2>7. PICK s : Mirrors(stack, S!Program, Scope, s) /\ Within(stack, s, d)
    BY <1>0, <2>6 DEF StackInv
  <2>8. PICK i \in 1..Len(stack) : stack[i] = y  BY <2>4, <2>7 DEF Mirrors, Within
  <2>9. y \notin Blocks  BY <1>0, <2>4, ScopeIs
  <2> QED BY <1>0, <2>8, <2>9 DEF DangleInv
<1> QED BY <1>0, <1>2, <1>3, <1>4

\* An object on the stack is automatic and not opened by hand.
LEMMA Owners ==
  ASSUME PlaceInv, mode # "idle"
  PROVE  /\ NamesOf(S!Program, Automatic) \cap Blocks = {}
         /\ NamesOf(S!Program, Automatic) \cap NamesOf(S!Program, ByHand) = {}
         /\ S!Here.op = "close" => S!Here.x \in NamesOf(S!Program, ByHand)
         /\ S!Here.op \in ByHand => S!Here.x \in NamesOf(S!Program, ByHand)
         /\ S!Here.op \in Automatic => S!Here.x \in NamesOf(S!Program, Automatic)
         /\ S!Here.op \in Opening => S!Here.x \in Blocks
         /\ \A y \in S!Here.on : S!Here.op \in Handles \cup {"attach"} => S!Here.x \in Users(S!Program, y)
<1>1. /\ S!Here = S!Program[at] /\ at \in DOMAIN S!Program /\ WellNested(S!Program, Table) /\ NoOwner(S!Program)
  BY HereIs, RulesKept DEF PlaceInv
<1>2. \A ops : S!Here.op \in ops => S!Here.x \in NamesOf(S!Program, ops)  BY <1>1 DEF NamesOf
<1>3. \A y \in S!Here.on : S!Here.op \in Handles \cup {"attach"} => S!Here.x \in Users(S!Program, y)
  BY <1>1 DEF Users
<1>4. /\ NamesOf(S!Program, Automatic) \cap Blocks = {}
      /\ NamesOf(S!Program, Automatic) \cap NamesOf(S!Program, ByHand) = {}
      /\ NamesOf(S!Program, {"close"}) \subseteq NamesOf(S!Program, ByHand)
  BY <1>1 DEF WellNested, NoOwner, Blocks
<1> QED BY <1>2, <1>3, <1>4 DEF Blocks, Opening

LEMMA OnStack ==
  ASSUME ScriptInv, mode \in {"run", "throw", "leave"}, NEW i \in 1..Len(stack), stack[i] \notin Blocks
  PROVE  stack[i] \in NamesOf(S!Program, Automatic) /\ stack[i] \notin NamesOf(S!Program, ByHand)
BY Owners DEF ScriptInv, NameInv

LEMMA DangleEvent ==
  ASSUME ScriptInv, StackInv, DangleInv, NEW e, Event(e), Touching(e)
  PROVE  DangleInv'
<1> DEFINE Owned == NamesOf(S!Program, Automatic)
           Hand == NamesOf(S!Program, ByHand)
<1>0. /\ mode = "run" /\ mode # "idle" /\ PlaceInv /\ Happens(S!Here, e, facts) /\ e \in Events(S!Here)
      /\ stack \in Seq(Labels) /\ Len(stack) \in Nat
  BY DEF Event, ScriptInv, Happens, PlaceInv
<1>1. /\ S!Here = S!Program[at] /\ at \in DOMAIN S!Program /\ S!Here.x \in Labels
      /\ UsedInTime(S!Program, Table, ScopeTable)
  BY <1>0, HereIs, ScopesKept DEF PlaceInv
<1>2. /\ S!Program' = S!Program /\ Blocks' = Blocks  BY <1>0 DEF Event, S!Program, Blocks
<1>3. /\ Owned \cap Blocks = {} /\ Owned \cap Hand = {}
      /\ S!Here.op = "close" => S!Here.x \in Hand
      /\ S!Here.op \in ByHand => S!Here.x \in Hand
      /\ S!Here.op \in Automatic => S!Here.x \in Owned
      /\ S!Here.op \in Opening => S!Here.x \in Blocks
      /\ \A y \in S!Here.on : S!Here.op \in Handles \cup {"attach"} => S!Here.x \in Users(S!Program, y)
  BY <1>0, Owners
<1>4. /\ misuse \subseteq Outliving
      /\ \A l \in links : l[1] \in live /\ (l[2] \in live \/ l[1] \in Outliving)
      /\ \A i \in 1..Len(stack) : stack[i] \notin Blocks => stack[i] \in live
      /\ \A l \in links : \/ l[1] \in Hand /\ l[2] \in Hand /\ l[1] \in Users(S!Program, l[2])
                          \/ Below(l[2], l[1]) \/ l[1] \in Outliving
  BY <1>0 DEF DangleInv
<1>5. e # "skip" => Touched(S!Here) \subseteq live
  BY TouchedLives
\* Nothing is misused.
<1>6. misuse' \subseteq Outliving
  BY <1>4, <1>5 DEF Touching, Touched
\* What remains.
<1>7. /\ \A y \in live : y \in live' \/ (e = "plain" /\ S!Here.op = "close" /\ y = S!Here.x)
      /\ e = "hit" /\ S!Here.op \in Handles => S!Here.x \in live'
  BY DEF Event
<1>8. \A y \in live : y \in Owned => y \in live'  BY <1>3, <1>7
<1>9. \/ stack' = stack
      \/ /\ stack' = Append(stack, S!Here.x)
         /\ (e = "hit" /\ S!Here.op \in Automatic) \/ S!Here.op \in Opening
      \/ /\ stack' = SubSeq(stack, 1, Len(stack) - 1) /\ stack # << >>
         /\ stack[Len(stack)] \in Blocks
  BY <1>0, EndsBlock, NamesAre DEF Event, Opening, S!Opening, Blocks
<1>10. \A i \in 1..Len(stack) : stack[i] \notin Blocks => i \in 1..Len(stack') /\ stack'[i] = stack[i]
  <2>1. CASE stack' = Append(stack, S!Here.x)  BY <1>0, <1>1, <2>1, AppendIs
  <2>2. CASE stack' = SubSeq(stack, 1, Len(stack) - 1) /\ stack # << >> /\ stack[Len(stack)] \in Blocks
    <3>1. /\ Len(stack') = Len(stack) - 1
          /\ \A i \in 1..Len(stack') : stack'[i] = stack[i]
      BY <1>0, <2>2, FrontIs
    <3> QED BY <1>0, <2>2, <3>1
  <2> QED BY <1>9, <2>1, <2>2
<1>11. \A i \in 1..Len(stack') : \/ i \in 1..Len(stack) /\ stack'[i] = stack[i]
                                 \/ /\ stack'[i] = S!Here.x
                                    /\ (e = "hit" /\ S!Here.op \in Automatic) \/ S!Here.op \in Opening
  <2>1. CASE /\ stack' = Append(stack, S!Here.x)
             /\ (e = "hit" /\ S!Here.op \in Automatic) \/ S!Here.op \in Opening
    <3>1. /\ Len(stack') = Len(stack) + 1 /\ stack'[Len(stack) + 1] = S!Here.x
          /\ \A i \in 1..Len(stack) : stack'[i] = stack[i]
      BY <1>0, <1>1, <2>1, AppendIs
    <3>2. \A i \in 1..Len(stack') : i \in 1..Len(stack) \/ i = Len(stack) + 1  BY <1>0, <3>1
    <3> QED BY <2>1, <3>1, <3>2
  <2>2. CASE stack' = SubSeq(stack, 1, Len(stack) - 1) /\ stack # << >>
    <3>1. /\ Len(stack') = Len(stack) - 1
          /\ \A i \in 1..Len(stack') : stack'[i] = stack[i]
      BY <1>0, <2>2, FrontIs
    <3> QED BY <1>0, <3>1
  <2> QED BY <1>9, <2>1, <2>2
<1>12. \A i \in 1..Len(stack') : stack'[i] \notin Blocks => stack'[i] \in live'
  <2> SUFFICES ASSUME NEW i \in 1..Len(stack'), stack'[i] \notin Blocks PROVE stack'[i] \in live'
    OBVIOUS
  <2>1. CASE i \in 1..Len(stack) /\ stack'[i] = stack[i]
    <3>1. stack[i] \in Owned /\ stack[i] \in live  BY <1>0, <1>4, <2>1, OnStack
    <3> QED BY <1>8, <2>1, <3>1
  <2>2. CASE stack'[i] = S!Here.x /\ ((e = "hit" /\ S!Here.op \in Automatic) \/ S!Here.op \in Opening)
    <3>1. Automatic \subseteq Handles  BY DEF Automatic, Handles
    <3> QED BY <1>3, <1>7, <2>2, <3>1
  <2> QED BY <1>11, <2>1, <2>2
\* The order of the stack.
<1>13. ASSUME NEW y, NEW x, Below(y, x) PROVE Below(y, x)'
  <2>1. PICK i \in 1..Len(stack), j \in 1..Len(stack) : j < i /\ stack[j] = y /\ stack[i] = x
    BY <1>13 DEF Below
  <2>2. x \in Owned /\ y \in Owned  BY <1>13 DEF Below
  <2>3. i \in 1..Len(stack') /\ stack'[i] = x /\ j \in 1..Len(stack') /\ stack'[j] = y
    BY <1>3, <1>10, <2>1, <2>2
  <2> QED BY <1>2, <2>1, <2>2, <2>3 DEF Below
\* The links.
<1> DEFINE Right(l) ==
             /\ l[1] \in live' /\ (l[2] \in live' \/ l[1] \in Outliving)
             /\ \/ l[1] \in Hand /\ l[2] \in Hand /\ l[1] \in Users(S!Program, l[2])
                \/ Below(l[2], l[1])' \/ l[1] \in Outliving
<1>14. ASSUME NEW l \in links, ~(e = "plain" /\ S!Here.op = "close" /\ l[1] = S!Here.x)
       PROVE  Right(l)
  <2>1. l[1] \in live'  BY <1>4, <1>7, <1>14
  <2>2. CASE Below(l[2], l[1])
    <3>1. l[2] \in Owned  BY <2>2 DEF Below
    <3> QED BY <1>4, <1>8, <1>13, <2>1, <2>2, <3>1
  <2>3. CASE l[1] \in Hand /\ l[2] \in Hand /\ l[1] \in Users(S!Program, l[2])
    <3>1. ASSUME e = "plain", S!Here.op = "close", l[2] = S!Here.x PROVE FALSE
      <4>1. ~Occurs(S!Program, Table, at, "plain", "live", l[1])
        BY <1>1, <2>3, <3>1 DEF UsedInTime
      <4>2. Trace("live", l[1]) \in Traces(S!Program)  BY <2>3 DEF Traces
      <4>3. ~Present(Trace("live", l[1]))  BY <3>1, <4>1, <4>2, NotThere
      <4> QED BY <1>4, <4>3 DEF Present, Trace
    <3> QED BY <1>4, <1>7, <2>1, <2>3, <3>1
  <2> QED BY <1>4, <2>1, <2>2, <2>3
<1>15. ASSUME NEW l, Links(e, l) PROVE Right(l)
  <2>0. PICK y \in S!Here.on : l = <<S!Here.x, y>>  BY <1>15 DEF Links
  <2>1. /\ l[1] = S!Here.x /\ l[2] = y /\ e # "skip" /\ S!Here.op # "close"
        /\ S!Here.op \in Handles \cup {"attach"}
    BY <1>15, <2>0 DEF Links, Handles
  <2>2. y \in live /\ (S!Here.op = "attach" => S!Here.x \in live)
    BY <1>5, <2>1 DEF Touched, Handles
  <2>3. l[1] \in live' /\ l[2] \in live'  BY <1>7, <1>15, <2>1, <2>2 DEF Links
  <2>4. \/ {S!Here.x} \cup S!Here.on \subseteq Owned
        \/ {S!Here.x} \cup S!Here.on \subseteq Hand
        \/ l[1] \in Outliving
    BY <1>1, <2>1 DEF UsedInTime
  <2>5. CASE {S!Here.x} \cup S!Here.on \subseteq Hand  BY <1>3, <2>1, <2>3, <2>5
  <2>6. CASE {S!Here.x} \cup S!Here.on \subseteq Owned
    <3>0. S!Here.x \in Owned /\ y \in Owned /\ y \notin Hand  BY <1>3, <2>6
    <3>1. PICK j \in 1..Len(stack) : stack[j] = y  BY <1>0, <2>2, <3>0 DEF ScriptInv, NameInv
    <3>2. CASE e = "hit" /\ S!Here.op \in Handles
      <4>1. S!Here.op \in Automatic  BY <1>3, <3>0, <3>2 DEF Handles, ByHand, Automatic
      <4>2. stack' = Append(stack, S!Here.x)  BY <3>2, <4>1 DEF Event
      <4>3. /\ Len(stack') = Len(stack) + 1 /\ stack'[Len(stack) + 1] = S!Here.x /\ stack'[j] = y
        BY <1>0, <1>1, <3>1, <4>2, AppendIs
      <4>4. Len(stack) + 1 \in 1..Len(stack') /\ j \in 1..Len(stack') /\ j < Len(stack) + 1
        BY <1>0, <4>3
      <4>5. l[1] \in Owned /\ l[2] \in Owned /\ stack'[j] = l[2] /\ stack'[Len(stack) + 1] = l[1]
        BY <2>1, <3>0, <4>3
      <4>6. Below(l[2], l[1])'  BY <1>2, <4>4, <4>5 DEF Below
      <4> QED BY <2>3, <4>6
    <3>3. CASE e = "plain" /\ S!Here.op = "attach"
      <4>1. PICK i \in 1..Len(stack) : stack[i] = S!Here.x
        BY <1>0, <1>3, <2>2, <3>0, <3>3 DEF ScriptInv, NameInv
      <4>2. PICK s : Mirrors(stack, S!Program, Scope, s)  BY <1>0 DEF StackInv
      <4>3. /\ s[i] \in Scope /\ S!Program[s[i]].x = S!Here.x /\ s[i] \in Nat
            /\ s[j] \in Scope /\ S!Program[s[j]].x = y /\ s[j] \in Nat
            /\ S!Program[s[i]].op \in Automatic /\ S!Program[s[j]].op \in Automatic
            /\ i < j => s[i] < s[j]
        <5>1. /\ s[i] \in Scope /\ S!Program[s[i]].x = S!Here.x
              /\ s[j] \in Scope /\ S!Program[s[j]].x = y
              /\ i < j => s[i] < s[j]
          BY <3>1, <4>1, <4>2 DEF Mirrors
        <5> QED BY <1>0, <3>0, <5>1, ScopeIs
      <4>4. s[j] < s[i]  BY <1>1, <3>3, <4>3 DEF UsedInTime, Scope
      <4>5. j < i  BY <4>3, <4>4
      <4>6. Below(l[2], l[1])  BY <2>1, <3>0, <3>1, <4>1, <4>5 DEF Below
      <4> QED BY <1>13, <2>3, <4>6
    <3> QED BY <1>15, <3>2, <3>3 DEF Links
  <2> QED BY <2>3, <2>4, <2>5, <2>6
<1>16. \A l \in links' : Right(l)  BY <1>14, <1>15 DEF Touching
<1> HIDE DEF Right
<1>17. \A l \in links' : /\ l[1] \in live' /\ (l[2] \in live' \/ l[1] \in Outliving)
                         /\ \/ l[1] \in Hand /\ l[2] \in Hand /\ l[1] \in Users(S!Program, l[2])
                            \/ Below(l[2], l[1])' \/ l[1] \in Outliving
  BY <1>16 DEF Right
<1> QED BY <1>2, <1>6, <1>12, <1>17 DEF DangleInv

LEMMA DestroyDangles == ASSUME ScriptInv, StackInv, DangleInv, S!Destroy PROVE DangleInv'
<1> DEFINE Owned == NamesOf(S!Program, Automatic)
           Hand == NamesOf(S!Program, ByHand)
<1>0. /\ mode \in {"run", "throw", "leave"} /\ mode' = mode /\ mode # "idle" /\ PlaceInv
      /\ stack # << >> /\ stack[Len(stack)] \notin Blocks /\ stack \in Seq(Labels) /\ Len(stack) \in Nat
      /\ stack' = SubSeq(stack, 1, Len(stack) - 1) /\ Len(stack) \in 1..Len(stack)
      /\ S!Program' = S!Program /\ Blocks' = Blocks /\ S!Release(S!Top) /\ S!Top = stack[Len(stack)]
  BY NamesAre DEF S!Destroy, S!Step, S!Top, S!Pop, S!Opening, ScriptInv, PlaceInv, S!Program, Blocks
<1>1. PICK x : x = S!Top  OBVIOUS
<1>2. /\ misuse' = misuse \cup ({x} \ live) \cup {l[1] : l \in {k \in links : k[1] = x /\ k[2] \notin live}}
      /\ live' = live \ {x} /\ links' = {l \in links : l[1] # x}
  BY <1>0, <1>1 DEF S!Release
<1>3. /\ misuse \subseteq Outliving
      /\ \A l \in links : l[1] \in live /\ (l[2] \in live \/ l[1] \in Outliving)
      /\ \A i \in 1..Len(stack) : stack[i] \notin Blocks => stack[i] \in live
      /\ \A l \in links : \/ l[1] \in Hand /\ l[2] \in Hand /\ l[1] \in Users(S!Program, l[2])
                          \/ Below(l[2], l[1]) \/ l[1] \in Outliving
  BY <1>0 DEF DangleInv
<1>4. Owned \cap Blocks = {} /\ Owned \cap Hand = {} /\ x \in Owned /\ x \in live
  BY <1>0, <1>1, <1>3, Owners, OnStack
<1>5. misuse' \subseteq Outliving  BY <1>2, <1>3, <1>4
<1>6. \A i \in 1..Len(stack) : stack[i] = x => i = Len(stack)
  <2>1. PICK s : Mirrors(stack, S!Program, Scope, s)  BY <1>0 DEF StackInv
  <2> QED BY <1>0, <1>1, <2>1, NotTwice
<1>7. /\ Len(stack') = Len(stack) - 1
      /\ \A i \in 1..Len(stack') : stack'[i] = stack[i]
  BY <1>0, FrontIs
<1>8. /\ \A i \in 1..Len(stack') : i \in 1..Len(stack) /\ stack'[i] = stack[i] /\ stack[i] # x
      /\ \A i \in 1..Len(stack) : stack[i] # x => i \in 1..Len(stack')
  BY <1>0, <1>1, <1>6, <1>7
<1>9. \A i \in 1..Len(stack') : stack'[i] \notin Blocks => stack'[i] \in live'
  BY <1>2, <1>3, <1>8
<1>10. ASSUME NEW l \in links'
       PROVE  /\ l[1] \in live' /\ (l[2] \in live' \/ l[1] \in Outliving)
              /\ \/ l[1] \in Hand /\ l[2] \in Hand /\ l[1] \in Users(S!Program, l[2])
                 \/ Below(l[2], l[1])' \/ l[1] \in Outliving
  <2>1. l \in links /\ l[1] # x /\ l[1] \in live'  BY <1>2, <1>3, <1>10
  <2>2. CASE l[1] \in Hand /\ l[2] \in Hand /\ l[1] \in Users(S!Program, l[2])
    BY <1>2, <1>3, <1>4, <2>1, <2>2
  <2>3. CASE Below(l[2], l[1])
    <3>1. PICK i \in 1..Len(stack), j \in 1..Len(stack) : j < i /\ stack[j] = l[2] /\ stack[i] = l[1]
      BY <2>3 DEF Below
    <3>2. i \in 1..Len(stack') /\ i # Len(stack)  BY <1>0, <1>1, <1>7, <1>8, <2>1, <3>1
    <3>3. j # Len(stack)  BY <1>0, <3>1, <3>2
    <3>4. l[2] # x  BY <1>6, <3>1, <3>3
    <3>5. l[2] \in live' \/ l[1] \in Outliving  BY <1>2, <1>3, <2>1, <3>4
    <3>6. l[1] \in Owned /\ l[2] \in Owned  BY <2>3 DEF Below
    <3>7. j \in 1..Len(stack') /\ stack'[j] = l[2] /\ stack'[i] = l[1]
      BY <1>7, <1>8, <3>1, <3>2, <3>4
    <3>8. Below(l[2], l[1])'  BY <1>0, <3>1, <3>2, <3>6, <3>7 DEF Below
    <3> QED BY <2>1, <3>5, <3>8
  <2> QED BY <1>3, <2>1, <2>2, <2>3
<1> QED BY <1>0, <1>5, <1>9, <1>10 DEF DangleInv

\* A block goes off the stack: no object does.
LEMMA BlockDangles ==
  ASSUME ScriptInv, DangleInv, Unwinding, UNCHANGED <<live, links, misuse>>,
         stack[Len(stack)] \in Blocks
  PROVE  DangleInv'
<1>0. /\ mode \in {"run", "throw", "leave"} /\ mode # "idle" /\ PlaceInv
      /\ stack # << >> /\ stack \in Seq(Labels) /\ Len(stack) \in Nat
      /\ stack' = SubSeq(stack, 1, Len(stack) - 1)
      /\ S!Program' = S!Program /\ Blocks' = Blocks
  BY UnwindPlace DEF Unwinding, ScriptInv, PlaceInv
<1>1. /\ Len(stack') = Len(stack) - 1
      /\ \A i \in 1..Len(stack') : stack'[i] = stack[i]
  BY <1>0, FrontIs
<1>2. NamesOf(S!Program, Automatic) \cap Blocks = {}  BY <1>0, Owners
<1>3. /\ \A i \in 1..Len(stack') : i \in 1..Len(stack) /\ stack'[i] = stack[i]
      /\ \A i \in 1..Len(stack) : stack[i] \notin Blocks => i \in 1..Len(stack')
  BY <1>0, <1>1
<1>4. ASSUME NEW y, NEW x, Below(y, x) PROVE Below(y, x)'
  <2>1. PICK i \in 1..Len(stack), j \in 1..Len(stack) : j < i /\ stack[j] = y /\ stack[i] = x
    BY <1>4 DEF Below
  <2>2. x \in NamesOf(S!Program, Automatic) /\ y \in NamesOf(S!Program, Automatic)
    BY <1>4 DEF Below
  <2>3. i \in 1..Len(stack') /\ stack'[i] = x /\ j \in 1..Len(stack') /\ stack'[j] = y
    BY <1>2, <1>3, <2>1, <2>2
  <2> QED BY <1>0, <2>1, <2>2, <2>3 DEF Below
<1>5. \A i \in 1..Len(stack') : stack'[i] \notin Blocks => stack'[i] \in live'
  BY <1>0, <1>3 DEF DangleInv
<1>6. ASSUME NEW l \in links
      PROVE  /\ l[1] \in live
             /\ \/ /\ l[1] \in NamesOf(S!Program, ByHand) /\ l[2] \in NamesOf(S!Program, ByHand)
                   /\ l[1] \in Users(S!Program, l[2])
                \/ Below(l[2], l[1])' \/ l[1] \in Outliving
  BY <1>0, <1>4 DEF DangleInv
<1> QED BY <1>0, <1>5, <1>6 DEF DangleInv

LEMMA SafeTouch == ASSUME SafeInv, Touch PROVE StackInv' /\ DangleInv'
BY StackEvent, DangleEvent DEF SafeInv, Touch

LEMMA SafeUnwind == ASSUME SafeInv, S!Destroy \/ S!PassBlock \/ S!Caught PROVE StackInv' /\ DangleInv'
<1>0. ScriptInv /\ StackInv /\ DangleInv /\ PlaceInv /\ stack \in Seq(Labels)
  BY DEF SafeInv, ScriptInv, PlaceInv
<1>1. CASE S!Destroy
  <2>1. /\ mode \in {"run", "throw", "leave"} /\ mode # "idle" /\ mode' = mode /\ at' = at
        /\ mode = "run" => S!Here.op \in {"end", "catch"}
        /\ stack # << >> /\ stack[Len(stack)] \notin Blocks /\ S!Top = stack[Len(stack)]
        /\ Len(stack) \in 1..Len(stack) /\ live' = live \ {S!Top}
    BY <1>0, <1>1, NamesAre DEF S!Destroy, S!Step, S!Release, S!Top, S!Opening, Blocks
  <2>2. S!Top \notin NamesOf(S!Program, ByHand)  BY <1>0, <2>1, OnStack
  <2>3. Unwinding  BY <1>1, <2>1, <2>2 DEF S!Destroy, S!Pop, Unwinding
  <2>4. Tries \subseteq Blocks  BY DEF Tries, Blocks, NamesOf
  <2>5. StackInv'  BY <1>0, <2>1, <2>3, <2>4, StackUnwind
  <2> QED BY <1>0, <1>1, <2>5, DestroyDangles
<1>2. CASE S!PassBlock
  <2>1. /\ mode \in {"throw", "leave"} /\ mode # "idle" /\ mode' = mode /\ at' = at
        /\ stack # << >> /\ S!Top = stack[Len(stack)] /\ S!Top \in Blocks
        /\ mode = "throw" => S!Top \in NamesOf(S!Program, {"block"})
    <3>1. S!Guarded => stack # << >>  BY <1>0 DEF S!Guarded
    <3>2. S!Top \in Blocks  BY <1>2, NamesAre DEF S!PassBlock, S!Opening, Blocks, NamesOf
    <3> QED BY <1>2, <3>1, <3>2, NamesAre DEF S!PassBlock, S!Top
  <2>2. Unwinding  BY <1>2, <2>1 DEF S!PassBlock, S!Pop, Unwinding
  <2>3. mode = "throw" => S!Top \notin Tries  BY <1>0, <2>1, RulesKept DEF WellNested, Tries
  <2>4. StackInv'  BY <1>0, <2>1, <2>2, <2>3, StackUnwind
  <2> QED BY <1>0, <1>2, <2>1, <2>2, <2>4, BlockDangles DEF S!PassBlock
<1>3. CASE S!Caught
  <2>1. Unwinding /\ stack[Len(stack)] \in Blocks
    BY <1>3, NamesAre DEF S!Caught, S!Top, S!Pop, Unwinding, Blocks, NamesOf
  <2> QED BY <1>0, <1>3, <2>1, StackCaught, BlockDangles DEF S!Caught
<1> QED BY <1>1, <1>2, <1>3

LEMMA SafeStop ==
  ASSUME SafeInv, \/ S!Uncaught \/ S!End \/ (S!Insert /\ mode' = "ended")
  PROVE  StackInv' /\ DangleInv'
<1>1. mode' = "ended" /\ UNCHANGED <<live, links, misuse>>  BY DEF S!Uncaught, S!End, S!Insert
<1> QED BY <1>1 DEF SafeInv, StackInv, DangleInv

LEMMA SafeFresh ==
  ASSUME DangleInv, S!Fresh, misuse' = misuse,
         smoke' \in DOMAIN Scripts, script' = Scripts[smoke'], part' \in DOMAIN script'
  PROVE  StackInv' /\ DangleInv'
<1>1. links' = {} /\ stack' = << >> /\ misuse' \subseteq Outliving  BY DEF S!Fresh, DangleInv
<1>2. DangleInv'  BY <1>1 DEF DangleInv
<1> QED BY <1>2, StackFresh

LEMMA SafeStep == ASSUME SafeInv, S!Next PROVE SafeInv'
<1>0. ScriptInv /\ PlaceInv /\ DangleInv  BY DEF SafeInv, ScriptInv
<1>1. ScriptInv'  BY <1>0, ScriptStep
<1>2. CASE \/ S!Skip \/ S!Call \/ S!Invoke \/ S!Use \/ S!Mark \/ S!Open \/ S!Hold \/ S!Own
           \/ S!Attach \/ S!Close \/ S!OpenBlock \/ S!CloseBlock \/ (S!Insert /\ mode' # "ended")
           \/ S!Demand \/ S!Leave \/ S!Return \/ S!Check \/ S!Result
  <2>1. Touch  BY <1>0, <1>2, EveryTouch
  <2> QED BY <1>1, <2>1, SafeTouch DEF SafeInv
<1>3. CASE S!Destroy \/ S!PassBlock \/ S!Caught  BY <1>1, <1>3, SafeUnwind DEF SafeInv
<1>4. CASE S!Uncaught \/ S!End \/ (S!Insert /\ mode' = "ended")
  BY <1>1, <1>4, SafeStop DEF SafeInv
<1>5. CASE S!NextProgram \/ \E s \in DOMAIN Scripts : S!Begin(s)
  <2>1. S!Fresh /\ misuse' = misuse  BY <1>5 DEF S!NextProgram, S!Begin
  <2>2. mode' = "run"  BY <2>1 DEF S!Fresh
  <2>3. smoke' \in DOMAIN Scripts /\ script' = Scripts[smoke'] /\ part' \in DOMAIN script'
    BY <1>1, <2>2 DEF ScriptInv, PlaceInv
  <2> QED BY <1>0, <1>1, <2>1, <2>3, SafeFresh DEF SafeInv
<1> QED BY <1>2, <1>3, <1>4, <1>5 DEF S!Next, S!Run

LEMMA SafeStutter == ASSUME SafeInv, UNCHANGED scriptVars PROVE SafeInv'
<1>1. /\ S!Program' = S!Program /\ Blocks' = Blocks /\ Scope' = Scope /\ S!Here' = S!Here
      /\ mode' = mode /\ stack' = stack /\ facts' = facts /\ live' = live /\ links' = links
      /\ misuse' = misuse
  BY DEF scriptVars, S!Program, Blocks, Scope, ScopeTable, S!Here
<1>2. \A d : Due(d)' <=> Due(d)  BY <1>1 DEF Due
<1>3. StackInv'  BY <1>1, <1>2 DEF SafeInv, StackInv
<1>4. \A x, y : Below(y, x)' <=> Below(y, x)  BY <1>1 DEF Below
<1>5. DangleInv'  BY <1>1, <1>4 DEF SafeInv, DangleInv
<1> QED BY <1>3, <1>5, ScriptStutter DEF SafeInv

LEMMA SafeInvariant == Spec => []SafeInv
<1>1. Init => SafeInv
  <2>1. Init => mode = "idle" /\ misuse = {} /\ links = {}  BY DEF Init, S!Init
  <2> QED BY <2>1, ScriptInit DEF SafeInv, StackInv, DangleInv
<1>2. SafeInv /\ [Next]_vars => SafeInv'
  <2> SUFFICES ASSUME SafeInv, [Next]_vars PROVE SafeInv'
    OBVIOUS
  <2>1. CASE Scripted  BY <2>1, SafeStep DEF Scripted
  <2>2. CASE Threaded \/ Com \/ Terminating \/ Naming \/ Finished \/ UNCHANGED vars
    BY <2>2, SafeStutter DEF Threaded, Com, Terminating, Naming, Finished, vars
  <2> QED BY <2>1, <2>2 DEF Next
<1> QED BY <1>1, <1>2, PTL DEF Spec

\* The scripted smokes of admin/smokes never use, close or destroy what does
\* not exist, or no longer, and nothing ends while something uses it: along
\* every path through main, early returns and exceptions included.  What
\* Outliving names is the exception: it may end after what it uses.
THEOREM NothingUsedAfterItsEnd == Spec => []NothingDangles
<1>1. SafeInv => NothingDangles  BY DEF SafeInv, DangleInv, NothingDangles, S!NothingDangles
<1> QED BY <1>1, SafeInvariant, PTL

-----------------------------------------------------------------------------
(* The smokes of OpenMP and oneTBB: types, for any programs and any number *)
(* of elements.                                                            *)

LEMMA ItemsAre == Items = 0..Elements /\ Items \subseteq Nat
BY ParallelChecksAssumption DEF Items, P!FromZero, P!FromOne

LEMMA ThreadsInit == Init => ThreadsInv
<1> SUFFICES ASSUME P!Init PROVE ThreadsInv
  BY DEF Init
<1>1. "guarded" \in DOMAIN mem /\ mem.guarded \in Nat  BY DEF P!Init, P!Nothing
<1>2. /\ place \in [P!Threads -> Nat] /\ partial \in [P!Threads -> Nat] /\ reg \in [P!Threads -> Nat]
      /\ item \in [P!Threads -> P!FromZero \cup P!FromOne \cup {P!NoItem}]
  BY DEF P!Init, P!Threads, P!Out, P!NoItem
<1>3. list = "none" /\ stage = "idle" /\ team = 0 /\ todo = {} /\ lock = 0 /\ bOk \in BOOLEAN /\ noticed \in BOOLEAN
  BY DEF P!Init
<1>4. P!TypeOK  BY <1>2, <1>3 DEF P!TypeOK
<1> QED BY <1>1, <1>3, <1>4 DEF ThreadsInv

LEMMA SameCheckKept ==
  ASSUME ThreadsInv, SameCheck,
         todo' \subseteq todo,
         place' \in [P!Threads -> Nat],
         item' \in [P!Threads -> P!FromZero \cup P!FromOne \cup {P!NoItem}],
         partial' \in [P!Threads -> Nat], reg' \in [P!Threads -> Nat],
         lock' \in P!Threads \cup {0}, bOk' = bOk, noticed' = noticed,
         "guarded" \in DOMAIN mem', mem'.guarded \in Nat
  PROVE  ThreadsInv'
BY DEF ThreadsInv, SameCheck, P!TypeOK

\* Thread t goes on.
LEMMA AdvanceTypes ==
  ASSUME ThreadsInv, NEW t \in P!Threads, P!Advance(t)
  PROVE  /\ place' \in [P!Threads -> Nat]
         /\ item' \in [P!Threads -> P!FromZero \cup P!FromOne \cup {P!NoItem}]
         /\ SameCheck /\ todo' \subseteq todo /\ bOk' = bOk /\ noticed' = noticed
<1>1. place \in [P!Threads -> Nat] /\ item \in [P!Threads -> P!FromZero \cup P!FromOne \cup {P!NoItem}]
  BY DEF ThreadsInv, P!TypeOK
<1>2. \/ place' = [place EXCEPT ![t] = 0] /\ item' = [item EXCEPT ![t] = P!NoItem]
      \/ place' = [place EXCEPT ![t] = place[t] + 1] /\ item' = item
  BY DEF P!Advance
<1>3. SameCheck /\ todo' \subseteq todo /\ bOk' = bOk /\ noticed' = noticed
  BY DEF P!Advance, SameCheck
<1> QED BY <1>1, <1>2, <1>3

LEMMA BodyTypes == ASSUME ThreadsInv, NEW t \in P!Threads, P!Body(t) PROVE ThreadsInv'
<1> USE DEF P!Keep
<1>0. /\ partial \in [P!Threads -> Nat] /\ reg \in [P!Threads -> Nat]
      /\ lock \in P!Threads \cup {0} /\ "guarded" \in DOMAIN mem /\ mem.guarded \in Nat
      /\ item[t] \in Nat
  BY ItemsAre, ParallelChecksAssumption DEF ThreadsInv, P!TypeOK, Items, P!NoItem
<1>1. P!Advance(t)
  BY DEF P!Body, P!Visit, P!VisitAndReduce, P!Assign, P!Count, P!Add, P!Reduce, P!Lock, P!Load,
     P!Store, P!Unlock, P!Atomic, P!Arrive, P!Barrier, P!Compare, P!Single, P!CountThreads,
     P!Scope, P!Identity, P!Sort
<1>2. partial' \in [P!Threads -> Nat]
  <2>1. CASE P!VisitAndReduce(t)
    <3>1. partial' = [partial EXCEPT ![t] = partial[t] + item[t]]  BY <2>1 DEF P!VisitAndReduce
    <3> QED BY <1>0, <3>1
  <2>2. CASE P!Reduce(t)
    <3>1. \/ partial' = [partial EXCEPT ![t] = partial[t] + item[t]]
          \/ partial' = [partial EXCEPT ![t] = partial[t] + 1]
      BY <2>2 DEF P!Reduce
    <3> QED BY <1>0, <3>1
  <2>3. CASE partial' = partial  BY <1>0, <2>3
  <2> QED
    BY <2>1, <2>2, <2>3 DEF P!Body, P!Visit, P!Assign, P!Count, P!Add, P!Lock, P!Load, P!Store,
       P!Unlock, P!Atomic, P!Arrive, P!Barrier, P!Compare, P!Single, P!CountThreads, P!Scope,
       P!Identity, P!Sort
<1>3. reg' \in [P!Threads -> Nat] /\ lock' \in P!Threads \cup {0}
  BY <1>0 DEF P!Body, P!Visit, P!VisitAndReduce, P!Assign, P!Count, P!Add, P!Reduce, P!Lock,
     P!Load, P!Store, P!Unlock, P!Atomic, P!Arrive, P!Barrier, P!Compare, P!Single,
     P!CountThreads, P!Scope, P!Identity, P!Sort
<1>4. "guarded" \in DOMAIN mem' /\ mem'.guarded \in Nat
  <2>1. CASE P!Visit(t) \/ P!VisitAndReduce(t) \/ P!Assign(t) \/ P!Count(t) \/ P!Add(t)
    BY <1>0, <2>1 DEF P!Visit, P!VisitAndReduce, P!Assign, P!Count, P!Add
  <2>2. CASE P!Reduce(t) \/ P!Lock(t) \/ P!Load(t) \/ P!Unlock(t) \/ P!Barrier(t) \/ P!Sort(t)
    BY <1>0, <2>2 DEF P!Reduce, P!Lock, P!Load, P!Unlock, P!Barrier, P!Sort
  <2>3. CASE P!Store(t)  BY <1>0, <2>3 DEF P!Store
  <2>4. CASE P!Atomic(t) \/ P!Arrive(t) \/ P!Compare(t) \/ P!Single(t)
    BY <1>0, <2>4 DEF P!Atomic, P!Arrive, P!Compare, P!Single
  <2>5. CASE P!CountThreads(t) \/ P!Scope(t) \/ P!Identity(t)
    BY <1>0, <2>5 DEF P!CountThreads, P!Scope, P!Identity
  <2> QED BY <2>1, <2>2, <2>3, <2>4, <2>5 DEF P!Body
<1> QED BY <1>1, <1>2, <1>3, <1>4, AdvanceTypes, SameCheckKept

LEMMA ThreadsStep == ThreadsInv /\ P!Next => ThreadsInv'
<1> SUFFICES ASSUME ThreadsInv, P!Next PROVE ThreadsInv'
  OBVIOUS
<1>1. ASSUME NEW program \in DOMAIN Lists, P!Begin(program) PROVE ThreadsInv'
  <2>1. 1 \in DOMAIN Lists[program]
    <3>1. Lists[program] \in Seq([name : Labels, loop : BOOLEAN, first : {0, 1}, body : Seq(Labels)]) \ {<< >>}
      BY ListsAssumption
    <3> QED BY <3>1
  <2> QED BY <1>1, <2>1 DEF P!Begin, P!teamVars, ThreadsInv, P!TypeOK
<1>2. ASSUME NEW n \in P!Threads, P!Fork(n) PROVE ThreadsInv'
  <2>1. P!Items \subseteq 0..Elements  BY ItemsAre DEF P!Items, Items
  <2>2. /\ place' \in [P!Threads -> Nat] /\ item' \in [P!Threads -> P!FromZero \cup P!FromOne \cup {P!NoItem}]
        /\ partial' \in [P!Threads -> Nat] /\ reg' \in [P!Threads -> Nat]
        /\ n \in 0..2 /\ lock' = 0
    BY <1>2 DEF P!Fork, P!Threads, P!Out
  <2>3. "guarded" \in DOMAIN mem' /\ mem'.guarded \in Nat  BY <1>2 DEF P!Fork, P!Nothing
  <2> QED BY <1>2, <2>1, <2>2, <2>3 DEF P!Fork, ThreadsInv, P!TypeOK
<1>3. ASSUME NEW t \in P!Threads, P!Body(t) PROVE ThreadsInv'  BY <1>3, BodyTypes
<1>4. ASSUME NEW t \in P!Threads, NEW i \in todo, P!Take(t, i) PROVE ThreadsInv'
  <2>1. i \in P!FromZero \cup P!FromOne  BY ItemsAre DEF ThreadsInv, P!TypeOK, Items
  <2>2. /\ item' \in [P!Threads -> P!FromZero \cup P!FromOne \cup {P!NoItem}]
        /\ place' \in [P!Threads -> Nat] /\ todo' \subseteq todo
    BY <1>4, <2>1 DEF P!Take, ThreadsInv, P!TypeOK
  <2> QED BY <1>4, <2>2, SameCheckKept DEF P!Take, SameCheck, ThreadsInv, P!TypeOK
<1>5. ASSUME NEW i \in todo, P!Lose(i) PROVE ThreadsInv'
  BY <1>5, SameCheckKept DEF P!Lose, SameCheck, ThreadsInv, P!TypeOK
<1>6. CASE P!Join
  <2>1. "guarded" \in DOMAIN mem' /\ mem'.guarded \in Nat
    BY <1>6 DEF P!Join, P!Combined, ThreadsInv
  <2> QED BY <1>6, <2>1 DEF P!Join, ThreadsInv, P!TypeOK
<1>7. CASE P!Throw  BY <1>7 DEF P!Throw, P!teamVars, ThreadsInv, P!TypeOK
<1>8. CASE P!Check
  <2>1. index' \in DOMAIN Lists[list] /\ stage # "idle" /\ stage' \in {"start", "ended"}
    <3>1. stage = "check" /\ index \in DOMAIN Lists[list] /\ list \in DOMAIN Lists
      BY <1>8 DEF P!Check, ThreadsInv
    <3>2. Lists[list] \in Seq([name : Labels, loop : BOOLEAN, first : {0, 1}, body : Seq(Labels)])
      BY <3>1, ListsAssumption
    <3> QED BY <1>8, <3>1, <3>2 DEF P!Check
  <2>2. bOk' \in BOOLEAN /\ noticed' \in BOOLEAN
    <3>1. /\ bOk' = (P!Verdict /\ bOk)
          /\ noticed' = (noticed \/ (~P!Verdict /\ slips # {}))
      BY <1>8 DEF P!Check
    <3> QED BY <3>1, Zenon
  <2> QED BY <1>8, <2>1, <2>2 DEF P!Check, P!teamVars, ThreadsInv, P!TypeOK
<1> QED BY <1>1, <1>2, <1>3, <1>4, <1>5, <1>6, <1>7, <1>8 DEF P!Next, P!Run

LEMMA ThreadsNext == ThreadsInv /\ [Next]_vars => ThreadsInv'
<1> SUFFICES ASSUME ThreadsInv, [Next]_vars PROVE ThreadsInv'
  OBVIOUS
<1>1. CASE Threaded  BY <1>1, ThreadsStep DEF Threaded
<1>2. CASE Scripted \/ Com \/ Terminating \/ Naming \/ Finished \/ UNCHANGED vars
  BY <1>2 DEF Scripted, Com, Terminating, Naming, Finished, vars, parallelVars, ThreadsInv, P!TypeOK
<1> QED BY <1>1, <1>2 DEF Next

\* The smokes of OpenMP and oneTBB stay within their types, for any lists of
\* checks, numbers of elements and slips of the runtime.
THEOREM ThreadsTyped == Spec => []P!TypeOK
<1>1. Init => ThreadsInv  BY ThreadsInit
<1>2. ThreadsInv /\ [Next]_vars => ThreadsInv'  BY ThreadsNext
<1>3. ThreadsInv => P!TypeOK  BY DEF ThreadsInv
<1> QED BY <1>1, <1>2, <1>3, PTL DEF Spec

-----------------------------------------------------------------------------
(* Sums over sets of elements. *)

LEMMA UnitsFinite ==
  ASSUME NEW of \in SUBSET (0..Elements)
  PROVE  IsFiniteSet(of) /\ IsFiniteSet(Units(of))
<1>1. IsFiniteSet(0..Elements) /\ IsFiniteSet(1..Elements)
  BY FS_Interval, ParallelChecksAssumption
<1>2. IsFiniteSet(of)  BY <1>1, FS_Subset
<1>3. IsFiniteSet(of \X (1..Elements))  BY <1>1, <1>2, FS_Product
<1>4. Units(of) \in SUBSET (of \X (1..Elements))  BY DEF Units
<1> QED BY <1>2, <1>3, <1>4, FS_Subset

LEMMA UnitsOfOne ==
  ASSUME NEW i \in 0..Elements
  PROVE  Cardinality(Units({i})) = i
<1>0. i \in Nat /\ Elements \in Nat /\ i <= Elements  BY ParallelChecksAssumption
<1>1. Units({i}) = {i} \X (1..i)  BY <1>0 DEF Units
<1>2. IsFiniteSet(1..i) /\ Cardinality(1..i) = i  BY <1>0, FS_Interval
<1>3. IsFiniteSet({i}) /\ Cardinality({i}) = 1  BY FS_Singleton
<1>4. Cardinality({i} \X (1..i)) = Cardinality({i}) * Cardinality(1..i)
  BY <1>2, <1>3, FS_Product
<1>5. Cardinality({i}) * Cardinality(1..i) = i
  <2>1. Cardinality({i}) * Cardinality(1..i) = 1 * i  BY <1>2, <1>3
  <2> QED BY <1>0, <2>1
<1> QED BY <1>1, <1>4, <1>5

\* An element contributes its weight.
LEMMA SumWithout ==
  ASSUME NEW of \in SUBSET (0..Elements), NEW i \in of, NEW counting \in BOOLEAN
  PROVE  /\ SumOf(counting, of) \in Nat /\ SumOf(counting, of \ {i}) \in Nat
         /\ SumOf(counting, of) = SumOf(counting, of \ {i}) + Weight(counting, i)
<1>1. /\ IsFiniteSet(of) /\ IsFiniteSet(Units(of)) /\ IsFiniteSet(of \ {i})
      /\ IsFiniteSet(Units(of \ {i})) /\ IsFiniteSet(Units({i}))
  <2>1. of \ {i} \in SUBSET (0..Elements) /\ {i} \in SUBSET (0..Elements)  OBVIOUS
  <2> QED BY <2>1, UnitsFinite
<1>2. /\ Cardinality(of) \in Nat /\ Cardinality(of \ {i}) \in Nat
      /\ Cardinality(Units(of)) \in Nat /\ Cardinality(Units(of \ {i})) \in Nat
  BY <1>1, FS_CardinalityType
<1>3. CASE counting
  <2>1. Cardinality(of \ {i}) = Cardinality(of) - 1  BY <1>1, FS_RemoveElement
  <2> QED BY <1>2, <1>3, <2>1 DEF SumOf, Weight
<1>4. CASE ~counting
  <2>1. Units(of) = Units(of \ {i}) \cup Units({i}) /\ Units(of \ {i}) \cap Units({i}) = {}
    BY DEF Units
  <2>2. Cardinality(Units(of \ {i}) \cup Units({i})) =
          Cardinality(Units(of \ {i})) + Cardinality(Units({i})) - Cardinality(Units(of \ {i}) \cap Units({i}))
    BY <1>1, FS_Union
  <2>3. Cardinality(Units(of \ {i}) \cap Units({i})) = 0  BY <2>1, FS_EmptySet
  <2>4. Cardinality(Units({i})) = i /\ i \in Nat  BY UnitsOfOne, ParallelChecksAssumption
  <2>5. Cardinality(Units(of)) = Cardinality(Units(of \ {i})) + i
    BY <1>2, <2>1, <2>2, <2>3, <2>4
  <2> QED BY <1>2, <1>4, <2>5 DEF SumOf, Weight
<1> QED BY <1>3, <1>4

LEMMA SumOfNone == ASSUME NEW counting \in BOOLEAN PROVE SumOf(counting, {}) = 0
<1>1. Units({}) = {}  BY DEF Units
<1> QED BY <1>1, FS_EmptySet DEF SumOf

LEMMA SumIsNat ==
  ASSUME NEW of \in SUBSET (0..Elements), NEW counting \in BOOLEAN
  PROVE  SumOf(counting, of) \in Nat
BY UnitsFinite, FS_CardinalityType DEF SumOf

\* The pairs <<a, b>> with b <= a and those with a < b fill a rectangle and are
\* equally many.
LEMMA Triangle ==
  ASSUME NEW n \in Nat
  PROVE  LET below == {u \in (1..n) \X (1..n) : u[2] <= u[1]}
         IN  IsFiniteSet(below) /\ 2 * Cardinality(below) = n * (n + 1)
<1> DEFINE below == {u \in (1..n) \X (1..n) : u[2] <= u[1]}
           above == {u \in (1..n) \X (1..(n + 1)) : u[1] < u[2]}
           turn == [u \in below |-> <<u[2], u[1] + 1>>]
<1>1. /\ IsFiniteSet(1..n) /\ Cardinality(1..n) = n
      /\ IsFiniteSet(1..(n + 1)) /\ Cardinality(1..(n + 1)) = n + 1
  BY FS_Interval
<1>2. /\ IsFiniteSet((1..n) \X (1..n)) /\ IsFiniteSet((1..n) \X (1..(n + 1)))
      /\ Cardinality((1..n) \X (1..(n + 1))) = n * (n + 1)
  <2>1. Cardinality((1..n) \X (1..(n + 1))) = Cardinality(1..n) * Cardinality(1..(n + 1))
    BY <1>1, FS_Product
  <2>2. Cardinality(1..n) * Cardinality(1..(n + 1)) = n * (n + 1)  BY <1>1
  <2> QED BY <1>1, <2>1, <2>2, FS_Product
<1>3. IsFiniteSet(below) /\ IsFiniteSet(above)
  <2>1. below \in SUBSET ((1..n) \X (1..n)) /\ above \in SUBSET ((1..n) \X (1..(n + 1)))
    OBVIOUS
  <2> QED BY <1>2, <2>1, FS_Subset
<1>4. turn \in Bijection(below, above)
  <2>1. turn \in [below -> above]  OBVIOUS
  <2>2. \A a, b \in below : turn[a] = turn[b] => a = b
    <3> SUFFICES ASSUME NEW a \in below, NEW b \in below, turn[a] = turn[b] PROVE a = b
      OBVIOUS
    <3>1. a = <<a[1], a[2]>> /\ b = <<b[1], b[2]>> /\ a[1] \in Nat /\ b[1] \in Nat  OBVIOUS
    <3>2. <<a[2], a[1] + 1>> = <<b[2], b[1] + 1>>  OBVIOUS
    <3>3. a[2] = b[2] /\ a[1] + 1 = b[1] + 1  BY <3>2
    <3> QED BY <3>1, <3>3
  <2>3. \A v \in above : \E u \in below : turn[u] = v
    <3> SUFFICES ASSUME NEW v \in above PROVE \E u \in below : turn[u] = v
      OBVIOUS
    <3>1. /\ v = <<v[1], v[2]>> /\ v[1] \in 1..n /\ v[2] \in 1..(n + 1) /\ v[1] < v[2]  OBVIOUS
    <3>2. <<v[2] - 1, v[1]>> \in below  BY <3>1
    <3>3. turn[<<v[2] - 1, v[1]>>] = v  BY <3>1, <3>2
    <3> QED BY <3>2, <3>3
  <2> QED BY <2>1, <2>2, <2>3, Fun_IsBij
<1>5. Cardinality(above) = Cardinality(below)  BY <1>3, <1>4, FS_Bijection DEF ExistsBijection
<1>6. below \cup above = (1..n) \X (1..(n + 1)) /\ below \cap above = {}  OBVIOUS
<1>7. Cardinality(below \cup above) = Cardinality(below) + Cardinality(above) - Cardinality(below \cap above)
  BY <1>3, FS_Union
<1>8. Cardinality(below \cap above) = 0 /\ Cardinality(below) \in Nat
  BY <1>3, <1>6, FS_EmptySet, FS_CardinalityType
<1>9. Cardinality(below) + Cardinality(above) - 0 = n * (n + 1)  BY <1>2, <1>6, <1>7, <1>8
<1>10. Cardinality(below) + Cardinality(below) = n * (n + 1)  BY <1>5, <1>8, <1>9
<1>11. 2 * Cardinality(below) = Cardinality(below) + Cardinality(below)  BY <1>8
<1> QED BY <1>3, <1>10, <1>11

LEMMA HalfOf == ASSUME NEW n \in Nat, NEW m \in Int, 2 * n = m PROVE n = m \div 2
OBVIOUS

\* All elements together.
LEMMA SumOfAll ==
  /\ SumOf(TRUE, P!FromZero) = Elements /\ SumOf(TRUE, P!FromOne) = Elements
  /\ SumOf(FALSE, P!FromZero) = P!Expected(Elements)
  /\ SumOf(FALSE, P!FromOne) = P!Expected(Elements + 1)
<1>0. Elements \in Nat /\ Elements >= 1  BY ParallelChecksAssumption
<1>1. Cardinality(P!FromZero) = Elements /\ Cardinality(P!FromOne) = Elements
  BY <1>0, FS_Interval DEF P!FromZero, P!FromOne
<1>2. SumOf(FALSE, P!FromOne) = P!Expected(Elements + 1)
  <2> DEFINE below == {u \in (1..Elements) \X (1..Elements) : u[2] <= u[1]}
             m == Elements * (Elements + 1)
  <2>1. Units(P!FromOne) = below  BY DEF Units, P!FromOne
  <2>2. IsFiniteSet(below) /\ 2 * Cardinality(below) = m  BY <1>0, Triangle
  <2>3. Cardinality(below) \in Nat  BY <2>2, FS_CardinalityType
  <2>4. m = (Elements + 1) * ((Elements + 1) - 1) /\ m \in Int  BY <1>0
  <2> HIDE DEF m, below
  <2>5. Cardinality(below) = m \div 2  BY <2>2, <2>3, <2>4, HalfOf
  <2> QED BY <2>1, <2>4, <2>5 DEF SumOf, P!Expected
<1>3. SumOf(FALSE, P!FromZero) = P!Expected(Elements)
  <2> DEFINE n == Elements - 1
             below == {u \in (1..n) \X (1..n) : u[2] <= u[1]}
             m == n * (n + 1)
  <2>1. Units(P!FromZero) = below  BY <1>0 DEF Units, P!FromZero
  <2>2. IsFiniteSet(below) /\ 2 * Cardinality(below) = m  BY <1>0, Triangle
  <2>3. Cardinality(below) \in Nat  BY <2>2, FS_CardinalityType
  <2>4. m = Elements * (Elements - 1) /\ m \in Int  BY <1>0
  <2> HIDE DEF m, below
  <2>5. Cardinality(below) = m \div 2  BY <2>2, <2>3, <2>4, HalfOf
  <2> QED BY <2>1, <2>4, <2>5 DEF SumOf, P!Expected
<1> QED BY <1>1, <1>2, <1>3 DEF SumOf

(* The checks, and what their threads can do. *)

LEMMA ShapeOf ==
  ASSUME ThreadsInv, stage # "idle"
  PROVE  /\ list \in DOMAIN Lists /\ index \in DOMAIN Lists[list]
         /\ P!Now.loop \in BOOLEAN /\ Duty \in Seq(Labels)
         /\ IF P!Tbb THEN P!Now \in TbbChecks ELSE P!Now \in OpenMpChecks \/ Synchronizes(P!Now)
         /\ P!Now.name = "parallel-sort" =>
              \E m \in DOMAIN Lists[list] : m > index /\ Lists[list][m].name = "concurrent-vector"
<1>1. list \in DOMAIN Lists /\ index \in DOMAIN Lists[list]  BY DEF ThreadsInv
<1>2. Lists[list] \in Seq([name : Labels, loop : BOOLEAN, first : {0, 1}, body : Seq(Labels)])
  BY <1>1, ListsAssumption
<1>4. P!Now = Lists[list][index] /\ (P!Tbb <=> list = "oneTbb")  BY DEF P!Now, P!Tbb
<1>3. P!Now \in [name : Labels, loop : BOOLEAN, first : {0, 1}, body : Seq(Labels)]
  <2> DEFINE Checks == [name : Labels, loop : BOOLEAN, first : {0, 1}, body : Seq(Labels)]
  <2>1. Lists[list] \in Seq(Checks)  BY <1>2
  <2> HIDE DEF Checks
  <2>2. Lists[list][index] \in Checks  BY <1>1, <2>1
  <2> QED BY <1>4, <2>2 DEF Checks
<1> QED BY <1>1, <1>3, <1>4, ChecksAssumption DEF Duty

LEMMA MemberOfLoops ==
  ASSUME NEW c, NEW names, NEW first, NEW body, c \in Loops(names, first, body)
  PROVE  c.name \in names /\ c.loop /\ c.first = first /\ c.body = body
BY DEF Loops

LEMMA MemberOfRegions ==
  ASSUME NEW c, NEW names, NEW body, c \in Regions(names, body)
  PROVE  c.name \in names /\ c.loop = FALSE /\ c.body = body
BY DEF Regions

\* The checks by their bodies.
LEMMA TbbCheckIs ==
  ASSUME NEW c \in TbbChecks
  PROVE  /\ (c.loop /\ c.first \in {0, 1}) \/ c.loop = FALSE
         /\ c.loop /\ c.first = 1 =>
              \/ c.name = "parallel-reduce" /\ c.body = <<"reduce">>
              \/ c.name = "flow-graph" /\ c.body = <<"add">>
         /\ c.loop /\ c.first = 0 =>
              \/ c.name \in {"parallel-for", "concurrent-vector", "concurrent-queue"} /\ c.body = <<"visit">>
              \/ c.name \in {"parallel-scan", "concurrent-hash-map"} /\ c.body = <<"assign">>
              \/ c.name \in {"task-arena", "task-group"} /\ c.body = <<"count">>
              \/ c.name = "spin-mutex" /\ c.body = Section
              \/ c.name = "parallel-pipeline" /\ c.body = <<"add">>
         /\ c.loop = FALSE =>
              \/ c.name = "parallel-sort" /\ c.body = <<"sort">>
              \/ c.name = "exception-propagation" /\ c.body = <<"throw">>
<1>1. \/ c \in Loops({"parallel-reduce"}, 1, <<"reduce">>)
      \/ c \in Loops({"parallel-for", "concurrent-vector", "concurrent-queue"}, 0, <<"visit">>)
      \/ c \in Loops({"parallel-scan", "concurrent-hash-map"}, 0, <<"assign">>)
      \/ c \in Loops({"task-arena", "task-group"}, 0, <<"count">>)
      \/ c \in Loops({"spin-mutex"}, 0, Section)
      \/ c \in Loops({"parallel-pipeline"}, 0, <<"add">>)
      \/ c \in Loops({"flow-graph"}, 1, <<"add">>)
      \/ c \in Regions({"parallel-sort"}, <<"sort">>)
      \/ c \in Regions({"exception-propagation"}, <<"throw">>)
  BY Zenon DEF TbbChecks
<1>2. c \in Loops({"parallel-reduce"}, 1, <<"reduce">>) =>
        c.name \in {"parallel-reduce"} /\ c.loop /\ c.first = 1 /\ c.body = <<"reduce">>
  BY MemberOfLoops
<1>3. c \in Loops({"parallel-for", "concurrent-vector", "concurrent-queue"}, 0, <<"visit">>) =>
        c.name \in {"parallel-for", "concurrent-vector", "concurrent-queue"} /\ c.loop /\ c.first = 0 /\ c.body = <<"visit">>
  BY MemberOfLoops
<1>4. c \in Loops({"parallel-scan", "concurrent-hash-map"}, 0, <<"assign">>) =>
        c.name \in {"parallel-scan", "concurrent-hash-map"} /\ c.loop /\ c.first = 0 /\ c.body = <<"assign">>
  BY MemberOfLoops
<1>5. c \in Loops({"task-arena", "task-group"}, 0, <<"count">>) =>
        c.name \in {"task-arena", "task-group"} /\ c.loop /\ c.first = 0 /\ c.body = <<"count">>
  BY MemberOfLoops
<1>6. c \in Loops({"spin-mutex"}, 0, Section) =>
        c.name \in {"spin-mutex"} /\ c.loop /\ c.first = 0 /\ c.body = Section
  BY MemberOfLoops
<1>7. c \in Loops({"parallel-pipeline"}, 0, <<"add">>) =>
        c.name \in {"parallel-pipeline"} /\ c.loop /\ c.first = 0 /\ c.body = <<"add">>
  BY MemberOfLoops
<1>8. c \in Loops({"flow-graph"}, 1, <<"add">>) =>
        c.name \in {"flow-graph"} /\ c.loop /\ c.first = 1 /\ c.body = <<"add">>
  BY MemberOfLoops
<1>9. c \in Regions({"parallel-sort"}, <<"sort">>) =>
        c.name \in {"parallel-sort"} /\ c.loop = FALSE /\ c.body = <<"sort">>
  BY MemberOfRegions
<1>10. c \in Regions({"exception-propagation"}, <<"throw">>) =>
        c.name \in {"exception-propagation"} /\ c.loop = FALSE /\ c.body = <<"throw">>
  BY MemberOfRegions
<1> QED BY <1>1, <1>2, <1>3, <1>4, <1>5, <1>6, <1>7, <1>8, <1>9, <1>10

LEMMA OpenMpCheckIs ==
  ASSUME NEW c \in OpenMpChecks
  PROVE  \/ /\ c.loop /\ c.first = 0
            /\ \/ c.name \in P!Schedules \cup {"simd"} /\ c.body = <<"visitAndReduce">>
               \/ c.name = "tasks-taskgroup" /\ c.body = <<"visit">>
         \/ /\ c.loop = FALSE
            /\ \/ c.name = "parallel-region" /\ c.body = <<"threads">>
               \/ c.name = "repeated-regions" /\ c.body = <<"one">>
               \/ c.name = "data-sharing" /\ c.body = Scoping
               \/ c.name = "runtime-dll" /\ c.body = <<"identity">>
<1>1. \/ c \in Loops(P!Schedules \cup {"simd"}, 0, <<"visitAndReduce">>)
      \/ c \in Loops({"tasks-taskgroup"}, 0, <<"visit">>)
      \/ c \in Regions({"parallel-region"}, <<"threads">>)
      \/ c \in Regions({"repeated-regions"}, <<"one">>)
      \/ c \in Regions({"data-sharing"}, Scoping)
      \/ c \in Regions({"runtime-dll"}, <<"identity">>)
  BY Zenon DEF OpenMpChecks
<1>2. c \in Loops(P!Schedules \cup {"simd"}, 0, <<"visitAndReduce">>) =>
        c.name \in P!Schedules \cup {"simd"} /\ c.loop /\ c.first = 0 /\ c.body = <<"visitAndReduce">>
  BY MemberOfLoops
<1>3. c \in Loops({"tasks-taskgroup"}, 0, <<"visit">>) =>
        c.name \in {"tasks-taskgroup"} /\ c.loop /\ c.first = 0 /\ c.body = <<"visit">>
  BY MemberOfLoops
<1>4. c \in Regions({"parallel-region"}, <<"threads">>) =>
        c.name \in {"parallel-region"} /\ c.loop = FALSE /\ c.body = <<"threads">>
  BY MemberOfRegions
<1>5. c \in Regions({"repeated-regions"}, <<"one">>) =>
        c.name \in {"repeated-regions"} /\ c.loop = FALSE /\ c.body = <<"one">>
  BY MemberOfRegions
<1>6. c \in Regions({"data-sharing"}, Scoping) =>
        c.name \in {"data-sharing"} /\ c.loop = FALSE /\ c.body = Scoping
  BY MemberOfRegions
<1>7. c \in Regions({"runtime-dll"}, <<"identity">>) =>
        c.name \in {"runtime-dll"} /\ c.loop = FALSE /\ c.body = <<"identity">>
  BY MemberOfRegions
<1> QED BY <1>1, <1>2, <1>3, <1>4, <1>5, <1>6, <1>7

\* What task the check sets its threads.
LEMMA TaskIs ==
  ASSUME ThreadsInv, stage # "idle"
  PROVE  LET name == P!Now.name
         IN  \/ /\ P!Tbb /\ P!IsLoop /\ Len(Duty) = 1 /\ Duty[1] = Task
                /\ \/ Task = "reduce" /\ name = "parallel-reduce" /\ P!Items = P!FromOne
                   \/ Task = "add" /\ name = "flow-graph" /\ P!Items = P!FromOne
                   \/ /\ P!Items = P!FromZero
                      /\ \/ Task = "visit" /\ name \in {"parallel-for", "concurrent-vector", "concurrent-queue"}
                         \/ Task = "assign" /\ name \in {"parallel-scan", "concurrent-hash-map"}
                         \/ Task = "count" /\ name \in {"task-arena", "task-group"}
                         \/ Task = "add" /\ name = "parallel-pipeline"
             \/ /\ P!Tbb /\ P!IsLoop /\ Duty = Section /\ Task = "lock" /\ name = "spin-mutex"
                /\ P!Items = P!FromZero
             \/ /\ P!Tbb /\ ~P!IsLoop /\ Len(Duty) = 1 /\ Duty[1] = Task
                /\ \/ Task = "sort" /\ name = "parallel-sort"
                   \/ Task = "throw" /\ name = "exception-propagation"
             \/ /\ ~P!Tbb /\ P!IsLoop /\ Len(Duty) = 1 /\ Duty[1] = Task /\ P!Items = P!FromZero
                /\ \/ Task = "visitAndReduce" /\ name \in P!Schedules \cup {"simd"}
                   \/ Task = "visit" /\ name = "tasks-taskgroup"
             \/ /\ ~P!Tbb /\ ~P!IsLoop /\ Len(Duty) = 1 /\ Duty[1] = Task
                /\ \/ Task = "threads" /\ name = "parallel-region"
                   \/ Task = "one" /\ name = "repeated-regions"
                   \/ Task = "identity" /\ name = "runtime-dll"
             \/ ~P!Tbb /\ ~P!IsLoop /\ Duty = Scoping /\ Task = "scope" /\ name = "data-sharing"
             \/ ~P!Tbb /\ ~P!IsLoop /\ Synchronizes(P!Now) /\ Task = "synchronization" /\ name = Task
<1>1. IF P!Tbb THEN P!Now \in TbbChecks ELSE P!Now \in OpenMpChecks \/ Synchronizes(P!Now)
  BY ShapeOf
<1>2. ASSUME NEW op, Duty = <<op>> PROVE Len(Duty) = 1 /\ Duty[1] = op  BY <1>2
<1>3. Duty = Section => Duty[1] = "lock"  BY DEF Section
<1>4. Duty = Scoping => Duty[1] = "scope"  BY DEF Scoping
<1>5. /\ P!Now.name # "synchronization" => Task = Duty[1]
      /\ P!Now.name = "synchronization" => Task = P!Now.name
      /\ P!Now.body = Duty /\ (P!IsLoop <=> P!Now.loop)
      /\ P!IsLoop /\ P!Now.first = 0 => P!Items = P!FromZero
      /\ P!IsLoop /\ P!Now.first = 1 => P!Items = P!FromOne
  BY DEF Task, Duty, P!IsLoop, P!Items
<1>6. CASE P!Tbb
  <2>1. P!Now \in TbbChecks  BY <1>1, <1>6
  <2> DEFINE c == P!Now
  <2>2. CASE c.loop /\ c.first = 1
    <3>1. \/ c.name = "parallel-reduce" /\ c.body = <<"reduce">>
          \/ c.name = "flow-graph" /\ c.body = <<"add">>
      BY <2>1, <2>2, TbbCheckIs
    <3> QED BY <1>2, <1>5, <1>6, <2>2, <3>1
  <2>3. CASE c.loop /\ c.first = 0
    <3>1. \/ c.name \in {"parallel-for", "concurrent-vector", "concurrent-queue"} /\ c.body = <<"visit">>
          \/ c.name \in {"parallel-scan", "concurrent-hash-map"} /\ c.body = <<"assign">>
          \/ c.name \in {"task-arena", "task-group"} /\ c.body = <<"count">>
          \/ c.name = "spin-mutex" /\ c.body = Section
          \/ c.name = "parallel-pipeline" /\ c.body = <<"add">>
      BY <2>1, <2>3, TbbCheckIs
    <3> QED BY <1>2, <1>3, <1>5, <1>6, <2>3, <3>1
  <2>4. CASE c.loop = FALSE
    <3>1. \/ c.name = "parallel-sort" /\ c.body = <<"sort">>
          \/ c.name = "exception-propagation" /\ c.body = <<"throw">>
      BY <2>1, <2>4, TbbCheckIs
    <3> QED BY <1>2, <1>5, <1>6, <2>4, <3>1
  <2> QED BY <2>1, <2>2, <2>3, <2>4, TbbCheckIs
<1>7. CASE ~P!Tbb /\ P!Now \in OpenMpChecks
  <2> DEFINE c == P!Now
  <2>1. CASE c.loop /\ c.first = 0
    <3>1. \/ c.name \in P!Schedules \cup {"simd"} /\ c.body = <<"visitAndReduce">>
          \/ c.name = "tasks-taskgroup" /\ c.body = <<"visit">>
      BY <1>7, <2>1, OpenMpCheckIs
    <3> QED BY <1>2, <1>5, <1>7, <2>1, <3>1 DEF P!Schedules
  <2>2. CASE c.loop = FALSE
    <3>1. \/ c.name = "parallel-region" /\ c.body = <<"threads">>
          \/ c.name = "repeated-regions" /\ c.body = <<"one">>
          \/ c.name = "data-sharing" /\ c.body = Scoping
          \/ c.name = "runtime-dll" /\ c.body = <<"identity">>
      BY <1>7, <2>2, OpenMpCheckIs
    <3> QED BY <1>2, <1>4, <1>5, <1>7, <2>2, <3>1
  <2> QED BY <1>7, <2>1, <2>2, OpenMpCheckIs
<1>8. CASE ~P!Tbb /\ Synchronizes(P!Now)  BY <1>5, <1>8 DEF Synchronizes
<1> QED BY <1>1, <1>6, <1>7, <1>8

LEMMA DutyIs ==
  ASSUME ThreadsInv, stage # "idle"
  PROVE  DOMAIN Duty = 1..Len(Duty) /\ Len(Duty) \in Nat
BY ShapeOf

\* The critical sections of a check.
LEMMA OrderOf ==
  ASSUME ThreadsInv, stage # "idle", NEW k \in 1..Len(Duty)
  PROVE  /\ Duty[k] = "load" => k > 1 /\ Duty[k - 1] = "lock"
         /\ Duty[k] = "store" => k > 1 /\ Duty[k - 1] = "load"
         /\ Duty[k] = "unlock" => k > 1 /\ Duty[k - 1] = "store"
<1>1. CASE Len(Duty) = 1 /\ Duty[1] = Task /\ Task \notin {"lock", "synchronization"}
  <2>1. k = 1 /\ Task \notin {"load", "store", "unlock"}  BY <1>1, TaskIs
  <2> QED BY <1>1, <2>1
<1>2. CASE Duty = Section  BY <1>2 DEF Section
<1>3. CASE Duty = Scoping  BY <1>3 DEF Scoping
<1>4. CASE Synchronizes(P!Now)
  <2>1. \A i \in 2..4 : Duty[k] = Section[i] <=> k > 1 /\ Duty[k - 1] = Section[i - 1]
    BY <1>4 DEF Synchronizes, Duty
  <2>2. Section[1] = "lock" /\ Section[2] = "load" /\ Section[3] = "store" /\ Section[4] = "unlock"
    BY DEF Section
  <2> QED BY <2>1, <2>2
<1> QED BY <1>1, <1>2, <1>3, <1>4, TaskIs

\* A check of the loops and regions has its name for itself.
LEMMA DutySame ==
  ASSUME list' = list, index' = index
  PROVE  /\ P!Now' = P!Now /\ Duty' = Duty /\ P!IsLoop' = P!IsLoop /\ P!Items' = P!Items
         /\ P!Out' = P!Out /\ P!Alone' = P!Alone /\ P!Tbb' = P!Tbb /\ Counting' = Counting
         /\ Losses' = Losses /\ Task' = Task
<1>1. P!Now' = P!Now  BY DEF P!Now
<1> QED BY <1>1 DEF Duty, P!IsLoop, P!Items, P!Out, P!Alone, P!Tbb, Counting, Losses, Task

LEMMA ItemsOf ==
  /\ P!Items \subseteq 0..Elements
  /\ P!FromZero \subseteq 0..Elements /\ P!FromOne \subseteq 0..Elements
  /\ P!IsLoop => P!Items \in {P!FromZero, P!FromOne}
  /\ ~P!IsLoop => P!Items = {}
BY ItemsAre DEF Items, P!Items

(* Slips. *)

LEMMA WatchedIs ==
  Watched <=>
    ~noticed /\ (slips = {} \/ (bOk /\ MaxSlips \in {0, 1} /\ \E s \in slips : slips = {s} /\ ~Invisible(s)))
BY DEF Watched, Faulty, P!Unseen, Invisible

LEMMA SlipsKept ==
  ASSUME slips' = slips, noticed' = noticed, bOk' = bOk
  PROVE  /\ Watched' <=> Watched
         /\ \A kinds : Hit(kinds)' <=> Hit(kinds)
         /\ \A i, kinds : Struck(i, kinds)' <=> Struck(i, kinds)
BY WatchedIs DEF Watched, Faulty, P!Unseen, Hit, Struck

\* ParallelChecks has its own instance of FiniteSets.
LEMMA CardinalitySame == \A of : P!Cardinality(of) = Cardinality(of)
BY DEF P!Cardinality, Cardinality

\* A slip that has to be noticed is the only one.
LEMMA SlipHappens ==
  ASSUME NEW ill, NEW spoiled, P!Slip(ill, spoiled), noticed' = noticed, bOk' = bOk, Watched'
  PROVE  /\ slips = {} /\ Watched /\ bOk
         /\ slips' = {NewSlip(ill, spoiled)} /\ ~Invisible(NewSlip(ill, spoiled))
         /\ \A kinds : ~Hit(kinds) /\ (Hit(kinds)' <=> ill \in kinds)
         /\ \A i, kinds : /\ ~Struck(i, kinds)
                          /\ Struck(i, kinds)' <=> ill \in kinds /\ spoiled = {i}
<1> DEFINE r == NewSlip(ill, spoiled)
<1>1. slips' = slips \cup {r} /\ Cardinality(slips) < MaxSlips /\ noticed = FALSE
  <2>1. Cardinality(slips) < MaxSlips /\ ~noticed  BY CardinalitySame DEF P!Slip
  <2>2. slips' = slips \cup {r}  BY DEF P!Slip, NewSlip, P!Now
  <2> QED BY <2>1, <2>2
<1>2. ~noticed' /\ bOk' /\ MaxSlips \in {0, 1} /\ \E s \in slips' : slips' = {s} /\ s \notin P!Unseen'
  BY <1>1 DEF Watched, Faulty
<1>3. PICK s \in slips' : slips' = {s} /\ s \notin P!Unseen'  BY <1>2
<1>4. s = r /\ slips \subseteq {r}  BY <1>1, <1>3
<1>5. slips = {}
  <2>1. CASE slips = {r}
    <3>1. Cardinality(slips) = 1  BY <2>1, FS_Singleton
    <3> QED BY <1>1, <1>2, <3>1
  <2> QED BY <1>4, <2>1
<1>6. ~Invisible(r)  BY <1>3, <1>4 DEF P!Unseen, Invisible
<1>7. r.kind = ill /\ r.elements = spoiled  BY DEF NewSlip
<1> QED BY <1>1, <1>2, <1>3, <1>4, <1>5, <1>6, <1>7, WatchedIs DEF Hit, Struck

(* The instruction a thread executes, and how it goes on. *)

\* Every instruction has an action of its own.
LEMMA OpOf ==
  ASSUME NEW t \in P!Threads, P!Body(t)
  PROVE  /\ stage = "run" /\ Works(t) /\ P!Advance(t)
         /\ \/ Duty[place[t]] = "visit" /\ P!Visit(t)
            \/ Duty[place[t]] = "visitAndReduce" /\ P!VisitAndReduce(t)
            \/ Duty[place[t]] = "assign" /\ P!Assign(t)
            \/ Duty[place[t]] \in {"count", "throw"} /\ P!Count(t)
            \/ Duty[place[t]] = "add" /\ P!Add(t)
            \/ Duty[place[t]] \in {"reduce", "one"} /\ P!Reduce(t)
            \/ Duty[place[t]] = "lock" /\ P!Lock(t)
            \/ Duty[place[t]] = "load" /\ P!Load(t)
            \/ Duty[place[t]] = "store" /\ P!Store(t)
            \/ Duty[place[t]] = "unlock" /\ P!Unlock(t)
            \/ Duty[place[t]] = "atomic" /\ P!Atomic(t)
            \/ Duty[place[t]] = "arrive" /\ P!Arrive(t)
            \/ Duty[place[t]] = "barrier" /\ P!Barrier(t)
            \/ Duty[place[t]] = "compare" /\ P!Compare(t)
            \/ Duty[place[t]] = "single" /\ P!Single(t)
            \/ Duty[place[t]] = "threads" /\ P!CountThreads(t)
            \/ Duty[place[t]] = "scope" /\ P!Scope(t)
            \/ Duty[place[t]] = "identity" /\ P!Identity(t)
            \/ Duty[place[t]] = "sort" /\ P!Sort(t)
<1>1. ASSUME P!Visit(t) PROVE stage = "run" /\ Works(t) /\ Duty[place[t]] \in {"visit"} /\ P!Advance(t)
  BY <1>1 DEF P!Visit, P!At, Works, Duty
<1>2. ASSUME P!VisitAndReduce(t) PROVE stage = "run" /\ Works(t) /\ Duty[place[t]] \in {"visitAndReduce"} /\ P!Advance(t)
  BY <1>2 DEF P!VisitAndReduce, P!At, Works, Duty
<1>3. ASSUME P!Assign(t) PROVE stage = "run" /\ Works(t) /\ Duty[place[t]] \in {"assign"} /\ P!Advance(t)
  BY <1>3 DEF P!Assign, P!At, Works, Duty
<1>4. ASSUME P!Count(t) PROVE stage = "run" /\ Works(t) /\ Duty[place[t]] \in {"count", "throw"} /\ P!Advance(t)
  BY <1>4 DEF P!Count, P!At, Works, Duty
<1>5. ASSUME P!Add(t) PROVE stage = "run" /\ Works(t) /\ Duty[place[t]] \in {"add"} /\ P!Advance(t)
  BY <1>5 DEF P!Add, P!At, Works, Duty
<1>6. ASSUME P!Reduce(t) PROVE stage = "run" /\ Works(t) /\ Duty[place[t]] \in {"reduce", "one"} /\ P!Advance(t)
  BY <1>6 DEF P!Reduce, P!At, Works, Duty
<1>7. ASSUME P!Lock(t) PROVE stage = "run" /\ Works(t) /\ Duty[place[t]] \in {"lock"} /\ P!Advance(t)
  BY <1>7 DEF P!Lock, P!At, Works, Duty
<1>8. ASSUME P!Load(t) PROVE stage = "run" /\ Works(t) /\ Duty[place[t]] \in {"load"} /\ P!Advance(t)
  BY <1>8 DEF P!Load, P!At, Works, Duty
<1>9. ASSUME P!Store(t) PROVE stage = "run" /\ Works(t) /\ Duty[place[t]] \in {"store"} /\ P!Advance(t)
  BY <1>9 DEF P!Store, P!At, Works, Duty
<1>10. ASSUME P!Unlock(t) PROVE stage = "run" /\ Works(t) /\ Duty[place[t]] \in {"unlock"} /\ P!Advance(t)
  BY <1>10 DEF P!Unlock, P!At, Works, Duty
<1>11. ASSUME P!Atomic(t) PROVE stage = "run" /\ Works(t) /\ Duty[place[t]] \in {"atomic"} /\ P!Advance(t)
  BY <1>11 DEF P!Atomic, P!At, Works, Duty
<1>12. ASSUME P!Arrive(t) PROVE stage = "run" /\ Works(t) /\ Duty[place[t]] \in {"arrive"} /\ P!Advance(t)
  BY <1>12 DEF P!Arrive, P!At, Works, Duty
<1>13. ASSUME P!Barrier(t) PROVE stage = "run" /\ Works(t) /\ Duty[place[t]] \in {"barrier"} /\ P!Advance(t)
  BY <1>13 DEF P!Barrier, P!At, Works, Duty
<1>14. ASSUME P!Compare(t) PROVE stage = "run" /\ Works(t) /\ Duty[place[t]] \in {"compare"} /\ P!Advance(t)
  BY <1>14 DEF P!Compare, P!At, Works, Duty
<1>15. ASSUME P!Single(t) PROVE stage = "run" /\ Works(t) /\ Duty[place[t]] \in {"single"} /\ P!Advance(t)
  BY <1>15 DEF P!Single, P!At, Works, Duty
<1>16. ASSUME P!CountThreads(t) PROVE stage = "run" /\ Works(t) /\ Duty[place[t]] \in {"threads"} /\ P!Advance(t)
  BY <1>16 DEF P!CountThreads, P!At, Works, Duty
<1>17. ASSUME P!Scope(t) PROVE stage = "run" /\ Works(t) /\ Duty[place[t]] \in {"scope"} /\ P!Advance(t)
  BY <1>17 DEF P!Scope, P!At, Works, Duty
<1>18. ASSUME P!Identity(t) PROVE stage = "run" /\ Works(t) /\ Duty[place[t]] \in {"identity"} /\ P!Advance(t)
  BY <1>18 DEF P!Identity, P!At, Works, Duty
<1>19. ASSUME P!Sort(t) PROVE stage = "run" /\ Works(t) /\ Duty[place[t]] \in {"sort"} /\ P!Advance(t)
  BY <1>19 DEF P!Sort, P!At, Works, Duty
<1> QED BY <1>1, <1>2, <1>3, <1>4, <1>5, <1>6, <1>7, <1>8, <1>9,
     <1>10, <1>11, <1>12, <1>13, <1>14, <1>15, <1>16, <1>17, <1>18, <1>19 DEF P!Body

LEMMA Advances ==
  ASSUME ThreadsInv, TeamInv, stage = "run", NEW t \in P!Threads, Works(t), P!Advance(t)
  PROVE  Goes(t)
<1>1. /\ place \in [P!Threads -> Nat] /\ item \in [P!Threads -> P!FromZero \cup P!FromOne \cup {P!NoItem}]
  BY DEF ThreadsInv, P!TypeOK
<1>2. DOMAIN Duty = 1..Len(Duty) /\ Len(Duty) \in Nat  BY DutyIs
<1>3. place[t] \in 1..Len(Duty)  BY <1>2 DEF Works
<1>4. place[t] # P!Out  BY <1>2, <1>3 DEF P!Out, Duty
<1>5. t <= team  BY <1>4 DEF TeamInv, P!Threads
<1>6. \/ P!IsLoop /\ place[t] = Len(Duty) /\ place' = [place EXCEPT ![t] = 0] /\ item' = [item EXCEPT ![t] = P!NoItem]
      \/ ~(P!IsLoop /\ place[t] = Len(Duty)) /\ place' = [place EXCEPT ![t] = place[t] + 1] /\ item' = item
  BY DEF P!Advance, Duty
<1>7. SameCheck /\ todo' = todo /\ bOk' = bOk /\ noticed' = noticed
  BY DEF P!Advance, SameCheck
<1> QED BY <1>1, <1>3, <1>5, <1>6, <1>7 DEF Goes

LEMMA ThreadsAre == P!Threads = {1, 2}
BY DEF P!Threads

\* Where the threads stand afterwards.
LEMMA PlacesKept ==
  ASSUME ThreadsInv, TeamInv, stage = "run", NEW t \in P!Threads, Goes(t), mem' \in MemTypes
  PROVE  TeamInv'
<1>1. place \in [P!Threads -> Nat]  BY DEF ThreadsInv, P!TypeOK
<1>2. /\ DOMAIN Duty = 1..Len(Duty) /\ Len(Duty) \in Nat
      /\ P!Now' = P!Now /\ Duty' = Duty /\ P!IsLoop' = P!IsLoop /\ P!Items' = P!Items /\ P!Out' = P!Out
      /\ P!Alone' = P!Alone
  BY DutyIs, DutySame DEF Goes, SameCheck
<1>3. /\ team' = team /\ todo' = todo /\ todo \subseteq P!Items /\ team \in P!Threads /\ (P!Alone => team = 1)
      /\ stage' = stage
  BY DEF Goes, SameCheck, TeamInv
<1>4. ASSUME NEW u \in P!Threads
      PROVE  IF u > team THEN place'[u] = P!Out
             ELSE place'[u] \in (IF P!IsLoop THEN 0..Len(Duty) ELSE 1..(Len(Duty) + 1))
  <2>1. CASE u = t
    <3>1. t <= team /\ place[t] \in 1..Len(Duty)  BY DEF Goes
    <3>2. CASE P!IsLoop /\ place[t] = Len(Duty)
      <4>1. place'[t] = 0  BY <1>1, <3>2 DEF Goes
      <4> QED BY <1>2, <1>3, <2>1, <3>1, <3>2, <4>1, ThreadsAre
    <3>3. CASE ~(P!IsLoop /\ place[t] = Len(Duty))
      <4>1. place'[t] = place[t] + 1  BY <1>1, <3>3 DEF Goes
      <4>2. place'[t] \in 1..(Len(Duty) + 1) /\ (P!IsLoop => place'[t] \in 0..Len(Duty))
        BY <1>2, <3>1, <3>3, <4>1
      <4> QED BY <1>3, <2>1, <3>1, <4>2, ThreadsAre
    <3> QED BY <3>2, <3>3
  <2>2. CASE u # t  BY <1>1, <2>2 DEF Goes, TeamInv
  <2> QED BY <2>1, <2>2
<1>5. ASSUME NEW u \in P!Threads, P!IsLoop, place'[u] \in DOMAIN Duty PROVE item'[u] \in P!Items
  <2>1. CASE u = t
    <3>1. place[t] # Len(Duty) /\ item' = item  BY <1>1, <1>2, <1>5, <2>1 DEF Goes
    <3> QED BY <1>2, <1>5, <2>1, <3>1 DEF Goes, TeamInv, Works
  <2>2. CASE u # t  BY <1>1, <1>5, <2>2 DEF Goes, TeamInv, Works
  <2> QED BY <2>1, <2>2
<1> QED BY <1>2, <1>3, <1>4, <1>5 DEF TeamInv, Works

(* What a thread does in which check. *)

\* The end of a check with a barrier.
LEMMA SyncEnds ==
  ASSUME ThreadsInv, stage # "idle", Task = "synchronization"
  PROVE  LET n == Len(Duty)
         IN  /\ n \in Nat /\ n > 4 /\ ~P!IsLoop /\ ~P!Tbb
             /\ Duty[n - 3] = "arrive" /\ Duty[n - 2] = "barrier" /\ Duty[n - 1] = "compare"
             /\ Duty[n] = "single"
             /\ \A k \in 1..(n - 4) : Duty[k] \in {"lock", "load", "store", "unlock", "atomic"}
<1> DEFINE n == Len(Duty)
           ends == SubSeq(Duty, n - 3, n)
<1>1. Synchronizes(P!Now) /\ ~P!IsLoop /\ ~P!Tbb  BY TaskIs
<1>2. n > 4 /\ ends = <<"arrive", "barrier", "compare", "single">>
      /\ \A k \in 1..(n - 4) : Duty[k] \in {"lock", "load", "store", "unlock", "atomic"}
  BY <1>1 DEF Synchronizes, Duty
<1>3. Duty \in Seq(Labels) /\ n \in Nat  BY ShapeOf
<1>4. \A i \in 1..4 : ends[i] = Duty[n - 4 + i]  BY <1>2, <1>3
<1>5. ends[1] = Duty[n - 3] /\ ends[2] = Duty[n - 2] /\ ends[3] = Duty[n - 1] /\ ends[4] = Duty[n]
  BY <1>3, <1>4
<1> HIDE DEF ends
<1>6. ends[1] = "arrive" /\ ends[2] = "barrier" /\ ends[3] = "compare" /\ ends[4] = "single"
  BY <1>2
<1> QED BY <1>1, <1>2, <1>3, <1>5, <1>6

LEMMA OpTask ==
  ASSUME ThreadsInv, stage # "idle", NEW k \in 1..Len(Duty)
  PROVE  LET op == Duty[k]
         IN  /\ op \in {"visit", "visitAndReduce", "assign", "add", "reduce", "one", "throw", "threads",
                        "identity", "sort"} => Len(Duty) = 1 /\ Task = op
             /\ op \in {"lock", "load", "store", "unlock"} => Task \in {"lock", "synchronization"}
             /\ op \in {"atomic", "arrive", "barrier", "compare", "single"} => Task = "synchronization"
             /\ op = "scope" => Task = "scope" /\ k = 1
             /\ op = "count" => (Len(Duty) = 1 /\ Task = "count") \/ (Task = "scope" /\ k = 2)
<1>1. CASE Len(Duty) = 1 /\ Duty[1] = Task
  <2>1. k = 1  BY <1>1
  <2>2. Task \in {"visit", "visitAndReduce", "assign", "add", "reduce", "one", "throw", "threads",
                  "identity", "sort", "count"}
    <3>1. Duty # Section /\ Duty # Scoping  BY <1>1 DEF Section, Scoping
    <3>2. ~Synchronizes(P!Now)  BY <1>1 DEF Synchronizes, Duty
    <3> QED BY <3>1, <3>2, TaskIs
  <2> QED BY <1>1, <2>1, <2>2
<1>2. CASE Duty = Section /\ Task = "lock"
  <2>1. Duty[k] \in {"lock", "load", "store", "unlock"}  BY <1>2 DEF Section
  <2> QED BY <1>2, <2>1
<1>3. CASE Duty = Scoping /\ Task = "scope"
  <2>1. k \in 1..2 /\ Duty[1] = "scope" /\ Duty[2] = "count"  BY <1>3 DEF Scoping
  <2> QED BY <1>3, <2>1
<1>4. CASE Task = "synchronization"
  <2>1. Duty[k] \in {"lock", "load", "store", "unlock", "atomic", "arrive", "barrier", "compare", "single"}
    <3>1. k \in 1..(Len(Duty) - 4) \/ k \in {Len(Duty) - 3, Len(Duty) - 2, Len(Duty) - 1, Len(Duty)}
      BY <1>4, SyncEnds
    <3> QED BY <1>4, <3>1, SyncEnds
  <2> QED BY <1>4, <2>1
<1> QED BY <1>1, <1>2, <1>3, <1>4, TaskIs

\* Loops and regions by their tasks.
LEMMA TaskForms ==
  ASSUME ThreadsInv, stage # "idle"
  PROVE  /\ Task \in {"visit", "visitAndReduce", "assign", "add", "reduce", "count"} =>
              P!IsLoop /\ Len(Duty) = 1 /\ Duty[1] = Task
         /\ Task = "lock" => P!IsLoop /\ Duty = Section
         /\ Task \in {"one", "throw", "threads", "identity", "sort"} =>
              ~P!IsLoop /\ Len(Duty) = 1 /\ Duty[1] = Task
         /\ Task = "scope" => ~P!IsLoop /\ Duty = Scoping
         /\ Task = "synchronization" => ~P!IsLoop
         /\ Task \in {"visit", "visitAndReduce", "assign", "add", "reduce", "count", "lock", "one", "throw",
                      "threads", "identity", "sort", "scope", "synchronization"}
BY TaskIs

(* What a thread does wrong. *)

LEMMA ItemHeld ==
  ASSUME ThreadsInv, TeamInv, stage = "run", NEW t \in P!Threads, Works(t), P!IsLoop
  PROVE  item[t] \in P!Items /\ item[t] \in 0..Elements
BY ItemsOf DEF TeamInv

\* What P!Keep says, if the result has to be watched.
LEMMA Kept ==
  ASSUME NEW t \in P!Threads, NEW new, P!Keep(t, new), noticed' = noticed, bOk' = bOk, Watched'
  PROVE  LET spoiled == IF P!IsLoop THEN {item[t]} ELSE {}
         IN  /\ Watched
             /\ \/ mem' = new /\ slips' = slips
                \/ /\ mem' = mem /\ slips = {} /\ slips' = {NewSlip("dropped", spoiled)}
                   /\ ~Invisible(NewSlip("dropped", spoiled))
<1> DEFINE spoiled == IF P!IsLoop THEN {item[t]} ELSE {}
<1>1. CASE mem' = new /\ slips' = slips  BY <1>1, SlipsKept
<1>2. CASE mem' = mem /\ P!Slip("dropped", spoiled)  BY <1>2, SlipHappens
<1> QED BY <1>1, <1>2 DEF P!Keep

LEMMA BodySlips ==
  ASSUME ThreadsInv, TeamInv, NEW t \in P!Threads, P!Body(t), Watched'
  PROVE  LET op == Duty[place[t]]
         IN  /\ Watched
             /\ \/ slips' = slips
                \/ /\ slips = {}
                   /\ \/ /\ slips' = {NewSlip("dropped", IF P!IsLoop THEN {item[t]} ELSE {})} /\ mem' = mem
                         /\ op \in {"visit", "visitAndReduce", "assign", "count", "throw", "add",
                                    "atomic", "arrive", "identity"}
                      \/ slips' = {NewSlip("scope", {})} /\ op = "scope"
                      \/ slips' = {NewSlip("single", {})} /\ op = "single"
                      \/ \E spoiled : slips' = {NewSlip("sort", spoiled)} /\ op = "sort"
<1>1. stage = "run" /\ Works(t) /\ noticed' = noticed /\ bOk' = bOk  BY OpOf, Advances DEF Goes
<1>2. ASSUME NEW new, P!Keep(t, new)
      PROVE  /\ Watched
             /\ \/ slips' = slips
                \/ /\ slips = {} /\ mem' = mem
                   /\ slips' = {NewSlip("dropped", IF P!IsLoop THEN {item[t]} ELSE {})}
  BY <1>1, <1>2, Kept
<1>3. slips' = slips => Watched  BY <1>1, SlipsKept
<1>4. ASSUME NEW ill, NEW spoiled, P!Slip(ill, spoiled)
      PROVE  Watched /\ slips = {} /\ slips' = {NewSlip(ill, spoiled)} /\ ~Invisible(NewSlip(ill, spoiled))
  BY <1>1, <1>4, SlipHappens
<1>5. CASE Duty[place[t]] = "visit" /\ P!Visit(t)  BY <1>2, <1>5 DEF P!Visit
<1>6. CASE Duty[place[t]] = "visitAndReduce" /\ P!VisitAndReduce(t)
  BY <1>2, <1>6 DEF P!VisitAndReduce
<1>7. CASE Duty[place[t]] = "assign" /\ P!Assign(t)  BY <1>2, <1>7 DEF P!Assign
<1>8. CASE Duty[place[t]] \in {"count", "throw"} /\ P!Count(t)  BY <1>2, <1>8 DEF P!Count
<1>9. CASE Duty[place[t]] = "add" /\ P!Add(t)  BY <1>2, <1>9 DEF P!Add
<1>10. CASE Duty[place[t]] = "atomic" /\ P!Atomic(t)  BY <1>2, <1>10 DEF P!Atomic
<1>11. CASE Duty[place[t]] = "arrive" /\ P!Arrive(t)  BY <1>2, <1>11 DEF P!Arrive
<1>12. CASE Duty[place[t]] = "identity" /\ P!Identity(t)  BY <1>2, <1>12 DEF P!Identity
<1>13. CASE P!Reduce(t) \/ P!Load(t) \/ P!Store(t) \/ P!Unlock(t) \/ P!Compare(t) \/ P!CountThreads(t)
  BY <1>3, <1>13 DEF P!Reduce, P!Load, P!Store, P!Unlock, P!Compare, P!CountThreads
<1>14. CASE P!Lock(t)
  <2>1. slips' = slips \/ P!Slip("lock", {})  BY <1>14 DEF P!Lock
  <2>2. Invisible(NewSlip("lock", {}))  BY DEF Invisible, NewSlip
  <2> QED BY <1>3, <1>4, <2>1, <2>2
<1>15. CASE P!Barrier(t)
  <2>1. slips' = slips \/ P!Slip("barrier", {})  BY <1>15 DEF P!Barrier
  <2>2. Invisible(NewSlip("barrier", {}))  BY DEF Invisible, NewSlip
  <2> QED BY <1>3, <1>4, <2>1, <2>2
<1>16. CASE Duty[place[t]] = "single" /\ P!Single(t)  BY <1>3, <1>4, <1>16 DEF P!Single
<1>17. CASE Duty[place[t]] = "scope" /\ P!Scope(t)  BY <1>3, <1>4, <1>17 DEF P!Scope
<1>18. CASE Duty[place[t]] = "sort" /\ P!Sort(t)
  <2>1. slips' = slips \/ \E spoiled : P!Slip("sort", spoiled)  BY <1>18 DEF P!Sort
  <2> QED BY <1>3, <1>4, <1>18, <2>1
<1> QED
  BY <1>5, <1>6, <1>7, <1>8, <1>9, <1>10, <1>11, <1>12, <1>13, <1>14, <1>15, <1>16, <1>17, <1>18, OpOf

LEMMA SlipLawKept ==
  ASSUME SlipLaw, list' = list, index' = index, team' = team, slips' = slips
  PROVE  SlipLaw'
<1>1. Hit({"team"})' <=> Hit({"team"})  BY DEF Hit
<1> QED BY <1>1, DutySame DEF SlipLaw

LEMMA SlipLawNew ==
  ASSUME SlipLaw, list' = list, index' = index, team' = team, slips = {},
         NEW ill, NEW spoiled, slips' = {NewSlip(ill, spoiled)},
         \/ ill = "sort"
         \/ ill \in {"again", "lost"} /\ \E i \in P!Items : spoiled = {i}
         \/ /\ ill = "dropped" /\ Task \notin {"reduce", "lock", "threads", "sort"}
            /\ P!IsLoop => \E i \in P!Items : spoiled = {i}
         \/ ill = "scope" /\ Task = "scope"
         \/ ill = "single" /\ Task = "synchronization"
  PROVE  SlipLaw'
<1>1. team = 2 \/ P!Alone \/ P!Tbb  BY DEF SlipLaw, Hit
<1>2. \A s \in slips' : s.check = P!Now.name /\ s.kind = ill /\ s.elements = spoiled
  BY DEF NewSlip
<1> QED BY <1>1, <1>2, DutySame DEF SlipLaw

LEMMA SlipLawBody ==
  ASSUME ThreadsInv, TeamInv, SlipLaw, NEW t \in P!Threads, P!Body(t), Watched'
  PROVE  SlipLaw'
<1>1. stage = "run" /\ Works(t) /\ SameCheck  BY OpOf, Advances DEF Goes
<1>2. place[t] \in 1..Len(Duty)  BY <1>1, DutyIs DEF Works
<1>3. P!IsLoop => item[t] \in P!Items  BY <1>1, ItemHeld
<1>4. CASE slips' = slips  BY <1>1, <1>4, SlipLawKept DEF SameCheck
<1>5. ASSUME slips = {}, slips' = {NewSlip("dropped", IF P!IsLoop THEN {item[t]} ELSE {})},
             Duty[place[t]] \in {"visit", "visitAndReduce", "assign", "count", "throw", "add",
                                 "atomic", "arrive", "identity"}
      PROVE  SlipLaw'
  <2>1. Task \notin {"reduce", "lock", "threads", "sort"}  BY <1>1, <1>2, <1>5, OpTask
  <2> QED BY <1>1, <1>3, <1>5, <2>1, SlipLawNew DEF SameCheck
<1>6. ASSUME slips = {}, slips' = {NewSlip("scope", {})}, Duty[place[t]] = "scope" PROVE SlipLaw'
  BY <1>1, <1>2, <1>6, OpTask, SlipLawNew DEF SameCheck
<1>7. ASSUME slips = {}, slips' = {NewSlip("single", {})}, Duty[place[t]] = "single" PROVE SlipLaw'
  BY <1>1, <1>2, <1>7, OpTask, SlipLawNew DEF SameCheck
<1>8. ASSUME slips = {}, NEW spoiled, slips' = {NewSlip("sort", spoiled)} PROVE SlipLaw'
  BY <1>1, <1>8, SlipLawNew DEF SameCheck
<1> QED BY <1>4, <1>5, <1>6, <1>7, <1>8, BodySlips

(* The shared data: types, the lock, the shares, the order. *)

LEMMA OneMore ==
  ASSUME NEW of, NEW f \in [of -> Nat], NEW i \in of
  PROVE  [f EXCEPT ![i] = @ + 1] \in [of -> Nat]
OBVIOUS

LEMMA MemUpdates ==
  ASSUME mem \in MemTypes
  PROVE  /\ mem.guarded \in Nat /\ mem.atomic \in Nat /\ mem.arrived \in Nat /\ mem.failed \in Nat
         /\ mem.single \in Nat /\ mem.total \in Nat /\ mem.visits \in [0..Elements -> Nat]
         /\ \A i \in 0..Elements : LET new == [mem EXCEPT !.visits[i] = @ + 1]
                                  IN  new \in MemTypes /\ new.guarded = mem.guarded
         /\ \A i \in 0..Elements : LET new == [mem EXCEPT !.assigned = @ \cup {i}]
                                  IN  new \in MemTypes /\ new.guarded = mem.guarded
         /\ \A n \in Nat : LET new == [mem EXCEPT !.total = n]
                            IN  new \in MemTypes /\ new.guarded = mem.guarded
         /\ \A n \in Nat : [mem EXCEPT !.guarded = n] \in MemTypes
         /\ \A n \in Nat : LET new == [mem EXCEPT !.atomic = n]
                            IN  new \in MemTypes /\ new.guarded = mem.guarded
         /\ \A n \in Nat : LET new == [mem EXCEPT !.arrived = n]
                            IN  new \in MemTypes /\ new.guarded = mem.guarded
         /\ \A n \in Nat : LET new == [mem EXCEPT !.failed = n]
                            IN  new \in MemTypes /\ new.guarded = mem.guarded
         /\ \A n \in Nat : LET new == [mem EXCEPT !.single = n]
                            IN  new \in MemTypes /\ new.guarded = mem.guarded
<1>1. ASSUME NEW i \in 0..Elements PROVE [mem EXCEPT !.visits[i] = @ + 1] \in MemTypes
  <2> DEFINE more == [mem.visits EXCEPT ![i] = @ + 1]
  <2>1. mem.visits \in [0..Elements -> Nat]  BY DEF MemTypes
  <2>2. more \in [0..Elements -> Nat]  BY <2>1, OneMore
  <2>3. [mem EXCEPT !.visits[i] = @ + 1] = [mem EXCEPT !.visits = more]  OBVIOUS
  <2> HIDE DEF more
  <2> QED BY <2>2, <2>3 DEF MemTypes
<1>2. \A i \in 0..Elements : [mem EXCEPT !.assigned = @ \cup {i}] \in MemTypes  BY DEF MemTypes
<1>3. \A n \in Nat : [mem EXCEPT !.total = n] \in MemTypes  BY DEF MemTypes
<1>4. \A n \in Nat : [mem EXCEPT !.guarded = n] \in MemTypes  BY DEF MemTypes
<1>5. \A n \in Nat : [mem EXCEPT !.atomic = n] \in MemTypes  BY DEF MemTypes
<1>6. \A n \in Nat : [mem EXCEPT !.arrived = n] \in MemTypes  BY DEF MemTypes
<1>7. \A n \in Nat : [mem EXCEPT !.failed = n] \in MemTypes  BY DEF MemTypes
<1>8. \A n \in Nat : [mem EXCEPT !.single = n] \in MemTypes  BY DEF MemTypes
<1>9. /\ \A i : [mem EXCEPT !.visits[i] = @ + 1].guarded = mem.guarded
      /\ \A i : [mem EXCEPT !.assigned = @ \cup {i}].guarded = mem.guarded
      /\ \A n : [mem EXCEPT !.total = n].guarded = mem.guarded
      /\ \A n : [mem EXCEPT !.atomic = n].guarded = mem.guarded
      /\ \A n : [mem EXCEPT !.arrived = n].guarded = mem.guarded
      /\ \A n : [mem EXCEPT !.failed = n].guarded = mem.guarded
      /\ \A n : [mem EXCEPT !.single = n].guarded = mem.guarded
  BY DEF MemTypes
<1>10. /\ mem.guarded \in Nat /\ mem.atomic \in Nat /\ mem.arrived \in Nat /\ mem.failed \in Nat
       /\ mem.single \in Nat /\ mem.total \in Nat /\ mem.visits \in [0..Elements -> Nat]
  BY DEF MemTypes
<1> QED BY <1>1, <1>2, <1>3, <1>4, <1>5, <1>6, <1>7, <1>8, <1>9, <1>10

LEMMA MemBody ==
  ASSUME ThreadsInv, TeamInv, NEW t \in P!Threads, P!Body(t)
  PROVE  mem' \in MemTypes /\ (Duty[place[t]] # "store" => mem'.guarded = mem.guarded)
<1> DEFINE Good(new) == new \in MemTypes /\ new.guarded = mem.guarded
<1>1. stage = "run" /\ Works(t) /\ mem \in MemTypes /\ team \in Nat /\ place[t] \in 1..Len(Duty)
  BY OpOf, DutyIs DEF TeamInv, P!Threads, Works
<1>2. item[t] \in Nat /\ reg[t] \in Nat
  BY ItemsAre, ParallelChecksAssumption DEF ThreadsInv, P!TypeOK, Items, P!NoItem
<1>3. ASSUME Duty[place[t]] \in {"visit", "visitAndReduce", "assign"} PROVE item[t] \in 0..Elements
  <2>1. P!IsLoop  BY <1>1, <1>3, OpTask, TaskForms
  <2> QED BY <1>1, <2>1, ItemHeld
<1>4. /\ Good(mem)
      /\ \A i \in 0..Elements : Good([mem EXCEPT !.visits[i] = @ + 1])
      /\ \A i \in 0..Elements : Good([mem EXCEPT !.assigned = @ \cup {i}])
  BY <1>1, MemUpdates
<1>5. /\ \A n \in Nat : Good([mem EXCEPT !.total = n])
      /\ \A n \in Nat : Good([mem EXCEPT !.atomic = n])
      /\ \A n \in Nat : Good([mem EXCEPT !.arrived = n])
      /\ \A n \in Nat : Good([mem EXCEPT !.failed = n])
      /\ \A n \in Nat : Good([mem EXCEPT !.single = n])
  BY <1>1, MemUpdates
<1>6. \A n \in Nat : [mem EXCEPT !.guarded = n] \in MemTypes  BY <1>1, MemUpdates
<1> HIDE DEF Good
<1>7. ASSUME NEW new, P!Keep(t, new), Good(new) PROVE Good(mem')  BY <1>7, <1>4 DEF P!Keep
<1>8. ASSUME \/ Duty[place[t]] = "visit" /\ P!Visit(t)
             \/ Duty[place[t]] = "visitAndReduce" /\ P!VisitAndReduce(t)
      PROVE  Good(mem')
  <2>1. P!Keep(t, [mem EXCEPT !.visits[item[t]] = @ + 1])
    BY <1>8 DEF P!Visit, P!VisitAndReduce
  <2> QED BY <1>3, <1>7, <1>8, <1>4, <2>1
<1>9. ASSUME Duty[place[t]] = "assign" /\ P!Assign(t) PROVE Good(mem')
  <2>1. P!Keep(t, [mem EXCEPT !.assigned = @ \cup {item[t]}])  BY <1>9 DEF P!Assign
  <2> QED BY <1>3, <1>7, <1>9, <1>4, <2>1
<1>10. ASSUME P!Count(t) \/ P!Add(t) \/ P!Identity(t) PROVE Good(mem')
  <2>1. \E n \in Nat : P!Keep(t, [mem EXCEPT !.total = n])
    <3>1. \/ P!Keep(t, [mem EXCEPT !.total = mem.total + 1])
          \/ P!Keep(t, [mem EXCEPT !.total = mem.total + item[t]])
          \/ P!Keep(t, [mem EXCEPT !.total = 1])
      BY <1>10 DEF P!Count, P!Add, P!Identity
    <3>2. mem.total + 1 \in Nat /\ mem.total + item[t] \in Nat  BY <1>1, <1>2, MemUpdates
    <3> QED BY <3>1, <3>2
  <2>2. PICK n \in Nat : P!Keep(t, [mem EXCEPT !.total = n])  BY <2>1
  <2>3. Good([mem EXCEPT !.total = n])  BY <1>5
  <2> QED BY <1>7, <2>2, <2>3
<1>11. ASSUME P!Atomic(t) PROVE Good(mem')
  <2>1. P!Keep(t, [mem EXCEPT !.atomic = mem.atomic + 1]) /\ mem.atomic + 1 \in Nat
    BY <1>1, <1>11, MemUpdates DEF P!Atomic
  <2> QED BY <1>7, <1>5, <2>1
<1>12. ASSUME P!Arrive(t) PROVE Good(mem')
  <2>1. P!Keep(t, [mem EXCEPT !.arrived = mem.arrived + 1]) /\ mem.arrived + 1 \in Nat
    BY <1>1, <1>12, MemUpdates DEF P!Arrive
  <2> QED BY <1>7, <1>5, <2>1
<1>13. ASSUME P!Reduce(t) \/ P!Lock(t) \/ P!Load(t) \/ P!Unlock(t) \/ P!Barrier(t) \/ P!Sort(t) PROVE Good(mem')
  <2>1. mem' = mem  BY <1>13 DEF P!Reduce, P!Lock, P!Load, P!Unlock, P!Barrier, P!Sort
  <2> QED BY <1>4, <2>1
<1>14. CASE Duty[place[t]] = "store" /\ P!Store(t)
  <2>1. mem' = [mem EXCEPT !.guarded = reg[t] + 1] /\ reg[t] + 1 \in Nat
    BY <1>2, <1>14 DEF P!Store
  <2> QED BY <1>14, <1>6, <2>1
<1>15. ASSUME P!Compare(t) \/ P!Scope(t) PROVE Good(mem')
  <2>1. mem.failed + 1 \in Nat /\ (mem' = [mem EXCEPT !.failed = mem.failed + 1] \/ mem' = mem)
    BY <1>1, <1>15, MemUpdates DEF P!Compare, P!Scope
  <2> QED BY <1>4, <1>5, <2>1
<1>16. ASSUME P!Single(t) PROVE Good(mem')
  <2>1. 1 \in Nat /\ 2 \in Nat /\ (mem' = [mem EXCEPT !.single = 1] \/ mem' = [mem EXCEPT !.single = 2])
    BY <1>16 DEF P!Single
  <2> QED BY <1>5, <2>1
<1>17. ASSUME P!CountThreads(t) PROVE Good(mem')
  <2>1. mem' = [mem EXCEPT !.total = team]  BY <1>17 DEF P!CountThreads
  <2>2. Good([mem EXCEPT !.total = team])
    <3>1. team \in Nat  BY <1>1
    <3> QED BY <1>5, <3>1
  <2> QED BY <2>1, <2>2
<1>18. Good(mem') \/ (Duty[place[t]] = "store" /\ P!Store(t))
  BY <1>8, <1>9, <1>10, <1>11, <1>12, <1>13, <1>15, <1>16, <1>17, OpOf
<1> QED BY <1>14, <1>18 DEF Good

LEMMA TeamBody == ASSUME ThreadsInv, TeamInv, NEW t \in P!Threads, P!Body(t) PROVE TeamInv'
BY OpOf, Advances, MemBody, PlacesKept

\* What becomes of the lock and of the value that has been loaded.
LEMMA LockAfter ==
  ASSUME ThreadsInv, NEW t \in P!Threads, P!Body(t)
  PROVE  LET op == Duty[place[t]]
         IN  /\ op = "lock" => lock' = t /\ reg' = reg /\ (lock = 0 \/ P!Slip("lock", {}))
             /\ op = "load" => lock' = lock /\ reg' = [reg EXCEPT ![t] = mem.guarded]
             /\ op = "unlock" => lock' = 0 /\ reg' = reg
             /\ op \notin {"lock", "load", "unlock"} => lock' = lock /\ reg' = reg
<1>1. CASE P!Visit(t) \/ P!VisitAndReduce(t) \/ P!Assign(t) \/ P!Count(t) \/ P!Add(t) \/ P!Reduce(t)
  <2>1. Duty[place[t]] \in {"visit", "visitAndReduce", "assign", "count", "throw", "add", "reduce", "one"}
    BY <1>1 DEF P!Visit, P!VisitAndReduce, P!Assign, P!Count, P!Add, P!Reduce, P!At, Duty
  <2>2. lock' = lock /\ reg' = reg
    BY <1>1 DEF P!Visit, P!VisitAndReduce, P!Assign, P!Count, P!Add, P!Reduce
  <2> QED BY <2>1, <2>2
<1>2. CASE P!Atomic(t) \/ P!Arrive(t) \/ P!Barrier(t) \/ P!Compare(t) \/ P!Single(t)
  <2>1. Duty[place[t]] \in {"atomic", "arrive", "barrier", "compare", "single"}
    BY <1>2 DEF P!Atomic, P!Arrive, P!Barrier, P!Compare, P!Single, P!At, Duty
  <2>2. lock' = lock /\ reg' = reg
    BY <1>2 DEF P!Atomic, P!Arrive, P!Barrier, P!Compare, P!Single
  <2> QED BY <2>1, <2>2
<1>3. CASE P!CountThreads(t) \/ P!Scope(t) \/ P!Identity(t) \/ P!Sort(t) \/ P!Store(t)
  <2>1. Duty[place[t]] \in {"threads", "scope", "identity", "sort", "store"}
    BY <1>3 DEF P!CountThreads, P!Scope, P!Identity, P!Sort, P!Store, P!At, Duty
  <2>2. lock' = lock /\ reg' = reg
    BY <1>3 DEF P!CountThreads, P!Scope, P!Identity, P!Sort, P!Store
  <2> QED BY <2>1, <2>2
<1>4. CASE Duty[place[t]] = "lock" /\ P!Lock(t)  BY <1>4 DEF P!Lock
<1>5. CASE Duty[place[t]] = "load" /\ P!Load(t)  BY <1>5 DEF P!Load
<1>6. CASE Duty[place[t]] = "unlock" /\ P!Unlock(t)  BY <1>6 DEF P!Unlock
<1> QED BY <1>1, <1>2, <1>3, <1>4, <1>5, <1>6, OpOf

\* Whoever can write has the lock, and has read what is there.
LEMMA LockLawBody ==
  ASSUME ThreadsInv, TeamInv, LockLaw, NEW t \in P!Threads, P!Body(t), Watched'
  PROVE  LockLaw'
<1>1. stage = "run" /\ Works(t) /\ Goes(t)  BY OpOf, Advances
<1>2. Duty' = Duty /\ DOMAIN Duty = 1..Len(Duty) /\ Len(Duty) \in Nat /\ place[t] \in 1..Len(Duty)
  BY <1>1, DutyIs, DutySame DEF Goes, SameCheck
<1>3. place \in [P!Threads -> Nat] /\ reg \in [P!Threads -> Nat]  BY DEF ThreadsInv, P!TypeOK
<1>4. Duty[place[t]] = "lock" => lock = 0
  <2>1. ~P!Slip("lock", {})
    <3>1. Invisible(NewSlip("lock", {}))  BY DEF Invisible, NewSlip
    <3> QED BY <1>1, <3>1, SlipHappens DEF Goes
  <2> QED BY <2>1, LockAfter
<1> SUFFICES ASSUME NEW u \in P!Threads, Works(u)'
             PROVE  /\ Duty[place'[u]] \in {"load", "store", "unlock"} => lock' = u
                    /\ Duty[place'[u]] = "store" => reg'[u] = mem'.guarded
  BY <1>2 DEF LockLaw
<1>5. place'[u] \in 1..Len(Duty)  BY <1>2 DEF Works
<1>6. CASE u = t
  <2>1. place'[t] = place[t] + 1 \/ place'[t] = 0  BY <1>1, <1>3 DEF Goes
  <2>2. place'[t] - 1 = place[t] /\ place'[t] \in 1..Len(Duty)
    <3>1. place'[t] \in 1..Len(Duty) /\ place[t] \in Nat  BY <1>3, <1>5, <1>6
    <3> QED BY <2>1, <3>1
  <2>3. /\ Duty[place'[t]] = "load" => Duty[place[t]] = "lock"
        /\ Duty[place'[t]] = "store" => Duty[place[t]] = "load"
        /\ Duty[place'[t]] = "unlock" => Duty[place[t]] = "store"
    BY <1>1, <2>2, OrderOf
  <2>4. Duty[place[t]] \in {"load", "store"} => lock = t  BY <1>1 DEF LockLaw
  <2> QED BY <1>3, <1>6, <2>3, <2>4, LockAfter, MemBody
<1>7. CASE u # t
  <2>1. place'[u] = place[u] /\ Works(u)  BY <1>1, <1>2, <1>3, <1>5, <1>7 DEF Goes, Works
  <2>2. ASSUME Duty[place[u]] \in {"load", "store", "unlock"}
        PROVE  lock = u /\ Duty[place[t]] \notin {"lock", "load", "store", "unlock"}
    <3>1. lock = u /\ u # 0  BY <2>1, <2>2, ThreadsAre DEF LockLaw
    <3>2. Duty[place[t]] \in {"load", "store", "unlock"} => lock = t  BY <1>1 DEF LockLaw
    <3> QED BY <1>4, <1>7, <3>1, <3>2
  <2>3. Duty[place[u]] = "store" => reg[u] = mem.guarded  BY <2>1 DEF LockLaw
  <2> QED BY <2>1, <2>2, <2>3, LockAfter, MemBody
<1> QED BY <1>6, <1>7

\* The shares of a reduction.
LEMMA PartialAfter ==
  ASSUME ThreadsInv, NEW t \in P!Threads, P!Body(t)
  PROVE  LET op == Duty[place[t]]
         IN  /\ op = "visitAndReduce" => partial' = [partial EXCEPT ![t] = @ + item[t]]
             /\ op \in {"reduce", "one"} =>
                  partial' = [partial EXCEPT ![t] = @ + (IF P!IsLoop THEN item[t] ELSE 1)]
             /\ op \notin {"visitAndReduce", "reduce", "one"} => partial' = partial
<1>1. CASE Duty[place[t]] = "visitAndReduce" /\ P!VisitAndReduce(t)
  BY <1>1 DEF P!VisitAndReduce
<1>2. CASE Duty[place[t]] \in {"reduce", "one"} /\ P!Reduce(t)  BY <1>2 DEF P!Reduce
<1>3. CASE P!Visit(t) \/ P!Assign(t) \/ P!Count(t) \/ P!Add(t)
  <2>1. Duty[place[t]] \in {"visit", "assign", "count", "throw", "add"}
    BY <1>3 DEF P!Visit, P!Assign, P!Count, P!Add, P!At, Duty
  <2>2. partial' = partial  BY <1>3 DEF P!Visit, P!Assign, P!Count, P!Add
  <2> QED BY <2>1, <2>2
<1>4. CASE P!Lock(t) \/ P!Load(t) \/ P!Store(t) \/ P!Unlock(t)
  <2>1. Duty[place[t]] \in {"lock", "load", "store", "unlock"}
    BY <1>4 DEF P!Lock, P!Load, P!Store, P!Unlock, P!At, Duty
  <2>2. partial' = partial  BY <1>4 DEF P!Lock, P!Load, P!Store, P!Unlock
  <2> QED BY <2>1, <2>2
<1>5. CASE P!Atomic(t) \/ P!Arrive(t) \/ P!Barrier(t) \/ P!Compare(t) \/ P!Single(t)
  <2>1. Duty[place[t]] \in {"atomic", "arrive", "barrier", "compare", "single"}
    BY <1>5 DEF P!Atomic, P!Arrive, P!Barrier, P!Compare, P!Single, P!At, Duty
  <2>2. partial' = partial  BY <1>5 DEF P!Atomic, P!Arrive, P!Barrier, P!Compare, P!Single
  <2> QED BY <2>1, <2>2
<1>6. CASE P!CountThreads(t) \/ P!Scope(t) \/ P!Identity(t) \/ P!Sort(t)
  <2>1. Duty[place[t]] \in {"threads", "scope", "identity", "sort"}
    BY <1>6 DEF P!CountThreads, P!Scope, P!Identity, P!Sort, P!At, Duty
  <2>2. partial' = partial  BY <1>6 DEF P!CountThreads, P!Scope, P!Identity, P!Sort
  <2> QED BY <2>1, <2>2
<1> QED BY <1>1, <1>2, <1>3, <1>4, <1>5, <1>6, OpOf

LEMMA PartialLawBody ==
  ASSUME ThreadsInv, TeamInv, PartialLaw, NEW t \in P!Threads, P!Body(t)
  PROVE  PartialLaw'
<1>1. stage = "run" /\ Works(t) /\ SameCheck  BY OpOf, Advances DEF Goes
<1>2. Task' = Task /\ place[t] \in 1..Len(Duty)  BY <1>1, DutyIs, DutySame DEF Works, SameCheck
<1>3. Duty[place[t]] \in {"visitAndReduce", "reduce", "one"} => Task = Duty[place[t]]
  BY <1>1, <1>2, OpTask
<1> QED BY <1>2, <1>3, PartialAfter DEF PartialLaw

(* Loops: what has been done, what is in hand, what is still to be taken. *)

\* A thread executes an instruction of a loop.
LEMMA HandsAfter ==
  ASSUME ThreadsInv, TeamInv, stage = "run", NEW t \in P!Threads, Works(t), Goes(t), P!IsLoop
  PROVE  /\ \A u \in P!Threads \ {t} : (Works(u)' <=> Works(u)) /\ item'[u] = item[u] /\ place'[u] = place[u]
         /\ IF place[t] = Len(Duty) THEN ~Works(t)' /\ place'[t] = 0
            ELSE Works(t)' /\ item'[t] = item[t] /\ place'[t] = place[t] + 1
         /\ place[t] \in 1..Len(Duty)
<1>1. place \in [P!Threads -> Nat]  BY DEF ThreadsInv, P!TypeOK
<1>2. DOMAIN Duty = 1..Len(Duty) /\ Len(Duty) \in Nat  BY DutyIs
<1>3. Duty' = Duty /\ place[t] \in 1..Len(Duty)  BY DutySame DEF Goes, SameCheck
<1> QED BY <1>1, <1>2, <1>3 DEF Goes, Works

LEMMA PendingAfter ==
  ASSUME ThreadsInv, TeamInv, stage = "run", NEW t \in P!Threads, Works(t), Goes(t), P!IsLoop,
         Len(Duty) = 1, NEW i
  PROVE  /\ Pending(i) \in Nat /\ Pending(i)' \in Nat
         /\ Pending(i) = Pending(i)' + OneIf(item[t] = i)
<1>1. todo' = todo  BY DEF Goes
<1>2. ~Works(t)' /\ \A u \in P!Threads \ {t} : (Works(u)' <=> Works(u)) /\ item'[u] = item[u]
  BY HandsAfter
<1>3. CASE t = 1  BY <1>1, <1>2, <1>3, ThreadsAre DEF Pending, InHand, OneIf
<1>4. CASE t = 2  BY <1>1, <1>2, <1>4, ThreadsAre DEF Pending, InHand, OneIf
<1> QED BY <1>3, <1>4, ThreadsAre

LEMMA WeightIs ==
  /\ \A i \in Nat : Weight(Counting, i) \in Nat
  /\ \A i \in 0..Elements : Weight(Counting, i) \in 0..Elements
  /\ Counting \in BOOLEAN
BY ParallelChecksAssumption DEF Weight, Counting

LEMMA ItemNat == ASSUME ThreadsInv, NEW t \in P!Threads PROVE item[t] \in Nat
BY ItemsAre, ParallelChecksAssumption DEF ThreadsInv, P!TypeOK, Items, P!NoItem

LEMMA LoadsAre ==
  ASSUME ThreadsInv, TeamInv, stage = "run"
  PROVE  /\ Load(1) \in Nat /\ Load(2) \in Nat /\ Made \in Nat /\ SumOf(Counting, todo) \in Nat
         /\ Accounted \in Nat
         /\ partial[1] \in Nat /\ partial[2] \in Nat
<1>1. Load(1) \in Nat /\ Load(2) \in Nat  BY ItemNat, ThreadsAre, WeightIs DEF Load
<1>2. mem.total \in Nat /\ mem.guarded \in Nat  BY MemUpdates DEF TeamInv
<1>3. partial[1] \in Nat /\ partial[2] \in Nat  BY ThreadsAre DEF ThreadsInv, P!TypeOK
<1>4. Made \in Nat  BY <1>2, <1>3 DEF Made
<1>5. SumOf(Counting, todo) \in Nat  BY SumIsNat, WeightIs DEF ThreadsInv, P!TypeOK
<1> QED BY <1>1, <1>3, <1>4, <1>5 DEF Accounted

LEMMA LoadsAfter ==
  ASSUME ThreadsInv, TeamInv, stage = "run", NEW t \in P!Threads, Works(t), Goes(t), P!IsLoop,
         Len(Duty) = 1
  PROVE  /\ Load(1) + Load(2) = Load(1)' + Load(2)' + Weight(Counting, item[t])
         /\ Load(1)' \in Nat /\ Load(2)' \in Nat /\ Weight(Counting, item[t]) \in Nat
<1>1. place[t] = 1 /\ ~Works(t)'  BY HandsAfter
<1>2. \A u \in P!Threads \ {t} : (Works(u)' <=> Works(u)) /\ item'[u] = item[u] /\ place'[u] = place[u]
  BY HandsAfter
<1>3. Counting' = Counting  BY DutySame DEF Goes, SameCheck
<1>4. Load(t) = Weight(Counting, item[t]) /\ Load(t)' = 0  BY <1>1 DEF Load
<1>5. \A u \in P!Threads \ {t} : Load(u)' = Load(u)  BY <1>2, <1>3 DEF Load, Weight
<1>6. Load(1) \in Nat /\ Load(2) \in Nat /\ Weight(Counting, item[t]) \in Nat
  BY LoadsAre, ItemNat, WeightIs
<1>7. CASE t = 1  BY <1>4, <1>5, <1>6, <1>7, ThreadsAre
<1>8. CASE t = 2  BY <1>4, <1>5, <1>6, <1>8, ThreadsAre
<1> QED BY <1>7, <1>8, ThreadsAre

LEMMA MoreAt ==
  ASSUME NEW of, NEW f \in [of -> Nat], NEW i \in of, NEW j \in of
  PROVE  [f EXCEPT ![i] = @ + 1][j] = f[j] + OneIf(i = j)
BY DEF OneIf

LEMMA VisitLawBody ==
  ASSUME ThreadsInv, TeamInv, VisitLaw, NEW t \in P!Threads, P!Body(t), Watched'
  PROVE  VisitLaw'
<1>1. stage = "run" /\ Works(t) /\ Goes(t) /\ SameCheck /\ noticed' = noticed /\ bOk' = bOk
  BY OpOf, Advances DEF Goes
<1>2. Task' = Task /\ P!Items' = P!Items  BY <1>1, DutySame DEF SameCheck
<1> SUFFICES ASSUME Task \in {"visit", "visitAndReduce"}, NEW i \in P!Items
             PROVE  mem'.visits[i] + Pending(i)' + OneIf(Struck(i, {"lost", "dropped"})') =
                      1 + OneIf(Struck(i, {"again"})')
  BY <1>2 DEF VisitLaw
<1>3. P!IsLoop /\ Len(Duty) = 1 /\ place[t] = 1 /\ Duty[place[t]] = Task
  BY <1>1, TaskForms, DutyIs DEF Works
<1>4. i \in 0..Elements /\ item[t] \in 0..Elements /\ item[t] \in P!Items
  BY <1>1, <1>3, ItemsOf, ItemHeld
<1>5. /\ Pending(i) \in Nat /\ Pending(i)' \in Nat /\ Pending(i) = Pending(i)' + OneIf(item[t] = i)
  BY <1>1, <1>3, PendingAfter
<1>6. mem.visits[i] + Pending(i) + OneIf(Struck(i, {"lost", "dropped"})) = 1 + OneIf(Struck(i, {"again"}))
  BY DEF VisitLaw
<1>7. mem.visits \in [0..Elements -> Nat]  BY <1>1, MemUpdates DEF TeamInv
<1>8. P!Keep(t, [mem EXCEPT !.visits[item[t]] = @ + 1])
  <2>1. P!Visit(t) \/ P!VisitAndReduce(t)  BY <1>3, OpOf
  <2> QED BY <2>1 DEF P!Visit, P!VisitAndReduce
<1>9. CASE mem' = [mem EXCEPT !.visits[item[t]] = @ + 1] /\ slips' = slips
  <2>1. mem'.visits[i] = mem.visits[i] + OneIf(item[t] = i)
    <3>1. mem'.visits = [mem.visits EXCEPT ![item[t]] = @ + 1]
      BY <1>1, <1>9 DEF TeamInv, MemTypes
    <3>2. [mem.visits EXCEPT ![item[t]] = @ + 1][i] = mem.visits[i] + OneIf(item[t] = i)
      BY <1>4, <1>7, MoreAt
    <3> QED BY <3>1, <3>2
  <2>2. /\ Struck(i, {"lost", "dropped"})' <=> Struck(i, {"lost", "dropped"})
        /\ Struck(i, {"again"})' <=> Struck(i, {"again"})
    BY <1>9 DEF Struck
  <2>3. mem.visits[i] \in Nat  BY <1>4, <1>7
  <2> QED BY <1>5, <1>6, <2>1, <2>2, <2>3 DEF OneIf
<1>10. CASE mem' = mem /\ slips = {} /\ slips' = {NewSlip("dropped", {item[t]})}
  <2>1. /\ ~Struck(i, {"lost", "dropped"}) /\ ~Struck(i, {"again"}) /\ ~Struck(i, {"again"})'
        /\ Struck(i, {"lost", "dropped"})' <=> item[t] = i
    BY <1>10 DEF Struck, NewSlip
  <2>2. mem.visits[i] \in Nat  BY <1>4, <1>7
  <2> QED BY <1>5, <1>6, <1>10, <2>1, <2>2 DEF OneIf
<1> QED BY <1>1, <1>3, <1>8, <1>9, <1>10, Kept

LEMMA AssignLawBody ==
  ASSUME ThreadsInv, TeamInv, AssignLaw, NEW t \in P!Threads, P!Body(t), Watched'
  PROVE  AssignLaw'
<1>1. stage = "run" /\ Works(t) /\ Goes(t) /\ SameCheck /\ noticed' = noticed /\ bOk' = bOk
  BY OpOf, Advances DEF Goes
<1>2. Task' = Task /\ P!Items' = P!Items  BY <1>1, DutySame DEF SameCheck
<1> SUFFICES ASSUME Task = "assign"
             PROVE  /\ mem'.assigned \subseteq P!Items
                    /\ \A i \in P!Items :
                         OneIf(i \in mem'.assigned) + Pending(i)' + OneIf(Struck(i, {"lost", "dropped"})') = 1
  BY <1>2 DEF AssignLaw
<1>3. P!IsLoop /\ Len(Duty) = 1 /\ place[t] = 1 /\ Duty[place[t]] = Task
  BY <1>1, TaskForms, DutyIs DEF Works
<1>4. P!Keep(t, [mem EXCEPT !.assigned = @ \cup {item[t]}])
  <2>1. P!Assign(t)  BY <1>3, OpOf
  <2> QED BY <2>1 DEF P!Assign
<1>7. mem'.assigned \subseteq P!Items
  <2>1. mem.assigned \subseteq P!Items /\ item[t] \in P!Items
    BY <1>1, <1>3, ItemHeld DEF AssignLaw
  <2>2. mem' = [mem EXCEPT !.assigned = @ \cup {item[t]}] \/ mem' = mem  BY <1>4 DEF P!Keep
  <2> QED BY <1>1, <2>1, <2>2 DEF TeamInv, MemTypes
<1> SUFFICES ASSUME NEW i \in P!Items
             PROVE  OneIf(i \in mem'.assigned) + Pending(i)' + OneIf(Struck(i, {"lost", "dropped"})') = 1
  BY <1>7
<1>5. /\ Pending(i) \in Nat /\ Pending(i)' \in Nat /\ Pending(i) = Pending(i)' + OneIf(item[t] = i)
  BY <1>1, <1>3, PendingAfter
<1>6. OneIf(i \in mem.assigned) + Pending(i) + OneIf(Struck(i, {"lost", "dropped"})) = 1
  BY DEF AssignLaw
<1>9. CASE mem' = [mem EXCEPT !.assigned = @ \cup {item[t]}] /\ slips' = slips
  <2>1. i \in mem'.assigned <=> i \in mem.assigned \/ item[t] = i
    <3>1. mem'.assigned = mem.assigned \cup {item[t]}  BY <1>1, <1>9 DEF TeamInv, MemTypes
    <3> QED BY <3>1
  <2>2. Struck(i, {"lost", "dropped"})' <=> Struck(i, {"lost", "dropped"})  BY <1>9 DEF Struck
  <2> QED BY <1>5, <1>6, <2>1, <2>2 DEF OneIf
<1>10. CASE mem' = mem /\ slips = {} /\ slips' = {NewSlip("dropped", {item[t]})}
  <2>1. ~Struck(i, {"lost", "dropped"}) /\ (Struck(i, {"lost", "dropped"})' <=> item[t] = i)
    BY <1>10 DEF Struck, NewSlip
  <2> QED BY <1>5, <1>6, <1>10, <2>1 DEF OneIf
<1> QED BY <1>1, <1>3, <1>4, <1>9, <1>10, Kept

(* Sums. *)

LEMMA TotalKept ==
  ASSUME TotalLaw, list' = list, index' = index, slips' = slips, P!IsLoop => Accounted' = Accounted
  PROVE  TotalLaw'
<1>1. \A kinds, n : Weighs(kinds, n)' <=> Weighs(kinds, n)
  BY DutySame DEF Weighs, Weight, Hit, Struck
<1>2. /\ P!IsLoop' = P!IsLoop /\ Task' = Task /\ Losses' = Losses
      /\ SumOf(Counting, P!Items)' = SumOf(Counting, P!Items)
  BY DutySame DEF SumOf, Units
<1> QED BY <1>1, <1>2 DEF TotalLaw

LEMMA TotalNew ==
  ASSUME TotalLaw, list' = list, index' = index, slips = {}, Accounted \in Nat, Accounted' \in Nat,
         NEW ill, NEW spoiled, slips' = {NewSlip(ill, spoiled)},
         P!IsLoop =>
           \/ Accounted' = Accounted /\ ill \notin Losses \cup {"again"}
           \/ \E i \in P!Items : /\ spoiled = {i} /\ ill = "again"
                                 /\ Accounted' = Accounted + Weight(Counting, i)
           \/ \E i \in P!Items : /\ spoiled = {i} /\ ill \in Losses
                                 /\ Accounted = Accounted' + Weight(Counting, i)
  PROVE  TotalLaw'
<1>1. /\ P!IsLoop' = P!IsLoop /\ Task' = Task /\ Counting' = Counting /\ Losses' = Losses
      /\ P!Items' = P!Items /\ SumOf(Counting, P!Items)' = SumOf(Counting, P!Items)
  BY DutySame DEF SumOf, Units
<1> SUFFICES ASSUME P!IsLoop, Task \notin {"visit", "assign"}
             PROVE  \E more, less \in 0..Elements :
                      /\ Weighs({"again"}, more)' /\ Weighs(Losses, less)'
                      /\ Accounted' + less = SumOf(Counting, P!Items) + more
  BY <1>1 DEF TotalLaw
<1>2. 0 \in 0..Elements  BY ParallelChecksAssumption
<1>3. Accounted = SumOf(Counting, P!Items)
  <2>1. PICK more, less \in 0..Elements :
          /\ Weighs({"again"}, more) /\ Weighs(Losses, less)
          /\ Accounted + less = SumOf(Counting, P!Items) + more
    BY DEF TotalLaw
  <2>2. more = 0 /\ less = 0  BY <2>1 DEF Weighs, Hit
  <2>3. SumOf(Counting, P!Items) \in Nat  BY ItemsOf, SumIsNat, WeightIs
  <2> QED BY <2>1, <2>2, <2>3
<1>4. ASSUME NEW kinds
      PROVE  /\ ill \notin kinds => Weighs(kinds, 0)'
             /\ \A i \in P!Items : \A n : ill \in kinds /\ spoiled = {i} /\ n = Weight(Counting, i) => Weighs(kinds, n)'
  BY <1>1 DEF Weighs, Hit, Struck, NewSlip, Weight
<1>5. Losses' = Losses /\ "again" \notin Losses  BY <1>1 DEF Losses
<1>6. ASSUME Accounted' = Accounted, ill \notin Losses \cup {"again"}
      PROVE  \E more, less \in 0..Elements :
                      /\ Weighs({"again"}, more)' /\ Weighs(Losses, less)'
                      /\ Accounted' + less = SumOf(Counting, P!Items) + more
  BY <1>2, <1>3, <1>4, <1>5, <1>6
<1>7. ASSUME NEW i \in P!Items, spoiled = {i}, ill = "again", Accounted' = Accounted + Weight(Counting, i)
      PROVE  \E more, less \in 0..Elements :
                      /\ Weighs({"again"}, more)' /\ Weighs(Losses, less)'
                      /\ Accounted' + less = SumOf(Counting, P!Items) + more
  <2>1. PICK n \in 0..Elements : n = Weight(Counting, i)  BY ItemsOf, WeightIs
  <2>2. Weighs({"again"}, n)' /\ Weighs(Losses, 0)'  BY <1>4, <1>5, <1>7, <2>1
  <2>3. Accounted' + 0 = SumOf(Counting, P!Items) + n  BY <1>3, <1>7, <2>1
  <2> QED BY <1>2, <2>1, <2>2, <2>3
<1>8. ASSUME NEW i \in P!Items, spoiled = {i}, ill \in Losses, Accounted = Accounted' + Weight(Counting, i)
      PROVE  \E more, less \in 0..Elements :
                      /\ Weighs({"again"}, more)' /\ Weighs(Losses, less)'
                      /\ Accounted' + less = SumOf(Counting, P!Items) + more
  <2>1. PICK n \in 0..Elements : n = Weight(Counting, i)  BY ItemsOf, WeightIs
  <2>2. Weighs({"again"}, 0)' /\ Weighs(Losses, n)'  BY <1>4, <1>5, <1>8, <2>1
  <2>3. Accounted' + n = SumOf(Counting, P!Items) + 0  BY <1>3, <1>8, <2>1
  <2> QED BY <1>2, <2>1, <2>2, <2>3
<1> QED BY <1>6, <1>7, <1>8

(* The sum that a loop computes. *)

\* The thread adds its element, or what it adds gets lost.
LEMMA MadeAfter ==
  ASSUME ThreadsInv, TeamInv, NEW t \in P!Threads, P!Body(t), Watched',
         Task \in {"reduce", "visitAndReduce", "add", "count"}
  PROVE  LET weight == Weight(Counting, item[t])
         IN  /\ Made' \in Nat /\ weight \in Nat
             /\ \/ Made' = Made + weight /\ slips' = slips
                \/ /\ Made' = (IF Task = "visitAndReduce" THEN Made + weight ELSE Made)
                   /\ slips = {} /\ slips' = {NewSlip("dropped", {item[t]})} /\ Task # "reduce"
<1>1. stage = "run" /\ Works(t) /\ Goes(t) /\ SameCheck /\ noticed' = noticed /\ bOk' = bOk
  BY OpOf, Advances DEF Goes
<1>2. P!IsLoop /\ place[t] = 1 /\ Duty[place[t]] = Task /\ Task' = Task
  BY <1>1, TaskForms, DutyIs, DutySame DEF Works, SameCheck
<1>3. /\ Made = mem.total + partial[1] + partial[2] /\ Made' = mem'.total + partial'[1] + partial'[2]
      /\ Weight(Counting, item[t]) = (IF Task = "count" THEN 1 ELSE item[t])
  BY <1>2 DEF Made, Weight, Counting
<1>4. /\ mem \in MemTypes /\ mem.total \in Nat /\ partial \in [P!Threads -> Nat]
      /\ partial[1] \in Nat /\ partial[2] \in Nat /\ item[t] \in Nat
  BY <1>1, MemUpdates, ItemNat, LoadsAre DEF TeamInv, ThreadsInv, P!TypeOK
<1>5. ASSUME partial' = [partial EXCEPT ![t] = @ + item[t]]
      PROVE  partial'[1] + partial'[2] = partial[1] + partial[2] + item[t] /\ partial'[1] \in Nat /\ partial'[2] \in Nat
  <2>1. CASE t = 1  BY <1>4, <1>5, <2>1, ThreadsAre
  <2>2. CASE t = 2  BY <1>4, <1>5, <2>2, ThreadsAre
  <2> QED BY <2>1, <2>2, ThreadsAre
<1>6. CASE Task = "reduce"
  <2>1. P!Reduce(t)  BY <1>2, <1>6, OpOf
  <2>2. partial' = [partial EXCEPT ![t] = @ + item[t]] /\ mem' = mem /\ slips' = slips
    BY <1>2, <2>1 DEF P!Reduce
  <2> QED BY <1>3, <1>4, <1>5, <1>6, <2>2
<1>7. CASE Task = "visitAndReduce"
  <2>1. P!VisitAndReduce(t)  BY <1>2, <1>7, OpOf
  <2>2. /\ partial' = [partial EXCEPT ![t] = @ + item[t]]
        /\ P!Keep(t, [mem EXCEPT !.visits[item[t]] = @ + 1])
    BY <2>1 DEF P!VisitAndReduce
  <2>3. [mem EXCEPT !.visits[item[t]] = @ + 1].total = mem.total  BY <1>4 DEF MemTypes
  <2>4. Made' = Made + item[t] /\ Made' \in Nat
    <3>1. mem'.total = mem.total  BY <2>2, <2>3 DEF P!Keep
    <3> QED BY <1>3, <1>4, <1>5, <2>2, <3>1
  <2>5. slips' = slips \/ (slips = {} /\ slips' = {NewSlip("dropped", {item[t]})})
    BY <1>1, <1>2, <2>2, Kept
  <2> QED BY <1>3, <1>4, <1>7, <2>4, <2>5
<1>8. ASSUME Task \in {"add", "count"}
      PROVE  LET weight == Weight(Counting, item[t])
             IN  /\ partial' = partial
                 /\ \/ mem'.total = mem.total + weight /\ slips' = slips
                    \/ mem' = mem /\ slips = {} /\ slips' = {NewSlip("dropped", {item[t]})}
  <2> DEFINE new == [mem EXCEPT !.total = mem.total + Weight(Counting, item[t])]
  <2>1. P!Keep(t, new) /\ partial' = partial
    <3>1. CASE Task = "add"
      <4>1. P!Add(t)  BY <1>2, <3>1, OpOf
      <4> QED BY <1>3, <3>1, <4>1 DEF P!Add
    <3>2. CASE Task = "count"
      <4>1. P!Count(t)  BY <1>2, <3>2, OpOf
      <4> QED BY <1>3, <3>2, <4>1 DEF P!Count
    <3> QED BY <1>8, <3>1, <3>2
  <2>2. new.total = mem.total + Weight(Counting, item[t])  BY <1>4 DEF MemTypes
  <2> HIDE DEF new
  <2> QED BY <1>1, <1>2, <2>1, <2>2, Kept
<1>9. CASE Task \in {"add", "count"}
  <2>1. Weight(Counting, item[t]) \in Nat  BY <1>4, WeightIs
  <2> DEFINE weight == Weight(Counting, item[t])
  <2>2. partial' = partial /\ weight \in Nat  BY <1>8, <1>9, <2>1
  <2>3. CASE mem'.total = mem.total + weight /\ slips' = slips
    <3>1. Made' = Made + weight /\ Made' \in Nat
      <4> HIDE DEF weight
      <4> QED BY <1>3, <1>4, <2>2, <2>3
    <3> QED BY <2>2, <2>3, <3>1
  <2>4. CASE mem' = mem /\ slips = {} /\ slips' = {NewSlip("dropped", {item[t]})}
    <3>1. Made' = Made /\ Made' \in Nat  BY <1>3, <1>4, <2>2, <2>4
    <3> QED BY <1>9, <2>2, <2>4, <3>1
  <2> QED BY <1>8, <1>9, <2>3, <2>4
<1> QED BY <1>6, <1>7, <1>9

\* The critical section of a loop.
LEMMA CriticalSum ==
  ASSUME ThreadsInv, TeamInv, LockLaw, NEW t \in P!Threads, P!Body(t), Watched', Task = "lock"
  PROVE  slips' = slips /\ Accounted' = Accounted
<1>1. stage = "run" /\ Works(t) /\ Goes(t) /\ SameCheck /\ todo' = todo
  BY OpOf, Advances DEF Goes
<1>2. P!IsLoop /\ Duty = Section /\ Task' = Task /\ Counting' = Counting /\ Counting /\ Duty' = Duty
  BY <1>1, TaskForms, DutySame DEF SameCheck, Counting
<1>3. /\ Len(Section) = 4 /\ Section[1] = "lock" /\ Section[2] = "load" /\ Section[3] = "store"
      /\ Section[4] = "unlock"
  BY DEF Section
<1>4. place[t] \in 1..4 /\ Made = mem.guarded /\ Made' = mem'.guarded
  BY <1>1, <1>2, <1>3, DutyIs DEF Works, Made
<1>5. \A u \in P!Threads : /\ Load(u) = IF Works(u) /\ place[u] < 4 THEN 1 ELSE 0
                           /\ Load(u)' = IF Works(u)' /\ place'[u] < 4 THEN 1 ELSE 0
  BY <1>2 DEF Load, Weight
<1>6. \A u \in P!Threads \ {t} : Load(u)' = Load(u)  BY <1>1, <1>2, <1>5, HandsAfter
<1>7. Load(t) = (IF place[t] < 4 THEN 1 ELSE 0) /\ Load(t)' = (IF place[t] < 3 THEN 1 ELSE 0)
  <2>1. IF place[t] = 4 THEN ~Works(t)' ELSE Works(t)' /\ place'[t] = place[t] + 1
    BY <1>1, <1>2, <1>3, HandsAfter
  <2> QED BY <1>1, <1>4, <1>5, <2>1
<1>8. mem'.guarded = mem.guarded + (IF place[t] = 3 THEN 1 ELSE 0)
  <2>1. CASE place[t] = 3
    <3>1. P!Store(t)  BY <1>2, <1>3, <2>1, OpOf
    <3>2. mem' = [mem EXCEPT !.guarded = reg[t] + 1] /\ reg[t] = mem.guarded
      BY <1>1, <1>2, <1>3, <2>1, <3>1 DEF P!Store, LockLaw
    <3> QED BY <1>1, <2>1, <3>2 DEF TeamInv, MemTypes
  <2>2. CASE place[t] # 3
    <3>1. Duty[place[t]] # "store"  BY <1>2, <1>3, <1>4, <2>2
    <3> QED BY <1>1, <2>2, <3>1, MemBody, MemUpdates DEF TeamInv
  <2> QED BY <2>1, <2>2
<1>9. slips' = slips
  <2>1. Duty[place[t]] \in {"lock", "load", "store", "unlock"}  BY <1>2, <1>3, <1>4
  <2> QED BY <2>1, BodySlips
<1>10. SumOf(Counting, todo)' = SumOf(Counting, todo)  BY <1>1, <1>2 DEF SumOf, Units
<1>11. /\ Load(1) \in Nat /\ Load(2) \in Nat /\ mem.guarded \in Nat /\ SumOf(Counting, todo) \in Nat
  BY <1>1, LoadsAre, MemUpdates DEF TeamInv
<1>12. Made' + Load(1)' + Load(2)' = Made + Load(1) + Load(2)
  <2>1. CASE t = 1  BY <1>4, <1>6, <1>7, <1>8, <1>11, <2>1, ThreadsAre
  <2>2. CASE t = 2  BY <1>4, <1>6, <1>7, <1>8, <1>11, <2>2, ThreadsAre
  <2> QED BY <2>1, <2>2, ThreadsAre
<1> QED BY <1>9, <1>10, <1>12 DEF Accounted

LEMMA TotalLawBody ==
  ASSUME ThreadsInv, TeamInv, LockLaw, TotalLaw, NEW t \in P!Threads, P!Body(t), Watched'
  PROVE  TotalLaw'
<1>1. stage = "run" /\ Works(t) /\ Goes(t) /\ SameCheck /\ todo' = todo
  BY OpOf, Advances DEF Goes
<1>2. /\ P!IsLoop' = P!IsLoop /\ Task' = Task /\ list' = list /\ index' = index
      /\ SumOf(Counting, todo)' = SumOf(Counting, todo)
  BY <1>1, DutySame DEF SameCheck, SumOf, Units
<1>3. CASE ~P!IsLoop \/ Task \in {"visit", "assign"}  BY <1>2, <1>3 DEF TotalLaw
<1>4. CASE Task = "lock"  BY <1>2, <1>4, CriticalSum, TotalKept
<1>5. CASE P!IsLoop /\ Task \in {"reduce", "visitAndReduce", "add", "count"}
  <2> DEFINE weight == Weight(Counting, item[t])
  <2>1. /\ Load(1) + Load(2) = Load(1)' + Load(2)' + weight
        /\ Load(1)' \in Nat /\ Load(2)' \in Nat /\ weight \in Nat
    BY <1>1, <1>5, TaskForms, LoadsAfter
  <2>2. /\ Made' \in Nat
        /\ \/ Made' = Made + weight /\ slips' = slips
           \/ /\ Made' = (IF Task = "visitAndReduce" THEN Made + weight ELSE Made)
              /\ slips = {} /\ slips' = {NewSlip("dropped", {item[t]})} /\ Task # "reduce"
    BY <1>5, MadeAfter
  <2>3. Made \in Nat /\ SumOf(Counting, todo) \in Nat /\ Accounted \in Nat /\ Load(1) \in Nat /\ Load(2) \in Nat
    BY <1>1, LoadsAre
  <2>4. /\ Accounted = Made + Load(1) + Load(2) + SumOf(Counting, todo)
        /\ Accounted' = Made' + Load(1)' + Load(2)' + SumOf(Counting, todo)
    BY <1>2 DEF Accounted
  <2> HIDE DEF weight
  <2>5. CASE Made' = Made + weight /\ slips' = slips
    <3>1. Accounted' = Accounted  BY <2>1, <2>3, <2>4, <2>5
    <3> QED BY <1>2, <2>5, <3>1, TotalKept
  <2>6. CASE /\ Made' = (IF Task = "visitAndReduce" THEN Made + weight ELSE Made)
             /\ slips = {} /\ slips' = {NewSlip("dropped", {item[t]})} /\ Task # "reduce"
    <3>1. Accounted' \in Nat  BY <2>1, <2>2, <2>3, <2>4
    <3>2. item[t] \in P!Items  BY <1>1, <1>5, ItemHeld
    <3>3. CASE Task = "visitAndReduce"
      <4>1. Accounted' = Accounted /\ "dropped" \notin Losses \cup {"again"}
        BY <2>1, <2>3, <2>4, <2>6, <3>3 DEF Losses
      <4> QED BY <1>2, <2>3, <2>6, <3>1, <4>1, TotalNew
    <3>4. CASE Task \in {"add", "count"}
      <4>1. Accounted = Accounted' + weight  BY <2>1, <2>3, <2>4, <2>6, <3>4
      <4>2. "dropped" \in Losses  BY <3>4 DEF Losses
      <4> QED BY <1>2, <2>3, <2>6, <3>1, <3>2, <4>1, <4>2, TotalNew DEF weight
    <3> QED BY <1>5, <2>6, <3>3, <3>4
  <2> QED BY <2>2, <2>5, <2>6
<1> QED BY <1>1, <1>3, <1>4, <1>5, TaskForms

(* Regions, and what has been sorted. *)

\* A thread executes an instruction of a region.
LEMMA ThroughAfter ==
  ASSUME ThreadsInv, TeamInv, stage = "run", NEW t \in P!Threads, Works(t), Goes(t), ~P!IsLoop
  PROVE  /\ place'[t] = place[t] + 1 /\ place[t] \in 1..Len(Duty) /\ t <= team
         /\ \A u \in P!Threads \ {t} : place'[u] = place[u] /\ Through(u)' = Through(u)
         /\ Through(t) = 0 /\ Through(t)' = (IF place[t] = Len(Duty) THEN 1 ELSE 0)
         /\ Through(1) \in {0, 1} /\ Through(2) \in {0, 1}
<1>1. place \in [P!Threads -> Nat]  BY DEF ThreadsInv, P!TypeOK
<1>2. Len(Duty) \in Nat /\ P!Out = Len(Duty) + 1 /\ P!Out' = P!Out /\ team' = team
  BY DutyIs, DutySame DEF Goes, SameCheck, P!Out, Duty
<1>3. place'[t] = place[t] + 1 /\ place[t] \in 1..Len(Duty) /\ t <= team  BY <1>1 DEF Goes
<1>4. \A u \in P!Threads \ {t} : place'[u] = place[u] /\ Through(u)' = Through(u)
  BY <1>1, <1>2 DEF Goes, Through
<1>5. Through(t) = 0 /\ Through(t)' = (IF place[t] = Len(Duty) THEN 1 ELSE 0)
  BY <1>2, <1>3 DEF Through
<1> QED BY <1>3, <1>4, <1>5 DEF Through

LEMMA RegionLawBody ==
  ASSUME ThreadsInv, TeamInv, PartialLaw, RegionLaw, NEW t \in P!Threads, P!Body(t), Watched'
  PROVE  RegionLaw'
<1>1. stage = "run" /\ Works(t) /\ Goes(t) /\ SameCheck /\ noticed' = noticed /\ bOk' = bOk /\ team' = team
  BY OpOf, Advances DEF Goes, SameCheck
<1>2. Task' = Task  BY <1>1, DutySame DEF SameCheck
<1>3. /\ mem \in MemTypes /\ mem.total \in Nat /\ partial \in [P!Threads -> Nat] /\ team \in Nat
      /\ partial[1] \in Nat /\ partial[2] \in Nat /\ mem.failed \in Nat
  BY <1>1, MemUpdates, LoadsAre, ThreadsAre DEF TeamInv, ThreadsInv, P!TypeOK
<1>4. ASSUME Task \in {"one", "throw", "scope", "threads", "identity"}
      PROVE  /\ ~P!IsLoop
             /\ Through(1) \in {0, 1} /\ Through(2) \in {0, 1}
             /\ Through(1)' + Through(2)' = Through(1) + Through(2) + (IF place[t] = Len(Duty) THEN 1 ELSE 0)
             /\ t = 1 => Through(1) = 0
             /\ t = 2 => Through(1)' = Through(1)
  <2>1. ~P!IsLoop  BY <1>1, <1>4, TaskForms
  <2>2. CASE t = 1  BY <1>1, <2>1, <2>2, ThroughAfter, ThreadsAre
  <2>3. CASE t = 2  BY <1>1, <2>1, <2>3, ThroughAfter, ThreadsAre
  <2> QED BY <2>1, <2>2, <2>3, ThreadsAre
<1>5. ASSUME Task \in {"one", "throw", "threads", "identity"}
      PROVE  place[t] = Len(Duty) /\ Duty[place[t]] = Task
  BY <1>1, <1>5, TaskForms, DutyIs DEF Works
<1>6. slips' = slips => \A ills : Hit(ills)' <=> Hit(ills)  BY DEF Hit
<1>7. ASSUME NEW ill, NEW spoiled, slips = {}, slips' = {NewSlip(ill, spoiled)}
      PROVE  \A ills : ~Hit(ills) /\ (Hit(ills)' <=> ill \in ills)
  BY <1>7 DEF Hit, NewSlip
<1>8. CASE Task = "one"
  <2>1. P!Reduce(t) /\ place[t] = Len(Duty) /\ ~P!IsLoop  BY <1>4, <1>5, <1>8, OpOf
  <2>2. partial' = [partial EXCEPT ![t] = @ + 1] /\ mem' = mem /\ slips' = slips
    BY <2>1 DEF P!Reduce
  <2>3. partial'[1] + partial'[2] = partial[1] + partial[2] + 1 /\ partial'[1] \in Nat /\ partial'[2] \in Nat
    <3>1. CASE t = 1  BY <1>3, <2>2, <3>1, ThreadsAre
    <3>2. CASE t = 2  BY <1>3, <2>2, <3>2, ThreadsAre
    <3> QED BY <3>1, <3>2, ThreadsAre
  <2>4. mem.total + partial[1] + partial[2] + OneIf(Hit({"dropped"})) = Through(1) + Through(2)
    BY <1>8 DEF RegionLaw
  <2>5. OneIf(Hit({"dropped"}))' = OneIf(Hit({"dropped"})) /\ OneIf(Hit({"dropped"})) \in Nat
    BY <1>6, <2>2 DEF OneIf
  <2>6. mem'.total + partial'[1] + partial'[2] + OneIf(Hit({"dropped"}))' = Through(1)' + Through(2)'
    <3>1. Through(1)' + Through(2)' = Through(1) + Through(2) + 1 /\ Through(1) \in Nat /\ Through(2) \in Nat
      BY <1>4, <1>8, <2>1
    <3>2. mem'.total = mem.total  BY <2>2
    <3> QED BY <1>3, <2>3, <2>4, <2>5, <3>1, <3>2
  <2> QED BY <1>2, <1>8, <2>6 DEF RegionLaw
<1>9. ASSUME NEW n \in Nat, P!Keep(t, [mem EXCEPT !.total = n]), ~P!IsLoop
      PROVE  \/ mem' = [mem EXCEPT !.total = n] /\ mem'.total = n /\ slips' = slips
             \/ mem' = mem /\ slips = {} /\ slips' = {NewSlip("dropped", {})}
  <2>1. [mem EXCEPT !.total = n].total = n  BY <1>3 DEF MemTypes
  <2> QED BY <1>1, <1>9, <2>1, Kept
<1>10. ASSUME Task \in {"throw", "scope"}, P!Count(t), place[t] = Len(Duty), ~P!IsLoop
       PROVE  /\ mem'.total + partial'[1] + partial'[2] + OneIf(Hit({"dropped"})') = Through(1)' + Through(2)'
              /\ mem'.failed = mem.failed /\ (Hit({"scope"})' <=> Hit({"scope"}))
  <2>1. P!Keep(t, [mem EXCEPT !.total = mem.total + 1]) /\ partial' = partial
    BY <1>10 DEF P!Count
  <2>2. partial[1] = 0 /\ partial[2] = 0  BY <1>10 DEF PartialLaw
  <2>3. mem.total + partial[1] + partial[2] + OneIf(Hit({"dropped"})) = Through(1) + Through(2)
    BY <1>10 DEF RegionLaw
  <2>4. Through(1)' + Through(2)' = Through(1) + Through(2) + 1  BY <1>4, <1>10
  <2>5. CASE mem' = [mem EXCEPT !.total = mem.total + 1] /\ mem'.total = mem.total + 1 /\ slips' = slips
    <3>1. mem'.failed = mem.failed  BY <1>3, <2>5 DEF MemTypes
    <3>2. (Hit({"dropped"})' <=> Hit({"dropped"})) /\ (Hit({"scope"})' <=> Hit({"scope"}))
      BY <1>6, <2>5
    <3>3. mem'.total + partial'[1] + partial'[2] + OneIf(Hit({"dropped"})') = Through(1)' + Through(2)'
      BY <1>3, <1>4, <1>10, <2>1, <2>2, <2>3, <2>4, <2>5, <3>2 DEF OneIf
    <3> QED BY <3>1, <3>2, <3>3
  <2>6. CASE mem' = mem /\ slips = {} /\ slips' = {NewSlip("dropped", {})}
    <3>1. ~Hit({"dropped"}) /\ Hit({"dropped"})' /\ ~Hit({"scope"}) /\ ~Hit({"scope"})'
      BY <1>7, <2>6
    <3>2. mem'.total + partial'[1] + partial'[2] + OneIf(Hit({"dropped"})') = Through(1)' + Through(2)'
      BY <1>3, <1>4, <1>10, <2>1, <2>2, <2>3, <2>4, <2>6, <3>1 DEF OneIf
    <3> QED BY <2>6, <3>1, <3>2
  <2> QED
    <3>1. mem.total + 1 \in Nat  BY <1>3
    <3> QED BY <1>9, <1>10, <2>1, <2>5, <2>6, <3>1
<1>11. CASE Task = "throw"
  <2>1. P!Count(t) /\ place[t] = Len(Duty) /\ ~P!IsLoop  BY <1>4, <1>5, <1>11, OpOf
  <2> QED BY <1>2, <1>10, <1>11, <2>1 DEF RegionLaw
<1>12. CASE Task = "scope"
  <2>1. Len(Duty) = 2 /\ Duty[1] = "scope" /\ Duty[2] = "count"
    BY <1>1, <1>12, TaskForms DEF Scoping
  <2>2. place[t] \in {1, 2} /\ ~P!IsLoop  BY <1>1, <1>4, <1>12, <2>1, DutyIs DEF Works
  <2>3. CASE place[t] = 2
    <3>1. P!Count(t)  BY <2>1, <2>3, OpOf
    <3>2. mem.failed > 0 <=> Hit({"scope"})  BY <1>12 DEF RegionLaw
    <3> QED BY <1>2, <1>10, <1>12, <2>1, <2>2, <2>3, <3>1, <3>2 DEF RegionLaw
  <2>4. CASE place[t] = 1
    <3>1. P!Scope(t)  BY <2>1, <2>4, OpOf
    <3>2. Through(1)' + Through(2)' = Through(1) + Through(2) /\ partial' = partial
      BY <1>4, <1>12, <2>1, <2>4, <3>1 DEF P!Scope
    <3>3. mem.total + partial[1] + partial[2] + OneIf(Hit({"dropped"})) = Through(1) + Through(2)
      BY <1>12 DEF RegionLaw
    <3>4. mem.failed > 0 <=> Hit({"scope"})  BY <1>12 DEF RegionLaw
    <3>5. CASE mem' = mem /\ slips' = slips
      <4>1. (Hit({"dropped"})' <=> Hit({"dropped"})) /\ (Hit({"scope"})' <=> Hit({"scope"}))
        BY <1>6, <3>5
      <4> QED BY <1>2, <1>12, <3>2, <3>3, <3>4, <3>5, <4>1 DEF RegionLaw, OneIf
    <3>6. CASE mem' = [mem EXCEPT !.failed = @ + 1] /\ P!Slip("scope", {})
      <4>1. slips = {} /\ slips' = {NewSlip("scope", {})}  BY <1>1, <3>6, SlipHappens
      <4>2. ~Hit({"dropped"}) /\ ~Hit({"dropped"})' /\ Hit({"scope"})'  BY <1>7, <4>1
      <4>3. mem'.total = mem.total /\ mem'.failed = mem.failed + 1  BY <1>3, <3>6 DEF MemTypes
      <4>4. mem'.failed > 0  BY <1>3, <4>3
      <4> QED BY <1>2, <1>12, <3>2, <3>3, <4>2, <4>3, <4>4 DEF RegionLaw, OneIf
    <3> QED BY <3>1, <3>5, <3>6 DEF P!Scope
  <2> QED BY <2>2, <2>3, <2>4
<1>13. CASE Task = "threads"
  <2>1. P!CountThreads(t)  BY <1>5, <1>13, OpOf
  <2>2. mem'.total = team  BY <1>3, <2>1 DEF P!CountThreads, MemTypes
  <2> QED BY <1>1, <1>2, <1>13, <2>2 DEF RegionLaw
<1>14. CASE Task = "identity"
  <2>1. P!Identity(t) /\ place[t] = Len(Duty) /\ ~P!IsLoop  BY <1>4, <1>5, <1>14, OpOf
  <2>2. t = 1
    <3>1. P!Alone  BY <1>1, <1>14, TaskIs DEF P!Alone
    <3> QED BY <1>1, <3>1, ThreadsAre DEF TeamInv, Goes
  <2>3. P!Keep(t, [mem EXCEPT !.total = 1])  BY <2>1 DEF P!Identity
  <2>4. Through(1) = 0 /\ Through(1)' = 1  BY <1>1, <2>1, <2>2, ThroughAfter
  <2>5. mem.total = 0 /\ ~Hit({"dropped"})  BY <1>3, <1>14, <2>4 DEF RegionLaw, OneIf
  <2>6. CASE mem'.total = 1 /\ slips' = slips
    <3>1. ~Hit({"dropped"})'  BY <1>6, <2>5, <2>6
    <3> QED BY <1>2, <1>14, <2>4, <2>6, <3>1 DEF RegionLaw, OneIf
  <2>7. CASE mem' = mem /\ slips = {} /\ slips' = {NewSlip("dropped", {})}
    <3>1. Hit({"dropped"})'  BY <1>7, <2>7
    <3> QED BY <1>2, <1>14, <2>4, <2>5, <2>7, <3>1 DEF RegionLaw, OneIf
  <2> QED BY <1>9, <2>1, <2>3, <2>6, <2>7
<1>15. CASE Task \notin {"one", "throw", "scope", "threads", "identity"}
  BY <1>2, <1>15 DEF RegionLaw
<1> QED BY <1>8, <1>11, <1>12, <1>13, <1>14, <1>15

LEMMA SortedAfter ==
  ASSUME ThreadsInv, NEW t \in P!Threads, P!Body(t)
  PROVE  IF Duty[place[t]] = "sort" THEN P!Sort(t) ELSE sorted' = sorted
<1>1. CASE P!Visit(t) \/ P!VisitAndReduce(t) \/ P!Assign(t) \/ P!Count(t) \/ P!Add(t) \/ P!Reduce(t)
  <2>1. Duty[place[t]] \in {"visit", "visitAndReduce", "assign", "count", "throw", "add", "reduce", "one"}
    BY <1>1 DEF P!Visit, P!VisitAndReduce, P!Assign, P!Count, P!Add, P!Reduce, P!At, Duty
  <2>2. sorted' = sorted
    BY <1>1 DEF P!Visit, P!VisitAndReduce, P!Assign, P!Count, P!Add, P!Reduce
  <2> QED BY <2>1, <2>2
<1>2. CASE P!Lock(t) \/ P!Load(t) \/ P!Store(t) \/ P!Unlock(t)
  <2>1. Duty[place[t]] \in {"lock", "load", "store", "unlock"}
    BY <1>2 DEF P!Lock, P!Load, P!Store, P!Unlock, P!At, Duty
  <2>2. sorted' = sorted  BY <1>2 DEF P!Lock, P!Load, P!Store, P!Unlock
  <2> QED BY <2>1, <2>2
<1>3. CASE P!Atomic(t) \/ P!Arrive(t) \/ P!Barrier(t) \/ P!Compare(t) \/ P!Single(t)
  <2>1. Duty[place[t]] \in {"atomic", "arrive", "barrier", "compare", "single"}
    BY <1>3 DEF P!Atomic, P!Arrive, P!Barrier, P!Compare, P!Single, P!At, Duty
  <2>2. sorted' = sorted  BY <1>3 DEF P!Atomic, P!Arrive, P!Barrier, P!Compare, P!Single
  <2> QED BY <2>1, <2>2
<1>4. CASE P!CountThreads(t) \/ P!Scope(t) \/ P!Identity(t)
  <2>1. Duty[place[t]] \in {"threads", "scope", "identity"}
    BY <1>4 DEF P!CountThreads, P!Scope, P!Identity, P!At, Duty
  <2>2. sorted' = sorted  BY <1>4 DEF P!CountThreads, P!Scope, P!Identity
  <2> QED BY <2>1, <2>2
<1>5. CASE Duty[place[t]] = "sort" /\ P!Sort(t)  BY <1>5
<1> QED BY <1>1, <1>2, <1>3, <1>4, <1>5, OpOf

LEMMA SortLawKept ==
  ASSUME SortLaw, list' = list, index' = index, sorted' = sorted,
         slips' = slips \/ (slips = {} /\ \E ill, spoiled : ill # "sort" /\ slips' = {NewSlip(ill, spoiled)})
  PROVE  SortLaw'
<1>1. Hit({"sort"})' <=> Hit({"sort"})  BY DEF Hit, NewSlip
<1> QED BY <1>1 DEF SortLaw, AtFirst

LEMMA SortLawBody ==
  ASSUME ThreadsInv, TeamInv, SortLaw, NEW t \in P!Threads, P!Body(t), Watched'
  PROVE  SortLaw'
<1>1. stage = "run" /\ Works(t) /\ SameCheck /\ noticed' = noticed /\ bOk' = bOk /\ place[t] \in 1..Len(Duty)
  BY OpOf, Advances DEF Goes
<1>2. CASE Duty[place[t]] # "sort"
  <2>1. slips' = slips \/ (slips = {} /\ \E ill, spoiled : ill # "sort" /\ slips' = {NewSlip(ill, spoiled)})
    BY <1>2, BodySlips
  <2> QED BY <1>1, <1>2, <2>1, SortedAfter, SortLawKept DEF SameCheck
<1>3. CASE Duty[place[t]] = "sort"
  <2>1. P!Sort(t)  BY <1>3, SortedAfter
  <2>2. CASE sorted' = sorted /\ slips' = slips  BY <1>1, <2>2, SortLawKept DEF SameCheck
  <2>3. ASSUME NEW spoiled, P!Slip("sort", spoiled),
               sorted'.ordered = FALSE \/ \E i \in P!FromZero : sorted'.times[i] = 0
        PROVE  SortLaw'
    <3>1. Hit({"sort"})'  BY <1>1, <2>3, SlipHappens
    <3>2. list = "oneTbb" /\ \E m \in DOMAIN Lists[list] : m > index /\ Lists[list][m].name = "concurrent-vector"
      <4>1. P!Tbb /\ P!Now.name = "parallel-sort"
        <5>1. Task = "sort"  BY <1>1, <1>3, OpTask
        <5> QED BY <1>1, <5>1, TaskIs
      <4> QED BY <1>1, <4>1, ShapeOf DEF P!Tbb
    <3>3. \E m \in DOMAIN Lists[list] : m >= index /\ Lists[list][m].name = "concurrent-vector"
      <4>1. index \in Nat /\ DOMAIN Lists[list] \subseteq Nat
        <5>1. index \in DOMAIN Lists[list] /\ Lists[list] \in Seq([name : Labels, loop : BOOLEAN, first : {0, 1}, body : Seq(Labels)])
          BY <1>1, ShapeOf, ListsAssumption
        <5> QED BY <5>1
      <4> QED BY <3>2, <4>1
    <3>4. list' = list /\ index' = index  BY <1>1 DEF SameCheck
    <3> QED BY <2>3, <3>1, <3>2, <3>3, <3>4 DEF SortLaw
  <2>4. CASE \E i, j \in P!FromZero : /\ i # j
                                     /\ sorted' = [sorted EXCEPT !.times[i] = 0, !.times[j] = 2]
                                     /\ P!Slip("sort", {i})
    <3>1. PICK i, j \in P!FromZero : /\ i # j
                                    /\ sorted' = [sorted EXCEPT !.times[i] = 0, !.times[j] = 2]
                                    /\ P!Slip("sort", {i})
      BY <2>4
    <3>2. sorted = AtFirst
      <4>1. ~Hit({"sort"})  BY <1>1, <3>1, SlipHappens
      <4> QED BY <4>1 DEF SortLaw
    <3>3. sorted'.times[i] = 0  BY <3>1, <3>2 DEF AtFirst
    <3> QED BY <2>3, <3>1, <3>3
  <2>5. CASE sorted' = [sorted EXCEPT !.ordered = FALSE] /\ P!Slip("sort", {})
    <3>1. sorted = AtFirst
      <4>1. ~Hit({"sort"})  BY <1>1, <2>5, SlipHappens
      <4> QED BY <4>1 DEF SortLaw
    <3>2. sorted'.ordered = FALSE  BY <2>5, <3>1 DEF AtFirst
    <3> QED BY <2>3, <2>5, <3>2
  <2> QED BY <2>1, <2>2, <2>4, <2>5 DEF P!Sort
<1> QED BY <1>2, <1>3

(* Critical sections, atomic increments, the barrier, the single construct. *)

LEMMA ShareIs ==
  ASSUME ThreadsInv, NEW t \in P!Threads, NEW op
  PROVE  Share(t, op) \in Nat /\ IsFiniteSet(Past(t, op))
<1>1. place[t] \in Nat  BY DEF ThreadsInv, P!TypeOK
<1>2. IsFiniteSet(1..(place[t] - 1))  BY <1>1, FS_Interval
<1>3. Past(t, op) \in SUBSET (1..(place[t] - 1))  BY DEF Past
<1>4. IsFiniteSet(Past(t, op))  BY <1>2, <1>3, FS_Subset
<1> QED BY <1>4, FS_CardinalityType DEF Share

LEMMA ShareAfter ==
  ASSUME ThreadsInv, TeamInv, stage = "run", NEW t \in P!Threads, Works(t), Goes(t), ~P!IsLoop, NEW op
  PROVE  /\ Share(1, op)' + Share(2, op)' = Share(1, op) + Share(2, op) + OneIf(Duty[place[t]] = op)
         /\ Share(1, op) \in Nat /\ Share(2, op) \in Nat
<1>1. /\ place'[t] = place[t] + 1 /\ place[t] \in Nat \ {0} /\ t <= team
      /\ \A u \in P!Threads \ {t} : place'[u] = place[u]
  BY ThroughAfter, DutyIs
<1>2. Duty' = Duty /\ team' = team  BY DutySame DEF Goes, SameCheck
<1>3. ASSUME NEW u \in P!Threads, u # t PROVE Share(u, op)' = Share(u, op)
  BY <1>1, <1>2, <1>3 DEF Share, Past
<1>4. Share(t, op)' = Share(t, op) + OneIf(Duty[place[t]] = op)
  <2>1. IsFiniteSet(Past(t, op)) /\ Cardinality(Past(t, op)) \in Nat
    BY ShareIs, FS_CardinalityType
  <2>2. Share(t, op) = Cardinality(Past(t, op)) /\ Share(t, op)' = Cardinality(Past(t, op)')
    BY <1>1, <1>2 DEF Share
  <2>3. CASE Duty[place[t]] = op
    <3>1. Past(t, op)' = Past(t, op) \cup {place[t]} /\ place[t] \notin Past(t, op)
      BY <1>1, <1>2, <2>3 DEF Past
    <3>2. Cardinality(Past(t, op) \cup {place[t]}) = Cardinality(Past(t, op)) + 1
      BY <2>1, <3>1, FS_AddElement
    <3> QED BY <2>2, <2>3, <3>1, <3>2 DEF OneIf
  <2>4. CASE Duty[place[t]] # op
    <3>1. Past(t, op)' = Past(t, op)  BY <1>1, <1>2, <2>4 DEF Past
    <3> QED BY <2>1, <2>2, <2>4, <3>1 DEF OneIf
  <2> QED BY <2>3, <2>4
<1>5. Share(1, op) \in Nat /\ Share(2, op) \in Nat  BY ShareIs, ThreadsAre
<1>6. OneIf(Duty[place[t]] = op) \in Nat  BY DEF OneIf
<1>7. CASE t = 1  BY <1>3, <1>4, <1>5, <1>6, <1>7, ThreadsAre
<1>8. CASE t = 2  BY <1>3, <1>4, <1>5, <1>6, <1>8, ThreadsAre
<1> QED BY <1>5, <1>7, <1>8, ThreadsAre

\* What a thread does to the shared data.
LEMMA SyncStep ==
  ASSUME ThreadsInv, TeamInv, LockLaw, NEW t \in P!Threads, P!Body(t), Watched', Task = "synchronization"
  PROVE  LET op == Duty[place[t]]
         IN  /\ mem'.guarded = mem.guarded + OneIf(op = "store")
             /\ \/ /\ mem'.atomic = mem.atomic + OneIf(op = "atomic")
                   /\ mem'.arrived = mem.arrived + OneIf(op = "arrive")
                   /\ Hit({"dropped"})' <=> Hit({"dropped"})
                \/ op \in {"atomic", "arrive"} /\ mem' = mem /\ ~Hit({"dropped"}) /\ Hit({"dropped"})'
             /\ mem'.failed = mem.failed + OneIf(op = "compare" /\ mem.arrived # team)
             /\ \/ op = "single" /\ mem'.single = 1 /\ (Hit({"single"})' <=> Hit({"single"}))
                \/ op = "single" /\ mem.single > 0 /\ mem'.single = 2 /\ Hit({"single"})' /\ ~Hit({"single"})
                \/ op # "single" /\ mem'.single = mem.single /\ (Hit({"single"})' <=> Hit({"single"}))
<1>1. stage = "run" /\ Works(t) /\ Goes(t) /\ noticed' = noticed /\ bOk' = bOk /\ place[t] \in 1..Len(Duty)
  BY OpOf, Advances DEF Goes
<1>2. /\ mem \in MemTypes /\ mem.guarded \in Nat /\ mem.atomic \in Nat /\ mem.arrived \in Nat
      /\ mem.failed \in Nat /\ mem.single \in Nat /\ ~P!IsLoop
  BY <1>1, MemUpdates, TaskForms DEF TeamInv
<1>3. slips' = slips => \A ills : Hit(ills)' <=> Hit(ills)  BY DEF Hit
<1>4. ASSUME NEW ill, NEW spoiled, slips = {}, slips' = {NewSlip(ill, spoiled)}
      PROVE  \A ills : ~Hit(ills) /\ (Hit(ills)' <=> ill \in ills)
  BY <1>4 DEF Hit, NewSlip
<1>5. CASE Duty[place[t]] \in {"lock", "load", "unlock", "barrier"}
  <2>1. P!Lock(t) \/ P!Load(t) \/ P!Unlock(t) \/ P!Barrier(t)  BY <1>5, OpOf
  <2>2. mem' = mem  BY <2>1 DEF P!Lock, P!Load, P!Unlock, P!Barrier
  <2>3. slips' = slips  BY <1>5, BodySlips
  <2> QED BY <1>2, <1>3, <1>5, <2>2, <2>3 DEF OneIf
<1>6. CASE Duty[place[t]] = "store"
  <2>1. P!Store(t)  BY <1>6, OpOf
  <2>2. mem' = [mem EXCEPT !.guarded = mem.guarded + 1] /\ slips' = slips
    BY <1>1, <1>6, <2>1 DEF P!Store, LockLaw
  <2>3. /\ mem'.guarded = mem.guarded + 1 /\ mem'.atomic = mem.atomic /\ mem'.arrived = mem.arrived
        /\ mem'.failed = mem.failed /\ mem'.single = mem.single
    BY <1>2, <2>2 DEF MemTypes
  <2> QED BY <1>2, <1>3, <1>6, <2>2, <2>3 DEF OneIf
<1>7. CASE Duty[place[t]] = "atomic"
  <2> DEFINE new == [mem EXCEPT !.atomic = mem.atomic + 1]
  <2>1. P!Keep(t, new)
    <3>1. P!Atomic(t)  BY <1>7, OpOf
    <3> QED BY <3>1 DEF P!Atomic
  <2>2. /\ new.guarded = mem.guarded /\ new.atomic = mem.atomic + 1 /\ new.arrived = mem.arrived
        /\ new.failed = mem.failed /\ new.single = mem.single
    BY <1>2 DEF MemTypes
  <2> HIDE DEF new
  <2>3. CASE mem' = new /\ slips' = slips  BY <1>2, <1>3, <1>7, <2>2, <2>3 DEF OneIf
  <2>4. CASE mem' = mem /\ slips = {} /\ slips' = {NewSlip("dropped", {})}
    <3>1. ~Hit({"dropped"}) /\ Hit({"dropped"})' /\ (Hit({"single"})' <=> Hit({"single"}))
      BY <1>4, <2>4
    <3> QED BY <1>2, <1>7, <2>4, <3>1 DEF OneIf
  <2> QED BY <1>1, <1>2, <2>1, <2>3, <2>4, Kept
<1>8. CASE Duty[place[t]] = "arrive"
  <2> DEFINE new == [mem EXCEPT !.arrived = mem.arrived + 1]
  <2>1. P!Keep(t, new)
    <3>1. P!Arrive(t)  BY <1>8, OpOf
    <3> QED BY <3>1 DEF P!Arrive
  <2>2. /\ new.guarded = mem.guarded /\ new.atomic = mem.atomic /\ new.arrived = mem.arrived + 1
        /\ new.failed = mem.failed /\ new.single = mem.single
    BY <1>2 DEF MemTypes
  <2> HIDE DEF new
  <2>3. CASE mem' = new /\ slips' = slips  BY <1>2, <1>3, <1>8, <2>2, <2>3 DEF OneIf
  <2>4. CASE mem' = mem /\ slips = {} /\ slips' = {NewSlip("dropped", {})}
    <3>1. ~Hit({"dropped"}) /\ Hit({"dropped"})' /\ (Hit({"single"})' <=> Hit({"single"}))
      BY <1>4, <2>4
    <3> QED BY <1>2, <1>8, <2>4, <3>1 DEF OneIf
  <2> QED BY <1>1, <1>2, <2>1, <2>3, <2>4, Kept
<1>9. CASE Duty[place[t]] = "compare"
  <2>1. P!Compare(t)  BY <1>9, OpOf
  <2>2. mem' = (IF mem.arrived # team THEN [mem EXCEPT !.failed = mem.failed + 1] ELSE mem) /\ slips' = slips
    BY <2>1 DEF P!Compare
  <2>3. /\ mem'.guarded = mem.guarded /\ mem'.atomic = mem.atomic /\ mem'.arrived = mem.arrived
        /\ mem'.failed = mem.failed + (IF mem.arrived # team THEN 1 ELSE 0) /\ mem'.single = mem.single
    BY <1>2, <2>2 DEF MemTypes
  <2> QED BY <1>2, <1>3, <1>9, <2>2, <2>3 DEF OneIf
<1>10. CASE Duty[place[t]] = "single"
  <2>1. P!Single(t)  BY <1>10, OpOf
  <2>2. CASE mem' = [mem EXCEPT !.single = 1] /\ slips' = slips
    <3>1. /\ mem'.guarded = mem.guarded /\ mem'.atomic = mem.atomic /\ mem'.arrived = mem.arrived
          /\ mem'.failed = mem.failed /\ mem'.single = 1
      BY <1>2, <2>2 DEF MemTypes
    <3> QED BY <1>2, <1>3, <1>10, <2>2, <3>1 DEF OneIf
  <2>3. CASE mem.single > 0 /\ mem' = [mem EXCEPT !.single = 2] /\ P!Slip("single", {})
    <3>1. /\ mem'.guarded = mem.guarded /\ mem'.atomic = mem.atomic /\ mem'.arrived = mem.arrived
          /\ mem'.failed = mem.failed /\ mem'.single = 2
      BY <1>2, <2>3 DEF MemTypes
    <3>2. slips = {} /\ slips' = {NewSlip("single", {})}  BY <1>1, <2>3, SlipHappens
    <3>3. ~Hit({"single"}) /\ Hit({"single"})' /\ (Hit({"dropped"})' <=> Hit({"dropped"}))
      BY <1>4, <3>2
    <3> QED BY <1>2, <1>10, <2>3, <3>1, <3>3 DEF OneIf
  <2> QED BY <2>1, <2>2, <2>3 DEF P!Single
<1>11. Duty[place[t]] \in {"lock", "load", "store", "unlock", "atomic", "arrive", "barrier", "compare", "single"}
  <2>1. place[t] \in 1..(Len(Duty) - 4) \/ place[t] \in {Len(Duty) - 3, Len(Duty) - 2, Len(Duty) - 1, Len(Duty)}
    BY <1>1, SyncEnds
  <2> QED BY <1>1, <2>1, SyncEnds
<1> QED BY <1>5, <1>6, <1>7, <1>8, <1>9, <1>10, <1>11

LEMMA PassedAfter ==
  ASSUME ThreadsInv, TeamInv, stage = "run", NEW t \in P!Threads, Works(t), Goes(t),
         Task = "synchronization", NEW k \in 0..3
  PROVE  LET n == Len(Duty)
         IN  /\ n \in Nat /\ n > 4 /\ place[t] \in 1..n /\ t <= team
             /\ Passed(t, k) <=> place[t] > n - k
             /\ Passed(t, k)' <=> place[t] + 1 > n - k
             /\ \A u \in P!Threads \ {t} : Passed(u, k)' <=> Passed(u, k)
<1>1. /\ place'[t] = place[t] + 1 /\ place[t] \in 1..Len(Duty) /\ t <= team
      /\ \A u \in P!Threads \ {t} : place'[u] = place[u]
  BY ThroughAfter, TaskForms
<1>2. Duty' = Duty /\ team' = team  BY DutySame DEF Goes, SameCheck
<1> QED BY <1>1, <1>2, SyncEnds DEF Passed

\* How far thread t is tells what it does.
LEMMA PlaceOf ==
  ASSUME ThreadsInv, stage # "idle", Task = "synchronization", NEW k \in 1..Len(Duty)
  PROVE  LET n == Len(Duty)
         IN  /\ Duty[k] = "arrive" <=> k = n - 3
             /\ Duty[k] = "barrier" <=> k = n - 2
             /\ Duty[k] = "compare" <=> k = n - 1
             /\ Duty[k] = "single" <=> k = n
<1>1. k \in 1..(Len(Duty) - 4) \/ k \in {Len(Duty) - 3, Len(Duty) - 2, Len(Duty) - 1, Len(Duty)}
  BY SyncEnds
<1>2. CASE k \in 1..(Len(Duty) - 4)
  <2>1. Duty[k] \in {"lock", "load", "store", "unlock", "atomic"}  BY <1>2, SyncEnds
  <2> QED BY <1>2, <2>1, SyncEnds
<1>3. CASE k \in {Len(Duty) - 3, Len(Duty) - 2, Len(Duty) - 1, Len(Duty)}  BY <1>3, SyncEnds
<1> QED BY <1>1, <1>2, <1>3

LEMMA PlaceNat == ASSUME ThreadsInv PROVE \A u \in P!Threads : place[u] \in Nat
BY DEF ThreadsInv, P!TypeOK

LEMMA SyncLawBody ==
  ASSUME ThreadsInv, TeamInv, LockLaw, SyncLaw, NEW t \in P!Threads, P!Body(t), Watched'
  PROVE  SyncLaw'
<1>1. stage = "run" /\ Works(t) /\ Goes(t) /\ SameCheck /\ noticed' = noticed /\ bOk' = bOk
  BY OpOf, Advances DEF Goes
<1>2. Task' = Task /\ team' = team  BY <1>1, DutySame DEF SameCheck
<1>3. CASE Task # "synchronization"  BY <1>2, <1>3 DEF SyncLaw
<1>4. CASE Task = "synchronization"
  <2> DEFINE op == Duty[place[t]]
             n == Len(Duty)
             k == place[t]
  <2>1. /\ n \in Nat /\ n > 4 /\ k \in 1..n /\ t <= team
        /\ \A j \in 0..3 : /\ Passed(t, j) <=> k > n - j
                           /\ Passed(t, j)' <=> k + 1 > n - j
                           /\ \A u \in P!Threads \ {t} : Passed(u, j)' <=> Passed(u, j)
    BY <1>1, <1>4, PassedAfter
  <2>2. /\ op = "arrive" <=> k = n - 3
        /\ op = "barrier" <=> k = n - 2
        /\ op = "compare" <=> k = n - 1
        /\ op = "single" <=> k = n
    BY <1>1, <1>4, <2>1, PlaceOf
  <2>3. /\ mem.guarded \in Nat /\ mem.atomic \in Nat /\ mem.arrived \in Nat /\ mem.failed \in Nat
        /\ mem.single \in Nat /\ team \in {1, 2} /\ ~P!IsLoop
    BY <1>1, <1>4, MemUpdates, TaskForms, ThreadsAre DEF TeamInv
  <2>4. /\ mem'.guarded = mem.guarded + OneIf(op = "store")
        /\ \/ /\ mem'.atomic = mem.atomic + OneIf(op = "atomic")
              /\ mem'.arrived = mem.arrived + OneIf(op = "arrive")
              /\ Hit({"dropped"})' <=> Hit({"dropped"})
           \/ op \in {"atomic", "arrive"} /\ mem' = mem /\ ~Hit({"dropped"}) /\ Hit({"dropped"})'
        /\ mem'.failed = mem.failed + OneIf(op = "compare" /\ mem.arrived # team)
    BY <1>4, SyncStep
  <2>5. \/ op = "single" /\ mem'.single = 1 /\ (Hit({"single"})' <=> Hit({"single"}))
        \/ op = "single" /\ mem.single > 0 /\ mem'.single = 2 /\ Hit({"single"})' /\ ~Hit({"single"})
        \/ op # "single" /\ mem'.single = mem.single /\ (Hit({"single"})' <=> Hit({"single"}))
    BY <1>4, SyncStep
  <2>6. \A o : /\ Share(1, o)' + Share(2, o)' = Share(1, o) + Share(2, o) + OneIf(op = o)
               /\ Share(1, o) \in Nat /\ Share(2, o) \in Nat
    BY <1>1, <2>3, ShareAfter
  <2>7. /\ mem.guarded = Share(1, "store") + Share(2, "store")
        /\ \A x, u \in P!Threads : Passed(x, 2) /\ u <= team => Passed(u, 3)
        /\ \A x \in P!Threads : Passed(x, 1) => mem.arrived = team \/ mem.failed > 0
        /\ mem.failed > 0 => Hit({"dropped"})
    BY <1>4 DEF SyncLaw
  <2>8. PICK a, r \in {0, 1} :
          /\ a + r = OneIf(Hit({"dropped"}))
          /\ mem.atomic + a = Share(1, "atomic") + Share(2, "atomic")
          /\ mem.arrived + r = OneIf(Passed(1, 3)) + OneIf(Passed(2, 3))
    BY <1>4 DEF SyncLaw
  <2> HIDE DEF op, n, k
  <2>9. mem'.guarded = Share(1, "store")' + Share(2, "store")'  BY <2>3, <2>4, <2>6, <2>7
  <2>10. \E a2, r2 \in {0, 1} :
          /\ a2 + r2 = OneIf(Hit({"dropped"}))'
          /\ mem'.atomic + a2 = Share(1, "atomic")' + Share(2, "atomic")'
          /\ mem'.arrived + r2 = OneIf(Passed(1, 3))' + OneIf(Passed(2, 3))'
    <3>1. OneIf(Passed(1, 3))' + OneIf(Passed(2, 3))' = OneIf(Passed(1, 3)) + OneIf(Passed(2, 3)) + OneIf(op = "arrive")
      <4>1. ASSUME NEW u \in P!Threads, u # t PROVE OneIf(Passed(u, 3))' = OneIf(Passed(u, 3))
        BY <2>1, <4>1 DEF OneIf
      <4>2. OneIf(Passed(t, 3))' = OneIf(Passed(t, 3)) + OneIf(op = "arrive")
        BY <2>1, <2>2 DEF OneIf
      <4>3. \A u : OneIf(Passed(u, 3)) \in Nat /\ OneIf(op = "arrive") \in Nat  BY DEF OneIf
      <4>4. CASE t = 1  BY <4>1, <4>2, <4>3, <4>4, ThreadsAre
      <4>5. CASE t = 2  BY <4>1, <4>2, <4>3, <4>5, ThreadsAre
      <4> QED BY <4>4, <4>5, ThreadsAre
    <3>2. \A u : OneIf(Passed(u, 3)) \in Nat /\ OneIf(op = "arrive") \in Nat /\ OneIf(op = "atomic") \in Nat
      BY DEF OneIf
    <3>3. CASE /\ mem'.atomic = mem.atomic + OneIf(op = "atomic")
               /\ mem'.arrived = mem.arrived + OneIf(op = "arrive")
               /\ Hit({"dropped"})' <=> Hit({"dropped"})
      <4>1. OneIf(Hit({"dropped"}))' = OneIf(Hit({"dropped"}))  BY <3>3 DEF OneIf
      <4>2. mem'.atomic + a = Share(1, "atomic")' + Share(2, "atomic")'
        BY <2>3, <2>6, <2>8, <3>2, <3>3
      <4>3. mem'.arrived + r = OneIf(Passed(1, 3))' + OneIf(Passed(2, 3))'
        BY <2>3, <2>8, <3>1, <3>2, <3>3
      <4> QED BY <2>8, <4>1, <4>2, <4>3
    <3>4. CASE op \in {"atomic", "arrive"} /\ mem' = mem /\ ~Hit({"dropped"}) /\ Hit({"dropped"})'
      <4>1. a = 0 /\ r = 0 /\ OneIf(Hit({"dropped"}))' = 1  BY <2>8, <3>4 DEF OneIf
      <4>2. CASE op = "atomic"
        <5>1. mem'.atomic + 1 = Share(1, "atomic")' + Share(2, "atomic")'
          BY <2>3, <2>6, <2>8, <3>4, <4>1, <4>2 DEF OneIf
        <5>2. mem'.arrived + 0 = OneIf(Passed(1, 3))' + OneIf(Passed(2, 3))'
          BY <2>3, <2>8, <3>1, <3>2, <3>4, <4>1, <4>2 DEF OneIf
        <5> QED BY <4>1, <5>1, <5>2
      <4>3. CASE op = "arrive"
        <5>1. mem'.atomic + 0 = Share(1, "atomic")' + Share(2, "atomic")'
          BY <2>3, <2>6, <2>8, <3>4, <4>1, <4>3 DEF OneIf
        <5>2. mem'.arrived + 1 = OneIf(Passed(1, 3))' + OneIf(Passed(2, 3))'
          BY <2>3, <2>8, <3>1, <3>2, <3>4, <4>1, <4>3 DEF OneIf
        <5> QED BY <4>1, <5>1, <5>2
      <4> QED BY <3>4, <4>2, <4>3
    <3> QED BY <2>4, <3>3, <3>4
  <2>11. \A x \in P!Threads, j \in 0..3 : Passed(x, j) => Passed(x, j)'  BY <2>1
  <2>12. op = "barrier" => \A u \in P!Threads : place[u] >= k
    <3>1. op = "barrier" => P!Barrier(t)  BY OpOf DEF op
    <3>2. Invisible(NewSlip("barrier", {}))  BY DEF Invisible, NewSlip
    <3>3. ~P!Slip("barrier", {})  BY <1>1, <3>2, SlipHappens
    <3> QED BY <3>1, <3>3 DEF P!Barrier, k
  <2>13. \A x, u \in P!Threads : Passed(x, 2)' /\ u <= team => Passed(u, 3)'
    <3> SUFFICES ASSUME NEW x \in P!Threads, NEW u \in P!Threads, Passed(x, 2)', u <= team
                 PROVE  Passed(u, 3)'
      OBVIOUS
    <3>1. CASE Passed(x, 2)  BY <2>7, <2>11, <3>1
    <3>2. CASE ~Passed(x, 2)
      <4>1. x = t /\ k = n - 2  BY <2>1, <3>2
      <4>2. place[u] > n - 3  BY <2>1, <2>2, <2>12, <4>1, PlaceNat
      <4> QED BY <2>11, <4>2 DEF Passed, n
    <3> QED BY <3>1, <3>2
  <2>14. mem'.failed > 0 => Hit({"dropped"})'
    <3>1. CASE mem.failed > 0  BY <2>4, <2>7, <3>1
    <3>2. CASE op = "compare" /\ mem.arrived # team
      <4>1. Passed(t, 2)  BY <2>1, <2>2, <3>2
      <4>2. \A u \in P!Threads : u <= team => Passed(u, 3)  BY <2>7, <4>1
      <4>3. \A u \in P!Threads : Passed(u, 3) <=> u <= team  BY <4>2 DEF Passed
      <4>4. OneIf(Passed(1, 3)) + OneIf(Passed(2, 3)) = team
        BY <2>3, <4>3, ThreadsAre DEF OneIf
      <4>5. r = 1  BY <2>3, <2>8, <3>2, <4>4
      <4>6. Hit({"dropped"})  BY <2>8, <4>5 DEF OneIf
      <4> QED BY <2>4, <4>6
    <3>3. CASE mem.failed = 0 /\ ~(op = "compare" /\ mem.arrived # team)
      BY <2>4, <3>3 DEF OneIf
    <3> QED BY <2>3, <3>1, <3>2, <3>3
  <2>15. \A x \in P!Threads : Passed(x, 1)' => mem'.arrived = team \/ mem'.failed > 0
    <3> SUFFICES ASSUME NEW x \in P!Threads, Passed(x, 1)'
                 PROVE  mem'.arrived = team \/ mem'.failed > 0
      OBVIOUS
    <3>1. op # "arrive"
      <4> SUFFICES ASSUME op = "arrive" PROVE FALSE
        OBVIOUS
      <4>1. k = n - 3 /\ x # t  BY <2>1, <2>2
      <4>2. Passed(x, 1) /\ place[x] \in Nat  BY <2>1, <4>1, PlaceNat
      <4>3. Passed(x, 2)  BY <2>1, <4>2 DEF Passed, n
      <4>4. Passed(t, 3)  BY <2>1, <2>7, <4>3
      <4> QED BY <2>1, <4>1, <4>4
    <3>2. mem'.arrived = mem.arrived  BY <2>3, <2>4, <3>1 DEF OneIf
    <3>3. CASE Passed(x, 1)  BY <2>3, <2>4, <2>7, <3>2, <3>3 DEF OneIf
    <3>4. CASE ~Passed(x, 1)
      <4>1. op = "compare"  BY <2>1, <2>2, <3>4
      <4> QED BY <2>3, <2>4, <3>2, <4>1 DEF OneIf
    <3> QED BY <3>3, <3>4
  <2>16. /\ mem'.single > 0 <=> Passed(1, 0)' \/ Passed(2, 0)'
         /\ IF Hit({"single"})' THEN mem'.single = 2 /\ Passed(1, 0)' /\ Passed(2, 0)' ELSE mem'.single <= 1
    <3>1. /\ mem.single > 0 <=> Passed(1, 0) \/ Passed(2, 0)
          /\ IF Hit({"single"}) THEN mem.single = 2 /\ Passed(1, 0) /\ Passed(2, 0) ELSE mem.single <= 1
      BY <1>4 DEF SyncLaw
    <3>2. /\ ~Passed(t, 0) /\ (Passed(t, 0)' <=> op = "single")
          /\ \A u \in P!Threads \ {t} : Passed(u, 0)' <=> Passed(u, 0)
      BY <2>1, <2>2
    <3>3. CASE t = 1  BY <2>3, <2>5, <3>1, <3>2, <3>3, ThreadsAre
    <3>4. CASE t = 2  BY <2>3, <2>5, <3>1, <3>2, <3>4, ThreadsAre
    <3> QED BY <3>3, <3>4, ThreadsAre
  <2> QED BY <1>2, <2>9, <2>10, <2>13, <2>14, <2>15, <2>16 DEF SyncLaw
<1> QED BY <1>3, <1>4

(* An instruction; elements are taken and lost. *)

LEMMA BodyWorks ==
  ASSUME ThreadsInv, TeamInv, WorkInv, NEW t \in P!Threads, P!Body(t)
  PROVE  TeamInv' /\ WorkInv'
<1>1. TeamInv'  BY TeamBody
<1>2. stage = "run" /\ stage' = "run"  BY OpOf, Advances DEF Goes, SameCheck
<1>3. ASSUME Watched' PROVE SortLaw' /\ RunLaw'
  <2>1. Watched  BY <1>3, BodySlips
  <2>2. SortLaw /\ SlipLaw /\ LockLaw /\ VisitLaw /\ AssignLaw /\ TotalLaw /\ PartialLaw /\ RegionLaw /\ SyncLaw
    BY <1>2, <2>1 DEF WorkInv, RunLaw
  <2>3. SortLaw' /\ SlipLaw' /\ LockLaw' /\ VisitLaw' /\ AssignLaw'
    BY <1>3, <2>2, SortLawBody, SlipLawBody, LockLawBody, VisitLawBody, AssignLawBody
  <2>4. TotalLaw' /\ PartialLaw' /\ RegionLaw' /\ SyncLaw'
    BY <1>3, <2>2, TotalLawBody, PartialLawBody, RegionLawBody, SyncLawBody
  <2> QED BY <2>3, <2>4 DEF RunLaw
<1> QED BY <1>1, <1>2, <1>3 DEF WorkInv

\* The laws that say nothing of a loop.
LEMMA LoopLaws ==
  ASSUME ThreadsInv, stage # "idle", P!IsLoop, list' = list, index' = index
  PROVE  RegionLaw' /\ SyncLaw' /\ Task' = Task /\ P!IsLoop' = P!IsLoop
<1>1. Task \notin {"one", "throw", "scope", "threads", "identity", "synchronization"}
  BY TaskForms
<1>2. Task' = Task /\ P!IsLoop' = P!IsLoop  BY DutySame
<1> QED BY <1>1, <1>2 DEF RegionLaw, SyncLaw

LEMMA LoopLength ==
  ASSUME ThreadsInv, stage # "idle", P!IsLoop
  PROVE  1 \in DOMAIN Duty /\ 0 \notin DOMAIN Duty /\ Len(Duty) >= 1
<1>1. Len(Duty) = 1 \/ Duty = Section  BY TaskForms
<1>2. Len(Section) = 4  BY DEF Section
<1> QED BY <1>1, <1>2, DutyIs

\* Thread t has asked for an element and gets i.
LEMMA TakeMoves ==
  ASSUME ThreadsInv, TeamInv, NEW t \in P!Threads, NEW i \in todo, P!Take(t, i)
  PROVE  /\ stage = "run" /\ SameCheck /\ P!IsLoop /\ t <= team /\ ~Works(t) /\ Works(t)'
         /\ place'[t] = 1 /\ item'[t] = i /\ i \in P!Items /\ i \in 0..Elements
         /\ \A u \in P!Threads \ {t} : /\ (Works(u)' <=> Works(u)) /\ item'[u] = item[u]
                                       /\ place'[u] = place[u]
         /\ mem' = mem /\ lock' = lock /\ reg' = reg /\ partial' = partial /\ sorted' = sorted
         /\ noticed' = noticed /\ bOk' = bOk
<1>1. /\ stage = "run" /\ SameCheck /\ place[t] = 0 /\ place' = [place EXCEPT ![t] = 1]
      /\ item' = [item EXCEPT ![t] = i]
      /\ mem' = mem /\ lock' = lock /\ reg' = reg /\ partial' = partial /\ sorted' = sorted
      /\ noticed' = noticed /\ bOk' = bOk
  BY DEF P!Take, SameCheck
<1>2. place \in [P!Threads -> Nat] /\ item \in [P!Threads -> P!FromZero \cup P!FromOne \cup {P!NoItem}]
  BY DEF ThreadsInv, P!TypeOK
<1>3. i \in P!Items /\ i \in 0..Elements  BY <1>1, ItemsOf DEF TeamInv
<1>4. P!IsLoop /\ t <= team
  <2>1. P!IsLoop  BY <1>3, ItemsOf
  <2>2. P!Out # 0  BY <1>1, DutyIs DEF P!Out, Duty
  <2> QED BY <1>1, <2>1, <2>2, ThreadsAre DEF TeamInv
<1>5. Duty' = Duty  BY <1>1, DutySame DEF SameCheck
<1> QED BY <1>1, <1>2, <1>3, <1>4, <1>5, LoopLength DEF Works

LEMMA TakeTeam ==
  ASSUME ThreadsInv, TeamInv, NEW t \in P!Threads, NEW i \in todo, P!Take(t, i)
  PROVE  TeamInv'
<1>1. /\ stage = "run" /\ SameCheck /\ P!IsLoop /\ t <= team
      /\ place'[t] = 1 /\ item'[t] = i /\ i \in P!Items
      /\ \A u \in P!Threads \ {t} : /\ (Works(u)' <=> Works(u)) /\ item'[u] = item[u]
                                    /\ place'[u] = place[u]
      /\ mem' = mem /\ team' = team /\ stage' = stage
  BY TakeMoves DEF SameCheck
<1>2. /\ Duty' = Duty /\ P!IsLoop' = P!IsLoop /\ P!Items' = P!Items /\ P!Out' = P!Out /\ P!Alone' = P!Alone
      /\ Len(Duty) \in Nat /\ Len(Duty) >= 1
  BY <1>1, DutySame, DutyIs, LoopLength DEF SameCheck
<1>3. todo' \subseteq P!Items  BY <1>1 DEF P!Take, TeamInv
<1>4. ASSUME NEW u \in P!Threads
      PROVE  /\ IF u > team THEN place'[u] = P!Out ELSE place'[u] \in 0..Len(Duty)
             /\ Works(u)' => item'[u] \in P!Items
  <2>1. CASE u = t  BY <1>1, <1>2, <2>1, ThreadsAre DEF TeamInv
  <2>2. CASE u # t  BY <1>1, <1>2, <2>2 DEF TeamInv
  <2> QED BY <2>1, <2>2
<1> QED BY <1>1, <1>2, <1>3, <1>4 DEF TeamInv

LEMMA TakeSlips ==
  ASSUME ThreadsInv, TeamInv, NEW t \in P!Threads, NEW i \in todo, P!Take(t, i), Watched'
  PROVE  /\ Watched
         /\ \/ todo' = todo \ {i} /\ slips' = slips
            \/ /\ todo' = todo /\ slips = {} /\ slips' = {NewSlip("again", {i})}
               /\ ~Invisible(NewSlip("again", {i}))
<1>1. noticed' = noticed /\ bOk' = bOk  BY TakeMoves
<1>2. (todo' = todo \ {i} /\ slips' = slips) \/ (todo' = todo /\ P!Slip("again", {i}))
  BY DEF P!Take
<1> QED BY <1>1, <1>2, SlipsKept, SlipHappens

LEMMA TakePending ==
  ASSUME ThreadsInv, TeamInv, NEW t \in P!Threads, NEW i \in todo, P!Take(t, i), NEW j
  PROVE  /\ Pending(j) \in Nat /\ Pending(j)' \in Nat
         /\ todo' = todo \ {i} => Pending(j)' = Pending(j)
         /\ todo' = todo => Pending(j)' = Pending(j) + OneIf(i = j)
<1>1. /\ ~Works(t) /\ Works(t)' /\ item'[t] = i
      /\ \A u \in P!Threads \ {t} : (Works(u)' <=> Works(u)) /\ item'[u] = item[u]
  BY TakeMoves
<1>2. InHand(t, j) = 0 /\ InHand(t, j)' = OneIf(i = j)  BY <1>1 DEF InHand, OneIf
<1>3. \A u \in P!Threads \ {t} : InHand(u, j)' = InHand(u, j)  BY <1>1 DEF InHand, OneIf
<1>4. \A u : InHand(u, j) \in Nat  BY DEF InHand, OneIf
<1>5. /\ OneIf(j \in todo) \in Nat /\ OneIf(i = j) \in Nat
      /\ todo' = todo => OneIf(j \in todo)' = OneIf(j \in todo)
      /\ todo' = todo \ {i} => OneIf(j \in todo)' + OneIf(i = j) = OneIf(j \in todo)
      /\ OneIf(j \in todo)' \in Nat
  BY DEF OneIf
<1>6. CASE t = 1  BY <1>2, <1>3, <1>4, <1>5, <1>6, ThreadsAre DEF Pending
<1>7. CASE t = 2  BY <1>2, <1>3, <1>4, <1>5, <1>7, ThreadsAre DEF Pending
<1> QED BY <1>6, <1>7, ThreadsAre

LEMMA TakeAccounted ==
  ASSUME ThreadsInv, TeamInv, NEW t \in P!Threads, NEW i \in todo, P!Take(t, i)
  PROVE  /\ Accounted \in Nat /\ Accounted' \in Nat
         /\ todo' = todo \ {i} => Accounted' = Accounted
         /\ todo' = todo => Accounted' = Accounted + Weight(Counting, i)
<1>1. /\ stage = "run" /\ SameCheck /\ ~Works(t) /\ Works(t)' /\ item'[t] = i /\ place'[t] = 1
      /\ \A u \in P!Threads \ {t} : (Works(u)' <=> Works(u)) /\ item'[u] = item[u] /\ place'[u] = place[u]
      /\ mem' = mem /\ partial' = partial /\ i \in 0..Elements
  BY TakeMoves
<1>2. Task' = Task /\ Counting' = Counting  BY <1>1, DutySame DEF SameCheck
<1>3. Load(t) = 0 /\ Load(t)' = Weight(Counting, i)  BY <1>1, <1>2 DEF Load, Weight
<1>4. \A u \in P!Threads \ {t} : Load(u)' = Load(u)  BY <1>1, <1>2 DEF Load, Weight
<1>5. Made' = Made  BY <1>1, <1>2 DEF Made
<1>6. /\ todo' = todo => SumOf(Counting, todo)' = SumOf(Counting, todo)
      /\ todo' = todo \ {i} => SumOf(Counting, todo)' + Weight(Counting, i) = SumOf(Counting, todo)
      /\ SumOf(Counting, todo)' \in Nat
  <2>1. todo \in SUBSET (0..Elements)  BY DEF ThreadsInv, P!TypeOK
  <2>2. /\ SumOf(Counting, todo) = SumOf(Counting, todo \ {i}) + Weight(Counting, i)
        /\ SumOf(Counting, todo) \in Nat /\ SumOf(Counting, todo \ {i}) \in Nat
    BY <2>1, SumWithout, WeightIs
  <2>3. SumOf(Counting, todo)' = SumOf(Counting, todo')  BY <1>2 DEF SumOf, Units
  <2>4. todo' = todo \/ todo' = todo \ {i}  BY DEF P!Take
  <2>5. CASE todo' = todo  BY <2>2, <2>3, <2>5
  <2>6. CASE todo' = todo \ {i}  BY <2>2, <2>3, <2>6
  <2> QED BY <2>4, <2>5, <2>6
<1>7. Weight(Counting, i) \in Nat  BY <1>1, WeightIs, ParallelChecksAssumption
<1>8. /\ Load(1) \in Nat /\ Load(2) \in Nat /\ Made \in Nat /\ SumOf(Counting, todo) \in Nat /\ Accounted \in Nat
  BY <1>1, LoadsAre
<1>9. CASE t = 1  BY <1>3, <1>4, <1>5, <1>6, <1>7, <1>8, <1>9, ThreadsAre DEF Accounted
<1>10. CASE t = 2  BY <1>3, <1>4, <1>5, <1>6, <1>7, <1>8, <1>10, ThreadsAre DEF Accounted
<1> QED BY <1>9, <1>10, ThreadsAre

LEMMA TakeLock ==
  ASSUME ThreadsInv, TeamInv, LockLaw, NEW t \in P!Threads, NEW i \in todo, P!Take(t, i)
  PROVE  LockLaw'
<1>1. /\ stage = "run" /\ SameCheck /\ P!IsLoop /\ place'[t] = 1
      /\ \A u \in P!Threads \ {t} : (Works(u)' <=> Works(u)) /\ place'[u] = place[u]
      /\ mem' = mem /\ lock' = lock /\ reg' = reg
  BY TakeMoves
<1>2. Duty' = Duty  BY <1>1, DutySame DEF SameCheck
<1>3. Duty[1] \notin {"load", "store", "unlock"}
  <2>1. 1 \in 1..Len(Duty)  BY <1>1, LoopLength, DutyIs
  <2> QED BY <1>1, <2>1, OrderOf
<1>4. ASSUME NEW u \in P!Threads, Works(u)'
      PROVE  /\ Duty[place'[u]] \in {"load", "store", "unlock"} => lock = u
             /\ Duty[place'[u]] = "store" => reg[u] = mem.guarded
  <2>1. CASE u = t  BY <1>1, <1>3, <2>1
  <2>2. CASE u # t  BY <1>1, <1>4, <2>2 DEF LockLaw
  <2> QED BY <2>1, <2>2
<1> QED BY <1>1, <1>2, <1>4 DEF LockLaw

LEMMA TakeVisits ==
  ASSUME ThreadsInv, TeamInv, VisitLaw, NEW t \in P!Threads, NEW i \in todo, P!Take(t, i), Watched'
  PROVE  VisitLaw'
<1>1. stage = "run" /\ SameCheck /\ mem' = mem  BY TakeMoves
<1>2. Task' = Task /\ P!Items' = P!Items  BY <1>1, DutySame DEF SameCheck
<1> SUFFICES ASSUME Task \in {"visit", "visitAndReduce"}, NEW j \in P!Items
             PROVE  mem.visits[j] + Pending(j)' + OneIf(Struck(j, {"lost", "dropped"})') =
                      1 + OneIf(Struck(j, {"again"})')
  BY <1>1, <1>2 DEF VisitLaw
<1>3. mem.visits[j] \in Nat  BY <1>1, ItemsOf, MemUpdates DEF TeamInv
<1>4. mem.visits[j] + Pending(j) + OneIf(Struck(j, {"lost", "dropped"})) = 1 + OneIf(Struck(j, {"again"}))
  BY DEF VisitLaw
<1>5. Pending(j) \in Nat /\ Pending(j)' \in Nat  BY TakePending
<1>6. CASE todo' = todo \ {i} /\ slips' = slips
  <2>1. Pending(j)' = Pending(j)  BY <1>6, TakePending
  <2>2. /\ Struck(j, {"lost", "dropped"})' <=> Struck(j, {"lost", "dropped"})
        /\ Struck(j, {"again"})' <=> Struck(j, {"again"})
    BY <1>6 DEF Struck
  <2> QED BY <1>4, <2>1, <2>2 DEF OneIf
<1>7. CASE todo' = todo /\ slips = {} /\ slips' = {NewSlip("again", {i})}
  <2>1. Pending(j)' = Pending(j) + OneIf(i = j)  BY <1>7, TakePending
  <2>2. /\ ~Struck(j, {"lost", "dropped"}) /\ ~Struck(j, {"again"}) /\ ~Struck(j, {"lost", "dropped"})'
        /\ Struck(j, {"again"})' <=> i = j
    BY <1>7 DEF Struck, NewSlip
  <2> QED BY <1>3, <1>4, <1>5, <2>1, <2>2 DEF OneIf
<1> QED BY <1>6, <1>7, TakeSlips

\* The containers with keys do not see that an element is inserted again.
LEMMA TakeAssigned ==
  ASSUME ThreadsInv, TeamInv, AssignLaw, NEW t \in P!Threads, NEW i \in todo, P!Take(t, i), Watched'
  PROVE  AssignLaw'
<1>1. stage = "run" /\ SameCheck /\ mem' = mem  BY TakeMoves
<1>2. Task' = Task /\ P!Items' = P!Items  BY <1>1, DutySame DEF SameCheck
<1> SUFFICES ASSUME Task = "assign", NEW j \in P!Items
             PROVE  OneIf(j \in mem.assigned) + Pending(j)' + OneIf(Struck(j, {"lost", "dropped"})') = 1
  BY <1>1, <1>2 DEF AssignLaw
<1>3. OneIf(j \in mem.assigned) + Pending(j) + OneIf(Struck(j, {"lost", "dropped"})) = 1
  BY DEF AssignLaw
<1>4. P!Now.name \in {"parallel-scan", "concurrent-hash-map"}  BY <1>1, TaskIs
<1>5. Invisible(NewSlip("again", {i}))  BY <1>4 DEF Invisible, NewSlip
<1>6. todo' = todo \ {i} /\ slips' = slips  BY <1>5, TakeSlips
<1>7. Pending(j)' = Pending(j)  BY <1>6, TakePending
<1>8. Struck(j, {"lost", "dropped"})' <=> Struck(j, {"lost", "dropped"})  BY <1>6 DEF Struck
<1> QED BY <1>3, <1>7, <1>8 DEF OneIf

LEMMA TakeTotal ==
  ASSUME ThreadsInv, TeamInv, TotalLaw, NEW t \in P!Threads, NEW i \in todo, P!Take(t, i), Watched'
  PROVE  TotalLaw'
<1>1. SameCheck /\ i \in P!Items  BY TakeMoves
<1>2. CASE todo' = todo \ {i} /\ slips' = slips
  <2>1. Accounted' = Accounted  BY <1>2, TakeAccounted
  <2> QED BY <1>1, <1>2, <2>1, TotalKept DEF SameCheck
<1>3. CASE todo' = todo /\ slips = {} /\ slips' = {NewSlip("again", {i})}
  <2>1. /\ Accounted' = Accounted + Weight(Counting, i) /\ Accounted \in Nat /\ Accounted' \in Nat
    BY <1>3, TakeAccounted
  <2> QED BY <1>1, <1>3, <2>1, TotalNew DEF SameCheck
<1> QED BY <1>2, <1>3, TakeSlips

LEMMA PartialKept ==
  ASSUME PartialLaw, list' = list, index' = index, partial' = partial
  PROVE  PartialLaw'
BY DutySame DEF PartialLaw

LEMMA TakeWorks ==
  ASSUME ThreadsInv, TeamInv, WorkInv, NEW t \in P!Threads, NEW i \in todo, P!Take(t, i)
  PROVE  TeamInv' /\ WorkInv'
<1>1. TeamInv'  BY TakeTeam
<1>2. /\ stage = "run" /\ stage' = "run" /\ SameCheck /\ P!IsLoop /\ i \in P!Items
      /\ partial' = partial /\ sorted' = sorted
  BY TakeMoves DEF SameCheck
<1>3. ASSUME Watched' PROVE SortLaw' /\ RunLaw'
  <2>1. /\ Watched
        /\ slips' = slips \/ (slips = {} /\ slips' = {NewSlip("again", {i})})
    BY <1>3, TakeSlips
  <2>2. SortLaw /\ SlipLaw /\ LockLaw /\ VisitLaw /\ AssignLaw /\ TotalLaw /\ PartialLaw
    BY <1>2, <2>1 DEF WorkInv, RunLaw
  <2>3. SlipLaw'  BY <1>2, <2>1, <2>2, SlipLawKept, SlipLawNew DEF SameCheck
  <2>4. SortLaw'  BY <1>2, <2>1, <2>2, SortLawKept DEF SameCheck
  <2>5. RegionLaw' /\ SyncLaw' /\ PartialLaw'
    BY <1>2, <2>2, LoopLaws, PartialKept DEF SameCheck
  <2>6. LockLaw' /\ VisitLaw' /\ AssignLaw' /\ TotalLaw'
    BY <1>3, <2>2, TakeLock, TakeVisits, TakeAssigned, TakeTotal
  <2> QED BY <2>3, <2>4, <2>5, <2>6 DEF RunLaw
<1> QED BY <1>1, <1>2, <1>3 DEF WorkInv

\* An element that is never handed out.
LEMMA LoseMoves ==
  ASSUME ThreadsInv, TeamInv, NEW i \in todo, P!Lose(i)
  PROVE  /\ stage = "run" /\ SameCheck /\ P!IsLoop /\ i \in P!Items /\ i \in 0..Elements
         /\ place' = place /\ item' = item /\ mem' = mem /\ lock' = lock /\ reg' = reg
         /\ partial' = partial /\ sorted' = sorted /\ noticed' = noticed /\ bOk' = bOk
         /\ todo' = todo \ {i} /\ P!Slip("lost", {i})
<1>1. /\ stage = "run" /\ SameCheck
      /\ place' = place /\ item' = item /\ mem' = mem /\ lock' = lock /\ reg' = reg
      /\ partial' = partial /\ sorted' = sorted /\ noticed' = noticed /\ bOk' = bOk
      /\ todo' = todo \ {i} /\ P!Slip("lost", {i})
  BY DEF P!Lose, SameCheck
<1>2. i \in P!Items  BY <1>1 DEF TeamInv
<1> QED BY <1>1, <1>2, ItemsOf

LEMMA LosePending ==
  ASSUME ThreadsInv, TeamInv, NEW i \in todo, P!Lose(i), NEW j
  PROVE  Pending(j) \in Nat /\ Pending(j)' \in Nat /\ Pending(j) = Pending(j)' + OneIf(i = j)
<1>1. SameCheck /\ place' = place /\ item' = item /\ todo' = todo \ {i}  BY LoseMoves
<1>2. Duty' = Duty  BY <1>1, DutySame DEF SameCheck
<1>3. \A u : InHand(u, j)' = InHand(u, j) /\ InHand(u, j) \in Nat
  BY <1>1, <1>2 DEF InHand, OneIf, Works
<1>4. /\ OneIf(j \in todo) \in Nat /\ OneIf(i = j) \in Nat /\ OneIf(j \in todo)' \in Nat
      /\ OneIf(j \in todo)' + OneIf(i = j) = OneIf(j \in todo)
  BY <1>1 DEF OneIf
<1> QED BY <1>3, <1>4 DEF Pending

LEMMA LoseAccounted ==
  ASSUME ThreadsInv, TeamInv, NEW i \in todo, P!Lose(i)
  PROVE  Accounted \in Nat /\ Accounted' \in Nat /\ Accounted = Accounted' + Weight(Counting, i)
<1>1. /\ stage = "run" /\ SameCheck /\ place' = place /\ item' = item /\ todo' = todo \ {i}
      /\ mem' = mem /\ partial' = partial /\ i \in 0..Elements
  BY LoseMoves
<1>2. Duty' = Duty /\ Counting' = Counting /\ Task' = Task  BY <1>1, DutySame DEF SameCheck
<1>3. Load(1)' = Load(1) /\ Load(2)' = Load(2) /\ Made' = Made
  BY <1>1, <1>2 DEF Load, Made, Works, Weight
<1>4. todo \in SUBSET (0..Elements)  BY DEF ThreadsInv, P!TypeOK
<1>5. /\ SumOf(Counting, todo) = SumOf(Counting, todo \ {i}) + Weight(Counting, i)
      /\ SumOf(Counting, todo) \in Nat /\ SumOf(Counting, todo \ {i}) \in Nat
  BY <1>4, SumWithout, WeightIs
<1>6. SumOf(Counting, todo)' = SumOf(Counting, todo \ {i})  BY <1>1, <1>2 DEF SumOf, Units
<1>7. Weight(Counting, i) \in Nat  BY <1>1, WeightIs, ParallelChecksAssumption
<1>8. /\ Load(1) \in Nat /\ Load(2) \in Nat /\ Made \in Nat /\ Accounted \in Nat
  BY <1>1, LoadsAre
<1> QED BY <1>3, <1>5, <1>6, <1>7, <1>8 DEF Accounted

LEMMA LoseWorks ==
  ASSUME ThreadsInv, TeamInv, WorkInv, NEW i \in todo, P!Lose(i)
  PROVE  TeamInv' /\ WorkInv'
<1>1. /\ stage = "run" /\ stage' = "run" /\ team' = team /\ SameCheck /\ P!IsLoop /\ i \in P!Items /\ i \in 0..Elements
      /\ place' = place /\ item' = item /\ mem' = mem /\ lock' = lock /\ reg' = reg
      /\ partial' = partial /\ sorted' = sorted /\ noticed' = noticed /\ bOk' = bOk
      /\ todo' = todo \ {i} /\ P!Slip("lost", {i})
  BY LoseMoves DEF SameCheck
<1>2. /\ Duty' = Duty /\ P!IsLoop' = P!IsLoop /\ P!Items' = P!Items /\ P!Out' = P!Out /\ P!Alone' = P!Alone
      /\ Task' = Task /\ Losses' = Losses
  BY <1>1, DutySame DEF SameCheck
<1>3. TeamInv'  BY <1>1, <1>2 DEF TeamInv, Works
<1>4. ASSUME Watched' PROVE SortLaw' /\ RunLaw'
  <2>1. Watched /\ slips = {} /\ slips' = {NewSlip("lost", {i})}  BY <1>1, <1>4, SlipHappens
  <2>2. SortLaw /\ SlipLaw /\ LockLaw /\ VisitLaw /\ AssignLaw /\ TotalLaw /\ PartialLaw
    BY <1>1, <2>1 DEF WorkInv, RunLaw
  <2>3. SlipLaw' /\ SortLaw'  BY <1>1, <2>1, <2>2, SlipLawNew, SortLawKept DEF SameCheck
  <2>4. RegionLaw' /\ SyncLaw' /\ PartialLaw'
    BY <1>1, <2>2, LoopLaws, PartialKept DEF SameCheck
  <2>5. LockLaw'  BY <1>1, <1>2, <2>2 DEF LockLaw, Works
  <2>6. ASSUME NEW j
        PROVE  /\ ~Struck(j, {"lost", "dropped"}) /\ ~Struck(j, {"again"}) /\ ~Struck(j, {"again"})'
               /\ Struck(j, {"lost", "dropped"})' <=> i = j
    BY <2>1 DEF Struck, NewSlip
  <2>7. VisitLaw'
    <3> SUFFICES ASSUME Task \in {"visit", "visitAndReduce"}, NEW j \in P!Items
                 PROVE  mem.visits[j] + Pending(j)' + OneIf(Struck(j, {"lost", "dropped"})') =
                          1 + OneIf(Struck(j, {"again"})')
      BY <1>1, <1>2 DEF VisitLaw
    <3>1. mem.visits[j] \in Nat  BY <1>1, ItemsOf, MemUpdates DEF TeamInv
    <3>2. mem.visits[j] + Pending(j) + OneIf(Struck(j, {"lost", "dropped"})) = 1 + OneIf(Struck(j, {"again"}))
      BY <2>2 DEF VisitLaw
    <3>3. Pending(j) \in Nat /\ Pending(j)' \in Nat /\ Pending(j) = Pending(j)' + OneIf(i = j)
      BY LosePending
    <3> QED BY <2>6, <3>1, <3>2, <3>3 DEF OneIf
  <2>8. AssignLaw'
    <3> SUFFICES ASSUME Task = "assign", NEW j \in P!Items
                 PROVE  OneIf(j \in mem.assigned) + Pending(j)' + OneIf(Struck(j, {"lost", "dropped"})') = 1
      BY <1>1, <1>2, <2>2 DEF AssignLaw
    <3>1. OneIf(j \in mem.assigned) + Pending(j) + OneIf(Struck(j, {"lost", "dropped"})) = 1
      BY <2>2 DEF AssignLaw
    <3>2. Pending(j) \in Nat /\ Pending(j)' \in Nat /\ Pending(j) = Pending(j)' + OneIf(i = j)
      BY LosePending
    <3> QED BY <2>6, <3>1, <3>2 DEF OneIf
  <2>9. TotalLaw'
    <3>1. Accounted \in Nat /\ Accounted' \in Nat /\ Accounted = Accounted' + Weight(Counting, i)
      BY LoseAccounted
    <3>2. "lost" \in Losses  BY DEF Losses
    <3> QED BY <1>1, <2>1, <2>2, <3>1, <3>2, TotalNew DEF SameCheck
  <2> QED BY <2>3, <2>4, <2>5, <2>7, <2>8, <2>9 DEF RunLaw
<1> QED BY <1>1, <1>3, <1>4 DEF WorkInv

(* The start of the smoke and of a check; oneTBB throws. *)

LEMMA FirstWorks == Init => TeamInv /\ WorkInv
<1> SUFFICES ASSUME P!Init PROVE TeamInv /\ WorkInv
  BY DEF Init
<1>1. stage = "idle" /\ slips = {} /\ sorted = AtFirst  BY DEF P!Init, AtFirst
<1>2. SortLaw  BY <1>1 DEF SortLaw, Hit
<1> QED BY <1>1, <1>2 DEF TeamInv, WorkInv

LEMMA BeginWorks ==
  ASSUME WorkInv, NEW program \in DOMAIN Lists, P!Begin(program)
  PROVE  TeamInv' /\ WorkInv'
<1>1. stage = "idle" /\ stage' = "start" /\ slips' = slips /\ sorted' = sorted /\ noticed' = noticed /\ bOk' = bOk
  BY DEF P!Begin
<1>2. ASSUME Watched' PROVE SortLaw' /\ slips' = {}
  <2>1. Watched  BY <1>1, <1>2, SlipsKept
  <2>2. slips = {} /\ SortLaw  BY <1>1, <2>1 DEF WorkInv
  <2>3. sorted = AtFirst /\ ~Hit({"sort"})'  BY <1>1, <2>2 DEF SortLaw, Hit
  <2> QED BY <1>1, <2>2, <2>3 DEF SortLaw, AtFirst, P!FromZero
<1> QED BY <1>1, <1>2 DEF TeamInv, WorkInv

LEMMA ThrowWorks == ASSUME P!Throw PROVE TeamInv' /\ WorkInv'
<1>1. P!Slip("throws", {}) /\ bOk' = FALSE /\ stage' = "ended"  BY DEF P!Throw
<1>2. slips' # {}  BY <1>1 DEF P!Slip
<1>3. ~Watched'  BY <1>1, <1>2 DEF Watched
<1> QED BY <1>1, <1>3 DEF TeamInv, WorkInv

LEMMA ForkMoves ==
  ASSUME ThreadsInv, NEW n \in P!Threads, P!Fork(n)
  PROVE  /\ stage = "start" /\ stage' = "run" /\ list' = list /\ index' = index /\ sorted' = sorted
         /\ noticed' = noticed /\ bOk' = bOk
         /\ team' = n /\ todo' = P!Items /\ lock' = 0 /\ mem' = P!Nothing
         /\ partial'[1] = 0 /\ partial'[2] = 0 /\ (P!Alone => n = 1)
         /\ \A t \in P!Threads :
              /\ place'[t] = (IF t > n THEN P!Out ELSE IF P!IsLoop THEN 0 ELSE 1)
              /\ P!IsLoop => ~Works(t)'
              /\ ~P!IsLoop /\ Len(Duty) > 0 => Through(t)' = 0
         /\ IF n = 1 /\ ~P!Alone /\ ~P!Tbb THEN P!Slip("team", {}) ELSE slips' = slips
<1>1. /\ stage = "start" /\ stage' = "run" /\ list' = list /\ index' = index /\ sorted' = sorted
      /\ noticed' = noticed /\ bOk' = bOk
      /\ team' = n /\ todo' = P!Items /\ lock' = 0 /\ mem' = P!Nothing /\ (P!Alone => n = 1)
      /\ partial' = [t \in P!Threads |-> 0]
      /\ place' = [t \in P!Threads |-> IF t > n THEN P!Out ELSE IF P!IsLoop THEN 0 ELSE 1]
      /\ IF n = 1 /\ ~P!Alone /\ ~P!Tbb THEN P!Slip("team", {}) ELSE slips' = slips
  BY DEF P!Fork
<1>2. Duty' = Duty /\ P!Out' = P!Out  BY <1>1, DutySame
<1>3. DOMAIN Duty = 1..Len(Duty) /\ Len(Duty) \in Nat /\ P!Out = Len(Duty) + 1
  BY <1>1, DutyIs DEF P!Out, Duty
<1>4. ASSUME NEW t \in P!Threads
      PROVE  /\ place'[t] = (IF t > n THEN P!Out ELSE IF P!IsLoop THEN 0 ELSE 1)
             /\ P!IsLoop => ~Works(t)'
             /\ ~P!IsLoop /\ Len(Duty) > 0 => Through(t)' = 0
  <2>1. place'[t] = (IF t > n THEN P!Out ELSE IF P!IsLoop THEN 0 ELSE 1)  BY <1>1
  <2> QED BY <1>1, <1>2, <1>3, <2>1, ThreadsAre DEF Works, Through
<1> QED BY <1>1, <1>4, ThreadsAre

LEMMA NothingIs ==
  /\ P!Nothing \in MemTypes
  /\ \A i \in 0..Elements : P!Nothing.visits[i] = 0
  /\ P!Nothing.assigned = {} /\ P!Nothing.total = 0 /\ P!Nothing.guarded = 0 /\ P!Nothing.atomic = 0
  /\ P!Nothing.arrived = 0 /\ P!Nothing.failed = 0 /\ P!Nothing.single = 0
BY DEF P!Nothing, MemTypes

LEMMA ForkTeam == ASSUME ThreadsInv, NEW n \in P!Threads, P!Fork(n) PROVE TeamInv'
<1>1. /\ stage = "start" /\ list' = list /\ index' = index /\ team' = n /\ todo' = P!Items
      /\ mem' = P!Nothing /\ (P!Alone => n = 1)
      /\ \A t \in P!Threads : /\ place'[t] = (IF t > n THEN P!Out ELSE IF P!IsLoop THEN 0 ELSE 1)
                              /\ P!IsLoop => ~Works(t)'
  BY ForkMoves
<1>2. /\ Duty' = Duty /\ P!IsLoop' = P!IsLoop /\ P!Items' = P!Items /\ P!Out' = P!Out /\ P!Alone' = P!Alone
      /\ Len(Duty) \in Nat
  BY <1>1, DutySame, DutyIs
<1> QED BY <1>1, <1>2, NothingIs DEF TeamInv

LEMMA ForkSlips ==
  ASSUME ThreadsInv, WorkInv, NEW n \in P!Threads, P!Fork(n), Watched'
  PROVE  /\ SortLaw' /\ SlipLaw'
         /\ \A s \in slips' : s.kind \in {"sort", "team"}
<1>1. /\ stage = "start" /\ list' = list /\ index' = index /\ sorted' = sorted
      /\ noticed' = noticed /\ bOk' = bOk /\ team' = n /\ n \in {1, 2}
      /\ IF n = 1 /\ ~P!Alone /\ ~P!Tbb THEN P!Slip("team", {}) ELSE slips' = slips
  BY ForkMoves, ThreadsAre
<1>2. P!Now' = P!Now /\ P!Tbb' = P!Tbb /\ P!Alone' = P!Alone  BY <1>1, DutySame
<1>3. CASE slips' = slips /\ ~(n = 1 /\ ~P!Alone /\ ~P!Tbb)
  <2>1. Watched  BY <1>1, <1>3, SlipsKept
  <2>2. SortLaw /\ \A s \in slips : s.kind = "sort"  BY <1>1, <2>1 DEF WorkInv
  <2>3. SortLaw'  BY <1>1, <1>3, <2>2, SortLawKept
  <2>4. team' = 2 \/ P!Alone' \/ P!Tbb'  BY <1>1, <1>2, <1>3
  <2> QED BY <1>3, <2>2, <2>3, <2>4 DEF SlipLaw
<1>4. CASE P!Slip("team", {}) /\ n = 1 /\ ~P!Alone /\ ~P!Tbb
  <2>1. Watched /\ slips = {} /\ slips' = {NewSlip("team", {})} /\ Hit({"team"})'
    BY <1>1, <1>4, SlipHappens
  <2>2. SortLaw  BY <1>1, <2>1 DEF WorkInv
  <2>3. SortLaw'  BY <1>1, <2>1, <2>2, SortLawKept
  <2>4. \A s \in slips' : s.kind = "team" /\ s.check = P!Now.name  BY <2>1 DEF NewSlip
  <2> QED BY <1>1, <1>2, <1>4, <2>1, <2>3, <2>4 DEF SlipLaw
<1> QED BY <1>1, <1>3, <1>4

LEMMA ForkLoop ==
  ASSUME ThreadsInv, WorkInv, NEW n \in P!Threads, P!Fork(n), Watched'
  PROVE  VisitLaw' /\ AssignLaw' /\ TotalLaw'
<1>1. /\ stage = "start" /\ list' = list /\ index' = index /\ todo' = P!Items
      /\ mem' = P!Nothing /\ partial'[1] = 0 /\ partial'[2] = 0
      /\ \A t \in P!Threads : P!IsLoop => ~Works(t)'
  BY ForkMoves
<1>2. /\ P!IsLoop' = P!IsLoop /\ P!Items' = P!Items /\ Task' = Task /\ Counting' = Counting
  BY <1>1, DutySame
<1>3. /\ \A kinds : Hit(kinds)' => "sort" \in kinds \/ "team" \in kinds
      /\ \A i, kinds : Struck(i, kinds)' => "sort" \in kinds \/ "team" \in kinds
  BY ForkSlips DEF Hit, Struck
<1>4. ASSUME P!IsLoop, NEW i \in P!Items PROVE Pending(i)' = 1
  <2>1. InHand(1, i)' = 0 /\ InHand(2, i)' = 0 /\ OneIf(i \in todo)' = 1
    BY <1>1, <1>4, ThreadsAre DEF InHand, OneIf
  <2> QED BY <2>1 DEF Pending
<1>5. VisitLaw'
  <2> SUFFICES ASSUME Task \in {"visit", "visitAndReduce"}, NEW i \in P!Items
               PROVE  mem'.visits[i] + Pending(i)' + OneIf(Struck(i, {"lost", "dropped"})') =
                        1 + OneIf(Struck(i, {"again"})')
    BY <1>2 DEF VisitLaw
  <2>1. P!IsLoop /\ mem'.visits[i] = 0  BY <1>1, TaskForms, ItemsOf, NothingIs
  <2>2. Pending(i)' = 1  BY <1>4, <2>1
  <2>3. ~Struck(i, {"lost", "dropped"})' /\ ~Struck(i, {"again"})'  BY <1>3
  <2> QED BY <2>1, <2>2, <2>3 DEF OneIf
<1>6. AssignLaw'
  <2> SUFFICES ASSUME Task = "assign", NEW i \in P!Items
               PROVE  OneIf(i \in mem'.assigned) + Pending(i)' + OneIf(Struck(i, {"lost", "dropped"})') = 1
    BY <1>1, <1>2, NothingIs DEF AssignLaw
  <2>1. P!IsLoop /\ i \notin mem'.assigned  BY <1>1, TaskForms, NothingIs
  <2>2. Pending(i)' = 1  BY <1>4, <2>1
  <2>3. ~Struck(i, {"lost", "dropped"})'  BY <1>3
  <2> QED BY <2>1, <2>2, <2>3 DEF OneIf
<1>7. TotalLaw'
  <2> SUFFICES ASSUME P!IsLoop
               PROVE  \E more, less \in 0..Elements :
                        /\ Weighs({"again"}, more)' /\ Weighs(Losses, less)'
                        /\ Accounted' + less = SumOf(Counting, P!Items)' + more
    BY <1>2 DEF TotalLaw
  <2>1. Load(1)' = 0 /\ Load(2)' = 0  BY <1>1, ThreadsAre DEF Load
  <2>2. Made' = 0  BY <1>1, NothingIs DEF Made
  <2>3. SumOf(Counting, todo)' = SumOf(Counting, P!Items) /\ SumOf(Counting, P!Items)' = SumOf(Counting, P!Items)
    BY <1>1, <1>2 DEF SumOf, Units
  <2>4. SumOf(Counting, P!Items) \in Nat  BY ItemsOf, SumIsNat, WeightIs
  <2>5. Accounted' = SumOf(Counting, P!Items)'  BY <2>1, <2>2, <2>3, <2>4 DEF Accounted
  <2>6. ~Hit({"again"})' /\ ~Hit(Losses)'
    <3>1. Losses' \in {{"lost"}, {"lost", "dropped"}}  BY DEF Losses
    <3> QED BY <1>3, <3>1, ForkSlips DEF Hit
  <2>7. Weighs({"again"}, 0)' /\ Weighs(Losses, 0)'  BY <2>6 DEF Weighs
  <2>8. 0 \in 0..Elements /\ Accounted' + 0 = SumOf(Counting, P!Items)' + 0
    BY <2>3, <2>4, <2>5, ParallelChecksAssumption
  <2> QED BY <2>7, <2>8
<1> QED BY <1>5, <1>6, <1>7

LEMMA ForkRegion ==
  ASSUME ThreadsInv, WorkInv, NEW n \in P!Threads, P!Fork(n), Watched'
  PROVE  LockLaw' /\ PartialLaw' /\ RegionLaw' /\ SyncLaw'
<1>1. /\ stage = "start" /\ list' = list /\ index' = index /\ team' = n
      /\ mem' = P!Nothing /\ partial'[1] = 0 /\ partial'[2] = 0
      /\ \A t \in P!Threads :
           /\ place'[t] = (IF t > n THEN P!Out ELSE IF P!IsLoop THEN 0 ELSE 1)
           /\ P!IsLoop => ~Works(t)'
           /\ ~P!IsLoop /\ Len(Duty) > 0 => Through(t)' = 0
  BY ForkMoves
<1>2. /\ Duty' = Duty /\ P!IsLoop' = P!IsLoop /\ Task' = Task /\ P!Out' = P!Out
      /\ DOMAIN Duty = 1..Len(Duty) /\ Len(Duty) \in Nat /\ P!Out = Len(Duty) + 1
  BY <1>1, DutySame, DutyIs DEF P!Out, Duty
<1>3. /\ \A kinds : Hit(kinds)' => "sort" \in kinds \/ "team" \in kinds  BY ForkSlips DEF Hit
<1>4. LockLaw'
  <2> SUFFICES ASSUME NEW t \in P!Threads, Works(t)'
               PROVE  Duty[place'[t]] \notin {"load", "store", "unlock"}
    BY <1>2 DEF LockLaw
  <2>1. place'[t] = 1 /\ 1 \in 1..Len(Duty)  BY <1>1, <1>2 DEF Works
  <2> QED BY <1>1, <2>1, OrderOf
<1>5. PartialLaw'  BY <1>1 DEF PartialLaw
<1>6. RegionLaw'
  <2>1. ~Hit({"dropped"})' /\ ~Hit({"scope"})'  BY <1>3
  <2>2. ASSUME Task \in {"one", "throw", "scope", "threads", "identity"} PROVE Through(1)' = 0 /\ Through(2)' = 0
    <3>1. ~P!IsLoop /\ (Len(Duty) = 1 \/ Duty = Scoping)  BY <1>1, <2>2, TaskForms
    <3>2. Len(Scoping) = 2  BY DEF Scoping
    <3> QED BY <1>1, <3>1, <3>2, ThreadsAre
  <2>3. mem'.total = 0 /\ mem'.failed = 0  BY <1>1, NothingIs
  <2> QED BY <1>1, <1>2, <2>1, <2>2, <2>3 DEF RegionLaw, OneIf
<1>7. SyncLaw'
  <2> SUFFICES ASSUME Task = "synchronization" PROVE SyncLaw'
    BY <1>2 DEF SyncLaw
  <2>1. Len(Duty) > 4 /\ ~P!IsLoop  BY <1>1, SyncEnds
  <2>2. ASSUME NEW t \in P!Threads, NEW op PROVE Share(t, op)' = 0
    <3>1. CASE t <= team'
      <4>1. place'[t] = 1  BY <1>1, <2>1, <3>1, ThreadsAre
      <4>2. Past(t, op)' = {}  BY <4>1 DEF Past
      <4> QED BY <4>2, FS_EmptySet DEF Share
    <3>2. CASE ~(t <= team')  BY <3>2 DEF Share
    <3> QED BY <3>1, <3>2
  <2>3. ASSUME NEW t \in P!Threads, NEW k \in 0..3 PROVE ~Passed(t, k)'
    <3>1. t <= team' => place'[t] = 1  BY <1>1, <2>1, ThreadsAre
    <3> QED BY <1>2, <2>1, <3>1 DEF Passed
  <2>4. /\ ~Hit({"dropped"})' /\ ~Hit({"single"})'  BY <1>3
  <2>5. /\ mem'.guarded = 0 /\ mem'.atomic = 0 /\ mem'.arrived = 0 /\ mem'.failed = 0 /\ mem'.single = 0
    BY <1>1, NothingIs
  <2>6. /\ \A t \in P!Threads : ~Passed(t, 0)' /\ ~Passed(t, 1)' /\ ~Passed(t, 2)' /\ ~Passed(t, 3)'
        /\ \A t \in P!Threads : /\ Share(t, "store")' = 0 /\ Share(t, "atomic")' = 0
    BY <2>2, <2>3
  <2>7. \E a, r \in {0, 1} :
         /\ a + r = OneIf(Hit({"dropped"}))'
         /\ mem'.atomic + a = Share(1, "atomic")' + Share(2, "atomic")'
         /\ mem'.arrived + r = OneIf(Passed(1, 3))' + OneIf(Passed(2, 3))'
    <3>1. OneIf(Hit({"dropped"}))' = 0 /\ OneIf(Passed(1, 3))' = 0 /\ OneIf(Passed(2, 3))' = 0
      BY <2>4, <2>6, ThreadsAre DEF OneIf
    <3>2. /\ 0 + 0 = OneIf(Hit({"dropped"}))'
          /\ mem'.atomic + 0 = Share(1, "atomic")' + Share(2, "atomic")'
          /\ mem'.arrived + 0 = OneIf(Passed(1, 3))' + OneIf(Passed(2, 3))'
      BY <2>5, <2>6, <3>1, ThreadsAre
    <3> QED BY <3>2
  <2> QED BY <2>4, <2>5, <2>6, <2>7, ThreadsAre DEF SyncLaw
<1> QED BY <1>4, <1>5, <1>6, <1>7

LEMMA ForkWorks ==
  ASSUME ThreadsInv, WorkInv, NEW n \in P!Threads, P!Fork(n)
  PROVE  TeamInv' /\ WorkInv'
<1>1. stage' = "run"  BY ForkMoves
<1>2. Watched' => SortLaw' /\ RunLaw'  BY ForkSlips, ForkLoop, ForkRegion DEF RunLaw
<1> QED BY <1>1, <1>2, ForkTeam DEF WorkInv

(* The wait at the end of the work. *)

LEMMA DoneLoop ==
  ASSUME ThreadsInv, TeamInv, stage = "run", AllDone, P!IsLoop
  PROVE  /\ \A i : Pending(i) = 0
         /\ Accounted = Made
<1>1. P!IsLoop => todo = {} /\ \A t \in P!Threads : ~Works(t)
  <2>1. P!Out = Len(Duty) + 1 /\ DOMAIN Duty = 1..Len(Duty) /\ Len(Duty) \in Nat
    BY DutyIs DEF P!Out, Duty
  <2>2. 1 <= team /\ place[1] \in 0..Len(Duty)  BY ThreadsAre DEF TeamInv
  <2>3. todo = {}  BY <2>1, <2>2, ThreadsAre DEF AllDone, P!Done
  <2>4. \A t \in P!Threads : place[t] = P!Out \/ place[t] = 0  BY DEF AllDone, P!Done
  <2> QED BY <2>1, <2>3, <2>4 DEF Works
<1>2. \A i : InHand(1, i) = 0 /\ InHand(2, i) = 0 /\ OneIf(i \in todo) = 0
  BY <1>1, ThreadsAre DEF InHand, OneIf
<1>3. Load(1) = 0 /\ Load(2) = 0 /\ SumOf(Counting, todo) = 0
  BY <1>1, ThreadsAre, SumOfNone, WeightIs DEF Load
<1> QED BY <1>2, <1>3, LoadsAre DEF Pending, Accounted

LEMMA DoneRegion ==
  ASSUME ThreadsInv, TeamInv, stage = "run", AllDone, ~P!IsLoop
  PROVE  /\ team \in {1, 2} /\ Through(1) = 1 /\ Through(1) + Through(2) = team
         /\ \A t \in P!Threads : place[t] = Len(Duty) + 1
<1>1. \A t \in P!Threads : place[t] = P!Out  BY DEF AllDone, P!Done
<1>2. P!Out = Len(Duty) + 1  BY DEF P!Out, Duty
<1>3. team \in {1, 2}  BY ThreadsAre DEF TeamInv
<1> QED BY <1>1, <1>2, <1>3, ThreadsAre DEF Through

\* The data that the check looks at.
LEMMA JoinMoves ==
  ASSUME ThreadsInv, TeamInv, P!Join
  PROVE  LET all == mem.total + partial[1] + partial[2]
         IN  /\ stage = "run" /\ stage' = "check" /\ list' = list /\ index' = index /\ sorted' = sorted
             /\ noticed' = noticed /\ bOk' = bOk
             /\ mem'.visits = mem.visits /\ mem'.assigned = mem.assigned /\ mem'.guarded = mem.guarded
             /\ mem'.atomic = mem.atomic /\ mem'.failed = mem.failed /\ mem'.single = mem.single
             /\ all \in Nat /\ mem'.total \in Nat
             /\ \/ AllDone /\ mem'.total = all /\ slips' = slips
                \/ /\ AllDone /\ P!Slip("share", {})
                   /\ \E t \in P!Threads : partial[t] > 0 /\ mem'.total + partial[t] = all
                \/ todo # {} /\ mem'.total = all /\ P!Slip("early", todo)
<1> DEFINE all == mem.total + partial[1] + partial[2]
<1>1. /\ stage = "run" /\ stage' = "check" /\ list' = list /\ index' = index /\ sorted' = sorted
      /\ noticed' = noticed /\ bOk' = bOk
      /\ \/ AllDone /\ mem' = P!Combined(partial) /\ slips' = slips
         \/ /\ AllDone /\ P!Slip("share", {})
            /\ \E t \in P!Threads : partial[t] > 0 /\ mem' = P!Combined([partial EXCEPT ![t] = 0])
         \/ todo # {} /\ mem' = P!Combined(partial) /\ P!Slip("early", todo)
  BY DEF P!Join, AllDone
<1>2. mem \in MemTypes /\ mem.total \in Nat  BY <1>1, MemUpdates DEF TeamInv
<1>3. partial \in [P!Threads -> Nat] /\ partial[1] \in Nat /\ partial[2] \in Nat
  BY ThreadsAre DEF ThreadsInv, P!TypeOK
<1>4. ASSUME NEW n \in Nat
      PROVE  LET new == [mem EXCEPT !.total = n]
             IN  /\ new.visits = mem.visits /\ new.assigned = mem.assigned /\ new.guarded = mem.guarded
                 /\ new.atomic = mem.atomic /\ new.failed = mem.failed /\ new.single = mem.single
                 /\ new.total = n
  BY <1>2 DEF MemTypes
<1>5. /\ P!Combined(partial) = [mem EXCEPT !.total = all] /\ all \in Nat
  BY <1>2, <1>3 DEF P!Combined
<1>6. ASSUME NEW t \in P!Threads
      PROVE  \E n \in Nat : P!Combined([partial EXCEPT ![t] = 0]) = [mem EXCEPT !.total = n] /\ n + partial[t] = all
  <2> DEFINE shares == [partial EXCEPT ![t] = 0]
  <2>1. shares[1] \in Nat /\ shares[2] \in Nat /\ shares[1] + shares[2] + partial[t] = partial[1] + partial[2]
    BY <1>3, ThreadsAre
  <2>2. P!Combined(shares) = [mem EXCEPT !.total = mem.total + shares[1] + shares[2]]
    BY DEF P!Combined
  <2> HIDE DEF shares
  <2>3. (mem.total + shares[1] + shares[2]) + partial[t] = all /\ mem.total + shares[1] + shares[2] \in Nat
    BY <1>2, <1>3, <2>1, ThreadsAre
  <2> QED BY <2>2, <2>3 DEF shares
<1> HIDE DEF all
<1>7. CASE AllDone /\ mem' = P!Combined(partial) /\ slips' = slips
  BY <1>1, <1>4, <1>5, <1>7 DEF all
<1>8. CASE todo # {} /\ mem' = P!Combined(partial) /\ P!Slip("early", todo)
  BY <1>1, <1>4, <1>5, <1>8 DEF all
<1>9. ASSUME AllDone, P!Slip("share", {}),
             NEW t \in P!Threads, partial[t] > 0, mem' = P!Combined([partial EXCEPT ![t] = 0])
      PROVE  /\ mem'.visits = mem.visits /\ mem'.assigned = mem.assigned /\ mem'.guarded = mem.guarded
             /\ mem'.atomic = mem.atomic /\ mem'.failed = mem.failed /\ mem'.single = mem.single
             /\ mem'.total \in Nat /\ mem'.total + partial[t] = all
  <2>1. PICK n \in Nat : mem' = [mem EXCEPT !.total = n] /\ n + partial[t] = all  BY <1>6, <1>9
  <2> QED BY <1>4, <2>1
<1>10. CASE /\ AllDone /\ P!Slip("share", {})
            /\ \E t \in P!Threads : partial[t] > 0 /\ mem' = P!Combined([partial EXCEPT ![t] = 0])
  BY <1>1, <1>5, <1>9, <1>10 DEF all
<1> QED BY <1>1, <1>7, <1>8, <1>10 DEF all

LEMMA JoinWays ==
  ASSUME ThreadsInv, TeamInv, WorkInv, P!Join, Watched'
  PROVE  /\ SortLaw /\ RunLaw /\ SortLaw' /\ (Waited \/ ShareLost \/ TooEarly)
<1>1. /\ stage = "run" /\ list' = list /\ index' = index /\ sorted' = sorted
      /\ noticed' = noticed /\ bOk' = bOk
      /\ \/ AllDone /\ mem'.total = mem.total + partial[1] + partial[2] /\ slips' = slips
         \/ /\ AllDone /\ P!Slip("share", {})
            /\ \E t \in P!Threads : partial[t] > 0 /\ mem'.total + partial[t] = mem.total + partial[1] + partial[2]
         \/ todo # {} /\ mem'.total = mem.total + partial[1] + partial[2] /\ P!Slip("early", todo)
  BY JoinMoves
<1>2. CASE AllDone /\ mem'.total = mem.total + partial[1] + partial[2] /\ slips' = slips
  <2>1. Watched  BY <1>1, <1>2, SlipsKept
  <2>2. slips = {} \/ \E s \in slips : slips = {s} /\ ~Invisible(s)  BY <2>1, WatchedIs
  <2>3. SortLaw /\ RunLaw  BY <1>1, <2>1 DEF WorkInv
  <2> QED BY <1>1, <1>2, <2>2, <2>3, SortLawKept DEF Waited
<1>3. ASSUME NEW ill, NEW spoiled, P!Slip(ill, spoiled), ill # "sort"
      PROVE  /\ SortLaw /\ RunLaw /\ SortLaw'
             /\ slips = {} /\ slips' = {NewSlip(ill, spoiled)} /\ ~Invisible(NewSlip(ill, spoiled))
  <2>1. Watched /\ slips = {} /\ slips' = {NewSlip(ill, spoiled)} /\ ~Invisible(NewSlip(ill, spoiled))
    BY <1>1, <1>3, SlipHappens
  <2>2. SortLaw /\ RunLaw  BY <1>1, <2>1 DEF WorkInv
  <2> QED BY <1>1, <1>3, <2>1, <2>2, SortLawKept
<1>4. CASE /\ AllDone /\ P!Slip("share", {})
           /\ \E t \in P!Threads : partial[t] > 0 /\ mem'.total + partial[t] = mem.total + partial[1] + partial[2]
  BY <1>3, <1>4 DEF ShareLost
<1>5. CASE todo # {} /\ mem'.total = mem.total + partial[1] + partial[2] /\ P!Slip("early", todo)
  BY <1>3, <1>5 DEF TooEarly
<1> QED BY <1>1, <1>2, <1>4, <1>5

\* What the checks of the loops ask for.
LEMMA VerdictIs ==
  ASSUME ThreadsInv, stage # "idle", list' = list, index' = index
  PROVE  LET name == P!Now.name
             visited == \A i \in P!FromZero : mem'.visits[i] = 1
             summed == mem'.total = SumOf(Counting, P!Items)
         IN  /\ Task = "visitAndReduce" /\ name # "simd" => (P!Verdict' <=> visited /\ summed)
             /\ name = "simd" => (P!Verdict' <=> summed /\ mem'.visits[Elements - 1] = 1)
             /\ Task = "visit" /\ name \notin {"concurrent-vector", "concurrent-queue"} => (P!Verdict' <=> visited)
             /\ name \in {"concurrent-vector", "concurrent-queue"} => (P!Verdict' <=> P!AsSorted')
             /\ Task = "assign" => (P!Verdict' <=> mem'.assigned = P!FromZero)
             /\ Task \in {"add", "reduce", "count"} => (P!Verdict' <=> summed)
             /\ Task = "lock" => (P!Verdict' <=> mem'.guarded = SumOf(Counting, P!Items))
             /\ Task = "sort" => (P!Verdict' <=> sorted'.ordered /\ P!FrontAndBack')
             /\ Task \in {"throw", "identity"} => (P!Verdict' <=> mem'.total = 1)
             /\ Task \in {"threads", "one"} => (P!Verdict' <=> mem'.total >= 2)
             /\ Task = "scope" => (P!Verdict' <=> mem'.failed = 0 /\ mem'.total >= 2)
             /\ Task = "synchronization" =>
                  (P!Verdict' <=> /\ mem'.failed = 0 /\ mem'.single = 1
                                  /\ mem'.guarded = mem'.atomic /\ mem'.atomic >= 2 * Rounds)
<1>1. P!Verdict' <=> IF P!Tbb THEN P!TbbVerdict(P!Now.name)' ELSE P!OpenMpVerdict(P!Now.name)'
  BY DutySame DEF P!Verdict
<1>2. P!Visited' <=> \A i \in P!FromZero : mem'.visits[i] = 1  BY DEF P!Visited, P!FromZero
<1>3. P!Now' = P!Now  BY DutySame
<1>4. CASE P!Tbb
  <2>1. P!Verdict' <=>
          LET name == P!Now.name
          IN  /\ name \in {"parallel-reduce", "flow-graph"} => mem'.total = P!Expected(Elements + 1)
              /\ name = "parallel-for" => P!Visited'
              /\ name = "parallel-sort" => sorted'.ordered /\ P!FrontAndBack'
              /\ name \in {"parallel-scan", "concurrent-hash-map"} => mem'.assigned = P!FromZero
              /\ name \in {"task-arena", "task-group"} => mem'.total = Elements
              /\ name \in {"concurrent-vector", "concurrent-queue"} => P!AsSorted'
              /\ name = "spin-mutex" => mem'.guarded = Elements
              /\ name = "parallel-pipeline" => mem'.total = P!Expected(Elements)
              /\ name = "exception-propagation" => mem'.total = 1
    BY <1>1, <1>3, <1>4 DEF P!TbbVerdict, P!FromZero, P!Expected
  <2>2. Counting <=> Task \in {"count", "lock"}  BY DEF Counting
  <2> DEFINE name == P!Now.name
  <2>3. \/ Task = "reduce" /\ name = "parallel-reduce" /\ P!Items = P!FromOne
        \/ Task = "add" /\ name = "flow-graph" /\ P!Items = P!FromOne
        \/ Task = "visit" /\ name \in {"parallel-for", "concurrent-vector", "concurrent-queue"}
        \/ Task = "assign" /\ name \in {"parallel-scan", "concurrent-hash-map"}
        \/ Task = "count" /\ name \in {"task-arena", "task-group"} /\ P!Items = P!FromZero
        \/ Task = "add" /\ name = "parallel-pipeline" /\ P!Items = P!FromZero
        \/ Task = "lock" /\ name = "spin-mutex" /\ P!Items = P!FromZero
        \/ Task = "sort" /\ name = "parallel-sort"
        \/ Task = "throw" /\ name = "exception-propagation"
    BY <1>4, TaskIs
  <2>4. CASE Task \in {"reduce", "add", "count", "lock"}
    <3>1. ~Counting => SumOf(Counting, P!Items) = SumOf(FALSE, P!Items)  BY DEF SumOf
    <3>2. Counting => SumOf(Counting, P!Items) = SumOf(TRUE, P!Items)  BY DEF SumOf
    <3>3. CASE Task \in {"reduce", "add"}
      <4>1. ~Counting  BY <2>2, <3>3
      <4> QED BY <2>1, <2>3, <3>1, <3>3, <4>1, SumOfAll
    <3>4. CASE Task \in {"count", "lock"}
      <4>1. Counting  BY <2>2, <3>4
      <4> QED BY <2>1, <2>3, <3>2, <3>4, <4>1, SumOfAll
    <3> QED BY <2>4, <3>3, <3>4
  <2>5. CASE Task \in {"visit", "assign", "sort", "throw"}  BY <1>2, <2>1, <2>3, <2>5
  <2> QED BY <2>3, <2>4, <2>5
<1>5. CASE ~P!Tbb
  <2>1. P!Verdict' <=>
          LET name == P!Now.name
          IN  /\ name \in P!Schedules => P!Visited' /\ mem'.total = P!Expected(Elements)
              /\ name = "tasks-taskgroup" => P!Visited'
              /\ name = "synchronization" => /\ mem'.failed = 0 /\ mem'.single = 1
                                             /\ mem'.guarded = mem'.atomic /\ mem'.atomic >= 2 * Rounds
              /\ name \in {"parallel-region", "repeated-regions"} => mem'.total >= 2
              /\ name = "data-sharing" => mem'.failed = 0 /\ mem'.total >= 2
              /\ name = "simd" => mem'.total = P!Expected(Elements) /\ mem'.visits[Elements - 1] = 1
              /\ name = "runtime-dll" => mem'.total = 1
    BY <1>1, <1>3, <1>5 DEF P!OpenMpVerdict, P!Expected, P!Schedules
  <2>2. Counting <=> Task \in {"count", "lock"}  BY DEF Counting
  <2> DEFINE name == P!Now.name
  <2>3. \/ Task = "visitAndReduce" /\ name \in P!Schedules \cup {"simd"} /\ P!Items = P!FromZero
        \/ Task = "visit" /\ name = "tasks-taskgroup"
        \/ Task = "threads" /\ name = "parallel-region"
        \/ Task = "one" /\ name = "repeated-regions"
        \/ Task = "identity" /\ name = "runtime-dll"
        \/ Task = "scope" /\ name = "data-sharing"
        \/ Task = "synchronization" /\ name = Task
    BY <1>5, TaskIs
  <2>4. CASE Task = "visitAndReduce"
    <3>1. ~Counting => SumOf(Counting, P!Items) = SumOf(FALSE, P!Items)  BY DEF SumOf
    <3>2. SumOf(Counting, P!Items) = P!Expected(Elements) /\ name \in P!Schedules \cup {"simd"}
      BY <2>2, <2>3, <2>4, <3>1, SumOfAll
    <3> QED BY <1>2, <2>1, <2>4, <3>2 DEF P!Schedules
  <2>5. CASE Task # "visitAndReduce"  BY <1>2, <2>1, <2>3, <2>5 DEF P!Schedules
  <2> QED BY <2>4, <2>5
<1> QED BY <1>4, <1>5

(* The verdicts on the loops. *)

LEMMA LoopSlip ==
  ASSUME ThreadsInv, stage # "idle", P!IsLoop, SlipLaw, NEW s, slips = {s}, ~Invisible(s), s.kind # "sort"
  PROVE  \E i \in P!Items :
           /\ s.elements = {i} /\ s.kind \in {"again", "lost", "dropped"} /\ s.check = P!Now.name
           /\ s.kind = "dropped" => Task \notin {"reduce", "lock"}
           /\ \A kinds : Hit(kinds) <=> s.kind \in kinds
           /\ \A j, kinds : Struck(j, kinds) <=> s.kind \in kinds /\ i = j
<1>1. s.check = P!Now.name  BY DEF SlipLaw
<1>2. s.kind # "team"
  <2>1. SUFFICES ASSUME s.kind = "team" PROVE FALSE  OBVIOUS
  <2>2. ~P!Tbb /\ ~P!Alone  BY <2>1 DEF SlipLaw
  <2>3. P!Now.name \in P!Schedules \cup {"simd", "tasks-taskgroup"}  BY <2>2, TaskIs
  <2>4. P!Now.name # "simd"  BY <2>2 DEF P!Alone
  <2> QED BY <1>1, <2>1, <2>3, <2>4 DEF Invisible
<1>3. Task \notin {"scope", "synchronization"}  BY TaskForms
<1>4. /\ s.kind \in {"again", "lost", "dropped"} /\ \E i \in P!Items : s.elements = {i}
      /\ s.kind = "dropped" => Task \notin {"reduce", "lock"}
  BY <1>2, <1>3 DEF SlipLaw
<1>5. PICK i \in P!Items : s.elements = {i}  BY <1>4
<1> QED BY <1>1, <1>4, <1>5 DEF Hit, Struck

\* The sums that the checks compare.
LEMMA SumEnds ==
  ASSUME ThreadsInv, TeamInv, stage = "run", TotalLaw, P!IsLoop, Task \notin {"visit", "assign"}
  PROVE  LET all == SumOf(Counting, P!Items)
         IN  /\ all \in Nat /\ Made \in Nat
             /\ AllDone =>
                  \E more, less \in 0..Elements :
                    /\ Weighs({"again"}, more) /\ Weighs(Losses, less) /\ Made + less = all + more
             /\ slips = {} => \A i \in todo : Weight(Counting, i) # 0 => Made < all
<1> DEFINE all == SumOf(Counting, P!Items)
<1>1. all \in Nat /\ Made \in Nat /\ Load(1) \in Nat /\ Load(2) \in Nat
  BY ItemsOf, SumIsNat, WeightIs, LoadsAre
<1>2. PICK more, less \in 0..Elements :
        /\ Weighs({"again"}, more) /\ Weighs(Losses, less) /\ Accounted + less = all + more
  BY DEF TotalLaw
<1>3. AllDone => Accounted = Made  BY DoneLoop
<1>4. ASSUME slips = {}, NEW i \in todo, Weight(Counting, i) # 0 PROVE Made < all
  <2>1. more = 0 /\ less = 0  BY <1>2, <1>4 DEF Weighs, Hit
  <2>2. todo \in SUBSET (0..Elements)  BY DEF ThreadsInv, P!TypeOK
  <2>3. /\ SumOf(Counting, todo) = SumOf(Counting, todo \ {i}) + Weight(Counting, i)
        /\ SumOf(Counting, todo) \in Nat /\ SumOf(Counting, todo \ {i}) \in Nat
    BY <1>4, <2>2, SumWithout, WeightIs
  <2>4. Weight(Counting, i) \in Nat  BY <1>4, <2>2, WeightIs, ParallelChecksAssumption
  <2>5. Made + Load(1) + Load(2) + SumOf(Counting, todo) = all
    <3> HIDE DEF all
    <3> QED BY <1>1, <1>2, <2>1, <2>3 DEF Accounted
  <2>6. PICK n, rest, whole \in Nat :
          n = Weight(Counting, i) /\ rest = SumOf(Counting, todo \ {i}) /\ whole = SumOf(Counting, todo)
    BY <2>3, <2>4
  <2>7. whole = rest + n /\ n # 0 /\ Made + Load(1) + Load(2) + whole = all
    BY <1>4, <2>3, <2>5, <2>6
  <2> HIDE DEF all
  <2> QED BY <1>1, <2>7
<1> HIDE DEF all
<1> QED BY <1>1, <1>2, <1>3, <1>4 DEF all

\* A sum is wrong after all slips but those that weigh nothing.
LEMMA SumJudged ==
  ASSUME ThreadsInv, TeamInv, stage = "run", TotalLaw, PartialLaw, P!IsLoop,
         Task \notin {"visit", "assign"}, mem'.guarded = mem.guarded, mem'.total \in Nat
  PROVE  LET sum == IF Task = "lock" THEN mem'.guarded ELSE mem'.total
             all == SumOf(Counting, P!Items)
         IN  /\ Waited /\ ~Hit(Losses) /\ ~Hit({"again"}) => sum = all
             /\ \A s, i : /\ Waited /\ slips = {s} /\ s.elements = {i} /\ i \in P!Items
                          /\ s.kind \in Losses \cup {"again"} /\ Weight(Counting, i) # 0
                          => sum # all
             /\ ShareLost => sum # all
             /\ TooEarly => \A i \in todo : Weight(Counting, i) # 0 => sum # all
<1> DEFINE sum == IF Task = "lock" THEN mem'.guarded ELSE mem'.total
           all == SumOf(Counting, P!Items)
<1>1. /\ all \in Nat /\ Made \in Nat
      /\ AllDone =>
           \E more, less \in 0..Elements :
             /\ Weighs({"again"}, more) /\ Weighs(Losses, less) /\ Made + less = all + more
      /\ slips = {} => \A i \in todo : Weight(Counting, i) # 0 => Made < all
  BY SumEnds
<1>2. Waited \/ TooEarly => sum = Made  BY DEF Waited, TooEarly, Made
<1> HIDE DEF all, sum
<1>3. ASSUME Waited, ~Hit(Losses), ~Hit({"again"}) PROVE sum = all
  <2>1. PICK more, less \in 0..Elements :
             /\ Weighs({"again"}, more) /\ Weighs(Losses, less) /\ Made + less = all + more
    BY <1>1, <1>3 DEF Waited
  <2>2. more = 0 /\ less = 0  BY <1>3, <2>1 DEF Weighs
  <2> QED BY <1>1, <1>2, <1>3, <2>1, <2>2
<1>4. ASSUME NEW s, NEW i \in P!Items, Waited, slips = {s}, s.elements = {i},
             s.kind \in Losses \cup {"again"}, Weight(Counting, i) # 0
      PROVE  sum # all
  <2>1. PICK more, less \in 0..Elements :
             /\ Weighs({"again"}, more) /\ Weighs(Losses, less) /\ Made + less = all + more
    BY <1>1, <1>4 DEF Waited
  <2>2. Weight(Counting, i) \in Nat /\ "again" \notin Losses
    BY ItemsOf, WeightIs, ParallelChecksAssumption DEF Losses
  <2>3. \A j, kinds : Struck(j, kinds) => j = i  BY <1>4 DEF Struck
  <2>4. \/ more = Weight(Counting, i) /\ less = 0
        \/ less = Weight(Counting, i) /\ more = 0
    <3>1. CASE s.kind = "again"
      <4>1. Hit({"again"}) /\ ~Hit(Losses)  BY <1>4, <2>2, <3>1 DEF Hit
      <4> QED BY <2>1, <2>3, <4>1 DEF Weighs
    <3>2. CASE s.kind \in Losses
      <4>1. Hit(Losses) /\ ~Hit({"again"})  BY <1>4, <2>2, <3>2 DEF Hit
      <4> QED BY <2>1, <2>3, <4>1 DEF Weighs
    <3> QED BY <1>4, <3>1, <3>2
  <2> QED BY <1>1, <1>2, <1>4, <2>1, <2>2, <2>4
<1>5. ASSUME ShareLost PROVE sum # all
  <2>1. PICK t \in P!Threads : partial[t] > 0 /\ mem'.total + partial[t] = mem.total + partial[1] + partial[2]
    BY <1>5 DEF ShareLost
  <2>2. Task # "lock"  BY <2>1, ThreadsAre DEF PartialLaw
  <2>3. PICK more, less \in 0..Elements :
             /\ Weighs({"again"}, more) /\ Weighs(Losses, less) /\ Made + less = all + more
    BY <1>1, <1>5 DEF ShareLost
  <2>4. more = 0 /\ less = 0  BY <1>5, <2>3 DEF Weighs, Hit, ShareLost
  <2>5. sum + partial[t] = Made /\ sum \in Nat /\ partial[t] \in Nat
    BY <2>1, <2>2, LoadsAre, ThreadsAre DEF sum, Made
  <2> QED BY <1>1, <2>1, <2>3, <2>4, <2>5
<1>6. ASSUME TooEarly, NEW i \in todo, Weight(Counting, i) # 0 PROVE sum # all
  <2>1. Made < all  BY <1>1, <1>6 DEF TooEarly
  <2> QED BY <1>1, <1>2, <1>6, <2>1
<1> QED BY <1>3, <1>4, <1>5, <1>6 DEF all, sum

\* An element that has not been visited once is seen.
LEMMA VisitsJudged ==
  ASSUME ThreadsInv, TeamInv, stage = "run", VisitLaw, Task \in {"visit", "visitAndReduce"},
         mem'.visits = mem.visits
  PROVE  \A i \in P!Items :
           /\ Waited /\ ~Hit({"again", "lost", "dropped"}) => mem'.visits[i] = 1
           /\ \A s : /\ Waited /\ slips = {s} /\ s.elements = {i} /\ s.kind \in {"again", "lost", "dropped"}
                     => mem'.visits[i] # 1
           /\ TooEarly /\ i \in todo => mem'.visits[i] # 1
<1> SUFFICES ASSUME NEW i \in P!Items
             PROVE  /\ Waited /\ ~Hit({"again", "lost", "dropped"}) => mem'.visits[i] = 1
                    /\ \A s : /\ Waited /\ slips = {s} /\ s.elements = {i}
                              /\ s.kind \in {"again", "lost", "dropped"}
                              => mem'.visits[i] # 1
                    /\ TooEarly /\ i \in todo => mem'.visits[i] # 1
  OBVIOUS
<1>1. mem.visits[i] + Pending(i) + OneIf(Struck(i, {"lost", "dropped"})) = 1 + OneIf(Struck(i, {"again"}))
  BY DEF VisitLaw
<1>2. mem.visits[i] \in Nat  BY ItemsOf, MemUpdates DEF TeamInv
<1>3. P!IsLoop  BY TaskForms
<1>4. Waited => Pending(i) = 0  BY <1>3, DoneLoop DEF Waited
<1>5. ASSUME Waited, ~Hit({"again", "lost", "dropped"}) PROVE mem'.visits[i] = 1
  <2>1. ~Struck(i, {"lost", "dropped"}) /\ ~Struck(i, {"again"})  BY <1>5 DEF Hit, Struck
  <2> QED BY <1>1, <1>2, <1>4, <1>5, <2>1 DEF OneIf
<1>6. ASSUME NEW s, Waited, slips = {s}, s.elements = {i}, s.kind \in {"again", "lost", "dropped"}
      PROVE  mem'.visits[i] # 1
  <2>1. \/ Struck(i, {"lost", "dropped"}) /\ ~Struck(i, {"again"})
        \/ ~Struck(i, {"lost", "dropped"}) /\ Struck(i, {"again"})
    BY <1>6 DEF Struck
  <2> QED BY <1>1, <1>2, <1>4, <1>6, <2>1 DEF OneIf
<1>7. ASSUME TooEarly, i \in todo PROVE mem'.visits[i] # 1
  <2>1. ~Struck(i, {"lost", "dropped"}) /\ ~Struck(i, {"again"})  BY <1>7 DEF Struck, TooEarly
  <2>2. InHand(1, i) \in Nat /\ InHand(2, i) \in Nat /\ OneIf(i \in todo) = 1
    BY <1>7 DEF InHand, OneIf
  <2> QED BY <1>1, <1>2, <2>1, <2>2 DEF OneIf, Pending
<1> QED BY <1>5, <1>6, <1>7

(* The verdicts. *)

\* What a check has to say, the five ways in which its work ends.
LEMMA Judged ==
  ASSUME ThreadsInv, TeamInv, WorkInv, P!Join, Watched',
         Waited /\ slips = {} => P!Verdict',
         \A s : Waited /\ slips = {s} /\ ~Invisible(s) /\ s.kind # "sort" => ~P!Verdict',
         \A s : Waited /\ slips = {s} /\ s.kind = "sort" /\ P!Now.name = "concurrent-vector" => ~P!Verdict',
         ShareLost \/ TooEarly => ~P!Verdict'
  PROVE  CheckLaw'
<1>1. P!Now' = P!Now  BY JoinMoves, DutySame
<1>2. CASE Waited
  <2>1. slips' = slips  BY <1>2 DEF Waited
  <2>2. CASE slips = {}  BY <1>2, <2>1, <2>2 DEF CheckLaw, Hit
  <2>3. ASSUME NEW s \in slips, slips = {s}, ~Invisible(s) PROVE CheckLaw'
    BY <1>1, <1>2, <2>1, <2>3 DEF CheckLaw, Hit
  <2> QED BY <1>2, <2>2, <2>3 DEF Waited
<1>3. CASE ShareLost \/ TooEarly
  <2>1. slips' # {} /\ \A s \in slips' : s.kind # "sort"
    <3>1. slips' = {NewSlip("share", {})} \/ slips' = {NewSlip("early", todo)}
      BY <1>3 DEF ShareLost, TooEarly
    <3>2. NewSlip("share", {}).kind = "share" /\ NewSlip("early", todo).kind = "early"
      BY DEF NewSlip
    <3> QED BY <3>1, <3>2
  <2>2. ~P!Verdict'  BY <1>3
  <2> QED BY <2>1, <2>2 DEF CheckLaw, Hit
<1> QED BY <1>2, <1>3, JoinWays

LEMMA VisitChecked ==
  ASSUME ThreadsInv, TeamInv, WorkInv, P!Join, Watched', Task = "visit"
  PROVE  CheckLaw'
<1> DEFINE visited == \A i \in P!FromZero : mem'.visits[i] = 1
<1>1. /\ stage = "run" /\ list' = list /\ index' = index /\ sorted' = sorted /\ mem'.visits = mem.visits
  BY JoinMoves
<1>2. SortLaw /\ SlipLaw /\ VisitLaw /\ PartialLaw  BY JoinWays DEF RunLaw
<1>3. /\ P!IsLoop /\ P!Items = P!FromZero
      /\ P!Now.name \in {"tasks-taskgroup", "parallel-for", "concurrent-vector", "concurrent-queue"}
  BY <1>1, TaskIs
<1>4. P!Verdict' <=> IF P!Now.name \in {"concurrent-vector", "concurrent-queue"} THEN P!AsSorted' ELSE visited
  BY <1>1, VerdictIs
<1>5. P!AsSorted' <=> sorted.ordered /\ \A i \in P!FromZero : mem'.visits[i] = sorted.times[i]
  BY <1>1 DEF P!AsSorted, P!FromZero
<1>6. ~Hit({"sort"}) => (P!AsSorted' <=> visited)  BY <1>2, <1>5 DEF SortLaw, AtFirst
<1>7. \A i \in P!Items :
           /\ Waited /\ ~Hit({"again", "lost", "dropped"}) => mem'.visits[i] = 1
           /\ \A s : /\ Waited /\ slips = {s} /\ s.elements = {i} /\ s.kind \in {"again", "lost", "dropped"}
                     => mem'.visits[i] # 1
           /\ TooEarly /\ i \in todo => mem'.visits[i] # 1
  BY <1>1, <1>2, VisitsJudged
<1>8. ASSUME Waited, slips = {} PROVE P!Verdict'
  <2>1. ~Hit({"again", "lost", "dropped"}) /\ ~Hit({"sort"})  BY <1>8 DEF Hit
  <2> QED BY <1>3, <1>4, <1>6, <1>7, <1>8, <2>1
<1>9. ASSUME NEW s, Waited, slips = {s}, ~Invisible(s), s.kind # "sort" PROVE ~P!Verdict'
  <2>1. PICK i \in P!Items : s.elements = {i} /\ s.kind \in {"again", "lost", "dropped"}
    BY <1>1, <1>2, <1>3, <1>9, LoopSlip
  <2>2. ~Hit({"sort"})  BY <1>9 DEF Hit
  <2> QED BY <1>3, <1>4, <1>6, <1>7, <1>9, <2>1, <2>2
<1>10. ASSUME NEW s, Waited, slips = {s}, s.kind = "sort", P!Now.name = "concurrent-vector" PROVE ~P!Verdict'
  <2>1. ~Hit({"again", "lost", "dropped"}) /\ Hit({"sort"})  BY <1>10 DEF Hit
  <2>2. visited  BY <1>3, <1>7, <1>10, <2>1
  <2>3. ~sorted.ordered \/ \E i \in P!FromZero : sorted.times[i] # 1  BY <1>2, <2>1 DEF SortLaw
  <2> QED BY <1>4, <1>5, <1>10, <2>2, <2>3
<1>11. ~ShareLost  BY <1>2, ThreadsAre DEF ShareLost, PartialLaw
<1>12. ASSUME TooEarly PROVE ~P!Verdict'
  <2>1. PICK i \in todo : i \in P!Items  BY <1>1, <1>12 DEF TooEarly, TeamInv
  <2>2. ~Hit({"sort"})  BY <1>12 DEF Hit, TooEarly
  <2> QED BY <1>3, <1>4, <1>6, <1>7, <1>12, <2>1, <2>2
<1> QED BY <1>8, <1>9, <1>10, <1>11, <1>12, Judged

LEMMA AssignChecked ==
  ASSUME ThreadsInv, TeamInv, WorkInv, P!Join, Watched', Task = "assign"
  PROVE  CheckLaw'
<1>1. /\ stage = "run" /\ list' = list /\ index' = index /\ mem'.assigned = mem.assigned
  BY JoinMoves
<1>2. SlipLaw /\ AssignLaw /\ PartialLaw  BY JoinWays DEF RunLaw
<1>3. /\ P!IsLoop /\ P!Items = P!FromZero /\ P!Now.name \in {"parallel-scan", "concurrent-hash-map"}
  BY <1>1, TaskIs
<1>4. P!Verdict' <=> mem.assigned = P!Items  BY <1>1, <1>3, VerdictIs
<1>5. /\ mem.assigned \subseteq P!Items
      /\ \A i \in P!Items : OneIf(i \in mem.assigned) + Pending(i) + OneIf(Struck(i, {"lost", "dropped"})) = 1
  BY <1>2 DEF AssignLaw
<1>6. Waited => \A i : Pending(i) = 0  BY <1>1, <1>3, DoneLoop DEF Waited
<1>7. ASSUME Waited, slips = {} PROVE P!Verdict'
  <2>1. ASSUME NEW i \in P!Items PROVE i \in mem.assigned
    <3>1. ~Struck(i, {"lost", "dropped"})  BY <1>7 DEF Struck
    <3> QED BY <1>5, <1>6, <1>7, <3>1 DEF OneIf
  <2> QED BY <1>4, <1>5, <2>1
<1>8. ASSUME NEW s, Waited, slips = {s}, ~Invisible(s), s.kind # "sort" PROVE ~P!Verdict'
  <2>1. PICK i \in P!Items : /\ s.elements = {i} /\ s.kind \in {"again", "lost", "dropped"}
                             /\ s.check = P!Now.name
                             /\ \A j, kinds : Struck(j, kinds) <=> s.kind \in kinds /\ i = j
    BY <1>1, <1>2, <1>3, <1>8, LoopSlip
  <2>2. s.kind # "again"  BY <1>3, <1>8, <2>1 DEF Invisible
  <2>3. Struck(i, {"lost", "dropped"})  BY <2>1, <2>2
  <2>4. i \notin mem.assigned  BY <1>5, <1>6, <1>8, <2>3 DEF OneIf
  <2> QED BY <1>4, <2>4
<1>9. ~ShareLost  BY <1>2, ThreadsAre DEF ShareLost, PartialLaw
<1>10. ASSUME TooEarly PROVE ~P!Verdict'
  <2>1. PICK i \in todo : i \in P!Items  BY <1>1, <1>10 DEF TooEarly, TeamInv
  <2>2. InHand(1, i) \in Nat /\ InHand(2, i) \in Nat /\ OneIf(i \in todo) = 1
    BY DEF InHand, OneIf
  <2>3. OneIf(i \in mem.assigned) \in Nat /\ OneIf(Struck(i, {"lost", "dropped"})) \in Nat
    BY DEF OneIf
  <2>4. OneIf(i \in mem.assigned) = 0  BY <1>5, <2>1, <2>2, <2>3 DEF Pending
  <2>5. i \notin mem.assigned  BY <2>4 DEF OneIf
  <2> QED BY <1>4, <2>1, <2>5
<1> QED BY <1>3, <1>7, <1>8, <1>9, <1>10, Judged

\* Element 0 of a sum is the only one that weighs nothing.
LEMMA WeightOf ==
  \A i \in 0..Elements : Weight(Counting, i) = 0 => ~Counting /\ i = 0
BY DEF Weight

LEMMA SumChecked ==
  ASSUME ThreadsInv, TeamInv, WorkInv, P!Join, Watched', Task \in {"add", "reduce", "count", "lock"}
  PROVE  CheckLaw'
<1> DEFINE sum == IF Task = "lock" THEN mem'.guarded ELSE mem'.total
           all == SumOf(Counting, P!Items)
<1>1. /\ stage = "run" /\ list' = list /\ index' = index /\ mem'.guarded = mem.guarded /\ mem'.total \in Nat
  BY JoinMoves
<1>2. SlipLaw /\ TotalLaw /\ PartialLaw  BY JoinWays DEF RunLaw
<1>3. /\ P!IsLoop /\ P!Items \subseteq 0..Elements
      /\ P!Now.name # "concurrent-vector"
      /\ ~Counting /\ 0 \in P!Items => P!Now.name = "parallel-pipeline"
  <2>1. 0 \notin P!FromOne  BY ParallelChecksAssumption DEF P!FromOne
  <2>2. Counting <=> Task \in {"count", "lock"}  BY DEF Counting
  <2> QED BY <1>1, <2>1, <2>2, TaskIs, ItemsOf
<1>4. P!Verdict' <=> sum = all  BY <1>1, VerdictIs
<1>5. /\ Waited /\ ~Hit(Losses) /\ ~Hit({"again"}) => sum = all
      /\ \A s, i : /\ Waited /\ slips = {s} /\ s.elements = {i} /\ i \in P!Items
                   /\ s.kind \in Losses \cup {"again"} /\ Weight(Counting, i) # 0
                   => sum # all
      /\ ShareLost => sum # all
      /\ TooEarly => \A i \in todo : Weight(Counting, i) # 0 => sum # all
  BY <1>1, <1>2, <1>3, SumJudged
<1> HIDE DEF sum, all
<1>6. ASSUME Waited, slips = {} PROVE P!Verdict'  BY <1>4, <1>5, <1>6 DEF Hit
<1>7. ASSUME NEW s, Waited, slips = {s}, ~Invisible(s), s.kind # "sort" PROVE ~P!Verdict'
  <2>1. PICK i \in P!Items : /\ s.elements = {i} /\ s.kind \in {"again", "lost", "dropped"}
                             /\ s.check = P!Now.name
                             /\ s.kind = "dropped" => Task \notin {"reduce", "lock"}
    BY <1>1, <1>2, <1>3, <1>7, LoopSlip
  <2>2. s.kind \in Losses \cup {"again"}  BY <2>1 DEF Losses
  <2>3. Weight(Counting, i) # 0
    <3>1. SUFFICES ASSUME Weight(Counting, i) = 0 PROVE FALSE  OBVIOUS
    <3>2. s.elements = {0} /\ s.check = "parallel-pipeline"  BY <1>3, <2>1, <3>1, WeightOf
    <3> QED BY <1>7, <3>2 DEF Invisible
  <2> QED BY <1>4, <1>5, <1>7, <2>1, <2>2, <2>3
<1>8. ASSUME TooEarly PROVE ~P!Verdict'
  <2>1. todo # {} /\ ~Invisible(NewSlip("early", todo)) /\ todo \subseteq P!Items
    BY <1>1, <1>8 DEF TooEarly, TeamInv
  <2>2. \E i \in todo : Weight(Counting, i) # 0
    <3>1. SUFFICES ASSUME \A i \in todo : Weight(Counting, i) = 0 PROVE FALSE  OBVIOUS
    <3>2. todo = {0} /\ P!Now.name = "parallel-pipeline"  BY <1>3, <2>1, <3>1, WeightOf
    <3> QED BY <2>1, <3>2 DEF Invisible, NewSlip
  <2> QED BY <1>4, <1>5, <1>8, <2>2
<1> QED BY <1>3, <1>4, <1>5, <1>6, <1>7, <1>8, Judged

LEMMA ReductionChecked ==
  ASSUME ThreadsInv, TeamInv, WorkInv, P!Join, Watched', Task = "visitAndReduce"
  PROVE  CheckLaw'
<1> DEFINE all == SumOf(Counting, P!Items)
           visited == \A i \in P!FromZero : mem'.visits[i] = 1
<1>1. /\ stage = "run" /\ list' = list /\ index' = index /\ mem'.guarded = mem.guarded
      /\ mem'.visits = mem.visits /\ mem'.total \in Nat
  BY JoinMoves
<1>2. SlipLaw /\ VisitLaw /\ TotalLaw /\ PartialLaw  BY JoinWays DEF RunLaw
<1>3. /\ P!IsLoop /\ P!Items = P!FromZero /\ P!Items \subseteq 0..Elements /\ ~Counting
      /\ P!Now.name # "concurrent-vector"
      /\ P!Now.name \in P!Schedules \cup {"simd"}
      /\ Elements - 1 \in P!Items /\ Losses = {"lost"}
  <2>1. Elements - 1 \in P!FromZero  BY ParallelChecksAssumption DEF P!FromZero
  <2> QED BY <1>1, <2>1, TaskIs, ItemsOf DEF Counting, Losses, P!Schedules
<1>4. P!Verdict' <=> IF P!Now.name = "simd" THEN mem'.total = all /\ mem'.visits[Elements - 1] = 1
                     ELSE visited /\ mem'.total = all
  BY <1>1, VerdictIs
<1>5. /\ Waited /\ ~Hit(Losses) /\ ~Hit({"again"}) => mem'.total = all
      /\ \A s, i : /\ Waited /\ slips = {s} /\ s.elements = {i} /\ i \in P!Items
                   /\ s.kind \in Losses \cup {"again"} /\ Weight(Counting, i) # 0
                   => mem'.total # all
      /\ ShareLost => mem'.total # all
      /\ TooEarly => \A i \in todo : Weight(Counting, i) # 0 => mem'.total # all
  BY <1>1, <1>2, <1>3, SumJudged
<1>6. \A i \in P!Items :
           /\ Waited /\ ~Hit({"again", "lost", "dropped"}) => mem'.visits[i] = 1
           /\ \A s : /\ Waited /\ slips = {s} /\ s.elements = {i} /\ s.kind \in {"again", "lost", "dropped"}
                     => mem'.visits[i] # 1
           /\ TooEarly /\ i \in todo => mem'.visits[i] # 1
  BY <1>1, <1>2, VisitsJudged
<1> HIDE DEF all
<1>7. ASSUME Waited, slips = {} PROVE P!Verdict'
  <2>1. mem'.total = all /\ \A i \in P!Items : mem'.visits[i] = 1  BY <1>5, <1>6, <1>7 DEF Hit
  <2> QED BY <1>3, <1>4, <2>1
<1>8. ASSUME NEW s, Waited, slips = {s}, ~Invisible(s), s.kind # "sort" PROVE ~P!Verdict'
  <2>1. PICK i \in P!Items : /\ s.elements = {i} /\ s.kind \in {"again", "lost", "dropped"}
                             /\ s.check = P!Now.name
    BY <1>1, <1>2, <1>3, <1>8, LoopSlip
  <2>2. mem'.visits[i] # 1  BY <1>6, <1>8, <2>1
  <2>3. CASE P!Now.name # "simd"  BY <1>3, <1>4, <2>1, <2>2, <2>3
  <2>4. CASE P!Now.name = "simd" /\ s.kind = "dropped"
    <3>1. i = Elements - 1  BY <1>8, <2>1, <2>4 DEF Invisible
    <3> QED BY <1>4, <2>2, <2>4, <3>1
  <2>5. CASE P!Now.name = "simd" /\ s.kind \in {"again", "lost"}
    <3>1. i # 0  BY <1>8, <2>1, <2>5 DEF Invisible
    <3>2. Weight(Counting, i) # 0  BY <1>3, <3>1, WeightOf
    <3> QED BY <1>3, <1>4, <1>5, <1>8, <2>1, <2>5, <3>2
  <2> QED BY <2>1, <2>3, <2>4, <2>5
<1>9. ASSUME TooEarly PROVE ~P!Verdict'
  <2>1. todo # {} /\ ~Invisible(NewSlip("early", todo)) /\ todo \subseteq P!Items
    BY <1>1, <1>9 DEF TooEarly, TeamInv
  <2>2. CASE P!Now.name = "simd"
    <3>1. todo # {0}  BY <2>1, <2>2 DEF Invisible, NewSlip
    <3>2. PICK i \in todo : i # 0  BY <2>1, <3>1
    <3>3. Weight(Counting, i) # 0  BY <1>3, <2>1, <3>2, WeightOf
    <3> QED BY <1>4, <1>5, <1>9, <2>2, <3>3
  <2>3. CASE P!Now.name # "simd"  BY <1>3, <1>4, <1>6, <1>9, <2>1, <2>3
  <2> QED BY <2>2, <2>3
<1> QED BY <1>3, <1>4, <1>5, <1>7, <1>8, <1>9, Judged

(* The verdicts on the regions. *)

LEMMA RegionSlip ==
  ASSUME ThreadsInv, stage # "idle", ~P!IsLoop, SlipLaw, NEW s, slips = {s}, s.kind # "sort"
  PROVE  /\ \/ s.kind = "team" /\ team = 1 /\ ~P!Tbb /\ ~P!Alone
            \/ s.kind = "dropped" /\ Task \notin {"threads", "sort"}
            \/ s.kind = "scope" /\ Task = "scope"
            \/ s.kind = "single" /\ Task = "synchronization"
         /\ \A kinds : Hit(kinds) <=> s.kind \in kinds
<1>1. P!Items = {}  BY ItemsOf
<1> QED BY <1>1 DEF SlipLaw, Hit

\* Where the work of a region may end.
LEMMA RegionEnds ==
  ASSUME ThreadsInv, TeamInv, WorkInv, P!Join, Watched', ~P!IsLoop
  PROVE  /\ AllDone /\ ~TooEarly /\ team \in {1, 2} /\ (P!Alone => team = 1)
         /\ Through(1) = 1 /\ Through(1) + Through(2) = team
         /\ slips = {} => team = 2 \/ P!Alone \/ P!Tbb
<1>1. stage = "run" /\ SlipLaw /\ (Waited \/ ShareLost \/ TooEarly)
  BY JoinMoves, JoinWays DEF RunLaw
<1>2. todo = {}  BY <1>1, ItemsOf DEF TeamInv
<1>3. ~TooEarly /\ AllDone  BY <1>1, <1>2 DEF TooEarly, Waited, ShareLost
<1> QED BY <1>1, <1>3, DoneRegion DEF TeamInv, SlipLaw, Hit

LEMMA SortChecked ==
  ASSUME ThreadsInv, TeamInv, WorkInv, P!Join, Watched', Task = "sort"
  PROVE  CheckLaw'
<1>1. stage = "run" /\ list' = list /\ index' = index /\ sorted' = sorted  BY JoinMoves
<1>2. SortLaw /\ SlipLaw /\ PartialLaw  BY JoinWays DEF RunLaw
<1>3. ~P!IsLoop /\ P!Tbb /\ P!Now.name = "parallel-sort"  BY <1>1, TaskIs
<1>4. P!Verdict' <=> sorted.ordered /\ sorted.times[0] > 0 /\ sorted.times[Elements - 1] > 0
  BY <1>1, VerdictIs DEF P!FrontAndBack
<1>5. ASSUME slips = {} PROVE P!Verdict'
  <2>1. sorted = AtFirst  BY <1>2, <1>5 DEF SortLaw, Hit
  <2>2. 0 \in P!FromZero /\ Elements - 1 \in P!FromZero
    BY ParallelChecksAssumption DEF P!FromZero
  <2> QED BY <1>4, <2>1, <2>2 DEF AtFirst
<1>6. ASSUME NEW s, slips = {s}, s.kind # "sort" PROVE FALSE
  BY <1>1, <1>2, <1>3, <1>6, RegionSlip
<1>7. ~ShareLost  BY <1>2, ThreadsAre DEF ShareLost, PartialLaw
<1>8. ~TooEarly  BY <1>3, RegionEnds
<1> QED BY <1>3, <1>5, <1>6, <1>7, <1>8, Judged

LEMMA CountChecked ==
  ASSUME ThreadsInv, TeamInv, WorkInv, P!Join, Watched',
         Task \in {"one", "throw", "threads", "identity", "scope"}
  PROVE  CheckLaw'
<1> DEFINE all == mem.total + partial[1] + partial[2]
<1>1. /\ stage = "run" /\ list' = list /\ index' = index /\ mem'.failed = mem.failed
      /\ all \in Nat /\ mem'.total \in Nat
  BY JoinMoves
<1>2. SlipLaw /\ RegionLaw /\ PartialLaw  BY JoinWays DEF RunLaw
<1>3. /\ ~P!IsLoop /\ P!Now.name # "concurrent-vector"
      /\ Task = "throw" => P!Tbb /\ P!Now.name = "exception-propagation"
      /\ Task # "throw" => ~P!Tbb
      /\ Task = "identity" => P!Now.name = "runtime-dll"
      /\ Task = "one" => P!Now.name = "repeated-regions"
      /\ Task = "threads" => P!Now.name = "parallel-region"
      /\ Task = "scope" => P!Now.name = "data-sharing"
  BY <1>1, TaskIs
<1>4. P!Alone <=> Task \in {"throw", "identity"}  BY <1>3 DEF P!Alone
<1>5. /\ AllDone /\ ~TooEarly /\ team \in {1, 2} /\ (P!Alone => team = 1)
      /\ Through(1) = 1 /\ Through(1) + Through(2) = team
      /\ slips = {} => team = 2 \/ P!Alone \/ P!Tbb
  BY <1>3, RegionEnds
<1>6. P!Verdict' <=> /\ Task \in {"throw", "identity"} => mem'.total = 1
                     /\ Task \in {"threads", "one", "scope"} => mem'.total >= 2
                     /\ Task = "scope" => mem'.failed = 0
  BY <1>1, VerdictIs
<1>7. /\ Task # "threads" => all + OneIf(Hit({"dropped"})) = team
      /\ Task = "threads" => all = team
  <2>1. Task \notin {"one"} => partial[1] = 0 /\ partial[2] = 0  BY <1>2 DEF PartialLaw
  <2>2. mem.total \in Nat  BY <1>1, MemUpdates DEF TeamInv
  <2>3. CASE Task \in {"one", "throw", "scope"}  BY <1>2, <1>5, <2>3 DEF RegionLaw
  <2>4. CASE Task = "threads"  BY <1>2, <1>5, <2>1, <2>2, <2>4 DEF RegionLaw
  <2>5. CASE Task = "identity"  BY <1>2, <1>4, <1>5, <2>1, <2>2, <2>5 DEF RegionLaw
  <2> QED BY <2>3, <2>4, <2>5
<1>8. Task = "scope" => (mem.failed > 0 <=> Hit({"scope"})) /\ mem.failed \in Nat
  BY <1>1, <1>2, MemUpdates DEF RegionLaw, TeamInv
<1>9. Waited => mem'.total = all  BY DEF Waited
<1> HIDE DEF all
<1>10. ASSUME Waited, slips = {} PROVE P!Verdict'
  <2>1. ~Hit({"dropped"}) /\ ~Hit({"scope"})  BY <1>10 DEF Hit
  <2>2. all = team  BY <1>1, <1>5, <1>7, <2>1 DEF OneIf
  <2> QED BY <1>1, <1>3, <1>4, <1>5, <1>6, <1>8, <1>9, <1>10, <2>1, <2>2
<1>11. ASSUME NEW s, Waited, slips = {s}, s.kind # "sort" PROVE ~P!Verdict'
  <2>1. /\ \/ s.kind = "team" /\ team = 1 /\ ~P!Tbb /\ ~P!Alone
           \/ s.kind = "dropped" /\ Task # "threads"
           \/ s.kind = "scope" /\ Task = "scope"
        /\ \A kinds : Hit(kinds) <=> s.kind \in kinds
    BY <1>1, <1>2, <1>3, <1>11, RegionSlip
  <2>2. CASE s.kind = "team" /\ team = 1 /\ ~P!Tbb /\ ~P!Alone
    <3>1. ~Hit({"dropped"})  BY <2>1, <2>2
    <3>2. all = 1  BY <1>1, <1>5, <1>7, <2>2, <3>1 DEF OneIf
    <3> QED BY <1>4, <1>6, <1>9, <1>11, <2>2, <3>2
  <2>3. CASE s.kind = "dropped" /\ Task # "threads"
    <3>1. all + 1 = team  BY <1>7, <2>1, <2>3 DEF OneIf
    <3> QED BY <1>1, <1>4, <1>5, <1>6, <1>9, <1>11, <2>3, <3>1
  <2>4. CASE s.kind = "scope" /\ Task = "scope"
    <3>1. mem.failed > 0  BY <1>8, <2>1, <2>4
    <3> QED BY <1>1, <1>6, <2>4, <3>1
  <2> QED BY <2>1, <2>2, <2>3, <2>4
<1>12. ASSUME ShareLost PROVE ~P!Verdict'
  <2>1. PICK t \in P!Threads : partial[t] > 0 /\ mem'.total + partial[t] = all
    BY <1>12 DEF ShareLost, all
  <2>2. Task = "one"  BY <1>2, <2>1, ThreadsAre DEF PartialLaw
  <2>3. ~Hit({"dropped"})  BY <1>12 DEF ShareLost, Hit
  <2>4. all = team /\ partial[t] \in Nat
    BY <1>1, <1>5, <1>7, <2>2, <2>3, LoadsAre, ThreadsAre DEF OneIf
  <2> QED BY <1>1, <1>5, <1>6, <2>1, <2>2, <2>4
<1> QED BY <1>3, <1>5, <1>10, <1>11, <1>12, Judged

LEMMA SyncChecked ==
  ASSUME ThreadsInv, TeamInv, WorkInv, P!Join, Watched', Task = "synchronization"
  PROVE  CheckLaw'
<1> DEFINE n == Len(Duty)
<1>1. /\ stage = "run" /\ list' = list /\ index' = index /\ mem'.failed = mem.failed
      /\ mem'.single = mem.single /\ mem'.guarded = mem.guarded /\ mem'.atomic = mem.atomic
  BY JoinMoves
<1>2. SlipLaw /\ SyncLaw /\ PartialLaw  BY JoinWays DEF RunLaw
<1>3. ~P!IsLoop /\ ~P!Tbb /\ P!Now.name = "synchronization" /\ Synchronizes(P!Now) /\ n \in Nat /\ n > 4
  BY <1>1, TaskIs, SyncEnds
<1>4. ~P!Alone  BY <1>3 DEF P!Alone
<1>5. /\ AllDone /\ ~TooEarly /\ team \in {1, 2} /\ (slips = {} => team = 2)
      /\ \A t \in P!Threads : place[t] = n + 1
  BY <1>1, <1>3, <1>4, RegionEnds, DoneRegion
<1>6. P!Verdict' <=> /\ mem.failed = 0 /\ mem.single = 1
                     /\ mem.guarded = mem.atomic /\ mem.atomic >= 2 * Rounds
  BY <1>1, VerdictIs
<1>7. /\ mem.guarded \in Nat /\ mem.atomic \in Nat /\ mem.arrived \in Nat /\ mem.failed \in Nat /\ mem.single \in Nat
      /\ Rounds \in Nat /\ Rounds > 0
  BY <1>1, MemUpdates, ParallelChecksAssumption DEF TeamInv
<1>8. ASSUME NEW t \in P!Threads, NEW op \in {"store", "atomic"}
      PROVE  Share(t, op) = (IF t <= team THEN Rounds ELSE 0)
  <2>1. Past(t, op) = {k \in 1..n : Duty[k] = op}  BY <1>3, <1>5 DEF Past
  <2>2. Cardinality({k \in 1..n : Duty[k] = op}) = Rounds  BY <1>3 DEF Synchronizes, Duty
  <2> QED BY <2>1, <2>2 DEF Share
<1>9. /\ \A t \in P!Threads : t <= team => Passed(t, 0) /\ Passed(t, 1) /\ Passed(t, 3)
      /\ \A t \in P!Threads : ~(t <= team) => ~Passed(t, 3)
  BY <1>3, <1>5 DEF Passed
<1>10. PICK a, r \in {0, 1} :
         /\ a + r = OneIf(Hit({"dropped"}))
         /\ mem.atomic + a = Share(1, "atomic") + Share(2, "atomic")
         /\ mem.arrived + r = OneIf(Passed(1, 3)) + OneIf(Passed(2, 3))
  BY <1>2 DEF SyncLaw
<1>11. /\ mem.guarded = team * Rounds /\ mem.atomic + a = team * Rounds /\ mem.arrived + r = team
  <2>1. mem.guarded = Share(1, "store") + Share(2, "store")  BY <1>2 DEF SyncLaw
  <2>2. CASE team = 1
    <3>1. Passed(1, 3) /\ ~Passed(2, 3)  BY <1>9, <2>2, ThreadsAre
    <3>2. Share(1, "store") = Rounds /\ Share(2, "store") = 0 /\ Share(1, "atomic") = Rounds /\ Share(2, "atomic") = 0
      BY <1>8, <2>2, ThreadsAre
    <3> QED BY <1>7, <1>10, <2>1, <2>2, <3>1, <3>2 DEF OneIf
  <2>3. CASE team = 2
    <3>1. Passed(1, 3) /\ Passed(2, 3)  BY <1>9, <2>3, ThreadsAre
    <3>2. Share(1, "store") = Rounds /\ Share(2, "store") = Rounds /\ Share(1, "atomic") = Rounds /\ Share(2, "atomic") = Rounds
      BY <1>8, <2>3, ThreadsAre
    <3> QED BY <1>7, <1>10, <2>1, <2>3, <3>1, <3>2 DEF OneIf
  <2> QED BY <1>5, <2>2, <2>3
<1>12. /\ mem.arrived = team \/ mem.failed > 0
       /\ mem.failed > 0 => Hit({"dropped"})
       /\ mem.single > 0
       /\ IF Hit({"single"}) THEN mem.single = 2 ELSE mem.single <= 1
  <2>1. Passed(1, 0) /\ Passed(1, 1)  BY <1>5, <1>9, ThreadsAre
  <2> QED BY <1>2, <2>1, ThreadsAre DEF SyncLaw
<1> HIDE DEF n
<1>13. ASSUME slips = {} PROVE P!Verdict'
  <2>1. ~Hit({"dropped"}) /\ ~Hit({"single"}) /\ team = 2  BY <1>5, <1>13 DEF Hit
  <2>2. a = 0  BY <1>10, <2>1 DEF OneIf
  <2> QED BY <1>6, <1>7, <1>11, <1>12, <2>1, <2>2
<1>14. ASSUME NEW s, slips = {s}, s.kind # "sort" PROVE ~P!Verdict'
  <2>1. /\ \/ s.kind = "team" /\ team = 1
           \/ s.kind = "dropped"
           \/ s.kind = "single"
        /\ \A kinds : Hit(kinds) <=> s.kind \in kinds
    BY <1>1, <1>2, <1>3, <1>14, RegionSlip
  <2>2. CASE s.kind = "team" /\ team = 1  BY <1>6, <1>7, <1>11, <2>2
  <2>3. CASE s.kind = "dropped"
    <3>1. a + r = 1  BY <1>10, <2>1, <2>3 DEF OneIf
    <3>2. CASE a = 1  BY <1>6, <1>7, <1>11, <3>2
    <3>3. CASE r = 1  BY <1>6, <1>7, <1>11, <1>12, <3>3
    <3> QED BY <3>1, <3>2, <3>3
  <2>4. CASE s.kind = "single"  BY <1>6, <1>12, <2>1, <2>4
  <2> QED BY <2>1, <2>2, <2>3, <2>4
<1>15. ~ShareLost  BY <1>2, ThreadsAre DEF ShareLost, PartialLaw
<1> QED BY <1>3, <1>5, <1>13, <1>14, <1>15, Judged

LEMMA JoinWorks ==
  ASSUME ThreadsInv, TeamInv, WorkInv, P!Join
  PROVE  TeamInv' /\ WorkInv'
<1>1. stage = "run" /\ stage' = "check"  BY JoinMoves
<1>2. ASSUME Watched' PROVE SortLaw' /\ CheckLaw'
  <2>1. Task \in {"visit", "visitAndReduce", "assign", "add", "reduce", "count", "lock", "one", "throw",
                  "threads", "identity", "sort", "scope", "synchronization"}
    BY <1>1, TaskForms
  <2> QED
    BY <1>2, <2>1, JoinWays, VisitChecked, AssignChecked, SumChecked, ReductionChecked, SortChecked,
       CountChecked, SyncChecked
<1> QED BY <1>1, <1>2 DEF TeamInv, WorkInv

(* A check, and all steps together. *)

LEMMA CheckMoves ==
  ASSUME ThreadsInv, P!Check
  PROVE  /\ stage = "check" /\ list' = list /\ sorted' = sorted
         /\ index \in 1..Len(Lists[list]) /\ DOMAIN Lists[list] = 1..Len(Lists[list]) /\ Len(Lists[list]) \in Nat
         /\ \/ index < Len(Lists[list]) /\ index' = index + 1 /\ stage' = "start"
            \/ index = Len(Lists[list]) /\ index' = index /\ stage' = "ended"
         /\ P!Verdict => slips' = slips /\ noticed' = noticed /\ bOk' = bOk
         /\ ~P!Verdict => slips' = {} /\ (noticed' <=> noticed \/ slips # {})
<1>1. stage = "check" /\ list' = list /\ sorted' = sorted  BY DEF P!Check
<1>2. /\ index \in 1..Len(Lists[list]) /\ DOMAIN Lists[list] = 1..Len(Lists[list]) /\ Len(Lists[list]) \in Nat
  <2> DEFINE Checks == [name : Labels, loop : BOOLEAN, first : {0, 1}, body : Seq(Labels)]
  <2>1. list \in DOMAIN Lists /\ index \in DOMAIN Lists[list]  BY <1>1, ShapeOf
  <2>2. Lists[list] \in Seq(Checks)  BY <2>1, ListsAssumption
  <2> HIDE DEF Checks
  <2> QED BY <2>1, <2>2
<1>3. IF index < Len(Lists[list]) THEN index' = index + 1 /\ stage' = "start"
                                  ELSE index' = index /\ stage' = "ended"
  BY DEF P!Check
<1>4. P!Verdict => slips' = slips /\ noticed' = noticed /\ bOk' = bOk
  <2>1. bOk \in BOOLEAN /\ noticed \in BOOLEAN  BY DEF ThreadsInv, P!TypeOK
  <2>2. /\ bOk' = (P!Verdict /\ bOk)
        /\ noticed' = (noticed \/ (~P!Verdict /\ slips # {}))
        /\ P!Verdict => slips' = slips
    BY DEF P!Check
  <2>3. P!Verdict => (bOk' <=> bOk) /\ (noticed' <=> noticed)  BY <2>2, Zenon
  <2>4. bOk' \in BOOLEAN /\ noticed' \in BOOLEAN  BY <2>2, Zenon
  <2> QED BY <2>1, <2>2, <2>3, <2>4
<1>5. ~P!Verdict => slips' = {} /\ (noticed' <=> noticed \/ slips # {})
  <2>1. noticed' = (noticed \/ (~P!Verdict /\ slips # {}))  BY DEF P!Check
  <2>2. ~P!Verdict => slips' = {}  BY DEF P!Check
  <2> QED BY <2>1, <2>2, Zenon
<1> QED BY <1>1, <1>2, <1>3, <1>4, <1>5

LEMMA CheckWorks ==
  ASSUME ThreadsInv, WorkInv, P!Check
  PROVE  TeamInv' /\ WorkInv'
<1>1. /\ stage = "check" /\ list' = list /\ sorted' = sorted
      /\ index \in 1..Len(Lists[list]) /\ DOMAIN Lists[list] = 1..Len(Lists[list]) /\ Len(Lists[list]) \in Nat
      /\ \/ index < Len(Lists[list]) /\ index' = index + 1 /\ stage' = "start"
         \/ index = Len(Lists[list]) /\ index' = index /\ stage' = "ended"
      /\ P!Verdict => slips' = slips /\ noticed' = noticed /\ bOk' = bOk
      /\ ~P!Verdict => slips' = {} /\ (noticed' <=> noticed \/ slips # {})
  BY CheckMoves
<1>2. stage' \in {"start", "ended"}  BY <1>1
<1>3. ASSUME Watched'
      PROVE  /\ stage' # "ended" => SortLaw'
             /\ stage' = "start" => \A s \in slips' : s.kind = "sort"
             /\ stage' = "ended" => slips' = {}
  <2>1. P!Verdict
    <3>1. SUFFICES ASSUME ~P!Verdict PROVE FALSE  OBVIOUS
    <3>2. ~noticed'  BY <1>3 DEF Watched
    <3>3. slips = {} /\ ~noticed  BY <1>1, <3>1, <3>2
    <3>4. Watched  BY <3>3 DEF Watched
    <3> QED BY <1>1, <3>1, <3>3, <3>4 DEF WorkInv, CheckLaw
  <2>2. slips' = slips /\ noticed' = noticed /\ bOk' = bOk  BY <1>1, <2>1
  <2>3. SortLaw /\ CheckLaw  BY <1>1, <1>3, <2>2, SlipsKept DEF WorkInv
  <2>4. /\ \A s \in slips : s.kind = "sort"
        /\ Hit({"sort"}) => P!Now.name # "concurrent-vector"
    BY <2>1, <2>3 DEF CheckLaw
  <2>5. CASE Hit({"sort"})
    <3>1. /\ ~sorted.ordered \/ \E i \in P!FromZero : sorted.times[i] # 1
          /\ list = "oneTbb"
      BY <2>3, <2>5 DEF SortLaw
    <3>2. PICK m \in DOMAIN Lists[list] : m >= index /\ Lists[list][m].name = "concurrent-vector"
      BY <2>3, <2>5 DEF SortLaw
    <3>3. m # index  BY <2>4, <2>5, <3>2 DEF P!Now
    <3>4. index' = index + 1 /\ stage' = "start" /\ m >= index'  BY <1>1, <3>2, <3>3
    <3>5. Hit({"sort"})'  BY <2>2, <2>5 DEF Hit
    <3>6. /\ ~sorted'.ordered \/ \E i \in P!FromZero : sorted'.times[i] # 1
          /\ list' = "oneTbb"
          /\ \E k \in DOMAIN Lists[list'] : k >= index' /\ Lists[list'][k].name = "concurrent-vector"
      BY <1>1, <3>1, <3>2, <3>4
    <3>7. SortLaw'  BY <3>5, <3>6 DEF SortLaw, P!FromZero
    <3> QED BY <2>2, <2>4, <3>4, <3>7
  <2>6. CASE ~Hit({"sort"})
    <3>1. slips = {}  BY <2>4, <2>6 DEF Hit
    <3>2. sorted' = AtFirst /\ ~Hit({"sort"})'  BY <1>1, <2>2, <2>3, <2>6 DEF SortLaw, Hit
    <3>3. SortLaw'  BY <3>2 DEF SortLaw, AtFirst, P!FromZero
    <3> QED BY <2>2, <3>1, <3>3
  <2> QED BY <2>5, <2>6
<1> QED BY <1>2, <1>3 DEF TeamInv, WorkInv

\* What has been noticed, or nothing.
LEMMA SlipBlamed ==
  ASSUME BlameInv, NEW ill, NEW spoiled, P!Slip(ill, spoiled), noticed' = noticed
  PROVE  BlameInv'
<1>1. slips' = slips \cup {NewSlip(ill, spoiled)} /\ Cardinality(slips) < MaxSlips /\ ~noticed
  BY CardinalitySame DEF P!Slip, NewSlip, P!Now
<1>2. MaxSlips \in {0, 1} => slips = {}
  <2>1. ASSUME MaxSlips \in {0, 1}, NEW s \in slips, slips = {s} PROVE FALSE
    <3>1. Cardinality(slips) = 1  BY <2>1, FS_Singleton
    <3> QED BY <1>1, <2>1, <3>1
  <2> QED BY <2>1 DEF BlameInv
<1>3. NewSlip(ill, spoiled) \in slips' /\ slips' # {} /\ ~noticed'  BY <1>1
<1>4. MaxSlips \in {0, 1} => \E s \in slips' : slips' = {s}  BY <1>1, <1>2, <1>3
<1> QED BY <1>3, <1>4 DEF BlameInv

LEMMA SlipOrNot ==
  ASSUME BlameInv, bOk' = bOk, noticed' = noticed,
         slips' = slips \/ \E ill, spoiled : P!Slip(ill, spoiled)
  PROVE  BlameInv'
<1>1. CASE slips' = slips  BY <1>1 DEF BlameInv
<1>2. CASE \E ill, spoiled : P!Slip(ill, spoiled)  BY <1>2, SlipBlamed
<1> QED BY <1>1, <1>2

LEMMA BodySlipsOrNot ==
  ASSUME ThreadsInv, NEW t \in P!Threads, P!Body(t)
  PROVE  slips' = slips \/ \E ill, spoiled : P!Slip(ill, spoiled)
<1>1. ASSUME NEW new, P!Keep(t, new) PROVE slips' = slips \/ \E ill, spoiled : P!Slip(ill, spoiled)
  BY <1>1 DEF P!Keep
<1>2. CASE P!Visit(t)  BY <1>1, <1>2 DEF P!Visit
<1>3. CASE P!VisitAndReduce(t)  BY <1>1, <1>3 DEF P!VisitAndReduce
<1>4. CASE P!Assign(t)  BY <1>1, <1>4 DEF P!Assign
<1>5. CASE P!Count(t)  BY <1>1, <1>5 DEF P!Count
<1>6. CASE P!Add(t)  BY <1>1, <1>6 DEF P!Add
<1>7. CASE P!Atomic(t)  BY <1>1, <1>7 DEF P!Atomic
<1>8. CASE P!Arrive(t)  BY <1>1, <1>8 DEF P!Arrive
<1>9. CASE P!Identity(t)  BY <1>1, <1>9 DEF P!Identity
<1>10. CASE P!Reduce(t) \/ P!Load(t) \/ P!Store(t) \/ P!Unlock(t) \/ P!Compare(t) \/ P!CountThreads(t)
  BY <1>10 DEF P!Reduce, P!Load, P!Store, P!Unlock, P!Compare, P!CountThreads
<1>11. CASE P!Lock(t)  BY <1>11 DEF P!Lock
<1>12. CASE P!Barrier(t)  BY <1>12 DEF P!Barrier
<1>13. CASE P!Single(t)  BY <1>13 DEF P!Single
<1>14. CASE P!Scope(t)  BY <1>14 DEF P!Scope
<1>15. CASE P!Sort(t)  BY <1>15 DEF P!Sort
<1> QED
  BY <1>2, <1>3, <1>4, <1>5, <1>6, <1>7, <1>8, <1>9, <1>10, <1>11, <1>12, <1>13, <1>14, <1>15 DEF P!Body

\* A check that fails without a slip would accuse the runtime.
LEMMA CheckBlames == ASSUME ThreadsInv, WorkInv, BlameInv, P!Check PROVE BlameInv'
<1>1. /\ stage = "check"
      /\ P!Verdict => slips' = slips /\ noticed' = noticed /\ bOk' = bOk
      /\ ~P!Verdict => slips' = {} /\ (noticed' <=> noticed \/ slips # {})
  BY CheckMoves
<1>2. CASE P!Verdict  BY <1>1, <1>2 DEF BlameInv
<1>3. CASE ~P!Verdict
  <2>1. noticed'
    <3>1. SUFFICES ASSUME ~noticed' PROVE FALSE  OBVIOUS
    <3>2. slips = {} /\ ~noticed  BY <1>1, <1>3, <3>1
    <3>3. Watched  BY <3>2 DEF Watched
    <3> QED BY <1>1, <1>3, <3>2, <3>3 DEF WorkInv, CheckLaw
  <2> QED BY <1>1, <1>3, <2>1 DEF BlameInv
<1> QED BY <1>2, <1>3

LEMMA SlipStep == ASSUME ThreadsInv, SlipInv, P!Next PROVE SlipInv'
<1>0. TeamInv /\ WorkInv /\ BlameInv  BY DEF SlipInv
<1>1. ASSUME NEW n \in P!Threads, P!Fork(n) PROVE SlipInv'
  <2>1. bOk' = bOk /\ noticed' = noticed /\ (slips' = slips \/ P!Slip("team", {}))
    BY <1>1, ForkMoves
  <2> QED BY <1>0, <1>1, <2>1, ForkWorks, SlipOrNot DEF SlipInv
<1>2. ASSUME NEW t \in P!Threads, P!Body(t) PROVE SlipInv'
  <2>1. stage = "run" /\ Works(t) /\ P!Advance(t)  BY <1>2, OpOf
  <2>2. bOk' = bOk /\ noticed' = noticed  BY <2>1 DEF P!Advance
  <2> QED BY <1>0, <1>2, <2>2, BodyWorks, BodySlipsOrNot, SlipOrNot DEF SlipInv
<1>3. ASSUME NEW t \in P!Threads, NEW i \in todo, P!Take(t, i) PROVE SlipInv'
  <2>1. bOk' = bOk /\ noticed' = noticed /\ (slips' = slips \/ P!Slip("again", {i}))
    BY <1>3 DEF P!Take
  <2> QED BY <1>0, <1>3, <2>1, TakeWorks, SlipOrNot DEF SlipInv
<1>4. ASSUME NEW i \in todo, P!Lose(i) PROVE SlipInv'
  <2>1. bOk' = bOk /\ noticed' = noticed /\ P!Slip("lost", {i})  BY <1>4 DEF P!Lose
  <2> QED BY <1>0, <1>4, <2>1, LoseWorks, SlipOrNot DEF SlipInv
<1>5. CASE P!Join
  <2>1. bOk' = bOk /\ noticed' = noticed /\ (slips' = slips \/ P!Slip("share", {}) \/ P!Slip("early", todo))
    BY <1>0, <1>5, JoinMoves
  <2> QED BY <1>0, <1>5, <2>1, JoinWorks, SlipOrNot DEF SlipInv
<1>6. CASE P!Throw
  <2>1. noticed' = noticed /\ P!Slip("throws", {})  BY <1>6 DEF P!Throw
  <2> QED BY <1>0, <1>6, <2>1, ThrowWorks, SlipBlamed DEF SlipInv
<1>7. CASE P!Check  BY <1>0, <1>7, CheckWorks, CheckBlames DEF SlipInv
<1>8. ASSUME NEW program \in DOMAIN Lists, P!Begin(program) PROVE SlipInv'
  <2>1. bOk' = bOk /\ noticed' = noticed /\ slips' = slips  BY <1>8 DEF P!Begin
  <2> QED BY <1>0, <1>8, <2>1, BeginWorks, SlipOrNot DEF SlipInv
<1> QED BY <1>1, <1>2, <1>3, <1>4, <1>5, <1>6, <1>7, <1>8 DEF P!Next, P!Run

LEMMA SlipStutter == ASSUME SlipInv, UNCHANGED parallelVars PROVE SlipInv'
<1>1. /\ list' = list /\ index' = index /\ stage' = stage /\ team' = team /\ place' = place /\ todo' = todo
      /\ item' = item /\ partial' = partial /\ reg' = reg /\ lock' = lock /\ mem' = mem /\ sorted' = sorted
      /\ bOk' = bOk /\ slips' = slips /\ noticed' = noticed
  BY DEF parallelVars
<1>2. /\ P!Now' = P!Now /\ Duty' = Duty /\ P!IsLoop' = P!IsLoop /\ P!Items' = P!Items
      /\ P!Out' = P!Out /\ P!Alone' = P!Alone /\ P!Tbb' = P!Tbb /\ Counting' = Counting
      /\ Losses' = Losses /\ Task' = Task
  BY <1>1, DutySame
<1>3. /\ Watched' <=> Watched
      /\ \A kinds : Hit(kinds)' <=> Hit(kinds)
      /\ \A i, kinds : Struck(i, kinds)' <=> Struck(i, kinds)
  BY <1>1, SlipsKept
<1>4. \A t : (Works(t)' <=> Works(t)) /\ Through(t)' = Through(t)
  BY <1>1, <1>2 DEF Works, Through
<1>5. TeamInv'  BY <1>1, <1>2, <1>4 DEF SlipInv, TeamInv
<1>6. BlameInv'  BY <1>1 DEF SlipInv, BlameInv
<1>7. SortLaw => SortLaw'  BY <1>1, SortLawKept
<1>8. SlipLaw => SlipLaw'  BY <1>1, SlipLawKept
<1>9. LockLaw => LockLaw'  BY <1>1, <1>2, <1>4 DEF LockLaw
<1>10. \A i : Pending(i)' = Pending(i)  BY <1>1, <1>4 DEF Pending, InHand, OneIf
<1>11. \A i, kinds : OneIf(Struck(i, kinds))' = OneIf(Struck(i, kinds))  BY <1>3 DEF OneIf
<1>12. VisitLaw => VisitLaw'  BY <1>1, <1>2, <1>10, <1>11 DEF VisitLaw
<1>13. AssignLaw => AssignLaw'  BY <1>1, <1>2, <1>10, <1>11 DEF AssignLaw, OneIf
<1>14. TotalLaw => TotalLaw'
  <2>1. Load(1)' = Load(1) /\ Load(2)' = Load(2) /\ Made' = Made
    BY <1>1, <1>2, <1>4 DEF Load, Made, Weight
  <2>2. SumOf(Counting, todo)' = SumOf(Counting, todo)  BY <1>1, <1>2 DEF SumOf, Units
  <2>3. Accounted' = Accounted  BY <2>1, <2>2 DEF Accounted
  <2> QED BY <1>1, <2>3, TotalKept
<1>15. PartialLaw => PartialLaw'  BY <1>1, PartialKept
<1>16. RegionLaw => RegionLaw'  BY <1>1, <1>2, <1>3, <1>4 DEF RegionLaw, OneIf
<1>17. \A t, k : Passed(t, k)' <=> Passed(t, k)  BY <1>1, <1>2 DEF Passed
<1>18. \A t, op : Share(t, op)' = Share(t, op)  BY <1>1, <1>2 DEF Share, Past
<1>19. SyncLaw => SyncLaw'  BY <1>1, <1>2, <1>3, <1>17, <1>18 DEF SyncLaw, OneIf
<1>20. (P!Verdict' <=> P!Verdict) /\ (CheckLaw => CheckLaw')
  <2>1. P!Verdict' <=> P!Verdict
    BY <1>1, <1>2 DEF P!Verdict, P!TbbVerdict, P!OpenMpVerdict, P!Visited, P!AsSorted, P!FrontAndBack,
       P!FromZero, P!Expected, P!Schedules
  <2> QED BY <1>1, <1>2, <1>3, <2>1 DEF CheckLaw
<1>21. WorkInv'
  BY <1>1, <1>3, <1>7, <1>8, <1>9, <1>12, <1>13, <1>14, <1>15, <1>16, <1>19, <1>20
     DEF SlipInv, WorkInv, RunLaw
<1> QED BY <1>5, <1>6, <1>21 DEF SlipInv

LEMMA SlipInit == Init => SlipInv
<1>1. Init => BlameInv  BY DEF Init, P!Init, BlameInv
<1> QED BY <1>1, FirstWorks DEF SlipInv

LEMMA SlipNext == ThreadsInv /\ SlipInv /\ [Next]_vars => SlipInv'
<1> SUFFICES ASSUME ThreadsInv, SlipInv, [Next]_vars PROVE SlipInv'
  OBVIOUS
<1>1. CASE Threaded  BY <1>1, SlipStep DEF Threaded
<1>2. CASE Scripted \/ Com \/ Terminating \/ Naming \/ Finished \/ UNCHANGED vars
  <2>1. UNCHANGED parallelVars  BY <1>2 DEF Scripted, Com, Terminating, Naming, Finished, vars
  <2> QED BY <2>1, SlipStutter
<1> QED BY <1>1, <1>2 DEF Next

LEMMA SlipInvariant == Spec => []SlipInv
<1>1. Init => ThreadsInv /\ SlipInv  BY ThreadsInit, SlipInit
<1>2. ThreadsInv /\ SlipInv /\ [Next]_vars => ThreadsInv' /\ SlipInv'  BY ThreadsNext, SlipNext
<1> QED BY <1>1, <1>2, PTL DEF Spec

\* The smokes of OpenMP and oneTBB do not report a runtime that behaves,
\* however its threads take turns, and however many elements and rounds there
\* are.
THEOREM NoCorrectRuntimeAccused == Spec => []P!NoFalseAlarm
<1>1. SlipInv => P!NoFalseAlarm  BY DEF SlipInv, BlameInv, P!NoFalseAlarm
<1> QED BY <1>1, SlipInvariant, PTL

\* One lost, repeated or early piece of work makes them fail, whichever check,
\* element and thread it is and whenever it happens, the blind spots of
\* P!Unseen excepted.  Two might make up for each other.
THEOREM OneSlipIsNoticed == ASSUME MaxSlips \in {0, 1} PROVE Spec => []P!SlipsNoticed
<1>1. SlipInv => P!SlipsNoticed
  <2> SUFFICES ASSUME SlipInv, P!Ended, bOk, NEW s \in slips, s \notin P!Unseen PROVE FALSE
    BY DEF P!SlipsNoticed
  <2>1. slips = {s} /\ ~noticed  BY DEF SlipInv, BlameInv
  <2>2. Watched  BY <2>1 DEF Watched, Faulty
  <2> QED BY <2>1, <2>2 DEF SlipInv, WorkInv, P!Ended
<1> QED BY <1>1, SlipInvariant, PTL

-----------------------------------------------------------------------------
(* All smokes together. *)

\* Every smoke stays within its types, whatever its library, its children and
\* the other runs do.
THEOREM SmokesTyped == Spec => []TypeOK
<1> DEFINE Kinds == kind \in {"none", "scripted", "threads", "com", "terminate", "naming"}
<1>1. Init => Kinds  BY DEF Init
<1>2. Kinds /\ [Next]_vars => Kinds'
  BY DEF Next, vars, Runs, Scripted, Threaded, Com, Terminating, Naming, Finished
<1>3. /\ NamingInv => N!TypeOK
      /\ ComInv => C!TypeOK
      /\ ScriptInv => S!TypeOK
  BY ScriptInvImplies DEF NamingInv, ComInv
<1>4. Kinds /\ S!TypeOK /\ P!TypeOK /\ C!TypeOK /\ T!TypeOK /\ N!TypeOK => TypeOK
  BY DEF TypeOK
<1> QED
  BY <1>1, <1>2, <1>3, <1>4, ScriptInvariant, ThreadsTyped, ComInvariant, TerminateSmokeIsRight,
     NamingInvariant, PTL DEF Spec

\* A smoke that ends leaves no handle open but those that Leftover and Remains
\* name, no child running, no service of its own, and no binding in a service
\* that runs on unless a call to it has failed: the handles of all scripted
\* smokes, the two children of the oneTBB one, the naming services.
THEOREM NothingIsLeftBehind == Spec => []NothingLeftBehind
<1>1. S!AllReleased /\ T!ChildrenOver /\ N!NothingLeftRunning /\ N!NoBindingLeft => NothingLeftBehind
  BY DEF NothingLeftBehind
<1> QED BY <1>1, ScriptedSmokesAreRight, TerminateSmokeIsRight, NothingLeftByNaming, PTL

\* A library that does its work is reported by no smoke: whatever the order of
\* threads, children and runs, a smoke that fails has met a failed call, a slip
\* of its runtime, a defect of its pointers, a child that did not answer as
\* agreed, or another run at its port.
THEOREM NoCorrectLibraryAccused == Spec => []NoFalseAlarm
<1>1. S!NoFalseAlarm /\ P!NoFalseAlarm /\ C!NoFalseAlarm /\ T!NoFalseAlarm /\ N!FailsForCause => NoFalseAlarm
  BY DEF NoFalseAlarm
<1> QED BY <1>1, ScriptedSmokesAreRight, NoCorrectRuntimeAccused, OneDefectIsNoticed,
     TerminateSmokeIsRight, NamingFailsForCause, PTL

\* A smoke that passes has met no failed call, one slip of its runtime only in
\* a blind spot, no single defect of its pointers and no lost reference, and no
\* late answer.
THEOREM PassesAreDeserved == ASSUME MaxSlips \in {0, 1} PROVE Spec => []PassIsDeserved
<1>1. S!ZeroIsDeserved /\ P!SlipsNoticed /\ C!LifetimeKept /\ C!OneDefectNoticed /\ T!LateAnswersFail => PassIsDeserved
  BY DEF PassIsDeserved
<1> QED BY <1>1, ScriptedSmokesAreRight, OneSlipIsNoticed, ComLifetimeKept, OneDefectIsNoticed,
     TerminateSmokeIsRight, PTL
=============================================================================
