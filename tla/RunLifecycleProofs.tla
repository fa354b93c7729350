------------------------- MODULE RunLifecycleProofs -------------------------
(***************************************************************************)
(* The safety of RunLifecycle and of its M&A variant, for any number of    *)
(* requests and every bound on failures, restarts and graph nodes: types;  *)
(* RunInv is inductive, and the row behaves as RunRow says; an undisturbed *)
(* run has one driver and an end that is told; a stub completes with a     *)
(* report.                                                                 *)
(*                                                                         *)
(* What concerns the row alone (AnswersOnce, TerminalDated) follows from   *)
(* the steps RunRow allows.  What ties tasks and handlers to the saved     *)
(* answers is stated per task by Good, which a change of messages cannot   *)
(* spoil.                                                                  *)
(***************************************************************************)
EXTENDS MaStub, TLAPS

-----------------------------------------------------------------------------
(* The operators on task records return task records.                      *)

LEMMA BlankType == Blank \in Task
  BY BoundsAssumption DEF Blank, Task, PC, Ctx, Status, Terminal, Heartbeat, Continuation

LEMMA FinishType == ASSUME NEW k \in Task PROVE Finish(k) \in Task
  BY BlankType DEF Finish, Task, PC

LEMMA MarkType ==
  ASSUME NEW k \in Task, NEW s \in {"cancelled", "failed"}, NEW c \in Ctx
  PROVE  Mark(k, s, c) \in Task
  BY BlankType DEF Mark, Task, PC

LEMMA ResumeType ==
  ASSUME NEW k \in Task, NEW c \in Continuation
  PROVE  Resume(k, c) \in Task
<1>1. Finish(k) \in Task
  BY FinishType
<1>2. [Blank EXCEPT !.pc = "final", !.ctx = "body"] \in Task
  BY BlankType DEF Task, PC, Ctx
<1>3. Mark(k, "cancelled", "body") \in Task
  BY MarkType DEF Ctx
<1>4. c \in {"cancelled", "failed"} => Mark(k, c, "outer") \in Task
  BY MarkType DEF Ctx
<1>5. QED
  BY <1>1, <1>2, <1>3, <1>4 DEF Resume, Continuation

LEMMA ReapType ==
  ASSUME NEW k \in Task, NEW c \in Continuation
  PROVE  Reap(k, c) \in Task
<1> DEFINE off == [k EXCEPT !.hb = "off"]
<1>1. off \in Task
  BY DEF Task, Heartbeat
<1>2. Mark(off, "failed", "outer") \in Task
  BY <1>1, MarkType DEF Ctx
<1>3. [Blank EXCEPT !.pc = "reap", !.ctx = "finally", !.cont = c] \in Task
  BY BlankType DEF Task, PC, Ctx
<1>4. QED
  BY <1>2, <1>3, ResumeType DEF Reap

LEMMA RaiseType ==
  ASSUME NEW k \in Task, NEW x \in {"cancelled", "failed"}
  PROVE  Raise(k, x) \in Task
<1>1. k.ctx \in Ctx /\ k.cont \in Continuation /\ k.hb \in Heartbeat
  BY DEF Task
<1>2. Finish(k) \in Task
  BY FinishType
<1>3. Mark(k, x, "outer") \in Task /\ Mark(k, x, "handler") \in Task
  BY MarkType DEF Ctx
<1>4. [Blank EXCEPT !.pc = "timeout", !.ctx = "handler", !.hb = k.hb] \in Task
  BY <1>1, BlankType DEF Task, PC, Ctx
<1>5. Reap(k, x) \in Task
  BY ReapType DEF Continuation
<1>6. Resume(k, k.cont) \in Task
  BY <1>1, ResumeType
<1>7. QED
  BY <1>1, <1>2, <1>3, <1>4, <1>5, <1>6 DEF Raise, Ctx

LEMMA DriveType ==
  ASSUME NEW k \in Task, NEW n \in 1 .. MaxNodes
  PROVE  Drive(k, n) \in Task
<1>1. n \in 0 .. MaxNodes
  BY BoundsAssumption
<1>2. QED
  BY <1>1 DEF Drive, Task, PC, Ctx, Heartbeat

-----------------------------------------------------------------------------
(* Type correctness.                                                       *)

LEMMA BecomeType ==
  ASSUME task \in [Tasks -> Task], NEW t \in Tasks, NEW k \in Task, Become(t, k)
  PROVE  task' \in [Tasks -> Task]
  BY DEF Become

\* The database statements keep the row and the event in range.
RowType ==
    /\ status \in Status
    /\ dated \in BOOLEAN
    /\ messages \subseteq Tasks
    /\ lastEvent \in Event

LEMMA AcceptEffectType ==
  ASSUME RowType, NEW t \in Tasks, AcceptEffect(t)
  PROVE  RowType'
  BY DEF RowType, AcceptEffect, Status

LEMMA AuditEffectType ==
  ASSUME RowType, task \in [Tasks -> Task], NEW t \in Tasks, AuditEffect(t)
  PROVE  RowType'
<1>1. status' \in Status /\ dated' \in BOOLEAN
  BY DEF RowType, AuditEffect, Assign, Status, Terminal
<1>2. QED
  BY <1>1 DEF RowType, AuditEffect

LEMMA MarkEffectType ==
  ASSUME RowType, task \in [Tasks -> Task], NEW t \in Tasks, MarkEffect(t)
  PROVE  RowType'
<1>1. task[t].target \in {"cancelled", "failed"}
  BY DEF Task
<1>2. status' \in Status
  BY <1>1 DEF RowType, MarkEffect, Assign, Status, Terminal
<1>3. QED
  BY <1>2 DEF RowType, MarkEffect

LEMMA PublishEffectType ==
  ASSUME RowType, NEW e \in Event, PublishEffect(e)
  PROVE  RowType'
  BY DEF RowType, PublishEffect, row

LEMMA MarkEventType ==
  ASSUME NEW k \in Task
  PROVE  MarkEvent(k) \in Event
  BY DEF MarkEvent, Event

LEMMA EffectType ==
  ASSUME RowType, task \in [Tasks -> Task], NEW t \in Tasks,
         Effect(t) \/ UNCHANGED <<row, lastEvent>>
  PROVE  RowType'
<1>1. CASE UNCHANGED <<row, lastEvent>>
  BY <1>1 DEF RowType, row
<1>2. "run_completed" \in Event /\ MarkEvent(task[t]) \in Event
  BY MarkEventType DEF Event
<1>3. CASE Effect(t)
  BY <1>2, <1>3, AcceptEffectType, AuditEffectType, MarkEffectType, PublishEffectType
     DEF Effect
<1>4. QED
  BY <1>1, <1>3

LEMMA TaskStepType ==
  ASSUME TypeOK, NEW t \in Tasks, TaskStep(t)
  PROVE  TypeOK'
<1> DEFINE k == task[t]
<1>1. task \in [Tasks -> Task] /\ k \in Task /\ RowType
  BY DEF TypeOK, RowType
<1>2. status \in Status /\ k.left \in 0 .. MaxNodes /\ k.cont \in Continuation
  BY <1>1 DEF RowType, Task
<1>3. ASSUME NEW m \in Task, Become(t, m), RowType', UNCHANGED <<registry, req, world>>
      PROVE  TypeOK'
  <2>1. task' \in [Tasks -> Task]
    BY <1>1, <1>3, BecomeType
  <2>2. QED
    BY <2>1, <1>3 DEF TypeOK, RowType, world
<1>4. ASSUME NEW m \in Task, Become(t, m), UNCHANGED <<row, lastEvent, registry, req, world>>
      PROVE  TypeOK'
  <2>1. RowType'
    BY <1>1, <1>4 DEF RowType, row
  <2>2. QED
    BY <2>1, <1>3, <1>4
<1>5. CASE FramingLoad(t)
  <2>1. [k EXCEPT !.pc = "framing", !.ctx = "body"] \in Task
    BY <1>1, <1>2 DEF Task, PC, Ctx
  <2>2. QED
    BY <2>1, <1>4, <1>5 DEF FramingLoad
<1>6. CASE FramingDone(t)
  <2>1. Finish(k) \in Task
    BY <1>1, <1>2, FinishType
  <2>2. QED
    BY <2>1, <1>4, <1>6 DEF FramingDone
<1>7. CASE Start(t)
  <2>1. [k EXCEPT !.ctx = "body",
            !.pc = IF t \in Answers THEN "transition" ELSE "reconstruct"] \in Task
    BY <1>1, <1>2 DEF Task, PC, Ctx
  <2>2. QED
    BY <2>1, <1>4, <1>7 DEF Start
<1>8. CASE Accept(t)
  <2>1. RowType'
    BY <1>1, <1>8, AcceptEffectType DEF Accept
  <2>2. PICK b \in 1 .. MaxNodes : Become(t, Drive(k, b))
    BY <1>8 DEF Accept
  <2>3. Drive(k, b) \in Task
    BY <1>1, DriveType
  <2>4. QED
    BY <2>1, <2>2, <2>3, <1>3, <1>8 DEF Accept
<1>9. CASE Refuse(t)
  <2>1. Mark(k, "cancelled", "body") \in Task
    BY <1>1, <1>2, MarkType DEF Ctx
  <2>2. QED
    BY <2>1, <1>4, <1>9 DEF Refuse
<1>10. CASE Reconstruct(t)
  <2>1. Mark(k, "failed", "outer") \in Task
    BY <1>1, MarkType DEF Ctx
  <2>2. \A b \in 1 .. MaxNodes : Drive(k, b) \in Task
    BY <1>1, DriveType
  <2>3. QED
    BY <2>1, <2>2, <1>4, <1>10 DEF Reconstruct
<1>11. CASE NodeDone(t)
  <2>1. k.left - 1 \in 0 .. MaxNodes
    BY <1>2, <1>11, BoundsAssumption DEF NodeDone
  <2>2. [k EXCEPT !.pc = "check", !.left = @ - 1] \in Task
    BY <2>1, <1>1 DEF Task, PC
  <2>3. QED
    BY <2>2, <1>4, <1>11 DEF NodeDone
<1>12. CASE AuditRead(t)
  <2>1. [k EXCEPT !.pc = "auditWrite", !.seen = status] \in Task
    BY <1>1, <1>2 DEF Task, PC
  <2>2. QED
    BY <2>1, <1>4, <1>12 DEF AuditRead
<1>13. CASE AuditWrite(t)
  <2>1. [k EXCEPT !.pc = "auditPublish", !.seen = "created"] \in Task
    BY <1>1 DEF Task, PC, Status
  <2>2. RowType'
    BY <1>1, <1>13, AuditEffectType DEF AuditWrite
  <2>3. QED
    BY <2>1, <2>2, <1>3, <1>13 DEF AuditWrite
<1>14. CASE AuditPublish(t)
  <2>1. 0 \in 0 .. MaxNodes
    BY BoundsAssumption
  <2>2. [k EXCEPT !.pc = "check", !.left = 0] \in Task
    BY <2>1, <1>1 DEF Task, PC
  <2>3. RowType'
    BY <1>1, <1>14, PublishEffectType DEF AuditPublish, Event
  <2>4. QED
    BY <2>2, <2>3, <1>3, <1>14 DEF AuditPublish
<1>15. CASE Check(t)
  <2>1. [k EXCEPT !.pc = "node"] \in Task
    BY <1>1 DEF Task, PC
  <2>2. Reap(k, "broke") \in Task /\ Reap(k, "ended") \in Task
    BY <1>1, ReapType DEF Continuation
  <2>3. QED
    BY <2>1, <2>2, <1>4, <1>15 DEF Check
<1>16. CASE TimeoutCheck(t)
  <2>1. Mark(k, "cancelled", "handler") \in Task /\ Mark(k, "failed", "handler") \in Task
    BY <1>1, MarkType DEF Ctx
  <2>2. QED
    BY <2>1, <1>4, <1>16 DEF TimeoutCheck
<1>17. CASE Reaped(t)
  <2>1. Resume(k, k.cont) \in Task
    BY <1>1, <1>2, ResumeType
  <2>2. QED
    BY <2>1, <1>4, <1>17 DEF Reaped
<1>18. CASE MarkRead(t)
  <2>1. [k EXCEPT !.pc = "markWrite", !.seen = status] \in Task
    BY <1>1, <1>2 DEF Task, PC
  <2>2. QED
    BY <2>1, <1>4, <1>18 DEF MarkRead
<1>19. CASE MarkWrite(t)
  <2>1. [k EXCEPT !.pc = "markPublish", !.seen = "created"] \in Task
    BY <1>1 DEF Task, PC, Status
  <2>2. RowType'
    BY <1>1, <1>19, MarkEffectType DEF MarkWrite
  <2>3. QED
    BY <2>1, <2>2, <1>3, <1>19 DEF MarkWrite
<1>20. CASE MarkPublish(t)
  <2>1. Finish(k) \in Task /\ Reap(k, "return") \in Task
    BY <1>1, FinishType, ReapType DEF Continuation
  <2>2. RowType'
    BY <1>1, <1>20, MarkEventType, PublishEffectType DEF MarkPublish
  <2>3. QED
    BY <2>1, <2>2, <1>3, <1>20 DEF MarkPublish
<1>21. CASE Final(t)
  <2>1. Finish(k) \in Task /\ Mark(k, "failed", "body") \in Task
    BY <1>1, FinishType, MarkType DEF Ctx
  <2>2. RowType'
    BY <1>1, <1>21 DEF Final, RowType
  <2>3. QED
    BY <2>1, <2>2, <1>3, <1>21 DEF Final
<1>22. CASE Interrupt(t)
  <2>1. [k EXCEPT !.cancel = FALSE] \in Task
    BY <1>1 DEF Task
  <2>2. Raise([k EXCEPT !.cancel = FALSE], "cancelled") \in Task
    BY <2>1, RaiseType
  <2>3. RowType'
    BY <1>1, <1>22, EffectType DEF Interrupt
  <2>4. QED
    BY <2>2, <2>3, <1>3, <1>22 DEF Interrupt
<1>23. QED
  BY <1>5, <1>6, <1>7, <1>8, <1>9, <1>10, <1>11, <1>12, <1>13,
     <1>14, <1>15, <1>16, <1>17, <1>18, <1>19, <1>20, <1>21, <1>22 DEF TaskStep

LEMMA HeartbeatStepType ==
  ASSUME TypeOK, NEW t \in Tasks, HeartbeatStep(t)
  PROVE  TypeOK'
<1>1. task \in [Tasks -> Task] /\ task[t] \in Task
  BY DEF TypeOK
<1>2. \A m \in Task : Become(t, m) => task' \in [Tasks -> Task]
  BY <1>1, BecomeType
<1>3. CASE HeartbeatStop(t)
  <2>1. [task[t] EXCEPT !.hb = "off"] \in Task
    BY <1>1 DEF Task, Heartbeat
  <2>2. QED
    BY <2>1, <1>2, <1>3 DEF HeartbeatStop, TypeOK, row, world
<1>4. CASE HeartbeatLate(t)
  <2>1. [task[t] EXCEPT !.hb = IF status = "cancelling" THEN "lateCancelling" ELSE "late"]
          \in Task
    BY <1>1 DEF Task, Heartbeat
  <2>2. QED
    BY <2>1, <1>2, <1>4 DEF HeartbeatLate, TypeOK, row, world
<1>5. CASE HeartbeatCancel(t)
  <2>1. [task[t] EXCEPT !.cancel = TRUE, !.hb = "off",
                        !.overdue = @ \/ task[t].hb = "late"] \in Task
    BY <1>1 DEF Task, Heartbeat
  <2>2. QED
    BY <2>1, <1>2, <1>5 DEF HeartbeatCancel, TypeOK, row, world
<1>6. QED
  BY <1>3, <1>4, <1>5 DEF HeartbeatStep

LEMMA SpawnType ==
  ASSUME TypeOK, NEW q \in Answers \cup Retries, Spawn(q)
  PROVE  registry' \in Tasks \cup {NoTask} /\ task' \in [Tasks -> Task]
<1>1. [Blank EXCEPT !.pc = "ready"] \in Task
  BY BlankType DEF Task, PC
<1>2. QED
  BY <1>1 DEF TypeOK, Spawn, Tasks

LEMMA ReqGotoType ==
  ASSUME TypeOK, NEW q \in Requests, NEW p \in ReqPC, ReqGoto(q, p)
  PROVE  req' \in [Requests -> Request]
  BY DEF TypeOK, ReqGoto, Request

LEMMA HandlerType ==
  ASSUME TypeOK,
         \/ \E q \in Answers : AnswersRead(q) \/ AnswersStep(q)
         \/ \E q \in Cancels : CancelRead(q) \/ CancelStep(q)
         \/ \E q \in Retries : RetryPreview(q) \/ RetryStep(q)
  PROVE  TypeOK'
<1> USE DEF row, world
<1>1. \A q \in Requests, p \in ReqPC : ReqGoto(q, p) => req' \in [Requests -> Request]
  BY ReqGotoType
<1>2. ASSUME NEW q \in Answers, AnswersRead(q) \/ AnswersStep(q)
      PROVE  TypeOK'
  <2>1. CASE AnswersRead(q)
    BY <2>1, <1>1 DEF AnswersRead, TypeOK, Requests, ReqPC
  <2>2. CASE AnswersSpawn(q)
    BY <2>2, <1>1, SpawnType DEF AnswersSpawn, TypeOK, Requests, ReqPC
  <2>3. QED
    BY <1>2, <2>1, <2>2 DEF AnswersStep
<1>3. ASSUME NEW q \in Cancels, CancelRead(q) \/ CancelStep(q)
      PROVE  TypeOK'
  <2>1. CASE CancelRead(q)
    BY <2>1 DEF CancelRead, TypeOK, Requests, Request, ReqPC
  <2>2. CASE CancelCommit(q)
    <3>1. status' \in Status
      BY <2>2 DEF CancelCommit, Assign, TypeOK, Status
    <3>2. req' \in [Requests -> Request]
      BY <2>2 DEF CancelCommit, TypeOK, Requests, Request, ReqPC, Status
    <3>3. QED
      BY <2>2, <3>1, <3>2 DEF CancelCommit, TypeOK
  <2>3. CASE CancelSignal(q)
    <3>1. CASE Cancellable
      <4>1. registry \in Tasks
        BY <3>1 DEF Cancellable, TypeOK
      <4>2. [task[registry] EXCEPT !.cancel = TRUE] \in Task
        BY <4>1 DEF TypeOK, Task
      <4>3. task' \in [Tasks -> Task]
        BY <2>3, <3>1, <4>2 DEF CancelSignal, TypeOK
      <4>4. QED
        BY <2>3, <3>1, <4>3, <1>1 DEF CancelSignal, TypeOK, Requests, ReqPC
    <3>2. CASE ~Cancellable
      BY <2>3, <3>2, <1>1 DEF CancelSignal, TypeOK, Requests, ReqPC
    <3>3. QED
      BY <3>1, <3>2
  <2>4. CASE CancelAck(q)
    BY <2>4, <1>1 DEF CancelAck, TypeOK, Requests, ReqPC, Event
  <2>5. CASE CancelForce(q)
    BY <2>5, <1>1 DEF CancelForce, TypeOK, Requests, ReqPC, Status, Terminal
  <2>6. CASE CancelForceAck(q)
    BY <2>6, <1>1 DEF CancelForceAck, TypeOK, Requests, ReqPC, Event
  <2>7. CASE CancelForceEvent(q)
    BY <2>7, <1>1 DEF CancelForceEvent, TypeOK, Requests, ReqPC, Event
  <2>8. QED
    BY <1>3, <2>1, <2>2, <2>3, <2>4, <2>5, <2>6, <2>7 DEF CancelStep
<1>4. ASSUME NEW q \in Retries, RetryPreview(q) \/ RetryStep(q)
      PROVE  TypeOK'
  <2>1. CASE RetryPreview(q)
    BY <2>1, <1>1 DEF RetryPreview, TypeOK, Requests, ReqPC
  <2>2. CASE RetryTransition(q)
    BY <2>2, <1>1 DEF RetryTransition, TypeOK, Requests, ReqPC, Status
  <2>3. CASE RetryPublish(q)
    BY <2>3, <1>1 DEF RetryPublish, TypeOK, Requests, ReqPC, Event
  <2>4. CASE RetrySpawn(q)
    BY <2>4, <1>1, SpawnType DEF RetrySpawn, TypeOK, Requests, ReqPC
  <2>5. QED
    BY <1>4, <2>1, <2>2, <2>3, <2>4 DEF RetryStep
<1>5. QED
  BY <1>2, <1>3, <1>4

LEMMA FailureType ==
  ASSUME TypeOK, Failure
  PROVE  TypeOK'
<1>1. faults < MaxFaults => faults + 1 \in 0 .. MaxFaults
  BY BoundsAssumption DEF TypeOK
<1>2. crashes < MaxCrashes => crashes + 1 \in 0 .. MaxCrashes
  BY BoundsAssumption DEF TypeOK
<1>3. ASSUME NEW t \in Tasks, Fault(t)
      PROVE  TypeOK'
  <2>1. task \in [Tasks -> Task] /\ task[t] \in Task /\ RowType
    BY DEF TypeOK, RowType
  <2>2. Raise(task[t], "failed") \in Task
    BY <2>1, RaiseType
  <2>3. task' \in [Tasks -> Task]
    BY <2>1, <2>2, <1>3, BecomeType DEF Fault
  <2>4. RowType'
    BY <2>1, <1>3, EffectType DEF Fault
  <2>5. faults' \in 0 .. MaxFaults
    BY <1>3, <1>1 DEF Fault
  <2>6. QED
    BY <2>3, <2>4, <2>5, <1>3 DEF Fault, TypeOK, RowType
<1>4. ASSUME NEW t \in Tasks, HeartbeatFault(t)
      PROVE  TypeOK'
  <2>1. [task[t] EXCEPT !.hb = "crashed"] \in Task
    BY DEF TypeOK, Task, Heartbeat
  <2>2. task' \in [Tasks -> Task]
    BY <2>1, <1>4, BecomeType DEF TypeOK, HeartbeatFault
  <2>3. QED
    BY <2>2, <1>4, <1>1 DEF HeartbeatFault, TypeOK, row
<1>5. ASSUME NEW q \in Requests, RequestFault(q)
      PROVE  TypeOK'
  BY <1>5, <1>1, ReqGotoType DEF RequestFault, TypeOK, ReqPC, row
<1>6. CASE Crash
  <2>1. task' \in [Tasks -> Task]
    BY <1>6, FinishType DEF Crash, TypeOK
  <2>2. req' \in [Requests -> Request]
    BY <1>6 DEF Crash, TypeOK, Request, ReqPC
  <2>3. QED
    BY <2>1, <2>2, <1>2, <1>6 DEF Crash, TypeOK, row
<1>7. QED
  BY <1>3, <1>4, <1>5, <1>6 DEF Failure

LEMMA RestartType ==
  ASSUME TypeOK, Restart
  PROVE  TypeOK'
  BY DEF Restart, Sweep, SweepPublish, TypeOK, Status, Terminal, Event, row

LEMMA InitType == Init => TypeOK
<1> SUFFICES ASSUME Init PROVE TypeOK
  OBVIOUS
<1>1. [Blank EXCEPT !.pc = "load"] \in Task
  BY BlankType DEF Task, PC
<1>2. task \in [Tasks -> Task]
  BY <1>1, BlankType DEF Init
<1>3. req \in [Requests -> Request]
  BY DEF Init, Request, ReqPC, Status
<1>4. faults \in 0 .. MaxFaults /\ crashes \in 0 .. MaxCrashes
  BY BoundsAssumption DEF Init
<1>5. status \in Status /\ lastEvent \in Event /\ registry \in Tasks
  BY DEF Init, Status, Event, Tasks
<1>6. QED
  BY <1>2, <1>3, <1>4, <1>5 DEF Init, TypeOK

LEMMA NextType == TypeOK /\ [Next]_vars => TypeOK'
<1> SUFFICES ASSUME TypeOK, [Next]_vars PROVE TypeOK'
  OBVIOUS
<1>1. CASE UNCHANGED vars
  BY <1>1 DEF vars, row, world, TypeOK
<1>2. CASE Next
  BY <1>2, TaskStepType, HeartbeatStepType, HandlerType, FailureType, RestartType
     DEF Next, AnswersArrive, CancelArrive, RetryArrive
<1>3. QED
  BY <1>1, <1>2

\* Every variable keeps its type, for all constants.
THEOREM TypeCorrect == Spec => []TypeOK
  BY InitType, NextType, PTL DEF Spec

-----------------------------------------------------------------------------
(* The row, its answers and its tasks.                                     *)

DrivingPC == {"node", "auditWrite", "auditPublish", "check"}
StillPC   == {"load", "ready", "transition", "reconstruct", "reap", "final"}

\* The heartbeat of a task with record m is alive only inside its drive.
Owned(m) ==
    /\ m.hb # "off" => m.ctx \in {"drive", "handler"}
    /\ m.pc \in StillPC => m.hb = "off"

\* What RunInv says of a task t with record m when the saved answers are M.
Good(t, m, M) ==
    /\ m.pc = "ready" => t \in Answers \cup Retries
    /\ m.pc = "transition" => t \in Answers
    /\ m.pc = "reconstruct" => t \in Retries
    /\ Owned(m)
    /\ m.pc \in DrivingPC => M # {} /\ (t \in Answers => M = {t})
    /\ t \in Retries /\ m.pc \in {"ready", "reconstruct"} => M # {}

\* What it says of the handlers of retries.
ReqGood(M) == \A r \in Retries : req[r].pc \in {"transition", "publish", "spawn"} => M # {}

\* RunInv, sorted by what a step has to establish.
GoodState ==
    /\ TypeOK
    /\ AnswersOnce
    /\ TerminalDated
    /\ ReqGood(messages)
    /\ \A t \in Tasks : Good(t, task[t], messages)

LEMMA GoodInv == RunInv <=> GoodState
<1>1. Retries \subseteq Tasks
  BY DEF Tasks
<1>2. RetryResumable <=>
        /\ ReqGood(messages)
        /\ \A t \in Tasks : t \in Retries /\ task[t].pc \in {"ready", "reconstruct"}
                              => messages # {}
  BY <1>1 DEF RetryResumable, ReqGood
<1>3. /\ Placed
      /\ DriverHasAnswers
      /\ HeartbeatOwned
      /\ \A t \in Tasks : t \in Retries /\ task[t].pc \in {"ready", "reconstruct"}
                            => messages # {}
      <=> \A t \in Tasks : Good(t, task[t], messages)
  BY DEF Placed, DriverHasAnswers, HeartbeatOwned, Good, Owned, Driving, DrivingPC, StillPC
<1>4. QED
  BY <1>2, <1>3 DEF RunInv, GoodState

-----------------------------------------------------------------------------
(* Where the operators on task records lead: out of the pipeline and into  *)
(* no place that Good restricts, with the heartbeat under control.         *)

Away == {"framing", "timeout", "reap", "markRead", "markWrite", "markPublish",
         "final", "done"}

LEMMA AwayGood ==
  ASSUME NEW t, NEW m, NEW M, m.pc \in Away, Owned(m)
  PROVE  Good(t, m, M)
  BY DEF Good, Away, DrivingPC

LEMMA FinishAway == \A k : Finish(k).pc \in Away /\ Owned(Finish(k))
  BY DEF Finish, Blank, Away, Owned, StillPC

LEMMA MarkAway ==
  ASSUME NEW k \in Task, NEW s, NEW c, k.hb = "off" \/ c = "handler"
  PROVE  Mark(k, s, c).pc \in Away /\ Owned(Mark(k, s, c))
  BY DEF Mark, Blank, Away, Owned, StillPC

LEMMA ResumeAway ==
  ASSUME NEW k \in Task, k.hb = "off", NEW c \in Continuation
  PROVE  Resume(k, c).pc \in Away /\ Owned(Resume(k, c))
<1>1. [Blank EXCEPT !.pc = "final", !.ctx = "body"].pc \in Away
  BY DEF Blank, Away
<1>2. Owned([Blank EXCEPT !.pc = "final", !.ctx = "body"])
  BY DEF Blank, Owned, StillPC
<1>3. QED
  BY <1>1, <1>2, FinishAway, MarkAway DEF Resume, Continuation

LEMMA ReapAway ==
  ASSUME NEW k \in Task, NEW c \in Continuation
  PROVE  Reap(k, c).pc \in Away /\ Owned(Reap(k, c))
<1> DEFINE off  == [k EXCEPT !.hb = "off"]
           reap == [Blank EXCEPT !.pc = "reap", !.ctx = "finally", !.cont = c]
<1>1. off \in Task /\ off.hb = "off"
  BY DEF Task, Heartbeat
<1>2. Mark(off, "failed", "outer").pc \in Away /\ Owned(Mark(off, "failed", "outer"))
  BY <1>1, MarkAway
<1>3. reap.pc \in Away /\ Owned(reap)
  BY DEF Blank, Away, Owned, StillPC
<1>4. k.hb = "off" => Resume(k, c).pc \in Away /\ Owned(Resume(k, c))
  BY ResumeAway
<1>5. QED
  BY <1>2, <1>3, <1>4 DEF Reap

LEMMA RaiseAway ==
  ASSUME NEW k \in Task, NEW x \in {"cancelled", "failed"}, Owned(k)
  PROVE  Raise(k, x).pc \in Away /\ Owned(Raise(k, x))
<1> DEFINE late == [Blank EXCEPT !.pc = "timeout", !.ctx = "handler", !.hb = k.hb]
<1>1. k.ctx \in Ctx /\ k.cont \in Continuation /\ x \in Continuation
  BY DEF Task, Continuation
<1>2. late.pc \in Away /\ Owned(late)
  BY DEF Blank, Away, Owned, StillPC
<1>3. CASE k.ctx \in {"bare", "outer"}
  BY <1>3, FinishAway DEF Raise
<1>4. CASE k.ctx = "body"
  BY <1>4, MarkAway DEF Raise, Owned
<1>5. CASE k.ctx = "drive"
  BY <1>5, <1>2, MarkAway DEF Raise
<1>6. CASE k.ctx = "handler"
  BY <1>6, <1>1, ReapAway DEF Raise
<1>7. CASE k.ctx = "finally"
  BY <1>7, <1>1, ResumeAway DEF Raise, Owned
<1>8. QED
  BY <1>1, <1>3, <1>4, <1>5, <1>6, <1>7 DEF Ctx

-----------------------------------------------------------------------------
(* The row: every step is one of RunRow's or leaves the row alone.         *)

RowStep == [Row!Next]_<<status, dated, messages>>

LEMMA AcceptRow ==
  ASSUME NEW t \in Answers, AcceptEffect(t)
  PROVE  RowStep
  BY DEF AcceptEffect, RowStep, Row!Next, Row!Accept, Row!Fresh

LEMMA AuditRow ==
  ASSUME NEW t, AuditEffect(t)
  PROVE  RowStep
<1>1. CASE status' = status
  BY <1>1 DEF AuditEffect, RowStep, Row!Next, Row!Redate
<1>2. CASE status' # status
  BY <1>2 DEF AuditEffect, Assign, RowStep, Row!Next, Row!Close, Row!Terminal
<1>3. QED
  BY <1>1, <1>2

LEMMA MarkRow ==
  ASSUME NEW t, task[t] \in Task, MarkEffect(t)
  PROVE  RowStep
<1>1. task[t].target \in {"cancelled", "failed"}
  BY DEF Task
<1>2. CASE status' = status
  BY <1>2 DEF MarkEffect, RowStep, Row!Next, Row!Redate
<1>3. CASE status' # status
  BY <1>1, <1>3 DEF MarkEffect, Assign, RowStep, Row!Next, Row!Close, Row!Terminal
<1>4. QED
  BY <1>2, <1>3

LEMMA EffectRow ==
  ASSUME RunInv, NEW t \in Tasks, Effect(t) \/ UNCHANGED <<row, lastEvent>>
  PROVE  RowStep
<1>1. task[t] \in Task
  BY DEF RunInv, TypeOK
<1>2. task[t].pc = "transition" => t \in Answers
  BY DEF RunInv, Placed
<1>3. CASE UNCHANGED <<row, lastEvent>>
  BY <1>3 DEF RowStep, row
<1>4. CASE \E e : PublishEffect(e)
  BY <1>4 DEF PublishEffect, RowStep, row
<1>5. QED
  BY <1>1, <1>2, <1>3, <1>4, AcceptRow, AuditRow, MarkRow DEF Effect

LEMMA NextRow ==
  ASSUME RunInv, Next
  PROVE  RowStep
<1>1. ASSUME UNCHANGED row
      PROVE  RowStep
  BY <1>1 DEF row, RowStep
<1>2. ASSUME NEW t \in Tasks, TaskStep(t)
      PROVE  RowStep
  <2>1. task[t] \in Task
    BY DEF RunInv, TypeOK
  <2>2. task[t].pc = "transition" => t \in Answers
    BY DEF RunInv, Placed
  <2>3. CASE Accept(t)
    BY <2>2, <2>3, AcceptRow DEF Accept, At
  <2>4. CASE AuditWrite(t)
    BY <2>4, AuditRow DEF AuditWrite
  <2>5. CASE MarkWrite(t)
    BY <2>1, <2>5, MarkRow DEF MarkWrite
  <2>6. CASE Interrupt(t)
    BY <2>6, EffectRow DEF Interrupt
  <2>7. CASE Final(t)
    <3>1. status' = status /\ messages' = messages
      BY <2>7 DEF Final
    <3>2. dated' = dated \/ dated' = TRUE
      BY <2>7 DEF Final, RunInv, TypeOK
    <3>3. QED
      BY <3>1, <3>2 DEF RowStep, Row!Next, Row!Redate
  <2>8. CASE AuditPublish(t) \/ MarkPublish(t)
    BY <2>8, <1>1 DEF AuditPublish, MarkPublish, PublishEffect
  <2>9. CASE \/ FramingLoad(t) \/ FramingDone(t) \/ Start(t) \/ Refuse(t)
             \/ Reconstruct(t) \/ NodeDone(t) \/ AuditRead(t) \/ Check(t)
             \/ TimeoutCheck(t) \/ Reaped(t) \/ MarkRead(t)
    BY <2>9, <1>1 DEF FramingLoad, FramingDone, Start, Refuse, Reconstruct, NodeDone,
       AuditRead, Check, TimeoutCheck, Reaped, MarkRead
  <2>10. QED
    BY <1>2, <2>3, <2>4, <2>5, <2>6, <2>7, <2>8, <2>9 DEF TaskStep
<1>3. ASSUME NEW t \in Tasks, HeartbeatStep(t)
      PROVE  RowStep
  BY <1>3, <1>1 DEF HeartbeatStep, HeartbeatStop, HeartbeatLate, HeartbeatCancel
<1>4. ASSUME NEW q \in Answers, AnswersRead(q) \/ AnswersStep(q)
      PROVE  RowStep
  BY <1>4, <1>1 DEF AnswersRead, AnswersStep, AnswersSpawn
<1>5. ASSUME NEW q \in Cancels, CancelRead(q) \/ CancelStep(q)
      PROVE  RowStep
  <2>1. CASE CancelCommit(q)
    BY <2>1 DEF CancelCommit, Assign, RowStep, Row!Next, Row!RequestCancel
  <2>2. CASE CancelForce(q)
    BY <2>2 DEF CancelForce, RowStep, Row!Next, Row!Close, Row!Terminal
  <2>3. CASE CancelRead(q) \/ CancelSignal(q) \/ CancelAck(q) \/ CancelForceAck(q)
       \/ CancelForceEvent(q)
    BY <2>3, <1>1 DEF CancelRead, CancelSignal, CancelAck, CancelForceAck, CancelForceEvent
  <2>4. QED
    BY <1>5, <2>1, <2>2, <2>3 DEF CancelStep
<1>6. ASSUME NEW q \in Retries, RetryPreview(q) \/ RetryStep(q)
      PROVE  RowStep
  <2>1. CASE RetryTransition(q)
    <3>1. messages # {}
      BY <2>1 DEF RetryTransition, ReqAt, RunInv, RetryResumable
    <3>2. QED
      BY <2>1, <3>1 DEF RetryTransition, RowStep, Row!Next, Row!Restart
  <2>2. CASE RetryPreview(q) \/ RetryPublish(q) \/ RetrySpawn(q)
    BY <2>2, <1>1 DEF RetryPreview, RetryPublish, RetrySpawn
  <2>3. QED
    BY <1>6, <2>1, <2>2 DEF RetryStep
<1>7. CASE Failure
  <2>1. ASSUME NEW t \in Tasks, Fault(t)
        PROVE  RowStep
    BY <2>1, EffectRow DEF Fault
  <2>2. ASSUME NEW t \in Tasks, HeartbeatFault(t)
        PROVE  RowStep
    BY <2>2, <1>1 DEF HeartbeatFault
  <2>3. ASSUME NEW q \in Requests, RequestFault(q)
        PROVE  RowStep
    BY <2>3, <1>1 DEF RequestFault
  <2>4. CASE Crash
    BY <2>4, <1>1 DEF Crash
  <2>5. QED
    BY <1>7, <2>1, <2>2, <2>3, <2>4 DEF Failure
<1>8. CASE Restart
  BY <1>8 DEF Restart, Sweep, SweepPublish, RowStep, row, Row!Next, Row!Close, Row!Terminal
<1>9. QED
  BY <1>2, <1>3, <1>4, <1>5, <1>6, <1>7, <1>8
     DEF Next, AnswersArrive, CancelArrive, RetryArrive

-----------------------------------------------------------------------------
(* What RunRow's steps preserve.                                           *)

LEMMA RowKeeps ==
  ASSUME AnswersOnce, TerminalDated, RowStep
  PROVE  /\ AnswersOnce'
         /\ TerminalDated'
         /\ messages' = messages \/ messages = {}
<1> USE DEF AnswersOnce, TerminalDated, Terminal
<1>1. ASSUME NEW a \in Answers, Row!Accept(a)
      PROVE  /\ AnswersOnce' /\ TerminalDated'
             /\ messages' = messages \/ messages = {}
  <2>1. messages = {} /\ messages' = {a} /\ status' = "running"
    BY <1>1 DEF Row!Accept, Row!Fresh
  <2>2. QED
    BY <2>1
<1>2. CASE Row!Restart
  BY <1>2 DEF Row!Restart
<1>3. CASE Row!RequestCancel
  BY <1>3 DEF Row!RequestCancel
<1>4. CASE Row!Close
  BY <1>4 DEF Row!Close, Row!Terminal
<1>5. CASE Row!Redate
  BY <1>5 DEF Row!Redate
<1>6. CASE UNCHANGED <<status, dated, messages>>
  BY <1>6
<1>7. QED
  BY <1>1, <1>2, <1>3, <1>4, <1>5, <1>6 DEF RowStep, Row!Next

\* Saving the answers of a run that has none spoils nothing said of a task.
LEMMA GoodGrows ==
  ASSUME NEW t, NEW m, Good(t, m, messages), messages' = messages \/ messages = {}
  PROVE  Good(t, m, messages')
  BY DEF Good

-----------------------------------------------------------------------------
(* A step of a task leaves it in a place where Good holds.                 *)

LEMMA TaskStepGood ==
  ASSUME RunInv, NEW t \in Tasks, TaskStep(t) \/ HeartbeatStep(t) \/ Fault(t)
                                  \/ HeartbeatFault(t)
  PROVE  \E m : Become(t, m) /\ Good(t, m, messages')
<1> DEFINE k == task[t]
<1>1. k \in Task /\ Good(t, k, messages)
  BY GoodInv DEF GoodState, TypeOK
<1>2. Owned(k) /\ k.cont \in Continuation
  BY <1>1 DEF Good, Owned, Task
<1>3. messages' = messages \/ messages = {}
  <2>1. RowStep
    BY NextRow DEF Next, Failure
  <2>2. QED
    BY <2>1, RowKeeps DEF RunInv
<1>4. \A m : Good(t, m, messages) => Good(t, m, messages')
  BY <1>3, GoodGrows
<1>5. ASSUME NEW m, Become(t, m), m.pc \in Away, Owned(m)
      PROVE  \E n : Become(t, n) /\ Good(t, n, messages')
  BY <1>5, AwayGood
<1>6. ASSUME NEW m, Become(t, m), Good(t, m, messages)
      PROVE  \E n : Become(t, n) /\ Good(t, n, messages')
  BY <1>4, <1>6
<1>7. CASE FramingLoad(t)
  <2> DEFINE m == [k EXCEPT !.pc = "framing", !.ctx = "body"]
  <2>1. k.hb = "off"
    BY <1>2, <1>7 DEF FramingLoad, At, Owned, StillPC
  <2>2. m.pc \in Away /\ Owned(m)
    BY <1>1, <2>1 DEF Task, Away, Owned, StillPC
  <2>3. QED
    BY <1>5, <1>7, <2>2 DEF FramingLoad
<1>8. CASE FramingDone(t)
  BY <1>5, <1>8, FinishAway DEF FramingDone
<1>9. CASE Start(t)
  <2> DEFINE m == [k EXCEPT !.ctx = "body",
                      !.pc = IF t \in Answers THEN "transition" ELSE "reconstruct"]
  <2>1. k.pc = "ready" /\ t \in Answers \cup Retries
    BY <1>1, <1>9 DEF Start, At, Good
  <2>2. k.hb = "off"
    BY <1>2, <2>1 DEF Owned, StillPC
  <2>3. m.hb = "off" /\ m.pc = (IF t \in Answers THEN "transition" ELSE "reconstruct")
    BY <1>1, <2>2 DEF Task
  <2>4. Owned(m)
    BY <2>3 DEF Owned
  <2>5. Good(t, m, messages)
    BY <1>1, <2>1, <2>3, <2>4, RequestsAssumption DEF Good, DrivingPC
  <2>6. QED
    BY <1>6, <1>9, <2>5 DEF Start
<1>10. ASSUME NEW n \in 1 .. MaxNodes
       PROVE  Drive(k, n).pc = "node" /\ Owned(Drive(k, n))
  BY <1>1 DEF Drive, Task, Owned, StillPC
<1>11. CASE Accept(t)
  <2>1. PICK n \in 1 .. MaxNodes : Become(t, Drive(k, n))
    BY <1>11 DEF Accept
  <2>2. messages' = {t}
    BY <1>11 DEF Accept, AcceptEffect, RunInv, AnswersOnce
  <2>3. Good(t, Drive(k, n), messages')
    BY <1>10, <2>2 DEF Good, DrivingPC
  <2>4. QED
    BY <2>1, <2>3
<1>12. CASE Refuse(t)
  <2>1. k.hb = "off"
    BY <1>2, <1>12 DEF Refuse, At, Owned, StillPC
  <2>2. QED
    BY <1>5, <1>12, <1>1, <2>1, MarkAway DEF Refuse
<1>13. CASE Reconstruct(t)
  <2>1. t \in Retries /\ messages # {} /\ k.pc = "reconstruct"
    BY <1>1, <1>13 DEF Reconstruct, At, Good
  <2>2. PICK n \in 1 .. MaxNodes : Become(t, Drive(k, n))
    BY <1>13, <2>1 DEF Reconstruct
  <2>3. Good(t, Drive(k, n), messages)
    BY <1>10, <2>1, RequestsAssumption DEF Good, DrivingPC
  <2>4. QED
    BY <1>6, <2>2, <2>3
<1>14. ASSUME NEW m \in Task, Become(t, m), k.pc \in DrivingPC, m.pc \in DrivingPC,
              m.ctx = k.ctx, m.hb = k.hb
       PROVE  \E n : Become(t, n) /\ Good(t, n, messages')
  <2>1. Owned(m)
    BY <1>2, <1>14 DEF Owned, StillPC, DrivingPC
  <2>2. Good(t, m, messages)
    BY <1>1, <1>14, <2>1 DEF Good, DrivingPC
  <2>3. QED
    BY <1>6, <1>14, <2>2
<1>15. CASE NodeDone(t)
  <2> DEFINE m == [k EXCEPT !.pc = "check", !.left = @ - 1]
  <2>1. m.pc = "check" /\ m.ctx = k.ctx /\ m.hb = k.hb
    BY <1>1 DEF Task
  <2>2. k.left - 1 \in 0 .. MaxNodes
    BY <1>1, <1>15, BoundsAssumption DEF NodeDone, Task
  <2>3. m \in Task
    BY <1>1, <2>2 DEF Task, PC
  <2>4. QED
    BY <1>14, <1>15, <2>1, <2>3 DEF NodeDone, At, DrivingPC
<1>16. CASE AuditRead(t)
  <2> DEFINE m == [k EXCEPT !.pc = "auditWrite", !.seen = status]
  <2>1. m \in Task /\ m.pc = "auditWrite" /\ m.ctx = k.ctx /\ m.hb = k.hb
    BY <1>1, GoodInv DEF GoodState, Task, PC, TypeOK
  <2>2. QED
    BY <1>14, <1>16, <2>1 DEF AuditRead, At, DrivingPC
<1>17. CASE AuditWrite(t)
  <2> DEFINE m == [k EXCEPT !.pc = "auditPublish", !.seen = "created"]
  <2>1. m \in Task /\ m.pc = "auditPublish" /\ m.ctx = k.ctx /\ m.hb = k.hb
    BY <1>1 DEF Task, PC, Status
  <2>2. QED
    BY <1>14, <1>17, <2>1 DEF AuditWrite, At, DrivingPC
<1>18. CASE AuditPublish(t)
  <2> DEFINE m == [k EXCEPT !.pc = "check", !.left = 0]
  <2>1. 0 \in 0 .. MaxNodes
    BY BoundsAssumption
  <2>2. m \in Task /\ m.pc = "check" /\ m.ctx = k.ctx /\ m.hb = k.hb
    BY <1>1, <2>1 DEF Task, PC
  <2>3. QED
    BY <1>14, <1>18, <2>2 DEF AuditPublish, At, DrivingPC
<1>19. CASE Check(t)
  <2> DEFINE m == [k EXCEPT !.pc = "node"]
  <2>1. m \in Task /\ m.pc = "node" /\ m.ctx = k.ctx /\ m.hb = k.hb
    BY <1>1 DEF Task, PC
  <2>2. CASE Become(t, m)
    BY <1>14, <1>19, <2>1, <2>2 DEF Check, At, DrivingPC
  <2>3. CASE Become(t, Reap(k, "broke")) \/ Become(t, Reap(k, "ended"))
    BY <1>1, <1>5, <2>3, ReapAway DEF Continuation
  <2>4. QED
    BY <1>19, <2>2, <2>3 DEF Check
<1>20. CASE TimeoutCheck(t)
  BY <1>1, <1>5, <1>20, MarkAway DEF TimeoutCheck
<1>21. CASE Reaped(t)
  <2>1. k.hb = "off"
    BY <1>2, <1>21 DEF Reaped, At, Owned, StillPC
  <2>2. QED
    BY <1>1, <1>2, <1>5, <1>21, <2>1, ResumeAway DEF Reaped
<1>22. ASSUME NEW m, Become(t, m), m.pc \in Away \ StillPC, m.ctx = k.ctx, m.hb = k.hb
       PROVE  \E n : Become(t, n) /\ Good(t, n, messages')
  <2>1. Owned(m)
    BY <1>2, <1>22 DEF Owned
  <2>2. QED
    BY <1>5, <1>22, <2>1
<1>23. CASE MarkRead(t)
  <2> DEFINE m == [k EXCEPT !.pc = "markWrite", !.seen = status]
  <2>1. m.pc = "markWrite" /\ m.ctx = k.ctx /\ m.hb = k.hb
    BY <1>1 DEF Task
  <2>2. QED
    BY <1>22, <1>23, <2>1 DEF MarkRead, Away, StillPC
<1>24. CASE MarkWrite(t)
  <2> DEFINE m == [k EXCEPT !.pc = "markPublish", !.seen = "created"]
  <2>1. m.pc = "markPublish" /\ m.ctx = k.ctx /\ m.hb = k.hb
    BY <1>1 DEF Task
  <2>2. QED
    BY <1>22, <1>24, <2>1 DEF MarkWrite, Away, StillPC
<1>25. CASE MarkPublish(t)
  <2>1. Become(t, Reap(k, "return")) \/ Become(t, Finish(k))
    BY <1>25 DEF MarkPublish
  <2>2. QED
    BY <1>1, <1>5, <2>1, FinishAway, ReapAway DEF Continuation
<1>26. CASE Final(t)
  <2>1. k.hb = "off"
    BY <1>2, <1>26 DEF Final, At, Owned, StillPC
  <2>2. Become(t, Mark(k, "failed", "body")) \/ Become(t, Finish(k))
    BY <1>26 DEF Final
  <2>3. QED
    BY <1>1, <1>5, <2>1, <2>2, FinishAway, MarkAway
<1>27. CASE Interrupt(t)
  <2> DEFINE m == [k EXCEPT !.cancel = FALSE]
  <2>1. m \in Task /\ m.pc = k.pc /\ m.ctx = k.ctx /\ m.hb = k.hb
    BY <1>1 DEF Task
  <2>2. Owned(m)
    BY <1>2, <2>1 DEF Owned
  <2>3. QED
    BY <1>5, <1>27, <2>1, <2>2, RaiseAway DEF Interrupt
<1>28. CASE Fault(t)
  BY <1>1, <1>2, <1>5, <1>28, RaiseAway DEF Fault
<1>29. ASSUME NEW m, Become(t, m), m.pc = k.pc, m.ctx = k.ctx,
              m.hb # "off" => k.hb # "off"
       PROVE  \E n : Become(t, n) /\ Good(t, n, messages')
  <2>1. Owned(m)
    BY <1>2, <1>29 DEF Owned
  <2>2. Good(t, m, messages)
    BY <1>1, <1>29, <2>1 DEF Good
  <2>3. QED
    BY <1>6, <1>29, <2>2
<1>30. CASE HeartbeatStop(t)
  <2> DEFINE m == [k EXCEPT !.hb = "off"]
  <2>1. m.pc = k.pc /\ m.ctx = k.ctx /\ m.hb = "off"
    BY <1>1 DEF Task
  <2>2. QED
    BY <1>29, <1>30, <2>1 DEF HeartbeatStop
<1>31. CASE HeartbeatLate(t)
  <2> DEFINE m == [k EXCEPT !.hb = IF status = "cancelling" THEN "lateCancelling" ELSE "late"]
  <2>1. m.pc = k.pc /\ m.ctx = k.ctx /\ k.hb = "sleep"
    BY <1>1, <1>31 DEF Task, HeartbeatLate
  <2>2. QED
    BY <1>29, <1>31, <2>1 DEF HeartbeatLate
<1>32. CASE HeartbeatCancel(t)
  <2> DEFINE m == [k EXCEPT !.cancel = TRUE, !.hb = "off", !.overdue = @ \/ k.hb = "late"]
  <2>1. m.pc = k.pc /\ m.ctx = k.ctx /\ m.hb = "off"
    BY <1>1 DEF Task
  <2>2. QED
    BY <1>29, <1>32, <2>1 DEF HeartbeatCancel
<1>33. CASE HeartbeatFault(t)
  <2> DEFINE m == [k EXCEPT !.hb = "crashed"]
  <2>1. m.pc = k.pc /\ m.ctx = k.ctx /\ k.hb = "sleep"
    BY <1>1, <1>33 DEF Task, HeartbeatFault
  <2>2. QED
    BY <1>29, <1>33, <2>1 DEF HeartbeatFault
<1>34. QED
  BY <1>7, <1>8, <1>9, <1>11, <1>12, <1>13, <1>15, <1>16, <1>17, <1>18, <1>19, <1>20,
     <1>21, <1>23, <1>24, <1>25, <1>26, <1>27, <1>28, <1>30, <1>31, <1>32, <1>33
     DEF TaskStep, HeartbeatStep

-----------------------------------------------------------------------------
(* Spawning, cancelling and losing tasks; the handlers of retries.         *)

LEMMA SpawnGood ==
  ASSUME RunInv, NEW q \in Answers \cup Retries, Spawn(q), messages' = messages,
         q \in Retries => messages # {}
  PROVE  \A t \in Tasks : Good(t, task'[t], messages')
<1> DEFINE new == [Blank EXCEPT !.pc = "ready"]
<1>1. task \in [Tasks -> Task] /\ \A t \in Tasks : Good(t, task[t], messages)
  BY GoodInv DEF GoodState, TypeOK
<1>2. new.pc = "ready" /\ Owned(new)
  BY DEF Blank, Owned
<1>3. Good(q, new, messages)
  BY <1>2 DEF Good, DrivingPC
<1>4. \A t \in Tasks : task'[t] = IF t = q THEN new ELSE task[t]
  BY <1>1 DEF Spawn
<1>5. QED
  BY <1>1, <1>3, <1>4

LEMMA SignalGood ==
  ASSUME RunInv, NEW q \in Cancels, CancelSignal(q)
  PROVE  \A t \in Tasks : Good(t, task'[t], messages')
<1>1. task \in [Tasks -> Task] /\ \A t \in Tasks : Good(t, task[t], messages)
  BY GoodInv DEF GoodState, TypeOK
<1>2. messages' = messages
  BY DEF CancelSignal, row
<1>3. CASE task' = task
  BY <1>1, <1>2, <1>3
<1>4. CASE Cancellable
  <2> DEFINE hit == [task[registry] EXCEPT !.cancel = TRUE]
  <2>1. registry \in Tasks
    BY <1>4, GoodInv DEF GoodState, Cancellable, TypeOK
  <2>2. task[registry] \in Task /\ Good(registry, task[registry], messages)
    BY <1>1, <2>1
  <2>3. hit.pc = task[registry].pc /\ hit.ctx = task[registry].ctx
        /\ hit.hb = task[registry].hb
    BY <2>2 DEF Task
  <2>4. Good(registry, hit, messages)
    BY <2>2, <2>3 DEF Good, Owned
  <2>5. \A t \in Tasks : task'[t] = IF t = registry THEN hit ELSE task[t]
    BY <1>1, <1>4, <2>1 DEF CancelSignal
  <2>6. QED
    BY <1>1, <1>2, <2>4, <2>5
<1>5. QED
  BY <1>3, <1>4 DEF CancelSignal

LEMMA CrashGood ==
  ASSUME RunInv, Crash
  PROVE  (\A t \in Tasks : Good(t, task'[t], messages')) /\ ReqGood(messages)'
<1>1. \A t \in Tasks : Good(t, task[t], messages)
  BY GoodInv DEF GoodState
<1>2. \A t \in Tasks : Good(t, Finish(task[t]), messages)
  BY FinishAway, AwayGood
<1>3. \A r \in Retries : req'[r].pc \in {"idle", "done"}
  BY DEF Crash, RunInv, TypeOK, Requests, Request
<1>4. QED
  BY <1>1, <1>2, <1>3 DEF Crash, row, ReqGood

\* Only a retry whose preview found saved answers gets past its first step.
LEMMA ReqStepGood ==
  ASSUME RunInv, NEW q \in Requests, NEW p \in ReqPC, ReqGoto(q, p), messages' = messages,
         q \in Retries /\ p \in {"transition", "publish", "spawn"} => messages # {}
  PROVE  ReqGood(messages)'
<1>1. ReqGood(messages) /\ req \in [Requests -> Request]
  BY GoodInv DEF GoodState, TypeOK
<1>2. \A r \in Retries : req'[r].pc = IF r = q THEN p ELSE req[r].pc
  BY <1>1 DEF ReqGoto, Request, Requests
<1>3. QED
  BY <1>1, <1>2 DEF ReqGood

\* A cancel request is not a retry.
LEMMA CancelReqGood ==
  ASSUME RunInv, NEW q \in Cancels, messages' = messages,
         \A r \in Requests : r # q => req'[r] = req[r]
  PROVE  ReqGood(messages)'
<1>1. ReqGood(messages)
  BY GoodInv DEF GoodState
<1>2. \A r \in Retries : req'[r] = req[r]
  BY RequestsAssumption DEF Requests
<1>3. QED
  BY <1>1, <1>2 DEF ReqGood

LEMMA HandlerGood ==
  ASSUME RunInv,
         \/ \E q \in Answers : AnswersRead(q) \/ AnswersStep(q)
         \/ \E q \in Cancels : CancelRead(q) \/ CancelStep(q)
         \/ \E q \in Retries : RetryPreview(q) \/ RetryStep(q)
  PROVE  (\A t \in Tasks : Good(t, task'[t], messages')) /\ ReqGood(messages)'
<1>1. /\ \A t \in Tasks : Good(t, task[t], messages)
      /\ ReqGood(messages)
      /\ req \in [Requests -> Request]
  BY GoodInv DEF GoodState, TypeOK
<1>2. ASSUME NEW q \in Answers, AnswersRead(q) \/ AnswersStep(q)
      PROVE  (\A t \in Tasks : Good(t, task'[t], messages')) /\ ReqGood(messages)'
  <2>1. messages' = messages /\ q \in Requests /\ q \notin Retries
    BY <1>2, RequestsAssumption
       DEF AnswersRead, AnswersStep, AnswersSpawn, row, Requests
  <2>2. \E p \in ReqPC : ReqGoto(q, p)
    BY <1>2 DEF AnswersRead, AnswersStep, AnswersSpawn, ReqPC
  <2>3. ReqGood(messages)'
    BY <2>1, <2>2, ReqStepGood
  <2>4. CASE AnswersRead(q)
    BY <1>1, <2>1, <2>3, <2>4 DEF AnswersRead
  <2>5. CASE AnswersSpawn(q)
    BY <2>1, <2>3, <2>5, SpawnGood DEF AnswersSpawn
  <2>6. QED
    BY <1>2, <2>4, <2>5 DEF AnswersStep
<1>3. ASSUME NEW q \in Cancels, CancelRead(q) \/ CancelStep(q)
      PROVE  (\A t \in Tasks : Good(t, task'[t], messages')) /\ ReqGood(messages)'
  <2>1. messages' = messages
    BY <1>3 DEF CancelRead, CancelStep, CancelCommit, CancelSignal, CancelAck, CancelForce,
                CancelForceAck, CancelForceEvent, row
  <2>2. \A r \in Requests : r # q => req'[r] = req[r]
    BY <1>1, <1>3 DEF CancelRead, CancelStep, CancelCommit, CancelSignal, CancelAck,
                      CancelForce, CancelForceAck, CancelForceEvent, ReqGoto
  <2>3. ReqGood(messages)'
    BY <2>1, <2>2, CancelReqGood
  <2>4. CASE CancelSignal(q)
    BY <2>3, <2>4, SignalGood
  <2>5. CASE ~CancelSignal(q)
    BY <1>1, <1>3, <2>1, <2>3, <2>5
       DEF CancelRead, CancelStep, CancelCommit, CancelAck, CancelForce, CancelForceAck,
           CancelForceEvent
  <2>6. QED
    BY <2>4, <2>5
<1>4. ASSUME NEW q \in Retries, RetryPreview(q) \/ RetryStep(q)
      PROVE  (\A t \in Tasks : Good(t, task'[t], messages')) /\ ReqGood(messages)'
  <2>1. messages' = messages /\ q \in Requests
    BY <1>4 DEF RetryPreview, RetryStep, RetryTransition, RetryPublish, RetrySpawn, row,
                Requests
  <2>2. req[q].pc \in {"transition", "publish", "spawn"} => messages # {}
    BY <1>1 DEF ReqGood
  <2>3. PICK p \in ReqPC : ReqGoto(q, p) /\ (p # "done" => messages # {})
    BY <1>4, <2>2 DEF RetryPreview, RetryStep, RetryTransition, RetryPublish, RetrySpawn,
                      ReqAt, ReqPC
  <2>4. ReqGood(messages)'
    BY <2>1, <2>3, ReqStepGood
  <2>5. CASE RetrySpawn(q)
    BY <2>1, <2>2, <2>4, <2>5, SpawnGood DEF RetrySpawn, ReqAt
  <2>6. CASE ~RetrySpawn(q)
    BY <1>1, <1>4, <2>1, <2>4, <2>6 DEF RetryPreview, RetryStep, RetryTransition, RetryPublish
  <2>7. QED
    BY <2>5, <2>6
<1>5. QED
  BY <1>2, <1>3, <1>4

-----------------------------------------------------------------------------
(* The invariant.                                                          *)

LEMMA InitInv == Init => RunInv
<1> SUFFICES ASSUME Init PROVE RunInv
  OBVIOUS
<1>1. TypeOK
  BY InitType
<1>2. AnswersOnce /\ TerminalDated /\ ReqGood(messages)
  BY DEF Init, AnswersOnce, TerminalDated, Terminal, ReqGood, Requests
<1>3. \A t \in Tasks : Good(t, task[t], messages)
  <2>1. Good(Creator, [Blank EXCEPT !.pc = "load"], messages)
    BY DEF Blank, Good, Owned, DrivingPC
  <2>2. \A t : Good(t, Blank, messages)
    BY DEF Blank, Good, Owned, StillPC, DrivingPC
  <2>3. QED
    BY <2>1, <2>2 DEF Init
<1>4. QED
  BY <1>1, <1>2, <1>3, GoodInv DEF GoodState

LEMMA NextInv == RunInv /\ Next => RunInv'
<1> SUFFICES ASSUME RunInv, Next PROVE RunInv'
  OBVIOUS
<1>1. TypeOK'
  BY NextType DEF RunInv
<1>2. AnswersOnce' /\ TerminalDated' /\ (messages' = messages \/ messages = {})
  BY NextRow, RowKeeps DEF RunInv
<1>3. /\ task \in [Tasks -> Task]
      /\ \A t \in Tasks : Good(t, task[t], messages)
      /\ ReqGood(messages)
  BY GoodInv DEF GoodState, TypeOK
<1>4. (\A t \in Tasks : Good(t, task'[t], messages')) /\ ReqGood(messages)'
  <2>1. ASSUME NEW t \in Tasks,
               TaskStep(t) \/ HeartbeatStep(t) \/ Fault(t) \/ HeartbeatFault(t)
        PROVE  (\A s \in Tasks : Good(s, task'[s], messages')) /\ ReqGood(messages)'
    <3>1. PICK m : Become(t, m) /\ Good(t, m, messages')
      BY <2>1, TaskStepGood
    <3>2. \A s \in Tasks : task'[s] = IF s = t THEN m ELSE task[s]
      BY <1>3, <3>1 DEF Become
    <3>3. \A s \in Tasks : Good(s, task[s], messages')
      BY <1>2, <1>3, GoodGrows
    <3>4. req' = req
      BY <2>1 DEF TaskStep, HeartbeatStep, Fault, HeartbeatFault, FramingLoad, FramingDone,
         Start, Accept, Refuse, Reconstruct, NodeDone, AuditRead, AuditWrite, AuditPublish,
         Check, TimeoutCheck, Reaped, MarkRead, MarkWrite, MarkPublish, Final, Interrupt,
         HeartbeatStop, HeartbeatLate, HeartbeatCancel
    <3>5. ReqGood(messages)'
      BY <1>2, <1>3, <3>4 DEF ReqGood
    <3>6. QED
      BY <3>1, <3>2, <3>3, <3>5
  <2>2. ASSUME NEW q \in Requests, RequestFault(q)
        PROVE  (\A s \in Tasks : Good(s, task'[s], messages')) /\ ReqGood(messages)'
    <3>1. messages' = messages /\ task' = task /\ ReqGoto(q, "done") /\ "done" \in ReqPC
      BY <2>2 DEF RequestFault, row, ReqPC
    <3>2. QED
      BY <1>3, <3>1, ReqStepGood
  <2>3. CASE Restart
    BY <1>3, <2>3 DEF Restart, Sweep, SweepPublish, row, ReqGood
  <2>4. CASE \/ \E q \in Answers : AnswersRead(q) \/ AnswersStep(q)
             \/ \E q \in Cancels : CancelRead(q) \/ CancelStep(q)
             \/ \E q \in Retries : RetryPreview(q) \/ RetryStep(q)
    BY <2>4, HandlerGood
  <2>5. CASE Crash
    BY <2>5, CrashGood
  <2>6. QED
    BY <2>1, <2>2, <2>3, <2>4, <2>5
       DEF Next, AnswersArrive, CancelArrive, RetryArrive, Failure
<1>5. GoodState'
  BY <1>1, <1>2, <1>4 DEF GoodState
<1>6. QED
  BY <1>5, GoodInv, PTL

LEMMA StutterInv == RunInv /\ UNCHANGED vars => RunInv'
  BY DEF RunInv, TypeOK, Placed, AnswersOnce, DriverHasAnswers, RetryResumable,
         TerminalDated, HeartbeatOwned, Driving, vars, row, world

\* In every reachable state, whatever races, fails or restarts: the types,
\* one set of answers at most, drivers and retries that have answers, dated
\* terminal rows, heartbeats that die with their drive.
THEOREM RunSafe == Spec => []RunInv
<1>1. RunInv /\ [Next]_vars => RunInv'
  BY NextInv, StutterInv
<1>2. QED
  BY InitInv, <1>1, PTL DEF Spec

-----------------------------------------------------------------------------
(* The properties.                                                         *)

\* One set of answers per run, however many POST /answers are accepted.
THEOREM OneSetOfAnswers == Spec => []AnswersOnce
<1>1. RunInv => AnswersOnce
  BY DEF RunInv
<1>2. QED
  BY RunSafe, <1>1, PTL

\* _drive_pipeline only ever runs on the answers that were saved.
THEOREM DriversHaveAnswers == Spec => []DriverHasAnswers
<1>1. RunInv => DriverHasAnswers
  BY DEF RunInv
<1>2. QED
  BY RunSafe, <1>1, PTL

\* _reconstruct_retry_state never lacks the answers retry_run checked for.
THEOREM RetriesResumable == Spec => []RetryResumable
<1>1. RunInv => RetryResumable
  BY DEF RunInv
<1>2. QED
  BY RunSafe, <1>1, PTL

\* Every terminal row has a completed_at, whoever wrote it last.
THEOREM TerminalRowsDated == Spec => []TerminalDated
<1>1. RunInv => TerminalDated
  BY DEF RunInv
<1>2. QED
  BY RunSafe, <1>1, PTL

\* The finally of _drive_pipeline stops the heartbeat on every way out.
THEOREM HeartbeatsOwned == Spec => []HeartbeatOwned
<1>1. RunInv => HeartbeatOwned
  BY DEF RunInv
<1>2. QED
  BY RunSafe, <1>1, PTL

\* The handlers, tasks and restarts together implement RunRow: whatever they
\* do to the row is one of the few things RunRow allows.
THEOREM ImplementsRow == Spec => RowSpec
<1>1. Init => Row!Init
  BY DEF Init, Row!Init
<1>2. RunInv /\ [Next]_vars => [Row!Next]_<<status, dated, messages>>
  <2>1. UNCHANGED vars => UNCHANGED <<status, dated, messages>>
    BY DEF vars, row
  <2>2. QED
    BY <2>1, NextRow DEF RowStep
<1>3. QED
  BY <1>1, <1>2, RunSafe, PTL DEF Spec, RowSpec, Row!Spec, Row!vars

-----------------------------------------------------------------------------
(* An undisturbed run: nobody cancels it, it stays within its time budget, *)
(* its answers come once, after framing, and one operation fails at most.  *)
(* The process may die, and POST /retry come, any number of times.  With   *)
(* less the three properties below fail: a second failure, a late mark of  *)
(* a cancel or of the timeout writes on a row that a retry already took.   *)

Undisturbed ==
    /\ Cancels = {} /\ Slow = {} /\ ~EarlyAnswers
    /\ \A a, b \in Answers : a = b
    /\ MaxFaults <= 1

MarkPC == {"markRead", "markWrite", "markPublish"}

\* The awaits behind which a task may still write the run's status.
WorkPC == {"load", "framing", "ready", "transition", "reconstruct", "final",
           "markRead", "markWrite"} \cup DrivingPC

Works(k) == k.pc \in WorkPC \/ (k.pc = "reap" /\ k.cont = "ended")

\* A handler that will spawn task t.
Asks(t) == t \in Requests /\ req[t].pc \in {"publish", "spawn"}

\* The right to write the status: one task, or the handler about to spawn it.
Holds(t) == Works(task[t]) \/ Asks(t)

SoleHolder == \A s, t \in Tasks : Holds(s) /\ Holds(t) => s = t

\* The try block of each await; no task is cancelled, and it takes the one
\* failure to crash a heartbeat or to get to an except clause.
Blocks(k) ==
    /\ k.pc \in {"absent", "done", "load", "ready"} => k.ctx = "bare"
    /\ k.pc \in {"framing", "transition", "reconstruct", "final"} => k.ctx = "body"
    /\ k.pc \in DrivingPC => k.ctx = "drive"
    /\ k.pc = "reap" => k.ctx = "finally"
    /\ k.pc \in MarkPC => k.ctx \in {"handler", "outer"}

Calm(k, f) ==
    /\ Blocks(k)
    /\ k.pc # "timeout" /\ ~k.cancel
    /\ k.hb \in {"off", "sleep", "crashed"}
    /\ k.target = "failed"
    /\ k.cont \in {"return", "ended"}
    /\ k.hb = "crashed" => k.ctx = "drive" /\ f = 1
    /\ k.pc \in MarkPC => f = 1

AllCalm == \A t \in Tasks : Calm(task[t], faults)

Spawned(t) == IF t \in Answers THEN "questioning" ELSE "running"

\* What task t with record k may assume of a status s at each await.
Expects(t, k, s) ==
    /\ k.pc = "ready" => s = Spawned(t)
    /\ k.pc = "transition" => s = "questioning"
    /\ k.pc \in {"reconstruct", "node", "auditWrite"} => s = "running"
    /\ k.pc = "node" => k.left > 0
    /\ k.pc = "auditWrite" => k.seen = "running"
    /\ k.pc = "check" => s = IF k.left = 0 THEN "completed" ELSE "running"
    /\ k.pc \in {"auditPublish", "final", "reap"} => s = "completed"
    /\ k.pc = "markWrite" => k.seen = s

Unended == {"questioning", "running", "completed"}

\* What the status s is while t holds it: never one a retry would take.
Owns(t, s) ==
    /\ s \in Unended
    /\ t = Creator => s = "questioning"
    /\ t \in Retries => s \in {"running", "completed"}

Held ==
    \A t \in Tasks : Holds(t) =>
        /\ Owns(t, status)
        /\ Expects(t, task[t], status)
        /\ Asks(t) => status = Spawned(t)
        /\ t \in Retries /\ crashes = 0 => faults = 1

\* A task starts with its request, and the answers wait for framing.
InTurn ==
    /\ \A q \in Answers \cup Retries : req[q].pc # "done" => task[q].pc = "absent"
    /\ \A a \in Answers : req[a].pc \notin {"transition", "publish"}
    /\ Live(Creator) => \A a \in Answers : req[a].pc = "idle"
    /\ \A t \in Tasks : task[t].pc \in {"load", "framing"} => t = Creator

Dead ==
    up # "up" =>
        /\ crashes > 0
        /\ \A t \in Tasks : ~Live(t)
        /\ \A q \in Requests : req[q].pc \in {"idle", "done"}

\* As long as the process lives a running run is held, and a failed one has
\* met the failure.
Manned ==
    crashes = 0 =>
        /\ status = "running" => \E t \in Tasks : Holds(t)
        /\ status = "failed" => faults = 1

\* The event that is to correct the last one is on its way.
Telling == \E t \in Tasks : task[t].pc = "markPublish"

Reports ==
    crashes = 0 /\ Untouched =>
        /\ lastEvent \in {"none", "run_completed", "run_failed"}
        /\ Telling => status = "failed"
        /\ lastEvent = "run_failed" => status = "failed"
        /\ lastEvent = "run_completed" => status = "completed" \/ (status = "failed" /\ Telling)

LoneInv ==
    /\ RunInv
    /\ status \in Unended \cup {"failed"}
    /\ AllCalm
    /\ SoleHolder
    /\ Held
    /\ InTurn
    /\ Dead
    /\ Manned
    /\ Reports

-----------------------------------------------------------------------------

\* A live task's request is over.
LEMMA LiveAsks ==
  ASSUME InTurn, NEW t \in Tasks, Live(t)
  PROVE  ~Asks(t)
<1>1. CASE t = Creator
  BY <1>1, RequestsAssumption DEF Asks
<1>2. CASE t \in Answers \cup Retries
  BY <1>2 DEF InTurn, Live, Asks
<1>3. QED
  BY <1>1, <1>2 DEF Tasks

LEMMA FaultsNat ==
  ASSUME TypeOK, Undisturbed
  PROVE  /\ faults \in {0, 1} /\ crashes \in Nat
         /\ faults < MaxFaults => faults = 0
  BY BoundsAssumption DEF TypeOK, Undisturbed

\* What task t does to itself and to the row from one await to the next.
Turn(t, m) ==
    /\ Become(t, m)
    /\ UNCHANGED <<req, up, crashes>>
    /\ faults' = faults \/ (faults = 0 /\ faults' = 1)
    /\ \/ status' = status
       \/ /\ Holds(t)
          /\ \/ status = "questioning" /\ status' = "running"
             \/ status = "running" /\ status' = "completed"
             \/ status' = "failed" /\ faults = 1 /\ m.pc = "markPublish"
    /\ Works(m) => Holds(t) /\ Owns(t, status') /\ Expects(t, m, status')
    /\ Holds(t) => Works(m) \/ status' # "running"
    /\ m.pc \in {"load", "framing"} => t = Creator
    /\ m.pc # "absent"

\* What it tells the page meanwhile.
Tells(t, m) ==
    /\ \/ lastEvent' = lastEvent /\ (task[t].pc = "markPublish" => m.pc = "markPublish")
       \/ lastEvent' = "run_completed" /\ status' = "completed" /\ task[t].pc # "markPublish"
       \/ lastEvent' = "run_failed" /\ task[t].pc = "markPublish"
    /\ m.pc = "markPublish" => task[t].pc = "markPublish" \/ status' = "failed"

LEMMA TurnTasks ==
  ASSUME LoneInv, NEW t \in Tasks, NEW m, Become(t, m)
  PROVE  \A s \in Tasks : task'[s] = IF s = t THEN m ELSE task[s]
  BY DEF LoneInv, RunInv, TypeOK, Become

LEMMA TurnLone ==
  ASSUME LoneInv, Undisturbed, NEW t \in Tasks, Live(t), NEW m,
         Turn(t, m), Tells(t, m), Calm(m, faults')
  PROVE  /\ status' \in Unended \cup {"failed"}
         /\ AllCalm' /\ SoleHolder' /\ Held' /\ InTurn' /\ Dead' /\ Manned' /\ Reports'
<1>1. \A s \in Tasks : task'[s] = IF s = t THEN m ELSE task[s]
  BY TurnTasks DEF Turn
<1>2. /\ req' = req /\ up' = up /\ crashes' = crashes
      /\ faults' = faults \/ (faults = 0 /\ faults' = 1)
  BY DEF Turn
<1>3. ~Asks(t) /\ (\A s : Asks(s)' <=> Asks(s))
  BY <1>2, LiveAsks DEF LoneInv, Asks
<1>4. \A s \in Tasks : s # t => (Holds(s)' <=> Holds(s))
  BY <1>1, <1>3 DEF Holds, Works
<1>5. Holds(t)' <=> Works(m)
  BY <1>1, <1>3 DEF Holds, Works
<1>6. Holds(t)' => Holds(t)
  BY <1>5 DEF Turn
<1>7. SoleHolder'
  BY <1>4, <1>6 DEF LoneInv, SoleHolder
<1>8. AllCalm'
  <2>1. ASSUME NEW s \in Tasks, s # t PROVE Calm(task[s], faults)'
    <3>1. Calm(task[s], faults)
      BY DEF LoneInv, AllCalm
    <3>2. task'[s] = task[s]
      BY <1>1, <2>1
    <3>3. QED
      BY <3>1, <3>2, <1>2 DEF Calm, Blocks
  <2>2. Calm(task[t], faults)'
    BY <1>1 DEF Calm, Blocks
  <2>3. QED
    BY <2>1, <2>2 DEF AllCalm
<1>9. Held'
  <2>1. ASSUME NEW s \in Tasks, s # t, Holds(s)'
        PROVE  /\ Owns(s, status') /\ Expects(s, task'[s], status')
               /\ Asks(s)' => status' = Spawned(s)
               /\ s \in Retries /\ crashes' = 0 => faults' = 1
    <3>1. Holds(s) /\ ~Holds(t)
      BY <2>1, <1>4 DEF LoneInv, SoleHolder
    <3>2. status' = status /\ task'[s] = task[s]
      BY <1>1, <2>1, <3>1 DEF Turn
    <3>3. QED
      BY <3>1, <3>2, <1>2, <1>3 DEF LoneInv, Held
  <2>2. ASSUME Holds(t)'
        PROVE  /\ Owns(t, status') /\ Expects(t, task'[t], status')
               /\ ~Asks(t)'
               /\ t \in Retries /\ crashes' = 0 => faults' = 1
    <3>1. Holds(t) /\ Works(m)
      BY <2>2, <1>5, <1>6
    <3>2. QED
      BY <3>1, <1>1, <1>2, <1>3 DEF LoneInv, Held, Turn
  <2>3. QED
    BY <2>1, <2>2 DEF Held
<1>10. InTurn'
  <2>1. \A q \in Answers \cup Retries : req[q].pc # "done" => q # t
    BY DEF LoneInv, InTurn, Live
  <2>2. Live(Creator)' => Live(Creator)
    BY <1>1 DEF Live, Tasks
  <2>3. \A q \in Answers \cup Retries : req'[q].pc # "done" => task'[q].pc = "absent"
    BY <2>1, <1>1, <1>2 DEF LoneInv, InTurn, Tasks
  <2>4. \A s \in Tasks : task'[s].pc \in {"load", "framing"} => s = Creator
    BY <1>1 DEF LoneInv, InTurn, Turn
  <2>5. QED
    BY <2>2, <2>3, <2>4, <1>2 DEF LoneInv, InTurn
<1>11. Dead'
  <2>1. up = "up"
    BY DEF LoneInv, Dead
  <2>2. QED
    BY <2>1, <1>2 DEF Dead
<1>12. Manned'
  <2>1. ASSUME crashes = 0, status' = "running" PROVE \E s \in Tasks : Holds(s)'
    <3>1. CASE Holds(t)
      BY <3>1, <2>1, <1>5 DEF Turn
    <3>2. CASE ~Holds(t)
      <4>1. status = "running"
        BY <3>2, <2>1 DEF Turn
      <4>2. PICK s \in Tasks : Holds(s)
        BY <4>1, <2>1 DEF LoneInv, Manned
      <4>3. Holds(s)'
        BY <4>2, <3>2, <1>4
      <4>4. QED
        BY <4>3
    <3>3. QED
      BY <3>1, <3>2
  <2>2. ASSUME crashes = 0, status' = "failed" PROVE faults' = 1
    BY <2>2, <1>2 DEF LoneInv, Manned, Turn
  <2>3. QED
    BY <2>1, <2>2, <1>2 DEF Manned
<1>13. Reports'
  <2> SUFFICES ASSUME crashes' = 0, Untouched'
      PROVE /\ lastEvent' \in {"none", "run_completed", "run_failed"}
            /\ Telling' => status' = "failed"
            /\ lastEvent' = "run_failed" => status' = "failed"
            /\ lastEvent' = "run_completed"
                 => status' = "completed" \/ (status' = "failed" /\ Telling')
    BY DEF Reports
  <2>1. /\ lastEvent \in {"none", "run_completed", "run_failed"}
        /\ Telling => status = "failed"
        /\ lastEvent = "run_failed" => status = "failed"
        /\ lastEvent = "run_completed" => status = "completed" \/ (status = "failed" /\ Telling)
    BY <1>2 DEF LoneInv, Reports, Untouched
  <2>2. Holds(t) => status # "failed"
    BY DEF LoneInv, Held, Owns, Unended
  <2>3. status = "failed" => status' = "failed"
    BY <2>2 DEF Turn
  <2>4. task[t].pc = "markPublish" => status' = "failed"
    BY <2>1, <2>3 DEF Telling
  <2>5. Telling' => status' = "failed"
    <3>1. ASSUME NEW s \in Tasks, task'[s].pc = "markPublish" PROVE status' = "failed"
      BY <3>1, <1>1, <2>1, <2>3, <2>4 DEF Telling, Tells
    <3>2. QED
      BY <3>1 DEF Telling
  <2>6. lastEvent' \in {"none", "run_completed", "run_failed"}
    BY <2>1 DEF Tells
  <2>7. lastEvent' = "run_failed" => status' = "failed"
    BY <2>1, <2>3, <2>4 DEF Tells
  <2>8. ASSUME lastEvent' = "run_completed"
        PROVE  status' = "completed" \/ (status' = "failed" /\ Telling')
    <3>1. CASE lastEvent' # lastEvent
      BY <3>1, <2>8 DEF Tells
    <3>2. CASE lastEvent' = lastEvent /\ status = "completed"
      <4>1. status' \in {"completed", "failed"}
        BY <3>2 DEF Turn
      <4>2. status' = "failed" => m.pc = "markPublish"
        BY <3>2 DEF Turn
      <4>3. m.pc = "markPublish" => Telling'
        BY <1>1 DEF Telling
      <4>4. QED
        BY <4>1, <4>2, <4>3
    <3>3. CASE lastEvent' = lastEvent /\ status = "failed" /\ Telling
      <4>1. task[t].pc = "markPublish" => m.pc = "markPublish"
        BY <3>3, <2>8 DEF Tells
      <4>2. PICK s \in Tasks : task[s].pc = "markPublish"
        BY <3>3 DEF Telling
      <4>3. task'[s].pc = "markPublish"
        BY <4>1, <4>2, <1>1
      <4>4. QED
        BY <4>3, <3>3, <2>3 DEF Telling
    <3>4. QED
      BY <3>1, <3>2, <3>3, <2>1, <2>8
  <2>9. QED
    BY <2>5, <2>6, <2>7, <2>8
<1>14. status' \in Unended \cup {"failed"}
  BY DEF LoneInv, Unended, Turn
<1>15. QED
  BY <1>7, <1>8, <1>9, <1>10, <1>11, <1>12, <1>13, <1>14

-----------------------------------------------------------------------------
(* The operators on records lead to calm tasks.                            *)

LEMMA FinishCalm ==
  ASSUME NEW k, NEW f
  PROVE  Calm(Finish(k), f) /\ ~Works(Finish(k)) /\ Finish(k).pc = "done"
  BY DEF Finish, Blank, Calm, Blocks, Works, WorkPC, DrivingPC, MarkPC

LEMMA MarkCalm ==
  ASSUME NEW k, NEW c \in {"handler", "outer"}, k.hb \in {"off", "sleep"}
  PROVE  Calm(Mark(k, "failed", c), 1) /\ Mark(k, "failed", c).pc = "markRead"
  BY DEF Mark, Blank, Calm, Blocks, DrivingPC, MarkPC

\* Behind the pipeline: into the epilogue, by way of the finally or not, or
\* into the caller's except clause if the heartbeat had crashed.
LEMMA ReapCalm ==
  ASSUME NEW k \in Task, NEW f, NEW c \in {"return", "ended"},
         k.hb \in {"off", "sleep", "crashed"}, k.hb = "crashed" => f = 1
  PROVE  LET m == Reap(k, c) IN
         /\ Calm(m, f)
         /\ \/ m.pc = "done" /\ c = "return"
            \/ m.pc = "final" /\ c = "ended"
            \/ m.pc = "reap" /\ m.cont = c
            \/ m.pc = "markRead" /\ k.hb = "crashed"
<1>1. CASE k.hb = "crashed"
  <2> DEFINE off == [k EXCEPT !.hb = "off"]
  <2>1. off.hb = "off"
    BY DEF Task
  <2>2. Reap(k, c) = Mark(off, "failed", "outer")
    BY <1>1 DEF Reap
  <2> HIDE DEF off
  <2>3. QED
    BY <1>1, <2>1, <2>2, MarkCalm
<1>2. CASE k.hb = "off" /\ c = "return"
  <2>1. Reap(k, c) = Finish(k)
    BY <1>2 DEF Reap, Resume
  <2>2. QED
    BY <1>2, <2>1, FinishCalm
<1>3. CASE k.hb = "off" /\ c = "ended"
  <2>1. Reap(k, c) = [Blank EXCEPT !.pc = "final", !.ctx = "body"]
    BY <1>3 DEF Reap, Resume
  <2>2. QED
    BY <1>3, <2>1 DEF Blank, Calm, Blocks, DrivingPC, MarkPC
<1>4. CASE k.hb = "sleep"
  <2>1. Reap(k, c) = [Blank EXCEPT !.pc = "reap", !.ctx = "finally", !.cont = c]
    BY <1>4 DEF Reap
  <2>2. QED
    BY <2>1 DEF Blank, Calm, Blocks, DrivingPC, MarkPC
<1>5. QED
  BY <1>1, <1>2, <1>3, <1>4

\* What is known of a task that is about to go on.
LEMMA HolderFacts ==
  ASSUME LoneInv, Undisturbed, NEW t \in Tasks, Live(t)
  PROVE  /\ task[t] \in Task /\ Calm(task[t], faults)
         /\ ~Asks(t) /\ (Holds(t) <=> Works(task[t]))
         /\ Holds(t) => /\ Owns(t, status) /\ Expects(t, task[t], status)
                        /\ t \in Retries /\ crashes = 0 => faults = 1
         /\ task[t].pc = "ready" => t \in Answers \cup Retries
         /\ task[t].pc = "transition" => t \in Answers
         /\ task[t].pc = "reconstruct" => t \in Retries /\ messages # {}
         /\ task[t].hb # "off" => task[t].ctx \in {"drive", "handler"}
         /\ task[t].pc \in {"load", "framing"} => t = Creator
<1>1. ~Asks(t) /\ (Holds(t) <=> Works(task[t]))
  BY LiveAsks DEF LoneInv, Holds
<1>2. QED
  BY <1>1 DEF LoneInv, RunInv, TypeOK, AllCalm, Held, Placed, RetryResumable, HeartbeatOwned,
     InTurn

\* A step that neither writes nor publishes.
LEMMA QuietTurn ==
  ASSUME LoneInv, Undisturbed, NEW t \in Tasks, Live(t), NEW m, Become(t, m),
         UNCHANGED <<row, lastEvent, req, up, crashes>>,
         faults' = faults \/ (faults = 0 /\ faults' = 1),
         Calm(m, faults'), m.pc \notin {"absent", "load"},
         m.pc = "framing" => t = Creator,
         task[t].pc = "markPublish" <=> m.pc = "markPublish",
         Works(m) => Works(task[t]) /\ Expects(t, m, status),
         Works(task[t]) => Works(m) \/ status # "running"
  PROVE  \E n : Turn(t, n) /\ Tells(t, n) /\ Calm(n, faults')
<1>1. /\ Holds(t) <=> Works(task[t])
      /\ Holds(t) => Owns(t, status)
  BY HolderFacts
<1>2. status \in Unended \cup {"failed"} /\ status' = status /\ lastEvent' = lastEvent
  BY DEF LoneInv, row
<1>3. Turn(t, m)
  BY <1>1, <1>2 DEF Turn, Unended
<1>4. Tells(t, m)
  BY <1>2 DEF Tells
<1>5. QED
  BY <1>3, <1>4

LEMMA TaskStepTurn ==
  ASSUME LoneInv, Undisturbed, NEW t \in Tasks, TaskStep(t)
  PROVE  Live(t) /\ \E m : Turn(t, m) /\ Tells(t, m) /\ Calm(m, faults')
<1> DEFINE k == task[t]
<1>0. Live(t)
  BY DEF TaskStep, FramingLoad, FramingDone, Start, Accept, Refuse, Reconstruct, NodeDone,
     AuditRead, AuditWrite, AuditPublish, Check, TimeoutCheck, Reaped, MarkRead, MarkWrite,
     MarkPublish, Final, Interrupt, At, Live
<1>1. /\ k \in Task /\ Calm(k, faults) /\ (Holds(t) <=> Works(k))
      /\ Holds(t) => Owns(t, status) /\ Expects(t, k, status)
      /\ k.pc = "ready" => t \in Answers \cup Retries
      /\ k.pc = "transition" => t \in Answers
      /\ k.pc = "reconstruct" => t \in Retries /\ messages # {}
      /\ k.hb # "off" => k.ctx \in {"drive", "handler"}
      /\ k.pc \in {"load", "framing"} => t = Creator
  BY <1>0, HolderFacts
<1>2. /\ Answers \cap Retries = {}
      /\ Creator \notin Answers \cup Retries
  BY RequestsAssumption DEF Requests
<1>3. k.left \in Nat
  BY <1>1, BoundsAssumption DEF Task
<1>4. CASE FramingLoad(t)
  <2> DEFINE m == [k EXCEPT !.pc = "framing", !.ctx = "body"]
  <2>1. k.pc = "load" /\ Become(t, m)
    BY <1>4 DEF FramingLoad, At
  <2>2. m.pc = "framing" /\ Calm(m, faults)
    BY <1>1, <2>1 DEF Task, Calm, Blocks, DrivingPC, MarkPC
  <2> HIDE DEF m
  <2>3. QED
    BY <1>0, <1>1, <1>4, <2>1, <2>2, QuietTurn DEF FramingLoad, world, Works, WorkPC, Expects
<1>5. CASE FramingDone(t)
  <2>1. k.pc = "framing" /\ Become(t, Finish(k))
    BY <1>5 DEF FramingDone, At
  <2>2. status # "running"
    BY <1>1, <2>1 DEF Works, WorkPC, Owns
  <2>3. QED
    BY <1>0, <1>5, <2>1, <2>2, FinishCalm, QuietTurn DEF FramingDone, world
<1>6. CASE Start(t)
  <2> DEFINE m == [k EXCEPT !.ctx = "body",
                       !.pc = IF t \in Answers THEN "transition" ELSE "reconstruct"]
  <2>1. k.pc = "ready" /\ Become(t, m)
    BY <1>6 DEF Start, At
  <2>2. m.pc = (IF t \in Answers THEN "transition" ELSE "reconstruct") /\ Calm(m, faults)
    BY <1>1, <2>1 DEF Task, Calm, Blocks, DrivingPC, MarkPC
  <2>3. Works(k) /\ status = Spawned(t)
    BY <1>1, <2>1 DEF Works, WorkPC, Expects
  <2> HIDE DEF m
  <2>4. Works(m) /\ Expects(t, m, status)
    BY <2>2, <2>3 DEF Works, WorkPC, Expects, Spawned
  <2>5. QED
    BY <1>0, <1>6, <2>1, <2>2, <2>3, <2>4, QuietTurn DEF Start, world
<1>7. CASE Accept(t)
  <2>1. PICK n \in 1 .. MaxNodes : Become(t, Drive(k, n))
    BY <1>7 DEF Accept
  <2> DEFINE m == Drive(k, n)
  <2>2. k.pc = "transition" /\ t \in Answers /\ Holds(t)
    BY <1>1, <1>7 DEF Accept, At, Works, WorkPC
  <2>3. m.pc = "node" /\ m.left = n /\ n > 0 /\ Calm(m, faults)
    BY <1>1, <2>2, BoundsAssumption DEF Drive, Task, Calm, Blocks, DrivingPC, MarkPC
  <2>4. status' = "running" /\ lastEvent' = lastEvent
    BY <1>7 DEF Accept, AcceptEffect
  <2> HIDE DEF m
  <2>5. Works(m) /\ Expects(t, m, "running")
    BY <2>3 DEF Works, WorkPC, DrivingPC, Expects
  <2>6. Owns(t, "running")
    BY <1>2, <2>2 DEF Owns, Unended
  <2>7. status = "questioning"
    BY <1>1, <2>2 DEF Expects
  <2>8. Turn(t, m)
    BY <1>7, <2>1, <2>2, <2>3, <2>4, <2>5, <2>6, <2>7 DEF Turn, Accept, world, Unended, m
  <2>9. Tells(t, m)
    BY <2>2, <2>3, <2>4 DEF Tells
  <2>10. QED
    BY <1>0, <1>7, <2>3, <2>8, <2>9 DEF Accept, world
<1>8. CASE Refuse(t)
  <2>1. k.pc = "transition" /\ status # "questioning"
    BY <1>8 DEF Refuse, At
  <2>2. QED
    BY <1>1, <2>1 DEF Works, WorkPC, Expects
<1>9. CASE Reconstruct(t)
  <2>1. k.pc = "reconstruct" /\ Works(k)
    BY <1>9 DEF Reconstruct, At, Works, WorkPC
  <2>2. PICK n \in 1 .. MaxNodes : Become(t, Drive(k, n))
    BY <1>1, <1>9, <2>1 DEF Reconstruct
  <2> DEFINE m == Drive(k, n)
  <2>3. m.pc = "node" /\ m.left = n /\ n > 0 /\ Calm(m, faults)
    BY <1>1, <2>1, BoundsAssumption DEF Drive, Task, Calm, Blocks, DrivingPC, MarkPC
  <2>4. Become(t, m)
    BY <2>2
  <2> HIDE DEF m
  <2>5. Works(m) /\ Expects(t, m, status)
    BY <1>1, <2>1, <2>3 DEF Works, WorkPC, DrivingPC, Expects
  <2>6. QED
    BY <1>0, <1>9, <2>1, <2>3, <2>4, <2>5, QuietTurn DEF Reconstruct, world
<1>10. CASE NodeDone(t)
  <2> DEFINE m == [k EXCEPT !.pc = "check", !.left = @ - 1]
  <2>1. k.pc = "node" /\ Works(k) /\ k.left > 1 /\ Become(t, m)
    BY <1>10 DEF NodeDone, At, Works, WorkPC, DrivingPC
  <2>2. m.pc = "check" /\ m.left # 0 /\ Calm(m, faults)
    BY <1>1, <1>3, <2>1 DEF Task, Calm, Blocks, DrivingPC, MarkPC
  <2> HIDE DEF m
  <2>3. Works(m) /\ Expects(t, m, status)
    BY <1>1, <2>1, <2>2 DEF Works, WorkPC, DrivingPC, Expects
  <2>4. QED
    BY <1>0, <1>10, <2>1, <2>2, <2>3, QuietTurn DEF NodeDone, world
<1>11. CASE AuditRead(t)
  <2> DEFINE m == [k EXCEPT !.pc = "auditWrite", !.seen = status]
  <2>1. k.pc = "node" /\ Works(k) /\ Become(t, m)
    BY <1>11 DEF AuditRead, At, Works, WorkPC, DrivingPC
  <2>2. m.pc = "auditWrite" /\ m.seen = status /\ Calm(m, faults)
    BY <1>1, <2>1 DEF Task, Calm, Blocks, DrivingPC, MarkPC
  <2> HIDE DEF m
  <2>3. Works(m) /\ Expects(t, m, status)
    BY <1>1, <2>1, <2>2 DEF Works, WorkPC, DrivingPC, Expects
  <2>4. QED
    BY <1>0, <1>11, <2>1, <2>2, <2>3, QuietTurn DEF AuditRead, world
<1>12. CASE AuditWrite(t)
  <2> DEFINE m == [k EXCEPT !.pc = "auditPublish", !.seen = "created"]
  <2>1. k.pc = "auditWrite" /\ Holds(t) /\ Become(t, m)
    BY <1>1, <1>12 DEF AuditWrite, At, Works, WorkPC, DrivingPC
  <2>2. m.pc = "auditPublish" /\ Calm(m, faults)
    BY <1>1, <2>1 DEF Task, Calm, Blocks, DrivingPC, MarkPC
  <2>3. status = "running" /\ status' = "completed" /\ lastEvent' = lastEvent
    BY <1>1, <1>12, <2>1 DEF AuditWrite, AuditEffect, Assign, Expects
  <2>4. Owns(t, "completed")
    BY <1>1, <2>1, <2>3 DEF Owns, Unended
  <2> HIDE DEF m
  <2>5. Works(m) /\ Expects(t, m, "completed")
    BY <2>2 DEF Works, WorkPC, DrivingPC, Expects
  <2>6. Turn(t, m)
    BY <1>12, <2>1, <2>2, <2>3, <2>4, <2>5 DEF Turn, AuditWrite, world, Unended
  <2>7. Tells(t, m)
    BY <2>1, <2>2, <2>3 DEF Tells
  <2>8. QED
    BY <1>0, <1>12, <2>2, <2>6, <2>7 DEF AuditWrite, world
<1>13. CASE AuditPublish(t)
  <2> DEFINE m == [k EXCEPT !.pc = "check", !.left = 0]
  <2>1. k.pc = "auditPublish" /\ Holds(t) /\ Become(t, m)
    BY <1>1, <1>13 DEF AuditPublish, At, Works, WorkPC, DrivingPC
  <2>2. m.pc = "check" /\ m.left = 0 /\ Calm(m, faults)
    BY <1>1, <2>1 DEF Task, Calm, Blocks, DrivingPC, MarkPC
  <2>3. status = "completed" /\ status' = status /\ lastEvent' = "run_completed"
    BY <1>1, <1>13, <2>1 DEF AuditPublish, PublishEffect, row, Expects
  <2>4. Owns(t, status)
    BY <1>1, <2>1
  <2> HIDE DEF m
  <2>5. Works(m) /\ Expects(t, m, status)
    BY <2>2, <2>3 DEF Works, WorkPC, DrivingPC, Expects
  <2>6. Turn(t, m)
    BY <1>13, <2>1, <2>2, <2>3, <2>4, <2>5 DEF Turn, AuditPublish, world, Unended
  <2>7. Tells(t, m)
    BY <2>1, <2>2, <2>3 DEF Tells
  <2>8. QED
    BY <1>0, <1>13, <2>2, <2>6, <2>7 DEF AuditPublish, world
<1>14. CASE Check(t)
  <2>1. k.pc = "check" /\ Works(k) /\ Calm(k, faults) /\ Expects(t, k, status)
    BY <1>1, <1>14 DEF Check, At, Works, WorkPC, DrivingPC
  <2>2. CASE k.left = 0
    <3> DEFINE m == Reap(k, "ended")
    <3>1. status = "completed" /\ Become(t, m)
      BY <1>14, <2>1, <2>2 DEF Check, Expects
    <3>2. k.hb \in {"off", "sleep", "crashed"} /\ (k.hb = "crashed" => faults = 1)
      BY <2>1 DEF Calm
    <3>3. /\ Calm(m, faults)
          /\ m.pc \in {"final", "markRead"} \/ (m.pc = "reap" /\ m.cont = "ended")
      BY <1>1, <3>2, ReapCalm
    <3> HIDE DEF m
    <3>4. Works(m) /\ Expects(t, m, status)
      BY <3>1, <3>3 DEF Works, WorkPC, DrivingPC, Expects
    <3>5. QED
      BY <1>0, <1>14, <2>1, <3>1, <3>3, <3>4, QuietTurn DEF Check, world
  <2>3. CASE k.left # 0
    <3> DEFINE m == [k EXCEPT !.pc = "node"]
    <3>1. status = "running" /\ Become(t, m)
      BY <1>14, <2>1, <2>3 DEF Check, Expects
    <3>2. m.pc = "node" /\ m.left > 0 /\ Calm(m, faults)
      BY <1>1, <1>3, <2>1, <2>3 DEF Task, Calm, Blocks, DrivingPC, MarkPC
    <3> HIDE DEF m
    <3>3. Works(m) /\ Expects(t, m, status)
      BY <3>1, <3>2 DEF Works, WorkPC, DrivingPC, Expects
    <3>4. QED
      BY <1>0, <1>14, <2>1, <3>1, <3>2, <3>3, QuietTurn DEF Check, world
  <2>4. QED
    BY <2>2, <2>3
<1>15. CASE TimeoutCheck(t)
  BY <1>1, <1>15 DEF TimeoutCheck, At, Calm
<1>16. CASE Reaped(t)
  <2>1. k.pc = "reap" /\ k.cont \in {"return", "ended"} /\ Become(t, Resume(k, k.cont))
    BY <1>1, <1>16 DEF Reaped, At, Calm
  <2>2. CASE k.cont = "return"
    <3>1. Become(t, Finish(k)) /\ ~Works(k)
      BY <2>1, <2>2 DEF Resume, Works, WorkPC, DrivingPC
    <3>2. QED
      BY <1>0, <1>16, <2>1, <3>1, FinishCalm, QuietTurn DEF Reaped, world
  <2>3. CASE k.cont = "ended"
    <3> DEFINE m == [Blank EXCEPT !.pc = "final", !.ctx = "body"]
    <3>1. Works(k) /\ Become(t, m)
      BY <2>1, <2>3 DEF Resume, Works
    <3>2. m.pc = "final" /\ Calm(m, faults)
      BY DEF Blank, Calm, Blocks, DrivingPC, MarkPC
    <3> HIDE DEF m
    <3>3. Works(m) /\ Expects(t, m, status)
      BY <1>1, <2>1, <3>1, <3>2 DEF Works, WorkPC, Expects
    <3>4. QED
      BY <1>0, <1>16, <2>1, <3>1, <3>2, <3>3, QuietTurn DEF Reaped, world
  <2>4. QED
    BY <2>1, <2>2, <2>3
<1>17. CASE MarkRead(t)
  <2> DEFINE m == [k EXCEPT !.pc = "markWrite", !.seen = status]
  <2>1. k.pc = "markRead" /\ Works(k) /\ Become(t, m)
    BY <1>17 DEF MarkRead, At, Works, WorkPC
  <2>2. m.pc = "markWrite" /\ m.seen = status /\ Calm(m, faults)
    BY <1>1, <2>1 DEF Task, Calm, Blocks, DrivingPC, MarkPC
  <2> HIDE DEF m
  <2>3. Works(m) /\ Expects(t, m, status)
    BY <2>2 DEF Works, WorkPC, Expects
  <2>4. QED
    BY <1>0, <1>17, <2>1, <2>2, <2>3, QuietTurn DEF MarkRead, world
<1>18. CASE MarkWrite(t)
  <2> DEFINE m == [k EXCEPT !.pc = "markPublish", !.seen = "created"]
  <2>1. k.pc = "markWrite" /\ Holds(t) /\ Become(t, m)
    BY <1>1, <1>18 DEF MarkWrite, At, Works, WorkPC
  <2>2. m.pc = "markPublish" /\ Calm(m, faults)
    BY <1>1, <2>1 DEF Task, Calm, Blocks, DrivingPC, MarkPC
  <2>3. faults = 1 /\ k.target = "failed" /\ k.seen = status /\ status \in Unended
    BY <1>1, <2>1 DEF Calm, MarkPC, Expects, Owns
  <2>4. status' = "failed" /\ lastEvent' = lastEvent
    BY <1>18, <2>3 DEF MarkWrite, MarkEffect, Assign, Unended
  <2> HIDE DEF m
  <2>5. ~Works(m)
    BY <2>2 DEF Works, WorkPC, DrivingPC
  <2>6. Turn(t, m)
    BY <1>18, <2>1, <2>2, <2>3, <2>4, <2>5 DEF Turn, MarkWrite, world
  <2>7. Tells(t, m)
    BY <2>1, <2>4 DEF Tells
  <2>8. QED
    BY <1>0, <1>18, <2>2, <2>6, <2>7 DEF MarkWrite, world
<1>19. CASE MarkPublish(t)
  <2> DEFINE m == IF k.ctx = "handler" THEN Reap(k, "return") ELSE Finish(k)
  <2>1. k.pc = "markPublish" /\ Become(t, m)
    BY <1>19 DEF MarkPublish, At
  <2>2. k.hb \in {"off", "sleep"} /\ k.target = "failed"
    BY <1>1, <2>1 DEF Calm, Blocks, MarkPC
  <2>3. Calm(m, faults) /\ (m.pc = "done" \/ (m.pc = "reap" /\ m.cont = "return"))
    BY <1>1, <2>2, FinishCalm, ReapCalm
  <2>4. status' = status /\ lastEvent' = "run_failed"
    BY <1>19, <2>2 DEF MarkPublish, PublishEffect, MarkEvent, row
  <2> HIDE DEF m
  <2>5. ~Works(m) /\ ~Works(k)
    BY <2>1, <2>3 DEF Works, WorkPC, DrivingPC
  <2>6. Turn(t, m)
    BY <1>1, <1>19, <2>1, <2>3, <2>4, <2>5 DEF Turn, MarkPublish, world, LoneInv, Unended
  <2>7. Tells(t, m)
    BY <2>1, <2>3, <2>4 DEF Tells
  <2>8. QED
    BY <1>0, <1>19, <2>3, <2>6, <2>7 DEF MarkPublish, world
<1>20. CASE Final(t)
  <2>1. k.pc = "final" /\ Works(k)
    BY <1>20 DEF Final, At, Works, WorkPC
  <2>2. status = "completed" /\ Become(t, Finish(k))
    BY <1>1, <1>20, <2>1 DEF Final, Expects
  <2> DEFINE m == Finish(k)
  <2>3. Calm(m, faults) /\ ~Works(m) /\ m.pc = "done"
    BY FinishCalm
  <2>4. status' = status /\ lastEvent' = lastEvent
    BY <1>20 DEF Final
  <2> HIDE DEF m
  <2>5. Turn(t, m)
    BY <1>20, <2>2, <2>3, <2>4 DEF Turn, Final, world, Unended, m
  <2>6. Tells(t, m)
    BY <2>1, <2>3, <2>4 DEF Tells
  <2>7. QED
    BY <1>0, <1>20, <2>3, <2>5, <2>6 DEF Final, world
<1>21. CASE Interrupt(t)
  BY <1>1, <1>21 DEF Interrupt, Calm
<1>22. QED
  BY <1>4, <1>5, <1>6, <1>7, <1>8, <1>9, <1>10, <1>11, <1>12, <1>13, <1>14, <1>15, <1>16,
     <1>17, <1>18, <1>19, <1>20, <1>21 DEF TaskStep

LEMMA FaultTurn ==
  ASSUME LoneInv, Undisturbed, NEW t \in Tasks, Fault(t)
  PROVE  Live(t) /\ \E m : Turn(t, m) /\ Tells(t, m) /\ Calm(m, faults')
<1> DEFINE k == task[t]
           m == Raise(k, "failed")
<1>1. Live(t) /\ k.pc \notin {"ready", "reap"} /\ faults = 0 /\ faults' = 1
  BY FaultsNat DEF LoneInv, RunInv, Fault
<1>2. /\ k \in Task /\ Calm(k, faults) /\ (Holds(t) <=> Works(k))
      /\ Holds(t) => Owns(t, status) /\ Expects(t, k, status)
      /\ k.pc = "transition" => t \in Answers
      /\ k.hb # "off" => k.ctx \in {"drive", "handler"}
      /\ k.pc \in {"load", "framing"} => t = Creator
  BY <1>1, HolderFacts
<1>3. Become(t, m) /\ UNCHANGED <<req, up, crashes>>
  BY DEF Fault
<1>4. k.hb \in {"off", "sleep"} /\ k.pc \notin MarkPC
  BY <1>1, <1>2 DEF Calm
<1>5. k.pc \in {"load", "framing", "transition", "reconstruct", "final"} \cup DrivingPC
  BY <1>1, <1>2, <1>4 DEF Calm, Task, PC, Live, MarkPC, DrivingPC
<1>6. k.pc = "load" => m = Finish(k)
  BY <1>2 DEF Calm, Blocks, Raise
<1>7. k.pc # "load" => \E c \in {"handler", "outer"} : m = Mark(k, "failed", c)
  BY <1>2, <1>5 DEF Calm, Blocks, Raise, DrivingPC
<1>8. Works(k)
  BY <1>5 DEF Works, WorkPC
<1>9. Calm(m, 1) /\ m.pc = IF k.pc = "load" THEN "done" ELSE "markRead"
  BY <1>4, <1>6, <1>7, FinishCalm, MarkCalm
<1> HIDE DEF m, k
<1>10. k.pc # "load" => Works(m) /\ \A s : Expects(t, m, s)
  BY <1>9 DEF Works, WorkPC, Expects
<1>11. k.pc = "load" => ~Works(m) /\ status # "running"
  BY <1>2, <1>6, <1>8, FinishCalm DEF Owns
<1>12. CASE UNCHANGED <<row, lastEvent>>
  BY <1>1, <1>3, <1>5, <1>8, <1>9, <1>10, <1>11, <1>12, QuietTurn DEF k, DrivingPC
<1>13. CASE Effect(t)
  <2>1. \/ k.pc = "transition" /\ AcceptEffect(t)
        \/ k.pc = "auditWrite" /\ AuditEffect(t)
        \/ k.pc = "auditPublish" /\ PublishEffect("run_completed")
    BY <1>4, <1>13 DEF Effect, MarkPC, k
  <2>2. /\ \/ status' = status
           \/ status = "questioning" /\ status' = "running"
           \/ status = "running" /\ status' = "completed"
        /\ Owns(t, status')
        /\ lastEvent' = lastEvent \/ (lastEvent' = "run_completed" /\ status' = "completed")
    <3>1. CASE k.pc = "transition" /\ AcceptEffect(t)
      BY <1>2, <1>8, <3>1, RequestsAssumption DEF AcceptEffect, Owns, Expects, Unended, Requests
    <3>2. CASE k.pc = "auditWrite" /\ AuditEffect(t)
      BY <1>2, <1>8, <3>2 DEF AuditEffect, Assign, Owns, Expects, Unended, k
    <3>3. CASE k.pc = "auditPublish" /\ PublishEffect("run_completed")
      BY <1>2, <1>8, <3>3 DEF PublishEffect, row, Owns, Expects
    <3>4. QED
      BY <2>1, <3>1, <3>2, <3>3
  <2>3. k.pc # "load" /\ m.pc = "markRead"
    BY <1>9, <2>1
  <2>4. Turn(t, m)
    BY <1>1, <1>2, <1>3, <1>8, <1>10, <2>2, <2>3 DEF Turn, Unended, k
  <2>5. Tells(t, m)
    BY <1>4, <2>2, <2>3 DEF Tells, MarkPC, k
  <2>6. QED
    BY <1>1, <1>9, <2>4, <2>5
<1>14. QED
  BY <1>12, <1>13 DEF Fault

LEMMA HeartbeatTurn ==
  ASSUME LoneInv, Undisturbed, NEW t \in Tasks, HeartbeatStep(t) \/ HeartbeatFault(t)
  PROVE  Live(t) /\ \E m : Turn(t, m) /\ Tells(t, m) /\ Calm(m, faults')
<1> DEFINE k == task[t]
<1>1. k \in Task /\ Calm(k, faults) /\ (k.hb # "off" => k.ctx \in {"drive", "handler"})
  BY DEF LoneInv, RunInv, TypeOK, AllCalm, HeartbeatOwned
<1>2. ~HeartbeatLate(t) /\ ~HeartbeatCancel(t)
  BY <1>1 DEF HeartbeatLate, HeartbeatCancel, Undisturbed, Calm
<1>3. k.hb = "sleep"
  BY <1>2 DEF HeartbeatStep, HeartbeatStop, HeartbeatFault
<1>4. k.pc \in DrivingPC \cup MarkPC
  BY <1>1, <1>3 DEF Calm, Blocks, Task, PC, DrivingPC, MarkPC
<1>5. Live(t)
  BY <1>4 DEF Live, DrivingPC, MarkPC
<1>6. (Holds(t) <=> Works(k)) /\ (Holds(t) => Expects(t, k, status))
  BY <1>5, HolderFacts
<1>7. PICK h \in {"off", "crashed"} :
        /\ Become(t, [k EXCEPT !.hb = h])
        /\ UNCHANGED <<row, lastEvent, req, up, crashes>>
        /\ \/ h = "off" /\ faults' = faults
           \/ h = "crashed" /\ faults = 0 /\ faults' = 1
  <2>1. CASE HeartbeatStop(t)
    BY <2>1 DEF HeartbeatStop, world
  <2>2. CASE HeartbeatFault(t)
    BY <2>2, FaultsNat DEF HeartbeatFault, LoneInv, RunInv
  <2>3. QED
    BY <1>2, <2>1, <2>2 DEF HeartbeatStep
<1> DEFINE m == [k EXCEPT !.hb = h]
<1>8. h = "crashed" => k.pc \notin MarkPC
  BY <1>1, <1>7 DEF Calm
<1>9. m.pc = k.pc /\ Calm(m, faults')
  BY <1>1, <1>4, <1>7, <1>8 DEF Task, Calm, Blocks, DrivingPC, MarkPC
<1>10. /\ Works(m) <=> Works(k)
       /\ Expects(t, k, status) => Expects(t, m, status)
  BY <1>1 DEF Task, Works, Expects
<1>11. Become(t, m) /\ UNCHANGED <<row, lastEvent, req, up, crashes>>
       /\ (faults' = faults \/ (faults = 0 /\ faults' = 1))
  BY <1>7
<1> HIDE DEF m
<1>12. QED
  BY <1>4, <1>5, <1>6, <1>9, <1>10, <1>11, QuietTurn DEF DrivingPC, MarkPC

-----------------------------------------------------------------------------
(* The handlers and the process.                                           *)

\* All of LoneInv but what RunSafe is about.
Lone ==
    /\ status \in Unended \cup {"failed"}
    /\ AllCalm
    /\ SoleHolder
    /\ Held
    /\ InTurn
    /\ Dead
    /\ Manned
    /\ Reports

\* A row that is over is nobody's.
LEMMA NobodyHolds ==
  ASSUME LoneInv, status = "failed" \/ up # "up", NEW t \in Tasks
  PROVE  ~Holds(t)
<1>1. CASE status = "failed"
  BY <1>1 DEF LoneInv, Held, Owns, Unended
<1>2. CASE up # "up"
  <2>1. task[t].pc \in {"absent", "done"}
    BY <1>2 DEF LoneInv, Dead, Live
  <2>2. t \in Requests => req[t].pc \in {"idle", "done"}
    BY <1>2 DEF LoneInv, Dead
  <2>3. QED
    BY <2>1, <2>2 DEF Holds, Works, Asks, WorkPC, DrivingPC
<1>3. QED
  BY <1>1, <1>2

\* A request q that moves on before it holds the run, or lets go of it.
LEMMA RequestLone ==
  ASSUME LoneInv, NEW q \in Answers \cup Retries, NEW label \in {"transition", "done"},
         ReqGoto(q, label), up = "up", req[q].pc # "done",
         UNCHANGED <<row, lastEvent, task, up, crashes>>,
         faults' = faults \/ (faults = 0 /\ faults' = 1),
         label = "transition" => q \in Retries,
         Asks(q) => status # "running" \/ crashes > 0,
         Live(Creator) => q \notin Answers
  PROVE  Lone'
<1>1. /\ status' = status /\ lastEvent' = lastEvent /\ task' = task /\ crashes' = crashes
      /\ up' = up
  BY DEF row
<1>2. /\ req \in [Requests -> Request] /\ q \in Requests
  BY DEF LoneInv, RunInv, TypeOK, Requests
<1>3. /\ req'[q].pc = label
      /\ \A p \in Requests : p # q => req'[p] = req[p]
  BY <1>2 DEF ReqGoto, Request
<1>4. /\ \A s : Asks(s)' <=> s # q /\ Asks(s)
      /\ \A s \in Tasks : Holds(s)' => Holds(s)
      /\ \A s \in Tasks : s # q /\ Holds(s) => Holds(s)'
  BY <1>1, <1>3 DEF Asks, Holds
<1>5. task[q].pc = "absent" /\ ~Works(task[q])
  BY DEF LoneInv, InTurn, Works, WorkPC, DrivingPC
<1>6. SoleHolder'
  BY <1>4 DEF LoneInv, SoleHolder
<1>7. AllCalm'
  BY <1>1 DEF LoneInv, AllCalm, Calm
<1>8. Held'
  BY <1>1, <1>4 DEF LoneInv, Held
<1>9. InTurn'
  <2>1. \A p \in Answers \cup Retries : req'[p].pc # "done" => task'[p].pc = "absent"
    BY <1>1, <1>3, <1>5 DEF LoneInv, InTurn, Requests
  <2>2. \A a \in Answers : req'[a].pc \notin {"transition", "publish"}
    BY <1>3, RequestsAssumption DEF LoneInv, InTurn, Requests
  <2>3. Live(Creator)' => \A a \in Answers : req'[a].pc = "idle"
    BY <1>1, <1>3 DEF LoneInv, InTurn, Live, Requests
  <2>4. QED
    BY <2>1, <2>2, <2>3, <1>1 DEF LoneInv, InTurn
<1>10. Dead'
  BY <1>1 DEF Dead
<1>11. Manned'
  <2>1. ASSUME crashes = 0, status = "running" PROVE \E s \in Tasks : Holds(s)'
    <3>1. PICK s \in Tasks : Holds(s)
      BY <2>1 DEF LoneInv, Manned
    <3>2. s # q
      BY <2>1, <3>1, <1>5 DEF Holds
    <3>3. QED
      BY <3>1, <3>2, <1>4
  <2>2. crashes = 0 /\ status = "failed" => faults' = 1
    BY DEF LoneInv, Manned
  <2>3. QED
    BY <2>1, <2>2, <1>1 DEF Manned
<1>12. Reports'
  <2>1. Untouched' => Untouched
    <3>1. ASSUME NEW p \in Cancels \cup Retries, req'[p].pc = "idle"
          PROVE  req[p].pc = "idle"
      <4>1. p # q
        BY <1>3, <3>1
      <4>2. QED
        BY <4>1, <1>3, <3>1 DEF Requests
    <3>2. QED
      BY <3>1 DEF Untouched
  <2>2. QED
    BY <2>1, <1>1 DEF LoneInv, Reports, Telling
<1>13. QED
  BY <1>1, <1>6, <1>7, <1>8, <1>9, <1>10, <1>11, <1>12 DEF Lone, LoneInv

\* A request q that takes the run: answers of one that waits for them, or a
\* retry of one that is over.
LEMMA TakeLone ==
  ASSUME LoneInv, NEW q \in Answers \cup Retries,
         NEW label \in {"spawn", "publish"}, ReqGoto(q, label),
         q \in Answers => label = "spawn" /\ status' = status /\ ~Live(Creator),
         q \in Retries => req[q].pc = "transition" /\ (crashes = 0 => faults = 1),
         req[q].pc # "done", up = "up", status' = Spawned(q),
         \A s \in Tasks : ~Holds(s),
         UNCHANGED <<lastEvent, task, world>>
  PROVE  Lone'
<1>1. /\ lastEvent' = lastEvent /\ task' = task /\ crashes' = crashes
      /\ up' = up /\ faults' = faults
  BY DEF world
<1>2. /\ req \in [Requests -> Request] /\ q \in Requests /\ q \in Tasks
      /\ q # Creator /\ ~(q \in Answers /\ q \in Retries)
  BY RequestsAssumption DEF LoneInv, RunInv, TypeOK, Requests, Tasks
<1>3. /\ req'[q].pc = label
      /\ \A p \in Requests : p # q => req'[p] = req[p]
  BY <1>2 DEF ReqGoto, Request
<1>4. /\ Asks(q)'
      /\ \A s \in Tasks : Holds(s)' => s = q
  BY <1>1, <1>2, <1>3 DEF Asks, Holds
<1>5. task'[q].pc = "absent" /\ Holds(q)'
  BY <1>1, <1>4 DEF LoneInv, InTurn, Holds
<1>6. status' \in {"questioning", "running"} /\ (q \in Retries => status' = "running")
  BY <1>2 DEF Spawned
<1>7. SoleHolder'
  BY <1>4 DEF SoleHolder
<1>8. AllCalm'
  BY <1>1 DEF LoneInv, AllCalm, Calm
<1>9. Held'
  <2>1. Owns(q, status')
    BY <1>2, <1>6 DEF Owns, Unended
  <2>2. Expects(q, task'[q], status')
    BY <1>5 DEF Expects
  <2>3. status' = Spawned(q) /\ (q \in Retries /\ crashes' = 0 => faults' = 1)
    BY <1>1
  <2>4. QED
    BY <1>4, <2>1, <2>2, <2>3 DEF Held
<1>10. InTurn'
  <2>1. \A p \in Answers \cup Retries : req'[p].pc # "done" => task'[p].pc = "absent"
    BY <1>1, <1>3, <1>5 DEF LoneInv, InTurn, Requests
  <2>2. \A a \in Answers : req'[a].pc \notin {"transition", "publish"}
    BY <1>3, RequestsAssumption DEF LoneInv, InTurn, Requests
  <2>3. Live(Creator)' => \A a \in Answers : req'[a].pc = "idle"
    BY <1>1, <1>3 DEF LoneInv, InTurn, Live, Requests
  <2>4. QED
    BY <2>1, <2>2, <2>3, <1>1 DEF LoneInv, InTurn
<1>11. Dead'
  BY <1>1 DEF Dead
<1>12. Manned'
  BY <1>2, <1>5, <1>6 DEF Manned
<1>13. Reports'
  <2>1. CASE q \in Answers
    <3>1. Untouched' => Untouched
      BY <1>2, <1>3, <2>1, RequestsAssumption DEF Untouched, Requests
    <3>2. QED
      BY <3>1, <2>1, <1>1 DEF LoneInv, Reports, Telling
  <2>2. CASE q \in Retries
    BY <2>2, <1>3 DEF Reports, Untouched
  <2>3. QED
    BY <2>1, <2>2
<1>14. QED
  BY <1>6, <1>7, <1>8, <1>9, <1>10, <1>11, <1>12, <1>13 DEF Lone, Unended

\* The request that holds the run hands it to its task.
LEMMA SpawnLone ==
  ASSUME LoneInv, NEW q \in Answers \cup Retries, ReqAt(q, "spawn"), Spawn(q),
         ReqGoto(q, "done"), UNCHANGED <<row, lastEvent, world>>
  PROVE  Lone'
<1>1. /\ status' = status /\ lastEvent' = lastEvent /\ crashes' = crashes
      /\ up = "up" /\ up' = up /\ faults' = faults
  BY DEF row, world, ReqAt
<1>2. /\ req \in [Requests -> Request] /\ q \in Requests /\ q \in Tasks /\ q # Creator
      /\ task \in [Tasks -> Task]
  BY RequestsAssumption DEF LoneInv, RunInv, TypeOK, Requests, Tasks
<1>3. /\ req'[q].pc = "done" /\ req[q].pc = "spawn"
      /\ \A p \in Requests : p # q => req'[p] = req[p]
  BY <1>2 DEF ReqGoto, Request, ReqAt
<1> DEFINE m == [Blank EXCEPT !.pc = "ready"]
<1>4. m.pc = "ready" /\ \A f : Calm(m, f)
  BY DEF Blank, Calm, Blocks, DrivingPC, MarkPC
<1>5. \A s \in Tasks : task'[s] = IF s = q THEN m ELSE task[s]
  BY <1>2 DEF Spawn
<1> HIDE DEF m
<1>6. Asks(q) /\ ~Asks(q)' /\ (\A s : s # q => (Asks(s)' <=> Asks(s)))
  BY <1>2, <1>3 DEF Asks
<1>7. \A s \in Tasks : Holds(s)' <=> Holds(s)
  <2>1. Holds(q) /\ Holds(q)'
    BY <1>2, <1>4, <1>5, <1>6 DEF Holds, Works, WorkPC
  <2>2. QED
    BY <2>1, <1>5, <1>6 DEF Holds
<1>8. SoleHolder'
  BY <1>7 DEF LoneInv, SoleHolder
<1>9. AllCalm'
  BY <1>1, <1>4, <1>5 DEF LoneInv, AllCalm
<1>10. Held'
  <2>1. ASSUME NEW s \in Tasks, Holds(s)
        PROVE  /\ Owns(s, status) /\ Expects(s, task[s], status)
               /\ Asks(s) => status = Spawned(s)
               /\ s \in Retries /\ crashes = 0 => faults = 1
    BY <2>1 DEF LoneInv, Held
  <2>2. Expects(q, m, status)
    BY <1>2, <1>4, <1>6, <2>1 DEF Expects, Holds
  <2>3. QED
    BY <1>1, <1>5, <1>6, <1>7, <2>1, <2>2 DEF Held
<1>11. InTurn'
  <2>1. \A p \in Answers \cup Retries : req'[p].pc # "done" => task'[p].pc = "absent"
    BY <1>3, <1>5 DEF LoneInv, InTurn, Requests, Tasks
  <2>2. \A a \in Answers : req'[a].pc \notin {"transition", "publish"}
    BY <1>3 DEF LoneInv, InTurn, Requests
  <2>3. task'[Creator] = task[Creator]
    BY <1>2, <1>5 DEF Tasks
  <2>4. Live(Creator)' => \A a \in Answers : req'[a].pc = "idle"
    BY <1>3, <2>3 DEF LoneInv, InTurn, Live, Requests
  <2>5. \A s \in Tasks : task'[s].pc \in {"load", "framing"} => s = Creator
    BY <1>4, <1>5 DEF LoneInv, InTurn
  <2>6. QED
    BY <2>1, <2>2, <2>4, <2>5 DEF InTurn
<1>12. Dead'
  BY <1>1 DEF Dead
<1>13. Manned'
  BY <1>1, <1>7 DEF LoneInv, Manned
<1>14. Reports'
  <2>1. Untouched' => Untouched
    <3>1. ASSUME NEW p \in Cancels \cup Retries, req'[p].pc = "idle"
          PROVE  req[p].pc = "idle"
      BY <1>3, <3>1 DEF Requests
    <3>2. QED
      BY <3>1 DEF Untouched
  <2>2. \A s \in Tasks : task[s].pc = "markPublish" => s # q
    BY <1>3 DEF LoneInv, InTurn
  <2>3. Telling' <=> Telling
    BY <1>4, <1>5, <2>2 DEF Telling
  <2>4. QED
    BY <2>1, <2>3, <1>1 DEF LoneInv, Reports
<1>15. QED
  BY <1>1, <1>8, <1>9, <1>10, <1>11, <1>12, <1>13, <1>14 DEF Lone, LoneInv

\* run_retry_started does not change who holds the run.
LEMMA PublishLone ==
  ASSUME LoneInv, NEW q \in Retries, RetryPublish(q)
  PROVE  Lone'
<1>1. /\ status' = status /\ task' = task /\ crashes' = crashes
      /\ up = "up" /\ up' = up /\ faults' = faults
  BY DEF RetryPublish, row, world, ReqAt
<1>2. req \in [Requests -> Request] /\ q \in Requests /\ q \notin Answers
  BY RequestsAssumption DEF LoneInv, RunInv, TypeOK, Requests
<1>3. /\ req'[q].pc = "spawn" /\ req[q].pc = "publish"
      /\ \A p \in Requests : p # q => req'[p] = req[p]
  BY <1>2 DEF RetryPublish, ReqGoto, Request, ReqAt
<1>4. \A s : (Asks(s)' <=> Asks(s)) /\ (Holds(s)' <=> Holds(s))
  BY <1>1, <1>2, <1>3 DEF Asks, Holds
<1>5. SoleHolder' /\ Held' /\ Manned'
  BY <1>1, <1>4 DEF LoneInv, SoleHolder, Held, Manned
<1>6. AllCalm' /\ Dead'
  BY <1>1 DEF LoneInv, AllCalm, Dead
<1>7. InTurn'
  <2>1. \A a \in Answers : req'[a] = req[a]
    BY <1>2, <1>3 DEF Requests
  <2>2. \A p \in Answers \cup Retries : req'[p].pc # "done" => task'[p].pc = "absent"
    BY <1>1, <1>3 DEF LoneInv, InTurn, Requests
  <2>3. QED
    BY <1>1, <2>1, <2>2 DEF LoneInv, InTurn, Live
<1>8. Reports'
  BY <1>3 DEF Reports, Untouched
<1>9. QED
  BY <1>1, <1>5, <1>6, <1>7, <1>8 DEF Lone, LoneInv

LEMMA HandlerLone ==
  ASSUME LoneInv, Undisturbed,
         \/ AnswersArrive \/ CancelArrive \/ RetryArrive
         \/ \E q \in Answers : AnswersStep(q)
         \/ \E q \in Cancels : CancelStep(q)
         \/ \E q \in Retries : RetryStep(q)
         \/ \E q \in Requests : RequestFault(q)
  PROVE  Lone'
<1>1. Cancels = {} /\ ~EarlyAnswers /\ Requests = Answers \cup Retries
      /\ Answers \cap Retries = {} /\ Creator \notin Requests
  BY RequestsAssumption DEF Undisturbed, Requests
<1>2. req \in [Requests -> Request] /\ task \in [Tasks -> Task]
  BY DEF LoneInv, RunInv, TypeOK
<1>3. CASE AnswersArrive
  <2>1. PICK q \in Answers : AnswersRead(q) /\ ~Live(Creator)
    BY <1>1, <1>3 DEF AnswersArrive
  <2>2. req[q].pc = "idle" /\ up = "up" /\ UNCHANGED <<row, lastEvent, task, world>>
    BY <2>1 DEF AnswersRead, ReqAt
  <2>3. CASE status = "questioning"
    <3>1. \A s \in Tasks : ~Holds(s)
      <4>1. ~Holds(Creator)
        BY <1>1, <2>1 DEF Holds, Asks, Works, Live, WorkPC, DrivingPC
      <4>2. \A a \in Answers : a = q /\ task[a].pc = "absent"
        BY <2>2 DEF Undisturbed, LoneInv, InTurn
      <4>3. \A a \in Answers : ~Holds(a)
        BY <2>2, <4>2 DEF Holds, Asks, Works, WorkPC, DrivingPC
      <4>4. \A r \in Retries : ~Holds(r)
        BY <2>3 DEF LoneInv, Held, Owns, Tasks
      <4>5. QED
        BY <4>1, <4>3, <4>4 DEF Tasks
    <3>2. ReqGoto(q, "spawn") /\ status' = status /\ Spawned(q) = status
      BY <2>1, <2>2, <2>3 DEF AnswersRead, Spawned, row
    <3>3. q \notin Retries
      BY <1>1
    <3>4. QED
      BY <2>1, <2>2, <3>1, <3>2, <3>3, TakeLone
  <2>4. CASE status # "questioning"
    <3>1. ReqGoto(q, "done") /\ ~Asks(q)
      BY <2>1, <2>2, <2>4 DEF AnswersRead, Asks
    <3>2. QED
      BY <2>1, <2>2, <3>1, RequestLone DEF world
  <2>5. QED
    BY <2>3, <2>4
<1>4. CASE RetryArrive
  <2>1. PICK q \in Retries : RetryPreview(q)
    BY <1>4 DEF RetryArrive
  <2>2. /\ req[q].pc = "idle" /\ up = "up" /\ UNCHANGED <<row, lastEvent, task, world>>
        /\ ReqGoto(q, "transition") \/ ReqGoto(q, "done")
        /\ q \notin Answers /\ ~Asks(q)
    BY <1>1, <2>1 DEF RetryPreview, ReqAt, Asks
  <2>3. QED
    BY <2>2, RequestLone DEF world
<1>5. CASE \E q \in Answers : AnswersStep(q)
  BY <1>5, SpawnLone DEF AnswersStep, AnswersSpawn
<1>6. CASE \E q \in Retries : RetryStep(q)
  <2>1. PICK q \in Retries : RetryStep(q)
    BY <1>6
  <2>2. CASE RetryTransition(q)
    <3>1. /\ req[q].pc = "transition" /\ up = "up" /\ UNCHANGED <<lastEvent, task, world>>
          /\ q \notin Answers /\ status # "cancelled"
      BY <1>1, <2>2 DEF RetryTransition, ReqAt, LoneInv, Unended
    <3>2. CASE status = "failed"
      <4>1. \A s \in Tasks : ~Holds(s)
        BY <3>2, NobodyHolds
      <4>2. ReqGoto(q, "publish") /\ status' = Spawned(q)
        BY <2>2, <3>1, <3>2 DEF RetryTransition, Spawned
      <4>3. crashes = 0 => faults = 1
        BY <3>2 DEF LoneInv, Manned
      <4>4. QED
        BY <3>1, <4>1, <4>2, <4>3, TakeLone
    <3>3. CASE status # "failed"
      <4>1. ReqGoto(q, "done") /\ UNCHANGED row /\ ~Asks(q)
        BY <2>2, <3>1, <3>3 DEF RetryTransition, row, Asks
      <4>2. QED
        BY <3>1, <4>1, RequestLone DEF world
    <3>4. QED
      BY <3>2, <3>3
  <2>3. CASE RetryPublish(q)
    BY <2>3, PublishLone
  <2>4. CASE RetrySpawn(q)
    BY <2>4, SpawnLone DEF RetrySpawn
  <2>5. QED
    BY <2>1, <2>2, <2>3, <2>4 DEF RetryStep
<1>7. CASE \E q \in Requests : RequestFault(q)
  <2>1. PICK q \in Answers \cup Retries : RequestFault(q)
    BY <1>1, <1>7
  <2>2. /\ up = "up" /\ req[q].pc \notin {"idle", "done"} /\ ReqGoto(q, "done")
        /\ UNCHANGED <<row, lastEvent, task, up, crashes>>
        /\ faults = 0 /\ faults' = 1
    BY <2>1, FaultsNat DEF RequestFault, LoneInv, RunInv
  <2>3. Live(Creator) => q \notin Answers
    BY <2>2 DEF LoneInv, InTurn
  <2>4. Asks(q) => status # "running" \/ crashes > 0
    <3>1. CASE Asks(q) /\ q \in Answers
      <4>1. status = Spawned(q)
        BY <3>1 DEF LoneInv, Held, Holds, Tasks
      <4>2. QED
        BY <3>1, <4>1 DEF Spawned
    <3>2. CASE Asks(q) /\ q \in Retries
      <4>1. crashes # 0
        BY <2>2, <3>2 DEF LoneInv, Held, Holds, Tasks
      <4>2. QED
        BY <4>1, FaultsNat DEF LoneInv, RunInv
    <3>3. QED
      BY <3>1, <3>2
  <2>5. QED
    BY <2>2, <2>3, <2>4, RequestLone
<1>8. ~CancelArrive /\ ~\E q \in Cancels : CancelStep(q)
  BY <1>1 DEF CancelArrive
<1>9. QED
  BY <1>3, <1>4, <1>5, <1>6, <1>7, <1>8

LEMMA CrashLone ==
  ASSUME LoneInv, Crash
  PROVE  Lone'
<1>1. /\ status' = status /\ faults' = faults /\ crashes' > 0
  BY BoundsAssumption DEF LoneInv, RunInv, TypeOK, Crash, row
<1>2. \A t \in Tasks : /\ task'[t] = IF Live(t) THEN Finish(task[t]) ELSE task[t]
                       /\ task'[t].pc \in {"absent", "done"}
  BY DEF Crash, Live, Finish, Blank
<1>3. \A q \in Requests : /\ req'[q].pc \in {"idle", "done"}
                          /\ req'[q].pc = "idle" => req[q].pc = "idle"
  BY DEF Crash, LoneInv, RunInv, TypeOK, Request
<1>4. \A t \in Tasks : ~Live(t)' /\ ~Holds(t)'
  BY <1>2, <1>3 DEF Live, Holds, Works, Asks, WorkPC, DrivingPC
<1>5. SoleHolder' /\ Held'
  BY <1>4 DEF SoleHolder, Held
<1>6. AllCalm'
  BY <1>1, <1>2, FinishCalm DEF LoneInv, AllCalm
<1>7. InTurn'
  <2>1. \A q \in Answers \cup Retries : req'[q].pc # "done" => task'[q].pc = "absent"
    BY <1>2, <1>3 DEF LoneInv, InTurn, Live, Requests, Tasks
  <2>2. \A a \in Answers : req'[a].pc \notin {"transition", "publish"}
    BY <1>3 DEF Requests
  <2>3. QED
    BY <1>2, <1>4, <2>1, <2>2 DEF InTurn, Tasks
<1>8. Dead'
  BY <1>1, <1>3, <1>4 DEF Dead
<1>9. Manned' /\ Reports'
  BY <1>1 DEF Manned, Reports
<1>10. QED
  BY <1>1, <1>5, <1>6, <1>7, <1>8, <1>9 DEF Lone, LoneInv

LEMMA RestartLone ==
  ASSUME LoneInv, Restart
  PROVE  Lone'
<1>1. /\ up # "up" /\ UNCHANGED <<task, req, faults, crashes>>
      /\ status' = status \/ status' = "failed"
  BY DEF Restart, Sweep, SweepPublish, row
<1>2. crashes > 0
  BY <1>1 DEF LoneInv, Dead
<1>3. \A t \in Tasks : ~Holds(t)'
  BY <1>1, NobodyHolds DEF Holds, Asks
<1>4. SoleHolder' /\ Held'
  BY <1>3 DEF SoleHolder, Held
<1>5. AllCalm' /\ InTurn' /\ Dead'
  BY <1>1 DEF LoneInv, AllCalm, InTurn, Dead, Live
<1>6. Manned' /\ Reports'
  BY <1>1, <1>2 DEF Manned, Reports
<1>7. QED
  BY <1>1, <1>4, <1>5, <1>6 DEF Lone, LoneInv

-----------------------------------------------------------------------------

LEMMA InitLone ==
  ASSUME Undisturbed
  PROVE  Init => LoneInv
<1> SUFFICES ASSUME Init PROVE LoneInv
  OBVIOUS
<1>1. RunInv
  BY InitInv
<1>2. Creator \in Tasks /\ \A q \in Requests : req[q].pc = "idle" /\ q # Creator
  BY RequestsAssumption DEF Init, Tasks
<1>3. \A t \in Tasks : task[t] = IF t = Creator THEN [Blank EXCEPT !.pc = "load"] ELSE Blank
  BY DEF Init
<1>4. \A t \in Tasks : task[t].pc = (IF t = Creator THEN "load" ELSE "absent") /\ Calm(task[t], faults)
  BY <1>3 DEF Blank, Calm, Blocks, DrivingPC, MarkPC
<1>5. \A t \in Tasks : Holds(t) <=> t = Creator
  BY <1>2, <1>4 DEF Holds, Asks, Works, WorkPC, DrivingPC
<1>6. status = "questioning" /\ up = "up" /\ lastEvent = "none"
  BY DEF Init
<1>7. AllCalm /\ SoleHolder
  BY <1>4, <1>5 DEF AllCalm, SoleHolder
<1>8. Held
  <2>1. Owns(Creator, status) /\ ~Asks(Creator) /\ Creator \notin Retries
    BY <1>2, <1>6, RequestsAssumption DEF Owns, Unended, Asks, Requests
  <2>2. Expects(Creator, task[Creator], status)
    BY <1>2, <1>4 DEF Expects
  <2>3. QED
    BY <1>5, <2>1, <2>2 DEF Held
<1>9. InTurn
  BY <1>2, <1>4 DEF InTurn, Requests, Tasks
<1>10. Dead /\ Manned /\ Reports
  <2>1. ~Telling
    BY <1>4 DEF Telling
  <2>2. QED
    BY <1>6, <2>1 DEF Dead, Manned, Reports
<1>11. QED
  BY <1>1, <1>6, <1>7, <1>8, <1>9, <1>10 DEF LoneInv, Unended

LEMMA NextLone ==
  ASSUME Undisturbed
  PROVE  LoneInv /\ [Next]_vars => LoneInv'
<1> SUFFICES ASSUME LoneInv, [Next]_vars PROVE LoneInv'
  OBVIOUS
<1>1. RunInv'
  BY NextInv, StutterInv DEF LoneInv
<1>2. ASSUME NEW t \in Tasks, TaskStep(t) \/ Fault(t) \/ HeartbeatStep(t) \/ HeartbeatFault(t)
      PROVE  Lone'
  <2>1. Live(t) /\ \E m : Turn(t, m) /\ Tells(t, m) /\ Calm(m, faults')
    BY <1>2, TaskStepTurn, FaultTurn, HeartbeatTurn
  <2>2. PICK m : Turn(t, m) /\ Tells(t, m) /\ Calm(m, faults')
    BY <2>1
  <2>3. QED
    BY <2>1, <2>2, TurnLone DEF Lone
<1>3. CASE UNCHANGED vars
  <2>1. /\ UNCHANGED <<status, lastEvent, task, req, up, faults, crashes>>
    BY <1>3 DEF vars, row, world
  <2>2. \A t : (Holds(t)' <=> Holds(t)) /\ (Asks(t)' <=> Asks(t)) /\ (Live(t)' <=> Live(t))
    BY <2>1 DEF Holds, Asks, Live
  <2>3. AllCalm' /\ SoleHolder' /\ Held' /\ InTurn' /\ Dead' /\ Manned'
    BY <2>1, <2>2 DEF LoneInv, AllCalm, SoleHolder, Held, InTurn, Dead, Manned
  <2>4. Reports'
    BY <2>1 DEF LoneInv, Reports, Untouched, Telling
  <2>5. QED
    BY <1>1, <2>1, <2>3, <2>4 DEF LoneInv
<1>4. CASE Next
  <2>1. Lone'
    BY <1>2, <1>4, HandlerLone, CrashLone, RestartLone DEF Next, Failure
  <2>2. QED
    BY <1>1, <2>1 DEF LoneInv, Lone
<1>5. QED
  BY <1>3, <1>4

\* However many retries are posted at once and however often the process
\* dies, an undisturbed run is held by one task or handler at a time.
THEOREM UndisturbedSafe ==
  ASSUME Undisturbed
  PROVE  Spec => []LoneInv
<1>1. Init => LoneInv
  BY InitLone
<1>2. LoneInv /\ [Next]_vars => LoneInv'
  BY NextLone
<1>3. QED
  BY <1>1, <1>2, PTL DEF Spec

\* However many POST /retry are posted at once and however often the process dies,
\* one task at a time runs the pipeline of an undisturbed run (runs.py:196).
THEOREM OneDriver ==
  ASSUME Undisturbed
  PROVE  Spec => []SingleDriver
<1>1. LoneInv => SingleDriver
  BY DEF LoneInv, SoleHolder, SingleDriver, Driving, Holds, Works, WorkPC, DrivingPC
<1>2. QED
  BY <1>1, UndisturbedSafe, PTL

\* A living process never leaves an undisturbed run running or cancelling with
\* neither a task nor a handler behind it (run_worker.py:264, runs.py:213).
THEOREM NobodyOrphaned ==
  ASSUME Undisturbed
  PROVE  Spec => []NoOrphan
<1>1. LoneInv => NoOrphan
  <2> SUFFICES ASSUME LoneInv, Quiet, crashes = 0 PROVE status \notin {"running", "cancelling"}
    BY DEF NoOrphan
  <2>1. \A t \in Tasks : ~Holds(t)
    BY DEF Quiet, Live, Holds, Works, Asks, WorkPC, DrivingPC
  <2>2. QED
    BY <2>1 DEF LoneInv, Manned, Unended
<1>2. QED
  BY <1>1, UndisturbedSafe, PTL

\* The last event of an undisturbed run that nobody retried tells how it ended,
\* whichever writer ended it (run_worker.py:567, audit.py:94).
THEOREM FeedTellsEnd ==
  ASSUME Undisturbed
  PROVE  Spec => []FeedAgrees
<1>1. LoneInv => FeedAgrees
  <2> SUFFICES ASSUME LoneInv, Quiet, Untouched, crashes = 0
               PROVE  /\ lastEvent = "run_completed" => status = "completed"
                      /\ lastEvent \in {"run_failed", "system.run_failed"} => status = "failed"
                      /\ lastEvent = "run_cancelled" => status = "cancelled"
    BY DEF FeedAgrees
  <2>1. ~Telling
    BY DEF Quiet, Live, Telling
  <2>2. QED
    BY <2>1 DEF LoneInv, Reports
<1>2. QED
  BY <1>1, UndisturbedSafe, PTL

\* Until an operation fails, the status of an undisturbed run takes the documented
\* steps and no others, whenever the process dies (models/run.py:19).
THEOREM StepsDocumented ==
  ASSUME Undisturbed
  PROVE  Spec => DocumentedSteps
<1> DEFINE Documented ==
      \/ faults > 0
      \/ status = "questioning" /\ status' \in {"running", "cancelling", "failed"}
      \/ status = "running" /\ status' \in {"cancelling", "completed", "failed"}
      \/ status = "cancelling" /\ status' = "cancelled"
      \/ status \in {"failed", "cancelled"} /\ status' = "running"
<1>1. LoneInv /\ [Next]_vars => [Documented]_status
  <2> SUFFICES ASSUME LoneInv, [Next]_vars, status' # status PROVE Documented
    OBVIOUS
  <2>1. Next
    BY DEF vars, row
  <2>2. ASSUME NEW t \in Tasks, TaskStep(t) \/ Fault(t) \/ HeartbeatStep(t) \/ HeartbeatFault(t)
        PROVE  Documented
    <3>1. \E m : Turn(t, m)
      BY <2>2, TaskStepTurn, FaultTurn, HeartbeatTurn
    <3>2. QED
      BY <3>1 DEF Turn
  <2>3. ASSUME NEW q \in Retries, RetryStep(q)
        PROVE  Documented
    BY <2>3 DEF RetryStep, RetryTransition, RetryPublish, RetrySpawn, row
  <2>4. CASE Restart
    BY <2>4 DEF Restart, Sweep, SweepPublish, row
  <2>5. Cancels = {}
    BY DEF Undisturbed
  <2>6. ~(\/ AnswersArrive \/ RetryArrive \/ Crash
          \/ \E q \in Answers : AnswersStep(q)
          \/ \E q \in Requests : RequestFault(q))
    BY DEF AnswersArrive, AnswersRead, RetryArrive, RetryPreview, Crash, AnswersStep,
       AnswersSpawn, RequestFault, row
  <2>7. QED
    BY <2>1, <2>2, <2>3, <2>4, <2>5, <2>6 DEF Next, CancelArrive, Failure
<1>2. QED
  BY <1>1, UndisturbedSafe, PTL DEF Spec, DocumentedSteps

-----------------------------------------------------------------------------
(* The M&A stub: a report wherever a completed run is, or has been said to *)
(* be, whatever fails, is cancelled or dies; and an undisturbed run, with  *)
(* one failure at most, is told how it ended.  At each of its awaits the   *)
(* stub's task knows what became of such a run so far (Along).             *)

StubTask == [pc : {"load", "begin", "node", "nodeWrite", "artifact", "nodeEvent",
                   "failRead", "failWrite", "failEvent", "done"},
             ctx : Ctx, cancel : BOOLEAN, seen : Status,
             target : {"cancelled", "failed"}, cont : Continuation,
             left : 0 .. MaxNodes, overdue : BOOLEAN, hb : Heartbeat]

StubCtx(k) ==
    /\ k.pc \in {"load", "begin"} => k.ctx = "bare"
    /\ k.pc \in {"node", "nodeWrite", "artifact", "nodeEvent"} => k.ctx = "body"
    /\ k.pc \in {"failRead", "failWrite", "failEvent"} => k.ctx = "outer"

\* What a task with record k, f failures so far, tells of an undisturbed run's
\* status s and last event e.
Along(k, f, s, e) ==
    /\ ~k.cancel
    /\ k.pc \notin {"failRead", "failWrite", "failEvent", "done"} => f = 0 /\ e = "none"
    /\ k.pc \in {"begin", "nodeWrite", "failWrite"} => k.seen = s
    /\ k.pc \in {"node", "nodeWrite"} => s = "running"
    /\ k.pc \in {"artifact", "nodeEvent"} => s = "completed"
    /\ k.pc \in {"failRead", "failWrite", "failEvent"} =>
           f = 1 /\ e \in {"none", "run_completed"}
    /\ k.pc = "failEvent" => s = "failed"
    /\ k.pc = "done" =>
           /\ f = 0 => s = "completed"
           /\ e = "run_completed" => s = "completed"
           /\ e = "run_failed" => s = "failed"

StubTypes ==
    /\ registry \in Tasks \cup {NoTask}
    /\ DOMAIN task = Tasks /\ task[Creator] \in StubTask
    /\ req \in [Requests -> Request]
    /\ faults \in Nat /\ crashes \in Nat

StubHolds ==
    /\ StubTypes
    /\ StubInv
    /\ StubCtx(task[Creator])
    /\ task[Creator].pc \in {"artifact", "nodeEvent"} => report
    /\ up # "up" => crashes > 0
    /\ crashes = 0 /\ faults < 2 /\ Untouched =>
           Along(task[Creator], faults, status, lastEvent)

\* What the stub's task does to its record, the run and its report.
Moves(m) ==
    /\ Become(Creator, m) /\ m \in StubTask /\ StubCtx(m)
    /\ UNCHANGED <<registry, req, up, crashes, dated>>
    /\ faults' = faults \/ faults' = faults + 1
    /\ status' \in Status /\ lastEvent' \in Event /\ report' \in BOOLEAN
    /\ status' = "completed" \/ lastEvent' = "run_completed"
       \/ m.pc \in {"artifact", "nodeEvent"} => report'
    /\ crashes = 0 /\ faults' < 2 /\ Untouched => Along(m, faults', status', lastEvent')

LEMMA MovesHolds ==
  ASSUME StubHolds, NEW m, Moves(m)
  PROVE  StubHolds'
<1>1. Creator \in Tasks /\ task'[Creator] = m /\ DOMAIN task' = Tasks
  BY DEF Moves, Become, StubHolds, StubTypes, Tasks
<1>2. Untouched' = Untouched
  BY DEF Moves, Untouched
<1>3. StubTypes'
  BY <1>1 DEF Moves, StubHolds, StubTypes
<1>4. StubInv'
  BY DEF Moves, StubHolds, StubInv
<1>5. QED
  BY <1>1, <1>2, <1>3, <1>4 DEF Moves, StubHolds, StubCtx, Along

\* What the statement the task is suspended at leaves behind.
LEMMA StubEffects ==
  ASSUME StubHolds, StubEffect
  PROVE  LET k == task[Creator] IN
         /\ status' \in Status /\ lastEvent' \in Event /\ report' \in BOOLEAN
         /\ dated' = dated
         /\ k.pc \in {"begin", "nodeWrite", "nodeEvent", "failWrite", "failEvent"}
         /\ status' = "completed" \/ lastEvent' = "run_completed" => report'
         /\ k.pc \in {"nodeWrite", "nodeEvent"} => report'
         /\ k.pc \in {"begin", "nodeWrite", "failWrite"} => lastEvent' = lastEvent
         /\ k.pc \in {"nodeEvent", "failEvent"} => status' = status
         /\ k.pc = "begin" => status' = "running" \/ k.seen # status
         /\ k.pc = "nodeWrite" /\ k.seen = "running" => status' = "completed"
         /\ k.pc = "failWrite" => status' = "failed" \/ k.seen # status
         /\ k.pc = "nodeEvent" => lastEvent' = "run_completed"
         /\ k.pc = "failEvent" => lastEvent' = "run_failed"
<1> DEFINE k == task[Creator]
<1>1. /\ status \in Status /\ lastEvent \in Event /\ report \in BOOLEAN
      /\ status = "completed" \/ lastEvent = "run_completed" => report
      /\ k.pc = "nodeEvent" => report
  BY DEF StubHolds, StubInv
<1>2. CASE k.pc = "begin" /\ BeginEffect
  BY <1>1, <1>2, StubEffect DEF BeginEffect, Assign, Status, StubEffect
<1>3. CASE k.pc = "nodeWrite" /\ NodeEffect
  BY <1>1, <1>3 DEF NodeEffect, Assign, Status, Terminal, StubEffect
<1>4. CASE k.pc = "nodeEvent" /\ Tell("run_completed")
  BY <1>1, <1>4 DEF Tell, Event, StubEffect
<1>5. CASE k.pc = "failWrite" /\ FailEffect
  BY <1>1, <1>5 DEF FailEffect, Assign, Status, Terminal, StubEffect
<1>6. CASE k.pc = "failEvent" /\ Tell("run_failed")
  BY <1>1, <1>6 DEF Tell, Event, StubEffect
<1>7. QED
  BY <1>2, <1>3, <1>4, <1>5, <1>6 DEF StubEffect

LEMMA BlankFacts ==
  /\ Blank \in [pc : {"absent"}, ctx : Ctx, cancel : BOOLEAN, seen : Status,
                target : {"cancelled", "failed"}, cont : Continuation,
                left : 0 .. MaxNodes, overdue : BOOLEAN, hb : Heartbeat]
  /\ Blank.ctx = "bare" /\ Blank.cancel = FALSE
  BY BoundsAssumption DEF Blank, Ctx, Status, Terminal, Heartbeat, Continuation

LEMMA StubFinish ==
  ASSUME NEW k
  PROVE  /\ Finish(k) \in StubTask /\ Finish(k).pc = "done" /\ ~Finish(k).cancel
         /\ StubCtx(Finish(k))
  BY BlankFacts DEF Finish, StubTask, StubCtx

\* A move to record m that keeps what the step has to keep.
LEMMA MoveTo ==
  ASSUME StubHolds, Idle \/ StubEffect, NEW m \in StubTask, Become(Creator, m), StubCtx(m),
         UNCHANGED <<registry, req, up, crashes>>,
         faults' = faults \/ faults' = faults + 1,
         m.pc = "artifact" => task[Creator].pc = "nodeWrite" /\ StubEffect,
         m.pc = "nodeEvent" => task[Creator].pc = "artifact",
         crashes = 0 /\ faults' < 2 /\ Untouched => Along(m, faults', status', lastEvent')
  PROVE  StubHolds'
<1>1. /\ status \in Status /\ lastEvent \in Event /\ report \in BOOLEAN
      /\ status = "completed" \/ lastEvent = "run_completed" => report
      /\ task[Creator].pc = "artifact" => report
  BY DEF StubHolds, StubInv
<1>2. /\ status' \in Status /\ lastEvent' \in Event /\ report' \in BOOLEAN
      /\ dated' = dated
      /\ status' = "completed" \/ lastEvent' = "run_completed" => report'
  BY <1>1, StubEffects DEF Idle, row
<1>3. m.pc \in {"artifact", "nodeEvent"} => report'
  BY <1>1, StubEffects DEF Idle
<1>4. Moves(m)
  BY <1>2, <1>3 DEF Moves
<1>5. QED
  BY <1>4, MovesHolds

LEMMA StubStepHolds ==
  ASSUME StubHolds, Stub
  PROVE  StubHolds'
<1> DEFINE k == task[Creator]
           told == crashes = 0 /\ faults < 2 /\ Untouched
<1>1. k \in StubTask /\ StubCtx(k) /\ (told => Along(k, faults, status, lastEvent))
      /\ status \in Status
  BY DEF StubHolds, StubTypes, StubInv
<1>2. UNCHANGED <<registry, req, up, crashes, faults>>
  BY DEF Stub, world
<1>3. Idle => status' = status /\ lastEvent' = lastEvent
  BY DEF Idle, row
<1>4. ASSUME NEW l \in {"begin", "nodeWrite", "failWrite"}, Reads(l), Idle,
             ~k.cancel, k.pc = IF l = "begin" THEN "load" ELSE IF l = "nodeWrite" THEN "node"
                                                        ELSE "failRead"
      PROVE  StubHolds'
  <2> DEFINE m == [k EXCEPT !.pc = l, !.seen = status]
  <2>1. m \in StubTask /\ m.pc = l /\ m.seen = status /\ m.ctx = k.ctx /\ m.cancel = k.cancel
    BY <1>1, <1>4 DEF StubTask
  <2>2. Become(Creator, m)
    BY <1>4 DEF Reads
  <2> HIDE DEF m
  <2>3. told => Along(m, faults', status', lastEvent')
    BY <1>1, <1>2, <1>3, <1>4, <2>1 DEF Along
  <2>4. StubCtx(m)
    BY <1>1, <1>4, <2>1 DEF StubCtx
  <2>5. QED
    BY <1>2, <1>4, <2>1, <2>2, <2>3, <2>4, MoveTo
<1>5. ASSUME NEW l \in {"artifact", "nodeEvent", "failEvent"}, Goes(l), Idle \/ StubEffect,
             l # "nodeEvent" => StubEffect,
             ~k.cancel, k.pc = IF l = "artifact" THEN "nodeWrite"
                               ELSE IF l = "nodeEvent" THEN "artifact" ELSE "failWrite"
      PROVE  StubHolds'
  <2> DEFINE m == [k EXCEPT !.pc = l]
  <2>1. m \in StubTask /\ m.pc = l /\ m.seen = k.seen /\ m.ctx = k.ctx /\ m.cancel = k.cancel
    BY <1>1, <1>5 DEF StubTask
  <2>2. Become(Creator, m)
    BY <1>5 DEF Goes
  <2> HIDE DEF m
  <2>3. told => Along(m, faults', status', lastEvent')
    BY <1>1, <1>2, <1>3, <1>5, <2>1, StubEffects DEF Along
  <2>4. StubCtx(m)
    BY <1>1, <1>5, <2>1 DEF StubCtx
  <2>5. QED
    BY <1>2, <1>5, <2>1, <2>2, <2>3, <2>4, MoveTo
<1>6. ASSUME StubEffect, Become(Creator, [k EXCEPT !.pc = "node", !.ctx = "body"]),
             ~k.cancel, k.pc = "begin"
      PROVE  StubHolds'
  <2> DEFINE m == [k EXCEPT !.pc = "node", !.ctx = "body"]
  <2>1. m \in StubTask /\ m.pc = "node" /\ m.ctx = "body" /\ m.cancel = k.cancel
    BY <1>1 DEF StubTask, Ctx
  <2>2. Become(Creator, m)
    BY <1>6
  <2> HIDE DEF m
  <2>3. told => Along(m, faults', status', lastEvent')
    BY <1>1, <1>2, <1>6, <2>1, StubEffects DEF Along
  <2>4. StubCtx(m)
    BY <2>1 DEF StubCtx
  <2>5. QED
    BY <1>2, <1>6, <2>1, <2>2, <2>3, <2>4, MoveTo
<1>7. ASSUME Idle \/ StubEffect, Become(Creator, Finish(k)),
             k.cancel \/ (k.pc \in {"nodeEvent", "failEvent"} /\ StubEffect)
      PROVE  StubHolds'
  <2>1. told => Along(Finish(k), faults', status', lastEvent')
    BY <1>1, <1>2, <1>7, StubFinish, StubEffects DEF Along
  <2>2. QED
    BY <1>2, <1>7, <2>1, StubFinish, MoveTo
<1>8. CASE run_ma_stub
  BY <1>4, <1>6, <1>8 DEF run_ma_stub, At
<1>9. CASE placeholder_node
  BY <1>4, <1>5, <1>7, <1>9 DEF placeholder_node, At
<1>10. CASE StubFails
  BY <1>4, <1>5, <1>7, <1>10 DEF StubFails, At
<1>11. CASE StubInterrupt
  BY <1>7, <1>11 DEF StubInterrupt
<1>12. QED
  BY <1>8, <1>9, <1>10, <1>11 DEF Stub

LEMMA StubFaultHolds ==
  ASSUME StubHolds, StubFault
  PROVE  StubHolds'
<1> DEFINE k == task[Creator]
           told == crashes = 0 /\ faults < 2 /\ Untouched
           caught == [k EXCEPT !.pc = "failRead", !.ctx = "outer"]
<1>1. k \in StubTask /\ StubCtx(k) /\ (told => Along(k, faults, status, lastEvent))
      /\ faults \in Nat
  BY DEF StubHolds, StubTypes
<1>2. /\ UNCHANGED <<registry, req, up, crashes>> /\ faults' = faults + 1
      /\ Idle \/ StubEffect
      /\ Become(Creator, IF k.ctx = "body" THEN caught ELSE Finish(k))
      /\ ~k.cancel /\ k.pc # "done"
  BY DEF StubFault, Live
<1>3. Idle => status' = status /\ lastEvent' = lastEvent
  BY DEF Idle, row
<1>4. caught \in StubTask /\ caught.pc = "failRead" /\ caught.ctx = "outer"
      /\ caught.cancel = k.cancel
  BY <1>1 DEF StubTask, Ctx
<1> HIDE DEF caught
<1>5. CASE k.ctx = "body"
  <2>1. crashes = 0 /\ faults' < 2 /\ Untouched => Along(caught, faults', status', lastEvent')
    BY <1>1, <1>2, <1>3, <1>4, <1>5, StubEffects DEF Along, StubCtx, StubTask
  <2>2. StubCtx(caught)
    BY <1>4 DEF StubCtx
  <2>3. QED
    BY <1>2, <1>4, <1>5, <2>1, <2>2, MoveTo
<1>6. CASE k.ctx # "body"
  <2>1. crashes = 0 /\ faults' < 2 /\ Untouched => Along(Finish(k), faults', status', lastEvent')
    BY <1>1, <1>2, <1>3, <1>6, StubFinish, StubEffects DEF Along, StubCtx, StubTask
  <2>2. QED
    BY <1>2, <1>6, <2>1, StubFinish, MoveTo
<1>7. QED
  BY <1>5, <1>6

LEMMA OthersHolds ==
  ASSUME StubHolds, Others
  PROVE  StubHolds'
<1>1. UNCHANGED report
  BY DEF Others
<1>2. CASE CancelArrive \/ \E q \in Cancels : CancelStep(q) \/ RequestFault(q)
  <2>1. PICK q \in Cancels : CancelRead(q) \/ CancelStep(q) \/ RequestFault(q)
    BY <1>2 DEF CancelArrive
  <2>2. q \in Requests /\ req[q] \in Request
    BY DEF Requests, StubHolds, StubTypes
  <2>3. /\ UNCHANGED <<registry, up, crashes>> /\ (faults' = faults \/ faults' = faults + 1)
        /\ status' = status \/ status' \in {"cancelling", "cancelled"}
        /\ lastEvent' = lastEvent \/ lastEvent' \in {"cancel_ack", "run_cancelled"}
        /\ dated' = dated \/ dated' = TRUE
    BY <2>1 DEF CancelRead, CancelStep, CancelCommit, CancelSignal, CancelAck, CancelForce,
       CancelForceAck, CancelForceEvent, RequestFault, Assign, row, world
  <2>4. req' \in [Requests -> Request] /\ req'[q].pc # "idle"
    BY <2>1, <2>2 DEF CancelRead, CancelStep, CancelCommit, CancelSignal, CancelAck, CancelForce,
       CancelForceAck, CancelForceEvent, RequestFault, ReqGoto, Request, ReqPC, Status, Terminal,
       StubHolds, StubTypes, StubInv
  <2>5. task' = task \/ (registry \in Tasks /\ task' = [task EXCEPT ![registry].cancel = TRUE])
    BY <2>1 DEF CancelRead, CancelStep, CancelCommit, CancelSignal, CancelAck, CancelForce,
       CancelForceAck, CancelForceEvent, RequestFault, Cancellable, StubHolds, StubTypes
  <2>6. /\ DOMAIN task' = Tasks /\ task'[Creator] \in StubTask
        /\ task'[Creator].pc = task[Creator].pc /\ task'[Creator].ctx = task[Creator].ctx
    <3>1. DOMAIN task = Tasks /\ Creator \in Tasks /\ task[Creator] \in StubTask
      BY DEF StubHolds, StubTypes, Tasks
    <3>2. task'[Creator] = task[Creator] \/ task'[Creator] = [task[Creator] EXCEPT !.cancel = TRUE]
      BY <2>5, <3>1
    <3>3. QED
      BY <2>5, <3>1, <3>2 DEF StubTask
  <2>7. StubTypes'
    BY <2>3, <2>4, <2>6 DEF StubHolds, StubTypes
  <2>8. StubInv'
    BY <1>1, <2>3, <2>4 DEF StubHolds, StubInv, Status, Terminal, Event
  <2>9. ~Untouched'
    BY <2>4 DEF Untouched
  <2>10. QED
    BY <1>1, <2>3, <2>6, <2>7, <2>8, <2>9 DEF StubHolds, StubCtx
<1>3. CASE Crash
  <2>1. crashes' > 0 /\ crashes' \in Nat
    BY <1>3 DEF Crash, StubHolds, StubTypes
  <2>2. task'[Creator] = (IF Live(Creator) THEN Finish(task[Creator]) ELSE task[Creator])
        /\ DOMAIN task' = Tasks
    BY <1>3 DEF Crash, Tasks
  <2>3. task'[Creator] \in StubTask /\ StubCtx(task'[Creator])
        /\ task'[Creator].pc \notin {"artifact", "nodeEvent"}
    BY <2>2, StubFinish DEF Live, StubHolds, StubTypes
  <2>4. req' \in [Requests -> Request]
    BY <1>3 DEF Crash, StubHolds, StubTypes, Request, ReqPC
  <2>5. StubTypes'
    BY <1>3, <2>1, <2>2, <2>3, <2>4 DEF Crash, StubHolds, StubTypes
  <2>6. StubInv'
    BY <1>1, <1>3, <2>1 DEF Crash, StubHolds, StubInv, row
  <2>7. QED
    BY <2>1, <2>3, <2>5, <2>6 DEF StubHolds
<1>4. CASE Restart
  <2>1. crashes > 0
    BY <1>4 DEF Restart, Sweep, SweepPublish, StubHolds
  <2>2. /\ UNCHANGED <<registry, task, req, faults, crashes>>
        /\ status' = status \/ status' = "failed"
        /\ lastEvent' = lastEvent \/ lastEvent' = "system.run_failed"
        /\ dated' = dated \/ dated' = TRUE
    BY <1>4 DEF Restart, Sweep, SweepPublish, row
  <2>3. StubTypes' /\ StubInv'
    BY <1>1, <2>1, <2>2 DEF StubHolds, StubTypes, StubInv, Status, Terminal, Event
  <2>4. QED
    BY <1>1, <2>1, <2>2, <2>3 DEF StubHolds
<1>5. QED
  BY <1>2, <1>3, <1>4 DEF Others

LEMMA StubInitHolds == StubInit => StubHolds
<1> SUFFICES ASSUME StubInit PROVE StubHolds
  OBVIOUS
<1>1. Init /\ report = FALSE
  BY DEF StubInit
<1> DEFINE m == [Blank EXCEPT !.pc = "load"]
<1>2. task[Creator] = m /\ DOMAIN task = Tasks
  BY <1>1 DEF Init, Tasks
<1>3. m \in StubTask /\ m.pc = "load" /\ m.ctx = "bare" /\ m.cancel = FALSE
  BY BlankFacts DEF StubTask
<1> HIDE DEF m
<1>4. StubTypes
  BY <1>1, <1>2, <1>3 DEF Init, StubTypes, Tasks, Request, ReqPC, Status, Terminal
<1>5. StubInv
  BY <1>1 DEF Init, StubInv, Status, Terminal, Event
<1>6. StubCtx(m) /\ Along(m, faults, status, lastEvent)
  BY <1>1, <1>3 DEF Init, StubCtx, Along
<1>7. QED
  BY <1>1, <1>2, <1>3, <1>4, <1>5, <1>6 DEF Init, StubHolds

\* What the task of a stub knows at each of its awaits, and the report behind every
\* completed stub (ma/runner.py:24, ma/graph.py:39).
THEOREM StubSafe == StubSpec => []StubHolds
<1>1. StubHolds /\ [StubNext]_stubVars => StubHolds'
  <2> SUFFICES ASSUME StubHolds, [StubNext]_stubVars PROVE StubHolds'
    OBVIOUS
  <2>1. CASE UNCHANGED stubVars
    BY <2>1 DEF stubVars, vars, row, world, StubHolds, StubTypes, StubInv, Untouched
  <2>2. QED
    BY <2>1, StubStepHolds, StubFaultHolds, OthersHolds DEF StubNext
<1>2. QED
  BY <1>1, StubInitHolds, PTL DEF StubSpec

\* A stub that is completed, or was announced to be, has its report, whatever its
\* unguarded writes overwrite (ma/graph.py:45).
THEOREM StubReports == StubSpec => []StubInv
<1>1. StubHolds => StubInv
  BY DEF StubHolds
<1>2. QED
  BY <1>1, StubSafe, PTL

\* The last event of a stub that nobody cancelled tells how it ended, with at most one
\* failing operation and no process death (ma/graph.py:75, ma/runner.py:45).
THEOREM StubTellsEnd == StubSpec => []StubTold
<1>1. StubHolds => StubTold
  <2> SUFFICES ASSUME StubHolds, Quiet, crashes = 0, Untouched, faults < 2
      PROVE  /\ lastEvent = "run_completed" => status = "completed"
             /\ lastEvent = "run_failed" => status = "failed"
             /\ faults = 0 => status \in Terminal
    BY DEF StubTold, StubHolds, StubTypes
  <2>1. task[Creator].pc = "done"
    BY DEF StubHolds, StubTypes, StubTask, Quiet, Live, Tasks
  <2>2. QED
    BY <2>1 DEF StubHolds, Along, Terminal
<1>2. QED
  BY <1>1, StubSafe, PTL
=============================================================================
