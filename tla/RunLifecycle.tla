---------------------------- MODULE RunLifecycle ----------------------------
(***************************************************************************)
(* The life of one consulting run: its row in Postgres, the request        *)
(* handlers of api/runs.py that change it, the background tasks of         *)
(* workers/run_worker.py that drive it, the heartbeat of each driver, the  *)
(* in-process task registry, and a restart of the process with the sweep   *)
(* of agents/_engine/recovery.py.                                          *)
(*                                                                         *)
(* Everything runs in one asyncio process, so control changes hands only   *)
(* at an await.  A step of this module is what one coroutine does from one *)
(* await to the next: the effect of the awaited statement on the database  *)
(* and the synchronous code behind it.  A SELECT and the COMMIT that       *)
(* writes what was computed from it are two steps; a guarded UPDATE is one.*)
(*                                                                         *)
(* Rows, registry keys and events of two runs never meet, so one run is    *)
(* modelled.  A background task carries the name of the request that       *)
(* spawned it; Creator is the POST /runs that created the row.             *)
(*                                                                         *)
(* An operator named Bug... is a plausible slip in the operation defined   *)
(* right after it.  No specification uses it: it documents what a property *)
(* would catch.                                                            *)
(***************************************************************************)
EXTENDS Naturals, FiniteSets

CONSTANTS
    Answers,     \* POST /answers requests
    Cancels,     \* POST /cancel requests
    Retries,     \* POST /retry requests
    Creator,     \* the POST /runs request
    NoTask,      \* no entry in the registry
    EarlyAnswers,\* may answers be posted while start_framing still runs?
    Slow,        \* the tasks whose run outlives run_timeout_seconds
    MaxNodes,    \* bound: graph nodes one drive executes, audit included
    MaxFaults,   \* bound: awaited operations that raise
    MaxCrashes   \* bound: process deaths

Requests == Answers \cup Cancels \cup Retries
Tasks    == {Creator} \cup Answers \cup Retries

ASSUME RequestsAssumption ==
    /\ Answers \cap Cancels = {}
    /\ Answers \cap Retries = {}
    /\ Cancels \cap Retries = {}
    /\ Creator \notin Requests
    /\ NoTask \notin Tasks

ASSUME BoundsAssumption ==
    /\ EarlyAnswers \in BOOLEAN
    /\ Slow \subseteq Tasks
    /\ MaxNodes \in Nat \ {0}
    /\ MaxFaults \in Nat
    /\ MaxCrashes \in Nat

VARIABLES
    status,     \* runs.status
    dated,      \* runs.completed_at IS NOT NULL
    messages,   \* the requests whose answers are saved as user messages
    lastEvent,  \* the latest lifecycle event of the run's event stream
    registry,   \* TASK_REGISTRY["run:<id>"]
    task,       \* the background tasks
    req,        \* the request handlers
    up,         \* the process: serving, dead, or in its startup sweep
    faults,     \* operations that raised so far
    crashes     \* process deaths so far

row   == <<status, dated, messages>>
world == <<up, faults, crashes>>
vars  == <<row, lastEvent, registry, task, req, world>>

Terminal == {"completed", "failed", "cancelled"}
Status   == {"created", "questioning", "running", "cancelling"} \cup Terminal
Event    == {"none", "retry_started", "cancel_ack", "run_cancelled", "run_failed",
             "system.run_failed", "run_completed"}

-----------------------------------------------------------------------------
(* A task: where it is suspended (pc) and which try block that await is in *)
(* (ctx), since that decides what an exception raised there does:          *)
(*   bare     in no try block: the task dies without touching the row      *)
(*   body     in the try of start_framing, continue_... or retry_...       *)
(*   drive    in the try of _drive_pipeline                                *)
(*   handler  in an except clause of _drive_pipeline                       *)
(*   finally  in the finally of _drive_pipeline, awaiting the heartbeat    *)
(*   outer    in an except clause of start_framing, continue_..., retry_...*)

PC  == {"absent", "load", "framing", "ready", "transition", "reconstruct",
        "node", "auditWrite", "auditPublish", "check", "timeout", "reap",
        "markRead", "markWrite", "markPublish", "final", "done"}
Ctx == {"bare", "body", "drive", "handler", "finally", "outer"}
Heartbeat == {"off", "sleep", "late", "lateCancelling", "crashed"}
Continuation == {"return", "broke", "ended", "cancelled", "failed"}

Task == [pc      : PC,
         ctx     : Ctx,
         cancel  : BOOLEAN,               \* Task.cancel() not yet delivered
         seen    : Status,                \* run.status as last loaded
         target  : {"cancelled", "failed"},  \* what a _mark_... writes
         cont    : Continuation,          \* what follows the finally
         left    : 0 .. MaxNodes,         \* nodes to execute, audit included
         overdue : BOOLEAN,               \* timeout_triggered
         hb      : Heartbeat]

Blank == [pc |-> "absent", ctx |-> "bare", cancel |-> FALSE, seen |-> "created",
          target |-> "failed", cont |-> "return", left |-> 0,
          overdue |-> FALSE, hb |-> "off"]

Finish(k) == [Blank EXCEPT !.pc = "done"]

\* `await _mark_cancelled(...)` or `await _mark_failed(...)` in block c.  The
\* locals of the drive are dead from here on, its heartbeat may be alive.
Mark(k, s, c) == [Blank EXCEPT !.pc = "markRead", !.ctx = c, !.target = s, !.hb = k.hb]

\* What follows the finally of _drive_pipeline: a plain return, the code
\* behind the try, or an exception on its way to the caller's except.
Resume(k, c) ==
    CASE c = "return"                  -> Finish(k)
      [] c = "broke"                   -> Mark(k, "cancelled", "body")
      [] c = "ended"                   -> [Blank EXCEPT !.pc = "final", !.ctx = "body"]
      [] c \in {"cancelled", "failed"} -> Mark(k, c, "outer")

\* The heartbeat is not cancelled on the way out.
BugReap(k, c) ==
    IF k.hb = "crashed" THEN Mark([k EXCEPT !.hb = "off"], "failed", "outer")
    ELSE IF k.hb = "off" THEN Resume(k, c)
    ELSE [Blank EXCEPT !.pc = "reap", !.ctx = "finally", !.cont = c, !.hb = k.hb]

\* The finally: a heartbeat that already raised raises again here, one that
\* returned is awaited without suspending, a live one is cancelled first.
Reap(k, c) ==
    IF k.hb = "crashed" THEN Mark([k EXCEPT !.hb = "off"], "failed", "outer")
    ELSE IF k.hb = "off" THEN Resume(k, c)
    ELSE [Blank EXCEPT !.pc = "reap", !.ctx = "finally", !.cont = c]

\* The except clauses log the exception and return.
BugRaise(k, x) ==
    CASE k.ctx \in {"bare", "outer", "body", "drive"} -> Finish(k)
      [] k.ctx = "handler" -> Reap(k, x)
      [] k.ctx = "finally" -> Resume(k, k.cont)

\* An exception at the await k is suspended at; x is what the except clause
\* for it marks: "cancelled" for CancelledError, "failed" for any other.
Raise(k, x) ==
    CASE k.ctx \in {"bare", "outer"} -> Finish(k)
      [] k.ctx = "body"    -> Mark(k, x, "outer")
      [] k.ctx = "drive"   -> IF x = "cancelled" /\ k.overdue
                              THEN [Blank EXCEPT !.pc = "timeout", !.ctx = "handler",
                                                 !.hb = k.hb]
                              ELSE Mark(k, x, "handler")
      [] k.ctx = "handler" -> Reap(k, x)
      [] k.ctx = "finally" -> Resume(k, k.cont)

\* Entering _drive_pipeline: the heartbeat is created, the first node starts.
Drive(k, n) == [k EXCEPT !.pc = "node", !.ctx = "drive", !.left = n, !.hb = "sleep"]

Live(t) == task[t].pc \notin {"absent", "done"}

-----------------------------------------------------------------------------
(* Initially POST /runs has committed the row and spawned start_framing.   *)

Init ==
    /\ status = "questioning"
    /\ dated = FALSE
    /\ messages = {}
    /\ lastEvent = "none"
    /\ registry = Creator
    /\ task = [t \in Tasks |-> IF t = Creator THEN [Blank EXCEPT !.pc = "load"] ELSE Blank]
    /\ req = [q \in Requests |-> [pc |-> "idle", seen |-> "created"]]
    /\ up = "up"
    /\ faults = 0
    /\ crashes = 0

-----------------------------------------------------------------------------
(* What the awaited statements do to the row and to the event stream.      *)
(* SQLAlchemy writes an assigned column only if the value differs from the *)
(* one it loaded; completed_at is a fresh timestamp and is always written. *)

Assign(loaded, new) == status' = IF loaded = new THEN status ELSE new

AcceptEffect(t) ==
    /\ status \in {"created", "questioning"}
    /\ status' = "running"
    /\ messages' = messages \cup {t}
    /\ UNCHANGED <<dated, lastEvent>>

AuditEffect(t) ==
    /\ IF task[t].seen \notin {"cancelled", "failed"}
       THEN Assign(task[t].seen, "completed") /\ dated' = TRUE
       ELSE UNCHANGED <<status, dated>>
    /\ UNCHANGED <<messages, lastEvent>>

\* completed_at is forgotten.
BugMarkUndated(t) ==
    /\ Assign(task[t].seen, task[t].target)
    /\ UNCHANGED <<dated, messages, lastEvent>>

MarkEffect(t) ==
    /\ Assign(task[t].seen, task[t].target)
    /\ dated' = TRUE
    /\ UNCHANGED <<messages, lastEvent>>

PublishEffect(e) ==
    /\ lastEvent' = e
    /\ UNCHANGED row

\* The wrong event.
BugMarkEvent(k) == IF k.target = "cancelled" THEN "run_failed" ELSE "run_completed"

MarkEvent(k) == IF k.target = "cancelled" THEN "run_cancelled" ELSE "run_failed"

\* The statement t is suspended at, for an await that ends in an exception
\* after the database has executed it.
Effect(t) ==
    \/ task[t].pc = "transition" /\ AcceptEffect(t)
    \/ task[t].pc = "auditWrite" /\ AuditEffect(t)
    \/ task[t].pc = "auditPublish" /\ PublishEffect("run_completed")
    \/ task[t].pc = "markWrite" /\ MarkEffect(t)
    \/ task[t].pc = "markPublish" /\ PublishEffect(MarkEvent(task[t]))

-----------------------------------------------------------------------------
(* Steps of the background tasks.  A task with a pending cancel does not   *)
(* go on: the CancelledError is thrown at the await it is suspended at.    *)

At(t, label) == task[t].pc = label /\ ~task[t].cancel

Become(t, k) == task' = [task EXCEPT ![t] = k]

\* start_framing: neither its first await nor the load of the run is in a try.
FramingLoad(t) ==
    /\ At(t, "load")
    /\ Become(t, [task[t] EXCEPT !.pc = "framing", !.ctx = "body"])
    /\ UNCHANGED <<row, lastEvent, registry, req, world>>

\* The framing node: a model call, the questionnaire artifact, an event.
FramingDone(t) ==
    /\ At(t, "framing")
    /\ Become(t, Finish(task[t]))
    /\ UNCHANGED <<row, lastEvent, registry, req, world>>

\* continue_after_framing and retry_failed_run enter their try blocks.
Start(t) ==
    /\ At(t, "ready")
    /\ Become(t, [task[t] EXCEPT !.ctx = "body",
                     !.pc = IF t \in Answers THEN "transition" ELSE "reconstruct"])
    /\ UNCHANGED <<row, lastEvent, registry, req, world>>

\* The guarded UPDATE to running and the INSERT of the answers, one commit.
Accept(t) ==
    /\ At(t, "transition")
    /\ AcceptEffect(t)
    /\ \E n \in 1 .. MaxNodes : Become(t, Drive(task[t], n))
    /\ UNCHANGED <<registry, req, world>>

\* The UPDATE matched no row.
Refuse(t) ==
    /\ At(t, "transition")
    /\ status \notin {"created", "questioning"}
    /\ Become(t, Mark(task[t], "cancelled", "body"))
    /\ UNCHANGED <<row, lastEvent, registry, req, world>>

\* _reconstruct_retry_state; it raises without a saved message.
Reconstruct(t) ==
    /\ At(t, "reconstruct")
    /\ IF messages # {}
       THEN \E n \in 1 .. MaxNodes : Become(t, Drive(task[t], n))
       ELSE Become(t, Mark(task[t], "failed", "outer"))
    /\ UNCHANGED <<row, lastEvent, registry, req, world>>

\* A node before the audit ends; what it writes is the Pipeline's concern.
NodeDone(t) ==
    /\ At(t, "node")
    /\ task[t].left > 1
    /\ Become(t, [task[t] EXCEPT !.pc = "check", !.left = @ - 1])
    /\ UNCHANGED <<row, lastEvent, registry, req, world>>

\* The audit node: model call, artifact upsert, load of the run ...
AuditRead(t) ==
    /\ At(t, "node")
    /\ task[t].left = 1
    /\ Become(t, [task[t] EXCEPT !.pc = "auditWrite", !.seen = status])
    /\ UNCHANGED <<row, lastEvent, registry, req, world>>

\* ... commit ...
AuditWrite(t) ==
    /\ At(t, "auditWrite")
    /\ AuditEffect(t)
    /\ Become(t, [task[t] EXCEPT !.pc = "auditPublish", !.seen = "created"])
    /\ UNCHANGED <<registry, req, world>>

\* ... and artifact_update and run_completed, whatever the commit wrote.
AuditPublish(t) ==
    /\ At(t, "auditPublish")
    /\ PublishEffect("run_completed")
    /\ Become(t, [task[t] EXCEPT !.pc = "check", !.left = 0])
    /\ UNCHANGED <<registry, req, world>>

\* The loop body of `async for _chunk in graph.astream(...)`.
Check(t) ==
    /\ At(t, "check")
    /\ Become(t, IF status = "cancelling" THEN Reap(task[t], "broke")
                 ELSE IF task[t].left = 0 THEN Reap(task[t], "ended")
                 ELSE [task[t] EXCEPT !.pc = "node"])
    /\ UNCHANGED <<row, lastEvent, registry, req, world>>

\* The except CancelledError clause once the timeout has fired.
TimeoutCheck(t) ==
    /\ At(t, "timeout")
    /\ Become(t, Mark(task[t], IF status = "cancelling" THEN "cancelled" ELSE "failed",
                      "handler"))
    /\ UNCHANGED <<row, lastEvent, registry, req, world>>

\* The cancelled heartbeat has ended; the await swallows a cancel of t itself.
Reaped(t) ==
    /\ At(t, "reap")
    /\ Become(t, Resume(task[t], task[t].cont))
    /\ UNCHANGED <<row, lastEvent, registry, req, world>>

MarkRead(t) ==
    /\ At(t, "markRead")
    /\ Become(t, [task[t] EXCEPT !.pc = "markWrite", !.seen = status])
    /\ UNCHANGED <<row, lastEvent, registry, req, world>>

MarkWrite(t) ==
    /\ At(t, "markWrite")
    /\ MarkEffect(t)
    /\ Become(t, [task[t] EXCEPT !.pc = "markPublish", !.seen = "created"])
    /\ UNCHANGED <<registry, req, world>>

MarkPublish(t) ==
    /\ At(t, "markPublish")
    /\ PublishEffect(MarkEvent(task[t]))
    /\ Become(t, IF task[t].ctx = "handler" THEN Reap(task[t], "return")
                 ELSE Finish(task[t]))
    /\ UNCHANGED <<registry, req, world>>

\* The epilogue of _drive_pipeline: a run the graph left running has failed,
\* a terminal run without a completed_at gets one.
Final(t) ==
    /\ At(t, "final")
    /\ Become(t, IF status = "running" THEN Mark(task[t], "failed", "body")
                 ELSE Finish(task[t]))
    /\ dated' = (dated \/ status \in Terminal)
    /\ UNCHANGED <<status, messages, lastEvent, registry, req, world>>

\* CancelledError at the await t is suspended at, before or after the
\* database executed the awaited statement.
Interrupt(t) ==
    /\ Live(t)
    /\ task[t].cancel
    /\ Effect(t) \/ UNCHANGED <<row, lastEvent>>
    /\ Become(t, Raise([task[t] EXCEPT !.cancel = FALSE], "cancelled"))
    /\ UNCHANGED <<registry, req, world>>

\* Any other exception there: a lost connection, a failing model call.
Fault(t) ==
    /\ Live(t)
    /\ task[t].pc \notin {"ready", "reap"}
    /\ ~task[t].cancel
    /\ faults < MaxFaults
    /\ faults' = faults + 1
    /\ Effect(t) \/ UNCHANGED <<row, lastEvent>>
    /\ Become(t, Raise(task[t], "failed"))
    /\ UNCHANGED <<registry, req, up, crashes>>

-----------------------------------------------------------------------------
(* The heartbeat of a drive.  Ticks that only write heartbeat_at change    *)
(* nothing here.                                                           *)

\* The loop finds the run over and returns.
HeartbeatStop(t) ==
    /\ task[t].hb = "sleep"
    /\ status \in Terminal
    /\ Become(t, [task[t] EXCEPT !.hb = "off"])
    /\ UNCHANGED <<row, lastEvent, registry, req, world>>

\* It loads a run that is over its time budget ...
HeartbeatLate(t) ==
    /\ t \in Slow
    /\ task[t].hb = "sleep"
    /\ status \notin Terminal
    /\ Become(t, [task[t] EXCEPT !.hb = IF status = "cancelling" THEN "lateCancelling"
                                        ELSE "late"])
    /\ UNCHANGED <<row, lastEvent, registry, req, world>>

\* ... and resumes: timeout_triggered.set(), run_task.cancel(), return.
HeartbeatCancel(t) ==
    /\ task[t].hb \in {"late", "lateCancelling"}
    /\ Become(t, [task[t] EXCEPT !.cancel = TRUE, !.hb = "off",
                     !.overdue = @ \/ task[t].hb = "late"])
    /\ UNCHANGED <<row, lastEvent, registry, req, world>>

HeartbeatFault(t) ==
    /\ task[t].hb = "sleep"
    /\ faults < MaxFaults
    /\ faults' = faults + 1
    /\ Become(t, [task[t] EXCEPT !.hb = "crashed"])
    /\ UNCHANGED <<row, lastEvent, registry, req, up, crashes>>

-----------------------------------------------------------------------------
(* The request handlers.                                                   *)

ReqPC == {"idle", "spawn", "commit", "signal", "ack", "force", "forceAck", "forceEvent",
          "transition", "publish", "done"}
Request == [pc : ReqPC, seen : Status]

ReqAt(q, label) == up = "up" /\ req[q].pc = label

ReqGoto(q, label) == req' = [req EXCEPT ![q].pc = label]

\* TASK_REGISTRY.spawn: the entry of an earlier task is overwritten.
Spawn(q) ==
    /\ registry' = q
    /\ task' = [task EXCEPT ![q] = [Blank EXCEPT !.pc = "ready"]]

\* TASK_REGISTRY.cancel finds a task that is not done.  Finished tasks remove
\* their own entry; since cancel skips them, a stale entry here is as good.
Cancellable == registry # NoTask /\ Live(registry)

\* submit_answers loads the run and turns it away unless it is questioning.
AnswersRead(q) ==
    /\ ReqAt(q, "idle")
    /\ ReqGoto(q, IF status = "questioning" THEN "spawn" ELSE "done")
    /\ UNCHANGED <<row, lastEvent, registry, task, world>>

\* It resolves the models and spawns continue_after_framing.
AnswersSpawn(q) ==
    /\ ReqAt(q, "spawn")
    /\ Spawn(q)
    /\ ReqGoto(q, "done")
    /\ UNCHANGED <<row, lastEvent, world>>

\* cancel_run loads the run and leaves a terminal one alone ...
CancelRead(q) ==
    /\ ReqAt(q, "idle")
    /\ req' = [req EXCEPT ![q] =
           [pc |-> IF status \in Terminal THEN "done" ELSE "commit", seen |-> status]]
    /\ UNCHANGED <<row, lastEvent, registry, task, world>>

\* ... commits `cancelling` ...
CancelCommit(q) ==
    /\ ReqAt(q, "commit")
    /\ Assign(req[q].seen, "cancelling")
    /\ req' = [req EXCEPT ![q] = [pc |-> "signal", seen |-> "created"]]
    /\ UNCHANGED <<dated, messages, lastEvent, registry, task, world>>

\* ... and cancels the registered task, if one is alive.
CancelSignal(q) ==
    /\ ReqAt(q, "signal")
    /\ IF Cancellable
       THEN task' = [task EXCEPT ![registry].cancel = TRUE] /\ ReqGoto(q, "ack")
       ELSE ReqGoto(q, "force") /\ UNCHANGED task
    /\ UNCHANGED <<row, lastEvent, registry, world>>

CancelAck(q) ==
    /\ ReqAt(q, "ack")
    /\ lastEvent' = "cancel_ack"
    /\ ReqGoto(q, "done")
    /\ UNCHANGED <<row, registry, task, world>>

\* Without a task it marks the run cancelled itself: the session still holds
\* the `cancelling` it wrote, so the status is always written.
CancelForce(q) ==
    /\ ReqAt(q, "force")
    /\ status' = "cancelled"
    /\ dated' = TRUE
    /\ ReqGoto(q, "forceAck")
    /\ UNCHANGED <<messages, lastEvent, registry, task, world>>

CancelForceAck(q) ==
    /\ ReqAt(q, "forceAck")
    /\ lastEvent' = "cancel_ack"
    /\ ReqGoto(q, "forceEvent")
    /\ UNCHANGED <<row, registry, task, world>>

CancelForceEvent(q) ==
    /\ ReqAt(q, "forceEvent")
    /\ lastEvent' = "run_cancelled"
    /\ ReqGoto(q, "done")
    /\ UNCHANGED <<row, registry, task, world>>

\* retry_run previews the resume point, which needs saved answers ...
RetryPreview(q) ==
    /\ ReqAt(q, "idle")
    /\ ReqGoto(q, IF messages # {} THEN "transition" ELSE "done")
    /\ UNCHANGED <<row, lastEvent, registry, task, world>>

\* The UPDATE only checks that the run has started.
BugRetryTransition(q) ==
    /\ ReqAt(q, "transition")
    /\ status' = "running"
    /\ dated' = FALSE
    /\ ReqGoto(q, "publish")
    /\ UNCHANGED <<messages, lastEvent, registry, task, world>>

\* ... moves a failed or cancelled run to running with a guarded UPDATE ...
RetryTransition(q) ==
    /\ ReqAt(q, "transition")
    /\ IF status \in {"failed", "cancelled"}
       THEN /\ status' = "running"
            /\ dated' = FALSE
            /\ ReqGoto(q, "publish")
       ELSE ReqGoto(q, "done") /\ UNCHANGED <<status, dated>>
    /\ UNCHANGED <<messages, lastEvent, registry, task, world>>

\* ... publishes run_retry_started ...
RetryPublish(q) ==
    /\ ReqAt(q, "publish")
    /\ lastEvent' = "retry_started"
    /\ ReqGoto(q, "spawn")
    /\ UNCHANGED <<row, registry, task, world>>

\* ... and spawns retry_failed_run.
RetrySpawn(q) ==
    /\ ReqAt(q, "spawn")
    /\ Spawn(q)
    /\ ReqGoto(q, "done")
    /\ UNCHANGED <<row, lastEvent, world>>

\* A handler whose next await raises answers 500 and undoes nothing.
RequestFault(q) ==
    /\ up = "up"
    /\ req[q].pc \notin {"idle", "done"}
    /\ faults < MaxFaults
    /\ faults' = faults + 1
    /\ ReqGoto(q, "done")
    /\ UNCHANGED <<row, lastEvent, registry, task, up, crashes>>

-----------------------------------------------------------------------------
(* The process dies: every task and handler is gone, the row stays.        *)

Crash ==
    /\ up # "down"
    /\ crashes < MaxCrashes
    /\ crashes' = crashes + 1
    /\ up' = "down"
    /\ registry' = NoTask
    /\ task' = [t \in Tasks |-> IF Live(t) THEN Finish(task[t]) ELSE task[t]]
    /\ req' = [q \in Requests |-> IF req[q].pc = "idle" THEN req[q]
                                  ELSE [req[q] EXCEPT !.pc = "done"]]
    /\ UNCHANGED <<row, lastEvent, faults>>

\* Startup fails a running run whose heartbeat is older than the threshold.
\* The restart may come sooner than that: then the run is left as it is.
Sweep ==
    /\ up = "down"
    /\ \/ /\ status = "running"
          /\ status' = "failed"
          /\ dated' = TRUE
          /\ up' = "sweeping"
       \/ up' = "up" /\ UNCHANGED <<status, dated>>
    /\ UNCHANGED <<messages, lastEvent, registry, task, req, faults, crashes>>

SweepPublish ==
    /\ up = "sweeping"
    /\ lastEvent' = "system.run_failed"
    /\ up' = "up"
    /\ UNCHANGED <<row, registry, task, req, faults, crashes>>

-----------------------------------------------------------------------------
TaskStep(t) ==
    \/ FramingLoad(t) \/ FramingDone(t)
    \/ Start(t) \/ Accept(t) \/ Refuse(t) \/ Reconstruct(t)
    \/ NodeDone(t) \/ AuditRead(t) \/ AuditWrite(t) \/ AuditPublish(t)
    \/ Check(t) \/ TimeoutCheck(t) \/ Reaped(t)
    \/ MarkRead(t) \/ MarkWrite(t) \/ MarkPublish(t)
    \/ Final(t) \/ Interrupt(t)

HeartbeatStep(t) == HeartbeatStop(t) \/ HeartbeatLate(t) \/ HeartbeatCancel(t)

\* The browser shows the form once the questionnaire is there, which is when
\* framing ends but for its last event; a direct API call may come earlier.
AnswersArrive == (EarlyAnswers \/ ~Live(Creator)) /\ \E q \in Answers : AnswersRead(q)
CancelArrive  == \E q \in Cancels : CancelRead(q)
RetryArrive   == \E q \in Retries : RetryPreview(q)

\* The rest of a handler, once the request is in.
AnswersStep(q) == AnswersSpawn(q)
CancelStep(q)  == CancelCommit(q) \/ CancelSignal(q) \/ CancelAck(q)
                  \/ CancelForce(q) \/ CancelForceAck(q) \/ CancelForceEvent(q)
RetryStep(q)   == RetryTransition(q) \/ RetryPublish(q) \/ RetrySpawn(q)

Failure ==
    \/ \E t \in Tasks : Fault(t) \/ HeartbeatFault(t)
    \/ \E q \in Requests : RequestFault(q)
    \/ Crash

Restart == Sweep \/ SweepPublish

Next ==
    \/ \E t \in Tasks : TaskStep(t) \/ HeartbeatStep(t)
    \/ AnswersArrive \/ CancelArrive \/ RetryArrive
    \/ \E q \in Answers : AnswersStep(q)
    \/ \E q \in Cancels : CancelStep(q)
    \/ \E q \in Retries : RetryStep(q)
    \/ Failure
    \/ Restart

Spec == Init /\ [][Next]_vars

\* The event loop runs every ready task and handler; requests, failures and
\* the expiry of the time budget are up to the environment.
Fairness ==
    /\ \A t \in Tasks : WF_vars(TaskStep(t))
    /\ \A q \in Answers : WF_vars(AnswersStep(q))
    /\ \A q \in Cancels : WF_vars(CancelStep(q))
    /\ \A q \in Retries : WF_vars(RetryStep(q))
    /\ WF_vars(Restart)

FairSpec == Spec /\ Fairness

-----------------------------------------------------------------------------
(* What must hold.                                                         *)

\* Every variable stays in its range; no task is in a place the code lacks.
TypeOK ==
    /\ status \in Status
    /\ dated \in BOOLEAN
    /\ messages \subseteq Tasks
    /\ lastEvent \in Event
    /\ registry \in Tasks \cup {NoTask}
    /\ task \in [Tasks -> Task]
    /\ req \in [Requests -> Request]
    /\ up \in {"up", "down", "sweeping"}
    /\ faults \in 0 .. MaxFaults
    /\ crashes \in 0 .. MaxCrashes

\* Between its first node and the last check behind the audit, task t runs
\* the pipeline.
Driving(t) == task[t].pc \in {"node", "auditWrite", "auditPublish", "check"}

\* However many POST /answers pass the handler's check, one set of answers is
\* ever saved, and none while the run still waits for them.
AnswersOnce ==
    /\ \A a, b \in messages : a = b
    /\ status \in {"created", "questioning"} => messages = {}

\* No pipeline runs on answers that are not the saved ones: a first drive is
\* that of the request whose answers were saved, a retry finds saved answers.
DriverHasAnswers ==
    \A t \in Tasks : Driving(t) =>
        /\ messages # {}
        /\ t \in Answers => messages = {t}

\* A retry that was let in can rebuild its state: _reconstruct_retry_state
\* never meets a run without saved answers.
RetryResumable ==
    \A r \in Retries :
        \/ req[r].pc \in {"transition", "publish", "spawn"}
        \/ task[r].pc \in {"ready", "reconstruct"}
        => messages # {}

\* A terminal run has a completed_at, across retries that clear it and late
\* marks, audits and cancels that write on a row they loaded earlier.
TerminalDated == status \in Terminal => dated

\* A heartbeat lives only while its drive does: it never cancels a task that
\* has left the pipeline or entered another except clause.
HeartbeatOwned ==
    \A t \in Tasks : task[t].hb # "off" => task[t].ctx \in {"drive", "handler"}

\* At most one task runs the pipeline of the run.
SingleDriver == \A s, t \in Tasks : Driving(s) /\ Driving(t) => s = t

\* Nothing is left to run, neither a task nor a handler.
Quiet ==
    /\ up = "up"
    /\ \A t \in Tasks : ~Live(t)
    /\ \A q \in Requests : req[q].pc \in {"idle", "done"}

\* As long as the process lives, a run is not left running or cancelling with
\* nobody to end it.
NoOrphan == Quiet /\ crashes = 0 => status \notin {"running", "cancelling"}

\* Nobody asked to cancel or to retry.
Untouched == \A q \in Cancels \cup Retries : req[q].pc = "idle"

\* Once all is quiet the last lifecycle event tells how the run ended, unless
\* the process died between the commit and the event, or a request changed the
\* row while an event was on its way.
FeedAgrees ==
    Quiet /\ Untouched /\ crashes = 0 =>
             /\ lastEvent = "run_completed" => status = "completed"
             /\ lastEvent \in {"run_failed", "system.run_failed"} => status = "failed"
             /\ lastEvent = "run_cancelled" => status = "cancelled"

\* The documented status machine, one disjunct per source state, as long as no
\* operation failed.
DocumentedSteps ==
    [][ \/ faults > 0
        \/ status = "questioning" /\ status' \in {"running", "cancelling", "failed"}
        \/ status = "running"     /\ status' \in {"cancelling", "completed", "failed"}
        \/ status = "cancelling"  /\ status' = "cancelled"
        \/ status \in {"failed", "cancelled"} /\ status' = "running" ]_status

\* A drive comes to an end: a running run does not stay running.
Settles == status = "running" ~> status # "running"

\* A cancel that reached a live driver ends the run, whatever the driver was
\* awaiting and however a second cancel or the time budget meets it.
CancelSettles ==
    \A t \in Tasks :
        (Driving(t) /\ task[t].cancel /\ status = "cancelling") ~> status \in Terminal

\* What the proofs need besides: which tasks are where, and that there is no
\* heartbeat before and behind the try of _drive_pipeline.
Placed ==
    \A t \in Tasks :
        /\ task[t].pc = "ready" => t \in Answers \cup Retries
        /\ task[t].pc = "transition" => t \in Answers
        /\ task[t].pc = "reconstruct" => t \in Retries
        /\ task[t].pc \in {"load", "ready", "transition", "reconstruct", "reap", "final"}
             => task[t].hb = "off"

\* What holds in every environment: the drivers run on the answers that were
\* saved, once, a terminal row is dated and no heartbeat outlives its drive.
\* It is inductive.
RunInv ==
    /\ TypeOK
    /\ Placed
    /\ AnswersOnce
    /\ DriverHasAnswers
    /\ RetryResumable
    /\ TerminalDated
    /\ HeartbeatOwned

\* The row as the rest of the system sees it: whatever races, fails or
\* restarts, it takes only the steps of RunRow.
Row == INSTANCE RunRow WITH Answers <- Answers, status <- status, dated <- dated,
                            messages <- messages
RowSpec == Row!Spec

=============================================================================
