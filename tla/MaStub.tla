-------------------------------- MODULE MaStub --------------------------------
(* A run of the M&A task: agents/ma.  POST /runs spawns run_ma_stub instead of *)
(* start_framing; it drives a graph of one node that writes a placeholder      *)
(* report, without a heartbeat, a time budget or a clause for CancelledError.  *)
(* The row, the registry, POST /cancel, the process and its sweep are those of *)
(* RunLifecycle; POST /answers and POST /retry turn an M&A run away.           *)
EXTENDS RunLifecycle

VARIABLE report    \* final_report.md is stored

stubVars == <<vars, report>>

StubInit == Init /\ report = FALSE

-------------------------------------------------------------------------------
(* What the statement does that the stub is suspended at.  It writes neither   *)
(* completed_at nor messages.                                                  *)

(* The row is loaded and set to running, whatever it said.                     *)
BeginEffect ==
    /\ Assign(task[Creator].seen, "running")
    /\ UNCHANGED <<lastEvent, report>>

BugNodeEffect ==                  \* the report, but not the status
    /\ report' = TRUE
    /\ UNCHANGED <<status, lastEvent>>

(* The report and the status are one commit.                                   *)
NodeEffect ==
    /\ report' = TRUE
    /\ IF task[Creator].seen \notin {"cancelled", "failed"}
       THEN Assign(task[Creator].seen, "completed")
       ELSE UNCHANGED status
    /\ UNCHANGED lastEvent

BugFailEffect ==                  \* the report goes with a failed run
    /\ Assign(task[Creator].seen, "failed")
    /\ report' = FALSE
    /\ UNCHANGED lastEvent

FailEffect ==
    /\ Assign(task[Creator].seen, "failed")
    /\ UNCHANGED <<lastEvent, report>>

Tell(e) == lastEvent' = e /\ UNCHANGED <<status, report>>

StubEffect ==
    /\ \/ task[Creator].pc = "begin" /\ BeginEffect
       \/ task[Creator].pc = "nodeWrite" /\ NodeEffect
       \/ task[Creator].pc = "nodeEvent" /\ Tell("run_completed")
       \/ task[Creator].pc = "failWrite" /\ FailEffect
       \/ task[Creator].pc = "failEvent" /\ Tell("run_failed")
    /\ UNCHANGED <<dated, messages>>

-------------------------------------------------------------------------------
(* The stub's steps.                                                           *)

Idle == UNCHANGED <<row, lastEvent, report>>

Goes(label) == Become(Creator, [task[Creator] EXCEPT !.pc = label])
Reads(label) == Become(Creator, [task[Creator] EXCEPT !.pc = label, !.seen = status])

(* run_ma_stub loads and commits before its try block, and streams the graph   *)
(* in it.                                                                      *)
run_ma_stub ==
    \/ At(Creator, "load") /\ Reads("begin") /\ Idle
    \/ /\ At(Creator, "begin") /\ StubEffect
       /\ Become(Creator, [task[Creator] EXCEPT !.pc = "node", !.ctx = "body"])

(* The node looks for an earlier report and loads the run; it publishes        *)
(* artifact_update and run_completed whatever it wrote.                        *)
placeholder_node ==
    \/ At(Creator, "node") /\ Reads("nodeWrite") /\ Idle
    \/ At(Creator, "nodeWrite") /\ StubEffect /\ Goes("artifact")
    \/ At(Creator, "artifact") /\ Goes("nodeEvent") /\ Idle
    \/ At(Creator, "nodeEvent") /\ StubEffect /\ Become(Creator, Finish(task[Creator]))

(* The except clause, entered with "failRead".                                 *)
StubFails ==
    \/ At(Creator, "failRead") /\ Reads("failWrite") /\ Idle
    \/ At(Creator, "failWrite") /\ StubEffect /\ Goes("failEvent")
    \/ At(Creator, "failEvent") /\ StubEffect /\ Become(Creator, Finish(task[Creator]))

(* An exception at the await, before or after the database executed it.        *)
StubFault ==
    /\ Live(Creator) /\ ~task[Creator].cancel
    /\ faults < MaxFaults
    /\ faults' = faults + 1
    /\ StubEffect \/ Idle
    /\ Become(Creator, IF task[Creator].ctx = "body"
                       THEN [task[Creator] EXCEPT !.pc = "failRead", !.ctx = "outer"]
                       ELSE Finish(task[Creator]))
    /\ UNCHANGED <<registry, req, up, crashes>>

(* No clause catches CancelledError: the task ends where it is.                *)
StubInterrupt ==
    /\ Live(Creator) /\ task[Creator].cancel
    /\ StubEffect \/ Idle
    /\ Become(Creator, Finish(task[Creator]))

Stub ==
    /\ run_ma_stub \/ placeholder_node \/ StubFails \/ StubInterrupt
    /\ UNCHANGED <<registry, req, world>>

Others ==
    /\ \/ CancelArrive
       \/ \E q \in Cancels : CancelStep(q) \/ RequestFault(q)
       \/ Crash \/ Restart
    /\ UNCHANGED report

StubNext == Stub \/ StubFault \/ Others

StubSpec == StubInit /\ [][StubNext]_stubVars

-------------------------------------------------------------------------------
(* Correctness                                                                 *)

(* A run that is completed, or has been said to be, has its report, whatever   *)
(* overwrote what in between: the placeholder of a stub that then failed       *)
(* stays.  The stub dates nothing, so only a cancel without a task, or the     *)
(* sweep, leaves a completed_at (graph.py:72, runs.py:158).                    *)
StubInv ==
    /\ status \in Status /\ dated \in BOOLEAN /\ report \in BOOLEAN
    /\ lastEvent \in Event
    /\ status = "completed" \/ lastEvent = "run_completed" => report
    /\ dated => crashes > 0 \/ \E q \in Cancels : req[q].pc # "idle"

(* Once all is quiet in a process that lived, the last event tells how the run *)
(* ended if nobody cancelled it and at most one operation failed; and a run    *)
(* that has not ended met a failure or a cancel.  (Cancelled alive, it may stay *)
(* cancelling or even running for good: runner.py:36, runner.py:45.)           *)
StubTold ==
    Quiet /\ crashes = 0 =>
        /\ Untouched /\ faults < 2 =>
               /\ lastEvent = "run_completed" => status = "completed"
               /\ lastEvent = "run_failed" => status = "failed"
        /\ Untouched /\ faults = 0 => status \in Terminal
===============================================================================
