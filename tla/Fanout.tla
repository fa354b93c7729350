------------------------------- MODULE Fanout -------------------------------
(***************************************************************************)
(* The workers of one stage of a run: _run_worker_fanout starts a task for *)
(* each, which goes through the tool loop of _run_react_stage under a      *)
(* semaphore; every model call is added to the run's usage by the drive's  *)
(* BudgetTracker, every source found is registered as evidence, and when   *)
(* all workers are done _persist_stage_output stores what they made.       *)
(*                                                                         *)
(* The stage is modelled once for every drive of the run.  A worker that   *)
(* fails ends the drive, but gather leaves the others running: a retry may *)
(* meet them.  An answer asks for one tool and a tool finds one source;    *)
(* every call reports its usage.                                           *)
(***************************************************************************)
EXTENDS Naturals, FiniteSets

CONSTANTS
    Workers,        \* the selected workers of the stage
    Sources,        \* what the tools can find, by src_id
    Concurrency,    \* worker_concurrency
    MaxIterations,  \* react_max_iterations
    MaxDrives,      \* bound: the first drive and the retries
    MaxFailures,    \* bound: model calls and writes of the database that fail
    MaxCancels      \* bound: drives that are cancelled

ASSUME FanoutAssumption ==
    /\ Workers # {} /\ IsFiniteSet(Workers)
    /\ Concurrency \in Nat \ {0}
    /\ MaxIterations \in Nat
    /\ MaxDrives \in Nat \ {0}
    /\ MaxFailures \in Nat
    /\ MaxCancels \in Nat

Drives == 1 .. MaxDrives
Tasks  == Drives \X Workers

VARIABLES
    drive,      \* the stage of each drive, from its start to the commit
    task,       \* run_worker of each drive and worker
    reply,      \* what its last model answer leads to
    rounds,     \* iterations of its tool loop
    locked,     \* the task in the lock of the tracker, of which a drive has its own
    seen,       \* the usage that task has read
    usage,      \* model_snapshot["usage"], in calls
    counted,    \* history: calls whose update was committed
    evidence,   \* src_ids in the evidence table
    artifacts,  \* the drive whose output is in the artifacts table, or 0
    cited,      \* the evidence of that output
    missing,    \* evidence the commit is going to insert
    haunted,    \* history: a retry began while older tasks still ran
    spent       \* bookkeeping for the bounds

loop  == <<reply, rounds>>
meter == <<locked, seen, usage, counted>>
table == <<artifacts, cited, missing>>
vars  == <<drive, task, loop, meter, evidence, table, haunted, spent>>

\* Where a task is.  A model call is under way in "call" (of the loop) and
\* "output" (the last one), its callback in "counting" and "counted"; "find"
\* and "insert" are the halves of register_evidence.
Over  == {"none", "done", "failed", "cancelled"}
Steps == Over \cup {"waiting", "call", "output", "counting", "counted", "find", "insert"}

Free == {}

Init ==
    /\ drive = [d \in Drives |-> IF d = 1 THEN "running" ELSE "none"]
    /\ task = [t \in Tasks |-> IF t[1] = 1 THEN "waiting" ELSE "none"]
    /\ reply = [t \in Tasks |-> "none"]
    /\ rounds = [t \in Tasks |-> 0]
    /\ locked = [d \in Drives |-> Free]
    /\ seen = [d \in Drives |-> 0]
    /\ usage = 0
    /\ counted = 0
    /\ evidence = {}
    /\ artifacts = 0
    /\ cited = {}
    /\ missing = {}
    /\ haunted = FALSE
    /\ spent = [failures |-> 0, cancels |-> 0]

TasksOf(d) == {t \in Tasks : t[1] = d}
Active     == {t \in Tasks : task[t] \notin Over}

Spend(what, bound) ==
    /\ spent[what] < bound
    /\ spent' = [spent EXCEPT ![what] = @ + 1]

Goes(t, step) == task' = [task EXCEPT ![t] = step]

-----------------------------------------------------------------------------
(* run_worker, _run_react_stage.                                           *)

\* The semaphore is held from the first call to the end of the task.
Inside(d) == {t \in TasksOf(d) : t \in Active /\ task[t] # "waiting"}

NextCall(n) == IF n < MaxIterations THEN "call" ELSE "output"

Enter(t) ==
    /\ task[t] = "waiting"
    /\ Cardinality(Inside(t[1])) < Concurrency
    /\ Goes(t, NextCall(0))
    /\ UNCHANGED <<drive, loop, meter, evidence, table, haunted, spent>>

\* The model of the loop asks for a tool or leaves the loop; the last call
\* ends the task.
Answer(t) ==
    /\ task[t] \in {"call", "output"}
    /\ \E r \in IF task[t] = "call" THEN {"find", "output"} ELSE {"done"} :
          reply' = [reply EXCEPT ![t] = r]
    /\ Goes(t, "counting")
    /\ UNCHANGED <<drive, rounds, meter, evidence, table, haunted, spent>>

\* No answer, or at the end one that is no StageOutput, which counts as a call.
CallFails(t) ==
    /\ \/ task[t] \in {"call", "output"} /\ Goes(t, "failed") /\ UNCHANGED reply
       \/ /\ task[t] = "output"
          /\ reply' = [reply EXCEPT ![t] = "failed"]
          /\ Goes(t, "counting")
    /\ Spend("failures", MaxFailures)
    /\ UNCHANGED <<drive, rounds, meter, evidence, table, haunted>>

\* register_evidence in the tool: a source that is there already is reported, ...
FindSource(t) ==
    /\ task[t] = "find"
    /\ rounds' = [rounds EXCEPT ![t] = @ + 1]
    /\ \E s \in Sources :
          IF s \in evidence
          THEN Goes(t, NextCall(rounds'[t])) /\ UNCHANGED reply
          ELSE Goes(t, "insert") /\ reply' = [reply EXCEPT ![t] = s]
    /\ UNCHANGED <<drive, meter, evidence, table, haunted, spent>>

\* The violated constraint ends the worker.
BugInsertSource(t) ==
    /\ task[t] = "insert"
    /\ Goes(t, IF reply[t] \in evidence THEN "failed" ELSE NextCall(rounds[t]))
    /\ evidence' = evidence \cup {reply[t]}
    /\ reply' = [reply EXCEPT ![t] = "none"]
    /\ UNCHANGED <<drive, rounds, meter, table, haunted, spent>>

\* ... a new one is stored; if it has got there meanwhile, the violated unique
\* constraint is to the model a tool that failed.
InsertSource(t) ==
    /\ task[t] = "insert"
    /\ evidence' = evidence \cup {reply[t]}
    /\ reply' = [reply EXCEPT ![t] = "none"]
    /\ Goes(t, NextCall(rounds[t]))
    /\ UNCHANGED <<drive, rounds, meter, table, haunted, spent>>

\* A tool that finds nothing, or fails, or is not there.
FindNothing(t) ==
    /\ task[t] = "find"
    /\ rounds' = [rounds EXCEPT ![t] = @ + 1]
    /\ Goes(t, NextCall(rounds'[t]))
    /\ UNCHANGED <<drive, reply, meter, evidence, table, haunted, spent>>

-----------------------------------------------------------------------------
(* BudgetTracker.on_llm_end: read, add and write under the tracker's lock. *)

\* Without the lock.
BugReadUsage(t) ==
    /\ task[t] = "counting"
    /\ seen' = [seen EXCEPT ![t[1]] = usage]
    /\ Goes(t, "counted")
    /\ UNCHANGED <<drive, loop, locked, usage, counted, evidence, table, haunted, spent>>

ReadUsage(t) ==
    /\ task[t] = "counting"
    /\ locked[t[1]] = Free
    /\ locked' = [locked EXCEPT ![t[1]] = {t}]
    /\ seen' = [seen EXCEPT ![t[1]] = usage]
    /\ Goes(t, "counted")
    /\ UNCHANGED <<drive, loop, usage, counted, evidence, table, haunted, spent>>

\* An update that fails keeps the lock.
BugWriteUsage(t) ==
    /\ task[t] = "counted"
    /\ \/ /\ usage' = seen[t[1]] + 1 /\ counted' = counted + 1
          /\ locked' = [locked EXCEPT ![t[1]] = Free]
          /\ UNCHANGED spent
       \/ UNCHANGED <<locked, usage, counted>> /\ Spend("failures", MaxFailures)
    /\ seen' = [seen EXCEPT ![t[1]] = 0]
    /\ Goes(t, reply[t])
    /\ reply' = [reply EXCEPT ![t] = "none"]
    /\ UNCHANGED <<drive, rounds, evidence, table, haunted>>

\* An update that fails is logged and the call goes uncounted.
WriteUsage(t) ==
    /\ task[t] = "counted"
    /\ \/ usage' = seen[t[1]] + 1 /\ counted' = counted + 1 /\ UNCHANGED spent
       \/ UNCHANGED <<usage, counted>> /\ Spend("failures", MaxFailures)
    /\ locked' = [locked EXCEPT ![t[1]] = Free]
    /\ seen' = [seen EXCEPT ![t[1]] = 0]
    /\ Goes(t, reply[t])
    /\ reply' = [reply EXCEPT ![t] = "none"]
    /\ UNCHANGED <<drive, rounds, evidence, table, haunted>>

-----------------------------------------------------------------------------
(* The stage node and the drive around it.                                 *)

\* The evidence of the output is left to the tools.
BugGatherBare(d) ==
    /\ drive[d] = "running"
    /\ \A t \in TasksOf(d) : task[t] = "done"
    /\ drive' = [drive EXCEPT ![d] = "persisting"]
    /\ \E S \in SUBSET Sources : cited' = S /\ missing' = {}
    /\ UNCHANGED <<task, loop, meter, evidence, artifacts, haunted, spent>>

\* Failed workers are left out (return_exceptions).
BugGather(d) ==
    /\ drive[d] = "running"
    /\ \A t \in TasksOf(d) : task[t] \in Over
    /\ drive' = [drive EXCEPT ![d] = "persisting"]
    /\ \E S \in SUBSET Sources : cited' = S /\ missing' = S \ evidence
    /\ UNCHANGED <<task, loop, meter, evidence, artifacts, haunted, spent>>

\* gather returns when all tasks are done; the evidence of their outputs, of
\* which the models say what they like, is looked up.
Gather(d) ==
    /\ drive[d] = "running"
    /\ \A t \in TasksOf(d) : task[t] = "done"
    /\ drive' = [drive EXCEPT ![d] = "persisting"]
    /\ \E S \in SUBSET Sources : cited' = S /\ missing' = S \ evidence
    /\ UNCHANGED <<task, loop, meter, evidence, artifacts, haunted, spent>>

\* One transaction for artifacts and evidence.
Persist(d) ==
    /\ drive[d] = "persisting"
    /\ IF missing \cap evidence = {}
       THEN /\ evidence' = evidence \cup missing
            /\ artifacts' = d
            /\ drive' = [drive EXCEPT ![d] = "done"]
       ELSE /\ drive' = [drive EXCEPT ![d] = "failed"]
            /\ UNCHANGED <<evidence, artifacts>>
    /\ missing' = {}
    /\ UNCHANGED <<task, loop, meter, cited, haunted, spent>>

\* The database fails in the lookup or in the transaction.
StoreFails(d) ==
    /\ drive[d] \in {"running", "persisting"}
    /\ \A t \in TasksOf(d) : task[t] = "done"
    /\ drive' = [drive EXCEPT ![d] = "failed"]
    /\ cited' = {} /\ missing' = {}
    /\ Spend("failures", MaxFailures)
    /\ UNCHANGED <<task, loop, meter, evidence, artifacts, haunted>>

\* gather raises the first exception and does not touch the other tasks.
Abort(d) ==
    /\ drive[d] = "running"
    /\ \E t \in TasksOf(d) : task[t] = "failed"
    /\ drive' = [drive EXCEPT ![d] = "failed"]
    /\ UNCHANGED <<task, loop, meter, evidence, table, haunted, spent>>

\* A cancelled gather cancels its tasks, which leaves the lock free; a cancelled
\* transaction is rolled back.
Cancel(d) ==
    /\ drive[d] \in {"running", "persisting"}
    /\ drive' = [drive EXCEPT ![d] = "cancelled"]
    /\ task' = [t \in Tasks |-> IF t \in TasksOf(d) \cap Active THEN "cancelled" ELSE task[t]]
    /\ locked' = [locked EXCEPT ![d] = Free]
    /\ seen' = [seen EXCEPT ![d] = 0]
    /\ cited' = {} /\ missing' = {}
    /\ Spend("cancels", MaxCancels)
    /\ UNCHANGED <<loop, usage, counted, evidence, artifacts, haunted>>

\* The next drive, with a tracker and tasks of its own.
Retry(d) ==
    /\ drive[d] \in {"failed", "cancelled"}
    /\ d + 1 \in Drives
    /\ drive[d + 1] = "none"
    /\ drive' = [drive EXCEPT ![d + 1] = "running"]
    /\ task' = [t \in Tasks |-> IF t[1] = d + 1 THEN "waiting" ELSE task[t]]
    /\ haunted' = (haunted \/ Active # {})
    /\ UNCHANGED <<loop, meter, evidence, table, spent>>

-----------------------------------------------------------------------------
TaskStep(t) ==
    \/ Enter(t) \/ Answer(t) \/ FindSource(t) \/ InsertSource(t) \/ FindNothing(t)
    \/ ReadUsage(t) \/ WriteUsage(t)

DriveStep(d) == Gather(d) \/ Persist(d) \/ Abort(d)

Next ==
    \/ \E t \in Tasks : TaskStep(t) \/ CallFails(t)
    \/ \E d \in Drives : DriveStep(d) \/ StoreFails(d) \/ Cancel(d) \/ Retry(d)

Spec == Init /\ [][Next]_vars

\* The models answer (or time out), the database does, the event loop goes on.
Fairness ==
    /\ \A t \in Tasks : WF_vars(TaskStep(t))
    /\ \A d \in Drives : WF_vars(DriveStep(d))

FairSpec == Spec /\ Fairness

-----------------------------------------------------------------------------
(* What must hold.                                                         *)

\* Every variable stays in its range: no worker goes round its loop more than
\* react_max_iterations times.
TypeOK ==
    /\ drive \in [Drives -> {"none", "running", "persisting", "done", "failed", "cancelled"}]
    /\ task \in [Tasks -> Steps]
    /\ reply \in [Tasks -> {"none", "find", "output", "done", "failed"} \cup Sources]
    /\ rounds \in [Tasks -> 0 .. MaxIterations]
    /\ locked \in [Drives -> SUBSET Tasks]
    /\ seen \in [Drives -> Nat]
    /\ usage \in Nat /\ counted \in Nat
    /\ evidence \subseteq Sources /\ cited \subseteq Sources /\ missing \subseteq Sources
    /\ artifacts \in 0 .. MaxDrives
    /\ haunted \in BOOLEAN
    /\ spent \in [failures : 0 .. MaxFailures, cancels : 0 .. MaxCancels]

\* Every call whose update succeeded is in the run's usage, however the workers
\* interleave, unless a retry began while workers of an earlier drive still
\* ran: two trackers then have two locks.
UsageExact == haunted \/ usage = counted

\* Every source the stored output cites is in the evidence table: those that
\* tools registered, by workers at the same time or by those of an earlier drive,
\* and those the models made up.
EvidenceKept == artifacts # 0 => cited \subseteq evidence

\* The stored output is that of one drive all of whose workers succeeded; what a
\* failed drive leaves running never gets there.
WholeStage ==
    artifacts # 0 => /\ drive[artifacts] = "done"
                     /\ \A t \in TasksOf(artifacts) : task[t] = "done"

\* Workers that register one source at the same time do not fail the stage:
\* without a failing call only the workers of an earlier drive can do that.
Contained ==
    \A d \in Drives : drive[d] = "failed" => haunted \/ spent.failures > 0

\* The stage of every drive ends, and so does every worker of it, those a failed
\* drive leaves running too: no one waits for the semaphore or the lock forever.
StageEnds ==
    \A d \in Drives :
        drive[d] = "running" ~> /\ drive[d] \in {"done", "failed", "cancelled"}
                                /\ \A t \in TasksOf(d) : task[t] \in Over

\* What the proofs need besides.  A task with the answer of a model knows where
\* that leads, the loop has not been exhausted where it goes on, and no call fails
\* for nothing.
Answered(t) == task[t] \in {"counting", "counted"}

Replies ==
    \A t \in Tasks :
        /\ Answered(t) => reply[t] \in {"find", "output", "done", "failed"}
        /\ task[t] = "insert" => reply[t] \in Sources
        /\ task[t] \in {"none", "waiting"} => rounds[t] = 0
        /\ task[t] \in {"call", "find"} => rounds[t] < MaxIterations
        /\ Answered(t) /\ reply[t] = "find" => rounds[t] < MaxIterations
        /\ task[t] = "failed" => spent.failures > 0
        /\ Answered(t) /\ reply[t] = "failed" => spent.failures > 0

\* Drives follow each other, the next when the one before has failed.
Sequential ==
    /\ \A d, e \in Drives : d < e /\ drive[e] # "none" => drive[d] \in {"failed", "cancelled"}
    /\ \A t \in Tasks : drive[t[1]] = "none" => task[t] = "none"
    /\ \A t \in Tasks : drive[t[1]] \in {"persisting", "done"} => task[t] = "done"

\* Unless the run is haunted, only tasks of the latest drive run.
Latest ==
    haunted \/ \A t \in Active, e \in Drives : t[1] < e => drive[e] = "none"

\* Whoever adds to the usage holds the lock and has read what is there.
Metered ==
    haunted \/ \A t \in Tasks :
        task[t] = "counted" => locked[t[1]] = {t} /\ seen[t[1]] = usage

\* What a commit will store is what it found missing.
Storing ==
    \A d \in Drives :
        drive[d] = "persisting" => /\ cited \subseteq evidence \cup missing
                                   /\ haunted \/ missing \cap evidence = {}

\* What holds whatever fails, races or is retried: the usage, the evidence and
\* the output are what the workers did, and a stage fails only by a failing
\* call, a failing write or the workers of an earlier drive.  It is inductive.
FanoutInv ==
    /\ TypeOK /\ UsageExact /\ EvidenceKept /\ WholeStage /\ Contained
    /\ Replies /\ Sequential /\ Latest /\ Metered /\ Storing

=============================================================================
