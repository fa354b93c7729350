------------------------------ MODULE Pipeline ------------------------------
(***************************************************************************)
(* The graph of agents/_engine/graph.py with its stage and reviewer nodes, *)
(* and what workers/run_worker.py rebuilds of it for a retry.  A drive     *)
(* executes one node after the other on a RunState in memory; gates and    *)
(* artifacts are rows that outlive it.                                     *)
(*                                                                         *)
(* A node is one step: it commits once, so an interruption leaves either   *)
(* nothing of it or, like one that hits the next node, all of its rows.    *)
(* RunLifecycle has the interleaving of a drive with everything else.      *)
(***************************************************************************)
EXTENDS Naturals

CONSTANTS
    N,           \* number of stages
    Workers,     \* the workers of a stage
    MaxRetries,  \* max_retries of each stage
    MaxDrives    \* bound: drives of the run, the first and its retries

Stages == 1 .. N

ASSUME PipelineAssumption ==
    /\ N \in Nat \ {0}
    /\ MaxRetries \in [Stages -> Nat]
    /\ MaxDrives \in Nat \ {0}

VARIABLES
    at,          \* kind of the next node; "idle" between two drives
    cur,         \* the stage of the next node, if it has one
    attempts,    \* RunState.stage_attempts
    targets,     \* RunState.target_agents, {} for None
    gates,       \* the latest row of each stage in the gates table
    outputs,     \* the workers of each stage with rows in the artifacts table
    report,      \* REPORT_PATH is in the artifacts table
    drives,      \* drives so far
    passes,      \* history: how often the drive ran each stage
    ran,         \* history: the workers the latest stage node ran
    unreviewed,  \* history: stages whose latest pass no gate has judged
    stale,       \* history: a stage ran after the report was written
    rewound,     \* history: the drive resumed before something that was there
    torn         \* history: a rewound drive was interrupted

rows    == <<gates, outputs, report>>
history == <<passes, ran, unreviewed, stale, rewound, torn>>
vars    == <<at, cur, attempts, targets, rows, drives, history>>

\* A worker of a stage, as a reviewer names it.
Agents == Stages \X Workers

Gate   == [verdict : {"none", "advance", "reiterate"}, attempt : Nat, targets : SUBSET Agents]
NoGate == [verdict |-> "none", attempt |-> 0, targets |-> {}]

Init ==
    /\ at = "stage"
    /\ cur = 1
    /\ attempts = [s \in Stages |-> 1]
    /\ targets = {}
    /\ gates = [s \in Stages |-> NoGate]
    /\ outputs = [s \in Stages |-> {}]
    /\ report = FALSE
    /\ drives = 1
    /\ passes = [s \in Stages |-> 0]
    /\ ran = {}
    /\ unreviewed = {}
    /\ stale = FALSE
    /\ rewound = FALSE
    /\ torn = FALSE

-----------------------------------------------------------------------------
\* No special case for a first pass.
BugSelected(s, agents) == {w \in Workers : <<s, w>> \in agents}

\* _selected_workers.
Selected(s, agents) ==
    IF agents = {} THEN Workers ELSE {w \in Workers : <<s, w>> \in agents}

\* The counter stops where the cap is exceeded.
CountPass(s) == IF passes[s] > MaxRetries[s] + 1 THEN passes[s] ELSE passes[s] + 1

\* The fanout, the upsert of what it produced, and the cleared targets.
Stage ==
    /\ at = "stage"
    /\ ran' = Selected(cur, targets)
    /\ outputs' = [outputs EXCEPT ![cur] = @ \cup ran']
    /\ targets' = {}
    /\ at' = "review"
    /\ passes' = [passes EXCEPT ![cur] = CountPass(cur)]
    /\ unreviewed' = unreviewed \cup {cur}
    /\ stale' = report
    /\ UNCHANGED <<cur, attempts, gates, report, drives, rewound, torn>>

\* One more than the cap.
BugRedo(verdict, a) == verdict = "reiterate" /\ a <= MaxRetries[cur] + 2

\* make_route_after_reviewer: the attempt counter a is already increased.
Redo(verdict, a) == verdict = "reiterate" /\ a <= MaxRetries[cur] + 1

Forward ==
    IF cur = N THEN at' = "synthesis" /\ UNCHANGED cur
               ELSE at' = "stage" /\ cur' = cur + 1

\* A reiterate does not count.
BugNextAttempt(g) == IF g.verdict = "none" THEN 1 ELSE g.attempt

\* The attempt that follows a gate.
NextAttempt(g) ==
    CASE g.verdict = "none"      -> 1
      [] g.verdict = "advance"   -> g.attempt
      [] g.verdict = "reiterate" -> g.attempt + 1

\* The gate row, the new RunState, and the edge.  target_agents is whatever the
\* model returned with the verdict, on an advance too.
Review ==
    /\ at = "review"
    /\ \E verdict \in {"advance", "reiterate"}, agents \in SUBSET Agents :
          LET gate == [verdict |-> verdict, attempt |-> attempts[cur], targets |-> agents]
          IN  /\ gates' = [gates EXCEPT ![cur] = gate]
              /\ attempts' = [attempts EXCEPT ![cur] = NextAttempt(gate)]
              /\ targets' = agents
              /\ IF Redo(verdict, NextAttempt(gate))
                 THEN at' = "stage" /\ UNCHANGED cur
                 ELSE Forward
    /\ unreviewed' = unreviewed \ {cur}
    /\ UNCHANGED <<outputs, report, drives, passes, ran, stale, rewound, torn>>

Synthesis ==
    /\ at = "synthesis"
    /\ report' = TRUE
    /\ stale' = FALSE
    /\ at' = "audit"
    /\ UNCHANGED <<cur, attempts, targets, gates, outputs, drives, passes, ran,
                   unreviewed, rewound, torn>>

Audit ==
    /\ at = "audit"
    /\ at' = "done"
    /\ UNCHANGED <<cur, attempts, targets, rows, drives, history>>

\* A node raises, the run is cancelled or out of time, or the process dies: the
\* RunState is gone.
Stop ==
    /\ at \notin {"idle", "done"}
    /\ at' = "idle"
    /\ attempts' = [s \in Stages |-> 1]
    /\ targets' = {}
    /\ torn' = (torn \/ rewound)
    /\ UNCHANGED <<cur, rows, drives, passes, ran, unreviewed,
                   stale, rewound>>

-----------------------------------------------------------------------------
(* retry_failed_run: _reconstruct_retry_state reads the rows.              *)

Begin ==
    /\ at = "idle"
    /\ drives < MaxDrives
    /\ drives' = drives + 1
    /\ attempts' = [s \in Stages |-> NextAttempt(gates[s])]
    /\ passes' = [s \in Stages |-> 0]
    /\ UNCHANGED <<rows, ran, unreviewed, stale, torn>>

\* A stage with a gate is done.
BugOpen == {s \in Stages : gates[s].verdict = "none"}

Open == {s \in Stages : gates[s].verdict # "advance"}

\* Something of what follows stage s is there already.
Later(s) == report \/ \E t \in Stages : t > s /\ gates[t].verdict # "none"

\* The resumed stage starts from scratch.
BugResumeStage ==
    /\ Begin
    /\ at' = "stage"
    /\ \E s \in Open :
          /\ \A t \in Open : s <= t
          /\ cur' = s
          /\ targets' = {}
          /\ rewound' = Later(s)

\* The first stage without an advance, with the targets of its latest gate.
ResumeStage ==
    /\ Begin
    /\ at' = "stage"
    /\ \E s \in Open :
          /\ \A t \in Open : s <= t
          /\ cur' = s
          /\ targets' = IF gates[s].verdict = "reiterate" THEN gates[s].targets ELSE {}
          /\ rewound' = Later(s)

ResumeReport ==
    /\ Begin
    /\ Open = {}
    /\ at' = IF report THEN "audit" ELSE "synthesis"
    /\ cur' = N
    /\ targets' = {}
    /\ rewound' = FALSE

-----------------------------------------------------------------------------
Node == Stage \/ Review \/ Synthesis \/ Audit

Next == Node \/ Stop \/ ResumeStage \/ ResumeReport

Spec == Init /\ [][Next]_vars

\* LangGraph executes the next node.
FairSpec == Spec /\ WF_vars(Node)

-----------------------------------------------------------------------------
(* What must hold.                                                         *)

TypeOK ==
    /\ at \in {"stage", "review", "synthesis", "audit", "done", "idle"}
    /\ cur \in Stages
    /\ attempts \in [Stages -> Nat \ {0}]
    /\ targets \in SUBSET Agents
    /\ gates \in [Stages -> Gate]
    /\ \A s \in Stages : gates[s].verdict # "none" => gates[s].attempt > 0
    /\ outputs \in [Stages -> SUBSET Workers]
    /\ report \in BOOLEAN
    /\ drives \in 1 .. MaxDrives
    /\ passes \in [Stages -> Nat]
    /\ ran \in SUBSET Workers
    /\ unreviewed \in SUBSET Stages
    /\ stale \in BOOLEAN
    /\ rewound \in BOOLEAN
    /\ torn \in BOOLEAN

Staging   == at \in {"stage", "review"}
Reporting == at \in {"synthesis", "audit", "done"}

\* The counter in memory continues the one in the table, through failures and
\* retries: no gate is counted twice and none is forgotten.
AttemptsRecorded ==
    at # "idle" => \A s \in Stages : attempts[s] = NextAttempt(gates[s])

\* A drive runs a stage at most max_retries times more than once, and a retry
\* of the run grants a stage that is at its limit one pass, not a new budget.
RetryCap ==
    \A s \in Stages :
        /\ passes[s] <= MaxRetries[s] + 1
        /\ attempts[s] <= MaxRetries[s] + 1 + drives

\* Judged after its latest pass, with an advance unless it was forced on.
Settled(s) ==
    /\ s \notin unreviewed
    /\ gates[s].verdict = "advance" \/ gates[s].attempt > MaxRetries[s]

\* What a report rests on: every stage is settled, and no stage ran after the
\* report was written.
Complete ==
    Reporting =>
        /\ \A s \in Stages : Settled(s)
        /\ at # "synthesis" => ~stale

\* It holds until a drive is interrupted that a retry had sent back to a stage
\* although later ones, or the report, were there already.
CompleteUnlessTorn == torn \/ Complete

Passed(s) == Reporting \/ s < cur \/ (s = cur /\ at = "review")

\* A worker that never ran was left out by the last verdict on the stage before,
\* which named other agents.
FullScopeUnlessNamed ==
    torn \/ at = "idle" \/
    \A s \in Stages : Passed(s) =>
        \/ outputs[s] = Workers
        \/ s > 1 /\ Selected(s, gates[s - 1].targets) \subseteq outputs[s]
                 /\ gates[s - 1].targets # {}

\* A pass that a reiterate verdict asked for runs the agents of that verdict,
\* also when a failure and a retry lie between them.
RedoScoped ==
    [][ at = "stage" /\ at' = "review" /\ gates[cur].verdict = "reiterate"
        /\ (passes[cur] > 0 \/ ~rewound)
        => ran' = Selected(cur, gates[cur].targets) ]_vars

\* Every drive ends, whatever the reviewers say.
Ends == at # "idle" ~> at \in {"done", "idle"}

\* What makes RetryCap inductive: what the drive has not passed yet has a pass
\* in reserve, and a stage that is sent back is within its cap.
Counted ==
    \A s \in Stages :
        /\ NextAttempt(gates[s]) <= MaxRetries[s] + 1 + drives
        /\ Staging /\ s >= cur => attempts[s] <= MaxRetries[s] + drives
        /\ Staging /\ s > cur => passes[s] = 0
        /\ at = "stage" /\ s = cur /\ passes[s] > 0 => attempts[s] <= MaxRetries[s] + 1
        /\ at = "stage" /\ s = cur => passes[s] < attempts[s]
        /\ at = "review" /\ s = cur => passes[s] <= attempts[s]

\* What makes CompleteUnlessTorn inductive: the stages that lie behind a drive
\* are settled, and unless the drive was sent back nothing lies before it.
Frontier ==
    /\ Staging => \A s \in Stages : s < cur => Settled(s)
    /\ at = "idle" => ~rewound
    /\ ~rewound =>
          /\ ~stale
          /\ \A s \in Stages : gates[s].verdict = "advance" => s \notin unreviewed
          /\ Staging => gates[cur].verdict # "advance" /\ ~Later(cur)

\* What holds whatever the reviewers and the failures: attempts are counted
\* once and capped, and a report that was not torn rests on settled stages.
\* It is inductive.
PipelineInv == TypeOK /\ AttemptsRecorded /\ RetryCap /\ Counted
               /\ CompleteUnlessTorn /\ (torn \/ Frontier)

=============================================================================
