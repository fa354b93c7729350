--------------------------- MODULE PipelineProofs ---------------------------
(***************************************************************************)
(* Type correctness, the attempt bounds, the completeness of a report and  *)
(* the scope of each pass, for any number of stages, workers and retries.  *)
(***************************************************************************)
EXTENDS Pipeline, TLAPS

\* Facts about the numbers the proofs below need.
LEMMA Numbers ==
    /\ N \in Nat \ {0}
    /\ 1 \in Stages
    /\ N \in Stages
    /\ \A s \in Stages : s \in Nat /\ MaxRetries[s] \in Nat
    /\ \A s \in Stages : s # N => s + 1 \in Stages
BY PipelineAssumption DEF Stages

\* The attempt that follows a gate is a positive number.
LEMMA NextAttemptType ==
    ASSUME NEW g \in Gate, g.verdict # "none" => g.attempt \in Nat \ {0}
    PROVE  NextAttempt(g) \in Nat \ {0}
BY DEF NextAttempt, Gate

\* The counter of passes is a number.
LEMMA CountPassType ==
    ASSUME NEW s \in Stages, passes \in [Stages -> Nat]
    PROVE  CountPass(s) \in Nat
BY Numbers DEF CountPass

\* Whoever is selected is a worker.
LEMMA SelectedType ==
    ASSUME NEW s, NEW agents PROVE Selected(s, agents) \in SUBSET Workers
BY DEF Selected

\* Where the pipeline goes when it moves on.
LEMMA ForwardType ==
    ASSUME cur \in Stages, Forward
    PROVE  /\ at' \in {"stage", "synthesis"}
           /\ cur' \in Stages
           /\ at' = "stage" => cur # N /\ cur' = cur + 1
           /\ at' = "synthesis" => cur' = cur /\ cur = N
BY Numbers DEF Forward

-----------------------------------------------------------------------------
(* Types.                                                                  *)

\* Every variable starts in its range.
LEMMA InitType == Init => TypeOK
<1> SUFFICES ASSUME Init PROVE TypeOK
  OBVIOUS
<1>1. NoGate \in Gate /\ NoGate.verdict = "none"
  BY DEF NoGate, Gate
<1>2. gates \in [Stages -> Gate] /\ \A s \in Stages : gates[s].verdict = "none"
  BY <1>1 DEF Init
<1>3. drives \in 1 .. MaxDrives
  BY PipelineAssumption DEF Init
<1>4. /\ at \in {"stage", "review", "synthesis", "audit", "done", "idle"}
      /\ cur \in Stages
      /\ attempts \in [Stages -> Nat \ {0}]
      /\ passes \in [Stages -> Nat]
  BY Numbers DEF Init
<1>5. /\ targets \in SUBSET Agents
      /\ outputs \in [Stages -> SUBSET Workers]
      /\ ran \in SUBSET Workers
      /\ unreviewed \in SUBSET Stages
  BY DEF Init
<1>6. report \in BOOLEAN /\ stale \in BOOLEAN /\ rewound \in BOOLEAN /\ torn \in BOOLEAN
  BY DEF Init
<1>7. QED
  BY <1>2, <1>3, <1>4, <1>5, <1>6 DEF TypeOK

\* A gate is a row with a positive attempt.
LEMMA ReviewType == ASSUME TypeOK, Review PROVE TypeOK'
<1>1. PICK verdict \in {"advance", "reiterate"}, agents \in SUBSET Agents :
        LET gate == [verdict |-> verdict, attempt |-> attempts[cur], targets |-> agents]
        IN  /\ gates' = [gates EXCEPT ![cur] = gate]
            /\ attempts' = [attempts EXCEPT ![cur] = NextAttempt(gate)]
            /\ targets' = agents
            /\ IF Redo(verdict, NextAttempt(gate))
               THEN at' = "stage" /\ UNCHANGED cur
               ELSE Forward
  BY DEF Review
<1> DEFINE gate == [verdict |-> verdict, attempt |-> attempts[cur], targets |-> agents]
<1>2. gate \in Gate /\ gate.verdict # "none" /\ gate.attempt \in Nat \ {0}
  BY DEF TypeOK, Gate
<1>3. NextAttempt(gate) \in Nat \ {0}
  BY <1>2, NextAttemptType
<1>4. /\ gates' = [gates EXCEPT ![cur] = gate]
      /\ attempts' = [attempts EXCEPT ![cur] = NextAttempt(gate)]
      /\ targets' = agents
  BY <1>1
<1>5. at' \in {"stage", "synthesis"} /\ cur' \in Stages
  BY <1>1, ForwardType DEF TypeOK
<1> HIDE DEF gate
<1>6. /\ gates' \in [Stages -> Gate]
      /\ \A s \in Stages : gates'[s].verdict # "none" => gates'[s].attempt > 0
      /\ attempts' \in [Stages -> Nat \ {0}]
      /\ targets' \in SUBSET Agents
  BY <1>2, <1>3, <1>4 DEF TypeOK
<1>7. QED
  BY <1>5, <1>6 DEF TypeOK, Review

\* A retry reads its attempts off the gates.
LEMMA BeginType ==
    ASSUME TypeOK, Begin
    PROVE  /\ attempts' \in [Stages -> Nat \ {0}]
           /\ passes' \in [Stages -> Nat]
           /\ drives' \in 1 .. MaxDrives
           /\ drives' = drives + 1
<1>1. \A s \in Stages : NextAttempt(gates[s]) \in Nat \ {0}
  BY NextAttemptType DEF TypeOK, Gate
<1>2. QED
  BY <1>1, PipelineAssumption DEF Begin, TypeOK

\* Every step keeps every variable in its range.
LEMMA TypeStep == ASSUME TypeOK, [Next]_vars PROVE TypeOK'
<1>1. CASE Stage
  <2>1. ran' \in SUBSET Workers
    BY <1>1, SelectedType DEF Stage
  <2>2. outputs' \in [Stages -> SUBSET Workers]
    BY <1>1, <2>1 DEF Stage, TypeOK
  <2>3. passes' \in [Stages -> Nat]
    BY <1>1, CountPassType DEF Stage, TypeOK
  <2>4. unreviewed' \in SUBSET Stages
    BY <1>1 DEF Stage, TypeOK
  <2>5. QED
    BY <1>1, <2>1, <2>2, <2>3, <2>4 DEF Stage, TypeOK
<1>2. CASE Review
  BY <1>2, ReviewType
<1>3. CASE Synthesis
  BY <1>3 DEF Synthesis, TypeOK
<1>4. CASE Audit
  BY <1>4 DEF Audit, TypeOK, rows, history
<1>5. CASE Stop
  BY <1>5 DEF Stop, TypeOK, rows
<1>6. CASE ResumeStage
  <2>1. PICK s \in Open : /\ cur' = s
                          /\ targets' = IF gates[s].verdict = "reiterate"
                                        THEN gates[s].targets ELSE {}
                          /\ rewound' = Later(s)
    BY <1>6 DEF ResumeStage
  <2>2. cur' \in Stages /\ targets' \in SUBSET Agents /\ rewound' \in BOOLEAN
    BY <2>1 DEF Open, TypeOK, Gate, Later
  <2>3. QED
    BY <1>6, <2>2, BeginType DEF ResumeStage, Begin, TypeOK, rows
<1>7. CASE ResumeReport
  BY <1>7, BeginType, Numbers DEF ResumeReport, Begin, TypeOK, rows
<1>8. CASE UNCHANGED vars
  BY <1>8 DEF vars, rows, history, TypeOK
<1>9. QED
  BY <1>1, <1>2, <1>3, <1>4, <1>5, <1>6, <1>7, <1>8 DEF Next, Node

-----------------------------------------------------------------------------
(* Attempts.                                                               *)

Counters == AttemptsRecorded /\ RetryCap /\ Counted

LEMMA InitCounters == Init => Counters
<1> SUFFICES ASSUME Init PROVE Counters
  OBVIOUS
<1>1. \A s \in Stages : NextAttempt(gates[s]) = 1
  BY DEF Init, NoGate, NextAttempt
<1>2. QED
  BY <1>1, Numbers DEF Init, Counters, AttemptsRecorded, RetryCap, Counted, Staging

\* A pass uses up what a stage had in reserve.
LEMMA StageCounters == ASSUME TypeOK, Counters, Stage PROVE Counters'
<1>1. passes[cur] <= MaxRetries[cur]
  BY Numbers DEF TypeOK, Counters, RetryCap, Counted, Staging, Stage
<1>2. passes' = [passes EXCEPT ![cur] = passes[cur] + 1]
  <2>1. cur \in Stages /\ passes[cur] \in Nat /\ MaxRetries[cur] \in Nat
    BY Numbers DEF TypeOK
  <2>2. CountPass(cur) = passes[cur] + 1
    BY <1>1, <2>1 DEF CountPass
  <2>3. QED
    BY <2>2 DEF Stage
<1>3. /\ at = "stage" /\ at' = "review"
      /\ cur' = cur /\ attempts' = attempts /\ gates' = gates /\ drives' = drives
  BY DEF Stage
<1>4. AttemptsRecorded'
  BY <1>3 DEF Counters, AttemptsRecorded, NextAttempt
<1>5. RetryCap'
  BY <1>1, <1>2, <1>3, Numbers DEF Counters, RetryCap, TypeOK
<1>6. Counted'
  <2>1. \A s \in Stages : NextAttempt(gates'[s]) <= MaxRetries[s] + 1 + drives'
    BY <1>3 DEF Counters, Counted
  <2>2. \A s \in Stages : s >= cur => attempts[s] <= MaxRetries[s] + drives
    BY <1>3 DEF Counters, Counted, Staging
  <2>3. \A s \in Stages : s > cur => passes'[s] = 0
    BY <1>2, <1>3, Numbers DEF Counters, Counted, Staging, TypeOK
  <2>4. passes'[cur] <= attempts[cur]
    BY <1>2, <1>3 DEF Counters, Counted, TypeOK
  <2>5. QED
    BY <1>3, <2>1, <2>2, <2>3, <2>4 DEF Counted, Staging
<1>7. QED
  BY <1>4, <1>5, <1>6 DEF Counters

\* The verdict decides the next attempt of one stage; the others keep theirs.
LEMMA ReviewCounters == ASSUME TypeOK, Counters, Review PROVE Counters'
<1>1. PICK verdict \in {"advance", "reiterate"}, agents \in SUBSET Agents :
        LET gate == [verdict |-> verdict, attempt |-> attempts[cur], targets |-> agents]
        IN  /\ gates' = [gates EXCEPT ![cur] = gate]
            /\ attempts' = [attempts EXCEPT ![cur] = NextAttempt(gate)]
            /\ IF Redo(verdict, NextAttempt(gate))
               THEN at' = "stage" /\ UNCHANGED cur
               ELSE Forward
  BY DEF Review
<1> DEFINE gate == [verdict |-> verdict, attempt |-> attempts[cur], targets |-> agents]
<1>2. NextAttempt(gate) = IF verdict = "reiterate" THEN attempts[cur] + 1 ELSE attempts[cur]
  BY DEF NextAttempt
<1>3. gates'[cur] = gate /\ \A s \in Stages : s # cur => gates'[s] = gates[s]
  BY <1>1 DEF TypeOK
<1>4. /\ attempts'[cur] = NextAttempt(gate)
      /\ \A s \in Stages : s # cur => attempts'[s] = attempts[s]
  BY <1>1 DEF TypeOK
<1>5. \/ at' = "stage" /\ cur' = cur /\ Redo(verdict, NextAttempt(gate))
      \/ at' = "stage" /\ cur' = cur + 1 /\ cur # N
      \/ at' = "synthesis"
  BY <1>1, ForwardType DEF TypeOK
<1> HIDE DEF gate
<1>6. at = "review" /\ passes' = passes /\ drives' = drives
  BY DEF Review
<1>7. \A s \in Stages : attempts'[s] = NextAttempt(gates'[s])
  BY <1>3, <1>4, <1>6 DEF Counters, AttemptsRecorded, NextAttempt
<1>8. AttemptsRecorded'
  BY <1>7 DEF AttemptsRecorded, NextAttempt
<1>9. \A s \in Stages : attempts'[s] <= MaxRetries[s] + 1 + drives
  BY <1>2, <1>4, <1>6, Numbers DEF Counters, RetryCap, Counted, Staging, TypeOK
<1>10. RetryCap'
  BY <1>6, <1>9 DEF Counters, RetryCap
<1>11. \A s \in Stages : NextAttempt(gates'[s]) <= MaxRetries[s] + 1 + drives
  BY <1>7, <1>9
<1>12. Counted'
  <2>1. CASE at' = "stage" /\ cur' = cur /\ Redo(verdict, NextAttempt(gate))
    <3>1. attempts'[cur] = attempts[cur] + 1 /\ attempts'[cur] <= MaxRetries[cur] + 1
      BY <2>1, <1>2, <1>4 DEF Redo
    <3>2. \A s \in Stages : s >= cur => attempts'[s] <= MaxRetries[s] + drives
      BY <3>1, <1>4, <1>6, Numbers, PipelineAssumption DEF Counters, Counted, Staging, TypeOK
    <3>3. \A s \in Stages : s > cur => passes[s] = 0
      BY <1>6 DEF Counters, Counted, Staging
    <3>4. passes[cur] < attempts'[cur]
      BY <3>1, <1>6, Numbers DEF Counters, Counted, TypeOK
    <3>5. QED
      BY <2>1, <3>1, <3>2, <3>3, <3>4, <1>6, <1>11 DEF Counted, Staging
  <2>2. CASE at' = "stage" /\ cur' = cur + 1 /\ cur # N
    <3>1. cur \in Nat /\ cur + 1 \in Stages
      BY <2>2, Numbers DEF TypeOK
    <3>2. \A s \in Stages : s >= cur + 1 =>
            attempts'[s] <= MaxRetries[s] + drives /\ attempts'[s] > 0 /\ passes[s] = 0
      BY <3>1, <1>4, <1>6, Numbers DEF Counters, Counted, Staging, TypeOK
    <3>3. \A s \in Stages : s > cur + 1 => s >= cur + 1
      BY <3>1, Numbers
    <3>4. \A s \in Stages : s = cur + 1 => s >= cur + 1
      BY <3>1, Numbers
    <3>5. QED
      BY <2>2, <3>1, <3>2, <3>3, <3>4, <1>6, <1>11 DEF Counted, Staging
  <2>3. CASE at' = "synthesis"
    BY <2>3, <1>6, <1>11 DEF Counted, Staging, NextAttempt
  <2>4. QED
    BY <1>5, <2>1, <2>2, <2>3
<1>13. QED
  BY <1>8, <1>10, <1>12 DEF Counters

\* A new drive starts from the gates, with one more drive in the bound.
LEMMA BeginCounters ==
    ASSUME TypeOK, Counters, Begin, cur' \in Stages, at' \in {"stage", "synthesis", "audit"}
    PROVE  Counters'
<1>1. /\ attempts' = [s \in Stages |-> NextAttempt(gates[s])]
      /\ passes' = [s \in Stages |-> 0]
      /\ gates' = gates
      /\ drives' = drives + 1
      /\ at = "idle"
  BY DEF Begin, rows
<1>2. \A s \in Stages : NextAttempt(gates[s]) \in Nat \ {0}
  BY NextAttemptType DEF TypeOK, Gate
<1>3. drives \in Nat /\ drives >= 1
  BY PipelineAssumption DEF TypeOK
<1>4. AttemptsRecorded'
  BY <1>1 DEF AttemptsRecorded, NextAttempt
<1>5. \A s \in Stages : attempts'[s] <= MaxRetries[s] + 1 + drives
  BY <1>1 DEF Counters, Counted
<1>6. RetryCap'
  BY <1>1, <1>2, <1>3, <1>5, Numbers DEF RetryCap
<1>7. Counted'
  <2>1. \A s \in Stages : NextAttempt(gates'[s]) <= MaxRetries[s] + 1 + drives'
    BY <1>1, <1>2, <1>3, Numbers DEF Counters, Counted
  <2>2. \A s \in Stages : attempts'[s] <= MaxRetries[s] + drives'
    BY <1>1, <1>2, <1>3, <1>5, Numbers
  <2>3. \A s \in Stages : passes'[s] = 0 /\ attempts'[s] \in Nat \ {0}
    BY <1>1, <1>2
  <2>4. QED
    BY <2>1, <2>2, <2>3 DEF Counted, Staging
<1>8. QED
  BY <1>4, <1>6, <1>7 DEF Counters

LEMMA CountersStep == ASSUME TypeOK, Counters, [Next]_vars PROVE Counters'
<1>1. CASE Stage
  BY <1>1, StageCounters
<1>2. CASE Review
  BY <1>2, ReviewCounters
<1>3. CASE Synthesis \/ Audit
  BY <1>3 DEF Synthesis, Audit, rows, history, Counters, AttemptsRecorded, RetryCap, Counted,
              Staging, NextAttempt
<1>4. CASE Stop
  <2>1. /\ at' = "idle" /\ attempts' = [s \in Stages |-> 1]
        /\ gates' = gates /\ passes' = passes /\ drives' = drives
    BY <1>4 DEF Stop, rows
  <2>2. drives \in Nat
    BY PipelineAssumption DEF TypeOK
  <2>3. RetryCap'
    BY <2>1, <2>2, PipelineAssumption, Numbers DEF Counters, RetryCap
  <2>4. QED
    BY <2>1, <2>3 DEF Counters, AttemptsRecorded, Counted, Staging
<1>5. CASE ResumeStage
  BY <1>5, BeginCounters DEF ResumeStage, Open
<1>6. CASE ResumeReport
  BY <1>6, BeginCounters, Numbers DEF ResumeReport
<1>7. CASE UNCHANGED vars
  BY <1>7 DEF vars, rows, history, Counters, AttemptsRecorded, RetryCap, Counted, Staging,
              NextAttempt
<1>8. QED
  BY <1>1, <1>2, <1>3, <1>4, <1>5, <1>6, <1>7 DEF Next, Node

-----------------------------------------------------------------------------
(* Completeness.                                                           *)

Completeness == torn \/ (Complete /\ Frontier)

LEMMA InitCompleteness == Init => Completeness
<1> SUFFICES ASSUME Init PROVE Completeness
  OBVIOUS
<1>1. \A s \in Stages : gates[s].verdict = "none" /\ ~(s < 1)
  BY Numbers DEF Init, NoGate, Stages
<1>2. ~Later(1)
  BY <1>1 DEF Init, Later
<1>3. QED
  BY <1>1, <1>2, Numbers DEF Init, Completeness, Complete, Frontier, Staging, Reporting

LEMMA StageCompleteness == ASSUME TypeOK, Completeness, Stage, ~torn PROVE Completeness'
<1>1. /\ at = "stage" /\ at' = "review" /\ cur' = cur /\ gates' = gates
      /\ report' = report /\ rewound' = rewound /\ stale' = report
      /\ unreviewed' = unreviewed \cup {cur}
  BY DEF Stage
<1>2. Complete'
  BY <1>1 DEF Complete, Reporting
<1>3. \A s \in Stages : s < cur => Settled(s)'
  <2>1. \A s \in Stages : s < cur => s # cur
    BY Numbers DEF TypeOK
  <2>2. QED
    BY <1>1, <2>1 DEF Completeness, Frontier, Staging, Settled
<1>4. ASSUME ~rewound
      PROVE  /\ ~report
             /\ \A s \in Stages : gates[s].verdict = "advance" => s \notin unreviewed'
             /\ gates[cur].verdict # "advance" /\ ~Later(cur)'
  BY <1>1, <1>4 DEF Completeness, Frontier, Staging, Later
<1>5. Frontier'
  BY <1>1, <1>3, <1>4 DEF Frontier, Staging
<1>6. QED
  BY <1>2, <1>5 DEF Completeness

\* A stage that is moved on from is settled.
LEMMA ReviewCompleteness == ASSUME TypeOK, Counters, Completeness, Review, ~torn PROVE Completeness'
<1>1. PICK verdict \in {"advance", "reiterate"}, agents \in SUBSET Agents :
        LET gate == [verdict |-> verdict, attempt |-> attempts[cur], targets |-> agents]
        IN  /\ gates' = [gates EXCEPT ![cur] = gate]
            /\ IF Redo(verdict, NextAttempt(gate))
               THEN at' = "stage" /\ UNCHANGED cur
               ELSE Forward
  BY DEF Review
<1> DEFINE gate == [verdict |-> verdict, attempt |-> attempts[cur], targets |-> agents]
<1>2. NextAttempt(gate) = IF verdict = "reiterate" THEN attempts[cur] + 1 ELSE attempts[cur]
  BY DEF NextAttempt
<1>3. /\ gates'[cur].verdict = verdict /\ gates'[cur].attempt = attempts[cur]
      /\ \A s \in Stages : s # cur => gates'[s] = gates[s]
  BY <1>1 DEF TypeOK
<1>4. \/ at' = "stage" /\ cur' = cur /\ Redo(verdict, NextAttempt(gate))
      \/ at' = "stage" /\ cur' = cur + 1 /\ cur # N /\ ~Redo(verdict, NextAttempt(gate))
      \/ at' = "synthesis" /\ cur' = cur /\ cur = N /\ ~Redo(verdict, NextAttempt(gate))
  BY <1>1, ForwardType DEF TypeOK
<1> HIDE DEF gate
<1>5. /\ at = "review" /\ report' = report /\ rewound' = rewound /\ stale' = stale
      /\ unreviewed' = unreviewed \ {cur}
  BY DEF Review
<1>6. \A s \in Stages : s < cur => Settled(s)'
  <2>1. \A s \in Stages : s < cur => s # cur
    BY Numbers DEF TypeOK
  <2>2. QED
    BY <1>3, <1>5, <2>1 DEF Completeness, Frontier, Staging, Settled
<1>7. ~Redo(verdict, NextAttempt(gate)) => \A s \in Stages : s = cur => Settled(s)'
  <2>1. SUFFICES ASSUME ~Redo(verdict, NextAttempt(gate)), verdict = "reiterate"
                 PROVE  attempts[cur] > MaxRetries[cur]
    BY <1>3, <1>5 DEF Settled
  <2>2. attempts[cur] \in Nat /\ MaxRetries[cur] \in Nat
    BY Numbers DEF TypeOK
  <2>3. ~(attempts[cur] + 1 <= MaxRetries[cur] + 1)
    BY <1>2, <2>1 DEF Redo
  <2>4. QED
    BY <2>2, <2>3
<1>8. ASSUME ~rewound
      PROVE  /\ ~stale /\ ~report
             /\ \A s \in Stages : gates'[s].verdict = "advance" => s \notin unreviewed'
             /\ \A s \in Stages : s > cur => gates'[s].verdict = "none"
  <2>1. \A s \in Stages : s > cur => s # cur
    BY Numbers DEF TypeOK
  <2>2. QED
    BY <1>3, <1>5, <1>8, <2>1 DEF Completeness, Frontier, Staging, Later
<1>9. CASE at' = "stage" /\ cur' = cur /\ Redo(verdict, NextAttempt(gate))
  <2>1. ~rewound => gates'[cur].verdict # "advance" /\ ~Later(cur)'
    BY <1>3, <1>5, <1>8, <1>9 DEF Redo, Later
  <2>2. Frontier'
    BY <1>5, <1>6, <1>8, <1>9, <2>1 DEF Frontier, Staging, Later
  <2>3. QED
    BY <1>9, <2>2 DEF Completeness, Complete, Reporting
<1>10. CASE at' = "stage" /\ cur' = cur + 1 /\ cur # N /\ ~Redo(verdict, NextAttempt(gate))
  <2>1. cur + 1 \in Stages /\ cur \in Nat
    BY <1>10, Numbers DEF TypeOK
  <2>2. \A s \in Stages : s < cur + 1 => s < cur \/ s = cur
    BY <2>1, Numbers
  <2>3. \A s \in Stages : s < cur + 1 => Settled(s)'
    BY <1>6, <1>7, <1>10, <2>2
  <2>4. \A s \in Stages : s >= cur + 1 => s > cur
    BY <2>1, Numbers
  <2>5. cur + 1 >= cur + 1 /\ \A s \in Stages : s > cur + 1 => s >= cur + 1
    BY <2>1, Numbers
  <2>6. \A s \in Stages : s > cur + 1 => s > cur
    BY <2>4, <2>5
  <2>7. ~rewound => /\ gates'[cur + 1].verdict = "none"
                    /\ ~report
                    /\ \A s \in Stages : s > cur + 1 => gates'[s].verdict = "none"
    BY <1>8, <2>1, <2>4, <2>5, <2>6
  <2>8. ~rewound' => gates'[cur'].verdict # "advance" /\ ~Later(cur)'
    BY <1>5, <1>10, <2>7 DEF Later
  <2>9. \A s \in Stages : s < cur' => Settled(s)'
    BY <1>10, <2>3
  <2>10. Frontier'
    BY <1>5, <1>8, <1>10, <2>8, <2>9 DEF Frontier, Staging
  <2>11. QED
    BY <1>10, <2>10 DEF Completeness, Complete, Reporting
<1>11. CASE at' = "synthesis" /\ cur' = cur /\ cur = N /\ ~Redo(verdict, NextAttempt(gate))
  <2>1. \A s \in Stages : s < cur \/ s = cur
    BY <1>11, Numbers DEF Stages
  <2>2. \A s \in Stages : Settled(s)'
    BY <1>6, <1>7, <1>11, <2>1
  <2>3. Complete'
    BY <1>11, <2>2 DEF Complete, Reporting
  <2>4. Frontier'
    BY <1>5, <1>8, <1>11 DEF Frontier, Staging
  <2>5. QED
    BY <2>3, <2>4 DEF Completeness
<1>12. QED
  BY <1>4, <1>9, <1>10, <1>11

\* A drive that was not sent back leaves its advances settled.
LEMMA ResumeCompleteness ==
    ASSUME TypeOK, Completeness, ResumeStage \/ ResumeReport, ~torn
    PROVE  Completeness'
<1>1. /\ at = "idle" /\ gates' = gates /\ report' = report /\ stale' = stale
      /\ unreviewed' = unreviewed /\ torn' = torn
  BY DEF ResumeStage, ResumeReport, Begin, rows
<1>2. /\ ~stale
      /\ \A s \in Stages : gates[s].verdict = "advance" => s \notin unreviewed
  BY <1>1 DEF Completeness, Frontier
<1>3. \A s \in Stages : s \notin Open => Settled(s)'
  BY <1>1, <1>2 DEF Open, Settled
<1>4. CASE ResumeStage
  <2>1. PICK s \in Open : /\ \A t \in Open : s <= t
                          /\ cur' = s
                          /\ rewound' = Later(s)
    BY <1>4 DEF ResumeStage
  <2>2. \A t \in Stages : t < s => t \notin Open
    <3>1. s \in Nat
      BY Numbers DEF Open
    <3>2. \A t \in Stages : t < s => ~(s <= t)
      BY <3>1, Numbers
    <3>3. QED
      BY <2>1, <3>2
  <2>3. gates'[s].verdict # "advance" /\ (Later(s)' <=> Later(s))
    BY <1>1, <2>1 DEF Open, Later
  <2>4. at' = "stage"
    BY <1>4 DEF ResumeStage
  <2>5. Frontier'
    BY <1>1, <1>2, <1>3, <2>1, <2>2, <2>3, <2>4 DEF Frontier, Staging, Later
  <2>6. QED
    BY <2>4, <2>5 DEF Completeness, Complete, Reporting
<1>5. CASE ResumeReport
  <2>1. at' \in {"synthesis", "audit"} /\ rewound' = FALSE /\ Open = {}
    BY <1>5 DEF ResumeReport
  <2>2. QED
    BY <1>1, <1>2, <1>3, <2>1 DEF Completeness, Complete, Frontier, Reporting, Staging
<1>6. QED
  BY <1>4, <1>5

LEMMA CompletenessStep ==
    ASSUME TypeOK, Counters, Completeness, [Next]_vars PROVE Completeness'
<1>1. CASE torn
  <2>1. torn' = TRUE
    BY <1>1 DEF Next, Node, Stage, Review, Synthesis, Audit, Stop, ResumeStage, ResumeReport,
                Begin, vars, history, TypeOK
  <2>2. QED
    BY <2>1 DEF Completeness
<1> SUFFICES ASSUME ~torn PROVE Completeness'
  BY <1>1
<1>2. CASE Stage
  BY <1>2, StageCompleteness
<1>3. CASE Review
  BY <1>3, ReviewCompleteness
<1>4. CASE Synthesis
  BY <1>4 DEF Synthesis, Completeness, Complete, Frontier, Reporting, Staging, Settled
<1>5. CASE Audit
  BY <1>5 DEF Audit, rows, history, Completeness, Complete, Frontier, Reporting, Staging, Settled
<1>6. CASE Stop
  BY <1>6 DEF Stop, rows, Completeness, Complete, Frontier, Reporting, Staging, TypeOK
<1>7. CASE ResumeStage \/ ResumeReport
  BY <1>7, ResumeCompleteness
<1>8. CASE UNCHANGED vars
  BY <1>8 DEF vars, rows, history, Completeness, Complete, Frontier, Reporting, Staging, Settled,
              Later
<1>9. QED
  BY <1>2, <1>3, <1>4, <1>5, <1>6, <1>7, <1>8 DEF Next, Node

-----------------------------------------------------------------------------
(* Scope.                                                                  *)

\* The workers of a stage ran, but for those the verdict before it left out.
Scope(s) ==
    \/ outputs[s] = Workers
    \/ s > 1 /\ Selected(s, gates[s - 1].targets) \subseteq outputs[s]
             /\ gates[s - 1].targets # {}

\* What makes RedoScoped inductive: unless the drive was sent back nothing lies
\* before it, so the targets it has are those of the gate it follows.
Targeted ==
    /\ Staging /\ ~rewound => ~Later(cur)
    /\ at = "stage" /\ gates[cur].verdict = "reiterate" /\ (passes[cur] > 0 \/ ~rewound) =>
           targets = gates[cur].targets

\* What makes FullScopeUnlessNamed inductive: a stage about to run has its scope,
\* or is about to have it, and so has every stage that was judged.
Scoped ==
    /\ at # "idle" => \A s \in Stages : Passed(s) => Scope(s)
    /\ at = "stage" => \/ Scope(cur) \/ targets = {}
                       \/ cur > 1 /\ targets = gates[cur - 1].targets
    /\ ~rewound => \A s \in Stages : gates[s].verdict # "none" => Scope(s)

\* A review, its gate and where it leads.
LEMMA Reviewed ==
    ASSUME TypeOK, Review
    PROVE  /\ at = "review" /\ cur \in Stages
           /\ UNCHANGED <<outputs, report, passes, rewound, torn>>
           /\ gates'[cur].targets = targets' /\ gates'[cur].verdict \in {"advance", "reiterate"}
           /\ \A s \in Stages : s # cur => gates'[s] = gates[s]
           /\ \/ at' = "stage" /\ cur' = cur
              \/ at' = "stage" /\ cur' = cur + 1 /\ cur # N
              \/ at' = "synthesis" /\ cur' = cur /\ cur = N
<1>1. PICK verdict \in {"advance", "reiterate"}, agents \in SUBSET Agents :
        LET gate == [verdict |-> verdict, attempt |-> attempts[cur], targets |-> agents]
        IN  /\ gates' = [gates EXCEPT ![cur] = gate]
            /\ targets' = agents
            /\ IF Redo(verdict, NextAttempt(gate))
               THEN at' = "stage" /\ UNCHANGED cur
               ELSE Forward
  BY DEF Review
<1>2. /\ gates'[cur].targets = targets' /\ gates'[cur].verdict \in {"advance", "reiterate"}
      /\ \A s \in Stages : s # cur => gates'[s] = gates[s]
  BY <1>1 DEF TypeOK
<1>3. \/ at' = "stage" /\ cur' = cur
      \/ at' = "stage" /\ cur' = cur + 1 /\ cur # N
      \/ at' = "synthesis" /\ cur' = cur /\ cur = N
  BY <1>1, ForwardType DEF TypeOK
<1>4. QED
  BY <1>2, <1>3 DEF Review, TypeOK

LEMMA InitScopes == Init => Targeted /\ Scoped
<1> SUFFICES ASSUME Init PROVE Targeted /\ Scoped
  OBVIOUS
<1>1. /\ \A s \in Stages : gates[s].verdict = "none" /\ ~(s < 1)
      /\ at = "stage" /\ cur = 1 /\ targets = {} /\ ~report
  BY Numbers DEF Init, NoGate, Stages
<1>2. QED
  BY <1>1, Numbers DEF Targeted, Scoped, Later, Staging, Passed, Reporting

LEMMA TargetedStep ==
    ASSUME TypeOK, Counters, Targeted, [Next]_vars
    PROVE  Targeted'
<1>1. CASE Stage
  BY <1>1 DEF Stage, Targeted, Staging, Later
<1>2. CASE Review
  <2>1. /\ at = "review" /\ cur \in Stages
        /\ UNCHANGED <<report, passes, rewound>>
        /\ gates'[cur].targets = targets'
        /\ \A s \in Stages : s # cur => gates'[s] = gates[s]
        /\ \/ at' = "stage" /\ cur' = cur
           \/ at' = "stage" /\ cur' = cur + 1 /\ cur # N
           \/ at' = "synthesis" /\ cur' = cur /\ cur = N
    BY <1>2, Reviewed
  <2>2. ~rewound => ~report /\ \A s \in Stages : s > cur => gates[s].verdict = "none"
    BY <2>1 DEF Targeted, Staging, Later
  <2>3. \A s \in Stages : s > cur => s # cur
    BY <2>1, Numbers
  <2>4. ~rewound => ~report /\ \A s \in Stages : s > cur => gates'[s].verdict = "none"
    BY <2>1, <2>2, <2>3
  <2>5. CASE at' = "stage" /\ cur' = cur
    BY <2>1, <2>4, <2>5 DEF Targeted, Staging, Later
  <2>6. CASE at' = "stage" /\ cur' = cur + 1 /\ cur # N
    <3>1. cur + 1 \in Stages /\ cur \in Nat /\ \A s \in Stages : s > cur + 1 => s > cur
      BY <2>1, <2>6, Numbers
    <3>2. passes[cur + 1] = 0 /\ cur + 1 > cur
      BY <2>1, <3>1 DEF Counters, Counted, Staging
    <3>3. ~rewound => gates'[cur + 1].verdict = "none"
      BY <2>4, <3>1, <3>2
    <3>4. ~(passes'[cur'] > 0)
      BY <2>1, <2>6, <3>2
    <3>5. ~rewound' => ~Later(cur)'
      BY <2>1, <2>4, <2>6, <3>1 DEF Later
    <3>6. QED
      BY <2>1, <2>6, <3>3, <3>4, <3>5 DEF Targeted
  <2>7. CASE at' = "synthesis"
    BY <2>7 DEF Targeted, Staging
  <2>8. QED
    BY <2>1, <2>5, <2>6, <2>7
<1>3. CASE Synthesis \/ Audit \/ Stop \/ ResumeReport
  BY <1>3 DEF Synthesis, Audit, Stop, ResumeReport, Targeted, Staging
<1>4. CASE ResumeStage
  <2>1. PICK s \in Open : /\ cur' = s
                          /\ targets' = IF gates[s].verdict = "reiterate"
                                        THEN gates[s].targets ELSE {}
                          /\ rewound' = Later(s)
    BY <1>4 DEF ResumeStage
  <2>2. gates' = gates /\ report' = report
    BY <1>4 DEF ResumeStage, Begin, rows
  <2>3. Later(cur)' = Later(s)
    BY <2>1, <2>2 DEF Later
  <2>4. QED
    BY <2>1, <2>2, <2>3 DEF Targeted
<1>5. CASE UNCHANGED vars
  BY <1>5 DEF vars, rows, history, Targeted, Staging, Later
<1>6. QED
  BY <1>1, <1>2, <1>3, <1>4, <1>5 DEF Next, Node

LEMMA ScopedStep ==
    ASSUME TypeOK, Targeted, Scoped, Frontier, [Next]_vars, ~torn'
    PROVE  Scoped'
<1>1. CASE Stage
  <2>1. /\ at = "stage" /\ at' = "review" /\ cur' = cur /\ gates' = gates /\ rewound' = rewound
        /\ cur \in Stages
        /\ \A s \in Stages : outputs[s] \subseteq Workers /\ outputs'[s] \subseteq Workers
        /\ \A s \in Stages : outputs[s] \subseteq outputs'[s]
        /\ Selected(cur, targets) \subseteq outputs'[cur]
    BY <1>1, SelectedType DEF Stage, TypeOK
  <2>2. \A s \in Stages : Scope(s) => Scope(s)'
    BY <2>1 DEF Scope, Selected
  <2>3. Scope(cur)'
    <3>1. CASE Scope(cur)
      BY <2>1, <2>2, <3>1
    <3>2. CASE targets = {}
      BY <2>1, <3>2 DEF Selected, Scope
    <3>3. CASE targets # {} /\ cur > 1 /\ targets = gates[cur - 1].targets
      BY <2>1, <3>3 DEF Scope, Selected
    <3>4. QED
      BY <2>1, <3>1, <3>2, <3>3 DEF Scoped
  <2>4. \A s \in Stages : Passed(s)' => Scope(s)'
    BY <2>1, <2>2, <2>3 DEF Scoped, Passed, Reporting
  <2>5. ~rewound' => \A s \in Stages : gates'[s].verdict # "none" => Scope(s)'
    BY <2>1, <2>2 DEF Scoped
  <2>6. QED
    BY <2>1, <2>4, <2>5 DEF Scoped
<1>2. CASE Review
  <2>1. /\ at = "review" /\ cur \in Stages
        /\ UNCHANGED <<outputs, report, rewound>>
        /\ gates'[cur].targets = targets'
        /\ \A s \in Stages : s # cur => gates'[s] = gates[s]
        /\ \/ at' = "stage" /\ cur' = cur
           \/ at' = "stage" /\ cur' = cur + 1 /\ cur # N
           \/ at' = "synthesis" /\ cur' = cur /\ cur = N
    BY <1>2, Reviewed
  <2>2. \A s \in Stages : s <= cur /\ Scope(s) => Scope(s)'
    <3>1. SUFFICES ASSUME NEW s \in Stages, s <= cur, Scope(s) PROVE Scope(s)'
      OBVIOUS
    <3>2. s > 1 => s - 1 \in Stages /\ s - 1 # cur
      BY <2>1, <3>1, PipelineAssumption DEF Stages
    <3>3. s > 1 => gates'[s - 1] = gates[s - 1]
      BY <2>1, <3>2
    <3>4. QED
      BY <2>1, <3>1, <3>3 DEF Scope, Selected
  <2>3. \A s \in Stages : s <= cur => Scope(s)
    <3>1. \A s \in Stages : s <= cur => s < cur \/ s = cur
      BY <2>1, Numbers
    <3>2. QED
      BY <2>1, <3>1 DEF Scoped, Passed
  <2>4. \A s \in Stages : s <= cur => Scope(s)'
    BY <2>2, <2>3
  <2>5. \A s \in Stages : Passed(s)' => s <= cur
    <3>1. cur \in Nat /\ \A s \in Stages : s \in Nat /\ (cur = N => s <= cur)
      BY <2>1, PipelineAssumption DEF Stages
    <3>2. QED
      BY <2>1, <3>1 DEF Passed, Reporting
  <2>6. at' = "stage" => \/ Scope(cur)' \/ targets' = {}
                         \/ cur' > 1 /\ targets' = gates'[cur' - 1].targets
    <3>1. CASE cur' = cur
      <4>1. cur <= cur
        BY <2>1, Numbers
      <4>2. Scope(cur)'
        BY <2>1, <2>4, <3>1, <4>1 DEF Scope, Selected
      <4>3. QED
        BY <4>2
    <3>2. CASE cur' = cur + 1
      <4>1. cur' > 1 /\ cur' - 1 = cur
        BY <2>1, <3>2, PipelineAssumption DEF Stages
      <4>2. QED
        BY <2>1, <4>1
    <3>3. QED
      BY <2>1, <3>1, <3>2
  <2>7. ~rewound' => \A s \in Stages : gates'[s].verdict # "none" => Scope(s)'
    <3>1. ~rewound => \A s \in Stages : s > cur => gates[s].verdict = "none"
      BY <2>1 DEF Targeted, Staging, Later
    <3>2. \A s \in Stages : s <= cur \/ (s > cur /\ s # cur)
      BY <2>1, Numbers
    <3>3. QED
      BY <2>1, <2>4, <3>1, <3>2
  <2>8. QED
    BY <2>4, <2>5, <2>6, <2>7 DEF Scoped
<1>3. CASE Synthesis \/ Audit
  <2>1. /\ UNCHANGED <<outputs, gates, rewound>> /\ at \in {"synthesis", "audit"}
        /\ at' \in {"audit", "done"}
    BY <1>3 DEF Synthesis, Audit, rows, history
  <2>2. \A s \in Stages : Scope(s) /\ Scope(s)'
    BY <2>1 DEF Scoped, Passed, Reporting, Scope, Selected
  <2>3. QED
    BY <2>1, <2>2 DEF Scoped
<1>4. CASE Stop
  <2>1. UNCHANGED <<outputs, gates, rewound>> /\ at' = "idle" /\ ~rewound
    BY <1>4 DEF Stop, rows, TypeOK
  <2>2. QED
    BY <2>1 DEF Scoped, Scope, Selected
<1>5. CASE ResumeStage \/ ResumeReport
  <2>1. at = "idle" /\ UNCHANGED <<outputs, gates>>
    BY <1>5 DEF ResumeStage, ResumeReport, Begin, rows
  <2>2. ~rewound
    BY <2>1 DEF Frontier
  <2>3. \A s \in Stages : gates[s].verdict # "none" => Scope(s)'
    BY <2>1, <2>2 DEF Scoped, Scope, Selected
  <2>4. \A s \in Stages : s \notin Open => gates[s].verdict # "none"
    BY DEF Open
  <2>5. CASE ResumeStage
    <3>1. PICK s \in Open : /\ \A t \in Open : s <= t
                            /\ cur' = s
                            /\ targets' = IF gates[s].verdict = "reiterate"
                                          THEN gates[s].targets ELSE {}
      BY <2>5 DEF ResumeStage
    <3>2. at' = "stage" /\ s \in Stages
      BY <2>5 DEF ResumeStage, Open
    <3>3. \A t \in Stages : t < s => t \notin Open
      <4>1. \A t \in Stages : t < s => ~(s <= t)
        BY <3>2, Numbers
      <4>2. QED
        BY <3>1, <4>1
    <3>4. targets' = {} \/ Scope(cur)'
      BY <2>3, <3>1, <3>2 DEF Scope, Selected
    <3>5. \A t \in Stages : Passed(t)' => t < s
      BY <3>1, <3>2 DEF Passed, Reporting
    <3>6. QED
      BY <2>1, <2>3, <2>4, <3>2, <3>3, <3>4, <3>5 DEF Scoped
  <2>6. CASE ResumeReport
    <3>1. Open = {} /\ at' \in {"synthesis", "audit"}
      BY <2>6 DEF ResumeReport
    <3>2. QED
      BY <2>1, <2>3, <2>4, <3>1 DEF Scoped
  <2>7. QED
    BY <1>5, <2>5, <2>6
<1>6. CASE UNCHANGED vars
  BY <1>6 DEF vars, rows, history, Scoped, Scope, Selected, Passed, Reporting
<1>7. QED
  BY <1>1, <1>2, <1>3, <1>4, <1>5, <1>6 DEF Next, Node

-----------------------------------------------------------------------------
(* The theorems.                                                           *)

\* The invariant the next four theorems are parts of (graph.py, run_worker.py).
THEOREM Safe == Spec => []PipelineInv
<1>1. Init => PipelineInv
  BY InitType, InitCounters, InitCompleteness
  DEF PipelineInv, Counters, Completeness, CompleteUnlessTorn
<1>2. PipelineInv /\ [Next]_vars => PipelineInv'
  BY TypeStep, CountersStep, CompletenessStep
  DEF PipelineInv, Counters, Completeness, CompleteUnlessTorn
<1>3. QED
  BY <1>1, <1>2, PTL DEF Spec

\* Every reachable state is well typed (all nodes and the reconstruction).
THEOREM TypeCorrect == Spec => []TypeOK
BY Safe, PTL DEF PipelineInv

\* The attempts in memory continue those of the gates table, for any number of
\* failures and retries (_reconstruct_retry_state).
THEOREM AttemptsContinue == Spec => []AttemptsRecorded
BY Safe, PTL DEF PipelineInv

\* However the reviewers decide, no drive runs a stage more than max_retries
\* times again, and a retry adds one pass at most (make_route_after_reviewer).
THEOREM RetriesCapped == Spec => []RetryCap
BY Safe, PTL DEF PipelineInv

\* A report rests on settled stages and is not outdated, unless a drive was
\* interrupted that a retry had sent back (_resume_entry_node).
THEOREM ReportsComplete == Spec => []CompleteUnlessTorn
BY Safe, PTL DEF PipelineInv

\* A redo runs the agents its verdict named, also behind a failure and a retry
\* (reviewer.py:126, _reconstruct_retry_state).
THEOREM RedosScoped == Spec => RedoScoped
<1>1. TypeOK /\ Counters /\ Targeted /\ [Next]_vars => Targeted'
  BY TargetedStep
<1>2. Spec => []Targeted
  <2>1. PipelineInv => TypeOK /\ Counters
    BY DEF PipelineInv, Counters
  <2>2. Init => Targeted
    BY InitScopes
  <2>3. QED
    BY <1>1, <2>1, <2>2, Safe, PTL DEF Spec
<1>3. Targeted /\ [Next]_vars =>
        [ at = "stage" /\ at' = "review" /\ gates[cur].verdict = "reiterate"
          /\ (passes[cur] > 0 \/ ~rewound)
          => ran' = Selected(cur, gates[cur].targets) ]_vars
  <2> SUFFICES ASSUME Targeted, Next, at = "stage", at' = "review",
                      gates[cur].verdict = "reiterate", passes[cur] > 0 \/ ~rewound
               PROVE  ran' = Selected(cur, gates[cur].targets)
    OBVIOUS
  <2>1. Stage
    BY DEF Next, Node, Review, Synthesis, Audit, Stop, ResumeStage, ResumeReport
  <2>2. QED
    BY <2>1 DEF Stage, Targeted
<1>4. QED
  BY <1>2, <1>3, PTL DEF Spec, RedoScoped

\* A worker that never ran was left out by name, unless a drive was torn
\* (reviewer.py:126, _selected_workers).
THEOREM ScopesFull == Spec => []FullScopeUnlessNamed
<1>1. Init => Targeted /\ (torn \/ Scoped)
  BY InitScopes
<1>2. PipelineInv /\ Targeted /\ (torn \/ Scoped) /\ [Next]_vars => Targeted' /\ (torn \/ Scoped)'
  <2> SUFFICES ASSUME PipelineInv, Targeted, torn \/ Scoped, [Next]_vars
               PROVE  Targeted' /\ (torn \/ Scoped)'
    OBVIOUS
  <2>1. Targeted'
    BY TargetedStep DEF PipelineInv, Counters
  <2>2. torn => torn'
    BY DEF Next, Node, Stage, Review, Synthesis, Audit, Stop, ResumeStage, ResumeReport,
           Begin, vars, history
  <2>3. CASE ~torn'
    <3>1. ~torn /\ Scoped
      BY <2>2, <2>3
    <3>2. TypeOK /\ Frontier
      BY <3>1 DEF PipelineInv, CompleteUnlessTorn
    <3>3. Scoped'
      BY <2>3, <3>1, <3>2, ScopedStep
    <3>4. QED
      BY <2>1, <3>3
  <2>4. QED
    BY <2>1, <2>3
<1>3. torn \/ Scoped => FullScopeUnlessNamed
  BY DEF Scoped, Scope, FullScopeUnlessNamed
<1>4. QED
  BY <1>1, <1>2, <1>3, Safe, PTL DEF Spec

=============================================================================
