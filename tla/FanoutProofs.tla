---------------------------- MODULE FanoutProofs ----------------------------
(***************************************************************************)
(* The usage, the evidence and the output of a stage, for any number of    *)
(* workers, drives, failures and cancellations.                            *)
(***************************************************************************)
EXTENDS Fanout, TLAPS

\* Drives are numbers, a task belongs to a drive, and the bounds are numbers.
LEMMA Numbers ==
    /\ \A d \in Drives : d \in Nat /\ d > 0 /\ d <= MaxDrives
    /\ \A t \in Tasks : t[1] \in Drives
    /\ 1 \in Drives
    /\ MaxIterations \in Nat /\ MaxDrives \in Nat /\ MaxFailures \in Nat /\ MaxCancels \in Nat
BY FanoutAssumption DEF Drives, Tasks

\* At most one drive has neither failed nor been cancelled.
LEMMA OneDrive ==
    ASSUME TypeOK, Sequential, NEW d \in Drives, NEW e \in Drives,
           drive[d] \in {"running", "persisting", "done"},
           drive[e] \in {"running", "persisting", "done"}
    PROVE  d = e
<1>1. \/ d < e \/ e < d \/ d = e
  BY Numbers
<1>2. QED
  BY <1>1 DEF Sequential

\* Unless the run is haunted all tasks that run are of one drive, and none runs
\* while a drive is persisting.
LEMMA Together ==
    ASSUME TypeOK, Sequential, Latest, ~haunted
    PROVE  /\ \A t, u \in Active : t[1] = u[1]
           /\ \A d \in Drives : drive[d] = "persisting" => Active = {}
<1>1. \A t, u \in Active : ~ t[1] < u[1]
  BY Numbers DEF Active, Latest, Sequential, Over
<1>2. \A t, u \in Active : t[1] = u[1]
  <2>1. \A t \in Active : t[1] \in Nat
    BY Numbers DEF Active
  <2>2. QED
    BY <1>1, <2>1
<1>3. ASSUME NEW d \in Drives, drive[d] = "persisting", NEW t \in Active
      PROVE  FALSE
  <2>1. t \in Tasks /\ t[1] \in Drives /\ task[t] # "none" /\ task[t] # "done"
    BY Numbers DEF Active, Over
  <2>2. ~ t[1] < d
    BY <1>3, <2>1 DEF Latest
  <2>3. ~ d < t[1]
    BY <1>3, <2>1 DEF Sequential
  <2>4. t[1] = d
    BY <2>1, <2>2, <2>3, Numbers
  <2>5. QED
    BY <1>3, <2>1, <2>4 DEF Sequential
<1>4. QED
  BY <1>2, <1>3

\* After every step every variable is in its range.
LEMMA TypeStep ==
    ASSUME TypeOK, Replies, [Next]_vars
    PROVE  TypeOK'
<1>1. CASE \E t \in Tasks : Enter(t)
  BY <1>1, Numbers DEF Enter, Goes, NextCall, TypeOK, Replies, Answered, Steps,
     Over, loop, meter, table, TasksOf
<1>2. CASE \E t \in Tasks : Answer(t)
  BY <1>2, Numbers DEF Answer, Goes, TypeOK, Replies, Answered, Steps, Over,
     loop, meter, table, TasksOf
<1>3. CASE \E t \in Tasks : CallFails(t)
  BY <1>3, Numbers DEF CallFails, Goes, Spend, TypeOK, Replies, Answered, Steps,
     Over, loop, meter, table, TasksOf
<1>4. CASE \E t \in Tasks : FindSource(t)
  BY <1>4, Numbers DEF FindSource, Goes, NextCall, TypeOK, Replies, Answered,
     Steps, Over, loop, meter, table, TasksOf
<1>5. CASE \E t \in Tasks : InsertSource(t)
  BY <1>5, Numbers DEF InsertSource, Goes, NextCall, TypeOK, Replies, Answered,
     Steps, Over, loop, meter, table, TasksOf
<1>6. CASE \E t \in Tasks : FindNothing(t)
  BY <1>6, Numbers DEF FindNothing, Goes, NextCall, TypeOK, Replies, Answered,
     Steps, Over, loop, meter, table, TasksOf
<1>7. CASE \E t \in Tasks : ReadUsage(t)
  BY <1>7, Numbers DEF ReadUsage, Goes, Free, TypeOK, Replies, Answered, Steps,
     Over, loop, meter, table, TasksOf
<1>8. CASE \E t \in Tasks : WriteUsage(t)
  BY <1>8, Numbers DEF WriteUsage, Goes, Free, Spend, TypeOK, Replies, Answered,
     Steps, Over, loop, meter, table, TasksOf
<1>9. CASE \E d \in Drives : Gather(d)
  BY <1>9, Numbers DEF Gather, TypeOK, Replies, Answered, Steps, Over, loop,
     meter, table, TasksOf
<1>10. CASE \E d \in Drives : Persist(d)
  BY <1>10, Numbers DEF Persist, TypeOK, Replies, Answered, Steps, Over, loop,
     meter, table, TasksOf
<1>11. CASE \E d \in Drives : StoreFails(d)
  BY <1>11, Numbers DEF StoreFails, Spend, TypeOK, Replies, Answered, Steps,
     Over, loop, meter, table, TasksOf
<1>12. CASE \E d \in Drives : Abort(d)
  BY <1>12, Numbers DEF Abort, TypeOK, Replies, Answered, Steps, Over, loop,
     meter, table, TasksOf
<1>13. CASE \E d \in Drives : Cancel(d)
  BY <1>13, Numbers DEF Cancel, Spend, Active, Free, TypeOK, Replies, Answered,
     Steps, Over, loop, meter, table, TasksOf
<1>14. CASE \E d \in Drives : Retry(d)
  <2>1. PICK d \in Drives : Retry(d)
    BY <1>14
  <2>2. /\ drive[d] \in {"failed", "cancelled"} /\ d + 1 \in Drives /\ drive[d + 1] = "none"
        /\ drive' = [drive EXCEPT ![d + 1] = "running"]
        /\ task' = [t \in Tasks |-> IF t[1] = d + 1 THEN "waiting" ELSE task[t]]
        /\ UNCHANGED <<reply, rounds, locked, seen, usage, counted, evidence, artifacts, cited, missing, spent>>
    BY <2>1 DEF Retry, loop, meter, table
  <2>3. haunted' \in BOOLEAN
    BY <2>1 DEF Retry
  <2>4. task' \in [Tasks -> Steps]
    BY <2>2 DEF TypeOK, Steps
  <2>5. drive' \in [Drives -> {"none", "running", "persisting", "done", "failed", "cancelled"}]
    BY <2>2 DEF TypeOK
  <2>6. QED
    BY <2>2, <2>3, <2>4, <2>5 DEF TypeOK
<1>15. CASE UNCHANGED <<vars>>
  BY <1>15 DEF TypeOK, Active, vars, loop, meter, table
<1>16. QED
  BY <1>1, <1>2, <1>3, <1>4, <1>5, <1>6, <1>7, <1>8, <1>9, <1>10, <1>11, <1>12,
     <1>13, <1>14, <1>15 DEF Next, TaskStep, DriveStep, vars, loop, meter, table

\* After every step a task knows where it goes.
LEMMA RepliesStep ==
    ASSUME TypeOK, Replies, Sequential, [Next]_vars
    PROVE  Replies'
<1>1. CASE \E t \in Tasks : Enter(t)
  BY <1>1, Numbers DEF Enter, Goes, NextCall, TypeOK, Replies, Answered, Steps,
     Over, Sequential, loop, meter, table, TasksOf
<1>2. CASE \E t \in Tasks : Answer(t)
  BY <1>2, Numbers DEF Answer, Goes, TypeOK, Replies, Answered, Steps, Over,
     Sequential, loop, meter, table, TasksOf
<1>3. CASE \E t \in Tasks : CallFails(t)
  BY <1>3, Numbers DEF CallFails, Goes, Spend, TypeOK, Replies, Answered, Steps,
     Over, Sequential, loop, meter, table, TasksOf
<1>4. CASE \E t \in Tasks : FindSource(t)
  BY <1>4, Numbers DEF FindSource, Goes, NextCall, TypeOK, Replies, Answered,
     Steps, Over, Sequential, loop, meter, table, TasksOf
<1>5. CASE \E t \in Tasks : InsertSource(t)
  BY <1>5, Numbers DEF InsertSource, Goes, NextCall, TypeOK, Replies, Answered,
     Steps, Over, Sequential, loop, meter, table, TasksOf
<1>6. CASE \E t \in Tasks : FindNothing(t)
  BY <1>6, Numbers DEF FindNothing, Goes, NextCall, TypeOK, Replies, Answered,
     Steps, Over, Sequential, loop, meter, table, TasksOf
<1>7. CASE \E t \in Tasks : ReadUsage(t)
  BY <1>7, Numbers DEF ReadUsage, Goes, Free, TypeOK, Replies, Answered, Steps,
     Over, Sequential, loop, meter, table, TasksOf
<1>8. CASE \E t \in Tasks : WriteUsage(t)
  BY <1>8, Numbers DEF WriteUsage, Goes, Free, Spend, TypeOK, Replies, Answered,
     Steps, Over, Sequential, loop, meter, table, TasksOf
<1>9. CASE \E d \in Drives : StoreFails(d)
  BY <1>9, Numbers DEF StoreFails, Spend, TypeOK, Replies, Answered, Steps,
     Over, Sequential, loop, meter, table, TasksOf
<1>10. CASE \E d \in Drives : Cancel(d)
  BY <1>10, Numbers DEF Cancel, Spend, Active, Free, TypeOK, Replies, Answered,
     Steps, Over, Sequential, loop, meter, table, TasksOf
<1>11. CASE \E d \in Drives : Retry(d)
  <2>1. PICK d \in Drives : Retry(d)
    BY <1>11
  <2>2. /\ drive[d] \in {"failed", "cancelled"} /\ d + 1 \in Drives /\ drive[d + 1] = "none"
        /\ drive' = [drive EXCEPT ![d + 1] = "running"]
        /\ task' = [t \in Tasks |-> IF t[1] = d + 1 THEN "waiting" ELSE task[t]]
        /\ UNCHANGED <<reply, rounds, locked, seen, usage, counted, evidence, artifacts, cited, missing, spent>>
    BY <2>1 DEF Retry, loop, meter, table
  <2>3. \A t \in Tasks : \/ task'[t] = task[t]
                         \/ task'[t] = "waiting" /\ task[t] = "none"
    <3>1. \A t \in Tasks : t[1] = d + 1 => task[t] = "none" /\ task'[t] = "waiting"
      BY <2>2 DEF Sequential
    <3>2. \A t \in Tasks : t[1] # d + 1 => task'[t] = task[t]
      BY <2>2
    <3>3. QED
      BY <3>1, <3>2
  <2>4. QED
    BY <2>2, <2>3 DEF Replies, Answered
<1>12. CASE UNCHANGED <<task, reply, rounds, spent>>
  BY <1>12 DEF Replies, Answered
<1>13. QED
  BY <1>1, <1>2, <1>3, <1>4, <1>5, <1>6, <1>7, <1>8, <1>9, <1>10, <1>11, <1>12
     DEF Next, TaskStep, DriveStep, vars, loop, meter, table, Gather, Persist,
     Abort

\* After every step the drives follow each other.
LEMMA SequentialStep ==
    ASSUME TypeOK, Replies, Sequential, [Next]_vars
    PROVE  Sequential'
<1>1. CASE \E t \in Tasks : Enter(t)
  BY <1>1, Numbers DEF Enter, Goes, NextCall, TypeOK, Replies, Answered,
     Sequential, TasksOf, Over, loop, meter, table
<1>2. CASE \E t \in Tasks : Answer(t)
  BY <1>2, Numbers DEF Answer, Goes, TypeOK, Replies, Answered, Sequential,
     TasksOf, Over, loop, meter, table
<1>3. CASE \E t \in Tasks : CallFails(t)
  BY <1>3, Numbers DEF CallFails, Goes, Spend, TypeOK, Replies, Answered,
     Sequential, TasksOf, Over, loop, meter, table
<1>4. CASE \E t \in Tasks : FindSource(t)
  BY <1>4, Numbers DEF FindSource, Goes, NextCall, TypeOK, Replies, Answered,
     Sequential, TasksOf, Over, loop, meter, table
<1>5. CASE \E t \in Tasks : InsertSource(t)
  BY <1>5, Numbers DEF InsertSource, Goes, NextCall, TypeOK, Replies, Answered,
     Sequential, TasksOf, Over, loop, meter, table
<1>6. CASE \E t \in Tasks : FindNothing(t)
  BY <1>6, Numbers DEF FindNothing, Goes, NextCall, TypeOK, Replies, Answered,
     Sequential, TasksOf, Over, loop, meter, table
<1>7. CASE \E t \in Tasks : ReadUsage(t)
  BY <1>7, Numbers DEF ReadUsage, Goes, Free, TypeOK, Replies, Answered,
     Sequential, TasksOf, Over, loop, meter, table
<1>8. CASE \E t \in Tasks : WriteUsage(t)
  BY <1>8, Numbers DEF WriteUsage, Goes, Free, Spend, TypeOK, Replies, Answered,
     Sequential, TasksOf, Over, loop, meter, table
<1>9. CASE \E d \in Drives : Gather(d)
  BY <1>9, Numbers DEF Gather, TypeOK, Replies, Answered, Sequential, TasksOf,
     Over, loop, meter, table
<1>10. CASE \E d \in Drives : Persist(d)
  BY <1>10, Numbers DEF Persist, TypeOK, Replies, Answered, Sequential, TasksOf,
     Over, loop, meter, table
<1>11. CASE \E d \in Drives : StoreFails(d)
  BY <1>11, Numbers DEF StoreFails, Spend, TypeOK, Replies, Answered,
     Sequential, TasksOf, Over, loop, meter, table
<1>12. CASE \E d \in Drives : Abort(d)
  BY <1>12, Numbers DEF Abort, TypeOK, Replies, Answered, Sequential, TasksOf,
     Over, loop, meter, table
<1>13. CASE \E d \in Drives : Cancel(d)
  BY <1>13, Numbers DEF Cancel, Spend, Active, Free, TypeOK, Replies, Answered,
     Sequential, TasksOf, Over, loop, meter, table
<1>14. CASE \E d \in Drives : Retry(d)
  <2>1. PICK d \in Drives : Retry(d)
    BY <1>14
  <2>2. /\ drive[d] \in {"failed", "cancelled"} /\ d + 1 \in Drives /\ drive[d + 1] = "none"
        /\ drive' = [drive EXCEPT ![d + 1] = "running"]
        /\ task' = [t \in Tasks |-> IF t[1] = d + 1 THEN "waiting" ELSE task[t]]
        /\ UNCHANGED <<reply, rounds, locked, seen, usage, counted, evidence, artifacts, cited, missing, spent>>
    BY <2>1 DEF Retry, loop, meter, table
  <2>3. ASSUME NEW c \in Drives, NEW e \in Drives, c < e, drive'[e] # "none"
        PROVE  drive'[c] \in {"failed", "cancelled"}
    <3>1. CASE e = d + 1
      <4>1. c = d \/ c < d
        BY <2>3, <3>1, Numbers
      <4>2. drive[c] \in {"failed", "cancelled"}
        BY <4>1, <2>2 DEF Sequential
      <4>3. QED
        BY <4>2, <2>2 DEF TypeOK
    <3>2. CASE e # d + 1
      <4>1. drive[c] \in {"failed", "cancelled"}
        BY <3>2, <2>2, <2>3 DEF TypeOK, Sequential
      <4>2. QED
        BY <4>1, <2>2 DEF TypeOK
    <3>3. QED
      BY <3>1, <3>2
  <2>4. \A t \in Tasks : drive'[t[1]] = "none" => task'[t] = "none"
    BY <2>2, Numbers DEF TypeOK, Sequential
  <2>5. \A t \in Tasks : drive'[t[1]] \in {"persisting", "done"} => task'[t] = "done"
    BY <2>2, Numbers DEF TypeOK, Sequential
  <2>6. QED
    BY <2>3, <2>4, <2>5 DEF Sequential
<1>15. CASE UNCHANGED <<drive, task>>
  BY <1>15 DEF Sequential
<1>16. QED
  BY <1>1, <1>2, <1>3, <1>4, <1>5, <1>6, <1>7, <1>8, <1>9, <1>10, <1>11, <1>12,
     <1>13, <1>14, <1>15 DEF Next, TaskStep, DriveStep, vars, loop, meter, table

\* After every step only tasks of the latest drive run, or the run is haunted.
LEMMA LatestStep ==
    ASSUME TypeOK, Replies, Sequential, Latest, [Next]_vars
    PROVE  Latest'
<1>1. CASE \E t \in Tasks : Enter(t)
  BY <1>1, Numbers DEF Enter, Goes, NextCall, TypeOK, Replies, Answered,
     Sequential, Latest, Active, TasksOf, Over, loop, meter, table
<1>2. CASE \E t \in Tasks : Answer(t)
  BY <1>2, Numbers DEF Answer, Goes, TypeOK, Replies, Answered, Sequential,
     Latest, Active, TasksOf, Over, loop, meter, table
<1>3. CASE \E t \in Tasks : CallFails(t)
  BY <1>3, Numbers DEF CallFails, Goes, Spend, TypeOK, Replies, Answered,
     Sequential, Latest, Active, TasksOf, Over, loop, meter, table
<1>4. CASE \E t \in Tasks : FindSource(t)
  BY <1>4, Numbers DEF FindSource, Goes, NextCall, TypeOK, Replies, Answered,
     Sequential, Latest, Active, TasksOf, Over, loop, meter, table
<1>5. CASE \E t \in Tasks : InsertSource(t)
  BY <1>5, Numbers DEF InsertSource, Goes, NextCall, TypeOK, Replies, Answered,
     Sequential, Latest, Active, TasksOf, Over, loop, meter, table
<1>6. CASE \E t \in Tasks : FindNothing(t)
  BY <1>6, Numbers DEF FindNothing, Goes, NextCall, TypeOK, Replies, Answered,
     Sequential, Latest, Active, TasksOf, Over, loop, meter, table
<1>7. CASE \E t \in Tasks : ReadUsage(t)
  BY <1>7, Numbers DEF ReadUsage, Goes, Free, TypeOK, Replies, Answered,
     Sequential, Latest, Active, TasksOf, Over, loop, meter, table
<1>8. CASE \E t \in Tasks : WriteUsage(t)
  BY <1>8, Numbers DEF WriteUsage, Goes, Free, Spend, TypeOK, Replies, Answered,
     Sequential, Latest, Active, TasksOf, Over, loop, meter, table
<1>9. CASE \E d \in Drives : Gather(d)
  BY <1>9, Numbers DEF Gather, TypeOK, Replies, Answered, Sequential, Latest,
     Active, TasksOf, Over, loop, meter, table
<1>10. CASE \E d \in Drives : Persist(d)
  BY <1>10, Numbers DEF Persist, TypeOK, Replies, Answered, Sequential, Latest,
     Active, TasksOf, Over, loop, meter, table
<1>11. CASE \E d \in Drives : StoreFails(d)
  BY <1>11, Numbers DEF StoreFails, Spend, TypeOK, Replies, Answered,
     Sequential, Latest, Active, TasksOf, Over, loop, meter, table
<1>12. CASE \E d \in Drives : Abort(d)
  BY <1>12, Numbers DEF Abort, TypeOK, Replies, Answered, Sequential, Latest,
     Active, TasksOf, Over, loop, meter, table
<1>13. CASE \E d \in Drives : Cancel(d)
  BY <1>13, Numbers DEF Cancel, Spend, Active, Free, TypeOK, Replies, Answered,
     Sequential, Latest, TasksOf, Over, loop, meter, table
<1>14. CASE \E d \in Drives : Retry(d)
  <2>1. PICK d \in Drives : Retry(d)
    BY <1>14
  <2>2. /\ drive[d] \in {"failed", "cancelled"} /\ d + 1 \in Drives /\ drive[d + 1] = "none"
        /\ drive' = [drive EXCEPT ![d + 1] = "running"]
        /\ task' = [t \in Tasks |-> IF t[1] = d + 1 THEN "waiting" ELSE task[t]]
        /\ UNCHANGED <<reply, rounds, locked, seen, usage, counted, evidence, artifacts, cited, missing, spent>>
    BY <2>1 DEF Retry, loop, meter, table
  <2>3. haunted' = (haunted \/ Active # {})
    BY <2>1 DEF Retry
  <2>4. ASSUME ~haunted'
        PROVE  \A t \in Active', e \in Drives : t[1] < e => drive'[e] = "none"
    <3>1. Active = {}
      BY <2>3, <2>4
    <3>2. \A t \in Active' : t \in Tasks /\ t[1] = d + 1
      BY <3>1, <2>2 DEF Active
    <3>3. \A e \in Drives : d + 1 < e => drive[e] = "none"
      BY <2>2 DEF Sequential
    <3>4. \A e \in Drives : d + 1 < e => drive'[e] = "none"
      BY <3>3, <2>2, Numbers DEF TypeOK
    <3>5. QED
      BY <3>2, <3>4
  <2>5. QED
    BY <2>4 DEF Latest
<1>15. CASE UNCHANGED <<drive, task, haunted>>
  BY <1>15 DEF Latest, Active
<1>16. QED
  BY <1>1, <1>2, <1>3, <1>4, <1>5, <1>6, <1>7, <1>8, <1>9, <1>10, <1>11, <1>12,
     <1>13, <1>14, <1>15 DEF Next, TaskStep, DriveStep, vars, loop, meter, table

\* After every step the one who adds to the usage is alone.
LEMMA MeteredStep ==
    ASSUME TypeOK, Replies, Sequential, Latest, Metered, UsageExact, [Next]_vars
    PROVE  Metered' /\ UsageExact'
<1>1. CASE \E t \in Tasks : Enter(t)
  BY <1>1, Numbers DEF Enter, Goes, NextCall, TypeOK, Replies, Answered,
     Sequential, Latest, Metered, UsageExact, Active, TasksOf, Over, loop,
     meter, table
<1>2. CASE \E t \in Tasks : Answer(t)
  BY <1>2, Numbers DEF Answer, Goes, TypeOK, Replies, Answered, Sequential,
     Latest, Metered, UsageExact, Active, TasksOf, Over, loop, meter, table
<1>3. CASE \E t \in Tasks : CallFails(t)
  BY <1>3, Numbers DEF CallFails, Goes, Spend, TypeOK, Replies, Answered,
     Sequential, Latest, Metered, UsageExact, Active, TasksOf, Over, loop,
     meter, table
<1>4. CASE \E t \in Tasks : FindSource(t)
  BY <1>4, Numbers DEF FindSource, Goes, NextCall, TypeOK, Replies, Answered,
     Sequential, Latest, Metered, UsageExact, Active, TasksOf, Over, loop,
     meter, table
<1>5. CASE \E t \in Tasks : InsertSource(t)
  BY <1>5, Numbers DEF InsertSource, Goes, NextCall, TypeOK, Replies, Answered,
     Sequential, Latest, Metered, UsageExact, Active, TasksOf, Over, loop,
     meter, table
<1>6. CASE \E t \in Tasks : FindNothing(t)
  BY <1>6, Numbers DEF FindNothing, Goes, NextCall, TypeOK, Replies, Answered,
     Sequential, Latest, Metered, UsageExact, Active, TasksOf, Over, loop,
     meter, table
<1>7. CASE \E t \in Tasks : ReadUsage(t)
  <2>1. PICK t \in Tasks : ReadUsage(t)
    BY <1>7
  <2>2. task[t] = "counting" /\ t \in Active /\ locked[t[1]] = {} /\ UNCHANGED <<haunted, usage, counted>>
    BY <2>1 DEF ReadUsage, Active, Over, Free
  <2>3. ASSUME ~haunted, NEW u \in Tasks, u # t
        PROVE  task[u] # "counted"
    <3>1. SUFFICES ASSUME task[u] = "counted" PROVE FALSE
      OBVIOUS
    <3>2. u \in Active
      BY <3>1, <2>3 DEF Active, Over
    <3>3. t[1] = u[1]
      BY <2>2, <2>3, <3>2, Together
    <3>4. QED
      BY <2>2, <2>3, <3>1, <3>3 DEF Metered
  <2>4. locked'[t[1]] = {t} /\ seen'[t[1]] = usage
    BY <2>1, Numbers DEF ReadUsage, TypeOK
  <2>5. \A u \in Tasks : u # t => task'[u] = task[u]
    BY <2>1 DEF ReadUsage, Goes, TypeOK
  <2>6. Metered'
    BY <2>2, <2>3, <2>4, <2>5 DEF Metered
  <2>7. QED
    BY <2>2, <2>6 DEF UsageExact
<1>8. CASE \E t \in Tasks : WriteUsage(t)
  <2>1. PICK t \in Tasks : WriteUsage(t)
    BY <1>8
  <2>2. task[t] = "counted" /\ t \in Active /\ UNCHANGED haunted
    BY <2>1 DEF WriteUsage, Active, Over
  <2>3. ASSUME ~haunted, NEW u \in Tasks, u # t, task[u] = "counted"
        PROVE  FALSE
    <3>1. u \in Active
      BY <2>3 DEF Active, Over
    <3>2. t[1] = u[1]
      BY <2>2, <2>3, <3>1, Together
    <3>3. QED
      BY <2>2, <2>3, <3>2 DEF Metered
  <2>4. reply[t] # "counted"
    BY <2>2 DEF Replies, Answered
  <2>5. Metered'
    BY <2>1, <2>2, <2>3, <2>4 DEF WriteUsage, Goes, Metered, TypeOK
  <2>6. ~haunted => seen[t[1]] = usage
    BY <2>2 DEF Metered
  <2>7. ~haunted => usage' = counted'
    BY <2>1, <2>6 DEF WriteUsage, UsageExact, TypeOK
  <2>8. QED
    BY <2>2, <2>5, <2>7 DEF UsageExact
<1>9. CASE \E d \in Drives : Cancel(d)
  BY <1>9, Numbers DEF Cancel, Spend, Active, Free, TypeOK, Replies, Answered,
     Sequential, Latest, Metered, UsageExact, TasksOf, Over, loop, meter, table
<1>10. CASE \E d \in Drives : Retry(d)
  <2>1. PICK d \in Drives : Retry(d)
    BY <1>10
  <2>2. /\ drive[d] \in {"failed", "cancelled"} /\ d + 1 \in Drives /\ drive[d + 1] = "none"
        /\ drive' = [drive EXCEPT ![d + 1] = "running"]
        /\ task' = [t \in Tasks |-> IF t[1] = d + 1 THEN "waiting" ELSE task[t]]
        /\ UNCHANGED <<reply, rounds, locked, seen, usage, counted, evidence, artifacts, cited, missing, spent>>
    BY <2>1 DEF Retry, loop, meter, table
  <2>3. haunted => haunted'
    BY <2>1 DEF Retry
  <2>4. \A t \in Tasks : task'[t] = "counted" => task[t] = "counted"
    BY <2>2
  <2>5. QED
    BY <2>2, <2>3, <2>4 DEF Metered, UsageExact
<1>11. CASE UNCHANGED <<task, locked, seen, usage, counted, haunted>>
  BY <1>11 DEF Metered, UsageExact
<1>12. QED
  BY <1>1, <1>2, <1>3, <1>4, <1>5, <1>6, <1>7, <1>8, <1>9, <1>10, <1>11 DEF
     Next, TaskStep, DriveStep, vars, loop, meter, table, Gather, Persist,
     StoreFails, Abort

\* After every step a commit stores what is missing.
LEMMA StoringStep ==
    ASSUME TypeOK, Replies, Sequential, Latest, Storing, [Next]_vars
    PROVE  Storing'
<1>1. CASE \E t \in Tasks : InsertSource(t)
  <2>1. PICK t \in Tasks : InsertSource(t)
    BY <1>1
  <2>2. t \in Active /\ evidence \subseteq evidence' /\ UNCHANGED <<drive, cited, missing, haunted>>
    BY <2>1 DEF InsertSource, Active, Over, table
  <2>3. ASSUME ~haunted, NEW d \in Drives, drive[d] = "persisting"
        PROVE  FALSE
    BY <2>2, <2>3, Together
  <2>4. QED
    BY <2>2, <2>3 DEF Storing
<1>2. CASE \E d \in Drives : Gather(d)
  BY <1>2, Numbers DEF Gather, TypeOK, Replies, Sequential, Latest, Storing,
     Active, TasksOf, Over, loop, meter, table
<1>3. CASE \E d \in Drives : Persist(d)
  <2>1. PICK d \in Drives : Persist(d)
    BY <1>3
  <2>2. ASSUME NEW e \in Drives, drive'[e] = "persisting"
        PROVE  FALSE
    <3>1. e # d /\ drive[e] = "persisting" /\ drive[d] = "persisting"
      BY <2>1, <2>2 DEF Persist, TypeOK
    <3>2. QED
      BY <3>1, OneDrive
  <2>3. QED
    BY <2>2 DEF Storing
<1>4. CASE \E d \in Drives : StoreFails(d)
  BY <1>4, Numbers DEF StoreFails, Spend, TypeOK, Replies, Sequential, Latest,
     Storing, Active, TasksOf, Over, loop, meter, table
<1>5. CASE \E d \in Drives : Abort(d)
  BY <1>5, Numbers DEF Abort, TypeOK, Replies, Sequential, Latest, Storing,
     Active, TasksOf, Over, loop, meter, table
<1>6. CASE \E d \in Drives : Cancel(d)
  BY <1>6, Numbers DEF Cancel, Spend, Active, Free, TypeOK, Replies, Sequential,
     Latest, Storing, TasksOf, Over, loop, meter, table
<1>7. CASE \E d \in Drives : Retry(d)
  <2>1. PICK d \in Drives : Retry(d)
    BY <1>7
  <2>2. /\ drive[d] \in {"failed", "cancelled"} /\ d + 1 \in Drives /\ drive[d + 1] = "none"
        /\ drive' = [drive EXCEPT ![d + 1] = "running"]
        /\ task' = [t \in Tasks |-> IF t[1] = d + 1 THEN "waiting" ELSE task[t]]
        /\ UNCHANGED <<reply, rounds, locked, seen, usage, counted, evidence, artifacts, cited, missing, spent>>
    BY <2>1 DEF Retry, loop, meter, table
  <2>3. haunted => haunted'
    BY <2>1 DEF Retry
  <2>4. \A e \in Drives : drive'[e] = "persisting" => drive[e] = "persisting"
    BY <2>2 DEF TypeOK
  <2>5. QED
    BY <2>2, <2>3, <2>4 DEF Storing
<1>8. CASE UNCHANGED <<drive, evidence, cited, missing, haunted>>
  BY <1>8 DEF Storing
<1>9. QED
  BY <1>1, <1>2, <1>3, <1>4, <1>5, <1>6, <1>7, <1>8 DEF Next, TaskStep,
     DriveStep, vars, loop, meter, table, Enter, Answer, CallFails, FindSource,
     FindNothing, ReadUsage, WriteUsage

\* After every step the stored output is whole and its evidence stored.
LEMMA OutputStep ==
    ASSUME TypeOK, Replies, Sequential, Storing, WholeStage, EvidenceKept, [Next]_vars
    PROVE  WholeStage' /\ EvidenceKept'
<1>1. CASE \E t \in Tasks : Enter(t)
  BY <1>1, Numbers DEF Enter, Goes, NextCall, TypeOK, Replies, Answered,
     Sequential, Storing, WholeStage, EvidenceKept, TasksOf, Over, Active, loop,
     meter, table
<1>2. CASE \E t \in Tasks : Answer(t)
  BY <1>2, Numbers DEF Answer, Goes, TypeOK, Replies, Answered, Sequential,
     Storing, WholeStage, EvidenceKept, TasksOf, Over, Active, loop, meter,
     table
<1>3. CASE \E t \in Tasks : CallFails(t)
  BY <1>3, Numbers DEF CallFails, Goes, Spend, TypeOK, Replies, Answered,
     Sequential, Storing, WholeStage, EvidenceKept, TasksOf, Over, Active, loop,
     meter, table
<1>4. CASE \E t \in Tasks : FindSource(t)
  BY <1>4, Numbers DEF FindSource, Goes, NextCall, TypeOK, Replies, Answered,
     Sequential, Storing, WholeStage, EvidenceKept, TasksOf, Over, Active, loop,
     meter, table
<1>5. CASE \E t \in Tasks : InsertSource(t)
  BY <1>5, Numbers DEF InsertSource, Goes, NextCall, TypeOK, Replies, Answered,
     Sequential, Storing, WholeStage, EvidenceKept, TasksOf, Over, Active, loop,
     meter, table
<1>6. CASE \E t \in Tasks : FindNothing(t)
  BY <1>6, Numbers DEF FindNothing, Goes, NextCall, TypeOK, Replies, Answered,
     Sequential, Storing, WholeStage, EvidenceKept, TasksOf, Over, Active, loop,
     meter, table
<1>7. CASE \E t \in Tasks : ReadUsage(t)
  BY <1>7, Numbers DEF ReadUsage, Goes, Free, TypeOK, Replies, Answered,
     Sequential, Storing, WholeStage, EvidenceKept, TasksOf, Over, Active, loop,
     meter, table
<1>8. CASE \E t \in Tasks : WriteUsage(t)
  BY <1>8, Numbers DEF WriteUsage, Goes, Free, Spend, TypeOK, Replies, Answered,
     Sequential, Storing, WholeStage, EvidenceKept, TasksOf, Over, Active, loop,
     meter, table
<1>9. CASE \E d \in Drives : Gather(d)
  <2>1. PICK d \in Drives : Gather(d)
    BY <1>9
  <2>2. drive[d] = "running" /\ UNCHANGED artifacts
    BY <2>1 DEF Gather
  <2>3. artifacts = 0
    BY <2>2, OneDrive, FanoutAssumption DEF WholeStage, TypeOK, Drives
  <2>4. QED
    BY <2>2, <2>3 DEF WholeStage, EvidenceKept
<1>10. CASE \E d \in Drives : Persist(d)
  <2>1. PICK d \in Drives : Persist(d)
    BY <1>10
  <2>2. drive[d] = "persisting" /\ UNCHANGED <<task, cited>>
    BY <2>1 DEF Persist
  <2>3. artifacts = 0
    BY <2>2, OneDrive, FanoutAssumption DEF WholeStage, TypeOK, Drives
  <2>4. CASE missing \cap evidence = {}
    <3>1. artifacts' = d /\ drive'[d] = "done" /\ evidence' = evidence \cup missing
      BY <2>1, <2>4 DEF Persist, TypeOK
    <3>2. \A t \in TasksOf(d) : task'[t] = "done"
      BY <2>2 DEF TasksOf, Sequential
    <3>3. cited' \subseteq evidence'
      BY <2>2, <3>1 DEF Storing
    <3>4. QED
      BY <3>1, <3>2, <3>3 DEF WholeStage, EvidenceKept, TasksOf
  <2>5. CASE missing \cap evidence # {}
    BY <2>1, <2>3, <2>5 DEF Persist, WholeStage, EvidenceKept
  <2>6. QED
    BY <2>4, <2>5
<1>11. CASE \E d \in Drives : StoreFails(d)
  BY <1>11, Numbers DEF StoreFails, Spend, TypeOK, Replies, Answered,
     Sequential, Storing, WholeStage, EvidenceKept, TasksOf, Over, Active, loop,
     meter, table
<1>12. CASE \E d \in Drives : Abort(d)
  BY <1>12, Numbers DEF Abort, TypeOK, Replies, Answered, Sequential, Storing,
     WholeStage, EvidenceKept, TasksOf, Over, Active, loop, meter, table
<1>13. CASE \E d \in Drives : Cancel(d)
  BY <1>13, Numbers DEF Cancel, Spend, Active, Free, TypeOK, Replies, Answered,
     Sequential, Storing, WholeStage, EvidenceKept, TasksOf, Over, loop, meter,
     table
<1>14. CASE \E d \in Drives : Retry(d)
  <2>1. PICK d \in Drives : Retry(d)
    BY <1>14
  <2>2. /\ drive[d] \in {"failed", "cancelled"} /\ d + 1 \in Drives /\ drive[d + 1] = "none"
        /\ drive' = [drive EXCEPT ![d + 1] = "running"]
        /\ task' = [t \in Tasks |-> IF t[1] = d + 1 THEN "waiting" ELSE task[t]]
        /\ UNCHANGED <<reply, rounds, locked, seen, usage, counted, evidence, artifacts, cited, missing, spent>>
    BY <2>1 DEF Retry, loop, meter, table
  <2>3. artifacts # 0 => artifacts \in Drives
    BY FanoutAssumption DEF TypeOK, Drives
  <2>4. artifacts # 0 => drive[artifacts] = "done"
    BY DEF WholeStage
  <2>5. artifacts # 0 => artifacts # d + 1 /\ drive'[artifacts] = "done"
    BY <2>2, <2>3, <2>4 DEF TypeOK
  <2>6. artifacts # 0 => \A t \in TasksOf(artifacts) : task'[t] = "done"
    BY <2>2, <2>5 DEF WholeStage, TasksOf
  <2>7. QED
    BY <2>2, <2>5, <2>6 DEF WholeStage, EvidenceKept, TasksOf
<1>15. CASE UNCHANGED <<vars>>
  BY <1>15 DEF WholeStage, EvidenceKept, TasksOf, vars, loop, meter, table
<1>16. QED
  BY <1>1, <1>2, <1>3, <1>4, <1>5, <1>6, <1>7, <1>8, <1>9, <1>10, <1>11, <1>12,
     <1>13, <1>14, <1>15 DEF Next, TaskStep, DriveStep, vars, loop, meter, table

\* After every step a failed drive has a reason.
LEMMA ContainedStep ==
    ASSUME TypeOK, Replies, Sequential, Storing, Contained, [Next]_vars
    PROVE  Contained'
<1>1. CASE \E t \in Tasks : CallFails(t)
  BY <1>1, Numbers DEF CallFails, Goes, Spend, TypeOK, Replies, Storing,
     Contained, TasksOf, loop, meter, table
<1>2. CASE \E t \in Tasks : WriteUsage(t)
  BY <1>2, Numbers DEF WriteUsage, Goes, Free, Spend, TypeOK, Replies, Storing,
     Contained, TasksOf, loop, meter, table
<1>3. CASE \E d \in Drives : Gather(d)
  BY <1>3, Numbers DEF Gather, TypeOK, Replies, Storing, Contained, TasksOf,
     loop, meter, table
<1>4. CASE \E d \in Drives : Persist(d)
  BY <1>4, Numbers DEF Persist, TypeOK, Replies, Storing, Contained, TasksOf,
     loop, meter, table
<1>5. CASE \E d \in Drives : StoreFails(d)
  BY <1>5, Numbers DEF StoreFails, Spend, TypeOK, Replies, Storing, Contained,
     TasksOf, loop, meter, table
<1>6. CASE \E d \in Drives : Abort(d)
  BY <1>6, Numbers DEF Abort, TypeOK, Replies, Storing, Contained, TasksOf,
     loop, meter, table
<1>7. CASE \E d \in Drives : Cancel(d)
  BY <1>7, Numbers DEF Cancel, Spend, Active, Free, TypeOK, Replies, Storing,
     Contained, TasksOf, loop, meter, table
<1>8. CASE \E d \in Drives : Retry(d)
  <2>1. PICK d \in Drives : Retry(d)
    BY <1>8
  <2>2. /\ drive[d] \in {"failed", "cancelled"} /\ d + 1 \in Drives /\ drive[d + 1] = "none"
        /\ drive' = [drive EXCEPT ![d + 1] = "running"]
        /\ task' = [t \in Tasks |-> IF t[1] = d + 1 THEN "waiting" ELSE task[t]]
        /\ UNCHANGED <<reply, rounds, locked, seen, usage, counted, evidence, artifacts, cited, missing, spent>>
    BY <2>1 DEF Retry, loop, meter, table
  <2>3. haunted => haunted'
    BY <2>1 DEF Retry
  <2>4. \A e \in Drives : drive'[e] = "failed" => drive[e] = "failed"
    BY <2>2 DEF TypeOK
  <2>5. QED
    BY <2>2, <2>3, <2>4 DEF Contained
<1>9. CASE UNCHANGED <<drive, haunted, spent>>
  BY <1>9 DEF Contained
<1>10. QED
  BY <1>1, <1>2, <1>3, <1>4, <1>5, <1>6, <1>7, <1>8, <1>9 DEF Next, TaskStep,
     DriveStep, vars, loop, meter, table, Enter, Answer, FindSource,
     InsertSource, FindNothing, ReadUsage

-----------------------------------------------------------------------------
(* The theorems.                                                           *)

\* The invariant holds at the start.
LEMMA InitInv == Init => FanoutInv
<1>1. SUFFICES ASSUME Init PROVE FanoutInv
  OBVIOUS
<1>2. /\ drive \in [Drives -> {"none", "running"}]
      /\ \A d \in Drives : drive[d] = IF d = 1 THEN "running" ELSE "none"
  BY <1>1 DEF Init
<1>3. /\ task \in [Tasks -> {"none", "waiting"}]
      /\ \A t \in Tasks : task[t] = IF t[1] = 1 THEN "waiting" ELSE "none"
  BY <1>1 DEF Init
<1>4. TypeOK
  <2>1. drive \in [Drives -> {"none", "running", "persisting", "done", "failed", "cancelled"}]
    BY <1>2
  <2>2. task \in [Tasks -> Steps]
    BY <1>3 DEF Steps, Over
  <2>3. haunted \in BOOLEAN
    BY <1>1 DEF Init
  <2>4. /\ reply \in [Tasks -> {"none", "find", "output", "done", "failed"} \cup Sources]
        /\ rounds \in [Tasks -> 0 .. MaxIterations]
        /\ locked \in [Drives -> SUBSET Tasks]
        /\ seen \in [Drives -> Nat]
    BY <1>1, Numbers DEF Init, Free
  <2>5. /\ usage \in Nat /\ counted \in Nat
        /\ evidence \subseteq Sources /\ cited \subseteq Sources /\ missing \subseteq Sources
        /\ artifacts \in 0 .. MaxDrives
        /\ spent \in [failures : 0 .. MaxFailures, cancels : 0 .. MaxCancels]
    BY <1>1, Numbers DEF Init
  <2>6. QED
    BY <2>1, <2>2, <2>3, <2>4, <2>5 DEF TypeOK
<1>5. UsageExact /\ EvidenceKept /\ WholeStage
  BY <1>1 DEF Init, UsageExact, EvidenceKept, WholeStage
<1>6. Contained /\ Storing
  BY <1>2 DEF Contained, Storing
<1>7. Replies
  BY <1>1, <1>3 DEF Init, Replies, Answered
<1>8. Sequential
  <2>1. \A d, e \in Drives : d < e => drive[e] = "none"
    BY <1>2, Numbers
  <2>2. QED
    BY <2>1, <1>2, <1>3, Numbers DEF Sequential
<1>9. Latest
  <2>1. \A e \in Drives, t \in Tasks : t[1] < e => drive[e] = "none"
    BY <1>2, Numbers
  <2>2. QED
    BY <2>1 DEF Latest, Active
<1>10. Metered
  BY <1>3 DEF Metered
<1>11. QED
  BY <1>4, <1>5, <1>6, <1>7, <1>8, <1>9, <1>10 DEF FanoutInv

\* Every step keeps the invariant.
LEMMA StepInv == ASSUME FanoutInv, [Next]_vars PROVE FanoutInv'
BY TypeStep, RepliesStep, SequentialStep, LatestStep, MeteredStep, StoringStep, OutputStep,
   ContainedStep
   DEF FanoutInv

\* The invariant holds of every reachable state.
THEOREM Safe == Spec => []FanoutInv
<1>1. QED
  BY InitInv, StepInv, PTL DEF Spec

\* Every reachable state is well typed: no worker calls its model more often than allowed.
THEOREM TypeCorrect == Spec => []TypeOK
<1>1. FanoutInv => TypeOK
  BY DEF FanoutInv
<1>2. QED
  BY <1>1, Safe, PTL

\* The usage counts every call, unless a retry met workers of an earlier drive.
THEOREM UsageKept == Spec => []UsageExact
<1>1. FanoutInv => UsageExact
  BY DEF FanoutInv
<1>2. QED
  BY <1>1, Safe, PTL

\* What the stored output cites is in the evidence table.
THEOREM EvidenceStored == Spec => []EvidenceKept
<1>1. FanoutInv => EvidenceKept
  BY DEF FanoutInv
<1>2. QED
  BY <1>1, Safe, PTL

\* The stored output is that of a drive all of whose workers succeeded.
THEOREM StageWhole == Spec => []WholeStage
<1>1. FanoutInv => WholeStage
  BY DEF FanoutInv
<1>2. QED
  BY <1>1, Safe, PTL

\* A drive fails by a failing call, or by the workers of an earlier one.
THEOREM FailuresContained == Spec => []Contained
<1>1. FanoutInv => Contained
  BY DEF FanoutInv
<1>2. QED
  BY <1>1, Safe, PTL

=============================================================================
