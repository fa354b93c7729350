------------------------------ MODULE Artifacts -------------------------------
(* What the nodes of a run write and what its page shows of it: the artifacts  *)
(* of a stage's workers and their evidence, from the paths the models chose to *)
(* the tables, the graph's state and the artifact_update events                *)
(* (nodes/stage.py), the retry that reads the tables again, the framing, which *)
(* stores the questionnaire outside of the drives, and the report and the      *)
(* sources the page fetches whenever it hears of an artifact                   *)
(* (ReportView.tsx, SourcesSidebar.tsx, api/runs.py).                          *)
(*                                                                             *)
(* Fanout has the workers, Pipeline the order of the nodes and EventStream the *)
(* delivery of the events: here any node may come next, a pass of a stage has  *)
(* any of its workers, and the page hears of the events in order.              *)
EXTENDS Naturals, Sequences, FiniteSets

CONSTANTS
    Stages,       \* stage slugs
    Slugs,        \* worker slugs
    Crew,         \* the workers of each stage, in the order of the profile
    Segments,     \* what paths consist of: a path is a sequence of segments
    PathInputs,   \* the paths models give
    Up, Blank,    \* the segments ".." and ""
    Report, Audit, Questionnaire,   \* REPORT_PATH, AUDIT_PATH, QUESTIONNAIRE_PATH
    Author,       \* the agents of the nodes that write these
    None,         \* no path, no row
    Error,        \* what a view shows when its request failed
    MaxArtifacts, \* bound on the artifacts of one pass
    MaxPasses,    \* bound on the passes of stages and synthesis
    MaxFaults,    \* bound on the failures and cancellations of a drive
    MaxEvidence,  \* bound on the evidence rows
    MaxFetches    \* bound on the requests the browser has open

ASSUME ArtifactsAssumption ==
    /\ Crew \in [Stages -> Seq(Slugs)]
    /\ PathInputs \subseteq Seq(Segments) \ {<<>>}
    /\ Stages \cup Slugs \subseteq Segments \ {Up, Blank}
    /\ DOMAIN Author = {Report, Audit, Questionnaire}
    /\ Questionnaire \notin {Report, Audit}
    /\ \A p \in DOMAIN Author :
         /\ p \in Seq(Segments) \ {<<>>} /\ p[1] \notin Stages
         /\ \A i \in DOMAIN p : p[i] # Up
    /\ MaxArtifacts \in Nat /\ MaxPasses \in Nat /\ MaxFaults \in Nat
    /\ MaxEvidence \in Nat /\ MaxFetches \in Nat

VARIABLES
    table,     \* the artifacts table: what is stored under a path
    evidence,  \* how many evidence rows the run has
    mem,       \* artifacts in the state of the graph
    node,      \* the node at work
    framing,   \* how far the framing is
    events,    \* the artifact_update events of the run
    cut,       \* history: paths a drive stored without announcing them, and stopped
    seen,      \* how many of the events the page has seen
    which,     \* the view of the page, the report or the sources
    fetch,     \* its requests, oldest first
    view,      \* what it shows
    passes, faults   \* bookkeeping for the bounds

drive == <<table, evidence, mem, node, framing, events, cut, passes, faults>>
page  == <<seen, which, fetch, view>>
vars  == <<drive, page>>

Nothing == [p \in {} |-> None]

Ready == [pc |-> "ready", files |-> <<>>, at |-> 1, rows |-> Nothing, merged |-> Nothing]

Views == {"report", "sources"}

Sent == [at |-> "sent", reply |-> None, live |-> TRUE]

Init ==
    /\ table = Nothing
    /\ evidence = 0
    /\ mem = Nothing
    /\ node = Ready
    /\ framing = "asking"
    /\ events = <<>>
    /\ cut = {}
    /\ seen = 0
    /\ which \in Views
    /\ fetch = <<Sent>>
    /\ view = None
    /\ passes = 0
    /\ faults = 0

-------------------------------------------------------------------------------
(* The outputs of a stage.                                                     *)

Strip(path, slug) == IF Len(path) > 1 /\ Head(path) = slug THEN Tail(path) ELSE path

BugPrefixedWorkerPath(s, w, path) ==    \* a path below the stage is taken as it is
    IF Head(path) = Blank \/ \E i \in DOMAIN path : path[i] = Up THEN None
    ELSE IF Len(path) > 1 /\ Head(path) = s THEN path
    ELSE <<s, w>> \o Strip(path, w)

(* Where an artifact of worker w of stage s is stored: below s/w, or nowhere   *)
(* (ValueError).  A path that has the whole prefix already loses it here and   *)
(* gets it back.                                                               *)
_prefixed_worker_path(s, w, path) ==
    LET clean == Strip(Strip(path, s), w) IN
    IF \/ Head(path) = Blank \/ clean = <<Blank>>
       \/ \E i \in DOMAIN clean : clean[i] = Up
    THEN None
    ELSE <<s, w>> \o clean

UpTo(n, S) == UNION {[1 .. k -> S] : k \in 0 .. n}

(* What the workers of a pass wrote, one worker after the other.               *)
InOrder(s, outputs) ==
    \A i, j \in DOMAIN outputs : i <= j =>
        \E m, n \in DOMAIN Crew[s] :
            m <= n /\ Crew[s][m] = outputs[i].worker /\ Crew[s][n] = outputs[j].worker

_merge_worker_outputs(s, outputs) ==
    [i \in DOMAIN outputs |->
        [path |-> _prefixed_worker_path(s, outputs[i].worker, outputs[i].path),
         content |-> [by |-> <<s, outputs[i].worker>>, pass |-> passes, nth |-> i]]]

Work(files) ==
    node' = [pc |-> "persist", files |-> files, at |-> 1, rows |-> Nothing, merged |-> mem]

Stop == node' = [Ready EXCEPT !.pc = "stopped"]

(* A pass of some workers of a stage, all of them gathered: one path that is   *)
(* refused fails the drive, whatever the others did.                           *)
Gather(s) ==
    /\ node.pc = "ready" /\ passes < MaxPasses
    /\ passes' = passes + 1
    /\ \E outputs \in UpTo(MaxArtifacts, [worker : Slugs, path : PathInputs]) :
         LET files == _merge_worker_outputs(s, outputs) IN
         /\ InOrder(s, outputs)
         /\ IF \E i \in DOMAIN files : files[i].path = None THEN Stop ELSE Work(files)
    /\ UNCHANGED <<table, evidence, mem, framing, events, cut, faults, page>>

(* The synthesis has its report (Report), or the audit its text.               *)
Conclude(path) ==
    /\ node.pc = "ready" /\ passes < MaxPasses
    /\ passes' = passes + 1
    /\ Work(<<[path |-> path, content |-> [by |-> <<Author[path]>>, pass |-> passes, nth |-> 1]]>>)
    /\ UNCHANGED <<table, evidence, mem, framing, events, cut, faults, page>>

-------------------------------------------------------------------------------
(* _persist_stage_output.                                                      *)

Put(t, path, content) ==
    [p \in DOMAIN t \cup {path} |-> IF p = path THEN content ELSE t[p]]

File == node.files[node.at]
Left == {node.files[i].path : i \in node.at .. Len(node.files)}

(* One row is looked up and inserted or updated, in the transaction.           *)
PersistRow ==
    /\ node.pc = "persist" /\ node.at <= Len(node.files)
    /\ node' = [node EXCEPT !.at = @ + 1, !.rows = Put(@, File.path, File.content),
                            !.merged = Put(@, File.path, File.content)]
    /\ UNCHANGED <<table, evidence, mem, framing, events, cut, passes, faults, page>>

Upsert(t, rows) ==
    [p \in DOMAIN t \cup DOMAIN rows |-> IF p \in DOMAIN rows THEN rows[p] ELSE t[p]]

(* The commit, with the evidence the output claims.                            *)
Stored == table' = Upsert(table, node.rows) /\ evidence' \in evidence .. MaxEvidence

Commit ==
    /\ node.pc = "persist" /\ node.at > Len(node.files)
    /\ Stored
    /\ node' = [node EXCEPT !.pc = "announce", !.at = 1]
    /\ UNCHANGED <<mem, framing, events, cut, passes, faults, page>>

(* Who an event says wrote the artifact: artifact_agents.                      *)
Agent(path) == IF path \in DOMAIN Author THEN <<Author[path]>> ELSE SubSeq(path, 1, 2)

Event(path) == [path |-> path, agent |-> Agent(path), known |-> evidence]

Announce ==
    /\ node.pc = "announce" /\ node.at <= Len(node.files)
    /\ events' = Append(events, Event(File.path))
    /\ cut' = cut \ {File.path}
    /\ node' = [node EXCEPT !.at = @ + 1]
    /\ UNCHANGED <<table, evidence, mem, framing, passes, faults, page>>

(* The node returns: its update becomes the state of the graph.                *)
Return ==
    /\ node.pc = "announce" /\ node.at > Len(node.files)
    /\ mem' = node.merged
    /\ node' = Ready
    /\ UNCHANGED <<table, evidence, framing, events, cut, passes, faults, page>>

Fault == faults < MaxFaults /\ faults' = faults + 1 /\ Stop

(* A query or the commit fails, or the run is cancelled: a commit that reports *)
(* a failure may have happened.                                                *)
PersistFails ==
    /\ node.pc = "persist"
    /\ Fault
    /\ \/ UNCHANGED <<table, evidence, cut>>
       \/ node.at > Len(node.files) /\ Stored /\ cut' = cut \cup {node.files[i].path : i \in DOMAIN node.files}
    /\ UNCHANGED <<mem, framing, events, passes, page>>

(* A publish fails, of an artifact or of a message behind them, or the run is  *)
(* cancelled.                                                                  *)
AnnounceFails ==
    /\ node.pc = "announce"
    /\ Fault
    /\ cut' = cut \cup Left
    /\ UNCHANGED <<table, evidence, mem, framing, events, passes, page>>

BugRetry ==                       \* the retry goes on with the state it had
    /\ node.pc = "stopped"
    /\ node' = Ready
    /\ UNCHANGED <<table, evidence, mem, framing, events, cut, passes, faults, page>>

(* _reconstruct_retry_state: the tables are read again.                        *)
Retry ==
    /\ node.pc = "stopped"
    /\ mem' = table
    /\ node' = Ready
    /\ UNCHANGED <<table, evidence, framing, events, cut, passes, faults, page>>

(* A search tool of a worker registers a hit (Report).                         *)
Register ==
    /\ evidence < MaxEvidence
    /\ evidence' = evidence + 1
    /\ UNCHANGED <<table, mem, node, framing, events, cut, passes, faults, page>>

-------------------------------------------------------------------------------
(* The framing: a task of its own, once per run.  Answers are accepted as soon *)
(* as the run exists, so a drive may be ahead of it.  One that fails or is     *)
(* cancelled, or whose commit only reports a failure, goes no further.         *)

Asked == Put(table, Questionnaire, [by |-> <<Author[Questionnaire]>>, pass |-> 0, nth |-> 1])

StoreQuestionnaire ==
    /\ framing = "asking"
    /\ framing' = "stored"
    /\ table' = Asked
    /\ UNCHANGED <<evidence, mem, node, events, cut, passes, faults, page>>

AnnounceQuestionnaire ==
    /\ framing = "stored"
    /\ framing' = "over"
    /\ events' = Append(events, Event(Questionnaire))
    /\ UNCHANGED <<table, evidence, mem, node, cut, passes, faults, page>>

-------------------------------------------------------------------------------
(* The page.  Both of its views fetch when they are mounted and when the latest *)
(* event they look for is another one, and each minds its own requests only:   *)
(* here the page has one of them.                                              *)

Watched(e) == which = "sources" \/ e.path = Report

BugOvertaken(requests) == requests      \* no cleanup of the effect

(* A request that a newer one overtakes will be ignored.                       *)
Overtaken(requests) == [i \in DOMAIN requests |-> [requests[i] EXCEPT !.live = FALSE]]

(* A rendering may have several new events.                                    *)
Render ==
    /\ \E n \in seen + 1 .. Len(events) :
         /\ seen' = n
         /\ IF \E i \in seen + 1 .. n : Watched(events[i])
            THEN Len(fetch) < MaxFetches /\ fetch' = Append(Overtaken(fetch), Sent)
            ELSE UNCHANGED fetch
    /\ UNCHANGED <<drive, which, view>>

(* A 404 without a row of that path.                                           *)
GetArtifact(path) == IF path \in DOMAIN table THEN table[path] ELSE None

(* All the rows of the run; here only how many there are.                      *)
ListEvidence == evidence

Answer == IF which = "sources" THEN ListEvidence ELSE GetArtifact(Report)

Serve ==
    /\ \E i \in DOMAIN fetch, reply \in {Answer, Error} :
         /\ fetch[i].at = "sent"
         /\ fetch' = [fetch EXCEPT ![i].at = "answered", ![i].reply = reply]
    /\ UNCHANGED <<drive, seen, which, view>>

Without(requests, i) == SubSeq(requests, 1, i - 1) \o SubSeq(requests, i + 1, Len(requests))

Arrive ==
    /\ \E i \in DOMAIN fetch :
         /\ fetch[i].at = "answered"
         /\ fetch' = Without(fetch, i)
         /\ view' = IF fetch[i].live THEN fetch[i].reply ELSE view
    /\ UNCHANGED <<drive, seen, which>>

Node ==
    \/ \E s \in Stages : Gather(s)
    \/ \E path \in {Report, Audit} : Conclude(path)
    \/ PersistRow \/ Commit \/ Announce \/ Return

Framing == StoreQuestionnaire \/ AnnounceQuestionnaire

View == Render \/ Serve \/ Arrive

Next == Node \/ PersistFails \/ AnnounceFails \/ Retry \/ Register \/ Framing \/ View

Spec == Init /\ [][Next]_vars

-------------------------------------------------------------------------------
(* Correctness                                                                 *)

Agents == {<<s, w>> : s \in Stages, w \in Slugs} \cup {<<Author[p]>> : p \in DOMAIN Author}
Contents == [by : Agents, pass : 0 .. MaxPasses, nth : Nat]

Tables(t) ==
    /\ DOMAIN t \subseteq Seq(Segments)
    /\ \A p \in DOMAIN t : t[p] \in Contents

TypeOK ==
    /\ Tables(table) /\ Tables(mem) /\ Tables(node.rows) /\ Tables(node.merged)
    /\ evidence \in 0 .. MaxEvidence
    /\ node.pc \in {"ready", "persist", "announce", "stopped"}
    /\ framing \in {"asking", "stored", "over"}
    /\ node.files \in Seq([path : Seq(Segments), content : Contents])
    /\ node.at \in 1 .. Len(node.files) + 1
    /\ events \in Seq([path : Seq(Segments), agent : Agents, known : 0 .. MaxEvidence])
    /\ cut \subseteq Seq(Segments)
    /\ seen \in 0 .. Len(events)
    /\ which \in Views
    /\ passes \in 0 .. MaxPasses
    /\ faults \in 0 .. MaxFaults

(* An artifact is stored below its stage and its worker and goes nowhere from  *)
(* there: no worker, whatever paths its model makes up, writes another's       *)
(* artifact, the report, the audit or the questionnaire, and an event names the one who wrote what it is     *)
(* about (stage.py:145, 427).                                                  *)
Owned ==
    /\ \A p \in DOMAIN table : Agent(p) = table[p].by /\ \A i \in DOMAIN p : p[i] # Up
    /\ \A i \in DOMAIN events : /\ events[i].path \in DOMAIN table
                                /\ events[i].agent = table[events[i].path].by

(* Types, and owners: what holds of the outputs in every reachable state.      *)
ArtifactsInv == TypeOK /\ Owned

(* What a node knows: nothing but what is stored, and of that everything but   *)
(* the questionnaire, which a drive may start without (run_worker.py:217).     *)
Knows(artifacts) ==
    /\ DOMAIN table \ {Questionnaire} \subseteq DOMAIN artifacts
    /\ \A p \in DOMAIN artifacts : p \in DOMAIN table /\ artifacts[p] = table[p]

(* Between two nodes the graph knows all that stages, synthesis and audit have *)
(* stored, and whatever it knows it knows as it is stored, whatever drives     *)
(* were cut short before: what the next node reads is what a reader of the     *)
(* tables finds (stage.py:277, 519, framing.py:60, run_worker.py:419).         *)
MemAgrees == node.pc = "ready" => Knows(mem)

Pending == IF node.pc = "announce" THEN Left ELSE {}

(* A page that is not waiting for anything shows the report that is stored,    *)
(* and the sources the run had when its last artifact was announced at least,  *)
(* in whatever order its requests were answered, unless the last one failed or *)
(* a drive stopped between the commit of the report and its event              *)
(* (ReportView.tsx:24, SourcesSidebar.tsx:36).                                 *)
PageCurrent ==
    seen = Len(events) /\ fetch = <<>> /\ view # Error =>
        /\ which = "report" /\ Report \notin cut \cup Pending => view = GetArtifact(Report)
        /\ which = "sources" /\ events # <<>> => view >= events[Len(events)].known
===============================================================================
