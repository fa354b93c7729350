--------------------------- MODULE ArtifactsProofs ---------------------------
(***************************************************************************)
(* The artifacts of a run and its page, for any profile, any paths the     *)
(* models give, any number of passes, failures and requests.               *)
(***************************************************************************)
EXTENDS Artifacts, SequenceTheorems, TLAPS

\* A content is of the agent its path names, and the path leads nowhere else.
Fine(path, content) ==
    /\ Agent(path) = content.by
    /\ \A i \in DOMAIN path : path[i] # Up

Sound(t) == \A p \in DOMAIN t : Fine(p, t[p])

FileRecords == [path : Seq(Segments), content : Contents]
Requests == [at : {"sent", "answered"}, reply : Contents \cup Nat \cup {None, Error},
             live : BOOLEAN]

\* The node is a record, well typed, and what it holds is where it belongs.
NodeOK ==
    /\ node = [pc |-> node.pc, files |-> node.files, at |-> node.at,
               rows |-> node.rows, merged |-> node.merged]
    /\ node.pc \in {"ready", "persist", "announce", "stopped"}
    /\ node.files \in Seq(FileRecords) /\ node.at \in 1 .. Len(node.files) + 1
    /\ Tables(node.rows) /\ Tables(node.merged)
    /\ Sound(node.rows) /\ Sound(node.merged)
    /\ \A i \in DOMAIN node.files : /\ Fine(node.files[i].path, node.files[i].content)
                                   /\ node.files[i].path # Questionnaire

\* What is in t under a path, if anything.
At(t, path) == IF path \in DOMAIN t THEN t[path] ELSE None

Done(path) == \E i \in DOMAIN node.files : i < node.at /\ node.files[i].path = path

\* What a node knows is what is stored, but for its own files while it stores
\* them; what it announces is stored.  The questionnaire is stored by nobody else.
Agreement ==
    /\ node.pc \in {"ready", "persist"} => Knows(mem)
    /\ node.pc = "persist" =>
         /\ DOMAIN node.merged = DOMAIN mem \cup DOMAIN node.rows
         /\ \A p \in DOMAIN node.merged :
              node.merged[p] = IF p \in DOMAIN node.rows THEN node.rows[p] ELSE mem[p]
         /\ \A i \in DOMAIN node.files : i < node.at => node.files[i].path \in DOMAIN node.rows
         /\ Questionnaire \notin DOMAIN node.rows
         /\ Report \in DOMAIN node.rows => Done(Report)
    /\ node.pc = "announce" =>
         /\ Knows(node.merged)
         /\ \A i \in DOMAIN node.files : node.files[i].path \in DOMAIN table
    /\ Questionnaire \in DOMAIN table <=> framing # "asking"

\* Events are about what is stored, and about evidence that is there.
Told ==
    \A i \in DOMAIN events : /\ events[i].path \in DOMAIN table
                             /\ events[i].agent = Agent(events[i].path)
                             /\ events[i].known <= evidence

TablesSound == Sound(table) /\ Sound(mem)

Inv == TypeOK /\ NodeOK /\ TablesSound /\ Agreement /\ Told /\ fetch \in Seq(Requests)

-----------------------------------------------------------------------------
(* Paths.                                                                  *)

LEMMA Numbers ==
    /\ MaxArtifacts \in Nat /\ MaxPasses \in Nat /\ MaxFaults \in Nat
    /\ MaxEvidence \in Nat /\ MaxFetches \in Nat
BY ArtifactsAssumption

\* Stripping leaves something.
LEMMA Stripped ==
    ASSUME NEW path \in Seq(Segments) \ {<<>>}, NEW x
    PROVE  Strip(path, x) \in Seq(Segments) \ {<<>>}
<1>1. CASE Len(path) > 1 /\ Head(path) = x
  <2>1. Tail(path) \in Seq(Segments) /\ Len(Tail(path)) = Len(path) - 1
    BY HeadTailProperties
  <2>2. Tail(path) # <<>>
    <3> DEFINE q == Tail(path)
    <3>1. Len(q) # 0
      BY <1>1, <2>1, LenProperties
    <3>2. Len(<<>>) = 0
      OBVIOUS
    <3> HIDE DEF q
    <3>3. q # <<>>
      BY <3>1, <3>2, Zenon
    <3>4. QED
      BY <3>3 DEF q
  <2>3. QED
    BY <1>1, <2>1, <2>2 DEF Strip
<1>2. QED
  BY <1>1 DEF Strip

\* A path that is not refused lies below its stage and its worker.
LEMMA Prefixed ==
    ASSUME NEW s \in Stages, NEW w \in Slugs, NEW path \in PathInputs,
           _prefixed_worker_path(s, w, path) # None
    PROVE  LET p == _prefixed_worker_path(s, w, path) IN
           /\ p \in Seq(Segments)
           /\ p # Questionnaire
           /\ Agent(p) = <<s, w>>
           /\ \A i \in DOMAIN p : p[i] # Up
<1> DEFINE clean == Strip(Strip(path, s), w)
           p == <<s, w>> \o clean
<1>1. path \in Seq(Segments) \ {<<>>}
  BY ArtifactsAssumption
<1>2. clean \in Seq(Segments) \ {<<>>}
  BY <1>1, Stripped
<1>3. /\ _prefixed_worker_path(s, w, path) = p
      /\ \A i \in DOMAIN clean : clean[i] # Up
  BY DEF _prefixed_worker_path
<1>4. /\ s \in Segments /\ w \in Segments /\ s # Up /\ w # Up
      /\ <<s, w>> \in Seq(Segments) /\ Len(<<s, w>>) = 2
  BY ArtifactsAssumption
<1> HIDE DEF clean
<1>5. /\ p \in Seq(Segments)
      /\ Len(p) = 2 + Len(clean) /\ DOMAIN p = 1 .. Len(p)
      /\ \A i \in 1 .. Len(p) : p[i] = IF i <= 2 THEN <<s, w>>[i] ELSE clean[i - 2]
  BY <1>2, <1>4, ConcatProperties, LenProperties
<1> HIDE DEF p
<1>6. Len(clean) \in Nat /\ Len(clean) > 0 /\ DOMAIN clean = 1 .. Len(clean)
  BY <1>2, EmptySeq, LenProperties
<1>7. p[1] = s /\ p[2] = w
  BY <1>5, <1>6
<1>8. \A i \in DOMAIN p : p[i] # Up
  <2>1. TAKE i \in DOMAIN p
  <2>2. CASE i <= 2
    BY <1>4, <1>5, <1>7, <2>2
  <2>3. CASE i > 2
    <3>1. i - 2 \in DOMAIN clean /\ p[i] = clean[i - 2]
      BY <1>5, <1>6, <2>3
    <3>2. QED
      BY <1>3, <3>1
  <2>4. QED
    BY <1>5, <1>6, <2>2, <2>3
<1>9. p \notin DOMAIN Author /\ p # Questionnaire
  BY <1>7, ArtifactsAssumption
<1>10. SubSeq(p, 1, 2) = <<s, w>>
  <2>1. /\ SubSeq(p, 1, 2) \in Seq(Segments) /\ Len(SubSeq(p, 1, 2)) = 2
        /\ \A i \in 1 .. 2 : SubSeq(p, 1, 2)[i] = p[i]
    BY <1>5, <1>6
  <2>2. \A i \in 1 .. 2 : SubSeq(p, 1, 2)[i] = <<s, w>>[i]
    BY <1>7, <2>1
  <2> DEFINE q == SubSeq(p, 1, 2)
             r == <<s, w>>
  <2>3. q \in Seq(Segments) /\ r \in Seq(Segments) /\ Len(q) = Len(r) /\ \A i \in 1 .. Len(q) : q[i] = r[i]
    BY <1>4, <2>1, <2>2
  <2> HIDE DEF q, r
  <2>4. q = r
    BY <2>3, SeqEqual
  <2>5. QED
    BY <2>4 DEF q, r
<1>11. QED
  BY <1>3, <1>5, <1>8, <1>9, <1>10 DEF Agent

\* The outputs of the workers of a stage, merged.
LEMMA Merged ==
    ASSUME TypeOK, NEW s \in Stages,
           NEW outputs \in UpTo(MaxArtifacts, [worker : Slugs, path : PathInputs]),
           \A i \in DOMAIN _merge_worker_outputs(s, outputs) :
               _merge_worker_outputs(s, outputs)[i].path # None
    PROVE  LET files == _merge_worker_outputs(s, outputs) IN
           /\ files \in Seq(FileRecords)
           /\ \A i \in DOMAIN files : /\ Fine(files[i].path, files[i].content)
                                     /\ files[i].path # Questionnaire
<1> DEFINE files == _merge_worker_outputs(s, outputs)
<1>1. PICK n \in 0 .. MaxArtifacts : outputs \in [1 .. n -> [worker : Slugs, path : PathInputs]]
  BY DEF UpTo
<1>2. n \in Nat /\ passes \in 0 .. MaxPasses
  BY <1>1, Numbers DEF TypeOK
<1>3. DOMAIN files = 1 .. n /\ files = [i \in 1 .. n |-> files[i]]
  BY <1>1 DEF _merge_worker_outputs
<1>4. ASSUME NEW i \in 1 .. n
      PROVE  /\ files[i] \in FileRecords
             /\ Fine(files[i].path, files[i].content)
             /\ files[i].path # Questionnaire
  <2> DEFINE w == outputs[i].worker
             path == outputs[i].path
  <2>1. w \in Slugs /\ path \in PathInputs
    BY <1>1, <1>4
  <2>2. files[i] = [path |-> _prefixed_worker_path(s, w, path),
                    content |-> [by |-> <<s, w>>, pass |-> passes, nth |-> i]]
    BY <1>1, <1>4 DEF _merge_worker_outputs
  <2>3. _prefixed_worker_path(s, w, path) # None
    BY <1>3, <1>4, <2>2
  <2> HIDE DEF files, w, path
  <2>4. [by |-> <<s, w>>, pass |-> passes, nth |-> i] \in Contents
    BY <1>2, <1>4, <2>1 DEF Contents, Agents
  <2>5. QED
    BY <2>1, <2>2, <2>3, <2>4, Prefixed DEF FileRecords, Fine
<1> HIDE DEF files
<1>5. files \in [1 .. n -> FileRecords]
  BY <1>3, <1>4
<1>6. files \in Seq(FileRecords)
  BY <1>2, <1>5, SeqDef
<1>7. QED
  BY <1>3, <1>4, <1>6 DEF files

\* What the nodes of one author write.
LEMMA Written ==
    ASSUME TypeOK, NEW path \in DOMAIN Author, NEW pass \in 0 .. MaxPasses
    PROVE  LET content == [by |-> <<Author[path]>>, pass |-> pass, nth |-> 1] IN
           /\ path \in Seq(Segments) /\ content \in Contents
           /\ Fine(path, content)
BY ArtifactsAssumption DEF Contents, Agents, Fine, Agent

-----------------------------------------------------------------------------
(* The invariant.  First what the actions make of the node.                *)

\* A node that has nothing left to do, or stopped.
LEMMA Resting ==
    ASSUME NEW pc \in {"ready", "stopped"},
           node' = [pc |-> pc, files |-> <<>>, at |-> 1, rows |-> Nothing, merged |-> Nothing]
    PROVE  NodeOK' /\ node'.pc = pc /\ DOMAIN node'.files = {}
<1>1. DOMAIN Nothing = {}
  BY DEF Nothing
<1>2. Tables(Nothing) /\ Sound(Nothing)
  BY <1>1 DEF Tables, Sound
<1>3. <<>> \in Seq(FileRecords) /\ Len(<<>>) = 0 /\ DOMAIN <<>> = {}
  BY EmptySeq
<1>4. /\ node'.pc = pc /\ node'.files = <<>> /\ node'.at = 1
      /\ node'.rows = Nothing /\ node'.merged = Nothing
  OBVIOUS
<1>5. node' = [pc |-> node'.pc, files |-> node'.files, at |-> node'.at,
               rows |-> node'.rows, merged |-> node'.merged]
  BY <1>4
<1>6. node'.files \in Seq(FileRecords) /\ node'.at \in 1 .. Len(node'.files) + 1
  <2>1. node'.files \in Seq(FileRecords) /\ Len(node'.files) = 0
    BY <1>3, <1>4, Zenon
  <2>2. node'.at \in 1 .. Len(node'.files) + 1
    BY <1>4, <2>1
  <2>3. QED
    BY <2>1, <2>2
<1>7. DOMAIN node'.files = {}
  BY <1>3, <1>4, Zenon
<1>8. Tables(node'.rows) /\ Tables(node'.merged) /\ Sound(node'.rows) /\ Sound(node'.merged)
  BY <1>2, <1>4, Zenon
<1>9. node'.pc \in {"ready", "persist", "announce", "stopped"}
  BY <1>4
<1>10. (Tables(node.rows) /\ Tables(node.merged) /\ Sound(node.rows) /\ Sound(node.merged))'
  BY <1>8 DEF Tables, Sound, Fine, Agent, Contents, Agents
<1>11. QED
  BY <1>4, <1>5, <1>6, <1>7, <1>9, <1>10 DEF NodeOK

\* A file that is put among well-typed and sound rows.
LEMMA PutFile ==
    ASSUME NEW t, NEW path, NEW content
    PROVE  /\ DOMAIN Put(t, path, content) = DOMAIN t \cup {path}
           /\ Put(t, path, content)[path] = content
           /\ \A p \in DOMAIN t : p # path => Put(t, path, content)[p] = t[p]
           /\ Sound(t) /\ Fine(path, content) => Sound(Put(t, path, content))
           /\ Tables(t) /\ path \in Seq(Segments) /\ content \in Contents =>
                  Tables(Put(t, path, content))
<1> DEFINE u == Put(t, path, content)
<1>1. /\ DOMAIN u = DOMAIN t \cup {path}
      /\ \A p \in DOMAIN u : u[p] = IF p = path THEN content ELSE t[p]
  BY DEF Put
<1> HIDE DEF u
<1>2. u[path] = content /\ \A p \in DOMAIN t : p # path => u[p] = t[p]
  BY <1>1
<1>3. Sound(t) /\ Fine(path, content) => Sound(u)
  BY <1>1, <1>2 DEF Sound
<1>4. Tables(t) /\ path \in Seq(Segments) /\ content \in Contents => Tables(u)
  BY <1>1, <1>2 DEF Tables
<1>5. QED
  BY <1>1, <1>2, <1>3, <1>4 DEF u

\* Rows that are put into a table.
LEMMA UpsertRows ==
    ASSUME NEW t, NEW rows
    PROVE  /\ DOMAIN Upsert(t, rows) = DOMAIN t \cup DOMAIN rows
           /\ \A p \in DOMAIN Upsert(t, rows) :
                Upsert(t, rows)[p] = IF p \in DOMAIN rows THEN rows[p] ELSE t[p]
           /\ Sound(t) /\ Sound(rows) => Sound(Upsert(t, rows))
           /\ Tables(t) /\ Tables(rows) => Tables(Upsert(t, rows))
<1> DEFINE u == Upsert(t, rows)
<1>1. /\ DOMAIN u = DOMAIN t \cup DOMAIN rows
      /\ \A p \in DOMAIN u : u[p] = IF p \in DOMAIN rows THEN rows[p] ELSE t[p]
  BY DEF Upsert
<1> HIDE DEF u
<1>2. Sound(t) /\ Sound(rows) => Sound(u)
  BY <1>1 DEF Sound
<1>3. Tables(t) /\ Tables(rows) => Tables(u)
  BY <1>1 DEF Tables
<1>4. QED
  BY <1>1, <1>2, <1>3 DEF u

\* The file at work.
LEMMA FileAt ==
    ASSUME NodeOK, node.at <= Len(node.files)
    PROVE  /\ node.at \in Nat /\ node.at \in DOMAIN node.files
           /\ Len(node.files) \in Nat /\ DOMAIN node.files = 1 .. Len(node.files)
           /\ File.path \in Seq(Segments) /\ File.content \in Contents
           /\ Fine(File.path, File.content) /\ File.path # Questionnaire
           /\ File.path = node.files[node.at].path
<1>1. /\ Len(node.files) \in Nat /\ DOMAIN node.files = 1 .. Len(node.files)
  BY LenProperties DEF NodeOK
<1>2. node.at \in 1 .. Len(node.files)
  BY <1>1 DEF NodeOK
<1>3. File \in FileRecords
  BY <1>2, ElementOfSeq DEF File, NodeOK
<1>4. QED
  BY <1>1, <1>2, <1>3 DEF FileRecords, File, NodeOK

-----------------------------------------------------------------------------
(* The invariant holds after every step.                                   *)

LEMMA InitInv ==
    ASSUME Init
    PROVE  Inv
<1>1. DOMAIN Nothing = {}
  BY DEF Nothing
<1>2. Tables(Nothing) /\ Sound(Nothing)
  BY <1>1 DEF Tables, Sound
<1>3. <<>> \in Seq(FileRecords) /\ Len(<<>>) = 0 /\ DOMAIN <<>> = {}
  BY EmptySeq
<1>4. /\ node.pc = "ready" /\ node.files = <<>> /\ node.at = 1
      /\ node.rows = Nothing /\ node.merged = Nothing
  BY DEF Init, Ready
<1>5. NodeOK
  BY <1>2, <1>3, <1>4 DEF NodeOK, Init, Ready
<1>6. TypeOK
  <2>1. Tables(table) /\ Tables(mem) /\ cut = {} /\ which \in Views
    BY <1>2 DEF Init
  <2>2. events \in Seq([path : Seq(Segments), agent : Agents, known : 0 .. MaxEvidence]) /\ Len(events) = 0
    BY EmptySeq DEF Init
  <2>3. evidence \in 0 .. MaxEvidence /\ passes \in 0 .. MaxPasses /\ faults \in 0 .. MaxFaults /\ seen \in 0 .. Len(events)
    BY <2>2, Numbers DEF Init
  <2>4. QED
    BY <1>5, <2>1, <2>2, <2>3 DEF Init, TypeOK, NodeOK, FileRecords
<1>7. TablesSound /\ Agreement /\ Told
  BY <1>1, <1>2, <1>4 DEF Init, TablesSound, Agreement, Knows, Told
<1>8. fetch \in Seq(Requests)
  BY DEF Init, Sent, Requests
<1>9. QED
  BY <1>5, <1>6, <1>7, <1>8 DEF Inv

\* What is known of an event.
LEMMA EventAt ==
    ASSUME TypeOK
    PROVE  /\ Len(events) \in Nat /\ DOMAIN events = 1 .. Len(events)
           /\ \A i \in DOMAIN events : /\ events[i].path \in Seq(Segments)
                                       /\ events[i].known \in Nat
<1>1. events \in Seq([path : Seq(Segments), agent : Agents, known : 0 .. MaxEvidence])
  BY DEF TypeOK
<1>2. Len(events) \in Nat /\ DOMAIN events = 1 .. Len(events)
  BY <1>1, LenProperties
<1>3. \A i \in DOMAIN events : events[i] \in [path : Seq(Segments), agent : Agents, known : 0 .. MaxEvidence]
  BY <1>1, <1>2, ElementOfSeq
<1>4. QED
  BY <1>2, <1>3, Numbers

\* A step that leaves the node and the tables alone.
LEMMA StillInv ==
    ASSUME Inv, UNCHANGED <<table, mem, node, framing>>, seen' \in 0 .. Len(events'), which' = which,
           events' = events, cut' = cut, evidence' \in evidence .. MaxEvidence,
           passes' \in 0 .. MaxPasses, faults' \in 0 .. MaxFaults, fetch' \in Seq(Requests)
    PROVE  Inv'
<1>1. NodeOK' /\ TablesSound' /\ Agreement'
  BY DEF Inv, NodeOK, TablesSound, Agreement, Knows, Tables, Sound, Fine, Agent, Contents, Agents, At, Done
<1>2. evidence' \in 0 .. MaxEvidence /\ evidence <= evidence'
  BY Numbers DEF Inv, TypeOK
<1>3. TypeOK'
  BY <1>2 DEF Inv, TypeOK, Tables, Contents, Agents
<1>4. Told'
  <2>1. \A i \in DOMAIN events : events[i].known \in Nat /\ evidence \in Nat /\ evidence' \in Nat
    BY <1>2, EventAt, Numbers DEF Inv, TypeOK
  <2>2. QED
    BY <1>2, <2>1 DEF Inv, Told, Agent
<1>5. QED
  BY <1>1, <1>3, <1>4 DEF Inv

\* A drive begins to store its files.
LEMMA WorkInv ==
    ASSUME Inv, node.pc = "ready", NEW files \in Seq(FileRecords), Work(files),
           \A i \in DOMAIN files : /\ Fine(files[i].path, files[i].content)
                                  /\ files[i].path # Questionnaire,
           passes' \in 0 .. MaxPasses,
           UNCHANGED <<table, evidence, mem, framing, events, cut, faults, page>>
    PROVE  Inv'
<1>1. /\ node'.pc = "persist" /\ node'.files = files /\ node'.at = 1
      /\ node'.rows = Nothing /\ node'.merged = mem
  BY DEF Work
<1>2. node' = [pc |-> node'.pc, files |-> node'.files, at |-> node'.at,
               rows |-> node'.rows, merged |-> node'.merged]
  BY <1>1 DEF Work
<1>3. Len(files) \in Nat
  BY LenProperties
<1>11. DOMAIN Nothing = {}
  BY DEF Nothing
<1>12. Tables(Nothing) /\ Sound(Nothing)
  BY <1>11 DEF Tables, Sound
<1>4. NodeOK'
  BY <1>1, <1>2, <1>3, <1>12 DEF Inv, NodeOK, TablesSound, TypeOK, Tables, Sound, Fine, Agent, Contents, Agents
<1>5. DOMAIN files = 1 .. Len(files) /\ Knows(mem)
  BY LenProperties DEF Inv, Agreement
<1>6. Agreement'
  BY <1>1, <1>3, <1>5, <1>11 DEF Inv, Agreement, Knows
<1>7. TypeOK'
  BY <1>4 DEF Inv, TypeOK, NodeOK, Tables, Contents, Agents, FileRecords, page
<1>8. TablesSound' /\ Told' /\ fetch' \in Seq(Requests)
  BY DEF Inv, TablesSound, Told, Sound, Fine, Agent, page
<1>9. QED
  BY <1>4, <1>6, <1>7, <1>8 DEF Inv

\* A drive ends: nothing, or everything it had stored, is in the tables.
LEMMA StopInv ==
    ASSUME Inv, Stop, passes' \in 0 .. MaxPasses, faults' \in 0 .. MaxFaults,
           cut' \subseteq Seq(Segments),
           \/ UNCHANGED <<table, evidence>>
           \/ node.pc = "persist" /\ Stored,
           UNCHANGED <<mem, framing, events, page>>
    PROVE  Inv'
<1>1. node' = [pc |-> "stopped", files |-> <<>>, at |-> 1, rows |-> Nothing, merged |-> Nothing]
  BY DEF Stop, Ready
<1>2. NodeOK' /\ node'.pc = "stopped" /\ DOMAIN node'.files = {}
  BY <1>1, Resting
<1>3. \/ table' = table
      \/ node.pc = "persist" /\ table' = Upsert(table, node.rows)
  BY DEF Stored
<1>4. /\ DOMAIN table \subseteq DOMAIN table'
      /\ Questionnaire \in DOMAIN table' <=> Questionnaire \in DOMAIN table
  <2>1. DOMAIN Upsert(table, node.rows) = DOMAIN table \cup DOMAIN node.rows
    BY Zenon, UpsertRows
  <2>2. node.pc = "persist" => Questionnaire \notin DOMAIN node.rows
    BY DEF Inv, Agreement
  <2>3. \/ DOMAIN table' = DOMAIN table
        \/ DOMAIN table' = DOMAIN Upsert(table, node.rows) /\ node.pc = "persist"
    BY <1>3
  <2>4. QED
    BY <2>1, <2>2, <2>3
<1>5. (Tables(table) /\ Sound(table))'
  <2>1. Tables(table) /\ Sound(table) /\ Tables(node.rows) /\ Sound(node.rows)
    BY DEF Inv, TypeOK, NodeOK, TablesSound
  <2>2. Tables(Upsert(table, node.rows)) /\ Sound(Upsert(table, node.rows))
    BY <2>1, UpsertRows
  <2>3. Tables(table') /\ Sound(table')
    BY <1>3, <2>1, <2>2
  <2>4. QED
    BY <2>3 DEF Tables, Sound, Fine, Agent, Contents, Agents
<1>6. evidence' \in 0 .. MaxEvidence /\ evidence <= evidence' /\ evidence \in Nat
  BY Numbers DEF Inv, TypeOK, Stored
<1>7. Agreement'
  BY <1>2, <1>4 DEF Inv, Agreement
<1>8. TypeOK'
  BY <1>2, <1>5, <1>6 DEF Inv, TypeOK, NodeOK, Tables, Contents, Agents, FileRecords, page
<1>9. Told'
  <2>1. \A i \in DOMAIN events : events[i].known \in Nat /\ evidence \in Nat /\ evidence' \in Nat
    BY <1>6, EventAt, Numbers DEF Inv
  <2>2. QED
    BY <1>4, <1>6, <2>1 DEF Inv, Told, Agent
<1>10. TablesSound' /\ fetch' \in Seq(Requests)
  BY <1>5 DEF Inv, TablesSound, Sound, Fine, Agent, page
<1>11. QED
  BY <1>2, <1>7, <1>8, <1>9, <1>10 DEF Inv

LEMMA PersistRowInv ==
    ASSUME Inv, PersistRow
    PROVE  Inv'
<1> DEFINE rows == Put(node.rows, File.path, File.content)
           merged == Put(node.merged, File.path, File.content)
<1>1. /\ node.pc = "persist" /\ NodeOK
      /\ node = [pc |-> node.pc, files |-> node.files, at |-> node.at,
                 rows |-> node.rows, merged |-> node.merged]
  BY DEF PersistRow, Inv, NodeOK
<1>2. node' = [pc |-> "persist", files |-> node.files, at |-> node.at + 1,
               rows |-> rows, merged |-> merged]
  BY <1>1 DEF PersistRow
<1>3. /\ node'.pc = "persist" /\ node'.files = node.files /\ node'.at = node.at + 1
      /\ node'.rows = rows /\ node'.merged = merged
      /\ node' = [pc |-> node'.pc, files |-> node'.files, at |-> node'.at,
                  rows |-> node'.rows, merged |-> node'.merged]
  BY <1>2
<1>4. /\ node.at \in Nat /\ node.at \in DOMAIN node.files
      /\ Len(node.files) \in Nat /\ DOMAIN node.files = 1 .. Len(node.files)
      /\ File.path \in Seq(Segments) /\ File.content \in Contents
      /\ Fine(File.path, File.content) /\ File.path # Questionnaire
      /\ File.path = node.files[node.at].path
  BY <1>1, FileAt DEF PersistRow
<1>5. /\ Sound(rows) /\ Tables(rows) /\ Sound(merged) /\ Tables(merged)
  BY <1>1, <1>4, PutFile DEF NodeOK
<1>6. /\ DOMAIN rows = DOMAIN node.rows \cup {File.path}
      /\ \A p \in DOMAIN rows : rows[p] = IF p = File.path THEN File.content ELSE node.rows[p]
      /\ DOMAIN merged = DOMAIN node.merged \cup {File.path}
      /\ \A p \in DOMAIN merged : merged[p] = IF p = File.path THEN File.content ELSE node.merged[p]
  BY DEF Put
<1> HIDE DEF rows, merged
<1>7. NodeOK'
  <2>1. Sound(node'.rows) /\ Tables(node'.rows) /\ Sound(node'.merged) /\ Tables(node'.merged)
    BY <1>3, <1>5
  <2>2. node'.files \in Seq(FileRecords) /\ node'.at \in 1 .. Len(node'.files) + 1
    BY <1>1, <1>3, <1>4 DEF NodeOK
  <2>3. QED
    BY <1>1, <1>3, <2>1, <2>2 DEF NodeOK, Tables, Sound, Fine, Agent, Contents, Agents
<1>8. Agreement'
  <2>1. \A i \in DOMAIN node.files : i < node.at + 1 => i < node.at \/ i = node.at
    BY <1>4
  <2>2. \A i \in DOMAIN node.files : i < node.at + 1 => node.files[i].path \in DOMAIN rows
    BY <1>1, <1>4, <1>6, <2>1 DEF Inv, Agreement
  <2>3. Report \in DOMAIN rows => Done(Report)'
    <3>1. CASE File.path = Report
      <4>1. node.at < node.at + 1
        BY <1>4
      <4>2. QED
        BY <1>3, <1>4, <3>1, <4>1 DEF Done
    <3>2. CASE Done(Report)
      <4>1. \A i \in DOMAIN node.files : i < node.at => i < node.at + 1
        BY <1>4
      <4>2. QED
        BY <1>3, <3>2, <4>1 DEF Done
    <3>3. QED
      BY <1>1, <1>6, <3>1, <3>2 DEF Inv, Agreement
  <2>4. /\ DOMAIN merged = DOMAIN mem \cup DOMAIN rows
        /\ \A p \in DOMAIN merged : merged[p] = IF p \in DOMAIN rows THEN rows[p] ELSE mem[p]
        /\ Questionnaire \notin DOMAIN rows
    BY <1>1, <1>4, <1>6 DEF Inv, Agreement
  <2>5. table' = table /\ mem' = mem /\ framing' = framing
    BY DEF PersistRow
  <2>6. QED
    BY <1>1, <1>3, <2>2, <2>3, <2>4, <2>5 DEF Inv, Agreement, Knows
<1>9. TypeOK'
  BY <1>7 DEF PersistRow, Inv, TypeOK, NodeOK, Tables, Contents, Agents, FileRecords, page
<1>10. TablesSound' /\ Told' /\ fetch' \in Seq(Requests)
  BY DEF PersistRow, Inv, TablesSound, Told, Sound, Fine, Agent, page
<1>11. QED
  BY <1>7, <1>8, <1>9, <1>10 DEF Inv

LEMMA CommitInv ==
    ASSUME Inv, Commit
    PROVE  Inv'
<1> DEFINE stored == Upsert(table, node.rows)
<1>1. /\ node.pc = "persist" /\ NodeOK /\ node.at > Len(node.files)
      /\ node = [pc |-> node.pc, files |-> node.files, at |-> node.at,
                 rows |-> node.rows, merged |-> node.merged]
      /\ table' = stored /\ mem' = mem /\ framing' = framing
  BY DEF Commit, Stored, Inv, NodeOK
<1>2. node' = [pc |-> "announce", files |-> node.files, at |-> 1,
               rows |-> node.rows, merged |-> node.merged]
  BY <1>1 DEF Commit
<1>3. /\ node'.pc = "announce" /\ node'.files = node.files /\ node'.at = 1
      /\ node'.rows = node.rows /\ node'.merged = node.merged
      /\ node' = [pc |-> node'.pc, files |-> node'.files, at |-> node'.at,
                  rows |-> node'.rows, merged |-> node'.merged]
  BY <1>2
<1>4. /\ Len(node.files) \in Nat /\ DOMAIN node.files = 1 .. Len(node.files)
      /\ node.at \in Nat
  BY <1>1, LenProperties DEF NodeOK
<1>5. NodeOK'
  BY <1>1, <1>3, <1>4 DEF NodeOK, Tables, Sound, Fine, Agent, Contents, Agents
<1>6. /\ DOMAIN stored = DOMAIN table \cup DOMAIN node.rows
      /\ \A p \in DOMAIN stored : stored[p] = IF p \in DOMAIN node.rows THEN node.rows[p] ELSE table[p]
  BY UpsertRows
<1>7. Tables(stored) /\ Sound(stored)
  <2>1. Tables(table) /\ Sound(table) /\ Tables(node.rows) /\ Sound(node.rows)
    BY DEF Inv, TypeOK, NodeOK, TablesSound
  <2>2. QED
    BY <2>1, UpsertRows
<1> HIDE DEF stored
<1>8. Agreement'
  <2>1. \A i \in DOMAIN node.files : node.files[i].path \in DOMAIN stored
    <3>1. \A i \in DOMAIN node.files : i < node.at
      BY <1>1, <1>4
    <3>2. QED
      BY <1>1, <1>6, <3>1 DEF Inv, Agreement
  <2>2. /\ DOMAIN stored \ {Questionnaire} \subseteq DOMAIN node.merged
        /\ \A p \in DOMAIN node.merged : p \in DOMAIN stored /\ node.merged[p] = stored[p]
    BY <1>1, <1>6 DEF Inv, Agreement, Knows
  <2>3. Questionnaire \in DOMAIN stored <=> framing # "asking"
    BY <1>1, <1>6 DEF Inv, Agreement
  <2>4. QED
    BY <1>1, <1>3, <2>1, <2>2, <2>3 DEF Agreement, Knows
<1>9. evidence' \in 0 .. MaxEvidence /\ evidence <= evidence' /\ evidence \in Nat /\ evidence' \in Nat
  BY Numbers DEF Inv, TypeOK, Commit, Stored
<1>10. (Tables(table) /\ Sound(table))' /\ DOMAIN table \subseteq DOMAIN table'
  BY <1>1, <1>6, <1>7 DEF Tables, Sound, Fine, Agent, Contents, Agents
<1>11. TypeOK'
  BY <1>5, <1>9, <1>10 DEF Commit, Inv, TypeOK, NodeOK, Tables, Contents, Agents, FileRecords, page
<1>12. Told'
  <2>1. \A i \in DOMAIN events : events[i].known \in Nat
    BY EventAt DEF Inv
  <2>2. events' = events
    BY DEF Commit
  <2>3. QED
    BY <1>9, <1>10, <2>1, <2>2 DEF Inv, Told, Agent
<1>13. TablesSound' /\ fetch' \in Seq(Requests)
  BY <1>10 DEF Commit, Inv, TablesSound, Sound, Fine, Agent, page
<1>14. QED
  BY <1>5, <1>8, <1>11, <1>12, <1>13 DEF Inv

\* One more event, of what is stored.
LEMMA EventInv ==
    ASSUME Inv, NEW path \in DOMAIN table, events' = Append(events, Event(path)),
           UNCHANGED <<table, evidence, seen>>
    PROVE  /\ (events \in Seq([path : Seq(Segments), agent : Agents, known : 0 .. MaxEvidence]))'
           /\ (seen \in 0 .. Len(events))'
           /\ Told'
           /\ Len(events) \in Nat /\ DOMAIN events = 1 .. Len(events)
           /\ DOMAIN events' = 1 .. Len(events) + 1
           /\ events'[Len(events) + 1] = Event(path)
           /\ \A i \in 1 .. Len(events) : events'[i] = events[i]
<1> DEFINE event == Event(path)
           Events == [path : Seq(Segments), agent : Agents, known : 0 .. MaxEvidence]
<1>1. path \in Seq(Segments) /\ Agent(path) \in Agents /\ evidence \in 0 .. MaxEvidence
  BY DEF Inv, TypeOK, Tables, TablesSound, Sound, Fine, Contents
<1>2. event \in Events /\ event.path = path /\ event.known = evidence /\ event.agent = Agent(path)
  BY <1>1 DEF Event
<1>3. events \in Seq(Events)
  BY DEF Inv, TypeOK
<1> HIDE DEF event, Events
<1>4. /\ Append(events, event) \in Seq(Events) /\ Len(events) \in Nat
      /\ Len(Append(events, event)) = Len(events) + 1
      /\ DOMAIN events = 1 .. Len(events)
      /\ DOMAIN Append(events, event) = 1 .. Len(events) + 1
      /\ Append(events, event)[Len(events) + 1] = event
      /\ \A i \in 1 .. Len(events) : Append(events, event)[i] = events[i]
  BY <1>2, <1>3, AppendProperties, LenProperties
<1>5. events' = Append(events, event)
  BY DEF event
<1>6. (events \in Seq([path : Seq(Segments), agent : Agents, known : 0 .. MaxEvidence]))'
  BY <1>4, <1>5 DEF Events, Agents
<1>7. (seen \in 0 .. Len(events))'
  BY <1>4, <1>5 DEF Inv, TypeOK
<1>8. Told'
  <2>1. evidence \in Nat
    BY <1>1, Numbers
  <2>2. ASSUME NEW i \in DOMAIN events'
        PROVE  /\ events'[i].path \in DOMAIN table
               /\ events'[i].agent = Agent(events'[i].path)
               /\ events'[i].known <= evidence
    <3>1. CASE i = Len(events) + 1
      BY <1>2, <1>4, <1>5, <2>1, <3>1
    <3>2. CASE i # Len(events) + 1
      <4>1. i \in DOMAIN events /\ events'[i] = events[i]
        BY <1>4, <1>5, <2>2, <3>2
      <4>2. QED
        BY <4>1 DEF Inv, Told
    <3>3. QED
      BY <3>1, <3>2
  <2>3. QED
    BY <2>2 DEF Told, Agent
<1>9. QED
  BY <1>4, <1>5, <1>6, <1>7, <1>8 DEF event

LEMMA AnnounceInv ==
    ASSUME Inv, Announce
    PROVE  Inv'
<1>1. /\ node.pc = "announce" /\ NodeOK
      /\ node = [pc |-> node.pc, files |-> node.files, at |-> node.at,
                 rows |-> node.rows, merged |-> node.merged]
      /\ UNCHANGED <<table, mem, framing, evidence>>
  BY DEF Announce, Inv, NodeOK
<1>2. node' = [pc |-> "announce", files |-> node.files, at |-> node.at + 1,
               rows |-> node.rows, merged |-> node.merged]
  BY <1>1 DEF Announce
<1>3. /\ node'.pc = "announce" /\ node'.files = node.files /\ node'.at = node.at + 1
      /\ node'.rows = node.rows /\ node'.merged = node.merged
      /\ node' = [pc |-> node'.pc, files |-> node'.files, at |-> node'.at,
                  rows |-> node'.rows, merged |-> node'.merged]
  BY <1>2
<1>4. /\ node.at \in Nat /\ node.at \in DOMAIN node.files
      /\ Len(node.files) \in Nat /\ DOMAIN node.files = 1 .. Len(node.files)
      /\ File.path = node.files[node.at].path
  BY <1>1, FileAt DEF Announce
<1>5. NodeOK'
  BY <1>1, <1>3, <1>4 DEF NodeOK, Tables, Sound, Fine, Agent, Contents, Agents
<1>6. Agreement'
  BY <1>1, <1>3 DEF Inv, Agreement, Knows
<1>7. File.path \in DOMAIN table
  BY <1>1, <1>4 DEF Inv, Agreement
<1>8. /\ (events \in Seq([path : Seq(Segments), agent : Agents, known : 0 .. MaxEvidence]))'
      /\ (seen \in 0 .. Len(events))'
      /\ Told'
  BY <1>1, <1>7, EventInv DEF Announce, page
<1>9. TypeOK'
  <2>1. cut' \subseteq Seq(Segments)
    BY DEF Announce, Inv, TypeOK
  <2>2. (Tables(table) /\ Tables(mem) /\ evidence \in 0 .. MaxEvidence)'
    BY <1>1 DEF Inv, TypeOK, Tables, Contents, Agents
  <2>3. (/\ which \in Views /\ passes \in 0 .. MaxPasses /\ faults \in 0 .. MaxFaults
         /\ framing \in {"asking", "stored", "over"})'
    BY DEF Announce, Inv, TypeOK, page
  <2>4. (/\ Tables(node.rows) /\ Tables(node.merged)
         /\ node.pc \in {"ready", "persist", "announce", "stopped"}
         /\ node.files \in Seq([path : Seq(Segments), content : Contents])
         /\ node.at \in 1 .. Len(node.files) + 1)'
    BY <1>5 DEF NodeOK, FileRecords
  <2>5. QED
    BY <1>8, <2>1, <2>2, <2>3, <2>4 DEF TypeOK
<1>10. TablesSound' /\ fetch' \in Seq(Requests)
  BY <1>1 DEF Announce, Inv, TablesSound, Sound, Fine, Agent, page
<1>11. QED
  BY <1>5, <1>6, <1>8, <1>9, <1>10 DEF Inv

\* A node that ends leaves the graph with what it knew; a retry with the table.
LEMMA ReturnInv ==
    ASSUME Inv, \/ Return
                \/ Retry
    PROVE  Inv'
<1>1. /\ node' = [pc |-> "ready", files |-> <<>>, at |-> 1, rows |-> Nothing, merged |-> Nothing]
      /\ UNCHANGED <<table, evidence, framing, events, cut, passes, faults, page>>
  BY DEF Return, Retry, Ready
<1>2. NodeOK' /\ node'.pc = "ready" /\ DOMAIN node'.files = {}
  BY <1>1, Resting
<1>3. Knows(mem') /\ Tables(mem') /\ Sound(mem')
  <2>1. CASE Return
    BY <2>1 DEF Return, Inv, Agreement, NodeOK
  <2>2. CASE Retry
    BY <2>2 DEF Retry, Inv, TypeOK, TablesSound, Knows
  <2>3. QED
    BY <2>1, <2>2
<1>4. Agreement'
  BY <1>1, <1>2, <1>3 DEF Inv, Agreement, Knows
<1>5. TypeOK'
  BY <1>1, <1>2, <1>3 DEF Inv, TypeOK, NodeOK, Tables, Contents, Agents, FileRecords, page
<1>6. TablesSound' /\ Told' /\ fetch' \in Seq(Requests)
  BY <1>1, <1>3 DEF Inv, TablesSound, Told, Sound, Fine, Agent, page
<1>7. QED
  BY <1>2, <1>4, <1>5, <1>6 DEF Inv

\* Nobody else has stored the questionnaire, and nobody knows it yet.
LEMMA StoreQuestionnaireInv ==
    ASSUME Inv, StoreQuestionnaire
    PROVE  Inv'
<1> DEFINE content == [by |-> <<Author[Questionnaire]>>, pass |-> 0, nth |-> 1]
           asked == Put(table, Questionnaire, content)
<1>1. /\ framing = "asking" /\ framing' = "stored" /\ table' = asked
      /\ UNCHANGED <<evidence, mem, node, events, cut, passes, faults, page>>
  BY DEF StoreQuestionnaire, Asked
<1>2. Questionnaire \in DOMAIN Author /\ 0 \in 0 .. MaxPasses
  BY ArtifactsAssumption
<1>3. /\ Questionnaire \in Seq(Segments) /\ content \in Contents
      /\ Fine(Questionnaire, content)
  BY <1>2, Written DEF Inv
<1> HIDE DEF content
<1>4. Tables(asked) /\ Sound(asked)
  BY <1>3, PutFile DEF Inv, TypeOK, TablesSound
<1>5. /\ DOMAIN asked = DOMAIN table \cup {Questionnaire}
      /\ \A p \in DOMAIN table : p # Questionnaire => asked[p] = table[p]
  BY DEF Put
<1> HIDE DEF asked
<1>6. Questionnaire \notin DOMAIN table
  BY <1>1 DEF Inv, Agreement
<1>7. ASSUME NEW m, Knows(m)
      PROVE  /\ DOMAIN asked \ {Questionnaire} \subseteq DOMAIN m
             /\ \A p \in DOMAIN m : p \in DOMAIN asked /\ m[p] = asked[p]
  BY <1>5, <1>6, <1>7 DEF Knows
<1>8. Agreement'
  <2>1. node.pc \in {"ready", "persist"} => Knows(mem)'
    BY <1>1, <1>7 DEF Inv, Agreement, Knows
  <2>2. node.pc = "announce" => Knows(node.merged)'
    BY <1>1, <1>7 DEF Inv, Agreement, Knows
  <2>3. Questionnaire \in DOMAIN table' /\ DOMAIN table \subseteq DOMAIN table'
    BY <1>1, <1>5
  <2>4. QED
    BY <1>1, <2>1, <2>2, <2>3 DEF Inv, Agreement, Done
<1>9. NodeOK'
  BY <1>1 DEF Inv, NodeOK, Tables, Sound, Fine, Agent, Contents, Agents
<1>10. TypeOK'
  BY <1>1, <1>4 DEF Inv, TypeOK, Tables, Contents, Agents, page
<1>11. TablesSound' /\ Told' /\ fetch' \in Seq(Requests)
  BY <1>1, <1>4, <1>5 DEF Inv, TablesSound, Told, Sound, Fine, Agent, page
<1>12. QED
  BY <1>8, <1>9, <1>10, <1>11 DEF Inv

LEMMA AnnounceQuestionnaireInv ==
    ASSUME Inv, AnnounceQuestionnaire
    PROVE  Inv'
<1>1. /\ framing = "stored" /\ framing' = "over" /\ events' = Append(events, Event(Questionnaire))
      /\ UNCHANGED <<table, evidence, mem, node, cut, passes, faults, page>>
  BY DEF AnnounceQuestionnaire
<1>2. Questionnaire \in DOMAIN table
  BY <1>1 DEF Inv, Agreement
<1>3. /\ (events \in Seq([path : Seq(Segments), agent : Agents, known : 0 .. MaxEvidence]))'
      /\ (seen \in 0 .. Len(events))'
      /\ Told'
  BY <1>1, <1>2, EventInv DEF page
<1>4. NodeOK' /\ TablesSound' /\ fetch' \in Seq(Requests)
  BY <1>1 DEF Inv, NodeOK, TablesSound, Tables, Sound, Fine, Agent, Contents, Agents, page
<1>5. Agreement'
  BY <1>1, <1>2 DEF Inv, Agreement, Knows, Done
<1>6. TypeOK'
  BY <1>1, <1>3 DEF Inv, TypeOK, Tables, Contents, Agents, page
<1>7. QED
  BY <1>3, <1>4, <1>5, <1>6 DEF Inv

-----------------------------------------------------------------------------
(* The requests of the page.                                               *)

\* What the open requests are.
LEMMA RequestAt ==
    ASSUME Inv
    PROVE  /\ Len(fetch) \in Nat /\ DOMAIN fetch = 1 .. Len(fetch)
           /\ \A i \in DOMAIN fetch : fetch[i] \in Requests
<1>1. fetch \in Seq(Requests)
  BY DEF Inv
<1>2. QED
  BY <1>1, LenProperties, ElementOfSeq

\* Nothing is live once a new request overtakes the others.
LEMMA Overtaking ==
    ASSUME Inv
    PROVE  LET f == Append(Overtaken(fetch), Sent) IN
           /\ f \in Seq(Requests) /\ Len(f) = Len(fetch) + 1 /\ DOMAIN f = 1 .. Len(f)
           /\ f[Len(f)] = Sent
           /\ \A i \in 1 .. Len(fetch) : ~f[i].live
<1> DEFINE o == Overtaken(fetch)
           f == Append(o, Sent)
<1>1. /\ Len(fetch) \in Nat /\ DOMAIN fetch = 1 .. Len(fetch)
      /\ \A i \in DOMAIN fetch : fetch[i] \in Requests
  BY RequestAt
<1>2. o = [i \in 1 .. Len(fetch) |-> [fetch[i] EXCEPT !.live = FALSE]]
  BY <1>1 DEF Overtaken
<1>3. \A i \in 1 .. Len(fetch) : [fetch[i] EXCEPT !.live = FALSE] \in Requests /\ ~[fetch[i] EXCEPT !.live = FALSE].live
  BY <1>1 DEF Requests
<1> HIDE DEF o
<1>4. o \in [1 .. Len(fetch) -> Requests]
  BY <1>2, <1>3
<1>5. o \in Seq(Requests) /\ Len(o) = Len(fetch)
  BY <1>1, <1>4, SeqDef, LenProperties
<1>6. Sent \in Requests
  BY DEF Sent, Requests
<1>7. /\ f \in Seq(Requests) /\ Len(f) = Len(o) + 1
      /\ f[Len(f)] = Sent
      /\ \A i \in 1 .. Len(o) : f[i] = o[i]
  BY <1>5, <1>6, AppendProperties
<1> HIDE DEF f
<1>8. DOMAIN f = 1 .. Len(f)
  BY <1>7, LenProperties
<1>9. \A i \in 1 .. Len(fetch) : ~f[i].live
  BY <1>2, <1>3, <1>5, <1>7
<1>10. QED
  BY <1>5, <1>7, <1>8, <1>9 DEF f, o

\* An answer is what is stored, or none.
LEMMA AnswerTyped ==
    ASSUME Inv
    PROVE  Answer \in Contents \cup Nat \cup {None, Error}
<1>1. evidence \in Nat
  BY Numbers DEF Inv, TypeOK
<1>2. \A p \in DOMAIN table : table[p] \in Contents
  BY DEF Inv, TypeOK, Tables
<1>3. QED
  BY <1>1, <1>2 DEF Answer, ListEvidence, GetArtifact

\* A request that is answered.
LEMMA Serving ==
    ASSUME Inv, NEW i \in DOMAIN fetch, NEW reply \in {Answer, Error}
    PROVE  LET f == [fetch EXCEPT ![i].at = "answered", ![i].reply = reply] IN
           /\ f \in Seq(Requests) /\ Len(f) = Len(fetch) /\ DOMAIN f = DOMAIN fetch
           /\ f[i].at = "answered" /\ f[i].reply = reply /\ f[i].live = fetch[i].live
           /\ \A j \in DOMAIN fetch : j # i => f[j] = fetch[j]
<1> DEFINE r == [fetch[i] EXCEPT !.at = "answered", !.reply = reply]
           f == [fetch EXCEPT ![i] = r]
<1>1. /\ Len(fetch) \in Nat /\ DOMAIN fetch = 1 .. Len(fetch)
      /\ \A j \in DOMAIN fetch : fetch[j] \in Requests
      /\ fetch \in Seq(Requests)
  BY RequestAt DEF Inv
<1>2. reply \in Contents \cup Nat \cup {None, Error}
  BY AnswerTyped
<1>3. r \in Requests /\ r.at = "answered" /\ r.reply = reply /\ r.live = fetch[i].live
  BY <1>1, <1>2 DEF Requests
<1>4. f = [fetch EXCEPT ![i].at = "answered", ![i].reply = reply]
  BY <1>1 DEF Requests
<1> HIDE DEF r
<1>5. /\ f \in Seq(Requests) /\ Len(f) = Len(fetch)
      /\ \A j \in 1 .. Len(fetch) : f[j] = IF j = i THEN r ELSE fetch[j]
  BY <1>1, <1>3, ExceptSeq
<1>6. DOMAIN f = DOMAIN fetch
  BY <1>1
<1> HIDE DEF f
<1>7. QED
  BY <1>1, <1>3, <1>4, <1>5, <1>6

\* A request that is over.
LEMMA Leaving ==
    ASSUME Inv, NEW i \in DOMAIN fetch
    PROVE  LET f == Without(fetch, i) IN
           /\ f \in Seq(Requests) /\ Len(f) = Len(fetch) - 1 /\ DOMAIN f = 1 .. Len(f)
           /\ \A j \in 1 .. Len(f) : f[j] = IF j < i THEN fetch[j] ELSE fetch[j + 1]
<1> DEFINE a == SubSeq(fetch, 1, i - 1)
           b == SubSeq(fetch, i + 1, Len(fetch))
           f == a \o b
<1>1. /\ Len(fetch) \in Nat /\ DOMAIN fetch = 1 .. Len(fetch)
      /\ \A j \in 1 .. Len(fetch) : fetch[j] \in Requests
      /\ i \in 1 .. Len(fetch)
  BY RequestAt
<1>2. /\ a \in Seq(Requests) /\ Len(a) = i - 1
      /\ \A j \in 1 .. i - 1 : a[j] = fetch[j]
  <2>1. /\ 1 \in Int /\ i - 1 \in Int /\ \A j \in 1 .. i - 1 : fetch[j] \in Requests
    BY <1>1
  <2>2. /\ a \in Seq(Requests) /\ Len(a) = IF 1 <= i - 1 THEN i - 1 - 1 + 1 ELSE 0
        /\ \A j \in 1 .. i - 1 - 1 + 1 : a[j] = fetch[1 + j - 1]
    BY <2>1, SubSeqProperties
  <2>3. QED
    BY <1>1, <2>2
<1>3. /\ b \in Seq(Requests) /\ Len(b) = Len(fetch) - i
      /\ \A j \in 1 .. Len(fetch) - i : b[j] = fetch[i + j]
  <2>1. /\ i + 1 \in Int /\ Len(fetch) \in Int /\ \A j \in i + 1 .. Len(fetch) : fetch[j] \in Requests
    BY <1>1
  <2>2. /\ b \in Seq(Requests) /\ Len(b) = IF i + 1 <= Len(fetch) THEN Len(fetch) - (i + 1) + 1 ELSE 0
        /\ \A j \in 1 .. Len(fetch) - (i + 1) + 1 : b[j] = fetch[i + 1 + j - 1]
    BY <2>1, SubSeqProperties
  <2>3. QED
    BY <1>1, <2>2
<1> HIDE DEF a, b
<1>4. /\ f \in Seq(Requests) /\ Len(f) = Len(a) + Len(b)
      /\ \A j \in 1 .. Len(a) + Len(b) : f[j] = IF j <= Len(a) THEN a[j] ELSE b[j - Len(a)]
  BY <1>2, <1>3, ConcatProperties
<1> HIDE DEF f
<1>5. DOMAIN f = 1 .. Len(f) /\ Len(f) = Len(fetch) - 1
  BY <1>1, <1>2, <1>3, <1>4, LenProperties
<1>6. ASSUME NEW j \in 1 .. Len(f)
      PROVE  f[j] = IF j < i THEN fetch[j] ELSE fetch[j + 1]
  <2>1. CASE j < i
    BY <1>1, <1>2, <1>3, <1>4, <1>5, <1>6, <2>1
  <2>2. CASE ~(j < i)
    <3>1. j - (i - 1) \in 1 .. Len(fetch) - i /\ i + (j - (i - 1)) = j + 1
      BY <1>1, <1>5, <1>6, <2>2
    <3>2. f[j] = b[j - (i - 1)]
      BY <1>1, <1>2, <1>3, <1>4, <1>5, <1>6, <2>2
    <3>3. QED
      BY <1>3, <2>2, <3>1, <3>2
  <2>3. QED
    BY <2>1, <2>2
<1>7. QED
  BY <1>4, <1>5, <1>6 DEF Without, f, a, b

LEMMA ViewInv ==
    ASSUME Inv, View
    PROVE  Inv'
<1>1. /\ evidence \in Nat /\ evidence <= MaxEvidence /\ MaxEvidence \in Nat
      /\ Len(events) \in Nat /\ seen \in 0 .. Len(events)
      /\ passes \in 0 .. MaxPasses /\ faults \in 0 .. MaxFaults
  BY Numbers, EventAt DEF Inv, TypeOK
<1>2. UNCHANGED <<drive, which>>
  BY DEF View, Render, Serve, Arrive
<1>3. seen' \in 0 .. Len(events) /\ fetch' \in Seq(Requests)
  <2>1. CASE Render
    <3>1. PICK n \in seen + 1 .. Len(events) :
              seen' = n /\ (fetch' = Append(Overtaken(fetch), Sent) \/ fetch' = fetch)
      BY <2>1 DEF Render
    <3>2. seen' \in 0 .. Len(events)
      BY <1>1, <3>1
    <3>3. fetch \in Seq(Requests) /\ Append(Overtaken(fetch), Sent) \in Seq(Requests)
      BY Overtaking DEF Inv
    <3>4. QED
      BY <3>1, <3>2, <3>3
  <2>2. CASE Serve
    <3>1. PICK i \in DOMAIN fetch, reply \in {Answer, Error} :
              fetch' = [fetch EXCEPT ![i].at = "answered", ![i].reply = reply]
      BY <2>2 DEF Serve
    <3>2. fetch' \in Seq(Requests)
      BY <3>1, Serving
    <3>3. seen' = seen
      BY <2>2 DEF Serve
    <3>4. QED
      BY <1>1, <3>2, <3>3
  <2>3. CASE Arrive
    BY <1>1, <2>3, Leaving DEF Arrive
  <2>4. QED
    BY <2>1, <2>2, <2>3 DEF View
<1>4. QED
  BY <1>1, <1>2, <1>3, StillInv DEF drive

LEMMA RegisterInv ==
    ASSUME Inv, Register
    PROVE  Inv'
<1>1. /\ evidence' \in evidence .. MaxEvidence
      /\ passes \in 0 .. MaxPasses /\ faults \in 0 .. MaxFaults /\ seen \in 0 .. Len(events)
  BY Numbers DEF Inv, TypeOK, Register
<1>2. QED
  BY <1>1, StillInv DEF Register, Inv, page

\* Every step.
LEMMA NextInv ==
    ASSUME Inv, [Next]_vars
    PROVE  Inv'
<1>1. passes \in 0 .. MaxPasses /\ faults \in 0 .. MaxFaults
  BY DEF Inv, TypeOK
<1>2. ASSUME NEW s \in Stages, Gather(s)
      PROVE  Inv'
  <2>1. PICK outputs \in UpTo(MaxArtifacts, [worker : Slugs, path : PathInputs]) :
            LET files == _merge_worker_outputs(s, outputs) IN
            IF \E i \in DOMAIN files : files[i].path = None THEN Stop ELSE Work(files)
    BY <1>2 DEF Gather
  <2> DEFINE files == _merge_worker_outputs(s, outputs)
  <2>2. passes' \in 0 .. MaxPasses
    BY <1>1, <1>2, Numbers DEF Gather
  <2>3. CASE \E i \in DOMAIN files : files[i].path = None
    <3>1. Stop
      BY <2>1, <2>3
    <3>2. cut' \subseteq Seq(Segments)
      BY <1>2 DEF Gather, Inv, TypeOK
    <3>3. QED
      BY <1>1, <1>2, <2>2, <3>1, <3>2, StopInv DEF Gather
  <2>4. CASE ~\E i \in DOMAIN files : files[i].path = None
    <3>1. Work(files)
      BY <2>1, <2>4
    <3>2. /\ files \in Seq(FileRecords)
          /\ \A i \in DOMAIN files : /\ Fine(files[i].path, files[i].content)
                                    /\ files[i].path # Questionnaire
      BY <2>4, Merged DEF Inv
    <3> HIDE DEF files
    <3>3. QED
      BY <1>2, <2>2, <3>1, <3>2, WorkInv DEF Gather
  <2>5. QED
    BY <2>3, <2>4
<1>3. ASSUME NEW path \in {Report, Audit}, Conclude(path)
      PROVE  Inv'
  <2> DEFINE content == [by |-> <<Author[path]>>, pass |-> passes, nth |-> 1]
             file == [path |-> path, content |-> content]
             files == <<file>>
  <2>1. path \in DOMAIN Author /\ path # Questionnaire
    BY ArtifactsAssumption
  <2>2. path \in Seq(Segments) /\ content \in Contents /\ Fine(path, content)
    BY <1>1, <2>1, Written DEF Inv
  <2>3. Work(files)
    BY <1>3 DEF Conclude
  <2> HIDE DEF content
  <2>4. file \in FileRecords /\ Fine(file.path, file.content) /\ file.path # Questionnaire
    BY <2>1, <2>2 DEF FileRecords
  <2> HIDE DEF file
  <2>5. files \in Seq(FileRecords) /\ \A i \in DOMAIN files : files[i] = file
    BY <2>4
  <2> HIDE DEF files
  <2>6. passes' \in 0 .. MaxPasses
    BY <1>1, <1>3, Numbers DEF Conclude
  <2>7. QED
    BY <1>3, <2>3, <2>4, <2>5, <2>6, WorkInv DEF Conclude
<1>4. CASE PersistFails
  <2>1. faults' \in 0 .. MaxFaults
    BY <1>1, <1>4, Numbers DEF PersistFails, Fault
  <2>2. {node.files[i].path : i \in DOMAIN node.files} \subseteq Seq(Segments)
    <3>1. \A i \in DOMAIN node.files : node.files[i] \in FileRecords
      BY LenProperties, ElementOfSeq DEF Inv, NodeOK
    <3>2. QED
      BY <3>1 DEF FileRecords
  <2>3. cut' \subseteq Seq(Segments)
    BY <1>4, <2>2 DEF PersistFails, Inv, TypeOK
  <2>4. QED
    BY <1>1, <1>4, <2>1, <2>3, StopInv DEF PersistFails, Fault
<1>5. CASE AnnounceFails
  <2>1. faults' \in 0 .. MaxFaults
    BY <1>1, <1>5, Numbers DEF AnnounceFails, Fault
  <2>2. Left \subseteq Seq(Segments)
    <3>1. node.files \in Seq(FileRecords) /\ node.at \in 1 .. Len(node.files) + 1
      BY DEF Inv, NodeOK
    <3>2. \A i \in node.at .. Len(node.files) : node.files[i] \in FileRecords
      <4>1. Len(node.files) \in Nat
        BY <3>1, LenProperties
      <4>2. \A i \in node.at .. Len(node.files) : i \in 1 .. Len(node.files)
        BY <3>1, <4>1
      <4>3. QED
        BY <3>1, <4>2, ElementOfSeq
    <3>3. QED
      BY <3>2 DEF Left, FileRecords
  <2>3. cut' \subseteq Seq(Segments)
    BY <1>5, <2>2 DEF AnnounceFails, Inv, TypeOK
  <2>4. QED
    BY <1>1, <1>5, <2>1, <2>3, StopInv DEF AnnounceFails, Fault
<1>6. CASE UNCHANGED vars
  <2>1. seen \in 0 .. Len(events) /\ evidence \in evidence .. MaxEvidence
    BY Numbers DEF Inv, TypeOK
  <2>2. QED
    BY <1>1, <1>6, <2>1, StillInv DEF vars, drive, page, Inv
<1>7. QED
  BY <1>2, <1>3, <1>4, <1>5, <1>6, PersistRowInv, CommitInv, AnnounceInv, ReturnInv, ViewInv,
     RegisterInv, StoreQuestionnaireInv, AnnounceQuestionnaireInv DEF Next, Node, Framing

\* In every reachable state the variables are in their ranges, artifacts lie
\* where their authors write, and events name them (stage.py:145).
THEOREM Safe == Spec => []ArtifactsInv
<1>1. ASSUME Inv
      PROVE  ArtifactsInv
  BY <1>1 DEF Inv, ArtifactsInv, Owned, TablesSound, Sound, Fine, Told
<1>2. QED
  BY <1>1, InitInv, NextInv, PTL DEF Spec

\* Between two nodes the graph knows what stages, synthesis and audit stored, as
\* it is stored, also behind a drive that was cut short, and whenever the framing
\* stores the questionnaire (stage.py:519, framing.py:60, run_worker.py:419).
THEOREM StateIsStored == Spec => []MemAgrees
<1>1. ASSUME Inv
      PROVE  MemAgrees
  BY <1>1 DEF Inv, Agreement, MemAgrees
<1>2. QED
  BY <1>1, InitInv, NextInv, PTL DEF Spec

-----------------------------------------------------------------------------
(* What the page shows.                                                    *)

\* An event of the report the page has not seen.
Unseen == \E i \in DOMAIN events : seen < i /\ events[i].path = Report

\* An answer that may be shown as long as nothing else is announced.
Current(v) ==
    \/ v = Error
    \/ which = "report" /\ (Report \in cut \cup Pending \/ Unseen \/ v = At(table, Report))
    \/ which = "sources" /\ v \in Nat /\ \A i \in DOMAIN events : i <= seen => events[i].known <= v

\* Only the last request is live, and what it was answered is current; without
\* a live one, what the page shows is.
Answering ==
    /\ \A i \in DOMAIN fetch : fetch[i].live => i = Len(fetch)
    /\ \A i \in DOMAIN fetch : fetch[i].live /\ fetch[i].at = "answered" => Current(fetch[i].reply)
    /\ (\A i \in DOMAIN fetch : ~fetch[i].live) => Current(view)

\* What was current stays so.
Lasting == \A v : Current(v) => Current(v)'

\* A step of a drive leaves the page alone.
LEMMA LastingAnswers ==
    ASSUME Answering, Lasting, UNCHANGED page
    PROVE  Answering'
BY DEF Answering, Lasting, page

\* Current depends on the stored report, on what was cut and on the events.
LEMMA LastingReport ==
    ASSUME UNCHANGED <<events, seen, which>>,
           \/ At(table, Report)' = At(table, Report)
           \/ Report \in (cut \cup Pending)',
           Report \in cut \cup Pending => Report \in (cut \cup Pending)'
    PROVE  Lasting
BY DEF Lasting, Current, Unseen

LEMMA InitAnswering ==
    ASSUME Init
    PROVE  Answering
<1>1. fetch = <<Sent>> /\ Len(fetch) = 1 /\ DOMAIN fetch = {1} /\ fetch[1] = Sent
  BY DEF Init
<1>2. Sent.live /\ Sent.at = "sent"
  BY DEF Sent
<1>3. QED
  BY <1>1, <1>2 DEF Answering

\* What a drive commits is announced, or was cut.
LEMMA StoredReport ==
    ASSUME Inv, node.pc = "persist", table' = Upsert(table, node.rows)
    PROVE  At(table, Report)' = At(table, Report) \/ Done(Report)
<1>1. Report \in DOMAIN node.rows => Done(Report)
  BY DEF Inv, Agreement
<1>2. Report \notin DOMAIN node.rows => At(table, Report)' = At(table, Report)
  <2> DEFINE stored == Upsert(table, node.rows)
  <2>1. /\ DOMAIN stored = DOMAIN table \cup DOMAIN node.rows
        /\ \A p \in DOMAIN stored : stored[p] = IF p \in DOMAIN node.rows THEN node.rows[p] ELSE table[p]
    BY UpsertRows
  <2>2. table' = stored
    OBVIOUS
  <2> HIDE DEF stored
  <2>3. QED
    BY <2>1, <2>2 DEF At
<1>3. QED
  BY <1>1, <1>2

\* The files a node has still to announce.
LEMMA Remaining ==
    ASSUME Inv
    PROVE  /\ Len(node.files) \in Nat /\ node.at \in Nat /\ node.at >= 1
           /\ DOMAIN node.files = 1 .. Len(node.files)
           /\ node.at .. Len(node.files) \subseteq DOMAIN node.files
<1>1. /\ Len(node.files) \in Nat /\ DOMAIN node.files = 1 .. Len(node.files)
      /\ node.at \in 1 .. Len(node.files) + 1
  BY LenProperties DEF Inv, NodeOK
<1>2. QED
  BY <1>1

LEMMA QuietAnswering ==
    ASSUME Answering, node.pc # "announce", node'.pc # "announce",
           UNCHANGED <<table, events, cut, page>>
    PROVE  Answering'
<1>1. Pending = {} /\ Pending' = {}
  BY DEF Pending
<1>2. At(table, Report)' = At(table, Report)
  BY DEF At
<1>3. Lasting
  BY <1>1, <1>2, LastingReport DEF page
<1>4. QED
  BY <1>3, LastingAnswers

LEMMA CommitAnswering ==
    ASSUME Inv, Answering, Commit
    PROVE  Answering'
<1>1. /\ node.pc = "persist" /\ table' = Upsert(table, node.rows)
      /\ UNCHANGED <<events, cut, page>>
  BY DEF Commit, Stored
<1>2. node'.pc = "announce" /\ node'.at = 1 /\ node'.files = node.files
  <2>1. node = [pc |-> node.pc, files |-> node.files, at |-> node.at,
                rows |-> node.rows, merged |-> node.merged]
    BY DEF Inv, NodeOK
  <2>2. QED
    BY <2>1 DEF Commit
<1>3. Pending = {} /\ Pending' = {node.files[i].path : i \in 1 .. Len(node.files)}
  BY <1>1, <1>2 DEF Pending, Left
<1>4. Done(Report) => Report \in Pending'
  BY <1>3, Remaining DEF Done
<1>5. At(table, Report)' = At(table, Report) \/ Report \in Pending'
  BY <1>1, <1>4, StoredReport
<1>6. Lasting
  BY <1>1, <1>3, <1>5, LastingReport DEF page
<1>7. QED
  BY <1>1, <1>6, LastingAnswers

\* An event of the report is one that the page has not seen.
LEMMA LastingEvent ==
    ASSUME Inv, NEW path \in DOMAIN table, events' = Append(events, Event(path)),
           UNCHANGED <<table, evidence, page>>,
           Report \in cut \cup Pending => path = Report \/ Report \in (cut \cup Pending)'
    PROVE  Lasting
<1>1. /\ Len(events) \in Nat /\ DOMAIN events = 1 .. Len(events)
      /\ DOMAIN events' = 1 .. Len(events) + 1
      /\ events'[Len(events) + 1].path = path
      /\ \A i \in 1 .. Len(events) : events'[i] = events[i]
  BY EventInv DEF Event, page
<1>2. seen \in Nat /\ seen <= Len(events)
  BY <1>1 DEF Inv, TypeOK
<1>3. seen' = seen /\ which' = which /\ At(table, Report)' = At(table, Report)
  BY DEF page, At
<1>4. Unseen \/ path = Report => Unseen'
  BY <1>1, <1>2, <1>3 DEF Unseen
<1>5. ASSUME NEW v, Current(v)
      PROVE  Current(v)'
  <2>1. CASE v = Error
    BY <2>1 DEF Current
  <2>2. CASE which = "sources" /\ v \in Nat /\ \A i \in DOMAIN events : i <= seen => events[i].known <= v
    <3>1. \A i \in DOMAIN events' : i <= seen => i \in DOMAIN events /\ events'[i] = events[i]
      BY <1>1, <1>2
    <3>2. QED
      BY <1>3, <2>2, <3>1 DEF Current
  <2>3. CASE which = "report" /\ (Report \in cut \cup Pending \/ Unseen \/ v = At(table, Report))
    BY <1>3, <1>4, <2>3 DEF Current
  <2>4. QED
    BY <1>5, <2>1, <2>2, <2>3 DEF Current
<1>6. QED
  BY <1>5 DEF Lasting

LEMMA AnnounceAnswering ==
    ASSUME Inv, Answering, Announce
    PROVE  Answering'
<1>1. /\ node.pc = "announce" /\ node.at <= Len(node.files)
      /\ events' = Append(events, Event(File.path)) /\ cut' = cut \ {File.path}
      /\ UNCHANGED <<table, evidence, page>>
  BY DEF Announce
<1>2. node'.pc = "announce" /\ node'.at = node.at + 1 /\ node'.files = node.files
  <2>1. node = [pc |-> node.pc, files |-> node.files, at |-> node.at,
                rows |-> node.rows, merged |-> node.merged]
    BY DEF Inv, NodeOK
  <2>2. QED
    BY <1>1, <2>1 DEF Announce
<1>3. File.path \in DOMAIN table
  <2>1. node.at \in DOMAIN node.files
    BY <1>1, Remaining
  <2>2. QED
    BY <1>1, <2>1 DEF Inv, Agreement, File
<1>4. ASSUME Report \in cut \cup Pending, File.path # Report
      PROVE  Report \in (cut \cup Pending)'
  <2>1. CASE Report \in cut
    BY <1>1, <1>4, <2>1
  <2>2. CASE Report \in Pending
    <3>1. PICK i \in node.at .. Len(node.files) : node.files[i].path = Report
      BY <1>1, <2>2 DEF Pending, Left
    <3>2. i # node.at
      BY <1>4, <3>1 DEF File
    <3>3. i \in node.at + 1 .. Len(node.files)
      BY <3>1, <3>2, Remaining
    <3>4. Report \in Pending'
      BY <1>2, <3>1, <3>3 DEF Pending, Left
    <3>5. QED
      BY <3>4
  <2>3. QED
    BY <1>4, <2>1, <2>2
<1>5. Lasting
  BY <1>1, <1>3, <1>4, LastingEvent
<1>6. QED
  BY <1>1, <1>5, LastingAnswers

\* The page of the report does not care for the questionnaire.
LEMMA FramingAnswering ==
    ASSUME Inv, Answering, Framing
    PROVE  Answering'
<1>1. UNCHANGED <<evidence, node, cut, page>> /\ Pending' = Pending
  BY DEF Framing, StoreQuestionnaire, AnnounceQuestionnaire, Pending, Left
<1>2. CASE StoreQuestionnaire
  <2>1. Report # Questionnaire
    BY ArtifactsAssumption
  <2>2. /\ DOMAIN table' = DOMAIN table \cup {Questionnaire}
        /\ \A p \in DOMAIN table : p # Questionnaire => table'[p] = table[p]
    BY <1>2 DEF StoreQuestionnaire, Asked, Put
  <2>3. At(table, Report)' = At(table, Report)
    BY <2>1, <2>2 DEF At
  <2>4. events' = events
    BY <1>2 DEF StoreQuestionnaire
  <2>5. Lasting
    BY <1>1, <2>3, <2>4, LastingReport DEF page
  <2>6. QED
    BY <1>1, <2>5, LastingAnswers
<1>3. CASE AnnounceQuestionnaire
  <2>1. Questionnaire \in DOMAIN table
    BY <1>3 DEF AnnounceQuestionnaire, Inv, Agreement
  <2>2. Lasting
    BY <1>1, <1>3, <2>1, LastingEvent DEF AnnounceQuestionnaire
  <2>3. QED
    BY <1>1, <2>2, LastingAnswers
<1>4. QED
  BY <1>2, <1>3 DEF Framing

\* A drive that ends leaves its report announced, cut or not stored.
LEMMA StopAnswering ==
    ASSUME Inv, Answering, PersistFails \/ AnnounceFails \/ Return \/ Retry
    PROVE  Answering'
<1>1. UNCHANGED <<events, page>> /\ node'.pc # "announce"
  BY DEF PersistFails, AnnounceFails, Return, Retry, Fault, Stop, Ready
<1>2. Pending' = {}
  BY <1>1 DEF Pending
<1>3. CASE Retry
  BY <1>1, <1>3, QuietAnswering DEF Retry
<1>4. CASE Return
  <2>1. Left = {} /\ Pending = {}
    BY <1>4, Remaining DEF Return, Left, Pending
  <2>2. At(table, Report)' = At(table, Report) /\ cut' = cut
    BY <1>4 DEF Return, At
  <2>3. Lasting
    BY <1>1, <1>2, <2>1, <2>2, LastingReport DEF page
  <2>4. QED
    BY <1>1, <2>3, LastingAnswers
<1>5. CASE AnnounceFails
  <2>1. Pending = Left /\ cut' = cut \cup Left
    BY <1>5 DEF AnnounceFails, Pending
  <2>2. At(table, Report)' = At(table, Report)
    BY <1>5 DEF AnnounceFails, At
  <2>3. Lasting
    BY <1>1, <1>2, <2>1, <2>2, LastingReport DEF page
  <2>4. QED
    BY <1>1, <2>3, LastingAnswers
<1>6. CASE PersistFails
  <2>1. node.pc = "persist" /\ Pending = {}
    BY <1>6 DEF PersistFails, Pending
  <2>2. \/ table' = table /\ cut' = cut
        \/ table' = Upsert(table, node.rows) /\ cut' = cut \cup {node.files[i].path : i \in DOMAIN node.files}
    BY <1>6 DEF PersistFails, Stored
  <2>3. At(table, Report)' = At(table, Report) \/ Report \in cut'
    <3>1. CASE table' = table
      BY <3>1 DEF At
    <3>2. CASE table' = Upsert(table, node.rows) /\ cut' = cut \cup {node.files[i].path : i \in DOMAIN node.files}
      BY <2>1, <3>2, StoredReport DEF Done
    <3>3. QED
      BY <2>2, <3>1, <3>2
  <2>4. Report \in cut \cup Pending => Report \in cut'
    BY <2>1, <2>2
  <2>5. Lasting
    BY <1>1, <2>3, <2>4, LastingReport DEF page
  <2>6. QED
    BY <1>1, <2>5, LastingAnswers
<1>7. QED
  BY <1>3, <1>4, <1>5, <1>6

LEMMA RegisterAnswering ==
    ASSUME Answering, Register
    PROVE  Answering'
<1>1. UNCHANGED <<table, node, events, cut, page>>
  BY DEF Register
<1>2. At(table, Report)' = At(table, Report) /\ Pending' = Pending
  BY <1>1 DEF At, Pending, Left
<1>3. Lasting
  BY <1>1, <1>2, LastingReport DEF page
<1>4. QED
  BY <1>1, <1>3, LastingAnswers

\* A new request replaces the others, unless the events do not matter.
LEMMA RenderAnswering ==
    ASSUME Inv, Answering, Render
    PROVE  Answering'
<1>1. PICK n \in seen + 1 .. Len(events) :
         /\ seen' = n
         /\ IF \E i \in seen + 1 .. n : Watched(events[i])
            THEN fetch' = Append(Overtaken(fetch), Sent)
            ELSE UNCHANGED fetch
  BY DEF Render
<1>2. UNCHANGED <<drive, which, view>>
  BY DEF Render
<1>3. CASE \E i \in seen + 1 .. n : Watched(events[i])
  <2>1. fetch' = Append(Overtaken(fetch), Sent)
    BY <1>1, <1>3
  <2>2. /\ Len(fetch') = Len(fetch) + 1 /\ DOMAIN fetch' = 1 .. Len(fetch')
        /\ fetch'[Len(fetch')] = Sent
        /\ \A i \in 1 .. Len(fetch) : ~fetch'[i].live
    BY <2>1, Overtaking
  <2>3. Len(fetch) \in Nat
    BY RequestAt
  <2>4. Sent.live /\ Sent.at # "answered"
    BY DEF Sent
  <2>5. \A i \in DOMAIN fetch' : fetch'[i].live => i = Len(fetch')
    BY <2>2, <2>3
  <2>6. Len(fetch') \in DOMAIN fetch' /\ fetch'[Len(fetch')].live
    BY <2>2, <2>3, <2>4
  <2>7. QED
    BY <2>2, <2>4, <2>5, <2>6 DEF Answering
<1>4. CASE ~\E i \in seen + 1 .. n : Watched(events[i])
  <2>1. /\ Len(events) \in Nat /\ DOMAIN events = 1 .. Len(events) /\ seen \in 0 .. Len(events)
        /\ which \in Views
    BY EventAt DEF Inv, TypeOK
  <2>2. which = "report"
    BY <1>1, <1>4, <2>1 DEF Watched, Views
  <2>3. \A i \in seen + 1 .. n : events[i].path # Report
    BY <1>4 DEF Watched
  <2>4. Unseen => Unseen'
    BY <1>1, <1>2, <2>1, <2>3 DEF Unseen, drive
  <2>5. Pending' = Pending /\ cut' = cut /\ At(table, Report)' = At(table, Report) /\ which' = which
    BY <1>2 DEF drive, Pending, Left, At
  <2>6. Lasting
    BY <2>2, <2>4, <2>5 DEF Lasting, Current
  <2>7. fetch' = fetch /\ view' = view
    BY <1>1, <1>2, <1>4
  <2>8. QED
    BY <2>6, <2>7 DEF Answering, Lasting
<1>5. QED
  BY <1>3, <1>4

\* What the page may show depends on the drive and on what it has seen.
LEMMA LastingView ==
    ASSUME UNCHANGED <<drive, seen, which>>
    PROVE  Lasting
<1>1. At(table, Report)' = At(table, Report) /\ (cut \cup Pending)' = cut \cup Pending
  BY DEF drive, At, Pending, Left
<1>2. QED
  BY <1>1, LastingReport DEF drive

\* An answer is current when it is given.
LEMMA AnswerCurrent ==
    ASSUME Inv, NEW reply \in {Answer, Error}
    PROVE  Current(reply)
<1>1. CASE reply = Error
  BY <1>1 DEF Current
<1>2. CASE reply = Answer /\ which = "sources"
  <2>1. evidence \in Nat /\ reply = evidence
    BY <1>2, Numbers DEF Inv, TypeOK, Answer, ListEvidence
  <2>2. QED
    BY <1>2, <2>1 DEF Current, Inv, Told
<1>3. CASE reply = Answer /\ which # "sources"
  <2>1. which = "report"
    BY <1>3 DEF Inv, TypeOK, Views
  <2>2. QED
    BY <1>3, <2>1 DEF Current, Answer, GetArtifact, At
<1>4. QED
  BY <1>1, <1>2, <1>3

\* What is shown of requests after a step, said of values.
LEMMA NewAnswering ==
    ASSUME \A j \in DOMAIN fetch' : fetch'[j].live => j = Len(fetch'),
           \A v : \A j \in DOMAIN fetch' :
               fetch'[j].live /\ fetch'[j].at = "answered" /\ v = fetch'[j].reply => Current(v)',
           \A v : (\A j \in DOMAIN fetch' : ~fetch'[j].live) /\ v = view' => Current(v)'
    PROVE  Answering'
BY DEF Answering, Current

LEMMA ServeAnswering ==
    ASSUME Inv, Answering, Serve
    PROVE  Answering'
<1>1. PICK i \in DOMAIN fetch, reply \in {Answer, Error} :
          fetch' = [fetch EXCEPT ![i].at = "answered", ![i].reply = reply]
  BY DEF Serve
<1>2. /\ Len(fetch') = Len(fetch) /\ DOMAIN fetch' = DOMAIN fetch
      /\ fetch'[i].at = "answered" /\ fetch'[i].reply = reply /\ fetch'[i].live = fetch[i].live
      /\ \A j \in DOMAIN fetch : j # i => fetch'[j] = fetch[j]
  BY <1>1, Serving
<1>3. UNCHANGED <<drive, seen, which, view>>
  BY DEF Serve
<1>4. Lasting
  BY <1>3, LastingView
<1>5. Current(reply)'
  BY <1>4, AnswerCurrent DEF Lasting
<1>6. \A j \in DOMAIN fetch : fetch'[j].live = fetch[j].live
  BY <1>2
<1>7. ASSUME NEW v, NEW j \in DOMAIN fetch', fetch'[j].live, fetch'[j].at = "answered",
             v = fetch'[j].reply
      PROVE  Current(v)'
  <2>1. CASE j = i
    <3>1. v = reply
      BY <1>2, <1>7, <2>1
    <3>2. QED
      BY <1>5, <3>1
  <2>2. CASE j # i
    <3>1. fetch'[j] = fetch[j] /\ j \in DOMAIN fetch
      BY <1>2, <1>7, <2>2
    <3>2. Current(fetch[j].reply)
      BY <1>7, <3>1 DEF Answering
    <3>3. v = fetch[j].reply
      BY <1>7, <3>1
    <3>4. Current(v)
      BY <3>2, <3>3
    <3>5. QED
      BY <1>4, <3>4 DEF Lasting
  <2>3. QED
    BY <2>1, <2>2
<1>8. ASSUME NEW v, \A j \in DOMAIN fetch' : ~fetch'[j].live, v = view'
      PROVE  Current(v)'
  <2>1. (\A j \in DOMAIN fetch : ~fetch[j].live) /\ v = view
    BY <1>2, <1>3, <1>6, <1>8
  <2>2. Current(v)
    BY <2>1 DEF Answering
  <2>3. QED
    BY <1>4, <2>2 DEF Lasting
<1>9. \A j \in DOMAIN fetch' : fetch'[j].live => j = Len(fetch')
  BY <1>2, <1>6 DEF Answering
<1>10. QED
  BY <1>7, <1>8, <1>9, NewAnswering

LEMMA ArriveAnswering ==
    ASSUME Inv, Answering, Arrive
    PROVE  Answering'
<1>1. PICK i \in DOMAIN fetch :
          /\ fetch[i].at = "answered"
          /\ fetch' = Without(fetch, i)
          /\ view' = IF fetch[i].live THEN fetch[i].reply ELSE view
  BY DEF Arrive
<1>2. /\ Len(fetch) \in Nat /\ DOMAIN fetch = 1 .. Len(fetch)
      /\ Len(fetch') = Len(fetch) - 1 /\ DOMAIN fetch' = 1 .. Len(fetch')
      /\ \A j \in 1 .. Len(fetch') : fetch'[j] = IF j < i THEN fetch[j] ELSE fetch[j + 1]
  BY <1>1, RequestAt, Leaving
<1>3. Lasting
  BY LastingView DEF Arrive
<1>4. ASSUME NEW j \in DOMAIN fetch'
      PROVE  \E k \in DOMAIN fetch : k # i /\ fetch'[j] = fetch[k] /\ (k = Len(fetch) => j = Len(fetch'))
  <2>1. CASE j < i
    BY <1>1, <1>2, <1>4, <2>1
  <2>2. CASE ~(j < i)
    BY <1>1, <1>2, <1>4, <2>2
  <2>3. QED
    BY <2>1, <2>2
<1>5. \A j \in DOMAIN fetch' : fetch'[j].live => j = Len(fetch')
  BY <1>4 DEF Answering
<1>6. ASSUME NEW v, NEW j \in DOMAIN fetch', fetch'[j].live, fetch'[j].at = "answered",
             v = fetch'[j].reply
      PROVE  Current(v)'
  <2>1. PICK k \in DOMAIN fetch : fetch'[j] = fetch[k]
    BY <1>4, <1>6
  <2>2. fetch[k].live /\ fetch[k].at = "answered" /\ v = fetch[k].reply
    BY <1>6, <2>1
  <2>3. Current(v)
    BY <2>2 DEF Answering
  <2>4. QED
    BY <1>3, <2>3 DEF Lasting
<1>7. ASSUME NEW v, \A j \in DOMAIN fetch' : ~fetch'[j].live, v = view'
      PROVE  Current(v)'
  <2>1. CASE fetch[i].live
    <3>1. v = fetch[i].reply
      BY <1>1, <1>7, <2>1
    <3>2. Current(v)
      BY <1>1, <2>1, <3>1 DEF Answering
    <3>3. QED
      BY <1>3, <3>2 DEF Lasting
  <2>2. CASE ~fetch[i].live
    <3>1. ASSUME NEW k \in DOMAIN fetch
          PROVE  ~fetch[k].live
      <4>1. CASE k < i
        <5>1. k \in DOMAIN fetch' /\ fetch'[k] = fetch[k]
          BY <1>1, <1>2, <4>1
        <5>2. QED
          BY <1>7, <5>1
      <4>2. CASE k > i
        <5>1. k - 1 \in DOMAIN fetch' /\ fetch'[k - 1] = fetch[k]
          BY <1>1, <1>2, <4>2
        <5>2. QED
          BY <1>7, <5>1
      <4>3. CASE k = i
        BY <2>2, <4>3
      <4>4. QED
        BY <1>1, <1>2, <4>1, <4>2, <4>3
    <3>2. v = view
      BY <1>1, <1>7, <2>2
    <3>3. Current(v)
      BY <3>1, <3>2 DEF Answering
    <3>4. QED
      BY <1>3, <3>3 DEF Lasting
  <2>3. QED
    BY <2>1, <2>2
<1>8. QED
  BY <1>5, <1>6, <1>7, NewAnswering

LEMMA NextAnswering ==
    ASSUME Inv, Answering, [Next]_vars
    PROVE  Answering'
<1>1. ASSUME NEW s \in Stages, Gather(s)
      PROVE  Answering'
  <2>1. node.pc # "announce" /\ node'.pc # "announce" /\ UNCHANGED <<table, events, cut, page>>
    BY <1>1 DEF Gather, Stop, Work, Ready
  <2>2. QED
    BY <2>1, QuietAnswering
<1>2. ASSUME NEW path \in {Report, Audit}, Conclude(path)
      PROVE  Answering'
  <2>1. node.pc # "announce" /\ node'.pc # "announce" /\ UNCHANGED <<table, events, cut, page>>
    BY <1>2 DEF Conclude, Work
  <2>2. QED
    BY <2>1, QuietAnswering
<1>3. CASE PersistRow
  <2>1. node' = [pc |-> "persist", files |-> node.files, at |-> node.at + 1,
                 rows |-> Put(node.rows, File.path, File.content),
                 merged |-> Put(node.merged, File.path, File.content)]
    <3>1. /\ node = [pc |-> node.pc, files |-> node.files, at |-> node.at,
                     rows |-> node.rows, merged |-> node.merged]
          /\ node.pc = "persist"
      BY <1>3 DEF Inv, NodeOK, PersistRow
    <3>2. QED
      BY <1>3, <3>1 DEF PersistRow
  <2>2. node.pc # "announce" /\ node'.pc # "announce" /\ UNCHANGED <<table, events, cut, page>>
    BY <1>3, <2>1 DEF PersistRow
  <2>3. QED
    BY <2>2, QuietAnswering
<1>4. CASE UNCHANGED vars
  BY <1>4, LastingView, LastingAnswers DEF vars, page
<1>5. QED
  BY <1>1, <1>2, <1>3, <1>4, CommitAnswering, AnnounceAnswering, StopAnswering,
     RegisterAnswering, FramingAnswering, RenderAnswering, ServeAnswering, ArriveAnswering
     DEF Next, Node, View

\* However the answers are reordered, a page that waits for nothing shows the
\* report that is stored, and the sources that were announced (ReportView.tsx:24,
\* SourcesSidebar.tsx:36).
THEOREM PageShowsStored == Spec => []PageCurrent
<1>1. ASSUME Inv, Answering
      PROVE  PageCurrent
  <2>1. SUFFICES ASSUME seen = Len(events), fetch = <<>>, view # Error
                 PROVE  /\ which = "report" /\ Report \notin cut \cup Pending => view = GetArtifact(Report)
                        /\ which = "sources" /\ events # <<>> => view >= events[Len(events)].known
    BY DEF PageCurrent
  <2>2. Current(view)
    <3>1. DOMAIN fetch = {}
      BY <2>1
    <3>2. QED
      BY <1>1, <3>1 DEF Answering
  <2>3. /\ Len(events) \in Nat /\ DOMAIN events = 1 .. Len(events)
        /\ events # <<>> => Len(events) # 0
        /\ \A i \in DOMAIN events : events[i].known \in Nat
    BY <1>1, EventAt, EmptySeq DEF Inv, TypeOK
  <2>4. ~Unseen
    BY <2>1, <2>3 DEF Unseen
  <2>5. which = "report" /\ Report \notin cut \cup Pending => view = GetArtifact(Report)
    BY <2>1, <2>2, <2>4 DEF Current, GetArtifact, At
  <2>6. ASSUME which = "sources", events # <<>>
        PROVE  view >= events[Len(events)].known
    <3>1. view \in Nat /\ \A i \in DOMAIN events : i <= seen => events[i].known <= view
      BY <2>1, <2>2, <2>6 DEF Current
    <3>2. Len(events) \in DOMAIN events /\ Len(events) <= seen
      BY <2>1, <2>3, <2>6
    <3>3. QED
      BY <2>3, <3>1, <3>2
  <2>7. QED
    BY <2>5, <2>6
<1>2. Inv /\ Answering /\ [Next]_vars => (Inv /\ Answering)'
  BY NextInv, NextAnswering
<1>3. Init => Inv /\ Answering
  BY InitInv, InitAnswering
<1>4. QED
  BY <1>1, <1>2, <1>3, PTL DEF Spec
===============================================================================
