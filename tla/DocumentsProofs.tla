--------------------------- MODULE DocumentsProofs --------------------------
(***************************************************************************)
(* What a stored document, its status and the page's list rest on, for any *)
(* number of documents, faults, crashes and shutdowns; and the chunks of   *)
(* its text, for every text and every target and overlap.                  *)
(***************************************************************************)
EXTENDS Documents, Chunker, TLAPS

\* The bounded counters are numbers.
LEMMA Counts == TypeOK => faults \in Nat /\ stops \in Nat
BY DocumentsAssumption DEF TypeOK

\* A stop of the backend respects its bound.
LEMMA StopType ==
    ASSUME TypeOK, Stop
    PROVE  up' \in BOOLEAN /\ faults' \in 0 .. MaxFaults /\ stops' \in 0 .. MaxStops
<1>1. faults \in 0 .. MaxFaults /\ stops \in 0 .. MaxStops
  BY DEF TypeOK
<1>2. up' \in BOOLEAN
  BY DEF Stop
<1>3. faults' \in 0 .. MaxFaults
  BY <1>1 DEF Stop
<1>4. stops < MaxStops /\ stops' = stops + 1
  BY DEF Stop
<1>5. stops' \in 0 .. MaxStops
  BY <1>1, <1>4, DocumentsAssumption
<1>6. QED
  BY <1>2, <1>3, <1>5

\* Every step keeps every variable in its range.
LEMMA TypeStep ==
    ASSUME TypeOK, Requests, [Next]_vars
    PROVE  TypeOK'
<1>1. CASE SelectFiles
  BY <1>1 DEF SelectFiles, TypeOK, Steps, Status, Stored, Calm, Fault, page,
     store
<1>2. CASE \E d \in Docs : WriteFile(d)
  BY <1>2, DocumentsAssumption DEF WriteFile, UploadGoes, TypeOK, Steps, Status,
     Stored, Calm, Fault, page, store
<1>3. CASE \E d \in Docs : CommitRow(d)
  <2>1. PICK d \in Docs : CommitRow(d)
    BY <1>3
  <2>2. row' \in [Docs -> Status]
    BY <2>1 DEF CommitRow, TypeOK, Status
  <2>3. /\ upload' \in [Docs -> {"idle", "flush", "commit", "refresh", "ok", "failed"}]
        /\ \A e \in Docs : upload[e] = "ok" => upload'[e] = "ok"
    BY <2>1 DEF CommitRow, UploadGoes, TypeOK
  <2>4. up' \in BOOLEAN /\ faults' \in 0 .. MaxFaults /\ stops' \in 0 .. MaxStops
    BY <2>1, DocumentsAssumption DEF CommitRow, Calm, Fault, TypeOK
  <2>5. QED
    BY <2>1, <2>2, <2>3, <2>4 DEF CommitRow, TypeOK, page
<1>4. CASE \E d \in Docs : Schedule(d)
  <2>1. PICK d \in Docs : Schedule(d)
    BY <1>4
  <2>2. ingest' \in [Docs -> [at : Steps, to : Status]]
    BY <2>1 DEF Schedule, At, TypeOK, Steps, Status
  <2>3. /\ upload' \in [Docs -> {"idle", "flush", "commit", "refresh", "ok", "failed"}]
        /\ \A e \in Docs : ingest'[e].at # "none" \/ e \in shown' => upload'[e] = "ok"
    BY <2>1 DEF Schedule, UploadGoes, At, TypeOK, page
  <2>4. up' \in BOOLEAN /\ faults' \in 0 .. MaxFaults /\ stops' \in 0 .. MaxStops
    BY <2>1, DocumentsAssumption DEF Schedule, Calm, Fault, TypeOK
  <2>5. QED
    BY <2>1, <2>2, <2>3, <2>4 DEF Schedule, TypeOK, page, store
<1>5. CASE Uploaded
  BY <1>5 DEF Uploaded, TypeOK, Steps, Status, Stored, Calm, Fault, page, store
<1>6. CASE \E d \in Docs : Remove(d)
  BY <1>6 DEF Remove, DeleteGoes, TypeOK, Steps, Status, Stored, Calm, Fault,
     page, store
<1>7. CASE \E d \in Docs : FindRow(d)
  BY <1>7, DocumentsAssumption DEF FindRow, DeleteGoes, TypeOK, Steps, Status,
     Stored, Calm, Fault, page, store
<1>8. CASE \E d \in Docs : DeleteRow(d)
  <2>1. PICK d \in Docs : DeleteRow(d)
    BY <1>8
  <2>2. row' \in [Docs -> Status] /\ chunks' \subseteq Docs
    BY <2>1 DEF DeleteRow, Gone, TypeOK, Status
  <2>3. delete' \in [Docs -> {"idle", "find", "commit", "unlink", "ok", "failed"}]
    BY <2>1 DEF DeleteRow, DeleteGoes, TypeOK
  <2>4. up' \in BOOLEAN /\ faults' \in 0 .. MaxFaults /\ stops' \in 0 .. MaxStops
    BY <2>1, DocumentsAssumption DEF DeleteRow, Calm, Fault, TypeOK
  <2>5. QED
    BY <2>1, <2>2, <2>3, <2>4 DEF DeleteRow, TypeOK, page
<1>9. CASE \E d \in Docs : Unlink(d)
  <2>1. PICK d \in Docs : Unlink(d)
    BY <1>9
  <2>2. files' \subseteq Docs /\ delete' \in [Docs -> {"idle", "find", "commit", "unlink", "ok", "failed"}]
    BY <2>1 DEF Unlink, DeleteGoes, TypeOK
  <2>3. up' \in BOOLEAN /\ faults' \in 0 .. MaxFaults /\ stops' \in 0 .. MaxStops
    BY <2>1, DocumentsAssumption DEF Unlink, Calm, Fault, TypeOK
  <2>4. QED
    BY <2>1, <2>2, <2>3 DEF Unlink, TypeOK, page
<1>10. CASE \E d \in Docs : Removed(d)
  BY <1>10 DEF Removed, DeleteGoes, TypeOK, Steps, Status, Stored, Calm, Fault,
     page, store, Requests
<1>11. CASE \E d \in Docs : Begin(d)
  <2>1. PICK d \in Docs : Begin(d)
    BY <1>11
  <2>2. ingest' \in [Docs -> [at : Steps, to : Status]]
    BY <2>1 DEF Begin, IngestGoes, At, TypeOK, Steps, Status
  <2>3. \A e \in Docs : ingest'[e].at # "none" => ingest[e].at # "none"
    BY <2>1 DEF Begin, IngestGoes, At, TypeOK
  <2>4. QED
    BY <2>1, <2>2, <2>3 DEF Begin, TypeOK, Calm, page, store
<1>12. CASE \E d \in Docs : Lookup(d)
  <2>1. PICK d \in Docs : Lookup(d)
    BY <1>12
  <2>2. ingest' \in [Docs -> [at : Steps, to : Status]]
    BY <2>1 DEF Lookup, IngestGoes, At, Raise, Handling, TypeOK, Steps, Status
  <2>3. \A e \in Docs : ingest'[e].at # "none" => ingest[e].at # "none"
    BY <2>1 DEF Lookup, IngestGoes, At, Raise, Handling, TypeOK
  <2>4. QED
    BY <2>1, <2>2, <2>3 DEF Lookup, TypeOK, Calm, page, store
<1>13. CASE \E d \in Docs : CheckFile(d)
  <2>1. PICK d \in Docs : CheckFile(d)
    BY <1>13
  <2>2. ingest' \in [Docs -> [at : Steps, to : Status]]
    BY <2>1 DEF CheckFile, IngestGoes, At, Raise, Handling, TypeOK, Steps, Status
  <2>3. \A e \in Docs : ingest'[e].at # "none" => ingest[e].at # "none"
    BY <2>1 DEF CheckFile, IngestGoes, At, Raise, Handling, TypeOK
  <2>4. QED
    BY <2>1, <2>2, <2>3 DEF CheckFile, TypeOK, Calm, page, store
<1>14. CASE \E d \in Docs : ReadRow(d)
  <2>1. PICK d \in Docs : ReadRow(d)
    BY <1>14
  <2>2. ingest' \in [Docs -> [at : Steps, to : Status]]
    BY <2>1 DEF ReadRow, IngestGoes, At, Continue, TypeOK, Steps, Status
  <2>3. \A e \in Docs : ingest'[e].at # "none" => ingest[e].at # "none"
    BY <2>1 DEF ReadRow, IngestGoes, At, Continue, TypeOK
  <2>4. QED
    BY <2>1, <2>2, <2>3 DEF ReadRow, TypeOK, Calm, page, store
<1>15. CASE \E d \in Docs : SetStatus(d)
  <2>1. PICK d \in Docs : SetStatus(d)
    BY <1>15
  <2>2. row' \in [Docs -> Status]
    BY <2>1 DEF SetStatus, TypeOK
  <2>3. /\ ingest' \in [Docs -> [at : Steps, to : Status]]
        /\ \A e \in Docs : ingest'[e].at # "none" => ingest[e].at # "none"
    BY <2>1 DEF SetStatus, IngestGoes, At, Continue, Raise, Handling, TypeOK, Steps, Status
  <2>4. QED
    BY <2>1, <2>2, <2>3 DEF SetStatus, TypeOK, Calm, page
<1>16. CASE \E d \in Docs : Parse(d)
  <2>1. PICK d \in Docs : Parse(d)
    BY <1>16
  <2>2. ingest' \in [Docs -> [at : Steps, to : Status]]
    BY <2>1 DEF Parse, IngestGoes, At, Raise, Handling, TypeOK, Steps, Status
  <2>3. \A e \in Docs : ingest'[e].at # "none" => ingest[e].at # "none"
    BY <2>1 DEF Parse, IngestGoes, At, Raise, Handling, TypeOK
  <2>4. QED
    BY <2>1, <2>2, <2>3 DEF Parse, TypeOK, Calm, page, store
<1>17. CASE \E d \in Docs : Embed(d)
  <2>1. PICK d \in Docs : Embed(d)
    BY <1>17
  <2>2. ingest' \in [Docs -> [at : Steps, to : Status]]
    BY <2>1 DEF Embed, IngestGoes, At, Raise, Handling, TypeOK, Steps, Status
  <2>3. \A e \in Docs : ingest'[e].at # "none" => ingest[e].at # "none"
    BY <2>1 DEF Embed, IngestGoes, At, Raise, Handling, TypeOK
  <2>4. QED
    BY <2>1, <2>2, <2>3 DEF Embed, TypeOK, Calm, page, store
<1>18. CASE \E d \in Docs : Persist(d)
  <2>1. PICK d \in Docs : Persist(d)
    BY <1>18
  <2>2. ingest' \in [Docs -> [at : Steps, to : Status]]
    BY <2>1 DEF Persist, IngestGoes, At, Raise, Handling, TypeOK, Steps, Status
  <2>3. \A e \in Docs : ingest'[e].at # "none" => ingest[e].at # "none"
    BY <2>1 DEF Persist, IngestGoes, At, Raise, Handling, TypeOK
  <2>4. QED
    BY <2>1, <2>2, <2>3 DEF Persist, TypeOK, Calm, page, store
<1>19. CASE \E d \in Docs : CallFails(d)
  BY <1>19, DocumentsAssumption DEF CallFails, IngestGoes, At, Raise, Handling,
     Applied, TypeOK, Steps, Status, Stored, Calm, Fault, page, store
<1>20. CASE Crash
  <2>1. ingest' \in [Docs -> [at : Steps, to : Status]]
    BY <1>20 DEF Crash, At, TypeOK, Steps, Status
  <2>2. /\ upload' \in [Docs -> {"idle", "flush", "commit", "refresh", "ok", "failed"}]
        /\ delete' \in [Docs -> {"idle", "find", "commit", "unlink", "ok", "failed"}]
    BY <1>20 DEF Crash, TypeOK
  <2>3. up' \in BOOLEAN /\ faults' \in 0 .. MaxFaults /\ stops' \in 0 .. MaxStops
    BY <1>20, StopType DEF Crash
  <2>4. \A d \in Docs : ingest'[d].at # "none" \/ d \in shown' => upload'[d] = "ok"
    BY <1>20 DEF Crash, Ingesting, At, TypeOK, page
  <2>5. QED
    BY <1>20, <2>1, <2>2, <2>3, <2>4 DEF Crash, TypeOK, store, page
<1>21. CASE Shutdown
  <2>1. ingest' \in [Docs -> [at : Steps, to : Status]]
    BY <1>21 DEF Shutdown, At, TypeOK, Steps, Status
  <2>2. row' \in [Docs -> Status] /\ chunks' \subseteq Docs
    BY <1>21 DEF Shutdown, Applied, TypeOK, Stored
  <2>3. up' \in BOOLEAN /\ faults' \in 0 .. MaxFaults /\ stops' \in 0 .. MaxStops
    BY <1>21, StopType DEF Shutdown
  <2>4. \A d \in Docs : ingest'[d].at # "none" \/ d \in shown' => upload'[d] = "ok"
    BY <1>21 DEF Shutdown, Ingesting, At, TypeOK, page
  <2>5. QED
    BY <1>21, <2>1, <2>2, <2>3, <2>4 DEF Shutdown, TypeOK, page
<1>22. CASE Start
  BY <1>22 DEF Start, TypeOK, Steps, Status, Stored, Calm, Fault, page, store
<1>23. CASE UNCHANGED <<vars>>
  BY <1>23 DEF TypeOK, vars, page, store
<1>24. QED
  BY <1>1, <1>2, <1>3, <1>4, <1>5, <1>6, <1>7, <1>8, <1>9, <1>10, <1>11, <1>12,
     <1>13, <1>14, <1>15, <1>16, <1>17, <1>18, <1>19, <1>20, <1>21, <1>22, <1>23
     DEF Next, RequestStep, IngestStep, vars, page, store, Calm, Stop

\* After every step a stored document has its file.
LEMMA FilesStep ==
    ASSUME TypeOK, Requests, FileKept, [Next]_vars
    PROVE  FileKept'
<1>1. CASE \E d \in Docs : WriteFile(d)
  BY <1>1 DEF WriteFile, UploadGoes, TypeOK, Requests, FileKept, Stored, store
<1>2. CASE \E d \in Docs : CommitRow(d)
  BY <1>2 DEF CommitRow, UploadGoes, TypeOK, Requests, FileKept, Stored, store
<1>3. CASE \E d \in Docs : DeleteRow(d)
  BY <1>3 DEF DeleteRow, DeleteGoes, Gone, TypeOK, Requests, FileKept, Stored,
     store
<1>4. CASE \E d \in Docs : Unlink(d)
  BY <1>4 DEF Unlink, DeleteGoes, TypeOK, Requests, FileKept, Stored, store
<1>5. CASE \E d \in Docs : SetStatus(d)
  BY <1>5 DEF SetStatus, IngestGoes, At, Continue, Raise, Handling, TypeOK,
     Requests, FileKept, Stored, store
<1>6. CASE \E d \in Docs : CallFails(d)
  BY <1>6 DEF CallFails, IngestGoes, At, Raise, Handling, Applied, TypeOK,
     Requests, FileKept, Stored, store
<1>7. CASE Shutdown
  BY <1>7 DEF Shutdown, Stop, Ingesting, At, Handling, Applied, TypeOK,
     Requests, FileKept, Stored, store
<1>8. CASE UNCHANGED <<row, files>>
  BY <1>8 DEF FileKept, Stored
<1>9. QED
  BY <1>1, <1>2, <1>3, <1>4, <1>5, <1>6, <1>7, <1>8 DEF Next, RequestStep,
     IngestStep, vars, page, store, Calm, Stop, SelectFiles, Schedule, Uploaded,
     Remove, FindRow, Removed, Begin, Lookup, CheckFile, ReadRow, Parse, Embed,
     Persist, Crash, Start

\* After every step the chunks belong to stored documents, and a ready one has its own.
LEMMA IndexStep ==
    ASSUME TypeOK, Requests, Indexed, Progress, [Next]_vars
    PROVE  Indexed'
<1>1. CASE \E d \in Docs : CommitRow(d)
  BY <1>1 DEF CommitRow, UploadGoes, TypeOK, Requests, Progress, Indexed,
     Stored, store
<1>2. CASE \E d \in Docs : DeleteRow(d)
  BY <1>2 DEF DeleteRow, DeleteGoes, Gone, TypeOK, Requests, Progress, Indexed,
     Stored, store
<1>3. CASE \E d \in Docs : SetStatus(d)
  BY <1>3 DEF SetStatus, IngestGoes, At, Continue, Raise, Handling, TypeOK,
     Requests, Progress, Indexed, Stored, store
<1>4. CASE \E d \in Docs : Persist(d)
  BY <1>4 DEF Persist, IngestGoes, At, Raise, Handling, TypeOK, Requests,
     Progress, Indexed, Stored, store
<1>5. CASE \E d \in Docs : CallFails(d)
  BY <1>5 DEF CallFails, IngestGoes, At, Raise, Handling, Applied, TypeOK,
     Requests, Progress, Indexed, Stored, store
<1>6. CASE Shutdown
  BY <1>6 DEF Shutdown, Stop, Ingesting, At, Handling, Applied, TypeOK,
     Requests, Progress, Indexed, Stored, store
<1>7. CASE UNCHANGED <<row, chunks>>
  BY <1>7 DEF Indexed, Stored
<1>8. QED
  BY <1>1, <1>2, <1>3, <1>4, <1>5, <1>6, <1>7 DEF Next, RequestStep, IngestStep,
     vars, page, store, Calm, Stop, SelectFiles, WriteFile, Schedule, Uploaded,
     Remove, FindRow, Unlink, Removed, Begin, Lookup, CheckFile, ReadRow, Parse,
     Embed, Crash, Start

\* After every step a request that is under way fits its row.
LEMMA RequestsStep ==
    ASSUME TypeOK, Requests, Progress, [Next]_vars
    PROVE  Requests'
<1>1. CASE SelectFiles
  BY <1>1 DEF SelectFiles, TypeOK, Requests, Progress, Stored, store, page
<1>2. CASE \E d \in Docs : WriteFile(d)
  BY <1>2 DEF WriteFile, UploadGoes, TypeOK, Requests, Progress, Stored, store,
     page
<1>3. CASE \E d \in Docs : CommitRow(d)
  BY <1>3 DEF CommitRow, UploadGoes, TypeOK, Requests, Progress, Stored, store,
     page
<1>4. CASE \E d \in Docs : Schedule(d)
  BY <1>4 DEF Schedule, UploadGoes, At, TypeOK, Requests, Progress, Stored,
     store, page
<1>5. CASE \E d \in Docs : Remove(d)
  BY <1>5 DEF Remove, DeleteGoes, TypeOK, Requests, Progress, Stored, store,
     page
<1>6. CASE \E d \in Docs : FindRow(d)
  BY <1>6 DEF FindRow, DeleteGoes, TypeOK, Requests, Progress, Stored, store,
     page
<1>7. CASE \E d \in Docs : DeleteRow(d)
  BY <1>7 DEF DeleteRow, DeleteGoes, Gone, TypeOK, Requests, Progress, Stored,
     store, page
<1>8. CASE \E d \in Docs : Unlink(d)
  BY <1>8 DEF Unlink, DeleteGoes, TypeOK, Requests, Progress, Stored, store,
     page
<1>9. CASE \E d \in Docs : Removed(d)
  BY <1>9 DEF Removed, DeleteGoes, TypeOK, Requests, Progress, Stored, store,
     page
<1>10. CASE \E d \in Docs : SetStatus(d)
  BY <1>10 DEF SetStatus, IngestGoes, At, Continue, Raise, Handling, TypeOK,
     Requests, Progress, Stored, store, page
<1>11. CASE \E d \in Docs : CallFails(d)
  BY <1>11 DEF CallFails, IngestGoes, At, Raise, Handling, Applied, TypeOK,
     Requests, Progress, Stored, store, page
<1>12. CASE Crash
  BY <1>12 DEF Crash, Stop, Ingesting, At, TypeOK, Requests, Progress, Stored,
     store, page
<1>13. CASE Shutdown
  BY <1>13 DEF Shutdown, Stop, Ingesting, At, Handling, Applied, TypeOK,
     Requests, Progress, Stored, store, page
<1>14. CASE UNCHANGED <<row, files, upload, delete>>
  BY <1>14 DEF Requests
<1>15. QED
  BY <1>1, <1>2, <1>3, <1>4, <1>5, <1>6, <1>7, <1>8, <1>9, <1>10, <1>11, <1>12,
     <1>13, <1>14 DEF Next, RequestStep, IngestStep, vars, page, store, Calm,
     Stop, Uploaded, Begin, Lookup, CheckFile, ReadRow, Parse, Embed, Persist,
     Start

\* After every step a task that ended left its document as it should.
LEMMA CleanStep ==
    ASSUME TypeOK, Progress, CleanEnd, [Next]_vars
    PROVE  CleanEnd'
<1>1. CASE \E d \in Docs : WriteFile(d)
  BY <1>1, Counts DEF WriteFile, UploadGoes, TypeOK, Progress, CleanEnd, Stored,
     store, Fault, Calm, Steps
<1>2. CASE \E d \in Docs : CommitRow(d)
  BY <1>2, Counts DEF CommitRow, UploadGoes, TypeOK, Progress, CleanEnd, Stored,
     store, Fault, Calm, Steps
<1>3. CASE \E d \in Docs : Schedule(d)
  BY <1>3, Counts DEF Schedule, UploadGoes, At, TypeOK, Progress, CleanEnd,
     Stored, store, Fault, Calm, Steps
<1>4. CASE \E d \in Docs : FindRow(d)
  BY <1>4, Counts DEF FindRow, DeleteGoes, TypeOK, Progress, CleanEnd, Stored,
     store, Fault, Calm, Steps
<1>5. CASE \E d \in Docs : DeleteRow(d)
  BY <1>5, Counts DEF DeleteRow, DeleteGoes, Gone, TypeOK, Progress, CleanEnd,
     Stored, store, Fault, Calm, Steps
<1>6. CASE \E d \in Docs : Unlink(d)
  BY <1>6, Counts DEF Unlink, DeleteGoes, TypeOK, Progress, CleanEnd, Stored,
     store, Fault, Calm, Steps
<1>7. CASE \E d \in Docs : Begin(d)
  BY <1>7 DEF Begin, IngestGoes, At, TypeOK, Progress, CleanEnd, Stored, store,
     Fault, Calm, Steps
<1>8. CASE \E d \in Docs : Lookup(d)
  BY <1>8 DEF Lookup, IngestGoes, At, Raise, Handling, TypeOK, Progress,
     CleanEnd, Stored, store, Fault, Calm, Steps
<1>9. CASE \E d \in Docs : CheckFile(d)
  BY <1>9 DEF CheckFile, IngestGoes, At, Raise, Handling, TypeOK, Progress,
     CleanEnd, Stored, store, Fault, Calm, Steps
<1>10. CASE \E d \in Docs : ReadRow(d)
  BY <1>10 DEF ReadRow, IngestGoes, At, Continue, TypeOK, Progress, CleanEnd,
     Stored, store, Fault, Calm, Steps
<1>11. CASE \E d \in Docs : SetStatus(d)
  BY <1>11 DEF SetStatus, IngestGoes, At, Continue, Raise, Handling, TypeOK,
     Progress, CleanEnd, Stored, store, Fault, Calm, Steps
<1>12. CASE \E d \in Docs : Parse(d)
  BY <1>12 DEF Parse, IngestGoes, At, Raise, Handling, TypeOK, Progress,
     CleanEnd, Stored, store, Fault, Calm, Steps
<1>13. CASE \E d \in Docs : Embed(d)
  BY <1>13 DEF Embed, IngestGoes, At, Raise, Handling, TypeOK, Progress,
     CleanEnd, Stored, store, Fault, Calm, Steps
<1>14. CASE \E d \in Docs : Persist(d)
  BY <1>14 DEF Persist, IngestGoes, At, Raise, Handling, TypeOK, Progress,
     CleanEnd, Stored, store, Fault, Calm, Steps
<1>15. CASE \E d \in Docs : CallFails(d)
  BY <1>15, Counts DEF CallFails, IngestGoes, At, Raise, Handling, Applied,
     TypeOK, Progress, CleanEnd, Stored, store, Fault, Calm, Steps
<1>16. CASE Crash
  BY <1>16, Counts DEF Crash, Stop, Ingesting, At, TypeOK, Progress, CleanEnd,
     Stored, store, Fault, Calm, Steps
<1>17. CASE Shutdown
  BY <1>17, Counts DEF Shutdown, Stop, Ingesting, At, Handling, Applied, TypeOK,
     Progress, CleanEnd, Stored, store, Fault, Calm, Steps
<1>18. CASE UNCHANGED <<row, ingest, faults, stops>>
  BY <1>18 DEF CleanEnd
<1>19. QED
  BY <1>1, <1>2, <1>3, <1>4, <1>5, <1>6, <1>7, <1>8, <1>9, <1>10, <1>11, <1>12,
     <1>13, <1>14, <1>15, <1>16, <1>17, <1>18 DEF Next, RequestStep, IngestStep,
     vars, page, store, Calm, Stop, SelectFiles, Uploaded, Remove, Removed,
     Start

\* After every step a running task finds a status that fits where it is.
LEMMA ProgressStep ==
    ASSUME TypeOK, Requests, Progress, [Next]_vars
    PROVE  Progress'
<1>1. CASE SelectFiles
  BY <1>1 DEF SelectFiles, TypeOK, Requests, Progress, Stored, store, Fault,
     Calm, Steps, Status, page
<1>2. CASE \E d \in Docs : WriteFile(d)
  BY <1>2, Counts DEF WriteFile, UploadGoes, TypeOK, Requests, Progress, Stored,
     store, Fault, Calm, Steps, Status, page
<1>3. CASE \E d \in Docs : CommitRow(d)
  BY <1>3, Counts DEF CommitRow, UploadGoes, TypeOK, Requests, Progress, Stored,
     store, Fault, Calm, Steps, Status, page
<1>4. CASE \E d \in Docs : Schedule(d)
  BY <1>4, Counts DEF Schedule, UploadGoes, At, TypeOK, Requests, Progress,
     Stored, store, Fault, Calm, Steps, Status, page
<1>5. CASE \E d \in Docs : FindRow(d)
  BY <1>5, Counts DEF FindRow, DeleteGoes, TypeOK, Requests, Progress, Stored,
     store, Fault, Calm, Steps, Status, page
<1>6. CASE \E d \in Docs : DeleteRow(d)
  BY <1>6, Counts DEF DeleteRow, DeleteGoes, Gone, TypeOK, Requests, Progress,
     Stored, store, Fault, Calm, Steps, Status, page
<1>7. CASE \E d \in Docs : Unlink(d)
  BY <1>7, Counts DEF Unlink, DeleteGoes, TypeOK, Requests, Progress, Stored,
     store, Fault, Calm, Steps, Status, page
<1>8. CASE \E d \in Docs : Begin(d)
  BY <1>8 DEF Begin, IngestGoes, At, TypeOK, Requests, Progress, Stored, store,
     Fault, Calm, Steps, Status, page
<1>9. CASE \E d \in Docs : Lookup(d)
  BY <1>9 DEF Lookup, IngestGoes, At, Raise, Handling, TypeOK, Requests,
     Progress, Stored, store, Fault, Calm, Steps, Status, page
<1>10. CASE \E d \in Docs : CheckFile(d)
  BY <1>10 DEF CheckFile, IngestGoes, At, Raise, Handling, TypeOK, Requests,
     Progress, Stored, store, Fault, Calm, Steps, Status, page
<1>11. CASE \E d \in Docs : ReadRow(d)
  BY <1>11 DEF ReadRow, IngestGoes, At, Continue, TypeOK, Requests, Progress,
     Stored, store, Fault, Calm, Steps, Status, page
<1>12. CASE \E d \in Docs : SetStatus(d)
  BY <1>12 DEF SetStatus, IngestGoes, At, Continue, Raise, Handling, TypeOK,
     Requests, Progress, Stored, store, Fault, Calm, Steps, Status, page
<1>13. CASE \E d \in Docs : Parse(d)
  BY <1>13 DEF Parse, IngestGoes, At, Raise, Handling, TypeOK, Requests,
     Progress, Stored, store, Fault, Calm, Steps, Status, page
<1>14. CASE \E d \in Docs : Embed(d)
  BY <1>14 DEF Embed, IngestGoes, At, Raise, Handling, TypeOK, Requests,
     Progress, Stored, store, Fault, Calm, Steps, Status, page
<1>15. CASE \E d \in Docs : Persist(d)
  BY <1>15 DEF Persist, IngestGoes, At, Raise, Handling, TypeOK, Requests,
     Progress, Stored, store, Fault, Calm, Steps, Status, page
<1>16. CASE \E d \in Docs : CallFails(d)
  BY <1>16, Counts DEF CallFails, IngestGoes, At, Raise, Handling, Applied,
     TypeOK, Requests, Progress, Stored, store, Fault, Calm, Steps, Status, page
<1>17. CASE Crash
  BY <1>17, Counts DEF Crash, Stop, Ingesting, At, TypeOK, Requests, Progress,
     Stored, store, Fault, Calm, Steps, Status, page
<1>18. CASE Shutdown
  BY <1>18, Counts DEF Shutdown, Stop, Ingesting, At, Handling, Applied, TypeOK,
     Requests, Progress, Stored, store, Fault, Calm, Steps, Status, page
<1>19. CASE UNCHANGED <<row, chunks, upload, ingest, faults, stops>>
  BY <1>19 DEF Progress
<1>20. QED
  BY <1>1, <1>2, <1>3, <1>4, <1>5, <1>6, <1>7, <1>8, <1>9, <1>10, <1>11, <1>12,
     <1>13, <1>14, <1>15, <1>16, <1>17, <1>18, <1>19 DEF Next, RequestStep,
     IngestStep, vars, page, store, Calm, Stop, Uploaded, Remove, Removed, Start

\* The page and its requests agree with what is stored.
LEMMA ListingStep ==
    ASSUME TypeOK, Requests, Progress, Listing, [Next]_vars
    PROVE  Listing'
<1>0. faults \in Nat /\ stops \in Nat
  BY Counts
<1>1. CASE SelectFiles
  BY <1>1 DEF SelectFiles, TypeOK, Requests, Listing, Refused, Stored, store, Calm
<1>2. CASE \E d \in Docs : WriteFile(d)
  BY <1>0, <1>2 DEF WriteFile, UploadGoes, TypeOK, Listing, Refused, Stored, Calm, Fault, page
<1>3. CASE \E d \in Docs : CommitRow(d)
  BY <1>0, <1>3 DEF CommitRow, UploadGoes, TypeOK, Requests, Listing, Refused, Stored, Calm,
     Fault, page
<1>4. CASE \E d \in Docs : Schedule(d)
  BY <1>0, <1>4 DEF Schedule, UploadGoes, TypeOK, Listing, Refused, Stored, Calm, Fault, store,
     page
<1>5. CASE Uploaded
  BY <1>5 DEF Uploaded, TypeOK, Listing, Refused, Stored, Calm, store
<1>6. CASE \E d \in Docs : Remove(d)
  BY <1>6 DEF Remove, DeleteGoes, TypeOK, Listing, Refused, Stored, Calm, store
<1>7. CASE \E d \in Docs : FindRow(d)
  BY <1>0, <1>7 DEF FindRow, DeleteGoes, TypeOK, Listing, Refused, Stored, Calm, Fault, store,
     page
<1>8. CASE \E d \in Docs : DeleteRow(d)
  BY <1>0, <1>8 DEF DeleteRow, DeleteGoes, Gone, TypeOK, Requests, Listing, Refused, Stored, Calm,
     Fault, page
<1>9. CASE \E d \in Docs : Unlink(d)
  BY <1>0, <1>9 DEF Unlink, DeleteGoes, TypeOK, Requests, Listing, Refused, Stored, Calm,
     Fault, page
<1>10. CASE \E d \in Docs : Removed(d)
  BY <1>10 DEF Removed, DeleteGoes, TypeOK, Listing, Refused, Stored, Calm, store
<1>11. CASE \E d \in Docs : SetStatus(d)
  BY <1>11 DEF SetStatus, TypeOK, Progress, Listing, Refused, Stored, Calm, page
<1>12. CASE \E d \in Docs : CallFails(d)
  BY <1>0, <1>12 DEF CallFails, Applied, TypeOK, Progress, Listing, Refused, Stored, Fault, page
<1>13. CASE Crash
  BY <1>0, <1>13 DEF Crash, Stop, TypeOK, Listing, Refused, Stored, store, page
<1>14. CASE Shutdown
  BY <1>0, <1>14 DEF Shutdown, Stop, Applied, TypeOK, Progress, Listing, Refused, Stored, page
<1>15. CASE UNCHANGED <<row, upload, delete, batch, shown, faults, stops>>
  BY <1>15 DEF Listing, Refused, Stored
<1>16. QED
  BY <1>1, <1>2, <1>3, <1>4, <1>5, <1>6, <1>7, <1>8, <1>9, <1>10, <1>11, <1>12, <1>13, <1>14,
     <1>15 DEF Next, RequestStep, IngestStep, vars, page, store, Calm, Begin, Lookup,
     CheckFile, ReadRow, Parse, Embed, Persist, Start

-----------------------------------------------------------------------------
(* The theorems.                                                           *)

\* The invariant holds at the start.
LEMMA InitInv == Init => DocumentsInv
BY DocumentsAssumption
   DEF Init, DocumentsInv, TypeOK, FileKept, Indexed, CleanEnd, Requests, Progress, Stored,
       At, Steps, Status, Listing, Refused

\* Every step keeps the invariant.
LEMMA StepInv == ASSUME DocumentsInv, [Next]_vars PROVE DocumentsInv'
BY TypeStep, FilesStep, IndexStep, CleanStep, RequestsStep, ProgressStep, ListingStep
   DEF DocumentsInv

\* The invariant holds of every reachable state.
THEOREM Safe == Spec => []DocumentsInv
<1>1. QED
  BY InitInv, StepInv, PTL DEF Spec

\* Every reachable state is well typed.
THEOREM TypeCorrect == Spec => []TypeOK
<1>1. DocumentsInv => TypeOK
  BY DEF DocumentsInv
<1>2. QED
  BY <1>1, Safe, PTL

\* A stored document has its file.
THEOREM FilesKept == Spec => []FileKept
<1>1. DocumentsInv => FileKept
  BY DEF DocumentsInv
<1>2. QED
  BY <1>1, Safe, PTL

\* What is searched is stored, and complete once the document is ready.
THEOREM IndexComplete == Spec => []Indexed
<1>1. DocumentsInv => Indexed
  BY DEF DocumentsInv
<1>2. QED
  BY <1>1, Safe, PTL

\* A task that returned leaves its document ready, failed or deleted.
THEOREM EndsClean == Spec => []CleanEnd
<1>1. DocumentsInv => CleanEnd
  BY DEF DocumentsInv
<1>2. QED
  BY <1>1, Safe, PTL

\* When nothing is under way the page lists what is stored.
THEOREM PageLists == Spec => []PageAgrees
<1>1. DocumentsInv => PageAgrees
  BY DEF DocumentsInv, TypeOK, Listing, PageAgrees, Quiet, Stored
<1>2. QED
  BY <1>1, Safe, PTL

\* Every step moves a status along the diagram.
LEMMA MovesStep ==
    ASSUME DocumentsInv, [Next]_vars
    PROVE  \A d \in Docs : row'[d] # row[d] => Move(d)
<1> USE DEF DocumentsInv, TypeOK, Requests, Progress, Move, Stored, store
<1>1. CASE \E d \in Docs : CommitRow(d)
  BY <1>1, Counts DEF CommitRow
<1>2. CASE \E d \in Docs : DeleteRow(d)
  BY <1>2, Counts DEF DeleteRow, Gone
<1>3. CASE \E d \in Docs : SetStatus(d)
  BY <1>3, Counts DEF SetStatus
<1>4. CASE \E d \in Docs : CallFails(d)
  BY <1>4, Counts DEF CallFails, Applied, Fault
<1>5. CASE Shutdown
  BY <1>5, Counts DEF Shutdown, Applied, Stop
<1>6. CASE UNCHANGED row
  BY <1>6
<1>7. QED
  BY <1>1, <1>2, <1>3, <1>4, <1>5, <1>6
     DEF Next, RequestStep, IngestStep, vars, page, SelectFiles, WriteFile, Schedule, Uploaded,
         Remove, FindRow, Unlink, Removed, Begin, Lookup, CheckFile, ReadRow, Parse, Embed,
         Persist, Crash, Start

\* The status of a document moves along the documented diagram.
THEOREM MovesAlong == Spec => StatusMoves
<1>1. DocumentsInv /\ [Next]_vars => [\A d \in Docs : row'[d] # row[d] => Move(d)]_row
  BY MovesStep
<1>2. QED
  BY <1>1, Safe, PTL DEF Spec, StatusMoves

-----------------------------------------------------------------------------
(* The chunker loses no text and repeats none needlessly.                  *)

LEMMA Quotient ==
    ASSUME NEW a \in Nat, NEW k \in Nat \ {0}
    PROVE  \E q \in Nat : q * k <= a /\ a < q * k + k
<1>1. a \div k \in Nat
  OBVIOUS
<1>2. (a \div k) * k <= a /\ a < (a \div k) * k + k
  OBVIOUS
<1> QED BY <1>1, <1>2

(* A product that is smaller has the smaller factor.                           *)
LEMMA SmallerFactor ==
    ASSUME NEW i \in Nat, NEW j \in Nat, NEW k \in Nat \ {0}, i * k < j * k
    PROVE  i < j /\ i * k + k <= j * k
OBVIOUS

(* The window the loop reaches last, i, begins where the text still has target *)
(* tokens or fewer.                                                            *)
LEMMA Reached ==
    ASSUME NEW n \in Nat, NEW size \in Sizes, NEW i \in Nat, i * stride(size) < n,
           i = 0 \/ (i - 1) * stride(size) + size.target < n
    PROVE  i * stride(size) \in Starts(n, size)
<1>1. stride(size) \in Nat \ {0}
  BY DEF Sizes, stride
<1>2. i <= i * stride(size)
  BY <1>1
<1>3. i \in 0 .. n
  BY <1>1, <1>2
<1> QED BY <1>3 DEF Starts

(* Every token lies in a window.                                               *)
LEMMA Reaches ==
    ASSUME NEW n \in Nat, NEW size \in Sizes, NEW p \in 0 .. n - 1
    PROVE  \E s \in Starts(n, size) : p \in Window(s, n, size)
<1> DEFINE k == stride(size)
           T == size.target
<1>1. k \in Nat \ {0} /\ T \in Nat /\ k <= T
  BY DEF Sizes, stride
<1> HIDE DEF k
<1>2. PICK i \in Nat : i * k <= p /\ p < i * k + k
  <2>1. p \in Nat
    OBVIOUS
  <2> QED BY <1>1, <2>1, Quotient
<1>3. CASE i = 0 \/ (i - 1) * k + T < n
  <2>1. i * k \in Starts(n, size)
    BY <1>1, <1>2, <1>3, Reached DEF k
  <2>2. p \in Window(i * k, n, size)
    BY <1>1, <1>2 DEF Window
  <2> QED BY <2>1, <2>2
<1>4. CASE i # 0 /\ n <= (i - 1) * k + T /\ T < n
  <2>1. PICK m \in Nat : m * k <= n - T + k - 1 /\ n - T + k - 1 < m * k + k
    <3>1. n - T + k - 1 \in Nat
      BY <1>1, <1>4
    <3> QED BY <1>1, <3>1, Quotient
  <2>2. (m - 1) * k + T < n /\ n <= m * k + T /\ m # 0
    BY <1>1, <1>4, <2>1
  <2>3. m * k <= p
    <3>1. (m - 1) * k < (i - 1) * k
      BY <1>1, <1>4, <2>2
    <3>2. m - 1 \in Nat /\ i - 1 \in Nat
      BY <1>4, <2>2
    <3>3. (m - 1) * k + k <= (i - 1) * k
      BY <1>1, <3>1, <3>2, SmallerFactor
    <3> QED BY <1>1, <1>2, <3>3
  <2>4. m * k \in Starts(n, size)
    BY <1>1, <2>2, <2>3, Reached DEF k
  <2>5. p \in Window(m * k, n, size)
    BY <1>1, <2>2, <2>3 DEF Window
  <2> QED BY <2>4, <2>5
<1>5. CASE i # 0 /\ n <= T
  <2>1. 0 \in Starts(n, size)
    BY <1>1, Reached DEF k
  <2>2. p \in Window(0, n, size)
    BY <1>1, <1>5 DEF Window
  <2> QED BY <2>1, <2>2
<1>6. (i - 1) * k \in Int
  BY <1>1
<1> QED BY <1>1, <1>3, <1>4, <1>5, <1>6

(* No token of the text is lost but white space, whatever the windows are cut  *)
(* to.                                                                         *)
THEOREM NothingLost ==
    ASSUME NEW n \in Nat, NEW size \in Sizes, NEW ink \in SUBSET (0 .. n - 1)
    PROVE  Covered(n, ink, size)
<1> SUFFICES ASSUME NEW p \in ink
             PROVE  \E s \in chunk(n, ink, size) : p \in Window(s, n, size)
  BY DEF Covered
<1>1. PICK s \in Starts(n, size) : p \in Window(s, n, size)
  BY Reaches
<1> QED BY <1>1 DEF chunk

(* The loop stops in time: no window repeats what another one has.             *)
THEOREM NothingRepeated ==
    ASSUME NEW n \in Nat, NEW size \in Sizes
    PROVE  NoneContained(n, size)
<1> DEFINE k == stride(size)
           T == size.target
<1>1. k \in Nat \ {0} /\ T \in Nat \ {0}
  BY DEF Sizes, stride
<1> SUFFICES ASSUME NEW s \in Starts(n, size), NEW t \in Starts(n, size), s # t
             PROVE  \E p \in Window(t, n, size) : p \notin Window(s, n, size)
  BY DEF NoneContained
<1> HIDE DEF k
<1>2. PICK i \in Nat : s = i * k /\ s < n
  BY DEF Starts, k
<1>3. PICK j \in Nat : t = j * k /\ t < n /\ (j = 0 \/ (j - 1) * k + T < n)
  BY DEF Starts, k
<1>4. s \in Nat /\ t \in Nat
  BY <1>1, <1>2, <1>3
<1>5. CASE t < s
  <2>1. t \in Window(t, n, size) /\ t \notin Window(s, n, size)
    BY <1>1, <1>3, <1>4, <1>5 DEF Window
  <2> QED BY <2>1
<1>6. CASE s < t
  <2>1. j # 0 /\ s + k <= t
    BY <1>1, <1>2, <1>3, <1>4, <1>6, SmallerFactor
  <2>2. (j - 1) * k = t - k
    BY <1>1, <1>3
  <2>3. s + T < n
    BY <1>1, <1>3, <1>4, <2>1, <2>2
  <2>4. CASE t + T - 1 < n
    BY <1>1, <1>4, <1>6, <2>4 DEF Window
  <2>5. CASE n <= t + T - 1
    <3>1. n - 1 \in Window(t, n, size) /\ n - 1 \notin Window(s, n, size)
      BY <1>1, <1>3, <1>4, <2>3, <2>5 DEF Window
    <3> QED BY <3>1
  <2> QED BY <1>1, <1>4, <2>4, <2>5
<1> QED BY <1>4, <1>5, <1>6
=============================================================================
