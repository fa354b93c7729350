----------------------------- MODULE Documents ------------------------------
(***************************************************************************)
(* Uploaded documents: the handlers of POST and DELETE /documents with     *)
(* DocumentService, the background ingestion of ingestion/worker.py, and   *)
(* the list of documents the start page keeps (frontend/app/page.tsx).     *)
(*                                                                         *)
(* One step is what happens between two awaits.  A document's id is fresh  *)
(* with every upload, so a document is uploaded once.                      *)
(***************************************************************************)
EXTENDS Naturals, FiniteSets

CONSTANTS
    Docs,       \* documents
    Blank,      \* those in which the chunker finds nothing
    MaxFaults,  \* bound: database calls or file operations that fail
    MaxStops    \* bound: crashes and shutdowns of the backend

ASSUME DocumentsAssumption ==
    /\ Blank \subseteq Docs
    /\ MaxFaults \in Nat
    /\ MaxStops \in Nat

VARIABLES
    row,     \* documents.status, "none" if there is no row
    files,   \* documents with a file in upload_dir
    chunks,  \* documents with rows in chunks (all of them, by one commit)
    upload,  \* the upload request of each document
    ingest,  \* run_ingest of each document: where it is, the status it sets
    delete,  \* the DELETE request of each document
    batch,   \* the files the page is uploading
    shown,   \* the documents on the page
    up,      \* the backend serves requests
    faults,  \* bookkeeping for the bounds
    stops

store == <<row, files, chunks>>
page  == <<batch, shown>>
vars  == <<store, upload, ingest, delete, page, up, faults, stops>>

Status == {"none", "pending", "parsing", "embedding", "ready", "failed"}

\* Where a task is.  "get" and "put" are the two halves of _set_status; a task
\* ends by returning, with an exception ("raised"), or with the process ("lost").
Steps == {"none", "created", "start", "file", "get", "put", "parse", "embed", "persist",
          "done", "raised", "lost"}

At(step, status) == [at |-> step, to |-> status]

Init ==
    /\ row = [d \in Docs |-> "none"]
    /\ files = {}
    /\ chunks = {}
    /\ upload = [d \in Docs |-> "idle"]
    /\ ingest = [d \in Docs |-> At("none", "none")]
    /\ delete = [d \in Docs |-> "idle"]
    /\ batch = {}
    /\ shown = {}
    /\ up = TRUE
    /\ faults = 0
    /\ stops = 0

Stored == {d \in Docs : row[d] # "none"}

Fault == faults < MaxFaults /\ faults' = faults + 1 /\ UNCHANGED <<up, stops>>
Calm  == UNCHANGED <<up, faults, stops>>

-----------------------------------------------------------------------------
(* upload_document and create_document.                                    *)

UploadGoes(d, step) == upload' = [upload EXCEPT ![d] = step]

\* The page picks files and sends one request for each; it picks no others
\* before all of them are answered or one is refused.  (With the backend down
\* requests are refused at once and nothing changes, here and in Remove.)
SelectFiles ==
    /\ up
    /\ batch = {}
    /\ \E B \in SUBSET {d \in Docs : upload[d] = "idle"} \ {{}} :
          /\ batch' = B
          /\ upload' = [d \in Docs |-> IF d \in B THEN "flush" ELSE upload[d]]
    /\ UNCHANGED <<store, ingest, delete, shown>> /\ Calm

\* The file is written after the flush, within the transaction.  A write that
\* fails may leave some of the file.
WriteFile(d) ==
    /\ upload[d] = "flush"
    /\ \/ files' = files \cup {d} /\ UploadGoes(d, "commit") /\ Calm
       \/ files' \in {files, files \cup {d}} /\ UploadGoes(d, "failed") /\ Fault
    /\ UNCHANGED <<row, chunks, ingest, delete, page>>

\* A commit that reports an error may have happened.
CommitRow(d) ==
    /\ upload[d] = "commit"
    /\ \/ row' = [row EXCEPT ![d] = "pending"] /\ UploadGoes(d, "refresh") /\ Calm
       \/ /\ row' \in {row, [row EXCEPT ![d] = "pending"]}
          /\ UploadGoes(d, "failed") /\ Fault
    /\ UNCHANGED <<files, chunks, ingest, delete, page>>

\* After the refresh the handler schedules the ingestion and answers.
Schedule(d) ==
    /\ upload[d] = "refresh"
    /\ \/ /\ ingest' = [ingest EXCEPT ![d] = At("created", "none")]
          /\ UploadGoes(d, "ok") /\ Calm
       \/ UploadGoes(d, "failed") /\ Fault /\ UNCHANGED ingest
    /\ UNCHANGED <<store, delete, page>>

\* Promise.all in uploadFiles: all answers, or the first refusal.
Uploaded ==
    /\ batch # {}
    /\ \/ (\A d \in batch : upload[d] = "ok") /\ shown' = shown \cup batch
       \/ (\E d \in batch : upload[d] = "failed") /\ UNCHANGED shown
    /\ batch' = {}
    /\ UNCHANGED <<store, upload, ingest, delete>> /\ Calm

-----------------------------------------------------------------------------
(* removeDocument, delete_document.                                        *)

DeleteGoes(d, step) == delete' = [delete EXCEPT ![d] = step]

\* The page takes the document off the list before it asks for the deletion.
Remove(d) ==
    /\ up
    /\ d \in shown
    /\ delete[d] = "idle"
    /\ shown' = shown \ {d}
    /\ DeleteGoes(d, "find")
    /\ UNCHANGED <<store, upload, ingest, batch>> /\ Calm

FindRow(d) ==
    /\ delete[d] = "find"
    /\ \/ d \in Stored /\ DeleteGoes(d, "commit") /\ Calm
       \/ d \notin Stored /\ DeleteGoes(d, "failed") /\ Calm
       \/ DeleteGoes(d, "failed") /\ Fault
    /\ UNCHANGED <<store, upload, ingest, page>>

\* ON DELETE CASCADE takes the chunks along.
Gone(d) == row' = [row EXCEPT ![d] = "none"] /\ chunks' = chunks \ {d}

DeleteRow(d) ==
    /\ delete[d] = "commit"
    /\ \/ Gone(d) /\ DeleteGoes(d, "unlink") /\ Calm
       \/ /\ Gone(d) \/ UNCHANGED <<row, chunks>>
          /\ DeleteGoes(d, "failed") /\ Fault
    /\ UNCHANGED <<files, upload, ingest, page>>

Unlink(d) ==
    /\ delete[d] = "unlink"
    /\ \/ files' = files \ {d} /\ DeleteGoes(d, "ok") /\ Calm
       \/ UNCHANGED files /\ DeleteGoes(d, "failed") /\ Fault
    /\ UNCHANGED <<row, chunks, upload, ingest, page>>

\* The page forgets a document it could not delete.
BugRemoved(d) ==
    /\ delete[d] \in {"ok", "failed"}
    /\ DeleteGoes(d, "idle")
    /\ UNCHANGED <<store, upload, ingest, page>> /\ Calm

\* A refusal, 404 among them, puts the document back on the list.
Removed(d) ==
    /\ delete[d] \in {"ok", "failed"}
    /\ shown' = IF delete[d] = "failed" THEN shown \cup {d} ELSE shown
    /\ DeleteGoes(d, "idle")
    /\ UNCHANGED <<store, upload, ingest, batch>> /\ Calm

-----------------------------------------------------------------------------
(* run_ingest.                                                             *)

IngestGoes(d, step, status) == ingest' = [ingest EXCEPT ![d] = At(step, status)]

\* The status "failed" is set by the two exception handlers alone.
Handling(d) == ingest[d].to = "failed"

\* The exception is swallowed.
BugRaise(d) == IngestGoes(d, IF Handling(d) THEN "raised" ELSE "done", "none")

\* An exception in the try block is recorded, one in a handler ends the task.
Raise(d) ==
    IF Handling(d) THEN IngestGoes(d, "raised", "none") ELSE IngestGoes(d, "get", "failed")

\* A database call fails; if it was a commit it may have happened.
Applied(D) ==
    \E A \in SUBSET {d \in D \cap Stored : ingest[d].at \in {"put", "persist"}} :
        /\ row' = [d \in Docs |-> IF d \in A /\ ingest[d].at = "put"
                                  THEN ingest[d].to ELSE row[d]]
        /\ chunks' = chunks \cup {d \in A : ingest[d].at = "persist"}

CallFails(d) ==
    /\ ingest[d].at \in {"start", "get", "put", "persist"}
    /\ Applied({d})
    /\ Raise(d)
    /\ Fault
    /\ UNCHANGED <<files, upload, delete, page>>

Begin(d) ==
    /\ ingest[d].at = "created"
    /\ IngestGoes(d, "start", "none")
    /\ UNCHANGED <<store, upload, delete, page>> /\ Calm

Lookup(d) ==
    /\ ingest[d].at = "start"
    /\ IF d \in Stored THEN IngestGoes(d, "file", "none") ELSE Raise(d)
    /\ UNCHANGED <<store, upload, delete, page>> /\ Calm

CheckFile(d) ==
    /\ ingest[d].at = "file"
    /\ IF d \in files THEN IngestGoes(d, "get", "parsing") ELSE Raise(d)
    /\ UNCHANGED <<store, upload, delete, page>> /\ Calm

\* No return after the status of a blank document.
BugContinue(d) ==
    IF ingest[d].to = "ready" /\ d \in Blank
    THEN IngestGoes(d, "get", "embedding")
    ELSE IngestGoes(d, CASE ingest[d].to = "parsing"   -> "parse"
                         [] ingest[d].to = "embedding" -> "embed"
                         [] OTHER                      -> "done", "none")

\* What follows a call of _set_status.
Continue(d) ==
    IngestGoes(d, CASE ingest[d].to = "parsing"   -> "parse"
                    [] ingest[d].to = "embedding" -> "embed"
                    [] OTHER                      -> "done", "none")

\* A document that is gone is not an error here, ...
ReadRow(d) ==
    /\ ingest[d].at = "get"
    /\ IF d \in Stored THEN IngestGoes(d, "put", ingest[d].to) ELSE Continue(d)
    /\ UNCHANGED <<store, upload, delete, page>> /\ Calm

\* ... but an UPDATE that finds no row is (StaleDataError).
SetStatus(d) ==
    /\ ingest[d].at = "put"
    /\ IF d \in Stored
       THEN row' = [row EXCEPT ![d] = ingest[d].to] /\ Continue(d)
       ELSE Raise(d) /\ UNCHANGED row
    /\ UNCHANGED <<files, chunks, upload, delete, page>> /\ Calm

\* Docling may fail on any document, and does without the file.
Parse(d) ==
    /\ ingest[d].at = "parse"
    /\ \/ /\ d \in files
          /\ IngestGoes(d, "get", IF d \in Blank THEN "ready" ELSE "embedding")
       \/ Raise(d)
    /\ UNCHANGED <<store, upload, delete, page>> /\ Calm

\* "ready" comes before the chunks.
BugEmbed(d) ==
    /\ ingest[d].at = "embed"
    /\ IngestGoes(d, "get", "ready") \/ Raise(d)
    /\ UNCHANGED <<store, upload, delete, page>> /\ Calm

\* No key, no network, the wrong dimension: embedding may fail.
Embed(d) ==
    /\ ingest[d].at = "embed"
    /\ IngestGoes(d, "persist", "none") \/ Raise(d)
    /\ UNCHANGED <<store, upload, delete, page>> /\ Calm

\* The foreign key rejects chunks of a document that is gone.
Persist(d) ==
    /\ ingest[d].at = "persist"
    /\ IF d \in Stored
       THEN chunks' = chunks \cup {d} /\ IngestGoes(d, "get", "ready")
       ELSE Raise(d) /\ UNCHANGED chunks
    /\ UNCHANGED <<row, files, upload, delete, page>> /\ Calm

IngestStep(d) ==
    \/ Begin(d) \/ Lookup(d) \/ CheckFile(d) \/ ReadRow(d) \/ SetStatus(d)
    \/ Parse(d) \/ Embed(d) \/ Persist(d)

-----------------------------------------------------------------------------
(* The process.  main.py starts the sweep of stale runs; no such sweep is  *)
(* there for documents.                                                    *)

Ingesting == {d \in Docs : ingest[d].at \notin {"none", "done", "raised", "lost"}}

Stop == up /\ up' = FALSE /\ stops < MaxStops /\ stops' = stops + 1 /\ UNCHANGED faults

\* A request that is not answered fails on the page.
Crash ==
    /\ Stop
    /\ ingest' = [d \in Docs |-> IF d \in Ingesting THEN At("lost", "none") ELSE ingest[d]]
    /\ upload' = [d \in Docs |-> IF upload[d] \in {"flush", "commit", "refresh"}
                                 THEN "failed" ELSE upload[d]]
    /\ delete' = [d \in Docs |-> IF delete[d] \in {"find", "commit", "unlink"}
                                 THEN "failed" ELSE delete[d]]
    /\ UNCHANGED <<store, page>>

\* A shutdown waits for the requests and cancels the tasks, each of which sets
\* "failed" first, but for one that has not begun or is at that already.
Shutdown ==
    /\ Stop
    /\ \A d \in Docs : /\ upload[d] \in {"idle", "ok", "failed"}
                       /\ delete[d] \in {"idle", "ok", "failed"}
    /\ Applied(Docs)
    /\ ingest' = [d \in Docs |->
                     IF d \notin Ingesting THEN ingest[d]
                     ELSE IF ingest[d].at = "created" \/ Handling(d) THEN At("lost", "none")
                     ELSE At("get", "failed")]
    /\ UNCHANGED <<files, upload, delete, page>>

Start ==
    /\ ~up
    /\ Ingesting = {}
    /\ up' = TRUE
    /\ UNCHANGED <<store, upload, ingest, delete, page, faults, stops>>

-----------------------------------------------------------------------------
RequestStep(d) ==
    \/ WriteFile(d) \/ CommitRow(d) \/ Schedule(d)
    \/ FindRow(d) \/ DeleteRow(d) \/ Unlink(d) \/ Removed(d)

Next ==
    \/ \E d \in Docs : Remove(d) \/ RequestStep(d) \/ IngestStep(d) \/ CallFails(d)
    \/ SelectFiles \/ Uploaded
    \/ Crash \/ Shutdown \/ Start

Spec == Init /\ [][Next]_vars

\* Parsing and embedding end, the database and the page answer, the backend
\* is started again.
Fairness ==
    /\ \A d \in Docs : WF_vars(RequestStep(d)) /\ WF_vars(IngestStep(d))
    /\ WF_vars(Uploaded) /\ WF_vars(Start)

FairSpec == Spec /\ Fairness

-----------------------------------------------------------------------------
(* What must hold.                                                         *)

\* Every variable stays in its range; only a document whose upload succeeded
\* is ingested or on the page.
TypeOK ==
    /\ row \in [Docs -> Status]
    /\ files \subseteq Docs
    /\ chunks \subseteq Docs
    /\ upload \in [Docs -> {"idle", "flush", "commit", "refresh", "ok", "failed"}]
    /\ ingest \in [Docs -> [at : Steps, to : Status]]
    /\ delete \in [Docs -> {"idle", "find", "commit", "unlink", "ok", "failed"}]
    /\ batch \subseteq Docs
    /\ shown \subseteq Docs
    /\ up \in BOOLEAN
    /\ faults \in 0 .. MaxFaults
    /\ stops \in 0 .. MaxStops
    /\ \A d \in Docs : ingest[d].at # "none" \/ d \in shown => upload[d] = "ok"

\* A row that others can see has its file, from the upload to the deletion,
\* whatever fails in between: DocumentService writes the file before it commits
\* the row and unlinks it after it committed the deletion.
FileKept == Stored \subseteq files

\* What is searched is what is stored, and all of it once the document is
\* ready: chunks go with their row, and "ready" is set after their commit.
Indexed ==
    /\ chunks \subseteq Stored
    /\ \A d \in Docs \ Blank : row[d] = "ready" => d \in chunks

\* run_ingest "always reaches a terminal state": a task that returned leaves
\* its document ready, failed or deleted, and a task ends with an exception only
\* if the database failed it or the document was deleted under it.
CleanEnd ==
    \A d \in Docs :
        /\ ingest[d].at = "done" => row[d] \in {"ready", "failed", "none"}
        /\ ingest[d].at = "raised" => faults > 0 \/ row[d] = "none"
        /\ ingest[d].at = "lost" => stops > 0

Refused == \E d \in Docs : upload[d] = "failed"

Quiet == batch = {} /\ \A d \in Docs : delete[d] = "idle"

\* When nothing is under way the page lists every stored document it uploaded,
\* unless an upload was refused (uploadFiles then drops its whole batch), and
\* nothing that is not stored, unless a deletion failed.
PageAgrees ==
    Quiet =>
        /\ Refused \/ Stored \subseteq shown
        /\ faults + stops > 0 \/ shown \subseteq Stored

Move(d) ==
    \/ row[d] = "none" /\ row'[d] = "pending" /\ upload[d] = "commit"
    \/ <<row[d], row'[d]>> \in {<<"pending", "parsing">>, <<"parsing", "embedding">>,
                                <<"parsing", "ready">>, <<"embedding", "ready">>}
    \/ row'[d] = "failed" /\ row[d] # "none" /\ (row[d] = "ready" => faults + stops > 0)
    \/ row'[d] = "none"

\* The status only goes forward along the documented diagram, or to "failed",
\* from "ready" only when a commit that happened was reported as failed; a deleted
\* document never comes back.
StatusMoves == [][\A d \in Docs : row'[d] # row[d] => Move(d)]_row

\* A scheduled ingestion makes its document ready or failed, or the document is
\* deleted, unless the backend stops or the handler itself is hit by a fault.
Settles ==
    \A d \in Docs :
        ingest[d].at = "created" ~>
            row[d] \in {"ready", "failed", "none"} \/ ingest[d].at \in {"raised", "lost"}

\* What the proofs need besides.  A request that is under way fits its row, ...
Requests ==
    \A d \in Docs :
        /\ upload[d] \in {"idle", "flush", "commit"} => row[d] = "none"
        /\ upload[d] = "commit" => d \in files
        /\ upload[d] = "refresh" => row[d] \in {"pending", "none"}
        /\ delete[d] # "idle" => upload[d] = "ok"
        /\ delete[d] = "unlink" => row[d] = "none"

\* ... and so does an ingestion.
Progress ==
    \A d \in Docs :
        LET step   == ingest[d].at
            status == ingest[d].to
        IN  /\ status # "none" => upload[d] = "ok" /\ step \in {"get", "put"}
            /\ step \in {"get", "put"} =>
                   status \in {"parsing", "embedding", "ready", "failed"}
            /\ step \in {"created", "start", "file"} \/ status = "parsing" =>
                   row[d] \in {"pending", "none"}
            /\ step = "parse" \/ status = "embedding" => row[d] \in {"parsing", "none"}
            /\ step \in {"embed", "persist"} => row[d] \in {"embedding", "none"}
            /\ status = "ready" => row[d] \in {"parsing", "embedding", "none"}
            /\ status = "ready" /\ d \notin Blank => d \in chunks \/ row[d] = "none"
            /\ status = "failed" => row[d] # "ready" \/ faults + stops > 0

\* ... and the page: what it uploads it does not list yet, what it lists is not
\* being deleted, and what is stored is listed or under way.
Listing ==
    \A d \in Docs :
        /\ d \in batch => delete[d] = "idle" /\ d \notin shown /\ upload[d] # "idle"
        /\ upload[d] = "refresh" \/ (d \in batch /\ upload[d] = "ok") => d \in Stored
        /\ upload[d] \in {"flush", "commit", "refresh"} => d \in batch \/ Refused
        /\ d \in Stored => d \in shown \cup batch \/ delete[d] # "idle" \/ Refused
        /\ d \in shown => delete[d] = "idle"
        /\ d \in shown \/ delete[d] \in {"find", "commit"} =>
               d \in Stored \/ faults + stops > 0
        /\ delete[d] = "ok" => d \notin Stored
        /\ delete[d] = "failed" => faults + stops > 0

\* What holds whatever fails, stops or is deleted: rows keep their files, ready
\* documents their chunks, a task that ends leaves an end behind, and the page
\* knows what it uploaded.  It is inductive.
DocumentsInv ==
    TypeOK /\ FileKept /\ Indexed /\ CleanEnd /\ Requests /\ Progress /\ Listing

=============================================================================
