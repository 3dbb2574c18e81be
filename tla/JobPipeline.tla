----------------------------- MODULE JobPipeline -----------------------------
(***************************************************************************)
(* What one job of swift-api leaves in the object store and in the system  *)
(* of record (job.rs): process_upload or process_job_request, then         *)
(* process_job_inner, and the error path of process_job.  JobLifecycle     *)
(* sees of all this only whether a manifest was returned.                  *)
(*                                                                         *)
(* Every write is atomic (a temporary file and a rename) and any of them   *)
(* may fail; the process may stop between two of them.  What a reader of   *)
(* the store sees at any moment is the disk of that state.  The job is     *)
(* alone under its output prefix, which routes.rs makes from the job id.   *)
(***************************************************************************)
EXTENDS Naturals, Sequences

CONSTANTS
  InputCount,    \* objects the request selects
  IOFails        \* whether the store, the sink and DuckDB may fail

ASSUME InputAssumption == InputCount \in Nat \ {0}
ASSUME FaultAssumption == IOFails \in BOOLEAN

Input  == 1..InputCount
Output == {"rendered", "parquet", "errors", "zip"}

VARIABLES
  selection,   \* the outputs asked for; `valid' says all were known names
  valid,
  pc,
  next,        \* the input whose result is being settled
  parsed,      \* inputs process_input could parse and render
  bad,         \* parsed inputs with a value that its column does not take
  good,        \* inputs whose result is "completed"
  \* The object store, under the output prefix:
  files,       \* "snapshot", "parquet", "errors", "zip"
  renderings,  \* inputs with a file under rendered/
  tables,      \* inputs with rows in the parquet tables
  errorLines,  \* inputs with a line of their own in errors.ndjson
  status,      \* of status.json
  manifest,    \* of manifest.json: its status and completed inputs
  zipped,      \* the status and manifest inside the zip
  \* The system of record:
  row,         \* status of the job's row
  audit,       \* event types
  committed,   \* artifact records, those of rendered files apart
  committedRenderings

requestVars == <<selection, valid>>
localVars   == <<next, parsed, bad, good>>
diskVars    == <<files, renderings, tables, errorLines, status, manifest, zipped>>
sinkVars    == <<row, audit, committed, committedRenderings>>
vars == <<requestVars, pc, localVars, diskVars, sinkVars>>

Verdict  == {"completed", "completed_with_errors", "failed"}

NoManifest == [status |-> "absent", completed |-> {}]
Finished   == {"ok", "failed", "error", "crashed"}

Init ==
  /\ selection \in SUBSET Output /\ valid \in BOOLEAN
  /\ pc = "request"
  /\ next = 1 /\ parsed = {} /\ bad = {} /\ good = {}
  /\ files = {} /\ renderings = {} /\ tables = {} /\ errorLines = {}
  /\ status = "absent" /\ manifest = NoManifest
  /\ zipped = [status |-> "absent", manifest |-> NoManifest]
  /\ row = "absent" /\ audit = <<>> /\ committed = {} /\ committedRenderings = {}

Go(from, to) == pc = from /\ pc' = to

ErrorPath == {"fail_manifest", "fail_status", "fail_open", "fail_row", "fail_audit",
              "fail_commit_manifest", "fail_commit_status"}

(* A step whose effect may be there although it is reported as failed: the *)
(* reply of the database is lost, the size of the new file cannot be read. *)
GoOrFail(from, to) ==
  /\ pc = from
  /\ \/ pc' = to
     \/ IOFails /\ pc' = IF from \in ErrorPath THEN "error" ELSE "fail_manifest"

-----------------------------------------------------------------------------
(* What a write changes, in the store (a file put in place of the one that *)
(* is there) and in the system of record (a row by its key, an event       *)
(* appended, an artifact by its type).                                     *)
PutStatus(s) ==
  /\ status' = s
  /\ UNCHANGED <<files, renderings, tables, errorLines, manifest, zipped>>

PutManifest(s, completed) ==
  /\ manifest' = [status |-> s, completed |-> completed]
  /\ UNCHANGED <<files, renderings, tables, errorLines, status, zipped>>

PutFile(f) ==
  /\ files' = files \cup {f}
  /\ UNCHANGED <<renderings, status, manifest>>

UpsertJob(s) ==
  /\ row' = s
  /\ UNCHANGED <<audit, committed, committedRenderings>>

AppendAuditEvent(type) ==
  /\ audit' = Append(audit, type)
  /\ UNCHANGED <<row, committed, committedRenderings>>

MarkArtifactCommitted(type) ==
  /\ committed' = committed \cup {type}
  /\ UNCHANGED <<row, audit, committedRenderings>>

-----------------------------------------------------------------------------
(* Before process_job: what fails here is returned as it is. *)

(* An upload is stored first; a request for objects is resolved to them.   *)
(* Either may be refused: the store fails, an URI is not valid, a prefix   *)
(* matches nothing or too much.                                            *)
ResolveInputs ==
  /\ Go("request", "select")
  /\ UNCHANGED <<requestVars, localVars, diskVars, sinkVars>>

RefuseInputs ==
  /\ Go("request", "error")
  /\ UNCHANGED <<requestVars, localVars, diskVars, sinkVars>>

(* OutputSelection::from_request *)
SelectOutputs ==
  /\ Go("select", IF valid THEN "running" ELSE "error")
  /\ UNCHANGED <<requestVars, localVars, diskVars, sinkVars>>

-----------------------------------------------------------------------------
(* process_job_inner.  A step that fails leads to the error path, see      *)
(* FailStep.                                                               *)

WriteRunningStatus ==
  /\ Go("running", "snapshot")
  /\ PutStatus("running")
  /\ UNCHANGED <<requestVars, localVars, sinkVars>>

WriteSnapshot ==
  /\ Go("snapshot", "open")
  /\ PutFile("snapshot")
  /\ UNCHANGED <<requestVars, localVars, sinkVars, tables, errorLines, zipped>>

OpenSink ==
  /\ Go("open", "row")
  /\ UNCHANGED <<requestVars, localVars, diskVars, sinkVars>>

UpsertRunning ==
  /\ GoOrFail("row", "started")
  /\ UpsertJob("running")
  /\ UNCHANGED <<requestVars, localVars, diskVars>>

AuditStarted ==
  /\ GoOrFail("started", "commit_snapshot")
  /\ AppendAuditEvent("started")
  /\ UNCHANGED <<requestVars, localVars, diskVars>>

(* mark_artifact_committed: after which write, and what comes next. *)
CommitsMislabelled ==   \* mutant: the first manifest is recorded as the status
  { <<"commit_snapshot",    "snapshot", "duckdb">>,
    <<"commit_parquet",     "parquet",  "errors">>,
    <<"commit_errors",      "errors",   "manifest">>,
    <<"commit_manifest",    "status",   "status">>,
    <<"commit_status",      "status",   "zip">>,
    <<"commit_zip",         "zip",      "final_manifest">>,
    <<"fail_commit_manifest", "manifest", "fail_commit_status">>,
    <<"fail_commit_status",   "status",   "failed">> }

Commits ==
  { <<"commit_snapshot",    "snapshot", "duckdb">>,
    <<"commit_parquet",     "parquet",  "errors">>,
    <<"commit_errors",      "errors",   "manifest">>,
    <<"commit_manifest",    "manifest", "status">>,
    <<"commit_status",      "status",   "zip">>,
    <<"commit_zip",         "zip",      "final_manifest">>,
    <<"fail_commit_manifest", "manifest", "fail_commit_status">>,
    <<"fail_commit_status",   "status",   "failed">> }

MarkCommitted ==
  \E c \in Commits :
    /\ GoOrFail(c[1], c[3])
    /\ MarkArtifactCommitted(c[2])
    /\ UNCHANGED <<requestVars, localVars, diskVars>>

(* Steps that are left out when their output was not asked for. *)
Optional ==
  { <<"duckdb",  "parquet", "prepare">>,
    <<"hydrate", "parquet", "errors">>,
    <<"errors",  "errors",  "manifest">>,
    <<"zip",     "zip",     "final_manifest">> }

SkipOutput ==
  \E o \in Optional :
    /\ o[2] \notin selection
    /\ Go(o[1], o[3])
    /\ UNCHANGED <<requestVars, localVars, diskVars, sinkVars>>

(* The work directory, the database and its layout. *)
OpenDuckDb ==
  /\ "parquet" \in selection
  /\ Go("duckdb", "prepare")
  /\ UNCHANGED <<requestVars, localVars, diskVars, sinkVars>>

(* process_input: any input may turn out not to be readable, of a known    *)
(* type or renderable; it is a failed result then, not a failed job.  What *)
(* its values are is not looked at: an amount may be no number.            *)
Processed == SUBSET Input

(* Inputs are processed on scoped threads and put in order again. *)
PrepareInputs ==
  /\ Go("prepare", "inputs")
  /\ parsed' \in Processed
  /\ bad' \in SUBSET parsed'
  /\ UNCHANGED <<requestVars, next, good, diskVars, sinkVars>>

(* The results are settled one after the other.  Where there is nothing to *)
(* write the result stands.                                                *)
SettleInput ==
  /\ next \in Input
  /\ next \notin parsed \/ "rendered" \notin selection
  /\ Go("inputs", "inputs")
  /\ good' = good \cup ({next} \cap parsed)
  /\ next' = next + 1
  /\ UNCHANGED <<requestVars, parsed, bad, diskVars, sinkVars>>

HasRendering == next \in parsed /\ "rendered" \in selection

WriteRendering ==
  /\ HasRendering
  /\ Go("inputs", "commit_rendering")
  /\ renderings' = renderings \cup {next}
  /\ UNCHANGED <<requestVars, localVars, sinkVars,
                 files, tables, errorLines, status, manifest, zipped>>

CommitRendering ==
  /\ Go("commit_rendering", "inputs")
  /\ committedRenderings' = committedRenderings \cup {next}
  /\ good' = good \cup {next}
  /\ next' = next + 1
  /\ UNCHANGED <<requestVars, parsed, bad, diskVars, row, audit, committed>>

(* Failing to write or to record a rendering fails the input. *)
FailRendering ==
  /\ IOFails
  /\ HasRendering
  /\ pc \in {"inputs", "commit_rendering"}
  /\ pc' = "inputs"
  /\ next' = next + 1
  /\ committedRenderings' \in {committedRenderings,
        committedRenderings \cup {i \in {next} : pc = "commit_rendering"}}
  /\ UNCHANGED <<requestVars, parsed, bad, good, diskVars, row, audit, committed>>

InputsSettled ==
  /\ next = InputCount + 1
  /\ Go("inputs", "hydrate")
  /\ UNCHANGED <<requestVars, localVars, diskVars, sinkVars>>

(* The rows of the good inputs go into DuckDB in one transaction, and from *)
(* there to parquet.  A value that does not convert to the type of its     *)
(* column fails the transaction, and with it the job.                      *)
Hydrate ==
  /\ "parquet" \in selection
  /\ good \cap bad = {}
  /\ Go("hydrate", "parquet")
  /\ UNCHANGED <<requestVars, localVars, diskVars, sinkVars>>

FailHydrate ==
  /\ "parquet" \in selection
  /\ good \cap bad # {}
  /\ Go("hydrate", "fail_manifest")
  /\ UNCHANGED <<requestVars, localVars, diskVars, sinkVars>>

ExportParsed ==   \* mutant: rows of inputs whose rendering failed are kept
  /\ GoOrFail("parquet", "commit_parquet")
  /\ PutFile("parquet") /\ tables' = parsed
  /\ UNCHANGED <<requestVars, localVars, sinkVars, errorLines, zipped>>

ExportParquet ==
  /\ GoOrFail("parquet", "commit_parquet")
  /\ PutFile("parquet") /\ tables' = good
  /\ UNCHANGED <<requestVars, localVars, sinkVars, errorLines, zipped>>

WriteErrors ==
  /\ "errors" \in selection
  /\ Go("errors", "commit_errors")
  /\ PutFile("errors") /\ errorLines' = Input \ good
  /\ UNCHANGED <<requestVars, localVars, sinkVars, tables, zipped>>

JobStatus == IF good = Input THEN "completed" ELSE "completed_with_errors"

WriteManifest ==
  /\ Go("manifest", "commit_manifest")
  /\ PutManifest(JobStatus, good)
  /\ UNCHANGED <<requestVars, localVars, sinkVars>>

WriteStatus ==
  /\ Go("status", "commit_status")
  /\ PutStatus(JobStatus)
  /\ UNCHANGED <<requestVars, localVars, sinkVars>>

(* Everything under the prefix; too much of it counts as a failure. *)
WriteZip ==
  /\ "zip" \in selection
  /\ GoOrFail("zip", "commit_zip")
  /\ PutFile("zip") /\ zipped' = [status |-> status, manifest |-> manifest]
  /\ UNCHANGED <<requestVars, localVars, sinkVars, tables, errorLines>>

(* The same manifest with its timings filled in. *)
WriteFinalManifest ==
  /\ Go("final_manifest", "final_row")
  /\ PutManifest(JobStatus, good)
  /\ UNCHANGED <<requestVars, localVars, sinkVars>>

UpsertCompleted ==   \* mutant: a literal instead of the manifest's status
  /\ GoOrFail("final_row", "final_audit")
  /\ UpsertJob("completed")
  /\ UNCHANGED <<requestVars, localVars, diskVars>>

UpsertFinal ==
  /\ GoOrFail("final_row", "final_audit")
  /\ UpsertJob(JobStatus)
  /\ UNCHANGED <<requestVars, localVars, diskVars>>

AuditFinal ==
  /\ GoOrFail("final_audit", "final_status")
  /\ AppendAuditEvent(JobStatus)
  /\ UNCHANGED <<requestVars, localVars, diskVars>>

WriteFinalStatus ==
  /\ Go("final_status", "ok")
  /\ PutStatus(JobStatus)
  /\ UNCHANGED <<requestVars, localVars, sinkVars>>

-----------------------------------------------------------------------------
(* process_job when process_job_inner returned an error *)

KeepManifest ==   \* mutant: a manifest that is there is not replaced
  /\ Go("fail_manifest", "fail_status")
  /\ manifest' = IF manifest = NoManifest THEN [status |-> "failed", completed |-> {}]
                 ELSE manifest
  /\ UNCHANGED <<requestVars, localVars, sinkVars,
                 files, renderings, tables, errorLines, status, zipped>>

WriteFailedManifest ==
  /\ Go("fail_manifest", "fail_status")
  /\ PutManifest("failed", {})
  /\ UNCHANGED <<requestVars, localVars, sinkVars>>

WriteFailedStatus ==
  /\ Go("fail_status", "fail_open")
  /\ PutStatus("failed")
  /\ UNCHANGED <<requestVars, localVars, sinkVars>>

ReopenSink ==
  /\ Go("fail_open", "fail_row")
  /\ UNCHANGED <<requestVars, localVars, diskVars, sinkVars>>

UpsertForgotten ==   \* mutant: the row is left as it was
  /\ GoOrFail("fail_row", "fail_audit")
  /\ UNCHANGED <<requestVars, localVars, diskVars, sinkVars>>

UpsertFailed ==
  /\ GoOrFail("fail_row", "fail_audit")
  /\ UpsertJob("failed")
  /\ UNCHANGED <<requestVars, localVars, diskVars>>

AuditFailed ==
  /\ GoOrFail("fail_audit", "fail_commit_manifest")
  /\ AppendAuditEvent("failed")
  /\ UNCHANGED <<requestVars, localVars, diskVars>>

-----------------------------------------------------------------------------
(* Failures *)

InnerSteps ==
  {"running", "snapshot", "open", "row", "started", "commit_snapshot", "prepare",
   "parquet", "commit_parquet", "commit_errors", "manifest", "commit_manifest", "status",
   "commit_status", "commit_zip", "final_manifest", "final_row", "final_audit",
   "final_status"}

MayFail == pc \in InnerSteps \/ \E o \in Optional : pc = o[1] /\ o[2] \in selection

RetryJob ==   \* mutant: a failed job starts again
  /\ IOFails
  /\ MayFail
  /\ pc' = "running"
  /\ next' = 1 /\ parsed' = {} /\ bad' = {} /\ good' = {}
  /\ UNCHANGED <<requestVars, diskVars, sinkVars>>

(* An export that fails may have written some of its tables. *)
FailStep ==
  /\ IOFails
  /\ MayFail
  /\ pc' = "fail_manifest"
  /\ tables' \in {tables, IF pc = "parquet" THEN good ELSE tables}
  /\ UNCHANGED <<requestVars, localVars, sinkVars,
                 files, renderings, errorLines, status, manifest, zipped>>

(* An error in the error path is returned in place of the first one. *)
FailErrorPath ==
  /\ IOFails
  /\ pc \in ErrorPath
  /\ pc' = "error"
  /\ UNCHANGED <<requestVars, localVars, diskVars, sinkVars>>

(* The process stops, or the blocking task panics. *)
Crash ==
  /\ IOFails
  /\ pc \notin Finished
  /\ pc' = "crashed"
  /\ UNCHANGED <<requestVars, localVars, diskVars, sinkVars>>

Next ==
  \/ ResolveInputs \/ RefuseInputs \/ SelectOutputs
  \/ WriteRunningStatus \/ WriteSnapshot \/ OpenSink \/ UpsertRunning \/ AuditStarted
  \/ OpenDuckDb \/ PrepareInputs
  \/ SettleInput \/ WriteRendering \/ CommitRendering \/ FailRendering \/ InputsSettled
  \/ Hydrate \/ FailHydrate \/ ExportParquet \/ WriteErrors \/ WriteManifest \/ WriteStatus \/ WriteZip
  \/ WriteFinalManifest \/ UpsertFinal \/ AuditFinal \/ WriteFinalStatus
  \/ MarkCommitted \/ SkipOutput
  \/ WriteFailedManifest \/ WriteFailedStatus \/ ReopenSink \/ UpsertFailed \/ AuditFailed
  \/ FailStep \/ FailErrorPath \/ Crash

Spec == Init /\ [][Next]_vars

-----------------------------------------------------------------------------
Succeeded == {"completed", "completed_with_errors"}

(* A manifest that reports success is true of the store from the moment it *)
(* can be read: the snapshot is there, each completed input has its        *)
(* rendering, the tables hold the rows of exactly the completed inputs and *)
(* the error file has a line for every other one.                          *)
ManifestIsTrue ==
  manifest.status \in Succeeded =>
    /\ manifest.status = "completed" <=> manifest.completed = Input
    /\ "snapshot" \in files
    /\ "rendered" \in selection => manifest.completed \subseteq renderings
    /\ "parquet" \in selection => "parquet" \in files /\ tables = manifest.completed
    /\ "errors" \in selection => "errors" \in files /\ errorLines = Input \ manifest.completed

(* A client that polls status.json until it shows a verdict finds a        *)
(* manifest of the same verdict, or one that has failed since; a failed    *)
(* status never stands beside a manifest that reports success.  The zip    *)
(* holds such a pair too.                                                  *)
StatusFollowsManifest ==
  /\ status = "failed" => manifest.status = "failed"
  /\ status \in Succeeded => manifest.status \in {status, "failed"}
  /\ "zip" \in files => /\ zipped.status = zipped.manifest.status
                        /\ zipped.status \in Succeeded

LastEvent == audit[Len(audit)]

(* When process_job returns, status, manifest, row and audit trail agree   *)
(* on the verdict, and on success every output asked for is there.         *)
OutcomeIsRecorded ==
  /\ pc = "ok" =>
       /\ status = manifest.status /\ row = status /\ LastEvent = status
       /\ status \in Succeeded
       /\ selection \ {"rendered"} \subseteq files
       /\ "zip" \in selection => zipped.manifest = manifest
  /\ pc = "failed" =>
       /\ status = "failed" /\ manifest.status = "failed" /\ row = "failed"
       /\ LastEvent = "failed"

(* The system of record never names an artifact that is not in the store.  *)
CommittedIsStored ==
  /\ committed \ {"manifest", "status"} \subseteq files
  /\ "manifest" \in committed => manifest # NoManifest
  /\ "status" \in committed => status \in Verdict
  /\ committedRenderings \subseteq renderings

(* The row of the system of record is never ahead of the store. *)
RowFollowsStore ==
  /\ row = "failed" => status = "failed"
  /\ row \in Succeeded => manifest.status \in {row, "failed"} /\ status \in {row, "failed"}

(* status.json never goes back, and a failure is final. *)
StatusArtifactMovesForward ==
  [][status' # status =>
       \/ status = "absent"  /\ status' \in {"running", "failed"}
       \/ status = "running" /\ status' \in Verdict
       \/ status \in Succeeded /\ status' = "failed"]_vars
=============================================================================
