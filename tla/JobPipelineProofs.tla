--------------------------- MODULE JobPipelineProofs ---------------------------
(***************************************************************************)
(* What a job leaves behind, for any number of inputs: a manifest that     *)
(* reports success is true of the store, status.json follows it, and the   *)
(* system of record never names what is not there.                         *)
(***************************************************************************)
EXTENDS JobPipeline, SequenceTheorems, TLAPS

(* The places from which on something has been done, and those before. *)
PastZip      == {"commit_zip", "final_manifest", "final_row", "final_audit", "final_status", "ok"}
PastStatus   == {"commit_status", "zip"} \cup ({"final_manifest"} \cup PastZip)
PastManifest == {"commit_manifest", "status"} \cup PastStatus
PastErrors   == {"commit_errors", "manifest"} \cup PastManifest
PastParquet  == {"commit_parquet", "errors"} \cup PastErrors
PastInputs   == {"hydrate", "parquet"} \cup PastParquet
PastSnapshot == {"open", "row", "started", "commit_snapshot", "duckdb", "prepare", "inputs",
                 "commit_rendering"} \cup PastInputs
Inner        == {"running", "snapshot"} \cup PastSnapshot
BeforeInner  == {"request", "select"}

PastFailedRow      == {"fail_audit", "fail_commit_manifest", "fail_commit_status", "failed"}
PastFailedStatus   == {"fail_open", "fail_row"} \cup PastFailedRow
PastFailedManifest == {"fail_status"} \cup PastFailedStatus

Typed ==
  /\ pc \in BeforeInner \cup Inner \cup {"fail_manifest", "error", "crashed"} \cup PastFailedManifest
  /\ parsed \subseteq Input /\ good \subseteq Input
  /\ files \subseteq {"snapshot", "parquet", "errors", "zip"}
  /\ selection \subseteq Output
  /\ audit \in Seq(Verdict \cup {"started"})
  /\ committed \subseteq {"snapshot", "parquet", "errors", "zip", "manifest", "status"}

(* What has been written is there, and is what the results make it. *)
RenderingsThere ==
  /\ pc = "commit_rendering" => next \in parsed /\ next \in renderings
  /\ "rendered" \in selection => good \subseteq renderings

FilesThere ==
  /\ pc \in PastSnapshot => "snapshot" \in files
  /\ pc = "commit_parquet" => "parquet" \in files
  /\ pc = "commit_errors" => "errors" \in files
  /\ pc = "commit_zip" => "zip" \in files
  /\ pc \in PastParquet /\ "parquet" \in selection => "parquet" \in files /\ tables = good
  /\ pc \in PastErrors /\ "errors" \in selection => "errors" \in files /\ errorLines = Input \ good
  /\ pc \in PastZip /\ "zip" \in selection =>
       "zip" \in files /\ zipped.manifest = [status |-> JobStatus, completed |-> good]

ManifestWritten ==
  /\ pc \in (BeforeInner \cup Inner) \ PastManifest => manifest = NoManifest
  /\ pc \in PastManifest => manifest = [status |-> JobStatus, completed |-> good]
  /\ pc \in PastFailedManifest => manifest = [status |-> "failed", completed |-> {}]

StatusWritten ==
  /\ pc \in BeforeInner \cup {"running"} => status = "absent"
  /\ pc \in Inner \ ({"running"} \cup PastStatus) => status = "running"
  /\ pc \in PastStatus => status = JobStatus
  /\ pc \in {"fail_manifest", "fail_status"} => status \in {"absent", "running"} \cup Succeeded
  /\ pc \in PastFailedStatus => status = "failed"

RowWritten ==
  /\ pc \in (BeforeInner \cup Inner) \ {"final_audit", "final_status", "ok"} => row \notin Verdict
  /\ pc \in {"final_audit", "final_status", "ok"} => row = JobStatus
  /\ pc \in {"final_status", "ok"} => audit # <<>> /\ LastEvent = JobStatus
  /\ pc \in {"fail_manifest", "fail_status", "fail_open", "fail_row"} => row # "failed"
  /\ pc \in PastFailedRow => row = "failed"
  /\ pc \in PastFailedRow \ {"fail_audit"} => audit # <<>> /\ LastEvent = "failed"

(* The inductive invariant. *)
IInv ==
  /\ Typed
  /\ RenderingsThere
  /\ FilesThere
  /\ ManifestWritten
  /\ StatusWritten
  /\ RowWritten
  /\ ManifestIsTrue
  /\ StatusFollowsManifest
  /\ CommittedIsStored
  /\ RowFollowsStore

-----------------------------------------------------------------------------
USE DEF PastZip, PastStatus, PastManifest, PastErrors, PastParquet, PastInputs, PastSnapshot,
        Inner, BeforeInner, PastFailedRow, PastFailedStatus, PastFailedManifest,
        Go, GoOrFail, ErrorPath, Verdict, Succeeded, NoManifest,
        requestVars, localVars, diskVars, sinkVars

LEMMA InitHolds ==
  ASSUME Init
  PROVE  IInv
<1> USE DEF Init
<1>1. Typed
  BY EmptySeq DEF Typed, Output
<1>2. RenderingsThere /\ FilesThere /\ ManifestWritten /\ StatusWritten /\ RowWritten
  BY DEF RenderingsThere, FilesThere, ManifestWritten, StatusWritten, RowWritten
<1>3. ManifestIsTrue /\ StatusFollowsManifest /\ CommittedIsStored /\ RowFollowsStore
  BY DEF ManifestIsTrue, StatusFollowsManifest, CommittedIsStored, RowFollowsStore
<1> QED
  BY <1>1, <1>2, <1>3 DEF IInv

-----------------------------------------------------------------------------
(* Steps that write nothing *)
Move ==
  \/ ResolveInputs \/ RefuseInputs \/ SelectOutputs \/ OpenSink \/ OpenDuckDb \/ SkipOutput
  \/ InputsSettled \/ Hydrate \/ FailHydrate \/ ReopenSink \/ FailErrorPath \/ Crash

LEMMA MoveKeeps ==
  ASSUME IInv, Move
  PROVE  IInv'
<1> USE DEF IInv, Move, ResolveInputs, RefuseInputs, SelectOutputs, OpenSink, OpenDuckDb,
            SkipOutput, InputsSettled, Hydrate, FailHydrate, ReopenSink, FailErrorPath, Crash,
            Optional, Finished
<1>1. Typed'
  <2>1. CASE SkipOutput
    BY <2>1 DEF Typed
  <2>2. CASE FailErrorPath \/ Crash
    BY <2>2 DEF Typed
  <2>3. CASE \/ ResolveInputs \/ RefuseInputs \/ SelectOutputs \/ OpenSink \/ OpenDuckDb
             \/ InputsSettled \/ Hydrate \/ FailHydrate \/ ReopenSink
    BY <2>3 DEF Typed
  <2> QED
    BY <2>1, <2>2, <2>3
<1>2. RenderingsThere' /\ FilesThere'
  BY DEF RenderingsThere, FilesThere
<1>3. ManifestWritten' /\ StatusWritten'
  BY DEF ManifestWritten, StatusWritten, JobStatus
<1>4. RowWritten'
  BY DEF RowWritten
<1>5. ManifestIsTrue'
  BY DEF ManifestIsTrue
<1>6. StatusFollowsManifest'
  BY DEF StatusFollowsManifest
<1>7. CommittedIsStored' /\ RowFollowsStore'
  BY DEF CommittedIsStored, RowFollowsStore
<1> QED
  BY <1>1, <1>2, <1>3, <1>4, <1>5, <1>6, <1>7

-----------------------------------------------------------------------------
(* The results *)
LEMMA PrepareInputsKeeps ==
  ASSUME IInv, PrepareInputs
  PROVE  IInv'
<1> USE DEF IInv, PrepareInputs, Processed
<1>1. /\ Typed' /\ RenderingsThere' /\ FilesThere'
      /\ ManifestWritten' /\ StatusWritten' /\ RowWritten'
  BY DEF Typed, RenderingsThere, FilesThere, ManifestWritten, StatusWritten,
     RowWritten
<1>2. ManifestIsTrue' /\ StatusFollowsManifest' /\ CommittedIsStored' /\ RowFollowsStore'
  BY DEF ManifestIsTrue, StatusFollowsManifest, CommittedIsStored, RowFollowsStore
<1> QED
  BY <1>1, <1>2

LEMMA SettleInputKeeps ==
  ASSUME IInv, SettleInput
  PROVE  IInv'
<1> USE DEF IInv, SettleInput
<1>1. /\ Typed' /\ RenderingsThere' /\ FilesThere'
      /\ ManifestWritten' /\ StatusWritten' /\ RowWritten'
  BY DEF Typed, RenderingsThere, FilesThere, ManifestWritten, StatusWritten,
     RowWritten
<1>2. ManifestIsTrue' /\ StatusFollowsManifest' /\ CommittedIsStored' /\ RowFollowsStore'
  BY DEF ManifestIsTrue, StatusFollowsManifest, CommittedIsStored, RowFollowsStore
<1> QED
  BY <1>1, <1>2

LEMMA WriteRenderingKeeps ==
  ASSUME IInv, WriteRendering
  PROVE  IInv'
<1> USE DEF IInv, WriteRendering, HasRendering
<1>1. /\ Typed' /\ RenderingsThere' /\ FilesThere'
      /\ ManifestWritten' /\ StatusWritten' /\ RowWritten'
  BY DEF Typed, RenderingsThere, FilesThere, ManifestWritten, StatusWritten,
     RowWritten
<1>2. ManifestIsTrue' /\ StatusFollowsManifest' /\ CommittedIsStored' /\ RowFollowsStore'
  BY DEF ManifestIsTrue, StatusFollowsManifest, CommittedIsStored, RowFollowsStore
<1> QED
  BY <1>1, <1>2

LEMMA CommitRenderingKeeps ==
  ASSUME IInv, CommitRendering
  PROVE  IInv'
<1> USE DEF IInv, CommitRendering
<1>1. Typed'
  BY DEF Typed, RenderingsThere
<1>2. RenderingsThere' /\ FilesThere' /\ ManifestWritten' /\ StatusWritten' /\ RowWritten'
  BY DEF RenderingsThere, FilesThere, ManifestWritten, StatusWritten, RowWritten
<1>3. CommittedIsStored' /\ RowFollowsStore'
  BY DEF CommittedIsStored, RowFollowsStore, RenderingsThere
<1>4. ManifestIsTrue' /\ StatusFollowsManifest'
  BY DEF ManifestIsTrue, StatusFollowsManifest
<1> QED
  BY <1>1, <1>2, <1>3, <1>4

LEMMA FailRenderingKeeps ==
  ASSUME IInv, FailRendering
  PROVE  IInv'
<1> USE DEF IInv, FailRendering, HasRendering
<1>1. /\ Typed' /\ RenderingsThere' /\ FilesThere'
      /\ ManifestWritten' /\ StatusWritten' /\ RowWritten'
  BY DEF Typed, RenderingsThere, FilesThere, ManifestWritten, StatusWritten,
     RowWritten
<1>2. CommittedIsStored' /\ RowFollowsStore'
  BY DEF CommittedIsStored, RowFollowsStore, RenderingsThere
<1>3. ManifestIsTrue' /\ StatusFollowsManifest'
  BY DEF ManifestIsTrue, StatusFollowsManifest
<1> QED
  BY <1>1, <1>2, <1>3

-----------------------------------------------------------------------------
(* The store *)
LEMMA WriteRunningStatusKeeps ==
  ASSUME IInv, WriteRunningStatus
  PROVE  IInv'
<1> USE DEF IInv, WriteRunningStatus, PutStatus
<1>1. /\ Typed' /\ RenderingsThere' /\ FilesThere'
      /\ ManifestWritten' /\ StatusWritten' /\ RowWritten'
  BY DEF Typed, RenderingsThere, FilesThere, ManifestWritten, StatusWritten,
     RowWritten
<1>2. CommittedIsStored' /\ RowFollowsStore'
  BY DEF CommittedIsStored, RowFollowsStore, StatusWritten
<1>3. ManifestIsTrue' /\ StatusFollowsManifest'
  BY DEF ManifestIsTrue, StatusFollowsManifest
<1> QED
  BY <1>1, <1>2, <1>3

LEMMA WriteSnapshotKeeps ==
  ASSUME IInv, WriteSnapshot
  PROVE  IInv'
<1> USE DEF IInv, WriteSnapshot, PutFile
<1>1. /\ Typed' /\ RenderingsThere' /\ FilesThere'
      /\ ManifestWritten' /\ StatusWritten' /\ RowWritten'
  BY DEF Typed, RenderingsThere, FilesThere, ManifestWritten, StatusWritten,
     RowWritten
<1>2. ManifestIsTrue' /\ StatusFollowsManifest' /\ CommittedIsStored' /\ RowFollowsStore'
  BY DEF ManifestIsTrue, StatusFollowsManifest, CommittedIsStored, RowFollowsStore
<1> QED
  BY <1>1, <1>2

LEMMA ExportParquetKeeps ==
  ASSUME IInv, ExportParquet
  PROVE  IInv'
<1> USE DEF IInv, ExportParquet, PutFile
<1>1. /\ Typed' /\ RenderingsThere' /\ FilesThere'
      /\ ManifestWritten' /\ StatusWritten' /\ RowWritten'
  BY DEF Typed, RenderingsThere, FilesThere, ManifestWritten, StatusWritten,
     RowWritten
<1>2. ManifestIsTrue'
  BY DEF ManifestIsTrue, ManifestWritten
<1>3. StatusFollowsManifest' /\ CommittedIsStored' /\ RowFollowsStore'
  BY DEF StatusFollowsManifest, CommittedIsStored, RowFollowsStore
<1> QED
  BY <1>1, <1>2, <1>3

LEMMA WriteErrorsKeeps ==
  ASSUME IInv, WriteErrors
  PROVE  IInv'
<1> USE DEF IInv, WriteErrors, PutFile
<1>1. /\ Typed' /\ RenderingsThere' /\ FilesThere'
      /\ ManifestWritten' /\ StatusWritten' /\ RowWritten'
  BY DEF Typed, RenderingsThere, FilesThere, ManifestWritten, StatusWritten,
     RowWritten
<1>2. ManifestIsTrue'
  BY DEF ManifestIsTrue, ManifestWritten
<1>3. StatusFollowsManifest' /\ CommittedIsStored' /\ RowFollowsStore'
  BY DEF StatusFollowsManifest, CommittedIsStored, RowFollowsStore
<1> QED
  BY <1>1, <1>2, <1>3

LEMMA WriteManifestKeeps ==
  ASSUME IInv, WriteManifest
  PROVE  IInv'
<1> USE DEF IInv, WriteManifest, PutManifest
<1>1. ManifestWritten' /\ StatusWritten'
  BY DEF ManifestWritten, StatusWritten, JobStatus
<1>2. Typed' /\ RenderingsThere' /\ FilesThere' /\ RowWritten'
  BY DEF Typed, RenderingsThere, FilesThere, RowWritten
<1>3. ManifestIsTrue'
  BY DEF ManifestIsTrue, FilesThere, RenderingsThere, JobStatus
<1>4. StatusFollowsManifest'
  BY DEF StatusFollowsManifest, ManifestWritten
<1>5. CommittedIsStored' /\ RowFollowsStore'
  BY DEF CommittedIsStored, RowFollowsStore, ManifestWritten
<1> QED
  BY <1>1, <1>2, <1>3, <1>4, <1>5

LEMMA WriteStatusKeeps ==
  ASSUME IInv, WriteStatus
  PROVE  IInv'
<1> USE DEF IInv, WriteStatus, PutStatus
<1>1. ManifestWritten' /\ StatusWritten'
  BY DEF ManifestWritten, StatusWritten, JobStatus
<1>2. Typed' /\ RenderingsThere' /\ FilesThere' /\ RowWritten'
  BY DEF Typed, RenderingsThere, FilesThere, RowWritten
<1>3. StatusFollowsManifest'
  BY DEF StatusFollowsManifest, ManifestWritten
<1>4. CommittedIsStored' /\ RowFollowsStore'
  BY DEF CommittedIsStored, RowFollowsStore, StatusWritten
<1>5. ManifestIsTrue'
  BY DEF ManifestIsTrue
<1> QED
  BY <1>1, <1>2, <1>3, <1>4, <1>5

LEMMA WriteZipKeeps ==
  ASSUME IInv, WriteZip
  PROVE  IInv'
<1> USE DEF IInv, WriteZip, PutFile
<1>1. RenderingsThere' /\ FilesThere'
  BY DEF RenderingsThere, FilesThere, ManifestWritten, JobStatus
<1>2. ManifestWritten' /\ StatusWritten'
  BY DEF ManifestWritten, StatusWritten, JobStatus
<1>3. Typed' /\ RowWritten'
  BY DEF Typed, RowWritten
<1>4. StatusFollowsManifest'
  BY DEF StatusFollowsManifest, ManifestWritten, StatusWritten, JobStatus
<1>5. ManifestIsTrue' /\ CommittedIsStored' /\ RowFollowsStore'
  BY DEF ManifestIsTrue, CommittedIsStored, RowFollowsStore
<1> QED
  BY <1>1, <1>2, <1>3, <1>4, <1>5

LEMMA WriteFinalManifestKeeps ==
  ASSUME IInv, WriteFinalManifest
  PROVE  IInv'
<1> USE DEF IInv, WriteFinalManifest, PutManifest
<1>1. RenderingsThere' /\ FilesThere'
  BY DEF RenderingsThere, FilesThere, JobStatus
<1>2. ManifestWritten' /\ StatusWritten'
  BY DEF ManifestWritten, StatusWritten, JobStatus
<1>3. Typed' /\ RowWritten'
  BY DEF Typed, RowWritten
<1>4. ManifestIsTrue'
  BY DEF ManifestIsTrue, ManifestWritten
<1>5. StatusFollowsManifest'
  BY DEF StatusFollowsManifest, ManifestWritten
<1>6. CommittedIsStored' /\ RowFollowsStore'
  BY DEF CommittedIsStored, RowFollowsStore, ManifestWritten
<1> QED
  BY <1>1, <1>2, <1>3, <1>4, <1>5, <1>6

LEMMA WriteFinalStatusKeeps ==
  ASSUME IInv, WriteFinalStatus
  PROVE  IInv'
<1> USE DEF IInv, WriteFinalStatus, PutStatus
<1>1. RenderingsThere' /\ FilesThere'
  BY DEF RenderingsThere, FilesThere, JobStatus
<1>2. ManifestWritten' /\ StatusWritten'
  BY DEF ManifestWritten, StatusWritten, JobStatus
<1>3. RowWritten'
  BY DEF RowWritten, JobStatus, LastEvent
<1>4. Typed'
  BY DEF Typed
<1>5. StatusFollowsManifest'
  BY DEF StatusFollowsManifest, ManifestWritten
<1>6. CommittedIsStored' /\ RowFollowsStore'
  BY DEF CommittedIsStored, RowFollowsStore, StatusWritten
<1>7. ManifestIsTrue'
  BY DEF ManifestIsTrue
<1> QED
  BY <1>1, <1>2, <1>3, <1>4, <1>5, <1>6, <1>7

-----------------------------------------------------------------------------
(* The system of record *)
LEMMA UpsertRunningKeeps ==
  ASSUME IInv, UpsertRunning
  PROVE  IInv'
<1> USE DEF IInv, UpsertRunning, UpsertJob
<1>1. /\ Typed' /\ RenderingsThere' /\ FilesThere'
      /\ ManifestWritten' /\ StatusWritten' /\ RowWritten'
  BY DEF Typed, RenderingsThere, FilesThere, ManifestWritten, StatusWritten,
     RowWritten
<1>2. ManifestIsTrue' /\ StatusFollowsManifest' /\ CommittedIsStored' /\ RowFollowsStore'
  BY DEF ManifestIsTrue, StatusFollowsManifest, CommittedIsStored, RowFollowsStore
<1> QED
  BY <1>1, <1>2

LEMMA AuditStartedKeeps ==
  ASSUME IInv, AuditStarted
  PROVE  IInv'
<1> USE DEF IInv, AuditStarted, AppendAuditEvent
<1>1. Typed'
    BY AppendProperties DEF Typed
<1>2. RowWritten'
    BY AppendProperties, LenProperties DEF RowWritten
<1>3. RenderingsThere' /\ FilesThere' /\ ManifestWritten' /\ StatusWritten'
  BY DEF RenderingsThere, FilesThere, ManifestWritten, StatusWritten
<1>4. ManifestIsTrue' /\ StatusFollowsManifest' /\ CommittedIsStored' /\ RowFollowsStore'
  BY DEF ManifestIsTrue, StatusFollowsManifest, CommittedIsStored, RowFollowsStore
<1> QED
  BY <1>1, <1>2, <1>3, <1>4

LEMMA MarkCommittedKeeps ==
  ASSUME IInv, MarkCommitted
  PROVE  IInv'
<1> USE DEF IInv
<1>1. PICK c \in Commits : GoOrFail(c[1], c[3]) /\ committed' = committed \cup {c[2]}
  BY DEF MarkCommitted, MarkArtifactCommitted
<1>2. UNCHANGED <<requestVars, localVars, diskVars, row, audit, committedRenderings>>
  BY DEF MarkCommitted, MarkArtifactCommitted
<1> USE DEF Commits
<1>3. Typed'
  <2>1. committed' \subseteq {"snapshot", "parquet", "errors", "zip", "manifest", "status"}
    <3>1. c[2] \in {"snapshot", "parquet", "errors", "zip", "manifest", "status"}
      OBVIOUS
    <3>2. committed \subseteq {"snapshot", "parquet", "errors", "zip", "manifest", "status"}
      BY DEF Typed
    <3> QED
      BY <1>1, <3>1, <3>2
  <2>2. pc' \in Inner \cup {"fail_manifest", "error"} \cup PastFailedManifest
    BY <1>1
  <2> QED
    BY <1>2, <2>1, <2>2 DEF Typed
<1>4. RenderingsThere' /\ FilesThere'
  BY <1>1, <1>2 DEF RenderingsThere, FilesThere, JobStatus
<1>5. ManifestWritten' /\ StatusWritten'
  BY <1>1, <1>2 DEF ManifestWritten, StatusWritten, JobStatus
<1>6. RowWritten'
  BY <1>1, <1>2 DEF RowWritten, LastEvent
<1>7. ManifestIsTrue' /\ StatusFollowsManifest' /\ RowFollowsStore'
  BY <1>2 DEF ManifestIsTrue, StatusFollowsManifest, RowFollowsStore
<1>8. CommittedIsStored'
  <2>1. /\ c[2] \in {"snapshot", "parquet", "errors", "zip"} => c[2] \in files
        /\ c[2] = "manifest" => manifest # NoManifest
        /\ c[2] = "status" => status \in Verdict
    BY <1>1 DEF FilesThere, ManifestWritten, StatusWritten, JobStatus
  <2> QED
    BY <1>1, <1>2, <2>1 DEF CommittedIsStored
<1> QED
  BY <1>3, <1>4, <1>5, <1>6, <1>7, <1>8

LEMMA UpsertFinalKeeps ==
  ASSUME IInv, UpsertFinal
  PROVE  IInv'
<1> USE DEF IInv, UpsertFinal, UpsertJob
<1>1. RenderingsThere' /\ FilesThere'
  BY DEF RenderingsThere, FilesThere, JobStatus
<1>2. ManifestWritten' /\ StatusWritten'
  BY DEF ManifestWritten, StatusWritten, JobStatus
<1>3. RowWritten'
  BY DEF RowWritten, JobStatus
<1>4. Typed'
  BY DEF Typed
<1>5. CommittedIsStored' /\ RowFollowsStore'
  BY DEF CommittedIsStored, RowFollowsStore, ManifestWritten, StatusWritten
<1>6. ManifestIsTrue' /\ StatusFollowsManifest'
  BY DEF ManifestIsTrue, StatusFollowsManifest
<1> QED
  BY <1>1, <1>2, <1>3, <1>4, <1>5, <1>6

LEMMA AuditFinalKeeps ==
  ASSUME IInv, AuditFinal
  PROVE  IInv'
<1> USE DEF IInv, AuditFinal, AppendAuditEvent
<1>1. Typed'
    BY AppendProperties DEF Typed, JobStatus
<1>2. RenderingsThere' /\ FilesThere'
  BY DEF RenderingsThere, FilesThere, JobStatus
<1>3. ManifestWritten' /\ StatusWritten'
  BY DEF ManifestWritten, StatusWritten, JobStatus
<1>4. RowWritten'
    BY AppendProperties, LenProperties DEF RowWritten, JobStatus, LastEvent
<1>5. ManifestIsTrue' /\ StatusFollowsManifest' /\ CommittedIsStored' /\ RowFollowsStore'
  BY DEF ManifestIsTrue, StatusFollowsManifest, CommittedIsStored, RowFollowsStore
<1> QED
  BY <1>1, <1>2, <1>3, <1>4, <1>5

-----------------------------------------------------------------------------
(* Failures and the error path *)
LEMMA FailStepKeeps ==
  ASSUME IInv, FailStep
  PROVE  IInv'
<1> USE DEF IInv, FailStep, MayFail, InnerSteps, Optional
<1>1. ManifestWritten' /\ StatusWritten'
  BY DEF ManifestWritten, StatusWritten, JobStatus
<1>2. RowWritten'
  BY DEF RowWritten, JobStatus
<1>3. Typed' /\ RenderingsThere' /\ FilesThere'
  BY DEF Typed, RenderingsThere, FilesThere
<1>4. ManifestIsTrue'
  BY DEF ManifestIsTrue, ManifestWritten
<1>5. StatusFollowsManifest' /\ CommittedIsStored' /\ RowFollowsStore'
  BY DEF StatusFollowsManifest, CommittedIsStored, RowFollowsStore
<1> QED
  BY <1>1, <1>2, <1>3, <1>4, <1>5

LEMMA WriteFailedManifestKeeps ==
  ASSUME IInv, WriteFailedManifest
  PROVE  IInv'
<1> USE DEF IInv, WriteFailedManifest, PutManifest
<1>1. /\ Typed' /\ RenderingsThere' /\ FilesThere'
      /\ ManifestWritten' /\ StatusWritten' /\ RowWritten'
  BY DEF Typed, RenderingsThere, FilesThere, ManifestWritten, StatusWritten,
     RowWritten
<1>2. ManifestIsTrue' /\ StatusFollowsManifest' /\ CommittedIsStored' /\ RowFollowsStore'
  BY DEF ManifestIsTrue, StatusFollowsManifest, CommittedIsStored, RowFollowsStore
<1> QED
  BY <1>1, <1>2

LEMMA WriteFailedStatusKeeps ==
  ASSUME IInv, WriteFailedStatus
  PROVE  IInv'
<1> USE DEF IInv, WriteFailedStatus, PutStatus
<1>1. /\ Typed' /\ RenderingsThere' /\ FilesThere'
      /\ ManifestWritten' /\ StatusWritten' /\ RowWritten'
  BY DEF Typed, RenderingsThere, FilesThere, ManifestWritten, StatusWritten,
     RowWritten
<1>2. StatusFollowsManifest'
  BY DEF StatusFollowsManifest, ManifestWritten
<1>3. ManifestIsTrue' /\ CommittedIsStored' /\ RowFollowsStore'
  BY DEF ManifestIsTrue, CommittedIsStored, RowFollowsStore
<1> QED
  BY <1>1, <1>2, <1>3

LEMMA UpsertFailedKeeps ==
  ASSUME IInv, UpsertFailed
  PROVE  IInv'
<1> USE DEF IInv, UpsertFailed, UpsertJob
<1>1. /\ Typed' /\ RenderingsThere' /\ FilesThere'
      /\ ManifestWritten' /\ StatusWritten' /\ RowWritten'
  BY DEF Typed, RenderingsThere, FilesThere, ManifestWritten, StatusWritten,
     RowWritten
<1>2. CommittedIsStored' /\ RowFollowsStore'
  BY DEF CommittedIsStored, RowFollowsStore, StatusWritten
<1>3. ManifestIsTrue' /\ StatusFollowsManifest'
  BY DEF ManifestIsTrue, StatusFollowsManifest
<1> QED
  BY <1>1, <1>2, <1>3

LEMMA AuditFailedKeeps ==
  ASSUME IInv, AuditFailed
  PROVE  IInv'
<1> USE DEF IInv, AuditFailed, AppendAuditEvent
<1>1. Typed'
    BY AppendProperties DEF Typed
<1>2. RowWritten'
    BY AppendProperties, LenProperties DEF RowWritten, LastEvent
<1>3. RenderingsThere' /\ FilesThere' /\ ManifestWritten' /\ StatusWritten'
  BY DEF RenderingsThere, FilesThere, ManifestWritten, StatusWritten
<1>4. ManifestIsTrue' /\ StatusFollowsManifest' /\ CommittedIsStored' /\ RowFollowsStore'
  BY DEF ManifestIsTrue, StatusFollowsManifest, CommittedIsStored, RowFollowsStore
<1> QED
  BY <1>1, <1>2, <1>3, <1>4

-----------------------------------------------------------------------------
LEMMA StutterKeeps ==
  ASSUME IInv, UNCHANGED vars
  PROVE  IInv'
<1> USE DEF IInv, vars
<1>1. Typed' /\ RenderingsThere' /\ FilesThere'
  BY DEF Typed, RenderingsThere, FilesThere, JobStatus
<1>2. ManifestWritten' /\ StatusWritten' /\ RowWritten'
  BY DEF ManifestWritten, StatusWritten, RowWritten, JobStatus, LastEvent
<1>3. ManifestIsTrue' /\ StatusFollowsManifest' /\ CommittedIsStored' /\ RowFollowsStore'
  BY DEF ManifestIsTrue, StatusFollowsManifest, CommittedIsStored, RowFollowsStore
<1> QED
  BY <1>1, <1>2, <1>3

(* The inductive invariant holds in every state a job can be in. *)
THEOREM Invariance == Spec => []IInv
<1>1. Init => IInv
  BY InitHolds
<1>2. IInv /\ [Next]_vars => IInv'
  <2> SUFFICES ASSUME IInv, [Next]_vars PROVE IInv'
    OBVIOUS
  <2>1. CASE UNCHANGED vars
    BY <2>1, StutterKeeps
  <2>2. CASE Move
    BY <2>2, MoveKeeps
  <2>3. CASE PrepareInputs
    BY <2>3, PrepareInputsKeeps
  <2>4. CASE SettleInput
    BY <2>4, SettleInputKeeps
  <2>5. CASE WriteRendering
    BY <2>5, WriteRenderingKeeps
  <2>6. CASE CommitRendering
    BY <2>6, CommitRenderingKeeps
  <2>7. CASE FailRendering
    BY <2>7, FailRenderingKeeps
  <2>8. CASE WriteRunningStatus
    BY <2>8, WriteRunningStatusKeeps
  <2>9. CASE WriteSnapshot
    BY <2>9, WriteSnapshotKeeps
  <2>10. CASE ExportParquet
    BY <2>10, ExportParquetKeeps
  <2>11. CASE WriteErrors
    BY <2>11, WriteErrorsKeeps
  <2>12. CASE WriteManifest
    BY <2>12, WriteManifestKeeps
  <2>13. CASE WriteStatus
    BY <2>13, WriteStatusKeeps
  <2>14. CASE WriteZip
    BY <2>14, WriteZipKeeps
  <2>15. CASE WriteFinalManifest
    BY <2>15, WriteFinalManifestKeeps
  <2>16. CASE WriteFinalStatus
    BY <2>16, WriteFinalStatusKeeps
  <2>17. CASE UpsertRunning
    BY <2>17, UpsertRunningKeeps
  <2>18. CASE AuditStarted
    BY <2>18, AuditStartedKeeps
  <2>19. CASE MarkCommitted
    BY <2>19, MarkCommittedKeeps
  <2>20. CASE UpsertFinal
    BY <2>20, UpsertFinalKeeps
  <2>21. CASE AuditFinal
    BY <2>21, AuditFinalKeeps
  <2>22. CASE FailStep
    BY <2>22, FailStepKeeps
  <2>23. CASE WriteFailedManifest
    BY <2>23, WriteFailedManifestKeeps
  <2>24. CASE WriteFailedStatus
    BY <2>24, WriteFailedStatusKeeps
  <2>25. CASE UpsertFailed
    BY <2>25, UpsertFailedKeeps
  <2>26. CASE AuditFailed
    BY <2>26, AuditFailedKeeps
  <2> QED
    BY <2>1, <2>2, <2>3, <2>4, <2>5, <2>6, <2>7, <2>8, <2>9, <2>10, <2>11, <2>12, <2>13,
       <2>14, <2>15, <2>16, <2>17, <2>18, <2>19, <2>20, <2>21, <2>22, <2>23, <2>24, <2>25,
       <2>26 DEF Next, Move
<1> QED
  BY <1>1, <1>2, PTL DEF Spec

(* From the moment a manifest that reports success can be read, the store  *)
(* holds what it says: snapshot, renderings, tables of exactly the         *)
(* completed inputs, a line for each other one (write order of             *)
(* process_job_inner).                                                     *)
THEOREM ManifestNeverLies == Spec => []ManifestIsTrue
<1>1. IInv => ManifestIsTrue
  BY DEF IInv
<1> QED
  BY <1>1, Invariance, PTL

(* A verdict in status.json stands beside a manifest of that verdict, or   *)
(* of a later failure (process_job writes the manifest first).             *)
THEOREM StatusIsBacked == Spec => []StatusFollowsManifest
<1>1. IInv => StatusFollowsManifest
  BY DEF IInv
<1> QED
  BY <1>1, Invariance, PTL

(* An artifact is recorded only when it is in the store                    *)
(* (mark_artifact_committed comes after the write).                        *)
THEOREM RecordIsBehindStore == Spec => []CommittedIsStored
<1>1. IInv => CommittedIsStored
  BY DEF IInv
<1> QED
  BY <1>1, Invariance, PTL

(* The row of the system of record is never ahead of the store             *)
(* (upsert_job comes after status and manifest).                           *)
THEOREM RowIsBehindStore == Spec => []RowFollowsStore
<1>1. IInv => RowFollowsStore
  BY DEF IInv
<1> QED
  BY <1>1, Invariance, PTL

(* When process_job returns, status, manifest, row and audit trail agree,  *)
(* and on success the outputs asked for are there.                         *)
THEOREM ReturnedOutcomeIsRecorded == Spec => []OutcomeIsRecorded
<1>1. IInv => OutcomeIsRecorded
  BY DEF IInv, OutcomeIsRecorded, Typed, FilesThere, ManifestWritten, StatusWritten,
     RowWritten, JobStatus, Output
<1> QED
  BY <1>1, Invariance, PTL

(* status.json never goes back and a failure is final (process_job,        *)
(* process_job_inner).                                                     *)
THEOREM StatusArtifactIsMonotonic == Spec => StatusArtifactMovesForward
<1>1. ASSUME IInv, [Next]_vars, status' # status
      PROVE  \/ status = "absent"  /\ status' \in {"running", "failed"}
             \/ status = "running" /\ status' \in Verdict
             \/ status \in Succeeded /\ status' = "failed"
  <2>1. WriteRunningStatus \/ WriteStatus \/ WriteFinalStatus \/ WriteFailedStatus
    BY <1>1 DEF Next, vars, ResolveInputs, RefuseInputs, SelectOutputs, OpenSink,
       OpenDuckDb, SkipOutput, InputsSettled, Hydrate, FailHydrate, ReopenSink, FailErrorPath, Crash,
       PrepareInputs, SettleInput, WriteRendering, CommitRendering, FailRendering,
       WriteSnapshot, ExportParquet, WriteErrors, WriteManifest, WriteZip,
       WriteFinalManifest, UpsertRunning, AuditStarted, MarkCommitted, UpsertFinal,
       AuditFinal, FailStep, WriteFailedManifest, UpsertFailed, AuditFailed, PutManifest,
       PutFile
  <2> QED
    BY <1>1, <2>1 DEF IInv, StatusWritten, JobStatus, PutStatus, WriteRunningStatus,
       WriteStatus, WriteFinalStatus, WriteFailedStatus
<1> QED
  BY <1>1, Invariance, PTL DEF Spec, StatusArtifactMovesForward
================================================================================
