--------------------------- MODULE IngestionService ---------------------------
(***************************************************************************)
(* The server's ingestion as a whole: threads of IngestionTrigger that run *)
(* the pipeline of Ingestion, whose bytes come through S3Stream, and       *)
(* /api/ingestion/status, which reads the manifest and the flag while they *)
(* work.  run() does not ask whether another run is under way: that it is  *)
(* alone is the doing of _ingestion_lock, so the composition is checked    *)
(* and proved to implement Ingestion, which takes it for granted.          *)
(***************************************************************************)
EXTENDS IngestionTrigger, S3Stream

CONSTANTS
    Forced,     \* requests whose body says "force": true
    MsgCount, KindOf, IdOf, LocalBox,
    BatchSize, Starts, Forces, FaultKinds, MaxFaults, MaxTags

VARIABLES
    archive, emails, manifest, fts, job, rejected, report, faults,
    caller,     \* the request whose thread is in run(), or None
    inquiry,    \* {} or, while a status request goes on, {the ETags it will call
                \* completed}
    claimed     \* history: the ETags the last status answer called completed

P == INSTANCE Ingestion

ASSUME ServiceAssumption ==
    /\ P!ArchiveAssumption
    /\ P!IngestionAssumption
    /\ Forced \subseteq WithBody
    /\ "api" \in Starts
    /\ Forces = BOOLEAN

pipeline == <<archive, emails, manifest, fts, job, rejected, report, faults>>
trigger == <<pc, lock, status, last, restarts>>
inquiries == <<inquiry, claimed>>
serviceVars == <<trigger, pipeline, stream, caller, inquiries>>

ServiceInit ==
    /\ Init
    /\ P!Init
    /\ stream = Unread
    /\ caller = None
    /\ inquiry = {}
    /\ claimed = {}

-----------------------------------------------------------------------------
\* A thread outside of run(): handler, lock, flag, error and progress.
Outside(r) ==
    /\ \/ Handle(r)
       \/ Acquire(r) \/ RaiseFlag(r) \/ ClearError(r)
       \/ PublishProgress(r) \/ RecordError(r) \/ LowerFlag(r) \/ Release(r)
    /\ UNCHANGED <<pipeline, stream, caller, inquiries>>

\* S3Client(), get_database() or the get_manifest that run() begins with raises.
SetupFails(r) ==
    /\ caller = None
    /\ RunRaises(r)
    /\ UNCHANGED <<pipeline, stream, caller, inquiries>>

\* run(force) begins with get_manifest, whatever the job before it is doing.
EnterRun(r) ==
    /\ pc[r] = "run"
    /\ caller # r
    /\ P!FreshTags # {}
    /\ caller' = r
    /\ job' = [P!IdleJob EXCEPT !.pc = "head", !.force = r \in Forced, !.old = manifest]
    /\ report' = "none"
    /\ UNCHANGED <<trigger, stream, inquiries, archive, emails, manifest, fts, rejected, faults>>

\* The statements of run() but for the bytes from S3.
RunStatement(r) ==
    /\ caller = r
    /\ pc[r] = "run"
    /\ \/ P!HeadObject \/ P!HeadFails
       \/ P!ParseNext \/ P!ParseAborts \/ P!ParseEnd
       \/ P!InsertRow \/ P!RejectRow \/ P!BatchDone \/ P!Count
       \/ P!SaveDelete \/ P!SaveInsert \/ P!CreateFts \/ P!FtsFails
       \/ P!StatementRaises
    /\ UNCHANGED <<trigger, stream, caller, inquiries>>

\* A failure of S3 counts as one only when it ends the run.
StreamStep(r) ==
    /\ caller = r
    /\ pc[r] = "run"
    /\ job.pc = "get"
    /\ \/ /\ Served(archive) \/ Wakes \/ ReadChunk
          /\ UNCHANGED pipeline
       \/ /\ "s3" \in FaultKinds /\ faults < MaxFaults
          /\ Throttled
          /\ UNCHANGED pipeline
       \/ Raises /\ P!GetFails
    /\ UNCHANGED <<trigger, caller, inquiries>>

\* The file is copied: mailbox.mbox opens what was read.
StreamEnds(r) ==
    /\ caller = r
    /\ pc[r] = "run"
    /\ job.pc = "get"
    /\ EndOfBody
    /\ \E t \in P!FreshTags :
          /\ \A u \in P!FreshTags : t <= u
          /\ job' = [job EXCEPT !.pc = "parse", !.box = P!S3Box(stream.read), !.tag = t]
    /\ UNCHANGED <<trigger, caller, inquiries>>
    /\ UNCHANGED <<archive, emails, manifest, fts, rejected, report, faults>>

LeaveRun(r) ==
    /\ caller = r
    /\ job.pc = "idle"
    /\ \/ report = "s3 done" /\ RunReturns(r)
       \/ report = "failed" /\ RunRaises(r)
    /\ caller' = None
    /\ UNCHANGED <<pipeline, stream, inquiries>>

\* The server process is replaced; the database file stays.
ServerRestart ==
    /\ Restart
    /\ IF job.pc = "idle" THEN UNCHANGED pipeline ELSE P!Crash
    /\ stream' = Unread
    /\ caller' = None
    /\ inquiry' = {}
    /\ UNCHANGED claimed

\* Mail arrives.
ArchiveGrows ==
    /\ P!ArchiveGrows
    /\ UNCHANGED <<trigger, stream, caller, inquiries>>

-----------------------------------------------------------------------------
\* Mutant of CompletedAt: a manifest is taken for a finished run's.
OnRecordAt(rows) == {m.etag : m \in rows}

\* The ETags "completed" is said of.
CompletedAt(rows) == {m.etag : m \in {x \in rows : x.completed}}

\* ingestion_status: get_manifest, while a run may be between two statements.
ReadManifest ==
    /\ inquiry = {}
    /\ inquiry' = {CompletedAt(manifest)}
    /\ UNCHANGED <<trigger, pipeline, stream, caller, claimed>>

\* The answer, when flag and error have been read too.
AnswerStatus ==
    /\ inquiry # {}
    /\ claimed' = UNION inquiry
    /\ inquiry' = {}
    /\ UNCHANGED <<trigger, pipeline, stream, caller>>

-----------------------------------------------------------------------------
ServiceThread(r) ==
    \/ Outside(r) \/ SetupFails(r) \/ EnterRun(r)
    \/ RunStatement(r) \/ StreamStep(r) \/ StreamEnds(r) \/ LeaveRun(r)

ServiceNext ==
    \/ \E r \in Requests : ServiceThread(r)
    \/ ServerRestart \/ ArchiveGrows \/ ReadManifest \/ AnswerStatus

ServiceSpec == ServiceInit /\ [][ServiceNext]_serviceVars

\* A started thread goes on; nobody is obliged to send a request.
ServiceFairness ==
    \A r \in Requests : WF_serviceVars(pc[r] \notin Handler /\ ServiceThread(r))

FairServiceSpec == ServiceSpec /\ ServiceFairness

-----------------------------------------------------------------------------
\* The service as a whole: its threads, its tables, the stream and the inquiry.
ServiceTypeOK ==
    /\ TypeOK
    /\ P!TypeOK
    /\ stream \in Streams
    /\ stream.read <= stream.size
    /\ caller \in Requests \cup {None}
    /\ inquiry \subseteq SUBSET P!Etags
    /\ claimed \subseteq P!Etags

\* Threads over one database make runs that follow one another: whatever
\* triggers, queued threads, retries of S3 and restarts do, the database goes
\* through what Ingestion allows.
RunsOfIngestion == P!Spec

\* Whoever was told "completed" by /api/ingestion/status can rely on it from then
\* on, although a run may have been half-way through its statements when the
\* manifest was read: every mail of that archive has been handled.
StatusClaimsHold ==
    \A etag \in claimed : \A n \in P!EtagMessages(etag) : P!Handled(n)
==============================================================================
