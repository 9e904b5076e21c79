------------------------------ MODULE Ingestion ------------------------------
(***************************************************************************)
(* IngestionPipeline over DuckDB and S3: run (started by the API thread or *)
(* by "main.py ingest") and run_from_file ("main.py ingest-local").        *)
(*                                                                         *)
(* Every DuckDB statement autocommits, so each is a step of its own, and   *)
(* the process can die between any two.  One job runs at a time: threads   *)
(* of the server are serialised by _ingestion_lock (IngestionTrigger) and  *)
(* processes by DuckDB's lock on the database file.                        *)
(***************************************************************************)
EXTENDS MailArchive

CONSTANTS
    BatchSize,    \* _BATCH_SIZE
    Starts,       \* the entry points in use: subset of {"api", "cli", "local"}
    Forces,       \* the values of the force flag in use
    FaultKinds,   \* subset of {"crash", "s3", "row", "fts", "db"}
    MaxFaults,    \* bound on the faults of one behaviour
    MaxTags       \* bound on the runs that draw uuids kept in the table

ASSUME IngestionAssumption ==
    /\ BatchSize \in Nat \ {0}
    /\ Starts \subseteq {"api", "cli", "local"}
    /\ Forces \subseteq BOOLEAN
    /\ FaultKinds \subseteq {"crash", "s3", "row", "fts", "db"}
    /\ MaxFaults \in Nat
    /\ MaxTags \in Nat

VARIABLES
    archive,    \* messages in the S3 object, which is also its ETag
    emails,     \* the table emails
    manifest,   \* the table ingestion_manifest: {} or one row
    fts,        \* {} when no FTS index exists, else {the keys it was built over}
    job,        \* the locals of the running pipeline
    rejected,   \* messages insert_emails_batch logged and skipped
    report,     \* what the last job told its caller
    faults      \* faults so far

store == <<emails, manifest, fts>>
vars == <<archive, emails, manifest, fts, job, rejected, report, faults>>

Manifest == [etag: Etags, last_offset: Nat, total: Nat, errors: Nat,
             completed: BOOLEAN]

BlankManifest == [etag |-> 0, last_offset |-> 0, total |-> 0, errors |-> 0,
                  completed |-> FALSE]

PCs == {"idle", "check", "head", "get", "parse", "insert", "count", "delete",
        "save", "fts"}

Job == [pc: PCs,                  \* the statement about to run
        local: BOOLEAN,           \* run_from_file
        force: BOOLEAN,
        old: SUBSET Manifest,     \* what get_manifest returned
        start: Nat,               \* start_offset
        box: Seq(Msg),            \* the bytes read
        next: Nat \ {0},          \* position of the next message in box
        batch: Seq(Row),
        final: BOOLEAN,           \* the batch is the one after the loop
        processed: Nat,           \* total_processed
        errors: Nat,              \* error_count
        new: Manifest,            \* new_manifest
        tag: Nat]                 \* the uuids of this run

IdleJob == [pc |-> "idle", local |-> FALSE, force |-> FALSE, old |-> {},
            start |-> 0, box |-> <<>>, next |-> 1, batch |-> <<>>,
            final |-> FALSE, processed |-> 0, errors |-> 0,
            new |-> BlankManifest, tag |-> 0]

Reports == {"none", "s3 done", "local done", "not needed", "failed"}

Init ==
    /\ archive \in 0..MsgCount
    /\ emails = {}
    /\ manifest = {}
    /\ fts = {}
    /\ job = IdleJob
    /\ rejected = {}
    /\ report = "none"
    /\ faults = 0

-----------------------------------------------------------------------------
UsedTags == {r.key.tag : r \in emails}
FreshTags == {t \in 1..MaxTags : t \notin UsedTags}

Finish(r) == job' = IdleJob /\ report' = r

Fault(kind) ==
    /\ kind \in FaultKinds
    /\ faults < MaxFaults
    /\ faults' = faults + 1

Running(pc) == job.pc = pc

\* Mutant of OldTotal: no default when there is no manifest.
OldTotalWithoutDefault ==
    IF job.old = {} THEN -1 ELSE (CHOOSE m \in job.old : TRUE).total

\* total_messages of the manifest found, 0 when there is none.
OldTotal == IF job.old = {} THEN 0 ELSE (CHOOSE m \in job.old : TRUE).total

\* Mail arrives and the S3 object is rewritten with more messages.
ArchiveGrows ==
    /\ archive < MsgCount
    /\ archive' = archive + 1
    /\ UNCHANGED <<store, job, rejected, report, faults>>

-----------------------------------------------------------------------------
\* The thread of /api/ingestion/trigger calls run: get_manifest.
StartApi(force) ==
    /\ "api" \in Starts
    /\ Running("idle")
    /\ FreshTags # {}
    /\ job' = [IdleJob EXCEPT !.pc = "head", !.force = force, !.old = manifest]
    /\ report' = "none"
    /\ UNCHANGED <<archive, store, rejected, faults>>

\* "main.py ingest" calls should_ingest: get_manifest.
StartCli(force) ==
    /\ "cli" \in Starts
    /\ Running("idle")
    /\ FreshTags # {}
    /\ job' = [IdleJob EXCEPT !.pc = "check", !.force = force, !.old = manifest]
    /\ report' = "none"
    /\ UNCHANGED <<archive, store, rejected, faults>>

\* The rest of should_ingest; run then reads the manifest again.
ShouldIngest(etag) ==
    \/ job.old = {}
    \/ \E m \in job.old : m.etag # etag \/ ~m.completed

CheckOutcome(should) ==
    IF should \/ job.force
    THEN /\ job' = [job EXCEPT !.pc = "head", !.old = manifest]
         /\ UNCHANGED report
    ELSE Finish("not needed")

Check ==
    /\ Running("check")
    /\ CheckOutcome(ShouldIngest(archive))
    /\ UNCHANGED <<archive, store, rejected, faults>>

CheckFails ==
    /\ Running("check")
    /\ Fault("s3")
    /\ CheckOutcome(FALSE)
    /\ UNCHANGED <<archive, store, rejected>>

\* Mutant of UpToDate: the ETag is not compared.
UpToDateAtAnyEtag(etag) == ~job.force /\ \E m \in job.old : m.completed

\* head_object, then skip, resume or start over.
UpToDate(etag) == ~job.force /\ \E m \in job.old : m.etag = etag /\ m.completed

StartOffset(etag) ==
    IF ~job.force /\ \E m \in job.old : m.etag = etag /\ ~m.completed
    THEN (CHOOSE m \in job.old : TRUE).last_offset
    ELSE 0

HeadObject ==
    /\ Running("head")
    /\ IF UpToDate(archive)
       THEN Finish("s3 done")
       ELSE /\ job' = [job EXCEPT
                         !.pc = "get",
                         !.start = StartOffset(archive),
                         !.new = [etag |-> archive,
                                  last_offset |-> StartOffset(archive),
                                  total |-> OldTotal,
                                  errors |-> 0,
                                  completed |-> FALSE]]
            /\ UNCHANGED report
    /\ UNCHANGED <<archive, store, rejected, faults>>

HeadFails ==
    /\ Running("head")
    /\ Fault("s3")
    /\ Finish("failed")
    /\ UNCHANGED <<archive, store, rejected>>

\* stream_object(start_byte=0) and the copy to the temporary file, which S3Stream
\* takes step by step: always a whole object, the one of some moment since the
\* ETag was read.
GetObject ==
    /\ Running("get")
    /\ \E t \in FreshTags, n \in 0..archive :
          /\ \A u \in FreshTags : t <= u
          /\ job.new.etag <= n
          /\ job' = [job EXCEPT !.pc = "parse", !.box = S3Box(n), !.tag = t]
    /\ UNCHANGED <<archive, store, rejected, report, faults>>

GetFails ==
    /\ Running("get")
    /\ Fault("s3")
    /\ Finish("failed")
    /\ UNCHANGED <<archive, store, rejected>>

\* run_from_file up to its loop.  The caller prints "Local ingestion complete"
\* for a skipped run too.
StartLocal(force) ==
    /\ "local" \in Starts
    /\ Running("idle")
    /\ IF ~force /\ \E m \in manifest : m.completed
       THEN Finish("local done")
       ELSE \E t \in FreshTags :
              /\ \A u \in FreshTags : t <= u
              /\ job' = [IdleJob EXCEPT
                           !.pc = "parse", !.local = TRUE, !.force = force,
                           !.old = manifest, !.box = LocalBox, !.tag = t,
                           !.new = [BlankManifest EXCEPT !.etag = LocalEtag]]
              /\ report' = "none"
    /\ UNCHANGED <<archive, store, rejected, faults>>

-----------------------------------------------------------------------------
\* One turn of the loop over parse_mbox_stream.  The generator numbers messages
\* from start_offset although it reads from the first byte.
NextRecord ==
    ParseMessage(job.box[job.next], job.start + job.next - 1, job.tag)

\* Mutant of Wanted: the message at start_offset is taken for done.
WantedAfterStart(r) == job.local \/ r.raw_offset > job.start

Wanted(r) == job.local \/ r.raw_offset >= job.start

ParseNext ==
    /\ Running("parse")
    /\ job.next <= Len(job.box)
    /\ KindOf[job.box[job.next]] # "unframed"
    /\ LET r == NextRecord
           batch == IF Wanted(r) THEN Append(job.batch, r) ELSE job.batch
       IN job' = [job EXCEPT
                    !.pc = IF Len(batch) >= BatchSize THEN "insert" ELSE "parse",
                    !.next = @ + 1,
                    !.batch = batch,
                    !.errors = IF Wanted(r) /\ r.parse_error THEN @ + 1 ELSE @]
    /\ UNCHANGED <<archive, store, rejected, report, faults>>

\* Mutant of ParseAborts: the exception is swallowed and the fetch tried again.
ParseRetries ==
    /\ Running("parse")
    /\ job.next <= Len(job.box)
    /\ KindOf[job.box[job.next]] = "unframed"
    /\ UNCHANGED vars

\* The iteration over mailbox.mbox raises: the run ends where it stands.
ParseAborts ==
    /\ Running("parse")
    /\ job.next <= Len(job.box)
    /\ KindOf[job.box[job.next]] = "unframed"
    /\ Finish("failed")
    /\ UNCHANGED <<archive, store, rejected, faults>>

\* Mutant of ParseEnd: the rest of the batch is forgotten.
ParseEndForgetsRest ==
    /\ Running("parse")
    /\ job.next > Len(job.box)
    /\ job' = [job EXCEPT !.final = TRUE, !.batch = <<>>, !.pc = "count"]
    /\ UNCHANGED <<archive, store, rejected, report, faults>>

\* The loop ends; what is left in the batch is inserted.
ParseEnd ==
    /\ Running("parse")
    /\ job.next > Len(job.box)
    /\ job' = [job EXCEPT !.final = TRUE,
                          !.pc = IF job.batch = <<>> THEN "count" ELSE "insert"]
    /\ UNCHANGED <<archive, store, rejected, report, faults>>

\* insert_emails_batch, row by row.
InsertRow ==
    /\ Running("insert")
    /\ job.batch # <<>>
    /\ emails' = InsertOrReplace(emails, Head(job.batch))
    /\ job' = [job EXCEPT !.batch = Tail(@), !.processed = @ + 1]
    /\ UNCHANGED <<archive, manifest, fts, rejected, report, faults>>

RejectRow ==
    /\ Running("insert")
    /\ job.batch # <<>>
    /\ Fault("row")
    /\ rejected' = rejected \cup {Head(job.batch).msg}
    /\ job' = [job EXCEPT !.batch = Tail(@)]
    /\ UNCHANGED <<archive, store, report>>

\* Mutant of Checkpoint: one message too many.
CheckpointAhead ==
    [job.new EXCEPT !.last_offset = job.start + job.next - 1,
                    !.total = OldTotal + job.processed,
                    !.errors = job.errors]

\* Mutant of Checkpoint: it already says completed.
CheckpointCompleted ==
    [job.new EXCEPT !.last_offset = job.start + job.next - 2,
                    !.total = OldTotal + job.processed,
                    !.errors = job.errors,
                    !.completed = TRUE]

\* After a full batch run records a checkpoint, run_from_file does not.
Checkpoint ==
    [job.new EXCEPT !.last_offset = job.start + job.next - 2,
                    !.total = OldTotal + job.processed,
                    !.errors = job.errors]

BatchDone ==
    /\ Running("insert")
    /\ job.batch = <<>>
    /\ job' = IF job.final THEN [job EXCEPT !.pc = "count"]
              ELSE IF job.local THEN [job EXCEPT !.pc = "parse"]
              ELSE [job EXCEPT !.pc = "delete", !.new = Checkpoint]
    /\ UNCHANGED <<archive, store, rejected, report, faults>>

\* Mutant of Count: the total is kept by addition, as in a checkpoint.
CountByAddition ==
    /\ Running("count")
    /\ job' = [job EXCEPT
                 !.pc = "delete",
                 !.new.last_offset = job.start + job.processed + job.errors,
                 !.new.total = OldTotal + job.processed,
                 !.new.errors = job.errors,
                 !.new.completed = TRUE]
    /\ UNCHANGED <<archive, store, rejected, report, faults>>

\* The manifest of a finished run, which counts the rows of the table.
Count ==
    /\ Running("count")
    /\ job' = [job EXCEPT
                 !.pc = "delete",
                 !.new.last_offset = job.start + job.processed + job.errors,
                 !.new.total = Cardinality(emails),
                 !.new.errors = job.errors,
                 !.new.completed = TRUE]
    /\ UNCHANGED <<archive, store, rejected, report, faults>>

\* save_manifest: DELETE, then INSERT.
SaveDelete ==
    /\ Running("delete")
    /\ manifest' = {}
    /\ job' = [job EXCEPT !.pc = "save"]
    /\ UNCHANGED <<archive, emails, fts, rejected, report, faults>>

\* Mutant of SaveInsert: the INSERT of the last manifest is left out.
SaveInsertOnlyCheckpoints ==
    /\ Running("save")
    /\ manifest' = IF job.new.completed THEN {} ELSE {job.new}
    /\ job' = [job EXCEPT !.pc = IF job.new.completed THEN "fts" ELSE "parse"]
    /\ UNCHANGED <<archive, emails, fts, rejected, report, faults>>

SaveInsert ==
    /\ Running("save")
    /\ manifest' = {job.new}
    /\ job' = [job EXCEPT !.pc = IF job.new.completed THEN "fts" ELSE "parse"]
    /\ UNCHANGED <<archive, emails, fts, rejected, report, faults>>

Done == Finish(IF job.local THEN "local done" ELSE "s3 done")

\* Mutant of CreateFts: an index that exists is not overwritten.
CreateFtsOnce ==
    /\ Running("fts")
    /\ fts' = IF fts = {} THEN {{r.key : r \in emails}} ELSE fts
    /\ Done
    /\ UNCHANGED <<archive, emails, manifest, rejected, faults>>

\* create_fts_index over the table as it is; it logs an error and returns.
CreateFts ==
    /\ Running("fts")
    /\ fts' = {{r.key : r \in emails}}
    /\ Done
    /\ UNCHANGED <<archive, emails, manifest, rejected, faults>>

FtsFails ==
    /\ Running("fts")
    /\ Fault("fts")
    /\ fts' \in {fts, {}}
    /\ Done
    /\ UNCHANGED <<archive, emails, manifest, rejected>>

\* A statement on the manifest, or the COUNT, raises: DatabaseManager.connection
\* passes the exception on and the run ends where it stands.  What earlier
\* statements wrote stays, the DELETE of save_manifest too.
StartRaises ==
    /\ Starts # {}
    /\ Running("idle")
    /\ Fault("db")
    /\ Finish("failed")
    /\ UNCHANGED <<archive, store, rejected>>

StatementRaises ==
    /\ \/ Running("check") /\ (ShouldIngest(archive) \/ job.force)
       \/ job.pc \in {"count", "delete", "save"}
    /\ Fault("db")
    /\ Finish("failed")
    /\ UNCHANGED <<archive, store, rejected>>

\* The process dies (the API thread is a daemon); the database file stays.
Crash ==
    /\ ~Running("idle")
    /\ Fault("crash")
    /\ Finish("none")
    /\ UNCHANGED <<archive, store, rejected>>

-----------------------------------------------------------------------------
Start == \E force \in Forces : StartApi(force) \/ StartCli(force) \/ StartLocal(force)

JobStep ==
    \/ Check \/ HeadObject \/ GetObject
    \/ ParseNext \/ ParseAborts \/ ParseEnd
    \/ InsertRow \/ BatchDone \/ Count
    \/ SaveDelete \/ SaveInsert \/ CreateFts

Failure ==
    \/ CheckFails \/ HeadFails \/ GetFails
    \/ RejectRow \/ FtsFails \/ StatementRaises \/ Crash

Next == ArchiveGrows \/ Start \/ StartRaises \/ JobStep \/ Failure

Spec == Init /\ [][Next]_vars

\* A job that runs goes on: it waits for nobody.
FairJob == WF_vars(JobStep)

\* Nothing in the code starts a run by itself.  The operator is assumed to come
\* back and start an unforced run of the S3 archive.
FairOperator == WF_vars("api" \in Starts /\ StartApi(FALSE))
                /\ WF_vars("cli" \in Starts /\ StartCli(FALSE))

FairSpec == Spec /\ FairJob
OperatedSpec == FairSpec /\ FairOperator

-----------------------------------------------------------------------------
\* The types of the three tables, of the run's locals and of its report.
TypeOK ==
    /\ archive \in 0..MsgCount
    /\ emails \subseteq Row
    /\ manifest \subseteq Manifest
    /\ fts \in SUBSET SUBSET Key
    /\ job \in Job
    /\ rejected \subseteq Msg
    /\ report \in Reports
    /\ faults \in 0..MaxFaults

\* The index has done what it can with m: it holds it, or logged that the row
\* was refused.
Handled(m) == Represented(emails, m) \/ m \in rejected

\* A manifest marked completed tells the truth: every message the archive held
\* at the recorded ETag (or every message of the local file) has been handled.
\* Later runs skip on the strength of this mark.
CompletedCovers ==
    \A m \in manifest : m.completed => \A n \in EtagMessages(m.etag) : Handled(n)

\* Why CompletedCovers holds.  A key is never shared by two mails; what the loop
\* has passed is in the index or in the batch; the bytes read include the
\* archive of the ETag recorded, although head_object and get_object are two
\* calls; and completed is set only after the loop.
Keyed(r) == r.key = KeyOf(r.msg, r.key.tag)

InBatch(m) == \E i \in DOMAIN job.batch : job.batch[i].msg = m

HasBox == job.pc \in {"parse", "insert", "count", "delete", "save"}

RowsKeyed ==
    /\ \A r \in emails : Keyed(r)
    /\ \A i \in DOMAIN job.batch : Keyed(job.batch[i])

BoxCoversEtag ==
    /\ Running("get") => job.new.etag \in 0..archive
    /\ HasBox => EtagMessages(job.new.etag) \subseteq {job.box[i] : i \in DOMAIN job.box}

PassedIsHandled ==
    HasBox => \A i \in DOMAIN job.box :
                 i < job.next => Handled(job.box[i]) \/ InBatch(job.box[i])

LoopBounds ==
    /\ job.pc \in {"check", "head", "get"} => job.next = 1
    /\ (Running("insert") /\ job.final) \/ Running("count") => job.next > Len(job.box)
    /\ Running("count") => job.batch = <<>>
    /\ job.pc \in {"check", "head", "get", "parse"} => ~job.final
    /\ job.pc \in {"delete", "save"} /\ ~job.new.completed => ~job.final
    /\ Running("insert") /\ ~job.final => job.next > 1

CompletedLast ==
    /\ job.pc \in {"get", "parse", "insert", "count"} => ~job.new.completed
    /\ (job.pc \in {"delete", "save"} /\ job.new.completed) =>
          \A n \in EtagMessages(job.new.etag) : Handled(n)

SavesIntoGap ==
    /\ HasBox => job.new.etag \in {LocalEtag} \cup 0..archive
    /\ Running("save") => manifest = {}

\* All of it together is inductive.
IngestionInv ==
    /\ TypeOK
    /\ RowsKeyed
    /\ BoxCoversEtag
    /\ PassedIsHandled
    /\ LoopBounds
    /\ CompletedLast
    /\ SavesIntoGap
    /\ CompletedCovers

\* The checkpoint of an unfinished run tells the truth: every message up to
\* last_offset has been handled, so that a resumed run could skip them.
CheckpointTruthful ==
    \A m \in manifest :
        (~m.completed /\ m.etag # LocalEtag) =>
            \A n \in Msg : n <= m.last_offset + 1 => Handled(n)

\* Without an FTS index search_fts falls back to ILIKE, which reads the table.
Searchable(key) == \A keys \in fts : key \in keys

\* Whatever the index holds is found by full-text search once no run is in
\* progress and the manifest says completed.
SearchableWhenCompleted ==
    (Running("idle") /\ \E m \in manifest : m.completed) =>
        \A r \in emails : Searchable(r.key)

\* Once a run has finished (the FTS index exists), no quiet moment finds the
\* manifest missing: /api/ingestion/status would answer "not_started".
FinishedRunOnRecord == (Running("idle") /\ fts # {}) => manifest # {}

\* Between runs the completed manifest's total_messages is the number of rows.
CompletedTotal ==
    Running("idle") =>
        \A m \in manifest : m.completed => m.total = Cardinality(emails)

\* A mail that carries a Message-ID has one row, however often its copies are
\* ingested.
MailOnce ==
    \A r, q \in emails :
        (KindOf[r.msg] = "identified" /\ SameMail(r.msg, q.msg)) => r = q

\* A resumed run takes up after the messages the checkpoint counts as done.
ResumesAtCheckpoint ==
    ~job.local => \A i \in DOMAIN job.batch : job.batch[i].msg > job.start

\* Every run that starts ends, whatever it meets.
RunsEnd == ~Running("idle") ~> Running("idle")

CaughtUp == \E m \in manifest : m.completed /\ m.etag = archive
Unfetchable == \E n \in 1..archive : KindOf[n] = "unframed"

\* When the archive stops growing and faults stop, the index catches up with it
\* and stays so, unless there is a message that cannot be fetched.
EventuallyCaughtUp == <>[](CaughtUp \/ Unfetchable)

-----------------------------------------------------------------------------
\* The pipeline implements ArchiveIndex.
Index == INSTANCE ArchiveIndex WITH
    size    <- archive,
    handled <- {m \in Msg : Handled(m)},
    claim   <- {m.etag : m \in {x \in manifest : x.completed}}

\* Every step of ingestion, a crash included, is a step the abstract index
\* allows: handled mail is never lost, and the completed mark is set only when
\* it is true.
IndexSpec == Index!Spec
==============================================================================
