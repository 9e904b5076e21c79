-------------------------- MODULE IngestionCalmProofs --------------------------
(* What holds of ingestion while nothing fails but S3 calls and single rows.  *)
EXTENDS IngestionProofs

\* Nothing fails but S3 calls and single rows, and every message can be fetched.
Calm ==
    /\ FaultKinds \subseteq {"s3", "row"}
    /\ \A m \in Msg : KindOf[m] # "unframed"

\* No manifest is on record but a completed one that counts the rows.
Settled == \A m \in manifest : m.completed /\ m.total = Cardinality(emails)

\* Before a run has written anything the last one has left all in order.
QuietRest ==
    job.pc \in {"idle", "check", "head", "get"} =>
        /\ Settled
        /\ \A r \in emails : Searchable(r.key)
        /\ fts # {} => manifest # {}

\* So it is before the index is built, but for the index.
FtsPending == Running("fts") => Settled /\ manifest # {}

\* The manifest of a finished run counts the rows until it is saved.
TotalCounted ==
    (job.pc \in {"delete", "save"} /\ job.new.completed) =>
        job.new.total = Cardinality(emails)

\* No run resumes: it never finds a checkpoint.
NeverResumes ==
    /\ Running("head") => \A m \in job.old : m.completed
    /\ job.start = 0

\* The loop goes through the object from its first message.
BoxInOrder ==
    HasBox => /\ job.next <= Len(job.box) + 1
              /\ ~job.local => \A i \in DOMAIN job.box : job.box[i] = i

\* A checkpoint about to be saved counts what the loop has passed, all of it
\* inserted.
CheckpointNew ==
    (job.pc \in {"delete", "save"} /\ ~job.new.completed) =>
        /\ ~job.local
        /\ job.batch = <<>>
        /\ job.new.last_offset = job.next - 2

CalmInv ==
    /\ QuietRest
    /\ FtsPending
    /\ TotalCounted
    /\ NeverResumes
    /\ BoxInOrder
    /\ CheckpointNew
    /\ CheckpointTruthful

-----------------------------------------------------------------------------
(* What the steps leave alone *)

\* A calm run ends of itself, or before it has read anything.
LEMMA CalmEnds ==
    ASSUME Calm, job \in Job, Ends
    PROVE  HeadFails \/ GetFails \/ CreateFts
<1>1. ~Crash /\ ~FtsFails /\ ~StatementRaises /\ ~StartRaises
  BY DEF Calm, Crash, FtsFails, StatementRaises, StartRaises, Fault
<1>2. ASSUME ParseAborts PROVE FALSE
  <2>1. /\ job.next \in Nat \ {0} /\ job.box \in Seq(Msg)
        /\ job.next <= Len(job.box) /\ KindOf[job.box[job.next]] = "unframed"
    BY <1>2, JobFields DEF ParseAborts
  <2>2. job.box[job.next] \in Msg
    BY <2>1, ElementOfSeq
  <2> QED BY <2>1, <2>2 DEF Calm
<1> QED BY <1>1, <1>2 DEF Ends

\* The offset of the run is set by head_object alone.
LEMMA StartKept ==
    ASSUME job \in Job, [Next]_vars
    PROVE  job'.start \in {job.start, 0} \/ HeadObject
<1>1. IdleJob.start = 0
  BY DEF IdleJob
<1>2. CASE Idles \/ Ends
  BY <1>1, <1>2, EndsFields
<1>3. ASSUME NEW f \in Forces, StartApi(f) \/ StartCli(f) PROVE job'.start = 0
  <2>1. CASE StartApi(f)
    BY <2>1 DEF StartApi, IdleJob
  <2>2. CASE StartCli(f)
    BY <2>2 DEF StartCli, IdleJob
  <2> QED BY <1>3, <2>1, <2>2
<1>4. ASSUME NEW f \in Forces, StartLocal(f) PROVE job'.start = 0
  <2>1. CASE job' = IdleJob
    BY <1>1, <2>1
  <2>2. ASSUME NEW t, NEW blank,
               job' = [IdleJob EXCEPT
                           !.pc = "parse", !.local = TRUE, !.force = f,
                           !.old = manifest, !.box = LocalBox, !.tag = t,
                           !.new = blank]
        PROVE  job'.start = 0
    BY <2>2 DEF IdleJob
  <2> QED BY <1>4, <2>1, <2>2 DEF StartLocal, Finish
<1>5. CASE Check \/ CheckFails
  <2>1. job' = IdleJob \/ job' = [job EXCEPT !.pc = "head", !.old = manifest]
    BY <1>5 DEF Check, CheckFails, CheckOutcome, Finish
  <2> QED BY <1>1, <2>1 DEF Job
<1>6. CASE GetObject
  <2>1. PICK t \in FreshTags, n \in 0..archive :
          job' = [job EXCEPT !.pc = "parse", !.box = S3Box(n), !.tag = t]
    BY <1>6 DEF GetObject
  <2> QED BY <2>1 DEF Job
<1>7. CASE ParseNext
  <2>1. PICK pc, batch, errors :
          job' = [job EXCEPT !.pc = pc, !.next = @ + 1, !.batch = batch, !.errors = errors]
    BY <1>7 DEF ParseNext
  <2> QED BY <2>1 DEF Job
<1>8. CASE ParseEnd
  BY <1>8 DEF ParseEnd, Job
<1>9. CASE InsertRow \/ RejectRow
  <2>1. CASE InsertRow
    BY <2>1 DEF InsertRow, Job
  <2>2. CASE RejectRow
    BY <2>2 DEF RejectRow, Job
  <2> QED BY <1>9, <2>1, <2>2
<1>10. CASE BatchDone
  <2> DEFINE new == Checkpoint
  <2>1. \/ job' = [job EXCEPT !.pc = "count"]
        \/ job' = [job EXCEPT !.pc = "parse"]
        \/ job' = [job EXCEPT !.pc = "delete", !.new = new]
    BY <1>10 DEF BatchDone
  <2> HIDE DEF new
  <2> QED BY <2>1 DEF Job
<1>11. CASE Count
  <2>1. PICK offset, total, errors :
          job' = [job EXCEPT !.pc = "delete", !.new.last_offset = offset,
                             !.new.total = total, !.new.errors = errors,
                             !.new.completed = TRUE]
    BY <1>11 DEF Count
  <2> QED BY <2>1 DEF Job
<1>12. CASE SaveDelete \/ SaveInsert
  <2>1. CASE SaveDelete
    BY <2>1 DEF SaveDelete, Job
  <2>2. CASE SaveInsert
    BY <2>2 DEF SaveInsert, Job
  <2> QED BY <1>12, <2>1, <2>2
<1> QED BY <1>2, <1>3, <1>4, <1>5, <1>6, <1>7, <1>8, <1>9, <1>10, <1>11, <1>12, Cases

\* Once it has its box, a run goes on reading the same one from the same source.
LEMMA LocalKept ==
    ASSUME job \in Job, [Next]_vars, HasBox, HasBox'
    PROVE  job'.local = job.local /\ job'.box = job.box
<1> USE DEF HasBox
<1>1. CASE Idles
  BY <1>1, EndsFields
<1>2. CASE Ends
  BY <1>2, EndsFields, IdleFields
<1>3. CASE \E f \in Forces : StartApi(f) \/ StartCli(f) \/ StartLocal(f)
  BY <1>3 DEF StartApi, StartCli, StartLocal, Running
<1>4. CASE Check \/ CheckFails \/ HeadObject \/ GetObject
  BY <1>4 DEF Check, CheckFails, HeadObject, GetObject, Running
<1>5. CASE ParseNext
  <2>1. PICK pc, batch, errors :
          job' = [job EXCEPT !.pc = pc, !.next = @ + 1, !.batch = batch, !.errors = errors]
    BY <1>5 DEF ParseNext
  <2> QED BY <2>1 DEF Job
<1>6. CASE ParseEnd
  BY <1>6 DEF ParseEnd, Job
<1>7. CASE InsertRow
  BY <1>7 DEF InsertRow, Job
<1>8. CASE RejectRow
  BY <1>8 DEF RejectRow, Job
<1>9. CASE BatchDone
  <2> DEFINE new == Checkpoint
  <2>1. \/ job' = [job EXCEPT !.pc = "count"]
        \/ job' = [job EXCEPT !.pc = "parse"]
        \/ job' = [job EXCEPT !.pc = "delete", !.new = new]
    BY <1>9 DEF BatchDone
  <2> HIDE DEF new
  <2> QED BY <2>1 DEF Job
<1>10. CASE Count
  <2>1. PICK offset, total, errors :
          job' = [job EXCEPT !.pc = "delete", !.new.last_offset = offset,
                             !.new.total = total, !.new.errors = errors,
                             !.new.completed = TRUE]
    BY <1>10 DEF Count
  <2> QED BY <2>1 DEF Job
<1>11. CASE SaveDelete
  BY <1>11 DEF SaveDelete, Job
<1>12. CASE SaveInsert
  BY <1>12 DEF SaveInsert, Job
<1> QED BY <1>1, <1>2, <1>3, <1>4, <1>5, <1>6, <1>7, <1>8, <1>9, <1>10, <1>11, <1>12, Cases

-----------------------------------------------------------------------------
(* Each part of the invariant is kept *)

\* Where the statement about to run comes from, when nothing is written yet.
LEMMA RestFrom ==
    ASSUME Calm, TypeOK, [Next]_vars, job'.pc \in {"idle", "check", "head", "get"}
    PROVE  \/ job.pc \in {"idle", "check", "head", "get"} /\ UNCHANGED store
           \/ CreateFts
<1>1. job \in Job
  BY DEF TypeOK
<1> USE DEF Running, store
<1>2. CASE Idles
  BY <1>2 DEF Idles, ArchiveGrows, vars
<1>3. CASE Ends
  BY <1>1, <1>3, CalmEnds DEF HeadFails, GetFails
<1>4. CASE \E f \in Forces : StartApi(f) \/ StartCli(f) \/ StartLocal(f)
  BY <1>4 DEF StartApi, StartCli, StartLocal
<1>5. CASE Check \/ CheckFails \/ HeadObject \/ GetObject
  BY <1>5 DEF Check, CheckFails, HeadObject, GetObject
<1>6. CASE ParseNext \/ ParseEnd
  BY <1>1, <1>6, ParseFields, EndFields
<1>7. CASE InsertRow \/ RejectRow
  BY <1>1, <1>7, InsertFields DEF InsertRow, RejectRow
<1>8. CASE BatchDone \/ Count
  BY <1>1, <1>8, DoneFields, CountFields
<1>9. CASE SaveDelete \/ SaveInsert
  BY <1>1, <1>9, SaveFields
<1> QED BY <1>2, <1>3, <1>4, <1>5, <1>6, <1>7, <1>8, <1>9, Cases

\* Between runs, and until a run writes, all is in order.
LEMMA QuietRestStep ==
    Calm /\ TypeOK /\ QuietRest /\ FtsPending /\ [Next]_vars => QuietRest'
<1> SUFFICES ASSUME Calm, TypeOK, QuietRest, FtsPending, [Next]_vars,
                    job'.pc \in {"idle", "check", "head", "get"}
             PROVE  /\ Settled'
                    /\ (\A r \in emails : Searchable(r.key))'
                    /\ (fts # {} => manifest # {})'
    BY DEF QuietRest
<1>1. CASE job.pc \in {"idle", "check", "head", "get"} /\ UNCHANGED store
  BY <1>1 DEF QuietRest, Settled, Searchable, store
<1>2. CASE CreateFts
  <2>1. fts' = {{r.key : r \in emails}} /\ UNCHANGED <<emails, manifest>>
    BY <1>2 DEF CreateFts
  <2>2. Settled /\ manifest # {}
    BY <1>2 DEF CreateFts, FtsPending
  <2> QED BY <2>1, <2>2 DEF Settled, Searchable
<1> QED BY <1>1, <1>2, RestFrom

\* Which statements come before the last ones of a run.
LEMMA SaveFrom ==
    ASSUME TypeOK, [Next]_vars
    PROVE  /\ job'.pc = "fts" =>
                \/ UNCHANGED <<job, store>>
                \/ SaveInsert /\ job.new.completed
           /\ job'.pc \in {"delete", "save"} =>
                \/ UNCHANGED <<job, store>>
                \/ Count \/ SaveDelete
                \/ BatchDone /\ ~job.final /\ ~job.local
                    /\ job' = [job EXCEPT !.pc = "delete", !.new = Checkpoint]
<1>1. job \in Job
  BY DEF TypeOK
<1>2. CASE Idles
  BY <1>2 DEF Idles, ArchiveGrows, vars, store
<1>3. CASE Ends
  BY <1>3, EndsFields, IdleFields
<1>4. CASE \E f \in Forces : StartApi(f) \/ StartCli(f)
  BY <1>4, StartFields
<1>5. CASE \E f \in Forces : StartLocal(f)
  BY <1>5, LocalFields, IdleFields
<1>6. CASE Check \/ CheckFails \/ HeadObject \/ GetObject
  BY <1>1, <1>6, CheckFields, HeadFields, GetFields, IdleFields
<1>7. CASE ParseNext \/ ParseEnd
  BY <1>1, <1>7, ParseFields, EndFields
<1>8. CASE InsertRow \/ RejectRow
  BY <1>1, <1>8, InsertFields DEF InsertRow, RejectRow, Running
<1>9. CASE BatchDone
  <2>1. CASE job' = [job EXCEPT !.pc = "count"] \/ job' = [job EXCEPT !.pc = "parse"]
    BY <1>1, <2>1 DEF Job
  <2>2. CASE /\ ~job.final /\ ~job.local
             /\ job' = [job EXCEPT !.pc = "delete", !.new = Checkpoint]
    <3>1. job'.pc # "fts"
      BY <1>1, <1>9, DoneFields
    <3> QED BY <1>9, <2>2, <3>1
  <2> QED BY <1>9, <2>1, <2>2 DEF BatchDone
<1>10. CASE Count
  BY <1>1, <1>10, CountFields
<1>11. CASE SaveDelete \/ SaveInsert
  BY <1>1, <1>11, SaveFields
<1> QED BY <1>2, <1>3, <1>4, <1>5, <1>6, <1>7, <1>8, <1>9, <1>10, <1>11, Cases

\* The manifest saved last counts the rows.
LEMMA FtsPendingStep == TypeOK /\ FtsPending /\ TotalCounted /\ [Next]_vars => FtsPending'
<1> SUFFICES ASSUME TypeOK, FtsPending, TotalCounted, [Next]_vars, job'.pc = "fts"
             PROVE  Settled' /\ manifest' # {}
    BY DEF FtsPending, Running
<1>1. CASE UNCHANGED <<job, store>>
  BY <1>1 DEF FtsPending, Running, Settled, store
<1>2. CASE SaveInsert /\ job.new.completed
  <2>1. manifest' = {job.new} /\ emails' = emails /\ job.pc = "save"
    BY <1>2 DEF SaveInsert, Running
  <2>2. job.new.total = Cardinality(emails)
    BY <1>2, <2>1 DEF TotalCounted
  <2> QED BY <1>2, <2>1, <2>2 DEF Settled
<1> QED BY <1>1, <1>2, SaveFrom

\* The total counted stays the number of rows until it is saved.
LEMMA TotalCountedStep ==
    TypeOK /\ CompletedLast /\ TotalCounted /\ [Next]_vars => TotalCounted'
<1> SUFFICES ASSUME TypeOK, CompletedLast, TotalCounted, [Next]_vars,
                    job'.pc \in {"delete", "save"}, job'.new.completed
             PROVE  job'.new.total = Cardinality(emails')
    BY DEF TotalCounted
<1>1. job \in Job /\ job.new \in Manifest
  BY JobFields DEF TypeOK
<1>2. CASE UNCHANGED <<job, store>>
  BY <1>2 DEF TotalCounted, store
<1>3. CASE Count
  <2>1. emails' = emails
    BY <1>3 DEF Count, store
  <2> DEFINE total == Cardinality(emails)
  <2>2. PICK offset, errors :
          job' = [job EXCEPT !.pc = "delete", !.new.last_offset = offset,
                             !.new.total = total, !.new.errors = errors,
                             !.new.completed = TRUE]
    BY <1>3 DEF Count
  <2> HIDE DEF total
  <2>3. job'.new.total = total
    BY <1>1, <2>2 DEF Job, Manifest
  <2> QED BY <2>1, <2>3 DEF total
<1>4. CASE SaveDelete
  <2>1. emails' = emails /\ job.pc = "delete" /\ job'.new = job.new
    BY <1>1, <1>4, SaveFields DEF SaveDelete, Running
  <2> QED BY <2>1 DEF TotalCounted
<1>5. CASE BatchDone
  <2>1. job'.new.completed = job.new.completed /\ job.pc = "insert"
    BY <1>1, <1>5, DoneFields DEF BatchDone, Running
  <2> QED BY <2>1 DEF CompletedLast
<1> QED BY <1>2, <1>3, <1>4, <1>5, SaveFrom

\* A run that finds only completed manifests starts from the first message.
LEMMA NeverResumesStep ==
    TypeOK /\ QuietRest /\ NeverResumes /\ [Next]_vars => NeverResumes'
<1> SUFFICES ASSUME TypeOK, QuietRest, NeverResumes, [Next]_vars PROVE NeverResumes'
    OBVIOUS
<1>1. job \in Job
  BY DEF TypeOK
<1>2. job'.start = 0
  <2>1. CASE HeadObject
    <3>1. CASE job' = IdleJob
      BY <3>1 DEF IdleJob
    <3>2. CASE job' # IdleJob
      <4> DEFINE start == StartOffset(archive)
      <4>1. PICK new : job' = [job EXCEPT !.pc = "get", !.start = start, !.new = new]
        BY <2>1, <3>2 DEF HeadObject, Finish
      <4>2. start = 0
        BY <2>1 DEF StartOffset, NeverResumes, HeadObject
      <4> HIDE DEF start
      <4> QED BY <1>1, <4>1, <4>2 DEF Job
    <3> QED BY <3>1, <3>2
  <2> QED BY <1>1, <2>1, StartKept DEF NeverResumes
<1>3. ASSUME job'.pc = "head" PROVE \A m \in job'.old : m.completed
  <2>1. CASE Idles
    BY <1>3, <2>1, EndsFields DEF NeverResumes, Running
  <2>2. CASE Ends
    BY <1>3, <2>2, EndsFields, IdleFields
  <2>3. ASSUME NEW f \in Forces, StartApi(f) PROVE \A m \in job'.old : m.completed
    <3>1. job'.old = manifest /\ job.pc = "idle"
      BY <2>3 DEF StartApi, IdleJob, Running
    <3> QED BY <3>1 DEF QuietRest, Settled
  <2>4. ASSUME NEW f \in Forces, StartCli(f) PROVE FALSE
    <3>1. job'.pc = "check"
      BY <2>4 DEF StartCli, IdleJob
    <3> QED BY <1>3, <3>1
  <2>5. CASE \E f \in Forces : StartLocal(f)
    BY <1>3, <2>5, LocalFields, IdleFields
  <2>6. CASE Check \/ CheckFails
    <3>1. job' = [job EXCEPT !.pc = "head", !.old = manifest]
      BY <1>3, <2>6, IdleFields DEF Check, CheckFails, CheckOutcome, Finish
    <3>2. job'.old = manifest /\ job.pc = "check"
      BY <1>1, <2>6, <3>1 DEF Check, CheckFails, Running, Job
    <3> QED BY <3>2 DEF QuietRest, Settled
  <2>7. CASE HeadObject \/ GetObject
    BY <1>1, <1>3, <2>7, HeadFields, GetFields, IdleFields
  <2>8. CASE ParseNext \/ ParseEnd
    BY <1>1, <1>3, <2>8, ParseFields, EndFields
  <2>9. CASE InsertRow \/ RejectRow
    BY <1>1, <1>3, <2>9, InsertFields DEF InsertRow, RejectRow, Running
  <2>10. CASE BatchDone \/ Count
    BY <1>1, <1>3, <2>10, DoneFields, CountFields
  <2>11. CASE SaveDelete \/ SaveInsert
    BY <1>1, <1>3, <2>11, SaveFields
  <2> QED BY <2>1, <2>2, <2>3, <2>4, <2>5, <2>6, <2>7, <2>8, <2>9, <2>10, <2>11, Cases
<1> QED BY <1>2, <1>3 DEF NeverResumes, Running

\* The loop reads the box in the order of the archive, and stops at its end.
LEMMA BoxInOrderStep ==
    TypeOK /\ LoopBounds /\ BoxInOrder /\ [Next]_vars => BoxInOrder'
<1> SUFFICES ASSUME TypeOK, LoopBounds, BoxInOrder, [Next]_vars, HasBox'
             PROVE  /\ job'.next <= Len(job'.box) + 1
                    /\ ~job'.local => \A i \in DOMAIN job'.box : job'.box[i] = i
    BY DEF BoxInOrder
<1>1. /\ job \in Job /\ job.next \in Nat \ {0} /\ job.box \in Seq(Msg)
      /\ job.local \in BOOLEAN
  BY JobFields DEF TypeOK
<1>2. CASE HasBox
  <2>1. job'.local = job.local /\ job'.box = job.box
    BY <1>1, <1>2, LocalKept
  <2>2. job'.next = job.next \/ ParseNext
    <3>1. CASE Idles
      BY <3>1, EndsFields
    <3>2. CASE Ends
      BY <3>2, EndsFields, IdleFields DEF HasBox
    <3>3. CASE \E f \in Forces : StartApi(f) \/ StartCli(f) \/ StartLocal(f)
      BY <1>2, <3>3 DEF StartApi, StartCli, StartLocal, Running, HasBox
    <3>4. CASE Check \/ CheckFails \/ HeadObject \/ GetObject
      BY <1>2, <3>4 DEF Check, CheckFails, HeadObject, GetObject, Running, HasBox
    <3>5. CASE ParseEnd \/ InsertRow \/ RejectRow \/ BatchDone \/ Count
      BY <1>1, <3>5, EndFields, InsertFields, DoneFields, CountFields
    <3>6. CASE SaveDelete \/ SaveInsert
      BY <1>1, <3>6, SaveFields
    <3> QED BY <3>1, <3>2, <3>3, <3>4, <3>5, <3>6, Cases
  <2>3. job'.next <= Len(job.box) + 1
    <3>1. CASE job'.next = job.next
      BY <1>2, <3>1 DEF BoxInOrder
    <3>2. CASE ParseNext
      <4>1. job'.next = job.next + 1 /\ job.next <= Len(job.box)
        BY <1>1, <3>2, ParseFields DEF ParseNext
      <4>2. Len(job.box) \in Nat
        BY <1>1
      <4> QED BY <1>1, <4>1, <4>2
    <3> QED BY <2>2, <3>1, <3>2
  <2> QED BY <1>2, <2>1, <2>3 DEF BoxInOrder
<1>3. CASE ~HasBox
  <2>1. GetObject \/ \E f \in Forces : StartLocal(f)
    <3>1. CASE Idles
      BY <1>3, <3>1, EndsFields DEF HasBox
    <3>2. CASE Ends
      BY <3>2, EndsFields, IdleFields DEF HasBox
    <3>3. CASE \E f \in Forces : StartApi(f) \/ StartCli(f)
      BY <3>3, StartFields DEF HasBox
    <3>4. CASE Check \/ CheckFails \/ HeadObject
      BY <1>1, <3>4, CheckFields, HeadFields, IdleFields DEF HasBox
    <3>5. CASE ParseNext \/ ParseEnd \/ InsertRow \/ RejectRow \/ BatchDone \/ Count
               \/ SaveDelete \/ SaveInsert
      BY <1>3, <3>5 DEF ParseNext, ParseEnd, InsertRow, RejectRow, BatchDone, Count,
         SaveDelete, SaveInsert, Running, HasBox
    <3> QED BY <3>1, <3>2, <3>3, <3>4, <3>5, Cases
  <2>2. CASE GetObject
    <3>1. job'.next = 1
      BY <1>1, <2>2, GetFields DEF GetObject, LoopBounds, Running
    <3>2. PICK n \in 0..archive : job'.box = S3Box(n)
      BY <1>1, <2>2, GetFields
    <3>3. n \in 0..MsgCount
      BY <3>2, ArchiveAssumption DEF TypeOK
    <3>4. Len(job'.box) = n /\ \A i \in DOMAIN job'.box : job'.box[i] = i
      BY <3>2, <3>3, S3BoxType DEF S3Box
    <3> QED BY <3>1, <3>3, <3>4, ArchiveAssumption
  <2>3. ASSUME NEW f \in Forces, StartLocal(f)
        PROVE  job'.next <= Len(job'.box) + 1 /\ job'.local
    <3>1. job' # IdleJob
      BY IdleFields DEF HasBox
    <3>2. PICK t, blank :
            job' = [IdleJob EXCEPT
                           !.pc = "parse", !.local = TRUE, !.force = f,
                           !.old = manifest, !.box = LocalBox, !.tag = t,
                           !.new = blank]
      BY <2>3, <3>1 DEF StartLocal, Finish
    <3>3. job'.next = 1 /\ job'.local /\ job'.box = LocalBox
      BY <3>2 DEF IdleJob
    <3>4. Len(LocalBox) \in Nat
      BY ArchiveAssumption
    <3> QED BY <3>3, <3>4
  <2> QED BY <2>1, <2>2, <2>3
<1> QED BY <1>2, <1>3

\* A checkpoint is taken with the batch empty, at the position of the loop.
LEMMA CheckpointNewStep ==
    /\ TypeOK /\ CompletedLast /\ NeverResumes /\ CheckpointNew /\ [Next]_vars
    => CheckpointNew'
<1> SUFFICES ASSUME TypeOK, CompletedLast, NeverResumes, CheckpointNew, [Next]_vars,
                    job'.pc \in {"delete", "save"}, ~job'.new.completed
             PROVE  /\ ~job'.local
                    /\ job'.batch = <<>>
                    /\ job'.new.last_offset = job'.next - 2
    BY DEF CheckpointNew
<1>1. /\ job \in Job /\ job.new \in Manifest /\ job.next \in Nat \ {0}
  BY JobFields DEF TypeOK
<1>2. CASE UNCHANGED <<job, store>>
  BY <1>2 DEF CheckpointNew
<1>3. CASE Count
  BY <1>1, <1>3, CountFields
<1>4. CASE SaveDelete
  <2>1. /\ job.pc = "delete" /\ job'.new = job.new /\ job'.batch = job.batch
        /\ job'.next = job.next
    BY <1>1, <1>4, SaveFields DEF SaveDelete, Running
  <2>2. job'.local = job.local
    BY <1>1, <1>4 DEF SaveDelete, Job
  <2> QED BY <2>1, <2>2 DEF CheckpointNew
<1>5. CASE /\ BatchDone /\ ~job.final /\ ~job.local
           /\ job' = [job EXCEPT !.pc = "delete", !.new = Checkpoint]
  <2>1. job'.next = job.next /\ job'.batch = <<>>
    BY <1>1, <1>5, DoneFields DEF BatchDone
  <2> DEFINE offset == job.start + job.next - 2
             total == OldTotal + job.processed
             new == Checkpoint
  <2>2. new = [job.new EXCEPT !.last_offset = offset, !.total = total,
                              !.errors = job.errors]
    BY DEF Checkpoint
  <2>3. offset = job.next - 2
    BY <1>1 DEF NeverResumes
  <2>4. job' = [job EXCEPT !.pc = "delete", !.new = new]
    BY <1>5
  <2> HIDE DEF offset, total, new
  <2>5. new.last_offset = offset
    BY <1>1, <2>2 DEF Manifest
  <2>6. job'.new = new /\ job'.local = job.local
    BY <1>1, <2>4 DEF Job
  <2> QED BY <1>5, <2>1, <2>3, <2>5, <2>6
<1> QED BY <1>2, <1>3, <1>4, <1>5, SaveFrom

\* What a checkpoint counts as done has been handled.
LEMMA TruthfulStep ==
    /\ TypeOK /\ RowsKeyed /\ PassedIsHandled /\ BoxInOrder /\ CheckpointNew
    /\ CheckpointTruthful /\ [Next]_vars
    => CheckpointTruthful'
<1> SUFFICES ASSUME TypeOK, RowsKeyed, PassedIsHandled, BoxInOrder, CheckpointNew,
                    CheckpointTruthful, [Next]_vars
             PROVE  CheckpointTruthful'
    OBVIOUS
<1>1. \A m : Handled(m) => Handled(m)'
  BY HandledStays
<1>2. CASE manifest' = manifest
  BY <1>1, <1>2 DEF CheckpointTruthful
<1>3. CASE SaveDelete
  BY <1>3 DEF SaveDelete, CheckpointTruthful
<1>4. CASE SaveInsert
  <2>1. manifest' = {job.new} /\ job.pc = "save"
    BY <1>4 DEF SaveInsert, Running
  <2>2. CASE job.new.completed
    BY <2>1, <2>2 DEF CheckpointTruthful
  <2>3. ASSUME ~job.new.completed, NEW n \in Msg, n <= job.new.last_offset + 1
        PROVE  Handled(n)
    <3>1. /\ job.next \in Nat \ {0} /\ job.box \in Seq(Msg) /\ Len(job.box) \in Nat
          /\ DOMAIN job.box = 1..Len(job.box)
      BY JobFields DEF TypeOK
    <3>2. ~job.local /\ job.batch = <<>> /\ job.new.last_offset = job.next - 2
      BY <2>1, <2>3 DEF CheckpointNew
    <3>3. HasBox
      BY <2>1 DEF HasBox
    <3>4. job.next <= Len(job.box) + 1 /\ \A i \in DOMAIN job.box : job.box[i] = i
      BY <3>2, <3>3 DEF BoxInOrder
    <3>5. n \in Nat /\ n >= 1
      BY ArchiveAssumption DEF Msg
    <3>6. n < job.next /\ n <= Len(job.box)
      <4>1. n <= job.next - 2 + 1
        BY <2>3, <3>2
      <4> HIDE DEF Msg
      <4>2. job.next <= Len(job.box) + 1
        BY <3>4
      <4> QED BY <3>1, <3>5, <4>1, <4>2
    <3>7. n \in DOMAIN job.box /\ job.box[n] = n
      BY <3>1, <3>4, <3>5, <3>6
    <3>8. ~InBatch(n)
      BY <3>2 DEF InBatch
    <3> QED BY <3>3, <3>6, <3>7, <3>8 DEF PassedIsHandled
  <2> QED BY <1>1, <2>1, <2>2, <2>3 DEF CheckpointTruthful
<1> QED BY <1>2, <1>3, <1>4, Writers

-----------------------------------------------------------------------------
(* The four properties *)

\* An empty index is in order.
LEMMA CalmInit == Init => CalmInv
<1> SUFFICES ASSUME Init PROVE CalmInv
    OBVIOUS
<1>1. job.pc = "idle" /\ job.start = 0 /\ emails = {} /\ manifest = {} /\ fts = {}
  BY DEF Init, IdleJob
<1> QED BY <1>1
        DEF CalmInv, QuietRest, Settled, FtsPending, TotalCounted, NeverResumes,
            BoxInOrder, CheckpointNew, CheckpointTruthful, Running, HasBox

\* Every calm step keeps the order.
LEMMA CalmStep == Calm /\ IngestionInv /\ CalmInv /\ [Next]_vars => CalmInv'
BY QuietRestStep, FtsPendingStep, TotalCountedStep, NeverResumesStep, BoxInOrderStep,
   CheckpointNewStep, TruthfulStep
DEF CalmInv, IngestionInv

\* In a calm system the order is always kept.
LEMMA CalmAlways == ASSUME Calm PROVE Spec => []CalmInv
<1>1. IngestionInv /\ CalmInv /\ [Next]_vars => CalmInv'
  BY CalmStep
<1> QED BY CalmInit, InvInit, InvStep, <1>1, PTL DEF Spec

\* A checkpoint of an unfinished run tells the truth while no process dies: a run
\* that resumed from it would miss nothing.
THEOREM CheckpointTruthfulAlways == ASSUME Calm PROVE Spec => []CheckpointTruthful
<1>1. CalmInv => CheckpointTruthful
  BY DEF CalmInv
<1> QED BY CalmAlways, <1>1, PTL

\* While no process dies and no index build fails, whatever the index holds is
\* found by full-text search between runs.
THEOREM SearchableAlways == ASSUME Calm PROVE Spec => []SearchableWhenCompleted
<1>1. CalmInv => SearchableWhenCompleted
  BY DEF CalmInv, QuietRest, SearchableWhenCompleted, Running
<1> QED BY CalmAlways, <1>1, PTL

\* While no process dies, no quiet moment finds the manifest of a finished run
\* missing.
THEOREM FinishedRunOnRecordAlways == ASSUME Calm PROVE Spec => []FinishedRunOnRecord
<1>1. CalmInv => FinishedRunOnRecord
  BY DEF CalmInv, QuietRest, FinishedRunOnRecord, Running
<1> QED BY CalmAlways, <1>1, PTL

\* While no process dies, the manifest found between runs counts the rows there
\* are, refused and replaced ones left out.
THEOREM CompletedTotalAlways == ASSUME Calm PROVE Spec => []CompletedTotal
<1>1. CalmInv => CompletedTotal
  BY DEF CalmInv, QuietRest, Settled, CompletedTotal, Running
<1> QED BY CalmAlways, <1>1, PTL
=============================================================================
