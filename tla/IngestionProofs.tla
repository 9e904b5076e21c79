---------------------------- MODULE IngestionProofs ----------------------------
(* CompletedCovers for any archive, any batch size and any number of faults. *)
EXTENDS Ingestion, TLAPS, FiniteSetTheorems, SequenceTheorems

-----------------------------------------------------------------------------
(* Keys and mails *)

\* A key belongs to one mail: rows that replace each other are copies of it.
LEMMA KeyOfOneMail ==
    ASSUME NEW m \in Msg, NEW n \in Msg, NEW t, NEW u, KeyOf(m, t) = KeyOf(n, u)
    PROVE  SameMail(m, n)
<1>1. KindOf[m] \in Kinds /\ KindOf[n] \in Kinds
  BY ArchiveAssumption
<1>2. CASE KindOf[m] = "identified"
  <2>1. KeyOf(m, t).form = "header"
    BY <1>2 DEF KeyOf
  <2>2. KindOf[n] = "identified"
    BY <2>1, <1>1 DEF KeyOf, Kinds
  <2>3. KeyOf(m, t).of = IdOf[m] /\ KeyOf(n, u).of = IdOf[n]
    BY <1>2, <2>2 DEF KeyOf
  <2> QED BY <1>2, <2>2, <2>3 DEF SameMail
<1>3. CASE KindOf[m] # "identified"
  <2>1. KeyOf(m, t).form # "header" /\ KeyOf(m, t).of = m
    BY <1>3, <1>1 DEF KeyOf, Kinds
  <2>2. KindOf[n] # "identified"
    BY <2>1, <1>1 DEF KeyOf, Kinds
  <2>3. KeyOf(n, u).of = n
    BY <2>2, <1>1 DEF KeyOf, Kinds
  <2> QED BY <2>1, <2>3 DEF SameMail
<1> QED BY <1>2, <1>3

\* Being the same e-mail is an equivalence.
LEMMA SameMailTransitive ==
    ASSUME NEW k, NEW m, NEW n, SameMail(k, m), SameMail(m, n)
    PROVE  SameMail(k, n) /\ SameMail(m, k)
BY DEF SameMail

\* A key has the type of the primary key.
LEMMA KeyOfType == ASSUME NEW m \in Msg, NEW t \in Nat PROVE KeyOf(m, t) \in Key
<1>1. KindOf[m] \in Kinds /\ IdOf[m] \in Nat /\ m \in Nat
  BY ArchiveAssumption DEF Msg
<1> QED BY <1>1 DEF KeyOf, Key, Kinds

\* A parsed record is a row that carries its own key.
LEMMA ParsedRow ==
    ASSUME NEW m \in Msg, NEW o \in Nat, NEW t \in Nat
    PROVE  /\ ParseMessage(m, o, t) \in Row
           /\ ParseMessage(m, o, t).msg = m
           /\ Keyed(ParseMessage(m, o, t))
<1>1. ParseMessage(m, o, t) \in Row
  BY KeyOfType DEF ParseMessage, Row
<1>2. KindOf[m] \in Kinds
  BY ArchiveAssumption
<1>3. KeyOf(m, KeyOf(m, t).tag) = KeyOf(m, t)
  BY <1>2 DEF KeyOf, Kinds
<1> QED BY <1>1, <1>3 DEF ParseMessage, Keyed

\* INSERT OR REPLACE adds the mail of the new row and loses no other.
LEMMA InsertKeepsMail ==
    ASSUME NEW table \in SUBSET Row, NEW row \in Row, Keyed(row),
           \A r \in table : Keyed(r),
           NEW m
    PROVE  /\ Represented(InsertOrReplace(table, row), row.msg)
           /\ Represented(table, m) => Represented(InsertOrReplace(table, row), m)
<1>1. Represented(InsertOrReplace(table, row), row.msg)
  BY DEF Represented, InsertOrReplace, SameMail
<1>2. ASSUME Represented(table, m)
      PROVE  Represented(InsertOrReplace(table, row), m)
  <2>1. PICK r \in table : SameMail(r.msg, m)
    BY <1>2 DEF Represented
  <2>2. CASE r.key # row.key
    BY <2>1, <2>2 DEF Represented, InsertOrReplace
  <2>3. CASE r.key = row.key
    <3>1. r.msg \in Msg /\ row.msg \in Msg
      BY DEF Row
    <3>2. SameMail(row.msg, r.msg)
      BY <2>3, <3>1, KeyOfOneMail DEF Keyed
    <3>3. SameMail(row.msg, m)
      BY <3>2, <2>1, SameMailTransitive
    <3> QED BY <3>3 DEF Represented, InsertOrReplace
  <2> QED BY <2>2, <2>3
<1> QED BY <1>1, <1>2

-----------------------------------------------------------------------------
(* Types *)

\* The table stays finite, so that COUNT( * ) is a number.
FiniteTable == IsFiniteSet(emails)

\* The object read from S3 is a sequence of messages.
LEMMA S3BoxType == ASSUME NEW n \in 0..MsgCount PROVE S3Box(n) \in Seq(Msg) /\ Len(S3Box(n)) = n
<1>1. MsgCount \in Nat /\ n \in Nat
  BY ArchiveAssumption
<1>2. \A i \in 1..n : i \in Msg
  BY <1>1 DEF Msg
<1> QED BY <1>1, <1>2, IsASeq DEF S3Box

\* start_offset and the total carried over are natural numbers.
LEMMA OldValues ==
    ASSUME job \in Job, NEW e
    PROVE  StartOffset(e) \in Nat /\ OldTotal \in Nat
<1>1. job.old \subseteq Manifest
  BY DEF Job
<1>2. ASSUME job.old # {} PROVE (CHOOSE m \in job.old : TRUE) \in Manifest
  BY <1>1, <1>2
<1> QED BY <1>2 DEF StartOffset, OldTotal, Manifest

\* No run and no manifest are values of their types.
LEMMA IdleJobType == IdleJob \in Job /\ BlankManifest \in Manifest
<1>1. 0 \in Etags
  BY ArchiveAssumption DEF Etags
<1>2. BlankManifest \in Manifest
  BY <1>1 DEF BlankManifest, Manifest
<1> QED BY <1>2 DEF IdleJob, Job, PCs

\* The fields of a job have the types of their components.
LEMMA JobFields ==
    ASSUME job \in Job
    PROVE  /\ job.old \subseteq Manifest /\ job.new \in Manifest
           /\ job.start \in Nat /\ job.processed \in Nat /\ job.errors \in Nat
           /\ job.tag \in Nat /\ job.next \in Nat \ {0}
           /\ job.box \in Seq(Msg) /\ job.batch \in Seq(Row)
           /\ job.pc \in PCs /\ job.local \in BOOLEAN /\ job.force \in BOOLEAN
           /\ job.final \in BOOLEAN
BY DEF Job

\* The record of this turn of the loop: a keyed row of the message at hand,
\* which the filter on start_offset lets through.
LEMMA ParsedNext ==
    ASSUME job \in Job, ParseNext
    PROVE  /\ NextRecord \in Row
           /\ Keyed(NextRecord)
           /\ NextRecord.msg = job.box[job.next]
           /\ Wanted(NextRecord)
<1>1. /\ job.next \in Nat \ {0} /\ job.start \in Nat /\ job.tag \in Nat
      /\ job.box \in Seq(Msg)
  BY JobFields
<1>2. job.next <= Len(job.box)
  BY DEF ParseNext
<1>3. job.box[job.next] \in Msg /\ job.start + job.next - 1 \in Nat
  BY <1>1, <1>2, ElementOfSeq
<1>4. NextRecord.raw_offset >= job.start
  BY <1>1 DEF NextRecord, ParseMessage
<1> QED BY <1>1, <1>3, <1>4, ParsedRow DEF NextRecord, Wanted

\* Initially every variable has its type.
LEMMA TypeInit == Init => TypeOK /\ FiniteTable
<1> SUFFICES ASSUME Init PROVE TypeOK /\ FiniteTable
    OBVIOUS
<1>1. FiniteTable
  BY FS_EmptySet DEF Init, FiniteTable
<1>2. job \in Job
  BY IdleJobType DEF Init
<1>3. /\ archive \in 0..MsgCount
      /\ emails = {} /\ manifest = {} /\ fts = {} /\ rejected = {}
      /\ report = "none" /\ faults = 0
  BY DEF Init
<1> QED BY <1>1, <1>2, <1>3, IngestionAssumption DEF TypeOK, Reports

\* The locals of the pipeline keep their types under every action.
LEMMA JobType == TypeOK /\ FiniteTable /\ LoopBounds /\ [Next]_vars => job' \in Job
<1> SUFFICES ASSUME TypeOK, FiniteTable, LoopBounds, [Next]_vars PROVE job' \in Job
    OBVIOUS
<1> USE ArchiveAssumption, IngestionAssumption, IdleJobType
<1>0. /\ job \in Job /\ manifest \subseteq Manifest /\ archive \in 0..MsgCount
      /\ archive \in Etags /\ LocalEtag \in Etags
  BY DEF TypeOK, Etags
<1>1. CASE ArchiveGrows
  BY <1>0, <1>1 DEF ArchiveGrows
<1>2. ASSUME NEW force \in Forces, StartApi(force) PROVE job' \in Job
  BY <1>0, <1>2 DEF StartApi, Job, PCs
<1>3. ASSUME NEW force \in Forces, StartCli(force) PROVE job' \in Job
  BY <1>0, <1>3 DEF StartCli, Job, PCs
<1>4. ASSUME NEW force \in Forces, StartLocal(force) PROVE job' \in Job
  <2>1. CASE job' = IdleJob
    BY <2>1
  <2>2. ASSUME NEW t \in FreshTags,
               job' = [IdleJob EXCEPT
                           !.pc = "parse", !.local = TRUE, !.force = force,
                           !.old = manifest, !.box = LocalBox, !.tag = t,
                           !.new = [BlankManifest EXCEPT !.etag = LocalEtag]]
        PROVE  job' \in Job
    <3>1. [BlankManifest EXCEPT !.etag = LocalEtag] \in Manifest
      BY <1>0 DEF Manifest
    <3>2. t \in Nat
      BY DEF FreshTags
    <3> QED BY <1>0, <2>2, <3>1, <3>2 DEF Job, PCs
  <2> QED BY <1>4, <2>1, <2>2 DEF StartLocal, Finish
<1>5. CASE Check \/ CheckFails
  <2>1. CASE job' = IdleJob
    BY <2>1
  <2>2. CASE job' = [job EXCEPT !.pc = "head", !.old = manifest]
    BY <1>0, <2>2 DEF Job, PCs
  <2> QED BY <1>5, <2>1, <2>2 DEF Check, CheckFails, CheckOutcome, Finish
<1>6. CASE HeadObject
  <2>1. CASE job' = IdleJob
    BY <2>1
  <2>2. CASE job' = [job EXCEPT
                         !.pc = "get",
                         !.start = StartOffset(archive),
                         !.new = [etag |-> archive,
                                  last_offset |-> StartOffset(archive),
                                  total |-> OldTotal,
                                  errors |-> 0,
                                  completed |-> FALSE]]
    <3>1. StartOffset(archive) \in Nat /\ OldTotal \in Nat
      BY <1>0, OldValues
    <3> QED BY <1>0, <2>2, <3>1 DEF Job, PCs, Manifest
  <2> QED BY <1>6, <2>1, <2>2 DEF HeadObject, Finish
<1>7. CASE \/ HeadFails \/ GetFails \/ ParseAborts \/ StatementRaises \/ StartRaises
           \/ Crash \/ CreateFts \/ FtsFails
  BY <1>7 DEF HeadFails, GetFails, ParseAborts, StatementRaises, StartRaises, Crash, CreateFts, FtsFails, Done, Finish
<1>8. CASE GetObject
  <2>1. PICK t \in FreshTags, n \in 0..archive :
            job' = [job EXCEPT !.pc = "parse", !.box = S3Box(n), !.tag = t]
    BY <1>8 DEF GetObject
  <2>2. S3Box(n) \in Seq(Msg)
    BY <1>0, S3BoxType
  <2>3. t \in Nat
    BY DEF FreshTags
  <2> QED BY <1>0, <2>1, <2>2, <2>3 DEF Job, PCs
<1>9. CASE ParseNext
  <2>1. NextRecord \in Row
    BY <1>0, <1>9, ParsedNext
  <2> DEFINE batch == IF Wanted(NextRecord) THEN Append(job.batch, NextRecord) ELSE job.batch
             errors == IF Wanted(NextRecord) /\ NextRecord.parse_error THEN job.errors + 1
                       ELSE job.errors
             pc == IF Len(batch) >= BatchSize THEN "insert" ELSE "parse"
  <2>2. batch \in Seq(Row)
    BY <1>0, <2>1, JobFields
  <2>3. errors \in Nat /\ job.next + 1 \in Nat \ {0} /\ pc \in PCs
    <3>1. job.errors \in Nat /\ job.next \in Nat
      BY <1>0, JobFields
    <3> QED BY <3>1 DEF PCs
  <2>4. job' = [job EXCEPT !.pc = pc, !.next = @ + 1, !.batch = batch, !.errors = errors]
    BY <1>9 DEF ParseNext
  <2> HIDE DEF batch, errors, pc
  <2> QED BY <1>0, <2>2, <2>3, <2>4 DEF Job
<1>10. CASE ParseEnd
  BY <1>0, <1>10 DEF ParseEnd, Job, PCs
<1>11. CASE InsertRow \/ RejectRow
  <2>1. Tail(job.batch) \in Seq(Row) /\ job.processed + 1 \in Nat
    <3>1. job.batch \in Seq(Row) /\ job.processed \in Nat
      BY <1>0, JobFields
    <3>2. job.batch # <<>>
      BY <1>11 DEF InsertRow, RejectRow
    <3> QED BY <3>1, <3>2, HeadTailProperties
  <2>2. CASE InsertRow
    BY <1>0, <2>1, <2>2 DEF InsertRow, Job
  <2>3. CASE RejectRow
    BY <1>0, <2>1, <2>3 DEF RejectRow, Job
  <2> QED BY <1>11, <2>2, <2>3
<1>12. CASE BatchDone
  <2>1. CASE ~job.final /\ job' = [job EXCEPT !.pc = "delete", !.new = Checkpoint]
    <3>1. job.next > 1
      BY <1>12, <2>1 DEF BatchDone, LoopBounds
    <3>2. job.start + job.next - 2 \in Nat
      <4>1. job.start \in Nat /\ job.next \in Nat
        BY <1>0, JobFields
      <4> QED BY <3>1, <4>1
    <3>3. OldTotal + job.processed \in Nat /\ job.errors \in Nat /\ job.new \in Manifest
      <4>1. OldTotal \in Nat
        BY <1>0, OldValues
      <4>2. job.processed \in Nat /\ job.errors \in Nat /\ job.new \in Manifest
        BY <1>0, JobFields
      <4> QED BY <4>1, <4>2
    <3>4. Checkpoint \in Manifest
      BY <3>2, <3>3 DEF Checkpoint, Manifest
    <3> QED BY <1>0, <2>1, <3>4 DEF Job, PCs
  <2>2. CASE job' = [job EXCEPT !.pc = "count"]
    BY <1>0, <2>2 DEF Job, PCs
  <2>3. CASE job' = [job EXCEPT !.pc = "parse"]
    BY <1>0, <2>3 DEF Job, PCs
  <2> QED BY <1>12, <2>1, <2>2, <2>3 DEF BatchDone
<1>13. CASE Count
  <2>1. Cardinality(emails) \in Nat
    BY FS_CardinalityType DEF FiniteTable
  <2>2. job.start + job.processed + job.errors \in Nat
    <3>1. job.start \in Nat /\ job.processed \in Nat /\ job.errors \in Nat
      BY <1>0, JobFields
    <3> QED BY <3>1
  <2> QED BY <1>0, <1>13, <2>1, <2>2 DEF Count, Job, PCs, Manifest
<1>14. CASE SaveDelete
  BY <1>0, <1>14 DEF SaveDelete, Job, PCs
<1>15. CASE SaveInsert
  BY <1>0, <1>15 DEF SaveInsert, Job, PCs
<1>16. CASE UNCHANGED vars
  BY <1>0, <1>16 DEF vars
<1> QED BY <1>1, <1>2, <1>3, <1>4, <1>5, <1>6, <1>7, <1>8, <1>9, <1>10, <1>11,
           <1>12, <1>13, <1>14, <1>15, <1>16
        DEF Next, Start, JobStep, Failure
\* Who writes what: the table, the refusals and the manifest have one writer
\* action each (two for the manifest).
LEMMA Writers ==
    [Next]_vars => /\ emails' = emails \/ InsertRow
                   /\ rejected' = rejected \/ RejectRow
                   /\ manifest' = manifest \/ SaveDelete \/ SaveInsert
                   /\ archive' = archive \/ ArchiveGrows
                   /\ fts' = fts \/ CreateFts \/ FtsFails
BY DEF Next, Start, JobStep, Failure, vars, store, ArchiveGrows, StartApi, StartCli,
       StartLocal, Check, CheckFails, HeadObject, HeadFails, GetObject, GetFails,
       ParseNext, ParseAborts, ParseEnd, InsertRow, RejectRow, BatchDone, Count,
       SaveDelete, SaveInsert, CreateFts, FtsFails, StatementRaises, StartRaises, Crash

\* The caller's report and the fault counter.
LEMMA ReportAndFaults ==
    TypeOK /\ [Next]_vars => report' \in Reports /\ faults' \in 0..MaxFaults
<1> SUFFICES ASSUME report \in Reports, faults \in 0..MaxFaults, [Next]_vars
             PROVE  report' \in Reports /\ faults' \in 0..MaxFaults
    BY DEF TypeOK
<1>1. faults' = faults \/ (faults < MaxFaults /\ faults' = faults + 1)
  BY DEF Next, Start, JobStep, Failure, vars, store, ArchiveGrows, StartApi, StartCli,
         StartLocal, Check, CheckFails, HeadObject, HeadFails, GetObject, GetFails,
         ParseNext, ParseAborts, ParseEnd, InsertRow, RejectRow, BatchDone, Count,
         SaveDelete, SaveInsert, CreateFts, FtsFails, StatementRaises, StartRaises, Crash,
         Fault
<1>2. report' = report \/ report' \in Reports
  BY DEF Next, Start, JobStep, Failure, vars, store, ArchiveGrows, StartApi, StartCli,
         StartLocal, Check, CheckFails, CheckOutcome, HeadObject, HeadFails, GetObject,
         GetFails, ParseNext, ParseAborts, ParseEnd, InsertRow, RejectRow, BatchDone,
         Count, SaveDelete, SaveInsert, CreateFts, FtsFails, StatementRaises, StartRaises,
         Crash, Finish, Done, Reports
<1>3. faults' \in 0..MaxFaults
  BY <1>1, IngestionAssumption
<1> QED BY <1>2, <1>3

\* Every step keeps the types and the finite table.
LEMMA TypeStep ==
    TypeOK /\ FiniteTable /\ LoopBounds /\ [Next]_vars => TypeOK' /\ FiniteTable'
<1> SUFFICES ASSUME TypeOK, FiniteTable, LoopBounds, [Next]_vars
             PROVE  TypeOK' /\ FiniteTable'
    OBVIOUS
<1>1. job' \in Job /\ job \in Job
  BY JobType DEF TypeOK
<1>2. report' \in Reports /\ faults' \in 0..MaxFaults
  BY ReportAndFaults
<1>3. ASSUME InsertRow \/ RejectRow PROVE Head(job.batch) \in Row
  <2>1. job.batch \in Seq(Row)
    BY <1>1, JobFields
  <2> QED BY <1>3, <2>1, HeadTailProperties DEF InsertRow, RejectRow
<1>4. archive' \in 0..MsgCount
  BY Writers, ArchiveAssumption DEF TypeOK, ArchiveGrows
<1>5. emails' \subseteq Row
  BY Writers, <1>3 DEF TypeOK, InsertRow, InsertOrReplace
<1>6. rejected' \subseteq Msg
  BY Writers, <1>3 DEF TypeOK, RejectRow, Row
<1>7. manifest' \subseteq Manifest
  <2>1. job.new \in Manifest
    BY <1>1, JobFields
  <2> QED BY <2>1, Writers DEF TypeOK, SaveDelete, SaveInsert
<1>8. fts' \in SUBSET SUBSET Key
  <2>1. {r.key : r \in emails} \in SUBSET Key
    BY DEF TypeOK, Row
  <2> QED BY <2>1, Writers DEF TypeOK, CreateFts, FtsFails
<1>9. FiniteTable'
  <2>1. CASE emails' = emails
    BY <2>1 DEF FiniteTable
  <2>2. CASE InsertRow
    <3>1. IsFiniteSet({r \in emails : r.key # Head(job.batch).key})
      BY FS_Subset DEF FiniteTable
    <3>2. IsFiniteSet({r \in emails : r.key # Head(job.batch).key} \cup {Head(job.batch)})
      BY <3>1, FS_AddElement
    <3> QED BY <3>2, <2>2 DEF InsertRow, InsertOrReplace, FiniteTable
  <2> QED BY <2>1, <2>2, Writers
<1> QED BY <1>1, <1>2, <1>4, <1>5, <1>6, <1>7, <1>8, <1>9 DEF TypeOK

-----------------------------------------------------------------------------
(* What each action does to the locals of the pipeline *)

\* A job that is not running is at the start of its loop.
LEMMA IdleFields ==
    /\ IdleJob.pc = "idle" /\ IdleJob.next = 1 /\ IdleJob.batch = <<>>
    /\ IdleJob.new = BlankManifest /\ ~IdleJob.final
BY DEF IdleJob

\* What the two starts of an S3 run set.
LEMMA StartFields ==
    ASSUME NEW f, StartApi(f) \/ StartCli(f)
    PROVE  /\ job'.pc \in {"head", "check"} /\ job'.next = 1 /\ job'.batch = <<>>
           /\ ~job'.final
<1>1. CASE StartApi(f)
  <2>1. job' = [IdleJob EXCEPT !.pc = "head", !.force = f, !.old = manifest]
    BY <1>1 DEF StartApi
  <2> QED BY <2>1 DEF IdleJob
<1>2. CASE StartCli(f)
  <2>1. job' = [IdleJob EXCEPT !.pc = "check", !.force = f, !.old = manifest]
    BY <1>2 DEF StartCli
  <2> QED BY <2>1 DEF IdleJob
<1> QED BY <1>1, <1>2

\* What run_from_file sets, or that it is over at once.
LEMMA LocalFields ==
    ASSUME NEW f, StartLocal(f)
    PROVE  \/ job' = IdleJob
           \/ /\ job'.pc = "parse" /\ job'.next = 1 /\ job'.batch = <<>>
              /\ job'.box = LocalBox /\ ~job'.final
              /\ job'.new.etag = LocalEtag /\ ~job'.new.completed
<1>1. SUFFICES ASSUME NEW t,
               job' = [IdleJob EXCEPT
                           !.pc = "parse", !.local = TRUE, !.force = f,
                           !.old = manifest, !.box = LocalBox, !.tag = t,
                           !.new = [BlankManifest EXCEPT !.etag = LocalEtag]]
      PROVE  /\ job'.pc = "parse" /\ job'.next = 1 /\ job'.batch = <<>>
             /\ job'.box = LocalBox /\ ~job'.final
             /\ job'.new.etag = LocalEtag /\ ~job'.new.completed
    BY DEF StartLocal, Finish
<1> DEFINE blank == [BlankManifest EXCEPT !.etag = LocalEtag]
<1>2. blank.etag = LocalEtag /\ ~blank.completed
  BY DEF BlankManifest
<1> HIDE DEF blank
<1>3. job'.pc = "parse" /\ job'.next = 1 /\ job'.batch = <<>>
      /\ job'.box = LocalBox /\ ~job'.final /\ job'.new = blank
  BY <1>1 DEF IdleJob, blank
<1> QED BY <1>2, <1>3

\* should_ingest changes nothing but where the job stands.
LEMMA CheckFields ==
    ASSUME job \in Job, Check \/ CheckFails
    PROVE  \/ job' = IdleJob
           \/ /\ job'.pc = "head" /\ job'.next = job.next /\ job'.batch = job.batch
              /\ job'.final = job.final
<1>1. job' = IdleJob \/ job' = [job EXCEPT !.pc = "head", !.old = manifest]
  BY DEF Check, CheckFails, CheckOutcome, Finish
<1> QED BY <1>1 DEF Job

\* What head_object sets.
LEMMA HeadFields ==
    ASSUME job \in Job, HeadObject
    PROVE  \/ job' = IdleJob
           \/ /\ job'.pc = "get" /\ job'.next = job.next /\ job'.batch = job.batch
              /\ job'.new.etag = archive /\ ~job'.new.completed
              /\ job'.final = job.final
<1> DEFINE new == [etag |-> archive, last_offset |-> StartOffset(archive),
                   total |-> OldTotal, errors |-> 0, completed |-> FALSE]
<1>1. \/ job' = IdleJob
      \/ job' = [job EXCEPT !.pc = "get", !.start = StartOffset(archive), !.new = new]
  BY DEF HeadObject, Finish
<1>2. new.etag = archive /\ ~new.completed
  OBVIOUS
<1> HIDE DEF new
<1> QED BY <1>1, <1>2 DEF Job

\* What get_object sets.
LEMMA GetFields ==
    ASSUME job \in Job, GetObject
    PROVE  /\ job'.pc = "parse" /\ job'.next = job.next /\ job'.batch = job.batch
           /\ job'.new = job.new /\ job'.final = job.final
           /\ \E n \in 0..archive : job.new.etag <= n /\ job'.box = S3Box(n)
<1>1. PICK t \in FreshTags, n \in 0..archive :
          /\ job.new.etag <= n
          /\ job' = [job EXCEPT !.pc = "parse", !.box = S3Box(n), !.tag = t]
  BY DEF GetObject
<1> QED BY <1>1 DEF Job

\* What one turn of the parsing loop sets: every record is wanted.
LEMMA ParseFields ==
    ASSUME job \in Job, ParseNext
    PROVE  /\ job'.pc \in {"parse", "insert"} /\ job'.next = job.next + 1
           /\ job'.batch = Append(job.batch, NextRecord)
           /\ job'.box = job.box /\ job'.new = job.new /\ job'.final = job.final
<1>1. Wanted(NextRecord)
  BY ParsedNext
<1> DEFINE pc == IF Len(Append(job.batch, NextRecord)) >= BatchSize
                 THEN "insert" ELSE "parse"
           errors == IF NextRecord.parse_error THEN job.errors + 1 ELSE job.errors
<1>2. job' = [job EXCEPT !.pc = pc, !.next = @ + 1,
                         !.batch = Append(job.batch, NextRecord), !.errors = errors]
  BY <1>1 DEF ParseNext
<1>3. pc \in {"parse", "insert"}
  OBVIOUS
<1> HIDE DEF pc, errors
<1> QED BY <1>2, <1>3 DEF Job

\* Where the end of the loop leads.
LEMMA EndFields ==
    ASSUME job \in Job, ParseEnd
    PROVE  /\ \/ job'.pc = "count" /\ job.batch = <<>>
              \/ job'.pc = "insert" /\ job.batch # <<>>
           /\ job'.next = job.next /\ job'.batch = job.batch
           /\ job'.box = job.box /\ job'.new = job.new /\ job'.final
BY DEF ParseEnd, Job

\* Inserting or refusing a row takes it from the batch.
LEMMA InsertFields ==
    ASSUME job \in Job, InsertRow \/ RejectRow
    PROVE  /\ job'.pc = job.pc /\ job'.next = job.next /\ job'.batch = Tail(job.batch)
           /\ job'.box = job.box /\ job'.new = job.new /\ job'.final = job.final
<1>1. CASE InsertRow
  BY <1>1 DEF InsertRow, Job
<1>2. CASE RejectRow
  BY <1>2 DEF RejectRow, Job
<1> QED BY <1>1, <1>2

\* Where an inserted batch leads.
LEMMA DoneFields ==
    ASSUME job \in Job, BatchDone
    PROVE  /\ job'.next = job.next /\ job'.batch = job.batch /\ job'.box = job.box
           /\ job'.new.etag = job.new.etag
           /\ job'.new.completed = job.new.completed
           /\ job'.final = job.final
           /\ \/ job'.pc = "count" /\ job.final
              \/ job'.pc \in {"parse", "delete"} /\ ~job.final
<1>1. Checkpoint.etag = job.new.etag /\ Checkpoint.completed = job.new.completed
  BY JobFields DEF Checkpoint, Manifest
<1>2. CASE ~job.final /\ job' = [job EXCEPT !.pc = "delete", !.new = Checkpoint]
  BY <1>1, <1>2 DEF Job
<1>3. CASE job.final /\ job' = [job EXCEPT !.pc = "count"]
  BY <1>3 DEF Job
<1>4. CASE ~job.final /\ job' = [job EXCEPT !.pc = "parse"]
  BY <1>4 DEF Job
<1> QED BY <1>2, <1>3, <1>4 DEF BatchDone

\* The manifest of a finished run is marked completed.
LEMMA CountFields ==
    ASSUME job \in Job, Count
    PROVE  /\ job'.pc = "delete" /\ job'.next = job.next /\ job'.batch = job.batch
           /\ job'.box = job.box /\ job'.new.etag = job.new.etag
           /\ job'.new.completed
<1>1. PICK offset, total, errors :
        job' = [job EXCEPT !.pc = "delete", !.new.last_offset = offset,
                           !.new.total = total, !.new.errors = errors,
                           !.new.completed = TRUE]
  BY DEF Count
<1> QED BY <1>1, JobFields DEF Job, Manifest

\* What the DELETE and the INSERT of save_manifest set.
LEMMA SaveFields ==
    ASSUME job \in Job, SaveDelete \/ SaveInsert
    PROVE  /\ job'.next = job.next /\ job'.batch = job.batch
           /\ job'.box = job.box /\ job'.new = job.new /\ job'.final = job.final
           /\ SaveDelete => job'.pc = "save"
           /\ SaveInsert => job'.pc = (IF job.new.completed THEN "fts" ELSE "parse")
<1>1. CASE SaveDelete
  BY <1>1 DEF SaveDelete, SaveInsert, Job, Running
<1>2. CASE SaveInsert
  BY <1>2 DEF SaveDelete, SaveInsert, Job, Running
<1> QED BY <1>1, <1>2

\* The actions that drop the job, or leave it alone.
Ends ==
    \/ HeadFails \/ GetFails \/ ParseAborts \/ StatementRaises \/ StartRaises \/ Crash
    \/ CreateFts \/ FtsFails
Idles == ArchiveGrows \/ UNCHANGED vars

\* A run that ends leaves no job; other steps leave it alone.
LEMMA EndsFields == (Ends => job' = IdleJob) /\ (Idles => job' = job)
BY DEF Ends, Idles, HeadFails, GetFails, ParseAborts, StatementRaises, StartRaises,
       Crash, CreateFts, FtsFails, Done, Finish, ArchiveGrows, vars

\* The cases of every proof about a step.
LEMMA Cases ==
    [Next]_vars =>
        \/ Idles \/ Ends \/ HeadObject \/ GetObject \/ ParseNext \/ ParseEnd
        \/ BatchDone \/ Count
        \/ Check \/ CheckFails
        \/ InsertRow \/ RejectRow
        \/ SaveDelete \/ SaveInsert
        \/ \E f \in Forces : StartApi(f) \/ StartCli(f)
        \/ \E f \in Forces : StartLocal(f)
BY DEF Next, Start, JobStep, Failure, Idles, Ends

-----------------------------------------------------------------------------
(* The inductive invariant *)

\* A handled message stays handled.
LEMMA HandledStays ==
    ASSUME TypeOK, RowsKeyed, [Next]_vars, NEW m, Handled(m)
    PROVE  Handled(m)'
<1>1. rejected \subseteq rejected'
  BY Writers DEF RejectRow
<1>2. CASE emails' = emails
  BY <1>1, <1>2 DEF Handled
<1>3. CASE InsertRow
  <2>1. job.batch \in Seq(Row) /\ job.batch # <<>>
    BY <1>3, JobFields DEF TypeOK, InsertRow
  <2>2. Head(job.batch) \in Row /\ Keyed(Head(job.batch))
    BY <2>1, HeadTailProperties DEF RowsKeyed
  <2>3. Represented(emails, m) => Represented(emails', m)
    BY <1>3, <2>2, InsertKeepsMail DEF TypeOK, RowsKeyed, InsertRow
  <2> QED BY <1>1, <2>3 DEF Handled
<1> QED BY <1>2, <1>3, Writers
\* Every row of the table and of the batch carries the key of its message.
LEMMA RowsKeyedStep == TypeOK /\ RowsKeyed /\ [Next]_vars => RowsKeyed'
<1> SUFFICES ASSUME TypeOK, RowsKeyed, [Next]_vars PROVE RowsKeyed'
    OBVIOUS
<1>1. job \in Job /\ job.batch \in Seq(Row)
  BY JobFields DEF TypeOK
<1>2. ASSUME job.batch # <<>>
      PROVE  /\ Keyed(Head(job.batch))
             /\ \A i \in DOMAIN Tail(job.batch) : Keyed(Tail(job.batch)[i])
  BY <1>1, <1>2 DEF RowsKeyed
<1>3. \A r \in emails' : Keyed(r)
  BY Writers, <1>2 DEF RowsKeyed, InsertRow, InsertOrReplace
<1>4. CASE job'.batch = job.batch
  BY <1>3, <1>4 DEF RowsKeyed, Keyed
<1>5. CASE job'.batch = <<>>
  BY <1>3, <1>5 DEF RowsKeyed, Keyed
<1>6. CASE job.batch # <<>> /\ job'.batch = Tail(job.batch)
  BY <1>2, <1>3, <1>6 DEF RowsKeyed, Keyed
<1>7. CASE job'.batch = Append(job.batch, NextRecord) /\ Keyed(NextRecord)
  BY <1>1, <1>3, <1>7 DEF RowsKeyed, Keyed
<1>8. \/ job'.batch = job.batch
      \/ job'.batch = <<>>
      \/ job.batch # <<>> /\ job'.batch = Tail(job.batch)
      \/ ParseNext /\ job'.batch = Append(job.batch, NextRecord)
  <2>1. ASSUME InsertRow \/ RejectRow PROVE job.batch # <<>>
    BY <2>1 DEF InsertRow, RejectRow
  <2> QED BY <1>1, <2>1, Cases, IdleFields, StartFields, LocalFields, CheckFields,
             HeadFields, GetFields, ParseFields, EndFields, InsertFields, DoneFields,
             CountFields, SaveFields, EndsFields
<1>9. ASSUME ParseNext PROVE Keyed(NextRecord)
  BY <1>1, <1>9, ParsedNext
<1> QED BY <1>4, <1>5, <1>6, <1>7, <1>8, <1>9
\* The positions of the loop stay in step with the statement about to run.
LEMMA LoopBoundsStep == TypeOK /\ LoopBounds /\ [Next]_vars => LoopBounds'
<1> SUFFICES ASSUME TypeOK, LoopBounds, [Next]_vars PROVE LoopBounds'
    OBVIOUS
<1> USE DEF LoopBounds, Running
<1>1. job \in Job /\ job.next \in Nat \ {0}
  BY JobFields DEF TypeOK
<1>2. CASE Idles \/ Ends
  BY <1>2, EndsFields, IdleFields
<1>3. CASE \E f \in Forces : StartApi(f) \/ StartCli(f)
  BY <1>3, StartFields
<1>4. CASE \E f \in Forces : StartLocal(f)
  BY <1>4, LocalFields, IdleFields
<1>5. CASE Check \/ CheckFails
  BY <1>1, <1>5, CheckFields, IdleFields DEF Check, CheckFails
<1>6. CASE HeadObject
  <2>1. job.pc = "head"
    BY <1>6 DEF HeadObject
  <2>2. CASE job' = IdleJob
    BY <2>2, IdleFields
  <2>3. CASE job'.pc = "get" /\ job'.next = job.next /\ job'.final = job.final
    BY <2>1, <2>3
  <2> QED BY <1>1, <1>6, <2>2, <2>3, HeadFields
<1>7. CASE GetObject
  BY <1>1, <1>7, GetFields DEF GetObject
<1>8. CASE ParseNext
  <2>1. job'.pc \in {"parse", "insert"} /\ job'.next = job.next + 1
    BY <1>1, <1>8, ParseFields
  <2>2. job'.final = job.final /\ job.pc = "parse"
    BY <1>1, <1>8, ParseFields DEF ParseNext
  <2>3. ~job.final
    BY <2>2
  <2> QED BY <1>1, <2>1, <2>2, <2>3
<1>9. CASE ParseEnd
  <2>1. job.next > Len(job.box)
    BY <1>9 DEF ParseEnd
  <2> QED BY <1>1, <1>9, <2>1, EndFields
<1>10. CASE InsertRow \/ RejectRow
  BY <1>1, <1>10, InsertFields DEF InsertRow, RejectRow
<1>11. CASE BatchDone
  BY <1>1, <1>11, DoneFields DEF BatchDone
<1>12. CASE Count
  BY <1>1, <1>12, CountFields
<1>13. CASE SaveDelete \/ SaveInsert
  BY <1>1, <1>13, SaveFields DEF SaveDelete, SaveInsert
<1> QED BY <1>2, <1>3, <1>4, <1>5, <1>6, <1>7, <1>8, <1>9, <1>10, <1>11, <1>12, <1>13,
           Cases

\* The bytes read include the archive of the recorded ETag: the archive only
\* grows between head_object and get_object.
LEMMA BoxCoversStep == TypeOK /\ BoxCoversEtag /\ [Next]_vars => BoxCoversEtag'
<1> SUFFICES ASSUME TypeOK, BoxCoversEtag, [Next]_vars PROVE BoxCoversEtag'
    OBVIOUS
<1> USE DEF BoxCoversEtag, Running, HasBox
<1>1. job \in Job /\ archive \in 0..MsgCount /\ MsgCount \in Nat
  BY ArchiveAssumption DEF TypeOK
<1>2. CASE Idles \/ Ends
  <2>1. archive' \in Nat /\ archive <= archive'
    BY <1>1, Writers DEF ArchiveGrows
  <2>2. CASE job' = job
    BY <1>1, <2>1, <2>2
  <2>3. CASE job' = IdleJob
    BY <2>3, IdleFields
  <2> QED BY <1>2, <2>2, <2>3, EndsFields
<1>3. CASE \E f \in Forces : StartApi(f) \/ StartCli(f)
  BY <1>3, StartFields
<1>4. CASE \E f \in Forces : StartLocal(f)
  <2>1. CASE job' = IdleJob
    BY <2>1, IdleFields
  <2>2. CASE job'.pc = "parse" /\ job'.box = LocalBox /\ job'.new.etag = LocalEtag
    <3>1. EtagMessages(job'.new.etag) = {job'.box[i] : i \in DOMAIN job'.box}
      BY <2>2 DEF EtagMessages
    <3>2. ~(job'.pc = "get")
      BY <2>2
    <3> QED BY <3>1, <3>2
  <2> QED BY <1>4, <2>1, <2>2, LocalFields
<1>5. CASE Check \/ CheckFails
  BY <1>1, <1>5, CheckFields, IdleFields
<1>6. CASE HeadObject
  <2>1. archive' = archive
    BY <1>6 DEF HeadObject
  <2>2. CASE job' = IdleJob
    BY <2>2, IdleFields
  <2>3. CASE job'.pc = "get" /\ job'.new.etag = archive
    BY <1>1, <2>1, <2>3
  <2> QED BY <1>1, <1>6, <2>2, <2>3, HeadFields
<1>7. CASE GetObject
  <2>1. job.new.etag \in 0..archive /\ job'.pc = "parse" /\ job'.new = job.new
    BY <1>1, <1>7, GetFields DEF GetObject
  <2>2. PICK n \in 0..archive : job.new.etag <= n /\ job'.box = S3Box(n)
    BY <1>1, <1>7, GetFields
  <2>3. EtagMessages(job.new.etag) = 1..job.new.etag
    BY <1>1, <2>1 DEF EtagMessages, LocalEtag
  <2>4. \A m \in 1..job.new.etag : m \in DOMAIN S3Box(n) /\ S3Box(n)[m] = m
    BY <1>1, <2>1, <2>2 DEF S3Box
  <2>5. EtagMessages(job'.new.etag) \subseteq {job'.box[i] : i \in DOMAIN job'.box}
    BY <2>1, <2>2, <2>3, <2>4
  <2> QED BY <2>1, <2>5
<1>8. CASE ParseNext
  BY <1>1, <1>8, ParseFields DEF ParseNext
<1>9. CASE ParseEnd
  BY <1>1, <1>9, EndFields DEF ParseEnd
<1>10. CASE InsertRow \/ RejectRow
  <2>1. job.pc = "insert"
    BY <1>10 DEF InsertRow, RejectRow
  <2>2. job'.pc = job.pc /\ job'.box = job.box /\ job'.new = job.new
    BY <1>1, <1>10, InsertFields
  <2> QED BY <2>1, <2>2
<1>11. CASE BatchDone
  BY <1>1, <1>11, DoneFields DEF BatchDone
<1>12. CASE Count
  BY <1>1, <1>12, CountFields DEF Count
<1>13. CASE SaveDelete \/ SaveInsert
  BY <1>1, <1>13, SaveFields DEF SaveDelete, SaveInsert
<1> QED BY <1>2, <1>3, <1>4, <1>5, <1>6, <1>7, <1>8, <1>9, <1>10, <1>11, <1>12, <1>13,
           Cases

\* A row of a batch is its head or is found in its tail.
LEMMA HeadOrTail ==
    ASSUME NEW s \in Seq(Row), s # <<>>, NEW i \in DOMAIN s
    PROVE  s[i] = Head(s) \/ \E j \in DOMAIN Tail(s) : Tail(s)[j] = s[i]
<1>1. CASE i = 1
  BY <1>1
<1>2. CASE i # 1
  <2>1. i - 1 \in DOMAIN Tail(s) /\ Tail(s)[i - 1] = s[i]
    BY <1>2
  <2> QED BY <2>1
<1> QED BY <1>1, <1>2

\* What the loop has passed stays in the index or in the batch.
LEMMA PassedStep ==
    TypeOK /\ RowsKeyed /\ LoopBounds /\ PassedIsHandled /\ [Next]_vars => PassedIsHandled'
<1> SUFFICES ASSUME TypeOK, RowsKeyed, LoopBounds, PassedIsHandled, [Next]_vars
             PROVE  PassedIsHandled'
    OBVIOUS
<1>1. /\ job \in Job /\ job.next \in Nat \ {0} /\ job.batch \in Seq(Row)
      /\ job.box \in Seq(Msg)
  BY JobFields DEF TypeOK
<1>2. \A m : Handled(m) => Handled(m)'
  BY HandledStays
<1>3. CASE UNCHANGED job
  BY <1>2, <1>3 DEF PassedIsHandled, HasBox, InBatch
<1>4. CASE job'.pc \in {"idle", "check", "head", "get"}
  BY <1>4 DEF PassedIsHandled, HasBox
<1>5. CASE job'.next = 1 /\ DOMAIN job'.box \subseteq Nat \ {0}
  BY <1>5 DEF PassedIsHandled
<1>6. CASE HasBox /\ job'.next = job.next /\ job'.batch = job.batch /\ job'.box = job.box
  BY <1>2, <1>6 DEF PassedIsHandled, InBatch
<1>7. CASE ParseNext
  <2>1. /\ job'.next = job.next + 1 /\ job'.box = job.box /\ HasBox
        /\ job'.batch = Append(job.batch, NextRecord)
        /\ NextRecord.msg = job.box[job.next]
    BY <1>1, <1>7, ParseFields, ParsedNext DEF ParseNext, HasBox, Running
  <2>2. ASSUME NEW m, InBatch(m) PROVE InBatch(m)'
    <3>1. PICK i \in DOMAIN job.batch : job.batch[i].msg = m
      BY <2>2 DEF InBatch
    <3>2. i \in DOMAIN job'.batch /\ job'.batch[i] = job.batch[i]
      BY <1>1, <2>1, <3>1
    <3> QED BY <3>1, <3>2 DEF InBatch
  <2>3. ASSUME NEW m, m = job.box[job.next] PROVE InBatch(m)'
    <3>1. Len(job.batch) + 1 \in DOMAIN job'.batch
      BY <1>1, <2>1
    <3>2. job'.batch[Len(job.batch) + 1] = NextRecord
      BY <1>1, <2>1
    <3> QED BY <2>1, <2>3, <3>1, <3>2 DEF InBatch
  <2>4. ASSUME NEW i \in DOMAIN job.box, i < job'.next, NEW m, m = job.box[i]
        PROVE  Handled(m)' \/ InBatch(m)'
    <3>1. CASE i = job.next
      BY <2>3, <2>4, <3>1
    <3>2. CASE i < job.next
      BY <1>2, <2>1, <2>2, <2>4, <3>2 DEF PassedIsHandled
    <3>3. i = job.next \/ i < job.next
      BY <1>1, <2>1, <2>4
    <3> QED BY <3>1, <3>2, <3>3
  <2> QED BY <2>1, <2>4 DEF PassedIsHandled
<1>8. CASE InsertRow \/ RejectRow
  <2>1. /\ job'.next = job.next /\ job'.box = job.box /\ HasBox
        /\ job'.batch = Tail(job.batch) /\ job.batch # <<>>
    BY <1>1, <1>8, InsertFields DEF InsertRow, RejectRow, HasBox, Running
  <2>2. ASSUME NEW m, m = Head(job.batch).msg PROVE Handled(m)'
    <3>1. Head(job.batch) \in Row /\ Keyed(Head(job.batch))
      BY <1>1, <2>1, HeadTailProperties DEF RowsKeyed
    <3>2. CASE InsertRow
      <4>1. Represented(emails', m)
        BY <2>2, <3>1, <3>2, InsertKeepsMail DEF InsertRow, TypeOK, RowsKeyed
      <4> QED BY <4>1 DEF Handled
    <3>3. CASE RejectRow
      BY <2>2, <3>3 DEF RejectRow, Handled
    <3> QED BY <1>8, <3>2, <3>3
  <2>3. ASSUME NEW m, InBatch(m) PROVE Handled(m)' \/ InBatch(m)'
    <3>1. PICK i \in DOMAIN job.batch : job.batch[i].msg = m
      BY <2>3 DEF InBatch
    <3>2. CASE job.batch[i] = Head(job.batch)
      BY <2>2, <3>1, <3>2
    <3>3. CASE \E j \in DOMAIN Tail(job.batch) : Tail(job.batch)[j] = job.batch[i]
      BY <2>1, <3>1, <3>3 DEF InBatch
    <3> QED BY <1>1, <2>1, <3>2, <3>3, HeadOrTail
  <2> QED BY <1>2, <2>1, <2>3 DEF PassedIsHandled
<1>9. \/ UNCHANGED job
      \/ job'.pc \in {"idle", "check", "head", "get"}
      \/ job'.next = 1 /\ DOMAIN job'.box \subseteq Nat \ {0}
      \/ HasBox /\ job'.next = job.next /\ job'.batch = job.batch /\ job'.box = job.box
      \/ ParseNext
      \/ InsertRow \/ RejectRow
  <2>1. CASE Idles \/ Ends
    BY <2>1, EndsFields, IdleFields
  <2>2. CASE \E f \in Forces : StartApi(f) \/ StartCli(f)
    BY <2>2, StartFields
  <2>3. CASE \E f \in Forces : StartLocal(f)
    BY <2>3, LocalFields, IdleFields, ArchiveAssumption
  <2>4. CASE Check \/ CheckFails
    BY <1>1, <2>4, CheckFields, IdleFields
  <2>5. CASE HeadObject
    BY <1>1, <2>5, HeadFields, IdleFields
  <2>6. CASE GetObject
    <3>1. PICK n \in 0..archive : job'.box = S3Box(n)
      BY <1>1, <2>6, GetFields
    <3>2. S3Box(n) \in Seq(Msg)
      BY ArchiveAssumption, S3BoxType DEF TypeOK
    <3>3. job'.next = 1
      BY <1>1, <2>6, GetFields DEF GetObject, LoopBounds, Running
    <3> QED BY <3>1, <3>2, <3>3
  <2>7. CASE ParseEnd \/ BatchDone \/ Count \/ SaveDelete \/ SaveInsert
    <3>1. HasBox
      BY <2>7 DEF ParseEnd, BatchDone, Count, SaveDelete, SaveInsert, HasBox, Running
    <3> QED BY <1>1, <2>7, <3>1, EndFields, DoneFields, CountFields, SaveFields
  <2> QED BY <2>1, <2>2, <2>3, <2>4, <2>5, <2>6, <2>7, Cases
<1> QED BY <1>3, <1>4, <1>5, <1>6, <1>7, <1>8, <1>9

\* completed is set by Count alone, when the loop has passed the whole box and
\* the batch is empty.
LEMMA CompletedLastStep ==
    /\ TypeOK /\ RowsKeyed /\ LoopBounds /\ BoxCoversEtag /\ PassedIsHandled
    /\ CompletedLast /\ [Next]_vars
    => CompletedLast'
<1> SUFFICES ASSUME TypeOK, RowsKeyed, LoopBounds, BoxCoversEtag, PassedIsHandled,
                    CompletedLast, [Next]_vars
             PROVE  CompletedLast'
    OBVIOUS
<1> USE DEF CompletedLast, Running
<1>1. /\ job \in Job /\ job.next \in Nat \ {0} /\ job.box \in Seq(Msg)
  BY JobFields DEF TypeOK
<1>2. \A m : Handled(m) => Handled(m)'
  BY HandledStays
<1>3. CASE Idles \/ Ends
  BY <1>2, <1>3, EndsFields, IdleFields
<1>4. CASE \E f \in Forces : StartApi(f) \/ StartCli(f)
  BY <1>4, StartFields
<1>5. CASE \E f \in Forces : StartLocal(f)
  BY <1>5, LocalFields, IdleFields
<1>6. CASE Check \/ CheckFails
  BY <1>1, <1>6, CheckFields, IdleFields
<1>7. CASE HeadObject
  BY <1>1, <1>7, HeadFields, IdleFields
<1>8. CASE GetObject
  BY <1>1, <1>8, GetFields DEF GetObject
<1>9. CASE ParseNext
  BY <1>1, <1>9, ParseFields DEF ParseNext
<1>10. CASE ParseEnd
  BY <1>1, <1>10, EndFields DEF ParseEnd
<1>11. CASE InsertRow \/ RejectRow
  BY <1>1, <1>11, InsertFields DEF InsertRow, RejectRow
<1>12. CASE BatchDone
  BY <1>1, <1>12, DoneFields DEF BatchDone
<1>13. CASE Count
  <2>1. HasBox /\ job.next > Len(job.box) /\ job.batch = <<>>
    BY <1>13 DEF Count, LoopBounds, HasBox
  <2>2. \A i \in DOMAIN job.box : Handled(job.box[i])
    BY <1>1, <2>1 DEF PassedIsHandled, InBatch
  <2>3. \A n \in EtagMessages(job.new.etag) : Handled(n)
    BY <2>1, <2>2 DEF BoxCoversEtag
  <2> QED BY <1>1, <1>2, <1>13, <2>3, CountFields
<1>14. CASE SaveDelete \/ SaveInsert
  BY <1>1, <1>2, <1>14, SaveFields DEF SaveDelete, SaveInsert
<1> QED BY <1>3, <1>4, <1>5, <1>6, <1>7, <1>8, <1>9, <1>10, <1>11, <1>12, <1>13, <1>14,
           Cases

\* What is saved as completed is complete.
LEMMA CoversStep ==
    TypeOK /\ RowsKeyed /\ CompletedLast /\ CompletedCovers /\ [Next]_vars => CompletedCovers'
<1> SUFFICES ASSUME TypeOK, RowsKeyed, CompletedLast, CompletedCovers, [Next]_vars
             PROVE  CompletedCovers'
    OBVIOUS
<1>1. \A m : Handled(m) => Handled(m)'
  BY HandledStays
<1>2. CASE manifest' = manifest
  BY <1>1, <1>2 DEF CompletedCovers
<1>3. CASE SaveDelete
  BY <1>3 DEF SaveDelete, CompletedCovers
<1>4. CASE SaveInsert
  BY <1>1, <1>4 DEF SaveInsert, CompletedCovers, CompletedLast, Running
<1> QED BY <1>2, <1>3, <1>4, Writers

\* The manifest about to be inserted names an ETag already seen, and finds the
\* table empty.
LEMMA SavesStep ==
    TypeOK /\ BoxCoversEtag /\ SavesIntoGap /\ [Next]_vars => SavesIntoGap'
<1> SUFFICES ASSUME TypeOK, BoxCoversEtag, SavesIntoGap, [Next]_vars PROVE SavesIntoGap'
    OBVIOUS
<1> USE DEF SavesIntoGap, Running, HasBox
<1>1. /\ job \in Job /\ archive \in Nat /\ archive' \in Nat /\ archive <= archive'
  BY Writers, ArchiveAssumption DEF TypeOK, ArchiveGrows
<1>2. CASE UNCHANGED <<job, manifest>>
  BY <1>1, <1>2
<1>3. CASE job'.pc \in {"idle", "check", "head", "get"}
  BY <1>3
<1>4. CASE /\ job'.pc # "save" /\ HasBox /\ job'.new.etag = job.new.etag
  BY <1>1, <1>4
<1>5. CASE /\ job'.pc # "save" /\ job'.new.etag = LocalEtag
  BY <1>5
<1>6. CASE GetObject
  <2>1. job.new.etag \in 0..archive /\ job'.pc = "parse" /\ job'.new = job.new
    BY <1>1, <1>6, GetFields DEF GetObject, BoxCoversEtag
  <2> QED BY <1>1, <2>1
<1>7. CASE SaveDelete
  <2>1. manifest' = {} /\ HasBox /\ job'.new = job.new
    BY <1>1, <1>7, SaveFields DEF SaveDelete
  <2> QED BY <1>1, <2>1
<1>8. \/ UNCHANGED <<job, manifest>>
      \/ job'.pc \in {"idle", "check", "head", "get"}
      \/ job'.pc # "save" /\ HasBox /\ job'.new.etag = job.new.etag
      \/ job'.pc # "save" /\ job'.new.etag = LocalEtag
      \/ GetObject \/ SaveDelete
  <2>1. CASE Idles
    BY <2>1 DEF Idles, ArchiveGrows, vars, store
  <2>2. CASE Ends
    BY <2>2, EndsFields, IdleFields
  <2>3. CASE \E f \in Forces : StartApi(f) \/ StartCli(f)
    BY <2>3, StartFields
  <2>4. CASE \E f \in Forces : StartLocal(f)
    BY <2>4, LocalFields, IdleFields
  <2>5. CASE Check \/ CheckFails
    BY <1>1, <2>5, CheckFields, IdleFields
  <2>6. CASE HeadObject
    BY <1>1, <2>6, HeadFields, IdleFields
  <2>7. CASE ParseNext \/ ParseEnd
    <3>1. HasBox
      BY <2>7 DEF ParseNext, ParseEnd
    <3> QED BY <1>1, <2>7, <3>1, ParseFields, EndFields
  <2>8. CASE InsertRow \/ RejectRow
    <3>1. job.pc = "insert"
      BY <2>8 DEF InsertRow, RejectRow
    <3> QED BY <1>1, <2>8, <3>1, InsertFields
  <2>9. CASE BatchDone \/ Count
    <3>1. HasBox
      BY <2>9 DEF BatchDone, Count
    <3> QED BY <1>1, <2>9, <3>1, DoneFields, CountFields
  <2>10. CASE SaveInsert
    <3>1. HasBox
      BY <2>10 DEF SaveInsert
    <3> QED BY <1>1, <2>10, <3>1, SaveFields
  <2> QED BY <2>1, <2>2, <2>3, <2>4, <2>5, <2>6, <2>7, <2>8, <2>9, <2>10, Cases
<1> QED BY <1>2, <1>3, <1>4, <1>5, <1>6, <1>7, <1>8

\* The invariant holds in the empty index.
LEMMA InvInit == Init => IngestionInv /\ FiniteTable
<1> SUFFICES ASSUME Init PROVE IngestionInv /\ FiniteTable
    OBVIOUS
<1>1. TypeOK /\ FiniteTable
  BY TypeInit
<1>2. job = IdleJob /\ emails = {} /\ manifest = {}
  BY DEF Init
<1>3. job.pc = "idle" /\ job.batch = <<>> /\ job.next = 1
  BY <1>2, IdleFields
<1> QED BY <1>1, <1>2, <1>3
        DEF IngestionInv, RowsKeyed, BoxCoversEtag, PassedIsHandled, LoopBounds,
            CompletedLast, CompletedCovers, SavesIntoGap, HasBox, Running

\* Every step keeps the invariant.
LEMMA InvStep ==
    IngestionInv /\ FiniteTable /\ [Next]_vars => IngestionInv' /\ FiniteTable'
BY TypeStep, RowsKeyedStep, LoopBoundsStep, BoxCoversStep, PassedStep,
   CompletedLastStep, SavesStep, CoversStep
DEF IngestionInv

\* The state of the pipeline, of its tables and of its locals keeps its type,
\* for every archive, batch size and number of faults.
THEOREM TypeCorrect == Spec => []TypeOK
<1>1. IngestionInv => TypeOK
  BY DEF IngestionInv
<1> QED BY InvInit, InvStep, <1>1, PTL DEF Spec

\* A manifest marked completed tells the truth: whatever crashed before and
\* however often the archive grew, every message behind its ETag is in the index
\* or was refused and logged.
THEOREM CompletedCoversAlways == Spec => []CompletedCovers
<1>1. IngestionInv => CompletedCovers
  BY DEF IngestionInv
<1> QED BY InvInit, InvStep, <1>1, PTL DEF Spec

-----------------------------------------------------------------------------
(* One row for one mail *)

\* message_id is a primary key.
KeysUnique == \A r, q \in emails : r.key = q.key => r = q

\* INSERT OR REPLACE keeps the key unique.
LEMMA KeysUniqueStep == KeysUnique /\ [Next]_vars => KeysUnique'
<1> SUFFICES ASSUME KeysUnique, [Next]_vars PROVE KeysUnique'
    OBVIOUS
<1>1. CASE emails' = emails
  BY <1>1 DEF KeysUnique
<1>2. CASE InsertRow
  BY <1>2 DEF KeysUnique, InsertRow, InsertOrReplace
<1> QED BY <1>1, <1>2, Writers

\* Copies of a mail that has a Message-ID have one key, so one row.
LEMMA OneKeyOneRow == TypeOK /\ RowsKeyed /\ KeysUnique => MailOnce
<1> SUFFICES ASSUME TypeOK, RowsKeyed, KeysUnique, NEW r \in emails, NEW q \in emails,
                    KindOf[r.msg] = "identified", SameMail(r.msg, q.msg)
             PROVE  r = q
    BY DEF MailOnce
<1>1. KindOf[q.msg] = "identified" /\ IdOf[q.msg] = IdOf[r.msg]
  BY DEF SameMail
<1>2. r.key = KeyOf(r.msg, r.key.tag) /\ q.key = KeyOf(q.msg, q.key.tag)
  BY DEF RowsKeyed, Keyed
<1>3. r.key = q.key
  BY <1>1, <1>2 DEF KeyOf
<1> QED BY <1>3 DEF KeysUnique

\* A mail that carries a Message-ID has one row, however often it and its copies
\* are ingested, resumed, forced or interrupted.
THEOREM MailOnceAlways == Spec => []MailOnce
<1>1. Init => KeysUnique
  BY DEF Init, KeysUnique
<1>2. IngestionInv /\ KeysUnique => MailOnce
  BY OneKeyOneRow DEF IngestionInv
<1> QED BY InvInit, InvStep, KeysUniqueStep, <1>1, <1>2, PTL DEF Spec

\* What the proofs show of the pipeline at every moment: the invariant the runs
\* check too.
THEOREM IngestionInvAlways == Spec => []IngestionInv
BY InvInit, InvStep, PTL DEF Spec

-----------------------------------------------------------------------------
(* Refinement *)

\* The abstract state behind a concrete one.
handledNow == {m \in Msg : Handled(m)}
claimNow == {m.etag : m \in {x \in manifest : x.completed}}

\* Both modules read the archive through MailArchive.
LEMMA SameArchive ==
    /\ Index!Msg = Msg
    /\ Index!LocalEtag = LocalEtag
    /\ \A m, n : Index!SameMail(m, n) <=> SameMail(m, n)
    /\ \A e : Index!EtagMessages(e) = EtagMessages(e)
BY DEF Index!Msg, Msg, Index!LocalEtag, LocalEtag, Index!SameMail, SameMail,
       Index!EtagMessages, EtagMessages

\* The empty index is an initial state of ArchiveIndex.
LEMMA IndexInit == Init => Index!Init
BY DEF Init, Index!Init, Handled, Represented

\* A step of ingestion is a step of ArchiveIndex, or leaves it as it is.
LEMMA IndexStep == IngestionInv /\ [Next]_vars => [Index!Next]_(Index!vars)
<1> SUFFICES ASSUME IngestionInv, [Next]_vars PROVE [Index!Next]_(Index!vars)
    OBVIOUS
<1>1. TypeOK /\ RowsKeyed /\ CompletedLast /\ SavesIntoGap
  BY DEF IngestionInv
<1>2. job \in Job /\ job.batch \in Seq(Row)
  BY <1>1, JobFields DEF TypeOK
<1>3. CASE UNCHANGED <<archive, emails, manifest, rejected>>
  <2>1. UNCHANGED handledNow
    BY <1>3 DEF handledNow, Handled
  <2>2. UNCHANGED claimNow
    BY <1>3 DEF claimNow
  <2> QED BY <1>3, <2>1, <2>2 DEF Index!vars, handledNow, claimNow
<1>4. CASE ArchiveGrows
  <2>1. UNCHANGED <<emails, manifest, rejected>>
    BY <1>4 DEF ArchiveGrows, store
  <2>2. UNCHANGED handledNow /\ UNCHANGED claimNow
    BY <2>1 DEF handledNow, claimNow, Handled
  <2>3. archive < MsgCount /\ archive' = archive + 1
    BY <1>4 DEF ArchiveGrows
  <2>4. Index!Grow
    BY <2>2, <2>3 DEF Index!Grow, handledNow, claimNow
  <2> QED BY <2>4 DEF Index!Next
<1>5. CASE InsertRow
  <2> DEFINE row == Head(job.batch)
  <2>1. UNCHANGED <<archive, manifest, rejected>>
    BY <1>5 DEF InsertRow
  <2>2. row \in Row /\ Keyed(row) /\ row.msg \in Msg
    <3>1. row \in Row
      BY <1>2, <1>5, HeadTailProperties DEF InsertRow
    <3>2. row = job.batch[1] /\ 1 \in DOMAIN job.batch
      BY <1>2, <1>5 DEF InsertRow
    <3> QED BY <1>1, <3>1, <3>2 DEF RowsKeyed, Row
  <2>3. emails' = InsertOrReplace(emails, row)
    BY <1>5 DEF InsertRow
  <2>4. ASSUME NEW m \in Msg
        PROVE  Handled(m)' <=> Handled(m) \/ SameMail(row.msg, m)
    <3>1. Handled(m) => Handled(m)'
      BY <1>1, HandledStays
    <3>2. SameMail(row.msg, m) => Represented(emails', m)
      BY <2>3 DEF Represented, InsertOrReplace
    <3>3. Represented(emails', m) => Represented(emails, m) \/ SameMail(row.msg, m)
      BY <2>3 DEF Represented, InsertOrReplace
    <3> QED BY <2>1, <3>1, <3>2, <3>3 DEF Handled
  <2>5. handledNow' = handledNow \cup {n \in Msg : SameMail(row.msg, n)}
    BY <2>4 DEF handledNow
  <2>6. UNCHANGED claimNow
    BY <2>1 DEF claimNow
  <2>7. Index!Handle
    <3>1. {n \in Msg : SameMail(row.msg, n)} = {n \in Index!Msg : Index!SameMail(row.msg, n)}
      BY SameArchive
    <3> QED BY <2>1, <2>2, <2>5, <2>6, <3>1, SameArchive
            DEF Index!Handle, handledNow, claimNow
  <2> QED BY <2>7 DEF Index!Next
<1>6. CASE RejectRow
  <2> DEFINE row == Head(job.batch)
  <2>1. /\ UNCHANGED <<archive, emails, manifest>>
        /\ rejected' = rejected \cup {row.msg}
    BY <1>6 DEF RejectRow, store
  <2>2. row.msg \in Msg
    <3>1. row \in Row
      BY <1>2, <1>6, HeadTailProperties DEF RejectRow
    <3> QED BY <3>1 DEF Row
  <2>3. handledNow' = handledNow \cup {row.msg}
    BY <2>1, <2>2 DEF handledNow, Handled
  <2>4. UNCHANGED claimNow
    BY <2>1 DEF claimNow
  <2>5. Index!Handle
    BY <2>1, <2>2, <2>3, <2>4, SameArchive DEF Index!Handle, handledNow, claimNow
  <2> QED BY <2>5 DEF Index!Next
<1>7. CASE SaveDelete
  <2>1. UNCHANGED <<archive, emails, rejected>> /\ manifest' = {}
    BY <1>7 DEF SaveDelete
  <2>2. UNCHANGED handledNow
    BY <2>1 DEF handledNow, Handled
  <2>3. claimNow' = {}
    BY <2>1 DEF claimNow
  <2>4. Index!Withdraw
    BY <2>1, <2>2, <2>3 DEF Index!Withdraw, handledNow, claimNow
  <2> QED BY <2>4 DEF Index!Next
<1>8. CASE SaveInsert
  <2>1. UNCHANGED <<archive, emails, rejected>> /\ manifest' = {job.new} /\ manifest = {}
    BY <1>1, <1>8 DEF SaveInsert, SavesIntoGap
  <2>2. UNCHANGED handledNow
    BY <2>1 DEF handledNow, Handled
  <2>3. claimNow = {}
    BY <2>1 DEF claimNow
  <2>4. CASE ~job.new.completed
    <3>1. claimNow' = {}
      BY <2>1, <2>4 DEF claimNow
    <3> QED BY <2>1, <2>2, <2>3, <3>1 DEF Index!vars, handledNow, claimNow
  <2>5. CASE job.new.completed
    <3>1. claimNow' = {job.new.etag}
      BY <2>1, <2>5 DEF claimNow
    <3>2. job.new.etag \in {LocalEtag} \cup 0..archive
      BY <1>1, <1>8 DEF SaveInsert, SavesIntoGap, HasBox, Running
    <3>3. \A n \in EtagMessages(job.new.etag) : Handled(n)
      BY <1>1, <1>8, <2>5 DEF SaveInsert, CompletedLast, Running
    <3>4. EtagMessages(job.new.etag) \subseteq Msg
      <4>1. CASE job.new.etag = LocalEtag
        BY <4>1, ArchiveAssumption DEF EtagMessages
      <4>2. CASE job.new.etag \in 0..archive
        BY <1>1, <4>2, ArchiveAssumption DEF EtagMessages, LocalEtag, TypeOK, Msg
      <4> QED BY <3>2, <4>1, <4>2
    <3>5. EtagMessages(job.new.etag) \subseteq handledNow
      BY <3>3, <3>4 DEF handledNow
    <3>6. Index!Claim
      BY <2>1, <2>2, <2>3, <3>1, <3>2, <3>5, SameArchive
      DEF Index!Claim, handledNow, claimNow
    <3> QED BY <3>6 DEF Index!Next
  <2> QED BY <2>4, <2>5
<1> QED BY <1>3, <1>4, <1>5, <1>6, <1>7, <1>8, Writers

\* Ingestion implements the abstract index: handled mail stays handled across
\* crashes and re-runs, and completed is claimed only when it is true.
THEOREM ImplementsIndex == Spec => IndexSpec
<1>1. Init => Index!Init
  BY IndexInit
<1> QED BY <1>1, InvInit, InvStep, IndexStep, PTL DEF Spec, IndexSpec, Index!Spec

-----------------------------------------------------------------------------
(* The length of a run *)

\* The messages a run has still to read.
Ahead(j) == IF j.pc \in {"check", "head", "get"} THEN MsgCount ELSE Len(j.box) + 1 - j.next

\* How far the statement about to run is from the last one, but for the messages
\* ahead and the rows of the batch.
Phase(j) ==
    CASE j.pc = "idle"   -> 0
      [] j.pc = "fts"    -> 1
      [] j.pc = "save"   -> IF j.new.completed THEN 2 ELSE 7
      [] j.pc = "delete" -> IF j.new.completed THEN 3 ELSE 8
      [] j.pc = "count"  -> 4
      [] j.pc = "insert" -> IF j.final THEN 5 ELSE 9
      [] j.pc = "parse"  -> 6
      [] j.pc = "get"    -> 7
      [] j.pc = "head"   -> 8
      [] j.pc = "check"  -> 9

\* The steps a run has left at most: a message costs five, a row of the batch one.
StepsLeft(j) == 5 * Ahead(j) + Len(j.batch) + Phase(j)

\* The messages of the larger of the two sources.
Longest == IF MsgCount >= Len(LocalBox) THEN MsgCount ELSE Len(LocalBox)

\* The loop does not go past its box.
InsideBox == job.next <= Len(job.box) + 1

\* A run has no box before it has read one, and the loop stops at its end.
LEMMA InsideBoxStep == IngestionInv /\ IngestionInv' /\ InsideBox /\ [Next]_vars => InsideBox'
<1> SUFFICES ASSUME IngestionInv, IngestionInv', InsideBox, [Next]_vars PROVE InsideBox'
  OBVIOUS
<1>1. /\ job \in Job /\ job.next \in Nat \ {0} /\ Len(job.box) \in Nat
      /\ job'.next \in Nat \ {0} /\ Len(job'.box) \in Nat
  BY JobFields DEF IngestionInv, TypeOK, Job
<1>2. CASE job'.next = 1
  BY <1>1, <1>2 DEF InsideBox
<1>3. CASE job'.next = job.next /\ job'.box = job.box
  BY <1>3 DEF InsideBox
<1>4. CASE ParseNext
  <2>1. job'.next = job.next + 1 /\ job'.box = job.box
    BY <1>1, <1>4, ParseFields
  <2>2. job.next <= Len(job.box)
    BY <1>4 DEF ParseNext
  <2> QED BY <1>1, <2>1, <2>2 DEF InsideBox
<1>5. CASE Idles \/ Ends
  BY <1>2, <1>3, <1>5, EndsFields, IdleFields
<1>6. CASE Check \/ CheckFails \/ HeadObject
  <2>1. job.pc \in {"check", "head"}
    BY <1>6 DEF Check, CheckFails, HeadObject, Running
  <2>2. job.next = 1
    BY <2>1 DEF IngestionInv, LoopBounds
  <2> QED BY <1>1, <1>2, <1>6, <2>2, CheckFields, HeadFields, IdleFields
<1>7. CASE GetObject
  <2>1. job.next = 1
    BY <1>7 DEF GetObject, Running, IngestionInv, LoopBounds
  <2> QED BY <1>1, <1>2, <1>7, <2>1, GetFields
<1>8. CASE ParseEnd \/ BatchDone \/ Count \/ InsertRow \/ RejectRow \/ SaveDelete \/ SaveInsert
  BY <1>1, <1>3, <1>8, EndFields, DoneFields, CountFields, InsertFields, SaveFields
<1>9. CASE \E f \in Forces : StartApi(f) \/ StartCli(f) \/ StartLocal(f)
  BY <1>2, <1>9, StartFields, LocalFields, IdleFields
<1> QED BY <1>4, <1>5, <1>6, <1>7, <1>8, <1>9, Cases

\* A step that reads a message puts at most one row into the batch and goes back by at
\* most three statements; a step that takes a row out, or none of both, goes on.
LEMMA Dearer ==
    ASSUME NEW ahead \in Nat, NEW rows \in Nat, NEW phase \in Nat
    PROVE  /\ 5 * ahead + rows + phase \in Nat
           /\ phase > 0 => 0 < 5 * ahead + rows + phase
           /\ \A a, r, p \in Nat :
                 (\/ a <= ahead /\ r = rows /\ p < phase
                  \/ a = ahead /\ r = rows - 1 /\ p = phase
                  \/ a = ahead - 1 /\ r = rows + 1 /\ p <= phase + 3) =>
                     5 * a + r + p < 5 * ahead + rows + phase
OBVIOUS

\* What a run has left is a number, and none before it starts.
LEMMA LeftIsNumber ==
    ASSUME NEW j \in Job, j.next <= Len(j.box) + 1
    PROVE  /\ Ahead(j) \in Nat /\ Len(j.batch) \in Nat /\ Phase(j) \in 0..9
           /\ StepsLeft(j) \in Nat
           /\ j.pc # "idle" => StepsLeft(j) > 0
<1>1. /\ j.next \in Nat /\ Len(j.box) \in Nat /\ Len(j.batch) \in Nat /\ j.pc \in PCs
      /\ MsgCount \in Nat
  BY ArchiveAssumption DEF Job
<1>2. Ahead(j) \in Nat
  BY <1>1 DEF Ahead
<1>3. Phase(j) \in 0..9 /\ (j.pc # "idle" => Phase(j) > 0)
  <2>1. CASE j.pc = "idle"
    BY <2>1 DEF Phase
  <2>2. CASE j.pc = "fts"
    BY <2>2 DEF Phase
  <2>3. CASE j.pc = "count"
    BY <2>3 DEF Phase
  <2>4. CASE j.pc = "parse"
    BY <2>4 DEF Phase
  <2>5. CASE j.pc = "get"
    BY <2>5 DEF Phase
  <2>6. CASE j.pc = "head"
    BY <2>6 DEF Phase
  <2>7. CASE j.pc = "check"
    BY <2>7 DEF Phase
  <2>8. CASE j.pc = "save"
    BY <2>8 DEF Phase
  <2>9. CASE j.pc = "delete"
    BY <2>9 DEF Phase
  <2>10. CASE j.pc = "insert"
    BY <2>10 DEF Phase
  <2> QED
    BY <1>1, <2>1, <2>2, <2>3, <2>4, <2>5, <2>6, <2>7, <2>8, <2>9, <2>10 DEF PCs
<1>4. Phase(j) \in Nat
  BY <1>3
<1>5. StepsLeft(j) \in Nat /\ (Phase(j) > 0 => 0 < StepsLeft(j))
  BY <1>1, <1>2, <1>4, Dearer DEF StepsLeft
<1>6. j.pc # "idle" => StepsLeft(j) > 0
  BY <1>3, <1>5
<1> QED BY <1>1, <1>2, <1>3, <1>5, <1>6

\* A run that is over has nothing left.
LEMMA NothingLeft == StepsLeft(IdleJob) = 0
<1>1. IdleJob.box = <<>> /\ IdleJob.pc = "idle" /\ IdleJob.next = 1 /\ IdleJob.batch = <<>>
  BY DEF IdleJob
<1>2. Ahead(IdleJob) = 0 /\ Len(IdleJob.batch) = 0
  BY <1>1 DEF Ahead
<1>3. Phase(IdleJob) = 0
  BY <1>1 DEF Phase
<1> QED BY <1>2, <1>3 DEF StepsLeft

\* A statement that reads no message and inserts no row brings the run one phase on.
LEMMA PhaseOn ==
    ASSUME job \in Job, job' \in Job, InsideBox, InsideBox',
           Ahead(job') = Ahead(job), job'.batch = job.batch, Phase(job') < Phase(job)
    PROVE  StepsLeft(job') < StepsLeft(job)
<1>1. /\ Ahead(job) \in Nat /\ Len(job.batch) \in Nat /\ Phase(job) \in Nat /\ Phase(job') \in Nat
  BY LeftIsNumber DEF InsideBox
<1> QED BY <1>1, Dearer DEF StepsLeft

\* Every statement and every failure leaves a run with fewer steps.
LEMMA FewerLeft ==
    ASSUME IngestionInv, IngestionInv', InsideBox, InsideBox', JobStep \/ Failure
    PROVE  StepsLeft(job') < StepsLeft(job)
<1>1. /\ job \in Job /\ job' \in Job /\ job.next \in Nat \ {0} /\ Len(job.box) \in Nat
      /\ job.batch \in Seq(Row)
  BY JobFields DEF IngestionInv, TypeOK
<1>2. /\ Ahead(job) \in Nat /\ Len(job.batch) \in Nat /\ Phase(job) \in Nat
      /\ Ahead(job') \in Nat /\ Len(job'.batch) \in Nat /\ Phase(job') \in Nat
      /\ job.pc # "idle" => StepsLeft(job) > 0
  <2>1. /\ Ahead(job) \in Nat /\ Len(job.batch) \in Nat /\ Phase(job) \in 0..9
        /\ job.pc # "idle" => StepsLeft(job) > 0
    BY <1>1, LeftIsNumber DEF InsideBox
  <2>2. Ahead(job') \in Nat /\ Len(job'.batch) \in Nat /\ Phase(job') \in 0..9
    BY <1>1, LeftIsNumber DEF InsideBox
  <2> QED BY <2>1, <2>2
<1>3. job.pc # "idle"
  BY DEF JobStep, Failure, Check, HeadObject, GetObject, ParseNext, ParseAborts, ParseEnd,
         InsertRow, BatchDone, Count, SaveDelete, SaveInsert, CreateFts, CheckFails, HeadFails,
         GetFails, RejectRow, FtsFails, StatementRaises, Crash, Running
<1>4. CASE job' = IdleJob
  BY <1>2, <1>3, <1>4, NothingLeft
<1>5. CASE Ends
  BY <1>4, <1>5, EndsFields
<1>6. CASE Check \/ CheckFails
  <2>1. CASE job'.pc = "head" /\ job'.batch = job.batch
    <3>1. job.pc = "check"
      BY <1>6 DEF Check, CheckFails, Running
    <3>2. Ahead(job') = Ahead(job)
      BY <2>1, <3>1 DEF Ahead
    <3>3. Phase(job') < Phase(job)
      BY <2>1, <3>1 DEF Phase, Running
    <3> QED BY <1>1, <2>1, <3>2, <3>3, PhaseOn
  <2> QED BY <1>1, <1>4, <1>6, <2>1, CheckFields
<1>7. CASE HeadObject
  <2>1. CASE job'.pc = "get" /\ job'.batch = job.batch
    <3>1. job.pc = "head"
      BY <1>7 DEF HeadObject, Running
    <3>2. Ahead(job') = Ahead(job)
      BY <2>1, <3>1 DEF Ahead
    <3>3. Phase(job') < Phase(job)
      BY <2>1, <3>1 DEF Phase, Running
    <3> QED BY <1>1, <2>1, <3>2, <3>3, PhaseOn
  <2> QED BY <1>1, <1>4, <1>7, <2>1, HeadFields
<1>8. CASE GetObject
  <2>1. PICK n \in 0..archive : job'.box = S3Box(n)
    BY <1>1, <1>8, GetFields
  <2>2. /\ job.pc = "get" /\ job.next = 1 /\ archive \in 0..MsgCount /\ MsgCount \in Nat
    BY <1>8, ArchiveAssumption DEF GetObject, Running, IngestionInv, LoopBounds, TypeOK
  <2>3. /\ job'.pc = "parse" /\ job'.next = 1 /\ job'.batch = job.batch
    BY <1>1, <1>8, <2>2, GetFields
  <2>4. n \in 0..MsgCount /\ Len(job'.box) = n
    BY <2>1, <2>2, S3BoxType
  <2>5. Ahead(job') = n /\ Ahead(job) = MsgCount
    BY <2>2, <2>3, <2>4 DEF Ahead
  <2>6. Phase(job') = 6 /\ Phase(job) = 7
    BY <2>2, <2>3 DEF Phase, Running
  <2>7. Ahead(job') <= Ahead(job) /\ Phase(job') < Phase(job)
    BY <2>2, <2>4, <2>5, <2>6
  <2> QED BY <1>2, <2>3, <2>7, Dearer DEF StepsLeft
<1>9. CASE ParseNext
  <2>1. /\ job.pc = "parse" /\ ~job.final /\ job.next <= Len(job.box)
    BY <1>9 DEF ParseNext, Running, IngestionInv, LoopBounds
  <2>2. /\ job'.pc \in {"parse", "insert"} /\ job'.next = job.next + 1 /\ job'.box = job.box
        /\ job'.batch = Append(job.batch, NextRecord) /\ ~job'.final
    BY <1>1, <1>9, <2>1, ParseFields
  <2>3. Len(job'.batch) = Len(job.batch) + 1
    BY <1>1, <2>2
  <2>4. Ahead(job') = Ahead(job) - 1
    BY <1>1, <2>1, <2>2 DEF Ahead
  <2>5. Phase(job) = 6 /\ Phase(job') \in {6, 9}
    BY <2>1, <2>2 DEF Phase, Running
  <2>6. Phase(job') <= Phase(job) + 3
    BY <2>5
  <2> QED BY <1>2, <2>3, <2>4, <2>6, Dearer DEF StepsLeft
<1>10. CASE ParseEnd
  <2>1. job.pc = "parse"
    BY <1>10 DEF ParseEnd, Running
  <2>2. /\ job'.pc \in {"count", "insert"} /\ job'.next = job.next /\ job'.box = job.box
        /\ job'.batch = job.batch /\ job'.final
    BY <1>1, <1>10, EndFields
  <2>3. Ahead(job') = Ahead(job)
    BY <2>1, <2>2 DEF Ahead
  <2>4. Phase(job') < Phase(job)
    BY <2>1, <2>2 DEF Phase, Running
  <2> QED BY <1>1, <2>2, <2>3, <2>4, PhaseOn
<1>11. CASE InsertRow \/ RejectRow
  <2>1. job.pc = "insert" /\ job.batch # <<>>
    BY <1>11 DEF InsertRow, RejectRow, Running
  <2>2. /\ job'.pc = job.pc /\ job'.next = job.next /\ job'.box = job.box
        /\ job'.batch = Tail(job.batch) /\ job'.final = job.final
    BY <1>1, <1>11, InsertFields
  <2>3. Len(job'.batch) = Len(job.batch) - 1
    BY <1>1, <2>1, <2>2
  <2>4. Ahead(job') = Ahead(job) /\ Phase(job') = Phase(job)
    BY <2>1, <2>2 DEF Ahead, Phase, Running
  <2> QED BY <1>2, <2>3, <2>4, Dearer DEF StepsLeft
<1>12. CASE BatchDone
  <2>1. job.pc = "insert" /\ ~job.new.completed
    BY <1>12 DEF BatchDone, Running, IngestionInv, CompletedLast
  <2>2. /\ job'.next = job.next /\ job'.box = job.box /\ job'.batch = job.batch
        /\ ~job'.new.completed
        /\ \/ job'.pc = "count" /\ job.final
           \/ job'.pc \in {"parse", "delete"} /\ ~job.final
    BY <1>1, <1>12, <2>1, DoneFields
  <2>3. Ahead(job') = Ahead(job)
    BY <2>1, <2>2 DEF Ahead
  <2>4. Phase(job') < Phase(job)
    BY <2>1, <2>2 DEF Phase, Running
  <2> QED BY <1>1, <2>2, <2>3, <2>4, PhaseOn
<1>13. CASE Count
  <2>1. job.pc = "count"
    BY <1>13 DEF Count, Running
  <2>2. /\ job'.pc = "delete" /\ job'.next = job.next /\ job'.box = job.box
        /\ job'.batch = job.batch /\ job'.new.completed
    BY <1>1, <1>13, CountFields
  <2>3. Ahead(job') = Ahead(job)
    BY <2>1, <2>2 DEF Ahead
  <2>4. Phase(job') < Phase(job)
    BY <2>1, <2>2 DEF Phase, Running
  <2> QED BY <1>1, <2>2, <2>3, <2>4, PhaseOn
<1>14. CASE SaveDelete \/ SaveInsert
  <2>1. /\ SaveDelete => job.pc = "delete"
        /\ SaveInsert => job.pc = "save"
    BY DEF SaveDelete, SaveInsert, Running
  <2>2. /\ job'.next = job.next /\ job'.box = job.box /\ job'.batch = job.batch
        /\ job'.new = job.new
        /\ SaveDelete => job'.pc = "save"
        /\ SaveInsert => job'.pc = (IF job.new.completed THEN "fts" ELSE "parse")
    BY <1>1, <1>14, SaveFields
  <2>3. Ahead(job') = Ahead(job)
    BY <1>14, <2>1, <2>2 DEF Ahead
  <2>4. Phase(job') < Phase(job)
    BY <1>14, <2>1, <2>2 DEF Phase, Running
  <2> QED BY <1>1, <2>2, <2>3, <2>4, PhaseOn
<1> QED BY <1>5, <1>6, <1>7, <1>8, <1>9, <1>10, <1>11, <1>12, <1>13, <1>14
        DEF JobStep, Failure, Ends

\* Five steps for each message and nine more.
LEMMA FirstLeft ==
    ASSUME NEW ahead \in Nat, NEW phase \in 0..9, NEW most \in Nat, ahead <= most
    PROVE  5 * ahead + 0 + phase <= 5 * most + 9
OBVIOUS

\* A run starts with that many steps.
LEMMA LeftAtStart ==
    ASSUME IngestionInv', Start
    PROVE  StepsLeft(job') <= 5 * Longest + 9
<1>1. MsgCount \in Nat /\ Len(LocalBox) \in Nat /\ Longest \in Nat
      /\ MsgCount <= Longest /\ Len(LocalBox) <= Longest
  BY ArchiveAssumption DEF Longest
<1>2. CASE \E f \in Forces : StartApi(f) \/ StartCli(f)
  <2>1. job'.pc \in {"head", "check"} /\ job'.batch = <<>>
    BY <1>2, StartFields
  <2>2. Ahead(job') = MsgCount /\ Phase(job') \in {8, 9}
    BY <2>1 DEF Ahead, Phase, Running
  <2>3. Len(job'.batch) = 0
    BY <2>1
  <2> QED BY <1>1, <2>2, <2>3, FirstLeft DEF StepsLeft
<1>3. CASE \E f \in Forces : StartLocal(f)
  <2>1. CASE job' = IdleJob
    BY <1>1, <2>1, NothingLeft
  <2>2. CASE /\ job'.pc = "parse" /\ job'.next = 1 /\ job'.batch = <<>>
             /\ job'.box = LocalBox
    <3>1. Ahead(job') = Len(LocalBox) /\ Phase(job') = 6
      BY <1>1, <2>2 DEF Ahead, Phase, Running
    <3>2. Len(job'.batch) = 0
      BY <2>2
    <3> QED BY <1>1, <3>1, <3>2, FirstLeft DEF StepsLeft
  <2> QED BY <1>3, <2>1, <2>2, LocalFields
<1> QED BY <1>2, <1>3 DEF Start

\* A run is over after five statements for each message and nine more, whatever fails
\* and however it was started: nothing in its loop brings it back to where it was.
\* RunsEnd follows where a run that can go on does.
THEOREM RunsAreShort ==
    Spec => /\ [](StepsLeft(job) \in Nat)
            /\ [][/\ Start => StepsLeft(job') <= 5 * Longest + 9
                  /\ JobStep \/ Failure => StepsLeft(job') < StepsLeft(job)]_vars
<1>1. Init => InsideBox
  BY DEF Init, InsideBox, IdleJob
<1>2. IngestionInv /\ InsideBox => StepsLeft(job) \in Nat
  BY LeftIsNumber DEF IngestionInv, TypeOK, InsideBox
<1>3. IngestionInv /\ IngestionInv' /\ InsideBox /\ InsideBox' /\ [Next]_vars
        => [/\ Start => StepsLeft(job') <= 5 * Longest + 9
            /\ JobStep \/ Failure => StepsLeft(job') < StepsLeft(job)]_vars
  BY FewerLeft, LeftAtStart
<1> QED BY <1>1, <1>2, <1>3, InvInit, InvStep, InsideBoxStep, PTL DEF Spec
==============================================================================
