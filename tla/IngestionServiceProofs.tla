------------------------ MODULE IngestionServiceProofs ------------------------
(***************************************************************************)
(* Threads, pipeline and stream together: the lock is what makes the runs  *)
(* of a server the runs of Ingestion, and a status answer can be relied on.*)
(* PP gives the results about the pipeline; P!X and PP!X are one formula.  *)
(***************************************************************************)
EXTENDS IngestionService, IngestionTriggerProofs

PP == INSTANCE IngestionProofs

-----------------------------------------------------------------------------
(* The service moves the endpoint as IngestionTrigger does *)

\* The calls of the pipeline and of S3 do not touch lock, flag or error.
LEMMA ServiceIsTrigger == [ServiceNext]_serviceVars => [Next]_vars
<1> SUFFICES ASSUME [ServiceNext]_serviceVars PROVE [Next]_vars
    OBVIOUS
<1>1. ASSUME NEW r \in Requests, ServiceThread(r) PROVE [Next]_vars
  <2>1. CASE Outside(r)
    BY <2>1 DEF Outside, Next, Thread
  <2>2. CASE SetupFails(r) \/ LeaveRun(r)
    BY <2>2 DEF SetupFails, LeaveRun, Next, Thread
  <2>3. CASE EnterRun(r) \/ RunStatement(r) \/ StreamStep(r) \/ StreamEnds(r)
    BY <2>3 DEF EnterRun, RunStatement, StreamStep, StreamEnds, trigger, vars
  <2> QED BY <1>1, <2>1, <2>2, <2>3 DEF ServiceThread
<1>2. CASE ServerRestart
  BY <1>2 DEF ServerRestart, Next
<1>3. CASE ArchiveGrows \/ ReadManifest \/ AnswerStatus \/ UNCHANGED serviceVars
  BY <1>3 DEF ArchiveGrows, ReadManifest, AnswerStatus, serviceVars, trigger, vars
<1> QED BY <1>1, <1>2, <1>3 DEF ServiceNext

-----------------------------------------------------------------------------
(* Who is in run(), and what the stream holds *)

\* The thread in run() is one that holds the lock.
CallerRuns == caller # None => caller \in Requests /\ pc[caller] = "run"

\* A job under way is some thread's.
JobHasCaller == job.pc # "idle" => caller # None

\* S3 is read between head_object and the parsing, and the object served is no
\* older than the ETag.
StreamFollows ==
    /\ stream \in Streams
    /\ stream.read <= stream.size
    /\ stream.pc # "body" => stream.read = 0
    /\ job.pc # "get" => stream = Unread
    /\ stream.pc = "body" => job.new.etag <= stream.size /\ stream.size <= archive

Joined == CallerRuns /\ JobHasCaller /\ StreamFollows

\* The state before the first request is one of these.
LEMMA JoinedInit == ServiceInit => Joined
<1> SUFFICES ASSUME ServiceInit PROVE Joined
    OBVIOUS
<1>1. caller = None /\ stream = Unread
  BY DEF ServiceInit
<1>2. job.pc = "idle"
  BY DEF ServiceInit, P!Init, P!IdleJob
<1>3. Unread \in Streams /\ Unread.read <= Unread.size /\ Unread.pc # "body" /\ Unread.read = 0
  BY DEF Unread, Streams
<1> QED BY <1>1, <1>2, <1>3 DEF Joined, CallerRuns, JobHasCaller, StreamFollows

\* Only the caller's thread leaves run().
LEMMA CallerStep ==
    TypeOK /\ HolderInside /\ CallerRuns /\ [ServiceNext]_serviceVars => CallerRuns'
<1> SUFFICES ASSUME TypeOK, HolderInside, CallerRuns, [ServiceNext]_serviceVars
             PROVE  CallerRuns'
    OBVIOUS
<1> USE DEF CallerRuns, TypeOK
<1>1. ASSUME NEW r \in Requests, ServiceThread(r) PROVE CallerRuns'
  <2>1. CASE Outside(r)
    BY <2>1 DEF Outside, Handle, Refuse, Accept, StartThread, BodyFails, Acquire,
                RaiseFlag, ClearError, PublishProgress, RecordError, LowerFlag,
                Release, Goto
  <2>2. CASE SetupFails(r) \/ LeaveRun(r)
    BY <2>2 DEF SetupFails, LeaveRun
  <2>3. CASE EnterRun(r)
    BY <2>3 DEF EnterRun, trigger
  <2>4. CASE RunStatement(r) \/ StreamStep(r) \/ StreamEnds(r)
    BY <2>4 DEF RunStatement, StreamStep, StreamEnds, trigger
  <2> QED BY <1>1, <2>1, <2>2, <2>3, <2>4 DEF ServiceThread
<1>2. CASE ServerRestart
  BY <1>2 DEF ServerRestart
<1>3. CASE ArchiveGrows \/ ReadManifest \/ AnswerStatus \/ UNCHANGED serviceVars
  BY <1>3 DEF ArchiveGrows, ReadManifest, AnswerStatus, serviceVars, trigger
<1> QED BY <1>1, <1>2, <1>3 DEF ServiceNext

\* No thread enters run() while another is in it.
LEMMA EntersAlone ==
    ASSUME HolderInside, CallerRuns, JobHasCaller, NEW r \in Requests,
           pc[r] = "run", caller # r
    PROVE  caller = None /\ job.pc = "idle"
BY DEF HolderInside, CallerRuns, JobHasCaller, Inside

\* A job under way stays with its caller.
LEMMA JobHasCallerStep ==
    HolderInside /\ CallerRuns /\ JobHasCaller /\ [ServiceNext]_serviceVars => JobHasCaller'
<1> SUFFICES ASSUME HolderInside, CallerRuns, JobHasCaller, [ServiceNext]_serviceVars
             PROVE  JobHasCaller'
    OBVIOUS
<1> USE DEF JobHasCaller
<1>1. ASSUME NEW r \in Requests, ServiceThread(r) PROVE JobHasCaller'
  <2>1. CASE Outside(r) \/ SetupFails(r)
    BY <2>1 DEF Outside, SetupFails, pipeline
  <2>2. CASE EnterRun(r)
    BY <2>2, TriggerAssumption DEF EnterRun
  <2>3. CASE RunStatement(r) \/ StreamStep(r) \/ StreamEnds(r)
    BY <2>3, TriggerAssumption DEF RunStatement, StreamStep, StreamEnds
  <2>4. CASE LeaveRun(r)
    BY <2>4 DEF LeaveRun, pipeline
  <2> QED BY <1>1, <2>1, <2>2, <2>3, <2>4 DEF ServiceThread
<1>2. CASE ServerRestart
  <2>1. job'.pc = "idle"
    BY <1>2 DEF ServerRestart, pipeline, P!Crash, P!Finish, P!IdleJob
  <2> QED BY <2>1
<1>3. CASE ArchiveGrows \/ ReadManifest \/ AnswerStatus \/ UNCHANGED serviceVars
  BY <1>3 DEF ArchiveGrows, P!ArchiveGrows, ReadManifest, AnswerStatus, serviceVars, pipeline
<1> QED BY <1>1, <1>2, <1>3 DEF ServiceNext

-----------------------------------------------------------------------------
(* The actions of the two instances of Ingestion are the same *)

\* Action by action, the definitions expand to one text.
LEMMA SameActions ==
    /\ P!ArchiveGrows <=> PP!ArchiveGrows
    /\ \A f : P!StartApi(f) <=> PP!StartApi(f)
    /\ \A f : P!StartCli(f) <=> PP!StartCli(f)
    /\ \A f : P!StartLocal(f) <=> PP!StartLocal(f)
    /\ P!Check <=> PP!Check
    /\ P!CheckFails <=> PP!CheckFails
    /\ P!HeadObject <=> PP!HeadObject
    /\ P!HeadFails <=> PP!HeadFails
    /\ P!GetObject <=> PP!GetObject
    /\ P!GetFails <=> PP!GetFails
    /\ P!ParseNext <=> PP!ParseNext
    /\ P!ParseAborts <=> PP!ParseAborts
    /\ P!ParseEnd <=> PP!ParseEnd
    /\ P!InsertRow <=> PP!InsertRow
    /\ P!RejectRow <=> PP!RejectRow
    /\ P!BatchDone <=> PP!BatchDone
    /\ P!Count <=> PP!Count
    /\ P!SaveDelete <=> PP!SaveDelete
    /\ P!SaveInsert <=> PP!SaveInsert
    /\ P!CreateFts <=> PP!CreateFts
    /\ P!FtsFails <=> PP!FtsFails
    /\ P!StatementRaises <=> PP!StatementRaises
    /\ P!StartRaises <=> PP!StartRaises
    /\ P!Crash <=> PP!Crash
<1>1. P!ArchiveGrows <=> PP!ArchiveGrows
  BY DEF P!ArchiveGrows, PP!ArchiveGrows, P!store, PP!store
<1>2. \A f : P!StartApi(f) <=> PP!StartApi(f)
  BY DEF P!StartApi, PP!StartApi, P!Running, PP!Running, P!UsedTags,
         PP!UsedTags, P!FreshTags, PP!FreshTags, P!IdleJob, PP!IdleJob,
         P!BlankManifest, PP!BlankManifest, P!store, PP!store
<1>3. \A f : P!StartCli(f) <=> PP!StartCli(f)
  BY DEF P!StartCli, PP!StartCli, P!Running, PP!Running, P!UsedTags,
         PP!UsedTags, P!FreshTags, PP!FreshTags, P!IdleJob, PP!IdleJob,
         P!BlankManifest, PP!BlankManifest, P!store, PP!store
<1>4. \A f : P!StartLocal(f) <=> PP!StartLocal(f)
  BY DEF P!StartLocal, PP!StartLocal, P!Running, PP!Running, P!Finish,
         PP!Finish, P!UsedTags, PP!UsedTags, P!FreshTags, PP!FreshTags,
         P!IdleJob, PP!IdleJob, P!BlankManifest, PP!BlankManifest,
         P!LocalEtag, PP!LocalEtag, P!store, PP!store
<1>5. P!Check <=> PP!Check
  BY DEF P!Check, PP!Check, P!Running, PP!Running, P!ShouldIngest,
         PP!ShouldIngest, P!CheckOutcome, PP!CheckOutcome, P!Finish,
         PP!Finish, P!IdleJob, PP!IdleJob, P!BlankManifest, PP!BlankManifest,
         P!store, PP!store
<1>6. P!CheckFails <=> PP!CheckFails
  BY DEF P!CheckFails, PP!CheckFails, P!Running, PP!Running, P!Fault,
         PP!Fault, P!CheckOutcome, PP!CheckOutcome, P!Finish, PP!Finish,
         P!IdleJob, PP!IdleJob, P!BlankManifest, PP!BlankManifest, P!store,
         PP!store
<1>7. P!HeadObject <=> PP!HeadObject
  BY DEF P!HeadObject, PP!HeadObject, P!Running, PP!Running, P!UpToDate,
         PP!UpToDate, P!StartOffset, PP!StartOffset, P!OldTotal, PP!OldTotal,
         P!Finish, PP!Finish, P!IdleJob, PP!IdleJob, P!BlankManifest,
         PP!BlankManifest, P!store, PP!store
<1>8. P!HeadFails <=> PP!HeadFails
  BY DEF P!HeadFails, PP!HeadFails, P!Running, PP!Running, P!Fault, PP!Fault,
         P!Finish, PP!Finish, P!IdleJob, PP!IdleJob, P!BlankManifest,
         PP!BlankManifest, P!store, PP!store
<1>9. P!GetObject <=> PP!GetObject
  BY DEF P!GetObject, PP!GetObject, P!Running, PP!Running, P!UsedTags,
         PP!UsedTags, P!FreshTags, PP!FreshTags, P!S3Box, PP!S3Box, P!store,
         PP!store
<1>10. P!GetFails <=> PP!GetFails
  BY DEF P!GetFails, PP!GetFails, P!Running, PP!Running, P!Fault, PP!Fault,
         P!Finish, PP!Finish, P!IdleJob, PP!IdleJob, P!BlankManifest,
         PP!BlankManifest, P!store, PP!store
<1>11. P!ParseNext <=> PP!ParseNext
  BY DEF P!ParseNext, PP!ParseNext, P!Running, PP!Running, P!NextRecord,
         PP!NextRecord, P!ParseMessage, PP!ParseMessage, P!KeyOf, PP!KeyOf,
         P!Wanted, PP!Wanted, P!store, PP!store
<1>12. P!ParseAborts <=> PP!ParseAborts
  BY DEF P!ParseAborts, PP!ParseAborts, P!Running, PP!Running, P!Finish,
         PP!Finish, P!IdleJob, PP!IdleJob, P!BlankManifest, PP!BlankManifest,
         P!store, PP!store
<1>13. P!ParseEnd <=> PP!ParseEnd
  BY DEF P!ParseEnd, PP!ParseEnd, P!Running, PP!Running, P!store, PP!store
<1>14. P!InsertRow <=> PP!InsertRow
  BY DEF P!InsertRow, PP!InsertRow, P!Running, PP!Running, P!InsertOrReplace,
         PP!InsertOrReplace
<1>15. P!RejectRow <=> PP!RejectRow
  BY DEF P!RejectRow, PP!RejectRow, P!Running, PP!Running, P!Fault, PP!Fault,
         P!store, PP!store
<1>16. P!BatchDone <=> PP!BatchDone
  BY DEF P!BatchDone, PP!BatchDone, P!Running, PP!Running, P!Checkpoint,
         PP!Checkpoint, P!OldTotal, PP!OldTotal, P!store, PP!store
<1>17. P!Count <=> PP!Count
  BY DEF P!Count, PP!Count, P!Running, PP!Running, P!store, PP!store,
         P!Cardinality, PP!Cardinality, P!IsFiniteSet, PP!IsFiniteSet
<1>18. P!SaveDelete <=> PP!SaveDelete
  BY DEF P!SaveDelete, PP!SaveDelete, P!Running, PP!Running
<1>19. P!SaveInsert <=> PP!SaveInsert
  BY DEF P!SaveInsert, PP!SaveInsert, P!Running, PP!Running
<1>20. P!CreateFts <=> PP!CreateFts
  BY DEF P!CreateFts, PP!CreateFts, P!Running, PP!Running, P!Done, PP!Done,
         P!Finish, PP!Finish, P!IdleJob, PP!IdleJob, P!BlankManifest,
         PP!BlankManifest
<1>21. P!FtsFails <=> PP!FtsFails
  BY DEF P!FtsFails, PP!FtsFails, P!Running, PP!Running, P!Fault, PP!Fault,
         P!Done, PP!Done, P!Finish, PP!Finish, P!IdleJob, PP!IdleJob,
         P!BlankManifest, PP!BlankManifest
<1>22. P!Crash <=> PP!Crash
  BY DEF P!Crash, PP!Crash, P!Running, PP!Running, P!Fault, PP!Fault,
         P!Finish, PP!Finish, P!IdleJob, PP!IdleJob, P!BlankManifest,
         PP!BlankManifest, P!store, PP!store
<1>23. P!StatementRaises <=> PP!StatementRaises
  BY DEF P!StatementRaises, PP!StatementRaises, P!ShouldIngest, PP!ShouldIngest,
         P!Running, PP!Running, P!Fault, PP!Fault, P!Finish, PP!Finish, P!IdleJob,
         PP!IdleJob, P!BlankManifest, PP!BlankManifest, P!store, PP!store
<1>24. P!StartRaises <=> PP!StartRaises
  BY DEF P!StartRaises, PP!StartRaises, P!Running, PP!Running, P!Fault, PP!Fault,
         P!Finish, PP!Finish, P!IdleJob, PP!IdleJob, P!BlankManifest,
         PP!BlankManifest, P!store, PP!store
<1> QED BY <1>1, <1>2, <1>3, <1>4, <1>5, <1>6, <1>7, <1>8, <1>9, <1>10, <1>11,
           <1>12, <1>13, <1>14, <1>15, <1>16, <1>17, <1>18, <1>19, <1>20,
           <1>21, <1>22, <1>23, <1>24

\* So are their steps.
LEMMA SameStep == [P!Next]_(P!vars) <=> [PP!Next]_(PP!vars)
<1>1. P!Next <=> PP!Next
  BY SameActions DEF P!Next, PP!Next, P!Start, PP!Start, P!JobStep, PP!JobStep,
                     P!Failure, PP!Failure
<1>2. P!vars = PP!vars /\ P!vars' = PP!vars'
  BY DEF P!vars, PP!vars, P!store, PP!store
<1> QED BY <1>1, <1>2

\* They begin in the same states.
LEMMA SameInit == P!Init <=> PP!Init
BY DEF P!Init, PP!Init, P!IdleJob, PP!IdleJob, P!BlankManifest, PP!BlankManifest

-----------------------------------------------------------------------------
(* The stream *)

\* Throttling, retries and chunks change the stream and nothing else.
LEMMA StreamMoves ==
    ASSUME stream \in Streams, stream.read <= stream.size, NEW n \in Nat,
           stream.pc # "body" => stream.read = 0,
           Served(n) \/ Throttled \/ Wakes \/ ReadChunk
    PROVE  /\ stream' \in Streams /\ stream'.read <= stream'.size
           /\ stream'.pc # "body" => stream'.read = 0
           /\ stream'.pc = "body" => \/ Served(n) /\ stream'.size = n
                                     \/ stream.pc = "body" /\ stream'.size = stream.size
<1>1. CASE Served(n)
  <2>1. /\ stream'.pc = "body" /\ stream'.attempt = stream.attempt
        /\ stream'.size = n /\ stream'.read = stream.read
        /\ stream' \in Streams
    BY <1>1 DEF Served, Streams
  <2>2. stream'.read <= n
    BY <1>1, <2>1 DEF Served
  <2> QED BY <1>1, <2>1, <2>2
<1>2. CASE Throttled
  BY <1>2 DEF Throttled, Streams
<1>3. CASE Wakes
  <2>1. stream.attempt \in Nat /\ stream.attempt + 1 \in Nat
    BY DEF Streams
  <2>2. stream' = [stream EXCEPT !.pc = "call", !.attempt = stream.attempt + 1]
    BY <1>3 DEF Wakes
  <2>3. /\ stream'.pc = "call" /\ stream'.read = stream.read /\ stream'.size = stream.size
        /\ stream.pc = "sleep"
    BY <1>3, <2>2 DEF Wakes, Streams
  <2>4. stream' \in Streams
    BY <2>1, <2>2 DEF Streams
  <2> QED BY <2>3, <2>4
<1>4. CASE ReadChunk
  <2>1. PICK k \in stream.read + 1 .. stream.size : stream' = [stream EXCEPT !.read = k]
    BY <1>4 DEF ReadChunk
  <2>2. k \in Nat /\ k <= stream.size
    BY <2>1 DEF Streams
  <2>3. /\ stream'.pc = stream.pc /\ stream.pc = "body"
        /\ stream'.size = stream.size /\ stream'.read = k
        /\ stream' \in Streams
    BY <1>4, <2>1, <2>2 DEF ReadChunk, Streams
  <2> QED BY <2>2, <2>3
<1> QED BY <1>1, <1>2, <1>3, <1>4

\* The ETag under work is no newer than the archive.
LEMMA EtagInPast ==
    ASSUME PP!IngestionInv, job.pc = "get"
    PROVE  job.new.etag \in Nat /\ archive \in Nat /\ job.new.etag <= archive
<1>1. PP!BoxCoversEtag /\ PP!TypeOK
  BY DEF PP!IngestionInv
<1>2. archive \in Nat
  BY <1>1, ServiceAssumption DEF PP!TypeOK, P!ArchiveAssumption
<1> QED BY <1>1, <1>2 DEF PP!BoxCoversEtag, PP!Running

\* What is served was written after the ETag, and a run that ends leaves no
\* stream behind.
LEMMA StreamFollowsStep ==
    /\ PP!IngestionInv /\ HolderInside /\ CallerRuns /\ JobHasCaller /\ StreamFollows
    /\ [ServiceNext]_serviceVars
    => StreamFollows'
<1> SUFFICES ASSUME PP!IngestionInv, HolderInside, CallerRuns, JobHasCaller, StreamFollows,
                    [ServiceNext]_serviceVars
             PROVE  StreamFollows'
    OBVIOUS
<1>0. Unread \in Streams /\ Unread.read <= Unread.size /\ Unread.pc # "body" /\ Unread.read = 0
  BY DEF Unread, Streams
<1>1. ASSUME NEW r \in Requests, ServiceThread(r) PROVE StreamFollows'
  <2>1. CASE Outside(r) \/ SetupFails(r) \/ LeaveRun(r)
    BY <2>1 DEF Outside, SetupFails, LeaveRun, pipeline, StreamFollows
  <2>2. CASE EnterRun(r)
    <3>1. stream = Unread /\ stream' = Unread
      BY <2>2, EntersAlone DEF EnterRun, StreamFollows
    <3> QED BY <1>0, <3>1 DEF StreamFollows
  <2>3. CASE RunStatement(r)
    <3>1. job.pc # "get"
      BY <2>3 DEF RunStatement, P!HeadObject, P!HeadFails, P!ParseNext, P!ParseAborts,
                  P!ParseEnd, P!InsertRow, P!RejectRow, P!BatchDone, P!Count,
                  P!SaveDelete, P!SaveInsert, P!CreateFts, P!FtsFails, P!StatementRaises,
                  P!Running
    <3>2. stream = Unread /\ stream' = Unread
      BY <2>3, <3>1 DEF RunStatement, StreamFollows
    <3> QED BY <1>0, <3>2 DEF StreamFollows
  <2>4. CASE StreamStep(r)
    <3>1. CASE Raises
      BY <1>0, <3>1 DEF Raises, StreamFollows
    <3>2. CASE ~Raises
      <4>1. /\ Served(archive) \/ Throttled \/ Wakes \/ ReadChunk
            /\ UNCHANGED pipeline
            /\ job.pc = "get"
        BY <2>4, <3>2 DEF StreamStep
      <4>2. job.new.etag \in Nat /\ archive \in Nat /\ job.new.etag <= archive
        BY <4>1, EtagInPast
      <4>3. /\ stream' \in Streams /\ stream'.read <= stream'.size
            /\ stream'.pc # "body" => stream'.read = 0
            /\ stream'.pc = "body" => \/ stream'.size = archive
                                      \/ stream.pc = "body" /\ stream'.size = stream.size
        BY <4>1, <4>2, StreamMoves DEF StreamFollows
      <4>4. job' = job /\ archive' = archive
        BY <4>1 DEF pipeline
      <4> QED BY <4>1, <4>2, <4>3, <4>4 DEF StreamFollows
    <3> QED BY <3>1, <3>2
  <2>5. CASE StreamEnds(r)
    BY <1>0, <2>5 DEF StreamEnds, EndOfBody, StreamFollows
  <2> QED BY <1>1, <2>1, <2>2, <2>3, <2>4, <2>5 DEF ServiceThread
<1>2. CASE ServerRestart
  BY <1>0, <1>2 DEF ServerRestart, StreamFollows
<1>3. CASE ArchiveGrows
  <2>1. job' = job /\ stream' = stream /\ archive' = archive + 1
    BY <1>3 DEF ArchiveGrows, P!ArchiveGrows
  <2>2. CASE job.pc # "get"
    BY <1>0, <2>1, <2>2 DEF StreamFollows
  <2>3. CASE job.pc = "get"
    <3>1. job.new.etag \in Nat /\ archive \in Nat /\ stream.size \in Nat
      BY <2>3, EtagInPast DEF StreamFollows, Streams
    <3> QED BY <2>1, <2>3, <3>1 DEF StreamFollows
  <2> QED BY <2>2, <2>3
<1>4. CASE ReadManifest \/ AnswerStatus \/ UNCHANGED serviceVars
  BY <1>4 DEF ReadManifest, AnswerStatus, serviceVars, pipeline, StreamFollows
<1> QED BY <1>1, <1>2, <1>3, <1>4 DEF ServiceNext

-----------------------------------------------------------------------------
(* The service implements Ingestion *)

\* A body read to its end is a whole object, no older than the ETag.
LEMMA WholeObject ==
    ASSUME PP!IngestionInv, StreamFollows, NEW r \in Requests, StreamEnds(r)
    PROVE  P!GetObject
<1> DEFINE n == stream.read
<1>1. n \in 0..archive /\ job.new.etag <= n
  <2>1. job.new.etag \in Nat /\ archive \in Nat
    BY EtagInPast DEF StreamEnds
  <2> QED BY <2>1 DEF StreamEnds, EndOfBody, StreamFollows, Streams
<1>2. PICK t \in P!FreshTags :
        /\ \A u \in P!FreshTags : t <= u
        /\ job' = [job EXCEPT !.pc = "parse", !.box = P!S3Box(n), !.tag = t]
  BY DEF StreamEnds
<1>3. UNCHANGED <<archive, P!store, rejected, report, faults>> /\ P!Running("get")
  BY DEF StreamEnds, P!store, P!Running
<1> QED BY <1>1, <1>2, <1>3 DEF P!GetObject

\* Every step of the service is one of the pipeline, or none.
LEMMA ServiceImplements ==
    /\ PP!IngestionInv /\ HolderInside /\ Joined
    /\ [ServiceNext]_serviceVars
    => [P!Next]_(P!vars)
<1> SUFFICES ASSUME PP!IngestionInv, HolderInside, Joined, [ServiceNext]_serviceVars
             PROVE  [P!Next]_(P!vars)
    OBVIOUS
<1>0. UNCHANGED pipeline => UNCHANGED P!vars
  BY DEF pipeline, P!vars, P!store
<1>1. ASSUME NEW r \in Requests, ServiceThread(r) PROVE [P!Next]_(P!vars)
  <2>1. CASE Outside(r) \/ SetupFails(r) \/ LeaveRun(r)
    BY <1>0, <2>1 DEF Outside, SetupFails, LeaveRun
  <2>2. CASE EnterRun(r)
    <3>1. job.pc = "idle"
      BY <2>2, EntersAlone DEF EnterRun, Joined
    <3>2. (r \in Forced) \in Forces /\ "api" \in Starts
      BY ServiceAssumption
    <3>3. P!StartApi(r \in Forced)
      BY <2>2, <3>1, <3>2 DEF EnterRun, P!StartApi, P!Running, P!store
    <3> QED BY <3>2, <3>3 DEF P!Next, P!Start
  <2>3. CASE RunStatement(r)
    BY <2>3 DEF RunStatement, P!Next, P!JobStep, P!Failure
  <2>4. CASE StreamStep(r)
    BY <1>0, <2>4 DEF StreamStep, P!Next, P!Failure
  <2>5. CASE StreamEnds(r)
    BY <2>5, WholeObject DEF Joined, P!Next, P!JobStep
  <2> QED BY <1>1, <2>1, <2>2, <2>3, <2>4, <2>5 DEF ServiceThread
<1>2. CASE ServerRestart
  BY <1>0, <1>2 DEF ServerRestart, P!Next, P!Failure
<1>3. CASE ArchiveGrows
  BY <1>3 DEF ArchiveGrows, P!Next
<1>4. CASE ReadManifest \/ AnswerStatus \/ UNCHANGED serviceVars
  BY <1>0, <1>4 DEF ReadManifest, AnswerStatus, serviceVars
<1> QED BY <1>1, <1>2, <1>3, <1>4 DEF ServiceNext

-----------------------------------------------------------------------------
(* The invariant of the whole *)

\* The assumptions of the pipeline's results are those of the service.
LEMMA PipelineAssumptions == PP!ArchiveAssumption /\ PP!IngestionAssumption
BY ServiceAssumption
DEF P!ArchiveAssumption, PP!ArchiveAssumption, P!IngestionAssumption, PP!IngestionAssumption,
    P!Msg, PP!Msg, P!Kinds, PP!Kinds

ServiceInv ==
    /\ TriggerInv
    /\ Joined
    /\ PP!IngestionInv /\ PP!FiniteTable

\* It holds before the first request.
LEMMA ServiceInvInit == ServiceInit => ServiceInv
<1>1. ServiceInit => Init /\ PP!Init
  BY SameInit DEF ServiceInit
<1> QED BY <1>1, TriggerInit, JoinedInit, PP!InvInit, PipelineAssumptions DEF ServiceInv

\* Trigger, pipeline and what joins them keep each other.
LEMMA ServiceInvStep == ServiceInv /\ [ServiceNext]_serviceVars => ServiceInv'
<1> SUFFICES ASSUME ServiceInv, [ServiceNext]_serviceVars PROVE ServiceInv'
    OBVIOUS
<1>1. TriggerInv'
  BY ServiceIsTrigger, TriggerStep DEF ServiceInv
<1>2. PP!IngestionInv' /\ PP!FiniteTable'
  <2>1. [PP!Next]_(PP!vars)
    BY ServiceImplements, SameStep DEF ServiceInv, TriggerInv
  <2> QED BY <2>1, PP!InvStep, PipelineAssumptions DEF ServiceInv
<1>3. Joined'
  BY CallerStep, JobHasCallerStep, StreamFollowsStep DEF ServiceInv, Joined, TriggerInv
<1> QED BY <1>1, <1>2, <1>3 DEF ServiceInv

\* However triggers, queued threads, retries, faults and restarts interleave,
\* the database goes through a behaviour of Ingestion, in which one job runs at a
\* time: _ingestion_lock provides what the pipeline takes for granted.
THEOREM ServiceImplementsIngestion == ServiceSpec => RunsOfIngestion
<1>1. ServiceInv /\ [ServiceNext]_serviceVars => [P!Next]_(P!vars)
  BY ServiceImplements DEF ServiceInv, TriggerInv
<1>2. ServiceInit => P!Init
  BY DEF ServiceInit
<1> QED BY ServiceInvInit, ServiceInvStep, <1>1, <1>2, PTL
        DEF ServiceSpec, RunsOfIngestion, P!Spec

-----------------------------------------------------------------------------
(* Status answers *)

\* What has been, or is about to be, called completed.
Said == claimed \cup UNION inquiry

SaidHolds == \A e \in Said : \A n \in PP!EtagMessages(e) : PP!Handled(n)

\* What a manifest says of its archive is so when it is read, and stays so.
LEMMA SaidStep == ServiceInv /\ SaidHolds /\ [ServiceNext]_serviceVars => SaidHolds'
<1> SUFFICES ASSUME ServiceInv, SaidHolds, [ServiceNext]_serviceVars PROVE SaidHolds'
    OBVIOUS
<1>1. [PP!Next]_(PP!vars)
  BY ServiceImplements, SameStep DEF ServiceInv, TriggerInv
<1>2. ASSUME NEW n, PP!Handled(n) PROVE PP!Handled(n)'
  BY <1>1, <1>2, PP!HandledStays, PipelineAssumptions DEF ServiceInv, PP!IngestionInv
<1>3. Said' \subseteq Said \/ Said' \subseteq Said \cup CompletedAt(manifest)
  BY DEF ServiceNext, ServiceThread, Outside, SetupFails, EnterRun, RunStatement, StreamStep,
         StreamEnds, LeaveRun, ServerRestart, ArchiveGrows, ReadManifest, AnswerStatus,
         inquiries, serviceVars, Said
<1>4. \A e \in CompletedAt(manifest) : \A n \in PP!EtagMessages(e) : PP!Handled(n)
  BY DEF CompletedAt, ServiceInv, PP!IngestionInv, PP!CompletedCovers
<1>5. \A e \in Said' : \A n \in PP!EtagMessages(e) : PP!Handled(n)'
  BY <1>2, <1>3, <1>4 DEF SaidHolds
<1> QED BY <1>5 DEF SaidHolds

\* Once /api/ingestion/status has called an archive completed, each of its mails is
\* in the index or was refused and logged, for good: the answer can be relied on
\* although the manifest is read between two statements of a run.
THEOREM StatusClaimsHoldAlways == ServiceSpec => []StatusClaimsHold
<1>1. ServiceInit => SaidHolds
  BY DEF ServiceInit, SaidHolds, Said
<1>2. SaidHolds => StatusClaimsHold
  BY DEF SaidHolds, Said, StatusClaimsHold, P!EtagMessages, PP!EtagMessages, P!Handled,
         PP!Handled, P!Represented, PP!Represented, P!SameMail, PP!SameMail,
         P!LocalEtag, PP!LocalEtag
<1> QED BY ServiceInvInit, ServiceInvStep, SaidStep, <1>1, <1>2, PTL DEF ServiceSpec

-----------------------------------------------------------------------------
(* Types *)

\* The types of the pipeline are those of its own module.
LEMMA SameTypes == P!TypeOK <=> PP!TypeOK
<1>1. P!Manifest = PP!Manifest /\ P!Row = PP!Row /\ P!Msg = PP!Msg /\ P!Key = PP!Key
  BY DEF P!Manifest, PP!Manifest, P!Row, PP!Row, P!Msg, PP!Msg, P!Key, PP!Key, P!Etags,
         PP!Etags, P!LocalEtag, PP!LocalEtag
<1>2. P!Job = PP!Job
  BY <1>1 DEF P!Job, PP!Job, P!PCs, PP!PCs
<1> QED BY <1>1, <1>2 DEF P!TypeOK, PP!TypeOK, P!Reports, PP!Reports

InquiryTypes == inquiry \subseteq SUBSET P!Etags /\ claimed \subseteq P!Etags

\* Status requests handle ETags.
LEMMA InquiryStep ==
    PP!IngestionInv /\ InquiryTypes /\ [ServiceNext]_serviceVars => InquiryTypes'
<1> SUFFICES ASSUME PP!IngestionInv, InquiryTypes, [ServiceNext]_serviceVars
             PROVE  InquiryTypes'
    OBVIOUS
<1>1. CompletedAt(manifest) \subseteq P!Etags
  BY SameTypes DEF PP!IngestionInv, P!TypeOK, CompletedAt, P!Manifest
<1>2. \/ inquiry' = inquiry /\ claimed' = claimed
      \/ inquiry' = {CompletedAt(manifest)} /\ claimed' = claimed
      \/ inquiry' = {} /\ claimed' \in {claimed, UNION inquiry}
  BY DEF ServiceNext, ServiceThread, Outside, SetupFails, EnterRun, RunStatement, StreamStep,
         StreamEnds, LeaveRun, ServerRestart, ArchiveGrows, ReadManifest, AnswerStatus,
         inquiries, serviceVars
<1> QED BY <1>1, <1>2 DEF InquiryTypes

\* Threads, tables, stream and inquiry keep their types in every service.
THEOREM ServiceTypeCorrect == ServiceSpec => []ServiceTypeOK
<1>1. ServiceInit => InquiryTypes
  BY DEF ServiceInit, InquiryTypes
<1>2. ServiceInv /\ InquiryTypes /\ [ServiceNext]_serviceVars => InquiryTypes'
  BY InquiryStep DEF ServiceInv
<1>3. ServiceInv /\ InquiryTypes => ServiceTypeOK
  BY SameTypes DEF ServiceInv, TriggerInv, Joined, CallerRuns, StreamFollows,
                   PP!IngestionInv, InquiryTypes, ServiceTypeOK
<1> QED BY ServiceInvInit, ServiceInvStep, <1>1, <1>2, <1>3, PTL DEF ServiceSpec
==============================================================================
