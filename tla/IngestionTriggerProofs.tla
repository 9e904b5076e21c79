------------------------ MODULE IngestionTriggerProofs ------------------------
(* One run at a time, and a flag that tells the truth, for any requests. *)
EXTENDS IngestionTrigger, TLAPS

\* The thread inside the critical section is the holder of _ingestion_lock.
HolderInside == \A r \in Requests : pc[r] \in Inside <=> lock = r

\* The invariant that carries the argument: the lock decides who is inside, and
\* the flag follows the one who is.
TriggerInv == TypeOK /\ HolderInside /\ FlagMeansRun

\* The lock admits one thread, so two threads inside are one.
LEMMA HolderIsUnique == HolderInside => OneRunAtATime
BY DEF HolderInside, OneRunAtATime

\* The invariant holds before any request is handled.
LEMMA TriggerInit == Init => TriggerInv
<1> SUFFICES ASSUME Init PROVE TriggerInv
    OBVIOUS
<1>1. TypeOK
  <2>1. last \in [run: Requests \cup {None}, failed: BOOLEAN]
    BY DEF Init
  <2>2. pc \in [Requests -> PCs]
    BY DEF Init, PCs, Handler
  <2>3. /\ running \in BOOLEAN
        /\ {lock, error, progress} \subseteq Requests \cup {None}
    BY DEF Init
  <2>4. restarts \in 0..MaxRestarts
    BY TriggerAssumption DEF Init
  <2> QED BY <2>1, <2>2, <2>3, <2>4 DEF TypeOK
<1>2. HolderInside
  BY TriggerAssumption DEF Init, HolderInside, Inside
<1>3. FlagMeansRun
  BY DEF Init, FlagMeansRun, FlagUp, Inside
<1> QED BY <1>1, <1>2, <1>3 DEF TriggerInv

\* A restart is counted against its bound.
LEMMA RestartBound == restarts \in 0..MaxRestarts /\ Restart => restarts' \in 0..MaxRestarts
BY TriggerAssumption DEF Restart

\* Every step of a handler, a thread or a restart keeps the types.
LEMMA TypeStep == TypeOK /\ [Next]_vars => TypeOK'
<1> SUFFICES ASSUME TypeOK, [Next]_vars PROVE TypeOK'
    OBVIOUS
<1> USE TriggerAssumption DEF TypeOK, PCs, Handler, Inside, Over, Goto, status
<1>1. ASSUME NEW r \in Requests, Handle(r) PROVE TypeOK'
  <2>1. CASE Refuse(r)
    BY <2>1 DEF Refuse
  <2>2. CASE Accept(r)
    <3>1. CASE r \in WithBody
      BY <2>2, <3>1 DEF Accept
    <3>2. CASE r \notin WithBody
      BY <2>2, <3>2 DEF Accept
    <3> QED BY <3>1, <3>2
  <2>3. CASE StartThread(r)
    BY <2>3 DEF StartThread
  <2>4. CASE BodyFails(r)
    BY <2>4 DEF BodyFails
  <2> QED BY <1>1, <2>1, <2>2, <2>3, <2>4 DEF Handle
<1>2. ASSUME NEW r \in Requests, Thread(r) PROVE TypeOK'
  <2>1. CASE Acquire(r)
    BY <2>1 DEF Acquire
  <2>2. CASE RaiseFlag(r)
    BY <2>2 DEF RaiseFlag
  <2>3. CASE ClearError(r)
    BY <2>3 DEF ClearError
  <2>4. CASE RunReturns(r)
    BY <2>4 DEF RunReturns
  <2>5. CASE RunRaises(r)
    BY <2>5 DEF RunRaises
  <2>6. CASE PublishProgress(r)
    BY <2>6 DEF PublishProgress
  <2>7. CASE RecordError(r)
    BY <2>7 DEF RecordError
  <2>8. CASE LowerFlag(r)
    BY <2>8 DEF LowerFlag
  <2>9. CASE Release(r)
    BY <2>9 DEF Release
  <2> QED BY <1>2, <2>1, <2>2, <2>3, <2>4, <2>5, <2>6, <2>7, <2>8, <2>9 DEF Thread
<1>3. CASE Restart
  <2>1. last' \in [run: Requests \cup {None}, failed: BOOLEAN]
    BY <1>3 DEF Restart
  <2>2. pc' \in [Requests -> PCs]
    BY <1>3 DEF Restart
  <2>3. /\ running' \in BOOLEAN
        /\ {lock', error', progress'} \subseteq Requests \cup {None}
    BY <1>3 DEF Restart
  <2>4. restarts' \in 0..MaxRestarts
    BY <1>3, RestartBound
  <2> QED BY <2>1, <2>2, <2>3, <2>4
<1>4. CASE UNCHANGED vars
  BY <1>4 DEF vars
<1> QED BY <1>1, <1>2, <1>3, <1>4 DEF Next

\* Only the holder of the lock enters or leaves the section.
LEMMA HolderStep == TypeOK /\ HolderInside /\ [Next]_vars => HolderInside'
<1> SUFFICES ASSUME TypeOK, HolderInside, [Next]_vars PROVE HolderInside'
    OBVIOUS
<1> USE TriggerAssumption DEF TypeOK, HolderInside, PCs, Handler, Inside, Over, Goto, status
<1>1. ASSUME NEW r \in Requests, Handle(r) PROVE HolderInside'
  <2>1. CASE Refuse(r)
    BY <2>1 DEF Refuse
  <2>2. CASE Accept(r)
    <3>1. CASE r \in WithBody
      BY <2>2, <3>1 DEF Accept
    <3>2. CASE r \notin WithBody
      BY <2>2, <3>2 DEF Accept
    <3> QED BY <3>1, <3>2
  <2>3. CASE StartThread(r)
    BY <2>3 DEF StartThread
  <2>4. CASE BodyFails(r)
    BY <2>4 DEF BodyFails
  <2> QED BY <1>1, <2>1, <2>2, <2>3, <2>4 DEF Handle
<1>2. ASSUME NEW r \in Requests, Thread(r) PROVE HolderInside'
  <2>1. CASE Acquire(r)
    BY <2>1 DEF Acquire
  <2>2. CASE RaiseFlag(r)
    BY <2>2 DEF RaiseFlag
  <2>3. CASE ClearError(r)
    BY <2>3 DEF ClearError
  <2>4. CASE RunReturns(r)
    BY <2>4 DEF RunReturns
  <2>5. CASE RunRaises(r)
    BY <2>5 DEF RunRaises
  <2>6. CASE PublishProgress(r)
    BY <2>6 DEF PublishProgress
  <2>7. CASE RecordError(r)
    BY <2>7 DEF RecordError
  <2>8. CASE LowerFlag(r)
    BY <2>8 DEF LowerFlag
  <2>9. CASE Release(r)
    BY <2>9 DEF Release
  <2> QED BY <1>2, <2>1, <2>2, <2>3, <2>4, <2>5, <2>6, <2>7, <2>8, <2>9 DEF Thread
<1>3. CASE Restart
  BY <1>3 DEF Restart
<1>4. CASE UNCHANGED vars
  BY <1>4 DEF vars
<1> QED BY <1>1, <1>2, <1>3, <1>4 DEF Next

\* The flag moves with the thread that holds the lock.
LEMMA FlagStep == TypeOK /\ HolderInside /\ FlagMeansRun /\ [Next]_vars => FlagMeansRun'
<1> SUFFICES ASSUME TypeOK, HolderInside, FlagMeansRun, [Next]_vars PROVE FlagMeansRun'
    OBVIOUS
<1> USE TriggerAssumption DEF TypeOK, HolderInside, FlagMeansRun, FlagUp, PCs, Handler, Inside, Over, Goto, status
<1>1. ASSUME NEW r \in Requests, Handle(r) PROVE FlagMeansRun'
  <2>1. CASE Refuse(r)
    BY <2>1 DEF Refuse
  <2>2. CASE Accept(r)
    <3>1. CASE r \in WithBody
      BY <2>2, <3>1 DEF Accept
    <3>2. CASE r \notin WithBody
      BY <2>2, <3>2 DEF Accept
    <3> QED BY <3>1, <3>2
  <2>3. CASE StartThread(r)
    BY <2>3 DEF StartThread
  <2>4. CASE BodyFails(r)
    BY <2>4 DEF BodyFails
  <2> QED BY <1>1, <2>1, <2>2, <2>3, <2>4 DEF Handle
<1>2. ASSUME NEW r \in Requests, Thread(r) PROVE FlagMeansRun'
  <2>1. CASE Acquire(r)
    BY <2>1 DEF Acquire
  <2>2. CASE RaiseFlag(r)
    BY <2>2 DEF RaiseFlag
  <2>3. CASE ClearError(r)
    BY <2>3 DEF ClearError
  <2>4. CASE RunReturns(r)
    BY <2>4 DEF RunReturns
  <2>5. CASE RunRaises(r)
    BY <2>5 DEF RunRaises
  <2>6. CASE PublishProgress(r)
    BY <2>6 DEF PublishProgress
  <2>7. CASE RecordError(r)
    BY <2>7 DEF RecordError
  <2>8. CASE LowerFlag(r)
    BY <2>8 DEF LowerFlag
  <2>9. CASE Release(r)
    BY <2>9 DEF Release
  <2> QED BY <1>2, <2>1, <2>2, <2>3, <2>4, <2>5, <2>6, <2>7, <2>8, <2>9 DEF Thread
<1>3. CASE Restart
  BY <1>3 DEF Restart
<1>4. CASE UNCHANGED vars
  BY <1>4 DEF vars
<1> QED BY <1>1, <1>2, <1>3, <1>4 DEF Next

\* Where the error of the last run is while the next one is under way.
LastError == IF last.failed THEN last.run ELSE None

ErrorFollows ==
    /\ \A r \in Requests :
          /\ pc[r] \in {"run", "publish"} => error = None
          /\ pc[r] = "publish" => ~last.failed
          /\ pc[r] = "record" => last.failed /\ last.run = r
    /\ (\A r \in Requests : pc[r] \notin {"run", "publish", "record"}) => error = LastError

\* The error is cleared, kept or recorded by the thread that holds the lock.
LEMMA ErrorStep ==
    TypeOK /\ HolderInside /\ ErrorFollows /\ [Next]_vars => ErrorFollows'
<1> SUFFICES ASSUME TypeOK, HolderInside, ErrorFollows, [Next]_vars PROVE ErrorFollows'
    OBVIOUS
<1> USE TriggerAssumption DEF TypeOK, HolderInside, ErrorFollows, LastError, PCs, Handler,
                              Inside, Over, Goto, status
<1>1. ASSUME NEW r \in Requests, Handle(r) PROVE ErrorFollows'
  <2>1. CASE Refuse(r)
    BY <2>1 DEF Refuse
  <2>2. CASE Accept(r)
    <3>1. CASE r \in WithBody
      BY <2>2, <3>1 DEF Accept
    <3>2. CASE r \notin WithBody
      BY <2>2, <3>2 DEF Accept
    <3> QED BY <3>1, <3>2
  <2>3. CASE StartThread(r)
    BY <2>3 DEF StartThread
  <2>4. CASE BodyFails(r)
    BY <2>4 DEF BodyFails
  <2> QED BY <1>1, <2>1, <2>2, <2>3, <2>4 DEF Handle
<1>2. ASSUME NEW r \in Requests, Thread(r) PROVE ErrorFollows'
  <2>1. CASE Acquire(r)
    BY <2>1 DEF Acquire
  <2>2. CASE RaiseFlag(r)
    BY <2>2 DEF RaiseFlag
  <2>3. CASE ClearError(r)
    BY <2>3 DEF ClearError
  <2>4. CASE RunReturns(r)
    BY <2>4 DEF RunReturns
  <2>5. CASE RunRaises(r)
    BY <2>5 DEF RunRaises
  <2>6. CASE PublishProgress(r)
    BY <2>6 DEF PublishProgress
  <2>7. CASE RecordError(r)
    BY <2>7 DEF RecordError
  <2>8. CASE LowerFlag(r)
    BY <2>8 DEF LowerFlag
  <2>9. CASE Release(r)
    BY <2>9 DEF Release
  <2> QED BY <1>2, <2>1, <2>2, <2>3, <2>4, <2>5, <2>6, <2>7, <2>8, <2>9 DEF Thread
<1>3. CASE Restart
  BY <1>3 DEF Restart
<1>4. CASE UNCHANGED vars
  BY <1>4 DEF vars
<1> QED BY <1>1, <1>2, <1>3, <1>4 DEF Next

\* Together: the invariant is inductive.
LEMMA TriggerStep == TriggerInv /\ [Next]_vars => TriggerInv'
BY TypeStep, HolderStep, FlagStep DEF TriggerInv

\* The state of the endpoint keeps its type, whatever the requests do.
THEOREM TriggerTypeCorrect == Spec => []TypeOK
<1>1. TriggerInv => TypeOK
  BY DEF TriggerInv
<1> QED BY TriggerInit, TriggerStep, <1>1, PTL DEF Spec

\* Two ingestion pipelines never run at once in a server, for any number of
\* triggers, of which any number may have passed the check of the flag.
THEOREM OneRunAtATimeAlways == Spec => []OneRunAtATime
<1>1. TriggerInv => OneRunAtATime
  BY HolderIsUnique DEF TriggerInv
<1> QED BY TriggerInit, TriggerStep, <1>1, PTL DEF Spec

\* _ingestion_status["running"] is up exactly while a thread is in its run.
THEOREM FlagMeansRunAlways == Spec => []FlagMeansRun
<1>1. TriggerInv => FlagMeansRun
  BY DEF TriggerInv
<1> QED BY TriggerInit, TriggerStep, <1>1, PTL DEF Spec

\* Between runs the error shown is that of the run that ended last.
LEMMA ErrorInit == Init => ErrorFollows
BY TriggerAssumption DEF Init, ErrorFollows, LastError

\* Whatever order requests, runs, failures and restarts come in, a status between
\* two runs shows the error of the last one, and none if it succeeded.
THEOREM ErrorOfLastRunAlways == Spec => []ErrorOfLastRun
<1>1. ErrorFollows => ErrorOfLastRun
  BY DEF ErrorFollows, ErrorOfLastRun, LastError, Inside
<1>2. TriggerInv /\ ErrorFollows /\ [Next]_vars => ErrorFollows'
  BY ErrorStep DEF TriggerInv
<1> QED BY TriggerInit, TriggerStep, ErrorInit, <1>1, <1>2, PTL DEF Spec

-----------------------------------------------------------------------------
(* How a started run comes to its end *)

\* The statements of a request and of its thread, in the order they come.
Place(p) ==
    CASE p = "new"     -> 0
      [] p = "body"    -> 1
      [] p = "queued"  -> 2
      [] p = "raise"   -> 3
      [] p = "clear"   -> 4
      [] p = "run"     -> 5
      [] p = "publish" -> 6
      [] p = "record"  -> 6
      [] p = "lower"   -> 7
      [] p = "release" -> 8
      [] p = "refused" -> 9
      [] p = "done"    -> 9
      [] p = "dead"    -> 9

\* A thread that waits for _ingestion_lock finds it free, or waits for a thread that
\* is inside and waits for nothing.
WaitsForRun == \A r \in Requests : pc[r] = "queued" => lock = None \/ pc[lock] \in Inside

\* The places of the statements.
LEMMA Places ==
    /\ Place("new") = 0 /\ Place("body") = 1 /\ Place("queued") = 2 /\ Place("raise") = 3
    /\ Place("clear") = 4 /\ Place("run") = 5 /\ Place("publish") = 6
    /\ Place("record") = 6 /\ Place("lower") = 7 /\ Place("release") = 8
    /\ Place("refused") = 9 /\ Place("done") = 9 /\ Place("dead") = 9
<1>1. /\ Place("new") = 0 /\ Place("body") = 1 /\ Place("queued") = 2 /\ Place("raise") = 3
      /\ Place("clear") = 4
  BY DEF Place
<1>2. Place("run") = 5 /\ Place("publish") = 6 /\ Place("record") = 6
  BY DEF Place
<1>3. Place("lower") = 7 /\ Place("release") = 8
  BY DEF Place
<1>4. Place("refused") = 9 /\ Place("done") = 9 /\ Place("dead") = 9
  BY DEF Place
<1> QED BY <1>1, <1>2, <1>3, <1>4

\* One request goes from one statement to a later one.
LEMMA GotoForward ==
    ASSUME TypeOK, NEW r \in Requests, NEW p, NEW q, Goto(r, p, q), Place(p) < Place(q)
    PROVE  \A s \in Requests : pc'[s] = pc[s] \/ Place(pc[s]) < Place(pc'[s])
<1>1. pc[r] = p /\ pc'[r] = q
  BY DEF Goto, TypeOK
<1>2. \A s \in Requests \ {r} : pc'[s] = pc[s]
  BY DEF Goto, TypeOK
<1> QED BY <1>1, <1>2

\* Every step of a handler and of a thread brings one request forward.
LEMMA StepForward ==
    ASSUME TypeOK, NEW r \in Requests, Handle(r) \/ Thread(r)
    PROVE  \E p, q : Goto(r, p, q) /\ Place(p) < Place(q)
<1>1. CASE Handle(r)
  <2>1. \/ Goto(r, "new", "refused") \/ Goto(r, "new", "body") \/ Goto(r, "new", "queued")
        \/ Goto(r, "body", "queued") \/ Goto(r, "body", "refused")
    BY <1>1 DEF Handle, Refuse, Accept, StartThread, BodyFails
  <2> QED BY <2>1, Places
<1>2. CASE Thread(r)
  <2>1. \/ Goto(r, "queued", "raise") \/ Goto(r, "raise", "clear") \/ Goto(r, "clear", "run")
        \/ Goto(r, "run", "publish") \/ Goto(r, "run", "record")
        \/ Goto(r, "publish", "lower") \/ Goto(r, "record", "lower")
        \/ Goto(r, "lower", "release") \/ Goto(r, "release", "done")
    BY <1>2 DEF Thread, Acquire, RaiseFlag, ClearError, RunReturns, RunRaises,
                PublishProgress, RecordError, LowerFlag, Release
  <2> QED BY <2>1, Places
<1> QED BY <1>1, <1>2

\* Whoever is told "started" waits for the lock only while a run is inside, and no
\* step takes a request or its thread back: it is over after at most nine of them.
\* StartedRunsEnd follows where a thread that can go on does.
THEOREM TriggersGoForward ==
    Spec => /\ []WaitsForRun
            /\ [][\A r \in Requests : pc'[r] = pc[r] \/ Place(pc[r]) < Place(pc'[r])]_vars
<1>1. TriggerInv => WaitsForRun
  BY DEF TriggerInv, TypeOK, HolderInside, WaitsForRun
<1>2. TriggerInv /\ [Next]_vars
        => [\A r \in Requests : pc'[r] = pc[r] \/ Place(pc[r]) < Place(pc'[r])]_vars
  <2> SUFFICES ASSUME TriggerInv, [Next]_vars
               PROVE  \A s \in Requests : pc'[s] = pc[s] \/ Place(pc[s]) < Place(pc'[s])
    OBVIOUS
  <2>1. TypeOK
    BY DEF TriggerInv
  <2>2. ASSUME NEW r \in Requests, Handle(r) \/ Thread(r)
        PROVE  \A s \in Requests : pc'[s] = pc[s] \/ Place(pc[s]) < Place(pc'[s])
    BY <2>1, <2>2, StepForward, GotoForward
  <2>3. CASE Restart
    <3> TAKE s \in Requests
    <3>1. pc'[s] = IF pc[s] \in {"new", "refused", "done"} THEN pc[s] ELSE "dead"
      BY <2>3 DEF Restart
    <3>2. pc[s] \in {"body", "queued"} \cup Inside => Place(pc[s]) < 9
      BY Places DEF Inside
    <3>3. pc[s] \in {"new", "refused", "done", "dead", "body", "queued"} \cup Inside
      BY <2>1 DEF TypeOK, PCs, Handler, Over
    <3>4. CASE pc[s] \in {"new", "refused", "done", "dead"}
      BY <3>1, <3>4
    <3>5. CASE pc[s] \in {"body", "queued"} \cup Inside
      <4>1. pc'[s] = "dead"
        BY <3>1, <3>5 DEF Inside
      <4>2. Place(pc'[s]) = 9
        BY <4>1, Places
      <4> QED BY <3>2, <3>5, <4>2
    <3> QED BY <3>3, <3>4, <3>5
  <2>4. CASE UNCHANGED pc
    BY <2>4
  <2> QED BY <2>2, <2>3, <2>4 DEF Next, vars
<1> QED BY <1>1, <1>2, TriggerInit, TriggerStep, PTL DEF Spec
==============================================================================
