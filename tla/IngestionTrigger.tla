--------------------------- MODULE IngestionTrigger ---------------------------
(***************************************************************************)
(* POST /api/ingestion/trigger: the handlers run on the event loop, each   *)
(* started run in a daemon thread of its own.  They share _ingestion_lock  *)
(* and the dictionary _ingestion_status.  What a run does is in Ingestion; *)
(* here it returns or raises.                                              *)
(***************************************************************************)
EXTENDS Naturals, FiniteSets

CONSTANTS
    Requests,      \* calls of the endpoint
    WithBody,      \* those sent as application/json: the handler awaits them
    None,          \* stands for no request
    MaxRestarts    \* bound on the restarts of the server

ASSUME TriggerAssumption ==
    /\ WithBody \subseteq Requests
    /\ None \notin Requests
    /\ MaxRestarts \in Nat

VARIABLES
    pc,         \* where each request, then its thread, stands
    lock,       \* holder of _ingestion_lock
    running,    \* _ingestion_status["running"]
    error,      \* the run whose exception is in _ingestion_status["error"]
    progress,   \* the run whose counts are in _ingestion_status["progress"]
    last,       \* the run that ended last in this process, and how
    restarts

status == <<running, error, progress>>
vars == <<pc, lock, status, last, restarts>>

Handler == {"new", "body", "refused"}
Inside == {"raise", "clear", "run", "publish", "record", "lower", "release"}
Over == {"done", "dead"}
PCs == Handler \cup {"queued"} \cup Inside \cup Over

Init ==
    /\ pc = [r \in Requests |-> "new"]
    /\ lock = None
    /\ running = FALSE
    /\ error = None
    /\ progress = None
    /\ last = [run |-> None, failed |-> FALSE]
    /\ restarts = 0

Goto(r, from, to) == pc[r] = from /\ pc' = [pc EXCEPT ![r] = to]

-----------------------------------------------------------------------------
\* The handler up to its await: it refuses while a run is flagged.  Without a
\* JSON body there is nothing to await and the thread starts at once.
Refuse(r) ==
    /\ running
    /\ Goto(r, "new", "refused")
    /\ UNCHANGED <<lock, status, last, restarts>>

Accept(r) ==
    /\ ~running
    /\ Goto(r, "new", IF r \in WithBody THEN "body" ELSE "queued")
    /\ UNCHANGED <<lock, status, last, restarts>>

\* The body has arrived; the flag is not looked at again.
StartThread(r) ==
    /\ Goto(r, "body", "queued")
    /\ UNCHANGED <<lock, status, last, restarts>>

\* It is no JSON object: the client gets a 500.
BodyFails(r) ==
    /\ Goto(r, "body", "refused")
    /\ UNCHANGED <<lock, status, last, restarts>>

-----------------------------------------------------------------------------
\* Mutant of Acquire: the lock is not looked at.
AcquireAnyway(r) ==
    /\ Goto(r, "queued", "raise")
    /\ lock' = r
    /\ UNCHANGED <<status, last, restarts>>

\* _run_ingestion.
Acquire(r) ==
    /\ lock = None
    /\ Goto(r, "queued", "raise")
    /\ lock' = r
    /\ UNCHANGED <<status, last, restarts>>

RaiseFlag(r) ==
    /\ Goto(r, "raise", "clear")
    /\ running' = TRUE
    /\ UNCHANGED <<lock, error, progress, last, restarts>>

\* Mutant of ClearError: the old error stays.
ClearErrorForgotten(r) ==
    /\ Goto(r, "clear", "run")
    /\ UNCHANGED <<lock, status, last, restarts>>

\* Mutant of ClearError: the error becomes a flag.
ClearErrorToFalse(r) ==
    /\ Goto(r, "clear", "run")
    /\ error' = FALSE
    /\ UNCHANGED <<lock, running, progress, last, restarts>>

ClearError(r) ==
    /\ Goto(r, "clear", "run")
    /\ error' = None
    /\ UNCHANGED <<lock, running, progress, last, restarts>>

RunReturns(r) ==
    /\ Goto(r, "run", "publish")
    /\ last' = [run |-> r, failed |-> FALSE]
    /\ UNCHANGED <<lock, status, restarts>>

RunRaises(r) ==
    /\ Goto(r, "run", "record")
    /\ last' = [run |-> r, failed |-> TRUE]
    /\ UNCHANGED <<lock, status, restarts>>

PublishProgress(r) ==
    /\ Goto(r, "publish", "lower")
    /\ progress' = r
    /\ UNCHANGED <<lock, running, error, last, restarts>>

RecordError(r) ==
    /\ Goto(r, "record", "lower")
    /\ error' = r
    /\ UNCHANGED <<lock, running, progress, last, restarts>>

\* Mutant of LowerFlag: the flag stays up after a run that failed.
LowerFlagOnSuccess(r) ==
    /\ Goto(r, "lower", "release")
    /\ running' = last.failed
    /\ UNCHANGED <<lock, error, progress, last, restarts>>

LowerFlag(r) ==
    /\ Goto(r, "lower", "release")
    /\ running' = FALSE
    /\ UNCHANGED <<lock, error, progress, last, restarts>>

Release(r) ==
    /\ Goto(r, "release", "done")
    /\ lock' = None
    /\ UNCHANGED <<status, last, restarts>>

-----------------------------------------------------------------------------
\* The server process is replaced: handlers and daemon threads die with it.
Restart ==
    /\ restarts < MaxRestarts
    /\ restarts' = restarts + 1
    /\ pc' = [r \in Requests |->
                IF pc[r] \in {"new", "refused", "done"} THEN pc[r] ELSE "dead"]
    /\ lock' = None
    /\ running' = FALSE
    /\ error' = None
    /\ progress' = None
    /\ last' = [run |-> None, failed |-> FALSE]

Handle(r) == Refuse(r) \/ Accept(r) \/ StartThread(r) \/ BodyFails(r)

Thread(r) ==
    \/ Acquire(r) \/ RaiseFlag(r) \/ ClearError(r)
    \/ RunReturns(r) \/ RunRaises(r)
    \/ PublishProgress(r) \/ RecordError(r)
    \/ LowerFlag(r) \/ Release(r)

Next == (\E r \in Requests : Handle(r) \/ Thread(r)) \/ Restart

Spec == Init /\ [][Next]_vars

\* A thread that can go on does (a run ends: Ingestion's RunsEnd).
Fairness == \A r \in Requests : WF_vars(Thread(r))

FairSpec == Spec /\ Fairness

-----------------------------------------------------------------------------
\* The types of the lock, of the status and of every thread.
TypeOK ==
    /\ pc \in [Requests -> PCs]
    /\ lock \in Requests \cup {None}
    /\ running \in BOOLEAN
    /\ error \in Requests \cup {None}
    /\ progress \in Requests \cup {None}
    /\ last \in [run: Requests \cup {None}, failed: BOOLEAN]
    /\ restarts \in 0..MaxRestarts

\* Two pipelines never run at once, however many triggers slipped past the flag.
OneRunAtATime ==
    \A r, s \in Requests : pc[r] \in Inside /\ pc[s] \in Inside => r = s

FlagUp == Inside \ {"raise", "release"}

\* The flag is up exactly while some thread is between raising and lowering it:
\* it never stays up after the last run, which would refuse triggers for ever.
FlagMeansRun == running <=> \E r \in Requests : pc[r] \in FlagUp

\* Between runs the status shows the error of the run that ended last, and none
\* when that run succeeded.
ErrorOfLastRun ==
    (\A r \in Requests : pc[r] \notin Inside) =>
        error = (IF last.failed THEN last.run ELSE None)

\* Whoever is told "started" gets a run that ends, unless the server dies first.
StartedRunsEnd == \A r \in Requests : pc[r] = "queued" ~> pc[r] \in Over
==============================================================================
