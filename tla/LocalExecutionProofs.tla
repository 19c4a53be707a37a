----------------------- MODULE LocalExecutionProofs ------------------------
(***************************************************************************)
(* Theorems about LocalExecution, for every set of tasks and requests and  *)
(* every bound.                                                            *)
(*                                                                         *)
(* None of the properties is inductive: a request carries what it loaded   *)
(* past the commits of others, so each is strengthened by what the         *)
(* requests under way will do with what they loaded.                       *)
(***************************************************************************)
EXTENDS LocalExecution, TLAPS

\* The inductive invariant behind all: types, and a request that knows its
\* task.
Shape ==
    /\ TypeOK
    /\ \A r \in Requests : request[r].pc # "idle" => request[r].task \in Tasks

\* The statuses of a task that was never approved.
NotStarted == {"PENDING", "ANALYZED"}
\* A task whose script was started, or is about to be, is on record as
\* started.
Recorded ==
    /\ \A t \in Tasks : runs[t] > 0 => taskStatus[t] \notin NotStarted
    /\ \A r \in Requests :
         \/ request[r].pc \in {"marked", "running", "ran", "save"}
         \/ request[r].pc = "mark" /\ request[r].read \notin NotStarted
         => taskStatus[request[r].task] \notin NotStarted

\* What a request is about to save is what its script returned or what the
\* policy said.
Earned ==
    /\ FinalIsEarned
    /\ \A r \in Requests :
         /\ request[r].pc \in {"ran", "save"} =>
              request[r].outcome \in outcomes[request[r].task]
         /\ request[r].pc = "block" => request[r].task \in blocked

\* Of the requests that execute a task IN_PROGRESS, one will save its status:
\* if it has loaded the task already, it loaded IN_PROGRESS.
Covered ==
    faults = 0 =>
        \A t \in Tasks :
            taskStatus[t] = "IN_PROGRESS" =>
                \E r \in Requests :
                    /\ request[r].task = t
                    /\ request[r].pc \in {"marked", "running", "ran", "save"}
                    /\ request[r].pc = "save" => request[r].read = "IN_PROGRESS"

\* With one request: a run leaves a final status behind, or its request is
\* still there; a request that has yet to run the script is the first to do
\* so.
Guarded ==
    faults = 0 =>
        /\ \A t \in Tasks : runs[t] \in {0, 1}
        /\ \A t \in Tasks :
             runs[t] = 1 =>
                \/ taskStatus[t] \in Final
                \/ \E r \in Requests : /\ request[r].task = t
                                       /\ request[r].pc \in {"running", "ran", "save"}
        /\ \A r \in Requests :
             /\ request[r].pc \in {"checked", "block", "mark", "marked"} =>
                  runs[request[r].task] = 0
             /\ request[r].pc \in {"mark", "save", "block"} =>
                  request[r].read = taskStatus[request[r].task]
-----------------------------------------------------------------------------
\* The record a request starts from is of its type.
LEMMA IdleType == IdleRequest \in RequestState
BY DEF IdleRequest, RequestState, TaskStatus, Outcomes

\* The load of a row by updateTaskStatus keeps the type of the requests.
LEMMA LoadType ==
    ASSUME Shape, NEW r \in Requests, request[r].pc # "idle",
           NEW pc \in {"block", "mark", "save"}, Load(r, pc)
    PROVE  request' \in [Requests -> RequestState]
<1>1. taskStatus[request[r].task] \in TaskStatus
  BY DEF Shape, TypeOK
<1>2. [request[r] EXCEPT !.pc = pc, !.read = taskStatus[request[r].task]] \in RequestState
  BY <1>1 DEF Shape, TypeOK, RequestState
<1>. QED  BY <1>2 DEF Shape, TypeOK, Load

\* Every step of executeTask keeps types and knows its task.
LEMMA ShapeStep ==
    ASSUME Shape, [Next]_vars
    PROVE  Shape'
<1>1. ASSUME NEW r \in Requests, NEW t \in Tasks, ExecuteTask(r, t)
     PROVE  Shape'
  <2>1. [IdleRequest EXCEPT !.pc = "checked", !.task = t] \in RequestState
    BY IdleType DEF RequestState
  <2>2. request' \in [Requests -> RequestState] /\ approvals' \in 0 .. MaxApprovals
    BY <1>1, <2>1, BoundAssumption DEF Shape, TypeOK, ExecuteTask
  <2>. QED  BY <1>1, <2>2 DEF Shape, TypeOK, ExecuteTask, IdleRequest
<1>2. ASSUME NEW r \in Requests, BlockRead(r)
     PROVE  Shape'
  <2>1. request' \in [Requests -> RequestState]
    BY <1>2, LoadType DEF BlockRead
  <2>. QED  BY <1>2, <2>1 DEF Shape, TypeOK, BlockRead, Load
<1>3. ASSUME NEW r \in Requests, BlockCommit(r)
     PROVE  Shape'
  BY <1>3 DEF Shape, TypeOK, BlockCommit, Commit, Return, Written, IdleRequest,
         RequestState, TaskStatus, Outcomes
<1>4. ASSUME NEW r \in Requests, MarkRead(r)
     PROVE  Shape'
  <2>1. request' \in [Requests -> RequestState]
    BY <1>4, LoadType DEF MarkRead
  <2>. QED  BY <1>4, <2>1 DEF Shape, TypeOK, MarkRead, Load
<1>5. ASSUME NEW r \in Requests, MarkCommit(r)
     PROVE  Shape'
  BY <1>5 DEF Shape, TypeOK, MarkCommit, Commit, Goto, Written, RequestState,
         TaskStatus, Outcomes
<1>6. ASSUME NEW r \in Requests, StoreFails(r)
     PROVE  Shape'
  <2>1. request' \in [Requests -> RequestState] /\ faults' \in 0 .. MaxFaults
    BY <1>6, IdleType, BoundAssumption DEF Shape, TypeOK, StoreFails, Return, Fault
  <2>. QED  BY <1>6, <2>1 DEF Shape, TypeOK, StoreFails, Return, IdleRequest
<1>7. ASSUME NEW r \in Requests, StartScript(r)
     PROVE  Shape'
  BY <1>7 DEF Shape, TypeOK, StartScript, Goto, RequestState, TaskStatus,
         Outcomes
<1>8. ASSUME NEW r \in Requests, ScriptNotStarted(r)
     PROVE  Shape'
  <2>1. [request[r] EXCEPT !.pc = "ran", !.outcome = "Error"] \in RequestState
    BY DEF Shape, TypeOK, RequestState, Outcomes
  <2>2. request' \in [Requests -> RequestState]
        /\ outcomes' \in [Tasks -> SUBSET Outcomes]
    BY <1>8, <2>1 DEF Shape, TypeOK, ScriptNotStarted, Outcomes
  <2>. QED  BY <1>8, <2>2 DEF Shape, TypeOK, ScriptNotStarted
<1>9. ASSUME NEW r \in Requests, NEW outcome \in Outcomes, EndScript(r, outcome)
     PROVE  Shape'
  <2>1. [request[r] EXCEPT !.pc = "ran", !.outcome = outcome] \in RequestState
    BY DEF Shape, TypeOK, RequestState, Outcomes
  <2>2. request' \in [Requests -> RequestState]
        /\ outcomes' \in [Tasks -> SUBSET Outcomes]
    BY <1>9, <2>1 DEF Shape, TypeOK, EndScript, Outcomes
  <2>. QED  BY <1>9, <2>2 DEF Shape, TypeOK, EndScript
<1>10. ASSUME NEW r \in Requests, SaveRead(r)
      PROVE  Shape'
  <2>1. request' \in [Requests -> RequestState]
    BY <1>10, LoadType DEF SaveRead
  <2>. QED  BY <1>10, <2>1 DEF Shape, TypeOK, SaveRead, Load
<1>11. ASSUME NEW r \in Requests, SaveCommit(r)
      PROVE  Shape'
  BY <1>11 DEF Shape, TypeOK, SaveCommit, Commit, Return, Written, IdleRequest,
         RequestState, TaskStatus, Outcomes
<1>12. CASE BackendCrash
  <2>1. request' \in [Requests -> RequestState] /\ faults' \in 0 .. MaxFaults
    BY <1>12, IdleType, BoundAssumption DEF Shape, TypeOK, BackendCrash, Fault
  <2>. QED  BY <1>12, <2>1 DEF Shape, TypeOK, BackendCrash, IdleRequest
<1>13. CASE UNCHANGED vars
  BY <1>13 DEF Shape, TypeOK, vars
<1>. QED  BY <1>1, <1>2, <1>3, <1>4, <1>5, <1>6, <1>7, <1>8, <1>9, <1>10,
            <1>11, <1>12, <1>13 DEF Next

\* Every step keeps tasks of started scripts on record as started: a request
\* that goes on to the script has committed IN_PROGRESS, or skipped the
\* UPDATE because the row was past ANALYZED.
LEMMA RecordedStep ==
    ASSUME Shape, Recorded, [Next]_vars
    PROVE  Recorded'
<1>1. ASSUME NEW r \in Requests, NEW t \in Tasks, ExecuteTask(r, t)
     PROVE  Recorded'
  BY <1>1 DEF Shape, TypeOK, RequestState, Recorded, NotStarted, ExecuteTask,
         IdleRequest
<1>2. ASSUME NEW r \in Requests, BlockRead(r)
     PROVE  Recorded'
  BY <1>2 DEF Shape, TypeOK, RequestState, Recorded, NotStarted, BlockRead, Load
<1>3. ASSUME NEW r \in Requests, BlockCommit(r)
     PROVE  Recorded'
  BY <1>3 DEF Shape, TypeOK, RequestState, Recorded, NotStarted, BlockCommit,
         Commit, Return, Written, IdleRequest
<1>4. ASSUME NEW r \in Requests, MarkRead(r)
     PROVE  Recorded'
  BY <1>4 DEF Shape, TypeOK, RequestState, Recorded, NotStarted, MarkRead, Load
<1>5. ASSUME NEW r \in Requests, MarkCommit(r)
     PROVE  Recorded'
  BY <1>5 DEF Shape, TypeOK, RequestState, Recorded, NotStarted, MarkCommit,
         Commit, Goto, Written
<1>6. ASSUME NEW r \in Requests, StoreFails(r)
     PROVE  Recorded'
  BY <1>6 DEF Shape, TypeOK, RequestState, Recorded, NotStarted, StoreFails,
         Return, IdleRequest, Fault
<1>7. ASSUME NEW r \in Requests, StartScript(r)
     PROVE  Recorded'
  BY <1>7 DEF Shape, TypeOK, RequestState, Recorded, NotStarted, StartScript,
         Goto
<1>8. ASSUME NEW r \in Requests, ScriptNotStarted(r)
     PROVE  Recorded'
  BY <1>8 DEF Shape, TypeOK, RequestState, Recorded, NotStarted,
         ScriptNotStarted
<1>9. ASSUME NEW r \in Requests, NEW outcome \in Outcomes, EndScript(r, outcome)
     PROVE  Recorded'
  BY <1>9 DEF Shape, TypeOK, RequestState, Recorded, NotStarted, EndScript
<1>10. ASSUME NEW r \in Requests, SaveRead(r)
      PROVE  Recorded'
  BY <1>10 DEF Shape, TypeOK, RequestState, Recorded, NotStarted, SaveRead, Load
<1>11. ASSUME NEW r \in Requests, SaveCommit(r)
      PROVE  Recorded'
  BY <1>11 DEF Shape, TypeOK, RequestState, Recorded, NotStarted, SaveCommit,
         Commit, Return, Written, IdleRequest
<1>12. CASE BackendCrash
  BY <1>12 DEF Shape, TypeOK, RequestState, Recorded, NotStarted, BackendCrash,
         IdleRequest, Fault
<1>13. CASE UNCHANGED vars
  BY <1>13 DEF Shape, TypeOK, RequestState, Recorded, NotStarted, vars
<1>. QED  BY <1>1, <1>2, <1>3, <1>4, <1>5, <1>6, <1>7, <1>8, <1>9, <1>10,
            <1>11, <1>12, <1>13 DEF Next

\* Every step keeps final statuses earned: what a request saves is the
\* outcome of its own run, or a block of its own.
LEMMA EarnedStep ==
    ASSUME Shape, Earned, [Next]_vars
    PROVE  Earned'
<1>1. ASSUME NEW r \in Requests, NEW t \in Tasks, ExecuteTask(r, t)
     PROVE  Earned'
  BY <1>1 DEF Shape, TypeOK, RequestState, Earned, FinalIsEarned, ExecuteTask,
         IdleRequest
<1>2. ASSUME NEW r \in Requests, BlockRead(r)
     PROVE  Earned'
  BY <1>2 DEF Shape, TypeOK, RequestState, Earned, FinalIsEarned, BlockRead,
         Load
<1>3. ASSUME NEW r \in Requests, BlockCommit(r)
     PROVE  Earned'
  BY <1>3 DEF Shape, TypeOK, RequestState, Earned, FinalIsEarned, BlockCommit,
         Commit, Return, Written, IdleRequest
<1>4. ASSUME NEW r \in Requests, MarkRead(r)
     PROVE  Earned'
  BY <1>4 DEF Shape, TypeOK, RequestState, Earned, FinalIsEarned, MarkRead, Load
<1>5. ASSUME NEW r \in Requests, MarkCommit(r)
     PROVE  Earned'
  BY <1>5 DEF Shape, TypeOK, RequestState, Earned, FinalIsEarned, MarkCommit,
         Commit, Goto, Written
<1>6. ASSUME NEW r \in Requests, StoreFails(r)
     PROVE  Earned'
  BY <1>6 DEF Shape, TypeOK, RequestState, Earned, FinalIsEarned, StoreFails,
         Return, IdleRequest, Fault
<1>7. ASSUME NEW r \in Requests, StartScript(r)
     PROVE  Earned'
  BY <1>7 DEF Shape, TypeOK, RequestState, Earned, FinalIsEarned, StartScript,
         Goto
<1>8. ASSUME NEW r \in Requests, ScriptNotStarted(r)
     PROVE  Earned'
  BY <1>8 DEF Shape, TypeOK, RequestState, Earned, FinalIsEarned,
         ScriptNotStarted
<1>9. ASSUME NEW r \in Requests, NEW outcome \in Outcomes, EndScript(r, outcome)
     PROVE  Earned'
  BY <1>9 DEF Shape, TypeOK, RequestState, Earned, FinalIsEarned, EndScript
<1>10. ASSUME NEW r \in Requests, SaveRead(r)
      PROVE  Earned'
  BY <1>10 DEF Shape, TypeOK, RequestState, Earned, FinalIsEarned, SaveRead,
         Load
<1>11. ASSUME NEW r \in Requests, SaveCommit(r)
      PROVE  Earned'
  <2>. DEFINE t == request[r].task
              status == IF request[r].outcome = "EXEC_FAILED" THEN "FAILED" ELSE "COMPLETED"
  <2>1. t \in Tasks /\ request[r].outcome \in outcomes[t] /\ request[r].outcome \in Outcomes
    BY <1>11 DEF Shape, TypeOK, RequestState, Earned, SaveCommit
  <2>2. \A u \in Tasks : u # t => taskStatus'[u] = taskStatus[u]
    BY <1>11 DEF Shape, TypeOK, SaveCommit, Commit, Written
  <2>3. taskStatus'[t] \in {status, taskStatus[t]}
    BY <1>11, <2>1 DEF Shape, TypeOK, SaveCommit, Commit, Written
  <2>4. FinalIsEarned'
    BY <1>11, <2>1, <2>2, <2>3 DEF Earned, FinalIsEarned, SaveCommit, Outcomes
  <2>. QED  BY <1>11, <2>4 DEF Shape, TypeOK, Earned, SaveCommit, Return, IdleRequest
<1>12. CASE BackendCrash
  BY <1>12 DEF Shape, TypeOK, RequestState, Earned, FinalIsEarned,
         BackendCrash, IdleRequest, Fault
<1>13. CASE UNCHANGED vars
  BY <1>13 DEF Shape, TypeOK, RequestState, Earned, FinalIsEarned, vars
<1>. QED  BY <1>1, <1>2, <1>3, <1>4, <1>5, <1>6, <1>7, <1>8, <1>9, <1>10,
            <1>11, <1>12, <1>13 DEF Next

\* While nothing fails, every step leaves a task IN_PROGRESS with a request
\* that executes it and, if it is about to save, will issue its UPDATE.
LEMMA CoveredStep ==
    ASSUME Shape, Covered, [Next]_vars
    PROVE  Covered'
<1>1. ASSUME NEW r \in Requests, NEW t \in Tasks, ExecuteTask(r, t)
     PROVE  Covered'
  BY <1>1 DEF Shape, TypeOK, RequestState, Covered, ExecuteTask, IdleRequest
<1>2. ASSUME NEW r \in Requests, BlockRead(r)
     PROVE  Covered'
  BY <1>2 DEF Shape, TypeOK, RequestState, Covered, BlockRead, Load
<1>3. ASSUME NEW r \in Requests, BlockCommit(r)
     PROVE  Covered'
  BY <1>3 DEF Shape, TypeOK, RequestState, Covered, BlockCommit, Commit,
         Return, Written, IdleRequest
<1>4. ASSUME NEW r \in Requests, MarkRead(r)
     PROVE  Covered'
  BY <1>4 DEF Shape, TypeOK, RequestState, Covered, MarkRead, Load
<1>5. ASSUME NEW r \in Requests, MarkCommit(r)
     PROVE  Covered'
  BY <1>5 DEF Shape, TypeOK, RequestState, Covered, MarkCommit, Commit, Goto,
         Written
<1>6. ASSUME NEW r \in Requests, StoreFails(r)
     PROVE  Covered'
  BY <1>6 DEF Shape, TypeOK, RequestState, Covered, StoreFails, Return,
         IdleRequest, Fault
<1>7. ASSUME NEW r \in Requests, StartScript(r)
     PROVE  Covered'
  BY <1>7 DEF Shape, TypeOK, RequestState, Covered, StartScript, Goto
<1>8. ASSUME NEW r \in Requests, ScriptNotStarted(r)
     PROVE  Covered'
  BY <1>8 DEF Shape, TypeOK, RequestState, Covered, ScriptNotStarted
<1>9. ASSUME NEW r \in Requests, NEW outcome \in Outcomes, EndScript(r, outcome)
     PROVE  Covered'
  BY <1>9 DEF Shape, TypeOK, RequestState, Covered, EndScript
<1>10. ASSUME NEW r \in Requests, SaveRead(r)
      PROVE  Covered'
  BY <1>10 DEF Shape, TypeOK, RequestState, Covered, SaveRead, Load
<1>11. ASSUME NEW r \in Requests, SaveCommit(r)
      PROVE  Covered'
  BY <1>11 DEF Shape, TypeOK, RequestState, Covered, SaveCommit, Commit,
         Return, Written, IdleRequest
<1>12. CASE BackendCrash
  BY <1>12 DEF Shape, TypeOK, RequestState, Covered, BackendCrash, IdleRequest,
         Fault
<1>13. CASE UNCHANGED vars
  BY <1>13 DEF Shape, TypeOK, RequestState, Covered, vars
<1>. QED  BY <1>1, <1>2, <1>3, <1>4, <1>5, <1>6, <1>7, <1>8, <1>9, <1>10,
            <1>11, <1>12, <1>13 DEF Next

\* While nothing fails, every step of a single request leaves a task that was
\* run either with a final status or with the request that runs it.
LEMMA GuardedStep ==
    ASSUME Shape, Guarded, \A r, s \in Requests : r = s, [Next]_vars
    PROVE  Guarded'
<1>1. ASSUME NEW r \in Requests, NEW t \in Tasks, ExecuteTask(r, t)
     PROVE  Guarded'
  BY <1>1 DEF Shape, TypeOK, RequestState, Guarded, Final, ExecuteTask,
         IdleRequest
<1>2. ASSUME NEW r \in Requests, BlockRead(r)
     PROVE  Guarded'
  BY <1>2 DEF Shape, TypeOK, RequestState, Guarded, Final, BlockRead, Load
<1>3. ASSUME NEW r \in Requests, BlockCommit(r)
     PROVE  Guarded'
  BY <1>3 DEF Shape, TypeOK, RequestState, Guarded, Final, BlockCommit, Commit,
         Return, Written, IdleRequest
<1>4. ASSUME NEW r \in Requests, MarkRead(r)
     PROVE  Guarded'
  BY <1>4 DEF Shape, TypeOK, RequestState, Guarded, Final, MarkRead, Load
<1>5. ASSUME NEW r \in Requests, MarkCommit(r)
     PROVE  Guarded'
  BY <1>5 DEF Shape, TypeOK, RequestState, Guarded, Final, MarkCommit, Commit,
         Goto, Written
<1>6. ASSUME NEW r \in Requests, StoreFails(r)
     PROVE  Guarded'
  BY <1>6 DEF Shape, TypeOK, RequestState, Guarded, Final, StoreFails, Return,
         IdleRequest, Fault
<1>7. ASSUME NEW r \in Requests, StartScript(r)
     PROVE  Guarded'
  BY <1>7 DEF Shape, TypeOK, RequestState, Guarded, Final, StartScript, Goto
<1>8. ASSUME NEW r \in Requests, ScriptNotStarted(r)
     PROVE  Guarded'
  BY <1>8 DEF Shape, TypeOK, RequestState, Guarded, Final, ScriptNotStarted
<1>9. ASSUME NEW r \in Requests, NEW outcome \in Outcomes, EndScript(r, outcome)
     PROVE  Guarded'
  BY <1>9 DEF Shape, TypeOK, RequestState, Guarded, Final, EndScript
<1>10. ASSUME NEW r \in Requests, SaveRead(r)
      PROVE  Guarded'
  BY <1>10 DEF Shape, TypeOK, RequestState, Guarded, Final, SaveRead, Load
<1>11. ASSUME NEW r \in Requests, SaveCommit(r)
      PROVE  Guarded'
  BY <1>11 DEF Shape, TypeOK, RequestState, Guarded, Final, SaveCommit, Commit,
         Return, Written, IdleRequest
<1>12. CASE BackendCrash
  BY <1>12 DEF Shape, TypeOK, RequestState, Guarded, Final, BackendCrash,
         IdleRequest, Fault
<1>13. CASE UNCHANGED vars
  BY <1>13 DEF Shape, TypeOK, RequestState, Guarded, Final, vars
<1>. QED  BY <1>1, <1>2, <1>3, <1>4, <1>5, <1>6, <1>7, <1>8, <1>9, <1>10,
            <1>11, <1>12, <1>13 DEF Next
-----------------------------------------------------------------------------
\* The shape holds always.
LEMMA ShapeInvariant == Spec => []Shape
<1>1. Init => Shape
  <2>1. \A r \in Requests : request[r] = IdleRequest => request[r].pc = "idle"
    BY DEF IdleRequest
  <2>. QED  BY <2>1, IdleType, BoundAssumption DEF Init, Shape, TypeOK, TaskStatus, Outcomes
<1>. QED  BY <1>1, ShapeStep, PTL DEF Spec

\* Type correctness of the rows and of the backend threads.
THEOREM TypeCorrect == Spec => []TypeOK
<1>1. Shape => TypeOK
  BY DEF Shape
<1>. QED  BY <1>1, ShapeInvariant, PTL

\* A script that was started has its task on record as started (the comment
\* at TaskController.java:203), whatever fails.
THEOREM RunsAreOnRecord == Spec => []RunIsOnRecord
<1>1. Init => Recorded
  BY DEF Init, Recorded, IdleRequest
<1>2. Recorded => RunIsOnRecord
  BY DEF Recorded, NotStarted, RunIsOnRecord
<1>. QED  BY <1>1, <1>2, RecordedStep, ShapeInvariant, PTL DEF Spec

\* COMPLETED and FAILED are earned by an outcome of the script or by the
\* policy, however requests overlap and whatever fails.
THEOREM FinalsAreEarned == Spec => []FinalIsEarned
<1>1. Init => Earned
  BY DEF Init, Earned, FinalIsEarned, IdleRequest
<1>2. Earned => FinalIsEarned
  BY DEF Earned
<1>. QED  BY <1>1, <1>2, EarnedStep, ShapeInvariant, PTL DEF Spec

\* While nothing fails, a task IN_PROGRESS is being executed by some request,
\* whatever the overlapping requests skip.
THEOREM InProgressIsBeingRun == Spec => []InProgressIsRunning
<1>1. Init => Covered
  BY DEF Init, Covered
<1>2. Covered => InProgressIsRunning
  BY DEF Covered, InProgressIsRunning
<1>. QED  BY <1>1, <1>2, CoveredStep, ShapeInvariant, PTL DEF Spec

\* With one request at a time and no failures the guard of executeTask lets
\* no script be started twice.
THEOREM OneRequestRunsOnce ==
    ASSUME \A r, s \in Requests : r = s
    PROVE  Spec => []GuardedRunsOnce
<1>1. Init => Guarded
  BY DEF Init, Guarded, IdleRequest
<1>2. Shape /\ Guarded /\ [Next]_vars => Guarded'
  BY GuardedStep
<1>3. Guarded => GuardedRunsOnce
  BY DEF Guarded, GuardedRunsOnce
<1>. QED  BY <1>1, <1>2, <1>3, ShapeInvariant, PTL DEF Spec
=============================================================================
