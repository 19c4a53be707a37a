--------------------------- MODULE LocalExecution ---------------------------
(***************************************************************************)
(* Execution of an approved script on the backend's own host: executeTask  *)
(* for a task without a target device.  Unlike the remote path, marking    *)
(* the task, running the script and saving the result are transactions of  *)
(* their own, any of which may fail while the others succeed, and several  *)
(* requests may execute one task at the same time.                         *)
(***************************************************************************)
EXTENDS Naturals, TaskStore

CONSTANTS
    Tasks,         \* tasks without a target device, with a persisted script
    Requests,      \* backend threads that can serve executeTask at one time
    None,          \* null
    MaxApprovals,  \* bound on the executeTask calls that pass the guard
    MaxFaults      \* bound on database failures and backend crashes

ASSUME NoneAssumption == None \notin Tasks
ASSUME BoundAssumption == MaxApprovals \in Nat /\ MaxFaults \in Nat

VARIABLES
    taskStatus,  \* tasks.status
    request,     \* the executeTask calls in the backend
    runs,        \* history: how often a task's script was started
    outcomes,    \* history: how the runs of a task's script have ended
    blocked,     \* history: tasks the policy has blocked
    approvals,   \* executeTask calls so far
    faults       \* faults so far

vars == <<taskStatus, request, runs, outcomes, blocked, approvals, faults>>

\* What executeScript returns: the output of a script that exited with 0,
\* "EXEC_FAILED: ..." for another exit or after the 90 seconds, and "Error: ..."
\* when the interpreter could not be started or its output not be read.
Outcomes == {"output", "EXEC_FAILED", "Error"}

RequestState == [pc : {"idle", "checked", "block", "mark", "marked", "running",
                       "ran", "save"},
                 task : Tasks \cup {None},
                 read : TaskStatus,
                 outcome : Outcomes]

\* The rows and the backend threads are well formed.
TypeOK ==
    /\ taskStatus \in [Tasks -> TaskStatus]
    /\ request \in [Requests -> RequestState]
    /\ runs \in [Tasks -> Nat]
    /\ outcomes \in [Tasks -> SUBSET Outcomes]
    /\ blocked \subseteq Tasks
    /\ approvals \in 0 .. MaxApprovals
    /\ faults \in 0 .. MaxFaults

IdleRequest == [pc |-> "idle", task |-> None, read |-> "PENDING", outcome |-> "output"]

\* persistAnalysisResult saves the script before the status, each in its own
\* transaction, so a task that has a script is PENDING or ANALYZED.
Init ==
    /\ taskStatus \in [Tasks -> {"PENDING", "ANALYZED"}]
    /\ request = [r \in Requests |-> IdleRequest]
    /\ runs = [t \in Tasks |-> 0]
    /\ outcomes = [t \in Tasks |-> {}]
    /\ blocked = {}
    /\ approvals = 0
    /\ faults = 0

\* One of the bounded number of faults of a behaviour happens.
Fault == faults < MaxFaults /\ faults' = faults + 1

\* updateTaskStatus of request r loads the row.
Load(r, pc) ==
    request' = [request EXCEPT ![r].pc = pc, ![r].read = taskStatus[request[r].task]]

\* updateTaskStatus of request r commits.
Commit(r, status) ==
    taskStatus' = Written(taskStatus, request[r].task, request[r].read, status)

Goto(r, pc) == request' = [request EXCEPT ![r].pc = pc]
Return(r) == request' = [request EXCEPT ![r] = IdleRequest]

\* getTaskById, and the guard against re-execution.  (A request that fails the
\* guard changes nothing.)
ExecuteTask(r, t) ==
    /\ request[r].pc = "idle"
    /\ approvals < MaxApprovals /\ approvals' = approvals + 1
    /\ taskStatus[t] \notin Final
    /\ request' = [request EXCEPT ![r] = [IdleRequest EXCEPT !.pc = "checked",
                                                             !.task = t]]
    /\ UNCHANGED <<taskStatus, runs, outcomes, blocked, faults>>

\* The policy, whose rules an administrator may change at any time, blocks the
\* script: tryUpdateStatus loads the task, then saves FAILED.
BlockRead(r) ==
    /\ request[r].pc = "checked"
    /\ Load(r, "block")
    /\ blocked' = blocked \cup {request[r].task}
    /\ UNCHANGED <<taskStatus, runs, outcomes, approvals, faults>>

BlockCommit(r) ==
    /\ request[r].pc = "block"
    /\ Commit(r, "FAILED")
    /\ Return(r)
    /\ UNCHANGED <<runs, outcomes, blocked, approvals, faults>>

\* The policy allows the script: tryUpdateStatus(IN_PROGRESS).
MarkRead(r) ==
    /\ request[r].pc = "checked"
    /\ Load(r, "mark")
    /\ UNCHANGED <<taskStatus, runs, outcomes, blocked, approvals, faults>>

MarkCommit(r) ==
    /\ request[r].pc = "mark"
    /\ Commit(r, "IN_PROGRESS")
    /\ Goto(r, "marked")
    /\ UNCHANGED <<runs, outcomes, blocked, approvals, faults>>

\* Mutant of StoreFails: the script is run although its task was not marked.
StoreFailsOpen(r) ==
    /\ request[r].pc \in {"block", "mark", "save"}
    /\ Fault
    /\ IF request[r].pc = "mark" THEN Goto(r, "marked") ELSE Return(r)
    /\ UNCHANGED <<taskStatus, runs, outcomes, blocked, approvals>>

\* tryUpdateStatus returns false.  Before the script: 503, and it is not run.
\* After it: the response tells the outcome, and the row stays as it is.
StoreFails(r) ==
    /\ request[r].pc \in {"block", "mark", "save"}
    /\ Fault
    /\ Return(r)
    /\ UNCHANGED <<taskStatus, runs, outcomes, blocked, approvals>>

\* executeScript starts the interpreter.
StartScript(r) ==
    /\ request[r].pc = "marked"
    /\ runs' = [runs EXCEPT ![request[r].task] = @ + 1]
    /\ Goto(r, "running")
    /\ UNCHANGED <<taskStatus, outcomes, blocked, approvals, faults>>

EndScript(r, outcome) ==
    /\ request[r].pc = "running"
    /\ outcomes' = [outcomes EXCEPT ![request[r].task] = @ \cup {outcome}]
    /\ request' = [request EXCEPT ![r].pc = "ran", ![r].outcome = outcome]
    /\ UNCHANGED <<taskStatus, runs, blocked, approvals, faults>>

\* The interpreter cannot be started: executeBash returns "Error: ...".
ScriptNotStarted(r) ==
    /\ request[r].pc = "marked"
    /\ outcomes' = [outcomes EXCEPT ![request[r].task] = @ \cup {"Error"}]
    /\ request' = [request EXCEPT ![r].pc = "ran", ![r].outcome = "Error"]
    /\ UNCHANGED <<taskStatus, runs, blocked, approvals, faults>>

\* tryUpdateStatus(FAILED or COMPLETED).  The handler for an exception of
\* executeScript saves FAILED too, but executeScript catches what its runners
\* throw.
SaveRead(r) ==
    /\ request[r].pc = "ran"
    /\ Load(r, "save")
    /\ UNCHANGED <<taskStatus, runs, outcomes, blocked, approvals, faults>>

\* Mutant of SaveCommit: a failed script leaves the task for another attempt.
SaveCommitSuccessOnly(r) ==
    /\ request[r].pc = "save"
    /\ IF request[r].outcome = "EXEC_FAILED"
       THEN UNCHANGED taskStatus
       ELSE Commit(r, "COMPLETED")
    /\ Return(r)
    /\ UNCHANGED <<runs, outcomes, blocked, approvals, faults>>

\* Mutant of SaveCommit: whatever the script returned, the task is COMPLETED.
SaveCommitCompleted(r) ==
    /\ request[r].pc = "save"
    /\ Commit(r, "COMPLETED")
    /\ Return(r)
    /\ UNCHANGED <<runs, outcomes, blocked, approvals, faults>>

SaveCommit(r) ==
    /\ request[r].pc = "save"
    /\ Commit(r, IF request[r].outcome = "EXEC_FAILED" THEN "FAILED" ELSE "COMPLETED")
    /\ Return(r)
    /\ UNCHANGED <<runs, outcomes, blocked, approvals, faults>>

\* The backend stops and is started again; its requests are gone.
BackendCrash ==
    /\ Fault
    /\ request' = [r \in Requests |-> IdleRequest]
    /\ UNCHANGED <<taskStatus, runs, outcomes, blocked, approvals>>

Next ==
    \/ \E r \in Requests :
         \/ \E t \in Tasks : ExecuteTask(r, t)
         \/ BlockRead(r) \/ BlockCommit(r)
         \/ MarkRead(r) \/ MarkCommit(r)
         \/ StoreFails(r)
         \/ StartScript(r) \/ ScriptNotStarted(r)
         \/ \E outcome \in Outcomes : EndScript(r, outcome)
         \/ SaveRead(r) \/ SaveCommit(r)
    \/ BackendCrash

Spec == Init /\ [][Next]_vars
-----------------------------------------------------------------------------
(***************************************************************************)
(* Properties                                                              *)
(***************************************************************************)

\* The audit trail (comment at TaskController.java:203): once a script was
\* started, its task is on record as started, whatever transactions fail and
\* whatever the transactions still open commit.
RunIsOnRecord ==
    \A t \in Tasks : runs[t] > 0 => taskStatus[t] \notin {"PENDING", "ANALYZED"}

\* A final status is earned: COMPLETED by a run that returned something else than
\* EXEC_FAILED, FAILED by one that returned EXEC_FAILED or by the policy, however
\* the requests that execute the task overlap.
FinalIsEarned ==
    \A t \in Tasks :
        /\ taskStatus[t] = "COMPLETED" => outcomes[t] \cap {"output", "Error"} # {}
        /\ taskStatus[t] = "FAILED" => "EXEC_FAILED" \in outcomes[t] \/ t \in blocked

\* While nothing fails, a task shown as IN_PROGRESS is being executed by some
\* request: overlapping requests, which may each skip an UPDATE because of what
\* they loaded, never leave it IN_PROGRESS when the last of them returns.
InProgressIsRunning ==
    faults = 0 =>
        \A t \in Tasks :
            taskStatus[t] = "IN_PROGRESS" =>
                \E r \in Requests :
                    /\ request[r].task = t
                    /\ request[r].pc \in {"marked", "running", "ran", "save"}

\* Without overlap and failure the guard of executeTask holds what its comment
\* says: no script is started twice.
GuardedRunsOnce == faults = 0 => \A t \in Tasks : runs[t] <= 1

\* TaskController.java:148, "prevent re-executing a task that already ran".
RunsOnce == \A t \in Tasks : runs[t] <= 1
=============================================================================
