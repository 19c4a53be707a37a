-------------------------- MODULE RemoteExecution --------------------------
(***************************************************************************)
(* Execution of an approved script on a registered device.                 *)
(*                                                                         *)
(* An approval in the browser is a POST to TaskController.executeTask,     *)
(* which queues a node command (NodeCommandService.enqueue).  A process of *)
(* the node runtime on the device polls for it (claimNextCommand), runs    *)
(* the script, and posts the result (recordCommandResult).  Tasks and      *)
(* commands are rows of PostgreSQL.  The backend takes no row lock and     *)
(* keeps no version column, and PostgreSQL runs it at READ COMMITTED, so   *)
(* what a transaction read may be stale when it commits: a transaction is  *)
(* a step per read and one step that commits its writes.                   *)
(***************************************************************************)
EXTENDS Naturals, TaskStore

CONSTANTS
    Tasks,        \* tasks with a target device and a persisted script
    Devices,      \* registered devices
    Target,       \* Target[t]: the device of task t (TaskEntity.targetDeviceId)
    Requests,     \* backend threads that can serve executeTask at one time
    Handlers,     \* backend threads that can serve node requests at one time
    Nodes,        \* node runtime processes, each with a device's node token
    DeviceOf,     \* DeviceOf[n]: the device of process n
    Doctors,      \* the processes that are runs of `sysagent-node doctor`
    None,         \* null
    MaxCommands,  \* bound on the commands ever built
    MaxFaults     \* bound on crashes, timeouts and failed transactions

ASSUME TargetAssumption == Target \in [Tasks -> Devices]
ASSUME NodesAssumption == DeviceOf \in [Nodes -> Devices] /\ Doctors \subseteq Nodes
ASSUME NoneAssumption == None \notin Nodes \cup Tasks
ASSUME BoundAssumption == MaxCommands \in Nat /\ MaxFaults \in Nat

Commands == 1 .. MaxCommands
NoCommand == 0

\* "ABSENT" is the status of a command whose row is not committed.
NodeCommandStatus == {"QUEUED", "CLAIMED", "COMPLETED", "FAILED"}

VARIABLES
    taskStatus,   \* tasks.status
    cmdStatus,    \* node_commands.status
    cmdTask,      \* node_commands.task_id, of the rows committed
    created,      \* commands built so far: command c has the c-th createdAt
    request,      \* the executeTask calls in the backend
    handler,      \* the node requests in the backend
    node,         \* the node runtime processes
    runs,         \* history: how often a command's script was started
    succeeded,    \* history: commands whose script exited with 0
    faults        \* faults so far

rows == <<taskStatus, cmdStatus, cmdTask>>
history == <<runs, succeeded>>
vars == <<rows, created, request, handler, node, history, faults>>

RequestState == [pc : {"idle", "checked", "enqueue", "block"},
                 task : Tasks \cup {None},
                 cmd : Commands \cup {NoCommand},
                 read : TaskStatus]
HandlerState == [op : {"free", "claim", "result"},
                 pc : {"start", "read", "loaded", "done", "error"},
                 client : Nodes \cup {None},
                 live : BOOLEAN,
                 cmd : Commands \cup {NoCommand},
                 ok : BOOLEAN,
                 read : TaskStatus]
NodeState == [pc : {"idle", "polling", "claimed", "ran", "reporting", "down"},
              cmd : Commands \cup {NoCommand},
              ok : BOOLEAN]

\* The rows, the backend threads and the processes are well formed.
TypeOK ==
    /\ taskStatus \in [Tasks -> TaskStatus]
    /\ cmdStatus \in [Commands -> NodeCommandStatus \cup {"ABSENT"}]
    /\ cmdTask \in [Commands -> Tasks \cup {None}]
    /\ created \in 0 .. MaxCommands
    /\ request \in [Requests -> RequestState]
    /\ handler \in [Handlers -> HandlerState]
    /\ node \in [Nodes -> NodeState]
    /\ runs \in [Commands -> Nat]
    /\ succeeded \subseteq Commands
    /\ faults \in 0 .. MaxFaults

IdleRequest == [pc |-> "idle", task |-> None, cmd |-> NoCommand, read |-> "PENDING"]
FreeHandler == [op |-> "free", pc |-> "start", client |-> None, live |-> FALSE,
                cmd |-> NoCommand, ok |-> FALSE, read |-> "PENDING"]
NodeAt(pc) == [pc |-> pc, cmd |-> NoCommand, ok |-> FALSE]

\* persistAnalysisResult saves the script before the status, each in its own
\* transaction, so a task that has a script is PENDING or ANALYZED.
Init ==
    /\ taskStatus \in [Tasks -> {"PENDING", "ANALYZED"}]
    /\ cmdStatus = [c \in Commands |-> "ABSENT"]
    /\ cmdTask = [c \in Commands |-> None]
    /\ created = 0
    /\ request = [r \in Requests |-> IdleRequest]
    /\ handler = [h \in Handlers |-> FreeHandler]
    /\ node = [n \in Nodes |-> NodeAt("idle")]
    /\ runs = [c \in Commands |-> 0]
    /\ succeeded = {}
    /\ faults = 0

\* One of the bounded number of faults of a behaviour happens.
Fault == faults < MaxFaults /\ faults' = faults + 1
-----------------------------------------------------------------------------
(***************************************************************************)
(* TaskController.executeTask, for a task with a target device             *)
(***************************************************************************)

\* getTaskById, and the guard against re-execution.  (A request that fails the
\* guard changes nothing.)
ExecuteTask(r, t) ==
    /\ request[r].pc = "idle"
    /\ taskStatus[t] \notin Final
    /\ request' = [request EXCEPT ![r] = [IdleRequest EXCEPT !.pc = "checked",
                                                             !.task = t]]
    /\ UNCHANGED <<rows, created, handler, node, history, faults>>

\* The policy allows the script: enqueue builds the command, which takes its
\* createdAt, and updateTaskStatus loads the task.
EnqueueRead(r) ==
    /\ request[r].pc = "checked"
    /\ created < MaxCommands
    /\ created' = created + 1
    /\ request' = [request EXCEPT ![r].pc = "enqueue",
                                  ![r].cmd = created + 1,
                                  ![r].read = taskStatus[request[r].task]]
    /\ UNCHANGED <<rows, handler, node, history, faults>>

\* Mutant of EnqueueCommit: the task is not marked IN_PROGRESS.
EnqueueCommitUnmarked(r) ==
    /\ request[r].pc = "enqueue"
    /\ cmdStatus' = [cmdStatus EXCEPT ![request[r].cmd] = "QUEUED"]
    /\ cmdTask' = [cmdTask EXCEPT ![request[r].cmd] = request[r].task]
    /\ request' = [request EXCEPT ![r] = IdleRequest]
    /\ UNCHANGED <<taskStatus, created, handler, node, history, faults>>

EnqueueCommit(r) ==
    LET t == request[r].task
        c == request[r].cmd
    IN  /\ request[r].pc = "enqueue"
        /\ cmdStatus' = [cmdStatus EXCEPT ![c] = "QUEUED"]
        /\ cmdTask' = [cmdTask EXCEPT ![c] = t]
        /\ taskStatus' = Written(taskStatus, t, request[r].read, "IN_PROGRESS")
        /\ request' = [request EXCEPT ![r] = IdleRequest]
        /\ UNCHANGED <<created, handler, node, history, faults>>

\* The policy, whose rules an administrator may change at any time, blocks the
\* script: tryUpdateStatus loads the task, then saves FAILED.
BlockRead(r) ==
    /\ request[r].pc = "checked"
    /\ request' = [request EXCEPT ![r].pc = "block",
                                  ![r].read = taskStatus[request[r].task]]
    /\ UNCHANGED <<rows, created, handler, node, history, faults>>

BlockCommit(r) ==
    /\ request[r].pc = "block"
    /\ taskStatus' = Written(taskStatus, request[r].task, request[r].read, "FAILED")
    /\ request' = [request EXCEPT ![r] = IdleRequest]
    /\ UNCHANGED <<cmdStatus, cmdTask, created, handler, node, history, faults>>

\* The database or the backend fails: the transaction rolls back.
ExecuteFails(r) ==
    /\ request[r].pc # "idle"
    /\ Fault
    /\ request' = [request EXCEPT ![r] = IdleRequest]
    /\ UNCHANGED <<rows, created, handler, node, history>>
-----------------------------------------------------------------------------
(***************************************************************************)
(* NodeCommandService.claimNextCommand and recordCommandResult             *)
(***************************************************************************)

\* Mutant of Queued: the query forgets the device.
QueuedAnywhere(d) == {c \in Commands : cmdStatus[c] = "QUEUED"}

Queued(d) == {c \in Commands : cmdStatus[c] = "QUEUED" /\ Target[cmdTask[c]] = d}

\* The response is ready.  If the client has given up, nobody takes it.
Respond(h, pc, c) ==
    handler' = [handler EXCEPT ![h] =
                  IF handler[h].live THEN [handler[h] EXCEPT !.pc = pc, !.cmd = c]
                                     ELSE FreeHandler]

\* The SELECT of the oldest queued command of the device.
ClaimRead(h) ==
    /\ handler[h].op = "claim" /\ handler[h].pc = "start"
    /\ LET queue == Queued(DeviceOf[handler[h].client])
       IN  \/ /\ queue = {}
              /\ Respond(h, "done", NoCommand)
           \/ \E c \in queue :
                /\ \A d \in queue : c <= d
                /\ handler' = [handler EXCEPT ![h].pc = "read", ![h].cmd = c]
    /\ UNCHANGED <<rows, created, request, node, history, faults>>

\* Mutant of ClaimCommit: the claimed command is returned but not saved.
ClaimCommitUnsaved(h) ==
    /\ handler[h].op = "claim" /\ handler[h].pc = "read"
    /\ Respond(h, "done", handler[h].cmd)
    /\ UNCHANGED <<rows, created, request, node, history, faults>>

\* Mutant of ClaimCommit: a claim whose client has gone is put back.
ClaimCommitRequeue(h) ==
    /\ handler[h].op = "claim" /\ handler[h].pc = "read"
    /\ cmdStatus' = [cmdStatus EXCEPT ![handler[h].cmd] =
                       IF handler[h].live THEN "CLAIMED" ELSE "QUEUED"]
    /\ Respond(h, "done", handler[h].cmd)
    /\ UNCHANGED <<taskStatus, cmdTask, created, request, node, history, faults>>

\* The UPDATE of the whole row, whatever its status is by now.
ClaimCommit(h) ==
    /\ handler[h].op = "claim" /\ handler[h].pc = "read"
    /\ cmdStatus' = [cmdStatus EXCEPT ![handler[h].cmd] = "CLAIMED"]
    /\ Respond(h, "done", handler[h].cmd)
    /\ UNCHANGED <<taskStatus, cmdTask, created, request, node, history, faults>>

\* findById and its checks.  A rejected result is answered with an error.
ResultRead(h) ==
    LET c == handler[h].cmd
    IN  /\ handler[h].op = "result" /\ handler[h].pc = "start"
        /\ IF /\ Target[cmdTask[c]] = DeviceOf[handler[h].client]
              /\ cmdStatus[c] \notin Final
           THEN handler' = [handler EXCEPT ![h].pc = "read"]
           ELSE Respond(h, "error", c)
        /\ UNCHANGED <<rows, created, request, node, history, faults>>

\* Mutant of ResultLoadTask: a result waits for its task to be in progress.
ResultLoadTaskInProgress(h) ==
    /\ handler[h].op = "result" /\ handler[h].pc = "read"
    /\ taskStatus[cmdTask[handler[h].cmd]] = "IN_PROGRESS"
    /\ handler' = [handler EXCEPT ![h].pc = "loaded", ![h].read = "IN_PROGRESS"]
    /\ UNCHANGED <<rows, created, request, node, history, faults>>

\* updateTaskStatus joins the transaction and loads the task.
ResultLoadTask(h) ==
    /\ handler[h].op = "result" /\ handler[h].pc = "read"
    /\ handler' = [handler EXCEPT ![h].pc = "loaded",
                                  ![h].read = taskStatus[cmdTask[handler[h].cmd]]]
    /\ UNCHANGED <<rows, created, request, node, history, faults>>

\* Mutant of ResultCommit: a failed command leaves its task alone.
ResultCommitSuccessOnly(h) ==
    LET c == handler[h].cmd
    IN  /\ handler[h].op = "result" /\ handler[h].pc = "loaded"
        /\ cmdStatus' = [cmdStatus EXCEPT ![c] =
                           IF handler[h].ok THEN "COMPLETED" ELSE "FAILED"]
        /\ IF handler[h].ok
           THEN taskStatus' = Written(taskStatus, cmdTask[c], handler[h].read, "COMPLETED")
           ELSE UNCHANGED taskStatus
        /\ Respond(h, "done", c)
        /\ UNCHANGED <<cmdTask, created, request, node, history, faults>>

ResultCommit(h) ==
    LET c == handler[h].cmd
        status == IF handler[h].ok THEN "COMPLETED" ELSE "FAILED"
    IN  /\ handler[h].op = "result" /\ handler[h].pc = "loaded"
        /\ cmdStatus' = [cmdStatus EXCEPT ![c] = status]
        /\ taskStatus' = Written(taskStatus, cmdTask[c], handler[h].read, status)
        /\ Respond(h, "done", c)
        /\ UNCHANGED <<cmdTask, created, request, node, history, faults>>

\* The database or the backend fails: the transaction rolls back, and a client
\* that still waits gets an error.
HandlerFails(h) ==
    /\ handler[h].op # "free" /\ handler[h].pc \in {"start", "read", "loaded"}
    /\ Fault
    /\ Respond(h, "error", handler[h].cmd)
    /\ UNCHANGED <<rows, created, request, node, history>>
-----------------------------------------------------------------------------
(***************************************************************************)
(* The node runtime: _run and _poll_once of cli.py, `doctor`, the service  *)
(* manager                                                                 *)
(***************************************************************************)

Send(h, op, n, c, ok) ==
    /\ handler[h].op = "free"
    /\ handler' = [handler EXCEPT ![h] =
                     [FreeHandler EXCEPT !.op = op, !.client = n, !.live = TRUE,
                                         !.cmd = c, !.ok = ok]]

\* next_command, called by _poll_once or by doctor's _backend_check.
Poll(n, h) ==
    /\ node[n].pc = "idle"
    /\ Send(h, "claim", n, NoCommand, FALSE)
    /\ node' = [node EXCEPT ![n] = NodeAt("polling")]
    /\ UNCHANGED <<rows, created, request, history, faults>>

\* The response to next_command.  Doctor has learnt that its token is accepted
\* and returns; an ApiError ends the process.
PollResponse(n, h) ==
    /\ node[n].pc = "polling"
    /\ handler[h].client = n /\ handler[h].live /\ handler[h].pc \in {"done", "error"}
    /\ node' = [node EXCEPT ![n] =
                  CASE n \in Doctors -> NodeAt("idle")
                    [] n \notin Doctors /\ handler[h].pc = "error" -> NodeAt("down")
                    [] n \notin Doctors /\ handler[h].pc = "done"
                       /\ handler[h].cmd = NoCommand -> NodeAt("idle")
                    [] OTHER -> [NodeAt("claimed") EXCEPT !.cmd = handler[h].cmd]]
    /\ handler' = [handler EXCEPT ![h] = FreeHandler]
    /\ UNCHANGED <<rows, created, request, history, faults>>

\* execute_script runs the script; it exits with 0 or not, or times out.
ExecuteScript(n, ok) ==
    LET c == node[n].cmd
    IN  /\ node[n].pc = "claimed"
        /\ runs' = [runs EXCEPT ![c] = @ + 1]
        /\ succeeded' = IF ok THEN succeeded \cup {c} ELSE succeeded
        /\ node' = [node EXCEPT ![n].pc = "ran", ![n].ok = ok]
        /\ UNCHANGED <<rows, created, request, handler, faults>>

\* Mutant of RefuseScript: a refused script counts as a success.
RefuseScriptSilently(n) ==
    /\ node[n].pc = "claimed"
    /\ node' = [node EXCEPT ![n].pc = "ran", ![n].ok = TRUE]
    /\ UNCHANGED <<rows, created, request, handler, history, faults>>

\* validate_script finds a blocked pattern, or the shell cannot be started:
\* a failure is reported for a script that never ran.
RefuseScript(n) ==
    /\ node[n].pc = "claimed"
    /\ node' = [node EXCEPT ![n].pc = "ran", ![n].ok = FALSE]
    /\ UNCHANGED <<rows, created, request, handler, history, faults>>

\* command_result.
Report(n, h) ==
    /\ node[n].pc = "ran"
    /\ Send(h, "result", n, node[n].cmd, node[n].ok)
    /\ node' = [node EXCEPT ![n].pc = "reporting"]
    /\ UNCHANGED <<rows, created, request, history, faults>>

\* The response to command_result: back to the loop, or an ApiError.
ReportResponse(n, h) ==
    /\ node[n].pc = "reporting"
    /\ handler[h].client = n /\ handler[h].live /\ handler[h].pc \in {"done", "error"}
    /\ node' = [node EXCEPT ![n] =
                  NodeAt(IF handler[h].pc = "error" THEN "down" ELSE "idle")]
    /\ handler' = [handler EXCEPT ![h] = FreeHandler]
    /\ UNCHANGED <<rows, created, request, history, faults>>

\* The process stops: the machine goes down, a call raises, a response does not
\* come within the client's 15 seconds.  A request already sent stays with the
\* backend, which serves it for nobody, or it was lost on the way.
NodeFails(n) ==
    /\ node[n].pc # "down"
    /\ Fault
    /\ node' = [node EXCEPT ![n] = NodeAt("down")]
    /\ handler' = [h \in Handlers |->
                     IF handler[h].client = n /\ handler[h].live
                     THEN IF handler[h].pc \in {"done", "error"}
                          THEN FreeHandler
                          ELSE [handler[h] EXCEPT !.live = FALSE]
                     ELSE handler[h]]
    /\ UNCHANGED <<rows, created, request, history>>

RequestLost(n, h) ==
    /\ handler[h].client = n /\ handler[h].live /\ handler[h].pc = "start"
    /\ Fault
    /\ node' = [node EXCEPT ![n] = NodeAt("down")]
    /\ handler' = [handler EXCEPT ![h] = FreeHandler]
    /\ UNCHANGED <<rows, created, request, history>>

\* Mutant of NodeRestart: the manager leaves a service down that failed, as
\* Restart=on-success would.
NodeRestartOnSuccess(n) ==
    /\ node[n].pc = "down" /\ faults = 0
    /\ node' = [node EXCEPT ![n] = NodeAt("idle")]
    /\ UNCHANGED <<rows, created, request, handler, history, faults>>

\* systemd (Restart=always) or launchd (KeepAlive) starts the service again; the
\* user starts a poll-once or a doctor again.
NodeRestart(n) ==
    /\ node[n].pc = "down"
    /\ node' = [node EXCEPT ![n] = NodeAt("idle")]
    /\ UNCHANGED <<rows, created, request, handler, history, faults>>
-----------------------------------------------------------------------------
ExecuteNext ==
    \E r \in Requests :
        \/ \E t \in Tasks : ExecuteTask(r, t)
        \/ EnqueueRead(r) \/ EnqueueCommit(r)
        \/ BlockRead(r) \/ BlockCommit(r)
        \/ ExecuteFails(r)

HandlerNext ==
    \E h \in Handlers :
        \/ ClaimRead(h) \/ ClaimCommit(h)
        \/ ResultRead(h) \/ ResultLoadTask(h) \/ ResultCommit(h)
        \/ HandlerFails(h)

NodeNext ==
    \E n \in Nodes :
        \/ \E h \in Handlers : \/ Poll(n, h) \/ PollResponse(n, h)
                               \/ Report(n, h) \/ ReportResponse(n, h)
                               \/ RequestLost(n, h)
        \/ \E ok \in BOOLEAN : ExecuteScript(n, ok)
        \/ RefuseScript(n) \/ NodeFails(n) \/ NodeRestart(n)

Next == ExecuteNext \/ HandlerNext \/ NodeNext

Spec == Init /\ [][Next]_vars

(***************************************************************************)
(* The backend finishes what it began, unless it fails; a process of the   *)
(* service polls every few seconds, runs what it got and posts the result, *)
(* and its manager restarts it.  Nothing makes a user approve a task or    *)
(* run doctor.                                                             *)
(***************************************************************************)
Fairness ==
    /\ \A r \in Requests : WF_vars(EnqueueCommit(r)) /\ WF_vars(BlockCommit(r))
    /\ \A h \in Handlers :
         WF_vars(\/ ClaimRead(h) \/ ClaimCommit(h)
                 \/ ResultRead(h) \/ ResultLoadTask(h) \/ ResultCommit(h))
    /\ \A n \in Nodes :
         /\ WF_vars(\E h \in Handlers : PollResponse(n, h) \/ ReportResponse(n, h))
         /\ WF_vars(\E ok \in BOOLEAN : ExecuteScript(n, ok) \/ RefuseScript(n))
         /\ WF_vars(\E h \in Handlers : Report(n, h))
    /\ \A n \in Nodes \ Doctors :
         /\ WF_vars(\E h \in Handlers : Poll(n, h))
         /\ WF_vars(NodeRestart(n))

FairSpec == Spec /\ Fairness
-----------------------------------------------------------------------------
(***************************************************************************)
(* Properties                                                              *)
(***************************************************************************)

\* A task shown as IN_PROGRESS has a command that no result has settled yet.
\* Enqueue and result transactions of the same task overlap, and each may skip
\* its UPDATE of the task because of what it loaded; yet a task is never left
\* IN_PROGRESS by commands that are all settled, with the terminal and the
\* history page polling (pollRemoteCommandStatus) for a result already in.
InProgressIsOutstanding ==
    \A t \in Tasks :
        taskStatus[t] = "IN_PROGRESS" =>
            \E c \in Commands : cmdTask[c] = t /\ cmdStatus[c] \in {"QUEUED", "CLAIMED"}

\* COMPLETED is true: a task or command that the backend shows as COMPLETED has
\* a script that exited with 0 on the device the user chose.  The fact crosses
\* the claim response, the process, and the result request, any of which may be
\* lost, late or repeated by another process.
CompletedWasRun ==
    /\ \A t \in Tasks :
         taskStatus[t] = "COMPLETED" => \E c \in succeeded : cmdTask[c] = t
    /\ \A c \in Commands : cmdStatus[c] = "COMPLETED" => c \in succeeded

\* The audit trail of executeTask: once a script was started on a device, its
\* task is on record as started, whatever the transactions still open commit.
RunIsOnRecord ==
    \A c \in Commands :
        runs[c] > 0 => /\ cmdTask[c] \in Tasks
                       /\ taskStatus[cmdTask[c]] \notin {"PENDING", "ANALYZED"}

\* A device has at most one process that runs commands: the service, and doctor.
SoleRunner ==
    \A m, n \in Nodes \ Doctors : DeviceOf[m] = DeviceOf[n] => m = n

\* A command's script is started at most once, although the claim is an unlocked
\* read and write, a process that gave up leaves its claim running in the
\* backend, and it polls again at once when it is restarted.  True of a device
\* with one runner: two would both read the command as QUEUED.
AtMostOnce == \A c \in Commands : runs[c] <= 1

\* A process only ever holds commands of the device whose token it has.  The
\* fact is made by the claim's filter and must survive the response's way to a
\* process that may by then have been restarted and have polled again.
RightDevice ==
    \A n \in Nodes :
        node[n].cmd # NoCommand => Target[cmdTask[node[n].cmd]] = DeviceOf[n]

\* On a device with one runner the queue is a CommandDelivery: the statuses of
\* the row tell whether a command is still in the queue, and what the racing
\* transactions write after that never brings it back.
stage == [c \in Commands |->
            CASE cmdStatus[c] = "ABSENT" -> "absent"
              [] cmdStatus[c] = "QUEUED" -> "queued"
              [] OTHER -> "handed out"]
Delivery == INSTANCE CommandDelivery WITH Commands <- Commands, stage <- stage, runs <- runs
ImplementsDelivery == Delivery!Spec

\* Somebody still answers for command c: a runner that has it, a claim about to
\* be answered to a runner, or a result under way.
Held(c) ==
    \/ \E n \in Nodes : node[n].cmd = c
    \/ \E h \in Handlers :
         /\ handler[h].cmd = c
         /\ \/ handler[h].op = "result" /\ handler[h].pc # "error"
            \/ /\ handler[h].op = "claim" /\ handler[h].pc # "error"
               /\ handler[h].live /\ handler[h].client \notin Doctors

\* Every queued command is claimed in the end, across crashes and restarts.
QueuedIsClaimed ==
    \A c \in Commands : cmdStatus[c] = "QUEUED" ~> cmdStatus[c] # "QUEUED"

\* A claimed command is settled in the end, or is with nobody: a process that
\* crashed, gave up or was a doctor took it along.  There is no third way for it
\* to hang, such as a process and the backend waiting for each other.
ClaimIsSettledOrDropped ==
    \A c \in Commands :
        cmdStatus[c] = "CLAIMED" ~> (cmdStatus[c] \in Final \/ ~Held(c))

\* SYSAGENT_ROADMAP.md:516, commands "progress through QUEUED, CLAIMED,
\* COMPLETED, and FAILED": a settled command stays settled.
SettledIsFinal ==
    [][\A c \in Commands : cmdStatus[c] \in Final => cmdStatus'[c] \in Final]_vars
=============================================================================
