----------------------- MODULE RemoteExecutionProofs -----------------------
(***************************************************************************)
(* Theorems about RemoteExecution, for every set of tasks, devices,        *)
(* threads and processes and every bound.                                  *)
(*                                                                         *)
(* The theorems rest on the shape: who holds which command, and that a     *)
(* backend thread that serves a process of the node runtime and that       *)
(* process agree on what is asked.  TypeOK alone is not inductive: that a  *)
(* committed command has a task, which Queued and ResultLoadTask look up,  *)
(* depends on the order of commits, and that a process only receives a     *)
(* command that was taken from the queue depends on the handler it waits   *)
(* for.                                                                    *)
(*                                                                         *)
(* Each safety invariant is strengthened by what its own argument needs,   *)
(* next to Shape: Outstanding by what the results about to commit have     *)
(* loaded, Earned by what the processes and the requests report, Started   *)
(* by what the enqueue transactions have loaded, Sole by the commands in   *)
(* the hands of the one runner of a device.                                *)
(***************************************************************************)
EXTENDS RemoteExecution, TLAPS

\* The command's row was committed.
Present(c) == c \in Commands /\ cmdStatus[c] # "ABSENT"

\* The command has left the queue.
Taken(c) == Present(c) /\ cmdStatus[c] # "QUEUED"

\* Rows are committed with their task, and in no other order than built.
RowsShape ==
    \A c \in Commands : Present(c) => cmdTask[c] \in Tasks /\ c <= created

\* A request knows its task, and the command it builds is its own.
RequestShape ==
    /\ \A r \in Requests :
         /\ request[r].pc # "idle" => request[r].task \in Tasks
         /\ request[r].pc = "enqueue" =>
              /\ request[r].cmd \in 1 .. created
              /\ ~Present(request[r].cmd)
    /\ \A r, s \in Requests :
         /\ request[r].pc = "enqueue" /\ request[s].pc = "enqueue"
         /\ request[r].cmd = request[s].cmd
         => r = s

\* A thread serves a process, and knows a command that is there.
HandlerShape ==
    \A h \in Handlers :
        /\ handler[h].op = "free" => ~handler[h].live
        /\ handler[h].op # "free" => handler[h].client \in Nodes
        /\ handler[h].op = "claim" /\ handler[h].pc = "read" => Present(handler[h].cmd)
        /\ handler[h].op = "claim" /\ handler[h].pc = "done" =>
             handler[h].cmd = NoCommand \/ Taken(handler[h].cmd)
        /\ handler[h].op = "result" => Taken(handler[h].cmd)

\* A process that has a command has one that was taken.
NodeShape ==
    \A n \in Nodes :
        IF node[n].pc \in {"claimed", "ran", "reporting"}
        THEN Taken(node[n].cmd) /\ n \notin Doctors
        ELSE node[n].cmd = NoCommand

\* A process waits for the one thread that serves it.
ConversationShape ==
    /\ \A h \in Handlers :
         handler[h].live =>
           LET n == handler[h].client
           IN  \/ handler[h].op = "claim" /\ node[n].pc = "polling"
               \/ /\ handler[h].op = "result" /\ node[n].pc = "reporting"
                  /\ handler[h].cmd = node[n].cmd
    /\ \A g, h \in Handlers :
         /\ handler[g].live /\ handler[h].live
         /\ handler[g].client = handler[h].client
         => g = h

Shape ==
    TypeOK /\ RowsShape /\ RequestShape /\ HandlerShape /\ NodeShape /\ ConversationShape
-----------------------------------------------------------------------------

(***************************************************************************)
(* Types.  A row of a function stays in its type when fields are updated   *)
(* with values of their types.                                             *)
(***************************************************************************)

\* The records a thread and a process start from are of their types.
LEMMA IdleTypes ==
    ASSUME NEW pc \in {"idle", "polling", "down"}
    PROVE  /\ IdleRequest \in RequestState
           /\ FreeHandler \in HandlerState
           /\ NodeAt(pc) \in NodeState
BY DEF IdleRequest, FreeHandler, NodeAt, RequestState, HandlerState, NodeState,
       TaskStatus

\* Updating the fields of an executeTask call (EnqueueRead, BlockRead) keeps
\* its type.
LEMMA RequestType ==
    ASSUME TypeOK, NEW r \in Requests,
           NEW pc \in {"idle", "checked", "enqueue", "block"},
           NEW c \in Commands \cup {NoCommand}, NEW read \in TaskStatus
    PROVE  [request EXCEPT ![r].pc = pc, ![r].cmd = c, ![r].read = read]
             \in [Requests -> RequestState]
<1>1. [request[r] EXCEPT !.pc = pc, !.cmd = c, !.read = read] \in RequestState
  BY DEF TypeOK, RequestState
<1>. QED  BY <1>1 DEF TypeOK

\* A handler that answers, or that is freed as its client gave up, keeps its
\* type.
LEMMA RespondType ==
    ASSUME TypeOK, NEW h \in Handlers,
           NEW pc \in {"done", "error"}, NEW c \in Commands \cup {NoCommand},
           Respond(h, pc, c)
    PROVE  handler' \in [Handlers -> HandlerState]
<1>1. [handler[h] EXCEPT !.pc = pc, !.cmd = c] \in HandlerState
  BY DEF TypeOK, HandlerState
<1>2. FreeHandler \in HandlerState
  BY IdleTypes
<1>. QED  BY <1>1, <1>2 DEF TypeOK, Respond

\* A request sent by the node runtime (next_command, command_result) has its
\* type.
LEMMA SendType ==
    ASSUME TypeOK, NEW h \in Handlers, NEW op \in {"claim", "result"},
           NEW n \in Nodes, NEW c \in Commands \cup {NoCommand}, NEW ok \in BOOLEAN,
           Send(h, op, n, c, ok)
    PROVE  handler' \in [Handlers -> HandlerState]
<1>1. [FreeHandler EXCEPT !.op = op, !.client = n, !.live = TRUE, !.cmd = c, !.ok = ok]
        \in HandlerState
  BY DEF FreeHandler, HandlerState, TaskStatus
<1>. QED  BY <1>1 DEF TypeOK, Send

\* What updateTaskStatus commits is a status for every task.
LEMMA WrittenType ==
    ASSUME TypeOK, NEW t, NEW loaded, NEW status \in TaskStatus
    PROVE  Written(taskStatus, t, loaded, status) \in [Tasks -> TaskStatus]
BY DEF TypeOK, Written

-----------------------------------------------------------------------------
(***************************************************************************)
(* Each step keeps the shape.                                              *)
(***************************************************************************)

\* executeTask passing its guard keeps the shape of the system.
LEMMA ExecuteTaskShape ==
    ASSUME Shape, NEW r \in Requests, NEW t \in Tasks, ExecuteTask(r, t)
    PROVE  Shape'
<1>1. TypeOK'
  <2>1. request' \in [Requests -> RequestState]
    <3>1. [IdleRequest EXCEPT !.pc = "checked", !.task = t] \in RequestState
      BY IdleTypes DEF RequestState
    <3>. QED  BY <3>1 DEF Shape, TypeOK, ExecuteTask
  <2>. QED  BY <2>1 DEF Shape, TypeOK, ExecuteTask, rows, history
<1>2. RowsShape'
  BY DEF Shape, RowsShape, Present, ExecuteTask, rows
<1>3. RequestShape'
  BY DEF Shape, RequestShape, Present, ExecuteTask, rows
<1>4. HandlerShape'
  BY DEF Shape, HandlerShape, Present, Taken, ExecuteTask, rows
<1>5. NodeShape'
  BY DEF Shape, NodeShape, Present, Taken, ExecuteTask, rows
<1>6. ConversationShape'
  BY DEF Shape, ConversationShape, ExecuteTask
<1>. QED  BY <1>1, <1>2, <1>3, <1>4, <1>5, <1>6 DEF Shape

\* enqueue building a command keeps the shape: the command is new to every
\* other request.
LEMMA EnqueueReadShape ==
    ASSUME Shape, NEW r \in Requests, EnqueueRead(r)
    PROVE  Shape'
<1>1. TypeOK'
  <2>1. created + 1 \in Commands
    BY BoundAssumption DEF Shape, TypeOK, EnqueueRead, Commands
  <2>2. taskStatus[request[r].task] \in TaskStatus
    BY DEF Shape, TypeOK, RequestShape, EnqueueRead
  <2>3. request' \in [Requests -> RequestState]
    BY <2>1, <2>2, RequestType DEF Shape, EnqueueRead
  <2>4. created' \in 0 .. MaxCommands
    BY <2>1 DEF EnqueueRead, Commands
  <2>. QED  BY <2>1, <2>2, <2>3, <2>4 DEF Shape, TypeOK, EnqueueRead, rows,
         history
<1>2. RowsShape'
  BY DEF Shape, TypeOK, RowsShape, Present, EnqueueRead, Commands, rows
<1>3. RequestShape'
  BY DEF Shape, TypeOK, RequestShape, Present, EnqueueRead, RowsShape, rows
<1>4. HandlerShape'
  BY DEF Shape, HandlerShape, Present, Taken, EnqueueRead, rows
<1>5. NodeShape'
  BY DEF Shape, NodeShape, Present, Taken, EnqueueRead, rows
<1>6. ConversationShape'
  BY DEF Shape, ConversationShape, EnqueueRead
<1>. QED  BY <1>1, <1>2, <1>3, <1>4, <1>5, <1>6 DEF Shape

\* The enqueue transaction keeps the shape: the row it commits has its task,
\* and no other request is about to commit the same row.
LEMMA EnqueueCommitShape ==
    ASSUME Shape, NEW r \in Requests, EnqueueCommit(r)
    PROVE  Shape'
<1>1. TypeOK'
  <2>1. request' \in [Requests -> RequestState]
    BY IdleTypes DEF Shape, TypeOK, EnqueueCommit
  <2>2. taskStatus' \in [Tasks -> TaskStatus]
    BY WrittenType DEF Shape, TaskStatus, EnqueueCommit
  <2>3. cmdStatus' \in [Commands -> NodeCommandStatus \cup {"ABSENT"}]
       /\ cmdTask' \in [Commands -> Tasks \cup {None}]
    BY DEF Shape, TypeOK, RequestShape, EnqueueCommit, NodeCommandStatus
  <2>. QED  BY <2>1, <2>2, <2>3 DEF Shape, TypeOK, EnqueueCommit, history
<1>2. RowsShape'
  BY DEF Shape, TypeOK, RowsShape, Present, EnqueueCommit, RequestShape
<1>3. RequestShape'
  BY DEF Shape, TypeOK, RequestShape, Present, EnqueueCommit, IdleRequest
<1>4. HandlerShape'
  BY DEF Shape, HandlerShape, Present, Taken, EnqueueCommit, RequestShape
<1>5. NodeShape'
  BY DEF Shape, NodeShape, Present, Taken, EnqueueCommit, RequestShape
<1>6. ConversationShape'
  BY DEF Shape, ConversationShape, EnqueueCommit
<1>. QED  BY <1>1, <1>2, <1>3, <1>4, <1>5, <1>6 DEF Shape

\* A blocked script, task loaded: the shape is kept.
LEMMA BlockReadShape ==
    ASSUME Shape, NEW r \in Requests, BlockRead(r)
    PROVE  Shape'
<1>1. TypeOK'
  <2>1. taskStatus[request[r].task] \in TaskStatus
    BY DEF Shape, TypeOK, RequestShape, BlockRead
  <2>2. request' \in [Requests -> RequestState]
    <3>1. [request[r] EXCEPT !.pc = "block", !.read = taskStatus[request[r].task]]
            \in RequestState
      BY <2>1 DEF Shape, TypeOK, RequestState
    <3>. QED  BY <3>1 DEF Shape, TypeOK, BlockRead
  <2>. QED  BY <2>1, <2>2 DEF Shape, TypeOK, BlockRead, rows, history
<1>2. RowsShape'
  BY DEF Shape, RowsShape, Present, BlockRead, rows
<1>3. RequestShape'
  BY DEF Shape, TypeOK, RequestShape, Present, BlockRead, rows
<1>4. HandlerShape'
  BY DEF Shape, HandlerShape, Present, Taken, BlockRead, rows
<1>5. NodeShape'
  BY DEF Shape, NodeShape, Present, Taken, BlockRead, rows
<1>6. ConversationShape'
  BY DEF Shape, ConversationShape, BlockRead
<1>. QED  BY <1>1, <1>2, <1>3, <1>4, <1>5, <1>6 DEF Shape

\* A blocked script, FAILED saved: the shape is kept.
LEMMA BlockCommitShape ==
    ASSUME Shape, NEW r \in Requests, BlockCommit(r)
    PROVE  Shape'
<1>1. TypeOK'
  <2>1. request' \in [Requests -> RequestState]
    BY IdleTypes DEF Shape, TypeOK, BlockCommit
  <2>2. taskStatus' \in [Tasks -> TaskStatus]
    BY WrittenType DEF Shape, TaskStatus, BlockCommit
  <2>. QED  BY <2>1, <2>2 DEF Shape, TypeOK, BlockCommit, history
<1>2. RowsShape'
  BY DEF Shape, RowsShape, Present, BlockCommit
<1>3. RequestShape'
  BY DEF Shape, RequestShape, Present, BlockCommit, IdleRequest
<1>4. HandlerShape'
  BY DEF Shape, HandlerShape, Present, Taken, BlockCommit
<1>5. NodeShape'
  BY DEF Shape, NodeShape, Present, Taken, BlockCommit
<1>6. ConversationShape'
  BY DEF Shape, ConversationShape, BlockCommit
<1>. QED  BY <1>1, <1>2, <1>3, <1>4, <1>5, <1>6 DEF Shape

\* A rolled back executeTask keeps the shape: its command was never there.
LEMMA ExecuteFailsShape ==
    ASSUME Shape, NEW r \in Requests, ExecuteFails(r)
    PROVE  Shape'
<1>1. TypeOK'
  <2>1. request' \in [Requests -> RequestState]
    BY IdleTypes DEF Shape, TypeOK, ExecuteFails
  <2>2. faults' \in 0 .. MaxFaults
    BY BoundAssumption DEF Shape, TypeOK, ExecuteFails, Fault
  <2>. QED  BY <2>1, <2>2 DEF Shape, TypeOK, ExecuteFails, rows, history
<1>2. RowsShape'
  BY DEF Shape, RowsShape, Present, ExecuteFails, rows
<1>3. RequestShape'
  BY DEF Shape, RequestShape, Present, ExecuteFails, IdleRequest, rows
<1>4. HandlerShape'
  BY DEF Shape, HandlerShape, Present, Taken, ExecuteFails, rows
<1>5. NodeShape'
  BY DEF Shape, NodeShape, Present, Taken, ExecuteFails, rows
<1>6. ConversationShape'
  BY DEF Shape, ConversationShape, ExecuteFails
<1>. QED  BY <1>1, <1>2, <1>3, <1>4, <1>5, <1>6 DEF Shape

\* The SELECT of a claim keeps the shape: what it finds is a command that is
\* there.
LEMMA ClaimReadShape ==
    ASSUME Shape, NEW h \in Handlers, ClaimRead(h)
    PROVE  Shape'
<1>1. TypeOK'
  <2>1. handler' \in [Handlers -> HandlerState]
    <3>1. ASSUME NEW c \in Commands
          PROVE  [handler[h] EXCEPT !.pc = "read", !.cmd = c] \in HandlerState
      BY DEF Shape, TypeOK, HandlerState
    <3>2. CASE Respond(h, "done", NoCommand)
      BY <3>2, RespondType DEF Shape
    <3>. QED  BY <3>1, <3>2 DEF Shape, TypeOK, ClaimRead, Queued
  <2>. QED  BY <2>1 DEF Shape, TypeOK, ClaimRead, rows, history
<1>2. RowsShape'
  BY DEF Shape, RowsShape, Present, ClaimRead, rows
<1>3. RequestShape'
  BY DEF Shape, RequestShape, Present, ClaimRead, rows
<1>4. HandlerShape'
  <2>1. handler[h].op = "claim" /\ handler[h].pc = "start" /\ UNCHANGED <<rows, node>>
    BY DEF ClaimRead
  <2>2. CASE Respond(h, "done", NoCommand)
    BY <2>1, <2>2 DEF Shape, HandlerShape, Present, Taken, Respond,
           FreeHandler, rows
  <2>3. ASSUME NEW c \in Commands, Present(c),
               handler' = [handler EXCEPT ![h].pc = "read", ![h].cmd = c]
        PROVE  HandlerShape'
    BY <2>1, <2>3 DEF Shape, TypeOK, HandlerShape, Present, Taken, rows
  <2>. QED  BY <2>2, <2>3 DEF ClaimRead, Queued, Present
<1>5. NodeShape'
  BY DEF Shape, NodeShape, Present, Taken, ClaimRead, rows
<1>6. ConversationShape'
  <2>1. handler[h].op = "claim" /\ handler[h].pc = "start" /\ UNCHANGED <<rows, node>>
    BY DEF ClaimRead
  <2>2. CASE Respond(h, "done", NoCommand)
    BY <2>1, <2>2 DEF Shape, ConversationShape, Respond, FreeHandler
  <2>3. ASSUME NEW c \in Commands, Present(c),
               handler' = [handler EXCEPT ![h].pc = "read", ![h].cmd = c]
        PROVE  ConversationShape'
    BY <2>1, <2>3 DEF Shape, TypeOK, ConversationShape
  <2>. QED  BY <2>2, <2>3 DEF ClaimRead, Queued, Present
<1>. QED  BY <1>1, <1>2, <1>3, <1>4, <1>5, <1>6 DEF Shape

\* The UPDATE of a claim keeps the shape: what it hands out has left the
\* queue.
LEMMA ClaimCommitShape ==
    ASSUME Shape, NEW h \in Handlers, ClaimCommit(h)
    PROVE  Shape'
<1>1. TypeOK'
  <2>1. handler' \in [Handlers -> HandlerState]
    <3>1. handler[h].cmd \in Commands \cup {NoCommand}
      BY DEF Shape, TypeOK, HandlerState
    <3>. QED  BY <3>1, RespondType DEF Shape, ClaimCommit
  <2>2. cmdStatus' \in [Commands -> NodeCommandStatus \cup {"ABSENT"}]
    BY DEF Shape, TypeOK, ClaimCommit, NodeCommandStatus
  <2>. QED  BY <2>1, <2>2 DEF Shape, TypeOK, ClaimCommit, history
<1>2. RowsShape'
  BY DEF Shape, RowsShape, Present, ClaimCommit, HandlerShape
<1>3. RequestShape'
  BY DEF Shape, RequestShape, Present, ClaimCommit, HandlerShape
<1>4. HandlerShape'
  BY DEF Shape, TypeOK, HandlerShape, Present, Taken, ClaimCommit, Respond,
         FreeHandler
<1>5. NodeShape'
  BY DEF Shape, NodeShape, Present, Taken, ClaimCommit
<1>6. ConversationShape'
  BY DEF Shape, ConversationShape, ClaimCommit, Respond, FreeHandler
<1>. QED  BY <1>1, <1>2, <1>3, <1>4, <1>5, <1>6 DEF Shape

\* findById of a result keeps the shape.
LEMMA ResultReadShape ==
    ASSUME Shape, NEW h \in Handlers, ResultRead(h)
    PROVE  Shape'
<1>1. TypeOK'
  <2>1. handler' \in [Handlers -> HandlerState]
    <3>1. [handler[h] EXCEPT !.pc = "read"] \in HandlerState
      BY DEF Shape, TypeOK, HandlerState
    <3>2. handler[h].cmd \in Commands \cup {NoCommand}
      BY DEF Shape, TypeOK, HandlerState
    <3>3. CASE Respond(h, "error", handler[h].cmd)
      BY <3>2, <3>3, RespondType DEF Shape
    <3>. QED  BY <3>1, <3>3 DEF Shape, TypeOK, ResultRead
  <2>. QED  BY <2>1 DEF Shape, TypeOK, ResultRead, rows, history
<1>2. RowsShape'
  BY DEF Shape, RowsShape, Present, ResultRead, rows
<1>3. RequestShape'
  BY DEF Shape, RequestShape, Present, ResultRead, rows
<1>4. HandlerShape'
  <2>1. CASE Respond(h, "error", handler[h].cmd)
    BY <2>1 DEF Shape, HandlerShape, Present, Taken, ResultRead, Respond,
           FreeHandler, rows
  <2>2. CASE handler' = [handler EXCEPT ![h].pc = "read"]
    BY <2>2 DEF Shape, HandlerShape, Present, Taken, ResultRead, rows
  <2>. QED  BY <2>1, <2>2 DEF ResultRead
<1>5. NodeShape'
  BY DEF Shape, NodeShape, Present, Taken, ResultRead, rows
<1>6. ConversationShape'
  <2>1. CASE Respond(h, "error", handler[h].cmd)
    BY <2>1 DEF Shape, ConversationShape, ResultRead, Respond, FreeHandler
  <2>2. CASE handler' = [handler EXCEPT ![h].pc = "read"]
    BY <2>2 DEF Shape, ConversationShape, ResultRead
  <2>. QED  BY <2>1, <2>2 DEF ResultRead
<1>. QED  BY <1>1, <1>2, <1>3, <1>4, <1>5, <1>6 DEF Shape

\* The load of the task by a result keeps the shape: the command has a task.
LEMMA ResultLoadTaskShape ==
    ASSUME Shape, NEW h \in Handlers, ResultLoadTask(h)
    PROVE  Shape'
<1>1. TypeOK'
  <2>1. taskStatus[cmdTask[handler[h].cmd]] \in TaskStatus
    BY DEF Shape, TypeOK, RowsShape, HandlerShape, Present, Taken,
           ResultLoadTask
  <2>2. handler' \in [Handlers -> HandlerState]
    <3>1. [handler[h] EXCEPT !.pc = "loaded", !.read = taskStatus[cmdTask[handler[h].cmd]]]
            \in HandlerState
      BY <2>1 DEF Shape, TypeOK, HandlerState
    <3>. QED  BY <3>1 DEF Shape, TypeOK, ResultLoadTask
  <2>. QED  BY <2>1, <2>2 DEF Shape, TypeOK, ResultLoadTask, rows, history
<1>2. RowsShape'
  BY DEF Shape, RowsShape, Present, ResultLoadTask, rows
<1>3. RequestShape'
  BY DEF Shape, RequestShape, Present, ResultLoadTask, rows
<1>4. HandlerShape'
  BY DEF Shape, TypeOK, HandlerShape, Present, Taken, ResultLoadTask, rows
<1>5. NodeShape'
  BY DEF Shape, NodeShape, Present, Taken, ResultLoadTask, rows
<1>6. ConversationShape'
  BY DEF Shape, TypeOK, ConversationShape, ResultLoadTask
<1>. QED  BY <1>1, <1>2, <1>3, <1>4, <1>5, <1>6 DEF Shape

\* The commit of a result keeps the shape: a settled command stays out of the
\* queue.
LEMMA ResultCommitShape ==
    ASSUME Shape, NEW h \in Handlers, ResultCommit(h)
    PROVE  Shape'
<1>1. TypeOK'
  <2>1. handler' \in [Handlers -> HandlerState]
    <3>1. handler[h].cmd \in Commands \cup {NoCommand}
      BY DEF Shape, TypeOK, HandlerState
    <3>. QED  BY <3>1, RespondType DEF Shape, ResultCommit
  <2>2. taskStatus' \in [Tasks -> TaskStatus]
    BY WrittenType DEF Shape, TaskStatus, ResultCommit
  <2>3. cmdStatus' \in [Commands -> NodeCommandStatus \cup {"ABSENT"}]
    BY DEF Shape, TypeOK, ResultCommit, NodeCommandStatus
  <2>. QED  BY <2>1, <2>2, <2>3 DEF Shape, TypeOK, ResultCommit, history
<1>2. RowsShape'
  BY DEF Shape, RowsShape, Present, ResultCommit, HandlerShape, Taken
<1>3. RequestShape'
  BY DEF Shape, RequestShape, Present, ResultCommit, HandlerShape, Taken
<1>4. HandlerShape'
  BY DEF Shape, HandlerShape, Present, Taken, ResultCommit, Respond, FreeHandler
<1>5. NodeShape'
  BY DEF Shape, NodeShape, Present, Taken, ResultCommit
<1>6. ConversationShape'
  BY DEF Shape, ConversationShape, ResultCommit, Respond, FreeHandler
<1>. QED  BY <1>1, <1>2, <1>3, <1>4, <1>5, <1>6 DEF Shape

\* A rolled back node request keeps the shape.
LEMMA HandlerFailsShape ==
    ASSUME Shape, NEW h \in Handlers, HandlerFails(h)
    PROVE  Shape'
<1>1. TypeOK'
  <2>1. handler' \in [Handlers -> HandlerState]
    <3>1. handler[h].cmd \in Commands \cup {NoCommand}
      BY DEF Shape, TypeOK, HandlerState
    <3>. QED  BY <3>1, RespondType DEF Shape, HandlerFails
  <2>2. faults' \in 0 .. MaxFaults
    BY BoundAssumption DEF Shape, TypeOK, HandlerFails, Fault
  <2>. QED  BY <2>1, <2>2 DEF Shape, TypeOK, HandlerFails, rows, history
<1>2. RowsShape'
  BY DEF Shape, RowsShape, Present, HandlerFails, rows
<1>3. RequestShape'
  BY DEF Shape, RequestShape, Present, HandlerFails, rows
<1>4. HandlerShape'
  BY DEF Shape, HandlerShape, Present, Taken, HandlerFails, Respond,
         FreeHandler, rows
<1>5. NodeShape'
  BY DEF Shape, NodeShape, Present, Taken, HandlerFails, rows
<1>6. ConversationShape'
  BY DEF Shape, ConversationShape, HandlerFails, Respond, FreeHandler
<1>. QED  BY <1>1, <1>2, <1>3, <1>4, <1>5, <1>6 DEF Shape

\* next_command sent: the process waits for this thread only.
LEMMA PollShape ==
    ASSUME Shape, NEW n \in Nodes, NEW h \in Handlers, Poll(n, h)
    PROVE  Shape'
<1>1. TypeOK'
  <2>1. handler' \in [Handlers -> HandlerState]
    BY SendType DEF Shape, Poll
  <2>2. node' \in [Nodes -> NodeState]
    BY IdleTypes DEF Shape, TypeOK, Poll
  <2>. QED  BY <2>1, <2>2 DEF Shape, TypeOK, Poll, rows, history
<1>2. RowsShape'
  BY DEF Shape, RowsShape, Present, Poll, rows
<1>3. RequestShape'
  BY DEF Shape, RequestShape, Present, Poll, rows
<1>4. HandlerShape'
  BY DEF Shape, HandlerShape, Present, Taken, Poll, Send, FreeHandler, rows
<1>5. NodeShape'
  BY DEF Shape, NodeShape, Present, Taken, Poll, NodeAt, rows
<1>6. ConversationShape'
  BY DEF Shape, TypeOK, ConversationShape, Poll, Send, NodeAt
<1>. QED  BY <1>1, <1>2, <1>3, <1>4, <1>5, <1>6 DEF Shape

\* next_command answered: a process takes a command only if it was taken from
\* the queue, and a doctor takes none.
LEMMA PollResponseShape ==
    ASSUME Shape, NEW n \in Nodes, NEW h \in Handlers, PollResponse(n, h)
    PROVE  Shape'
<1>1. TypeOK'
  <2>1. handler' \in [Handlers -> HandlerState]
    BY IdleTypes DEF Shape, TypeOK, PollResponse
  <2>2. node' \in [Nodes -> NodeState]
    <3>1. [NodeAt("claimed") EXCEPT !.cmd = handler[h].cmd] \in NodeState
      BY DEF Shape, TypeOK, HandlerState, NodeState, NodeAt
    <3>. QED  BY <3>1, IdleTypes DEF Shape, TypeOK, PollResponse
  <2>. QED  BY <2>1, <2>2 DEF Shape, TypeOK, PollResponse, rows, history
<1>2. RowsShape'
  BY DEF Shape, RowsShape, Present, PollResponse, rows
<1>3. RequestShape'
  BY DEF Shape, RequestShape, Present, PollResponse, rows
<1>4. HandlerShape'
  BY DEF Shape, HandlerShape, Present, Taken, PollResponse, FreeHandler, rows
<1>5. NodeShape'
  BY DEF Shape, NodeShape, Present, Taken, PollResponse, NodeAt, HandlerShape,
         ConversationShape, rows
<1>6. ConversationShape'
  BY DEF Shape, TypeOK, ConversationShape, PollResponse, FreeHandler
<1>. QED  BY <1>1, <1>2, <1>3, <1>4, <1>5, <1>6 DEF Shape

\* command_result sent: the process waits for this thread only, about its own
\* command.
LEMMA ReportShape ==
    ASSUME Shape, NEW n \in Nodes, NEW h \in Handlers, Report(n, h)
    PROVE  Shape'
<1>1. TypeOK'
  <2>1. handler' \in [Handlers -> HandlerState]
    <3>1. node[n].cmd \in Commands \cup {NoCommand} /\ node[n].ok \in BOOLEAN
      BY DEF Shape, TypeOK, NodeState
    <3>. QED  BY <3>1, SendType DEF Shape, Report
  <2>2. node' \in [Nodes -> NodeState]
    BY DEF Shape, TypeOK, NodeState, Report
  <2>. QED  BY <2>1, <2>2 DEF Shape, TypeOK, Report, rows, history
<1>2. RowsShape'
  BY DEF Shape, RowsShape, Present, Report, rows
<1>3. RequestShape'
  BY DEF Shape, RequestShape, Present, Report, rows
<1>4. HandlerShape'
  BY DEF Shape, HandlerShape, Present, Taken, Report, Send, NodeShape, rows
<1>5. NodeShape'
  BY DEF Shape, NodeShape, Present, Taken, Report, rows
<1>6. ConversationShape'
  BY DEF Shape, TypeOK, ConversationShape, Report, Send
<1>. QED  BY <1>1, <1>2, <1>3, <1>4, <1>5, <1>6 DEF Shape

\* command_result answered: the process lets the command go.
LEMMA ReportResponseShape ==
    ASSUME Shape, NEW n \in Nodes, NEW h \in Handlers, ReportResponse(n, h)
    PROVE  Shape'
<1>1. TypeOK'
  <2>1. handler' \in [Handlers -> HandlerState]
    BY IdleTypes DEF Shape, TypeOK, ReportResponse
  <2>2. node' \in [Nodes -> NodeState]
    BY IdleTypes DEF Shape, TypeOK, ReportResponse
  <2>. QED  BY <2>1, <2>2 DEF Shape, TypeOK, ReportResponse, rows, history
<1>2. RowsShape'
  BY DEF Shape, RowsShape, Present, ReportResponse, rows
<1>3. RequestShape'
  BY DEF Shape, RequestShape, Present, ReportResponse, rows
<1>4. HandlerShape'
  BY DEF Shape, HandlerShape, Present, Taken, ReportResponse, FreeHandler, rows
<1>5. NodeShape'
  BY DEF Shape, NodeShape, Present, Taken, ReportResponse, NodeAt, rows
<1>6. ConversationShape'
  BY DEF Shape, TypeOK, ConversationShape, ReportResponse, FreeHandler
<1>. QED  BY <1>1, <1>2, <1>3, <1>4, <1>5, <1>6 DEF Shape

\* A lost request leaves neither a process nor a thread waiting.
LEMMA RequestLostShape ==
    ASSUME Shape, NEW n \in Nodes, NEW h \in Handlers, RequestLost(n, h)
    PROVE  Shape'
<1>1. TypeOK'
  <2>1. handler' \in [Handlers -> HandlerState]
    BY IdleTypes DEF Shape, TypeOK, RequestLost
  <2>2. node' \in [Nodes -> NodeState]
    BY IdleTypes DEF Shape, TypeOK, RequestLost
  <2>3. faults' \in 0 .. MaxFaults
    BY BoundAssumption DEF Shape, TypeOK, RequestLost, Fault
  <2>. QED  BY <2>1, <2>2, <2>3 DEF Shape, TypeOK, RequestLost, rows, history
<1>2. RowsShape'
  BY DEF Shape, RowsShape, Present, RequestLost, rows
<1>3. RequestShape'
  BY DEF Shape, RequestShape, Present, RequestLost, rows
<1>4. HandlerShape'
  BY DEF Shape, HandlerShape, Present, Taken, RequestLost, FreeHandler, rows
<1>5. NodeShape'
  BY DEF Shape, NodeShape, Present, Taken, RequestLost, NodeAt, rows
<1>6. ConversationShape'
  BY DEF Shape, TypeOK, ConversationShape, RequestLost, FreeHandler
<1>. QED  BY <1>1, <1>2, <1>3, <1>4, <1>5, <1>6 DEF Shape

\* execute_script keeps the command with the process.
LEMMA ExecuteScriptShape ==
    ASSUME Shape, NEW n \in Nodes, NEW ok \in BOOLEAN, ExecuteScript(n, ok)
    PROVE  Shape'
<1>1. TypeOK'
  <2>1. node' \in [Nodes -> NodeState]
    BY ZenonT(40) DEF Shape, TypeOK, NodeState, ExecuteScript
  <2>2. runs' \in [Commands -> Nat] /\ succeeded' \subseteq Commands
    BY DEF Shape, TypeOK, NodeShape, Taken, Present, ExecuteScript
  <2>. QED  BY <2>1, <2>2 DEF Shape, TypeOK, ExecuteScript, rows
<1>2. RowsShape'
  BY DEF Shape, RowsShape, Present, ExecuteScript, rows
<1>3. RequestShape'
  BY DEF Shape, RequestShape, Present, ExecuteScript, rows
<1>4. HandlerShape'
  BY DEF Shape, HandlerShape, Present, Taken, ExecuteScript, rows
<1>5. NodeShape'
  BY DEF Shape, TypeOK, NodeShape, Present, Taken, ExecuteScript, rows
<1>6. ConversationShape'
  BY DEF Shape, TypeOK, ConversationShape, ExecuteScript, HandlerShape
<1>. QED  BY <1>1, <1>2, <1>3, <1>4, <1>5, <1>6 DEF Shape

\* A refused script keeps the command with the process.
LEMMA RefuseScriptShape ==
    ASSUME Shape, NEW n \in Nodes, RefuseScript(n)
    PROVE  Shape'
<1>1. TypeOK'
  <2>1. node' \in [Nodes -> NodeState]
    BY ZenonT(40) DEF Shape, TypeOK, NodeState, RefuseScript
  <2>. QED  BY <2>1 DEF Shape, TypeOK, RefuseScript, rows, history
<1>2. RowsShape'
  BY DEF Shape, RowsShape, Present, RefuseScript, rows
<1>3. RequestShape'
  BY DEF Shape, RequestShape, Present, RefuseScript, rows
<1>4. HandlerShape'
  BY DEF Shape, HandlerShape, Present, Taken, RefuseScript, rows
<1>5. NodeShape'
  BY DEF Shape, TypeOK, NodeShape, Present, Taken, RefuseScript, rows
<1>6. ConversationShape'
  BY DEF Shape, TypeOK, ConversationShape, RefuseScript, HandlerShape
<1>. QED  BY <1>1, <1>2, <1>3, <1>4, <1>5, <1>6 DEF Shape

\* A process that stops lets its command go, and the thread that serves it
\* serves nobody.
LEMMA NodeFailsShape == ASSUME Shape, NEW n \in Nodes, NodeFails(n) PROVE Shape'
<1>1. TypeOK'
  <2>1. handler' \in [Handlers -> HandlerState]
    <3>1. ASSUME NEW h \in Handlers
          PROVE  [handler[h] EXCEPT !.live = FALSE] \in HandlerState
      BY DEF Shape, TypeOK, HandlerState
    <3>. QED  BY <3>1, IdleTypes DEF Shape, TypeOK, NodeFails
  <2>2. node' \in [Nodes -> NodeState]
    BY IdleTypes DEF Shape, TypeOK, NodeFails
  <2>3. faults' \in 0 .. MaxFaults
    BY BoundAssumption DEF Shape, TypeOK, NodeFails, Fault
  <2>. QED  BY <2>1, <2>2, <2>3 DEF Shape, TypeOK, NodeFails, rows, history
<1>2. RowsShape'
  BY DEF Shape, RowsShape, Present, NodeFails, rows
<1>3. RequestShape'
  BY DEF Shape, RequestShape, Present, NodeFails, rows
<1>4. HandlerShape'
  BY DEF Shape, HandlerShape, Present, Taken, NodeFails, FreeHandler, rows
<1>5. NodeShape'
  BY DEF Shape, NodeShape, Present, Taken, NodeFails, NodeAt, rows
<1>6. ConversationShape'
  BY DEF Shape, ConversationShape, NodeFails, FreeHandler
<1>. QED  BY <1>1, <1>2, <1>3, <1>4, <1>5, <1>6 DEF Shape

\* A process that is started again holds no command.
LEMMA NodeRestartShape ==
    ASSUME Shape, NEW n \in Nodes, NodeRestart(n)
    PROVE  Shape'
<1>1. TypeOK'
  <2>1. node' \in [Nodes -> NodeState]
    BY IdleTypes DEF Shape, TypeOK, NodeRestart
  <2>. QED  BY <2>1 DEF Shape, TypeOK, NodeRestart, rows, history
<1>2. RowsShape'
  BY DEF Shape, RowsShape, Present, NodeRestart, rows
<1>3. RequestShape'
  BY DEF Shape, RequestShape, Present, NodeRestart, rows
<1>4. HandlerShape'
  BY DEF Shape, HandlerShape, Present, Taken, NodeRestart, rows
<1>5. NodeShape'
  BY DEF Shape, NodeShape, Present, Taken, NodeRestart, NodeAt, rows
<1>6. ConversationShape'
  BY DEF Shape, ConversationShape, NodeRestart
<1>. QED  BY <1>1, <1>2, <1>3, <1>4, <1>5, <1>6 DEF Shape
-----------------------------------------------------------------------------
\* The shape holds of an empty queue and idle threads and processes.
LEMMA InitShape == Init => Shape
<1>. SUFFICES ASSUME Init PROVE Shape
  OBVIOUS
<1>1. TypeOK
  BY IdleTypes, BoundAssumption
  DEF Init, TypeOK, TaskStatus, NodeCommandStatus
<1>2. RowsShape /\ RequestShape
  BY DEF Init, RowsShape, RequestShape, Present, IdleRequest
<1>3. HandlerShape /\ NodeShape /\ ConversationShape
  BY DEF Init, HandlerShape, NodeShape, ConversationShape, FreeHandler, NodeAt
<1>. QED  BY <1>1, <1>2, <1>3 DEF Shape

\* Every step of the backend and of the node runtime keeps the shape.
LEMMA ShapeStep == Shape /\ [Next]_vars => Shape'
<1>. SUFFICES ASSUME Shape, [Next]_vars PROVE Shape'
  OBVIOUS
<1>1. CASE UNCHANGED vars
  BY <1>1 DEF vars, rows, history, Shape, TypeOK, RowsShape, RequestShape,
         HandlerShape, NodeShape, ConversationShape, Present, Taken
<1>2. CASE ExecuteNext
  BY <1>2, ExecuteTaskShape, EnqueueReadShape, EnqueueCommitShape, BlockReadShape,
     BlockCommitShape, ExecuteFailsShape DEF ExecuteNext
<1>3. CASE HandlerNext
  BY <1>3, ClaimReadShape, ClaimCommitShape, ResultReadShape, ResultLoadTaskShape,
     ResultCommitShape, HandlerFailsShape DEF HandlerNext
<1>4. CASE NodeNext
  BY <1>4, PollShape, PollResponseShape, ReportShape, ReportResponseShape,
     RequestLostShape, ExecuteScriptShape, RefuseScriptShape, NodeFailsShape,
     NodeRestartShape DEF NodeNext
<1>. QED  BY <1>1, <1>2, <1>3, <1>4 DEF Next

\* The shape holds always: a process that holds a command holds one that left
\* the queue (claimNextCommand), and waits for the one thread that serves it.
THEOREM ShapeInvariant == Spec => []Shape
BY InitShape, ShapeStep, PTL DEF Spec

\* Type correctness of the rows, the backend threads and the processes.
THEOREM TypeCorrect == Spec => []TypeOK
<1>1. Shape => TypeOK
  BY DEF Shape
<1>. QED  BY <1>1, ShapeInvariant, PTL
-----------------------------------------------------------------------------
\* A task IN_PROGRESS has a command not settled such that no result of it, about
\* to commit, has loaded the task with another status and would skip its UPDATE.
Outstanding ==
    \A t \in Tasks :
        taskStatus[t] = "IN_PROGRESS" =>
            \E c \in Commands :
                /\ cmdTask[c] = t /\ cmdStatus[c] \in {"QUEUED", "CLAIMED"}
                /\ \A h \in Handlers :
                     /\ handler[h].op = "result" /\ handler[h].pc = "loaded"
                     /\ handler[h].cmd = c
                     => handler[h].read = "IN_PROGRESS"

\* What is reported of a command, and recorded, was earned by a run of it.
Earned ==
    /\ \A n \in Nodes : node[n].ok => node[n].cmd \in succeeded
    /\ \A h \in Handlers : handler[h].op = "result" /\ handler[h].ok =>
                             handler[h].cmd \in succeeded
    /\ \A c \in succeeded : Present(c)
    /\ CompletedWasRun

\* A task with a command is on record as started, and will be when the enqueue
\* transactions that skip their UPDATE commit.
NotStarted == {"PENDING", "ANALYZED"}
Started ==
    /\ \A c \in Commands : Present(c) => taskStatus[cmdTask[c]] \notin NotStarted
    /\ \A r \in Requests :
         request[r].pc = "enqueue" /\ request[r].read \notin NotStarted =>
            taskStatus[request[r].task] \notin NotStarted
    /\ \A c \in Commands : runs[c] > 0 => Present(c)

\* With one runner on a device, a command that this runner holds and has not run,
\* or is about to be handed, was never run.
Sole ==
    /\ AtMostOnce
    /\ RightDevice
    /\ \A c \in Commands : ~Taken(c) => runs[c] = 0
    /\ \A n \in Nodes : node[n].pc = "claimed" => runs[node[n].cmd] = 0
    /\ \A h \in Handlers :
         /\ handler[h].op = "claim" /\ handler[h].pc \in {"read", "done"}
         /\ handler[h].cmd # NoCommand
         => /\ Target[cmdTask[handler[h].cmd]] = DeviceOf[handler[h].client]
            /\ handler[h].live /\ handler[h].client \notin Doctors =>
                 runs[handler[h].cmd] = 0
-----------------------------------------------------------------------------
\* The SELECT of a claim touches no result under way.
LEMMA ClaimReadHandlers ==
    ASSUME Shape, NEW h \in Handlers, ClaimRead(h)
    PROVE  \A g \in Handlers : handler'[g].op = "result" => handler'[g] = handler[g]
<1>1. CASE Respond(h, "done", NoCommand)
  BY <1>1 DEF Shape, TypeOK, HandlerState, ClaimRead, Respond, FreeHandler
<1>2. ASSUME NEW c \in Commands, handler' = [handler EXCEPT ![h].pc = "read", ![h].cmd = c]
      PROVE  \A g \in Handlers : handler'[g].op = "result" => handler'[g] = handler[g]
  BY <1>2 DEF Shape, TypeOK, HandlerState, ClaimRead
<1>. QED  BY <1>1, <1>2 DEF ClaimRead, Queued

\* findById of a result touches no claim, and of the results only the one it
\* reads, which it does not yet load the task for.
LEMMA ResultReadHandlers ==
    ASSUME Shape, NEW h \in Handlers, ResultRead(h)
    PROVE  \A g \in Handlers :
             /\ handler'[g].op = "claim" => handler'[g] = handler[g]
             /\ handler'[g].op = "result" =>
                  /\ handler[g].op = "result"
                  /\ handler'[g].cmd = handler[g].cmd /\ handler'[g].ok = handler[g].ok
                  /\ handler'[g].pc = "loaded" => handler'[g] = handler[g]
<1>. DEFINE c == handler[h].cmd
<1>1. CASE handler' = [handler EXCEPT ![h].pc = "read"]
  BY <1>1 DEF Shape, TypeOK, HandlerState, ResultRead
<1>2. CASE Respond(h, "error", c)
  BY <1>2 DEF Shape, TypeOK, HandlerState, ResultRead, Respond, FreeHandler
<1>. QED  BY <1>1, <1>2 DEF ResultRead

\* Every step keeps tasks with a command on record as started: an enqueue
\* that skips its UPDATE had loaded a status past ANALYZED, and no step
\* writes a status back to PENDING or ANALYZED.
LEMMA StartedStep ==
    ASSUME Shape, Started, Next
    PROVE  Started'
<1>1. ASSUME NEW r \in Requests, NEW t \in Tasks, ExecuteTask(r, t)
     PROVE  Started'
  BY <1>1 DEF Shape, TypeOK, Started, NotStarted, Present, rows, history,
         ExecuteTask, RequestState, IdleRequest
<1>2. ASSUME NEW r \in Requests, EnqueueRead(r)
     PROVE  Started'
  BY <1>2 DEF Shape, TypeOK, Started, NotStarted, Present, rows, history,
         EnqueueRead, RequestState, RequestShape
<1>3. ASSUME NEW r \in Requests, EnqueueCommit(r)
     PROVE  Started'
  BY <1>3 DEF Shape, TypeOK, Started, NotStarted, Present, rows, history,
         EnqueueCommit, RequestState, IdleRequest, Written, RequestShape,
         RowsShape
<1>4. ASSUME NEW r \in Requests, BlockRead(r)
     PROVE  Started'
  BY <1>4 DEF Shape, TypeOK, Started, NotStarted, Present, rows, history,
         BlockRead, RequestState
<1>5. ASSUME NEW r \in Requests, BlockCommit(r)
     PROVE  Started'
  BY <1>5 DEF Shape, TypeOK, Started, NotStarted, Present, rows, history,
         BlockCommit, RequestState, IdleRequest, Written, RequestShape,
         RowsShape
<1>6. ASSUME NEW r \in Requests, ExecuteFails(r)
     PROVE  Started'
  BY <1>6 DEF Shape, TypeOK, Started, NotStarted, Present, rows, history,
         ExecuteFails, IdleRequest
<1>7. ASSUME NEW h \in Handlers, ClaimRead(h)
     PROVE  Started'
  BY <1>7 DEF Shape, TypeOK, Started, NotStarted, Present, rows, history,
         ClaimRead
<1>8. ASSUME NEW h \in Handlers, ClaimCommit(h)
     PROVE  Started'
  BY <1>8 DEF Shape, TypeOK, Started, NotStarted, Present, rows, history,
         ClaimCommit, HandlerShape
<1>9. ASSUME NEW h \in Handlers, ResultRead(h)
     PROVE  Started'
  BY <1>9 DEF Shape, TypeOK, Started, NotStarted, Present, rows, history,
         ResultRead
<1>10. ASSUME NEW h \in Handlers, ResultLoadTask(h)
      PROVE  Started'
  BY <1>10 DEF Shape, TypeOK, Started, NotStarted, Present, rows, history,
         ResultLoadTask
<1>11. ASSUME NEW h \in Handlers, ResultCommit(h)
      PROVE  Started'
  BY <1>11 DEF Shape, TypeOK, Started, NotStarted, Present, rows, history,
         ResultCommit, Written, HandlerShape, RowsShape, Taken
<1>12. ASSUME NEW h \in Handlers, HandlerFails(h)
      PROVE  Started'
  BY <1>12 DEF Shape, TypeOK, Started, NotStarted, Present, rows, history,
         HandlerFails
<1>13. ASSUME NEW n \in Nodes, NEW h \in Handlers, Poll(n, h)
      PROVE  Started'
  BY <1>13 DEF Shape, TypeOK, Started, NotStarted, Present, rows, history, Poll
<1>14. ASSUME NEW n \in Nodes, NEW h \in Handlers, PollResponse(n, h)
      PROVE  Started'
  BY <1>14 DEF Shape, TypeOK, Started, NotStarted, Present, rows, history,
         PollResponse
<1>15. ASSUME NEW n \in Nodes, NEW h \in Handlers, Report(n, h)
      PROVE  Started'
  BY <1>15 DEF Shape, TypeOK, Started, NotStarted, Present, rows, history,
         Report
<1>16. ASSUME NEW n \in Nodes, NEW h \in Handlers, ReportResponse(n, h)
      PROVE  Started'
  BY <1>16 DEF Shape, TypeOK, Started, NotStarted, Present, rows, history,
         ReportResponse
<1>17. ASSUME NEW n \in Nodes, NEW h \in Handlers, RequestLost(n, h)
      PROVE  Started'
  BY <1>17 DEF Shape, TypeOK, Started, NotStarted, Present, rows, history,
         RequestLost
<1>18. ASSUME NEW n \in Nodes, NEW ok \in BOOLEAN, ExecuteScript(n, ok)
      PROVE  Started'
  BY <1>18 DEF Shape, TypeOK, Started, NotStarted, Present, rows, history,
         ExecuteScript, NodeShape, Taken
<1>19. ASSUME NEW n \in Nodes, RefuseScript(n)
      PROVE  Started'
  BY <1>19 DEF Shape, TypeOK, Started, NotStarted, Present, rows, history,
         RefuseScript
<1>20. ASSUME NEW n \in Nodes, NodeFails(n)
      PROVE  Started'
  BY <1>20 DEF Shape, TypeOK, Started, NotStarted, Present, rows, history,
         NodeFails
<1>21. ASSUME NEW n \in Nodes, NodeRestart(n)
      PROVE  Started'
  BY <1>21 DEF Shape, TypeOK, Started, NotStarted, Present, rows, history,
         NodeRestart
<1>. QED  BY <1>1, <1>2, <1>3, <1>4, <1>5, <1>6, <1>7, <1>8, <1>9, <1>10,
         <1>11, <1>12, <1>13, <1>14, <1>15, <1>16, <1>17, <1>18, <1>19, <1>20,
         <1>21
            DEF Next, ExecuteNext, HandlerNext, NodeNext

\* Every step keeps successes earned: only execute_script makes one, and it
\* is carried unchanged through the report to the result and to the rows.
LEMMA EarnedStep ==
    ASSUME Shape, Earned, Next
    PROVE  Earned'
<1>1. ASSUME NEW r \in Requests, NEW t \in Tasks, ExecuteTask(r, t)
     PROVE  Earned'
  BY <1>1 DEF Shape, TypeOK, Earned, CompletedWasRun, Present, rows, history,
         ExecuteTask
<1>2. ASSUME NEW r \in Requests, EnqueueRead(r)
     PROVE  Earned'
  BY <1>2 DEF Shape, TypeOK, Earned, CompletedWasRun, Present, rows, history,
         EnqueueRead
<1>3. ASSUME NEW r \in Requests, EnqueueCommit(r)
     PROVE  Earned'
  BY <1>3 DEF Shape, TypeOK, Earned, CompletedWasRun, Present, rows, history,
         EnqueueCommit, RequestShape, Written, RequestState
<1>4. ASSUME NEW r \in Requests, BlockRead(r)
     PROVE  Earned'
  BY <1>4 DEF Shape, TypeOK, Earned, CompletedWasRun, Present, rows, history,
         BlockRead
<1>5. ASSUME NEW r \in Requests, BlockCommit(r)
     PROVE  Earned'
  BY <1>5 DEF Shape, TypeOK, Earned, CompletedWasRun, Present, rows, history,
         BlockCommit, Written
<1>6. ASSUME NEW r \in Requests, ExecuteFails(r)
     PROVE  Earned'
  BY <1>6 DEF Shape, TypeOK, Earned, CompletedWasRun, Present, rows, history,
         ExecuteFails
<1>7. ASSUME NEW h \in Handlers, ClaimRead(h)
     PROVE  Earned'
  BY <1>7, ClaimReadHandlers DEF Earned, CompletedWasRun, Present, ClaimRead,
         rows, history
<1>8. ASSUME NEW h \in Handlers, ClaimCommit(h)
     PROVE  Earned'
  BY <1>8 DEF Shape, TypeOK, Earned, CompletedWasRun, Present, rows, history,
         ClaimCommit, HandlerState, Respond, FreeHandler, HandlerShape
<1>9. ASSUME NEW h \in Handlers, ResultRead(h)
     PROVE  Earned'
  BY <1>9, ResultReadHandlers DEF Earned, CompletedWasRun, Present, ResultRead,
         rows, history
<1>10. ASSUME NEW h \in Handlers, ResultLoadTask(h)
      PROVE  Earned'
  BY <1>10 DEF Shape, TypeOK, Earned, CompletedWasRun, Present, rows, history,
         ResultLoadTask, HandlerState
<1>11. ASSUME NEW h \in Handlers, ResultCommit(h)
      PROVE  Earned'
  BY <1>11 DEF Shape, TypeOK, Earned, CompletedWasRun, Present, rows, history,
         ResultCommit, HandlerState, Written, HandlerShape, Taken, Respond,
         FreeHandler
<1>12. ASSUME NEW h \in Handlers, HandlerFails(h)
      PROVE  Earned'
  BY <1>12 DEF Shape, TypeOK, Earned, CompletedWasRun, Present, rows, history,
         HandlerFails, HandlerState, Respond, FreeHandler
<1>13. ASSUME NEW n \in Nodes, NEW h \in Handlers, Poll(n, h)
      PROVE  Earned'
  BY <1>13 DEF Shape, TypeOK, Earned, CompletedWasRun, Present, rows, history,
         Poll, Send, FreeHandler, NodeAt, HandlerState, NodeState
<1>14. ASSUME NEW n \in Nodes, NEW h \in Handlers, PollResponse(n, h)
      PROVE  Earned'
  BY <1>14 DEF Shape, TypeOK, Earned, CompletedWasRun, Present, rows, history,
         PollResponse, FreeHandler, NodeAt, HandlerState, NodeState
<1>15. ASSUME NEW n \in Nodes, NEW h \in Handlers, Report(n, h)
      PROVE  Earned'
  BY <1>15 DEF Shape, TypeOK, Earned, CompletedWasRun, Present, rows, history,
         Report, Send, FreeHandler, HandlerState, NodeState
<1>16. ASSUME NEW n \in Nodes, NEW h \in Handlers, ReportResponse(n, h)
      PROVE  Earned'
  BY <1>16 DEF Shape, TypeOK, Earned, CompletedWasRun, Present, rows, history,
         ReportResponse, FreeHandler, NodeAt, HandlerState, NodeState
<1>17. ASSUME NEW n \in Nodes, NEW h \in Handlers, RequestLost(n, h)
      PROVE  Earned'
  BY <1>17 DEF Shape, TypeOK, Earned, CompletedWasRun, Present, rows, history,
         RequestLost, FreeHandler, NodeAt, HandlerState, NodeState
<1>18. ASSUME NEW n \in Nodes, NEW ok \in BOOLEAN, ExecuteScript(n, ok)
      PROVE  Earned'
  BY <1>18 DEF Shape, TypeOK, Earned, CompletedWasRun, Present, rows, history,
         ExecuteScript, NodeState, NodeShape, Taken
<1>19. ASSUME NEW n \in Nodes, RefuseScript(n)
      PROVE  Earned'
  BY <1>19 DEF Shape, TypeOK, Earned, CompletedWasRun, Present, rows, history,
         RefuseScript, NodeState
<1>20. ASSUME NEW n \in Nodes, NodeFails(n)
      PROVE  Earned'
  BY <1>20 DEF Shape, TypeOK, Earned, CompletedWasRun, Present, rows, history,
         NodeFails, FreeHandler, NodeAt, HandlerState, NodeState
<1>21. ASSUME NEW n \in Nodes, NodeRestart(n)
      PROVE  Earned'
  BY <1>21 DEF Shape, TypeOK, Earned, CompletedWasRun, Present, rows, history,
         NodeRestart, FreeHandler, NodeAt, HandlerState, NodeState
<1>. QED  BY <1>1, <1>2, <1>3, <1>4, <1>5, <1>6, <1>7, <1>8, <1>9, <1>10,
         <1>11, <1>12, <1>13, <1>14, <1>15, <1>16, <1>17, <1>18, <1>19, <1>20,
         <1>21
            DEF Next, ExecuteNext, HandlerNext, NodeNext

\* Every step leaves a task IN_PROGRESS with a command that is not settled
\* and whose result, if it is about to commit, has loaded the task as
\* IN_PROGRESS and will write it.
LEMMA OutstandingStep ==
    ASSUME Shape, Outstanding, Next
    PROVE  Outstanding'
<1>1. ASSUME NEW r \in Requests, NEW t \in Tasks, ExecuteTask(r, t)
     PROVE  Outstanding'
  BY <1>1 DEF Shape, TypeOK, Outstanding, rows, history, ExecuteTask
<1>2. ASSUME NEW r \in Requests, EnqueueRead(r)
     PROVE  Outstanding'
  BY <1>2 DEF Shape, TypeOK, Outstanding, rows, history, EnqueueRead
<1>3. ASSUME NEW r \in Requests, EnqueueCommit(r)
     PROVE  Outstanding'
  <2>. DEFINE c == request[r].cmd
  <2>. SUFFICES ASSUME NEW t \in Tasks, taskStatus'[t] = "IN_PROGRESS"
                PROVE  \E d \in Commands :
                         /\ cmdTask'[d] = t /\ cmdStatus'[d] \in {"QUEUED", "CLAIMED"}
                         /\ \A h \in Handlers :
                              handler[h].op = "result" /\ handler[h].pc = "loaded"
                              /\ handler[h].cmd = d => handler[h].read = "IN_PROGRESS"
    BY <1>3 DEF Outstanding, EnqueueCommit
  <2>1. c \in Commands /\ cmdStatus[c] = "ABSENT"
    BY <1>3, BoundAssumption DEF Shape, TypeOK, RequestShape, Present, EnqueueCommit, Commands
  <2>2. cmdTask' = [cmdTask EXCEPT ![c] = request[r].task]
        /\ cmdStatus' = [cmdStatus EXCEPT ![c] = "QUEUED"]
    BY <1>3 DEF EnqueueCommit
  <2>3. CASE t = request[r].task
    <3>1. \A h \in Handlers : ~(handler[h].op = "result" /\ handler[h].cmd = c)
      BY <2>1 DEF Shape, HandlerShape, Taken, Present
    <3>. QED  BY <2>1, <2>2, <2>3, <3>1 DEF Shape, TypeOK
  <2>4. CASE t # request[r].task
    <3>1. taskStatus[t] = "IN_PROGRESS"
      BY <1>3, <2>4 DEF Shape, TypeOK, EnqueueCommit, Written
    <3>2. PICK d \in Commands :
            /\ cmdTask[d] = t /\ cmdStatus[d] \in {"QUEUED", "CLAIMED"}
            /\ \A h \in Handlers :
                 handler[h].op = "result" /\ handler[h].pc = "loaded"
                 /\ handler[h].cmd = d => handler[h].read = "IN_PROGRESS"
      BY <3>1 DEF Outstanding
    <3>. QED  BY <2>1, <2>2, <3>2 DEF Shape, TypeOK
  <2>. QED  BY <2>3, <2>4
<1>4. ASSUME NEW r \in Requests, BlockRead(r)
     PROVE  Outstanding'
  BY <1>4 DEF Shape, TypeOK, Outstanding, rows, history, BlockRead
<1>5. ASSUME NEW r \in Requests, BlockCommit(r)
     PROVE  Outstanding'
  BY <1>5 DEF Shape, TypeOK, Outstanding, rows, history, BlockCommit, Written
<1>6. ASSUME NEW r \in Requests, ExecuteFails(r)
     PROVE  Outstanding'
  BY <1>6 DEF Shape, TypeOK, Outstanding, rows, history, ExecuteFails
<1>7. ASSUME NEW h \in Handlers, ClaimRead(h)
     PROVE  Outstanding'
  <2>1. \A g \in Handlers : handler'[g].op = "result" => handler'[g] = handler[g]
    BY <1>7, ClaimReadHandlers
  <2>2. UNCHANGED rows
    BY <1>7 DEF ClaimRead
  <2>. QED  BY <2>1, <2>2 DEF Outstanding, rows
<1>8. ASSUME NEW h \in Handlers, ClaimCommit(h)
     PROVE  Outstanding'
  BY <1>8 DEF Shape, TypeOK, Outstanding, rows, history, ClaimCommit,
         HandlerState, Respond, FreeHandler, HandlerShape
<1>9. ASSUME NEW h \in Handlers, ResultRead(h)
     PROVE  Outstanding'
  BY <1>9, ResultReadHandlers DEF Outstanding, ResultRead, rows
<1>10. ASSUME NEW h \in Handlers, ResultLoadTask(h)
      PROVE  Outstanding'
  BY <1>10 DEF Shape, TypeOK, Outstanding, rows, history, ResultLoadTask,
         HandlerState
<1>11. ASSUME NEW h \in Handlers, ResultCommit(h)
      PROVE  Outstanding'
  BY <1>11 DEF Shape, TypeOK, Outstanding, rows, history, ResultCommit,
         HandlerState, Written, HandlerShape, Taken, RowsShape, Present,
         Respond, FreeHandler
<1>12. ASSUME NEW h \in Handlers, HandlerFails(h)
      PROVE  Outstanding'
  BY <1>12 DEF Shape, TypeOK, Outstanding, rows, history, HandlerFails,
         HandlerState, Respond, FreeHandler
<1>13. ASSUME NEW n \in Nodes, NEW h \in Handlers, Poll(n, h)
      PROVE  Outstanding'
  BY <1>13 DEF Shape, TypeOK, Outstanding, rows, history, Poll, Send,
         FreeHandler, HandlerState
<1>14. ASSUME NEW n \in Nodes, NEW h \in Handlers, PollResponse(n, h)
      PROVE  Outstanding'
  BY <1>14 DEF Shape, TypeOK, Outstanding, rows, history, PollResponse,
         FreeHandler, HandlerState
<1>15. ASSUME NEW n \in Nodes, NEW h \in Handlers, Report(n, h)
      PROVE  Outstanding'
  BY <1>15 DEF Shape, TypeOK, Outstanding, rows, history, Report, Send,
         FreeHandler, HandlerState
<1>16. ASSUME NEW n \in Nodes, NEW h \in Handlers, ReportResponse(n, h)
      PROVE  Outstanding'
  BY <1>16 DEF Shape, TypeOK, Outstanding, rows, history, ReportResponse,
         FreeHandler, HandlerState
<1>17. ASSUME NEW n \in Nodes, NEW h \in Handlers, RequestLost(n, h)
      PROVE  Outstanding'
  BY <1>17 DEF Shape, TypeOK, Outstanding, rows, history, RequestLost,
         FreeHandler, HandlerState
<1>18. ASSUME NEW n \in Nodes, NEW ok \in BOOLEAN, ExecuteScript(n, ok)
      PROVE  Outstanding'
  BY <1>18 DEF Shape, TypeOK, Outstanding, rows, history, ExecuteScript
<1>19. ASSUME NEW n \in Nodes, RefuseScript(n)
      PROVE  Outstanding'
  BY <1>19 DEF Shape, TypeOK, Outstanding, rows, history, RefuseScript
<1>20. ASSUME NEW n \in Nodes, NodeFails(n)
      PROVE  Outstanding'
  BY <1>20 DEF Shape, TypeOK, Outstanding, rows, history, NodeFails,
         FreeHandler, HandlerState
<1>21. ASSUME NEW n \in Nodes, NodeRestart(n)
      PROVE  Outstanding'
  BY <1>21 DEF Shape, TypeOK, Outstanding, rows, history, NodeRestart
<1>. QED  BY <1>1, <1>2, <1>3, <1>4, <1>5, <1>6, <1>7, <1>8, <1>9, <1>10,
         <1>11, <1>12, <1>13, <1>14, <1>15, <1>16, <1>17, <1>18, <1>19, <1>20,
         <1>21
            DEF Next, ExecuteNext, HandlerNext, NodeNext

\* Every step leaves a command that the runner of its device has yet to run
\* never run: a process that restarts lets go of what it claimed, and a claim
\* under way for a process that gave up is handed to nobody.
LEMMA SoleStep ==
    ASSUME Shape, SoleRunner, Sole, Next
    PROVE  Sole'
<1>1. ASSUME NEW r \in Requests, NEW t \in Tasks, ExecuteTask(r, t)
     PROVE  Sole'
  BY <1>1 DEF Shape, TypeOK, Sole, AtMostOnce, RightDevice, Present, Taken,
         rows, history, ExecuteTask
<1>2. ASSUME NEW r \in Requests, EnqueueRead(r)
     PROVE  Sole'
  BY <1>2 DEF Shape, TypeOK, Sole, AtMostOnce, RightDevice, Present, Taken,
         rows, history, EnqueueRead
<1>3. ASSUME NEW r \in Requests, EnqueueCommit(r)
     PROVE  Sole'
  BY <1>3 DEF Shape, TypeOK, Sole, AtMostOnce, RightDevice, Present, Taken,
         rows, history, EnqueueCommit, RequestShape, HandlerShape, NodeShape,
         RequestState
<1>4. ASSUME NEW r \in Requests, BlockRead(r)
     PROVE  Sole'
  BY <1>4 DEF Shape, TypeOK, Sole, AtMostOnce, RightDevice, Present, Taken,
         rows, history, BlockRead
<1>5. ASSUME NEW r \in Requests, BlockCommit(r)
     PROVE  Sole'
  BY <1>5 DEF Shape, TypeOK, Sole, AtMostOnce, RightDevice, Present, Taken,
         rows, history, BlockCommit
<1>6. ASSUME NEW r \in Requests, ExecuteFails(r)
     PROVE  Sole'
  BY <1>6 DEF Shape, TypeOK, Sole, AtMostOnce, RightDevice, Present, Taken,
         rows, history, ExecuteFails
<1>7. ASSUME NEW h \in Handlers, ClaimRead(h)
     PROVE  Sole'
  <2>. DEFINE Fresh(g) ==
                 /\ handler'[g].op = "claim" /\ handler'[g].pc \in {"read", "done"}
                 /\ handler'[g].cmd # NoCommand
                 => /\ Target[cmdTask[handler'[g].cmd]] = DeviceOf[handler'[g].client]
                    /\ handler'[g].live /\ handler'[g].client \notin Doctors =>
                         runs[handler'[g].cmd] = 0
  <2>1. CASE Respond(h, "done", NoCommand)
    <3>1. \A g \in Handlers : Fresh(g)
      BY <1>7, <2>1 DEF Sole, Shape, TypeOK, HandlerState, Respond, FreeHandler
    <3>. QED  BY <1>7, <3>1 DEF Sole, AtMostOnce, RightDevice, Present, Taken, ClaimRead, rows, history
  <2>2. ASSUME NEW c \in Queued(DeviceOf[handler[h].client]),
               handler' = [handler EXCEPT ![h].pc = "read", ![h].cmd = c]
        PROVE  Sole'
    <3>1. \A g \in Handlers : Fresh(g)
      BY <1>7, <2>2 DEF Sole, Shape, TypeOK, HandlerState, Queued, Taken
    <3>. QED  BY <1>7, <3>1 DEF Sole, AtMostOnce, RightDevice, Present, Taken, ClaimRead, rows, history
  <2>. QED  BY <1>7, <2>1, <2>2 DEF ClaimRead
<1>8. ASSUME NEW h \in Handlers, ClaimCommit(h)
     PROVE  Sole'
  <2>1. \A g \in Handlers :
          /\ handler'[g].op = "claim" /\ handler'[g].pc \in {"read", "done"}
          => /\ handler[g].op = "claim" /\ handler[g].pc \in {"read", "done"}
             /\ handler'[g].cmd = handler[g].cmd /\ handler'[g].client = handler[g].client
             /\ handler'[g].live = handler[g].live
    BY <1>8, ZenonT(40) DEF Shape, TypeOK, HandlerState, ClaimCommit, Respond, FreeHandler
  <2>2. \A c \in Commands : Taken(c) => Taken(c)'
    BY <1>8 DEF Shape, TypeOK, Present, Taken, rows, ClaimCommit
  <2>. QED  BY <1>8, <2>1, <2>2 DEF Sole, AtMostOnce, RightDevice, ClaimCommit, rows, history
<1>9. ASSUME NEW h \in Handlers, ResultRead(h)
     PROVE  Sole'
  <2>1. \A g \in Handlers :
          /\ handler'[g].op = "claim" /\ handler'[g].pc \in {"read", "done"}
          => /\ handler[g].op = "claim" /\ handler[g].pc \in {"read", "done"}
             /\ handler'[g].cmd = handler[g].cmd /\ handler'[g].client = handler[g].client
             /\ handler'[g].live = handler[g].live
    BY ResultReadHandlers, <1>9
  <2>2. \A c \in Commands : Taken(c) => Taken(c)'
    BY <1>9 DEF Present, Taken, ResultRead, rows
  <2>. QED  BY <1>9, <2>1, <2>2 DEF Sole, AtMostOnce, RightDevice, ResultRead, rows, history
<1>10. ASSUME NEW h \in Handlers, ResultLoadTask(h)
      PROVE  Sole'
  BY <1>10 DEF Shape, TypeOK, Sole, AtMostOnce, RightDevice, Present, Taken,
         rows, history, ResultLoadTask, HandlerState
<1>11. ASSUME NEW h \in Handlers, ResultCommit(h)
      PROVE  Sole'
  <2>1. \A g \in Handlers :
          /\ handler'[g].op = "claim" /\ handler'[g].pc \in {"read", "done"}
          => /\ handler[g].op = "claim" /\ handler[g].pc \in {"read", "done"}
             /\ handler'[g].cmd = handler[g].cmd /\ handler'[g].client = handler[g].client
             /\ handler'[g].live = handler[g].live
    BY <1>11 DEF Shape, TypeOK, HandlerState, ResultCommit, Respond, FreeHandler
  <2>2. \A c \in Commands : Taken(c) => Taken(c)'
    BY <1>11 DEF Shape, TypeOK, Present, Taken, rows, ResultCommit
  <2>. QED  BY <1>11, <2>1, <2>2 DEF Sole, AtMostOnce, RightDevice, ResultCommit, rows, history
<1>12. ASSUME NEW h \in Handlers, HandlerFails(h)
      PROVE  Sole'
  <2>1. \A g \in Handlers :
          /\ handler'[g].op = "claim" /\ handler'[g].pc \in {"read", "done"}
          => /\ handler[g].op = "claim" /\ handler[g].pc \in {"read", "done"}
             /\ handler'[g].cmd = handler[g].cmd /\ handler'[g].client = handler[g].client
             /\ handler'[g].live = handler[g].live
    BY <1>12 DEF Shape, TypeOK, HandlerState, HandlerFails, Respond, FreeHandler
  <2>2. \A c \in Commands : Taken(c) => Taken(c)'
    BY <1>12 DEF Shape, TypeOK, Present, Taken, rows, HandlerFails
  <2>. QED  BY <1>12, <2>1, <2>2 DEF Sole, AtMostOnce, RightDevice, HandlerFails, rows, history
<1>13. ASSUME NEW n \in Nodes, NEW h \in Handlers, Poll(n, h)
      PROVE  Sole'
  BY <1>13 DEF Shape, TypeOK, Sole, AtMostOnce, RightDevice, Present, Taken,
         rows, history, Poll, Send, FreeHandler, HandlerState, NodeAt, NodeState
<1>14. ASSUME NEW n \in Nodes, NEW h \in Handlers, PollResponse(n, h)
      PROVE  Sole'
  <2>1. \A g \in Handlers : handler'[g].op = "claim" => handler'[g] = handler[g]
    BY <1>14 DEF Shape, TypeOK, PollResponse, FreeHandler
  <2>2. \A m \in Nodes : m # n => node'[m] = node[m]
    BY <1>14 DEF Shape, TypeOK, PollResponse
  <2>3. node'[n].cmd # NoCommand =>
          /\ node'[n].cmd = handler[h].cmd /\ handler[h].op = "claim"
          /\ handler[h].pc = "done" /\ handler[h].client = n /\ n \notin Doctors
          /\ handler[h].live /\ node'[n].pc = "claimed"
    <3>1. handler[h].op = "claim"
      BY <1>14 DEF Shape, TypeOK, ConversationShape, PollResponse
    <3>. QED  BY <1>14, <3>1 DEF Shape, TypeOK, PollResponse, NodeAt
  <2>4. node'[n].pc = "claimed" => node'[n].cmd # NoCommand
    <3>1. NodeShape'
      BY <1>14, PollResponseShape DEF Shape
    <3>. QED  BY <3>1, BoundAssumption DEF NodeShape, Taken, Present, Commands, NoCommand
  <2>5. UNCHANGED <<rows, runs>>
    BY <1>14 DEF PollResponse, history
  <2>6. AtMostOnce' /\ \A c \in Commands : ~Taken(c)' => runs'[c] = 0
    BY <2>5 DEF Sole, AtMostOnce, Taken, Present, rows
  <2>7. RightDevice'
    BY <2>2, <2>3, <2>5 DEF Sole, RightDevice, rows
  <2>8. \A m \in Nodes : node'[m].pc = "claimed" => runs'[node'[m].cmd] = 0
    BY <2>2, <2>3, <2>4, <2>5 DEF Sole
  <2>. QED  BY <2>1, <2>5, <2>6, <2>7, <2>8 DEF Sole, rows
<1>15. ASSUME NEW n \in Nodes, NEW h \in Handlers, Report(n, h)
      PROVE  Sole'
  BY <1>15 DEF Shape, TypeOK, Sole, AtMostOnce, RightDevice, Present, Taken,
         rows, history, Report, Send, FreeHandler, HandlerState, NodeAt,
         NodeState
<1>16. ASSUME NEW n \in Nodes, NEW h \in Handlers, ReportResponse(n, h)
      PROVE  Sole'
  BY <1>16 DEF Shape, TypeOK, Sole, AtMostOnce, RightDevice, Present, Taken,
         rows, history, ReportResponse, FreeHandler, NodeAt, HandlerState,
         NodeState
<1>17. ASSUME NEW n \in Nodes, NEW h \in Handlers, RequestLost(n, h)
      PROVE  Sole'
  BY <1>17 DEF Shape, TypeOK, Sole, AtMostOnce, RightDevice, Present, Taken,
         rows, history, RequestLost, FreeHandler, NodeAt, HandlerState,
         NodeState
<1>18. ASSUME NEW n \in Nodes, NEW ok \in BOOLEAN, ExecuteScript(n, ok)
      PROVE  Sole'
  <2>. DEFINE c == node[n].cmd
  <2>1. c \in Commands /\ Taken(c) /\ n \notin Doctors /\ c # NoCommand
    BY <1>18 DEF Shape, NodeShape, Taken, Present, ExecuteScript, Commands, NoCommand
  <2>2. runs[c] = 0 /\ runs' = [runs EXCEPT ![c] = 1]
    <3>1. runs[c] = 0
      BY <1>18 DEF Sole, ExecuteScript
    <3>2. runs' = [runs EXCEPT ![c] = runs[c] + 1]
      BY <1>18 DEF ExecuteScript
    <3>. QED  BY <3>1, <3>2
  <2>3. AtMostOnce'
    BY <2>1, <2>2 DEF Shape, TypeOK, Sole, AtMostOnce
  <2>4. RightDevice'
    BY <1>18 DEF Shape, TypeOK, NodeState, Sole, RightDevice, ExecuteScript, rows
  <2>5. \A d \in Commands : ~Taken(d)' => runs'[d] = 0
    BY <1>18, <2>1, <2>2 DEF Shape, TypeOK, Sole, Taken, Present, ExecuteScript, rows
  <2>6. \A m \in Nodes : node'[m].pc = "claimed" => runs'[node'[m].cmd] = 0
    <3>. SUFFICES ASSUME NEW m \in Nodes, node'[m].pc = "claimed"
                  PROVE  runs'[node'[m].cmd] = 0
      OBVIOUS
    <3>1. m # n /\ node'[m] = node[m]
      BY <1>18 DEF Shape, TypeOK, NodeState, ExecuteScript
    <3>2. node[m].cmd \in Commands /\ m \notin Doctors /\ node[m].cmd # NoCommand
      BY <3>1 DEF Shape, NodeShape, Taken, Present, Commands, NoCommand
    <3>3. node[m].cmd # c
      BY <2>1, <3>1, <3>2 DEF Sole, RightDevice, SoleRunner
    <3>. QED  BY <2>2, <3>1, <3>2, <3>3 DEF Shape, TypeOK, Sole
  <2>7. \A h \in Handlers :
          /\ handler[h].op = "claim" /\ handler[h].pc \in {"read", "done"}
          /\ handler[h].cmd # NoCommand
          => /\ Target[cmdTask[handler[h].cmd]] = DeviceOf[handler[h].client]
             /\ handler[h].live /\ handler[h].client \notin Doctors =>
                  runs'[handler[h].cmd] = 0
    <3>. SUFFICES ASSUME NEW h \in Handlers,
                         handler[h].op = "claim", handler[h].pc \in {"read", "done"},
                         handler[h].cmd # NoCommand
                  PROVE  /\ Target[cmdTask[handler[h].cmd]] = DeviceOf[handler[h].client]
                         /\ handler[h].live /\ handler[h].client \notin Doctors =>
                              runs'[handler[h].cmd] = 0
      OBVIOUS
    <3>1. /\ Target[cmdTask[handler[h].cmd]] = DeviceOf[handler[h].client]
          /\ handler[h].live /\ handler[h].client \notin Doctors => runs[handler[h].cmd] = 0
      BY DEF Sole
    <3>2. ASSUME handler[h].live, handler[h].client \notin Doctors
          PROVE  handler[h].cmd # c
      <4>1. handler[h].client \in Nodes
        BY DEF Shape, HandlerShape
      <4>2. node[handler[h].client].pc = "polling"
        BY <3>2 DEF Shape, ConversationShape
      <4>3. handler[h].client # n
        BY <1>18, <4>2 DEF ExecuteScript
      <4>. QED  BY <2>1, <3>1, <3>2, <4>1, <4>3 DEF Sole, RightDevice, SoleRunner
    <3>3. handler[h].cmd \in Commands
      BY DEF Shape, TypeOK, HandlerState
    <3>. QED  BY <2>2, <3>1, <3>2, <3>3 DEF Shape, TypeOK
  <2>. QED  BY <1>18, <2>3, <2>4, <2>5, <2>6, <2>7 DEF Sole, ExecuteScript, rows
<1>19. ASSUME NEW n \in Nodes, RefuseScript(n)
      PROVE  Sole'
  BY <1>19 DEF Shape, TypeOK, Sole, AtMostOnce, RightDevice, Present, Taken,
         rows, history, RefuseScript, NodeState
<1>20. ASSUME NEW n \in Nodes, NodeFails(n)
      PROVE  Sole'
  BY <1>20 DEF Shape, TypeOK, Sole, AtMostOnce, RightDevice, Present, Taken,
         rows, history, NodeFails, FreeHandler, NodeAt, HandlerState, NodeState
<1>21. ASSUME NEW n \in Nodes, NodeRestart(n)
      PROVE  Sole'
  BY <1>21 DEF Shape, TypeOK, Sole, AtMostOnce, RightDevice, Present, Taken,
         rows, history, NodeRestart, FreeHandler, NodeAt, HandlerState,
         NodeState
<1>. QED  BY <1>1, <1>2, <1>3, <1>4, <1>5, <1>6, <1>7, <1>8, <1>9, <1>10,
         <1>11, <1>12, <1>13, <1>14, <1>15, <1>16, <1>17, <1>18, <1>19, <1>20,
         <1>21
            DEF Next, ExecuteNext, HandlerNext, NodeNext
-----------------------------------------------------------------------------
\* A task IN_PROGRESS has a command that no result has settled, so the
\* terminal does not poll for a result that is already in
\* (recordCommandResult and executeTask overlapping freely).
THEOREM TaskIsOutstanding == Spec => []InProgressIsOutstanding
<1>1. Init => Outstanding
  BY DEF Init, Outstanding
<1>2. Shape /\ Outstanding /\ [Next]_vars => Outstanding'
  <2>1. CASE UNCHANGED vars
    BY <2>1 DEF vars, rows, Outstanding
  <2>. QED  BY <2>1, OutstandingStep
<1>3. Outstanding => InProgressIsOutstanding
  BY DEF Outstanding, InProgressIsOutstanding
<1>. QED  BY <1>1, <1>2, <1>3, ShapeInvariant, PTL DEF Spec

\* A task or a command that the backend shows as COMPLETED has a script that
\* exited with 0 (recordCommandResult trusts what command_result says, across
\* lost, late and repeated requests).
THEOREM CompletedIsTrue == Spec => []CompletedWasRun
<1>1. Init => Earned
  BY DEF Init, Earned, CompletedWasRun, FreeHandler, NodeAt
<1>2. Shape /\ Earned /\ [Next]_vars => Earned'
  <2>1. CASE UNCHANGED vars
    BY <2>1 DEF vars, rows, history, Earned, CompletedWasRun, Present
  <2>. QED  BY <2>1, EarnedStep
<1>3. Earned => CompletedWasRun
  BY DEF Earned
<1>. QED  BY <1>1, <1>2, <1>3, ShapeInvariant, PTL DEF Spec

\* A script that was started on a device has its task on record as started
\* (executeTask commits the row of the command and the status together).
THEOREM RunsAreOnRecord == Spec => []RunIsOnRecord
<1>1. Init => Started
  BY DEF Init, Started, Present, IdleRequest
<1>2. Shape /\ Started /\ [Next]_vars => Started'
  <2>1. CASE UNCHANGED vars
    BY <2>1 DEF vars, rows, history, Started, Present
  <2>. QED  BY <2>1, StartedStep
<1>3. Shape /\ Started => RunIsOnRecord
  BY DEF Shape, RowsShape, Started, NotStarted, RunIsOnRecord
<1>. QED  BY <1>1, <1>2, <1>3, ShapeInvariant, PTL DEF Spec

\* A claim under way, and the process that has its answer, have a command of the
\* device whose token the process has.
Addressed ==
    /\ RightDevice
    /\ \A h \in Handlers :
         /\ handler[h].op = "claim" /\ handler[h].pc \in {"read", "done"}
         /\ handler[h].cmd # NoCommand
         => Target[cmdTask[handler[h].cmd]] = DeviceOf[handler[h].client]

\* Only EnqueueCommit writes a command's task, before anybody has the command.
LEMMA AddressedStep ==
    ASSUME Shape, Addressed, Next
    PROVE  Addressed'
<1>. DEFINE Claims(g) ==
              /\ handler'[g].op = "claim" /\ handler'[g].pc \in {"read", "done"}
              /\ handler'[g].cmd # NoCommand
              => Target[cmdTask[handler'[g].cmd]] = DeviceOf[handler'[g].client]
            Holds(m) ==
              node'[m].cmd # NoCommand => Target[cmdTask[node'[m].cmd]] = DeviceOf[m]
<1>1. ASSUME NEW r \in Requests, EnqueueCommit(r)
      PROVE  Addressed'
  BY <1>1 DEF Shape, TypeOK, Addressed, RightDevice, rows, history, EnqueueCommit,
              Present, Taken, RequestShape, HandlerShape, NodeShape, RequestState
<1>2. ASSUME UNCHANGED <<cmdTask, handler, node>>
      PROVE  Addressed'
  BY <1>2 DEF Addressed, RightDevice
<1>3. ASSUME UNCHANGED <<cmdTask, node>>, \A g \in Handlers : Claims(g)
      PROVE  Addressed'
  BY <1>3 DEF Addressed, RightDevice
<1>4. ASSUME UNCHANGED cmdTask, \A g \in Handlers : Claims(g), \A m \in Nodes : Holds(m)
      PROVE  Addressed'
  BY <1>4 DEF Addressed, RightDevice
<1>5. ASSUME NEW h \in Handlers, ClaimRead(h)
      PROVE  Addressed'
  <2>1. CASE Respond(h, "done", NoCommand)
    <3>1. \A g \in Handlers : Claims(g)
      BY <2>1 DEF Addressed, Shape, TypeOK, HandlerState, Respond, FreeHandler
    <3>. QED  BY <1>5, <3>1, <1>3 DEF ClaimRead, rows
  <2>2. ASSUME NEW c \in Queued(DeviceOf[handler[h].client]),
               handler' = [handler EXCEPT ![h].pc = "read", ![h].cmd = c]
        PROVE  Addressed'
    <3>1. \A g \in Handlers : Claims(g)
      BY <1>5, <2>2 DEF Addressed, Shape, TypeOK, HandlerState, Queued
    <3>. QED  BY <1>5, <3>1, <1>3 DEF ClaimRead, rows
  <2>. QED  BY <1>5, <2>1, <2>2 DEF ClaimRead
<1>6. ASSUME NEW h \in Handlers, ClaimCommit(h)
      PROVE  Addressed'
  <2>1. \A g \in Handlers : Claims(g)
    BY <1>6, ZenonT(40) DEF Addressed, Shape, TypeOK, HandlerState, ClaimCommit, Respond, FreeHandler
  <2>. QED  BY <1>6, <2>1, <1>3 DEF ClaimCommit
<1>7. ASSUME NEW h \in Handlers, ResultRead(h)
      PROVE  Addressed'
  <2>1. \A g \in Handlers : Claims(g)
    BY <1>7, ResultReadHandlers DEF Addressed
  <2>. QED  BY <1>7, <2>1, <1>3 DEF ResultRead, rows
<1>8. ASSUME NEW h \in Handlers, ResultLoadTask(h)
      PROVE  Addressed'
  <2>1. \A g \in Handlers : Claims(g)
    BY <1>8 DEF Addressed, Shape, TypeOK, HandlerState, ResultLoadTask
  <2>. QED  BY <1>8, <2>1, <1>3 DEF ResultLoadTask, rows
<1>9. ASSUME NEW h \in Handlers, ResultCommit(h)
      PROVE  Addressed'
  <2>1. \A g \in Handlers : Claims(g)
    BY <1>9, ZenonT(40) DEF Addressed, Shape, TypeOK, HandlerState, ResultCommit, Respond, FreeHandler
  <2>. QED  BY <1>9, <2>1, <1>3 DEF ResultCommit
<1>10. ASSUME NEW h \in Handlers, HandlerFails(h)
      PROVE  Addressed'
  <2>1. \A g \in Handlers : Claims(g)
    BY <1>10, ZenonT(40) DEF Addressed, Shape, TypeOK, HandlerState, HandlerFails, Respond, FreeHandler
  <2>. QED  BY <1>10, <2>1, <1>3 DEF HandlerFails, rows
<1>11. ASSUME NEW n \in Nodes, NEW h \in Handlers, Poll(n, h)
      PROVE  Addressed'
  <2>1. \A g \in Handlers : Claims(g)
    BY <1>11 DEF Addressed, Shape, TypeOK, HandlerState, Poll, Send, FreeHandler
  <2>2. \A m \in Nodes : Holds(m)
    BY <1>11 DEF Addressed, RightDevice, Shape, TypeOK, NodeState, Poll, NodeAt
  <2>. QED  BY <1>11, <2>1, <2>2, <1>4 DEF Poll, rows
<1>12. ASSUME NEW n \in Nodes, NEW h \in Handlers, Report(n, h)
      PROVE  Addressed'
  <2>1. \A g \in Handlers : Claims(g)
    BY <1>12 DEF Addressed, Shape, TypeOK, HandlerState, Report, Send, FreeHandler
  <2>2. \A m \in Nodes : Holds(m)
    BY <1>12 DEF Addressed, RightDevice, Shape, TypeOK, NodeState, Report
  <2>. QED  BY <1>12, <2>1, <2>2, <1>4 DEF Report, rows
<1>13. ASSUME NEW n \in Nodes, NEW h \in Handlers, PollResponse(n, h)
      PROVE  Addressed'
  <2>1. \A g \in Handlers : Claims(g)
    BY <1>13 DEF Addressed, Shape, TypeOK, PollResponse, FreeHandler
  <2>2. handler[h].op = "claim"
    BY <1>13 DEF Shape, PollResponse, ConversationShape
  <2>3. \A m \in Nodes : m # n => node'[m] = node[m]
    BY <1>13 DEF Shape, TypeOK, PollResponse
  <2>4. \/ node'[n].cmd = NoCommand
        \/ handler[h].pc = "done" /\ node'[n].cmd = handler[h].cmd
    <3>1. CASE n \in Doctors
      BY <1>13, <3>1 DEF Shape, TypeOK, PollResponse, NodeAt
    <3>2. CASE n \notin Doctors /\ handler[h].pc = "error"
      BY <1>13, <3>2 DEF Shape, TypeOK, PollResponse, NodeAt
    <3>3. CASE n \notin Doctors /\ handler[h].pc = "done" /\ handler[h].cmd = NoCommand
      BY <1>13, <3>3 DEF Shape, TypeOK, PollResponse, NodeAt
    <3>4. CASE n \notin Doctors /\ handler[h].pc = "done" /\ handler[h].cmd # NoCommand
      <4>1. node'[n] = [NodeAt("claimed") EXCEPT !.cmd = handler[h].cmd]
        BY <1>13, <3>4 DEF Shape, TypeOK, PollResponse
      <4>. QED  BY <3>4, <4>1 DEF NodeAt
    <3>. QED  BY <1>13, <3>1, <3>2, <3>3, <3>4 DEF PollResponse
  <2>5. handler[h].client = n
    BY <1>13 DEF PollResponse
  <2>6. \A m \in Nodes : Holds(m)
    BY <2>2, <2>3, <2>4, <2>5 DEF Addressed, RightDevice
  <2>. QED  BY <1>13, <2>1, <2>6, <1>4 DEF PollResponse, rows
<1>14. ASSUME NEW n \in Nodes, NEW h \in Handlers, ReportResponse(n, h) \/ RequestLost(n, h)
      PROVE  Addressed'
  <2>1. \A g \in Handlers : Claims(g)
    BY <1>14 DEF Addressed, Shape, TypeOK, ReportResponse, RequestLost, FreeHandler
  <2>2. \A m \in Nodes : Holds(m)
    BY <1>14 DEF Addressed, RightDevice, Shape, TypeOK, NodeState, ReportResponse,
                 RequestLost, NodeAt
  <2>. QED  BY <1>14, <2>1, <2>2, <1>4 DEF ReportResponse, RequestLost, rows
<1>15. ASSUME NEW n \in Nodes, NEW ok \in BOOLEAN,
             ExecuteScript(n, ok) \/ RefuseScript(n) \/ NodeRestart(n)
      PROVE  Addressed'
  <2>1. \A m \in Nodes : Holds(m)
    BY <1>15, SMTT(30) DEF Addressed, RightDevice, Shape, TypeOK, NodeState, ExecuteScript,
                 RefuseScript, NodeRestart, NodeAt
  <2>2. \A g \in Handlers : Claims(g)
    BY <1>15 DEF Addressed, ExecuteScript, RefuseScript, NodeRestart
  <2>. QED  BY <1>15, <2>1, <2>2, <1>4 DEF ExecuteScript, RefuseScript, NodeRestart, rows
<1>16. ASSUME NEW n \in Nodes, NodeFails(n)
      PROVE  Addressed'
  <2>1. \A g \in Handlers : Claims(g)
    BY <1>16 DEF Addressed, Shape, TypeOK, HandlerState, NodeFails, FreeHandler
  <2>2. \A m \in Nodes : Holds(m)
    BY <1>16 DEF Addressed, RightDevice, Shape, TypeOK, NodeState, NodeFails, NodeAt
  <2>. QED  BY <1>16, <2>1, <2>2, <1>4 DEF NodeFails, rows
<1>17. ASSUME ExecuteNext PROVE Addressed'
  BY <1>1, <1>2, <1>17 DEF ExecuteNext, ExecuteTask, EnqueueRead, BlockRead,
                          BlockCommit, ExecuteFails, rows
<1>18. ASSUME HandlerNext PROVE Addressed'
  BY <1>5, <1>6, <1>7, <1>8, <1>9, <1>10, <1>18 DEF HandlerNext
<1>19. ASSUME NodeNext PROVE Addressed'
  BY <1>11, <1>12, <1>13, <1>14, <1>15, <1>16, <1>19 DEF NodeNext
<1>. QED  BY <1>17, <1>18, <1>19 DEF Next

\* Whatever number of runners a device has, and whatever claims of processes that
\* were restarted are under way, a process never gets a command of another device
\* (the filter of claimNextCommand, and the way of its answer).
THEOREM CommandsReachTheirDevice == Spec => []RightDevice
<1>1. Init => Addressed
  BY DEF Init, Addressed, RightDevice, FreeHandler, NodeAt
<1>2. Shape /\ Addressed /\ [Next]_vars => Addressed'
  <2>1. CASE UNCHANGED vars
    BY <2>1 DEF vars, rows, history, Addressed, RightDevice
  <2>. QED  BY <2>1, AddressedStep
<1>3. Addressed => RightDevice
  BY DEF Addressed
<1>. QED  BY <1>1, <1>2, <1>3, ShapeInvariant, PTL DEF Spec

\* With one runner on a device, Sole holds always.
THEOREM SoleInvariant == ASSUME SoleRunner PROVE Spec => []Sole
<1>1. Init => Sole
  BY DEF Init, Sole, AtMostOnce, RightDevice, FreeHandler, NodeAt
<1>2. Shape /\ Sole /\ [Next]_vars => Sole'
  <2>1. CASE UNCHANGED vars
    BY <2>1 DEF vars, rows, history, Sole, AtMostOnce, RightDevice, Taken, Present
  <2>. QED  BY <2>1, SoleStep
<1>. QED  BY <1>1, <1>2, ShapeInvariant, PTL DEF Spec

\* With one runner on a device, claimNextCommand hands no command out to be
\* run twice, and never a command of another device.
THEOREM RunsAtMostOnce ==
    ASSUME SoleRunner
    PROVE  Spec => [](AtMostOnce /\ RightDevice)
<1>1. Sole => AtMostOnce /\ RightDevice
  BY DEF Sole
<1>. QED  BY <1>1, SoleInvariant, PTL

\* With one runner on a device, every step of the rows and the runs is one of
\* CommandDelivery, or changes neither.
LEMMA DeliveryStep ==
    ASSUME Shape, Sole, Next
    PROVE  [Delivery!Next]_(Delivery!vars)
<1>. SUFFICES ASSUME ~UNCHANGED <<stage, runs>> PROVE Delivery!Next
  BY DEF Delivery!vars
<1>1. ASSUME NEW r \in Requests, EnqueueCommit(r)
      PROVE  \E c \in Commands : Delivery!Enqueue(c)
  <2>1. request[r].cmd \in Commands /\ cmdStatus[request[r].cmd] = "ABSENT"
    BY <1>1, BoundAssumption
    DEF Shape, TypeOK, RequestShape, Present, EnqueueCommit, Commands
  <2>. QED  BY <1>1, <2>1 DEF Delivery!Enqueue, stage, EnqueueCommit, Shape, TypeOK, history
<1>2. ASSUME NEW h \in Handlers, ClaimCommit(h)
      PROVE  \E c \in Commands : Delivery!HandOut(c)
  <2>1. Present(handler[h].cmd)
    BY <1>2 DEF ClaimCommit, Shape, HandlerShape
  <2>2. cmdStatus' = [cmdStatus EXCEPT ![handler[h].cmd] = "CLAIMED"] /\ UNCHANGED runs
    BY <1>2 DEF ClaimCommit, history
  <2>3. cmdStatus[handler[h].cmd] = "QUEUED"
    BY <2>1, <2>2 DEF stage, Shape, TypeOK, Present
  <2>. QED  BY <2>1, <2>2, <2>3 DEF Delivery!HandOut, stage, Present, Shape, TypeOK
<1>3. ASSUME NEW h \in Handlers, ResultCommit(h)
      PROVE  FALSE
  <2>1. Taken(handler[h].cmd)
    BY <1>3 DEF ResultCommit, Shape, HandlerShape
  <2>. QED  BY <1>3, <2>1 DEF ResultCommit, stage, Taken, Present, Shape, TypeOK, history
<1>4. ASSUME NEW n \in Nodes, NEW ok \in BOOLEAN, ExecuteScript(n, ok)
      PROVE  \E c \in Commands : Delivery!Start(c)
  <2>1. Taken(node[n].cmd) /\ runs[node[n].cmd] = 0
    BY <1>4 DEF ExecuteScript, Shape, NodeShape, Sole
  <2>2. runs' = [runs EXCEPT ![node[n].cmd] = 1]
    BY <1>4, <2>1 DEF ExecuteScript
  <2>3. UNCHANGED stage
    BY <1>4 DEF ExecuteScript, stage, rows
  <2>. QED  BY <2>1, <2>2, <2>3 DEF Delivery!Start, stage, Taken, Present
<1>5. CASE UNCHANGED <<cmdStatus, runs>>
  BY <1>5 DEF stage
<1>6. CASE ExecuteNext
  BY <1>1, <1>5, <1>6
  DEF ExecuteNext, ExecuteTask, EnqueueRead, BlockRead, BlockCommit, ExecuteFails,
      rows, history, Delivery!Next
<1>7. CASE HandlerNext
  BY <1>2, <1>3, <1>5, <1>7
  DEF HandlerNext, ClaimRead, ResultRead, ResultLoadTask, HandlerFails,
      rows, history, Delivery!Next
<1>8. CASE NodeNext
  BY <1>4, <1>5, <1>8, ZenonT(40)
  DEF NodeNext, Poll, PollResponse, Report, ReportResponse, RequestLost,
      RefuseScript, NodeFails, NodeRestart, rows, history, Delivery!Next
<1>. QED  BY <1>6, <1>7, <1>8 DEF Next

\* With one runner on a device, the rows of node_commands implement
\* CommandDelivery: a command enters the queue once, never returns to it, and
\* is started at most once after it left it.
THEOREM QueueImplementsDelivery ==
    ASSUME SoleRunner
    PROVE  Spec => ImplementsDelivery
<1>1. Init => Delivery!Init
  BY DEF Init, Delivery!Init, stage
<1>2. Shape /\ Sole /\ [Next]_vars => [Delivery!Next]_(Delivery!vars)
  <2>1. CASE UNCHANGED vars
    BY <2>1 DEF vars, rows, history, stage, Delivery!vars
  <2>. QED  BY <2>1, DeliveryStep
<1>. QED  BY <1>1, <1>2, ShapeInvariant, SoleInvariant, PTL
          DEF Spec, ImplementsDelivery, Delivery!Spec
=============================================================================
