-------------------------- MODULE TerminalSession --------------------------
(***************************************************************************)
(* The terminal of the frontend (terminal-window.ts), from the opening of  *)
(* the page on, and the way of its messages through AgentController, the   *)
(* adapter and the engine.                                                 *)
(*                                                                         *)
(* Every message (an "ask") creates one task and at most one log entry     *)
(* with a proposal, so asks, tasks and entries share their numbers.  The   *)
(* engine is here what Orchestrator promises of an invocation as a whole:  *)
(* it takes steps off the queue up to one with a proposal, or all of them. *)
(* An execution is reduced to its outcome, as LocalExecution and           *)
(* RemoteExecution have it in detail.                                      *)
(***************************************************************************)
EXTENDS Naturals, Sequences, TaskStore

CONSTANTS
    Devices,     \* the user's registered devices
    Local,       \* no target device: the backend's host
    MaxPlan,     \* bound on the steps of a command
    MaxTasks,    \* bound on the messages of a session
    MaxFaults    \* bound on failures of the backend, the engine and the network

ASSUME LocalAssumption == Local \notin Devices
ASSUME BoundAssumption == MaxPlan \in Nat \ {0} /\ MaxTasks \in Nat /\ MaxFaults \in Nat

Tasks == 1 .. MaxTasks
NoTask == 0
Targets == Devices \cup {Local}

\* What a message is for the engine: a text of the user that is a command or
\* resumes the queue, and the two repair prompts of the terminal.
Repairs == {"EXEC_FAILED", "VERIFICATION"}
Kinds == {"command", "continue"} \cup Repairs

\* A request, until its answer is shown or dropped; origin is the entry that the
\* terminal sent it for by itself, and heard is false if the connection broke.
Ask == [pc : {"none", "sent", "analyzing", "answered", "refused", "done"},
        kind : Kinds, origin : Tasks \cup {NoTask}, device : Targets,
        script : BOOLEAN, pending : 0 .. MaxPlan, heard : BOOLEAN]
NoAsk == [pc |-> "none", kind |-> "command", origin |-> NoTask, device |-> Local,
          script |-> FALSE, pending |-> 0, heard |-> TRUE]

Entry == [shown : BOOLEAN, device : Targets, pending : 0 .. MaxPlan, executed : BOOLEAN,
          queued : BOOLEAN, failed : BOOLEAN, repair : BOOLEAN]
NoEntry == [shown |-> FALSE, device |-> Local, pending |-> 0, executed |-> FALSE,
            queued |-> FALSE, failed |-> FALSE, repair |-> FALSE]

VARIABLES
    loaded,      \* whether loadDevices has its answer
    selected,    \* selectedDeviceId
    thinking,    \* isThinking
    executing,   \* isExecuting
    entry,       \* entry[t]: the log entry with the proposal of task t
    watch,       \* watch[t]: what the terminal waits for after a remote command
    asked,       \* how many messages were sent
    ask,         \* ask[t]: POST /api/agent/process of task t
    waiting,     \* the tasks whose /analyze the engine has not served yet
    queue,       \* how many steps the engine's task_queue of the thread has
    unshown,     \* history: the last invocation halted on a script that the adapter dropped
    status,      \* status[t]: status of the row of task t
    scripts,     \* the tasks whose row has a script
    run,         \* run[t]: POST /api/tasks/{t}/execute of the entry of task t
    commands,    \* commands[t]: the rows of node_commands of task t, oldest first
    succeeded,   \* history: the tasks with an execution that ended as a success
    faults       \* faults so far

page == <<loaded, selected>>
asks == <<asked, ask, thinking>>
engine == <<waiting, queue, unshown>>
rows == <<status, scripts, commands>>
vars == <<page, executing, entry, watch, asks, engine, rows, run, succeeded, faults>>

\* The terminal, its messages, the thread and the rows are well formed, and the
\* terminal follows only commands that are there.
TypeOK ==
    /\ loaded \in BOOLEAN /\ selected \in Targets
    /\ thinking \in BOOLEAN /\ executing \in BOOLEAN
    /\ entry \in [Tasks -> Entry]
    /\ watch \in [Tasks -> {"nothing", "command", "context", "verification"}]
    /\ \A t \in Tasks : watch[t] = "command" => commands[t] # <<>>
    /\ asked \in 0 .. MaxTasks /\ ask \in [Tasks -> Ask]
    /\ waiting \subseteq Tasks /\ queue \in 0 .. MaxPlan /\ unshown \in BOOLEAN
    /\ status \in [Tasks -> TaskStatus \cup {"ABSENT"}]
    /\ scripts \subseteq Tasks
    /\ run \in [Tasks -> {"none", "sent", "SUCCESS", "QUEUED", "ERROR", "error"}]
    /\ commands \in [Tasks -> Seq({"QUEUED", "COMPLETED", "FAILED"})]
    /\ succeeded \subseteq Tasks
    /\ faults \in 0 .. MaxFaults

Init ==
    /\ loaded = FALSE /\ selected = Local
    /\ thinking = FALSE /\ executing = FALSE
    /\ entry = [t \in Tasks |-> NoEntry]
    /\ watch = [t \in Tasks |-> "nothing"]
    /\ asked = 0 /\ ask = [t \in Tasks |-> NoAsk]
    /\ waiting = {} /\ queue = 0 /\ unshown = FALSE
    /\ status = [t \in Tasks |-> "ABSENT"]
    /\ scripts = {}
    /\ run = [t \in Tasks |-> "none"]
    /\ commands = [t \in Tasks |-> <<>>]
    /\ succeeded = {} /\ faults = 0

\* One of the bounded number of failures of a behaviour happens.
Fault == faults < MaxFaults /\ faults' = faults + 1
-----------------------------------------------------------------------------
(***************************************************************************)
(* Messages                                                                *)
(***************************************************************************)

\* processIntent is called.  A session of MaxTasks messages sends no more.
Send(kind, origin, device) ==
    IF asked < MaxTasks
    THEN /\ asked' = asked + 1
         /\ ask' = [ask EXCEPT ![asked + 1] = [NoAsk EXCEPT
                      !.pc = "sent", !.kind = kind, !.origin = origin, !.device = device]]
         /\ thinking' = TRUE
    ELSE UNCHANGED asks

\* The user types a command, or "continue" (processCommand).
Command(kind) ==
    /\ ~thinking /\ ~executing
    /\ asked < MaxTasks
    /\ Send(kind, NoTask, selected)
    /\ UNCHANGED <<page, executing, entry, watch, engine, rows, run, succeeded, faults>>

\* The device list arrives, some time after the terminal was opened, and the
\* device that the page was opened for, if any, becomes the selected one.
LoadDevices(d) ==
    /\ ~loaded
    /\ loaded' = TRUE
    /\ selected' = d
    /\ UNCHANGED <<executing, entry, watch, asks, engine, rows, run, succeeded, faults>>

\* The user picks another device, which the template allows at rest only.
SelectDevice(d) ==
    /\ loaded /\ ~thinking /\ ~executing
    /\ d # selected
    /\ selected' = d
    /\ UNCHANGED <<loaded, executing, entry, watch, asks, engine, rows, run, succeeded,
                   faults>>

\* processUserIntent creates the task, and the adapter posts /analyze.
CreateTask(t) ==
    /\ ask[t].pc = "sent"
    /\ ask' = [ask EXCEPT ![t].pc = "analyzing"]
    /\ status' = [status EXCEPT ![t] = "PENDING"]
    /\ waiting' = waiting \cup {t}
    /\ UNCHANGED <<page, executing, entry, watch, asked, thinking, queue, unshown, scripts,
                   commands, run, succeeded, faults>>

\* The task cannot be created, or the device is not the user's any more.
CreateFails(t) ==
    /\ ask[t].pc = "sent"
    /\ Fault
    /\ ask' = [ask EXCEPT ![t].pc = "refused"]
    /\ UNCHANGED <<page, executing, entry, watch, asked, thinking, engine, rows, run,
                   succeeded>>

\* "continue" resumes a queue that is there.
Resumes(kind) == kind = "continue" /\ queue > 0

\* The lengths that the queue may have after decompose_task_node: any message but
\* one that resumes it replaces it, a repair prompt by one step.
Decomposed(kind) ==
    CASE Resumes(kind)    -> {queue}
      [] kind = "command" -> 1 .. MaxPlan
      [] OTHER            -> {1}

\* The scripts of an answer: what the engine halted on is one for the adapter too,
\* unless it reads "none" in other letters than "NONE" (normalizeScript) or comes
\* with a blank explanation (analyzeIntent).
Normalized(script) == IF script THEN BOOLEAN ELSE {FALSE}

\* The engine serves the message of t: it works on one step after the other, up
\* to one with a proposal for the user, or to an exception (failed).  Nobody may
\* be waiting for the answer any more.
Invocation(t, failed) ==
    \E todo \in Decomposed(ask[t].kind) \cup (IF failed THEN {queue} ELSE {}),
       left \in 0 .. MaxPlan, script \in BOOLEAN :
      \E kept \in Normalized(script) :
        /\ \/ script /\ ~failed /\ left < todo
           \/ ~script /\ ~failed /\ left = 0
           \/ ~script /\ failed /\ left <= todo
        /\ queue' = left
        /\ unshown' = (script /\ ~kept)
        /\ waiting' = waiting \ {t}
        /\ ask' = IF ask[t].pc # "analyzing" THEN ask
                  ELSE [ask EXCEPT ![t].pc = "answered", ![t].script = kept,
                                   ![t].pending = IF failed THEN 0 ELSE left]
        /\ UNCHANGED <<page, executing, entry, watch, asked, thinking, rows, run, succeeded>>

Analyze(t) ==
    /\ t \in waiting
    /\ Invocation(t, FALSE)
    /\ UNCHANGED faults

\* analyze answers with status "error", which the adapter takes for an answer.
AnalyzeFails(t) ==
    /\ t \in waiting
    /\ Fault
    /\ Invocation(t, TRUE)

\* fallbackResponse: the adapter refuses the prompt, cannot reach the engine, or
\* times out, which the engine does not notice.
Fallback(t) ==
    /\ ask[t].pc = "analyzing"
    /\ Fault
    /\ ask' = [ask EXCEPT ![t].pc = "answered"]
    /\ waiting' \in {waiting, waiting \ {t}}
    /\ UNCHANGED <<page, executing, entry, watch, asked, thinking, queue, unshown, rows, run,
                   succeeded>>

\* The log entry for an answer with a script.  The answer to a repair prompt shows
\* the device that it was sent for, and the pendingCount of the entry that failed;
\* any other answer the device that is selected now.
NewEntry(t) ==
    LET repairs == ask[t].kind \in Repairs
    IN  [NoEntry EXCEPT
           !.shown = TRUE,
           !.device = IF repairs THEN ask[t].device ELSE selected,
           !.pending = IF repairs THEN entry[ask[t].origin].pending ELSE ask[t].pending,
           !.repair = ask[t].kind = "VERIFICATION"]

\* What is left of a message when its answer is there.
Answered(t) ==
    [ask[t] EXCEPT !.pc = "done", !.kind = IF ask[t].origin = NoTask THEN "command" ELSE @,
                   !.script = FALSE, !.pending = 0, !.heard = TRUE]

\* The terminal gets an answer: it stops thinking and shows the proposal, if any.
Shows(t, proposal) ==
    /\ ask' = [ask EXCEPT ![t] = Answered(t)]
    /\ thinking' = IF ask[t].heard THEN FALSE ELSE thinking
    /\ entry' = IF ask[t].heard /\ proposal THEN [entry EXCEPT ![t] = NewEntry(t)] ELSE entry
    /\ UNCHANGED <<page, executing, watch, asked, engine, commands, run, succeeded>>

\* persistAnalysisResult in two transactions, and the answer.
Respond(t) ==
    /\ ask[t].pc = "answered"
    /\ scripts' = IF ask[t].script THEN scripts \cup {t} ELSE scripts
    /\ status' = [status EXCEPT ![t] = "ANALYZED"]
    /\ Shows(t, ask[t].script)
    /\ UNCHANGED faults

\* Mutant of RespondUnsaved: the script is not withheld.
RespondUnsavedShowing(t) ==
    /\ ask[t].pc = "answered"
    /\ Fault
    /\ scripts' \in {scripts, IF ask[t].script THEN scripts \cup {t} ELSE scripts}
    /\ Shows(t, ask[t].script)
    /\ UNCHANGED status

\* One of the two transactions fails, and the script is withheld from the user.
RespondUnsaved(t) ==
    /\ ask[t].pc = "answered"
    /\ Fault
    /\ scripts' \in {scripts, IF ask[t].script THEN scripts \cup {t} ELSE scripts}
    /\ Shows(t, FALSE)
    /\ UNCHANGED status

\* Mutant of RespondError: the terminal goes on thinking.
RespondErrorThinking(t) ==
    /\ ask[t].pc = "refused"
    /\ ask' = [ask EXCEPT ![t] = Answered(t)]
    /\ UNCHANGED <<page, thinking, executing, entry, watch, asked, engine, rows, run,
                   succeeded, faults>>

\* The terminal gets an error.
RespondError(t) ==
    /\ ask[t].pc = "refused"
    /\ Shows(t, FALSE)
    /\ UNCHANGED <<scripts, status, faults>>

\* The connection breaks: an error for the terminal, and the backend goes on.
AskLost(t) ==
    /\ ask[t].pc \notin {"none", "done"} /\ ask[t].heard
    /\ Fault
    /\ ask' = [ask EXCEPT ![t].heard = FALSE]
    /\ thinking' = FALSE
    /\ UNCHANGED <<page, executing, entry, watch, asked, engine, rows, run, succeeded>>
-----------------------------------------------------------------------------
(***************************************************************************)
(* Executions                                                              *)
(***************************************************************************)

\* The user approves a proposal (executeScript); its button is enabled unless
\* this entry is being executed, whatever else the terminal does.
Approve(t) ==
    /\ entry[t].shown /\ ~entry[t].executed /\ run[t] = "none"
    /\ executing' = TRUE
    /\ run' = [run EXCEPT ![t] = "sent"]
    /\ UNCHANGED <<page, entry, watch, asks, engine, rows, succeeded, faults>>

\* executeTask refuses a task that has a final status or a device that is gone,
\* or blocks the script.
RefuseExecution(t) ==
    /\ run[t] = "sent"
    /\ run' = [run EXCEPT ![t] = "error"]
    /\ \/ UNCHANGED status
       \/ status[t] \notin Final /\ status' = [status EXCEPT ![t] = "FAILED"]
    /\ UNCHANGED <<page, executing, entry, watch, asks, engine, scripts, commands,
                   succeeded, faults>>

\* executeTask on the backend's host: a success, a failure, or an exception that
\* the terminal gets as an HTTP error; the final status may not be saved.
ExecuteLocally(t) ==
    /\ run[t] = "sent" /\ status[t] \notin Final
    /\ ask[t].device = Local
    /\ \E saved \in BOOLEAN, outcome \in {"SUCCESS", "ERROR", "error"} :
         /\ IF saved THEN UNCHANGED faults ELSE Fault
         /\ status' = [status EXCEPT ![t] = IF ~saved THEN "IN_PROGRESS"
                                            ELSE IF outcome = "SUCCESS" THEN "COMPLETED"
                                            ELSE "FAILED"]
         /\ succeeded' = IF outcome = "SUCCESS" THEN succeeded \cup {t} ELSE succeeded
         /\ run' = [run EXCEPT ![t] = outcome]
    /\ UNCHANGED <<page, executing, entry, watch, asks, engine, scripts, commands>>

\* executeTask for a device queues a command.
Enqueue(t) ==
    /\ run[t] = "sent" /\ status[t] \notin Final
    /\ ask[t].device # Local
    /\ commands' = [commands EXCEPT ![t] = Append(@, "QUEUED")]
    /\ status' = [status EXCEPT ![t] = "IN_PROGRESS"]
    /\ run' = [run EXCEPT ![t] = "QUEUED"]
    /\ UNCHANGED <<page, executing, entry, watch, asks, engine, scripts, succeeded, faults>>

\* The request or its response is lost, or the database cannot be written.
ExecutionLost(t) ==
    /\ run[t] \in {"sent", "SUCCESS", "QUEUED", "ERROR"}
    /\ Fault
    /\ run' = [run EXCEPT ![t] = "error"]
    /\ UNCHANGED <<page, executing, entry, watch, asks, engine, rows, succeeded>>

\* The node runtime reports on command i of task t.
NodeReports(t, i) ==
    /\ i \in DOMAIN commands[t] /\ commands[t][i] = "QUEUED"
    /\ \E result \in Final :
         /\ commands' = [commands EXCEPT ![t][i] = result]
         /\ status' = [status EXCEPT ![t] = result]
         /\ succeeded' = IF result = "COMPLETED" THEN succeeded \cup {t} ELSE succeeded
    /\ UNCHANGED <<page, executing, entry, watch, asks, engine, scripts, run, faults>>
-----------------------------------------------------------------------------
(***************************************************************************)
(* What the terminal does by itself                                        *)
(***************************************************************************)

\* selfHealScript and selfHealVerification send a repair prompt, for the entry's
\* device; null, the backend's host, means the device that is selected now.
SelfHeal(kind, t) ==
    Send(kind, t, IF entry[t].device = Local THEN selected ELSE entry[t].device)

\* Mutant of ResumeQueue: the last pending step is forgotten.
ResumeQueueButLast(t) ==
    IF entry[t].pending > 1 THEN Send("continue", t, selected) ELSE UNCHANGED asks

\* A step is done: autoResumeQueue sends "continue" if steps are pending.
ResumeQueue(t) ==
    IF entry[t].pending > 0 THEN Send("continue", t, selected) ELSE UNCHANGED asks

\* The answer of executeTask: a step that is done, a command to be followed, a
\* failure to be repaired, or an HTTP error, after which the proposal may be
\* approved again.
ExecuteSucceeded(t) ==
    /\ run[t] = "SUCCESS"
    /\ entry' = [entry EXCEPT ![t].executed = TRUE]
    /\ ResumeQueue(t)
    /\ UNCHANGED watch

\* Mutant of ExecuteQueued: a queued command counts as done.
ExecuteQueuedAsDone(t) ==
    /\ run[t] = "QUEUED"
    /\ entry' = [entry EXCEPT ![t].executed = TRUE]
    /\ watch' = [watch EXCEPT ![t] = "command"]
    /\ UNCHANGED asks

ExecuteQueued(t) ==
    /\ run[t] = "QUEUED"
    /\ entry' = [entry EXCEPT ![t].executed = TRUE, ![t].queued = TRUE]
    /\ watch' = [watch EXCEPT ![t] = "command"]
    /\ UNCHANGED asks

ExecuteFailed(t) ==
    /\ run[t] = "ERROR"
    /\ entry' = [entry EXCEPT ![t].executed = TRUE, ![t].failed = TRUE]
    /\ SelfHeal("EXEC_FAILED", t)
    /\ UNCHANGED watch

ExecuteError(t) ==
    /\ run[t] = "error"
    /\ UNCHANGED <<entry, watch, asks>>

ExecuteResponse(t) ==
    /\ ExecuteSucceeded(t) \/ ExecuteQueued(t) \/ ExecuteFailed(t) \/ ExecuteError(t)
    /\ run' = [run EXCEPT ![t] = "none"]
    /\ executing' = FALSE
    /\ UNCHANGED <<page, engine, rows, succeeded, faults>>

Latest(t) == commands[t][Len(commands[t])]

\* pollRemoteCommandStatus, REMOTE_STATUS_MAX_ATTEMPTS times without a result.
PollGivesUp(t) ==
    /\ Latest(t) = "QUEUED"
    /\ watch' = [watch EXCEPT ![t] = "nothing"]
    /\ UNCHANGED <<entry, asks>>

\* Completed: a local entry has no context to wait for.
PollCompleted(t) ==
    /\ Latest(t) = "COMPLETED"
    /\ entry' = [entry EXCEPT ![t].queued = FALSE]
    /\ IF entry[t].device = Local
       THEN watch' = [watch EXCEPT ![t] = "nothing"] /\ ResumeQueue(t)
       ELSE watch' = [watch EXCEPT ![t] = "context"] /\ UNCHANGED asks

\* Mutant of PollFailed: the next step is asked for all the same.
PollFailedResuming(t) ==
    /\ Latest(t) = "FAILED"
    /\ entry' = [entry EXCEPT ![t].queued = FALSE, ![t].failed = TRUE]
    /\ watch' = [watch EXCEPT ![t] = "nothing"]
    /\ ResumeQueue(t)

PollFailed(t) ==
    /\ Latest(t) = "FAILED"
    /\ entry' = [entry EXCEPT ![t].queued = FALSE, ![t].failed = TRUE]
    /\ watch' = [watch EXCEPT ![t] = "nothing"]
    /\ SelfHeal("EXEC_FAILED", t)

Poll(t) ==
    /\ watch[t] = "command"
    /\ PollGivesUp(t) \/ PollCompleted(t) \/ PollFailed(t)
    /\ UNCHANGED <<page, executing, engine, rows, run, succeeded, faults>>

\* The status cannot be loaded: the terminal follows the command no longer.
PollLost(t) ==
    /\ watch[t] = "command"
    /\ Fault
    /\ watch' = [watch EXCEPT ![t] = "nothing"]
    /\ UNCHANGED <<page, executing, entry, asks, engine, rows, run, succeeded>>

\* waitForPostCommandContext: the snapshot is there, or the terminal goes on
\* without, after POST_COMMAND_CONTEXT_MAX_ATTEMPTS or an error.
PostCommandContext(t) ==
    /\ watch[t] = "context"
    /\ \/ watch' = [watch EXCEPT ![t] = "verification"] /\ UNCHANGED asks
       \/ watch' = [watch EXCEPT ![t] = "nothing"] /\ ResumeQueue(t)
    /\ UNCHANGED <<page, executing, entry, engine, rows, run, succeeded, faults>>

\* verifyPostCommandContext: "verified", "unknown", none and an error are done.
VerifiedOrUnknown(t) ==
    /\ ResumeQueue(t)
    /\ UNCHANGED entry

\* "failed" or "uncertain": one repair, or an end for the user to look at.
VerificationFails(t) ==
    IF entry[t].repair
    THEN UNCHANGED <<entry, asks>>
    ELSE /\ \E failed \in BOOLEAN : entry' = [entry EXCEPT ![t].failed = failed]
         /\ SelfHeal("VERIFICATION", t)

Verification(t) ==
    /\ watch[t] = "verification"
    /\ watch' = [watch EXCEPT ![t] = "nothing"]
    /\ VerifiedOrUnknown(t) \/ VerificationFails(t)
    /\ UNCHANGED <<page, executing, engine, rows, run, succeeded, faults>>
-----------------------------------------------------------------------------
UserNext ==
    \/ \E kind \in {"command", "continue"} : Command(kind)
    \/ \E d \in Targets : SelectDevice(d)
    \/ \E d \in Devices \cup {selected} : LoadDevices(d)
    \/ \E t \in Tasks : Approve(t)

\* The backend's and the terminal's part in message t and its execution.
AskNext(t) == CreateTask(t) \/ Analyze(t) \/ Respond(t) \/ RespondError(t)
RunNext(t) ==
    \/ RefuseExecution(t) \/ ExecuteLocally(t) \/ Enqueue(t) \/ ExecuteResponse(t)
WatchNext(t) == Poll(t) \/ PostCommandContext(t) \/ Verification(t)
FaultNext(t) ==
    \/ CreateFails(t) \/ AnalyzeFails(t) \/ Fallback(t) \/ RespondUnsaved(t)
    \/ AskLost(t) \/ ExecutionLost(t) \/ PollLost(t)

Next ==
    \/ UserNext
    \/ \E t \in Tasks :
         \/ AskNext(t) \/ RunNext(t) \/ WatchNext(t) \/ FaultNext(t)
         \/ \E i \in DOMAIN commands[t] : NodeReports(t, i)

Spec == Init /\ [][Next]_vars

\* Requests are served and answered, and timers fire.  Nothing makes the user do
\* anything, or a node report.
FairSpec ==
    /\ Spec
    /\ \A t \in Tasks :
         WF_vars(AskNext(t)) /\ WF_vars(RunNext(t)) /\ WF_vars(WatchNext(t))
-----------------------------------------------------------------------------
(***************************************************************************)
(* Properties                                                              *)
(***************************************************************************)

\* A proposal that can be approved is the one that executeTask will find in the
\* task (AgentController.java:125), although it is saved in two transactions,
\* each of which may fail, and shown after a response that may be lost.
ShownIsStored ==
    \A t \in Tasks :
        entry[t].shown => t \in scripts /\ status[t] \notin {"ABSENT", "PENDING"}

\* "Action completed successfully." is true: an entry with this badge had an
\* execution that ended as a success, however often the approval was repeated
\* after errors, and whichever command of the task the terminal followed.
BadgeIsTrue ==
    \A t \in Tasks :
        entry[t].executed /\ ~entry[t].queued /\ ~entry[t].failed => t \in succeeded

\* The queue is resumed for a step that is done, and once for each: the terminal
\* sends at most one message for an entry, over all the approvals and the timers
\* that may be under way for it, and a "continue" only after a success.
ResumeIsEarned ==
    \A t \in Tasks :
        ask[t].origin # NoTask =>
            /\ ask[t].kind = "continue" => ask[t].origin \in succeeded
            /\ \A u \in Tasks \ {t} : ask[u].origin # ask[t].origin

\* Nothing is under way and nothing waits for the user.
AtRest ==
    /\ waiting = {}
    /\ \A t \in Tasks :
         /\ ask[t].pc \in {"none", "done"}
         /\ run[t] = "none" /\ watch[t] = "nothing"
         /\ entry[t].shown => entry[t].executed /\ ~entry[t].queued

\* Nothing failed, neither the system nor a script, and a message is left to send.
Smooth == faults = 0 /\ asked < MaxTasks /\ \A t \in Tasks : ask[t].kind \notin Repairs

\* The plan is worked off: when the terminal comes to rest with every proposal
\* done, no step is left in the engine's queue, although the terminal only knows
\* the pendingCount of when each proposal was made, and commands, resumes and
\* approvals of several entries overlap; unless the adapter dropped what the engine
\* has halted on last (QueueIsContinued does not hold).
PlanIsFinished == AtRest /\ Smooth /\ ~unshown => queue = 0

\* The terminal is not locked for good: the two flags that disable its input are
\* reset, by whichever answer, error or timer comes, of overlapping messages.
Unlocks == /\ thinking ~> ~thinking
           /\ executing ~> ~executing

\* SYSAGENT_MASTER_DOCUMENTATION.md:54, "Continue queue until all steps are
\* complete": a queue with steps left is resumed, or replaced by a command of the
\* user, but by nothing else.
PlanIsKept ==
    [][\A t \in Tasks :
         t \in waiting \ waiting' /\ queue > 0 /\ UNCHANGED faults
             => ask[t].kind \in {"command", "continue"}]_vars

\* The same line: with nothing failed, a queue with steps left is not given up.
QueueIsContinued == AtRest /\ Smooth => queue = 0

\* SYSAGENT_ROADMAP.md:53, "Require the user to click 'Approve & Run locally'":
\* a proposal for the backend's host is shown with this button.
LocalIsShownLocal ==
    \A t \in Tasks : entry[t].shown /\ ask[t].device = Local => entry[t].device = Local
=============================================================================
