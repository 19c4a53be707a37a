# SysAgent in TLA+

SysAgent is a web terminal in which a user asks, in plain language, for things to be done
on a machine.  An AI engine (Python, LangGraph) turns the request into a queue of steps and
proposes a script for each; the user approves it in the browser (Angular); the backend
(Spring Boot, PostgreSQL) runs it on its own host or queues it for a registered device, on
which a node runtime (Python) polls for commands, runs them and reports back.

This directory holds TLA+ models of the parts of this system that are hard to test, their
TLC configurations, and proofs checked by TLAPS.  `PROJECT.json` lists components, runs,
mutants, the lines of the source each definition stands for, hazards, findings, theorems.
Paths below are relative to the repository; `B` is
`backend/src/main/java/com/sysagent/sysagent_backend`.

## 1. Inventory

| Component | State | Operations | Interacts with | Correct when |
|---|---|---|---|---|
| Task store (`B/service/TaskService`) | `tasks` rows: status, script, intent, target device | create, update status / script / intent, each a transaction that loads, changes and saves the row | every controller; `recordCommandResult` joins it | the status tells the truth about what was run |
| Remote execution (`B/controller/TaskController`, `B/service/NodeCommandService`) | `node_commands` rows | `executeTask` (guard, policy, `enqueue`), `claimNextCommand`, `recordCommandResult` | node runtime polls over HTTP | at most one run per command, on the right device; no command or task hangs; COMPLETED is earned |
| Node runtime (`node_runtime/sysagent_node`) | one command at a time, in memory | poll, run, report, `doctor`, heartbeat, desktop context | HTTP client of the backend; systemd / launchd restart it | whatever was claimed is run once and reported |
| Local execution (`TaskController`, `ScriptExecutionService`) | `tasks.status`; threads of requests | guard, policy, mark IN_PROGRESS, script, save status | interpreter processes, database | a script runs once, and what was run is on record |
| AI orchestrator (`ai_engine/agents/langgraph`) | per thread: queue, step, intent, script, explanation, retries, errors | nodes of a graph, one invocation per `/analyze` | language model, MCP tools, CrewAI, executor | steps in order and once; proposals are current; only safe scripts run unapproved; it ends |
| Checkpointing (`core/langgraph_checkpoint`) | the thread's state in PostgreSQL or memory | save after each node, load at invocation | orchestrator | the queue survives until the next message |
| Analysis pipeline (`AgentController`, `RealAiAgentAdapterImpl`) | a task on its way from PENDING to ANALYZED | create, call the engine with a timeout, save intent, script, status | engine, task store | a script that is shown can be executed, one that is stored was shown |
| Terminal (`frontend/.../terminal-window.ts`) | log entries with script, task, pendingCount, queued, executing | command, approve, poll, self-heal, verify, resume | backend | the queue is continued until it is empty, on its device |
| Device registry (`DeviceService`, `NodeDeviceAuthService`, heartbeat) | registration tokens, node token hashes, device rows; the node's configuration file | create token, register, heartbeat | node runtime | a device stays with its owner, and accepts only a node token that was issued for it |
| Desktop context (`DeviceContextService`, `TaskController`, `screen_context`) | up to 50 snapshots per device | record, latest, latest of a task, summarise, verify | node runtime, terminal, engine | a script is about what the screen shows; a verdict is about the screen after the command |
| Agent Hub (`core/agent_hub`, `AgentHubService`) | routes, prompts, tools, risk rules in the database, and a copy of them in the engine | load with fallback, cache, refresh, select, block | orchestrator, executeTask | a copy is as new as the last refresh; a rule that stands is applied |
| MCP client, server, planner | a server process, tool results | plan, start, wait for the port, call, walk directories | orchestrator | the answer is the tool's, whatever becomes of the server; a walk says whether it is complete |
| Script policy, guardian, validators | none | propose, classify, block | worker, executeTask, node runtime | a reference resolves to what is meant; what is blocked is not started; a high risk is shown |
| Accounts, JWT, rate limiter | users, fixed windows of attempts | login, register | everything | at most so many attempts per window |
| Automations, metrics, migrations, other pages, service installer | rows, samples, files | CRUD, sampling | - | no interesting interleavings, see section 8 |

What is hard here, and where it bites, is the list `hazards` of `PROJECT.json`.  In short:

* no row of the database is locked or versioned, and Hibernate writes whole rows, so a
  transaction that read something may commit over what others wrote since;
* local execution spreads mark, run and save over transactions that may fail one by one;
* the node runtime may stop between claim and report, time out while the backend goes on,
  and be restarted at once;
* the orchestrator's state lives on over invocations, repairs, exceptions and restarts, and
  fields of one step are still there when the next one is worked on;
* the terminal keeps its own idea of the queue (`pendingCount`);
* a script is proposed from the conversation and from a snapshot of a screen that its user
  goes on changing; snapshots get lost, are evicted, and are looked up by task only;
* the engine's copy of the Agent Hub is loaded by four queries, is replaced by defaults after
  an error, and is kept; the backend reads the same rules in its own way;
* `registerNode` and `recordHeartbeat` are no transactions with what they read before.

## 2. Modules

| Module | What it is |
|---|---|
| `TaskStore` | the status of a task and how `updateTaskStatus` writes it |
| `RemoteExecution` | executeTask for a device, the command queue and the node runtime processes |
| `CommandDelivery` | abstract: what the queue promises for a device with one runner |
| `LocalExecution` | executeTask on the backend's host |
| `Orchestrator` | the LangGraph graph, for one thread over many invocations |
| `TerminalSession` | the terminal of the frontend, from message to message, through backend and engine |
| `CommandPolicy` | what the engine's guardian and the backend's validator say of a script |
| `AgentHub` | the tables of the Agent Hub and the engine's copy of them (extends `CommandPolicy`) |
| `McpTools` | the planner of the read-only tools, their server process and the client's call |
| `EngineRequests` | the composition of these three: a request to the engine, and the approval of its script |
| `FileTools` | the four tools that read files, on a tree that changes under them |
| `ScriptProposals` | the scripts proposed without a language model, and the risk shown for them |
| `DesktopActions` | screen, snapshots, proposal, command, verification and repair (extends `ScriptProposals`) |
| `DeviceRegistry` | registration tokens, registrations, node tokens, heartbeats, nodes |
| `DeviceKeys` | abstract: what the registry promises of devices, owners and keys |
| `MC...` | an instance for TLC of the module of that name |
| `RemoteExecutionProofs` | proofs: shape, safety and the refinement of `CommandDelivery` |
| `LocalExecutionProofs`, `OrchestratorProofs`, `TerminalSessionProofs` | proofs about these three |
| `EngineRequestsProofs`, `FileToolsProofs`, `DesktopActionsProofs` | proofs about these three |
| `DeviceRegistryProofs` | proofs: safety and the refinement of `DeviceKeys` |

A definition whose comment begins "Mutant of" is not part of a specification: it is a
plausible bug that a property has to notice (list `mutants`).

### RemoteExecution

State: the rows `taskStatus`, `cmdStatus`, `cmdTask`; `request[r]`, a thread of the backend
that serves `executeTask`; `handler[h]`, one that serves a request of a node; `node[n]`, a
process of the node runtime with the token of device `DeviceOf[n]`.  `cmd` numbers are also
the order of `createdAt`.  Histories: `runs[c]`, `succeeded`.

A transaction is one step per read and one that commits its writes, as PostgreSQL at READ
COMMITTED with neither locks nor versions allows; Hibernate issues an UPDATE only if the
row differs from what was loaded (`Written`).  `executeTask` is `ExecuteTask` (load and
guard), then `EnqueueRead`/`EnqueueCommit` or `BlockRead`/`BlockCommit`; a claim is
`ClaimRead`/`ClaimCommit`; a result is `ResultRead`, `ResultLoadTask`, `ResultCommit`.  A
handler whose client has gone (`live = FALSE`) goes on for nobody.  A process is in the loop
of `_run` (`Poll`, `PollResponse`, `ExecuteScript` or `RefuseScript`, `Report`,
`ReportResponse`); `doctor` only polls, and drops what it gets.  `NodeFails` is a crash or a
client timeout, `RequestLost` a request that does not arrive, `HandlerFails` and
`ExecuteFails` rollbacks, `NodeRestart` the service manager.

`CommandDelivery` is the promise behind it: absent, queued, handed out, and started at most
once.  Under `SoleRunner` (a device has one process that runs commands) the rows implement
it, with `stage` as the mapping.

### LocalExecution

Each `tryUpdateStatus` is a load and a commit of its own and may fail by itself
(`StoreFails`); the script runs in between (`StartScript`, `EndScript`), so requests for one
task overlap in every order.  `outcomes` keeps how runs ended: "output", "EXEC_FAILED" or
"Error", which are what the strings of `ScriptExecutionService` come down to.

### Orchestrator

`node` is the node of the graph to run next; the rest of the state is `AgentState`, up to
what the routes and properties tell apart: a step is its number in the conversation, a
script is the step it was made for, `answer` is the set of steps whose outcome the
explanation has, an intent is one of two safe kinds or two others.  What the language model,
the tools and the scripts return is free, and a route of the Agent Hub may send any intent
to any worker.  `/analyze` is a coroutine that never awaits, so invocations do not overlap
(one engine process); an `Exception` ends one, with what was checkpointed; a `Restart` loses
the queue if the checkpoint is in memory.  A step is taken to be a non-empty text.

### TerminalSession

The composition of the whole: one visit of the terminal page, whose messages go through
`AgentController`, the adapter and the engine, and whose approvals go through `executeTask`.
Each message creates one task and at most one log entry with a proposal, so `ask`, `entry`,
`status`, `run` and `commands` are all indexed by the number of the message.  The parts that
have a module of their own are reduced to what they promise:

* the engine serves an invocation in one step (`Analyze`), in any order of what is waiting,
  and its queue is a number: a command or a repair prompt replaces it, "continue" goes on
  with it, and steps are taken off up to one with a proposal.  It goes on with a message the
  adapter has given up on (`Fallback`).  The adapter may drop the script that the engine halted
  on (`Normalized`): one that reads "none" in other letters than the engine's "NONE", or one
  without an explanation.  `unshown` is a history: the last invocation's script was dropped;
* an execution is its outcome: `ExecuteLocally`, or `Enqueue` and later `NodeReports`, or an
  error (`RefuseExecution`, `ExecutionLost`), after which the proposal can be approved again;
* the timers of the terminal (polling, context, verification) are the states of `watch[t]`;
  the numbers of attempts are left out, so a timer may give up whenever it has no answer.

Everything the terminal does in one callback is one action, as JavaScript runs it.
`thinking` and `executing` are the flags that disable its input; they are single flags for
any number of messages and approvals that may be under way.  The answer of the backend is
received in the step that saves its proposal (`Respond`, `RespondUnsaved`): the terminal does
nothing in between that looks at the row.  `LoadDevices` is the answer to a request that the
page makes when it opens, and can come at any time after.

### EngineRequests (with CommandPolicy, AgentHub, McpTools)

One request at a time, as the engine is a coroutine that never awaits, from `Analyze` to
`Reply`: it is routed (`RouteIt`), answered by a tool (`McpRead`, `CallTool`, `Send`), by the
crew, or by a script (`Generate`, `Propose`), which the user may approve (`OpenTask`,
`CheckTask`, `StartTask`: the backend's reads and the mark before the start).  Between any two
of these steps the tables are edited, the database comes and goes, the tool server dies or
gets its port, or the engine restarts.

* `AgentHub`: `cache` is `lru_cache`; a load is `BeginLoad`, four times `Query`, `EndLoad`.
  The copy remembers the edition each of its parts was read at, so that a load that an edit
  falls into is a state of the model.
* `CommandPolicy`: a script is the set of fragments its text holds, a pattern one of them.
  The two programs differ where the code differs: regular expressions that do not compile, or
  that mean another thing in lower case; a list of Windows zones that no path matches; an error
  that counts as "no rule".
* `McpTools`: the planner's tests in their order; `child` is `_mcp_process`, `other` whoever
  else holds the port, an older server of an earlier engine included.

### FileTools

One call.  A step is one directory that `os.walk` lists, or the loop of the tool over its
entries; `stack` holds what the walk still has to go down into.  Entries appear and vanish in
between; `steady` are those that were there throughout, of which completeness is asked.  The
limits are those of the code, as small numbers.  The path of an entry is a recursive function
on the entries, whose numbers grow from parent to child.

### DesktopActions (with ScriptProposals)

The way of one command around the whole system, as far as the screen goes into it:
`StartScript`, `EndScript`, `Report`, `PostContext`, `PeriodicContext` are the node.  On Windows a
script that clicks or types first brings a window of the program it names to the front and waits
(`BringsToFront`), so what the click falls on is the screen after that, and after what the user
does meanwhile; which window comes, and what it shows, is free.  The name of the
program in front may be missing from a snapshot (`Captures`; `Nameless` is the set of the shots
that it may be missing from), and then a click focuses a program of the conversation.  `Submit` with `Recorded` is
the table with its retention; `Ask` with `Analysis` is the engine's proposal from the latest
snapshot and the conversation; `Approve`, `ApproveElsewhere` are `executeTask`;
`PollStatus`, `WaitForContext`, `Verify`, `AskForRepair` are the terminal.  `moment` counts the
changes of the screen, so a sighting knows which screen it is of.  A command of
`ScriptProposals` is what the patterns find in its text, and verbs are matched as substrings
("uninstall" holds "install").  What the vision model sees is a permutation of the visible
controls, or nothing.  A repair prompt quotes a script and may be read as any of a set of
commands, since the patterns may match the quotation; its intent is always UNKNOWN
(`RepairsAssumption`), so it can install and press media keys, but neither click nor open.

### DeviceRegistry

A registration is `ReadToken`, `FindDevice`, `SaveDevice`, `SaveToken`, `Answer`, each a
transaction of its own, as in the code; a heartbeat is `ReadDevice` and `SaveHeartbeat`, which
writes the whole row it read.  `config` is the file, `process` what the node has loaded.  A
node token is a number: random tokens differ, and are not guessed.  `DeviceKeys` is the
promise: an owner for good, and one accepted key out of those issued for the device.  It says
that a replaced key may return, as it can (`OldKeyNeedsOverlap` says when).

## 3. Runs

| Run | Question | Result |
|---|---|---|
| `RemoteExecution_shared` | two approvals of one task, two runners on one device: `InProgressIsOutstanding`, `CompletedWasRun`, `RunIsOnRecord` | hold |
| `RemoteExecution_sole` | two devices with one runner each, a doctor, one fault: `AtMostOnce`, `RightDevice`, `ImplementsDelivery` | hold |
| `RemoteExecution_progress` | runner and doctor, one fault, fairness: `QueuedIsClaimed`, `ClaimIsSettledOrDropped` | hold |
| `LocalExecution_overlap` | three overlapping requests, one fault: `RunIsOnRecord`, `FinalIsEarned`, `InProgressIsRunning` | hold |
| `LocalExecution_tabs` | `RunsOnce`, with overlapping requests | violated |
| `Orchestrator_conversation` | conversations of three steps, one exception or restart: `QueueIsRest`, `ProposalIsCurrent`, `OnlySafeRun`, `BoundedTries`, and under fairness `InvocationEnds` | hold |
| `TerminalSession_faults` | sessions of two messages, one failure anywhere: `ShownIsStored`, `BadgeIsTrue`, and under fairness `Unlocks` | hold |
| `TerminalSession_queue` | sessions of three messages without failures: `ResumeIsEarned`, `PlanIsFinished` | hold |
| `EngineRequests_hub` | six kinds of requests, three editions of the tables, a failing database, a dying server, a restart: `ConfigIsRecent`, `PolicyIsKept`, `ToolServerIsHidden`, and under fairness `RequestIsAnswered` | hold |
| `FileTools_walk` | every call on every subtree, with one change under it: type invariant, `SearchIsComplete`, `UsageIsExact`, `NothingBarredIsFound`, `UncutIsWhole`, and under fairness `CallReturns` | hold |
| `DesktopActions_follow` | two prompts with their repairs, two commands, three snapshots: `NewestSnapshotWins`, `ClickLands`, `VerifiedAfterItRan`, `FoundContextStays`, `HighIsShownHigh` | hold |
| `DeviceRegistry_overlap` | two owners, two machines of one name, two registrations at a time: `OwnersAreKept`, `DuplicateNeedsOverlap`, `OldKeyNeedsOverlap`, `ImplementsDeviceKeys` | hold |

Four of these are conjunctions of named parts: `PolicyIsKept` of `WithdrawnToolIsNotCalled`,
`ProposalIsAllowed`, `WritesWaitForApproval`, `HardBlockedIsNotStarted` and `StandingRuleHolds`
(the first two and the last are about the read node and the proposal node only, see below);
`ToolServerIsHidden`
of `AnswerIsTheTools` and `OneChild`; `NewestSnapshotWins` of `ReferenceIsOnScreen` and
`NewestSightingIsClicked`; `UncutIsWhole` of `ShortListingIsWhole` and `ReadIsWhole`.  Each module
has a type invariant `TypeOK`, which is a theorem; the run of `FileTools` checks its own as well.

### Where code and documents disagree

`LocalExecution_tabs` is the finding of the list `findings`: an approval that is checked while
another one of the task is under way runs its script again, although a comment says that the
guard prevents it.

Five more properties say what a comment or a document says and the code does not do.  They
are in the modules, and no run checks them; TLC shows the violation when they are added to
the configuration named:

| Property | Add it to | What happens |
|---|---|---|
| `RemoteExecution!SettledIsFinal` | `PROPERTY` of `RemoteExecution_shared`, with `MaxFaults = 1` | a claim that was overtaken sets a settled command back to CLAIMED |
| `Orchestrator!RetriedBeforeSurfaced` | `INVARIANT` of `Orchestrator_conversation` | a step inherits the retries of the one before and is given up after one try |
| `TerminalSession!PlanIsKept` | `PROPERTY` of `TerminalSession_queue` | the prompt that repairs a failed step replaces the queue, and the later steps are gone |
| `TerminalSession!QueueIsContinued` | `INVARIANT` of `TerminalSession_queue` | the engine halts on a script that the adapter drops ("None", or a blank explanation): no proposal is shown, and the steps behind it stay in the queue |
| `TerminalSession!LocalIsShownLocal` | `INVARIANT` of `TerminalSession_faults` | a proposal for the backend's host is shown as one for a device, if the list of devices arrives meanwhile |

Other weak spots are part of what the models allow, and narrow what their properties say:

* `doctor` takes a command off the queue and drops it, and so does a process that stops after
  its claim (the "dropped" of `ClaimIsSettledOrDropped`);
* a script whose interpreter does not start has the outcome "Error", which counts as COMPLETED;
* a rule that does not compile makes the backend skip the rules behind it, and a database error
  all of them; `StandingRuleHolds` holds because the engine looked before, and only for scripts
  that the proposal node proposed under the tables: the defaults know no rule of the tables;
* the crew calls its tools and puts its scripts forward without any permission (`RunCrew`).
  `WithdrawnToolIsNotCalled`, `ProposalIsAllowed` and `StandingRuleHolds` leave it out; of its
  scripts `PolicyIsKept` only says that writes are approved and the backend's lists kept;
* a plan whose last shown answer lost its script on the way to the terminal is not continued
  (hence `~unshown` in `PlanIsFinished`);
* a click is placed by an image that was scaled down, without being scaled up again (hence
  the premise `ScreenWidth <= ImageWidth` of `ClickLands`), and after a focus step that may have
  changed the screen (hence its premise that the point was seen on the screen of the click);
* on Unix, ending a program is proposed as a high risk and shown as a medium one (hence
  `windows` in `HighIsShownHigh`), and a pronoun is taken for a program's name (hence
  `windows` in `ReferenceIsOnScreen`);
* a step that is run twice may be verified by the snapshot of the first run: `VerifiedAfterItRan`
  says "a command of its task", not the latest;
* a heartbeat that was read before a registration and saved after it brings the old node token
  back, and the node that was just registered is refused (`OldKeyNeedsOverlap`);
* two registrations at a time make two devices of one name, which can then not be registered
  any more (`DuplicateNeedsOverlap`, `TwoDevices`);
* a listing of files that was cut at its limit does not say so (`ShortListingIsWhole` is about
  shorter ones).

### Bounds

* `RemoteExecution`: `MaxCommands` commands are ever built, `MaxFaults` crashes, timeouts,
  losses and rollbacks happen.  Every race of the code is between two transactions, so two
  requests, two handlers and two commands have all of them; the third handler of `_progress`
  is for a request left behind by a process that was restarted while a doctor polls.  The
  theorems have no bound but these constants, which are arbitrary.
* `LocalExecution`: three overlapping requests, four approvals; a second fault adds only
  requests that stop early.
* `Orchestrator`: a plan has up to `MaxPlan = 2` steps, a conversation up to `MaxSteps`.
  Three steps have a plan, a repair or a new command that replaces the rest of it, and a
  queue taken up again.  The retry limits are those of the code.
* `TerminalSession`: two messages and one failure have a failure at every point of a message,
  its execution and the message that the terminal sends for it.  Three messages without a
  failure have a plan of two steps with its resume and another message overlapping them, and
  a repair within a plan.  A session that has used up its messages sends no more; the
  properties about what must follow say that a message is left (`Smooth`).  One device: a
  session has two targets, the host and the device.
* `EngineRequests`: three editions of the tables.  The first two differ in each of their parts, so
  that a torn load is neither of them, and one has a route to a node that is no target; the third
  has a blank rule, which the backend skips and the engine does not.  One restart and one death of a server, at any point.  The
  requests have a route with and without diagnostic terms, an intent without a route, a plan with
  and without a tool, and a file read without a path; the commands match a rule, a static list,
  both, or a rule that the two programs read differently.
* `FileTools`: twelve entries, four levels, one each of a secret directory, a secret file, a
  restricted directory and a link; limits so small that a walk stops for each of them; one
  change, before or between any two steps.
* `DesktopActions`: two screens that differ in the program in front and in what can be seen; the
  table keeps two of the three snapshots, so that the one waited for can be evicted; two prompts
  are a command and its repair, or two commands.  The last snapshot may lack the name of the
  program, by when the conversation has named one.  The terminal looks once for a status and for a
  snapshot, or gives up: a look that finds nothing only counts, and time passes before each.  The
  user changes the screen once, and each script and focus step may do so too.  The image is as wide
  as the screen; the narrower one is for the premise of `ClickLands`.
* `DeviceRegistry`: two registrations and a heartbeat of each machine is the least in which a
  device is duplicated or an old key returns; the third key is for a machine that is registered
  again.  The host name of a machine is the name it is registered by, as it is by default.
* Threads, requests and, where they have one name, machines are symmetric in runs of safety
  properties, and never in a liveness run.
* Deadlock is checked in the remote runs, `EngineRequests_hub` and `DeviceRegistry_overlap`.  In
  the others the system stops when a call has returned, or the approvals, prompts or steps of
  the conversation are used up, and deadlock is not an error there.

### Fairness

`RemoteExecution!Fairness`: the backend finishes the transactions it began (Tomcat threads
run on), a process reads its responses, runs what it got and posts the result (sequential
code), the service polls in a loop (`_run`) and is restarted by its manager (`Restart=always`
in `service.py`; a scheduled task of Windows is restarted three times only, which is more often
than the faults of the run).  Nothing makes a user approve a task, or run `doctor`; a handler that
fails, fails by a bounded fault.  `Orchestrator!FairSpec`: the graph runs on by itself once
invoked.  `TerminalSession!FairSpec`: requests are served and answered, and timers fire; the
user need not approve, nor the node report, for the terminal to unlock.
`EngineRequests!Spec`: the engine goes on with the request it serves (`WF_vars(Engine)`), since
each of its calls has a timeout; nothing makes the database return, the server answer or a user
act.  `FileTools!Spec`: the loop of a tool runs on.  Weak fairness is enough for all of them.
`DesktopActions` and `DeviceRegistry` state safety only: what becomes of a screen, or of a
request that may be lost, is up to others.  `LocalExecution` has no liveness property: how
long a script may take is bounded by a timeout whose result is an outcome like any other.

## 4. Proofs

All theorems hold for every value of the constants that satisfies the assumptions named in
the modules: targets are devices, `None` is not a task, bounds are numbers, an entry of a tree
has a greater number than its parent (`TreeAssumption`: a tree has no cycles), and the
coordinates in a prompt are the user's own, that is, seen in no image (`CommandsAssumption`); a
repair prompt has the intent that `_is_repair_feedback` gives it (`RepairsAssumption`).

**Remote execution, shape** (`RemoteExecutionProofs`, first half).  `TypeOK` is not inductive:
that a claim returns a committed command to a waiting process needs to know which threads
serve which process.  `Shape` says: a row is there when a request, thread or process talks
about it; a process waits exactly for the one live thread that serves it; what a process
holds has left the queue; two requests never have one command.  Its lemmas go action by
action; `TypeCorrect` follows.

**Remote execution, safety** (second half).

* `RunsAreOnRecord`: a task with a committed command was loaded as started by whoever skips
  its UPDATE, and no step writes PENDING or ANALYZED.
* `CompletedIsTrue`: a success is made by `ExecuteScript` only and carried unchanged through
  process, request and transaction to the rows.
* `TaskIsOutstanding`: the invariant is, for a task IN_PROGRESS, a command that is not
  settled and such that a result about to commit it has loaded IN_PROGRESS, and so will
  write the task.  Without the second half the lost update of two overlapping transactions
  could not be excluded.
* `RunsAtMostOnce`, `QueueImplementsDelivery`: under `SoleRunner`.  The invariant: a
  command that the runner of its device holds and has yet to run has never run, and no claim
  under way for a live client reads a command that was run.
* `CommandsReachTheirDevice`: without that assumption.  A process holds a command only out of
  the response to its own claim, and a claim reads commands of its own device; a command never
  changes its device.

**Local execution** (`LocalExecutionProofs`).  One inductive invariant ties a request's place
in `executeTask` to what it loaded, to the row and to the histories; `RunsAreOnRecord`,
`FinalsAreEarned`, `InProgressIsBeingRun` and, with one request at a time, `OneRequestRunsOnce`.

**Orchestrator** (`OrchestratorProofs`).  `Inv` says what each node may rely on: the queue is
the end of the plan with the step in work just before it (`QueueShape`); a script is there
only for the executor or the user, and is that of the step in work (`ScriptShape`); a step
has used no more tries than `retry` counts, and none before its first script (`TriesShape`).
The counter may be ahead of the tries (that is `RetriedBeforeSurfaced`), never behind, which
is why the bound on tries holds all the same.

**Terminal** (`TerminalSessionProofs`).  `Inv` is the shape of the state and three parts.
`Stored`: an entry that is shown is that of a message that has ended, so no later step of
the message, however late the engine serves it, touches its row or replaces the entry.
`Earned`: a command that is COMPLETED, a run that is SUCCESS, a timer that waits for context
or verification, and a badge each have their task in `succeeded`.  `Turns`: an entry has one
turn at a time; it is executed only while shown and not done, watched only when done, and has
a message sent for it only when neither is left, which is why `ResumeIsEarned` can say "at
most one" over any number of approvals.  `ShownScriptsAreStored`, `BadgesAreTrue` and
`ResumesAreEarned` follow.

`PlansAreFinished` says that a terminal at rest has worked off its plan, if nothing failed and the
adapter did not drop what the engine halted on last.  Its invariant, `PlanInv`, gives a queue that is not empty something it goes on with (`Open`): a
message that is not answered yet, an answer with a proposal and steps behind it, or an entry with
pending steps that is not done with.  It need not relate the numbers of queue and entries: an
invocation that leaves steps answers with a proposal that has steps pending (or with one that is
`unshown`, until the next invocation), and whoever has some sends a message, which is open again, before it is done with.  What makes it inductive is
that without failures and repairs the engine serves only those who wait (`Undisturbed`): every
answer it works on is heard, so no queue is left behind for a message that the terminal has given up.

**Engine** (`EngineRequestsProofs`).  `IInv` follows what is in flight.  `LoadFits`: a load
under way has read its parts in order, none before the last refresh, and belongs to a request
that waits for it.  `RequestFits`: a request that was routed has a copy, and the tool it calls
or the script it has is one that this copy allows (the copy cannot change before `Reply`, as
only a status request or a restart clears it).  `TaskFits`: there is an edition, no older than
the last refresh before the proposal and no newer than the backend's look, whose rules the
engine applied to the script; a rule that stood all the time is in it, which gives
`StandingRulesHold` even if the backend's look failed.  `ProposalsAreAllowed` is the first half of
the same argument.  `PolicyHolds` puts the five parts together; it says nothing of the tools and
proposals of the crew, which have no permission to begin with.  `ServerIsHidden` is about the
server.  Of the tables nothing is assumed but the kinds of their parts.

**File tools** (`FileToolsProofs`).  The walk is `IInv`.  What waits on the stack may be entered,
and so may all directories above it (`LevelsOpen`); no directory that waits is on the path of
another, or of what was found (`LevelsApart`), which keeps a file from being counted twice; what
was found may be found (`FoundFits`); and an entry that was there throughout and is wanted was
found, or a directory on its path waits, or is listed and has handed out the next entry of its path
(`NothingIsMissed`).  That holds whatever vanishes in between, because a steady entry has a
steady path (`PathsStay`).  `SearchesAreComplete`, `UsagesAreExact` and `BarredIsNotFound` follow,
for any tree, limits and changes; `UncutAnswersAreWhole` rests on `AnswersFit`, about the two tools
that do not walk.  Facts about all paths are proved by the least counterexample; that the
recursive `PathOf` satisfies its equation is proved the same way.

**Desktop** (`DesktopActionsProofs`).  `Inv`: the rows of the table are the latest snapshots
without a gap (so the number of a snapshot gives its place, and `FoundContextsStay` is a
count), and each row that is for a task was taken behind a command of that task.  The latter
needs `NodeFits`: the process that is about to take the snapshot still works on that command,
because no row of the queue changes its task and the process claims no other in between.
`VerdictsFollowRuns` follows, for any screens, scripts and summaries: nothing is assumed of
what is proposed.

The second half is about what is proposed.  `AimInv` follows a point on its way from the image
(`ImagesFit`) over the summaries in the conversation (`TalkFits`) and the proposal to the command
in the queue (`AimsFit`): it was seen no later than now, and a sighting of this very moment, in an
image that was not scaled down, is where the control is.  So a point that is out of date carries
that in its moment, all the way to the click, and `ClicksLand` need not know the way it took.  A
focus step that changes the screen is a change like the user's (`TimePasses`): it makes the point
out of date, and `ClicksLand`, which is about clicks on the very screen of the image, says nothing
of the click behind it.
`NewestSnapshotsWin` and `HighsAreShownHigh` look at each proposal when it is made, by lemmas about
the operators of `ScriptProposals`: which sighting, which name and which verb wins when several
match.

**Registry** (`DeviceRegistryProofs`).  `IInv` says of each row held in the memory of a request
what it has in common with the row in the database, whatever was written to that one in
between: its owner, and that its key was issued for the device.  `MachinesKeepOwners`,
`DuplicatesComeByOverlap` and `OldKeysComeByHeartbeats` follow, and `RowsImplementDeviceKeys`,
by way of the step that maps `SaveDevice` to `Register`, `SaveHeartbeat` to `Return` or a
stutter, and everything else to a stutter.

Model-checked only: everything under fairness (`QueuedIsClaimed`, `ClaimIsSettledOrDropped`,
`InvocationEnds`, `Unlocks`, `RequestIsAnswered`, `CallReturns`), which is out of the prover's
reach.  Each invariant, each action property and both refinements that a passing run checks
are theorems.  The documents' claims that the code does not keep (`RunsOnce` and the five of
section 3) are not, of course; `OneRequestRunsOnce` proves the first where requests do not
overlap and nothing fails.

## 5. Plan

Done: the modules of section 2 and their proofs, in that order.  What is left, by its worth:

1. The rest of the terminal: the name of the device a repair is shown with
   (`terminal-window.ts:522`), the flag against a second verification repair, which is lost
   over a failed repair and needs a session of four messages, and leaving the page.
2. How long a message may get on its way through terminal, sanitizer and adapter; the longest
   verification repairs can not pass the adapter.
3. The rate limiter's fixed windows against a sliding reference; splitting and resumption
   keywords of the planner over small alphabets of features.
4. An abstract queue of steps that `Orchestrator` implements; an abstract audit trail that both
   executions implement; with a proof of each.

No module has a RECURSIVE operator; recursion is by functions.

## 6. Reproducing

    tlc -workers 2 -config RemoteExecution_shared.cfg MCRemoteExecution.tla
    tlapm OrchestratorProofs.tla

## 7. Assumptions

One backend and one engine process; PostgreSQL at its default isolation level; no JPA
version columns and no open session in view (`application.properties`); `createdAt` of two
commands differ; HTTP requests are not duplicated by the network (retries are by hand).  Node tokens are
random, and a hash stands for its token.  The symbolic links of a tree do not form another way
into a directory that a walk enters, since walks do not follow them.

## 8. Not modelled, and why

* The status ANALYZED of `persistAnalysisResult` against an execution: the script is saved first,
  so a client that knows the task before `/process` has answered could have it executed between
  the two writes, and ANALYZED would be written over the outcome.  The terminal learns of the
  task by that answer.  `RemoteExecution` and `LocalExecution` begin with tasks that are analyzed.
* Text: prompts, explanations, the scripts themselves.  A decision that depends on a text is
  left free, or the text is the set of what the patterns find in it (`ScriptProposals`,
  `CommandPolicy`, `McpTools`).  Whether a pattern finds what was meant is not in any state.
* Language model, vision model, CrewAI, MCP transport, interpreters: external, any answer.
* The MCP tools that sample processes, ports, events and services: they read and format.
* Prompt lengths and the sanitizer; leaving the terminal page and coming back: its log is in
  memory, and what is under way goes on in a component that is no longer shown (section 5).
* Accounts, JWT and password hashing: cryptography and single rows.  The rate limiter: one
  counter per window in a synchronised map.
* Automations (rows that nothing schedules), metrics and their WebSocket, schema migration,
  service installer, other pages: sequential CRUD and I/O with no states for a model checker
  to find.
