--------------------------- MODULE EngineRequests ---------------------------
(***************************************************************************)
(* A request to the AI engine under the Agent Hub's configuration: where   *)
(* it is routed, which tool may answer it, which script may be proposed,   *)
(* who has to approve it, and the backend's second look at the rules when  *)
(* the user approves.  The engine serves one request at a time; edits of   *)
(* the tables, failures of the database, deaths of the tool server and     *)
(* restarts of the engine fall between any two of its steps.               *)
(*                                                                         *)
(* The language models choose freely: the scripts, and the crew's tools.   *)
(***************************************************************************)
EXTENDS AgentHub, McpTools

CONSTANTS
    Requests,    \* [intent, words, windows]: classified commands and their host
    Commands,    \* the scripts a model may write
    MaxRestarts  \* bound on the restarts of the engine

ASSUME RequestsAssumption ==
    Requests \subseteq [intent : Intents, words : SUBSET STRING, windows : BOOLEAN]
ASSUME RestartsAssumption == MaxRestarts \in Nat

VARIABLES
    req,      \* the request served, and how far it is
    task,     \* the latest script proposed to the user
    restarts

vars == <<hub, server, req, task, restarts>>

NoRequest == [pc |-> "idle", intent |-> "CHAT", words |-> {}, windows |-> FALSE,
              own |-> "data", tool |-> NoTool, script |-> NoScript,
              via |-> "generate", answer |-> "none"]
NoTask == [stage |-> "none", script |-> NoScript, windows |-> FALSE,
           intent |-> "CHAT", via |-> "generate", source |-> "fallback",
           since |-> 1, looked |-> 0]

Scripts == Commands \cup {NoScript}
Answers == {"none", "text", "unsupported", "refused", "data", "failed", "unknown tool"}

RequestStates ==
    [pc : Nodes \cup {"idle", "status", "route", "call", "send", "proposed", "answered"},
     intent : Intents, words : SUBSET STRING, windows : BOOLEAN, own : {"data", "failed"},
     tool : FallbackTools \cup {NoTool}, script : Scripts, via : Nodes, answer : Answers]
TaskStates ==
    [stage : {"none", "shown", "opened", "checked", "running", "blocked", "autonomous"},
     script : Scripts, windows : BOOLEAN, intent : Intents, via : Nodes,
     source : {"fallback", "database"}, since : Editions, looked : 0 .. MaxEdition]

TypeOK ==
    /\ HubTypeOK
    /\ ServerTypeOK
    /\ req \in RequestStates
    /\ task \in TaskStates
    /\ restarts \in 0 .. MaxRestarts

Init ==
    /\ HubInit
    /\ ServerInit
    /\ req = NoRequest
    /\ task = NoTask
    /\ restarts = 0

Busy == req.pc # "idle"
HasConfig == cache # NoConfig
At(pc) == req.pc = pc
GoTo(pc) == req' = [req EXCEPT !.pc = pc]
Answer(answer) == req' = [req EXCEPT !.pc = "answered", !.answer = answer]
OnlyRequest == UNCHANGED <<hub, server, task, restarts>>
-----------------------------------------------------------------------------
(* The engine.                                                             *)

\* analyze.  A script that waits for the user is decided upon first, and then
\* forgotten: a bound on the tasks of the model.
Analyze(r, own) ==
    /\ At("idle")
    /\ task.stage \notin {"shown", "opened", "checked"}
    /\ req' = [NoRequest EXCEPT !.pc = "route", !.intent = r.intent, !.words = r.words,
                                !.windows = r.windows, !.own = own]
    /\ task' = NoTask
    /\ UNCHANGED <<hub, server, restarts>>

\* The first look at the configuration loads it.
LoadConfig ==
    /\ req.pc \in {"route", "status"}
    /\ Load
    /\ UNCHANGED <<server, req, task, restarts>>

\* /runtime/status and /agent-hub/status, with or without a refresh.
Status ==
    /\ At("idle")
    /\ GoTo("status")
    /\ ClearCache \/ UNCHANGED hub
    /\ UNCHANGED <<server, task, restarts>>

ReportStatus ==
    /\ At("status")
    /\ HasConfig
    /\ GoTo("idle")
    /\ EnsureServer
    /\ UNCHANGED <<hub, task, restarts>>

\* route_after_intent: a route to anything but these nodes is passed over.
RoutedTo(config, intent, words) ==
    LET configured == Selected(config, intent, words) \cap Nodes
    IN  IF configured # {} THEN configured
    ELSE {IF intent = "CHAT" THEN "direct_chat"
          ELSE IF ReadSupported(intent, words) THEN "mcp_read_only"
          ELSE IF intent = "SYSTEM_OPERATION" THEN "crewai" ELSE "generate"}

RouteIt ==
    /\ At("route")
    /\ HasConfig
    /\ \E node \in RoutedTo(cache, req.intent, req.words) :
         req' = [req EXCEPT !.pc = node, !.via = node]
    /\ OnlyRequest

DirectChat ==
    /\ At("direct_chat")
    /\ Answer("text")
    /\ OnlyRequest

\* mcp_read_only_node, up to the call of the tool.

ToolAllowed(config, tool) == tool \in ToolsOf(config)

McpRead ==
    /\ At("mcp_read_only")
    /\ LET tool == PlanTool(req.intent, req.words) IN
         IF tool = NoTool THEN Answer("unsupported")
         ELSE IF ~ToolAllowed(cache, tool) THEN Answer("refused")
         ELSE req' = [req EXCEPT !.pc = "call", !.tool = tool]
    /\ OnlyRequest

CallTool ==
    /\ At("call")
    /\ GoTo("send")
    /\ EnsureServer
    /\ UNCHANGED <<hub, task, restarts>>

Send ==
    /\ At("send")
    /\ \E outcome \in TransportOutcomes(req.own) : Answer(CallResult(outcome, req.own))
    /\ OnlyRequest

\* run_crewai_diagnostics_node: the crew may call its tools, of which nobody asks
\* whether they are allowed, and its script is not validated.
RunCrew ==
    /\ At("crewai")
    /\ \E script \in Scripts :
         req' = [req EXCEPT !.pc = "proposed", !.script = script]
    /\ EnsureServer \/ UNCHANGED server
    /\ UNCHANGED <<hub, task, restarts>>

\* generate_action_script_node and _finalize_script_proposal: a script that the
\* guardian refuses is replaced by an explanation.
Vetted(config, script, windows) ==
    IF EngineAllows(RulesOf(config), script, windows) THEN script ELSE NoScript

Generate ==
    /\ At("generate")
    /\ \E script \in Scripts :
         req' = [req EXCEPT !.pc = "proposed",
                            !.script = Vetted(cache, script, req.windows)]
    /\ OnlyRequest

TaskAt(stage) ==
    [stage |-> stage, script |-> req.script, windows |-> req.windows,
     intent |-> req.intent, via |-> req.via, source |-> cache.source,
     since |-> refreshed, looked |-> 0]

\* route_after_script_generation; the backend shows a script it could save.
Propose ==
    /\ At("proposed")
    /\ Answer("text")
    /\ IF req.script = NoScript THEN UNCHANGED task
       ELSE IF ~RequiresApproval(RulesOf(cache), req.intent)
            THEN task' = TaskAt("autonomous")
            ELSE IF dbUp THEN task' = TaskAt("shown") ELSE UNCHANGED task
    /\ UNCHANGED <<hub, server, restarts>>

Reply ==
    /\ At("answered")
    /\ req' = NoRequest
    /\ OnlyRequest

\* What the engine was doing is lost with it.
Restart ==
    /\ restarts < MaxRestarts
    /\ restarts' = restarts + 1
    /\ HubRestart
    /\ ServerRestart
    /\ req' = NoRequest
    /\ UNCHANGED task
-----------------------------------------------------------------------------
(* The backend, when the user approves: executeTask reads the task, looks  *)
(* at the rules in a query of its own, and marks the task before it starts *)
(* the script (or hands it to a device).                                   *)

OnlyTask == UNCHANGED <<hub, server, req, restarts>>

OpenTask ==
    /\ task.stage = "shown"
    /\ dbUp
    /\ task' = [task EXCEPT !.stage = "opened"]
    /\ OnlyTask

\* A blocked task is marked FAILED, if the database takes it.
CheckTask ==
    /\ task.stage = "opened"
    /\ task' = [task EXCEPT
         !.looked = edition,
         !.stage = IF BackendAllows(Tables[edition].rules, task.script, task.windows, dbUp)
                   THEN "checked" ELSE IF dbUp THEN "blocked" ELSE "shown"]
    /\ OnlyTask

StartTask ==
    /\ task.stage = "checked"
    /\ task' = [task EXCEPT !.stage = IF dbUp THEN "running" ELSE "shown"]
    /\ OnlyTask
-----------------------------------------------------------------------------
Engine ==
    \/ LoadConfig \/ ReportStatus \/ RouteIt \/ DirectChat \/ McpRead \/ CallTool
    \/ Send \/ RunCrew \/ Generate \/ Propose \/ Reply

Users ==
    \/ \E r \in Requests, own \in {"data", "failed"} : Analyze(r, own)
    \/ Status
    \/ OpenTask \/ CheckTask \/ StartTask

Surroundings ==
    \/ (Edit \/ DatabaseFails \/ DatabaseReturns) /\ UNCHANGED <<server, req, task, restarts>>
    \/ (ChildBinds \/ ChildDies \/ OtherDies) /\ UNCHANGED <<hub, req, task, restarts>>
    \/ Restart

Next == Engine \/ Users \/ Surroundings

\* The engine goes on with the request it serves.
Spec == Init /\ [][Next]_vars /\ WF_vars(Engine)
-----------------------------------------------------------------------------
\* The parts of a copy are never older than the last refresh, nor is a later
\* part older than an earlier one: rules at least as new as the routes and tools
\* they are to guard, whatever edit falls into the load.
InOrder(at, n) ==
    \A i \in 1 .. n :
        /\ refreshed <= at[Parts[i]] /\ at[Parts[i]] <= edition
        /\ \A j \in 1 .. i : at[Parts[j]] <= at[Parts[i]]
ConfigIsRecent == HasConfig /\ FromTables(cache) => InOrder(cache.at, 4)

\* mcp_read_only_node calls a tool for a read only if the tables allowed it at some
\* time since the last refresh, or the engine runs on its defaults, which allow it.
WithdrawnToolIsNotCalled ==
    req.pc \in {"call", "send"} =>
        IF FromTables(cache) THEN \E e \in refreshed .. edition : req.tool \in Tables[e].tools
        ELSE req.tool \in FallbackTools

\* generate_action_script_node proposes only what the guardian's lists let through, and
\* the rules of some edition since the last refresh, or those of the defaults.
LetThrough(rules) ==
    /\ ~EngineRulesBlock(rules, task.script, task.windows)
    /\ ~EngineHardBlocks(task.script, task.windows)
ProposalIsAllowed ==
    task.stage # "none" /\ task.via = "generate" =>
        IF task.source = "database"
        THEN \E e \in task.since .. edition : LetThrough(Tables[e].rules)
        ELSE LetThrough(FallbackRules)

\* Whatever the tables say, a script of either node is run without the user's
\* approval only for an intent that reads, and never under the defaults.
WritesWaitForApproval ==
    task.stage = "autonomous" =>
        task.intent \in SafeIntents /\ task.source = "database"

\* What a user approved and the backend started, of either node, is not on the
\* static lists, whatever rules were edited and whichever look at them failed.
HardBlockedIsNotStarted ==
    task.stage = "running" => ~BackendHardBlocks(task.script, task.windows)

\* The two looks together: a script that generate_action_script_node proposed under
\* the tables is not started if a rule blocks it that stood from the engine's last
\* refresh to the backend's look, even if that look failed.  The defaults know no
\* rule of the tables, and the crew's scripts have only the backend's look.
Standing(rule, first, last) ==
    \A e \in first .. last : \E i \in DOMAIN Tables[e].rules : Tables[e].rules[i] = rule
StandingRuleHolds ==
    task.stage = "running" /\ task.via = "generate" /\ task.source = "database" =>
        \A i \in DOMAIN Tables[task.looked].rules :
            LET rule == Tables[task.looked].rules[i] IN
            Standing(rule, task.since, task.looked) =>
                ~EngineRuleBlocks(rule, task.script, task.windows)

\* The policy as far as it is kept.  The tools of mcp_read_only_node and the scripts of
\* generate_action_script_node have a permission that is not older than the last
\* refresh, and a standing rule of the tables stops those scripts.  The crew calls its
\* tools and proposes its scripts without a permission (RunCrew): for those scripts
\* only the approval of writes and the backend's static lists are kept.
PolicyIsKept ==
    /\ WithdrawnToolIsNotCalled
    /\ ProposalIsAllowed
    /\ WritesWaitForApproval
    /\ HardBlockedIsNotStarted
    /\ StandingRuleHolds

\* Reads are answered with what the tool has to say, whatever became of the
\* server between the look at its port and the call.
AnswerIsTheTools ==
    req.pc = "answered" /\ req.tool # NoTool => req.answer = req.own

\* The engine never has two server processes, however late one is to listen.
OneChild == alive <= 1

\* Nobody who asks a tool notices what becomes of the server meanwhile, nor are
\* the calls that find its port closed the start of ever more servers.
ToolServerIsHidden == AnswerIsTheTools /\ OneChild

\* A request is answered, also while the database comes and goes.
RequestIsAnswered == Busy ~> ~Busy
=============================================================================
