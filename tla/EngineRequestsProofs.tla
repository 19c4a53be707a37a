------------------------ MODULE EngineRequestsProofs ------------------------
(***************************************************************************)
(* Proofs about EngineRequests: for any tables and any edits of them, any  *)
(* scripts that the models write, and any failures of the database, the    *)
(* tool server and the engine.                                             *)
(*                                                                         *)
(* The invariant follows what is in flight: a load that an edit falls      *)
(* into, the request against the copy it was routed by, the server process *)
(* against the number of those alive, and the task against the edition     *)
(* that its script was looked at under.                                    *)
(***************************************************************************)
EXTENDS EngineRequests, TLAPS

\* A load is of a request that waits for it, has no copy beside it, and has read
\* its parts in order.
LoadFits ==
    /\ refreshed <= edition
    /\ ~loading.open => loading = NoLoad
    /\ loading.open => /\ cache = NoConfig
                       /\ req.pc \in {"route", "status"}
                       /\ InOrder(loading.at, loading.read)

ServerFits == alive = IF child = "none" THEN 0 ELSE 1

\* A request that was routed has a copy, and what was decided by it holds of it.
Routed == Nodes \cup {"call", "send", "proposed"}
RequestFits ==
    /\ req.pc \in Routed => HasConfig
    /\ req.pc \in Nodes => req.via = req.pc
    /\ req.pc \in {"call", "send"} => req.tool \in ToolsOf(cache)
    /\ req.pc \notin {"call", "send", "answered"} => req.tool = NoTool
    /\ req.pc = "answered" /\ req.tool # NoTool => req.answer = req.own
    /\ req.pc = "proposed" /\ req.via = "generate" =>
          EngineAllows(RulesOf(cache), req.script, req.windows)
    /\ req.pc \in {"generate", "crewai", "proposed"} /\ ~FromTables(cache) =>
          req.intent \notin SafeIntents

\* The rules that the script of a task was looked at under.
Vetting(t, e) ==
    /\ e \in t.since .. edition
    /\ t.looked # 0 => e <= t.looked
    /\ EngineAllows(Tables[e].rules, t.script, t.windows)
TaskFits ==
    /\ task.stage \in {"checked", "running"} =>
          task.looked \in Editions /\ ~BackendHardBlocks(task.script, task.windows)
    /\ task.looked <= edition
    /\ task.stage # "none" /\ task.via = "generate" =>
          IF task.source = "database" THEN \E e \in Editions : Vetting(task, e)
          ELSE EngineAllows(FallbackRules, task.script, task.windows)

IInv ==
    /\ TypeOK /\ LoadFits /\ ConfigIsRecent /\ ServerFits
    /\ RequestFits /\ WritesWaitForApproval /\ TaskFits
-----------------------------------------------------------------------------
(* Facts about the constants and the records.                              *)

LEMMA PartsFacts ==
    /\ \A i \in 1 .. 4 : Parts[i] \in PartNames
    /\ \A i, j \in 1 .. 4 : i # j => Parts[i] # Parts[j]
    /\ Parts[2] = "tools" /\ Parts[3] = "rules"
BY DEF Parts, PartNames

LEMMA NoScriptPasses ==
    ASSUME NEW windows
    PROVE  /\ ~BackendHardBlocks(NoScript, windows) /\ ~EngineHardBlocks(NoScript, windows)
           /\ \A rule : ~EngineRuleBlocks(rule, NoScript, windows)
BY DEF NoScript, BackendHardBlocks, EngineHardBlocks, EngineRuleBlocks, HasAsPath

LEMMA NoRequestFields ==
    /\ NoRequest \in RequestStates
    /\ NoRequest.pc = "idle" /\ NoRequest.tool = NoTool
<1>1. {} \in SUBSET STRING /\ NoScript \in Scripts
  BY DEF Scripts
<1>2. "CHAT" \in Intents /\ "generate" \in Nodes /\ "none" \in Answers
  BY DEF Intents, SafeIntents, Nodes, Answers
<1> QED
  BY <1>1, <1>2 DEF NoRequest, RequestStates

LEMMA NoTaskFields ==
    /\ NoTask \in TaskStates
    /\ NoTask.stage = "none" /\ NoTask.looked = 0
BY EditionsAssumption
DEF NoTask, TaskStates, Nodes, Intents, SafeIntents, Scripts, Editions

LEMMA ConfigFields ==
    /\ Fallback \in Configs /\ ~FromTables(Fallback)
    /\ NoConfig \notin Configs
    /\ \A at \in [PartNames -> 0 .. MaxEdition] :
          Loaded(at) \in Configs /\ FromTables(Loaded(at)) /\ Loaded(at).at = at
    /\ \A c \in Configs : c.at \in [PartNames -> 0 .. MaxEdition]
    /\ \A c \in Configs : c.source \in {"fallback", "database"}
BY NoConfigAssumption, EditionsAssumption
DEF Fallback, Configs, FromTables, Loaded, NotRead, PartNames

\* Under the defaults a safe intent is not routed to the proposal of a script.
LEMMA DefaultRoutes ==
    ASSUME NEW config \in Configs, ~FromTables(config), NEW intent \in SafeIntents, NEW words,
           NEW node \in RoutedTo(config, intent, words)
    PROVE  node \in {"direct_chat", "mcp_read_only"}
<1>1. RoutesOf(config) = FallbackRoutes
  BY DEF RoutesOf
<1>2. CASE node \in Selected(config, intent, words) \cap Nodes
  <2>1. PICK i \in DOMAIN FallbackRoutes : /\ node = FallbackRoutes[i].node
                                           /\ Matches(FallbackRoutes[i], intent, words)
    BY <1>1, <1>2 DEF Selected
  <2>2. FallbackRoutes[i].intent = intent
    BY <2>1 DEF Matches
  <2>3. i \in 1 .. 7
    BY <2>1 DEF FallbackRoutes
  <2> QED
    BY <2>1, <2>2, <2>3 DEF FallbackRoutes, Route, SafeIntents
<1>3. CASE node \notin Selected(config, intent, words) \cap Nodes
  <2>1. node = IF intent = "CHAT" THEN "direct_chat"
               ELSE IF ReadSupported(intent, words) THEN "mcp_read_only"
               ELSE IF intent = "SYSTEM_OPERATION" THEN "crewai" ELSE "generate"
    BY <1>3 DEF RoutedTo
  <2>2. intent # "CHAT" => ReadSupported(intent, words)
    BY DEF SafeIntents, ReadSupported, ReadOnlyIntents, ReadCompatibleIntents
  <2> QED
    BY <2>1, <2>2
<1> QED
  BY <1>2, <1>3

LEMMA RoutesAreNodes ==
    ASSUME NEW config, NEW intent, NEW words, NEW node \in RoutedTo(config, intent, words)
    PROVE  node \in Nodes
<1>1. CASE node \in Selected(config, intent, words) \cap Nodes
  BY <1>1
<1>2. CASE node \notin Selected(config, intent, words) \cap Nodes
  <2>1. node \in {"direct_chat", "mcp_read_only", "crewai", "generate"}
    BY <1>2, Zenon DEF RoutedTo
  <2> QED
    BY <2>1 DEF Nodes
<1> QED
  BY <1>1, <1>2

LEMMA ToolsAreNames ==
    ASSUME NEW config \in Configs, FromTables(config) => config.at["tools"] \in Editions
    PROVE  ToolsOf(config) \subseteq FallbackTools
BY TablesAssumption DEF ToolsOf
-----------------------------------------------------------------------------
(* The invariant is inductive.                                             *)

LEMMA Initially == Init => IInv
<1> SUFFICES ASSUME Init PROVE IInv
  OBVIOUS
<1>1. TypeOK
  <2>1. HubTypeOK
    BY EditionsAssumption DEF Init, HubInit, HubTypeOK, Editions, NoLoad, NotRead
  <2>2. ServerTypeOK /\ restarts \in 0 .. MaxRestarts
    BY ServerAssumption, RestartsAssumption DEF Init, ServerInit, ServerTypeOK
  <2> QED
    BY <2>1, <2>2, NoRequestFields, NoTaskFields DEF Init, TypeOK
<1>2. LoadFits /\ ConfigIsRecent
  BY DEF Init, HubInit, LoadFits, NoLoad, ConfigIsRecent, HasConfig
<1>3. ServerFits
  BY DEF Init, ServerInit, ServerFits
<1>4. RequestFits /\ WritesWaitForApproval /\ TaskFits
  BY NoRequestFields, NoTaskFields
  DEF Init, HubInit, RequestFits, Routed, Nodes, WritesWaitForApproval, TaskFits
<1> QED
  BY <1>1, <1>2, <1>3, <1>4 DEF IInv

LEMMA ServerMoves ==
    ASSUME ServerTypeOK, ServerFits,
           EnsureServer \/ UNCHANGED server \/ ChildBinds \/ ChildDies \/ OtherDies
    PROVE  ServerTypeOK' /\ ServerFits'
<1> USE DEF ServerTypeOK, ServerFits
<1>1. CASE EnsureServer
  <2>1. CASE PortOpen \/ ~SdkInstalled \/ child # "none"
    BY <1>1, <2>1 DEF EnsureServer, server
  <2>2. CASE ~(PortOpen \/ ~SdkInstalled \/ child # "none")
    <3>1. /\ child = "none" /\ child' = "starting" /\ alive' = alive + 1
          /\ UNCHANGED <<other, faults>>
      BY <1>1, <2>2 DEF EnsureServer
    <3> QED
      BY <3>1
  <2> QED
    BY <2>1, <2>2
<1>2. CASE UNCHANGED server
  BY <1>2 DEF server
<1>3. CASE ChildBinds
  <2>1. alive = 1 /\ UNCHANGED <<other, faults>>
    BY <1>3 DEF ChildBinds
  <2>2. CASE other
    BY <1>3, <2>1, <2>2 DEF ChildBinds
  <2>3. CASE ~other
    BY <1>3, <2>1, <2>3 DEF ChildBinds
  <2> QED
    BY <2>2, <2>3
<1>4. CASE ChildDies
  <2>1. faults' \in 0 .. MaxServerFaults
    BY <1>4, ServerAssumption DEF ChildDies
  <2>2. alive = 1 /\ alive' = 0 /\ child' = "none" /\ other' = other
    BY <1>4 DEF ChildDies
  <2> QED
    BY <2>1, <2>2
<1>5. CASE OtherDies
  <2>1. faults' \in 0 .. MaxServerFaults
    BY <1>5, ServerAssumption DEF OtherDies
  <2>2. UNCHANGED <<child, alive>> /\ other' = FALSE
    BY <1>5 DEF OtherDies
  <2> QED
    BY <2>1, <2>2
<1> QED
  BY <1>1, <1>2, <1>3, <1>4, <1>5

\* A request goes on, the server may be started.
LEMMA RequestMoves ==
    ASSUME IInv, UNCHANGED <<hub, task, restarts>>, EnsureServer \/ UNCHANGED server,
           req' \in RequestStates, RequestFits',
           loading.open => req'.pc \in {"route", "status"}
    PROVE  IInv'
<1>1. TypeOK' /\ ServerFits'
  BY ServerMoves DEF IInv, TypeOK, HubTypeOK, hub
<1>2. LoadFits' /\ ConfigIsRecent'
  BY DEF IInv, LoadFits, ConfigIsRecent, InOrder, HasConfig, hub
<1>3. WritesWaitForApproval' /\ TaskFits'
  BY DEF IInv, WritesWaitForApproval, TaskFits, Vetting, hub
<1> QED
  BY <1>1, <1>2, <1>3 DEF IInv

\* A request with a copy is not waiting for a load.
LEMMA NoLoadBeside ==
    ASSUME IInv, HasConfig \/ req.pc \notin {"route", "status"}
    PROVE  ~loading.open
BY DEF IInv, LoadFits, HasConfig

LEMMA CopyFacts ==
    ASSUME IInv, HasConfig
    PROVE  /\ cache \in Configs
           /\ FromTables(cache) =>
                 /\ \A p \in {"tools", "rules"} : cache.at[p] \in refreshed .. edition
                 /\ \A p \in {"routes", "tools", "rules"} : cache.at[p] \in Editions
<1>1. cache \in Configs
  BY DEF IInv, TypeOK, HubTypeOK, HasConfig
<1>2. ASSUME FromTables(cache)
      PROVE  \A i \in 1 .. 3 : cache.at[Parts[i]] \in refreshed .. edition
  <2>1. \A i \in 1 .. 3 : /\ refreshed <= cache.at[Parts[i]]
                          /\ cache.at[Parts[i]] <= edition
    BY <1>2 DEF IInv, ConfigIsRecent, InOrder
  <2>2. \A i \in 1 .. 3 : cache.at[Parts[i]] \in Nat
    BY <1>1, PartsFacts, ConfigFields, EditionsAssumption
  <2> QED
    BY <2>1, <2>2 DEF IInv, TypeOK, HubTypeOK, Editions
<1>3. Parts[1] = "routes" /\ Parts[2] = "tools" /\ Parts[3] = "rules"
  BY DEF Parts
<1>4. refreshed .. edition \subseteq Editions
  BY EditionsAssumption DEF IInv, TypeOK, HubTypeOK, Editions
<1> QED
  BY <1>1, <1>2, <1>3, <1>4

\* The fields that a step of the request leaves alone.
Same(a, b) ==
    /\ a.intent = b.intent /\ a.words = b.words /\ a.windows = b.windows
    /\ a.own = b.own

LEMMA GoToFields ==
    ASSUME req \in RequestStates, NEW pc,
           pc \in Nodes \cup {"idle", "status", "route", "call", "send", "proposed", "answered"},
           GoTo(pc)
    PROVE  /\ req' \in RequestStates /\ req'.pc = pc /\ Same(req', req)
           /\ req'.tool = req.tool /\ req'.script = req.script /\ req'.via = req.via
           /\ req'.answer = req.answer
BY DEF GoTo, RequestStates, Same

LEMMA AnswerFields ==
    ASSUME req \in RequestStates, NEW answer \in Answers, Answer(answer)
    PROVE  /\ req' \in RequestStates /\ req'.pc = "answered" /\ Same(req', req)
           /\ req'.tool = req.tool /\ req'.answer = answer
BY DEF Answer, RequestStates, Same

LEMMA ReqTyped == ASSUME IInv PROVE req \in RequestStates
BY DEF IInv, TypeOK

LEMMA ReportStatusStep == IInv /\ ReportStatus => IInv'
<1> SUFFICES ASSUME IInv, ReportStatus PROVE IInv'
  OBVIOUS
<1>1. /\ req' \in RequestStates /\ req'.pc = "idle" /\ req'.tool = req.tool
      /\ req.pc = "status"
  BY ReqTyped, GoToFields DEF ReportStatus, At
<1>2. RequestFits'
  BY <1>1 DEF IInv, RequestFits, Routed, Nodes
<1> QED
  BY <1>1, <1>2, NoLoadBeside, RequestMoves DEF ReportStatus

LEMMA RouteItStep == IInv /\ RouteIt => IInv'
<1> SUFFICES ASSUME IInv, RouteIt PROVE IInv'
  OBVIOUS
<1>1. HasConfig /\ req.pc = "route" /\ UNCHANGED <<hub, server, task, restarts>>
  BY DEF RouteIt, At, OnlyRequest
<1>2. PICK node \in RoutedTo(cache, req.intent, req.words) :
         req' = [req EXCEPT !.pc = node, !.via = node]
  BY DEF RouteIt
<1>3. node \in Nodes
  BY <1>1, CopyFacts, RoutesAreNodes
<1>4. /\ req' \in RequestStates /\ req'.pc = node /\ req'.via = node
      /\ Same(req', req) /\ req'.tool = req.tool
  BY <1>2, <1>3, ReqTyped DEF RequestStates, Same
<1>5. ~FromTables(cache) /\ node \in {"generate", "crewai"} => req.intent \notin SafeIntents
  BY <1>1, <1>2, CopyFacts, DefaultRoutes
<1>6. RequestFits'
  BY <1>1, <1>3, <1>4, <1>5 DEF IInv, RequestFits, Same, hub, HasConfig, Nodes
<1> QED
  BY <1>1, <1>4, <1>6, NoLoadBeside, RequestMoves

\* The steps that leave the request with an answer and no tool.
LEMMA PlainAnswer ==
    ASSUME IInv, NEW answer \in Answers, Answer(answer),
           req.pc \notin {"call", "send", "answered", "route", "status"},
           UNCHANGED <<hub, server, task, restarts>>
    PROVE  IInv'
<1>1. /\ req' \in RequestStates /\ req'.pc = "answered" /\ req'.tool = NoTool
  BY ReqTyped, AnswerFields DEF IInv, RequestFits
<1>2. RequestFits'
  BY <1>1 DEF RequestFits, Routed, Nodes
<1> QED
  BY <1>1, <1>2, NoLoadBeside, RequestMoves

LEMMA DirectChatStep == IInv /\ DirectChat => IInv'
<1> SUFFICES ASSUME IInv, DirectChat PROVE IInv'
  OBVIOUS
<1>1. "text" \in Answers
  BY DEF Answers
<1> QED
  BY <1>1, PlainAnswer DEF DirectChat, At, OnlyRequest

LEMMA McpReadStep == IInv /\ McpRead => IInv'
<1> SUFFICES ASSUME IInv, McpRead PROVE IInv'
  OBVIOUS
<1> DEFINE tool == PlanTool(req.intent, req.words)
<1>1. req.pc = "mcp_read_only" /\ UNCHANGED <<hub, server, task, restarts>>
  BY DEF McpRead, At, OnlyRequest
<1>2. "unsupported" \in Answers /\ "refused" \in Answers
  BY DEF Answers
<1>3. CASE Answer("unsupported") \/ Answer("refused")
  BY <1>1, <1>2, <1>3, PlainAnswer
<1>4. CASE ToolAllowed(cache, tool) /\ req' = [req EXCEPT !.pc = "call", !.tool = tool]
  <2>1. HasConfig
    BY <1>1 DEF IInv, RequestFits, Routed, Nodes
  <2>2. tool \in ToolsOf(cache) /\ tool \in FallbackTools
    BY <1>4, <2>1, CopyFacts, ToolsAreNames DEF ToolAllowed
  <2> HIDE DEF tool
  <2>3. req' \in RequestStates /\ req'.pc = "call" /\ req'.tool = tool
    BY <1>4, <2>2, ReqTyped DEF RequestStates
  <2>4. RequestFits'
    BY <1>1, <2>1, <2>2, <2>3 DEF RequestFits, hub, HasConfig, Nodes
  <2> QED
    BY <1>1, <2>1, <2>3, <2>4, NoLoadBeside, RequestMoves
<1> QED
  BY <1>3, <1>4 DEF McpRead

LEMMA CallToolStep == IInv /\ CallTool => IInv'
<1> SUFFICES ASSUME IInv, CallTool PROVE IInv'
  OBVIOUS
<1>1. /\ req' \in RequestStates /\ req'.pc = "send" /\ req'.tool = req.tool
      /\ req.pc = "call"
  BY ReqTyped, GoToFields DEF CallTool, At
<1>2. UNCHANGED <<hub, task, restarts>> /\ EnsureServer
  BY DEF CallTool
<1>3. HasConfig /\ req.tool \in ToolsOf(cache)
  BY <1>1 DEF IInv, RequestFits, Routed
<1>4. RequestFits'
  BY <1>1, <1>2, <1>3 DEF RequestFits, hub, HasConfig, Nodes
<1> QED
  BY <1>1, <1>2, <1>3, <1>4, NoLoadBeside, RequestMoves

LEMMA SendStep == IInv /\ Send => IInv'
<1> SUFFICES ASSUME IInv, Send PROVE IInv'
  OBVIOUS
<1>1. req.own \in {"data", "failed"} /\ req.pc = "send"
  BY ReqTyped DEF RequestStates, Send, At
<1>2. Answer(req.own)
  BY DEF Send, TransportOutcomes, CallResult
<1>3. /\ req' \in RequestStates /\ req'.pc = "answered" /\ req'.own = req.own
      /\ req'.answer = req.own
  BY <1>1, <1>2, ReqTyped, AnswerFields DEF Answers, Same
<1>4. RequestFits'
  BY <1>3 DEF RequestFits, Routed, Nodes
<1> QED
  BY <1>1, <1>3, <1>4, NoLoadBeside, RequestMoves DEF Send, OnlyRequest
LEMMA RunCrewStep == IInv /\ RunCrew => IInv'
<1> SUFFICES ASSUME IInv, RunCrew PROVE IInv'
  OBVIOUS
<1>1. req.pc = "crewai" /\ UNCHANGED <<hub, task, restarts>>
  BY DEF RunCrew, At
<1>2. EnsureServer \/ UNCHANGED server
  BY DEF RunCrew
<1>3. PICK script \in Scripts : req' = [req EXCEPT !.pc = "proposed", !.script = script]
  BY DEF RunCrew
<1>4. /\ req' \in RequestStates /\ req'.pc = "proposed" /\ req'.via = req.via
      /\ req'.tool = req.tool /\ Same(req', req)
  BY <1>3, ReqTyped DEF RequestStates, Same
<1>5. HasConfig /\ req.via = "crewai"
  BY <1>1 DEF IInv, RequestFits, Routed, Nodes
<1>6. RequestFits'
  BY <1>1, <1>4, <1>5 DEF IInv, RequestFits, Same, hub, HasConfig, Nodes
<1> QED
  BY <1>1, <1>2, <1>4, <1>5, <1>6, NoLoadBeside, RequestMoves

LEMMA GenerateStep == IInv /\ Generate => IInv'
<1> SUFFICES ASSUME IInv, Generate PROVE IInv'
  OBVIOUS
<1>1. req.pc = "generate" /\ UNCHANGED <<hub, server, task, restarts>>
  BY DEF Generate, At, OnlyRequest
<1> DEFINE rules == RulesOf(cache)
<1>2. PICK script \in Scripts :
        req' = [req EXCEPT !.pc = "proposed", !.script = Vetted(cache, script, req.windows)]
  BY DEF Generate
<1> DEFINE kept == Vetted(cache, script, req.windows)
<1>3. kept \in Scripts /\ EngineAllows(rules, kept, req.windows)
  BY DEF Vetted, Scripts, EngineAllows
<1> HIDE DEF kept
<1>4. /\ req' \in RequestStates /\ req'.pc = "proposed" /\ req'.script = kept
      /\ req'.via = req.via /\ req'.tool = req.tool /\ Same(req', req)
  BY <1>2, <1>3, ReqTyped DEF RequestStates, Same, kept
<1>5. HasConfig
  BY <1>1 DEF IInv, RequestFits, Routed, Nodes
<1>6. UNCHANGED cache
  BY <1>1 DEF hub
<1>7. EngineAllows(RulesOf(cache), req.script, req.windows)'
  BY <1>3, <1>4, <1>6 DEF Same, RulesOf, FromTables
<1>8. RequestFits'
  BY <1>1, <1>4, <1>5, <1>6, <1>7 DEF IInv, RequestFits, Same, HasConfig, Nodes
<1> QED
  BY <1>1, <1>4, <1>5, <1>8, NoLoadBeside, RequestMoves

\* What a proposal leaves to be shown: a script that its copy of the rules let
\* through, and for whose intent it asks an approval unless it is safe.
LEMMA TaskAtFields ==
    ASSUME IInv, req.pc = "proposed", NEW stage, stage \in {"shown", "autonomous"},
           stage = "autonomous" => ~RequiresApproval(RulesOf(cache), req.intent),
           task' = TaskAt(stage), UNCHANGED hub
    PROVE  task' \in TaskStates /\ TaskFits' /\ WritesWaitForApproval'
<1>1. HasConfig /\ cache \in Configs
  BY CopyFacts DEF IInv, RequestFits, Routed
<1>2. /\ task'.stage = stage /\ task'.script = req.script /\ task'.windows = req.windows
      /\ task'.intent = req.intent /\ task'.via = req.via /\ task'.source = cache.source
      /\ task'.since = refreshed /\ task'.looked = 0
  BY DEF TaskAt
<1>3. task' \in TaskStates
  <2>1. cache.source \in {"fallback", "database"} /\ refreshed \in Editions
    BY <1>1, ConfigFields DEF IInv, TypeOK, HubTypeOK
  <2>2. 0 \in 0 .. MaxEdition
    BY EditionsAssumption
  <2> QED
    BY <2>1, <2>2, ReqTyped DEF TaskAt, TaskStates, RequestStates
<1>4. WritesWaitForApproval'
  BY <1>1, <1>2, ConfigFields
  DEF IInv, WritesWaitForApproval, RequiresApproval, RequestFits, FromTables
<1>5. task'.via = "generate" /\ task'.source = "database" => \E e \in Editions : Vetting(task, e)'
  <2> SUFFICES ASSUME task'.via = "generate", task'.source = "database"
               PROVE  \E e \in Editions : Vetting(task, e)'
    OBVIOUS
  <2>1. FromTables(cache)
    BY <1>2 DEF FromTables
  <2>2. PICK e \in Editions : e = cache.at["rules"] /\ e \in refreshed .. edition
    BY <1>1, <2>1, CopyFacts
  <2>3. EngineAllows(Tables[e].rules, req.script, req.windows)
    BY <1>2, <2>1, <2>2 DEF IInv, RequestFits, RulesOf
  <2>4. edition' = edition
    BY DEF hub
  <2>5. Vetting(task, e)'
    BY <1>2, <2>2, <2>3, <2>4 DEF Vetting
  <2> QED
    BY <2>2, <2>5
<1>6. task'.via = "generate" /\ task'.source # "database" =>
         EngineAllows(FallbackRules, task'.script, task'.windows)
  BY <1>2 DEF IInv, RequestFits, RulesOf, FromTables
<1>7. TaskFits'
  <2>1. 0 <= edition'
    BY EditionsAssumption DEF hub, IInv, TypeOK, HubTypeOK, Editions
  <2> QED
    BY <1>2, <1>5, <1>6, <2>1 DEF TaskFits
<1> QED
  BY <1>3, <1>4, <1>7

LEMMA ProposeStep == IInv /\ Propose => IInv'
<1> SUFFICES ASSUME IInv, Propose PROVE IInv'
  OBVIOUS
<1>1. req.pc = "proposed" /\ UNCHANGED <<hub, server, restarts>> /\ Answer("text")
  BY DEF Propose, At
<1>2. /\ req' \in RequestStates /\ req'.pc = "answered" /\ req'.tool = NoTool
  BY <1>1, ReqTyped, AnswerFields DEF IInv, RequestFits, Answers
<1>3. RequestFits'
  BY <1>2 DEF RequestFits, Routed, Nodes
<1>4. CASE UNCHANGED task
  BY <1>1, <1>2, <1>3, <1>4, NoLoadBeside, RequestMoves
<1>5. ASSUME NEW stage, stage \in {"shown", "autonomous"},
             stage = "autonomous" => ~RequiresApproval(RulesOf(cache), req.intent),
             task' = TaskAt(stage)
      PROVE  IInv'
  <2>1. task' \in TaskStates /\ TaskFits' /\ WritesWaitForApproval'
    BY <1>1, <1>5, TaskAtFields
  <2>2. TypeOK'
    BY <1>1, <1>2, <2>1 DEF IInv, TypeOK, HubTypeOK, ServerTypeOK, hub, server
  <2>3. LoadFits' /\ ConfigIsRecent' /\ ServerFits'
    BY <1>1, NoLoadBeside
    DEF IInv, LoadFits, ConfigIsRecent, InOrder, HasConfig, ServerFits, hub, server
  <2> QED
    BY <1>3, <2>1, <2>2, <2>3 DEF IInv
<1>6. CASE task' = TaskAt("autonomous") /\ ~RequiresApproval(RulesOf(cache), req.intent)
  BY <1>5, <1>6
<1>7. CASE task' = TaskAt("shown")
  BY <1>5, <1>7
<1> QED
  BY <1>4, <1>6, <1>7 DEF Propose

LEMMA ReplyStep == IInv /\ Reply => IInv'
<1> SUFFICES ASSUME IInv, Reply PROVE IInv'
  OBVIOUS
<1>1. req' = NoRequest /\ req.pc = "answered" /\ UNCHANGED <<hub, server, task, restarts>>
  BY DEF Reply, At, OnlyRequest
<1>2. RequestFits'
  BY <1>1, NoRequestFields DEF RequestFits, Routed, Nodes
<1> QED
  BY <1>1, <1>2, NoRequestFields, NoLoadBeside, RequestMoves
\* A request that comes in: whatever was proposed before is decided.
LEMMA AnalyzeStep ==
    ASSUME IInv, NEW r \in Requests, NEW own \in {"data", "failed"}, Analyze(r, own)
    PROVE  IInv'
<1>1. UNCHANGED <<hub, server, restarts>> /\ task' = NoTask /\ req.pc = "idle"
  BY DEF Analyze, At
<1>2. /\ req' \in RequestStates /\ req'.pc = "route" /\ req'.tool = NoTool
  <2>1. r \in [intent : Intents, words : SUBSET STRING, windows : BOOLEAN]
    BY RequestsAssumption
  <2>2. req' = [NoRequest EXCEPT !.pc = "route", !.intent = r.intent, !.words = r.words,
                                 !.windows = r.windows, !.own = own]
    BY DEF Analyze
  <2> QED
    BY <2>1, <2>2, NoRequestFields DEF RequestStates
<1>3. TypeOK' /\ ServerFits'
  BY <1>1, <1>2, NoTaskFields, ServerMoves DEF IInv, TypeOK, HubTypeOK, hub
<1>4. LoadFits' /\ ConfigIsRecent'
  BY <1>1, NoLoadBeside DEF IInv, LoadFits, ConfigIsRecent, InOrder, HasConfig, hub
<1>5. RequestFits'
  BY <1>2 DEF RequestFits, Routed, Nodes
<1>6. WritesWaitForApproval' /\ TaskFits'
  <2>1. 0 <= edition'
    BY <1>1, EditionsAssumption DEF hub, IInv, TypeOK, HubTypeOK, Editions
  <2> QED
    BY <1>1, <2>1, NoTaskFields DEF WritesWaitForApproval, TaskFits
<1> QED
  BY <1>3, <1>4, <1>5, <1>6 DEF IInv

LEMMA StatusStep == IInv /\ Status => IInv'
<1> SUFFICES ASSUME IInv, Status PROVE IInv'
  OBVIOUS
<1>1. req.pc = "idle" /\ UNCHANGED <<server, task, restarts, edition, dbUp, loading>>
  BY DEF Status, At, ClearCache, hub
<1>2. /\ req' \in RequestStates /\ req'.pc = "status" /\ req'.tool = NoTool
  BY <1>1, ReqTyped, GoToFields DEF Status, IInv, RequestFits
<1>3. RequestFits'
  BY <1>2 DEF RequestFits, Routed, Nodes
<1>4. \/ UNCHANGED <<cache, refreshed>>
      \/ cache' = NoConfig /\ refreshed' = edition
  BY DEF Status, ClearCache, hub
<1>5. TypeOK' /\ ServerFits'
  BY <1>1, <1>2, <1>4, ServerMoves DEF IInv, TypeOK, HubTypeOK
<1>6. LoadFits'
  BY <1>1, <1>4, NoLoadBeside DEF IInv, LoadFits, NoLoad, TypeOK, HubTypeOK, Editions
<1>7. ConfigIsRecent'
  BY <1>1, <1>4 DEF IInv, ConfigIsRecent, InOrder, HasConfig
<1>8. WritesWaitForApproval' /\ TaskFits'
  BY <1>1 DEF IInv, WritesWaitForApproval, TaskFits, Vetting
<1> QED
  BY <1>3, <1>5, <1>6, <1>7, <1>8 DEF IInv
-----------------------------------------------------------------------------
(* Loads, edits, failures and restarts.                                    *)

\* What is said of the request and of the task is not disturbed by a step that
\* keeps both and the copy, and does not take an edition back.
LEMMA Elsewhere ==
    ASSUME IInv, UNCHANGED <<req, task, restarts>>,
           UNCHANGED cache \/ req.pc \in {"route", "status"},
           edition' \in Editions, edition <= edition'
    PROVE  RequestFits' /\ WritesWaitForApproval' /\ TaskFits'
<1>1. RequestFits'
  <2>1. CASE UNCHANGED cache
    BY <2>1 DEF IInv, RequestFits, HasConfig, ToolsOf, RulesOf, FromTables
  <2>2. CASE req.pc \in {"route", "status"}
    BY <2>2 DEF IInv, RequestFits, Routed, Nodes
  <2> QED
    BY <2>1, <2>2
<1>2. WritesWaitForApproval'
  BY DEF IInv, WritesWaitForApproval
<1>3. TaskFits'
  <2>1. edition \in Nat /\ edition' \in Nat /\ task.looked \in Nat /\ task.since \in Nat
    BY EditionsAssumption DEF IInv, TypeOK, HubTypeOK, TaskStates, Editions
  <2>2. \A e \in Editions : Vetting(task, e) => Vetting(task, e)'
    BY <2>1, EditionsAssumption DEF Vetting, Editions
  <2> QED
    BY <2>1, <2>2 DEF IInv, TaskFits
<1> QED
  BY <1>1, <1>2, <1>3

LEMMA LoadConfigStep == IInv /\ LoadConfig => IInv'
<1> SUFFICES ASSUME IInv, LoadConfig PROVE IInv'
  OBVIOUS
<1>1. /\ req.pc \in {"route", "status"} /\ Load
      /\ UNCHANGED <<server, req, task, restarts, edition, dbUp, refreshed>>
  BY DEF LoadConfig, Load, BeginLoad, Query, EndLoad
<1>2. /\ edition \in Editions /\ refreshed \in Editions /\ refreshed <= edition
      /\ edition \in Nat /\ refreshed \in Nat /\ edition \in 0 .. MaxEdition
  BY EditionsAssumption DEF IInv, TypeOK, HubTypeOK, Editions, LoadFits
<1>3. RequestFits' /\ WritesWaitForApproval' /\ TaskFits'
  BY <1>1, <1>2, Elsewhere
<1>4. NoLoad \in [open : BOOLEAN, read : 0 .. 4, at : [PartNames -> 0 .. MaxEdition]]
  BY EditionsAssumption DEF NoLoad, NotRead
<1> DEFINE Loads == [open : BOOLEAN, read : 0 .. 4, at : [PartNames -> 0 .. MaxEdition]]
<1>5. SUFFICES /\ cache' \in Configs \cup {NoConfig}
               /\ loading' \in Loads
               /\ LoadFits' /\ ConfigIsRecent'
  BY <1>1, <1>3, ServerMoves DEF IInv, TypeOK, HubTypeOK
<1>6. CASE loading' = NoLoad /\ cache' = Fallback
  BY <1>1, <1>2, <1>4, <1>6, ConfigFields DEF LoadFits, ConfigIsRecent, NoLoad
<1>7. CASE UNCHANGED loading /\ cache' = Fallback /\ ~loading.open
  BY <1>1, <1>2, <1>7, ConfigFields
  DEF IInv, TypeOK, HubTypeOK, LoadFits, ConfigIsRecent
<1>8. CASE BeginLoad /\ dbUp
  <2>1. loading' = [NoLoad EXCEPT !.open = TRUE] /\ cache' = NoConfig /\ cache = NoConfig
    BY <1>8 DEF BeginLoad
  <2>2. loading'.open /\ loading'.read = 0
    BY <2>1 DEF NoLoad
  <2>3. loading' \in Loads
    BY <1>4, <2>1
  <2>4. InOrder(loading.at, loading.read)'
    BY <2>2 DEF InOrder
  <2> QED
    BY <1>1, <1>2, <2>1, <2>2, <2>3, <2>4 DEF LoadFits, ConfigIsRecent, HasConfig
<1>9. CASE Query /\ dbUp
  <2> DEFINE n == loading.read
             at == Reading(loading.at, Parts[n + 1])
  <2>1. /\ n \in 0 .. 3 /\ loading.open /\ cache = NoConfig /\ cache' = NoConfig
        /\ loading' = [loading EXCEPT !.read = @ + 1, !.at = at]
        /\ loading.at \in [PartNames -> 0 .. MaxEdition]
    BY <1>9 DEF Query, IInv, TypeOK, HubTypeOK, LoadFits
  <2>2. InOrder(loading.at, n)
    BY <2>1 DEF IInv, LoadFits
  <2>3. at \in [PartNames -> 0 .. MaxEdition]
    BY <1>2, <2>1 DEF Reading
  <2>4. at[Parts[n + 1]] = edition
    BY <2>1, PartsFacts DEF Reading
  <2>5. \A i \in 1 .. n : at[Parts[i]] = loading.at[Parts[i]]
    BY <2>1, PartsFacts DEF Reading
  <2> HIDE DEF at
  <2>6. ASSUME NEW i \in 1 .. n + 1
        PROVE  /\ refreshed <= at[Parts[i]] /\ at[Parts[i]] <= edition
               /\ \A j \in 1 .. i : at[Parts[j]] <= at[Parts[i]]
    <3>1. CASE i = n + 1
      <4>1. \A j \in 1 .. i : j \in 1 .. n \/ j = n + 1
        BY <2>1, <3>1
      <4>2. \A j \in 1 .. n : at[Parts[j]] <= edition
        BY <2>2, <2>5 DEF InOrder
      <4> QED
        BY <1>2, <2>4, <3>1, <4>1, <4>2
    <3>2. CASE i \in 1 .. n
      <4>1. 1 .. i \subseteq 1 .. n
        BY <2>1, <3>2
      <4> QED
        BY <2>2, <2>5, <3>2, <4>1 DEF InOrder
    <3> QED
      BY <2>1, <3>1, <3>2
  <2>7. /\ loading'.open /\ loading'.read = n + 1 /\ loading'.at = at
        /\ loading' \in Loads
    <3>1. loading \in Loads /\ n + 1 \in 0 .. 4
      BY <2>1 DEF IInv, TypeOK, HubTypeOK
    <3> HIDE DEF n
    <3>2. loading' = [loading EXCEPT !.read = n + 1, !.at = at]
      BY <2>1 DEF n
    <3> QED
      BY <2>1, <2>3, <3>1, <3>2
  <2>8. InOrder(loading.at, loading.read)'
    BY <1>1, <2>6, <2>7 DEF InOrder
  <2> QED
    BY <1>1, <1>2, <2>1, <2>7, <2>8 DEF LoadFits, ConfigIsRecent, HasConfig
<1>10. CASE EndLoad /\ cache' = Loaded(loading.at)
  <2>1. /\ loading.open /\ loading.read = 4 /\ loading' = NoLoad
        /\ loading.at \in [PartNames -> 0 .. MaxEdition]
    BY <1>10 DEF EndLoad, IInv, TypeOK, HubTypeOK
  <2>2. InOrder(loading.at, 4)
    BY <2>1 DEF IInv, LoadFits
  <2>3. cache'.at = loading.at /\ cache' \in Configs
    BY <1>10, <2>1, ConfigFields
  <2> QED
    BY <1>1, <1>2, <1>4, <2>1, <2>2, <2>3 DEF LoadFits, ConfigIsRecent, InOrder, NoLoad
<1> QED
  BY <1>1, <1>6, <1>7, <1>8, <1>9, <1>10 DEF Load, BeginLoad, Query, EndLoad
LEMMA RestartStep == IInv /\ Restart => IInv'
<1> SUFFICES ASSUME IInv, Restart PROVE IInv'
  OBVIOUS
<1>1. /\ cache' = NoConfig /\ loading' = NoLoad /\ refreshed' = edition
      /\ UNCHANGED <<edition, dbUp, task>> /\ req' = NoRequest /\ restarts' = restarts + 1
      /\ restarts < MaxRestarts
  BY DEF Restart, HubRestart
<1>2. edition \in Editions /\ edition <= edition
  BY EditionsAssumption DEF IInv, TypeOK, HubTypeOK, Editions
<1>3. HubTypeOK'
  BY <1>1, <1>2, EditionsAssumption DEF IInv, TypeOK, HubTypeOK, NoLoad, NotRead
<1>4. ServerTypeOK' /\ ServerFits'
  BY DEF Restart, ServerRestart, PortOpen, IInv, TypeOK, ServerTypeOK, ServerFits
<1>5. req' \in RequestStates /\ restarts' \in 0 .. MaxRestarts /\ task' \in TaskStates
  BY <1>1, NoRequestFields, RestartsAssumption DEF IInv, TypeOK
<1>6. LoadFits' /\ ConfigIsRecent'
  BY <1>1, <1>2 DEF LoadFits, NoLoad, ConfigIsRecent, HasConfig
<1>7. RequestFits'
  BY <1>1, NoRequestFields DEF RequestFits, Routed, Nodes
<1>8. WritesWaitForApproval' /\ TaskFits'
  BY <1>1 DEF IInv, WritesWaitForApproval, TaskFits, Vetting
<1> QED
  BY <1>3, <1>4, <1>5, <1>6, <1>7, <1>8 DEF IInv, TypeOK

LEMMA DatabaseStep ==
    ASSUME IInv, Edit \/ DatabaseFails \/ DatabaseReturns,
           UNCHANGED <<server, req, task, restarts>>
    PROVE  IInv'
<1>1. UNCHANGED <<cache, loading, refreshed>> /\ dbUp' \in BOOLEAN
  BY DEF Edit, DatabaseFails, DatabaseReturns, IInv, TypeOK, HubTypeOK
<1>2. edition' \in Editions /\ edition <= edition' /\ edition \in Nat /\ refreshed \in Nat
  BY EditionsAssumption
  DEF Edit, DatabaseFails, DatabaseReturns, IInv, TypeOK, HubTypeOK, Editions
<1>3. TypeOK' /\ ServerFits'
  BY <1>1, <1>2, ServerMoves DEF IInv, TypeOK, HubTypeOK
<1>4. ASSUME NEW at \in [PartNames -> 0 .. MaxEdition], NEW n \in 0 .. 4, InOrder(at, n)
      PROVE  InOrder(at, n)'
  <2>1. \A i \in 1 .. n : at[Parts[i]] \in Nat
    BY PartsFacts, EditionsAssumption
  <2>2. edition' \in Nat
    BY <1>2, EditionsAssumption DEF Editions
  <2> QED
    BY <1>1, <1>2, <1>4, <2>1, <2>2 DEF InOrder
<1>5. LoadFits'
  <2>1. refreshed' <= edition'
    BY <1>1, <1>2, EditionsAssumption DEF IInv, LoadFits, Editions
  <2>2. loading.at \in [PartNames -> 0 .. MaxEdition] /\ loading.read \in 0 .. 4
    BY DEF IInv, TypeOK, HubTypeOK
  <2>3. loading.open => InOrder(loading.at, loading.read)'
    BY <1>1, <1>4, <2>2 DEF IInv, LoadFits, InOrder
  <2> QED
    BY <1>1, <2>1, <2>3 DEF IInv, LoadFits
<1>6. ConfigIsRecent'
  <2>1. HasConfig /\ FromTables(cache) => InOrder(cache.at, 4)'
    <3>1. HasConfig => cache.at \in [PartNames -> 0 .. MaxEdition]
      BY ConfigFields DEF IInv, TypeOK, HubTypeOK, HasConfig
    <3> QED
      BY <1>1, <1>4, <3>1 DEF IInv, ConfigIsRecent, InOrder
  <2> QED
    BY <1>1, <2>1 DEF ConfigIsRecent, HasConfig
<1>7. RequestFits' /\ WritesWaitForApproval' /\ TaskFits'
  BY <1>1, <1>2, Elsewhere
<1> QED
  BY <1>3, <1>5, <1>6, <1>7 DEF IInv
-----------------------------------------------------------------------------
(* The task of the user.                                                   *)

\* A step of the task leaves what is in the engine alone.
LEMMA TaskMoves ==
    ASSUME IInv, UNCHANGED <<hub, server, req, restarts>>,
           task' \in TaskStates, task'.stage # "autonomous", TaskFits'
    PROVE  IInv'
<1>1. TypeOK'
  BY DEF IInv, TypeOK, HubTypeOK, ServerTypeOK, hub, server
<1>2. LoadFits' /\ ConfigIsRecent' /\ ServerFits'
  BY DEF IInv, LoadFits, ConfigIsRecent, InOrder, HasConfig, ServerFits, hub, server
<1>3. RequestFits'
  BY DEF IInv, RequestFits, HasConfig, ToolsOf, RulesOf, FromTables, hub
<1> QED
  BY <1>1, <1>2, <1>3 DEF IInv, WritesWaitForApproval

\* The script of a task, and what it was looked at under, stay as they are.
Kept(t, u) ==
    /\ t.script = u.script /\ t.windows = u.windows /\ t.intent = u.intent
    /\ t.via = u.via /\ t.source = u.source /\ t.since = u.since

LEMMA OpenTaskStep == IInv /\ OpenTask => IInv'
<1> SUFFICES ASSUME IInv, OpenTask PROVE IInv'
  OBVIOUS
<1>1. /\ task' \in TaskStates /\ task'.stage = "opened" /\ Kept(task', task)
      /\ task'.looked = task.looked /\ task.stage = "shown"
  BY DEF OpenTask, IInv, TypeOK, TaskStates, Kept
<1>2. UNCHANGED <<hub, server, req, restarts>>
  BY DEF OpenTask, OnlyTask
<1>3. TaskFits'
  BY <1>1, <1>2 DEF IInv, TaskFits, Vetting, Kept, hub
<1> QED
  BY <1>1, <1>2, <1>3, TaskMoves

LEMMA StartTaskStep == IInv /\ StartTask => IInv'
<1> SUFFICES ASSUME IInv, StartTask PROVE IInv'
  OBVIOUS
<1>1. /\ task' \in TaskStates /\ task'.stage \in {"running", "shown"} /\ Kept(task', task)
      /\ task'.looked = task.looked /\ task.stage = "checked"
  BY DEF StartTask, IInv, TypeOK, TaskStates, Kept
<1>2. UNCHANGED <<hub, server, req, restarts>>
  BY DEF StartTask, OnlyTask
<1>3. TaskFits'
  BY <1>1, <1>2 DEF IInv, TaskFits, Vetting, Kept, hub
<1> QED
  BY <1>1, <1>2, <1>3, TaskMoves

LEMMA CheckTaskStep == IInv /\ CheckTask => IInv'
<1> SUFFICES ASSUME IInv, CheckTask PROVE IInv'
  OBVIOUS
<1> DEFINE allowed == BackendAllows(Tables[edition].rules, task.script, task.windows, dbUp)
           stage == IF allowed THEN "checked" ELSE IF dbUp THEN "blocked" ELSE "shown"
<1>1. task' = [task EXCEPT !.looked = edition, !.stage = stage] /\ task.stage = "opened"
  BY DEF CheckTask
<1>2. allowed => ~BackendHardBlocks(task.script, task.windows)
  BY NoScriptPasses DEF BackendAllows
<1>3. stage = "checked" => allowed
  OBVIOUS
<1>4. stage \in {"checked", "blocked", "shown"}
  OBVIOUS
<1> HIDE DEF stage, allowed
<1>5. /\ edition \in Editions /\ edition \in 0 .. MaxEdition /\ edition \in Nat
      /\ edition # 0 /\ edition <= edition
  BY EditionsAssumption DEF IInv, TypeOK, HubTypeOK, Editions
<1>6. /\ task' \in TaskStates /\ task'.stage = stage /\ Kept(task', task)
      /\ task'.looked = edition
  BY <1>1, <1>4, <1>5 DEF IInv, TypeOK, TaskStates, Kept
<1>7. UNCHANGED <<hub, server, req, restarts>>
  BY DEF CheckTask, OnlyTask
<1>8. \A e \in Editions : Vetting(task, e) => Vetting(task, e)'
  BY <1>5, <1>6, <1>7 DEF Vetting, Kept, hub
<1>9. TaskFits'
  <2>1. edition' = edition
    BY <1>7 DEF hub
  <2>2. task'.via = "generate" =>
          IF task'.source = "database" THEN \E e \in Editions : Vetting(task, e)'
          ELSE EngineAllows(FallbackRules, task'.script, task'.windows)
    BY <1>1, <1>6, <1>8 DEF IInv, TaskFits, Kept
  <2>3. task'.stage = "checked" => ~BackendHardBlocks(task'.script, task'.windows)
    BY <1>2, <1>3, <1>6 DEF Kept
  <2> QED
    BY <1>4, <1>5, <1>6, <2>1, <2>2, <2>3 DEF TaskFits
<1> QED
  BY <1>4, <1>6, <1>7, <1>9, TaskMoves

LEMMA Inductive == IInv /\ [Next]_vars => IInv'
<1> SUFFICES ASSUME IInv, [Next]_vars PROVE IInv'
  OBVIOUS
<1>1. CASE Engine
  BY <1>1, LoadConfigStep, ReportStatusStep, RouteItStep, DirectChatStep, McpReadStep,
     CallToolStep, SendStep, RunCrewStep, GenerateStep, ProposeStep, ReplyStep DEF Engine
<1>2. CASE Users
  BY <1>2, AnalyzeStep, StatusStep, OpenTaskStep, CheckTaskStep, StartTaskStep DEF Users
<1>3. CASE (Edit \/ DatabaseFails \/ DatabaseReturns) /\ UNCHANGED <<server, req, task, restarts>>
  BY <1>3, DatabaseStep
<1>4. CASE (ChildBinds \/ ChildDies \/ OtherDies) /\ UNCHANGED <<hub, req, task, restarts>>
  <2>1. TypeOK' /\ ServerFits'
    BY <1>4, ServerMoves DEF IInv, TypeOK, HubTypeOK, hub
  <2>2. LoadFits' /\ ConfigIsRecent'
    BY <1>4 DEF IInv, LoadFits, ConfigIsRecent, InOrder, HasConfig, hub
  <2>3. edition' \in Editions /\ edition <= edition' /\ UNCHANGED cache
    BY <1>4, EditionsAssumption DEF hub, IInv, TypeOK, HubTypeOK, Editions
  <2>4. RequestFits' /\ WritesWaitForApproval' /\ TaskFits'
    BY <1>4, <2>3, Elsewhere
  <2> QED
    BY <2>1, <2>2, <2>4 DEF IInv
<1>5. CASE Restart
  BY <1>5, RestartStep
<1>6. CASE UNCHANGED vars
  <2>1. UNCHANGED <<hub, server, req, task, restarts>>
    BY <1>6 DEF vars
  <2>2. TypeOK' /\ LoadFits' /\ ConfigIsRecent' /\ ServerFits'
    BY <2>1 DEF IInv, TypeOK, HubTypeOK, ServerTypeOK, LoadFits, ConfigIsRecent, InOrder,
                HasConfig, ServerFits, hub, server
  <2>3. edition' \in Editions /\ edition <= edition' /\ UNCHANGED cache
    BY <2>1, EditionsAssumption DEF hub, IInv, TypeOK, HubTypeOK, Editions
  <2>4. RequestFits' /\ WritesWaitForApproval' /\ TaskFits'
    BY <2>1, <2>3, Elsewhere
  <2> QED
    BY <2>2, <2>4 DEF IInv
<1> QED
  BY <1>1, <1>2, <1>3, <1>4, <1>5, <1>6 DEF Next, Surroundings

\* The inductive invariant holds in every reachable state.
THEOREM EngineInvariant == Spec => []IInv
<1>1. Init => IInv
  BY Initially
<1>2. IInv /\ [Next]_vars => IInv'
  BY Inductive
<1> QED
  BY <1>1, <1>2, PTL DEF Spec
-----------------------------------------------------------------------------
(* The properties.                                                         *)

\* Every variable keeps its type.
THEOREM EngineTypes == Spec => []TypeOK
<1>1. IInv => TypeOK
  BY DEF IInv
<1> QED
  BY <1>1, EngineInvariant, PTL

\* The parts of a copy are of the last refresh or later, and rules are never
\* older than the routes and tools that they guard.
THEOREM CopiesAreRecent == Spec => []ConfigIsRecent
<1>1. IInv => ConfigIsRecent
  BY DEF IInv
<1> QED
  BY <1>1, EngineInvariant, PTL

\* mcp_read_only_node calls no tool that all editions since the refresh withhold, nor,
\* on the defaults, one that they do not list.
THEOREM WithdrawnToolsRest == Spec => []WithdrawnToolIsNotCalled
<1>1. IInv => WithdrawnToolIsNotCalled
  <2> SUFFICES ASSUME IInv, req.pc \in {"call", "send"}
               PROVE  IF FromTables(cache)
                      THEN \E e \in refreshed .. edition : req.tool \in Tables[e].tools
                      ELSE req.tool \in FallbackTools
    BY DEF WithdrawnToolIsNotCalled
  <2>1. HasConfig /\ req.tool \in ToolsOf(cache)
    BY DEF IInv, RequestFits, Routed
  <2> QED
    BY <2>1, CopyFacts DEF ToolsOf
<1> QED
  BY <1>1, EngineInvariant, PTL

\* For each script that generate_action_script_node proposes there is an edition since
\* the last refresh, or the defaults, whose rules let it through, and so do the lists.
THEOREM ProposalsAreAllowed == Spec => []ProposalIsAllowed
<1>1. IInv => ProposalIsAllowed
  <2> SUFFICES ASSUME IInv, task.stage # "none", task.via = "generate"
               PROVE  IF task.source = "database"
                      THEN \E e \in task.since .. edition : LetThrough(Tables[e].rules)
                      ELSE LetThrough(FallbackRules)
    BY DEF ProposalIsAllowed
  <2>1. ASSUME NEW rules, EngineAllows(rules, task.script, task.windows)
        PROVE  LetThrough(rules)
    BY <2>1, NoScriptPasses DEF EngineAllows, EngineRulesBlock, LetThrough
  <2>2. CASE task.source = "database"
    BY <2>1, <2>2 DEF IInv, TaskFits, Vetting
  <2>3. CASE task.source # "database"
    BY <2>1, <2>3 DEF IInv, TaskFits
  <2> QED
    BY <2>2, <2>3
<1> QED
  BY <1>1, EngineInvariant, PTL

\* No script of an intent that writes runs without the user's approval.
THEOREM WritesAreApproved == Spec => []WritesWaitForApproval
<1>1. IInv => WritesWaitForApproval
  BY DEF IInv
<1> QED
  BY <1>1, EngineInvariant, PTL

\* Nothing on the static lists of the backend is started.
THEOREM HardBlocksHold == Spec => []HardBlockedIsNotStarted
<1>1. IInv => HardBlockedIsNotStarted
  BY DEF IInv, TaskFits, HardBlockedIsNotStarted
<1> QED
  BY <1>1, EngineInvariant, PTL

\* A rule that stands from the refresh to the backend's look is obeyed for the scripts
\* that the proposal node proposed under the tables.
THEOREM StandingRulesHold == Spec => []StandingRuleHolds
<1>1. IInv => StandingRuleHolds
  <2> SUFFICES ASSUME IInv, task.stage = "running", task.via = "generate",
                      task.source = "database",
                      NEW i \in DOMAIN Tables[task.looked].rules,
                      Standing(Tables[task.looked].rules[i], task.since, task.looked)
               PROVE  ~EngineRuleBlocks(Tables[task.looked].rules[i], task.script, task.windows)
    BY DEF StandingRuleHolds
  <2>1. PICK e \in Editions : Vetting(task, e)
    BY DEF IInv, TaskFits
  <2>2. e \in task.since .. task.looked
    BY <2>1, EditionsAssumption
    DEF IInv, TypeOK, TaskStates, TaskFits, Vetting, Editions
  <2>3. PICK j \in DOMAIN Tables[e].rules : Tables[e].rules[j] = Tables[task.looked].rules[i]
    BY <2>2 DEF Standing
  <2>4. CASE task.script = NoScript
    BY <2>4, NoScriptPasses
  <2>5. CASE ~EngineRulesBlock(Tables[e].rules, task.script, task.windows)
    BY <2>3, <2>5 DEF EngineRulesBlock
  <2> QED
    BY <2>1, <2>4, <2>5 DEF Vetting, EngineAllows
<1> QED
  BY <1>1, EngineInvariant, PTL

\* A read is answered by the tool, whatever becomes of the server.
THEOREM ToolsAnswer == Spec => []AnswerIsTheTools
<1>1. IInv => AnswerIsTheTools
  BY DEF IInv, RequestFits, AnswerIsTheTools
<1> QED
  BY <1>1, EngineInvariant, PTL

\* The engine has at most one server process.
THEOREM OneServer == Spec => []OneChild
<1>1. IInv => OneChild
  BY DEF IInv, ServerFits, OneChild
<1> QED
  BY <1>1, EngineInvariant, PTL

\* The five together, whatever edits, failed loads and failed looks there are: the tools
\* of mcp_read_only_node and the scripts of generate_action_script_node have a
\* permission no older than the last refresh; scripts of either node wait for the
\* approval of writes and pass the backend's lists; and those of the proposal node,
\* under the tables, pass the rules that stand.
THEOREM PolicyHolds == Spec => []PolicyIsKept
<1>1. /\ WithdrawnToolIsNotCalled /\ ProposalIsAllowed /\ WritesWaitForApproval
      /\ HardBlockedIsNotStarted /\ StandingRuleHolds
      => PolicyIsKept
  BY DEF PolicyIsKept
<1> QED
  BY <1>1, WithdrawnToolsRest, ProposalsAreAllowed, WritesAreApproved, HardBlocksHold,
     StandingRulesHold, PTL

\* The server is started once (ensure_local_mcp_server), and its loss is no answer
\* (call_tool).
THEOREM ServerIsHidden == Spec => []ToolServerIsHidden
<1>1. AnswerIsTheTools /\ OneChild => ToolServerIsHidden
  BY DEF ToolServerIsHidden
<1> QED
  BY <1>1, ToolsAnswer, OneServer, PTL
=============================================================================
