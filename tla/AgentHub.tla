------------------------------ MODULE AgentHub ------------------------------
(***************************************************************************)
(* The configuration of the Agent Hub: tables that an administrator edits, *)
(* and the engine's copy of them.  The copy is loaded by the first request *)
(* that asks for it and kept (lru_cache) until a status request asks for a *)
(* refresh or the engine restarts.  A load reads the tables by one query   *)
(* each, and an edit may fall between two of them (READ COMMITTED); if the *)
(* load fails the defaults of the code are kept instead, just as long.     *)
(***************************************************************************)
EXTENDS CommandPolicy, FiniteSets

CONSTANTS
    MaxEdition,  \* bound on the edits of the tables
    Tables,      \* what they hold in each edition
    NoConfig

Editions == 1 .. MaxEdition

\* The queries of a load, in their order.
Parts == <<"routes", "tools", "rules", "prompts">>
PartNames == {"routes", "tools", "rules", "prompts"}

Intents == SafeIntents \cup {"SYSTEM_OPERATION", "APP_CONTROL", "UNKNOWN"}
Nodes == {"direct_chat", "mcp_read_only", "crewai", "generate"}
Route(intent, node, diagnostic) ==
    [intent |-> intent, node |-> node, diagnostic |-> diagnostic]

\* A route with diagnostic terms is for the commands that hold one of them.
Matches(route, intent, words) ==
    /\ route.intent = intent
    /\ route.diagnostic => "diagnostic" \in words

FallbackRoutes ==
    << Route("CHAT", "direct_chat", FALSE),
       Route("FILE_SYSTEM_READ", "mcp_read_only", FALSE),
       Route("DEVOPS_READ", "mcp_read_only", FALSE),
       Route("NETWORK_READ", "mcp_read_only", FALSE),
       Route("SYSTEM_OPERATION", "crewai", TRUE),
       Route("APP_CONTROL", "generate", FALSE),
       Route("UNKNOWN", "generate", FALSE) >>

\* The tools of the agent that reads: all that the planner can ask for.
FallbackTools ==
    {"devops_docker_ps", "devops_git_status", "devops_list_npm_scripts",
     "system_get_metrics_snapshot", "system_list_installed_apps",
     "system_list_processes", "system_get_top_memory_processes",
     "network_list_connections", "network_list_interfaces",
     "system_get_disk_partitions", "filesystem_list_directory",
     "filesystem_read_file", "filesystem_search", "filesystem_get_disk_usage",
     "system_get_platform_info"}

FallbackRules ==
    << Rule("command_contains", "mkfs"), Rule("path_prefix", "c:\\windows"),
       Rule("path_prefix", "/etc"), Approval("APP_CONTROL"),
       Approval("SYSTEM_OPERATION"), Approval("UNKNOWN") >>

ASSUME EditionsAssumption == MaxEdition \in Nat \ {0}
ASSUME TablesAssumption ==
    /\ DOMAIN Tables = Editions
    /\ \A e \in Editions :
         /\ {"routes", "tools", "rules"} \subseteq DOMAIN Tables[e]
         /\ Tables[e].tools \subseteq FallbackTools
ASSUME NoConfigAssumption == NoConfig \notin [source : {"fallback", "database"},
                                              at : [PartNames -> 0 .. MaxEdition]]

VARIABLES
    edition,    \* of the tables, in the database
    dbUp,       \* whether the database answers
    cache,      \* the engine's copy: the edition each part was read at
    loading,    \* the parts read by a load under way
    refreshed   \* history: the edition at the engine's last start or refresh

hub == <<edition, dbUp, cache, loading, refreshed>>

NotRead == [p \in PartNames |-> 0]
Configs == [source : {"fallback", "database"}, at : [PartNames -> 0 .. MaxEdition]]
Fallback == [source |-> "fallback", at |-> NotRead]
Loaded(at) == [source |-> "database", at |-> at]

HubTypeOK ==
    /\ edition \in Editions
    /\ dbUp \in BOOLEAN
    /\ cache \in Configs \cup {NoConfig}
    /\ loading \in [open : BOOLEAN, read : 0 .. 4, at : [PartNames -> 0 .. MaxEdition]]
    /\ refreshed \in Editions

NoLoad == [open |-> FALSE, read |-> 0, at |-> NotRead]

HubInit ==
    /\ edition = 1
    /\ dbUp \in BOOLEAN
    /\ cache = NoConfig
    /\ loading = NoLoad
    /\ refreshed = 1
-----------------------------------------------------------------------------
\* What a configuration says.
FromTables(config) == config.source = "database"
RoutesOf(config) ==
    IF FromTables(config) THEN Tables[config.at["routes"]].routes ELSE FallbackRoutes
ToolsOf(config) ==
    IF FromTables(config) THEN Tables[config.at["tools"]].tools ELSE FallbackTools
RulesOf(config) ==
    IF FromTables(config) THEN Tables[config.at["rules"]].rules ELSE FallbackRules

\* select_route: the first route by priority that matches, if there is one.
Selected(config, intent, words) ==
    LET routes == RoutesOf(config)
    IN  {routes[i].node : i \in {j \in DOMAIN routes :
            /\ Matches(routes[j], intent, words)
            /\ \A k \in 1 .. j - 1 : ~Matches(routes[k], intent, words)}}
-----------------------------------------------------------------------------
\* Mutant of BeginLoad: without a database there is no configuration.
BeginLoadFromTables ==
    /\ cache = NoConfig
    /\ ~loading.open
    /\ dbUp
    /\ loading' = [NoLoad EXCEPT !.open = TRUE]
    /\ UNCHANGED <<edition, dbUp, cache, refreshed>>

\* get_agent_hub_config finds no copy and connects to the database.
BeginLoad ==
    /\ cache = NoConfig
    /\ ~loading.open
    /\ IF dbUp
       THEN loading' = [NoLoad EXCEPT !.open = TRUE] /\ UNCHANGED cache
       ELSE cache' = Fallback /\ UNCHANGED loading
    /\ UNCHANGED <<edition, dbUp, refreshed>>

\* A part that the next query reads, with the edition it finds.
Reading(at, part) == [at EXCEPT ![part] = edition]

Query ==
    /\ loading.open
    /\ loading.read < 4
    /\ IF dbUp
       THEN /\ loading' = [loading EXCEPT !.read = @ + 1,
                              !.at = Reading(@, Parts[loading.read + 1])]
            /\ UNCHANGED cache
       ELSE cache' = Fallback /\ loading' = NoLoad
    /\ UNCHANGED <<edition, dbUp, refreshed>>

\* Without a route the tables do not count, whatever else they hold.
EndLoad ==
    /\ loading.open
    /\ loading.read = 4
    /\ cache' = IF Tables[loading.at["routes"]].routes = <<>> THEN Fallback
                ELSE Loaded(loading.at)
    /\ loading' = NoLoad
    /\ UNCHANGED <<edition, dbUp, refreshed>>

Load == BeginLoad \/ Query \/ EndLoad

\* Mutant of ClearCache: the reload is answered from the copy.
ReloadFromCopy ==
    /\ refreshed' = edition
    /\ UNCHANGED <<edition, dbUp, cache, loading>>

\* reload_agent_hub_config, up to the load that follows.
ClearCache ==
    /\ cache' = NoConfig
    /\ refreshed' = edition
    /\ UNCHANGED <<edition, dbUp, loading>>

\* A process that starts has neither a copy nor a load.
HubRestart ==
    /\ cache' = NoConfig
    /\ loading' = NoLoad
    /\ refreshed' = edition
    /\ UNCHANGED <<edition, dbUp>>

\* An administrator's transaction.
Edit ==
    /\ dbUp
    /\ edition < MaxEdition
    /\ edition' = edition + 1
    /\ UNCHANGED <<dbUp, cache, loading, refreshed>>

DatabaseFails ==
    /\ dbUp
    /\ dbUp' = FALSE
    /\ UNCHANGED <<edition, cache, loading, refreshed>>

DatabaseReturns ==
    /\ ~dbUp
    /\ dbUp' = TRUE
    /\ UNCHANGED <<edition, cache, loading, refreshed>>
=============================================================================
