------------------------------ MODULE McpTools ------------------------------
(***************************************************************************)
(* The read-only tools of the engine: the planner that picks one for a     *)
(* command, the local server that offers them on a port (a child process   *)
(* the engine starts when it finds the port closed), and the client that   *)
(* calls the server and, whatever goes wrong there, the same code in its   *)
(* own process.  A command is the set of the planner's terms it holds.     *)
(***************************************************************************)
EXTENDS Naturals, Sequences

CONSTANTS
    SdkInstalled,  \* whether the MCP SDK is installed
    MaxServerFaults  \* bound on the deaths of a server process

ASSUME ServerAssumption == SdkInstalled \in BOOLEAN /\ MaxServerFaults \in Nat

ReadCompatibleIntents ==
    {"FILE_SYSTEM_READ", "DEVOPS_READ", "NETWORK_READ", "SYSTEM_OPERATION"}
ReadOnlyIntents == ReadCompatibleIntents \ {"SYSTEM_OPERATION"}

NoTool == "none"

\* The tests of the planner in their order: a command passes one if it holds all
\* of "all" and some of "any".
Test(all, any, tool) == [all |-> all, any |-> any, tool |-> tool]
PlanTests ==
    << Test({}, {"git status"}, "devops_git_status"),
       Test({}, {"docker ps"}, "devops_docker_ps"),
       Test({}, {"npm scripts"}, "devops_list_npm_scripts"),
       Test({}, {"installed app"}, "system_list_installed_apps"),
       Test({}, {"search for"}, "filesystem_search"),
       Test({}, {"read file", ".txt"}, "filesystem_read_file"),
       Test({}, {"disk usage", "how big"}, "filesystem_get_disk_usage"),
       Test({}, {"list files"}, "filesystem_list_directory"),
       Test({}, {"network interface"}, "network_list_interfaces"),
       Test({}, {"network", "port"}, "network_list_connections"),
       Test({}, {"drives"}, "system_get_disk_partitions"),
       Test({"top"}, {"memory", "process", "processes"}, "system_get_top_memory_processes"),
       Test({}, {"processes", "tasks"}, "system_list_processes"),
       Test({}, {"cpu", "memory", "disk", "load"}, "system_get_metrics_snapshot"),
       Test({}, {"platform", "os"}, "system_get_platform_info") >>

Passes(test, words) == test.all \subseteq words /\ test.any \cap words # {}

\* plan_mcp_read_tool: the tool of the first test passed, but no file is read
\* without a path in the command, and no later test is tried then.
PlanTool(intent, words) ==
    LET passed == {i \in DOMAIN PlanTests : Passes(PlanTests[i], words)}
        first == CHOOSE i \in passed : \A j \in passed : i <= j
        tool == PlanTests[first].tool
    IN  IF \/ intent \notin ReadCompatibleIntents
           \/ passed = {}
           \/ tool = "filesystem_read_file" /\ "path" \notin words
        THEN NoTool ELSE tool

\* is_mcp_read_only_supported
ReadSupported(intent, words) ==
    \/ intent \in ReadOnlyIntents
    \/ /\ intent = "SYSTEM_OPERATION"
       /\ "diagnostic" \notin words
       /\ PlanTool(intent, words) # NoTool

-----------------------------------------------------------------------------
VARIABLES
    child,    \* _mcp_process: the server process this engine started last
    alive,    \* how many processes it started are alive
    other,    \* another holder of the port: left by an earlier engine, or foreign
    faults    \* server processes that died

server == <<child, alive, other, faults>>

ServerTypeOK ==
    /\ child \in {"none", "starting", "listening"}
    /\ alive \in Nat
    /\ other \in BOOLEAN
    /\ faults \in 0 .. MaxServerFaults

ServerInit == child = "none" /\ alive = 0 /\ other \in BOOLEAN /\ faults = 0

PortOpen == other \/ child = "listening"

\* Mutant of EnsureServer: a child that does not listen yet is not noticed.
EnsureServerByPort ==
    IF PortOpen \/ ~SdkInstalled
    THEN UNCHANGED server
    ELSE /\ child' = "starting"
         /\ alive' = alive + 1
         /\ UNCHANGED <<other, faults>>

\* ensure_local_mcp_server, up to its wait for the port.  The client ignores
\* whether the wait ended well.
EnsureServer ==
    IF PortOpen \/ ~SdkInstalled \/ child # "none"
    THEN UNCHANGED server
    ELSE /\ child' = "starting"
         /\ alive' = alive + 1
         /\ UNCHANGED <<other, faults>>

\* A child that starts binds the port, or finds it taken and ends.
ChildBinds ==
    /\ child = "starting"
    /\ child' = IF other THEN "none" ELSE "listening"
    /\ alive' = IF other THEN alive - 1 ELSE alive
    /\ UNCHANGED <<other, faults>>

ChildDies ==
    /\ child # "none"
    /\ faults < MaxServerFaults
    /\ child' = "none"
    /\ alive' = alive - 1
    /\ faults' = faults + 1
    /\ UNCHANGED other

OtherDies ==
    /\ other
    /\ faults < MaxServerFaults
    /\ other' = FALSE
    /\ faults' = faults + 1
    /\ UNCHANGED <<child, alive>>

\* The engine's processes outlive it and are no longer its own: one that listens
\* keeps the port, one that starts may get it (or die, a fault of its own).
ServerRestart ==
    /\ child' = "none"
    /\ alive' = 0
    /\ \/ other' = PortOpen
       \/ other' = TRUE /\ child = "starting"
    /\ UNCHANGED faults

\* What the transport makes of a call: nothing but an exception if the port is
\* closed; otherwise the tool's result, an exception (a timeout, a server that
\* speaks something else), or an older server's word that it has no such tool.
TransportOutcomes(own) ==
    {"exception"} \cup (IF PortOpen /\ SdkInstalled THEN {own, "unknown tool"} ELSE {})

\* call_tool: after an exception, and when the server does not know a tool of the
\* registry, the tool is run in process.
CallResult(outcome, own) ==
    IF outcome \in {"exception", "unknown tool"} THEN own ELSE outcome
=============================================================================
