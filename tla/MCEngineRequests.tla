-------------------------- MODULE MCEngineRequests --------------------------
(* An instance of EngineRequests for TLC.                                  *)
EXTENDS EngineRequests

\* Three editions of the tables: as seeded; the site's own, with one tool withdrawn,
\* a kind of reads routed to the proposal of scripts and diagnostics to a node that is
\* no target, no rule of those seeded, and of its own rules one that does not compile
\* and one that the backend reads as another; and the latter with a blank pattern,
\* which the engine finds in every script and the backend in none.
Malformed == [Rule("regex", "x") EXCEPT !.compiles = FALSE]
UpperClass == [Rule("regex", "\\S") EXCEPT !.lowered = "\\s"]
Seeded == [routes |-> FallbackRoutes, tools |-> FallbackTools, rules |-> FallbackRules]
Site == [routes |-> << Route("NETWORK_READ", "generate", FALSE),
                       Route("DEVOPS_READ", "mcp_read_only", FALSE),
                       Route("SYSTEM_OPERATION", "final_synthesis", FALSE),
                       Route("APP_CONTROL", "generate", FALSE) >>,
         tools |-> FallbackTools \ {"devops_git_status"},
         rules |-> << Malformed, Rule("command_contains", "net user"), UpperClass >>]
BlankRule == [Site EXCEPT !.rules = << Rule("command_contains", Blank), UpperClass >>]
Tables3 == << Seeded, Site, BlankRule >>

Ask(intent, words, windows) == [intent |-> intent, words |-> words, windows |-> windows]
Requests1 ==
    { Ask("CHAT", {}, TRUE),
      Ask("NETWORK_READ", {"port"}, TRUE),
      Ask("DEVOPS_READ", {"git status", "path"}, FALSE),
      Ask("FILE_SYSTEM_READ", {"read file"}, FALSE),
      Ask("SYSTEM_OPERATION", {"diagnostic", "cpu"}, TRUE),
      Ask("APP_CONTROL", {"top"}, FALSE) }

Cmd(has) == LET all == has \cup {Blank} IN [has |-> all, args |-> all]
Commands1 == { Cmd({"c:\\windows", "\\S"}), Cmd({"/etc"}), Cmd({"net user", "mkfs"}),
               Cmd({"net user"}) }
=============================================================================
