---------------------------- MODULE CommandPolicy ----------------------------
(***************************************************************************)
(* What the engine (AgentRiskRule, SecurityGuardian) and the backend       *)
(* (AgentHubService, ScriptPolicyValidator) say of a script.  Both apply   *)
(* the risk rules of the Agent Hub and then lists of their own, and they   *)
(* differ in how they read both.                                           *)
(*                                                                         *)
(* A script is the set of fragments its text holds ("has", in lower case)  *)
(* and those that begin it or follow a space ("args"); a pattern is one of *)
(* these fragments.  Every text holds, and begins with, the empty one.     *)
(***************************************************************************)
EXTENDS Naturals, Sequences

NoScript == [has |-> {}, args |-> {}]

\* The static lists of both programs, a representative of each kind.
Blacklisted == {"mkfs"}
UnixRedZones == {"/etc"}
WindowsRedZones == {"c:\\windows"}

\* The engine's list of Windows zones holds r"c:\\windows": raw strings with two
\* backslashes, a text that no ordinary path holds.
EngineWindowsRedZones == {"c:\\\\windows"}

\* A risk rule as the tables hold it.  Of a regular expression it is known
\* whether it compiles, and what it asks for once its pattern is in lower case:
\* "\S" becomes "\s".
RuleTypes == {"command_contains", "path_prefix", "regex", "intent_key"}
Rule(type, pattern) ==
    [type |-> type, effect |-> "block", pattern |-> pattern, lowered |-> pattern,
     compiles |-> TRUE]
Approval(intent) ==
    [Rule("intent_key", intent) EXCEPT !.effect = "require_approval"]

HasAsPath(cmd, pattern, windows) ==
    IF windows THEN pattern \in cmd.has ELSE pattern \in cmd.args

\* AgentRiskRule.blocks_command: a pattern that does not compile blocks nothing.
EngineRuleBlocks(rule, cmd, windows) ==
    /\ rule.effect = "block"
    /\ \/ rule.type = "command_contains" /\ rule.pattern \in cmd.has
       \/ rule.type = "path_prefix" /\ HasAsPath(cmd, rule.pattern, windows)
       \/ rule.type = "regex" /\ rule.compiles /\ rule.pattern \in cmd.has

EngineRulesBlock(rules, cmd, windows) ==
    \E i \in DOMAIN rules : EngineRuleBlocks(rules[i], cmd, windows)

\* The pattern of a rule that is blank.
Blank == ""

\* RiskRuleRow.blocks, to which a blank pattern is no rule; the query asked for the
\* rules whose effect is "block".
BackendRuleBlocks(rule, cmd, windows) ==
    /\ rule.effect = "block" /\ rule.pattern # Blank
    /\ \/ rule.type = "command_contains" /\ rule.pattern \in cmd.has
       \/ rule.type = "path_prefix" /\ HasAsPath(cmd, rule.pattern, windows)
       \/ rule.type = "regex" /\ rule.compiles /\ rule.lowered \in cmd.has

\* Matching throws at a pattern that does not compile.
Throws(rule) == rule.effect = "block" /\ rule.type = "regex" /\ ~rule.compiles

\* findCommandBlockReason: the first rule by priority that blocks.  Whatever is
\* thrown on the way, by the database or by a pattern, is taken for "no rule".
BackendRulesBlock(rules, cmd, windows, dbUp) ==
    /\ dbUp
    /\ \E i \in DOMAIN rules :
         /\ BackendRuleBlocks(rules[i], cmd, windows)
         /\ \A j \in 1 .. i - 1 : ~Throws(rules[j])

\* SecurityGuardian.validate_command, the hard blocks after the rules.
EngineHardBlocks(cmd, windows) ==
    \/ Blacklisted \cap cmd.has # {}
    \/ windows /\ EngineWindowsRedZones \cap cmd.has # {}
    \/ ~windows /\ UnixRedZones \cap cmd.args # {}

\* Mutant of EngineAllows: the guardian has its own lists only.
EngineAllowsByLists(rules, cmd, windows) ==
    cmd = NoScript \/ ~EngineHardBlocks(cmd, windows)

EngineAllows(rules, cmd, windows) ==
    \/ cmd = NoScript
    \/ /\ ~EngineRulesBlock(rules, cmd, windows)
       /\ ~EngineHardBlocks(cmd, windows)

\* ScriptPolicyValidator.validate.
BackendHardBlocks(cmd, windows) ==
    \/ Blacklisted \cap cmd.has # {}
    \/ windows /\ WindowsRedZones \cap cmd.has # {}
    \/ ~windows /\ UnixRedZones \cap cmd.args # {}

BackendAllows(rules, cmd, windows, dbUp) ==
    \/ cmd = NoScript
    \/ /\ ~BackendRulesBlock(rules, cmd, windows, dbUp)
       /\ ~BackendHardBlocks(cmd, windows)

\* SecurityGuardian.requires_approval: a rule can ask for the approval of more
\* intents, and of no fewer than all but the safe ones.
SafeIntents == {"FILE_SYSTEM_READ", "DEVOPS_READ", "NETWORK_READ", "CHAT"}

RequiresApproval(rules, intent) ==
    \/ \E i \in DOMAIN rules :
         /\ rules[i].type = "intent_key" /\ rules[i].effect = "require_approval"
         /\ rules[i].pattern = intent
    \/ intent \notin SafeIntents
=============================================================================
