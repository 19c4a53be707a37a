---------------------------- MODULE Orchestrator ----------------------------
(***************************************************************************)
(* The LangGraph orchestrator of the AI engine, for one conversation       *)
(* (thread_id).  A request of the backend (/analyze) is one invocation of  *)
(* the graph: it plans a message of the user as a queue of steps, or takes *)
(* up the queue of an earlier message, and works on one step after the     *)
(* other until it proposes a script that the user has to approve, or the   *)
(* queue is empty.  The engine serves one request at a time (analyze is a  *)
(* coroutine that never awaits), and each node's update of the state is    *)
(* checkpointed, so an exception in a node loses this node's update only.  *)
(*                                                                         *)
(* What the language model, the tools and the scripts return, and how the  *)
(* Agent Hub routes a step, is chosen freely.                              *)
(***************************************************************************)
EXTENDS Naturals, Sequences, FiniteSets

CONSTANTS
    MAX_SELF_HEAL_RETRIES,     \* of orchestrator.py
    MAX_SAFE_COMMAND_RETRIES,  \* of worker.py
    MaxPlan,                   \* bound on the steps of a message
    MaxSteps,                  \* bound on the steps of a conversation
    MaxFaults                  \* bound on exceptions and restarts

ASSUME RetriesAssumption ==
    MAX_SELF_HEAL_RETRIES \in Nat /\ MAX_SAFE_COMMAND_RETRIES \in Nat
ASSUME BoundAssumption == MaxPlan \in Nat \ {0} /\ MaxSteps \in Nat /\ MaxFaults \in Nat

Steps == 1 .. MaxSteps
NoStep == 0   \* an empty user_input
NONE == 0     \* no script

\* Kinds of messages: a resumption keyword, the terminal's report of a failed
\* script, anything else.
Messages == {"continue", "repair", "command"}

\* current_intent, up to what the routes and the approvals tell apart.
SafeIntents == {"CHAT", "READ"}
Intents == SafeIntents \cup {"SYSTEM_OPERATION", "ACTION"}

WorkerNodes == {"direct_chat", "mcp_read_only", "crewai", "generate"}

VARIABLES
    node,      \* the node to run next; "idle" between invocations
    message,   \* the message of the invocation
    queue,     \* task_queue
    step,      \* user_input, once a step was popped
    intent,    \* current_intent
    script,    \* script: the step it was made for
    retry,     \* retry_count
    errors,    \* whether errors is not empty
    answer,    \* the steps that explanation has the outcome of
    planned,   \* history: steps planned so far in the conversation
    tries,     \* history: how often scripts of a step were run by the engine
    surfaced,  \* history: steps reported as "Failed (After Retries)"
    faults     \* faults so far

thread == <<queue, step, intent, script, retry, errors, answer>>
history == <<planned, tries, surfaced>>
vars == <<node, message, thread, history, faults>>

\* The state of the thread is well formed.
TypeOK ==
    /\ node \in WorkerNodes \cup {"idle", "decompose", "pop", "intent", "execute",
                                  "synthesis", "end"}
    /\ message \in Messages
    /\ queue \in Seq(Steps)
    /\ step \in Steps \cup {NoStep}
    /\ intent \in Intents
    /\ script \in Steps \cup {NONE}
    /\ retry \in 0 .. MAX_SAFE_COMMAND_RETRIES
    /\ errors \in BOOLEAN
    /\ answer \subseteq Steps
    /\ planned \in 0 .. MaxSteps
    /\ tries \in [Steps -> Nat]
    /\ surfaced \subseteq Steps
    /\ faults \in 0 .. MaxFaults

Init ==
    /\ node = "idle"
    /\ message = "command"
    /\ queue = <<>>
    /\ step = NoStep
    /\ intent = "ACTION"
    /\ script = NONE
    /\ retry = 0
    /\ errors = FALSE
    /\ answer = {}
    /\ planned = 0
    /\ tries = [s \in Steps |-> 0]
    /\ surfaced = {}
    /\ faults = 0

\* requires_approval: a rule of the Agent Hub may ask for the approval of any
\* intent, and all but the safe ones need it.
RequiresApproval(i) == IF i \in SafeIntents THEN BOOLEAN ELSE {TRUE}
-----------------------------------------------------------------------------
\* A repair is planned as one step.
PlanLimit(m) == IF m = "repair" THEN 1 ELSE MaxPlan

\* analyze builds the initial state, which the checkpointed queue is kept from.
Analyze(m) ==
    /\ node = "idle"
    /\ \/ m = "continue" /\ queue # <<>>
       \/ planned + PlanLimit(m) <= MaxSteps
    /\ node' = "decompose"
    /\ message' = m
    /\ step' = NoStep
    /\ script' = NONE
    /\ retry' = 0
    /\ errors' = FALSE
    /\ answer' = {}
    /\ UNCHANGED <<queue, intent, planned, tries, surfaced, faults>>

\* The steps a message is planned as, numbered on through the conversation.
Plan(length) == [i \in 1 .. length |-> planned + i]

Decompose ==
    /\ node = "decompose"
    /\ IF message = "continue" /\ queue # <<>>
       THEN UNCHANGED <<queue, planned>>
       ELSE \E length \in 1 .. PlanLimit(message) :
              /\ queue' = Plan(length)
              /\ planned' = planned + length
    /\ node' = "pop"
    /\ UNCHANGED <<message, step, intent, script, retry, errors, answer,
                   tries, surfaced, faults>>

\* Mutant of Pop: the step is not taken off the queue.
PopKeeping ==
    /\ node = "pop"
    /\ IF queue = <<>>
       THEN step' = NoStep /\ node' = "synthesis"
       ELSE step' = Head(queue) /\ node' = "intent"
    /\ UNCHANGED <<message, queue, intent, script, retry, errors, answer,
                   planned, tries, surfaced, faults>>

\* pop_next_task_node, and route_after_pop.
Pop ==
    /\ node = "pop"
    /\ IF queue = <<>>
       THEN step' = NoStep /\ node' = "synthesis" /\ UNCHANGED queue
       ELSE step' = Head(queue) /\ node' = "intent" /\ queue' = Tail(queue)
    /\ UNCHANGED <<message, intent, script, retry, errors, answer,
                   planned, tries, surfaced, faults>>

\* detect_intent_node, and route_after_intent: a route of the Agent Hub may send
\* any intent to any worker.
DetectIntent ==
    /\ node = "intent"
    /\ intent' \in Intents
    /\ node' \in WorkerNodes
    /\ UNCHANGED <<message, queue, step, script, retry, errors, answer, history, faults>>

DirectChat ==
    /\ node = "direct_chat"
    /\ answer' = {step}
    /\ script' = NONE
    /\ node' = "pop"
    /\ UNCHANGED <<message, queue, step, intent, retry, errors, history, faults>>

\* A tool was called, or none fits or none is allowed.
McpReadOnly ==
    /\ node = "mcp_read_only"
    /\ \/ errors' \in BOOLEAN /\ retry' = 0
       \/ UNCHANGED <<errors, retry>>
    /\ answer' = answer \cup {step}
    /\ script' = NONE
    /\ node' = "pop"
    /\ UNCHANGED <<message, queue, step, intent, history, faults>>

\* Mutant of RouteAfterScript: no script needs an approval.
RouteAfterScriptUnapproved(s) == node' = IF s = NONE THEN "pop" ELSE "execute"

\* route_after_script_generation.
RouteAfterScript(s) ==
    IF s = NONE
    THEN node' = "pop"
    ELSE \E approval \in RequiresApproval(intent) :
           node' = IF approval THEN "end" ELSE "execute"

\* run_crewai_diagnostics_node.
CrewAi ==
    /\ node = "crewai"
    /\ answer' = {step}
    /\ script' \in {step, NONE}
    /\ RouteAfterScript(script')
    /\ UNCHANGED <<message, queue, step, intent, retry, errors, history, faults>>

\* generate_action_script_node: a script that passes the guardian, a script that
\* it blocks (the explanation starts over), no script, or no model (it starts over).
Generate ==
    /\ node = "generate"
    /\ \/ script' = step /\ answer' = answer \cup {step}
       \/ script' = NONE /\ answer' \in {{step}, answer \cup {step}}
    /\ RouteAfterScript(script')
    /\ UNCHANGED <<message, queue, step, intent, retry, errors, history, faults>>

\* execute_safe_action_node runs the script, and it succeeds.
ExecuteSucceeds ==
    /\ node = "execute"
    /\ tries' = [tries EXCEPT ![step] = @ + 1]
    /\ answer' = answer \cup {step}
    /\ script' = NONE
    /\ errors' = FALSE /\ retry' = 0
    /\ node' = "pop"
    /\ UNCHANGED <<message, queue, step, intent, planned, surfaced, faults>>

\* Mutant of ExecuteFails: a retry is not counted.
ExecuteFailsUncounted ==
    /\ node = "execute"
    /\ retry < MAX_SAFE_COMMAND_RETRIES
    /\ tries' = [tries EXCEPT ![step] = @ + 1]
    /\ script' = NONE
    /\ errors' = TRUE
    /\ node' = "generate"
    /\ UNCHANGED <<message, queue, step, intent, retry, answer, planned, surfaced, faults>>

\* It fails and is retried, as route_after_safe_execution decides.
ExecuteFails ==
    /\ node = "execute"
    /\ retry < MAX_SAFE_COMMAND_RETRIES
    /\ tries' = [tries EXCEPT ![step] = @ + 1]
    /\ script' = NONE
    /\ errors' = TRUE /\ retry' = retry + 1
    /\ node' = IF retry' <= MAX_SELF_HEAL_RETRIES THEN "generate" ELSE "pop"
    /\ UNCHANGED <<message, queue, step, intent, answer, planned, surfaced, faults>>

\* Mutant of ExecuteGivesUp: the script that failed stays in the state.
ExecuteGivesUpKeepingScript ==
    /\ node = "execute"
    /\ retry = MAX_SAFE_COMMAND_RETRIES
    /\ tries' = [tries EXCEPT ![step] = @ + 1]
    /\ answer' = answer \cup {step}
    /\ surfaced' = surfaced \cup {step}
    /\ errors' = FALSE /\ retry' = 0
    /\ node' = "pop"
    /\ UNCHANGED <<message, queue, step, intent, script, planned, faults>>

\* It fails, and "Failed (After Retries)" is surfaced.
ExecuteGivesUp ==
    /\ node = "execute"
    /\ retry = MAX_SAFE_COMMAND_RETRIES
    /\ tries' = [tries EXCEPT ![step] = @ + 1]
    /\ answer' = answer \cup {step}
    /\ surfaced' = surfaced \cup {step}
    /\ script' = NONE
    /\ errors' = FALSE /\ retry' = 0
    /\ node' = "pop"
    /\ UNCHANGED <<message, queue, step, intent, planned, faults>>

\* final_synthesis_node keeps the explanation, or adds to it.
Synthesis ==
    /\ node = "synthesis"
    /\ node' = "end"
    /\ UNCHANGED <<message, thread, history, faults>>

\* analyze answers with script, active_step and pending_count.
Respond ==
    /\ node = "end"
    /\ node' = "idle"
    /\ UNCHANGED <<message, thread, history, faults>>

\* One of the bounded number of faults of a behaviour happens.
Fault == faults < MaxFaults /\ faults' = faults + 1

\* An exception in a node, or a limit of LangGraph, ends the invocation; analyze
\* answers with status "error" and no script.
Exception ==
    /\ node \notin {"idle", "end"}
    /\ Fault
    /\ node' = "idle"
    /\ tries' \in IF node = "execute" THEN {tries, [tries EXCEPT ![step] = @ + 1]}
                                     ELSE {tries}
    /\ UNCHANGED <<message, thread, planned, surfaced>>

\* The engine is restarted.  The checkpoint is in PostgreSQL, or in memory, the
\* fallback, and then the queue is forgotten.
Restart ==
    /\ Fault
    /\ node' = "idle"
    /\ queue' \in {queue, <<>>}
    /\ UNCHANGED <<message, step, intent, script, retry, errors, answer, history>>

Run ==
    \/ Decompose \/ Pop \/ DetectIntent
    \/ DirectChat \/ McpReadOnly \/ CrewAi \/ Generate
    \/ ExecuteSucceeds \/ ExecuteFails \/ ExecuteGivesUp
    \/ Synthesis \/ Respond

Next == (\E m \in Messages : Analyze(m)) \/ Run \/ Exception \/ Restart

Spec == Init /\ [][Next]_vars

\* The graph runs on by itself once it was invoked.
FairSpec == Spec /\ WF_vars(Run)
-----------------------------------------------------------------------------
(***************************************************************************)
(* Properties                                                              *)
(***************************************************************************)

\* The queue is what is left of the newest plan, behind the step in work: over
\* all invocations, and whatever is routed where, a step is worked on once and
\* in the order it was planned in, and pending_count counts the steps to come.
QueueIsRest ==
    LET popped == planned - Len(queue)
    IN  queue # <<>> => /\ \A i \in 1 .. Len(queue) : queue[i] = popped + i
                        /\ step # NoStep => step = popped

\* A proposal that goes to the user is the script of active_step, and is
\* explained; an invocation that stops at a step stops with its proposal.  No
\* script of an earlier step or one that was run already is left over from the
\* nodes that passed the state on.
ProposalIsCurrent ==
    node = "end" => script = step /\ (step # NoStep => step \in answer)

\* The engine runs a script only for an intent that is safe by its kind, on every
\* path to the executor, and it is the script of the step in work.
OnlySafeRun == node = "execute" => intent \in SafeIntents /\ script = step

\* Self-healing is bounded: no step's scripts are run more often than the first
\* time and the retries, across the two limits of worker and route.
BoundedTries == \A s \in Steps : tries[s] <= MAX_SAFE_COMMAND_RETRIES + 1

\* An invocation ends: the cycles of the graph (pop, and generate/execute) use up
\* the queue and the retries.
InvocationEnds == node # "idle" ~> node = "idle"

\* orchestrator.py:122, "Retry safe autonomous reads a few times before surfacing
\* the error": a step reported as failed after retries was tried more than once.
RetriedBeforeSurfaced == \A s \in surfaced : tries[s] > 1

=============================================================================
