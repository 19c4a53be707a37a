------------------------ MODULE OrchestratorProofs -------------------------
(***************************************************************************)
(* Theorems about Orchestrator, for all retry limits and bounds.           *)
(*                                                                         *)
(* The inductive invariant says what each node may rely on when it is run: *)
(* how the queue and the step in work lie in the plan, whose script the    *)
(* state holds, and how many retries the step in work can have used.       *)
(***************************************************************************)
EXTENDS Orchestrator, Integers, TLAPS

\* The nodes that work on a step.
StepNodes == WorkerNodes \cup {"intent", "execute"}

\* The number of steps planned that are no longer in the queue.
Popped == planned - Len(queue)

\* The queue is the end of the plan, the step in work just before it, and there
\* is room for the plan that decompose may make.
QueueShape ==
    /\ Len(queue) <= planned
    /\ \A i \in 1 .. Len(queue) : queue[i] = Popped + i
    /\ step <= Popped
    /\ (queue # <<>> /\ step # NoStep) => step = Popped
    /\ node \in StepNodes => step # NoStep
    /\ node \in {"decompose", "synthesis"} => step = NoStep
    /\ node = "decompose" => \/ message = "continue" /\ queue # <<>>
                             \/ planned + PlanLimit(message) <= MaxSteps

\* Only the executor and the user are handed a script, that of the step in work.
ScriptShape ==
    /\ node \notin {"execute", "end", "idle"} => script = NONE
    /\ node = "execute" => intent \in SafeIntents /\ script = step /\ step \in answer
    /\ ProposalIsCurrent

\* A step has used no more retries than are counted, and none before its first
\* script.
TriesShape ==
    /\ \A s \in Steps : s > Popped => tries[s] = 0
    /\ node \in StepNodes \ {"generate", "execute"} => tries[step] = 0
    /\ node \in {"generate", "execute"} => tries[step] <= retry
    /\ BoundedTries

Inv == TypeOK /\ QueueShape /\ ScriptShape /\ TriesShape
-----------------------------------------------------------------------------
\* What is popped is the step planned next, and the rest is as the queue was.
LEMMA PoppedStep ==
    ASSUME TypeOK, QueueShape, queue # <<>>
    PROVE  /\ Len(queue) \in Nat \ {0}
           /\ Head(queue) = Popped + 1
           /\ Head(queue) \in Steps
           /\ Tail(queue) \in Seq(Steps)
           /\ Len(Tail(queue)) = Len(queue) - 1
           /\ \A i \in 1 .. Len(Tail(queue)) : Tail(queue)[i] = queue[i + 1]
<1>1. queue \in Seq(Steps)
  BY DEF TypeOK
<1>2. Head(queue) = queue[1] /\ Len(queue) \in Nat \ {0}
  BY <1>1
<1>. QED  BY <1>1, <1>2 DEF QueueShape

\* A plan that there is room for is a queue of steps.
LEMMA PlannedSteps ==
    ASSUME planned \in Nat, NEW length \in Nat, planned + length <= MaxSteps
    PROVE  /\ Plan(length) \in Seq(Steps)
           /\ Len(Plan(length)) = length
           /\ \A i \in 1 .. length : Plan(length)[i] = planned + i
<1>1. \A i \in 1 .. length : planned + i \in Steps
  BY BoundAssumption DEF Steps
<1>2. Plan(length) \in [1 .. length -> Steps]
  BY <1>1 DEF Plan
<1>. QED  BY <1>2 DEF Plan

\* The invariant holds of a conversation that has not begun.
LEMMA InvInit == Init => Inv
<1>. SUFFICES ASSUME Init PROVE Inv
  OBVIOUS
<1>1. TypeOK
  <2>1. queue \in Seq(Steps) /\ tries \in [Steps -> Nat]
    BY DEF Init
  <2>2. planned \in 0 .. MaxSteps /\ faults \in 0 .. MaxFaults
        /\ retry \in 0 .. MAX_SAFE_COMMAND_RETRIES
    BY RetriesAssumption, BoundAssumption DEF Init
  <2>. QED  BY <2>1, <2>2 DEF Init, TypeOK, Messages, Intents
<1>2. QueueShape /\ ScriptShape
  BY DEF Init, QueueShape, ScriptShape, Popped, StepNodes, WorkerNodes,
         ProposalIsCurrent, NoStep
<1>3. TriesShape
  BY RetriesAssumption
  DEF Init, TriesShape, StepNodes, WorkerNodes, BoundedTries
<1>. QED  BY <1>1, <1>2, <1>3 DEF Inv

\* analyze keeps the invariant: nothing but the queue is kept from the last
\* invocation.
LEMMA AnalyzeInv ==
    ASSUME Inv, NEW m \in Messages, Analyze(m)
    PROVE  Inv'
<1>. USE DEF Inv, Analyze
<1>1. TypeOK'
  <2>1. /\ queue' \in Seq(Steps) /\ tries' \in [Steps -> Nat]
        /\ retry' \in 0 .. MAX_SAFE_COMMAND_RETRIES
    BY RetriesAssumption DEF TypeOK
  <2>. QED  BY <2>1 DEF TypeOK
<1>2. QueueShape'
  BY BoundAssumption
  DEF TypeOK, QueueShape, Popped, PlanLimit, StepNodes, WorkerNodes, NoStep
<1>3. ScriptShape'
  BY DEF ScriptShape, ProposalIsCurrent
<1>4. TriesShape'
  BY DEF TriesShape, Popped, BoundedTries, StepNodes, WorkerNodes
<1>. QED  BY <1>1, <1>2, <1>3, <1>4

\* decompose_query_node keeps the invariant: a plan is made only where there
\* is room for it.
LEMMA DecomposeInv ==
    ASSUME Inv, Decompose
    PROVE  Inv'
<1>. USE DEF Inv, Decompose
<1>1. step = NoStep /\ script = NONE
  BY DEF QueueShape, ScriptShape
<1>2. CASE message = "continue" /\ queue # <<>>
  <2>1. TypeOK'
    BY <1>2 DEF TypeOK
  <2>2. QueueShape' /\ ScriptShape'
    BY <1>1, <1>2
    DEF QueueShape, ScriptShape, ProposalIsCurrent, Popped, StepNodes, WorkerNodes
  <2>3. TriesShape'
    BY <1>2 DEF TriesShape, Popped, BoundedTries, StepNodes, WorkerNodes
  <2>. QED  BY <2>1, <2>2, <2>3
<1>3. CASE ~(message = "continue" /\ queue # <<>>)
  <2>1. PICK length \in 1 .. PlanLimit(message) :
          queue' = Plan(length) /\ planned' = planned + length
    BY <1>3
  <2>2. planned \in Nat /\ length \in Nat /\ planned + length <= MaxSteps
    BY <1>3, BoundAssumption DEF TypeOK, QueueShape, PlanLimit
  <2>3. /\ queue' \in Seq(Steps) /\ Len(queue') = length
        /\ \A i \in 1 .. length : queue'[i] = planned + i
    BY <2>1, <2>2, PlannedSteps
  <2>4. Popped' = planned /\ planned' \in 0 .. MaxSteps
    BY <2>1, <2>2, <2>3, BoundAssumption DEF Popped
  <2>5. TypeOK'
    BY <2>3, <2>4 DEF TypeOK
  <2>6. QueueShape'
    BY <1>1, <2>1, <2>2, <2>3, <2>4 DEF QueueShape, StepNodes, WorkerNodes,
           NoStep
  <2>7. ScriptShape'
    BY <1>1 DEF ScriptShape, ProposalIsCurrent
  <2>8. TriesShape'
    <3>1. Len(queue) \in Nat /\ Popped <= planned
      BY <2>2 DEF Popped
    <3>2. \A s \in Steps : s > planned => tries[s] = 0
      BY <3>1, <2>2 DEF TriesShape, Popped, Steps
    <3>. QED  BY <3>2, <2>4 DEF TriesShape, BoundedTries, StepNodes, WorkerNodes
  <2>. QED  BY <2>5, <2>6, <2>7, <2>8
<1>. QED  BY <1>2, <1>3

\* pop_next_task_node keeps the invariant: what is popped comes next after
\* all that was popped before.
LEMMA PopInv ==
    ASSUME Inv, Pop
    PROVE  Inv'
<1>. USE DEF Inv, Pop
<1>1. CASE queue = <<>>
  <2>1. TypeOK'
    BY <1>1 DEF TypeOK
  <2>2. QueueShape'
    BY <1>1 DEF TypeOK, QueueShape, Popped, StepNodes, WorkerNodes, NoStep
  <2>3. ScriptShape'
    BY <1>1 DEF ScriptShape, ProposalIsCurrent
  <2>4. TriesShape'
    BY <1>1 DEF TriesShape, BoundedTries, Popped, StepNodes, WorkerNodes
  <2>. QED  BY <2>1, <2>2, <2>3, <2>4
<1>2. CASE queue # <<>>
  <2>1. /\ Len(queue) \in Nat \ {0} /\ planned \in Nat /\ Popped \in Nat
        /\ queue' \in Seq(Steps) /\ Len(queue') = Len(queue) - 1
        /\ \A i \in 1 .. Len(queue') : queue'[i] = queue[i + 1]
        /\ step' = Popped + 1 /\ step' \in Steps
    <3>1. Len(queue) \in Nat \ {0} /\ planned \in Nat /\ Popped \in Nat
      BY <1>2, PoppedStep, BoundAssumption DEF TypeOK, QueueShape, Popped
    <3>. QED  BY <1>2, <3>1, PoppedStep
  <2>2. Popped' = Popped + 1
    BY <1>2, <2>1 DEF Popped
  <2>3. TypeOK'
    BY <1>2, <2>1 DEF TypeOK
  <2>4. QueueShape'
    <3>1. \A i \in 1 .. Len(queue') : queue'[i] = Popped' + i
      BY <2>1, <2>2 DEF QueueShape
    <3>. QED  BY <1>2, <2>1, <2>2, <3>1 DEF QueueShape, NoStep
  <2>5. ScriptShape'
    BY <1>2 DEF ScriptShape, ProposalIsCurrent
  <2>6. TriesShape'
    <3>1. tries[step'] = 0
      BY <2>1 DEF TriesShape
    <3>2. \A s \in Steps : s > Popped' => tries[s] = 0
      BY <2>1, <2>2 DEF TriesShape
    <3>. QED  BY <1>2, <3>1, <3>2 DEF TriesShape, BoundedTries
  <2>. QED  BY <2>3, <2>4, <2>5, <2>6
<1>. QED  BY <1>1, <1>2

\* detect_intent_node keeps the invariant: it leaves the step in work alone.
LEMMA DetectIntentInv ==
    ASSUME Inv, DetectIntent
    PROVE  Inv'
<1>. USE DEF Inv, DetectIntent, thread, history
<1>0. step \in Steps
  BY DEF TypeOK, QueueShape, StepNodes
<1>1. TypeOK'
  BY <1>0 DEF TypeOK
<1>2. QueueShape'
  BY <1>0 DEF QueueShape, Popped, StepNodes, WorkerNodes
<1>3. ScriptShape'
  BY <1>0 DEF ScriptShape, ProposalIsCurrent, WorkerNodes
<1>4. TriesShape'
  BY <1>0 DEF TypeOK, TriesShape, Popped, BoundedTries, StepNodes
<1>. QED  BY <1>1, <1>2, <1>3, <1>4

\* direct_chat_node keeps the invariant: it leaves no script.
LEMMA DirectChatInv ==
    ASSUME Inv, DirectChat
    PROVE  Inv'
<1>. USE DEF Inv, DirectChat, thread, history
<1>0. step \in Steps
  BY DEF TypeOK, QueueShape, StepNodes
<1>1. TypeOK'
  BY <1>0 DEF TypeOK
<1>2. QueueShape'
  BY <1>0 DEF QueueShape, Popped, StepNodes, WorkerNodes
<1>3. ScriptShape'
  BY <1>0 DEF ScriptShape, ProposalIsCurrent
<1>4. TriesShape'
  BY <1>0 DEF TriesShape, Popped, BoundedTries, StepNodes, WorkerNodes
<1>. QED  BY <1>1, <1>2, <1>3, <1>4

\* mcp_read_only_node keeps the invariant: it leaves no script.
LEMMA McpReadOnlyInv ==
    ASSUME Inv, McpReadOnly
    PROVE  Inv'
<1>. USE DEF Inv, McpReadOnly, thread, history
<1>0. step \in Steps
  BY DEF TypeOK, QueueShape, StepNodes
<1>1. TypeOK'
  BY <1>0, RetriesAssumption, BoundAssumption DEF TypeOK
<1>2. QueueShape'
  BY <1>0, RetriesAssumption, BoundAssumption DEF QueueShape, Popped,
         StepNodes, WorkerNodes
<1>3. ScriptShape'
  BY <1>0, RetriesAssumption, BoundAssumption DEF ScriptShape, ProposalIsCurrent
<1>4. TriesShape'
  BY <1>0, RetriesAssumption, BoundAssumption DEF TriesShape, Popped,
         BoundedTries, StepNodes, WorkerNodes
<1>. QED  BY <1>1, <1>2, <1>3, <1>4

\* run_crewai_diagnostics_node keeps the invariant: its script is of the step
\* in work, and runs only for a safe intent.
LEMMA CrewAiInv ==
    ASSUME Inv, CrewAi
    PROVE  Inv'
<1>. USE DEF Inv, CrewAi, RouteAfterScript, RequiresApproval, thread, history
<1>0. step \in Steps
  BY DEF TypeOK, QueueShape, StepNodes
<1>1. TypeOK'
  BY <1>0 DEF TypeOK
<1>2. QueueShape'
  BY <1>0 DEF QueueShape, Popped, StepNodes, WorkerNodes
<1>3. ScriptShape'
  BY <1>0 DEF ScriptShape, ProposalIsCurrent
<1>4. TriesShape'
  BY <1>0 DEF TypeOK, TriesShape, Popped, BoundedTries, StepNodes
<1>. QED  BY <1>1, <1>2, <1>3, <1>4

\* generate_action_script_node keeps the invariant: its script is of the step
\* in work, and runs only for a safe intent.
LEMMA GenerateInv ==
    ASSUME Inv, Generate
    PROVE  Inv'
<1>. USE DEF Inv, Generate, RouteAfterScript, RequiresApproval, thread, history
<1>0. step \in Steps
  BY DEF TypeOK, QueueShape, StepNodes
<1>1. TypeOK'
  BY <1>0 DEF TypeOK
<1>2. QueueShape'
  BY <1>0 DEF QueueShape, Popped, StepNodes, WorkerNodes
<1>3. ScriptShape'
  BY <1>0 DEF ScriptShape, ProposalIsCurrent
<1>4. TriesShape'
  BY <1>0 DEF TriesShape, Popped, BoundedTries, StepNodes, WorkerNodes
<1>. QED  BY <1>1, <1>2, <1>3, <1>4

\* What a script run by the engine leaves of the counts: one more for its step.
LEMMA RunCounts ==
    ASSUME Inv, node = "execute", tries' = [tries EXCEPT ![step] = @ + 1],
           UNCHANGED <<queue, planned>>
    PROVE  /\ tries' \in [Steps -> Nat]
           /\ step \in Steps /\ step <= Popped
           /\ tries'[step] <= retry + 1 /\ retry \in 0 .. MAX_SAFE_COMMAND_RETRIES
           /\ \A s \in Steps : s > Popped' => tries'[s] = 0
           /\ BoundedTries'
<1>. USE DEF Inv
<1>1. step \in Steps /\ step <= Popped /\ tries[step] <= retry
  BY DEF TypeOK, QueueShape, TriesShape, StepNodes
<1>2. tries \in [Steps -> Nat] /\ retry \in 0 .. MAX_SAFE_COMMAND_RETRIES
  BY DEF TypeOK
<1>3. tries' \in [Steps -> Nat] /\ tries'[step] <= retry + 1
  BY <1>1, <1>2, RetriesAssumption
<1>4. \A s \in Steps \ {step} : tries'[s] = tries[s]
  BY <1>1, <1>2
<1>5. BoundedTries'
  BY <1>2, <1>3, <1>4, RetriesAssumption DEF TriesShape, BoundedTries
<1>6. Popped' = Popped /\ Popped \in Int /\ step \in Int
  BY <1>1 DEF Popped, TypeOK, Steps
<1>7. \A s \in Steps : s > Popped' => s # step
  BY <1>1, <1>6
<1>8. \A s \in Steps : s > Popped' => tries'[s] = 0
  BY <1>4, <1>6, <1>7 DEF TriesShape
<1>. QED  BY <1>1, <1>2, <1>3, <1>5, <1>8

\* A script that succeeds in execute_safe_action_node keeps the invariant: it
\* does not stay in the state.
LEMMA ExecuteSucceedsInv ==
    ASSUME Inv, ExecuteSucceeds
    PROVE  Inv'
<1>. USE DEF Inv, ExecuteSucceeds
<1>1. /\ tries' \in [Steps -> Nat]
      /\ step \in Steps /\ step <= Popped
      /\ tries'[step] <= retry + 1 /\ retry \in 0 .. MAX_SAFE_COMMAND_RETRIES
      /\ \A s \in Steps : s > Popped' => tries'[s] = 0
      /\ BoundedTries'
  BY RunCounts
<1>2. TypeOK'
  <2>1. retry' \in 0 .. MAX_SAFE_COMMAND_RETRIES
    BY <1>1, RetriesAssumption
  <2>. QED  BY <1>1, <2>1 DEF TypeOK
<1>3. QueueShape'
  BY DEF QueueShape, Popped, StepNodes
<1>4. ScriptShape'
  BY DEF ScriptShape, ProposalIsCurrent
<1>5. TriesShape'
  BY <1>1 DEF TriesShape, StepNodes, WorkerNodes
<1>. QED  BY <1>2, <1>3, <1>4, <1>5

\* A script that fails and is retried keeps the invariant: the try is counted
\* as a retry.
LEMMA ExecuteFailsInv ==
    ASSUME Inv, ExecuteFails
    PROVE  Inv'
<1>. USE DEF Inv, ExecuteFails
<1>1. /\ tries' \in [Steps -> Nat]
      /\ step \in Steps /\ step <= Popped
      /\ tries'[step] <= retry + 1 /\ retry \in 0 .. MAX_SAFE_COMMAND_RETRIES
      /\ \A s \in Steps : s > Popped' => tries'[s] = 0
      /\ BoundedTries'
  BY RunCounts
<1>2. TypeOK'
  <2>1. retry' \in 0 .. MAX_SAFE_COMMAND_RETRIES
    BY <1>1, RetriesAssumption
  <2>. QED  BY <1>1, <2>1 DEF TypeOK, WorkerNodes
<1>3. QueueShape'
  BY DEF QueueShape, Popped, StepNodes
<1>4. ScriptShape'
  BY DEF ScriptShape, ProposalIsCurrent
<1>5. TriesShape'
  BY <1>1 DEF TriesShape, StepNodes, WorkerNodes
<1>. QED  BY <1>2, <1>3, <1>4, <1>5

\* A script that fails for good keeps the invariant: its step is not worked
\* on again.
LEMMA ExecuteGivesUpInv ==
    ASSUME Inv, ExecuteGivesUp
    PROVE  Inv'
<1>. USE DEF Inv, ExecuteGivesUp
<1>1. /\ tries' \in [Steps -> Nat]
      /\ step \in Steps /\ step <= Popped
      /\ tries'[step] <= retry + 1 /\ retry \in 0 .. MAX_SAFE_COMMAND_RETRIES
      /\ \A s \in Steps : s > Popped' => tries'[s] = 0
      /\ BoundedTries'
  BY RunCounts
<1>2. TypeOK'
  <2>1. retry' \in 0 .. MAX_SAFE_COMMAND_RETRIES
    BY <1>1, RetriesAssumption
  <2>. QED  BY <1>1, <2>1 DEF TypeOK
<1>3. QueueShape'
  BY DEF QueueShape, Popped, StepNodes
<1>4. ScriptShape'
  BY DEF ScriptShape, ProposalIsCurrent
<1>5. TriesShape'
  BY <1>1 DEF TriesShape, StepNodes, WorkerNodes
<1>. QED  BY <1>2, <1>3, <1>4, <1>5

\* The end of an invocation keeps the invariant: after the last step there is
\* no step and no script.
LEMMA RespondInv ==
    ASSUME Inv, Synthesis \/ Respond
    PROVE  Inv'
<1>. USE DEF Inv, Synthesis, Respond, thread, history
<1>1. TypeOK'
  BY DEF TypeOK
<1>2. QueueShape'
  BY DEF QueueShape, Popped, StepNodes, WorkerNodes
<1>3. ScriptShape'
  BY DEF QueueShape, ScriptShape, ProposalIsCurrent, NoStep, NONE
<1>4. TriesShape'
  BY DEF TriesShape, BoundedTries, Popped, StepNodes, WorkerNodes
<1>. QED  BY <1>1, <1>2, <1>3, <1>4

\* An exception keeps the invariant: the script of the step in work may have
\* been run.
LEMMA ExceptionInv ==
    ASSUME Inv, Exception
    PROVE  Inv'
<1>. USE DEF Inv, Exception, Fault, thread
<1>1. /\ tries' \in [Steps -> Nat]
      /\ \A s \in Steps : s > Popped' => tries'[s] = 0
      /\ BoundedTries'
  <2>1. CASE tries' = tries
    BY <2>1 DEF TypeOK, TriesShape, BoundedTries, Popped
  <2>2. CASE node = "execute" /\ tries' = [tries EXCEPT ![step] = @ + 1]
    BY <2>2, RunCounts
  <2>. QED  BY <2>1, <2>2
<1>2. TypeOK'
  BY <1>1, BoundAssumption DEF TypeOK
<1>3. QueueShape'
  BY DEF QueueShape, Popped, StepNodes, WorkerNodes
<1>4. ScriptShape'
  BY DEF ScriptShape, ProposalIsCurrent
<1>5. TriesShape'
  BY <1>1 DEF TriesShape, StepNodes, WorkerNodes
<1>. QED  BY <1>2, <1>3, <1>4, <1>5

\* A restart keeps the invariant: a queue that was forgotten counts as
\* popped.
LEMMA RestartInv ==
    ASSUME Inv, Restart
    PROVE  Inv'
<1>. USE DEF Inv, Restart, Fault, history
<1>1. /\ queue' \in Seq(Steps) /\ Len(queue') \in Nat /\ Len(queue) \in Nat
      /\ Len(queue') <= Len(queue)
      /\ planned \in Nat /\ step \in Nat
  <2>1. queue \in Seq(Steps) /\ planned \in Nat /\ step \in Nat
    BY BoundAssumption DEF TypeOK, NoStep
  <2>2. CASE queue' = queue
    BY <2>1, <2>2
  <2>3. CASE queue' = <<>>
    BY <2>1, <2>3
  <2>. QED  BY <2>1, <2>2, <2>3
<1>2. Popped' \in Int /\ Popped \in Int /\ Popped' >= Popped
  BY <1>1 DEF Popped
<1>3. TypeOK'
  BY <1>1, BoundAssumption DEF TypeOK
<1>4. QueueShape'
  <2>1. CASE queue' = queue
    BY <2>1 DEF QueueShape, Popped, StepNodes, WorkerNodes
  <2>2. CASE queue' = <<>>
    BY <2>2, <1>1, <1>2 DEF QueueShape, StepNodes, WorkerNodes
  <2>. QED  BY <2>1, <2>2
<1>5. ScriptShape'
  BY DEF ScriptShape, ProposalIsCurrent
<1>6. TriesShape'
  <2>1. \A s \in Steps : s > Popped' => tries[s] = 0
    BY <1>2 DEF TriesShape, Steps
  <2>. QED  BY <2>1 DEF TriesShape, BoundedTries, StepNodes, WorkerNodes
<1>. QED  BY <1>3, <1>4, <1>5, <1>6

\* Every step of the conversation preserves the invariant.
LEMMA InvStep == Inv /\ [Next]_vars => Inv'
<1>. SUFFICES ASSUME Inv, [Next]_vars PROVE Inv'
  OBVIOUS
<1>1. CASE \E m \in Messages : Analyze(m)
  BY <1>1, AnalyzeInv
<1>2. CASE Decompose \/ Pop \/ DetectIntent
  BY <1>2, DecomposeInv, PopInv, DetectIntentInv
<1>3. CASE DirectChat \/ McpReadOnly \/ CrewAi \/ Generate
  BY <1>3, DirectChatInv, McpReadOnlyInv, CrewAiInv, GenerateInv
<1>4. CASE ExecuteSucceeds \/ ExecuteFails \/ ExecuteGivesUp
  BY <1>4, ExecuteSucceedsInv, ExecuteFailsInv, ExecuteGivesUpInv
<1>5. CASE Synthesis \/ Respond
  BY <1>5, RespondInv
<1>6. CASE Exception \/ Restart
  BY <1>6, ExceptionInv, RestartInv
<1>7. CASE UNCHANGED vars
  BY <1>7 DEF vars, thread, history, Inv, TypeOK, QueueShape, ScriptShape,
         TriesShape, Popped, ProposalIsCurrent, BoundedTries
<1>. QED  BY <1>1, <1>2, <1>3, <1>4, <1>5, <1>6, <1>7 DEF Next, Run

\* The invariant holds over all invocations of a conversation.
LEMMA InvInvariant == Spec => []Inv
<1>. QED  BY InvInit, InvStep, PTL DEF Spec
-----------------------------------------------------------------------------
\* Type correctness of the thread's state.
THEOREM TypeCorrect == Spec => []TypeOK
<1>1. Inv => TypeOK
  BY DEF Inv
<1>. QED  BY <1>1, InvInvariant, PTL

\* The queue that decompose_query_node, pop_next_task_node and the checkpoint carry
\* from invocation to invocation is the rest of the newest plan.
THEOREM QueueIsTheRest == Spec => []QueueIsRest
<1>1. Inv => QueueIsRest
  BY DEF Inv, QueueShape, Popped, QueueIsRest
<1>. QED  BY <1>1, InvInvariant, PTL

\* The answer to the user carries the script of the active step or none, and
\* explains it.
THEOREM ProposalsAreCurrent == Spec => []ProposalIsCurrent
<1>1. Inv => ProposalIsCurrent
  BY DEF Inv, ScriptShape
<1>. QED  BY <1>1, InvInvariant, PTL

\* No path through the graph leads a script to execute_safe_action_node that is not
\* of a safe intent, or not of the step in work.
THEOREM OnlySafeRuns == Spec => []OnlySafeRun
<1>1. Inv => OnlySafeRun
  BY DEF Inv, ScriptShape, OnlySafeRun
<1>. QED  BY <1>1, InvInvariant, PTL

\* Whatever the two limits on retries are, the worker's bounds the runs of a step.
THEOREM TriesAreBounded == Spec => []BoundedTries
<1>1. Inv => BoundedTries
  BY DEF Inv, TriesShape
<1>. QED  BY <1>1, InvInvariant, PTL
=============================================================================
