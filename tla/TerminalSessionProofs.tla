----------------------- MODULE TerminalSessionProofs -----------------------
(***************************************************************************)
(* Theorems about TerminalSession, for any number of messages, devices,    *)
(* pending steps and failures.                                             *)
(*                                                                         *)
(* The inductive invariant has four parts: the shape of the state; where   *)
(* the message of an entry that is shown is in its life (Stored); what     *)
(* follows a success, each of which has its task in the history (Earned);  *)
(* and whose turn an entry is: it waits for the user, is executed, is      *)
(* watched, or had its one message sent (Turns).                           *)
(*                                                                         *)
(* A second invariant follows the plan in the engine's queue (PlanInv):    *)
(* while nothing has failed, a queue with steps left has a message or an   *)
(* entry with which it goes on, unless the adapter dropped the script that *)
(* the engine halted on last.  It rests on the first one and stands at the *)
(* end of the module.                                                      *)
(*                                                                         *)
(* The updates of records come first, as operators with their fields, so   *)
(* that the steps need not look into records.                              *)
(***************************************************************************)
EXTENDS TerminalSession, TLAPS
-----------------------------------------------------------------------------
\* A message that was just sent.
Posted(kind, origin, device) ==
    [NoAsk EXCEPT !.pc = "sent", !.kind = kind, !.origin = origin, !.device = device]

\* A message at another point of its way.
WithPc(a, pc) == [a EXCEPT !.pc = pc]

\* A message that the engine has answered.
Served(a, script, pending) ==
    [a EXCEPT !.pc = "answered", !.script = script, !.pending = pending]

\* A message whose connection broke.
Unheard(a) == [a EXCEPT !.heard = FALSE]

\* A message whose answer the terminal has.
Ended(a, kind, pending) ==
    [a EXCEPT !.pc = "done", !.kind = kind, !.script = FALSE, !.pending = pending,
              !.heard = TRUE]

\* An entry with other marks.
Marked(e, executed, queued, failed) ==
    [e EXCEPT !.executed = executed, !.queued = queued, !.failed = failed]

\* The entry of a new proposal.
Proposed(device, pending, repair) ==
    [NoEntry EXCEPT !.shown = TRUE, !.device = device, !.pending = pending,
                    !.repair = repair]

\* The points on the way of a message.
Pcs == {"none", "sent", "analyzing", "answered", "refused", "done"}

\* The fields of a message that was sent.
LEMMA PostedAsk ==
    ASSUME NEW kind \in Kinds, NEW origin \in Tasks \cup {NoTask}, NEW device \in Targets
    PROVE  /\ Posted(kind, origin, device) \in Ask
           /\ Posted(kind, origin, device).pc = "sent"
           /\ Posted(kind, origin, device).kind = kind
           /\ Posted(kind, origin, device).origin = origin
<1>1. NoAsk \in Ask
  <2>1. /\ "command" \in Kinds /\ NoTask \in Tasks \cup {NoTask} /\ Local \in Targets
        /\ 0 \in 0 .. MaxPlan
    BY BoundAssumption DEF Kinds, Targets
  <2>. QED  BY <2>1, Zenon DEF Ask, NoAsk
<1>. QED  BY <1>1 DEF Posted, Ask

\* The fields of a message at another point of its way.
LEMMA WithPcAsk ==
    ASSUME NEW a \in Ask, NEW pc \in Pcs
    PROVE  /\ WithPc(a, pc) \in Ask /\ WithPc(a, pc).pc = pc
           /\ WithPc(a, pc).kind = a.kind /\ WithPc(a, pc).origin = a.origin
BY DEF Ask, WithPc, Pcs

\* The fields of a message that the engine has answered.
LEMMA ServedAsk ==
    ASSUME NEW a \in Ask, NEW script \in BOOLEAN, NEW pending \in 0 .. MaxPlan
    PROVE  /\ Served(a, script, pending) \in Ask
           /\ Served(a, script, pending).pc = "answered"
           /\ Served(a, script, pending).kind = a.kind
           /\ Served(a, script, pending).origin = a.origin
BY DEF Ask, Served

\* The fields of a message whose connection broke.
LEMMA UnheardAsk ==
    ASSUME NEW a \in Ask
    PROVE  /\ Unheard(a) \in Ask /\ Unheard(a).pc = a.pc
           /\ Unheard(a).kind = a.kind /\ Unheard(a).origin = a.origin
BY DEF Ask, Unheard

\* The fields of a message that has ended.
LEMMA EndedAsk ==
    ASSUME NEW a \in Ask, NEW kind \in Kinds, NEW pending \in 0 .. MaxPlan
    PROVE  /\ Ended(a, kind, pending) \in Ask
           /\ Ended(a, kind, pending).pc = "done"
           /\ Ended(a, kind, pending).kind = kind
           /\ Ended(a, kind, pending).origin = a.origin
BY DEF Ask, Ended

\* The fields of a new proposal.
LEMMA ProposedEntry ==
    ASSUME NEW d \in Targets, NEW p \in 0 .. MaxPlan, NEW r \in BOOLEAN
    PROVE  /\ Proposed(d, p, r) \in Entry
           /\ Proposed(d, p, r).shown
           /\ ~Proposed(d, p, r).executed
BY DEF Entry, Proposed, NoEntry
-----------------------------------------------------------------------------
\* Entries and timers are well formed.
EntriesOK ==
    /\ entry \in [Tasks -> Entry]
    /\ watch \in [Tasks -> {"nothing", "command", "context", "verification"}]

\* Messages are, and a repair is for an entry.
AsksOK ==
    /\ asked \in 0 .. MaxTasks /\ ask \in [Tasks -> Ask]
    /\ \A t \in Tasks : ask[t].kind \in Repairs => ask[t].origin \in Tasks

\* Executions are, and a command that is followed is there.
RunsOK ==
    /\ run \in [Tasks -> {"none", "sent", "SUCCESS", "QUEUED", "ERROR", "error"}]
    /\ commands \in [Tasks -> Seq({"QUEUED", "COMPLETED", "FAILED"})]
    /\ \A t \in Tasks :
         watch[t] = "command" \/ run[t] = "QUEUED" => commands[t] # <<>>

\* And so is the rest of the state.
RestOK ==
    /\ loaded \in BOOLEAN /\ selected \in Targets
    /\ thinking \in BOOLEAN /\ executing \in BOOLEAN
    /\ waiting \subseteq Tasks /\ queue \in 0 .. MaxPlan /\ unshown \in BOOLEAN
    /\ status \in [Tasks -> TaskStatus \cup {"ABSENT"}]
    /\ scripts \subseteq Tasks
    /\ succeeded \subseteq Tasks
    /\ faults \in 0 .. MaxFaults

\* The shape of the state, in its four parts.
Shape == EntriesOK /\ AsksOK /\ RunsOK /\ RestOK

\* The shape is a type invariant.
LEMMA ShapeType == Shape => TypeOK
BY DEF Shape, EntriesOK, AsksOK, RunsOK, RestOK, TypeOK

\* Messages are sent in order, and an entry that is shown is that of a message whose
\* answer, and whose script, were saved.
Stored ==
    \A t \in Tasks :
        /\ t > asked => ask[t].pc = "none"
        /\ entry[t].shown => /\ ask[t].pc = "done"
                             /\ t \in scripts /\ status[t] \notin {"ABSENT", "PENDING"}

\* Whatever makes an entry look done, or goes on from it, comes after a success.
Earned ==
    \A t \in Tasks :
        /\ entry[t].executed /\ ~entry[t].queued /\ ~entry[t].failed => t \in succeeded
        /\ run[t] = "SUCCESS" => t \in succeeded
        /\ watch[t] \in {"context", "verification"} => t \in succeeded
        /\ \A i \in DOMAIN commands[t] : commands[t][i] = "COMPLETED" => t \in succeeded

\* An entry has one turn at a time: it is executed once shown, watched once executed,
\* and has a single message sent for it when neither is left.
Turns ==
    \A t \in Tasks :
        /\ entry[t].executed => entry[t].shown /\ run[t] = "none"
        /\ run[t] # "none" => entry[t].shown
        /\ watch[t] # "nothing" => entry[t].executed
        /\ ask[t].origin # NoTask => LET o == ask[t].origin
                                     IN  /\ entry[o].executed /\ watch[o] = "nothing"
                                         /\ ask[t].kind = "continue" => o \in succeeded
                                         /\ \A u \in Tasks : ask[u].origin = o => u = t
-----------------------------------------------------------------------------
\* A message goes on and remains what it is.
Moves(t) ==
    \/ ask' = ask
    \/ \E a \in Ask :
         /\ ask' = [ask EXCEPT ![t] = a]
         /\ a.origin = ask[t].origin
         /\ a.kind = ask[t].kind \/ a.kind = "command"
         /\ ask[t].pc \notin {"none", "done"} /\ a.pc # "none"

\* A message is sent for t.
SendsFor(t) ==
    \/ UNCHANGED asks
    \/ \E kind \in Kinds, device \in Targets :
         /\ asked + 1 \in Tasks /\ asked' = asked + 1 /\ thinking' = TRUE
         /\ ask' = [ask EXCEPT ![asked + 1] = Posted(kind, t, device)]
         /\ kind \in Repairs => t \in Tasks
         /\ kind = "continue" => t = NoTask \/ t \in succeeded'

\* processIntent for an entry, or for none, sends a message for it.
LEMMA Sends ==
    ASSUME Shape, NEW kind \in Kinds, NEW t \in Tasks \cup {NoTask}, NEW device \in Targets,
           kind \in Repairs => t \in Tasks, kind = "continue" => t = NoTask \/ t \in succeeded',
           Send(kind, t, device)
    PROVE  SendsFor(t)
<1>1. CASE asked < MaxTasks
  <2>1. asked + 1 \in Tasks
    BY <1>1, BoundAssumption DEF Tasks, Shape, AsksOK
  <2>2. /\ asked' = asked + 1 /\ thinking' = TRUE
        /\ ask' = [ask EXCEPT ![asked + 1] = Posted(kind, t, device)]
    BY <1>1 DEF Send, Posted
  <2>. QED  BY <2>1, <2>2 DEF SendsFor
<1>2. CASE ~(asked < MaxTasks)
  BY <1>2 DEF Send, SendsFor
<1>. QED  BY <1>1, <1>2

\* autoResumeQueue sends for an entry with a success.
LEMMA Resumed ==
    ASSUME Shape, NEW t \in Tasks, t \in succeeded', ResumeQueue(t)
    PROVE  SendsFor(t)
<1>1. "continue" \in Kinds /\ "continue" \notin Repairs /\ selected \in Targets
  BY DEF Kinds, Repairs, Shape, RestOK
<1>2. CASE Send("continue", t, selected)
  BY <1>1, <1>2, Sends
<1>. QED  BY <1>2 DEF ResumeQueue, SendsFor

\* selfHealScript and selfHealVerification send for their entry.
LEMMA Heals ==
    ASSUME Shape, NEW t \in Tasks, NEW kind \in Repairs, SelfHeal(kind, t)
    PROVE  SendsFor(t)
<1>1. kind \in Kinds /\ kind # "continue"
  BY DEF Kinds, Repairs
<1>2. entry[t].device \in Targets /\ selected \in Targets
  BY DEF Shape, EntriesOK, RestOK, Entry
<1>. QED  BY <1>1, <1>2, Sends DEF SelfHeal

\* The messages are well formed when one more was sent.
LEMMA SentShape ==
    ASSUME Shape, NEW t \in Tasks \cup {NoTask}, SendsFor(t)
    PROVE  AsksOK' /\ (thinking' = thinking \/ thinking' = TRUE)
<1>1. CASE UNCHANGED asks
  BY <1>1 DEF Shape, AsksOK, asks
<1>2. CASE ~UNCHANGED asks
  <2>1. PICK kind \in Kinds, device \in Targets :
           /\ asked + 1 \in Tasks /\ asked' = asked + 1 /\ thinking' = TRUE
           /\ ask' = [ask EXCEPT ![asked + 1] = Posted(kind, t, device)]
           /\ kind \in Repairs => t \in Tasks
    BY <1>2 DEF SendsFor
  <2>2. /\ Posted(kind, t, device) \in Ask
        /\ Posted(kind, t, device).kind = kind /\ Posted(kind, t, device).origin = t
    BY PostedAsk
  <2>3. asked' \in 0 .. MaxTasks
    BY <2>1, BoundAssumption DEF Tasks
  <2>. QED  BY <2>1, <2>2, <2>3 DEF Shape, AsksOK
<1>. QED  BY <1>1, <1>2

\* The messages are well formed when one has gone on.
LEMMA MovedShape ==
    ASSUME Shape, NEW t \in Tasks, Moves(t), UNCHANGED asked
    PROVE  AsksOK'
<1>1. "command" \notin Repairs
  BY DEF Repairs
<1>. QED  BY <1>1 DEF Moves, Shape, AsksOK
-----------------------------------------------------------------------------
\* The inductive invariant.
Inv == Shape /\ Stored /\ Earned /\ Turns

\* A message that is sent takes the place of none, and the others stay as they are.
LEMMA SentAsk ==
    ASSUME Inv, NEW t \in Tasks \cup {NoTask}, SendsFor(t)
    PROVE  /\ \A u \in Tasks : u > asked' => ask'[u].pc = "none"
           /\ \A u \in Tasks : ask[u].pc = "done" => ask'[u].pc = "done"
           /\ \A u \in Tasks :
                ask'[u] = ask[u] \/ /\ u = asked' /\ asked' = asked + 1
                                    /\ ask'[u].origin = t
                                    /\ ask'[u].kind = "continue"
                                         => t = NoTask \/ t \in succeeded'
<1>1. CASE UNCHANGED asks
  BY <1>1 DEF Inv, Stored, asks
<1>2. CASE ~UNCHANGED asks
  <2>1. PICK kind \in Kinds, device \in Targets :
           /\ asked + 1 \in Tasks /\ asked' = asked + 1
           /\ ask' = [ask EXCEPT ![asked + 1] = Posted(kind, t, device)]
           /\ kind = "continue" => t = NoTask \/ t \in succeeded'
    BY <1>2 DEF SendsFor
  <2>2. /\ Posted(kind, t, device).kind = kind /\ Posted(kind, t, device).origin = t
    BY PostedAsk
  <2>3. /\ asked \in Nat /\ Tasks \subseteq Nat /\ ask \in [Tasks -> Ask]
    BY BoundAssumption DEF Tasks, Inv, Shape, AsksOK
  <2>4. \A u \in Tasks : u > asked => ask[u].pc = "none"
    BY DEF Inv, Stored
  <2>5. \A u \in Tasks : u > asked + 1 => u > asked /\ u # asked + 1
    BY <2>3
  <2>6. ask[asked + 1].pc = "none"
    BY <2>1, <2>3, <2>4
  <2>. QED  BY <2>1, <2>2, <2>3, <2>4, <2>5, <2>6
<1>. QED  BY <1>1, <1>2

\* A message was sent for t, which had its turn, or for no entry.
LEMMA SentTurns ==
    ASSUME Inv, NEW t \in Tasks \cup {NoTask}, SendsFor(t), succeeded \subseteq succeeded',
           t # NoTask => \A u \in Tasks : ask[u].origin # t,
           t # NoTask => entry'[t].executed /\ watch'[t] = "nothing",
           \A o \in Tasks \ {t} :
             (entry'[o].executed <=> entry[o].executed) /\ watch'[o] = watch[o],
           Shape'
    PROVE  \A u \in Tasks :
             ask'[u].origin # NoTask =>
               LET o == ask'[u].origin
               IN  /\ entry'[o].executed /\ watch'[o] = "nothing"
                   /\ ask'[u].kind = "continue" => o \in succeeded'
                   /\ \A v \in Tasks : ask'[v].origin = o => v = u
<1> SUFFICES ASSUME NEW u \in Tasks, ask'[u].origin # NoTask
             PROVE  LET o == ask'[u].origin
                    IN  /\ entry'[o].executed /\ watch'[o] = "nothing"
                        /\ ask'[u].kind = "continue" => o \in succeeded'
                        /\ \A v \in Tasks : ask'[v].origin = o => v = u
  OBVIOUS
<1>1. \A v \in Tasks :
        ask'[v] = ask[v] \/ /\ v = asked' /\ ask'[v].origin = t
                            /\ ask'[v].kind = "continue" => t = NoTask \/ t \in succeeded'
  BY SentAsk
<1>2. ask'[u].origin \in Tasks
  BY DEF Shape, AsksOK, Ask
<1>3. CASE ask'[u] = ask[u]
  <2>1. /\ entry[ask[u].origin].executed /\ watch[ask[u].origin] = "nothing"
        /\ ask[u].kind = "continue" => ask[u].origin \in succeeded
        /\ \A v \in Tasks : ask[v].origin = ask[u].origin => v = u
    BY <1>3 DEF Inv, Turns
  <2>2. ask[u].origin # t
    BY <1>3
  <2>. QED  BY <1>1, <1>2, <1>3, <2>1, <2>2
<1>4. CASE u = asked' /\ ask'[u].origin = t
  BY <1>1, <1>2, <1>4
<1>. QED  BY <1>1, <1>3, <1>4

\* A message that goes on without an entry keeps the invariant: it was not done, so
\* nothing is shown for it.
LEMMA MovedInv ==
    ASSUME Inv, Shape', NEW t \in Tasks, Moves(t),
           UNCHANGED <<asked, entry, watch, run, commands, succeeded>>,
           scripts \subseteq scripts',
           \A u \in Tasks : entry[u].shown /\ u # t => status'[u] \notin {"ABSENT", "PENDING"},
           ask' = ask => status' = status
    PROVE  Inv'
<1>1. CASE ask' = ask
  BY <1>1 DEF Inv, Stored, Earned, Turns
<1>2. CASE ask' # ask
  <2>1. PICK a \in Ask : /\ ask' = [ask EXCEPT ![t] = a]
                         /\ a.origin = ask[t].origin
                         /\ a.kind = ask[t].kind \/ a.kind = "command"
                         /\ ask[t].pc \notin {"none", "done"} /\ a.pc # "none"
    BY <1>2 DEF Moves
  <2>2. ask \in [Tasks -> Ask]
    BY DEF Inv, Shape, AsksOK
  <2>3. /\ \A u \in Tasks : ask'[u].origin = ask[u].origin
        /\ \A u \in Tasks : ask'[u].kind = ask[u].kind \/ ask'[u].kind = "command"
        /\ \A u \in Tasks \ {t} : ask'[u] = ask[u]
    BY <2>1, <2>2
  <2>4. Stored'
    BY <2>1, <2>3 DEF Inv, Stored
  <2>5. Earned'
    BY DEF Inv, Earned
  <2>6. Turns'
    BY <2>3 DEF Inv, Turns
  <2>. QED  BY <2>4, <2>5, <2>6 DEF Inv
<1>. QED  BY <1>1, <1>2

\* The entry for an answer is shown, and not executed.
LEMMA NewEntryType ==
    ASSUME Shape, NEW t \in Tasks
    PROVE  NewEntry(t) \in Entry /\ NewEntry(t).shown /\ ~NewEntry(t).executed
<1>. DEFINE repairs == ask[t].kind \in Repairs
            d == IF repairs THEN ask[t].device ELSE selected
            p == IF repairs THEN entry[ask[t].origin].pending ELSE ask[t].pending
            r == ask[t].kind = "VERIFICATION"
<1>1. /\ ask[t].device \in Targets /\ ask[t].pending \in 0 .. MaxPlan
      /\ repairs => ask[t].origin \in Tasks
  BY DEF Shape, AsksOK, Ask
<1>2. repairs => entry[ask[t].origin].pending \in 0 .. MaxPlan
  BY <1>1 DEF Shape, EntriesOK, Entry
<1>3. d \in Targets /\ p \in 0 .. MaxPlan /\ r \in BOOLEAN
  BY <1>1, <1>2 DEF Shape, RestOK
<1>4. NewEntry(t) = Proposed(d, p, r)
  BY DEF NewEntry, Proposed
<1>. HIDE DEF d, p, r
<1>. QED  BY <1>3, <1>4, ProposedEntry
-----------------------------------------------------------------------------
\* The bound on failures is kept.
LEMMA FaultType == Shape /\ Fault => faults' \in 0 .. MaxFaults
BY BoundAssumption DEF Shape, RestOK, Fault

\* Creating a task keeps the invariant, as its message has no entry.
LEMMA CreateTaskInv ==
    ASSUME Inv, NEW t \in Tasks, CreateTask(t)
    PROVE  Inv'
<1>1. ask[t] \in Ask /\ "analyzing" \in Pcs /\ ask[t].pc = "sent"
  BY DEF Inv, Shape, AsksOK, CreateTask, Pcs
<1>2. ask' = [ask EXCEPT ![t] = WithPc(ask[t], "analyzing")]
  BY DEF CreateTask, WithPc
<1>3. Moves(t)
  BY <1>1, <1>2, WithPcAsk DEF Moves
<1>4. AsksOK'
  BY <1>3, MovedShape DEF Inv, CreateTask
<1>5. Shape'
  BY <1>4 DEF Inv, Shape, EntriesOK, RunsOK, RestOK, CreateTask, TaskStatus, page
<1>6. ask' # ask
  BY <1>1, <1>2, WithPcAsk DEF Inv, Shape, AsksOK
<1>. QED  BY <1>3, <1>5, <1>6, MovedInv DEF CreateTask, Inv, Stored, Shape, RestOK

\* And so does a task that cannot be created.
LEMMA CreateFailsInv ==
    ASSUME Inv, NEW t \in Tasks, CreateFails(t)
    PROVE  Inv'
<1>1. ask[t] \in Ask /\ "refused" \in Pcs /\ ask[t].pc = "sent"
  BY DEF Inv, Shape, AsksOK, CreateFails, Pcs
<1>2. ask' = [ask EXCEPT ![t] = WithPc(ask[t], "refused")]
  BY DEF CreateFails, WithPc
<1>3. Moves(t)
  BY <1>1, <1>2, WithPcAsk DEF Moves
<1>4. AsksOK'
  BY <1>3, MovedShape DEF Inv, CreateFails
<1>5. Shape'
  BY <1>4, FaultType DEF Inv, Shape, EntriesOK, RunsOK, RestOK, CreateFails, engine, rows, page
<1>. QED  BY <1>3, <1>5, MovedInv DEF CreateFails, Inv, Stored, rows

\* An invocation of the engine keeps it, whoever still waits for the answer.
LEMMA InvocationInv ==
    ASSUME Inv, NEW t \in Tasks, NEW failed \in BOOLEAN, Invocation(t, failed),
           faults' \in 0 .. MaxFaults
    PROVE  Inv'
<1>1. PICK todo \in Decomposed(ask[t].kind) \cup (IF failed THEN {queue} ELSE {}),
           left \in 0 .. MaxPlan, script \in BOOLEAN, kept \in BOOLEAN :
        /\ queue' = left
        /\ unshown' \in BOOLEAN
        /\ waiting' = waiting \ {t}
        /\ ask' = IF ask[t].pc # "analyzing" THEN ask
                  ELSE [ask EXCEPT ![t].pc = "answered", ![t].script = kept,
                                   ![t].pending = IF failed THEN 0 ELSE left]
        /\ UNCHANGED <<page, executing, entry, watch, asked, thinking, rows, run, succeeded>>
  BY DEF Invocation, Normalized
<1>2. ask[t] \in Ask /\ ask \in [Tasks -> Ask]
  BY DEF Inv, Shape, AsksOK
<1>3. PICK n \in 0 .. MaxPlan : n = IF failed THEN 0 ELSE left
  BY BoundAssumption
<1>4. Moves(t)
  <2>1. CASE ask[t].pc # "analyzing"
    BY <1>1, <2>1 DEF Moves
  <2>2. CASE ask[t].pc = "analyzing"
    <3>1. ask' = [ask EXCEPT ![t] = Served(ask[t], kept, n)]
      BY <1>1, <1>2, <1>3, <2>2 DEF Served
    <3>. QED  BY <1>2, <2>2, <3>1, ServedAsk DEF Moves
  <2>. QED  BY <2>1, <2>2
<1>5. AsksOK'
  BY <1>1, <1>4, MovedShape DEF Inv
<1>6. Shape'
  BY <1>1, <1>5 DEF Inv, Shape, EntriesOK, RunsOK, RestOK, page, rows
<1>. QED  BY <1>1, <1>4, <1>6, MovedInv DEF Inv, Stored, rows

\* A fallback of the adapter keeps it.
LEMMA FallbackInv ==
    ASSUME Inv, NEW t \in Tasks, Fallback(t)
    PROVE  Inv'
<1>1. ask[t] \in Ask /\ "answered" \in Pcs /\ ask[t].pc = "analyzing"
  BY DEF Inv, Shape, AsksOK, Fallback, Pcs
<1>2. ask' = [ask EXCEPT ![t] = WithPc(ask[t], "answered")]
  BY DEF Fallback, WithPc
<1>3. Moves(t)
  BY <1>1, <1>2, WithPcAsk DEF Moves
<1>4. AsksOK'
  BY <1>3, MovedShape DEF Inv, Fallback
<1>5. Shape'
  BY <1>4, FaultType DEF Inv, Shape, EntriesOK, RunsOK, RestOK, Fallback, rows, page
<1>. QED  BY <1>3, <1>5, MovedInv DEF Fallback, Inv, Stored, rows

\* A broken connection keeps it.
LEMMA AskLostInv ==
    ASSUME Inv, NEW t \in Tasks, AskLost(t)
    PROVE  Inv'
<1>1. ask[t] \in Ask /\ ask[t].pc \notin {"none", "done"}
  BY DEF Inv, Shape, AsksOK, AskLost
<1>2. ask' = [ask EXCEPT ![t] = Unheard(ask[t])]
  BY DEF AskLost, Unheard
<1>3. Moves(t)
  BY <1>1, <1>2, UnheardAsk DEF Moves
<1>4. AsksOK'
  BY <1>3, MovedShape DEF Inv, AskLost
<1>5. Shape'
  BY <1>4, FaultType DEF Inv, Shape, EntriesOK, RunsOK, RestOK, AskLost, engine, rows, page
<1>. QED  BY <1>3, <1>5, MovedInv DEF AskLost, Inv, Stored, rows

\* The fields of a message whose answer the terminal has.
LEMMA AnsweredAsk ==
    ASSUME Shape, NEW t \in Tasks
    PROVE  /\ Answered(t) \in Ask /\ Answered(t).pc = "done"
           /\ Answered(t).origin = ask[t].origin
           /\ Answered(t).kind = ask[t].kind \/ Answered(t).kind = "command"
<1>1. 0 \in 0 .. MaxPlan /\ ask[t] \in Ask
  BY BoundAssumption DEF Shape, AsksOK
<1>2. CASE ask[t].origin = NoTask
  <2>1. Answered(t) = Ended(ask[t], "command", 0)
    BY <1>2 DEF Answered, Ended
  <2>2. "command" \in Kinds
    BY DEF Kinds
  <2>. QED  BY <1>1, <2>1, <2>2, EndedAsk
<1>3. CASE ask[t].origin # NoTask
  <2>1. Answered(t) = Ended(ask[t], ask[t].kind, 0)
    BY <1>3 DEF Answered, Ended
  <2>2. ask[t].kind \in Kinds
    BY <1>1 DEF Ask
  <2>. QED  BY <1>1, <2>1, <2>2, EndedAsk
<1>. QED  BY <1>2, <1>3

\* An answer keeps the invariant: its message is done with, the proposal is shown only
\* if it is saved, and the entry is new, so that nothing is under way for it.
LEMMA ShowsInv ==
    ASSUME Inv, NEW t \in Tasks, NEW proposal \in BOOLEAN, Shows(t, proposal),
           ask[t].pc \in {"answered", "refused"},
           scripts \subseteq scripts', scripts' \subseteq Tasks,
           status' \in [Tasks -> TaskStatus \cup {"ABSENT"}],
           \A u \in Tasks \ {t} : status'[u] = status[u],
           proposal => t \in scripts' /\ status'[t] \notin {"ABSENT", "PENDING"},
           faults' \in 0 .. MaxFaults
    PROVE  Inv'
<1>1. /\ ask' = [ask EXCEPT ![t] = Answered(t)]
      /\ thinking' \in {thinking, FALSE}
      /\ UNCHANGED <<page, executing, watch, asked, engine, commands, run, succeeded>>
  BY DEF Shows
<1>2. Moves(t)
  BY <1>1, AnsweredAsk DEF Moves, Inv
<1>3. AsksOK'
  BY <1>1, <1>2, MovedShape DEF Inv
<1>4. ~entry[t].shown /\ ~entry[t].executed /\ run[t] = "none" /\ watch[t] = "nothing"
  BY DEF Inv, Stored, Turns
<1>5. \A u \in Tasks : ask[u].origin # t
  BY <1>4 DEF Inv, Turns, Tasks, NoTask
<1>6. CASE entry' = entry
  <2>1. Shape'
    BY <1>1, <1>3, <1>6 DEF Inv, Shape, EntriesOK, RunsOK, RestOK, page, engine
  <2>2. ask' # ask
    BY <1>1, AnsweredAsk DEF Inv, Shape, AsksOK
  <2>. QED  BY <1>1, <1>2, <1>4, <1>6, <2>1, <2>2, MovedInv DEF Inv, Stored
<1>7. CASE entry' # entry
  <2>1. proposal /\ entry' = [entry EXCEPT ![t] = NewEntry(t)]
    BY <1>7 DEF Shows
  <2>2. NewEntry(t) \in Entry /\ NewEntry(t).shown /\ ~NewEntry(t).executed
    BY NewEntryType DEF Inv
  <2>3. EntriesOK'
    BY <1>1, <2>1, <2>2 DEF Inv, Shape, EntriesOK
  <2>4. Shape'
    BY <1>1, <1>3, <2>3 DEF Inv, Shape, RunsOK, RestOK, page, engine
  <2>5. /\ Answered(t).pc = "done" /\ Answered(t).origin = ask[t].origin
        /\ Answered(t).kind = ask[t].kind \/ Answered(t).kind = "command"
    BY AnsweredAsk DEF Inv
  <2>6. /\ ask \in [Tasks -> Ask] /\ entry \in [Tasks -> Entry]
    BY DEF Inv, Shape, AsksOK, EntriesOK
  <2>7. /\ \A u \in Tasks : ask'[u].origin = ask[u].origin
        /\ \A u \in Tasks : ask'[u].kind = ask[u].kind \/ ask'[u].kind = "command"
        /\ \A u \in Tasks \ {t} : ask'[u] = ask[u] /\ entry'[u] = entry[u]
        /\ ask'[t].pc = "done" /\ entry'[t].shown /\ ~entry'[t].executed
    BY <1>1, <2>1, <2>2, <2>5, <2>6
  <2>8. Stored'
    BY <1>1, <2>1, <2>7 DEF Inv, Stored
  <2>9. Earned'
    BY <1>1, <2>7 DEF Inv, Earned
  <2>10. Turns'
    <3>1. \A u \in Tasks : (entry'[u].executed <=> entry[u].executed)
                           /\ (entry[u].shown => entry'[u].shown)
      BY <1>4, <2>7
    <3>2. \A u \in Tasks : ask[u].origin # NoTask => ask[u].origin \in Tasks
      BY <2>6 DEF Ask
    <3>. QED  BY <1>1, <2>7, <3>1, <3>2 DEF Inv, Turns
  <2>. QED  BY <2>4, <2>8, <2>9, <2>10 DEF Inv
<1>. QED  BY <1>6, <1>7

\* An answer that was saved keeps the invariant.
LEMMA RespondInv ==
    ASSUME Inv, NEW t \in Tasks, Respond(t)
    PROVE  Inv'
<1>1. ask[t].script \in BOOLEAN
  BY DEF Inv, Shape, AsksOK, Ask
<1>. QED  BY <1>1, ShowsInv DEF Respond, Inv, Shape, RestOK, TaskStatus

\* An answer that was not saved keeps it, as its script is withheld.
LEMMA RespondUnsavedInv ==
    ASSUME Inv, NEW t \in Tasks, RespondUnsaved(t)
    PROVE  Inv'
BY ShowsInv, FaultType DEF RespondUnsaved, Inv, Shape, RestOK

\* An error keeps it.
LEMMA RespondErrorInv ==
    ASSUME Inv, NEW t \in Tasks, RespondError(t)
    PROVE  Inv'
BY ShowsInv DEF RespondError, Inv, Shape, RestOK
-----------------------------------------------------------------------------
\* The marks that the terminal sets and clears, in terms of Marked.
LEMMA MarkedFields ==
    ASSUME NEW e \in Entry
    PROVE  /\ [e EXCEPT !.executed = TRUE] = Marked(e, TRUE, e.queued, e.failed)
           /\ [e EXCEPT !.executed = TRUE, !.queued = TRUE] = Marked(e, TRUE, TRUE, e.failed)
           /\ [e EXCEPT !.executed = TRUE, !.failed = TRUE] = Marked(e, TRUE, e.queued, TRUE)
           /\ [e EXCEPT !.queued = FALSE] = Marked(e, e.executed, FALSE, e.failed)
           /\ [e EXCEPT !.queued = FALSE, !.failed = TRUE] = Marked(e, e.executed, FALSE, TRUE)
           /\ \A f \in BOOLEAN :
                [e EXCEPT !.failed = f] = Marked(e, e.executed, e.queued, f)
<1>1. [e EXCEPT !.executed = TRUE] = Marked(e, TRUE, e.queued, e.failed)
  BY DEF Entry, Marked
<1>2. [e EXCEPT !.executed = TRUE, !.queued = TRUE] = Marked(e, TRUE, TRUE, e.failed)
  BY DEF Entry, Marked
<1>3. [e EXCEPT !.executed = TRUE, !.failed = TRUE] = Marked(e, TRUE, e.queued, TRUE)
  BY DEF Entry, Marked
<1>4. [e EXCEPT !.queued = FALSE] = Marked(e, e.executed, FALSE, e.failed)
  BY DEF Entry, Marked
<1>5. [e EXCEPT !.queued = FALSE, !.failed = TRUE] = Marked(e, e.executed, FALSE, TRUE)
  BY DEF Entry, Marked
<1>6. ASSUME NEW f \in BOOLEAN
      PROVE  [e EXCEPT !.failed = f] = Marked(e, e.executed, e.queued, f)
  BY DEF Entry, Marked
<1>. QED  BY <1>1, <1>2, <1>3, <1>4, <1>5, <1>6

\* An entry that is marked is shown as before, and the others are as before.
LEMMA MarkedShape ==
    ASSUME Shape, NEW t \in Tasks, NEW x \in BOOLEAN, NEW q \in BOOLEAN, NEW f \in BOOLEAN,
           entry' = [entry EXCEPT ![t] = Marked(entry[t], x, q, f)]
    PROVE  /\ entry' \in [Tasks -> Entry]
           /\ \A u \in Tasks : entry'[u].shown = entry[u].shown
           /\ entry'[t].executed = x /\ entry'[t].queued = q /\ entry'[t].failed = f
           /\ \A u \in Tasks \ {t} : entry'[u] = entry[u]
<1>1. entry \in [Tasks -> Entry] /\ entry[t] \in Entry
  BY DEF Shape, EntriesOK
<1>2. /\ Marked(entry[t], x, q, f) \in Entry
      /\ Marked(entry[t], x, q, f).shown = entry[t].shown
      /\ Marked(entry[t], x, q, f).executed = x
      /\ Marked(entry[t], x, q, f).queued = q
      /\ Marked(entry[t], x, q, f).failed = f
  BY <1>1 DEF Marked, Entry
<1>. QED  BY <1>1, <1>2

\* A step that does not touch the rows, after which t, if it is an entry, is done
\* with and had no message sent for it before.
LEMMA SentInv ==
    ASSUME Inv, Shape', Earned', NEW t \in Tasks \cup {NoTask}, SendsFor(t),
           UNCHANGED <<status, scripts, succeeded>>,
           t # NoTask => \A u \in Tasks : ask[u].origin # t,
           t # NoTask => entry'[t].executed /\ watch'[t] = "nothing",
           \A u \in Tasks : entry'[u].shown = entry[u].shown,
           \A u \in Tasks \ {t} :
             (entry'[u].executed <=> entry[u].executed) /\ watch'[u] = watch[u],
           \A u \in Tasks : entry'[u].executed => entry'[u].shown /\ run'[u] = "none",
           \A u \in Tasks : run'[u] # "none" => entry'[u].shown
    PROVE  Inv'
<1>1. Stored'
  BY SentAsk DEF Inv, Stored
<1>2. \A u \in Tasks :
        ask'[u].origin # NoTask =>
          LET o == ask'[u].origin
          IN  /\ entry'[o].executed /\ watch'[o] = "nothing"
              /\ ask'[u].kind = "continue" => o \in succeeded'
              /\ \A v \in Tasks : ask'[v].origin = o => v = u
  BY SentTurns
<1>3. \A u \in Tasks : watch'[u] # "nothing" => entry'[u].executed
  BY DEF Inv, Turns, Tasks, NoTask
<1>4. Turns'
  BY <1>2, <1>3 DEF Turns
<1>. QED  BY <1>1, <1>4 DEF Inv
-----------------------------------------------------------------------------
\* A message of the user keeps the invariant: it is for no entry.
LEMMA CommandInv ==
    ASSUME Inv, NEW kind \in {"command", "continue"}, Command(kind)
    PROVE  Inv'
<1>1. kind \in Kinds /\ kind \notin Repairs /\ selected \in Targets
  BY DEF Kinds, Repairs, Inv, Shape, RestOK
<1>2. SendsFor(NoTask)
  BY <1>1, Sends DEF Command, Inv
<1>3. AsksOK' /\ thinking' \in BOOLEAN
  BY <1>2, SentShape DEF Inv, Shape, RestOK
<1>4. Shape'
  BY <1>3 DEF Command, Inv, Shape, EntriesOK, RunsOK, RestOK, page, engine, rows
<1>5. Earned'
  BY DEF Command, Inv, Earned, rows
<1>. QED  BY <1>2, <1>4, <1>5, SentInv DEF Command, Inv, Turns, rows

\* Selecting a device keeps it.
LEMMA SelectDeviceInv ==
    ASSUME Inv, NEW d \in Targets, SelectDevice(d)
    PROVE  Inv'
<1>1. Shape'
  BY DEF SelectDevice, Inv, Shape, EntriesOK, AsksOK, RunsOK, RestOK, asks, engine, rows
<1>. QED  BY <1>1 DEF SelectDevice, Inv, Stored, Earned, Turns, asks, rows

\* The arrival of the device list keeps it.
LEMMA LoadDevicesInv ==
    ASSUME Inv, NEW d \in Devices \cup {selected}, LoadDevices(d)
    PROVE  Inv'
<1>1. d \in Targets
  BY DEF Targets, Inv, Shape, RestOK
<1>2. Shape'
  BY <1>1 DEF LoadDevices, Inv, Shape, EntriesOK, AsksOK, RunsOK, RestOK, asks, engine, rows
<1>. QED  BY <1>2 DEF LoadDevices, Inv, Stored, Earned, Turns, asks, rows

\* An approval keeps it, as its entry is neither executed nor watched.
LEMMA ApproveInv ==
    ASSUME Inv, NEW t \in Tasks, Approve(t)
    PROVE  Inv'
<1>1. run \in [Tasks -> {"none", "sent", "SUCCESS", "QUEUED", "ERROR", "error"}]
  BY DEF Inv, Shape, RunsOK
<1>2. \A u \in Tasks : run'[u] = IF u = t THEN "sent" ELSE run[u]
  BY <1>1 DEF Approve
<1>3. Shape'
  BY <1>2 DEF Approve, Inv, Shape, EntriesOK, AsksOK, RunsOK, RestOK, page, asks, engine, rows
<1>4. Stored' /\ Earned'
  BY <1>2 DEF Approve, Inv, Stored, Earned, asks, rows
<1>5. Turns'
  BY <1>2 DEF Approve, Inv, Turns, asks
<1>. QED  BY <1>3, <1>4, <1>5 DEF Inv

\* A step of the backend or the node on an execution.
LEMMA RunInv ==
    ASSUME Inv, RunsOK', Earned',
           UNCHANGED <<page, executing, entry, watch, asks, engine, scripts>>,
           status' \in [Tasks -> TaskStatus \cup {"ABSENT"}],
           \A u \in Tasks : status'[u] = status[u] \/ status'[u] \notin {"ABSENT", "PENDING"},
           succeeded \subseteq succeeded', succeeded' \subseteq Tasks,
           faults' \in 0 .. MaxFaults,
           \A u \in Tasks : run'[u] # "none" <=> run[u] # "none"
    PROVE  Inv'
<1>1. Shape'
  BY DEF Inv, Shape, EntriesOK, AsksOK, RestOK, page, asks, engine
<1>2. Stored'
  BY DEF Inv, Stored, asks
<1>3. Turns'
  <2>1. \A u \in Tasks : ask[u].origin # NoTask /\ ask[u].kind = "continue"
                            => ask[u].origin \in succeeded'
    BY DEF Inv, Turns
  <2>. QED  BY <2>1 DEF Inv, Turns, asks
<1>. QED  BY <1>1, <1>2, <1>3 DEF Inv

\* A refusal of executeTask keeps the invariant.
LEMMA RefuseExecutionInv ==
    ASSUME Inv, NEW t \in Tasks, RefuseExecution(t)
    PROVE  Inv'
<1>1. \A u \in Tasks : run'[u] = IF u = t THEN "error" ELSE run[u]
  BY DEF RefuseExecution, Inv, Shape, RunsOK
<1>2. RunsOK'
  BY <1>1 DEF RefuseExecution, Inv, Shape, RunsOK
<1>3. Earned'
  BY <1>1 DEF RefuseExecution, Inv, Earned
<1>4. /\ status' \in [Tasks -> TaskStatus \cup {"ABSENT"}]
      /\ \A u \in Tasks : status'[u] = status[u] \/ status'[u] = "FAILED"
  BY DEF RefuseExecution, Inv, Shape, RestOK, TaskStatus
<1>. QED  BY <1>1, <1>2, <1>3, <1>4, RunInv DEF RefuseExecution, Inv, Shape, RestOK

\* A local execution keeps it: its success is recorded with its answer.
LEMMA ExecuteLocallyInv ==
    ASSUME Inv, NEW t \in Tasks, ExecuteLocally(t)
    PROVE  Inv'
<1>1. PICK saved \in BOOLEAN, outcome \in {"SUCCESS", "ERROR", "error"} :
         /\ IF saved THEN UNCHANGED faults ELSE Fault
         /\ status' = [status EXCEPT ![t] = IF ~saved THEN "IN_PROGRESS"
                                            ELSE IF outcome = "SUCCESS" THEN "COMPLETED"
                                            ELSE "FAILED"]
         /\ succeeded' = IF outcome = "SUCCESS" THEN succeeded \cup {t} ELSE succeeded
         /\ run' = [run EXCEPT ![t] = outcome]
  BY DEF ExecuteLocally
<1>2. \A u \in Tasks : run'[u] = IF u = t THEN outcome ELSE run[u]
  BY <1>1 DEF Inv, Shape, RunsOK
<1>3. RunsOK'
  BY <1>1, <1>2 DEF ExecuteLocally, Inv, Shape, RunsOK
<1>4. /\ succeeded \subseteq succeeded' /\ succeeded' \subseteq Tasks
      /\ outcome = "SUCCESS" => t \in succeeded'
  BY <1>1 DEF Inv, Shape, RestOK
<1>5. Earned'
  BY <1>2, <1>4 DEF ExecuteLocally, Inv, Earned
<1>6. /\ status' \in [Tasks -> TaskStatus \cup {"ABSENT"}]
      /\ \A u \in Tasks : status'[u] = status[u]
                          \/ status'[u] \in {"IN_PROGRESS", "COMPLETED", "FAILED"}
  BY <1>1 DEF Inv, Shape, RestOK, TaskStatus
<1>7. faults' \in 0 .. MaxFaults
  BY <1>1, FaultType DEF Inv, Shape, RestOK
<1>8. run[t] = "sent"
  BY DEF ExecuteLocally
<1>. QED  BY <1>2, <1>3, <1>4, <1>5, <1>6, <1>7, <1>8, RunInv DEF ExecuteLocally

\* Queueing a command keeps it: the new command is not completed.
LEMMA EnqueueInv ==
    ASSUME Inv, NEW t \in Tasks, Enqueue(t)
    PROVE  Inv'
<1>1. \A u \in Tasks : run'[u] = IF u = t THEN "QUEUED" ELSE run[u]
  BY DEF Enqueue, Inv, Shape, RunsOK
<1>2. commands[t] \in Seq({"QUEUED", "COMPLETED", "FAILED"})
  BY DEF Inv, Shape, RunsOK
<1>3. /\ Append(commands[t], "QUEUED") \in Seq({"QUEUED", "COMPLETED", "FAILED"})
      /\ Append(commands[t], "QUEUED") # <<>>
      /\ \A i \in DOMAIN Append(commands[t], "QUEUED") :
           Append(commands[t], "QUEUED")[i] = "COMPLETED"
             => i \in DOMAIN commands[t] /\ commands[t][i] = "COMPLETED"
  BY <1>2
<1>4. commands' = [commands EXCEPT ![t] = Append(commands[t], "QUEUED")]
  BY DEF Enqueue
<1>5. RunsOK'
  BY <1>1, <1>3, <1>4 DEF Enqueue, Inv, Shape, RunsOK
<1>6. \A u \in Tasks : \A i \in DOMAIN commands'[u] :
        commands'[u][i] = "COMPLETED" => i \in DOMAIN commands[u] /\ commands[u][i] = "COMPLETED"
  BY <1>3, <1>4 DEF Inv, Shape, RunsOK
<1>7. Earned'
  BY <1>1, <1>6 DEF Enqueue, Inv, Earned
<1>8. /\ status' \in [Tasks -> TaskStatus \cup {"ABSENT"}]
      /\ \A u \in Tasks : status'[u] = status[u] \/ status'[u] = "IN_PROGRESS"
  BY DEF Enqueue, Inv, Shape, RestOK, TaskStatus
<1>. QED  BY <1>1, <1>5, <1>7, <1>8, RunInv DEF Enqueue, Inv, Shape, RestOK

\* The loss of an answer keeps it.
LEMMA ExecutionLostInv ==
    ASSUME Inv, NEW t \in Tasks, ExecutionLost(t)
    PROVE  Inv'
<1>1. \A u \in Tasks : run'[u] = IF u = t THEN "error" ELSE run[u]
  BY DEF ExecutionLost, Inv, Shape, RunsOK
<1>2. RunsOK'
  BY <1>1 DEF ExecutionLost, Inv, Shape, RunsOK, rows
<1>3. Earned'
  BY <1>1 DEF ExecutionLost, Inv, Earned, rows
<1>4. faults' \in 0 .. MaxFaults
  BY FaultType DEF ExecutionLost, Inv
<1>. QED  BY <1>1, <1>2, <1>3, <1>4, RunInv DEF ExecutionLost, Inv, Shape, RestOK, rows

\* A report keeps it: a command that is completed was a success.
LEMMA NodeReportsInv ==
    ASSUME Inv, NEW t \in Tasks, NEW i \in DOMAIN commands[t], NodeReports(t, i)
    PROVE  Inv'
<1>1. PICK result \in Final :
         /\ commands' = [commands EXCEPT ![t][i] = result]
         /\ status' = [status EXCEPT ![t] = result]
         /\ succeeded' = IF result = "COMPLETED" THEN succeeded \cup {t} ELSE succeeded
  BY DEF NodeReports
<1>2. result \in {"COMPLETED", "FAILED"}
  BY DEF Final
<1>3. /\ commands \in [Tasks -> Seq({"QUEUED", "COMPLETED", "FAILED"})]
      /\ commands[t] \in Seq({"QUEUED", "COMPLETED", "FAILED"}) /\ commands[t] # <<>>
  BY DEF Inv, Shape, RunsOK
<1>4. PICK s : s = [commands[t] EXCEPT ![i] = result]
  OBVIOUS
<1>5. /\ s \in Seq({"QUEUED", "COMPLETED", "FAILED"}) /\ s # <<>>
      /\ \A j \in DOMAIN s : j \in DOMAIN commands[t] /\ (s[j] = commands[t][j] \/ s[j] = result)
  BY <1>2, <1>3, <1>4
<1>6. commands' = [commands EXCEPT ![t] = s]
  BY <1>1, <1>4
<1>7. RunsOK'
  BY <1>3, <1>5, <1>6 DEF NodeReports, Inv, Shape, RunsOK
<1>8. /\ succeeded \subseteq succeeded' /\ succeeded' \subseteq Tasks
      /\ result = "COMPLETED" => t \in succeeded'
  BY <1>1 DEF Inv, Shape, RestOK
<1>9. \A u \in Tasks : \A j \in DOMAIN commands'[u] :
        commands'[u][j] = "COMPLETED"
          => u \in succeeded' \/ (j \in DOMAIN commands[u] /\ commands[u][j] = "COMPLETED")
  <2>1. \A u \in Tasks \ {t} : commands'[u] = commands[u]
    BY <1>3, <1>6
  <2>2. commands'[t] = s
    BY <1>3, <1>6
  <2>3. \A j \in DOMAIN s : s[j] = "COMPLETED"
          => t \in succeeded' \/ (j \in DOMAIN commands[t] /\ commands[t][j] = "COMPLETED")
    BY <1>5, <1>8
  <2>. QED  BY <2>1, <2>2, <2>3
<1>10. Earned'
  BY <1>8, <1>9 DEF NodeReports, Inv, Earned
<1>11. /\ status' \in [Tasks -> TaskStatus \cup {"ABSENT"}]
       /\ \A u \in Tasks : status'[u] = status[u] \/ status'[u] \in Final
  BY <1>1, <1>2 DEF Inv, Shape, RestOK, TaskStatus, Final
<1>. QED  BY <1>7, <1>8, <1>10, <1>11, RunInv DEF NodeReports, Inv, Shape, RestOK, Final
-----------------------------------------------------------------------------
\* An entry whose execution or timer is under way had no message sent for it.
LEMMA HasTurn ==
    ASSUME Inv, NEW t \in Tasks, run[t] # "none" \/ watch[t] # "nothing"
    PROVE  \A u \in Tasks : ask[u].origin # t
BY DEF Inv, Turns, Tasks, NoTask

\* The answer of executeTask keeps the invariant: the entry's run ends as it is marked,
\* followed, or has its message sent.
LEMMA ExecuteResponseInv ==
    ASSUME Inv, NEW t \in Tasks, ExecuteResponse(t)
    PROVE  Inv'
<1>1. /\ \A u \in Tasks : run'[u] = IF u = t THEN "none" ELSE run[u]
      /\ run' \in [Tasks -> {"none", "sent", "SUCCESS", "QUEUED", "ERROR", "error"}]
  BY DEF ExecuteResponse, Inv, Shape, RunsOK
<1>2. run[t] # "none" /\ watch[t] = "nothing" /\ entry[t].shown /\ ~entry[t].executed
  <2>1. run[t] # "none"
    BY DEF ExecuteResponse, ExecuteSucceeded, ExecuteQueued, ExecuteFailed, ExecuteError
  <2>. QED  BY <2>1 DEF Inv, Turns
<1>3. \A u \in Tasks : ask[u].origin # t
  BY <1>2, HasTurn
<1>4. entry[t].queued \in BOOLEAN /\ entry[t].failed \in BOOLEAN /\ entry[t] \in Entry
  BY DEF Inv, Shape, EntriesOK, Entry
<1>5. CASE ExecuteSucceeded(t)
  <2>1. entry' = [entry EXCEPT ![t] = Marked(entry[t], TRUE, entry[t].queued, entry[t].failed)]
    BY <1>4, <1>5, MarkedFields DEF ExecuteSucceeded
  <2>2. /\ entry' \in [Tasks -> Entry]
        /\ \A u \in Tasks : entry'[u].shown = entry[u].shown
        /\ entry'[t].executed = TRUE
        /\ \A u \in Tasks \ {t} : entry'[u] = entry[u]
    BY <1>4, <2>1, MarkedShape DEF Inv
  <2>3. t \in succeeded /\ watch' = watch
    BY <1>5 DEF ExecuteSucceeded, Inv, Earned
  <2>4. SendsFor(t)
    BY <1>5, <2>3, Resumed DEF ExecuteSucceeded, ExecuteResponse, Inv
  <2>5. AsksOK' /\ thinking' \in BOOLEAN
    BY <2>4, SentShape DEF Inv, Shape, RestOK
  <2>6. Shape'
    BY <1>1, <2>2, <2>3, <2>5
    DEF ExecuteResponse, Inv, Shape, EntriesOK, RunsOK, RestOK, page, engine, rows
  <2>7. Earned'
    BY <1>1, <2>2, <2>3 DEF ExecuteResponse, Inv, Earned, rows
  <2>. QED  BY <1>1, <1>2, <1>3, <2>2, <2>3, <2>4, <2>6, <2>7, SentInv
            DEF ExecuteResponse, Inv, Turns, rows
<1>6. CASE ExecuteFailed(t)
  <2>1. entry' = [entry EXCEPT ![t] = Marked(entry[t], TRUE, entry[t].queued, TRUE)]
    BY <1>4, <1>6, MarkedFields DEF ExecuteFailed
  <2>2. /\ entry' \in [Tasks -> Entry]
        /\ \A u \in Tasks : entry'[u].shown = entry[u].shown
        /\ entry'[t].executed = TRUE /\ entry'[t].failed = TRUE
        /\ \A u \in Tasks \ {t} : entry'[u] = entry[u]
    BY <1>4, <2>1, MarkedShape DEF Inv
  <2>3. watch' = watch
    BY <1>6 DEF ExecuteFailed
  <2>4. SendsFor(t)
    BY <1>6, Heals DEF ExecuteFailed, Inv, Repairs
  <2>5. AsksOK' /\ thinking' \in BOOLEAN
    BY <2>4, SentShape DEF Inv, Shape, RestOK
  <2>6. Shape'
    BY <1>1, <2>2, <2>3, <2>5
    DEF ExecuteResponse, Inv, Shape, EntriesOK, RunsOK, RestOK, page, engine, rows
  <2>7. Earned'
    BY <1>1, <2>2, <2>3 DEF ExecuteResponse, Inv, Earned, rows
  <2>. QED  BY <1>1, <1>2, <1>3, <2>2, <2>3, <2>4, <2>6, <2>7, SentInv
            DEF ExecuteResponse, Inv, Turns, rows
<1>7. CASE ExecuteQueued(t)
  <2>1. entry' = [entry EXCEPT ![t] = Marked(entry[t], TRUE, TRUE, entry[t].failed)]
    BY <1>4, <1>7, MarkedFields DEF ExecuteQueued
  <2>2. /\ entry' \in [Tasks -> Entry]
        /\ \A u \in Tasks : entry'[u].shown = entry[u].shown
        /\ entry'[t].executed = TRUE /\ entry'[t].queued = TRUE
        /\ \A u \in Tasks \ {t} : entry'[u] = entry[u]
    BY <1>4, <2>1, MarkedShape DEF Inv
  <2>3. /\ \A u \in Tasks : watch'[u] = IF u = t THEN "command" ELSE watch[u]
        /\ watch' \in [Tasks -> {"nothing", "command", "context", "verification"}]
    BY <1>7 DEF ExecuteQueued, Inv, Shape, EntriesOK
  <2>4. commands[t] # <<>>
    BY <1>7 DEF ExecuteQueued, Inv, Shape, RunsOK
  <2>5. Shape'
    <3>1. EntriesOK'
      BY <2>2, <2>3 DEF EntriesOK
    <3>2. RunsOK'
      BY <1>1, <2>3, <2>4 DEF ExecuteResponse, Inv, Shape, RunsOK, rows
    <3>3. AsksOK' /\ RestOK'
      BY <1>7 DEF ExecuteResponse, ExecuteQueued, Inv, Shape, AsksOK, RestOK,
                  page, asks, engine, rows
    <3>. QED  BY <3>1, <3>2, <3>3 DEF Shape
  <2>6. Stored' /\ Earned'
    BY <1>1, <1>7, <2>2, <2>3
    DEF ExecuteResponse, ExecuteQueued, Inv, Stored, Earned, asks, rows
  <2>7. Turns'
    <3>1. \A u \in Tasks : ask[u].origin # NoTask => ask[u].origin \in Tasks \ {t}
      BY <1>3 DEF Inv, Shape, AsksOK, Ask
    <3>2. /\ \A u \in Tasks : entry'[u].executed => entry'[u].shown /\ run'[u] = "none"
          /\ \A u \in Tasks : run'[u] # "none" => entry'[u].shown
          /\ \A u \in Tasks : watch'[u] # "nothing" => entry'[u].executed
      BY <1>1, <1>2, <2>2, <2>3 DEF Inv, Turns
    <3>3. ask' = ask /\ succeeded' = succeeded
      BY <1>7 DEF ExecuteResponse, ExecuteQueued, asks
    <3>. QED  BY <2>2, <2>3, <3>1, <3>2, <3>3 DEF Inv, Turns
  <2>. QED  BY <2>5, <2>6, <2>7 DEF Inv
<1>8. CASE ExecuteError(t)
  <2>1. Shape'
    BY <1>1, <1>8 DEF ExecuteResponse, ExecuteError, Inv, Shape, EntriesOK, AsksOK, RunsOK,
                      RestOK, page, asks, engine, rows
  <2>2. Stored' /\ Earned'
    BY <1>1, <1>8 DEF ExecuteResponse, ExecuteError, Inv, Stored, Earned, asks, rows
  <2>3. Turns'
    BY <1>1, <1>8 DEF ExecuteResponse, ExecuteError, Inv, Turns, asks
  <2>. QED  BY <2>1, <2>2, <2>3 DEF Inv
<1>. QED  BY <1>5, <1>6, <1>7, <1>8 DEF ExecuteResponse

\* A timer of t ends, with a message sent for t or not.
LEMMA WatchEnds ==
    ASSUME Inv, NEW t \in Tasks, watch[t] # "nothing", SendsFor(t), Earned',
           watch' = [watch EXCEPT ![t] = "nothing"],
           entry' \in [Tasks -> Entry], \A u \in Tasks : entry'[u].shown = entry[u].shown,
           \A u \in Tasks : entry'[u].executed <=> entry[u].executed,
           faults' \in 0 .. MaxFaults,
           UNCHANGED <<page, executing, engine, rows, run, succeeded>>
    PROVE  Inv'
<1>1. \A u \in Tasks : ask[u].origin # t
  BY HasTurn
<1>2. /\ \A u \in Tasks : watch'[u] = IF u = t THEN "nothing" ELSE watch[u]
      /\ watch' \in [Tasks -> {"nothing", "command", "context", "verification"}]
  BY DEF Inv, Shape, EntriesOK
<1>3. AsksOK' /\ thinking' \in BOOLEAN
  BY SentShape DEF Inv, Shape, RestOK
<1>4. Shape'
  BY <1>2, <1>3 DEF Inv, Shape, EntriesOK, RunsOK, RestOK, page, engine, rows
<1>. QED  BY <1>1, <1>2, <1>4, SentInv DEF Inv, Turns, rows

\* Polling keeps it: what it takes for a success is one.
LEMMA PollInv ==
    ASSUME Inv, NEW t \in Tasks, Poll(t)
    PROVE  Inv'
<1>1. /\ watch[t] = "command"
      /\ UNCHANGED <<page, executing, engine, rows, run, succeeded, faults>>
  BY DEF Poll
<1>2. faults' \in 0 .. MaxFaults
  BY <1>1 DEF Inv, Shape, RestOK
<1>3. /\ commands[t] \in Seq({"QUEUED", "COMPLETED", "FAILED"}) /\ commands[t] # <<>>
  BY <1>1 DEF Inv, Shape, RunsOK
<1>4. Len(commands[t]) \in DOMAIN commands[t]
  BY <1>3
<1>5. entry[t].executed /\ entry[t].executed \in BOOLEAN /\ entry[t].failed \in BOOLEAN
      /\ entry[t] \in Entry
  BY <1>1 DEF Inv, Turns, Shape, EntriesOK, Entry
<1>6. CASE PollGivesUp(t)
  <2>1. SendsFor(t)
    BY <1>6 DEF PollGivesUp, SendsFor
  <2>2. /\ watch' = [watch EXCEPT ![t] = "nothing"] /\ entry' = entry
    BY <1>6 DEF PollGivesUp
  <2>3. Earned'
    BY <1>1, <2>2 DEF Inv, Earned, Shape, EntriesOK, rows
  <2>. QED  BY <1>1, <1>2, <2>1, <2>2, <2>3, WatchEnds DEF Inv, Shape, EntriesOK
<1>7. CASE PollCompleted(t)
  <2>1. t \in succeeded
    BY <1>4, <1>7 DEF PollCompleted, Latest, Inv, Earned
  <2>2. entry' = [entry EXCEPT ![t] = Marked(entry[t], entry[t].executed, FALSE, entry[t].failed)]
    BY <1>5, <1>7, MarkedFields DEF PollCompleted
  <2>3. /\ entry' \in [Tasks -> Entry]
        /\ \A u \in Tasks : entry'[u].shown = entry[u].shown
        /\ entry'[t].executed = entry[t].executed
        /\ \A u \in Tasks \ {t} : entry'[u] = entry[u]
    BY <1>5, <2>2, MarkedShape DEF Inv
  <2>4. CASE entry[t].device = Local
    <3>1. watch' = [watch EXCEPT ![t] = "nothing"] /\ ResumeQueue(t)
      BY <1>7, <2>4 DEF PollCompleted
    <3>2. SendsFor(t)
      BY <1>1, <2>1, <3>1, Resumed DEF Inv
    <3>3. Earned'
      BY <1>1, <2>1, <2>3, <3>1 DEF Inv, Earned, Shape, EntriesOK, rows
    <3>. QED  BY <1>1, <1>2, <2>3, <3>1, <3>2, <3>3, WatchEnds
  <2>5. CASE entry[t].device # Local
    <3>1. watch' = [watch EXCEPT ![t] = "context"] /\ UNCHANGED asks
      BY <1>7, <2>5 DEF PollCompleted
    <3>2. /\ \A u \in Tasks : watch'[u] = IF u = t THEN "context" ELSE watch[u]
          /\ watch' \in [Tasks -> {"nothing", "command", "context", "verification"}]
      BY <3>1 DEF Inv, Shape, EntriesOK
    <3>3. Shape'
      BY <1>1, <2>3, <3>1, <3>2
      DEF Inv, Shape, EntriesOK, AsksOK, RunsOK, RestOK, page, asks, engine, rows
    <3>4. Stored' /\ Earned'
      BY <1>1, <2>1, <2>3, <3>1, <3>2 DEF Inv, Stored, Earned, asks, rows
    <3>5. Turns'
      <4>1. \A u \in Tasks : entry'[u].executed <=> entry[u].executed
        BY <2>3
      <4>2. \A u \in Tasks : ask[u].origin # t
        BY <1>1, HasTurn
      <4>3. \A u \in Tasks : ask[u].origin # NoTask => ask[u].origin \in Tasks \ {t}
        BY <4>2 DEF Inv, Shape, AsksOK, Ask
      <4>4. /\ \A u \in Tasks : entry'[u].executed => entry'[u].shown /\ run[u] = "none"
            /\ \A u \in Tasks : run[u] # "none" => entry'[u].shown
            /\ \A u \in Tasks : watch'[u] # "nothing" => entry'[u].executed
        BY <1>5, <2>3, <3>2, <4>1 DEF Inv, Turns
      <4>. QED  BY <1>1, <3>1, <3>2, <4>1, <4>3, <4>4 DEF Inv, Turns, asks
    <3>. QED  BY <3>3, <3>4, <3>5 DEF Inv
  <2>. QED  BY <2>4, <2>5
<1>8. CASE PollFailed(t)
  <2>1. SendsFor(t)
    BY <1>8, Heals DEF PollFailed, Inv, Repairs
  <2>2. entry' = [entry EXCEPT ![t] = Marked(entry[t], entry[t].executed, FALSE, TRUE)]
    BY <1>5, <1>8, MarkedFields DEF PollFailed
  <2>3. /\ entry' \in [Tasks -> Entry]
        /\ \A u \in Tasks : entry'[u].shown = entry[u].shown
        /\ entry'[t].executed = entry[t].executed /\ entry'[t].failed = TRUE
        /\ \A u \in Tasks \ {t} : entry'[u] = entry[u]
    BY <1>5, <2>2, MarkedShape DEF Inv
  <2>4. watch' = [watch EXCEPT ![t] = "nothing"]
    BY <1>8 DEF PollFailed
  <2>5. Earned'
    BY <1>1, <2>3, <2>4 DEF Inv, Earned, Shape, EntriesOK, rows
  <2>. QED  BY <1>1, <1>2, <2>1, <2>3, <2>4, <2>5, WatchEnds
<1>. QED  BY <1>6, <1>7, <1>8 DEF Poll

\* An error while polling keeps it.
LEMMA PollLostInv ==
    ASSUME Inv, NEW t \in Tasks, PollLost(t)
    PROVE  Inv'
<1>1. SendsFor(t)
  BY DEF PollLost, SendsFor
<1>2. faults' \in 0 .. MaxFaults
  BY FaultType DEF PollLost, Inv
<1>3. Earned'
  BY DEF PollLost, Inv, Earned, Shape, EntriesOK, rows
<1>. QED  BY <1>1, <1>2, <1>3, WatchEnds DEF PollLost, Inv, Shape, EntriesOK

\* The end of the wait for a context keeps it.
LEMMA PostCommandContextInv ==
    ASSUME Inv, NEW t \in Tasks, PostCommandContext(t)
    PROVE  Inv'
<1>1. /\ watch[t] = "context"
      /\ UNCHANGED <<page, executing, entry, engine, rows, run, succeeded, faults>>
  BY DEF PostCommandContext
<1>2. t \in succeeded /\ faults' \in 0 .. MaxFaults
  BY <1>1 DEF Inv, Earned, Shape, RestOK
<1>3. CASE watch' = [watch EXCEPT ![t] = "verification"] /\ UNCHANGED asks
  <2>1. /\ \A u \in Tasks : watch'[u] = IF u = t THEN "verification" ELSE watch[u]
        /\ watch' \in [Tasks -> {"nothing", "command", "context", "verification"}]
    BY <1>3 DEF Inv, Shape, EntriesOK
  <2>2. Shape'
    BY <1>1, <1>3, <2>1
    DEF Inv, Shape, EntriesOK, AsksOK, RunsOK, RestOK, page, asks, engine, rows
  <2>3. Stored' /\ Earned'
    BY <1>1, <1>2, <1>3, <2>1 DEF Inv, Stored, Earned, asks, rows
  <2>4. Turns'
    <3>1. \A u \in Tasks : ask[u].origin # t
      BY <1>1, HasTurn
    <3>. QED  BY <1>1, <1>3, <2>1, <3>1 DEF Inv, Turns, asks
  <2>. QED  BY <2>2, <2>3, <2>4 DEF Inv
<1>4. CASE watch' = [watch EXCEPT ![t] = "nothing"] /\ ResumeQueue(t)
  <2>1. SendsFor(t)
    BY <1>1, <1>2, <1>4, Resumed DEF Inv
  <2>2. Earned'
    BY <1>1, <1>4 DEF Inv, Earned, Shape, EntriesOK, rows
  <2>. QED  BY <1>1, <1>2, <1>4, <2>1, <2>2, WatchEnds DEF Inv, Shape, EntriesOK
<1>. QED  BY <1>3, <1>4 DEF PostCommandContext

\* The answer of the verification keeps it, with a resume, a repair or neither.
LEMMA VerificationInv ==
    ASSUME Inv, NEW t \in Tasks, Verification(t)
    PROVE  Inv'
<1>1. /\ watch[t] = "verification" /\ watch' = [watch EXCEPT ![t] = "nothing"]
      /\ UNCHANGED <<page, executing, engine, rows, run, succeeded, faults>>
  BY DEF Verification
<1>2. t \in succeeded /\ faults' \in 0 .. MaxFaults
  BY <1>1 DEF Inv, Earned, Shape, RestOK
<1>3. entry[t] \in Entry /\ entry[t].executed \in BOOLEAN /\ entry[t].queued \in BOOLEAN
  BY DEF Inv, Shape, EntriesOK, Entry
<1>4. CASE VerifiedOrUnknown(t) \/ (VerificationFails(t) /\ entry[t].repair)
  <2>1. SendsFor(t) /\ entry' = entry
    <3>1. CASE VerifiedOrUnknown(t)
      BY <1>1, <1>2, <3>1, Resumed DEF VerifiedOrUnknown, Inv
    <3>2. CASE VerificationFails(t) /\ entry[t].repair
      BY <3>2 DEF VerificationFails, SendsFor
    <3>. QED  BY <1>4, <3>1, <3>2
  <2>2. Earned'
    BY <1>1, <2>1 DEF Inv, Earned, Shape, EntriesOK, rows
  <2>. QED  BY <1>1, <1>2, <2>1, <2>2, WatchEnds DEF Inv, Shape, EntriesOK
<1>5. CASE VerificationFails(t) /\ ~entry[t].repair
  <2>1. PICK failed \in BOOLEAN : entry' = [entry EXCEPT ![t].failed = failed]
    BY <1>5 DEF VerificationFails
  <2>2. SendsFor(t)
    BY <1>5, Heals DEF VerificationFails, Inv, Repairs
  <2>3. entry' = [entry EXCEPT ![t] = Marked(entry[t], entry[t].executed, entry[t].queued, failed)]
    BY <1>3, <2>1, MarkedFields
  <2>4. /\ entry' \in [Tasks -> Entry]
        /\ \A u \in Tasks : entry'[u].shown = entry[u].shown
        /\ entry'[t].executed = entry[t].executed
        /\ \A u \in Tasks \ {t} : entry'[u] = entry[u]
    BY <1>3, <2>3, MarkedShape DEF Inv
  <2>5. Earned'
    BY <1>1, <1>2, <2>4 DEF Inv, Earned, Shape, EntriesOK, rows
  <2>. QED  BY <1>1, <1>2, <2>2, <2>4, <2>5, WatchEnds
<1>. QED  BY <1>4, <1>5 DEF Verification
-----------------------------------------------------------------------------
\* The invariant holds when the page is opened.
LEMMA InvInit == Init => Inv
<1> SUFFICES ASSUME Init PROVE Inv
  OBVIOUS
<1>1. NoAsk \in Ask /\ NoEntry \in Entry
  <2>1. /\ "command" \in Kinds /\ NoTask \in Tasks \cup {NoTask} /\ Local \in Targets
        /\ 0 \in 0 .. MaxPlan
    BY BoundAssumption DEF Kinds, Targets
  <2>. QED  BY <2>1, Zenon DEF Ask, NoAsk, Entry, NoEntry
<1>2. NoAsk.pc = "none" /\ NoAsk.origin = NoTask /\ NoAsk.kind \notin Repairs
  BY DEF NoAsk, Repairs
<1>3. ~NoEntry.shown /\ ~NoEntry.executed
  BY DEF NoEntry
<1>4. EntriesOK /\ AsksOK /\ RunsOK /\ RestOK
  <2>1. EntriesOK
    BY <1>1 DEF Init, EntriesOK
  <2>2. AsksOK
    <3>1. asked \in 0 .. MaxTasks
      BY BoundAssumption DEF Init
    <3>. QED  BY <1>1, <1>2, <3>1 DEF Init, AsksOK
  <2>3. RunsOK
    BY DEF Init, RunsOK
  <2>4. RestOK
    <3>1. loaded \in BOOLEAN /\ thinking \in BOOLEAN /\ executing \in BOOLEAN /\ unshown \in BOOLEAN
      BY DEF Init
    <3>2. selected \in Targets
      BY DEF Init, Targets
    <3>3. queue \in 0 .. MaxPlan /\ faults \in 0 .. MaxFaults
      BY BoundAssumption DEF Init
    <3>4. status \in [Tasks -> TaskStatus \cup {"ABSENT"}]
      BY DEF Init
    <3>5. waiting \subseteq Tasks /\ scripts \subseteq Tasks /\ succeeded \subseteq Tasks
      BY DEF Init
    <3>. QED  BY <3>1, <3>2, <3>3, <3>4, <3>5 DEF RestOK
  <2>. QED  BY <2>1, <2>2, <2>3, <2>4
<1>5. Stored /\ Earned /\ Turns
  BY <1>2, <1>3 DEF Init, Stored, Earned, Turns
<1>. QED  BY <1>4, <1>5 DEF Inv, Shape

\* Every step keeps it.
LEMMA InvStep == Inv /\ [Next]_vars => Inv'
<1> SUFFICES ASSUME Inv, [Next]_vars PROVE Inv'
  OBVIOUS
<1>1. CASE UserNext
  BY <1>1, CommandInv, SelectDeviceInv, LoadDevicesInv, ApproveInv DEF UserNext
<1>2. ASSUME NEW t \in Tasks, AskNext(t) PROVE Inv'
  <2>1. CASE Analyze(t)
    BY <2>1, InvocationInv DEF Analyze, Inv, Shape, RestOK
  <2>. QED  BY <1>2, <2>1, CreateTaskInv, RespondInv, RespondErrorInv DEF AskNext
<1>3. ASSUME NEW t \in Tasks, RunNext(t) PROVE Inv'
  BY <1>3, RefuseExecutionInv, ExecuteLocallyInv, EnqueueInv, ExecuteResponseInv DEF RunNext
<1>4. ASSUME NEW t \in Tasks, WatchNext(t) PROVE Inv'
  BY <1>4, PollInv, PostCommandContextInv, VerificationInv DEF WatchNext
<1>5. ASSUME NEW t \in Tasks, FaultNext(t) PROVE Inv'
  <2>1. CASE AnalyzeFails(t)
    BY <2>1, InvocationInv, FaultType DEF AnalyzeFails, Inv
  <2>. QED  BY <1>5, <2>1, CreateFailsInv, FallbackInv, RespondUnsavedInv, AskLostInv,
               ExecutionLostInv, PollLostInv DEF FaultNext
<1>6. ASSUME NEW t \in Tasks, NEW i \in DOMAIN commands[t], NodeReports(t, i) PROVE Inv'
  BY <1>6, NodeReportsInv
<1>7. CASE UNCHANGED vars
  BY <1>7 DEF vars, page, asks, engine, rows, Inv, Shape, EntriesOK, AsksOK, RunsOK, RestOK,
              Stored, Earned, Turns
<1>. QED  BY <1>1, <1>2, <1>3, <1>4, <1>5, <1>6, <1>7 DEF Next

\* It is invariant.
LEMMA Invariance == Spec => []Inv
BY InvInit, InvStep, PTL DEF Spec

\* The terminal, its messages, the thread and the rows are well formed, and the terminal
\* follows only commands that are there.
THEOREM TypeCorrect == Spec => []TypeOK
<1>1. Inv => TypeOK
  BY ShapeType DEF Inv
<1>. QED  BY <1>1, Invariance, PTL

\* A proposal that can be approved is the one executeTask finds in the task, whichever
\* transaction of persistAnalysisResult or answer is lost.
THEOREM ShownScriptsAreStored == Spec => []ShownIsStored
<1>1. Inv => ShownIsStored
  BY DEF Inv, Stored, ShownIsStored
<1>. QED  BY <1>1, Invariance, PTL

\* An entry that is shown as completed had an execution that ended as a success, however
\* approvals, errors and timers overlap.
THEOREM BadgesAreTrue == Spec => []BadgeIsTrue
<1>1. Inv => BadgeIsTrue
  BY DEF Inv, Earned, BadgeIsTrue
<1>. QED  BY <1>1, Invariance, PTL

\* The queue is resumed only for an entry with a success, and the terminal sends one
\* message for an entry at most.
THEOREM ResumesAreEarned == Spec => []ResumeIsEarned
<1>1. Inv => ResumeIsEarned
  <2> SUFFICES ASSUME Inv, NEW t \in Tasks, ask[t].origin # NoTask
               PROVE  /\ ask[t].kind = "continue" => ask[t].origin \in succeeded
                      /\ \A u \in Tasks \ {t} : ask[u].origin # ask[t].origin
    BY DEF ResumeIsEarned
  <2>. QED  BY DEF Inv, Turns
<1>. QED  BY <1>1, Invariance, PTL
-----------------------------------------------------------------------------
(* The plan is worked off.  While nothing has failed, a queue with steps   *)
(* left has an entry or a message with which it goes on: the terminal      *)
(* knows the pendingCount of an older queue only when a newer message, by  *)
(* which the queue goes on as well, is under way.  The exception is an     *)
(* answer whose script the adapter dropped (unshown): then nothing goes on *)
(* with the steps that are left.                                           *)

\* Task t goes on with the queue: its message is under way, its answer has a proposal
\* and pending steps, or its entry is not done with.
Open(t) ==
    \/ ask[t].pc \in {"sent", "analyzing"}
    \/ ask[t].pc = "answered" /\ ask[t].script /\ ask[t].pending > 0
    \/ /\ entry[t].shown /\ entry[t].pending > 0
       /\ \/ ~entry[t].executed \/ entry[t].queued
          \/ watch[t] \in {"context", "verification"}

\* The engine serves who still waits, and no repair is shown.
Undisturbed ==
    /\ \A t \in waiting : ask[t].pc = "analyzing"
    /\ \A t \in Tasks : ask[t].heard /\ ~entry[t].repair

\* Nothing failed, no repair was asked for, and a message is left to send.
Untroubled ==
    /\ faults = 0 /\ asked < MaxTasks
    /\ \A t \in Tasks : ask[t].pc # "none" => ask[t].kind \notin Repairs

PlanInv == Untroubled => Undisturbed /\ (queue > 0 /\ ~unshown => \E t \in Tasks : Open(t))

\* What has gone well so far did so before.
LEMMA UntroubledBefore ==
    ASSUME Inv, Untroubled', faults' = 0 => faults = 0, asked' \in {asked, asked + 1},
           \A t \in Tasks : ask[t].pc # "none" /\ ask[t].kind \in Repairs
                              => ask'[t].pc # "none" /\ ask'[t].kind \in Repairs
    PROVE  Untroubled
<1>1. asked < MaxTasks
  <2>1. asked \in 0 .. MaxTasks /\ asked' < MaxTasks /\ MaxTasks \in Nat
    BY BoundAssumption DEF Untroubled, Inv, Shape, AsksOK
  <2>. QED  BY <2>1
<1>. QED  BY <1>1 DEF Untroubled

\* A failure ends it.
LEMMA FaultPlan ==
    ASSUME Inv, Fault
    PROVE  PlanInv'
BY BoundAssumption DEF Fault, PlanInv, Untroubled, Inv, Shape, RestOK

\* A step that sends nothing, and leaves open what is.
LEMMA KeptPlan ==
    ASSUME Inv, PlanInv, UNCHANGED <<asks, engine>>, faults' = 0 => faults = 0,
           \A u \in Tasks : entry'[u].repair = entry[u].repair,
           \A u \in Tasks : Open(u) => Open(u)'
    PROVE  PlanInv'
<1>. SUFFICES ASSUME Untroubled'
              PROVE  Undisturbed' /\ (queue' > 0 /\ ~unshown' => \E t \in Tasks : Open(t)')
  BY DEF PlanInv
<1>1. Untroubled
  BY BoundAssumption, UntroubledBefore DEF asks, Inv, Shape, AsksOK
<1>2. Undisturbed /\ (queue > 0 /\ ~unshown => \E t \in Tasks : Open(t))
  BY <1>1 DEF PlanInv
<1>3. Undisturbed'
  BY <1>2 DEF Undisturbed, asks, engine
<1>. QED  BY <1>2, <1>3 DEF engine

LEMMA QuietPlan ==
    ASSUME Inv, PlanInv, UNCHANGED <<entry, watch, asks, engine>>, faults' = 0 => faults = 0
    PROVE  PlanInv'
<1>1. \A u \in Tasks : Open(u) => Open(u)'
  BY DEF Open, asks
<1>. QED  BY <1>1, KeptPlan

\* A message was sent, with which the queue goes on.
LEMMA SentPlan ==
    ASSUME Inv, PlanInv, NEW kind \in Kinds, NEW origin \in Tasks \cup {NoTask},
           NEW device \in Targets, Send(kind, origin, device), UNCHANGED <<engine, faults>>,
           \A u \in Tasks : entry'[u].repair = entry[u].repair
    PROVE  PlanInv'
<1>. SUFFICES ASSUME Untroubled'
              PROVE  Undisturbed' /\ (queue' > 0 /\ ~unshown' => \E t \in Tasks : Open(t)')
  BY DEF PlanInv
<1>. DEFINE a == Posted(kind, origin, device)
<1>1. asked \in 0 .. MaxTasks /\ MaxTasks \in Nat /\ ask \in [Tasks -> Ask]
  BY BoundAssumption DEF Inv, Shape, AsksOK
<1>2. asked < MaxTasks
  BY <1>1 DEF Send, Untroubled, asks
<1>3. /\ asked + 1 \in Tasks /\ asked' = asked + 1 /\ ask' = [ask EXCEPT ![asked + 1] = a]
  BY <1>1, <1>2 DEF Send, Tasks, Posted
<1>4. a.pc = "sent" /\ a.kind = kind /\ a.heard
  BY DEF Posted, NoAsk
<1>. HIDE DEF a
<1>5. /\ \A u \in Tasks \ {asked + 1} : ask'[u] = ask[u]
      /\ ask'[asked + 1] = a
  BY <1>1, <1>3
<1>6. ask[asked + 1].pc = "none"
  BY <1>1, <1>3 DEF Inv, Stored
<1>7. Untroubled
  <2>1. asked' \in {asked, asked + 1}
    BY <1>3
  <2>. QED  BY <1>5, <1>6, <2>1, UntroubledBefore
<1>8. Undisturbed
  BY <1>7 DEF PlanInv
<1>9. Undisturbed'
  <2>1. waiting \subseteq Tasks /\ waiting' = waiting
    BY DEF Inv, Shape, RestOK, engine
  <2>. QED  BY <1>4, <1>5, <1>6, <1>8, <2>1 DEF Undisturbed
<1>10. \E n \in Tasks : Open(n)'
  <2>1. PICK n \in Tasks : n = asked + 1
    BY <1>3
  <2>2. ask'[n].pc = "sent"
    BY <1>4, <1>5, <2>1
  <2>. QED  BY <2>2 DEF Open
<1>. QED  BY <1>9, <1>10

\* A repair ends it.
LEMMA HealedPlan ==
    ASSUME Inv, NEW kind \in Repairs, NEW t \in Tasks, SelfHeal(kind, t)
    PROVE  PlanInv'
<1>. DEFINE device == IF entry[t].device = Local THEN selected ELSE entry[t].device
            a == Posted(kind, t, device)
<1>1. asked \in 0 .. MaxTasks /\ MaxTasks \in Nat /\ ask \in [Tasks -> Ask]
  BY BoundAssumption DEF Inv, Shape, AsksOK
<1>2. Send(kind, t, device)
  BY DEF SelfHeal
<1>. HIDE DEF device
<1>3. CASE asked < MaxTasks
  <2>1. asked + 1 \in Tasks /\ ask' = [ask EXCEPT ![asked + 1] = a]
    BY <1>1, <1>2, <1>3 DEF Send, Tasks, Posted
  <2>2. a.pc = "sent" /\ a.kind = kind
    BY DEF Posted, NoAsk
  <2>. HIDE DEF a
  <2>3. PICK n \in Tasks : n = asked + 1
    BY <2>1
  <2>4. ask'[n].pc # "none" /\ ask'[n].kind \in Repairs
    BY <1>1, <2>1, <2>2, <2>3
  <2>. QED  BY <2>4 DEF PlanInv, Untroubled
<1>4. CASE ~(asked < MaxTasks)
  <2>1. asked' = asked
    BY <1>2, <1>4 DEF Send, asks
  <2>. QED  BY <1>4, <2>1 DEF PlanInv, Untroubled
<1>. QED  BY <1>3, <1>4

\* Where steps are pending the queue is resumed, and where none are nothing was open.
LEMMA ResumedPlan ==
    ASSUME Inv, PlanInv, NEW t \in Tasks, ResumeQueue(t), UNCHANGED <<engine, faults>>,
           \A u \in Tasks : entry'[u].repair = entry[u].repair,
           entry'[t].pending = entry[t].pending,
           \A u \in Tasks \ {t} : entry'[u] = entry[u] /\ watch'[u] = watch[u]
    PROVE  PlanInv'
<1>1. CASE entry[t].pending > 0
  <2>1. "continue" \in Kinds /\ selected \in Targets /\ t \in Tasks \cup {NoTask}
    BY DEF Kinds, Inv, Shape, RestOK
  <2>2. Send("continue", t, selected)
    BY <1>1 DEF ResumeQueue
  <2>. QED  BY <2>1, <2>2, SentPlan
<1>2. CASE ~(entry[t].pending > 0)
  <2>1. UNCHANGED asks
    BY <1>2 DEF ResumeQueue
  <2>2. \A u \in Tasks : Open(u) => Open(u)'
    BY <1>2, <2>1 DEF Open, asks
  <2>. QED  BY <2>1, <2>2, KeptPlan
<1>. QED  BY <1>1, <1>2

\* Marks change nothing else.
LEMMA MarkedKeeps ==
    ASSUME Shape, NEW t \in Tasks, NEW x \in BOOLEAN, NEW q \in BOOLEAN, NEW f \in BOOLEAN,
           entry' = [entry EXCEPT ![t] = Marked(entry[t], x, q, f)]
    PROVE  \A u \in Tasks : /\ entry'[u].repair = entry[u].repair
                            /\ entry'[u].pending = entry[u].pending
                            /\ entry'[u].shown = entry[u].shown
<1>1. entry \in [Tasks -> Entry] /\ entry[t] \in Entry
  BY DEF Shape, EntriesOK
<1>2. /\ Marked(entry[t], x, q, f).repair = entry[t].repair
      /\ Marked(entry[t], x, q, f).pending = entry[t].pending
      /\ Marked(entry[t], x, q, f).shown = entry[t].shown
  BY <1>1 DEF Marked, Entry
<1>. QED  BY <1>1, <1>2
-----------------------------------------------------------------------------
LEMMA PlanInit == Init => PlanInv
<1>. SUFFICES ASSUME Init PROVE PlanInv
  OBVIOUS
<1>1. queue = 0 /\ Undisturbed
  BY DEF Init, Undisturbed, NoAsk, NoEntry
<1>. QED  BY <1>1 DEF PlanInv

LEMMA CommandPlan ==
    ASSUME Inv, PlanInv, NEW kind \in {"command", "continue"}, Command(kind)
    PROVE  PlanInv'
<1>1. kind \in Kinds /\ NoTask \in Tasks \cup {NoTask} /\ selected \in Targets
  BY DEF Kinds, Inv, Shape, RestOK
<1>2. /\ Send(kind, NoTask, selected) /\ UNCHANGED <<engine, faults>> /\ entry' = entry
  BY DEF Command
<1>. QED  BY <1>1, <1>2, SentPlan

\* The steps that only change the page, an execution or the rows.
LEMMA QuietSteps ==
    ASSUME Inv, PlanInv,
           \/ \E d \in Targets : SelectDevice(d) \/ LoadDevices(d)
           \/ \E t \in Tasks : Approve(t) \/ RefuseExecution(t) \/ ExecuteLocally(t) \/ Enqueue(t)
           \/ \E t \in Tasks : \E i \in DOMAIN commands[t] : NodeReports(t, i)
           \/ UNCHANGED vars
    PROVE  PlanInv'
<1>1. UNCHANGED <<entry, watch, asks, engine>>
  BY DEF SelectDevice, LoadDevices, Approve, RefuseExecution, ExecuteLocally, Enqueue,
         NodeReports, vars
<1>2. faults' = 0 => faults = 0
  <2>1. faults \in Nat
    BY BoundAssumption DEF Inv, Shape, RestOK
  <2>2. faults' = faults \/ faults' = faults + 1
    BY DEF SelectDevice, LoadDevices, Approve, RefuseExecution, ExecuteLocally, Enqueue,
           NodeReports, vars, Fault
  <2>. QED  BY <2>1, <2>2
<1>. QED  BY <1>1, <1>2, QuietPlan

LEMMA CreateTaskPlan ==
    ASSUME Inv, PlanInv, NEW t \in Tasks, CreateTask(t)
    PROVE  PlanInv'
<1>. SUFFICES ASSUME Untroubled'
              PROVE  Undisturbed' /\ (queue' > 0 /\ ~unshown' => \E u \in Tasks : Open(u)')
  BY DEF PlanInv
<1>1. /\ ask' = [ask EXCEPT ![t] = WithPc(ask[t], "analyzing")]
      /\ waiting' = waiting \cup {t}
      /\ UNCHANGED <<entry, watch, asked, queue, unshown, faults>> /\ ask[t].pc = "sent"
  BY DEF CreateTask, WithPc
<1>2. ask \in [Tasks -> Ask] /\ ask[t] \in Ask
  BY DEF Inv, Shape, AsksOK
<1>3. /\ ask'[t].pc = "analyzing" /\ ask'[t].kind = ask[t].kind /\ ask'[t].heard = ask[t].heard
      /\ \A u \in Tasks \ {t} : ask'[u] = ask[u]
  BY <1>1, <1>2 DEF WithPc, Ask
<1>4. Untroubled
  BY <1>1, <1>3, UntroubledBefore
<1>5. Undisturbed'
  BY <1>1, <1>3, <1>4 DEF PlanInv, Undisturbed, Inv, Shape, RestOK
<1>6. Open(t)'
  BY <1>3 DEF Open
<1>. QED  BY <1>5, <1>6

\* What the engine leaves in the queue is pending for the proposal it answers with.
LEMMA AnalyzePlan ==
    ASSUME Inv, PlanInv, NEW t \in Tasks, Analyze(t)
    PROVE  PlanInv'
<1>. SUFFICES ASSUME Untroubled'
              PROVE  Undisturbed' /\ (queue' > 0 /\ ~unshown' => \E u \in Tasks : Open(u)')
  BY DEF PlanInv
<1>1. PICK todo \in Decomposed(ask[t].kind), left \in 0 .. MaxPlan,
           script \in BOOLEAN, kept \in BOOLEAN :
        /\ script \/ left = 0
        /\ unshown' = (script /\ ~kept)
        /\ queue' = left /\ waiting' = waiting \ {t}
        /\ ask' = IF ask[t].pc # "analyzing" THEN ask
                  ELSE [ask EXCEPT ![t].pc = "answered", ![t].script = kept,
                                   ![t].pending = left]
        /\ UNCHANGED <<entry, watch, asked, faults>>
  BY DEF Analyze, Invocation, Normalized
<1>2. ask \in [Tasks -> Ask] /\ ask[t] \in Ask /\ t \in waiting
  BY DEF Inv, Shape, AsksOK, Analyze
<1>3. ASSUME ask[t].pc = "analyzing"
      PROVE  /\ ask'[t].pc = "answered" /\ ask'[t].kind = ask[t].kind
             /\ ask'[t].heard = ask[t].heard /\ ask'[t].script = kept /\ ask'[t].pending = left
             /\ \A u \in Tasks \ {t} : ask'[u] = ask[u]
  <2>1. ask' = [ask EXCEPT ![t] = Served(ask[t], kept, left)]
    BY <1>1, <1>3 DEF Served
  <2>2. /\ Served(ask[t], kept, left).pc = "answered"
        /\ Served(ask[t], kept, left).kind = ask[t].kind
        /\ Served(ask[t], kept, left).heard = ask[t].heard
        /\ Served(ask[t], kept, left).script = kept
        /\ Served(ask[t], kept, left).pending = left
    BY <1>2 DEF Served, Ask
  <2>. QED  BY <1>2, <2>1, <2>2
<1>4. Untroubled
  <2>1. CASE ask[t].pc = "analyzing"
    BY <1>1, <1>3, <2>1, UntroubledBefore
  <2>2. CASE ask[t].pc # "analyzing"
    BY <1>1, <2>2, UntroubledBefore
  <2>. QED  BY <2>1, <2>2
<1>5. Undisturbed /\ ask[t].pc = "analyzing"
  BY <1>2, <1>4 DEF PlanInv, Undisturbed
<1>6. Undisturbed'
  <2>1. /\ ask'[t].heard = ask[t].heard
        /\ \A u \in Tasks \ {t} : ask'[u] = ask[u]
        /\ waiting' = waiting \ {t} /\ entry' = entry
    BY <1>1, <1>3, <1>5
  <2>2. /\ \A u \in waiting : ask[u].pc = "analyzing"
        /\ \A u \in Tasks : ask[u].heard /\ ~entry[u].repair
        /\ waiting \subseteq Tasks
    BY <1>5 DEF Undisturbed, Inv, Shape, RestOK
  <2>3. \A u \in waiting' : ask'[u].pc = "analyzing"
    BY <2>1, <2>2
  <2>4. \A u \in Tasks : ask'[u].heard /\ ~entry'[u].repair
    BY <2>1, <2>2
  <2>. QED  BY <2>3, <2>4 DEF Undisturbed
<1>7. ASSUME queue' > 0, ~unshown' PROVE Open(t)'
  <2>1. left > 0 /\ kept
    BY <1>1, <1>7
  <2>. QED  BY <1>3, <1>5, <2>1 DEF Open
<1>. QED  BY <1>6, <1>7

\* What was pending with the answer is pending for the entry.
LEMMA ShowsPlan ==
    ASSUME Inv, PlanInv, NEW t \in Tasks, NEW proposal \in BOOLEAN, Shows(t, proposal),
           ask[t].pc \in {"answered", "refused"}, UNCHANGED faults,
           ask[t].pc = "answered" /\ ask[t].script => proposal
    PROVE  PlanInv'
<1>. SUFFICES ASSUME Untroubled'
              PROVE  Undisturbed' /\ (queue' > 0 /\ ~unshown' => \E u \in Tasks : Open(u)')
  BY DEF PlanInv
<1>1. /\ ask' = [ask EXCEPT ![t] = Answered(t)]
      /\ entry' = IF ask[t].heard /\ proposal THEN [entry EXCEPT ![t] = NewEntry(t)] ELSE entry
      /\ UNCHANGED <<watch, asked, waiting, queue, unshown>>
  BY DEF Shows, engine
<1>2. ask \in [Tasks -> Ask] /\ ask[t] \in Ask /\ entry \in [Tasks -> Entry]
  BY DEF Inv, Shape, AsksOK, EntriesOK
<1>3. /\ ask'[t].pc = "done" /\ ask'[t].heard
      /\ ask[t].kind \in Repairs => ask'[t].kind = ask[t].kind
      /\ \A u \in Tasks \ {t} : ask'[u] = ask[u]
  <2>1. /\ Answered(t).pc = "done" /\ Answered(t).heard
        /\ Answered(t).kind = IF ask[t].origin = NoTask THEN "command" ELSE ask[t].kind
    BY <1>2 DEF Answered, Ask
  <2>2. ask[t].kind \in Repairs => ask[t].origin # NoTask
    BY DEF Inv, Shape, AsksOK, Tasks, NoTask
  <2>. QED  BY <1>1, <1>2, <2>1, <2>2
<1>4. Untroubled
  BY <1>1, <1>3, UntroubledBefore
<1>5. Undisturbed /\ ask[t].kind \notin Repairs /\ ask[t].heard /\ t \notin waiting
  BY <1>4 DEF PlanInv, Undisturbed, Untroubled
<1>6. /\ ~NewEntry(t).repair /\ NewEntry(t).shown /\ ~NewEntry(t).executed
      /\ NewEntry(t).pending = ask[t].pending
  BY <1>5 DEF NewEntry, NoEntry, Repairs
<1>7. Undisturbed'
  <2>1. \A u \in Tasks : entry'[u] = entry[u] \/ entry'[u] = NewEntry(t)
    BY <1>1, <1>2
  <2>2. waiting \subseteq Tasks
    BY DEF Inv, Shape, RestOK
  <2>. QED  BY <1>1, <1>3, <1>5, <1>6, <2>1, <2>2 DEF Undisturbed
<1>8. \A u \in Tasks \ {t} : Open(u) => Open(u)'
  <2>1. \A u \in Tasks \ {t} : entry'[u] = entry[u]
    BY <1>1, <1>2
  <2>. QED  BY <1>1, <1>3, <2>1 DEF Open
<1>9. ASSUME Open(t) PROVE Open(t)'
  <2>1. ~entry[t].shown
    BY DEF Inv, Stored
  <2>2. ask[t].pc = "answered" /\ ask[t].script /\ ask[t].pending > 0
    BY <1>9, <2>1 DEF Open
  <2>3. entry'[t] = NewEntry(t)
    BY <1>1, <1>2, <1>5, <2>2
  <2>. QED  BY <1>6, <2>2, <2>3 DEF Open
<1>. QED  BY <1>1, <1>4, <1>7, <1>8, <1>9 DEF PlanInv

\* The answer of executeTask.
LEMMA ExecuteResponsePlan ==
    ASSUME Inv, PlanInv, NEW t \in Tasks, ExecuteResponse(t)
    PROVE  PlanInv'
<1>1. entry[t] \in Entry /\ entry[t].queued \in BOOLEAN /\ entry[t].failed \in BOOLEAN
  BY DEF Inv, Shape, EntriesOK, Entry
<1>2. UNCHANGED <<engine, faults>>
  BY DEF ExecuteResponse
<1>3. CASE ExecuteSucceeded(t)
  <2>1. entry' = [entry EXCEPT ![t] = Marked(entry[t], TRUE, entry[t].queued, entry[t].failed)]
    BY <1>1, <1>3, MarkedFields DEF ExecuteSucceeded
  <2>2. /\ \A u \in Tasks : /\ entry'[u].repair = entry[u].repair
                               /\ entry'[u].pending = entry[u].pending
        /\ \A u \in Tasks \ {t} : entry'[u] = entry[u]
    BY <1>1, <2>1, MarkedKeeps, MarkedShape DEF Inv
  <2>. QED  BY <1>2, <1>3, <2>2, ResumedPlan DEF ExecuteSucceeded
<1>4. CASE ExecuteQueued(t)
  <2>1. entry' = [entry EXCEPT ![t] = Marked(entry[t], TRUE, TRUE, entry[t].failed)]
    BY <1>1, <1>4, MarkedFields DEF ExecuteQueued
  <2>2. /\ \A u \in Tasks : /\ entry'[u].repair = entry[u].repair
                            /\ entry'[u].pending = entry[u].pending
                            /\ entry'[u].shown = entry[u].shown
        /\ entry'[t].queued /\ \A u \in Tasks \ {t} : entry'[u] = entry[u]
    BY <1>1, <2>1, MarkedKeeps, MarkedShape DEF Inv
  <2>3. \A u \in Tasks \ {t} : watch'[u] = watch[u]
    BY <1>4 DEF ExecuteQueued, Inv, Shape, EntriesOK
  <2>4. UNCHANGED asks
    BY <1>4 DEF ExecuteQueued
  <2>5. \A u \in Tasks : Open(u) => Open(u)'
    BY <2>2, <2>3, <2>4 DEF Open, asks
  <2>. QED  BY <1>2, <2>2, <2>4, <2>5, KeptPlan
<1>5. CASE ExecuteFailed(t)
  <2>1. "EXEC_FAILED" \in Repairs
    BY DEF Repairs
  <2>. QED  BY <1>5, <2>1, HealedPlan DEF ExecuteFailed
<1>6. CASE ExecuteError(t)
  BY <1>2, <1>6, QuietPlan DEF ExecuteError
<1>. QED  BY <1>3, <1>4, <1>5, <1>6 DEF ExecuteResponse

\* The answers of the polls.
LEMMA PollPlan ==
    ASSUME Inv, PlanInv, NEW t \in Tasks, Poll(t)
    PROVE  PlanInv'
<1>1. /\ entry[t] \in Entry /\ entry[t].executed \in BOOLEAN /\ entry[t].failed \in BOOLEAN
      /\ watch[t] = "command"
  BY DEF Inv, Shape, EntriesOK, Entry, Poll
<1>2. UNCHANGED <<engine, faults>>
  BY DEF Poll
<1>3. CASE PollGivesUp(t)
  <2>1. UNCHANGED <<entry, asks>> /\ \A u \in Tasks \ {t} : watch'[u] = watch[u]
    BY <1>3 DEF PollGivesUp, Inv, Shape, EntriesOK
  <2>2. \A u \in Tasks : Open(u) => Open(u)'
    BY <1>1, <2>1 DEF Open, asks
  <2>. QED  BY <1>2, <2>1, <2>2, KeptPlan
<1>4. CASE PollCompleted(t)
  <2>1. entry' = [entry EXCEPT ![t] = Marked(entry[t], entry[t].executed, FALSE, entry[t].failed)]
    BY <1>1, <1>4, MarkedFields DEF PollCompleted
  <2>2. /\ \A u \in Tasks : /\ entry'[u].repair = entry[u].repair
                            /\ entry'[u].pending = entry[u].pending
                            /\ entry'[u].shown = entry[u].shown
        /\ \A u \in Tasks \ {t} : entry'[u] = entry[u]
    BY <1>1, <2>1, MarkedKeeps, MarkedShape DEF Inv
  <2>3. CASE entry[t].device = Local
    <3>1. ResumeQueue(t) /\ \A u \in Tasks \ {t} : watch'[u] = watch[u]
      BY <1>4, <2>3 DEF PollCompleted, Inv, Shape, EntriesOK
    <3>. QED  BY <1>2, <2>2, <3>1, ResumedPlan
  <2>4. CASE entry[t].device # Local
    <3>1. /\ UNCHANGED asks /\ watch'[t] = "context"
          /\ \A u \in Tasks \ {t} : watch'[u] = watch[u]
      BY <1>4, <2>4 DEF PollCompleted, Inv, Shape, EntriesOK
    <3>2. \A u \in Tasks : Open(u) => Open(u)'
      BY <2>2, <3>1 DEF Open, asks
    <3>. QED  BY <1>2, <2>2, <3>1, <3>2, KeptPlan
  <2>. QED  BY <2>3, <2>4
<1>5. CASE PollFailed(t)
  <2>1. "EXEC_FAILED" \in Repairs
    BY DEF Repairs
  <2>. QED  BY <1>5, <2>1, HealedPlan DEF PollFailed
<1>. QED  BY <1>3, <1>4, <1>5 DEF Poll

LEMMA ContextPlan ==
    ASSUME Inv, PlanInv, NEW t \in Tasks, PostCommandContext(t)
    PROVE  PlanInv'
<1>1. UNCHANGED <<entry, engine, faults>>
  BY DEF PostCommandContext
<1>2. CASE watch' = [watch EXCEPT ![t] = "verification"] /\ UNCHANGED asks
  <2>1. watch'[t] = "verification" /\ \A u \in Tasks \ {t} : watch'[u] = watch[u]
    BY <1>2 DEF Inv, Shape, EntriesOK
  <2>2. \A u \in Tasks : Open(u) => Open(u)'
    BY <1>1, <1>2, <2>1 DEF Open, asks
  <2>. QED  BY <1>1, <1>2, <2>2, KeptPlan
<1>3. CASE watch' = [watch EXCEPT ![t] = "nothing"] /\ ResumeQueue(t)
  <2>1. \A u \in Tasks \ {t} : watch'[u] = watch[u]
    BY <1>3 DEF Inv, Shape, EntriesOK
  <2>. QED  BY <1>1, <1>3, <2>1, ResumedPlan
<1>. QED  BY <1>2, <1>3 DEF PostCommandContext

LEMMA VerificationPlan ==
    ASSUME Inv, PlanInv, NEW t \in Tasks, Verification(t)
    PROVE  PlanInv'
<1>1. UNCHANGED <<engine, faults>> /\ \A u \in Tasks \ {t} : watch'[u] = watch[u]
  BY DEF Verification, Inv, Shape, EntriesOK
<1>2. CASE VerifiedOrUnknown(t)
  BY <1>1, <1>2, ResumedPlan DEF VerifiedOrUnknown
<1>3. CASE VerificationFails(t) /\ entry[t].repair
  <2>1. UNCHANGED asks
    BY <1>3 DEF VerificationFails
  <2>. SUFFICES ASSUME Untroubled' PROVE FALSE
    BY DEF PlanInv
  <2>2. Untroubled
    BY <1>1, <2>1, UntroubledBefore DEF asks
  <2>. QED  BY <1>3, <2>2 DEF PlanInv, Undisturbed
<1>4. CASE VerificationFails(t) /\ ~entry[t].repair
  <2>1. "VERIFICATION" \in Repairs
    BY DEF Repairs
  <2>. QED  BY <1>4, <2>1, HealedPlan DEF VerificationFails
<1>. QED  BY <1>2, <1>3, <1>4 DEF Verification

\* Every step keeps something open while the queue has steps left.
LEMMA PlanStep == Inv /\ PlanInv /\ [Next]_vars => PlanInv'
<1> SUFFICES ASSUME Inv, PlanInv, [Next]_vars PROVE PlanInv'
  OBVIOUS
<1>1. CASE UserNext
  <2>1. \A d \in Devices \cup {selected} : d \in Targets
    BY DEF Targets, Inv, Shape, RestOK
  <2>. QED  BY <1>1, <2>1, CommandPlan, QuietSteps DEF UserNext
<1>2. ASSUME NEW t \in Tasks, AskNext(t) PROVE PlanInv'
  <2>1. ASSUME Respond(t) PROVE PlanInv'
    <3>1. ask[t].script \in BOOLEAN
      BY DEF Inv, Shape, AsksOK, Ask
    <3>. QED  BY <2>1, <3>1, ShowsPlan DEF Respond
  <2>2. ASSUME RespondError(t) PROVE PlanInv'
    BY <2>2, ShowsPlan DEF RespondError
  <2>. QED  BY <1>2, <2>1, <2>2, CreateTaskPlan, AnalyzePlan DEF AskNext
<1>3. ASSUME NEW t \in Tasks, RunNext(t) PROVE PlanInv'
  BY <1>3, QuietSteps, ExecuteResponsePlan DEF RunNext
<1>4. ASSUME NEW t \in Tasks, WatchNext(t) PROVE PlanInv'
  BY <1>4, PollPlan, ContextPlan, VerificationPlan DEF WatchNext
<1>5. ASSUME NEW t \in Tasks, FaultNext(t) PROVE PlanInv'
  <2>1. Fault
    BY <1>5 DEF FaultNext, CreateFails, AnalyzeFails, Fallback, RespondUnsaved, AskLost,
                ExecutionLost, PollLost
  <2>. QED  BY <2>1, FaultPlan
<1>6. ASSUME NEW t \in Tasks, NEW i \in DOMAIN commands[t], NodeReports(t, i) PROVE PlanInv'
  BY <1>6, QuietSteps
<1>7. CASE UNCHANGED vars
  BY <1>7, QuietSteps
<1>. QED  BY <1>1, <1>2, <1>3, <1>4, <1>5, <1>6, <1>7 DEF Next

\* When the terminal rests with every proposal done, the engine has no step of the plan
\* left, for plans and sessions of any length, as long as nothing failed and the adapter
\* did not drop the script that the engine halted on last: whatever may resume the queue
\* is a message or an entry that is not done with.
THEOREM PlansAreFinished == Spec => []PlanIsFinished
<1>1. Spec => []PlanInv
  BY PlanInit, PlanStep, Invariance, PTL DEF Spec
<1>2. Inv /\ PlanInv => PlanIsFinished
  <2>. SUFFICES ASSUME Inv, PlanInv, AtRest, Smooth, ~unshown PROVE queue = 0
    BY DEF PlanIsFinished
  <2>1. Untroubled
    BY DEF Smooth, Untroubled
  <2>2. \A t \in Tasks : ~Open(t)
    BY DEF AtRest, Open
  <2>3. ~(queue > 0) /\ queue \in Nat
    BY <2>1, <2>2, BoundAssumption DEF PlanInv, Inv, Shape, RestOK
  <2>. QED  BY <2>3
<1>. QED  BY <1>1, <1>2, Invariance, PTL
=============================================================================
