--------------------------- MODULE DesktopActions ---------------------------
(***************************************************************************)
(* Actions on the desktop of a device: the node's snapshots of the screen, *)
(* kept by the backend; the engine's proposal of a script by the latest    *)
(* snapshot and the conversation; the command that the node runs once the  *)
(* user approved, which on Windows brings a program to the front before it *)
(* clicks or types; the snapshot after it; and the terminal that waits for *)
(* this one, has it verified, and asks for a repair.  The user of the      *)
(* device changes the screen between any two steps, and what the node      *)
(* submits may be lost.                                                    *)
(*                                                                         *)
(* A command that comes out of no pattern is left to the language model,   *)
(* and not followed here.                                                  *)
(***************************************************************************)
EXTENDS ScriptProposals, FiniteSets

CONSTANTS
    Systems,      \* \subseteq BOOLEAN: whether the device runs Windows
    Screens,      \* [front, at]: the active program, where the controls are
    Nameless,     \* the shots at which the name of the program may not be readable
    Hidden,       \* the position of a control that is not to be seen
    ScreenWidth, ImageWidth,  \* of the screen, and of an image at most
    Asked,        \* the commands that a user may give
    Repaired,     \* how a repair prompt, which quotes a script, may be read
    Keep,         \* MAX_SNAPSHOTS_PER_DEVICE
    MaxAttempts,  \* of the terminal, for the status and for the snapshot
    MaxAsks, MaxChanges, MaxShots, MaxCommands  \* bounds of the model

ASSUME DesktopAssumption ==
    /\ Systems \subseteq BOOLEAN
    /\ {ScreenWidth, ImageWidth, Keep, MaxAttempts} \subseteq Nat \ {0}
    /\ {MaxAsks, MaxChanges, MaxShots, MaxCommands} \subseteq Nat
ASSUME CommandsAssumption ==  \* a point that a command names is seen in no image
    \A cmd \in Asked \cup Repaired :
        cmd.points # <<>> => Head(cmd.points).seen = Written
ASSUME RepairsAssumption ==  \* _is_repair_feedback: a repair prompt has this intent
    \A cmd \in Repaired : cmd.intent = "UNKNOWN"

VARIABLES
    windows,    \* the system of the device
    screen,     \* what it shows
    changes,    \* how often that changed: the moment
    node,       \* the command it works on, and how far it is
    commands,   \* the rows of the queue, the oldest first
    snapshots,  \* the rows of device_context_snapshots, the oldest first
    shots,      \* how many were taken
    talk,       \* the messages of the conversation
    terminal,   \* the proposal shown, and what the terminal waits for
    history     \* the last click and the last verdict, and the prompts so far

vars == <<windows, screen, changes, node, commands, snapshots, shots, talk, terminal,
          history>>
device == <<windows, screen, changes, node>>

Commands == DOMAIN commands
NoTask == 0
NoShot == [no |-> 0, front |-> NoName, image |-> <<>>, moment |-> 0, task |-> NoTask, ran |-> 0]
Idle == [pc |-> "idle", task |-> NoTask, cmd |-> [app |-> NoName, label |-> {}, points |-> <<>>, mentioned |-> NoName],
         proposal |-> NoProposal, risk |-> "Low", shot |-> NoShot, seen |-> <<>>,
         attempt |-> 0, repair |-> FALSE]
NoHistory == [click |-> [done |-> FALSE, hit |-> {}, label |-> {}, current |-> FALSE],
              judged |-> [task |-> NoTask, ran |-> 0], asks |-> 0]

\* Mutant of InImage: the image begins before the first screen.
InImageOfAll(at) == IF at # Hidden THEN at + 1 ELSE at

\* _screenshot: an image that is too wide is scaled down.
InImage(at) ==
    IF at # Hidden /\ ScreenWidth > ImageWidth THEN (at * ImageWidth) \div ScreenWidth
    ELSE at

Numbers == 0 .. MaxShots
Shots ==
    [no : Numbers, front : {NoName} \cup {s.front : s \in Screens},
     image : {[c \in DOMAIN s.at |-> InImage(s.at[c])] : s \in Screens},
     moment : Nat, task : 0 .. MaxAsks, ran : 0 .. MaxCommands]

TypeOK ==
    /\ windows \in Systems /\ screen \in Screens /\ changes \in Nat
    /\ node \in [pc : {"free", "running", "ran", "reported"}, no : 0 .. MaxCommands, ok : BOOLEAN]
    /\ \A c \in Commands : /\ commands[c].task \in 1 .. MaxAsks
                           /\ commands[c].stage \in {"queued", "done", "failed"}
    /\ Len(commands) <= MaxCommands
    /\ snapshots \in Seq(Shots) /\ Len(snapshots) <= Keep
    /\ shots \in Numbers
    /\ terminal.pc \in {"idle", "shown", "status", "context", "verification"}
    /\ terminal.attempt \in 0 .. MaxAttempts /\ terminal.risk \in {"Low", "Medium", "High"}
    /\ history.asks \in 0 .. MaxAsks

Init ==
    /\ windows \in Systems
    /\ screen \in Screens
    /\ changes = 1
    /\ node = [pc |-> "free", no |-> 0, ok |-> TRUE]
    /\ commands = <<>>
    /\ snapshots = <<>>
    /\ shots = 0
    /\ talk = <<>>
    /\ terminal = Idle
    /\ history = NoHistory
-----------------------------------------------------------------------------
(* The node and the table of snapshots.                                    *)

Ran == Cardinality({c \in Commands : commands[c].stage # "queued"})

\* collect_desktop_context: the active program is known on Windows only, and there
\* not always (_process_name catches whatever comes).
Captures(task) ==
    {[no |-> shots + 1, front |-> front,
      image |-> [c \in DOMAIN screen.at |-> InImage(screen.at[c])],
      moment |-> changes, task |-> task,
      ran |-> IF node.pc = "free" THEN Ran ELSE node.no] :
        front \in IF windows /\ shots + 1 \notin Nameless THEN {screen.front}
                 ELSE {NoName} \cup (IF windows THEN {screen.front} ELSE {})}

\* Mutant of Recorded: the limit counts the one that is to come.
RecordedOneLess(shot) ==
    LET all == Append(snapshots, shot)
    IN  IF Len(all) >= Keep THEN SubSeq(all, Len(all) - Keep + 2, Len(all)) ELSE all

\* recordSnapshot and deleteOlderThanLimit, one transaction.
Recorded(shot) ==
    LET all == Append(snapshots, shot)
    IN  IF Len(all) > Keep THEN SubSeq(all, Len(all) - Keep + 1, Len(all)) ELSE all

Submit(task) ==
    /\ shots < MaxShots
    /\ shots' = shots + 1
    /\ \E shot \in Captures(task) : snapshots' = Recorded(shot)

Lost == UNCHANGED <<shots, snapshots>>

PeriodicContext ==
    /\ node.pc = "free"
    /\ Submit(NoTask)
    /\ UNCHANGED <<device, commands, talk, terminal, history>>

\* The oldest queued command is claimed.
NextQueued(no) ==
    /\ commands[no].stage = "queued"
    /\ \A c \in Commands : c < no => commands[c].stage # "queued"

\* What the screen shows next, of which it may be the same.
ShowsOneOf(screens) ==
    /\ screen' \in screens
    /\ changes' = IF screen' = screen THEN changes ELSE changes + 1

\* _windows_focus_process_script: some window of the program comes to the front, if it
\* is not there, and the script goes on after 300 ms.
BringsToFront(name) ==
    ShowsOneOf(IF name = NoName THEN {screen} ELSE {s \in Screens : s.front = name})

\* A script begins, or fails before it has done anything: its program is not there
\* or does not come to the front.
StartScript(no) ==
    /\ node.pc = "free"
    /\ NextQueued(no)
    /\ \/ /\ BringsToFront(commands[no].proposal.focus)
          /\ node' = [pc |-> "running", no |-> no, ok |-> TRUE]
       \/ /\ node' = [pc |-> "ran", no |-> no, ok |-> FALSE]
          /\ UNCHANGED <<screen, changes>>
    /\ UNCHANGED <<windows, commands, snapshots, shots, talk, terminal, history>>

\* A click falls on the screen as it is by then, and fails outside of it.
Point(proposal) == Head(proposal.points)
Hits(at) == {c \in DOMAIN screen.at : screen.at[c] = at}
Clicked(entry) ==
    IF entry.proposal.act # "click" \/ entry.proposal.points = <<>> THEN history.click
    ELSE [done |-> TRUE, hit |-> Hits(Point(entry.proposal).at), label |-> entry.label,
          current |-> Point(entry.proposal).seen = changes]

MayWork(proposal) ==
    proposal.points # <<>> => Point(proposal).at < ScreenWidth

\* The script does to the screen what it does, or fails.
EndScript(ok) ==
    /\ node.pc = "running"
    /\ ok => MayWork(commands[node.no].proposal)
    /\ node' = [node EXCEPT !.pc = "ran", !.ok = ok]
    /\ IF ok
       THEN /\ history' = [history EXCEPT !.click = Clicked(commands[node.no])]
            /\ ShowsOneOf(Screens)
       ELSE UNCHANGED <<screen, changes, history>>
    /\ UNCHANGED <<windows, commands, snapshots, shots, talk, terminal>>

\* The result is sent before the snapshot is taken.
Report ==
    /\ node.pc = "ran"
    /\ node' = [node EXCEPT !.pc = "reported"]
    /\ commands' = [commands EXCEPT ![node.no].stage = IF node.ok THEN "done" ELSE "failed"]
    /\ UNCHANGED <<windows, screen, changes, snapshots, shots, talk, terminal, history>>

PostContext ==
    /\ node.pc = "reported"
    /\ node' = [node EXCEPT !.pc = "free"]
    /\ Submit(commands[node.no].task) \/ Lost
    /\ UNCHANGED <<windows, screen, changes, commands, talk, terminal, history>>

ScreenChanges ==
    /\ changes < MaxChanges
    /\ ShowsOneOf(Screens \ {screen})
    /\ UNCHANGED <<windows, node, commands, snapshots, shots, talk, terminal, history>>
-----------------------------------------------------------------------------
(* Backend and engine: an analysis.                                        *)

LatestShot == IF snapshots = <<>> THEN NoShot ELSE Last(snapshots)

\* prepare_device_context_for_graph: the targets of a summary, in any order, or
\* none if there is no image or the model gives nothing.
Summaries(shot) ==
    LET visible == {c \in DOMAIN shot.image : shot.image[c] # Hidden}
        Target(c) == Sighting(c, shot.image[c], shot.moment)
        Orders == {o \in [1 .. Cardinality(visible) -> visible] : IsInjective(o)}
    IN  { <<>> } \cup {[i \in DOMAIN order |-> Target(order[i])] : order \in Orders}

\* What comes back for a prompt: it is a message, and so is the answer to it.
Analysis(prompt, cmd, repair) ==
    \E targets \in Summaries(LatestShot) :
        LET before == Append(talk, prompt)
            proposal == Propose(cmd, WithScreen(before, LatestShot.front, targets), windows)
        IN  /\ talk' = before \o (IF proposal.act = "none" THEN <<>>
                                  ELSE <<Explained(proposal)>>)
            /\ terminal' = IF proposal.act = "none" THEN Idle
                           ELSE [Idle EXCEPT !.pc = "shown", !.task = history.asks + 1,
                                    !.cmd = cmd, !.proposal = proposal,
                                    !.risk = ShownRisk(proposal, cmd.intent, windows),
                                    !.shot = LatestShot, !.seen = targets,
                                    !.repair = repair]

Counting(h) == [h EXCEPT !.asks = IF @ < MaxAsks THEN @ + 1 ELSE @]

\* A user asks for a new step.
Ask(cmd) ==
    /\ terminal.pc = "idle"
    /\ history.asks < MaxAsks
    /\ Analysis(Message(<<>>, IF cmd.file = NoName THEN <<>> ELSE <<cmd.file>>, <<>>),
                cmd, FALSE)
    /\ history' = Counting(history)
    /\ UNCHANGED <<device, commands, snapshots, shots>>

\* executeTask for the device; a second tab may approve once more (a task that is
\* in progress is not refused).
Enqueue(task) ==
    /\ Len(commands) < MaxCommands
    /\ commands' = Append(commands, [task |-> task, proposal |-> terminal.proposal,
                                     label |-> terminal.cmd.label, stage |-> "queued"])

Approve ==
    /\ terminal.pc = "shown"
    /\ Enqueue(terminal.task)
    /\ terminal' = [terminal EXCEPT !.pc = "status", !.shot = NoShot, !.seen = <<>>]
    /\ UNCHANGED <<device, snapshots, shots, talk, history>>

ApproveElsewhere ==
    /\ terminal.pc = "status"
    /\ \A c \in Commands : commands[c].task = terminal.task => commands[c].stage = "queued"
    /\ Enqueue(terminal.task)
    /\ UNCHANGED <<device, snapshots, shots, talk, terminal, history>>
-----------------------------------------------------------------------------
(* The terminal.                                                           *)

TaskCommands == {c \in Commands : commands[c].task = terminal.task}
Status == commands[CHOOSE c \in TaskCommands : \A b \in TaskCommands : b <= c].stage

\* A prompt that quotes the script and, after a verification, the summary.  (The
\* bound of the model on the prompts ends it.)
AskForRepair(targets, verification) ==
    /\ IF history.asks < MaxAsks
       THEN \E cmd \in Repaired :
              Analysis(Quoted(terminal.proposal, targets), cmd, verification)
       ELSE terminal' = Idle /\ UNCHANGED talk
    /\ UNCHANGED <<device, commands, snapshots, shots>>

StayWith(next) ==
    /\ terminal' = next
    /\ UNCHANGED <<device, commands, snapshots, shots, talk, history>>

Again(pc) ==
    StayWith(IF terminal.attempt + 1 < MaxAttempts
             THEN [terminal EXCEPT !.pc = pc, !.attempt = @ + 1] ELSE Idle)

\* pollRemoteCommandStatus
PollStatus ==
    /\ terminal.pc = "status"
    /\ \/ Status = "queued" /\ Again("status")
       \/ Status = "done" /\ StayWith([terminal EXCEPT !.pc = "context", !.attempt = 0])
       \/ /\ Status = "failed"
          /\ AskForRepair(<<>>, FALSE)
          /\ history' = Counting(history)

\* findLatestPostCommandContext: the latest of the task, of whichever command.
OfTask(task) == {i \in DOMAIN snapshots : snapshots[i].task = task}

\* Mutant of PostCommandContext: the latest snapshot of the device.
LatestContext(task) == IF snapshots = <<>> THEN {} ELSE {Last(snapshots)}

PostCommandContext(task) ==
    {snapshots[i] : i \in {n \in OfTask(task) : \A m \in OfTask(task) : m <= n}}

\* waitForPostCommandContext
WaitForContext ==
    /\ terminal.pc = "context"
    /\ \/ PostCommandContext(terminal.task) = {} /\ Again("context")
       \/ \E shot \in PostCommandContext(terminal.task) :
            StayWith([terminal EXCEPT !.pc = "verification", !.shot = shot])

\* verify_action_outcome: an error of the latest command fails, then the summary's
\* words count.  The backend looks for command and snapshot once more.
Verdicts(stage, cues) ==
    IF stage = "failed" THEN "failed"
    ELSE CASE cues = "failure" -> "failed" [] cues = "success" -> "verified"
           [] OTHER -> "uncertain"

Verify ==
    /\ terminal.pc = "verification"
    /\ \/ PostCommandContext(terminal.task) = {} /\ StayWith(Idle)
       \/ \E shot \in PostCommandContext(terminal.task), cues \in {"failure", "success", "none"} :
          \E targets \in Summaries(shot) :
            LET verdict == Verdicts(Status, cues)
                judged == [history EXCEPT !.judged = [task |-> terminal.task, ran |-> shot.ran]]
            IN  IF verdict = "verified" \/ terminal.repair
                THEN /\ terminal' = Idle
                     /\ history' = judged
                     /\ UNCHANGED <<device, commands, snapshots, shots, talk>>
                ELSE /\ AskForRepair(targets, TRUE)
                     /\ history' = Counting(judged)

\* No answer, or the answer of a failure.
RequestFails ==
    /\ terminal.pc \in {"status", "context", "verification"}
    /\ StayWith(Idle)
-----------------------------------------------------------------------------
Terminal == PollStatus \/ WaitForContext \/ Verify
Node ==
    \/ PeriodicContext
    \/ \E no \in Commands : StartScript(no)
    \/ \E ok \in BOOLEAN : EndScript(ok)
    \/ Report \/ PostContext
Users == (\E cmd \in Asked : Ask(cmd)) \/ Approve \/ ApproveElsewhere
Next == Terminal \/ Node \/ Users \/ ScreenChanges \/ RequestFails

Spec == Init /\ [][Next]_vars
-----------------------------------------------------------------------------
Shown == terminal.pc = "shown"
Does == terminal.proposal.act

\* Where a command names no application (script_policy.py, "open it again"), it is
\* the one in front on the latest snapshot that is meant on Windows, whatever
\* the conversation was about before; and input goes to this one as well.
ReferenceIsOnScreen ==
    Shown /\ windows /\ Usable(terminal.shot.front) =>
        /\ /\ Does \in {"open", "close"}
           /\ ~Usable(terminal.cmd.app) /\ ~Usable(terminal.cmd.mentioned)
           => terminal.proposal.on = terminal.shot.front
        /\ Does \in {"type", "click"} => terminal.proposal.focus = terminal.shot.front

\* A control that is seen on the latest snapshot is clicked where it was there,
\* not where an earlier message of the conversation has it.
NewestSightingIsClicked ==
    /\ Shown /\ Does = "click" /\ terminal.cmd.points = <<>>
    /\ \E i \in DOMAIN terminal.seen : Fits(terminal.cmd.label, terminal.seen[i])
    => Point(terminal.proposal).seen = terminal.shot.moment

\* However old messages, quoted scripts and earlier summaries are mixed, it is the
\* newest snapshot that a proposal is about.
NewestSnapshotWins == ReferenceIsOnScreen /\ NewestSightingIsClicked

\* From the node's image over the summary, the conversation, the proposal and the
\* queue to the click: it hits a control of a like label, if the screen that it falls
\* on is still the one of the image, which neither the user nor the script itself,
\* when it brought a program to the front, has changed, and if the image was not
\* scaled down.
ClickLands ==
    history.click.done /\ history.click.current /\ ScreenWidth <= ImageWidth =>
        \E c \in history.click.hit : Alike(c, history.click.label)

\* A step is judged by what the screen showed after a command of its task had run,
\* however the results, the snapshots and a second approval overlap.
VerifiedAfterItRan ==
    history.judged.task # NoTask =>
        \E c \in Commands : /\ commands[c].task = history.judged.task
                            /\ c <= history.judged.ran

\* A snapshot that the terminal has found is there for the verification, unless
\* as many newer ones arrived as are kept.
FoundContextStays ==
    terminal.pc = "verification" =>
        \/ \E i \in DOMAIN snapshots : snapshots[i].no = terminal.shot.no
        \/ shots - terminal.shot.no >= Keep

\* On Windows, where the two lists agree, what a proposal calls a high risk is
\* shown as one.
HighIsShownHigh ==
    Shown /\ windows /\ terminal.proposal.risk = "High" => terminal.risk = "High"
=============================================================================
