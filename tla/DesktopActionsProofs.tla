------------------------ MODULE DesktopActionsProofs ------------------------
(***************************************************************************)
(* Proofs about DesktopActions: for any screens, commands and bounds, and  *)
(* however snapshots, results, second approvals and lost requests overlap, *)
(* a verdict rests on a snapshot that was taken after a command of its     *)
(* task had run, and a snapshot that was found is kept until as many newer *)
(* ones have come as the table keeps.  The first half assumes nothing of   *)
(* the proposals, and holds for whatever script a command is turned into.  *)
(*                                                                         *)
(* The second half follows a point from the image over the summary, the    *)
(* conversation, the proposal and the queue to the click: what is shown is *)
(* about the newest snapshot, and what is clicked is what was seen.        *)
(***************************************************************************)
EXTENDS DesktopActions, FiniteSetTheorems, SequenceTheorems, WellFoundedInduction, TLAPS

\* What a prompt, a proposal or a label is does not matter to a sequence.
Listed(s) == s \in Seq({s[i] : i \in DOMAIN s})

DeviceFits == windows \in Systems /\ screen \in Screens /\ changes \in Nat

QueueFits ==
    /\ Listed(commands) /\ Len(commands) <= MaxCommands
    /\ \A c \in Commands : /\ DOMAIN commands[c] = {"task", "proposal", "label", "stage"}
                           /\ commands[c].task \in 1 .. MaxAsks
                           /\ commands[c].stage \in {"queued", "done", "failed"}

\* The process works on a command of the queue.
NodeFits ==
    /\ node \in [pc : {"free", "running", "ran", "reported"}, no : 0 .. MaxCommands, ok : BOOLEAN]
    /\ node.pc # "free" => node.no \in Commands

\* A snapshot for a task was taken behind a command of the task.
Behind(task, ran) ==
    task # NoTask => \E c \in Commands : commands[c].task = task /\ c <= ran

\* The rows are the latest snapshots, and all of them until the table is full.
RowsFit ==
    /\ snapshots \in Seq(Shots) /\ shots \in Numbers
    /\ Len(snapshots) <= Keep /\ Len(snapshots) <= shots
    /\ Len(snapshots) \in {Keep, shots}
    /\ \A i \in 1 .. Len(snapshots) : snapshots[i].no = shots - Len(snapshots) + i
    /\ \A i \in DOMAIN snapshots : Behind(snapshots[i].task, snapshots[i].ran)

TerminalFits ==
    /\ DOMAIN terminal = DOMAIN Idle
    /\ terminal.pc \in {"idle", "shown", "status", "context", "verification"}
    /\ terminal.attempt \in 0 .. MaxAttempts /\ terminal.risk \in {"Low", "Medium", "High"}
    /\ terminal.pc # "idle" => terminal.task \in 1 .. MaxAsks
    /\ terminal.pc = "verification" => terminal.shot.no \in 1 .. shots

HistoryFits ==
    /\ DOMAIN history = DOMAIN NoHistory
    /\ history.asks \in 0 .. MaxAsks
    /\ Behind(history.judged.task, history.judged.ran)

Inv == DeviceFits /\ QueueFits /\ NodeFits /\ RowsFit /\ TerminalFits /\ HistoryFits
-----------------------------------------------------------------------------
\* Rows are added and updated, and a command never gets another task.
Kept == \A c \in Commands : c \in Commands' /\ commands'[c].task = commands[c].task

BehindNow(task, ran) ==
    task # NoTask => \E c \in Commands' : commands'[c].task = task /\ c <= ran

LEMMA BehindStays ==
    ASSUME Kept
    PROVE  \A task, ran : Behind(task, ran) => BehindNow(task, ran)
BY DEF Kept, Behind, BehindNow

\* A row is appended to a sequence of whatever rows.
LEMMA AppendListed ==
    ASSUME NEW s, Listed(s), NEW e
    PROVE  /\ Listed(Append(s, e))
           /\ DOMAIN Append(s, e) = 1 .. Len(s) + 1 /\ Len(Append(s, e)) = Len(s) + 1
           /\ DOMAIN s = 1 .. Len(s) /\ Len(s) \in Nat
           /\ \A i \in DOMAIN s : Append(s, e)[i] = s[i]
           /\ Append(s, e)[Len(s) + 1] = e
<1>. DEFINE S == {s[i] : i \in DOMAIN s} \cup {e}
            t == Append(s, e)
<1>1. s \in Seq(S)
  BY DEF Listed
<1>2. /\ t \in Seq(S) /\ Len(t) = Len(s) + 1 /\ Len(s) \in Nat
      /\ DOMAIN s = 1 .. Len(s) /\ DOMAIN t = 1 .. Len(s) + 1
      /\ \A i \in DOMAIN s : t[i] = s[i]
      /\ t[Len(s) + 1] = e
  BY <1>1
<1>3. Listed(t)
  BY <1>2 DEF Listed
<1>. QED  BY <1>2, <1>3

\* A field of a row is written.
LEMMA UpdateListed ==
    ASSUME NEW s, Listed(s), NEW n \in DOMAIN s, NEW e
    PROVE  /\ Listed([s EXCEPT ![n] = e]) /\ Len([s EXCEPT ![n] = e]) = Len(s)
           /\ DOMAIN [s EXCEPT ![n] = e] = DOMAIN s
<1>. DEFINE t == [s EXCEPT ![n] = e]
<1>1. /\ DOMAIN s = 1 .. Len(s) /\ Len(s) \in Nat
  BY DEF Listed
<1>2. t \in [1 .. Len(s) -> {t[i] : i \in DOMAIN t}]
  BY <1>1
<1>3. ASSUME NEW R, NEW u \in [1 .. Len(s) -> R]
      PROVE  u \in Seq(R) /\ Len(u) = Len(s)
  BY <1>1, <1>3
<1>. QED  BY <1>1, <1>2, <1>3 DEF Listed

\* recordSnapshot with its retention: the latest rows stay, in their order.
LEMMA RecordedRows ==
    ASSUME snapshots \in Seq(Shots), Len(snapshots) <= Keep, NEW shot \in Shots
    PROVE  LET len == IF Len(snapshots) < Keep THEN Len(snapshots) + 1 ELSE Keep
           IN  /\ Recorded(shot) \in Seq(Shots) /\ Len(Recorded(shot)) = len
               /\ Recorded(shot)[len] = shot
               /\ \A i \in 1 .. len - 1 :
                    /\ i + 1 + Len(snapshots) - len \in 1 .. Len(snapshots)
                    /\ Recorded(shot)[i] = snapshots[i + 1 + Len(snapshots) - len]
<1>. DEFINE all == Append(snapshots, shot)
            old == Len(snapshots)
            from == Len(all) - Keep + 1
<1>1. /\ snapshots \in Seq(Shots) /\ old \in Nat /\ old <= Keep /\ Keep \in Nat \ {0}
  BY DesktopAssumption
<1>2. /\ all \in Seq(Shots) /\ Len(all) = old + 1 /\ all[old + 1] = shot
      /\ \A i \in 1 .. old : all[i] = snapshots[i]
  BY <1>1
<1>3. CASE old < Keep
  <2>1. Recorded(shot) = all
    BY <1>1, <1>2, <1>3 DEF Recorded
  <2>. QED  BY <1>1, <1>2, <1>3, <2>1
<1>4. CASE old = Keep
  <2>1. from = 2 /\ Recorded(shot) = SubSeq(all, 2, old + 1)
    BY <1>1, <1>2, <1>4 DEF Recorded
  <2>2. \A i \in 2 .. old + 1 : all[i] \in Shots
    BY <1>1, <1>2
  <2>3. /\ SubSeq(all, 2, old + 1) \in Seq(Shots)
        /\ Len(SubSeq(all, 2, old + 1)) = old
        /\ \A i \in 1 .. old : SubSeq(all, 2, old + 1)[i] = all[i + 1]
    BY <1>1, <2>2, SubSeqProperties
  <2>. HIDE DEF all
  <2>4. Recorded(shot) \in Seq(Shots) /\ Len(Recorded(shot)) = Keep
    BY <1>4, <2>1, <2>3
  <2>5. Recorded(shot)[Keep] = shot
    BY <1>1, <1>2, <1>4, <2>1, <2>3
  <2>6. \A i \in 1 .. Keep - 1 : i + 1 \in 1 .. old /\ Recorded(shot)[i] = snapshots[i + 1]
    <3>. SUFFICES ASSUME NEW i \in 1 .. Keep - 1
                  PROVE  i + 1 \in 1 .. old /\ Recorded(shot)[i] = snapshots[i + 1]
      OBVIOUS
    <3>1. i \in 1 .. old /\ i + 1 \in 1 .. old
      BY <1>1, <1>4
    <3>2. Recorded(shot)[i] = all[i + 1]
      BY <2>1, <2>3, <3>1
    <3>3. all[i + 1] = snapshots[i + 1]
      BY <1>2, <3>1
    <3>. QED  BY <3>1, <3>2, <3>3
  <2>7. (IF old < Keep THEN old + 1 ELSE Keep) = Keep
    BY <1>1, <1>4
  <2>8. \A i \in 1 .. Keep - 1 : i + 1 + old - Keep = i + 1
    BY <1>1, <1>4
  <2>. QED  BY <1>1, <2>4, <2>5, <2>6, <2>7, <2>8
<1>5. old < Keep \/ old = Keep
  BY <1>1
<1>. QED  BY <1>3, <1>4, <1>5, Zenon

\* A snapshot keeps the type of the rows.
LEMMA CaptureType ==
    ASSUME Inv, shots < MaxShots, NEW task \in 0 .. MaxAsks, NEW shot \in Captures(task)
    PROVE  /\ shot \in Shots /\ shot.no = shots + 1 /\ shot.task = task
           /\ node.pc # "free" => shot.ran = node.no
<1>1. MaxShots \in Nat /\ MaxCommands \in Nat /\ shots \in 0 .. MaxShots
  BY DesktopAssumption DEF Inv, RowsFit, Numbers
<1>2. Ran \in 0 .. MaxCommands
  <2>. DEFINE done == {c \in Commands : commands[c].stage # "queued"}
  <2>1. Commands = 1 .. Len(commands) /\ Len(commands) \in Nat /\ Len(commands) <= MaxCommands
    BY DEF Inv, QueueFits, Listed, Commands
  <2>2. IsFiniteSet(Commands) /\ Cardinality(Commands) = Len(commands)
    <3>1. ASSUME NEW n \in Nat PROVE IsFiniteSet(1 .. n) /\ Cardinality(1 .. n) = n
      <4>1. 1 \in Int /\ n \in Int /\ (IF 1 > n THEN 0 ELSE n - 1 + 1) = n
        OBVIOUS
      <4>. QED  BY <4>1, FS_Interval, Zenon
    <3>. QED  BY <2>1, <3>1
  <2>3. IsFiniteSet(done) /\ Cardinality(done) <= Len(commands)
    BY <2>2, FS_Subset
  <2>4. Cardinality(done) \in Nat
    BY <2>3, FS_CardinalityType
  <2>. QED  BY <1>1, <2>1, <2>3, <2>4 DEF Ran
<1>3. (IF node.pc = "free" THEN Ran ELSE node.no) \in 0 .. MaxCommands
  BY <1>2 DEF Inv, NodeFits
<1>4. [c \in DOMAIN screen.at |-> InImage(screen.at[c])]
        \in {[c \in DOMAIN s.at |-> InImage(s.at[c])] : s \in Screens}
  BY DEF Inv, DeviceFits
<1>5. {NoName, screen.front} \subseteq {NoName} \cup {s.front : s \in Screens}
  BY DEF Inv, DeviceFits
<1>6. shots + 1 \in Numbers /\ changes \in Nat
  BY <1>1 DEF Numbers, Inv, DeviceFits
<1>. QED  BY <1>3, <1>4, <1>5, <1>6 DEF Captures, Shots
-----------------------------------------------------------------------------
\* A new snapshot, for no task or behind the command of the task that was run.
LEMMA SubmitStep ==
    ASSUME Inv, NEW task \in 0 .. MaxAsks, Submit(task), Kept,
           node.pc # "free" => Behind(task, node.no), node.pc = "free" => task = NoTask
    PROVE  RowsFit' /\ shots' = shots + 1
<1>. DEFINE old == Len(snapshots)
            len == IF old < Keep THEN old + 1 ELSE Keep
<1>. PICK shot \in Captures(task) : snapshots' = Recorded(shot)
  BY DEF Submit
<1>1. /\ snapshots \in Seq(Shots) /\ old \in Nat /\ old <= Keep /\ Keep \in Nat \ {0}
      /\ MaxShots \in Nat /\ shots \in 0 .. MaxShots
      /\ old <= shots /\ old \in {Keep, shots}
      /\ \A i \in 1 .. old : snapshots[i].no = shots - old + i
  BY DesktopAssumption DEF Inv, RowsFit, Numbers
<1>2. /\ shot \in Shots /\ shot.no = shots + 1 /\ shot.task = task
      /\ node.pc # "free" => shot.ran = node.no
      /\ shots < MaxShots /\ shots' = shots + 1 /\ snapshots' = Recorded(shot)
  BY CaptureType DEF Inv, Submit
<1>3. /\ snapshots' \in Seq(Shots) /\ Len(snapshots') = len /\ snapshots'[len] = shot
      /\ \A i \in 1 .. len - 1 : /\ i + 1 + old - len \in 1 .. old
                                 /\ snapshots'[i] = snapshots[i + 1 + old - len]
  <2>1. shot \in Shots /\ snapshots' = Recorded(shot)
    BY <1>2
  <2>2. snapshots \in Seq(Shots) /\ Len(snapshots) <= Keep
    BY <1>1
  <2>3. /\ Recorded(shot) \in Seq(Shots) /\ Len(Recorded(shot)) = len
        /\ Recorded(shot)[len] = shot
        /\ \A i \in 1 .. len - 1 : /\ i + 1 + old - len \in 1 .. old
                                   /\ Recorded(shot)[i] = snapshots[i + 1 + old - len]
    BY <2>1, <2>2, RecordedRows, Zenon
  <2>. QED  BY <2>1, <2>3, Zenon
<1>4. len \in Nat /\ len <= Keep /\ len <= shots + 1 /\ len \in {Keep, shots + 1}
  BY <1>1
<1>5. shots' \in Numbers
  BY <1>1, <1>2 DEF Numbers
<1>. HIDE DEF old, len
<1>6. ASSUME NEW i \in 1 .. len - 1 PROVE snapshots'[i].no = shots + 1 - len + i
  <2>1. snapshots'[i].no = shots - old + (i + 1 + old - len)
    BY <1>1, <1>3
  <2>. QED  BY <1>1, <1>4, <2>1
<1>7. snapshots'[len].no = shots + 1 - len + len
  BY <1>1, <1>2, <1>3, <1>4
<1>8. BehindNow(shot.task, shot.ran)
  <2>1. Behind(shot.task, shot.ran)
    BY <1>2 DEF Behind
  <2>. QED  BY <2>1, BehindStays
<1>9. ASSUME NEW i \in 1 .. len - 1 PROVE BehindNow(snapshots'[i].task, snapshots'[i].ran)
  <2>1. PICK j \in 1 .. old : snapshots'[i] = snapshots[j]
    BY <1>3
  <2>2. j \in DOMAIN snapshots
    BY <1>1 DEF old
  <2>3. Behind(snapshots'[i].task, snapshots'[i].ran)
    BY <2>1, <2>2 DEF Inv, RowsFit
  <2>. QED  BY <2>3, BehindStays
<1>10. \A i \in 1 .. len : i \in 1 .. len - 1 \/ i = len
  BY <1>4
<1>11. DOMAIN snapshots' = 1 .. len
  BY <1>3
<1>12. \A i \in 1 .. len : snapshots'[i].no = shots + 1 - len + i
  BY <1>6, <1>7, <1>10
<1>13. \A i \in 1 .. len : BehindNow(snapshots'[i].task, snapshots'[i].ran)
  BY <1>3, <1>8, <1>9, <1>10
<1>14. ASSUME NEW i \in 1 .. Len(snapshots')
       PROVE  snapshots'[i].no = shots' - Len(snapshots') + i
  <2>1. Len(snapshots') = len
    BY <1>3
  <2>2. shots' = shots + 1
    BY <1>2
  <2>3. i \in 1 .. len
    BY <2>1
  <2>4. snapshots'[i].no = shots + 1 - len + i
    BY <1>12, <2>3
  <2>5. shots \in Nat /\ len \in Nat
    BY <1>1, <1>4
  <2>. QED  BY <2>1, <2>2, <2>3, <2>4, <2>5
<1>15. Len(snapshots') <= Keep /\ Len(snapshots') <= shots' /\ Len(snapshots') \in {Keep, shots'}
  BY <1>2, <1>3, <1>4
<1>. QED  BY <1>2, <1>3, <1>5, <1>11, <1>13, <1>14, <1>15 DEF RowsFit, BehindNow, Behind

\* What does not touch the table leaves its rows right.
LEMMA SteadyRows ==
    ASSUME Inv, Kept, UNCHANGED <<snapshots, shots>>
    PROVE  RowsFit'
<1>1. ASSUME NEW i \in DOMAIN snapshots
      PROVE  BehindNow(snapshots[i].task, snapshots[i].ran)
  BY BehindStays DEF Inv, RowsFit
<1>. QED  BY <1>1 DEF Inv, RowsFit, BehindNow, Behind

\* The terminal while nothing but the table grows.
LEMMA SteadyTerminal ==
    ASSUME Inv, UNCHANGED terminal, shots' \in {shots, shots + 1}
    PROVE  TerminalFits'
<1>1. shots \in Nat
  BY DesktopAssumption DEF Inv, RowsFit, Numbers
<1>. QED  BY <1>1 DEF Inv, TerminalFits

\* The verdict of before still rests on its command.
LEMMA SteadyVerdict ==
    ASSUME Inv, Kept, history'.judged = history.judged, DOMAIN history' = DOMAIN NoHistory,
           history'.asks \in 0 .. MaxAsks
    PROVE  HistoryFits'
<1>1. BehindNow(history.judged.task, history.judged.ran)
  BY BehindStays DEF Inv, HistoryFits
<1>. QED  BY <1>1 DEF HistoryFits, BehindNow, Behind

\* A terminal that has just received a proposal, or has none.
Fresh ==
    /\ DOMAIN terminal' = DOMAIN Idle
    /\ terminal'.pc \in {"idle", "shown"} /\ terminal'.attempt = 0
    /\ terminal'.risk \in {"Low", "Medium", "High"}
    /\ terminal'.pc # "idle" => terminal'.task \in 1 .. MaxAsks

LEMMA FreshFits ==
    ASSUME Fresh
    PROVE  TerminalFits'
<1>1. MaxAttempts \in Nat
  BY DesktopAssumption
<1>. QED  BY <1>1 DEF Fresh, TerminalFits

LEMMA IdleIsFresh ==
    ASSUME terminal' = Idle
    PROVE  Fresh
BY DEF Fresh, Idle

LEMMA AnalysisStep ==
    ASSUME Inv, history.asks < MaxAsks, NEW prompt, NEW cmd, NEW repair,
           Analysis(prompt, cmd, repair)
    PROVE  Fresh
<1>1. PICK targets, proposal, before :
        terminal' = IF proposal.act = "none" THEN Idle
                    ELSE [Idle EXCEPT !.pc = "shown", !.task = history.asks + 1,
                             !.cmd = cmd, !.proposal = proposal,
                             !.risk = ShownRisk(proposal, cmd.intent, windows),
                             !.shot = LatestShot, !.seen = targets, !.repair = repair]
  BY Zenon DEF Analysis
<1>2. history.asks + 1 \in 1 .. MaxAsks
  BY DesktopAssumption DEF Inv, HistoryFits
<1>3. ShownRisk(proposal, cmd.intent, windows) \in {"Low", "Medium", "High"}
  BY DEF ShownRisk
<1>4. CASE proposal.act = "none"
  BY <1>1, <1>4, IdleIsFresh
<1>5. CASE proposal.act # "none"
  BY <1>1, <1>2, <1>3, <1>5 DEF Fresh, Idle
<1>. QED  BY <1>4, <1>5

LEMMA RepairStep ==
    ASSUME Inv, NEW targets, NEW verification, AskForRepair(targets, verification)
    PROVE  Fresh /\ UNCHANGED <<device, commands, snapshots, shots>>
<1>1. CASE history.asks < MaxAsks
  BY <1>1, AnalysisStep DEF AskForRepair
<1>2. CASE ~(history.asks < MaxAsks)
  BY <1>2, IdleIsFresh DEF AskForRepair
<1>. QED  BY <1>1, <1>2 DEF AskForRepair

\* The count of prompts is at its bound or below.
LEMMA CountingFits ==
    ASSUME NEW h, DOMAIN h = DOMAIN NoHistory, h.asks \in 0 .. MaxAsks
    PROVE  /\ DOMAIN Counting(h) = DOMAIN NoHistory
           /\ Counting(h).asks \in 0 .. MaxAsks
           /\ Counting(h).judged = h.judged
BY DesktopAssumption DEF Counting, NoHistory
-----------------------------------------------------------------------------
LEMMA InitInv == Init => Inv
<1>. SUFFICES ASSUME Init PROVE Inv
  OBVIOUS
<1>1. /\ MaxShots \in Nat /\ MaxAsks \in Nat /\ MaxCommands \in Nat /\ MaxAttempts \in Nat
      /\ Keep \in Nat
  BY DesktopAssumption
<1>2. DeviceFits
  BY DEF Init, DeviceFits
<1>3. QueueFits
  BY <1>1 DEF Init, QueueFits, Commands, Listed
<1>4. NodeFits
  BY <1>1 DEF Init, NodeFits
<1>5. RowsFit
  BY <1>1 DEF Init, RowsFit, Numbers
<1>6. TerminalFits
  BY <1>1 DEF Init, TerminalFits, Idle
<1>7. HistoryFits
  BY <1>1 DEF Init, HistoryFits, NoHistory, Behind
<1>. QED  BY <1>2, <1>3, <1>4, <1>5, <1>6, <1>7 DEF Inv

\* The four actions of the process, and that of the screen.
LEMMA StartScriptStep ==
    ASSUME Inv, NEW no \in Commands, StartScript(no)
    PROVE  Inv'
<1>1. UNCHANGED <<windows, commands, snapshots, shots, talk, terminal, history>>
  BY DEF StartScript
<1>2. Kept
  BY <1>1 DEF Kept, Commands
<1>3. DeviceFits'
  BY <1>1 DEF Inv, DeviceFits, StartScript, BringsToFront, ShowsOneOf
<1>4. QueueFits'
  BY <1>1 DEF Inv, QueueFits, Commands, Listed
<1>5. NodeFits'
  <2>1. no \in 0 .. MaxCommands /\ no \in Commands'
    BY <1>1, DesktopAssumption, SMTT(20) DEF Inv, QueueFits, Listed, Commands
  <2>2. \/ node' = [pc |-> "running", no |-> no, ok |-> TRUE]
        \/ node' = [pc |-> "ran", no |-> no, ok |-> FALSE]
    BY DEF StartScript
  <2>3. CASE node' = [pc |-> "running", no |-> no, ok |-> TRUE]
    BY <2>1, <2>3 DEF NodeFits
  <2>4. CASE node' = [pc |-> "ran", no |-> no, ok |-> FALSE]
    BY <2>1, <2>4 DEF NodeFits
  <2>. QED  BY <2>2, <2>3, <2>4
<1>. QED  BY <1>1, <1>2, <1>3, <1>4, <1>5, SteadyRows, SteadyTerminal, SteadyVerdict
          DEF Inv, HistoryFits

LEMMA EndScriptStep ==
    ASSUME Inv, NEW ok \in BOOLEAN, EndScript(ok)
    PROVE  Inv'
<1>1. UNCHANGED <<windows, commands, snapshots, shots, talk, terminal>>
  BY DEF EndScript
<1>2. Kept
  BY <1>1 DEF Kept, Commands
<1>3. DeviceFits'
  BY <1>1 DEF Inv, DeviceFits, EndScript, ShowsOneOf
<1>4. QueueFits'
  BY <1>1 DEF Inv, QueueFits, Commands, Listed
<1>5. NodeFits'
  BY <1>1 DEF Inv, NodeFits, EndScript, Commands
<1>6. /\ DOMAIN history' = DOMAIN NoHistory /\ history'.judged = history.judged
      /\ history'.asks \in 0 .. MaxAsks
  BY DEF Inv, HistoryFits, EndScript, NoHistory
<1>. QED  BY <1>1, <1>2, <1>3, <1>4, <1>5, <1>6, SteadyRows, SteadyTerminal, SteadyVerdict
          DEF Inv

LEMMA ReportStep ==
    ASSUME Inv, Report
    PROVE  Inv'
<1>. DEFINE no == node.no
            row == [commands[no] EXCEPT !.stage = IF node.ok THEN "done" ELSE "failed"]
<1>1. UNCHANGED <<windows, screen, changes, snapshots, shots, talk, terminal, history>>
  BY DEF Report
<1>2. no \in Commands /\ no \in 0 .. MaxCommands /\ commands' = [commands EXCEPT ![no] = row]
  BY DEF Inv, NodeFits, Report
<1>3. /\ Listed(commands') /\ Len(commands') = Len(commands) /\ Commands' = Commands
  BY <1>2, UpdateListed DEF Inv, QueueFits, Commands
<1>4. /\ DOMAIN row = {"task", "proposal", "label", "stage"}
      /\ row.task = commands[no].task /\ row.stage \in {"done", "failed"}
  BY <1>2 DEF Inv, QueueFits
<1>. HIDE DEF row
<1>5. \A c \in Commands : commands'[c] = IF c = no THEN row ELSE commands[c]
  BY <1>2 DEF Commands
<1>6. Kept
  BY <1>3, <1>4, <1>5 DEF Kept
<1>7. DeviceFits'
  BY <1>1 DEF Inv, DeviceFits
<1>8. QueueFits'
  BY <1>3, <1>4, <1>5, <1>2 DEF Inv, QueueFits
<1>9. NodeFits'
  BY <1>2, <1>3 DEF Inv, NodeFits, Report
<1>10. /\ DOMAIN history' = DOMAIN NoHistory /\ history'.judged = history.judged
       /\ history'.asks \in 0 .. MaxAsks
  BY <1>1 DEF Inv, HistoryFits
<1>. QED  BY <1>1, <1>6, <1>7, <1>8, <1>9, <1>10, SteadyRows, SteadyTerminal, SteadyVerdict
          DEF Inv

LEMMA PostContextStep ==
    ASSUME Inv, PostContext
    PROVE  Inv'
<1>1. UNCHANGED <<windows, screen, changes, commands, talk, terminal, history>>
  BY DEF PostContext
<1>2. Kept
  BY <1>1 DEF Kept, Commands
<1>3. node.pc = "reported" /\ node.no \in Commands
  BY DEF Inv, NodeFits, PostContext
<1>4. RowsFit' /\ shots' \in {shots, shots + 1}
  <2>1. CASE Submit(commands[node.no].task)
    <3>1. commands[node.no].task \in 0 .. MaxAsks
      BY <1>3, DesktopAssumption DEF Inv, QueueFits
    <3>2. node.no <= node.no
      BY DEF Inv, NodeFits
    <3>3. Behind(commands[node.no].task, node.no)
      BY <1>3, <3>2 DEF Behind
    <3>. QED  BY <1>2, <1>3, <2>1, <3>1, <3>3, SubmitStep
  <2>2. CASE Lost
    BY <1>2, <2>2, SteadyRows DEF Lost
  <2>. QED  BY <2>1, <2>2 DEF PostContext
<1>5. DeviceFits' /\ QueueFits'
  BY <1>1 DEF Inv, DeviceFits, QueueFits, Commands, Listed
<1>6. NodeFits'
  BY <1>1 DEF Inv, NodeFits, PostContext, Commands
<1>7. /\ DOMAIN history' = DOMAIN NoHistory /\ history'.judged = history.judged
      /\ history'.asks \in 0 .. MaxAsks
  BY <1>1 DEF Inv, HistoryFits
<1>. QED  BY <1>1, <1>2, <1>4, <1>5, <1>6, <1>7, SteadyTerminal, SteadyVerdict DEF Inv

LEMMA PeriodicContextStep ==
    ASSUME Inv, PeriodicContext
    PROVE  Inv'
<1>1. UNCHANGED <<windows, screen, changes, node, commands, talk, terminal, history>>
  BY DEF PeriodicContext, device
<1>2. Kept
  BY <1>1 DEF Kept, Commands
<1>3. RowsFit' /\ shots' \in {shots, shots + 1}
  <2>1. NoTask = 0 /\ NoTask \in 0 .. MaxAsks
    BY DesktopAssumption DEF NoTask
  <2>2. node.pc = "free" /\ Submit(NoTask)
    BY DEF PeriodicContext
  <2>. QED  BY <1>2, <2>1, <2>2, SubmitStep
<1>4. DeviceFits' /\ QueueFits' /\ NodeFits'
  BY <1>1 DEF Inv, DeviceFits, QueueFits, NodeFits, Commands, Listed
<1>5. /\ DOMAIN history' = DOMAIN NoHistory /\ history'.judged = history.judged
      /\ history'.asks \in 0 .. MaxAsks
  BY <1>1 DEF Inv, HistoryFits
<1>. QED  BY <1>1, <1>2, <1>3, <1>4, <1>5, SteadyTerminal, SteadyVerdict DEF Inv

LEMMA ScreenStep ==
    ASSUME Inv, ScreenChanges
    PROVE  Inv'
<1>1. UNCHANGED <<windows, node, commands, snapshots, shots, talk, terminal, history>>
  BY DEF ScreenChanges
<1>2. Kept
  BY <1>1 DEF Kept, Commands
<1>3. DeviceFits'
  BY <1>1 DEF Inv, DeviceFits, ScreenChanges, ShowsOneOf
<1>4. QueueFits' /\ NodeFits'
  BY <1>1 DEF Inv, QueueFits, NodeFits, Commands, Listed
<1>5. /\ DOMAIN history' = DOMAIN NoHistory /\ history'.judged = history.judged
      /\ history'.asks \in 0 .. MaxAsks
  BY <1>1 DEF Inv, HistoryFits
<1>. QED  BY <1>1, <1>2, <1>3, <1>4, <1>5, SteadyRows, SteadyTerminal, SteadyVerdict DEF Inv
-----------------------------------------------------------------------------
\* A step of the terminal that asks the backend and gives it nothing to run.
LEMMA TerminalOnly ==
    ASSUME Inv, UNCHANGED <<device, commands, snapshots, shots>>,
           TerminalFits', HistoryFits'
    PROVE  Inv'
<1>1. Kept
  BY DEF Kept, Commands
<1>2. DeviceFits' /\ QueueFits' /\ NodeFits'
  BY DEF device, Inv, DeviceFits, QueueFits, NodeFits, Commands, Listed
<1>. QED  BY <1>1, <1>2, SteadyRows DEF Inv

LEMMA TerminalKeepsVerdict ==
    ASSUME Inv, UNCHANGED <<device, commands, snapshots, shots>>,
           history' \in {history, Counting(history)}
    PROVE  HistoryFits'
<1>1. Kept
  BY DEF Kept, Commands
<1>2. /\ DOMAIN history' = DOMAIN NoHistory /\ history'.judged = history.judged
      /\ history'.asks \in 0 .. MaxAsks
  BY CountingFits DEF Inv, HistoryFits
<1>. QED  BY <1>1, <1>2, SteadyVerdict

LEMMA AskStep ==
    ASSUME Inv, NEW cmd, Ask(cmd)
    PROVE  Inv'
<1>1. Fresh
  BY AnalysisStep DEF Ask
<1>2. UNCHANGED <<device, commands, snapshots, shots>> /\ history' = Counting(history)
  BY DEF Ask
<1>. QED  BY <1>1, <1>2, FreshFits, TerminalKeepsVerdict, TerminalOnly

\* A row for the task that the terminal shows.
LEMMA EnqueueStep ==
    ASSUME Inv, terminal.task \in 1 .. MaxAsks, Enqueue(terminal.task), UNCHANGED node
    PROVE  QueueFits' /\ NodeFits' /\ Kept
<1>. DEFINE row == [task |-> terminal.task, proposal |-> terminal.proposal,
                    label |-> terminal.cmd.label, stage |-> "queued"]
<1>1. commands' = Append(commands, row) /\ Len(commands) < MaxCommands
  BY DEF Enqueue
<1>2. /\ DOMAIN row = {"task", "proposal", "label", "stage"}
      /\ row.task \in 1 .. MaxAsks /\ row.stage \in {"queued", "done", "failed"}
  OBVIOUS
<1>. HIDE DEF row
<1>3. /\ Listed(commands') /\ Commands' = 1 .. Len(commands) + 1
      /\ Len(commands') = Len(commands) + 1
      /\ Commands = 1 .. Len(commands) /\ Len(commands) \in Nat
      /\ \A c \in Commands : commands'[c] = commands[c]
      /\ commands'[Len(commands) + 1] = row
  BY <1>1, AppendListed DEF Inv, QueueFits, Commands
<1>4. Len(commands') <= MaxCommands
  BY <1>1, <1>3, DesktopAssumption
<1>5. \A c \in Commands' : c \in Commands \/ c = Len(commands) + 1
  BY <1>3
<1>6. QueueFits'
  BY <1>2, <1>3, <1>4, <1>5 DEF Inv, QueueFits
<1>7. \A c \in Commands : c \in Commands'
  BY <1>3
<1>. QED  BY <1>3, <1>6, <1>7 DEF Inv, NodeFits, Kept

LEMMA ApproveStep ==
    ASSUME Inv, Approve
    PROVE  Inv'
<1>1. UNCHANGED <<windows, screen, changes, node, snapshots, shots, talk, history>>
  BY DEF Approve, device
<1>2. terminal.task \in 1 .. MaxAsks
  BY DEF Inv, TerminalFits, Approve
<1>3. QueueFits' /\ NodeFits' /\ Kept
  BY <1>1, <1>2, EnqueueStep DEF Approve
<1>4. DeviceFits'
  BY <1>1 DEF Inv, DeviceFits
<1>5. TerminalFits'
  BY DEF Inv, TerminalFits, Approve, Idle
<1>6. /\ DOMAIN history' = DOMAIN NoHistory /\ history'.judged = history.judged
      /\ history'.asks \in 0 .. MaxAsks
  BY <1>1 DEF Inv, HistoryFits
<1>. QED  BY <1>1, <1>3, <1>4, <1>5, <1>6, SteadyRows, SteadyVerdict DEF Inv

LEMMA ApproveElsewhereStep ==
    ASSUME Inv, ApproveElsewhere
    PROVE  Inv'
<1>1. UNCHANGED <<windows, screen, changes, node, snapshots, shots, talk, terminal, history>>
  BY DEF ApproveElsewhere, device
<1>2. terminal.task \in 1 .. MaxAsks
  BY DEF Inv, TerminalFits, ApproveElsewhere
<1>3. QueueFits' /\ NodeFits' /\ Kept
  BY <1>1, <1>2, EnqueueStep DEF ApproveElsewhere
<1>4. DeviceFits'
  BY <1>1 DEF Inv, DeviceFits
<1>5. /\ DOMAIN history' = DOMAIN NoHistory /\ history'.judged = history.judged
      /\ history'.asks \in 0 .. MaxAsks
  BY <1>1 DEF Inv, HistoryFits
<1>. QED  BY <1>1, <1>3, <1>4, <1>5, SteadyRows, SteadyTerminal, SteadyVerdict DEF Inv
-----------------------------------------------------------------------------
\* The terminal stays with its task, in a phase that needs no snapshot.
LEMMA StayStep ==
    ASSUME Inv, terminal.pc # "idle", NEW next, StayWith(next),
           next = Idle \/ \E pc \in {"status", "context"}, n \in 0 .. MaxAttempts :
                             next = [terminal EXCEPT !.pc = pc, !.attempt = n]
    PROVE  Inv'
<1>1. UNCHANGED <<device, commands, snapshots, shots>> /\ history' = history /\ terminal' = next
  BY DEF StayWith
<1>2. CASE next = Idle
  BY <1>1, <1>2, IdleIsFresh, FreshFits, TerminalKeepsVerdict, TerminalOnly
<1>3. CASE next # Idle
  <2>1. PICK pc \in {"status", "context"}, n \in 0 .. MaxAttempts :
          next = [terminal EXCEPT !.pc = pc, !.attempt = n]
    BY <1>3
  <2>2. TerminalFits'
    BY <1>1, <2>1 DEF Inv, TerminalFits, Idle
  <2>. QED  BY <1>1, <2>2, TerminalKeepsVerdict, TerminalOnly
<1>. QED  BY <1>2, <1>3

LEMMA AgainStep ==
    ASSUME Inv, terminal.pc # "idle", NEW pc \in {"status", "context"}, Again(pc)
    PROVE  Inv'
<1>. DEFINE next == IF terminal.attempt + 1 < MaxAttempts
                    THEN [terminal EXCEPT !.pc = pc, !.attempt = terminal.attempt + 1]
                    ELSE Idle
<1>1. StayWith(next)
  BY Zenon DEF Again
<1>2. next = Idle \/ /\ terminal.attempt + 1 \in 0 .. MaxAttempts
                     /\ next = [terminal EXCEPT !.pc = pc, !.attempt = terminal.attempt + 1]
  BY DesktopAssumption DEF Inv, TerminalFits
<1>. HIDE DEF next
<1>. QED  BY <1>1, <1>2, StayStep

LEMMA PollStatusStep ==
    ASSUME Inv, PollStatus
    PROVE  Inv'
<1>1. terminal.pc = "status"
  BY DEF PollStatus
<1>2. CASE Again("status")
  BY <1>1, <1>2, AgainStep
<1>3. CASE StayWith([terminal EXCEPT !.pc = "context", !.attempt = 0])
  <2>1. 0 \in 0 .. MaxAttempts
    BY DesktopAssumption
  <2>. QED  BY <1>1, <1>3, <2>1, StayStep
<1>4. CASE AskForRepair(<<>>, FALSE) /\ history' = Counting(history)
  BY <1>4, RepairStep, FreshFits, TerminalKeepsVerdict, TerminalOnly
<1>. QED  BY <1>2, <1>3, <1>4 DEF PollStatus

\* What is found for a task is a row of the table, and was taken behind a command
\* of the task.
LEMMA FoundIsRow ==
    ASSUME Inv, NEW task, NEW shot \in PostCommandContext(task)
    PROVE  shot.no \in 1 .. shots /\ shot.task = task /\ Behind(shot.task, shot.ran)
<1>1. PICK i \in DOMAIN snapshots : shot = snapshots[i] /\ snapshots[i].task = task
  BY DEF PostCommandContext, OfTask
<1>2. /\ Len(snapshots) \in Nat /\ Len(snapshots) <= shots /\ shots \in Nat
      /\ i \in 1 .. Len(snapshots)
  BY <1>1, DesktopAssumption DEF Inv, RowsFit, Numbers
<1>3. shot.no = shots - Len(snapshots) + i
  BY <1>1, <1>2 DEF Inv, RowsFit
<1>. QED  BY <1>1, <1>2, <1>3 DEF Inv, RowsFit

LEMMA WaitForContextStep ==
    ASSUME Inv, WaitForContext
    PROVE  Inv'
<1>1. terminal.pc = "context"
  BY DEF WaitForContext
<1>2. CASE Again("context")
  BY <1>1, <1>2, AgainStep
<1>3. ASSUME NEW shot \in PostCommandContext(terminal.task),
             StayWith([terminal EXCEPT !.pc = "verification", !.shot = shot])
      PROVE  Inv'
  <2>1. shot.no \in 1 .. shots
    BY FoundIsRow
  <2>2. /\ terminal' = [terminal EXCEPT !.pc = "verification", !.shot = shot]
        /\ UNCHANGED <<device, commands, snapshots, shots>> /\ history' = history
    BY <1>3 DEF StayWith
  <2>3. TerminalFits'
    BY <1>1, <2>1, <2>2 DEF Inv, TerminalFits, Idle
  <2>. QED  BY <2>2, <2>3, TerminalKeepsVerdict, TerminalOnly
<1>. QED  BY <1>2, <1>3 DEF WaitForContext

\* The verdict of a snapshot that was found is one behind a command of the task.
LEMMA VerifyStep ==
    ASSUME Inv, Verify
    PROVE  Inv'
<1>1. terminal.pc = "verification"
  BY DEF Verify
<1>2. CASE StayWith(Idle)
  BY <1>1, <1>2, StayStep
<1>3. ASSUME NEW shot \in PostCommandContext(terminal.task), NEW targets, NEW judged,
             judged = [history EXCEPT !.judged = [task |-> terminal.task, ran |-> shot.ran]],
             \/ /\ terminal' = Idle /\ history' = judged
                /\ UNCHANGED <<device, commands, snapshots, shots, talk>>
             \/ AskForRepair(targets, TRUE) /\ history' = Counting(judged)
      PROVE  Inv'
  <2>1. Behind(terminal.task, shot.ran)
    BY FoundIsRow
  <2>2. /\ DOMAIN judged = DOMAIN NoHistory /\ judged.asks \in 0 .. MaxAsks
        /\ judged.judged = [task |-> terminal.task, ran |-> shot.ran]
    BY <1>3 DEF Inv, HistoryFits, NoHistory
  <2>3. /\ DOMAIN Counting(judged) = DOMAIN NoHistory
        /\ Counting(judged).asks \in 0 .. MaxAsks
        /\ Counting(judged).judged = judged.judged
    BY <2>2, CountingFits
  <2>4. /\ DOMAIN history' = DOMAIN NoHistory /\ history'.asks \in 0 .. MaxAsks
        /\ history'.judged = [task |-> terminal.task, ran |-> shot.ran]
    BY <1>3, <2>2, <2>3
  <2>5. Fresh /\ UNCHANGED <<device, commands, snapshots, shots>>
    BY <1>3, IdleIsFresh, RepairStep
  <2>6. BehindNow(terminal.task, shot.ran)
    BY <2>1, <2>5 DEF Behind, BehindNow, Commands
  <2>7. HistoryFits'
    BY <2>4, <2>6 DEF HistoryFits, Behind, BehindNow
  <2>. QED  BY <2>5, <2>7, FreshFits, TerminalOnly
<1>. QED  BY <1>2, <1>3, Zenon DEF Verify

LEMMA RequestFailsStep ==
    ASSUME Inv, RequestFails
    PROVE  Inv'
<1>1. terminal.pc # "idle"
  BY DEF RequestFails
<1>. QED  BY <1>1, StayStep DEF RequestFails
-----------------------------------------------------------------------------
LEMMA StutterStep ==
    ASSUME Inv, UNCHANGED vars
    PROVE  Inv'
<1>1. UNCHANGED <<device, commands, snapshots, shots>> /\ terminal' = terminal
      /\ history' = history
  BY DEF vars, device
<1>2. shots' \in {shots, shots + 1}
  BY <1>1
<1>. QED  BY <1>1, <1>2, SteadyTerminal, TerminalKeepsVerdict, TerminalOnly

\* The queue, the rows of the table and the verdicts fit together in all states.
THEOREM DesktopFits == Spec => []Inv
<1>1. Inv /\ [Next]_vars => Inv'
  <2>. SUFFICES ASSUME Inv, [Next]_vars PROVE Inv'
    OBVIOUS
  <2>1. CASE Terminal
    BY <2>1, PollStatusStep, WaitForContextStep, VerifyStep DEF Terminal
  <2>2. CASE Node
    BY <2>2, PeriodicContextStep, StartScriptStep, EndScriptStep, ReportStep,
       PostContextStep DEF Node
  <2>3. CASE Users
    BY <2>3, AskStep, ApproveStep, ApproveElsewhereStep DEF Users
  <2>4. CASE ScreenChanges
    BY <2>4, ScreenStep
  <2>5. CASE RequestFails
    BY <2>5, RequestFailsStep
  <2>6. CASE UNCHANGED vars
    BY <2>6, StutterStep
  <2>. QED  BY <2>1, <2>2, <2>3, <2>4, <2>5, <2>6 DEF Next
<1>. QED  BY InitInv, <1>1, PTL DEF Spec

\* Type correctness, the bounds of the queue and of the table included: the
\* deletion after an insert (deleteOlderThanLimit) keeps the limit for good.
THEOREM DesktopTypes == Spec => []TypeOK
<1>1. Inv => TypeOK
  BY DEF Inv, DeviceFits, QueueFits, NodeFits, RowsFit, TerminalFits, HistoryFits, TypeOK
<1>. QED  BY <1>1, DesktopFits, PTL

\* A step is judged by a snapshot from behind a command of its task: the terminal
\* may find the snapshot of any of the commands of the task
\* (findLatestPostCommandContext), but none from before the first.
THEOREM VerdictsFollowRuns == Spec => []VerifiedAfterItRan
<1>1. Inv => VerifiedAfterItRan
  BY DEF Inv, HistoryFits, Behind, VerifiedAfterItRan
<1>. QED  BY <1>1, DesktopFits, PTL

\* The snapshot that the terminal has found is deleted only when as many newer ones
\* came as the table keeps, since the rows are the latest ones without a gap.
THEOREM FoundContextsStay == Spec => []FoundContextStays
<1>1. ASSUME Inv, terminal.pc = "verification", ~(shots - terminal.shot.no >= Keep)
      PROVE  \E i \in DOMAIN snapshots : snapshots[i].no = terminal.shot.no
  <2>. DEFINE len == Len(snapshots)
              no == terminal.shot.no
              i == no - (shots - len)
  <2>1. /\ len \in Nat /\ len <= shots /\ len \in {Keep, shots} /\ DOMAIN snapshots = 1 .. len
        /\ \A k \in 1 .. len : snapshots[k].no = shots - len + k
        /\ shots \in Nat /\ no \in 1 .. shots /\ Keep \in Nat
    BY <1>1, DesktopAssumption DEF Inv, RowsFit, TerminalFits, Numbers
  <2>. HIDE DEF len, no
  <2>2. i \in 1 .. len
    BY <1>1, <2>1 DEF no
  <2>3. shots - len + i = no
    BY <2>1
  <2>. HIDE DEF i
  <2>4. snapshots[i].no = no
    BY <2>1, <2>2, <2>3
  <2>. QED  BY <2>1, <2>2, <2>4 DEF no
<1>2. Inv => FoundContextStays
  BY <1>1 DEF FoundContextStays
<1>. QED  BY <1>2, DesktopFits, PTL
-----------------------------------------------------------------------------
(* From the image to the click.                                            *)

\* A control was seen no later than now; and where it is, if the screen is still
\* the one of the image and the image was not scaled down.
Seen(t, moment, at) ==
    /\ t.seen \in 0 .. moment
    /\ t.seen = moment /\ ScreenWidth <= ImageWidth =>
         t.label \in DOMAIN at /\ at[t.label] = t.at

\* A script aims at a point seen for a like label, or at one the user has written.
Aimed(proposal, label, moment, at) ==
    proposal.points # <<>> =>
        /\ Seen(Point(proposal), moment, at)
        /\ Point(proposal).seen = moment => Alike(label, Point(proposal).label)

Pictured(shot, moment, at) ==
    /\ shot.moment \in 0 .. moment
    /\ \A c \in DOMAIN shot.image :
         shot.image[c] # Hidden => Seen(Sighting(c, shot.image[c], shot.moment), moment, at)

Sighted(targets, moment, at) ==
    DOMAIN targets \subseteq Nat /\ \A k \in DOMAIN targets : Seen(targets[k], moment, at)

TalkFits == Listed(talk) /\ \A i \in DOMAIN talk : Sighted(talk[i].targets, changes, screen.at)
ImagesFit == \A i \in DOMAIN snapshots : Pictured(snapshots[i], changes, screen.at)
AimsFit ==
    /\ changes # 0
    /\ Aimed(terminal.proposal, terminal.cmd.label, changes, screen.at)
    /\ \A c \in Commands : Aimed(commands[c].proposal, commands[c].label, changes, screen.at)
ShownFits == NewestSnapshotWins /\ HighIsShownHigh

AimInv == TalkFits /\ ImagesFit /\ AimsFit /\ ShownFits /\ ClickLands
-----------------------------------------------------------------------------
(* The operators that proposals are made with.                             *)

\* A set of numbers has a least one.
LEMMA Smallest ==
    ASSUME NEW T, T \subseteq Nat, T # {}
    PROVE  \E x \in T : \A y \in T : x <= y
<1>. DEFINE Less == {p \in Nat \X Nat : p[1] < p[2]}
<1>1. OpToRel(<, Nat) = Less
  BY DEF OpToRel
<1>2. IsWellFoundedOn(Less, Nat)
  BY <1>1, NatLessThanWellFounded
<1>3. \A x, y \in Nat : <<y, x>> \notin Less => x <= y
  <2>1. ASSUME NEW x \in Nat, NEW y \in Nat, y < x PROVE <<y, x>> \in Less
    BY <2>1
  <2>. QED  BY <2>1
<1>. HIDE DEF Less
<1>4. \E x \in T : \A y \in T : ~(<<y, x>> \in Less)
  BY <1>2, WFMin
<1>. QED  BY <1>3, <1>4

LEMMA MinIs ==
    ASSUME NEW T, T \subseteq Nat, T # {}
    PROVE  Min(T) \in T
BY Smallest DEF Min

LEMMA MaxIs ==
    ASSUME NEW n \in Nat, NEW T, T \subseteq 1 .. n, T # {}
    PROVE  Max(T) \in T /\ \A y \in T : y <= Max(T)
<1>. DEFINE U == {n - x : x \in T}
<1>1. U \subseteq Nat /\ U # {}
  <2>1. \A x \in T : n - x \in Nat
    OBVIOUS
  <2>2. PICK x : x \in T
    OBVIOUS
  <2>3. n - x \in U
    BY <2>2
  <2>. QED  BY <2>1, <2>3
<1>2. PICK u \in U : \A y \in U : u <= y
  BY <1>1, Smallest
<1>3. PICK x \in T : u = n - x
  OBVIOUS
<1>4. \A y \in T : x >= y
  <2>. SUFFICES ASSUME NEW y \in T PROVE x >= y
    OBVIOUS
  <2>1. u <= n - y
    BY <1>2
  <2>. QED  BY <1>3, <2>1
<1>5. \E m \in T : \A y \in T : m >= y
  BY <1>4
<1>6. Max(T) \in T /\ \A y \in T : Max(T) >= y
  BY <1>5, Zenon DEF Max
<1>. QED  BY <1>6

\* A function on 1 .. n is a sequence.
LEMMA ListedIs ==
    ASSUME NEW n \in Nat, NEW s, s = [i \in 1 .. n |-> s[i]]
    PROVE  Listed(s) /\ Len(s) = n /\ DOMAIN s = 1 .. n
<1>1. s \in [1 .. n -> {s[i] : i \in DOMAIN s}] /\ DOMAIN s = 1 .. n
  OBVIOUS
<1>2. ASSUME NEW R, NEW u \in [1 .. n -> R]
      PROVE  u \in Seq(R) /\ Len(u) = n
  BY <1>2
<1>. QED  BY <1>1, <1>2 DEF Listed

LEMMA ListedLen ==
    ASSUME NEW s, Listed(s)
    PROVE  Len(s) \in Nat /\ DOMAIN s = 1 .. Len(s) /\ s = [i \in 1 .. Len(s) |-> s[i]]
BY DEF Listed

LEMMA EarliestIs ==
    ASSUME NEW s, NEW good, good \subseteq Nat
    PROVE  IF good = {} THEN Earliest(s, good) = <<>>
           ELSE \E i \in good : Earliest(s, good) = << s[i] >>
BY MinIs DEF Earliest

LEMMA NotEmpty == \A e : <<e>> # <<>> /\ Head(<<e>>) = e
OBVIOUS

LEMMA FromLatestIs ==
    ASSUME NEW len \in Nat, NEW n \in Nat, NEW found, DOMAIN found = 1 .. len, Len(found) = len
    PROVE  \/ /\ FromLatest(found, n) = <<>>
              /\ \A i \in 1 .. len : i > len - n => found[i] = <<>>
           \/ \E i \in 1 .. len : /\ FromLatest(found, n) = found[i] /\ found[i] # <<>>
                                  /\ \A j \in 1 .. len : j > len - n /\ j > i => found[j] = <<>>
<1>. DEFINE having == {i \in DOMAIN found : i > Len(found) - n /\ found[i] # <<>>}
<1>1. Len(found) = len /\ DOMAIN found = 1 .. len
  OBVIOUS
<1>2. CASE having = {}
  BY <1>1, <1>2 DEF FromLatest
<1>3. CASE having # {}
  <2>1. having \subseteq 1 .. len
    BY <1>1
  <2>2. Max(having) \in having /\ \A j \in having : j <= Max(having)
    BY <1>3, <2>1, MaxIs
  <2>3. FromLatest(found, n) = found[Max(having)]
    BY <1>3 DEF FromLatest
  <2>. DEFINE m == Max(having)
  <2>. HIDE DEF m
  <2>4. m \in 1 .. len /\ found[m] # <<>> /\ \A j \in having : j <= m
    BY <1>1, <2>2 DEF m
  <2>5. \A j \in 1 .. len : j > len - n /\ j > m => found[j] = <<>>
    BY <1>1, <2>4
  <2>. QED  BY <2>3, <2>4, <2>5 DEF m
<1>. QED  BY <1>2, <1>3

\* What is found in the last message in which anything is.
LEMMA FromLast ==
    ASSUME NEW len \in Nat, NEW n \in Nat, NEW found, DOMAIN found = 1 .. len, Len(found) = len,
           NEW k \in 1 .. len, k > len - n, found[k] # <<>>,
           \A j \in 1 .. len : j > k => found[j] = <<>>
    PROVE  FromLatest(found, n) = found[k]
<1>1. \E i \in 1 .. len : /\ FromLatest(found, n) = found[i] /\ found[i] # <<>>
                         /\ \A j \in 1 .. len : j > len - n /\ j > i => found[j] = <<>>
  <2>1. \/ FromLatest(found, n) = <<>> /\ \A i \in 1 .. len : i > len - n => found[i] = <<>>
        \/ \E i \in 1 .. len : /\ FromLatest(found, n) = found[i] /\ found[i] # <<>>
                               /\ \A j \in 1 .. len : j > len - n /\ j > i => found[j] = <<>>
    BY FromLatestIs
  <2>2. ~ \A i \in 1 .. len : i > len - n => found[i] = <<>>
    OBVIOUS
  <2>. QED  BY <2>1, <2>2, Zenon
<1>2. PICK i \in 1 .. len : /\ FromLatest(found, n) = found[i] /\ found[i] # <<>>
                            /\ \A j \in 1 .. len : j > len - n /\ j > i => found[j] = <<>>
  BY <1>1
<1>3. ~(i > k) /\ ~(k > i)
  BY <1>2
<1>4. i = k
  BY <1>3
<1>. QED  BY <1>2, <1>4

\* A message behind the conversation.
LEMMA JoinOne ==
    ASSUME NEW s, Listed(s), NEW e
    PROVE  /\ Listed(s \o <<e>>) /\ Len(s \o <<e>>) = Len(s) + 1
           /\ \A i \in DOMAIN s : i \in Nat /\ (s \o <<e>>)[i] = s[i]
           /\ (s \o <<e>>)[Len(s) + 1] = e
           /\ \A i \in DOMAIN (s \o <<e>>) : i \in DOMAIN s \/ i = Len(s) + 1
<1>. DEFINE t == Append(s, e)
<1>1. t = s \o <<e>>
  <2>. DEFINE S == {s[i] : i \in DOMAIN s} \cup {e}
  <2>1. s \in Seq(S) /\ e \in S
    BY DEF Listed
  <2>. QED  BY <2>1, AppendIsConcat
<1>2. /\ Listed(t) /\ DOMAIN t = 1 .. Len(s) + 1 /\ Len(t) = Len(s) + 1
      /\ DOMAIN s = 1 .. Len(s) /\ Len(s) \in Nat
      /\ \A i \in DOMAIN s : t[i] = s[i]
      /\ t[Len(s) + 1] = e
  BY AppendListed
<1>. HIDE DEF t
<1>3. /\ \A i \in DOMAIN s : i \in Nat
      /\ \A i \in DOMAIN t : i \in DOMAIN s \/ i = Len(s) + 1
  BY <1>2
<1>. QED  BY <1>1, <1>2, <1>3

LEMMA JoinNone ==
    ASSUME NEW s, Listed(s)
    PROVE  s \o <<>> = s
BY ConcatEmptySeq DEF Listed
-----------------------------------------------------------------------------
Empty(s) == s = <<>>

\* _messages_with_screen_context: the snapshot is behind the conversation.
LEMMA WithScreenIs ==
    ASSUME NEW messages, Listed(messages), NEW front, NEW targets,
           NEW ms, ms = WithScreen(messages, front, targets)
    PROVE  /\ Listed(ms)
           /\ \A i \in DOMAIN ms : \/ i \in DOMAIN messages /\ ms[i] = messages[i]
                                   \/ ms[i] = Message(<<front>>, <<front>>, <<>>)
                                   \/ ms[i] = Message(<<>>, <<>>, targets)
           /\ ~Empty(targets) =>
                Len(ms) \in 1 .. Len(ms) /\ ms[Len(ms)] = Message(<<>>, <<>>, targets)
           /\ front # NoName =>
                \E k \in 1 .. Len(ms) :
                   /\ k > Len(ms) - 2 /\ ms[k] = Message(<<front>>, <<front>>, <<>>)
                   /\ \A j \in 1 .. Len(ms) : j > k => ms[j] = Message(<<>>, <<>>, targets)
<1>. DEFINE F == Message(<<front>>, <<front>>, <<>>)
            T == Message(<<>>, <<>>, targets)
            a == messages \o (IF front = NoName THEN <<>> ELSE <<F>>)
<1>1. ms = a \o (IF targets = <<>> THEN <<>> ELSE <<T>>)
  BY DEF WithScreen
<1>. HIDE DEF F, T
<1>2. /\ Listed(a) /\ Len(a) \in Nat /\ DOMAIN a = 1 .. Len(a)
      /\ \A i \in DOMAIN a : \/ i \in DOMAIN messages /\ a[i] = messages[i]
                             \/ a[i] = F
      /\ front # NoName => Len(a) \in 1 .. Len(a) /\ a[Len(a)] = F
  <2>1. CASE front = NoName
    <3>1. a = messages
      BY <2>1, JoinNone
    <3>. QED  BY <2>1, <3>1, ListedLen
  <2>2. CASE front # NoName
    <3>1. a = messages \o <<F>>
      BY <2>2
    <3>. HIDE DEF a
    <3>2. /\ Listed(a) /\ Len(a) = Len(messages) + 1
          /\ \A i \in DOMAIN messages : a[i] = messages[i]
          /\ a[Len(messages) + 1] = F
          /\ \A i \in DOMAIN a : i \in DOMAIN messages \/ i = Len(messages) + 1
      BY <3>1, JoinOne
    <3>3. Len(messages) \in Nat /\ Len(a) \in Nat /\ DOMAIN a = 1 .. Len(a)
      BY <3>2, ListedLen
    <3>. QED  BY <3>2, <3>3
  <2>. QED  BY <2>1, <2>2
<1>. HIDE DEF a
<1>3. CASE Empty(targets)
  <2>1. ms = a
    BY <1>1, <1>2, <1>3, JoinNone DEF Empty
  <2>2. front # NoName => \E k \in 1 .. Len(ms) :
                             /\ k > Len(ms) - 2 /\ ms[k] = F
                             /\ \A j \in 1 .. Len(ms) : j > k => ms[j] = T
    BY <1>2, <2>1
  <2>. QED  BY <1>2, <1>3, <2>1, <2>2 DEF F, T
<1>4. CASE ~Empty(targets)
  <2>. DEFINE b == a \o <<T>>
  <2>1. ms = b
    BY <1>1, <1>4 DEF Empty
  <2>b. /\ Listed(b) /\ Len(b) = Len(a) + 1
        /\ \A i \in DOMAIN a : b[i] = a[i]
        /\ b[Len(a) + 1] = T
        /\ \A i \in DOMAIN b : i \in DOMAIN a \/ i = Len(a) + 1
    BY <1>2, JoinOne
  <2>. HIDE DEF b
  <2>2. /\ Listed(ms) /\ Len(ms) = Len(a) + 1
        /\ \A i \in DOMAIN a : ms[i] = a[i]
        /\ ms[Len(a) + 1] = T
        /\ \A i \in DOMAIN ms : i \in DOMAIN a \/ i = Len(a) + 1
    BY <2>1, <2>b
  <2>3. front # NoName => \E k \in 1 .. Len(ms) :
                             /\ k > Len(ms) - 2 /\ ms[k] = F
                             /\ \A j \in 1 .. Len(ms) : j > k => ms[j] = T
    <3>. SUFFICES ASSUME front # NoName
                  PROVE  /\ Len(a) \in 1 .. Len(ms) /\ Len(a) > Len(ms) - 2 /\ ms[Len(a)] = F
                         /\ \A j \in 1 .. Len(ms) : j > Len(a) => ms[j] = T
      OBVIOUS
    <3>1. Len(a) \in 1 .. Len(ms) /\ Len(a) > Len(ms) - 2 /\ Len(a) \in DOMAIN a
      BY <1>2, <2>2
    <3>2. \A j \in 1 .. Len(ms) : j > Len(a) => j = Len(a) + 1
      BY <1>2, <2>2
    <3>. QED  BY <1>2, <2>2, <3>1, <3>2
  <2>4. Len(ms) \in 1 .. Len(ms) /\ ms[Len(ms)] = T
    BY <1>2, <2>2
  <2>5. \A i \in DOMAIN ms : \/ i \in DOMAIN messages /\ ms[i] = messages[i]
                             \/ ms[i] = F \/ ms[i] = T
    BY <1>2, <2>2
  <2>. QED  BY <2>2, <2>3, <2>4, <2>5 DEF F, T
<1>. QED  BY <1>3, <1>4

\* The program in front is the application of which the conversation was last.
LEMMA RecentIsFront ==
    ASSUME NEW messages, Listed(messages), NEW front, NEW targets, Usable(front)
    PROVE  First(RecentApps(WithScreen(messages, front, targets))) = front
<1>. DEFINE ms == WithScreen(messages, front, targets)
            found == [i \in DOMAIN ms |-> AppIn(ms[i])]
            len == Len(ms)
            n == 12
<1>1. front # NoName /\ ms = WithScreen(messages, front, targets)
  BY DEF Usable
<1>. HIDE DEF ms
<1>2. Listed(ms)
  BY <1>1, WithScreenIs
<1>3. PICK k \in 1 .. len : /\ k > len - 2 /\ ms[k] = Message(<<front>>, <<front>>, <<>>)
                            /\ \A j \in 1 .. len : j > k => ms[j] = Message(<<>>, <<>>, targets)
  BY <1>1, WithScreenIs
<1>4. len \in Nat /\ DOMAIN ms = 1 .. len
  BY <1>2, ListedLen
<1>5. DOMAIN found = 1 .. len /\ Len(found) = len
  <2>1. found = [i \in 1 .. len |-> found[i]]
    BY <1>4
  <2>. QED  BY <1>4, <2>1, ListedIs
<1>6. AppIn(Message(<<front>>, <<front>>, <<>>)) = <<front>>
  <2>. DEFINE apps == <<front>>
              good == {i \in DOMAIN apps : Usable(apps[i])}
  <2>1. good = {1}
    OBVIOUS
  <2>2. Earliest(apps, good) = <<apps[1]>>
    BY <2>1, EarliestIs
  <2>. QED  BY <2>2 DEF AppIn, Message
<1>7. AppIn(Message(<<>>, <<>>, targets)) = <<>>
  <2>1. {i \in DOMAIN <<>> : Usable(<<>>[i])} = {}
    OBVIOUS
  <2>. QED  BY <2>1 DEF AppIn, Message, Earliest
<1>8. found[k] = <<front>> /\ \A j \in 1 .. len : j > k => found[j] = <<>>
  BY <1>3, <1>4, <1>6, <1>7
<1>9. /\ k \in 1 .. len /\ k > len - n /\ found[k] # <<>> /\ n \in Nat
      /\ \A j \in 1 .. len : j > k => found[j] = <<>>
  BY <1>3, <1>4, <1>8, NotEmpty
<1>. HIDE DEF found, len, n
<1>10. FromLatest(found, n) = found[k]
  BY <1>4, <1>5, <1>9, FromLast
<1>11. RecentApps(ms) = <<front>>
  BY <1>8, <1>10 DEF RecentApps, found, n
<1>. QED  BY <1>11, NotEmpty DEF First, ms
-----------------------------------------------------------------------------
LEMMA TargetInIs ==
    ASSUME NEW label, NEW message, DOMAIN message.targets \subseteq Nat
    PROVE  \/ /\ TargetIn(label, message) = <<>>
              /\ \A k \in DOMAIN message.targets : ~Fits(label, message.targets[k])
           \/ \E k \in DOMAIN message.targets :
                /\ TargetIn(label, message) = << message.targets[k] >>
                /\ Fits(label, message.targets[k])
<1>. DEFINE s == message.targets
            good == {k \in DOMAIN s : Fits(label, s[k])}
<1>1. TargetIn(label, message) = Earliest(s, good) /\ good \subseteq Nat
  BY DEF TargetIn
<1>2. CASE good = {}
  BY <1>1, <1>2, EarliestIs
<1>3. CASE good # {}
  <2>1. PICK k \in good : Earliest(s, good) = << s[k] >>
    BY <1>1, <1>3, EarliestIs
  <2>. QED  BY <1>1, <2>1
<1>. QED  BY <1>2, <1>3

\* A sighting is one of a message, and fits the label.
LEMMA SightingsAre ==
    ASSUME NEW label, NEW messages, Listed(messages),
           \A i \in DOMAIN messages : DOMAIN messages[i].targets \subseteq Nat
    PROVE  \/ Sightings(label, messages) = <<>>
           \/ \E i \in DOMAIN messages : \E k \in DOMAIN messages[i].targets :
                /\ Sightings(label, messages) = << messages[i].targets[k] >>
                /\ Fits(label, messages[i].targets[k])
<1>. DEFINE found == [i \in DOMAIN messages |-> TargetIn(label, messages[i])]
            len == Len(messages)
<1>1. len \in Nat /\ DOMAIN messages = 1 .. len /\ 8 \in Nat
  BY ListedLen
<1>2. DOMAIN found = 1 .. len /\ Len(found) = len
  <2>1. found = [i \in 1 .. len |-> found[i]]
    BY <1>1
  <2>. QED  BY <1>1, <2>1, ListedIs
<1>3. \A i \in DOMAIN messages : found[i] = TargetIn(label, messages[i])
  OBVIOUS
<1>4. Sightings(label, messages) = FromLatest(found, 8)
  BY DEF Sightings
<1>. HIDE DEF found, len
<1>5. \/ FromLatest(found, 8) = <<>>
      \/ \E i \in 1 .. len : FromLatest(found, 8) = found[i] /\ found[i] # <<>>
  BY <1>1, <1>2, FromLatestIs
<1>6. ASSUME NEW i \in DOMAIN messages, found[i] # <<>>
      PROVE  \E k \in DOMAIN messages[i].targets :
                /\ found[i] = << messages[i].targets[k] >>
                /\ Fits(label, messages[i].targets[k])
  BY <1>3, <1>6, TargetInIs
<1>7. CASE FromLatest(found, 8) # <<>>
  <2>1. PICK i \in 1 .. len : FromLatest(found, 8) = found[i] /\ found[i] # <<>>
    BY <1>5, <1>7
  <2>2. PICK k \in DOMAIN messages[i].targets :
          found[i] = << messages[i].targets[k] >> /\ Fits(label, messages[i].targets[k])
    BY <1>1, <1>6, <2>1
  <2>. QED  BY <1>1, <1>4, <2>1, <2>2
<1>. QED  BY <1>4, <1>7

\* The first point: one that is written, or a sighting.
LEMMA PointsAre ==
    ASSUME NEW cmd \in Asked \cup Repaired, NEW messages, Listed(messages),
           \A i \in DOMAIN messages : DOMAIN messages[i].targets \subseteq Nat
    PROVE  \/ Points(cmd, messages) = <<>>
           \/ cmd.points # <<>> /\ Points(cmd, messages) = << Head(cmd.points) >>
           \/ \E i \in DOMAIN messages : \E k \in DOMAIN messages[i].targets :
                /\ Points(cmd, messages) = << messages[i].targets[k] >>
                /\ Fits(cmd.label, messages[i].targets[k])
BY SightingsAre DEF Points

LEMMA TargetsAreLast ==
    ASSUME NEW messages, Listed(messages), NEW front, NEW targets, ~Empty(targets),
           NEW ms, ms = WithScreen(messages, front, targets)
    PROVE  Len(ms) \in 1 .. Len(ms) /\ ms[Len(ms)] = Message(<<>>, <<>>, targets)
<1>. DEFINE T == Message(<<>>, <<>>, targets)
            F == Message(<<front>>, <<front>>, <<>>)
            a == messages \o (IF front = NoName THEN <<>> ELSE <<F>>)
<1>1. ms = a \o <<T>>
  BY DEF WithScreen, Empty
<1>. HIDE DEF T, F
<1>2. Listed(a)
  <2>1. CASE front = NoName
    BY <2>1, JoinNone
  <2>2. CASE front # NoName
    BY <2>2, JoinOne
  <2>. QED  BY <2>1, <2>2
<1>. HIDE DEF a
<1>3. Listed(ms) /\ Len(ms) = Len(a) + 1 /\ ms[Len(a) + 1] = T
  BY <1>1, <1>2, JoinOne
<1>4. Len(a) \in Nat
  BY <1>2, ListedLen
<1>. QED  BY <1>3, <1>4 DEF T

\* What is seen on the latest snapshot is sighted first.
LEMMA NewestIsSighted ==
    ASSUME NEW label, NEW messages, Listed(messages), NEW front, NEW targets,
           DOMAIN targets \subseteq Nat, NEW n \in DOMAIN targets, Fits(label, targets[n])
    PROVE  \E k \in DOMAIN targets :
             Sightings(label, WithScreen(messages, front, targets)) = << targets[k] >>
<1>. DEFINE ms == WithScreen(messages, front, targets)
            found == [i \in DOMAIN ms |-> TargetIn(label, ms[i])]
            len == Len(ms)
            last == 8
<1>1. ~Empty(targets) /\ ms = WithScreen(messages, front, targets)
  BY DEF Empty
<1>. HIDE DEF ms
<1>2. Listed(ms) /\ Len(ms) \in 1 .. Len(ms) /\ ms[Len(ms)] = Message(<<>>, <<>>, targets)
  <2>1. Listed(ms)
    BY <1>1, WithScreenIs
  <2>2. Len(ms) \in 1 .. Len(ms) /\ ms[Len(ms)] = Message(<<>>, <<>>, targets)
    BY <1>1, TargetsAreLast
  <2>. QED  BY <2>1, <2>2
<1>3. len \in Nat /\ DOMAIN ms = 1 .. len /\ 8 \in Nat
  BY <1>2, ListedLen
<1>4. DOMAIN found = 1 .. len /\ Len(found) = len
  <2>1. found = [i \in 1 .. len |-> found[i]]
    BY <1>3
  <2>. QED  BY <1>3, <2>1, ListedIs
<1>5. PICK k \in DOMAIN targets : found[len] = << targets[k] >>
  <2>. DEFINE m == Message(<<>>, <<>>, targets)
  <2>1. m.targets = targets
    BY DEF Message
  <2>2. found[len] = TargetIn(label, m)
    BY <1>2, <1>3
  <2>. HIDE DEF m, found
  <2>3. \E k \in DOMAIN targets : TargetIn(label, m) = << targets[k] >>
    BY <2>1, TargetInIs
  <2>. QED  BY <2>2, <2>3
<1>6. Sightings(label, ms) = FromLatest(found, last)
  BY DEF Sightings
<1>7. len \in 1 .. len
  BY <1>2
<1>. HIDE DEF found, len
<1>8. /\ found[len] # <<>> /\ len > len - last /\ last \in Nat
      /\ \A j \in 1 .. len : j > len => found[j] = <<>>
  BY <1>3, <1>5, NotEmpty
<1>. HIDE DEF last
<1>9. FromLatest(found, last) = found[len]
  BY <1>3, <1>4, <1>7, <1>8, FromLast
<1>. QED  BY <1>5, <1>6, <1>9 DEF ms
-----------------------------------------------------------------------------
(* What is proposed.                                                       *)

LEMMA FirstOfIs ==
    ASSUME NEW n \in Nat, NEW cases, DOMAIN cases = 1 .. n
    PROVE  FirstOf(cases) = NoProposal \/ \E i \in 1 .. n : FirstOf(cases) = cases[i].proposal
<1>. DEFINE holding == {i \in DOMAIN cases : cases[i].holds}
<1>1. holding \subseteq Nat /\ holding \subseteq 1 .. n
  OBVIOUS
<1>2. CASE holding = {}
  BY <1>2 DEF FirstOf
<1>3. CASE holding # {}
  <2>1. Min(holding) \in 1 .. n
    BY <1>1, <1>3, MinIs
  <2>2. FirstOf(cases) = cases[Min(holding)].proposal
    BY <1>3 DEF FirstOf
  <2>. QED  BY <2>1, <2>2
<1>. QED  BY <1>2, <1>3

\* What all the cases of the two functions have in common.
Proper(p, cmd, messages, system) ==
    /\ p.points = <<>> \/ p.points = Points(cmd, messages)
    /\ p.act = "click" => p.points = Points(cmd, messages)
    /\ p.risk = "High" => p.act \in {"close", "delete", "uninstall"}
    /\ system /\ p.act \in {"open", "close"} => p.on = ResolveApp(cmd, messages)
    /\ system /\ p.act \in {"type", "click"} => p.focus = First(RecentApps(messages))

LEMMA WhenIs == \A condition, proposal : When(condition, proposal).proposal = proposal
BY DEF When

\* _propose_windows_script
LEMMA WindowsProposalIs ==
    ASSUME NEW cmd, NEW messages
    PROVE  Proper(WindowsProposal(cmd, messages), cmd, messages, TRUE)
<1>. DEFINE control == cmd.intent = "APP_CONTROL"
            app == ResolveApp(cmd, messages)
            front == First(RecentApps(messages))
            recent == IF Says(cmd, "write") /\ Says(cmd, "into") THEN First(RecentFiles(messages))
                      ELSE NoName
            file == IF cmd.file # NoName THEN cmd.file ELSE recent
            filed == cmd.intent = "FILE_SYSTEM_WRITE" /\ file # NoName
            packaged == /\ cmd.intent = "DEVOPS_WRITE" \/ Says(cmd, "install")
                        /\ cmd.app # NoName
            points == Points(cmd, messages)
            cases == <<
              When(Says(cmd, "next"), Act("media", "next", "Medium")),
              When(Says(cmd, "previous"), Act("media", "previous", "Medium")),
              When(Says(cmd, "pause"), Act("media", "pause", "Medium")),
              When(control /\ Says(cmd, "close") /\ app # NoName, Act("close", app, "High")),
              When(control /\ Says(cmd, "open") /\ app # NoName, Act("open", app, "Medium")),
              When(control /\ Says(cmd, "type") /\ cmd.text,
                   [Act("type", NoName, "Medium") EXCEPT !.focus = front]),
              When(control /\ Says(cmd, "click"),
                   [Act("click", NoName, "Medium") EXCEPT !.focus = front, !.points = points]),
              When(filed /\ Says(cmd, "delete"), Act("delete", file, "High")),
              When(filed /\ Says(cmd, "write"), Act("write", file, "Medium")),
              When(filed /\ Says(cmd, "create"), Act("create", file, "Medium")),
              When(packaged /\ Says(cmd, "uninstall"), Act("uninstall", cmd.app, "High")),
              When(packaged /\ Says(cmd, "install"), Act("install", cmd.app, "Medium")) >>
            Good(p) == Proper(p, cmd, messages, TRUE)
<1>1. WindowsProposal(cmd, messages) = FirstOf(cases)
  BY DEF WindowsProposal
<1>2. DOMAIN cases = 1 .. 12 /\ 12 \in Nat
  OBVIOUS
<1>3. /\ Good(NoProposal)
      /\ \A on : Good(Act("media", on, "Medium"))
      /\ Good(Act("close", app, "High")) /\ Good(Act("open", app, "Medium"))
      /\ \A on : Good(Act("delete", on, "High")) /\ Good(Act("uninstall", on, "High"))
      /\ \A on : /\ Good(Act("write", on, "Medium")) /\ Good(Act("create", on, "Medium"))
                 /\ Good(Act("install", on, "Medium"))
  BY DEF Proper, Act, NoProposal
<1>4. Good([Act("type", NoName, "Medium") EXCEPT !.focus = front])
  BY DEF Proper, Act
<1>5. Good([Act("click", NoName, "Medium") EXCEPT !.focus = front, !.points = points])
  BY DEF Proper, Act
<1>. HIDE DEF Good, control, app, front, recent, file, filed, packaged, points
<1>6. \A i \in 1 .. 12 : Good(cases[i].proposal)
  <2>1. Good(cases[1].proposal) /\ Good(cases[2].proposal) /\ Good(cases[3].proposal)
    BY <1>3, WhenIs
  <2>2. Good(cases[4].proposal) /\ Good(cases[5].proposal) /\ Good(cases[6].proposal)
    BY <1>3, <1>4, WhenIs
  <2>3. Good(cases[7].proposal) /\ Good(cases[8].proposal) /\ Good(cases[9].proposal)
    BY <1>3, <1>5, WhenIs
  <2>4. Good(cases[10].proposal) /\ Good(cases[11].proposal) /\ Good(cases[12].proposal)
    BY <1>3, WhenIs
  <2>. HIDE DEF cases
  <2>5. \A i \in 1 .. 12 : i \in 1 .. 3 \/ i \in 4 .. 6 \/ i \in 7 .. 9 \/ i \in 10 .. 12
    OBVIOUS
  <2>. QED  BY <2>1, <2>2, <2>3, <2>4, <2>5
<1>. HIDE DEF cases
<1>7. Good(FirstOf(cases))
  BY <1>2, <1>3, <1>6, FirstOfIs
<1>. QED  BY <1>1, <1>7 DEF Good

\* _propose_unix_script
LEMMA UnixProposalIs ==
    ASSUME NEW cmd, NEW messages
    PROVE  Proper(UnixProposal(cmd, messages), cmd, messages, FALSE)
<1>. DEFINE Asks(verb) == cmd.intent = "APP_CONTROL" /\ Says(cmd, verb)
            points == Points(cmd, messages)
            cases == <<
              When(Asks("type") /\ cmd.text, Act("type", NoName, "Medium")),
              When(Asks("click") /\ points # <<>>,
                   [Act("click", NoName, "Medium") EXCEPT !.points = points]),
              When(Asks("close") /\ cmd.app # NoName, Act("close", cmd.app, "High")),
              When(Asks("open") /\ cmd.app # NoName, Act("open", cmd.app, "Medium")) >>
            Good(p) == Proper(p, cmd, messages, FALSE)
<1>1. UnixProposal(cmd, messages) = FirstOf(cases)
  BY DEF UnixProposal
<1>2. DOMAIN cases = 1 .. 4 /\ 4 \in Nat
  OBVIOUS
<1>3. /\ Good(NoProposal) /\ Good(Act("type", NoName, "Medium"))
      /\ \A on : Good(Act("close", on, "High")) /\ Good(Act("open", on, "Medium"))
  BY DEF Proper, Act, NoProposal
<1>4. Good([Act("click", NoName, "Medium") EXCEPT !.points = points])
  BY DEF Proper, Act
<1>. HIDE DEF Good, Asks, points
<1>5. \A i \in 1 .. 4 : Good(cases[i].proposal)
  BY <1>3, <1>4, WhenIs
<1>. HIDE DEF cases
<1>6. Good(FirstOf(cases))
  BY <1>2, <1>3, <1>5, FirstOfIs
<1>. QED  BY <1>1, <1>6 DEF Good

LEMMA ProposeIs ==
    ASSUME NEW cmd, NEW messages, NEW system \in BOOLEAN
    PROVE  Proper(Propose(cmd, messages, system), cmd, messages, system)
BY WindowsProposalIs, UnixProposalIs DEF Propose
-----------------------------------------------------------------------------
(* What is seen, as time passes.                                           *)

TimePasses == (changes' = changes /\ screen' = screen) \/ changes' = changes + 1

LEMMA SeenStays ==
    ASSUME changes \in Nat, TimePasses, NEW t, Seen(t, changes, screen.at)
    PROVE  Seen(t, changes', screen'.at)
BY DEF TimePasses, Seen

LEMMA SightedStays ==
    ASSUME changes \in Nat, TimePasses, NEW targets, Sighted(targets, changes, screen.at)
    PROVE  Sighted(targets, changes', screen'.at)
BY SeenStays DEF Sighted

LEMMA PicturedStays ==
    ASSUME changes \in Nat, TimePasses, NEW shot, Pictured(shot, changes, screen.at)
    PROVE  Pictured(shot, changes', screen'.at)
<1>1. \A m : m \in 0 .. changes => m \in 0 .. changes'
  BY DEF TimePasses
<1>. QED  BY <1>1, SeenStays DEF Pictured

LEMMA AimedStays ==
    ASSUME changes \in Nat, TimePasses, NEW proposal, NEW label,
           Aimed(proposal, label, changes, screen.at)
    PROVE  Aimed(proposal, label, changes', screen'.at)
<1>. SUFFICES ASSUME proposal.points # <<>>
              PROVE  /\ Seen(Point(proposal), changes', screen'.at)
                     /\ Point(proposal).seen = changes' => Alike(label, Point(proposal).label)
  BY DEF Aimed
<1>1. Seen(Point(proposal), changes, screen.at)
  BY DEF Aimed
<1>2. Seen(Point(proposal), changes', screen'.at)
  BY <1>1, SeenStays
<1>3. Point(proposal).seen \in 0 .. changes
  BY <1>1 DEF Seen
<1>4. ASSUME Point(proposal).seen = changes' PROVE Point(proposal).seen = changes
  BY <1>3, <1>4 DEF TimePasses
<1>. QED  BY <1>2, <1>4 DEF Aimed

\* The parts of the invariant while only time passes.
LEMMA TalkStays ==
    ASSUME Inv, TalkFits, TimePasses, UNCHANGED talk
    PROVE  TalkFits'
BY SightedStays DEF Inv, DeviceFits, TalkFits

LEMMA ImagesStay ==
    ASSUME Inv, ImagesFit, TimePasses, UNCHANGED snapshots
    PROVE  ImagesFit'
BY PicturedStays DEF Inv, DeviceFits, ImagesFit

\* A row keeps its script, and a new one takes that of the terminal.
SameScripts ==
    \A c \in Commands' :
        \/ /\ c \in Commands
           /\ commands'[c].proposal = commands[c].proposal /\ commands'[c].label = commands[c].label
        \/ commands'[c].proposal = terminal.proposal /\ commands'[c].label = terminal.cmd.label

LEMMA AimsStay ==
    ASSUME Inv, AimsFit, TimePasses, SameScripts,
           Aimed(terminal'.proposal, terminal'.cmd.label, changes, screen.at)
    PROVE  AimsFit'
<1>1. changes \in Nat /\ changes' # 0
  BY DEF Inv, DeviceFits, AimsFit, TimePasses
<1>2. Aimed(terminal'.proposal, terminal'.cmd.label, changes', screen'.at)
  BY <1>1, AimedStays
<1>3. ASSUME NEW c \in Commands'
      PROVE  Aimed(commands'[c].proposal, commands'[c].label, changes', screen'.at)
  <2>1. Aimed(commands'[c].proposal, commands'[c].label, changes, screen.at)
    BY DEF SameScripts, AimsFit
  <2>. QED  BY <1>1, <2>1, AimedStays
<1>. QED  BY <1>1, <1>2, <1>3 DEF AimsFit

LEMMA ShownStays ==
    ASSUME ShownFits, (UNCHANGED <<windows, terminal>>) \/ terminal'.pc # "shown"
    PROVE  ShownFits'
BY DEF ShownFits, NewestSnapshotWins, ReferenceIsOnScreen, NewestSightingIsClicked,
       HighIsShownHigh, Shown, Does

LEMMA ClickStays ==
    ASSUME ClickLands, history'.click = history.click
    PROVE  ClickLands'
BY DEF ClickLands

\* What is in a summary is on its image.
LEMMA SummariesFit ==
    ASSUME NEW shot, NEW moment, NEW at, Pictured(shot, moment, at), NEW targets \in Summaries(shot)
    PROVE  /\ Sighted(targets, moment, at)
           /\ \A k \in DOMAIN targets : targets[k].seen = shot.moment
<1>. DEFINE visible == {c \in DOMAIN shot.image : shot.image[c] # Hidden}
            Target(c) == Sighting(c, shot.image[c], shot.moment)
            n == Cardinality(visible)
<1>1. CASE targets = <<>>
  BY <1>1 DEF Sighted
<1>2. CASE targets # <<>>
  <2>1. PICK order \in [1 .. n -> visible] : targets = [i \in DOMAIN order |-> Target(order[i])]
    BY <1>2 DEF Summaries
  <2>2. /\ DOMAIN targets = 1 .. n
        /\ \A i \in 1 .. n : order[i] \in visible /\ targets[i] = Target(order[i])
    BY <2>1
  <2>. HIDE DEF n
  <2>3. 1 .. n \subseteq Nat
    OBVIOUS
  <2>4. \A i \in 1 .. n : Seen(targets[i], moment, at)
    BY <2>2 DEF Pictured
  <2>5. \A i \in 1 .. n : targets[i].seen = shot.moment
    BY <2>2 DEF Sighting
  <2>. QED  BY <2>2, <2>3, <2>4, <2>5 DEF Sighted
<1>. QED  BY <1>1, <1>2
-----------------------------------------------------------------------------
(* An analysis.                                                            *)

SightedAll(messages) ==
    Listed(messages) /\ \A i \in DOMAIN messages : Sighted(messages[i].targets, changes, screen.at)

\* What a command aims at, by what the messages have.
LEMMA ProposalAims ==
    ASSUME Inv, AimsFit, NEW cmd \in Asked \cup Repaired, NEW messages, SightedAll(messages),
           NEW p, NEW system, Proper(p, cmd, messages, system)
    PROVE  Aimed(p, cmd.label, changes, screen.at)
<1>. SUFFICES ASSUME p.points # <<>>
              PROVE  /\ Seen(Point(p), changes, screen.at)
                     /\ Point(p).seen = changes => Alike(cmd.label, Point(p).label)
  BY DEF Aimed
<1>1. p.points = Points(cmd, messages) /\ changes \in Nat /\ changes # 0
  BY DEF Proper, Inv, DeviceFits, AimsFit
<1>2. /\ Listed(messages)
      /\ \A i \in DOMAIN messages : DOMAIN messages[i].targets \subseteq Nat
  BY DEF SightedAll, Sighted
<1>3. CASE cmd.points # <<>> /\ Points(cmd, messages) = << Head(cmd.points) >>
  <2>1. Point(p) = Head(cmd.points)
    BY <1>1, <1>3, NotEmpty DEF Point
  <2>2. Point(p).seen = 0
    BY <1>3, <2>1, CommandsAssumption DEF Written
  <2>. QED  BY <1>1, <2>2 DEF Seen
<1>4. CASE \E i \in DOMAIN messages : \E k \in DOMAIN messages[i].targets :
              /\ Points(cmd, messages) = << messages[i].targets[k] >>
              /\ Fits(cmd.label, messages[i].targets[k])
  <2>1. PICK i \in DOMAIN messages : \E k \in DOMAIN messages[i].targets :
              /\ Points(cmd, messages) = << messages[i].targets[k] >>
              /\ Fits(cmd.label, messages[i].targets[k])
    BY <1>4
  <2>. PICK k \in DOMAIN messages[i].targets :
              /\ Points(cmd, messages) = << messages[i].targets[k] >>
              /\ Fits(cmd.label, messages[i].targets[k])
    BY <2>1
  <2>2. Point(p) = messages[i].targets[k]
    BY <1>1, NotEmpty DEF Point
  <2>3. Seen(messages[i].targets[k], changes, screen.at)
    BY DEF SightedAll, Sighted
  <2>. QED  BY <2>2, <2>3 DEF Fits
<1>. QED  BY <1>1, <1>2, <1>3, <1>4, PointsAre

\* A control of the latest snapshot is aimed at there.
LEMMA NewestIsAimedAt ==
    ASSUME NEW cmd, cmd.points = <<>>, NEW messages, Listed(messages), NEW front, NEW targets,
           DOMAIN targets \subseteq Nat, NEW n \in DOMAIN targets, Fits(cmd.label, targets[n])
    PROVE  \E k \in DOMAIN targets :
             Points(cmd, WithScreen(messages, front, targets)) = << targets[k] >>
BY NewestIsSighted DEF Points

\* The shot a proposal is made by is the latest row, or none.
LEMMA LatestIsPictured ==
    ASSUME Inv, ImagesFit
    PROVE  Pictured(LatestShot, changes, screen.at)
<1>1. changes \in Nat
  BY DEF Inv, DeviceFits
<1>2. CASE snapshots = <<>>
  BY <1>1, <1>2 DEF LatestShot, NoShot, Pictured
<1>3. CASE snapshots # <<>>
  <2>1. snapshots \in Seq(Shots)
    BY DEF Inv, RowsFit
  <2>2. Len(snapshots) \in DOMAIN snapshots /\ LatestShot = snapshots[Len(snapshots)]
    BY <1>3, <2>1 DEF LatestShot, Last
  <2>. QED  BY <2>2 DEF ImagesFit
<1>. QED  BY <1>2, <1>3

\* What one more message does to the conversation.
LEMMA OneMore ==
    ASSUME NEW messages, SightedAll(messages), NEW m, Sighted(m.targets, changes, screen.at)
    PROVE  SightedAll(Append(messages, m))
<1>. DEFINE t == Append(messages, m)
<1>1. /\ Listed(t) /\ DOMAIN t = 1 .. Len(messages) + 1 /\ DOMAIN messages = 1 .. Len(messages)
      /\ Len(messages) \in Nat
      /\ \A i \in DOMAIN messages : t[i] = messages[i]
      /\ t[Len(messages) + 1] = m
  BY AppendListed DEF SightedAll
<1>. HIDE DEF t
<1>2. \A i \in DOMAIN t : i \in DOMAIN messages \/ i = Len(messages) + 1
  BY <1>1
<1>3. ASSUME NEW i \in DOMAIN t PROVE Sighted(t[i].targets, changes, screen.at)
  <2>1. CASE i \in DOMAIN messages
    BY <1>1, <2>1 DEF SightedAll
  <2>2. CASE i = Len(messages) + 1
    BY <1>1, <2>2
  <2>. QED  BY <1>2, <2>1, <2>2
<1>. QED  BY <1>1, <1>3 DEF SightedAll, t

LEMMA NothingSighted == \A moment, at : Sighted(<<>>, moment, at)
BY DEF Sighted

\* What is looked through: the conversation, and the snapshot behind it.
LEMMA ScreenIsSighted ==
    ASSUME NEW messages, SightedAll(messages), NEW front, NEW targets,
           Sighted(targets, changes, screen.at)
    PROVE  SightedAll(WithScreen(messages, front, targets))
<1>. DEFINE ms == WithScreen(messages, front, targets)
<1>1. /\ Listed(ms)
      /\ \A i \in DOMAIN ms : \/ i \in DOMAIN messages /\ ms[i] = messages[i]
                              \/ ms[i] = Message(<<front>>, <<front>>, <<>>)
                              \/ ms[i] = Message(<<>>, <<>>, targets)
  BY WithScreenIs DEF SightedAll
<1>. HIDE DEF ms
<1>2. /\ Message(<<front>>, <<front>>, <<>>).targets = <<>>
      /\ Message(<<>>, <<>>, targets).targets = targets
  BY DEF Message
<1>3. ASSUME NEW i \in DOMAIN ms PROVE Sighted(ms[i].targets, changes, screen.at)
  BY <1>1, <1>2, NothingSighted DEF SightedAll
<1>. QED  BY <1>1, <1>3 DEF SightedAll, ms

\* prepare_device_context_for_graph to the proposal: what is shown is about the
\* newest snapshot, and what is said next is no later than it.
LEMMA AnalysisAims ==
    ASSUME Inv, AimInv, NEW prompt, Sighted(prompt.targets, changes, screen.at),
           NEW cmd \in Asked \cup Repaired, NEW repair, Analysis(prompt, cmd, repair),
           UNCHANGED windows
    PROVE  /\ SightedAll(talk')
           /\ Aimed(terminal'.proposal, terminal'.cmd.label, changes, screen.at)
           /\ ShownFits'
<1>. DEFINE before == Append(talk, prompt)
            front == LatestShot.front
<1>1. PICK targets \in Summaries(LatestShot) :
        LET proposal == Propose(cmd, WithScreen(before, front, targets), windows)
        IN  /\ talk' = before \o (IF proposal.act = "none" THEN <<>> ELSE <<Explained(proposal)>>)
            /\ terminal' = IF proposal.act = "none" THEN Idle
                           ELSE [Idle EXCEPT !.pc = "shown", !.task = history.asks + 1,
                                    !.cmd = cmd, !.proposal = proposal,
                                    !.risk = ShownRisk(proposal, cmd.intent, windows),
                                    !.shot = LatestShot, !.seen = targets,
                                    !.repair = repair]
  BY DEF Analysis
<1>. DEFINE ms == WithScreen(before, front, targets)
            proposal == Propose(cmd, ms, windows)
<1>2. SightedAll(before)
  BY OneMore DEF AimInv, TalkFits, SightedAll
<1>3. /\ Sighted(targets, changes, screen.at)
      /\ \A k \in DOMAIN targets : targets[k].seen = LatestShot.moment
  BY SummariesFit, LatestIsPictured DEF AimInv
<1>. HIDE DEF before, front
<1>4. SightedAll(ms)
  BY <1>2, <1>3, ScreenIsSighted
<1>5. Proper(proposal, cmd, ms, windows)
  <2>1. windows \in BOOLEAN
    BY DesktopAssumption DEF Inv, DeviceFits
  <2>. QED  BY <2>1, ProposeIs
<1>6. SightedAll(talk')
  <2>. DEFINE m == Explained(proposal)
  <2>1. Sighted(m.targets, changes, screen.at)
    BY NothingSighted DEF Explained, Message
  <2>. HIDE DEF m
  <2>2. talk' = before \/ talk' = before \o <<m>>
    BY <1>1, <1>2, JoinNone DEF m, SightedAll
  <2>3. before \o <<m>> = Append(before, m)
    <3>. DEFINE S == {before[i] : i \in DOMAIN before} \cup {m}
    <3>1. before \in Seq(S) /\ m \in S
      BY <1>2 DEF SightedAll, Listed
    <3>. QED  BY <3>1, AppendIsConcat
  <2>. QED  BY <1>2, <2>1, <2>2, <2>3, OneMore
<1>7. CASE proposal.act = "none"
  <2>1. terminal' = Idle
    BY <1>1, <1>7
  <2>2. terminal'.proposal.points = <<>> /\ terminal'.pc # "shown"
    BY <2>1 DEF Idle, NoProposal, Act
  <2>. QED  BY <1>6, <2>2, ShownStays DEF Aimed, AimInv
<1>8. CASE proposal.act # "none"
  <2>1. /\ terminal'.cmd = cmd /\ terminal'.proposal = proposal
        /\ terminal'.risk = ShownRisk(proposal, cmd.intent, windows)
        /\ terminal'.shot = LatestShot /\ terminal'.seen = targets
    BY <1>1, <1>8 DEF Idle
  <2>2. Aimed(proposal, cmd.label, changes, screen.at)
    BY <1>4, <1>5, ProposalAims DEF AimInv
  <2>3. HighIsShownHigh'
    BY <1>5, <2>1 DEF HighIsShownHigh, Proper, ShownRisk, Marked, Shown
  <2>4. ReferenceIsOnScreen'
    <3>. SUFFICES ASSUME windows, Usable(front)
                  PROVE  /\ /\ proposal.act \in {"open", "close"}
                            /\ ~Usable(cmd.app) /\ ~Usable(cmd.mentioned)
                            => proposal.on = front
                         /\ proposal.act \in {"type", "click"} => proposal.focus = front
      BY <2>1 DEF ReferenceIsOnScreen, Shown, Does, front
    <3>1. First(RecentApps(ms)) = front
      BY <1>2, RecentIsFront DEF SightedAll
    <3>. QED  BY <1>5, <3>1 DEF Proper, ResolveApp
  <2>5. NewestSightingIsClicked'
    <3>. SUFFICES ASSUME proposal.act = "click", cmd.points = <<>>,
                         NEW n \in DOMAIN targets, Fits(cmd.label, targets[n])
                  PROVE  Point(proposal).seen = LatestShot.moment
      BY <2>1 DEF NewestSightingIsClicked, Shown, Does
    <3>1. PICK k \in DOMAIN targets : Points(cmd, ms) = << targets[k] >>
      BY <1>2, <1>3, NewestIsAimedAt DEF SightedAll, Sighted
    <3>2. proposal.points = << targets[k] >>
      BY <1>5, <3>1 DEF Proper
    <3>. QED  BY <1>3, <3>2, NotEmpty DEF Point
  <2>. QED  BY <1>6, <2>1, <2>2, <2>3, <2>4, <2>5 DEF ShownFits, NewestSnapshotWins
<1>. QED  BY <1>7, <1>8
-----------------------------------------------------------------------------
(* The steps.                                                              *)

LEMMA AimInit == Init => AimInv
<1>. SUFFICES ASSUME Init PROVE AimInv
  OBVIOUS
<1>1. TalkFits /\ ImagesFit
  BY DEF Init, TalkFits, ImagesFit, Listed
<1>2. AimsFit
  BY DEF Init, AimsFit, Aimed, Idle, NoProposal, Act, Commands
<1>3. ShownFits
  BY DEF Init, ShownFits, NewestSnapshotWins, ReferenceIsOnScreen, NewestSightingIsClicked,
         HighIsShownHigh, Shown, Idle
<1>4. ClickLands
  BY DEF Init, ClickLands, NoHistory
<1>. QED  BY <1>1, <1>2, <1>3, <1>4 DEF AimInv

\* The picture of now shows what is seen now.
LEMMA CapturePictures ==
    ASSUME Inv, NEW task, NEW shot \in Captures(task)
    PROVE  Pictured(shot, changes, screen.at)
<1>1. changes \in Nat /\ ScreenWidth \in Nat /\ ImageWidth \in Nat
  BY DesktopAssumption DEF Inv, DeviceFits
<1>2. /\ shot.moment = changes
      /\ shot.image = [c \in DOMAIN screen.at |-> InImage(screen.at[c])]
  BY DEF Captures
<1>3. ASSUME ScreenWidth <= ImageWidth PROVE \A at : InImage(at) = at
  BY <1>1, <1>3 DEF InImage
<1>4. ASSUME NEW c \in DOMAIN shot.image
      PROVE  Seen(Sighting(c, shot.image[c], shot.moment), changes, screen.at)
  <2>1. /\ c \in DOMAIN screen.at /\ shot.image[c] = InImage(screen.at[c])
    BY <1>2, <1>4
  <2>. DEFINE t == Sighting(c, shot.image[c], shot.moment)
  <2>2. t.label = c /\ t.at = InImage(screen.at[c]) /\ t.seen = changes
    BY <1>2, <2>1 DEF Sighting
  <2>. HIDE DEF t
  <2>3. t.seen \in 0 .. changes
    BY <1>1, <2>2
  <2>. QED  BY <1>3, <2>1, <2>2, <2>3 DEF Seen, t
<1>. QED  BY <1>1, <1>2, <1>4 DEF Pictured

\* A row that is added, and the rows that stay.
LEMMA SubmitPictures ==
    ASSUME Inv, ImagesFit, NEW task \in 0 .. MaxAsks, Submit(task), UNCHANGED <<screen, changes>>
    PROVE  ImagesFit'
<1>. DEFINE old == Len(snapshots)
            len == IF old < Keep THEN old + 1 ELSE Keep
<1>. PICK shot \in Captures(task) : snapshots' = Recorded(shot)
  BY DEF Submit
<1>1. shot \in Shots /\ Pictured(shot, changes, screen.at)
  BY CaptureType, CapturePictures DEF Submit
<1>2. snapshots' = Recorded(shot)
  OBVIOUS
<1>3. /\ snapshots' \in Seq(Shots) /\ Len(snapshots') = len /\ snapshots'[len] = shot
      /\ \A i \in 1 .. len - 1 : /\ i + 1 + old - len \in 1 .. old
                                 /\ snapshots'[i] = snapshots[i + 1 + old - len]
  BY <1>1, <1>2, RecordedRows DEF Inv, RowsFit
<1>4. DOMAIN snapshots = 1 .. old /\ old \in Nat /\ Keep \in Nat
  BY DesktopAssumption DEF Inv, RowsFit
<1>5. len \in Nat /\ DOMAIN snapshots' = 1 .. len
  BY <1>3, <1>4
<1>. HIDE DEF old, len
<1>6. \A i \in 1 .. len - 1 : Pictured(snapshots'[i], changes, screen.at)
  <2>. SUFFICES ASSUME NEW i \in 1 .. len - 1 PROVE Pictured(snapshots'[i], changes, screen.at)
    OBVIOUS
  <2>1. PICK j \in DOMAIN snapshots : snapshots'[i] = snapshots[j]
    BY <1>3, <1>4
  <2>. QED  BY <2>1 DEF ImagesFit
<1>7. \A i \in 1 .. len : i \in 1 .. len - 1 \/ i = len
  BY <1>5
<1>. QED  BY <1>1, <1>3, <1>5, <1>6, <1>7 DEF ImagesFit

\* A command is given the script and the label of the terminal.
LEMMA EnqueueScripts ==
    ASSUME Inv, Enqueue(terminal.task)
    PROVE  SameScripts
<1>. DEFINE row == [task |-> terminal.task, proposal |-> terminal.proposal,
                    label |-> terminal.cmd.label, stage |-> "queued"]
<1>1. commands' = Append(commands, row)
  BY DEF Enqueue
<1>2. row.proposal = terminal.proposal /\ row.label = terminal.cmd.label
  OBVIOUS
<1>. HIDE DEF row
<1>3. /\ Commands' = 1 .. Len(commands) + 1 /\ Commands = 1 .. Len(commands)
      /\ Len(commands) \in Nat
      /\ \A c \in Commands : commands'[c] = commands[c]
      /\ commands'[Len(commands) + 1] = row
  BY <1>1, AppendListed DEF Inv, QueueFits, Commands
<1>4. \A c \in Commands' : c \in Commands \/ c = Len(commands) + 1
  BY <1>3
<1>. QED  BY <1>2, <1>3, <1>4 DEF SameScripts

LEMMA SameRows ==
    ASSUME UNCHANGED commands
    PROVE  SameScripts
BY DEF SameScripts, Commands

\* The click of a script, by the screen that it falls on.
LEMMA EndAims ==
    ASSUME Inv, AimInv, NEW ok \in BOOLEAN, EndScript(ok)
    PROVE  AimInv'
<1>1. UNCHANGED <<windows, commands, snapshots, shots, talk, terminal>>
  BY DEF EndScript
<1>2. TimePasses
  BY DEF EndScript, ShowsOneOf, TimePasses
<1>3. Aimed(terminal'.proposal, terminal'.cmd.label, changes, screen.at)
  BY <1>1 DEF AimInv, AimsFit
<1>4. ClickLands'
  <2>1. CASE history'.click = history.click
    BY <2>1, ClickStays DEF AimInv
  <2>2. CASE history'.click # history.click
    <3>. DEFINE entry == commands[node.no]
                point == Point(entry.proposal)
    <3>1. /\ entry.proposal.points # <<>>
          /\ history'.click = [done |-> TRUE, hit |-> Hits(point.at), label |-> entry.label,
                               current |-> point.seen = changes]
      BY <2>2 DEF EndScript, Clicked, Inv, HistoryFits, NoHistory
    <3>2. /\ Seen(point, changes, screen.at)
          /\ point.seen = changes => Alike(entry.label, point.label)
      <4>1. node.no \in Commands
        BY DEF Inv, NodeFits, EndScript
      <4>. QED  BY <3>1, <4>1 DEF AimInv, AimsFit, Aimed
    <3>. HIDE DEF entry, point
    <3>3. ASSUME point.seen = changes, ScreenWidth <= ImageWidth
          PROVE  point.label \in Hits(point.at) /\ Alike(point.label, entry.label)
      BY <3>2, <3>3 DEF Seen, Hits, Alike
    <3>4. /\ history'.click.current = (point.seen = changes)
          /\ history'.click.hit = Hits(point.at) /\ history'.click.label = entry.label
      BY <3>1
    <3>. SUFFICES ASSUME history'.click.current, ScreenWidth <= ImageWidth
                  PROVE  \E c \in history'.click.hit : Alike(c, history'.click.label)
      BY DEF ClickLands
    <3>5. point.seen = changes
      BY <3>4, Zenon
    <3>. QED  BY <3>3, <3>4, <3>5
  <2>. QED  BY <2>1, <2>2
<1>. QED  BY <1>1, <1>2, <1>3, <1>4, TalkStays, ImagesStay, AimsStay, SameRows, ShownStays
          DEF AimInv

\* What changes neither the proposal nor the click.
LEMMA QuietAims ==
    ASSUME Inv, AimInv, TimePasses, ImagesFit', SameScripts, UNCHANGED <<windows, talk>>,
           history'.click = history.click,
           \/ UNCHANGED terminal
           \/ /\ terminal'.pc # "shown"
              /\ Aimed(terminal'.proposal, terminal'.cmd.label, changes, screen.at)
    PROVE  AimInv'
<1>1. Aimed(terminal'.proposal, terminal'.cmd.label, changes, screen.at)
  BY DEF AimInv, AimsFit
<1>. QED  BY <1>1, TalkStays, AimsStay, ShownStays, ClickStays DEF AimInv

LEMMA StartAims ==
    ASSUME Inv, AimInv, NEW no \in Commands, StartScript(no)
    PROVE  AimInv'
<1>1. UNCHANGED <<windows, commands, snapshots, shots, talk, terminal, history>>
  BY DEF StartScript
<1>2. TimePasses
  BY DEF StartScript, BringsToFront, ShowsOneOf, TimePasses
<1>. QED  BY <1>1, <1>2, SameRows, ImagesStay, QuietAims DEF AimInv

LEMMA ReportAims ==
    ASSUME Inv, AimInv, Report
    PROVE  AimInv'
<1>1. UNCHANGED <<windows, screen, changes, snapshots, shots, talk, terminal, history>>
  BY DEF Report
<1>2. SameScripts
  <2>. DEFINE row == [commands[node.no] EXCEPT !.stage = IF node.ok THEN "done" ELSE "failed"]
  <2>1. commands' = [commands EXCEPT ![node.no] = row]
    BY DEF Report
  <2>2. /\ row.proposal = commands[node.no].proposal /\ row.label = commands[node.no].label
    BY DEF Inv, NodeFits, QueueFits, Report
  <2>. HIDE DEF row
  <2>3. /\ Commands' = Commands
        /\ \A c \in Commands : commands'[c] = IF c = node.no THEN row ELSE commands[c]
    BY <2>1 DEF Commands
  <2>. QED  BY <2>2, <2>3 DEF SameScripts
<1>. QED  BY <1>1, <1>2, QuietAims, ImagesStay DEF TimePasses, AimInv

LEMMA ContextAims ==
    ASSUME Inv, AimInv, PeriodicContext \/ PostContext
    PROVE  AimInv'
<1>1. UNCHANGED <<windows, screen, changes, commands, talk, terminal, history>>
  BY DEF PeriodicContext, PostContext, device
<1>2. \E task \in 0 .. MaxAsks : Submit(task) \/ Lost
  <2>1. CASE PeriodicContext
    <3>1. NoTask \in 0 .. MaxAsks
      BY DesktopAssumption DEF NoTask
    <3>. QED  BY <2>1, <3>1 DEF PeriodicContext
  <2>2. CASE PostContext
    <3>1. commands[node.no].task \in 0 .. MaxAsks
      BY <2>2, DesktopAssumption DEF Inv, NodeFits, QueueFits, PostContext
    <3>. QED  BY <2>2, <3>1 DEF PostContext
  <2>. QED  BY <2>1, <2>2
<1>3. ImagesFit'
  BY <1>1, <1>2, SubmitPictures, ImagesStay DEF AimInv, Lost, TimePasses
<1>. QED  BY <1>1, <1>3, SameRows, QuietAims DEF TimePasses

LEMMA ScreenAims ==
    ASSUME Inv, AimInv, ScreenChanges
    PROVE  AimInv'
<1>1. UNCHANGED <<windows, node, commands, snapshots, shots, talk, terminal, history>>
  BY DEF ScreenChanges
<1>2. TimePasses
  BY DEF ScreenChanges, ShowsOneOf, TimePasses
<1>. QED  BY <1>1, <1>2, SameRows, ImagesStay, QuietAims DEF AimInv

\* What follows a prompt.
LEMMA PromptAims ==
    ASSUME Inv, AimInv, NEW prompt, Sighted(prompt.targets, changes, screen.at),
           NEW cmd \in Asked \cup Repaired, NEW repair, Analysis(prompt, cmd, repair),
           UNCHANGED <<device, commands, snapshots>>, history'.click = history.click
    PROVE  AimInv'
<1>1. /\ SightedAll(talk')
      /\ Aimed(terminal'.proposal, terminal'.cmd.label, changes, screen.at)
      /\ ShownFits'
  BY AnalysisAims DEF device
<1>2. TimePasses /\ changes' = changes /\ screen' = screen
  BY DEF device, TimePasses
<1>3. TalkFits'
  BY <1>1, <1>2 DEF TalkFits, SightedAll
<1>. QED  BY <1>1, <1>2, <1>3, SameRows, ImagesStay, AimsStay, ClickStays DEF AimInv

LEMMA CountingClicks == \A h : DOMAIN h = DOMAIN NoHistory => Counting(h).click = h.click
BY DEF Counting, NoHistory

LEMMA AskAims ==
    ASSUME Inv, AimInv, NEW cmd \in Asked, Ask(cmd)
    PROVE  AimInv'
<1>. DEFINE prompt == Message(<<>>, IF cmd.file = NoName THEN <<>> ELSE <<cmd.file>>, <<>>)
<1>1. /\ Analysis(prompt, cmd, FALSE) /\ UNCHANGED <<device, commands, snapshots>>
      /\ history' = Counting(history)
  BY DEF Ask
<1>2. Sighted(prompt.targets, changes, screen.at)
  BY NothingSighted DEF Message
<1>3. history'.click = history.click
  BY <1>1, CountingClicks DEF Inv, HistoryFits
<1>. HIDE DEF prompt
<1>. QED  BY <1>1, <1>2, <1>3, PromptAims

LEMMA ApproveAims ==
    ASSUME Inv, AimInv, Approve \/ ApproveElsewhere
    PROVE  AimInv'
<1>1. UNCHANGED <<windows, screen, changes, snapshots, talk, history>> /\ Enqueue(terminal.task)
  BY DEF Approve, ApproveElsewhere, device
<1>2. \/ UNCHANGED terminal
      \/ /\ terminal'.pc # "shown"
         /\ Aimed(terminal'.proposal, terminal'.cmd.label, changes, screen.at)
  <2>1. CASE Approve
    <3>1. /\ terminal'.pc = "status" /\ terminal'.proposal = terminal.proposal
          /\ terminal'.cmd = terminal.cmd
      BY <2>1 DEF Approve, Inv, TerminalFits, Idle
    <3>. QED  BY <3>1 DEF AimInv, AimsFit
  <2>2. CASE ApproveElsewhere
    BY <2>2 DEF ApproveElsewhere
  <2>. QED  BY <2>1, <2>2
<1>. QED  BY <1>1, <1>2, EnqueueScripts, ImagesStay, QuietAims DEF TimePasses, AimInv

\* The terminal waits on, or gives up.
Aims(next) == next.pc # "shown" /\ Aimed(next.proposal, next.cmd.label, changes, screen.at)

LEMMA WaitingAims ==
    ASSUME Inv, AimInv
    PROVE  /\ Aims(Idle)
           /\ \A pc, attempt :
                pc # "shown" => Aims([terminal EXCEPT !.pc = pc, !.attempt = attempt])
           /\ \A shot : Aims([terminal EXCEPT !.pc = "verification", !.shot = shot])
<1>1. Aims(Idle)
  BY DEF Aims, Idle, NoProposal, Act, Aimed
<1>2. \A next : next.pc # "shown" /\ next.proposal = terminal.proposal /\ next.cmd = terminal.cmd
                => Aims(next)
  BY DEF Aims, AimInv, AimsFit
<1>3. ASSUME NEW pc, NEW attempt, pc # "shown"
      PROVE  Aims([terminal EXCEPT !.pc = pc, !.attempt = attempt])
  BY <1>2, <1>3 DEF Inv, TerminalFits, Idle
<1>4. ASSUME NEW shot
      PROVE  Aims([terminal EXCEPT !.pc = "verification", !.shot = shot])
  BY <1>2 DEF Inv, TerminalFits, Idle
<1>. QED  BY <1>1, <1>3, <1>4

LEMMA StayAims ==
    ASSUME Inv, AimInv, NEW next, StayWith(next), Aims(next)
    PROVE  AimInv'
<1>1. UNCHANGED <<device, commands, snapshots, shots, talk, history>> /\ terminal' = next
  BY DEF StayWith
<1>2. /\ UNCHANGED windows /\ TimePasses
  BY <1>1 DEF device, TimePasses
<1>3. terminal'.pc # "shown" /\ Aimed(terminal'.proposal, terminal'.cmd.label, changes, screen.at)
  BY <1>1 DEF Aims
<1>. QED  BY <1>1, <1>2, <1>3, SameRows, ImagesStay, QuietAims DEF AimInv

LEMMA AgainAims ==
    ASSUME Inv, AimInv, NEW pc \in {"status", "context"}, Again(pc)
    PROVE  AimInv'
<1>. DEFINE next == IF terminal.attempt + 1 < MaxAttempts
                    THEN [terminal EXCEPT !.pc = pc, !.attempt = terminal.attempt + 1]
                    ELSE Idle
<1>1. StayWith(next)
  BY Zenon DEF Again
<1>2. Aims(next)
  BY WaitingAims
<1>. HIDE DEF next
<1>. QED  BY <1>1, <1>2, StayAims

\* A repair quotes the script, and what a summary had.
LEMMA RepairAims ==
    ASSUME Inv, AimInv, NEW targets, Sighted(targets, changes, screen.at), NEW verification,
           AskForRepair(targets, verification), history'.click = history.click
    PROVE  AimInv'
<1>1. UNCHANGED <<device, commands, snapshots, shots>>
  BY DEF AskForRepair
<1>2. CASE history.asks < MaxAsks
  <2>1. PICK cmd \in Repaired : Analysis(Quoted(terminal.proposal, targets), cmd, verification)
    BY <1>2 DEF AskForRepair
  <2>2. Quoted(terminal.proposal, targets).targets = targets
    BY DEF Quoted, Message
  <2>. DEFINE prompt == Quoted(terminal.proposal, targets)
  <2>3. cmd \in Asked \cup Repaired /\ Analysis(prompt, cmd, verification)
        /\ Sighted(prompt.targets, changes, screen.at)
    BY <2>1, <2>2
  <2>. HIDE DEF prompt
  <2>. QED  BY <1>1, <2>3, PromptAims
<1>3. CASE ~(history.asks < MaxAsks)
  <2>1. terminal' = Idle /\ UNCHANGED talk
    BY <1>3 DEF AskForRepair
  <2>2. Aims(Idle)
    BY WaitingAims
  <2>3. UNCHANGED windows /\ TimePasses
    BY <1>1 DEF device, TimePasses
  <2>4. terminal'.pc # "shown" /\ Aimed(terminal'.proposal, terminal'.cmd.label, changes, screen.at)
    BY <2>1, <2>2 DEF Aims
  <2>. QED  BY <1>1, <2>1, <2>3, <2>4, SameRows, ImagesStay, QuietAims DEF AimInv
<1>. QED  BY <1>2, <1>3

LEMMA PollAims ==
    ASSUME Inv, AimInv, PollStatus
    PROVE  AimInv'
<1>1. CASE Again("status")
  BY <1>1, AgainAims
<1>2. CASE StayWith([terminal EXCEPT !.pc = "context", !.attempt = 0])
  BY <1>2, WaitingAims, StayAims
<1>3. CASE AskForRepair(<<>>, FALSE) /\ history' = Counting(history)
  <2>1. history'.click = history.click
    BY <1>3, CountingClicks DEF Inv, HistoryFits
  <2>. QED  BY <1>3, <2>1, NothingSighted, RepairAims
<1>. QED  BY <1>1, <1>2, <1>3 DEF PollStatus

LEMMA WaitAims ==
    ASSUME Inv, AimInv, WaitForContext
    PROVE  AimInv'
<1>1. CASE Again("context")
  BY <1>1, AgainAims
<1>2. ASSUME NEW shot, StayWith([terminal EXCEPT !.pc = "verification", !.shot = shot])
      PROVE  AimInv'
  BY <1>2, WaitingAims, StayAims
<1>. QED  BY <1>1, <1>2 DEF WaitForContext

LEMMA VerifyAims ==
    ASSUME Inv, AimInv, Verify
    PROVE  AimInv'
<1>1. CASE StayWith(Idle)
  BY <1>1, WaitingAims, StayAims
<1>2. ASSUME NEW shot \in PostCommandContext(terminal.task), NEW targets \in Summaries(shot),
             NEW judged,
             judged = [history EXCEPT !.judged = [task |-> terminal.task, ran |-> shot.ran]],
             \/ /\ terminal' = Idle /\ history' = judged
                /\ UNCHANGED <<device, commands, snapshots, shots, talk>>
             \/ AskForRepair(targets, TRUE) /\ history' = Counting(judged)
      PROVE  AimInv'
  <2>1. DOMAIN judged = DOMAIN NoHistory /\ judged.click = history.click
    BY <1>2 DEF Inv, HistoryFits, NoHistory
  <2>2. history'.click = history.click
    BY <1>2, <2>1, CountingClicks
  <2>3. CASE AskForRepair(targets, TRUE)
    <3>1. Pictured(shot, changes, screen.at)
      BY DEF PostCommandContext, OfTask, AimInv, ImagesFit
    <3>2. Sighted(targets, changes, screen.at)
      BY <3>1, SummariesFit
    <3>. QED  BY <2>2, <2>3, <3>2, RepairAims
  <2>4. CASE terminal' = Idle /\ UNCHANGED <<device, commands, snapshots, shots, talk>>
    <3>1. UNCHANGED windows /\ TimePasses
      BY <2>4 DEF device, TimePasses
    <3>2. /\ terminal'.pc # "shown"
          /\ Aimed(terminal'.proposal, terminal'.cmd.label, changes, screen.at)
      BY <2>4, WaitingAims DEF Aims
    <3>. QED  BY <2>2, <2>4, <3>1, <3>2, SameRows, ImagesStay, QuietAims DEF AimInv
  <2>. QED  BY <1>2, <2>3, <2>4
<1>. QED  BY <1>1, <1>2, Zenon DEF Verify

LEMMA FailsAims ==
    ASSUME Inv, AimInv, RequestFails
    PROVE  AimInv'
BY WaitingAims, StayAims DEF RequestFails

LEMMA StutterAims ==
    ASSUME Inv, AimInv, UNCHANGED vars
    PROVE  AimInv'
<1>1. /\ UNCHANGED <<windows, commands, snapshots, talk, terminal, history>> /\ TimePasses
  BY DEF vars, TimePasses
<1>. QED  BY <1>1, SameRows, ImagesStay, QuietAims DEF AimInv

\* What is seen, said, aimed at and shown fits together in all states.
THEOREM DesktopAims == Spec => []AimInv
<1>1. Inv /\ AimInv /\ [Next]_vars => AimInv'
  <2>. SUFFICES ASSUME Inv, AimInv, [Next]_vars PROVE AimInv'
    OBVIOUS
  <2>1. CASE Terminal
    BY <2>1, PollAims, WaitAims, VerifyAims DEF Terminal
  <2>2. CASE Node
    BY <2>2, ContextAims, StartAims, EndAims, ReportAims DEF Node
  <2>3. CASE Users
    BY <2>3, AskAims, ApproveAims DEF Users
  <2>4. CASE ScreenChanges
    BY <2>4, ScreenAims
  <2>5. CASE RequestFails
    BY <2>5, FailsAims
  <2>6. CASE UNCHANGED vars
    BY <2>6, StutterAims
  <2>. QED  BY <2>1, <2>2, <2>3, <2>4, <2>5, <2>6 DEF Next
<1>. QED  BY AimInit, DesktopFits, <1>1, PTL DEF Spec

\* A command's pronoun means the program in front, and its label the control of the
\* newest snapshot, however old prompts, quoted scripts and earlier summaries are
\* mixed before it (_messages_with_screen_context, propose_deterministic_script).
THEOREM NewestSnapshotsWin == Spec => []NewestSnapshotWins
<1>1. AimInv => NewestSnapshotWins
  BY DEF AimInv, ShownFits
<1>. QED  BY <1>1, DesktopAims, PTL

\* From the node's image to its mouse: a click whose point was seen on the screen
\* that it falls on hits a control of a like label, for any screens, unless the image was
\* scaled down (_screenshot).  A script that has brought another window to the front
\* (_windows_focus_process_script), or a user, has changed that screen.
THEOREM ClicksLand == Spec => []ClickLands
<1>1. AimInv => ClickLands
  BY DEF AimInv
<1>. QED  BY <1>1, DesktopAims, PTL

\* On Windows no script that its own proposal calls a high risk is shown as less
\* (validate_command_risk looks at the script once more).
THEOREM HighsAreShownHigh == Spec => []HighIsShownHigh
<1>1. AimInv => HighIsShownHigh
  BY DEF AimInv, ShownFits
<1>. QED  BY <1>1, DesktopAims, PTL
=============================================================================
