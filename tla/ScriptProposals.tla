--------------------------- MODULE ScriptProposals ---------------------------
(***************************************************************************)
(* The scripts that the engine proposes without asking a language model    *)
(* (propose_deterministic_script), and the risk it shows for them.  A      *)
(* command refers to applications, files and controls of the screen by     *)
(* name, by a pronoun, or not at all; what it leaves out is looked for in  *)
(* the latest messages, behind which the latest snapshot of the device has *)
(* been appended.                                                          *)
(*                                                                         *)
(* A command is a record of what the patterns find in its text: the verbs  *)
(* (as substrings: "uninstall" holds "install"), an application, one       *)
(* mentioned before the reference, a file, the coordinates of a point, and *)
(* the label of a control, as its words.  A position is one coordinate.    *)
(***************************************************************************)
EXTENDS Integers, Sequences, SequencesExt

CONSTANT MaxCoordinate  \* 16384
ASSUME CoordinateAssumption == MaxCoordinate \in Nat

NoName == ""
Pronouns == {"it"}
Usable(name) == name \notin Pronouns \cup {NoName}
First(names) == IF names = <<>> THEN NoName ELSE Head(names)

\* What the patterns find in a command (_extract_app_name and so on)...
Command(intent, verbs, app, label) ==
    [intent |-> intent, verbs |-> verbs, app |-> app, mentioned |-> NoName, text |-> TRUE,
     file |-> NoName, points |-> <<>>, label |-> label]

\* ...whose verbs the predicates look for, and may find several of them
\* (_looks_like_open_app, _is_media_next and so on)...
Says(cmd, verb) == verb \in cmd.verbs

\* ...and in a message, in the order they find it.
Message(apps, files, targets) == [apps |-> apps, files |-> files, targets |-> targets]
Sighting(label, at, seen) == [label |-> label, at |-> at, seen |-> seen]

\* The first of those elements of a sequence that will do, if any.
Earliest(s, good) == IF good = {} THEN <<>> ELSE << s[Min(good)] >>

\* Of what was found in each message, that of the latest of the last n messages in
\* which anything was.
FromLatest(found, n) ==
    LET having == {i \in DOMAIN found : i > Len(found) - n /\ found[i] # <<>>}
    IN  IF having = {} THEN <<>> ELSE found[Max(having)]

\* _extract_recent_app_name: the first in the message that is not a pronoun.
AppIn(message) == Earliest(message.apps, {i \in DOMAIN message.apps : Usable(message.apps[i])})
RecentApps(messages) == FromLatest([i \in DOMAIN messages |-> AppIn(messages[i])], 12)

\* _extract_recent_file_name: the last one of the message.
FileIn(message) == IF message.files = <<>> THEN <<>> ELSE << Last(message.files) >>
RecentFiles(messages) == FromLatest([i \in DOMAIN messages |-> FileIn(messages[i])], 12)

\* _resolve_app_reference
ResolveApp(cmd, messages) ==
    IF Usable(cmd.app) THEN cmd.app
    ELSE IF Usable(cmd.mentioned) THEN cmd.mentioned ELSE First(RecentApps(messages))

\* _extract_click_target_from_context: a label is that of a target if one of the
\* two texts holds the other.
Alike(label, other) == label \subseteq other \/ other \subseteq label
Fits(label, target) ==
    label # {} /\ Alike(label, target.label) /\ target.at <= MaxCoordinate
TargetIn(label, message) ==
    Earliest(message.targets, {i \in DOMAIN message.targets : Fits(label, message.targets[i])})
Sightings(label, messages) ==
    FromLatest([i \in DOMAIN messages |-> TargetIn(label, messages[i])], 8)

\* The first coordinates in the command if they are any (no others are looked for
\* if these are too large), or the first sighting.
Written == 0
Points(cmd, messages) ==
    IF cmd.points # <<>> /\ Head(cmd.points).at <= MaxCoordinate THEN << Head(cmd.points) >>
    ELSE Sightings(cmd.label, messages)

\* Mutant of WithScreen: the snapshot comes before the conversation.
ScreenFirst(messages, front, targets) ==
    (IF front = NoName THEN <<>> ELSE <<Message(<<front>>, <<front>>, <<>>)>>)
    \o (IF targets = <<>> THEN <<>> ELSE <<Message(<<>>, <<>>, targets)>>) \o messages

\* _messages_with_screen_context.  A snapshot's process is the file name of a
\* program, and as such a file name too.
WithScreen(messages, front, targets) ==
    messages \o (IF front = NoName THEN <<>> ELSE <<Message(<<front>>, <<front>>, <<>>)>>)
             \o (IF targets = <<>> THEN <<>> ELSE <<Message(<<>>, <<>>, targets)>>)
-----------------------------------------------------------------------------
\* A proposal: what it does, on what, the application that it brings to the front
\* before, the point it has found, and the risk that the proposal itself names.
Act(act, on, risk) ==
    [act |-> act, on |-> on, focus |-> NoName, points |-> <<>>, risk |-> risk]
NoProposal == Act("none", NoName, "Low")

When(condition, proposal) == [holds |-> condition, proposal |-> proposal]
FirstOf(cases) ==
    LET holding == {i \in DOMAIN cases : cases[i].holds}
    IN  IF holding = {} THEN NoProposal ELSE cases[Min(holding)].proposal

\* _propose_windows_script.  The media keys come first, whatever the intent.
WindowsProposal(cmd, messages) ==
    LET control == cmd.intent = "APP_CONTROL"
        app == ResolveApp(cmd, messages)
        front == First(RecentApps(messages))
        recent == IF Says(cmd, "write") /\ Says(cmd, "into") THEN First(RecentFiles(messages))
                  ELSE NoName
        file == IF cmd.file # NoName THEN cmd.file ELSE recent
        filed == cmd.intent = "FILE_SYSTEM_WRITE" /\ file # NoName
        packaged == /\ cmd.intent = "DEVOPS_WRITE" \/ Says(cmd, "install")
                    /\ cmd.app # NoName
    IN  FirstOf(<<
          When(Says(cmd, "next"), Act("media", "next", "Medium")),
          When(Says(cmd, "previous"), Act("media", "previous", "Medium")),
          When(Says(cmd, "pause"), Act("media", "pause", "Medium")),
          When(control /\ Says(cmd, "close") /\ app # NoName, Act("close", app, "High")),
          When(control /\ Says(cmd, "open") /\ app # NoName, Act("open", app, "Medium")),
          When(control /\ Says(cmd, "type") /\ cmd.text,
               [Act("type", NoName, "Medium") EXCEPT !.focus = front]),
          When(control /\ Says(cmd, "click"),
               [Act("click", NoName, "Medium") EXCEPT
                   !.focus = front, !.points = Points(cmd, messages)]),
          When(filed /\ Says(cmd, "delete"), Act("delete", file, "High")),
          When(filed /\ Says(cmd, "write"), Act("write", file, "Medium")),
          When(filed /\ Says(cmd, "create"), Act("create", file, "Medium")),
          When(packaged /\ Says(cmd, "uninstall"), Act("uninstall", cmd.app, "High")),
          When(packaged /\ Says(cmd, "install"), Act("install", cmd.app, "Medium")) >>)

\* _propose_unix_script: nothing is brought to the front, a pronoun is taken for
\* a name, and a click needs a point.
UnixProposal(cmd, messages) ==
    LET Asks(verb) == cmd.intent = "APP_CONTROL" /\ Says(cmd, verb)
        points == Points(cmd, messages)
    IN  FirstOf(<<
          When(Asks("type") /\ cmd.text, Act("type", NoName, "Medium")),
          When(Asks("click") /\ points # <<>>,
               [Act("click", NoName, "Medium") EXCEPT !.points = points]),
          When(Asks("close") /\ cmd.app # NoName, Act("close", cmd.app, "High")),
          When(Asks("open") /\ cmd.app # NoName, Act("open", cmd.app, "Medium")) >>)

Propose(cmd, messages, windows) ==
    IF windows THEN WindowsProposal(cmd, messages) ELSE UnixProposal(cmd, messages)

\* Mutant of Marked: ending a program is not on the list.
MarkedButStop(proposal, windows) == windows /\ proposal.act \in {"delete", "uninstall"}

\* validate_command_risk looks at the script again: at Stop-Process, Remove-Item
\* and "uninstall", but not at pkill.
Marked(proposal, windows) ==
    windows /\ proposal.act \in {"close", "delete", "uninstall"}
Changing == {"FILE_SYSTEM_WRITE", "DEVOPS_WRITE", "APP_CONTROL", "UNKNOWN"}
ShownRisk(proposal, intent, windows) ==
    IF Marked(proposal, windows) THEN "High"
    ELSE IF proposal.act = "install" \/ intent \in Changing THEN "Medium" ELSE "Low"

\* The names in the engine's answer, and in a prompt that quotes the script.
Explained(proposal) ==
    Message(IF proposal.act \in {"open", "close"} THEN <<proposal.on>> ELSE <<>>,
            IF proposal.act \in {"delete", "write", "create"} THEN <<proposal.on>> ELSE <<>>,
            <<>>)
Quoted(proposal, targets) ==
    Message(IF proposal.act = "open" THEN <<proposal.on>> ELSE <<>>,
            IF proposal.act \in {"delete", "write", "create"} THEN <<proposal.on>> ELSE <<>>,
            targets)
=============================================================================
