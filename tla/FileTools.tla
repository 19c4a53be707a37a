------------------------------ MODULE FileTools ------------------------------
(***************************************************************************)
(* The read-only file tools of the engine (filesystem_search,              *)
(* filesystem_get_disk_usage, filesystem_list_directory,                   *)
(* filesystem_read_file) on a tree of files that other programs change     *)
(* while a tool walks it.  os.walk lists a directory, hands out its        *)
(* entries, and goes down into the directories that the tool left in the   *)
(* list, one after the other, but never through a link.                    *)
(***************************************************************************)
EXTENDS Naturals, Sequences, FiniteSets

CONSTANTS
    Entries,       \* paths, numbered in the order of their names
    Parent,        \* of each entry but the tops
    Folders,       \* the directories among them
    Links,         \* the links to directories: listed, not followed
    RestrictedRoots, SecretNames, Matching,  \* of the path, name and pattern tests
    MaxWalkEntries, ResultLimit, DepthLimit, ReadLimit,  \* as clamped
    MaxChanges     \* bound on the changes of the tree during a call

Top == 0
ASSUME TreeAssumption ==
    /\ Entries \subseteq Nat \ {Top} /\ IsFiniteSet(Entries)
    /\ Parent \in [Entries -> Folders \cup {Top}]
    /\ \A e \in Entries : Parent[e] < e
    /\ Folders \subseteq Entries /\ Links \subseteq Entries \ Folders
ASSUME LimitsAssumption ==
    /\ {MaxWalkEntries, ResultLimit, DepthLimit, ReadLimit} \subseteq Nat \ {0}
    /\ MaxChanges \in Nat

\* The path of an entry, as the entries on it.
PathOf[e \in Entries \cup {Top}] ==
    IF e = Top THEN {} ELSE {e} \cup PathOf[Parent[e]]

Below(root, e) == root \in PathOf[e]
Depth(root, e) == Cardinality(PathOf[e]) - Cardinality(PathOf[root])
IsRestricted(e) == PathOf[e] \cap RestrictedRoots # {}
IsSecret(e) == e \in SecretNames
Directories == Folders \cup Links

Tools == {"search", "usage", "list", "read"}

VARIABLES
    present,  \* the entries there are
    steady,   \* history: those that were there throughout the call
    changes,
    call      \* the call served

vars == <<present, steady, changes, call>>

Calls == [tool : Tools, root : Entries, pc : {"walk", "entries", "done", "error"},
          stack : Seq(SUBSET Entries), dir : Entries, names : SUBSET Entries,
          found : SUBSET Entries, visited : Nat, size : Nat, truncated : BOOLEAN]

TypeOK ==
    /\ present \subseteq Entries /\ steady \subseteq present
    /\ changes \in 0 .. MaxChanges
    /\ call \in Calls

Whole(there) == \A e \in there : Parent[e] \in there \cup {Top}

\* Mutant of Children: a listing has its parent for an entry ("..").
ChildrenAndParent(d) == {e \in present : Parent[e] = d} \cup {Parent[d]}

Children(d) == {e \in present : Parent[e] = d}

\* The answer of a tool that will not look at its path.
Refused(tool, root) ==
    \/ IsRestricted(root)
    \/ root \notin present
    \/ tool \in {"search", "list"} /\ root \notin Folders
    \/ tool = "read" /\ (IsSecret(root) \/ root \in Directories)
    \/ tool = "usage" /\ root \notin Folders /\ IsSecret(root)

\* A call as it begins; the walk of disk usage is over at once on a file.
Begun(tool, root) ==
    [tool |-> tool, root |-> root,
     pc |-> IF Refused(tool, root) THEN "error"
            ELSE IF tool = "usage" /\ root \notin Folders THEN "done" ELSE "walk",
     stack |-> << {root} >>, dir |-> root, names |-> {},
     found |-> IF tool = "usage" /\ root \notin Folders THEN {root} ELSE {},
     visited |-> 0, size |-> 0, truncated |-> FALSE]

Init ==
    /\ present \in {there \in SUBSET Entries : Whole(there)}
    /\ steady = present
    /\ changes = 0
    /\ \E tool \in Tools, root \in Entries \ Links : call = Begun(tool, root)

Walking(tools) == call.tool \in tools /\ call.pc = "walk"
-----------------------------------------------------------------------------
\* Mutant of ListNext: a directory that is gone is tried again.
ListNextAgain ==
    /\ Walking({"search", "usage"})
    /\ call.stack # <<>>
    /\ LET rest == Tail(call.stack)
           level == Head(call.stack)
       IN  IF level = {} THEN call' = [call EXCEPT !.stack = rest]
           ELSE \E d \in level :
             IF d \in present
             THEN call' = [call EXCEPT !.pc = "entries", !.dir = d,
                             !.names = Children(d), !.stack = << level \ {d} >> \o rest]
             ELSE call' = call
    /\ UNCHANGED <<present, steady, changes>>

\* os.walk goes on to a directory, in an order that the tools leave to the
\* system; it cannot list one that is gone, and hands out nothing for it.
ListNext ==
    /\ Walking({"search", "usage"})
    /\ call.stack # <<>>
    /\ LET rest == Tail(call.stack)
           level == Head(call.stack)
       IN  IF level = {} THEN call' = [call EXCEPT !.stack = rest]
           ELSE \E d \in level :
             IF d \in present
             THEN call' = [call EXCEPT !.pc = "entries", !.dir = d,
                             !.names = Children(d), !.stack = << level \ {d} >> \o rest]
             ELSE call' = [call EXCEPT !.stack = << level \ {d} >> \o rest]
    /\ UNCHANGED <<present, steady, changes>>

\* The directories that the walk goes down into, of those the tool left.
Descend(dirs) == << dirs \cap Folders >> \o call.stack

\* The loop over the sorted names takes them until a limit is reached.
Hits(names) == {e \in names : ~IsSecret(e) /\ e \in Matching}
Taken(names) ==
    {e \in names :
        LET before == {f \in names : f < e} IN
        /\ call.visited + Cardinality(before) < MaxWalkEntries
        /\ Cardinality(call.found) + Cardinality(Hits(before)) < ResultLimit}

\* Mutant of LimitReached: off by one.
LimitPassed(visited, found) ==
    visited > MaxWalkEntries \/ Cardinality(found) > ResultLimit

LimitReached(visited, found) ==
    visited >= MaxWalkEntries \/ Cardinality(found) >= ResultLimit

\* Mutant of Pruned: the walk goes where it is led.
Unpruned(names) == names

\* What a search leaves of the directories it was handed.
Pruned(names) == {e \in names : e \in Directories => ~IsRestricted(e) /\ ~IsSecret(e)}

TooDeep(d) == Depth(call.root, d) > DepthLimit

SearchEntries ==
    /\ call.tool = "search" /\ call.pc = "entries"
    /\ LET names == Pruned(call.names)
           taken == Taken(names)
           visited == call.visited + Cardinality(taken)
           found == call.found \cup Hits(taken)
           full == LimitReached(visited, found)
       IN  call' = IF TooDeep(call.dir) THEN [call EXCEPT !.pc = "walk"]
                   ELSE [call EXCEPT !.pc = IF full THEN "done" ELSE "walk",
                           !.visited = visited, !.found = found, !.truncated = full,
                           !.stack = Descend(names \cap Directories)]
    /\ UNCHANGED <<present, steady, changes>>

\* Mutant of Entered: as a search does, the walk leaves secret directories out.
EnteredPublic(names) ==
    {e \in names \cap Directories : ~IsRestricted(e) /\ ~IsSecret(e)}

\* The directories that disk usage looks into; those of a secret name are among them.
Entered(names) == {e \in names \cap Directories : ~IsRestricted(e)}

\* Disk usage counts files only, in the order the system lists them, and of a
\* file that is gone by then nothing.
Countable(e) == e \in present /\ ~IsSecret(e)
UsageEntries ==
    /\ call.tool = "usage" /\ call.pc = "entries"
    /\ LET files == call.names \ Directories
           room == MaxWalkEntries - call.visited
       IN  \E taken \in SUBSET files :
             /\ Cardinality(taken) = IF Cardinality(files) < room
                                     THEN Cardinality(files) ELSE room
             /\ LET visited == call.visited + Cardinality(taken)
                    full == visited >= MaxWalkEntries
                IN  call' = [call EXCEPT !.pc = IF full THEN "done" ELSE "walk",
                               !.visited = visited, !.truncated = full,
                               !.found = @ \cup {e \in taken : Countable(e)},
                               !.stack = Descend(Entered(call.names))]
    /\ UNCHANGED <<present, steady, changes>>

WalkEnds ==
    /\ Walking({"search", "usage"})
    /\ call.stack = <<>>
    /\ call' = [call EXCEPT !.pc = "done"]
    /\ UNCHANGED <<present, steady, changes>>

FirstOnes(names) == {e \in names : Cardinality({f \in names : f < e}) < ResultLimit}

\* The first entries of a directory by name; nothing says that there were more.
ListDirectory ==
    /\ Walking({"list"})
    /\ call' = IF call.root \notin present THEN [call EXCEPT !.pc = "error"]
               ELSE [call EXCEPT !.pc = "done", !.names = Children(call.root),
                                 !.found = FirstOnes(Children(call.root))]
    /\ UNCHANGED <<present, steady, changes>>

\* Mutant of Measure: whether the text is whole is not told.
MeasureSilently(size) ==
    /\ Walking({"read"})
    /\ call' = IF call.root \notin present THEN [call EXCEPT !.pc = "error"]
               ELSE [call EXCEPT !.pc = "entries", !.size = size]
    /\ UNCHANGED <<present, steady, changes>>

\* A file is measured, and read in a second step; by then it may be longer or
\* shorter, or gone.  (What was read of it is counted in "visited".)
Measure(size) ==
    /\ Walking({"read"})
    /\ call' = IF call.root \notin present THEN [call EXCEPT !.pc = "error"]
               ELSE [call EXCEPT !.pc = "entries", !.size = size,
                                 !.truncated = size > ReadLimit]
    /\ UNCHANGED <<present, steady, changes>>

Read(size) ==
    /\ call.tool = "read" /\ call.pc = "entries"
    /\ call' = IF call.root \notin present THEN [call EXCEPT !.pc = "error"]
               ELSE [call EXCEPT !.pc = "done",
                       !.visited = IF size < ReadLimit THEN size ELSE ReadLimit]
    /\ size # call.size => changes < MaxChanges
    /\ changes' = IF size # call.size THEN changes + 1 ELSE changes
    /\ UNCHANGED <<present, steady>>
-----------------------------------------------------------------------------
Running == call.pc \in {"walk", "entries"}

Appear(e) ==
    /\ Running /\ changes < MaxChanges
    /\ e \notin present /\ Parent[e] \in present \cup {Top}
    /\ present' = present \cup {e}
    /\ changes' = changes + 1
    /\ UNCHANGED <<steady, call>>

Vanish(e) ==
    /\ Running /\ changes < MaxChanges
    /\ e \in present
    /\ present' = {f \in present : ~Below(e, f)}
    /\ steady' = steady \cap present'
    /\ changes' = changes + 1
    /\ UNCHANGED call

Sizes == 0 .. ReadLimit + 1
Tool ==
    \/ ListNext \/ SearchEntries \/ UsageEntries \/ WalkEnds \/ ListDirectory
    \/ \E size \in Sizes : Measure(size) \/ Read(size)
Others == \E e \in Entries : Appear(e) \/ Vanish(e)

Next == Tool \/ Others
Spec == Init /\ [][Next]_vars /\ WF_vars(Tool)
-----------------------------------------------------------------------------
\* The entries that a walk from the root has to come by, as a definition of their
\* paths and not of the walk.
Barred(e) == IsRestricted(e) \/ (call.tool = "search" /\ IsSecret(e))
Reachable(e) ==
    /\ e # call.root /\ Below(call.root, e)
    /\ \A d \in PathOf[Parent[e]] :
         Below(call.root, d) => d \in Folders /\ (d = call.root \/ ~Barred(d))
    /\ e \in Directories => ~Barred(e)

\* What a finished search that does not call itself truncated left out was gone
\* for a while, or is too deep, secret or restricted, however the tree changed.
Over(tool) == call.tool = tool /\ call.pc = "done"
SearchIsComplete ==
    Over("search") /\ ~call.truncated =>
        {e \in steady : /\ Reachable(e) /\ ~IsSecret(e) /\ e \in Matching
                        /\ Depth(call.root, e) <= DepthLimit + 1} \subseteq call.found

\* A usage that does not call itself truncated counts every file that was there
\* throughout, and on a tree that did not change nothing but these.
UsageIsExact ==
    Over("usage") /\ ~call.truncated /\ call.root \in Folders =>
        LET files == {e \in steady : Reachable(e) /\ ~IsSecret(e)} \ Directories
        IN  /\ files \subseteq call.found
            /\ changes = 0 => call.found = files

\* No walk reports an entry below a directory it must not enter.
NothingBarredIsFound ==
    \A e \in call.found :
        call.tool \in {"search", "usage"} /\ e # call.root => Reachable(e) /\ ~IsSecret(e)

\* A listing shorter than its limit is the whole directory.
ShortListingIsWhole ==
    Over("list") /\ Cardinality(call.found) < ResultLimit => call.found = call.names

\* A file that is not called truncated was read to the end it had when it was
\* measured, if nobody touched it since; one that is was read to the limit.
ReadIsWhole ==
    Over("read") /\ changes = 0 =>
        call.visited = IF call.truncated THEN ReadLimit ELSE call.size

\* What a listing or a read does not call, or show to be, cut is whole.
UncutIsWhole == ShortListingIsWhole /\ ReadIsWhole

\* Every call returns, whatever happens to the tree under it.
CallReturns == <>~Running
=============================================================================
