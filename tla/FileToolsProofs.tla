--------------------------- MODULE FileToolsProofs ---------------------------
(***************************************************************************)
(* Proofs about FileTools, for any tree, limits and tests of names and     *)
(* paths, and any changes of the tree during a call: what a search or a    *)
(* usage leaves out, what it never reports, and what a listing or a read   *)
(* that is not called cut holds.                                           *)
(*                                                                         *)
(* Facts about all paths are proved by the least counterexample: an entry  *)
(* has a greater number than its parent.                                   *)
(***************************************************************************)
EXTENDS FileTools, FiniteSetTheorems, SequenceTheorems, WellFoundedInduction, TLAPS

\* A set of numbers has a least one.
LEMMA Smallest ==
    ASSUME NEW T, T \subseteq Nat, T # {}
    PROVE  \E x \in T : \A y \in T : x <= y
<1> DEFINE Less == {p \in Nat \X Nat : p[1] < p[2]}
<1>1. OpToRel(<, Nat) = Less
  BY DEF OpToRel
<1>2. IsWellFoundedOn(Less, Nat)
  BY <1>1, NatLessThanWellFounded
<1>3. \A x, y \in Nat : <<y, x>> \notin Less => x <= y
  <2>1. ASSUME NEW x \in Nat, NEW y \in Nat, y < x PROVE <<y, x>> \in Less
    BY <2>1
  <2> QED  BY <2>1
<1> HIDE DEF Less
<1>4. \E x \in T : \A y \in T : ~(<<y, x>> \in Less)
  BY <1>2, WFMin
<1> QED
  BY <1>3, <1>4

-----------------------------------------------------------------------------
(* PathOf satisfies its recursive equation: below each number there is one *)
(* function that does, and these agree.                                    *)

PathBody(g, e) == IF e = Top THEN {} ELSE {e} \cup g[Parent[e]]
Nodes == Entries \cup {Top}
Before(n) == {e \in Nodes : e < n}
Paths(n) == {g \in [Before(n) -> SUBSET Entries] : \A e \in Before(n) : g[e] = PathBody(g, e)}

LEMMA ParentBefore ==
    ASSUME NEW e \in Nodes, e # Top
    PROVE  Parent[e] \in Nodes /\ Parent[e] \in Nat /\ Parent[e] < e /\ e \in Entries
<1>1. e \in Entries
  BY DEF Nodes
<1>2. Parent[e] \in Folders \cup {Top} /\ Parent[e] < e
  BY <1>1, TreeAssumption
<1>3. Parent[e] \in Nodes
  BY <1>2, TreeAssumption DEF Nodes
<1>4. \A n \in Nodes : n \in Nat
  BY TreeAssumption DEF Nodes, Top
<1> QED
  BY <1>1, <1>2, <1>3, <1>4

LEMMA NodesAreNumbers == Nodes \subseteq Nat /\ Top \in Nodes
BY TreeAssumption DEF Nodes, Top

LEMMA BeforeIs ==
    ASSUME NEW n, NEW e
    PROVE  e \in Before(n) <=> e \in Nodes /\ e \in Nat /\ e < n
BY NodesAreNumbers DEF Before

\* Two functions that solve the equation below n agree there.
LEMMA PathsAgree ==
    ASSUME NEW n \in Nat, NEW m \in Nat, NEW g \in Paths(n), NEW h \in Paths(m)
    PROVE  \A e \in Before(n) \cap Before(m) : g[e] = h[e]
<1> DEFINE Bad == {e \in Before(n) \cap Before(m) : g[e] # h[e]}
<1> SUFFICES ASSUME Bad # {} PROVE FALSE
  OBVIOUS
<1>1. Bad \subseteq Nat
  BY BeforeIs
<1>2. PICK e \in Bad : \A f \in Bad : e <= f
  BY <1>1, Smallest
<1>3. e \in Before(n) /\ e \in Before(m) /\ e \in Nodes /\ e \in Nat /\ g[e] # h[e]
  BY BeforeIs
<1>4. g[e] = PathBody(g, e) /\ h[e] = PathBody(h, e)
  BY <1>3 DEF Paths
<1>5. e # Top
  BY <1>3, <1>4 DEF PathBody
<1>6. Parent[e] \in Nodes /\ Parent[e] < e /\ Parent[e] \in Nat
  BY <1>3, <1>5, ParentBefore
<1>7. Parent[e] \in Before(n) /\ Parent[e] \in Before(m)
  <2>1. Parent[e] < n /\ Parent[e] < m
    <3>1. e < n /\ e < m
      BY <1>3, BeforeIs
    <3> QED
      BY <1>3, <1>6, <3>1
  <2> QED
    BY <1>6, <2>1, BeforeIs
<1>8. Parent[e] \notin Bad
  BY <1>2, <1>3, <1>6
<1> QED
  BY <1>3, <1>4, <1>7, <1>8 DEF PathBody

LEMMA PathsExist == \A n \in Nat : Paths(n) # {}
<1> DEFINE Bad == {n \in Nat : Paths(n) = {}}
<1> SUFFICES ASSUME Bad # {} PROVE FALSE
  OBVIOUS
<1>1. PICK n \in Bad : \A m \in Bad : n <= m
  BY Smallest
<1>2. n # 0
  <2>1. \A e : e \notin Before(0)
    BY BeforeIs
  <2>2. [e \in {} |-> {}] \in Paths(0)
    BY <2>1 DEF Paths
  <2> QED
    BY <2>2
<1>3. PICK g \in Paths(n - 1) : TRUE
  BY <1>1, <1>2
<1>4. g \in [Before(n - 1) -> SUBSET Entries] /\ \A e \in Before(n - 1) : g[e] = PathBody(g, e)
  BY DEF Paths
<1> DEFINE h == [e \in Before(n) |-> PathBody(g, e)]
<1>5. \A e \in Before(n) : e \in Nodes /\ (e # Top => Parent[e] \in Before(n - 1) /\ e \in Entries)
  <2> SUFFICES ASSUME NEW e \in Before(n), e # Top PROVE Parent[e] < n - 1 /\ Parent[e] \in Nat /\ Parent[e] \in Nodes /\ e \in Entries
    BY BeforeIs
  <2>1. e \in Nodes /\ e \in Nat /\ e < n
    BY BeforeIs
  <2>2. Parent[e] \in Nodes /\ Parent[e] \in Nat /\ Parent[e] < e /\ e \in Entries
    BY <2>1, ParentBefore
  <2> QED
    BY <1>2, <2>1, <2>2
<1>6. h \in [Before(n) -> SUBSET Entries]
  BY <1>4, <1>5 DEF PathBody
<1>7. \A e \in Before(n - 1) : e \in Before(n) /\ h[e] = g[e]
  BY <1>4, NodesAreNumbers DEF Before
<1>8. \A e \in Before(n) : h[e] = PathBody(h, e)
  BY <1>5, <1>7 DEF PathBody
<1>9. h \in Paths(n)
  BY <1>6, <1>8 DEF Paths
<1> QED
  BY <1>9

LEMMA PathEquation ==
    \A e \in Nodes : PathOf[e] = PathBody(PathOf, e) /\ PathOf[e] \subseteq Entries
<1> DEFINE G == [e \in Nodes |-> (CHOOSE g \in Paths(e + 1) : TRUE)[e]]
<1>1. ASSUME NEW e \in Nodes
      PROVE  G[e] = PathBody(G, e) /\ G[e] \subseteq Entries
  <2>1. e \in Nat /\ e \in Before(e + 1)
    BY NodesAreNumbers DEF Before
  <2>2. PICK g \in Paths(e + 1) : g = CHOOSE f \in Paths(e + 1) : TRUE
    BY <2>1, PathsExist
  <2>3. G[e] = g[e] /\ g[e] = PathBody(g, e) /\ g[e] \subseteq Entries
    BY <2>1, <2>2 DEF Paths
  <2>4. CASE e = Top
    BY <2>3, <2>4 DEF PathBody
  <2>5. CASE e # Top
    <3> DEFINE p == Parent[e]
    <3>1. p \in Nodes /\ p < e /\ p \in Nat
      BY <2>5, ParentBefore, NodesAreNumbers
    <3>2. PICK k \in Paths(p + 1) : k = CHOOSE f \in Paths(p + 1) : TRUE
      BY <3>1, PathsExist
    <3>3. p \in Before(p + 1) /\ p \in Before(e + 1)
      BY <2>1, <3>1 DEF Before
    <3>4. G[p] = k[p]
      BY <3>1, <3>2
    <3>5. k[p] = g[p]
      BY <2>1, <3>1, <3>3, PathsAgree
    <3> QED
      BY <2>3, <2>5, <3>4, <3>5 DEF PathBody
  <2> QED
    BY <2>4, <2>5
<1> HIDE DEF G
<1>2. G = [e \in Nodes |-> IF e = Top THEN {} ELSE {e} \cup G[Parent[e]]]
  <2>1. DOMAIN G = Nodes /\ G = [e \in Nodes |-> G[e]]
    BY DEF G
  <2> QED
    BY <1>1, <2>1 DEF PathBody
<1>3. PathOf = [e \in Nodes |-> IF e = Top THEN {} ELSE {e} \cup PathOf[Parent[e]]]
  BY <1>2, Zenon DEF PathOf, Nodes
<1>4. \A e \in Nodes : PathOf[e] = PathBody(PathOf, e)
  BY <1>3 DEF PathBody
<1> DEFINE Bad == {e \in Nodes : ~(PathOf[e] \subseteq Entries)}
<1>5. Bad = {}
  <2> SUFFICES ASSUME Bad # {} PROVE FALSE
    OBVIOUS
  <2>1. PICK e \in Bad : \A f \in Bad : e <= f
    BY Smallest, NodesAreNumbers
  <2>2. e # Top
    BY <1>4 DEF PathBody
  <2>3. Parent[e] \in Nodes /\ Parent[e] \notin Bad /\ e \in Entries
    <3>1. e \in Nodes /\ e \in Nat
      BY NodesAreNumbers
    <3>2. Parent[e] \in Nodes /\ Parent[e] \in Nat /\ Parent[e] < e /\ e \in Entries
      BY <2>2, <3>1, ParentBefore
    <3> QED
      BY <2>1, <3>1, <3>2
  <2> QED
    BY <1>4, <2>2, <2>3 DEF PathBody
<1> QED
  BY <1>4, <1>5
-----------------------------------------------------------------------------
(* Paths.                                                                   *)

LEMMA PathIs ==
    /\ PathOf[Top] = {}
    /\ \A e \in Entries :
         /\ PathOf[e] = {e} \cup PathOf[Parent[e]]
         /\ PathOf[e] \subseteq Entries /\ e \in PathOf[e]
         /\ e \in Nat /\ e # Top /\ Parent[e] \in Nat /\ Parent[e] < e
         /\ Parent[e] \in Folders \cup {Top} /\ Folders \subseteq Entries
<1>1. \A e \in Entries : e \in Nodes /\ e # Top /\ e \in Nat
  BY TreeAssumption DEF Nodes
<1>2. PathOf[Top] = {}
  BY PathEquation, NodesAreNumbers DEF PathBody
<1>3. \A e \in Entries : PathOf[e] = {e} \cup PathOf[Parent[e]] /\ PathOf[e] \subseteq Entries
  BY <1>1, PathEquation DEF PathBody
<1>4. \A e \in Entries : Parent[e] \in Nat /\ Parent[e] < e
  BY <1>1, ParentBefore
<1>5. Folders \subseteq Entries /\ \A e \in Entries : Parent[e] \in Folders \cup {Top}
  BY TreeAssumption
<1> QED
  BY <1>1, <1>2, <1>3, <1>4, <1>5

\* What is on a path has a path that is part of it.
LEMMA PathUp ==
    \A e \in Entries : \A d \in PathOf[e] : d <= e /\ PathOf[d] \subseteq PathOf[e]
<1> DEFINE Bad == {e \in Entries : \E d \in PathOf[e] : ~(d <= e /\ PathOf[d] \subseteq PathOf[e])}
<1> SUFFICES ASSUME Bad # {} PROVE FALSE
  OBVIOUS
<1>1. Bad \subseteq Nat
  BY PathIs
<1>2. PICK e \in Bad : \A f \in Bad : e <= f
  BY <1>1, Smallest
<1>3. PICK d \in PathOf[e] : ~(d <= e /\ PathOf[d] \subseteq PathOf[e])
  OBVIOUS
<1>4. d # e
  BY <1>3, PathIs
<1>5. d \in PathOf[Parent[e]] /\ Parent[e] \in Entries
  BY <1>3, <1>4, PathIs
<1>6. Parent[e] \notin Bad
  BY <1>2, <1>5, PathIs
<1>7. d <= Parent[e] /\ PathOf[d] \subseteq PathOf[Parent[e]]
  BY <1>5, <1>6
<1>8. d \in Nat /\ e \in Nat /\ Parent[e] \in Nat /\ Parent[e] < e
  BY <1>3, PathIs
<1>9. d <= e
  BY <1>7, <1>8
<1> QED
  BY <1>3, <1>7, <1>9, PathIs

\* Of two entries on a path, one is on the path of the other.
LEMMA PathIsOrdered ==
    \A e \in Entries : \A c, d \in PathOf[e] : c \in PathOf[d] \/ d \in PathOf[c]
<1> DEFINE Bad == {e \in Entries : \E c, d \in PathOf[e] : ~(c \in PathOf[d] \/ d \in PathOf[c])}
<1> SUFFICES ASSUME Bad # {} PROVE FALSE
  OBVIOUS
<1>1. Bad \subseteq Nat
  BY PathIs
<1>2. PICK e \in Bad : \A f \in Bad : e <= f
  BY <1>1, Smallest
<1>3. PICK c \in PathOf[e], d \in PathOf[e] : ~(c \in PathOf[d] \/ d \in PathOf[c])
  OBVIOUS
<1>4. c # e /\ d # e
  BY <1>3
<1>5. c \in PathOf[Parent[e]] /\ d \in PathOf[Parent[e]] /\ Parent[e] \in Entries
  BY <1>3, <1>4, PathIs
<1>6. Parent[e] \notin Bad
  BY <1>2, <1>5, PathIs
<1> QED
  BY <1>3, <1>5, <1>6

\* Between an entry and one above it, the path has an entry of that one.
LEMMA PathPasses ==
    \A e \in Entries : \A d \in PathOf[e] :
        d # e => \E c \in PathOf[e] : c \in Entries /\ Parent[c] = d
<1> DEFINE Bad == {e \in Entries : \E d \in PathOf[e] :
                     d # e /\ ~\E c \in PathOf[e] : c \in Entries /\ Parent[c] = d}
<1> SUFFICES ASSUME Bad # {} PROVE FALSE
  OBVIOUS
<1>1. Bad \subseteq Nat
  BY PathIs
<1>2. PICK e \in Bad : \A f \in Bad : e <= f
  BY <1>1, Smallest
<1>3. PICK d \in PathOf[e] : d # e /\ ~\E c \in PathOf[e] : c \in Entries /\ Parent[c] = d
  OBVIOUS
<1>4. d \in PathOf[Parent[e]] /\ Parent[e] \in Entries /\ Parent[e] # d
  BY <1>3, PathIs
<1>5. Parent[e] \notin Bad
  BY <1>2, <1>4, PathIs
<1> QED
  BY <1>3, <1>4, <1>5, PathIs
-----------------------------------------------------------------------------
(* The invariant.                                                          *)

Walks == call.tool \in {"search", "usage"} /\ call.pc \in {"walk", "entries"}
Listed == call.pc = "entries" /\ call.tool \in {"search", "usage"}

\* The entries whose directories are there too.
PathsStay ==
    /\ \A e \in present : PathOf[e] \subseteq present
    /\ changes = 0 => steady = present

\* A directory that the walk may enter, and all between it and the root.
Open(d) ==
    /\ d \in Folders /\ Below(call.root, d)
    /\ \A c \in PathOf[d] : Below(call.root, c) => c \in Folders /\ (c = call.root \/ ~Barred(c))

LevelsOpen ==
    /\ Walks => \A i \in DOMAIN call.stack : \A d \in call.stack[i] : Open(d)
    /\ Listed => Open(call.dir) /\ \A e \in call.names : Parent[e] = call.dir

\* No directory is listed twice: those that wait are in no other's subtree, and
\* nothing below them was found yet.
LevelsApart ==
    /\ Walks =>
         \A i \in DOMAIN call.stack : \A a \in call.stack[i] :
            /\ \A j \in DOMAIN call.stack : \A b \in call.stack[j] :
                 i # j \/ a # b => a \notin PathOf[b]
            /\ \A e \in call.found : a \notin PathOf[Parent[e]]
    /\ Listed =>
         /\ \A i \in DOMAIN call.stack : \A a \in call.stack[i] :
              a \notin PathOf[call.dir] /\ call.dir \notin PathOf[a]
         /\ \A e \in call.found : call.dir \notin PathOf[Parent[e]]

\* What has been found may be found.
FoundFits ==
    /\ call.tool = "search" => \A e \in call.found : Reachable(e) /\ ~IsSecret(e)
    /\ call.tool = "usage" /\ call.root \in Folders =>
         \A e \in call.found : /\ Reachable(e) /\ ~IsSecret(e) /\ e \notin Directories
                               /\ changes = 0 => e \in steady
    /\ call.tool = "usage" /\ call.root \notin Folders =>
         call.found \subseteq {call.root} /\ call.pc \in {"error", "done"}

\* What is to be found.
Wanted(e) ==
    /\ e \in steady /\ Reachable(e) /\ ~IsSecret(e)
    /\ call.tool = "search" => e \in Matching /\ Depth(call.root, e) <= DepthLimit + 1
    /\ call.tool = "usage" => e \notin Directories

\* A directory on its path waits, or is listed and has handed out what leads there.
Awaited(e) ==
    \/ \E i \in DOMAIN call.stack : \E d \in call.stack[i] : d \in PathOf[Parent[e]]
    \/ /\ call.pc = "entries" /\ call.dir \in PathOf[Parent[e]]
       /\ \A c \in PathOf[e] : c \in Entries /\ Parent[c] = call.dir => c \in call.names

NothingIsMissed ==
    /\ Walks => \A e \in steady : Wanted(e) => e \in call.found \/ Awaited(e)
    /\ /\ call.tool \in {"search", "usage"} /\ call.pc = "done" /\ ~call.truncated
       /\ call.root \in Folders
       => \A e \in steady : Wanted(e) => e \in call.found

\* The answers of the tools that do not walk.
AnswersFit ==
    /\ call.tool = "list" /\ call.pc = "done" => call.found = FirstOnes(call.names)
    /\ call.tool = "read" /\ call.pc \in {"entries", "done"} => call.truncated = (call.size > ReadLimit)
    /\ call.tool = "read" /\ call.pc = "done" /\ changes = 0 =>
         call.visited = IF call.size < ReadLimit THEN call.size ELSE ReadLimit

IInv == /\ TypeOK /\ PathsStay /\ LevelsOpen /\ LevelsApart /\ FoundFits
        /\ NothingIsMissed /\ AnswersFit
-----------------------------------------------------------------------------
(* The stack of levels.                                                    *)

LEMMA Pushed ==
    ASSUME NEW s \in Seq(SUBSET Entries), NEW level \in SUBSET Entries
    PROVE  /\ <<level>> \o s \in Seq(SUBSET Entries)
           /\ 1 \in DOMAIN (<<level>> \o s) /\ (<<level>> \o s)[1] = level
           /\ \A i \in DOMAIN (<<level>> \o s) : i # 1 =>
                i - 1 \in DOMAIN s /\ (<<level>> \o s)[i] = s[i - 1]
           /\ \A i \in DOMAIN s :
                /\ i \in Nat /\ i + 1 \in DOMAIN (<<level>> \o s)
                /\ (<<level>> \o s)[i + 1] = s[i]
<1> DEFINE t == <<level>> \o s
<1>1. <<level>> \in Seq(SUBSET Entries) /\ Len(<<level>>) = 1 /\ <<level>>[1] = level
  OBVIOUS
<1>2. /\ t \in Seq(SUBSET Entries) /\ Len(t) = 1 + Len(s)
      /\ \A i \in 1 .. 1 + Len(s) : t[i] = IF i <= 1 THEN <<level>>[i] ELSE s[i - 1]
  BY <1>1, ConcatProperties
<1>3. Len(s) \in Nat /\ DOMAIN s = 1 .. Len(s) /\ DOMAIN t = 1 .. 1 + Len(s)
  BY <1>2
<1> HIDE DEF t
<1>4. 1 \in DOMAIN t /\ t[1] = level
  BY <1>1, <1>2, <1>3
<1>5. \A i \in DOMAIN t : i # 1 => i - 1 \in DOMAIN s /\ t[i] = s[i - 1]
  BY <1>2, <1>3
<1>6. \A i \in DOMAIN s : i \in Nat /\ i + 1 \in DOMAIN t /\ t[i + 1] = s[i]
  BY <1>2, <1>3
<1> QED
  BY <1>2, <1>4, <1>5, <1>6 DEF t

LEMMA Popped ==
    ASSUME NEW s \in Seq(SUBSET Entries), s # <<>>
    PROVE  /\ Tail(s) \in Seq(SUBSET Entries) /\ 1 \in DOMAIN s /\ Head(s) = s[1]
           /\ Head(s) \in SUBSET Entries
           /\ \A i \in DOMAIN Tail(s) : /\ i \in Nat /\ i + 1 \in DOMAIN s /\ i + 1 # 1
                                        /\ Tail(s)[i] = s[i + 1]
           /\ \A i \in DOMAIN s : /\ i \in Nat
                                  /\ i # 1 => i - 1 \in DOMAIN Tail(s) /\ Tail(s)[i - 1] = s[i]
<1>1. Len(s) \in Nat /\ Len(s) # 0 /\ DOMAIN s = 1 .. Len(s)
  BY EmptySeq
<1>2. /\ Tail(s) \in Seq(SUBSET Entries) /\ Len(Tail(s)) = Len(s) - 1
      /\ \A i \in 1 .. Len(Tail(s)) : Tail(s)[i] = s[i + 1]
      /\ Head(s) = s[1]
  BY HeadTailProperties
<1>3. DOMAIN Tail(s) = 1 .. Len(s) - 1
  BY <1>2
<1>4. 1 \in DOMAIN s /\ s[1] \in SUBSET Entries
  BY <1>1
<1>5. \A i \in DOMAIN Tail(s) : i \in Nat /\ i + 1 \in DOMAIN s /\ i + 1 # 1 /\ Tail(s)[i] = s[i + 1]
  BY <1>1, <1>2, <1>3
<1>6. \A i \in DOMAIN s : i \in Nat /\ (i # 1 => i - 1 \in DOMAIN Tail(s) /\ Tail(s)[i - 1] = s[i])
  BY <1>1, <1>2, <1>3
<1> QED
  BY <1>2, <1>4, <1>5, <1>6

LEMMA TopReplaced ==
    ASSUME NEW s \in Seq(SUBSET Entries), s # <<>>, NEW level \in SUBSET Entries
    PROVE  LET t == <<level>> \o Tail(s)
           IN  /\ t \in Seq(SUBSET Entries) /\ 1 \in DOMAIN t /\ t[1] = level
               /\ \A i \in DOMAIN s : i \in DOMAIN t
               /\ \A i \in DOMAIN t : i \in DOMAIN s /\ (i # 1 => t[i] = s[i])
<1> DEFINE t == <<level>> \o Tail(s)
<1>1. Tail(s) \in Seq(SUBSET Entries)
  BY Popped
<1>2. t \in Seq(SUBSET Entries) /\ 1 \in DOMAIN t /\ t[1] = level
  BY <1>1, Pushed
<1>3. \A i \in DOMAIN t : i \in Nat
  BY <1>2
<1>4. ASSUME NEW i \in DOMAIN t PROVE i \in DOMAIN s /\ (i # 1 => t[i] = s[i])
  <2>1. CASE i = 1
    BY <2>1, Popped
  <2>2. CASE i # 1
    <3>1. i - 1 \in DOMAIN Tail(s) /\ t[i] = Tail(s)[i - 1]
      BY <1>1, <2>2, Pushed
    <3>2. (i - 1) + 1 \in DOMAIN s /\ Tail(s)[i - 1] = s[(i - 1) + 1]
      BY <3>1, Popped
    <3>3. (i - 1) + 1 = i
      BY <1>3
    <3> QED
      BY <3>1, <3>2, <3>3
  <2> QED
    BY <2>1, <2>2
<1>5. ASSUME NEW i \in DOMAIN s PROVE i \in DOMAIN t
  <2>1. CASE i = 1
    BY <1>2, <2>1
  <2>2. CASE i # 1
    <3>1. i \in Nat /\ i - 1 \in DOMAIN Tail(s)
      BY <2>2, Popped
    <3>2. (i - 1) + 1 \in DOMAIN t
      BY <1>1, <3>1, Pushed
    <3>3. (i - 1) + 1 = i
      BY <3>1
    <3> QED
      BY <3>2, <3>3
  <2> QED
    BY <2>1, <2>2
<1> HIDE DEF t
<1>6. QED
  BY <1>2, <1>4, <1>5 DEF t
-----------------------------------------------------------------------------
(* Steps of a walk.                                                        *)

\* What is said of an entry depends on the tool and the root only.
SameCall == call'.tool = call.tool /\ call'.root = call.root

LEMMA SameCallIsEnough ==
    ASSUME SameCall
    PROVE  \A e : (Reachable(e)' <=> Reachable(e)) /\ (Open(e)' <=> Open(e))
BY DEF SameCall, Reachable, Open, Barred

LEMMA Fields ==
    ASSUME TypeOK
    PROVE  /\ call.tool \in Tools /\ call.root \in Entries /\ call.dir \in Entries
           /\ call.pc \in {"walk", "entries", "done", "error"}
           /\ call.stack \in Seq(SUBSET Entries)
           /\ call.names \subseteq Entries /\ call.found \subseteq Entries
           /\ call.visited \in Nat /\ call.size \in Nat /\ call.truncated \in BOOLEAN
           /\ \A i \in DOMAIN call.stack : call.stack[i] \subseteq Entries
           /\ present \subseteq Entries /\ steady \subseteq present
BY DEF TypeOK, Calls

\* An entry of an open directory that may be entered is open.
LEMMA ChildOpens ==
    ASSUME TypeOK, NEW d, Open(d), NEW c \in Folders, Parent[c] = d, ~Barred(c)
    PROVE  Open(c)
<1>1. c \in Entries /\ d \in Entries
  BY TreeAssumption DEF Open
<1>2. PathOf[c] = {c} \cup PathOf[d]
  BY <1>1, PathIs
<1> QED
  BY <1>1, <1>2 DEF Open, Below

\* What an open directory hands out is reachable if it may be.
LEMMA ChildIsReachable ==
    ASSUME TypeOK, NEW d, Open(d), NEW e \in Entries, Parent[e] = d,
           e \in Directories => ~Barred(e)
    PROVE  Reachable(e) /\ e # call.root
<1>1. PathOf[e] = {e} \cup PathOf[d] /\ d \in Entries /\ e \in Nat /\ d \in Nat /\ d < e
  BY PathIs DEF Open
<1>2. call.root <= d /\ call.root \in Entries /\ call.root \in PathOf[d]
  BY <1>1, PathUp, Fields DEF Open, Below
<1>3. call.root \in Nat
  BY <1>2, PathIs
<1>4. e # call.root
  BY <1>1, <1>2, <1>3
<1> QED
  BY <1>1, <1>2, <1>4 DEF Open, Reachable, Below

\* The walk goes down from the directory it has listed.
Descends(level, new) ==
    /\ Listed /\ SameCall
    /\ call'.pc \in {"walk", "done"}
    /\ call'.stack = <<level>> \o call.stack
    /\ call'.found = call.found \cup new
    /\ level \subseteq call.names \cap Folders /\ new \subseteq call.names
    /\ \A c \in level : ~Barred(c)

LEMMA DescendsOpen ==
    ASSUME IInv, NEW level, NEW new, Descends(level, new)
    PROVE  LevelsOpen'
<1>1. level \in SUBSET Entries /\ call.stack \in Seq(SUBSET Entries)
  BY Fields DEF IInv, Descends
<1>2. \A c \in level : Open(c)
  BY ChildOpens DEF IInv, LevelsOpen, Descends
<1>3. \A i \in DOMAIN call.stack : \A d \in call.stack[i] : Open(d)
  BY DEF IInv, LevelsOpen, Descends, Listed, Walks
<1>4. \A i \in DOMAIN call'.stack : \A d \in call'.stack[i] : Open(d)
  BY <1>1, <1>2, <1>3, Pushed DEF Descends
<1>5. \A d : Open(d)' <=> Open(d)
  BY SameCallIsEnough DEF Descends
<1>6. ~Listed'
  BY DEF Descends, Listed
<1> QED
  BY <1>4, <1>5, <1>6 DEF LevelsOpen

LEMMA DescendsApart ==
    ASSUME IInv, NEW level, NEW new, Descends(level, new)
    PROVE  LevelsApart'
<1> DEFINE dir == call.dir
           s == call.stack
           t == call'.stack
<1>1. level \in SUBSET Entries /\ s \in Seq(SUBSET Entries) /\ dir \in Entries
      /\ new \subseteq Entries /\ call.found \subseteq Entries
  BY Fields DEF IInv, Descends
<1>2. \A e \in level \cup new : Parent[e] = dir /\ e \in Entries /\ dir < e
                               /\ PathOf[e] = {e} \cup PathOf[dir] /\ e \in Nat /\ dir \in Nat
  BY <1>1, PathIs DEF IInv, LevelsOpen, Descends
<1>3. \A c \in level : c \notin PathOf[dir]
  BY <1>1, <1>2, PathUp
<1>4. \A c, e \in level : c # e => c \notin PathOf[e]
  BY <1>2, <1>3
<1>5. \A i \in DOMAIN s : \A a \in s[i] : a \notin PathOf[dir] /\ dir \notin PathOf[a] /\ a \in Entries
  BY <1>1 DEF IInv, LevelsApart, Descends
<1>6. \A i \in DOMAIN s : \A a \in s[i] : \A c \in level : a \notin PathOf[c] /\ c \notin PathOf[a]
  <2> SUFFICES ASSUME NEW i \in DOMAIN s, NEW a \in s[i], NEW c \in level
               PROVE  a \notin PathOf[c] /\ c \notin PathOf[a]
    OBVIOUS
  <2>1. dir \in PathOf[c] /\ PathOf[c] = {c} \cup PathOf[dir]
    BY <1>1, <1>2, PathIs
  <2>2. a # c /\ a \notin PathOf[c]
    BY <1>5, <2>1
  <2>3. c \notin PathOf[a]
    BY <1>5, <2>1, PathUp
  <2> QED
    BY <2>2, <2>3
<1>7. \A i \in DOMAIN t : /\ i = 1 => t[i] = level
                          /\ i # 1 => i - 1 \in DOMAIN s /\ t[i] = s[i - 1] /\ i \in Nat
  BY <1>1, Pushed DEF Descends
<1>8. \A i, j \in DOMAIN s : \A a \in s[i] : \A b \in s[j] : i # j \/ a # b => a \notin PathOf[b]
  BY DEF IInv, LevelsApart, Descends, Listed, Walks
<1>9. \A i, j \in DOMAIN t : \A a \in t[i] : \A b \in t[j] : i # j \/ a # b => a \notin PathOf[b]
  <2> SUFFICES ASSUME NEW i \in DOMAIN t, NEW j \in DOMAIN t, NEW a \in t[i], NEW b \in t[j],
                      i # j \/ a # b
               PROVE  a \notin PathOf[b]
    OBVIOUS
  <2>1. CASE i = 1 /\ j = 1
    BY <1>4, <1>7, <2>1
  <2>2. CASE i = 1 /\ j # 1
    BY <1>6, <1>7, <2>2
  <2>3. CASE i # 1 /\ j = 1
    BY <1>6, <1>7, <2>3
  <2>4. CASE i # 1 /\ j # 1
    <3>1. i - 1 \in DOMAIN s /\ j - 1 \in DOMAIN s /\ a \in s[i - 1] /\ b \in s[j - 1]
      BY <1>7, <2>4
    <3>2. i # j => i - 1 # j - 1
      BY <1>7, <2>4
    <3> QED
      BY <1>8, <3>1, <3>2
  <2> QED
    BY <2>1, <2>2, <2>3, <2>4
<1>10. \A e \in call.found : \A c \in level : c \notin PathOf[Parent[e]]
  <2> SUFFICES ASSUME NEW e \in call.found, NEW c \in level, c \in PathOf[Parent[e]]
               PROVE  FALSE
    OBVIOUS
  <2>1. dir \notin PathOf[Parent[e]]
    BY DEF IInv, LevelsApart, Descends
  <2>2. Parent[e] \in Entries
    BY <1>1, PathIs
  <2>3. dir \in PathOf[c]
    BY <1>1, <1>2, PathIs
  <2> QED
    BY <2>1, <2>2, <2>3, PathUp
<1>11. \A i \in DOMAIN t : \A a \in t[i] : \A e \in call'.found : a \notin PathOf[Parent[e]]
  <2> SUFFICES ASSUME NEW i \in DOMAIN t, NEW a \in t[i], NEW e \in call.found \cup new
               PROVE  a \notin PathOf[Parent[e]]
    BY DEF Descends
  <2>1. CASE e \in new
    BY <1>2, <1>3, <1>5, <1>7, <2>1
  <2>2. CASE e \in call.found
    <3>1. \A j \in DOMAIN s : \A b \in s[j] : b \notin PathOf[Parent[e]]
      BY <2>2 DEF IInv, LevelsApart, Descends, Listed, Walks
    <3> QED
      BY <1>7, <1>10, <2>2, <3>1
  <2> QED
    BY <2>1, <2>2
<1>12. ~Listed'
  BY DEF Descends, Listed
<1> QED
  BY <1>9, <1>11, <1>12 DEF LevelsApart

\* Of the levels that wait, one is the next to be listed, or falls away.
LEMMA ListNextStep ==
    ASSUME IInv, ListNext
    PROVE  IInv'
<1> DEFINE s == call.stack
<1>1. /\ s \in Seq(SUBSET Entries) /\ s # <<>> /\ Walks /\ call.pc = "walk" /\ ~Listed
      /\ UNCHANGED <<present, steady, changes>>
  BY Fields DEF IInv, ListNext, Walking, Walks, Listed
<1>2. Tail(s) \in Seq(SUBSET Entries) /\ Head(s) = s[1] /\ 1 \in DOMAIN s /\ s[1] \subseteq Entries
  BY <1>1, Popped
<1>3. \A i \in DOMAIN s : \A d \in s[i] : Open(d)
  BY <1>1 DEF IInv, LevelsOpen
<1>4. \A i \in DOMAIN s : \A a \in s[i] :
         /\ \A j \in DOMAIN s : \A b \in s[j] : i # j \/ a # b => a \notin PathOf[b]
         /\ \A e \in call.found : a \notin PathOf[Parent[e]]
  BY <1>1 DEF IInv, LevelsApart
<1>5. CASE s[1] = {} /\ call' = [call EXCEPT !.stack = Tail(s)]
  <2>1. TypeOK'
    BY <1>1, <1>2, <1>5 DEF IInv, TypeOK, Calls
  <2>2. /\ SameCall /\ call'.pc = "walk" /\ call'.found = call.found /\ call'.stack = Tail(s)
        /\ call'.names = call.names /\ call'.dir = call.dir
        /\ call'.truncated = call.truncated
    BY <1>1, <1>5 DEF IInv, TypeOK, Calls, SameCall
  <2>3. \A i \in DOMAIN call'.stack : i + 1 \in DOMAIN s /\ call'.stack[i] = s[i + 1] /\ i \in Nat
    BY <1>1, <2>2, Popped
  <2>4. PathsStay' /\ ~Listed'
    BY <1>1, <2>2 DEF IInv, PathsStay, Listed
  <2>5. LevelsOpen'
    BY <1>3, <2>2, <2>3, <2>4, SameCallIsEnough DEF LevelsOpen
  <2>6. LevelsApart'
    <3> SUFFICES ASSUME NEW i \in DOMAIN call'.stack, NEW a \in call'.stack[i]
                 PROVE  /\ \A j \in DOMAIN call'.stack : \A b \in call'.stack[j] :
                              i # j \/ a # b => a \notin PathOf[b]
                        /\ \A e \in call'.found : a \notin PathOf[Parent[e]]
      BY <2>4 DEF LevelsApart
    <3>1. i + 1 \in DOMAIN s /\ a \in s[i + 1] /\ i \in Nat
      BY <2>3
    <3>2. ASSUME NEW j \in DOMAIN call'.stack, NEW b \in call'.stack[j], i # j \/ a # b
          PROVE  a \notin PathOf[b]
      <4>1. j + 1 \in DOMAIN s /\ b \in s[j + 1] /\ j \in Nat
        BY <2>3
      <4>2. i + 1 # j + 1 \/ a # b
        BY <3>1, <3>2, <4>1
      <4> QED
        BY <1>4, <3>1, <4>1, <4>2
    <3> QED
      BY <1>4, <2>2, <3>1, <3>2
  <2>7. FoundFits'
    BY <1>1, <2>2, SameCallIsEnough DEF IInv, FoundFits, SameCall
  <2>8. NothingIsMissed'
    <3>1. \A e : Wanted(e)' <=> Wanted(e)
      BY <1>1, <2>2, SameCallIsEnough DEF Wanted, SameCall
    <3>2. \A e : Awaited(e) => Awaited(e)'
      <4> SUFFICES ASSUME NEW e, NEW i \in DOMAIN s, NEW d \in s[i], d \in PathOf[Parent[e]]
                   PROVE  Awaited(e)'
        BY <1>1 DEF Awaited
      <4>1. i # 1
        BY <1>5
      <4>2. i - 1 \in DOMAIN Tail(s) /\ Tail(s)[i - 1] = s[i]
        BY <1>1, <4>1, Popped
      <4> QED
        BY <2>2, <4>2 DEF Awaited
    <3> QED
      BY <1>1, <2>2, <3>1, <3>2 DEF IInv, NothingIsMissed
  <2>9. AnswersFit'
    BY <1>1, <2>2 DEF IInv, AnswersFit, SameCall, Walks
  <2> QED
    BY <2>1, <2>4, <2>5, <2>6, <2>7, <2>8, <2>9 DEF IInv
<1>6. ASSUME NEW d \in s[1], NEW t, t = << s[1] \ {d} >> \o Tail(s),
             \/ /\ d \in present
                /\ call' = [call EXCEPT !.pc = "entries", !.dir = d, !.names = Children(d),
                                        !.stack = t]
             \/ d \notin present /\ call' = [call EXCEPT !.stack = t]
      PROVE  IInv'
  <2>1. /\ t \in Seq(SUBSET Entries) /\ t[1] = s[1] \ {d} /\ 1 \in DOMAIN t
        /\ \A i \in DOMAIN t : i \in DOMAIN s /\ (i # 1 => t[i] = s[i])
        /\ \A i \in DOMAIN s : i \in DOMAIN t
        /\ d \in Entries /\ Children(d) \subseteq Entries
    <3>1. s[1] \ {d} \in SUBSET Entries /\ d \in Entries
      BY <1>2
    <3> QED
      BY <1>1, <1>6, <3>1, TopReplaced, Fields DEF Children, IInv
  <2>2. TypeOK'
    BY <1>1, <1>6, <2>1 DEF IInv, TypeOK, Calls
  <2>3. /\ SameCall /\ call'.pc \in {"walk", "entries"} /\ call'.found = call.found
        /\ call'.stack = t /\ call'.truncated = call.truncated
        /\ call'.pc = "entries" => /\ d \in present /\ call'.dir = d
                                   /\ call'.names = Children(d)
        /\ d \in present => call'.pc = "entries"
    BY <1>1, <1>6 DEF IInv, TypeOK, Calls, SameCall
  <2>4. PathsStay'
    BY <1>1 DEF IInv, PathsStay
  <2>5. Open(d)
    BY <1>2, <1>3
  <2>6. \A i \in DOMAIN t : t[i] \subseteq s[i]
    BY <2>1
  <2>7. LevelsOpen'
    BY <1>1, <1>3, <2>1, <2>3, <2>5, <2>6, SameCallIsEnough DEF LevelsOpen, Listed, Children
  <2>8. LevelsApart'
    <3>1. \A i \in DOMAIN t : \A a \in t[i] : i # 1 \/ a # d
      BY <2>1
    <3>2. \A i \in DOMAIN t : \A a \in t[i] : a \notin PathOf[d] /\ d \notin PathOf[a]
      BY <1>2, <1>4, <2>1, <2>6, <3>1
    <3>3. \A e \in call.found : d \notin PathOf[Parent[e]]
      BY <1>2, <1>4
    <3>4. \A i \in DOMAIN t : \A a \in t[i] :
             /\ \A j \in DOMAIN t : \A b \in t[j] : i # j \/ a # b => a \notin PathOf[b]
             /\ \A e \in call.found : a \notin PathOf[Parent[e]]
      BY <1>4, <2>1, <2>6
    <3> QED
      BY <2>3, <3>2, <3>3, <3>4 DEF LevelsApart, Listed
  <2>9. FoundFits'
    BY <1>1, <2>3, SameCallIsEnough DEF IInv, FoundFits, SameCall, Walks
  <2>10. NothingIsMissed'
    <3>1. \A e : Wanted(e)' <=> Wanted(e)
      BY <1>1, <2>3, SameCallIsEnough DEF Wanted, SameCall
    <3>2. ASSUME NEW e \in steady, Wanted(e), Awaited(e) PROVE Awaited(e)'
      <4>1. PICK i \in DOMAIN s : \E a \in s[i] : a \in PathOf[Parent[e]]
        BY <1>1, <3>2 DEF Awaited
      <4>2. PICK a \in s[i] : a \in PathOf[Parent[e]]
        BY <4>1
      <4>3. CASE i # 1 \/ a # d
        <5>1. i \in DOMAIN t /\ a \in t[i]
          BY <2>1, <4>3
        <5> QED
          BY <2>3, <4>2, <5>1 DEF Awaited
      <4>4. CASE i = 1 /\ a = d
        <5>1. e \in present /\ e \in Entries /\ PathOf[e] \subseteq present
          BY Fields DEF IInv, PathsStay
        <5>2. PathOf[e] = {e} \cup PathOf[Parent[e]]
          BY <5>1, PathIs
        <5>3. d \in present
          BY <4>2, <4>4, <5>1, <5>2
        <5>4. call'.pc = "entries" /\ call'.dir = d /\ call'.names = Children(d)
          BY <2>3, <5>3
        <5>5. \A c \in PathOf[e] : c \in Entries /\ Parent[c] = d => c \in Children(d)
          BY <5>1 DEF Children
        <5> QED
          BY <4>2, <4>4, <5>4, <5>5 DEF Awaited
      <4> QED
        BY <4>3, <4>4
    <3> QED
      BY <1>1, <2>3, <3>1, <3>2 DEF IInv, NothingIsMissed
  <2>11. AnswersFit'
    BY <1>1, <2>3 DEF IInv, AnswersFit, SameCall, Walks
  <2> QED
    BY <2>2, <2>4, <2>7, <2>8, <2>9, <2>10, <2>11 DEF IInv
<1> QED
  BY <1>1, <1>2, <1>5, <1>6 DEF ListNext

\* What leads to an entry that is wanted is among what the walk goes down into,
\* if this is all that is handed out and not barred.
LEMMA DescendsOn ==
    ASSUME IInv, NEW level, NEW new, Descends(level, new),
           level = {c \in call.names \cap Folders : ~Barred(c)},
           NEW e \in steady, Wanted(e), Awaited(e), e \in call.names => e \in new
    PROVE  e \in call'.found \/ Awaited(e)'
<1>1. /\ level \in SUBSET Entries /\ call.stack \in Seq(SUBSET Entries) /\ call.dir \in Entries
      /\ call.pc = "entries" /\ e \in Entries
  BY Fields DEF IInv, Descends, Listed
<1>2. ASSUME NEW i \in DOMAIN call.stack, NEW d \in call.stack[i], d \in PathOf[Parent[e]]
      PROVE  Awaited(e)'
  <2>1. i + 1 \in DOMAIN call'.stack /\ call'.stack[i + 1] = call.stack[i]
    BY <1>1, Pushed DEF Descends
  <2> QED
    BY <1>2, <2>1 DEF Awaited
<1>3. ASSUME call.dir \in PathOf[Parent[e]],
             \A c \in PathOf[e] : c \in Entries /\ Parent[c] = call.dir => c \in call.names
      PROVE  e \in call'.found \/ Awaited(e)'
  <2>1. PathOf[e] = {e} \cup PathOf[Parent[e]] /\ e \notin PathOf[Parent[e]]
    <3>1. e \in Nat /\ Parent[e] \in Nat /\ Parent[e] < e
      BY <1>1, PathIs
    <3>2. Parent[e] \in Entries => \A c \in PathOf[Parent[e]] : c <= Parent[e]
      BY PathUp
    <3>3. Parent[e] \notin Entries => PathOf[Parent[e]] = {}
      BY <1>1, PathIs, TreeAssumption
    <3> QED
      BY <1>1, <3>1, <3>2, <3>3, PathIs
  <2>2. PICK c \in PathOf[e] : c \in Entries /\ Parent[c] = call.dir
    BY <1>1, <1>3, <2>1, PathPasses
  <2>3. c \in call.names
    BY <1>3, <2>2
  <2>4. CASE c = e
    BY <2>3, <2>4 DEF Descends
  <2>5. CASE c # e
    <3>1. c \in PathOf[Parent[e]]
      BY <2>1, <2>2, <2>5
    <3>2. call.root \in PathOf[call.dir] /\ call.dir \in Folders
      BY DEF IInv, LevelsOpen, Descends, Open, Below
    <3>3. PathOf[c] = {c} \cup PathOf[call.dir] /\ call.dir < c /\ c \in Nat /\ call.dir \in Nat
      BY <1>1, <2>2, PathIs
    <3>4. Below(call.root, c) /\ c # call.root
      <4>1. call.root <= call.dir /\ call.root \in Nat
        BY <1>1, <3>2, PathUp, PathIs
      <4> QED
        BY <3>2, <3>3, <4>1 DEF Below
    <3>5. c \in Folders /\ ~Barred(c)
      BY <3>1, <3>4 DEF Wanted, Reachable
    <3>6. c \in level
      BY <2>3, <3>5
    <3>7. 1 \in DOMAIN call'.stack /\ call'.stack[1] = level
      BY <1>1, Pushed DEF Descends
    <3> QED
      BY <3>1, <3>6, <3>7 DEF Awaited
  <2> QED
    BY <2>4, <2>5
<1> QED
  BY <1>2, <1>3 DEF Awaited

LEMMA FiniteEntries ==
    ASSUME NEW S \in SUBSET Entries
    PROVE  IsFiniteSet(S) /\ Cardinality(S) \in Nat
BY TreeAssumption, FS_Subset, FS_CardinalityType

LEMMA SmallerSet ==
    ASSUME NEW S \in SUBSET Entries, NEW T \in SUBSET S
    PROVE  /\ Cardinality(T) <= Cardinality(S)
           /\ Cardinality(T) = Cardinality(S) => T = S
BY FiniteEntries, FS_Subset

\* If no limit was reached, every name was taken: the first that was not would
\* have been stopped at a limit by the ones before it.
LEMMA AllTaken ==
    ASSUME TypeOK, NEW names \in SUBSET Entries, names \cap call.found = {},
           ~LimitReached(call.visited + Cardinality(Taken(names)),
                         call.found \cup Hits(Taken(names)))
    PROVE  Taken(names) = names
<1> DEFINE taken == Taken(names)
           Left == names \ taken
<1> SUFFICES ASSUME Left # {} PROVE FALSE
  BY DEF Taken
<1>1. Left \subseteq Nat
  BY PathIs
<1>2. PICK x \in Left : \A y \in Left : x <= y
  BY <1>1, Smallest
<1> DEFINE before == {f \in names : f < x}
<1>3. before \subseteq taken /\ before \subseteq names /\ taken \subseteq names
  <2>1. \A f \in names : f \in Nat /\ x \in Nat
    BY PathIs
  <2>2. \A f \in before : f \notin Left
    BY <1>2, <2>1
  <2> QED
    BY <2>2 DEF Taken
<1>4. /\ call.found \in SUBSET Entries /\ call.visited \in Nat
      /\ taken \in SUBSET Entries /\ before \in SUBSET taken /\ before \in SUBSET Entries
  BY <1>3, Fields
<1>5. Cardinality(before) <= Cardinality(taken) /\ Cardinality(before) \in Nat
      /\ Cardinality(taken) \in Nat
  BY <1>4, SmallerSet, FiniteEntries
<1> DEFINE all == call.found \cup Hits(taken)
           some == call.found \cup Hits(before)
<1>6. /\ Hits(before) \in SUBSET Entries /\ Hits(before) \subseteq names
      /\ Hits(before) \cap call.found = {}
      /\ all \in SUBSET Entries /\ some \in SUBSET all /\ some \in SUBSET Entries
  BY <1>3, <1>4 DEF Hits
<1>7. Cardinality(some) = Cardinality(call.found) + Cardinality(Hits(before))
  <2>1. call.found \cap Hits(before) = {}
    BY <1>6
  <2>2. /\ IsFiniteSet(call.found) /\ IsFiniteSet(Hits(before))
        /\ Cardinality(call.found) \in Nat /\ Cardinality(Hits(before)) \in Nat
    BY <1>4, <1>6, FiniteEntries
  <2>3. Cardinality(call.found \cap Hits(before)) = 0
    BY <2>1, FS_EmptySet
  <2>4. Cardinality(some) = Cardinality(call.found) + Cardinality(Hits(before))
                            - Cardinality(call.found \cap Hits(before))
    BY <2>2, FS_Union
  <2> QED
    BY <2>2, <2>3, <2>4
<1>8. Cardinality(some) <= Cardinality(all) /\ Cardinality(all) \in Nat /\ Cardinality(some) \in Nat
  BY <1>6, SmallerSet, FiniteEntries
<1>9. ~(call.visited + Cardinality(taken) >= MaxWalkEntries) /\ ~(Cardinality(all) >= ResultLimit)
  BY DEF LimitReached
<1>10. MaxWalkEntries \in Nat /\ ResultLimit \in Nat
  BY LimitsAssumption
<1> HIDE DEF before, all, some, taken
<1>11. call.visited + Cardinality(before) < MaxWalkEntries
  BY <1>4, <1>5, <1>9, <1>10
<1>12. Cardinality(call.found) + Cardinality(Hits(before)) < ResultLimit
  BY <1>7, <1>8, <1>9, <1>10
<1>13. x \in taken
  BY <1>11, <1>12 DEF taken, Taken, before
<1> QED
  BY <1>13

\* Depths: a directory above an entry that is wanted is not too deep.
LEMMA NotTooDeep ==
    ASSUME TypeOK, NEW e \in Entries, NEW d \in PathOf[Parent[e]],
           Depth(call.root, e) <= DepthLimit + 1
    PROVE  ~TooDeep(d)
<1>1. Parent[e] \in Entries /\ PathOf[e] = {e} \cup PathOf[Parent[e]] /\ e \in Nat
      /\ Parent[e] \in Nat /\ Parent[e] < e
  BY PathIs, TreeAssumption
<1>2. e \notin PathOf[Parent[e]]
  BY <1>1, PathUp
<1>3. /\ PathOf[e] \in SUBSET Entries /\ PathOf[Parent[e]] \in SUBSET Entries
      /\ PathOf[d] \in SUBSET PathOf[Parent[e]] /\ PathOf[call.root] \in SUBSET Entries
      /\ PathOf[d] \in SUBSET Entries
  BY <1>1, PathIs, PathUp, Fields
<1>4. /\ Cardinality(PathOf[e]) = Cardinality(PathOf[Parent[e]]) + 1
      /\ Cardinality(PathOf[Parent[e]]) \in Nat
  BY <1>1, <1>2, <1>3, FiniteEntries, FS_AddElement
<1>5. Cardinality(PathOf[d]) <= Cardinality(PathOf[Parent[e]]) /\ Cardinality(PathOf[d]) \in Nat
      /\ Cardinality(PathOf[call.root]) \in Nat
  BY <1>3, SmallerSet, FiniteEntries
<1> QED
  BY <1>4, <1>5, LimitsAssumption DEF Depth, TooDeep
-----------------------------------------------------------------------------
(* Every step keeps the invariant.                                         *)

LEMMA SearchEntriesStep ==
    ASSUME IInv, SearchEntries
    PROVE  IInv'
<1> DEFINE names == Pruned(call.names)
           taken == Taken(names)
           visited == call.visited + Cardinality(taken)
           found == call.found \cup Hits(taken)
           full == LimitReached(visited, found)
           level == names \cap Directories \cap Folders
<1>1. /\ call.tool = "search" /\ call.pc = "entries" /\ Listed /\ Walks
      /\ UNCHANGED <<present, steady, changes>>
  BY DEF SearchEntries, Listed, Walks
<1>2. /\ call.names \subseteq Entries /\ call.found \subseteq Entries
      /\ call.stack \in Seq(SUBSET Entries) /\ call.visited \in Nat
  BY Fields DEF IInv
<1>3. /\ names \subseteq call.names /\ taken \subseteq names /\ Hits(taken) \subseteq taken
      /\ taken \in SUBSET Entries /\ level \in SUBSET Entries /\ found \subseteq Entries
  BY <1>2 DEF Pruned, Taken, Hits
<1>4. visited \in Nat
  BY <1>2, <1>3, FiniteEntries
<1>5. level = {c \in call.names \cap Folders : ~Barred(c)}
  BY <1>1 DEF Pruned, Directories, Barred
<1>6. PathsStay'
  BY <1>1 DEF IInv, PathsStay
<1>7. CASE TooDeep(call.dir)
  <2>1. call' = [call EXCEPT !.pc = "walk"]
    BY <1>7 DEF SearchEntries
  <2>2. TypeOK'
    BY <1>1, <2>1 DEF IInv, TypeOK, Calls
  <2>3. /\ SameCall /\ call'.pc = "walk" /\ call'.found = call.found /\ call'.stack = call.stack
        /\ call'.truncated = call.truncated /\ ~Listed'
    BY <2>1 DEF IInv, TypeOK, Calls, SameCall, Listed
  <2>4. LevelsOpen' /\ LevelsApart'
    BY <1>1, <2>3, SameCallIsEnough DEF IInv, LevelsOpen, LevelsApart
  <2>5. FoundFits'
    BY <1>1, <2>3, SameCallIsEnough DEF IInv, FoundFits, SameCall
  <2>6. NothingIsMissed'
    <3>1. \A e : Wanted(e)' <=> Wanted(e)
      BY <1>1, <2>3, SameCallIsEnough DEF Wanted, SameCall
    <3>2. ASSUME NEW e \in steady, Wanted(e), Awaited(e) PROVE Awaited(e)'
      <4>1. e \in Entries /\ Depth(call.root, e) <= DepthLimit + 1
        BY <1>1, <3>2, Fields DEF IInv, Wanted
      <4>2. call.dir \notin PathOf[Parent[e]]
        BY <1>7, <4>1, NotTooDeep DEF IInv
      <4> QED
        BY <2>3, <3>2, <4>2 DEF Awaited
    <3> QED
      BY <1>1, <2>3, <3>1, <3>2 DEF IInv, NothingIsMissed
  <2>7. AnswersFit'
    BY <1>1, <2>3 DEF IInv, AnswersFit, SameCall
  <2> QED
    BY <1>6, <2>2, <2>4, <2>5, <2>6, <2>7 DEF IInv
<1>8. CASE ~TooDeep(call.dir)
  <2>1. call' = [call EXCEPT !.pc = IF full THEN "done" ELSE "walk",
                             !.visited = visited, !.found = found, !.truncated = full,
                             !.stack = <<level>> \o call.stack]
    BY <1>8 DEF SearchEntries, Descend
  <2>2. full \in BOOLEAN /\ <<level>> \o call.stack \in Seq(SUBSET Entries)
    BY <1>2, <1>3, Pushed DEF LimitReached
  <2> HIDE DEF names, taken, visited, found, full, level
  <2>3. TypeOK'
    BY <1>1, <1>3, <1>4, <2>1, <2>2 DEF IInv, TypeOK, Calls
  <2>4. /\ SameCall /\ call'.pc = (IF full THEN "done" ELSE "walk")
        /\ call'.found = found /\ call'.truncated = full
        /\ call'.stack = <<level>> \o call.stack
    BY <2>1 DEF IInv, TypeOK, Calls, SameCall
  <2>5. Descends(level, Hits(taken))
    BY <1>1, <1>3, <1>5, <2>4 DEF Descends, found
  <2>6. LevelsOpen' /\ LevelsApart'
    BY <2>5, DescendsOpen, DescendsApart
  <2>7. \A e \in Hits(taken) : Reachable(e) /\ ~IsSecret(e)
    <3> SUFFICES ASSUME NEW e \in Hits(taken) PROVE Reachable(e) /\ ~IsSecret(e)
      OBVIOUS
    <3>1. e \in names /\ e \in Entries /\ ~IsSecret(e)
      BY <1>2, <1>3 DEF Hits
    <3>2. e \in Directories => ~Barred(e)
      BY <3>1 DEF names, Pruned, Barred
    <3>3. Open(call.dir) /\ Parent[e] = call.dir
      BY <1>1, <1>3, <3>1 DEF IInv, LevelsOpen
    <3> QED
      BY <3>1, <3>2, <3>3, ChildIsReachable DEF IInv
  <2>8. FoundFits'
    BY <1>1, <2>4, <2>7, SameCallIsEnough DEF IInv, FoundFits, SameCall, found
  <2>9. NothingIsMissed'
    <3>1. CASE full
      BY <1>1, <2>4, <3>1 DEF NothingIsMissed, Walks
    <3>2. CASE ~full
      <4>1. names \cap call.found = {}
        <5> SUFFICES ASSUME NEW e \in names, e \in call.found PROVE FALSE
          OBVIOUS
        <5>1. Parent[e] = call.dir /\ call.dir \notin PathOf[Parent[e]] /\ call.dir \in Entries
          BY <1>1, <1>3, Fields DEF IInv, LevelsOpen, LevelsApart
        <5> QED
          BY <5>1, PathIs
      <4>2. taken = names
        <5>1. names \in SUBSET Entries
          BY <1>2, <1>3
        <5> QED
          BY <3>2, <4>1, <5>1, AllTaken DEF IInv, full, visited, found, taken
      <4>3. \A e : Wanted(e)' <=> Wanted(e)
        BY <1>1, <2>4, SameCallIsEnough DEF Wanted, SameCall
      <4>4. ASSUME NEW e \in steady, Wanted(e), e \in call.names
            PROVE  e \in Hits(taken)
        <5>1. ~IsSecret(e) /\ e \in Matching /\ (e \in Directories => ~Barred(e))
          BY <1>1, <4>4 DEF Wanted, Reachable
        <5>2. e \in names
          BY <4>4, <5>1 DEF names, Pruned, Barred
        <5> QED
          BY <4>2, <5>1, <5>2 DEF Hits
      <4>5. \A e \in steady : Wanted(e) => e \in call'.found \/ Awaited(e)'
        BY <1>1, <1>5, <2>4, <2>5, <4>4, DescendsOn DEF IInv, NothingIsMissed, found
      <4> QED
        BY <1>1, <2>4, <3>2, <4>3, <4>5 DEF NothingIsMissed
    <3> QED
      BY <3>1, <3>2
  <2>10. AnswersFit'
    BY <1>1, <2>4 DEF AnswersFit, SameCall
  <2> QED
    BY <1>6, <2>3, <2>6, <2>8, <2>9, <2>10 DEF IInv
<1> QED
  BY <1>7, <1>8

LEMMA UsageEntriesStep ==
    ASSUME IInv, UsageEntries
    PROVE  IInv'
<1> DEFINE files == call.names \ Directories
           level == Entered(call.names) \cap Folders
<1>1. /\ call.tool = "usage" /\ call.pc = "entries" /\ Listed /\ Walks
      /\ UNCHANGED <<present, steady, changes>>
  BY DEF UsageEntries, Listed, Walks
<1>2. /\ call.names \subseteq Entries /\ call.found \subseteq Entries
      /\ call.stack \in Seq(SUBSET Entries) /\ call.visited \in Nat
      /\ files \in SUBSET Entries /\ level \in SUBSET Entries
  BY Fields DEF IInv, Entered
<1>3. level = {c \in call.names \cap Folders : ~Barred(c)}
  BY <1>1 DEF Entered, Directories, Barred
<1>4. call.root \in Folders
  BY <1>1 DEF IInv, FoundFits
<1>5. PICK taken \in SUBSET files :
        /\ Cardinality(taken) = IF Cardinality(files) < MaxWalkEntries - call.visited
                                THEN Cardinality(files) ELSE MaxWalkEntries - call.visited
        /\ LET visited == call.visited + Cardinality(taken)
               full == visited >= MaxWalkEntries
           IN  call' = [call EXCEPT !.pc = IF full THEN "done" ELSE "walk",
                          !.visited = visited, !.truncated = full,
                          !.found = @ \cup {e \in taken : Countable(e)},
                          !.stack = Descend(Entered(call.names))]
  BY DEF UsageEntries
<1> DEFINE visited == call.visited + Cardinality(taken)
           full == visited >= MaxWalkEntries
           new == {e \in taken : Countable(e)}
<1>6. taken \in SUBSET Entries /\ new \subseteq taken /\ new \subseteq Entries
  BY <1>2
<1>7. visited \in Nat /\ full \in BOOLEAN /\ Cardinality(taken) \in Nat /\ Cardinality(files) \in Nat
  BY <1>2, <1>6, FiniteEntries
<1>8. <<level>> \o call.stack \in Seq(SUBSET Entries)
  BY <1>2, Pushed
<1>9. call' = [call EXCEPT !.pc = IF full THEN "done" ELSE "walk",
                 !.visited = visited, !.truncated = full, !.found = call.found \cup new,
                 !.stack = <<level>> \o call.stack]
  BY <1>5 DEF Descend
<1>10. ~full => taken = files
  <2>1. MaxWalkEntries \in Nat
    BY LimitsAssumption
  <2>2. ~full => Cardinality(taken) = Cardinality(files)
    BY <1>2, <1>5, <1>7, <2>1
  <2> QED
    BY <1>2, <2>2, SmallerSet
<1> HIDE DEF visited, full, new, level
<1>11. TypeOK'
  BY <1>1, <1>2, <1>6, <1>7, <1>8, <1>9 DEF IInv, TypeOK, Calls
<1>12. /\ SameCall /\ call'.pc = (IF full THEN "done" ELSE "walk")
       /\ call'.found = call.found \cup new /\ call'.truncated = full
       /\ call'.stack = <<level>> \o call.stack
  BY <1>9 DEF IInv, TypeOK, Calls, SameCall
<1>13. Descends(level, new)
  BY <1>1, <1>3, <1>6, <1>12 DEF Descends
<1>14. LevelsOpen' /\ LevelsApart'
  BY <1>13, DescendsOpen, DescendsApart
<1>15. ASSUME NEW e \in new
       PROVE  Reachable(e) /\ ~IsSecret(e) /\ e \notin Directories /\ (changes = 0 => e \in steady)
  <2>1. e \in call.names /\ e \in Entries /\ ~IsSecret(e) /\ e \notin Directories /\ e \in present
    BY <1>2, <1>6, Zenon DEF new, Countable
  <2>2. Open(call.dir) /\ Parent[e] = call.dir
    BY <1>1, <2>1 DEF IInv, LevelsOpen
  <2> QED
    BY <2>1, <2>2, ChildIsReachable DEF IInv, PathsStay
<1>16. FoundFits'
  BY <1>1, <1>4, <1>12, <1>15, SameCallIsEnough DEF IInv, FoundFits, SameCall
<1>17. NothingIsMissed'
  <2>1. CASE full
    BY <1>1, <1>12, <2>1 DEF NothingIsMissed, Walks
  <2>2. CASE ~full
    <3>1. \A e : Wanted(e)' <=> Wanted(e)
      BY <1>1, <1>12, SameCallIsEnough DEF Wanted, SameCall
    <3>2. ASSUME NEW e \in steady, Wanted(e), e \in call.names PROVE e \in new
      <4>1. e \in files /\ ~IsSecret(e) /\ e \in present
        BY <1>1, <3>2, Fields DEF Wanted, IInv
      <4> QED
        BY <1>10, <2>2, <4>1 DEF new, Countable
    <3>3. \A e \in steady : Wanted(e) => e \in call'.found \/ Awaited(e)'
      BY <1>1, <1>3, <1>12, <1>13, <3>2, DescendsOn DEF IInv, NothingIsMissed
    <3> QED
      BY <1>1, <1>12, <2>2, <3>1, <3>3 DEF NothingIsMissed
  <2> QED
    BY <2>1, <2>2
<1>18. PathsStay'
  BY <1>1 DEF IInv, PathsStay
<1>19. AnswersFit'
  BY <1>1, <1>12 DEF AnswersFit, SameCall
<1> QED
  BY <1>11, <1>14, <1>16, <1>17, <1>18, <1>19 DEF IInv

LEMMA WalkEndsStep ==
    ASSUME IInv, WalkEnds
    PROVE  IInv'
<1>1. /\ call.tool \in {"search", "usage"} /\ call.pc = "walk" /\ call.stack = <<>> /\ Walks
      /\ call' = [call EXCEPT !.pc = "done"] /\ UNCHANGED <<present, steady, changes>>
  BY DEF WalkEnds, Walking, Walks
<1>2. TypeOK'
  BY <1>1 DEF IInv, TypeOK, Calls
<1>3. /\ SameCall /\ call'.pc = "done" /\ call'.found = call.found /\ ~Listed' /\ ~Walks'
  BY <1>1 DEF IInv, TypeOK, Calls, SameCall, Listed, Walks
<1>4. \A e \in steady : Wanted(e) => e \in call.found
  BY <1>1 DEF IInv, NothingIsMissed, Awaited
<1>5. \A e : Wanted(e)' <=> Wanted(e)
  BY <1>1, <1>3, SameCallIsEnough DEF Wanted, SameCall
<1>6. PathsStay' /\ LevelsOpen' /\ LevelsApart' /\ NothingIsMissed'
  BY <1>1, <1>3, <1>4, <1>5 DEF IInv, PathsStay, LevelsOpen, LevelsApart, NothingIsMissed
<1>7. FoundFits'
  BY <1>1, <1>3, SameCallIsEnough DEF IInv, FoundFits, SameCall
<1>8. AnswersFit'
  BY <1>1, <1>3 DEF IInv, AnswersFit, SameCall
<1> QED
  BY <1>2, <1>6, <1>7, <1>8 DEF IInv

\* Steps of a call that does not walk.
LEMMA OtherTools ==
    ASSUME IInv, SameCall, call.tool \in {"list", "read"}, TypeOK', AnswersFit',
           UNCHANGED <<present, steady>>, changes' = 0 => changes = 0
    PROVE  IInv'
BY DEF IInv, SameCall, PathsStay, LevelsOpen, LevelsApart, FoundFits, NothingIsMissed,
       Walks, Listed

LEMMA ListDirectoryStep ==
    ASSUME IInv, ListDirectory
    PROVE  IInv'
<1>1. call.tool = "list" /\ call.pc = "walk" /\ UNCHANGED <<present, steady, changes>>
  BY DEF ListDirectory, Walking
<1>2. Children(call.root) \subseteq Entries /\ FirstOnes(Children(call.root)) \subseteq Entries
  BY Fields DEF IInv, Children, FirstOnes
<1>3. TypeOK'
  BY <1>1, <1>2 DEF ListDirectory, IInv, TypeOK, Calls
<1>4. SameCall
  BY DEF ListDirectory, IInv, TypeOK, Calls, SameCall
<1>5. AnswersFit'
  <2>1. call'.pc = "done" => call'.found = FirstOnes(call'.names)
    BY <1>1 DEF ListDirectory, IInv, TypeOK, Calls
  <2> QED
    BY <1>1, <1>4, <2>1 DEF AnswersFit, SameCall, FirstOnes
<1> QED
  BY <1>1, <1>3, <1>4, <1>5, OtherTools

LEMMA MeasureStep ==
    ASSUME IInv, NEW size \in Sizes, Measure(size)
    PROVE  IInv'
<1>1. /\ call.tool = "read" /\ call.pc = "walk" /\ UNCHANGED <<present, steady, changes>>
      /\ size \in Nat /\ ReadLimit \in Nat
  BY LimitsAssumption DEF Measure, Walking, Sizes
<1>2. /\ call' \in Calls /\ SameCall /\ call'.pc \in {"error", "entries"}
      /\ call'.pc = "entries" => call'.truncated = (call'.size > ReadLimit)
  <2>1. call \in Calls
    BY DEF IInv, TypeOK
  <2>2. CASE call.root \notin present
    <3>1. call' = [call EXCEPT !.pc = "error"]
      BY <2>2 DEF Measure
    <3> QED
      BY <2>1, <3>1 DEF Calls, SameCall
  <2>3. CASE call.root \in present
    <3> DEFINE cut == size > ReadLimit
    <3>1. call' = [call EXCEPT !.pc = "entries", !.size = size, !.truncated = cut]
      BY <2>3 DEF Measure
    <3>2. cut \in BOOLEAN
      BY <1>1
    <3> HIDE DEF cut
    <3>3. call' \in Calls /\ SameCall /\ call'.pc = "entries" /\ call'.size = size
          /\ call'.truncated = cut
      BY <1>1, <2>1, <3>1, <3>2 DEF Calls, SameCall
    <3> QED
      BY <3>3 DEF cut
  <2> QED
    BY <2>2, <2>3
<1>3. TypeOK'
  BY <1>1, <1>2 DEF IInv, TypeOK
<1>4. AnswersFit'
  BY <1>1, <1>2 DEF AnswersFit, SameCall
<1> QED
  BY <1>1, <1>2, <1>3, <1>4, OtherTools

LEMMA ReadStep ==
    ASSUME IInv, NEW size \in Sizes, Read(size)
    PROVE  IInv'
<1>1. /\ call.tool = "read" /\ call.pc = "entries" /\ UNCHANGED <<present, steady>>
      /\ size \in Nat /\ ReadLimit \in Nat /\ MaxChanges \in Nat
      /\ changes' = (IF size # call.size THEN changes + 1 ELSE changes)
      /\ size # call.size => changes < MaxChanges
      /\ changes \in 0 .. MaxChanges
  BY LimitsAssumption DEF Read, Sizes, IInv, TypeOK
<1>2. changes' \in 0 .. MaxChanges /\ (changes' = 0 => changes = 0 /\ size = call.size)
  BY <1>1
<1>3. /\ call' \in Calls /\ SameCall /\ call'.pc \in {"error", "done"}
      /\ call'.truncated = call.truncated /\ call'.size = call.size
      /\ call'.pc = "done" => call'.visited = (IF size < ReadLimit THEN size ELSE ReadLimit)
  <2>1. call \in Calls
    BY DEF IInv, TypeOK
  <2>2. CASE call.root \notin present
    <3>1. call' = [call EXCEPT !.pc = "error"]
      BY <2>2 DEF Read
    <3> QED
      BY <2>1, <3>1 DEF Calls, SameCall
  <2>3. CASE call.root \in present
    <3> DEFINE got == IF size < ReadLimit THEN size ELSE ReadLimit
    <3>1. call' = [call EXCEPT !.pc = "done", !.visited = got]
      BY <2>3 DEF Read
    <3>2. got \in Nat
      BY <1>1
    <3> HIDE DEF got
    <3>3. /\ call' \in Calls /\ SameCall /\ call'.pc = "done" /\ call'.visited = got
          /\ call'.truncated = call.truncated /\ call'.size = call.size
      BY <2>1, <3>1, <3>2 DEF Calls, SameCall
    <3> QED
      BY <3>3 DEF got
  <2> QED
    BY <2>2, <2>3
<1>4. TypeOK'
  BY <1>1, <1>2, <1>3 DEF IInv, TypeOK
<1>5. AnswersFit'
  BY <1>1, <1>2, <1>3 DEF IInv, AnswersFit, SameCall
<1> QED
  BY <1>1, <1>2, <1>3, <1>4, <1>5, OtherTools

\* The tree changes under the call: what is wanted can only become less.
LEMMA TreeChanges ==
    ASSUME IInv, UNCHANGED call, present' \subseteq Entries, steady' \subseteq present',
           steady' \subseteq steady, changes' = changes + 1, changes < MaxChanges,
           \A e \in present' : PathOf[e] \subseteq present'
    PROVE  IInv'
<1>1. changes \in Nat /\ MaxChanges \in Nat /\ changes' # 0
  BY LimitsAssumption DEF IInv, TypeOK
<1>2. TypeOK' /\ PathsStay'
  BY <1>1 DEF IInv, TypeOK, PathsStay
<1>3. SameCall
  BY DEF SameCall
<1>4. LevelsOpen' /\ LevelsApart' /\ AnswersFit'
  BY <1>1, <1>3, SameCallIsEnough
  DEF IInv, LevelsOpen, LevelsApart, AnswersFit, Walks, Listed, FirstOnes
<1>5. FoundFits'
  BY <1>1, <1>3, SameCallIsEnough DEF IInv, FoundFits
<1>6. NothingIsMissed'
  <2>1. \A e \in steady' : Wanted(e)' => Wanted(e)
    BY <1>3, SameCallIsEnough DEF Wanted
  <2>2. \A e : Awaited(e) => Awaited(e)'
    BY DEF Awaited
  <2> QED
    BY <2>1, <2>2 DEF IInv, NothingIsMissed, Walks
<1> QED
  BY <1>2, <1>4, <1>5, <1>6 DEF IInv

LEMMA OthersStep ==
    ASSUME IInv, Others
    PROVE  IInv'
<1>1. PICK e \in Entries : Appear(e) \/ Vanish(e)
  BY DEF Others
<1>2. \A f \in present : f \in Entries /\ PathOf[f] \subseteq present
  BY Fields DEF IInv, PathsStay
<1>3. CASE Appear(e)
  <2>1. present' = present \cup {e} /\ Parent[e] \in present \cup {Top}
    BY <1>3 DEF Appear
  <2>2. PathOf[e] \subseteq present'
    BY <1>2, <2>1, PathIs
  <2>3. \A f \in present' : PathOf[f] \subseteq present'
    BY <1>2, <2>1, <2>2
  <2> QED
    BY <1>2, <1>3, <2>1, <2>3, TreeChanges, Fields DEF Appear, IInv
<1>4. CASE Vanish(e)
  <2>1. present' = {f \in present : ~Below(e, f)} /\ steady' = steady \cap present'
    BY <1>4 DEF Vanish
  <2>2. \A f \in present' : PathOf[f] \subseteq present'
    <3> SUFFICES ASSUME NEW f \in present', NEW g \in PathOf[f] PROVE g \in present'
      OBVIOUS
    <3>1. f \in present /\ g \in present /\ e \notin PathOf[f]
      BY <1>2, <2>1 DEF Below
    <3>2. e \notin PathOf[g]
      BY <1>2, <3>1, PathUp
    <3> QED
      BY <2>1, <3>1, <3>2 DEF Below
  <2> QED
    BY <1>2, <1>4, <2>1, <2>2, TreeChanges, Fields DEF Vanish, IInv
<1> QED
  BY <1>1, <1>3, <1>4

\* A tree with every parent has every path.
LEMMA WholePaths ==
    ASSUME NEW there \in SUBSET Entries, Whole(there)
    PROVE  \A e \in there : PathOf[e] \subseteq there
<1> DEFINE Bad == {e \in there : ~(PathOf[e] \subseteq there)}
<1> SUFFICES ASSUME Bad # {} PROVE FALSE
  OBVIOUS
<1>1. Bad \subseteq Nat
  BY PathIs
<1>2. PICK e \in Bad : \A f \in Bad : e <= f
  BY <1>1, Smallest
<1>3. Parent[e] \in there \cup {Top} /\ e \in Entries
  BY DEF Whole
<1>4. Parent[e] \notin Bad
  BY <1>2, <1>3, PathIs
<1> QED
  BY <1>3, <1>4, PathIs

LEMMA InitFits ==
    ASSUME Init
    PROVE  IInv
<1>1. PICK tool \in Tools, root \in Entries \ Links : call = Begun(tool, root)
  BY DEF Init
<1>2. /\ present \in SUBSET Entries /\ Whole(present) /\ steady = present /\ changes = 0
  BY DEF Init
<1>3. << {root} >> \in Seq(SUBSET Entries) /\ MaxChanges \in Nat
  BY LimitsAssumption
<1>4. TypeOK
  BY <1>1, <1>2, <1>3 DEF TypeOK, Begun, Calls
<1>5. PathsStay
  BY <1>2, WholePaths DEF PathsStay
<1>6. /\ call.tool = tool /\ call.root = root /\ call.stack = << {root} >>
      /\ call.pc \in {"error", "done", "walk"} /\ call.truncated = FALSE
      /\ call.pc = "walk" => /\ tool = "usage" => root \in Folders
                             /\ tool = "search" => root \in Folders
                             /\ call.found = {}
      /\ call.pc = "done" => tool = "usage" /\ root \notin Folders
      /\ root \in Folders => call.found = {}
      /\ call.found = IF tool = "usage" /\ root \notin Folders THEN {root} ELSE {}
      /\ tool = "usage" /\ root \notin Folders => call.pc \in {"error", "done"}
  BY <1>1 DEF Begun, Refused
<1>7. Walks => Open(root) /\ ~Listed
  <2> SUFFICES ASSUME Walks PROVE Open(root) /\ ~Listed
    OBVIOUS
  <2>1. root \in Folders /\ call.pc = "walk"
    BY <1>6 DEF Walks
  <2>2. \A c \in PathOf[root] : Below(root, c) => c = root
    <3> SUFFICES ASSUME NEW c \in PathOf[root], root \in PathOf[c] PROVE c = root
      BY DEF Below
    <3>1. c \in Entries /\ c <= root /\ root <= c /\ c \in Nat /\ root \in Nat
      BY PathIs, PathUp
    <3> QED
      BY <3>1
  <2> QED
    BY <1>6, <2>1, <2>2, PathIs DEF Open, Below, Listed
<1>8. LevelsOpen
  BY <1>6, <1>7 DEF LevelsOpen, Listed, Walks
<1>9. LevelsApart
  BY <1>6, <1>7 DEF LevelsApart, Listed, Walks
<1>10. FoundFits
  BY <1>6 DEF FoundFits
<1>11. NothingIsMissed
  <2>1. ASSUME Walks, NEW e \in steady, Wanted(e) PROVE Awaited(e)
    <3>1. e # root /\ root \in PathOf[e] /\ e \in Entries
      BY <1>2, <1>6, <2>1 DEF Wanted, Reachable, Below
    <3>2. root \in PathOf[Parent[e]]
      BY <3>1, PathIs
    <3> QED
      BY <1>6, <3>2 DEF Awaited
  <2> QED
    BY <1>6, <2>1 DEF NothingIsMissed
<1>12. AnswersFit
  BY <1>6 DEF AnswersFit
<1> QED
  BY <1>4, <1>5, <1>8, <1>9, <1>10, <1>11, <1>12 DEF IInv

LEMMA IInvStep == IInv /\ [Next]_vars => IInv'
<1> SUFFICES ASSUME IInv, [Next]_vars PROVE IInv'
  OBVIOUS
<1>1. CASE Tool
  BY <1>1, ListNextStep, SearchEntriesStep, UsageEntriesStep, WalkEndsStep,
     ListDirectoryStep, MeasureStep, ReadStep DEF Tool
<1>2. CASE Others
  BY <1>2, OthersStep
<1>3. CASE UNCHANGED vars
  <2>1. SameCall /\ UNCHANGED call /\ UNCHANGED <<present, steady, changes>>
    BY <1>3 DEF SameCall, vars
  <2>2. \A e : (Wanted(e)' <=> Wanted(e)) /\ (Awaited(e)' <=> Awaited(e))
    BY <2>1, SameCallIsEnough DEF Wanted, Awaited
  <2>3. TypeOK' /\ PathsStay' /\ AnswersFit'
    BY <2>1 DEF IInv, TypeOK, PathsStay, AnswersFit, FirstOnes
  <2>4. LevelsOpen' /\ LevelsApart' /\ FoundFits' /\ NothingIsMissed'
    BY <2>1, <2>2, SameCallIsEnough
    DEF IInv, LevelsOpen, LevelsApart, FoundFits, NothingIsMissed, Walks, Listed
  <2> QED
    BY <2>3, <2>4 DEF IInv
<1> QED
  BY <1>1, <1>2, <1>3 DEF Next

\* What a call has looked at, put off and found fits the tree in every state, and
\* nothing that is to be found is missed.
THEOREM FileToolsInvariant == Spec => []IInv
<1>1. Init => IInv
  BY InitFits
<1> QED
  BY <1>1, IInvStep, PTL DEF Spec
-----------------------------------------------------------------------------
(* What the calls answer.                                                  *)

\* A search that was not refused has a directory for its root.
SearchesFolders == call.tool = "search" /\ call.pc # "error" => call.root \in Folders

LEMMA SearchesFoldersInvariant == Spec => []SearchesFolders
<1>1. Init => SearchesFolders
  <2> SUFFICES ASSUME NEW tool \in Tools, NEW root \in Entries \ Links, call = Begun(tool, root)
               PROVE  SearchesFolders
    BY DEF Init
  <2> QED
    BY DEF Begun, Refused, SearchesFolders
<1>2. IInv /\ SearchesFolders /\ [Next]_vars => SearchesFolders'
  <2> SUFFICES ASSUME IInv, SearchesFolders, [Next]_vars PROVE SearchesFolders'
    OBVIOUS
  <2>1. CASE Tool
    <3>1. SameCall /\ call.pc # "error"
      <4> USE DEF IInv, TypeOK, Calls, SameCall
      <4>1. CASE ListNext
        BY <4>1 DEF ListNext, Walking
      <4>2. CASE SearchEntries
        BY <4>2 DEF SearchEntries
      <4>3. CASE UsageEntries
        BY <4>3 DEF UsageEntries
      <4>4. CASE WalkEnds
        BY <4>4 DEF WalkEnds, Walking
      <4>5. CASE ListDirectory
        BY <4>5 DEF ListDirectory, Walking
      <4>6. ASSUME NEW size \in Sizes, Measure(size) PROVE SameCall /\ call.pc # "error"
        BY <4>6 DEF Measure, Walking
      <4>7. ASSUME NEW size \in Sizes, Read(size) PROVE SameCall /\ call.pc # "error"
        BY <4>7 DEF Read
      <4> QED
        BY <2>1, <4>1, <4>2, <4>3, <4>4, <4>5, <4>6, <4>7 DEF Tool
    <3> QED
      BY <3>1 DEF SearchesFolders, SameCall
  <2>2. CASE Others \/ UNCHANGED vars
    BY <2>2 DEF Others, Appear, Vanish, vars, SearchesFolders
  <2> QED
    BY <2>1, <2>2 DEF Next
<1> QED
  BY <1>1, <1>2, FileToolsInvariant, PTL DEF Spec

\* The state of a call and of the tree keeps its form, whatever the tree and the
\* limits (every tool of the engine, and what other programs do meanwhile).
THEOREM FileTypes == Spec => []TypeOK
<1>1. IInv => TypeOK
  BY DEF IInv
<1> QED
  BY <1>1, FileToolsInvariant, PTL

\* What a finished search that does not call itself truncated left out was gone for
\* a while, or too deep, secret or restricted (filesystem_search).
THEOREM SearchesAreComplete == Spec => []SearchIsComplete
<1>1. IInv /\ SearchesFolders => SearchIsComplete
  <2> SUFFICES ASSUME IInv, SearchesFolders, Over("search"), ~call.truncated,
                      NEW e \in steady, Reachable(e), ~IsSecret(e), e \in Matching,
                      Depth(call.root, e) <= DepthLimit + 1
               PROVE  e \in call.found
    BY DEF SearchIsComplete
  <2>1. Wanted(e)
    BY DEF Over, Wanted
  <2> QED
    BY <2>1 DEF Over, SearchesFolders, IInv, NothingIsMissed
<1> QED
  BY <1>1, FileToolsInvariant, SearchesFoldersInvariant, PTL

\* A finished usage that does not call itself truncated counts every file that was
\* there throughout, and on a tree that did not change no other (filesystem_get_disk_usage).
THEOREM UsagesAreExact == Spec => []UsageIsExact
<1>1. IInv => UsageIsExact
  <2> SUFFICES ASSUME IInv, Over("usage"), ~call.truncated, call.root \in Folders
               PROVE  LET files == {e \in steady : Reachable(e) /\ ~IsSecret(e)} \ Directories
                      IN  /\ files \subseteq call.found
                          /\ changes = 0 => call.found = files
    BY DEF UsageIsExact
  <2> DEFINE files == {e \in steady : Reachable(e) /\ ~IsSecret(e)} \ Directories
  <2>1. \A e \in files : Wanted(e)
    BY DEF Over, Wanted
  <2>2. files \subseteq call.found
    BY <2>1 DEF Over, IInv, NothingIsMissed
  <2>3. changes = 0 => call.found \subseteq files
    BY DEF Over, IInv, FoundFits
  <2> QED
    BY <2>2, <2>3
<1> QED
  BY <1>1, FileToolsInvariant, PTL

\* Neither walk reports a secret entry, or one below a directory it must not enter
\* (the pruning of dirnames in both).
THEOREM BarredIsNotFound == Spec => []NothingBarredIsFound
<1>1. IInv => NothingBarredIsFound
  BY DEF IInv, FoundFits, NothingBarredIsFound
<1> QED
  BY <1>1, FileToolsInvariant, PTL

\* A set of numbers of which fewer than a limit are among the first so many is no
\* larger: the least that is left out has all the others before it.
LEMMA FewAreAll ==
    ASSUME NEW names \in SUBSET Entries, Cardinality(FirstOnes(names)) < ResultLimit
    PROVE  FirstOnes(names) = names
<1> DEFINE Out == names \ FirstOnes(names)
<1> SUFFICES ASSUME Out # {} PROVE FALSE
  BY DEF FirstOnes
<1>1. Entries \subseteq Nat /\ IsFiniteSet(names) /\ ResultLimit \in Nat
  BY TreeAssumption, LimitsAssumption, FS_Subset
<1>2. PICK e \in Out : \A f \in Out : e <= f
  BY <1>1, Smallest
<1> DEFINE before == {f \in names : f < e}
<1>3. before \subseteq FirstOnes(names) /\ FirstOnes(names) \subseteq names
  <2>1. ASSUME NEW f \in before PROVE f \notin Out
    BY <1>1, <1>2
  <2> QED
    BY <2>1 DEF FirstOnes
<1>4. IsFiniteSet(FirstOnes(names)) /\ IsFiniteSet(before)
  BY <1>1, <1>3, FS_Subset
<1>5. /\ Cardinality(before) <= Cardinality(FirstOnes(names))
      /\ Cardinality(before) \in Nat /\ Cardinality(FirstOnes(names)) \in Nat
  BY <1>3, <1>4, FS_Subset, FS_CardinalityType
<1>6. ~(Cardinality(before) < ResultLimit)
  BY <1>2 DEF FirstOnes
<1> QED
  BY <1>1, <1>5, <1>6

\* A listing shorter than its limit is the whole directory, and a read that is not
\* called truncated reached the end of the file (filesystem_list_directory, filesystem_read_file).
THEOREM UncutAnswersAreWhole == Spec => []UncutIsWhole
<1>1. IInv => ShortListingIsWhole
  <2> SUFFICES ASSUME IInv, Over("list"), Cardinality(call.found) < ResultLimit
               PROVE  call.found = call.names
    BY DEF ShortListingIsWhole
  <2>1. call.found = FirstOnes(call.names) /\ call.names \in SUBSET Entries
    BY Fields DEF IInv, AnswersFit, Over
  <2> QED
    BY <2>1, FewAreAll
<1>2. IInv => ReadIsWhole
  <2> SUFFICES ASSUME IInv, Over("read"), changes = 0
               PROVE  call.visited = IF call.truncated THEN ReadLimit ELSE call.size
    BY DEF ReadIsWhole
  <2>1. call.truncated = (call.size > ReadLimit)
    BY DEF IInv, AnswersFit, Over
  <2>2. call.visited = (IF call.size < ReadLimit THEN call.size ELSE ReadLimit)
    BY DEF IInv, AnswersFit, Over
  <2>3. call.size \in Nat /\ ReadLimit \in Nat
    BY Fields, LimitsAssumption DEF IInv
  <2>4. call.truncated => call.visited = ReadLimit
    <3>1. call.truncated => call.size > ReadLimit
      BY <2>1, Zenon
    <3> QED
      BY <2>2, <2>3, <3>1
  <2>5. ~call.truncated => call.visited = call.size
    <3>1. ~call.truncated => ~(call.size > ReadLimit)
      BY <2>1, Zenon
    <3> QED
      BY <2>2, <2>3, <3>1
  <2> QED
    BY <2>4, <2>5, Zenon
<1>3. IInv => UncutIsWhole
  BY <1>1, <1>2 DEF UncutIsWhole
<1> QED
  BY <1>3, FileToolsInvariant, PTL
=============================================================================
