------------------------- MODULE MCRemoteExecution -------------------------
(* Instances of RemoteExecution for TLC.                                   *)
EXTENDS RemoteExecution, TLC

CONSTANTS t1, t2, d1, d2, r1, r2, h1, h2, h3, n1, n2, x1

OnDevice1 == [t \in Tasks |-> d1]
OneEach == [t \in Tasks |-> IF t = t1 THEN d1 ELSE d2]
AllOnDevice1 == [n \in Nodes |-> d1]
RunnerEach == [n \in Nodes |-> IF n = n2 THEN d2 ELSE d1]

Threads == Permutations(Requests) \cup Permutations(Handlers)
ThreadsAndNodes == Threads \cup Permutations(Nodes)
=============================================================================
