-------------------------- MODULE CommandDelivery --------------------------
(***************************************************************************)
(* What the command queue promises for a device with one runner: a command *)
(* enters the queue once, is handed out from the queue and never returns   *)
(* to it, and its script is started at most once, after it was handed out. *)
(* Nothing is promised of a command that was handed out: it may never run. *)
(***************************************************************************)
EXTENDS Naturals

CONSTANT Commands

VARIABLES
    stage,  \* where a command is
    runs    \* how often its script was started

vars == <<stage, runs>>

TypeOK ==
    /\ stage \in [Commands -> {"absent", "queued", "handed out"}]
    /\ runs \in [Commands -> 0 .. 1]

Init ==
    /\ stage = [c \in Commands |-> "absent"]
    /\ runs = [c \in Commands |-> 0]

Enqueue(c) ==
    /\ stage[c] = "absent"
    /\ stage' = [stage EXCEPT ![c] = "queued"]
    /\ UNCHANGED runs

HandOut(c) ==
    /\ stage[c] = "queued"
    /\ stage' = [stage EXCEPT ![c] = "handed out"]
    /\ UNCHANGED runs

Start(c) ==
    /\ stage[c] = "handed out"
    /\ runs[c] = 0
    /\ runs' = [runs EXCEPT ![c] = 1]
    /\ UNCHANGED stage

Next == \E c \in Commands : Enqueue(c) \/ HandOut(c) \/ Start(c)

Spec == Init /\ [][Next]_vars
=============================================================================
