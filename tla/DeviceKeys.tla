----------------------------- MODULE DeviceKeys -----------------------------
(***************************************************************************)
(* What the device registry promises: a device belongs to one owner for    *)
(* good, and the one key that it accepts is one that was issued for it, by *)
(* a registration on its owner's behalf; no two devices share a key.  It   *)
(* does not promise that a key that was replaced is never accepted again.  *)
(***************************************************************************)
EXTENDS Naturals

CONSTANTS Ids, Owners, Nobody, Keys  \* Nobody is no owner, and 0 no key

VARIABLES
    owner,   \* of each device, or Nobody
    issued,  \* the keys that were issued for it
    key      \* the one accepted

vars == <<owner, issued, key>>

Init ==
    /\ owner = [d \in Ids |-> Nobody]
    /\ issued = [d \in Ids |-> {}]
    /\ key = [d \in Ids |-> 0]

\* A registration on behalf of o, with a key that nobody has had.
Register(d, o, k) ==
    /\ owner[d] \in {Nobody, o}
    /\ \A e \in Ids : k \notin issued[e]
    /\ owner' = [owner EXCEPT ![d] = o]
    /\ issued' = [issued EXCEPT ![d] = @ \cup {k}]
    /\ key' = [key EXCEPT ![d] = k]

\* An older key of the device comes back.
Return(d, k) ==
    /\ k \in issued[d]
    /\ key' = [key EXCEPT ![d] = k]
    /\ UNCHANGED <<owner, issued>>

Next ==
    \E d \in Ids :
        \/ \E o \in Owners, k \in Keys : Register(d, o, k)
        \/ \E k \in issued[d] : Return(d, k)

Spec == Init /\ [][Next]_vars
=============================================================================
