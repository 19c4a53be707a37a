------------------------ MODULE DeviceRegistryProofs ------------------------
(***************************************************************************)
(* Proofs about DeviceRegistry: for any owners, tokens, machines, requests *)
(* and devices, and for registrations and heartbeats that overlap in any   *)
(* way, the rows stay well formed, devices stay with their owners, an old  *)
(* node token comes back only through an overtaken heartbeat, two devices  *)
(* get one name only through overlapping registrations, and the rows       *)
(* implement DeviceKeys.                                                   *)
(*                                                                         *)
(* The invariant says of each row that is held in the memory of a request  *)
(* (a registration or a heartbeat that read it) what it has in common with *)
(* the row in the database, whatever was written to this one in between.   *)
(***************************************************************************)
EXTENDS DeviceRegistry, TLAPS

\* Whoever has found a device is about to give it a key that no device has had,
\* in a row of the owner of its token.
FoundFits(q) ==
    /\ q.dev \in Ids /\ q.key \in 1 .. keys /\ q.row \in Rows
    /\ q.row.owner = OwnerOf[q.token]
    /\ \A d \in Ids : q.key \notin issued[d]
    /\ q.row.key # 0 => devices[q.dev].owner = q.row.owner

SavedFits(q) ==
    /\ q.dev \in Ids /\ q.key \in Keys
    /\ devices[q.dev].owner = OwnerOf[q.token]
    /\ q.key \in issued[q.dev]

RegistrationsFit ==
    \A r \in Requests :
        /\ reg[r].pc = "found" => FoundFits(reg[r])
        /\ reg[r].pc \in {"saved", "answer"} => SavedFits(reg[r])

NewKeysDiffer ==
    \A q, r \in Requests :
        q # r /\ reg[q].pc = "found" /\ reg[r].pc = "found" => reg[q].key # reg[r].key

RowFits(d) ==
    \/ devices[d] = NoRow /\ issued[d] = {}
    \/ devices[d] \in Rows /\ devices[d].key \in issued[d]
RowsFit == \A d \in Ids : RowFits(d) /\ issued[d] \subseteq 1 .. keys

BeatFits(b) ==
    /\ b.key \in issued[b.dev]
    /\ b.pc = "read" => /\ b.row \in Rows
                        /\ b.row.owner = devices[b.dev].owner
                        /\ b.row.key \in issued[b.dev]
BeatsFit == \A m \in Machines : beat[m].pc # "idle" => BeatFits(beat[m])

NodesFit == \A m \in Machines : Theirs(config[m]) /\ Theirs(process[m])

IInv == TypeOK /\ RegistrationsFit /\ NewKeysDiffer /\ RowsFit /\ BeatsFit /\ NodesFit
-----------------------------------------------------------------------------
(* What the operators on records return.                                   *)

LEMMA SentFields ==
    ASSUME NEW m \in Machines, NEW t \in Tokens
    PROVE  /\ Sent(m, t) \in Registrations
           /\ Sent(m, t).pc = "sent"
BY DEF Sent, Registrations

LEMMA AtFields ==
    ASSUME NEW q \in Registrations, NEW pc \in {"checked", "answer"}
    PROVE  /\ At(q, pc) \in Registrations
           /\ At(q, pc).pc = pc /\ At(q, pc).dev = q.dev /\ At(q, pc).key = q.key
           /\ At(q, pc).row = q.row /\ At(q, pc).token = q.token
           /\ At(q, pc).machine = q.machine
BY DEF At, Registrations

LEMMA FoundFields ==
    ASSUME NEW q \in Registrations, NEW d \in Ids, NEW row \in Rows, NEW k \in Keys
    PROVE  /\ Found(q, d, row, k) \in Registrations
           /\ Found(q, d, row, k).pc = "found" /\ Found(q, d, row, k).dev = d
           /\ Found(q, d, row, k).key = k /\ Found(q, d, row, k).row = row
           /\ Found(q, d, row, k).token = q.token
           /\ Found(q, d, row, k).machine = q.machine
BY DEF Found, Registrations

LEMMA SavedFields ==
    ASSUME NEW q \in Registrations, NEW d \in Ids
    PROVE  /\ SavedAs(q, d) \in Registrations
           /\ SavedAs(q, d).pc = "saved" /\ SavedAs(q, d).dev = d
           /\ SavedAs(q, d).key = q.key /\ SavedAs(q, d).token = q.token
           /\ SavedAs(q, d).machine = q.machine
BY DEF SavedAs, Registrations

LEMMA RegistrationFields ==
    ASSUME NEW q \in Registrations
    PROVE  /\ q.pc # "idle" /\ q.token \in Tokens /\ q.machine \in Machines
           /\ q.dev \in Ids \cup {0} /\ q.key \in Keys \cup {0}
BY DEF Registrations

LEMMA SentBeatFields ==
    ASSUME NEW c \in Configs
    PROVE  /\ SentBeat(c) \in Heartbeats /\ SentBeat(c).pc = "sent"
           /\ SentBeat(c).dev = c.dev /\ SentBeat(c).key = c.key
BY DEF SentBeat, Heartbeats, Configs

LEMMA ReadBeatFields ==
    ASSUME NEW b \in Heartbeats, NEW row \in Rows \cup {NoRow}
    PROVE  /\ ReadBeat(b, row) \in Heartbeats /\ ReadBeat(b, row).pc = "read"
           /\ ReadBeat(b, row).dev = b.dev /\ ReadBeat(b, row).key = b.key
           /\ ReadBeat(b, row).row = row
BY DEF ReadBeat, Heartbeats

LEMMA BeatFields ==
    ASSUME NEW b \in Heartbeats
    PROVE  b.pc # "idle" /\ b.dev \in Ids /\ b.key \in Keys /\ b.row \in Rows \cup {NoRow}
BY DEF Heartbeats

LEMMA RowFields ==
    /\ \A row \in Rows, k \in Keys \cup {0} :
          /\ WithKey(row, k) \in Rows /\ WithKey(row, k).owner = row.owner
          /\ WithKey(row, k).name = row.name /\ WithKey(row, k).key = k
    /\ \A row \in Rows, n \in Names :
          /\ Renamed(row, n) \in Rows /\ Renamed(row, n).owner = row.owner
          /\ Renamed(row, n).name = n /\ Renamed(row, n).key = row.key
    /\ \A o \in Owners, n \in Names :
          /\ NewRow(o, n) \in Rows /\ NewRow(o, n).owner = o
          /\ NewRow(o, n).name = n /\ NewRow(o, n).key = 0
    /\ \A row \in Rows : row.owner \in Owners /\ row.key \in Keys \cup {0}
    /\ NoRow.owner = Nobody /\ NoRow.key = 0
BY DEF WithKey, Renamed, NewRow, Rows, NoRow

LEMMA IdleFields == Idle.pc = "idle"
BY DEF Idle

LEMMA ConfigFields ==
    /\ \A c \in Configs : c # NoConfig /\ c.dev \in Ids /\ c.key \in Keys /\ c.owner \in Owners
    /\ \A d \in Ids, k \in Keys, o \in Owners :
         LET c == [dev |-> d, key |-> k, owner |-> o]
         IN  c \in Configs /\ c.dev = d /\ c.key = k /\ c.owner = o
BY RegistryAssumption DEF Configs, NoConfig, Keys
-----------------------------------------------------------------------------
(* The invariant is inductive.                                             *)

LEMMA Initially == Init => IInv
<1> SUFFICES ASSUME Init PROVE IInv
  OBVIOUS
<1>1. TypeOK
  BY RegistryAssumption DEF Init, TypeOK
<1>2. RegistrationsFit /\ NewKeysDiffer
  BY IdleFields DEF Init, RegistrationsFit, NewKeysDiffer
<1>3. RowsFit
  BY DEF Init, RowsFit, RowFits
<1>4. BeatsFit
  BY IdleFields DEF Init, BeatsFit
<1>5. NodesFit
  BY DEF Init, NodesFit, Theirs
<1> QED
  BY <1>1, <1>2, <1>3, <1>4, <1>5 DEF IInv

\* A registration that goes on without having written a device.
LEMMA RegistrationMoves ==
    ASSUME IInv, NEW r \in Requests, NEW q \in Registrations \cup {Idle},
           reg' = [reg EXCEPT ![r] = q],
           q.pc # "found", q.pc \in {"saved", "answer"} => SavedFits(q),
           UNCHANGED <<devices, beat, config, process, keys, issued, overlaps>>,
           tokens' \in [Tokens -> {"none", "open", "expired", "used"}]
    PROVE  IInv'
<1>1. TypeOK'
  BY DEF IInv, TypeOK
<1>2. \A p \in Requests : reg'[p] = IF p = r THEN q ELSE reg[p]
  BY DEF IInv, TypeOK
<1>3. RegistrationsFit'
  BY <1>2 DEF IInv, RegistrationsFit, FoundFits, SavedFits
<1>4. NewKeysDiffer'
  BY <1>2 DEF IInv, NewKeysDiffer
<1>5. RowsFit' /\ BeatsFit' /\ NodesFit'
  BY DEF IInv, RowsFit, RowFits, BeatsFit, BeatFits, NodesFit, Theirs
<1> QED
  BY <1>1, <1>3, <1>4, <1>5 DEF IInv

\* A node that goes on without having written a device.
LEMMA NodeMoves ==
    ASSUME IInv, UNCHANGED <<tokens, devices, reg, keys, issued, overlaps>>,
           beat' \in [Machines -> Heartbeats \cup {Idle}],
           config' \in [Machines -> Configs \cup {NoConfig}],
           process' \in [Machines -> Configs \cup {NoConfig}],
           BeatsFit', NodesFit'
    PROVE  IInv'
<1>1. TypeOK'
  BY DEF IInv, TypeOK
<1>2. RegistrationsFit' /\ NewKeysDiffer'
  BY DEF IInv, RegistrationsFit, FoundFits, SavedFits, NewKeysDiffer
<1>3. RowsFit'
  BY DEF IInv, RowsFit, RowFits
<1> QED
  BY <1>1, <1>2, <1>3 DEF IInv

\* What a step keeps that writes a device: the owner of one that exists, and the
\* keys that were issued.
Kept == \A d \in Ids : /\ issued[d] \subseteq issued'[d]
                       /\ issued[d] # {} => devices'[d].owner = devices[d].owner

LEMMA KeptIsEnough ==
    ASSUME IInv, Kept
    PROVE  /\ UNCHANGED <<config, process>> => NodesFit'
           /\ \A q : SavedFits(q) => SavedFits(q)'
           /\ \A b \in Heartbeats : BeatFits(b) => BeatFits(b)'
<1>1. ASSUME UNCHANGED <<config, process>> PROVE NodesFit'
  <2>1. \A c \in Configs \cup {NoConfig} : Theirs(c) => Theirs(c)'
    BY ConfigFields DEF Kept, Theirs
  <2> QED
    BY <1>1, <2>1 DEF IInv, TypeOK, NodesFit
<1>2. \A q : SavedFits(q) => SavedFits(q)'
  BY DEF Kept, SavedFits
<1>3. \A b \in Heartbeats : BeatFits(b) => BeatFits(b)'
  BY BeatFields DEF BeatFits, Kept
<1> QED
  BY <1>1, <1>2, <1>3

LEMMA FindDeviceStep ==
    ASSUME IInv, NEW r \in Requests, NEW d \in Ids, FindDevice(r, d)
    PROVE  IInv'
<1> DEFINE pair == Pair(reg[r])
<1> DEFINE row == RowFor(pair, d)
<1>1. /\ reg[r] \in Registrations /\ reg[r].token \in Tokens /\ reg[r].machine \in Machines
      /\ OwnerOf[reg[r].token] \in Owners /\ pair[1] = OwnerOf[reg[r].token]
      /\ pair[2] \in Names /\ pair \in Owners \X Names
  <2>1. reg[r] \in Registrations
    BY IdleFields DEF IInv, TypeOK, FindDevice
  <2> QED
    BY <2>1, RegistrationFields, RegistryAssumption DEF Pair
<1>2. /\ keys \in Nat /\ keys + 1 \in Keys /\ keys' = keys + 1
  BY RegistryAssumption DEF IInv, TypeOK, FindDevice, Keys
<1>3. /\ row \in Rows /\ row.owner = OwnerOf[reg[r].token]
      /\ row.key # 0 => devices[d].owner = row.owner
  <2>1. CASE Named(pair) = {}
    BY <1>1, <2>1, RowFields DEF RowFor
  <2>2. CASE Named(pair) # {}
    <3>1. row = devices[d]
      BY <2>2 DEF RowFor
    <3>2. d \in Named(pair)
      BY <2>2 DEF FindDevice
    <3>3. devices[d].owner = OwnerOf[reg[r].token]
      BY <1>1, <3>2 DEF Named, IsNamed
    <3>4. devices[d] \in Rows
      BY <1>1, <3>3, RowFields, RegistryAssumption DEF IInv, RowsFit, RowFits
    <3> QED
      BY <3>1, <3>3, <3>4
  <2> QED
    BY <2>1, <2>2
<1> DEFINE q == Found(reg[r], d, row, keys + 1)
<1>4. /\ q \in Registrations /\ q.pc = "found" /\ q.dev = d /\ q.row = row
      /\ q.key = keys + 1 /\ q.token = reg[r].token
  BY <1>1, <1>2, <1>3, FoundFields
<1>5. reg' = [reg EXCEPT ![r] = q]
  BY DEF FindDevice
<1>6. /\ UNCHANGED <<tokens, devices, beat, config, process, issued>>
      /\ overlaps' \subseteq Owners \X Names
  BY <1>1 DEF FindDevice, nodes, IInv, TypeOK
<1> HIDE DEF q, row, pair
<1>7. \A p \in Requests : reg'[p] = IF p = r THEN q ELSE reg[p]
  BY <1>5 DEF IInv, TypeOK
<1>8. TypeOK'
  BY <1>2, <1>4, <1>5, <1>6 DEF IInv, TypeOK, Keys
<1>9. RegistrationsFit'
  <2> SUFFICES ASSUME NEW p \in Requests
               PROVE  /\ reg'[p].pc = "found" => FoundFits(reg[p])'
                      /\ reg'[p].pc \in {"saved", "answer"} => SavedFits(reg[p])'
    BY DEF RegistrationsFit
  <2>1. CASE p = r
    <3>1. \A e \in Ids : keys + 1 \notin issued[e]
      BY <1>2 DEF IInv, RowsFit
    <3> QED
      BY <1>2, <1>3, <1>4, <1>6, <1>7, <2>1, <3>1 DEF FoundFits
  <2>2. CASE p # r
    BY <1>2, <1>6, <1>7, <2>2 DEF IInv, RegistrationsFit, FoundFits, SavedFits
  <2> QED
    BY <2>1, <2>2
<1>10. NewKeysDiffer'
  <2>1. \A p \in Requests \ {r} : reg[p].pc = "found" => reg[p].key # keys + 1
    BY <1>2 DEF IInv, RegistrationsFit, FoundFits
  <2> QED
    BY <1>4, <1>7, <2>1 DEF IInv, NewKeysDiffer
<1>11. RowsFit'
  BY <1>2, <1>6 DEF IInv, RowsFit, RowFits
<1>12. BeatsFit' /\ NodesFit'
  BY <1>6 DEF IInv, BeatsFit, BeatFits, NodesFit, Theirs
<1> QED
  BY <1>8, <1>9, <1>10, <1>11, <1>12 DEF IInv

LEMMA RowOfDevice ==
    ASSUME IInv, NEW d \in Ids
    PROVE  /\ Exists(d) <=> devices[d] \in Rows
           /\ Exists(d) <=> issued[d] # {}
           /\ devices[d].owner \in Owners => Exists(d)
BY RowFields, RegistryAssumption DEF IInv, RowsFit, RowFits, Exists

LEMMA SaveDeviceFacts ==
    ASSUME IInv, NEW r \in Requests, NEW d \in Ids, SaveDevice(r, d)
    PROVE  /\ reg[r] \in Registrations /\ reg[r].pc = "found" /\ FoundFits(reg[r])
           /\ \A e \in Ids : devices'[e] = IF e = d THEN WithKey(reg[r].row, reg[r].key)
                                           ELSE devices[e]
           /\ \A e \in Ids : issued'[e] = IF e = d THEN issued[e] \cup {reg[r].key}
                                          ELSE issued[e]
           /\ \A p \in Requests : reg'[p] = IF p = r THEN SavedAs(reg[r], d) ELSE reg[p]
           /\ devices[d].owner \in {Nobody, reg[r].row.owner}
           /\ Kept
<1>1. reg[r] \in Registrations
  BY IdleFields DEF IInv, TypeOK, SaveDevice
<1>2. reg[r].pc = "found" /\ FoundFits(reg[r])
  BY DEF IInv, RegistrationsFit, SaveDevice
<1>3. /\ \A e \in Ids : devices'[e] = IF e = d THEN WithKey(reg[r].row, reg[r].key)
                                      ELSE devices[e]
      /\ \A e \in Ids : issued'[e] = IF e = d THEN issued[e] \cup {reg[r].key}
                                     ELSE issued[e]
      /\ \A p \in Requests : reg'[p] = IF p = r THEN SavedAs(reg[r], d) ELSE reg[p]
  BY DEF IInv, TypeOK, SaveDevice
<1>4. devices[d].owner \in {Nobody, reg[r].row.owner}
  BY <1>2 DEF SaveDevice, Exists, FoundFits
<1>5. Kept
  <2>1. reg[r].key \in Keys \cup {0} /\ reg[r].row \in Rows
    BY <1>1, <1>2, RegistrationFields DEF FoundFits
  <2>2. WithKey(reg[r].row, reg[r].key).owner = reg[r].row.owner
    BY <2>1, RowFields
  <2> QED
    BY <1>3, <1>4, <2>2, RowOfDevice DEF Kept, Exists
<1> QED
  BY <1>1, <1>2, <1>3, <1>4, <1>5

LEMMA SaveDeviceStep ==
    ASSUME IInv, NEW r \in Requests, NEW d \in Ids, SaveDevice(r, d)
    PROVE  IInv'
<1> DEFINE q == SavedAs(reg[r], d)
<1>1. reg[r] \in Registrations /\ reg[r].pc = "found" /\ FoundFits(reg[r])
  BY SaveDeviceFacts
<1>2. /\ \A e \in Ids : devices'[e] = IF e = d THEN WithKey(reg[r].row, reg[r].key)
                                      ELSE devices[e]
      /\ \A e \in Ids : issued'[e] = IF e = d THEN issued[e] \cup {reg[r].key}
                                     ELSE issued[e]
      /\ \A p \in Requests : reg'[p] = IF p = r THEN q ELSE reg[p]
  BY SaveDeviceFacts, SMTT(20)
<1>3. Kept
  BY SaveDeviceFacts
<1>4. /\ q \in Registrations /\ q.pc = "saved" /\ q.dev = d /\ q.key = reg[r].key
      /\ q.token = reg[r].token
  BY <1>1, SavedFields
<1>5. /\ UNCHANGED <<tokens, beat, config, process, keys, overlaps>>
      /\ devices' = [devices EXCEPT ![d] = WithKey(reg[r].row, reg[r].key)]
      /\ issued' = [issued EXCEPT ![d] = @ \cup {reg[r].key}]
      /\ reg' = [reg EXCEPT ![r] = q]
  BY DEF SaveDevice, nodes
<1>6. /\ WithKey(reg[r].row, reg[r].key) \in Rows
      /\ WithKey(reg[r].row, reg[r].key).owner = OwnerOf[reg[r].token]
      /\ WithKey(reg[r].row, reg[r].key).key = reg[r].key
      /\ reg[r].key \in Keys /\ reg[r].key \in 1 .. keys
  <2>1. reg[r].key \in 1 .. keys /\ reg[r].key \in Keys
    BY <1>1, RegistryAssumption DEF FoundFits, IInv, TypeOK, Keys
  <2> QED
    BY <1>1, <2>1, RowFields DEF FoundFits
<1> HIDE DEF q
<1>7. TypeOK'
  BY <1>4, <1>5, <1>6 DEF IInv, TypeOK
<1>8. RegistrationsFit'
  <2> SUFFICES ASSUME NEW p \in Requests
               PROVE  /\ reg'[p].pc = "found" => FoundFits(reg[p])'
                      /\ reg'[p].pc \in {"saved", "answer"} => SavedFits(reg[p])'
    BY DEF RegistrationsFit
  <2>1. CASE p = r
    <3>1. reg'[p] = q
      BY <1>2, <2>1
    <3>2. /\ devices'[q.dev].owner = OwnerOf[q.token]
          /\ q.key \in issued'[q.dev]
      BY <1>2, <1>4, <1>6
    <3>3. SavedFits(reg[p])'
      BY <1>4, <1>6, <3>1, <3>2 DEF SavedFits
    <3> QED
      BY <1>4, <3>1, <3>3
  <2>2. CASE p # r
    <3>1. reg'[p] = reg[p]
      BY <1>2, <2>2
    <3>2. ASSUME reg[p].pc = "found" PROVE FoundFits(reg[p])'
      <4>1. FoundFits(reg[p]) /\ reg[p].key # reg[r].key
        BY <1>1, <2>2, <3>2 DEF IInv, RegistrationsFit, NewKeysDiffer
      <4>2. \A e \in Ids : reg[p].key \notin issued'[e]
        <5>1. SUFFICES ASSUME NEW e \in Ids PROVE reg[p].key \notin issued'[e]
          OBVIOUS
        <5>2. reg[p].key \notin issued[e]
          BY <4>1 DEF FoundFits
        <5>3. issued'[e] = IF e = d THEN issued[e] \cup {reg[r].key} ELSE issued[e]
          BY <1>2
        <5> QED
          BY <4>1, <5>2, <5>3
      <4>3. reg[p].row.key # 0 => devices'[reg[p].dev].owner = reg[p].row.owner
        <5>1. reg[p].dev \in Ids /\ reg[p].row.owner \in Owners
          BY <4>1, RowFields DEF FoundFits
        <5> QED
          BY <1>3, <4>1, <5>1, RowOfDevice DEF FoundFits, Kept
      <4> QED
        BY <1>5, <3>1, <4>1, <4>2, <4>3 DEF FoundFits
    <3>3. ASSUME reg[p].pc \in {"saved", "answer"} PROVE SavedFits(reg[p])'
      BY <1>3, <3>1, <3>3, KeptIsEnough DEF IInv, RegistrationsFit, SavedFits
    <3> QED
      BY <3>1, <3>2, <3>3
  <2> QED
    BY <2>1, <2>2
<1>9. NewKeysDiffer'
  BY <1>2, <1>4 DEF IInv, NewKeysDiffer
<1>10. RowsFit'
  BY <1>2, <1>5, <1>6 DEF IInv, RowsFit, RowFits
<1>11. BeatsFit'
  <2>1. \A m \in Machines : beat[m].pc # "idle" => beat[m] \in Heartbeats
    BY IdleFields DEF IInv, TypeOK
  <2> QED
    BY <1>3, <1>5, <2>1, KeptIsEnough DEF IInv, BeatsFit, BeatFits
<1>12. NodesFit'
  BY <1>3, <1>5, KeptIsEnough
<1> QED
  BY <1>7, <1>8, <1>9, <1>10, <1>11, <1>12 DEF IInv

LEMMA SaveHeartbeatFacts ==
    ASSUME IInv, NEW m \in Machines, SaveHeartbeat(m)
    PROVE  /\ beat[m] \in Heartbeats /\ BeatFits(beat[m]) /\ beat[m].pc = "read"
           /\ beat[m].row \in Rows /\ Renamed(beat[m].row, Hostname[m]) \in Rows
           /\ Renamed(beat[m].row, Hostname[m]).owner = devices[beat[m].dev].owner
           /\ Renamed(beat[m].row, Hostname[m]).key = beat[m].row.key
           /\ \A e \in Ids : devices'[e] = IF e = beat[m].dev
                                           THEN Renamed(beat[m].row, Hostname[m])
                                           ELSE devices[e]
           /\ Kept
<1>1. /\ beat[m] \in Heartbeats /\ beat[m].pc = "read" /\ BeatFits(beat[m])
  BY IdleFields DEF IInv, TypeOK, BeatsFit, SaveHeartbeat
<1>2. beat[m].row \in Rows /\ Hostname[m] \in Names
  BY <1>1, RegistryAssumption DEF BeatFits
<1>3. /\ Renamed(beat[m].row, Hostname[m]) \in Rows
      /\ Renamed(beat[m].row, Hostname[m]).owner = devices[beat[m].dev].owner
      /\ Renamed(beat[m].row, Hostname[m]).key = beat[m].row.key
  BY <1>1, <1>2, RowFields DEF BeatFits
<1>4. \A e \in Ids : devices'[e] = IF e = beat[m].dev
                                   THEN Renamed(beat[m].row, Hostname[m])
                                   ELSE devices[e]
  BY DEF IInv, TypeOK, SaveHeartbeat
<1>5. Kept
  BY <1>3, <1>4 DEF Kept, SaveHeartbeat, history
<1> QED
  BY <1>1, <1>2, <1>3, <1>4, <1>5

LEMMA SaveHeartbeatStep ==
    ASSUME IInv, NEW m \in Machines, SaveHeartbeat(m)
    PROVE  IInv'
<1> DEFINE row == Renamed(beat[m].row, Hostname[m])
<1>1. /\ beat[m] \in Heartbeats /\ BeatFits(beat[m]) /\ beat[m].pc = "read"
      /\ row \in Rows /\ row.owner = devices[beat[m].dev].owner
      /\ row.key = beat[m].row.key
      /\ \A e \in Ids : devices'[e] = IF e = beat[m].dev THEN row ELSE devices[e]
      /\ Kept
  BY SaveHeartbeatFacts
<1>2. /\ UNCHANGED <<tokens, reg, config, process, keys, issued, overlaps>>
      /\ devices' = [devices EXCEPT ![beat[m].dev] = row]
      /\ beat' = [beat EXCEPT ![m] = Idle]
  BY DEF SaveHeartbeat, nodes, history
<1> HIDE DEF row
<1>3. TypeOK'
  BY <1>1, <1>2 DEF IInv, TypeOK
<1>4. \A e \in Ids : devices'[e].owner = devices[e].owner
  BY <1>1
<1>5. RegistrationsFit' /\ NewKeysDiffer'
  BY <1>2, <1>4 DEF IInv, RegistrationsFit, FoundFits, SavedFits, NewKeysDiffer
<1>6. RowsFit'
  BY <1>1, <1>2 DEF IInv, RowsFit, RowFits, BeatFits
<1>7. BeatsFit'
  <2>1. \A n \in Machines : beat[n].pc # "idle" => beat[n] \in Heartbeats
    BY IdleFields DEF IInv, TypeOK
  <2>2. \A n \in Machines : beat'[n] = IF n = m THEN Idle ELSE beat[n]
    BY <1>2 DEF IInv, TypeOK
  <2> QED
    BY <1>1, <2>1, <2>2, KeptIsEnough, IdleFields DEF IInv, BeatsFit, BeatFits
<1>8. NodesFit'
  BY <1>1, <1>2, KeptIsEnough
<1> QED
  BY <1>3, <1>5, <1>6, <1>7, <1>8 DEF IInv

LEMMA OtherRegistrationSteps ==
    ASSUME IInv, NEW r \in Requests,
           \/ \E m \in Machines, t \in Tokens : Register(r, m, t)
           \/ ReadToken(r) \/ TwoDevices(r) \/ SaveToken(r) \/ RegistrationFails(r)
    PROVE  IInv'
<1>1. reg[r].pc # "idle" => reg[r] \in Registrations
  BY IdleFields DEF IInv, TypeOK
<1>2. ASSUME NEW m \in Machines, NEW t \in Tokens, Register(r, m, t)
      PROVE  IInv'
  BY <1>2, SentFields, RegistrationMoves DEF Register, nodes, history, IInv, TypeOK
<1>3. CASE ReadToken(r)
  <2>1. CASE tokens[reg[r].token] = "open"
    BY <1>1, <1>3, <2>1, AtFields, RegistrationMoves
      DEF ReadToken, nodes, history, IInv, TypeOK
  <2>2. CASE tokens[reg[r].token] # "open"
    BY <1>3, <2>2, IdleFields, RegistrationMoves
      DEF ReadToken, nodes, history, IInv, TypeOK
  <2> QED
    BY <2>1, <2>2
<1>4. CASE TwoDevices(r) \/ RegistrationFails(r)
  BY <1>4, IdleFields, RegistrationMoves
    DEF TwoDevices, RegistrationFails, nodes, history, IInv, TypeOK
<1>5. CASE SaveToken(r)
  <2>1. reg[r] \in Registrations /\ SavedFits(reg[r])
    BY <1>1, <1>5 DEF SaveToken, IInv, RegistrationsFit
  <2>2. /\ At(reg[r], "answer") \in Registrations /\ At(reg[r], "answer").pc = "answer"
        /\ SavedFits(At(reg[r], "answer"))
    BY <2>1, AtFields DEF SavedFits
  <2>3. tokens' \in [Tokens -> {"none", "open", "expired", "used"}]
    BY <1>5 DEF SaveToken, IInv, TypeOK
  <2> QED
    BY <1>5, <2>2, <2>3, RegistrationMoves DEF SaveToken, nodes, history
<1> QED
  BY <1>2, <1>3, <1>4, <1>5

LEMMA AnswerStep ==
    ASSUME IInv, NEW r \in Requests, Answer(r)
    PROVE  IInv'
<1>1. reg[r] \in Registrations /\ SavedFits(reg[r])
  BY IdleFields DEF Answer, IInv, TypeOK, RegistrationsFit
<1>2. /\ reg[r].machine \in Machines /\ reg[r].dev \in Ids /\ reg[r].key \in Keys
      /\ OwnerOf[reg[r].token] \in Owners
  BY <1>1, RegistrationFields, RegistryAssumption DEF SavedFits
<1>3. Granted(reg[r]) \in Configs /\ Theirs(Granted(reg[r]))
  BY <1>1, <1>2, ConfigFields DEF Granted, Theirs, SavedFits
<1>4. /\ UNCHANGED <<tokens, devices, beat, process, keys, issued, overlaps>>
      /\ reg' = [reg EXCEPT ![r] = Idle]
      /\ config' = [config EXCEPT ![reg[r].machine] = Granted(reg[r])] \/ config' = config
  BY DEF Answer, history
<1>5. config' \in [Machines -> Configs \cup {NoConfig}]
  BY <1>3, <1>4 DEF IInv, TypeOK
<1>6. TypeOK'
  BY <1>4, <1>5 DEF IInv, TypeOK
<1>7. \A p \in Requests : reg'[p] = IF p = r THEN Idle ELSE reg[p]
  BY <1>4 DEF IInv, TypeOK
<1>8. RegistrationsFit' /\ NewKeysDiffer'
  BY <1>4, <1>7, IdleFields DEF IInv, RegistrationsFit, FoundFits, SavedFits, NewKeysDiffer
<1>9. RowsFit' /\ BeatsFit'
  BY <1>4 DEF IInv, RowsFit, RowFits, BeatsFit, BeatFits
<1>10. NodesFit'
  <2>1. \A m \in Machines : Theirs(config'[m]) /\ Theirs(process'[m])
    BY <1>2, <1>3, <1>4 DEF IInv, TypeOK, NodesFit
  <2>2. \A c : Theirs(c) => Theirs(c)'
    BY <1>4 DEF Theirs
  <2> QED
    BY <2>1, <2>2, <1>4 DEF NodesFit, Theirs
<1> QED
  BY <1>6, <1>8, <1>9, <1>10 DEF IInv

LEMMA OtherNodeSteps ==
    ASSUME IInv, NEW m \in Machines,
           StartNode(m) \/ Heartbeat(m) \/ ReadDevice(m) \/ HeartbeatFails(m)
    PROVE  IInv'
<1>1. UNCHANGED <<tokens, devices, reg, config, keys, issued, overlaps>>
  BY DEF StartNode, Heartbeat, ReadDevice, HeartbeatFails, nodes, history
<1>2. config' \in [Machines -> Configs \cup {NoConfig}]
  BY <1>1 DEF IInv, TypeOK
<1>3. CASE StartNode(m)
  BY <1>1, <1>2, <1>3, NodeMoves
    DEF StartNode, IInv, TypeOK, BeatsFit, BeatFits, NodesFit, Theirs
<1>4. CASE Heartbeat(m)
  <2>1. process[m] \in Configs /\ Theirs(process[m])
    BY <1>4 DEF Heartbeat, IInv, TypeOK, NodesFit
  <2> DEFINE b == SentBeat(process[m])
  <2>2. b \in Heartbeats /\ b.pc = "sent" /\ BeatFits(b)
    BY <2>1, SentBeatFields, ConfigFields DEF BeatFits, Theirs
  <2>3. beat' = [beat EXCEPT ![m] = b] /\ UNCHANGED process
    BY <1>4 DEF Heartbeat, nodes
  <2> HIDE DEF b
  <2>4. beat' \in [Machines -> Heartbeats \cup {Idle}] /\ BeatsFit'
    BY <1>1, <2>2, <2>3 DEF IInv, TypeOK, BeatsFit, BeatFits
  <2>5. NodesFit' /\ process' \in [Machines -> Configs \cup {NoConfig}]
    BY <1>1, <2>3 DEF IInv, TypeOK, NodesFit, Theirs
  <2> QED
    BY <1>1, <1>2, <2>4, <2>5, NodeMoves
<1>5. CASE ReadDevice(m)
  <2>1. process' \in [Machines -> Configs \cup {NoConfig}] /\ NodesFit'
    BY <1>1, <1>5 DEF ReadDevice, IInv, TypeOK, NodesFit, Theirs
  <2>2. beat[m] \in Heartbeats /\ BeatFits(beat[m])
    BY <1>5, IdleFields DEF ReadDevice, IInv, TypeOK, BeatsFit
  <2>3. beat[m].dev \in Ids /\ devices[beat[m].dev] \in Rows \cup {NoRow}
    BY <2>2, BeatFields DEF IInv, TypeOK
  <2> DEFINE b == ReadBeat(beat[m], devices[beat[m].dev])
  <2>4. b \in Heartbeats /\ b.pc = "read" /\ b.dev = beat[m].dev
        /\ b.key = beat[m].key /\ b.row = devices[beat[m].dev]
    BY <2>2, <2>3, ReadBeatFields
  <2> HIDE DEF b
  <2>5. ASSUME devices[beat[m].dev].key = beat[m].key PROVE BeatFits(b)
    <3>1. devices[beat[m].dev] \in Rows
      BY <2>2, <2>3, RowOfDevice DEF BeatFits
    <3> QED
      BY <2>2, <2>4, <2>5, <3>1 DEF BeatFits
  <2>6. \/ beat' = [beat EXCEPT ![m] = b] /\ BeatFits(b)
        \/ beat' = [beat EXCEPT ![m] = Idle]
    BY <1>5, <2>5 DEF ReadDevice, b
  <2>7. beat' \in [Machines -> Heartbeats \cup {Idle}] /\ BeatsFit'
    BY <1>1, <2>4, <2>6, IdleFields DEF IInv, TypeOK, BeatsFit, BeatFits
  <2> QED
    BY <1>1, <1>2, <2>1, <2>7, NodeMoves
<1>6. CASE HeartbeatFails(m)
  <2>1. beat' \in [Machines -> Heartbeats \cup {Idle}] /\ BeatsFit'
    BY <1>1, <1>6, IdleFields DEF HeartbeatFails, IInv, TypeOK, BeatsFit, BeatFits
  <2>2. process' \in [Machines -> Configs \cup {NoConfig}] /\ NodesFit'
    BY <1>1, <1>6 DEF HeartbeatFails, nodes, IInv, TypeOK, NodesFit, Theirs
  <2> QED
    BY <1>1, <1>2, <2>1, <2>2, NodeMoves
<1> QED
  BY <1>3, <1>4, <1>5, <1>6

LEMMA Inductive == IInv /\ [Next]_vars => IInv'
<1> SUFFICES ASSUME IInv, [Next]_vars PROVE IInv'
  OBVIOUS
<1>1. ASSUME NEW t \in Tokens, CreateToken(t) \/ Expire(t) PROVE IInv'
  BY <1>1 DEF CreateToken, Expire, nodes, history, IInv, TypeOK, RegistrationsFit, FoundFits,
    SavedFits, NewKeysDiffer, RowsFit, RowFits, BeatsFit, BeatFits, NodesFit, Theirs
<1>2. ASSUME NEW r \in Requests,
             \/ \E m \in Machines, t \in Tokens : Register(r, m, t)
             \/ ReadToken(r) \/ TwoDevices(r) \/ SaveToken(r) \/ Answer(r)
             \/ RegistrationFails(r)
             \/ \E d \in Ids : FindDevice(r, d) \/ SaveDevice(r, d)
      PROVE  IInv'
  BY <1>2, OtherRegistrationSteps, AnswerStep, FindDeviceStep, SaveDeviceStep
<1>3. ASSUME NEW m \in Machines,
             \/ StartNode(m) \/ Heartbeat(m) \/ ReadDevice(m) \/ SaveHeartbeat(m)
             \/ HeartbeatFails(m)
      PROVE  IInv'
  BY <1>3, OtherNodeSteps, SaveHeartbeatStep
<1>4. CASE UNCHANGED vars
  BY <1>4 DEF vars, nodes, history, IInv, TypeOK, RegistrationsFit, FoundFits,
    SavedFits, NewKeysDiffer, RowsFit, RowFits, BeatsFit, BeatFits, NodesFit, Theirs
<1> QED
  BY <1>1, <1>2, <1>3, <1>4 DEF Next
-----------------------------------------------------------------------------
\* What requests hold in memory fits the rows, in every state.
THEOREM RegistryInvariant == Spec => []IInv
<1> QED
  BY Initially, Inductive, PTL DEF Spec

\* The rows, the requests and the files of the nodes are well formed.
THEOREM TypeCorrect == Spec => []TypeOK
<1>1. IInv => TypeOK
  BY DEF IInv
<1> QED
  BY <1>1, RegistryInvariant, PTL

\* A machine acts on devices of the owner it was registered for, however
\* registrations, heartbeats, lost answers and old processes overlap.
THEOREM MachinesKeepOwners == Spec => []OwnersAreKept
<1>1. IInv => OwnersAreKept
  <2> SUFFICES ASSUME IInv, NEW m \in Machines
               PROVE  /\ Theirs(config[m]) /\ Theirs(process[m])
                      /\ beat[m].pc = "read" =>
                            devices[beat[m].dev].owner = beat[m].row.owner
    BY DEF OwnersAreKept
  <2> QED
    BY DEF IInv, NodesFit, BeatsFit, BeatFits
<1> QED
  BY <1>1, RegistryInvariant, PTL
-----------------------------------------------------------------------------
(* What a step does to the keys.                                           *)

\* The steps that write no device.
LEMMA OtherSteps ==
    ASSUME [Next]_vars
    PROVE  \/ UNCHANGED <<devices, issued>>
           \/ \E r \in Requests, d \in Ids : SaveDevice(r, d)
           \/ \E m \in Machines : SaveHeartbeat(m)
<1>1. CASE UNCHANGED vars
  BY <1>1 DEF vars, history
<1>2. CASE Next
  BY <1>2 DEF Next, CreateToken, Expire, Register, ReadToken, FindDevice, TwoDevices, SaveToken,
    Answer, RegistrationFails, StartNode, Heartbeat, ReadDevice, HeartbeatFails, history
<1> QED
  BY <1>1, <1>2

\* A node token that was replaced is accepted again only through a heartbeat
\* that was authenticated before the replacement and saved after it.
THEOREM OldKeysComeByHeartbeats == Spec => OldKeyNeedsOverlap
<1>1. ASSUME IInv, [Next]_vars, NEW d \in Held,
             devices'[d].key \in issued[d], devices'[d].key # devices[d].key
      PROVE  \E m \in Machines : Overtaken(m) /\ beat[m].dev = d
  <2>1. d \in Ids
    BY DEF Held
  <2>2. CASE UNCHANGED <<devices, issued>>
    BY <1>1, <2>2
  <2>3. ASSUME NEW r \in Requests, NEW e \in Ids, SaveDevice(r, e) PROVE FALSE
    <3>1. /\ d = e => devices'[d] = WithKey(reg[r].row, reg[r].key)
          /\ d # e => devices'[d] = devices[d]
          /\ FoundFits(reg[r]) /\ reg[r] \in Registrations
      BY <1>1, <2>1, <2>3, SaveDeviceFacts
    <3>2. WithKey(reg[r].row, reg[r].key).key = reg[r].key /\ reg[r].key \notin issued[d]
      BY <2>1, <3>1, RowFields, RegistrationFields DEF FoundFits
    <3> QED
      BY <1>1, <3>1, <3>2
  <2>4. ASSUME NEW m \in Machines, SaveHeartbeat(m)
        PROVE  Overtaken(m) /\ beat[m].dev = d
    BY <1>1, <2>1, <2>4, SaveHeartbeatFacts DEF Overtaken
  <2> QED
    BY <1>1, <2>2, <2>3, <2>4, OtherSteps
<1>2. IInv /\ [Next]_vars =>
        [\A d \in Held :
            devices'[d].key \in issued[d] /\ devices'[d].key # devices[d].key =>
                \E m \in Machines : Overtaken(m) /\ beat[m].dev = d]_vars
  BY <1>1
<1> QED
  BY <1>2, RegistryInvariant, PTL DEF Spec, OldKeyNeedsOverlap

\* The rows implement DeviceKeys: owners for good, and only keys that a
\* registration on the owner's behalf has issued for the device, new ones that no
\* device has had or, through heartbeats, old ones of its own.
LEMMA PromiseStep ==
    ASSUME IInv, [Next]_vars
    PROVE  [Promise!Next]_(Promise!vars)
<1>1. CASE UNCHANGED <<devices, issued>>
  BY <1>1 DEF Promise!vars
<1>2. ASSUME NEW r \in Requests, NEW d \in Ids, SaveDevice(r, d)
      PROVE  Promise!Next
  <2> DEFINE o == OwnerOf[reg[r].token]
  <2> DEFINE k == reg[r].key
  <2>1. /\ reg[r] \in Registrations /\ FoundFits(reg[r])
        /\ \A e \in Ids : devices'[e] = IF e = d THEN WithKey(reg[r].row, k) ELSE devices[e]
        /\ devices[d].owner \in {Nobody, reg[r].row.owner}
    BY <1>2, SaveDeviceFacts
  <2>2. o \in Owners /\ k \in Keys /\ reg[r].row.owner = o
    BY <2>1, RegistrationFields, RegistryAssumption DEF FoundFits, IInv, TypeOK, Keys
  <2>3. WithKey(reg[r].row, k).owner = o /\ WithKey(reg[r].row, k).key = k
    BY <2>1, <2>2, RowFields DEF FoundFits
  <2>4. issued' = [issued EXCEPT ![d] = @ \cup {k}]
    BY <1>2 DEF SaveDevice
  <2>5. [e \in Ids |-> devices'[e].owner]
           = [[e \in Ids |-> devices[e].owner] EXCEPT ![d] = o]
    BY <2>1, <2>3
  <2>6. [e \in Ids |-> devices'[e].key]
           = [[e \in Ids |-> devices[e].key] EXCEPT ![d] = k]
    BY <2>1, <2>3
  <2>7. \A e \in Ids : k \notin issued[e]
    BY <2>1 DEF FoundFits
  <2>8. Promise!Register(d, o, k)
    BY <2>1, <2>2, <2>4, <2>5, <2>6, <2>7 DEF Promise!Register
  <2> HIDE DEF o, k
  <2> QED
    BY <2>2, <2>8 DEF Promise!Next, Promise!Register
<1>3. ASSUME NEW m \in Machines, SaveHeartbeat(m)
      PROVE  Promise!Next
  <2> DEFINE d == beat[m].dev
  <2> DEFINE k == beat[m].row.key
  <2> DEFINE row == Renamed(beat[m].row, Hostname[m])
  <2>1. /\ beat[m] \in Heartbeats /\ BeatFits(beat[m]) /\ beat[m].pc = "read"
        /\ row.owner = devices[d].owner /\ row.key = k
        /\ \A e \in Ids : devices'[e] = IF e = d THEN row ELSE devices[e]
    BY <1>3, SaveHeartbeatFacts
  <2>2. d \in Ids /\ k \in issued[d]
    BY <2>1, BeatFields DEF BeatFits
  <2>3. issued' = issued
    BY <1>3 DEF SaveHeartbeat, history
  <2>4. [e \in Ids |-> devices'[e].owner] = [e \in Ids |-> devices[e].owner]
    BY <2>1
  <2>5. [e \in Ids |-> devices'[e].key]
           = [[e \in Ids |-> devices[e].key] EXCEPT ![d] = k]
    BY <2>1
  <2>6. Promise!Return(d, k)
    BY <2>2, <2>3, <2>4, <2>5 DEF Promise!Return
  <2> HIDE DEF d, k, row
  <2> QED
    BY <2>2, <2>6 DEF Promise!Next, Promise!Return
<1> QED
  BY <1>1, <1>2, <1>3, OtherSteps

THEOREM RowsImplementDeviceKeys == Spec => ImplementsDeviceKeys
<1>1. Init => Promise!Init
  BY RowFields DEF Init, Promise!Init
<1>2. IInv /\ [Next]_vars => [Promise!Next]_(Promise!vars)
  BY PromiseStep
<1> QED
  BY <1>1, <1>2, RegistryInvariant, PTL DEF Spec, ImplementsDeviceKeys, Promise!Spec

\* No node token was ever issued for two devices, so that a node that is let in
\* acts on its own device.
THEOREM KeysAreOneDevices ==
    Spec => [](\A d, e \in Ids : d # e => issued[d] \cap issued[e] = {})
<1> DEFINE Apart == \A d, e \in Ids : d # e => issued[d] \cap issued[e] = {}
<1>1. Init => Apart
  BY DEF Init
<1>2. IInv /\ Apart /\ [Next]_vars => Apart'
  <2> SUFFICES ASSUME IInv, Apart, [Next]_vars PROVE Apart'
    OBVIOUS
  <2>1. ASSUME NEW r \in Requests, NEW f \in Ids, SaveDevice(r, f) PROVE Apart'
    <3>1. \A d \in Ids : reg[r].key \notin issued[d]
      BY <2>1, SaveDeviceFacts DEF FoundFits
    <3>2. \A d \in Ids : issued'[d] = IF d = f THEN issued[d] \cup {reg[r].key}
                                     ELSE issued[d]
      BY <2>1, SaveDeviceFacts
    <3> QED
      <4>1. SUFFICES ASSUME NEW d \in Ids, NEW e \in Ids, d # e
                     PROVE  issued'[d] \cap issued'[e] = {}
        OBVIOUS
      <4>2. issued[d] \cap issued[e] = {}
        BY <4>1
      <4> QED
        BY <3>1, <3>2, <4>1, <4>2
  <2>2. ASSUME NEW m \in Machines, SaveHeartbeat(m) PROVE Apart'
    BY <2>2 DEF SaveHeartbeat, history
  <2> QED
    BY <2>1, <2>2, OtherSteps
<1> QED
  BY <1>1, <1>2, RegistryInvariant, PTL DEF Spec
-----------------------------------------------------------------------------
(* The names, where every node is registered by its host name.             *)

SameNames == \A m \in Machines : NameOf[m] = Hostname[m]

FoundNamed(q) ==
    /\ q.row.name = NameOf[q.machine]
    /\ q.row.key # 0 => devices[q.dev].name = q.row.name
    /\ q.row.key = 0 => Named(Pair(q)) = {} \/ Pair(q) \in overlaps

RegistrationsNamed ==
    \A r \in Requests :
        /\ reg[r].pc = "found" => FoundNamed(reg[r])
        /\ reg[r].pc \in {"saved", "answer"} =>
              devices[reg[r].dev].name = NameOf[reg[r].machine]

NodesNamed ==
    \A m \in Machines :
        /\ config[m] # NoConfig => devices[config[m].dev].name = NameOf[m]
        /\ process[m] # NoConfig => devices[process[m].dev].name = NameOf[m]
        /\ beat[m].pc # "idle" => devices[beat[m].dev].name = NameOf[m]

\* Two that are about to write a new device of one name have looked it up at a
\* time, and so have those who wrote two.
SeekersOverlap ==
    \A q, r \in Requests :
        /\ q # r /\ reg[q].pc = "found" /\ reg[r].pc = "found"
        /\ Pair(reg[q]) = Pair(reg[r])
        => Pair(reg[q]) \in overlaps
TwinsOverlap ==
    \A d, e \in Ids :
        /\ d # e /\ Exists(d) /\ Exists(e)
        /\ devices[d].owner = devices[e].owner /\ devices[d].name = devices[e].name
        => <<devices[d].owner, devices[d].name>> \in overlaps

NInv == RegistrationsNamed /\ NodesNamed /\ SeekersOverlap /\ TwinsOverlap

LEMMA NamesInitially == Init => NInv
BY IdleFields, RowFields
DEF Init, NInv, RegistrationsNamed, NodesNamed, SeekersOverlap, TwinsOverlap, Exists

\* A step that writes no device and finds none.
LEMMA NamesStay ==
    ASSUME IInv, NInv, UNCHANGED <<devices, overlaps>>,
           \A p \in Requests : \/ reg'[p] = reg[p]
                               \/ reg'[p].pc \notin {"found", "saved", "answer"}
                               \/ /\ reg[p].pc = "saved" /\ reg'[p].pc = "answer"
                                  /\ reg'[p].dev = reg[p].dev
                                  /\ reg'[p].machine = reg[p].machine,
           NodesNamed'
    PROVE  NInv'
<1>1. RegistrationsNamed'
  <2> SUFFICES ASSUME NEW p \in Requests
               PROVE  /\ reg'[p].pc = "found" => FoundNamed(reg[p])'
                      /\ reg'[p].pc \in {"saved", "answer"} =>
                            devices'[reg'[p].dev].name = NameOf[reg'[p].machine]
    BY DEF RegistrationsNamed
  <2>1. CASE reg'[p] = reg[p]
    BY <2>1 DEF NInv, RegistrationsNamed, FoundNamed, Named, Pair, IsNamed
  <2>2. CASE reg'[p] # reg[p]
    BY <2>2 DEF NInv, RegistrationsNamed
  <2> QED
    BY <2>1, <2>2
<1>2. SeekersOverlap'
  BY DEF NInv, SeekersOverlap, Pair
<1>3. TwinsOverlap'
  BY DEF NInv, TwinsOverlap, Exists
<1> QED
  BY <1>1, <1>2, <1>3 DEF NInv

LEMMA FindDeviceNames ==
    ASSUME IInv, NInv, NEW r \in Requests, NEW d \in Ids, FindDevice(r, d)
    PROVE  NInv'
<1> DEFINE pair == Pair(reg[r])
<1> DEFINE row == RowFor(pair, d)
<1>1. /\ reg[r] \in Registrations /\ reg[r].machine \in Machines /\ reg[r].pc = "checked"
      /\ OwnerOf[reg[r].token] \in Owners /\ pair[1] = OwnerOf[reg[r].token]
      /\ NameOf[reg[r].machine] \in Names /\ pair[2] = NameOf[reg[r].machine]
  <2>1. reg[r] \in Registrations
    BY IdleFields DEF IInv, TypeOK, FindDevice
  <2> QED
    BY <2>1, RegistrationFields, RegistryAssumption DEF Pair, FindDevice
<1>2. keys + 1 \in Keys
  BY RegistryAssumption DEF IInv, TypeOK, FindDevice, Keys
<1>3. /\ row \in Rows /\ row.name = NameOf[reg[r].machine]
      /\ row.key # 0 => devices[d].name = row.name
      /\ row.key = 0 => Named(pair) = {}
  <2>1. CASE Named(pair) = {}
    BY <1>1, <2>1, RowFields DEF RowFor
  <2>2. CASE Named(pair) # {}
    <3>1. row = devices[d]
      BY <2>2 DEF RowFor
    <3>2. d \in Named(pair)
      BY <2>2 DEF FindDevice
    <3>3. devices[d].name = NameOf[reg[r].machine] /\ devices[d].owner \in Owners
      BY <1>1, <3>2 DEF Named, IsNamed
    <3>4. devices[d] \in Rows /\ devices[d].key # 0
      BY <3>3, RowOfDevice DEF IInv, RowsFit, RowFits, TypeOK, Keys
    <3> QED
      BY <3>1, <3>3, <3>4
  <2> QED
    BY <2>1, <2>2
<1> DEFINE q == Found(reg[r], d, row, keys + 1)
<1>4. /\ q.pc = "found" /\ q.dev = d /\ q.row = row
      /\ q.token = reg[r].token /\ q.machine = reg[r].machine
  BY <1>1, <1>2, <1>3, FoundFields
<1>5. /\ \A p \in Requests : reg'[p] = IF p = r THEN q ELSE reg[p]
      /\ UNCHANGED <<devices, beat, config, process>>
      /\ overlaps \subseteq overlaps'
      /\ Looking(r, pair) => pair \in overlaps'
  BY DEF FindDevice, IInv, TypeOK, nodes
<1>6. Pair(q) = pair
  BY <1>4 DEF Pair
<1> HIDE DEF q, row
<1>7. RegistrationsNamed'
  <2> SUFFICES ASSUME NEW p \in Requests
               PROVE  /\ reg'[p].pc = "found" => FoundNamed(reg[p])'
                      /\ reg'[p].pc \in {"saved", "answer"} =>
                            devices'[reg'[p].dev].name = NameOf[reg'[p].machine]
    BY DEF RegistrationsNamed
  <2>1. CASE p = r
    BY <1>3, <1>4, <1>5, <1>6, <2>1 DEF FoundNamed, Named, IsNamed, Pair
  <2>2. CASE p # r
    BY <1>5, <2>2 DEF NInv, RegistrationsNamed, FoundNamed, Named, IsNamed, Pair
  <2> QED
    BY <2>1, <2>2
<1>8. SeekersOverlap'
  <2>1. \A p \in Requests \ {r} :
           reg[p].pc = "found" /\ Pair(reg[p]) = pair => pair \in overlaps'
    BY <1>5 DEF Looking
  <2>2. \A p \in Requests : Pair(reg[p])' = IF p = r THEN pair ELSE Pair(reg[p])
    BY <1>4, <1>5 DEF Pair
  <2> QED
    BY <1>5, <2>1, <2>2 DEF NInv, SeekersOverlap
<1>9. TwinsOverlap' /\ NodesNamed'
  BY <1>5 DEF NInv, TwinsOverlap, NodesNamed, Exists
<1> QED
  BY <1>7, <1>8, <1>9 DEF NInv

\* The devices that nodes and answers refer to exist.
LEMMA ReferredExist ==
    ASSUME IInv
    PROVE  /\ \A m \in Machines :
                /\ config[m] # NoConfig => config[m].dev \in Ids /\ Exists(config[m].dev)
                /\ process[m] # NoConfig => process[m].dev \in Ids /\ Exists(process[m].dev)
                /\ beat[m].pc # "idle" => beat[m].dev \in Ids /\ Exists(beat[m].dev)
           /\ \A r \in Requests : reg[r].pc \in {"saved", "answer"} =>
                reg[r].dev \in Ids /\ Exists(reg[r].dev)
<1>1. \A c \in Configs : Theirs(c) => c.dev \in Ids /\ Exists(c.dev)
  BY ConfigFields, RowOfDevice DEF Theirs
<1>2. \A m \in Machines : /\ config[m] # NoConfig => config[m].dev \in Ids /\ Exists(config[m].dev)
                          /\ process[m] # NoConfig => process[m].dev \in Ids /\ Exists(process[m].dev)
  BY <1>1 DEF IInv, NodesFit, TypeOK
<1>3. ASSUME NEW m \in Machines, beat[m].pc # "idle"
      PROVE  beat[m].dev \in Ids /\ Exists(beat[m].dev)
  <2>1. beat[m] \in Heartbeats /\ BeatFits(beat[m])
    BY <1>3, IdleFields DEF IInv, TypeOK, BeatsFit
  <2> QED
    BY <2>1, BeatFields, RowOfDevice DEF BeatFits
<1>4. ASSUME NEW r \in Requests, reg[r].pc \in {"saved", "answer"}
      PROVE  reg[r].dev \in Ids /\ Exists(reg[r].dev)
  BY <1>4, RowOfDevice DEF IInv, RegistrationsFit, SavedFits
<1> QED
  BY <1>2, <1>3, <1>4

LEMMA SaveDeviceNames ==
    ASSUME IInv, NInv, NEW r \in Requests, NEW d \in Ids, SaveDevice(r, d)
    PROVE  NInv'
<1> DEFINE pair == Pair(reg[r])
<1> DEFINE row == WithKey(reg[r].row, reg[r].key)
<1>1. /\ reg[r] \in Registrations /\ reg[r].pc = "found" /\ FoundFits(reg[r])
      /\ FoundNamed(reg[r])
      /\ \A e \in Ids : devices'[e] = IF e = d THEN row ELSE devices[e]
      /\ \A p \in Requests : reg'[p] = IF p = r THEN SavedAs(reg[r], d) ELSE reg[p]
      /\ UNCHANGED <<beat, config, process, overlaps>>
  BY SaveDeviceFacts DEF NInv, RegistrationsNamed, SaveDevice, nodes
<1>2. /\ row \in Rows /\ row.owner = pair[1] /\ row.name = pair[2] /\ row.owner \in Owners
      /\ reg[r].row.owner = pair[1] /\ reg[r].row.name = pair[2]
      /\ pair[1] = OwnerOf[reg[r].token] /\ pair[2] = NameOf[reg[r].machine]
  <2>1. reg[r].row \in Rows /\ reg[r].key \in Keys \cup {0}
    BY <1>1, RegistrationFields DEF FoundFits
  <2> QED
    BY <1>1, <2>1, RowFields DEF FoundFits, FoundNamed, Pair
<1>3. /\ SavedAs(reg[r], d).pc = "saved" /\ SavedAs(reg[r], d).dev = d
      /\ SavedAs(reg[r], d).machine = reg[r].machine
  BY <1>1, SavedFields
<1>4. /\ reg[r].row.key = 0 => ~Exists(d)
      /\ reg[r].row.key # 0 => devices[d].owner = pair[1] /\ devices[d].name = pair[2]
  BY <1>1, <1>2 DEF SaveDevice, FoundFits, FoundNamed
<1> HIDE DEF pair, row
<1>5. \A e \in Ids : Exists(e) => Exists(e)' /\ devices'[e].name = devices[e].name
                                 /\ devices'[e].owner = devices[e].owner
  BY <1>1, <1>2, <1>4 DEF Exists
<1>6. RegistrationsNamed'
  <2> SUFFICES ASSUME NEW p \in Requests
               PROVE  /\ reg'[p].pc = "found" => FoundNamed(reg[p])'
                      /\ reg'[p].pc \in {"saved", "answer"} =>
                            devices'[reg'[p].dev].name = NameOf[reg'[p].machine]
    BY DEF RegistrationsNamed
  <2>1. CASE p = r
    BY <1>1, <1>2, <1>3, <2>1
  <2>2. CASE p # r
    <3>1. reg'[p] = reg[p]
      BY <1>1, <2>2
    <3>2. reg[p].pc \in {"saved", "answer"} =>
             devices'[reg[p].dev].name = NameOf[reg[p].machine]
      BY <1>5, ReferredExist DEF NInv, RegistrationsNamed
    <3>3. ASSUME reg[p].pc = "found" PROVE FoundNamed(reg[p])'
      <4>1. FoundFits(reg[p]) /\ FoundNamed(reg[p])
        BY <3>3 DEF IInv, RegistrationsFit, NInv, RegistrationsNamed
      <4>2. reg[p].row.key # 0 => devices'[reg[p].dev].name = reg[p].row.name
        <5>1. reg[p].dev \in Ids /\ reg[p].row.owner \in Owners
          BY <4>1, RowFields DEF FoundFits
        <5> QED
          BY <1>5, <4>1, <5>1, RowOfDevice DEF FoundFits, FoundNamed
      <4>3. Named(Pair(reg[p]))' = {} \/ Pair(reg[p]) \in overlaps
            \/ reg[p].row.key # 0
        <5>1. CASE Pair(reg[p]) = pair
          BY <1>1, <2>2, <3>3, <5>1 DEF NInv, SeekersOverlap, pair
        <5>2. CASE Pair(reg[p]) # pair
          <6>1. d \notin Named(Pair(reg[p]))'
            BY <1>1, <1>2, <3>1, <5>2 DEF Named, IsNamed, Pair, pair
          <6>2. Named(Pair(reg[p]))' \subseteq Named(Pair(reg[p]))
            BY <1>1, <3>1, <6>1 DEF Named, IsNamed, Pair
          <6> QED
            BY <4>1, <6>2 DEF FoundNamed
        <5> QED
          BY <5>1, <5>2
      <4> QED
        BY <1>1, <3>1, <4>1, <4>2, <4>3 DEF FoundNamed, Pair
    <3> QED
      BY <3>1, <3>2, <3>3
  <2> QED
    BY <2>1, <2>2
<1>7. SeekersOverlap'
  BY <1>1, <1>3 DEF NInv, SeekersOverlap, Pair
<1>8. TwinsOverlap'
  <2>1. ASSUME NEW e \in Ids, e # d, Exists(e),
               devices[e].owner = pair[1], devices[e].name = pair[2]
        PROVE  <<pair[1], pair[2]>> \in overlaps
    <3>1. pair = <<pair[1], pair[2]>>
      BY DEF pair, Pair
    <3>2. CASE reg[r].row.key = 0
      <4>1. e \in Named(pair)
        BY <2>1 DEF Named, IsNamed
      <4> QED
        BY <1>1, <3>1, <3>2, <4>1 DEF FoundNamed, pair
    <3>3. CASE reg[r].row.key # 0
      BY <1>2, <1>4, <2>1, <3>3, RegistryAssumption DEF NInv, TwinsOverlap, Exists
    <3> QED
      BY <3>2, <3>3
  <2>2. \A e \in Ids : e # d => devices'[e] = devices[e]
    BY <1>1
  <2>3. devices'[d] = row
    BY <1>1
  <2>4. ASSUME NEW e \in Ids, NEW f \in Ids, e # f, Exists(e)', Exists(f)',
               devices'[e].owner = devices'[f].owner, devices'[e].name = devices'[f].name
        PROVE  <<devices'[e].owner, devices'[e].name>> \in overlaps
    <3>1. CASE e = d
      BY <1>2, <2>1, <2>2, <2>3, <2>4, <3>1 DEF Exists
    <3>2. CASE f = d
      BY <1>2, <2>1, <2>2, <2>3, <2>4, <3>2 DEF Exists
    <3>3. CASE e # d /\ f # d
      BY <2>2, <2>4, <3>3 DEF NInv, TwinsOverlap, Exists
    <3> QED
      BY <3>1, <3>2, <3>3
  <2> QED
    BY <1>1, <2>4 DEF TwinsOverlap
<1>9. NodesNamed'
  BY <1>1, <1>5, ReferredExist DEF NInv, NodesNamed
<1> QED
  BY <1>6, <1>7, <1>8, <1>9 DEF NInv

\* A heartbeat renames the device to the name it has.
LEMMA SaveHeartbeatNames ==
    ASSUME IInv, NInv, SameNames, NEW m \in Machines, SaveHeartbeat(m)
    PROVE  NInv'
<1> DEFINE row == Renamed(beat[m].row, Hostname[m])
<1>1. /\ beat[m] \in Heartbeats /\ beat[m].pc = "read" /\ row \in Rows
      /\ row.owner = devices[beat[m].dev].owner
      /\ \A e \in Ids : devices'[e] = IF e = beat[m].dev THEN row ELSE devices[e]
  BY SaveHeartbeatFacts
<1>2. row.name = NameOf[m]
  <2>1. beat[m].row \in Rows /\ Hostname[m] \in Names
    BY SaveHeartbeatFacts, RegistryAssumption
  <2> QED
    BY <2>1, RowFields DEF SameNames
<1>3. devices[beat[m].dev].name = NameOf[m]
  BY <1>1 DEF NInv, NodesNamed
<1>4. \A e \in Ids : /\ devices'[e].owner = devices[e].owner
                     /\ Exists(e) => devices'[e].name = devices[e].name
                     /\ Exists(e)' <=> Exists(e)
  BY <1>1, <1>2, <1>3 DEF Exists
<1>5. /\ UNCHANGED <<reg, config, process, overlaps>>
      /\ beat' = [beat EXCEPT ![m] = Idle]
  BY DEF SaveHeartbeat, nodes, history
<1> HIDE DEF row
<1>6. ASSUME NEW r \in Requests, reg[r].pc = "found" PROVE FoundNamed(reg[r])'
  <2>1. FoundFits(reg[r]) /\ FoundNamed(reg[r]) /\ reg[r].row.owner \in Owners
    BY <1>6, RowFields DEF IInv, RegistrationsFit, FoundFits, NInv, RegistrationsNamed
  <2>2. reg[r].row.key # 0 => devices'[reg[r].dev].name = devices[reg[r].dev].name
    BY <1>4, <2>1, RowOfDevice DEF FoundFits
  <2>3. Named(Pair(reg[r]))' = Named(Pair(reg[r]))
    <3>1. \A e \in Ids : Exists(e) => (IsNamed(devices[e], Pair(reg[r]))' <=>
                                       IsNamed(devices[e], Pair(reg[r])))
      BY <1>4, <1>5 DEF IsNamed, Pair
    <3>2. Pair(reg[r])[1] \in Owners
      BY <2>1 DEF FoundFits, Pair
    <3>3. \A e \in Ids : ~Exists(e) => ~IsNamed(devices[e], Pair(reg[r]))
                                       /\ ~IsNamed(devices[e], Pair(reg[r]))'
      BY <1>4, <1>5, <3>2, RegistryAssumption DEF IsNamed, Pair, Exists
    <3> QED
      BY <3>1, <3>3 DEF Named
  <2> QED
    BY <1>5, <2>1, <2>2, <2>3 DEF FoundNamed, Pair
<1>7. RegistrationsNamed'
  BY <1>4, <1>5, <1>6, ReferredExist DEF NInv, RegistrationsNamed
<1>8. SeekersOverlap'
  BY <1>5 DEF NInv, SeekersOverlap, Pair
<1>9. TwinsOverlap'
  BY <1>4, <1>5 DEF NInv, TwinsOverlap
<1>10. NodesNamed'
  <2>1. \A n \in Machines : beat'[n] = IF n = m THEN Idle ELSE beat[n]
    BY <1>5 DEF IInv, TypeOK
  <2> QED
    BY <1>4, <1>5, <2>1, IdleFields, ReferredExist DEF NInv, NodesNamed
<1> QED
  BY <1>7, <1>8, <1>9, <1>10 DEF NInv

LEMMA OtherRegistrationNames ==
    ASSUME IInv, NInv, NEW r \in Requests,
           \/ \E m \in Machines, t \in Tokens : Register(r, m, t)
           \/ ReadToken(r) \/ TwoDevices(r) \/ SaveToken(r) \/ RegistrationFails(r)
           \/ Answer(r)
    PROVE  NInv'
<1>1. reg[r].pc # "idle" => reg[r] \in Registrations
  BY IdleFields DEF IInv, TypeOK
<1>2. UNCHANGED <<devices, beat, process, overlaps>>
  BY DEF Register, ReadToken, TwoDevices, SaveToken, RegistrationFails, Answer, nodes, history
<1>3. ASSUME ~Answer(r) PROVE NodesNamed'
  BY <1>2, <1>3 DEF Register, ReadToken, TwoDevices, SaveToken, RegistrationFails, nodes,
    NInv, NodesNamed
<1>4. ASSUME Answer(r) PROVE NodesNamed'
  <2>1. /\ reg[r] \in Registrations /\ reg[r].machine \in Machines
        /\ devices[reg[r].dev].name = NameOf[reg[r].machine]
    BY <1>1, <1>4, RegistrationFields DEF Answer, NInv, RegistrationsNamed
  <2>2. Granted(reg[r]).dev = reg[r].dev
    BY DEF Granted
  <2>3. \/ config' = [config EXCEPT ![reg[r].machine] = Granted(reg[r])]
        \/ config' = config
    BY <1>4 DEF Answer
  <2> QED
    BY <1>2, <2>1, <2>2, <2>3 DEF NInv, NodesNamed, IInv, TypeOK
<1>5. ASSUME NEW m \in Machines, NEW t \in Tokens, Register(r, m, t) PROVE NInv'
  <2>1. \A p \in Requests : reg'[p] = IF p = r THEN Sent(m, t) ELSE reg[p]
    BY <1>5 DEF Register, IInv, TypeOK
  <2>2. ~Answer(r)
    BY <1>5 DEF Register, Answer
  <2> QED
    BY <1>2, <1>3, <2>1, <2>2, SentFields, NamesStay
<1>6. CASE ReadToken(r)
  <2>1. \A p \in Requests : \/ reg'[p] = reg[p]
                            \/ reg'[p] = At(reg[r], "checked") \/ reg'[p] = Idle
    BY <1>6 DEF ReadToken, IInv, TypeOK
  <2>2. At(reg[r], "checked").pc = "checked"
    BY <1>1, <1>6, AtFields DEF ReadToken
  <2>3. ~Answer(r)
    BY <1>6 DEF ReadToken, Answer
  <2> QED
    BY <1>2, <1>3, <2>1, <2>2, <2>3, IdleFields, NamesStay
<1>7. CASE TwoDevices(r) \/ RegistrationFails(r) \/ Answer(r)
  <2>1. \A p \in Requests : reg'[p] = reg[p] \/ reg'[p] = Idle
    BY <1>7 DEF TwoDevices, RegistrationFails, Answer, IInv, TypeOK
  <2> QED
    BY <1>2, <1>3, <1>4, <2>1, IdleFields, NamesStay
<1>8. CASE SaveToken(r)
  <2>1. /\ reg[r] \in Registrations /\ reg[r].pc = "saved"
        /\ \A p \in Requests : reg'[p] = IF p = r THEN At(reg[r], "answer") ELSE reg[p]
    BY <1>1, <1>8 DEF SaveToken, IInv, TypeOK
  <2>2. ~Answer(r)
    BY <1>8 DEF SaveToken, Answer
  <2> QED
    BY <1>2, <1>3, <2>1, <2>2, AtFields, NamesStay
<1> QED
  BY <1>5, <1>6, <1>7, <1>8

LEMMA OtherNodeNames ==
    ASSUME IInv, NInv, NEW m \in Machines,
           StartNode(m) \/ Heartbeat(m) \/ ReadDevice(m) \/ HeartbeatFails(m)
    PROVE  NInv'
<1>1. UNCHANGED <<devices, reg, config, overlaps>>
  BY DEF StartNode, Heartbeat, ReadDevice, HeartbeatFails, nodes, history
<1>2. NodesNamed'
  <2>1. CASE StartNode(m)
    BY <1>1, <2>1 DEF StartNode, NInv, NodesNamed, IInv, TypeOK
  <2>2. CASE Heartbeat(m)
    <3>1. process[m] \in Configs /\ SentBeat(process[m]).dev = process[m].dev
      BY <2>2, SentBeatFields DEF Heartbeat, IInv, TypeOK
    <3> QED
      BY <1>1, <2>2, <3>1 DEF Heartbeat, nodes, NInv, NodesNamed, IInv, TypeOK
  <2>3. CASE ReadDevice(m)
    <3>1. beat[m] \in Heartbeats /\ devices[beat[m].dev] \in Rows \cup {NoRow}
      BY <2>3, IdleFields, BeatFields DEF ReadDevice, IInv, TypeOK
    <3>2. ReadBeat(beat[m], devices[beat[m].dev]).dev = beat[m].dev
      BY <3>1, ReadBeatFields
    <3>3. devices[beat[m].dev].name = NameOf[m]
      BY <3>1, BeatFields DEF NInv, NodesNamed
    <3>4. \A n \in Machines : \/ beat'[n] = beat[n] \/ beat'[n] = Idle
                              \/ n = m /\ beat'[n] = ReadBeat(beat[m], devices[beat[m].dev])
      BY <2>3 DEF ReadDevice, IInv, TypeOK
    <3>5. \A n \in Machines : process'[n] = process[n] \/ process'[n] = NoConfig
      BY <2>3 DEF ReadDevice, IInv, TypeOK
    <3> QED
      BY <1>1, <3>2, <3>3, <3>4, <3>5, IdleFields DEF NInv, NodesNamed
  <2>4. CASE HeartbeatFails(m)
    BY <1>1, <2>4, IdleFields DEF HeartbeatFails, nodes, NInv, NodesNamed, IInv, TypeOK
  <2> QED
    BY <2>1, <2>2, <2>3, <2>4
<1> QED
  BY <1>1, <1>2, NamesStay

LEMMA NamesInductive == SameNames /\ IInv /\ NInv /\ [Next]_vars => NInv'
<1> SUFFICES ASSUME SameNames, IInv, NInv, [Next]_vars PROVE NInv'
  OBVIOUS
<1>1. ASSUME NEW t \in Tokens, CreateToken(t) \/ Expire(t) PROVE NInv'
  <2>1. UNCHANGED <<devices, reg, beat, config, process, overlaps>>
    BY <1>1 DEF CreateToken, Expire, nodes, history
  <2>2. NodesNamed'
    BY <2>1 DEF NInv, NodesNamed
  <2> QED
    BY <2>1, <2>2, NamesStay
<1>2. CASE UNCHANGED vars
  <2>1. UNCHANGED <<devices, reg, beat, config, process, overlaps>>
    BY <1>2 DEF vars, nodes, history
  <2>2. NodesNamed'
    BY <2>1 DEF NInv, NodesNamed
  <2> QED
    BY <2>1, <2>2, NamesStay
<1> QED
  BY <1>1, <1>2, OtherRegistrationNames, FindDeviceNames, SaveDeviceNames,
     OtherNodeNames, SaveHeartbeatNames DEF Next

\* An owner has two devices of one name only if two registrations looked the name
\* up before either of them wrote it, or where host names are not the names that
\* nodes are registered by.
THEOREM DuplicatesComeByOverlap == Spec => []DuplicateNeedsOverlap
<1>1. CASE SameNames
  <2>1. NInv => DuplicateNeedsOverlap
    BY DEF NInv, TwinsOverlap, DuplicateNeedsOverlap, Held
  <2>2. IInv /\ NInv /\ [Next]_vars => NInv'
    BY <1>1, NamesInductive
  <2> QED
    BY <2>1, <2>2, NamesInitially, RegistryInvariant, PTL DEF Spec
<1>2. CASE ~SameNames
  <2>1. DuplicateNeedsOverlap
    BY <1>2 DEF SameNames, DuplicateNeedsOverlap
  <2> QED
    BY <2>1, PTL
<1> QED
  BY <1>1, <1>2
=============================================================================
