--------------------------- MODULE DeviceRegistry ---------------------------
(***************************************************************************)
(* The device registry of the backend and the nodes that use it: tokens    *)
(* that a user creates to register a node, registrations, which are no     *)
(* transactions, the node token that a registration returns, the node's    *)
(* configuration, and heartbeats, which write the whole row of the device  *)
(* they read.  Requests overlap in any way, answers are lost, and a node   *)
(* goes on with the configuration that it has loaded until it is started   *)
(* again.  A node token (and its hash) is a number, a key.                 *)
(***************************************************************************)
EXTENDS Naturals

CONSTANTS
    Owners, Nobody,
    Tokens, OwnerOf,             \* registration tokens, and who creates them
    Machines, Hostname, NameOf,  \* of each, and the name it is registered by
    Names,
    Requests,                    \* registrations under way at a time
    Ids,                         \* of devices
    MaxKeys                      \* bound on the registrations

ASSUME RegistryAssumption ==
    /\ Nobody \notin Owners
    /\ OwnerOf \in [Tokens -> Owners]
    /\ Hostname \in [Machines -> Names] /\ NameOf \in [Machines -> Names]
    /\ Ids \subseteq Nat \ {0} /\ MaxKeys \in Nat

VARIABLES
    tokens,    \* rows of device_registration_tokens
    devices,   \* rows of devices
    reg,       \* the registrations that the backend works on
    beat,      \* a heartbeat of each machine that it works on
    config,    \* the configuration file of each machine
    process,   \* what its node has loaded
    keys,      \* how many node tokens were made
    issued,    \* history: the keys saved for a device by registrations
    overlaps   \* history: the names that two registrations looked up at a time

vars == <<tokens, devices, reg, beat, config, process, keys, issued, overlaps>>
nodes == <<config, process>>
history == <<issued, overlaps>>

Keys == 1 .. MaxKeys
Rows == [owner : Owners, name : Names, key : Keys \cup {0}]
NoRow == [owner |-> Nobody, key |-> 0]
NewRow(o, n) == [owner |-> o, name |-> n, key |-> 0]
WithKey(row, k) == [row EXCEPT !.key = k]
Renamed(row, n) == [row EXCEPT !.name = n]
Configs == [dev : Ids, key : Keys, owner : Owners]
NoConfig == [dev |-> 0, key |-> 0, owner |-> Nobody]

Exists(d) == devices[d].owner # Nobody
Held == {d \in Ids : Exists(d)}

\* A registration and a heartbeat, as far as the backend is with them.
Idle == [pc |-> "idle"]
Registrations == [pc : {"sent", "checked", "found", "saved", "answer"},
                  machine : Machines, token : Tokens, dev : Ids \cup {0},
                  row : Rows \cup {NoRow}, key : Keys \cup {0}]
Sent(m, t) == [pc |-> "sent", machine |-> m, token |-> t, dev |-> 0, row |-> NoRow,
               key |-> 0]
At(q, pc) == [q EXCEPT !.pc = pc]
Found(q, d, row, k) == [q EXCEPT !.pc = "found", !.dev = d, !.row = row, !.key = k]
SavedAs(q, d) == [q EXCEPT !.pc = "saved", !.dev = d]

Heartbeats == [pc : {"sent", "read"}, dev : Ids, key : Keys, row : Rows \cup {NoRow}]
SentBeat(c) == [pc |-> "sent", dev |-> c.dev, key |-> c.key, row |-> NoRow]
ReadBeat(b, row) == [b EXCEPT !.pc = "read", !.row = row]

TypeOK ==
    /\ tokens \in [Tokens -> {"none", "open", "expired", "used"}]
    /\ devices \in [Ids -> Rows \cup {NoRow}]
    /\ reg \in [Requests -> Registrations \cup {Idle}]
    /\ beat \in [Machines -> Heartbeats \cup {Idle}]
    /\ config \in [Machines -> Configs \cup {NoConfig}]
    /\ process \in [Machines -> Configs \cup {NoConfig}]
    /\ keys \in 0 .. MaxKeys
    /\ issued \in [Ids -> SUBSET Keys]
    /\ overlaps \subseteq Owners \X Names

Init ==
    /\ tokens = [t \in Tokens |-> "none"]
    /\ devices = [d \in Ids |-> NoRow]
    /\ reg = [r \in Requests |-> Idle]
    /\ beat = [m \in Machines |-> Idle]
    /\ config = [m \in Machines |-> NoConfig]
    /\ process = [m \in Machines |-> NoConfig]
    /\ keys = 0
    /\ issued = [d \in Ids |-> {}]
    /\ overlaps = {}
-----------------------------------------------------------------------------
(* Registration.                                                           *)

\* createRegistrationToken
CreateToken(t) ==
    /\ tokens[t] = "none"
    /\ tokens' = [tokens EXCEPT ![t] = "open"]
    /\ UNCHANGED <<devices, reg, beat, nodes, keys, history>>

\* Thirty minutes later.
Expire(t) ==
    /\ tokens[t] = "open"
    /\ tokens' = [tokens EXCEPT ![t] = "expired"]
    /\ UNCHANGED <<devices, reg, beat, nodes, keys, history>>

\* sysagent-node register, on a machine that may be registered already.  The
\* request of an earlier try may still be worked on.
Register(r, m, t) ==
    /\ reg[r].pc = "idle"
    /\ tokens[t] # "none"
    /\ reg' = [reg EXCEPT ![r] = Sent(m, t)]
    /\ UNCHANGED <<tokens, devices, beat, nodes, keys, history>>

\* registerNode reads the row of the token; what it refuses is over.
ReadToken(r) ==
    /\ reg[r].pc = "sent"
    /\ reg' = [reg EXCEPT ![r] =
                  IF tokens[reg[r].token] = "open" THEN At(reg[r], "checked")
                  ELSE Idle]
    /\ UNCHANGED <<tokens, devices, beat, nodes, keys, history>>

\* findByOwnerIdAndName, which throws if there are two such devices.
Pair(q) == <<OwnerOf[q.token], NameOf[q.machine]>>
IsNamed(row, pair) == row.owner = pair[1] /\ row.name = pair[2]

\* Mutant of Named: names are cleaned as they are saved, not as they are looked up.
NamedUncleaned(pair) == {}

\* Mutant of Named: findByName, whoever owns the device.
NamedByAnyone(pair) == {d \in Held : devices[d].name = pair[2]}

Named(pair) == {d \in Ids : IsNamed(devices[d], pair)}
Looking(r, pair) ==
    \E q \in Requests \ {r} : reg[q].pc = "found" /\ Pair(reg[q]) = pair
RowFor(pair, d) == IF Named(pair) = {} THEN NewRow(pair[1], pair[2]) ELSE devices[d]

FindDevice(r, d) ==
    /\ reg[r].pc = "checked"
    /\ keys < MaxKeys
    /\ LET pair == Pair(reg[r]) IN
         /\ Named(pair) \subseteq {d}
         /\ reg' = [reg EXCEPT ![r] = Found(reg[r], d, RowFor(pair, d), keys + 1)]
         /\ overlaps' = IF Looking(r, pair) THEN overlaps \cup {pair} ELSE overlaps
    /\ keys' = keys + 1
    /\ UNCHANGED <<tokens, devices, beat, nodes, issued>>

TwoDevices(r) ==
    /\ reg[r].pc = "checked"
    /\ \E d, e \in Named(Pair(reg[r])) : d # e
    /\ reg' = [reg EXCEPT ![r] = Idle]
    /\ UNCHANGED <<tokens, devices, beat, nodes, keys, history>>

\* The whole row is written: a new one under an id of its own, an old one over
\* whatever it has become.
SaveDevice(r, d) ==
    /\ reg[r].pc = "found"
    /\ IF reg[r].row.key = 0 THEN ~Exists(d) ELSE d = reg[r].dev
    /\ devices' = [devices EXCEPT ![d] = WithKey(reg[r].row, reg[r].key)]
    /\ issued' = [issued EXCEPT ![d] = @ \cup {reg[r].key}]
    /\ reg' = [reg EXCEPT ![r] = SavedAs(reg[r], d)]
    /\ UNCHANGED <<tokens, beat, nodes, keys, overlaps>>

\* Mutant of SaveToken: the device is written along with the token.
SaveTokenAndDevice(r) ==
    /\ reg[r].pc = "saved"
    /\ tokens' = [tokens EXCEPT ![reg[r].token] = "used"]
    /\ devices' = [devices EXCEPT ![reg[r].dev] = WithKey(reg[r].row, reg[r].key)]
    /\ reg' = [reg EXCEPT ![r] = At(reg[r], "answer")]
    /\ UNCHANGED <<beat, nodes, keys, history>>

\* Only then the token is used up.
SaveToken(r) ==
    /\ reg[r].pc = "saved"
    /\ tokens' = [tokens EXCEPT ![reg[r].token] = "used"]
    /\ reg' = [reg EXCEPT ![r] = At(reg[r], "answer")]
    /\ UNCHANGED <<devices, beat, nodes, keys, history>>

\* save_config, unless the answer is lost or the client has given up.
Granted(q) == [dev |-> q.dev, key |-> q.key, owner |-> OwnerOf[q.token]]
Answer(r) ==
    /\ reg[r].pc = "answer"
    /\ \/ config' = [config EXCEPT ![reg[r].machine] = Granted(reg[r])]
       \/ UNCHANGED config
    /\ reg' = [reg EXCEPT ![r] = Idle]
    /\ UNCHANGED <<tokens, devices, beat, process, keys, history>>

\* A failure of the database or the backend anywhere before the answer.
RegistrationFails(r) ==
    /\ reg[r].pc \in {"checked", "found", "saved"}
    /\ reg' = [reg EXCEPT ![r] = Idle]
    /\ UNCHANGED <<tokens, devices, beat, nodes, keys, history>>
-----------------------------------------------------------------------------
(* The node.                                                               *)

\* sysagent-node run loads the configuration; a process that ran before is
\* replaced.
StartNode(m) ==
    /\ config[m] # NoConfig
    /\ process' = [process EXCEPT ![m] = config[m]]
    /\ UNCHANGED <<tokens, devices, reg, beat, config, keys, history>>

\* _heartbeat.  The request of a process that gave up may still be worked on.
Heartbeat(m) ==
    /\ process[m] # NoConfig
    /\ beat[m].pc = "idle"
    /\ beat' = [beat EXCEPT ![m] = SentBeat(process[m])]
    /\ UNCHANGED <<tokens, devices, reg, nodes, keys, history>>

\* authenticateDevice: a node that is refused ends with an error.
ReadDevice(m) ==
    /\ beat[m].pc = "sent"
    /\ IF devices[beat[m].dev].key = beat[m].key
       THEN /\ beat' = [beat EXCEPT ![m] = ReadBeat(beat[m], devices[beat[m].dev])]
            /\ UNCHANGED process
       ELSE /\ beat' = [beat EXCEPT ![m] = Idle]
            /\ process' = [process EXCEPT ![m] = NoConfig]
    /\ UNCHANGED <<tokens, devices, reg, config, keys, history>>

\* Mutant of SaveHeartbeat: the token hash is not among what it writes.
SaveHeartbeatWithoutHash(m) ==
    /\ beat[m].pc = "read"
    /\ devices' = [devices EXCEPT ![beat[m].dev] =
                      WithKey(Renamed(beat[m].row, Hostname[m]), 0)]
    /\ beat' = [beat EXCEPT ![m] = Idle]
    /\ UNCHANGED <<tokens, reg, nodes, keys, history>>

\* recordHeartbeat renames the device to the machine it runs on, and writes all
\* that it read with it.
SaveHeartbeat(m) ==
    /\ beat[m].pc = "read"
    /\ devices' = [devices EXCEPT ![beat[m].dev] =
                      Renamed(beat[m].row, Hostname[m])]
    /\ beat' = [beat EXCEPT ![m] = Idle]
    /\ UNCHANGED <<tokens, reg, nodes, keys, history>>

HeartbeatFails(m) ==
    /\ beat[m].pc # "idle"
    /\ beat' = [beat EXCEPT ![m] = Idle]
    /\ UNCHANGED <<tokens, devices, reg, nodes, keys, history>>
-----------------------------------------------------------------------------
Next ==
    \/ \E t \in Tokens : CreateToken(t) \/ Expire(t)
    \/ \E r \in Requests :
         \/ \E m \in Machines, t \in Tokens : Register(r, m, t)
         \/ ReadToken(r) \/ TwoDevices(r) \/ SaveToken(r) \/ Answer(r)
         \/ RegistrationFails(r)
         \/ \E d \in Ids : FindDevice(r, d) \/ SaveDevice(r, d)
    \/ \E m \in Machines :
         \/ StartNode(m) \/ Heartbeat(m) \/ ReadDevice(m) \/ SaveHeartbeat(m)
         \/ HeartbeatFails(m)

Spec == Init /\ [][Next]_vars
-----------------------------------------------------------------------------
\* A machine acts on a device of the owner with whose token it was registered,
\* also while its configuration, its process and its requests are of different
\* registrations.
Theirs(c) == c # NoConfig => devices[c.dev].owner = c.owner /\ c.key \in issued[c.dev]
OwnersAreKept ==
    \A m \in Machines :
        /\ Theirs(config[m]) /\ Theirs(process[m])
        /\ beat[m].pc = "read" => devices[beat[m].dev].owner = beat[m].row.owner

\* Two devices of an owner have one name (and can no longer be registered) only
\* if two registrations looked for the name at a time, or if nodes bear host
\* names they were not registered by.
DuplicateNeedsOverlap ==
    \A d, e \in Held :
        /\ d # e
        /\ devices[d].owner = devices[e].owner /\ devices[d].name = devices[e].name
        => \/ <<devices[d].owner, devices[d].name>> \in overlaps
           \/ \E m \in Machines : NameOf[m] # Hostname[m]

\* A node token that was replaced is accepted again only through a heartbeat that
\* was accepted before and saved after.
Overtaken(m) == beat[m].pc = "read" /\ beat[m].row.key # devices[beat[m].dev].key
OldKeyNeedsOverlap ==
    [][\A d \in Held :
          devices'[d].key \in issued[d] /\ devices'[d].key # devices[d].key =>
              \E m \in Machines : Overtaken(m) /\ beat[m].dev = d]_vars

\* The rows keep the promise of DeviceKeys.
Promise == INSTANCE DeviceKeys WITH
    Ids <- Ids, Owners <- Owners, Nobody <- Nobody, Keys <- Keys,
    owner <- [d \in Ids |-> devices[d].owner],
    key <- [d \in Ids |-> devices[d].key],
    issued <- issued
ImplementsDeviceKeys == Promise!Spec
=============================================================================
