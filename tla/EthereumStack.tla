--------------------------- MODULE EthereumStack ---------------------------
(***************************************************************************)
(* agilang/ethereum_clients.py: the configuration of an Ethereum client    *)
(* stack, the plan of commands made of it, the secret the execution and    *)
(* the consensus client share, and start_ethereum_stack, which starts the  *)
(* planned clients one after the other and leaves them running.            *)
(*                                                                         *)
(* The clients are external: one reads the secret as it starts, ends at    *)
(* once if it is empty or if its ports or data directory are taken, and    *)
(* may die at any time.                                                    *)
(***************************************************************************)
EXTENDS Integers, FiniteSets, SequencesExt

CONSTANTS
  Starters,        \* processes that call start_ethereum_stack
  StackConfigs,    \* configurations: [execution, consensus, validator, mode,
                   \* enabled, exposed, ports]
  NewConfigs,      \* those that are written over them
  StartModes,
  DefaultPort,     \* of each endpoint
  Uninstalled,     \* sets of programs that may be missing at first
  MaxStarts, MaxRewrites    \* bounds

\* The ports there are have a default each, all of them different.
ASSUME StackAssumption ==
  /\ DOMAIN DefaultPort = {"rpc", "auth", "ws", "beacon", "metrics", "validator", "prysm"}
  /\ \A e, f \in DOMAIN DefaultPort : e # f => DefaultPort[e] # DefaultPort[f]
  /\ \A c \in StackConfigs \cup NewConfigs :
       /\ DOMAIN c = {"execution", "consensus", "validator", "mode", "enabled", "exposed", "ports"}
       /\ c.enabled \in BOOLEAN /\ DOMAIN c.ports = DOMAIN DefaultPort

VARIABLES
  stackConfig,     \* config/ethereum-clients.json
  missing,         \* programs that are not installed
  secret,          \* the file: is it there, and which secret has it, 0 for none
  secretsMade,
  starter,
  clients,         \* the clients that run: of each role of each start, its plan and secret
  starts,          \* per start: its mode and how it ended
  rewrites,
  muddled,            \* did two starts meet, or one end, where the secret is made?
  lost             \* has a client died?

stackVars == <<stackConfig, missing, secret, secretsMade, starter, clients, starts, rewrites, muddled, lost>>
-----------------------------------------------------------------------------
Execution == {"geth", "nethermind", "besu", "erigon"}
Consensus == {"lighthouse", "prysm", "teku", "nimbus", "lodestar"}
Modes == {"full", "archive", "validator", "all"}

\* What a mode asks for, over what the file says; the flags for archives are left out.
InMode(c, m) == [c EXCEPT !.mode = m, !.enabled = @ \/ m \in {"validator", "all"}]

\* endpoints()
Endpoints(c) ==
  {"rpc", "auth", "ws", "beacon", "metrics"}
    \cup (IF c.enabled \/ c.mode \in {"validator", "all"} THEN {"validator"} ELSE {})

\* as_dict and back: an endpoint that is not among endpoints() is not kept.
Reloaded(c) ==
  [c EXCEPT !.ports = [e \in DOMAIN @ |-> IF e \in Endpoints(c) THEN @[e] ELSE DefaultPort[e]],
            !.exposed = @ \cap Endpoints(c)]

PortsApart(c) == \A e, f \in Endpoints(c) : e # f => c.ports[e] # c.ports[f]

\* validate_ethereum_client_config; exposed are the endpoints that are public or
\* bound to another address than the loopback
Valid(c) ==
  /\ c.execution \in Execution /\ {c.consensus, c.validator} \subseteq Consensus /\ c.mode \in Modes
  /\ c.exposed \cap Endpoints(c) \subseteq {"rpc", "ws"}
  /\ PortsApart(c)

Roles(c) == <<"execution", "consensus">> \o (IF c.enabled THEN <<"validator">> ELSE <<>>)

ClientOf(c, role) ==
  CASE role = "execution" -> c.execution [] role = "consensus" -> c.consensus [] role = "validator" -> c.validator

\* The program of each command.
BinaryOf(client, role) ==
  CASE client = "nethermind" -> "Nethermind.Runner"
    [] client = "prysm" -> IF role = "validator" THEN "validator" ELSE "beacon-chain"
    [] client = "nimbus" -> IF role = "validator" THEN "nimbus_validator_client" ELSE "nimbus_beacon_node"
    [] OTHER -> client

\* execution_command and consensus_command: where the engine is served, and where
\* it is called.  The command for besu does not name the port.
EngineServed(c) == IF c.execution = "besu" THEN DefaultPort["auth"] ELSE c.ports["auth"]
EngineCalled(c) == c.ports["auth"]

\* consensus_command and validator_command: prysm's own protocol has a fixed port.
BeaconServed(c) == {c.ports["beacon"]} \cup (IF c.consensus = "prysm" THEN {DefaultPort["prysm"]} ELSE {})
BeaconCalled(c) == IF c.validator = "prysm" THEN DefaultPort["prysm"] ELSE c.ports["beacon"]

ServedBy(c, role) ==
  CASE role = "execution" -> {c.ports["rpc"], EngineServed(c)} \cup (IF c.execution \in {"geth", "besu"} THEN {c.ports["ws"]} ELSE {})
    [] role = "consensus" -> BeaconServed(c)
    [] role = "validator" -> IF c.validator = "lighthouse" THEN {c.ports["validator"]} ELSE {}

\* What validation does not see to: besu's engine stays at its default port,
\* prysm's validator speaks to prysm's beacon node only, and that one's fixed
\* port is not in the configuration.
Fits(c) ==
  /\ c.execution = "besu" => c.ports["auth"] = DefaultPort["auth"]
  /\ c.enabled /\ c.validator = "prysm" => c.consensus = "prysm"
  /\ c.consensus = "prysm" => \A e \in Endpoints(c) : c.ports[e] # DefaultPort["prysm"]
-----------------------------------------------------------------------------
Resting == [at |-> "away", plan |-> {}, todo |-> <<>>, start |-> 0]

StackInit ==
  /\ stackConfig \in {Reloaded(c) : c \in StackConfigs}
  /\ missing \in Uninstalled
  /\ secret = [there |-> FALSE, value |-> 0] /\ secretsMade = 0
  /\ starter = [s \in Starters |-> Resting]
  /\ clients = <<>> /\ starts = <<>> /\ rewrites = 0
  /\ muddled = FALSE /\ lost = FALSE

\* write_ethereum_client_config
WriteConfig(c) ==
  /\ rewrites < MaxRewrites /\ rewrites' = rewrites + 1
  /\ stackConfig' = Reloaded(c)
  /\ UNCHANGED <<missing, secret, secretsMade, starter, clients, starts, muddled, lost>>

Install ==
  /\ missing # {} /\ missing' = {}
  /\ UNCHANGED <<stackConfig, secret, secretsMade, starter, clients, starts, rewrites, muddled, lost>>

\* start_ethereum_stack: the file, the mode, the plan; without a valid one it ends.
StartStack(s, m) ==
  LET plan == InMode(stackConfig, m) IN
  /\ starter[s].at = "away" /\ Len(starts) < MaxStarts
  /\ starts' = Append(starts, [mode |-> m, how |-> IF Valid(plan) THEN "begun" ELSE "refused"])
  /\ starter' = IF Valid(plan)
                THEN [starter EXCEPT ![s] = [at |-> "secret", plan |-> {plan}, todo |-> Roles(plan), start |-> Len(starts')]]
                ELSE starter
  /\ UNCHANGED <<stackConfig, missing, secret, secretsMade, clients, rewrites, muddled, lost>>

\* Mutant of SecretThere: a new secret is made at every start.
SecretNever == FALSE
\* p.exists()
SecretThere == secret.there

\* ensure_jwt_secret
FindSecret(s) ==
  /\ starter[s].at = "secret"
  /\ starter' = [starter EXCEPT ![s].at = IF SecretThere THEN "spawn" ELSE "create"]
  /\ muddled' = (muddled \/ \E t \in Starters \ {s} : starter[t].at \in {"create", "write"})
  /\ UNCHANGED <<stackConfig, missing, secret, secretsMade, clients, starts, rewrites, lost>>

\* write_text: the file is empty first
CreateSecret(s) ==
  /\ starter[s].at = "create"
  /\ secret' = [there |-> TRUE, value |-> 0]
  /\ starter' = [starter EXCEPT ![s].at = "write"]
  /\ UNCHANGED <<stackConfig, missing, secretsMade, clients, starts, rewrites, muddled, lost>>

WriteSecret(s) ==
  /\ starter[s].at = "write"
  /\ secretsMade' = secretsMade + 1 /\ secret' = [there |-> TRUE, value |-> secretsMade']
  /\ starter' = [starter EXCEPT ![s].at = "spawn"]
  /\ UNCHANGED <<stackConfig, missing, clients, starts, rewrites, muddled, lost>>

\* External: does the client stay up?
SameDirectory(c, d, role) == ClientOf(c, role) = ClientOf(d, role)
Stays(c, role) ==
  /\ role \in {"execution", "consensus"} => secret.value # 0
  /\ \A k \in DOMAIN clients :
       /\ ServedBy(c, role) \cap ServedBy(clients[k].plan, k[2]) = {}
       /\ k[2] = role => ~SameDirectory(c, clients[k].plan, role)

WithClient(k, x) == [j \in DOMAIN clients \cup {k} |-> IF j = k THEN x ELSE clients[j]]

EndStart(s, how) ==
  /\ starter' = [starter EXCEPT ![s] = Resting]
  /\ starts' = [starts EXCEPT ![starter[s].start].how = how]

\* subprocess.Popen of the next command, and the wait after it
SpawnClient(s) ==
  /\ starter[s].at = "spawn" /\ starter[s].todo # <<>>
  /\ \E c \in starter[s].plan, role \in {Head(starter[s].todo)} :
       /\ BinaryOf(ClientOf(c, role), role) \notin missing
       /\ clients' = IF Stays(c, role)
                     THEN WithClient(<<starter[s].start, role>>, [plan |-> c, secret |-> secret.value])
                     ELSE clients
  /\ starter' = [starter EXCEPT ![s].todo = Tail(@)]
  /\ UNCHANGED <<stackConfig, missing, secret, secretsMade, starts, rewrites, muddled, lost>>

\* The program is not there: what was started before runs on.
SpawnRaises(s) ==
  /\ starter[s].at = "spawn" /\ starter[s].todo # <<>>
  /\ \E c \in starter[s].plan : BinaryOf(ClientOf(c, Head(starter[s].todo)), Head(starter[s].todo)) \in missing
  /\ EndStart(s, "raised")
  /\ UNCHANGED <<stackConfig, missing, secret, secretsMade, clients, rewrites, muddled, lost>>

StartDone(s) ==
  /\ starter[s].at = "spawn" /\ starter[s].todo = <<>>
  /\ EndStart(s, "ok")
  /\ UNCHANGED <<stackConfig, missing, secret, secretsMade, clients, rewrites, muddled, lost>>

KillStart(s) ==
  /\ starter[s].at # "away"
  /\ muddled' = (muddled \/ starter[s].at = "write")
  /\ EndStart(s, "killed")
  /\ UNCHANGED <<stackConfig, missing, secret, secretsMade, clients, rewrites, lost>>

\* one of them, which is as good as more
Die(k) ==
  /\ ~lost /\ clients' = Restrict(clients, DOMAIN clients \ {k}) /\ lost' = TRUE
  /\ UNCHANGED <<stackConfig, missing, secret, secretsMade, starter, starts, rewrites, muddled>>

StackNext ==
  \/ Install \/ \E c \in NewConfigs : WriteConfig(c)
  \/ \E k \in DOMAIN clients : Die(k)
  \/ \E s \in Starters :
       \/ \E m \in StartModes : StartStack(s, m)
       \/ FindSecret(s) \/ CreateSecret(s) \/ WriteSecret(s)
       \/ SpawnClient(s) \/ SpawnRaises(s) \/ StartDone(s) \/ KillStart(s)

StackSpec == StackInit /\ [][StackNext]_stackVars
-----------------------------------------------------------------------------
StackTypeOK ==
  /\ secret.value \in 0 .. secretsMade
  /\ \A s \in Starters : starter[s].at \in {"away", "secret", "create", "write", "spawn"}
  /\ \A k \in DOMAIN clients : k[1] \in DOMAIN starts /\ Valid(clients[k].plan)

\* All clients, of whichever start, have the one secret of the file, unless two
\* starts met where it is made or one was killed there: an empty file is then
\* taken for a secret (ethereum_clients.py:191), and start does not look at the
\* answer of ensure_jwt_secret (:511).
OneSecret == ~muddled => \A k \in DOMAIN clients : clients[k].secret = secret.value /\ secret.value # 0

\* When a start has returned ok, each client of its plan runs, also if an earlier
\* start raised or was killed half-way, as long as none has died and the file was
\* not rewritten; and each one's peer is where it calls, and has its secret.  The
\* plan has to hold together, which its validation does not see to.
StackUp ==
  LET of(role) == {k \in DOMAIN clients : k[2] = role} IN
  ~muddled /\ ~lost /\ rewrites = 0 /\ Fits(stackConfig) =>
    /\ \A i \in DOMAIN starts : starts[i].how = "ok" =>
         \A role \in ToSet(Roles(InMode(stackConfig, starts[i].mode))) : of(role) # {}
    /\ \A i \in DOMAIN starts : starts[i].how = "ok" /\ starts[i].mode = "validator" => of("validator") # {}
    /\ \A k \in of("consensus") : \E e \in of("execution") :
         EngineCalled(clients[k].plan) = EngineServed(clients[e].plan) /\ clients[k].secret = clients[e].secret
    /\ \A v \in of("validator") : Fits(clients[v].plan) =>
         \E k \in of("consensus") : BeaconCalled(clients[v].plan) \in BeaconServed(clients[k].plan)
=============================================================================
