---------------------------- MODULE ClientLifecycle ----------------------------
(***************************************************************************)
(* The configuration and the upstream client while the server runs: an     *)
(* update from the admin panel (update_config in src/cc_adapter/admin/     *)
(* router.py, ConfigManager in admin/config_manager.py) writes the .env    *)
(* file, changes the configuration in memory and replaces the client,      *)
(* while requests hold the client they started with (core/runtime.py) and  *)
(* connect when they get to it (_client in command_code/client.py).        *)
(*                                                                         *)
(* The configuration is one value for the fields that the client is built  *)
(* from and one for the others.  A handler runs without interruption up to *)
(* its await, so an update is one step but for the closing of the old      *)
(* client's connections.                                                   *)
(***************************************************************************)
EXTENDS Naturals, Sequences

CONSTANTS
    Requests, Admins,
    Values,      \* of the fields
    Default,     \* the value of a field that is set nowhere
    Sourced,     \* the environment run.sh makes of the .env file at each start
    Unquoted,    \* what the shell makes of a list of keys: it takes the quotes for its own
    MaxClients,  \* bound: clients of one process
    MaxPools,    \* bound: connection pools of one client
    MaxRestarts  \* bound

ASSUME LifecycleAssumption ==
    /\ Default \in Values /\ Unquoted \notin Values /\ Sourced # << >>
    /\ MaxClients \in Nat \ {0} /\ MaxPools \in Nat /\ MaxRestarts \in Nat

Fields == {"client", "other"}
Read   == Values \cup {Unquoted}

VARIABLES
    environment, \* the CC_ADAPTER_ variables of the process, fields and values, or
                 \* Sourced
    envFile,     \* the .env file
    config,      \* _config
    clients,     \* the clients created, the last one being _cc_client
    request,     \* each request: its phase, its client and the pool it posts on
    admin,       \* each administrator's call
    restarts

vars == <<environment, envFile, config, clients, request, admin, restarts>>

Current == Len(clients)

\* A client with its setting and its connection pools: how many it has had, and
\* whether the last one is open.
Client(setting) == [setting |-> setting, pools |-> 0, open |-> FALSE]

\* create_client
CreateClient(cfg) == Client(cfg["client"])

NoRequest == [phase |-> "idle", client |-> 0, pool |-> 0]

\* AppConfig(): the environment goes before the file.  run.sh takes it from there, the
\* JSON list of the keys as a shell reads it.
ReadConfig(env, file) ==
    IF env = Sourced
    THEN [file EXCEPT !["client"] = IF @ = Default THEN @ ELSE Unquoted]
    ELSE [field \in Fields |-> IF field \in DOMAIN env THEN env[field] ELSE file[field]]

\* Every variable stays in its type.
TypeOK ==
    /\ \/ environment = Sourced
       \/ /\ DOMAIN environment \subseteq Fields
          /\ \A field \in DOMAIN environment : environment[field] \in Values
    /\ envFile \in [Fields -> Values] /\ config \in [Fields -> Read]
    /\ clients \in Seq([setting : Read, pools : 0..MaxPools, open : BOOLEAN])
    /\ Current \in 1..MaxClients
    /\ request \in [Requests -> [phase : {"idle", "started", "posting"},
                                 client : 0..Current, pool : 0..MaxPools]]
    /\ admin \in [Admins -> {"idle", "closing", "verifying"}]
    /\ restarts \in 0..MaxRestarts

Init ==
    /\ \/ environment = Sourced
       \/ \E fields \in SUBSET Fields : environment \in [fields -> Values]
    /\ envFile = [field \in Fields |-> Default]
    /\ config = ReadConfig(environment, envFile)
    /\ clients = <<CreateClient(config)>>
    /\ request = [r \in Requests |-> NoRequest]
    /\ admin = [a \in Admins |-> "idle"]
    /\ restarts = 0

-----------------------------------------------------------------------------
(* Requests *)

\* The router takes the client of the moment; the generator starts with it later.
Start(r) ==
    /\ request[r].phase = "idle"
    /\ request' = [request EXCEPT ![r] = [phase |-> "started", client |-> Current, pool |-> 0]]
    /\ UNCHANGED <<environment, envFile, config, clients, admin, restarts>>

\* Mutant: a pool that has been closed is used all the same.
WithPoolEver(c) ==
    IF c.pools = 0 THEN [c EXCEPT !.pools = 1, !.open = TRUE] ELSE c

\* _client(): a pool is made when there is none, and when it has been closed.
WithPool(c) ==
    IF c.open THEN c ELSE [c EXCEPT !.pools = @ + 1, !.open = TRUE]

Post(r) ==
    LET i == request[r].client
        c == WithPool(clients[i])
    IN  /\ request[r].phase = "started"
        /\ c.pools <= MaxPools
        /\ clients' = [clients EXCEPT ![i] = c]
        /\ request' = [request EXCEPT ![r] =
                           [phase |-> "posting", client |-> i, pool |-> c.pools]]
        /\ UNCHANGED <<environment, envFile, config, admin, restarts>>

\* The upstream refuses and the loop goes on with another key.
TryAgain(r) ==
    /\ request[r].phase = "posting"
    /\ request' = [request EXCEPT ![r] =
                       [phase |-> "started", client |-> request[r].client, pool |-> 0]]
    /\ UNCHANGED <<environment, envFile, config, clients, admin, restarts>>

\* The answer ends, is cut off, or fails as its pool is closed.
End(r) ==
    /\ request[r].phase = "posting"
    /\ request' = [request EXCEPT ![r] = NoRequest]
    /\ UNCHANGED <<environment, envFile, config, clients, admin, restarts>>

-----------------------------------------------------------------------------
(* Administrators *)

\* exclude_none: an update names some fields, perhaps none.
Updated(cfg, updates) ==
    [field \in Fields |-> IF field \in DOMAIN updates THEN updates[field] ELSE cfg[field]]

Closed(c) == [c EXCEPT !.open = FALSE]

\* Mutant: the old client stays the current one.
RecreateBehind(cfg) ==
    Append(Append(SubSeq(clients, 1, Current - 1), Closed(CreateClient(cfg))), clients[Current])

\* _recreate_client, and the start of old.aclose(): its pool is closed at once.
Recreate(cfg) ==
    Append([clients EXCEPT ![Current] = Closed(@)], CreateClient(cfg))

\* Mutant: memory first, then the file, which cannot be written.
UpdateFailsAppliedFirst(a) ==
    /\ admin[a] = "idle"
    /\ \E value \in Values : config' = Updated(config, [field \in {"other"} |-> value])
    /\ UNCHANGED <<environment, envFile, clients, request, admin, restarts>>

\* The file cannot be replaced: the call fails and nothing is applied.
UpdateFails(a) ==
    /\ admin[a] = "idle"
    /\ UNCHANGED vars

\* PUT /config: the file, then the configuration in memory, then the client.
Update(a, updates) ==
    LET cfg == Updated(config, updates)
    IN  /\ admin[a] = "idle"
        /\ envFile' = Updated(envFile, updates)
        /\ config' = cfg
        /\ IF "client" \in DOMAIN updates
           THEN /\ Current < MaxClients
                /\ clients' = Recreate(cfg)
                /\ admin' = [admin EXCEPT ![a] = IF clients[Current].open THEN "closing" ELSE "idle"]
           ELSE UNCHANGED <<clients, admin>>
        /\ UNCHANGED <<environment, request, restarts>>

\* The old client's connections are closed.
CloseDone(a) ==
    /\ admin[a] = "closing"
    /\ admin' = [admin EXCEPT ![a] = "idle"]
    /\ UNCHANGED <<environment, envFile, config, clients, request, restarts>>

\* POST /verify-key asks through a client of its own, closed in a finally; without a
\* key it answers at once.
VerifyKey(a) ==
    /\ admin[a] = "idle"
    /\ admin' = [admin EXCEPT ![a] = "verifying"]
    /\ UNCHANGED <<environment, envFile, config, clients, request, restarts>>

\* Mutant: the key is verified through the current client.
VerifyDoneOnCurrent(a) ==
    /\ admin[a] = "verifying"
    /\ admin' = [admin EXCEPT ![a] = "idle"]
    /\ clients' = [clients EXCEPT ![Current] = Closed(@)]
    /\ UNCHANGED <<environment, envFile, config, request, restarts>>

VerifyDone(a) ==
    /\ admin[a] = "verifying"
    /\ admin' = [admin EXCEPT ![a] = "idle"]
    /\ UNCHANGED <<environment, envFile, config, clients, request, restarts>>

-----------------------------------------------------------------------------

\* The process stops or crashes and starts again in the same environment, as the
\* container that restarts has it, or through run.sh again.
Restart ==
    /\ restarts < MaxRestarts /\ restarts' = restarts + 1
    /\ config' = ReadConfig(environment, envFile)
    /\ clients' = <<CreateClient(config')>>
    /\ request' = [r \in Requests |-> NoRequest]
    /\ admin' = [a \in Admins |-> "idle"]
    /\ UNCHANGED <<environment, envFile>>

Updates == UNION { [fields -> Values] : fields \in SUBSET Fields }

Next ==
    \/ \E r \in Requests : Start(r) \/ Post(r) \/ TryAgain(r) \/ End(r)
    \/ \E a \in Admins :
          \/ \E updates \in Updates : Update(a, updates)
          \/ UpdateFails(a) \/ CloseDone(a) \/ VerifyKey(a) \/ VerifyDone(a)
    \/ Restart

Spec == Init /\ [][Next]_vars

-----------------------------------------------------------------------------

\* The client that requests are given is always the one built from the configuration
\* in memory: an update of its fields replaces it in the same step, even while the
\* connections of the one before are still being closed.
ClientFollowsConfig == clients[Current].setting = config["client"]

\* What is in memory is what a restart would find, in an environment that sets
\* nothing or, but for the keys, through run.sh, which sets what is in the file by
\* then: an update that cannot write the file applies nothing.
ConfigFollowsFile ==
    /\ environment = << >> => config = envFile
    /\ environment = Sourced => config["other"] = envFile["other"]

\* The keys in the file, a "JSON array of CC API keys" as .env.example has it, are those
\* in memory, however the server is started.
KeysFollowFile == environment \in {<< >>, Sourced} => config["client"] = envFile["client"]

\* A request never posts on a pool that is closed, though the client it holds may
\* have been replaced and closed since it started.
NoPostOnClosedPool ==
    [][\A r \in Requests :
          request[r].phase # "posting" /\ request'[r].phase = "posting" =>
              LET c == clients'[request'[r].client]
              IN  c.open /\ c.pools = request'[r].pool]_vars

\* A request in flight loses its pool only by the replacement of its client: the
\* current client is not closed under its requests.
CurrentClientStaysOpen ==
    \A r \in Requests :
        request[r].phase = "posting" /\ request[r].client = Current =>
            clients[Current].open /\ clients[Current].pools = request[r].pool
=============================================================================
