------------------------ MODULE ClientLifecycle_proofs ------------------------
(* Proofs about ClientLifecycle, for any requests, administrators and values. *)
EXTENDS ClientLifecycle, TLAPS

USE LifecycleAssumption

\* A client as the type invariant has it.
ClientRecord == [setting : Read, pools : 0..MaxPools, open : BOOLEAN]

\* A request that has been started holds a client of this process.
HoldsAClient ==
    \A r \in Requests : request[r].phase # "idle" => request[r].client \in 1..Current

IInv ==
    /\ TypeOK
    /\ ClientFollowsConfig
    /\ ConfigFollowsFile
    /\ CurrentClientStaysOpen
    /\ HoldsAClient

-----------------------------------------------------------------------------
(* Clients and configurations *)

LEMMA ClientType == ASSUME NEW v \in Read PROVE Client(v) \in ClientRecord
<1>1. FALSE \in BOOLEAN
  OBVIOUS
<1> QED
  BY <1>1 DEF Client, ClientRecord

LEMMA ClosedType ==
    ASSUME NEW c \in ClientRecord
    PROVE  Closed(c) \in ClientRecord /\ Closed(c).setting = c.setting
  BY DEF Closed, ClientRecord

\* _client() keeps a client's settings and opens it; one that is open stays as it is.
LEMMA WithPoolType ==
    ASSUME NEW c \in ClientRecord, WithPool(c).pools <= MaxPools
    PROVE  /\ WithPool(c) \in ClientRecord
           /\ WithPool(c).setting = c.setting /\ WithPool(c).open = TRUE
           /\ c.open = TRUE => WithPool(c) = c
<1>1. CASE c.open = TRUE
  <2>1. WithPool(c) = c
    BY <1>1 DEF WithPool
  <2> QED
    BY <2>1, <1>1
<1>2. CASE c.open # TRUE
  <2>0. c.open = FALSE
    BY <1>2 DEF ClientRecord
  <2>4. WithPool(c) = [c EXCEPT !.pools = c.pools + 1, !.open = TRUE]
    BY <2>0 DEF WithPool
  <2>1. WithPool(c) = [setting |-> c.setting, pools |-> c.pools + 1, open |-> TRUE]
    BY <2>4 DEF ClientRecord
  <2>2. c.setting \in Read /\ c.pools + 1 \in 0..MaxPools
    BY <2>1 DEF ClientRecord
  <2>3. TRUE \in BOOLEAN
    OBVIOUS
  <2>5. WithPool(c) \in ClientRecord
    BY <2>1, <2>2, <2>3 DEF ClientRecord
  <2>6. WithPool(c).setting = c.setting /\ WithPool(c).open = TRUE
    BY <2>1
  <2> QED
    BY <1>2, <2>5, <2>6
<1> QED
  BY <1>1, <1>2

LEMMA UpdatedType ==
    ASSUME NEW S, Values \subseteq S, NEW cfg \in [Fields -> S], NEW updates \in Updates
    PROVE  /\ Updated(cfg, updates) \in [Fields -> S]
           /\ "client" \notin DOMAIN updates => Updated(cfg, updates)["client"] = cfg["client"]
<1>1. PICK fields \in SUBSET Fields : updates \in [fields -> Values]
  BY DEF Updates
<1>2. DOMAIN updates = fields /\ \A field \in fields : updates[field] \in Values
  BY <1>1
<1>3. \A field \in Fields :
        (IF field \in DOMAIN updates THEN updates[field] ELSE cfg[field]) \in S
  BY <1>2
<1>4. "client" \in Fields
  BY DEF Fields
<1> QED
  BY <1>3, <1>4 DEF Updated

\* AppConfig() reads values, or keys that have lost their quotes; nothing but the file
\* in an environment that sets nothing and, but for the keys, through run.sh.
LEMMA ReadConfigType ==
    ASSUME NEW file \in [Fields -> Values],
           \/ environment = Sourced
           \/ /\ DOMAIN environment \subseteq Fields
              /\ \A field \in DOMAIN environment : environment[field] \in Values
    PROVE  /\ ReadConfig(environment, file) \in [Fields -> Read]
           /\ environment = << >> => ReadConfig(environment, file) = file
           /\ environment = Sourced => ReadConfig(environment, file)["other"] = file["other"]
<1>1. CASE environment = Sourced
  <2>1. ReadConfig(environment, file) =
          [file EXCEPT !["client"] = IF @ = Default THEN @ ELSE Unquoted]
    BY <1>1 DEF ReadConfig
  <2>2. ReadConfig(environment, file) \in [Fields -> Read]
    BY <2>1 DEF Read, Fields
  <2>3. ReadConfig(environment, file)["other"] = file["other"]
    BY <2>1 DEF Fields
  <2>4. environment = << >> => ReadConfig(environment, file) = file
    BY <1>1
  <2> QED
    BY <2>2, <2>3, <2>4
<1>2. CASE environment # Sourced
  BY <1>2 DEF ReadConfig, Read
<1> QED
  BY <1>1, <1>2

-----------------------------------------------------------------------------

\* A process starts with one client, built from what it reads.
Started ==
    /\ config = ReadConfig(environment, envFile)
    /\ clients = <<CreateClient(config)>>
    /\ request = [r \in Requests |-> NoRequest]
    /\ admin = [a \in Admins |-> "idle"]

Settings ==
    /\ envFile \in [Fields -> Values] /\ restarts \in 0..MaxRestarts
    /\ \/ environment = Sourced
       \/ /\ DOMAIN environment \subseteq Fields
          /\ \A field \in DOMAIN environment : environment[field] \in Values

LEMMA StartedInv == Started /\ Settings => IInv
<1> SUFFICES ASSUME Started, Settings PROVE IInv
  OBVIOUS
<1> USE DEF Settings
<1>1. config \in [Fields -> Read] /\ ConfigFollowsFile
  BY ReadConfigType DEF Started, ConfigFollowsFile
<1>2. Client(config["client"]) \in ClientRecord
  BY <1>1, ClientType DEF Fields
<1>3. clients = <<Client(config["client"])>>
  BY DEF Started, CreateClient
<1>4. clients \in Seq(ClientRecord) /\ Current = 1
        /\ clients[Current] = Client(config["client"])
  BY <1>2, <1>3 DEF Current
<1>5. request \in [Requests -> [phase : {"idle", "started", "posting"},
                                client : 0..Current, pool : 0..MaxPools]]
  BY <1>4 DEF Started, NoRequest
<1>6. TypeOK
  BY <1>1, <1>4, <1>5 DEF TypeOK, Started, ClientRecord
<1>7. \A r \in Requests : request[r].phase = "idle"
  BY DEF Started, NoRequest
<1> QED
  BY <1>1, <1>4, <1>6, <1>7 DEF IInv, ClientFollowsConfig, ConfigFollowsFile,
     CurrentClientStaysOpen, HoldsAClient, Client

LEMMA InitInv == Init => IInv
<1> SUFFICES ASSUME Init PROVE IInv
  OBVIOUS
<1>1. \/ environment = Sourced
      \/ \E fields \in SUBSET Fields : environment \in [fields -> Values]
  BY DEF Init
<1>2. Settings
  BY <1>1 DEF Init, Settings
<1>3. Started
  BY DEF Init, Started
<1> QED
  BY <1>2, <1>3, StartedInv

LEMMA RestartInv == IInv /\ Restart => IInv'
<1>1. IInv /\ Restart => Settings'
  BY DEF IInv, TypeOK, Restart, Settings
<1>2. Restart => Started'
  BY DEF Restart, Started
<1> QED
  BY <1>1, <1>2, StartedInv, PTL

-----------------------------------------------------------------------------
(* Requests *)

RequestRecord == [phase : {"idle", "started", "posting"}, client : 0..Current, pool : 0..MaxPools]

\* Actions that touch one request only.
LEMMA RequestStep ==
    ASSUME IInv, NEW r \in Requests, NEW s \in RequestRecord,
           request' = [request EXCEPT ![r] = s],
           UNCHANGED <<environment, envFile, config, clients, admin, restarts>>,
           s.phase # "posting",
           s.phase # "idle" => s.client \in 1..Current
    PROVE  IInv'
<1>1. Current' = Current
  BY DEF Current
<1>2. request' \in [Requests -> RequestRecord]
  BY DEF IInv, TypeOK, RequestRecord
<1>3. TypeOK'
  BY <1>1, <1>2 DEF IInv, TypeOK, RequestRecord
<1>4. \A q \in Requests : request'[q] = IF q = r THEN s ELSE request[q]
  BY DEF IInv, TypeOK
<1>5. HoldsAClient' /\ CurrentClientStaysOpen'
  BY <1>1, <1>4 DEF IInv, HoldsAClient, CurrentClientStaysOpen
<1> QED
  BY <1>1, <1>3, <1>5 DEF IInv, ClientFollowsConfig, ConfigFollowsFile

LEMMA StartInv == ASSUME IInv, NEW r \in Requests, Start(r) PROVE IInv'
<1> DEFINE s == [phase |-> "started", client |-> Current, pool |-> 0]
<1>1. Current \in 1..Current
  BY DEF IInv, TypeOK
<1>2. s \in RequestRecord
  BY <1>1 DEF RequestRecord
<1>3. request' = [request EXCEPT ![r] = s]
  BY DEF Start
<1>4. s.phase = "started" /\ s.client = Current
  OBVIOUS
<1> HIDE DEF s
<1> QED
  BY <1>1, <1>2, <1>3, <1>4, RequestStep DEF Start

LEMMA TryAgainInv == ASSUME IInv, NEW r \in Requests, TryAgain(r) PROVE IInv'
<1> DEFINE s == [phase |-> "started", client |-> request[r].client, pool |-> 0]
<1>1. request[r] \in RequestRecord /\ request[r].client \in 1..Current
  BY DEF IInv, TypeOK, HoldsAClient, RequestRecord, TryAgain
<1>2. s \in RequestRecord /\ s.phase = "started" /\ s.client = request[r].client
  BY <1>1 DEF RequestRecord
<1>3. request' = [request EXCEPT ![r] = s]
  BY DEF TryAgain, IInv, TypeOK
<1> HIDE DEF s
<1> QED
  BY <1>1, <1>2, <1>3, RequestStep DEF TryAgain

LEMMA EndInv == ASSUME IInv, NEW r \in Requests, End(r) PROVE IInv'
<1>1. NoRequest \in RequestRecord /\ NoRequest.phase = "idle"
  BY DEF IInv, TypeOK, RequestRecord, NoRequest
<1> QED
  BY <1>1, RequestStep DEF End

\* A request posts on the open pool of the client it holds: if that is the current
\* one and others post on its pool, it was open and stays as it is.
LEMMA PostInv ==
    ASSUME IInv, NEW r \in Requests, Post(r)
    PROVE  /\ IInv'
           /\ LET c == clients'[request'[r].client]
              IN  c.open = TRUE /\ c.pools = request'[r].pool
           /\ \A q \in Requests \ {r} : request'[q] = request[q]
<1> DEFINE i == request[r].client
           c == WithPool(clients[i])
<1>0. clients \in Seq(ClientRecord) /\ i \in 1..Current
  BY DEF IInv, TypeOK, HoldsAClient, ClientRecord, Post
<1>1. i \in 1..Current /\ clients \in Seq(ClientRecord) /\ clients[i] \in ClientRecord
  <2> HIDE DEF i
  <2> QED
    BY <1>0 DEF Current
<1>2. /\ request[r].phase = "started" /\ c.pools <= MaxPools
      /\ clients' = [clients EXCEPT ![i] = c]
      /\ request' = [request EXCEPT ![r] =
                         [phase |-> "posting", client |-> i, pool |-> c.pools]]
      /\ UNCHANGED <<environment, envFile, config, admin, restarts>>
  BY DEF Post
<1>3. /\ c \in ClientRecord /\ c.setting = clients[i].setting /\ c.open = TRUE
      /\ clients[i].open = TRUE => c = clients[i]
  BY <1>1, <1>2, WithPoolType
<1> HIDE DEF i, c
<1>4. /\ clients' \in Seq(ClientRecord) /\ Current' = Current
      /\ \A j \in 1..Current : clients'[j] = IF j = i THEN c ELSE clients[j]
  BY <1>1, <1>2, <1>3 DEF Current
<1>5. request \in [Requests -> RequestRecord]
  BY DEF IInv, TypeOK, RequestRecord
<1>6. \A q \in Requests :
         request'[q] = IF q = r THEN [phase |-> "posting", client |-> i, pool |-> c.pools]
                       ELSE request[q]
  BY <1>2, <1>5
<1>7. request' \in [Requests -> RequestRecord]
  <2>1. c.pools \in 0..MaxPools /\ i \in 0..Current
    BY <1>1, <1>3 DEF ClientRecord
  <2>2. [phase |-> "posting", client |-> i, pool |-> c.pools] \in RequestRecord
    BY <2>1 DEF RequestRecord
  <2>3. \A q \in Requests : request'[q] \in RequestRecord
    BY <1>5, <1>6, <2>2
  <2>4. request' = [q \in Requests |-> request'[q]]
    BY <1>2, <1>5
  <2> QED
    BY <2>3, <2>4
<1>8. TypeOK'
  BY <1>2, <1>4, <1>7 DEF IInv, TypeOK, ClientRecord, RequestRecord
<1>9. HoldsAClient'
  BY <1>1, <1>4, <1>6 DEF IInv, HoldsAClient
<1>10. CurrentClientStaysOpen'
  <2> SUFFICES ASSUME NEW q \in Requests, request'[q].phase = "posting",
                      request'[q].client = Current
               PROVE  /\ clients'[Current].open = TRUE
                      /\ clients'[Current].pools = request'[q].pool
    BY <1>4 DEF CurrentClientStaysOpen
  <2>0. Current \in 1..Current
    BY DEF IInv, TypeOK
  <2>1. CASE q = r
    BY <2>0, <2>1, <1>3, <1>4, <1>6
  <2>2. CASE q # r
    <3>1. request'[q] = request[q]
      BY <2>2, <1>6
    <3>2. /\ clients[Current].open /\ clients[Current].pools = request[q].pool
      BY <3>1 DEF IInv, CurrentClientStaysOpen
    <3>3. clients[Current] \in ClientRecord
      BY <2>0, <1>1 DEF Current
    <3>4. clients[Current].open = TRUE
      BY <3>2, <3>3 DEF ClientRecord
    <3> QED
      BY <2>0, <3>1, <3>2, <3>4, <1>3, <1>4
  <2> QED
    BY <2>1, <2>2
<1>11. ClientFollowsConfig' /\ ConfigFollowsFile'
  <2>1. Current \in 1..Current
    BY DEF IInv, TypeOK
  <2>2. clients'[Current].setting = clients[Current].setting
    BY <2>1, <1>3, <1>4
  <2> QED
    BY <2>2, <1>2, <1>4 DEF IInv, ClientFollowsConfig, ConfigFollowsFile
<1>12. \A q \in Requests \ {r} : request'[q] = request[q]
  BY <1>6
<1>13. /\ clients'[request'[r].client].open = TRUE
       /\ clients'[request'[r].client].pools = request'[r].pool
  BY <1>1, <1>3, <1>4, <1>6
<1> QED
  BY <1>8, <1>9, <1>10, <1>11, <1>12, <1>13 DEF IInv

-----------------------------------------------------------------------------
(* Administrators *)

\* Actions that touch administrators only.
LEMMA AdminStep ==
    ASSUME IInv, admin' \in [Admins -> {"idle", "closing", "verifying"}],
           UNCHANGED <<environment, envFile, config, clients, request, restarts>>
    PROVE  IInv'
<1>1. Current' = Current
  BY DEF Current
<1> QED
  BY <1>1 DEF IInv, TypeOK, HoldsAClient, ClientFollowsConfig, ConfigFollowsFile,
     CurrentClientStaysOpen

\* An update of the client's fields leaves a new client, built from them and used by
\* no request yet, and the old one closed; one of other fields leaves the client.
LEMMA UpdateInv ==
    ASSUME IInv, NEW a \in Admins, NEW updates \in Updates, Update(a, updates)
    PROVE  IInv' /\ request' = request
<1> DEFINE cfg == Updated(config, updates)
<1>1. /\ envFile' = Updated(envFile, updates) /\ config' = cfg
      /\ UNCHANGED <<environment, request, restarts>>
  BY DEF Update
<1>2. config \in [Fields -> Read] /\ envFile \in [Fields -> Values]
  BY DEF IInv, TypeOK
<1>3. /\ cfg \in [Fields -> Read] /\ envFile' \in [Fields -> Values]
      /\ "client" \notin DOMAIN updates => cfg["client"] = config["client"]
  BY <1>1, <1>2, UpdatedType DEF Read
<1>4. ConfigFollowsFile'
  <2>1. environment = Sourced => cfg["other"] = envFile'["other"]
    BY <1>1 DEF IInv, ConfigFollowsFile, Updated, Fields
  <2>2. environment = << >> => cfg = envFile'
    BY <1>1 DEF IInv, ConfigFollowsFile
  <2> QED
    BY <1>1, <2>1, <2>2 DEF ConfigFollowsFile
<1> HIDE DEF cfg
<1>5. CASE "client" \in DOMAIN updates
  <2>1. /\ Current < MaxClients
        /\ clients' = Append([clients EXCEPT ![Current] = Closed(@)], Client(cfg["client"]))
    BY <1>5 DEF Update, Recreate, CreateClient, cfg
  <2>2. admin' \in [Admins -> {"idle", "closing", "verifying"}]
    BY <1>5 DEF Update, IInv, TypeOK
  <2>3. clients \in Seq(ClientRecord) /\ Current \in 1..Current /\ clients[Current] \in ClientRecord
    <3>1. clients \in Seq(ClientRecord) /\ Current \in 1..Current
      BY DEF IInv, TypeOK, ClientRecord
    <3> QED
      BY <3>1 DEF Current
  <2>4. Client(cfg["client"]) \in ClientRecord
    BY <1>3, ClientType DEF Fields
  <2>5. Closed(clients[Current]) \in ClientRecord
    BY <2>3, ClosedType
  <2>6. /\ clients' \in Seq(ClientRecord) /\ Current' = Current + 1
        /\ clients'[Current'] = Client(cfg["client"])
    <3> DEFINE old == [clients EXCEPT ![Current] = Closed(clients[Current])]
               new == Client(cfg["client"])
    <3>1. old \in Seq(ClientRecord) /\ Len(old) = Current
      BY <2>3, <2>5 DEF Current
    <3>2. clients' = Append(old, new)
      BY <2>1
    <3> HIDE DEF old, new
    <3>3. new \in ClientRecord
      BY <2>4 DEF new
    <3>4. /\ clients' \in Seq(ClientRecord) /\ Len(clients') = Current + 1
          /\ clients'[Current + 1] = new
      BY <2>3, <3>1, <3>2, <3>3
    <3> QED
      BY <3>4 DEF Current, new
  <2>7. TypeOK'
    <3>1. Current' \in 1..MaxClients
      BY <2>1, <2>3, <2>6 DEF IInv, TypeOK
    <3>2. request' \in [Requests -> [phase : {"idle", "started", "posting"},
                                     client : 0..Current', pool : 0..MaxPools]]
      <4>1. request \in [Requests -> RequestRecord]
        BY DEF IInv, TypeOK, RequestRecord
      <4>2. RequestRecord \subseteq [phase : {"idle", "started", "posting"},
                                     client : 0..Current', pool : 0..MaxPools]
        BY <2>3, <2>6 DEF RequestRecord
      <4> QED
        BY <1>1, <4>1, <4>2
    <3> QED
      BY <1>1, <1>3, <2>2, <2>6, <3>1, <3>2 DEF IInv, TypeOK, ClientRecord
  <2>8. HoldsAClient' /\ CurrentClientStaysOpen'
    BY <1>1, <2>3, <2>6 DEF IInv, HoldsAClient, CurrentClientStaysOpen
  <2>9. ClientFollowsConfig'
    BY <1>1, <2>6 DEF ClientFollowsConfig, Client
  <2> QED
    BY <1>1, <1>4, <2>7, <2>8, <2>9 DEF IInv
<1>6. CASE "client" \notin DOMAIN updates
  <2>1. UNCHANGED <<clients, admin>>
    BY <1>6 DEF Update
  <2>2. Current' = Current
    BY <2>1 DEF Current
  <2> QED
    BY <1>1, <1>3, <1>4, <1>6, <2>1, <2>2
       DEF IInv, TypeOK, HoldsAClient, ClientFollowsConfig, CurrentClientStaysOpen
<1> QED
  BY <1>5, <1>6

-----------------------------------------------------------------------------
(* Theorems *)

LEMMA StepInv == IInv /\ [Next]_vars => IInv'
<1> SUFFICES ASSUME IInv, [Next]_vars PROVE IInv'
  OBVIOUS
<1>1. ASSUME NEW r \in Requests, Start(r) \/ Post(r) \/ TryAgain(r) \/ End(r) PROVE IInv'
  BY <1>1, StartInv, PostInv, TryAgainInv, EndInv
<1>2. ASSUME NEW a \in Admins, NEW updates \in Updates, Update(a, updates) PROVE IInv'
  BY <1>2, UpdateInv
<1>3. ASSUME NEW a \in Admins, CloseDone(a) \/ VerifyKey(a) \/ VerifyDone(a) PROVE IInv'
  <2>1. admin' \in [Admins -> {"idle", "closing", "verifying"}]
    BY <1>3 DEF CloseDone, VerifyKey, VerifyDone, IInv, TypeOK
  <2> QED
    BY <1>3, <2>1, AdminStep DEF CloseDone, VerifyKey, VerifyDone
<1>4. CASE UNCHANGED vars
  <2>1. admin' \in [Admins -> {"idle", "closing", "verifying"}]
    BY <1>4 DEF vars, IInv, TypeOK
  <2> QED
    BY <1>4, <2>1, AdminStep DEF vars
<1>5. CASE Restart
  BY <1>5, RestartInv
<1> QED
  BY <1>1, <1>2, <1>3, <1>4, <1>5 DEF Next, UpdateFails

\* The inductive invariant of requests, administrators and restarts.
THEOREM Invariance == Spec => []IInv
  BY InitInv, StepInv, PTL DEF Spec

\* Every variable stays in its type.
THEOREM TypeCorrect == Spec => []TypeOK
<1>1. IInv => TypeOK
  BY DEF IInv
<1> QED
  BY <1>1, Invariance, PTL

\* The current client is built from the configuration in memory (_recreate_client).
THEOREM FollowsConfig == Spec => []ClientFollowsConfig
<1>1. IInv => ClientFollowsConfig
  BY DEF IInv
<1> QED
  BY <1>1, Invariance, PTL

\* In an environment that sets nothing a restart finds what is in memory, and through
\* run.sh all of it but the keys (update_env_file before _apply_config_fields).
THEOREM FollowsFile == Spec => []ConfigFollowsFile
<1>1. IInv => ConfigFollowsFile
  BY DEF IInv
<1> QED
  BY <1>1, Invariance, PTL

\* Only a replaced client is closed under its requests (aclose).
THEOREM StaysOpen == Spec => []CurrentClientStaysOpen
<1>1. IInv => CurrentClientStaysOpen
  BY DEF IInv
<1> QED
  BY <1>1, Invariance, PTL

\* No request posts on a closed pool, whatever client it holds (_client).
THEOREM PostsOnOpenPools == Spec => NoPostOnClosedPool
<1> DEFINE A == \A r \in Requests :
          request[r].phase # "posting" /\ request'[r].phase = "posting" =>
              LET c == clients'[request'[r].client]
              IN  c.open /\ c.pools = request'[r].pool
<1>1. IInv /\ [Next]_vars => [A]_vars
  <2> SUFFICES ASSUME IInv, Next, NEW r \in Requests,
                      request[r].phase # "posting", request'[r].phase = "posting"
               PROVE  LET c == clients'[request'[r].client]
                      IN  c.open /\ c.pools = request'[r].pool
    OBVIOUS
  <2>0. DOMAIN request = Requests
    BY DEF IInv, TypeOK
  <2>1. ASSUME NEW q \in Requests, Post(q)
        PROVE  LET c == clients'[request'[r].client]
               IN  c.open /\ c.pools = request'[r].pool
    <3>1. /\ clients'[request'[q].client].open = TRUE
          /\ clients'[request'[q].client].pools = request'[q].pool
          /\ \A p \in Requests \ {q} : request'[p] = request[p]
      BY <2>1, PostInv
    <3>2. r = q
      BY <3>1
    <3> QED
      BY <3>1, <3>2
  <2>2. ASSUME NEW q \in Requests, Start(q) \/ TryAgain(q) \/ End(q) PROVE FALSE
    BY <2>0, <2>2 DEF Start, TryAgain, End, NoRequest
  <2>3. ASSUME NEW a \in Admins, NEW updates \in Updates, Update(a, updates) PROVE FALSE
    BY <2>3, UpdateInv
  <2>4. ASSUME NEW a \in Admins, CloseDone(a) \/ VerifyKey(a) \/ VerifyDone(a) \/ UpdateFails(a)
        PROVE  FALSE
    BY <2>4 DEF CloseDone, VerifyKey, VerifyDone, UpdateFails, vars
  <2>5. CASE Restart
    BY <2>5 DEF Restart, NoRequest
  <2> QED
    BY <2>1, <2>2, <2>3, <2>4, <2>5 DEF Next
<1> QED
  BY <1>1, Invariance, PTL DEF Spec, NoPostOnClosedPool
===============================================================================
