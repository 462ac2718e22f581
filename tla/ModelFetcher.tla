----------------------------- MODULE ModelFetcher -----------------------------
(***************************************************************************)
(* ModelFetcher (src/cc_adapter/core/model_fetcher.py), the model          *)
(* catalogue of the server: taken from the latest npm release of the       *)
(* upstream's command-line tool, kept in memory and in a cache file,       *)
(* refreshed by the periodic loop of the application                       *)
(* (src/cc_adapter/main.py) and on demand by an administrator.             *)
(*                                                                         *)
(* A fetch is a coroutine suspended twice: while the registry is asked for *)
(* the latest version, and while that release is downloaded.  What it does *)
(* after the last await (extracting, writing the file, updating the maps)  *)
(* is one step.  The catalogue is its version: 0 is the one built into the *)
(* program.                                                                *)
(***************************************************************************)
EXTENDS Naturals

CONSTANTS
    Admins,      \* requests of POST /admin/api/models/refresh
    TTL,         \* NPM_CACHE_TTL, also the sleep of the periodic loop
    Backoff,     \* NPM_ERROR_BACKOFF
    MaxVersion,  \* bound: releases of the tool
    MaxRestarts  \* bound: restarts of the server

ASSUME FetcherAssumption ==
    /\ TTL \in Nat /\ Backoff \in Nat /\ Backoff < TTL
    /\ MaxVersion \in Nat /\ MaxRestarts \in Nat
    /\ "task" \notin Admins

Fetchers == Admins \cup {"task"}
Versions == 0..MaxVersion

\* Ages are told apart up to the TTL; a catalogue never fetched has none.
Old   == TTL + 1
Never == TTL + 2

VARIABLES
    registry,      \* the latest release
    cachedVersion, \* _cached_version, 0 for None
    models,        \* _models_data and the maps: the release they were built from
    fetchedAge,    \* time since _fetched_at
    lastError,     \* _last_error is set
    fetch,         \* each fetch: the task of _fetch_task, or an administrator's
    file,          \* the cache file: the version it names, the release its models
                   \* build, 0 for none, and the age of its fetched_at
    slept,         \* how long the periodic loop has slept
    restarts

vars == <<registry, cachedVersion, models, fetchedAge, lastError, fetch, file,
          slept, restarts>>

Phases == {"idle", "created", "cancelling", "asking", "downloading"}

Phase(phase, version) == [phase |-> phase, version |-> version]
Idle == Phase("idle", 0)

\* Every variable stays in its type.
TypeOK ==
    /\ registry \in Versions /\ cachedVersion \in Versions /\ models \in Versions
    /\ fetchedAge \in 0..Never /\ lastError \in BOOLEAN
    /\ fetch \in [Fetchers -> [phase : Phases, version : Versions]]
    /\ file \in [version : Versions, models : Versions, age : 0..Never]
    /\ slept \in 0..TTL /\ restarts \in 0..MaxRestarts

-----------------------------------------------------------------------------

Running(f) == fetch[f].phase # "idle"

\* Mutant: what was never fetched is not stale.
StaleOnceFetched(age, error) ==
    age # Never /\ age > (IF error THEN Backoff ELSE TTL)

IsStale(age, error) ==
    age = Never \/ age > (IF error THEN Backoff ELSE TTL)

\* refresh(): the fetches once it has been called.
Refresh(fs, age, error) ==
    IF IsStale(age, error) /\ fs["task"].phase = "idle"
    THEN [fs EXCEPT !["task"] = Phase("created", 0)]
    ELSE fs

NoFetches == [f \in Fetchers |-> Idle]

\* A cache file names a version, has models and a time, or is one of those that
\* _load_cache accepts and no fetch writes: no models for the version it names, or
\* models that _build_maps rejects, models of no or another version, no valid time.
NoData == [version |-> 0, models |-> 0, age |-> Never]
CacheFiles(latest) == [version : 0..latest, models : 0..latest, age : {0, Old, Never}]

\* _load_cache(): what the file has, or nothing when there is none or the read or the
\* parsing of it fails; what it lacks stays as built in.
Loads == {file, NoData}

\* The server starts with the built-in catalogue or that of the cache file, and
\* calls refresh() (the startup part of lifespan).
Init ==
    /\ registry \in Versions \ {0}
    /\ file \in CacheFiles(registry)
    /\ \E data \in Loads :
          /\ cachedVersion = data.version /\ models = data.models
          /\ fetchedAge = data.age
          /\ fetch = Refresh(NoFetches, data.age, FALSE)
    /\ lastError = FALSE
    /\ slept = 0 /\ restarts = 0

\* A crash or a stop of the process, and its next start: memory and fetches are
\* lost, the file is read again.
Restart ==
    /\ restarts < MaxRestarts /\ restarts' = restarts + 1
    /\ \E data \in Loads :
          /\ cachedVersion' = data.version /\ models' = data.models
          /\ fetchedAge' = data.age
          /\ fetch' = Refresh(NoFetches, data.age, FALSE)
    /\ lastError' = FALSE
    /\ slept' = 0
    /\ UNCHANGED <<registry, file>>

\* Mutant: the sleep is not started again.
PeriodicNotReset ==
    /\ slept >= TTL /\ slept' = slept + 1
    /\ fetch' = Refresh(fetch, fetchedAge, lastError)
    /\ UNCHANGED <<registry, cachedVersion, models, fetchedAge, lastError, file, restarts>>

\* The loop of lifespan wakes up after its sleep.
PeriodicRefresh ==
    /\ slept = TTL /\ slept' = 0
    /\ fetch' = Refresh(fetch, fetchedAge, lastError)
    /\ UNCHANGED <<registry, cachedVersion, models, fetchedAge, lastError, file, restarts>>

\* force_refresh(): the running task is cancelled and awaited first.
ForceRefresh(a) ==
    /\ ~Running(a)
    /\ IF Running("task")
       THEN /\ fetch' = [fetch EXCEPT !["task"] = Phase("cancelling", 0),
                                      ![a] = Phase("cancelling", 0)]
            /\ UNCHANGED lastError
       ELSE /\ fetch' = [fetch EXCEPT ![a] = Phase("asking", 0)]
            /\ lastError' = FALSE
    /\ UNCHANGED <<registry, cachedVersion, models, fetchedAge, file, slept, restarts>>

\* The cancelled task is done; who awaited it goes on.
TaskCancelled ==
    /\ fetch["task"].phase = "cancelling"
    /\ fetch' = [f \in Fetchers |->
                   IF fetch[f].phase # "cancelling" THEN fetch[f]
                   ELSE IF f = "task" THEN Idle ELSE Phase("created", 0)]
    /\ UNCHANGED <<registry, cachedVersion, models, fetchedAge, lastError, file, slept, restarts>>

\* The first step of _fetch_and_update.
Begin(f) ==
    /\ fetch[f].phase = "created"
    /\ fetch' = [fetch EXCEPT ![f] = Phase("asking", 0)]
    /\ lastError' = FALSE
    /\ UNCHANGED <<registry, cachedVersion, models, fetchedAge, file, slept, restarts>>

\* Mutant: the version is noted when the registry tells it.
AnsweredNoted(f) ==
    /\ fetch[f].phase = "asking"
    /\ IF f = "task" /\ cachedVersion = registry /\ fetchedAge # Never
       THEN fetchedAge' = 0 /\ fetch' = [fetch EXCEPT ![f] = Idle]
       ELSE /\ fetch' = [fetch EXCEPT ![f] = Phase("downloading", registry)]
            /\ UNCHANGED fetchedAge
    /\ cachedVersion' = registry
    /\ UNCHANGED <<registry, models, lastError, file, slept, restarts>>

\* The registry answers.  A release that is cached is not downloaded again unless
\* an administrator forces it.
Answered(f) ==
    /\ fetch[f].phase = "asking"
    /\ IF f = "task" /\ cachedVersion = registry /\ fetchedAge # Never
       THEN fetchedAge' = 0 /\ fetch' = [fetch EXCEPT ![f] = Idle]
       ELSE /\ fetch' = [fetch EXCEPT ![f] = Phase("downloading", registry)]
            /\ UNCHANGED fetchedAge
    /\ UNCHANGED <<registry, cachedVersion, models, lastError, file, slept, restarts>>

Downloaded(f) ==
    /\ fetch[f].phase = "downloading"
    /\ file' = [version |-> fetch[f].version, models |-> fetch[f].version, age |-> 0]
    /\ models' = fetch[f].version /\ cachedVersion' = fetch[f].version
    /\ fetchedAge' = 0
    /\ fetch' = [fetch EXCEPT ![f] = Idle]
    /\ UNCHANGED <<registry, lastError, slept, restarts>>

\* Mutant: the maps are built before the file is written.
FailedAfterMaps(f) ==
    /\ fetch[f].phase \in {"asking", "downloading"}
    /\ lastError' = TRUE /\ fetchedAge' = 0
    /\ IF fetch[f].phase = "downloading"
       THEN models' = fetch[f].version /\ cachedVersion' = fetch[f].version
       ELSE UNCHANGED <<models, cachedVersion>>
    /\ fetch' = [fetch EXCEPT ![f] = Idle]
    /\ UNCHANGED <<registry, file, slept, restarts>>

\* Either request fails, the release holds no catalogue, or the file cannot be
\* written: only the time and the error are noted.
Failed(f) ==
    /\ fetch[f].phase \in {"asking", "downloading"}
    /\ lastError' = TRUE /\ fetchedAge' = 0
    /\ fetch' = [fetch EXCEPT ![f] = Idle]
    /\ UNCHANGED <<registry, cachedVersion, models, file, slept, restarts>>

\* The tool is released.
Release ==
    /\ registry < MaxVersion /\ registry' = registry + 1
    /\ UNCHANGED <<cachedVersion, models, fetchedAge, lastError, fetch, file, slept, restarts>>

Older(age) == IF age < Old THEN age + 1 ELSE age

Tick ==
    /\ slept < TTL /\ slept' = slept + 1
    /\ fetchedAge' = Older(fetchedAge)
    /\ file' = [file EXCEPT !.age = Older(@)]
    /\ UNCHANGED <<registry, cachedVersion, models, lastError, fetch, restarts>>

Advance(f) == Begin(f) \/ Answered(f) \/ Downloaded(f) \/ Failed(f)

Next ==
    \/ Restart \/ PeriodicRefresh \/ TaskCancelled \/ Release \/ Tick
    \/ \E a \in Admins : ForceRefresh(a)
    \/ \E f \in Fetchers : Advance(f)

Spec == Init /\ [][Next]_vars

\* Time passes, the event loop runs what is ready, every request is answered or
\* times out, and a registry that is asked again and again answers at last.
FairSpec ==
    /\ Spec
    /\ WF_vars(Tick) /\ WF_vars(PeriodicRefresh) /\ WF_vars(TaskCancelled)
    /\ \A f \in Fetchers : WF_vars(Advance(f)) /\ SF_vars(Answered(f)) /\ SF_vars(Downloaded(f))

-----------------------------------------------------------------------------

HasItsModels(data) == data.models = data.version

\* A version is noted only with its catalogue, unless the cache file itself has one
\* without the other: the next refresh would find the version unchanged and keep the
\* wrong catalogue.
VersionNamesModels == HasItsModels(file) => models = cachedVersion

\* The version noted is the one a restart would find: a fetch that fails in the middle,
\* in writing the file too, leaves both as they were.  Only a process that could not
\* read the file knows of none, until its first download.
FileMatchesMemory == cachedVersion \in {file.version, 0}

\* The background fetches alone never replace a catalogue by that of an older
\* release, for no two of them overlap; only a start that cannot read the file falls
\* back to the built-in one.
NeverOlder ==
    [][\/ cachedVersion' >= cachedVersion
       \/ restarts' > restarts /\ cachedVersion' = 0]_vars

\* When no further release comes out, the catalogue gets up to date and stays so, if
\* the first cache file has the models of the version it names.
CatchesUp == HasItsModels(file) => <>[](models = registry)
=============================================================================
