------------------------- MODULE ModelFetcher_proofs -------------------------
(* Proofs about ModelFetcher, for any number of administrators. *)
EXTENDS ModelFetcher, TLAPS

USE FetcherAssumption

\* A fetch downloads a release that exists; the background one, while alone, one
\* that is not older than the catalogue it will replace.
FetchInv ==
    /\ \A f \in Fetchers : fetch[f].version <= registry
    /\ cachedVersion <= registry /\ file.version <= registry
    /\ Admins = {} /\ fetch["task"].phase = "downloading" =>
           cachedVersion <= fetch["task"].version

IInv == TypeOK /\ VersionNamesModels /\ FileMatchesMemory /\ FetchInv

\* refresh() yields fetches of the right type and starts no download.
LEMMA RefreshType ==
    ASSUME NEW fs \in [Fetchers -> [phase : Phases, version : Versions]],
           NEW age, NEW error
    PROVE  /\ Refresh(fs, age, error) \in [Fetchers -> [phase : Phases, version : Versions]]
           /\ \A f \in Fetchers : \/ Refresh(fs, age, error)[f] = fs[f]
                                  \/ Refresh(fs, age, error)[f] = Phase("created", 0)
  BY DEF Refresh, Fetchers, Phases, Phase, Versions

\* ... when the server starts as well.
LEMMA StartType ==
    ASSUME NEW age
    PROVE  /\ Refresh(NoFetches, age, FALSE) \in [Fetchers -> [phase : Phases, version : Versions]]
           /\ \A f \in Fetchers : \/ Refresh(NoFetches, age, FALSE)[f] = Idle
                                  \/ Refresh(NoFetches, age, FALSE)[f] = Phase("created", 0)
  BY DEF Refresh, IsStale, NoFetches, Idle, Fetchers, Phases, Phase, Versions

LEMMA InitInv == Init => IInv
<1> SUFFICES ASSUME Init PROVE IInv
  OBVIOUS
<1>1. PICK data \in Loads :
         /\ cachedVersion = data.version /\ models = data.models /\ fetchedAge = data.age
         /\ fetch = Refresh(NoFetches, data.age, FALSE)
  BY DEF Init
<1>a. cachedVersion = data.version /\ models = data.models /\ fetchedAge = data.age
  BY <1>1
<1>2. registry \in Versions /\ slept = 0 /\ restarts = 0
  BY DEF Init
<1>3. file \in [version : 0..registry, models : 0..registry, age : 0..Never]
  <2>1. file \in [version : 0..registry, models : 0..registry, age : {0, Old, Never}]
    BY DEF Init, CacheFiles
  <2> QED
    BY <2>1, <1>2 DEF Versions, Old, Never
<1>4. lastError \in BOOLEAN
  BY DEF Init
<1>5. data = file \/ data = NoData
  BY <1>1 DEF Loads
<1>6. /\ data.version \in 0..registry /\ data.models \in 0..registry /\ data.age \in 0..Never
      /\ data = NoData => data.version = 0 /\ data.models = 0
  BY <1>2, <1>3, <1>5 DEF NoData, Never, Versions
<1>7. /\ fetch \in [Fetchers -> [phase : Phases, version : Versions]]
      /\ \A f \in Fetchers : fetch[f] = Idle \/ fetch[f] = Phase("created", 0)
  BY <1>1, StartType
<1>8. TypeOK
  BY <1>a, <1>2, <1>3, <1>4, <1>6, <1>7 DEF TypeOK, Versions
<1>9. FetchInv
  BY <1>a, <1>2, <1>3, <1>6, <1>7 DEF FetchInv, Idle, Phase, Versions, Fetchers
<1>10. VersionNamesModels /\ FileMatchesMemory
  BY <1>a, <1>5, <1>6 DEF VersionNamesModels, HasItsModels, FileMatchesMemory
<1> QED
  BY <1>8, <1>9, <1>10 DEF IInv

LEMMA StepInv == IInv /\ [Next]_vars => IInv'
<1> SUFFICES ASSUME IInv, [Next]_vars PROVE IInv'
  OBVIOUS
<1> USE DEF IInv, VersionNamesModels, HasItsModels, FileMatchesMemory
<1>1. CASE Restart
  <2>1. PICK data \in Loads :
           /\ cachedVersion' = data.version /\ models' = data.models /\ fetchedAge' = data.age
           /\ fetch' = Refresh(NoFetches, data.age, FALSE)
    BY <1>1 DEF Restart
  <2>a. cachedVersion' = data.version /\ models' = data.models /\ fetchedAge' = data.age
    BY <2>1
  <2>2. /\ restarts < MaxRestarts /\ restarts' = restarts + 1
        /\ lastError' \in BOOLEAN /\ slept' = 0 /\ registry' = registry /\ file' = file
    BY <1>1 DEF Restart
  <2>3. data = file \/ data = NoData
    BY <2>1 DEF Loads
  <2>4. /\ data.version \in Versions /\ data.models \in Versions /\ data.age \in 0..Never
        /\ data.version <= registry
        /\ data = NoData => data.version = 0 /\ data.models = 0
    BY <2>3 DEF NoData, Never, Versions, TypeOK, FetchInv
  <2>5. /\ fetch' \in [Fetchers -> [phase : Phases, version : Versions]]
        /\ \A f \in Fetchers : fetch'[f] = Idle \/ fetch'[f] = Phase("created", 0)
    BY <2>1, StartType
  <2>6. TypeOK'
    BY <2>a, <2>2, <2>4, <2>5 DEF TypeOK, Versions
  <2>7. FetchInv'
    BY <2>a, <2>2, <2>4, <2>5 DEF TypeOK, FetchInv, Idle, Phase, Versions, Fetchers
  <2> QED
    BY <2>a, <2>2, <2>3, <2>4, <2>6, <2>7
<1>2. CASE PeriodicRefresh
  <2> DEFINE fs == Refresh(fetch, fetchedAge, lastError)
  <2>1. /\ fs \in [Fetchers -> [phase : Phases, version : Versions]]
        /\ \A f \in Fetchers : fs[f] = fetch[f] \/ fs[f] = Phase("created", 0)
    BY RefreshType DEF TypeOK
  <2>2. fetch' = fs
    BY <1>2 DEF PeriodicRefresh
  <2> HIDE DEF fs
  <2>3. TypeOK'
    BY <1>2, <2>1, <2>2 DEF PeriodicRefresh, TypeOK
  <2>4. FetchInv'
    BY <1>2, <2>1, <2>2 DEF PeriodicRefresh, TypeOK, FetchInv, Phase, Versions, Fetchers
  <2> QED
    BY <1>2, <2>3, <2>4 DEF PeriodicRefresh
<1>3. CASE TaskCancelled
  BY <1>3 DEF TaskCancelled, TypeOK, FetchInv, Fetchers, Phases, Phase, Idle, Versions
<1>4. CASE Release
  BY <1>4 DEF Release, TypeOK, FetchInv, Fetchers, Versions
<1>5. CASE Tick
  BY <1>5 DEF Tick, Older, Old, Never, TypeOK, FetchInv, Fetchers, Versions
<1>6. ASSUME NEW a \in Admins, ForceRefresh(a) PROVE IInv'
  <2>1. TypeOK'
    <3>1. lastError' \in BOOLEAN
      BY <1>6 DEF ForceRefresh, TypeOK
    <3>2. fetch' \in [Fetchers -> [phase : Phases, version : Versions]]
      BY <1>6 DEF ForceRefresh, TypeOK, Fetchers, Phases, Phase, Versions
    <3> QED
      BY <1>6, <3>1, <3>2 DEF ForceRefresh, TypeOK
  <2>2. FetchInv'
    BY <1>6 DEF ForceRefresh, TypeOK, FetchInv, Fetchers, Phase, Versions
  <2> QED
    BY <1>6, <2>1, <2>2 DEF ForceRefresh
<1>7. ASSUME NEW f \in Fetchers, Begin(f) PROVE IInv'
  <2>1. TypeOK'
    <3>1. lastError' \in BOOLEAN
      BY <1>7 DEF Begin
    <3>2. fetch' \in [Fetchers -> [phase : Phases, version : Versions]]
      BY <1>7 DEF Begin, TypeOK, Phases, Phase, Versions
    <3> QED
      BY <1>7, <3>1, <3>2 DEF Begin, TypeOK
  <2>2. FetchInv'
    BY <1>7 DEF Begin, TypeOK, FetchInv, Fetchers, Phase, Versions
  <2> QED
    BY <1>7, <2>1, <2>2 DEF Begin
<1>8. ASSUME NEW f \in Fetchers, Answered(f) PROVE IInv'
  <2>1. TypeOK'
    BY <1>8 DEF Answered, TypeOK, Phases, Phase, Idle, Versions, Never
  <2>2. FetchInv'
    BY <1>8 DEF Answered, TypeOK, FetchInv, Fetchers, Phase, Idle, Versions
  <2> QED
    BY <1>8, <2>1, <2>2 DEF Answered
<1>9. ASSUME NEW f \in Fetchers, Downloaded(f) PROVE IInv'
  <2>1. TypeOK'
    BY <1>9 DEF Downloaded, TypeOK, Phases, Phase, Idle, Versions, Never
  <2>2. FetchInv'
    BY <1>9 DEF Downloaded, TypeOK, FetchInv, Fetchers, Phase, Idle, Versions
  <2> QED
    BY <1>9, <2>1, <2>2 DEF Downloaded
<1>10. ASSUME NEW f \in Fetchers, Failed(f) PROVE IInv'
  <2>1. TypeOK'
    BY <1>10 DEF Failed, TypeOK, Phases, Phase, Idle, Versions, Never
  <2>2. FetchInv'
    BY <1>10 DEF Failed, TypeOK, FetchInv, Fetchers, Phase, Idle, Versions
  <2> QED
    BY <1>10, <2>1, <2>2 DEF Failed
<1>11. CASE UNCHANGED vars
  BY <1>11 DEF vars, TypeOK, FetchInv
<1> QED
  BY <1>1, <1>2, <1>3, <1>4, <1>5, <1>6, <1>7, <1>8, <1>9, <1>10, <1>11 DEF Next, Advance

\* The inductive invariant: the type, the agreement of version, catalogue and file,
\* and that no fetch brings a release that does not exist.
THEOREM Invariance == Spec => []IInv
  BY InitInv, StepInv, PTL DEF Spec

\* Every variable stays in its type.
THEOREM TypeCorrect == Spec => []TypeOK
  BY Invariance, PTL DEF IInv

\* Whatever fetches overlap, are cancelled or fail, and whenever the server is
\* restarted, with a cache file it can read or not, the noted version names the
\* catalogue in memory, unless the file has a version without its models.
THEOREM VersionAgrees == Spec => []VersionNamesModels
  BY Invariance, PTL DEF IInv

\* ... and it is the version of the cache file, or none.
THEOREM FileAgrees == Spec => []FileMatchesMemory
  BY Invariance, PTL DEF IInv

\* Without administrators the catalogue is never replaced by an older one, over
\* restarts that read the cache file too.
THEOREM Monotonic == ASSUME Admins = {} PROVE Spec => NeverOlder
<1> DEFINE Rises == \/ cachedVersion' >= cachedVersion
                    \/ restarts' > restarts /\ cachedVersion' = 0
<1>1. IInv /\ [Next]_vars => [Rises]_vars
  <2> SUFFICES ASSUME IInv, Next PROVE Rises
    BY DEF IInv, TypeOK, Versions, vars
  <2>1. cachedVersion \in Nat /\ registry \in Nat
    BY DEF IInv, TypeOK, Versions
  <2>2. CASE Restart
    <3>1. PICK data \in {file, NoData} : cachedVersion' = data.version
      BY <2>2 DEF Restart, Loads
    <3>2. CASE data = NoData
      BY <2>1, <2>2, <3>1, <3>2 DEF Restart, NoData, IInv, TypeOK
    <3>3. CASE data = file
      BY <2>1, <3>1, <3>3 DEF IInv, TypeOK, Versions, FileMatchesMemory
    <3> QED
      BY <3>1, <3>2, <3>3
  <2>3. CASE PeriodicRefresh \/ TaskCancelled \/ Release \/ Tick
    BY <2>1, <2>3 DEF PeriodicRefresh, TaskCancelled, Release, Tick
  <2>4. ASSUME NEW f \in Fetchers, Advance(f) PROVE cachedVersion' >= cachedVersion
    <3>1. f = "task"
      BY <2>4 DEF Fetchers
    <3>2. fetch["task"].version \in Nat
      BY <3>1, <2>4 DEF IInv, TypeOK, Versions
    <3> QED
      BY <2>1, <2>4, <3>1, <3>2
      DEF Advance, Begin, Answered, Downloaded, Failed, IInv, FetchInv
  <2> QED
    BY <2>2, <2>3, <2>4 DEF Next
<1> QED
  BY <1>1, Invariance, PTL DEF Spec, NeverOlder
=============================================================================
