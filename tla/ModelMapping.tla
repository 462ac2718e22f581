----------------------------- MODULE ModelMapping -----------------------------
(***************************************************************************)
(* What a model is called upstream and how hard it may think: the maps     *)
(* that ModelFetcher builds from a release (_extract_models and            *)
(* _build_maps in src/cc_adapter/core/model_fetcher.py) and the functions  *)
(* that look them up (resolve_model_id and clamp_reasoning_effort in       *)
(* src/cc_adapter/providers/shared/model_mapping.py).                      *)
(*                                                                         *)
(* The state is the list of the models found in a release, which grows     *)
(* with every match of the extraction; each state is a release.  An id is  *)
(* a provider, or None, and a short name.  An effort is its place in       *)
(* _EFFORT_ORDER, "off" being 0.                                           *)
(***************************************************************************)
EXTENDS Naturals, Sequences, SequencesExt

CONSTANTS
    None,          \* no provider, no effort, no list
    Found,         \* the ids that occur in releases
    StaticMap,     \* the built-in MODEL_PROVIDER_MAP: short names to ids
    StaticEfforts, \* the built-in MODEL_REASONING_EFFORTS_MAP: ids to lists
    Lists,         \* the lists of efforts that occur in releases
    Highest,       \* the last place of _EFFORT_ORDER
    MaxEntries     \* bound: models in a release

Efforts == 0..Highest
Unknown == Highest + 1    \* a text that is not in _EFFORT_ORDER
Ascending(list) == \A i, j \in DOMAIN list : i < j => list[i] < list[j]

Id(provider, short) == [provider |-> provider, short |-> short]

BuiltIn == Range(StaticMap)

\* Lists of efforts are ascending, those built in and, as far as releases are
\* known, theirs.  The ids of the static map are no short names, neither its own nor
\* of a provider's model.
ASSUME MappingAssumption ==
    /\ Highest \in Nat /\ MaxEntries \in Nat /\ None \notin Nat
    /\ Lists \subseteq { list \in Seq(Efforts) : list # <<>> /\ Ascending(list) }
    /\ None \notin Lists
    /\ StaticMap \in [DOMAIN StaticMap -> BuiltIn]
    /\ StaticEfforts \in [DOMAIN StaticEfforts -> Lists]
    /\ \A id \in Found \cup BuiltIn : id = Id(id.provider, id.short)
    /\ \A b \in BuiltIn : b.provider = None =>
          /\ b.short \notin DOMAIN StaticMap
          /\ \A id \in Found : id.provider # None => id.short # b.short

VARIABLES
    entries,          \* the release: its models in order of their context windows
    providerMap,      \* MODEL_PROVIDER_MAP: names to ids
    reasoningEfforts  \* MODEL_REASONING_EFFORTS_MAP: ids to lists

mappingVars == <<entries, providerMap, reasoningEfforts>>

-----------------------------------------------------------------------------
(* The maps *)

\* The last of a release's entries that passes a test: it overwrites those before.
LastEntry(es, Test(_)) ==
    es[CHOOSE i \in DOMAIN es :
        Test(es[i]) /\ \A j \in DOMAIN es : Test(es[j]) => j <= i]

\* canonical_id: a provider's model that has a built-in name keeps it.
Canonical(id) ==
    IF id.provider # None /\ id.short \in DOMAIN StaticMap THEN StaticMap[id.short] ELSE id

\* Names: the release's, then the built-in ones that are left.
NamesOf(es) ==
    LET shorts == { e.id.short : e \in Range(es) }
    IN  [s \in shorts \cup DOMAIN StaticMap |->
            IF s \in shorts THEN Canonical(LastEntry(es, LAMBDA e : e.id.short = s).id)
            ELSE StaticMap[s]]

Rated(es) == { e \in Range(es) : e.efforts # None }

\* Mutant: the built-in efforts win over the release's.
EffortsOfStaticFirst(es) ==
    LET rated == { Canonical(e.id) : e \in Rated(es) }
    IN  [c \in rated \cup DOMAIN StaticEfforts |->
            IF c \in DOMAIN StaticEfforts THEN StaticEfforts[c]
            ELSE LastEntry(es, LAMBDA e : e.efforts # None /\ Canonical(e.id) = c).efforts]

\* The lists of efforts, the same way, by the ids that names lead to.
EffortsOf(es) ==
    LET rated == { Canonical(e.id) : e \in Rated(es) }
    IN  [c \in rated \cup DOMAIN StaticEfforts |->
            IF c \in rated
            THEN LastEntry(es, LAMBDA e : e.efforts # None /\ Canonical(e.id) = c).efforts
            ELSE StaticEfforts[c]]

\* _build_maps and refresh_maps.
BuildMaps(es) ==
    /\ entries' = es
    /\ providerMap' = NamesOf(es)
    /\ reasoningEfforts' = EffortsOf(es)

-----------------------------------------------------------------------------
(* The extraction *)

\* What one match leaves of the release: an id found before is kept, unless it had no
\* efforts and now has.
ModelsLeft(id, efforts) ==
    LET found == { i \in DOMAIN entries : entries[i].id = id }
    IN  IF found = {} THEN {entries}
        ELSE { RemoveAt(entries, i) :
                 i \in { j \in found : entries[j].efforts = None /\ efforts # None } }

\* Its context window decides on its place.
Find(id, efforts, place) ==
    \E others \in ModelsLeft(id, efforts) :
        /\ place \in 0..Len(others)
        /\ BuildMaps(InsertAt(others, place + 1, [id |-> id, efforts |-> efforts]))

\* Until a release has been read, the built-in maps are in use.
MappingInit ==
    /\ entries = <<>>
    /\ providerMap = StaticMap
    /\ reasoningEfforts = StaticEfforts

MappingNext ==
    /\ Len(entries) < MaxEntries
    /\ \E id \in Found, efforts \in Lists \cup {None}, place \in 0..MaxEntries :
          Find(id, efforts, place)

MappingSpec == MappingInit /\ [][MappingNext]_mappingVars

-----------------------------------------------------------------------------
(* Looking up *)

\* resolve_model_id.  No key of the map has a provider.
Resolve(id) ==
    IF id.provider = None /\ id.short \in DOMAIN providerMap
    THEN providerMap[id.short] ELSE id

Supported(id) ==
    IF id \in DOMAIN reasoningEfforts THEN reasoningEfforts[id] ELSE None

\* The effort of a list that a request for an effort gets: the first that is not
\* below it, or else the last.
ClampTo(list, effort) ==
    IF effort = 0 \/ effort \in Range(list) THEN effort
    ELSE LET higher == { i \in DOMAIN list : effort # Unknown /\ list[i] >= effort }
         IN  IF higher = {} THEN list[Len(list)]
             ELSE list[CHOOSE i \in higher : \A j \in higher : i <= j]

\* clamp_reasoning_effort: the model is resolved, once more where its caller has
\* done so.
Clamp(id, effort) ==
    LET supported == Supported(Resolve(id))
    IN  IF effort = None \/ supported = None THEN None ELSE ClampTo(supported, effort)

-----------------------------------------------------------------------------

\* A provider's model is served under the id it is listed by, with the efforts of its
\* release, unless that id is not its built-in one, or another model of the release
\* goes by it.
ListedModelsAreServed ==
    \A e \in Range(entries) :
        /\ e.id.provider # None /\ Canonical(e.id) = e.id
        /\ \A f \in Range(entries) : Canonical(f.id) = e.id => f = e
        => /\ Resolve(e.id) = e.id
           /\ e.efforts # None => Supported(e.id) = e.efforts
=============================================================================
