# A TLA+ model of Command Code Adapter

Command Code Adapter is an asyncio server (FastAPI, httpx) that offers the
OpenAI Chat Completions, OpenAI Responses and Anthropic Messages protocols and
translates each request to the Command Code upstream. This directory holds TLA+
modules of its parts, TLC configurations that check them on small instances, and
TLAPS proofs of the most important results for instances of every size.

Paths below are relative to the repository; `core/`, `providers/`, … stand for
`src/cc_adapter/core/`, … .

To check a run: `tlc -config MCCommandCodeClient.cfg MCCommandCodeClient`; to
check proofs: `tlapm CommandCodeClient_proofs.tla`. `PROJECT.json` lists the
runs with their modules, the source lines of every definition, the hazards and
the findings.

## 1. The system

### Concurrency

The whole server is one event loop. What runs between two `await`s (or `yield`s
of an async generator) is atomic; everything hard comes from what may happen *at*
them: another request, an administrator, the periodic loop, the end of a network
call, or a disconnection that cancels the task. An action of a model is therefore
the code from one suspension point to the next.

### Components

| component | state | operations | what makes it correct |
|---|---|---|---|
| Key pool `core/key_pool.py` | balances, time of the last fetch, last error, background task | select a key, refresh inline, refresh behind | funded keys first; a stale cache does not stay stale |
| Upstream client `command_code/client.py` | per call of `generate`: tried keys, last error, downgrade flag; one connection pool | post, fail over, drop the ZDR header once, stream events, close | no key asked for ever; gives up only after all keys; events of one answer only |
| Runtime `core/runtime.py` | current client and its configuration | replace the client | client built from the current configuration; none in use is closed but by its replacement |
| Configuration `admin/config_manager.py`, `core/config.py`, `run.sh` | environment, `.env`, memory | read, update, persist | memory, file and client agree |
| Chat stream `providers/openai/response.py` | visible flag, reasoning buffer, tool counter | one handler per event type | truthful finish, one `[DONE]` |
| Retry `core/retry.py` | withheld chunks, flushed and visible flags, attempt | withhold, flush, retry, pass on | nothing lost, doubled, reordered or mixed |
| Messages stream `providers/anthropic/response.py` | five flags and the block index | one handler per event type | a well-formed Anthropic stream |
| Responses stream `providers/openai/responses_response.py` | buffers, ids, output index, current item | one handler per event type | items one by one, final response repeats them |
| Collectors (the same three files) | lists of what was received | collect, build one answer | the same verdict as the stream, all content once |
| Request translators `providers/*/request.py`, `responses_request.py` | names of tool calls | translate a conversation, a model and its effort, a tool choice | results named after their calls, nothing lost, protocols agree, an effort the model has |
| Session extractor `providers/shared/session_extractor.py` | none | hash the opening of a conversation | the same in every turn |
| Model catalogue `core/model_fetcher.py`, `main.py` | version, catalogue, file, task, error | periodic, startup and forced refresh | version, catalogue and file agree; catches up |
| Admin router `admin/router.py` | sessions | update, verify, force, report | – |
| Model and tool mapping `providers/shared/model_mapping.py`, `tool_mapping.py`, `_build_maps` | two maps made of a release | resolve a name, clamp an effort, translate a tool choice | listed models are served, with an effort they have |
| Token recorder `core/token_recorder.py` | counts per day and model, file, tasks that have not run | record, query | no count lost but those of failed writes, none taken back once read |
| Usage client `admin/usage_client.py` | none | daily differences of snapshots | figures right up to what is spent meanwhile |
| Version checker `core/version_checker.py` | version, age, error, task | get | one fetch at a time (not modelled: the single flight of the key pool over one value) |
| Access control, logging, bodies and headers, errors, admin panel, entry point | – | – | stateless rendering, checks and pages: not modelled |

### How they interact

    client --> router --> request translator --> session extractor
                 |
                 v
          stream_with_retry  <-- chunks -- stream translator / collector
                                                 ^ events
                 runtime: current client --> CommandCodeClient.generate --> upstream
                    ^                             |
                    |                             v
             ConfigManager                     KeyPool --> credits endpoint
                    ^
      admin router -+--> ModelFetcher --> npm registry, cache file
                              ^
              startup and periodic loop (main.py)

    ModelFetcher --> model and effort maps --> request translators
    finish events --> TokenRecorder, usage file --> daily report (admin router)
                                                         ^
                              usage client, one snapshot a day boundary --> upstream

Everything is a method call or an `await`; the shared state is the key pool
(between requests), the current client (between requests and administrators), the
catalogue and the maps made of it (between the loop, administrators and requests),
the counts (between finish events and reports) and three files that outlive the
process: `.env`, the model cache and `token_usage.json`.

### What is hard here

- requests and refreshes interleave at the awaits of the pool and of the loop;
- the loop goes round over a pool whose order changes with every refresh;
- streams may fail, be cut off or be left by the client at every event, and one
  form of failure is retried behind what was already sent;
- five hand-kept flags (Messages) and an index with a current item (Responses)
  have to agree over every order of events;
- the same decision (is this response empty? what is the tool's name?) is taken
  by separate code for each protocol, streaming or not;
- fetches are cancelled, forced, overlapping; files are rewritten, or cannot be, or
  cannot be read; the process restarts, in an environment that may hold older settings;
- content and finish events may come behind a finish event, and each stream and each
  collector has its own way with them;
- a release of another package decides which names and efforts the server knows, and
  an id is resolved more than once on its way;
- a report puts together answers of different moments, on days of two time zones.

`PROJECT.json` lists these hazards at their lines.

## 2. Modules and their correspondence to the code

| module | code | actions |
|---|---|---|
| `KeyPool` | `KeyPool` | `StartBackground`, `FinishBackground` (the background `_refresh`), `Tick`; operators `Candidates`/`Selects` (`select_key`), `ApplyAnswers` (end of `_refresh`), `Triggered` (`_trigger_refresh`) |
| `CommandCodeClient` (extends `KeyPool`) | `generate` | `AwaitCredits`, `CreditsArrive`, `Choose` (from the top of the loop to the POST), `RejectKey`, `RejectZdr`, `Refuse`, `Accept`, `YieldEvent`, `EndOfStream`, `TransportError`, `Cancel` |
| `KeyFailover` | abstract: what a caller of `generate` is promised | `Ask`, `Reject`, `Downgrade`, `End` |
| `StreamRetry` | `translate_stream` and `stream_with_retry` with its detector | `Text`, `Reasoning`, `Tool`, `Finish…` (with the upstream's reason), `Error`, `End` make chunks; `Pass`, `Flush`, `Withhold`, `Retry`, `Return` deliver them; `Disconnect` |
| `AnthropicStream` | `translate_anthropic_stream` | one action per `yield` |
| `AnthropicWire` | abstract: the stream a Messages client may rely on | one action per frame type |
| `ResponsesStream` | `translate_responses_stream`, `_ResponsesStreamState` | `Continue`, `Switch`, `ToolCall`, `Finish`, `Error`, `Disconnect`, each a whole event |
| `Collectors` | the three non-streaming collectors | `Receive`, `FinishEvent`, `End`: the events of an upstream response, appended to the collector's lists; the answers made of the lists are operators |
| `Conversation` | the three request translators, the session hash | `Open`, `Say` build a conversation; `Chat`, `Messages`, `Responses`, `StableFlag` are operators |
| `ModelMapping` | `_extract_models`, `_build_maps`, `resolve_model_id`, `clamp_reasoning_effort` | `Find` reads one more model of a release and makes the maps; `Resolve`, `Supported`, `ClampTo`, `Clamp` are operators |
| `RequestTranslation` (extends `Conversation` and `ModelMapping`) | the three `_build_body`, `translate_tool_choice`, the router's `tools_available` | the steps of both; `NamedEffort`, `BudgetToEffort`, `Budgeted`, `TranslateToolChoice`, `ChatChoice`, `ToolsAvailable`, `ResponsesRefuses` are operators |
| `ModelFetcher` | `ModelFetcher`, the loop of `main.py` | `Init` and `Restart` read any cache file (`Loads`); `PeriodicRefresh`, `ForceRefresh`, `TaskCancelled`, `Begin`, `Answered`, `Downloaded`, `Failed`, `Release`, `Tick`, `Restart` |
| `ClientLifecycle` | `runtime`, `ConfigManager`, `create_client`, `_client`, `aclose`, key verification | `Start`, `Post`, `TryAgain`, `End`, `Update`, `UpdateFails`, `CloseDone`, `VerifyKey`, `VerifyDone`, `Restart` |
| `TokenRecorder` | `TokenRecorder`, `schedule_token_record` | `Finish` (a task is made), `Record` (it runs, the reading and the writing of the file succeeding or not), `Query`, `Midnight`, `Restart` |
| `DailyUsage` (extends `TokenRecorder`) | `query_daily_usage`, `admin_daily_usage` | `Ask`, `Answer`, `Report`; `Spend`, `UtcMidnight`, `LocalMidnight` are the world around it; `ServerRestart`; `Recording` are the recorder's own steps |

`MC…` modules instantiate a module for TLC; `…_proofs` modules hold the proofs.
`CommandCodeClient` composes the pool with its requests, `StreamRetry` the
translator with the retry layer, `RequestTranslation` the maps with the translators
and `DailyUsage` the recorder with the report that reads it. An operator commented "Mutant:" is a plausible bug
of the definition below it; nothing in the specification uses it. With it in place,
the property that `PROJECT.json` pairs it with is violated.

### Abstractions

- *Time* is counted in ticks and saturates where the code stops telling ages
  apart. Constants like the TTL keep their order, not their size.
- *Texts* are the number of the event or of the place they come from. This tells
  losses, repetitions and changes of order apart and nothing else; empty texts are
  kept where the code tests for them.
- *Balances* are naturals of a given set; `_credits.get(key, 1)` makes a missing
  one count as funded (`Unknown`). A failed fetch keeps the old value.
- *Key pool*: `_refresh` gathers its fetches, so its answers arrive together.
- *Failover*: what the upstream answers is not predicted: each answer is a
  choice. Rejections with 402, 429 or a credit text are one action, since the code
  treats them alike.
- *Responses*: an event is handled as a whole. A client that leaves in its
  middle has seen a prefix.
- *Collectors*: the three collectors keep the same three lists. What they answer at the
  end is a function of the lists, and the invariants compare it with what the stream
  would have passed on. Finish events are received like the others: a collector goes on
  behind them, a chat stream too unless the first was an error, the other streams leave.
- *Conversation*: what the translators compute is a function of what they were given,
  so every state is one input and the invariants compare the functions. The length of
  the input is the bound.
- *Finish chunks* of the chat stream are of three kinds: the upstream's own reason is
  `tool_calls`, only the chunk's is, neither is. Other reasons are not told apart.
- *Fetcher*: a release is a number; a release that cannot be read fails. A cache file is
  a version, the release whose models it holds (0 for none, or for models that
  `_build_maps` rejects) and an age; each may lack where the others are there, as in a file
  from elsewhere. Reading it may fail at every start.
- *Models*: an id is a provider and a short name, an effort its place in
  `_EFFORT_ORDER`, with one value for all texts that are not in it. That a model
  matches the extraction's pattern is given; what a later match does to an earlier one,
  and the order by context windows, is modelled. Efforts that the release lists but
  `_EFFORT_ORDER` does not know are left out.
- *Requests*: the conversation, the model and the tool choice of a request do not
  depend on each other in any of the translators. One of them is varied at a time.
- *Recorder*: asyncio runs tasks in the order they were made, and `record` awaits
  nothing but a lock that is then free, so a task is one step. The file is replaced
  as a whole or stays (`os.replace`). Its content may be damaged at the start, and its
  reading may fail in every process (`missed`): the code takes both for an empty file.
- *Report*: what is spent is counted in units of cost, and booked by upstream on the
  day it has then. The server is east or west of UTC; how far does not matter.
- *Lifecycle*: a configuration has two fields, one the client is built from and
  one it is not. The environment of a process is chosen at the start: settings that stay
  over restarts, as a container has them that restarts, or `Sourced`, what `run.sh` has
  the shell read from `.env` at each start. The shell takes the quotes of the JSON list of
  keys for its own; what is left of a list (`Unquoted`) is none of the values an
  administrator sets.

## 3. The runs

| run | instance | what it shows |
|---|---|---|
| `failover` | 2 requests, 2 keys, balances 0 and 1, TTL 1, backoff 0 | `ExhaustedOnlyWhenAllRejected`, `AttemptsBounded`, `NoAttemptAfterEvent`, `FundedKeysFirst`, `StaleCacheIsBeingRefreshed`; the loop over the shared pool implements `KeyFailover` (`FailoverSpec`) |
| `failover_ends` | 1 request, keys a, b, a, c, with fairness | `RequestsEnd`: the `while True` ends, a duplicate key included |
| `sticky_error` | as `failover` | violation, see below |
| `anthropic_stream` | 6 blocks, with fairness | `FlagsAgree`; the translator implements `AnthropicWire` (`WireSpec`); `StreamEnds` |
| `stream_retry` | 3 content events per attempt, with fairness | `OneDoneLast`, `EmptyErrorHidden`, `NothingLostOrReordered`, `FinishIsTruthful`, `StreamEnds` |
| `retry_mixes` | 2 events | violation, see below |
| `answers` | 6 content events with streaming, or 5 events without | `ItemsOneByOne`, `DoneEndsInItsDeltas`, `CompletedRepeatsTheStream` of the Responses stream; `SameVerdict`, `NothingLostOrDoubled` of the collectors |
| `model_fetcher` | 2 administrators, 2 releases, TTL 2, backoff 1, any cache file, one restart, with fairness | `VersionNamesModels`, `FileMatchesMemory`, `CatchesUp` |
| `requests` | conversations of 4 blocks in 3 messages with 2 ids and 2 names; releases of 3 models out of 7; 2 tools; budgets at their boundaries | `NamedAfterTheirCalls`, `NothingLostOrDoubled`, `ProtocolsAgree`, `SessionIsStable`, `EffortsFit`, `ListedModelsAreServed`, `ToolChoiceFits` |
| `client_lifecycle` | 2 requests, 2 administrators, 2 values, 3 clients of 2 pools, one restart | `ClientFollowsConfig`, `ConfigFollowsFile`, `CurrentClientStaysOpen`, `NoPostOnClosedPool` |
| `sourced_keys` | 1 request, 1 administrator, one replacement, one restart | violation, see below |
| `usage_report` | 1 model, 2 days and the next, 2 finish events, 2 units spent, both zones | `OnlyFailedWritesAreMissing`, `FileOnlyGrows`, `FiguresAreClose` |

`model_fetcher` and `usage_report` also check the type invariant of their
module. Those of `CommandCodeClient`, `AnthropicStream`, `StreamRetry`, `ResponsesStream` and `ClientLifecycle` are
proved and part of their invariants.

### Why the bounds are enough

- `failover`: two keys are the least that make a pool; with two requests all
  races on the shared state (two inline refreshes, one behind, one request choosing
  while another's answers arrive) occur, since the pool knows no more of a request.
  TTL 1 and backoff 0 make fresh, stale-after-error and stale distinct. The proofs
  take this to any number of keys and requests; only liveness stays at this size.
- `anthropic_stream`: the translator remembers five flags and an index; six blocks
  visit every combination of flags behind every other. `FlagsAgree` and `WireSpec`
  are also proved for any number.
- `stream_retry`: three events per attempt cover every pair of chunk kinds before
  a finish, and two attempts are all that the code makes.
- `answers`: a state of the run is that of a stream or of a collector, the other
  standing still, since neither knows of the other. Of six events of a stream, four make
  two items of each kind, and two more a call between them and a second delta. Five
  events of a collector hold every kind of content with two deltas of one kind
  around another, empty deltas between them, and content before and behind each of two
  finish events. Proved for any number.
- `requests`: the shortest conversation in which an id is reused takes two calls
  and a result; a fourth block is the text in front of it. Three messages are an
  opening, an answer and a later turn. Of a release's models, two share a name and one
  stands between or behind them; the seven ids are bare, of one provider or of two,
  with a built-in name or without. All seven properties are proved as well, for
  conversations and releases of any length.
- `model_fetcher`: two overlapping forced fetches beside the task, and one release
  that comes while they run. A second restart finds the same as the first. The first
  cache file is any, its version, models and time each of their own.
- `client_lifecycle`: three clients are the current one, one being closed and one
  that a request still holds from before that; a replaced client gets at most one
  more pool from each request that holds it.
- `sourced_keys`: the least in which an update of the keys is followed by a restart.
- `usage_report`: a report of two days has a day between two boundaries and one whose
  end is tomorrow. Two finish events are one whose write or read fails and one behind it, of
  the same day or the next; two units are one spent before a report and one during it. One
  model is told apart from its day by a file that has counts for the day alone. What
  concerns the recorder, and the figures of the report, is proved for any number.

Symmetry is used in `failover` (requests), `requests` (ids; names, tools) and
`client_lifecycle` (requests, administrators): none of
these modules compares or chooses among such values in its actions, and no run with
symmetry checks liveness.
`CHECK_DEADLOCK FALSE` stands where the modelled part ends: a stream that is over, a
request that is answered, an input that has reached its bound.

### Fairness, and why the code justifies it

- `failover_ends`: the event loop runs what is ready (`Proceed`,
  `StartBackground`); each wait on the network has an httpx timeout, so a refresh
  or a POST comes back somehow (`CreditsArrive`, `Answered`, `FinishBackground`) and
  a stream ends or times out (`Ended`). All weak. Which answer comes, whether a client
  leaves and whether events come are not assumed.
- `anthropic_stream`, `stream_retry`: the server drains the generator (weak
  fairness of the translator, of the delivery); an upstream that sends events for
  ever ends at some time. This one is strong, for the generator does not wait for the
  upstream while it sends what it has.
- `model_fetcher`: time passes and the loop wakes up (weak); a request is answered
  or times out (weak); a registry that is asked again and again does answer and
  deliver at last (strong): without it every fetch might fail.

## 4. Findings

Three statements of the repository are not what the code does; each is a run that
ends in a counterexample.

- `sticky_error` (`core/key_pool.py:77`). `_last_error` is cleared only where a
  refresh *starts*. Two first requests each run a refresh; the one that fails ends
  first and the other's success leaves its error. The fresh cache then counts as
  failed and is fetched again after the backoff of 60 s instead of 1800 s.
  `tests/test_key_pool.py:141` expects no error after a success.
- `retry_mixes` (`core/retry.py:31`). `_visible_seen` is set only by the chunk that
  flushes the buffer. If this is reasoning and text follows, an upstream error event
  with the text "Upstream model returned an empty response" is taken for the
  adapter's own and starts a second attempt behind visible output.
  `tests/test_response_translator.py:445` rules this out: "Once visible output has
  been sent, retrying would mix two attempts in one client stream." It takes an
  upstream (or a proxy of the same kind) that uses this very text.
- `sourced_keys` (`run.sh:10`). `.env.example:1` gives the keys as a JSON list, and an
  update writes them so (`admin/config_manager.py:71`). `run.sh` sources the file: the
  shell removes the quotes, and the environment, which goes before the file, has
  `[user_one]` for `["user_one"]`. `normalize_api_keys` cannot parse that and takes it for
  one key. A list of two, written with a space, even keeps the server from starting, since
  the shell takes the rest of the line for a command. `poetry run python -m cc_adapter`
  is not concerned.

The models also reach states that no statement of the repository speaks about; they
are hazards without a property, or in the notes of those a property covers in part:

- an older catalogue replaces a newer one when two administrators force a refresh;
- the periodic loop sleeps as long as the TTL and staleness is strict, so a catalogue
  may be fetched at every second waking only (`core/model_fetcher.py:97`);
- a request overtaken by an update leaves a pool open on a replaced client;
- a truncated upstream stream is collected as a whole answer;
- a container's settings, given by `env_file`, shadow an update after a restart of the same
  container (not through `run.sh`, which reads the file anew);
- a cache file that has not the models of its version, as only other hands write it, leaves
  the built-in catalogue in use until the next release: its version counts as fetched
  (`core/model_fetcher.py:172`);
- a usage file that cannot be read for a moment is taken for an empty one, and the next
  count replaces it (`core/token_recorder.py:35`);
- what comes behind the finish event at which a Messages or Responses stream leaves is part
  of the answer without streaming;
- a second text item of a Responses stream is closed with the text of the first in front
  of its own (`providers/openai/responses_response.py:56`);
- west of UTC, today's figure in the report holds two of upstream's days when
  tomorrow's snapshot is missing.

Read in the code and outside the models: several finish events of one stream, and the
attempts of a retry, each count as a request (`providers/openai/response.py:88`); an HTTP
error in `query_token_usage` ends the whole gathering; the report divides the first key's
costs by the tokens of all keys. The choice
`{"type": "none"}`, an object, reaches the upstream as "none" while the router takes
tools for available: `ToolChoiceFits` is stated without it.

The proof of `StreamRetry` shows a branch that is never of use: where a retry starts, the
detector has withheld nothing but the empty error itself, so that
`_BufferDetector.retry_chunks` returns nothing (lemma `RetryStep`, `core/retry.py:48`).

## 5. Proofs

`CommandCodeClient_proofs`, for every list of keys, set of requests and behaviour
of the credits endpoint. The assumptions are `KeyPoolAssumption`: the keys are a
sequence, balances are naturals, and the backoff is not longer than the TTL.

- `Invariance`: `Spec => []IInv`, with `IInv == PoolTypeOK /\ LoopInv`.
  "Exhausted only after all keys have rejected" is not inductive: the state does
  not say why a key is tried. `TriedAreRejected` does: between two attempts the
  tried keys are exactly the rejected ones, while an answer is awaited those and the
  one key asked; a downgrade takes that key out again. Lemma `OfferedTried` (the
  pool offers an excluded key only if all are excluded) then gives the result where
  the loop gives up. `PostsAreTried` counts: a key is posted as often as it is tried,
  the downgraded one once more. `OneAnswerHandedOn` keeps streaming apart from the loop.
- From it: `TypeCorrect`, `GivesUpCorrectly`, `AttemptsAreBounded`, `OneAnswerOnly`,
  `StaleCacheRefreshed`, `FundedFirst`.
- `ImplementsFailover`: `Spec => FailoverSpec`, the phases mapped by `Seen`
  (waiting for credits or for a response to close is `pending`). Steps of the pool and
  of the credits stutter.

`AnthropicStream_proofs`, for streams of any length:

- `FlagsAlwaysAgree`: `TypeOK /\ FlagsAgree` is inductive as it stands.
  `FlagsAgree` was made so: it says for each place in a handler which flags may be set.
- `ImplementsWire`: the flags are read as the stage, the open block and the index of
  the client's stream; each `yield` is one step of `AnthropicWire`.

`ModelFetcher_proofs`, for any number of administrators, releases and restarts:

- `Invariance`, `TypeCorrect`, `VersionAgrees`, `FileAgrees`: the invariant adds
  that no fetch carries a release that does not exist. Cache files are of any kind and
  starts may fail to read them; `VersionAgrees` is stated for as long as the file has the
  models of its version, which every download makes so.
- `Monotonic`: without administrators the version noted never gets older, over restarts
  too, but for a start that cannot read the file (`NeverOlder`). A fetch of the task is then
  alone, and downloads nothing older than what is noted. No run checks it: with administrators it is false.

`StreamRetry_proofs`, for streams of any length:

- `Invariance`. The properties speak of what was sent, the steps of what is withheld.
  The invariant therefore speaks of the `Line`: what was sent, is withheld and is on
  the way, as the client would get it if nothing more were made. A step of the
  translator adds to its end (`MakeOne`, `MakeTwo`); a step of the delivery leaves it as
  it is (`Moved`); a retry cuts off the empty error and the end. `Told` reads the
  translator's flags off the line, `Whole` compares it with what was made, and `Shape`
  says what the buffer can hold: nothing but the end of a stream.
- From it: `TypeCorrect`, `DoneEndsTheStream`, `FirstErrorHidden`,
  `FinishTellsTheTruth`, `AllIsDelivered`.

`Answers_proofs`, about `ResponsesStream` and `Collectors`, for answers of any length:

- `Invariance` and `TypeCorrect` of the Responses stream. Its three properties speak of
  the frames sent, what is sent next depends on the fields of `_ResponsesStreamState`. The
  invariant says how the two fit together while the stream is written (`Answering`):
  `View` reads from the frames which item is open, under which id and index, and that all
  before it have been closed in order; `Whole` says that the buffers and the calls hold
  the deltas of their kind or id, in order, and that what has been closed was closed so.
  Each event appends frames, and the lemmas on one frame more (`ViewDelta`, `ViewDone`,
  `OrderAppend`, `StreamedAppend`, ...) carry the invariant over them one by one.
  Once the stream is over the three properties are what is left of it, and they hold
  of every prefix that a client who leaves has seen.
- From it: `OneByOneAlways`, `DoneEndsAlways`, `CompletedRepeatsAlways`.
- `CollectorInvariance`, `SameVerdictAlways`, `NothingLostAlways`: what a list joins to is,
  in ascending order, the numbers of the events of its kind that have a text (`Holds`).
  The tests at the end then compare with the set of events that the stream passes on, before
  its finish or behind it, protocol by protocol.
- What the library's `FlattenSeq`, the `"".join` of the code, makes of one part more
  (`FlattenAppend`) is proved from its recursive definition.

`ClientLifecycle_proofs`, for any numbers of requests, administrators, values, updates
and restarts:

- `Invariance`: the types and the three invariants of the run are inductive once one fact
  is added: a request that has been started holds a client of this process
  (`HoldsAClient`). The environment is any, `Sourced` included; `KeysFollowFile` is not among
  them, for it is false. From it `FollowsConfig`, `FollowsFile`, `StaysOpen`.
- `PostsOnOpenPools`: the action property, from the same invariant. `PostInv` says what a
  post leaves the client's pool in; every other step begins no post.

`DailyUsage_proofs`, for any models, tokens, days and numbers of finish events:

- `Invariance` and `RecorderTypeCorrect`, `MissingCounts`, `FileGrows`: memory is the
  file and what the failed writes left out, or has its own counts alone where the file could
  not be read. `CountedPlus` (a count commutes with a sum)
  carries it over a failed write, `PlusNothing` over one that succeeds and a restart.
- `ReportsOnlyQuery`: the composed system implements the recorder's specification, so
  these results hold beside reports.
- `UsageInvariance`, `UsageTypeCorrect`, `FiguresAreAlwaysClose`, for any costs and any
  order of the answers. "Off by no more than what was spent meanwhile" says nothing of
  the answers that are still awaited. `UsageInv` does: an answer for a boundary lies
  between what had been spent since it when the report was asked for and what has been
  by now (`Told`), and the difference of the two is no greater for any boundary than for
  all days together (`SinceGrows`). That the clocks are less than a day apart and that
  nothing is booked on a day upstream has not reached makes today's figure right when
  tomorrow's snapshot is missing. The sums over days are recursive inside the library;
  `TotalRemove` and `SinceByDay` take one day out of them.

`RequestTranslation_proofs`, about `Conversation` and `ModelMapping` too, for any tables and
releases within `MappingAssumption`, which asks that lists of efforts are ascending and that no built-in
id is a short name:

- `MapsInvariance`: the maps are those of the release. `ResolvedOnce`: resolving twice is
  resolving once, which the translators rely on when they pass a resolved id to
  `clamp_reasoning_effort`. `ClampToNearest` says what the first of a list that is not below
  an effort is.
- `EffortsAlwaysFit`, `ListedAlwaysServed`, `ToolChoiceAlwaysFits`: the three properties of
  the run about models and tools.
- `ConversationInvariance`, and from it `AlwaysNamedAfterTheirCalls`, `NeverLostOrDoubled`,
  `ProtocolsAlwaysAgree`, `SessionAlwaysStable`: the four properties about conversations, for
  conversations of any length, any ids and names (`ConversationAssumption`: no tool is
  called "unknown"). A translator goes over the whole conversation anew, so the invariant of
  the steps only says what a conversation is: its messages hold what their roles say, and
  the stamp of a block is its place. The properties then follow by inductions over the
  conversation (`SeqInduction`, which takes a set in place of an operator), one message at
  a time. The loops are functions over the places of their input; `Solves` and `Value` give
  what a loop makes of one element more, once for all of them (`ValueAppend`). On that rest
  `ChatAppend`, `MessagesAppend` and `ResponsesAppend`: what a message adds to the upstream's
  messages (`ChatAdds`, `MessagesAdds`, `ResponsesAdds`), under the names noted so far
  (`NamesAfter`). Then
    - the names noted before a message are those of the latest calls before it
      (`NamesByStamp`), hence its results are named rightly and stay so (`NamedStep`);
    - a message makes each role say the same whichever translator sends it (`ChatSays`,
      `MessagesSays`, `ResponsesSays`), with blank blocks, joined texts and calls in
      messages of their own making no difference;
    - the stamps it adds are its own, each once, and none that was sent before (`ChatOnce`,
      `MessagesOnce`, `ResponsesOnce`, `CarriedMore`);
    - after an opening with text there is a user's message upstream, and later ones leave the
      first in its place (`OpeningHasUser`, `OpeningStays`).

Every invariant, action property and refinement that a passing run checks is proved. What
stays with TLC is liveness under fairness (`RequestsEnd`, `StreamEnds`, `CatchesUp`), which
the prover does not handle, and the counterexamples of the three runs that show a finding.

## 6. Not modelled, and why

- Rendering: JSON of requests and answers, headers, HTML, log lines, sampling
  parameters, tool schemas, the division of costs over models. No state depends on them.
- Parsing of a server-sent line of the upstream and of a tarball: an event, a
  release or a failure comes out.
- The texts of the model and tool tables: constants.
- Login, access keys: stateless comparisons.
- Version checker: only `get_version` is called, and it is the single flight of the key
  pool's background refresh with one value in place of balances; `refresh()`, which may
  run beside it, has no caller.
- `query_token_usage`: gathers answers and keeps none.
- Static files, pages and shutdown of the application.

## 7. Plan

Done, in this order: `KeyPool`, `CommandCodeClient`, `KeyFailover` and their proofs;
`StreamRetry`; `AnthropicStream`, `AnthropicWire` and their proofs; `ResponsesStream`;
`ModelFetcher` and its proofs; `Collectors`; `Conversation`; `ClientLifecycle`; then
`TokenRecorder` and `DailyUsage`, `ModelMapping` and `RequestTranslation`, and the proofs of
`ClientLifecycle`, `StreamRetry` and of all four of these; at last the proofs of
`ResponsesStream`, of `Collectors`, of the daily report and of `Conversation`.

Left: `CommandCodeClient` over a pool whose client is replaced under it, the composition
with `ClientLifecycle`, should the two come to share state.
