-------------------------- MODULE CommandCodeClient --------------------------
(***************************************************************************)
(* CommandCodeClient.generate (src/cc_adapter/command_code/client.py): the *)
(* failover loop one request runs over the configured keys, for several    *)
(* requests that share the key pool.                                       *)
(*                                                                         *)
(* A request is suspended only where generate awaits: the inline credits   *)
(* refresh, the upstream's answer, the upstream's events, and the closing  *)
(* of a response before the loop goes round.  A client that disconnects    *)
(* cancels the request at any of these.                                    *)
(***************************************************************************)
EXTENDS KeyPool

CONSTANT Requests   \* the client requests, each one call of generate

Final == {"served", "refused", "exhausted", "unconfigured", "broken", "cancelled"}

Phases == {"idle", "refreshing", "sent", "streaming", "closing"} \cup Final

VARIABLES
    phase,      \* where each request is suspended, or how it ended
    key,        \* the key of its latest attempt, "none" before the first
    tried,      \* tried_keys
    rejected,   \* history: the keys whose answer was retryable
    errored,    \* last_error is set
    downgraded, \* zdr_downgraded
    yielded,    \* history: an upstream event was handed to the translator
    posts       \* history: how often each key was posted with

requestVars == <<phase, key, tried, rejected, errored, downgraded, yielded, posts>>
vars == <<poolVars, requestVars>>

ClientTypeOK ==
    /\ phase \in [Requests -> Phases]
    /\ key \in [Requests -> Keys \cup {"none"}]
    /\ tried \in [Requests -> SUBSET Keys]
    /\ rejected \in [Requests -> SUBSET Keys]
    /\ errored \in [Requests -> BOOLEAN]
    /\ downgraded \in [Requests -> BOOLEAN]
    /\ yielded \in [Requests -> BOOLEAN]
    /\ posts \in [Requests -> [Keys -> Nat]]

\* Every variable stays in its type: the pool's cache and each request's state.
TypeOK == PoolTypeOK /\ ClientTypeOK

Init ==
    /\ PoolInit
    /\ phase = [r \in Requests |-> "idle"]
    /\ key = [r \in Requests |-> "none"]
    /\ tried = [r \in Requests |-> {}]
    /\ rejected = [r \in Requests |-> {}]
    /\ errored = [r \in Requests |-> FALSE]
    /\ downgraded = [r \in Requests |-> FALSE]
    /\ yielded = [r \in Requests |-> FALSE]
    /\ posts = [r \in Requests |-> [k \in Keys |-> 0]]

-----------------------------------------------------------------------------

EndAs(r, how) == phase' = [phase EXCEPT ![r] = how]

\* The key the loop gets: the pool's choice, or the only key.
Offers(r, balance, k) ==
    IF Pooled THEN Selects(balance, tried[r], k) ELSE k = KeyList[1]

Send(r, k) ==
    /\ EndAs(r, "sent")
    /\ key' = [key EXCEPT ![r] = k]
    /\ tried' = [tried EXCEPT ![r] = @ \cup {k}]
    /\ posts' = [posts EXCEPT ![r][k] = @ + 1]

\* Mutant: offered a tried key, the loop goes round instead of raising.
AttemptOrWait(r, balance) ==
    \/ /\ KeyList = <<>> \/ \E k \in tried[r] : Offers(r, balance, k)
       /\ EndAs(r, "closing")
       /\ UNCHANGED <<key, tried, posts>>
    \/ \E k \in Keys \ tried[r] : Offers(r, balance, k) /\ Send(r, k)

\* The loop body from the chosen key to the POST, given the balances it reads.
Attempt(r, balance) ==
    \/ /\ KeyList = <<>> \/ \E k \in tried[r] : Offers(r, balance, k)
       /\ EndAs(r, IF errored[r] THEN "exhausted" ELSE "unconfigured")
       /\ UNCHANGED <<key, tried, posts>>
    \/ \E k \in Keys \ tried[r] : Offers(r, balance, k) /\ Send(r, k)

\* Start or go round the loop.  The very first selection of the pool waits for
\* the credits, each request with a refresh of its own.
AwaitCredits(r) ==
    /\ phase[r] \in {"idle", "closing"}
    /\ Pooled /\ NeverFetched
    /\ EndAs(r, "refreshing")
    /\ lastError' = FALSE
    /\ UNCHANGED <<credits, age, background, key, tried, rejected, errored,
                   downgraded, yielded, posts>>

\* Later selections use the cache as it is and have it refreshed behind.
Choose(r) ==
    /\ phase[r] \in {"idle", "closing"}
    /\ Pooled => ~NeverFetched
    /\ Attempt(r, credits)
    /\ background' = IF Pooled THEN Triggered ELSE background
    /\ UNCHANGED <<credits, age, lastError, rejected, errored, downgraded, yielded>>

\* Mutant: the choice reads the balances from before the await.
CreditsArriveUnread(r) ==
    /\ phase[r] = "refreshing"
    /\ \E answer \in Answers : ApplyAnswers(answer)
    /\ Attempt(r, credits)
    /\ UNCHANGED <<background, rejected, errored, downgraded, yielded>>

\* The request's own refresh returns and it goes on to choose, in one step.
CreditsArrive(r) ==
    /\ phase[r] = "refreshing"
    /\ \E answer \in Answers :
          /\ ApplyAnswers(answer)
          /\ Attempt(r, Applied(answer))
    /\ UNCHANGED <<background, rejected, errored, downgraded, yielded>>

\* Mutant: the key is discarded from the tried ones, as on a downgrade.
RejectKeyDiscarded(r) ==
    /\ phase[r] = "sent"
    /\ EndAs(r, "closing")
    /\ rejected' = [rejected EXCEPT ![r] = @ \cup {key[r]}]
    /\ errored' = [errored EXCEPT ![r] = TRUE]
    /\ tried' = [tried EXCEPT ![r] = @ \ {key[r]}]
    /\ UNCHANGED <<poolVars, key, downgraded, yielded, posts>>

\* 402, 429, or 400 with an insufficient-credits text: try the next key.
RejectKey(r) ==
    /\ phase[r] = "sent"
    /\ EndAs(r, "closing")
    /\ rejected' = [rejected EXCEPT ![r] = @ \cup {key[r]}]
    /\ errored' = [errored EXCEPT ![r] = TRUE]
    /\ UNCHANGED <<poolVars, key, tried, downgraded, yielded, posts>>

\* Mutant: the downgrade is not limited to one.
RejectZdrAgain(r) ==
    /\ phase[r] = "sent"
    /\ EndAs(r, "closing")
    /\ downgraded' = [downgraded EXCEPT ![r] = TRUE]
    /\ tried' = [tried EXCEPT ![r] = @ \ {key[r]}]
    /\ UNCHANGED <<poolVars, key, rejected, errored, yielded, posts>>

\* The model has no zero-data-retention upstream: once, go on without the header.
RejectZdr(r) ==
    /\ phase[r] = "sent"
    /\ ~downgraded[r]
    /\ EndAs(r, "closing")
    /\ downgraded' = [downgraded EXCEPT ![r] = TRUE]
    /\ tried' = [tried EXCEPT ![r] = @ \ {key[r]}]
    /\ UNCHANGED <<poolVars, key, rejected, errored, yielded, posts>>

\* Any other error status, the ZDR one a second time included, is raised.
Refuse(r) ==
    /\ phase[r] = "sent"
    /\ EndAs(r, "refused")
    /\ UNCHANGED <<poolVars, key, tried, rejected, errored, downgraded, yielded, posts>>

Accept(r) ==
    /\ phase[r] = "sent"
    /\ EndAs(r, "streaming")
    /\ UNCHANGED <<poolVars, key, tried, rejected, errored, downgraded, yielded, posts>>

YieldEvent(r) ==
    /\ phase[r] = "streaming"
    /\ yielded' = [yielded EXCEPT ![r] = TRUE]
    /\ UNCHANGED <<poolVars, phase, key, tried, rejected, errored, downgraded, posts>>

EndOfStream(r) ==
    /\ phase[r] = "streaming"
    /\ EndAs(r, "served")
    /\ UNCHANGED <<poolVars, key, tried, rejected, errored, downgraded, yielded, posts>>

\* Mutant: a transport error goes to the next key, wherever it happens.
TransportErrorRetried(r) ==
    /\ phase[r] \in {"sent", "streaming", "closing"}
    /\ EndAs(r, "closing")
    /\ UNCHANGED <<poolVars, key, tried, rejected, errored, downgraded, yielded, posts>>

\* httpx.TimeoutException and httpx.RequestError, wherever the try block waits.
TransportError(r) ==
    /\ phase[r] \in {"sent", "streaming", "closing"}
    /\ EndAs(r, "broken")
    /\ UNCHANGED <<poolVars, key, tried, rejected, errored, downgraded, yielded, posts>>

\* The client disconnects and the request's task is cancelled where it waits; a
\* cancelled refresh leaves _last_fetch as it was.
Cancel(r) ==
    /\ phase[r] \in {"refreshing", "sent", "streaming", "closing"}
    /\ EndAs(r, "cancelled")
    /\ UNCHANGED <<poolVars, key, tried, rejected, errored, downgraded, yielded, posts>>

Request(r) ==
    \/ AwaitCredits(r) \/ Choose(r) \/ CreditsArrive(r)
    \/ RejectKey(r) \/ RejectZdr(r) \/ Refuse(r) \/ Accept(r)
    \/ YieldEvent(r) \/ EndOfStream(r) \/ TransportError(r) \/ Cancel(r)

Pool == (StartBackground \/ FinishBackground \/ Tick) /\ UNCHANGED requestVars

Next == Pool \/ \E r \in Requests : Request(r)

Spec == Init /\ [][Next]_vars

\* Nothing waits for ever: the loop runs what is ready, every wait on the network
\* has a timeout, and an answer has an end.  Arrival, events, disconnections and
\* the choice between the upstream's answers are not assumed.
Proceed(r) == phase[r] # "idle" /\ (AwaitCredits(r) \/ Choose(r))
Answered(r) == RejectKey(r) \/ RejectZdr(r) \/ Refuse(r) \/ Accept(r)
                  \/ (phase[r] = "sent" /\ TransportError(r))
Ended(r) == EndOfStream(r) \/ (phase[r] = "streaming" /\ TransportError(r))

Fairness ==
    /\ \A r \in Requests : /\ WF_vars(Proceed(r))
                           /\ WF_vars(CreditsArrive(r))
                           /\ WF_vars(Answered(r))
                           /\ WF_vars(Ended(r))
    /\ WF_vars(StartBackground /\ UNCHANGED requestVars)
    /\ WF_vars(FinishBackground /\ UNCHANGED requestVars)

FairSpec == Spec /\ Fairness

-----------------------------------------------------------------------------
(* What the loop promises. *)

\* A request fails with the upstream's out-of-credit error only after each
\* configured key has answered with one, whatever refreshes and downgrades came
\* between (client.py:148-151 raises as soon as the pool offers a tried key).
ExhaustedOnlyWhenAllRejected ==
    \A r \in Requests : phase[r] = "exhausted" => rejected[r] = Keys

\* "CC_ADAPTER_CC_API_KEY is not configured" is never reported while a key is
\* configured: client.py:151 cannot be reached.
ConfiguredKeysAreUsed ==
    \A r \in Requests : phase[r] = "unconfigured" => Keys = {}

\* However the balances move under it, a request posts at most once per key and
\* once more for its single ZDR downgrade.
AttemptsBounded ==
    \A r \in Requests : \A j, k \in Keys :
        /\ posts[r][k] <= 2
        /\ posts[r][j] = 2 /\ posts[r][k] = 2 => j = k

\* Once an event of an answer has been handed on, the request never posts again:
\* the client sees events of one upstream answer only.
NoAttemptAfterEvent ==
    [][\A r \in Requests : yielded[r] => posts'[r] = posts[r]]_vars

\* A key known to be out of credit is posted with only when every key still open
\* is, by the balances in the cache when the step ends (its own refresh included).
FundedKeysFirst ==
    [][\A r \in Requests : \A k \in Keys :
          Pooled /\ posts'[r][k] > posts[r][k] /\ credits'[k] = 0
             => \A j \in Keys \ tried[r] : credits'[j] = 0]_vars

\* A request that posts by a stale cache leaves a refresh scheduled or running.
StaleCacheIsBeingRefreshed ==
    [][\A r \in Requests :
          Pooled /\ posts'[r] # posts[r] /\ IsStale' => background' # "idle"]_vars

\* A refresh that brought balances in leaves no error behind it
\* (tests/test_key_pool.py:141 asserts _last_error is None after one).
SuccessLeavesNoError == [][credits' # credits => ~lastError']_vars

\* A request that has begun comes to an end.
RequestsEnd == \A r \in Requests : phase[r] # "idle" ~> phase[r] \in Final

\* The inductive invariant: while the loop is between two attempts the tried keys
\* are exactly those that rejected the request; while it waits for an answer, those
\* and the key asked; last_error tells whether there is one; and the posts are the
\* tried keys, the one that was downgraded counted twice.
TriedAreRejected ==
    \A r \in Requests :
        /\ rejected[r] \subseteq tried[r]
        /\ phase[r] \in {"idle", "refreshing", "closing"} => tried[r] = rejected[r]
        /\ phase[r] = "sent" => /\ key[r] \in tried[r] \ rejected[r]
                               /\ tried[r] = rejected[r] \cup {key[r]}
        /\ errored[r] <=> rejected[r] # {}

OneAnswerHandedOn ==
    \A r \in Requests : yielded[r] => phase[r] \in {"streaming"} \cup Final

PostsAreTried ==
    \A r \in Requests :
        LET once(k) == IF k \in tried[r] THEN 1 ELSE 0
        IN  IF downgraded[r]
            THEN \E z \in Keys : \A k \in Keys :
                    posts[r][k] = once(k) + (IF k = z THEN 1 ELSE 0)
            ELSE \A k \in Keys : posts[r][k] = once(k)

LoopInv ==
    /\ ClientTypeOK /\ TriedAreRejected /\ OneAnswerHandedOn /\ PostsAreTried
    /\ ExhaustedOnlyWhenAllRejected /\ ConfiguredKeysAreUsed

IInv == PoolTypeOK /\ LoopInv

-----------------------------------------------------------------------------

\* What a client of the loop sees of a request's phase.
Seen(p) ==
    IF p \in {"idle", "refreshing", "closing"} THEN "pending"
    ELSE IF p = "sent" THEN "asking"
    ELSE p

SeenPhase == [r \in Requests |-> Seen(phase[r])]

Failover == INSTANCE KeyFailover WITH phase <- SeenPhase

\* The loop over the shared, asynchronously refreshed pool implements plain
\* failover: each key asked until it rejects, one answer handed on.
FailoverSpec == Failover!Spec
=============================================================================
