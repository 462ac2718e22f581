------------------------------- MODULE KeyPool -------------------------------
(***************************************************************************)
(* The credit cache and key chooser shared by every request of the adapter *)
(* (src/cc_adapter/core/key_pool.py).                                      *)
(*                                                                         *)
(* The adapter is one asyncio loop: what runs between two awaits is        *)
(* atomic, and the only await in the pool is the credits fetch.  Time is   *)
(* the age of the cache, counted in ticks and saturating once the cache is *)
(* stale for good.  A balance is a natural number (a negative sum behaves  *)
(* as 0); Unknown is the missing dictionary entry.                         *)
(***************************************************************************)
EXTENDS Integers, Sequences

CONSTANTS
    KeyList,    \* the configured keys, in order of preference
    Amounts,    \* the balances the credits endpoint can report
    TTL,        \* KEY_CREDITS_CACHE_TTL, in ticks
    Backoff     \* KEY_CREDITS_ERROR_BACKOFF, in ticks

Unknown == -1
Never   == -1

Keys == { KeyList[i] : i \in DOMAIN KeyList }

ASSUME KeyPoolAssumption ==
    /\ KeyList \in Seq(STRING)
    /\ Amounts \subseteq Nat
    /\ TTL \in Nat
    /\ Backoff \in 0..TTL

\* CommandCodeClient builds a pool only for two keys or more.
Pooled == Len(KeyList) > 1

VARIABLES
    credits,    \* _credits: key -> last balance applied, or Unknown
    age,        \* now - _last_fetch, or Never when _last_fetch is None
    lastError,  \* _last_error is set
    background  \* _fetch_task: "idle", "scheduled" or "fetching"

poolVars == <<credits, age, lastError, background>>

PoolTypeOK ==
    /\ credits \in [Keys -> Amounts \cup {Unknown}]
    /\ age \in {Never} \cup 0..(TTL + 1)
    /\ lastError \in BOOLEAN
    /\ background \in {"idle", "scheduled", "fetching"}

PoolInit ==
    /\ credits = [k \in Keys |-> Unknown]
    /\ age = Never
    /\ lastError = FALSE
    /\ background = "idle"

-----------------------------------------------------------------------------

NeverFetched == age = Never

IsStale == NeverFetched \/ age > (IF lastError THEN Backoff ELSE TTL)

\* One outcome of a whole _refresh: what each key's fetch returned.  Unknown
\* is a fetch that raised, or one whose sum is not an int: both are skipped.
Answers == [Keys -> Amounts \cup {Unknown}]

Applied(answer) ==
    [k \in Keys |-> IF answer[k] = Unknown THEN credits[k] ELSE answer[k]]

\* Some fetch came back with a balance (success_count > 0).
Succeeded(answer) == \E k \in Keys : answer[k] # Unknown

\* The end of _refresh.  It sets the error when nothing came back and never
\* clears it: only the start of a refresh does.
ApplyAnswers(answer) ==
    /\ credits' = Applied(answer)
    /\ lastError' = (lastError \/ ~Succeeded(answer))
    /\ age' = 0

\* Mutant: a stale cache is refreshed by its TTL, an error's backoff forgotten.
TriggeredByTTL ==
    IF (NeverFetched \/ age > TTL) /\ background = "idle" THEN "scheduled" ELSE background

\* The background task that _trigger_refresh leaves running, at most one.
Triggered ==
    IF IsStale /\ background = "idle" THEN "scheduled" ELSE background

\* Mutant: select_key without its second pass.
CandidatesFundedOnly(balance, skip) ==
    LET funded == { i \in DOMAIN KeyList : /\ KeyList[i] \notin skip
                                            /\ balance[KeyList[i]] # 0 }
    IN  IF funded # {} THEN funded ELSE DOMAIN KeyList

\* The three passes of select_key over the keys, the first non-empty one wins:
\* open and not known to be out of credit, open, any.
Candidates(balance, skip) ==
    LET open   == { i \in DOMAIN KeyList : KeyList[i] \notin skip }
        funded == { i \in open : balance[KeyList[i]] = Unknown
                                 \/ balance[KeyList[i]] > 0 }
    IN  IF funded # {} THEN funded
        ELSE IF open # {} THEN open
        ELSE DOMAIN KeyList

Selects(balance, skip, k) ==
    LET candidates == Candidates(balance, skip)
    IN  \E i \in candidates :
            /\ \A j \in candidates : i <= j
            /\ k = KeyList[i]

-----------------------------------------------------------------------------

\* The scheduled task starts: _refresh clears the error and sends the fetches.
StartBackground ==
    /\ background = "scheduled"
    /\ background' = "fetching"
    /\ lastError' = FALSE
    /\ UNCHANGED <<credits, age>>

FinishBackground ==
    /\ background = "fetching"
    /\ background' = "idle"
    /\ \E answer \in Answers : ApplyAnswers(answer)

\* Time passes; an age above TTL is not told apart from a larger one.
Tick ==
    /\ age \in 0..TTL
    /\ age' = age + 1
    /\ UNCHANGED <<credits, lastError, background>>
=============================================================================
