----------------------- MODULE CommandCodeClient_proofs -----------------------
(***************************************************************************)
(* Proofs about the failover loop, for every list of keys, every set of    *)
(* requests and every behaviour of the credits endpoint.                   *)
(***************************************************************************)
EXTENDS CommandCodeClient, TLAPS

\* The list of keys is a sequence.
LEMMA KeyListIsASequence ==
    /\ Len(KeyList) \in Nat
    /\ DOMAIN KeyList = 1 .. Len(KeyList)
   
<1>1. KeyList \in Seq(STRING)
  BY KeyPoolAssumption DEF KeyPoolAssumption
<1> QED
  BY <1>1

\* select_key offers an excluded key only when every key is excluded.
LEMMA OfferedTried ==
    ASSUME NEW balance, NEW skip \in SUBSET Keys, NEW k \in skip,
           Selects(balance, skip, k)
    PROVE  skip = Keys
<1>1. PICK i \in Candidates(balance, skip) : k = KeyList[i]
  BY DEF Selects
<1>2. { j \in DOMAIN KeyList : KeyList[j] \notin skip } = {}
  BY <1>1 DEF Candidates
<1> QED
  BY <1>2 DEF Keys

\* The pool's part of an action keeps the pool's types.
LEMMA AppliedType ==
    ASSUME PoolTypeOK, NEW answer \in Answers
    PROVE  Applied(answer) \in [Keys -> Amounts \cup {Unknown}]
BY DEF PoolTypeOK, Answers, Applied

-----------------------------------------------------------------------------

\* The initial state satisfies the invariant.
LEMMA InitInv == Init => IInv
<1> SUFFICES ASSUME Init PROVE IInv
  OBVIOUS
<1>1. PoolTypeOK
  BY KeyPoolAssumption DEF Init, PoolInit, PoolTypeOK, Never
<1>2. ClientTypeOK
  BY DEF Init, ClientTypeOK, Phases
<1>3. TriedAreRejected /\ OneAnswerHandedOn /\ PostsAreTried
  BY DEF Init, TriedAreRejected, OneAnswerHandedOn, PostsAreTried
<1>4. ExhaustedOnlyWhenAllRejected /\ ConfiguredKeysAreUsed
  BY DEF Init, ExhaustedOnlyWhenAllRejected, ConfiguredKeysAreUsed
<1> QED
  BY <1>1, <1>2, <1>3, <1>4 DEF IInv, LoopInv

\* A step that leaves the posts, the tried keys and the downgrade of a request
\* alone keeps the account of its posts.
LEMMA PostsUnchanged ==
    ASSUME PostsAreTried, UNCHANGED <<tried, posts, downgraded>>
    PROVE  PostsAreTried'
BY DEF PostsAreTried

\* The loop body, whatever the balances it reads, keeps the loop's invariant.
LEMMA AttemptInv ==
    ASSUME LoopInv, NEW r \in Requests, NEW balance, Attempt(r, balance),
           phase[r] \in {"idle", "refreshing", "closing"},
           UNCHANGED <<rejected, errored, downgraded, yielded>>
    PROVE  LoopInv'
<1> USE DEF LoopInv, EndAs
<1>1. /\ tried[r] = rejected[r] /\ tried[r] \subseteq Keys
      /\ errored[r] <=> tried[r] # {}
      /\ ~yielded[r]
  BY DEF TriedAreRejected, OneAnswerHandedOn, ClientTypeOK, Final
<1>2. CASE /\ KeyList = <<>> \/ \E k \in tried[r] : Offers(r, balance, k)
           /\ EndAs(r, IF errored[r] THEN "exhausted" ELSE "unconfigured")
           /\ UNCHANGED <<key, tried, posts>>
  <2>1. tried[r] = Keys
    <3>1. CASE KeyList = <<>>
      BY <1>1, <3>1 DEF Keys
    <3>2. ASSUME NEW k \in tried[r], Offers(r, balance, k)
          PROVE  tried[r] = Keys
      <4>1. CASE Pooled
        BY <1>1, <3>2, <4>1, OfferedTried DEF Offers
      <4>2. CASE ~Pooled
        <5>1. \A i \in DOMAIN KeyList : i = 1
          BY <4>2, KeyListIsASequence DEF Pooled
        <5> QED
          BY <1>1, <3>2, <4>2, <5>1 DEF Keys, Offers
      <4> QED
        BY <4>1, <4>2
    <3> QED
      BY <1>2, <3>1, <3>2
  <2>2. rejected[r] = Keys /\ (errored[r] <=> Keys # {})
    BY <1>1, <2>1
  <2>3. PICK p \in {"exhausted", "unconfigured"} :
             /\ phase' = [phase EXCEPT ![r] = p]
             /\ p = "unconfigured" => Keys = {}
    BY <1>2, <2>2
  <2>4. ClientTypeOK'
    BY <1>2, <2>3 DEF ClientTypeOK, Phases, Final
  <2>5. TriedAreRejected' /\ OneAnswerHandedOn'
    BY <1>1, <1>2, <2>3 DEF ClientTypeOK, Phases, Final, TriedAreRejected, OneAnswerHandedOn
  <2>6. ExhaustedOnlyWhenAllRejected' /\ ConfiguredKeysAreUsed'
    BY <1>2, <2>2, <2>3 DEF ClientTypeOK, ExhaustedOnlyWhenAllRejected, ConfiguredKeysAreUsed
  <2> QED
    BY <1>2, <2>4, <2>5, <2>6, PostsUnchanged
<1>3. ASSUME NEW k \in Keys \ tried[r], Send(r, k)
      PROVE  LoopInv'
  <2> USE DEF Send
  <2>0. /\ posts[r] \in [Keys -> Nat]
        /\ posts' = [posts EXCEPT ![r] = [posts[r] EXCEPT ![k] = posts[r][k] + 1]]
    BY <1>3 DEF ClientTypeOK
  <2>1. ClientTypeOK'
    <3>1. posts' \in [Requests -> [Keys -> Nat]]
      BY <2>0 DEF ClientTypeOK
    <3> QED
      BY <1>3, <3>1 DEF ClientTypeOK, Phases
  <2>2. TriedAreRejected'
    BY <1>1, <1>3 DEF ClientTypeOK, TriedAreRejected
  <2>3. OneAnswerHandedOn' /\ ExhaustedOnlyWhenAllRejected' /\ ConfiguredKeysAreUsed'
    BY <1>1, <1>3 DEF ClientTypeOK, OneAnswerHandedOn, ExhaustedOnlyWhenAllRejected,
          ConfiguredKeysAreUsed
  <2>4. PostsAreTried'
    <3> DEFINE once(q, j) == IF j \in tried[q] THEN 1 ELSE 0
    <3>1. \A j \in Keys : /\ posts'[r][j] = posts[r][j] + (IF j = k THEN 1 ELSE 0)
                          /\ once(r, j)' = once(r, j) + (IF j = k THEN 1 ELSE 0)
      <4>1. \A j \in Keys : posts'[r][j] = posts[r][j] + (IF j = k THEN 1 ELSE 0)
        BY <2>0 DEF ClientTypeOK
      <4>2. tried'[r] = tried[r] \cup {k}
        BY <1>3 DEF ClientTypeOK
      <4> QED
        BY <1>3, <4>1, <4>2
    <3>2. \A j \in Keys : posts[r][j] \in Nat
      BY DEF ClientTypeOK
    <3>3. ASSUME NEW q \in Requests, q # r
          PROVE  posts'[q] = posts[q] /\ tried'[q] = tried[q] /\ downgraded'[q] = downgraded[q]
      BY <1>3, <3>3 DEF ClientTypeOK
    <3>4. CASE ~downgraded[r]
      <4>1. \A j \in Keys : posts'[r][j] = once(r, j)'
        BY <3>1, <3>4 DEF PostsAreTried
      <4> QED
        BY <3>3, <3>4, <4>1 DEF PostsAreTried
    <3>5. CASE downgraded[r]
      <4>1. PICK z \in Keys : \A j \in Keys :
                 posts[r][j] = once(r, j) + (IF j = z THEN 1 ELSE 0)
        BY <3>5 DEF PostsAreTried
      <4>2. \A j \in Keys : posts'[r][j] = once(r, j)' + (IF j = z THEN 1 ELSE 0)
        BY <3>1, <4>1
      <4> QED
        BY <3>3, <3>5, <4>2 DEF PostsAreTried
    <3> QED
      BY <3>4, <3>5
  <2> QED
    BY <2>1, <2>2, <2>3, <2>4
<1> QED
  BY <1>2, <1>3 DEF Attempt

-----------------------------------------------------------------------------

\* A step that only moves a request on to a phase where no key is being chosen
\* or awaited, and marks at most its own first event, keeps the loop's invariant.
LEMMA MoveInv ==
    ASSUME LoopInv, NEW r \in Requests,
           NEW p \in {"streaming", "served", "refused", "broken", "cancelled"},
           phase' = [phase EXCEPT ![r] = p],
           UNCHANGED <<key, tried, rejected, errored, downgraded, yielded, posts>>
    PROVE  LoopInv'
<1> USE DEF LoopInv
<1>1. ClientTypeOK'
  BY DEF ClientTypeOK, Phases, Final
<1>2. TriedAreRejected' /\ OneAnswerHandedOn'
  BY DEF ClientTypeOK, Final, TriedAreRejected, OneAnswerHandedOn
<1>3. ExhaustedOnlyWhenAllRejected' /\ ConfiguredKeysAreUsed'
  BY DEF ClientTypeOK, ExhaustedOnlyWhenAllRejected, ConfiguredKeysAreUsed
<1> QED
  BY <1>1, <1>2, <1>3, PostsUnchanged

\* A retryable answer: the key joins the rejected ones, as it already is a tried one.
LEMMA RejectKeyInv ==
    ASSUME LoopInv, NEW r \in Requests, RejectKey(r)
    PROVE  LoopInv'
<1> USE DEF LoopInv, RejectKey, EndAs
<1>1. key[r] \in tried[r] /\ tried[r] = rejected[r] \cup {key[r]} /\ tried[r] \subseteq Keys
  BY DEF TriedAreRejected, ClientTypeOK
<1>2. ClientTypeOK'
  BY <1>1 DEF ClientTypeOK, Phases
<1>3. TriedAreRejected' /\ OneAnswerHandedOn'
  BY <1>1 DEF ClientTypeOK, Final, TriedAreRejected, OneAnswerHandedOn
<1>4. ExhaustedOnlyWhenAllRejected' /\ ConfiguredKeysAreUsed'
  BY DEF ClientTypeOK, ExhaustedOnlyWhenAllRejected, ConfiguredKeysAreUsed
<1> QED
  BY <1>2, <1>3, <1>4, PostsUnchanged

\* The ZDR downgrade: the key leaves the tried ones and is the one counted twice.
LEMMA RejectZdrInv ==
    ASSUME LoopInv, NEW r \in Requests, RejectZdr(r)
    PROVE  LoopInv'
<1> USE DEF LoopInv, RejectZdr, EndAs
<1> DEFINE once(q, j) == IF j \in tried[q] THEN 1 ELSE 0
<1>1. /\ key[r] \in Keys /\ key[r] \in tried[r] /\ tried[r] \subseteq Keys
      /\ tried[r] \ {key[r]} = rejected[r]
  BY DEF TriedAreRejected, ClientTypeOK
<1>2. ClientTypeOK'
  BY <1>1 DEF ClientTypeOK, Phases
<1>3. TriedAreRejected' /\ OneAnswerHandedOn'
  BY <1>1 DEF ClientTypeOK, Final, TriedAreRejected, OneAnswerHandedOn
<1>4. ExhaustedOnlyWhenAllRejected' /\ ConfiguredKeysAreUsed'
  BY DEF ClientTypeOK, ExhaustedOnlyWhenAllRejected, ConfiguredKeysAreUsed
<1>5. PostsAreTried'
  <2>1. \A j \in Keys : posts'[r][j] = once(r, j)' + (IF j = key[r] THEN 1 ELSE 0)
    <3>1. \A j \in Keys : posts[r][j] = once(r, j)
      BY DEF PostsAreTried
    <3>2. tried'[r] = tried[r] \ {key[r]} /\ posts' = posts
      BY DEF ClientTypeOK
    <3> QED
      BY <1>1, <3>1, <3>2
  <2>2. ASSUME NEW q \in Requests, q # r
        PROVE  posts'[q] = posts[q] /\ tried'[q] = tried[q] /\ downgraded'[q] = downgraded[q]
    BY <2>2 DEF ClientTypeOK
  <2>3. downgraded'[r]
    BY DEF ClientTypeOK
  <2> QED
    BY <1>1, <2>1, <2>2, <2>3 DEF PostsAreTried
<1> QED
  BY <1>2, <1>3, <1>4, <1>5

\* Handing an event on happens only while the answer is streaming.
LEMMA YieldEventInv ==
    ASSUME LoopInv, NEW r \in Requests, YieldEvent(r)
    PROVE  LoopInv'
<1> USE DEF LoopInv, YieldEvent
<1>1. ClientTypeOK' /\ TriedAreRejected' /\ OneAnswerHandedOn'
  BY DEF ClientTypeOK, TriedAreRejected, OneAnswerHandedOn
<1>2. ExhaustedOnlyWhenAllRejected' /\ ConfiguredKeysAreUsed'
  BY DEF ExhaustedOnlyWhenAllRejected, ConfiguredKeysAreUsed
<1> QED
  BY <1>1, <1>2, PostsUnchanged

\* Waiting for the first credits.
LEMMA AwaitCreditsInv ==
    ASSUME LoopInv, NEW r \in Requests, AwaitCredits(r)
    PROVE  LoopInv'
<1> USE DEF LoopInv, AwaitCredits, EndAs
<1>1. ClientTypeOK' /\ TriedAreRejected' /\ OneAnswerHandedOn'
  BY DEF ClientTypeOK, Phases, Final, TriedAreRejected, OneAnswerHandedOn
<1>2. ExhaustedOnlyWhenAllRejected' /\ ConfiguredKeysAreUsed'
  BY DEF ClientTypeOK, ExhaustedOnlyWhenAllRejected, ConfiguredKeysAreUsed
<1> QED
  BY <1>1, <1>2, PostsUnchanged

\* A step that changes no request keeps the loop's invariant.
LEMMA PoolKeepsLoopInv ==
    ASSUME LoopInv, UNCHANGED requestVars
    PROVE  LoopInv'
<1> USE DEF LoopInv, requestVars
<1>1. ClientTypeOK' /\ TriedAreRejected' /\ OneAnswerHandedOn'
  BY DEF ClientTypeOK, TriedAreRejected, OneAnswerHandedOn
<1>2. ExhaustedOnlyWhenAllRejected' /\ ConfiguredKeysAreUsed'
  BY DEF ExhaustedOnlyWhenAllRejected, ConfiguredKeysAreUsed
<1> QED
  BY <1>1, <1>2, PostsUnchanged

\* The answers of a refresh keep the pool's types.
LEMMA AnswersKeepPoolType ==
    ASSUME PoolTypeOK, NEW answer \in Answers, ApplyAnswers(answer),
           background' \in {"idle", "scheduled", "fetching"}
    PROVE  PoolTypeOK'
<1>1. 0 \in 0 .. (TTL + 1)
  BY KeyPoolAssumption DEF KeyPoolAssumption
<1>2. credits' \in [Keys -> Amounts \cup {Unknown}]
  BY AppliedType DEF ApplyAnswers
<1>3. lastError' \in BOOLEAN
  BY DEF ApplyAnswers, PoolTypeOK
<1> QED
  BY <1>1, <1>2, <1>3 DEF PoolTypeOK, ApplyAnswers

\* Every step keeps the inductive invariant.
LEMMA StepInv == IInv /\ [Next]_vars => IInv'
<1> SUFFICES ASSUME PoolTypeOK, LoopInv, [Next]_vars
             PROVE  PoolTypeOK' /\ LoopInv'
  BY DEF IInv
<1>1. CASE UNCHANGED vars
  BY <1>1, PoolKeepsLoopInv DEF vars, requestVars, poolVars, PoolTypeOK
<1>2. CASE Pool
  <2>1. LoopInv'
    BY <1>2, PoolKeepsLoopInv DEF Pool
  <2>2. CASE StartBackground
    BY <2>1, <2>2 DEF StartBackground, PoolTypeOK
  <2>3. CASE FinishBackground
    BY <2>1, <2>3, AnswersKeepPoolType DEF FinishBackground
  <2>4. CASE Tick
    BY <2>1, <2>4, KeyPoolAssumption DEF Tick, PoolTypeOK, KeyPoolAssumption
  <2> QED
    BY <1>2, <2>2, <2>3, <2>4 DEF Pool
<1>3. ASSUME NEW r \in Requests, Request(r)
      PROVE  PoolTypeOK' /\ LoopInv'
  <2>1. CASE AwaitCredits(r)
    BY <2>1, AwaitCreditsInv DEF AwaitCredits, PoolTypeOK
  <2>2. CASE Choose(r)
    <3>1. LoopInv'
      BY <2>2, AttemptInv DEF Choose
    <3>2. background' \in {"idle", "scheduled", "fetching"}
      BY <2>2 DEF Choose, Triggered, PoolTypeOK
    <3> QED
      BY <2>2, <3>1, <3>2 DEF Choose, PoolTypeOK
  <2>3. CASE CreditsArrive(r)
    <3>1. PICK answer \in Answers : ApplyAnswers(answer) /\ Attempt(r, Applied(answer))
      BY <2>3 DEF CreditsArrive
    <3>2. LoopInv'
      BY <2>3, <3>1, AttemptInv DEF CreditsArrive
    <3> QED
      BY <2>3, <3>1, <3>2, AnswersKeepPoolType DEF CreditsArrive, PoolTypeOK
  <2>4. CASE RejectKey(r)
    BY <2>4, RejectKeyInv DEF RejectKey, PoolTypeOK, poolVars
  <2>5. CASE RejectZdr(r)
    BY <2>5, RejectZdrInv DEF RejectZdr, PoolTypeOK, poolVars
  <2>6. CASE YieldEvent(r)
    BY <2>6, YieldEventInv DEF YieldEvent, PoolTypeOK, poolVars
  <2>7. CASE Refuse(r) \/ Accept(r) \/ EndOfStream(r) \/ TransportError(r) \/ Cancel(r)
    <3>1. PoolTypeOK'
      BY <2>7 DEF Refuse, Accept, EndOfStream, TransportError, Cancel, PoolTypeOK, poolVars
    <3>2. LoopInv'
      BY <2>7, MoveInv DEF Refuse, Accept, EndOfStream, TransportError, Cancel, EndAs
    <3> QED
      BY <3>1, <3>2
  <2> QED
    BY <1>3, <2>1, <2>2, <2>3, <2>4, <2>5, <2>6, <2>7 DEF Request
<1> QED
  BY <1>1, <1>2, <1>3 DEF Next

\* The inductive invariant holds in every reachable state.
THEOREM Invariance == Spec => []IInv
BY InitInv, StepInv, PTL DEF Spec

\* Every variable of the pool and of the loop keeps its type.
THEOREM TypeCorrect == Spec => []TypeOK
BY Invariance, PTL DEF IInv, LoopInv, TypeOK

\* For any keys, requests and answers, a request is given up for lack of credit only
\* when every configured key has rejected it, and never as if no key were configured.
THEOREM GivesUpCorrectly ==
    Spec => [](ExhaustedOnlyWhenAllRejected /\ ConfiguredKeysAreUsed)
BY Invariance, PTL DEF IInv, LoopInv

\* The number of posts a request makes is bounded, whatever the balances do.
THEOREM AttemptsAreBounded == Spec => []AttemptsBounded
<1>1. IInv => AttemptsBounded
  <2> SUFFICES ASSUME LoopInv, NEW r \in Requests, NEW j \in Keys, NEW k \in Keys
               PROVE  /\ posts[r][k] <= 2
                      /\ posts[r][j] = 2 /\ posts[r][k] = 2 => j = k
    BY DEF IInv, AttemptsBounded
  <2>1. CASE ~downgraded[r]
    BY <2>1 DEF LoopInv, PostsAreTried
  <2>2. CASE downgraded[r]
    BY <2>2 DEF LoopInv, PostsAreTried
  <2> QED
    BY <2>1, <2>2
<1> QED
  BY <1>1, Invariance, PTL

\* Posts are made by the loop body only, by a request that waits for no answer.
LEMMA PostsMadeByAttempt ==
    ASSUME LoopInv, [Next]_vars, NEW r \in Requests, posts'[r] # posts[r]
    PROVE  /\ phase[r] \in {"idle", "refreshing", "closing"}
           /\ Choose(r) \/ CreditsArrive(r)
<1>1. posts' # posts
  OBVIOUS
<1>2. PICK q \in Requests : Choose(q) \/ CreditsArrive(q)
  BY <1>1 DEF vars, Next, Pool, requestVars, Request, AwaitCredits, RejectKey, RejectZdr,
        Refuse, Accept, YieldEvent, EndOfStream, TransportError, Cancel
<1>3. q = r
  BY <1>2 DEF Choose, CreditsArrive, Attempt, Send, LoopInv, ClientTypeOK
<1> QED
  BY <1>2, <1>3 DEF Choose, CreditsArrive

\* No request posts again once an event of an answer has been handed on.
THEOREM OneAnswerOnly == Spec => NoAttemptAfterEvent
<1>1. IInv /\ [Next]_vars => [\A r \in Requests : yielded[r] => posts'[r] = posts[r]]_vars
  <2> SUFFICES ASSUME LoopInv, [Next]_vars, NEW r \in Requests, yielded[r]
               PROVE  posts'[r] = posts[r]
    BY DEF IInv
  <2> QED
    BY PostsMadeByAttempt DEF LoopInv, OneAnswerHandedOn, Final
<1> QED
  BY <1>1, Invariance, PTL DEF Spec, NoAttemptAfterEvent

\* A request that posts by a stale cache leaves a refresh scheduled or running.
THEOREM StaleCacheRefreshed == Spec => StaleCacheIsBeingRefreshed
<1>1. ASSUME IInv, [Next]_vars, NEW r \in Requests, Pooled, posts'[r] # posts[r], IsStale'
      PROVE  background' # "idle"
  <2>1. CASE Choose(r)
    BY <1>1, <2>1 DEF Choose, Triggered, IsStale, NeverFetched
  <2>2. CASE CreditsArrive(r)
    <3>1. age' = 0
      BY <2>2 DEF CreditsArrive, ApplyAnswers
    <3>2. ~IsStale'
      BY <3>1, KeyPoolAssumption DEF IsStale, NeverFetched, Never, KeyPoolAssumption
    <3> QED
      BY <1>1, <3>2
  <2> QED
    BY <1>1, <2>1, <2>2, PostsMadeByAttempt DEF IInv
<1>2. IInv /\ [Next]_vars
        => [\A r \in Requests :
              Pooled /\ posts'[r] # posts[r] /\ IsStale' => background' # "idle"]_vars
  BY <1>1
<1> QED
  BY <1>2, Invariance, PTL DEF Spec, StaleCacheIsBeingRefreshed

\* select_key offers a key known to be out of credit only when all the open ones are.
LEMMA OfferedUnfunded ==
    ASSUME NEW balance \in [Keys -> Amounts \cup {Unknown}], NEW skip, NEW k \in Keys \ skip,
           Selects(balance, skip, k), balance[k] = 0, NEW j \in Keys \ skip
    PROVE  balance[j] = 0
<1>1. PICK i \in Candidates(balance, skip) : k = KeyList[i]
  BY DEF Selects
<1>2. { n \in DOMAIN KeyList : /\ KeyList[n] \notin skip
                               /\ balance[KeyList[n]] = Unknown \/ balance[KeyList[n]] > 0 } = {}
  BY <1>1 DEF Candidates, Unknown
<1>3. balance[j] \in Nat \cup {Unknown}
  BY KeyPoolAssumption DEF KeyPoolAssumption
<1> QED
  BY <1>2, <1>3 DEF Keys

\* A key known to be out of credit is posted with only when every open key is.
THEOREM FundedFirst == Spec => FundedKeysFirst
<1>1. ASSUME IInv, [Next]_vars, NEW r \in Requests, NEW k \in Keys, Pooled,
             posts'[r][k] > posts[r][k], credits'[k] = 0, NEW j \in Keys \ tried[r]
      PROVE  credits'[j] = 0
  <2>1. ASSUME NEW balance, Attempt(r, balance), balance = credits',
               credits' \in [Keys -> Amounts \cup {Unknown}]
        PROVE  credits'[j] = 0
    <3>1. posts[r] \in [Keys -> Nat]
      BY <1>1 DEF IInv, LoopInv, ClientTypeOK
    <3>0. posts[r][k] \in Nat /\ posts' # posts
      BY <1>1, <3>1
    <3>2. PICK q \in Keys \ tried[r] : Offers(r, balance, q) /\ Send(r, q)
      BY <2>1, <3>0 DEF Attempt
    <3>3. q = k
      BY <1>1, <3>0, <3>1, <3>2 DEF Send, IInv, LoopInv, ClientTypeOK
    <3> QED
      BY <1>1, <2>1, <3>2, <3>3, OfferedUnfunded DEF Offers
  <2>2. posts'[r] # posts[r]
    BY <1>1 DEF IInv, LoopInv, ClientTypeOK
  <2>3. CASE Choose(r)
    BY <1>1, <2>1, <2>3 DEF Choose, IInv, PoolTypeOK
  <2>4. CASE CreditsArrive(r)
    BY <1>1, <2>1, <2>4, AppliedType DEF CreditsArrive, ApplyAnswers, IInv
  <2> QED
    BY <1>1, <2>2, <2>3, <2>4, PostsMadeByAttempt DEF IInv
<1>2. IInv /\ [Next]_vars
        => [\A r \in Requests : \A k \in Keys :
              Pooled /\ posts'[r][k] > posts[r][k] /\ credits'[k] = 0
                 => \A j \in Keys \ tried[r] : credits'[j] = 0]_vars
  BY <1>1
<1> QED
  BY <1>2, Invariance, PTL DEF Spec, FundedKeysFirst

-----------------------------------------------------------------------------
(* The loop implements plain failover. *)

\* What the caller sees of a step that moves one request.
LEMMA SeenMove ==
    ASSUME LoopInv, NEW r \in Requests, NEW p, phase' = [phase EXCEPT ![r] = p]
    PROVE  SeenPhase' = [SeenPhase EXCEPT ![r] = Seen(p)]
BY DEF LoopInv, ClientTypeOK, SeenPhase

\* Choosing a key is an Ask of a key that has not rejected the request, or the end.
LEMMA AttemptImplements ==
    ASSUME LoopInv, LoopInv', NEW r \in Requests, NEW balance, Attempt(r, balance),
           phase[r] \in {"idle", "refreshing", "closing"},
           UNCHANGED <<rejected, downgraded>>
    PROVE  Failover!Next
<1>1. SeenPhase[r] = "pending" /\ tried[r] = rejected[r]
  BY DEF SeenPhase, Seen, LoopInv, TriedAreRejected
<1>2. CASE EndAs(r, IF errored[r] THEN "exhausted" ELSE "unconfigured") /\ key' = key
  <2>1. PICK p \in {"exhausted", "unconfigured"} : phase' = [phase EXCEPT ![r] = p]
    BY <1>2 DEF EndAs
  <2>2. /\ p = "unconfigured" => Keys = {}
        /\ p = "exhausted" => rejected[r] = Keys
    BY <2>1 DEF LoopInv, ClientTypeOK, ConfiguredKeysAreUsed, ExhaustedOnlyWhenAllRejected
  <2>3. p = "exhausted" => Keys # {}
    BY <1>2, <2>1, <2>2 DEF EndAs, LoopInv, ClientTypeOK, TriedAreRejected
  <2>4. SeenPhase' = [SeenPhase EXCEPT ![r] = p]
    BY <2>1, SeenMove DEF Seen
  <2> QED
    BY <1>1, <1>2, <2>2, <2>3, <2>4 DEF Failover!Next, Failover!End, Failover!Goes
<1>3. ASSUME NEW k \in Keys \ tried[r], Send(r, k)
      PROVE  Failover!Next
  <2>1. SeenPhase' = [SeenPhase EXCEPT ![r] = "asking"]
    BY <1>3, SeenMove DEF Send, EndAs, Seen
  <2> QED
    BY <1>1, <1>3, <2>1 DEF Send, Failover!Next, Failover!Ask, Failover!Goes
<1> QED
  BY <1>2, <1>3 DEF Attempt

\* Every step of the loop is a step of plain failover or changes nothing it sees.
LEMMA StepImplements == IInv /\ IInv' /\ [Next]_vars => [Failover!Next]_Failover!vars
<1> SUFFICES ASSUME LoopInv, LoopInv', [Next]_vars PROVE [Failover!Next]_Failover!vars
  BY DEF IInv
<1>1. CASE UNCHANGED requestVars
  BY <1>1 DEF requestVars, Failover!vars, SeenPhase
<1>2. ASSUME NEW r \in Requests, Request(r)
      PROVE  [Failover!Next]_Failover!vars
  <2>1. CASE AwaitCredits(r)
    <3>1. SeenPhase' = [SeenPhase EXCEPT ![r] = SeenPhase[r]]
      BY <2>1, SeenMove DEF AwaitCredits, EndAs, SeenPhase, Seen
    <3>2. SeenPhase' = SeenPhase
      BY <3>1 DEF SeenPhase
    <3> QED
      BY <2>1, <3>2 DEF AwaitCredits, Failover!vars
  <2>2. CASE Choose(r)
    BY <2>2, AttemptImplements DEF Choose
  <2>3. CASE CreditsArrive(r)
    BY <2>3, AttemptImplements DEF CreditsArrive
  <2>4. CASE RejectKey(r)
    <3>1. SeenPhase[r] = "asking" /\ SeenPhase' = [SeenPhase EXCEPT ![r] = "pending"]
      BY <2>4, SeenMove DEF RejectKey, EndAs, SeenPhase, Seen
    <3> QED
      BY <2>4, <3>1 DEF RejectKey, Failover!Next, Failover!Reject, Failover!Goes
  <2>5. CASE RejectZdr(r)
    <3>1. SeenPhase[r] = "asking" /\ SeenPhase' = [SeenPhase EXCEPT ![r] = "pending"]
      BY <2>5, SeenMove DEF RejectZdr, EndAs, SeenPhase, Seen
    <3> QED
      BY <2>5, <3>1 DEF RejectZdr, Failover!Next, Failover!Downgrade, Failover!Goes
  <2>6. CASE YieldEvent(r)
    BY <2>6 DEF YieldEvent, Failover!vars, SeenPhase
  <2>7. CASE Refuse(r)
    <3>1. SeenPhase[r] = "asking" /\ SeenPhase' = [SeenPhase EXCEPT ![r] = "refused"]
      BY <2>7, SeenMove DEF Refuse, EndAs, SeenPhase, Seen
    <3> QED
      BY <2>7, <3>1 DEF Refuse, Failover!Next, Failover!End, Failover!Goes
  <2>8. CASE Accept(r)
    <3>1. SeenPhase[r] = "asking" /\ SeenPhase' = [SeenPhase EXCEPT ![r] = "streaming"]
      BY <2>8, SeenMove DEF Accept, EndAs, SeenPhase, Seen
    <3> QED
      BY <2>8, <3>1 DEF Accept, Failover!Next, Failover!End, Failover!Goes
  <2>9. CASE EndOfStream(r)
    <3>1. SeenPhase[r] = "streaming" /\ SeenPhase' = [SeenPhase EXCEPT ![r] = "served"]
      BY <2>9, SeenMove DEF EndOfStream, EndAs, SeenPhase, Seen
    <3> QED
      BY <2>9, <3>1 DEF EndOfStream, Failover!Next, Failover!End, Failover!Goes
  <2>10. CASE TransportError(r)
    <3>1. /\ SeenPhase[r] \in {"pending", "asking", "streaming"}
          /\ SeenPhase' = [SeenPhase EXCEPT ![r] = "broken"]
      BY <2>10, SeenMove DEF TransportError, EndAs, SeenPhase, Seen
    <3> QED
      BY <2>10, <3>1 DEF TransportError, Failover!Next, Failover!End, Failover!Goes
  <2>11. CASE Cancel(r)
    <3>1. /\ SeenPhase[r] \in {"pending", "asking", "streaming"}
          /\ SeenPhase' = [SeenPhase EXCEPT ![r] = "cancelled"]
      BY <2>11, SeenMove DEF Cancel, EndAs, SeenPhase, Seen
    <3> QED
      BY <2>11, <3>1 DEF Cancel, Failover!Next, Failover!End, Failover!Goes
  <2> QED
    BY <1>2, <2>1, <2>2, <2>3, <2>4, <2>5, <2>6, <2>7, <2>8, <2>9, <2>10, <2>11 DEF Request
<1> QED
  BY <1>1, <1>2 DEF Next, Pool, vars

\* The failover loop over the shared pool implements plain failover.
THEOREM ImplementsFailover == Spec => FailoverSpec
<1>1. Init => Failover!Init
  BY DEF Init, Failover!Init, SeenPhase, Seen
<1> QED
  BY <1>1, StepImplements, Invariance, PTL DEF Spec, FailoverSpec, Failover!Spec
=============================================================================
