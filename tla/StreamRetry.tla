----------------------------- MODULE StreamRetry -----------------------------
(***************************************************************************)
(* The streaming path of POST /v1/chat/completions: translate_stream       *)
(* (src/cc_adapter/providers/openai/response.py) makes chunks of the       *)
(* upstream's events, and stream_with_retry (src/cc_adapter/core/retry.py) *)
(* hands them to the client, with a _BufferDetector that has an empty      *)
(* first attempt retried when the request offers tools.                    *)
(*                                                                         *)
(* The consumer pulls: an upstream event is read when every chunk of the   *)
(* one before has been consumed.  Skipped events (empty deltas, tool       *)
(* results, reasoning when the effort is "off") change nothing.            *)
(***************************************************************************)
EXTENDS Naturals, Sequences, SequencesExt

CONSTANTS
    ErrorTexts, \* what an upstream's error event or a raised AdapterError may
                \* say: "emptyError", the text of the adapter's own empty-response
                \* error, or "error", any other
    MaxEvents   \* bound: content and finish events per attempt

ASSUME StreamRetryAssumption ==
    /\ ErrorTexts \subseteq {"emptyError", "error"}
    /\ MaxEvents \in Nat

Visible    == {"text", "tool", "fallback"}
Streamable == Visible \cup {"reasoning"}
\* A finish chunk is "echoedFinish" where the upstream's own finishReason is
\* tool_calls, "toolFinish" where only the chunk says tool_calls, "finish" where
\* neither does.
Finishes   == {"finish", "toolFinish", "echoedFinish"}
Reasons    == {"tool_calls", "other"}  \* the upstream's finishReason, None an "other"
Kinds      == Streamable \cup Finishes \cup {"emptyError", "error", "done"}

VARIABLES
    tools,     \* tools_available: the request has tools it may use
    attempt,   \* the attempt of stream_with_retry, 0 or 1
    upstream,  \* "open", or "closed" when translate_stream has left its loop
    events,    \* events read in this attempt
    visible,   \* emitted_visible
    reasoned,  \* reasoning_buf is not empty
    toolCalls, \* tool_call_index > 0
    chunks,    \* made by the translator, not consumed yet
    buffer,    \* _buffer
    flushed,   \* _flushed and after_flush
    visibleSeen, \* _visible_seen
    out,       \* what the client was sent: [kind, attempt]
    made,      \* history: the chunks each attempt made
    over       \* "no", "returned" or "gone" (the client disconnected)

translator == <<upstream, events, visible, reasoned, toolCalls>>
detector   == <<buffer, flushed, visibleSeen>>
vars == <<tools, attempt, translator, chunks, detector, out, made, over>>

\* Every variable stays in its type.
TypeOK ==
    /\ tools \in BOOLEAN /\ attempt \in 0..1
    /\ upstream \in {"open", "closed"} /\ events \in 0..MaxEvents
    /\ visible \in BOOLEAN /\ reasoned \in BOOLEAN /\ toolCalls \in BOOLEAN
    /\ flushed \in BOOLEAN /\ visibleSeen \in BOOLEAN
    /\ chunks \in Seq(Kinds) /\ buffer \in Seq(Kinds)
    /\ made \in [0..1 -> Seq(Kinds)]
    /\ out \in Seq([kind : Kinds, attempt : 0..1])
    /\ over \in {"no", "returned", "gone"}

Init ==
    /\ tools \in BOOLEAN /\ attempt = 0
    /\ upstream = "open" /\ events = 0
    /\ visible = FALSE /\ reasoned = FALSE /\ toolCalls = FALSE
    /\ chunks = <<>> /\ buffer = <<>>
    /\ flushed = FALSE /\ visibleSeen = FALSE
    /\ out = <<>> /\ made = [a \in 0..1 |-> <<>>]
    /\ over = "no"

-----------------------------------------------------------------------------
(* translate_stream *)

Make(cs) ==
    /\ over = "no" /\ upstream = "open" /\ chunks = <<>>
    /\ chunks' = cs
    /\ made' = [made EXCEPT ![attempt] = @ \o cs]
    /\ UNCHANGED <<tools, attempt, detector, out, over>>

\* The loop goes on after a finish event: only errors and the end leave it.
GoesOn ==
    /\ events < MaxEvents /\ events' = events + 1
    /\ UNCHANGED upstream

Leaves == upstream' = "closed" /\ UNCHANGED events

Text ==
    /\ Make(<<"text">>) /\ GoesOn
    /\ visible' = TRUE
    /\ UNCHANGED <<reasoned, toolCalls>>

Reasoning ==
    /\ Make(<<"reasoning">>) /\ GoesOn
    /\ reasoned' = TRUE
    /\ UNCHANGED <<visible, toolCalls>>

Tool ==
    /\ Make(<<"tool">>) /\ GoesOn
    /\ visible' = TRUE /\ toolCalls' = TRUE
    /\ UNCHANGED reasoned

\* tool_calls once a tool was called, else what the upstream says (_map_finish_reason).
FinishChunk(reason) ==
    IF reason = "tool_calls" THEN "echoedFinish" ELSE IF toolCalls THEN "toolFinish" ELSE "finish"

Finish(reason) ==
    /\ visible
    /\ Make(<<FinishChunk(reason)>>) /\ GoesOn
    /\ UNCHANGED <<visible, reasoned, toolCalls>>

\* Reasoning alone becomes the answer when the request could not call a tool.
FinishReasoningOnly(reason) ==
    /\ ~visible /\ reasoned /\ ~tools
    /\ Make(<<"fallback", FinishChunk(reason)>>) /\ GoesOn
    /\ visible' = TRUE
    /\ UNCHANGED <<reasoned, toolCalls>>

FinishEmpty ==
    /\ ~visible /\ (reasoned => tools)
    /\ Make(<<"emptyError", "done">>) /\ Leaves
    /\ UNCHANGED <<visible, reasoned, toolCalls>>

\* Mutant: the error branch sends a [DONE] of its own.
ErrorEndsItself(text) ==
    /\ Make(<<text, "done", "done">>) /\ Leaves
    /\ UNCHANGED <<visible, reasoned, toolCalls>>

\* An error event, or an AdapterError out of CommandCodeClient.generate.
Error(text) ==
    /\ Make(<<text, "done">>) /\ Leaves
    /\ UNCHANGED <<visible, reasoned, toolCalls>>

End ==
    /\ Make(<<"done">>) /\ Leaves
    /\ UNCHANGED <<visible, reasoned, toolCalls>>

Stops == FinishEmpty \/ End \/ \E text \in ErrorTexts : Error(text)

Upstream ==
    \/ Text \/ Reasoning \/ Tool \/ Stops
    \/ \E reason \in Reasons : Finish(reason) \/ FinishReasoningOnly(reason)

-----------------------------------------------------------------------------
(* stream_with_retry *)

Tagged(cs, a) == [i \in DOMAIN cs |-> [kind |-> cs[i], attempt |-> a]]

Yield(cs) == out' = out \o Tagged(cs, attempt)

\* A buffer but for the end of the stream.
WithoutEnd(cs) ==
    FoldLeft(LAMBDA kept, c : IF c \in {"done", "emptyError"} THEN kept ELSE Append(kept, c),
             <<>>, cs)

Watching == tools /\ attempt = 0

Consume(c) ==
    /\ over = "no" /\ chunks # <<>> /\ c = Head(chunks)
    /\ chunks' = Tail(chunks)
    /\ UNCHANGED <<tools, attempt, translator, made, over>>

\* No detector, second attempt, or after the flush: straight to the client.
Pass(c) ==
    /\ Watching => flushed /\ (visibleSeen \/ c # "emptyError")
    /\ Consume(c) /\ Yield(<<c>>)
    /\ UNCHANGED detector

\* Mutant: reasoning counts as visible output.
FlushSeesReasoning(c) ==
    /\ Watching /\ ~flushed /\ c \in Streamable
    /\ Consume(c) /\ Yield(Append(buffer, c))
    /\ flushed' = TRUE /\ buffer' = <<>>
    /\ visibleSeen' = TRUE

\* The first delta, reasoning included, releases the buffer.
Flush(c) ==
    /\ Watching /\ ~flushed /\ c \in Streamable
    /\ Consume(c) /\ Yield(Append(buffer, c))
    /\ flushed' = TRUE /\ buffer' = <<>>
    /\ visibleSeen' = (c \in Visible)

Withhold(c) ==
    /\ Watching /\ ~flushed /\ c \notin Streamable \cup {"emptyError"}
    /\ Consume(c)
    /\ buffer' = Append(buffer, c)
    /\ UNCHANGED <<flushed, visibleSeen, out>>

\* Mutant: the second attempt goes on with the first one's translator.
RetrySameTranslator(c) ==
    /\ Watching /\ c = "emptyError" /\ ~visibleSeen
    /\ over = "no" /\ chunks # <<>> /\ c = Head(chunks)
    /\ Yield(WithoutEnd(buffer))
    /\ chunks' = <<>> /\ buffer' = <<>>
    /\ attempt' = attempt + 1
    /\ upstream' = "open" /\ events' = 0
    /\ UNCHANGED <<tools, visible, reasoned, toolCalls, flushed, visibleSeen, made, over>>

\* The empty-response error starts the second attempt; what the buffer holds
\* besides the end of the stream is sent first.
Retry(c) ==
    /\ Watching /\ c = "emptyError" /\ ~visibleSeen
    /\ over = "no" /\ chunks # <<>> /\ c = Head(chunks)
    /\ Yield(WithoutEnd(buffer))
    /\ chunks' = <<>> /\ buffer' = <<>>
    /\ attempt' = attempt + 1
    /\ upstream' = "open" /\ events' = 0
    /\ visible' = FALSE /\ reasoned' = FALSE /\ toolCalls' = FALSE
    /\ UNCHANGED <<tools, flushed, visibleSeen, made, over>>

\* Mutant: the withheld chunks are forgotten.
ReturnWithoutBuffer ==
    /\ over = "no" /\ chunks = <<>> /\ upstream = "closed"
    /\ buffer' = <<>>
    /\ over' = "returned"
    /\ UNCHANGED <<tools, attempt, translator, chunks, flushed, visibleSeen, out, made>>

\* The translator is exhausted: what is still withheld is sent.
Return ==
    /\ over = "no" /\ chunks = <<>> /\ upstream = "closed"
    /\ Yield(buffer)
    /\ buffer' = <<>>
    /\ over' = "returned"
    /\ UNCHANGED <<tools, attempt, translator, chunks, flushed, visibleSeen, made>>

Disconnect ==
    /\ over = "no" /\ over' = "gone"
    /\ UNCHANGED <<tools, attempt, translator, chunks, detector, out, made>>

Deliver == (\E c \in Kinds : Pass(c) \/ Flush(c) \/ Withhold(c) \/ Retry(c)) \/ Return

Next == Upstream \/ Deliver \/ Disconnect

Spec == Init /\ [][Next]_vars

\* The server drains the stream; an upstream that goes on sending comes to its end.
FairSpec == Spec /\ WF_vars(Deliver) /\ SF_vars(Stops)

-----------------------------------------------------------------------------

Sent(kinds, a) == { i \in DOMAIN out : out[i].kind \in kinds /\ out[i].attempt = a }

\* Once visible output has been sent, no second attempt is made: two answers are
\* never mixed in one client stream (tests/test_response_translator.py:445).
NoRetryAfterVisible == attempt = 1 => Sent(Visible, 0) = {}

\* The client of a finished stream sees [DONE] once, as the last chunk, and at
\* most one error, right before it: neither a retried attempt nor the withheld
\* chunks leave one behind.
OneDoneLast ==
    /\ over = "returned" => out # <<>> /\ Last(out).kind = "done"
    /\ \A i \in DOMAIN out :
          /\ out[i].kind = "done" => i = Len(out)
          /\ out[i].kind \in {"emptyError", "error"} =>
                i = Len(out) \/ (i + 1 = Len(out) /\ out[i + 1].kind = "done")

\* With tools on offer, the client sees the first attempt's empty-response error
\* only behind visible output, where a retry is ruled out.
EmptyErrorHidden ==
    tools => \A i \in Sent({"emptyError"}, 0) : \E j \in Sent(Visible, 0) : j < i

\* Each attempt reaches the client whole and in order, the second behind the first:
\* what it was sent, what is withheld and what is on the way are what was made; of a
\* retried attempt only its empty error and its end are missing.
NothingLostOrReordered ==
    LET line == out \o Tagged(buffer \o chunks, attempt)
        left == Len(made[0]) - 2
    IN  IF attempt = 0 THEN line = Tagged(made[0], 0)
        ELSE /\ made[0] = SubSeq(made[0], 1, left) \o <<"emptyError", "done">>
             /\ line = Tagged(SubSeq(made[0], 1, left), 0) \o Tagged(made[1], 1)

\* A finish chunk stands behind visible output of its own attempt, and says tool_calls
\* exactly when the upstream says so itself or that attempt has called a tool before it.
FinishIsTruthful ==
    \A a \in 0..1 : \A i \in Sent(Finishes, a) :
        /\ \E j \in Sent(Visible, a) : j < i
        /\ out[i].kind # "echoedFinish" =>
              (out[i].kind = "toolFinish" <=> \E j \in Sent({"tool"}, a) : j < i)

\* Every stream comes to its end.
StreamEnds == <>(over # "no")
=============================================================================
