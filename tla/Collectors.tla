------------------------------ MODULE Collectors ------------------------------
(***************************************************************************)
(* The answers to requests without streaming: the collectors of the three  *)
(* protocols (collect_and_translate_nonstream in src/cc_adapter/providers/ *)
(* openai/response.py, ..._anthropic_nonstream in anthropic/response.py    *)
(* and ..._responses_nonstream in openai/responses_response.py), compared  *)
(* with what the stream translator of the same protocol tells its client.  *)
(*                                                                         *)
(* A collector appends what it receives to lists and decides at the end,   *)
(* whatever comes behind a finish event included.  A stream translator     *)
(* decides at the first finish event, and the Messages and the Responses   *)
(* one leave the upstream there.  A delta's text is a sequence of one      *)
(* element, the number of its event, and <<>> when it is empty.            *)
(***************************************************************************)
EXTENDS Naturals, Sequences, SequencesExt

CONSTANT MaxReceived  \* bound: content and finish events of the upstream

ASSUME CollectorsAssumption == MaxReceived \in Nat

\* "serverTool" is a call that the provider executed itself (providerExecuted).
Kinds == {"text", "reasoning", "tool", "serverTool"}

VARIABLES
    api,            \* "chat", "messages" or "responses"
    tools,          \* tools_available (chat)
    effortOff,      \* reasoning_effort = "off" (chat)
    received,       \* history: the content and finish events
    textParts,      \* text_parts (chat: content_parts)
    reasoningParts, \* reasoning_parts (messages: thinking_parts)
    toolCalls,      \* tool_calls: the numbers of their events
    ended           \* the upstream's stream has ended: "no", "end" or "error"

gathered == <<received, textParts, reasoningParts, toolCalls>>
collectorVars == <<api, tools, effortOff, gathered, ended>>

CollectorInit ==
    /\ api \in {"chat", "messages", "responses"}
    /\ tools \in BOOLEAN /\ effortOff \in BOOLEAN
    /\ api # "chat" => ~tools /\ ~effortOff
    /\ received = <<>>
    /\ textParts = <<>> /\ reasoningParts = <<>> /\ toolCalls = <<>>
    /\ ended = "no"

\* Messages leaves out the calls that the provider executed.
Receive(kind, empty) ==
    LET number == Len(received) + 1
        text == IF empty THEN <<>> ELSE <<number>>
    IN  /\ ended = "no" /\ Len(received) < MaxReceived
        /\ empty => kind \in {"text", "reasoning"}
        /\ received' = Append(received, [kind |-> kind, text |-> text])
        /\ textParts' = IF kind = "text" THEN Append(textParts, text) ELSE textParts
        /\ reasoningParts' = IF kind = "reasoning" THEN Append(reasoningParts, text)
                             ELSE reasoningParts
        /\ toolCalls' = IF kind = "tool" \/ (kind = "serverTool" /\ api # "messages")
                        THEN Append(toolCalls, number) ELSE toolCalls
        /\ UNCHANGED <<api, tools, effortOff, ended>>

\* The collectors note its reason and usage and go on.
FinishEvent ==
    /\ ended = "no" /\ Len(received) < MaxReceived
    /\ received' = Append(received, [kind |-> "finish", text |-> <<>>])
    /\ UNCHANGED <<api, tools, effortOff, textParts, reasoningParts, toolCalls, ended>>

\* The end of the stream, with or without a finish, or an error event, for which
\* the collectors raise at once.
End(how) ==
    /\ ended = "no" /\ ended' = how
    /\ UNCHANGED <<api, tools, effortOff, gathered>>

CollectorNext ==
    \/ \E kind \in Kinds, empty \in BOOLEAN : Receive(kind, empty)
    \/ FinishEvent \/ End("end") \/ End("error")

CollectorSpec == CollectorInit /\ [][CollectorNext]_collectorVars

-----------------------------------------------------------------------------
(* The collectors *)

\* "".join
Joined(parts) == FlattenSeq(parts)

Answer(text, reasoning, calls) ==
    [failed |-> FALSE, text |-> text, reasoning |-> reasoning, calls |-> calls]

Failure == [failed |-> TRUE]

\* Mutant: the reasoning that becomes the text also stays.
ChatTwice ==
    LET text == Joined(textParts)
        reasoning == IF effortOff THEN <<>> ELSE Joined(reasoningParts)
    IN  IF text # <<>> \/ toolCalls # <<>> THEN Answer(text, reasoning, toolCalls)
        ELSE IF reasoning # <<>> /\ ~tools THEN Answer(reasoning, reasoning, <<>>)
        ELSE Failure

\* Mutant: reasoning alone is an answer whether or not tools are on offer.
ChatWithTools ==
    LET text == Joined(textParts)
        reasoning == IF effortOff THEN <<>> ELSE Joined(reasoningParts)
    IN  IF text # <<>> \/ toolCalls # <<>> THEN Answer(text, reasoning, toolCalls)
        ELSE IF reasoning # <<>> THEN Answer(reasoning, <<>>, <<>>)
        ELSE Failure

ChatAnswer ==
    LET text == Joined(textParts)
        reasoning == IF effortOff THEN <<>> ELSE Joined(reasoningParts)
    IN  IF text # <<>> \/ toolCalls # <<>> THEN Answer(text, reasoning, toolCalls)
        ELSE IF reasoning # <<>> /\ ~tools THEN Answer(reasoning, <<>>, <<>>)
        ELSE Failure

\* Here lists are tested, not what they join to.
MessagesAnswer ==
    LET reasoning == Joined(reasoningParts)
    IN  IF textParts # <<>> \/ toolCalls # <<>>
        THEN Answer(Joined(textParts), reasoning, toolCalls)
        ELSE IF reasoningParts # <<>> THEN Answer(reasoning, <<>>, <<>>)
        ELSE Failure

ResponsesAnswer ==
    LET text == Joined(textParts)
    IN  IF text # <<>> \/ reasoningParts # <<>> \/ toolCalls # <<>>
        THEN Answer(text, Joined(reasoningParts), toolCalls)
        ELSE Failure

Collected ==
    IF ended = "error" THEN Failure
    ELSE CASE api = "chat" -> ChatAnswer
           [] api = "messages" -> MessagesAnswer
           [] api = "responses" -> ResponsesAnswer

-----------------------------------------------------------------------------
(* The stream translators *)

\* The events for which the translator has a delta.
Shows(events) ==
    { e \in events :
        /\ e.text # <<>>
        /\ ~(api = "messages" /\ e.kind = "serverTool")
        /\ ~(effortOff /\ e.kind = "reasoning") }

BeforeFinish ==
    { received[i] : i \in { k \in DOMAIN received : \A j \in 1..k : received[j].kind # "finish" } }

\* A finish behind no more than this is an error.
NothingShown(shown) ==
    IF api = "chat"
    THEN (\A e \in shown : e.kind = "reasoning") /\ (shown = {} \/ tools)
    ELSE shown = {}

StreamFails == NothingShown(Shows(BeforeFinish))

\* The chat stream goes on behind a finish that is no error.
PassedOn ==
    Shows(IF api = "chat" /\ ~StreamFails THEN Range(received) ELSE BeforeFinish)

-----------------------------------------------------------------------------

Complete == ended = "end" /\ \E e \in Range(received) : e.kind = "finish"

\* What comes behind the finish at which the translator left, and is collected.
Late == Shows(Range(received)) \ PassedOn

\* Deltas have come, but none with anything for the client.  The Messages collector
\* tests its two lists, the Responses collector that of the reasoning, not what they
\* join to.
EmptyAnswer ==
    /\ PassedOn = {}
    /\ \E e \in Range(received) :
          /\ e.text = <<>>
          /\ \/ api = "messages" /\ e.kind # "finish"
             \/ api = "responses" /\ e.kind = "reasoning"

\* A complete upstream response that is an answer with streaming is one without,
\* though two pieces of code decide, at two moments, what an empty response is.  The
\* two verdicts are the same unless content comes behind the finish at which the stream
\* left; but for the empty answers, where the stream ends in an error.
SameVerdict ==
    Complete =>
        /\ Collected.failed => StreamFails
        /\ Late = {} =>
              IF EmptyAnswer THEN StreamFails /\ ~Collected.failed
              ELSE Collected.failed <=> StreamFails

\* An answer holds each delta that the stream passes on once, in one of its parts, in
\* the order received; what it holds besides came behind the finish at which the stream
\* left.
NothingLostOrDoubled ==
    Complete /\ ~Collected.failed =>
        LET a == Collected
            all == a.text \o a.reasoning \o a.calls
        IN  /\ Range(all) = { e.text[1] : e \in PassedOn \cup Late }
            /\ IsInjective(all)
            /\ \A part \in {a.text, a.reasoning, a.calls} :
                  \A i, j \in DOMAIN part : i < j => part[i] < part[j]
=============================================================================
