--------------------------- MODULE AnthropicStream ---------------------------
(***************************************************************************)
(* translate_anthropic_stream (src/cc_adapter/providers/anthropic/         *)
(* response.py) under stream_with_retry's branch without a detector        *)
(* (src/cc_adapter/core/retry.py): Command Code events in, Anthropic       *)
(* server-sent events out.                                                 *)
(*                                                                         *)
(* The generator is suspended at each yield, where the client may go away, *)
(* so each yield is an action; its guard is the local flags that bring the *)
(* handler to it.  A yield that several handlers share (message_start, a   *)
(* block's close) is one action.  Empty deltas, tool calls the provider    *)
(* executed and events of other types are skipped by the code and change   *)
(* nothing.                                                                *)
(***************************************************************************)
EXTENDS Integers

CONSTANT MaxBlocks  \* bound: no content event arrives after this many blocks

ASSUME AnthropicAssumption == MaxBlocks \in Nat

Content == {"reasoning", "text", "tool"}

\* "failure" is an AdapterError raised by CommandCodeClient.generate, "end" the
\* end of the upstream's stream.
Events == Content \cup {"finish", "error", "end", "failure"}

VARIABLES
    event,        \* the event being translated, "none" between two,
                  \* "stopping" after message_delta
    toolStep,     \* position in the tool-call handler
    hasStarted,   \* has_started
    hasContent,   \* has_content
    inThinking,   \* in_thinking
    inText,       \* in_text
    contentIndex, \* content_index
    frame,        \* the last event sent to the client
    over          \* the generator has returned or was closed

local == <<event, toolStep, hasStarted, hasContent, inThinking, inText, contentIndex>>
vars  == <<local, frame, over>>

Frame(type, index, kind) == [type |-> type, index |-> index, kind |-> kind]

Frames ==
    [type  : {"none", "message_start", "content_block_start", "content_block_delta",
              "content_block_stop", "message_delta", "message_stop", "error"},
     index : Nat,
     kind  : {"none", "thinking", "text", "tool_use"}]

\* Every variable stays in its type.
TypeOK ==
    /\ event \in Events \cup {"none", "stopping"}
    /\ toolStep \in {"none", "opened", "filled"}
    /\ hasStarted \in BOOLEAN /\ hasContent \in BOOLEAN
    /\ inThinking \in BOOLEAN /\ inText \in BOOLEAN
    /\ contentIndex \in Nat
    /\ frame \in Frames
    /\ over \in BOOLEAN

Init ==
    /\ event = "none" /\ toolStep = "none"
    /\ hasStarted = FALSE /\ hasContent = FALSE
    /\ inThinking = FALSE /\ inText = FALSE
    /\ contentIndex = 0
    /\ frame = Frame("none", 0, "none")
    /\ over = FALSE

-----------------------------------------------------------------------------

Emit(type, index, kind) == ~over /\ frame' = Frame(type, index, kind)

Receive(e) ==
    /\ event = "none" /\ ~over
    /\ e \in Content => contentIndex < MaxBlocks
    /\ event' = e
    /\ UNCHANGED <<toolStep, hasStarted, hasContent, inThinking, inText,
                   contentIndex, frame, over>>

MessageStart ==
    /\ event \in Content /\ ~hasStarted
    /\ Emit("message_start", 0, "none")
    /\ hasStarted' = TRUE
    /\ UNCHANGED <<event, toolStep, hasContent, inThinking, inText, contentIndex, over>>

\* Mutant: the end of the stream leaves a thinking block open.
CloseThinkingNotAtEnd ==
    /\ \/ event \in {"text", "tool"} /\ hasStarted
       \/ event = "finish" /\ hasContent
    /\ inThinking /\ inThinking' = FALSE
    /\ Emit("content_block_stop", contentIndex, "none")
    /\ contentIndex' = contentIndex + 1
    /\ UNCHANGED <<event, toolStep, hasStarted, hasContent, inText, over>>

\* A block that the next event does not continue is closed.  At the end of the
\* stream the code leaves flags and index as they are; nothing reads them there.
CloseThinking ==
    /\ \/ event \in {"text", "tool"} /\ hasStarted
       \/ event = "finish" /\ hasContent
       \/ event = "end"
    /\ inThinking /\ inThinking' = FALSE
    /\ Emit("content_block_stop", contentIndex, "none")
    /\ contentIndex' = contentIndex + 1
    /\ UNCHANGED <<event, toolStep, hasStarted, hasContent, inText, over>>

\* Mutant: the index is not advanced past a text block.
CloseTextSameIndex ==
    /\ \/ event = "reasoning" /\ hasStarted
       \/ event = "tool" /\ hasStarted /\ ~inThinking
       \/ event = "finish" /\ hasContent /\ ~inThinking
       \/ event = "end" /\ ~inThinking
    /\ inText /\ inText' = FALSE
    /\ Emit("content_block_stop", contentIndex, "none")
    /\ UNCHANGED <<event, toolStep, hasStarted, hasContent, inThinking, contentIndex, over>>

CloseText ==
    /\ \/ event = "reasoning" /\ hasStarted
       \/ event = "tool" /\ hasStarted /\ ~inThinking
       \/ event = "finish" /\ hasContent /\ ~inThinking
       \/ event = "end" /\ ~inThinking
    /\ inText /\ inText' = FALSE
    /\ Emit("content_block_stop", contentIndex, "none")
    /\ contentIndex' = contentIndex + 1
    /\ UNCHANGED <<event, toolStep, hasStarted, hasContent, inThinking, over>>

OpenThinking ==
    /\ event = "reasoning" /\ hasStarted /\ ~inText
    /\ ~inThinking /\ inThinking' = TRUE
    /\ Emit("content_block_start", contentIndex, "thinking")
    /\ UNCHANGED <<event, toolStep, hasStarted, hasContent, inText, contentIndex, over>>

\* Mutant: a text block is opened over a thinking block.
OpenTextOver ==
    /\ event = "text" /\ hasStarted
    /\ ~inText /\ inText' = TRUE
    /\ Emit("content_block_start", contentIndex, "text")
    /\ UNCHANGED <<event, toolStep, hasStarted, hasContent, inThinking, contentIndex, over>>

OpenText ==
    /\ event = "text" /\ hasStarted /\ ~inThinking
    /\ ~inText /\ inText' = TRUE
    /\ Emit("content_block_start", contentIndex, "text")
    /\ UNCHANGED <<event, toolStep, hasStarted, hasContent, inThinking, contentIndex, over>>

ThinkingDelta ==
    /\ event = "reasoning" /\ hasStarted /\ ~inText /\ inThinking
    /\ Emit("content_block_delta", contentIndex, "thinking")
    /\ hasContent' = TRUE
    /\ event' = "none"
    /\ UNCHANGED <<toolStep, hasStarted, inThinking, inText, contentIndex, over>>

TextDelta ==
    /\ event = "text" /\ hasStarted /\ ~inThinking /\ inText
    /\ Emit("content_block_delta", contentIndex, "text")
    /\ hasContent' = TRUE
    /\ event' = "none"
    /\ UNCHANGED <<toolStep, hasStarted, inThinking, inText, contentIndex, over>>

\* A tool call is a block of its own: start, its input unless empty, stop.
ToolStart ==
    /\ event = "tool" /\ hasStarted /\ ~inThinking /\ ~inText
    /\ toolStep = "none" /\ toolStep' = "opened"
    /\ Emit("content_block_start", contentIndex, "tool_use")
    /\ hasContent' = TRUE
    /\ UNCHANGED <<event, hasStarted, inThinking, inText, contentIndex, over>>

ToolDelta ==
    /\ toolStep = "opened" /\ toolStep' = "filled"
    /\ Emit("content_block_delta", contentIndex, "tool_use")
    /\ UNCHANGED <<event, hasStarted, hasContent, inThinking, inText, contentIndex, over>>

ToolStop ==
    /\ toolStep # "none" /\ toolStep' = "none"
    /\ Emit("content_block_stop", contentIndex, "none")
    /\ contentIndex' = contentIndex + 1
    /\ event' = "none"
    /\ UNCHANGED <<hasStarted, hasContent, inThinking, inText, over>>

MessageDelta ==
    /\ event = "finish" /\ hasContent /\ ~inThinking /\ ~inText
    /\ Emit("message_delta", 0, "none")
    /\ event' = "stopping"
    /\ UNCHANGED <<toolStep, hasStarted, hasContent, inThinking, inText, contentIndex, over>>

MessageStop ==
    /\ event = "stopping"
    /\ Emit("message_stop", 0, "none")
    /\ over' = TRUE
    /\ UNCHANGED local

\* The error events: the upstream's own, with its blocks left open; a truncated
\* stream, after the blocks; and the AdapterErrors (an empty response, a failed
\* upstream) that stream_with_retry turns into one.
Error ==
    /\ \/ event \in {"error", "failure"}
       \/ event = "end" /\ ~inThinking /\ ~inText
       \/ event = "finish" /\ ~hasContent
    /\ Emit("error", 0, "none")
    /\ over' = TRUE
    /\ UNCHANGED local

\* The client disconnects and the generator is closed where it is suspended.
Disconnect ==
    /\ ~over
    /\ over' = TRUE
    /\ UNCHANGED <<local, frame>>

Translate ==
    \/ MessageStart \/ CloseThinking \/ CloseText \/ OpenThinking \/ OpenText
    \/ ThinkingDelta \/ TextDelta \/ ToolStart \/ ToolDelta \/ ToolStop
    \/ MessageDelta \/ MessageStop \/ Error

Next == (\E e \in Events : Receive(e)) \/ Translate \/ Disconnect

Spec == Init /\ [][Next]_vars

\* The server drains the generator.  An upstream that goes on sending comes to its
\* end at some time, if only by the read timeout: strong, because between two
\* events the generator is not waiting for one.
UpstreamStops == \E e \in Events \ Content : Receive(e)

FairSpec == Spec /\ WF_vars(Translate) /\ SF_vars(UpstreamStops)

-----------------------------------------------------------------------------

\* At most one block is open, it was preceded by message_start, the tool-call
\* handler runs with the other blocks closed, and a message that may be completed
\* has a block: what the five flags, set in five handlers, must agree on.
FlagsAgree ==
    /\ ~(inThinking /\ inText)
    /\ inThinking \/ inText \/ hasContent => hasStarted
    /\ toolStep # "none" => event = "tool" /\ hasContent /\ ~inThinking /\ ~inText
    /\ event \in {"none", "error", "failure"} /\ (inThinking \/ inText) => hasContent
    /\ event = "stopping" => hasContent /\ ~inThinking /\ ~inText /\ contentIndex > 0
    /\ hasContent /\ ~inThinking /\ ~inText /\ toolStep = "none" => contentIndex > 0
    /\ event = "finish" /\ ~hasContent => ~inThinking /\ ~inText

\* Every stream comes to its end: no flag combination leaves a handler stuck.
StreamEnds == <>over

\* The flags, read as the state of the client's stream.
Wire == INSTANCE AnthropicWire WITH
    stage <- IF over THEN "ended" ELSE IF event = "stopping" THEN "stopping"
             ELSE IF hasStarted THEN "open" ELSE "new",
    block <- IF inThinking THEN "thinking" ELSE IF inText THEN "text"
             ELSE IF toolStep # "none" THEN "tool_use" ELSE "none",
    next  <- contentIndex

\* Whatever the upstream sends and wherever it or the client stops, the client
\* sees a well-formed Anthropic stream.
WireSpec == Wire!Spec
=============================================================================
