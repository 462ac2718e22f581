---------------------------- MODULE AnthropicWire ----------------------------
(***************************************************************************)
(* The stream of server-sent events a client of POST /v1/messages may rely *)
(* on: message_start first; content blocks one at a time, numbered from 0  *)
(* without gaps, each with deltas of its own kind only; message_delta and  *)
(* message_stop only after some block, with every block closed; an error   *)
(* event is the last one; nothing follows the end.                         *)
(***************************************************************************)
EXTENDS Naturals

VARIABLES
    frame,  \* the last event sent: [type, index, kind]
    stage,  \* "new", "open", "stopping" (message_delta sent) or "ended"
    block,  \* the kind of the open content block, or "none"
    next    \* the index of the open block, or of the next one

vars == <<frame, stage, block, next>>

Frame(type, index, kind) == [type |-> type, index |-> index, kind |-> kind]

Init ==
    /\ frame = Frame("none", 0, "none")
    /\ stage = "new" /\ block = "none" /\ next = 0

MessageStart ==
    /\ stage = "new" /\ stage' = "open"
    /\ frame' = Frame("message_start", 0, "none")
    /\ UNCHANGED <<block, next>>

BlockStart(kind) ==
    /\ stage = "open"
    /\ block = "none" /\ block' = kind
    /\ frame' = Frame("content_block_start", next, kind)
    /\ UNCHANGED <<stage, next>>

BlockDelta ==
    /\ stage = "open" /\ block # "none"
    /\ frame' = Frame("content_block_delta", next, block)
    /\ UNCHANGED <<stage, block, next>>

BlockStop ==
    /\ stage = "open"
    /\ block # "none" /\ block' = "none"
    /\ frame' = Frame("content_block_stop", next, "none")
    /\ next' = next + 1
    /\ UNCHANGED stage

MessageDelta ==
    /\ stage = "open" /\ stage' = "stopping"
    /\ block = "none" /\ next > 0
    /\ frame' = Frame("message_delta", 0, "none")
    /\ UNCHANGED <<block, next>>

MessageStop ==
    /\ stage = "stopping" /\ stage' = "ended"
    /\ frame' = Frame("message_stop", 0, "none")
    /\ UNCHANGED <<block, next>>

Error ==
    /\ stage \in {"new", "open"} /\ stage' = "ended"
    /\ frame' = Frame("error", 0, "none")
    /\ UNCHANGED <<block, next>>

\* The client goes away.
Gone ==
    /\ stage # "ended" /\ stage' = "ended"
    /\ UNCHANGED <<frame, block, next>>

Next ==
    \/ MessageStart \/ (\E kind \in {"thinking", "text", "tool_use"} : BlockStart(kind))
    \/ BlockDelta \/ BlockStop \/ MessageDelta \/ MessageStop \/ Error \/ Gone

Spec == Init /\ [][Next]_vars
=============================================================================
