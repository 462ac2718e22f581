--------------------------- MODULE ResponsesStream ---------------------------
(***************************************************************************)
(* The stream of POST /v1/responses: translate_responses_stream and its    *)
(* _ResponsesStreamState (src/cc_adapter/providers/openai/                 *)
(* responses_response.py) under stream_with_retry's branch without a       *)
(* detector.                                                               *)
(*                                                                         *)
(* Nothing but the client's departure happens between two yields of one    *)
(* event, so an action is a whole event and appends the frames it yields   *)
(* to "sent"; a client that leaves has seen a prefix of it.  A delta's     *)
(* text is the number of its event, a buffer the sequence of those; ids    *)
(* are numbered as generate_id hands them out.  Empty deltas and events of *)
(* other types are skipped by the code and change nothing.                 *)
(***************************************************************************)
EXTENDS Naturals, Sequences, SequencesExt

CONSTANT MaxEvents  \* bound: content events of the upstream

ASSUME ResponsesAssumption == MaxEvents \in Nat

Deltas == {"reasoning", "text"}
Items  == Deltas \cup {"fc"}

VARIABLES
    events,        \* content events received
    ids,           \* item ids handed out
    buf,           \* reasoning_buf and text_buf
    itemId,        \* reasoning_item_id and text_item_id, 0 for None
    calls,         \* fc_item_ids, fc_call_ids, fc_names, fc_args: [id, text]
    outputIndex,   \* output_index
    hasAnyOutput,  \* has_any_output
    bootstrapDone, \* bootstrap_done
    currentType,   \* current_item_type
    currentId,     \* current_item_id, 0 for None
    sent,          \* the frames sent to the client
    over           \* the stream has ended or the client has left

current == <<currentType, currentId>>
vars == <<events, ids, buf, itemId, calls, outputIndex, hasAnyOutput,
          bootstrapDone, current, sent, over>>

Frame(type, item, id, index, text) ==
    [type |-> type, item |-> item, id |-> id, index |-> index, text |-> text]

Plain(type) == Frame(type, "none", 0, 0, <<>>)

Init ==
    /\ events = 0 /\ ids = 0
    /\ buf = [k \in Deltas |-> <<>>] /\ itemId = [k \in Deltas |-> 0]
    /\ calls = <<>>
    /\ outputIndex = 0
    /\ hasAnyOutput = FALSE /\ bootstrapDone = FALSE
    /\ currentType = "none" /\ currentId = 0
    /\ sent = <<>> /\ over = FALSE

-----------------------------------------------------------------------------

Bootstrap ==
    IF bootstrapDone THEN <<>> ELSE <<Plain("created"), Plain("in_progress")>>

\* close_current_item: the frames, and the output_index it leaves.
Closing ==
    IF currentType = "none" THEN <<>>
    ELSE LET Done(type) == Frame(type, currentType, currentId, outputIndex, buf[currentType])
         IN  IF currentType = "text"
             THEN <<Done("part_done"), Done("text_done"), Done("item_done")>>
             ELSE <<Done("part_done"), Done("item_done")>>

\* Mutant: closing an item does not move on to the next output index.
SameIndex == outputIndex

NextIndex == outputIndex + (IF currentType = "none" THEN 0 ELSE 1)

Event ==
    /\ ~over /\ events < MaxEvents
    /\ events' = events + 1
    /\ bootstrapDone' = TRUE /\ hasAnyOutput' = TRUE
    /\ UNCHANGED over

\* A delta of the current item.
Continue(kind) ==
    /\ Event
    /\ currentType = kind
    /\ buf' = [buf EXCEPT ![kind] = Append(@, events')]
    /\ sent' = sent \o Bootstrap
                    \o <<Frame("delta", kind, currentId, outputIndex, <<events'>>)>>
    /\ UNCHANGED <<ids, itemId, calls, outputIndex, current>>

\* A delta of another kind closes the current item and opens its own.
Opening(kind, id, index) ==
    <<Frame("item_added", kind, id, index, <<>>),
      Frame("part_added", kind, id, index, <<>>),
      Frame("delta", kind, id, index, <<events'>>)>>

\* Mutant: the buffer starts with the second delta of an item.
SwitchUnbuffered(kind) ==
    /\ Event
    /\ currentType # kind
    /\ ids' = ids + 1
    /\ currentType' = kind /\ currentId' = ids'
    /\ itemId' = [itemId EXCEPT ![kind] = ids']
    /\ outputIndex' = NextIndex
    /\ sent' = sent \o Bootstrap \o Closing \o Opening(kind, ids', NextIndex)
    /\ UNCHANGED <<calls, buf>>

\* Mutant: the item id of the final response is that of the kind's first item.
SwitchFirstId(kind) ==
    /\ Event
    /\ currentType # kind
    /\ ids' = ids + 1
    /\ currentType' = kind /\ currentId' = ids'
    /\ itemId' = [itemId EXCEPT ![kind] = IF @ = 0 THEN ids' ELSE @]
    /\ buf' = [buf EXCEPT ![kind] = Append(@, events')]
    /\ outputIndex' = NextIndex
    /\ sent' = sent \o Bootstrap \o Closing \o Opening(kind, ids', NextIndex)
    /\ UNCHANGED calls

Switch(kind) ==
    /\ Event
    /\ currentType # kind
    /\ ids' = ids + 1
    /\ currentType' = kind /\ currentId' = ids'
    /\ itemId' = [itemId EXCEPT ![kind] = ids']
    /\ buf' = [buf EXCEPT ![kind] = Append(@, events')]
    /\ outputIndex' = NextIndex
    /\ sent' = sent \o Bootstrap \o Closing \o Opening(kind, ids', NextIndex)
    /\ UNCHANGED calls

Call(id, index) ==
    <<Frame("item_added", "fc", id, index, <<>>),
      Frame("delta", "fc", id, index, <<events'>>),
      Frame("arguments_done", "fc", id, index, <<events'>>),
      Frame("item_done", "fc", id, index, <<events'>>)>>

\* A tool call is opened and closed by its one event.
ToolCall ==
    /\ Event
    /\ ids' = ids + 1
    /\ calls' = Append(calls, [id |-> ids', text |-> events'])
    /\ outputIndex' = NextIndex + 1
    /\ currentType' = "none" /\ currentId' = 0
    /\ sent' = sent \o Bootstrap \o Closing \o Call(ids', NextIndex)
    /\ UNCHANGED <<buf, itemId>>

Ends(frames) ==
    /\ ~over /\ over' = TRUE
    /\ sent' = sent \o frames
    /\ UNCHANGED <<events, ids, buf, itemId, calls, bootstrapDone, hasAnyOutput>>

\* The final response lists one reasoning item, one message and the calls.
OutputItems ==
    LET Whole(kind) == IF buf[kind] = <<>> THEN <<>>
                       ELSE <<[item |-> kind, id |-> itemId[kind], text |-> buf[kind]]>>
    IN  Whole("reasoning") \o Whole("text")
        \o [i \in DOMAIN calls |-> [item |-> "fc", id |-> calls[i].id, text |-> <<calls[i].text>>]]

Finish ==
    /\ hasAnyOutput
    /\ Ends(Append(Closing, [type |-> "completed", output |-> OutputItems]))
    /\ outputIndex' = NextIndex
    /\ currentType' = "none" /\ currentId' = 0

\* The error event; the end of a truncated stream; and the AdapterErrors (an empty
\* response, a failed upstream) that stream_with_retry turns into one.  The current
\* item stays open.
Error ==
    /\ Ends(<<Plain("error")>>)
    /\ UNCHANGED <<outputIndex, current>>

Disconnect ==
    /\ Ends(<<>>)
    /\ UNCHANGED <<outputIndex, current>>

Next ==
    \/ \E kind \in Deltas : Continue(kind) \/ Switch(kind)
    \/ ToolCall \/ Finish \/ Error \/ Disconnect

Spec == Init /\ [][Next]_vars

-----------------------------------------------------------------------------

Positions(type) == { i \in DOMAIN sent : sent[i].type = type }

Before(type, i) == Cardinality({ j \in Positions(type) : j < i })

\* The client may follow the items by their frames alone: the response is created
\* first, items are opened one at a time under consecutive output indexes, every
\* frame of an item carries the id, kind and index it was opened with, and a
\* completed response leaves none open (output_index and current_item_* are kept
\* by hand in five handlers).
ItemsOneByOne ==
    /\ \A i \in DOMAIN sent : sent[i].type \notin {"created", "error"} =>
          sent[1].type = "created" /\ (i > 1 => sent[2].type = "in_progress")
    /\ Cardinality(Positions("created")) <= 1
    /\ \A i \in Positions("item_added") :
          /\ Before("item_done", i) = Before("item_added", i)
          /\ sent[i].index = Before("item_added", i)
          /\ \A j \in Positions("item_added") : j # i => sent[j].id # sent[i].id
    /\ \A i \in DOMAIN sent :
          sent[i].type \in {"part_added", "delta", "part_done", "text_done",
                            "arguments_done", "item_done"} =>
             \E j \in Positions("item_added") :
                /\ j < i /\ Before("item_done", i) = Before("item_done", j)
                /\ sent[j].id = sent[i].id /\ sent[j].item = sent[i].item
                /\ sent[j].index = sent[i].index
    /\ \A i \in Positions("completed") : Before("item_done", i) = Before("item_added", i)

DeltasIn(frames, Of(_)) ==
    FlattenSeq([i \in DOMAIN frames |->
        IF frames[i].type = "delta" /\ Of(frames[i]) THEN frames[i].text ELSE <<>>])

DeltasOf(Of(_)) == DeltasIn(sent, Of)

\* The text an item is closed with ends in the deltas the item was streamed with, and
\* what precedes them are the last deltas of earlier items of its kind, none skipped
\* or repeated: a client that trusts either agrees on the end.  (text_buf and
\* reasoning_buf, never cleared, put all the deltas of its kind there.)
DoneEndsInItsDeltas ==
    \A i \in Positions("item_done") :
        /\ IsSuffix(DeltasOf(LAMBDA f : f.id = sent[i].id), sent[i].text)
        /\ IsSuffix(sent[i].text, DeltasIn(SubSeq(sent, 1, i), LAMBDA f : f.item = sent[i].item))

\* response.completed repeats what was streamed: each of its items was closed with
\* the same id, kind and content, each call is there once, in order, and the
\* reasoning and the message are all their deltas.
CompletedRepeatsTheStream ==
    \A i \in Positions("completed") :
        LET output == sent[i].output
            Whole(kind) == { o \in Range(output) : o.item = kind }
        IN  /\ i = Len(sent)
            /\ \A o \in Range(output) : \E j \in Positions("item_done") :
                  sent[j].item = o.item /\ sent[j].id = o.id /\ sent[j].text = o.text
            /\ \A kind \in Deltas :
                  LET streamed == DeltasOf(LAMBDA f : f.item = kind)
                  IN  { o.text : o \in Whole(kind) } = IF streamed = <<>> THEN {} ELSE {streamed}
            /\ DeltasOf(LAMBDA f : f.item = "fc")
               = FlattenSeq([j \in DOMAIN output |->
                     IF output[j].item = "fc" THEN output[j].text ELSE <<>>])
=============================================================================
