----------------------------- MODULE Conversation -----------------------------
(***************************************************************************)
(* The translation of a conversation into the upstream's messages, by the  *)
(* request translators of the three protocols (_split_messages in          *)
(* src/cc_adapter/providers/openai/request.py, _build_messages in          *)
(* anthropic/request.py and _build_messages in openai/                     *)
(* responses_request.py), compared with one another.                       *)
(*                                                                         *)
(* The state is a conversation as a client knows it, a sequence of         *)
(* messages made of blocks.  It grows block by block, and every state is a *)
(* request.  A block carries the number of its place in the conversation,  *)
(* its stamp, as a text of one element; a blank text is the empty one, and *)
(* the concatenation of texts is that of the sequences.                    *)
(***************************************************************************)
EXTENDS Naturals, Sequences, SequencesExt, FiniteSetsExt

CONSTANTS
    Ids, Names,  \* of tool calls
    MaxBlocks,   \* bound: blocks in the conversation
    MaxMessages  \* bound: messages in the conversation

ASSUME ConversationAssumption ==
    /\ "unknown" \notin Names
    /\ MaxBlocks \in Nat /\ MaxMessages \in Nat

VARIABLES
    conversation,
    embedded     \* a Responses client that puts its calls into message items

vars == <<conversation, embedded>>

Stamps == 1..MaxBlocks

Kinds == {"text", "image", "thinking", "call", "result"}

Block(kind, id, name, value) == [kind |-> kind, id |-> id, name |-> name, value |-> value]

\* No id, no name.
Blank == ""

Text(value) == Block("text", Blank, Blank, value)

\* The blocks of certain kinds, and the messages of certain roles, in order.
OfKinds(blocks, kinds) ==
    FlattenSeq([i \in DOMAIN blocks |->
        IF blocks[i].kind \in kinds THEN <<blocks[i]>> ELSE <<>>])

OfKind(blocks, kind) == OfKinds(blocks, {kind})

OfRoles(messages, roles) ==
    FlattenSeq([i \in DOMAIN messages |->
        IF messages[i].role \in roles THEN <<messages[i]>> ELSE <<>>])

Joined(blocks) == FlattenSeq([i \in DOMAIN blocks |-> blocks[i].value])

AllBlocks(messages) == FlattenSeq([i \in DOMAIN messages |-> messages[i].blocks])

Init == conversation = <<>> /\ embedded \in BOOLEAN

Open(role) ==
    /\ Len(conversation) < MaxMessages
    /\ conversation' = Append(conversation, [role |-> role, blocks |-> <<>>])
    /\ UNCHANGED embedded

\* What a client may put into a message of a role, the stamp given.
Sayable(role, stamp) ==
    {Text(<<stamp>>), Text(<<>>)} \cup
    CASE role = "system" -> {}
      [] role = "user" ->
            {Block("image", Blank, Blank, <<stamp>>)} \cup
            { Block("result", id, Blank, <<stamp>>) : id \in Ids }
      [] role = "assistant" ->
            {Block("thinking", Blank, Blank, <<stamp>>)} \cup
            { Block("call", id, name, <<stamp>>) : id \in Ids, name \in Names }

Say ==
    LET n == Len(conversation)
        said == Len(AllBlocks(conversation))
    IN  /\ n > 0 /\ said < MaxBlocks
        /\ \E b \in Sayable(conversation[n].role, said + 1) :
              conversation' = [conversation EXCEPT ![n].blocks = Append(@, b)]
        /\ UNCHANGED embedded

Next == (\E role \in {"system", "user", "assistant"} : Open(role)) \/ Say

Spec == Init /\ [][Next]_vars

-----------------------------------------------------------------------------
(* What all translators share *)

Message(role, blocks) == [role |-> role, blocks |-> blocks]

\* tool_names.get(id, "unknown") over a dictionary filled call by call.
NoNames == [id \in Ids |-> "unknown"]

Note(names, calls) ==
    [id \in Ids |->
        LET of == { i \in DOMAIN calls : calls[i].id = id }
        IN  IF of = {} THEN names[id] ELSE calls[Max(of)].name]

\* make_tool_result_block in a message of its own.
Result(b, names) == Message("tool", <<[b EXCEPT !.name = names[b.id]]>>)

-----------------------------------------------------------------------------
(* Chat Completions *)

\* What a Chat client sends for one message: results are messages of their own,
\* calls are kept apart from the content, reasoning is not sent.
ToChat(m) ==
    LET results == OfKind(m.blocks, "result")
        content == OfKinds(m.blocks, {"text", "image"})
    IN  [i \in DOMAIN results |-> [role |-> "tool", blocks |-> <<results[i]>>, calls |-> <<>>]] \o
        (IF results # <<>> /\ content = <<>> THEN <<>>
         ELSE <<[role |-> m.role, blocks |-> content, calls |-> OfKind(m.blocks, "call")]>>)

ChatRequest(messages) ==
    LET upTo[n \in 0..Len(messages)] ==
            IF n = 0 THEN <<>> ELSE upTo[n - 1] \o ToChat(messages[n])
    IN  upTo[Len(messages)]

\* ChatMessage.coerce_content: a list without an image is joined to one text.
Coerced(content) ==
    IF content = <<>> \/ OfKind(content, "image") # <<>> THEN content
    ELSE <<Text(Joined(content))>>

\* Mutant: the names are noted only where the content is missing.
ChatMessageOnlyCalls(acc, m) ==
    CASE m.role = "system" -> [acc EXCEPT !.system = Joined(m.blocks)]
      [] m.role = "tool" -> [acc EXCEPT !.out = Append(@, Result(m.blocks[1], acc.names))]
      [] OTHER ->
            LET content == Coerced(m.blocks) \o m.calls
            IN  [acc EXCEPT !.names = IF m.blocks = <<>> THEN Note(@, m.calls) ELSE @,
                            !.out = Append(@, Message(m.role,
                                IF content = <<>> THEN <<Text(<<>>)>> ELSE content))]

ChatMessage(acc, m) ==
    CASE m.role = "system" -> [acc EXCEPT !.system = Joined(m.blocks)]
      [] m.role = "tool" -> [acc EXCEPT !.out = Append(@, Result(m.blocks[1], acc.names))]
      [] OTHER ->
            LET content == Coerced(m.blocks) \o m.calls
            IN  [acc EXCEPT !.names = Note(@, m.calls),
                            !.out = Append(@, Message(m.role,
                                IF content = <<>> THEN <<Text(<<>>)>> ELSE content))]

\* The loop over the request's messages.
ChatLoop(request) ==
    LET after[n \in 0..Len(request)] ==
            IF n = 0 THEN [system |-> <<>>, names |-> NoNames, out |-> <<>>]
            ELSE ChatMessage(after[n - 1], request[n])
    IN  after[Len(request)]

Chat(messages) == ChatLoop(ChatRequest(messages))

-----------------------------------------------------------------------------
(* Messages *)

\* normalize_system_messages: all system texts, joined; the other messages.
SystemText(messages) ==
    Joined(AllBlocks(OfRoles(messages, {"system"})))

Others(messages) == OfRoles(messages, {"user", "assistant"})

\* _translate_content_blocks: thinking is left out.
TranslateContentBlocks(blocks) == OfKinds(blocks, Kinds \ {"thinking"})

\* Mutant: a message with results is sent as results only.
MessageToMessagesResultsOnly(m, names) ==
    LET blocks == TranslateContentBlocks(m.blocks)
        results == OfKind(blocks, "result")
        other == OfKinds(blocks, Kinds \ {"result"})
    IN  (IF other = <<>> \/ results # <<>> THEN <<>> ELSE <<Message(m.role, other)>>) \o
        [i \in DOMAIN results |-> Result(results[i], names)]

\* Mutant: results stay among the blocks of the user's message.
MessageToMessagesUnsplit(m, names) ==
    LET blocks == TranslateContentBlocks(m.blocks)
    IN  IF blocks = <<>> THEN <<>> ELSE <<Message(m.role, blocks)>>

\* The results of a message follow its other blocks, each in a message.
MessageToMessages(m, names) ==
    LET blocks == TranslateContentBlocks(m.blocks)
        results == OfKind(blocks, "result")
        other == OfKinds(blocks, Kinds \ {"result"})
    IN  (IF other = <<>> THEN <<>> ELSE <<Message(m.role, other)>>) \o
        [i \in DOMAIN results |-> Result(results[i], names)]

\* The loop over the messages.
MessagesLoop(messages, names) ==
    LET after[n \in 0..Len(messages)] ==
            IF n = 0 THEN <<>> ELSE after[n - 1] \o MessageToMessages(messages[n], names)
    IN  after[Len(messages)]

\* The names are those of all calls of the conversation, noted beforehand.
Messages(messages) ==
    LET others == Others(messages)
        names == Note(NoNames, OfKind(AllBlocks(others), "call"))
    IN  [system |-> SystemText(messages),
         out |-> MessagesLoop(others, names)]

-----------------------------------------------------------------------------
(* Responses *)

\* What a Responses client sends for one message: items, a single text as a string.
ToItems(m) ==
    LET calls == OfKind(m.blocks, "call")
        results == OfKind(m.blocks, "result")
        content == OfKinds(m.blocks, {"text", "image"})
        item(type, blocks, inside) ==
            [type |-> type, role |-> m.role, blocks |-> blocks, calls |-> inside]
    IN  [i \in DOMAIN results |-> item("function_call_output", <<results[i]>>, <<>>)] \o
        (IF content = <<>> /\ (results # <<>> \/ (calls # <<>> /\ ~embedded)) THEN <<>>
         ELSE <<item("message", content, IF embedded THEN calls ELSE <<>>)>>) \o
        (IF embedded THEN <<>>
         ELSE [i \in DOMAIN calls |-> item("function_call", <<calls[i]>>, <<>>)])

ResponsesInput(messages) ==
    LET upTo[n \in 0..Len(messages)] ==
            IF n = 0 THEN <<>> ELSE upTo[n - 1] \o ToItems(messages[n])
    IN  upTo[Len(messages)]

\* _validate_message_item and the block loop: what is answered with 400.
Unsupported(item) ==
    \/ OfKind(item.blocks, "image") # <<>>
    \/ Joined(item.blocks) = <<>> /\ item.calls = <<>>
    \/ Len(item.blocks) > 1 /\ \E i \in DOMAIN item.blocks : item.blocks[i].value = <<>>

NonEmpty(blocks) ==
    FlattenSeq([i \in DOMAIN blocks |-> IF blocks[i].value # <<>> THEN <<blocks[i]>> ELSE <<>>])

\* _translate_input_item; a request is refused as a whole.
TranslateInputItem(acc, item) ==
    IF ~acc.ok THEN acc ELSE
    CASE item.type = "message" ->
            IF Unsupported(item) THEN [acc EXCEPT !.ok = FALSE]
            ELSE [acc EXCEPT !.names = Note(@, item.calls),
                             !.out = Append(@, Message(item.role,
                                NonEmpty(item.blocks) \o item.calls))]
      [] item.type = "function_call" ->
            [acc EXCEPT !.names = Note(@, item.blocks),
                        !.out = Append(@, Message("assistant", item.blocks))]
      [] item.type = "function_call_output" ->
            IF acc.names[item.blocks[1].id] = "unknown" THEN [acc EXCEPT !.ok = FALSE]
            ELSE [acc EXCEPT !.out = Append(@, Result(item.blocks[1], acc.names))]

\* The loop over the request's items.
ResponsesLoop(input) ==
    LET after[n \in 0..Len(input)] ==
            IF n = 0 THEN [ok |-> TRUE, system |-> <<>>, names |-> NoNames, out |-> <<>>]
            ELSE TranslateInputItem(after[n - 1], input[n])
    IN  after[Len(input)]

Responses(messages) == ResponsesLoop(ResponsesInput(messages))

-----------------------------------------------------------------------------
(* The session an upstream request belongs to (session_extractor.py) *)

\* Mutant: the latest user message takes part in the hash.
FirstTextFromRoleLast(out, role) ==
    LET ofRole == OfRoles(out, {role})
    IN  IF ofRole = <<>> THEN <<>> ELSE Joined(OfKind(Last(ofRole).blocks, "text"))

\* _first_text_from_role: the texts of the first message of the role.
FirstTextFromRole(out, role) ==
    LET ofRole == OfRoles(out, {role})
    IN  IF ofRole = <<>> THEN <<>> ELSE Joined(OfKind(Head(ofRole).blocks, "text"))

\* extract_stable_flag without a session header: what _content_hash hashes.
StableFlag(request) == <<request.system, FirstTextFromRole(request.out, "user")>>

-----------------------------------------------------------------------------
(* Properties *)

Said == Range(AllBlocks(conversation))

Calls == { b \in Said : b.kind = "call" }

\* The calls that a result may answer: those before it, by the stamps.
CallsBefore(result) ==
    { c \in Said : c.kind = "call" /\ c.id = result.id /\ c.value[1] < result.value[1] }

\* The name of the latest of them.
NameBefore(result) ==
    LET calls == CallsBefore(result)
    IN  IF calls = {} THEN "unknown"
        ELSE (CHOOSE c \in calls : \A d \in calls : d.value[1] <= c.value[1]).name

ResultsIn(out) == { b \in Range(AllBlocks(out)) : b.kind = "result" }

IdsUsedOnce == \A c, d \in Calls : c.id = d.id => c = d

\* Every tool result goes upstream under the name of the call it answers, the
\* latest before it with its id, and under "unknown" only when there is none.  Two
\* translators look the name up while the dictionary is being filled; the Messages
\* translator fills it first, with the calls after the result as well, and agrees
\* as long as no id is used twice and no result comes before its call.
NamedAfterTheirCalls ==
    /\ \A r \in ResultsIn(Chat(conversation).out) : r.name = NameBefore(r)
    /\ LET responses == Responses(conversation)
       IN  responses.ok => \A r \in ResultsIn(responses.out) :
                              r.name = NameBefore(r) /\ r.name # "unknown"
    /\ \A r \in ResultsIn(Messages(conversation).out) :
          /\ CallsBefore(r) # {} => r.name \in { c.name : c \in { d \in Calls : d.id = r.id } }
          /\ IdsUsedOnce /\ CallsBefore(r) # {} => r.name = NameBefore(r)

\* The stamps of what an upstream request says, place by place.
StampsOf(out) == Joined(AllBlocks(out))

Sent(kinds) ==
    { b.value[1] : b \in { c \in Said : c.kind \in kinds /\ c.value # <<>> } }

SystemStamps == Range(SystemText(conversation))

\* Each translator sends every text, image, call and result of the conversation
\* once, in a message that is not empty; Messages keeps every system text.
NothingLostOrDoubled ==
    LET once(out, stamps) ==
            LET sent == StampsOf(out)
            IN  /\ Range(sent) = stamps
                /\ Len(sent) = Cardinality(stamps)
                /\ \A i \in DOMAIN out : out[i].blocks # <<>>
        all == Sent({"text", "image", "call", "result"})
        responses == Responses(conversation)
    IN  /\ once(Chat(conversation).out, all \ SystemStamps)
        /\ once(Messages(conversation).out, all \ SystemStamps)
        /\ responses.ok => once(responses.out, all)

\* What a role says in blocks of each kind, in order.
SaidBy(out, role) ==
    LET blocks == AllBlocks(OfRoles(out, {role}))
    IN  [kind \in Kinds |-> Joined(OfKind(blocks, kind))]

SystemMessages == { i \in DOMAIN conversation : conversation[i].role = "system" }

\* The three protocols carry one conversation to the upstream alike: each role
\* says the same in the same order, and the system prompt is the same while there is
\* one system message (Chat keeps the last of several, Messages all).
ProtocolsAgree ==
    LET chat == Chat(conversation)
        messages == Messages(conversation)
        responses == Responses(conversation)
    IN  /\ \A role \in {"user", "assistant", "tool"} :
              LET said == SaidBy(chat.out, role)
              IN  /\ SaidBy(messages.out, role) = said
                  /\ responses.ok => SaidBy(responses.out, role) = said
        /\ Cardinality(SystemMessages) <= 1 =>
              /\ chat.system = messages.system
              /\ responses.ok => SaidBy(responses.out, "system")["text"] = chat.system

\* The messages up to the first user message that is followed by another message.
OpeningEnds ==
    { i \in 1..Len(conversation) - 1 :
        conversation[i].role = "user" /\ \A j \in 1..i - 1 : conversation[j].role # "user" }

\* "Return a string that is stable across all turns of one conversation"
\* (session_extractor.py:65): whatever is said after a first user message with text,
\* the session is that of the first turn, in all protocols, as long as no system
\* message follows.  The flag is taken from the translated request, so this depends
\* on what each translator makes of the first messages, and of the later ones.
SessionIsStable ==
    \A i \in OpeningEnds :
        LET opening == SubSeq(conversation, 1, i)
        IN  /\ Joined(OfKind(opening[i].blocks, "text")) # <<>>
            /\ \A j \in SystemMessages : j < i
            => /\ StableFlag(Chat(conversation)) = StableFlag(Chat(opening))
               /\ StableFlag(Messages(conversation)) = StableFlag(Messages(opening))
               /\ Responses(conversation).ok =>
                     StableFlag(Responses(conversation)) = StableFlag(Responses(opening))
=============================================================================
