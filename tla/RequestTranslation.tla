-------------------------- MODULE RequestTranslation --------------------------
(***************************************************************************)
(* A request as the three translators send it upstream: the conversation,  *)
(* the model and its effort, and the tools (_build_body in                 *)
(* src/cc_adapter/providers/openai/request.py, anthropic/request.py and    *)
(* openai/responses_request.py; translate_tool_choice in shared/           *)
(* tool_mapping.py).                                                       *)
(*                                                                         *)
(* None of the three depends on the others.  They are varied one at a      *)
(* time, which bounds the states and leaves out no case.                   *)
(***************************************************************************)
EXTENDS Conversation, ModelMapping

CONSTANTS
    Tools,   \* names of tools, declared or not
    Budgets  \* thinking budgets of Messages requests

ASSUME TranslationAssumption ==
    /\ Budgets \subseteq Nat /\ Highest >= 4
    /\ None \notin Tools \cup [type : {"auto", "none", "any", "tool"}, name : Tools \cup {None}]

VARIABLES
    tools,  \* the declared tools
    choice  \* tool_choice

requestVars == <<vars, mappingVars, tools, choice>>

\* A tool_choice is a text or an object; an object may name a tool, by itself or
\* inside "function".
Texts == { [form |-> "text", type |-> t, name |-> None] : t \in {"auto", "none", "required", "other"} }
Objects == { [form |-> form, type |-> t, name |-> n] :
                form \in {"object", "nested"}, t \in {"auto", "none", "any", "function", "missing"},
                n \in Tools \cup {None} }

NoChoice == [form |-> "absent", type |-> "missing", name |-> None]

RequestInit ==
    /\ Init /\ MappingInit
    /\ tools \in SUBSET Tools
    /\ choice \in Texts \cup Objects \cup {NoChoice}

RequestNext ==
    /\ tools = {} /\ choice = NoChoice
    /\ \/ entries = <<>> /\ Next /\ UNCHANGED mappingVars
       \/ conversation = <<>> /\ ~embedded /\ MappingNext /\ UNCHANGED vars
    /\ UNCHANGED <<tools, choice>>

RequestSpec == RequestInit /\ [][RequestNext]_requestVars

-----------------------------------------------------------------------------
(* Model and effort *)

\* What the upstream is told: the model and its effort, if any.
Settings(id, effort) == [model |-> Resolve(id), effort |-> effort]

\* Mutant: the effort of the model as the client calls it.
NamedEffortUnresolved(id, effort) ==
    Settings(id, LET supported == Supported(id)
                 IN  IF effort = None \/ supported = None THEN None
                     ELSE ClampTo(supported, effort))

\* Chat and Responses name an effort.  A Responses client may name any text.
NamedEffort(id, effort) == Settings(id, Clamp(Resolve(id), effort))

\* _budget_to_effort: low, medium, high, xhigh.
BudgetToEffort(budget) ==
    IF budget = None THEN None
    ELSE CASE budget < 4000 -> 1
           [] 4000 <= budget /\ budget < 8000 -> 2
           [] 8000 <= budget /\ budget < 16000 -> 3
           [] 16000 <= budget -> 4

\* Messages, where thinking is enabled.
Budgeted(id, budget) == NamedEffort(id, BudgetToEffort(budget))

-----------------------------------------------------------------------------
(* Tools *)

\* translate_tool_choice: a function's name, then a type of the upstream's, which
\* goes on as it is, then a name beside the type "function"; "auto" for the rest.
TranslateToolChoice ==
    LET to(type, name) == [type |-> type, name |-> name]
    IN  CASE choice.form = "absent" -> None
          [] choice.form = "text" ->
                to(CASE choice.type \in {"auto", "none"} -> choice.type
                     [] choice.type = "required" -> "any"
                     [] OTHER -> "auto", None)
          [] choice.form = "nested" /\ choice.name # None -> to("tool", choice.name)
          [] choice.type \in {"auto", "none", "any"} -> to(choice.type, choice.name)
          [] choice.type = "function" /\ choice.name # None -> to("tool", choice.name)
          [] OTHER -> to("auto", None)

\* Chat sends a choice only with tools.
ChatChoice == IF tools = {} THEN None ELSE TranslateToolChoice

\* tools_available of the Chat router, which the answer's translators go by.
ToolsAvailable == tools # {} /\ choice # [form |-> "text", type |-> "none", name |-> None]

\* Mutant: a name is looked for only where tools are declared.
ResponsesRefusesUndeclared ==
    LET sent == TranslateToolChoice
    IN  sent # None /\ sent.name # None /\ tools # {} /\ sent.name \notin tools

\* Responses refuses a choice that names no declared tool.
ResponsesRefuses ==
    LET sent == TranslateToolChoice
    IN  sent # None /\ sent.name # None /\ sent.name \notin tools

-----------------------------------------------------------------------------

Greatest(list) == CHOOSE e \in Range(list) : \A f \in Range(list) : f <= e

\* The effort sent is one that the model sent has, or "off": the one asked for, the
\* nearest higher if the model lacks it (admin/router.py:157), or its greatest if
\* there is none higher.  Only a model without a list goes without.  The id is
\* resolved before the effort is, and again with it: both have to mean one model.
FitsModel(sent, effort) ==
    LET list == Supported(sent.model)
    IN  IF effort = None \/ list = None THEN sent.effort = None
        ELSE IF effort = 0 THEN sent.effort = 0
        ELSE LET higher == { e \in Range(list) : effort # Unknown /\ e >= effort }
             IN  IF higher = {} THEN sent.effort = Greatest(list)
                 ELSE sent.effort \in higher /\ \A e \in higher : sent.effort <= e

\* The names clients use: ids, and short and built-in names.
ModelNames ==
    Found \cup { Id(None, s) : s \in DOMAIN StaticMap \cup { id.short : id \in Found } }

\* Every model gets an effort it has, and a larger budget never less of it, whatever
\* release was read.  (No conversation changes a map.)
EffortsFit ==
    conversation = <<>> => \A id \in ModelNames :
        /\ \A effort \in Efforts \cup {Unknown, None} : FitsModel(NamedEffort(id, effort), effort)
        /\ \A b, c \in Budgets : b <= c /\ Budgeted(id, b).effort # None =>
              Budgeted(id, b).effort <= Budgeted(id, c).effort

\* The router's idea of whether the model may call a tool, by which a response of
\* reasoning alone is an answer or an error, is what the upstream was told, but for
\* the object {"type": "none"}, which only the translator understands.  A Responses
\* request that is accepted never forces a tool it does not declare.
ToolChoiceFits ==
    /\ ~(choice.form # "text" /\ choice.type = "none" /\ ChatChoice # None) =>
          (ToolsAvailable <=> tools # {} /\ (ChatChoice = None \/ ChatChoice.type # "none"))
    /\ ~ResponsesRefuses /\ TranslateToolChoice # None /\ TranslateToolChoice.type = "tool" =>
          TranslateToolChoice.name \in tools
=============================================================================
