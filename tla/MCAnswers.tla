------------------------------ MODULE MCAnswers ------------------------------
(* ResponsesStream and Collectors on small instances: an upstream response is    *)
(* answered with streaming or without.                                           *)
EXTENDS ResponsesStream, Collectors

AnswersInit == Init /\ CollectorInit

Streamed ==
    /\ api = "responses" /\ received = <<>> /\ ended = "no"
    /\ Next /\ UNCHANGED collectorVars

Gathered ==
    /\ events = 0 /\ ~over
    /\ CollectorNext /\ UNCHANGED vars

AnswersSpec == AnswersInit /\ [][Streamed \/ Gathered]_<<vars, collectorVars>>
=============================================================================
