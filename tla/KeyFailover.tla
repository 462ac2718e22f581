----------------------------- MODULE KeyFailover -----------------------------
(***************************************************************************)
(* What key failover promises the caller of CommandCodeClient.generate,    *)
(* without the credit cache, the tried set or any order among the keys: a  *)
(* key that rejected the request for lack of credit is not asked again,    *)
(* the header is dropped at most once, and the request is given up for     *)
(* lack of credit only when every key has rejected it.                     *)
(***************************************************************************)

CONSTANTS Keys, Requests

VARIABLES phase, key, rejected, downgraded

vars == <<phase, key, rejected, downgraded>>

Init ==
    /\ phase = [r \in Requests |-> "pending"]
    /\ key = [r \in Requests |-> "none"]
    /\ rejected = [r \in Requests |-> {}]
    /\ downgraded = [r \in Requests |-> FALSE]

Goes(r, from, to) ==
    /\ phase[r] \in from
    /\ phase' = [phase EXCEPT ![r] = to]

Ask(r, k) ==
    /\ k \notin rejected[r]
    /\ Goes(r, {"pending"}, "asking")
    /\ key' = [key EXCEPT ![r] = k]
    /\ UNCHANGED <<rejected, downgraded>>

Reject(r) ==
    /\ Goes(r, {"asking"}, "pending")
    /\ rejected' = [rejected EXCEPT ![r] = @ \cup {key[r]}]
    /\ UNCHANGED <<key, downgraded>>

Downgrade(r) ==
    /\ ~downgraded[r]
    /\ Goes(r, {"asking"}, "pending")
    /\ downgraded' = [downgraded EXCEPT ![r] = TRUE]
    /\ UNCHANGED <<key, rejected>>

End(r) ==
    /\ \/ Goes(r, {"asking"}, "streaming")
       \/ Goes(r, {"streaming"}, "served")
       \/ Goes(r, {"asking"}, "refused")
       \/ Goes(r, {"pending", "asking", "streaming"}, "broken")
       \/ Goes(r, {"pending", "asking", "streaming"}, "cancelled")
       \/ Goes(r, {"pending"}, "exhausted") /\ Keys # {} /\ rejected[r] = Keys
       \/ Goes(r, {"pending"}, "unconfigured") /\ Keys = {}
    /\ UNCHANGED <<key, rejected, downgraded>>

Next ==
    \E r \in Requests :
        (\E k \in Keys : Ask(r, k)) \/ Reject(r) \/ Downgrade(r) \/ End(r)

Spec == Init /\ [][Next]_vars
=============================================================================
