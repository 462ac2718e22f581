------------------------------ MODULE DailyUsage ------------------------------
(***************************************************************************)
(* The daily report of the admin panel: query_daily_usage                  *)
(* (src/cc_adapter/admin/usage_client.py) and admin_daily_usage            *)
(* (src/cc_adapter/admin/router.py), composed with the token recorder.     *)
(*                                                                         *)
(* Upstream tells what was spent since the start of a day, so a report     *)
(* asks for each of its days and the day after the last, all at once, and  *)
(* takes differences.  The answers are of different moments, and requests  *)
(* go on while they come in.  Upstream's days are those of UTC; the server *)
(* goes by its own.  Costs are those of the first key.  Left out are their *)
(* rounding and how the router divides them over the models.               *)
(***************************************************************************)
EXTENDS TokenRecorder, FiniteSetsExt

CONSTANTS
    Zones,    \* where the server may stand: "west" of UTC, or "east" of it or in it
    MaxSpent  \* bound: what is spent

ASSUME UsageAssumption == Zones \subseteq {"west", "east"} /\ MaxSpent \in Nat

VARIABLES
    zone,      \* where the server stands
    utcDay,    \* the day upstream books on
    spent,     \* upstream: what was spent on each day
    snapshots, \* the report being made: what upstream said at each boundary
    before     \* history: spent when the report was asked for

usageVars == <<zone, utcDay, spent, snapshots, before>>
vars == <<recorderVars, usageVars>>

AllDays    == 0..MaxDay + 2
Boundaries == 1..MaxDay + 1

Awaited == MaxSpent + 1
Failed  == MaxSpent + 2

NoReport == [b \in {} |-> Awaited]

\* Every variable stays in its type.
TypeOK ==
    /\ RecorderTypeOK
    /\ zone \in Zones /\ utcDay \in AllDays
    /\ spent \in [AllDays -> 0..MaxSpent] /\ before \in [AllDays -> 0..MaxSpent]
    /\ DOMAIN snapshots \subseteq Boundaries
    /\ \A b \in DOMAIN snapshots : snapshots[b] \in 0..Failed

NothingSpent == [d \in AllDays |-> 0]

Sum(costs) == MapThenSumSet(LAMBDA d : costs[d], AllDays)

Since(b) == MapThenSumSet(LAMBDA d : spent[d], {d \in AllDays : d >= b})

-----------------------------------------------------------------------------

Init ==
    /\ RecorderInit
    /\ zone \in Zones /\ utcDay = day
    /\ spent = NothingSpent /\ before = NothingSpent
    /\ snapshots = NoReport

\* A request is paid for with the first key.
Spend ==
    /\ Sum(spent) < MaxSpent
    /\ spent' = [spent EXCEPT ![utcDay] = @ + 1]
    /\ UNCHANGED <<recorderVars, zone, utcDay, snapshots, before>>

\* Midnight in UTC: east of it the server's has been, west of it is to come.
UtcMidnight ==
    /\ IF zone = "west" THEN utcDay = day ELSE utcDay < day
    /\ utcDay' = utcDay + 1
    /\ UNCHANGED <<recorderVars, zone, spent, snapshots, before>>

LocalMidnight ==
    /\ IF zone = "west" THEN utcDay > day ELSE utcDay = day
    /\ Midnight
    /\ UNCHANGED usageVars

\* Mutant: one boundary too many.
AskOneMore(first, last) ==
    /\ snapshots = NoReport
    /\ snapshots' = [b \in first..last + 2 |-> Awaited]
    /\ before' = spent
    /\ UNCHANGED <<recorderVars, zone, utcDay, spent>>

\* An administrator asks for the days from first to last.
Ask(first, last) ==
    /\ snapshots = NoReport
    /\ snapshots' = [b \in first..last + 1 |-> Awaited]
    /\ before' = spent
    /\ UNCHANGED <<recorderVars, zone, utcDay, spent>>

\* _query_usage_since: an answer, or None for a failure of any kind.
Answer(b, failed) ==
    /\ b \in DOMAIN snapshots /\ snapshots[b] = Awaited
    /\ snapshots' = [snapshots EXCEPT ![b] = IF failed THEN Failed ELSE Since(b)]
    /\ UNCHANGED <<recorderVars, zone, utcDay, spent, before>>

Gathered == snapshots # NoReport /\ \A b \in DOMAIN snapshots : snapshots[b] # Awaited

\* The answers are in: the report is made of them and of the recorder's counts.
Report ==
    /\ Gathered
    /\ snapshots' = NoReport /\ before' = NothingSpent
    /\ \E read \in BOOLEAN : Query(read)
    /\ UNCHANGED <<zone, utcDay, spent>>

ServerRestart ==
    /\ Restart
    /\ snapshots' = NoReport /\ before' = NothingSpent
    /\ UNCHANGED <<zone, utcDay, spent>>

Recording ==
    /\ \/ \E m \in Models, n \in Tokens : Finish(m, n)
       \/ \E read, written \in BOOLEAN : Record(read, written)
       \/ \E read \in BOOLEAN : Query(read)
    /\ UNCHANGED usageVars

Next ==
    \/ Recording \/ LocalMidnight \/ UtcMidnight \/ Spend
    \/ \E first, last \in Days : first <= last /\ Ask(first, last)
    \/ \E b \in Boundaries, failed \in BOOLEAN : Answer(b, failed)
    \/ Report \/ ServerRestart

Spec == Init /\ [][Next]_vars

-----------------------------------------------------------------------------
(* The report *)

\* Mutant: a missing snapshot of the next day counts as nothing spent since.
ReportedWithoutNext(d) == snapshots[d] # Failed

\* A day is left out when its snapshot is missing, or the next day's is, unless it
\* is today.
Reported(d) ==
    /\ snapshots[d] # Failed
    /\ snapshots[d + 1] # Failed \/ d = day

Minus(a, b) == IF a > b THEN a - b ELSE 0

Cost(d) ==
    IF snapshots[d + 1] = Failed THEN snapshots[d]
    ELSE Minus(snapshots[d], snapshots[d + 1])

\* Each day of the report is off by no more than what was spent while its snapshots
\* were gathered: none holds another day's cost, and if nothing was
\* spent all are exact.  This asks that the server's day is not behind upstream's
\* where today's figure stands for want of tomorrow's snapshot: west of UTC it holds
\* two of upstream's days.
FiguresAreClose ==
    Gathered =>
        \A d \in Days :
            /\ {d, d + 1} \subseteq DOMAIN snapshots /\ Reported(d)
            /\ snapshots[d + 1] = Failed => utcDay <= day
            => /\ Cost(d) <= before[d] + (Sum(spent) - Sum(before))
               /\ before[d] <= Cost(d) + (Sum(spent) - Sum(before))
=============================================================================
