---------------------------- MODULE TokenRecorder ----------------------------
(***************************************************************************)
(* TokenRecorder (src/cc_adapter/core/token_recorder.py): how many tokens  *)
(* and requests each day and model took, counted in memory and written to  *)
(* a file after every request.                                             *)
(*                                                                         *)
(* schedule_token_record makes a task of each count; the tasks run in the  *)
(* order they were made, each in one step, since nothing is awaited while  *)
(* the lock is held.  A day's entry has a counter for each model and one,  *)
(* All, for the day.                                                       *)
(***************************************************************************)
EXTENDS Naturals, Sequences

CONSTANTS
    Models,      \* the models' names, without what precedes the "/"
    All,         \* the counter of the whole day
    Tokens,      \* what a request takes: input and output tokens
    MaxDay,      \* bound: days
    MaxFinishes  \* bound: finish events

ASSUME RecorderAssumption ==
    /\ All \notin Models
    /\ Tokens \subseteq Nat
    /\ MaxDay \in Nat \ {0} /\ MaxFinishes \in Nat

Days     == 1..MaxDay
Counters == Models \cup {All}
Counter  == [tokens : Nat, requests : Nat]
Data     == [Days -> [Counters -> Counter]]

NoData     == [d \in Days |-> [c \in Counters |-> [tokens |-> 0, requests |-> 0]]]
Unreadable == [d \in {} |-> 0]   \* a file that json.loads rejects

VARIABLES
    day,       \* date.today()
    scheduled, \* the tasks that have not run
    loaded,    \* _loaded
    memory,    \* _data
    file,      \* token_usage.json; a file that does not exist has no data
    made,      \* history: how many finish events there have been
    unsaved,   \* history: what was counted since the file was last written
    missed     \* history: the reading of the file failed in this process

recorderVars == <<day, scheduled, loaded, memory, file, made, unsaved, missed>>

\* Every variable stays in its type.
RecorderTypeOK ==
    /\ day \in Days
    /\ scheduled \in Seq([model : Models, tokens : Tokens])
    /\ loaded \in BOOLEAN /\ missed \in BOOLEAN
    /\ memory \in Data /\ unsaved \in Data
    /\ file \in Data \cup {Unreadable}
    /\ made \in 0..MaxFinishes

-----------------------------------------------------------------------------

Readable(f) == f # Unreadable

\* What the file holds.
Kept == IF Readable(file) THEN file ELSE NoData

\* Mutant: the file is not read before the first count.
LoadedWithoutFile(read) == memory

\* _data once _ensure_loaded has run.  A file that cannot be read, for the moment or
\* for what is in it, is taken for an empty one.
Loaded(read) == IF loaded THEN memory ELSE IF read THEN Kept ELSE NoData

\* _ensure_loaded
EnsureLoaded(read) ==
    /\ loaded' = TRUE
    /\ missed' = (missed \/ (~loaded /\ ~read))

\* One request for model m that took n tokens.
Counted(data, m, n) ==
    [data EXCEPT ![day] =
        [c \in Counters |->
            IF c \in {All, m}
            THEN [tokens |-> data[day][c].tokens + n, requests |-> data[day][c].requests + 1]
            ELSE data[day][c]]]

\* The server starts with a file of earlier days, or of the time when days had no
\* models yet, a damaged one or none.
RecorderInit ==
    /\ day = 1
    /\ \E m \in Models, n \in Tokens \ {0} :
          file \in { Unreadable, NoData, Counted(NoData, m, n),
                     [NoData EXCEPT ![1][All] = [tokens |-> n, requests |-> 1]] }
    /\ loaded = FALSE /\ memory = NoData
    /\ scheduled = <<>>
    /\ made = 0 /\ unsaved = NoData /\ missed = FALSE

\* The finish event of an upstream answer schedules a count.
Finish(m, n) ==
    /\ made < MaxFinishes /\ made' = made + 1
    /\ scheduled' = Append(scheduled, [model |-> m, tokens |-> n])
    /\ UNCHANGED <<day, loaded, memory, file, unsaved, missed>>

\* Mutant: only the day's entry is written.
WritesDay(written, data) ==
    IF written THEN file' = [Kept EXCEPT ![day] = data[day]] /\ unsaved' = NoData
               ELSE UNCHANGED file

\* _atomic_write: the file is replaced as a whole, or stays as it is.
Writes(written, data) ==
    IF written THEN file' = data /\ unsaved' = NoData
               ELSE UNCHANGED file

\* record.  Whether or not the file can be written, the count is in memory.
Record(read, written) ==
    /\ scheduled # <<>> /\ scheduled' = Tail(scheduled)
    /\ EnsureLoaded(read)
    /\ LET m == Head(scheduled).model
           n == Head(scheduled).tokens
       IN  IF n = 0
           THEN memory' = Loaded(read) /\ UNCHANGED <<file, unsaved>>
           ELSE /\ memory' = Counted(Loaded(read), m, n)
                /\ Writes(written, Counted(Loaded(read), m, n))
                /\ ~written => unsaved' = Counted(unsaved, m, n)
    /\ UNCHANGED <<day, made>>

\* query: the file is read if nothing has been counted or asked yet.
Query(read) ==
    /\ EnsureLoaded(read) /\ memory' = Loaded(read)
    /\ UNCHANGED <<day, scheduled, file, made, unsaved>>

Midnight ==
    /\ day < MaxDay /\ day' = day + 1
    /\ UNCHANGED <<scheduled, loaded, memory, file, made, unsaved, missed>>

\* A crash or a stop, and the next start: tasks and memory are lost.
Restart ==
    /\ loaded' = FALSE /\ memory' = NoData
    /\ scheduled' = <<>> /\ unsaved' = NoData /\ missed' = FALSE
    /\ UNCHANGED <<day, file, made>>

RecorderNext ==
    \/ \E m \in Models, n \in Tokens : Finish(m, n)
    \/ \E read, written \in BOOLEAN : Record(read, written)
    \/ \E read \in BOOLEAN : Query(read)
    \/ Midnight \/ Restart

RecorderSpec == RecorderInit /\ [][RecorderNext]_recorderVars

-----------------------------------------------------------------------------

Plus(f, g) ==
    [d \in Days |-> [c \in Counters |->
        [tokens   |-> f[d][c].tokens + g[d][c].tokens,
         requests |-> f[d][c].requests + g[d][c].requests]]]

\* The file lags behind memory by exactly what was counted since it was last
\* written: the next write that succeeds makes up for all that failed, of whatever
\* day, and a stop of the server loses no more than that.  A process that could not
\* read the file has only its own counts until it writes.
OnlyFailedWritesAreMissing ==
    loaded => \/ memory = Plus(Kept, unsaved)
              \/ missed /\ memory = unsaved

Covers(f, g) ==
    \A d \in Days, c \in Counters :
        f[d][c].tokens <= g[d][c].tokens /\ f[d][c].requests <= g[d][c].requests

\* No count that has been written is ever taken back, over failed writes, restarts
\* and days; only a file that could not be read is begun anew.
FileOnlyGrows ==
    [][Readable(file) => \/ Readable(file') /\ Covers(file, file')
                         \/ missed']_recorderVars
=============================================================================
