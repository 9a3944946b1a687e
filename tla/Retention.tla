----------------------------- MODULE Retention -----------------------------
(* What the database keeps: the steps of run_cleanup, begun by the hourly     *)
(* loop or by hand, while rows are written. A time holds a number of rows of  *)
(* a table; deleting rows frees no part of the file, only VACUUM does, and    *)
(* the file itself shows it at the next checkpoint of the WAL.                *)
EXTENDS Naturals, FiniteSets

CONSTANTS
    Callers,     \* who may run a cleanup: the loop, a request
    Written,     \* ts that get rows
    LastHour,        \* bound: the last time
    MaxInserts,  \* bound: rows written
    MaxFailures, \* bound: steps of a cleanup that fail
    Keep,        \* retention of each table: log_retention_days, shell_history_days, retention_days
    MaxMetrics,  \* max_rows_total
    MaxSize,     \* max_db_size_mb
    BatchRows        \* batch_size

Tables == {"perf", "network", "shell", "logs"}
Metrics == {"perf", "network"}

ASSUME RetentionAssumption ==
    /\ Written \subseteq Tables /\ Keep \in [Tables -> Nat]
    /\ LastHour \in Nat \ {0} /\ MaxInserts \in Nat /\ MaxFailures \in Nat
    /\ MaxMetrics \in Nat /\ MaxSize \in Nat /\ BatchRows \in Nat \ {0}

VARIABLES
    rows,    \* table -> time -> number of rows
    hour,
    alloc,   \* pages of the database, freed ones included
    size,    \* st_size of the main file
    at,      \* the step of each caller, with what it carries; grew, a history: the file was
             \* small enough for a table, which it left as it was
    inserts, failures,
    together  \* history: two cleanups ran at once

retentionVars == <<rows, hour, alloc, size, at, inserts, failures, together>>

RowTimes == 1..LastHour
Lesser(a, b) == IF a < b THEN a ELSE b
\* The rows of some tables up to a time, numbered within each; how many they are, and the
\* first time with n of them.
RowsOf(ts, s) == UNION {{x} \X (1..rows[x[1]][x[2]]) : x \in ts \X (1..s)}
Older(ts, s) == Cardinality(RowsOf(ts, s))
Count(ts) == Older(ts, LastHour)
Nth(ts, n) == CHOOSE s \in RowTimes : Older(ts, s) >= n /\ \A r \in 1..(s - 1) : Older(ts, r) < n
AtRest == [step |-> "idle", cut |-> 0, need |-> 0, got |-> FALSE, any |-> FALSE,
         table |-> "perf", begun |-> 0, grew |-> FALSE]

RetentionInit ==
    /\ rows = [t \in Tables |-> [s \in RowTimes |-> 0]] /\ hour = 1
    /\ alloc = 0 /\ size = 0 /\ at = [c \in Callers |-> AtRest]
    /\ inserts = 0 /\ failures = 0 /\ together = FALSE

BeginCleanup(c) ==
    /\ at[c].step = "idle"
    /\ at' = [at EXCEPT ![c] = [AtRest EXCEPT !.step = "old logs", !.begun = hour]]
    /\ together' = (together \/ \E d \in Callers : at[d].step # "idle")
    /\ UNCHANGED <<rows, hour, alloc, size, inserts, failures>>

Keeps == UNCHANGED <<hour, alloc, size, inserts, failures, together>>
\* The rows but those at these <<table, time>>.
Without(dead) == [t \in Tables |-> [s \in RowTimes |-> IF <<t, s>> \in dead THEN 0 ELSE rows[t][s]]]
\* What a step deleted counts when the step is over: one that fails reports nothing.
StepOf(s) == IF s \in {"count", "cut", "below", "recount", "equal"} THEN "trim" ELSE s
Goes(c, r, change) ==
    LET got == at[c].got \/ r # rows
    IN  /\ rows' = r
        /\ at' = [at EXCEPT ![c] = IF StepOf(change.step) = StepOf(@.step) THEN [change EXCEPT !.got = got]
                                   ELSE [change EXCEPT !.got = FALSE, !.any = @ \/ got]]

\* delete_old_logs, delete_old_shell_history, delete_old_metrics
Expired(ts) == Without({d \in ts \X RowTimes : d[2] + Keep[d[1]] < hour})
DeleteOld(c) ==
    /\ \/ at[c].step = "old logs" /\ Goes(c, Expired({"logs"}), [at[c] EXCEPT !.step = "old shell"])
       \/ at[c].step = "old shell" /\ Goes(c, Expired({"shell"}), [at[c] EXCEPT !.step = "old metrics"])
       \/ at[c].step = "old metrics" /\ Goes(c, Expired(Metrics), [at[c] EXCEPT !.step = "count"])
    /\ Keeps

(* trim_metrics_rows: count, find the time of the last row too many, delete   *)
(* what is older, count again, and delete of that very time what is left over *)
TooMany(n) == n > MaxMetrics
CountRows(c) ==
    /\ at[c].step = "count" /\ Keeps
    /\ LET n == Count(Metrics)
       IN  Goes(c, rows, IF TooMany(n) THEN [at[c] EXCEPT !.step = "cut", !.need = n - MaxMetrics]
                         ELSE [at[c] EXCEPT !.step = "size", !.table = "perf"])

\* The time of the n-th oldest row, of the last one if there are fewer.
CutLate(n) == IF Count(Metrics) = 0 THEN 0 ELSE Nth(Metrics, Lesser(n + 1, Count(Metrics)))
Cut(n) == IF Count(Metrics) = 0 THEN 0 ELSE Nth(Metrics, Lesser(n, Count(Metrics)))

FindCut(c) == /\ at[c].step = "cut" /\ Keeps
              /\ Goes(c, rows, [at[c] EXCEPT !.step = "below", !.cut = Cut(at[c].need)])

\* faulty variant: one of the two tables is trimmed
BelowOfOne(cut) == {"perf"} \X {s \in RowTimes : s < cut}

Below(cut) == Metrics \X {s \in RowTimes : s < cut}
DeleteBelow(c) ==
    /\ at[c].step = "below" /\ Keeps
    /\ Goes(c, Without(Below(at[c].cut)), [at[c] EXCEPT !.step = "recount"])

Recount(c) ==
    /\ at[c].step = "recount" /\ Keeps
    /\ LET n == Count(Metrics)
       IN  Goes(c, rows, IF TooMany(n) THEN [at[c] EXCEPT !.step = "equal", !.need = n - MaxMetrics]
                         ELSE [at[c] EXCEPT !.step = "count"])

\* n rows of one time, those of the first table before those of the second
EqualOf(s, n) ==
    LET p == Lesser(n, rows["perf"][s])
    IN  [rows EXCEPT !["perf"][s] = @ - p, !["network"][s] = @ - Lesser(n - p, @)]
Equal(s, n) == IF s = 0 THEN rows ELSE EqualOf(s, n)
DeleteEqual(c) ==
    /\ at[c].step = "equal" /\ Keeps
    /\ LET r == Equal(at[c].cut, at[c].need)
       IN  Goes(c, r, IF r = rows THEN [at[c] EXCEPT !.step = "size", !.table = "perf"]
                      ELSE [at[c] EXCEPT !.step = "count"])

(* trim_to_db_size: while the file is too large, the oldest rows, table by    *)
(* table                                                                      *)
After(t) == CASE t = "perf" -> "network" [] t = "network" -> "shell" [] t = "shell" -> "logs" [] OTHER -> "end"
OldestBatch(t) == Nth({t}, Lesser(BatchRows, Count({t})))
DoneWith(t) == size <= MaxSize \/ Count({t}) = 0
TrimSize(c) ==
    /\ at[c].step = "size" /\ Keeps
    /\ LET t == at[c].table
       IN  IF t = "end" THEN Goes(c, rows, [at[c] EXCEPT !.step = "vacuum"])
           ELSE IF DoneWith(t)
                THEN Goes(c, rows, [at[c] EXCEPT !.table = After(t), !.grew = @ \/ Count({t}) # 0])
           ELSE Goes(c, Without({t} \X {s \in RowTimes : s <= OldestBatch(t)}), at[c])

\* VACUUM, only when something was deleted.
Vacuum(c) ==
    /\ at[c].step = "vacuum"
    /\ alloc' = IF at[c].any THEN Count(Tables) ELSE alloc
    /\ at' = [at EXCEPT ![c] = AtRest]
    /\ UNCHANGED <<rows, hour, size, inserts, failures, together>>

\* guarded: a step that fails is passed over. The model has the failures that delete
\* nothing, not the transaction that one between DELETE and commit leaves open.
NextStep(s) == CASE s = "old logs" -> "old shell" [] s = "old shell" -> "old metrics"
                 [] s = "old metrics" -> "count" [] s = "size" -> "vacuum"
                 [] s = "vacuum" -> "idle" [] OTHER -> "size"
StepFails(c) ==
    /\ at[c].step # "idle" /\ failures < MaxFailures /\ failures' = failures + 1
    /\ at' = [at EXCEPT ![c] = IF at[c].step = "vacuum" THEN AtRest
                               ELSE [at[c] EXCEPT !.step = NextStep(at[c].step), !.table = "perf", !.got = FALSE]]
    /\ UNCHANGED <<rows, hour, alloc, size, inserts, together>>

Insert(t) ==
    /\ inserts < MaxInserts /\ inserts' = inserts + 1
    /\ rows' = [rows EXCEPT ![t][hour] = @ + 1]
    /\ alloc' = IF alloc > Count(Tables) THEN alloc ELSE alloc + 1
    /\ UNCHANGED <<hour, size, at, failures, together>>

TimeGoesOn == hour < LastHour /\ hour' = hour + 1 /\ UNCHANGED <<rows, alloc, size, at, inserts, failures, together>>
Checkpoint == size' = alloc /\ UNCHANGED <<rows, hour, alloc, at, inserts, failures, together>>

Cleans(c) == \/ DeleteOld(c) \/ CountRows(c) \/ FindCut(c) \/ DeleteBelow(c) \/ Recount(c)
             \/ DeleteEqual(c) \/ TrimSize(c) \/ Vacuum(c)

RetentionNext ==
    \/ \E c \in Callers : BeginCleanup(c) \/ Cleans(c) \/ StepFails(c)
    \/ \E t \in Written : Insert(t)
    \/ TimeGoesOn \/ Checkpoint

RetentionSpec == RetentionInit /\ [][RetentionNext]_retentionVars

RetentionFairness == \A c \in Callers : WF_retentionVars(Cleans(c)) /\ WF_retentionVars(BeginCleanup(c))
-----------------------------------------------------------------------------
(* The pages of the database hold its rows, and a cleanup carries what its    *)
(* step needs.                                                                *)
RetentionTypeOK ==
    /\ rows \in [Tables -> [RowTimes -> 0..MaxInserts]] /\ alloc >= Count(Tables)
    /\ \A c \in Callers : at[c].cut \in 0..LastHour /\ at[c].need \in 0..MaxInserts

Gone(t, s) == rows'[t][s] < rows[t][s]
StillThere(t, s) == rows'[t][s] > 0

(* Nothing is deleted while something older of its table stays, nor of either *)
(* table of metrics when there are too many of them (sqlite.py:905-988).      *)
OldestFirst ==
    [][/\ \A t \in Tables, r, s \in RowTimes : Gone(t, r) /\ StillThere(t, s) => r <= s
       /\ (\E c \in Callers : at[c].step \in {"below", "equal"} /\ at'[c] # at[c]) =>
             \A t, u \in Metrics, r, s \in RowTimes : Gone(t, r) /\ StillThere(u, s) => r <= s]_retentionVars

(* Too many metrics are cut to the limit and not below it, as long as one     *)
(* cleanup runs at a time (sqlite.py:905-949).                                *)
TrimIsExact ==
    [][\A c \in Callers : at[c].step \in {"below", "equal"} /\ at'[c] # at[c] /\ rows' # rows /\ ~together
          => Count(Metrics)' >= MaxMetrics]_retentionVars

(* The size limit takes logs only when what is older than the cleanup is gone *)
(* from the tables before, for metrics can be had again and logs cannot; a    *)
(* file that only grows in the middle of it may take them earlier             *)
(* (sqlite.py:488-539).                                                       *)
LogsGoLast ==
    [][\A s \in RowTimes : Gone("logs", s) /\ s + Keep["logs"] >= hour =>
          \E c \in Callers : /\ at[c].step = "size"
                             /\ ~at[c].grew => \A t \in Tables \ {"logs"}, r \in RowTimes : rows[t][r] > 0 => r >= at[c].begun]_retentionVars

(* Every cleanup ends, whatever is written meanwhile and whatever step fails, *)
(* and once nothing more is written the metrics keep their limit.             *)
CleanupEnds == \A c \in Callers : at[c].step # "idle" ~> at[c].step = "idle"
LimitHolds == <>[](Count(Metrics) <= MaxMetrics)

(* A cleanup deletes the oldest, no more of the metrics than the limit asks,  *)
(* and logs last (sqlite.py:488-539, 905-988).                                *)
TrimHolds == []RetentionTypeOK /\ OldestFirst /\ TrimIsExact /\ LogsGoLast

(* docs/API.md:414 says that a cleanup by hand and that of the loop run one   *)
(* after the other under a lock of the process, and delete nothing they       *)
(* should not: the limit is then what trimming leaves.                        *)
TrimLeavesLimit ==
    [][\A c \in Callers : at[c].step \in {"below", "equal"} /\ at'[c] # at[c] /\ rows' # rows
          => Count(Metrics)' >= MaxMetrics]_retentionVars
=============================================================================
