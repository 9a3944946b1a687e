--------------------------- MODULE MetricRecorder ---------------------------
(***************************************************************************)
(* MetricRecorder: sampled rows are collected, and saved in batches by a   *)
(* loop, by full batches and by stop(), which reports how many were saved. *)
(***************************************************************************)
EXTENDS Naturals, FiniteSets

CONSTANTS Cycle, Kick, Final,  \* who flushes: the loop, a full batch, stop()
          MaxRows,             \* bound: rows submitted
          FullBatch            \* _batch_size

Savers == {Cycle, Kick, Final}

ASSUME RecorderAssumption ==
    Cardinality(Savers) = 3 /\ MaxRows \in Nat /\ FullBatch \in Nat \ {0}

VARIABLES
    phase,     \* step of stop(): on, final (the last flush) or stopped
    submitted, \* rows submitted
    buffer,    \* _perf_rows, _network_rows
    saving,    \* per saver: the batch taken out
    stored,    \* rows in the database
    written,   \* _written
    failed,    \* history: rows whose save failed or was cancelled
    answer     \* what stop() returned

recVars == <<phase, submitted, buffer, saving, stored, written, failed, answer>>

Rows == 1 .. MaxRows
Saving == UNION {saving[s] : s \in Savers}

RecTypeOK ==
    /\ phase \in {"on", "final", "stopped"} /\ submitted \in 0 .. MaxRows
    /\ buffer \subseteq Rows /\ stored \subseteq Rows /\ failed \subseteq Rows
    /\ saving \in [Savers -> SUBSET Rows]
    /\ written \in 0 .. submitted /\ answer \in 0 .. written

RecInit ==
    /\ phase = "on" /\ submitted = 0 /\ buffer = {} /\ stored = {} /\ failed = {}
    /\ saving = [s \in Savers |-> {}] /\ written = 0 /\ answer = 0

\* submit_perf, submit_network: also while stop() is under way
Submit ==
    /\ phase # "stopped" /\ submitted < MaxRows
    /\ submitted' = submitted + 1 /\ buffer' = buffer \cup {submitted + 1}
    /\ UNCHANGED <<phase, saving, stored, written, failed, answer>>

\* faulty variant: the rows stay until they are saved
TakesCopy(s) == saving' = [saving EXCEPT ![s] = buffer] /\ UNCHANGED buffer

Takes(s) == saving' = [saving EXCEPT ![s] = buffer] /\ buffer' = {}

FlushRows(s) ==
    /\ buffer # {} /\ saving[s] = {}
    /\ \/ s = Cycle /\ phase = "on"
       \/ s = Kick /\ Cardinality(buffer) >= FullBatch
    /\ Takes(s)
    /\ UNCHANGED <<phase, submitted, stored, written, failed, answer>>

\* A failed save drops the batch without counting it.
Counts(s) ==
    \/ /\ stored' = stored \cup saving[s] /\ UNCHANGED failed
       /\ written' = written + Cardinality(saving[s])
    \/ failed' = failed \cup saving[s] /\ UNCHANGED <<stored, written>>

SaveDone(s) ==
    /\ s # Final /\ saving[s] # {} /\ Counts(s)
    /\ saving' = [saving EXCEPT ![s] = {}]
    /\ UNCHANGED <<phase, submitted, buffer, answer>>

\* stop() cancels the loop, if need be in the middle of a save that may or may
\* not take place, and flushes what is in the buffer.
StopRecorder ==
    /\ phase = "on" /\ phase' = "final"
    /\ \/ stored' = stored \cup saving[Cycle] /\ UNCHANGED failed
       \/ failed' = failed \cup saving[Cycle] /\ UNCHANGED stored
    /\ saving' = [saving EXCEPT ![Cycle] = {}, ![Final] = buffer]
    /\ buffer' = {}
    /\ UNCHANGED <<submitted, written, answer>>

StopReturns ==
    /\ phase = "final" /\ phase' = "stopped"
    /\ Counts(Final) /\ answer' = written'
    /\ saving' = [saving EXCEPT ![Final] = {}]
    /\ UNCHANGED <<submitted, buffer>>

RecNext ==
    \/ Submit \/ StopRecorder \/ StopReturns
    \/ \E s \in Savers : FlushRows(s) \/ SaveDone(s)

RecSpec == RecInit /\ [][RecNext]_recVars

-----------------------------------------------------------------------------
(* Properties *)

\* A row is in one place: no flush takes what another has taken (flush).
RowsOnce ==
    /\ 1 .. submitted = buffer \cup Saving \cup stored \cup failed
    /\ buffer \cap (Saving \cup stored \cup failed) = {}
    /\ Saving \cap (stored \cup failed) = {} /\ stored \cap failed = {}
    /\ \A s, t \in Savers : s # t => saving[s] \cap saving[t] = {}

\* Never are more rows reported than the database has (stop, record_stop).
ReportedAreStored == answer <= Cardinality(stored) /\ written <= Cardinality(stored)

\* Rows are neither saved twice nor lost uncounted nor reported before they are
\* stored (metric_recorder.py).
RecInv == RecTypeOK /\ RowsOnce /\ ReportedAreStored

\* Docstring of record_stop: `rows` is the number of rows this recording saved.
ReportIsExact == phase = "stopped" => answer = Cardinality(stored)
=============================================================================
