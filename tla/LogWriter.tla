----------------------------- MODULE LogWriter ------------------------------
(***************************************************************************)
(* The way of a session's log lines: numbered by the collector, kept in    *)
(* the session's bounded memory buffer, batched by BatchLogWriter into the *)
(* database, and read back by a browser that lost its connection - across  *)
(* shutdowns and crashes of the process.                                   *)
(***************************************************************************)
EXTENDS Integers, FiniteSets, FiniteSetsExt

CONSTANTS Loop, Full, Reader, Stopper,  \* who flushes: the writer's loop, a full
                                        \* batch, a resuming browser, stop()
          MaxSeq,     \* bound: numbers given
          Capacity,   \* lines the memory buffer keeps
          BatchSize,  \* lines that make a batch
          MaxFlush,   \* lines that one flush takes: ten batches
          Limit,      \* lines of one answer
          MaxBoots    \* bound: starts after the first

Flushers == {Loop, Full, Reader, Stopper}

ASSUME WriterAssumption ==
    /\ Cardinality(Flushers) = 4
    /\ {MaxSeq, MaxBoots} \subseteq Nat
    /\ {Capacity, BatchSize, MaxFlush, Limit} \subseteq Nat \ {0}

VARIABLES
    process,   \* running, stopping (BatchLogWriter.stop) or ended
    seqNext,   \* seq_next of the session
    first,     \* log_buffer holds first .. seqNext - 1
    pend,      \* _buffer of the writer
    flying,    \* per flusher: the batch it is saving
    rows,      \* rows of the session in the database
    dropped,   \* lines of a save that failed, counted in _dropped
    last,      \* lastSeq of the browser
    silent,    \* history: lines an answer left out without counting them
    gone,      \* history: rows deleted, and lines whose save was cancelled
    boots

writerVars == <<process, seqNext, first, pend, flying, rows, dropped, last,
                silent, gone, boots>>

Seqs == 0 .. MaxSeq - 1
InFlight == UNION {flying[f] : f \in Flushers}

WriterTypeOK ==
    /\ process \in {"running", "stopping", "ended"}
    /\ seqNext \in 0 .. MaxSeq /\ first \in 0 .. seqNext
    /\ seqNext - first <= Capacity
    /\ pend \subseteq Seqs /\ rows \subseteq Seqs /\ dropped \subseteq Seqs
    /\ silent \subseteq Seqs /\ gone \subseteq Seqs
    /\ flying \in [Flushers -> SUBSET Seqs]
    /\ last \in -1 .. MaxSeq - 1 /\ boots \in 0 .. MaxBoots

WriterInit ==
    /\ process = "running" /\ seqNext = 0 /\ first = 0
    /\ pend = {} /\ flying = [f \in Flushers |-> {}]
    /\ rows = {} /\ dropped = {} /\ last = -1 /\ silent = {} /\ gone = {}
    /\ boots = 0

\* The oldest line leaves a full memory buffer.
Evicts(n) == IF n - first > Capacity THEN n - Capacity ELSE first

\* A line gets its number and is submitted; a recording browser may get it.
Collect ==
    /\ process # "ended" /\ seqNext < MaxSeq
    /\ seqNext' = seqNext + 1 /\ first' = Evicts(seqNext + 1)
    /\ pend' = pend \cup {seqNext}
    /\ last' \in {last, IF seqNext > last THEN seqNext ELSE last}
    /\ UNCHANGED <<process, flying, rows, dropped, silent, gone, boots>>

\* Lines are submitted in the order of their numbers; a flush takes the oldest.
Batch == {s \in pend : Cardinality({t \in pend : t < s}) < MaxFlush}

\* faulty variant: the batch leaves the buffer when its save is over
KeepsBatch(f) == /\ flying' = [flying EXCEPT ![f] = Batch]
                 /\ UNCHANGED pend

\* The batch leaves the buffer before its save is awaited.
TakesBatch(f) == /\ flying' = [flying EXCEPT ![f] = Batch]
                 /\ pend' = pend \ Batch

Flushes(f) == \/ f = Loop /\ process = "running"
              \/ f = Full /\ process = "running" /\ Cardinality(pend) >= BatchSize
              \/ f = Reader /\ process = "running" /\ last >= 0
              \/ f = Stopper /\ process = "stopping"

Flush(f) ==
    /\ Flushes(f) /\ pend # {} /\ flying[f] = {}
    /\ TakesBatch(f)
    /\ UNCHANGED <<process, seqNext, first, rows, dropped, last, silent, gone, boots>>

\* The rows come in one transaction, or the batch is counted as dropped.
Saved(f) == \/ rows' = rows \cup flying[f] /\ UNCHANGED dropped
            \/ dropped' = dropped \cup flying[f] /\ UNCHANGED rows

FlushDone(f) ==
    /\ f # Reader /\ flying[f] # {}
    /\ Saved(f) /\ flying' = [flying EXCEPT ![f] = {}]
    /\ UNCHANGED <<process, seqNext, first, pend, last, silent, gone, boots>>

\* get_logs_since: after the flush, the oldest lines of the memory buffer from
\* the number asked for; `missing` counts what the buffer no longer has.
Asked == last + 1 .. seqNext - 1
Missing == IF first = seqNext THEN {} ELSE {s \in Asked : s < first}
Answer == {s \in Asked : s >= first /\ s - Limit < Max({first, last + 1})}

Resume ==
    /\ last >= 0 /\ process = "running"
    /\ flying[Reader] # {} \/ pend = {}
    /\ Saved(Reader) /\ flying' = [flying EXCEPT ![Reader] = {}]
    /\ last' = IF Answer = {} THEN last ELSE Max(Answer)
    /\ silent' = silent \cup (Asked \ (Answer \cup Missing))
    /\ UNCHANGED <<process, seqNext, first, pend, gone, boots>>

\* cleanup_session, or the retention of old rows
DeleteRows ==
    /\ process = "running" /\ rows # {}
    /\ rows' = {} /\ gone' = gone \cup rows
    /\ UNCHANGED <<process, seqNext, first, pend, flying, dropped, last, silent, boots>>

\* stop() cancels the loop in the middle of a save, then flushes what is left.
Stop ==
    /\ process = "running" /\ process' = "stopping"
    /\ gone' = gone \cup flying[Loop]
    /\ flying' = [flying EXCEPT ![Loop] = {}]
    /\ UNCHANGED <<seqNext, first, pend, rows, dropped, last, silent, boots>>

Stopped == process = "stopping" /\ pend = {} /\ flying[Stopper] = {}

\* The process ends when stop() is through, or crashes; saves under way may
\* have been committed or not.
Exit ==
    /\ process = "running" \/ Stopped
    /\ process' = "ended"
    /\ \E done \in SUBSET {f \in Flushers : flying[f] # {}} :
         rows' = rows \cup UNION {flying[f] : f \in done}
    /\ pend' = {} /\ flying' = [f \in Flushers |-> {}] /\ dropped' = {}
    /\ UNCHANGED <<seqNext, first, last, silent, gone, boots>>

\* restore_sessions continues after the highest row.
NextSeq == IF rows = {} THEN 0 ELSE Max(rows) + 1

Start ==
    /\ process = "ended" /\ boots < MaxBoots
    /\ process' = "running" /\ boots' = boots + 1
    /\ seqNext' = NextSeq /\ first' = NextSeq
    /\ UNCHANGED <<pend, flying, rows, dropped, last, silent, gone>>

WriterNext ==
    \/ Collect \/ Resume \/ DeleteRows \/ Stop \/ Exit \/ Start
    \/ \E f \in Flushers : Flush(f) \/ FlushDone(f)

\* The loop wakes ten times a second, stop() runs to its end, saves return.
WriterFairness == \A f \in {Loop, Stopper} :
    WF_writerVars(Flush(f)) /\ WF_writerVars(FlushDone(f))

WriterSpec == WriterInit /\ [][WriterNext]_writerVars /\ WriterFairness

-----------------------------------------------------------------------------
(* Properties *)

\* A number is stored once: the next one is above all that are stored or on
\* their way, also after a restart, and no line is saved twice
\* (BatchLogWriter.flush, DebugService.restore_sessions).
StoredOnce ==
    process # "ended" =>
        /\ \A s \in rows \cup pend \cup InFlight : s < seqNext
        /\ pend \cap (rows \cup dropped \cup InFlight) = {}
        /\ InFlight \cap (rows \cup dropped) = {} /\ rows \cap dropped = {}
        /\ \A f, g \in Flushers : f # g => flying[f] \cap flying[g] = {}

\* In one life of the process each numbered line is waiting, being saved,
\* saved, counted as dropped, or was deleted or cancelled (BatchLogWriter).
LinesAccounted ==
    boots = 0 /\ process # "ended" =>
        0 .. seqNext - 1 \subseteq rows \cup pend \cup InFlight \cup dropped \cup gone

\* A gap that the answers of one life of the process leave silently is due to
\* their limit (get_logs_since).
OnlyLimitIsSilent == boots = 0 /\ Limit >= Capacity => silent = {}

\* No line waits in the writer for ever, also when it never fills a batch or
\* stands behind more lines than one flush takes (_loop, stop).
NoLineWaits == \A s \in Seqs : s \in pend ~> s \notin pend

\* No line is stored twice, none is lost without a count, and no answer hides
\* one (batch_writer.py; get_logs_since and restore_sessions, debug_service.py).
WriterInv == /\ WriterTypeOK
             /\ StoredOnce /\ LinesAccounted /\ OnlyLimitIsSilent

\* Docstring of restore_sessions: the numbers continue, hence are monotone: no
\* line gets a number that a browser has already.
SeqMonotone == process = "running" => last < seqNext
=============================================================================
