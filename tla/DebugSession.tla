---------------------------- MODULE DebugSession ----------------------------
(***************************************************************************)
(* One debug session of DebugService: its subscribers, the task that       *)
(* collects logcat lines and sends them, the delayed stop of that task,    *)
(* close and reaping. What becomes of the lines is in LogWriter, the shell *)
(* of the session in DebugShell. A step is what a task does from one await *)
(* to the next.                                                            *)
(***************************************************************************)
EXTENDS Naturals, FiniteSets

CONSTANTS Clients,    \* browsers with a debug page on this session
          NoClient

ASSUME LogAssumption == IsFiniteSet(Clients) /\ NoClient \notin Clients

VARIABLES
    live,      \* the session is in `sessions`
    closing,   \* step of close_session
    subs,      \* subscribers: out, paused or open (recording)
    pc,        \* step of the client's WebSocket handler
    down,      \* the client's connection is lost, the handler does not know yet
    told,      \* history, since the collector was started: the client was told
               \* that the collection broke off, or began to record (late) while
               \* the failed collector was telling it
    coll,      \* the collector registered in logcat_tasks
    cur, visited, size, dead,   \* its iteration over the subscribers
    toTell,    \* whom a failed collector has still to tell, after `cur`
    table,     \* the dictionary it iterates or copied: the same, one has left
               \* it, or gone: it was emptied, the next subscriber has another
    ended,     \* the device ended the stream under the last collector
    grace      \* pending stops of the collector (two stand for more)

clients == <<subs, pc, down, told>>
iter == <<cur, visited, size, dead, toTell, table>>
logVars == <<live, closing, clients, coll, iter, ended, grace>>

Subscribed == {w \in Clients : subs[w] # "out"}
Open == {w \in Clients : subs[w] = "open"}

LogTypeOK ==
    /\ live \in BOOLEAN
    /\ closing \in {"no", "chosen", "shell", "flush", "bye", "done"}
    /\ subs \in [Clients -> {"out", "paused", "open"}]
    /\ pc \in [Clients -> {"off", "resume", "shell", "ready"}]
    /\ down \in [Clients -> BOOLEAN] /\ told \in [Clients -> {"no", "yes", "late"}]
    /\ coll \in {"none", "waiting", "sending", "breaking"}
    /\ cur \in Clients \cup {NoClient}
    /\ visited \subseteq Clients /\ dead \subseteq Clients /\ toTell \subseteq Clients
    /\ size \in 0 .. Cardinality(Clients) /\ table \in {"same", "changed", "gone"}
    /\ ended \in BOOLEAN /\ grace \in 0 .. 2
    \* a round is of a collector that sends, and whom it sends to has a handler
    /\ coll \in {"none", "waiting"} => cur = NoClient /\ dead = {} /\ table = "same"
    /\ coll # "sending" => visited = {}
    /\ coll # "breaking" => toTell = {}
    /\ cur # NoClient => pc[cur] # "off" /\ cur \notin toTell

NotIterating == /\ cur' = NoClient /\ visited' = {} /\ size' = 0 /\ dead' = {}
                /\ toTell' = {} /\ table' = "same"

LogInit ==
    /\ live = TRUE /\ closing = "no"
    /\ subs = [w \in Clients |-> "out"] /\ pc = [w \in Clients |-> "off"]
    /\ down = [w \in Clients |-> FALSE] /\ told = [w \in Clients |-> "no"]
    /\ coll = "none" /\ cur = NoClient /\ visited = {} /\ size = 0 /\ dead = {}
    /\ toTell = {} /\ table = "same"
    /\ ended = FALSE /\ grace = 0

-----------------------------------------------------------------------------
(* Collection and delivery *)

\* What becomes of the dictionary a collector works on when `left` is what is
\* left of the subscribers.
TableNow(left) ==
    IF coll \notin {"sending", "breaking"} THEN "same"
    ELSE IF left = {} \/ table = "gone" THEN "gone" ELSE "changed"

\* Paused subscribers are passed over without an await; the next send is to an
\* open one, or the round is over and the dead are removed.
NextSend(seen, sz, lost, tab) ==
    \/ \E w \in Open \ seen :
         /\ coll' = "sending" /\ cur' = w /\ visited' = seen \cup {w}
         /\ size' = sz /\ dead' = lost /\ table' = tab
         /\ UNCHANGED <<subs, toTell>>
    \/ /\ Open \subseteq seen
       /\ coll' = "waiting" /\ NotIterating
       /\ subs' = [w \in Clients |-> IF w \in lost THEN "out" ELSE subs[w]]

\* A line passes level and rate.
CollectLine ==
    /\ coll = "waiting"
    /\ NextSend({}, Cardinality(Subscribed), {}, "same")
    /\ UNCHANGED <<live, closing, pc, down, told, ended, grace>>

\* faulty variant: the error is logged only
BreaksOffSilently == coll' = "none" /\ NotIterating

\* The error leaves the iteration. A copy of the subscribers is told one by one;
\* meanwhile the collector stays registered and is not done.
BreaksOff ==
    \/ /\ Subscribed = {}
       /\ coll' = "none" /\ NotIterating
    \/ \E w \in Subscribed :
         /\ coll' = "breaking" /\ cur' = w /\ toTell' = Subscribed \ {w}
         /\ visited' = {} /\ size' = 0 /\ dead' = {} /\ table' = "same"

Failing == IF cur # NoClient /\ down[cur] THEN dead \cup {cur} ELSE dead

\* The send to `cur` returns. The dictionary is iterated live: a change of its
\* size in the meantime raises, an exchange of its keys may do so.
SendDone ==
    /\ coll = "sending"
    /\ \/ /\ table # "same" \/ Cardinality(Subscribed) # size
          /\ BreaksOff /\ UNCHANGED subs
       \/ /\ table # "gone" /\ Cardinality(Subscribed) = size
          /\ NextSend(visited, size, Failing, table)
    /\ UNCHANGED <<live, closing, pc, down, told, ended, grace>>

\* The message to `cur` has gone or failed: the next one, or the failed ones are
\* removed and the task ends. Where the copied dictionary is empty by then, the
\* entry of the session is removed, although it may be another dictionary.
Tells ==
    /\ coll = "breaking"
    /\ told' = [w \in Clients |-> IF w = cur /\ ~down[w] THEN "yes" ELSE told[w]]
    /\ \/ \E w \in toTell :
            /\ cur' = w /\ toTell' = toTell \ {w} /\ dead' = Failing
            /\ UNCHANGED <<subs, coll, visited, size, table>>
       \/ /\ toTell = {}
          /\ coll' = "none" /\ NotIterating
          /\ subs' = [w \in Clients |-> IF w \in Failing \/ table = "gone" THEN "out"
                                                                      ELSE subs[w]]
    /\ UNCHANGED <<live, closing, pc, down, ended, grace>>

\* logcat ends with the device: the task ends without an error.
StreamEnds ==
    /\ coll = "waiting"
    /\ coll' = "none" /\ ended' = TRUE
    /\ UNCHANGED <<live, closing, clients, iter, grace>>

\* A line too long for the reader, or a process that has gone when it is killed.
StreamFails ==
    /\ coll = "waiting" /\ BreaksOff
    /\ UNCHANGED <<live, closing, clients, ended, grace>>

\* _ensure_logcat_task on behalf of `w`: a task that is not done is left alone,
\* also one that has failed and is telling it.
Ensures(w) ==
    /\ coll' = IF coll = "none" THEN "waiting" ELSE coll
    /\ ended' = FALSE
    /\ told' = CASE coll = "none" -> [v \in Clients |-> "no"]
                 [] coll = "breaking" -> [told EXCEPT ![w] = "late"]
                 [] OTHER -> told

StopsCollector == coll' = "none" /\ NotIterating

\* faulty variant: a client that goes without pausing schedules no stop
SchedulesNothing(open) == UNCHANGED grace

\* A stop is scheduled when no one in `open` is left.
SchedulesStop(open) ==
    grace' = IF open = {} /\ grace < 2 THEN grace + 1 ELSE grace

\* stop_after_grace looks again before it cancels.
GraceOver ==
    /\ grace > 0 /\ grace' = grace - 1
    /\ IF coll # "none" /\ Open = {} THEN StopsCollector
                                     ELSE UNCHANGED <<coll, iter>>
    /\ UNCHANGED <<live, closing, clients, ended>>

-----------------------------------------------------------------------------
(* debug_stream: the WebSocket handler and its browser *)

\* A client that has lines asks for what followed them.
Subscribe(w) ==
    /\ pc[w] = "off"
    /\ subs' = [subs EXCEPT ![w] = "paused"]
    /\ told' = [told EXCEPT ![w] = "no"]
    /\ \E step \in {"resume", "shell"} : pc' = [pc EXCEPT ![w] = step]
    /\ UNCHANGED <<live, closing, down, coll, iter, ended, grace>>

\* get_logs_since returns, then get_or_create_shell returns or raises.
HandlerStep(w) ==
    /\ \/ pc[w] = "resume" /\ pc' = [pc EXCEPT ![w] = "shell"]
       \/ pc[w] = "shell" /\ pc' = [pc EXCEPT ![w] = "ready"]
    /\ UNCHANGED <<live, closing, subs, down, told, coll, iter, ended, grace>>

\* set_subscriber_filter with paused = False: the page begins to record, or gives
\* another filter while it records
Record(w) ==
    /\ pc[w] = "ready" /\ subs[w] # "out" /\ ~down[w]
    /\ subs' = [subs EXCEPT ![w] = "open"]
    /\ IF live THEN Ensures(w) ELSE UNCHANGED <<coll, ended, told>>
    /\ UNCHANGED <<live, closing, pc, down, iter, grace>>

\* set_subscriber_filter with paused = True
Pause(w) ==
    /\ pc[w] = "ready" /\ subs[w] = "open" /\ ~down[w]
    /\ subs' = [subs EXCEPT ![w] = "paused"]
    /\ SchedulesStop(Open \ {w})
    /\ UNCHANGED <<live, closing, pc, down, told, coll, iter, ended>>

Disconnect(w) ==
    /\ pc[w] # "off" /\ ~down[w]
    /\ down' = [down EXCEPT ![w] = TRUE]
    /\ UNCHANGED <<live, closing, subs, pc, told, coll, iter, ended, grace>>

\* The finally of the handler: unsubscribe. A reconnected browser is a new key.
Leave(w) ==
    /\ pc[w] = "ready" /\ down[w]
    /\ pc' = [pc EXCEPT ![w] = "off"] /\ down' = [down EXCEPT ![w] = FALSE]
    /\ subs' = [subs EXCEPT ![w] = "out"]
    /\ SchedulesStop(Open \ {w})
    /\ cur' = IF cur = w THEN NoClient ELSE cur
    /\ visited' = visited \ {w} /\ dead' = dead \ {w} /\ toTell' = toTell \ {w}
    /\ table' = IF subs[w] = "out" THEN table ELSE TableNow(Subscribed \ {w})
    /\ UNCHANGED <<live, closing, told, coll, size, ended>>

-----------------------------------------------------------------------------
(* Close and reaping *)

\* _reap_idle_sessions lists the idle sessions, then closes them one by one.
Reap ==
    /\ live /\ closing = "no" /\ Subscribed = {}
    /\ closing' = "chosen"
    /\ UNCHANGED <<live, clients, coll, iter, ended, grace>>

CloseBegins ==
    /\ live /\ closing \in {"no", "chosen"}
    /\ closing' = "shell"
    /\ StopsCollector
    /\ UNCHANGED <<live, clients, ended, grace>>

\* The shell has stopped; the writer has saved the buffer: the session leaves
\* the table; everybody was told session_closed, the subscribers are removed.
CloseStep ==
    \/ /\ closing = "shell" /\ closing' = "flush"
       /\ UNCHANGED <<live, clients, coll, iter, ended, grace>>
    \/ /\ closing = "flush" /\ closing' = "bye" /\ live' = FALSE
       /\ UNCHANGED <<clients, coll, iter, ended, grace>>
    \/ /\ closing = "bye" /\ closing' = "done"
       /\ subs' = [w \in Clients |-> "out"]
       /\ table' = IF Subscribed = {} THEN table ELSE TableNow(Subscribed)
       /\ UNCHANGED <<live, pc, down, told, coll, cur, visited, size, dead, toTell,
                      ended, grace>>

-----------------------------------------------------------------------------
LogNext ==
    \/ CollectLine \/ SendDone \/ Tells \/ StreamEnds \/ StreamFails \/ GraceOver
    \/ \E w \in Clients : \/ Subscribe(w) \/ HandlerStep(w) \/ Record(w)
                          \/ Pause(w) \/ Disconnect(w) \/ Leave(w)
    \/ Reap \/ CloseBegins \/ CloseStep

\* Tasks run, sends return or fail, a handler notices a lost connection. What
\* users and the device do is under no fairness.
LogFairness ==
    /\ WF_logVars(SendDone) /\ WF_logVars(Tells) /\ WF_logVars(GraceOver) /\ WF_logVars(CloseStep)
    /\ \A w \in Clients : WF_logVars(HandlerStep(w)) /\ WF_logVars(Leave(w))

LogSpec == LogInit /\ [][LogNext]_logVars /\ LogFairness

-----------------------------------------------------------------------------
(* Properties *)

\* Whoever records on a live session is being collected for. If the collection
\* broke off, all who recorded then have been told when its task is over, except
\* those who began to record while it was telling; the others may be unserved
\* where the device ended the stream or the session is being closed
\* (set_subscriber_filter, stop_after_grace, _broadcast_stream_error).
OpenIsServed ==
    \A w \in Open : \/ coll # "none" \/ told[w] # "no" \/ down[w] \/ ended
                    \/ closing \notin {"no", "chosen"}

\* When nobody records any more the logcat process is stopped, after the grace
\* time, unless somebody records again or the session is closed
\* (_schedule_logcat_stop).
PauseStops ==
    (coll # "none" /\ Open = {} /\ closing = "no")
        ~> (coll = "none" \/ Open # {} \/ closing # "no")

\* No logcat process outlives the pages of its session.
NobodyLeft ==
    (coll # "none" /\ \A w \in Clients : pc[w] = "off")
        ~> (coll = "none" \/ \E w \in Clients : pc[w] # "off")

\* What every state of a session owes: the tables are those of the code, and
\* whoever records is served (debug_service.py, set_subscriber_filter to
\* close_session).
LogInv == LogTypeOK /\ OpenIsServed

\* Docstring of close_session: it closes the session and stops the collection.
CloseStopsCollection == closing = "done" => coll = "none"

\* The message of _broadcast_stream_error (debug_service.py:320): recording again
\* takes the collection up again.
RecordingRecovers ==
    \A w \in Open : told[w] = "late" => coll # "none" \/ closing \notin {"no", "chosen"}

\* Docstring of _broadcast_stream_error: the connections it failed to reach are
\* removed, that is, no others.
OnlyUnreachedLeave ==
    \A w \in Clients :
        pc[w] = "ready" /\ subs[w] = "out" => down[w] \/ closing \in {"bye", "done"}
=============================================================================
