----------------------------- MODULE Monitoring -----------------------------
(***************************************************************************)
(* The monitoring of one device: PerformanceService and NetworkService     *)
(* with their common RecordingSupportMixin. Sampling tasks are numbered in *)
(* the order they are started; a step is what a task does between awaits.  *)
(***************************************************************************)
EXTENDS Naturals

CONSTANTS Viewers,   \* streams of the performance WebSocket
          User, Idle,\* who stops the monitoring: a request, the idle guard
          MaxRuns    \* bound: sampling tasks started

Stoppers == {User, Idle}

ASSUME MonitorAssumption == User # Idle /\ MaxRuns \in Nat

Runs == 1 .. MaxRuns

VARIABLES
    net,       \* this is the NetworkService (polled, without streams)
    runs,      \* sampling tasks started
    reg,       \* _tasks: the registered task, 0 for none
    task,      \* per task: its step
    tables,    \* the task whose start made _buffers, _samplers, ..., 0 for none
    list,      \* _subscribers: viewers with a queue in the list
    pc,        \* step of the viewer
    told,      \* the end mark is in the viewer's queue
    lostEnd,   \* history: viewers whose full queue did not take the end mark
    rec,       \* a recorder is in _recorders
    guard,     \* an idle guard sleeps in _idle_guards
    recent,    \* the network figures were polled within idle_ttl
    stop,      \* per stopper: step of stop_monitoring
    awaits,    \* the task it has cancelled and awaits
    pinned,    \* the monitoring was started by request, without a viewer
    overlap    \* history: something was started on a monitoring that was ending

monVars == <<net, runs, reg, task, tables, list, pc, told, lostEnd, rec, guard,
             recent, stop, awaits, pinned, overlap>>

Ending == \/ \E p \in Stoppers : stop[p] # "off"
          \/ \E g \in Runs : task[g] \in {"cancelled", "losing", "broken"}

MonTypeOK ==
    /\ net \in BOOLEAN /\ rec \in BOOLEAN /\ guard \in BOOLEAN
    /\ recent \in BOOLEAN /\ pinned \in BOOLEAN /\ overlap \in BOOLEAN
    /\ runs \in 0 .. MaxRuns /\ reg \in 0 .. runs /\ tables \in 0 .. runs
    /\ task \in [Runs -> {"none", "sampling", "cancelled", "losing", "broken", "over"}]
    /\ list \subseteq Viewers /\ lostEnd \subseteq Viewers
    /\ pc \in [Viewers -> {"off", "guard", "wait"}]
    /\ told \in [Viewers -> BOOLEAN]
    /\ stop \in [Stoppers -> {"off", "unguard", "await", "finalize"}]
    /\ awaits \in [Stoppers -> 0 .. runs]
    \* who awaits a task has cancelled it
    /\ \A p \in Stoppers : awaits[p] # 0 => task[awaits[p]] \in {"cancelled", "broken", "over"}

MonInit ==
    /\ net \in BOOLEAN /\ runs = 0 /\ reg = 0 /\ tables = 0
    /\ task = [g \in Runs |-> "none"] /\ list = {}
    /\ pc = [v \in Viewers |-> "off"] /\ told = [v \in Viewers |-> FALSE]
    /\ lostEnd = {} /\ rec = FALSE /\ guard = FALSE /\ recent = FALSE
    /\ stop = [p \in Stoppers |-> "off"] /\ awaits = [p \in Stoppers |-> 0]
    /\ pinned = FALSE /\ overlap = FALSE

-----------------------------------------------------------------------------
(* What the operations have in common *)

\* start_monitoring, unless a task is registered: the tables are made anew.
\* Then the viewers in `join` get their queues, and a guard sleeps or not.
Starts(join, guarded, pin) ==
    /\ guard' = guarded
    /\ IF reg # 0
       THEN /\ list' = list \cup join
            /\ UNCHANGED <<runs, reg, task, tables, pinned, overlap>>
       ELSE /\ runs < MaxRuns /\ runs' = runs + 1
            /\ reg' = runs + 1 /\ tables' = runs + 1 /\ list' = join
            /\ task' = [task EXCEPT ![runs + 1] = "sampling"]
            /\ pinned' = pin /\ overlap' = (overlap \/ Ending)

\* _release_device: the end mark goes to every queue that has room.
Releases ==
    /\ reg' = 0 /\ tables' = 0 /\ list' = {}
    /\ \E fullQueues \in SUBSET list :
         /\ told' = [v \in Viewers |-> told[v] \/ v \in list \ fullQueues]
         /\ lostEnd' = lostEnd \cup fullQueues

KeepsTables == UNCHANGED <<reg, tables, list, told, lostEnd>>

-----------------------------------------------------------------------------
(* Users of the monitoring *)

StartByRequest ==
    /\ ~net /\ reg = 0 /\ Starts({}, guard, TRUE)
    /\ UNCHANGED <<net, pc, told, lostEnd, rec, recent, stop, awaits>>

\* get_stats of the network; its start schedules a guard.
Poll ==
    /\ net /\ recent' = TRUE /\ Starts({}, guard \/ reg = 0, FALSE)
    /\ UNCHANGED <<net, pc, told, lostEnd, rec, stop, awaits>>

\* idle_ttl passes without a poll.
PollsAge ==
    /\ recent /\ recent' = FALSE
    /\ UNCHANGED <<net, runs, reg, task, tables, list, pc, told, lostEnd, rec,
                   guard, stop, awaits, pinned, overlap>>

\* stream_metrics: a sleeping guard is cancelled and awaited, then the
\* monitoring is looked at again and the queue put into the list.
View(v) ==
    /\ ~net /\ pc[v] = "off" /\ v \notin lostEnd
    /\ pc' = [pc EXCEPT ![v] = IF guard THEN "guard" ELSE "wait"]
    /\ Starts(IF guard THEN {} ELSE {v}, FALSE, FALSE)
    /\ UNCHANGED <<net, told, lostEnd, rec, recent, stop, awaits>>

\* faulty variant: the second look is left out
JoinUnchecked(v) ==
    /\ pc[v] = "guard" /\ pc' = [pc EXCEPT ![v] = "wait"]
    /\ list' = list \cup {v}
    /\ UNCHANGED <<net, runs, reg, task, tables, told, lostEnd, rec, guard,
                   recent, stop, awaits, pinned, overlap>>

Join(v) ==
    /\ pc[v] = "guard" /\ pc' = [pc EXCEPT ![v] = "wait"]
    /\ Starts({v}, guard, FALSE)
    /\ UNCHANGED <<net, told, lostEnd, rec, recent, stop, awaits>>

\* The end mark is read, or a sample cannot be sent. The last one to go
\* schedules a guard.
Leave(v) ==
    /\ pc[v] = "wait" /\ (told[v] = FALSE => v \in list /\ tables # 0 /\ task[tables] = "sampling")
    /\ pc' = [pc EXCEPT ![v] = "off"] /\ told' = [told EXCEPT ![v] = FALSE]
    /\ list' = list \ {v}
    /\ guard' = (guard \/ (list' = {} /\ ~rec))
    /\ UNCHANGED <<net, runs, reg, task, tables, lostEnd, rec, recent, stop,
                   awaits, pinned, overlap>>

\* record_start registers a recorder with whatever task is registered.
RecordStart ==
    /\ ~rec /\ rec' = TRUE
    /\ IF reg = 0
       THEN Starts({}, guard \/ net, FALSE)
       ELSE /\ overlap' = (overlap \/ Ending)
            /\ UNCHANGED <<runs, reg, task, tables, list, guard, pinned>>
    /\ UNCHANGED <<net, pc, told, lostEnd, recent, stop, awaits>>

-----------------------------------------------------------------------------
(* The sampling task *)

\* The sampler gives up, the recording is disabled, or the tables are not
\* there: the recording is finalized before the tables are released.
Lost(g) ==
    /\ task[g] = "sampling" /\ rec' = FALSE
    /\ task' = [task EXCEPT ![g] = IF rec THEN "losing" ELSE "over"]
    /\ IF rec THEN KeepsTables ELSE Releases
    /\ UNCHANGED <<net, runs, pc, guard, recent, stop, awaits, pinned, overlap>>

TaskEnds(g) ==
    /\ \/ task[g] \in {"losing", "cancelled"} /\ Releases
       \/ task[g] = "broken" /\ KeepsTables
    /\ task' = [task EXCEPT ![g] = "over"]
    /\ UNCHANGED <<net, runs, pc, rec, guard, recent, stop, awaits, pinned, overlap>>

-----------------------------------------------------------------------------
(* stop_monitoring *)

\* By request, also of record_stop, which finalizes the recording first.
StopByRequest ==
    /\ stop[User] = "off" /\ rec' \in {rec, FALSE}
    /\ guard' = FALSE
    /\ stop' = [stop EXCEPT ![User] = "unguard"]
    /\ UNCHANGED <<net, runs, reg, task, tables, list, pc, told, lostEnd, recent,
                   awaits, pinned, overlap>>

\* The registered task is cancelled in its sampling or in its ending.
Cancels(p) ==
    /\ awaits' = [awaits EXCEPT ![p] = reg]
    /\ stop' = [stop EXCEPT ![p] = "await"] /\ reg' = 0
    /\ task' = [g \in Runs |->
                 CASE g = reg /\ task[g] = "sampling" -> "cancelled"
                   [] g = reg /\ task[g] = "losing" -> "broken"
                   [] OTHER -> task[g]]

CancelByRequest ==
    /\ stop[User] = "unguard" /\ Cancels(User)
    /\ UNCHANGED <<net, runs, tables, list, pc, told, lostEnd, rec, guard,
                   recent, pinned, overlap>>

MayStop == list = {} /\ ~recent /\ ~rec

\* faulty variant: the stop awaits the guard that calls it
GuardAwaitsItself ==
    /\ guard /\ stop[Idle] = "off"
    /\ guard' = (reg # 0 /\ list = {})
    /\ UNCHANGED <<stop, awaits, reg, task, net, runs, tables, list, pc, told,
                   lostEnd, rec, recent, pinned, overlap>>

\* _idle_guard after its sleep: it looks again, and sleeps on if the device is
\* recorded or was polled.
GuardWakes ==
    /\ guard /\ stop[Idle] = "off"
    /\ IF reg # 0 /\ MayStop
       THEN guard' = FALSE /\ Cancels(Idle)
       ELSE /\ guard' = (reg # 0 /\ list = {})
            /\ UNCHANGED <<stop, awaits, reg, task>>
    /\ UNCHANGED <<net, runs, tables, list, pc, told, lostEnd, rec, recent,
                   pinned, overlap>>

\* The cancelled task is over: a recording is finalized, or all is released.
StopAwaited(p) ==
    /\ stop[p] = "await" /\ (awaits[p] # 0 => task[awaits[p]] = "over")
    /\ awaits' = [awaits EXCEPT ![p] = 0] /\ rec' = FALSE
    /\ stop' = [stop EXCEPT ![p] = IF rec THEN "finalize" ELSE "off"]
    /\ IF rec THEN KeepsTables ELSE Releases
    /\ UNCHANGED <<net, runs, task, pc, guard, recent, pinned, overlap>>

StopDone(p) ==
    /\ stop[p] = "finalize" /\ stop' = [stop EXCEPT ![p] = "off"]
    /\ Releases
    /\ UNCHANGED <<net, runs, task, pc, rec, guard, recent, awaits, pinned, overlap>>

-----------------------------------------------------------------------------
MonNext ==
    \/ StartByRequest \/ Poll \/ PollsAge \/ RecordStart
    \/ \E v \in Viewers : View(v) \/ Join(v) \/ Leave(v)
    \/ \E g \in Runs : Lost(g) \/ TaskEnds(g)
    \/ StopByRequest \/ CancelByRequest \/ GuardWakes
    \/ \E p \in Stoppers : StopAwaited(p) \/ StopDone(p)

\* Tasks run, saves return, sleeps end.
MonFairness ==
    /\ WF_monVars(GuardWakes) /\ WF_monVars(CancelByRequest)
    /\ \A p \in Stoppers : WF_monVars(StopAwaited(p)) /\ WF_monVars(StopDone(p))
    /\ \A g \in Runs : WF_monVars(TaskEnds(g))

MonSpec == MonInit /\ [][MonNext]_monVars /\ MonFairness

-----------------------------------------------------------------------------
(* Properties. `overlap` singles out what is started in the middle of an end; *)
(* the code takes no precaution against it.                                   *)

\* Only one task samples, the registered one, into its own tables
\* (start_monitoring, _release_device).
OneSampler ==
    ~overlap => /\ reg # 0 => tables = reg
                /\ \A g \in Runs : task[g] = "sampling" => g = reg

\* A viewer waits on a queue that is fed, has been told of the end, or its
\* queue was full when it was told (stream_metrics, _release_device).
ViewerIsFed ==
    ~overlap => \A v \in Viewers : pc[v] = "wait" =>
        told[v] \/ v \in lostEnd \/ (v \in list /\ tables # 0)

\* What is being recorded is being sampled, or a request is about to finalize
\* it: the idle guard never stops a recording (record_start, _idle_guard).
RecordingIsFed ==
    ~overlap /\ rec => reg # 0 \/ stop[User] = "await"

\* A monitoring that nobody uses has a guard, unless it was asked for by
\* request (stream_metrics, _idle_guard).
IdleIsWatched ==
    ~overlap /\ reg # 0 /\ list = {} /\ ~rec /\ ~pinned /\ ~Ending =>
        guard \/ \E v \in Viewers : pc[v] = "guard"

\* And the guard stops it (_idle_guard, stop_monitoring).
IdleStops ==
    (reg # 0 /\ guard /\ MayStop) ~> (reg = 0 \/ ~MayStop \/ ~guard)

\* As long as nothing is started in the middle of an end, one task samples, and
\* who uses it is fed or told (performance_service.py, recording_support.py).
MonInv == /\ MonTypeOK
          /\ OneSampler /\ ViewerIsFed
          /\ RecordingIsFed /\ IdleIsWatched

\* Comment of _release_device: the subscribers are told of the end.
EndIsTold ==
    \A v \in Viewers : pc[v] = "wait" /\ v \notin list => told[v]
=============================================================================
