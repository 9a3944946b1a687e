----------------------------- MODULE Recording -----------------------------
(***************************************************************************)
(* Screen recording of one device: RecordingService                         *)
(* (backend/app/application/recording_service.py) over the recorder tasks   *)
(* of CliAdbDriver (backend/app/infrastructure/adb/cli.py).                 *)
(*                                                                          *)
(* A session starts `adb shell screenrecord` as a background task, watches  *)
(* it for two seconds, and is stopped by the user, by the recorder's        *)
(* natural end (a callback that schedules a stop), or by the hourly self    *)
(* heal.  A recorder that fails with err=-38 is started once more with a    *)
(* smaller size, within the two seconds or later from its callback.  The    *)
(* driver keeps one task and one path per device, whoever started it.       *)
(***************************************************************************)
EXTENDS Naturals, FiniteSets

CONSTANTS
    MaxSessions,    \* bound: starts of the device
    None            \* no session, no task

ASSUME RecordingAssumption ==
    /\ MaxSessions \in Nat \ {0}
    /\ None \notin 1..MaxSessions
    /\ None \notin (1..MaxSessions) \X (1..(MaxSessions + 1))

Sessions == 1..MaxSessions      \* in the order of their start

\* Recorders of a session: the first, and one more for each start that has given
\* the device a chance to degrade.
Attempts == 1..(MaxSessions + 1)
Tasks == Sessions \X Attempts

InProgress == {"recording", "stopping", "pulling"}
Terminal == {"done", "failed"}

VARIABLES
    sessions,   \* sessions[device]: the last session, or None
    pending,    \* sessions whose start() holds _pending_starts
    starting,   \* start_recording of a session: "idle", "grace", "retry"
    state,      \* RecordingSession.state
    stopping,   \* the next step of a stop() in flight, or "idle"
    awaits,     \* the recorder task that a stop() is to wait for, or None
    finalize,   \* scheduled _auto_finalize tasks
    healing,    \* sessions whose leftovers _self_heal is removing
    tasks,      \* _recording_tasks[device]
    paths,      \* _recording_paths[device], as the session it belongs to
    degraded,   \* the device is in _degraded_once
    recorder,   \* state of each recorder task
    callbacks   \* recorder tasks whose done callback is to run

service == <<sessions, pending, state, stopping, finalize, healing>>
driver == <<starting, awaits, tasks, paths, degraded, recorder, callbacks>>
vars == <<service, driver>>

Finished == {"ended", "error38", "error"}

TypeOK ==
    /\ sessions \in Sessions \cup {None}
    /\ pending \subseteq Sessions
    /\ starting \in [Sessions -> {"idle", "grace", "retry"}]
    /\ state \in [Sessions -> InProgress \cup Terminal \cup {"none"}]
    /\ stopping \in [Sessions -> {"idle", "signal", "probe", "await", "pull",
                                  "remove_done", "remove_failed"}]
    /\ awaits \in [Sessions -> Tasks \cup {None}]
    /\ finalize \subseteq Sessions /\ healing \subseteq Sessions
    /\ tasks \in Tasks \cup {None} /\ paths \in Sessions \cup {None}
    /\ degraded \in BOOLEAN
    /\ recorder \in [Tasks -> {"none", "running"} \cup Finished]
    /\ callbacks \subseteq Tasks

Init ==
    /\ sessions = None /\ pending = {}
    /\ starting = [s \in Sessions |-> "idle"]
    /\ state = [s \in Sessions |-> "none"]
    /\ stopping = [s \in Sessions |-> "idle"]
    /\ awaits = [s \in Sessions |-> None]
    /\ finalize = {} /\ healing = {}
    /\ tasks = None /\ paths = None /\ degraded = FALSE
    /\ recorder = [t \in Tasks |-> "none"]
    /\ callbacks = {}

Busy == sessions /= None /\ state[sessions] \in InProgress

-----------------------------------------------------------------------------
(***************************************************************************)
(* start(): the recorder task and its first two seconds                     *)
(***************************************************************************)

Launch(t) == recorder' = [recorder EXCEPT ![t] = "running"]

NotBusy == ~Busy                        \* faulty variant: _pending_starts is not asked
MayStart == ~Busy /\ pending = {}

Start(s) ==
    /\ recorder[<<s, 1>>] = "none" /\ \A r \in 1..(s - 1) : recorder[<<r, 1>>] /= "none"
    /\ MayStart
    /\ pending' = pending \cup {s}
    /\ starting' = [starting EXCEPT ![s] = "grace"]
    /\ degraded' = FALSE
    /\ Launch(<<s, 1>>)
    /\ UNCHANGED <<sessions, state, stopping, finalize, healing, awaits, tasks,
                   paths, callbacks>>

\* _store_recording_task; the callback of a task that is done already follows.
Store(t) ==
    /\ tasks' = t /\ paths' = t[1]
    /\ callbacks' = callbacks \cup {t}

\* The recorder task that start_recording of a session watches.
Watched(s) == <<s, IF starting[s] = "grace" THEN 1 ELSE 2>>

\* The recorder has survived the watch, or has ended without error.
Started(s) ==
    /\ starting[s] \in {"grace", "retry"}
    /\ recorder[Watched(s)] \in {"running", "ended"}
    /\ Store(Watched(s))
    /\ starting' = [starting EXCEPT ![s] = "idle"]
    /\ sessions' = s
    /\ state' = [state EXCEPT ![s] = "recording"]
    /\ pending' = pending \ {s}
    /\ UNCHANGED <<stopping, finalize, healing, awaits, degraded, recorder>>

\* _degrade_once: the recorder t failed with err=-38, for the first time since
\* the last start of the device.
DegradeAgain(t) == recorder[t] = "error38"      \* faulty variant: no _degraded_once
MayDegrade(t) == recorder[t] = "error38" /\ ~degraded

Retry(t) == <<t[1], t[2] + 1>>

RetriedInGrace(s) ==
    /\ starting[s] = "grace"
    /\ MayDegrade(<<s, 1>>)
    /\ degraded' = TRUE
    /\ Launch(<<s, 2>>)
    /\ starting' = [starting EXCEPT ![s] = "retry"]
    /\ UNCHANGED <<service, awaits, tasks, paths, callbacks>>

\* AdbError: no session comes of it.
StartFails(s) ==
    /\ \/ starting[s] = "grace" /\ ~MayDegrade(<<s, 1>>)
       \/ starting[s] = "retry"
    /\ recorder[Watched(s)] \in {"error38", "error"}
    /\ starting' = [starting EXCEPT ![s] = "idle"]
    /\ pending' = pending \ {s}
    /\ UNCHANGED <<sessions, state, stopping, finalize, healing, awaits, tasks,
                   paths, degraded, recorder, callbacks>>

-----------------------------------------------------------------------------
(***************************************************************************)
(* The recorder on the device, and the callback of its task                 *)
(***************************************************************************)

RecorderFinishes(t) ==
    /\ recorder[t] = "running"
    /\ \E outcome \in Finished : recorder' = [recorder EXCEPT ![t] = outcome]
    /\ UNCHANGED <<service, starting, awaits, tasks, paths, degraded, callbacks>>

\* A late err=-38: the new recorder takes the place of the old in both tables.
LateRetry(t) ==
    /\ t \in callbacks /\ MayDegrade(t)
    /\ degraded' = TRUE
    /\ Launch(Retry(t))
    /\ tasks' = Retry(t) /\ paths' = t[1]
    /\ callbacks' = (callbacks \ {t}) \cup {Retry(t)}
    /\ UNCHANGED <<service, starting, awaits>>

NothingToCollect(t) == paths' = IF tasks = t THEN None ELSE paths  \* faulty variant: a natural end leaves no path
KeepsPath(t) == UNCHANGED paths

\* Otherwise the task leaves its table, and the natural end of a recorder whose
\* path is still in the other is reported: if the device's session is recording
\* a stop is scheduled.
TaskDone(t) ==
    /\ t \in callbacks /\ recorder[t] \in Finished /\ ~MayDegrade(t)
    /\ callbacks' = callbacks \ {t}
    /\ tasks' = IF tasks = t THEN None ELSE tasks
    /\ KeepsPath(t)
    /\ finalize' = IF /\ recorder[t] = "ended"
                      /\ paths' = t[1]
                      /\ sessions /= None /\ state[sessions] = "recording"
                   THEN finalize \cup {sessions} ELSE finalize
    /\ UNCHANGED <<sessions, pending, state, stopping, healing, starting, awaits,
                   degraded, recorder>>

-----------------------------------------------------------------------------
(***************************************************************************)
(* stop()                                                                   *)
(***************************************************************************)

\* Only the signal and the wait still need the task.
To(s, step) ==
    /\ stopping' = [stopping EXCEPT ![s] = step]
    /\ awaits' = [awaits EXCEPT ![s] = IF step = "await" THEN @ ELSE None]

\* Up to the first adb call, with stop_recording's look at its tables: only a
\* recording session is stopped, any other is returned as it is.
StopBegins(s) ==
    /\ sessions = s /\ state[s] = "recording"
    /\ state' = [state EXCEPT ![s] = "stopping"]
    /\ tasks' = None /\ paths' = None
    /\ awaits' = [awaits EXCEPT ![s] = tasks]
    /\ stopping' = [stopping EXCEPT ![s] =
           CASE tasks /= None -> "signal"
             [] tasks = None /\ paths /= None -> "probe"
             [] OTHER -> "remove_failed"]

UserStops(s) ==
    /\ StopBegins(s)
    /\ UNCHANGED <<sessions, pending, finalize, healing, starting, degraded,
                   recorder, callbacks>>

\* _auto_finalize, unless the session was stopped or replaced meanwhile.
AutoFinalize(s) ==
    /\ s \in finalize
    /\ finalize' = finalize \ {s}
    /\ \/ StopBegins(s)
       \/ /\ ~(sessions = s /\ state[s] = "recording")
          /\ UNCHANGED <<state, stopping, awaits, tasks, paths>>
    /\ UNCHANGED <<sessions, pending, healing, starting, degraded, recorder,
                   callbacks>>

Running == {t \in Tasks : recorder[t] = "running"}

\* pkill -INT screenrecord, or pidof and kill: every recorder of the device ends,
\* with or without an error; or pkill finds none, which adb need not have reported
\* yet; or pidof finds none; or nothing works and the task is waited for.
Signal(s) ==
    /\ stopping[s] = "signal"
    /\ \/ /\ Running /= {}
          /\ \E outcome \in {"ended", "error"} :
                recorder' = [t \in Tasks |-> IF t \in Running THEN outcome
                                             ELSE recorder[t]]
          /\ To(s, "await")
       \/ /\ \E step \in {"probe", "remove_failed", "await"} : To(s, step)
          /\ UNCHANGED recorder
    /\ UNCHANGED <<sessions, pending, state, finalize, healing, starting, tasks,
                   paths, degraded, callbacks>>

Elsewhere ==
    UNCHANGED <<sessions, pending, finalize, healing, starting, tasks, paths,
                degraded, recorder, callbacks>>

Pulling(s) == To(s, "pull") /\ state' = [state EXCEPT ![s] = "pulling"]

\* Whatever way the task ends.
Awaited(s) ==
    /\ stopping[s] = "await"
    /\ recorder[awaits[s]] \in Finished
    /\ Pulling(s)
    /\ Elsewhere

\* The task was over: is there a product?
Probe(s) ==
    /\ stopping[s] = "probe"
    /\ \/ Pulling(s)
       \/ To(s, "remove_failed") /\ UNCHANGED state
    /\ Elsewhere

Pull(s) ==
    /\ stopping[s] = "pull"
    /\ \E step \in {"remove_done", "remove_failed"} : To(s, step)
    /\ UNCHANGED state
    /\ Elsewhere

\* rm_remote, which does not raise, and the end of the stop.
Remove(s) ==
    /\ \/ /\ stopping[s] = "remove_done"
          /\ state' = [state EXCEPT ![s] = "done"]
       \/ /\ stopping[s] = "remove_failed"
          /\ state' = [state EXCEPT ![s] = "failed"]
    /\ To(s, "idle")
    /\ Elsewhere

\* An exception that is not an AdbError, or a cancellation, ends the stop; the
\* wait for the task lets none through.
StopDies(s) ==
    /\ stopping[s] \notin {"idle", "await"}
    /\ To(s, "idle")
    /\ UNCHANGED state
    /\ Elsewhere

-----------------------------------------------------------------------------
(***************************************************************************)
(* _self_heal                                                               *)
(***************************************************************************)

\* A session that records beyond its limit is stopped like by the user
\* (UserStops).  One that stops or pulls for too long, whether its stop is dead
\* or slow, has its file removed ...
OnlyStopping(s) == state[s] = "stopping"     \* faulty variant: pulling is not healed
Stuck(s) == state[s] \in {"stopping", "pulling"}

HealBegins(s) ==
    /\ sessions = s /\ healing = {}
    /\ Stuck(s)
    /\ healing' = healing \cup {s}
    /\ UNCHANGED <<sessions, pending, state, stopping, finalize, driver>>

\* ... and is failed, unless its stop has come to an end meanwhile.
Converges(s) == state' = [state EXCEPT ![s] = "failed"]  \* faulty variant: no recheck
FailsIfStuck(s) ==
    state' = [state EXCEPT ![s] =
                 IF @ \in {"stopping", "pulling"} THEN "failed" ELSE @]

HealEnds(s) ==
    /\ s \in healing
    /\ healing' = healing \ {s}
    /\ FailsIfStuck(s)
    /\ UNCHANGED <<sessions, pending, stopping, finalize, driver>>

Next ==
    \/ \E s \in Sessions :
          \/ Start(s) \/ Started(s) \/ RetriedInGrace(s) \/ StartFails(s)
          \/ UserStops(s) \/ AutoFinalize(s) \/ Signal(s) \/ Awaited(s)
          \/ Probe(s) \/ Pull(s) \/ Remove(s) \/ StopDies(s)
          \/ HealBegins(s) \/ HealEnds(s)
    \/ \E t \in Tasks : RecorderFinishes(t) \/ LateRetry(t) \/ TaskDone(t)

\* The event loop runs callbacks and tasks, adb calls return, a recorder ends at
\* its time limit, and the hourly self heal comes round.  The heal of an overlong
\* recording is left out: its end must be noticed without it.
Fairness ==
    /\ \A t \in Tasks : /\ WF_vars(RecorderFinishes(t))
                        /\ WF_vars(LateRetry(t) \/ TaskDone(t))
    /\ \A s \in Sessions : /\ WF_vars(AutoFinalize(s))
                           /\ WF_vars(HealBegins(s)) /\ WF_vars(HealEnds(s))

Spec == Init /\ [][Next]_vars /\ Fairness

-----------------------------------------------------------------------------
\* Two starts never overlap, nor does a start overlap with a session that records:
\* two recorders would spoil each other's file (start(), the comment on
\* _pending_starts).  A session that was healed while its stop was still at work
\* may be seen pulling once more during the next start, so only recording counts.
StartsExclude ==
    /\ Cardinality(pending) <= 1
    /\ pending /= {} => sessions = None \/ state[sessions] /= "recording"

\* A session whose product was saved stays done, although a self heal was already
\* removing its leftovers (_self_heal: state is read again after the await).
DoneIsKept ==
    [][\A s \in Sessions : state[s] = "done" => state'[s] = "done"]_vars

\* The natural end of a recorder is noticed without the user and without the
\* self heal (callback and listener), unless the late retry of an older session has
\* put its own path into the device's table.
NaturalEndNoticed ==
    \A s \in Sessions :
        /\ sessions = s /\ state[s] = "recording"
        /\ \E a \in Attempts : tasks = <<s, a>> /\ recorder[<<s, a>>] = "ended"
        ~> state[s] /= "recording" \/ paths \in Sessions \ {s}

\* However a stop comes to an end, or does not, its session does not block the
\* device for ever (the self heal of stopping and pulling sessions).
StopEnds ==
    \A s \in Sessions :
        sessions = s /\ state[s] \in {"stopping", "pulling"}
        ~> state[s] \in Terminal \/ sessions /= s

\* stop() has taken the session's recorder out of the tables; the callback is said
\* not to meddle with that (cli.py 1267-1269), so no recorder of the session is
\* started any more.
NoRecorderAfterStop ==
    [][\A t \in Tasks : recorder[t] = "none" /\ recorder'[t] = "running"
          => state[t[1]] \in {"none", "recording"}]_vars
=============================================================================
