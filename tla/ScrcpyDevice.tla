---------------------------- MODULE ScrcpyDevice ----------------------------
(***************************************************************************)
(* The device end of the video encoders: ScrcpyEncoder.start and stop       *)
(* (backend/app/infrastructure/stream/scrcpy.py) and the server file they   *)
(* deploy (backend/app/scrcpy/server_manager.py), against one device.       *)
(*                                                                          *)
(* An encoder instance starts one server process on the device, reached     *)
(* through one adb forward; every instance of the device uses the same port *)
(* and the same server file.  start() and stop() are sequences of adb       *)
(* calls, each an await.  stop() may run twice for one encoder, by the      *)
(* stream service and by the finally of start() itself, at the same time;   *)
(* and the next encoder may start while the stops of the last one run: the  *)
(* service awaits only its own call, and a session that takes over after a  *)
(* failed send awaits neither.                                              *)
(***************************************************************************)
EXTENDS Naturals, FiniteSets

CONSTANTS
    Encoders,       \* encoder instances, and the server process of each
    Other           \* a scrcpy server this program did not start

ASSUME DeviceAssumption == Other \notin Encoders

Servers == Encoders \cup {Other}

\* Who calls stop(): StreamService, and the finally of start() itself.
Stoppers == {"service", "generator"}

VARIABLES
    start,       \* where start() of an encoder is
    stop,        \* where each of the calls of its stop() is
    deviceId,    \* its _device_id is set
    process,     \* it holds the local adb shell process of its server
    remotePids,  \* its _remote_pids
    victims,     \* the pids each call of its stop() is killing
    abandoned,   \* its session's handler is gone without stopping it
    finalizing,  \* _FINALIZING_PIDS: unexpired entries
    spawning,    \* servers launched through adb and not running yet
    alive,       \* server processes on the device
    doomed,      \* those of them that were killed and have not died yet
    forward,     \* the adb forward of the port is set
    named,       \* history: encoders whose own server was enumerated
    calm         \* never changes: the looks at the device and the kills do not
                 \* fail, and nobody else starts a server meanwhile

memory == <<deviceId, process, remotePids, victims, abandoned>>
servers == <<spawning, alive, doomed>>
device == <<servers, forward>>
vars == <<start, stop, memory, finalizing, device, named, calm>>

Starting == {"detect", "push", "unforward", "forward", "launch", "connect",
             "enumerate"}
StartStates == Starting \cup {"new", "streaming", "over"}
StopStates == {"none", "sockets", "kill", "process", "unforward", "done"}

TypeOK ==
    /\ start \in [Encoders -> StartStates]
    /\ stop \in [Encoders -> [Stoppers -> StopStates]]
    /\ deviceId \in [Encoders -> BOOLEAN]
    /\ process \in [Encoders -> BOOLEAN]
    /\ remotePids \in [Encoders -> SUBSET Servers]
    /\ victims \in [Encoders -> [Stoppers -> SUBSET Servers]]
    /\ abandoned \in [Encoders -> BOOLEAN]
    /\ finalizing \subseteq Servers
    /\ spawning \subseteq Encoders
    /\ alive \subseteq Servers \ spawning
    /\ doomed \subseteq alive
    /\ forward \in BOOLEAN
    /\ named \subseteq Encoders
    /\ calm \in BOOLEAN

Init ==
    /\ start = [e \in Encoders |-> "new"]
    /\ stop = [e \in Encoders |-> [k \in Stoppers |-> "none"]]
    /\ deviceId = [e \in Encoders |-> FALSE]
    /\ process = [e \in Encoders |-> FALSE]
    /\ remotePids = [e \in Encoders |-> {}]
    /\ victims = [e \in Encoders |-> [k \in Stoppers |-> {}]]
    /\ abandoned = [e \in Encoders |-> FALSE]
    /\ finalizing = {} /\ spawning = {} /\ doomed = {} /\ named = {}
    /\ alive \in SUBSET {Other}
    /\ forward \in BOOLEAN
    /\ calm \in BOOLEAN

-----------------------------------------------------------------------------
(***************************************************************************)
(* start()                                                                  *)
(***************************************************************************)

GoTo(e, there) == start' = [start EXCEPT ![e] = there]

\* The service may start another encoder: each earlier one has returned from
\* the service's stop(), or its session's handler is gone.
SlotFree == \A e \in Encoders :
    start[e] = "new" \/ stop[e]["service"] = "done" \/ abandoned[e]

\* start() raises or is cancelled before its try: nothing in it cleans up, the
\* service calls stop().
StartFails(e) ==
    /\ GoTo(e, "over")
    /\ stop' = [stop EXCEPT ![e]["service"] = "sockets"]

\* What a command that removes or sets the forward leaves, when its failure is
\* ignored or it is given up.
MayBe(value) == {value} \cup (IF calm THEN {} ELSE {forward})

Begin(e) ==
    /\ start[e] = "new"
    /\ SlotFree
    /\ GoTo(e, "detect")
    /\ deviceId' = [deviceId EXCEPT ![e] = TRUE]
    /\ UNCHANGED <<stop, process, remotePids, victims, abandoned, finalizing,
                   device, named, calm>>

\* Every server found is being finished off by an earlier stop() of ours.
NoneRegistered == finalizing = {} \/ alive \subseteq finalizing  \* faulty variant: any entry will do
AllFinalizing == alive \subseteq finalizing

\* _detect_stray_server: on if nothing is found, if all that is found is
\* finalizing, or if the look itself fails; else ScrcpyOccupiedError.
Detect(e) ==
    /\ start[e] = "detect"
    /\ \/ /\ alive = {} \/ AllFinalizing \/ ~calm
          /\ GoTo(e, "push")
          /\ UNCHANGED stop
       \/ /\ alive /= {} /\ ~AllFinalizing
          /\ StartFails(e)
    /\ UNCHANGED <<memory, finalizing, device, named, calm>>

\* push_server: restored from the backup or pushed, or the start fails.
Push(e) ==
    /\ start[e] = "push"
    /\ \/ GoTo(e, "unforward") /\ UNCHANGED stop
       \/ StartFails(e)
    /\ UNCHANGED <<memory, finalizing, device, named, calm>>

\* An old forward of the port is removed; errors are ignored.
ClearForward(e) ==
    /\ start[e] = "unforward"
    /\ GoTo(e, "forward")
    /\ forward' \in MayBe(FALSE)
    /\ UNCHANGED <<stop, memory, finalizing, servers, named, calm>>

SetForward(e) ==
    /\ start[e] = "forward"
    /\ \/ /\ GoTo(e, "launch")
          /\ forward' = TRUE
          /\ UNCHANGED stop
       \/ /\ StartFails(e)
          /\ forward' \in {forward, TRUE}
    /\ UNCHANGED <<memory, finalizing, servers, named, calm>>

\* The adb shell that runs the server is spawned.
Launch(e) ==
    /\ start[e] = "launch"
    /\ GoTo(e, "connect")
    /\ process' = [process EXCEPT ![e] = TRUE]
    /\ spawning' = spawning \cup {e}
    /\ UNCHANGED <<stop, deviceId, remotePids, victims, abandoned, finalizing,
                   alive, doomed, forward, named, calm>>

\* The wait for the server's log, which is given up after three seconds, and
\* the connection of the video socket, which adb accepts for the server.
Connect(e) ==
    /\ start[e] = "connect"
    /\ \/ /\ forward
          /\ GoTo(e, "enumerate")
          /\ UNCHANGED stop
       \/ StartFails(e)
    /\ UNCHANGED <<memory, finalizing, device, named, calm>>

\* _enumerate_remote_pids: every server on the device is taken for its own.
\* Resolution and control socket follow, and their errors are not fatal.
Enumerate(e) ==
    /\ start[e] = "enumerate"
    /\ \/ /\ remotePids' = [remotePids EXCEPT ![e] = alive]
          /\ named' = named \cup (alive \cap {e})
       \/ /\ ~calm
          /\ UNCHANGED <<remotePids, named, calm>>
    /\ GoTo(e, "streaming")
    /\ UNCHANGED <<stop, deviceId, process, victims, abandoned, finalizing,
                   device, calm>>

\* The service cancels a start under way to restart the encoder.  The adb call
\* it waits for may have had its effect.
CancelStart(e) ==
    /\ start[e] \in Starting
    /\ StartFails(e)
    /\ spawning' \in {spawning} \cup
          (IF start[e] = "launch" THEN {spawning \cup {e}} ELSE {})
    /\ forward' \in {forward} \cup
          (IF start[e] = "unforward" THEN {FALSE} ELSE {}) \cup
          (IF start[e] = "forward" THEN {TRUE} ELSE {})
    /\ UNCHANGED <<memory, finalizing, alive, doomed, named, calm>>

-----------------------------------------------------------------------------
(***************************************************************************)
(* The end of a stream                                                      *)
(***************************************************************************)

\* Stall, or the server's end: the finally of start() runs stop(), the error or
\* the end of the iteration reaches the service, which runs it again.  A
\* generator that was abandoned stays at its yield.
StreamEnds(e) ==
    /\ start[e] = "streaming"
    /\ ~abandoned[e]
    /\ GoTo(e, "over")
    /\ stop' = [stop EXCEPT ![e]["generator"] = "sockets"]
    /\ UNCHANGED <<memory, finalizing, device, named, calm>>

ServiceAfterEnd(e) ==
    /\ start[e] = "over"
    /\ stop[e] = [service |-> "none", generator |-> "done"]
    /\ stop' = [stop EXCEPT ![e]["service"] = "sockets"]
    /\ UNCHANGED <<start, memory, finalizing, device, named, calm>>

\* A switch, or the close of an abandoned session: the service calls stop(),
\* and the finally of the dropped generator does so in a task of its own.
ServiceStops(e) ==
    /\ start[e] = "streaming"
    /\ GoTo(e, "over")
    /\ stop' = [stop EXCEPT ![e] = [k \in Stoppers |-> "sockets"]]
    /\ UNCHANGED <<memory, finalizing, device, named, calm>>

\* A frame has come, the handler's send of it failed, and it has released the
\* slot.
Abandon(e) ==
    /\ start[e] = "streaming"
    /\ e \notin spawning
    /\ ~abandoned[e]
    /\ abandoned' = [abandoned EXCEPT ![e] = TRUE]
    /\ UNCHANGED <<start, stop, deviceId, process, remotePids, victims,
                   finalizing, device, named, calm>>

-----------------------------------------------------------------------------
(***************************************************************************)
(* stop(), by either caller                                                 *)
(***************************************************************************)

StopTo(e, k, there) == stop' = [stop EXCEPT ![e][k] = there]

\* The pids to kill are registered as finalizing; the encoder keeps them until
\* they are killed.
SwapsPidsOut(e) == /\ finalizing' = finalizing \cup remotePids[e]
                   /\ remotePids' = [remotePids EXCEPT ![e] = {}]  \* faulty variant: forgotten before the kill
RegisterPids(e) == /\ finalizing' = finalizing \cup remotePids[e]
                   /\ UNCHANGED remotePids

\* The control and the video socket are closed; from there to the next await.
SocketsClosed(e, k) ==
    /\ stop[e][k] = "sockets"
    /\ \/ /\ deviceId[e] /\ remotePids[e] /= {}
          /\ StopTo(e, k, "kill")
          /\ RegisterPids(e)
          /\ victims' = [victims EXCEPT ![e][k] = remotePids[e]]
       \/ /\ ~deviceId[e] \/ remotePids[e] = {}
          /\ StopTo(e, k, "process")
          /\ remotePids' = [remotePids EXCEPT ![e] = {}]
          /\ UNCHANGED <<finalizing, victims>>
    /\ UNCHANGED <<start, deviceId, process, abandoned, device, named, calm>>

Killed(e, k) == victims[e][k] \cap alive

\* kill -9 on the device, or its failure, which is ignored.
Kill(e, k) ==
    /\ stop[e][k] = "kill"
    /\ StopTo(e, k, "process")
    /\ doomed' \in {doomed \cup Killed(e, k)}
                 \cup (IF calm THEN {} ELSE {doomed})
    /\ victims' = [victims EXCEPT ![e][k] = {}]
    /\ remotePids' = [remotePids EXCEPT ![e] = {}]
    /\ UNCHANGED <<start, deviceId, process, abandoned, finalizing, spawning,
                   alive, forward, named, calm>>

\* The local adb shell is terminated; the server on the device may outlive it.
ProcessEnded(e, k) ==
    /\ stop[e][k] = "process"
    /\ process' = [process EXCEPT ![e] = FALSE]
    /\ StopTo(e, k, IF deviceId[e] THEN "unforward" ELSE "done")
    /\ UNCHANGED <<start, deviceId, remotePids, victims, abandoned, finalizing,
                   device, named, calm>>

KeepsDevice(e) == UNCHANGED deviceId   \* faulty variant: the reset is missing
ForgetsDevice(e) == deviceId' = [deviceId EXCEPT ![e] = FALSE]

\* The forward of the port is removed, whoever set it.
ForwardRemoved(e, k) ==
    /\ stop[e][k] = "unforward"
    /\ forward' \in MayBe(FALSE)
    /\ ForgetsDevice(e)
    /\ StopTo(e, k, "done")
    /\ UNCHANGED <<start, process, remotePids, victims, abandoned, finalizing,
                   servers, named, calm>>

-----------------------------------------------------------------------------
(***************************************************************************)
(* The device, the clock, and others                                        *)
(***************************************************************************)

ServerRuns(e) ==
    /\ e \in spawning
    /\ spawning' = spawning \ {e}
    /\ alive' = alive \cup {e}
    /\ UNCHANGED <<start, stop, memory, finalizing, doomed, forward, named,
                   calm>>

\* A killed server dies; any other may end by itself, or not come up.
ServerDies(p) ==
    /\ p \in alive \cup spawning
    /\ alive' = alive \ {p}
    /\ spawning' = spawning \ {p}
    /\ doomed' = doomed \ {p}
    /\ UNCHANGED <<start, stop, memory, finalizing, forward, named, calm>>

\* Ten seconds after its registration, longer than a kill is waited for.
FinalizingExpires(p) ==
    /\ p \in finalizing
    /\ \A e \in Encoders, k \in Stoppers : p \notin victims[e][k]
    /\ finalizing' = finalizing \ {p}
    /\ UNCHANGED <<start, stop, memory, device, named, calm>>

OtherStarts ==
    /\ ~calm
    /\ Other \notin alive
    /\ alive' = alive \cup {Other}
    /\ UNCHANGED <<start, stop, memory, finalizing, spawning, doomed, forward,
                   named, calm>>

Next ==
    \/ \E e \in Encoders :
          \/ Begin(e) \/ Detect(e) \/ Push(e) \/ ClearForward(e)
          \/ SetForward(e) \/ Launch(e) \/ Connect(e) \/ Enumerate(e)
          \/ CancelStart(e) \/ StreamEnds(e) \/ ServiceAfterEnd(e)
          \/ ServiceStops(e) \/ Abandon(e) \/ ServerRuns(e)
          \/ \E k \in Stoppers :
                \/ SocketsClosed(e, k) \/ Kill(e, k)
                \/ ProcessEnded(e, k) \/ ForwardRemoved(e, k)
    \/ \E p \in Servers : ServerDies(p) \/ FinalizingExpires(p)
    \/ OtherStarts

Spec == Init /\ [][Next]_vars

-----------------------------------------------------------------------------
\* One of the calls of stop() has begun.
Stopping(e) == \E k \in Stoppers : stop[e][k] /= "none"

Stopped(e) == start[e] = "over" /\ stop[e]["service"] = "done"

\* An encoder's stop() never kills the server of another encoder that is still
\* in use: what it enumerated besides its own is being finished off
\* (_enumerate_remote_pids behind the finalizing exemption of the detection).
KillsNoneInUse ==
    calm => \A e, f \in Encoders :
        /\ f \in remotePids[e] \cup UNION {victims[e][k] : k \in Stoppers}
        /\ f /= e
        => Stopping(f)

\* A server of somebody else that was there when an encoder started is never
\* killed (ScrcpyOccupiedError is raised instead).
OtherSpared == calm => Other \notin doomed

\* A server that start() got to know does not outlive stop(), however the two
\* calls of it interleave: it is dead or about to die.
KnownServersEnd ==
    calm => \A e \in Encoders :
        Stopped(e) /\ e \in named => e \notin alive \ doomed

\* When the service's call of stop() returns, the encoder is as empty as new,
\* whatever the other call still does and whatever the device answered.
StoppedClean ==
    \A e \in Encoders : Stopped(e) =>
        ~process[e] /\ ~deviceId[e] /\ remotePids[e] = {}

\* The comment above the enumeration (379-380): with it stop() ends the
\* device-side process and no new leftovers arise; they would block every later
\* start.
NoLeftovers ==
    calm /\ (\A e \in Encoders : start[e] = "new" \/ Stopped(e))
        => alive \ doomed \subseteq {Other}

\* Step 4 of start() (212): the forward has to be set before the server starts.
ForwardBeforeServer ==
    calm => \A e \in Encoders : start[e] \in {"launch", "connect"} => forward
=============================================================================
