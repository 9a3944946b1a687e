----------------------------- MODULE VideoQueue -----------------------------
(***************************************************************************)
(* One running encoder from its video socket to the service: the task       *)
(* read_socket, the bounded _data_queue, and the loop of start() that       *)
(* yields from it and probes a silent device                                *)
(* (backend/app/infrastructure/stream/scrcpy.py).                           *)
(*                                                                          *)
(* The device sends, each time its encoder (re)starts, a session packet, a  *)
(* config packet, a key frame, and then delta frames.  A media packet       *)
(* decodes if nothing it rests on was dropped: a delta frame needs all      *)
(* frames back to the last key frame, a key frame needs its config.  The    *)
(* reader tags each packet with that when it puts it in the queue.          *)
(***************************************************************************)
EXTENDS Naturals, Sequences

CONSTANTS
    Cap,         \* maxsize of _data_queue
    IdleTicks,   \* idle_reset_seconds, in ticks of the loop's wait
    StallTicks,  \* stall_grace, in the same ticks
    StartTicks   \* 3 * idle_reset_seconds, in the same ticks

ASSUME QueueAssumption ==
    /\ Cap \in Nat \ {0}
    /\ IdleTicks \in Nat \ {0} /\ StallTicks \in Nat \ {0}
    /\ StartTicks \in Nat \ {0}

MaxProbeFailures == 3

Frames == [kind : {"config", "key", "delta"}, decodes : BOOLEAN]
Sentinel == [kind |-> "end", decodes |-> TRUE]
NoPacket == [kind |-> "none", decodes |-> TRUE]

VARIABLES
    device,      \* what the device sends next
    wanted,      \* a RESET_VIDEO is on its way to it
    exited,      \* process.returncode is set: the server has ended
    queue,       \* _data_queue
    reader,      \* "reading", "putting" (it waits for a place), "done"
    packet,      \* the packet it is putting
    awaitingKey, \* _awaiting_keyframe
    throttled,   \* the last IDR request is less than a second old
    control,     \* the control socket was connected
    session,     \* a session packet has come
    chainBroken, \* history: a frame since the last key in the queue is lost
    configLost,  \* history: the last config was dropped
    idleProbe,   \* idle_reset_seconds > 0, read when the loop begins
    loop,        \* the loop of start(): "get", "yielded", "ended", "stalled"
    why,         \* the reason of the EncoderStalledError
    idle,        \* ticks since last_data_at
    probe,       \* ticks since reset_sent_at, or NoProbe
    age,         \* ticks since stream_started_at
    failures     \* probe_failures

NoProbe == StallTicks + 1

deviceVars == <<device, wanted, exited>>
readerVars == <<reader, packet, awaitingKey, throttled, control, session,
                chainBroken, configLost>>
loopVars == <<loop, why, idle, probe, age, failures, idleProbe>>
queueVars == <<deviceVars, queue, readerVars, loopVars>>

Over == loop \in {"ended", "stalled"}

\* The control sender is made with the first session packet, if the control
\* socket is connected.
Sender == control /\ session

QueueTypeOK ==
    /\ device \in {"session", "config", "key", "delta"}
    /\ wanted \in BOOLEAN /\ exited \in BOOLEAN
    /\ queue \in Seq(Frames \cup {Sentinel}) /\ Len(queue) <= Cap
    /\ reader \in {"reading", "putting", "done"}
    /\ packet \in Frames \cup {NoPacket}
    /\ reader = "putting" <=> packet /= NoPacket
    /\ awaitingKey \in BOOLEAN /\ throttled \in BOOLEAN
    /\ control \in BOOLEAN /\ session \in BOOLEAN
    /\ chainBroken \in BOOLEAN /\ configLost \in BOOLEAN
    /\ idleProbe \in BOOLEAN
    /\ loop \in {"get", "yielded", "ended", "stalled"}
    /\ why \in {"none", "silent", "no_session_after_start", "probe_send_failed"}
    /\ idle \in 0..IdleTicks
    /\ probe \in 0..NoProbe
    /\ age \in 0..StartTicks
    /\ failures \in 0..MaxProbeFailures

QueueInit ==
    /\ device = "session" /\ wanted = FALSE /\ exited = FALSE
    /\ queue = <<>>
    /\ reader = "reading" /\ packet = NoPacket
    /\ awaitingKey = FALSE /\ throttled = FALSE
    /\ control \in BOOLEAN /\ session = FALSE
    /\ chainBroken = FALSE /\ configLost = FALSE
    /\ idleProbe \in BOOLEAN
    /\ loop = "get" /\ why = "none"
    /\ idle = 0 /\ probe = NoProbe /\ age = 0 /\ failures = 0

-----------------------------------------------------------------------------
(***************************************************************************)
(* The device                                                               *)
(***************************************************************************)

\* It honours a RESET_VIDEO: the encoder is restarted, not before the last
\* restart has brought its key frame.
Honour ==
    /\ wanted /\ ~exited
    /\ device = "delta"
    /\ device' = "session" /\ wanted' = FALSE
    /\ UNCHANGED <<exited, queue, readerVars, loopVars>>

\* The screen turns: the encoder is restarted.
Rotate ==
    /\ ~exited
    /\ device = "delta"
    /\ device' = "session"
    /\ UNCHANGED <<wanted, exited, queue, readerVars, loopVars>>

ServerExits ==
    /\ ~exited
    /\ exited' = TRUE
    /\ UNCHANGED <<device, wanted, queue, readerVars, loopVars>>

SecondPasses ==
    /\ throttled
    /\ throttled' = FALSE
    /\ UNCHANGED <<deviceVars, queue, reader, packet, awaitingKey, control,
                   session, chainBroken, configLost, loopVars>>

-----------------------------------------------------------------------------
(***************************************************************************)
(* read_socket                                                              *)
(***************************************************************************)

\* The next packet the reader gets, and what the device sends after it.
Follows == [session |-> "config", config |-> "key", key |-> "delta",
            delta |-> "delta"]

Sends(p) == device = p /\ device' = Follows[p]

\* _handle_session_event
ReadSession ==
    /\ reader = "reading"
    /\ Sends("session")
    /\ session' = TRUE
    /\ UNCHANGED <<wanted, exited, queue, reader, packet, awaitingKey, throttled,
                   control, chainBroken, configLost, loopVars>>

\* _request_idr_throttled; the request may fail, which is swallowed.
RequestIdr ==
    \/ /\ Sender /\ ~throttled
       /\ throttled' = TRUE
       /\ wanted' \in {wanted, TRUE}
    \/ /\ ~Sender \/ throttled
       /\ UNCHANGED <<wanted, throttled>>

\* What a packet of the kind rests on is there if it is put in the queue now.
Decodes(kind) == CASE kind = "config" -> TRUE
                   [] kind = "key" -> ~configLost
                   [] kind = "delta" -> ~chainBroken

\* The packet enters the queue, which now holds what is given before it.
Enters(kind, before) ==
    /\ queue' = Append(before, [kind |-> kind, decodes |-> Decodes(kind)])
    /\ configLost' = (configLost /\ kind /= "config")
    /\ chainBroken' = (chainBroken /\ kind /= "key")

\* A config, or a media packet that is not dropped while a key frame is
\* awaited, is put in the queue, or waits for a place there.
Puts(kind) == kind \in {"config", "key"} \/ ~awaitingKey

KeepsAwaiting(kind) == awaitingKey                   \* faulty variant: never cleared
Awaiting(kind) == awaitingKey /\ kind /= "key"

Read(kind) ==
    /\ reader = "reading"
    /\ Sends(kind)
    /\ Puts(kind)
    /\ \/ /\ Len(queue) < Cap
          /\ Enters(kind, queue)
          /\ awaitingKey' = Awaiting(kind)
          /\ UNCHANGED <<reader, packet>>
       \/ /\ Len(queue) = Cap
          /\ reader' = "putting"
          /\ packet' = [kind |-> kind, decodes |-> TRUE]
          /\ UNCHANGED <<queue, awaitingKey, chainBroken, configLost>>
    /\ UNCHANGED <<wanted, exited, throttled, control, session, loopVars>>

\* While a key frame is awaited, delta frames are dropped.
ReadDropped ==
    /\ reader = "reading"
    /\ Sends("delta")
    /\ ~Puts("delta")
    /\ chainBroken' = TRUE
    /\ RequestIdr
    /\ UNCHANGED <<exited, queue, reader, packet, awaitingKey, control, session,
                   configLost, loopVars>>

\* The consumer has made a place before the timeout.
PutSucceeds ==
    /\ reader = "putting"
    /\ Len(queue) < Cap
    /\ Enters(packet.kind, queue)
    /\ awaitingKey' = Awaiting(packet.kind)
    /\ reader' = "reading" /\ packet' = NoPacket
    /\ UNCHANGED <<deviceVars, throttled, control, session, loopVars>>

In(kinds) == \E i \in DOMAIN queue : queue[i].kind \in kinds

\* What _drop_backlog takes away besides the packet itself.
LosesConfig == configLost \/ In({"config"})
LosesChain == chainBroken \/ In({"key", "delta"})

\* The queue stayed full for a second: the backlog goes.
\* ... the config takes its place;
ConfigTimesOut ==
    /\ reader = "putting" /\ packet.kind = "config"
    /\ Len(queue) = Cap
    /\ queue' = << [packet EXCEPT !.decodes = TRUE] >>
    /\ configLost' = FALSE
    /\ chainBroken' = LosesChain
    /\ RequestIdr
    /\ reader' = "reading" /\ packet' = NoPacket
    /\ UNCHANGED <<device, exited, awaitingKey, control, session, loopVars>>

\* ... the key frame takes its place, and nothing is awaited any more;
KeyTimesOut ==
    /\ reader = "putting" /\ packet.kind = "key"
    /\ Len(queue) = Cap
    /\ queue' = << [packet EXCEPT !.decodes = ~LosesConfig] >>
    /\ configLost' = LosesConfig
    /\ chainBroken' = FALSE
    /\ awaitingKey' = FALSE
    /\ reader' = "reading" /\ packet' = NoPacket
    /\ UNCHANGED <<deviceVars, throttled, control, session, loopVars>>

\* ... or the delta frame goes too, and a key frame is awaited.
StaysAsItWas == UNCHANGED awaitingKey                \* faulty variant: nothing awaited
StartsAwaiting == awaitingKey' = TRUE
DeltaTimesOut ==
    /\ reader = "putting" /\ packet.kind = "delta"
    /\ Len(queue) = Cap
    /\ queue' = <<>>
    /\ configLost' = LosesConfig
    /\ chainBroken' = TRUE
    /\ StartsAwaiting
    /\ RequestIdr
    /\ reader' = "reading" /\ packet' = NoPacket
    /\ UNCHANGED <<device, exited, control, session, loopVars>>

\* The socket is closed, broken, or the device reports an error; the finally
\* leaves the sentinel, for which a full queue is emptied.  A reader that waits
\* for a place is ended only by the loop, which cancels it when it is over.
PutSentinel == queue' = IF Len(queue) < Cap
                        THEN Append(queue, Sentinel) ELSE <<Sentinel>>

ReaderEnds ==
    /\ \/ reader = "reading"
       \/ reader = "putting" /\ Over
    /\ PutSentinel
    /\ reader' = "done" /\ packet' = NoPacket
    /\ UNCHANGED <<deviceVars, awaitingKey, throttled, control, session,
                   chainBroken, configLost, loopVars>>

-----------------------------------------------------------------------------
(***************************************************************************)
(* The loop of start()                                                      *)
(***************************************************************************)

UpTo(n, top) == IF n < top THEN n + 1 ELSE n

\* A tick later; what is counted is counted up to its threshold.
Later(count) == IF count = NoProbe THEN NoProbe ELSE UpTo(count, StallTicks)

Get ==
    /\ loop = "get"
    /\ queue /= <<>>
    /\ queue' = Tail(queue)
    /\ \/ /\ Head(queue) = Sentinel
          /\ loop' = "ended"
          /\ UNCHANGED <<idle, probe>>
       \/ /\ Head(queue) /= Sentinel
          /\ loop' = "yielded"
          /\ idle' = 0 /\ probe' = NoProbe
    /\ UNCHANGED <<deviceVars, readerVars, why, age, failures, idleProbe>>

Resume ==
    /\ loop = "yielded"
    /\ loop' = "get"
    /\ UNCHANGED <<deviceVars, queue, readerVars, why, idle, probe, age, failures,
                   idleProbe>>

\* The handler's send takes its time.
SendTakesTime ==
    /\ loop = "yielded"
    /\ idle' = UpTo(idle, IdleTicks) /\ age' = UpTo(age, StartTicks)
    /\ probe' = Later(probe)
    /\ UNCHANGED <<deviceVars, queue, readerVars, loop, why, failures, idleProbe>>

Stall(reason) == loop' = "stalled" /\ why' = reason

\* RESET_VIDEO is sent and the answer awaited, or the send fails, for the
\* third time in a row if the encoder is given up.
SendProbe ==
    \/ /\ wanted' = TRUE
       /\ probe' = 0 /\ failures' = 0
       /\ UNCHANGED <<loop, why>>
    \/ /\ probe' = NoProbe
       /\ failures' = failures + 1
       /\ \/ failures' >= MaxProbeFailures /\ Stall("probe_send_failed")
          \/ failures' < MaxProbeFailures /\ UNCHANGED <<loop, why>>
       /\ UNCHANGED wanted

Idle == idleProbe /\ probe = NoProbe /\ idle' >= IdleTicks

\* A wait without data.
Tick ==
    /\ loop = "get"
    /\ queue = <<>>
    /\ idle' = UpTo(idle, IdleTicks) /\ age' = UpTo(age, StartTicks)
    /\ \/ /\ exited
          /\ loop' = "ended"
          /\ UNCHANGED <<probe, wanted, failures, why>>
       \/ /\ ~exited /\ idleProbe /\ ~Sender
          /\ \/ age' >= StartTicks /\ Stall("no_session_after_start")
             \/ age' < StartTicks /\ UNCHANGED <<loop, why>>
          /\ UNCHANGED <<probe, wanted, failures>>
       \/ /\ ~exited /\ Sender /\ Idle
          /\ SendProbe
       \/ /\ ~exited /\ ~Idle /\ (Sender \/ ~idleProbe)
          /\ probe' = Later(probe)
          /\ \/ probe' = StallTicks /\ Stall("silent")
             \/ probe' /= StallTicks /\ UNCHANGED <<loop, why>>
          /\ UNCHANGED <<wanted, failures>>
    /\ UNCHANGED <<device, exited, queue, readerVars, idleProbe>>

-----------------------------------------------------------------------------
ReadMedia == \E kind \in {"config", "key", "delta"} : Read(kind)

Reader ==
    \/ ReadSession \/ ReadMedia \/ ReadDropped
    \/ PutSucceeds \/ ConfigTimesOut \/ KeyTimesOut \/ DeltaTimesOut

Loop == Get \/ Resume \/ Tick

QueueNext == Honour \/ Rotate \/ ServerExits \/ SecondPasses \/ Reader \/ ReaderEnds
        \/ Loop \/ SendTakesTime

\* The loop runs, the handler comes back for the next frame, and the reader
\* stores what it waits to store.  The device sends frames when it likes, but it
\* answers a RESET_VIDEO, and completes a restart with a key frame.
QueueFairness ==
    /\ WF_queueVars(Get) /\ WF_queueVars(Resume) /\ WF_queueVars(Tick)
    /\ WF_queueVars(PutSucceeds)
    /\ WF_queueVars(ConfigTimesOut \/ KeyTimesOut \/ DeltaTimesOut)
    /\ WF_queueVars(Honour)
    /\ WF_queueVars(~exited /\ (ReadSession \/ Read("config") \/ Read("key")))

QueueSpec == QueueInit /\ [][QueueNext]_queueVars /\ QueueFairness

-----------------------------------------------------------------------------
\* A delta frame whose chain is broken never enters the queue (P0-2 in
\* read_socket): the decoder sees no frame that rests on one that was dropped.
DeltasDecode ==
    \A i \in DOMAIN queue : queue[i].kind = "delta" => queue[i].decodes

\* The comments of read_socket (449-451, 475-476): a config is the decoder's
\* precondition and is never lost, so each key frame finds its config.
KeysDecode ==
    \A i \in DOMAIN queue : queue[i].kind = "key" => queue[i].decodes

\* The comment of the start-up stall (579-580): no control sender means that a
\* session packet never came.
StalledWithoutSession == why = "no_session_after_start" => ~session

\* When the socket is gone, the loop learns it from the sentinel, also behind a
\* full queue and without the probe (P0-3 in the finally of read_socket).
EndIsNoticed == reader = "done" ~> Over

\* After a backlog was dropped a key frame comes, or the encoder is given up:
\* with the probe on the stream does not stay frozen although the requests of
\* _request_idr_throttled may be throttled or fail.
KeyFrameComes ==
    awaitingKey /\ idleProbe ~> ~awaitingKey \/ reader = "done" \/ Over

\* The queue keeps its bounds, and what it holds can be decoded
\* (read_socket, scrcpy.py:453-646).
QueueInv == QueueTypeOK /\ DeltasDecode
=============================================================================
