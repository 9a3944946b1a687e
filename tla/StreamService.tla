--------------------------- MODULE StreamService ---------------------------
(***************************************************************************)
(* The video sessions of one device: StreamService                          *)
(* (backend/app/application/stream_service.py) and the WebSocket handler    *)
(* that drives it (backend/app/interfaces/ws/video.py).  Every dictionary   *)
(* of the service is keyed by device and no operation touches two devices,  *)
(* so one device is the whole state.                                        *)
(*                                                                          *)
(* The service runs on one asyncio loop: a step of the model is what a task *)
(* does between two awaits.  A session is one WebSocket connection.  Its    *)
(* handler (ws) and the async generator start_stream (gen) are one task     *)
(* until a send fails: then the generator is abandoned at its yield and its *)
(* cleanup runs in a task of its own, concurrently with the handler's and   *)
(* with any later session.                                                  *)
(***************************************************************************)
EXTENDS Naturals, FiniteSets

CONSTANTS
    Sessions,    \* the WebSocket connections
    Tiers,       \* bit rates the adaptive advisor may choose
    BaseTier,    \* the configured bit rate a session starts with
    Tries,       \* attempts of acquire_stream
    MaxStalls,   \* self-healing restarts allowed in the 60s window
    IdleProbe,   \* idle_reset_seconds > 0: a silent encoder is probed
    MaxEpoch,    \* bound: no stall and no report from this epoch on
    Absent,      \* a dictionary has no entry for the device
    Stopped      \* the entry False of active_streams

ASSUME ServiceAssumption ==
    /\ BaseTier \in Tiers
    /\ Absent \notin Sessions \cup Tiers
    /\ Stopped \notin Sessions \cup {Absent}
    /\ Tries \in Nat \ {0}
    /\ MaxStalls \in Nat \ {0}
    /\ IdleProbe \in BOOLEAN
    /\ MaxEpoch \in Nat

VARIABLES
    \* StreamService, the entries of the device
    active,          \* active_streams: the token of a session, or Stopped
    encoders,        \* encoders: the session whose encoder is registered
    advisors,        \* _advisors: the session whose advisor is registered
    restartEvents,   \* _restart_events: the session whose event is registered
    pending,         \* _pending_bitrate
    epoch,           \* _epoch
    stalls,          \* length of _stall_restarts
    grace,           \* _report_grace_until lies in the future
    \* per session: start_stream
    gen,             \* where the generator is
    why,             \* why it stops its encoder
    bps,             \* current_bps
    adv,             \* the tier its advisor believes is in use
    event,           \* restart_event is set
    \* per session: the WebSocket handler
    ws,              \* where the handler is
    tries,           \* sleeps of acquire_stream so far
    seen,            \* seen_epoch
    client,          \* the client is still connected
    \* history
    stale,           \* the parser holds state of an earlier encoder
    overlapped       \* another session's cleanup ended during this session

registry == <<active, encoders, advisors, restartEvents,
              pending, epoch, stalls, grace>>
generator == <<gen, why, bps, adv, event>>
handler == <<ws, tries, seen, client>>
history == <<stale, overlapped>>
vars == <<registry, generator, handler, history>>

GenStates == {"none", "wait", "yielded", "stopping", "backoff"}
Reasons == {"none", "end", "restart", "stall"}
Streaming == {"run", "sending"}
WsStates == Streaming \cup
            {"new", "acquiring", "farewell", "closing", "refused", "done"}

RegistryTyped ==
    /\ active \in Sessions \cup {Absent, Stopped}
    /\ encoders \in Sessions \cup {Absent}
    /\ advisors \in Sessions \cup {Absent}
    /\ restartEvents \in Sessions \cup {Absent}
    /\ pending \in Tiers \cup {Absent}
    /\ epoch \in Nat
    /\ stalls \in 0 .. MaxStalls

SessionTyped ==
    /\ gen \in [Sessions -> GenStates]
    /\ why \in [Sessions -> Reasons]
    /\ bps \in [Sessions -> Tiers]
    /\ adv \in [Sessions -> Tiers \cup {Absent}]
    /\ ws \in [Sessions -> WsStates]
    /\ tries \in [Sessions -> 0 .. Tries]
    /\ seen \in [Sessions -> Nat]

FlagsTyped ==
    /\ grace \in BOOLEAN
    /\ event \in [Sessions -> BOOLEAN]
    /\ client \in [Sessions -> BOOLEAN]
    /\ stale \in [Sessions -> BOOLEAN]
    /\ overlapped \in [Sessions -> BOOLEAN]

TypeOK == RegistryTyped /\ SessionTyped /\ FlagsTyped

Init ==
    /\ active = Absent /\ encoders = Absent /\ advisors = Absent
    /\ restartEvents = Absent /\ pending = Absent
    /\ epoch = 0 /\ stalls = 0 /\ grace = FALSE
    /\ gen = [s \in Sessions |-> "none"]
    /\ why = [s \in Sessions |-> "none"]
    /\ bps = [s \in Sessions |-> BaseTier]
    /\ adv = [s \in Sessions |-> Absent]
    /\ event = [s \in Sessions |-> FALSE]
    /\ ws = [s \in Sessions |-> "new"]
    /\ tries = [s \in Sessions |-> 0]
    /\ seen = [s \in Sessions |-> 0]
    /\ client = [s \in Sessions |-> TRUE]
    /\ stale = [s \in Sessions |-> FALSE]
    /\ overlapped = [s \in Sessions |-> FALSE]

-----------------------------------------------------------------------------
(***************************************************************************)
(* acquire_stream and the start of start_stream                             *)
(***************************************************************************)

\* active_streams.get(device) is truthy: Stopped (False) is not.
NeverBusy == FALSE                          \* faulty variant: the slot is not checked
Busy == active \in Sessions

\* The identity guard of a cleanup: reg is popped only if it is still s's own.
PopAny(reg, s) == Absent                    \* faulty variant: unconditional pop
PopNever(reg, s) == reg                     \* faulty variant: the pop is missing
PopOwn(reg, s) == IF reg = s THEN Absent ELSE reg

\* The top of the inner loop: the event is cleared unless a switch is pending,
\* then the next frame and the event are awaited together.
AwaitClearing(s) ==                         \* faulty variant: clears at every turn
    /\ gen' = [gen EXCEPT ![s] = "wait"]
    /\ event' = [event EXCEPT ![s] = FALSE]
AwaitFrameOrEvent(s) ==
    /\ gen' = [gen EXCEPT ![s] = "wait"]
    /\ event' = [event EXCEPT ![s] = IF pending' = Absent THEN FALSE ELSE @]

\* Slot taken: sleep a second and look again.
AcquireWait(s) ==
    /\ ws[s] \in {"new", "acquiring"}
    /\ tries[s] < Tries
    /\ Busy
    /\ tries' = [tries EXCEPT ![s] = @ + 1]
    /\ ws' = [ws EXCEPT ![s] = "acquiring"]
    /\ UNCHANGED <<registry, generator, seen, client, history>>

\* The last sleep is over: refused, without another look at the slot.
Refuse(s) ==
    /\ ws[s] = "acquiring"
    /\ tries[s] = Tries
    /\ ws' = [ws EXCEPT ![s] = "refused"]
    /\ tries' = [tries EXCEPT ![s] = 0]
    /\ UNCHANGED <<registry, generator, seen, client, history>>

\* The claim of acquire_stream: token registered, the old pending entry gone.
Claim(s) ==
    /\ ws[s] \in {"new", "acquiring"}
    /\ tries[s] < Tries
    /\ ~Busy
    /\ active' = s
    /\ pending' = Absent
    /\ tries' = [tries EXCEPT ![s] = 0]
    /\ seen' = [seen EXCEPT ![s] = epoch]

\* The claim, and start_stream up to its first await: there is none before the
\* first asyncio.wait.  Without adaptive bit rate no advisor is registered and
\* an earlier session's stays where it is.
Acquire(s) ==
    /\ Claim(s)
    /\ ws' = [ws EXCEPT ![s] = "run"]
    /\ encoders' = s
    /\ restartEvents' = s
    /\ bps' = [bps EXCEPT ![s] = BaseTier]
    /\ \E adaptive \in BOOLEAN :
          /\ advisors' = IF adaptive THEN s ELSE advisors
          /\ adv' = [adv EXCEPT ![s] = IF adaptive THEN BaseTier ELSE Absent]
    /\ AwaitFrameOrEvent(s)
    /\ stale' = [stale EXCEPT ![s] = FALSE]
    /\ overlapped' = [overlapped EXCEPT ![s] = FALSE]
    /\ UNCHANGED <<epoch, stalls, grace, why, client>>

\* The claim, but start_stream raises ValueError (raw fallback with h265)
\* before its try: nothing registered, nothing cleaned up, only release_stream
\* will take the token back.
ClaimRejected(s) ==
    /\ Claim(s)
    /\ ws' = [ws EXCEPT ![s] = "farewell"]
    /\ UNCHANGED <<encoders, advisors, restartEvents, epoch, stalls, grace,
                   generator, client, history>>

-----------------------------------------------------------------------------
(***************************************************************************)
(* Cleanup of start_stream                                                  *)
(***************************************************************************)

\* `await encoder.stop()` of the inner finally begins.
StopEncoder(s, reason) ==
    /\ gen' = [gen EXCEPT ![s] = "stopping"]
    /\ why' = [why EXCEPT ![s] = reason]

\* The token is popped if it is the session's own, and a False whoever wrote it.
TokenPoppedAlways(s) == Absent              \* faulty variant: no identity guard
TokenPopped(s) == IF active \in {s, Stopped} THEN Absent ELSE active

\* The outer finally: what is registered is popped if it is the session's own,
\* the data entries whoever they belong to, and the generator's locals are
\* gone.  A handler still in its loop is told (StopAsyncIteration or an
\* exception) and says goodbye to its client.
Teardown(s) ==
    /\ active' = TokenPopped(s)
    /\ advisors' = IF adv[s] /= Absent THEN PopOwn(advisors, s) ELSE advisors
    /\ restartEvents' = PopOwn(restartEvents, s)
    /\ pending' = Absent
    /\ epoch' = 0
    /\ stalls' = 0
    /\ grace' = FALSE
    /\ gen' = [gen EXCEPT ![s] = "none"]
    /\ why' = [why EXCEPT ![s] = "none"]
    /\ bps' = [bps EXCEPT ![s] = BaseTier]
    /\ adv' = [adv EXCEPT ![s] = Absent]
    /\ event' = [event EXCEPT ![s] = FALSE]
    /\ ws' = [ws EXCEPT ![s] = IF @ = "run" THEN "farewell" ELSE @]
    /\ overlapped' = [t \in Sessions |->
                        overlapped[t] \/ (t /= s /\ ws[t] \in Streaming)]
    /\ UNCHANGED <<tries, seen, client, stale>>

\* Each restart of the encoder starts an epoch.
NextEpoch == epoch + 1

\* The restarts of the last 60 seconds allow no further one.
Exhausted(kept) == kept >= MaxStalls

\* The outer loop again: a new encoder in the next epoch, whose frames must
\* not meet the parser state of the old one.
NewEncoder(s) ==
    /\ active = s
    /\ encoders' = s
    /\ epoch' = NextEpoch
    /\ stale' = [stale EXCEPT ![s] = TRUE]
    /\ why' = [why EXCEPT ![s] = "none"]
    /\ AwaitFrameOrEvent(s)

\* encoder.stop() returns after a switch of the bit rate.
RestartStopped(s) ==
    /\ gen[s] = "stopping" /\ why[s] = "restart"
    /\ pending' = pending
    /\ NewEncoder(s)
    /\ UNCHANGED <<active, advisors, restartEvents, stalls, grace,
                   bps, adv, handler, overlapped>>

\* encoder.stop() returns after a stall.  kept: the restarts of the last 60s.
\* Below the limit the restart is recorded; the record is written after the
\* sleep, but carries the time before it and only this session reads it.
StallStopped(s) ==
    /\ gen[s] = "stopping" /\ why[s] = "stall"
    /\ encoders' = PopOwn(encoders, s)
    /\ \E kept \in 0 .. stalls :
          \/ /\ Exhausted(kept)
             /\ Teardown(s)
          \/ /\ ~Exhausted(kept)
             /\ stalls' = kept + 1
             /\ gen' = [gen EXCEPT ![s] = "backoff"]
             /\ UNCHANGED <<active, advisors, restartEvents, pending, epoch,
                            grace, why, bps, adv, event, handler, history>>

\* The back-off (none for the first stall) is over: the reports of the black
\* screen are not to count, and the stream goes on with a new encoder.
BackoffDone(s) ==
    /\ gen[s] = "backoff"
    /\ grace' = TRUE
    /\ pending' = pending
    /\ NewEncoder(s)
    /\ UNCHANGED <<active, advisors, restartEvents, stalls,
                   bps, adv, handler, overlapped>>

\* encoder.stop() returns and the generator ends.
EndStopped(s) ==
    /\ gen[s] = "stopping" /\ why[s] = "end"
    /\ encoders' = PopOwn(encoders, s)
    /\ Teardown(s)

-----------------------------------------------------------------------------
(***************************************************************************)
(* The frame loop                                                           *)
(***************************************************************************)

\* A frame wins the race, or ties: it is yielded to the handler, which compares
\* epochs first and drops the parser state of an earlier epoch.
FrameReady(s) ==
    /\ gen[s] = "wait"
    /\ gen' = [gen EXCEPT ![s] = "yielded"]
    /\ ws' = [ws EXCEPT ![s] = "sending"]
    /\ seen' = [seen EXCEPT ![s] = epoch]
    /\ stale' = [stale EXCEPT ![s] = @ /\ seen[s] = epoch]
    /\ UNCHANGED <<registry, why, bps, adv, event, tries, client, overlapped>>

\* The chunk is sent, or held back while no decoder config has been sent.  The
\* generator resumes: next frame if the token is still its own, else the end.
SendOk(s) ==
    /\ ws[s] = "sending"
    /\ ws' = [ws EXCEPT ![s] = "run"]
    /\ IF active = s
       THEN /\ pending' = pending
            /\ AwaitFrameOrEvent(s)
            /\ UNCHANGED why
       ELSE /\ StopEncoder(s, "end")
            /\ UNCHANGED <<pending, event>>
    /\ UNCHANGED <<active, encoders, advisors, restartEvents, epoch, stalls,
                   grace, bps, adv, tries, seen, client, history>>

\* The send raises: the handler leaves its loop for its finally, the generator
\* stays suspended at its yield, with nobody to resume it.
SendFail(s) ==
    /\ ws[s] = "sending"
    /\ ~client[s]
    /\ ws' = [ws EXCEPT ![s] = "closing"]
    /\ UNCHANGED <<registry, generator, tries, seen, client, history>>

\* The event loop's hook closes the abandoned generator in a task of its own.
GenClose(s) ==
    /\ gen[s] = "yielded"
    /\ ws[s] \notin Streaming
    /\ StopEncoder(s, "end")
    /\ UNCHANGED <<registry, bps, adv, event, handler, history>>

\* The encoder ends, fails to start or breaks: StopAsyncIteration or an error.
GenEnd(s) ==
    /\ gen[s] = "wait"
    /\ StopEncoder(s, "end")
    /\ UNCHANGED <<registry, bps, adv, event, handler, history>>

\* The idle probe gives the encoder up: EncoderStalledError.
GenStall(s) ==
    /\ IdleProbe
    /\ gen[s] = "wait"
    /\ epoch < MaxEpoch
    /\ StopEncoder(s, "stall")
    /\ UNCHANGED <<registry, bps, adv, event, handler, history>>

\* The next encoder runs at the pending bit rate.
NotSwitched(s) == UNCHANGED bps             \* faulty variant: the old bit rate is kept
Switched(s) == bps' = [bps EXCEPT ![s] = pending]

\* The event wins the race: the pending bit rate is consumed.  If there is
\* none, or it is the one in use, the wait goes on with the same frame task.
GenRestart(s) ==
    /\ gen[s] = "wait"
    /\ event[s]
    /\ pending' = Absent
    /\ IF pending \in {Absent, bps[s]}
       THEN /\ AwaitFrameOrEvent(s)
            /\ UNCHANGED <<why, bps>>
       ELSE /\ Switched(s)
            /\ StopEncoder(s, "restart")
            /\ UNCHANGED event
    /\ UNCHANGED <<active, encoders, advisors, restartEvents, epoch, stalls,
                   grace, adv, handler, history>>

-----------------------------------------------------------------------------
(***************************************************************************)
(* The handler's end, its input task, and the environment                   *)
(***************************************************************************)

\* The closing message is sent, or fails and is ignored.
Farewell(s) ==
    /\ ws[s] = "farewell"
    /\ ws' = [ws EXCEPT ![s] = "closing"]
    /\ UNCHANGED <<registry, generator, tries, seen, client, history>>

\* release_stream takes back the session's own token, nobody else's.
NotReleased(s) == active                    \* faulty variant: the release is missing
Released(s) == IF active = s THEN Stopped ELSE active

\* The handler's finally, after the input task and the clipboard mirror are
\* stopped: release_stream, a no-op unless the token is still the session's.
\* The handler's locals are gone.
Release(s) ==
    /\ ws[s] = "closing"
    /\ active' = Released(s)
    /\ ws' = [ws EXCEPT ![s] = "done"]
    /\ seen' = [seen EXCEPT ![s] = 0]
    /\ client' = [client EXCEPT ![s] = TRUE]
    /\ stale' = [stale EXCEPT ![s] = FALSE]
    /\ overlapped' = [overlapped EXCEPT ![s] = FALSE]
    /\ UNCHANGED <<encoders, advisors, restartEvents, pending, epoch, stalls,
                   grace, generator, tries>>

\* The input task of s reports the client's frame rate and the registered
\* advisor decides to change tier: the entry is written before the event.
ReportFps(s) ==
    /\ ws[s] \in Streaming \cup {"farewell"}
    /\ client[s]
    /\ advisors /= Absent
    /\ pending = Absent
    /\ ~grace
    /\ epoch < MaxEpoch
    /\ \E tier \in Tiers \ {adv[advisors]} :
          /\ pending' = tier
          /\ adv' = [adv EXCEPT ![advisors] = tier]
    /\ event' = [t \in Sessions |-> event[t] \/ t = restartEvents]
    /\ UNCHANGED <<active, encoders, advisors, restartEvents, epoch, stalls,
                   grace, gen, why, bps, handler, history>>

\* The grace period after a stall runs out.
GraceOver ==
    /\ grace
    /\ grace' = FALSE
    /\ UNCHANGED <<active, encoders, advisors, restartEvents, pending, epoch,
                   stalls, generator, handler, history>>

\* The client disconnects.  Only the input task is told, and it just ends.
ClientGone(s) ==
    /\ ws[s] \in Streaming \cup {"farewell"}
    /\ client[s]
    /\ client' = [client EXCEPT ![s] = FALSE]
    /\ UNCHANGED <<registry, generator, ws, tries, seen, history>>

\* A connection is over and its generator too: the client connects anew.
Reconnect(s) ==
    /\ ws[s] \in {"refused", "done"}
    /\ gen[s] = "none"
    /\ ws' = [ws EXCEPT ![s] = "new"]
    /\ UNCHANGED <<registry, generator, tries, seen, client, history>>

Next ==
    \/ \E s \in Sessions :
          \/ AcquireWait(s) \/ Refuse(s) \/ Acquire(s) \/ ClaimRejected(s)
          \/ FrameReady(s) \/ SendOk(s) \/ SendFail(s) \/ GenClose(s)
          \/ GenEnd(s) \/ GenStall(s) \/ GenRestart(s)
          \/ RestartStopped(s) \/ StallStopped(s) \/ BackoffDone(s)
          \/ EndStopped(s) \/ Farewell(s) \/ Release(s)
          \/ ReportFps(s) \/ ClientGone(s) \/ Reconnect(s)
    \/ GraceOver

Spec == Init /\ [][Next]_vars

-----------------------------------------------------------------------------
(***************************************************************************)
(* Fairness.  The loop runs every ready task, encoder.stop() is bounded by  *)
(* timeouts, sleeps end: weak fairness of the service's own steps.  A frame *)
(* that is always ready wins the race against the event each time, so the   *)
(* switch needs strong fairness: the encoder's queue is empty infinitely    *)
(* often.  The encoder's progress is separate: the idle probe guarantees    *)
(* it, and the probe can be switched off.                                   *)
(***************************************************************************)
ServiceFairness ==
    \A s \in Sessions :
        /\ WF_vars(SendOk(s) \/ SendFail(s))
        /\ SF_vars(SendFail(s))
        /\ WF_vars(GenClose(s))
        /\ SF_vars(GenRestart(s))
        /\ WF_vars(RestartStopped(s))
        /\ WF_vars(StallStopped(s))
        /\ WF_vars(BackoffDone(s))
        /\ WF_vars(EndStopped(s))
        /\ WF_vars(Farewell(s))
        /\ WF_vars(Release(s))

\* With the probe on, an encoder restarted again and again delivers a frame in
\* the end, even of a still screen; with the probe off it may stay silent.
EncoderProgress == IdleProbe => \A s \in Sessions : SF_vars(FrameReady(s))

FairSpec == Spec /\ ServiceFairness /\ EncoderProgress

-----------------------------------------------------------------------------
(***************************************************************************)
(* Properties                                                               *)
(***************************************************************************)

\* A handler that is streaming owns the slot: however late the cleanups of
\* earlier sessions run, none of them stops the stream of a later one, and no
\* two handlers ever stream the device (release_stream 390-409, the identity
\* guards of the outer finally).
OwnerStreams == \A s \in Sessions : ws[s] \in Streaming => active = s

\* A token in the registry belongs to a handler that will still give it back:
\* the slot cannot be lost to a session that is over.
TokenAlive ==
    \A s \in Sessions :
        active = s => ws[s] \in Streaming \cup {"farewell", "closing"}

\* While a session waits for or sends frames, its encoder receives the input
\* and its event the switches, whatever an earlier session's cleanup pops.
Routing ==
    \A s \in Sessions :
        ws[s] \in Streaming /\ gen[s] \in {"wait", "yielded"} =>
            /\ encoders = s
            /\ restartEvents = s
            /\ adv[s] /= Absent => advisors = s

\* A pending bit rate never waits for a frame that may not come: as long as a
\* switch is pending the event of the streaming session stays set, through
\* frames, stalls and restarts.
NoLostWakeup ==
    \A s \in Sessions :
        ws[s] \in Streaming /\ pending /= Absent => event[s]

\* No frame of a new encoder is parsed with the state of the old one, unless
\* an earlier session's cleanup ended meanwhile and reset the epoch.
ParserFresh ==
    \A s \in Sessions :
        ws[s] = "sending" /\ stale[s] => overlapped[s]

\* With no switch pending, the tier the advisor reasons about is the bit rate
\* the encoder runs at, unless an earlier session's cleanup dropped a switch.
AdvisorAgrees ==
    \A s \in Sessions :
        /\ ws[s] \in Streaming
        /\ adv[s] /= Absent
        /\ pending = Absent
        /\ ~overlapped[s]
        => adv[s] = bps[s]

\* When every session is over, no slot, encoder, advisor, event, pending
\* change, epoch, stall count or grace is left for the next session (but a
\* False in active_streams). Not in the model: _last_keyframe_at, which holds
\* a request for a key frame back for a second.
NothingLeft ==
    (\A s \in Sessions :
        gen[s] = "none" /\ ws[s] \in {"new", "refused", "done"})
    => /\ active \in {Absent, Stopped}
       /\ encoders = Absent /\ advisors = Absent /\ restartEvents = Absent
       /\ pending = Absent /\ epoch = 0 /\ stalls = 0 /\ ~grace

\* The inductive invariant behind the invariants above, over any number of
\* sessions: where handler and generator can be together, ...
Stages ==
    \A s \in Sessions :
        /\ ws[s] = "sending" => gen[s] = "yielded"
        /\ ws[s] = "run" => gen[s] \in {"wait", "stopping", "backoff"}
        /\ ws[s] \in {"new", "acquiring", "farewell", "refused"}
              => gen[s] = "none"
        /\ gen[s] = "wait" => ws[s] = "run"
        /\ gen[s] = "backoff" => ws[s] = "run" /\ why[s] = "stall"
        /\ gen[s] = "stopping" /\ why[s] /= "end" => ws[s] = "run"

\* ... whose entries the registry can hold, ...
Registered ==
    /\ \A s \in Sessions :
          /\ encoders = s => gen[s] \notin {"none", "backoff"}
          /\ restartEvents = s => gen[s] /= "none"
          /\ advisors = s => gen[s] /= "none" /\ adv[s] /= Absent
          /\ ws[s] \in Streaming => restartEvents = s
          /\ ws[s] \in Streaming /\ adv[s] /= Absent => advisors = s
    /\ (\A s \in Sessions : gen[s] = "none") =>
          pending = Absent /\ epoch = 0 /\ stalls = 0 /\ ~grace

\* ... and how epochs and tiers of a session no foreign cleanup met relate.
Undisturbed ==
    \A s \in Sessions :
        ws[s] \in Streaming /\ ~overlapped[s] =>
            /\ seen[s] <= epoch
            /\ stale[s] => seen[s] < epoch
            /\ adv[s] /= Absent =>
                  adv[s] = IF pending = Absent THEN bps[s] ELSE pending

IInv == /\ TypeOK /\ OwnerStreams /\ TokenAlive /\ Routing /\ NoLostWakeup
        /\ ParserFresh /\ Stages /\ Registered /\ Undisturbed

\* The outer finally is said to clean only what is its own (lines 285-289):
\* the end of one session's generator leaves the pending switch of the session
\* that owns the slot alone.
TeardownKeepsPending ==
    [][\A s, t \in Sessions :
          /\ gen[s] /= "none" /\ gen'[s] = "none"
          /\ t /= s /\ active = t
          => pending' = pending]_vars

\* The slot of a client that left is released in the end (the handler's
\* docstring: on disconnect the stream is stopped, the encoder released).
SlotReleased ==
    \A s \in Sessions : (active = s /\ ~client[s]) ~> (active /= s)

\* A switch that was decided takes effect, however the frames, the stalls and
\* the restarts fall, as long as the session goes on.
SwitchTakesEffect ==
    \A s \in Sessions : \A tier \in Tiers :
        (ws[s] \in Streaming /\ pending = tier /\ ~overlapped[s])
        ~> (bps[s] = tier \/ ws[s] \notin Streaming \/ overlapped[s])

\* The device's slot, as the clients see it.
Slot == INSTANCE StreamSlot WITH
            Free <- Absent,
            holder <- IF active \in Sessions THEN active ELSE Absent

\* The service implements the exclusive slot.
ImplementsSlot == Slot!Spec
=============================================================================
