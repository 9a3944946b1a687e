--------------------------- MODULE Channel_proofs ---------------------------
(***************************************************************************)
(* What the two directions of a stream promise: the queue of the encoder   *)
(* sends no picture that cannot be decoded (VideoQueue), an operation of   *)
(* the user acts once or not at all (ControlInput), the bit rate is not    *)
(* thrown about (BitrateAdvisor), who waits for the clipboard is served    *)
(* (Clipboard), and every picture of the encoder gets to the page once,    *)
(* with the sets it was made with (AccessUnits).                           *)
(***************************************************************************)
EXTENDS VideoQueue, ControlInput, BitrateAdvisor, Clipboard, AccessUnits,
        SequenceFacts, FiniteSetTheorems, TLAPS

-----------------------------------------------------------------------------
(***************************************************************************)
(* No delta frame enters the queue whose chain is broken, for any capacity *)
(* and any thresholds. A broken chain is nearly always a flag that is up   *)
(* (awaitingKey); where a config has taken the place of the backlog it is  *)
(* not, and there the device sends a key frame next.                       *)
(***************************************************************************)

Flags ==
    /\ wanted \in BOOLEAN /\ exited \in BOOLEAN
    /\ awaitingKey \in BOOLEAN /\ throttled \in BOOLEAN
    /\ control \in BOOLEAN /\ session \in BOOLEAN
    /\ chainBroken \in BOOLEAN /\ configLost \in BOOLEAN
    /\ idleProbe \in BOOLEAN

Steps ==
    /\ device \in {"session", "config", "key", "delta"}
    /\ reader \in {"reading", "putting", "done"}
    /\ packet \in Frames \cup {NoPacket}
    /\ reader = "putting" <=> packet /= NoPacket
    /\ loop \in {"get", "yielded", "ended", "stalled"}
    /\ why \in {"none", "silent", "no_session_after_start", "probe_send_failed"}

Places == queue \in Seq(Frames \cup {Sentinel}) /\ Len(queue) <= Cap

Ticks ==
    /\ idle \in 0..IdleTicks /\ probe \in 0..NoProbe /\ age \in 0..StartTicks
    /\ failures \in 0..MaxProbeFailures
    /\ failures = MaxProbeFailures => loop = "stalled"

\* What a lost frame is made good by.
Chain ==
    /\ chainBroken => \/ awaitingKey \/ reader = "done"
                      \/ device = "key" \/ packet.kind = "key"
    /\ packet.kind = "delta" => ~chainBroken
    /\ packet.kind = "config" => device = "key"

QueueIInv == Flags /\ Steps /\ Places /\ Ticks /\ Chain /\ DeltasDecode

LEMMA Entries == \A e \in Frames \cup {Sentinel} : e.kind \in {"config", "key", "delta", "end"}
BY DEF Frames, Sentinel

LEMMA InitQueue == QueueInit => QueueIInv
<1> SUFFICES ASSUME QueueInit PROVE QueueIInv
  OBVIOUS
<1>1. Flags
  BY DEF QueueInit, Flags
<1>2. Steps
  BY DEF QueueInit, Steps
<1>3. Places /\ DeltasDecode
  BY QueueAssumption DEF QueueAssumption, QueueInit, Places, DeltasDecode
<1>4. Ticks
  BY QueueAssumption DEF QueueAssumption, QueueInit, Ticks, NoProbe, MaxProbeFailures
<1>5. Chain
  BY DEF QueueInit, Chain, NoPacket
<1>6. QED
  BY <1>1, <1>2, <1>3, <1>4, <1>5 DEF QueueIInv

\* What the reader puts in leaves the queue a sequence within its capacity,
\* whose delta frames decode if the new one does.
LEMMA PutIn ==
    ASSUME QueueIInv, NEW e \in Frames \cup {Sentinel}, Len(queue) < Cap,
           queue' = Append(queue, e), e.kind = "delta" => e.decodes
    PROVE  Places' /\ DeltasDecode'
<1>1. Places'
  BY QueueAssumption DEF QueueAssumption, QueueIInv, Places
<1>2. \A i \in DOMAIN queue' : \/ queue'[i] = e
                               \/ i \in DOMAIN queue /\ queue'[i] = queue[i]
  <2>1. queue \in Seq(Frames \cup {Sentinel})
    BY DEF QueueIInv, Places
  <2>2. /\ DOMAIN queue = 1 .. Len(queue) /\ DOMAIN queue' = 1 .. Len(queue) + 1
        /\ Len(queue) \in Nat /\ queue'[Len(queue) + 1] = e
        /\ \A i \in 1 .. Len(queue) : queue'[i] = queue[i]
    BY <2>1
  <2>3. QED
    BY <2>2
<1>3. DeltasDecode'
  BY <1>2 DEF QueueIInv, DeltasDecode
<1>4. QED
  BY <1>1, <1>3

\* The same where the backlog has gone.
LEMMA PutAlone ==
    ASSUME QueueAssumption, NEW e \in Frames \cup {Sentinel}, queue' = <<e>>,
           e.kind = "delta" => e.decodes
    PROVE  Places' /\ DeltasDecode'
<1>1. Len(queue') = 1 /\ queue'[1] = e
  OBVIOUS
<1>2. Places'
  BY <1>1 DEF QueueAssumption, Places
<1>3. DeltasDecode'
  BY <1>1 DEF DeltasDecode
<1>4. QED
  BY <1>2, <1>3

\* The device and the passing second touch neither the queue nor the reader.
LEMMA DeviceKeeps ==
    QueueIInv /\ (Honour \/ Rotate \/ ServerExits \/ SecondPasses) => QueueIInv'
<1> SUFFICES ASSUME QueueIInv, Honour \/ Rotate \/ ServerExits \/ SecondPasses
             PROVE  QueueIInv'
  OBVIOUS
<1>1. /\ UNCHANGED <<queue, reader, packet, awaitingKey, control, session,
                     chainBroken, configLost, loopVars>>
      /\ \/ device' = device
         \/ device = "delta" /\ device' = "session"
  BY DEF Honour, Rotate, ServerExits, SecondPasses, readerVars, deviceVars
<1>2. Flags'
  BY DEF Honour, Rotate, ServerExits, SecondPasses, readerVars, deviceVars,
         QueueIInv, Flags, loopVars
<1>3. Steps' /\ Chain'
  BY <1>1 DEF QueueIInv, Steps, Chain, loopVars
<1>4. Places' /\ DeltasDecode' /\ Ticks'
  BY <1>1 DEF QueueIInv, Places, Ticks, DeltasDecode, loopVars, NoProbe
<1>5. QED
  BY <1>2, <1>3, <1>4 DEF QueueIInv

\* The requests for a key frame.
LEMMA Idr == ASSUME Flags, RequestIdr PROVE wanted' \in BOOLEAN /\ throttled' \in BOOLEAN
BY DEF Flags, RequestIdr

LEMMA SessionKeeps == QueueIInv /\ ReadSession => QueueIInv'
<1> SUFFICES ASSUME QueueIInv, ReadSession PROVE QueueIInv'
  OBVIOUS
<1>1. /\ device = "session" /\ device' = "config" /\ session' = TRUE
      /\ UNCHANGED <<wanted, exited, queue, reader, packet, awaitingKey, throttled,
                     control, chainBroken, configLost, loopVars>>
  BY DEF ReadSession, Sends, Follows
<1>2. Flags'
  BY <1>1 DEF QueueIInv, Flags, loopVars
<1>3. Steps' /\ Chain'
  BY <1>1 DEF QueueIInv, Steps, Chain, loopVars
<1>4. Places' /\ DeltasDecode' /\ Ticks'
  BY <1>1 DEF QueueIInv, Places, Ticks, DeltasDecode, loopVars, NoProbe
<1>5. QED
  BY <1>2, <1>3, <1>4 DEF QueueIInv

\* A packet is put in the queue or waits; a delta frame only if none is lost.
LEMMA ReadKeeps ==
    ASSUME NEW kind \in {"config", "key", "delta"} PROVE QueueIInv /\ Read(kind) => QueueIInv'
<1> SUFFICES ASSUME QueueIInv, Read(kind) PROVE QueueIInv'
  OBVIOUS
<1>1. /\ device = kind /\ device' = Follows[kind] /\ reader = "reading"
      /\ UNCHANGED <<wanted, exited, throttled, control, session, loopVars>>
      /\ kind = "delta" => ~awaitingKey
  BY DEF Read, Sends, Puts
<1>2. packet = NoPacket /\ packet.kind = "none"
  BY <1>1 DEF QueueIInv, Steps, NoPacket
<1>3. kind = "delta" => ~chainBroken
  BY <1>1, <1>2 DEF QueueIInv, Chain
<1>4. /\ device' \in {"session", "config", "key", "delta"}
      /\ kind = "config" => device' = "key"
  BY <1>1 DEF Follows
<1>5. Ticks'
  BY <1>1 DEF QueueIInv, Ticks, loopVars, NoProbe
<1>6. CASE Len(queue) < Cap /\ Enters(kind, queue) /\ awaitingKey' = Awaiting(kind)
           /\ UNCHANGED <<reader, packet>>
  <2> DEFINE e == [kind |-> kind, decodes |-> Decodes(kind)]
  <2>1. Decodes(kind) \in BOOLEAN /\ (kind = "delta" => Decodes(kind))
    BY <1>3 DEF QueueIInv, Flags, Decodes
  <2>2. e \in Frames \cup {Sentinel} /\ (e.kind = "delta" => e.decodes)
    BY <2>1 DEF Frames
  <2>3. queue' = Append(queue, e)
    BY <1>6 DEF Enters
  <2>4. Places' /\ DeltasDecode'
    BY <1>6, <2>2, <2>3, PutIn
  <2>5. /\ awaitingKey' = (awaitingKey /\ kind /= "key")
        /\ chainBroken' = (chainBroken /\ kind /= "key")
        /\ configLost' = (configLost /\ kind /= "config")
    BY <1>6 DEF Enters, Awaiting
  <2>6. Flags'
    BY <1>1, <2>5 DEF QueueIInv, Flags, loopVars
  <2>7. Steps'
    BY <1>1, <1>4, <1>6 DEF QueueIInv, Steps, loopVars
  <2>8. Chain'
    BY <1>1, <1>2, <1>3, <1>4, <1>6, <2>5 DEF QueueIInv, Chain
  <2>9. QED
    BY <1>5, <2>4, <2>6, <2>7, <2>8 DEF QueueIInv
<1>7. CASE /\ reader' = "putting" /\ packet' = [kind |-> kind, decodes |-> TRUE]
           /\ UNCHANGED <<queue, awaitingKey, chainBroken, configLost>>
  <2>1. packet' \in Frames /\ packet' # NoPacket /\ packet'.kind = kind
    BY <1>7 DEF Frames, NoPacket
  <2>2. Flags'
    BY <1>1, <1>7 DEF QueueIInv, Flags, loopVars
  <2>3. Steps'
    BY <1>1, <1>4, <1>7, <2>1 DEF QueueIInv, Steps, loopVars
  <2>4. Chain'
    BY <1>1, <1>2, <1>3, <1>4, <1>7, <2>1 DEF QueueIInv, Chain
  <2>5. Places' /\ DeltasDecode'
    BY <1>7 DEF QueueIInv, Places, DeltasDecode
  <2>6. QED
    BY <1>5, <2>2, <2>3, <2>4, <2>5 DEF QueueIInv
<1>8. QED
  BY <1>6, <1>7 DEF Read

LEMMA DroppedKeeps == QueueIInv /\ ReadDropped => QueueIInv'
<1> SUFFICES ASSUME QueueIInv, ReadDropped PROVE QueueIInv'
  OBVIOUS
<1>1. /\ device = "delta" /\ device' = "delta" /\ chainBroken' = TRUE /\ awaitingKey = TRUE
      /\ reader = "reading"
      /\ UNCHANGED <<exited, queue, reader, packet, awaitingKey, control, session,
                     configLost, loopVars>>
  BY DEF ReadDropped, Sends, Follows, Puts, QueueIInv, Flags
<1>2. wanted' \in BOOLEAN /\ throttled' \in BOOLEAN
  BY Idr DEF ReadDropped, QueueIInv
<1>3. packet.kind = "none"
  BY <1>1 DEF QueueIInv, Steps, NoPacket
<1>4. Flags'
  BY <1>1, <1>2 DEF QueueIInv, Flags, loopVars
<1>5. Steps' /\ Chain'
  BY <1>1, <1>3 DEF QueueIInv, Steps, Chain, loopVars
<1>6. Places' /\ DeltasDecode' /\ Ticks'
  BY <1>1 DEF QueueIInv, Places, Ticks, DeltasDecode, loopVars, NoProbe
<1>7. QED
  BY <1>4, <1>5, <1>6 DEF QueueIInv

LEMMA PutKeeps == QueueIInv /\ PutSucceeds => QueueIInv'
<1> SUFFICES ASSUME QueueIInv, PutSucceeds PROVE QueueIInv'
  OBVIOUS
<1> DEFINE kind == packet.kind
           e == [kind |-> kind, decodes |-> Decodes(kind)]
<1>1. /\ reader = "putting" /\ Len(queue) < Cap /\ queue' = Append(queue, e)
      /\ reader' = "reading" /\ packet' = NoPacket /\ packet'.kind = "none"
      /\ UNCHANGED <<deviceVars, throttled, control, session, loopVars>>
  BY DEF PutSucceeds, Enters, NoPacket
<1>2. kind \in {"config", "key", "delta"}
  BY <1>1 DEF QueueIInv, Steps, Frames
<1>3. /\ awaitingKey' = (awaitingKey /\ kind /= "key")
      /\ chainBroken' = (chainBroken /\ kind /= "key")
      /\ configLost' = (configLost /\ kind /= "config")
  BY DEF PutSucceeds, Enters, Awaiting
<1>4. Decodes(kind) \in BOOLEAN /\ (kind = "delta" => Decodes(kind))
  BY <1>2 DEF QueueIInv, Flags, Decodes, Chain
<1>5. e \in Frames \cup {Sentinel} /\ (e.kind = "delta" => e.decodes)
  BY <1>2, <1>4 DEF Frames
<1>6. Places' /\ DeltasDecode'
  BY <1>1, <1>5, PutIn
<1>7. Flags'
  BY <1>1, <1>3 DEF QueueIInv, Flags, loopVars, deviceVars
<1>8. Steps'
  BY <1>1 DEF QueueIInv, Steps, loopVars, deviceVars
<1>9. Chain'
  BY <1>1, <1>3 DEF QueueIInv, Chain, deviceVars
<1>10. Ticks'
  BY <1>1 DEF QueueIInv, Ticks, loopVars, NoProbe
<1>11. QED
  BY <1>6, <1>7, <1>8, <1>9, <1>10 DEF QueueIInv

\* The packet that waited too long takes the place of the backlog.
LEMMA TimeoutKeeps == QueueIInv /\ (ConfigTimesOut \/ KeyTimesOut) => QueueIInv'
<1> SUFFICES ASSUME QueueIInv, ConfigTimesOut \/ KeyTimesOut PROVE QueueIInv'
  OBVIOUS
<1>1. /\ reader = "putting" /\ packet.kind \in {"config", "key"} /\ packet \in Frames
      /\ reader' = "reading" /\ packet' = NoPacket /\ packet'.kind = "none"
      /\ UNCHANGED <<device, exited, control, session, loopVars>>
  BY DEF ConfigTimesOut, KeyTimesOut, deviceVars, QueueIInv, Steps, NoPacket
<1>2. wanted' \in BOOLEAN /\ throttled' \in BOOLEAN
  BY Idr DEF ConfigTimesOut, KeyTimesOut, deviceVars, QueueIInv, Flags
<1>3. LosesConfig \in BOOLEAN /\ LosesChain \in BOOLEAN
  BY DEF QueueIInv, Flags, LosesConfig, LosesChain, In
<1>4. PICK b \in BOOLEAN : queue' = << [packet EXCEPT !.decodes = b] >>
  BY <1>3 DEF ConfigTimesOut, KeyTimesOut
<1>5. /\ [packet EXCEPT !.decodes = b] \in Frames
      /\ [packet EXCEPT !.decodes = b].kind # "delta"
  BY <1>1 DEF Frames
<1>6. Places' /\ DeltasDecode'
  BY <1>4, <1>5, PutAlone, QueueAssumption
<1>7. Flags'
  BY <1>1, <1>2, <1>3 DEF ConfigTimesOut, KeyTimesOut, QueueIInv, Flags, loopVars
<1>8. Steps'
  BY <1>1 DEF QueueIInv, Steps, loopVars
<1>9. Chain'
  BY <1>1 DEF ConfigTimesOut, KeyTimesOut, QueueIInv, Chain
<1>10. Ticks'
  BY <1>1 DEF QueueIInv, Ticks, loopVars, NoProbe
<1>11. QED
  BY <1>6, <1>7, <1>8, <1>9, <1>10 DEF QueueIInv

LEMMA DeltaKeeps == QueueIInv /\ DeltaTimesOut => QueueIInv'
<1> SUFFICES ASSUME QueueIInv, DeltaTimesOut PROVE QueueIInv'
  OBVIOUS
<1>1. /\ reader = "putting" /\ queue' = << >> /\ chainBroken' = TRUE /\ awaitingKey' = TRUE
      /\ reader' = "reading" /\ packet' = NoPacket /\ packet'.kind = "none"
      /\ UNCHANGED <<device, exited, control, session, loopVars>>
  BY DEF DeltaTimesOut, StartsAwaiting, NoPacket
<1>2. wanted' \in BOOLEAN /\ throttled' \in BOOLEAN /\ configLost' \in BOOLEAN
  BY Idr DEF DeltaTimesOut, QueueIInv, Flags, LosesConfig, In
<1>3. Flags'
  BY <1>1, <1>2 DEF QueueIInv, Flags, loopVars
<1>4. Steps' /\ Chain'
  BY <1>1 DEF QueueIInv, Steps, Chain, loopVars
<1>5. Places' /\ DeltasDecode'
  BY <1>1, QueueAssumption DEF QueueAssumption, Places, DeltasDecode
<1>6. Ticks'
  BY <1>1 DEF QueueIInv, Ticks, loopVars, NoProbe
<1>7. QED
  BY <1>3, <1>4, <1>5, <1>6 DEF QueueIInv

LEMMA EndKeeps == QueueIInv /\ ReaderEnds => QueueIInv'
<1> SUFFICES ASSUME QueueIInv, ReaderEnds PROVE QueueIInv'
  OBVIOUS
<1>1. /\ reader' = "done" /\ packet' = NoPacket /\ packet'.kind = "none"
      /\ UNCHANGED <<deviceVars, awaitingKey, throttled, control, session,
                     chainBroken, configLost, loopVars>>
  BY DEF ReaderEnds, NoPacket
<1>2. Sentinel \in Frames \cup {Sentinel} /\ Sentinel.kind = "end"
  BY DEF Sentinel
<1>3. \/ Len(queue) < Cap /\ queue' = Append(queue, Sentinel)
      \/ queue' = <<Sentinel>>
  BY DEF ReaderEnds, PutSentinel
<1>4. Places' /\ DeltasDecode'
  BY <1>2, <1>3, PutIn, PutAlone, QueueAssumption
<1>5. Flags'
  BY <1>1 DEF QueueIInv, Flags, loopVars, deviceVars
<1>6. Steps' /\ Chain'
  BY <1>1 DEF QueueIInv, Steps, Chain, loopVars, deviceVars
<1>7. Ticks'
  BY <1>1 DEF QueueIInv, Ticks, loopVars, NoProbe
<1>8. QED
  BY <1>4, <1>5, <1>6, <1>7 DEF QueueIInv

LEMMA GetKeeps == QueueIInv /\ Get => QueueIInv'
<1> SUFFICES ASSUME QueueIInv, Get PROVE QueueIInv'
  OBVIOUS
<1>1. /\ queue # << >> /\ queue' = Tail(queue) /\ loop = "get" /\ loop' \in {"ended", "yielded"}
      /\ UNCHANGED <<deviceVars, readerVars, why, age, failures, idleProbe>>
      /\ idle' \in {idle, 0} /\ probe' \in {probe, NoProbe}
  BY DEF Get
<1>2. Places'
  <2>1. queue \in Seq(Frames \cup {Sentinel}) /\ Len(queue) <= Cap /\ Cap \in Nat
    BY QueueAssumption DEF QueueAssumption, QueueIInv, Places
  <2>2. queue' \in Seq(Frames \cup {Sentinel}) /\ Len(queue') = Len(queue) - 1
    BY <1>1, <2>1
  <2>3. QED
    BY <2>1, <2>2 DEF Places
<1>3. DeltasDecode'
  <2>1. \A i \in DOMAIN queue' : i + 1 \in DOMAIN queue /\ queue'[i] = queue[i + 1]
    BY <1>1 DEF QueueIInv, Places
  <2>2. QED
    BY <2>1 DEF QueueIInv, DeltasDecode
<1>4. Flags'
  BY <1>1 DEF QueueIInv, Flags, deviceVars, readerVars
<1>5. Steps' /\ Chain'
  BY <1>1 DEF QueueIInv, Steps, Chain, deviceVars, readerVars
<1>6. Ticks'
  BY <1>1, QueueAssumption DEF QueueAssumption, QueueIInv, Ticks, NoProbe
<1>7. QED
  BY <1>2, <1>3, <1>4, <1>5, <1>6 DEF QueueIInv

\* The loop and the clock leave queue and reader alone.
LEMMA Besides ==
    ASSUME QueueIInv, UNCHANGED <<device, exited, queue, readerVars, idleProbe>>,
           wanted' \in {wanted, TRUE}, loop' \in {loop, "get", "ended", "stalled"},
           why' \in {why, "silent", "no_session_after_start", "probe_send_failed"}, Ticks'
    PROVE  QueueIInv'
<1>1. Flags'
  BY DEF QueueIInv, Flags, readerVars
<1>2. Steps' /\ Chain'
  BY DEF QueueIInv, Steps, Chain, readerVars
<1>3. Places' /\ DeltasDecode'
  BY DEF QueueIInv, Places, DeltasDecode
<1>4. QED
  BY <1>1, <1>2, <1>3 DEF QueueIInv

LEMMA CountUp == ASSUME NEW top \in Nat, NEW n \in 0..top PROVE UpTo(n, top) \in 0..top
BY DEF UpTo

LEMMA Timing ==
    ASSUME Ticks
    PROVE  /\ UpTo(idle, IdleTicks) \in 0..IdleTicks /\ UpTo(age, StartTicks) \in 0..StartTicks
           /\ Later(probe) \in 0..NoProbe
<1>1. probe # NoProbe => probe \in 0..StallTicks
  BY QueueAssumption DEF QueueAssumption, Ticks, NoProbe
<1>2. probe # NoProbe => UpTo(probe, StallTicks) \in 0..StallTicks
  BY <1>1, CountUp, QueueAssumption DEF QueueAssumption
<1>3. Later(probe) \in 0..NoProbe
  BY <1>2, QueueAssumption DEF QueueAssumption, Later, NoProbe
<1>4. QED
  BY <1>3, CountUp, QueueAssumption DEF QueueAssumption, Ticks

LEMMA ClockKeeps == QueueIInv /\ SendTakesTime => QueueIInv'
<1> SUFFICES ASSUME QueueIInv, SendTakesTime PROVE QueueIInv'
  OBVIOUS
<1>1. Ticks'
  BY Timing DEF SendTakesTime, QueueIInv, Ticks, NoProbe
<1>2. QED
  BY <1>1, Besides DEF SendTakesTime, deviceVars

LEMMA ResumeKeeps == QueueIInv /\ Resume => QueueIInv'
<1> SUFFICES ASSUME QueueIInv, Resume PROVE QueueIInv'
  OBVIOUS
<1>1. Ticks'
  BY DEF Resume, QueueIInv, Ticks, NoProbe, MaxProbeFailures
<1>2. QED
  BY <1>1, Besides DEF Resume, deviceVars

LEMMA TickKeeps == QueueIInv /\ Tick => QueueIInv'
<1> SUFFICES ASSUME QueueIInv, Tick PROVE QueueIInv'
  OBVIOUS
<1>1. /\ UNCHANGED <<device, exited, queue, readerVars, idleProbe>>
      /\ idle' = UpTo(idle, IdleTicks) /\ age' = UpTo(age, StartTicks) /\ loop = "get"
  BY DEF Tick
<1>2. failures \in 0..2
  BY <1>1 DEF QueueIInv, Ticks, MaxProbeFailures
<1>3. /\ probe' \in {probe, 0, NoProbe, Later(probe)} /\ wanted' \in {wanted, TRUE}
      /\ loop' \in {loop, "ended", "stalled"}
      /\ why' \in {why, "silent", "no_session_after_start", "probe_send_failed"}
  BY DEF Tick, SendProbe, Stall
<1>4. failures' \in 0..3 /\ (failures' = 3 => loop' = "stalled")
  <2>1. failures' = failures \/ SendProbe
    BY DEF Tick
  <2>2. CASE SendProbe
    BY <1>2, <2>2 DEF SendProbe, Stall, MaxProbeFailures
  <2>3. QED
    BY <1>2, <2>1, <2>2
<1>5. Ticks'
  BY <1>1, <1>3, <1>4, Timing, QueueAssumption
     DEF QueueAssumption, QueueIInv, Ticks, NoProbe, MaxProbeFailures
<1>6. QED
  BY <1>1, <1>3, <1>5, Besides

LEMMA QueueInvariance == QueueSpec => []QueueIInv
<1>1. QueueIInv /\ [QueueNext]_queueVars => QueueIInv'
  <2>1. QueueIInv /\ UNCHANGED queueVars => QueueIInv'
    <3> SUFFICES ASSUME QueueIInv, UNCHANGED queueVars PROVE QueueIInv'
      OBVIOUS
    <3>1. UNCHANGED <<deviceVars, queue, readerVars, loopVars>>
      BY DEF queueVars
    <3>2. Ticks'
      BY <3>1 DEF QueueIInv, Ticks, loopVars, NoProbe
    <3>3. QED
      BY <3>1, <3>2, Besides DEF deviceVars, loopVars
  <2>2. QED
    BY <2>1, DeviceKeeps, SessionKeeps, ReadKeeps, DroppedKeeps, PutKeeps, TimeoutKeeps,
       DeltaKeeps, EndKeeps, GetKeeps, ResumeKeeps, ClockKeeps, TickKeeps
       DEF QueueNext, Reader, Loop, ReadMedia
<1>2. QED
  BY <1>1, InitQueue, PTL DEF QueueSpec

\* The queue keeps its bounds and no delta frame in it rests on one that was
\* dropped (read_socket, scrcpy.py).
THEOREM QueueDecodes == QueueSpec => []QueueInv
<1>1. QueueIInv => QueueInv
  BY DEF QueueIInv, Flags, Steps, Places, Ticks, QueueInv, QueueTypeOK
<1>2. QED
  BY <1>1, QueueInvariance, PTL

-----------------------------------------------------------------------------
(***************************************************************************)
(* An operation acts once and leaves no finger on the screen but where the *)
(* connection was torn. Between two messages an operation is whole or has  *)
(* sent what it acts by (InHand).                                          *)
(***************************************************************************)

Strokes == {"touch", "swipe", "flick", "long_press"}

InputTypes ==
    /\ conn \in {"none", "up", "slow", "lost"} /\ op \in Kinds
    /\ busy \in BOOLEAN /\ pointer \in BOOLEAN /\ torn \in BOOLEAN
    /\ acts \in Nat /\ ops \in Nat

Whole == left = Messages[op] /\ acts = 0 /\ ~pointer

Halfway == \/ op \in Strokes /\ left \in {<<"move", "up">>, <<"up">>} /\ acts = 0
           \/ op = "click" /\ left = <<"keyup">> /\ acts = 1 /\ ~pointer

InHand == busy /\ ~torn => Whole \/ (Halfway /\ conn # "none")

Unheld == conn \in {"none", "lost"} => ~pointer

InputIInv == InputTypes /\ InHand /\ Unheld /\ InputInv

LEMMA Tuples ==
    /\ \A a : Head(<<a>>) = a /\ Tail(<<a>>) = <<>> /\ <<a>> # <<>>
    /\ \A a, b : Head(<<a, b>>) = a /\ Tail(<<a, b>>) = <<b>> /\ <<a, b>> # <<>>
    /\ \A a, b, c : Head(<<a, b, c>>) = a /\ Tail(<<a, b, c>>) = <<b, c>>
OBVIOUS

LEMMA MessagesOf ==
    /\ \A k \in {"touch", "flick", "long_press"} : Messages[k] = <<"down", "up">>
    /\ Messages["swipe"] = <<"down", "move", "up">>
    /\ Messages["press"] = <<"keydown">> /\ Messages["release"] = <<"keyup">>
    /\ Messages["click"] = <<"keydown", "keyup">> /\ Messages["other"] = <<>>
    /\ \A k \in {"text", "scroll", "clipboard_set"} : Messages[k] = <<k>>
BY DEF Messages, Kinds

LEMMA InitInput == ControlInit => InputIInv
<1> SUFFICES ASSUME ControlInit PROVE InputIInv
  OBVIOUS
<1>1. InputTypes
  BY DEF ControlInit, InputTypes, Kinds
<1>2. InHand
  BY DEF ControlInit, InHand
<1>3. Unheld
  BY DEF ControlInit, Unheld
<1>4. NoFingerLeft
  BY DEF ControlInit, NoFingerLeft
<1>5. ActsOnce
  BY DEF ControlInit, ActsOnce
<1>6. QED
  BY <1>1, <1>2, <1>3, <1>4, <1>5 DEF InputIInv, InputInv

LEMMA HandleKeeps == InputIInv /\ Handle => InputIInv'
<1> SUFFICES ASSUME InputIInv, NEW k \in Kinds,
                    ~busy /\ ops < MaxOps /\ ops' = ops + 1,
                    op' = k /\ busy' = TRUE /\ left' = Messages[k] /\ acts' = 0,
                    UNCHANGED <<conn, pointer, held, torn>>
             PROVE  InputIInv'
  BY DEF Handle
<1> QED
  BY DEF InputIInv, InputTypes, InHand, Whole, Unheld, InputInv, NoFingerLeft, ActsOnce

LEMMA FallbackKeeps ==
    ASSUME InputIInv, busy, Fallback(op), Straight(op) \/ conn = "lost",
           torn' \in BOOLEAN, ~torn' => ~torn /\ acts = 0, UNCHANGED <<conn, pointer, ops>>
    PROVE  InputIInv'
<1> USE DEF InputIInv, Fallback
<1>1. InputTypes'
  <2>1. acts' \in Nat
    BY DEF InputTypes
  <2>2. QED
    BY <2>1 DEF InputTypes
<1>2. InHand'
  BY DEF InHand
<1>3. Unheld'
  BY DEF Unheld
<1>4. NoFingerLeft'
  <2>1. ~torn' => Whole \/ conn = "lost"
    BY DEF InHand, Halfway, Straight, Strokes
  <2>2. QED
    BY <2>1 DEF NoFingerLeft, Whole, Unheld
<1>5. ActsOnce'
  BY DEF ActsOnce, FallsBack, InputTypes, Kinds
<1>6. QED
  BY <1>1, <1>2, <1>3, <1>4, <1>5 DEF InputInv

LEMMA NothingDone == ASSUME InputIInv, busy, ~torn, Straight(op) PROVE acts = 0
BY DEF InputIInv, InHand, Whole, Halfway, Straight, Strokes

\* A message that is sent or written acts on the device.
LEMMA Taken ==
    ASSUME NEW m, InputTypes, Takes(m), acts' = acts + Effect(m)
    PROVE  /\ pointer' \in BOOLEAN /\ acts' \in Nat
           /\ m = "down" => pointer' /\ acts' = acts
           /\ m = "up" => ~pointer' /\ acts' = acts + 1
           /\ m \notin {"down", "up"} => pointer' = pointer
           /\ m \in {"move", "keyup"} => acts' = acts
           /\ m \notin {"down", "move", "keyup"} => acts' = acts + 1
<1>1. pointer' = IF m \in {"down", "up"} THEN m = "down" ELSE pointer
  BY DEF Takes
<1>2. pointer \in BOOLEAN /\ acts \in Nat
  BY DEF InputTypes
<1>3. CASE m = "down"
  <2>1. pointer' = TRUE
    BY <1>1, <1>3
  <2>2. QED
    BY <1>2, <1>3, <2>1 DEF Effect
<1>4. CASE m = "up"
  <2>1. pointer' = FALSE
    BY <1>1, <1>4
  <2>2. Effect(m) = 1
    BY <1>4 DEF Effect
  <2>3. acts' = acts + 1 /\ acts' \in Nat
    BY <1>2, <2>2
  <2>4. QED
    BY <1>4, <2>1, <2>3
<1>5. CASE m \notin {"down", "up"}
  BY <1>1, <1>2, <1>5 DEF Effect
<1>6. QED
  BY <1>3, <1>5, <1>4

LEMMA SendKeeps == InputIInv /\ Send => InputIInv'
<1> SUFFICES ASSUME InputIInv, Send PROVE InputIInv'
  OBVIOUS
<1> USE DEF InputIInv
<1> DEFINE m == Head(left)
<1>1. /\ left' = Tail(left) /\ busy' = (left' # <<>>)
      /\ pointer' \in BOOLEAN /\ acts' \in Nat
      /\ m = "down" => pointer' /\ acts' = acts
      /\ m = "up" => ~pointer' /\ acts' = acts + 1
      /\ m \notin {"down", "up"} => pointer' = pointer
      /\ m \in {"move", "keyup"} => acts' = acts
      /\ m \notin {"down", "move", "keyup"} => acts' = acts + 1
  BY Taken DEF Send
<1> HIDE DEF m
<1>2. InputTypes'
  BY <1>1 DEF InputTypes, Send
<1>3. Unheld'
  BY DEF Unheld, Send
<1>4. torn' = torn /\ op' = op /\ conn' = conn /\ conn = "up"
  BY DEF Send
<1>5. CASE torn
  BY <1>2, <1>3, <1>4, <1>5 DEF InHand, InputInv, NoFingerLeft, ActsOnce
<1>6. CASE ~torn /\ Whole
  <2>1. CASE op \in {"touch", "flick", "long_press"}
    <3>1. left = <<"down", "up">> /\ acts = 0
      BY <1>6, <2>1, MessagesOf DEF Whole
    <3>2. m = "down" /\ left' = <<"up">>
      BY <1>1, <3>1, Tuples DEF m
    <3>3. left' = <<"up">> /\ busy' /\ acts' = 0
      BY <1>1, <1>6, <2>1, <3>1, <3>2, Tuples DEF Whole
    <3>4. QED
      BY <1>2, <1>3, <1>4, <2>1, <3>3 DEF InHand, Halfway, Strokes, InputInv, NoFingerLeft, ActsOnce
  <2>2. CASE op = "swipe"
    <3>1. left = <<"down", "move", "up">> /\ acts = 0
      BY <1>6, <2>2, MessagesOf DEF Whole
    <3>2. m = "down" /\ left' = <<"move", "up">>
      BY <1>1, <3>1, Tuples DEF m
    <3>3. left' = <<"move", "up">> /\ busy' /\ acts' = 0
      BY <1>1, <1>6, <2>2, <3>1, <3>2, Tuples DEF Whole
    <3>4. QED
      BY <1>2, <1>3, <1>4, <2>2, <3>3 DEF InHand, Halfway, Strokes, InputInv, NoFingerLeft, ActsOnce
  <2>3. CASE op = "click"
    <3>1. left = <<"keydown", "keyup">> /\ acts = 0
      BY <1>6, <2>3, MessagesOf DEF Whole
    <3>2. m = "keydown" /\ left' = <<"keyup">>
      BY <1>1, <3>1, Tuples DEF m
    <3>3. pointer' = pointer
      BY <1>1, <3>2
    <3>4. acts' = 1
      BY <1>1, <3>1, <3>2
    <3>5. left' = <<"keyup">> /\ busy' /\ acts' = 1 /\ ~pointer'
      BY <1>1, <1>6, <3>2, <3>3, <3>4, Tuples DEF Whole
    <3>6. QED
      BY <1>2, <1>3, <1>4, <2>3, <3>5 DEF InHand, Halfway, Strokes, InputInv, NoFingerLeft, ActsOnce
  <2>4. CASE op \in {"press", "release", "text", "scroll", "clipboard_set"}
    <3>1. left = <<m>> /\ acts = 0 /\ m \in {"keydown", "keyup", "text", "scroll", "clipboard_set"}
          /\ (m = "keyup" <=> op = "release")
      BY <1>6, <2>4, MessagesOf, Tuples DEF Whole, m
    <3>2. left' = <<>> /\ ~busy'
      BY <1>1, <3>1, Tuples
    <3>3. /\ ~busy' /\ ~pointer'
          /\ acts' = IF op = "release" THEN 0 ELSE 1
      BY <1>1, <1>6, <3>1, <3>2 DEF Whole
    <3>4. QED
      BY <1>2, <1>3, <1>4, <2>4, <3>3 DEF InHand, InputInv, NoFingerLeft, ActsOnce
  <2>5. QED
    BY <2>1, <2>2, <2>3, <2>4 DEF InputTypes, Kinds, Send, Straight
<1>7. CASE ~torn /\ Halfway
  <2>1. CASE left = <<"move", "up">>
    <3>1. left = <<"move", "up">> /\ acts = 0
      BY <1>7, <2>1 DEF Halfway
    <3>2. m = "move" /\ left' = <<"up">>
      BY <1>1, <3>1, Tuples DEF m
    <3>3. left' = <<"up">> /\ busy' /\ acts' = 0
      BY <1>1, <1>7, <2>1, <3>1, <3>2, Tuples DEF Halfway
    <3>4. QED
      BY <1>2, <1>3, <1>4, <1>7, <2>1, <3>3 DEF InHand, Halfway, Strokes, InputInv, NoFingerLeft, ActsOnce
  <2>2. CASE left = <<"up">>
    <3>1. ~busy' /\ ~pointer' /\ acts' = 1 /\ op \in Strokes
      BY <1>1, <1>7, <2>2, Tuples DEF Halfway, m
    <3>2. QED
      BY <1>2, <1>3, <1>4, <3>1 DEF InHand, Strokes, InputInv, NoFingerLeft, ActsOnce
  <2>3. CASE left = <<"keyup">>
    <3>1. ~busy' /\ ~pointer' /\ acts' = 1 /\ op = "click"
      BY <1>1, <1>7, <2>3, Tuples DEF Halfway, m
    <3>2. QED
      BY <1>2, <1>3, <1>4, <3>1 DEF InHand, InputInv, NoFingerLeft, ActsOnce
  <2>4. QED
    BY <1>7, <2>1, <2>2, <2>3 DEF Halfway
<1>8. QED
  BY <1>5, <1>6, <1>7 DEF Send, InHand

LEMMA LateKeeps == InputIInv /\ SendLate => InputIInv'
<1> SUFFICES ASSUME InputIInv, SendLate PROVE InputIInv'
  OBVIOUS
<1>1. InputTypes'
  <2>1. InputTypes
    BY DEF InputIInv
  <2>2. pointer' \in BOOLEAN
    <3>1. pointer' = IF Head(left) \in {"down", "up"} THEN Head(left) = "down" ELSE pointer
      BY DEF SendLate, Takes
    <3>2. CASE Head(left) \in {"down", "up"}
      BY <3>1, <3>2, Zenon
    <3>3. CASE Head(left) \notin {"down", "up"}
      BY <2>1, <3>1, <3>3 DEF InputTypes
    <3>4. QED
      BY <3>2, <3>3
  <2>3. acts' \in Nat
    BY <2>1 DEF InputTypes, SendLate, Effect
  <2>4. QED
    BY <2>1, <2>2, <2>3 DEF InputTypes, SendLate
<1>2. torn' = TRUE /\ busy' = FALSE /\ conn' = "slow"
  BY DEF SendLate
<1>3. QED
  BY <1>1, <1>2 DEF InputIInv, InHand, Unheld, InputInv, NoFingerLeft, ActsOnce

LEMMA ChangesKeep == InputIInv /\ Changes => InputIInv'
<1> SUFFICES ASSUME InputIInv, Changes PROVE InputIInv'
  OBVIOUS
<1> USE DEF InputIInv, Changes
<1>1. InputTypes'
  BY DEF InputTypes
<1>2. InHand'
  BY DEF InHand, Whole, Halfway
<1>3. Unheld'
  BY DEF Unheld
<1>4. NoFingerLeft'
  BY DEF InputInv, NoFingerLeft
<1>5. ActsOnce'
  BY DEF InputInv, ActsOnce
<1>6. QED
  BY <1>1, <1>2, <1>3, <1>4, <1>5 DEF InputInv

LEMMA InputInvariance == ControlSpec => []InputIInv
<1>1. InputIInv /\ [ControlNext]_controlVars => InputIInv'
  <2> SUFFICES ASSUME InputIInv, [ControlNext]_controlVars PROVE InputIInv'
    OBVIOUS
  <2>1. CASE Handle
    BY <2>1, HandleKeeps
  <2>2. CASE FallBackStraight
    <3>1. InputTypes
      BY DEF InputIInv
    <3>2. QED
      BY <2>2, <3>1, FallbackKeeps, NothingDone DEF FallBackStraight, InputTypes
  <2>3. CASE Send
    BY <2>3, SendKeeps
  <2>4. CASE SendLate
    BY <2>4, LateKeeps
  <2>5. CASE SendFails
    <3>1. torn' \in BOOLEAN /\ acts \in Nat
      BY <2>5 DEF InputIInv, InputTypes, SendFails
    <3>2. ~torn' => ~torn /\ acts = 0
      <4>1. torn' = (torn \/ acts > 0)
        BY <2>5 DEF SendFails
      <4>2. ~torn' => ~torn /\ ~(acts > 0)
        BY <4>1, Zenon
      <4>3. QED
        BY <3>1, <4>2
    <3>3. QED
      BY <2>5, <3>1, <3>2, FallbackKeeps DEF SendFails
  <2>6. CASE Changes
    BY <2>6, ChangesKeep
  <2>7. CASE UNCHANGED controlVars
    BY <2>7 DEF controlVars, InputIInv, InputTypes, InHand, Whole, Halfway, Unheld, InputInv, NoFingerLeft, ActsOnce
  <2>8. QED
    BY <2>1, <2>2, <2>3, <2>4, <2>5, <2>6, <2>7 DEF ControlNext
<1>2. QED
  BY InitInput, <1>1, PTL DEF ControlSpec

\* An operation acts once and leaves no finger on the screen, wherever between
\* two of its messages the connection goes or comes (send_input and
\* _fallback_adb_input, scrcpy.py:761-993).
THEOREM InputActsOnce == ControlSpec => []InputInv
BY InputInvariance, PTL DEF InputIInv

-----------------------------------------------------------------------------
(***************************************************************************)
(* The rate goes down after a bad window that is full and comes back under *)
(* review, for any window, thresholds and number of tiers. That a window   *)
(* is never longer than its limit rests on the first sample that is still  *)
(* fresh being the least of a set of indices (WithFacts).                  *)
(***************************************************************************)

Samples == [age : 0 .. 2 * Window + 1, kind : Grades]

WindowOK == samples \in Seq(Samples) /\ Len(samples) <= Window

Levels ==
    /\ idx \in 1 .. Tiers /\ since \in 0 .. Never /\ baseline \in 0 .. Window
    /\ from \in 0 .. Tiers /\ cool \in 0 .. CooldownMax /\ rebounds \in 0 .. 4
    /\ proven \in Nat
    /\ baseline # 0 => from = idx - 1

AdvisorIInv == WindowOK /\ Levels /\ DownIsReviewed

LEMMA AdvisorBounds ==
    /\ Tiers \in Nat /\ Tiers # 0 /\ Start \in 1 .. Tiers /\ Window \in Nat /\ Window # 0
    /\ BadMin \in 1 .. Window /\ GoodMin \in 1 .. Window
    /\ MinInterval \in Nat /\ UpExtra \in Nat /\ Cooldown \in Nat /\ CooldownMax \in Nat
    /\ Never \in Nat /\ Never = MinInterval + UpExtra + 1
BY AdvisorAssumption DEF AdvisorAssumption, Never

LEMMA InitAdvisor == AdvisorInit => AdvisorIInv
<1> SUFFICES ASSUME AdvisorInit PROVE AdvisorIInv
  OBVIOUS
<1>1. WindowOK
  BY AdvisorBounds DEF AdvisorInit, WindowOK
<1>2. Levels
  BY AdvisorBounds DEF AdvisorInit, Levels
<1>3. DownIsReviewed
  BY AdvisorBounds DEF AdvisorInit, DownIsReviewed
<1>4. QED
  BY <1>1, <1>2, <1>3 DEF AdvisorIInv

\* The window with a new sample is a window, and not empty.
LEMMA WithFacts ==
    ASSUME NEW k \in Grades, WindowOK
    PROVE  With(k) \in Seq(Samples) /\ Len(With(k)) <= Window
<1> USE AdvisorBounds
<1> DEFINE new == [age |-> 0, kind |-> k]
           s == Latest(Append(samples, new))
           I == {i \in 1 .. Len(s) : s[i].age <= 2 * Window}
<1>1. new \in Samples /\ new.age = 0
  BY DEF Samples
<1>2. /\ Append(samples, new) \in Seq(Samples) /\ Len(Append(samples, new)) = Len(samples) + 1
      /\ Append(samples, new)[Len(samples) + 1] = new /\ Len(samples) \in Nat
  BY <1>1 DEF WindowOK
<1> HIDE DEF new
<1>3. s \in Seq(Samples) /\ Len(s) \in 1 .. Window /\ s[Len(s)] = new
  <2>1. CASE Len(Append(samples, new)) > Window
    <3>1. s = Tail(Append(samples, new)) /\ Len(samples) = Window
      BY <1>2, <2>1 DEF Latest, WindowOK
    <3>2. QED
      BY <1>2, <3>1
  <2>2. CASE ~(Len(Append(samples, new)) > Window)
    BY <1>2, <2>2 DEF Latest
  <2>3. QED
    BY <2>1, <2>2
<1> HIDE DEF s
<1>4. Len(s) \in I /\ I \in SUBSET Nat
  BY <1>1, <1>3
<1>5. Min(I) \in I
  BY <1>4, MinIsLeast
<1>6. SelectInSeq(s, LAMBDA x : x.age <= 2 * Window) = Min(I)
  BY <1>4 DEF SelectInSeq
<1>7. With(k) = SubSeq(s, Min(I), Len(s))
  BY <1>6 DEF With, Fresh, new, s
<1>8. Min(I) \in Int /\ Len(s) \in Int /\ Min(I) >= 1 /\ Min(I) <= Len(s)
  BY <1>3, <1>5
<1>9. \A i \in Min(I) .. Len(s) : s[i] \in Samples
  BY <1>3, <1>8, ElementOfSeq
<1>10. /\ SubSeq(s, Min(I), Len(s)) \in Seq(Samples)
       /\ Len(SubSeq(s, Min(I), Len(s))) = Len(s) - Min(I) + 1
  BY <1>8, <1>9, SubSeqProperties
<1>11. QED
  BY <1>3, <1>7, <1>8, <1>10

LEMMA CountFacts ==
    ASSUME NEW s \in Seq(Samples), Len(s) <= Window, NEW k
    PROVE  Count(s, k) \in 0 .. Window
<1> DEFINE C == {i \in DOMAIN s : s[i].kind = k}
<1>1. Len(s) \in Nat /\ C \in SUBSET (1 .. Len(s))
  BY LenProperties
<1>2. IsFiniteSet(1 .. Len(s)) /\ Cardinality(1 .. Len(s)) = Len(s)
  <2>1. IsFiniteSet(1 .. Len(s)) /\ Cardinality(1 .. Len(s)) = IF 1 > Len(s) THEN 0 ELSE Len(s) - 1 + 1
    BY <1>1, FS_Interval
  <2>2. QED
    BY <1>1, <2>1
<1>3. IsFiniteSet(C) /\ Cardinality(C) <= Len(s)
  BY <1>1, <1>2, FS_Subset
<1>4. Cardinality(C) \in Nat
  BY <1>3, FS_CardinalityType
<1>5. QED
  BY <1>1, <1>3, <1>4, AdvisorBounds DEF Count

LEMMA LeastFacts ==
    ASSUME NEW a \in Nat, NEW b \in Nat
    PROVE  Least(a, b) \in Nat /\ Least(a, b) <= a /\ Least(a, b) <= b
BY DEF Least

LEMMA PowerFacts == ASSUME NEW n \in 0 .. 4 PROVE 2 ^ n \in Nat
<1>1. 2 ^ 0 \in Nat /\ 2 ^ 1 \in Nat /\ 2 ^ 2 \in Nat /\ 2 ^ 3 \in Nat /\ 2 ^ 4 \in Nat
  OBVIOUS
<1>2. n = 0 \/ n = 1 \/ n = 2 \/ n = 3 \/ n = 4
  OBVIOUS
<1>3. QED
  BY <1>1, <1>2

-----------------------------------------------------------------------------
(* Steps *)

LEMMA SecondKeeps == AdvisorIInv /\ Second => AdvisorIInv'
<1> SUFFICES ASSUME AdvisorIInv, Second PROVE AdvisorIInv'
  OBVIOUS
<1> USE AdvisorBounds
<1>1. samples' \in Seq(Samples) /\ Len(samples') = Len(samples)
  <2>1. /\ samples \in Seq(Samples) /\ DOMAIN samples = 1 .. Len(samples) /\ Len(samples) \in Nat
    BY DEF AdvisorIInv, WindowOK
  <2>2. ASSUME NEW i \in 1 .. Len(samples)
        PROVE  [samples[i] EXCEPT !.age = Least(@ + 1, 2 * Window + 1)] \in Samples
    <3>1. samples[i] \in Samples
      BY <2>1
    <3>2. Least(samples[i].age + 1, 2 * Window + 1) \in 0 .. 2 * Window + 1
      BY <3>1 DEF Least, Samples
    <3>3. QED
      BY <3>1, <3>2 DEF Samples
  <2>3. samples' = [i \in 1 .. Len(samples) |-> [samples[i] EXCEPT !.age = Least(@ + 1, 2 * Window + 1)]]
    BY <2>1 DEF Second
  <2>4. QED
    BY <2>1, <2>2, <2>3
<1>2. WindowOK'
  BY <1>1 DEF AdvisorIInv, WindowOK
<1>3. since' \in 0 .. Never /\ cool' \in 0 .. CooldownMax
  BY DEF AdvisorIInv, Levels, Second, Least
<1>4. UNCHANGED <<idx, baseline, from, rebounds, proven>>
  BY DEF Second
<1>5. Levels' /\ DownIsReviewed'
  BY <1>3, <1>4 DEF AdvisorIInv, Levels, DownIsReviewed
<1>6. QED
  BY <1>2, <1>5 DEF AdvisorIInv

LEMMA ResetKeeps == AdvisorIInv /\ Reset => AdvisorIInv'
<1> SUFFICES ASSUME AdvisorIInv, Reset PROVE AdvisorIInv'
  OBVIOUS
<1> USE AdvisorBounds
<1>1. WindowOK'
  BY DEF Reset, WindowOK
<1>2. Levels'
  BY DEF AdvisorIInv, Reset, Levels
<1>3. DownIsReviewed'
  BY DEF AdvisorIInv, Reset, Levels, DownIsReviewed
<1>4. QED
  BY <1>1, <1>2, <1>3 DEF AdvisorIInv

\* Down, up or neither, with nothing under review and all confirmed below the start.
LEMMA MovesKeeps ==
    ASSUME AdvisorIInv, Interval, NEW s \in Seq(Samples), Len(s) <= Window,
           NEW best \in Nat, NEW n \in 0 .. 4, best = idx - Start, Moves(s, best, n)
    PROVE  AdvisorIInv' /\ (cool # 0 => idx' <= idx)
<1> USE AdvisorBounds
<1> DEFINE bad == Count(s, "bad")
           good == Count(s, "good")
<1>1. bad \in 0 .. Window
  BY CountFacts
<1> HIDE DEF bad, good
<1>2. CASE GoesDown(bad)
  <2>1. /\ idx' = idx + 1 /\ since' = 0 /\ samples' = <<>> /\ baseline' = bad /\ from' = idx
        /\ rebounds' = n /\ proven' = best /\ cool' = cool
    BY <1>2 DEF Moves, Down, Switch, bad
  <2>2. bad >= BadMin /\ idx < Tiers /\ cool = 0
    BY <1>2 DEF GoesDown
  <2>3. WindowOK'
    BY <2>1 DEF WindowOK
  <2>4. Levels'
    BY <1>1, <2>1, <2>2 DEF AdvisorIInv, Levels
  <2>5. DownIsReviewed'
    BY <1>1, <2>1, <2>2 DEF AdvisorIInv, Levels, DownIsReviewed
  <2>6. QED
    BY <2>2, <2>3, <2>4, <2>5 DEF AdvisorIInv
<1>3. CASE ~GoesDown(bad)
  <2>1. baseline' = 0 /\ from' = 0 /\ cool' = cool
    BY <1>3 DEF Moves, bad
  <2>2. CASE MayGoUp(good)
    <3>1. idx' = idx - 1 /\ since' = 0 /\ samples' = <<>> /\ rebounds' = 0
          /\ proven' = IF best = 0 THEN 0 ELSE best - 1
      BY <1>3, <2>2 DEF Moves, Switch, bad, good
    <3>2. idx > Start
      BY <2>2 DEF MayGoUp
    <3>3. WindowOK'
      BY <3>1 DEF WindowOK
    <3>4. Levels' /\ DownIsReviewed' /\ idx' <= idx
      BY <2>1, <3>1, <3>2 DEF AdvisorIInv, Levels, DownIsReviewed
    <3>5. QED
      BY <3>3, <3>4 DEF AdvisorIInv
  <2>3. CASE ~MayGoUp(good)
    <3>1. UNCHANGED <<idx, since>> /\ samples' = s /\ rebounds' = n /\ proven' = best
      BY <1>3, <2>3 DEF Moves, bad, good
    <3>2. WindowOK'
      BY <3>1 DEF WindowOK
    <3>3. Levels' /\ DownIsReviewed' /\ idx' <= idx
      BY <2>1, <3>1 DEF AdvisorIInv, Levels, DownIsReviewed
    <3>4. QED
      BY <3>2, <3>3 DEF AdvisorIInv
  <2>4. QED
    BY <2>2, <2>3
<1>4. QED
  BY <1>2, <1>3

LEMMA UndoneKeeps == AdvisorIInv /\ baseline # 0 /\ Undone => AdvisorIInv' /\ idx' <= idx
<1> SUFFICES ASSUME AdvisorIInv, baseline # 0, Undone PROVE AdvisorIInv' /\ idx' <= idx
  OBVIOUS
<1> USE AdvisorBounds
<1>1. WindowOK'
  BY DEF Undone, Switch, WindowOK
<1>2. rebounds' \in 0 .. 4
  BY DEF Undone, AdvisorIInv, Levels, Least
<1>3. cool' \in 0 .. CooldownMax
  <2>1. Cooldown * 2 ^ rebounds \in Nat
    <3> DEFINE power == 2 ^ rebounds
    <3>1. power \in Nat
      BY PowerFacts DEF AdvisorIInv, Levels
    <3> HIDE DEF power
    <3>2. Cooldown * power \in Nat
      BY <3>1
    <3>3. QED
      BY <3>2 DEF power
  <2>2. QED
    BY <2>1 DEF Undone, Least
<1>4. /\ idx' = from /\ from = idx - 1 /\ since' = 0 /\ baseline' = 0 /\ from' = 0 /\ proven' = proven
  BY DEF Undone, Switch, AdvisorIInv, Levels
<1>5. Levels' /\ DownIsReviewed' /\ idx' <= idx
  BY <1>2, <1>3, <1>4 DEF AdvisorIInv, Levels, DownIsReviewed
<1>6. QED
  BY <1>1, <1>5 DEF AdvisorIInv

\* A report moves only after the least interval, and down only without a cooldown.
LEMMA ReportKeeps ==
    ASSUME AdvisorIInv, NEW k \in Grades, Report(k)
    PROVE  AdvisorIInv' /\ (cool # 0 => idx' <= idx) /\ (idx' # idx => Interval)
<1> USE AdvisorBounds
<1> DEFINE s == With(k)
<1>1. s \in Seq(Samples) /\ Len(s) <= Window
  BY WithFacts DEF AdvisorIInv
<1> HIDE DEF s
<1>2. CASE Len(s) < Window \/ ~Interval
  <2>1. samples' = s /\ UNCHANGED <<idx, since, baseline, from, cool, rebounds, proven>>
    BY <1>2 DEF Report, s
  <2>2. AdvisorIInv' /\ idx' <= idx /\ idx' = idx
    BY <1>1, <2>1 DEF AdvisorIInv, WindowOK, Levels, DownIsReviewed
  <2>3. QED
    BY <2>2
<1>3. CASE ~(Len(s) < Window) /\ Interval /\ baseline = 0
  <2>1. Moves(s, proven, rebounds)
    BY <1>3 DEF Report, s
  <2>2. proven \in Nat /\ rebounds \in 0 .. 4 /\ proven = idx - Start
    BY <1>3 DEF AdvisorIInv, Levels, DownIsReviewed
  <2>3. QED
    BY <1>1, <1>3, <2>1, <2>2, MovesKeeps
<1>4. CASE ~(Len(s) < Window) /\ Interval /\ baseline # 0
  <2>1. Review(s)
    BY <1>4 DEF Report, s
  <2>2. CASE Count(s, "bad") > baseline
    <3>1. samples' = <<>> /\ UNCHANGED <<idx, since, baseline, from, cool, rebounds, proven>>
      BY <2>1, <2>2 DEF Review
    <3>2. AdvisorIInv' /\ idx' <= idx /\ idx' = idx
      BY <3>1 DEF AdvisorIInv, WindowOK, Levels, DownIsReviewed
    <3>3. QED
      BY <3>2
  <2>3. CASE ~(Count(s, "bad") > baseline) /\ ReviewedBy(Count(s, "bad"))
    <3>1. Moves(s, proven + 1, 0)
      BY <2>1, <2>3 DEF Review
    <3>2. proven + 1 \in Nat /\ proven + 1 = idx - Start /\ 0 \in 0 .. 4
      BY <1>4 DEF AdvisorIInv, Levels, DownIsReviewed
    <3>3. QED
      BY <1>1, <1>4, <3>1, <3>2, MovesKeeps
  <2>4. CASE ~(Count(s, "bad") > baseline) /\ ~ReviewedBy(Count(s, "bad"))
    <3>1. Undone
      BY <2>1, <2>4 DEF Review
    <3>2. QED
      BY <1>4, <3>1, UndoneKeeps
  <2>5. QED
    BY <2>2, <2>3, <2>4
<1>5. QED
  BY <1>2, <1>3, <1>4

LEMMA AdvisorInvariance == AdvisorSpec => []AdvisorIInv
<1>1. AdvisorIInv /\ [AdvisorNext]_advisorVars => AdvisorIInv'
  <2> SUFFICES ASSUME AdvisorIInv, [AdvisorNext]_advisorVars PROVE AdvisorIInv'
    OBVIOUS
  <2>1. CASE UNCHANGED advisorVars
    BY <2>1 DEF advisorVars, AdvisorIInv, WindowOK, Levels, DownIsReviewed
  <2>2. CASE Second
    BY <2>2, SecondKeeps
  <2>3. CASE Reset
    BY <2>3, ResetKeeps
  <2>4. ASSUME NEW k \in Grades, Report(k)
        PROVE  AdvisorIInv'
    BY <2>4, ReportKeeps
  <2>5. QED
    BY <2>1, <2>2, <2>3, <2>4 DEF AdvisorNext
<1>2. QED
  BY InitAdvisor, <1>1, PTL DEF AdvisorSpec

\* The bit rate goes down only as far as reviews confirm, not in a cooldown, and
\* changes no sooner than the least interval, for any tiers, window, limits and
\* times (decide, bitrate_advisor.py:86-156).
THEOREM RateIsSteady == AdvisorSpec => AdvisorHolds
<1> USE AdvisorBounds
<1>1. AdvisorIInv => AdvisorTypeOK /\ DownIsReviewed
  <2> SUFFICES ASSUME AdvisorIInv PROVE AdvisorTypeOK
    BY DEF AdvisorIInv
  <2>1. /\ Len(samples) <= Window
        /\ \A i \in DOMAIN samples : samples[i].age \in 0..(2 * Window + 1) /\ samples[i].kind \in Grades
    <3>1. \A i \in DOMAIN samples : samples[i] \in Samples
      BY DEF AdvisorIInv, WindowOK
    <3>2. QED
      BY <3>1 DEF AdvisorIInv, WindowOK, Samples
  <2>2. proven \in 0 .. Tiers
    BY DEF AdvisorIInv, Levels, DownIsReviewed
  <2>3. QED
    BY <2>1, <2>2 DEF AdvisorIInv, Levels, AdvisorTypeOK
<1>2. ASSUME AdvisorIInv, [AdvisorNext]_advisorVars
      PROVE  /\ [cool # 0 => idx' <= idx]_advisorVars
             /\ [idx' # idx => since = Never \/ since >= MinInterval]_advisorVars
  <2>1. CASE UNCHANGED advisorVars
    BY <2>1
  <2>2. CASE Second \/ Reset
    BY <1>2, <2>2 DEF Second, Reset, AdvisorIInv, Levels
  <2>3. ASSUME NEW k \in Grades, Report(k)
        PROVE  (cool # 0 => idx' <= idx) /\ (idx' # idx => Interval)
    BY <1>2, <2>3, ReportKeeps
  <2>4. QED
    BY <1>2, <2>1, <2>2, <2>3 DEF AdvisorNext, Interval
<1>3. QED
  BY <1>1, <1>2, AdvisorInvariance, PTL DEF AdvisorSpec, AdvisorHolds, CooldownHolds, KeepsInterval

-----------------------------------------------------------------------------
(***************************************************************************)
(* Who waits for the clipboard stands in the queue of the encoder once,    *)
(* one loop polls, and what the page set is not pushed back at it, for any *)
(* texts and any number of loops and failures. Who waits is who stands in  *)
(* the queue (Placed); a loop that is not the mirror's may only say that   *)
(* it gives up (MirrorRuns); the page's text is suppressed, last, or about *)
(* to be replaced by another (OwnIsKnown).                                 *)
(***************************************************************************)

LoopSteps == {"new", "sleeps", "waits", "tells", "quits", "ended"}
ClipTypes ==
    /\ handler \in {"idle", "getting", "ended"} /\ ws \in {"up", "broken", "closed"}
    /\ task \in {0} \cup Polls
    /\ waiters \in Seq({0} \cup Polls)
    /\ poll \in [Polls -> LoopSteps] /\ misses \in [Polls -> 0 .. MaxFailures]
    /\ text \in [Polls -> Texts \cup {NoText}]

DeviceTypes ==
    /\ dev \in Texts /\ spent \in 0 .. MaxEvents
    /\ wire \in Seq(Texts \cup {"get"}) /\ answers \in Seq(Texts)

ClipFlags == enc \in BOOLEAN /\ sets \in BOOLEAN

\* A loop that goes on has not given up, and holds a text only to tell it.
LoopsGoOn ==
    \A p \in Polls :
        /\ poll[p] \in {"new", "sleeps", "waits", "tells"} => misses[p] < MaxFailures
        /\ text[p] # NoText => poll[p] = "tells"

\* Who waits has one place, and nobody else has.
Waits(w) == IF w = Page THEN handler = "getting" ELSE poll[w] = "waits"
Placed ==
    /\ Different(waiters)
    /\ \A w \in {0} \cup Polls : Waits(w) <=> Among(w, waiters)

\* The loop of the mirror goes on; another may only say that it gives up.
MirrorRuns ==
    /\ task # 0 => poll[task] \in {"sleeps", "waits", "tells"}
    /\ ws = "up" => \A p \in Polls : Running(p) => p = task \/ poll[p] = "quits"
    /\ ws = "closed" => task = 0

\* The mirror knows the text of the page, unless it is about to push another.
OwnIsKnown ==
    /\ task # 0 /\ own # NoText => suppressed \in {NoText, own}
    /\ ws = "up" /\ task # 0 /\ own # NoText /\ last # NoText =>
         suppressed = own \/ last = own \/ poll[task] = "tells"

ClipIInv == /\ DeviceTypes /\ ClipFlags /\ ClipTypes
            /\ LoopsGoOn /\ Placed /\ MirrorRuns /\ OwnIsKnown

LEMMA ClipBounds ==
    /\ NoText \notin Texts /\ MaxFailures \in Nat /\ MaxFailures # 0
    /\ MaxPolls \in Nat /\ MaxEvents \in Nat /\ 0 \notin Polls /\ Polls \subseteq Nat
BY ClipboardAssumption DEF ClipboardAssumption, Polls

LEMMA InitClip == ClipInit => ClipIInv
<1> SUFFICES ASSUME ClipInit PROVE ClipIInv
  OBVIOUS
<1> USE ClipBounds
<1>1. DeviceTypes
  BY DEF ClipInit, DeviceTypes
<1>2. ClipFlags
  BY DEF ClipInit, ClipFlags
<1>3. ClipTypes
  BY DEF ClipInit, ClipTypes, LoopSteps
<1>4. LoopsGoOn
  BY DEF ClipInit, LoopsGoOn
<1>5. Placed
  BY DEF ClipInit, Placed, Different, Among, Waits, Page
<1>6. MirrorRuns /\ OwnIsKnown
  BY DEF ClipInit, MirrorRuns, OwnIsKnown, Running
<1>7. QED
  BY <1>1, <1>2, <1>3, <1>4, <1>5, <1>6 DEF ClipIInv

\* The loops and the mirror, whoever waits.
LoopsOK == LoopsGoOn /\ MirrorRuns /\ OwnIsKnown
LoopTypes ==
    /\ task \in {0} \cup Polls /\ poll \in [Polls -> LoopSteps]
    /\ misses \in [Polls -> 0 .. MaxFailures] /\ text \in [Polls -> Texts \cup {NoText}]

LEMMA FailKeeps ==
    ASSUME LoopTypes, LoopsOK, NEW ps \in SUBSET Polls,
           \A p \in ps : poll[p] \in {"sleeps", "waits"},
           Fail(ps), UNCHANGED <<ws, own>>
    PROVE  /\ LoopTypes' /\ LoopsOK'
           /\ \A p \in ps : poll'[p] # "waits" /\ poll'[p] # "tells"
           /\ \A r \in Polls \ ps : poll'[r] = poll[r]
<1> USE ClipBounds
<1>1. /\ misses' = [p \in Polls |-> IF p \in ps THEN misses[p] + 1 ELSE misses[p]]
      /\ poll' = [p \in Polls |-> IF p \notin ps THEN poll[p]
                                  ELSE IF GivesUp(p) THEN "quits" ELSE "sleeps"]
      /\ task' = IF \E p \in ps : GivesUp(p) THEN 0 ELSE task
      /\ UNCHANGED <<text, last, suppressed, ws, own>>
  BY DEF Fail
<1>2. \A p \in ps : /\ misses[p] + 1 \in 0 .. MaxFailures
                    /\ ~GivesUp(p) => misses[p] + 1 < MaxFailures
  BY DEF LoopTypes, LoopsOK, LoopsGoOn, GivesUp
<1>3. /\ \A p \in ps : poll'[p] = IF GivesUp(p) THEN "quits" ELSE "sleeps"
      /\ \A r \in Polls \ ps : poll'[r] = poll[r] /\ misses'[r] = misses[r]
      /\ \A p \in ps : misses'[p] = misses[p] + 1
  BY <1>1
<1>4. task' \in {0, task} /\ (task' # 0 => \A p \in ps : ~GivesUp(p))
  BY <1>1, Zenon
<1>5. LoopTypes'
  <2>1. \A p \in Polls : poll'[p] \in LoopSteps /\ misses'[p] \in 0 .. MaxFailures
    BY <1>2, <1>3 DEF LoopTypes, LoopSteps
  <2>2. DOMAIN poll' = Polls /\ DOMAIN misses' = Polls
    BY <1>1
  <2>3. poll' \in [Polls -> LoopSteps] /\ misses' \in [Polls -> 0 .. MaxFailures]
    BY <1>1, <2>1
  <2>4. QED
    BY <1>1, <1>4, <2>3 DEF LoopTypes
<1>6. LoopsGoOn'
  BY <1>1, <1>2, <1>3 DEF LoopTypes, LoopsOK, LoopsGoOn
<1>7. MirrorRuns'
  BY <1>1, <1>3, <1>4 DEF LoopTypes, LoopsOK, MirrorRuns, Running
<1>8. OwnIsKnown'
  <2>1. task' # 0 => task' = task /\ (poll[task] = "tells" => poll'[task] = "tells")
    BY <1>3, <1>4 DEF LoopTypes
  <2>2. QED
    BY <1>1, <2>1 DEF LoopsOK, OwnIsKnown
<1>9. QED
  BY <1>3, <1>5, <1>6, <1>7, <1>8 DEF LoopsOK

LEMMA FailKeepsOne ==
    ASSUME LoopTypes, LoopsOK, NEW p \in Polls, poll[p] \in {"sleeps", "waits"},
           Fail({p}), UNCHANGED <<ws, own>>
    PROVE  /\ LoopTypes' /\ LoopsOK' /\ poll'[p] # "waits" /\ poll'[p] # "tells"
           /\ \A r \in Polls \ {p} : poll'[r] = poll[r]
BY FailKeeps

\* A text that is read is pushed only if it is neither the page's own nor known.
LEMMA ReadsKeeps ==
    ASSUME LoopTypes, LoopsOK, NEW p \in Polls, poll[p] = "waits", NEW t \in Texts,
           Reads(p, t), UNCHANGED <<ws, own>>
    PROVE  /\ LoopTypes' /\ LoopsOK' /\ poll'[p] # "waits"
           /\ \A r \in Polls \ {p} : poll'[r] = poll[r]
           /\ ws = "up" /\ last # NoText /\ own # NoText /\ poll'[p] = "tells" => text'[p] # own
<1> USE ClipBounds
<1>1. misses' = [misses EXCEPT ![p] = 0] /\ UNCHANGED <<task, ws, own>>
  BY DEF Reads
<1>2. \/ /\ t = suppressed /\ suppressed' = NoText /\ last' = t
         /\ poll' = [poll EXCEPT ![p] = "sleeps"] /\ text' = text
      \/ /\ t # suppressed /\ t # last /\ last' = t
         /\ poll' = [poll EXCEPT ![p] = "tells"] /\ text' = [text EXCEPT ![p] = t]
         /\ suppressed' = suppressed
      \/ /\ t # suppressed /\ t = last
         /\ poll' = [poll EXCEPT ![p] = "sleeps"] /\ UNCHANGED <<text, last, suppressed>>
  BY DEF Reads
<1>3. poll'[p] \in {"sleeps", "tells"} /\ \A r \in Polls \ {p} : poll'[r] = poll[r]
  BY <1>2 DEF LoopTypes
<1>4. LoopTypes'
  BY <1>1, <1>2 DEF LoopTypes, LoopSteps
<1>5. LoopsGoOn'
  BY <1>1, <1>2, <1>3 DEF LoopTypes, LoopsOK, LoopsGoOn
<1>6. MirrorRuns'
  BY <1>1, <1>3 DEF LoopTypes, LoopsOK, MirrorRuns, Running
<1>7. ws = "up" => p = task
  BY DEF LoopsOK, MirrorRuns, Running
<1>8. OwnIsKnown'
  <2>1. (task # 0 /\ own # NoText => suppressed \in {NoText, own})'
    BY <1>1, <1>2 DEF LoopsOK, OwnIsKnown
  <2>2. (ws = "up" /\ task # 0 /\ own # NoText /\ last # NoText =>
           suppressed = own \/ last = own \/ poll[task] = "tells")'
    <3> SUFFICES ASSUME ws = "up", task # 0, own # NoText, p = task
                 PROVE  suppressed' = own \/ last' = own \/ poll'[p] = "tells"
      BY <1>1, <1>7
    <3>1. CASE t = suppressed
      BY <1>2, <3>1 DEF LoopsOK, OwnIsKnown
    <3>2. CASE t # suppressed /\ t # last
      BY <1>2, <3>2 DEF LoopTypes
    <3>3. CASE t # suppressed /\ t = last
      BY <1>2, <3>3 DEF LoopsOK, OwnIsKnown
    <3>4. QED
      BY <3>1, <3>2, <3>3
  <2>3. QED
    BY <2>1, <2>2 DEF OwnIsKnown
<1>9. ASSUME ws = "up", last # NoText, own # NoText, poll'[p] = "tells"
      PROVE  text'[p] # own
  <2>1. t # suppressed /\ t # last /\ text'[p] = t
    BY <1>2, <1>9 DEF LoopTypes
  <2>2. suppressed = own \/ last = own
    BY <1>7, <1>9 DEF LoopsOK, OwnIsKnown
  <2>3. QED
    BY <2>1, <2>2
<1>10. QED
  BY <1>3, <1>4, <1>5, <1>6, <1>8, <1>9 DEF LoopsOK

LEMMA StopsKeeps ==
    ASSUME LoopTypes, LoopsOK, Stops, ws' \in {ws, "closed"}, own' = own
    PROVE  /\ LoopTypes' /\ LoopsOK'
           /\ task # 0 => poll'[task] = "ended"
           /\ \A r \in Polls \ {task} : poll'[r] = poll[r]
<1> USE ClipBounds
<1>1. /\ task' = 0 /\ misses' = misses /\ UNCHANGED <<last, suppressed>>
      /\ \/ task = 0 /\ poll' = poll /\ text' = text
         \/ /\ task # 0 /\ poll' = [poll EXCEPT ![task] = "ended"]
            /\ text' = [text EXCEPT ![task] = NoText]
  BY DEF Stops, pollVars
<1>2. /\ task # 0 => poll'[task] = "ended" /\ text'[task] = NoText
      /\ \A r \in Polls \ {task} : poll'[r] = poll[r] /\ text'[r] = text[r]
  BY <1>1 DEF LoopTypes
<1>3. LoopTypes'
  BY <1>1 DEF LoopTypes, LoopSteps
<1>4. LoopsGoOn'
  BY <1>1, <1>2 DEF LoopTypes, LoopsOK, LoopsGoOn
<1>5. MirrorRuns'
  BY <1>1, <1>2 DEF LoopTypes, LoopsOK, MirrorRuns, Running
<1>6. OwnIsKnown'
  BY <1>1 DEF OwnIsKnown
<1>7. QED
  BY <1>2, <1>3, <1>4, <1>5, <1>6 DEF LoopsOK

-----------------------------------------------------------------------------
(* Steps *)

\* No step but an answer that is read makes a loop that waits push a text.
Pushes ==
    \A p \in Polls :
        poll[p] = "waits" /\ poll'[p] = "tells" /\ last # NoText /\ own # NoText /\ ws = "up"
        => text'[p] # own

LEMMA ConnectionKeeps == ClipIInv /\ (Copy \/ Serve \/ EncoderStarts \/ Breaks) => ClipIInv' /\ Pushes
<1> SUFFICES ASSUME ClipIInv, Copy \/ Serve \/ EncoderStarts \/ Breaks PROVE ClipIInv' /\ Pushes
  OBVIOUS
<1> USE ClipBounds DEF ClipIInv
<1>1. /\ UNCHANGED <<waiters, handler, task, last, suppressed, poll, misses, text, known, own, sets>>
      /\ ws' = ws \/ (ws = "up" /\ ws' = "broken")
  BY DEF Copy, Serve, EncoderStarts, Breaks, deviceSide, mirrorVars, pollVars, historyVars
<1>2. DeviceTypes'
  <2>1. CASE Copy
    BY <2>1 DEF Copy, Spends, DeviceTypes
  <2>2. CASE Serve
    <3>1. /\ wire # <<>> /\ wire' = Tail(wire) /\ spent' = spent
          /\ \/ Head(wire) = "get" /\ answers' = Append(answers, dev) /\ dev' = dev
             \/ Head(wire) # "get" /\ dev' = Head(wire) /\ answers' = answers
      BY <2>2 DEF Serve
    <3>2. Head(wire) \in Texts \cup {"get"} /\ wire' \in Seq(Texts \cup {"get"})
      BY <3>1 DEF DeviceTypes
    <3>3. CASE Head(wire) = "get" /\ answers' = Append(answers, dev) /\ dev' = dev
      BY <3>1, <3>2, <3>3 DEF DeviceTypes
    <3>4. CASE Head(wire) # "get" /\ dev' = Head(wire) /\ answers' = answers
      BY <3>1, <3>2, <3>4 DEF DeviceTypes
    <3>5. QED
      BY <3>1, <3>3, <3>4
  <2>3. CASE EncoderStarts \/ Breaks
    BY <2>3 DEF EncoderStarts, Breaks, deviceSide, DeviceTypes
  <2>4. QED
    BY <2>1, <2>2, <2>3
<1>3. ClipFlags'
  BY <1>1 DEF Copy, Serve, EncoderStarts, Breaks, ClipFlags
<1>4. ClipTypes' /\ LoopsGoOn' /\ Placed'
  BY <1>1 DEF ClipTypes, LoopsGoOn, Placed, Waits
<1>5. MirrorRuns' /\ OwnIsKnown'
  BY <1>1 DEF MirrorRuns, OwnIsKnown, Running
<1>6. Pushes
  BY <1>1 DEF Pushes
<1>7. QED
  BY <1>2, <1>3, <1>4, <1>5, <1>6

\* Who goes to wait, and who waits no longer.
LEMMA WaiterComes ==
    ASSUME ClipTypes, Placed, NEW w \in {0} \cup Polls, ~Waits(w),
           waiters' = Append(waiters, w), Waits(w)',
           \A x \in ({0} \cup Polls) \ {w} : Waits(x)' <=> Waits(x)
    PROVE  Placed' /\ waiters' \in Seq({0} \cup Polls)
<1>1. ~Among(w, waiters) /\ waiters \in Seq({0} \cup Polls) /\ Different(waiters)
  BY DEF ClipTypes, Placed
<1>2. /\ waiters' \in Seq({0} \cup Polls) /\ Different(waiters')
      /\ \A x : Among(x, waiters') <=> x = w \/ Among(x, waiters)
  BY <1>1, AppendFacts
<1>3. ASSUME NEW x \in {0} \cup Polls
      PROVE  Waits(x)' <=> Among(x, waiters')
  BY <1>2 DEF Placed
<1>4. QED
  BY <1>2, <1>3 DEF Placed, Different, Among

LEMMA WaiterGoes ==
    ASSUME ClipTypes, Placed, NEW w,
           waiters' \in Seq({0} \cup Polls), Different(waiters'),
           \A x : Among(x, waiters') <=> x # w /\ Among(x, waiters),
           w \in {0} \cup Polls => ~Waits(w)',
           \A x \in ({0} \cup Polls) \ {w} : Waits(x)' <=> Waits(x)
    PROVE  Placed'
<1>1. ASSUME NEW x \in {0} \cup Polls
      PROVE  Waits(x)' <=> Among(x, waiters')
  BY DEF Placed
<1>2. QED
  BY <1>1 DEF Placed, Different, Among

LEMMA PollKeeps == ASSUME ClipIInv, NEW p \in Polls, Poll(p) PROVE ClipIInv' /\ Pushes
<1> USE ClipBounds DEF ClipIInv
<1>1. /\ poll[p] = "sleeps" /\ UNCHANGED <<dev, answers, spent, enc, handler, ws, known, own, sets>>
      /\ \/ /\ enc /\ poll' = [poll EXCEPT ![p] = "waits"]
            /\ waiters' = Append(waiters, p) /\ wire' = Append(wire, "get")
            /\ UNCHANGED <<task, misses, text, last, suppressed>>
         \/ Fail({p}) /\ UNCHANGED <<waiters, wire>>
  BY DEF Poll, historyVars
<1>2. ClipFlags'
  BY <1>1 DEF ClipFlags
<1>3. DeviceTypes'
  <2>1. wire' = wire \/ wire' = Append(wire, "get")
    BY <1>1
  <2>2. wire' \in Seq(Texts \cup {"get"})
    BY <2>1 DEF DeviceTypes
  <2>3. QED
    BY <1>1, <2>2 DEF DeviceTypes
<1>4. LoopTypes /\ LoopsOK
  BY DEF ClipTypes, LoopTypes, LoopsOK
<1>5. CASE /\ poll' = [poll EXCEPT ![p] = "waits"] /\ waiters' = Append(waiters, p)
           /\ UNCHANGED <<task, misses, text, last, suppressed>>
  <2>1. poll'[p] = "waits" /\ \A r \in Polls \ {p} : poll'[r] = poll[r]
    BY <1>5 DEF ClipTypes
  <2>2. Placed' /\ waiters' \in Seq({0} \cup Polls)
    <3>1. ~Waits(p) /\ Waits(p)'
      BY <1>1, <2>1 DEF Waits, Page
    <3>2. \A x \in ({0} \cup Polls) \ {p} : Waits(x)' <=> Waits(x)
      BY <1>1, <2>1 DEF Waits, Page
    <3>3. QED
      BY <1>5, <3>1, <3>2, WaiterComes
  <2>3. ClipTypes'
    BY <1>1, <1>5, <2>2 DEF ClipTypes, LoopSteps
  <2>4. LoopsGoOn' /\ MirrorRuns' /\ OwnIsKnown'
    BY <1>1, <1>5, <2>1 DEF ClipTypes, LoopsGoOn, MirrorRuns, OwnIsKnown, Running
  <2>5. Pushes
    BY <1>1, <2>1 DEF Pushes
  <2>6. QED
    BY <1>2, <1>3, <2>2, <2>3, <2>4, <2>5
<1>6. CASE Fail({p}) /\ UNCHANGED waiters
  <2>1. /\ LoopTypes' /\ LoopsOK' /\ poll'[p] # "waits" /\ poll'[p] # "tells"
        /\ \A r \in Polls \ {p} : poll'[r] = poll[r]
    BY <1>1, <1>4, <1>6, FailKeepsOne
  <2>2. ClipTypes'
    BY <1>1, <1>6, <2>1 DEF ClipTypes, LoopTypes
  <2>3. \A x \in {0} \cup Polls : Waits(x)' <=> Waits(x)
    BY <1>1, <2>1 DEF Waits, Page
  <2>4. Placed'
    BY <1>6, <2>3 DEF Placed
  <2>5. Pushes
    BY <2>1 DEF Pushes
  <2>6. QED
    BY <1>2, <1>3, <2>1, <2>2, <2>4, <2>5 DEF LoopsOK
<1>7. QED
  BY <1>1, <1>5, <1>6

LEMMA TellKeeps == ASSUME ClipIInv, NEW p \in Polls, Tell(p) \/ Quit(p) PROVE ClipIInv' /\ Pushes
<1> USE ClipBounds DEF ClipIInv
<1>1. /\ UNCHANGED <<dev, wire, answers, spent, enc, waiters, handler, ws, last, suppressed, misses, sets>>
      /\ poll[p] \in {"tells", "quits"}
  BY DEF Tell, Quit, deviceSide, historyVars
<1>2. \/ /\ poll[p] = "tells" /\ ws = "up" /\ poll' = [poll EXCEPT ![p] = "sleeps"]
         /\ own' = NoText /\ task' = task /\ text' = [text EXCEPT ![p] = NoText]
      \/ /\ poll[p] = "tells" /\ ws # "up" /\ poll' = [poll EXCEPT ![p] = "ended"]
         /\ own' = own /\ task' = 0 /\ text' = [text EXCEPT ![p] = NoText]
      \/ /\ poll[p] = "quits" /\ poll' = [poll EXCEPT ![p] = "ended"]
         /\ own' = own /\ task' = (IF ws = "up" THEN task ELSE 0) /\ text' = text
  BY DEF Tell, Quit, historyVars
<1>3. /\ poll'[p] \in {"sleeps", "ended"} /\ \A r \in Polls \ {p} : poll'[r] = poll[r]
      /\ \A r \in Polls \ {p} : text'[r] = text[r]
      /\ text'[p] # NoText => text'[p] = text[p] /\ poll[p] = "quits"
  BY <1>2 DEF ClipTypes
<1>4. DeviceTypes' /\ ClipFlags'
  BY <1>1 DEF DeviceTypes, ClipFlags
<1>5. ClipTypes'
  BY <1>1, <1>2 DEF ClipTypes, LoopSteps
<1>6. LoopsGoOn'
  BY <1>1, <1>2, <1>3 DEF ClipTypes, LoopsGoOn
<1>7. Placed'
  <2>1. \A x \in {0} \cup Polls : Waits(x)' <=> Waits(x)
    BY <1>1, <1>3 DEF Waits, Page
  <2>2. QED
    BY <1>1, <2>1 DEF Placed
<1>8. MirrorRuns'
  BY <1>1, <1>2, <1>3 DEF ClipTypes, MirrorRuns, Running
<1>9. OwnIsKnown'
  BY <1>1, <1>2, <1>3 DEF ClipTypes, MirrorRuns, OwnIsKnown
<1>10. Pushes
  BY <1>3 DEF Pushes
<1>11. QED
  BY <1>4, <1>5, <1>6, <1>7, <1>8, <1>9, <1>10

LEMMA AnswerKeeps == ClipIInv /\ Answer => ClipIInv' /\ Pushes
<1> SUFFICES ASSUME ClipIInv, Answer PROVE ClipIInv' /\ Pushes
  OBVIOUS
<1> USE ClipBounds DEF ClipIInv
<1>1. /\ answers # <<>> /\ answers' = Tail(answers)
      /\ UNCHANGED <<dev, wire, spent, enc, ws, known, own, sets>>
  BY DEF Answer, historyVars
<1>2. DeviceTypes' /\ Head(answers) \in Texts
  BY <1>1 DEF DeviceTypes
<1>3. ClipFlags'
  BY <1>1 DEF ClipFlags
<1>4. LoopTypes /\ LoopsOK
  BY DEF ClipTypes, LoopTypes, LoopsOK
<1>5. CASE waiters = <<>>
  <2>1. UNCHANGED <<waiters, handler, task, last, suppressed, poll, misses, text>>
    BY <1>5 DEF Answer, mirrorVars, pollVars
  <2>2. ClipTypes' /\ LoopsGoOn' /\ Placed' /\ MirrorRuns' /\ OwnIsKnown' /\ Pushes
    BY <1>1, <2>1 DEF ClipTypes, LoopsGoOn, Placed, Waits, MirrorRuns, OwnIsKnown, Running, Pushes
  <2>3. QED
    BY <1>2, <1>3, <2>2
<1>6. CASE waiters # <<>>
  <2>1. waiters' = Tail(waiters) /\ waiters \in Seq({0} \cup Polls) /\ Different(waiters)
    BY <1>6 DEF Answer, ClipTypes, Placed
  <2>2. PICK w \in {0} \cup Polls : w = Head(waiters)
    BY <1>6, <2>1, TailFacts
  <2>3. /\ waiters' \in Seq({0} \cup Polls) /\ Different(waiters') /\ Among(w, waiters)
        /\ \A x : Among(x, waiters') <=> x # w /\ Among(x, waiters)
    BY <1>6, <2>1, <2>2, TailFacts
  <2>4. Waits(w)
    BY <2>3 DEF Placed
  <2>5. IF w = Page THEN handler' = "idle" /\ UNCHANGED <<task, last, suppressed, poll, misses, text>>
        ELSE Reads(w, Head(answers)) /\ handler' = handler
    BY <1>6, <2>2 DEF Answer, mirrorVars, pollVars
  <2>6. CASE w = Page
    <3>1. handler' = "idle" /\ UNCHANGED <<task, last, suppressed, poll, misses, text>>
      BY <2>5, <2>6
    <3>2. ~Waits(w)' /\ \A x \in ({0} \cup Polls) \ {w} : Waits(x)' <=> Waits(x)
      BY <2>6, <3>1 DEF Waits
    <3>3. Placed'
      BY <2>3, <3>2, WaiterGoes
    <3>4. ClipTypes'
      BY <1>1, <2>3, <3>1 DEF ClipTypes
    <3>5. LoopsGoOn' /\ MirrorRuns' /\ OwnIsKnown' /\ Pushes
      BY <1>1, <3>1 DEF LoopsGoOn, MirrorRuns, OwnIsKnown, Running, Pushes
    <3>6. QED
      BY <1>2, <1>3, <3>3, <3>4, <3>5
  <2>7. CASE w # Page
    <3>1. w \in Polls /\ poll[w] = "waits" /\ Reads(w, Head(answers)) /\ handler' = handler
      BY <2>3, <2>4, <2>5, <2>7 DEF Waits, Page
    <3>2. /\ LoopTypes' /\ LoopsOK' /\ poll'[w] # "waits"
          /\ \A r \in Polls \ {w} : poll'[r] = poll[r]
          /\ ws = "up" /\ last # NoText /\ own # NoText /\ poll'[w] = "tells" => text'[w] # own
      BY <1>1, <1>2, <1>4, <3>1, ReadsKeeps
    <3>3. ~Waits(w)' /\ \A x \in ({0} \cup Polls) \ {w} : Waits(x)' <=> Waits(x)
      BY <2>7, <3>1, <3>2 DEF Waits, Page
    <3>4. Placed'
      BY <2>3, <3>3, WaiterGoes
    <3>5. ClipTypes'
      BY <1>1, <2>3, <3>1, <3>2 DEF ClipTypes, LoopTypes
    <3>6. Pushes
      BY <3>2 DEF Pushes
    <3>7. QED
      BY <1>2, <1>3, <3>2, <3>4, <3>5, <3>6 DEF LoopsOK
  <2>8. QED
    BY <2>6, <2>7
<1>7. QED
  BY <1>5, <1>6

\* A request that is given up, by the page or by a loop: the rest is as with an answer.
LEMMA GivenUpKeeps ==
    ASSUME ClipIInv, NEW w \in {0} \cup Polls, Waits(w),
           waiters' \in Seq({0} \cup Polls), Different(waiters'),
           \A x : Among(x, waiters') <=> x # w /\ Among(x, waiters),
           \/ /\ w = Page /\ handler' = "idle"
              /\ UNCHANGED <<task, last, suppressed, poll, misses, text>>
           \/ w # Page /\ Fail({w}) /\ handler' = handler,
           UNCHANGED <<ws, known, own, sets>>
    PROVE  ClipTypes' /\ LoopsGoOn' /\ Placed' /\ MirrorRuns' /\ OwnIsKnown' /\ Pushes
<1> USE ClipBounds DEF ClipIInv
<1>1. LoopTypes /\ LoopsOK
  BY DEF ClipTypes, LoopTypes, LoopsOK
<1>2. CASE w = Page
  <2>1. handler' = "idle" /\ UNCHANGED <<task, last, suppressed, poll, misses, text>>
    BY <1>2
  <2>2. ~Waits(w)' /\ \A x \in ({0} \cup Polls) \ {w} : Waits(x)' <=> Waits(x)
    BY <1>2, <2>1 DEF Waits
  <2>3. Placed'
    BY <2>2, WaiterGoes
  <2>4. ClipTypes'
    BY <2>1 DEF ClipTypes
  <2>5. LoopsGoOn' /\ MirrorRuns' /\ OwnIsKnown' /\ Pushes
    BY <2>1 DEF LoopsGoOn, MirrorRuns, OwnIsKnown, Running, Pushes
  <2>6. QED
    BY <2>3, <2>4, <2>5
<1>3. CASE w # Page
  <2>1. w \in Polls /\ poll[w] = "waits" /\ Fail({w}) /\ handler' = handler
    BY <1>3 DEF Waits, Page
  <2>2. /\ LoopTypes' /\ LoopsOK' /\ poll'[w] # "waits" /\ poll'[w] # "tells"
        /\ \A r \in Polls \ {w} : poll'[r] = poll[r]
    BY <1>1, <2>1, FailKeepsOne
  <2>3. ~Waits(w)' /\ \A x \in ({0} \cup Polls) \ {w} : Waits(x)' <=> Waits(x)
    BY <1>3, <2>1, <2>2 DEF Waits, Page
  <2>4. Placed'
    BY <2>3, WaiterGoes
  <2>5. ClipTypes'
    BY <2>1, <2>2 DEF ClipTypes, LoopTypes
  <2>6. Pushes
    BY <2>2 DEF Pushes
  <2>7. QED
    BY <2>2, <2>4, <2>5, <2>6 DEF LoopsOK
<1>4. QED
  BY <1>2, <1>3

LEMMA TimesOutKeeps ==
    ASSUME ClipIInv, NEW w \in Polls \cup {Page}, TimesOut(w)
    PROVE  ClipIInv' /\ Pushes
<1> USE ClipBounds
<1>1. /\ waiters' = RemoveFirst(waiters, w) /\ spent < MaxEvents /\ spent' = spent + 1
      /\ UNCHANGED <<dev, wire, answers, enc, ws, known, own, sets>>
  BY DEF TimesOut, Forsakes, Spends, historyVars
<1>2. w \in {0} \cup Polls /\ Waits(w)
  BY DEF TimesOut, Waits, Page
<1>3. /\ waiters' \in Seq({0} \cup Polls) /\ Different(waiters')
      /\ \A x : Among(x, waiters') <=> x # w /\ Among(x, waiters)
  BY <1>1, RemoveFirstFacts DEF ClipIInv, ClipTypes, Placed
<1>4. \/ /\ w = Page /\ handler' = "idle"
         /\ UNCHANGED <<task, last, suppressed, poll, misses, text>>
      \/ w # Page /\ Fail({w}) /\ handler' = handler
  BY DEF TimesOut, mirrorVars, pollVars
<1>5. ClipTypes' /\ LoopsGoOn' /\ Placed' /\ MirrorRuns' /\ OwnIsKnown' /\ Pushes
  BY <1>1, <1>2, <1>3, <1>4, GivenUpKeeps
<1>6. DeviceTypes' /\ ClipFlags'
  BY <1>1 DEF ClipIInv, DeviceTypes, ClipFlags
<1>7. QED
  BY <1>5, <1>6 DEF ClipIInv

\* All who wait read None, and nobody waits any longer.
LEMMA EncoderEndsKeeps == ClipIInv /\ EncoderEnds => ClipIInv' /\ Pushes
<1> SUFFICES ASSUME ClipIInv, EncoderEnds PROVE ClipIInv' /\ Pushes
  OBVIOUS
<1> USE ClipBounds
<1> DEFINE ps == Waiting \ {Page}
<1>1. /\ spent < MaxEvents /\ spent' = spent + 1
      /\ enc' = FALSE /\ wire' = <<>> /\ answers' = <<>> /\ waiters' = <<>>
      /\ handler' = (IF Page \in Waiting THEN "idle" ELSE handler)
      /\ Fail(ps) /\ UNCHANGED <<dev, ws, known, own, sets>>
  BY DEF EncoderEnds, Spends, historyVars
<1>2. \A x : x \in Waiting <=> Among(x, waiters)
  <2>1. DOMAIN waiters = 1 .. Len(waiters)
    BY DEF ClipIInv, ClipTypes
  <2>2. QED
    BY <2>1 DEF Waiting, Among
<1>3. /\ \A x \in {0} \cup Polls : Waits(x) <=> x \in Waiting
      /\ ps \subseteq Polls
  <2>1. \A x \in {0} \cup Polls : Waits(x) <=> x \in Waiting
    BY <1>2 DEF ClipIInv, Placed
  <2>2. Waiting \subseteq {0} \cup Polls
    BY DEF ClipIInv, ClipTypes, Waiting
  <2>3. QED
    BY <2>1, <2>2 DEF Page
<1>4. \A p \in ps : poll[p] = "waits"
  BY <1>3 DEF Waits
<1> HIDE DEF ps
<1>5. LoopTypes /\ LoopsOK
  BY DEF ClipIInv, ClipTypes, LoopTypes, LoopsOK
<1>6. /\ LoopTypes' /\ LoopsOK'
      /\ \A p \in ps : poll'[p] # "waits" /\ poll'[p] # "tells"
      /\ \A r \in Polls \ ps : poll'[r] = poll[r]
  BY <1>1, <1>3, <1>4, <1>5, FailKeeps
<1>7. DeviceTypes'
  BY <1>1 DEF ClipIInv, DeviceTypes
<1>8. ClipFlags'
  BY <1>1, Zenon DEF ClipIInv, ClipFlags
<1>9. ClipTypes'
  <2>1. <<>> \in Seq({0} \cup Polls)
    OBVIOUS
  <2>2. QED
    BY <1>1, <1>6, <2>1 DEF ClipIInv, ClipTypes, LoopTypes
<1>10. Placed'
  <2>1. \A x \in {0} \cup Polls : ~Waits(x)'
    BY <1>1, <1>3, <1>6 DEF Waits, Page, ps
  <2>2. Different(<<>>) /\ \A x : ~Among(x, <<>>)
    BY DEF Different, Among
  <2>3. QED
    BY <1>1, <2>1, <2>2 DEF Placed
<1>11. Pushes
  BY <1>6 DEF Pushes
<1>12. QED
  BY <1>6, <1>7, <1>8, <1>9, <1>10, <1>11 DEF ClipIInv, LoopsOK

LEMMA GetTextKeeps == ClipIInv /\ GetText => ClipIInv' /\ Pushes
<1> SUFFICES ASSUME ClipIInv, GetText PROVE ClipIInv' /\ Pushes
  OBVIOUS
<1> USE ClipBounds
<1>1. /\ handler = "idle" /\ handler' = "getting" /\ waiters' = Append(waiters, 0)
      /\ wire' = Append(wire, "get")
      /\ UNCHANGED <<dev, answers, spent, enc, ws, task, last, suppressed, poll, misses, text,
                     known, own, sets>>
  BY DEF GetText, Handles, Page, mirrorVars, pollVars, historyVars
<1>2. DeviceTypes' /\ ClipFlags'
  BY <1>1 DEF ClipIInv, DeviceTypes, ClipFlags
<1>3. Placed' /\ waiters' \in Seq({0} \cup Polls)
  <2>1. ~Waits(0) /\ Waits(0)'
    BY <1>1 DEF Waits, Page
  <2>2. \A x \in ({0} \cup Polls) \ {0} : Waits(x)' <=> Waits(x)
    BY <1>1 DEF Waits, Page
  <2>3. QED
    BY <1>1, <2>1, <2>2, WaiterComes DEF ClipIInv
<1>4. ClipTypes'
  BY <1>1, <1>3 DEF ClipIInv, ClipTypes
<1>5. LoopsGoOn' /\ MirrorRuns' /\ OwnIsKnown' /\ Pushes
  BY <1>1 DEF ClipIInv, LoopsGoOn, MirrorRuns, OwnIsKnown, Running, Pushes
<1>6. QED
  BY <1>2, <1>3, <1>4, <1>5 DEF ClipIInv

\* What is set is noted by a mirror that is on; one that is off has no task.
LEMMA SetKeeps == ClipIInv /\ (Set \/ Enable) => ClipIInv' /\ Pushes
<1> SUFFICES ASSUME ClipIInv, Set \/ Enable PROVE ClipIInv' /\ Pushes
  OBVIOUS
<1> USE ClipBounds
<1>1. CASE Set
  <2>1. PICK t \in Texts :
          /\ spent < MaxEvents /\ spent' = spent + 1 /\ wire' \in {Append(wire, t), wire}
          /\ suppressed' = (IF task # 0 THEN t ELSE suppressed)
          /\ own' = t /\ sets' = TRUE
          /\ UNCHANGED <<dev, answers, enc, waiters, handler, ws, task, last, poll, misses, text>>
    BY <1>1 DEF Set, Spends, Notes, pollVars
  <2>2. DeviceTypes' /\ ClipFlags'
    BY <2>1 DEF ClipIInv, DeviceTypes, ClipFlags
  <2>3. ClipTypes' /\ LoopsGoOn' /\ Placed'
    BY <2>1 DEF ClipIInv, ClipTypes, LoopsGoOn, Placed, Waits
  <2>4. MirrorRuns' /\ OwnIsKnown' /\ Pushes
    BY <2>1 DEF ClipIInv, MirrorRuns, OwnIsKnown, Running, Pushes
  <2>5. QED
    BY <2>2, <2>3, <2>4 DEF ClipIInv
<1>2. CASE Enable
  <2>1. PICK p \in Polls :
          /\ poll[p] = "new" /\ task = 0 /\ ws # "closed" /\ task' = p
          /\ poll' = [poll EXCEPT ![p] = "sleeps"] /\ last' = NoText /\ suppressed' = NoText
          /\ UNCHANGED <<dev, wire, answers, spent, enc, waiters, handler, ws, misses, text,
                         known, own, sets>>
    BY <1>2 DEF Enable, Handles, MayStart, Starts, deviceSide, historyVars
  <2>2. poll'[p] = "sleeps" /\ \A r \in Polls \ {p} : poll'[r] = poll[r]
    BY <2>1 DEF ClipIInv, ClipTypes
  <2>3. DeviceTypes' /\ ClipFlags'
    BY <2>1 DEF ClipIInv, DeviceTypes, ClipFlags
  <2>4. ClipTypes'
    BY <2>1 DEF ClipIInv, ClipTypes, LoopSteps
  <2>5. LoopsGoOn'
    BY <2>1, <2>2 DEF ClipIInv, LoopsGoOn
  <2>6. Placed'
    <3>1. \A x \in {0} \cup Polls : Waits(x)' <=> Waits(x)
      BY <2>1, <2>2 DEF Waits, Page
    <3>2. QED
      BY <2>1, <3>1 DEF ClipIInv, Placed
  <2>7. MirrorRuns'
    BY <2>1, <2>2 DEF ClipIInv, MirrorRuns, Running
  <2>8. OwnIsKnown' /\ Pushes
    BY <2>1, <2>2 DEF ClipIInv, OwnIsKnown, Pushes
  <2>9. QED
    BY <2>3, <2>4, <2>5, <2>6, <2>7, <2>8 DEF ClipIInv
<1>3. QED
  BY <1>1, <1>2

LEMMA DisableKeeps == ClipIInv /\ Disable => ClipIInv' /\ Pushes
<1> SUFFICES ASSUME ClipIInv, Disable PROVE ClipIInv' /\ Pushes
  OBVIOUS
<1> USE ClipBounds
<1>1. PICK w \in Polls : w = task
  BY DEF Disable, ClipIInv, ClipTypes
<1>2. /\ Stops /\ waiters' = RemoveFirst(waiters, w)
      /\ UNCHANGED <<dev, wire, answers, spent, enc, handler, ws, known, own, sets>>
  BY <1>1 DEF Disable, Forsakes, deviceSide, historyVars
<1>3. LoopTypes /\ LoopsOK
  BY DEF ClipIInv, ClipTypes, LoopTypes, LoopsOK
<1>4. /\ LoopTypes' /\ LoopsOK' /\ poll'[w] = "ended"
      /\ \A r \in Polls \ {w} : poll'[r] = poll[r]
  BY <1>1, <1>2, <1>3, StopsKeeps
<1>5. /\ waiters' \in Seq({0} \cup Polls) /\ Different(waiters')
      /\ \A x : Among(x, waiters') <=> x # w /\ Among(x, waiters)
  BY <1>2, RemoveFirstFacts DEF ClipIInv, ClipTypes, Placed
<1>6. ~Waits(w)' /\ \A x \in ({0} \cup Polls) \ {w} : Waits(x)' <=> Waits(x)
  BY <1>2, <1>4 DEF Waits, Page
<1>7. Placed'
  BY <1>5, <1>6, WaiterGoes DEF ClipIInv
<1>8. ClipTypes'
  BY <1>2, <1>4, <1>5 DEF ClipIInv, ClipTypes, LoopTypes
<1>9. DeviceTypes' /\ ClipFlags'
  BY <1>2 DEF ClipIInv, DeviceTypes, ClipFlags
<1>10. Pushes
  BY <1>4 DEF Pushes
<1>11. QED
  BY <1>4, <1>7, <1>8, <1>9, <1>10 DEF ClipIInv, LoopsOK

\* Both the page and the loop of the mirror leave the queue; no other loop waits in it.
LEMMA SessionEndsKeeps == ClipIInv /\ SessionEnds => ClipIInv' /\ Pushes
<1> SUFFICES ASSUME ClipIInv, SessionEnds PROVE ClipIInv' /\ Pushes
  OBVIOUS
<1> USE ClipBounds
<1>1. PICK w \in {0} \cup Polls : w = task
  BY DEF ClipIInv, ClipTypes
<1>2. PICK q : q = RemoveFirst(waiters, 0)
  OBVIOUS
<1>3. /\ Stops /\ waiters' = RemoveFirst(q, w) /\ ws' = "closed" /\ handler' = "ended"
      /\ UNCHANGED <<dev, wire, answers, spent, enc, known, own, sets>>
  BY <1>1, <1>2 DEF SessionEnds, Page, deviceSide, historyVars
<1>4. LoopTypes /\ LoopsOK
  BY DEF ClipIInv, ClipTypes, LoopTypes, LoopsOK
<1>5. /\ LoopTypes' /\ LoopsOK' /\ (w # 0 => poll'[w] = "ended")
      /\ \A r \in Polls \ {w} : poll'[r] = poll[r]
  BY <1>1, <1>3, <1>4, StopsKeeps
<1>6. /\ q \in Seq({0} \cup Polls) /\ Different(q)
      /\ \A x : Among(x, q) <=> x # 0 /\ Among(x, waiters)
  BY <1>2, RemoveFirstFacts DEF ClipIInv, ClipTypes, Placed
<1>7. /\ waiters' \in Seq({0} \cup Polls) /\ Different(waiters')
      /\ \A x : Among(x, waiters') <=> x # w /\ Among(x, q)
  BY <1>3, <1>6, RemoveFirstFacts
<1>8. ASSUME NEW x \in {0} \cup Polls
      PROVE  Waits(x)' <=> Among(x, waiters')
  <2>1. CASE x = 0
    BY <1>3, <1>6, <1>7, <2>1 DEF Waits, Page
  <2>2. CASE x # 0 /\ x = w
    BY <1>3, <1>5, <1>7, <2>2 DEF Waits, Page
  <2>3. CASE x # 0 /\ x # w
    <3>1. Waits(x)' <=> Waits(x)
      BY <1>5, <2>3 DEF Waits, Page
    <3>2. QED
      BY <1>6, <1>7, <2>3, <3>1 DEF ClipIInv, Placed
  <2>4. QED
    BY <2>1, <2>2, <2>3
<1>9. Placed'
  BY <1>7, <1>8 DEF Placed, Different, Among
<1>10. ClipTypes'
  BY <1>3, <1>5, <1>7 DEF ClipTypes, LoopTypes
<1>11. DeviceTypes' /\ ClipFlags'
  BY <1>3 DEF ClipIInv, DeviceTypes, ClipFlags
<1>12. Pushes
  BY <1>5 DEF Pushes
<1>13. QED
  BY <1>5, <1>9, <1>10, <1>11, <1>12 DEF ClipIInv, LoopsOK

LEMMA ClipNextKeeps == ClipIInv /\ [ClipNext]_clipVars => ClipIInv' /\ (Pushes \/ UNCHANGED clipVars)
<1> SUFFICES ASSUME ClipIInv, [ClipNext]_clipVars PROVE ClipIInv' /\ (Pushes \/ UNCHANGED clipVars)
  OBVIOUS
<1>1. CASE ClipNext
  BY <1>1, ConnectionKeeps, PollKeeps, TellKeeps, AnswerKeeps, TimesOutKeeps, EncoderEndsKeeps,
     GetTextKeeps, SetKeeps, DisableKeeps, SessionEndsKeeps DEF ClipNext
<1>2. CASE UNCHANGED clipVars
  BY <1>2 DEF clipVars, deviceSide, mirrorVars, pollVars, historyVars, ClipIInv, DeviceTypes,
              ClipFlags, ClipTypes, LoopsGoOn, Placed, Waits, MirrorRuns, OwnIsKnown, Running
<1>3. QED
  BY <1>1, <1>2

LEMMA ClipInvariance == ClipSpec => []ClipIInv
<1>1. ClipInit => ClipIInv
  BY InitClip
<1>2. ClipIInv /\ [ClipNext]_clipVars => ClipIInv'
  BY ClipNextKeeps
<1>3. QED
  BY <1>1, <1>2, PTL DEF ClipSpec

\* In the words of the run: who waits has one place.
LEMMA PlacedIsLive == ClipIInv => WaitersAreLive
<1> SUFFICES ASSUME ClipIInv, NEW w \in Polls \cup {Page}
             PROVE  LET places == {i \in DOMAIN waiters : waiters[i] = w}
                        waits == IF w = Page THEN handler = "getting" ELSE poll[w] = "waits"
                    IN  IF waits THEN \E i \in places : places = {i} ELSE places = {}
  BY DEF WaitersAreLive
<1> DEFINE places == {i \in DOMAIN waiters : waiters[i] = w}
<1>1. /\ DOMAIN waiters = 1 .. Len(waiters) /\ Different(waiters)
      /\ Waits(w) <=> Among(w, waiters)
  BY ClipBounds DEF ClipIInv, ClipTypes, Placed, Page
<1>2. CASE Waits(w)
  <2>1. PICK i \in 1 .. Len(waiters) : waiters[i] = w
    BY <1>1, <1>2 DEF Among
  <2>2. i \in places /\ places = {i}
    BY <1>1, <2>1 DEF Different
  <2>3. QED
    BY <1>2, <2>2 DEF Waits
<1>3. CASE ~Waits(w)
  <2>1. places = {}
    BY <1>1, <1>3 DEF Among
  <2>2. QED
    BY <1>3, <2>1 DEF Waits
<1>4. QED
  BY <1>2, <1>3

(* Who waits for the clipboard stands in the queue of the encoder once and    *)
(* nobody else does, at most one loop polls, and no loop pushes back what the *)
(* page set (scrcpy.py:693-755, clipboard_mirror.py).                         *)
THEOREM WaitersAreServed == ClipSpec => ClipHolds
<1>1. ClipIInv => ClipTypeOK /\ WaitersAreLive /\ OneMirror
  <2> SUFFICES ASSUME ClipIInv PROVE ClipTypeOK /\ WaitersAreLive /\ OneMirror
    OBVIOUS
  <2>1. WaitersAreLive
    BY PlacedIsLive
  <2>2. OneMirror
    BY DEF ClipIInv, MirrorRuns, OneMirror
  <2>3. {enc, sets} \subseteq BOOLEAN
    BY Zenon DEF ClipIInv, ClipFlags
  <2>4. task # 0 => Running(task)
    BY DEF ClipIInv, MirrorRuns, Running
  <2>5. ClipTypeOK
    BY <2>3, <2>4 DEF ClipIInv, DeviceTypes, ClipTypes, LoopsGoOn, ClipTypeOK
  <2>6. QED
    BY <2>1, <2>2, <2>5
<1>2. ClipIInv /\ [ClipNext]_clipVars =>
        [\A p \in Polls :
           poll[p] = "waits" /\ poll'[p] = "tells" /\ last # NoText /\ own # NoText /\ ws = "up"
           => text'[p] # own]_clipVars
  BY ClipNextKeeps DEF Pushes
<1>3. QED
  BY ClipInvariance, <1>1, <1>2, PTL DEF ClipSpec, ClipHolds, NoEcho

-----------------------------------------------------------------------------
(***************************************************************************)
(* Every picture reaches the page once, in order and decodable, whatever   *)
(* the packets or the reads it comes in. The loops over the units of a     *)
(* chunk go one by one (the ...Run lemmas), so that what they hold after   *)
(* each unit is an invariant of them: of aggregate_aus that every access   *)
(* unit has one picture (After), of the pairing that the config is made of *)
(* the sets last seen (PairedIn). The inductive invariant says that the    *)
(* units on their way are pictures in order, which go on where the page is *)
(* (PicturesFlow).                                                         *)
(***************************************************************************)

\* A loop over a sequence goes through a value for every element it has taken.
LEMMA JoinedRun ==
    ASSUME NEW T, NEW units \in Seq(T)
    PROVE  \E f : /\ f[0] = NoneJoined
                  /\ \A k \in 1 .. Len(units) : f[k] = Joins(f[k - 1], units[k])
                  /\ Joined(units) = f[Len(units)]
<1> DEFINE N == Len(units)
           Run(f, n) == f = [k \in 0 .. n |->
                               IF k = 0 THEN NoneJoined ELSE Joins(f[k - 1], units[k])]
           Runs == {n \in 0 .. N : \E f : Run(f, n)}
<1>1. N \in Nat
  OBVIOUS
<1>2. 0 \in Runs
  <2> DEFINE g == [k \in 0 .. 0 |-> NoneJoined]
  <2>1. Run(g, 0)
    OBVIOUS
  <2> HIDE DEF g, Run
  <2>2. \E h : Run(h, 0)
    BY <2>1, Zenon
  <2>3. QED
    BY <1>1, <2>2
<1>3. ASSUME NEW n \in 1 .. N, n - 1 \in Runs
      PROVE  n \in Runs
  <2>1. PICK f : Run(f, n - 1)
    BY <1>3
  <2> DEFINE g == [k \in 0 .. n |-> IF k < n THEN f[k] ELSE Joins(f[n - 1], units[n])]
  <2>2. Run(g, n)
    BY <2>1
  <2> HIDE DEF g, Run
  <2>3. \E h : Run(h, n)
    BY <2>2, Zenon
  <2>4. n \in 0 .. N
    BY <1>1
  <2>5. QED
    BY <2>3, <2>4
<1> HIDE DEF N, Run, Runs
<1>4. N \in Runs
  <2>1. \A k \in 0 .. N : k \in Runs
    BY <1>1, <1>2, <1>3, CountingUp
  <2>2. QED
    BY <1>1, <2>1
<1>5. PICK f : Run(f, N)
  BY <1>4 DEF Runs
<1>6. \E g : Run(g, N) /\ Joined(units) = g[N]
  BY <1>5 DEF Joined, Run, N
<1>7. PICK g : Run(g, N) /\ Joined(units) = g[N]
  BY <1>6
<1>8. g[0] = NoneJoined /\ \A k \in 1 .. N : g[k] = Joins(g[k - 1], units[k])
  BY <1>1, <1>7 DEF Run
<1>9. QED
  BY <1>7, <1>8 DEF N

LEMMA ShownRun ==
    ASSUME NEW c, NEW T, NEW aus \in Seq(T)
    PROVE  \E f : /\ f[0] = c
                  /\ \A k \in 1 .. Len(aus) : f[k] = Shows(f[k - 1], aus[k])
                  /\ Shown(c, aus) = f[Len(aus)]
<1> DEFINE N == Len(aus)
           Run(f, n) == f = [k \in 0 .. n |->
                               IF k = 0 THEN c ELSE Shows(f[k - 1], aus[k])]
           Runs == {n \in 0 .. N : \E f : Run(f, n)}
<1>1. N \in Nat
  OBVIOUS
<1>2. 0 \in Runs
  <2> DEFINE g == [k \in 0 .. 0 |-> c]
  <2>1. Run(g, 0)
    OBVIOUS
  <2> HIDE DEF g, Run
  <2>2. \E h : Run(h, 0)
    BY <2>1, Zenon
  <2>3. QED
    BY <1>1, <2>2
<1>3. ASSUME NEW n \in 1 .. N, n - 1 \in Runs
      PROVE  n \in Runs
  <2>1. PICK f : Run(f, n - 1)
    BY <1>3
  <2> DEFINE g == [k \in 0 .. n |-> IF k < n THEN f[k] ELSE Shows(f[n - 1], aus[n])]
  <2>2. Run(g, n)
    BY <2>1
  <2> HIDE DEF g, Run
  <2>3. \E h : Run(h, n)
    BY <2>2, Zenon
  <2>4. n \in 0 .. N
    BY <1>1
  <2>5. QED
    BY <2>3, <2>4
<1> HIDE DEF N, Run, Runs
<1>4. N \in Runs
  <2>1. \A k \in 0 .. N : k \in Runs
    BY <1>1, <1>2, <1>3, CountingUp
  <2>2. QED
    BY <1>1, <2>1
<1>5. PICK f : Run(f, N)
  BY <1>4 DEF Runs
<1>6. \E g : Run(g, N) /\ Shown(c, aus) = g[N]
  BY <1>5 DEF Shown, Run, N
<1>7. PICK g : Run(g, N) /\ Shown(c, aus) = g[N]
  BY <1>6
<1>8. g[0] = c /\ \A k \in 1 .. N : g[k] = Shows(g[k - 1], aus[k])
  BY <1>1, <1>7 DEF Run
<1>9. QED
  BY <1>7, <1>8 DEF N

LEMMA InterceptedRun ==
    ASSUME NEW h, NEW T, NEW units \in Seq(T)
    PROVE  \E f : /\ f[0] = h
                  /\ \A k \in 1 .. Len(units) : f[k] = Intercept(f[k - 1], units[k])
                  /\ Intercepted(h, units) = f[Len(units)]
<1> DEFINE N == Len(units)
           Run(f, n) == f = [k \in 0 .. n |->
                               IF k = 0 THEN h ELSE Intercept(f[k - 1], units[k])]
           Runs == {n \in 0 .. N : \E f : Run(f, n)}
<1>1. N \in Nat
  OBVIOUS
<1>2. 0 \in Runs
  <2> DEFINE g == [k \in 0 .. 0 |-> h]
  <2>1. Run(g, 0)
    OBVIOUS
  <2> HIDE DEF g, Run
  <2>2. \E e : Run(e, 0)
    BY <2>1, Zenon
  <2>3. QED
    BY <1>1, <2>2
<1>3. ASSUME NEW n \in 1 .. N, n - 1 \in Runs
      PROVE  n \in Runs
  <2>1. PICK f : Run(f, n - 1)
    BY <1>3
  <2> DEFINE g == [k \in 0 .. n |-> IF k < n THEN f[k] ELSE Intercept(f[n - 1], units[n])]
  <2>2. Run(g, n)
    BY <2>1
  <2> HIDE DEF g, Run
  <2>3. \E e : Run(e, n)
    BY <2>2, Zenon
  <2>4. n \in 0 .. N
    BY <1>1
  <2>5. QED
    BY <2>3, <2>4
<1> HIDE DEF N, Run, Runs
<1>4. N \in Runs
  <2>1. \A k \in 0 .. N : k \in Runs
    BY <1>1, <1>2, <1>3, CountingUp
  <2>2. QED
    BY <1>1, <2>1
<1>5. PICK f : Run(f, N)
  BY <1>4 DEF Runs
<1>6. \E g : Run(g, N) /\ Intercepted(h, units) = g[N]
  BY <1>5 DEF Intercepted, Run, N
<1>7. PICK g : Run(g, N) /\ Intercepted(h, units) = g[N]
  BY <1>6
<1>8. g[0] = h /\ \A k \in 1 .. N : g[k] = Intercept(g[k - 1], units[k])
  BY <1>1, <1>7 DEF Run
<1>9. QED
  BY <1>7, <1>8 DEF N

TakesUnit(s, u) == IF IsConfig(u) THEN s ELSE Append(s, u)

LEMMA ForwardRun ==
    ASSUME NEW T, NEW units \in Seq(T)
    PROVE  \E f : /\ f[0] = <<>>
                  /\ \A k \in 1 .. Len(units) : f[k] = TakesUnit(f[k - 1], units[k])
                  /\ Forward(units) = f[Len(units)]
<1> DEFINE N == Len(units)
           Run(f, n) == f = [k \in 0 .. n |->
                               IF k = 0 THEN <<>> ELSE TakesUnit(f[k - 1], units[k])]
           Runs == {n \in 0 .. N : \E f : Run(f, n)}
<1>1. N \in Nat
  OBVIOUS
<1>2. 0 \in Runs
  <2> DEFINE g == [k \in 0 .. 0 |-> <<>>]
  <2>1. Run(g, 0)
    OBVIOUS
  <2> HIDE DEF g, Run
  <2>2. \E h : Run(h, 0)
    BY <2>1, Zenon
  <2>3. QED
    BY <1>1, <2>2
<1>3. ASSUME NEW n \in 1 .. N, n - 1 \in Runs
      PROVE  n \in Runs
  <2>1. PICK f : Run(f, n - 1)
    BY <1>3
  <2> DEFINE g == [k \in 0 .. n |-> IF k < n THEN f[k] ELSE TakesUnit(f[n - 1], units[n])]
  <2>2. Run(g, n)
    BY <2>1
  <2> HIDE DEF g, Run
  <2>3. \E h : Run(h, n)
    BY <2>2, Zenon
  <2>4. n \in 0 .. N
    BY <1>1
  <2>5. QED
    BY <2>3, <2>4
<1> HIDE DEF N, Run, Runs
<1>4. N \in Runs
  <2>1. \A k \in 0 .. N : k \in Runs
    BY <1>1, <1>2, <1>3, CountingUp
  <2>2. QED
    BY <1>1, <2>1
<1>5. PICK f : Run(f, N)
  BY <1>4 DEF Runs
<1>6. \E g : Run(g, N) /\ Forward(units) = g[N]
  BY <1>5 DEF Forward, TakesUnit, Run, N
<1>7. PICK g : Run(g, N) /\ Forward(units) = g[N]
  BY <1>6
<1>8. g[0] = <<>> /\ \A k \in 1 .. N : g[k] = TakesUnit(g[k - 1], units[k])
  BY <1>1, <1>7 DEF Run
<1>9. QED
  BY <1>7, <1>8 DEF N

-----------------------------------------------------------------------------
(***************************************************************************)
(* What goes on to the page is what the chunk holds besides sets.          *)
(***************************************************************************)
LEMMA ForwardType ==
    ASSUME NEW V, NEW units \in Seq(V)
    PROVE  Forward(units) \in Seq({u \in V : ~IsConfig(u)})
<1> DEFINE W == {u \in V : ~IsConfig(u)}
           N == Len(units)
<1>1. N \in Nat /\ \A k \in 1 .. N : units[k] \in V
  OBVIOUS
<1>2. PICK f : /\ f[0] = <<>>
               /\ \A k \in 1 .. N : f[k] = TakesUnit(f[k - 1], units[k])
               /\ Forward(units) = f[N]
  BY ForwardRun
<1> DEFINE Q == {k \in 0 .. N : f[k] \in Seq(W)}
<1>3. 0 \in Q
  <2>1. <<>> \in Seq(W)
    BY EmptySeq
  <2>2. f[0] \in Seq(W)
    BY <1>2, <2>1, Zenon
  <2>3. QED
    BY <1>1, <2>2
<1>4. ASSUME NEW k \in 1 .. N, k - 1 \in Q
      PROVE  k \in Q
  <2>1. f[k] = TakesUnit(f[k - 1], units[k]) /\ f[k - 1] \in Seq(W) /\ units[k] \in V
    BY <1>1, <1>2, <1>4
  <2>2. TakesUnit(f[k - 1], units[k]) \in Seq(W)
    BY <2>1 DEF TakesUnit
  <2>3. QED
    BY <1>1, <2>1, <2>2
<1> HIDE DEF Q, W, N
<1>5. \A k \in 0 .. N : k \in Q
  BY <1>1, <1>3, <1>4, CountingUp
<1>6. QED
  BY <1>1, <1>2, <1>5 DEF Q, W

Extends(s, t, u) == TakesUnit(s \o t, u) = s \o TakesUnit(t, u)

LEMMA TakesConcat ==
    ASSUME NEW V, NEW s \in Seq(V), NEW t \in Seq(V), NEW u \in V
    PROVE  Extends(s, t, u)
<1>1. Append(s \o t, u) = s \o Append(t, u)
  OBVIOUS
<1>2. QED
  BY <1>1, Zenon DEF Extends, TakesUnit

LEMMA ForwardConcat ==
    ASSUME NEW V, NEW a \in Seq(V), NEW b \in Seq(V)
    PROVE  Forward(a \o b) = Forward(a) \o Forward(b)
<1> DEFINE K == Len(a)
           N == Len(b)
           c == a \o b
<1>1. /\ K \in Nat /\ N \in Nat /\ c \in Seq(V) /\ Len(c) = K + N
      /\ \A k \in 1 .. K : c[k] = a[k] /\ a[k] \in V
      /\ \A k \in 1 .. N : c[K + k] = b[k] /\ b[k] \in V
  OBVIOUS
<1> HIDE DEF c
<1>2. PICK f : /\ f[0] = <<>>
               /\ \A k \in 1 .. K : f[k] = TakesUnit(f[k - 1], a[k])
               /\ Forward(a) = f[K]
  BY ForwardRun
<1>3. PICK g : /\ g[0] = <<>>
               /\ \A k \in 1 .. N : g[k] = TakesUnit(g[k - 1], b[k])
               /\ Forward(b) = g[N]
  BY ForwardRun
<1>4. PICK h : /\ h[0] = <<>>
               /\ \A k \in 1 .. Len(c) : h[k] = TakesUnit(h[k - 1], c[k])
               /\ Forward(c) = h[Len(c)]
  BY <1>1, ForwardRun
<1> HIDE DEF K, N
<1> DEFINE P == {k \in 0 .. K : h[k] = f[k] /\ f[k] \in Seq(V)}
<1>5. \A k \in 0 .. K : k \in P
  <2>1. 0 \in P
    <3>1. <<>> \in Seq(V)
      BY EmptySeq
    <3>2. h[0] = f[0] /\ f[0] \in Seq(V)
      BY <1>2, <1>4, <3>1, Zenon
    <3>3. QED
      BY <1>1, <3>2
  <2>2. ASSUME NEW k \in 1 .. K, k - 1 \in P
        PROVE  k \in P
    <3>1. k \in 1 .. Len(c)
      BY <1>1
    <3>2. /\ f[k] = TakesUnit(f[k - 1], a[k]) /\ h[k] = TakesUnit(h[k - 1], a[k]) /\ h[k - 1] = f[k - 1]
          /\ f[k - 1] \in Seq(V) /\ a[k] \in V
      BY <1>1, <1>2, <1>4, <2>2, <3>1
    <3>3. TakesUnit(f[k - 1], a[k]) \in Seq(V)
      BY <3>2 DEF TakesUnit
    <3>4. QED
      BY <1>1, <3>2, <3>3
  <2> HIDE DEF P
  <2>3. QED
    BY <1>1, <2>1, <2>2, CountingUp
<1>6. h[K] = f[K] /\ f[K] \in Seq(V)
  BY <1>1, <1>5
<1> HIDE DEF P
<1> DEFINE Q == {k \in 0 .. N : h[K + k] = f[K] \o g[k] /\ g[k] \in Seq(V)}
<1>7. \A k \in 0 .. N : k \in Q
  <2>1. 0 \in Q
    <3>1. f[K] \o <<>> = f[K] /\ <<>> \in Seq(V)
      BY <1>6
    <3>2. h[K] = f[K] \o g[0] /\ g[0] \in Seq(V)
      BY <1>3, <1>6, <3>1, Zenon
    <3>3. K + 0 = K /\ 0 \in 0 .. N
      BY <1>1
    <3>4. h[K + 0] = f[K] \o g[0]
      BY <3>2, <3>3, Zenon
    <3>5. QED
      BY <3>2, <3>3, <3>4, Zenon
  <2>2. ASSUME NEW k \in 1 .. N, k - 1 \in Q
        PROVE  k \in Q
    <3>1. K + k \in 1 .. Len(c) /\ (K + k) - 1 = K + (k - 1)
      BY <1>1
    <3>2. /\ g[k] = TakesUnit(g[k - 1], b[k]) /\ h[K + k] = TakesUnit(h[K + (k - 1)], b[k])
          /\ h[K + (k - 1)] = f[K] \o g[k - 1] /\ g[k - 1] \in Seq(V) /\ b[k] \in V
      BY <1>1, <1>3, <1>4, <2>2, <3>1
    <3>3. TakesUnit(f[K] \o g[k - 1], b[k]) = f[K] \o TakesUnit(g[k - 1], b[k])
      <4>1. f[K] \in Seq(V) /\ g[k - 1] \in Seq(V) /\ b[k] \in V
        BY <1>6, <3>2
      <4>2. Extends(f[K], g[k - 1], b[k])
        BY <4>1, TakesConcat, Zenon
      <4>3. QED
        BY <4>2, Zenon DEF Extends
    <3>4. TakesUnit(g[k - 1], b[k]) \in Seq(V)
      BY <3>2 DEF TakesUnit
    <3>5. h[K + k] = f[K] \o g[k] /\ g[k] \in Seq(V)
      BY <3>2, <3>3, <3>4, Zenon
    <3>6. k \in 0 .. N
      BY <1>1
    <3>7. QED
      BY <3>5, <3>6, Zenon
  <2> HIDE DEF Q
  <2>3. QED
    BY <1>1, <2>1, <2>2, CountingUp
<1> HIDE DEF Q
<1>8. h[K + N] = f[K] \o g[N]
  <2>1. N \in Q
    BY <1>1, <1>7
  <2>2. QED
    BY <2>1 DEF Q
<1>9. QED
  BY <1>1, <1>2, <1>3, <1>4, <1>8 DEF c

LEMMA ForwardAll ==
    ASSUME NEW V, NEW units \in Seq(V), \A k \in 1 .. Len(units) : ~IsConfig(units[k])
    PROVE  Forward(units) = units
<1> DEFINE N == Len(units)
<1>1. N \in Nat /\ \A k \in 1 .. N : units[k] \in V
  OBVIOUS
<1>2. PICK f : /\ f[0] = <<>>
               /\ \A k \in 1 .. N : f[k] = TakesUnit(f[k - 1], units[k])
               /\ Forward(units) = f[N]
  BY ForwardRun
<1> DEFINE Q == {k \in 0 .. N : /\ f[k] \in Seq(V) /\ Len(f[k]) = k
                                /\ \A i \in 1 .. k : f[k][i] = units[i]}
<1>3. 0 \in Q
  <2>1. <<>> \in Seq(V) /\ Len(<<>>) = 0
    OBVIOUS
  <2>2. f[0] \in Seq(V) /\ Len(f[0]) = 0
    BY <1>2, <2>1, Zenon
  <2>3. QED
    BY <1>1, <2>2
<1>4. ASSUME NEW k \in 1 .. N, k - 1 \in Q
      PROVE  k \in Q
  <2>1. /\ f[k] = Append(f[k - 1], units[k]) /\ f[k - 1] \in Seq(V) /\ Len(f[k - 1]) = k - 1
        /\ units[k] \in V /\ \A i \in 1 .. k - 1 : f[k - 1][i] = units[i]
    BY <1>1, <1>2, <1>4 DEF TakesUnit
  <2>2. /\ f[k] \in Seq(V) /\ Len(f[k]) = k /\ f[k][k] = units[k]
        /\ \A i \in 1 .. k - 1 : f[k][i] = units[i]
    BY <2>1
  <2>3. \A i \in 1 .. k : i = k \/ i \in 1 .. k - 1
    OBVIOUS
  <2>4. QED
    BY <1>1, <2>2, <2>3
<1> HIDE DEF Q, N
<1>5. \A k \in 0 .. N : k \in Q
  BY <1>1, <1>3, <1>4, CountingUp
<1>6. f[N] \in Seq(V) /\ Len(f[N]) = N /\ \A i \in 1 .. N : f[N][i] = units[i]
  BY <1>1, <1>5 DEF Q
<1>7. f[N] = units
  BY <1>6, SeqEqual DEF N
<1>8. QED
  BY <1>2, <1>7

LEMMA ForwardNone ==
    ASSUME NEW V, NEW units \in Seq(V), \A k \in 1 .. Len(units) : IsConfig(units[k])
    PROVE  Forward(units) = <<>>
<1> DEFINE N == Len(units)
<1>1. N \in Nat
  OBVIOUS
<1>2. PICK f : /\ f[0] = <<>>
               /\ \A k \in 1 .. N : f[k] = TakesUnit(f[k - 1], units[k])
               /\ Forward(units) = f[N]
  BY ForwardRun
<1> DEFINE Q == {k \in 0 .. N : f[k] = <<>>}
<1>3. 0 \in Q
  BY <1>1, <1>2
<1>4. \A k \in 1 .. N : k - 1 \in Q => k \in Q
  BY <1>1, <1>2 DEF TakesUnit
<1> HIDE DEF Q
<1>5. \A k \in 0 .. N : k \in Q
  BY <1>1, <1>3, <1>4, CountingUp
<1>6. QED
  BY <1>1, <1>2, <1>5 DEF Q

-----------------------------------------------------------------------------
(***************************************************************************)
(* Aggregation: whatever the read, an access unit holds one picture, the   *)
(* pictures follow one another, and what is left of the units is nothing,  *)
(* or one that goes before the next picture.                               *)
(***************************************************************************)
UnitKinds == {"sps", "pps", "sei", "aud", "vcl"}
Units == {u \in [type : UnitKinds, n : Nat, sets : Nat \X Nat] : IsConfig(u) => u.n # 0}
Shot == {u \in Units : ~IsConfig(u)}

\* What may follow a unit: the next picture, or what goes before it.
MayFollow(u, w) == IF u.type = "vcl" THEN w.n = u.n + 1 ELSE w.type = "vcl" /\ w.n = u.n
InOrder(s) == \A i \in 1 .. Len(s) - 1 : MayFollow(s[i], s[i + 1])

\* One picture, the n-th.
HoldsOne(au, n) ==
    \E i \in 1 .. Len(au) : /\ au[i].type = "vcl" /\ au[i].n = n
                            /\ \A j \in 1 .. Len(au) : au[j].type = "vcl" => j = i

CountsFrom(aus, m) == \A i \in 1 .. Len(aus) : HoldsOne(aus[i], (m + i) - 1)

\* The loop of aggregate_aus after a unit u; m is the number of the first picture.
Accumulators(V) == [aus : Seq(Seq(V)), prefix : Seq(V), cur : Seq(V), vcl : BOOLEAN]
After(a, V, m, u) ==
    LET n == m + Len(a.aus)
    IN  /\ a \in Accumulators(V) /\ CountsFrom(a.aus, m)
        /\ u.type = "vcl" => a.vcl /\ u.n = n
        /\ u.type = "aud" => ~a.vcl /\ a.prefix = <<>> /\ a.cur = <<u>> /\ u.n = n
        /\ u.type = "sei" => IF a.vcl THEN u.n = n + 1
                                      ELSE a.prefix = <<u>> /\ a.cur = <<>> /\ u.n = n
        /\ a.vcl => a.prefix = <<>> /\ HoldsOne(a.cur, n)

LEMMA OneMore ==
    ASSUME NEW V, NEW au \in Seq(V), NEW u \in V, NEW n, HoldsOne(au, n), u.type # "vcl"
    PROVE  HoldsOne(Append(au, u), n)
<1> DEFINE p == Append(au, u)
<1>1. /\ Len(p) = Len(au) + 1 /\ Len(au) \in Nat /\ p[Len(au) + 1] = u
      /\ \A i \in 1 .. Len(au) : p[i] = au[i]
  OBVIOUS
<1> HIDE DEF p
<1>2. PICK i \in 1 .. Len(au) : /\ au[i].type = "vcl" /\ au[i].n = n
                                /\ \A j \in 1 .. Len(au) : au[j].type = "vcl" => j = i
  BY DEF HoldsOne
<1>3. i \in 1 .. Len(p) /\ p[i] = au[i]
  BY <1>1
<1>4. \A j \in 1 .. Len(p) : p[j].type = "vcl" => j = i
  <2>1. \A j \in 1 .. Len(p) : j = Len(au) + 1 \/ j \in 1 .. Len(au)
    BY <1>1
  <2>2. QED
    BY <1>1, <1>2, <2>1
<1>5. HoldsOne(p, n)
  BY <1>2, <1>3, <1>4 DEF HoldsOne
<1>6. QED
  BY <1>5 DEF p

LEMMA OneAlone ==
    ASSUME NEW u, u.type = "vcl"
    PROVE  HoldsOne(<<u>>, u.n)
<1>1. Len(<<u>>) = 1 /\ <<u>>[1] = u
  OBVIOUS
<1>2. \A j \in 1 .. 1 : j = 1
  OBVIOUS
<1>3. QED
  BY <1>1, <1>2 DEF HoldsOne

LEMMA OneBehind ==
    ASSUME NEW u, NEW w, u.type # "vcl", w.type = "vcl"
    PROVE  HoldsOne(<<u, w>>, w.n)
<1>1. Len(<<u, w>>) = 2 /\ <<u, w>>[1] = u /\ <<u, w>>[2] = w
  OBVIOUS
<1>2. \A j \in 1 .. 2 : j = 1 \/ j = 2
  OBVIOUS
<1>3. QED
  BY <1>1, <1>2 DEF HoldsOne

LEMMA CountMore ==
    ASSUME NEW V, NEW aus \in Seq(Seq(V)), NEW m \in Nat, CountsFrom(aus, m),
           NEW au \in Seq(V), HoldsOne(au, m + Len(aus))
    PROVE  /\ Append(aus, au) \in Seq(Seq(V)) /\ CountsFrom(Append(aus, au), m)
           /\ Len(Append(aus, au)) = Len(aus) + 1
<1> DEFINE p == Append(aus, au)
<1>1. /\ p \in Seq(Seq(V)) /\ Len(p) = Len(aus) + 1 /\ Len(aus) \in Nat /\ p[Len(aus) + 1] = au
      /\ \A i \in 1 .. Len(aus) : p[i] = aus[i]
  OBVIOUS
<1> HIDE DEF p
<1>2. ASSUME NEW i \in 1 .. Len(p)
      PROVE  HoldsOne(p[i], (m + i) - 1)
  <2>1. CASE i \in 1 .. Len(aus)
    BY <1>1, <2>1 DEF CountsFrom
  <2>2. CASE i = Len(aus) + 1
    <3>1. (m + i) - 1 = m + Len(aus)
      BY <1>1, <2>2
    <3>2. QED
      BY <1>1, <2>2, <3>1
  <2>3. QED
    BY <1>1, <2>1, <2>2
<1>3. CountsFrom(p, m)
  BY <1>2 DEF CountsFrom
<1>4. QED
  BY <1>1, <1>3 DEF p

LEMMA JoinsFirst ==
    ASSUME NEW V \in SUBSET Shot, NEW w \in V
    PROVE  After(Joins(NoneJoined, w), V, w.n, w)
<1> DEFINE a == Joins(NoneJoined, w)
<1>1. w.type \in {"sei", "aud", "vcl"} /\ w.n \in Nat
  BY DEF Shot, Units, UnitKinds, IsConfig
<1>2. <<w>> \in Seq(V) /\ <<>> \in Seq(V) /\ <<>> \in Seq(Seq(V)) /\ Len(<<>>) = 0
  OBVIOUS
<1>3. CountsFrom(<<>>, w.n)
  BY <1>2 DEF CountsFrom
<1>4. w.n + 0 = w.n
  BY <1>1
<1>5. CASE w.type = "aud"
  <2>1. a = [aus |-> <<>>, prefix |-> <<>>, cur |-> <<w>>, vcl |-> FALSE]
    BY <1>5 DEF Joins, NoneJoined
  <2>2. QED
    BY <1>1, <1>2, <1>3, <1>4, <1>5, <2>1 DEF After, Accumulators
<1>6. CASE w.type = "vcl"
  <2>1. a = [aus |-> <<>>, prefix |-> <<>>, cur |-> <<w>>, vcl |-> TRUE]
    <3>1. (<<>> \o <<>>) \o <<w>> = <<w>>
      BY <1>2
    <3>2. QED
      BY <1>6, <3>1 DEF Joins, NoneJoined, Begins
  <2>2. HoldsOne(<<w>>, w.n)
    BY <1>6, OneAlone
  <2>3. QED
    BY <1>1, <1>2, <1>3, <1>4, <1>6, <2>1, <2>2 DEF After, Accumulators
<1>7. CASE w.type = "sei"
  <2>1. a = [aus |-> <<>>, prefix |-> <<w>>, cur |-> <<>>, vcl |-> FALSE]
    <3>1. Append(<<>>, w) = <<w>>
      OBVIOUS
    <3>2. QED
      BY <1>7, <3>1 DEF Joins, NoneJoined
  <2>2. QED
    BY <1>1, <1>2, <1>3, <1>4, <1>7, <2>1 DEF After, Accumulators
<1>8. QED
  BY <1>1, <1>5, <1>6, <1>7

\* The fields of what a step of the loop makes.
Holds(b, V, q, p, c, v) ==
    b \in Accumulators(V) /\ b.aus = q /\ b.prefix = p /\ b.cur = c /\ b.vcl = v

LEMMA ThreeFields ==
    ASSUME NEW A, NEW B, NEW C, NEW a \in [aus : A, prefix : B, cur : B, vcl : C],
           NEW x \in A, NEW p \in B, NEW c \in B, NEW v \in C
    PROVE  /\ LET b == [a EXCEPT !.aus = x, !.prefix = p, !.cur = c]
              IN  /\ b \in [aus : A, prefix : B, cur : B, vcl : C]
                  /\ b.aus = x /\ b.prefix = p /\ b.cur = c /\ b.vcl = a.vcl
           /\ LET b == [a EXCEPT !.cur = c, !.prefix = p, !.vcl = v]
              IN  /\ b \in [aus : A, prefix : B, cur : B, vcl : C]
                  /\ b.aus = a.aus /\ b.prefix = p /\ b.cur = c /\ b.vcl = v
           /\ LET b == [a EXCEPT !.cur = c, !.vcl = v]
              IN  /\ b \in [aus : A, prefix : B, cur : B, vcl : C]
                  /\ b.aus = a.aus /\ b.prefix = a.prefix /\ b.cur = c /\ b.vcl = v
           /\ LET b == [a EXCEPT !.cur = c]
              IN  /\ b \in [aus : A, prefix : B, cur : B, vcl : C]
                  /\ b.aus = a.aus /\ b.prefix = a.prefix /\ b.cur = c /\ b.vcl = a.vcl
OBVIOUS

LEMMA CloseIs ==
    ASSUME NEW V, NEW a \in Accumulators(V)
    PROVE  Holds(Close(a), V, Append(a.aus, a.prefix \o a.cur), <<>>, <<>>, a.vcl)
<1> DEFINE x == Append(a.aus, a.prefix \o a.cur)
           e == <<>>
<1>1. x \in Seq(Seq(V)) /\ e \in Seq(V)
  BY DEF Accumulators
<1>2. Close(a) = [a EXCEPT !.aus = x, !.prefix = e, !.cur = e]
  BY Zenon DEF Close
<1> HIDE DEF x, e
<1>3. Holds([a EXCEPT !.aus = x, !.prefix = e, !.cur = e], V, x, e, e, a.vcl)
  BY <1>1, ThreeFields DEF Holds, Accumulators
<1>4. QED
  BY <1>2, <1>3, Zenon DEF x, e

LEMMA PictureIs ==
    ASSUME NEW V, NEW w \in V, w.type = "vcl", NEW a, Begins(a) \in Accumulators(V)
    PROVE  Holds(Joins(a, w), V, Begins(a).aus, <<>>,
                 (Begins(a).cur \o Begins(a).prefix) \o <<w>>, TRUE)
<1> DEFINE b == Begins(a)
           c == (b.cur \o b.prefix) \o <<w>>
           e == <<>>
<1>1. c \in Seq(V) /\ e \in Seq(V) /\ b \in Accumulators(V)
  BY DEF Accumulators
<1>2. w.type # "aud"
  OBVIOUS
<1>3. Joins(a, w) = [b EXCEPT !.cur = c, !.prefix = e, !.vcl = TRUE]
  BY <1>2, Zenon DEF Joins
<1> HIDE DEF b, c, e
<1>4. Holds([b EXCEPT !.cur = c, !.prefix = e, !.vcl = TRUE], V, b.aus, e, c, TRUE)
  BY <1>1, ThreeFields DEF Holds, Accumulators
<1>5. QED
  BY <1>3, <1>4, Zenon DEF b, c, e

LEMMA SeparatorIs ==
    ASSUME NEW V, NEW w \in V, w.type = "aud", NEW a, a.cur # <<>>, Close(a) \in Accumulators(V)
    PROVE  Holds(Joins(a, w), V, Close(a).aus, Close(a).prefix, <<w>>, FALSE)
<1> DEFINE b == Close(a)
           c == <<w>>
<1>1. c \in Seq(V) /\ b \in Accumulators(V)
  OBVIOUS
<1>2. Joins(a, w) = [b EXCEPT !.cur = c, !.vcl = FALSE]
  BY Zenon DEF Joins
<1> HIDE DEF b, c
<1>3. Holds([b EXCEPT !.cur = c, !.vcl = FALSE], V, b.aus, b.prefix, c, FALSE)
  BY <1>1, ThreeFields DEF Holds, Accumulators
<1>4. QED
  BY <1>2, <1>3, Zenon DEF b, c

LEMMA OtherIs ==
    ASSUME NEW V, NEW w \in V, w.type = "sei", NEW a \in Accumulators(V), a.cur # <<>>
    PROVE  Holds(Joins(a, w), V, a.aus, a.prefix, Append(a.cur, w), a.vcl)
<1> DEFINE c == Append(a.cur, w)
<1>1. c \in Seq(V)
  BY DEF Accumulators
<1>2. w.type # "aud" /\ w.type # "vcl"
  OBVIOUS
<1>3. Joins(a, w) = [a EXCEPT !.cur = c]
  BY <1>2, Zenon DEF Joins
<1> HIDE DEF c
<1>4. Holds([a EXCEPT !.cur = c], V, a.aus, a.prefix, c, a.vcl)
  BY <1>1, ThreeFields DEF Holds, Accumulators
<1>5. QED
  BY <1>3, <1>4, Zenon DEF c

\* What a picture or a separator closes is an access unit of one picture.
LEMMA Closed ==
    ASSUME NEW V, NEW m \in Nat, NEW u, NEW a, After(a, V, m, u), a.vcl
    PROVE  LET q == Append(a.aus, a.cur)
           IN  /\ Holds(Close(a), V, q, <<>>, <<>>, TRUE)
               /\ q \in Seq(Seq(V)) /\ CountsFrom(q, m) /\ Len(q) = Len(a.aus) + 1
<1>1. a \in Accumulators(V) /\ a.prefix = <<>> /\ HoldsOne(a.cur, m + Len(a.aus)) /\ CountsFrom(a.aus, m)
  BY DEF After
<1>2. a.aus \in Seq(Seq(V)) /\ a.cur \in Seq(V) /\ a.vcl = TRUE
  BY <1>1 DEF Accumulators
<1>3. a.prefix \o a.cur = a.cur
  BY <1>1, <1>2
<1>4. Holds(Close(a), V, Append(a.aus, a.cur), <<>>, <<>>, TRUE)
  <2>1. Holds(Close(a), V, Append(a.aus, a.prefix \o a.cur), <<>>, <<>>, a.vcl)
    BY <1>1, CloseIs
  <2>2. QED
    BY <1>2, <1>3, <2>1, Zenon
<1>5. QED
  BY <1>1, <1>2, <1>4, CountMore

\* The loop behind a picture, a separator, and what else joins an access unit.
LEMMA AfterPicture ==
    ASSUME NEW V, NEW m, NEW w, NEW b, NEW q, NEW c, w.type = "vcl",
           Holds(b, V, q, <<>>, c, TRUE), CountsFrom(q, m), HoldsOne(c, w.n), w.n = m + Len(q)
    PROVE  After(b, V, m, w)
BY Zenon DEF After, Holds

LEMMA AfterSeparator ==
    ASSUME NEW V, NEW m, NEW w, NEW b, NEW q, w.type = "aud",
           Holds(b, V, q, <<>>, <<w>>, FALSE), CountsFrom(q, m), w.n = m + Len(q)
    PROVE  After(b, V, m, w)
BY Zenon DEF After, Holds

LEMMA AfterOther ==
    ASSUME NEW V, NEW m, NEW w, NEW b, NEW q, NEW c, w.type = "sei",
           Holds(b, V, q, <<>>, c, TRUE), CountsFrom(q, m), HoldsOne(c, m + Len(q)),
           w.n = (m + Len(q)) + 1
    PROVE  After(b, V, m, w)
BY Zenon DEF After, Holds

LEMMA TwoInRow ==
    ASSUME NEW V, NEW u \in V, NEW w \in V
    PROVE  /\ <<u>> \o <<w>> = <<u, w>>
           /\ (<<u>> \o <<>>) \o <<w>> = <<u, w>> /\ (<<>> \o <<u>>) \o <<w>> = <<u, w>>
<1>1. <<u>> \in Seq(V) /\ <<w>> \in Seq(V) /\ <<u, w>> \in Seq(V)
  OBVIOUS
<1>2. <<u>> \o <<>> = <<u>> /\ <<>> \o <<u>> = <<u>>
  BY <1>1
<1>3. <<u>> \o <<w>> = <<u, w>>
  <2> DEFINE p == <<u>> \o <<w>>
             q == <<u, w>>
  <2>1. p \in Seq(V) /\ q \in Seq(V) /\ Len(p) = 2 /\ Len(q) = 2
    BY <1>1
  <2>2. p[1] = u /\ p[2] = w /\ q[1] = u /\ q[2] = w
    BY <1>1
  <2> HIDE DEF p, q
  <2>3. \A i \in 1 .. 2 : i = 1 \/ i = 2
    OBVIOUS
  <2>4. p = q
    BY <2>1, <2>2, <2>3, SeqEqual
  <2>5. QED
    BY <2>4 DEF p, q
<1>4. QED
  BY <1>2, <1>3, Zenon

LEMMA JoinsNext ==
    ASSUME NEW V \in SUBSET Shot, NEW m \in Nat, NEW u \in V, NEW w \in V, NEW a,
           After(a, V, m, u), MayFollow(u, w)
    PROVE  After(Joins(a, w), V, m, w)
<1> DEFINE n == m + Len(a.aus)
           q == Append(a.aus, a.cur)
           b == Joins(a, w)
<1>1. /\ w.type \in {"sei", "aud", "vcl"} /\ w.n \in Nat
      /\ u.type \in {"sei", "aud", "vcl"} /\ u.n \in Nat
  BY DEF Shot, Units, UnitKinds, IsConfig
<1>2. <<w>> \in Seq(V) /\ <<>> \in Seq(V)
  OBVIOUS
<1>3. /\ a \in Accumulators(V) /\ a.aus \in Seq(Seq(V)) /\ a.prefix \in Seq(V)
      /\ a.cur \in Seq(V) /\ a.vcl \in BOOLEAN /\ Len(a.aus) \in Nat /\ n \in Nat
  BY DEF After, Accumulators
<1>4. CASE a.vcl
  <2>1. /\ Holds(Close(a), V, q, <<>>, <<>>, TRUE)
        /\ q \in Seq(Seq(V)) /\ CountsFrom(q, m) /\ Len(q) = Len(a.aus) + 1
    BY <1>4, Closed
  <2>2. m + Len(q) = n + 1
    BY <1>3, <2>1
  <2>3. a.prefix = <<>> /\ HoldsOne(a.cur, n) /\ CountsFrom(a.aus, m) /\ u.type # "aud"
    BY <1>4, Zenon DEF After
  <2>4. a.cur # <<>>
    <3>1. Len(a.cur) # 0
      BY <1>3, <2>3 DEF HoldsOne
    <3>2. QED
      BY <3>1
  <2>5. u.n = IF u.type = "vcl" THEN n ELSE n + 1
    BY <1>1, <1>4, <2>3 DEF After
  <2> HIDE DEF q, n
  <2>6. CASE w.type = "vcl"
    <3>1. Holds(b, V, q, <<>>, <<w>>, TRUE)
      <4>1. (<<>> \o <<>>) \o <<w>> = <<w>>
        BY <1>2
      <4>2. Begins(a) = Close(a)
        BY <1>4 DEF Begins
      <4>3. Holds(Begins(a), V, q, <<>>, <<>>, TRUE)
        BY <2>1, <4>2, Zenon
      <4> HIDE DEF b
      <4>4. Holds(b, V, Begins(a).aus, <<>>, (Begins(a).cur \o Begins(a).prefix) \o <<w>>, TRUE)
        <5>1. Begins(a) \in Accumulators(V)
          BY <4>3 DEF Holds
        <5>2. QED
          BY <2>6, <5>1, PictureIs DEF b
      <4>5. QED
        BY <4>1, <4>3, <4>4, Zenon DEF Holds
    <3>2. HoldsOne(<<w>>, w.n)
      BY <2>6, OneAlone
    <3>3. w.n = n + 1 /\ w.n = m + Len(q)
      BY <1>1, <1>3, <2>2, <2>5, <2>6 DEF MayFollow
    <3> HIDE DEF b
    <3>4. QED
      <4>1. CountsFrom(q, m)
        BY <2>1
      <4>2. QED
        BY <2>6, <3>1, <3>2, <3>3, <4>1, AfterPicture, Zenon DEF b
  <2>7. CASE w.type = "aud"
    <3>1. Holds(b, V, q, <<>>, <<w>>, FALSE)
      <4> HIDE DEF b
      <4>1. Holds(b, V, Close(a).aus, Close(a).prefix, <<w>>, FALSE)
        <5>1. Close(a) \in Accumulators(V)
          BY <2>1 DEF Holds
        <5>2. QED
          BY <2>4, <2>7, <5>1, SeparatorIs DEF b
      <4>2. QED
        BY <2>1, <4>1, Zenon DEF Holds
    <3>2. w.n = n + 1 /\ w.n = m + Len(q)
      BY <1>1, <1>3, <2>2, <2>5, <2>7 DEF MayFollow
    <3> HIDE DEF b
    <3>3. QED
      <4>1. CountsFrom(q, m)
        BY <2>1
      <4>2. QED
        BY <2>7, <3>1, <3>2, <4>1, AfterSeparator, Zenon DEF b
  <2>8. CASE w.type = "sei"
    <3>1. Holds(b, V, a.aus, <<>>, Append(a.cur, w), TRUE)
      <4> HIDE DEF b
      <4>1. Holds(b, V, a.aus, a.prefix, Append(a.cur, w), a.vcl)
        BY <1>3, <2>4, <2>8, OtherIs DEF b
      <4>2. a.vcl = TRUE
        BY <1>3, <1>4
      <4>3. QED
        BY <2>3, <4>1, <4>2, Zenon
    <3>2. HoldsOne(Append(a.cur, w), n)
      BY <1>3, <2>3, <2>8, OneMore
    <3>3. w.n = n + 1
      BY <1>1, <1>3, <2>5, <2>8 DEF MayFollow
    <3> HIDE DEF b
    <3>4. QED
      BY <2>3, <2>8, <3>1, <3>2, <3>3, AfterOther, Zenon DEF b, n
  <2>9. QED
    BY <1>1, <2>6, <2>7, <2>8
<1>5. CASE ~a.vcl
  <2>1. u.type # "vcl" /\ CountsFrom(a.aus, m) /\ u.n = n
    <3>1. u.type # "vcl" /\ CountsFrom(a.aus, m)
      BY <1>5, Zenon DEF After
    <3>2. u.n = n
      BY <1>1, <1>5, <3>1, Zenon DEF After
    <3>3. QED
      BY <3>1, <3>2
  <2>2. w.type = "vcl" /\ w.n = n
    BY <2>1 DEF MayFollow
  <2>3. Begins(a) = a
    BY <1>5, Zenon DEF Begins
  <2>4. (a.cur \o a.prefix) \o <<w>> = <<u, w>>
    <3>1. (<<u>> \o <<>>) \o <<w>> = <<u, w>> /\ (<<>> \o <<u>>) \o <<w>> = <<u, w>>
      BY TwoInRow, Zenon
    <3>2. (a.cur = <<u>> /\ a.prefix = <<>>) \/ (a.cur = <<>> /\ a.prefix = <<u>>)
      <4>1. CASE u.type = "aud"
        BY <4>1, Zenon DEF After
      <4>2. CASE u.type = "sei"
        BY <1>5, <4>2, Zenon DEF After
      <4>3. QED
        BY <1>1, <2>1, <4>1, <4>2
    <3>3. QED
      BY <3>1, <3>2, Zenon
  <2> HIDE DEF n
  <2>5. Holds(b, V, a.aus, <<>>, <<u, w>>, TRUE)
    <3> HIDE DEF b
    <3>1. Holds(b, V, Begins(a).aus, <<>>, (Begins(a).cur \o Begins(a).prefix) \o <<w>>, TRUE)
      BY <1>3, <2>2, <2>3, PictureIs DEF b
    <3>2. QED
      BY <2>3, <2>4, <3>1, Zenon
  <2>6. HoldsOne(<<u, w>>, w.n)
    BY <2>1, <2>2, OneBehind
  <2> HIDE DEF b
  <2>7. QED
    BY <2>1, <2>2, <2>5, <2>6, AfterPicture, Zenon DEF b, n
<1>6. QED
  BY <1>3, <1>4, <1>5

\* What aggregate_aus makes of the units in hand.
LEMMA Aggregated ==
    ASSUME NEW V \in SUBSET Shot, NEW units \in Seq(V), InOrder(units), units # <<>>
    PROVE  LET a == Aggregate(units)
               m == units[1].n
               u == units[Len(units)]
           IN  /\ a.aus \in Seq(Seq(V)) /\ CountsFrom(a.aus, m)
               /\ u.n = IF u.type = "vcl" THEN (m + Len(a.aus)) - 1 ELSE m + Len(a.aus)
               /\ a.rest = <<>> \/ (u.type # "vcl" /\ a.rest = <<u>>)
<1> DEFINE N == Len(units)
           m == units[1].n
           u == units[N]
           a == Joined(units)
<1>1. N \in Nat /\ N >= 1 /\ \A k \in 1 .. N : units[k] \in V
  OBVIOUS
<1>2. PICK f : /\ f[0] = NoneJoined
               /\ \A k \in 1 .. N : f[k] = Joins(f[k - 1], units[k])
               /\ Joined(units) = f[N]
  BY JoinedRun
<1>3. m \in Nat
  BY <1>1 DEF Shot, Units
<1> DEFINE Q == {k \in 0 .. N : k # 0 => After(f[k], V, m, units[k])}
<1> HIDE DEF N, m, u, a
<1>4. \A k \in 0 .. N : k \in Q
  <2>1. 0 \in Q
    BY <1>1
  <2>2. ASSUME NEW k \in 1 .. N, k - 1 \in Q
        PROVE  k \in Q
    <3>1. f[k] = Joins(f[k - 1], units[k]) /\ units[k] \in V /\ k \in 0 .. N
      BY <1>1, <1>2
    <3>2. CASE k = 1
      <4>1. After(Joins(NoneJoined, units[1]), V, m, units[1])
        BY <3>1, <3>2, JoinsFirst DEF m
      <4>2. f[1] = Joins(NoneJoined, units[1])
        BY <1>2, <3>1, <3>2
      <4>3. QED
        BY <3>1, <3>2, <4>1, <4>2
    <3>3. CASE k # 1
      <4>1. k - 1 \in 1 .. N - 1 /\ k - 1 \in 1 .. N /\ (k - 1) + 1 = k /\ k - 1 # 0
        BY <1>1, <3>3
      <4>2. MayFollow(units[k - 1], units[k])
        BY <4>1 DEF InOrder, N
      <4>3. After(f[k - 1], V, m, units[k - 1]) /\ units[k - 1] \in V
        BY <1>1, <2>2, <4>1
      <4>4. After(f[k], V, m, units[k])
        BY <1>3, <3>1, <4>2, <4>3, JoinsNext
      <4>5. QED
        BY <3>1, <4>4
    <3>4. QED
      BY <3>2, <3>3
  <2> HIDE DEF Q
  <2>3. QED
    BY <1>1, <2>1, <2>2, CountingUp
<1>5. After(a, V, m, u) /\ u \in V
  BY <1>1, <1>2, <1>4 DEF Q, a, u
<1> HIDE DEF Q
<1>6. /\ u.type \in {"sei", "aud", "vcl"} /\ u.n \in Nat
      /\ a \in Accumulators(V) /\ a.aus \in Seq(Seq(V)) /\ Len(a.aus) \in Nat
      /\ a.cur \in Seq(V) /\ CountsFrom(a.aus, m)
  BY <1>5 DEF Shot, Units, UnitKinds, IsConfig, After, Accumulators
<1>7. CASE a.vcl
  <2> DEFINE q == Append(a.aus, a.cur)
  <2>1. a.prefix = <<>> /\ u.n = IF u.type = "vcl" THEN m + Len(a.aus) ELSE m + Len(a.aus) + 1
    BY <1>5, <1>6, <1>7 DEF After
  <2>2. q \in Seq(Seq(V)) /\ CountsFrom(q, m) /\ Len(q) = Len(a.aus) + 1
    BY <1>3, <1>5, <1>7, Closed
  <2>3. Aggregate(units) = [aus |-> q, rest |-> <<>>]
    <3>1. a.prefix \o a.cur = a.cur
      BY <1>6, <2>1
    <3>2. QED
      BY <1>7, <3>1 DEF Aggregate, a
  <2> HIDE DEF q
  <2>4. u.n = IF u.type = "vcl" THEN (m + Len(q)) - 1 ELSE m + Len(q)
    BY <1>3, <1>6, <2>1, <2>2
  <2> DEFINE g == Aggregate(units)
  <2>5. g.aus = q /\ g.rest = <<>>
    BY <2>3
  <2> HIDE DEF g
  <2>6. /\ g.aus \in Seq(Seq(V)) /\ CountsFrom(g.aus, m)
        /\ u.n = IF u.type = "vcl" THEN (m + Len(g.aus)) - 1 ELSE m + Len(g.aus)
    BY <2>2, <2>4, <2>5, Zenon
  <2>7. QED
    BY <2>5, <2>6 DEF u, m, N, g
<1>8. CASE ~a.vcl
  <2>1. u.type # "vcl" /\ u.n = m + Len(a.aus) /\ a.prefix \o a.cur = <<u>>
    <3>1. <<u>> \o <<>> = <<u>> /\ <<>> \o <<u>> = <<u>>
      OBVIOUS
    <3>2. u.type # "vcl"
      BY <1>5, <1>8, Zenon DEF After
    <3>3. /\ u.n = m + Len(a.aus)
          /\ (a.prefix = <<>> /\ a.cur = <<u>>) \/ (a.prefix = <<u>> /\ a.cur = <<>>)
      <4>1. CASE u.type = "aud"
        BY <1>5, <4>1, Zenon DEF After
      <4>2. CASE u.type = "sei"
        BY <1>5, <1>8, <4>2, Zenon DEF After
      <4>3. QED
        BY <1>6, <3>2, <4>1, <4>2
    <3>4. QED
      BY <3>1, <3>2, <3>3, Zenon
  <2>2. Aggregate(units) = [aus |-> a.aus, rest |-> <<u>>]
    BY <1>8, <2>1 DEF Aggregate, a
  <2>3. QED
    BY <1>6, <2>1, <2>2 DEF u, m, N
<1>9. QED
  BY <1>6, <1>7, <1>8

-----------------------------------------------------------------------------
(***************************************************************************)
(* What the page has had after some access units.                          *)
(***************************************************************************)
Clients == [conf : Nat \X Nat, last : Nat, wrong : BOOLEAN, gap : BOOLEAN,
            odd : BOOLEAN, mixed : BOOLEAN]

LEMMA FourFields ==
    ASSUME NEW A, NEW B, NEW C,
           NEW c \in [conf : A, last : B, wrong : C, gap : C, odd : C, mixed : C],
           NEW n \in B, NEW w \in C, NEW x \in C, NEW g \in C
    PROVE  LET d == [c EXCEPT !.last = n, !.wrong = w, !.mixed = x, !.gap = g]
           IN  /\ d \in [conf : A, last : B, wrong : C, gap : C, odd : C, mixed : C]
               /\ d.conf = c.conf /\ d.last = n /\ d.wrong = w /\ d.gap = g /\ d.odd = c.odd
OBVIOUS

\* One access unit of one picture.
LEMMA ShowsOne ==
    ASSUME NEW V \in SUBSET Shot, NEW au \in Seq(V), NEW n \in Nat, HoldsOne(au, n),
           NEW c \in Clients
    PROVE  LET d == Shows(c, au)
           IN  /\ d \in Clients /\ d.conf = c.conf /\ d.last = n /\ d.odd = c.odd
               /\ ~c.gap /\ (c.last # 0 => n = c.last + 1) => ~d.gap
               /\ ~c.wrong /\ (\A u \in V : u.sets = c.conf) => ~d.wrong
<1>1. PICK i \in 1 .. Len(au) : /\ au[i].type = "vcl" /\ au[i].n = n
                                /\ \A j \in 1 .. Len(au) : au[j].type = "vcl" => j = i
  BY DEF HoldsOne
<1>2. DOMAIN au = 1 .. Len(au) /\ au[i] \in V
  OBVIOUS
<1>3. Pictures(au) = {i}
  BY <1>1, <1>2 DEF Pictures
<1> DEFINE p == au[i]
           w == c.wrong \/ p.sets # c.conf
           x == c.mixed \/ \E j \in DOMAIN au : au[j].n # p.n
           g == c.gap \/ (c.last # 0 /\ p.n # c.last + 1)
           d == [c EXCEPT !.last = n, !.wrong = w, !.mixed = x, !.gap = g]
<1>4. Shows(c, au) = d
  <2>1. (CHOOSE j \in Pictures(au) : TRUE) = i
    BY <1>3
  <2>2. \E j \in Pictures(au) : Pictures(au) = {j}
    BY <1>3
  <2>3. Shows(c, au) = [c EXCEPT !.last = p.n, !.wrong = @ \/ p.sets # c.conf,
                                 !.mixed = @ \/ \E j \in DOMAIN au : au[j].n # p.n,
                                 !.gap = @ \/ (c.last # 0 /\ p.n # c.last + 1)]
    BY <2>1, <2>2, Zenon DEF Shows
  <2>4. p.n = n
    BY <1>1
  <2>5. QED
    BY <2>3, <2>4, Zenon
<1>5. w \in BOOLEAN /\ x \in BOOLEAN /\ g \in BOOLEAN
  BY DEF Clients
<1>6. g => c.gap \/ (c.last # 0 /\ n # c.last + 1)
  BY <1>1
<1>7. w => c.wrong \/ ~(\A u \in V : u.sets = c.conf)
  BY <1>2
<1> HIDE DEF w, x, g
<1>8. d \in Clients /\ d.conf = c.conf /\ d.last = n /\ d.wrong = w /\ d.gap = g /\ d.odd = c.odd
  BY <1>5, FourFields DEF Clients
<1> HIDE DEF d
<1>9. QED
  BY <1>4, <1>6, <1>7, <1>8, Zenon

LEMMA ShownFacts ==
    ASSUME NEW V \in SUBSET Shot, NEW aus \in Seq(Seq(V)), NEW m \in Nat, CountsFrom(aus, m),
           NEW c \in Clients
    PROVE  LET d == Shown(c, aus)
           IN  /\ d \in Clients /\ d.conf = c.conf /\ d.odd = c.odd
               /\ d.last = IF Len(aus) = 0 THEN c.last ELSE (m + Len(aus)) - 1
               /\ ~c.gap /\ (c.last # 0 => m = c.last + 1) => ~d.gap
               /\ ~c.wrong /\ (\A u \in V : u.sets = c.conf) => ~d.wrong
<1> DEFINE N == Len(aus)
           Linked == ~c.gap /\ (c.last # 0 => m = c.last + 1)
           Right == ~c.wrong /\ (\A u \in V : u.sets = c.conf)
           Good(d, k) == /\ d \in Clients /\ d.conf = c.conf /\ d.odd = c.odd
                         /\ d.last = IF k = 0 THEN c.last ELSE (m + k) - 1
                         /\ Linked => ~d.gap
                         /\ Right => ~d.wrong
<1>1. N \in Nat
  OBVIOUS
<1>2. PICK f : /\ f[0] = c
               /\ \A k \in 1 .. N : f[k] = Shows(f[k - 1], aus[k])
               /\ Shown(c, aus) = f[N]
  BY ShownRun
<1> DEFINE Q == {k \in 0 .. N : Good(f[k], k)}
<1>3. 0 \in Q
  <2>1. Good(c, 0)
    OBVIOUS
  <2> HIDE DEF Good
  <2>2. QED
    BY <1>1, <1>2, <2>1
<1>4. ASSUME NEW k \in 1 .. N, k - 1 \in Q
      PROVE  k \in Q
  <2> DEFINE b == f[k - 1]
             n == (m + k) - 1
             d == Shows(b, aus[k])
  <2>1. Good(b, k - 1) /\ aus[k] \in Seq(V) /\ n \in Nat /\ HoldsOne(aus[k], n) /\ f[k] = d
    BY <1>1, <1>2, <1>4 DEF CountsFrom
  <2>2. /\ d \in Clients /\ d.conf = b.conf /\ d.last = n /\ d.odd = b.odd
        /\ ~b.gap /\ (b.last # 0 => n = b.last + 1) => ~d.gap
        /\ ~b.wrong /\ (\A u \in V : u.sets = b.conf) => ~d.wrong
    BY <2>1, ShowsOne
  <2>3. Linked => (b.last # 0 => n = b.last + 1)
    <3>1. CASE k = 1
      BY <2>1, <3>1
    <3>2. CASE k # 1
      BY <2>1, <3>2
    <3>3. QED
      BY <3>1, <3>2
  <2>4. Good(d, k)
    <3>1. k # 0 /\ d.last = (m + k) - 1
      BY <2>2
    <3> HIDE DEF d, b, n, Linked, Right
    <3>2. Right => (\A u \in V : u.sets = c.conf)
      BY DEF Right
    <3>3. QED
      BY <2>1, <2>2, <2>3, <3>1, <3>2, Zenon
  <2> HIDE DEF Good, d, b
  <2>5. k \in 0 .. N
    BY <1>1
  <2>6. QED
    BY <2>1, <2>4, <2>5, Zenon
<1> HIDE DEF Q
<1>5. \A k \in 0 .. N : k \in Q
  BY <1>1, <1>3, <1>4, CountingUp
<1>6. Good(f[N], N)
  BY <1>1, <1>5 DEF Q
<1>7. QED
  BY <1>2, <1>6, Zenon

-----------------------------------------------------------------------------
(***************************************************************************)
(* What the handler holds after the parameter sets of a chunk.             *)
(***************************************************************************)
Handlers == [sps : Nat, pps : Nat, sent : BOOLEAN, client : Clients]

PairedIn(h) == h.sent => h.sps # 0 /\ h.pps # 0 /\ h.client.conf = <<h.sps, h.pps>>

\* The page has had the same pictures.
SameShown(g, h) == /\ g.client.last = h.client.last /\ g.client.odd = h.client.odd
                   /\ g.client.gap = h.client.gap /\ g.client.wrong = h.client.wrong

Original(u) == u.sets = <<1, 1>> /\ (IsConfig(u) => u.n = 1)
FirstSets(h) == h.sps \in {0, 1} /\ h.pps \in {0, 1}

LEMMA HandlerFields ==
    ASSUME NEW A, NEW B, NEW C, NEW h \in [sps : A, pps : A, sent : B, client : C],
           NEW n \in A, NEW v \in B, NEW c \in C
    PROVE  /\ LET g == [h EXCEPT !.sps = n, !.sent = v]
              IN  /\ g \in [sps : A, pps : A, sent : B, client : C]
                  /\ g.sps = n /\ g.pps = h.pps /\ g.sent = v /\ g.client = h.client
           /\ LET g == [h EXCEPT !.pps = n, !.sent = v]
              IN  /\ g \in [sps : A, pps : A, sent : B, client : C]
                  /\ g.sps = h.sps /\ g.pps = n /\ g.sent = v /\ g.client = h.client
           /\ LET g == [h EXCEPT !.sent = v, !.client = c]
              IN  /\ g \in [sps : A, pps : A, sent : B, client : C]
                  /\ g.sps = h.sps /\ g.pps = h.pps /\ g.sent = v /\ g.client = c
OBVIOUS

LEMMA ConfiguresFields ==
    ASSUME NEW c \in Clients, NEW conf \in Nat \X Nat
    PROVE  LET d == Configures(c, conf)
           IN  /\ d \in Clients /\ d.conf = conf /\ d.last = c.last /\ d.odd = c.odd
               /\ d.gap = c.gap /\ d.wrong = c.wrong
BY DEF Configures, Clients

LEMMA SpsFacts ==
    ASSUME NEW h \in Handlers, PairedIn(h), NEW n \in Nat \ {0}
    PROVE  LET g == InterceptSps(h, n)
           IN  /\ g \in Handlers /\ PairedIn(g) /\ SameShown(g, h)
               /\ g.sps = n /\ g.pps = h.pps
               /\ n = 1 /\ FirstSets(h) => FirstSets(g) /\ (h.sent => g.sent)
<1> DEFINE g == InterceptSps(h, n)
<1>1. CASE h.sps = n
  <2>1. g = h
    BY <1>1 DEF InterceptSps
  <2> HIDE DEF g
  <2>2. QED
    BY <1>1, <2>1 DEF SameShown, g
<1>2. CASE h.sps # n
  <2>1. g = [h EXCEPT !.sps = n, !.sent = FALSE]
    BY <1>2 DEF InterceptSps
  <2> HIDE DEF g
  <2>2. /\ g \in Handlers /\ g.sps = n /\ g.pps = h.pps /\ g.sent = FALSE /\ g.client = h.client
    BY <2>1, HandlerFields DEF Handlers
  <2>3. n = 1 /\ FirstSets(h) => FirstSets(g) /\ ~h.sent
    BY <1>2, <2>2 DEF FirstSets, PairedIn
  <2>4. QED
    BY <2>2, <2>3 DEF SameShown, PairedIn, g
<1>3. QED
  BY <1>1, <1>2

LEMMA PpsFacts ==
    ASSUME NEW h \in Handlers, PairedIn(h), NEW n \in Nat \ {0}
    PROVE  LET g == InterceptPps(h, n)
           IN  /\ g \in Handlers /\ PairedIn(g) /\ SameShown(g, h)
               /\ g.sps = h.sps /\ g.pps = n /\ (h.sps # 0 => g.sent)
               /\ n = 1 /\ FirstSets(h) => FirstSets(g) /\ (h.sent => g.sent)
<1> DEFINE b == Pairs(h, n)
           g == InterceptPps(h, n)
<1>1. /\ b \in Handlers /\ PairedIn(b) /\ b.client = h.client /\ b.sps = h.sps /\ b.pps = n
      /\ n = 1 /\ FirstSets(h) => (h.sent => b.sent)
  <2>1. CASE h.pps = n
    <3>1. b = h
      BY <2>1 DEF Pairs
    <3> HIDE DEF b
    <3>2. QED
      BY <2>1, <3>1
  <2>2. CASE h.pps # n
    <3>1. b = [h EXCEPT !.pps = n, !.sent = FALSE]
      BY <2>2 DEF Pairs
    <3> HIDE DEF b
    <3>2. /\ b \in Handlers /\ b.pps = n /\ b.sps = h.sps /\ b.sent = FALSE /\ b.client = h.client
      BY <3>1, HandlerFields DEF Handlers
    <3>3. n = 1 /\ FirstSets(h) => ~h.sent
      BY <2>2 DEF FirstSets, PairedIn
    <3>4. QED
      BY <3>2, <3>3 DEF PairedIn
  <2>3. QED
    BY <2>1, <2>2
<1>2. FirstSets(h) /\ n = 1 => b.sps \in {0, 1} /\ b.pps \in {0, 1}
  BY <1>1 DEF FirstSets
<1>3. CASE b.sps # 0 /\ ~b.sent
  <2> DEFINE c == Configures(h.client, <<b.sps, n>>)
  <2>1. g = [b EXCEPT !.sent = TRUE, !.client = c]
    <3>1. g = [b EXCEPT !.sent = TRUE, !.client = Configures(@, <<b.sps, n>>)]
      BY <1>3, Zenon DEF InterceptPps
    <3> HIDE DEF b, g
    <3>2. QED
      BY <1>1, <3>1
  <2>2. /\ c \in Clients /\ c.conf = <<b.sps, n>> /\ c.last = h.client.last
        /\ c.odd = h.client.odd /\ c.gap = h.client.gap /\ c.wrong = h.client.wrong
    <3>1. h.client \in Clients /\ <<b.sps, n>> \in Nat \X Nat
      BY <1>1 DEF Handlers
    <3>2. QED
      BY <3>1, ConfiguresFields
  <2> HIDE DEF b, c, g
  <2>3. g \in Handlers /\ g.sps = b.sps /\ g.pps = n /\ g.sent = TRUE /\ g.client = c
    BY <1>1, <2>1, <2>2, HandlerFields DEF Handlers
  <2>4. PairedIn(g) /\ SameShown(g, h)
    BY <1>3, <2>2, <2>3 DEF PairedIn, SameShown
  <2>5. FirstSets(h) /\ n = 1 => FirstSets(g)
    BY <1>1, <1>2, <2>3 DEF FirstSets
  <2>6. QED
    BY <1>1, <2>3, <2>4, <2>5 DEF g
<1>4. CASE ~(b.sps # 0 /\ ~b.sent)
  <2>1. g = b
    BY <1>4, Zenon DEF InterceptPps
  <2> HIDE DEF b, g
  <2>2. PairedIn(g) /\ SameShown(g, h)
    BY <1>1, <2>1 DEF SameShown
  <2>3. FirstSets(h) /\ n = 1 => FirstSets(g)
    BY <1>1, <1>2, <2>1 DEF FirstSets
  <2>4. QED
    BY <1>1, <1>4, <2>1, <2>2, <2>3 DEF g
<1>5. QED
  BY <1>3, <1>4

LEMMA InterceptFacts ==
    ASSUME NEW h \in Handlers, PairedIn(h), NEW u \in Units
    PROVE  LET g == Intercept(h, u)
           IN  /\ g \in Handlers /\ PairedIn(g) /\ SameShown(g, h)
               /\ ~IsConfig(u) => g = h
               /\ u.type = "sps" => g.sps = u.n /\ g.pps = h.pps
               /\ u.type = "pps" => g.sps = h.sps /\ g.pps = u.n /\ (h.sps # 0 => g.sent)
               /\ Original(u) /\ FirstSets(h) => FirstSets(g) /\ (h.sent => g.sent)
<1> DEFINE g == Intercept(h, u)
<1>1. u.n \in Nat /\ (IsConfig(u) => u.n # 0)
  BY DEF Units
<1>2. CASE u.type = "sps"
  <2>1. g = InterceptSps(h, u.n) /\ IsConfig(u)
    BY <1>2 DEF Intercept, IsConfig
  <2> HIDE DEF g
  <2>2. u.n \in Nat \ {0}
    BY <1>1, <2>1
  <2>3. /\ g \in Handlers /\ PairedIn(g) /\ SameShown(g, h) /\ g.sps = u.n /\ g.pps = h.pps
        /\ u.n = 1 /\ FirstSets(h) => FirstSets(g) /\ (h.sent => g.sent)
    BY <2>1, <2>2, SpsFacts
  <2>4. u.type # "pps"
    BY <1>2
  <2>5. QED
    BY <2>1, <2>3, <2>4, Zenon DEF Original, g
<1>3. CASE u.type = "pps"
  <2>1. g = InterceptPps(h, u.n) /\ IsConfig(u)
    BY <1>3 DEF Intercept, IsConfig
  <2> HIDE DEF g
  <2>2. u.n \in Nat \ {0}
    BY <1>1, <2>1
  <2>3. /\ g \in Handlers /\ PairedIn(g) /\ SameShown(g, h)
        /\ g.sps = h.sps /\ g.pps = u.n /\ (h.sps # 0 => g.sent)
        /\ u.n = 1 /\ FirstSets(h) => FirstSets(g) /\ (h.sent => g.sent)
    BY <2>1, <2>2, PpsFacts
  <2>4. u.type # "sps"
    BY <1>3
  <2>5. QED
    BY <2>1, <2>3, <2>4, Zenon DEF Original, g
<1>4. CASE u.type # "sps" /\ u.type # "pps"
  <2>1. g = h
    BY <1>4 DEF Intercept
  <2> HIDE DEF g
  <2>2. QED
    BY <1>4, <2>1 DEF SameShown, g
<1>5. QED
  BY <1>2, <1>3, <1>4

LEMMA InterceptedFacts ==
    ASSUME NEW V \in SUBSET Units, NEW units \in Seq(V), NEW h \in Handlers, PairedIn(h)
    PROVE  LET g == Intercepted(h, units)
           IN  /\ g \in Handlers /\ PairedIn(g) /\ SameShown(g, h)
               /\ (\A u \in V : Original(u)) /\ FirstSets(h) => FirstSets(g) /\ (h.sent => g.sent)
               /\ (\A k \in 1 .. Len(units) : ~IsConfig(units[k])) => g = h
<1> DEFINE N == Len(units)
           Same == \A k \in 1 .. N : ~IsConfig(units[k])
           Steady == (\A u \in V : Original(u)) /\ FirstSets(h)
           Good(g) == /\ g \in Handlers /\ PairedIn(g) /\ SameShown(g, h)
                      /\ Steady => FirstSets(g) /\ (h.sent => g.sent)
                      /\ Same => g = h
<1>1. N \in Nat /\ \A k \in 1 .. N : units[k] \in V
  OBVIOUS
<1>2. PICK f : /\ f[0] = h
               /\ \A k \in 1 .. N : f[k] = Intercept(f[k - 1], units[k])
               /\ Intercepted(h, units) = f[N]
  BY InterceptedRun
<1> DEFINE Q == {k \in 0 .. N : Good(f[k])}
<1>3. 0 \in Q
  <2>1. Good(h)
    BY DEF SameShown
  <2> HIDE DEF Good
  <2>2. QED
    BY <1>1, <1>2, <2>1
<1>4. ASSUME NEW k \in 1 .. N, k - 1 \in Q
      PROVE  k \in Q
  <2> DEFINE b == f[k - 1]
             u == units[k]
             g == Intercept(b, u)
  <2>1. Good(b) /\ u \in V /\ u \in Units /\ f[k] = g
    BY <1>1, <1>2, <1>4
  <2>2. /\ g \in Handlers /\ PairedIn(g) /\ SameShown(g, b)
        /\ ~IsConfig(u) => g = b
        /\ Original(u) /\ FirstSets(b) => FirstSets(g) /\ (b.sent => g.sent)
    BY <2>1, InterceptFacts
  <2>3. Same => ~IsConfig(u)
    BY <1>1
  <2>4. Steady => Original(u)
    BY <2>1
  <2> HIDE DEF g, b, u, Same, Steady
  <2>5. Good(g)
    <3>1. SameShown(g, h)
      BY <2>1, <2>2, Zenon DEF SameShown
    <3>2. Steady => FirstSets(g) /\ (h.sent => g.sent)
      BY <2>1, <2>2, <2>4, Zenon
    <3>3. Same => g = h
      BY <2>1, <2>2, <2>3, Zenon
    <3>4. QED
      BY <2>2, <3>1, <3>2, <3>3, Zenon
  <2> HIDE DEF Good
  <2>6. k \in 0 .. N
    BY <1>1
  <2>7. QED
    BY <2>1, <2>5, <2>6, Zenon
<1> HIDE DEF Q
<1>5. \A k \in 0 .. N : k \in Q
  BY <1>1, <1>3, <1>4, CountingUp
<1>6. Good(f[N])
  BY <1>1, <1>5 DEF Q
<1>7. QED
  BY <1>2, <1>6, Zenon

\* Both sets at the head of a packet: they are what the page is told.
LEMMA InterceptedSets ==
    ASSUME NEW units \in Seq(Units), NEW h \in Handlers, PairedIn(h), Len(units) >= 2,
           units[1].type = "sps", units[2].type = "pps",
           \A k \in 3 .. Len(units) : ~IsConfig(units[k])
    PROVE  LET g == Intercepted(h, units)
           IN  g.sent /\ g.sps = units[1].n /\ g.pps = units[2].n
<1> DEFINE N == Len(units)
           Good(g, k) == /\ g \in Handlers /\ PairedIn(g)
                         /\ k >= 1 => g.sps = units[1].n
                         /\ k >= 2 => g.sent /\ g.pps = units[2].n
<1>1. N \in Nat /\ N >= 2 /\ \A k \in 1 .. N : units[k] \in Units
  OBVIOUS
<1>2. PICK f : /\ f[0] = h
               /\ \A k \in 1 .. N : f[k] = Intercept(f[k - 1], units[k])
               /\ Intercepted(h, units) = f[N]
  BY InterceptedRun
<1> DEFINE Q == {k \in 0 .. N : Good(f[k], k)}
<1>3. 0 \in Q
  <2>1. Good(h, 0)
    OBVIOUS
  <2> HIDE DEF Good
  <2>2. QED
    BY <1>1, <1>2, <2>1
<1>4. ASSUME NEW k \in 1 .. N, k - 1 \in Q
      PROVE  k \in Q
  <2> DEFINE b == f[k - 1]
             u == units[k]
             g == Intercept(b, u)
  <2>1. Good(b, k - 1) /\ u \in Units /\ f[k] = g /\ k \in 0 .. N
    BY <1>1, <1>2, <1>4
  <2>2. /\ g \in Handlers /\ PairedIn(g)
        /\ ~IsConfig(u) => g = b
        /\ u.type = "sps" => g.sps = u.n /\ g.pps = b.pps
        /\ u.type = "pps" => g.sps = b.sps /\ g.pps = u.n /\ (b.sps # 0 => g.sent)
    BY <2>1, InterceptFacts
  <2>3. k = 1 \/ k = 2 \/ k \in 3 .. N
    BY <1>1
  <2> HIDE DEF g, b
  <2>4. CASE k = 1
    BY <2>1, <2>2, <2>4
  <2>5. CASE k = 2
    <3>1. b.sps = units[1].n /\ units[1].n # 0
      <4>1. k - 1 >= 1 /\ units[1] \in Units
        BY <1>1, <2>5
      <4>2. units[1].n # 0
        BY <4>1 DEF Units, IsConfig
      <4>3. QED
        BY <2>1, <4>1, <4>2
    <3>2. QED
      BY <2>1, <2>2, <2>5, <3>1
  <2>6. CASE k \in 3 .. N
    <3>1. k - 1 >= 2 /\ k - 1 >= 1
      BY <1>1, <2>6
    <3>2. g = b
      BY <2>2, <2>6
    <3>3. QED
      BY <2>1, <3>1, <3>2
  <2>7. QED
    BY <2>3, <2>4, <2>5, <2>6
<1> HIDE DEF Q
<1>5. \A k \in 0 .. N : k \in Q
  BY <1>1, <1>3, <1>4, CountingUp
<1>6. Good(f[N], N)
  BY <1>1, <1>5 DEF Q
<1>7. QED
  BY <1>1, <1>2, <1>6

LEMMA ChunkFacts ==
    ASSUME NEW V \in SUBSET Shot, NEW W \in SUBSET Units, NEW units \in Seq(W),
           NEW aus \in Seq(Seq(V)), NEW m \in Nat, CountsFrom(aus, m),
           NEW h \in Handlers, PairedIn(h)
    PROVE  LET g == Intercepted(h, units)
               e == SendsOn(g, aus)
           IN  /\ e \in Handlers /\ PairedIn(e)
               /\ e.sps = g.sps /\ e.pps = g.pps /\ e.sent = g.sent
               /\ e.client.odd = h.client.odd
               /\ e.client.last = IF e.sent /\ Len(aus) # 0 THEN (m + Len(aus)) - 1
                                                            ELSE h.client.last
               /\ ~h.client.gap /\ (h.client.last # 0 => m = h.client.last + 1) => ~e.client.gap
               /\ ~h.client.wrong /\ (g.sent => \A u \in V : u.sets = <<g.sps, g.pps>>)
                    => ~e.client.wrong
<1> DEFINE g == Intercepted(h, units)
           e == SendsOn(g, aus)
           d == Shown(g.client, aus)
<1>1. g \in Handlers /\ PairedIn(g) /\ SameShown(g, h)
  BY InterceptedFacts
<1> HIDE DEF g
<1>2. g.client \in Clients /\ g.sent \in BOOLEAN
  BY <1>1 DEF Handlers
<1>3. CASE g.sent
  <2>1. /\ d \in Clients /\ d.conf = g.client.conf /\ d.odd = g.client.odd
        /\ d.last = IF Len(aus) = 0 THEN g.client.last ELSE (m + Len(aus)) - 1
        /\ ~g.client.gap /\ (g.client.last # 0 => m = g.client.last + 1) => ~d.gap
        /\ ~g.client.wrong /\ (\A u \in V : u.sets = g.client.conf) => ~d.wrong
    BY <1>2, ShownFacts
  <2> HIDE DEF d
  <2>2. /\ e \in Handlers /\ e.sps = g.sps /\ e.pps = g.pps /\ e.sent = g.sent /\ e.client = d
    <3>1. e = [g EXCEPT !.client = d]
      BY <1>3, Zenon DEF SendsOn, d
    <3> HIDE DEF e
    <3>2. QED
      BY <1>1, <2>1, <3>1 DEF Handlers
  <2> HIDE DEF e
  <2>3. g.client.conf = <<g.sps, g.pps>>
    BY <1>1, <1>3 DEF PairedIn
  <2>4. PairedIn(e)
    BY <1>1, <2>1, <2>2 DEF PairedIn
  <2>5. /\ g.client.last = h.client.last /\ g.client.odd = h.client.odd
        /\ g.client.gap = h.client.gap /\ g.client.wrong = h.client.wrong
    BY <1>1 DEF SameShown
  <2>6. e.client.last = IF e.sent /\ Len(aus) # 0 THEN (m + Len(aus)) - 1 ELSE h.client.last
    BY <1>3, <2>1, <2>2, <2>5
  <2>7. ~h.client.gap /\ (h.client.last # 0 => m = h.client.last + 1) => ~e.client.gap
    BY <2>1, <2>2, <2>5
  <2>8. ~h.client.wrong /\ (g.sent => \A u \in V : u.sets = <<g.sps, g.pps>>)
          => ~e.client.wrong
    BY <1>3, <2>1, <2>2, <2>3, <2>5
  <2>9. QED
    BY <2>1, <2>2, <2>4, <2>5, <2>6, <2>7, <2>8 DEF e, g
<1>4. CASE ~g.sent
  <2>1. e = g
    BY <1>4, Zenon DEF SendsOn
  <2> HIDE DEF e
  <2>2. QED
    BY <1>1, <1>4, <2>1 DEF SameShown, e, g
<1>5. QED
  BY <1>3, <1>4

-----------------------------------------------------------------------------
(***************************************************************************)
(* The flow: all units from what waits to what is not read yet.            *)
(***************************************************************************)
LEMMA InOrderJoin ==
    ASSUME NEW V, NEW s \in Seq(V), NEW t \in Seq(V), InOrder(s), InOrder(t),
           s # <<>> /\ t # <<>> => MayFollow(s[Len(s)], t[1])
    PROVE  InOrder(s \o t)
<1> DEFINE p == s \o t
<1>1. /\ Len(s) \in Nat /\ Len(t) \in Nat /\ Len(p) = Len(s) + Len(t)
      /\ \A i \in 1 .. Len(s) : p[i] = s[i]
      /\ \A i \in 1 .. Len(t) : p[Len(s) + i] = t[i]
  OBVIOUS
<1> HIDE DEF p
<1>2. ASSUME NEW i \in 1 .. Len(p) - 1
      PROVE  MayFollow(p[i], p[i + 1])
  <2>1. CASE i \in 1 .. Len(s) - 1
    <3>1. i \in 1 .. Len(s) /\ i + 1 \in 1 .. Len(s)
      BY <1>1, <2>1
    <3>2. QED
      BY <1>1, <2>1, <3>1 DEF InOrder
  <2>2. CASE i = Len(s)
    <3>1. s # <<>> /\ t # <<>> /\ 1 \in 1 .. Len(t) /\ i \in 1 .. Len(s)
      BY <1>1, <2>2
    <3>2. p[i] = s[Len(s)] /\ p[i + 1] = t[1]
      BY <1>1, <2>2, <3>1
    <3>3. QED
      BY <3>1, <3>2
  <2>3. CASE i > Len(s)
    <3> DEFINE j == i - Len(s)
    <3>1. /\ j \in 1 .. Len(t) - 1 /\ j \in 1 .. Len(t) /\ j + 1 \in 1 .. Len(t)
          /\ Len(s) + j = i /\ Len(s) + (j + 1) = i + 1
      BY <1>1, <2>3
    <3> HIDE DEF j
    <3>2. p[i] = t[j] /\ p[i + 1] = t[j + 1]
      BY <1>1, <3>1
    <3>3. QED
      BY <3>1, <3>2 DEF InOrder
  <2>4. QED
    BY <1>1, <2>1, <2>2, <2>3
<1>3. InOrder(p)
  BY <1>2 DEF InOrder
<1>4. QED
  BY <1>3 DEF p

LEMMA InOrderSplit ==
    ASSUME NEW V, NEW s \in Seq(V), NEW t \in Seq(V), InOrder(s \o t)
    PROVE  /\ InOrder(s) /\ InOrder(t)
           /\ s # <<>> /\ t # <<>> => MayFollow(s[Len(s)], t[1])
<1> DEFINE p == s \o t
<1>1. /\ Len(s) \in Nat /\ Len(t) \in Nat /\ Len(p) = Len(s) + Len(t)
      /\ \A i \in 1 .. Len(s) : p[i] = s[i]
      /\ \A i \in 1 .. Len(t) : p[Len(s) + i] = t[i]
  OBVIOUS
<1>2. \A i \in 1 .. Len(p) - 1 : MayFollow(p[i], p[i + 1])
  BY DEF InOrder
<1> HIDE DEF p
<1>3. InOrder(s)
  <2>1. ASSUME NEW i \in 1 .. Len(s) - 1
        PROVE  MayFollow(s[i], s[i + 1])
    <3>1. i \in 1 .. Len(p) - 1 /\ i \in 1 .. Len(s) /\ i + 1 \in 1 .. Len(s)
      BY <1>1
    <3>2. QED
      BY <1>1, <1>2, <3>1
  <2>2. QED
    BY <2>1 DEF InOrder
<1>4. InOrder(t)
  <2>1. ASSUME NEW i \in 1 .. Len(t) - 1
        PROVE  MayFollow(t[i], t[i + 1])
    <3>1. /\ Len(s) + i \in 1 .. Len(p) - 1 /\ i \in 1 .. Len(t) /\ i + 1 \in 1 .. Len(t)
          /\ Len(s) + (i + 1) = (Len(s) + i) + 1
      BY <1>1
    <3>2. p[Len(s) + i] = t[i] /\ p[(Len(s) + i) + 1] = t[i + 1]
      BY <1>1, <3>1
    <3>3. QED
      BY <1>2, <3>1, <3>2
  <2>2. QED
    BY <2>1 DEF InOrder
<1>5. ASSUME s # <<>>, t # <<>>
      PROVE  MayFollow(s[Len(s)], t[1])
  <2>1. Len(s) \in 1 .. Len(s) /\ 1 \in 1 .. Len(t) /\ Len(s) \in 1 .. Len(p) - 1
    BY <1>1, <1>5
  <2>2. p[Len(s)] = s[Len(s)] /\ p[Len(s) + 1] = t[1]
    BY <1>1, <2>1
  <2>3. QED
    BY <1>2, <2>1, <2>2
<1>6. QED
  BY <1>3, <1>4, <1>5

\* Pictures follow one another up to the last one made, the n-th; the next one for the page
\* is the first of them, or the one the encoder makes next.
FlowOk(s, n) == InOrder(s) /\ (s # <<>> => s[Len(s)].type = "vcl" /\ s[Len(s)].n = n)
StartsAt(s, seen, n) == seen # 0 => IF s = <<>> THEN seen = n ELSE s[1].n = seen + 1

\* A read takes some units off the flow and leaves what waits for the next picture.
LEMMA ReadFlow ==
    ASSUME NEW V \in SUBSET Shot, NEW units \in Seq(V), NEW later \in Seq(V), NEW n \in Nat,
           FlowOk(units \o later, n),
           NEW seen \in Nat, StartsAt(units \o later, seen, n)
    PROVE  LET a == Aggregate(units)
           IN  /\ a.aus \in Seq(Seq(V)) /\ a.rest \in Seq(V)
               /\ \A i \in 1 .. Len(a.rest) : a.rest[i].type # "vcl"
               /\ FlowOk(a.rest \o later, n)
               /\ \E m \in Nat :
                    /\ CountsFrom(a.aus, m) /\ (seen # 0 => m = seen + 1)
                    /\ StartsAt(a.rest \o later,
                                IF Len(a.aus) # 0 THEN (m + Len(a.aus)) - 1 ELSE seen, n)
<1> DEFINE a == Aggregate(units)
           s == units \o later
           ahead == a.rest \o later
<1>1. /\ Len(units) \in Nat /\ Len(later) \in Nat /\ Len(s) = Len(units) + Len(later)
      /\ \A i \in 1 .. Len(units) : s[i] = units[i] /\ units[i] \in V
      /\ \A i \in 1 .. Len(later) : s[Len(units) + i] = later[i] /\ later[i] \in V
  OBVIOUS
<1>2. /\ InOrder(units) /\ InOrder(later)
      /\ units # <<>> /\ later # <<>> => MayFollow(units[Len(units)], later[1])
  BY InOrderSplit DEF FlowOk
<1>3. CASE units = <<>>
  <2>1. a.aus = <<>> /\ a.rest = <<>>
    <3>1. \E f : f[0] = NoneJoined /\ Joined(units) = f[Len(units)]
      BY JoinedRun, Zenon
    <3>2. Len(units) = 0
      BY <1>3
    <3>3. Joined(units) = NoneJoined
      BY <3>1, <3>2, Zenon
    <3>4. <<>> \o <<>> = <<>>
      OBVIOUS
    <3>5. QED
      BY <3>3, <3>4 DEF Aggregate, NoneJoined
  <2>2. <<>> \o later = later /\ units \o later = later
    BY <1>3
  <2>3. <<>> \in Seq(V) /\ <<>> \in Seq(Seq(V)) /\ Len(<<>>) = 0
    OBVIOUS
  <2>4. CountsFrom(<<>>, seen + 1)
    BY <2>3 DEF CountsFrom
  <2> HIDE DEF a
  <2>5. FlowOk(a.rest \o later, n)
    BY <2>1, <2>2, Zenon
  <2>6. /\ seen + 1 \in Nat /\ CountsFrom(a.aus, seen + 1) /\ (seen # 0 => seen + 1 = seen + 1)
        /\ StartsAt(a.rest \o later,
                    IF Len(a.aus) # 0 THEN ((seen + 1) + Len(a.aus)) - 1 ELSE seen, n)
    <3>1. (IF Len(a.aus) # 0 THEN ((seen + 1) + Len(a.aus)) - 1 ELSE seen) = seen
      BY <2>1, <2>3
    <3>2. seen + 1 \in Nat
      OBVIOUS
    <3>3. QED
      BY <2>1, <2>2, <2>4, <3>1, <3>2, Zenon
  <2>7. /\ a.aus \in Seq(Seq(V)) /\ a.rest \in Seq(V)
        /\ \A i \in 1 .. Len(a.rest) : a.rest[i].type # "vcl"
    BY <2>1, <2>3
  <2>8. QED
    BY <2>5, <2>6, <2>7, Zenon DEF a
<1>4. CASE units # <<>>
  <2> DEFINE m == units[1].n
             u == units[Len(units)]
             x == m + Len(a.aus)
             l == IF Len(a.aus) # 0 THEN x - 1 ELSE seen
  <2>1. /\ a.aus \in Seq(Seq(V)) /\ CountsFrom(a.aus, m)
        /\ u.n = IF u.type = "vcl" THEN x - 1 ELSE x
        /\ a.rest = <<>> \/ (u.type # "vcl" /\ a.rest = <<u>>)
    BY <1>2, <1>4, Aggregated
  <2>2. Len(units) \in 1 .. Len(units) /\ 1 \in 1 .. Len(units)
    BY <1>1, <1>4
  <2>3. u \in V /\ units[1] \in V /\ m \in Nat /\ u.n \in Nat /\ s # <<>> /\ s[1] = units[1]
    BY <1>1, <2>2 DEF Shot, Units
  <2> HIDE DEF a, u, m
  <2>4. Len(a.aus) \in Nat /\ x \in Nat
    BY <2>1, <2>3
  <2>5. seen # 0 => m = seen + 1
    BY <2>3 DEF StartsAt, m
  <2>6. l # 0 => x = l + 1
    BY <2>3, <2>4, <2>5
  <2>7. a.rest \in Seq(V) /\ \A i \in 1 .. Len(a.rest) : a.rest[i].type # "vcl"
    <3>1. CASE a.rest = <<>>
      BY <3>1
    <3>2. CASE u.type # "vcl" /\ a.rest = <<u>>
      BY <2>3, <3>2
    <3>3. QED
      BY <2>1, <3>1, <3>2
  <2> HIDE DEF x, l
  <2>8. later # <<>> => later[1].n = x
    BY <1>2, <1>4, <2>1, <2>4 DEF MayFollow, u
  <2>9. later = <<>> => a.rest = <<>> /\ x = n + 1
    <3>1. ASSUME later = <<>>
          PROVE  u.type = "vcl" /\ u.n = n
      <4>1. s = units
        BY <3>1
      <4>2. QED
        BY <1>4, <4>1 DEF FlowOk, u
    <3>2. QED
      BY <2>1, <2>4, <3>1
  <2>10. later # <<>> => /\ later[Len(later)].type = "vcl" /\ later[Len(later)].n = n
    <3>1. ASSUME later # <<>>
          PROVE  s[Len(s)] = later[Len(later)]
      <4>1. Len(later) \in 1 .. Len(later)
        BY <1>1, <3>1
      <4>2. QED
        BY <1>1, <4>1
    <3>2. QED
      BY <2>3, <3>1 DEF FlowOk
  <2>11. /\ FlowOk(ahead, n) /\ StartsAt(ahead, l, n)
    <3>1. CASE a.rest = <<>>
      <4>1. ahead = later
        BY <3>1
      <4>2. FlowOk(later, n)
        BY <1>2, <2>10 DEF FlowOk
      <4>3. StartsAt(later, l, n)
        <5>1. CASE later = <<>>
          <6>1. l # 0 => l = n
            <7>1. l \in Int
              <8>1. x \in Int /\ seen \in Int
                BY <2>4
              <8>2. l = x - 1 \/ l = seen
                BY DEF l
              <8>3. QED
                BY <8>1, <8>2
            <7>2. QED
              BY <2>6, <2>9, <5>1, <7>1
          <6>2. QED
            BY <5>1, <6>1 DEF StartsAt
        <5>2. CASE later # <<>>
          BY <2>6, <2>8, <5>2 DEF StartsAt
        <5>3. QED
          BY <5>1, <5>2
      <4>4. QED
        BY <4>1, <4>2, <4>3, Zenon
    <3>2. CASE u.type # "vcl" /\ a.rest = <<u>>
      <4>1. later # <<>>
        BY <2>9, <3>2
      <4>2. Len(<<u>>) = 1 /\ <<u>>[1] = u /\ <<u>> \in Seq(V) /\ <<u>> # <<>>
        BY <2>3
      <4>3. InOrder(<<u>>)
        BY <4>2 DEF InOrder
      <4>4. MayFollow(u, later[1])
        BY <1>2, <1>4, <4>1 DEF u
      <4>5. InOrder(<<u>> \o later)
        BY <1>2, <4>2, <4>3, <4>4, InOrderJoin
      <4> DEFINE p == <<u>> \o later
      <4>6. Len(p) = 1 + Len(later) /\ p[1] = u /\ p # <<>> /\ p[1 + Len(later)] = later[Len(later)]
        <5>1. Len(later) \in 1 .. Len(later)
          BY <1>1, <4>1
        <5>2. QED
          BY <1>1, <4>2, <5>1
      <4> HIDE DEF p
      <4>7. FlowOk(p, n)
        BY <2>10, <4>1, <4>5, <4>6 DEF FlowOk, p
      <4>8. StartsAt(p, l, n)
        BY <2>1, <2>6, <3>2, <4>6 DEF StartsAt
      <4>9. ahead = p
        BY <3>2 DEF p
      <4>10. QED
        BY <4>7, <4>8, <4>9, Zenon
    <3>3. QED
      BY <2>1, <3>1, <3>2
  <2>12. QED
    BY <2>1, <2>3, <2>5, <2>7, <2>11, Zenon DEF l, x, a
<1>5. QED
  BY <1>3, <1>4

\* A picture and what goes before it go behind the flow.
LEMMA FlowGrows ==
    ASSUME NEW V, NEW s \in Seq(V), NEW t \in Seq(V), NEW n, FlowOk(s, n),
           InOrder(t), t # <<>>, t[1].n = n + 1,
           t[Len(t)].type = "vcl", t[Len(t)].n = n + 1
    PROVE  /\ FlowOk(s \o t, n + 1)
           /\ \A seen : StartsAt(s, seen, n) => StartsAt(s \o t, seen, n + 1)
<1> DEFINE p == s \o t
<1>1. /\ Len(s) \in Nat /\ Len(t) \in Nat /\ Len(p) = Len(s) + Len(t)
      /\ \A i \in 1 .. Len(s) : p[i] = s[i]
      /\ \A i \in 1 .. Len(t) : p[Len(s) + i] = t[i]
  OBVIOUS
<1>2. 1 \in 1 .. Len(t) /\ Len(t) \in 1 .. Len(t) /\ Len(t) # 0
  BY <1>1
<1>3. s # <<>> => MayFollow(s[Len(s)], t[1])
  BY DEF FlowOk, MayFollow
<1>4. InOrder(p)
  BY <1>3, InOrderJoin DEF FlowOk
<1>5. p # <<>> /\ p[Len(p)] = t[Len(t)]
  BY <1>1, <1>2
<1>6. IF s = <<>> THEN p[1] = t[1] ELSE p[1] = s[1]
  <2>1. CASE s = <<>>
    BY <1>1, <1>2, <2>1
  <2>2. CASE s # <<>>
    <3>1. 1 \in 1 .. Len(s)
      BY <1>1, <2>2
    <3>2. QED
      BY <1>1, <2>2, <3>1
  <2>3. QED
    BY <2>1, <2>2
<1> HIDE DEF p
<1>7. FlowOk(p, n + 1)
  BY <1>4, <1>5 DEF FlowOk
<1>8. ASSUME NEW seen, StartsAt(s, seen, n)
      PROVE  StartsAt(p, seen, n + 1)
  BY <1>5, <1>6, <1>8 DEF StartsAt
<1>9. QED
  BY <1>7, <1>8 DEF p

\* What the encoder appends to the stream comes last of the flow.
Lengthens(p, b, s, t) ==
    p \o Forward(b \o (s \o t)) = (p \o Forward(b \o s)) \o Forward(t)

LEMMA FlowAppends ==
    ASSUME NEW V, NEW p \in Seq(V), NEW b \in Seq(V), NEW s \in Seq(V), NEW t \in Seq(V)
    PROVE  Lengthens(p, b, s, t)
<1>1. b \o (s \o t) = (b \o s) \o t /\ b \o s \in Seq(V)
  BY InARow DEF Associates
<1>2. Forward((b \o s) \o t) = Forward(b \o s) \o Forward(t)
  BY <1>1, ForwardConcat
<1>3. Forward(b \o s) \in Seq(V) /\ Forward(t) \in Seq(V)
  <2>1. \A q \in Seq({u \in V : ~IsConfig(u)}) : q \in Seq(V)
    OBVIOUS
  <2>2. QED
    BY <1>1, <2>1, ForwardType
<1>4. p \o (Forward(b \o s) \o Forward(t)) = (p \o Forward(b \o s)) \o Forward(t)
  BY <1>3, InARow DEF Associates
<1>5. QED
  BY <1>1, <1>2, <1>4 DEF Lengthens

\* A read cuts the stream: the units given back, and those that stay, are the ones there were.
Regroups(b, front, later, whole, kept) ==
    whole \o kept = b \o front => b \o (front \o later) = whole \o (kept \o later)

LEMMA Regrouped ==
    ASSUME NEW V, NEW b \in Seq(V), NEW front \in Seq(V), NEW later \in Seq(V),
           NEW whole \in Seq(V), NEW kept \in Seq(V)
    PROVE  Regroups(b, front, later, whole, kept)
<1>1. b \o (front \o later) = (b \o front) \o later
  BY InARow DEF Associates
<1>2. whole \o (kept \o later) = (whole \o kept) \o later
  BY InARow DEF Associates
<1>3. QED
  BY <1>1, <1>2 DEF Regroups

ReadCut(V, b, s, k) ==
    LET got == b \o SubSeq(s, 1, k)
        whole == SubSeq(got, 1, Len(got) - 1)
        kept == <<got[Len(got)]>>
        later == SubSeq(s, k + 1, Len(s))
    IN  /\ whole \in Seq(V) /\ kept \in Seq(V) /\ later \in Seq(V)
        /\ b \o s = whole \o (kept \o later)

LEMMA CutRead ==
    ASSUME NEW V, NEW b \in Seq(V), NEW s \in Seq(V), NEW k \in 1 .. Len(s)
    PROVE  ReadCut(V, b, s, k)
<1> DEFINE front == SubSeq(s, 1, k)
           later == SubSeq(s, k + 1, Len(s))
           got == b \o front
           whole == SubSeq(got, 1, Len(got) - 1)
           kept == <<got[Len(got)]>>
<1>1. Len(s) \in Nat /\ Len(b) \in Nat /\ k \in 0 .. Len(s) /\ k >= 1
  OBVIOUS
<1>2. front \in Seq(V) /\ Len(front) = k /\ later \in Seq(V) /\ front \o later = s
  BY <1>1, CutInTwo
<1> HIDE DEF front, later
<1>3. got \in Seq(V) /\ Len(got) >= 1
  BY <1>1, <1>2
<1> HIDE DEF got
<1>4. whole \in Seq(V) /\ kept \in Seq(V) /\ whole \o kept = got
  BY <1>3, LastApart
<1> HIDE DEF whole, kept
<1>5. b \o (front \o later) = whole \o (kept \o later)
  <2>1. whole \o kept = b \o front
    BY <1>4 DEF got
  <2>2. front \in Seq(V) /\ later \in Seq(V) /\ whole \in Seq(V) /\ kept \in Seq(V)
    BY <1>2, <1>4
  <2>3. Regroups(b, front, later, whole, kept)
    BY <2>2, Regrouped, Zenon
  <2>4. QED
    BY <2>1, <2>3, Zenon DEF Regroups
<1>6. QED
  BY <1>2, <1>4, <1>5 DEF whole, kept, got, front, later, ReadCut

-----------------------------------------------------------------------------
(***************************************************************************)
(* The inductive invariant: what the encoder has made and the page has not *)
(* had yet, from the units that wait for a picture to those not read, are  *)
(* pictures in order that go on where the page is; in the packet mode      *)
(* nothing waits, and what the handler holds is what the encoder uses.     *)
(***************************************************************************)
Made == {u \in Units : ~changed => Original(u)}
Flow == pending \o Forward(buffer \o stream)

UnitTypes ==
    /\ packets \in BOOLEAN /\ owed \in BOOLEAN /\ changed \in BOOLEAN
    /\ params \in (Nat \ {0}) \X (Nat \ {0}) /\ pictures \in Nat
    /\ stream \in Seq(Made) /\ buffer \in Seq(Made)
    /\ pending \in Seq({u \in Made : ~IsConfig(u)})
    /\ \A i \in 1 .. Len(pending) : pending[i].type # "vcl"
    /\ Handler \in Handlers

PacketsPass ==
    packets => /\ stream = <<>> /\ buffer = <<>> /\ pending = <<>>
               /\ ~owed => sent /\ sps = params[1] /\ pps = params[2]

SetsSteady == ~changed => params = <<1, 1>> /\ FirstSets(Handler)

PicturesFlow ==
    /\ FlowOk(Flow, pictures)
    /\ packets \/ ~changed => /\ ~client.wrong /\ ~client.gap
                              /\ sent \/ client.last = 0
                              /\ StartsAt(Flow, client.last, pictures)

UnitIInv == /\ UnitTypes /\ PairedIn(Handler) /\ PacketsPass /\ SetsSteady
            /\ PicturesFlow /\ ~client.odd

-----------------------------------------------------------------------------
\* What the encoder makes: the sets in use, and a picture with what goes before it.
Current == {u \in Made : ~IsConfig(u) /\ u.sets = params}

LEMMA SetsMade ==
    ASSUME UnitTypes, SetsSteady
    PROVE  /\ Sets \in Seq(Made) /\ Len(Sets) = 2
           /\ Sets[1].type = "sps" /\ Sets[1].n = params[1]
           /\ Sets[2].type = "pps" /\ Sets[2].n = params[2]
           /\ Forward(Sets) = <<>>
<1> DEFINE u == Unit("sps", params[1])
           w == Unit("pps", params[2])
<1>1. params \in Nat \X Nat /\ params[1] \in Nat \ {0} /\ params[2] \in Nat \ {0}
      /\ (~changed => params = <<1, 1>> /\ params[1] = 1 /\ params[2] = 1)
  BY DEF UnitTypes, SetsSteady
<1>2. /\ u.type = "sps" /\ u.n = params[1] /\ u.sets = params
      /\ w.type = "pps" /\ w.n = params[2] /\ w.sets = params
  BY DEF Unit
<1>3. u \in Units /\ w \in Units
  BY <1>1 DEF Unit, Units, UnitKinds
<1> HIDE DEF u, w
<1>4. u \in Made /\ w \in Made
  BY <1>1, <1>2, <1>3 DEF Made, Original
<1>5. IsConfig(u) /\ IsConfig(w)
  BY <1>2 DEF IsConfig
<1> DEFINE q == <<u, w>>
<1>6. q \in Seq(Made) /\ Len(q) = 2 /\ q[1] = u /\ q[2] = w
  BY <1>4
<1>7. Sets = q
  BY DEF Sets, u, w
<1> HIDE DEF q
<1>8. \A k \in 1 .. Len(q) : IsConfig(q[k])
  <2>1. \A k \in 1 .. 2 : k = 1 \/ k = 2
    OBVIOUS
  <2>2. QED
    BY <1>5, <1>6, <2>1
<1>9. Forward(q) = <<>>
  BY <1>6, <1>8, ForwardNone
<1>10. QED
  BY <1>2, <1>6, <1>7, <1>9

LEMMA PictureMade ==
    ASSUME UnitTypes, SetsSteady, NEW b \in Before
    PROVE  LET t == b \o <<Picture>>
           IN  /\ t \in Seq(Current) /\ b \in Seq(Made) /\ <<Picture>> \in Seq(Made)
               /\ t # <<>> /\ InOrder(t) /\ HoldsOne(t, pictures + 1)
               /\ t[1].n = pictures + 1
               /\ t[Len(t)].type = "vcl" /\ t[Len(t)].n = pictures + 1
<1> DEFINE n == pictures + 1
           p == Unit("vcl", n)
<1>1. params \in Nat \X Nat /\ n \in Nat /\ (~changed => params = <<1, 1>>)
  BY DEF UnitTypes, SetsSteady
<1>2. ASSUME NEW type \in {"sei", "aud", "vcl"}
      PROVE  LET u == Unit(type, n)
             IN  u \in Current /\ u.type = type /\ u.n = n
  <2> DEFINE u == Unit(type, n)
  <2>1. u.type = type /\ u.n = n /\ u.sets = params
    BY DEF Unit
  <2>2. u \in Units
    BY <1>1, <1>2 DEF Unit, Units, UnitKinds, IsConfig
  <2> HIDE DEF u
  <2>3. ~IsConfig(u)
    BY <1>2, <2>1 DEF IsConfig
  <2>4. u \in Current
    BY <1>1, <2>1, <2>2, <2>3 DEF Current, Made, Original
  <2>5. QED
    BY <2>1, <2>4 DEF u
<1>3. p \in Current /\ p.type = "vcl" /\ p.n = n /\ Picture = p
  <2>1. Picture = p
    BY DEF Picture
  <2>2. QED
    BY <1>2, <2>1
<1> HIDE DEF p
<1>4. \A u \in Current : u \in Made
  BY DEF Current
<1>5. \A q \in Seq(Current) : q \in Seq(Made)
  BY <1>4
<1>6. CASE b = <<>>
  <2> DEFINE t == <<p>>
  <2>1. t \in Seq(Current) /\ t # <<>> /\ Len(t) = 1 /\ t[1] = p /\ <<>> \in Seq(Current)
    BY <1>3
  <2>2. <<>> \o <<Picture>> = t
    BY <1>3
  <2>3. HoldsOne(t, n)
    BY <1>3, OneAlone
  <2> HIDE DEF t
  <2>4. InOrder(t)
    BY <2>1 DEF InOrder
  <2>5. b \o <<Picture>> = t
    BY <1>6, <2>2, Zenon
  <2>6. b \in Seq(Made) /\ <<Picture>> \in Seq(Made)
    BY <1>3, <1>5, <1>6, <2>1 DEF t
  <2>7. QED
    BY <1>3, <2>1, <2>3, <2>4, <2>5, <2>6
<1>7. ASSUME NEW type \in {"sei", "aud"}, b = <<Unit(type, n)>>
      PROVE  LET t == b \o <<Picture>>
             IN  /\ t \in Seq(Current) /\ b \in Seq(Made) /\ <<Picture>> \in Seq(Made)
                 /\ t # <<>> /\ InOrder(t) /\ HoldsOne(t, n)
                 /\ t[1].n = n /\ t[Len(t)].type = "vcl" /\ t[Len(t)].n = n
  <2> DEFINE u == Unit(type, n)
             t == <<u, p>>
  <2>1. u \in Current /\ u.type = type /\ u.n = n /\ u.type # "vcl"
    BY <1>2, <1>7
  <2> HIDE DEF u
  <2>2. t \in Seq(Current) /\ t # <<>> /\ Len(t) = 2 /\ t[1] = u /\ t[2] = p
    BY <1>3, <2>1
  <2>3. <<u>> \o <<Picture>> = t
    <3>1. <<u>> \o <<p>> = t
      BY <1>3, <2>1, TwoInRow, Zenon
    <3>2. QED
      BY <1>3, <3>1, Zenon
  <2>4. HoldsOne(t, n)
    BY <1>3, <2>1, OneBehind
  <2>5. <<u>> \in Seq(Current) /\ <<p>> \in Seq(Current)
    BY <1>3, <2>1
  <2> HIDE DEF t
  <2>6. InOrder(t)
    BY <1>3, <2>1, <2>2 DEF InOrder, MayFollow
  <2>7. b = <<u>>
    BY <1>7 DEF u
  <2>8. b \o <<Picture>> = t
    BY <2>3, <2>7, Zenon
  <2>9. b \in Seq(Made) /\ <<Picture>> \in Seq(Made)
    BY <1>3, <1>5, <2>5, <2>7
  <2>10. QED
    BY <1>3, <2>1, <2>2, <2>4, <2>6, <2>8, <2>9
<1>8. QED
  BY <1>6, <1>7 DEF Before

\* A packet that begins with its sets.
BeginsWithSets(units) == /\ Len(units) >= 2 /\ units[1].type = "sps" /\ units[2].type = "pps"
                         /\ \A k \in 3 .. Len(units) : ~IsConfig(units[k])

LEMMA SetsAhead ==
    ASSUME NEW V, NEW s \in Seq(V), NEW t \in Seq(V),
           \A k \in 1 .. Len(t) : ~IsConfig(t[k])
    PROVE  LET p == s \o t
           IN  Len(s) = 2 => /\ Len(p) >= 2 /\ p[1] = s[1] /\ p[2] = s[2]
                             /\ \A k \in 3 .. Len(p) : ~IsConfig(p[k])
<1> DEFINE p == s \o t
<1>1. /\ Len(t) \in Nat /\ Len(p) = Len(s) + Len(t)
      /\ \A k \in 1 .. Len(s) : p[k] = s[k]
      /\ \A k \in 1 .. Len(t) : p[Len(s) + k] = t[k]
  OBVIOUS
<1> HIDE DEF p
<1>2. ASSUME Len(s) = 2, NEW k \in 3 .. Len(p)
      PROVE  ~IsConfig(p[k])
  <2> DEFINE j == k - 2
  <2>1. j \in 1 .. Len(t) /\ 2 + j = k
    BY <1>1, <1>2
  <2> HIDE DEF j
  <2>2. QED
    BY <1>1, <1>2, <2>1
<1>3. QED
  BY <1>1, <1>2 DEF p

\* What a packet with a picture holds.
LEMMA PacketMade ==
    ASSUME UnitTypes, SetsSteady, NEW b \in Before, NEW inline \in BOOLEAN
    PROVE  LET t == b \o <<Picture>>
               units == (IF inline THEN Sets ELSE <<>>) \o b \o <<Picture>>
           IN  /\ units \in Seq(Made) /\ Forward(units) = t
               /\ inline => /\ BeginsWithSets(units)
                            /\ units[1].n = params[1] /\ units[2].n = params[2]
               /\ ~inline => \A k \in 1 .. Len(units) : ~IsConfig(units[k])
<1> DEFINE head == IF inline THEN Sets ELSE <<>>
           seen == <<Picture>>
           t == b \o seen
           units == head \o t
<1>1. t \in Seq(Current) /\ b \in Seq(Made) /\ seen \in Seq(Made)
  BY PictureMade
<1>2. /\ Sets \in Seq(Made) /\ Len(Sets) = 2
      /\ Sets[1].type = "sps" /\ Sets[1].n = params[1]
      /\ Sets[2].type = "pps" /\ Sets[2].n = params[2]
      /\ Forward(Sets) = <<>>
  BY SetsMade
<1>3. <<>> \in Seq(Made)
  OBVIOUS
<1>4. head \in Seq(Made)
  BY <1>2, <1>3
<1> HIDE DEF seen, head
<1>5. (head \o b) \o seen = units
  <2>1. Associates(head, b, seen)
    BY <1>1, <1>4, InARow, Zenon
  <2>2. QED
    BY <2>1, Zenon DEF Associates
<1> HIDE DEF t
<1>6. t \in Seq(Made) /\ \A k \in 1 .. Len(t) : ~IsConfig(t[k])
  <2>1. \A k \in 1 .. Len(t) : t[k] \in Current
    BY <1>1
  <2>2. \A u \in Current : u \in Made /\ ~IsConfig(u)
    BY DEF Current
  <2>3. \A q \in Seq(Current) : q \in Seq(Made)
    BY <2>2
  <2>4. QED
    BY <1>1, <2>1, <2>2, <2>3
<1>7. Forward(t) = t
  BY <1>6, ForwardAll
<1>8. units \in Seq(Made) /\ Forward(units) = Forward(head) \o Forward(t)
  BY <1>4, <1>6, ForwardConcat
<1>9. Forward(head) = <<>>
  <2>1. Forward(<<>>) = <<>>
    <3>1. \A k \in 1 .. Len(<<>>) : IsConfig(<<>>[k])
      OBVIOUS
    <3>2. QED
      BY <1>3, <3>1, ForwardNone
  <2>2. QED
    BY <1>2, <2>1 DEF head
<1>10. <<>> \o t = t
  BY <1>6
<1>11. Forward(units) = t
  BY <1>7, <1>8, <1>9, <1>10, Zenon
<1>12. ASSUME inline
       PROVE  BeginsWithSets(units) /\ units[1].n = params[1] /\ units[2].n = params[2]
  <2>1. head = Sets
    BY <1>12 DEF head
  <2>2. /\ Len(head) = 2 /\ head[1] = Sets[1] /\ head[2] = Sets[2]
    BY <1>2, <2>1
  <2>3. /\ Len(units) >= 2 /\ units[1] = head[1] /\ units[2] = head[2]
        /\ \A k \in 3 .. Len(units) : ~IsConfig(units[k])
    BY <1>4, <1>6, <2>2, SetsAhead
  <2> HIDE DEF units
  <2>4. QED
    BY <1>2, <2>2, <2>3 DEF BeginsWithSets
<1>13. ASSUME ~inline
       PROVE  \A k \in 1 .. Len(units) : ~IsConfig(units[k])
  <2>1. head = <<>>
    BY <1>13 DEF head
  <2>2. units = t
    BY <1>10, <2>1, Zenon
  <2> HIDE DEF units
  <2>3. QED
    BY <1>6, <2>2
<1> HIDE DEF units
<1>14. QED
  BY <1>5, <1>8, <1>11, <1>12, <1>13, Zenon DEF head, seen, t

-----------------------------------------------------------------------------
(***************************************************************************)
(* A chunk: what the handler holds and the page has had after it.          *)
(***************************************************************************)
LEMMA HandlerOf ==
    ASSUME NEW e \in Handlers, PairedIn(e),
           NEW s, NEW p, NEW v, NEW c, s = e.sps, p = e.pps, v = e.sent, c = e.client
    PROVE  LET g == [sps |-> s, pps |-> p, sent |-> v, client |-> c]
           IN  /\ g \in Handlers /\ PairedIn(g)
               /\ FirstSets(e) => FirstSets(g)
<1> DEFINE g == [sps |-> s, pps |-> p, sent |-> v, client |-> c]
<1>1. g.sps = s /\ g.pps = p /\ g.sent = v /\ g.client = c
  OBVIOUS
<1>2. g \in Handlers
  BY DEF Handlers
<1> HIDE DEF g
<1>3. PairedIn(g) /\ (FirstSets(e) => FirstSets(g))
  BY <1>1 DEF PairedIn, FirstSets
<1>4. QED
  BY <1>2, <1>3 DEF g

LEMMA HandlerNow ==
    ASSUME UnitTypes
    PROVE  /\ sps \in Nat /\ pps \in Nat /\ sent \in BOOLEAN /\ client \in Clients
           /\ Handler.sps = sps /\ Handler.pps = pps /\ Handler.sent = sent
           /\ Handler.client = client /\ Handler \in Handlers
<1>1. /\ Handler.sps = sps /\ Handler.pps = pps /\ Handler.sent = sent
      /\ Handler.client = client
  BY DEF Handler
<1>2. Handler \in Handlers
  BY DEF UnitTypes
<1>3. /\ Handler.sps \in Nat /\ Handler.pps \in Nat /\ Handler.sent \in BOOLEAN
      /\ Handler.client \in Clients
  BY <1>2 DEF Handlers
<1>4. QED
  BY <1>1, <1>2, <1>3

LEMMA ChunkStep ==
    ASSUME UnitTypes, PairedIn(Handler), NEW V \in SUBSET Shot, NEW units \in Seq(Made),
           NEW aus \in Seq(Seq(V)), NEW m \in Nat, CountsFrom(aus, m), Chunk(units, aus)
    PROVE  /\ (Handler \in Handlers)' /\ PairedIn(Handler)'
           /\ client'.odd = client.odd
           /\ client'.last = IF sent' /\ Len(aus) # 0 THEN (m + Len(aus)) - 1 ELSE client.last
           /\ ~client.gap /\ (client.last # 0 => m = client.last + 1) => ~client'.gap
           /\ ~client.wrong /\ (sent' => \A u \in V : u.sets = <<sps', pps'>>)
                => ~client'.wrong
           /\ ~changed /\ FirstSets(Handler) => FirstSets(Handler)' /\ (sent => sent')
           /\ (\A k \in 1 .. Len(units) : ~IsConfig(units[k]))
                => sps' = sps /\ pps' = pps /\ sent' = sent
           /\ BeginsWithSets(units) => sent' /\ sps' = units[1].n /\ pps' = units[2].n
<1> DEFINE h == Handler
           g == Intercepted(h, units)
           e == SendsOn(g, aus)
<1>1. h \in Handlers /\ PairedIn(h) /\ h.sps = sps /\ h.pps = pps /\ h.sent = sent
      /\ h.client = client /\ Made \in SUBSET Units /\ (~changed => \A u \in Made : Original(u))
  BY HandlerNow DEF Made
<1>2. sps' = e.sps /\ pps' = e.pps /\ sent' = e.sent /\ client' = e.client
  BY DEF Chunk
<1> HIDE DEF h
<1>3. /\ e \in Handlers /\ PairedIn(e)
      /\ e.sps = g.sps /\ e.pps = g.pps /\ e.sent = g.sent
      /\ e.client.odd = h.client.odd
      /\ e.client.last = IF e.sent /\ Len(aus) # 0 THEN (m + Len(aus)) - 1
                                                   ELSE h.client.last
      /\ ~h.client.gap /\ (h.client.last # 0 => m = h.client.last + 1) => ~e.client.gap
      /\ ~h.client.wrong /\ (g.sent => \A u \in V : u.sets = <<g.sps, g.pps>>)
           => ~e.client.wrong
  BY <1>1, ChunkFacts
<1>4. /\ ~changed /\ FirstSets(h) => FirstSets(g) /\ (h.sent => g.sent)
      /\ (\A k \in 1 .. Len(units) : ~IsConfig(units[k])) => g = h
  BY <1>1, InterceptedFacts
<1>5. BeginsWithSets(units) => g.sent /\ g.sps = units[1].n /\ g.pps = units[2].n
  <2>1. units \in Seq(Units)
    BY <1>1
  <2>2. QED
    BY <1>1, <2>1, InterceptedSets DEF BeginsWithSets
<1> HIDE DEF e, g
<1>6. (Handler \in Handlers)' /\ PairedIn(Handler)' /\ (FirstSets(e) => FirstSets(Handler)')
  BY <1>2, <1>3, HandlerOf DEF Handler
<1>7. FirstSets(g) => FirstSets(e)
  BY <1>3 DEF FirstSets
<1>8. QED
  BY <1>1, <1>2, <1>3, <1>4, <1>5, <1>6, <1>7 DEF h

-----------------------------------------------------------------------------
(***************************************************************************)
(* The steps of the encoder.                                               *)
(***************************************************************************)
\* What it sends: its sets or none, and then a picture or none, pictures + 1 or not more.
Encoded(units) ==
    \/ BeginsWithSets(units) /\ units[1].n = params[1] /\ units[2].n = params[2]
    \/ ~owed /\ \A k \in 1 .. Len(units) : ~IsConfig(units[k])

Pictured(t, n) ==
    \/ t = <<>> /\ n = pictures
    \/ /\ n = pictures + 1 /\ t \in Seq(Current) /\ t # <<>>
       /\ InOrder(t) /\ HoldsOne(t, n) /\ t[1].n = n
       /\ t[Len(t)].type = "vcl" /\ t[Len(t)].n = n

EncoderStep(n) == /\ packets' = packets /\ params' = params /\ changed' = changed
                  /\ owed' = FALSE /\ pictures' = n

LEMMA SameMade ==
    ASSUME changed' = changed
    PROVE  Made' = Made
BY DEF Made

LEMMA FlowNothing == <<>> \o Forward(<<>> \o <<>>) = <<>>
<1>1. <<>> \o <<>> = <<>> /\ <<>> \in Seq({}) /\ \A k \in 1 .. Len(<<>>) : IsConfig(<<>>[k])
  OBVIOUS
<1>2. Forward(<<>>) = <<>>
  BY <1>1, ForwardNone
<1>3. QED
  BY <1>1, <1>2, Zenon

\* The packet mode: the chunk goes at once, and leaves nothing.
LEMMA PacketStep ==
    ASSUME UnitIInv, packets, NEW units \in Seq(Made), NEW t, NEW n,
           Packet(units), EncoderStep(n), Forward(units) = t, Pictured(t, n), Encoded(units)
    PROVE  UnitIInv'
<1> DEFINE aus == IF t = <<>> THEN <<>> ELSE <<t>>
           m == pictures + 1
<1>1. /\ UnitTypes /\ PairedIn(Handler) /\ SetsSteady /\ FlowOk(Flow, pictures)
      /\ ~client.wrong /\ ~client.gap /\ StartsAt(Flow, client.last, pictures) /\ ~client.odd
      /\ pictures \in Nat /\ params \in Nat \X Nat /\ m \in Nat
  BY DEF UnitIInv, UnitTypes, PicturesFlow
<1>2. /\ stream = <<>> /\ buffer = <<>> /\ pending = <<>>
      /\ ~owed => sent /\ sps = params[1] /\ pps = params[2]
  BY DEF UnitIInv, PacketsPass
<1>3. Chunk(units, aus) /\ stream' = stream /\ buffer' = buffer /\ pending' = pending
  BY DEF Packet
<1>4. Current \in SUBSET Shot /\ \A u \in Current : u.sets = params
  BY DEF Current, Shot, Made
<1>5. aus \in Seq(Seq(Current)) /\ CountsFrom(aus, m) /\ Len(aus) = IF t = <<>> THEN 0 ELSE 1
  <2>1. CASE t = <<>>
    BY <2>1 DEF CountsFrom
  <2>2. CASE t # <<>>
    <3>1. t \in Seq(Current) /\ HoldsOne(t, m)
      BY <2>2 DEF Pictured
    <3>2. aus = <<t>> /\ aus \in Seq(Seq(Current)) /\ Len(aus) = 1 /\ aus[1] = t
      BY <2>2, <3>1
    <3> HIDE DEF aus, m
    <3>3. ASSUME NEW i \in 1 .. Len(aus)
          PROVE  HoldsOne(aus[i], (m + i) - 1)
      <4>1. i = 1 /\ (m + i) - 1 = m
        BY <1>1, <3>2
      <4>2. QED
        BY <3>1, <3>2, <4>1
    <3>4. QED
      BY <2>2, <3>2, <3>3 DEF CountsFrom
  <2>3. QED
    BY <2>1, <2>2
<1> HIDE DEF aus
<1>6. /\ (Handler \in Handlers)' /\ PairedIn(Handler)'
      /\ client'.odd = client.odd
      /\ client'.last = IF sent' /\ Len(aus) # 0 THEN (m + Len(aus)) - 1 ELSE client.last
      /\ ~client.gap /\ (client.last # 0 => m = client.last + 1) => ~client'.gap
      /\ ~client.wrong /\ (sent' => \A u \in Current : u.sets = <<sps', pps'>>)
           => ~client'.wrong
      /\ ~changed /\ FirstSets(Handler) => FirstSets(Handler)'
      /\ (\A k \in 1 .. Len(units) : ~IsConfig(units[k]))
           => sps' = sps /\ pps' = pps /\ sent' = sent
      /\ BeginsWithSets(units) => sent' /\ sps' = units[1].n /\ pps' = units[2].n
  BY <1>1, <1>3, <1>4, <1>5, ChunkStep
<1>7. sent' /\ sps' = params[1] /\ pps' = params[2]
  BY <1>2, <1>6 DEF Encoded
<1>8. Flow = <<>> /\ Flow' = <<>>
  BY <1>2, <1>3, FlowNothing DEF Flow
<1>9. client.last # 0 => client.last = pictures
  BY <1>1, <1>8 DEF StartsAt
<1>10. ~client'.gap /\ ~client'.wrong
  <2>1. params = <<sps', pps'>>
    BY <1>1, <1>7
  <2>2. QED
    BY <1>1, <1>4, <1>6, <1>9, <2>1
<1>11. client'.last # 0 => client'.last = n
  <2>1. CASE t = <<>>
    BY <1>5, <1>6, <1>9, <2>1 DEF Pictured
  <2>2. CASE t # <<>>
    <3>1. n = pictures + 1
      BY <2>2 DEF Pictured
    <3>2. QED
      BY <1>1, <1>5, <1>6, <1>7, <2>2, <3>1
  <2>3. QED
    BY <2>1, <2>2
<1>12. n \in Nat
  BY <1>1 DEF Pictured
<1>13. UnitTypes'
  <2>1. Made' = Made
    BY SameMade DEF EncoderStep
  <2>2. /\ stream' = stream /\ buffer' = buffer /\ pending' = pending
    BY <1>3
  <2>3. QED
    BY <1>1, <1>6, <1>12, <2>1, <2>2 DEF UnitTypes, EncoderStep
<1>14. PacketsPass'
  BY <1>2, <1>3, <1>7 DEF PacketsPass, EncoderStep
<1>15. SetsSteady'
  BY <1>1, <1>6 DEF SetsSteady, EncoderStep
<1>16. PicturesFlow'
  <2>1. FlowOk(<<>>, n)
    BY DEF FlowOk, InOrder
  <2>2. StartsAt(<<>>, client'.last, n)
    BY <1>11 DEF StartsAt
  <2>3. pictures' = n
    BY DEF EncoderStep
  <2>4. FlowOk(Flow', pictures') /\ StartsAt(Flow', client'.last, pictures')
    BY <1>8, <2>1, <2>2, <2>3
  <2>5. QED
    BY <1>7, <1>10, <2>4 DEF PicturesFlow
<1>17. QED
  BY <1>1, <1>6, <1>13, <1>14, <1>15, <1>16 DEF UnitIInv

\* The raw mode: the units wait at the end of the flow.
LEMMA StreamStep ==
    ASSUME UnitIInv, ~packets, NEW units \in Seq(Made), NEW t, NEW n,
           stream' = stream \o units, UNCHANGED <<buffer, pending, sps, pps, sent, client>>,
           EncoderStep(n), Forward(units) = t, Pictured(t, n)
    PROVE  UnitIInv'
<1>1. /\ UnitTypes /\ PairedIn(Handler) /\ SetsSteady /\ PicturesFlow /\ ~client.odd
      /\ pictures \in Nat /\ Made' = Made /\ pictures' = n
  BY SameMade DEF UnitIInv, UnitTypes, EncoderStep
<1>2. /\ stream \in Seq(Made) /\ buffer \in Seq(Made) /\ pending \in Seq(Made)
  <2>1. \A q \in Seq({u \in Made : ~IsConfig(u)}) : q \in Seq(Made)
    OBVIOUS
  <2>2. QED
    BY <1>1, <2>1 DEF UnitTypes
<1>3. Flow' = Flow \o t /\ Flow \in Seq(Made)
  <2>1. pending \o Forward(buffer \o (stream \o units))
          = (pending \o Forward(buffer \o stream)) \o Forward(units)
    <3>1. Lengthens(pending, buffer, stream, units)
      BY <1>2, FlowAppends, Zenon
    <3>2. QED
      BY <3>1, Zenon DEF Lengthens
  <2>2. Flow' = pending \o Forward(buffer \o (stream \o units))
    BY DEF Flow
  <2>3. Forward(buffer \o stream) \in Seq(Made)
    <3>1. buffer \o stream \in Seq(Made)
      BY <1>2
    <3>2. \A q \in Seq({u \in Made : ~IsConfig(u)}) : q \in Seq(Made)
      OBVIOUS
    <3>3. QED
      BY <3>1, <3>2, ForwardType
  <2>4. Flow \in Seq(Made)
    BY <1>2, <2>3 DEF Flow
  <2>5. QED
    BY <2>1, <2>2, <2>4, Zenon DEF Flow
<1>4. n \in Nat
  BY <1>1 DEF Pictured
<1>5. Handler' = Handler
  BY DEF Handler
<1>6. UnitTypes'
  <2>1. stream' \in Seq(Made)
    BY <1>2
  <2>2. buffer' = buffer /\ pending' = pending
    OBVIOUS
  <2>3. QED
    BY <1>1, <1>4, <1>5, <2>1, <2>2 DEF UnitTypes, EncoderStep
<1>7. PairedIn(Handler)' /\ SetsSteady'
  BY <1>1, <1>5 DEF SetsSteady, EncoderStep
<1>8. PacketsPass'
  BY DEF PacketsPass, EncoderStep
<1>9. FlowOk(Flow', n) /\ \A seen : StartsAt(Flow, seen, pictures) => StartsAt(Flow', seen, n)
  <2>1. FlowOk(Flow, pictures)
    BY <1>1 DEF PicturesFlow
  <2>2. CASE t = <<>> /\ n = pictures
    <3>1. Flow \o <<>> = Flow
      BY <1>3
    <3>2. QED
      BY <1>3, <2>1, <2>2, <3>1, Zenon
  <2>3. CASE n = pictures + 1 /\ t # <<>>
    <3>1. /\ t \in Seq(Made) /\ InOrder(t) /\ t[1].n = n
          /\ t[Len(t)].type = "vcl" /\ t[Len(t)].n = n
      <4>1. \A q \in Seq(Current) : q \in Seq(Made)
        BY DEF Current
      <4>2. QED
        BY <2>3, <4>1 DEF Pictured
    <3>2. FlowOk(Flow \o t, n) /\ \A seen : StartsAt(Flow, seen, pictures)
                                             => StartsAt(Flow \o t, seen, n)
      BY <1>3, <2>1, <2>3, <3>1, FlowGrows
    <3>3. QED
      BY <1>3, <3>2, Zenon
  <2>4. QED
    BY <2>2, <2>3 DEF Pictured
<1>10. PicturesFlow'
  BY <1>1, <1>9 DEF PicturesFlow, EncoderStep
<1>11. QED
  BY <1>1, <1>6, <1>7, <1>8, <1>10 DEF UnitIInv

LEMMA EmitsStep ==
    ASSUME UnitIInv, NEW units \in Seq(Made), NEW t, NEW n,
           Emits(units), EncoderStep(n), Forward(units) = t, Pictured(t, n), Encoded(units)
    PROVE  UnitIInv'
<1>1. CASE packets
  BY <1>1, PacketStep DEF Emits
<1>2. CASE ~packets
  BY <1>2, StreamStep DEF Emits
<1>3. QED
  BY <1>1, <1>2

LEMMA EmitSetsStep ==
    ASSUME UnitIInv, EmitSets
    PROVE  UnitIInv'
<1>1. UnitTypes /\ SetsSteady
  BY DEF UnitIInv
<1>2. /\ Sets \in Seq(Made) /\ Forward(Sets) = <<>> /\ Encoded(Sets)
  <2>1. /\ Sets \in Seq(Made) /\ Len(Sets) = 2
        /\ Sets[1].type = "sps" /\ Sets[1].n = params[1]
        /\ Sets[2].type = "pps" /\ Sets[2].n = params[2]
        /\ Forward(Sets) = <<>>
    BY <1>1, SetsMade
  <2>2. QED
    BY <2>1 DEF Encoded, BeginsWithSets
<1>3. Pictured(<<>>, pictures)
  BY DEF Pictured
<1>4. Emits(Sets) /\ EncoderStep(pictures)
  BY DEF EmitSets, EncoderStep
<1>5. QED
  BY <1>2, <1>3, <1>4, EmitsStep

LEMMA EmitPictureStep ==
    ASSUME UnitIInv, EmitPicture
    PROVE  UnitIInv'
<1>1. UnitTypes /\ SetsSteady
  BY DEF UnitIInv
<1> DEFINE Sent(b, inline) == (IF inline THEN Sets ELSE <<>>) \o b \o <<Picture>>
<1>2. PICK b \in Before, inline \in BOOLEAN :
        /\ owed => inline
        /\ EncoderStep(pictures + 1) /\ Emits(Sent(b, inline))
  BY DEF EmitPicture, EncoderStep
<1> DEFINE units == Sent(b, inline)
           t == b \o <<Picture>>
<1>3. /\ units \in Seq(Made) /\ Forward(units) = t
      /\ inline => /\ BeginsWithSets(units)
                   /\ units[1].n = params[1] /\ units[2].n = params[2]
      /\ ~inline => \A k \in 1 .. Len(units) : ~IsConfig(units[k])
  BY <1>1, PacketMade
<1>4. Pictured(t, pictures + 1)
  <2>1. /\ t \in Seq(Current) /\ t # <<>> /\ InOrder(t) /\ HoldsOne(t, pictures + 1)
        /\ t[1].n = pictures + 1
        /\ t[Len(t)].type = "vcl" /\ t[Len(t)].n = pictures + 1
    BY <1>1, PictureMade
  <2> HIDE DEF t
  <2>2. QED
    BY <2>1 DEF Pictured
<1>5. Emits(units)
  BY <1>2
<1> HIDE DEF units, t
<1>6. Encoded(units)
  BY <1>2, <1>3 DEF Encoded
<1>7. QED
  BY <1>2, <1>3, <1>4, <1>5, <1>6, EmitsStep

LEMMA ChangeSetsStep ==
    ASSUME UnitIInv, ChangeSets
    PROVE  UnitIInv'
<1>1. /\ UnitTypes /\ PairedIn(Handler) /\ PacketsPass /\ PicturesFlow /\ ~client.odd
      /\ params \in (Nat \ {0}) \X (Nat \ {0})
  BY DEF UnitIInv, UnitTypes
<1>2. /\ params' \in (Nat \ {0}) \X (Nat \ {0}) /\ owed' = TRUE /\ changed' = TRUE
      /\ UNCHANGED <<packets, pictures, stream, buffer, pending, sps, pps, sent, client>>
  BY <1>1 DEF ChangeSets
<1>3. Handler' = Handler /\ Flow' = Flow
  BY <1>2 DEF Handler, Flow
<1>4. UnitTypes'
  <2>1. Made \in SUBSET (Made')
    BY <1>2 DEF Made
  <2>2. /\ \A q \in Seq(Made) : q \in Seq(Made')
        /\ \A q \in Seq({u \in Made : ~IsConfig(u)}) : q \in Seq({u \in Made' : ~IsConfig(u)})
    BY <2>1
  <2>3. stream' \in Seq(Made') /\ buffer' \in Seq(Made')
        /\ pending' \in Seq({u \in Made' : ~IsConfig(u)})
    BY <1>1, <1>2, <2>2 DEF UnitTypes
  <2>4. QED
    BY <1>1, <1>2, <1>3, <2>3 DEF UnitTypes
<1>5. PairedIn(Handler)'
  BY <1>1, <1>3
<1>6. PacketsPass' /\ SetsSteady'
  BY <1>1, <1>2 DEF PacketsPass, SetsSteady
<1>7. PicturesFlow'
  BY <1>1, <1>2, <1>3 DEF PicturesFlow
<1>8. QED
  BY <1>1, <1>2, <1>4, <1>5, <1>6, <1>7 DEF UnitIInv

\* The encoder is started anew: nothing of the old one is left, nor sent under its sets.
LEMMA RestartStep ==
    ASSUME UnitIInv, Restart
    PROVE  UnitIInv'
<1>1. /\ UnitTypes /\ SetsSteady /\ PicturesFlow /\ ~client.odd /\ client \in Clients
  BY HandlerNow DEF UnitIInv
<1>2. /\ owed' = TRUE /\ stream' = <<>> /\ buffer' = <<>> /\ pending' = <<>>
      /\ sps' = 0 /\ pps' = 0 /\ sent' = FALSE
      /\ client' = [client EXCEPT !.conf = <<0, 0>>, !.last = 0]
      /\ UNCHANGED <<packets, params, pictures, changed>>
  BY DEF Restart, Forgets
<1>3. /\ client' \in Clients /\ client'.last = 0 /\ client'.wrong = client.wrong
      /\ client'.gap = client.gap /\ client'.odd = client.odd
  BY <1>1, <1>2 DEF Clients
<1>4. /\ Handler' \in Handlers /\ PairedIn(Handler)' /\ FirstSets(Handler)'
  <2> DEFINE h == [sps |-> 0, pps |-> 0, sent |-> FALSE, client |-> client']
  <2>1. Handler' = h
    BY <1>2 DEF Handler
  <2>2. h \in Handlers /\ h.sent = FALSE /\ h.sps = 0 /\ h.pps = 0
    BY <1>3 DEF Handlers
  <2> HIDE DEF h
  <2>3. PairedIn(h) /\ FirstSets(h)
    BY <2>2 DEF PairedIn, FirstSets
  <2>4. QED
    BY <2>1, <2>2, <2>3
<1>5. Flow' = <<>>
  BY <1>2, FlowNothing DEF Flow
<1>6. UnitTypes'
  BY <1>1, <1>2, <1>4 DEF UnitTypes
<1>7. PacketsPass' /\ SetsSteady'
  BY <1>1, <1>2, <1>4 DEF PacketsPass, SetsSteady
<1>8. PicturesFlow'
  <2>1. FlowOk(<<>>, pictures) /\ StartsAt(<<>>, 0, pictures)
    BY DEF FlowOk, InOrder, StartsAt
  <2>2. FlowOk(Flow', pictures') /\ StartsAt(Flow', client'.last, pictures')
    BY <1>2, <1>3, <1>5, <2>1
  <2>3. QED
    BY <1>1, <1>2, <1>3, <2>2 DEF PicturesFlow
<1>9. QED
  BY <1>1, <1>3, <1>4, <1>6, <1>7, <1>8 DEF UnitIInv

\* A read leaves the flow as it is, but for the pictures it sends.
CutsFlow(p, s, w, l) ==
    s = w \o l => p \o Forward(s) = (p \o Forward(w)) \o Forward(l)

LEMMA FlowCut ==
    ASSUME NEW V, NEW p \in Seq(V), NEW s, NEW w \in Seq(V), NEW l \in Seq(V)
    PROVE  CutsFlow(p, s, w, l)
<1>1. \A q \in Seq({u \in V : ~IsConfig(u)}) : q \in Seq(V)
  OBVIOUS
<1>2. Forward(w) \in Seq(V) /\ Forward(l) \in Seq(V)
  BY <1>1, ForwardType
<1>3. Forward(w \o l) = Forward(w) \o Forward(l)
  BY ForwardConcat
<1>4. Associates(p, Forward(w), Forward(l))
  BY <1>2, InARow, Zenon
<1>5. QED
  BY <1>3, <1>4, Zenon DEF Associates, CutsFlow

LEMMA ReadChunkStep ==
    ASSUME UnitIInv, ReadChunk
    PROVE  UnitIInv'
<1>1. /\ UnitTypes /\ PairedIn(Handler) /\ PacketsPass /\ SetsSteady /\ PicturesFlow
      /\ ~client.odd /\ pictures \in Nat /\ client \in Clients /\ client.last \in Nat
      /\ stream \in Seq(Made) /\ buffer \in Seq(Made)
  BY HandlerNow DEF UnitIInv, UnitTypes, Clients
<1> DEFINE V == {u \in Made : ~IsConfig(u)}
<1>2. V \in SUBSET Shot /\ V \in SUBSET Made /\ (~changed => \A u \in V : u.sets = <<1, 1>>)
  BY DEF Made, Shot, Original
<1>3. pending \in Seq(V)
  BY <1>1 DEF UnitTypes
<1> HIDE DEF V
<1> DEFINE Got(k) == buffer \o SubSeq(stream, 1, k)
           Given(k) == SubSeq(Got(k), 1, Len(Got(k)) - 1)
           Kept(k) == <<Got(k)[Len(Got(k))]>>
           Unread(k) == SubSeq(stream, k + 1, Len(stream))
<1>4. PICK k \in 1 .. Len(stream) :
        /\ stream' = Unread(k) /\ buffer' = Kept(k)
        /\ pending' = Aggregate(pending \o Forward(Given(k))).rest
        /\ Chunk(Given(k), Aggregate(pending \o Forward(Given(k))).aus)
        /\ UNCHANGED <<packets, params, owed, pictures, changed>>
  BY DEF ReadChunk, encoderVars
<1> DEFINE whole == Given(k)
           later == Kept(k) \o Unread(k)
           units == pending \o Forward(whole)
           a == Aggregate(units)
<1>5. /\ whole \in Seq(Made) /\ Kept(k) \in Seq(Made) /\ Unread(k) \in Seq(Made)
      /\ buffer \o stream = whole \o later
  <2>1. ReadCut(Made, buffer, stream, k)
    BY <1>1, CutRead, Zenon
  <2>2. QED
    BY <2>1, Zenon DEF ReadCut
<1>6. ~packets /\ later = buffer' \o stream' /\ pending' = a.rest /\ Chunk(whole, a.aus)
      /\ stream' \in Seq(Made) /\ buffer' \in Seq(Made)
  <2>1. stream # <<>>
    OBVIOUS
  <2>2. QED
    BY <1>1, <1>4, <1>5, <2>1 DEF PacketsPass
<1> HIDE DEF whole, Kept, Unread
<1>7. later \in Seq(Made)
  BY <1>5
<1> HIDE DEF later, a
<1>8. /\ units \in Seq(V) /\ Forward(later) \in Seq(V) /\ Flow = units \o Forward(later)
      /\ Flow' = a.rest \o Forward(later)
  <2>1. Forward(whole) \in Seq(V) /\ Forward(later) \in Seq(V)
    BY <1>5, <1>7, ForwardType DEF V
  <2>2. \A q \in Seq(V) : q \in Seq(Made)
    BY <1>2
  <2>3. Flow = units \o Forward(later)
    <3>1. buffer \o stream \in Seq(Made) /\ pending \in Seq(Made)
      BY <1>1, <1>3, <2>2
    <3>2. pending \o Forward(buffer \o stream)
            = (pending \o Forward(whole)) \o Forward(later)
      <4>1. CutsFlow(pending, buffer \o stream, whole, later)
        BY <1>5, <1>7, <3>1, FlowCut, Zenon
      <4>2. QED
        BY <1>5, <4>1, Zenon DEF CutsFlow
    <3>3. QED
      BY <3>2, Zenon DEF Flow
  <2>4. Flow' = a.rest \o Forward(later)
    BY <1>6 DEF Flow
  <2>5. units \in Seq(V)
    BY <1>3, <2>1
  <2>6. QED
    BY <2>1, <2>3, <2>4, <2>5
<1> HIDE DEF units
<1> DEFINE l == IF changed THEN 0 ELSE client.last
<1>9. l \in Nat /\ FlowOk(units \o Forward(later), pictures)
      /\ StartsAt(units \o Forward(later), l, pictures)
  <2>1. FlowOk(Flow, pictures) /\ (~changed => StartsAt(Flow, client.last, pictures))
    BY <1>1 DEF PicturesFlow
  <2>2. StartsAt(Flow, 0, pictures)
    BY DEF StartsAt
  <2>3. CASE changed
    BY <1>8, <2>1, <2>2, <2>3, Zenon
  <2>4. CASE ~changed
    BY <1>1, <1>8, <2>1, <2>4, Zenon
  <2>5. QED
    BY <2>3, <2>4
<1> HIDE DEF l
<1>10. PICK m \in Nat :
         /\ a.aus \in Seq(Seq(V)) /\ a.rest \in Seq(V)
         /\ \A i \in 1 .. Len(a.rest) : a.rest[i].type # "vcl"
         /\ FlowOk(a.rest \o Forward(later), pictures)
         /\ CountsFrom(a.aus, m) /\ (l # 0 => m = l + 1)
         /\ StartsAt(a.rest \o Forward(later),
                     IF Len(a.aus) # 0 THEN (m + Len(a.aus)) - 1 ELSE l, pictures)
  BY <1>1, <1>2, <1>8, <1>9, ReadFlow DEF a
<1>11. /\ (Handler \in Handlers)' /\ PairedIn(Handler)'
       /\ client'.odd = client.odd
       /\ client'.last = IF sent' /\ Len(a.aus) # 0 THEN (m + Len(a.aus)) - 1
                                                    ELSE client.last
       /\ ~client.gap /\ (client.last # 0 => m = client.last + 1) => ~client'.gap
       /\ ~client.wrong /\ (sent' => \A u \in V : u.sets = <<sps', pps'>>)
            => ~client'.wrong
       /\ ~changed /\ FirstSets(Handler) => FirstSets(Handler)' /\ (sent => sent')
  BY <1>1, <1>2, <1>5, <1>6, <1>10, ChunkStep
<1>12. changed' = changed /\ packets' = packets /\ params' = params /\ pictures' = pictures
       /\ owed' = owed /\ Made' = Made
  BY <1>4, SameMade
<1>13. UnitTypes'
  BY <1>1, <1>6, <1>10, <1>11, <1>12 DEF UnitTypes, V
<1>14. PacketsPass' /\ SetsSteady'
  BY <1>1, <1>6, <1>11, <1>12 DEF PacketsPass, SetsSteady
<1>15. ASSUME ~changed
       PROVE  /\ ~client'.wrong /\ ~client'.gap /\ (sent' \/ client'.last = 0)
              /\ StartsAt(Flow', client'.last, pictures)
  <2>1. /\ ~client.wrong /\ ~client.gap /\ (sent \/ client.last = 0) /\ l = client.last
        /\ FirstSets(Handler) /\ FirstSets(Handler)' /\ (sent => sent')
    BY <1>1, <1>11, <1>15 DEF PicturesFlow, SetsSteady, l
  <2>2. ~client'.gap
    BY <1>10, <1>11, <2>1
  <2>3. sent' => sps' = 1 /\ pps' = 1
    BY <1>11, <2>1 DEF FirstSets, PairedIn, Handler
  <2>4. ~client'.wrong
    BY <1>2, <1>11, <1>15, <2>1, <2>3
  <2>5. CASE sent'
    <3>1. client'.last = IF Len(a.aus) # 0 THEN (m + Len(a.aus)) - 1 ELSE l
      BY <1>11, <2>1, <2>5
    <3>2. QED
      BY <1>8, <1>10, <2>2, <2>4, <2>5, <3>1, Zenon
  <2>6. CASE ~sent'
    <3>1. client'.last = 0
      BY <1>11, <2>1, <2>6
    <3>2. QED
      BY <2>2, <2>4, <3>1 DEF StartsAt
  <2>7. QED
    BY <2>5, <2>6
<1>16. PicturesFlow'
  <2>1. FlowOk(Flow', pictures')
    BY <1>8, <1>10, <1>12, Zenon
  <2>2. QED
    BY <1>6, <1>12, <1>15, <2>1 DEF PicturesFlow
<1>17. QED
  BY <1>1, <1>11, <1>13, <1>14, <1>16 DEF UnitIInv

LEMMA UnitStarts ==
    ASSUME UnitInit
    PROVE  UnitIInv
<1>1. /\ packets \in BOOLEAN /\ params = <<1, 1>> /\ owed = TRUE
      /\ pictures = 0 /\ changed = FALSE
      /\ stream = <<>> /\ buffer = <<>> /\ pending = <<>>
      /\ sps = 0 /\ pps = 0 /\ sent = FALSE /\ client = NewClient
  BY DEF UnitInit
<1>2. client \in Clients /\ client.last = 0 /\ ~client.wrong /\ ~client.gap /\ ~client.odd
  BY <1>1 DEF NewClient, Clients
<1>3. Handler \in Handlers /\ PairedIn(Handler) /\ FirstSets(Handler)
  <2>1. /\ Handler.sps = 0 /\ Handler.pps = 0 /\ Handler.sent = FALSE
        /\ Handler \in Handlers
    BY <1>1, <1>2 DEF Handler, Handlers
  <2>2. QED
    BY <2>1 DEF PairedIn, FirstSets
<1>4. UnitTypes
  <2>1. /\ <<>> \in Seq(Made) /\ <<>> \in Seq({u \in Made : ~IsConfig(u)})
        /\ \A i \in 1 .. Len(<<>>) : <<>>[i].type # "vcl"
    OBVIOUS
  <2>2. params \in (Nat \ {0}) \X (Nat \ {0}) /\ pictures \in Nat
    <3>1. <<1, 1>> \in (Nat \ {0}) \X (Nat \ {0}) /\ 0 \in Nat
      OBVIOUS
    <3>2. QED
      BY <1>1, <3>1, Zenon
  <2>3. QED
    BY <1>1, <1>3, <2>1, <2>2, Zenon DEF UnitTypes
<1>5. PicturesFlow
  <2>1. FlowOk(<<>>, 0) /\ StartsAt(<<>>, 0, 0)
    BY DEF FlowOk, InOrder, StartsAt
  <2>2. Flow = <<>>
    BY <1>1, FlowNothing DEF Flow
  <2>3. QED
    BY <1>1, <1>2, <2>1, <2>2 DEF PicturesFlow
<1>6. QED
  BY <1>1, <1>2, <1>3, <1>4, <1>5 DEF UnitIInv, PacketsPass, SetsSteady

LEMMA UnitStutters ==
    ASSUME UnitIInv, UNCHANGED unitVars
    PROVE  UnitIInv'
<1>1. /\ packets' = packets /\ params' = params /\ owed' = owed /\ pictures' = pictures
      /\ changed' = changed /\ stream' = stream /\ buffer' = buffer /\ pending' = pending
      /\ sps' = sps /\ pps' = pps /\ sent' = sent /\ client' = client
  BY DEF unitVars, encoderVars
<1>2. Handler' = Handler /\ Flow' = Flow /\ Made' = Made
  BY <1>1, SameMade DEF Handler, Flow
<1>3. QED
  BY <1>1, <1>2 DEF UnitIInv, UnitTypes, PacketsPass, SetsSteady, PicturesFlow

LEMMA UnitKept ==
    ASSUME UnitIInv, [UnitNext]_unitVars
    PROVE  UnitIInv'
<1>1. CASE EmitSets
  BY <1>1, EmitSetsStep
<1>2. CASE EmitPicture
  BY <1>2, EmitPictureStep
<1>3. CASE ChangeSets
  BY <1>3, ChangeSetsStep
<1>4. CASE Restart
  BY <1>4, RestartStep
<1>5. CASE ReadChunk
  BY <1>5, ReadChunkStep
<1>6. CASE UNCHANGED unitVars
  BY <1>6, UnitStutters
<1>7. QED
  BY <1>1, <1>2, <1>3, <1>4, <1>5, <1>6 DEF UnitNext

LEMMA UnitInvariance == UnitSpec => []UnitIInv
<1>1. UnitInit => UnitIInv
  BY UnitStarts
<1>2. UnitIInv /\ [UnitNext]_unitVars => UnitIInv'
  BY UnitKept
<1>3. QED
  BY <1>1, <1>2, PTL DEF UnitSpec

\* Whatever packets or reads the stream comes in, and however often the encoder starts anew or
\* changes its sets, the page gets every picture once, in order, with the sets it was made
\* with (in the raw mode as long as the sets do not change), one picture in a message, and
\* nothing complete waits (video.py:176-331, au_aggregator.py:50-112).
THEOREM EveryPictureArrives == UnitSpec => []UnitInv
<1>1. ASSUME UnitIInv
      PROVE  UnitInv
  <2>1. /\ UnitTypes /\ PairedIn(Handler) /\ PicturesFlow /\ ~client.odd
    BY <1>1 DEF UnitIInv
  <2>2. PicturesDecode /\ NoPictureLost /\ OnePictureEach
    BY <2>1 DEF PicturesFlow, PicturesDecode, NoPictureLost, OnePictureEach
  <2>3. Pictures(pending) = {}
    <3>1. \A i \in 1 .. Len(pending) : pending[i].type # "vcl"
      BY <2>1 DEF UnitTypes
    <3>2. DOMAIN pending = 1 .. Len(pending)
      BY <2>1 DEF UnitTypes
    <3>3. QED
      BY <3>1, <3>2 DEF Pictures
  <2>4. sent => sps # 0 /\ pps # 0 /\ client.conf = <<sps, pps>>
    BY <2>1, HandlerNow DEF PairedIn
  <2>5. QED
    BY <2>2, <2>3, <2>4 DEF UnitInv, NothingHeldBack
<1>2. QED
  BY <1>1, UnitInvariance, PTL
=============================================================================
