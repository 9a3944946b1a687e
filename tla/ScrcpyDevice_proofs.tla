------------------------ MODULE ScrcpyDevice_proofs ------------------------
(***************************************************************************)
(* The safety of ScrcpyDevice for any number of encoders.  That a stop      *)
(* kills no server in use rests on three facts: while an encoder starts     *)
(* every other one is unused, stopped or abandoned (Exclusive); past the    *)
(* detection every server on the device or on its way to it, but the        *)
(* encoder's own, is being stopped (Alone), because the detection lets      *)
(* nothing pass but what is finalizing, and that is (Finished).  What was   *)
(* enumerated stays with the encoder until the kill (Known).                *)
(***************************************************************************)
EXTENDS ScrcpyDevice, TLAPS

\* Where stop(), server and memory of an encoder can be while start() is where it is.
Stages == \A e \in Encoders :
    /\ start[e] /= "over" => \A k \in Stoppers : stop[e][k] = "none"
    /\ start[e] \in {"new", "detect", "push", "unforward", "forward", "launch"}
           => e \notin alive \cup spawning
    /\ start[e] = "new" => e \notin named /\ ~abandoned[e]
    /\ abandoned[e] \/ e \in named =>
           start[e] \in {"streaming", "over"} /\ e \notin spawning

\* What each step of a call of stop() has cleared, stays cleared.
Cleaned == \A e \in Encoders :
    /\ start[e] \notin {"new", "over"} => deviceId[e]
    /\ start[e] /= "new" /\ ~deviceId[e] => remotePids[e] = {}
    /\ \A k \in Stoppers :
          /\ stop[e][k] \in {"process", "unforward", "done"} => remotePids[e] = {}
          /\ stop[e][k] \in {"unforward", "done"} => ~process[e]
          /\ stop[e][k] = "done" => ~deviceId[e]

\* The server of somebody else is seen by the detection, or is not there.
Spared == calm =>
    /\ Other \notin finalizing \cup doomed
    /\ \A e \in Encoders :
          /\ Other \notin remotePids[e]
          /\ \A k \in Stoppers : Other \notin victims[e][k]
          /\ start[e] \in Starting \ {"detect"} => Other \notin alive

Exclusive == \A e, f \in Encoders :
    start[e] \in Starting /\ f /= e
        => start[f] = "new" \/ stop[f]["service"] = "done" \/ abandoned[f]

Alone == calm => \A e, f \in Encoders :
    start[e] \in Starting \ {"detect"} /\ f \in alive \cup spawning /\ f /= e
        => Stopping(f)

Finished == calm => \A f \in Encoders : f \in finalizing => Stopping(f)

Known == calm => \A e \in Encoders :
    /\ e \in named /\ e \in alive \ doomed => e \in remotePids[e]
    /\ \A k \in Stoppers :
          stop[e][k] = "kill" => remotePids[e] \in {victims[e][k], {}}

IInv ==
    /\ TypeOK /\ Stages /\ Cleaned /\ Spared
    /\ Exclusive /\ Alone /\ Finished /\ KillsNoneInUse /\ Known

\* Before the first start of an encoder there is nothing to stop.
LEMMA InitIInv == Init => IInv
<1> SUFFICES ASSUME Init PROVE IInv
  OBVIOUS
<1> USE DeviceAssumption DEF Init, Servers
<1>1. TypeOK
  BY DEF TypeOK, StartStates, StopStates, Starting, Stoppers
<1>2. Stages
  BY DEF Stages, Starting, Stoppers
<1>3. Cleaned
  BY DEF Cleaned, Starting, Stoppers
<1>4. Spared
  BY DEF Spared, Starting, Stoppers
<1>5. Exclusive
  BY DEF Exclusive, Starting, Stoppers
<1>6. Alone
  BY DEF Alone, Starting, Stoppers
<1>7. Finished
  BY DEF Finished, Starting, Stoppers
<1>8. KillsNoneInUse
  BY DEF KillsNoneInUse, Starting, Stoppers
<1>9. Known
  BY DEF Known, Starting, Stoppers
<1>10. QED
  BY <1>1, <1>2, <1>3, <1>4, <1>5, <1>6, <1>7, <1>8, <1>9 DEF IInv

\* A start that fails before its try only leaves the service a stop to do; the
\* server may have been launched all the same.
LEMMA FailedStart ==
  ASSUME IInv, NEW e \in Encoders, start[e] \in Starting, StartFails(e),
         UNCHANGED <<memory, finalizing, alive, doomed, named, calm>>,
         forward' \in BOOLEAN,
         spawning' = spawning \/ (start[e] = "launch" /\ spawning' = spawning \cup {e})
  PROVE  IInv'
<1>0. /\ TypeOK /\ Stages /\ Cleaned /\ Spared
      /\ Exclusive /\ Alone /\ Finished /\ KillsNoneInUse /\ Known
  BY DEF IInv
<1> USE DeviceAssumption DEF Servers, Stoppers, Starting, memory
<1>a. /\ start' \in [Encoders -> StartStates]
      /\ start'[e] = "over"
      /\ \A f \in Encoders \ {e} : start'[f] = start[f]
  BY <1>0 DEF TypeOK, StartFails, GoTo, StartStates
<1>b. /\ stop' \in [Encoders -> [Stoppers -> StopStates]]
      /\ stop'[e]["service"] = "sockets" /\ stop'[e]["generator"] = "none"
      /\ \A f \in Encoders \ {e} : stop'[f] = stop[f]
  BY <1>0 DEF TypeOK, StartFails, StopStates, Stages
<1>c. Stopping(e)' /\ \A f \in Encoders \ {e} : Stopping(f)' = Stopping(f)
  BY <1>b DEF Stopping
<1>1. TypeOK'
  BY <1>0, <1>a, <1>b DEF TypeOK, Stages
<1>2. Stages'
  BY <1>0, <1>a, <1>b DEF Stages
<1>3. Cleaned'
  BY <1>0, <1>a, <1>b DEF Cleaned
<1>4. Spared'
  BY <1>0, <1>a, <1>b DEF Spared
<1>5. Exclusive'
  BY <1>0, <1>a, <1>b DEF Stages, Exclusive
<1>6. Alone'
  BY <1>0, <1>a, <1>c DEF Alone
<1>7. Finished'
  BY <1>0, <1>c DEF Finished
<1>8. KillsNoneInUse'
  <2> SUFFICES ASSUME calm, NEW g \in Encoders, NEW f \in Encoders, f /= g,
                      f \in remotePids[g] \cup UNION {victims[g][k] : k \in Stoppers}
               PROVE  Stopping(f)'
    BY DEF KillsNoneInUse
  <2>1. Stopping(f)
    BY <1>0 DEF KillsNoneInUse
  <2>2. QED
    BY <2>1, <1>c
<1>9. Known'
  BY <1>0, <1>a, <1>b DEF Known
<1>10. QED
  BY <1>1, <1>2, <1>3, <1>4, <1>5, <1>6, <1>7, <1>8, <1>9 DEF IInv

\* A start that passes one of its steps before the launch, or the connection,
\* changes the place it is at; past the detection the servers are stopping ones.
LEMMA StartAdvances ==
  ASSUME IInv, NEW e \in Encoders, NEW there,
         start[e] \in Starting, start' = [start EXCEPT ![e] = there],
         \/ there \in {"push", "unforward", "forward", "launch"}
            /\ start[e] \in {"detect", "push", "unforward", "forward"}
         \/ start[e] = "connect" /\ there = "enumerate",
         start[e] = "detect" /\ calm => alive \subseteq finalizing,
         UNCHANGED <<stop, memory, finalizing, servers, named, calm>>,
         forward' \in BOOLEAN
  PROVE  IInv'
<1>0. /\ TypeOK /\ Stages /\ Cleaned /\ Spared
      /\ Exclusive /\ Alone /\ Finished /\ KillsNoneInUse /\ Known
  BY DEF IInv
<1> USE DeviceAssumption DEF Servers, Stoppers, Starting, memory, servers
<1>a. /\ start' \in [Encoders -> StartStates]
      /\ start'[e] = there
      /\ \A f \in Encoders \ {e} : start'[f] = start[f]
  BY <1>0 DEF TypeOK, StartStates
<1>b. \A f : Stopping(f)' = Stopping(f)
  BY DEF Stopping
<1>1. TypeOK'
  BY <1>0, <1>a DEF TypeOK
<1>2. Stages'
  BY <1>0, <1>a DEF Stages
<1>3. Cleaned'
  BY <1>0, <1>a DEF Cleaned
<1>4. Spared'
  BY <1>0, <1>a DEF Spared
<1>5. Exclusive'
  BY <1>0, <1>a DEF Exclusive
<1>c. calm => \A f \in Encoders \ {e} : f \in alive \cup spawning => Stopping(f)
  BY <1>0 DEF Alone, Exclusive, Finished, Stages, Stopping
<1>6. Alone'
  <2> SUFFICES ASSUME calm, NEW f \in Encoders, NEW g \in Encoders,
                      start'[f] \in Starting \ {"detect"},
                      g \in alive \cup spawning, g /= f
               PROVE  Stopping(g)
    BY <1>b DEF Alone
  <2>1. CASE f = e
    BY <2>1, <1>c
  <2>2. CASE f /= e
    BY <2>2, <1>0, <1>a DEF Alone
  <2>3. QED
    BY <2>1, <2>2
<1>7. Finished'
  BY <1>0, <1>b DEF Finished
<1>8. KillsNoneInUse'
  BY <1>0, <1>b DEF KillsNoneInUse
<1>9. Known'
  BY <1>0 DEF Known
<1>10. QED
  BY <1>1, <1>2, <1>3, <1>4, <1>5, <1>6, <1>7, <1>8, <1>9 DEF IInv

\* One step per action, and one per conjunct of the invariant.
LEMMA StepIInv == IInv /\ [Next]_vars => IInv'
<1> SUFFICES ASSUME IInv, [Next]_vars PROVE IInv'
  OBVIOUS
<1>0. /\ TypeOK /\ Stages /\ Cleaned /\ Spared
      /\ Exclusive /\ Alone /\ Finished /\ KillsNoneInUse /\ Known
  BY DEF IInv
<1> USE DeviceAssumption DEF Servers, Stoppers, Starting, memory, servers, device
<1>1. ASSUME NEW e \in Encoders, Begin(e) PROVE IInv'
  <2> USE DEF Begin, SlotFree, GoTo
  <2>1. TypeOK'
    BY <1>1, <1>0 DEF TypeOK, StartStates
  <2>2. Stages'
    BY <1>1, <1>0 DEF Stages
  <2>3. Cleaned'
    BY <1>1, <1>0 DEF TypeOK, Stages, Cleaned
  <2>4. Spared'
    BY <1>1, <1>0 DEF Spared
  <2>5. Exclusive'
    BY <1>1, <1>0 DEF Stages, Exclusive
  <2>6. Alone'
    BY <1>1, <1>0 DEF Alone, Stopping
  <2>7. Finished'
    BY <1>1, <1>0 DEF Finished, Stopping
  <2>8. KillsNoneInUse'
    BY <1>1, <1>0 DEF KillsNoneInUse, Stopping
  <2>9. Known'
    BY <1>1, <1>0 DEF Known
  <2>10. QED
    BY <2>1, <2>2, <2>3, <2>4, <2>5, <2>6, <2>7, <2>8, <2>9 DEF IInv
<1>2. ASSUME NEW e \in Encoders, Detect(e) PROVE IInv'
  <2>1. CASE StartFails(e)
    BY <1>2, <1>0, <2>1, FailedStart DEF TypeOK, Detect
  <2>2. CASE GoTo(e, "push") /\ UNCHANGED stop /\ (calm => alive \subseteq finalizing)
    BY <1>2, <1>0, <2>2, StartAdvances DEF TypeOK, GoTo, Detect
  <2>3. QED
    BY <1>2, <2>1, <2>2 DEF Detect, AllFinalizing
<1>3. ASSUME NEW e \in Encoders, Push(e) PROVE IInv'
  <2>1. CASE StartFails(e)
    BY <1>3, <1>0, <2>1, FailedStart DEF TypeOK, Push
  <2>2. CASE GoTo(e, "unforward") /\ UNCHANGED stop
    BY <1>3, <1>0, <2>2, StartAdvances DEF TypeOK, GoTo, Push
  <2>3. QED
    BY <1>3, <2>1, <2>2 DEF Push
<1>4. ASSUME NEW e \in Encoders, ClearForward(e) PROVE IInv'
  BY <1>4, <1>0, StartAdvances DEF TypeOK, GoTo, ClearForward, MayBe
<1>5. ASSUME NEW e \in Encoders, SetForward(e) PROVE IInv'
  <2>1. CASE StartFails(e)
    BY <1>5, <1>0, <2>1, FailedStart DEF TypeOK, SetForward
  <2>2. CASE GoTo(e, "launch") /\ UNCHANGED stop
    BY <1>5, <1>0, <2>2, StartAdvances DEF TypeOK, GoTo, SetForward
  <2>3. QED
    BY <1>5, <2>1, <2>2 DEF SetForward
<1>6. ASSUME NEW e \in Encoders, Launch(e) PROVE IInv'
  <2> USE DEF Launch, GoTo
  <2>1. TypeOK'
    BY <1>6, <1>0 DEF TypeOK, Stages, StartStates
  <2>2. Stages'
    BY <1>6, <1>0 DEF TypeOK, Stages
  <2>3. Cleaned'
    BY <1>6, <1>0 DEF Stages, Cleaned
  <2>4. Spared'
    BY <1>6, <1>0 DEF Spared
  <2>5. Exclusive'
    BY <1>6, <1>0 DEF Exclusive
  <2>6. Alone'
    BY <1>6, <1>0 DEF Stages, Exclusive, Alone, Stopping
  <2>7. Finished'
    BY <1>6, <1>0 DEF Finished, Stopping
  <2>8. KillsNoneInUse'
    BY <1>6, <1>0 DEF KillsNoneInUse, Stopping
  <2>9. Known'
    BY <1>6, <1>0 DEF Known
  <2>10. QED
    BY <2>1, <2>2, <2>3, <2>4, <2>5, <2>6, <2>7, <2>8, <2>9 DEF IInv
<1>7. ASSUME NEW e \in Encoders, Connect(e) PROVE IInv'
  <2>1. CASE StartFails(e)
    BY <1>7, <1>0, <2>1, FailedStart DEF TypeOK, Connect
  <2>2. CASE GoTo(e, "enumerate") /\ UNCHANGED stop
    BY <1>7, <1>0, <2>2, StartAdvances DEF TypeOK, GoTo, Connect
  <2>3. QED
    BY <1>7, <2>1, <2>2 DEF Connect
<1>8. ASSUME NEW e \in Encoders, Enumerate(e) PROVE IInv'
  <2> USE DEF Enumerate, GoTo
  <2>1. TypeOK'
    BY <1>8, <1>0 DEF TypeOK, StartStates
  <2>2. Stages'
    BY <1>8, <1>0 DEF TypeOK, Stages
  <2>3. Cleaned'
    BY <1>8, <1>0 DEF TypeOK, Stages, Cleaned
  <2>4. Spared'
    BY <1>8, <1>0 DEF TypeOK, Spared
  <2>5. Exclusive'
    BY <1>8, <1>0 DEF Exclusive
  <2>6. Alone'
    BY <1>8, <1>0 DEF Alone, Stopping
  <2>7. Finished'
    BY <1>8, <1>0 DEF Finished, Stopping
  <2>8. KillsNoneInUse'
    BY SMTT(30), <1>8, <1>0 DEF TypeOK, KillsNoneInUse, Alone, Stopping
  <2>9. Known'
    BY <1>8, <1>0 DEF TypeOK, Stages, Known
  <2>10. QED
    BY <2>1, <2>2, <2>3, <2>4, <2>5, <2>6, <2>7, <2>8, <2>9 DEF IInv
<1>9. ASSUME NEW e \in Encoders, CancelStart(e) PROVE IInv'
  <2> USE DEF CancelStart, GoTo
  <2>1. start[e] \in Starting /\ StartFails(e) /\ forward' \in BOOLEAN
    BY <1>9, <1>0 DEF TypeOK
  <2>2. QED
    BY <1>9, <2>1, FailedStart
<1>10. ASSUME NEW e \in Encoders, StreamEnds(e) PROVE IInv'
  <2> USE DEF StreamEnds, GoTo
  <2>1. TypeOK'
    BY <1>10, <1>0 DEF TypeOK, StartStates, StopStates
  <2>2. Stages'
    BY <1>10, <1>0 DEF TypeOK, Stages
  <2>3. Cleaned'
    BY <1>10, <1>0 DEF Cleaned
  <2>4. Spared'
    BY <1>10, <1>0 DEF Spared
  <2>5. Exclusive'
    BY <1>10, <1>0 DEF Exclusive
  <2>6. Alone'
    BY <1>10, <1>0 DEF Alone, Stopping
  <2>7. Finished'
    BY <1>10, <1>0 DEF Finished, Stopping
  <2>8. KillsNoneInUse'
    BY <1>10, <1>0 DEF KillsNoneInUse, Stopping
  <2>9. Known'
    BY <1>10, <1>0 DEF Known
  <2>10. QED
    BY <2>1, <2>2, <2>3, <2>4, <2>5, <2>6, <2>7, <2>8, <2>9 DEF IInv
<1>11. ASSUME NEW e \in Encoders, ServiceAfterEnd(e) PROVE IInv'
  <2> USE DEF ServiceAfterEnd
  <2>1. TypeOK'
    BY <1>11, <1>0 DEF TypeOK, StopStates
  <2>2. Stages'
    BY <1>11, <1>0 DEF Stages
  <2>3. Cleaned'
    BY <1>11, <1>0 DEF Cleaned
  <2>4. Spared'
    BY <1>11, <1>0 DEF Spared
  <2>5. Exclusive'
    BY <1>11, <1>0 DEF Exclusive
  <2>6. Alone'
    BY <1>11, <1>0 DEF Alone, Stopping
  <2>7. Finished'
    BY <1>11, <1>0 DEF Finished, Stopping
  <2>8. KillsNoneInUse'
    BY <1>11, <1>0 DEF KillsNoneInUse, Stopping
  <2>9. Known'
    BY <1>11, <1>0 DEF Known
  <2>10. QED
    BY <2>1, <2>2, <2>3, <2>4, <2>5, <2>6, <2>7, <2>8, <2>9 DEF IInv
<1>12. ASSUME NEW e \in Encoders, ServiceStops(e) PROVE IInv'
  <2> USE DEF ServiceStops, GoTo
  <2>1. TypeOK'
    BY <1>12, <1>0 DEF TypeOK, StartStates, StopStates
  <2>2. Stages'
    BY <1>12, <1>0 DEF TypeOK, Stages
  <2>3. Cleaned'
    BY <1>12, <1>0 DEF Cleaned
  <2>4. Spared'
    BY <1>12, <1>0 DEF Spared
  <2>5. Exclusive'
    BY <1>12, <1>0 DEF Stages, Exclusive
  <2>6. Alone'
    BY <1>12, <1>0 DEF Alone, Stopping
  <2>7. Finished'
    BY <1>12, <1>0 DEF Finished, Stopping
  <2>8. KillsNoneInUse'
    BY <1>12, <1>0 DEF KillsNoneInUse, Stopping
  <2>9. Known'
    BY <1>12, <1>0 DEF Known
  <2>10. QED
    BY <2>1, <2>2, <2>3, <2>4, <2>5, <2>6, <2>7, <2>8, <2>9 DEF IInv
<1>13. ASSUME NEW e \in Encoders, Abandon(e) PROVE IInv'
  <2> USE DEF Abandon
  <2>1. TypeOK'
    BY <1>13, <1>0 DEF TypeOK
  <2>2. Stages'
    BY <1>13, <1>0 DEF Stages
  <2>3. Cleaned'
    BY <1>13, <1>0 DEF Cleaned
  <2>4. Spared'
    BY <1>13, <1>0 DEF Spared
  <2>5. Exclusive'
    BY <1>13, <1>0 DEF Exclusive
  <2>6. Alone'
    BY <1>13, <1>0 DEF Alone, Stopping
  <2>7. Finished'
    BY <1>13, <1>0 DEF Finished, Stopping
  <2>8. KillsNoneInUse'
    BY <1>13, <1>0 DEF KillsNoneInUse, Stopping
  <2>9. Known'
    BY <1>13, <1>0 DEF Known
  <2>10. QED
    BY <2>1, <2>2, <2>3, <2>4, <2>5, <2>6, <2>7, <2>8, <2>9 DEF IInv
<1>14. ASSUME NEW e \in Encoders, ServerRuns(e) PROVE IInv'
  <2> USE DEF ServerRuns
  <2>1. TypeOK'
    BY <1>14, <1>0 DEF TypeOK
  <2>2. Stages'
    BY <1>14, <1>0 DEF Stages
  <2>3. Cleaned'
    BY <1>14, <1>0 DEF Cleaned
  <2>4. Spared'
    BY <1>14, <1>0 DEF Spared
  <2>5. Exclusive'
    BY <1>14, <1>0 DEF Exclusive
  <2>6. Alone'
    BY <1>14, <1>0 DEF Alone, Stopping
  <2>7. Finished'
    BY <1>14, <1>0 DEF Finished, Stopping
  <2>8. KillsNoneInUse'
    BY <1>14, <1>0 DEF KillsNoneInUse, Stopping
  <2>9. Known'
    BY <1>14, <1>0 DEF Stages, Known
  <2>10. QED
    BY <2>1, <2>2, <2>3, <2>4, <2>5, <2>6, <2>7, <2>8, <2>9 DEF IInv
<1>15. ASSUME NEW e \in Encoders, NEW k \in Stoppers, SocketsClosed(e, k) PROVE IInv'
  <2> DEFINE there == IF deviceId[e] /\ remotePids[e] /= {} THEN "kill" ELSE "process"
  <2>a. /\ stop' = [stop EXCEPT ![e] = [stop[e] EXCEPT ![k] = there]]
        /\ stop' \in [Encoders -> [Stoppers -> StopStates]]
        /\ start[e] = "over" /\ stop[e][k] = "sockets"
    <3>1. stop' = [stop EXCEPT ![e] = [stop[e] EXCEPT ![k] = there]]
      BY <1>15 DEF SocketsClosed, StopTo
    <3>2. stop[e] \in [Stoppers -> StopStates] /\ stop \in [Encoders -> [Stoppers -> StopStates]]
      BY <1>0 DEF TypeOK
    <3>3. [stop[e] EXCEPT ![k] = there] \in [Stoppers -> StopStates]
      BY <3>2 DEF StopStates
    <3>4. QED
      BY <1>15, <1>0, <3>1, <3>2, <3>3 DEF SocketsClosed, Stages
  <2>b. /\ stop'[e][k] = there
        /\ \A f \in Encoders : f /= e => stop'[f] = stop[f]
        /\ \A j \in Stoppers : j /= k => stop'[e][j] = stop[e][j]
    BY <2>a, <1>0 DEF TypeOK
  <2>c. Stopping(e) /\ Stopping(e)' /\ \A f \in Encoders : Stopping(f) => Stopping(f)'
    BY <2>a, <2>b DEF Stopping
  <2>d. UNCHANGED <<start, deviceId, process, abandoned, device, named, calm>>
    BY <1>15 DEF SocketsClosed
  <2> HIDE DEF there
  <2>1. CASE deviceId[e] /\ remotePids[e] /= {}
    <3>a. /\ there = "kill"
          /\ finalizing' = finalizing \cup remotePids[e]
          /\ remotePids' = remotePids
          /\ victims' = [victims EXCEPT ![e] = [victims[e] EXCEPT ![k] = remotePids[e]]]
      BY <1>15, <2>1 DEF SocketsClosed, RegisterPids, there
    <3>b. /\ victims' \in [Encoders -> [Stoppers -> SUBSET Servers]]
          /\ victims'[e][k] = remotePids[e]
          /\ \A f \in Encoders : f /= e => victims'[f] = victims[f]
          /\ \A j \in Stoppers : j /= k => victims'[e][j] = victims[e][j]
      <4>1. /\ victims[e] \in [Stoppers -> SUBSET Servers]
            /\ victims \in [Encoders -> [Stoppers -> SUBSET Servers]]
            /\ remotePids[e] \in SUBSET Servers
        BY <1>0 DEF TypeOK
      <4>2. [victims[e] EXCEPT ![k] = remotePids[e]] \in [Stoppers -> SUBSET Servers]
        BY <4>1
      <4>3. QED
        BY <3>a, <4>1, <4>2
    <3>1. TypeOK'
      BY <1>0, <2>a, <2>b, <2>c, <2>d, <2>1, <3>a, <3>b DEF TypeOK
    <3>2. Stages'
      BY <1>0, <2>a, <2>b, <2>c, <2>d, <2>1, <3>a, <3>b DEF Stages
    <3>3. Cleaned'
      BY <1>0, <2>a, <2>b, <2>c, <2>d, <2>1, <3>a, <3>b DEF Cleaned
    <3>4. Spared'
      BY <1>0, <2>a, <2>b, <2>c, <2>d, <2>1, <3>a, <3>b DEF Spared
    <3>5. Exclusive'
      BY <1>0, <2>a, <2>b, <2>c, <2>d, <2>1, <3>a, <3>b DEF Exclusive
    <3>6. Alone'
      BY <1>0, <2>a, <2>b, <2>c, <2>d, <2>1, <3>a, <3>b DEF Alone
    <3>7. Finished'
      BY <1>0, <2>a, <2>b, <2>c, <2>d, <2>1, <3>a, <3>b DEF Finished, KillsNoneInUse
    <3>8. KillsNoneInUse'
      BY <1>0, <2>a, <2>b, <2>c, <2>d, <2>1, <3>a, <3>b DEF KillsNoneInUse
    <3>9. Known'
      BY <1>0, <2>a, <2>b, <2>c, <2>d, <2>1, <3>a, <3>b DEF Known
    <3>10. QED
      BY <3>1, <3>2, <3>3, <3>4, <3>5, <3>6, <3>7, <3>8, <3>9 DEF IInv
  <2>2. CASE ~(deviceId[e] /\ remotePids[e] /= {})
    <3>a. /\ there = "process"
          /\ remotePids[e] = {}
          /\ UNCHANGED <<finalizing, victims>>
          /\ remotePids' = [remotePids EXCEPT ![e] = {}]
      BY <1>15, <1>0, <2>2, <2>a DEF SocketsClosed, there, Cleaned
    <3>b. remotePids' = remotePids
      BY <3>a, <1>0 DEF TypeOK
    <3>1. TypeOK'
      BY <1>0, <2>a, <2>b, <2>c, <2>d, <2>2, <3>a, <3>b DEF TypeOK
    <3>2. Stages'
      BY <1>0, <2>a, <2>b, <2>c, <2>d, <2>2, <3>a, <3>b DEF Stages
    <3>3. Cleaned'
      BY <1>0, <2>a, <2>b, <2>c, <2>d, <2>2, <3>a, <3>b DEF Cleaned
    <3>4. Spared'
      BY <1>0, <2>a, <2>b, <2>c, <2>d, <2>2, <3>a, <3>b DEF Spared
    <3>5. Exclusive'
      BY <1>0, <2>a, <2>b, <2>c, <2>d, <2>2, <3>a, <3>b DEF Exclusive
    <3>6. Alone'
      BY <1>0, <2>a, <2>b, <2>c, <2>d, <2>2, <3>a, <3>b DEF Alone
    <3>7. Finished'
      BY <1>0, <2>a, <2>b, <2>c, <2>d, <2>2, <3>a, <3>b DEF Finished
    <3>8. KillsNoneInUse'
      BY <1>0, <2>a, <2>b, <2>c, <2>d, <2>2, <3>a, <3>b DEF KillsNoneInUse
    <3>9. Known'
      BY <1>0, <2>a, <2>b, <2>c, <2>d, <2>2, <3>a, <3>b DEF Known
    <3>10. QED
      BY <3>1, <3>2, <3>3, <3>4, <3>5, <3>6, <3>7, <3>8, <3>9 DEF IInv
  <2>3. QED
    BY <2>1, <2>2
<1>16. ASSUME NEW e \in Encoders, NEW k \in Stoppers, Kill(e, k) PROVE IInv'
  <2> USE DEF Kill, StopTo, Killed
  <2>1. TypeOK'
    BY <1>16, <1>0 DEF TypeOK, StopStates
  <2>2. Stages'
    BY <1>16, <1>0 DEF Stages
  <2>3. Cleaned'
    BY <1>16, <1>0 DEF TypeOK, Cleaned
  <2>4. Spared'
    BY <1>16, <1>0 DEF Spared
  <2>5. Exclusive'
    BY <1>16, <1>0 DEF Exclusive
  <2>6. Alone'
    BY <1>16, <1>0 DEF Alone, Stopping
  <2>7. Finished'
    BY <1>16, <1>0 DEF Finished, Stopping
  <2>8. KillsNoneInUse'
    BY <1>16, <1>0 DEF KillsNoneInUse, Stopping
  <2>9. Known'
    BY <1>16, <1>0 DEF TypeOK, Known
  <2>10. QED
    BY <2>1, <2>2, <2>3, <2>4, <2>5, <2>6, <2>7, <2>8, <2>9 DEF IInv
<1>17. ASSUME NEW e \in Encoders, NEW k \in Stoppers, ProcessEnded(e, k) PROVE IInv'
  <2> USE DEF ProcessEnded, StopTo
  <2>1. TypeOK'
    BY <1>17, <1>0 DEF TypeOK, StopStates
  <2>2. Stages'
    BY <1>17, <1>0 DEF Stages
  <2>3. Cleaned'
    BY <1>17, <1>0 DEF TypeOK, Cleaned
  <2>4. Spared'
    BY <1>17, <1>0 DEF Spared
  <2>5. Exclusive'
    BY <1>17, <1>0 DEF Exclusive
  <2>6. Alone'
    BY <1>17, <1>0 DEF Alone, Stopping
  <2>7. Finished'
    BY <1>17, <1>0 DEF Finished, Stopping
  <2>8. KillsNoneInUse'
    BY <1>17, <1>0 DEF KillsNoneInUse, Stopping
  <2>9. Known'
    BY <1>17, <1>0 DEF Known
  <2>10. QED
    BY <2>1, <2>2, <2>3, <2>4, <2>5, <2>6, <2>7, <2>8, <2>9 DEF IInv
<1>18. ASSUME NEW e \in Encoders, NEW k \in Stoppers, ForwardRemoved(e, k) PROVE IInv'
  <2> USE DEF ForwardRemoved, StopTo, MayBe, ForgetsDevice
  <2>1. TypeOK'
    BY <1>18, <1>0 DEF TypeOK, StopStates
  <2>2. Stages'
    BY <1>18, <1>0 DEF Stages
  <2>3. Cleaned'
    BY <1>18, <1>0 DEF TypeOK, Stages, Cleaned
  <2>4. Spared'
    BY <1>18, <1>0 DEF Spared
  <2>5. Exclusive'
    BY <1>18, <1>0 DEF Exclusive
  <2>6. Alone'
    BY <1>18, <1>0 DEF Alone, Stopping
  <2>7. Finished'
    BY <1>18, <1>0 DEF Finished, Stopping
  <2>8. KillsNoneInUse'
    BY <1>18, <1>0 DEF KillsNoneInUse, Stopping
  <2>9. Known'
    BY <1>18, <1>0 DEF Known
  <2>10. QED
    BY <2>1, <2>2, <2>3, <2>4, <2>5, <2>6, <2>7, <2>8, <2>9 DEF IInv
<1>19. ASSUME NEW p \in Servers, ServerDies(p) PROVE IInv'
  <2> USE DEF ServerDies
  <2>1. TypeOK'
    BY <1>19, <1>0 DEF TypeOK
  <2>2. Stages'
    BY <1>19, <1>0 DEF Stages
  <2>3. Cleaned'
    BY <1>19, <1>0 DEF Cleaned
  <2>4. Spared'
    BY <1>19, <1>0 DEF Spared
  <2>5. Exclusive'
    BY <1>19, <1>0 DEF Exclusive
  <2>6. Alone'
    BY <1>19, <1>0 DEF Alone, Stopping
  <2>7. Finished'
    BY <1>19, <1>0 DEF Finished, Stopping
  <2>8. KillsNoneInUse'
    BY <1>19, <1>0 DEF KillsNoneInUse, Stopping
  <2>9. Known'
    BY <1>19, <1>0 DEF Known
  <2>10. QED
    BY <2>1, <2>2, <2>3, <2>4, <2>5, <2>6, <2>7, <2>8, <2>9 DEF IInv
<1>20. ASSUME NEW p \in Servers, FinalizingExpires(p) PROVE IInv'
  <2> USE DEF FinalizingExpires
  <2>1. TypeOK'
    BY <1>20, <1>0 DEF TypeOK
  <2>2. Stages'
    BY <1>20, <1>0 DEF Stages
  <2>3. Cleaned'
    BY <1>20, <1>0 DEF Cleaned
  <2>4. Spared'
    BY <1>20, <1>0 DEF Spared
  <2>5. Exclusive'
    BY <1>20, <1>0 DEF Exclusive
  <2>6. Alone'
    BY <1>20, <1>0 DEF Alone, Stopping
  <2>7. Finished'
    BY <1>20, <1>0 DEF Finished, Stopping
  <2>8. KillsNoneInUse'
    BY <1>20, <1>0 DEF KillsNoneInUse, Stopping
  <2>9. Known'
    BY <1>20, <1>0 DEF Known
  <2>10. QED
    BY <2>1, <2>2, <2>3, <2>4, <2>5, <2>6, <2>7, <2>8, <2>9 DEF IInv
<1>21. ASSUME OtherStarts PROVE IInv'
  <2> USE DEF OtherStarts
  <2>1. TypeOK'
    BY <1>21, <1>0 DEF TypeOK
  <2>2. Stages'
    BY <1>21, <1>0 DEF Stages
  <2>3. Cleaned'
    BY <1>21, <1>0 DEF Cleaned
  <2>4. Spared'
    BY <1>21, <1>0 DEF Spared
  <2>5. Exclusive'
    BY <1>21, <1>0 DEF Exclusive
  <2>6. Alone'
    BY <1>21, <1>0 DEF Alone
  <2>7. Finished'
    BY <1>21, <1>0 DEF Finished
  <2>8. KillsNoneInUse'
    BY <1>21, <1>0 DEF KillsNoneInUse
  <2>9. Known'
    BY <1>21, <1>0 DEF Known
  <2>10. QED
    BY <2>1, <2>2, <2>3, <2>4, <2>5, <2>6, <2>7, <2>8, <2>9 DEF IInv
<1>22. CASE UNCHANGED vars
  <2> USE DEF vars
  <2>1. TypeOK'
    BY <1>22, <1>0 DEF TypeOK
  <2>2. Stages'
    BY <1>22, <1>0 DEF Stages
  <2>3. Cleaned'
    BY <1>22, <1>0 DEF Cleaned
  <2>4. Spared'
    BY <1>22, <1>0 DEF Spared
  <2>5. Exclusive'
    BY <1>22, <1>0 DEF Exclusive
  <2>6. Alone'
    BY <1>22, <1>0 DEF Alone, Stopping
  <2>7. Finished'
    BY <1>22, <1>0 DEF Finished, Stopping
  <2>8. KillsNoneInUse'
    BY <1>22, <1>0 DEF KillsNoneInUse, Stopping
  <2>9. Known'
    BY <1>22, <1>0 DEF Known
  <2>10. QED
    BY <2>1, <2>2, <2>3, <2>4, <2>5, <2>6, <2>7, <2>8, <2>9 DEF IInv
<1>23. QED
  BY <1>1, <1>2, <1>3, <1>4, <1>5, <1>6, <1>7, <1>8, <1>9, <1>10, <1>11, <1>12, <1>13, <1>14, <1>15, <1>16, <1>17, <1>18, <1>19, <1>20, <1>21, <1>22 DEF Next

\* The invariant holds at every moment of every run.
LEMMA SpecIInv == Spec => []IInv
  BY InitIInv, StepIInv, PTL DEF Spec

\* Type correctness; a killed server is one that runs, and none that runs is
\* still being launched.
THEOREM TypeCorrect == Spec => []TypeOK
<1>1. IInv => TypeOK
  BY DEF IInv
<1>2. QED
  BY <1>1, SpecIInv, PTL

\* However many encoders follow one another, and whether or not a session is
\* abandoned before its encoder is stopped, no stop() kills the server of an
\* encoder that nobody is stopping.
THEOREM NoneInUseKilled == Spec => []KillsNoneInUse
<1>1. IInv => KillsNoneInUse
  BY DEF IInv
<1>2. QED
  BY <1>1, SpecIInv, PTL

\* A server that was there before us is refused by the detection, never killed.
THEOREM OtherIsSpared == Spec => []OtherSpared
<1>1. IInv => OtherSpared
  BY DEF IInv, Spared, OtherSpared
<1>2. QED
  BY <1>1, SpecIInv, PTL

\* Whichever of its two calls of stop() kills them, and in whatever order their
\* steps come, the servers an encoder knew do not outlive its stop().
THEOREM KnownServersDie == Spec => []KnownServersEnd
<1>1. IInv => KnownServersEnd
  <2> SUFFICES ASSUME IInv, calm, NEW e \in Encoders, Stopped(e), e \in named
               PROVE  e \notin alive \ doomed
    BY DEF KnownServersEnd
  <2>1. remotePids[e] = {}
    BY DEF IInv, Cleaned, Stopped, Stoppers
  <2>2. QED
    BY <2>1 DEF IInv, Known
<1>2. QED
  BY <1>1, SpecIInv, PTL

\* When the service's call of stop() has returned the encoder holds no process,
\* device or pids, even if the call by start() is still between two steps.
THEOREM StoppedIsClean == Spec => []StoppedClean
<1>1. IInv => StoppedClean
  BY DEF IInv, Cleaned, Stopped, StoppedClean, Stoppers
<1>2. QED
  BY <1>1, SpecIInv, PTL
=============================================================================
