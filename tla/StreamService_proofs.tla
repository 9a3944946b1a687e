----------------------- MODULE StreamService_proofs -----------------------
(***************************************************************************)
(* The safety of StreamService for any number of sessions, tiers, retries   *)
(* and stalls, and that it implements StreamSlot.  The invariants are not   *)
(* inductive one by one: whether a cleanup pops a foreign entry depends on  *)
(* where handler and generator of every session can be (Stages), on who is  *)
(* registered (Registered), and on the epochs and tiers of the sessions no  *)
(* cleanup disturbed (Undisturbed).  IInv is all of them together.          *)
(***************************************************************************)
EXTENDS StreamService, TLAPS

\* The empty registry satisfies the inductive invariant.
LEMMA InitIInv == Init => IInv
<1> SUFFICES ASSUME Init PROVE IInv
  OBVIOUS
<1> USE ServiceAssumption DEF Init, Streaming
<1>1. RegistryTyped
  BY DEF RegistryTyped, GenStates, WsStates, Reasons
<1>2. SessionTyped
  BY DEF SessionTyped, GenStates, WsStates, Reasons
<1>3. FlagsTyped
  BY DEF FlagsTyped, GenStates, WsStates, Reasons
<1>4. OwnerStreams
  BY DEF OwnerStreams, GenStates, WsStates, Reasons
<1>5. TokenAlive
  BY DEF TokenAlive, GenStates, WsStates, Reasons
<1>6. Routing
  BY DEF Routing, GenStates, WsStates, Reasons
<1>7. NoLostWakeup
  BY DEF NoLostWakeup, GenStates, WsStates, Reasons
<1>8. ParserFresh
  BY DEF ParserFresh, GenStates, WsStates, Reasons
<1>9. Stages
  BY DEF Stages, GenStates, WsStates, Reasons
<1>10. Registered
  BY DEF Registered, GenStates, WsStates, Reasons
<1>11. Undisturbed
  BY DEF Undisturbed, GenStates, WsStates, Reasons
<1>12. QED
  BY <1>1, <1>2, <1>3, <1>4, <1>5, <1>6, <1>7, <1>8, <1>9, <1>10, <1>11
     DEF IInv, TypeOK

\* Every step keeps it: one step per action, and one per conjunct of the invariant
\* where one leaf cannot settle the action.
LEMMA StepIInv == IInv /\ [Next]_vars => IInv'
<1> SUFFICES ASSUME IInv, [Next]_vars PROVE IInv'
  OBVIOUS
<1> USE ServiceAssumption
<1> USE DEF IInv, TypeOK, RegistryTyped, SessionTyped, FlagsTyped, OwnerStreams,
            TokenAlive, Routing, NoLostWakeup, ParserFresh, Stages, Registered,
            Undisturbed, GenStates, WsStates, Streaming, Reasons
<1> USE DEF registry, generator, handler, history, AwaitFrameOrEvent,
            StopEncoder, Teardown, TokenPopped, PopOwn, NewEncoder, NextEpoch,
            Exhausted, Busy, Claim, Released, Switched
<1>1. ASSUME NEW s \in Sessions, AcquireWait(s) PROVE IInv'
  BY <1>1 DEF AcquireWait
<1>2. ASSUME NEW s \in Sessions, Refuse(s) PROVE IInv'
  BY <1>2 DEF Refuse
<1>3. ASSUME NEW s \in Sessions, Acquire(s) PROVE IInv'
  <2>1. RegistryTyped'
    BY <1>3 DEF Acquire
  <2>2. SessionTyped'
    BY <1>3 DEF Acquire
  <2>3. FlagsTyped'
    BY <1>3 DEF Acquire
  <2>4. OwnerStreams'
    BY <1>3 DEF Acquire
  <2>5. TokenAlive'
    BY <1>3 DEF Acquire
  <2>6. Routing'
    BY <1>3 DEF Acquire
  <2>7. NoLostWakeup'
    BY <1>3 DEF Acquire
  <2>8. ParserFresh'
    BY <1>3 DEF Acquire
  <2>9. Stages'
    BY <1>3 DEF Acquire
  <2>10. Registered'
    BY <1>3 DEF Acquire
  <2>11. Undisturbed'
    BY <1>3 DEF Acquire
  <2>12. QED
    BY <2>1, <2>2, <2>3, <2>4, <2>5, <2>6, <2>7, <2>8, <2>9, <2>10, <2>11
       DEF IInv, TypeOK
<1>4. ASSUME NEW s \in Sessions, ClaimRejected(s) PROVE IInv'
  BY <1>4 DEF ClaimRejected
<1>5. ASSUME NEW s \in Sessions, FrameReady(s) PROVE IInv'
  <2>1. RegistryTyped'
    BY <1>5 DEF FrameReady
  <2>2. SessionTyped'
    BY <1>5 DEF FrameReady
  <2>3. FlagsTyped'
    BY <1>5 DEF FrameReady
  <2>4. OwnerStreams'
    BY <1>5 DEF FrameReady
  <2>5. TokenAlive'
    BY <1>5 DEF FrameReady
  <2>6. Routing'
    BY <1>5 DEF FrameReady
  <2>7. NoLostWakeup'
    BY <1>5 DEF FrameReady
  <2>8. ParserFresh'
    BY <1>5 DEF FrameReady
  <2>9. Stages'
    BY <1>5 DEF FrameReady
  <2>10. Registered'
    BY <1>5 DEF FrameReady
  <2>11. Undisturbed'
    BY <1>5 DEF FrameReady
  <2>12. QED
    BY <2>1, <2>2, <2>3, <2>4, <2>5, <2>6, <2>7, <2>8, <2>9, <2>10, <2>11
       DEF IInv, TypeOK
<1>6. ASSUME NEW s \in Sessions, SendOk(s) PROVE IInv'
  <2>1. /\ active = s
        /\ gen[s] = "yielded"
        /\ ws' = [ws EXCEPT ![s] = "run"]
        /\ gen' = [gen EXCEPT ![s] = "wait"]
        /\ pending' = pending
        /\ UNCHANGED <<active, encoders, advisors, restartEvents, epoch, stalls,
                       grace, why, bps, adv, tries, seen, client, history>>
    BY <1>6 DEF SendOk
  <2>2. RegistryTyped'
    BY <2>1
  <2>3. SessionTyped'
    BY <2>1
  <2>4. FlagsTyped'
    <3>1. event' \in [Sessions -> BOOLEAN]
      <4>1. event' = [event EXCEPT ![s] =
                         IF pending' = Absent THEN FALSE ELSE event[s]]
        BY <1>6, <2>1 DEF SendOk
      <4>2. CASE pending' = Absent
        BY <4>1, <4>2
      <4>3. CASE pending' /= Absent
        BY <4>1, <4>3
      <4>4. QED BY <4>2, <4>3
    <3>2. UNCHANGED <<grace, client, stale, overlapped>>
      BY <2>1
    <3>3. QED BY <3>1, <3>2
  <2>5. OwnerStreams'
    BY <2>1
  <2>6. TokenAlive'
    BY <2>1
  <2>7. Routing'
    BY <1>6 DEF SendOk
  <2>8. NoLostWakeup'
    BY <1>6, <2>1 DEF SendOk
  <2>9. ParserFresh'
    BY <2>1
  <2>10. Stages'
    BY <2>1
  <2>11. Registered'
    <3>1. \A t \in Sessions : gen'[t] = "none" <=> gen[t] = "none"
      BY <2>1
    <3>2. \A t \in Sessions : gen'[t] = "backoff" <=> gen[t] = "backoff"
      BY <2>1
    <3>3. \A t \in Sessions : ws'[t] \in Streaming <=> ws[t] \in Streaming
      BY <2>1, <1>6 DEF SendOk
    <3>4. UNCHANGED <<encoders, advisors, restartEvents, pending, epoch, stalls,
                      grace, adv>>
      BY <2>1
    <3>5. QED BY <3>1, <3>2, <3>3, <3>4
  <2>12. Undisturbed'
    BY <1>6, ZenonT(30) DEF SendOk
  <2>13. QED
    BY <2>2, <2>3, <2>4, <2>5, <2>6, <2>7, <2>8, <2>9, <2>10, <2>11, <2>12
       DEF IInv, TypeOK
<1>7. ASSUME NEW s \in Sessions, SendFail(s) PROVE IInv'
  BY <1>7 DEF SendFail
<1>8. ASSUME NEW s \in Sessions, GenClose(s) PROVE IInv'
  BY <1>8 DEF GenClose
<1>9. ASSUME NEW s \in Sessions, GenEnd(s) PROVE IInv'
  BY <1>9 DEF GenEnd
<1>10. ASSUME NEW s \in Sessions, GenStall(s) PROVE IInv'
  BY <1>10 DEF GenStall
<1>11. ASSUME NEW s \in Sessions, GenRestart(s) PROVE IInv'
  <2>1. RegistryTyped'
    BY <1>11 DEF GenRestart
  <2>2. SessionTyped'
    BY <1>11 DEF GenRestart
  <2>3. FlagsTyped'
    <3>1. grace' \in BOOLEAN
      BY <1>11 DEF GenRestart
    <3>2. event' \in [Sessions -> BOOLEAN]
      <4>1. \/ event' = [event EXCEPT ![s] = FALSE]
            \/ event' = event
        BY <1>11 DEF GenRestart
      <4>2. QED BY <4>1
    <3>3. /\ client' \in [Sessions -> BOOLEAN]
          /\ stale' \in [Sessions -> BOOLEAN]
          /\ overlapped' \in [Sessions -> BOOLEAN]
      BY <1>11 DEF GenRestart
    <3>4. QED BY <3>1, <3>2, <3>3
  <2>4. OwnerStreams'
    BY <1>11 DEF GenRestart
  <2>5. TokenAlive'
    BY <1>11 DEF GenRestart
  <2>6. Routing'
    BY <1>11 DEF GenRestart
  <2>7. NoLostWakeup'
    BY <1>11 DEF GenRestart
  <2>8. ParserFresh'
    BY <1>11 DEF GenRestart
  <2>9. Stages'
    BY <1>11 DEF GenRestart
  <2>10. Registered'
    BY <1>11 DEF GenRestart
  <2>11. Undisturbed'
    BY <1>11 DEF GenRestart
  <2>12. QED
    BY <2>1, <2>2, <2>3, <2>4, <2>5, <2>6, <2>7, <2>8, <2>9, <2>10, <2>11
       DEF IInv, TypeOK
<1>12. ASSUME NEW s \in Sessions, RestartStopped(s) PROVE IInv'
  <2>1. RegistryTyped'
    BY <1>12 DEF RestartStopped
  <2>2. SessionTyped'
    BY <1>12 DEF RestartStopped
  <2>3. FlagsTyped'
    BY <1>12 DEF RestartStopped
  <2>4. OwnerStreams'
    BY <1>12 DEF RestartStopped
  <2>5. TokenAlive'
    BY <1>12 DEF RestartStopped
  <2>6. Routing'
    BY <1>12 DEF RestartStopped
  <2>7. NoLostWakeup'
    BY <1>12 DEF RestartStopped
  <2>8. ParserFresh'
    BY <1>12 DEF RestartStopped
  <2>9. Stages'
    BY <1>12 DEF RestartStopped
  <2>10. Registered'
    BY <1>12 DEF RestartStopped
  <2>11. Undisturbed'
    BY <1>12 DEF RestartStopped
  <2>12. QED
    BY <2>1, <2>2, <2>3, <2>4, <2>5, <2>6, <2>7, <2>8, <2>9, <2>10, <2>11
       DEF IInv, TypeOK
<1>13. ASSUME NEW s \in Sessions, StallStopped(s) PROVE IInv'
  <2>1. RegistryTyped'
    BY <1>13 DEF StallStopped
  <2>2. SessionTyped'
    BY <1>13 DEF StallStopped
  <2>3. FlagsTyped'
    <3>1. grace' \in BOOLEAN /\ event' \in [Sessions -> BOOLEAN]
      BY <1>13 DEF StallStopped
    <3>2. /\ client' \in [Sessions -> BOOLEAN]
          /\ stale' \in [Sessions -> BOOLEAN]
          /\ overlapped' \in [Sessions -> BOOLEAN]
      BY <1>13 DEF StallStopped
    <3>3. QED BY <3>1, <3>2
  <2>4. OwnerStreams'
    BY <1>13 DEF StallStopped
  <2>5. TokenAlive'
    BY <1>13 DEF StallStopped
  <2>6. Routing'
    BY <1>13 DEF StallStopped
  <2>7. NoLostWakeup'
    BY <1>13 DEF StallStopped
  <2>8. ParserFresh'
    BY <1>13 DEF StallStopped
  <2>9. Stages'
    BY <1>13 DEF StallStopped
  <2>10. Registered'
    BY <1>13 DEF StallStopped
  <2>11. Undisturbed'
    BY <1>13 DEF StallStopped
  <2>12. QED
    BY <2>1, <2>2, <2>3, <2>4, <2>5, <2>6, <2>7, <2>8, <2>9, <2>10, <2>11
       DEF IInv, TypeOK
<1>14. ASSUME NEW s \in Sessions, BackoffDone(s) PROVE IInv'
  <2>1. RegistryTyped'
    BY <1>14 DEF BackoffDone
  <2>2. SessionTyped'
    BY <1>14 DEF BackoffDone
  <2>3. FlagsTyped'
    BY <1>14 DEF BackoffDone
  <2>4. OwnerStreams'
    BY <1>14 DEF BackoffDone
  <2>5. TokenAlive'
    BY <1>14 DEF BackoffDone
  <2>6. Routing'
    BY <1>14 DEF BackoffDone
  <2>7. NoLostWakeup'
    BY <1>14 DEF BackoffDone
  <2>8. ParserFresh'
    BY <1>14 DEF BackoffDone
  <2>9. Stages'
    BY <1>14 DEF BackoffDone
  <2>10. Registered'
    BY <1>14 DEF BackoffDone
  <2>11. Undisturbed'
    BY <1>14 DEF BackoffDone
  <2>12. QED
    BY <2>1, <2>2, <2>3, <2>4, <2>5, <2>6, <2>7, <2>8, <2>9, <2>10, <2>11
       DEF IInv, TypeOK
<1>15. ASSUME NEW s \in Sessions, EndStopped(s) PROVE IInv'
  <2>1. RegistryTyped'
    BY <1>15 DEF EndStopped
  <2>2. SessionTyped'
    BY <1>15 DEF EndStopped
  <2>3. FlagsTyped'
    BY <1>15 DEF EndStopped
  <2>4. OwnerStreams'
    BY <1>15 DEF EndStopped
  <2>5. TokenAlive'
    BY <1>15 DEF EndStopped
  <2>6. Routing'
    BY <1>15 DEF EndStopped
  <2>7. NoLostWakeup'
    BY <1>15 DEF EndStopped
  <2>8. ParserFresh'
    BY <1>15 DEF EndStopped
  <2>9. Stages'
    BY <1>15 DEF EndStopped
  <2>10. Registered'
    BY <1>15 DEF EndStopped
  <2>11. Undisturbed'
    BY <1>15 DEF EndStopped
  <2>12. QED
    BY <2>1, <2>2, <2>3, <2>4, <2>5, <2>6, <2>7, <2>8, <2>9, <2>10, <2>11
       DEF IInv, TypeOK
<1>16. ASSUME NEW s \in Sessions, Farewell(s) PROVE IInv'
  BY <1>16 DEF Farewell
<1>17. ASSUME NEW s \in Sessions, Release(s) PROVE IInv'
  BY <1>17 DEF Release
<1>18. ASSUME NEW s \in Sessions, ReportFps(s) PROVE IInv'
  BY <1>18 DEF ReportFps
<1>19. ASSUME NEW s \in Sessions, ClientGone(s) PROVE IInv'
  BY <1>19 DEF ClientGone
<1>20. ASSUME NEW s \in Sessions, Reconnect(s) PROVE IInv'
  BY <1>20 DEF Reconnect
<1>21. CASE GraceOver
  BY <1>21 DEF GraceOver
<1>22. CASE UNCHANGED vars
  BY <1>22 DEF vars
<1>23. QED
  BY <1>1, <1>2, <1>3, <1>4, <1>5, <1>6, <1>7, <1>8, <1>9, <1>10, <1>11,
     <1>12, <1>13, <1>14, <1>15, <1>16, <1>17, <1>18, <1>19, <1>20, <1>21,
     <1>22 DEF Next

-----------------------------------------------------------------------------
\* The service is type correct and its registry, its sessions and its parser
\* epochs fit together in every reachable state (StreamService, 59-409).
THEOREM Invariance == Spec => []IInv
<1>1. Init => IInv
  BY InitIInv
<1>2. IInv /\ [Next]_vars => IInv'
  BY StepIInv
<1>3. QED BY <1>1, <1>2, PTL DEF Spec

\* Every variable of the service keeps its type.
THEOREM TypeCorrect == Spec => []TypeOK
<1>1. IInv => TypeOK
  BY DEF IInv
<1>2. QED BY <1>1, Invariance, PTL

\* A streaming handler owns the slot, and an owned slot has a handler that will
\* give it back, for any number of sessions and overlapping cleanups.
THEOREM ExclusiveSlot == Spec => [](OwnerStreams /\ TokenAlive)
<1>1. IInv => OwnerStreams /\ TokenAlive
  BY DEF IInv
<1>2. QED BY <1>1, Invariance, PTL

\* Input and switches of a streaming session reach its own encoder and event,
\* and a pending switch always finds the event set.
THEOREM StreamRouting == Spec => [](Routing /\ NoLostWakeup)
<1>1. IInv => Routing /\ NoLostWakeup
  BY DEF IInv
<1>2. QED BY <1>1, Invariance, PTL

\* No frame of a restarted encoder meets the parser state of its predecessor,
\* and the advisor's tier is the encoder's, unless a foreign cleanup interfered.
THEOREM EpochsAgree == Spec => [](ParserFresh /\ AdvisorAgrees)
<1>1. IInv => ParserFresh
  BY DEF IInv
<1>2. IInv => AdvisorAgrees
  BY DEF IInv, Undisturbed, AdvisorAgrees
<1>3. QED BY <1>1, <1>2, Invariance, PTL

\* When all sessions are over the registry is empty.
THEOREM CleanEnd == Spec => []NothingLeft
<1>1. IInv => NothingLeft
  BY DEF IInv, TypeOK, RegistryTyped, TokenAlive, Registered, NothingLeft,
         Streaming
<1>2. QED BY <1>1, Invariance, PTL

-----------------------------------------------------------------------------
\* A step of the service grants the slot, frees it, or leaves it to its holder.
LEMMA SlotStep ==
  ASSUME IInv, [Next]_vars
  PROVE  \/ UNCHANGED (IF active \in Sessions THEN active ELSE Absent)
         \/ /\ active \notin Sessions
            /\ active' \in Sessions
         \/ /\ active \in Sessions
            /\ active' \notin Sessions
<1> USE ServiceAssumption DEF IInv, TypeOK, RegistryTyped
<1>1. ASSUME NEW s \in Sessions, Claim(s)
      PROVE  active \notin Sessions /\ active' \in Sessions
  BY <1>1 DEF Claim, Busy
<1>2. ASSUME NEW s \in Sessions, Teardown(s)
      PROVE  active' = active \/ active' \notin Sessions
  BY <1>2 DEF Teardown, TokenPopped
<1>3. ASSUME NEW s \in Sessions, Release(s)
      PROVE  active' = active \/ active' \notin Sessions
  BY <1>3 DEF Release, Released
<1>4. ASSUME NEW s \in Sessions, StallStopped(s)
      PROVE  active' = active \/ active' \notin Sessions
  BY <1>2, <1>4 DEF StallStopped
<1>5. CASE UNCHANGED vars
  BY <1>5 DEF vars, registry
<1>6. ASSUME NEW s \in Sessions,
             Acquire(s) \/ ClaimRejected(s) \/ StallStopped(s) \/
             EndStopped(s) \/ Release(s)
      PROVE  \/ active' = active
             \/ active \notin Sessions /\ active' \in Sessions
             \/ active' \notin Sessions
  BY <1>1, <1>2, <1>3, <1>4, <1>6 DEF Acquire, ClaimRejected, EndStopped
<1>7. ASSUME NEW s \in Sessions,
             \/ AcquireWait(s) \/ Refuse(s) \/ FrameReady(s) \/ SendOk(s)
             \/ SendFail(s) \/ GenClose(s) \/ GenEnd(s) \/ GenStall(s)
             \/ GenRestart(s) \/ RestartStopped(s) \/ BackoffDone(s)
             \/ Farewell(s) \/ ReportFps(s) \/ ClientGone(s) \/ Reconnect(s)
      PROVE  active' = active
  BY <1>7 DEF AcquireWait, Refuse, FrameReady, SendOk, SendFail, GenClose,
     GenEnd, GenStall, GenRestart, RestartStopped, BackoffDone, Farewell,
     ReportFps, ClientGone, Reconnect, registry
<1>8. CASE GraceOver
  BY <1>8 DEF GraceOver
<1>9. QED BY <1>5, <1>6, <1>7, <1>8 DEF Next

\* The service implements the exclusive slot of StreamSlot: a session is granted
\* the slot only while it is free, whatever the cleanups of others do.
THEOREM Refinement == Spec => ImplementsSlot
<1> USE ServiceAssumption
<1>1. Init => Slot!Init
  BY DEF Init, Slot!Init
<1>2. IInv /\ [Next]_vars =>
        [Slot!Next]_(IF active \in Sessions THEN active ELSE Absent)
  BY SlotStep DEF Slot!Next, Slot!Grant, Slot!Yield
<1>3. QED BY <1>1, <1>2, Invariance, PTL DEF Spec, ImplementsSlot, Slot!Spec
=============================================================================
