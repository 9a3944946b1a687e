-------------------------- MODULE Recording_proofs --------------------------
(***************************************************************************)
(* The safety of Recording for any number of starts.  Three facts hold up   *)
(* the others: every start grants the device one degraded retry, which      *)
(* bounds the recorders of a session (Granted); a session whose             *)
(* start_recording is under way holds _pending_starts, alone, and has no    *)
(* state yet (Starts); and a stop in flight belongs to a session that       *)
(* neither records nor is done (Stops).                                     *)
(***************************************************************************)
EXTENDS Recording, FiniteSetTheorems, TLAPS

\* The sessions 1..n have been started, and the recorders of each are no more than
\* the starts since its own, one less while the last start's grant is unused.
GrantedUpTo(n) ==
    \A s \in Sessions :
        /\ recorder[<<s, 1>>] /= "none" <=> s <= n
        /\ \A a \in Attempts : recorder[<<s, a>>] /= "none" =>
               IF degraded THEN a <= n - s + 2 ELSE a <= n - s + 1

Granted == \E n \in 0..MaxSessions : GrantedUpTo(n)

Starts ==
    /\ \A r, s \in pending : r = s
    /\ \A s \in Sessions :
          /\ starting[s] /= "idle" => s \in pending /\ state[s] = "none"
          /\ s \in pending \/ state[s] /= "none" => recorder[<<s, 1>>] /= "none"
    /\ pending /= {} => sessions = None \/ state[sessions] /= "recording"

Stops ==
    \A s \in Sessions :
        stopping[s] /= "idle" => state[s] \in {"stopping", "pulling", "failed"}

IInv == TypeOK /\ Granted /\ Starts /\ Stops

\* Before the first start nothing is recorded.
LEMMA InitIInv == Init => IInv
<1> SUFFICES ASSUME Init PROVE IInv
  OBVIOUS
<1> USE RecordingAssumption DEF Init
<1>1. TypeOK
  BY DEF TypeOK, InProgress, Terminal
<1>2. Granted
  <2>1. GrantedUpTo(0)
    BY DEF GrantedUpTo, Sessions, Tasks, Attempts
  <2>2. QED
    BY <2>1 DEF Granted
<1>3. Starts
  BY DEF Starts
<1>4. Stops
  BY DEF Stops
<1>5. QED
  BY <1>1, <1>2, <1>3, <1>4 DEF IInv

\* A retry stays within the bound: the device still has an unused grant.
LEMMA RetryIsGranted ==
  ASSUME TypeOK, Granted, NEW t \in Tasks, MayDegrade(t)
  PROVE  Retry(t) \in Tasks
<1> USE RecordingAssumption DEF Sessions, Attempts, Tasks, MayDegrade, Retry
<1>1. PICK n \in 0..MaxSessions : GrantedUpTo(n)
  BY DEF Granted
<1>2. t = <<t[1], t[2]>> /\ t[1] \in Sessions /\ t[2] \in Attempts
  OBVIOUS
<1>3. recorder[<<t[1], t[2]>>] /= "none" /\ ~degraded
  BY <1>2
<1>4. t[2] <= n - t[1] + 1
  BY <1>1, <1>2, <1>3 DEF GrantedUpTo
<1>5. QED
  BY <1>2, <1>4

\* ... and keeps the recorders bounded by the grants.
LEMMA RetryKeepsGranted ==
  ASSUME TypeOK, Granted, NEW t \in Tasks, MayDegrade(t),
         degraded' = TRUE, Launch(Retry(t))
  PROVE  Granted'
<1>1. PICK n \in 0..MaxSessions : GrantedUpTo(n)
  BY DEF Granted
<1>2. t = <<t[1], t[2]>> /\ t[1] \in Sessions /\ t[2] \in Attempts
  BY DEF Tasks
<1>3. Retry(t) \in Tasks /\ Retry(t) = <<t[1], t[2] + 1>>
  BY RetryIsGranted DEF Retry
<1>4. \A u \in Tasks : recorder'[u] = IF u = Retry(t) THEN "running" ELSE recorder[u]
  BY <1>3 DEF Launch, TypeOK
<1>5. recorder[<<t[1], t[2]>>] /= "none" /\ ~degraded
  BY <1>2 DEF MayDegrade
<1>6. t[2] <= n - t[1] + 1
  BY <1>1, <1>2, <1>5 DEF GrantedUpTo
<1>7. ASSUME NEW s \in Sessions
      PROVE  /\ recorder'[<<s, 1>>] /= "none" <=> s <= n
             /\ \A a \in Attempts : recorder'[<<s, a>>] /= "none" => a <= n - s + 2
  <2> USE RecordingAssumption DEF Sessions, Attempts, Tasks
  <2>1. recorder'[<<s, 1>>] = recorder[<<s, 1>>]
    BY <1>2, <1>3, <1>4
  <2>2. ASSUME NEW a \in Attempts, recorder'[<<s, a>>] /= "none"
        PROVE  a <= n - s + 2
    <3>1. CASE <<s, a>> = Retry(t)
      BY <3>1, <1>2, <1>3, <1>6
    <3>2. CASE <<s, a>> /= Retry(t)
      <4>1. recorder[<<s, a>>] /= "none"
        BY <3>2, <2>2, <1>4
      <4>2. a <= n - s + 1
        BY <4>1, <1>1, <1>5 DEF GrantedUpTo
      <4>3. QED
        BY <4>2
    <3>3. QED
      BY <3>1, <3>2
  <2>3. QED
    BY <2>1, <2>2, <1>1 DEF GrantedUpTo
<1>8. GrantedUpTo(n)'
  BY <1>7 DEF GrantedUpTo
<1>9. QED
  BY <1>8 DEF Granted

\* A start brings a new grant.
LEMMA StartKeepsGranted ==
  ASSUME TypeOK, Granted, NEW s \in Sessions, Start(s)
  PROVE  Granted'
<1>1. PICK n \in 0..MaxSessions : GrantedUpTo(n)
  BY DEF Granted
<1> USE RecordingAssumption DEF Sessions, Attempts, Tasks
<1>2. s = n + 1
  <2>1. ~(s <= n)
    BY <1>1 DEF Start, GrantedUpTo
  <2>2. ASSUME NEW r \in 1..(s - 1)
        PROVE  r <= n
    <3>1. r \in Sessions
      OBVIOUS
    <3>2. recorder[<<r, 1>>] /= "none"
      BY DEF Start
    <3>3. QED
      BY <3>1, <3>2, <1>1 DEF GrantedUpTo
  <2>3. QED
    BY <2>1, <2>2
<1>3. <<s, 1>> \in Tasks /\ degraded' = FALSE
  BY DEF Start
<1>4. \A u \in Tasks : recorder'[u] = IF u = <<s, 1>> THEN "running" ELSE recorder[u]
  BY <1>3 DEF Start, Launch, TypeOK
<1>5. ASSUME NEW r \in Sessions
      PROVE  /\ recorder'[<<r, 1>>] /= "none" <=> r <= n + 1
             /\ \A a \in Attempts : recorder'[<<r, a>>] /= "none" => a <= (n + 1) - r + 1
  <2>1. recorder[<<r, 1>>] /= "none" <=> r <= n
    BY <1>1 DEF GrantedUpTo
  <2>2. \A a \in Attempts : recorder[<<r, a>>] /= "none" => a <= n - r + 2
    <3>1. CASE degraded
      BY <3>1, <1>1 DEF GrantedUpTo
    <3>2. CASE ~degraded
      <4>1. \A a \in Attempts : recorder[<<r, a>>] /= "none" => a <= n - r + 1
        BY <3>2, <1>1 DEF GrantedUpTo
      <4>2. QED
        BY <4>1
    <3>3. QED
      BY <3>1, <3>2
  <2>3. recorder'[<<r, 1>>] /= "none" <=> r <= n + 1
    <3>1. CASE r = s
      BY <3>1, <1>2, <1>4
    <3>2. CASE r /= s
      BY <3>2, <1>2, <1>4, <2>1
    <3>3. QED
      BY <3>1, <3>2
  <2>4. ASSUME NEW a \in Attempts, recorder'[<<r, a>>] /= "none"
        PROVE  a <= (n + 1) - r + 1
    <3>1. CASE <<r, a>> = <<s, 1>>
      BY <3>1, <1>2
    <3>2. CASE <<r, a>> /= <<s, 1>>
      BY <3>2, <2>4, <1>4, <2>2
    <3>3. QED
      BY <3>1, <3>2
  <2>5. QED
    BY <2>3, <2>4
<1>6. GrantedUpTo(n + 1)'
  BY <1>3, <1>5 DEF GrantedUpTo
<1>7. n + 1 \in 0..MaxSessions
  BY <1>2
<1>8. QED
  BY <1>6, <1>7 DEF Granted

\* What a step does to recorders that are running changes nothing.
LEMMA EndingKeepsGranted ==
  ASSUME TypeOK, Granted, UNCHANGED degraded,
         \A t \in Tasks : recorder'[t] /= "none" <=> recorder[t] /= "none"
  PROVE  Granted'
<1>1. PICK n \in 0..MaxSessions : GrantedUpTo(n)
  BY DEF Granted
<1>2. \A s \in Sessions, a \in Attempts : <<s, a>> \in Tasks
  BY DEF Tasks
<1>3. 1 \in Attempts
  BY RecordingAssumption DEF Attempts
<1>4. GrantedUpTo(n)'
  BY <1>1, <1>2, <1>3 DEF GrantedUpTo
<1>5. QED
  BY <1>4 DEF Granted

\* One step per action.  What moves no recorder keeps Granted as it is; the steps
\* of a stop leave tables and starts alone.
LEMMA StepIInv == IInv /\ [Next]_vars => IInv'
<1> SUFFICES ASSUME IInv, [Next]_vars PROVE IInv'
  OBVIOUS
<1>0. TypeOK /\ Granted /\ Starts /\ Stops
  BY DEF IInv
<1>a. ASSUME UNCHANGED <<recorder, degraded>> PROVE Granted'
  BY <1>a, <1>0, EndingKeepsGranted
<1>t. \A s \in Sessions : <<s, 1>> \in Tasks /\ <<s, 2>> \in Tasks
  BY RecordingAssumption DEF Tasks, Attempts
<1> USE DEF service, driver, InProgress, Terminal, Finished
<1>1. ASSUME NEW s \in Sessions, Start(s) PROVE IInv'
  <2>1. TypeOK'
    BY <1>1, <1>0, <1>t DEF TypeOK, Start, Launch
  <2>2. Granted'
    BY <1>1, <1>0, StartKeepsGranted
  <2>3. Starts'
    BY <1>1, <1>0, <1>t DEF TypeOK, Starts, Start, Launch, MayStart, Busy
  <2>4. Stops'
    BY <1>1, <1>0 DEF Stops, Start
  <2>5. QED
    BY <2>1, <2>2, <2>3, <2>4 DEF IInv
<1>2. ASSUME NEW s \in Sessions, Started(s) PROVE IInv'
  <2>0. Watched(s) \in Tasks /\ Watched(s)[1] = s
    BY <1>t DEF Watched
  <2>1. TypeOK'
    BY <1>2, <1>0, <2>0 DEF TypeOK, Started, Store
  <2>2. Granted'
    BY <1>2, <1>a DEF Started
  <2>a. /\ state[s] = "none" /\ pending = {s} /\ pending' = {}
        /\ \A r \in Sessions \ {s} : starting[r] = "idle"
    BY <1>2, <1>0 DEF Starts, Started
  <2>b. /\ \A r \in Sessions \ {s} : state'[r] = state[r]
        /\ \A r \in Sessions : starting'[r] = "idle"
        /\ UNCHANGED <<stopping, recorder>>
    BY <1>2, <1>0, <2>a DEF TypeOK, Started
  <2>3. Starts'
    BY <1>0, <2>a, <2>b DEF Starts
  <2>4. Stops'
    BY <1>0, <2>a, <2>b DEF Stops
  <2>5. QED
    BY <2>1, <2>2, <2>3, <2>4 DEF IInv
<1>3. ASSUME NEW s \in Sessions, RetriedInGrace(s) PROVE IInv'
  <2>0. Retry(<<s, 1>>) = <<s, 2>>
    BY DEF Retry
  <2>1. TypeOK'
    BY <1>3, <1>0, <1>t DEF TypeOK, RetriedInGrace, Launch
  <2>2. Granted'
    BY <1>3, <1>0, <1>t, <2>0, RetryKeepsGranted DEF RetriedInGrace
  <2>3. Starts'
    BY <1>3, <1>0, <1>t DEF TypeOK, Starts, RetriedInGrace, Launch
  <2>4. Stops'
    BY <1>3, <1>0 DEF Stops, RetriedInGrace
  <2>5. QED
    BY <2>1, <2>2, <2>3, <2>4 DEF IInv
<1>4. ASSUME NEW s \in Sessions, StartFails(s) PROVE IInv'
  <2>1. TypeOK'
    BY <1>4, <1>0 DEF TypeOK, StartFails
  <2>2. Granted'
    BY <1>4, <1>a DEF StartFails
  <2>3. Starts'
    BY <1>4, <1>0 DEF TypeOK, Starts, StartFails
  <2>4. Stops'
    BY <1>4, <1>0 DEF Stops, StartFails
  <2>5. QED
    BY <2>1, <2>2, <2>3, <2>4 DEF IInv
<1>5. ASSUME NEW t \in Tasks, RecorderFinishes(t) PROVE IInv'
  <2>0. \A u \in Tasks : recorder'[u] /= "none" <=> recorder[u] /= "none"
    BY <1>5, <1>0 DEF TypeOK, RecorderFinishes
  <2>1. TypeOK'
    BY <1>5, <1>0 DEF TypeOK, RecorderFinishes
  <2>2. Granted'
    BY <1>5, <1>0, <2>0, EndingKeepsGranted DEF RecorderFinishes
  <2>3. Starts'
    BY <1>5, <1>0, <1>t, <2>0 DEF Starts, RecorderFinishes
  <2>4. Stops'
    BY <1>5, <1>0 DEF Stops, RecorderFinishes
  <2>5. QED
    BY <2>1, <2>2, <2>3, <2>4 DEF IInv
<1>6. ASSUME NEW t \in Tasks, LateRetry(t) PROVE IInv'
  <2>0. Retry(t) \in Tasks /\ t[1] \in Sessions
    BY <1>6, <1>0, RetryIsGranted DEF LateRetry, Tasks
  <2>1. TypeOK'
    BY <1>6, <1>0, <2>0 DEF TypeOK, LateRetry, Launch
  <2>2. Granted'
    BY <1>6, <1>0, RetryKeepsGranted DEF LateRetry
  <2>3. Starts'
    BY <1>6, <1>0, <1>t, <2>0 DEF TypeOK, Starts, LateRetry, Launch
  <2>4. Stops'
    BY <1>6, <1>0 DEF Stops, LateRetry
  <2>5. QED
    BY <2>1, <2>2, <2>3, <2>4 DEF IInv
<1>7. ASSUME NEW t \in Tasks, TaskDone(t) PROVE IInv'
  <2>1. TypeOK'
    BY <1>7, <1>0 DEF TypeOK, TaskDone, KeepsPath
  <2>2. Granted'
    BY <1>7, <1>a DEF TaskDone
  <2>3. Starts'
    BY <1>7, <1>0 DEF Starts, TaskDone
  <2>4. Stops'
    BY <1>7, <1>0 DEF Stops, TaskDone
  <2>5. QED
    BY <2>1, <2>2, <2>3, <2>4 DEF IInv
<1>8. ASSUME NEW s \in Sessions, UserStops(s) \/ AutoFinalize(s) PROVE IInv'
  <2>1. TypeOK'
    <3>1. CASE UserStops(s)
      BY <3>1, <1>0 DEF TypeOK, UserStops, StopBegins
    <3>2. CASE AutoFinalize(s)
      BY <3>2, <1>0 DEF TypeOK, AutoFinalize, StopBegins
    <3>3. QED
      BY <1>8, <3>1, <3>2
  <2>2. Granted'
    BY <1>8, <1>a DEF UserStops, AutoFinalize
  <2>3. Starts'
    BY <1>8, <1>0 DEF TypeOK, Starts, UserStops, AutoFinalize, StopBegins
  <2>4. Stops'
    BY <1>8, <1>0 DEF TypeOK, Stops, UserStops, AutoFinalize, StopBegins
  <2>5. QED
    BY <2>1, <2>2, <2>3, <2>4 DEF IInv
<1>9. ASSUME NEW s \in Sessions, Signal(s) PROVE IInv'
  <2>0. \A u \in Tasks : recorder'[u] /= "none" <=> recorder[u] /= "none"
    BY <1>9, <1>0 DEF TypeOK, Signal, Running
  <2>1. TypeOK'
    BY <1>9, <1>0 DEF TypeOK, Signal, To, Running
  <2>2. Granted'
    BY <1>9, <1>0, <2>0, EndingKeepsGranted DEF Signal
  <2>3. Starts'
    BY <1>9, <1>0, <1>t, <2>0 DEF Starts, Signal
  <2>4. Stops'
    BY <1>9, <1>0 DEF TypeOK, Stops, Signal, To
  <2>5. QED
    BY <2>1, <2>2, <2>3, <2>4 DEF IInv
<1>10. ASSUME NEW s \in Sessions,
              Awaited(s) \/ Probe(s) \/ Pull(s) \/ Remove(s) \/ StopDies(s)
       PROVE IInv'
  <2> USE DEF Awaited, Probe, Pull, Remove, StopDies, Elsewhere, Pulling, To
  <2>1. TypeOK'
    BY <1>10, <1>0 DEF TypeOK
  <2>2. Granted'
    BY <1>10, <1>a
  <2>3. Starts'
    BY <1>10, <1>0 DEF TypeOK, Starts, Stops
  <2>4. Stops'
    BY <1>10, <1>0 DEF TypeOK, Stops
  <2>5. QED
    BY <2>1, <2>2, <2>3, <2>4 DEF IInv
<1>11. ASSUME NEW s \in Sessions, HealBegins(s) \/ HealEnds(s) PROVE IInv'
  <2> USE DEF HealBegins, HealEnds, Stuck, FailsIfStuck
  <2>1. TypeOK'
    BY <1>11, <1>0 DEF TypeOK
  <2>2. Granted'
    BY <1>11, <1>a
  <2>3. Starts'
    BY <1>11, <1>0 DEF TypeOK, Starts
  <2>4. Stops'
    BY <1>11, <1>0 DEF TypeOK, Stops
  <2>5. QED
    BY <2>1, <2>2, <2>3, <2>4 DEF IInv
<1>12. CASE UNCHANGED vars
  <2>1. TypeOK'
    BY <1>12, <1>0 DEF TypeOK, vars
  <2>2. Granted'
    BY <1>12, <1>a DEF vars
  <2>3. Starts'
    BY <1>12, <1>0 DEF Starts, vars
  <2>4. Stops'
    BY <1>12, <1>0 DEF Stops, vars
  <2>5. QED
    BY <2>1, <2>2, <2>3, <2>4 DEF IInv
<1>13. QED
  BY <1>1, <1>2, <1>3, <1>4, <1>5, <1>6, <1>7, <1>8, <1>9, <1>10, <1>11, <1>12
     DEF Next

\* In every behaviour of Recording.
LEMMA Invariance == Spec => []IInv
<1>1. QED
  BY InitIInv, StepIInv, PTL DEF Spec

\* The state is well typed for any number of starts: above all, no start, callback
\* and retry together launch more recorders of a session than the starts granted.
THEOREM TypeCorrect == Spec => []TypeOK
<1>1. IInv => TypeOK
  BY DEF IInv
<1>2. QED
  BY <1>1, Invariance, PTL

\* Two starts never overlap, nor a start and a recording session.
THEOREM OneStart == Spec => []StartsExclude
<1>1. IInv => StartsExclude
  <2> SUFFICES ASSUME IInv PROVE StartsExclude
    OBVIOUS
  <2>1. Cardinality(pending) <= 1
    <3>1. CASE pending = {}
      BY <3>1, FS_EmptySet
    <3>2. CASE pending /= {}
      <4>1. PICK s \in pending : TRUE
        BY <3>2
      <4>2. pending = {s}
        BY <4>1 DEF IInv, Starts
      <4>3. QED
        BY <4>2, FS_Singleton
    <3>3. QED
      BY <3>1, <3>2
  <2>2. QED
    BY <2>1 DEF IInv, Starts, StartsExclude
<1>2. QED
  BY <1>1, Invariance, PTL

\* A session whose product was saved stays done, whatever start, stop or self heal
\* is still under way.
THEOREM DoneStays == Spec => DoneIsKept
<1>1. IInv /\ [Next]_vars
      => [\A s \in Sessions : state[s] = "done" => state'[s] = "done"]_vars
  <2> SUFFICES ASSUME IInv, Next, NEW r \in Sessions, state[r] = "done"
               PROVE  state'[r] = "done"
    BY DEF vars
  <2> USE DEF IInv, TypeOK, Starts, Stops
  <2>1. ASSUME NEW s \in Sessions, Start(s) \/ RetriedInGrace(s) \/ StartFails(s)
        PROVE  state'[r] = "done"
    BY <2>1 DEF Start, RetriedInGrace, StartFails, service
  <2>2. ASSUME NEW s \in Sessions, Started(s)
        PROVE  state'[r] = "done"
    BY <2>2 DEF Started
  <2>3. ASSUME NEW s \in Sessions, UserStops(s) \/ AutoFinalize(s)
        PROVE  state'[r] = "done"
    BY <2>3 DEF UserStops, AutoFinalize, StopBegins
  <2>4. ASSUME NEW s \in Sessions,
               Signal(s) \/ Awaited(s) \/ Probe(s) \/ Pull(s) \/ Remove(s)
               \/ StopDies(s)
        PROVE  state'[r] = "done"
    BY <2>4 DEF Signal, Awaited, Probe, Pull, Remove, StopDies, Pulling, To
  <2>5. ASSUME NEW s \in Sessions, HealBegins(s) \/ HealEnds(s)
        PROVE  state'[r] = "done"
    BY <2>5 DEF HealBegins, HealEnds, FailsIfStuck
  <2>6. ASSUME NEW t \in Tasks, RecorderFinishes(t) \/ LateRetry(t) \/ TaskDone(t)
        PROVE  state'[r] = "done"
    BY <2>6 DEF RecorderFinishes, LateRetry, TaskDone, service
  <2>7. QED
    BY <2>1, <2>2, <2>3, <2>4, <2>5, <2>6 DEF Next
<1>2. QED
  BY <1>1, Invariance, PTL DEF Spec, DoneIsKept
=============================================================================
