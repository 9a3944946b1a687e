------------------------- MODULE Monitoring_proofs --------------------------
(***************************************************************************)
(* What the watch over a device promises: who uses the monitoring of a     *)
(* device is served (Monitoring), what is recorded is counted              *)
(* (MetricRecorder), an alert is raised, kept and notified by the rule in  *)
(* force (AlertEngine), and the device page shows what is so               *)
(* (DeviceRegistry).                                                       *)
(***************************************************************************)
EXTENDS Monitoring, MetricRecorder, AlertEngine, DeviceRegistry, FiniteSetTheorems,
        SequenceTheorems, TLAPS

-----------------------------------------------------------------------------
(***************************************************************************)
(* Who uses the monitoring is served, for any number of viewers, stops and *)
(* tasks. As long as nothing registers a task beside the end of another    *)
(* (overlap), an end in progress finds no task registered (Endings), and   *)
(* so a task that samples is the registered one and its viewers are        *)
(* listed.                                                                 *)
(***************************************************************************)

MonTypes ==
    /\ net \in BOOLEAN /\ rec \in BOOLEAN /\ guard \in BOOLEAN
    /\ recent \in BOOLEAN /\ pinned \in BOOLEAN /\ overlap \in BOOLEAN
    /\ list \subseteq Viewers /\ lostEnd \subseteq Viewers
    /\ pc \in [Viewers -> {"off", "guard", "wait"}]
    /\ told \in [Viewers -> BOOLEAN]

\* The registered task samples, or ends by itself; an awaited one was cancelled.
TaskTypes ==
    /\ runs \in 0 .. MaxRuns /\ reg \in 0 .. runs /\ tables \in 0 .. runs
    /\ task \in [Runs -> {"none", "sampling", "cancelled", "losing", "broken", "over"}]
    /\ stop \in [Stoppers -> {"off", "unguard", "await", "finalize"}]
    /\ awaits \in [Stoppers -> 0 .. runs]
    /\ \A p \in Stoppers : awaits[p] # 0 => task[awaits[p]] \in {"cancelled", "broken", "over"}
    /\ reg # 0 => task[reg] \in {"sampling", "losing"}

\* Nothing new is registered beside an end.
Endings ==
    ~overlap =>
        /\ \A g \in Runs : /\ task[g] \in {"cancelled", "broken"} => reg = 0
                           /\ task[g] = "losing" => reg \in {0, g} /\ ~rec
        /\ \A p \in Stoppers : /\ stop[p] \in {"await", "finalize"} => reg = 0
                               /\ stop[p] = "finalize" => ~rec

\* Tables without a task are those of a stop under way.
Tables ==
    ~overlap /\ tables # 0 /\ reg = 0 =>
        \E p \in Stoppers : stop[p] \in {"await", "finalize"}

MonIInv == /\ MonTypes /\ TaskTypes /\ Endings /\ Tables
           /\ OneSampler /\ ViewerIsFed /\ RecordingIsFed /\ IdleIsWatched

LEMMA TwoStoppers == User \in Stoppers /\ Idle \in Stoppers /\ User # Idle
BY MonitorAssumption DEF MonitorAssumption, Stoppers

LEMMA RunsAre == /\ MaxRuns \in Nat
                 /\ \A n : n \in Runs <=> n \in Nat /\ n # 0 /\ n <= MaxRuns
BY MonitorAssumption DEF MonitorAssumption, Runs

LEMMA InitMon == MonInit => MonIInv
<1> SUFFICES ASSUME MonInit PROVE MonIInv
  OBVIOUS
<1> USE DEF MonInit
<1>1. MonTypes
  BY DEF MonTypes
<1>2. TaskTypes
  BY RunsAre DEF TaskTypes
<1>3. Endings /\ Tables
  BY RunsAre DEF Endings, Tables
<1>4. OneSampler /\ ViewerIsFed
  BY DEF OneSampler, ViewerIsFed
<1>5. RecordingIsFed /\ IdleIsWatched
  BY DEF RecordingIsFed, IdleIsWatched
<1>6. QED
  BY <1>1, <1>2, <1>3, <1>4, <1>5 DEF MonIInv

-----------------------------------------------------------------------------
(* What is started *)

LEMMA StartsTask ==
    ASSUME MonIInv, reg = 0, runs < MaxRuns, runs' = runs + 1,
           reg' = runs + 1, tables' = runs + 1,
           task' = [task EXCEPT ![runs + 1] = "sampling"], UNCHANGED <<stop, awaits>>
    PROVE  TaskTypes' /\ runs + 1 \in Runs /\ reg' # 0 /\ tables' # 0
<1> USE DEF MonIInv, TaskTypes
<1>1. runs \in Nat /\ runs + 1 \in Runs /\ runs' \in 0 .. MaxRuns
  BY RunsAre
<1>2. awaits' \in [Stoppers -> 0 .. runs'] /\ \A q \in Stoppers : awaits[q] # runs + 1
  BY <1>1
<1>3. task' \in [Runs -> {"none", "sampling", "cancelled", "losing", "broken", "over"}]
  BY <1>1
<1>4. \A q \in Stoppers : awaits'[q] # 0 => task'[awaits'[q]] \in {"cancelled", "broken", "over"}
  <2> SUFFICES ASSUME NEW q \in Stoppers, awaits[q] # 0
               PROVE  task'[awaits[q]] \in {"cancelled", "broken", "over"}
    OBVIOUS
  <2>1. awaits[q] \in Runs /\ awaits[q] # runs + 1
    BY <1>1, <1>2, RunsAre
  <2>2. QED
    BY <2>1
<1>5. QED
  BY <1>1, <1>2, <1>3, <1>4

LEMMA StartsKeep ==
    ASSUME MonIInv, NEW join \in SUBSET Viewers, NEW guarded \in BOOLEAN, NEW pin \in BOOLEAN,
           Starts(join, guarded, pin), UNCHANGED <<net, told, lostEnd, stop, awaits>>,
           rec' \in BOOLEAN, rec' = rec \/ (reg = 0 /\ rec'), recent' \in BOOLEAN,
           pc' \in [Viewers -> {"off", "guard", "wait"}],
           \A v \in Viewers : pc'[v] = "wait" => pc[v] = "wait" \/ v \in join,
           (\E v \in Viewers : pc[v] = "guard") => join # {} \/ \E v \in Viewers : pc'[v] = "guard",
           \/ join # {} \/ (guard /\ reg # 0 => guarded) \/ \E v \in Viewers : pc'[v] = "guard",
           reg = 0 => \/ join # {} \/ rec' \/ pin \/ guarded
                      \/ \E v \in Viewers : pc'[v] = "guard"
    PROVE  MonIInv'
<1>1. CASE reg # 0
  <2> USE <1>1 DEF Starts
  <2>1. UNCHANGED <<runs, reg, task, tables, pinned, overlap, rec>> /\ list' = list \cup join
        /\ guard' = guarded
    OBVIOUS
  <2>2. MonTypes' /\ TaskTypes'
    BY <2>1 DEF MonIInv, MonTypes, TaskTypes
  <2>3. Endings' /\ Tables' /\ OneSampler' /\ RecordingIsFed'
    BY <2>1 DEF MonIInv, Endings, Tables, OneSampler, RecordingIsFed
  <2>4. ViewerIsFed'
    BY <2>1 DEF MonIInv, ViewerIsFed, OneSampler
  <2>5. IdleIsWatched'
    BY <2>1 DEF MonIInv, IdleIsWatched, Ending
  <2>6. QED
    BY <2>2, <2>3, <2>4, <2>5 DEF MonIInv
<1>2. CASE reg = 0
  <2>1. /\ runs < MaxRuns /\ runs' = runs + 1
        /\ reg' = runs + 1 /\ tables' = runs + 1 /\ list' = join
        /\ task' = [task EXCEPT ![runs + 1] = "sampling"]
        /\ pinned' = pin /\ guard' = guarded /\ overlap' = (overlap \/ Ending)
    BY <1>2 DEF Starts
  <2>2. TaskTypes' /\ runs + 1 \in Runs /\ reg' # 0 /\ tables' # 0
    BY <1>2, <2>1, StartsTask
  <2>3. MonTypes'
    <3>1. overlap' \in BOOLEAN
      BY <2>1, Zenon
    <3>2. QED
      BY <2>1, <3>1 DEF MonIInv, MonTypes
  <2>4. ~overlap' => ~overlap /\ ~Ending
    BY <2>1, Zenon
  <2>5. ~overlap' => \A g \in Runs : task'[g] \in {"none", "over"} \/ g = runs + 1
    <3> SUFFICES ASSUME ~overlap', NEW g \in Runs, g # runs + 1
                 PROVE  task'[g] \in {"none", "over"}
      OBVIOUS
    <3>1. task'[g] = task[g] /\ task[g] \in {"none", "sampling", "cancelled", "losing", "broken", "over"}
      BY <2>1 DEF MonIInv, TaskTypes
    <3>2. task[g] \notin {"cancelled", "losing", "broken"}
      BY <2>4 DEF Ending
    <3>3. task[g] # "sampling"
      BY <1>2, <2>4, RunsAre DEF MonIInv, OneSampler
    <3>4. QED
      BY <3>1, <3>2, <3>3
  <2>6. task'[runs + 1] = "sampling"
    BY <2>1, <2>2 DEF MonIInv, TaskTypes
  <2>7. OneSampler'
    BY <2>1, <2>5 DEF OneSampler
  <2>8. Endings' /\ Tables'
    <3>1. Tables'
      BY <2>2 DEF Tables
    <3>2. ~overlap' => \A g \in Runs : task'[g] \in {"none", "over", "sampling"}
      BY <2>5, <2>6
    <3>3. ~overlap' => \A q \in Stoppers : stop'[q] = "off"
      BY <2>4 DEF Ending
    <3>4. QED
      BY <3>1, <3>2, <3>3 DEF Endings
  <2>9. ViewerIsFed'
    <3> SUFFICES ASSUME ~overlap', NEW v \in Viewers, pc'[v] = "wait"
                 PROVE  told'[v] \/ v \in lostEnd' \/ (v \in list' /\ tables' # 0)
      BY DEF ViewerIsFed
    <3>1. CASE v \in join
      BY <2>1, <2>2, <3>1
    <3>2. CASE pc[v] = "wait"
      <4>1. tables = 0
        BY <1>2, <2>4 DEF MonIInv, Tables, Ending
      <4>2. QED
        BY <2>4, <3>2, <4>1 DEF MonIInv, ViewerIsFed
    <3>3. QED
      BY <3>1, <3>2
  <2>10. RecordingIsFed'
    BY <2>2 DEF RecordingIsFed
  <2>11. IdleIsWatched'
    BY <1>2, <2>1 DEF IdleIsWatched
  <2>12. QED
    BY <2>2, <2>3, <2>7, <2>8, <2>9, <2>10, <2>11 DEF MonIInv
<1>3. QED
  BY <1>1, <1>2

LEMMA RequestKeeps == MonIInv /\ StartByRequest => MonIInv'
<1> SUFFICES ASSUME MonIInv, StartByRequest PROVE MonIInv'
  OBVIOUS
<1>1. MonTypes
  BY DEF MonIInv
<1>2. Starts({}, guard, TRUE) /\ reg = 0 /\ UNCHANGED <<net, pc, told, lostEnd, rec, recent, stop, awaits>>
  BY DEF StartByRequest
<1>3. QED
  BY <1>1, <1>2, StartsKeep DEF MonTypes

LEMMA PollKeeps == MonIInv /\ Poll => MonIInv'
<1> SUFFICES ASSUME MonIInv, Poll PROVE MonIInv'
  OBVIOUS
<1>1. MonTypes
  BY DEF MonIInv
<1> DEFINE guarded == guard \/ reg = 0
<1>2. Starts({}, guarded, FALSE) /\ recent' = TRUE /\ UNCHANGED <<net, pc, told, lostEnd, rec, stop, awaits>>
  BY DEF Poll
<1>3. guarded \in BOOLEAN /\ (guard => guarded) /\ (reg = 0 => guarded)
  BY Zenon
<1> HIDE DEF guarded
<1>4. QED
  BY <1>1, <1>2, <1>3, StartsKeep DEF MonTypes

LEMMA ViewKeeps == ASSUME NEW v \in Viewers PROVE MonIInv /\ View(v) => MonIInv'
<1> SUFFICES ASSUME MonIInv, View(v) PROVE MonIInv'
  OBVIOUS
<1>1. MonTypes
  BY DEF MonIInv
<1> DEFINE join == IF guard THEN {} ELSE {v}
<1>2. /\ Starts(join, FALSE, FALSE) /\ UNCHANGED <<net, told, lostEnd, rec, recent, stop, awaits>>
      /\ pc' = [pc EXCEPT ![v] = IF guard THEN "guard" ELSE "wait"]
  BY DEF View
<1>3. /\ join \in SUBSET Viewers /\ (guard => pc'[v] = "guard") /\ (~guard => v \in join)
      /\ pc' \in [Viewers -> {"off", "guard", "wait"}]
      /\ \A u \in Viewers : pc'[u] = "wait" => pc[u] = "wait" \/ u \in join
  BY <1>1, <1>2 DEF MonTypes
<1> HIDE DEF join
<1>4. join # {} \/ \E u \in Viewers : pc'[u] = "guard"
  BY <1>3
<1>5. /\ UNCHANGED <<net, told, lostEnd, stop, awaits>> /\ rec' = rec /\ recent' = recent
      /\ rec' \in BOOLEAN /\ recent' \in BOOLEAN /\ FALSE \in BOOLEAN
  BY <1>1, <1>2 DEF MonTypes
<1>6. QED
  BY <1>2, <1>3, <1>4, <1>5, StartsKeep, ZenonT(30)

LEMMA JoinKeeps == ASSUME NEW v \in Viewers PROVE MonIInv /\ Join(v) => MonIInv'
<1> SUFFICES ASSUME MonIInv, Join(v) PROVE MonIInv'
  OBVIOUS
<1>1. MonTypes
  BY DEF MonIInv
<1>2. /\ Starts({v}, guard, FALSE) /\ UNCHANGED <<net, told, lostEnd, rec, recent, stop, awaits>>
      /\ pc' = [pc EXCEPT ![v] = "wait"]
  BY DEF Join
<1>3. /\ pc' \in [Viewers -> {"off", "guard", "wait"}]
      /\ \A u \in Viewers : pc'[u] = "wait" => pc[u] = "wait" \/ u \in {v}
  BY <1>1, <1>2 DEF MonTypes
<1>4. QED
  BY <1>1, <1>2, <1>3, StartsKeep DEF MonTypes

LEMMA AgeKeeps == MonIInv /\ PollsAge => MonIInv'
<1> SUFFICES ASSUME MonIInv, PollsAge PROVE MonIInv'
  OBVIOUS
<1> USE DEF PollsAge
<1>1. MonTypes' /\ TaskTypes'
  BY DEF MonIInv, MonTypes, TaskTypes
<1>2. Endings' /\ Tables' /\ OneSampler' /\ ViewerIsFed' /\ RecordingIsFed'
  BY DEF MonIInv, Endings, Tables, OneSampler, ViewerIsFed, RecordingIsFed
<1>3. IdleIsWatched'
  BY DEF MonIInv, IdleIsWatched, Ending
<1>4. QED
  BY <1>1, <1>2, <1>3 DEF MonIInv

LEMMA LeaveKeeps == ASSUME NEW v \in Viewers PROVE MonIInv /\ Leave(v) => MonIInv'
<1> SUFFICES ASSUME MonIInv, Leave(v) PROVE MonIInv'
  OBVIOUS
<1>1. /\ UNCHANGED <<net, runs, reg, task, tables, lostEnd, rec, recent, stop, awaits, pinned, overlap>>
      /\ list' = list \ {v} /\ pc' = [pc EXCEPT ![v] = "off"] /\ told' = [told EXCEPT ![v] = FALSE]
      /\ pc[v] = "wait"
  BY DEF Leave
<1>2. guard' = (guard \/ (list' = {} /\ ~rec))
  BY DEF Leave
<1>3. guard' \in BOOLEAN /\ (list' = {} /\ ~rec => guard') 
  BY <1>2, Zenon
<1>4. MonTypes'
  BY <1>1, <1>3 DEF MonIInv, MonTypes
<1>5. TaskTypes' /\ Endings' /\ Tables' /\ OneSampler' /\ RecordingIsFed'
  BY <1>1 DEF MonIInv, TaskTypes, Endings, Tables, OneSampler, RecordingIsFed
<1>6. ViewerIsFed'
  BY <1>1 DEF MonIInv, MonTypes, ViewerIsFed
<1>7. IdleIsWatched'
  BY <1>1, <1>3 DEF IdleIsWatched
<1>8. QED
  BY <1>4, <1>5, <1>6, <1>7 DEF MonIInv

\* record_start on a registered task leaves the task alone.
LEMMA RecordKeeps == MonIInv /\ RecordStart => MonIInv'
<1> SUFFICES ASSUME MonIInv, RecordStart PROVE MonIInv'
  OBVIOUS
<1>1. MonTypes
  BY DEF MonIInv
<1>2. ~rec /\ rec' = TRUE /\ UNCHANGED <<net, pc, told, lostEnd, recent, stop, awaits>>
  BY DEF RecordStart
<1>3. CASE reg = 0
  <2> DEFINE guarded == guard \/ net
  <2>1. Starts({}, guarded, FALSE)
    BY <1>3 DEF RecordStart
  <2>2. guarded \in BOOLEAN /\ (guard => guarded)
    BY Zenon
  <2> HIDE DEF guarded
  <2>3. QED
    BY <1>1, <1>2, <1>3, <2>1, <2>2, StartsKeep DEF MonTypes
<1>4. CASE reg # 0
  <2>1. UNCHANGED <<runs, reg, task, tables, list, guard, pinned>>
    BY <1>4 DEF RecordStart
  <2>2. overlap' = (overlap \/ Ending)
    BY <1>4 DEF RecordStart
  <2>3. overlap' \in BOOLEAN /\ (~overlap' => ~overlap /\ ~Ending)
    BY <2>2, Zenon
  <2>4. MonTypes' /\ TaskTypes'
    BY <1>2, <2>1, <2>3 DEF MonIInv, MonTypes, TaskTypes
  <2>5. Endings'
    <3>1. ~overlap' => \A g \in Runs : task'[g] \notin {"cancelled", "broken", "losing"}
      BY <2>1, <2>3 DEF Ending
    <3>2. ~overlap' => \A p \in Stoppers : stop'[p] = "off"
      BY <1>2, <2>3 DEF Ending
    <3>3. QED
      BY <3>1, <3>2 DEF Endings
  <2>6. Tables' /\ OneSampler' /\ ViewerIsFed'
    BY <1>2, <2>1, <2>3 DEF MonIInv, Tables, OneSampler, ViewerIsFed
  <2>7. RecordingIsFed' /\ IdleIsWatched'
    BY <1>2, <1>4, <2>1 DEF RecordingIsFed, IdleIsWatched
  <2>8. QED
    BY <2>4, <2>5, <2>6, <2>7 DEF MonIInv
<1>5. QED
  BY <1>3, <1>4

-----------------------------------------------------------------------------
(* What is ended *)

\* A release leaves nobody behind, whoever makes it.
LEMMA ReleasesKeep ==
    ASSUME MonIInv, Releases, UNCHANGED <<net, pc, recent, pinned, overlap>>,
           rec' \in BOOLEAN, guard' = guard, 
           TaskTypes', Endings',
           ~overlap => \A g \in Runs : task'[g] # "sampling",
           ~overlap /\ rec' => stop'[User] = "await"
    PROVE  MonIInv'
<1>1. PICK full \in SUBSET list :
        /\ told' = [v \in Viewers |-> told[v] \/ v \in list \ full]
        /\ lostEnd' = lostEnd \cup full
  BY DEF Releases
<1>2. reg' = 0 /\ tables' = 0 /\ list' = {}
  BY DEF Releases
<1>3. MonTypes'
  <2>1. told' \in [Viewers -> BOOLEAN]
    BY <1>1, Zenon DEF MonIInv, MonTypes
  <2>2. QED
    BY <1>1, <1>2, <2>1 DEF MonIInv, MonTypes
<1>4. Tables' /\ OneSampler' /\ IdleIsWatched' /\ RecordingIsFed'
  BY <1>2 DEF Tables, OneSampler, IdleIsWatched, RecordingIsFed
<1>5. ViewerIsFed'
  <2> SUFFICES ASSUME ~overlap, NEW v \in Viewers, pc[v] = "wait"
               PROVE  told'[v] \/ v \in lostEnd'
    BY DEF ViewerIsFed
  <2>1. told[v] \/ v \in lostEnd \/ v \in list
    BY DEF MonIInv, ViewerIsFed
  <2>2. told[v] => told'[v]
    BY <1>1, Zenon
  <2>3. v \in list => told'[v] \/ v \in lostEnd'
    BY <1>1, Zenon
  <2>4. QED
    BY <1>1, <2>1, <2>2, <2>3
<1>6. QED
  BY <1>3, <1>4, <1>5 DEF MonIInv

LEMMA LostKeeps == ASSUME NEW g \in Runs PROVE MonIInv /\ Lost(g) => MonIInv'
<1> SUFFICES ASSUME MonIInv, Lost(g) PROVE MonIInv'
  OBVIOUS
<1>1. /\ task[g] = "sampling" /\ rec' = FALSE
      /\ UNCHANGED <<net, runs, pc, guard, recent, stop, awaits, pinned, overlap>>
      /\ task' = [task EXCEPT ![g] = IF rec THEN "losing" ELSE "over"]
  BY DEF Lost
<1>2. ~overlap => g = reg /\ reg # 0
  BY <1>1, RunsAre DEF MonIInv, OneSampler
<1>3. (reg' = reg /\ tables' = tables /\ rec) \/ (reg' = 0 /\ tables' = 0 /\ ~rec)
  BY DEF Lost, KeepsTables, Releases
<1>4. TaskTypes'
  BY <1>1, <1>3 DEF MonIInv, TaskTypes
<1>5. ~overlap => \A p \in Stoppers : stop[p] \notin {"await", "finalize"}
  BY <1>2 DEF MonIInv, Endings
<1>6. Endings'
  <2>1. ASSUME ~overlap, NEW h \in Runs
        PROVE  task'[h] \notin {"cancelled", "broken"} /\ (task'[h] = "losing" => reg' \in {0, h})
    BY <1>1, <1>2, <1>3, <2>1 DEF MonIInv, Endings, TaskTypes
  <2>2. QED
    BY <1>1, <1>5, <2>1 DEF Endings
<1>7. CASE rec
  <2>1. UNCHANGED <<reg, tables, list, told, lostEnd>>
    BY <1>7 DEF Lost, KeepsTables
  <2>2. MonTypes' /\ Tables' /\ ViewerIsFed' /\ RecordingIsFed'
    BY <1>1, <2>1 DEF MonIInv, MonTypes, Tables, ViewerIsFed, RecordingIsFed
  <2>3. OneSampler'
    BY <1>1, <2>1 DEF MonIInv, OneSampler, TaskTypes
  <2>4. task'[g] = "losing"
    BY <1>1, <1>7 DEF MonIInv, TaskTypes
  <2>5. IdleIsWatched'
    BY <2>4 DEF IdleIsWatched, Ending
  <2>6. QED
    BY <1>4, <1>6, <2>2, <2>3, <2>5 DEF MonIInv
<1>8. CASE ~rec
  <2>1. Releases
    BY <1>8 DEF Lost
  <2>2. ~overlap => \A h \in Runs : task'[h] # "sampling"
    BY <1>1, <1>2, <1>8 DEF MonIInv, OneSampler, TaskTypes
  <2>3. QED
    BY <1>1, <1>4, <1>6, <2>1, <2>2, ReleasesKeep
<1>9. QED
  BY <1>7, <1>8

LEMMA EndsKeep == ASSUME NEW g \in Runs PROVE MonIInv /\ TaskEnds(g) => MonIInv'
<1> SUFFICES ASSUME MonIInv, TaskEnds(g) PROVE MonIInv'
  OBVIOUS
<1>1. /\ task' = [task EXCEPT ![g] = "over"] /\ rec \in BOOLEAN
      /\ UNCHANGED <<net, runs, pc, rec, guard, recent, stop, awaits, pinned, overlap>>
  BY DEF TaskEnds, MonIInv, MonTypes
<1>2. CASE task[g] \in {"losing", "cancelled"} /\ Releases
  <2>1. reg' = 0 /\ tables' = 0
    BY <1>2 DEF Releases
  <2>2. TaskTypes'
    BY <1>1, <1>2, <2>1 DEF MonIInv, TaskTypes
  <2>3. Endings'
    BY <1>1, <2>1 DEF MonIInv, Endings, TaskTypes
  <2>4. ~overlap => \A h \in Runs : task'[h] # "sampling"
    BY <1>1, <1>2, RunsAre DEF MonIInv, OneSampler, Endings, TaskTypes
  <2>5. ~overlap /\ rec => stop[User] = "await"
    BY <1>2, RunsAre DEF MonIInv, Endings, RecordingIsFed
  <2>6. QED
    BY <1>1, <1>2, <2>2, <2>3, <2>4, <2>5, ReleasesKeep
<1>3. CASE task[g] = "broken" /\ KeepsTables
  <2>1. UNCHANGED <<reg, tables, list, told, lostEnd>>
    BY <1>3 DEF KeepsTables
  <2>2. MonTypes' /\ Tables' /\ ViewerIsFed' /\ RecordingIsFed'
    BY <1>1, <2>1 DEF MonIInv, MonTypes, Tables, ViewerIsFed, RecordingIsFed
  <2>3. TaskTypes'
    BY <1>1, <1>3, <2>1 DEF MonIInv, TaskTypes
  <2>4. Endings' /\ OneSampler'
    BY <1>1, <2>1 DEF MonIInv, Endings, OneSampler, TaskTypes
  <2>5. IdleIsWatched'
    BY <1>3, <1>1, <2>1 DEF MonIInv, Endings, IdleIsWatched
  <2>6. QED
    BY <2>2, <2>3, <2>4, <2>5 DEF MonIInv
<1>4. QED
  BY <1>2, <1>3 DEF TaskEnds

LEMMA StopperKeeps == MonIInv /\ StopByRequest => MonIInv'
<1> SUFFICES ASSUME MonIInv, StopByRequest PROVE MonIInv'
  OBVIOUS
<1>1. /\ stop[User] = "off" /\ rec' \in {rec, FALSE} /\ guard' = FALSE
      /\ stop' = [stop EXCEPT ![User] = "unguard"]
      /\ UNCHANGED <<net, runs, reg, task, tables, list, pc, told, lostEnd, recent,
                     awaits, pinned, overlap>>
  BY DEF StopByRequest
<1>2. MonTypes' /\ ViewerIsFed' /\ OneSampler'
  BY <1>1 DEF MonIInv, MonTypes, ViewerIsFed, OneSampler
<1>3. TaskTypes'
  BY <1>1 DEF MonIInv, TaskTypes
<1>4. Endings'
  BY <1>1, TwoStoppers DEF MonIInv, Endings, TaskTypes
<1>5. Tables'
  BY <1>1, TwoStoppers DEF MonIInv, Tables, TaskTypes
<1>6. RecordingIsFed'
  BY <1>1 DEF MonIInv, RecordingIsFed
<1>7. Ending'
  BY <1>1, TwoStoppers DEF MonIInv, TaskTypes, Ending
<1>8. QED
  BY <1>2, <1>3, <1>4, <1>5, <1>6, <1>7 DEF MonIInv, IdleIsWatched

LEMMA CancelsKeep ==
    ASSUME MonIInv, NEW p \in Stoppers, Cancels(p), stop[p] \notin {"await", "finalize"},
           UNCHANGED <<net, runs, tables, list, pc, told, lostEnd, rec, recent, pinned, overlap>>,
           guard' \in BOOLEAN, rec => p = User
    PROVE  MonIInv'
<1>1. /\ awaits' = [awaits EXCEPT ![p] = reg]
      /\ stop' = [stop EXCEPT ![p] = "await"] /\ reg' = 0
      /\ task' = [g \in Runs |->
                    CASE g = reg /\ task[g] = "sampling" -> "cancelled"
                      [] g = reg /\ task[g] = "losing" -> "broken"
                      [] OTHER -> task[g]]
  BY DEF Cancels
<1>2. /\ reg # 0 => reg \in Runs /\ task'[reg] \in {"cancelled", "broken"}
      /\ reg \in Runs => reg # 0
  BY <1>1, RunsAre DEF MonIInv, TaskTypes
<1>3. \A g \in Runs : g # reg => task'[g] = task[g]
  BY <1>1
<1>4. MonTypes' /\ ViewerIsFed'
  BY DEF MonIInv, MonTypes, ViewerIsFed
<1>5. TaskTypes'
  <2>1. task' \in [Runs -> {"none", "sampling", "cancelled", "losing", "broken", "over"}]
    <3>1. ASSUME NEW g \in Runs
          PROVE  task'[g] \in {"none", "sampling", "cancelled", "losing", "broken", "over"}
      <4>1. CASE g = reg
        BY <1>2, <4>1
      <4>2. CASE g # reg
        BY <1>3, <4>2 DEF MonIInv, TaskTypes
      <4>3. QED
        BY <4>1, <4>2
    <3>2. QED
      BY <1>1, <3>1
  <2>2. ASSUME NEW q \in Stoppers, awaits'[q] # 0
        PROVE  task'[awaits'[q]] \in {"cancelled", "broken", "over"}
    <3>1. CASE q = p
      BY <1>1, <1>2, <2>2, <3>1 DEF MonIInv, TaskTypes
    <3>2. CASE q # p
      <4>1. awaits'[q] = awaits[q] /\ task[awaits[q]] \in {"cancelled", "broken", "over"}
        BY <1>1, <2>2, <3>2 DEF MonIInv, TaskTypes
      <4>2. awaits[q] # reg /\ awaits[q] \in Runs
        BY <2>2, <4>1, RunsAre DEF MonIInv, TaskTypes
      <4>3. QED
        BY <1>3, <4>1, <4>2
    <3>3. QED
      BY <3>1, <3>2
  <2>3. awaits' \in [Stoppers -> 0 .. runs] /\ stop' \in [Stoppers -> {"off", "unguard", "await", "finalize"}]
    BY <1>1 DEF MonIInv, TaskTypes
  <2>4. QED
    BY <1>1, <2>1, <2>2, <2>3 DEF MonIInv, TaskTypes
<1>6. Endings'
  <2>1. ASSUME ~overlap, NEW g \in Runs, task'[g] = "losing"
        PROVE  ~rec
    <3>1. g # reg
      BY <1>2, <2>1
    <3>2. task[g] = "losing"
      BY <1>3, <2>1, <3>1
    <3>3. QED
      BY <2>1, <3>2 DEF MonIInv, Endings
  <2>2. ~overlap => \A q \in Stoppers : stop'[q] = "finalize" => ~rec
    BY <1>1 DEF MonIInv, Endings, TaskTypes
  <2>3. QED
    BY <1>1, <2>1, <2>2 DEF Endings
<1>7. Tables' /\ IdleIsWatched'
  BY <1>1 DEF MonIInv, TaskTypes, Tables, IdleIsWatched
<1>8. OneSampler'
  BY <1>1, <1>2, <1>3 DEF MonIInv, OneSampler
<1>9. RecordingIsFed'
  BY <1>1 DEF MonIInv, TaskTypes, RecordingIsFed
<1>10. QED
  BY <1>4, <1>5, <1>6, <1>7, <1>8, <1>9 DEF MonIInv

LEMMA CancelKeeps == MonIInv /\ CancelByRequest => MonIInv'
<1> SUFFICES ASSUME MonIInv, CancelByRequest PROVE MonIInv'
  OBVIOUS
<1>1. MonTypes
  BY DEF MonIInv
<1>2. QED
  BY <1>1, TwoStoppers, CancelsKeep DEF CancelByRequest, MonTypes

LEMMA GuardKeeps == MonIInv /\ GuardWakes => MonIInv'
<1> SUFFICES ASSUME MonIInv, GuardWakes PROVE MonIInv'
  OBVIOUS
<1>1. stop[Idle] = "off"
      /\ UNCHANGED <<net, runs, tables, list, pc, told, lostEnd, rec, recent, pinned, overlap>>
  BY DEF GuardWakes
<1>2. CASE reg # 0 /\ MayStop
  <2>1. ~rec /\ guard' = FALSE /\ Cancels(Idle)
    BY <1>2 DEF GuardWakes, MayStop
  <2>2. QED
    BY <1>1, <2>1, TwoStoppers, CancelsKeep
<1>3. CASE ~(reg # 0 /\ MayStop)
  <2>1. UNCHANGED <<stop, awaits, reg, task>>
    BY <1>3 DEF GuardWakes
  <2>2. guard' = (reg # 0 /\ list = {})
    BY <1>3 DEF GuardWakes
  <2>3. guard' \in BOOLEAN /\ (reg # 0 /\ list = {} => guard')
    BY <2>2, Zenon
  <2>4. MonTypes' /\ TaskTypes'
    BY <1>1, <2>1, <2>3 DEF MonIInv, MonTypes, TaskTypes
  <2>5. Endings' /\ Tables' /\ OneSampler' /\ ViewerIsFed' /\ RecordingIsFed'
    BY <1>1, <2>1 DEF MonIInv, Endings, Tables, OneSampler, ViewerIsFed, RecordingIsFed
  <2>6. IdleIsWatched'
    BY <1>1, <2>1, <2>3 DEF IdleIsWatched
  <2>7. QED
    BY <2>4, <2>5, <2>6 DEF MonIInv
<1>4. QED
  BY <1>2, <1>3

LEMMA AwaitedKeeps == ASSUME NEW p \in Stoppers PROVE MonIInv /\ StopAwaited(p) => MonIInv'
<1> SUFFICES ASSUME MonIInv, StopAwaited(p) PROVE MonIInv'
  OBVIOUS
<1>1. /\ stop[p] = "await" /\ awaits' = [awaits EXCEPT ![p] = 0] /\ rec' = FALSE
      /\ stop' = [stop EXCEPT ![p] = IF rec THEN "finalize" ELSE "off"]
      /\ UNCHANGED <<net, runs, task, pc, guard, recent, pinned, overlap>>
  BY DEF StopAwaited
<1>2. (reg' = reg /\ tables' = tables /\ rec) \/ (reg' = 0 /\ tables' = 0 /\ ~rec)
  BY DEF StopAwaited, KeepsTables, Releases
<1>3. ~overlap => reg = 0 /\ reg' = 0 /\ \A g \in Runs : task[g] # "sampling"
  BY <1>1, <1>2, RunsAre DEF MonIInv, Endings, OneSampler
<1>4. TaskTypes'
  BY <1>1, <1>2 DEF MonIInv, TaskTypes
<1>5. Endings'
  BY <1>1, <1>3 DEF Endings
<1>6. CASE rec
  <2>1. UNCHANGED <<reg, tables, list, told, lostEnd>>
    BY <1>6 DEF StopAwaited, KeepsTables
  <2>2. MonTypes' /\ ViewerIsFed' /\ OneSampler' /\ RecordingIsFed'
    BY <1>1, <2>1 DEF MonIInv, MonTypes, ViewerIsFed, OneSampler, RecordingIsFed
  <2>3. Tables' /\ IdleIsWatched'
    BY <1>1, <1>3, <1>6 DEF MonIInv, TaskTypes, Tables, IdleIsWatched
  <2>4. QED
    BY <1>4, <1>5, <2>2, <2>3 DEF MonIInv
<1>7. CASE ~rec
  <2>1. Releases
    BY <1>7 DEF StopAwaited
  <2>2. QED
    BY <1>1, <1>3, <1>4, <1>5, <2>1, ReleasesKeep
<1>8. QED
  BY <1>6, <1>7

LEMMA DoneKeeps == ASSUME NEW p \in Stoppers PROVE MonIInv /\ StopDone(p) => MonIInv'
<1> SUFFICES ASSUME MonIInv, StopDone(p) PROVE MonIInv'
  OBVIOUS
<1>1. /\ stop[p] = "finalize" /\ stop' = [stop EXCEPT ![p] = "off"] /\ Releases
      /\ UNCHANGED <<net, runs, task, pc, rec, guard, recent, awaits, pinned, overlap>>
      /\ rec \in BOOLEAN
  BY DEF StopDone, MonIInv, MonTypes
<1>2. reg' = 0 /\ tables' = 0
  BY <1>1 DEF Releases
<1>3. ~overlap => reg = 0 /\ ~rec /\ \A g \in Runs : task[g] # "sampling"
  BY <1>1, RunsAre DEF MonIInv, Endings, OneSampler
<1>4. TaskTypes'
  BY <1>1, <1>2 DEF MonIInv, TaskTypes
<1>5. Endings'
  BY <1>1, <1>2, <1>3 DEF Endings
<1>6. QED
  BY <1>1, <1>3, <1>4, <1>5, ReleasesKeep

-----------------------------------------------------------------------------
LEMMA MonInvariance == MonIInv /\ [MonNext]_monVars => MonIInv'
<1> SUFFICES ASSUME MonIInv, [MonNext]_monVars PROVE MonIInv'
  OBVIOUS
<1>1. CASE StartByRequest \/ Poll \/ PollsAge \/ RecordStart
  BY <1>1, RequestKeeps, PollKeeps, AgeKeeps, RecordKeeps
<1>2. CASE \E v \in Viewers : View(v) \/ Join(v) \/ Leave(v)
  BY <1>2, ViewKeeps, JoinKeeps, LeaveKeeps
<1>3. CASE \E g \in Runs : Lost(g) \/ TaskEnds(g)
  BY <1>3, LostKeeps, EndsKeep
<1>4. CASE StopByRequest \/ CancelByRequest \/ GuardWakes
  BY <1>4, StopperKeeps, CancelKeeps, GuardKeeps
<1>5. CASE \E p \in Stoppers : StopAwaited(p) \/ StopDone(p)
  BY <1>5, AwaitedKeeps, DoneKeeps
<1>6. CASE UNCHANGED monVars
  <2> USE <1>6 DEF monVars
  <2>1. MonTypes' /\ TaskTypes'
    BY DEF MonIInv, MonTypes, TaskTypes
  <2>2. Endings' /\ Tables' /\ OneSampler' /\ ViewerIsFed' /\ RecordingIsFed'
    BY DEF MonIInv, Endings, Tables, OneSampler, ViewerIsFed, RecordingIsFed
  <2>3. IdleIsWatched'
    BY DEF MonIInv, IdleIsWatched, Ending
  <2>4. QED
    BY <2>1, <2>2, <2>3 DEF MonIInv
<1>7. QED
  BY <1>1, <1>2, <1>3, <1>4, <1>5, <1>6 DEF MonNext

\* As long as nothing is started in the middle of an end, one task samples into
\* its own tables, a viewer is fed or told, the idle guard stops no recording,
\* and an unused monitoring is watched (_release_device, _idle_guard).
THEOREM WhoUsesIsServed == MonSpec => []MonInv
<1>1. MonIInv => MonInv
  BY DEF MonIInv, MonTypes, TaskTypes, MonInv, MonTypeOK
<1>2. QED
  BY <1>1, InitMon, MonInvariance, PTL DEF MonSpec

-----------------------------------------------------------------------------
(***************************************************************************)
(* Rows are neither saved twice nor lost uncounted nor reported before     *)
(* they are stored, for any number of rows and any size of batch. A row is *)
(* in one place of buffer, batches, database and what failed (RowsOnce);   *)
(* the recorder counts a batch in the step that stores it, or never, so    *)
(* that its count cannot overtake the database (Reported).                 *)
(***************************************************************************)

\* Rows are those submitted so far.
Placed ==
    /\ 1 .. submitted = buffer \cup Saving \cup stored \cup failed
    /\ buffer \cap (Saving \cup stored \cup failed) = {}
    /\ \A s \in Savers : saving[s] \cap (stored \cup failed) = {}
    /\ stored \cap failed = {}
    /\ \A s, t \in Savers : s # t => saving[s] \cap saving[t] = {}

\* Only stop() flushes for itself.
FinalRests == phase = "on" => saving[Final] = {}

RecIInv ==
    RecTypeOK /\ Placed /\ FinalRests /\ written <= Cardinality(stored)

\* The three savers are different.
LEMMA Three == Cycle # Kick /\ Kick # Final /\ Cycle # Final
<1> DEFINE C(S) == Cardinality(S)
<1>1. ASSUME NEW a, NEW b PROVE Cardinality({a, b}) <= 2
  <2>1. IsFiniteSet({b}) /\ Cardinality({b}) = 1
    BY FS_Singleton
  <2>2. Cardinality({b} \cup {a}) \in {1, 2}
    BY <2>1, FS_AddElement
  <2>3. QED
    BY <2>2, {b} \cup {a} = {a, b}
<1>2. Cardinality(Savers) = 3
  BY RecorderAssumption DEF RecorderAssumption
<1>3. ASSUME Cycle = Kick \/ Kick = Final \/ Cycle = Final PROVE FALSE
  <2>1. Savers = {Cycle, Final} \/ Savers = {Cycle, Kick}
    BY <1>3 DEF Savers
  <2>2. Cardinality(Savers) <= 2
    BY <1>1, <2>1
  <2>3. QED
    BY <1>2, <2>2
<1>4. QED
  BY <1>3

\* Rows are finitely many, whatever part of them is counted.
LEMMA CountOfRows ==
    ASSUME NEW n \in Nat, NEW S, S \subseteq 1 .. n
    PROVE  IsFiniteSet(S) /\ Cardinality(S) \in Nat /\ Cardinality(S) <= n
<1>1. IsFiniteSet(1 .. n) /\ Cardinality(1 .. n) = n
  BY FS_Interval
<1>2. QED
  BY <1>1, FS_Subset, FS_CardinalityType

\* A batch that reaches the database is counted once.
LEMMA CountOfBatch ==
    ASSUME NEW n \in Nat, NEW S, NEW T, S \subseteq 1 .. n, T \subseteq 1 .. n, S \cap T = {}
    PROVE  Cardinality(S \cup T) = Cardinality(S) + Cardinality(T)
<1>1. IsFiniteSet(S) /\ IsFiniteSet(T)
  BY CountOfRows
<1>2. Cardinality(S \cap T) = 0
  BY FS_EmptySet
<1>3. Cardinality(S \cup T) = Cardinality(S) + Cardinality(T) - Cardinality(S \cap T)
  BY <1>1, FS_Union
<1>4. QED
  BY <1>1, <1>2, <1>3, FS_CardinalityType

LEMMA InitRec == RecInit => RecIInv
<1> SUFFICES ASSUME RecInit PROVE RecIInv
  OBVIOUS
<1>1. RecTypeOK
  BY RecorderAssumption DEF RecorderAssumption, RecInit, RecTypeOK, Rows, Savers
<1>2. Placed
  BY DEF RecInit, Placed, Saving
<1>3. Cardinality(stored) = 0
  BY FS_EmptySet DEF RecInit
<1>4. QED
  BY <1>1, <1>2, <1>3 DEF RecIInv, RecInit, FinalRests, Savers

\* What is being saved is what the three have taken.
LEMMA SavingOfThree == Saving = saving[Cycle] \cup saving[Kick] \cup saving[Final]
BY DEF Saving, Savers

LEMMA SubmitKeeps == RecIInv /\ Submit => RecIInv'
<1> SUFFICES ASSUME RecIInv, Submit PROVE RecIInv'
  OBVIOUS
<1>1. submitted \in Nat /\ submitted' = submitted + 1 /\ submitted' \in 0 .. MaxRows
  BY RecorderAssumption DEF RecorderAssumption, RecIInv, RecTypeOK, Submit
<1>2. 1 .. submitted' = (1 .. submitted) \cup {submitted + 1}
  BY <1>1
<1>3. submitted + 1 \notin 1 .. submitted
  BY <1>1
<1>4. Saving' = Saving /\ UNCHANGED <<saving, stored, failed, written, answer, phase>>
  BY DEF Submit, Saving
<1>5. submitted + 1 \in Rows
  BY <1>1 DEF Rows
<1>6. RecTypeOK'
  BY <1>1, <1>4, <1>5, RecorderAssumption
     DEF RecorderAssumption, RecIInv, RecTypeOK, Submit
<1>7. submitted + 1 \notin Saving \cup stored \cup failed
  BY <1>3 DEF RecIInv, Placed
<1>8. Placed'
  BY <1>2, <1>4, <1>7 DEF RecIInv, Placed, Submit
<1>9. FinalRests' /\ written' <= Cardinality(stored')
  BY <1>4 DEF RecIInv, FinalRests
<1>10. QED
  BY <1>6, <1>8, <1>9 DEF RecIInv

\* The buffer becomes the batch of a saver that has none.
LEMMA FlushKeeps == ASSUME NEW s \in Savers PROVE RecIInv /\ FlushRows(s) => RecIInv'
<1> SUFFICES ASSUME RecIInv, FlushRows(s) PROVE RecIInv'
  OBVIOUS
<1>1. /\ saving[s] = {} /\ saving' = [saving EXCEPT ![s] = buffer] /\ buffer' = {}
      /\ UNCHANGED <<phase, submitted, stored, written, failed, answer>>
  BY DEF FlushRows, Takes
<1>2. saving \in [Savers -> SUBSET Rows] /\ buffer \in SUBSET Rows
  BY DEF RecIInv, RecTypeOK
<1>3. saving'[s] = buffer /\ \A t \in Savers \ {s} : saving'[t] = saving[t]
  BY <1>1, <1>2
<1>4. Saving' = Saving \cup buffer
  BY <1>1, <1>3, SavingOfThree, Three DEF Saving, Savers
<1>5. RecTypeOK'
  BY <1>1, <1>2 DEF RecIInv, RecTypeOK
<1>6. Placed'
  <2>1. 1 .. submitted' = buffer' \cup Saving' \cup stored' \cup failed'
    BY <1>1, <1>4 DEF RecIInv, Placed
  <2>2. \A t \in Savers : saving'[t] \cap (stored' \cup failed') = {}
    BY <1>1, <1>3 DEF RecIInv, Placed
  <2>3. \A t, u \in Savers : t # u => saving'[t] \cap saving'[u] = {}
    <3>1. \A t \in Savers : buffer \cap saving[t] = {}
      BY DEF RecIInv, Placed, Saving
    <3>2. QED
      BY <1>3, <3>1 DEF RecIInv, Placed
  <2>4. QED
    BY <1>1, <2>1, <2>2, <2>3 DEF RecIInv, Placed
<1>7. FinalRests'
  <2>1. phase = "on" => Final # s
    BY Three DEF FlushRows
  <2>2. QED
    BY <1>1, <1>3, <2>1 DEF RecIInv, FinalRests, Savers
<1>8. written' <= Cardinality(stored')
  BY <1>1 DEF RecIInv
<1>9. QED
  BY <1>5, <1>6, <1>7, <1>8 DEF RecIInv

\* What is stored and what is counted, when the batch of a saver is done with.
LEMMA CountKeeps ==
    ASSUME RecIInv, NEW s \in Savers, Counts(s), UNCHANGED submitted
    PROVE  /\ stored' \subseteq Rows /\ failed' \subseteq Rows
           /\ stored' \cup failed' = stored \cup failed \cup saving[s]
           /\ stored' \cap failed' = {}
           /\ written' \in 0 .. submitted /\ written' >= written
           /\ written' <= Cardinality(stored')
<1>1. /\ submitted \in Nat /\ written \in 0 .. submitted /\ written <= Cardinality(stored)
      /\ saving[s] \subseteq Rows /\ stored \subseteq Rows /\ failed \subseteq Rows
  BY RecorderAssumption DEF RecorderAssumption, RecIInv, RecTypeOK
<1>2. /\ saving[s] \subseteq 1 .. submitted /\ stored \subseteq 1 .. submitted
      /\ saving[s] \cap stored = {} /\ saving[s] \cap failed = {} /\ stored \cap failed = {}
  BY DEF RecIInv, Placed, Saving
<1>3. CASE failed' = failed \cup saving[s] /\ UNCHANGED <<stored, written>>
  <2>1. written' = written /\ stored' = stored /\ Cardinality(stored) \in Nat
    BY <1>1, <1>2, <1>3, CountOfRows
  <2>2. /\ written' \in 0 .. submitted /\ written' >= written
        /\ written' <= Cardinality(stored')
    BY <1>1, <2>1
  <2>3. QED
    BY <1>1, <1>2, <1>3, <2>2
<1>4. CASE /\ stored' = stored \cup saving[s] /\ UNCHANGED failed
           /\ written' = written + Cardinality(saving[s])
  <2>1. Cardinality(saving[s]) \in Nat /\ Cardinality(stored) \in Nat
    BY <1>1, <1>2, CountOfRows
  <2>2. Cardinality(stored') = Cardinality(stored) + Cardinality(saving[s])
    <3>1. submitted \in Nat /\ stored \cap saving[s] = {}
      BY <1>1, <1>2
    <3>2. Cardinality(stored \cup saving[s]) = Cardinality(stored) + Cardinality(saving[s])
      BY <1>2, <3>1, CountOfBatch
    <3>3. QED
      BY <1>4, <3>2
  <2>3. Cardinality(stored') <= submitted
    <3>1. stored' \subseteq 1 .. submitted
      BY <1>2, <1>4
    <3>2. QED
      BY <1>1, <3>1, CountOfRows
  <2>4. written' \in 0 .. submitted /\ written' >= written /\ written' <= Cardinality(stored')
    BY <1>1, <1>4, <2>1, <2>2, <2>3
  <2>5. QED
    BY <1>1, <1>2, <1>4, <2>4
<1>5. QED
  BY <1>3, <1>4 DEF Counts

\* A batch that is done with leaves the table, its rows are elsewhere.
LEMMA BatchOver ==
    ASSUME RecIInv, NEW s \in Savers, Counts(s), saving' = [saving EXCEPT ![s] = {}],
           UNCHANGED <<submitted, buffer>>, phase' \in {"on", "final", "stopped"},
           phase' = "on" => phase = "on", answer' \in {answer, written'}
    PROVE  RecIInv'
<1>1. /\ stored' \subseteq Rows /\ failed' \subseteq Rows
      /\ stored' \cup failed' = stored \cup failed \cup saving[s]
      /\ stored' \cap failed' = {}
      /\ written' \in 0 .. submitted /\ written' >= written
      /\ written' <= Cardinality(stored')
  BY CountKeeps
<1>2. saving \in [Savers -> SUBSET Rows]
  BY DEF RecIInv, RecTypeOK
<1>3. saving'[s] = {} /\ \A t \in Savers \ {s} : saving'[t] = saving[t]
  BY <1>2
<1>4. Saving = Saving' \cup saving[s]
  BY <1>3, SavingOfThree, Three DEF Saving, Savers
<1>5. RecTypeOK'
  BY <1>1, <1>2, RecorderAssumption DEF RecorderAssumption, RecIInv, RecTypeOK
<1>6. Placed'
  <2>1. 1 .. submitted' = buffer' \cup Saving' \cup stored' \cup failed'
    BY <1>1, <1>4 DEF RecIInv, Placed
  <2>2. buffer' \cap (Saving' \cup stored' \cup failed') = {}
    BY <1>1, <1>4 DEF RecIInv, Placed
  <2>3. \A t \in Savers : saving'[t] \cap (stored' \cup failed') = {}
    BY <1>1, <1>3 DEF RecIInv, Placed
  <2>4. \A t, u \in Savers : t # u => saving'[t] \cap saving'[u] = {}
    BY <1>3 DEF RecIInv, Placed
  <2>5. QED
    BY <1>1, <2>1, <2>2, <2>3, <2>4 DEF Placed
<1>7. FinalRests'
  BY <1>3 DEF RecIInv, FinalRests, Savers
<1>8. QED
  BY <1>1, <1>5, <1>6, <1>7 DEF RecIInv

\* A save that is over leaves its rows in the database or among the failed.
LEMMA SaveKeeps == ASSUME NEW s \in Savers PROVE RecIInv /\ SaveDone(s) => RecIInv'
<1> SUFFICES ASSUME RecIInv, SaveDone(s) PROVE RecIInv'
  OBVIOUS
<1>1. /\ Counts(s) /\ saving' = [saving EXCEPT ![s] = {}]
      /\ UNCHANGED <<phase, submitted, buffer, answer>>
  BY DEF SaveDone
<1>2. phase' \in {"on", "final", "stopped"} /\ phase' = phase /\ answer' = answer
  BY <1>1 DEF RecIInv, RecTypeOK
<1>3. QED
  BY <1>1, <1>2, BatchOver

\* stop() cancels the loop in its save and takes the buffer for its last flush.
LEMMA StopKeeps == RecIInv /\ StopRecorder => RecIInv'
<1> SUFFICES ASSUME RecIInv, StopRecorder PROVE RecIInv'
  OBVIOUS
<1>1. /\ saving' = [saving EXCEPT ![Cycle] = {}, ![Final] = buffer] /\ buffer' = {}
      /\ phase = "on" /\ phase' = "final" /\ UNCHANGED <<submitted, written, answer>>
      /\ stored' \cup failed' = stored \cup failed \cup saving[Cycle]
      /\ stored \subseteq stored' /\ stored' \subseteq stored \cup saving[Cycle]
      /\ failed' \subseteq failed \cup saving[Cycle]
  BY DEF StopRecorder
<1>2. saving \in [Savers -> SUBSET Rows] /\ Cycle \in Savers /\ Final \in Savers /\ Kick \in Savers
  BY DEF RecIInv, RecTypeOK, Savers
<1>3. saving'[Cycle] = {} /\ saving'[Final] = buffer /\ saving'[Kick] = saving[Kick]
  BY <1>1, <1>2, Three
<1>4. saving[Final] = {}
  BY <1>1 DEF RecIInv, FinalRests
<1>5. Saving' = saving[Kick] \cup buffer /\ Saving = saving[Cycle] \cup saving[Kick]
  BY <1>3, <1>4, SavingOfThree DEF Saving, Savers
<1>6. stored' \cap failed' = {}
  BY <1>2 DEF StopRecorder, RecIInv, Placed
<1>7. written <= Cardinality(stored')
  <2>1. stored' \subseteq 1 .. submitted /\ submitted \in Nat
    BY <1>1, <1>2, RecorderAssumption
       DEF RecorderAssumption, RecIInv, RecTypeOK, Placed, Saving
  <2>2. IsFiniteSet(stored') /\ Cardinality(stored') \in Nat
    BY <2>1, CountOfRows
  <2>3. Cardinality(stored) <= Cardinality(stored') /\ Cardinality(stored) \in Nat
    BY <1>1, <2>2, FS_Subset, FS_CardinalityType
  <2>4. written \in Nat /\ written <= Cardinality(stored)
    BY RecorderAssumption, <2>1 DEF RecorderAssumption, RecIInv, RecTypeOK
  <2>5. QED
    BY <2>2, <2>3, <2>4
<1>8. RecTypeOK'
  BY <1>1, <1>2 DEF RecIInv, RecTypeOK
<1>9. Placed'
  <2>1. 1 .. submitted' = buffer' \cup Saving' \cup stored' \cup failed'
    BY <1>1, <1>5 DEF RecIInv, Placed
  <2>2. \A t \in Savers : saving'[t] \cap (stored' \cup failed') = {}
    <3>1. buffer \cap (stored' \cup failed') = {} /\ saving[Kick] \cap (stored' \cup failed') = {}
      BY <1>1, <1>2, <1>5, Three DEF RecIInv, Placed
    <3>2. QED
      BY <1>3, <3>1 DEF Savers
  <2>3. \A t, u \in Savers : t # u => saving'[t] \cap saving'[u] = {}
    <3>1. buffer \cap saving[Kick] = {}
      BY <1>5 DEF RecIInv, Placed
    <3>2. QED
      BY <1>3, <3>1 DEF Savers
  <2>4. QED
    BY <1>1, <1>6, <2>1, <2>2, <2>3 DEF Placed
<1>10. QED
  BY <1>1, <1>7, <1>8, <1>9 DEF RecIInv, FinalRests

LEMMA ReturnKeeps == RecIInv /\ StopReturns => RecIInv'
<1> SUFFICES ASSUME RecIInv, StopReturns PROVE RecIInv'
  OBVIOUS
<1>1. /\ Counts(Final) /\ saving' = [saving EXCEPT ![Final] = {}] /\ Final \in Savers
      /\ phase' = "stopped" /\ answer' = written' /\ UNCHANGED <<submitted, buffer>>
  BY DEF StopReturns, Savers
<1>2. QED
  BY <1>1, BatchOver

LEMMA RecInvariance == RecSpec => []RecIInv
<1>1. RecIInv /\ [RecNext]_recVars => RecIInv'
  <2>1. RecIInv /\ UNCHANGED recVars => RecIInv'
    BY DEF RecIInv, RecTypeOK, Placed, Saving, FinalRests, recVars
  <2>2. QED
    BY <2>1, SubmitKeeps, FlushKeeps, SaveKeeps, StopKeeps, ReturnKeeps DEF RecNext
<1>2. QED
  BY <1>1, InitRec, PTL DEF RecSpec

\* Each row is in one place, and what stop() reports is in the database
\* (MetricRecorder.flush, stop).
THEOREM RowsAreCounted == RecSpec => []RecInv
<1>1. RecIInv => RecInv
  <2> SUFFICES ASSUME RecIInv PROVE RecInv
    OBVIOUS
  <2>1. RowsOnce
    <3>1. Saving \cap (stored \cup failed) = {}
      BY DEF RecIInv, Placed, Saving
    <3>2. QED
      BY <3>1 DEF RecIInv, Placed, RowsOnce
  <2>2. ReportedAreStored
    <3>1. submitted \in Nat /\ stored \subseteq 1 .. submitted
      BY RecorderAssumption DEF RecorderAssumption, RecIInv, RecTypeOK, Placed
    <3>2. Cardinality(stored) \in Nat
      BY <3>1, CountOfRows
    <3>3. QED
      BY <3>1, <3>2 DEF RecIInv, RecTypeOK, ReportedAreStored
  <2>3. QED
    BY <2>1, <2>2 DEF RecIInv, RecInv
<1>2. QED
  BY <1>1, RecInvariance, PTL

-----------------------------------------------------------------------------
(***************************************************************************)
(* What AlertEngine promises, for every set of rules, every window and any *)
(* number of samples. The counters of the engine are reset by other steps  *)
(* than the runs of samples they stand for; the invariant says that they   *)
(* agree wherever they are looked at (Counted), and that the time a rule's *)
(* cooldown is measured from is that of its last notification (Noted).     *)
(***************************************************************************)

\* While the alert is off the engine counts the samples beyond the threshold,
\* while it is on the safe ones, and neither reaches its limit unnoticed.
Counted ==
    /\ ~active => breaches = beyond /\ oks = 0
    /\ active => oks = safe /\ breaches = 0
    /\ rule = Off => ~active /\ beyond = 0 /\ safe = 0
    /\ beyond <= now /\ safe <= now

Noted ==
    /\ toast = lastNotify
    /\ active /\ notified # Never => notified = fired /\ toast = notified

AlertIInv == AlertTypeOK /\ Counted /\ Noted

\* A rule is one of the constant, with limits of at least one sample, or Off.
LEMMA RuleFacts ==
    ASSUME NEW r \in Rules \cup {Off}
    PROVE  /\ r.consecutive \in Nat /\ r.clear \in Nat /\ r.cooldown \in Nat
           /\ r # Off => r.consecutive > 0 /\ r.clear > 0
BY AlertAssumption DEF AlertAssumption, Off

LEMMA InitAlert == AlertInit => AlertIInv
<1> SUFFICES ASSUME AlertInit PROVE AlertIInv
  OBVIOUS
<1>1. active = FALSE /\ active \in BOOLEAN
  BY DEF AlertInit
<1>2. AlertTypeOK
  BY <1>1, AlertAssumption
     DEF AlertAssumption, AlertInit, AlertTypeOK, Off, Times, Never
<1>3. Counted /\ Noted
  BY <1>1 DEF AlertInit, Counted, Noted
<1>4. QED
  BY <1>2, <1>3 DEF AlertIInv

\* Changed settings take the alert and its counts with them.
LEMMA SyncKeeps == AlertIInv /\ Sync => AlertIInv'
<1> SUFFICES ASSUME AlertIInv, Sync PROVE AlertIInv'
  OBVIOUS
<1>1. rule' \in Rules \cup {Off} /\ now' = now /\ now \in 0 .. MaxTime
  BY DEF Sync, AlertIInv, AlertTypeOK
<1>2. rule'.consecutive \in Nat /\ rule'.clear \in Nat
  BY <1>1, RuleFacts
<1>3. active' = FALSE /\ active' \in BOOLEAN
  BY DEF Sync, Resets
<1>4. AlertTypeOK'
  BY <1>1, <1>2, <1>3, AlertAssumption
     DEF AlertAssumption, Sync, Resets, AlertIInv, AlertTypeOK, Times, Never
<1>5. Counted'
  BY <1>1, <1>3 DEF Sync, Resets, Counted
<1>6. Noted'
  BY <1>3 DEF Sync, Resets, AlertIInv, Noted
<1>7. QED
  BY <1>4, <1>5, <1>6 DEF AlertIInv

\* A sample, by what it does to the alert.
LEMMA SampleKeeps == AlertIInv /\ Sample => AlertIInv'
<1> SUFFICES ASSUME AlertIInv, Sample PROVE AlertIInv'
  OBVIOUS
<1> USE DEF AlertIInv
<1>1. /\ now' \in 0 .. MaxTime /\ now' >= now + 1 /\ now \in 0 .. MaxTime
      /\ rule' = rule /\ rule \in Rules \cup {Off}
  BY AlertAssumption DEF AlertAssumption, Sample, AlertTypeOK
<1>2. /\ rule.consecutive \in Nat /\ rule.clear \in Nat
      /\ rule # Off => rule.consecutive > 0 /\ rule.clear > 0
  BY <1>1, RuleFacts
<1>3. ASSUME NEW v \in {"beyond", "band", "safe"}, rule # Off, Evaluate(v),
             beyond' = IF v = "beyond" THEN beyond + 1 ELSE 0,
             safe' = IF v = "safe" THEN safe + 1 ELSE 0
      PROVE  AlertIInv'
  <2>1. beyond' \in 0 .. MaxTime /\ safe' \in 0 .. MaxTime
        /\ beyond' <= now' /\ safe' <= now'
    BY <1>1, <1>3, AlertAssumption DEF AlertAssumption, AlertTypeOK, Counted
  <2>2. CASE Clears(v) /\ Resets /\ UNCHANGED <<lastNotify, toast>>
    <3>1. v = "safe" /\ active' = FALSE /\ active' \in BOOLEAN
      BY <2>2 DEF Clears, Resets
    <3>2. AlertTypeOK'
      BY <1>1, <1>2, <2>1, <2>2, <3>1, AlertAssumption
         DEF AlertAssumption, Resets, AlertTypeOK, Times, Never
    <3>3. Counted' /\ Noted'
      BY <1>1, <1>3, <2>1, <2>2, <3>1 DEF Resets, Counted, Noted
    <3>4. QED
      BY <3>2, <3>3
  <2>3. CASE /\ active /\ ~Clears(v) /\ oks' = IF v = "safe" THEN oks + 1 ELSE 0
             /\ UNCHANGED <<breaches, active, fired, notified, lastNotify, toast>>
    <3>1. oks' < rule.clear \/ oks' = 0
      BY <1>2, <2>3 DEF AlertTypeOK, Clears
    <3>2. QED
      BY <1>1, <1>2, <1>3, <2>1, <2>3, <3>1 DEF AlertTypeOK, Counted, Noted
  <2>4. CASE Fires(v) /\ Activates
    <3>1. v = "beyond" /\ active' = TRUE /\ active' \in BOOLEAN
      BY <2>4 DEF Fires, Activates
    <3>2. AlertTypeOK'
      BY <1>1, <1>2, <2>1, <2>4, <3>1, AlertAssumption
         DEF AlertAssumption, Activates, AlertTypeOK, Times, Never
    <3>3. Counted' /\ Noted'
      BY <1>1, <1>3, <2>1, <2>4, <3>1 DEF Activates, Counted, Noted
    <3>4. QED
      BY <3>2, <3>3
  <2>5. CASE /\ ~active /\ ~Fires(v) /\ breaches' = IF v = "beyond" THEN breaches + 1 ELSE 0
             /\ UNCHANGED <<oks, active, fired, notified, lastNotify, toast>>
    <3>1. breaches' < rule.consecutive \/ breaches' = 0
      BY <1>2, <2>5 DEF AlertTypeOK, Fires
    <3>2. QED
      BY <1>1, <1>2, <1>3, <2>1, <2>5, <3>1 DEF AlertTypeOK, Counted, Noted
  <2>6. QED
    BY <1>3, <2>2, <2>3, <2>4, <2>5 DEF Evaluate
<1>4. CASE UNCHANGED <<breaches, oks, active, fired, notified, lastNotify,
                       beyond, safe, toast>>
  BY <1>1, <1>4 DEF AlertTypeOK, Counted, Noted
<1>5. QED
  BY <1>3, <1>4 DEF Sample

LEMMA AlertInvariance == AlertSpec => []AlertIInv
<1>1. AlertIInv /\ [AlertNext]_alertVars => AlertIInv'
  <2>1. AlertIInv /\ UNCHANGED alertVars => AlertIInv'
    BY DEF AlertIInv, AlertTypeOK, Counted, Noted, alertVars
  <2>2. QED
    BY <2>1, SyncKeeps, SampleKeeps DEF AlertNext
<1>2. QED
  BY <1>1, InitAlert, PTL DEF AlertSpec

\* Alerts come and go with their cause: none is missed, none stays on, none
\* begins or ends early, what is reported as new was notified, and a rule's
\* notifications are a cooldown apart (evaluate, sync, _activate, snapshot).
THEOREM AlertsComeAndGo == AlertSpec => AlertsHold
<1>1. AlertIInv => AlertTypeOK /\ NothingMissed /\ NewIsNotified
  BY RuleFacts
     DEF AlertIInv, AlertTypeOK, Counted, Noted, NothingMissed, NewIsNotified, New, Reported
<1>2. ASSUME AlertIInv, [AlertNext]_alertVars
      PROVE  [/\ ~Reported /\ Reported' => beyond' >= rule.consecutive
              /\ Reported /\ ~Reported' => safe' >= rule.clear \/ rule' # rule]_alertVars
  <2>1. CASE UNCHANGED alertVars
    BY <2>1
  <2>2. CASE Sync
    BY <2>2 DEF Sync, Resets, Reported
  <2>3. CASE Sample
    BY <1>2, <2>3 DEF Sample, Evaluate, Clears, Fires, Activates, Resets, Reported, AlertIInv, AlertTypeOK, Counted
  <2>4. QED
    BY <1>2, <2>1, <2>2, <2>3 DEF AlertNext
<1>3. ASSUME AlertIInv, [AlertNext]_alertVars
      PROVE  [toast' # toast /\ toast # Never /\ toast' # Never
                => toast' - toast >= rule.cooldown]_alertVars
  <2>1. CASE UNCHANGED alertVars
    BY <2>1
  <2>2. CASE Sync
    BY <2>2 DEF Sync
  <2>3. CASE Sample
    BY <1>3, <2>3 DEF Sample, Evaluate, Clears, Fires, Activates, Resets, AlertIInv, Noted
  <2>4. QED
    BY <1>3, <2>1, <2>2, <2>3 DEF AlertNext
<1>4. QED
  BY <1>1, <1>2, <1>3, AlertInvariance, PTL
     DEF AlertSpec, AlertsHold, Hysteresis, Cooldown

-----------------------------------------------------------------------------
(***************************************************************************)
(* The device page shows what is so, or is about to be told, for any       *)
(* capacity of the event queue and any number of events. A state is known  *)
(* when the loop, the page or the device itself is in it: what waits in    *)
(* the queue or is answered to a request is known (NewsIsKnown,            *)
(* PageIsKnown), and a full queue has marked the page for a fresh listing  *)
(* (WaitersAreFed, OffAsksNothing).                                        *)
(***************************************************************************)

RegStates ==
    /\ real \in States /\ prev \in States /\ snap \in States /\ page \in States
    /\ listed \in States /\ loop \in {"asleep", "querying", "saving", "deleting"}
    /\ info \in {"none", "query", "save"} /\ req \in {"idle", "adb", "info", "save"}
    /\ scan \in {"no", "probing", "connecting"} /\ dis \in {"idle", "adb", "delete", "clean"}
    /\ sub \in {"off", "connecting", "on", "closed"} /\ fetch \in {"no", "asked", "listing", "answered"}
    /\ spent \in 0 .. MaxEvents

RegFlags ==
    /\ cool \in BOOLEAN /\ row \in BOOLEAN /\ broken \in BOOLEAN /\ dirty \in BOOLEAN
    /\ missed \in BOOLEAN /\ seen \in BOOLEAN

RegTypes == RegStates /\ RegFlags

\* Only an open stream has events under way.
QueueOK ==
    /\ queue \in Seq(States \cup {"other"}) /\ Len(queue) <= Capacity
    /\ sub # "on" => queue = <<>>

\* What the loop is busy with is the state its tick has read.
LoopKnows ==
    /\ loop = "asleep" => snap = prev
    /\ loop \in {"querying", "saving"} => snap = "device"
    /\ loop = "deleting" => snap = "absent"
    /\ seen => real = snap

\* A page that is gone awaits no list.
OffAsksNothing == sub = "off" => fetch = "no"

\* The states the page may still be shown: the one the loop has announced, the
\* one it is announcing, and the one it has not read yet.
Known == {prev, snap, real}

\* Position i holds the last news of the address in the queue q.
Latest(q, i) == /\ i \in 1 .. Len(q) /\ q[i] # "other"
                /\ \A j \in 1 .. Len(q) : j > i => q[j] = "other"

NoNews(q) == \A i \in 1 .. Len(q) : q[i] = "other"

\* Neither the last news under way nor, without news, the page or the list it
\* awaits is older than that.
NewsIsKnown == ~missed => \A i \in 1 .. Len(queue) : Latest(queue, i) => queue[i] \in Known

Listening == sub \in {"on", "closed"} \/ (sub = "connecting" /\ ~broken)

PageIsKnown ==
    ~missed /\ Listening /\ NoNews(queue) =>
        /\ fetch = "no" => page \in Known
        /\ fetch \in {"listing", "answered"} /\ ~dirty => listed \in Known

RegIInv == /\ RegTypes /\ QueueOK /\ LoopKnows /\ WaitersAreFed /\ OffAsksNothing
           /\ NewsIsKnown /\ PageIsKnown

LEMMA RegBounds == Capacity \in Nat /\ Capacity # 0 /\ MaxEvents \in Nat
BY RegistryAssumption DEF RegistryAssumption

-----------------------------------------------------------------------------
(* The queue of events *)

\* After a push the last event is the one pushed; the others have kept their
\* order, and at most the oldest is gone.
LEMMA Pushed ==
    ASSUME QueueOK, NEW e \in States \cup {"other"}
    PROVE  LET q == queue  r == Queued(e) IN
           /\ r \in Seq(States \cup {"other"}) /\ Len(r) <= Capacity /\ Len(r) # 0 /\ r[Len(r)] = e
           /\ Len(q) < Capacity => Len(r) = Len(q) + 1 /\ \A i \in 1 .. Len(q) : r[i] = q[i]
           /\ Len(q) = Capacity => Len(r) = Len(q) /\ \A i \in 1 .. Len(q) - 1 : r[i] = q[i + 1]
<1> DEFINE E == States \cup {"other"}
<1>1. queue \in Seq(E) /\ Len(queue) <= Capacity
  BY DEF QueueOK
<1> HIDE DEF E
<1> USE RegBounds
<1>2. CASE Len(queue) < Capacity
  <2>1. Queued(e) = Append(queue, e)
    BY <1>2 DEF Queued
  <2>2. QED
    BY <1>1, <1>2, <2>1 DEF E
<1>3. CASE Len(queue) = Capacity
  <2>1. Queued(e) = Append(Tail(queue), e)
    BY <1>3 DEF Queued
  <2>2. queue # <<>>
    BY <1>3
  <2>3. /\ Tail(queue) \in Seq(E) /\ Len(Tail(queue)) = Len(queue) - 1
        /\ \A i \in 1 .. Len(queue) - 1 : Tail(queue)[i] = queue[i + 1]
    BY <1>1, <2>2
  <2>4. QED
    BY <1>1, <1>3, <2>1, <2>3 DEF E
<1>4. QED
  BY <1>1, <1>2, <1>3

\* News pushed are the last news, ...
LEMMA NewsPushed ==
    ASSUME QueueOK, NEW e \in States
    PROVE  /\ Queued(e) \in Seq(States \cup {"other"}) /\ Len(Queued(e)) <= Capacity
           /\ ~NoNews(Queued(e))
           /\ \A i \in 1 .. Len(Queued(e)) : Latest(Queued(e), i) => Queued(e)[i] = e
<1> DEFINE r == Queued(e)
<1>1. e # "other" /\ e \in States \cup {"other"}
  BY DEF States
<1>2. /\ r \in Seq(States \cup {"other"}) /\ Len(r) <= Capacity /\ Len(r) # 0 /\ r[Len(r)] = e
  BY <1>1, Pushed
<1> HIDE DEF r
<1>3. ~NoNews(r)
  BY <1>1, <1>2 DEF NoNews
<1>4. \A i \in 1 .. Len(r) : Latest(r, i) => r[i] = e
  BY <1>1, <1>2 DEF Latest
<1>5. QED
  BY <1>2, <1>3, <1>4 DEF r

\* ... and the news of another device, if they push out no news of this one,
\* change nothing about it.
LEMMA OtherPushed ==
    ASSUME QueueOK, ~Drops
    PROVE  LET r == Queued("other") IN
           /\ r \in Seq(States \cup {"other"}) /\ Len(r) <= Capacity
           /\ NoNews(r) => NoNews(queue)
           /\ \A i \in 1 .. Len(r) : Latest(r, i) =>
                \E k \in 1 .. Len(queue) : Latest(queue, k) /\ queue[k] = r[i]
<1> DEFINE r == Queued("other")
<1>1. /\ r \in Seq(States \cup {"other"}) /\ Len(r) <= Capacity /\ Len(r) # 0 /\ r[Len(r)] = "other"
      /\ Len(queue) < Capacity =>
           Len(r) = Len(queue) + 1 /\ \A i \in 1 .. Len(queue) : r[i] = queue[i]
      /\ Len(queue) = Capacity =>
           Len(r) = Len(queue) /\ \A i \in 1 .. Len(queue) - 1 : r[i] = queue[i + 1]
  BY Pushed
<1> HIDE DEF r
<1>2. Len(queue) \in Nat /\ (Len(queue) < Capacity \/ Len(queue) = Capacity)
  BY RegBounds DEF QueueOK
<1>3. CASE Len(queue) < Capacity
  <2>1. NoNews(r) => NoNews(queue)
    BY <1>1, <1>2, <1>3 DEF NoNews
  <2>2. ASSUME NEW i \in 1 .. Len(r), Latest(r, i)
        PROVE  \E k \in 1 .. Len(queue) : Latest(queue, k) /\ queue[k] = r[i]
    <3>1. i \in 1 .. Len(queue)
      BY <1>1, <1>2, <1>3, <2>2 DEF Latest
    <3>2. Latest(queue, i) /\ queue[i] = r[i]
      BY <1>1, <1>2, <1>3, <2>2, <3>1 DEF Latest
    <3>3. QED
      BY <3>1, <3>2
  <2>3. QED
    BY <1>1, <2>1, <2>2 DEF r
<1>4. CASE Len(queue) = Capacity
  <2>1. queue[1] = "other"
    BY <1>2, <1>4, RegBounds DEF Drops, QueueOK
  <2>2. NoNews(r) => NoNews(queue)
    <3> SUFFICES ASSUME NoNews(r), NEW i \in 1 .. Len(queue), i # 1
                 PROVE  queue[i] = "other"
      BY <2>1 DEF NoNews
    <3>1. i - 1 \in 1 .. Len(queue) - 1 /\ i = (i - 1) + 1
      BY <1>2
    <3>2. r[i - 1] = queue[i]
      BY <1>1, <1>4, <3>1
    <3>3. QED
      BY <1>1, <1>2, <1>4, <3>1, <3>2 DEF NoNews
  <2>3. ASSUME NEW i \in 1 .. Len(r), Latest(r, i)
        PROVE  \E k \in 1 .. Len(queue) : Latest(queue, k) /\ queue[k] = r[i]
    <3>1. i \in 1 .. Len(queue) - 1 /\ i + 1 \in 1 .. Len(queue)
      BY <1>1, <1>2, <1>4, <2>3 DEF Latest
    <3>2. queue[i + 1] = r[i]
      BY <1>1, <1>4, <3>1
    <3>3. ASSUME NEW j \in 1 .. Len(queue), j > i + 1
          PROVE  queue[j] = "other"
      <4>1. j - 1 \in 1 .. Len(queue) - 1 /\ j = (j - 1) + 1 /\ j - 1 > i
        BY <1>2, <3>3
      <4>2. r[j - 1] = queue[j]
        BY <1>1, <1>4, <4>1
      <4>3. QED
        BY <1>1, <1>2, <1>4, <2>3, <4>1, <4>2 DEF Latest
    <3>4. Latest(queue, i + 1)
      BY <2>3, <3>1, <3>2, <3>3 DEF Latest
    <3>5. QED
      BY <3>1, <3>2, <3>4
  <2>4. QED
    BY <1>1, <2>2, <2>3 DEF r
<1>5. QED
  BY <1>2, <1>3, <1>4

\* What is read from the queue were the last news, or they are still in it.
LEMMA HeadRead ==
    ASSUME QueueOK, queue # <<>>
    PROVE  /\ Tail(queue) \in Seq(States \cup {"other"}) /\ Len(Tail(queue)) <= Capacity
           /\ Head(queue) \in States \cup {"other"}
           /\ NoNews(Tail(queue)) => IF Head(queue) = "other" THEN NoNews(queue)
                                     ELSE \E k \in 1 .. Len(queue) : Latest(queue, k) /\ queue[k] = Head(queue)
           /\ \A i \in 1 .. Len(Tail(queue)) : Latest(Tail(queue), i) =>
                \E k \in 1 .. Len(queue) : Latest(queue, k) /\ queue[k] = Tail(queue)[i]
<1> DEFINE t == Tail(queue)
<1>1. /\ t \in Seq(States \cup {"other"}) /\ Len(t) = Len(queue) - 1 /\ Len(queue) \in Nat
      /\ Len(queue) # 0 /\ \A i \in 1 .. Len(queue) - 1 : t[i] = queue[i + 1]
      /\ Head(queue) = queue[1] /\ Len(queue) <= Capacity
  BY DEF QueueOK
<1>2. Head(queue) \in States \cup {"other"}
  BY <1>1 DEF QueueOK
<1> HIDE DEF t
<1>3. NoNews(t) => \A j \in 1 .. Len(queue) : j > 1 => queue[j] = "other"
  <2> SUFFICES ASSUME NoNews(t), NEW j \in 1 .. Len(queue), j > 1
               PROVE  queue[j] = "other"
    OBVIOUS
  <2>1. j - 1 \in 1 .. Len(queue) - 1 /\ j = (j - 1) + 1
    BY <1>1
  <2>2. QED
    BY <1>1, <2>1 DEF NoNews
<1>4. NoNews(t) => IF Head(queue) = "other" THEN NoNews(queue)
                   ELSE \E k \in 1 .. Len(queue) : Latest(queue, k) /\ queue[k] = Head(queue)
  <2>1. 1 \in 1 .. Len(queue)
    BY <1>1
  <2>2. NoNews(t) /\ queue[1] = "other" => NoNews(queue)
    BY <1>1, <1>3 DEF NoNews
  <2>3. NoNews(t) /\ queue[1] # "other" => Latest(queue, 1)
    BY <1>1, <1>3, <2>1 DEF Latest
  <2>4. QED
    BY <1>1, <2>1, <2>2, <2>3
<1>5. ASSUME NEW i \in 1 .. Len(t), Latest(t, i)
      PROVE  \E k \in 1 .. Len(queue) : Latest(queue, k) /\ queue[k] = t[i]
  <2>1. i \in 1 .. Len(queue) - 1 /\ i + 1 \in 1 .. Len(queue) /\ queue[i + 1] = t[i]
    BY <1>1, <1>5
  <2>2. ASSUME NEW j \in 1 .. Len(queue), j > i + 1
        PROVE  queue[j] = "other"
    <3>1. j - 1 \in 1 .. Len(queue) - 1 /\ j = (j - 1) + 1 /\ j - 1 > i
      BY <1>1, <2>2
    <3>2. QED
      BY <1>1, <1>5, <3>1 DEF Latest
  <2>3. Latest(queue, i + 1)
    BY <1>5, <2>1, <2>2 DEF Latest
  <2>4. QED
    BY <2>1, <2>3
<1>6. QED
  BY <1>1, <1>2, <1>4, <1>5, RegBounds DEF t

-----------------------------------------------------------------------------
(* What the steps have in common *)

LEMMA InitReg == RegInit => RegIInv
<1> SUFFICES ASSUME RegInit PROVE RegIInv
  OBVIOUS
<1> USE DEF RegInit
<1>1. RegTypes
  <2>1. RegStates
    BY RegBounds DEF RegTypes, RegStates, States
  <2>2. RegFlags
    BY RegBounds DEF RegTypes, RegFlags, States
  <2>3. QED
    BY <2>1, <2>2 DEF RegTypes
<1>2. QueueOK /\ LoopKnows /\ WaitersAreFed /\ OffAsksNothing
  BY RegBounds DEF QueueOK, LoopKnows, WaitersAreFed, OffAsksNothing
<1>3. NewsIsKnown /\ PageIsKnown
  BY DEF NewsIsKnown, PageIsKnown
<1>4. QED
  BY <1>1, <1>2, <1>3 DEF RegIInv

\* News are known as long as nothing leaves the set of the known states.
LEMMA StaysKnown ==
    ASSUME QueueOK, NewsIsKnown, PageIsKnown, UNCHANGED <<queue, sub, broken>>,
           ~missed' => ~missed /\ Known \subseteq Known',
           \/ UNCHANGED <<fetch, listed, dirty, page>>
           \/ fetch = "listing" /\ fetch' = "answered" /\ UNCHANGED <<listed, dirty, page>>
           \/ fetch' = "asked"
           \/ sub = "off"
           \/ listed' \in Known' /\ fetch' \in {"listing", "answered"}
    PROVE  QueueOK' /\ NewsIsKnown' /\ PageIsKnown'
<1>1. QueueOK'
  BY DEF QueueOK
<1>2. NewsIsKnown'
  BY DEF NewsIsKnown, Latest
<1>3. PageIsKnown'
  BY DEF PageIsKnown, Listening, NoNews
<1>4. QED
  BY <1>1, <1>2, <1>3

\* What the loop announces is known, or nobody listens.
LEMMA TriggersTell ==
    ASSUME RegTypes, QueueOK, NEW e \in States, e \in Known', Triggers(e),
           UNCHANGED <<fetch, listed, dirty, page>>
    PROVE  QueueOK' /\ NewsIsKnown' /\ PageIsKnown' /\ missed' \in BOOLEAN
<1>1. /\ UNCHANGED <<sub, broken>>
      /\ queue' = IF sub = "on" THEN Queued(e) ELSE queue
  BY DEF Triggers
<1>2. missed' = (missed \/ IF sub = "on" THEN Drops ELSE Unheard)
  BY DEF Triggers
<1>3. missed' \in BOOLEAN
  <2>1. Drops \in BOOLEAN /\ Unheard \in BOOLEAN
    BY DEF Drops, Unheard
  <2>2. QED
    BY <1>2, <2>1, Zenon
<1>4. CASE sub = "on"
  <2>1. QueueOK'
    BY <1>1, <1>4, NewsPushed DEF QueueOK
  <2>2. NewsIsKnown'
    BY <1>1, <1>4, NewsPushed DEF NewsIsKnown
  <2>3. PageIsKnown'
    BY <1>1, <1>4, NewsPushed DEF PageIsKnown
  <2>4. QED
    BY <1>3, <2>1, <2>2, <2>3
<1>5. CASE sub # "on"
  <2>1. queue' = <<>> /\ queue = <<>>
    BY <1>1, <1>5 DEF QueueOK
  <2>2. QueueOK' /\ NewsIsKnown'
    BY <1>1, <1>5, <2>1 DEF QueueOK, NewsIsKnown
  <2>3. ~missed' => ~Unheard
    BY <1>2, <1>5, Zenon
  <2>4. PageIsKnown'
    BY <1>1, <1>5, <2>3 DEF PageIsKnown, Listening, Unheard
  <2>5. QED
    BY <1>3, <2>2, <2>4
<1>6. QED
  BY <1>4, <1>5

\* A change of adb's table leaves at most one state the loop has not read.
LEMMA BecomesKnown ==
    ASSUME RegTypes, LoopKnows, NEW s \in States, Becomes(s), UNCHANGED <<prev, snap>>, s = real \/ seen
    PROVE  Known \subseteq Known'
BY DEF RegTypes, RegStates, RegFlags, LoopKnows, Becomes, Known

-----------------------------------------------------------------------------
(* The table and the loop *)

LEMMA AdbKeeps == RegIInv /\ AdbChanges => RegIInv'
<1> SUFFICES ASSUME RegIInv, AdbChanges PROVE RegIInv'
  OBVIOUS
<1>1. PICK s \in States \ {real} : /\ Spends /\ Becomes(s)
                                   /\ UNCHANGED <<loopVars, infoVars, row, reqVars, pageVars, sub, broken, queue>>
                                   /\ missed' = (missed \/ ~seen)
  BY DEF AdbChanges
<1>2. missed' \in BOOLEAN /\ (~missed' => ~missed /\ seen)
  BY <1>1, Zenon
<1>3. real' = s /\ seen' = FALSE
  BY <1>1 DEF Becomes
<1>4. RegTypes'
  <2>1. RegStates'
    BY <1>1, <1>2, <1>3, RegBounds DEF RegTypes, RegStates, RegIInv, Spends, loopVars, infoVars, reqVars, pageVars
  <2>2. RegFlags'
    BY <1>1, <1>2, <1>3, RegBounds DEF RegTypes, RegFlags, RegIInv, Spends, loopVars, infoVars, reqVars, pageVars
  <2>3. QED
    BY <2>1, <2>2 DEF RegTypes
<1>5. LoopKnows' /\ WaitersAreFed' /\ OffAsksNothing'
  BY <1>1, <1>3 DEF RegIInv, LoopKnows, WaitersAreFed, OffAsksNothing, loopVars, infoVars, pageVars
<1>6. QueueOK' /\ NewsIsKnown' /\ PageIsKnown'
  BY <1>1, <1>2, BecomesKnown, StaysKnown DEF RegIInv, loopVars, pageVars
<1>7. QED
  BY <1>4, <1>5, <1>6 DEF RegIInv

LEMMA OtherKeeps == RegIInv /\ OtherEvent => RegIInv'
<1> SUFFICES ASSUME RegIInv, OtherEvent PROVE RegIInv'
  OBVIOUS
<1>1. /\ sub = "on" /\ Spends /\ queue' = Queued("other") /\ UNCHANGED <<sub, broken>>
      /\ UNCHANGED <<tableVars, loopVars, infoVars, row, reqVars, pageVars>>
  BY DEF OtherEvent, Triggers
<1>2. missed' = (missed \/ Drops)
  BY DEF OtherEvent, Triggers
<1>3. missed' \in BOOLEAN /\ (~missed' => ~missed /\ ~Drops)
  <2>1. Drops \in BOOLEAN
    BY DEF Drops
  <2>2. QED
    BY <1>2, <2>1, Zenon
<1>4. RegTypes'
  <2>1. RegStates'
    BY <1>1, <1>3, RegBounds DEF RegTypes, RegStates, RegIInv, Spends, tableVars, loopVars, infoVars, reqVars, pageVars
  <2>2. RegFlags'
    BY <1>1, <1>3, RegBounds DEF RegTypes, RegFlags, RegIInv, Spends, tableVars, loopVars, infoVars, reqVars, pageVars
  <2>3. QED
    BY <2>1, <2>2 DEF RegTypes
<1>5. LoopKnows' /\ WaitersAreFed' /\ OffAsksNothing'
  BY <1>1 DEF RegIInv, LoopKnows, WaitersAreFed, OffAsksNothing, tableVars, loopVars, infoVars, pageVars
<1>6. QueueOK'
  BY <1>1, Pushed DEF RegIInv, QueueOK
<1>7. Known' = Known
  BY <1>1 DEF Known, tableVars, loopVars
<1>8. NewsIsKnown'
  BY <1>1, <1>3, <1>7, OtherPushed DEF RegIInv, NewsIsKnown
<1>9. PageIsKnown'
  BY <1>1, <1>3, <1>7, OtherPushed DEF RegIInv, PageIsKnown, Listening, pageVars
<1>10. QED
  BY <1>4, <1>5, <1>6, <1>8, <1>9 DEF RegIInv

LEMMA TickKeeps == RegIInv /\ Tick => RegIInv'
<1> SUFFICES ASSUME RegIInv, Tick PROVE RegIInv'
  OBVIOUS
<1>1. /\ loop = "asleep" /\ seen' = TRUE /\ UNCHANGED <<real, row, reqVars, pageVars, cool, spent>>
      /\ snap = prev /\ real \in States /\ snap \in States
  BY DEF Tick, RegIInv, LoopKnows, RegTypes, RegStates, RegFlags
<1>2. CASE real = prev /\ Sleeps(real) /\ UNCHANGED <<info, eventVars>>
  <2>1. UNCHANGED <<prev, snap, loop>>
    BY <1>1, <1>2 DEF Sleeps
  <2>2. RegTypes' /\ LoopKnows' /\ WaitersAreFed' /\ OffAsksNothing'
    <3>1. RegStates'
      BY <1>1, <1>2, <2>1 DEF RegTypes, RegStates, RegIInv, reqVars, pageVars, eventVars
    <3>2. RegFlags'
      BY <1>1, <1>2, <2>1 DEF RegTypes, RegFlags, RegIInv, reqVars, pageVars, eventVars
    <3>3. LoopKnows' /\ WaitersAreFed' /\ OffAsksNothing'
      BY <1>1, <1>2, <2>1 DEF RegTypes, RegStates, LoopKnows, WaitersAreFed, OffAsksNothing, RegIInv, reqVars, pageVars, eventVars
    <3>4. QED
      BY <3>1, <3>2, <3>3 DEF RegTypes
  <2>3. QueueOK' /\ NewsIsKnown' /\ PageIsKnown'
    BY <1>1, <1>2, <2>1, StaysKnown DEF RegIInv, Known, pageVars, eventVars
  <2>4. QED
    BY <2>2, <2>3 DEF RegIInv
<1>3. CASE real = "offline" /\ prev # real /\ Sleeps(real) /\ Triggers("offline") /\ UNCHANGED info
  <2>1. loop' = "asleep" /\ prev' = real /\ snap' = real /\ UNCHANGED <<sub, broken>>
    BY <1>3 DEF Sleeps, Triggers
  <2>2. "offline" \in States /\ "offline" \in Known'
    BY <1>3, <2>1 DEF States, Known
  <2>3. QueueOK' /\ NewsIsKnown' /\ PageIsKnown' /\ missed' \in BOOLEAN
    BY <1>1, <1>3, <2>2, TriggersTell DEF RegIInv, pageVars
  <2>4. RegTypes' /\ LoopKnows' /\ WaitersAreFed' /\ OffAsksNothing'
    <3>1. RegStates'
      BY <1>1, <1>3, <2>1, <2>3 DEF RegTypes, RegStates, RegIInv, reqVars, pageVars
    <3>2. RegFlags'
      BY <1>1, <1>3, <2>1, <2>3 DEF RegTypes, RegFlags, RegIInv, reqVars, pageVars
    <3>3. LoopKnows' /\ WaitersAreFed' /\ OffAsksNothing'
      BY <1>1, <1>3, <2>1, <2>3 DEF RegTypes, RegStates, LoopKnows, WaitersAreFed, OffAsksNothing, RegIInv, reqVars, pageVars
    <3>4. QED
      BY <3>1, <3>2, <3>3 DEF RegTypes
  <2>5. QED
    BY <2>3, <2>4 DEF RegIInv
<1>4. CASE /\ real = "absent" /\ prev # real
           /\ loop' = "deleting" /\ snap' = real /\ UNCHANGED <<prev, info, eventVars>>
  <2>1. RegTypes' /\ LoopKnows' /\ WaitersAreFed' /\ OffAsksNothing'
    <3>1. RegStates'
      BY <1>1, <1>4 DEF RegTypes, RegStates, RegIInv, reqVars, pageVars, eventVars
    <3>2. RegFlags'
      BY <1>1, <1>4 DEF RegTypes, RegFlags, RegIInv, reqVars, pageVars, eventVars
    <3>3. LoopKnows' /\ WaitersAreFed' /\ OffAsksNothing'
      BY <1>1, <1>4 DEF RegTypes, RegStates, LoopKnows, WaitersAreFed, OffAsksNothing, RegIInv, reqVars, pageVars, eventVars
    <3>4. QED
      BY <3>1, <3>2, <3>3 DEF RegTypes
  <2>2. QueueOK' /\ NewsIsKnown' /\ PageIsKnown'
    BY <1>1, <1>4, StaysKnown DEF RegIInv, Known, pageVars, eventVars
  <2>3. QED
    BY <2>1, <2>2 DEF RegIInv
<1>5. CASE real = "device" /\ prev # real /\ cool /\ Sleeps(real) /\ Skips /\ UNCHANGED info
  <2>1. /\ loop' = "asleep" /\ prev' = real /\ snap' = real /\ missed' = TRUE
        /\ UNCHANGED <<sub, broken, queue>>
    BY <1>5 DEF Sleeps, Skips
  <2>2. RegTypes' /\ LoopKnows' /\ WaitersAreFed' /\ OffAsksNothing'
    <3>1. RegStates'
      BY <1>1, <1>5, <2>1 DEF RegTypes, RegStates, RegIInv, reqVars, pageVars
    <3>2. RegFlags'
      BY <1>1, <1>5, <2>1 DEF RegTypes, RegFlags, RegIInv, reqVars, pageVars
    <3>3. LoopKnows' /\ WaitersAreFed' /\ OffAsksNothing'
      BY <1>1, <1>5, <2>1 DEF RegTypes, RegStates, LoopKnows, WaitersAreFed, OffAsksNothing, RegIInv, reqVars, pageVars
    <3>4. QED
      BY <3>1, <3>2, <3>3 DEF RegTypes
  <2>3. QueueOK' /\ NewsIsKnown' /\ PageIsKnown'
    BY <2>1 DEF RegIInv, QueueOK, NewsIsKnown, PageIsKnown
  <2>4. QED
    BY <2>2, <2>3 DEF RegIInv
<1>6. CASE /\ real = "device" /\ prev # real /\ loop' = "querying" /\ snap' = real
           /\ info' = (IF info = "none" THEN "query" ELSE info) /\ UNCHANGED <<prev, eventVars>>
  <2>1. RegTypes' /\ LoopKnows' /\ WaitersAreFed' /\ OffAsksNothing'
    <3>1. RegStates'
      BY <1>1, <1>6 DEF RegTypes, RegStates, RegIInv, reqVars, pageVars, eventVars
    <3>2. RegFlags'
      BY <1>1, <1>6 DEF RegTypes, RegFlags, RegIInv, reqVars, pageVars, eventVars
    <3>3. LoopKnows' /\ WaitersAreFed' /\ OffAsksNothing'
      BY <1>1, <1>6 DEF RegTypes, RegStates, LoopKnows, WaitersAreFed, OffAsksNothing, RegIInv, reqVars, pageVars, eventVars
    <3>4. QED
      BY <3>1, <3>2, <3>3 DEF RegTypes
  <2>2. QueueOK' /\ NewsIsKnown' /\ PageIsKnown'
    BY <1>1, <1>6, StaysKnown DEF RegIInv, Known, pageVars, eventVars
  <2>3. QED
    BY <2>1, <2>2 DEF RegIInv
<1>7. QED
  BY <1>2, <1>3, <1>4, <1>5, <1>6 DEF Tick

LEMMA DeletedKeeps == RegIInv /\ RowDeleted => RegIInv'
<1> SUFFICES ASSUME RegIInv, RowDeleted PROVE RegIInv'
  OBVIOUS
<1>1. /\ loop' = "asleep" /\ prev' = snap /\ snap' = snap /\ snap = "absent" /\ snap \in States
      /\ UNCHANGED <<tableVars, infoVars, reqVars, pageVars>>
  BY DEF RowDeleted, Sleeps, RegIInv, LoopKnows, RegTypes, RegStates, RegFlags
<1>2. CASE row' = FALSE /\ Triggers("absent") /\ UNCHANGED spent
  <2>1. "absent" \in Known' /\ "absent" \in States /\ UNCHANGED <<sub, broken>>
    BY <1>1, <1>2 DEF Known, Triggers
  <2>2. QueueOK' /\ NewsIsKnown' /\ PageIsKnown' /\ missed' \in BOOLEAN
    BY <1>1, <1>2, <2>1, TriggersTell DEF RegIInv, pageVars
  <2>3. RegTypes' /\ LoopKnows' /\ WaitersAreFed' /\ OffAsksNothing'
    <3>1. RegStates'
      BY <1>1, <1>2, <2>1, <2>2 DEF RegTypes, RegStates, RegIInv, tableVars, infoVars, reqVars, pageVars
    <3>2. RegFlags'
      BY <1>1, <1>2, <2>1, <2>2 DEF RegTypes, RegFlags, RegIInv, tableVars, infoVars, reqVars, pageVars
    <3>3. LoopKnows' /\ WaitersAreFed' /\ OffAsksNothing'
      BY <1>1, <1>2, <2>1, <2>2 DEF RegTypes, RegStates, LoopKnows, WaitersAreFed, OffAsksNothing, RegIInv, tableVars, infoVars, reqVars, pageVars
    <3>4. QED
      BY <3>1, <3>2, <3>3 DEF RegTypes
  <2>4. QED
    BY <2>2, <2>3 DEF RegIInv
<1>3. CASE Skips /\ Spends /\ UNCHANGED row
  <2>1. missed' = TRUE /\ UNCHANGED <<sub, broken, queue>>
    BY <1>3 DEF Skips
  <2>2. RegTypes' /\ LoopKnows' /\ WaitersAreFed' /\ OffAsksNothing'
    <3>1. RegStates'
      BY <1>1, <1>3, <2>1, RegBounds DEF RegTypes, RegStates, RegIInv, Spends, tableVars, infoVars, reqVars, pageVars
    <3>2. RegFlags'
      BY <1>1, <1>3, <2>1, RegBounds DEF RegTypes, RegFlags, RegIInv, Spends, tableVars, infoVars, reqVars, pageVars
    <3>3. LoopKnows' /\ WaitersAreFed' /\ OffAsksNothing'
      BY <1>1, <1>3, <2>1, RegBounds DEF RegTypes, RegStates, LoopKnows, WaitersAreFed, OffAsksNothing, RegIInv, Spends, tableVars, infoVars, reqVars, pageVars
    <3>4. QED
      BY <3>1, <3>2, <3>3 DEF RegTypes
  <2>3. QueueOK' /\ NewsIsKnown' /\ PageIsKnown'
    BY <2>1 DEF RegIInv, QueueOK, NewsIsKnown, PageIsKnown
  <2>4. QED
    BY <2>2, <2>3 DEF RegIInv
<1>4. QED
  BY <1>2, <1>3 DEF RowDeleted

LEMMA AnnouncesKeeps == RegIInv /\ Announces => RegIInv'
<1> SUFFICES ASSUME RegIInv, Announces PROVE RegIInv'
  OBVIOUS
<1>1. /\ loop' = "asleep" /\ prev' = snap /\ snap' = snap /\ snap = "device" /\ snap \in States
      /\ row' = TRUE /\ UNCHANGED <<tableVars, infoVars, reqVars, pageVars, spent>>
  BY DEF Announces, Sleeps, RegIInv, LoopKnows, RegTypes, RegStates, RegFlags
<1>2. "device" \in Known' /\ "device" \in States /\ UNCHANGED <<sub, broken>>
  BY <1>1 DEF Known, Announces, Triggers
<1>3. QueueOK' /\ NewsIsKnown' /\ PageIsKnown' /\ missed' \in BOOLEAN
  BY <1>1, <1>2, TriggersTell DEF RegIInv, pageVars, Announces
<1>4. RegTypes' /\ LoopKnows' /\ WaitersAreFed' /\ OffAsksNothing'
  <2>1. RegStates'
    BY <1>1, <1>2, <1>3 DEF RegTypes, RegStates, RegIInv, tableVars, infoVars, reqVars, pageVars
  <2>2. RegFlags'
    BY <1>1, <1>2, <1>3 DEF RegTypes, RegFlags, RegIInv, tableVars, infoVars, reqVars, pageVars
  <2>3. LoopKnows' /\ WaitersAreFed' /\ OffAsksNothing'
    BY <1>1, <1>2, <1>3 DEF RegTypes, RegStates, LoopKnows, WaitersAreFed, OffAsksNothing, RegIInv, tableVars, infoVars, reqVars, pageVars
  <2>4. QED
    BY <2>1, <2>2, <2>3 DEF RegTypes
<1>5. QED
  BY <1>3, <1>4 DEF RegIInv

-----------------------------------------------------------------------------
(* The query of the details *)

\* Those who wait for the query go on.
LEMMA WaitersGoKeep ==
    ASSUME RegIInv, NEW ok \in BOOLEAN, WaitersGo(ok), info' = "none", cool' \in BOOLEAN,
           row' \in BOOLEAN, spent' \in 0 .. MaxEvents, UNCHANGED <<tableVars, reqVars>>
    PROVE  RegIInv'
<1>1. /\ fetch' = IF fetch = "listing" THEN "answered" ELSE fetch
      /\ UNCHANGED <<listed, dirty, page>> /\ UNCHANGED <<real, seen, req, scan, dis>>
  BY DEF WaitersGo, tableVars, reqVars
<1>2. \/ loop = "querying" /\ loop' = "saving" /\ UNCHANGED <<prev, snap, eventVars>>
      \/ loop = "querying" /\ loop' = "asleep" /\ prev' = snap /\ snap' = snap /\ Skips
      \/ loop # "querying" /\ UNCHANGED <<prev, snap, loop, eventVars>>
  BY DEF WaitersGo, Sleeps, loopVars
<1>3. UNCHANGED <<sub, broken, queue>> /\ (missed' = TRUE \/ missed' = missed)
  BY <1>2 DEF Skips, eventVars
<1>4. RegTypes'
  <2>1. RegStates'
    BY <1>1, <1>2, <1>3 DEF RegTypes, RegStates, RegIInv
  <2>2. RegFlags'
    BY <1>1, <1>2, <1>3 DEF RegTypes, RegFlags, RegIInv
  <2>3. QED
    BY <2>1, <2>2 DEF RegTypes
<1>5. LoopKnows' /\ WaitersAreFed' /\ OffAsksNothing'
  BY <1>1, <1>2, <1>3 DEF RegIInv, RegTypes, RegStates, RegFlags, LoopKnows, WaitersAreFed, OffAsksNothing
<1>6. ~missed' => ~missed /\ Known \subseteq Known'
  BY <1>1, <1>2 DEF Skips, Known, eventVars
<1>7. QueueOK' /\ NewsIsKnown' /\ PageIsKnown'
  BY <1>1, <1>3, <1>6, StaysKnown DEF RegIInv
<1>8. QED
  BY <1>4, <1>5, <1>7 DEF RegIInv

LEMMA TaskKeeps == RegIInv /\ TaskStep => RegIInv'
<1> SUFFICES ASSUME RegIInv, TaskStep PROVE RegIInv'
  OBVIOUS
<1>1. RegTypes
  BY DEF RegIInv
<1>2. CASE QuerySucceeds
  <2> USE <1>2 DEF QuerySucceeds, tableVars, loopVars, reqVars, pageVars, eventVars
  <2>1. RegTypes' /\ LoopKnows' /\ WaitersAreFed' /\ OffAsksNothing'
    <3>1. RegStates'
      BY DEF RegTypes, RegStates, RegIInv
    <3>2. RegFlags'
      BY DEF RegTypes, RegFlags, RegIInv
    <3>3. LoopKnows' /\ WaitersAreFed' /\ OffAsksNothing'
      BY DEF RegTypes, RegStates, LoopKnows, WaitersAreFed, OffAsksNothing, RegIInv
    <3>4. QED
      BY <3>1, <3>2, <3>3 DEF RegTypes
  <2>2. QueueOK' /\ NewsIsKnown' /\ PageIsKnown'
    BY StaysKnown DEF RegIInv, Known
  <2>3. QED
    BY <2>1, <2>2 DEF RegIInv
<1>3. CASE QueryFails
  <2>1. spent' \in 0 .. MaxEvents /\ row' \in BOOLEAN
    BY <1>1, <1>3, RegBounds DEF QueryFails, Fails, Spends, RegTypes, RegStates, RegFlags
  <2>2. QED
    BY <1>3, <2>1, WaitersGoKeep DEF QueryFails
<1>4. CASE QuerySaved
  BY <1>1, <1>4, WaitersGoKeep DEF QuerySaved, RegTypes, RegStates, RegFlags
<1>5. QED
  BY <1>2, <1>3, <1>4 DEF TaskStep

LEMMA CooldownKeeps == RegIInv /\ CooldownEnds => RegIInv'
<1> SUFFICES ASSUME RegIInv, CooldownEnds PROVE RegIInv'
  OBVIOUS
<1> USE DEF CooldownEnds, tableVars, loopVars, reqVars, pageVars, eventVars
<1>1. RegTypes' /\ LoopKnows' /\ WaitersAreFed' /\ OffAsksNothing'
  <2>1. RegStates'
    BY DEF RegTypes, RegStates, RegIInv
  <2>2. RegFlags'
    BY DEF RegTypes, RegFlags, RegIInv
  <2>3. LoopKnows' /\ WaitersAreFed' /\ OffAsksNothing'
    BY DEF RegTypes, RegStates, LoopKnows, WaitersAreFed, OffAsksNothing, RegIInv
  <2>4. QED
    BY <2>1, <2>2, <2>3 DEF RegTypes
<1>2. QueueOK' /\ NewsIsKnown' /\ PageIsKnown'
  BY StaysKnown DEF RegIInv, Known
<1>3. QED
  BY <1>1, <1>2 DEF RegIInv

-----------------------------------------------------------------------------
(* Requests *)

\* A request that leaves adb's table and the loop alone asks for a new list at most.
LEMMA RequestsKeep ==
    ASSUME RegIInv, UNCHANGED <<tableVars, loopVars, infoVars, eventVars>>,
           row' \in BOOLEAN, req' \in {"idle", "adb", "info", "save"},
           scan' \in {"no", "probing", "connecting"}, dis' \in {"idle", "adb", "delete", "clean"},
           spent' \in 0 .. MaxEvents, UNCHANGED pageVars \/ IfMounted(Refetches)
    PROVE  RegIInv'
<1>1. UNCHANGED <<real, seen, prev, snap, loop, info, cool, sub, broken, queue, missed, listed, dirty, page>>
  BY DEF tableVars, loopVars, infoVars, eventVars, pageVars, IfMounted, Refetches
<1>2. UNCHANGED <<fetch, listed, dirty, page>> \/ (sub # "off" /\ fetch' = "asked")
  BY DEF pageVars, IfMounted, Refetches
<1>3. RegTypes'
  <2>1. RegStates'
    BY <1>1, <1>2 DEF RegTypes, RegStates, RegIInv
  <2>2. RegFlags'
    BY <1>1, <1>2 DEF RegTypes, RegFlags, RegIInv
  <2>3. QED
    BY <2>1, <2>2 DEF RegTypes
<1>4. LoopKnows' /\ WaitersAreFed' /\ OffAsksNothing'
  BY <1>1, <1>2 DEF RegIInv, LoopKnows, WaitersAreFed, OffAsksNothing
<1>5. QueueOK' /\ NewsIsKnown' /\ PageIsKnown'
  BY <1>1, <1>2, StaysKnown DEF RegIInv, Known
<1>6. QED
  BY <1>3, <1>4, <1>5 DEF RegIInv

LEMMA BeginKeeps == RegIInv /\ (ConnectBegins \/ ScanBegins \/ ScanProbed \/ DisconnectBegins) => RegIInv'
<1> SUFFICES ASSUME RegIInv, ConnectBegins \/ ScanBegins \/ ScanProbed \/ DisconnectBegins PROVE RegIInv'
  OBVIOUS
<1>1. RegTypes
  BY DEF RegIInv
<1>2. /\ UNCHANGED <<tableVars, loopVars, infoVars, eventVars>>
      /\ row' \in BOOLEAN /\ req' \in {"idle", "adb", "info", "save"}
      /\ scan' \in {"no", "probing", "connecting"} /\ dis' \in {"idle", "adb", "delete", "clean"}
      /\ spent' \in 0 .. MaxEvents
  BY <1>1, RegBounds DEF RegTypes, RegStates, RegFlags, ConnectBegins, ScanBegins, ScanProbed, DisconnectBegins, Spends
<1>3. UNCHANGED pageVars \/ IfMounted(Refetches)
  BY DEF ConnectBegins, ScanBegins, ScanProbed, DisconnectBegins
<1>4. QED
  BY <1>2, <1>3, RequestsKeep

LEMMA SavesKeep == RegIInv /\ (ConnectReads \/ ConnectSaves \/ DisconnectDeletes) => RegIInv'
<1> SUFFICES ASSUME RegIInv, ConnectReads \/ ConnectSaves \/ DisconnectDeletes PROVE RegIInv'
  OBVIOUS
<1>1. RegTypes
  BY DEF RegIInv
<1>2. /\ UNCHANGED <<tableVars, loopVars, infoVars, eventVars>>
      /\ row' \in BOOLEAN /\ req' \in {"idle", "adb", "info", "save"}
      /\ scan' \in {"no", "probing", "connecting"} /\ dis' \in {"idle", "adb", "delete", "clean"}
  BY <1>1 DEF RegTypes, RegStates, RegFlags, ConnectReads, ConnectSaves, DisconnectDeletes, ConnectEnds
<1>3. spent' \in 0 .. MaxEvents
  BY <1>1, RegBounds DEF RegTypes, RegStates, ConnectReads, ConnectSaves, DisconnectDeletes, Fails, Spends
<1>4. UNCHANGED pageVars \/ IfMounted(Refetches)
  BY DEF ConnectReads, ConnectSaves, DisconnectDeletes, ConnectEnds
<1>5. QED
  BY <1>2, <1>3, <1>4, RequestsKeep

\* A request that changes adb's table has it seen before, or the change is missed.
LEMMA TableKeeps ==
    ASSUME RegIInv, NEW s \in States, Becomes(s), ~missed' => ~missed /\ (s = real \/ seen),
           missed' \in BOOLEAN, UNCHANGED <<loopVars, infoVars, row, scan, pageVars, sub, broken, queue, spent>>,
           req' \in {"idle", "adb", "info", "save"}, dis' \in {"idle", "adb", "delete", "clean"}
    PROVE  RegIInv'
<1>1. real' = s /\ seen' = (s = real /\ seen) /\ UNCHANGED <<prev, snap, loop, info, cool, fetch, listed, dirty, page>>
  BY DEF Becomes, loopVars, infoVars, pageVars
<1>2. seen' \in BOOLEAN /\ (seen' => s = real /\ seen)
  BY <1>1, Zenon
<1>3. RegTypes'
  <2>1. RegStates'
    BY <1>1, <1>2 DEF RegTypes, RegStates, RegIInv
  <2>2. RegFlags'
    BY <1>1, <1>2 DEF RegTypes, RegFlags, RegIInv
  <2>3. QED
    BY <2>1, <2>2 DEF RegTypes
<1>4. LoopKnows' /\ WaitersAreFed' /\ OffAsksNothing'
  BY <1>1, <1>2 DEF RegIInv, RegTypes, RegStates, RegFlags, LoopKnows, WaitersAreFed, OffAsksNothing
<1>5. QueueOK' /\ NewsIsKnown' /\ PageIsKnown'
  BY <1>1, BecomesKnown, StaysKnown DEF RegIInv
<1>6. QED
  BY <1>3, <1>4, <1>5 DEF RegIInv

LEMMA ConnectsKeep == RegIInv /\ AdbConnects => RegIInv'
<1> SUFFICES ASSUME RegIInv, AdbConnects PROVE RegIInv'
  OBVIOUS
<1>1. RegTypes /\ UNCHANGED <<loopVars, infoVars, row, dis, sub, broken, queue>>
  BY DEF RegIInv, AdbConnects
<1>2. CASE /\ Becomes("device") /\ missed' = (missed \/ (real # "device" /\ ~seen))
           /\ req' = "info" /\ UNCHANGED <<scan, pageVars, spent>>
  <2>1. missed' \in BOOLEAN /\ (~missed' => ~missed /\ ("device" = real \/ seen))
    BY <1>2, Zenon
  <2>2. "device" \in States
    BY DEF States
  <2>3. QED
    BY <1>1, <1>2, <2>1, <2>2, TableKeeps DEF RegTypes, RegStates, RegFlags
<1>3. CASE ConnectEnds /\ Fails(real # "offline") /\ UNCHANGED <<real, seen, missed>>
  <2>1. req' = "idle" /\ scan' \in {scan, "no"} /\ IfMounted(Refetches) /\ spent' \in 0 .. MaxEvents
    BY <1>1, <1>3, RegBounds DEF ConnectEnds, Fails, Spends, RegTypes, RegStates, RegFlags
  <2>2. UNCHANGED <<tableVars, loopVars, infoVars, eventVars>>
    BY <1>1, <1>3 DEF tableVars, eventVars
  <2>3. QED
    BY <1>1, <2>1, <2>2, RequestsKeep DEF RegTypes, RegStates, RegFlags
<1>4. QED
  BY <1>2, <1>3 DEF AdbConnects

LEMMA DisconnectsKeep == RegIInv /\ AdbDisconnects => RegIInv'
<1> SUFFICES ASSUME RegIInv, AdbDisconnects PROVE RegIInv'
  OBVIOUS
<1>1. /\ RegTypes /\ dis' = "delete"
      /\ UNCHANGED <<spent, loopVars, infoVars, row, req, scan, pageVars, sub, broken, queue>>
  BY DEF RegIInv, AdbDisconnects
<1>2. CASE Becomes("absent") /\ missed' = (missed \/ (real # "absent" /\ ~seen))
  <2>1. missed' \in BOOLEAN /\ (~missed' => ~missed /\ ("absent" = real \/ seen))
    BY <1>2, Zenon
  <2>2. "absent" \in States
    BY DEF States
  <2>3. QED
    BY <1>1, <1>2, <2>1, <2>2, TableKeeps DEF RegTypes, RegStates, RegFlags
<1>3. CASE UNCHANGED <<real, seen, missed>>
  BY <1>1, <1>3, RequestsKeep DEF RegTypes, RegStates, RegFlags, tableVars, eventVars
<1>4. QED
  BY <1>2, <1>3 DEF AdbDisconnects

\* The cancelled query wakes the loop; the page asks for a list.
LEMMA DisconnectEndsKeeps == RegIInv /\ DisconnectEnds => RegIInv'
<1> SUFFICES ASSUME RegIInv, DisconnectEnds PROVE RegIInv'
  OBVIOUS
<1>1. /\ dis' = "idle" /\ info' = "none" /\ cool' = FALSE
      /\ UNCHANGED <<real, seen, row, req, scan, spent>>
  BY DEF DisconnectEnds, tableVars
<1>2. \/ loop = "querying" /\ loop' = "asleep" /\ prev' = snap /\ snap' = snap /\ Skips
      \/ loop # "querying" /\ UNCHANGED <<prev, snap, loop, eventVars>>
  BY DEF DisconnectEnds, Wakes, Sleeps, loopVars, RegIInv, WaitersAreFed
<1>3. UNCHANGED <<sub, broken, queue>> /\ (missed' = TRUE \/ missed' = missed)
  BY <1>2 DEF Skips, eventVars
<1>4. \/ sub = "off" /\ UNCHANGED <<fetch, listed, dirty, page>>
      \/ sub # "off" /\ page' = "absent" /\ fetch' = "asked" /\ UNCHANGED <<listed, dirty>>
  BY DEF DisconnectEnds, pageVars
<1>5. RegTypes'
  <2>1. RegStates'
    BY <1>1, <1>2, <1>3, <1>4 DEF RegTypes, RegStates, RegIInv, States
  <2>2. RegFlags'
    BY <1>1, <1>2, <1>3, <1>4 DEF RegTypes, RegFlags, RegIInv, States
  <2>3. QED
    BY <2>1, <2>2 DEF RegTypes
<1>6. LoopKnows' /\ WaitersAreFed' /\ OffAsksNothing'
  BY <1>1, <1>2, <1>3, <1>4 DEF RegIInv, RegTypes, RegStates, RegFlags, LoopKnows, WaitersAreFed, OffAsksNothing
<1>7. ~missed' => ~missed /\ Known \subseteq Known'
  BY <1>1, <1>2 DEF Skips, Known, eventVars
<1>8. QueueOK' /\ NewsIsKnown' /\ PageIsKnown'
  BY <1>3, <1>4, <1>7, StaysKnown DEF RegIInv
<1>9. QED
  BY <1>5, <1>6, <1>8 DEF RegIInv

-----------------------------------------------------------------------------
(* The page *)

LEMMA MountKeeps == RegIInv /\ Mount => RegIInv'
<1> SUFFICES ASSUME RegIInv, Mount PROVE RegIInv'
  OBVIOUS
<1> USE DEF Mount, Refetches, tableVars, loopVars, infoVars
<1>1. RegTypes'
  <2>1. RegStates'
    BY RegBounds DEF RegTypes, RegStates, RegIInv, Spends
  <2>2. RegFlags'
    BY RegBounds DEF RegTypes, RegFlags, RegIInv, Spends
  <2>3. QED
    BY <2>1, <2>2 DEF RegTypes
<1>2. LoopKnows' /\ WaitersAreFed' /\ OffAsksNothing' /\ QueueOK'
  BY DEF RegIInv, LoopKnows, WaitersAreFed, OffAsksNothing, QueueOK
<1>3. NewsIsKnown' /\ PageIsKnown'
  BY DEF RegIInv, QueueOK, NewsIsKnown, PageIsKnown
<1>4. QED
  BY <1>1, <1>2, <1>3 DEF RegIInv

LEMMA UnmountKeeps == RegIInv /\ Unmount => RegIInv'
<1> SUFFICES ASSUME RegIInv, Unmount PROVE RegIInv'
  OBVIOUS
<1> USE DEF Unmount, tableVars, loopVars, infoVars, reqVars
<1>1. RegTypes'
  <2>1. RegStates'
    BY RegBounds DEF RegTypes, RegStates, RegIInv, Spends, States
  <2>2. RegFlags'
    BY RegBounds DEF RegTypes, RegFlags, RegIInv, Spends, States
  <2>3. QED
    BY <2>1, <2>2 DEF RegTypes
<1>2. LoopKnows' /\ WaitersAreFed' /\ OffAsksNothing' /\ QueueOK'
  BY RegBounds DEF RegIInv, LoopKnows, WaitersAreFed, OffAsksNothing, QueueOK
<1>3. NewsIsKnown' /\ PageIsKnown'
  BY DEF NewsIsKnown, PageIsKnown, Listening
<1>4. QED
  BY <1>1, <1>2, <1>3 DEF RegIInv

LEMMA BreaksKeeps == RegIInv /\ StreamBreaks => RegIInv'
<1> SUFFICES ASSUME RegIInv, StreamBreaks PROVE RegIInv'
  OBVIOUS
<1> USE DEF StreamBreaks, tableVars, loopVars, infoVars, pageVars
<1>1. RegTypes'
  <2>1. RegStates'
    BY RegBounds DEF RegTypes, RegStates, RegIInv, Spends
  <2>2. RegFlags'
    BY RegBounds DEF RegTypes, RegFlags, RegIInv, Spends
  <2>3. QED
    BY <2>1, <2>2 DEF RegTypes
<1>2. LoopKnows' /\ WaitersAreFed' /\ OffAsksNothing' /\ QueueOK'
  BY RegBounds DEF RegIInv, LoopKnows, WaitersAreFed, OffAsksNothing, QueueOK
<1>3. NewsIsKnown' /\ PageIsKnown'
  BY DEF NewsIsKnown, PageIsKnown, Listening
<1>4. QED
  BY <1>1, <1>2, <1>3 DEF RegIInv

LEMMA RefusedKeeps == RegIInv /\ StreamRefused => RegIInv'
<1> SUFFICES ASSUME RegIInv, StreamRefused PROVE RegIInv'
  OBVIOUS
<1> USE DEF StreamRefused, tableVars, loopVars, infoVars, pageVars, reqVars
<1>1. RegTypes'
  <2>1. RegStates'
    BY RegBounds DEF RegTypes, RegStates, RegIInv, Spends
  <2>2. RegFlags'
    BY RegBounds DEF RegTypes, RegFlags, RegIInv, Spends
  <2>3. QED
    BY <2>1, <2>2 DEF RegTypes
<1>2. LoopKnows' /\ WaitersAreFed' /\ OffAsksNothing' /\ QueueOK'
  BY RegBounds DEF RegIInv, LoopKnows, WaitersAreFed, OffAsksNothing, QueueOK
<1>3. NewsIsKnown' /\ PageIsKnown'
  BY DEF RegIInv, QueueOK, NewsIsKnown, PageIsKnown, Listening, Known
<1>4. QED
  BY <1>1, <1>2, <1>3 DEF RegIInv

LEMMA OpensKeeps == RegIInv /\ StreamOpens => RegIInv'
<1> SUFFICES ASSUME RegIInv, StreamOpens PROVE RegIInv'
  OBVIOUS
<1> USE DEF StreamOpens, tableVars, loopVars, infoVars, reqVars
<1>1. \/ broken /\ fetch' = "asked" /\ UNCHANGED <<listed, dirty, page>>
      \/ ~broken /\ UNCHANGED <<fetch, listed, dirty, page>>
  BY DEF Opens, Refetches, pageVars
<1>2. RegTypes'
  <2>1. RegStates'
    BY <1>1 DEF RegTypes, RegStates, RegIInv
  <2>2. RegFlags'
    BY <1>1 DEF RegTypes, RegFlags, RegIInv
  <2>3. QED
    BY <2>1, <2>2 DEF RegTypes
<1>3. LoopKnows' /\ WaitersAreFed' /\ OffAsksNothing' /\ QueueOK'
  BY <1>1 DEF RegIInv, LoopKnows, WaitersAreFed, OffAsksNothing, QueueOK
<1>4. NewsIsKnown' /\ PageIsKnown'
  BY <1>1 DEF RegIInv, QueueOK, NewsIsKnown, PageIsKnown, Listening, Known
<1>5. QED
  BY <1>2, <1>3, <1>4 DEF RegIInv

LEMMA ArrivesKeeps == RegIInv /\ EventArrives => RegIInv'
<1> SUFFICES ASSUME RegIInv, EventArrives PROVE RegIInv'
  OBVIOUS
<1>1. /\ sub = "on" /\ queue # <<>> /\ queue' = Tail(queue)
      /\ page' = IF Head(queue) = "other" THEN page ELSE Head(queue)
      /\ UNCHANGED <<real, seen, prev, snap, loop, info, cool, row, req, scan, dis,
                     fetch, listed, sub, broken, missed, spent>>
  BY DEF EventArrives, tableVars, loopVars, infoVars, reqVars
<1>2. dirty' = (dirty \/ fetch # "no")
  BY DEF EventArrives, MarksDirty
<1>3. dirty' \in BOOLEAN /\ (~dirty' => fetch = "no")
  BY <1>2, Zenon
<1>4. RegTypes'
  <2>1. RegStates'
    BY <1>1, <1>3, HeadRead DEF RegTypes, RegStates, RegIInv
  <2>2. RegFlags'
    BY <1>1, <1>3, HeadRead DEF RegTypes, RegFlags, RegIInv
  <2>3. QED
    BY <2>1, <2>2 DEF RegTypes
<1>5. LoopKnows' /\ WaitersAreFed' /\ OffAsksNothing'
  BY <1>1 DEF RegIInv, LoopKnows, WaitersAreFed, OffAsksNothing
<1>6. QueueOK' /\ NewsIsKnown'
  BY <1>1, HeadRead DEF RegIInv, QueueOK, NewsIsKnown, Known
<1>7. PageIsKnown'
  <2> SUFFICES ASSUME ~missed, NoNews(Tail(queue)), fetch = "no"
               PROVE  page' \in Known'
    BY <1>1, <1>3 DEF PageIsKnown
  <2>1. Known' = Known
    BY <1>1 DEF Known
  <2>2. CASE Head(queue) = "other"
    BY <1>1, <2>1, <2>2, HeadRead DEF RegIInv, PageIsKnown, Listening
  <2>3. CASE Head(queue) # "other"
    BY <1>1, <2>1, <2>3, HeadRead DEF RegIInv, NewsIsKnown
  <2>4. QED
    BY <2>2, <2>3
<1>8. QED
  BY <1>4, <1>5, <1>6, <1>7 DEF RegIInv

LEMMA ReadsKeeps == RegIInv /\ ListReads => RegIInv'
<1> SUFFICES ASSUME RegIInv, ListReads PROVE RegIInv'
  OBVIOUS
<1>1. /\ fetch = "asked" /\ listed' = real /\ fetch' \in {"listing", "answered"}
      /\ info' \in {info, "query"} /\ (info' = info \/ info = "none")
      /\ fetch' = "listing" => info' # "none"
      /\ UNCHANGED <<real, seen, prev, snap, loop, cool, row, req, scan, dis,
                     dirty, page, sub, broken, queue, missed, spent>>
  BY DEF ListReads, tableVars, loopVars, reqVars, eventVars
<1>2. RegTypes'
  <2>1. RegStates'
    BY <1>1 DEF RegTypes, RegStates, RegIInv
  <2>2. RegFlags'
    BY <1>1 DEF RegTypes, RegFlags, RegIInv
  <2>3. QED
    BY <2>1, <2>2 DEF RegTypes
<1>3. LoopKnows' /\ WaitersAreFed' /\ OffAsksNothing'
  BY <1>1 DEF RegIInv, LoopKnows, WaitersAreFed, OffAsksNothing
<1>4. QueueOK' /\ NewsIsKnown' /\ PageIsKnown'
  BY <1>1, StaysKnown DEF RegIInv, Known
<1>5. QED
  BY <1>2, <1>3, <1>4 DEF RegIInv

LEMMA ListArrivesKeeps == RegIInv /\ ListArrives => RegIInv'
<1> SUFFICES ASSUME RegIInv, ListArrives PROVE RegIInv'
  OBVIOUS
<1>1. /\ fetch = "answered" /\ page' = listed /\ dirty' = FALSE /\ listed' = "absent"
      /\ fetch' = IF dirty THEN "asked" ELSE "no"
      /\ UNCHANGED <<real, seen, prev, snap, loop, info, cool, row, req, scan, dis,
                     sub, broken, queue, missed, spent>>
  BY DEF ListArrives, tableVars, loopVars, infoVars, reqVars, eventVars
<1>2. RegTypes'
  <2>1. RegStates'
    BY <1>1 DEF RegTypes, RegStates, RegIInv, States
  <2>2. RegFlags'
    BY <1>1 DEF RegTypes, RegFlags, RegIInv, States
  <2>3. QED
    BY <2>1, <2>2 DEF RegTypes
<1>3. LoopKnows' /\ WaitersAreFed' /\ OffAsksNothing' /\ QueueOK' /\ NewsIsKnown'
  BY <1>1 DEF RegIInv, LoopKnows, WaitersAreFed, OffAsksNothing, QueueOK, NewsIsKnown, Known
<1>4. PageIsKnown'
  BY <1>1 DEF RegIInv, RegTypes, RegStates, RegFlags, PageIsKnown, Listening, Known
<1>5. QED
  BY <1>2, <1>3, <1>4 DEF RegIInv

LEMMA ListFailsKeeps == RegIInv /\ ListFails => RegIInv'
<1> SUFFICES ASSUME RegIInv, ListFails PROVE RegIInv'
  OBVIOUS
<1> USE DEF ListFails, tableVars, loopVars, infoVars, reqVars
<1>1. RegTypes'
  <2>1. RegStates'
    BY RegBounds DEF RegTypes, RegStates, RegIInv, Spends
  <2>2. RegFlags'
    BY RegBounds DEF RegTypes, RegFlags, RegIInv, Spends
  <2>3. QED
    BY <2>1, <2>2 DEF RegTypes
<1>2. LoopKnows' /\ WaitersAreFed' /\ OffAsksNothing' /\ QueueOK'
  BY DEF RegIInv, LoopKnows, WaitersAreFed, OffAsksNothing, QueueOK
<1>3. NewsIsKnown' /\ PageIsKnown'
  BY DEF NewsIsKnown, PageIsKnown
<1>4. QED
  BY <1>1, <1>2, <1>3 DEF RegIInv

-----------------------------------------------------------------------------
LEMMA RegInvariance == RegIInv /\ [RegNext]_regVars => RegIInv'
<1> SUFFICES ASSUME RegIInv, [RegNext]_regVars PROVE RegIInv'
  OBVIOUS
<1>1. CASE AdbChanges \/ OtherEvent \/ CooldownEnds
  BY <1>1, AdbKeeps, OtherKeeps, CooldownKeeps
<1>2. CASE LoopStep \/ TaskStep
  BY <1>2, TickKeeps, DeletedKeeps, AnnouncesKeeps, TaskKeeps DEF LoopStep
<1>3. CASE ConnectBegins \/ ScanBegins \/ ScanProbed \/ DisconnectBegins
  BY <1>3, BeginKeeps
<1>4. CASE ConnectStep \/ DisconnectStep
  BY <1>4, ConnectsKeep, SavesKeep, DisconnectsKeep, DisconnectEndsKeeps DEF ConnectStep, DisconnectStep
<1>5. CASE Mount \/ Unmount \/ StreamBreaks \/ StreamRefused \/ ListFails
  BY <1>5, MountKeeps, UnmountKeeps, BreaksKeeps, RefusedKeeps, ListFailsKeeps
<1>6. CASE PageStep
  BY <1>6, OpensKeeps, ArrivesKeeps, ReadsKeeps, ListArrivesKeeps DEF PageStep
<1>7. CASE UNCHANGED regVars
  <2> USE <1>7 DEF regVars, tableVars, loopVars, infoVars, reqVars, pageVars, eventVars
  <2>1. RegTypes' /\ LoopKnows' /\ WaitersAreFed' /\ OffAsksNothing'
    <3>1. RegStates'
      BY DEF RegTypes, RegStates, RegIInv
    <3>2. RegFlags'
      BY DEF RegTypes, RegFlags, RegIInv
    <3>3. LoopKnows' /\ WaitersAreFed' /\ OffAsksNothing'
      BY DEF RegTypes, RegStates, LoopKnows, WaitersAreFed, OffAsksNothing, RegIInv
    <3>4. QED
      BY <3>1, <3>2, <3>3 DEF RegTypes
  <2>2. QueueOK' /\ NewsIsKnown' /\ PageIsKnown'
    BY StaysKnown DEF RegIInv, Known
  <2>3. QED
    BY <2>1, <2>2 DEF RegIInv
<1>8. QED
  BY <1>1, <1>2, <1>3, <1>4, <1>5, <1>6, <1>7 DEF RegNext

\* Nobody waits for details that nobody queries, and a page at rest shows the state
\* adb gives the device unless a change was lost, whatever order lists, events and
\* breaks of the stream come in, with a queue of any capacity and any number of
\* events (device_service.py:183-190, 537-612; device.ts:107-140).
THEOREM ThePageIsTrue == RegSpec => []RegInv
<1>1. RegIInv => RegInv
  <2> SUFFICES ASSUME RegIInv PROVE RegInv
    OBVIOUS
  <2>1. RegTypeOK
    BY DEF RegIInv, RegTypes, RegStates, RegFlags, QueueOK, RegTypeOK
  <2>2. PageIsTrue
    <3> SUFFICES ASSUME Quiet, ~missed PROVE page = real
      BY DEF PageIsTrue
    <3>1. prev = real /\ snap = real
      BY DEF Quiet, RegIInv, LoopKnows
    <3>2. NoNews(queue) /\ Listening /\ fetch = "no"
      BY DEF Quiet, NoNews, Listening
    <3>3. QED
      BY <3>1, <3>2 DEF RegIInv, PageIsKnown, Known
  <2>3. QED
    BY <2>1, <2>2 DEF RegIInv, RegInv
<1>2. QED
  BY <1>1, InitReg, RegInvariance, PTL DEF RegSpec

=============================================================================
