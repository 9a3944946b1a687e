------------------------ MODULE DebugSession_proofs -------------------------
(***************************************************************************)
(* What a debug session promises: who records gets its lines or learns the *)
(* end (DebugSession), one shell forwards for those who watch              *)
(* (DebugShell), a command is answered by its own output                   *)
(* (InteractiveShell), and a collected line is stored once or counted as   *)
(* lost (LogWriter).                                                       *)
(***************************************************************************)
EXTENDS DebugSession, DebugShell, InteractiveShell, LogWriter, SequenceFacts,
        FiniteSetTheorems, TLAPS

-----------------------------------------------------------------------------
(***************************************************************************)
(* Who records is served, for any number of clients. A client whose        *)
(* subscription is open has a handler waiting for commands (OpenIsReady),  *)
(* a subscriber, or one who is still to be told, has a handler             *)
(* (HandlersStay), the session is gone only once its end is told           *)
(* (GoneIsClosed), and while a failed collector tells it, whoever records  *)
(* was told, is the one whose message is under way, or is still to be told *)
(* (StillToTell): otherwise its end would leave somebody behind.           *)
(***************************************************************************)

\* Who records has a handler that waits for its commands.
OpenIsReady == \A w \in Clients : subs[w] = "open" => pc[w] = "ready"

HandlersStay == \A w \in Clients : subs[w] # "out" \/ w \in toTell => pc[w] # "off"

GoneIsClosed == ~live => closing \in {"bye", "done"}

Excused(w) == down[w] \/ closing \notin {"no", "chosen"}

StillToTell ==
    coll = "breaking" =>
        \A w \in Clients : subs[w] = "open" =>
            told[w] # "no" \/ w = cur \/ w \in toTell \/ Excused(w)

\* The tables of clients, and the rest.
ClientsOK ==
    /\ subs \in [Clients -> {"out", "paused", "open"}]
    /\ pc \in [Clients -> {"off", "resume", "shell", "ready"}]
    /\ down \in [Clients -> BOOLEAN] /\ told \in [Clients -> {"no", "yes", "late"}]

SessionOK ==
    /\ live \in BOOLEAN
    /\ closing \in {"no", "chosen", "shell", "flush", "bye", "done"}
    /\ ended \in BOOLEAN /\ grace \in 0 .. 2

RoundOK ==
    /\ coll \in {"none", "waiting", "sending", "breaking"}
    /\ cur \in Clients \cup {NoClient}
    /\ visited \subseteq Clients /\ dead \subseteq Clients /\ toTell \subseteq Clients
    /\ size \in 0 .. Cardinality(Clients) /\ table \in {"same", "changed", "gone"}
    /\ coll \in {"none", "waiting"} => cur = NoClient /\ dead = {} /\ table = "same"
    /\ coll # "sending" => visited = {}
    /\ coll # "breaking" => toTell = {}
    /\ cur # NoClient => pc[cur] # "off" /\ cur \notin toTell

TypesOK == ClientsOK /\ SessionOK /\ RoundOK
ServiceOK == OpenIsReady /\ HandlersStay /\ GoneIsClosed /\ StillToTell /\ OpenIsServed

LogIInv == TypesOK /\ ServiceOK

LEMMA Counts ==
    /\ Cardinality(Clients) \in Nat
    /\ \A S \in SUBSET Clients : Cardinality(S) \in 0 .. Cardinality(Clients)
<1>1. IsFiniteSet(Clients)
  BY LogAssumption DEF LogAssumption
<1>2. Cardinality(Clients) \in Nat
  BY <1>1, FS_CardinalityType
<1>3. ASSUME NEW S \in SUBSET Clients PROVE Cardinality(S) \in 0 .. Cardinality(Clients)
  <2>1. IsFiniteSet(S) /\ Cardinality(S) <= Cardinality(Clients)
    BY <1>1, FS_Subset
  <2>2. Cardinality(S) \in Nat
    BY <2>1, FS_CardinalityType
  <2>3. QED
    BY <1>2, <2>1, <2>2
<1>4. QED
  BY <1>2, <1>3

LEMMA InitLog == LogInit => LogIInv
<1> SUFFICES ASSUME LogInit PROVE LogIInv
  OBVIOUS
<1>1. ClientsOK
  BY DEF LogInit, ClientsOK
<1>2. SessionOK
  <2>1. live \in BOOLEAN /\ ended \in BOOLEAN /\ closing = "no" /\ grace = 0
    BY DEF LogInit
  <2>2. QED
    BY <2>1 DEF SessionOK
<1>3. RoundOK
  BY Counts DEF LogInit, RoundOK
<1>4. ServiceOK
  BY DEF LogInit, ServiceOK, OpenIsReady, HandlersStay, GoneIsClosed, StillToTell, OpenIsServed, Open
<1>5. QED
  BY <1>1, <1>2, <1>3, <1>4 DEF LogIInv, TypesOK

\* A round that is over leaves nothing behind.
LEMMA RoundOver ==
    ASSUME NotIterating, RoundOK, coll' \in {"none", "waiting"} PROVE RoundOK'
BY Counts DEF NotIterating, RoundOK

LEMMA NextSendKeeps ==
    ASSUME LogIInv, NEW seen \in SUBSET Clients, NEW sz \in 0 .. Cardinality(Clients),
           NEW lost \in SUBSET Clients, NEW tab \in {"same", "changed", "gone"},
           NextSend(seen, sz, lost, tab), coll \in {"waiting", "sending"},
           UNCHANGED <<live, closing, pc, down, told, ended, grace>>
    PROVE  LogIInv'
<1> USE DEF LogIInv, TypesOK, ServiceOK
<1>1. ClientsOK /\ SessionOK /\ RoundOK
  OBVIOUS
<1>2. CASE \E w \in Open \ seen :
             /\ coll' = "sending" /\ cur' = w /\ visited' = seen \cup {w}
             /\ size' = sz /\ dead' = lost /\ table' = tab
             /\ UNCHANGED <<subs, toTell>>
  <2>1. PICK w \in Open \ seen :
             /\ coll' = "sending" /\ cur' = w /\ visited' = seen \cup {w}
             /\ size' = sz /\ dead' = lost /\ table' = tab
             /\ UNCHANGED <<subs, toTell>>
    BY <1>2
  <2>2. w \in Clients /\ pc[w] = "ready"
    BY <2>1 DEF Open, OpenIsReady
  <2>3. toTell = {}
    BY DEF RoundOK
  <2>4. ClientsOK' /\ SessionOK' /\ RoundOK'
    BY <1>1, <2>1, <2>2, <2>3 DEF ClientsOK, SessionOK, RoundOK
  <2>5. OpenIsReady' /\ HandlersStay' /\ GoneIsClosed'
    BY <2>1 DEF OpenIsReady, HandlersStay, GoneIsClosed
  <2>6. StillToTell' /\ OpenIsServed'
    BY <2>1 DEF StillToTell, OpenIsServed, Open
  <2>7. QED
    BY <2>4, <2>5, <2>6
<1>3. CASE /\ coll' = "waiting" /\ NotIterating
           /\ subs' = [w \in Clients |-> IF w \in lost THEN "out" ELSE subs[w]]
  <2>1. ClientsOK' /\ SessionOK' /\ RoundOK'
    BY <1>1, <1>3, RoundOver DEF ClientsOK, SessionOK
  <2>2. OpenIsReady' /\ HandlersStay' /\ GoneIsClosed'
    BY <1>3 DEF OpenIsReady, HandlersStay, GoneIsClosed, NotIterating
  <2>3. StillToTell' /\ OpenIsServed'
    BY <1>3 DEF StillToTell, OpenIsServed, Open
  <2>4. QED
    BY <2>1, <2>2, <2>3
<1>4. QED
  BY <1>2, <1>3 DEF NextSend

LEMMA LogCollectKeeps == LogIInv /\ CollectLine => LogIInv'
<1> SUFFICES ASSUME LogIInv, CollectLine PROVE LogIInv'
  OBVIOUS
<1>1. Cardinality(Subscribed) \in 0 .. Cardinality(Clients)
  BY Counts DEF Subscribed
<1>2. QED
  BY <1>1, NextSendKeeps DEF CollectLine

\* The failed collector begins to tell, or has nobody to tell.
LEMMA BreaksKeep ==
    ASSUME LogIInv, BreaksOff, UNCHANGED <<live, closing, subs, pc, down, told, ended, grace>>
    PROVE  LogIInv'
<1> USE DEF LogIInv, TypesOK, ServiceOK
<1>1. ClientsOK /\ SessionOK /\ RoundOK
  OBVIOUS
<1>2. ClientsOK' /\ SessionOK'
  BY <1>1 DEF ClientsOK, SessionOK
<1>3. OpenIsReady' /\ GoneIsClosed'
  BY DEF OpenIsReady, GoneIsClosed
<1>4. CASE Subscribed = {} /\ coll' = "none" /\ NotIterating
  <2>1. RoundOK'
    BY <1>1, <1>4, RoundOver
  <2>2. HandlersStay' /\ StillToTell' /\ OpenIsServed'
    BY <1>4 DEF HandlersStay, StillToTell, OpenIsServed, Open, Subscribed, NotIterating
  <2>3. QED
    BY <1>2, <1>3, <2>1, <2>2
<1>5. CASE \E w \in Subscribed :
             /\ coll' = "breaking" /\ cur' = w /\ toTell' = Subscribed \ {w}
             /\ visited' = {} /\ size' = 0 /\ dead' = {} /\ table' = "same"
  <2>1. PICK w \in Subscribed :
             /\ coll' = "breaking" /\ cur' = w /\ toTell' = Subscribed \ {w}
             /\ visited' = {} /\ size' = 0 /\ dead' = {} /\ table' = "same"
    BY <1>5
  <2>2. w \in Clients /\ pc[w] # "off"
    BY <2>1 DEF Subscribed, HandlersStay
  <2>3. RoundOK'
    BY <1>1, <2>1, <2>2, Counts DEF RoundOK, Subscribed
  <2>4. HandlersStay'
    BY <2>1 DEF HandlersStay, Subscribed
  <2>5. StillToTell' /\ OpenIsServed'
    BY <2>1 DEF StillToTell, OpenIsServed, Subscribed
  <2>6. QED
    BY <1>2, <1>3, <2>3, <2>4, <2>5
<1>6. QED
  BY <1>4, <1>5 DEF BreaksOff

LEMMA SendKeeps == LogIInv /\ SendDone => LogIInv'
<1> SUFFICES ASSUME LogIInv, SendDone PROVE LogIInv'
  OBVIOUS
<1>1. CASE BreaksOff /\ UNCHANGED subs
  BY <1>1, BreaksKeep DEF SendDone
<1>2. CASE NextSend(visited, size, Failing, table)
  <2>1. /\ visited \in SUBSET Clients /\ size \in 0 .. Cardinality(Clients)
        /\ Failing \in SUBSET Clients /\ table \in {"same", "changed", "gone"}
    BY DEF LogIInv, TypesOK, RoundOK, Failing
  <2>2. coll = "sending" /\ UNCHANGED <<live, closing, pc, down, told, ended, grace>>
    BY DEF SendDone
  <2>3. QED
    BY <1>2, <2>1, <2>2, NextSendKeeps
<1>3. QED
  BY <1>1, <1>2 DEF SendDone

\* One message of the farewell: whom it reached was told, and who is left of the
\* copied dictionary comes next.
LEMMA TellsKeeps == LogIInv /\ Tells => LogIInv'
<1> SUFFICES ASSUME LogIInv, Tells PROVE LogIInv'
  OBVIOUS
<1> USE DEF LogIInv, TypesOK, ServiceOK
<1>1. ClientsOK /\ SessionOK /\ RoundOK
  OBVIOUS
<1>2. /\ coll = "breaking" /\ UNCHANGED <<live, closing, pc, down, ended, grace>>
      /\ told' = [w \in Clients |-> IF w = cur /\ ~down[w] THEN "yes" ELSE told[w]]
  BY DEF Tells
<1>3. SessionOK' /\ GoneIsClosed'
  BY <1>1, <1>2 DEF SessionOK, GoneIsClosed
<1>4. CASE \E w \in toTell :
             /\ cur' = w /\ toTell' = toTell \ {w} /\ dead' = Failing
             /\ UNCHANGED <<subs, coll, visited, size, table>>
  <2>1. PICK w \in toTell :
             /\ cur' = w /\ toTell' = toTell \ {w} /\ dead' = Failing
             /\ UNCHANGED <<subs, coll, visited, size, table>>
    BY <1>4
  <2>2. w \in Clients /\ pc[w] # "off" /\ Failing \subseteq Clients
    BY <1>1, <2>1 DEF RoundOK, HandlersStay, Failing
  <2>3. ClientsOK' /\ OpenIsReady' /\ HandlersStay'
    BY <1>1, <1>2, <2>1 DEF ClientsOK, OpenIsReady, HandlersStay
  <2>4. RoundOK'
    BY <1>1, <1>2, <2>1, <2>2 DEF RoundOK
  <2>5. StillToTell'
    <3> SUFFICES ASSUME NEW v \in Clients, subs[v] = "open"
                 PROVE  told'[v] # "no" \/ v = cur' \/ v \in toTell' \/ Excused(v)'
      BY <2>1 DEF StillToTell
    <3>1. told[v] # "no" \/ v = cur \/ v \in toTell \/ Excused(v)
      BY <1>2 DEF StillToTell
    <3>2. told'[v] = IF v = cur /\ ~down[v] THEN "yes" ELSE told[v]
      BY <1>2
    <3>3. QED
      BY <1>2, <2>1, <3>1, <3>2 DEF Excused
  <2>6. OpenIsServed'
    BY <1>2, <2>1 DEF OpenIsServed
  <2>7. QED
    BY <1>3, <2>3, <2>4, <2>5, <2>6
<1>5. CASE /\ toTell = {}
           /\ coll' = "none" /\ NotIterating
           /\ subs' = [w \in Clients |-> IF w \in Failing \/ table = "gone" THEN "out"
                                                                       ELSE subs[w]]
  <2>1. ClientsOK' /\ OpenIsReady'
    BY <1>1, <1>2, <1>5 DEF ClientsOK, OpenIsReady
  <2>2. RoundOK'
    BY <1>1, <1>5, RoundOver
  <2>3. HandlersStay' /\ StillToTell'
    BY <1>2, <1>5 DEF HandlersStay, StillToTell, NotIterating
  <2>4. OpenIsServed'
    <3> SUFFICES ASSUME NEW v \in Clients, subs'[v] = "open"
                 PROVE  told'[v] # "no" \/ down'[v] \/ closing' \notin {"no", "chosen"}
      BY DEF OpenIsServed, Open
    <3>1. subs[v] = "open"
      BY <1>5
    <3>2. told[v] # "no" \/ v = cur \/ Excused(v)
      BY <1>2, <1>5, <3>1 DEF StillToTell
    <3>3. told'[v] = IF v = cur /\ ~down[v] THEN "yes" ELSE told[v]
      BY <1>2
    <3>4. QED
      BY <1>2, <3>2, <3>3 DEF Excused
  <2>5. QED
    BY <1>3, <2>1, <2>2, <2>3, <2>4
<1>6. QED
  BY <1>4, <1>5 DEF Tells

LEMMA StreamFailsKeeps == LogIInv /\ StreamFails => LogIInv'
BY BreaksKeep DEF StreamFails, clients

\* The collector ends or is stopped for a reason that its subscribers know.
LEMMA LogStopKeeps ==
    ASSUME LogIInv, coll' = "none", NotIterating,
           ended' \/ Open = {} \/ closing' \notin {"no", "chosen"}, ended' \in BOOLEAN,
           closing' = closing \/ (live /\ closing' = "shell"), grace' \in 0 .. 2,
           UNCHANGED <<live, clients>>
    PROVE  LogIInv'
<1> USE DEF LogIInv, TypesOK, ServiceOK, clients
<1>1. ClientsOK /\ SessionOK /\ RoundOK
  OBVIOUS
<1>2. ClientsOK' /\ SessionOK' /\ RoundOK'
  BY <1>1, RoundOver DEF ClientsOK, SessionOK
<1>3. OpenIsReady' /\ HandlersStay' /\ GoneIsClosed' /\ StillToTell'
  BY DEF OpenIsReady, HandlersStay, GoneIsClosed, StillToTell, NotIterating
<1>4. OpenIsServed'
  BY DEF OpenIsServed, Open
<1>5. QED
  BY <1>2, <1>3, <1>4

LEMMA LogEndKeeps == LogIInv /\ StreamEnds => LogIInv'
<1> SUFFICES ASSUME LogIInv, StreamEnds PROVE LogIInv'
  OBVIOUS
<1> USE DEF LogIInv, TypesOK, ServiceOK
<1>1. ClientsOK /\ SessionOK /\ RoundOK
  OBVIOUS
<1>2. ClientsOK' /\ SessionOK' /\ RoundOK'
  BY <1>1 DEF StreamEnds, clients, iter, ClientsOK, SessionOK, RoundOK
<1>3. OpenIsReady' /\ HandlersStay' /\ GoneIsClosed' /\ StillToTell' /\ OpenIsServed'
  BY DEF StreamEnds, clients, iter, OpenIsReady, HandlersStay, GoneIsClosed, StillToTell, OpenIsServed
<1>4. QED
  BY <1>2, <1>3

LEMMA GraceKeeps == LogIInv /\ GraceOver => LogIInv'
<1> SUFFICES ASSUME LogIInv, GraceOver PROVE LogIInv'
  OBVIOUS
<1> USE DEF LogIInv, TypesOK, ServiceOK
<1>1. ClientsOK /\ SessionOK /\ RoundOK
  OBVIOUS
<1>2. grace' \in 0 .. 2
  BY <1>1 DEF SessionOK, GraceOver
<1>3. CASE coll # "none" /\ Open = {}
  BY <1>1, <1>2, <1>3, LogStopKeeps DEF GraceOver, StopsCollector, SessionOK
<1>4. CASE ~(coll # "none" /\ Open = {})
  <2>1. UNCHANGED <<live, closing, subs, pc, down, told, coll, cur, visited, size, dead, toTell,
                    table, ended>>
    BY <1>4 DEF GraceOver, clients, iter
  <2>2. ClientsOK' /\ SessionOK' /\ RoundOK'
    BY <1>1, <1>2, <2>1 DEF ClientsOK, SessionOK, RoundOK
  <2>3. OpenIsReady' /\ HandlersStay' /\ GoneIsClosed'
    BY <2>1 DEF OpenIsReady, HandlersStay, GoneIsClosed
  <2>4. StillToTell' /\ OpenIsServed'
    BY <2>1 DEF StillToTell, Excused, OpenIsServed, Open
  <2>5. QED
    BY <2>2, <2>3, <2>4
<1>5. QED
  BY <1>3, <1>4

LEMMA SubscribeKeeps == ASSUME NEW w \in Clients PROVE LogIInv /\ Subscribe(w) => LogIInv'
<1> SUFFICES ASSUME LogIInv, Subscribe(w) PROVE LogIInv'
  OBVIOUS
<1> USE DEF LogIInv, TypesOK, ServiceOK, Subscribe, iter
<1>1. ClientsOK /\ SessionOK /\ RoundOK
  OBVIOUS
<1>2. ClientsOK' /\ SessionOK'
  BY <1>1 DEF ClientsOK, SessionOK
<1>3. RoundOK'
  BY <1>1 DEF ClientsOK, RoundOK
<1>4. OpenIsReady' /\ HandlersStay' /\ GoneIsClosed'
  BY <1>1 DEF ClientsOK, OpenIsReady, HandlersStay, GoneIsClosed
<1>5. StillToTell'
  <2> SUFFICES ASSUME coll = "breaking", NEW v \in Clients, subs'[v] = "open"
               PROVE  told'[v] # "no" \/ v = cur \/ v \in toTell \/ Excused(v)'
    BY DEF StillToTell
  <2>1. v # w /\ subs[v] = "open" /\ told'[v] = told[v]
    BY <1>1 DEF ClientsOK
  <2>2. QED
    BY <2>1 DEF StillToTell, Excused
<1>6. OpenIsServed'
  BY <1>1 DEF ClientsOK, OpenIsServed, Open
<1>7. QED
  BY <1>2, <1>3, <1>4, <1>5, <1>6

LEMMA StepKeeps == ASSUME NEW w \in Clients PROVE LogIInv /\ HandlerStep(w) => LogIInv'
<1> SUFFICES ASSUME LogIInv, HandlerStep(w) PROVE LogIInv'
  OBVIOUS
<1> USE DEF LogIInv, TypesOK, ServiceOK, HandlerStep, iter
<1>1. ClientsOK /\ SessionOK /\ RoundOK
  OBVIOUS
<1>2. ClientsOK' /\ SessionOK'
  BY <1>1 DEF ClientsOK, SessionOK
<1>3. RoundOK'
  BY <1>1 DEF ClientsOK, RoundOK
<1>4. OpenIsReady' /\ HandlersStay' /\ GoneIsClosed'
  BY <1>1 DEF ClientsOK, OpenIsReady, HandlersStay, GoneIsClosed
<1>5. StillToTell' /\ OpenIsServed'
  BY DEF StillToTell, Excused, OpenIsServed, Open
<1>6. QED
  BY <1>2, <1>3, <1>4, <1>5

LEMMA RecordKeeps == ASSUME NEW w \in Clients PROVE LogIInv /\ Record(w) => LogIInv'
<1> SUFFICES ASSUME LogIInv, Record(w) PROVE LogIInv'
  OBVIOUS
<1> USE DEF LogIInv, TypesOK, ServiceOK, Record, iter
<1>1. ClientsOK /\ SessionOK /\ RoundOK
  OBVIOUS
<1>2. SessionOK' /\ ClientsOK'
  BY <1>1 DEF ClientsOK, SessionOK, Ensures
<1>3. RoundOK'
  <2>1. /\ coll' \in {"none", "waiting", "sending", "breaking"}
        /\ coll' = coll \/ (coll = "none" /\ coll' = "waiting")
    BY <1>1 DEF RoundOK, Ensures
  <2>2. QED
    BY <1>1, <2>1 DEF RoundOK
<1>4. OpenIsReady' /\ HandlersStay' /\ GoneIsClosed'
  BY <1>1 DEF ClientsOK, OpenIsReady, HandlersStay, GoneIsClosed
<1>5. StillToTell'
  <2> SUFFICES ASSUME coll' = "breaking", NEW v \in Clients, subs'[v] = "open"
               PROVE  told'[v] # "no" \/ v = cur \/ v \in toTell \/ Excused(v)'
    BY DEF StillToTell
  <2>1. coll = "breaking" /\ Excused(v)' = Excused(v)
    BY DEF Ensures, Excused
  <2>2. CASE live
    <3>1. told' = [told EXCEPT ![w] = "late"]
      BY <2>1, <2>2 DEF Ensures
    <3>2. CASE v = w
      BY <1>1, <3>1, <3>2 DEF ClientsOK
    <3>3. CASE v # w
      BY <1>1, <2>1, <3>1, <3>3 DEF ClientsOK, StillToTell
    <3>4. QED
      BY <3>2, <3>3
  <2>3. CASE ~live
    BY <2>1, <2>3 DEF GoneIsClosed, Excused
  <2>4. QED
    BY <2>2, <2>3
<1>6. OpenIsServed'
  <2>1. CASE live
    BY <1>1, <2>1 DEF RoundOK, OpenIsServed, Ensures
  <2>2. CASE ~live
    BY <2>2 DEF GoneIsClosed, OpenIsServed
  <2>3. QED
    BY <2>1, <2>2
<1>7. QED
  BY <1>2, <1>3, <1>4, <1>5, <1>6

LEMMA Schedules ==
    ASSUME NEW open, SchedulesStop(open), grace \in 0 .. 2 PROVE grace' \in 0 .. 2
BY DEF SchedulesStop

LEMMA PauseKeeps == ASSUME NEW w \in Clients PROVE LogIInv /\ Pause(w) => LogIInv'
<1> SUFFICES ASSUME LogIInv, Pause(w) PROVE LogIInv'
  OBVIOUS
<1> USE DEF LogIInv, TypesOK, ServiceOK, Pause, iter
<1>1. ClientsOK /\ SessionOK /\ RoundOK
  OBVIOUS
<1>2. ClientsOK' /\ SessionOK'
  BY <1>1, Schedules DEF ClientsOK, SessionOK
<1>3. RoundOK'
  BY <1>1 DEF RoundOK
<1>4. OpenIsReady' /\ HandlersStay' /\ GoneIsClosed'
  BY <1>1 DEF ClientsOK, OpenIsReady, HandlersStay, GoneIsClosed
<1>5. StillToTell' /\ OpenIsServed'
  BY <1>1 DEF ClientsOK, StillToTell, Excused, OpenIsServed, Open
<1>6. QED
  BY <1>2, <1>3, <1>4, <1>5

LEMMA DisconnectKeeps == ASSUME NEW w \in Clients PROVE LogIInv /\ Disconnect(w) => LogIInv'
<1> SUFFICES ASSUME LogIInv, Disconnect(w) PROVE LogIInv'
  OBVIOUS
<1> USE DEF LogIInv, TypesOK, ServiceOK, Disconnect, iter
<1>1. ClientsOK /\ SessionOK /\ RoundOK
  OBVIOUS
<1>2. ClientsOK' /\ SessionOK'
  BY <1>1 DEF ClientsOK, SessionOK
<1>3. RoundOK'
  BY <1>1 DEF RoundOK
<1>4. OpenIsReady' /\ HandlersStay' /\ GoneIsClosed'
  BY DEF OpenIsReady, HandlersStay, GoneIsClosed
<1>5. StillToTell' /\ OpenIsServed'
  BY <1>1 DEF ClientsOK, StillToTell, Excused, OpenIsServed, Open
<1>6. QED
  BY <1>2, <1>3, <1>4, <1>5

LEMMA TableIs ==
    ASSUME NEW left
    PROVE  /\ TableNow(left) \in {"same", "changed", "gone"}
           /\ coll \notin {"sending", "breaking"} => TableNow(left) = "same"
BY DEF TableNow

LEMMA LogLeaveKeeps == ASSUME NEW w \in Clients PROVE LogIInv /\ Leave(w) => LogIInv'
<1> SUFFICES ASSUME LogIInv, Leave(w) PROVE LogIInv'
  OBVIOUS
<1> USE DEF LogIInv, TypesOK, ServiceOK, Leave
<1>1. ClientsOK /\ SessionOK /\ RoundOK
  OBVIOUS
<1>2. ClientsOK' /\ SessionOK'
  BY <1>1, Schedules DEF ClientsOK, SessionOK
<1>3. RoundOK'
  <2> DEFINE now == TableNow(Subscribed \ {w})
  <2>1. cur' = IF cur = w THEN NoClient ELSE cur
    BY DEF Leave
  <2>2. cur' # NoClient => cur' # w /\ cur' = cur
    BY <2>1
  <2>3. now \in {"same", "changed", "gone"} /\ (coll \notin {"sending", "breaking"} => now = "same")
    BY TableIs
  <2>4. table' = table \/ table' = now
    BY DEF Leave
  <2> HIDE DEF now
  <2>5. /\ table' \in {"same", "changed", "gone"}
        /\ coll \in {"none", "waiting"} => table' = "same"
    BY <1>1, <2>3, <2>4 DEF RoundOK
  <2>6. cur' # NoClient => pc'[cur'] # "off" /\ cur' \notin toTell'
    BY <1>1, <2>2 DEF ClientsOK, RoundOK
  <2>7. QED
    BY <1>1, <2>1, <2>5, <2>6 DEF RoundOK
<1>4. OpenIsReady' /\ HandlersStay' /\ GoneIsClosed'
  BY <1>1 DEF ClientsOK, OpenIsReady, HandlersStay, GoneIsClosed
<1>5. StillToTell'
  <2> SUFFICES ASSUME coll = "breaking", NEW v \in Clients, subs'[v] = "open"
               PROVE  told[v] # "no" \/ v = cur' \/ v \in toTell' \/ Excused(v)'
    BY DEF StillToTell
  <2>1. v # w /\ subs[v] = "open" /\ Excused(v)' = Excused(v)
    BY <1>1 DEF ClientsOK, Excused
  <2>2. QED
    BY <2>1 DEF StillToTell
<1>6. OpenIsServed'
  BY <1>1 DEF ClientsOK, OpenIsServed, Open
<1>7. QED
  BY <1>2, <1>3, <1>4, <1>5, <1>6

LEMMA LogCloseKeeps == LogIInv /\ (Reap \/ CloseBegins \/ CloseStep) => LogIInv'
<1> SUFFICES ASSUME LogIInv, Reap \/ CloseBegins \/ CloseStep PROVE LogIInv'
  OBVIOUS
<1> USE DEF LogIInv, TypesOK, ServiceOK
<1>1. ClientsOK /\ SessionOK /\ RoundOK
  OBVIOUS
<1>2. CASE CloseBegins
  BY <1>1, <1>2, LogStopKeeps DEF CloseBegins, StopsCollector, SessionOK
<1>3. CASE Reap \/ CloseStep
  <2>1. UNCHANGED <<pc, down, told, coll, cur, visited, size, dead, toTell, ended, grace>>
    BY <1>3 DEF Reap, CloseStep, clients, iter
  <2>2. /\ table' \in {"same", "changed", "gone"}
        /\ coll \in {"none", "waiting"} => table' = "same"
    BY <1>1, <1>3, TableIs DEF Reap, CloseStep, clients, iter, RoundOK
  <2>3. ClientsOK'
    BY <1>1, <1>3, <2>1 DEF Reap, CloseStep, clients, ClientsOK
  <2>4. SessionOK'
    BY <1>1, <1>3, <2>1 DEF Reap, CloseStep, clients, SessionOK
  <2>5. RoundOK'
    BY <1>1, <2>1, <2>2 DEF RoundOK
  <2>6. subs' = subs \/ subs' = [v \in Clients |-> "out"]
    BY <1>3 DEF Reap, CloseStep, clients
  <2>7. OpenIsReady' /\ HandlersStay'
    BY <1>1, <2>1, <2>6 DEF ClientsOK, OpenIsReady, HandlersStay
  <2>8. GoneIsClosed'
    BY <1>3 DEF Reap, CloseStep, GoneIsClosed
  <2>9. closing \notin {"no", "chosen"} => closing' \notin {"no", "chosen"}
    BY <1>3 DEF Reap, CloseStep
  <2>10. StillToTell' /\ OpenIsServed'
    BY <1>1, <2>1, <2>6, <2>9 DEF ClientsOK, StillToTell, Excused, OpenIsServed, Open
  <2>11. QED
    BY <2>3, <2>4, <2>5, <2>7, <2>8, <2>10
<1>4. QED
  BY <1>2, <1>3

LEMMA LogInvariance == LogSpec => []LogIInv
<1>1. LogIInv /\ [LogNext]_logVars => LogIInv'
  <2> SUFFICES ASSUME LogIInv, [LogNext]_logVars PROVE LogIInv'
    OBVIOUS
  <2>1. CASE UNCHANGED logVars
    <3>1. UNCHANGED <<live, closing, subs, pc, down, told, coll, cur, visited, size, dead, toTell,
                      table, ended, grace>>
      BY <2>1 DEF logVars, clients, iter
    <3>2. TypesOK'
      BY <3>1 DEF LogIInv, TypesOK, ClientsOK, SessionOK, RoundOK
    <3>3. ServiceOK'
      BY <3>1 DEF LogIInv, ServiceOK, OpenIsReady, HandlersStay, GoneIsClosed, StillToTell,
                  Excused, OpenIsServed, Open
    <3>4. QED
      BY <3>2, <3>3 DEF LogIInv
  <2>2. QED
    BY <2>1, LogCollectKeeps, SendKeeps, TellsKeeps, LogEndKeeps, StreamFailsKeeps, GraceKeeps,
       SubscribeKeeps, StepKeeps, RecordKeeps, PauseKeeps, DisconnectKeeps, LogLeaveKeeps,
       LogCloseKeeps DEF LogNext
<1>2. QED
  BY InitLog, <1>1, PTL DEF LogSpec

\* Whoever records on a live session is collected for; if the collection broke
\* off, whoever recorded when it did has been told by the time its task is over,
\* for any number of clients, in whatever order they begin, pause, leave or are
\* dropped while the task tells them one by one (set_subscriber_filter to
\* close_session, _broadcast_stream_error, debug_service.py).
THEOREM WhoRecordsIsServed == LogSpec => []LogInv
<1>1. LogIInv => LogInv
  BY DEF LogIInv, LogInv, LogTypeOK, TypesOK, ServiceOK, ClientsOK, SessionOK, RoundOK
<1>2. QED
  BY LogInvariance, <1>1, PTL

-----------------------------------------------------------------------------
(***************************************************************************)
(* One forwarding task, of the one shell there is, for those who watch,    *)
(* for any number of handlers and shells. While shells are created one at  *)
(* a time, a handler that replaces or creates the shell is the only one,   *)
(* has no shell registered beside it, and nothing forwards (OneByOne).     *)
(***************************************************************************)

AtSteps == {"off", "idle", "asking", "replacing", "creating", "waiting", "executing"}
Busy == {"asking", "replacing", "creating", "executing"}
Makes(u) == at[u] \in {"replacing", "creating"}

HandlersOK ==
    /\ at \in [Users -> AtSteps]
    /\ holder \in Users \cup {NoUser}
    /\ holder # NoUser => at[holder] \in Busy
    /\ watch \subseteq Users
    /\ \A u \in watch : at[u] # "off"

ShellsOK ==
    /\ known \in BOOLEAN /\ overlap \in BOOLEAN
    /\ closer \in {"no", "closing", "bye", "done"}
    /\ shell \in [Shells -> {"none", "starting", "alive", "dead"}]
    /\ reg \in Shells \cup {None} /\ fwd \in Shells \cup {None}
    /\ reading \subseteq Shells
    /\ new \in [Users -> Shells \cup {None}]
    /\ \A u \in Users : at[u] = "creating" => new[u] \in Shells

OneByOne ==
    ~overlap =>
        /\ \A u, v \in Users : Makes(u) /\ Makes(v) => u = v
        /\ \A u \in Users : Makes(u) => reg = None
        /\ reading \subseteq {reg}

ShellIInv ==
    /\ HandlersOK /\ ShellsOK /\ OneByOne
    /\ OneForwarder /\ NobodyForwards /\ NoStrayShell /\ WatchedIsForwarded

LEMMA NoneIsNoShell == None \notin Shells
BY DEF None, Shells

LEMMA InitShells == ShellInit => ShellIInv
<1> SUFFICES ASSUME ShellInit PROVE ShellIInv
  OBVIOUS
<1>1. HandlersOK
  BY DEF ShellInit, HandlersOK, AtSteps
<1>2. ShellsOK
  BY DEF ShellInit, ShellsOK
<1>3. QED
  BY <1>1, <1>2, NoneIsNoShell
     DEF ShellInit, ShellIInv, OneByOne, Makes, OneForwarder, NobodyForwards, NoStrayShell,
         WatchedIsForwarded, Alive

\* A handler that goes on holds the lock only with a command under way.
LEMMA GoesOn ==
    ASSUME HandlersOK, NEW u \in Users, NEW step \in AtSteps, Goes(u, step),
           holder = u => step \in Busy \cup {"idle"},
           watch' \subseteq Users, \A v \in watch' \ {u} : v \in watch,
           u \in watch' => step # "off"
    PROVE  HandlersOK'
BY ShellAssumption DEF ShellAssumption, HandlersOK, Goes, Busy

\* A handler goes on that neither ends nor makes a shell, and no shell changes.
LEMMA OnlyGoes ==
    ASSUME ShellIInv, NEW u \in Users, NEW step \in AtSteps \ {"off", "replacing", "creating"},
           at' = [at EXCEPT ![u] = step], HandlersOK',
           UNCHANGED <<tables, closer, shell, new, overlap>>,
           watch' = watch \/ (step = "asking" /\ watch' = watch \cup {u}),
           at[u] # "asking"
    PROVE  ShellIInv'
<1>1. at'[u] = step /\ \A v \in Users \ {u} : at'[v] = at[v]
  BY DEF ShellIInv, HandlersOK
<1>2. ShellsOK'
  BY <1>1 DEF ShellIInv, ShellsOK, tables
<1>3. OneByOne'
  BY <1>1 DEF ShellIInv, OneByOne, Makes, tables
<1>4. OneForwarder' /\ NobodyForwards' /\ NoStrayShell'
  BY <1>1 DEF ShellIInv, OneForwarder, NobodyForwards, NoStrayShell, Alive, tables
<1>5. WatchedIsForwarded'
  BY <1>1 DEF ShellIInv, HandlersOK, WatchedIsForwarded, Alive, tables
<1>6. QED
  BY <1>2, <1>3, <1>4, <1>5 DEF ShellIInv

LEMMA ConnectKeeps == ASSUME NEW u \in Users PROVE ShellIInv /\ Connect(u) => ShellIInv'
<1> SUFFICES ASSUME ShellIInv, Connect(u) PROVE ShellIInv'
  OBVIOUS
<1>1. "idle" \in AtSteps \ {"off", "replacing", "creating"}
  BY DEF AtSteps
<1>2. at[u] = "off" /\ at' = [at EXCEPT ![u] = "idle"] /\ watch' = watch
  BY DEF Connect, Goes
<1>3. HandlersOK'
  BY <1>1, <1>2, GoesOn DEF Connect, ShellIInv, HandlersOK
<1>4. QED
  BY <1>1, <1>2, <1>3, OnlyGoes DEF Connect

LEMMA AskKeeps == ASSUME NEW u \in Users PROVE ShellIInv /\ Ask(u) => ShellIInv'
<1> SUFFICES ASSUME ShellIInv, Ask(u) PROVE ShellIInv'
  OBVIOUS
<1>1. at[u] = "idle" /\ holder # u
  BY ShellAssumption DEF ShellAssumption, Ask, ShellIInv, HandlersOK, Busy
<1>2. PICK step \in {"asking", "waiting"} :
        /\ Goes(u, step)
        /\ watch' = watch \/ (step = "asking" /\ watch' = watch \cup {u})
  BY DEF Ask
<1>3. step \in AtSteps \ {"off", "replacing", "creating"}
  BY DEF AtSteps
<1>4. HandlersOK'
  BY <1>1, <1>2, <1>3, GoesOn DEF ShellIInv, HandlersOK
<1>5. at' = [at EXCEPT ![u] = step]
  BY <1>2 DEF Goes
<1>6. QED
  BY <1>1, <1>2, <1>3, <1>4, <1>5, OnlyGoes DEF Ask

LEMMA LockKeeps == ASSUME NEW u \in Users PROVE ShellIInv /\ LockTaken(u) => ShellIInv'
<1> SUFFICES ASSUME ShellIInv, LockTaken(u) PROVE ShellIInv'
  OBVIOUS
<1>1. PICK step \in {"asking", "executing"} : at' = [at EXCEPT ![u] = step]
  BY DEF LockTaken
<1>2. step \in AtSteps \ {"off", "replacing", "creating"} /\ step \in Busy
  BY DEF AtSteps, Busy
<1>3. at[u] = "waiting" /\ holder' = u /\ watch' = watch
  BY DEF LockTaken
<1>4. HandlersOK'
  BY <1>1, <1>2, <1>3, ShellAssumption DEF ShellAssumption, ShellIInv, HandlersOK
<1>5. QED
  BY <1>1, <1>2, <1>3, <1>4, OnlyGoes DEF LockTaken

LEMMA ExecKeeps == ASSUME NEW u \in Users PROVE ShellIInv /\ ExecDone(u) => ShellIInv'
<1> SUFFICES ASSUME ShellIInv, ExecDone(u) PROVE ShellIInv'
  OBVIOUS
<1>1. "idle" \in AtSteps \ {"off", "replacing", "creating"}
  BY DEF AtSteps
<1>2. at[u] = "executing" /\ at' = [at EXCEPT ![u] = "idle"] /\ watch' = watch
  BY DEF ExecDone, Goes
<1>3. HandlersOK'
  BY <1>1, <1>2, GoesOn DEF ExecDone, ShellIInv, HandlersOK
<1>4. QED
  BY <1>1, <1>2, <1>3, OnlyGoes DEF ExecDone

\* No shell is registered any more, or none was: one is created, or there is
\* no session any more.
LEMMA CreatesKeeps ==
    ASSUME ShellIInv, NEW u \in Users, at[u] \in {"asking", "replacing"}, Creates(u),
           UNCHANGED <<known, closer, watch>>, reg' \in {reg, None},
           \/ UNCHANGED <<fwd, reading>> /\ (~overlap => reg = None)
           \/ fwd' = None /\ reading' = {},
           ~overlap => reg' = None /\ ~Alive(reg)
    PROVE  ShellIInv'
<1>1. PICK step \in {"idle", "creating"} :
        /\ Goes(u, step)
        /\ step = "creating" =>
             overlap' = \/ overlap \/ closer # "no" \/ \E v \in Users \ {u} : Makes(v)
        /\ step = "idle" => UNCHANGED <<shell, new, overlap>>
  BY DEF Creates, Makes
<1>2. step \in AtSteps /\ step \in Busy \cup {"idle"} /\ step # "off"
  BY DEF AtSteps, Busy
<1>3. HandlersOK'
  BY <1>1, <1>2, GoesOn DEF ShellIInv, HandlersOK
<1>4. at'[u] = step /\ \A v \in Users \ {u} : at'[v] = at[v]
  BY <1>1 DEF Goes, ShellIInv, HandlersOK
<1>5. /\ shell' \in [Shells -> {"none", "starting", "alive", "dead"}]
      /\ \A i \in Shells : shell'[i] = shell[i] \/ shell'[i] = "starting"
      /\ new' \in [Users -> Shells \cup {None}]
      /\ step = "creating" => new'[u] \in Shells
      /\ \A v \in Users \ {u} : new'[v] = new[v]
  <2>1. CASE ~known
    <3>1. Goes(u, "idle") /\ UNCHANGED <<shell, new>>
      BY <2>1 DEF Creates
    <3>2. at'[u] = "idle"
      BY <3>1 DEF Goes, ShellIInv, HandlersOK
    <3>3. QED
      BY <1>4, <3>1, <3>2 DEF ShellIInv, ShellsOK
  <2>2. CASE known
    <3>1. PICK i \in Shells : /\ shell' = [shell EXCEPT ![i] = "starting"]
                              /\ new' = [new EXCEPT ![u] = i]
      BY <2>2 DEF Creates
    <3>2. QED
      BY <3>1 DEF ShellIInv, ShellsOK
  <2>3. QED
    BY <2>1, <2>2
<1>6. overlap' \in BOOLEAN /\ (overlap => overlap')
  <2>1. overlap \in BOOLEAN
    BY DEF ShellIInv, ShellsOK
  <2>2. CASE step = "idle"
    BY <1>1, <2>1, <2>2
  <2>3. CASE step = "creating"
    <3>1. overlap' = (overlap \/ closer # "no" \/ \E v \in Users \ {u} : Makes(v))
      BY <1>1, <2>3
    <3>2. QED
      BY <2>1, <3>1, Zenon
  <2>4. QED
    BY <2>2, <2>3
<1>7. ~overlap' /\ step = "creating" => \A v \in Users \ {u} : ~Makes(v)
  BY <1>1
<1>8. ShellsOK'
  BY <1>4, <1>5, <1>6 DEF ShellIInv, ShellsOK
<1>9. ~overlap => reading' = {}
  BY NoneIsNoShell DEF ShellIInv, OneByOne, ShellsOK
<1>10. OneByOne'
  <2>1. CASE step = "creating"
    BY <1>4, <1>6, <1>7, <1>9, <2>1 DEF OneByOne, Makes
  <2>2. CASE step = "idle"
    BY <1>4, <1>6, <1>9, <2>2 DEF ShellIInv, OneByOne, Makes
  <2>3. QED
    BY <2>1, <2>2
<1>11. OneForwarder' /\ NobodyForwards'
  BY <1>2, <1>4 DEF ShellIInv, OneForwarder, NobodyForwards
<1>12. NoStrayShell' /\ WatchedIsForwarded'
  BY <1>5, <1>6, NoneIsNoShell DEF ShellIInv, ShellsOK, NoStrayShell, WatchedIsForwarded, Alive
<1>13. QED
  BY <1>3, <1>8, <1>10, <1>11, <1>12 DEF ShellIInv

\* Where the registered shell lives, its output is forwarded from now on.
LEMMA TakesKeeps ==
    ASSUME ShellIInv, NEW u \in Users, Alive(reg), Forwards(reg), Served(u),
           at[u] = "asking", UNCHANGED <<known, closer, watch, shell, new, reg, overlap>>
    PROVE  ShellIInv'
<1>1. PICK step \in {"idle", "executing"} : Goes(u, step)
  BY DEF Served
<1>2. step \in AtSteps /\ step \in Busy \cup {"idle"} /\ step # "off"
  BY DEF AtSteps, Busy
<1>3. HandlersOK'
  BY <1>1, <1>2, GoesOn DEF ShellIInv, HandlersOK
<1>4. at'[u] = step /\ \A v \in Users \ {u} : at'[v] = at[v]
  BY <1>1 DEF Goes, ShellIInv, HandlersOK
<1>5. reg \in Shells
  BY DEF ShellIInv, ShellsOK, Alive
<1>6. /\ fwd' \in Shells \cup {None} /\ reading' \subseteq {fwd'} /\ reading' \subseteq Shells
      /\ ~overlap => reading' = {reg}
  BY <1>5 DEF Forwards, ShellIInv, ShellsOK, OneForwarder, OneByOne
<1>7. ShellsOK'
  BY <1>4, <1>6 DEF ShellIInv, ShellsOK
<1>8. OneByOne'
  BY <1>4, <1>6 DEF ShellIInv, OneByOne, Makes
<1>9. OneForwarder' /\ NobodyForwards' /\ NoStrayShell' /\ WatchedIsForwarded'
  BY <1>2, <1>4, <1>6
     DEF ShellIInv, OneForwarder, NobodyForwards, NoStrayShell, WatchedIsForwarded, Alive
<1>10. QED
  BY <1>3, <1>7, <1>8, <1>9 DEF ShellIInv

LEMMA AskedKeeps == ASSUME NEW u \in Users PROVE ShellIInv /\ AskedShell(u) => ShellIInv'
<1> SUFFICES ASSUME ShellIInv, AskedShell(u) PROVE ShellIInv'
  OBVIOUS
<1>1. at[u] = "asking" /\ GetShell(u) /\ UNCHANGED <<known, closer, watch>>
  BY DEF AskedShell
<1>2. CASE /\ Alive(reg) /\ Forwards(reg) /\ Served(u)
           /\ UNCHANGED <<shell, new, reg, overlap>>
  BY <1>1, <1>2, TakesKeeps
<1>3. CASE reg = None /\ Creates(u) /\ UNCHANGED <<reg, fwd, reading>>
  <2>1. ~Alive(reg)
    BY <1>3 DEF Alive
  <2>2. QED
    BY <1>1, <1>3, <2>1, CreatesKeeps
<1>4. CASE /\ reg # None /\ ~Alive(reg) /\ reg' = None /\ StopsForwarding
           /\ fwd \in reading /\ Goes(u, "replacing") /\ UNCHANGED <<shell, new, overlap>>
  <2>1. "replacing" \in AtSteps /\ "replacing" \in Busy
    BY DEF AtSteps, Busy
  <2>2. HandlersOK'
    BY <1>1, <1>4, <2>1, GoesOn DEF ShellIInv, HandlersOK
  <2>3. at'[u] = "replacing" /\ \A v \in Users \ {u} : at'[v] = at[v]
    BY <1>4 DEF Goes, ShellIInv, HandlersOK
  <2>4. fwd' = None /\ reading' = {}
    BY <1>4 DEF StopsForwarding, ShellIInv, OneForwarder
  <2>5. ShellsOK'
    BY <1>1, <1>4, <2>3, <2>4 DEF ShellIInv, ShellsOK
  <2>6. ~overlap => \A v \in Users : ~Makes(v)
    BY <1>4 DEF ShellIInv, OneByOne
  <2>7. OneByOne'
    BY <1>4, <2>3, <2>4, <2>6 DEF OneByOne, Makes
  <2>8. OneForwarder' /\ NobodyForwards' /\ NoStrayShell' /\ WatchedIsForwarded'
    BY <1>1, <1>4, <2>4
       DEF ShellIInv, OneForwarder, NobodyForwards, NoStrayShell, WatchedIsForwarded, Alive
  <2>9. QED
    BY <2>2, <2>5, <2>7, <2>8 DEF ShellIInv
<1>5. CASE reg # None /\ ~Alive(reg) /\ reg' = None /\ StopsForwarding /\ Creates(u)
  <2>1. fwd' = None /\ reading' = {}
    BY <1>5 DEF StopsForwarding, ShellIInv, OneForwarder
  <2>2. QED
    BY <1>1, <1>5, <2>1, CreatesKeeps
<1>6. QED
  BY <1>1, <1>2, <1>3, <1>4, <1>5 DEF GetShell

LEMMA ReplacedKeeps == ASSUME NEW u \in Users PROVE ShellIInv /\ Replaced(u) => ShellIInv'
<1> SUFFICES ASSUME ShellIInv, Replaced(u) PROVE ShellIInv'
  OBVIOUS
<1>1. at[u] = "replacing" /\ Creates(u) /\ UNCHANGED <<tables, closer, watch>>
  BY DEF Replaced
<1>2. ~overlap => reg = None /\ ~Alive(reg)
  BY <1>1 DEF ShellIInv, OneByOne, Makes, Alive
<1>3. QED
  BY <1>1, <1>2, CreatesKeeps DEF tables

\* The new shell is registered and forwarded.
LEMMA CreatedKeeps == ASSUME NEW u \in Users PROVE ShellIInv /\ Created(u) => ShellIInv'
<1> SUFFICES ASSUME ShellIInv, Created(u) PROVE ShellIInv'
  OBVIOUS
<1> DEFINE i == new[u]
<1>1. /\ at[u] = "creating" /\ shell' = [shell EXCEPT ![i] = "alive"] /\ reg' = i
      /\ Forwards(i) /\ Served(u) /\ new' = [new EXCEPT ![u] = None]
      /\ UNCHANGED <<known, closer, watch, overlap>>
  BY DEF Created
<1>2. i \in Shells
  BY <1>1 DEF ShellIInv, ShellsOK
<1>3. PICK step \in {"idle", "executing"} : Goes(u, step)
  BY <1>1 DEF Served
<1>4. step \in AtSteps /\ step \in Busy \cup {"idle"} /\ step # "off"
  BY DEF AtSteps, Busy
<1>5. HandlersOK'
  BY <1>1, <1>3, <1>4, GoesOn DEF ShellIInv, HandlersOK
<1>6. at'[u] = step /\ \A v \in Users \ {u} : at'[v] = at[v]
  BY <1>3 DEF Goes, ShellIInv, HandlersOK
<1>7. /\ fwd' \in Shells \cup {None} /\ reading' \subseteq {fwd'} /\ reading' \subseteq Shells
  BY <1>1, <1>2 DEF Forwards, ShellIInv, ShellsOK, OneForwarder
<1>8. ~overlap => /\ reg = None /\ reading = {} /\ \A v \in Users \ {u} : ~Makes(v)
  BY <1>1, NoneIsNoShell DEF ShellIInv, ShellsOK, OneByOne, Makes
<1>9. ~overlap => reading' = {i}
  BY <1>1, <1>8 DEF Forwards
<1>10. ShellsOK'
  BY <1>1, <1>2, <1>6, <1>7 DEF ShellIInv, ShellsOK
<1>11. OneByOne'
  BY <1>1, <1>6, <1>8, <1>9 DEF OneByOne, Makes
<1>12. OneForwarder' /\ NobodyForwards'
  BY <1>4, <1>6, <1>7 DEF OneForwarder, NobodyForwards
<1>13. NoStrayShell'
  BY <1>1, <1>2, <1>8, NoneIsNoShell DEF ShellIInv, ShellsOK, NoStrayShell, Alive
<1>14. WatchedIsForwarded'
  BY <1>1, <1>9 DEF WatchedIsForwarded
<1>15. QED
  BY <1>5, <1>10, <1>11, <1>12, <1>13, <1>14 DEF ShellIInv

LEMMA FailsKeeps == ASSUME NEW u \in Users PROVE ShellIInv /\ CreateFails(u) => ShellIInv'
<1> SUFFICES ASSUME ShellIInv, CreateFails(u) PROVE ShellIInv'
  OBVIOUS
<1>1. /\ at[u] = "creating" /\ Goes(u, "idle") /\ new' = [new EXCEPT ![u] = None]
      /\ shell' = [shell EXCEPT ![new[u]] = "dead"]
      /\ UNCHANGED <<tables, closer, watch, overlap>>
  BY DEF CreateFails
<1>2. "idle" \in AtSteps
  BY DEF AtSteps
<1>3. HandlersOK'
  BY <1>1, <1>2, GoesOn DEF ShellIInv, HandlersOK
<1>4. at'[u] = "idle" /\ \A v \in Users \ {u} : at'[v] = at[v]
  BY <1>1 DEF Goes, ShellIInv, HandlersOK
<1>5. ShellsOK'
  BY <1>1, <1>4 DEF ShellIInv, ShellsOK, tables
<1>6. OneByOne'
  BY <1>1, <1>4 DEF ShellIInv, OneByOne, Makes, tables
<1>7. OneForwarder' /\ NobodyForwards'
  BY <1>1, <1>4 DEF ShellIInv, OneForwarder, NobodyForwards, tables
<1>8. NoStrayShell'
  BY <1>1 DEF ShellIInv, ShellsOK, NoStrayShell, Alive, tables
<1>9. WatchedIsForwarded'
  <2>1. Alive(reg)' => Alive(reg)
    BY <1>1 DEF Alive, ShellIInv, ShellsOK, tables
  <2>2. \A v \in Users : at[v] = "asking" => at'[v] = "asking"
    BY <1>1, <1>4
  <2>3. QED
    BY <1>1, <2>1, <2>2 DEF ShellIInv, HandlersOK, WatchedIsForwarded, tables
<1>10. QED
  BY <1>3, <1>5, <1>6, <1>7, <1>8, <1>9 DEF ShellIInv

\* The last who unsubscribes stops the forwarding.
LEMMA UnsubscribeKeeps == ASSUME NEW u \in Users PROVE ShellIInv /\ Unsubscribe(u) => ShellIInv'
<1> SUFFICES ASSUME ShellIInv, Unsubscribe(u) PROVE ShellIInv'
  OBVIOUS
<1>1. PICK step \in {"idle", "off"} : Goes(u, step)
  BY DEF Unsubscribe
<1>2. /\ at[u] = "idle" /\ watch' = watch \ {u}
      /\ UNCHANGED <<known, reg, closer, shell, new, overlap>>
  BY DEF Unsubscribe
<1>3. holder # u /\ step \in AtSteps
  BY <1>2, ShellAssumption DEF ShellAssumption, ShellIInv, HandlersOK, Busy, AtSteps
<1>4. HandlersOK'
  BY <1>1, <1>2, <1>3, GoesOn DEF ShellIInv, HandlersOK
<1>5. at'[u] = step /\ \A v \in Users \ {u} : at'[v] = at[v]
  BY <1>1 DEF Goes, ShellIInv, HandlersOK
<1>6. \/ watch' # {} /\ UNCHANGED <<fwd, reading>>
      \/ watch' = {} /\ fwd' = None /\ reading' = {}
  BY DEF Unsubscribe, StopsForwarding, ShellIInv, OneForwarder
<1>7. ShellsOK'
  BY <1>2, <1>5, <1>6 DEF ShellIInv, ShellsOK
<1>8. OneByOne'
  BY <1>2, <1>5, <1>6 DEF ShellIInv, OneByOne, Makes
<1>9. OneForwarder' /\ NoStrayShell'
  BY <1>2, <1>6 DEF ShellIInv, OneForwarder, NoStrayShell, Alive
<1>10. NobodyForwards'
  BY <1>4, <1>6 DEF HandlersOK, NobodyForwards
<1>11. WatchedIsForwarded'
  <2>1. Alive(reg)' = Alive(reg)
    BY <1>2 DEF Alive
  <2>2. \A v \in watch : at[v] = "asking" => v \in watch' /\ at'[v] = "asking"
    BY <1>2, <1>5 DEF ShellIInv, HandlersOK
  <2>3. QED
    BY <1>2, <1>6, <2>1, <2>2 DEF ShellIInv, WatchedIsForwarded
<1>12. QED
  BY <1>4, <1>7, <1>8, <1>9, <1>10, <1>11 DEF ShellIInv

LEMMA DiesKeeps == ShellIInv /\ ShellDies => ShellIInv'
<1> SUFFICES ASSUME ShellIInv, ShellDies PROVE ShellIInv'
  OBVIOUS
<1>1. PICK i \in Shells : shell' = [shell EXCEPT ![i] = "dead"]
  BY DEF ShellDies
<1>2. UNCHANGED <<tables, closer, watch, at, new, holder, overlap>>
  BY DEF ShellDies
<1>3. HandlersOK' /\ ShellsOK'
  BY <1>1, <1>2 DEF ShellIInv, HandlersOK, ShellsOK, tables
<1>4. OneByOne' /\ OneForwarder' /\ NobodyForwards'
  BY <1>2 DEF ShellIInv, OneByOne, Makes, OneForwarder, NobodyForwards, tables
<1>5. \A j \in Shells : Alive(j)' => Alive(j)
  BY <1>1 DEF Alive, ShellIInv, ShellsOK
<1>6. NoStrayShell' /\ WatchedIsForwarded'
  BY <1>2, <1>5 DEF ShellIInv, ShellsOK, NoStrayShell, WatchedIsForwarded, Alive, tables
<1>7. QED
  BY <1>3, <1>4, <1>6 DEF ShellIInv

\* The forwarding ends by itself only when its shell is over or nobody watches.
LEMMA EndsKeeps == ShellIInv /\ ForwardEnds => ShellIInv'
<1> SUFFICES ASSUME ShellIInv, ForwardEnds PROVE ShellIInv'
  OBVIOUS
<1>1. PICK i \in reading : (~Alive(i) \/ watch = {}) /\ reading' = reading \ {i}
  BY DEF ForwardEnds
<1>2. UNCHANGED <<known, reg, fwd, closer, shell, watch, at, new, holder, overlap>>
  BY DEF ForwardEnds
<1>3. HandlersOK' /\ ShellsOK'
  BY <1>1, <1>2 DEF ShellIInv, HandlersOK, ShellsOK
<1>4. OneByOne' /\ OneForwarder' /\ NobodyForwards' /\ NoStrayShell'
  BY <1>1, <1>2
     DEF ShellIInv, OneByOne, Makes, OneForwarder, NobodyForwards, NoStrayShell, Alive
<1>5. WatchedIsForwarded'
  BY <1>1, <1>2 DEF ShellIInv, WatchedIsForwarded, Alive
<1>6. QED
  BY <1>3, <1>4, <1>5 DEF ShellIInv

\* A connection may go while its handler asks for a shell: there is forwarding.
LEMMA DropsKeeps == ShellIInv /\ ForwardDrops => ShellIInv'
<1> SUFFICES ASSUME ShellIInv, ForwardDrops PROVE ShellIInv'
  OBVIOUS
<1>1. PICK u \in watch : watch' = watch \ {u}
  BY DEF ForwardDrops
<1>2. reading # {} /\ UNCHANGED <<tables, closer, shell, at, new, holder, overlap>>
  BY DEF ForwardDrops
<1>3. HandlersOK' /\ ShellsOK'
  BY <1>1, <1>2 DEF ShellIInv, HandlersOK, ShellsOK, tables
<1>4. OneByOne' /\ OneForwarder' /\ NobodyForwards' /\ NoStrayShell'
  BY <1>2 DEF ShellIInv, OneByOne, Makes, OneForwarder, NobodyForwards, NoStrayShell,
              Alive, tables
<1>5. WatchedIsForwarded'
  BY <1>2 DEF ShellIInv, OneByOne, WatchedIsForwarded, tables
<1>6. QED
  BY <1>3, <1>4, <1>5 DEF ShellIInv

LEMMA CloseKeeps == ShellIInv /\ CloseSession => ShellIInv'
<1> SUFFICES ASSUME ShellIInv, CloseSession PROVE ShellIInv'
  OBVIOUS
<1>1. Close /\ UNCHANGED <<at, new, holder, overlap>>
  BY DEF CloseSession
<1>2. /\ closer' \in {"closing", "bye", "done"} /\ known' \in {known, FALSE}
      /\ watch' \in {watch, {}}
  BY <1>1 DEF Close, tables
<1>3. \/ UNCHANGED <<reg, fwd, reading, shell>>
      \/ /\ fwd' = None /\ reading' = {} /\ reg' = None
         /\ shell' = [i \in Shells |-> IF i = reg THEN "dead" ELSE shell[i]]
  BY <1>1 DEF Close, StopsForwarding, tables, ShellIInv, OneForwarder
<1>4. HandlersOK'
  BY <1>1, <1>2 DEF ShellIInv, HandlersOK
<1>5. ShellsOK'
  <2>1. known' \in BOOLEAN
    BY <1>2 DEF ShellIInv, ShellsOK
  <2>2. QED
    BY <1>1, <1>2, <1>3, <2>1 DEF ShellIInv, ShellsOK
<1>6. OneByOne' /\ OneForwarder' /\ NobodyForwards'
  BY <1>1, <1>3 DEF ShellIInv, OneByOne, Makes, OneForwarder, NobodyForwards
<1>7. NoStrayShell'
  BY <1>1, <1>3 DEF ShellIInv, ShellsOK, NoStrayShell, Alive
<1>8. WatchedIsForwarded'
  BY <1>2 DEF WatchedIsForwarded
<1>9. QED
  BY <1>4, <1>5, <1>6, <1>7, <1>8 DEF ShellIInv

LEMMA ShellInvariance == ShellSpec => []ShellIInv
<1>1. ShellIInv /\ [ShellNext]_shellVars => ShellIInv'
  <2>1. ShellIInv /\ UNCHANGED shellVars => ShellIInv'
    BY DEF ShellIInv, HandlersOK, ShellsOK, OneByOne, Makes, OneForwarder, NobodyForwards,
           NoStrayShell, WatchedIsForwarded, Alive, shellVars, tables
  <2>2. QED
    BY <2>1, ConnectKeeps, AskKeeps, AskedKeeps, ReplacedKeeps, CreatedKeeps, FailsKeeps,
       LockKeeps, ExecKeeps, UnsubscribeKeeps, DiesKeeps, EndsKeeps, DropsKeeps, CloseKeeps
       DEF ShellNext
<1>2. QED
  BY <1>1, InitShells, PTL DEF ShellSpec

\* One forwarder, for those who watch, of the one shell there is
\* (subscribe_output to close_session, debug_service.py).
THEOREM ShellsServe == ShellSpec => []ShellInv
<1>1. ShellIInv => ShellInv
  BY DEF ShellIInv, HandlersOK, AtSteps, Busy, ShellsOK, ShellInv, ShellTypeOK
<1>2. QED
  BY <1>1, ShellInvariance, PTL

-----------------------------------------------------------------------------
(***************************************************************************)
(* An answer is a command's own, for any number of commands and any length *)
(* of output. Who is under way holds the lock (OneHolder); what the device *)
(* has still to execute or has said is of commands begun and not ended     *)
(* (UnderWay); behind a marker nothing of its command follows              *)
(* (MarksAreLast); a line that has not reached the device was not heard of *)
(* (TypedIsUnheard), and its repetition is the first that is heard of its  *)
(* command (EchoIsFirst), which is why a command ended by it has answered  *)
(* nothing of its own.                                                     *)
(***************************************************************************)

InterTypes ==
    /\ state \in [Cmds -> {"new", "drain", "wait", "done", "cut", "left", "failed"}]
    /\ owner \in Cmds \cup {NoCmd} /\ typed \in Seq(Cmds) /\ inbox \in Seq(Cmds) /\ texts \in 0 .. MaxText
    /\ pipe \in Seq(Chunks) /\ execQ \in Seq(Chunks)
    /\ got \in [Cmds -> SUBSET Cmds] /\ late \subseteq Cmds
    /\ reader \in {"runs", "ended", "cancelled"}

InterFlags == executing \in BOOLEAN /\ alive \in BOOLEAN /\ reaped \in BOOLEAN

Active(c) == state[c] \in {"drain", "wait"}

\* The command under way has the lock.
OneHolder ==
    /\ \A c \in Cmds : Active(c) => owner = c
    /\ owner # NoCmd => Active(owner)

\* What the device has yet to get or to execute, and what it has said that was not read,
\* is of commands that were begun and have not ended by their marker.
UnderWay ==
    /\ \A i \in 1 .. Len(typed) : state[typed[i]] \notin {"new", "done", "cut"}
    /\ \A i \in 1 .. Len(inbox) : state[inbox[i]] \notin {"new", "done"}
    /\ \A i \in 1 .. Len(pipe) :
         /\ pipe[i].of \in Cmds /\ pipe[i].what # "end"
         /\ state[pipe[i].of] \notin {"new", "done"}

\* A command is executed once, and its marker is the last the device says of it.
MarksAreLast ==
    /\ \A i, j \in 1 .. Len(inbox) : inbox[i] = inbox[j] => i = j
    /\ \A i \in 1 .. Len(pipe) : pipe[i].what = "mark" =>
         /\ \A j \in 1 .. Len(inbox) : inbox[j] # pipe[i].of
         /\ \A j \in 1 .. Len(pipe) : j > i => pipe[j].of # pipe[i].of
    /\ \A i \in 1 .. Len(execQ) : execQ[i].what = "mark" =>
         /\ \A j \in 1 .. Len(inbox) : inbox[j] # execQ[i].of
         /\ \A j \in 1 .. Len(pipe) : pipe[j].of # execQ[i].of

\* What was read since the lock was taken is of its holder, or of commands that
\* were given up or failed before.
ReadIsOwn ==
    owner # NoCmd => \A i \in 1 .. Len(execQ) :
        \/ execQ[i] = EndMark
        \/ execQ[i].of \in Cmds /\ (execQ[i].of = owner \/ state[execQ[i].of] \in {"cut", "left", "failed"})

\* Of a line that has not reached the device nothing was heard.
TypedIsUnheard ==
    /\ \A i, j \in 1 .. Len(typed) : typed[i] = typed[j] => i = j
    /\ \A i \in 1 .. Len(typed) :
         /\ typed[i] \notin got[typed[i]]
         /\ \A j \in 1 .. Len(inbox) : inbox[j] # typed[i]
         /\ \A j \in 1 .. Len(pipe) : pipe[j].of # typed[i]
         /\ \A j \in 1 .. Len(execQ) : execQ[j].of # typed[i]

\* The repeated line is the first that is heard of its command.
EchoIsFirst ==
    /\ \A i \in 1 .. Len(pipe) : pipe[i].what = "echo" =>
         /\ pipe[i].of \notin got[pipe[i].of]
         /\ \A j \in 1 .. Len(pipe) : j < i => pipe[j].of # pipe[i].of
         /\ \A j \in 1 .. Len(execQ) : execQ[j].of # pipe[i].of
    /\ \A i \in 1 .. Len(execQ) : execQ[i].what = "echo" =>
         /\ execQ[i].of \notin got[execQ[i].of]
         /\ \A j \in 1 .. Len(execQ) : j < i => execQ[j].of # execQ[i].of

NewSaysNothing == \A c \in Cmds : state[c] = "new" => c \notin got[c]

EchoIInv == TypedIsUnheard /\ EchoIsFirst /\ NewSaysNothing /\ CutSaysNothing

InterIInv == /\ InterTypes /\ InterFlags /\ OneHolder /\ UnderWay /\ MarksAreLast /\ ReadIsOwn
             /\ OwnOutput /\ TerminalIsFed /\ EndIsSeen /\ EchoIInv

LEMMA NoCmdIsNone == NoCmd \notin Cmds /\ MaxText \in Nat
BY InteractiveAssumption DEF InteractiveAssumption

LEMMA InitInter == InterInit => InterIInv
<1> SUFFICES ASSUME InterInit PROVE InterIInv
  OBVIOUS
<1> USE NoCmdIsNone DEF InterInit
<1>1. InterTypes
  BY DEF InterTypes
<1>2. InterFlags
  BY DEF InterFlags
<1>3. OneHolder /\ UnderWay /\ MarksAreLast /\ ReadIsOwn
  BY DEF OneHolder, Active, UnderWay, MarksAreLast, ReadIsOwn
<1>4. OwnOutput /\ TerminalIsFed /\ EndIsSeen
  BY DEF OwnOutput, TerminalIsFed, EndIsSeen
<1>5. EchoIInv
  BY DEF EchoIInv, TypedIsUnheard, EchoIsFirst, NewSaysNothing, CutSaysNothing
<1>6. QED
  BY <1>1, <1>2, <1>3, <1>4, <1>5 DEF InterIInv

-----------------------------------------------------------------------------
(* Commands *)

LEMMA BeginKeeps == ASSUME NEW c \in Cmds PROVE InterIInv /\ Begin(c) => InterIInv'
<1> SUFFICES ASSUME InterIInv, Begin(c) PROVE InterIInv'
  OBVIOUS
<1> USE NoCmdIsNone DEF InterIInv
<1>1. /\ state[c] = "new" /\ owner = NoCmd /\ execQ' = <<>> /\ executing' = TRUE /\ owner' = c
      /\ state' = [state EXCEPT ![c] = "drain"]
      /\ typed' = IF alive THEN Append(typed, c) ELSE typed
      /\ late' = IF reader = "runs" THEN late ELSE late \cup {c}
      /\ UNCHANGED <<inbox, texts, pipe, alive, reaped, got, reader>>
  BY DEF Begin
<1>2. /\ state'[c] = "drain" /\ \A d \in Cmds : d # c => state'[d] = state[d]
      /\ \A d \in Cmds : ~Active(d)
  BY <1>1 DEF InterTypes, OneHolder
<1>3. /\ typed' \in Seq(Cmds)
      /\ \A i \in 1 .. Len(typed') : typed'[i] = c \/ (i \in 1 .. Len(typed) /\ typed'[i] = typed[i])
      /\ \A i \in 1 .. Len(typed') : i \in 1 .. Len(typed) \/ i = Len(typed) + 1
      /\ \A i \in 1 .. Len(typed) : typed'[i] = typed[i] /\ typed[i] # c /\ typed[i] \in Cmds
  BY <1>1 DEF InterTypes, UnderWay
<1>4. InterTypes' /\ InterFlags'
  BY <1>1, <1>3 DEF InterTypes, InterFlags
<1>5. OneHolder'
  BY <1>1, <1>2 DEF OneHolder, Active
<1>6. /\ \A i \in 1 .. Len(pipe) : pipe[i].of \in Cmds /\ pipe[i].of # c
      /\ \A i \in 1 .. Len(inbox) : inbox[i] \in Cmds /\ inbox[i] # c
  BY <1>1 DEF InterTypes, UnderWay
<1>7. UnderWay'
  <2>1. \A i \in 1 .. Len(typed') : state'[typed'[i]] \notin {"new", "done", "cut"}
    BY <1>2, <1>3 DEF UnderWay
  <2>2. QED
    BY <1>1, <1>2, <1>6, <2>1 DEF UnderWay
<1>8. Len(execQ') = 0
  BY <1>1
<1>9. MarksAreLast'
  BY <1>1, <1>8 DEF MarksAreLast
<1>10. ReadIsOwn' /\ TerminalIsFed'
  BY <1>1 DEF ReadIsOwn, TerminalIsFed
<1>11. OwnOutput'
  BY <1>1, <1>2 DEF OwnOutput, InterTypes
<1>12. EndIsSeen'
  BY <1>1, <1>2 DEF EndIsSeen, Active, InterTypes
<1>13. EchoIInv'
  <2>1. \A i, j \in 1 .. Len(typed') : typed'[i] = typed'[j] => i = j
    BY <1>3 DEF EchoIInv, TypedIsUnheard
  <2>2. c \notin got[c]
    BY <1>1 DEF EchoIInv, NewSaysNothing
  <2>3. TypedIsUnheard'
    BY <1>1, <1>3, <1>6, <1>8, <2>1, <2>2 DEF EchoIInv, TypedIsUnheard
  <2>4. EchoIsFirst'
    BY <1>1, <1>8 DEF EchoIInv, EchoIsFirst
  <2>5. NewSaysNothing' /\ CutSaysNothing'
    BY <1>1, <1>2 DEF EchoIInv, NewSaysNothing, CutSaysNothing
  <2>6. QED
    BY <2>3, <2>4, <2>5 DEF EchoIInv
<1>14. QED
  BY <1>4, <1>5, <1>7, <1>9, <1>10, <1>11, <1>12, <1>13

\* A command that ends leaves the rest of its output to nobody, or is known as
\* given up or failed.
LEMMA ReaderEndKeeps ==
    ASSUME InterIInv, NEW c \in Cmds, NEW how \in {"done", "cut", "left", "failed"},
           state[c] \in {"new", "drain", "wait"},
           state' = [state EXCEPT ![c] = how], InterFlags',
           \/ owner = c /\ owner' = NoCmd /\ (executing' = FALSE \/ ~alive)
           \/ UNCHANGED <<owner, executing>> /\ ~Active(c),
           UNCHANGED <<typed, inbox, texts, pipe, got, reader, alive, late>>,
           \/ UNCHANGED execQ
           \/ execQ # <<>> /\ execQ' = Tail(execQ) /\ owner' = NoCmd,
           how = "done" => /\ \A i \in 1 .. Len(inbox) : inbox[i] # c
                           /\ \A i \in 1 .. Len(pipe) : pipe[i].of # c,
           how \in {"done", "cut"} => /\ \A i \in 1 .. Len(typed) : typed[i] # c,
           how = "cut" => c \notin got[c]
    PROVE  InterIInv'
<1> USE NoCmdIsNone DEF InterIInv
<1>1. state'[c] = how /\ \A d \in Cmds : d # c => state'[d] = state[d]
  BY DEF InterTypes
\* what is left of the queue stands where it stood, or one place further on
<1>2. PICK n \in {0, 1} :
        /\ execQ' \in Seq(Chunks)
        /\ \A i \in 1 .. Len(execQ') : i + n \in 1 .. Len(execQ) /\ execQ'[i] = execQ[i + n]
  <2>1. CASE UNCHANGED execQ
    <3>1. /\ execQ' \in Seq(Chunks)
          /\ \A i \in 1 .. Len(execQ') : i + 0 \in 1 .. Len(execQ) /\ execQ'[i] = execQ[i + 0]
      BY <2>1 DEF InterTypes
    <3>2. QED
      BY <3>1
  <2>2. CASE execQ # <<>> /\ execQ' = Tail(execQ)
    <3>1. /\ execQ' \in Seq(Chunks) /\ Len(execQ') = Len(execQ) - 1 /\ Len(execQ) \in Nat
          /\ \A i \in 1 .. Len(execQ) - 1 : execQ'[i] = execQ[i + 1]
      BY <2>2 DEF InterTypes
    <3>2. \A i \in 1 .. Len(execQ') : i + 1 \in 1 .. Len(execQ) /\ execQ'[i] = execQ[i + 1]
      BY <3>1
    <3>3. QED
      BY <3>1, <3>2
  <2>3. QED
    BY <2>1, <2>2
<1>3. InterTypes'
  BY <1>2 DEF InterTypes
<1>4. OneHolder'
  BY <1>1 DEF OneHolder, Active, InterTypes
<1>5. UnderWay'
  BY <1>1 DEF UnderWay, InterTypes
<1>6. MarksAreLast'
  <2>1. \A i \in 1 .. Len(execQ') : execQ'[i].what = "mark" =>
          /\ \A j \in 1 .. Len(inbox) : inbox[j] # execQ'[i].of
          /\ \A j \in 1 .. Len(pipe) : pipe[j].of # execQ'[i].of
    BY <1>2 DEF MarksAreLast
  <2>2. QED
    BY <2>1 DEF MarksAreLast
<1>7. ReadIsOwn'
  BY <1>1 DEF ReadIsOwn, OneHolder
<1>8. OwnOutput'
  BY <1>1 DEF OwnOutput, InterTypes
<1>9. TerminalIsFed'
  BY DEF TerminalIsFed
<1>10. EndIsSeen'
  BY <1>1 DEF EndIsSeen, OneHolder, Active, InterTypes
<1>11. EchoIInv'
  <2> USE DEF EchoIInv
  <2>1. TypedIsUnheard'
    <3>1. ASSUME NEW i \in 1 .. Len(typed), NEW j \in 1 .. Len(execQ')
          PROVE  execQ'[j].of # typed[i]
      <4>1. j + n \in 1 .. Len(execQ) /\ execQ'[j] = execQ[j + n]
        BY <1>2
      <4>2. QED
        BY <4>1 DEF TypedIsUnheard
    <3>2. QED
      BY <3>1 DEF TypedIsUnheard
  <2>2. ASSUME NEW i \in 1 .. Len(execQ'), execQ'[i].what = "echo"
        PROVE  /\ execQ'[i].of \notin got[execQ'[i].of]
               /\ \A j \in 1 .. Len(execQ') : j < i => execQ'[j].of # execQ'[i].of
    <3>1. i + n \in 1 .. Len(execQ) /\ execQ'[i] = execQ[i + n]
      BY <1>2
    <3>2. ASSUME NEW j \in 1 .. Len(execQ'), j < i PROVE execQ'[j].of # execQ'[i].of
      <4>1. j + n \in 1 .. Len(execQ) /\ execQ'[j] = execQ[j + n] /\ j + n < i + n
        BY <1>2, <3>2
      <4>2. QED
        BY <2>2, <3>1, <4>1 DEF EchoIsFirst
    <3>3. QED
      BY <2>2, <3>1, <3>2 DEF EchoIsFirst
  <2>3. ASSUME NEW i \in 1 .. Len(pipe), pipe[i].what = "echo"
        PROVE  \A j \in 1 .. Len(execQ') : execQ'[j].of # pipe[i].of
    <3>1. TAKE j \in 1 .. Len(execQ')
    <3>2. j + n \in 1 .. Len(execQ) /\ execQ'[j] = execQ[j + n]
      BY <1>2
    <3>3. QED
      BY <2>3, <3>2 DEF EchoIsFirst
  <2>4. EchoIsFirst'
    BY <2>2, <2>3 DEF EchoIsFirst
  <2>5. NewSaysNothing' /\ CutSaysNothing'
    BY <1>1 DEF NewSaysNothing, CutSaysNothing
  <2>6. QED
    BY <2>1, <2>4, <2>5
<1>12. QED
  BY <1>3, <1>4, <1>5, <1>6, <1>7, <1>8, <1>9, <1>10, <1>11

LEMMA RefusedKeeps == ASSUME NEW c \in Cmds PROVE InterIInv /\ Refused(c) => InterIInv'
<1> SUFFICES ASSUME InterIInv, Refused(c) PROVE InterIInv'
  OBVIOUS
<1>1. InterFlags' /\ ~Active(c)
  BY DEF Refused, procVars, InterIInv, InterFlags, Active
<1>2. QED
  BY <1>1, ReaderEndKeeps DEF Refused, procVars, routing

LEMMA DrainedKeeps == ASSUME NEW c \in Cmds PROVE InterIInv /\ Drained(c) => InterIInv'
<1> SUFFICES ASSUME InterIInv, Drained(c) PROVE InterIInv'
  OBVIOUS
<1>1. /\ state[c] = "drain" /\ owner = c
      /\ UNCHANGED <<executing, typed, inbox, texts, pipe, alive, reaped, execQ, got, reader, late>>
  BY DEF Drained, procVars, routing, InterIInv, OneHolder, Active
<1>2. InterFlags'
  BY <1>1 DEF InterIInv, InterFlags
<1>3. CASE state' = [state EXCEPT ![c] = "wait"] /\ UNCHANGED owner
  <2> USE NoCmdIsNone DEF InterIInv
  <2>1. state'[c] = "wait" /\ \A d \in Cmds : d # c => state'[d] = state[d]
    BY <1>3 DEF InterTypes
  <2>2. InterTypes' /\ OneHolder'
    BY <1>1, <1>3, <2>1 DEF InterTypes, OneHolder, Active
  <2>3. UnderWay' /\ MarksAreLast'
    BY <1>1, <1>3, <2>1 DEF UnderWay, MarksAreLast, InterTypes
  <2>4. ReadIsOwn' /\ OwnOutput'
    BY <1>1, <1>3, <2>1 DEF ReadIsOwn, OwnOutput, InterTypes
  <2>5. TerminalIsFed' /\ EndIsSeen'
    BY <1>1, <1>3, <2>1 DEF TerminalIsFed, EndIsSeen
  <2>6. EchoIInv'
    BY <1>1, <1>3, <2>1 DEF EchoIInv, TypedIsUnheard, EchoIsFirst, NewSaysNothing, CutSaysNothing
  <2>7. QED
    BY <1>2, <2>2, <2>3, <2>4, <2>5, <2>6
<1>4. CASE ~alive /\ owner' = NoCmd /\ state' = [state EXCEPT ![c] = "failed"]
  BY <1>1, <1>2, <1>4, ReaderEndKeeps
<1>5. QED
  BY <1>3, <1>4 DEF Drained

LEMMA TakeKeeps == ASSUME NEW c \in Cmds PROVE InterIInv /\ Take(c) => InterIInv'
<1> SUFFICES ASSUME InterIInv, Take(c) PROVE InterIInv'
  OBVIOUS
<1> USE NoCmdIsNone DEF InterIInv
<1> DEFINE chunk == Head(execQ)
<1>1. /\ state[c] = "wait" /\ execQ # <<>> /\ execQ' = Tail(execQ) /\ owner = c
      /\ UNCHANGED <<typed, inbox, texts, pipe, alive, reaped, reader, late>>
  BY DEF Take, procVars, OneHolder, Active
<1>2. chunk = execQ[1] /\ 1 \in 1 .. Len(execQ) /\ chunk \in Chunks
  BY <1>1 DEF InterTypes
<1>3. \/ EndedBy(c, chunk) # "goes on" /\ Ends(c, EndedBy(c, chunk)) /\ UNCHANGED got
      \/ /\ EndedBy(c, chunk) = "goes on" /\ got' = [got EXCEPT ![c] = @ \cup {chunk.of}]
         /\ UNCHANGED <<state, owner, executing>>
  BY DEF Take
<1> HIDE DEF chunk
<1>4. CASE chunk = EndMark
  <2>1. Ends(c, "failed") /\ UNCHANGED got
    BY <1>3, <1>4 DEF EndedBy
  <2>2. InterFlags'
    BY <1>1, <2>1 DEF Ends, InterFlags
  <2>3. QED
    BY <1>1, <2>1, <2>2, ReaderEndKeeps DEF Ends
<1>5. CASE chunk # EndMark /\ chunk = [of |-> c, what |-> "mark"]
  <2>1. Ends(c, "done") /\ UNCHANGED got
    BY <1>3, <1>5 DEF EndedBy
  <2>2. InterFlags'
    BY <1>1, <2>1 DEF Ends, InterFlags
  <2>3. execQ[1].what = "mark" /\ execQ[1].of = c
    BY <1>2, <1>5
  <2>4. /\ \A i \in 1 .. Len(inbox) : inbox[i] # c
        /\ \A i \in 1 .. Len(pipe) : pipe[i].of # c
    BY <1>2, <2>3 DEF MarksAreLast
  <2>5. \A i \in 1 .. Len(typed) : typed[i] # c
    BY <1>2, <2>3 DEF EchoIInv, TypedIsUnheard
  <2>6. QED
    BY <1>1, <2>1, <2>2, <2>4, <2>5, ReaderEndKeeps DEF Ends
<1>6. CASE chunk # EndMark /\ chunk = [of |-> c, what |-> "echo"]
  <2>1. Ends(c, "cut") /\ UNCHANGED got
    <3>1. chunk # [of |-> c, what |-> "mark"]
      BY <1>6
    <3>2. QED
      BY <1>3, <1>6, <3>1 DEF EndedBy
  <2>2. InterFlags'
    BY <1>1, <2>1 DEF Ends, InterFlags
  <2>3. execQ[1].what = "echo" /\ execQ[1].of = c
    BY <1>2, <1>6
  <2>4. c \notin got[c]
    BY <1>2, <2>3 DEF EchoIInv, EchoIsFirst
  <2>5. \A i \in 1 .. Len(typed) : typed[i] # c
    BY <1>2, <2>3 DEF EchoIInv, TypedIsUnheard
  <2>6. QED
    BY <1>1, <2>1, <2>2, <2>4, <2>5, ReaderEndKeeps DEF Ends
<1>7. CASE /\ chunk # EndMark /\ chunk # [of |-> c, what |-> "mark"]
           /\ chunk # [of |-> c, what |-> "echo"]
  <2>0. /\ got' = [got EXCEPT ![c] = @ \cup {chunk.of}]
        /\ UNCHANGED <<state, owner, executing>>
    BY <1>3, <1>7 DEF EndedBy
  <2>1. chunk.of \in Cmds /\ (chunk.of = c \/ state[chunk.of] \in {"cut", "left", "failed"})
    BY <1>1, <1>2, <1>7 DEF ReadIsOwn
  <2>2. /\ execQ' \in Seq(Chunks) /\ Len(execQ') = Len(execQ) - 1 /\ Len(execQ) \in Nat
        /\ \A i \in 1 .. Len(execQ) - 1 : execQ'[i] = execQ[i + 1]
    BY <1>1 DEF InterTypes
  <2>3. \A i \in 1 .. Len(execQ') : i + 1 \in 1 .. Len(execQ) /\ execQ'[i] = execQ[i + 1]
    BY <2>2
  <2>4. InterTypes' /\ InterFlags'
    BY <1>1, <1>7, <2>0, <2>1, <2>2 DEF InterTypes, InterFlags
  <2>5. OneHolder' /\ UnderWay' /\ TerminalIsFed'
    BY <1>1, <1>7, <2>0 DEF OneHolder, Active, UnderWay, TerminalIsFed
  <2>6. MarksAreLast'
    <3>1. \A i \in 1 .. Len(execQ') : execQ'[i].what = "mark" =>
            /\ \A j \in 1 .. Len(inbox) : inbox[j] # execQ'[i].of
            /\ \A j \in 1 .. Len(pipe) : pipe[j].of # execQ'[i].of
      <4>1. TAKE i \in 1 .. Len(execQ')
      <4>2. HAVE execQ'[i].what = "mark"
      <4>3. i + 1 \in 1 .. Len(execQ) /\ execQ[i + 1].what = "mark" /\ execQ'[i].of = execQ[i + 1].of
        BY <2>3, <4>2
      <4>4. QED
        BY <4>3 DEF MarksAreLast
    <3>2. QED
      BY <1>1, <3>1 DEF MarksAreLast
  <2>7. ReadIsOwn'
    BY <1>7, <2>0, <2>3 DEF ReadIsOwn
  <2>8. OwnOutput'
    BY <1>7, <2>0, <2>1 DEF OwnOutput, InterTypes
  <2>9. EndIsSeen'
    <3>1. ASSUME Contains(execQ, EndMark)
          PROVE  Contains(execQ', EndMark)
      <4>1. PICK k \in 1 .. Len(execQ) : execQ[k] = EndMark
        BY <3>1 DEF Contains
      <4>2. k # 1
        BY <1>2, <1>7, <2>0, <4>1
      <4>3. k - 1 \in 1 .. Len(execQ') /\ k - 1 \in 1 .. Len(execQ) - 1 /\ (k - 1) + 1 = k
        BY <2>2, <4>2
      <4>4. execQ'[k - 1] = EndMark
        BY <2>2, <4>1, <4>3
      <4>5. QED
        BY <4>3, <4>4 DEF Contains
    <3>2. QED
      BY <1>1, <1>7, <2>0, <3>1 DEF EndIsSeen
  <2>10. \A e \in Cmds : e \in got'[e] => e \in got[e] \/ (e = c /\ execQ[1].of = c)
    BY <1>2, <2>0, <2>1 DEF InterTypes
  <2>11. TypedIsUnheard'
    <3>1. \A i \in 1 .. Len(typed) : typed[i] \in Cmds /\ typed[i] \notin got'[typed[i]]
      BY <1>2, <2>10 DEF EchoIInv, TypedIsUnheard, InterTypes
    <3>2. ASSUME NEW i \in 1 .. Len(typed), NEW j \in 1 .. Len(execQ')
          PROVE  execQ'[j].of # typed[i]
      BY <2>3 DEF EchoIInv, TypedIsUnheard
    <3>3. QED
      BY <1>1, <3>1, <3>2 DEF EchoIInv, TypedIsUnheard
  <2>12. EchoIsFirst'
    <3> USE DEF EchoIInv
    <3>1. ASSUME NEW i \in 1 .. Len(pipe), pipe[i].what = "echo"
          PROVE  /\ pipe[i].of \notin got'[pipe[i].of]
                 /\ \A j \in 1 .. Len(execQ') : execQ'[j].of # pipe[i].of
      <4>1. /\ pipe[i].of \in Cmds /\ pipe[i].of \notin got[pipe[i].of]
            /\ \A j \in 1 .. Len(execQ) : execQ[j].of # pipe[i].of
        BY <3>1 DEF UnderWay, EchoIsFirst
      <4>2. QED
        BY <1>2, <2>3, <2>10, <4>1
    <3>2. ASSUME NEW i \in 1 .. Len(execQ'), execQ'[i].what = "echo"
          PROVE  /\ execQ'[i].of \notin got'[execQ'[i].of]
                 /\ \A j \in 1 .. Len(execQ') : j < i => execQ'[j].of # execQ'[i].of
      <4>1. i + 1 \in 1 .. Len(execQ) /\ execQ'[i] = execQ[i + 1] /\ 1 < i + 1
        BY <2>3
      <4>2. /\ execQ[i + 1].of \notin got[execQ[i + 1].of]
            /\ \A j \in 1 .. Len(execQ) : j < i + 1 => execQ[j].of # execQ[i + 1].of
        BY <3>2, <4>1 DEF EchoIsFirst
      <4>3. execQ[1].of # execQ[i + 1].of
        BY <1>2, <4>1, <4>2
      <4>4. execQ[i + 1].of \in Cmds
        BY <1>1, <3>2, <4>1 DEF ReadIsOwn, EndMark
      <4>5. execQ'[i].of \notin got'[execQ'[i].of]
        BY <2>10, <4>1, <4>2, <4>3, <4>4
      <4>6. ASSUME NEW j \in 1 .. Len(execQ'), j < i PROVE execQ'[j].of # execQ'[i].of
        <5>1. j + 1 \in 1 .. Len(execQ) /\ execQ'[j] = execQ[j + 1] /\ j + 1 < i + 1
          BY <2>3, <4>6
        <5>2. QED
          BY <4>1, <4>2, <5>1
      <4>7. QED
        BY <4>5, <4>6
    <3>3. QED
      BY <1>1, <3>1, <3>2 DEF EchoIsFirst
  <2>13. NewSaysNothing' /\ CutSaysNothing'
    BY <1>1, <2>0, <2>10 DEF EchoIInv, NewSaysNothing, CutSaysNothing
  <2>14. QED
    BY <2>4, <2>5, <2>6, <2>7, <2>8, <2>9, <2>11, <2>12, <2>13 DEF EchoIInv
<1>8. QED
  BY <1>3, <1>4, <1>5, <1>6, <1>7

LEMMA CommandLeaveKeeps == ASSUME NEW c \in Cmds PROVE InterIInv /\ (TimesOut(c) \/ Abandon(c)) => InterIInv'
<1> SUFFICES ASSUME InterIInv, TimesOut(c) \/ Abandon(c) PROVE InterIInv'
  OBVIOUS
<1>1. /\ state[c] = "wait" /\ Ends(c, "left") /\ owner = c
      /\ UNCHANGED <<typed, inbox, texts, pipe, alive, reaped, execQ, got, reader, late>>
  BY DEF TimesOut, Abandon, procVars, routing, InterIInv, OneHolder, Active
<1>2. InterFlags'
  BY <1>1 DEF Ends, InterIInv, InterFlags
<1>3. QED
  BY <1>1, <1>2, ReaderEndKeeps DEF Ends

-----------------------------------------------------------------------------
(* The process and the reader *)

\* A line reaches the device: its repetition is the first that is heard of it.
LEMMA EchoesKeeps == InterIInv /\ Echoes => InterIInv'
<1> SUFFICES ASSUME InterIInv, Echoes PROVE InterIInv'
  OBVIOUS
<1> USE NoCmdIsNone DEF InterIInv
<1> DEFINE c == Head(typed)
<1>1. /\ typed # <<>> /\ typed' = Tail(typed) /\ inbox' = Append(inbox, c)
      /\ UNCHANGED <<state, owner, executing, texts, execQ, got, reader, late, alive, reaped>>
  BY DEF Echoes, routing
<1>2. PICK k \in {"echo", "torn"} : pipe' = Append(pipe, [of |-> c, what |-> k])
  BY DEF Echoes
<1>3. c = typed[1] /\ 1 \in 1 .. Len(typed) /\ c \in Cmds
  BY <1>1 DEF InterTypes
<1>4. /\ typed' \in Seq(Cmds) /\ Len(typed') = Len(typed) - 1 /\ Len(typed) \in Nat
      /\ \A i \in 1 .. Len(typed) - 1 : typed'[i] = typed[i + 1]
  BY <1>1 DEF InterTypes
<1>5. \A i \in 1 .. Len(typed') : i + 1 \in 1 .. Len(typed) /\ typed'[i] = typed[i + 1] /\ i + 1 # 1
  BY <1>4
<1> HIDE DEF c
<1>6. [of |-> c, what |-> k] \in Chunks
  BY <1>3 DEF Chunks, Kinds
<1>7. /\ pipe' \in Seq(Chunks) /\ Len(pipe') = Len(pipe) + 1 /\ Len(pipe) \in Nat
      /\ pipe'[Len(pipe')].of = c /\ pipe'[Len(pipe')].what = k
      /\ \A i \in 1 .. Len(pipe) : pipe'[i] = pipe[i]
      /\ \A i \in 1 .. Len(pipe') : i \in 1 .. Len(pipe) \/ i = Len(pipe')
  BY <1>2, <1>6 DEF InterTypes
<1>8. /\ inbox' \in Seq(Cmds) /\ Len(inbox') = Len(inbox) + 1 /\ Len(inbox) \in Nat
      /\ inbox'[Len(inbox')] = c
      /\ \A i \in 1 .. Len(inbox) : inbox'[i] = inbox[i]
      /\ \A i \in 1 .. Len(inbox') : i \in 1 .. Len(inbox) \/ i = Len(inbox')
  BY <1>1, <1>3 DEF InterTypes
\* nothing was heard of the line, and it stands once
<1>9. /\ c \notin got[c] /\ state[c] \notin {"new", "done", "cut"}
      /\ \A j \in 1 .. Len(inbox) : inbox[j] # c
      /\ \A j \in 1 .. Len(pipe) : pipe[j].of # c
      /\ \A j \in 1 .. Len(execQ) : execQ[j].of # c
      /\ \A i \in 1 .. Len(typed') : typed'[i] # c
  <2>1. \A i \in 1 .. Len(typed') : typed'[i] # c
    BY <1>3, <1>5 DEF EchoIInv, TypedIsUnheard
  <2>2. QED
    BY <1>3, <2>1 DEF EchoIInv, TypedIsUnheard, UnderWay
<1>10. InterTypes' /\ InterFlags'
  BY <1>1, <1>4, <1>7, <1>8 DEF InterTypes, InterFlags
<1>11. OneHolder' /\ ReadIsOwn' /\ OwnOutput' /\ TerminalIsFed' /\ EndIsSeen'
  BY <1>1 DEF OneHolder, Active, ReadIsOwn, OwnOutput, TerminalIsFed, EndIsSeen
<1>12. UnderWay'
  <2>1. \A i \in 1 .. Len(typed') : state[typed'[i]] \notin {"new", "done", "cut"}
    BY <1>5 DEF UnderWay
  <2>2. \A i \in 1 .. Len(inbox') : state[inbox'[i]] \notin {"new", "done"}
    BY <1>8, <1>9 DEF UnderWay
  <2>3. ASSUME NEW i \in 1 .. Len(pipe')
        PROVE  /\ pipe'[i].of \in Cmds /\ pipe'[i].what # "end"
               /\ state[pipe'[i].of] \notin {"new", "done"}
    <3>1. CASE i \in 1 .. Len(pipe)
      BY <1>7, <3>1 DEF UnderWay
    <3>2. CASE i = Len(pipe')
      BY <1>3, <1>7, <1>9, <3>2
    <3>3. QED
      BY <1>7, <3>1, <3>2
  <2>4. QED
    BY <1>1, <2>1, <2>2, <2>3 DEF UnderWay
<1>13. MarksAreLast'
  <2>1. \A i, j \in 1 .. Len(inbox') : inbox'[i] = inbox'[j] => i = j
    BY <1>8, <1>9 DEF MarksAreLast
  <2>2. ASSUME NEW i \in 1 .. Len(execQ), execQ[i].what = "mark"
        PROVE  /\ \A j \in 1 .. Len(inbox') : inbox'[j] # execQ[i].of
               /\ \A j \in 1 .. Len(pipe') : pipe'[j].of # execQ[i].of
    <3>1. /\ \A j \in 1 .. Len(inbox) : inbox[j] # execQ[i].of
          /\ \A j \in 1 .. Len(pipe) : pipe[j].of # execQ[i].of
      BY <2>2 DEF MarksAreLast
    <3>2. c # execQ[i].of
      BY <1>9
    <3>3. \A j \in 1 .. Len(inbox') : inbox'[j] # execQ[i].of
      BY <1>8, <3>1, <3>2
    <3>4. \A j \in 1 .. Len(pipe') : pipe'[j].of # execQ[i].of
      BY <1>7, <3>1, <3>2
    <3>5. QED
      BY <3>3, <3>4
  <2>3. ASSUME NEW i \in 1 .. Len(pipe'), pipe'[i].what = "mark"
        PROVE  /\ \A j \in 1 .. Len(inbox') : inbox'[j] # pipe'[i].of
               /\ \A j \in 1 .. Len(pipe') : j > i => pipe'[j].of # pipe'[i].of
    <3>1. i \in 1 .. Len(pipe) /\ pipe'[i] = pipe[i] /\ pipe[i].what = "mark" /\ pipe[i].of # c
      BY <1>7, <1>9, <2>3
    <3>2. \A j \in 1 .. Len(inbox') : inbox'[j] # pipe[i].of
      BY <1>8, <3>1 DEF MarksAreLast
    <3>3. \A j \in 1 .. Len(pipe') : j > i => pipe'[j].of # pipe[i].of
      BY <1>7, <3>1 DEF MarksAreLast
    <3>4. QED
      BY <3>1, <3>2, <3>3
  <2>4. QED
    BY <1>1, <2>1, <2>2, <2>3 DEF MarksAreLast
<1>14. TypedIsUnheard'
  <2>1. ASSUME NEW i \in 1 .. Len(typed'), NEW j \in 1 .. Len(typed'), typed'[i] = typed'[j]
        PROVE  i = j
    <3> DEFINE a == i + 1  b == j + 1
    <3>0. /\ a \in 1 .. Len(typed) /\ b \in 1 .. Len(typed)
          /\ typed'[i] = typed[a] /\ typed'[j] = typed[b]
      BY <1>5
    <3> HIDE DEF a, b
    <3>1. a = b
      BY <2>1, <3>0 DEF EchoIInv, TypedIsUnheard
    <3>2. QED
      BY <1>4, <3>1 DEF a, b
  <2>2. ASSUME NEW i \in 1 .. Len(typed')
        PROVE  /\ typed'[i] \notin got[typed'[i]]
               /\ \A j \in 1 .. Len(inbox') : inbox'[j] # typed'[i]
               /\ \A j \in 1 .. Len(pipe') : pipe'[j].of # typed'[i]
               /\ \A j \in 1 .. Len(execQ) : execQ[j].of # typed'[i]
    <3> DEFINE k1 == i + 1
    <3>1. k1 \in 1 .. Len(typed) /\ typed'[i] = typed[k1] /\ typed[k1] # c
      BY <1>5, <1>9
    <3> HIDE DEF k1
    <3>2. /\ typed[k1] \notin got[typed[k1]]
          /\ \A j \in 1 .. Len(inbox) : inbox[j] # typed[k1]
          /\ \A j \in 1 .. Len(pipe) : pipe[j].of # typed[k1]
          /\ \A j \in 1 .. Len(execQ) : execQ[j].of # typed[k1]
      BY <3>1 DEF EchoIInv, TypedIsUnheard
    <3>3. \A j \in 1 .. Len(inbox') : inbox'[j] # typed[k1]
      BY <1>8, <3>1, <3>2
    <3>4. \A j \in 1 .. Len(pipe') : pipe'[j].of # typed[k1]
      BY <1>7, <3>1, <3>2
    <3>5. QED
      BY <3>1, <3>2, <3>3, <3>4
  <2>3. QED
    BY <1>1, <2>1, <2>2 DEF TypedIsUnheard
<1>15. EchoIsFirst'
  <2>1. ASSUME NEW i \in 1 .. Len(pipe'), pipe'[i].what = "echo"
        PROVE  /\ pipe'[i].of \notin got[pipe'[i].of]
               /\ \A j \in 1 .. Len(pipe') : j < i => pipe'[j].of # pipe'[i].of
               /\ \A j \in 1 .. Len(execQ) : execQ[j].of # pipe'[i].of
    <3>1. CASE i \in 1 .. Len(pipe)
      <4>1. pipe'[i] = pipe[i] /\ \A j \in 1 .. Len(pipe') : j < i => j \in 1 .. Len(pipe) /\ pipe'[j] = pipe[j]
        BY <1>7, <3>1
      <4>2. QED
        BY <2>1, <3>1, <4>1 DEF EchoIInv, EchoIsFirst
    <3>2. CASE i = Len(pipe')
      <4>1. pipe'[i].of = c
        BY <1>7, <3>2
      <4>2. \A j \in 1 .. Len(pipe') : j < i => pipe'[j].of # c
        BY <1>7, <1>9, <3>2
      <4>3. QED
        BY <1>9, <4>1, <4>2
    <3>3. QED
      BY <1>7, <3>1, <3>2
  <2>2. QED
    BY <1>1, <2>1 DEF EchoIInv, EchoIsFirst
<1>16. NewSaysNothing' /\ CutSaysNothing'
  BY <1>1 DEF EchoIInv, NewSaysNothing, CutSaysNothing
<1>17. QED
  BY <1>10, <1>11, <1>12, <1>13, <1>14, <1>15, <1>16 DEF EchoIInv

LEMMA EmitsKeeps == InterIInv /\ Emits => InterIInv'
<1> SUFFICES ASSUME InterIInv, Emits PROVE InterIInv'
  OBVIOUS
<1> USE NoCmdIsNone DEF InterIInv
<1> DEFINE c == Head(inbox)
<1>1. /\ inbox # <<>> /\ UNCHANGED <<typed, state, owner, executing, execQ, got, reader, late, alive, reaped>>
  BY DEF Emits, routing
<1>2. PICK k \in {"text", "mark", "torn"} :
        /\ pipe' = Append(pipe, [of |-> c, what |-> k])
        /\ \/ k = "text" /\ UNCHANGED inbox /\ texts' = texts + 1 /\ texts < MaxText
           \/ k # "text" /\ inbox' = Tail(inbox) /\ texts' = 0
  BY DEF Emits
<1>3. c = inbox[1] /\ 1 \in 1 .. Len(inbox) /\ c \in Cmds
  BY <1>1 DEF InterTypes
<1> HIDE DEF c
<1>4. [of |-> c, what |-> k] \in Chunks
  BY <1>3 DEF Chunks, Kinds
<1>5. /\ pipe' \in Seq(Chunks) /\ Len(pipe') = Len(pipe) + 1 /\ Len(pipe) \in Nat
      /\ pipe'[Len(pipe')].of = c /\ pipe'[Len(pipe')].what = k
      /\ \A i \in 1 .. Len(pipe) : pipe'[i] = pipe[i]
      /\ \A i \in 1 .. Len(pipe') : i \in 1 .. Len(pipe) \/ i = Len(pipe')
  BY <1>2, <1>4 DEF InterTypes
\* the commands left are those at other places, and after a marker not this one
<1>6. /\ inbox' \in Seq(Cmds)
      /\ \A i \in 1 .. Len(inbox') : \E j \in 1 .. Len(inbox) : inbox'[i] = inbox[j] /\ (k # "text" => j # 1)
      /\ \A i, j \in 1 .. Len(inbox') : inbox'[i] = inbox'[j] => i = j
  <2>1. CASE k = "text"
    BY <1>2, <2>1 DEF InterTypes, MarksAreLast
  <2>2. CASE k # "text"
    <3>1. inbox \in Seq(Cmds) /\ inbox # <<>> /\ inbox' = Tail(inbox)
      BY <1>1, <1>2, <2>2 DEF InterTypes
    <3>2. /\ inbox' \in Seq(Cmds) /\ Len(inbox') = Len(inbox) - 1 /\ Len(inbox) \in Nat
          /\ \A i \in 1 .. Len(inbox) - 1 : inbox'[i] = inbox[i + 1]
      BY <3>1
    <3>3. \A i \in 1 .. Len(inbox') : i + 1 \in 1 .. Len(inbox) /\ inbox'[i] = inbox[i + 1] /\ i + 1 # 1
      BY <3>2
    <3>4. \A i, j \in 1 .. Len(inbox') : inbox'[i] = inbox'[j] => i + 1 = j + 1
      BY <3>3 DEF MarksAreLast
    <3>5. \A i, j \in 1 .. Len(inbox') : i + 1 = j + 1 => i = j
      BY <3>2
    <3>6. QED
      BY <3>2, <3>3, <3>4, <3>5
  <2>3. QED
    BY <2>1, <2>2
<1>7. InterTypes' /\ InterFlags'
  BY <1>1, <1>2, <1>5, <1>6 DEF InterTypes, InterFlags
<1>8. OneHolder' /\ ReadIsOwn' /\ OwnOutput' /\ TerminalIsFed' /\ EndIsSeen'
  BY <1>1 DEF OneHolder, Active, ReadIsOwn, OwnOutput, TerminalIsFed, EndIsSeen
<1>9. UnderWay'
  <2>1. \A i \in 1 .. Len(inbox') : state[inbox'[i]] \notin {"new", "done"}
    BY <1>6 DEF UnderWay
  <2>2. ASSUME NEW i \in 1 .. Len(pipe')
        PROVE  /\ pipe'[i].of \in Cmds /\ pipe'[i].what # "end"
               /\ state[pipe'[i].of] \notin {"new", "done"}
    <3>1. CASE i \in 1 .. Len(pipe)
      BY <1>5, <3>1 DEF UnderWay
    <3>2. CASE i = Len(pipe')
      BY <1>3, <1>5, <3>2 DEF UnderWay
    <3>3. QED
      BY <1>5, <3>1, <3>2
  <2>3. QED
    BY <1>1, <2>1, <2>2 DEF UnderWay
<1>10. MarksAreLast'
  <2>1. ASSUME NEW i \in 1 .. Len(execQ), execQ[i].what = "mark"
        PROVE  /\ \A j \in 1 .. Len(inbox') : inbox'[j] # execQ[i].of
               /\ \A j \in 1 .. Len(pipe') : pipe'[j].of # execQ[i].of
    <3>1. c # execQ[i].of
      BY <1>3, <2>1 DEF MarksAreLast
    <3>2. ASSUME NEW j \in 1 .. Len(pipe')
          PROVE  pipe'[j].of # execQ[i].of
      <4>1. CASE j \in 1 .. Len(pipe)
        BY <1>5, <2>1, <4>1 DEF MarksAreLast
      <4>2. CASE j = Len(pipe')
        BY <1>5, <3>1, <4>2
      <4>3. QED
        BY <1>5, <4>1, <4>2
    <3>3. \A j \in 1 .. Len(inbox') : inbox'[j] # execQ[i].of
      BY <1>6, <2>1 DEF MarksAreLast
    <3>4. QED
      BY <3>2, <3>3
  <2>2. ASSUME NEW i \in 1 .. Len(pipe'), pipe'[i].what = "mark"
        PROVE  /\ \A j \in 1 .. Len(inbox') : inbox'[j] # pipe'[i].of
               /\ \A j \in 1 .. Len(pipe') : j > i => pipe'[j].of # pipe'[i].of
    <3>1. CASE i \in 1 .. Len(pipe)
      <4>1. pipe[i].what = "mark" /\ pipe'[i] = pipe[i] /\ c # pipe[i].of
        BY <1>3, <1>5, <2>2, <3>1 DEF MarksAreLast
      <4>2. \A j \in 1 .. Len(inbox') : inbox'[j] # pipe[i].of
        BY <1>6, <3>1, <4>1 DEF MarksAreLast
      <4>3. ASSUME NEW j \in 1 .. Len(pipe'), j > i
            PROVE  pipe'[j].of # pipe[i].of
        <5>1. CASE j \in 1 .. Len(pipe)
          BY <1>5, <3>1, <4>1, <4>3, <5>1 DEF MarksAreLast
        <5>2. CASE j = Len(pipe')
          BY <1>5, <4>1, <5>2
        <5>3. QED
          BY <1>5, <5>1, <5>2
      <4>4. QED
        BY <4>1, <4>2, <4>3
    <3>2. CASE i = Len(pipe')
      <4>1. k = "mark" /\ pipe'[i].of = c
        BY <1>5, <2>2, <3>2
      <4>2. \A j \in 1 .. Len(inbox') : inbox'[j] # c
        BY <1>3, <1>6, <4>1 DEF MarksAreLast
      <4>3. QED
        BY <1>5, <3>2, <4>1, <4>2
    <3>3. QED
      BY <1>5, <3>1, <3>2
  <2>3. QED
    BY <1>1, <1>6, <2>1, <2>2 DEF MarksAreLast
<1>11. TypedIsUnheard'
  <2>1. ASSUME NEW i \in 1 .. Len(typed)
        PROVE  /\ \A j \in 1 .. Len(inbox') : inbox'[j] # typed[i]
               /\ \A j \in 1 .. Len(pipe') : pipe'[j].of # typed[i]
    BY <1>3, <1>5, <1>6 DEF EchoIInv, TypedIsUnheard
  <2>2. QED
    BY <1>1, <2>1 DEF EchoIInv, TypedIsUnheard
<1>12. EchoIsFirst'
  <2>1. ASSUME NEW i \in 1 .. Len(pipe'), pipe'[i].what = "echo"
        PROVE  /\ pipe'[i].of \notin got[pipe'[i].of]
               /\ \A j \in 1 .. Len(pipe') : j < i => pipe'[j].of # pipe'[i].of
               /\ \A j \in 1 .. Len(execQ) : execQ[j].of # pipe'[i].of
    <3>1. i \in 1 .. Len(pipe) /\ pipe'[i] = pipe[i]
      BY <1>5, <2>1
    <3>2. \A j \in 1 .. Len(pipe') : j < i => j \in 1 .. Len(pipe) /\ pipe'[j] = pipe[j]
      BY <1>5, <3>1
    <3>3. QED
      BY <2>1, <3>1, <3>2 DEF EchoIInv, EchoIsFirst
  <2>2. QED
    BY <1>1, <2>1 DEF EchoIInv, EchoIsFirst
<1>13. NewSaysNothing' /\ CutSaysNothing'
  BY <1>1 DEF EchoIInv, NewSaysNothing, CutSaysNothing
<1>14. QED
  BY <1>7, <1>8, <1>9, <1>10, <1>11, <1>12, <1>13 DEF EchoIInv

LEMMA ReadKeeps == InterIInv /\ Read => InterIInv'
<1> SUFFICES ASSUME InterIInv, Read PROVE InterIInv'
  OBVIOUS
<1> USE NoCmdIsNone DEF InterIInv
<1>1. /\ reader = "runs" /\ pipe # <<>> /\ pipe' = Tail(pipe)
      /\ execQ' = (IF executing THEN Append(execQ, Head(pipe)) ELSE execQ)
      /\ UNCHANGED <<state, owner, executing, typed, inbox, texts, got, reader, alive, reaped, late>>
  BY DEF Read
<1>2. /\ pipe' \in Seq(Chunks) /\ Len(pipe') = Len(pipe) - 1 /\ Len(pipe) \in Nat
      /\ \A i \in 1 .. Len(pipe) - 1 : pipe'[i] = pipe[i + 1]
      /\ Head(pipe) = pipe[1] /\ 1 \in 1 .. Len(pipe) /\ Head(pipe) \in Chunks
  BY <1>1 DEF InterTypes
<1>3. \A i \in 1 .. Len(pipe') : i + 1 \in 1 .. Len(pipe) /\ pipe'[i] = pipe[i + 1] /\ i + 1 > 1
  BY <1>2
<1>4. /\ execQ' \in Seq(Chunks)
      /\ \A i \in 1 .. Len(execQ') : \/ i \in 1 .. Len(execQ) /\ execQ'[i] = execQ[i]
                                     \/ execQ'[i] = pipe[1]
  BY <1>1, <1>2 DEF InterTypes
<1>5. InterTypes' /\ InterFlags'
  BY <1>1, <1>2, <1>4 DEF InterTypes, InterFlags
<1>6. OneHolder' /\ OwnOutput' /\ TerminalIsFed' /\ EndIsSeen'
  BY <1>1 DEF OneHolder, Active, OwnOutput, TerminalIsFed, EndIsSeen
<1>7. UnderWay'
  BY <1>1, <1>3 DEF UnderWay
<1>8. MarksAreLast'
  <2>1. ASSUME NEW i \in 1 .. Len(execQ'), execQ'[i].what = "mark"
        PROVE  /\ \A j \in 1 .. Len(inbox) : inbox[j] # execQ'[i].of
               /\ \A j \in 1 .. Len(pipe') : pipe'[j].of # execQ'[i].of
    <3>1. CASE i \in 1 .. Len(execQ) /\ execQ'[i] = execQ[i]
      BY <1>3, <2>1, <3>1 DEF MarksAreLast
    <3>2. CASE execQ'[i] = pipe[1]
      BY <1>2, <1>3, <2>1, <3>2 DEF MarksAreLast
    <3>3. QED
      BY <1>4, <3>1, <3>2
  <2>2. ASSUME NEW i \in 1 .. Len(pipe'), pipe'[i].what = "mark"
        PROVE  /\ \A j \in 1 .. Len(inbox) : inbox[j] # pipe'[i].of
               /\ \A j \in 1 .. Len(pipe') : j > i => pipe'[j].of # pipe'[i].of
    <3>1. i + 1 \in 1 .. Len(pipe) /\ pipe'[i] = pipe[i + 1] /\ pipe[i + 1].what = "mark"
      BY <1>3, <2>2
    <3>2. \A j \in 1 .. Len(inbox) : inbox[j] # pipe[i + 1].of
      BY <3>1 DEF MarksAreLast
    <3>3. ASSUME NEW j \in 1 .. Len(pipe'), j > i
          PROVE  pipe'[j].of # pipe[i + 1].of
      <4>1. j + 1 \in 1 .. Len(pipe) /\ pipe'[j] = pipe[j + 1] /\ j + 1 > i + 1
        BY <1>2, <1>3, <3>3
      <4>2. QED
        BY <3>1, <4>1 DEF MarksAreLast
    <3>4. QED
      BY <3>1, <3>2, <3>3
  <2>3. QED
    BY <1>1, <2>1, <2>2 DEF MarksAreLast
<1>9. ReadIsOwn'
  <2>1. owner # NoCmd => pipe[1].of \in Cmds /\ (pipe[1].of = owner \/ state[pipe[1].of] \in {"cut", "left", "failed"})
    BY <1>2 DEF UnderWay, OneHolder, Active, InterTypes
  <2>2. QED
    BY <1>1, <1>4, <2>1 DEF ReadIsOwn
<1>10. TypedIsUnheard'
  <2>1. ASSUME NEW i \in 1 .. Len(typed)
        PROVE  /\ \A j \in 1 .. Len(pipe') : pipe'[j].of # typed[i]
               /\ \A j \in 1 .. Len(execQ') : execQ'[j].of # typed[i]
    <3>1. /\ \A j \in 1 .. Len(pipe) : pipe[j].of # typed[i]
          /\ \A j \in 1 .. Len(execQ) : execQ[j].of # typed[i]
      BY DEF EchoIInv, TypedIsUnheard
    <3>2. \A j \in 1 .. Len(pipe') : pipe'[j].of # typed[i]
      BY <1>3, <3>1
    <3>3. \A j \in 1 .. Len(execQ') : execQ'[j].of # typed[i]
      BY <1>2, <1>4, <3>1
    <3>4. QED
      BY <3>2, <3>3
  <2>2. QED
    BY <1>1, <2>1 DEF EchoIInv, TypedIsUnheard
<1>11. EchoIsFirst'
  <2>1. ASSUME NEW i \in 1 .. Len(pipe'), pipe'[i].what = "echo"
        PROVE  /\ pipe'[i].of \notin got[pipe'[i].of]
               /\ \A j \in 1 .. Len(pipe') : j < i => pipe'[j].of # pipe'[i].of
               /\ \A j \in 1 .. Len(execQ') : execQ'[j].of # pipe'[i].of
    <3>1. i + 1 \in 1 .. Len(pipe) /\ pipe'[i] = pipe[i + 1] /\ i + 1 > 1 /\ pipe[i + 1].what = "echo"
      BY <1>3, <2>1
    <3>2. /\ pipe[i + 1].of \notin got[pipe[i + 1].of] /\ pipe[1].of # pipe[i + 1].of
          /\ \A j \in 1 .. Len(execQ) : execQ[j].of # pipe[i + 1].of
      BY <1>2, <3>1 DEF EchoIInv, EchoIsFirst
    <3>3. ASSUME NEW j \in 1 .. Len(pipe'), j < i PROVE pipe'[j].of # pipe[i + 1].of
      <4>1. j + 1 \in 1 .. Len(pipe) /\ pipe'[j] = pipe[j + 1] /\ j + 1 < i + 1
        BY <1>2, <1>3, <3>3
      <4>2. QED
        BY <3>1, <4>1 DEF EchoIInv, EchoIsFirst
    <3>4. \A j \in 1 .. Len(execQ') : execQ'[j].of # pipe[i + 1].of
      BY <1>4, <3>2
    <3>5. QED
      BY <3>1, <3>2, <3>3, <3>4
  <2>2. ASSUME NEW i \in 1 .. Len(execQ'), execQ'[i].what = "echo"
        PROVE  /\ execQ'[i].of \notin got[execQ'[i].of]
               /\ \A j \in 1 .. Len(execQ') : j < i => execQ'[j].of # execQ'[i].of
    <3>1. /\ Len(execQ) \in Nat
          /\ \A j \in 1 .. Len(execQ') : j < i => j \in 1 .. Len(execQ) /\ execQ'[j] = execQ[j]
      BY <1>1, <1>2 DEF InterTypes
    <3>2. CASE i \in 1 .. Len(execQ) /\ execQ'[i] = execQ[i]
      BY <2>2, <3>1, <3>2 DEF EchoIInv, EchoIsFirst
    <3>3. CASE execQ'[i] = pipe[1]
      BY <1>2, <2>2, <3>1, <3>3 DEF EchoIInv, EchoIsFirst
    <3>4. QED
      BY <1>4, <3>2, <3>3
  <2>3. QED
    BY <1>1, <2>1, <2>2 DEF EchoIsFirst
<1>12. NewSaysNothing' /\ CutSaysNothing'
  BY <1>1 DEF EchoIInv, NewSaysNothing, CutSaysNothing
<1>13. QED
  BY <1>5, <1>6, <1>7, <1>8, <1>9, <1>10, <1>11, <1>12 DEF EchoIInv

LEMMA ReadsEndKeeps == InterIInv /\ ReadsEnd => InterIInv'
<1> SUFFICES ASSUME InterIInv, ReadsEnd PROVE InterIInv'
  OBVIOUS
<1> USE NoCmdIsNone DEF InterIInv
<1>1. /\ reader' = "ended" /\ execQ' = Append(execQ, EndMark)
      /\ UNCHANGED <<state, owner, executing, typed, inbox, texts, pipe, alive, reaped, got, late>>
  BY DEF ReadsEnd, procVars
<1>2. EndMark \in Chunks /\ EndMark.what \notin {"mark", "echo"} /\ EndMark.of = NoCmd
  BY DEF EndMark, Chunks, Kinds
<1>3. /\ execQ' \in Seq(Chunks) /\ Len(execQ') \in 1 .. Len(execQ') /\ execQ'[Len(execQ')] = EndMark
      /\ \A i \in 1 .. Len(execQ') : \/ i \in 1 .. Len(execQ) /\ execQ'[i] = execQ[i]
                                     \/ execQ'[i] = EndMark
  BY <1>1, <1>2 DEF InterTypes
<1>4. InterTypes' /\ InterFlags'
  BY <1>1, <1>3 DEF InterTypes, InterFlags
<1>5. OneHolder' /\ UnderWay' /\ OwnOutput' /\ TerminalIsFed'
  BY <1>1 DEF OneHolder, Active, UnderWay, OwnOutput, TerminalIsFed
<1>6. MarksAreLast'
  BY <1>1, <1>2, <1>3 DEF MarksAreLast
<1>7. ReadIsOwn'
  BY <1>1, <1>3 DEF ReadIsOwn
<1>8. EndIsSeen'
  BY <1>3 DEF EndIsSeen, Contains
<1>9. TypedIsUnheard'
  <2>1. \A i \in 1 .. Len(typed) : typed[i] # NoCmd
    BY DEF InterTypes
  <2>2. QED
    BY <1>1, <1>2, <1>3, <2>1 DEF EchoIInv, TypedIsUnheard
<1>10. EchoIsFirst'
  <2>1. ASSUME NEW i \in 1 .. Len(pipe), pipe[i].what = "echo"
        PROVE  \A j \in 1 .. Len(execQ') : execQ'[j].of # pipe[i].of
    BY <1>2, <1>3, <2>1 DEF UnderWay, EchoIInv, EchoIsFirst
  <2>2. ASSUME NEW i \in 1 .. Len(execQ'), execQ'[i].what = "echo"
        PROVE  /\ execQ'[i].of \notin got[execQ'[i].of]
               /\ \A j \in 1 .. Len(execQ') : j < i => execQ'[j].of # execQ'[i].of
    <3>1. i \in 1 .. Len(execQ) /\ execQ'[i] = execQ[i]
      BY <1>2, <1>3, <2>2
    <3>2. \A j \in 1 .. Len(execQ') : j < i => j \in 1 .. Len(execQ) /\ execQ'[j] = execQ[j]
      BY <1>1, <1>2, <3>1 DEF InterTypes
    <3>3. QED
      BY <2>2, <3>1, <3>2 DEF EchoIInv, EchoIsFirst
  <2>3. QED
    BY <1>1, <2>1, <2>2 DEF EchoIInv, EchoIsFirst
<1>11. NewSaysNothing' /\ CutSaysNothing'
  BY <1>1 DEF EchoIInv, NewSaysNothing, CutSaysNothing
<1>12. QED
  BY <1>4, <1>5, <1>6, <1>7, <1>8, <1>9, <1>10, <1>11 DEF EchoIInv

\* The process dies with what it was to execute, by itself or by stop().
LEMMA ProcessDiesKeeps == InterIInv /\ (Dies \/ StopShell) => InterIInv'
<1> SUFFICES ASSUME InterIInv, Dies \/ StopShell PROVE InterIInv'
  OBVIOUS
<1> USE NoCmdIsNone DEF InterIInv
<1>1. /\ alive' = FALSE /\ typed' = <<>> /\ inbox' = <<>> /\ texts' = 0
      /\ reader' \in {reader, "cancelled"}
      /\ UNCHANGED <<state, owner, executing, pipe, reaped, execQ, got, late>>
  BY DEF Dies, StopShell, routing
<1>2. InterTypes' /\ InterFlags'
  <2>1. InterTypes'
    BY <1>1 DEF InterTypes
  <2>2. InterFlags'
    BY <1>1 DEF InterFlags
  <2>3. QED
    BY <2>1, <2>2
<1>3. OneHolder' /\ OwnOutput' /\ TerminalIsFed' /\ EndIsSeen' /\ ReadIsOwn'
  BY <1>1 DEF OneHolder, Active, OwnOutput, TerminalIsFed, EndIsSeen, ReadIsOwn
<1>4. Len(inbox') = 0 /\ Len(typed') = 0
  BY <1>1
<1>5. UnderWay' /\ MarksAreLast'
  BY <1>1, <1>4 DEF UnderWay, MarksAreLast
<1>6. TypedIsUnheard' /\ EchoIsFirst' /\ NewSaysNothing' /\ CutSaysNothing'
  BY <1>1, <1>4 DEF EchoIInv, TypedIsUnheard, EchoIsFirst, NewSaysNothing, CutSaysNothing
<1>7. QED
  BY <1>2, <1>3, <1>5, <1>6 DEF EchoIInv

LEMMA ReapedKeeps == InterIInv /\ (Reaped \/ UNCHANGED interVars) => InterIInv'
<1> SUFFICES ASSUME InterIInv, Reaped \/ UNCHANGED interVars PROVE InterIInv'
  OBVIOUS
<1> USE DEF InterIInv
<1>1. /\ UNCHANGED <<state, owner, executing, typed, inbox, texts, pipe, execQ, got, reader, alive, late>>
      /\ reaped' \in {reaped, TRUE}
  BY DEF Reaped, routing, interVars
<1>2. InterTypes' /\ InterFlags'
  BY <1>1 DEF InterTypes, InterFlags
<1>3. OneHolder' /\ OwnOutput' /\ TerminalIsFed' /\ EndIsSeen' /\ ReadIsOwn'
  BY <1>1 DEF OneHolder, Active, OwnOutput, TerminalIsFed, EndIsSeen, ReadIsOwn
<1>4. UnderWay' /\ MarksAreLast'
  BY <1>1 DEF UnderWay, MarksAreLast
<1>5. EchoIInv'
  BY <1>1 DEF EchoIInv, TypedIsUnheard, EchoIsFirst, NewSaysNothing, CutSaysNothing
<1>6. QED
  BY <1>2, <1>3, <1>4, <1>5

-----------------------------------------------------------------------------
LEMMA InterInvariance == InterIInv /\ [InterNext]_interVars => InterIInv'
BY BeginKeeps, RefusedKeeps, DrainedKeeps, TakeKeeps, CommandLeaveKeeps, EchoesKeeps, EmitsKeeps, ReadKeeps,
   ReadsEndKeeps, ProcessDiesKeeps, ReapedKeeps DEF InterNext

\* Whatever is begun, given up or killed in whatever order, a command that was
\* not ended by its own repeated line is answered by its own output and ended by
\* its own marker, one that was has got nothing of its own, the terminal is not
\* starved and the end of the process is seen, for every number of commands and
\* chunks (execute, _background_reader, shell.py).
THEOREM AnswersAreOwn == InterSpec => []InterInv
<1>1. InterIInv => InterInv
  <2> SUFFICES ASSUME InterIInv PROVE InterInv
    OBVIOUS
  <2>1. DoneIsDone
    <3>1. /\ DOMAIN typed = 1 .. Len(typed) /\ DOMAIN inbox = 1 .. Len(inbox)
          /\ DOMAIN pipe = 1 .. Len(pipe)
      BY DEF InterIInv, InterTypes
    <3>2. QED
      BY <3>1 DEF InterIInv, UnderWay, DoneIsDone
  <2>2. InterTypeOK
    BY DEF InterIInv, InterTypes, InterFlags, OneHolder, Active, InterTypeOK
  <2>3. QED
    BY <2>1, <2>2 DEF InterIInv, InterInv, EchoIInv
<1>2. QED
  BY <1>1, InitInter, InterInvariance, PTL DEF InterSpec

-----------------------------------------------------------------------------
(***************************************************************************)
(* A collected line is stored once and in order or counted, for any number *)
(* of lines, lives of the process and sizes of buffer and batch. Lines are *)
(* numbered, and a life's numbers begin above what is stored               *)
(* (MaxIsLargest).                                                         *)
(***************************************************************************)

LEMMA WriterBounds ==
    /\ MaxSeq \in Nat /\ Capacity \in Nat /\ Capacity # 0 /\ Limit \in Nat /\ Limit # 0 /\ MaxBoots \in Nat
    /\ {Loop, Full, Reader, Stopper} = Flushers
BY WriterAssumption DEF WriterAssumption, Flushers

-----------------------------------------------------------------------------
\* What ends takes the lines not yet stored with it, and the counts.
EndIsEmpty == process = "ended" => pend = {} /\ dropped = {} /\ \A f \in Flushers : flying[f] = {}

\* In the first life the memory buffer is empty before the first line only.
FirstLife == boots = 0 /\ seqNext # 0 => first < seqNext

WriterTypes ==
    /\ process \in {"running", "stopping", "ended"}
    /\ seqNext \in 0 .. MaxSeq /\ first \in 0 .. seqNext /\ seqNext - first <= Capacity
    /\ last \in -1 .. MaxSeq - 1 /\ boots \in 0 .. MaxBoots

LinesTypes ==
    /\ pend \subseteq Seqs /\ rows \subseteq Seqs /\ dropped \subseteq Seqs
    /\ silent \subseteq Seqs /\ gone \subseteq Seqs
    /\ flying \in [Flushers -> SUBSET Seqs]

\* StoredOnce line by line; what was counted as dropped is below the next number too.
Apart ==
    process # "ended" =>
        /\ \A s \in rows : s < seqNext /\ s \notin dropped
        /\ \A s \in dropped : s < seqNext
        /\ \A s \in pend : s < seqNext /\ s \notin rows /\ s \notin dropped
        /\ \A f \in Flushers : \A s \in flying[f] :
             /\ s < seqNext /\ s \notin rows /\ s \notin dropped /\ s \notin pend
             /\ \A g \in Flushers : s \in flying[g] => g = f

\* LinesAccounted line by line.
Whereabouts ==
    boots = 0 /\ process # "ended" => \A s \in 0 .. seqNext - 1 :
        \/ s \in rows \/ s \in pend \/ s \in dropped \/ s \in gone
        \/ \E f \in Flushers : s \in flying[f]

WriterIInv == /\ WriterTypes /\ LinesTypes /\ EndIsEmpty /\ FirstLife
              /\ Apart /\ Whereabouts /\ OnlyLimitIsSilent

LEMMA InitWriter == WriterInit => WriterIInv
<1> SUFFICES ASSUME WriterInit PROVE WriterIInv
  OBVIOUS
<1> USE WriterBounds DEF WriterInit
<1>1. WriterTypes /\ LinesTypes
  BY DEF WriterTypes, LinesTypes
<1>2. EndIsEmpty /\ FirstLife /\ Apart /\ Whereabouts /\ OnlyLimitIsSilent
  BY DEF EndIsEmpty, FirstLife, Apart, Whereabouts, OnlyLimitIsSilent
<1>3. QED
  BY <1>1, <1>2 DEF WriterIInv

LEMMA CollectKeeps == WriterIInv /\ Collect => WriterIInv'
<1> SUFFICES ASSUME WriterIInv, Collect PROVE WriterIInv'
  OBVIOUS
<1> USE WriterBounds DEF WriterIInv
<1>1. /\ process # "ended" /\ seqNext < MaxSeq /\ seqNext \in Nat /\ first \in Nat
      /\ seqNext' = seqNext + 1 /\ first' = Evicts(seqNext + 1) /\ pend' = pend \cup {seqNext}
      /\ last' \in {last, IF seqNext > last THEN seqNext ELSE last}
      /\ UNCHANGED <<process, flying, rows, dropped, silent, gone, boots>>
  BY DEF Collect, WriterTypes
<1>2. first' \in 0 .. seqNext /\ seqNext' - first' <= Capacity
  BY <1>1 DEF Evicts, WriterTypes
<1>3. last' \in -1 .. MaxSeq - 1
  BY <1>1 DEF WriterTypes
<1>4. WriterTypes' /\ LinesTypes'
  BY <1>1, <1>2, <1>3 DEF WriterTypes, LinesTypes, Seqs
<1>5. EndIsEmpty' /\ FirstLife' /\ OnlyLimitIsSilent'
  BY <1>1, <1>2 DEF EndIsEmpty, FirstLife, OnlyLimitIsSilent
<1>6. Apart'
  <2>1. /\ \A s \in rows \cup dropped \cup pend : s # seqNext /\ s < seqNext + 1
        /\ \A f \in Flushers : \A s \in flying[f] : s # seqNext /\ s < seqNext + 1
    BY <1>1 DEF Apart, LinesTypes, Seqs
  <2>2. QED
    BY <1>1, <2>1 DEF Apart
<1>7. Whereabouts'
  <2>1. \A s \in 0 .. seqNext' - 1 : s \in 0 .. seqNext - 1 \/ s = seqNext
    BY <1>1
  <2>2. QED
    BY <1>1, <2>1 DEF Whereabouts
<1>8. QED
  BY <1>4, <1>5, <1>6, <1>7

LEMMA FlushKeeps == ASSUME NEW f \in Flushers PROVE WriterIInv /\ Flush(f) => WriterIInv'
<1> SUFFICES ASSUME WriterIInv, Flush(f) PROVE WriterIInv'
  OBVIOUS
<1> USE DEF WriterIInv
<1> DEFINE b == Batch
<1>0. b \subseteq pend
  BY DEF Batch
<1> HIDE DEF b
<1>1. /\ process # "ended" /\ flying[f] = {} /\ flying' = [flying EXCEPT ![f] = b] /\ pend' = pend \ b
      /\ UNCHANGED <<process, seqNext, first, rows, dropped, last, silent, gone, boots>>
  BY DEF Flush, Flushes, TakesBatch, b
<1>2. flying'[f] = b /\ \A g \in Flushers : g # f => flying'[g] = flying[g]
  BY <1>1 DEF LinesTypes
<1>3. WriterTypes' /\ LinesTypes' /\ EndIsEmpty' /\ FirstLife' /\ OnlyLimitIsSilent'
  BY <1>0, <1>1 DEF WriterTypes, LinesTypes, EndIsEmpty, FirstLife, OnlyLimitIsSilent
<1>4. Apart'
  <2>1. ASSUME NEW g \in Flushers, NEW s \in flying'[g]
        PROVE  /\ s < seqNext /\ s \notin rows /\ s \notin dropped
               /\ s \notin pend' /\ \A h \in Flushers : s \in flying'[h] => h = g
    <3>1. CASE g = f
      BY <1>0, <1>1, <1>2, <2>1, <3>1 DEF Apart
    <3>2. CASE g # f
      BY <1>0, <1>1, <1>2, <2>1, <3>2 DEF Apart
    <3>3. QED
      BY <3>1, <3>2
  <2>2. QED
    BY <1>1, <2>1 DEF Apart
<1>5. Whereabouts'
  BY <1>1, <1>2 DEF Whereabouts
<1>6. QED
  BY <1>3, <1>4, <1>5

\* A save that returns moves its lines to the rows, or to the dropped.
LEMMA SavedKeeps ==
    ASSUME WriterIInv, NEW f \in Flushers, Saved(f), flying' = [flying EXCEPT ![f] = {}],
           process = "ended" => flying[f] = {}, UNCHANGED <<process, seqNext, pend, boots>>,
           gone' = gone
    PROVE  EndIsEmpty' /\ Apart' /\ Whereabouts' /\ (silent' \subseteq Seqs => LinesTypes')
<1> USE DEF WriterIInv
<1>1. flying'[f] = {} /\ \A g \in Flushers : g # f => flying'[g] = flying[g]
  BY DEF LinesTypes
<1>2. rows' \cup dropped' = rows \cup dropped \cup flying[f]
  BY DEF Saved
<1>3. flying[f] \subseteq Seqs
  BY DEF LinesTypes
<1>4. rows' \subseteq Seqs /\ dropped' \subseteq Seqs
  BY <1>3 DEF Saved, LinesTypes
<1>5. silent' \subseteq Seqs => LinesTypes'
  BY <1>4 DEF LinesTypes
<1>6. EndIsEmpty'
  BY <1>1 DEF EndIsEmpty, Saved
<1>7. Apart'
  <2> SUFFICES ASSUME process # "ended" PROVE Apart'
    BY DEF Apart
  <2>1. /\ \A s \in rows' : s < seqNext /\ s \notin dropped'
        /\ \A s \in dropped' : s < seqNext
    BY DEF Apart, Saved
  <2>2. \A s \in pend : s < seqNext /\ s \notin rows' /\ s \notin dropped'
    BY DEF Apart, Saved
  <2>3. ASSUME NEW g \in Flushers, NEW s \in flying'[g]
        PROVE  /\ s < seqNext /\ s \notin rows' /\ s \notin dropped' /\ s \notin pend
               /\ \A h \in Flushers : s \in flying'[h] => h = g
    <3>1. g # f /\ s \in flying[g] /\ s \notin flying[f]
      BY <1>1, <2>3 DEF Apart
    <3>2. QED
      BY <1>1, <1>2, <3>1 DEF Apart
  <2>4. QED
    BY <2>1, <2>2, <2>3 DEF Apart
<1>8. Whereabouts'
  BY <1>1, <1>2 DEF Whereabouts
<1>9. QED
  BY <1>5, <1>6, <1>7, <1>8

LEMMA DoneKeeps == ASSUME NEW f \in Flushers PROVE WriterIInv /\ FlushDone(f) => WriterIInv'
<1> SUFFICES ASSUME WriterIInv, FlushDone(f) PROVE WriterIInv'
  OBVIOUS
<1>1. /\ flying[f] # {} /\ Saved(f) /\ flying' = [flying EXCEPT ![f] = {}]
      /\ UNCHANGED <<process, seqNext, first, pend, last, silent, gone, boots>>
  BY DEF FlushDone
<1>2. EndIsEmpty' /\ Apart' /\ Whereabouts' /\ LinesTypes'
  BY <1>1, SavedKeeps DEF WriterIInv, EndIsEmpty, LinesTypes
<1>3. WriterTypes' /\ FirstLife' /\ OnlyLimitIsSilent'
  BY <1>1 DEF WriterIInv, WriterTypes, FirstLife, OnlyLimitIsSilent
<1>4. QED
  BY <1>2, <1>3 DEF WriterIInv

\* The answer to a browser hides no line that the limit does not.
LEMMA AnswerIsWhole ==
    ASSUME WriterIInv, boots = 0, Limit >= Capacity, last >= 0
    PROVE  Asked \subseteq Answer \cup Missing
<1> SUFFICES ASSUME NEW s \in Asked, s \notin Missing PROVE s \in Answer
  OBVIOUS
<1> USE WriterBounds DEF WriterIInv
<1>1. /\ last \in Int /\ seqNext \in Nat /\ first \in Nat /\ seqNext - first <= Capacity
      /\ s \in Nat /\ s <= seqNext - 1 /\ last + 1 \in Nat /\ seqNext # 0
  BY DEF WriterTypes, Asked
<1>2. first < seqNext
  BY <1>1 DEF FirstLife
<1>3. s >= first
  BY <1>1, <1>2 DEF Missing
<1>4. Max({first, last + 1}) \in Nat /\ Max({first, last + 1}) >= first
  BY <1>1, MaxOfTwo
<1>5. s - Limit < Max({first, last + 1})
  BY <1>1, <1>4
<1>6. QED
  BY <1>3, <1>5 DEF Answer

LEMMA ResumeKeeps == WriterIInv /\ Resume => WriterIInv'
<1> SUFFICES ASSUME WriterIInv, Resume PROVE WriterIInv'
  OBVIOUS
<1>1. /\ last >= 0 /\ process = "running" /\ Saved(Reader) /\ flying' = [flying EXCEPT ![Reader] = {}]
      /\ last' = IF Answer = {} THEN last ELSE Max(Answer)
      /\ silent' = silent \cup (Asked \ (Answer \cup Missing))
      /\ UNCHANGED <<process, seqNext, first, pend, gone, boots>>
  BY DEF Resume
<1>2. Asked \subseteq Seqs /\ Answer \subseteq Asked
  BY WriterBounds DEF WriterIInv, WriterTypes, Asked, Answer, Seqs
<1>3. silent' \subseteq Seqs
  BY <1>1, <1>2 DEF WriterIInv, LinesTypes
<1>4. Reader \in Flushers
  BY WriterBounds
<1>5. EndIsEmpty' /\ Apart' /\ Whereabouts' /\ LinesTypes'
  BY <1>1, <1>3, <1>4, SavedKeeps
<1>6. last' \in -1 .. MaxSeq - 1
  <2>1. CASE Answer = {}
    BY <1>1, <2>1 DEF WriterIInv, WriterTypes
  <2>2. CASE Answer # {}
    <3>1. Answer \in SUBSET (0 .. MaxSeq)
      BY <1>2, WriterBounds DEF Seqs
    <3>2. Max(Answer) \in Seqs
      BY <1>2, <2>2, <3>1, WriterBounds, MaxIsLargest
    <3>3. QED
      BY <1>1, <2>2, <3>2, WriterBounds DEF Seqs
  <2>3. QED
    BY <2>1, <2>2
<1>7. WriterTypes' /\ FirstLife'
  BY <1>1, <1>6 DEF WriterIInv, WriterTypes, FirstLife
<1>8. OnlyLimitIsSilent'
  BY <1>1, AnswerIsWhole DEF WriterIInv, OnlyLimitIsSilent
<1>9. QED
  BY <1>5, <1>7, <1>8 DEF WriterIInv

LEMMA DeleteKeeps == WriterIInv /\ DeleteRows => WriterIInv'
<1> SUFFICES ASSUME WriterIInv, DeleteRows PROVE WriterIInv'
  OBVIOUS
<1> USE DEF WriterIInv, DeleteRows
<1>1. WriterTypes' /\ LinesTypes'
  BY DEF WriterTypes, LinesTypes
<1>2. EndIsEmpty' /\ FirstLife' /\ OnlyLimitIsSilent'
  BY DEF EndIsEmpty, FirstLife, OnlyLimitIsSilent
<1>3. Apart' /\ Whereabouts'
  BY DEF Apart, Whereabouts
<1>4. QED
  BY <1>1, <1>2, <1>3

LEMMA StopKeeps == WriterIInv /\ Stop => WriterIInv'
<1> SUFFICES ASSUME WriterIInv, Stop PROVE WriterIInv'
  OBVIOUS
<1> USE DEF WriterIInv
<1>1. /\ process = "running" /\ process' = "stopping" /\ gone' = gone \cup flying[Loop]
      /\ flying' = [flying EXCEPT ![Loop] = {}] /\ Loop \in Flushers
      /\ UNCHANGED <<seqNext, first, pend, rows, dropped, last, silent, boots>>
  BY WriterBounds DEF Stop
<1>2. flying'[Loop] = {} /\ \A g \in Flushers : g # Loop => flying'[g] = flying[g]
  BY <1>1 DEF LinesTypes
<1>3. WriterTypes' /\ LinesTypes' /\ EndIsEmpty' /\ FirstLife' /\ OnlyLimitIsSilent'
  BY <1>1 DEF WriterTypes, LinesTypes, EndIsEmpty, FirstLife, OnlyLimitIsSilent
<1>4. Apart'
  <2>1. ASSUME NEW g \in Flushers, NEW s \in flying'[g]
        PROVE  /\ s < seqNext /\ s \notin rows /\ s \notin dropped /\ s \notin pend
               /\ \A h \in Flushers : s \in flying'[h] => h = g
    <3>1. s \in flying[g] /\ \A h \in Flushers : s \in flying'[h] => s \in flying[h]
      BY <1>2, <2>1
    <3>2. QED
      BY <1>1, <3>1 DEF Apart
  <2>2. QED
    BY <1>1, <2>1 DEF Apart
<1>5. Whereabouts'
  BY <1>1, <1>2 DEF Whereabouts
<1>6. QED
  BY <1>3, <1>4, <1>5

LEMMA ExitKeeps == WriterIInv /\ Exit => WriterIInv'
<1> SUFFICES ASSUME WriterIInv, Exit PROVE WriterIInv'
  OBVIOUS
<1> USE DEF WriterIInv
<1>1. /\ process' = "ended" /\ pend' = {} /\ flying' = [f \in Flushers |-> {}] /\ dropped' = {}
      /\ UNCHANGED <<seqNext, first, last, silent, gone, boots>>
  BY DEF Exit
<1>2. PICK done \in SUBSET {f \in Flushers : flying[f] # {}} :
        rows' = rows \cup UNION {flying[f] : f \in done}
  BY DEF Exit
<1>3. \A f \in done : flying[f] \subseteq Seqs
  BY <1>2 DEF LinesTypes
<1>4. rows' \subseteq Seqs
  BY <1>2, <1>3, Zenon DEF LinesTypes
<1>5. WriterTypes' /\ LinesTypes'
  BY <1>1, <1>4 DEF WriterTypes, LinesTypes
<1>6. EndIsEmpty' /\ FirstLife' /\ OnlyLimitIsSilent' /\ Apart' /\ Whereabouts'
  BY <1>1 DEF EndIsEmpty, FirstLife, OnlyLimitIsSilent, Apart, Whereabouts
<1>7. QED
  BY <1>5, <1>6

\* The numbers go on above the highest row.
LEMMA NextIsAbove == WriterIInv => NextSeq \in 0 .. MaxSeq /\ \A s \in rows : s < NextSeq
<1> SUFFICES ASSUME WriterIInv PROVE NextSeq \in 0 .. MaxSeq /\ \A s \in rows : s < NextSeq
  OBVIOUS
<1>1. rows \in SUBSET (0 .. MaxSeq) /\ rows \subseteq Seqs
  BY WriterBounds DEF WriterIInv, LinesTypes, Seqs
<1>2. CASE rows = {}
  BY <1>2, WriterBounds DEF NextSeq
<1>3. CASE rows # {}
  <2>1. Max(rows) \in rows /\ \A s \in rows : s <= Max(rows)
    BY <1>1, <1>3, WriterBounds, MaxIsLargest
  <2>2. NextSeq = Max(rows) + 1
    BY <1>3 DEF NextSeq
  <2>3. Max(rows) \in 0 .. MaxSeq - 1 /\ \A s \in rows : s \in 0 .. MaxSeq - 1
    BY <1>1, <2>1 DEF Seqs
  <2>4. QED
    BY <2>1, <2>2, <2>3, WriterBounds
<1>4. QED
  BY <1>2, <1>3

LEMMA StartKeeps == WriterIInv /\ Start => WriterIInv'
<1> SUFFICES ASSUME WriterIInv, Start PROVE WriterIInv'
  OBVIOUS
<1> USE WriterBounds DEF WriterIInv
<1>1. /\ process = "ended" /\ boots < MaxBoots /\ process' = "running" /\ boots' = boots + 1
      /\ seqNext' = NextSeq /\ first' = NextSeq
      /\ UNCHANGED <<pend, flying, rows, dropped, last, silent, gone>>
  BY DEF Start
<1>2. NextSeq \in 0 .. MaxSeq /\ \A s \in rows : s < NextSeq
  BY NextIsAbove
<1>3. WriterTypes' /\ LinesTypes'
  BY <1>1, <1>2 DEF WriterTypes, LinesTypes
<1>4. boots' # 0
  BY <1>1 DEF WriterTypes
<1>5. EndIsEmpty' /\ FirstLife' /\ OnlyLimitIsSilent' /\ Whereabouts'
  BY <1>1, <1>4 DEF EndIsEmpty, FirstLife, OnlyLimitIsSilent, Whereabouts
<1>6. Apart'
  BY <1>1, <1>2 DEF Apart, EndIsEmpty
<1>7. QED
  BY <1>3, <1>5, <1>6

LEMMA WriterInvariance == WriterIInv /\ [WriterNext]_writerVars => WriterIInv'
<1> SUFFICES ASSUME WriterIInv, [WriterNext]_writerVars PROVE WriterIInv'
  OBVIOUS
<1>1. CASE WriterNext
  BY <1>1, CollectKeeps, ResumeKeeps, DeleteKeeps, StopKeeps, ExitKeeps, StartKeeps, FlushKeeps,
     DoneKeeps DEF WriterNext
<1>2. CASE UNCHANGED writerVars
  <2> USE <1>2 DEF writerVars, WriterIInv
  <2>1. WriterTypes' /\ LinesTypes' /\ EndIsEmpty' /\ FirstLife'
    BY DEF WriterTypes, LinesTypes, EndIsEmpty, FirstLife
  <2>2. Apart' /\ Whereabouts' /\ OnlyLimitIsSilent'
    BY DEF Apart, Whereabouts, OnlyLimitIsSilent
  <2>3. QED
    BY <2>1, <2>2
<1>3. QED
  BY <1>1, <1>2

\* No line is stored twice, none is lost without a count in the first life of
\* the process, and no answer hides one that its limit does not, for any number
\* of lines, capacity, batch, limit and restarts (batch_writer.py;
\* get_logs_since and restore_sessions, debug_service.py).
THEOREM LinesAreKept == WriterSpec => []WriterInv
<1>1. WriterIInv => WriterInv
  <2> SUFFICES ASSUME WriterIInv PROVE WriterInv
    OBVIOUS
  <2>1. WriterTypeOK
    BY DEF WriterIInv, WriterTypes, LinesTypes, WriterTypeOK
  <2>2. \A s \in InFlight : \E f \in Flushers : s \in flying[f]
    BY DEF InFlight
  <2>3. \A f \in Flushers : flying[f] \subseteq InFlight
    BY DEF InFlight
  <2>4. StoredOnce
    BY <2>2 DEF WriterIInv, Apart, StoredOnce
  <2>5. LinesAccounted
    BY <2>3 DEF WriterIInv, Whereabouts, LinesAccounted
  <2>6. QED
    BY <2>1, <2>4, <2>5 DEF WriterIInv, WriterInv
<1>2. QED
  BY <1>1, InitWriter, WriterInvariance, PTL DEF WriterSpec

=============================================================================
