--------------------------- MODULE DeviceRegistry ---------------------------
(* One address of the device table: adb's own table, the refresh loop of      *)
(* DeviceService with the shared query of the details, the repository row,    *)
(* connect, scan and disconnect requests, the event queue of one page and the *)
(* device list that page shows.                                               *)
EXTENDS Naturals, Sequences

CONSTANTS
    Capacity,     \* _SSE_QUEUE_MAXSIZE
    MaxEvents     \* bound: changes of adb's table, requests, failures and other devices' events

ASSUME RegistryAssumption == Capacity \in Nat \ {0} /\ MaxEvents \in Nat

VARIABLES
    real,     \* the state adb gives the address
    seen,     \* a tick has read the present state
    prev,     \* _previous_states of the address
    snap,     \* current_states of the tick that runs
    loop,     \* where _refresh_loop is
    info,     \* the task in _info_tasks
    cool,     \* _info_cooldown has not ended
    row,      \* the repository holds the device
    req,      \* where connect_tcp is
    scan,     \* where scan_and_connect is (_scan_inflight unless "no")
    dis,      \* where disconnect_tcp is
    sub,      \* the event stream of the page
    broken,   \* hadError of the page
    queue,    \* events not yet at the page
    fetch,    \* the newest fetchDevices of the page
    listed,   \* the state its answer gives the address
    dirty,    \* sseDirty
    page,     \* the state the page shows
    missed,   \* history: a change the page is never told of
    spent     \* how many such events there were

tableVars == <<real, seen>>
loopVars == <<prev, snap, loop>>
infoVars == <<info, cool>>
reqVars == <<req, scan, dis>>
pageVars == <<fetch, listed, dirty, page>>
eventVars == <<sub, broken, queue, missed>>
regVars == <<tableVars, loopVars, infoVars, row, reqVars, pageVars, eventVars, spent>>

States == {"absent", "offline", "device"}

RegInit ==
    /\ real \in {"absent", "device"} /\ seen = FALSE
    /\ prev = "absent" /\ snap = "absent" /\ loop = "asleep"
    /\ info = "none" /\ cool = FALSE /\ row = FALSE
    /\ req = "idle" /\ scan = "no" /\ dis = "idle"
    /\ sub = "connecting" /\ broken = FALSE /\ queue = <<>>
    /\ fetch = "asked" /\ listed = "absent" /\ dirty = FALSE /\ page = "absent"
    /\ missed = FALSE /\ spent = 0

Spends == spent < MaxEvents /\ spent' = spent + 1

\* A failure is an event of its own where the step could have succeeded.
Fails(couldSucceed) == IF couldSucceed THEN Spends ELSE UNCHANGED spent

\* adb's table takes another state; the one before is missed if no tick read it.
Becomes(s) == /\ real' = s
              /\ seen' = (s = real /\ seen)

AdbChanges == \E s \in States \ {real} :
    /\ Spends
    /\ Becomes(s)
    /\ missed' = (missed \/ ~seen)
    /\ UNCHANGED <<loopVars, infoVars, row, reqVars, pageVars, sub, broken, queue>>

(* ------------------------------ events ---------------------------------- *)
\* _push drops the oldest events for room; without a client nobody is called.
Queued(e) == IF Len(queue) < Capacity THEN Append(queue, e) ELSE Append(Tail(queue), e)

Drops == Len(queue) = Capacity /\ Head(queue) # "other"
Unheard == sub = "closed" \/ (sub = "connecting" /\ ~broken)

Triggers(e) ==
    /\ queue' = IF sub = "on" THEN Queued(e) ELSE queue
    /\ missed' = (missed \/ IF sub = "on" THEN Drops ELSE Unheard)
    /\ UNCHANGED <<sub, broken>>

\* Another device has news for the same page.
OtherEvent ==
    /\ sub = "on" /\ Spends
    /\ Triggers("other")
    /\ UNCHANGED <<tableVars, loopVars, infoVars, row, reqVars, pageVars>>

(* ---------------------------- refresh loop ------------------------------ *)
Sleeps(s) == loop' = "asleep" /\ prev' = s /\ snap' = s

Skips == missed' = TRUE /\ UNCHANGED <<sub, broken, queue>>

Tick ==
    /\ loop = "asleep"
    /\ seen' = TRUE
    /\ UNCHANGED <<real, row, reqVars, pageVars, cool, spent>>
    /\ \/ real = prev /\ Sleeps(real) /\ UNCHANGED <<info, eventVars>>
       \/ real = "offline" /\ prev # real /\ Sleeps(real) /\ Triggers("offline") /\ UNCHANGED info
       \/ /\ real = "absent" /\ prev # real
          /\ loop' = "deleting" /\ snap' = real /\ UNCHANGED <<prev, info, eventVars>>
       \/ /\ real = "device" /\ prev # real
          /\ IF cool
             THEN Sleeps(real) /\ Skips /\ UNCHANGED info
             ELSE /\ loop' = "querying" /\ snap' = real
                  /\ info' = IF info = "none" THEN "query" ELSE info
                  /\ UNCHANGED <<prev, eventVars>>

\* The row of a vanished device goes and then the page is told; a failed delete skips both.
RowDeleted ==
    /\ loop = "deleting"
    /\ Sleeps(snap)
    /\ \/ row' = FALSE /\ Triggers("absent") /\ UNCHANGED spent
       \/ Skips /\ Spends /\ UNCHANGED row
    /\ UNCHANGED <<tableVars, infoVars, reqVars, pageVars>>

\* The details have come: a second save, and the page is told.
Announces ==
    /\ loop = "saving"
    /\ row' = TRUE
    /\ Sleeps(snap) /\ Triggers("device")
    /\ UNCHANGED <<tableVars, infoVars, reqVars, pageVars, spent>>

(* ------------------- the shared query of the details -------------------- *)
QuerySucceeds ==
    /\ info = "query" /\ real = "device"
    /\ info' = "save" /\ cool' = FALSE
    /\ UNCHANGED <<tableVars, loopVars, row, reqVars, pageVars, eventVars, spent>>

\* The waiters of the task go on: the tick to its save or to sleep, the list to its answer.
WaitersGo(ok) ==
    /\ IF loop = "querying"
       THEN IF ok THEN loop' = "saving" /\ UNCHANGED <<prev, snap, eventVars>>
                  ELSE Sleeps(snap) /\ Skips
       ELSE UNCHANGED <<loopVars, eventVars>>
    /\ fetch' = IF fetch = "listing" THEN "answered" ELSE fetch
    /\ UNCHANGED <<listed, dirty, page>>

QueryFails ==
    /\ info = "query" /\ Fails(real = "device")
    /\ info' = "none" /\ cool' = TRUE
    /\ WaitersGo(FALSE)
    /\ UNCHANGED <<tableVars, row, reqVars>>

QuerySaved ==
    /\ info = "save"
    /\ info' = "none" /\ row' = TRUE
    /\ WaitersGo(TRUE)
    /\ UNCHANGED <<tableVars, cool, reqVars, spent>>

CooldownEnds ==
    /\ cool /\ cool' = FALSE
    /\ UNCHANGED <<tableVars, loopVars, info, row, reqVars, pageVars, eventVars, spent>>

(* ------------------------------ requests -------------------------------- *)
\* fetchDevices: the newest call counts, the answers of older ones are dropped.
Refetches == fetch' = "asked" /\ UNCHANGED <<listed, dirty, page>>
IfMounted(A) == IF sub = "off" THEN UNCHANGED pageVars ELSE A

\* The connect of a scan or of the user is over.
ConnectEnds == /\ req' = "idle"
               /\ scan' = IF scan = "connecting" THEN "no" ELSE scan
               /\ IfMounted(Refetches)

ConnectBegins ==
    /\ req = "idle" /\ scan # "connecting" /\ Spends
    /\ req' = "adb"
    /\ UNCHANGED <<tableVars, loopVars, infoVars, row, scan, dis, pageVars, eventVars>>

ScanBegins ==
    /\ scan = "no" /\ Spends
    /\ scan' = "probing"
    /\ UNCHANGED <<tableVars, loopVars, infoVars, row, req, dis, pageVars, eventVars>>

\* The port is open and a place among the connects free, or there is nothing to connect to.
ScanProbed ==
    /\ scan = "probing"
    /\ \/ req = "idle" /\ req' = "adb" /\ scan' = "connecting" /\ UNCHANGED pageVars
       \/ scan' = "no" /\ UNCHANGED req /\ IfMounted(Refetches)
    /\ UNCHANGED <<tableVars, loopVars, infoVars, row, dis, eventVars, spent>>

\* adb connects, finds the address connected, or refuses (unreachable, not ready).
AdbConnects ==
    /\ req = "adb"
    /\ \/ /\ real # "offline" /\ Becomes("device")
          /\ missed' = (missed \/ (real # "device" /\ ~seen))
          /\ req' = "info" /\ UNCHANGED <<scan, pageVars, spent>>
       \/ ConnectEnds /\ Fails(real # "offline") /\ UNCHANGED <<real, seen, missed>>
    /\ UNCHANGED <<loopVars, infoVars, row, dis, sub, broken, queue>>

\* connect_tcp asks for the details by itself; a failure does not fail the connect.
ConnectReads ==
    /\ req = "info"
    /\ \/ real = "device" /\ req' = "save" /\ UNCHANGED <<scan, pageVars, spent>>
       \/ ConnectEnds /\ Fails(real = "device")
    /\ UNCHANGED <<tableVars, loopVars, infoVars, row, dis, eventVars>>

ConnectSaves ==
    /\ req = "save"
    /\ row' = TRUE /\ ConnectEnds
    /\ UNCHANGED <<tableVars, loopVars, infoVars, dis, eventVars, spent>>

DisconnectBegins ==
    /\ dis = "idle" /\ Spends
    /\ dis' = "adb"
    /\ UNCHANGED <<tableVars, loopVars, infoVars, row, req, scan, pageVars, eventVars>>

\* An unreachable address keeps its entry in adb's table; an error is only logged.
AdbDisconnects ==
    /\ dis = "adb" /\ dis' = "delete"
    /\ \/ Becomes("absent") /\ missed' = (missed \/ (real # "absent" /\ ~seen))
       \/ UNCHANGED <<real, seen, missed>>
    /\ UNCHANGED <<spent, loopVars, infoVars, row, req, scan, pageVars, sub, broken, queue>>

DisconnectDeletes ==
    /\ dis = "delete" /\ dis' = "clean" /\ row' = FALSE
    /\ UNCHANGED <<tableVars, loopVars, infoVars, req, scan, pageVars, eventVars, spent>>

\* The cancelled task answers nobody: its waiters take None. The page drops its row.
Wakes == IF info = "none" THEN UNCHANGED <<loopVars, eventVars>>
         ELSE IF loop = "querying" THEN Sleeps(snap) /\ Skips ELSE UNCHANGED <<loopVars, eventVars>>

DisconnectEnds ==
    /\ dis = "clean" /\ dis' = "idle"
    /\ info' = "none" /\ cool' = FALSE
    /\ Wakes
    /\ IF sub = "off" THEN UNCHANGED pageVars
       ELSE page' = "absent" /\ fetch' = "asked" /\ UNCHANGED <<listed, dirty>>
    /\ UNCHANGED <<tableVars, row, req, scan, spent>>

(* ------------------------------- the page ------------------------------- *)
\* Mounted: the event stream is opened and the list asked for.
Mount ==
    /\ sub = "off" /\ Spends
    /\ sub' = "connecting" /\ broken' = FALSE
    /\ Refetches
    /\ UNCHANGED <<tableVars, loopVars, infoVars, row, req, scan, dis, queue, missed>>

Unmount ==
    /\ sub # "off" /\ Spends /\ sub' = "off" /\ queue' = <<>> /\ broken' = FALSE
    /\ fetch' = "no" /\ dirty' = FALSE /\ listed' = "absent" /\ UNCHANGED page
    /\ UNCHANGED <<tableVars, loopVars, infoVars, row, reqVars, missed>>

\* The stream breaks with what it carried; the browser opens it again by itself.
StreamBreaks ==
    /\ sub = "on" /\ Spends
    /\ sub' = "connecting" /\ broken' = TRUE /\ queue' = <<>>
    /\ UNCHANGED <<tableVars, loopVars, infoVars, row, req, scan, dis, pageVars, missed>>

\* faulty variant: the list is not asked for anew
OpensOnly == UNCHANGED pageVars

\* onopen: after a break the list is asked for anew.
Opens == IF broken THEN Refetches ELSE UNCHANGED pageVars

StreamOpens ==
    /\ sub = "connecting" /\ sub' = "on" /\ broken' = FALSE
    /\ Opens
    /\ UNCHANGED <<spent, tableVars, loopVars, infoVars, row, reqVars, queue, missed>>

\* Too many streams are open: the browser gives this one up for good, and what has
\* happened since a break the page is never told.
StreamRefused ==
    /\ sub = "connecting" /\ Spends
    /\ sub' = "closed" /\ missed' = (missed \/ broken)
    /\ UNCHANGED <<tableVars, loopVars, infoVars, row, req, scan, dis, pageVars, broken, queue>>

\* faulty variant: the answer to an older question is shown
MarksNothing == UNCHANGED dirty

\* onmessage: an event that comes while a list is awaited makes the page ask again.
MarksDirty == dirty' = (dirty \/ fetch # "no")

EventArrives ==
    /\ sub = "on" /\ queue # <<>>
    /\ queue' = Tail(queue)
    /\ page' = IF Head(queue) = "other" THEN page ELSE Head(queue)
    /\ MarksDirty
    /\ UNCHANGED <<spent, tableVars, loopVars, infoVars, row, reqVars, fetch, listed, sub, broken, missed>>

\* list_devices reads adb's table, and waits for the details of a device that has none.
ListReads ==
    /\ fetch = "asked"
    /\ listed' = real
    /\ IF real = "device" /\ ~cool
       THEN fetch' = "listing" /\ info' = IF info = "none" THEN "query" ELSE info
       ELSE fetch' = "answered" /\ UNCHANGED info
    /\ UNCHANGED <<spent, tableVars, loopVars, cool, row, reqVars, dirty, page, eventVars>>

\* The answer replaces the list of the page; events since then make it ask once more.
ListArrives ==
    /\ fetch = "answered"
    /\ page' = listed /\ dirty' = FALSE /\ listed' = "absent"
    /\ fetch' = IF dirty THEN "asked" ELSE "no"
    /\ UNCHANGED <<spent, tableVars, loopVars, infoVars, row, reqVars, eventVars>>

\* A failed fetch leaves the old list, and asks for nothing more.
ListFails ==
    /\ fetch \in {"asked", "answered"} /\ Spends /\ fetch' = "no" /\ missed' = TRUE
    /\ UNCHANGED <<tableVars, loopVars, infoVars, row, reqVars, listed, dirty, page, sub, broken, queue>>

LoopStep == Tick \/ RowDeleted \/ Announces
TaskStep == QuerySucceeds \/ QueryFails \/ QuerySaved
ConnectStep == AdbConnects \/ ConnectReads \/ ConnectSaves
DisconnectStep == AdbDisconnects \/ DisconnectDeletes \/ DisconnectEnds
PageStep == StreamOpens \/ EventArrives \/ ListReads \/ ListArrives

RegNext == \/ AdbChanges \/ OtherEvent \/ CooldownEnds \/ LoopStep \/ TaskStep
           \/ ConnectBegins \/ ScanBegins \/ ScanProbed \/ ConnectStep
           \/ DisconnectBegins \/ DisconnectStep
           \/ Mount \/ Unmount \/ StreamBreaks \/ StreamRefused \/ PageStep \/ ListFails

\* Every task that can run does: the loop ticks, commands end or time out, the
\* database answers, the page is served, its stream opened unless it is refused.
RegFairness == /\ WF_regVars(LoopStep) /\ WF_regVars(TaskStep) /\ WF_regVars(ScanProbed)
               /\ WF_regVars(ConnectStep) /\ WF_regVars(DisconnectStep)
               /\ WF_regVars(StreamOpens \/ EventArrives) /\ WF_regVars(ListReads \/ ListArrives)

RegSpec == RegInit /\ [][RegNext]_regVars /\ RegFairness
-----------------------------------------------------------------------------
(* The states are those the code has, and the queue of events is bounded      *)
(* (_push, http/devices.py:113-121).                                          *)
RegTypeOK ==
    /\ real \in States /\ prev \in States /\ snap \in States /\ page \in States
    /\ listed \in States /\ loop \in {"asleep", "querying", "saving", "deleting"}
    /\ info \in {"none", "query", "save"} /\ req \in {"idle", "adb", "info", "save"}
    /\ scan \in {"no", "probing", "connecting"} /\ dis \in {"idle", "adb", "delete", "clean"}
    /\ sub \in {"off", "connecting", "on", "closed"} /\ fetch \in {"no", "asked", "listing", "answered"}
    /\ {cool, row, broken, dirty, missed, seen} \subseteq BOOLEAN
    /\ queue \in Seq(States \cup {"other"}) /\ Len(queue) <= Capacity
    /\ spent \in 0..MaxEvents

(* Whoever waits for the details waits for a task that runs: a disconnect     *)
(* that cancels the query of others lets them go on (_get_info_cached,        *)
(* device_service.py:183-190).                                                *)
WaitersAreFed == loop = "querying" \/ fetch = "listing" => info # "none"

Quiet == /\ loop = "asleep" /\ seen /\ prev = real
         /\ sub \in {"on", "closed"} /\ queue = <<>> /\ fetch = "no"

(* When nothing is under way the page shows the state adb gives the device,   *)
(* whatever order lists and events arrived in and however often the stream    *)
(* broke, unless a change was really lost: details in cooldown or failing at  *)
(* the announcement, a failed delete, an event dropped from a full queue or   *)
(* sent where no stream was open, a state no tick saw, a failed list          *)
(* (refresh loop, device_service.py:537-612; fetchDevices, device.ts:107-140).*)
PageIsTrue == Quiet /\ ~missed => page = real

(* With adb's table at rest the page ends up with the truth, and stays there. *)
PageCatchesUp == <>[](sub = "off" \/ missed \/ page = real)

(* A scan lets the next one in, whatever becomes of its connects              *)
(* (scan_and_connect, device_service.py:411-478).                             *)
ScanIsLeft == scan # "no" ~> scan = "no"

(* The loop comes back to its sleep, whoever cancels the query it waits for.  *)
LoopReturns == loop # "asleep" ~> loop = "asleep"

(* Nobody waits for a task that is gone, and what the page shows at rest is   *)
(* so (device_service.py, device.ts:107-140).                                 *)
RegInv == RegTypeOK /\ WaitersAreFed /\ PageIsTrue

(* The loop and the scans go on, and the page comes to the truth              *)
(* (device_service.py:411-612).                                               *)
RegGoesOn == PageCatchesUp /\ ScanIsLeft /\ LoopReturns

(* The comment of disconnect_tcp says that a query on its way must not bring  *)
(* a deleted row back (device_service.py:494): an address that adb no longer  *)
(* has, with nothing under way, has no row.                                   *)
GoneIsForgotten ==
    real = "absent" /\ prev = real /\ seen /\ loop = "asleep" /\ info = "none"
    /\ req = "idle" /\ dis = "idle" /\ ~missed => ~row
=============================================================================
