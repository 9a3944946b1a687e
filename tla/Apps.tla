-------------------------------- MODULE Apps --------------------------------
(* One application of a device: the details put together from the answers of  *)
(* several adb commands, the list, and what a request changes. The device     *)
(* goes on meanwhile, a command may fail, and one that times out may still be *)
(* carried out.                                                               *)
EXTENDS Naturals

CONSTANT MaxPids   \* bound: processes the application ever has

ASSUME AppsAssumption == MaxPids \in Nat

VARIABLES
    there,   \* the package is installed
    pid,     \* its process, 0 for none
    pids,    \* processes so far
    data,    \* it has data of the user
    query,   \* a request for details or for the list: its step, and what it knows
    order,   \* the request that changes the application
    seen     \* history: what was true at some time of each of the two

appVars == <<there, pid, pids, data, query, order, seen>>

Nothing == [step |-> "none", answer |-> "none", apk |-> FALSE, size |-> FALSE, pid |-> 0, memory |-> FALSE]
NoOrder == [what |-> "none", step |-> "none", told |-> "none"]
Sight == [there |-> {there}, pids |-> {pid}, data |-> {data}]
More(s) == [there |-> s.there \union {there'}, pids |-> s.pids \union {pid'}, data |-> s.data \union {data'}]

AppsInit == /\ there \in BOOLEAN /\ pid = 0 /\ pids = 0 /\ data = FALSE
            /\ query = Nothing /\ order = NoOrder
            /\ seen = [query |-> Sight, order |-> Sight]

Looks == seen' = [r \in {"query", "order"} |-> More(seen[r])]

(* ------------------------------ the device ------------------------------ *)
StartsUp == /\ there /\ pid = 0 /\ pids < MaxPids
          /\ pids' = pids + 1 /\ pid' = pids' /\ data' = TRUE /\ UNCHANGED there
Dies == pid # 0 /\ pid' = 0 /\ UNCHANGED <<there, pids, data>>
Installed == ~there /\ there' = TRUE /\ UNCHANGED <<pid, pids, data>>
Removed == there /\ there' = FALSE /\ pid' = 0 /\ data' = FALSE /\ UNCHANGED pids
Device == (StartsUp \/ Dies \/ Installed \/ Removed) /\ Looks /\ UNCHANGED <<query, order>>

(* ----------------- get_app_info: one command after another -------------- *)
NoChange == UNCHANGED <<there, pid, pids, data>>
Fresh(first) == [Nothing EXCEPT !.step = first]
BeginQuery(first) == /\ query.step \in {"none", "told"}
                     /\ query' = Fresh(first)
                     /\ seen' = [seen EXCEPT !.query = Sight]

Knows(change) == query' = change /\ UNCHANGED seen

\* faulty variant: a command that fails counts as no such application
FailsAsAbsent == "absent"
FailsAs == "error"
GetApkPath == /\ query.step = "path"
              /\ \E apk \in {there, FALSE} : Knows([query EXCEPT !.step = "package", !.apk = apk])
DumpPackage ==
    /\ query.step = "package"
    /\ \/ Knows(IF there THEN [query EXCEPT !.step = IF query.apk THEN "size" ELSE "processes"]
                    ELSE [query EXCEPT !.step = "told", !.answer = "absent"])
       \/ Knows([query EXCEPT !.step = "told", !.answer = FailsAs])
GetSize == /\ query.step = "size"
           /\ \E known \in {there, FALSE} : Knows([query EXCEPT !.step = "processes", !.size = known])

\* _check_app_running: a failure says that it does not run.
MemoryOf(p) == IF p # 0 THEN "memory" ELSE "told"
CheckRunning == /\ query.step = "processes"
                /\ \E p \in {pid, 0} :
                      Knows([query EXCEPT !.step = MemoryOf(p), !.answer = "details", !.pid = p])
GetMemory == /\ query.step = "memory"
             /\ \E m \in {pid # 0, FALSE} : Knows([query EXCEPT !.step = "told", !.memory = m])

(* ------------------------------- list_apps ------------------------------ *)
ListNames ==
    /\ query.step = "names"
    /\ \/ Knows(IF there THEN [query EXCEPT !.step = "packages"]
                    ELSE [query EXCEPT !.step = "told", !.answer = "absent"])
       \/ Knows([query EXCEPT !.step = "told", !.answer = FailsAs])
ListPackages ==
    /\ query.step = "packages"
    /\ \/ Knows([query EXCEPT !.step = "running", !.apk = there])
       \/ Knows([query EXCEPT !.step = "told", !.answer = FailsAs])
ListRunning == /\ query.step = "running"
               /\ \E p \in {pid, 0} : Knows([query EXCEPT !.step = "told", !.answer = "details", !.pid = p])

Asks == /\ \/ BeginQuery("path") \/ GetApkPath \/ DumpPackage \/ GetSize \/ CheckRunning \/ GetMemory
           \/ BeginQuery("names") \/ ListNames \/ ListPackages \/ ListRunning
        /\ NoChange /\ UNCHANGED order

(* ------- launch_app, stop_app, uninstall_app, clear_app_data ------------ *)
Orders == {"launch", "stop", "uninstall", "clear"}
Order(what) == /\ order.step \in {"none", "told"}
               /\ order' = [what |-> what, step |-> "sent", told |-> "none"]
               /\ seen' = [seen EXCEPT !.order = Sight] /\ NoChange /\ UNCHANGED query

\* What a command does, and whether its text says so.
Carried(what) ==
    CASE what = "launch" -> NoChange \/ StartsUp    \* an event is injected, no more
      [] what = "stop" -> pid' = 0 /\ UNCHANGED <<there, pids, data>>
      [] what = "uninstall" -> Removed
      [] OTHER -> there /\ pid' = 0 /\ data' = FALSE /\ UNCHANGED <<there, pids>>

Carry == /\ order.step \in {"sent", "lost"}
         /\ Carried(order.what) /\ Looks
         /\ order' = [order EXCEPT !.step = IF @ = "sent" THEN "carried" ELSE "told"]
         /\ UNCHANGED query
Refuse == /\ order.step = "sent"
          /\ order' = [order EXCEPT !.step = "refused"]
          /\ NoChange /\ UNCHANGED <<query, seen>>

Told(step) == IF step = "carried" THEN "ok" ELSE "failed"
Tell == /\ order.step \in {"carried", "refused"}
        /\ order' = [order EXCEPT !.step = "told", !.told = Told(order.step)]
        /\ NoChange /\ UNCHANGED <<query, seen>>
\* The command times out: adb is killed here, the device may still act.
TimesOut == /\ order.step = "sent"
            /\ order' = [order EXCEPT !.step = "lost", !.told = "failed"]
            /\ NoChange /\ UNCHANGED <<query, seen>>

AppsNext == Device \/ Asks \/ Carry \/ Refuse \/ Tell \/ TimesOut \/ \E what \in Orders : Order(what)

AppsSpec == AppsInit /\ [][AppsNext]_appVars

-----------------------------------------------------------------------------
(* Steps and answers are those of the code; memory is asked for only when     *)
(* there is a process.                                                        *)
AppsTypeOK ==
    /\ pid \in 0..pids /\ pids \in 0..MaxPids /\ (pid # 0 => there)
    /\ query.memory => query.pid # 0 /\ query.answer = "details"
    /\ query.answer # "none" => query.step \in {"told", "memory"}

(* A request answers that the application is not there only if it was away at *)
(* some time of the request, and gives details only if it was there: a device *)
(* that cannot be reached is no empty list and no missing application         *)
(* (app_service.py:104-183, 281-351).                                         *)
AbsentIsTrue == /\ query.answer = "absent" => FALSE \in seen.query.there
                /\ query.answer = "details" => TRUE \in seen.query.there

(* A process that is reported was one of the application during the request   *)
(* (app_service.py:236-257, 326-345, 365-380).                                *)
RunningIsTrue == query.pid \in seen.query.pids \union {0}

(* An order that is answered with success was carried out: the application    *)
(* has been since as the order wants it; a launch only promises its event     *)
(* (app_service.py:408-514).                                                  *)
SuccessIsTrue ==
    order.told = "ok" =>
        CASE order.what = "launch" -> TRUE
          [] order.what = "stop" -> 0 \in seen.order.pids
          [] order.what = "uninstall" -> FALSE \in seen.order.there
          [] OTHER -> FALSE \in seen.order.data

(* An answer is true of some time of its request (app_service.py).            *)
AppsInv == AppsTypeOK /\ AbsentIsTrue /\ RunningIsTrue /\ SuccessIsTrue
=============================================================================
