----------------------------- MODULE MCMonitor ------------------------------
(* The monitoring of a device, its recorder, an alert rule, and the device    *)
(* table with one address and one page, one at a time.                        *)
EXTENDS Monitoring, MetricRecorder, AlertEngine, DeviceRegistry

VARIABLE focus

\* A rule, and its successor after a change of the settings.
const_Rules == {[consecutive |-> 2, clear |-> 2, cooldown |-> 3],
                [consecutive |-> 1, clear |-> 2, cooldown |-> 3]}

Init == /\ MonInit /\ RecInit /\ AlertInit /\ RegInit
        /\ focus \in {"service", "recorder", "alert", "registry"}
        /\ real = "absent" /\ (focus # "service" => net)

Next == /\ UNCHANGED focus
        /\ \/ focus = "service" /\ MonNext /\ UNCHANGED <<recVars, alertVars, regVars>>
           \/ focus = "recorder" /\ RecNext /\ UNCHANGED <<monVars, alertVars, regVars>>
           \/ focus = "alert" /\ AlertNext /\ UNCHANGED <<monVars, recVars, regVars>>
           \/ focus = "registry" /\ RegNext /\ UNCHANGED <<monVars, recVars, alertVars>>

\* RegFairness, where the run looks at the registry.
OfRegistry == focus = "registry"
Spec == /\ Init /\ [][Next]_<<focus, monVars, recVars, alertVars, regVars>>
        /\ MonFairness
        /\ WF_regVars(OfRegistry /\ LoopStep) /\ WF_regVars(OfRegistry /\ TaskStep)
        /\ WF_regVars(OfRegistry /\ ScanProbed) /\ WF_regVars(OfRegistry /\ ConnectStep)
        /\ WF_regVars(OfRegistry /\ DisconnectStep)
        /\ WF_regVars(OfRegistry /\ (StreamOpens \/ EventArrives))
        /\ WF_regVars(OfRegistry /\ (ListReads \/ ListArrives))
=============================================================================
