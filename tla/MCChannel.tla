----------------------------- MODULE MCChannel ------------------------------
(* The video of a session and what travels beside and inside it, one part at  *)
(* a time: the queue of the encoder, clipboard, input, access units, and the  *)
(* steps of the bit rate.                                                     *)
EXTENDS VideoQueue, Clipboard, ControlInput, AccessUnits, BitrateAdvisor

VARIABLE focus

\* The idle threshold below the stall grace, as with the default settings.
ASSUME IdleTicks < StallTicks

Init == /\ QueueInit /\ ClipInit /\ ControlInit /\ UnitInit /\ AdvisorInit
        /\ focus \in {"queue", "clipboard", "input", "units", "advisor"}
        /\ focus # "queue" => control /\ idleProbe
        /\ focus # "units" => packets
        /\ focus # "input" => conn = "up"
        /\ focus # "clipboard" => enc /\ dev = CHOOSE t \in Texts : TRUE

besides == <<clipVars, controlVars, unitVars, advisorVars>>

Next == /\ UNCHANGED focus
        /\ \/ focus = "queue" /\ QueueNext /\ UNCHANGED besides
           \/ focus = "clipboard" /\ ClipNext /\ UNCHANGED <<queueVars, controlVars, unitVars, advisorVars>>
           \/ focus = "input" /\ ControlNext /\ UNCHANGED <<queueVars, clipVars, unitVars, advisorVars>>
           \/ focus = "units" /\ UnitNext /\ UNCHANGED <<queueVars, clipVars, controlVars, advisorVars>>
           \/ focus = "advisor" /\ AdvisorNext /\ UNCHANGED <<queueVars, clipVars, controlVars, unitVars>>

\* QueueFairness where the run looks at the queue: its loop goes by itself.
OnlyQueue == focus = "queue" /\ UNCHANGED <<focus, besides>>
FairQueue ==
    /\ WF_queueVars(OnlyQueue /\ Get) /\ WF_queueVars(OnlyQueue /\ Resume) /\ WF_queueVars(OnlyQueue /\ Tick)
    /\ WF_queueVars(OnlyQueue /\ PutSucceeds)
    /\ WF_queueVars(OnlyQueue /\ (ConfigTimesOut \/ KeyTimesOut \/ DeltaTimesOut))
    /\ WF_queueVars(OnlyQueue /\ Honour)
    /\ WF_queueVars(OnlyQueue /\ ~exited /\ (ReadSession \/ Read("config") \/ Read("key")))

Spec == /\ Init
        /\ [][Next]_<<focus, queueVars, besides>>
        /\ FairQueue /\ ClipFairness

-----------------------------------------------------------------------------
\* The end of the video is noticed, a frozen picture moves again or is given
\* up, and the page learns the clipboard (read_socket and the loop of start,
\* scrcpy.py:453-646; clipboard_mirror.py).
ChannelGoesOn == EndIsNoticed /\ KeyFrameComes /\ MirrorTells
=============================================================================
