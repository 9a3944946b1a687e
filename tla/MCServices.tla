----------------------------- MODULE MCServices -----------------------------
(* The services beside streams, recordings and monitoring, one at a time:     *)
(* collaborative sessions, file transfers, settings, what the database keeps, *)
(* applications.                                                              *)
EXTENDS SessionControl, FileTransfer, Settings, Retention, Apps

CONSTANT Parts   \* those the run looks at

VARIABLE focus

\* Metrics are kept for two hours, logs and the history of the shell for one.
const_Keep == [t \in Tables |-> IF t \in Metrics THEN 1 ELSE 0]

Init == /\ SessionInit /\ FileInit /\ SettingsInit /\ RetentionInit /\ AppsInit
        /\ focus \in Parts
        /\ focus # "apps" => there

Next ==
    /\ UNCHANGED focus
    /\ \/ focus = "sessions" /\ SessionNext /\ UNCHANGED <<fileVars, settingsVars, retentionVars, appVars>>
       \/ focus = "files" /\ FileNext /\ UNCHANGED <<sessions, settingsVars, retentionVars, appVars>>
       \/ focus = "settings" /\ SettingsNext /\ UNCHANGED <<sessions, fileVars, retentionVars, appVars>>
       \/ focus = "retention" /\ RetentionNext /\ UNCHANGED <<sessions, fileVars, settingsVars, appVars>>
       \/ focus = "apps" /\ AppsNext /\ UNCHANGED <<sessions, fileVars, settingsVars, retentionVars>>

\* What begins by itself is fair where the run looks at it.
OnlyRetention == /\ focus = "retention"
                 /\ UNCHANGED <<focus, sessions, fileVars, settingsVars, appVars>>

Spec == /\ Init
        /\ [][Next]_<<focus, sessions, fileVars, settingsVars, retentionVars, appVars>>
        /\ FileFairness /\ SettingsFairness
        /\ \A c \in Callers : /\ WF_retentionVars(OnlyRetention /\ BeginCleanup(c))
                              /\ WF_retentionVars(OnlyRetention /\ Cleans(c))

-----------------------------------------------------------------------------
\* What a service holds it gives back, and takes up what has changed: the slot of
\* a transfer, its directory, the steps of a cleanup, the rows beyond the limit,
\* settings that can be loaded (file_service.py:391-426, debug_service.py:848-930,
\* config_watch.py:99-113).
ServicesGoOn == SlotIsFreed /\ LooksHelp /\ CleanupEnds /\ LimitHolds /\ ChangesArrive
=============================================================================
