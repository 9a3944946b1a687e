------------------------------ MODULE MCDebug -------------------------------
(* The four parts of a debug session, one at a time: `focus` chooses the part *)
(* that moves, so that the state spaces add up and do not multiply.           *)
EXTENDS DebugSession, DebugShell, InteractiveShell, LogWriter

VARIABLE focus

Init == /\ LogInit /\ ShellInit /\ InterInit /\ WriterInit
        /\ focus \in {"log", "shell", "process", "writer"}

Next == /\ UNCHANGED focus
        /\ \/ focus = "log" /\ LogNext /\ UNCHANGED <<shellVars, interVars, writerVars>>
           \/ focus = "shell" /\ ShellNext /\ UNCHANGED <<logVars, interVars, writerVars>>
           \/ focus = "process" /\ InterNext /\ UNCHANGED <<logVars, shellVars, writerVars>>
           \/ focus = "writer" /\ WriterNext /\ UNCHANGED <<logVars, shellVars, interVars>>

Spec == /\ Init
        /\ [][Next]_<<focus, logVars, shellVars, interVars, writerVars>>
        /\ LogFairness /\ InterFairness /\ WriterFairness

-----------------------------------------------------------------------------
\* A debug session goes on: pauses and departures end the collection, a command
\* gives the shell back, and no line waits in the writer for ever
\* (debug_service.py, shell.py, batch_writer.py).
DebugGoesOn == PauseStops /\ NobodyLeft /\ LockIsLeft /\ NoLineWaits
=============================================================================
