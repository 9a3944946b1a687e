-------------------------- MODULE InteractiveShell --------------------------
(***************************************************************************)
(* InteractiveShell: one adb shell process whose output is routed to the   *)
(* command in execution or to the terminal. The end of a command is known  *)
(* by a marker that the shell prints after it. The shell has a terminal    *)
(* (-tt), which repeats each line it is given, with the marker in it.      *)
(* Output is a sequence of chunks [of, what]: text, the marker printed, the *)
(* line repeated, or a chunk in which the marker is torn over two reads.   *)
(***************************************************************************)
EXTENDS Naturals, Sequences, SequencesExt

CONSTANTS Cmds,       \* commands executed
          NoCmd,
          MaxText     \* bound: chunks of text of one command

ASSUME InteractiveAssumption == NoCmd \notin Cmds /\ MaxText \in Nat

VARIABLES
    state,     \* state of the command: new, drain, wait or how it ended
    owner,     \* who holds the lock
    executing, \* _executing: where the reader puts what it reads
    typed,     \* commands written that have not reached the device
    inbox,     \* device: commands not yet executed
    texts,     \* device: chunks of text of the command in execution
    pipe,      \* output that was not read yet
    execQ,     \* _exec_queue; the end mark is of NoCmd
    got,       \* per command: whose text it has yielded
    reader,    \* background reader: runs, ended (end marks put) or cancelled
    alive,     \* the process lives
    reaped,    \* its return code is known
    late       \* history: commands begun when the reader had ended

interVars == <<state, owner, executing, typed, inbox, texts, pipe, execQ, got, reader,
               alive, reaped, late>>

Kinds == {"text", "mark", "echo", "torn", "end"}
Chunks == [of : Cmds \cup {NoCmd}, what : Kinds]
EndMark == [of |-> NoCmd, what |-> "end"]

InterTypeOK ==
    /\ state \in [Cmds -> {"new", "drain", "wait", "done", "cut", "left", "failed"}]
    /\ owner \in Cmds \cup {NoCmd} /\ executing \in BOOLEAN
    /\ typed \in Seq(Cmds) /\ inbox \in Seq(Cmds) /\ texts \in 0 .. MaxText
    /\ pipe \in Seq(Chunks) /\ execQ \in Seq(Chunks)
    /\ got \in [Cmds -> SUBSET Cmds] /\ late \subseteq Cmds
    /\ reader \in {"runs", "ended", "cancelled"}
    /\ alive \in BOOLEAN /\ reaped \in BOOLEAN
    \* the lock is held by a command under way
    /\ owner # NoCmd => state[owner] \in {"drain", "wait"}

InterInit ==
    /\ state = [c \in Cmds |-> "new"] /\ owner = NoCmd /\ executing = FALSE
    /\ typed = <<>> /\ inbox = <<>> /\ texts = 0 /\ pipe = <<>> /\ execQ = <<>>
    /\ got = [c \in Cmds |-> {}] /\ reader = "runs"
    /\ alive = TRUE /\ reaped = FALSE /\ late = {}

procVars == <<typed, inbox, texts, pipe, alive, reaped>>
routing == <<execQ, got, reader, late>>

-----------------------------------------------------------------------------
(* execute *)

\* With the lock: the queue is cleared, the command is written.
Begin(c) ==
    /\ state[c] = "new" /\ owner = NoCmd /\ ~reaped
    /\ execQ' = <<>> /\ executing' = TRUE /\ owner' = c
    /\ state' = [state EXCEPT ![c] = "drain"]
    /\ typed' = IF alive THEN Append(typed, c) ELSE typed
    /\ late' = IF reader = "runs" THEN late ELSE late \cup {c}
    /\ UNCHANGED <<inbox, texts, pipe, alive, reaped, got, reader>>

Refused(c) ==
    /\ state[c] = "new" /\ owner = NoCmd /\ reaped
    /\ state' = [state EXCEPT ![c] = "failed"]
    /\ UNCHANGED <<owner, executing, procVars, routing>>

\* drain() is awaited before the try: its error leaves _executing set.
Drained(c) ==
    /\ state[c] = "drain"
    /\ \/ state' = [state EXCEPT ![c] = "wait"] /\ UNCHANGED owner
       \/ /\ ~alive /\ owner' = NoCmd
          /\ state' = [state EXCEPT ![c] = "failed"]
    /\ UNCHANGED <<executing, procVars, routing>>

\* The finally of execute.
Ends(c, how) ==
    /\ state' = [state EXCEPT ![c] = how]
    /\ owner' = NoCmd /\ executing' = FALSE

\* faulty variant: the marker is the same for all commands
EndedByAny(c, chunk) ==
    IF chunk = EndMark THEN "failed"
    ELSE IF chunk.what = "mark" THEN "done"
    ELSE IF chunk.what = "echo" THEN "cut" ELSE "goes on"

\* How a chunk ends the command that waits: its marker ends it also where it
\* stands in the repeated line.
EndedBy(c, chunk) ==
    IF chunk = EndMark THEN "failed"
    ELSE IF chunk = [of |-> c, what |-> "mark"] THEN "done"
    ELSE IF chunk = [of |-> c, what |-> "echo"] THEN "cut" ELSE "goes on"

\* A chunk that does not end the command is part of its answer.
Take(c) ==
    /\ state[c] = "wait" /\ execQ # <<>>
    /\ execQ' = Tail(execQ)
    /\ LET chunk == Head(execQ)  how == EndedBy(c, chunk) IN
       \/ how # "goes on" /\ Ends(c, how) /\ UNCHANGED got
       \/ /\ how = "goes on" /\ got' = [got EXCEPT ![c] = @ \cup {chunk.of}]
          /\ UNCHANGED <<state, owner, executing>>
    /\ UNCHANGED <<procVars, reader, late>>

\* READ_TIMEOUT passes without a chunk.
TimesOut(c) ==
    /\ state[c] = "wait" /\ execQ = <<>> /\ Ends(c, "left")
    /\ UNCHANGED <<procVars, routing>>

\* The consumer closes the generator at a chunk it was handed.
Abandon(c) ==
    /\ state[c] = "wait" /\ got[c] # {} /\ Ends(c, "left")
    /\ UNCHANGED <<procVars, routing>>

-----------------------------------------------------------------------------
(* The process and the reader of its output *)

\* A line reaches the terminal of the device, which repeats it at once.
Echoes ==
    /\ alive /\ typed # <<>>
    /\ typed' = Tail(typed) /\ inbox' = Append(inbox, Head(typed))
    /\ \E k \in {"echo", "torn"} : pipe' = Append(pipe, [of |-> Head(typed), what |-> k])
    /\ UNCHANGED <<state, owner, executing, texts, routing, alive, reaped>>

\* The device executes the commands one after the other.
Emits ==
    /\ alive /\ inbox # <<>>
    /\ \/ /\ texts < MaxText /\ texts' = texts + 1 /\ UNCHANGED inbox
          /\ pipe' = Append(pipe, [of |-> Head(inbox), what |-> "text"])
       \/ /\ texts' = 0 /\ inbox' = Tail(inbox)
          /\ \E k \in {"mark", "torn"} :
               pipe' = Append(pipe, [of |-> Head(inbox), what |-> k])
    /\ UNCHANGED <<state, owner, executing, typed, routing, alive, reaped>>

\* _background_reader: one read, routed by _executing.
Read ==
    /\ reader = "runs" /\ pipe # <<>>
    /\ pipe' = Tail(pipe)
    /\ execQ' = IF executing THEN Append(execQ, Head(pipe)) ELSE execQ
    /\ UNCHANGED <<state, owner, executing, typed, inbox, texts, got, reader, alive,
                   reaped, late>>

ReadsEnd ==
    /\ reader = "runs" /\ pipe = <<>> /\ ~alive
    /\ reader' = "ended" /\ execQ' = Append(execQ, EndMark)
    /\ UNCHANGED <<state, owner, executing, procVars, got, late>>

Dies ==
    /\ alive /\ alive' = FALSE /\ typed' = <<>> /\ inbox' = <<>> /\ texts' = 0
    /\ UNCHANGED <<state, owner, executing, pipe, reaped, routing>>

Reaped ==
    /\ ~alive /\ ~reaped /\ reaped' = TRUE
    /\ UNCHANGED <<state, owner, executing, typed, inbox, texts, pipe, alive, routing>>

\* stop() cancels the reader, then has the process end; one that has ended by
\* itself is left as it is.
StopShell ==
    /\ ~reaped /\ reader' = IF reader = "runs" THEN "cancelled" ELSE reader
    /\ alive' = FALSE /\ typed' = <<>> /\ inbox' = <<>> /\ texts' = 0
    /\ UNCHANGED <<state, owner, executing, pipe, reaped, execQ, got, late>>

InterNext ==
    \/ \E c \in Cmds : Begin(c) \/ Refused(c) \/ Drained(c) \/ Take(c)
                     \/ TimesOut(c) \/ Abandon(c)
    \/ Echoes \/ Emits \/ Read \/ ReadsEnd \/ Dies \/ Reaped \/ StopShell

InterFairness ==
    /\ WF_interVars(Reaped)
    /\ \A c \in Cmds : /\ WF_interVars(Drained(c)) /\ WF_interVars(TimesOut(c))
                       /\ WF_interVars(Take(c))

InterSpec == InterInit /\ [][InterNext]_interVars /\ InterFairness

-----------------------------------------------------------------------------
(* Properties *)

\* The answer of a command is its own output; of an earlier command it has the
\* rest only if that one was given up, failed, or was ended by its own repeated
\* line, never of one that ended by the marker printed after it (execute).
OwnOutput ==
    \A c \in Cmds : \A d \in got[c] : d = c \/ state[d] \in {"cut", "left", "failed"}

\* A command that ended by the marker printed after it has been executed by the
\* device to the end: no output of it can follow (execute).
DoneIsDone ==
    \A c \in Cmds : state[c] = "done" =>
        /\ \A i \in DOMAIN typed : typed[i] # c
        /\ \A i \in DOMAIN inbox : inbox[i] # c
        /\ \A i \in DOMAIN pipe : pipe[i].of # c

\* A command that ended by its repeated line has answered nothing of its own,
\* although all of its output is still to come (execute).
CutSaysNothing == \A c \in Cmds : state[c] = "cut" => c \notin got[c]

\* While no command holds the shell, the terminal gets its output, as long as
\* the process lives (execute, _background_reader).
TerminalIsFed == executing /\ owner = NoCmd => ~alive

\* A command that was begun before the output ended and still waits finds the
\* end mark: it fails at once and not by the time-out (_background_reader).
EndIsSeen ==
    \A c \in Cmds : state[c] \in {"drain", "wait"} /\ c \notin late /\ reader = "ended" =>
        Contains(execQ, EndMark)

\* A command does not hold the shell forever (READ_TIMEOUT).
LockIsLeft == (owner # NoCmd) ~> (owner = NoCmd)

\* What is read reaches the command it belongs to, or the terminal, and its end
\* is not lost (shell.py).
InterInv == /\ InterTypeOK
            /\ OwnOutput /\ DoneIsDone /\ CutSaysNothing
            /\ TerminalIsFed /\ EndIsSeen

\* docs/API.md:707: exec runs a command, answers with its output as it comes, and
\* says so when it is complete (_background_reader, execute).
CompleteIsExecuted ==
    \A c \in Cmds : state[c] \in {"done", "cut"} =>
        /\ \A i \in DOMAIN inbox : inbox[i] # c
        /\ \A i \in DOMAIN pipe : pipe[i].of # c
=============================================================================
