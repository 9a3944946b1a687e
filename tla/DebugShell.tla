----------------------------- MODULE DebugShell -----------------------------
(***************************************************************************)
(* The interactive shells of one debug session in DebugService: creation   *)
(* on demand, the task that forwards the output to the subscribers, the    *)
(* lock that keeps commands apart, and what closing does to them.          *)
(***************************************************************************)
EXTENDS Naturals

CONSTANTS Users,      \* WebSocket handlers of the session
          NoUser,
          MaxShells   \* bound: shells started

ASSUME ShellAssumption == NoUser \notin Users /\ MaxShells \in Nat

Shells == 1 .. MaxShells
None == 0             \* no entry in a table

VARIABLES
    known,     \* the session is in `sessions`
    closer,    \* step of close_session
    shell,     \* per shell started: its process
    reg,       \* shell_sessions: the shell of the session
    fwd,       \* shell_output_forwarding_tasks: the shell the task reads
    reading,   \* shells whose output a running task forwards
    watch,     \* handlers with an entry in `subscribers`
    at,        \* step of the handler
    new,       \* the shell it is creating
    holder,    \* handler that holds the session's lock
    overlap    \* history: a shell was created while another was, or while the
               \* session was closed

tables == <<known, reg, fwd, reading>>
shellVars == <<tables, closer, shell, watch, at, new, holder, overlap>>

Alive(i) == i # None /\ shell[i] = "alive"

ShellTypeOK ==
    /\ known \in BOOLEAN /\ overlap \in BOOLEAN
    /\ closer \in {"no", "closing", "bye", "done"}
    /\ shell \in [Shells -> {"none", "starting", "alive", "dead"}]
    /\ reg \in Shells \cup {None} /\ fwd \in Shells \cup {None}
    /\ reading \subseteq Shells /\ watch \subseteq Users
    /\ at \in [Users -> {"off", "idle", "asking", "replacing", "creating",
                         "waiting", "executing"}]
    /\ new \in [Users -> Shells \cup {None}]
    /\ holder \in Users \cup {NoUser}
    \* the lock is held by a command under way
    /\ holder # NoUser => at[holder] \in {"asking", "replacing", "creating", "executing"}

ShellInit ==
    /\ known = TRUE /\ closer = "no" /\ overlap = FALSE
    /\ shell = [i \in Shells |-> "none"] /\ reg = None /\ fwd = None
    /\ reading = {} /\ watch = {} /\ holder = NoUser
    /\ at = [u \in Users |-> "off"] /\ new = [u \in Users |-> None]

-----------------------------------------------------------------------------
(* Helpers of the handler steps *)

\* _start_output_forwarding: a running task stays, whatever shell it reads.
Forwards(i) == IF fwd \in reading THEN UNCHANGED <<fwd, reading>>
                                  ELSE fwd' = i /\ reading' = reading \cup {i}

\* stop_output_forwarding
StopsForwarding == fwd' = None /\ reading' = reading \ {fwd}

\* The step is over; a command that failed leaves the lock.
Goes(u, step) ==
    /\ at' = [at EXCEPT ![u] = step]
    /\ holder' = IF holder = u /\ step = "idle" THEN NoUser ELSE holder

\* A shell is there: input is written, a command is executed in it.
Served(u) == Goes(u, IF holder = u THEN "executing" ELSE "idle")

\* create_shell is awaited; without a session there is an error instead.
Creates(u) ==
    IF known
    THEN \E i \in Shells :
           /\ shell[i] = "none" /\ \A j \in Shells : j < i => shell[j] # "none"
           /\ shell' = [shell EXCEPT ![i] = "starting"]
           /\ new' = [new EXCEPT ![u] = i]
           /\ Goes(u, "creating")
           /\ overlap' = \/ overlap \/ closer # "no"
                         \/ \E v \in Users \ {u} : at[v] \in {"replacing", "creating"}
    ELSE Goes(u, "idle") /\ UNCHANGED <<shell, new, overlap>>

\* faulty variant: the dead shell is removed and its forwarding task is not
GetShellOnly(u) ==
    \/ /\ Alive(reg) /\ Forwards(reg) /\ Served(u)
       /\ UNCHANGED <<shell, new, reg, overlap>>
    \/ /\ ~Alive(reg) /\ reg' = None /\ Creates(u)
       /\ UNCHANGED <<fwd, reading>>

\* get_or_create_shell up to its first await: the living shell is taken; a dead
\* one is removed with its forwarding before a new one is created.
GetShell(u) ==
    \/ /\ Alive(reg) /\ Forwards(reg) /\ Served(u)
       /\ UNCHANGED <<shell, new, reg, overlap>>
    \/ /\ reg # None /\ ~Alive(reg) /\ reg' = None /\ StopsForwarding
       /\ IF fwd \in reading
          THEN Goes(u, "replacing") /\ UNCHANGED <<shell, new, overlap>>
          ELSE Creates(u)
    \/ /\ reg = None /\ Creates(u)
       /\ UNCHANGED <<reg, fwd, reading>>

-----------------------------------------------------------------------------
(* debug_stream: the operations of a handler *)

Connect(u) ==
    /\ at[u] = "off" /\ Goes(u, "idle")
    /\ UNCHANGED <<tables, closer, shell, watch, new, overlap>>

\* The operation subscribe registers the handler, input does not. A command
\* goes for the lock.
Ask(u) ==
    /\ at[u] = "idle"
    /\ \/ Goes(u, "asking") /\ watch' \in {watch, watch \cup {u}}
       \/ Goes(u, "waiting") /\ known /\ UNCHANGED watch
    /\ UNCHANGED <<tables, closer, shell, new, overlap>>

AskedShell(u) ==
    /\ at[u] = "asking" /\ GetShell(u)
    /\ UNCHANGED <<known, closer, watch>>

\* The old forwarding task is over: the session is looked up, a shell is made.
Replaced(u) ==
    /\ at[u] = "replacing" /\ Creates(u)
    /\ UNCHANGED <<tables, closer, watch>>

\* The new shell replaces whatever is registered by now.
Created(u) ==
    /\ at[u] = "creating"
    /\ shell' = [shell EXCEPT ![new[u]] = "alive"] /\ reg' = new[u]
    /\ Forwards(new[u]) /\ Served(u)
    /\ new' = [new EXCEPT ![u] = None]
    /\ UNCHANGED <<known, closer, watch, overlap>>

CreateFails(u) ==
    /\ at[u] = "creating" /\ Goes(u, "idle")
    /\ shell' = [shell EXCEPT ![new[u]] = "dead"]
    /\ new' = [new EXCEPT ![u] = None]
    /\ UNCHANGED <<tables, closer, watch, overlap>>

\* exec_shell_stream_raw asks for the shell when it has the lock; exec_shell
\* has the device execute its command without one.
LockTaken(u) ==
    /\ at[u] = "waiting" /\ holder = NoUser /\ holder' = u
    /\ \E step \in {"asking", "executing"} : at' = [at EXCEPT ![u] = step]
    /\ UNCHANGED <<tables, closer, shell, watch, new, overlap>>

\* The command is over or the consumer is gone, its history is saved.
ExecDone(u) ==
    /\ at[u] = "executing" /\ Goes(u, "idle")
    /\ UNCHANGED <<tables, closer, shell, watch, new, overlap>>

\* unsubscribe_and_maybe_stop_forwarding, as an operation or at the end
Unsubscribe(u) ==
    /\ at[u] = "idle" /\ \E step \in {"idle", "off"} : Goes(u, step)
    /\ watch' = watch \ {u}
    /\ IF watch' = {} THEN StopsForwarding ELSE UNCHANGED <<fwd, reading>>
    /\ UNCHANGED <<known, reg, closer, shell, new, overlap>>

-----------------------------------------------------------------------------
(* Around the handlers *)

ShellDies ==
    /\ \E i \in Shells : Alive(i) /\ shell' = [shell EXCEPT ![i] = "dead"]
    /\ UNCHANGED <<tables, closer, watch, at, new, holder, overlap>>

\* forward_loop reads the end mark of its shell, or fails in
\* _notify_shell_output when the last subscriber left during a send.
ForwardEnds ==
    /\ \E i \in reading : (~Alive(i) \/ watch = {}) /\ reading' = reading \ {i}
    /\ UNCHANGED <<known, reg, fwd, closer, shell, watch, at, new, holder, overlap>>

\* A connection that a line cannot be sent to is removed.
ForwardDrops ==
    /\ reading # {} /\ \E u \in watch : watch' = watch \ {u}
    /\ UNCHANGED <<tables, closer, shell, at, new, holder, overlap>>

\* close_session: the task and the shell are popped and stopped; when the
\* writer has saved its buffer the session leaves the table; at last the
\* subscribers are told and removed.
Close ==
    \/ /\ closer = "no" /\ closer' = "closing"
       /\ StopsForwarding /\ reg' = None
       /\ shell' = [i \in Shells |-> IF i = reg THEN "dead" ELSE shell[i]]
       /\ UNCHANGED <<known, watch>>
    \/ /\ closer = "closing" /\ closer' = "bye" /\ known' = FALSE
       /\ UNCHANGED <<reg, fwd, reading, shell, watch>>
    \/ /\ closer = "bye" /\ closer' = "done" /\ watch' = {}
       /\ UNCHANGED <<tables, shell>>

CloseSession == Close /\ UNCHANGED <<at, new, holder, overlap>>

ShellNext ==
    \/ \E u \in Users :
         \/ Connect(u) \/ Ask(u) \/ AskedShell(u) \/ Replaced(u) \/ Created(u)
         \/ CreateFails(u) \/ LockTaken(u) \/ ExecDone(u) \/ Unsubscribe(u)
    \/ ShellDies \/ ForwardEnds \/ ForwardDrops \/ CloseSession

ShellSpec == ShellInit /\ [][ShellNext]_shellVars

-----------------------------------------------------------------------------
(* Properties *)

\* At most one task forwards output, and it is the registered one, so that the
\* next stop finds it (_start_output_forwarding, stop_output_forwarding).
OneForwarder == reading \subseteq {fwd}

\* When every handler has gone nothing is forwarded
\* (unsubscribe_and_maybe_stop_forwarding).
NobodyForwards == (\A u \in Users : at[u] = "off") => reading = {}

\* As long as shells are created one at a time, the session has no living shell
\* beside the registered one (get_or_create_shell, close_session).
NoStrayShell == ~overlap => \A i \in Shells : Alive(i) => i = reg

\* And then whoever watches a living shell sees its output, unless it has yet
\* to ask for the shell (get_or_create_shell: "the session is without output
\* forever" otherwise).
WatchedIsForwarded ==
    ~overlap /\ Alive(reg) /\ watch # {} /\ closer = "no" =>
        \/ reg \in reading
        \/ \E u \in watch : at[u] = "asking"

\* One forwarder, for those who watch, of the one shell there is
\* (subscribe_output to close_session, debug_service.py).
ShellInv == /\ ShellTypeOK
            /\ OneForwarder /\ NobodyForwards
            /\ NoStrayShell /\ WatchedIsForwarded

\* Docstring of get_or_create_shell: a shell that is made gets its forwarding.
RegisteredIsForwarded ==
    Alive(reg) /\ watch # {} =>
        reg \in reading \/ \E u \in watch : at[u] = "asking"
=============================================================================
