----------------------------- MODULE StreamSlot -----------------------------
(***************************************************************************)
(* What StreamService promises about one device, whatever the sessions,    *)
(* encoders and teardowns behind it do: the device has one stream slot, a   *)
(* session is granted the slot only while it is free, and the slot passes   *)
(* from one holder to another only by becoming free in between.             *)
(***************************************************************************)
CONSTANTS
    Sessions,   \* the clients' video connections
    Free        \* the slot has no holder (not a session)

VARIABLE
    holder      \* the session that owns the device's stream, or Free

TypeOK == holder \in Sessions \cup {Free}

Init == holder = Free

\* A session is granted the slot.
Grant(s) == /\ holder = Free
            /\ holder' = s

\* The holder gives the slot up.
Yield(s) == /\ holder = s
            /\ holder' = Free

Next == \E s \in Sessions : Grant(s) \/ Yield(s)

Spec == Init /\ [][Next]_holder
=============================================================================
