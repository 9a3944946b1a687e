---------------------------- MODULE ControlInput ----------------------------
(* Input of one video session: the handler takes one operation after another, *)
(* ScrcpyEncoder.send_input turns it into messages of the control connection, *)
(* and into an `adb shell input` command when that fails or is not there.     *)
EXTENDS Naturals, Sequences

CONSTANT MaxOps   \* bound: operations of the page

VARIABLES
    conn,     \* the control connection: "none", "up", "slow" (drain times out), "lost"
    op,       \* the operation in hand, or the last one
    busy,     \* the handler is at it
    left,     \* the messages it has still to send
    pointer,  \* a pointer is down on the device
    held,     \* the key is down on the device
    acts,     \* history: how often the operation acted on the device
    torn,     \* history: an operation failed after a part of it had acted or been written
    ops       \* operations so far

controlVars == <<conn, op, busy, left, pointer, held, acts, torn, ops>>

Kinds == {"touch", "swipe", "flick", "long_press", "press", "release", "click",
          "text", "scroll", "clipboard_set", "other"}

\* What send_input and _send_swipe send; a flick is a swipe too short for moves.
Messages == [k \in Kinds |->
    CASE k \in {"touch", "flick", "long_press"} -> <<"down", "up">>
      [] k = "swipe" -> <<"down", "move", "up">>
      [] k = "press" -> <<"keydown">>
      [] k = "release" -> <<"keyup">>
      [] k = "click" -> <<"keydown", "keyup">>
      [] k = "other" -> <<>>
      [] OTHER -> <<k>>]

\* faulty variant: what acted on the connection falls back as well
FallsBackTwice(k) == k \notin {"scroll", "other"}

\* adb shell input knows no release of a key and no scrolling.
FallsBack(k) == k \in {"touch", "swipe", "flick", "long_press", "press", "click",
                       "text", "clipboard_set"}

ControlInit ==
    /\ conn \in {"none", "up"} /\ op = "other" /\ busy = FALSE /\ left = <<>>
    /\ pointer = FALSE /\ held = FALSE /\ acts = 0 /\ torn = FALSE /\ ops = 0

Fallback(k) == /\ acts' = IF FallsBack(k) THEN acts + 1 ELSE acts
               /\ busy' = FALSE /\ left' = <<>> /\ UNCHANGED op

\* Without a sender, or before the size of the screen is known, and for an unknown action.
Straight(k) == conn = "none" \/ k = "other"

Handle == \E k \in Kinds :
    /\ ~busy /\ ops < MaxOps /\ ops' = ops + 1
    /\ op' = k /\ busy' = TRUE /\ left' = Messages[k] /\ acts' = 0
    /\ UNCHANGED <<conn, pointer, held, torn>>

FallBackStraight ==
    /\ busy /\ Straight(op) /\ Fallback(op)
    /\ UNCHANGED <<conn, pointer, held, torn, ops>>

\* The device takes a message: a tap, stroke or key acts once, on up or on key down.
Takes(m) ==
    /\ pointer' = IF m \in {"down", "up"} THEN m = "down" ELSE pointer
    /\ held' = IF m \in {"keydown", "keyup"} THEN m = "keydown" ELSE held

Effect(m) == IF m \in {"down", "move", "keyup"} THEN 0 ELSE 1

Send ==
    /\ busy /\ ~Straight(op) /\ left # <<>> /\ conn = "up"
    /\ Takes(Head(left)) /\ acts' = acts + Effect(Head(left))
    /\ left' = Tail(left) /\ busy' = (Tail(left) # <<>>)
    /\ UNCHANGED <<conn, op, torn, ops>>

\* _send raises: the whole operation goes to adb, whatever part was sent before.
SendLate ==
    /\ busy /\ ~Straight(op) /\ left # <<>> /\ conn = "slow"
    /\ Takes(Head(left)) /\ torn' = TRUE
    /\ acts' = acts + Effect(Head(left)) + (IF FallsBack(op) THEN 1 ELSE 0)
    /\ busy' = FALSE /\ left' = <<>>
    /\ UNCHANGED <<conn, op, ops>>

SendFails ==
    /\ busy /\ ~Straight(op) /\ left # <<>> /\ conn = "lost"
    /\ Fallback(op) /\ torn' = (torn \/ acts > 0)
    /\ UNCHANGED <<conn, pointer, held, ops>>

\* The connection: it comes, stalls, recovers, or is lost, and the server lets go of everything.
Changes ==
    /\ \/ conn = "none" /\ conn' = "up" /\ UNCHANGED <<pointer, held>>
       \/ conn = "up" /\ conn' = "slow" /\ UNCHANGED <<pointer, held>>
       \/ conn = "slow" /\ conn' = "up" /\ UNCHANGED <<pointer, held>>
       \/ conn \in {"up", "slow"} /\ conn' = "lost" /\ pointer' = FALSE /\ held' = FALSE
    /\ UNCHANGED <<op, busy, left, acts, torn, ops>>

ControlNext == Handle \/ FallBackStraight \/ Send \/ SendLate \/ SendFails \/ Changes

ControlSpec == ControlInit /\ [][ControlNext]_controlVars

-----------------------------------------------------------------------------
(* Between two operations no finger of the page is left on the screen, unless *)
(* a message was written and its drain timed out (send_input and _send_swipe, *)
(* scrcpy.py:761-926).                                                        *)
NoFingerLeft == ~busy /\ ~torn => ~pointer

(* A finished operation acted once, on the connection or through adb, unless  *)
(* it failed half way; a key that was pressed on the connection and released  *)
(* after its loss does not act again (_fallback_adb_input, scrcpy.py:978-993).*)
ActsOnce ==
    ~busy /\ ~torn /\ ops > 0 =>
        \/ acts = 1 /\ op \notin {"release", "other"}
        \/ acts = 0 /\ op \in {"release", "other", "scroll"}

(* An operation is carried out once and leaves nothing pressed                *)
(* (scrcpy.py:761-993).                                                       *)
InputInv == NoFingerLeft /\ ActsOnce
=============================================================================
