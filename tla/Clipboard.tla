----------------------------- MODULE Clipboard ------------------------------
(* The clipboard of one video session: requests and answers on the control    *)
(* connection of the encoder, whose answers carry no name, the waiters of     *)
(* ScrcpyEncoder, the input handler of the page and the ClipboardMirror.      *)
EXTENDS Naturals, SequencesExt

CONSTANTS
    Texts, NoText,
    MaxFailures,   \* max_failures of the mirror
    MaxPolls,      \* bound: poll loops that are ever started
    MaxEvents      \* bound: texts copied or set, requests given up, ends of the encoder

ASSUME ClipboardAssumption ==
    /\ NoText \notin Texts /\ MaxFailures \in Nat \ {0}
    /\ MaxPolls \in Nat /\ MaxEvents \in Nat

VARIABLES
    dev,         \* the clipboard of the device
    enc,         \* an encoder with a control connection serves the session
    wire,        \* messages to the device, in order
    answers,     \* clipboard messages from it, in order
    waiters,     \* _clipboard_waiters: the page or the number of a poll loop
    handler,     \* the input handler: "idle", "getting" or "ended"
    ws,          \* the WebSocket: "up", "broken" (sends fail) or "closed"
    task,        \* _task of the mirror, 0 for None
    poll,        \* what each poll loop does
    misses,    \* its consecutive misses
    text,        \* the text it sends
    last,        \* _last_text
    suppressed,  \* _suppressed_text
    known,       \* history: the last text the page set or was pushed
    own,         \* history: the last text the page set, until another is pushed
    sets,        \* history: the page has set a text
    spent        \* how many such events there were

deviceSide == <<dev, wire, answers, spent>>
mirrorVars == <<task, last, suppressed>>
pollVars == <<poll, misses, text>>
historyVars == <<known, own, sets>>
clipVars == <<deviceSide, enc, waiters, handler, ws, mirrorVars, pollVars, historyVars>>

Polls == 1..MaxPolls
Page == 0
Waiting == {waiters[i] : i \in DOMAIN waiters}
Running(p) == poll[p] \in {"sleeps", "waits", "tells", "quits"}

ClipInit ==
    /\ dev \in Texts /\ enc \in BOOLEAN /\ wire = <<>> /\ answers = <<>> /\ spent = 0
    /\ waiters = <<>> /\ handler = "idle" /\ ws = "up"
    /\ task = 0 /\ last = NoText /\ suppressed = NoText
    /\ poll = [p \in Polls |-> "new"] /\ misses = [p \in Polls |-> 0]
    /\ text = [p \in Polls |-> NoText]
    /\ known = NoText /\ own = NoText /\ sets = FALSE

Spends == spent < MaxEvents /\ spent' = spent + 1

Copy == \E t \in Texts : /\ Spends /\ dev' = t
                         /\ UNCHANGED <<wire, answers, enc, waiters, handler, ws, mirrorVars,
                                        pollVars, historyVars>>

\* The device serves the control messages in the order they came.
Serve ==
    /\ enc /\ wire # <<>> /\ wire' = Tail(wire)
    /\ IF Head(wire) = "get"
       THEN answers' = Append(answers, dev) /\ UNCHANGED dev
       ELSE dev' = Head(wire) /\ UNCHANGED answers
    /\ UNCHANGED <<spent, enc, waiters, handler, ws, mirrorVars, pollVars, historyVars>>

(* ------------------------------ poll loop ------------------------------- *)
GivesUp(p) == misses[p] + 1 >= MaxFailures

\* They read None: a loop sleeps again, or gives up and tells the page.
Fail(ps) ==
    /\ misses' = [p \in Polls |-> IF p \in ps THEN misses[p] + 1 ELSE misses[p]]
    /\ poll' = [p \in Polls |-> IF p \notin ps THEN poll[p]
                               ELSE IF GivesUp(p) THEN "quits" ELSE "sleeps"]
    /\ task' = IF \E p \in ps : GivesUp(p) THEN 0 ELSE task
    /\ UNCHANGED <<text, last, suppressed>>

\* A text was read: the page's own is taken as known, another is pushed when new.
Reads(p, t) ==
    /\ misses' = [misses EXCEPT ![p] = 0]
    /\ UNCHANGED task
    /\ \/ /\ t = suppressed /\ suppressed' = NoText /\ last' = t
          /\ poll' = [poll EXCEPT ![p] = "sleeps"] /\ UNCHANGED text
       \/ /\ t # suppressed /\ t # last /\ last' = t
          /\ poll' = [poll EXCEPT ![p] = "tells"] /\ text' = [text EXCEPT ![p] = t]
          /\ UNCHANGED suppressed
       \/ /\ t # suppressed /\ t = last
          /\ poll' = [poll EXCEPT ![p] = "sleeps"] /\ UNCHANGED <<text, last, suppressed>>

\* After its second of sleep; without an encoder, or if the request cannot be
\* sent, the read has failed at once.
Poll(p) ==
    /\ poll[p] = "sleeps"
    /\ \/ /\ enc /\ poll' = [poll EXCEPT ![p] = "waits"]
          /\ waiters' = Append(waiters, p) /\ wire' = Append(wire, "get")
          /\ UNCHANGED <<task, misses, text, last, suppressed>>
       \/ Fail({p}) /\ UNCHANGED <<waiters, wire>>
    /\ UNCHANGED <<dev, answers, spent, enc, handler, ws, historyVars>>

\* _safe_send: the push arrives, or the loop ends and the mirror with it.
Tell(p) ==
    /\ poll[p] = "tells"
    /\ IF ws = "up"
       THEN /\ poll' = [poll EXCEPT ![p] = "sleeps"]
            /\ known' = text[p] /\ own' = NoText /\ UNCHANGED task
       ELSE poll' = [poll EXCEPT ![p] = "ended"] /\ task' = 0 /\ UNCHANGED <<known, own>>
    /\ text' = [text EXCEPT ![p] = NoText]
    /\ UNCHANGED <<deviceSide, enc, waiters, handler, ws, last, suppressed, misses, sets>>

\* The page is told that polling failed; when that fails too, _task is cleared again.
Quit(p) ==
    /\ poll[p] = "quits" /\ poll' = [poll EXCEPT ![p] = "ended"]
    /\ task' = IF ws = "up" THEN task ELSE 0
    /\ UNCHANGED <<deviceSide, enc, waiters, handler, ws, last, suppressed, misses, text, historyVars>>

(* ------------------------------- answers -------------------------------- *)
\* An answer goes to the oldest request that waits, whoever made the one it answers.
Answer ==
    /\ enc /\ answers # <<>> /\ answers' = Tail(answers)
    /\ IF waiters = <<>> THEN UNCHANGED <<waiters, handler, mirrorVars, pollVars>>
       ELSE /\ waiters' = Tail(waiters)
            /\ IF Head(waiters) = Page
               THEN handler' = "idle" /\ UNCHANGED <<mirrorVars, pollVars>>
               ELSE Reads(Head(waiters), Head(answers)) /\ UNCHANGED handler
    /\ UNCHANGED <<dev, wire, spent, enc, ws, historyVars>>

\* faulty variant: a request that was given up stays in the queue
ForsakesNot(w) == UNCHANGED waiters

\* get_device_clipboard takes its future out of the queue whatever happened.
Forsakes(w) == waiters' = RemoveFirst(waiters, w)

TimesOut(w) ==
    /\ w \in Waiting
    /\ IF w = Page THEN handler = "getting" ELSE poll[w] = "waits"
    /\ Forsakes(w) /\ Spends
    /\ IF w = Page THEN handler' = "idle" /\ UNCHANGED <<mirrorVars, pollVars>>
                     ELSE Fail({w}) /\ UNCHANGED handler
    /\ UNCHANGED <<dev, wire, answers, enc, ws, historyVars>>

\* The encoder ends with its connection: all who wait get None. A restart brings another.
EncoderEnds ==
    /\ enc /\ Spends
    /\ enc' = FALSE /\ wire' = <<>> /\ answers' = <<>> /\ waiters' = <<>>
    /\ handler' = IF Page \in Waiting THEN "idle" ELSE handler
    /\ Fail(Waiting \ {Page})
    /\ UNCHANGED <<dev, ws, historyVars>>

EncoderStarts ==
    /\ ~enc /\ ws # "closed" /\ enc' = TRUE
    /\ UNCHANGED <<deviceSide, waiters, handler, ws, mirrorVars, pollVars, historyVars>>

(* --------------------------- the input handler -------------------------- *)
Handles == handler = "idle" /\ ws # "closed"

GetText == /\ Handles /\ enc
       /\ handler' = "getting"
       /\ waiters' = Append(waiters, Page) /\ wire' = Append(wire, "get")
       /\ UNCHANGED <<dev, answers, spent, enc, ws, mirrorVars, pollVars, historyVars>>

\* note_set when send_input is through: a mirror that is on will not push it back.
Notes(t) == suppressed' = IF task # 0 THEN t ELSE suppressed

\* The error of a send that fails is caught; the adb command that stands in for
\* it knows no clipboard, and the text is noted all the same.
Set == \E t \in Texts :
    /\ Handles /\ Spends
    /\ \/ enc /\ wire' = Append(wire, t)
       \/ UNCHANGED wire
    /\ Notes(t)
    /\ known' = t /\ own' = t /\ sets' = TRUE
    /\ UNCHANGED <<dev, answers, enc, waiters, handler, ws, task, last, pollVars>>

Starts(p) == /\ task' = p /\ poll' = [poll EXCEPT ![p] = "sleeps"]
             /\ last' = NoText /\ suppressed' = NoText

MayStart == task = 0

Enable == \E p \in Polls :
    /\ Handles /\ MayStart
    /\ poll[p] = "new" /\ \A q \in 1..(p - 1) : poll[q] # "new"
    /\ Starts(p)
    /\ UNCHANGED <<deviceSide, enc, waiters, handler, ws, misses, text, historyVars>>

\* stop(): the loop is cancelled wherever it is, and awaited.
Stops == /\ task' = 0
         /\ IF task = 0 THEN UNCHANGED pollVars
            ELSE /\ poll' = [poll EXCEPT ![task] = "ended"]
                 /\ text' = [text EXCEPT ![task] = NoText] /\ UNCHANGED misses
         /\ UNCHANGED <<last, suppressed>>

Disable ==
    /\ Handles /\ task # 0
    /\ Stops /\ Forsakes(task)
    /\ UNCHANGED <<deviceSide, enc, handler, ws, historyVars>>

Breaks == /\ ws = "up" /\ ws' = "broken"
          /\ UNCHANGED <<deviceSide, enc, waiters, handler, mirrorVars, pollVars, historyVars>>

\* The finally of video_stream: the handler is cancelled, then the mirror stopped.
SessionEnds ==
    /\ ws # "closed" /\ ws' = "closed" /\ handler' = "ended"
    /\ waiters' = RemoveFirst(RemoveFirst(waiters, Page), task)
    /\ Stops
    /\ UNCHANGED <<deviceSide, enc, historyVars>>

ClipNext == \/ Copy \/ Serve \/ Answer \/ EncoderEnds \/ EncoderStarts
            \/ \E w \in Polls \cup {Page} : TimesOut(w)
            \/ \E p \in Polls : Poll(p) \/ Tell(p) \/ Quit(p)
            \/ GetText \/ Set \/ Enable \/ Disable \/ Breaks \/ SessionEnds

ClipSpec == ClipInit /\ [][ClipNext]_clipVars

\* The device serves and answers, loops wake and sends return.
ClipFairness == /\ WF_clipVars(Serve) /\ WF_clipVars(Answer)
                /\ \A p \in Polls : WF_clipVars(Poll(p) \/ Tell(p) \/ Quit(p))
-----------------------------------------------------------------------------
(* The states are those the code has.                                         *)
ClipTypeOK ==
    /\ dev \in Texts /\ {enc, sets} \subseteq BOOLEAN /\ spent \in 0..MaxEvents
    /\ wire \in Seq(Texts \cup {"get"}) /\ answers \in Seq(Texts)
    /\ handler \in {"idle", "getting", "ended"} /\ ws \in {"up", "broken", "closed"}
    /\ task \in {0} \cup Polls /\ task # 0 => Running(task)
    /\ misses \in [Polls -> 0..MaxFailures]
    /\ \A p \in Polls : text[p] # NoText => poll[p] = "tells"

(* Who waits for the clipboard stands in the queue once, and nobody else      *)
(* does: no answer is eaten by a request that was given up                    *)
(* (get_device_clipboard, scrcpy.py:726-755).                                 *)
WaitersAreLive ==
    \A w \in Polls \cup {Page} :
        LET places == {i \in DOMAIN waiters : waiters[i] = w}
            waits == IF w = Page THEN handler = "getting" ELSE poll[w] = "waits"
        IN  IF waits THEN \E i \in places : places = {i} ELSE places = {}

(* As long as what is sent to the page arrives, one loop polls the device and *)
(* the mirror knows it; when the session is over none does                    *)
(* (set_enabled and stop, clipboard_mirror.py:63-84).                         *)
OneMirror ==
    /\ ws = "up" => \A p \in Polls : Running(p) => p = task \/ poll[p] = "quits"
    /\ ws = "closed" => task = 0

(* A text the page has set is not pushed back at it, except as the first push *)
(* after the mirror is switched on (note_set, clipboard_mirror.py:86-89).     *)
NoEcho == [][\A p \in Polls :
    poll[p] = "waits" /\ poll'[p] = "tells" /\ last # NoText /\ own # NoText /\ ws = "up"
    => text'[p] # own]_clipVars

(* With the device at rest and the mirror on, the page that never set a text  *)
(* has the device's: late answers to requests given up may bring an old text, *)
(* but not for ever (_poll_loop, clipboard_mirror.py:91-124).                 *)
MirrorTells == <>[](sets \/ task = 0 \/ ws # "up" \/ known = dev)

(* Waiters and loops are those who wait and poll, and nobody gets back what   *)
(* he sent (scrcpy.py:693-755, clipboard_mirror.py).                          *)
ClipHolds == [](ClipTypeOK /\ WaitersAreLive /\ OneMirror) /\ NoEcho

(* The module says that the mirror lives with the session and is stopped when *)
(* it ends (clipboard_mirror.py:14): afterwards no loop polls.                *)
MirrorEndsWithSession == ws = "closed" => \A p \in Polls : poll[p] \notin {"sleeps", "waits"}

(* The module says that the device's text is copied to the page by itself     *)
(* (clipboard_mirror.py:7): this is so for pages that set texts as well.      *)
MirrorAlwaysTells == <>[](task = 0 \/ ws # "up" \/ known = dev)
=============================================================================
