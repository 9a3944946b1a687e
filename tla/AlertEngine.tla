---------------------------- MODULE AlertEngine -----------------------------
(***************************************************************************)
(* One rule of an AlertEngine: hysteresis, cooldown and the window in which*)
(* an alert is reported as new. A sample is beyond the threshold, safely   *)
(* inside it, in the band between, or without a (fresh) value.             *)
(***************************************************************************)
EXTENDS Integers

CONSTANTS Rules,      \* settings of the threshold, each [consecutive, clear, cooldown]
          NotifyWindow,
          MaxTime     \* bound: time of the last sample

ASSUME AlertAssumption ==
    /\ Rules # {} /\ NotifyWindow \in Nat /\ MaxTime \in Nat
    /\ \A r \in Rules : r.consecutive \in Nat \ {0} /\ r.clear \in Nat \ {0}
                        /\ r.cooldown \in Nat

Never == -1
Off == [consecutive |-> 0, clear |-> 0, cooldown |-> 0]  \* the rule is disabled

VARIABLES
    now,          \* time of the last sample
    rule,         \* _rules: Off when the rule is not there
    breaches, oks,\* breach_count, ok_count
    active, fired, notified,
    lastNotify,   \* _last_notify_ts
    beyond, safe, \* history: samples beyond (safely inside) in a row, up to now
    toast         \* history: time of the last notification under this rule

alertVars == <<now, rule, breaches, oks, active, fired, notified, lastNotify,
               beyond, safe, toast>>

Times == Never .. MaxTime

AlertTypeOK ==
    /\ now \in 0 .. MaxTime /\ rule \in Rules \cup {Off}
    /\ breaches \in Nat /\ oks \in Nat
    /\ breaches < rule.consecutive \/ breaches = 0
    /\ oks < rule.clear \/ oks = 0
    /\ active \in BOOLEAN
    /\ fired \in Times /\ notified \in Times /\ lastNotify \in Times /\ toast \in Times
    /\ beyond \in 0 .. MaxTime /\ safe \in 0 .. MaxTime

AlertInit ==
    /\ now = 0 /\ rule = Off /\ breaches = 0 /\ oks = 0 /\ active = FALSE
    /\ fired = Never /\ notified = Never /\ lastNotify = Never
    /\ beyond = 0 /\ safe = 0 /\ toast = Never

Resets == /\ breaches' = 0 /\ oks' = 0 /\ active' = FALSE
          /\ fired' = Never /\ notified' = Never

\* faulty variant: a new threshold starts without the time of the last notification
SyncForgets ==
    /\ rule' \in (Rules \cup {Off}) \ {rule}
    /\ Resets /\ lastNotify' = Never
    /\ toast' = IF rule' = Off THEN Never ELSE toast
    /\ beyond' = 0 /\ safe' = 0 /\ UNCHANGED now

\* sync: the settings were changed. A rule that goes takes the time of its last
\* notification with it, a rule that changes keeps it.
Sync ==
    /\ rule' \in (Rules \cup {Off}) \ {rule}
    /\ Resets /\ lastNotify' = IF rule' = Off THEN Never ELSE lastNotify
    /\ toast' = IF rule' = Off THEN Never ELSE toast
    /\ beyond' = 0 /\ safe' = 0 /\ UNCHANGED now

\* _activate: notified unless the last time is within the cooldown.
Activates ==
    /\ active' = TRUE /\ fired' = now' /\ breaches' = 0 /\ oks' = 0
    /\ IF lastNotify = Never \/ now' - lastNotify >= rule.cooldown
       THEN notified' = now' /\ lastNotify' = now' /\ toast' = now'
       ELSE notified' = Never /\ UNCHANGED <<lastNotify, toast>>

\* evaluate: a running alert counts safe samples, the others break the row.
Clears(v) == active /\ v = "safe" /\ oks + 1 >= rule.clear
Fires(v) == ~active /\ v = "beyond" /\ breaches + 1 >= rule.consecutive

Evaluate(v) ==
    \/ Clears(v) /\ Resets /\ UNCHANGED <<lastNotify, toast>>
    \/ /\ active /\ ~Clears(v) /\ oks' = IF v = "safe" THEN oks + 1 ELSE 0
       /\ UNCHANGED <<breaches, active, fired, notified, lastNotify, toast>>
    \/ Fires(v) /\ Activates
    \/ /\ ~active /\ ~Fires(v) /\ breaches' = IF v = "beyond" THEN breaches + 1 ELSE 0
       /\ UNCHANGED <<oks, active, fired, notified, lastNotify, toast>>

Sample ==
    /\ now < MaxTime /\ \E d \in {1, 2} : now' = now + d /\ now' <= MaxTime
    /\ UNCHANGED rule
    /\ \/ /\ rule # Off
          /\ \E v \in {"beyond", "band", "safe"} :
               /\ Evaluate(v)
               /\ beyond' = IF v = "beyond" THEN beyond + 1 ELSE 0
               /\ safe' = IF v = "safe" THEN safe + 1 ELSE 0
       \/ UNCHANGED <<breaches, oks, active, fired, notified, lastNotify,
                      beyond, safe, toast>>

AlertNext == Sync \/ Sample

AlertSpec == AlertInit /\ [][AlertNext]_alertVars

\* snapshot: is the alert in it, and is it reported as new?
Reported == active
New == active /\ notified # Never /\ now - notified <= NotifyWindow

-----------------------------------------------------------------------------
(* Properties *)

\* An alert begins with the last of `consecutive` samples beyond the threshold
\* in a row, and ends with the last of `clear_consecutive` safe ones, or with
\* a change of the rule (evaluate).
Hysteresis ==
    [][/\ ~Reported /\ Reported' => beyond' >= rule.consecutive
       /\ Reported /\ ~Reported' => safe' >= rule.clear \/ rule' # rule]_alertVars

\* No alert is missed, none outlives its cause: so many samples in a row leave
\* the one state or the other (evaluate).
NothingMissed ==
    rule # Off => /\ beyond >= rule.consecutive => Reported
                  /\ safe >= rule.clear => ~Reported

\* Notifications of a rule are a cooldown apart, also when the alert ended or
\* the rule was changed in between (_activate, sync).
Cooldown ==
    [][toast' # toast /\ toast # Never /\ toast' # Never
         => toast' - toast >= rule.cooldown]_alertVars

\* What is reported as new was notified in this episode of the alert (snapshot).
NewIsNotified == New => notified = fired /\ toast = notified

\* An alert comes and goes with its cause, and is notified as seldom as its
\* rule says (alert_engine.py).
AlertsHold == /\ [](AlertTypeOK /\ NothingMissed /\ NewIsNotified)
              /\ Hysteresis /\ Cooldown
=============================================================================
