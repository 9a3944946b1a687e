--------------------------- MODULE BitrateAdvisor ---------------------------
(* The steps of the adaptive bit rate: samples of the page's frame rate, down *)
(* a tier when the window is bad, back when that did not help, up again when  *)
(* all is well. Times are kept as ages, so that nothing bounds them.          *)
EXTENDS Naturals, SequencesExt

CONSTANTS
    Tiers,        \* number of tiers, tier 1 the highest
    Start,        \* the tier the session starts with, as configured
    Window,       \* window
    BadMin,       \* bad_min
    GoodMin,      \* good_min
    MinInterval,  \* min_interval_s
    UpExtra,      \* up_extra_s
    Cooldown,     \* cooldown_s
    CooldownMax   \* cooldown_max_s

ASSUME AdvisorAssumption ==
    /\ Tiers \in Nat \ {0} /\ Start \in 1..Tiers /\ Window \in Nat \ {0}
    /\ BadMin \in 1..Window /\ GoodMin \in 1..Window
    /\ MinInterval \in Nat /\ UpExtra \in Nat /\ Cooldown \in Nat /\ CooldownMax \in 0..(16 * Cooldown)

VARIABLES
    idx,       \* _idx
    samples,   \* _samples: the age of each, and what it says
    since,     \* seconds since _last_switch; Never for None
    baseline,  \* _down_baseline; 0 for None
    from,      \* _down_from_idx while there is a baseline, else 0
    cool,      \* seconds until _cooldown_until
    rebounds,  \* _rebound_count
    proven     \* history: tiers below the start that a review confirmed, or a stall left unreviewed

advisorVars == <<idx, samples, since, baseline, from, cool, rebounds, proven>>

Never == MinInterval + UpExtra + 1    \* older switches need not be told apart
Grades == {"bad", "fair", "good"}
Least(a, b) == IF a < b THEN a ELSE b

AdvisorInit ==
    /\ idx = Start /\ samples = <<>> /\ since = Never
    /\ baseline = 0 /\ from = 0 /\ cool = 0 /\ rebounds = 0 /\ proven = 0

Second ==
    /\ samples' = [i \in DOMAIN samples |->
                     [samples[i] EXCEPT !.age = Least(@ + 1, 2 * Window + 1)]]
    /\ since' = IF since = Never THEN Never ELSE Least(since + 1, MinInterval + UpExtra)
    /\ cool' = IF cool = 0 THEN 0 ELSE cool - 1
    /\ UNCHANGED <<idx, baseline, from, rebounds, proven>>

\* The window with a new sample, from the oldest that is not too old.
Latest(s) == IF Len(s) > Window THEN Tail(s) ELSE s
Fresh(s) == SubSeq(s, SelectInSeq(s, LAMBDA x : x.age <= 2 * Window), Len(s))
With(k) == Fresh(Latest(Append(samples, [age |-> 0, kind |-> k])))
Count(s, k) == Cardinality({i \in DOMAIN s : s[i].kind = k})

\* Long enough since the last switch to judge, and long enough to go up.
Interval == since = Never \/ since >= MinInterval
IntervalUp == since # Never /\ since >= MinInterval + UpExtra

Switch(i) == idx' = i /\ since' = 0 /\ samples' = <<>>

\* Down when the window is bad and no cooldown forbids it.
GoesDown(bad) == bad >= BadMin /\ idx < Tiers /\ cool = 0

Down(bad) == Switch(idx + 1) /\ baseline' = bad /\ from' = idx

MayGoUp(good) == good >= GoodMin /\ idx > Start /\ IntervalUp

\* After the review: down, up, or nothing; `known` the confirmed tiers, `n` the rebounds so far.
Moves(s, known, n) ==
    LET bad == Count(s, "bad")
        good == Count(s, "good")
    IN  IF GoesDown(bad)
        THEN Down(bad) /\ rebounds' = n /\ proven' = known /\ UNCHANGED cool
        ELSE /\ baseline' = 0 /\ from' = 0 /\ UNCHANGED cool
             /\ IF MayGoUp(good)
                THEN Switch(idx - 1) /\ rebounds' = 0 /\ proven' = IF known = 0 THEN 0 ELSE known - 1
                ELSE UNCHANGED <<idx, since>> /\ samples' = s /\ rebounds' = n /\ proven' = known

\* The review of a step down: worse is no verdict, much better confirms it, else it is undone.
ReviewedBy(bad) == 2 * bad <= baseline
Undone == /\ Switch(from)
          /\ rebounds' = Least(rebounds + 1, 4)
          /\ cool' = Least(Cooldown * 2 ^ rebounds, CooldownMax)
          /\ baseline' = 0 /\ from' = 0 /\ UNCHANGED proven

\* faulty variant: a step down is not reviewed
ReviewsLoosely(s) == Moves(s, proven, rebounds)
Review(s) ==
    LET bad == Count(s, "bad")
    IN  IF bad > baseline THEN samples' = <<>> /\ UNCHANGED <<idx, since, baseline, from, cool, rebounds, proven>>
        ELSE IF ReviewedBy(bad) THEN Moves(s, proven + 1, 0)
        ELSE Undone

\* report_client_fps: add_sample and decide.
Report(k) ==
    LET s == With(k)
    IN  IF Len(s) < Window \/ ~Interval
        THEN samples' = s /\ UNCHANGED <<idx, since, baseline, from, cool, rebounds, proven>>
        ELSE IF baseline # 0 THEN Review(s)
        ELSE Moves(s, proven, rebounds)

\* reset() after a stall: samples and review are void, tier and cooldown stay.
Reset == /\ samples' = <<>> /\ baseline' = 0 /\ from' = 0
         /\ proven' = IF baseline # 0 THEN proven + 1 ELSE proven
         /\ UNCHANGED <<idx, since, cool, rebounds>>

AdvisorNext == Second \/ Reset \/ \E k \in Grades : Report(k)

AdvisorSpec == AdvisorInit /\ [][AdvisorNext]_advisorVars

-----------------------------------------------------------------------------
(* The states are those the code has; the window holds no more samples than   *)
(* it should.                                                                 *)
AdvisorTypeOK ==
    /\ idx \in 1..Tiers /\ Len(samples) <= Window
    /\ \A i \in DOMAIN samples : samples[i].age \in 0..(2 * Window + 1) /\ samples[i].kind \in Grades
    /\ since \in 0..Never /\ baseline \in 0..Window /\ from \in 0..Tiers
    /\ cool \in 0..CooldownMax /\ rebounds \in 0..4 /\ proven \in 0..Tiers
    /\ baseline # 0 => from = idx - 1

(* The bit rate is never raised above the tier of the session, and below it   *)
(* every tier but the lowest was confirmed by a review, or left unreviewed by *)
(* a stall: bad samples that do not come from the bit rate cannot walk it     *)
(* down to the end (decide, bitrate_advisor.py:86-156).                       *)
DownIsReviewed == /\ idx >= Start
                  /\ idx - Start = proven + (IF baseline # 0 THEN 1 ELSE 0)

(* A step down that was undone is not tried again in the cooldown             *)
(* (bitrate_advisor.py:123-137, 139-146).                                     *)
CooldownHolds == [][cool # 0 => idx' <= idx]_advisorVars

(* No two switches come within the least interval                             *)
(* (bitrate_advisor.py:96-100).                                               *)
KeepsInterval == [][idx' # idx => since = Never \/ since >= MinInterval]_advisorVars

(* The bit rate goes down only as far as reviews confirm, and changes neither *)
(* often nor back and forth (bitrate_advisor.py:86-156).                      *)
AdvisorHolds == /\ [](AdvisorTypeOK /\ DownIsReviewed)
                /\ CooldownHolds /\ KeepsInterval
=============================================================================
