---------------------------- MODULE AccessUnits -----------------------------
(* From chunks of the encoder to messages of the page: the video handler      *)
(* takes parameter sets out, pairs them into a config message, and sends      *)
(* pictures as access units. A chunk is a packet, or, in the raw mode, any    *)
(* piece of the byte stream, cut by H264Parser and put together by            *)
(* aggregate_aus.                                                             *)
EXTENDS Naturals, Sequences

CONSTANTS
    MaxPictures,   \* bound: pictures the encoder makes
    MaxChanges,    \* bound: changes of the parameter sets, and restarts of the encoder
    MaxRead        \* bound: units in one read of the raw mode

ASSUME UnitsAssumption == MaxPictures \in Nat /\ MaxChanges \in Nat /\ MaxRead \in Nat \ {0}

VARIABLES
    packets,   \* the 12-byte packet protocol is used
    params,      \* the parameter sets of the encoder
    owed,      \* it has still to send them
    pictures,  \* pictures it has made
    changes,   \* changes and restarts so far
    changed,   \* history: the sets have changed
    stream,      \* raw mode: units not read yet
    buffer,    \* raw mode: the last unit stays in the parser until another begins
    pending,   \* pending_aus
    sps, pps,  \* sps_data and pps_data, 0 for None
    sent,      \* config_sent
    client     \* history: what the page has had

encoderVars == <<params, owed, pictures, changes, changed>>
unitVars == <<packets, encoderVars, stream, buffer, pending, sps, pps, sent, client>>

Unit(t, n) == [type |-> t, n |-> n, sets |-> params]
NewClient == [conf |-> <<0, 0>>, last |-> 0, wrong |-> FALSE, gap |-> FALSE, odd |-> FALSE, mixed |-> FALSE]

UnitInit ==
    /\ packets \in BOOLEAN /\ params = <<1, 1>> /\ owed = TRUE
    /\ pictures = 0 /\ changes = 0 /\ changed = FALSE
    /\ stream = <<>> /\ buffer = <<>> /\ pending = <<>>
    /\ sps = 0 /\ pps = 0 /\ sent = FALSE /\ client = NewClient

(* --------------------------- aggregate_aus ------------------------------ *)
\* One unit into the units in hand: `cur` is the open access unit, `prefix` waits for one.
Close(a) == [a EXCEPT !.aus = Append(@, a.prefix \o a.cur), !.prefix = <<>>, !.cur = <<>>]

Begins(a) == IF a.vcl THEN Close(a) ELSE a

Joins(a, u) ==
    CASE u.type = "aud" -> [(IF a.cur # <<>> THEN Close(a) ELSE a)
                              EXCEPT !.cur = <<u>>, !.vcl = FALSE]
      [] u.type = "vcl" -> LET b == Begins(a)
                           IN  [b EXCEPT !.cur = (b.cur \o b.prefix) \o <<u>>,
                                         !.prefix = <<>>, !.vcl = TRUE]
      [] OTHER -> IF a.cur # <<>> THEN [a EXCEPT !.cur = Append(@, u)]
                                  ELSE [a EXCEPT !.prefix = Append(@, u)]

NoneJoined == [aus |-> <<>>, prefix |-> <<>>, cur |-> <<>>, vcl |-> FALSE]
Joined(units) ==
    LET after[k \in 0 .. Len(units)] ==
            IF k = 0 THEN NoneJoined ELSE Joins(after[k - 1], units[k])
    IN  after[Len(units)]

\* Access units, and what waits for the next picture.
Aggregate(units) ==
    LET a == Joined(units)
    IN  IF a.vcl THEN [aus |-> Append(a.aus, a.prefix \o a.cur), rest |-> <<>>]
                 ELSE [aus |-> a.aus, rest |-> a.prefix \o a.cur]

(* -------------------------- the video handler --------------------------- *)
\* What a message does to the page: a config, or an access unit under it.
Configures(c, conf) == [c EXCEPT !.conf = conf]

Pictures(au) == {i \in DOMAIN au : au[i].type = "vcl"}
Shows(c, au) ==
    IF \E i \in Pictures(au) : Pictures(au) = {i}
    THEN LET p == au[CHOOSE i \in Pictures(au) : TRUE]
         IN  [c EXCEPT !.last = p.n,
                       !.wrong = @ \/ p.sets # c.conf,
                       !.mixed = @ \/ \E i \in DOMAIN au : au[i].n # p.n,
                       !.gap = @ \/ (c.last # 0 /\ p.n # c.last + 1)]
    ELSE [c EXCEPT !.odd = TRUE]

Shown(c, aus) ==
    LET after[k \in 0 .. Len(aus)] == IF k = 0 THEN c ELSE Shows(after[k - 1], aus[k])
    IN  after[Len(aus)]

\* intercept_nalu: a change withholds pictures until the PPS pairs the config anew.
InterceptSps(h, n) == IF h.sps = n THEN h ELSE [h EXCEPT !.sps = n, !.sent = FALSE]

\* faulty variant: a new PPS is paired with what was sent before
PairsOld(h, n) == IF h.pps = n THEN h ELSE [h EXCEPT !.pps = n]
Pairs(h, n) == IF h.pps = n THEN h ELSE [h EXCEPT !.pps = n, !.sent = FALSE]
InterceptPps(h, n) ==
    LET g == Pairs(h, n)
    IN  IF g.sps # 0 /\ ~g.sent
        THEN [g EXCEPT !.sent = TRUE, !.client = Configures(@, <<g.sps, n>>)] ELSE g

IsConfig(u) == u.type \in {"sps", "pps"}
Intercept(h, u) == CASE u.type = "sps" -> InterceptSps(h, u.n)
                     [] u.type = "pps" -> InterceptPps(h, u.n)
                     [] OTHER -> h

Intercepted(h, units) ==
    LET after[k \in 0 .. Len(units)] == IF k = 0 THEN h ELSE Intercept(after[k - 1], units[k])
    IN  after[Len(units)]

SendsOn(h, aus) == IF h.sent THEN [h EXCEPT !.client = Shown(@, aus)] ELSE h

\* A chunk with these units: parameter sets first, then the pictures.
Handler == [sps |-> sps, pps |-> pps, sent |-> sent, client |-> client]
Chunk(units, aus) ==
    LET h == SendsOn(Intercepted(Handler, units), aus)
    IN  sps' = h.sps /\ pps' = h.pps /\ sent' = h.sent /\ client' = h.client

\* What of a chunk goes on to the page: all that is no parameter set.
Forward(units) ==
    LET after[k \in 0 .. Len(units)] ==
            IF k = 0 THEN <<>>
            ELSE IF IsConfig(units[k]) THEN after[k - 1] ELSE Append(after[k - 1], units[k])
    IN  after[Len(units)]

\* Packet mode: the packet is one access unit, whatever sets it carries.
Packet(units) ==
    LET vcl == Forward(units)
    IN  /\ Chunk(units, IF vcl = <<>> THEN <<>> ELSE <<vcl>>)
        /\ UNCHANGED <<stream, buffer, pending>>

(* ------------------------------ the encoder ----------------------------- *)
Sets == <<Unit("sps", params[1]), Unit("pps", params[2])>>
Picture == Unit("vcl", pictures + 1)
Before == {<<>>, <<Unit("sei", pictures + 1)>>, <<Unit("aud", pictures + 1)>>}

Emits(units) == IF packets THEN Packet(units)
                ELSE stream' = stream \o units /\ UNCHANGED <<buffer, pending, sps, pps, sent, client>>

\* The sets alone, at the start, after a change, and again at will.
EmitSets ==
    /\ Len(stream) < MaxRead
    /\ owed' = FALSE /\ UNCHANGED <<params, pictures, changes, changed, packets>>
    /\ Emits(Sets)

\* A picture, with its sets in the same packet or after they were sent.
EmitPicture == \E b \in Before, inline \in BOOLEAN :
    /\ pictures < MaxPictures /\ Len(stream) < MaxRead
    /\ owed => inline
    /\ pictures' = pictures + 1 /\ owed' = FALSE
    /\ UNCHANGED <<params, changes, changed, packets>>
    /\ Emits((IF inline THEN Sets ELSE <<>>) \o b \o <<Picture>>)

ChangeSets == \E new \in {<<params[1] + 1, params[2]>>, <<params[1], params[2] + 1>>,
                          <<params[1] + 1, params[2] + 1>>} :
    /\ changes < MaxChanges /\ changes' = changes + 1
    /\ params' = new /\ owed' = TRUE /\ changed' = TRUE
    /\ UNCHANGED <<packets, pictures, stream, buffer, pending, sps, pps, sent, client>>

\* A new epoch: the first chunk of the new encoder finds parser, sets and pending units dropped.
Forgets == sps' = 0 /\ pps' = 0 /\ sent' = FALSE /\ buffer' = <<>> /\ pending' = <<>>

Restart ==
    /\ changes < MaxChanges /\ changes' = changes + 1
    /\ owed' = TRUE
    /\ stream' = <<>> /\ Forgets
    /\ client' = [client EXCEPT !.conf = <<0, 0>>, !.last = 0]
    /\ UNCHANGED <<packets, params, pictures, changed>>

\* Raw mode: a read takes some units; feed gives back all but the last, which may be cut.
ReadChunk == \E k \in 1..Len(stream) :
    LET got == buffer \o SubSeq(stream, 1, k)
        whole == SubSeq(got, 1, Len(got) - 1)
        a == Aggregate(pending \o Forward(whole))
    IN  /\ k <= MaxRead
        /\ stream' = SubSeq(stream, k + 1, Len(stream))
        /\ buffer' = <<got[Len(got)]>> /\ pending' = a.rest
        /\ Chunk(whole, a.aus)
        /\ UNCHANGED <<packets, encoderVars>>

UnitNext == EmitSets \/ EmitPicture \/ ChangeSets \/ Restart \/ ReadChunk

UnitSpec == UnitInit /\ [][UnitNext]_unitVars
-----------------------------------------------------------------------------
(* Every picture reaches the page under the config made of the parameter sets *)
(* it was encoded with: a config never pairs a new set with an old one, and   *)
(* nothing is sent between a change and its config, nor under the config of   *)
(* the encoder before a restart (intercept_nalu and the loop, video.py:       *)
(* 176-304); in the raw mode this holds as long as the sets do not change.    *)
PicturesDecode == packets \/ ~changed => ~client.wrong

(* Once the first picture of an encoder was sent, none is left out            *)
(* (video.py:270-331).                                                        *)
NoPictureLost == packets \/ ~changed => ~client.gap

(* Every binary message holds one picture, however the reads cut the stream   *)
(* (aggregate_aus, au_aggregator.py:50-112).                                  *)
OnePictureEach == ~client.odd

(* What waits for a picture holds none, so that nothing complete is held back *)
(* (au_aggregator.py:106-112), and what was announced as sent was paired.     *)
NothingHeldBack == /\ Pictures(pending) = {}
                   /\ sent => sps # 0 /\ pps # 0 /\ client.conf = <<sps, pps>>

(* What the page gets is what the encoder made: each picture once, in order,  *)
(* decodable and at once (video.py:176-331, au_aggregator.py).                *)
UnitInv == PicturesDecode /\ NoPictureLost /\ OnePictureEach /\ NothingHeldBack

(* The module says that an SEI goes with the picture after it                 *)
(* (au_aggregator.py:12): no message ends in the prefix of the next picture.  *)
PrefixGoesForward == ~client.mixed
=============================================================================
