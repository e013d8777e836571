----------------------------- MODULE Output_proofs -----------------------------
(***************************************************************************)
(* Two parts, each for any values of the constants of its module.          *)
(*                                                                         *)
(* First the pause (OutputPause): it leaves out what was asked for and     *)
(* nothing else, to the frame and to the sample, and the output can go on, *)
(* for any encoders, frame interval and segment length, however late the   *)
(* encoders are served, and for any number of pauses.  The invariant says  *)
(* where the frames of a video encoder are (Served), what a pause that     *)
(* lasts looks like (Pausing), that a pause which has ended is one of      *)
(* those asked for, ends ahead of the encoder and, for video, at a frame   *)
(* (Running), and that every other pause lies behind (Passed).             *)
(*                                                                         *)
(* Then the streaming output (RtmpStream on Output): once all its threads  *)
(* have ended nothing of the session is left behind, and what the user is  *)
(* told are sessions as StreamSession has them, for any number of starts,  *)
(* stops, losses, refusals and reconnect threads.  The invariant (RtmpInv) *)
(* ties every flag to the thread that will clear it.                       *)
(***************************************************************************)
EXTENDS OutputPause, RtmpStream, FiniteSetTheorems, SequenceTheorems, TLAPS

OnGrid(t) == t \in Nat /\ t >= shape.tick /\ (t - shape.tick) % Interval = 0

Stretch(p) == [from |-> p.start, to |-> p.end]

Typed ==
    /\ now \in Nat \ {0} /\ paused \in BOOLEAN
    /\ shape \in [segment : Nat \ {0}, tick : 1 .. Interval]
    /\ pause \in [Encoders -> [last : Nat, start : Nat, end : Nat, offset : Int]]
    /\ handed \in [Encoders -> Nat \ {0}]
    /\ kept \in [Encoders -> SUBSET Nat]
    /\ asked \subseteq [from : Nat \ {0}, to : Nat]

ServedVideo(h, last) ==
    /\ OnGrid(h) /\ h <= now + Interval
    /\ \/ last = 0 /\ h = shape.tick
       \/ OnGrid(last) /\ h = last + Interval

Served ==
    /\ \A v \in Video : ServedVideo(handed[v], pause[v].last)
    /\ \A a \in Audio : handed[a] <= now

\* Nothing resumes by itself before the call, and exactly one stretch is open.
Pausing ==
    paused => \E s \in Nat :
        /\ s > Interval
        /\ \A e \in Encoders : pause[e].start = s /\ pause[e].end = 0
        /\ [from |-> s, to |-> 0] \in asked
        /\ \A a \in asked : a.to = 0 => a = [from |-> s, to |-> 0]

\* An encoder that is still to reach the end of a pause will meet it.
Ending(e, p, h) ==
    /\ p.start # 0 /\ p.end # 0 /\ Stretch(p) \in asked
    /\ p.start < h /\ h <= p.end
    /\ e \in Video => OnGrid(p.end)

Running ==
    ~paused =>
        /\ \A a \in asked : a.to # 0
        /\ \A e \in Encoders : CanStart(pause[e]) \/ Ending(e, pause[e], handed[e])

Passed ==
    \A a \in asked : a.to # 0 => \A e \in Encoders : a.to <= handed[e] \/ Stretch(pause[e]) = a

PauseInv == Typed /\ Served /\ Pausing /\ Running /\ Passed

-----------------------------------------------------------------------------
(* The grid of the frames.                                                 *)

LEMMA Quotient ==
  ASSUME NEW d \in Nat \ {0}
  PROVE  /\ \A x \in Int : x \div d \in Int /\ x % d \in 0 .. (d - 1) /\ x = d * (x \div d) + (x % d)
         /\ \A q \in Int : (d * q) % d = 0
<1>1. ASSUME NEW x \in Int
      PROVE  x \div d \in Int /\ x % d \in 0 .. (d - 1) /\ x = d * (x \div d) + (x % d)
  BY SMT
<1>2. ASSUME NEW q \in Int PROVE (d * q) % d = 0
  <2>1. ASSUME NEW y \in Int, NEW p \in Int, NEW s \in 0 .. (d - 1), y = d * p + s
        PROVE  y % d = s
    BY <2>1, SMT
  <2>2. d * q \in Int /\ d * q = d * q + 0 /\ 0 \in 0 .. (d - 1)
    OBVIOUS
  <2> QED
    BY <2>1, <2>2
<1> QED
  BY <1>1, <1>2

\* A multiple further is on the grid, and nothing in between is.
LEMMA Multiples ==
  ASSUME NEW d \in Nat \ {0}, NEW x \in Int, x % d = 0
  PROVE  /\ \A q \in Int : (x + d * q) % d = 0
         /\ \A y \in Int : y % d = 0 /\ x < y => x + d <= y
<1> DEFINE m == x \div d
<1>1. m \in Int /\ x = d * m
  <2>1. x \div d \in Int /\ x = d * (x \div d) + (x % d)
    BY Quotient
  <2> QED
    BY <2>1
<1> HIDE DEF m
<1>2. ASSUME NEW q \in Int PROVE (x + d * q) % d = 0
  <2>1. x + d * q = d * (m + q) /\ m + q \in Int
    BY <1>1
  <2> QED
    BY <2>1, Quotient, Zenon
<1>3. ASSUME NEW y \in Int, y % d = 0, x < y PROVE x + d <= y
  <2> DEFINE n == y \div d
  <2>1. n \in Int /\ y = d * n
    <3>1. y \div d \in Int /\ y = d * (y \div d) + (y % d)
      BY Quotient
    <3> QED
      BY <1>3, <3>1
  <2> HIDE DEF n
  <2>2. d * (n - m) > 0
    BY <1>1, <1>3, <2>1
  <2>3. n - m >= 1
    BY <1>1, <2>1, <2>2
  <2>4. d * (n - m) >= d
    BY <1>1, <2>1, <2>3
  <2> QED
    BY <1>1, <2>1, <2>4
<1> QED
  BY <1>2, <1>3

LEMMA NextFrame ==
  ASSUME Typed, NEW t, OnGrid(t)
  PROVE  /\ OnGrid(t + Interval)
         /\ \A u \in Nat : OnGrid(u) /\ t < u => t + Interval <= u
<1>1. /\ Interval \in Nat \ {0} /\ shape.tick \in Nat /\ t \in Nat /\ t >= shape.tick
      /\ t - shape.tick \in Int /\ (t - shape.tick) % Interval = 0
  BY OutputPauseAssumption DEF Typed, OnGrid
<1> DEFINE x == t - shape.tick
<1>2. /\ \A q \in Int : (x + Interval * q) % Interval = 0
      /\ \A y \in Int : y % Interval = 0 /\ x < y => x + Interval <= y
  <2> HIDE DEF x
  <2> QED
    BY <1>1, Multiples DEF x
<1>3. x + Interval * 1 = (t + Interval) - shape.tick
  BY <1>1
<1>4. OnGrid(t + Interval)
  <2>1. ((t + Interval) - shape.tick) % Interval = 0
    <3> HIDE DEF x
    <3>1. (x + Interval * 1) % Interval = 0
      BY <1>2
    <3> QED
      BY <1>3, <3>1, Zenon
  <2>2. t + Interval \in Nat /\ t + Interval >= shape.tick
    BY <1>1
  <2> HIDE DEF x
  <2> QED
    BY <2>1, <2>2, Zenon DEF OnGrid
<1>5. ASSUME NEW u \in Nat, OnGrid(u), t < u PROVE t + Interval <= u
  <2>1. u - shape.tick \in Int /\ (u - shape.tick) % Interval = 0 /\ x < u - shape.tick
    BY <1>1, <1>5 DEF OnGrid
  <2>2. x + Interval <= u - shape.tick
    <3> HIDE DEF x
    <3> QED
      BY <1>2, <2>1
  <2> QED
    BY <1>1, <2>2
<1> QED
  BY <1>4, <1>5

\* get_closest_v_ts is more than an interval ahead, and at a frame.
LEMMA Closest ==
  ASSUME Typed, NEW p, p.last \in Nat, p.last <= now
  PROVE  /\ ClosestTime(p) \in Nat /\ ClosestTime(p) > now + Interval
         /\ OnGrid(p.last) => OnGrid(ClosestTime(p))
<1> DEFINE l == p.last
           x == now - l + 2 * Interval
           q == x \div Interval
           r == x % Interval
<1>1. Interval \in Nat \ {0} /\ l \in Nat /\ now \in Nat /\ l <= now
  BY OutputPauseAssumption DEF Typed
<1>2. x \in Int
  BY <1>1
<1>3. q \in Int /\ r \in 0 .. (Interval - 1) /\ x = Interval * q + r
  BY <1>1, <1>2, Quotient
<1>4. ClosestTime(p) = l + q * Interval
  BY DEF ClosestTime
<1>5. now - l + 2 * Interval = x
  OBVIOUS
<1> HIDE DEF x, q, r, l
<1>6. Interval * q \in Int /\ Interval * q = q * Interval
  BY <1>1, <1>3
<1>7. ClosestTime(p) = l + Interval * q
  BY <1>4, <1>6
<1>8. l + Interval * q = now + 2 * Interval - r
  BY <1>1, <1>3, <1>5, <1>6
<1>9. ClosestTime(p) \in Nat /\ ClosestTime(p) > now + Interval
  BY <1>1, <1>3, <1>7, <1>8
<1>10. ASSUME OnGrid(p.last) PROVE OnGrid(ClosestTime(p))
  <2>1. shape.tick \in Nat /\ (l - shape.tick) % Interval = 0 /\ l >= shape.tick
    BY <1>10 DEF Typed, OnGrid, l
  <2>2. (l - shape.tick + Interval * q) % Interval = 0
    <3> DEFINE z == l - shape.tick
    <3>1. z \in Int /\ z % Interval = 0
      BY <1>1, <2>1
    <3> HIDE DEF z
    <3>2. (z + Interval * q) % Interval = 0
      BY <1>1, <1>3, <3>1, Multiples
    <3> QED
      BY <3>2, Zenon DEF z
  <2>3. l - shape.tick + Interval * q = ClosestTime(p) - shape.tick
    BY <1>1, <1>6, <1>7, <2>1
  <2>4. (ClosestTime(p) - shape.tick) % Interval = 0
    BY <2>2, <2>3, Zenon
  <2>5. ClosestTime(p) >= shape.tick
    BY <1>1, <1>9, <2>1, l <= now DEF l
  <2> QED
    BY <1>9, <2>4, <2>5 DEF OnGrid
<1> QED
  BY <1>9, <1>10

-----------------------------------------------------------------------------
(* What is ahead of an encoder.                                            *)

\* Of the stretches asked for, those ahead of an encoder are in its own pause.
LEMMA Ahead ==
  ASSUME PauseInv, NEW e \in Encoders, NEW t \in Nat, t >= handed[e]
  PROVE  LeftOut(t) <=> /\ pause[e].start # 0 /\ pause[e].start <= t
                        /\ pause[e].end = 0 \/ t < pause[e].end
<1> DEFINE p == pause[e]
<1>1. /\ p \in [last : Nat, start : Nat, end : Nat, offset : Int] /\ handed[e] \in Nat \ {0}
      /\ asked \subseteq [from : Nat \ {0}, to : Nat]
  BY DEF PauseInv, Typed
<1>2. \A a \in asked : a.to # 0 => a.to <= handed[e] \/ Stretch(p) = a
  BY DEF PauseInv, Passed
<1>3. CASE paused
  <2>1. PICK s \in Nat :
        /\ s > Interval /\ p.start = s /\ p.end = 0
        /\ [from |-> s, to |-> 0] \in asked
        /\ \A a \in asked : a.to = 0 => a = [from |-> s, to |-> 0]
    BY <1>3 DEF PauseInv, Pausing
  <2>2. s # 0
    BY <2>1, OutputPauseAssumption
  <2>3. ASSUME NEW a \in asked, a.to # 0 PROVE ~(t < a.to)
    <3>1. Stretch(p) # a
      BY <2>1, <2>3 DEF Stretch
    <3>2. a.to <= handed[e] /\ a.to \in Nat
      BY <1>1, <1>2, <2>3, <3>1
    <3> QED
      BY <1>1, <3>2
  <2> HIDE DEF p
  <2>4. CASE s <= t
    BY <2>1, <2>2, <2>4 DEF LeftOut, p
  <2>5. CASE ~(s <= t)
    <3>1. ASSUME NEW a \in asked, a.from <= t, a.to = 0 \/ t < a.to PROVE FALSE
      <4>1. a.to = 0
        BY <2>3, <3>1
      <4>2. a.from = s
        BY <2>1, <4>1
      <4> QED
        BY <2>5, <3>1, <4>2
    <3> QED
      BY <2>1, <2>5, <3>1 DEF LeftOut, p
  <2> QED
    BY <2>4, <2>5
<1>4. CASE ~paused
  <2>1. /\ \A a \in asked : a.to # 0
        /\ CanStart(p) \/ Ending(e, p, handed[e])
    BY <1>4 DEF PauseInv, Running
  <2>2. ASSUME NEW a \in asked, t < a.to PROVE Stretch(p) = a /\ p.end # 0 /\ p.start # 0
    <3>1. ~(a.to <= handed[e])
      BY <1>1, <2>2
    <3>2. Stretch(p) = a
      BY <1>2, <2>1, <3>1
    <3>3. p.end = a.to /\ p.start = a.from
      BY <3>2 DEF Stretch
    <3> QED
      BY <1>1, <2>1, <3>2, <3>3
  <2>3. CASE p.start # 0 /\ p.start <= t /\ (p.end = 0 \/ t < p.end)
    <3>1. Stretch(p) \in asked /\ p.end # 0
      BY <2>1, <2>3 DEF CanStart, Ending
    <3>2. Stretch(p).from = p.start /\ Stretch(p).to = p.end
      BY DEF Stretch
    <3> QED
      BY <2>3, <3>1, <3>2 DEF LeftOut
  <2>4. CASE ~(p.start # 0 /\ p.start <= t /\ (p.end = 0 \/ t < p.end))
    <3>1. ASSUME NEW a \in asked, a.from <= t, a.to = 0 \/ t < a.to PROVE FALSE
      <4>1. t < a.to
        BY <2>1, <3>1
      <4>2. Stretch(p) = a /\ p.end # 0 /\ p.start # 0
        BY <2>2, <4>1
      <4>3. p.end = a.to /\ p.start = a.from
        BY <4>2 DEF Stretch
      <4> QED
        BY <2>4, <3>1, <4>1, <4>2, <4>3
    <3> QED
      BY <2>4, <3>1 DEF LeftOut
  <2> QED
    BY <2>3, <2>4
<1> QED
  BY <1>3, <1>4

\* When an encoder moves on and its pause is over at the latest when its end is
\* behind, the rest of the invariant is as it was.
LEMMA PassedOn ==
  ASSUME PauseInv, NEW e \in Encoders, NEW p, NEW h \in Nat, h >= handed[e],
         UNCHANGED <<paused, asked, shape>>,
         pause' = [pause EXCEPT ![e] = p], handed' = [handed EXCEPT ![e] = h],
         \/ p.start = pause[e].start /\ p.end = pause[e].end
            /\ (p.end # 0 => h <= p.end)
         \/ p.start = 0 /\ p.end = 0 /\ pause[e].end # 0 /\ pause[e].end <= h
  PROVE  Pausing' /\ Running' /\ Passed'
<1> DEFINE q == pause[e]
<1>1. /\ q \in [last : Nat, start : Nat, end : Nat, offset : Int] /\ handed[e] \in Nat \ {0}
      /\ asked \subseteq [from : Nat \ {0}, to : Nat]
  BY DEF PauseInv, Typed
<1>2. /\ pause'[e] = p /\ handed'[e] = h
      /\ \A x \in Encoders \ {e} : pause'[x] = pause[x] /\ handed'[x] = handed[x]
  BY DEF PauseInv, Typed
<1> HIDE DEF q
<1>0. paused' = paused /\ asked' = asked /\ shape' = shape
  OBVIOUS
<1>3. Pausing'
  <2>1. CASE ~paused
    BY <1>0, <2>1 DEF Pausing
  <2>2. CASE paused
    <3>1. PICK s \in Nat :
          /\ s > Interval
          /\ \A x \in Encoders : pause[x].start = s /\ pause[x].end = 0
          /\ [from |-> s, to |-> 0] \in asked
          /\ \A a \in asked : a.to = 0 => a = [from |-> s, to |-> 0]
      BY <2>2, Zenon DEF PauseInv, Pausing
    <3>2. \A x \in Encoders : pause'[x].start = s /\ pause'[x].end = 0
      BY <1>2, <3>1
    <3> QED
      BY <1>0, <3>1, <3>2 DEF Pausing
  <2> QED
    BY <2>1, <2>2
<1>4. Running'
  <2>0. ASSUME ~paused, \A x \in Encoders : CanStart(pause[x])' \/ Ending(x, pause[x], handed[x])'
        PROVE  Running'
    <3>1. \A a \in asked : a.to # 0
      BY <2>0 DEF PauseInv, Running
    <3> QED
      BY <1>0, <2>0, <3>1, Zenon DEF Running
  <2>5. CASE paused
    BY <1>0, <2>5 DEF Running
  <2> SUFFICES ASSUME ~paused, NEW x \in Encoders
               PROVE  CanStart(pause[x])' \/ Ending(x, pause[x], handed[x])'
    BY <2>0, <2>5
  <2>1. CanStart(pause[x]) \/ Ending(x, pause[x], handed[x])
    BY DEF PauseInv, Running
  <2>2. CASE x # e
    BY <1>0, <1>2, <2>1, <2>2 DEF CanStart, Ending, OnGrid
  <2>3. CASE x = e /\ p.start = q.start /\ p.end = q.end /\ (p.end # 0 => h <= p.end)
    <3>1. CASE CanStart(q)
      BY <1>2, <2>3, <3>1 DEF CanStart
    <3>2. CASE Ending(e, q, handed[e])
      <4>1. p.start < h
        BY <1>1, <2>3, <3>2 DEF Ending
      <4>2. Stretch(p) = Stretch(q)
        BY <2>3 DEF Stretch
      <4>3. Ending(e, p, h)
        BY <2>3, <3>2, <4>1, <4>2 DEF Ending
      <4> QED
        BY <1>0, <1>2, <2>3, <4>3 DEF Ending, OnGrid
    <3> QED
      BY <2>1, <2>3, <3>1, <3>2 DEF q
  <2>4. CASE x = e /\ p.start = 0 /\ p.end = 0
    BY <1>2, <2>4 DEF CanStart
  <2> QED
    BY <2>2, <2>3, <2>4 DEF q
<1>5. Passed'
  <2> SUFFICES ASSUME NEW a \in asked, a.to # 0, NEW x \in Encoders
               PROVE  a.to <= handed'[x] \/ Stretch(pause'[x]) = a
    BY DEF Passed
  <2>1. a.to <= handed[x] \/ Stretch(pause[x]) = a
    BY DEF PauseInv, Passed
  <2>2. CASE x # e
    BY <1>2, <2>1, <2>2
  <2>3. CASE x = e /\ a.to <= handed[x]
    BY <1>1, <1>2, <2>3
  <2>4. CASE x = e /\ Stretch(q) = a
    <3>1. a.to = q.end /\ a.from = q.start
      BY <2>4 DEF Stretch
    <3>2. CASE p.start = q.start /\ p.end = q.end
      BY <1>2, <2>4, <3>2 DEF Stretch
    <3>3. CASE q.end <= h
      BY <1>2, <2>4, <3>1, <3>3
    <3> QED
      BY <3>2, <3>3 DEF q
  <2> QED
    BY <2>1, <2>2, <2>3, <2>4 DEF q
<1> QED
  BY <1>3, <1>4, <1>5

LEMMA PauseOf ==
  ASSUME PauseInv, NEW e \in Encoders
  PROVE  /\ pause[e] \in [last : Nat, start : Nat, end : Nat, offset : Int]
         /\ handed[e] \in Nat \ {0} /\ kept[e] \subseteq Nat
         /\ pause[e].end # 0 =>
               /\ pause[e].start # 0 /\ pause[e].start < handed[e] /\ handed[e] <= pause[e].end
               /\ e \in Video => OnGrid(pause[e].end)
<1>1. /\ pause[e] \in [last : Nat, start : Nat, end : Nat, offset : Int]
      /\ handed[e] \in Nat \ {0} /\ kept[e] \subseteq Nat
  BY DEF PauseInv, Typed
<1>2. CASE paused
  BY <1>1, <1>2 DEF PauseInv, Pausing
<1>3. CASE ~paused
  <2>1. CanStart(pause[e]) \/ Ending(e, pause[e], handed[e])
    BY <1>3 DEF PauseInv, Running
  <2> QED
    BY <1>1, <2>1 DEF CanStart, Ending
<1> QED
  BY <1>2, <1>3

\* The history of one encoder grows by what it leaves of what it is handed.
LEMMA KeepsMore ==
  ASSUME Typed, KeepsExactly, NEW e \in Encoders, NEW more, NEW left,
         UNCHANGED <<shape, asked>>,
         kept' = [kept EXCEPT ![e] = @ \cup left],
         \A x \in Encoders \ {e} : handed'[x] = handed[x],
         HandedTo(e)' = HandedTo(e) \cup more,
         left = {t \in more : ~LeftOut(t)}
  PROVE  KeepsExactly'
<1>1. \A t : LeftOut(t)' <=> LeftOut(t)
  BY DEF LeftOut
<1>2. ASSUME NEW x \in Encoders, x # e
      PROVE  kept'[x] = {t \in HandedTo(x)' : ~LeftOut(t)'}
  <2>1. HandedTo(x)' = HandedTo(x)
    <3>1. handed'[x] = handed[x] /\ shape' = shape
      BY <1>2
    <3> QED
      BY <3>1, Zenon DEF HandedTo
  <2>2. kept'[x] = kept[x] /\ kept[x] = {t \in HandedTo(x) : ~LeftOut(t)}
    BY <1>2 DEF Typed, KeepsExactly
  <2> HIDE DEF HandedTo, LeftOut
  <2> QED
    BY <1>1, <2>1, <2>2
<1>3. kept'[e] = {t \in HandedTo(e)' : ~LeftOut(t)'}
  <2>1. kept'[e] = kept[e] \cup left /\ kept[e] = {t \in HandedTo(e) : ~LeftOut(t)}
    BY DEF Typed, KeepsExactly
  <2> HIDE DEF HandedTo, LeftOut
  <2> QED
    BY <1>1, <2>1
<1> HIDE DEF HandedTo, LeftOut
<1> QED
  BY <1>2, <1>3 DEF KeepsExactly

LEMMA VideoFrameKeeps ==
  ASSUME PauseInv, KeepsExactly, NEW v \in Video, VideoFrame(v)
  PROVE  PauseInv' /\ KeepsExactly'
<1> DEFINE p == pause[v]
           ts == handed[v]
           q == VideoChecked(p, ts)
           left == IF VideoIgnored(p, ts) THEN {} ELSE {ts}
<1>0. v \in Encoders
  BY DEF Encoders
<1>1. /\ ts <= now
      /\ pause' = [pause EXCEPT ![v] = q]
      /\ kept' = [kept EXCEPT ![v] = @ \cup left]
      /\ handed' = [handed EXCEPT ![v] = ts + Interval]
      /\ UNCHANGED <<now, paused, shape, asked>>
  BY DEF VideoFrame
<1>2. /\ p \in [last : Nat, start : Nat, end : Nat, offset : Int] /\ ts \in Nat \ {0}
      /\ Interval \in Nat \ {0} /\ now \in Nat /\ shape.tick \in Nat
      /\ p.end # 0 => p.start # 0 /\ p.start < ts /\ ts <= p.end /\ OnGrid(p.end)
  BY <1>0, PauseOf, OutputPauseAssumption DEF PauseInv, Typed
<1>3. OnGrid(ts) /\ OnGrid(ts + Interval)
      /\ \A u \in Nat : OnGrid(u) /\ ts < u => ts + Interval <= u
  <2>1. OnGrid(ts)
    BY DEF PauseInv, Served, ServedVideo
  <2> QED
    BY <2>1, NextFrame DEF PauseInv
<1>4. LeftOut(ts) <=> p.start # 0 /\ p.start <= ts /\ (p.end = 0 \/ ts < p.end)
  BY <1>0, <1>2, Ahead
<1>5. /\ q.last = ts
      /\ \/ p.start # 0 /\ ts = p.end /\ q.start = 0 /\ q.end = 0
         \/ ~(p.start # 0 /\ ts = p.end) /\ q.start = p.start /\ q.end = p.end
      /\ q \in [last : Nat, start : Nat, end : Nat, offset : Int]
  BY <1>2 DEF VideoChecked, VideoResumes
<1>6. VideoIgnored(p, ts) <=> LeftOut(ts)
  BY <1>2, <1>4 DEF VideoIgnored, VideoResumes
<1>7. left = {t \in {ts} : ~LeftOut(t)}
  <2> HIDE DEF LeftOut, ts, p
  <2> QED
    BY <1>6
<1> HIDE DEF q, p, ts, left
<1>8. Typed'
  <2>1. left \subseteq Nat
    BY <1>2, <1>7
  <2>2. kept' \in [Encoders -> SUBSET Nat]
    BY <1>1, <2>1 DEF PauseInv, Typed
  <2>3. pause' \in [Encoders -> [last : Nat, start : Nat, end : Nat, offset : Int]]
    BY <1>1, <1>5 DEF PauseInv, Typed
  <2>4. handed' \in [Encoders -> Nat \ {0}]
    <3>1. ts + Interval \in Nat \ {0}
      BY <1>2
    <3> QED
      BY <1>1, <3>1 DEF PauseInv, Typed
  <2> QED
    BY <1>1, <2>2, <2>3, <2>4 DEF PauseInv, Typed
<1>9. Served'
  <2>1. \A x \in Encoders : x # v => pause'[x] = pause[x] /\ handed'[x] = handed[x]
    BY <1>1 DEF PauseInv, Typed
  <2>2. pause'[v] = q /\ handed'[v] = ts + Interval
    BY <1>0, <1>1 DEF PauseInv, Typed
  <2>3. v \notin Audio
    BY OutputPauseAssumption
  <2>4. \A t : OnGrid(t)' <=> OnGrid(t)
    BY <1>1 DEF OnGrid
  <2>5. ServedVideo(handed[v], pause[v].last)'
    <3>1. ts + Interval <= now + Interval
      BY <1>1, <1>2
    <3> QED
      BY <1>1, <1>3, <1>5, <2>2, <3>1 DEF ServedVideo, OnGrid
  <2>6. ASSUME NEW x \in Video, x # v PROVE ServedVideo(handed[x], pause[x].last)'
    <3>1. x \in Encoders /\ ServedVideo(handed[x], pause[x].last)
      BY DEF Encoders, PauseInv, Served
    <3> QED
      BY <1>1, <2>1, <2>6, <3>1 DEF ServedVideo, OnGrid
  <2>7. \A a \in Audio : handed'[a] <= now'
    BY <1>1, <2>1, <2>3 DEF PauseInv, Served, Encoders
  <2> QED
    BY <2>5, <2>6, <2>7 DEF Served
<1>10. Pausing' /\ Running' /\ Passed'
  <2>1. ts + Interval \in Nat /\ ts + Interval >= ts
    BY <1>2
  <2>2. \/ q.start = p.start /\ q.end = p.end /\ (q.end # 0 => ts + Interval <= q.end)
        \/ q.start = 0 /\ q.end = 0 /\ p.end # 0 /\ p.end <= ts + Interval
    <3>1. CASE p.start # 0 /\ ts = p.end
      BY <1>2, <1>5, <3>1
    <3>2. CASE ~(p.start # 0 /\ ts = p.end)
      BY <1>2, <1>3, <1>5, <3>2
    <3> QED
      BY <3>1, <3>2
  <2> QED
    BY <1>0, <1>1, <2>1, <2>2, PassedOn DEF p, ts
<1>11. HandedTo(v)' = HandedTo(v) \cup {ts}
  <2>1. handed'[v] = ts + Interval
    BY <1>0, <1>1 DEF PauseInv, Typed
  <2>2. HandedTo(v)' = {t \in shape.tick .. ((ts + Interval) - 1) : (t - shape.tick) % Interval = 0}
    BY <1>1, <2>1 DEF HandedTo
  <2>3. HandedTo(v) = {t \in shape.tick .. (ts - 1) : (t - shape.tick) % Interval = 0}
    BY DEF HandedTo, ts
  <2>4. \A t : t \in shape.tick .. ((ts + Interval) - 1) /\ (t - shape.tick) % Interval = 0
                <=> OnGrid(t) /\ t < ts + Interval
    BY <1>2 DEF OnGrid
  <2>5. \A t : t \in shape.tick .. (ts - 1) /\ (t - shape.tick) % Interval = 0
                <=> OnGrid(t) /\ t < ts
    BY <1>2 DEF OnGrid
  <2>6. ASSUME NEW t, OnGrid(t) PROVE t < ts + Interval <=> t < ts \/ t = ts
    <3>1. t \in Nat
      BY <2>6 DEF OnGrid
    <3>2. CASE t < ts
      BY <1>2, <3>1, <3>2
    <3>3. CASE t = ts
      BY <1>2, <3>3
    <3>4. CASE ts < t
      BY <1>2, <1>3, <2>6, <3>1, <3>4
    <3> QED
      BY <1>2, <3>1, <3>2, <3>3, <3>4
  <2> QED
    BY <1>3, <2>2, <2>3, <2>4, <2>5, <2>6
<1>12. KeepsExactly'
  <2>1. \A x \in Encoders \ {v} : handed'[x] = handed[x]
    BY <1>1 DEF PauseInv, Typed
  <2> QED
    BY <1>0, <1>1, <1>7, <1>11, <2>1, KeepsMore DEF PauseInv
<1> QED
  BY <1>8, <1>9, <1>10, <1>12 DEF PauseInv

LEMMA AudioSegmentKeeps ==
  ASSUME PauseInv, KeepsExactly, NEW a \in Audio, AudioSegment(a)
  PROVE  PauseInv' /\ KeepsExactly'
<1> DEFINE p == pause[a]
           ts == handed[a]
           end == ts + shape.segment
           q == AudioChecked(p, ts, end)
           left == AudioLeft(p, ts, end)
<1>0. a \in Encoders /\ a \notin Video
  BY OutputPauseAssumption DEF Encoders
<1>1. /\ end <= now
      /\ pause' = [pause EXCEPT ![a] = q]
      /\ kept' = [kept EXCEPT ![a] = @ \cup left]
      /\ handed' = [handed EXCEPT ![a] = end]
      /\ UNCHANGED <<now, paused, shape, asked>>
  BY DEF AudioSegment
<1>2. /\ p \in [last : Nat, start : Nat, end : Nat, offset : Int] /\ ts \in Nat \ {0}
      /\ now \in Nat /\ shape.segment \in Nat \ {0}
      /\ p.end # 0 => p.start # 0 /\ p.start < ts /\ ts <= p.end
  BY <1>0, PauseOf DEF PauseInv, Typed
<1>3. end \in Nat \ {0} /\ end >= ts
  BY <1>2
<1>4. ASSUME NEW t \in Nat, t >= ts
      PROVE  LeftOut(t) <=> p.start # 0 /\ p.start <= t /\ (p.end = 0 \/ t < p.end)
  BY <1>0, <1>4, Ahead
<1> HIDE DEF end, p, ts
<1>5. /\ \/ EndsWithin(p, ts, end) /\ p.start # 0 /\ q.start = 0 /\ q.end = 0
         \/ ~(EndsWithin(p, ts, end) /\ p.start # 0) /\ q = p
      /\ q \in [last : Nat, start : Nat, end : Nat, offset : Int]
  BY <1>2 DEF AudioChecked
<1>6. left = {t \in Samples(ts, end) : ~LeftOut(t)}
  <2>0. \A t \in Samples(ts, end) : t \in Nat /\ t >= ts /\ t < end
    BY <1>2, <1>3 DEF Samples
  <2>1. \A t \in Samples(ts, end) :
            LeftOut(t) <=> p.start # 0 /\ p.start <= t /\ (p.end = 0 \/ t < p.end)
    BY <1>4, <2>0
  <2> HIDE DEF left
  <2> SUFFICES left = {t \in Samples(ts, end) :
                          ~(p.start # 0 /\ p.start <= t /\ (p.end = 0 \/ t < p.end))}
    <3> HIDE DEF LeftOut, Samples
    <3> QED
      BY <2>1
  <2>2. CASE p.start = 0
    <3>1. left = Samples(ts, end)
      BY <2>2 DEF left, AudioLeft
    <3> QED
      BY <2>2, <3>1 DEF Samples
  <2>3. CASE p.start # 0 /\ StartsWithin(p, ts, end)
    <3>1. left = Samples(ts, p.start)
      <4> HIDE DEF StartsWithin, EndsWithin, Samples
      <4> QED
        BY <2>3, Zenon DEF left, AudioLeft
    <3>2. p.start >= ts /\ p.start <= end /\ p.end = 0
      BY <1>2, <2>3 DEF StartsWithin
    <3> QED
      BY <1>2, <1>3, <2>3, <3>1, <3>2 DEF Samples
  <2>4. CASE p.start # 0 /\ ~StartsWithin(p, ts, end) /\ EndsWithin(p, ts, end)
    <3>1. left = Samples(p.end, end)
      <4> HIDE DEF StartsWithin, EndsWithin, Samples
      <4> QED
        BY <2>4, Zenon DEF left, AudioLeft
    <3>2. p.end # 0 /\ p.end >= ts /\ p.end <= end /\ p.start < ts
      BY <1>2, <1>3, <2>4 DEF EndsWithin
    <3> QED
      BY <1>2, <1>3, <2>4, <3>1, <3>2 DEF Samples
  <2>5. CASE p.start # 0 /\ ~StartsWithin(p, ts, end) /\ ~EndsWithin(p, ts, end) /\ p.start < ts
    <3>1. left = {} /\ (p.end = 0 \/ p.end > end)
      BY <1>2, <1>3, <2>5 DEF left, AudioLeft, EndsWithin
    <3> QED
      BY <1>2, <1>3, <2>5, <3>1 DEF Samples
  <2>6. CASE p.start # 0 /\ ~StartsWithin(p, ts, end) /\ ~EndsWithin(p, ts, end) /\ ~(p.start < ts)
    <3>1. left = Samples(ts, end) /\ p.start > end
      BY <1>2, <1>3, <2>6 DEF left, AudioLeft, StartsWithin
    <3> QED
      BY <1>2, <1>3, <2>6, <3>1 DEF Samples
  <2> QED
    BY <2>2, <2>3, <2>4, <2>5, <2>6
<1> HIDE DEF q, left
<1>8. Typed'
  <2>1. left \subseteq Nat
    BY <1>2, <1>3, <1>6 DEF Samples
  <2>2. kept' \in [Encoders -> SUBSET Nat]
    BY <1>1, <2>1 DEF PauseInv, Typed
  <2>3. pause' \in [Encoders -> [last : Nat, start : Nat, end : Nat, offset : Int]]
    BY <1>1, <1>5 DEF PauseInv, Typed
  <2>4. handed' \in [Encoders -> Nat \ {0}]
    BY <1>1, <1>3 DEF PauseInv, Typed
  <2> QED
    BY <1>1, <2>2, <2>3, <2>4 DEF PauseInv, Typed
<1>9. Served'
  <2>1. \A x \in Encoders : x # a => pause'[x] = pause[x] /\ handed'[x] = handed[x]
    BY <1>1 DEF PauseInv, Typed
  <2>2. handed'[a] = end
    BY <1>0, <1>1 DEF PauseInv, Typed
  <2>3. ASSUME NEW x \in Video PROVE ServedVideo(handed[x], pause[x].last)'
    <3>1. x \in Encoders /\ x # a /\ ServedVideo(handed[x], pause[x].last)
      BY <1>0 DEF Encoders, PauseInv, Served
    <3> QED
      BY <1>1, <2>1, <3>1 DEF ServedVideo, OnGrid
  <2>4. \A x \in Audio : handed'[x] <= now'
    BY <1>1, <2>1, <2>2 DEF PauseInv, Served, Encoders
  <2> QED
    BY <2>3, <2>4 DEF Served
<1>10. Pausing' /\ Running' /\ Passed'
  <2>1. \/ q.start = p.start /\ q.end = p.end /\ (q.end # 0 => end <= q.end)
        \/ q.start = 0 /\ q.end = 0 /\ p.end # 0 /\ p.end <= end
    <3>1. CASE EndsWithin(p, ts, end) /\ p.start # 0
      BY <1>2, <1>3, <1>5, <3>1 DEF EndsWithin
    <3>2. CASE ~(EndsWithin(p, ts, end) /\ p.start # 0)
      BY <1>2, <1>3, <1>5, <3>2 DEF EndsWithin
    <3> QED
      BY <3>1, <3>2
  <2> QED
    BY <1>0, <1>1, <1>3, <2>1, PassedOn DEF p, ts
<1>11. HandedTo(a)' = HandedTo(a) \cup Samples(ts, end)
  <2>1. HandedTo(a)' = Samples(1, end) /\ HandedTo(a) = Samples(1, ts)
    BY <1>0, <1>1 DEF HandedTo, PauseInv, Typed, ts, Samples
  <2> QED
    BY <1>2, <1>3, <2>1 DEF Samples
<1>12. KeepsExactly'
  <2>1. \A x \in Encoders \ {a} : handed'[x] = handed[x]
    BY <1>1 DEF PauseInv, Typed
  <2> QED
    BY <1>0, <1>1, <1>6, <1>11, <2>1, KeepsMore DEF PauseInv
<1> QED
  BY <1>8, <1>9, <1>10, <1>12 DEF PauseInv

-----------------------------------------------------------------------------
(* The calls.                                                              *)

\* A call speaks of a time that no encoder has come to.
LEMMA CalledAhead ==
  ASSUME PauseInv
  PROVE  /\ ClosestTime(pause[FirstVideo]) \in Nat
         /\ ClosestTime(pause[FirstVideo]) > Interval
         /\ \A e \in Encoders : handed[e] < ClosestTime(pause[FirstVideo])
         /\ pause[FirstVideo].last # 0 => OnGrid(ClosestTime(pause[FirstVideo]))
<1> DEFINE p == pause[FirstVideo]
           ts == ClosestTime(p)
<1>0. FirstVideo \in Video /\ FirstVideo \in Encoders /\ Interval \in Nat \ {0}
  BY OutputPauseAssumption DEF Encoders
<1>1. p.last \in Nat /\ now \in Nat /\ handed[FirstVideo] \in Nat
  BY <1>0, PauseOf DEF PauseInv, Typed
<1>2. ServedVideo(handed[FirstVideo], p.last)
  BY <1>0 DEF PauseInv, Served
<1>3. p.last <= now /\ (p.last # 0 => OnGrid(p.last))
  BY <1>0, <1>1, <1>2 DEF ServedVideo, OnGrid
<1>4. ts \in Nat /\ ts > now + Interval /\ (OnGrid(p.last) => OnGrid(ts))
  BY <1>1, <1>3, Closest DEF PauseInv
<1> HIDE DEF ts
<1>5. ASSUME NEW e \in Encoders PROVE handed[e] <= now + Interval
  <2>1. handed[e] \in Nat
    BY PauseOf
  <2>2. CASE e \in Video
    BY <2>2 DEF PauseInv, Served, ServedVideo
  <2>3. CASE e \in Audio
    BY <1>0, <1>1, <2>1, <2>3 DEF PauseInv, Served
  <2> QED
    BY <2>2, <2>3 DEF Encoders
<1>6. \A e \in Encoders : handed[e] < ts
  <2> SUFFICES ASSUME NEW e \in Encoders PROVE handed[e] < ts
    OBVIOUS
  <2>1. handed[e] \in Nat /\ handed[e] <= now + Interval
    BY <1>5, PauseOf
  <2> QED
    BY <1>0, <1>1, <1>4, <2>1
<1>7. ts > Interval
  BY <1>0, <1>1, <1>4
<1> QED
  BY <1>3, <1>4, <1>6, <1>7 DEF ts

\* What is said of times to come changes nothing about what was kept.
LEMMA KeepsUntilNow ==
  ASSUME Typed, KeepsExactly, UNCHANGED <<kept, handed, shape>>,
         \A e \in Encoders : \A t \in HandedTo(e) : LeftOut(t)' <=> LeftOut(t)
  PROVE  KeepsExactly'
<1> SUFFICES ASSUME NEW e \in Encoders
             PROVE  kept'[e] = {t \in HandedTo(e)' : ~LeftOut(t)'}
  BY DEF KeepsExactly
<1>1. HandedTo(e)' = HandedTo(e)
  <2>1. handed' = handed /\ shape' = shape
    OBVIOUS
  <2> QED
    BY <2>1, Zenon DEF HandedTo
<1>2. kept'[e] = {t \in HandedTo(e) : ~LeftOut(t)}
  BY DEF KeepsExactly
<1> HIDE DEF HandedTo, LeftOut
<1> QED
  BY <1>1, <1>2

LEMMA HandedBefore ==
  ASSUME PauseInv, NEW e \in Encoders, NEW t \in HandedTo(e)
  PROVE  t \in Nat /\ t < handed[e]
<1>1. handed[e] \in Nat /\ shape.tick \in Nat
  BY PauseOf DEF PauseInv, Typed
<1> QED
  BY <1>1 DEF HandedTo, Samples

\* The frames stay where they were.
LEMMA ServedStill ==
  ASSUME PauseInv, UNCHANGED <<now, handed, shape>>,
         \A e \in Encoders : pause'[e].last = pause[e].last
  PROVE  Served'
<1>1. ASSUME NEW v \in Video PROVE ServedVideo(handed[v], pause[v].last)'
  <2>1. v \in Encoders /\ ServedVideo(handed[v], pause[v].last)
    BY DEF Encoders, PauseInv, Served
  <2> QED
    BY <2>1 DEF ServedVideo, OnGrid
<1>2. \A a \in Audio : handed'[a] <= now'
  BY DEF PauseInv, Served
<1> QED
  BY <1>1, <1>2 DEF Served

LEMMA PauseKeeps ==
  ASSUME PauseInv, KeepsExactly, Pause
  PROVE  PauseInv' /\ KeepsExactly'
<1> DEFINE ts == ClosestTime(pause[FirstVideo])
           open == [from |-> ts, to |-> 0]
<1>1. /\ ~paused /\ paused' = TRUE
      /\ \A e \in Encoders : CanStart(pause[e])
      /\ pause' = [e \in Encoders |-> [pause[e] EXCEPT !.start = ts]]
      /\ asked' = asked \cup {open}
      /\ UNCHANGED <<now, handed, shape, kept>>
  BY DEF Pause
<1>2. ts \in Nat /\ ts > Interval /\ \A e \in Encoders : handed[e] < ts
  BY CalledAhead
<1>3. open.from = ts /\ open.to = 0 /\ ts # 0 /\ open \in [from : Nat \ {0}, to : Nat]
  BY <1>2, OutputPauseAssumption
<1> HIDE DEF ts
<1>4. ASSUME NEW e \in Encoders
      PROVE  /\ pause'[e] \in [last : Nat, start : Nat, end : Nat, offset : Int]
             /\ pause'[e].last = pause[e].last /\ pause'[e].start = ts /\ pause'[e].end = 0
  <2>1. pause[e] \in [last : Nat, start : Nat, end : Nat, offset : Int] /\ pause[e].end = 0
    BY <1>1, PauseOf DEF CanStart
  <2> QED
    BY <1>1, <1>2, <2>1
<1>5. Typed'
  <2>1. pause' \in [Encoders -> [last : Nat, start : Nat, end : Nat, offset : Int]]
    BY <1>1, <1>4
  <2>2. asked' \subseteq [from : Nat \ {0}, to : Nat]
    BY <1>1, <1>3 DEF PauseInv, Typed
  <2> QED
    BY <1>1, <2>1, <2>2 DEF PauseInv, Typed
<1>6. Served'
  BY <1>1, <1>4, ServedStill
<1>7. \A a \in asked : a.to # 0
  BY <1>1 DEF PauseInv, Running
<1>8. Pausing' /\ Running'
  <2> HIDE DEF open
  <2>1. \A a \in asked' : a.to = 0 => a = open
    BY <1>1, <1>7
  <2>2. open \in asked'
    BY <1>1
  <2> QED
    BY <1>1, <1>2, <1>4, <2>1, <2>2 DEF Pausing, Running, open
<1>9. Passed'
  <2> SUFFICES ASSUME NEW a \in asked, a.to # 0, NEW e \in Encoders PROVE a.to <= handed[e]
    BY <1>1, <1>3 DEF Passed
  <2>1. a.to <= handed[e] \/ Stretch(pause[e]) = a
    BY DEF PauseInv, Passed
  <2>2. Stretch(pause[e]).to = 0
    BY <1>1 DEF Stretch, CanStart
  <2> QED
    BY <2>1, <2>2
<1>10. ASSUME NEW e \in Encoders, NEW t \in HandedTo(e) PROVE LeftOut(t)' <=> LeftOut(t)
  <2>1. t \in Nat /\ ~(ts <= t)
    <3>1. t \in Nat /\ t < handed[e] /\ handed[e] < ts /\ handed[e] \in Nat
      BY <1>2, HandedBefore, PauseOf
    <3> QED
      BY <1>2, <3>1
  <2> HIDE DEF open
  <2> QED
    BY <1>1, <1>3, <2>1 DEF LeftOut
<1>11. KeepsExactly'
  BY <1>1, <1>10, KeepsUntilNow DEF PauseInv
<1> QED
  BY <1>5, <1>6, <1>8, <1>9, <1>11 DEF PauseInv

\* Whoever waits for every encoder to have paused ends the pause behind its
\* start and at a frame.
LEMMA UnpauseKeeps ==
  ASSUME Patient, PauseInv, KeepsExactly, Unpause
  PROVE  PauseInv' /\ KeepsExactly'
<1> DEFINE ts == ClosestTime(pause[FirstVideo])
           Close(a) == [a EXCEPT !.to = IF @ = 0 THEN ts ELSE @]
<1>0. FirstVideo \in Video /\ FirstVideo \in Encoders /\ Interval \in Nat \ {0}
  BY OutputPauseAssumption DEF Encoders
<1>1. /\ paused /\ paused' = FALSE
      /\ \A e \in Encoders : handed[e] > pause[e].start
      /\ pause' = [e \in Encoders |-> EndPause(pause[e], ts)]
      /\ asked' = {Close(a) : a \in asked}
      /\ UNCHANGED <<now, handed, shape, kept>>
  BY DEF Unpause, Begun
<1>2. PICK s \in Nat :
        /\ s > Interval
        /\ \A e \in Encoders : pause[e].start = s /\ pause[e].end = 0
        /\ [from |-> s, to |-> 0] \in asked
        /\ \A a \in asked : a.to = 0 => a = [from |-> s, to |-> 0]
  BY <1>1 DEF PauseInv, Pausing
<1>3. s # 0 /\ \A e \in Encoders : s < handed[e]
  BY <1>0, <1>1, <1>2, PauseOf
<1>4. ts \in Nat /\ ts # 0 /\ (\A e \in Encoders : handed[e] < ts) /\ OnGrid(ts)
  <2>1. /\ ts \in Nat /\ ts > Interval /\ \A e \in Encoders : handed[e] < ts
        /\ pause[FirstVideo].last # 0 => OnGrid(ts)
    BY CalledAhead
  <2>2. ServedVideo(handed[FirstVideo], pause[FirstVideo].last)
    BY <1>0 DEF PauseInv, Served
  <2>3. shape.tick \in 1 .. Interval /\ handed[FirstVideo] \in Nat
    BY <1>0, PauseOf DEF PauseInv, Typed
  <2>4. handed[FirstVideo] # shape.tick
    BY <1>0, <1>2, <1>3, <2>3
  <2> HIDE DEF ts
  <2>5. pause[FirstVideo].last # 0
    <3>1. OnGrid(pause[FirstVideo].last)
      BY <2>2, <2>4 DEF ServedVideo
    <3> QED
      BY <2>3, <3>1 DEF OnGrid
  <2> QED
    BY <1>0, <2>1, <2>5
<1>5. s < ts
  <2>1. handed[FirstVideo] \in Nat
    BY <1>0, PauseOf
  <2> HIDE DEF ts
  <2> QED
    BY <1>0, <1>2, <1>3, <1>4, <2>1
<1> DEFINE old == [from |-> s, to |-> 0]
           new == [from |-> s, to |-> ts]
<1> HIDE DEF ts
<1>6. asked' = {a \in asked : a.to # 0} \cup {new}
  <2>1. Close(old) = new
    BY <1>2
  <2>2. \A a \in asked : a.to = 0 => a = old
    BY <1>2
  <2>3. \A a \in asked : a.to # 0 => Close(a) = a
    BY DEF PauseInv, Typed
  <2>4. old \in asked /\ old.to = 0
    BY <1>2
  <2> HIDE DEF Close, old, new
  <2>5. ASSUME NEW b \in asked' PROVE b \in {a \in asked : a.to # 0} \cup {new}
    BY <1>1, <2>1, <2>2, <2>3, <2>5
  <2>6. ASSUME NEW b \in {a \in asked : a.to # 0} \cup {new} PROVE b \in asked'
    BY <1>1, <2>1, <2>3, <2>4, <2>6
  <2> QED
    BY <2>5, <2>6
<1>7. new.from = s /\ new.to = ts /\ new \in [from : Nat \ {0}, to : Nat]
  BY <1>3, <1>4
<1>8. ASSUME NEW e \in Encoders
      PROVE  /\ pause'[e] \in [last : Nat, start : Nat, end : Nat, offset : Int]
             /\ pause'[e].last = pause[e].last /\ pause'[e].start = s /\ pause'[e].end = ts
  <2>1. pause[e] \in [last : Nat, start : Nat, end : Nat, offset : Int] /\ pause[e].start = s
    BY <1>2, PauseOf
  <2>2. pause'[e] = [pause[e] EXCEPT !.end = ts, !.offset = @ + ts - pause[e].start]
    BY <1>1 DEF EndPause
  <2> DEFINE mid == [pause[e] EXCEPT !.end = ts]
             sum == pause[e].offset + ts - pause[e].start
  <2>3. pause'[e] = [mid EXCEPT !.offset = sum]
    BY <2>2
  <2>4. /\ mid \in [last : Nat, start : Nat, end : Nat, offset : Int]
        /\ mid.last = pause[e].last /\ mid.start = s /\ mid.end = ts
    BY <1>4, <2>1
  <2>5. sum \in Int
    BY <1>4, <2>1
  <2> HIDE DEF mid, sum
  <2> QED
    BY <2>3, <2>4, <2>5
<1>9. ASSUME NEW e \in Encoders PROVE Stretch(pause[e])' = new
  BY <1>8 DEF Stretch
<1> HIDE DEF new, old
<1>10. Typed'
  <2>1. pause' \in [Encoders -> [last : Nat, start : Nat, end : Nat, offset : Int]]
    BY <1>1, <1>8
  <2>2. asked' \subseteq [from : Nat \ {0}, to : Nat]
    BY <1>6, <1>7 DEF PauseInv, Typed
  <2> QED
    BY <1>1, <2>1, <2>2 DEF PauseInv, Typed
<1>11. Served'
  BY <1>1, <1>8, ServedStill
<1>12. Pausing'
  BY <1>1 DEF Pausing
<1>13. Running'
  <2>1. \A a \in asked' : a.to # 0
    BY <1>4, <1>6, <1>7
  <2>2. ASSUME NEW e \in Encoders PROVE Ending(e, pause[e], handed[e])'
    <3>1. handed[e] \in Nat /\ s < handed[e] /\ handed[e] <= ts
      BY <1>3, <1>4, PauseOf
    <3>2. new \in asked'
      BY <1>6
    <3> QED
      BY <1>1, <1>3, <1>4, <1>8, <1>9, <3>1, <3>2 DEF Ending, OnGrid
  <2> QED
    BY <1>1, <2>1, <2>2, Zenon DEF Running
<1>14. Passed'
  <2> SUFFICES ASSUME NEW a \in asked', a.to # 0, NEW e \in Encoders
               PROVE  a.to <= handed'[e] \/ Stretch(pause[e])' = a
    BY DEF Passed
  <2>1. CASE a = new
    BY <1>9, <2>1
  <2>2. CASE a \in asked
    <3>1. a.to <= handed[e] \/ Stretch(pause[e]) = a
      BY <2>2 DEF PauseInv, Passed
    <3>2. Stretch(pause[e]).to = 0
      BY <1>2 DEF Stretch
    <3> QED
      BY <1>1, <3>1, <3>2
  <2> QED
    BY <1>6, <2>1, <2>2
<1>15. ASSUME NEW e \in Encoders, NEW t \in HandedTo(e) PROVE LeftOut(t)' <=> LeftOut(t)
  <2>1. t \in Nat /\ t < ts
    <3>1. t \in Nat /\ t < handed[e] /\ handed[e] < ts /\ handed[e] \in Nat
      BY <1>4, HandedBefore, PauseOf
    <3> QED
      BY <1>4, <3>1
  <2>2. old \in asked /\ old.from = s /\ old.to = 0 /\ \A a \in asked : a.to = 0 => a = old
    BY <1>2 DEF old
  <2>3. LeftOut(t) <=> s <= t \/ \E a \in asked : a.to # 0 /\ a.from <= t /\ t < a.to
    BY <2>2 DEF LeftOut
  <2>4. LeftOut(t)' <=> s <= t \/ \E a \in asked : a.to # 0 /\ a.from <= t /\ t < a.to
    BY <1>4, <1>6, <1>7, <2>1 DEF LeftOut
  <2> QED
    BY <2>3, <2>4
<1>16. KeepsExactly'
  BY <1>1, <1>15, KeepsUntilNow DEF PauseInv
<1> QED
  BY <1>10, <1>11, <1>12, <1>13, <1>14, <1>16 DEF PauseInv

LEMMA AdvanceKeeps ==
  ASSUME PauseInv, KeepsExactly, Advance
  PROVE  PauseInv' /\ KeepsExactly'
<1>1. now' = now + 1 /\ now \in Nat /\ Interval \in Nat
      /\ UNCHANGED <<pause, paused, handed, shape, kept, asked>>
  BY OutputPauseAssumption DEF Advance, PauseInv, Typed
<1>2. Typed'
  BY <1>1 DEF PauseInv, Typed
<1>3. Served'
  <2>1. ASSUME NEW v \in Video PROVE ServedVideo(handed[v], pause[v].last)'
    <3>1. ServedVideo(handed[v], pause[v].last)
      BY DEF PauseInv, Served
    <3>2. handed[v] <= now' + Interval
      BY <1>1, <3>1 DEF ServedVideo, OnGrid
    <3> QED
      BY <1>1, <3>1, <3>2 DEF ServedVideo, OnGrid
  <2>2. ASSUME NEW a \in Audio PROVE handed'[a] <= now'
    <3>1. handed[a] <= now /\ handed[a] \in Nat
      BY DEF PauseInv, Served, Typed, Encoders
    <3> QED
      BY <1>1, <3>1
  <2> QED
    BY <2>1, <2>2 DEF Served
<1>4. Pausing' /\ Running' /\ Passed'
  BY <1>1, Zenon DEF PauseInv, Pausing, Running, Passed, CanStart, Ending, OnGrid, Stretch
<1>5. KeepsExactly'
  BY <1>1, KeepsUntilNow DEF PauseInv, LeftOut
<1> QED
  BY <1>2, <1>3, <1>4, <1>5 DEF PauseInv

LEMMA PauseInvStarts == PauseInit => PauseInv /\ KeepsExactly
<1> SUFFICES ASSUME PauseInit PROVE PauseInv /\ KeepsExactly
  OBVIOUS
<1>1. /\ shape \in [segment : Nat \ {0}, tick : 1 .. Interval] /\ Interval \in Nat \ {0}
      /\ now = 1 /\ paused = FALSE /\ asked = {}
      /\ pause = [e \in Encoders |-> NoPause]
      /\ handed = [e \in Encoders |-> IF e \in Video THEN shape.tick ELSE 1]
      /\ kept = [e \in Encoders |-> {}]
  BY OutputPauseAssumption DEF PauseInit
<1>2. NoPause \in [last : Nat, start : Nat, end : Nat, offset : Int] /\ NoPause.last = 0
      /\ CanStart(NoPause)
  BY DEF NoPause, CanStart
<1>3. Typed
  <2>1. handed \in [Encoders -> Nat \ {0}]
    <3>1. shape.tick \in Nat \ {0} /\ 1 \in Nat \ {0}
      BY <1>1
    <3> QED
      BY <1>1, <3>1
  <2>2. kept \in [Encoders -> SUBSET Nat] /\ asked \subseteq [from : Nat \ {0}, to : Nat]
    <3>1. {} \in SUBSET Nat
      OBVIOUS
    <3> QED
      BY <1>1, <3>1
  <2>3. pause \in [Encoders -> [last : Nat, start : Nat, end : Nat, offset : Int]]
    BY <1>1, <1>2
  <2>4. now \in Nat \ {0}
    BY <1>1
  <2>5. paused \in BOOLEAN
    BY <1>1, Zenon
  <2> QED
    BY <1>1, <2>1, <2>2, <2>3, <2>4, <2>5 DEF Typed
<1>4. ASSUME NEW v \in Video PROVE ServedVideo(handed[v], pause[v].last)
  <2>1. v \in Encoders /\ handed[v] = shape.tick /\ pause[v].last = 0
    BY <1>1, <1>2 DEF Encoders
  <2>2. OnGrid(shape.tick)
    <3>1. 0 % Interval = 0
      BY <1>1, Quotient
    <3> QED
      BY <1>1, <3>1 DEF OnGrid
  <2> QED
    BY <1>1, <2>1, <2>2 DEF ServedVideo
<1>5. Served
  <2>1. \A a \in Audio : handed[a] = 1
    BY <1>1, OutputPauseAssumption DEF Encoders
  <2> QED
    BY <1>1, <1>4, <2>1 DEF Served
<1>6. Pausing /\ Running /\ Passed
  BY <1>1, <1>2 DEF Pausing, Running, Passed
<1>7. KeepsExactly
  <2> SUFFICES ASSUME NEW e \in Encoders PROVE HandedTo(e) = {}
    BY <1>1 DEF KeepsExactly
  <2>1. CASE e \in Video
    <3>1. shape.tick .. (shape.tick - 1) = {}
      BY <1>1
    <3> QED
      BY <1>1, <2>1, <3>1 DEF HandedTo
  <2>2. CASE e \notin Video
    <3>1. 1 .. (1 - 1) = {}
      OBVIOUS
    <3> QED
      BY <1>1, <2>2, <3>1 DEF HandedTo, Samples
  <2> QED
    BY <2>1, <2>2
<1> QED
  BY <1>3, <1>5, <1>6, <1>7 DEF PauseInv

LEMMA PauseStep ==
  ASSUME Patient
  PROVE  PauseInv /\ KeepsExactly /\ [PauseNext]_pauseVars => PauseInv' /\ KeepsExactly'
<1> SUFFICES ASSUME PauseInv, KeepsExactly, [PauseNext]_pauseVars PROVE PauseInv' /\ KeepsExactly'
  OBVIOUS
<1>1. CASE UNCHANGED pauseVars
  <2>1. UNCHANGED <<now, pause, paused, handed, shape, kept, asked>>
    BY <1>1 DEF pauseVars
  <2>2. Typed' /\ Served'
    BY <2>1 DEF PauseInv, Typed, Served, ServedVideo, OnGrid
  <2>3. Pausing' /\ Running' /\ Passed'
    BY <2>1, Zenon DEF PauseInv, Pausing, Running, Passed, CanStart, Ending, OnGrid, Stretch
  <2>4. KeepsExactly'
    BY <2>1, KeepsUntilNow DEF PauseInv, LeftOut
  <2> QED
    BY <2>2, <2>3, <2>4 DEF PauseInv
<1>2. CASE \E v \in Video : VideoFrame(v)
  BY <1>2, VideoFrameKeeps
<1>3. CASE \E a \in Audio : AudioSegment(a)
  BY <1>3, AudioSegmentKeeps
<1>4. CASE Pause
  BY <1>4, PauseKeeps
<1>5. CASE Unpause
  BY <1>5, UnpauseKeeps
<1>6. CASE Advance
  BY <1>6, AdvanceKeeps
<1> QED
  BY <1>1, <1>2, <1>3, <1>4, <1>5, <1>6 DEF PauseNext

\* Whatever the frame interval and the length of a segment, and however late
\* each encoder is served, every encoder leaves out what obs_output_pause was
\* asked to leave out, and nothing else, if the user resumes only what has begun
\* to pause.
THEOREM PauseIsExact == Patient => (PauseSpec => []KeepsExactly)
<1> SUFFICES ASSUME Patient PROVE PauseSpec => []KeepsExactly
  OBVIOUS
<1>1. PauseInv /\ KeepsExactly /\ [PauseNext]_pauseVars => PauseInv' /\ KeepsExactly'
  BY PauseStep
<1> QED
  BY <1>1, PauseInvStarts, PTL DEF PauseSpec

\* An output that is paused can be resumed, and once a pause is behind every
\* encoder the output can be paused again: none of them misses the end.
THEOREM PauseCanGoOn == Patient => (PauseSpec => []CanGoOn)
<1> SUFFICES ASSUME Patient PROVE PauseSpec => []CanGoOn
  OBVIOUS
<1>1. PauseInv /\ KeepsExactly /\ [PauseNext]_pauseVars => PauseInv' /\ KeepsExactly'
  BY PauseStep
<1>2. PauseInv => CanGoOn
  <2> SUFFICES ASSUME PauseInv PROVE CanGoOn
    OBVIOUS
  <2>1. ASSUME paused, NEW e \in Encoders PROVE CanStop(pause[e])
    <3>1. PICK s \in Nat : s > Interval /\ \A x \in Encoders : pause[x].start = s /\ pause[x].end = 0
      BY <2>1 DEF PauseInv, Pausing
    <3>2. s # 0
      BY <3>1, OutputPauseAssumption
    <3> QED
      BY <3>1, <3>2 DEF CanStop
  <2>2. ASSUME ~paused, \A a \in asked : \A x \in Encoders : handed[x] > a.to, NEW e \in Encoders
        PROVE  CanStart(pause[e])
    <3>1. CanStart(pause[e]) \/ Ending(e, pause[e], handed[e])
      BY <2>2 DEF PauseInv, Running
    <3>2. ASSUME Ending(e, pause[e], handed[e]) PROVE FALSE
      <4>1. Stretch(pause[e]) \in asked /\ handed[e] <= pause[e].end
        BY <3>2 DEF Ending
      <4>2. handed[e] > pause[e].end
        BY <2>2, <4>1 DEF Stretch
      <4>3. handed[e] \in Nat /\ pause[e].end \in Nat
        BY PauseOf
      <4> QED
        BY <4>1, <4>2, <4>3
    <3> QED
      BY <3>1, <3>2
  <2> QED
    BY <2>1, <2>2, Zenon DEF CanGoOn
<1> QED
  BY <1>1, <1>2, PauseInvStarts, PTL DEF PauseSpec

-----------------------------------------------------------------------------
(* Streaming: the stacks of the threads.                                    *)

(* Where a thread is, with what argument, and what it has to do after that. *)
Places ==
    {"actual_start", "info_start", "start_counted", "announce", "actual_stop", "stop_reconnect",
     "check_reconnect", "join_reconnect", "force_stop", "info_stop", "stop_join", "stop_send",
     "init_connect", "try_connect", "connect_exit",
     "begin_capture", "hook_capture", "activate", "signal_start", "reconnected",
     "send_loop", "send_end", "send_reset", "send_exit", "signal_stop",
     "end_capture", "take_capture", "join_end", "signal_stopped",
     "stop_encoders", "deactivate", "stopped", "end_exit",
     "reconnect", "reconnect_reset", "reconnect_spawn", "signal_reconnect",
     "reconnect_enter", "reconnect_wait", "reconnect_try", "reconnect_exit"}
Args == {"none", "success", "connect_failed", "disconnected", TRUE, FALSE} \cup Nat
Frames == Places \X Args
Told == {"called", "start", "reconnect", "reconnect_success", "stop", "failed"}
place == [t \in Threads |-> IF stack[t] = <<>> THEN "idle" ELSE Head(stack[t])[1]]
arg == [t \in Threads |-> Head(stack[t])[2]]
rest == [t \in Threads |-> Tail(stack[t])]

ui == place[Ui]
uiArg == arg[Ui]
uiRest == rest[Ui]
co == place[ConnectThread]
coArg == arg[ConnectThread]
coRest == rest[ConnectThread]
se == place[SendThread]
seArg == arg[SendThread]
seRest == rest[SendThread]
en == place[EndThread]
enRest == rest[EndThread]

\* The last thing the user was told.
told == IF signals = <<>> THEN "nothing" ELSE signals[Len(signals)]

\* The courses of events the theorem is about, whatever their bounds: no delay;
\* and calm, or no forced stop and either no stop or no loss.
Orderly(c) ==
    /\ c.delay = "none"
    /\ c.calm \/ (c.forces = 0 /\ (c.stops = 0 \/ c.drops = 0))

-----------------------------------------------------------------------------
(* The places of each thread. *)
StartPlaces == {"actual_start", "info_start"}
StopPlaces == {"actual_stop", "stop_reconnect", "check_reconnect", "join_reconnect",
               "force_stop", "info_stop", "stop_join", "stop_send", "signal_stop", "end_capture"}
Asking == {"stop_reconnect", "check_reconnect", "join_reconnect"}
Afterwards == {"force_stop", "info_stop", "stop_join", "stop_send", "signal_stop", "end_capture"}
Connects == {"init_connect", "try_connect"}
Begins == {"begin_capture", "hook_capture", "activate", "signal_start", "reconnected"}
\* The user has called, "starting" has not come yet.
Unannounced == StartPlaces \cup {"start_counted", "announce"}
RefusedPlaces == {"signal_stop", "end_capture", "reconnect", "reconnect_spawn", "signal_reconnect"}
Ends == {"end_capture", "take_capture", "join_end", "signal_stopped"}
Retries == {"reconnect", "reconnect_reset", "reconnect_spawn", "signal_reconnect"}
Holding == {"send_loop", "send_end", "signal_stop", "end_capture", "take_capture"}
Leaving == {"idle", "send_reset", "send_exit"}
Front == {"reconnect_enter", "reconnect_wait", "actual_start", "info_start"}
Behind == {"start_counted", "reconnect_try", "reconnect_exit"}
Closing == {"stop_encoders", "deactivate"}

ThenExit == <<Do("connect_exit")>>
ThenReset == <<Do("send_reset")>>
ThenTry == <<Do("reconnect_try")>>
ThenForce == <<Do("force_stop")>>
ThenStop == <<Frame("info_stop", FALSE)>>
ThenReconnectExit == <<Do("reconnect"), Do("connect_exit")>>
ThenReconnectReset == <<Do("reconnect"), Do("send_reset")>>
ThenSpawnReset == <<Do("reconnect_spawn"), Do("send_reset")>>

(* The invariant.                                                          *)

\* The types of the variables, and what a stream without a delay leaves alone.
Base ==
    /\ stack \in [Threads -> Seq(Frames)]
    /\ place[EncoderThread] = "idle" /\ delay = NoDelay("none")
    /\ reconnectThread \in 0..MaxThreads /\ retries \in Nat
    /\ signals \in Seq(Told)
    /\ budget \in [calm : BOOLEAN, starts : Nat, stops : Nat, forces : Nat,
                   drops : Nat, refused : Nat, delay : Modes]
    /\ reconnectActive => reconnectThread # 0
Truths ==
    /\ active \in BOOLEAN /\ dataActive \in BOOLEAN /\ encoders \in BOOLEAN /\ ending \in BOOLEAN
    /\ reconnecting \in BOOLEAN /\ stoppingEvent \in BOOLEAN /\ reconnectStop \in BOOLEAN
    /\ connecting \in BOOLEAN /\ streamActive \in BOOLEAN /\ stopEvent \in BOOLEAN
    /\ calm \in BOOLEAN

\* What each thread may be in the middle of: the stack of a thread follows
\* from its place but for a choice or two.
UiShape ==
    /\ ui \in {"idle"} \cup Unannounced \cup StopPlaces
    /\ ui \notin {"idle"} \cup Asking => uiRest = <<>>
    /\ ui = "start_counted" => uiArg = TRUE
    /\ ui \in Asking => uiRest \in {ThenForce, ThenStop}
    /\ ui \in {"actual_stop", "info_stop", "stop_join", "stop_send"} => uiArg \in {TRUE, FALSE}
    /\ ui = "signal_stop" => uiArg = "success"
    /\ ui = "end_capture" => uiArg = TRUE
    /\ ui = "join_reconnect" => uiArg = reconnectThread /\ reconnectThread # 0
ConnectShape ==
    /\ co \in {"idle", "connect_exit"} \cup Connects \cup Begins \cup RefusedPlaces
    /\ co \in Connects \cup {"connect_exit"} => coRest = <<>>
    /\ co \in Begins \cup (RefusedPlaces \ {"end_capture"}) => coRest = ThenExit
    /\ co = "signal_start" => coArg \in {TRUE, FALSE}
    /\ co = "signal_stop" => coArg = "connect_failed"
    /\ co = "end_capture" => \/ coArg = TRUE /\ coRest = ThenExit
                             \/ coArg = FALSE /\ coRest = ThenReconnectExit /\ reconnecting
    /\ co \in {"reconnect", "reconnect_spawn"} => reconnecting
SendShape ==
    /\ se \in {"send_loop", "send_end", "signal_stop"} \cup Leaving \cup Ends \cup Retries
    /\ se \in {"send_loop", "send_end", "send_reset", "send_exit"} => seRest = <<>>
    /\ se = "signal_stop" => seArg = "disconnected"
    /\ se \in {"signal_stop", "signal_reconnect", "reconnect", "reconnect_spawn"} => seRest = ThenReset
    /\ se \in Ends => \/ seArg = TRUE /\ seRest = ThenReset
                      \/ seArg = FALSE /\ seRest = ThenReconnectReset
    /\ se = "reconnect_reset" => seRest = ThenSpawnReset
    /\ se \in {"reconnect_reset", "reconnect_spawn"} => reconnecting
EndShape ==
    /\ en \in {"idle", "stopped", "end_exit"} \cup Closing
    /\ en # "idle" => enRest = <<>>
RetryShape ==
    \A r \in Reconnectors :
      /\ place[r] \in {"idle"} \cup Front \cup Behind
      /\ place[r] \in {"actual_start", "info_start", "start_counted"} => rest[r] = ThenTry
      /\ place[r] \in {"reconnect_enter", "reconnect_wait", "reconnect_try", "reconnect_exit"} => rest[r] = <<>>
      /\ r > reconnectThread => place[r] = "idle"
Stacked == UiShape /\ ConnectShape /\ SendShape /\ EndShape /\ RetryShape

\* A flag that says a thread runs is set exactly while its stack is not empty.
Flags ==
    /\ connecting = (co # "idle")
    /\ streamActive = (se # "idle")
    /\ ending = (en # "idle")

\* Who owes the end of the capture: as long as data is captured the send thread
\* has it in hand, and active and the encoders' callback are cleared after that,
\* by the send thread and then by the thread that ends the capture.
Capture ==
    /\ dataActive => se \in Holding
    /\ se \in {"send_loop", "send_end", "signal_stop", "take_capture"} =>
          dataActive \/ co = "begin_capture"
    /\ se = "end_capture" /\ seArg = FALSE => dataActive
    /\ co = "begin_capture" => ~dataActive
    /\ co \in {"hook_capture", "activate"} => dataActive
    /\ active = (\/ dataActive /\ co \notin {"hook_capture", "activate"}
                 \/ se = "join_end" \/ en \in Closing)
    /\ encoders = (\/ dataActive /\ co # "hook_capture"
                   \/ se = "join_end" \/ en = "stop_encoders")

\* The threads of a session take turns: nobody connects while packets are sent
\* or the capture is ended.
Turns ==
    /\ co \in Connects => se \in Leaving
    /\ co \in Begins => se = "send_loop"
    /\ co \in RefusedPlaces => se = "idle"
    /\ se \notin Leaving \cup {"send_loop"} => co \in {"idle", "connect_exit"}
    /\ en # "idle" => co \in {"idle", "connect_exit"}
    /\ dataActive \/ se \in {"send_loop", "join_end"} => en = "idle"

\* A stop_event that is set is still to be cleared by the send thread.
StopFlag ==
    stopEvent =>
        /\ se \in {"send_loop", "send_end", "send_reset"} \cup Ends
        /\ se \in Ends => seArg = TRUE
        /\ se = "send_loop" => ~stoppingEvent
        /\ co = "idle" \/ (co = "init_connect" /\ se = "send_reset")

\* While the user stops: no other stop is under way, and the reconnect thread
\* is waited for before the stream is touched.
UserStops ==
    ui \in StopPlaces =>
        /\ se \in {"idle", "send_loop"} /\ en = "idle" /\ ~stopEvent
        /\ co # "init_connect"
        /\ ui = "stop_send" => se = "send_loop" /\ co = "idle"
        /\ ui \in {"signal_stop", "end_capture"} => se = "idle" /\ co = "idle"
        /\ \A r \in Reconnectors :
              /\ place[r] \in {"idle", "reconnect_wait", "reconnect_try", "reconnect_exit"}
              /\ ui \in {"actual_stop", "stop_reconnect"} => place[r] \in {"idle", "reconnect_wait"}
              /\ ui \in Afterwards => place[r] = "idle"
              /\ place[r] \in {"reconnect_try", "reconnect_exit"} => reconnectStop
        /\ ui # "actual_stop" => ~stoppingEvent

\* Somebody is on the way to set a stopping_event that is not set.
StopResolved ==
    ~stoppingEvent =>
        \/ ui \in StopPlaces \ {"actual_stop"}
        \/ /\ stopEvent
           /\ \/ se \in {"send_loop", "send_end", "take_capture", "join_end"}
              \/ se = "end_capture" /\ dataActive
        \/ en \in Closing \cup {"stopped"}

\* While the user starts nothing of the last session is left that could end it.
UserStarts ==
    ui \in StartPlaces =>
        /\ ~active /\ ~reconnecting
        /\ co \in {"idle", "connect_exit"} /\ se \in Leaving
        /\ \A r \in Reconnectors : place[r] \notin Front

\* In a session the last thing the user was told is not its end.
InSession ==
    \/ ui \in StartPlaces \/ co \notin {"idle", "connect_exit"} \/ se \notin Leaving
    \/ reconnecting
    \/ \E r \in Reconnectors : place[r] \in Front
SessionOpen == InSession => told \notin {"nothing", "stop", "failed"}

\* A reconnect thread that has not started the stream yet is the current one,
\* and alone.
Fronts ==
    \A r \in Reconnectors : place[r] \in Front =>
        /\ r = reconnectThread /\ reconnecting
        /\ \/ co \in {"idle", "connect_exit"}
           \/ co = "signal_reconnect" /\ place[r] \in {"reconnect_enter", "reconnect_wait"}
        /\ se \in Leaving \cup {"signal_reconnect"}
        /\ place[r] \in {"actual_start", "info_start"} =>
              co = "idle" /\ se = "idle" /\ en = "idle" /\ ui \notin StopPlaces

\* An output that is reconnecting has a thread that will go on with it.
Driven ==
    reconnecting =>
        \/ co \in Connects \cup Begins \cup {"signal_stop", "reconnect", "reconnect_spawn"}
        \/ co = "end_capture" /\ coArg = FALSE
        \/ se \in {"reconnect_reset", "reconnect_spawn"}
        \/ /\ reconnectThread # 0
           /\ \/ place[reconnectThread] \in Front
              \/ place[reconnectThread] = "reconnect_try" /\ reconnectStop

\* What the user was told last, wherever a thread has something to add.
Live == {"start", "reconnect_success"}
Tale ==
    /\ ui \in StartPlaces => told = "called"
    /\ IF ui \in Unannounced THEN announced = 0 /\ told \notin {"nothing", "failed"}
                             ELSE announced = 1 \/ told = "nothing"
    /\ ui \in StopPlaces => told \notin {"nothing", "stop", "failed"}
    /\ co \in Connects \cup (Begins \ {"reconnected"}) =>
          told = IF reconnecting THEN "reconnect" ELSE "called"
    /\ co = "reconnected" => told \in Live
    /\ co = "signal_reconnect" \/ (co \in RefusedPlaces /\ reconnecting) => told = "reconnect"
    /\ se \notin Leaving /\ co \in {"idle", "connect_exit"} => told \in Live
    /\ \A r \in Reconnectors : place[r] \in Front =>
          told = "reconnect" \/ se = "signal_reconnect"

\* What only the course allows: without losses no reconnect thread exists,
\* without stops nothing is ever asked to stop, and in a calm course the
\* reconnect thread, the user and the loss do not cross.
NoLoss ==
    /\ ~calm /\ budget.forces = 0 /\ budget.drops = 0
    /\ ~reconnecting /\ \A r \in Reconnectors : place[r] = "idle"
    /\ se \notin Retries \cup {"signal_stop"} /\ (se \in Ends => seArg = TRUE)
    /\ se = "send_end" => stopEvent
    /\ se = "end_capture" => dataActive
    /\ ui \in StopPlaces => se = "send_loop"
    /\ (\/ se \in {"send_end", "end_capture", "take_capture", "join_end"}
        \/ en \in Closing \cup {"stopped"})
       => ~stoppingEvent
NoStop ==
    /\ ~calm /\ budget.forces = 0 /\ budget.stops = 0
    /\ ui \notin StopPlaces /\ ~stopEvent /\ ~reconnectStop /\ stoppingEvent
CalmThread(r) ==
    /\ place[r] # "idle" =>
          /\ r = reconnectThread /\ ~stopEvent
          /\ ui \in StopPlaces => co = "idle" /\ se = "idle"
          /\ co \notin RefusedPlaces \ {"signal_reconnect"}
          /\ se \in Leaving \cup {"send_loop", "signal_reconnect"}
    /\ place[r] \notin {"idle", "reconnect_enter"} => reconnectActive
    /\ place[r] \in {"reconnect_enter", "actual_start", "info_start", "start_counted"} => ~reconnectStop
    /\ place[r] = "reconnect_wait" /\ reconnectStop => ui \in {"check_reconnect", "join_reconnect"}
    /\ place[r] \in {"reconnect_try", "reconnect_exit"} /\ reconnectStop => ui \in StopPlaces
Calm ==
    /\ calm
    /\ ui \in StopPlaces \ {"stop_join"} => co \in {"idle", "try_connect"}
    /\ ui \in StopPlaces /\ co \notin {"idle", "connect_exit"} \cup Begins =>
         /\ reconnecting /\ co \in {"try_connect", "signal_stop", "end_capture", "reconnect"}
         /\ ui \notin {"actual_stop", "stop_reconnect"} => reconnectStop
    /\ co = "reconnect_spawn" \/ se = "reconnect_spawn" => ~reconnectStop
    /\ \A r \in Reconnectors : CalmThread(r)

Control == /\ Flags /\ Capture /\ Turns /\ StopFlag /\ UserStops /\ StopResolved
           /\ UserStarts /\ SessionOpen /\ Fronts /\ Driven
Kinds == NoLoss \/ NoStop \/ Calm
RtmpInv == Base /\ Truths /\ Stacked /\ Control /\ Kinds /\ Tale


-----------------------------------------------------------------------------
(* How a step moves the stacks: of one thread, or of one and a thread it   *)
(* starts.                                                                 *)
SameUi == ui' = ui /\ uiArg' = uiArg /\ uiRest' = uiRest
SameConnect == co' = co /\ coArg' = coArg /\ coRest' = coRest
SameSend == se' = se /\ seArg' = seArg /\ seRest' = seRest
SameEnd == en' = en /\ enRest' = enRest
SameRetry(r) == place'[r] = place[r] /\ rest'[r] = rest[r]
SameRetries == \A r \in Reconnectors : SameRetry(r)

Others(t) == \A u \in Threads \ {t} :
    place'[u] = place[u] /\ arg'[u] = arg[u] /\ rest'[u] = rest[u]

StacksOK == stack \in [Threads -> Seq(Frames)]

LEMMA Prepended ==
    ASSUME NEW s \in Seq(Frames), NEW f \in Frames
    PROVE  /\ <<f>> \o s \in Seq(Frames) /\ <<f>> \o s # <<>>
           /\ Head(<<f>> \o s) = f /\ Tail(<<f>> \o s) = s
<1>1. <<f>> \in Seq(Frames)
  OBVIOUS
<1>2. <<f>> \o s \in Seq(Frames) /\ Len(<<f>> \o s) = Len(s) + 1
  BY <1>1, ConcatProperties
<1>3. \A k \in 1 .. Len(s) : (<<f>> \o s)[k + 1] = s[k]
  BY <1>1
<1> QED BY <1>1, <1>2, <1>3

LEMMA ThreadsDiffer ==
    /\ Ui # ConnectThread /\ Ui # SendThread /\ Ui # EndThread /\ Ui # EncoderThread
    /\ ConnectThread # SendThread /\ ConnectThread # EndThread /\ ConnectThread # EncoderThread
    /\ SendThread # EndThread /\ SendThread # EncoderThread /\ EndThread # EncoderThread
    /\ \A r \in Reconnectors : r \notin Named
<1>1. Cardinality({}) = 0 /\ IsFiniteSet({})
  BY FS_EmptySet
<1> DEFINE A == {Ui} B == A \cup {ConnectThread} C == B \cup {SendThread} D == C \cup {EndThread}
<1>2. IsFiniteSet(A) /\ Cardinality(A) = 1
  BY FS_Singleton
<1>3. IsFiniteSet(B) /\ Cardinality(B) = IF ConnectThread \in A THEN 1 ELSE 2
  BY <1>2, FS_AddElement
<1>4. IsFiniteSet(C) /\ Cardinality(C) = IF SendThread \in B THEN Cardinality(B) ELSE Cardinality(B) + 1
  BY <1>3, FS_AddElement
<1>5. IsFiniteSet(D) /\ Cardinality(D) = IF EndThread \in C THEN Cardinality(C) ELSE Cardinality(C) + 1
  BY <1>4, FS_AddElement
<1>6. Cardinality(D \cup {EncoderThread}) = IF EncoderThread \in D THEN Cardinality(D) ELSE Cardinality(D) + 1
  BY <1>5, FS_AddElement
<1>7. D \cup {EncoderThread} = Named
  BY DEF Named
<1>8. Cardinality(Named) = 5
  BY OutputAssumption
<1>9. /\ ConnectThread \notin A /\ SendThread \notin B /\ EndThread \notin C /\ EncoderThread \notin D
  BY <1>3, <1>4, <1>5, <1>6, <1>7, <1>8
<1>10. \A r \in Reconnectors : r \notin Named
  BY OutputAssumption DEF Reconnectors
<1> QED BY <1>9, <1>10

LEMMA TheThreads ==
    /\ Ui \in Threads /\ ConnectThread \in Threads /\ SendThread \in Threads
    /\ EndThread \in Threads /\ EncoderThread \in Threads /\ Reconnectors \subseteq Threads
    /\ \A t \in Threads : \/ t = Ui \/ t = ConnectThread \/ t = SendThread
                          \/ t = EndThread \/ t = EncoderThread \/ t \in Reconnectors
BY DEF Threads, Named

LEMMA Frames2 ==
    ASSUME NEW p \in Places, NEW a \in Args
    PROVE  Frame(p, a) \in Frames /\ Frame(p, a)[1] = p /\ Frame(p, a)[2] = a
BY DEF Frame, Frames

\* One frame.
LEMMA Goes ==
    ASSUME StacksOK, NEW t \in Threads, ~Ended(t), NEW p \in Places, NEW a \in Args,
           GoOn(t, <<Frame(p, a)>>)
    PROVE  /\ StacksOK'
           /\ place'[t] = p /\ arg'[t] = a /\ rest'[t] = rest[t]
           /\ Others(t)
<1>1. stack[t] \in Seq(Frames) /\ Tail(stack[t]) \in Seq(Frames)
  BY DEF StacksOK, Ended
<1>2. Frame(p, a) \in Frames /\ Frame(p, a)[1] = p /\ Frame(p, a)[2] = a
  BY Frames2
<1>3. stack'[t] = <<Frame(p, a)>> \o Tail(stack[t])
  BY DEF GoOn, StacksOK
<1>4. \A u \in Threads \ {t} : stack'[u] = stack[u]
  BY DEF GoOn, StacksOK
<1>5. StacksOK'
  BY <1>1, <1>2, Prepended, <1>3 DEF GoOn, StacksOK
<1> QED BY <1>1, <1>2, <1>3, <1>4, <1>5, Prepended DEF place, arg, rest, Others

\* None.
LEMMA Returns ==
    ASSUME StacksOK, NEW t \in Threads, ~Ended(t), Return(t)
    PROVE  /\ StacksOK'
           /\ place'[t] = IF rest[t] = <<>> THEN "idle" ELSE Head(rest[t])[1]
           /\ arg'[t] = Head(rest[t])[2] /\ rest'[t] = Tail(rest[t])
           /\ Others(t)
<1>1. stack[t] \in Seq(Frames) /\ Tail(stack[t]) \in Seq(Frames)
  BY DEF StacksOK, Ended
<1>3. stack'[t] = Tail(stack[t])
  BY <1>1, ConcatEmptySeq DEF Return, GoOn, StacksOK
<1>4. \A u \in Threads \ {t} : stack'[u] = stack[u]
  BY DEF Return, GoOn, StacksOK
<1>5. StacksOK'
  BY <1>1, <1>3 DEF Return, GoOn, StacksOK
<1> QED BY <1>1, <1>3, <1>4, <1>5 DEF place, arg, rest, Others

\* What is left to do, one frame at a time.
LEMMA One ==
    ASSUME NEW f \in Frames
    PROVE  /\ <<f>> \in Seq(Frames) /\ <<f>> # <<>> /\ <<f>> \o <<>> = <<f>>
           /\ Head(<<f>>) = f /\ Tail(<<f>>) = <<>>
<1>1. <<f>> \in Seq(Frames) /\ <<>> \in Seq(Frames)
  BY EmptySeq
<1>2. <<f>> \o <<>> = <<f>>
  BY <1>1, ConcatEmptySeq
<1> QED BY <1>1, <1>2, Prepended

LEMMA Two ==
    ASSUME NEW f \in Frames, NEW g \in Frames
    PROVE  /\ <<f, g>> # <<>> /\ <<f>> \o <<g>> = <<f, g>>
           /\ Head(<<f, g>>) = f /\ Tail(<<f, g>>) = <<g>>
<1>1. <<f>> \in Seq(Frames) /\ <<g>> \in Seq(Frames) /\ <<f, g>> \in Seq(Frames)
  OBVIOUS
<1>2. Len(<<f>>) = 1 /\ Len(<<g>>) = 1 /\ Len(<<f, g>>) = 2
  OBVIOUS
<1> DEFINE s == <<f>> \o <<g>> t == <<f, g>>
<1>3. s \in Seq(Frames) /\ t \in Seq(Frames) /\ Len(s) = 2 /\ Len(t) = 2
  BY <1>1, <1>2, ConcatProperties
<1>4. s[1] = f /\ s[2] = g
  BY <1>1, <1>2, ConcatProperties
<1>5. t[1] = f /\ t[2] = g
  OBVIOUS
<1> HIDE DEF s, t
<1>6. \A i \in 1 .. Len(s) : s[i] = t[i]
  BY <1>3, <1>4, <1>5
<1>7. s = t
  BY <1>3, <1>6, SeqEqual
<1> QED BY <1>1, <1>7, Prepended DEF s, t

LEMMA Words ==
    /\ "none" \in Args /\ TRUE \in Args /\ FALSE \in Args
    /\ "connect_failed" \in Args /\ "disconnected" \in Args /\ "success" \in Args
    /\ \A n \in Nat : n \in Args
BY DEF Args

LEMMA OneFrame ==
    ASSUME NEW p \in Places, NEW a \in Args
    PROVE  /\ <<Frame(p, a)>> \in Seq(Frames) /\ <<Frame(p, a)>> # <<>>
           /\ <<Frame(p, a)>> \o <<>> = <<Frame(p, a)>>
           /\ Head(<<Frame(p, a)>>)[1] = p /\ Head(<<Frame(p, a)>>)[2] = a
           /\ Tail(<<Frame(p, a)>>) = <<>>
<1> DEFINE f == Frame(p, a)
<1>1. f \in Frames /\ f[1] = p /\ f[2] = a
  BY Frames2
<1> HIDE DEF f
<1>2. /\ <<f>> \in Seq(Frames) /\ <<f>> # <<>> /\ <<f>> \o <<>> = <<f>>
      /\ Head(<<f>>) = f /\ Tail(<<f>>) = <<>>
  BY <1>1, One
<1>3. Head(<<f>>)[1] = p /\ Head(<<f>>)[2] = a
  BY <1>1, <1>2
<1> QED BY <1>2, <1>3, Zenon DEF f

LEMMA TwoFrames ==
    ASSUME NEW p \in Places, NEW a \in Args, NEW q \in Places, NEW b \in Args
    PROVE  /\ <<Frame(p, a), Frame(q, b)>> # <<>>
           /\ <<Frame(p, a)>> \o <<Frame(q, b)>> = <<Frame(p, a), Frame(q, b)>>
           /\ Head(<<Frame(p, a), Frame(q, b)>>)[1] = p
           /\ Tail(<<Frame(p, a), Frame(q, b)>>) = <<Frame(q, b)>>
<1> DEFINE f == Frame(p, a) g == Frame(q, b)
<1>1. f \in Frames /\ g \in Frames /\ f[1] = p
  BY Frames2
<1> HIDE DEF f, g
<1>2. /\ <<f, g>> # <<>> /\ <<f>> \o <<g>> = <<f, g>>
      /\ Head(<<f, g>>) = f /\ Tail(<<f, g>>) = <<g>>
  BY <1>1, Two
<1>3. Head(<<f, g>>)[1] = p
  BY <1>1, <1>2
<1> QED BY <1>2, <1>3, Zenon DEF f, g

GoOnTwice(t, p, a, q, b) == GoOn(t, <<Frame(p, a), Frame(q, b)>>)

\* Two frames.
LEMMA GoesTwice ==
    ASSUME StacksOK, NEW t \in Threads, ~Ended(t),
           NEW p \in Places, NEW a \in Args, NEW q \in Places, NEW b \in Args,
           GoOnTwice(t, p, a, q, b)
    PROVE  /\ StacksOK'
           /\ place'[t] = p /\ arg'[t] = a
           /\ rest'[t] = <<Frame(q, b)>> \o rest[t]
           /\ Others(t)
<1>1. stack[t] \in Seq(Frames) /\ Tail(stack[t]) \in Seq(Frames)
  BY DEF StacksOK, Ended
<1>2. /\ Frame(p, a) \in Frames /\ Frame(p, a)[1] = p /\ Frame(p, a)[2] = a
      /\ Frame(q, b) \in Frames
  BY Frames2
<1>3. <<Frame(q, b)>> \o Tail(stack[t]) \in Seq(Frames)
  BY <1>1, <1>2, Prepended
<1>4. <<Frame(p, a), Frame(q, b)>> \o Tail(stack[t]) = <<Frame(p, a)>> \o (<<Frame(q, b)>> \o Tail(stack[t]))
  <2>1. <<Frame(p, a), Frame(q, b)>> = <<Frame(p, a)>> \o <<Frame(q, b)>>
    BY TwoFrames
  <2>2. <<Frame(p, a)>> \in Seq(Frames) /\ <<Frame(q, b)>> \in Seq(Frames)
    BY <1>2
  <2> QED BY <2>1, <2>2, <1>1, ConcatAssociative
<1>5. stack'[t] = <<Frame(p, a)>> \o (<<Frame(q, b)>> \o Tail(stack[t]))
  BY <1>4 DEF GoOnTwice, GoOn, StacksOK
<1>6. \A u \in Threads \ {t} : stack'[u] = stack[u]
  BY DEF GoOnTwice, GoOn, StacksOK
<1>7. StacksOK'
  BY <1>2, <1>3, <1>4, Prepended DEF GoOnTwice, GoOn, StacksOK
<1> QED BY <1>2, <1>3, <1>5, <1>6, <1>7, Prepended DEF place, arg, rest, Others

LEMMA SomePlaces ==
    {"connect_exit", "send_reset", "reconnect_try", "force_stop", "info_stop",
     "reconnect", "reconnect_spawn"} \subseteq Places
BY DEF Places

LEMMA Pending ==
    /\ ThenExit # <<>> /\ Head(ThenExit)[1] = "connect_exit" /\ Tail(ThenExit) = <<>>
    /\ ThenReset # <<>> /\ Head(ThenReset)[1] = "send_reset" /\ Tail(ThenReset) = <<>>
    /\ ThenTry # <<>> /\ Head(ThenTry)[1] = "reconnect_try" /\ Tail(ThenTry) = <<>>
    /\ ThenForce # <<>> /\ Head(ThenForce)[1] = "force_stop" /\ Tail(ThenForce) = <<>>
    /\ ThenStop # <<>> /\ Head(ThenStop)[1] = "info_stop" /\ Tail(ThenStop) = <<>> /\ Head(ThenStop)[2] = FALSE
<1>1. ThenExit # <<>> /\ Head(ThenExit)[1] = "connect_exit" /\ Tail(ThenExit) = <<>>
  BY OneFrame, SomePlaces, Words DEF ThenExit, Do
<1>2. ThenReset # <<>> /\ Head(ThenReset)[1] = "send_reset" /\ Tail(ThenReset) = <<>>
  BY OneFrame, SomePlaces, Words DEF ThenReset, Do
<1>3. ThenTry # <<>> /\ Head(ThenTry)[1] = "reconnect_try" /\ Tail(ThenTry) = <<>>
  BY OneFrame, SomePlaces, Words DEF ThenTry, Do
<1>4. ThenForce # <<>> /\ Head(ThenForce)[1] = "force_stop" /\ Tail(ThenForce) = <<>>
  BY OneFrame, SomePlaces, Words DEF ThenForce, Do
<1>5. ThenStop # <<>> /\ Head(ThenStop)[1] = "info_stop" /\ Tail(ThenStop) = <<>> /\ Head(ThenStop)[2] = FALSE
  BY OneFrame, SomePlaces, Words DEF ThenStop
<1> QED BY <1>1, <1>2, <1>3, <1>4, <1>5

LEMMA PendingTwo ==
    /\ ThenReconnectExit # <<>> /\ Head(ThenReconnectExit)[1] = "reconnect" /\ Tail(ThenReconnectExit) = ThenExit
       /\ <<Do("reconnect")>> \o ThenExit = ThenReconnectExit
    /\ ThenReconnectReset # <<>> /\ Head(ThenReconnectReset)[1] = "reconnect" /\ Tail(ThenReconnectReset) = ThenReset
       /\ <<Do("reconnect")>> \o ThenReset = ThenReconnectReset
    /\ ThenSpawnReset # <<>> /\ Head(ThenSpawnReset)[1] = "reconnect_spawn" /\ Tail(ThenSpawnReset) = ThenReset
       /\ <<Do("reconnect_spawn")>> \o ThenReset = ThenSpawnReset
<1>1. ThenReconnectExit # <<>> /\ Head(ThenReconnectExit)[1] = "reconnect" /\ Tail(ThenReconnectExit) = ThenExit
       /\ <<Do("reconnect")>> \o ThenExit = ThenReconnectExit
  BY TwoFrames, SomePlaces, Words DEF ThenReconnectExit, ThenExit, Do
<1>2. ThenReconnectReset # <<>> /\ Head(ThenReconnectReset)[1] = "reconnect" /\ Tail(ThenReconnectReset) = ThenReset
       /\ <<Do("reconnect")>> \o ThenReset = ThenReconnectReset
  BY TwoFrames, SomePlaces, Words DEF ThenReconnectReset, ThenReset, Do
<1>3. ThenSpawnReset # <<>> /\ Head(ThenSpawnReset)[1] = "reconnect_spawn" /\ Tail(ThenSpawnReset) = ThenReset
       /\ <<Do("reconnect_spawn")>> \o ThenReset = ThenSpawnReset
  BY TwoFrames, SomePlaces, Words DEF ThenSpawnReset, ThenReset, Do
<1> QED BY <1>1, <1>2, <1>3

LEMMA Prefixed ==
    /\ <<Do("connect_exit")>> \o <<>> = ThenExit
    /\ <<Do("send_reset")>> \o <<>> = ThenReset
    /\ <<Do("reconnect_try")>> \o <<>> = ThenTry
    /\ <<Do("force_stop")>> \o <<>> = ThenForce
    /\ <<Frame("info_stop", FALSE)>> \o <<>> = ThenStop
<1>1. <<Do("connect_exit")>> \o <<>> = ThenExit
  BY OneFrame, SomePlaces, Words DEF ThenExit, Do
<1>2. <<Do("send_reset")>> \o <<>> = ThenReset
  BY OneFrame, SomePlaces, Words DEF ThenReset, Do
<1>3. <<Do("reconnect_try")>> \o <<>> = ThenTry
  BY OneFrame, SomePlaces, Words DEF ThenTry, Do
<1>4. <<Do("force_stop")>> \o <<>> = ThenForce
  BY OneFrame, SomePlaces, Words DEF ThenForce, Do
<1>5. <<Frame("info_stop", FALSE)>> \o <<>> = ThenStop
  BY OneFrame, SomePlaces, Words DEF ThenStop
<1> QED BY <1>1, <1>2, <1>3, <1>4, <1>5

-----------------------------------------------------------------------------
LEMMA Idle ==
    ASSUME StacksOK, NEW t \in Threads
    PROVE  /\ Ended(t) <=> place[t] = "idle"
           /\ \A p \in Places : At(t, p) <=> place[t] = p
           /\ Arg(t) = arg[t]
<1>1. stack[t] \in Seq(Frames)
  BY DEF StacksOK
<1>2. stack[t] # <<>> => Head(stack[t]) \in Frames
  BY <1>1
<1>3. stack[t] # <<>> => Head(stack[t])[1] \in Places
  BY <1>2 DEF Frames
<1>4. "idle" \notin Places
  BY DEF Places
<1> QED BY <1>3, <1>4 DEF Ended, At, Arg, place, arg

UiOnly == SameConnect /\ SameSend /\ SameEnd /\ SameRetries /\ place'[EncoderThread] = place[EncoderThread]
ConnectOnly == SameUi /\ SameSend /\ SameEnd /\ SameRetries /\ place'[EncoderThread] = place[EncoderThread]
SendOnly == SameUi /\ SameConnect /\ SameEnd /\ SameRetries /\ place'[EncoderThread] = place[EncoderThread]
EndOnly == SameUi /\ SameConnect /\ SameSend /\ SameRetries /\ place'[EncoderThread] = place[EncoderThread]
RetryOnly(r) ==
    /\ SameUi /\ SameConnect /\ SameSend /\ SameEnd /\ place'[EncoderThread] = place[EncoderThread]
    /\ \A q \in Reconnectors \ {r} : SameRetry(q)

LEMMA TheOthers ==
    /\ Others(Ui) => UiOnly
    /\ Others(ConnectThread) => ConnectOnly
    /\ Others(SendThread) => SendOnly
    /\ Others(EndThread) => EndOnly
    /\ \A r \in Reconnectors : Others(r) => RetryOnly(r)
<1> USE ThreadsDiffer, TheThreads DEF Others, SameUi, SameConnect, SameSend, SameEnd, SameRetries, SameRetry, ui, uiArg, uiRest, co, coArg, coRest,
         se, seArg, seRest, en, enRest, Named
<1>1. Others(Ui) => UiOnly
  BY DEF UiOnly
<1>2. Others(ConnectThread) => ConnectOnly
  BY DEF ConnectOnly
<1>3. Others(SendThread) => SendOnly
  BY DEF SendOnly
<1>4. Others(EndThread) => EndOnly
  BY DEF EndOnly
<1>5. ASSUME NEW r \in Reconnectors, Others(r) PROVE RetryOnly(r)
  BY <1>5 DEF RetryOnly
<1> QED BY <1>1, <1>2, <1>3, <1>4, <1>5

LEMMA ConnectGoes ==
    ASSUME StacksOK, co # "idle", NEW p \in Places, NEW a \in Args, GoOn(ConnectThread, <<Frame(p, a)>>)
    PROVE  StacksOK' /\ co' = p /\ coArg' = a /\ coRest' = coRest /\ ConnectOnly
<1>1. ~Ended(ConnectThread)
  BY Idle, TheThreads DEF co
<1> QED BY <1>1, Goes, TheThreads, TheOthers DEF co, coArg, coRest

LEMMA Unchanged ==
    ASSUME NEW m, NEW e, NEW d,
           d = [mode |-> m, active |-> FALSE, capturing |-> FALSE, refs |-> 0, data |-> e, set |-> FALSE]
    PROVE  [d EXCEPT !.refs = 0] = d /\ [d EXCEPT !.active = FALSE] = d
<1> DEFINE D == [mode : {m}, active : {FALSE}, capturing : {FALSE}, refs : {0}, data : {e}, set : {FALSE}]
<1>1. d \in D /\ [d EXCEPT !.refs = 0] \in D /\ [d EXCEPT !.active = FALSE] \in D
  OBVIOUS
<1>2. ASSUME NEW x \in D
      PROVE  x = [mode |-> m, active |-> FALSE, capturing |-> FALSE, refs |-> 0, data |-> e, set |-> FALSE]
  OBVIOUS
<1> QED BY <1>1, <1>2

LEMMA Undelayed ==
    ASSUME Base
    PROVE  /\ delay.active = FALSE /\ delay.capturing = FALSE /\ delay.refs = 0 /\ delay.set = FALSE
           /\ delay.mode = "none" /\ delay.data = <<>>
           /\ [delay EXCEPT !.refs = 0] = delay /\ [delay EXCEPT !.active = FALSE] = delay
<1>1. delay = NoDelay("none")
  BY DEF Base
<1>2. [delay EXCEPT !.refs = 0] = delay /\ [delay EXCEPT !.active = FALSE] = delay
  BY <1>1, Unchanged DEF NoDelay
<1> QED BY <1>1, <1>2 DEF NoDelay

LEMMA WhoHooks ==
    ASSUME Base, Stacked, NEW t \in Threads, At(t, "hook_capture")
    PROVE  t = ConnectThread /\ co = "hook_capture"
<1>1. place[t] = "hook_capture"
  BY Idle DEF Base, StacksOK, Places
<1> QED BY <1>1, TheThreads DEF Base, Stacked, UiShape, SendShape, EndShape, RetryShape, ui, co, se, en,
    StartPlaces, Unannounced, StopPlaces, Ends, Retries, Leaving, Closing, Front, Behind

LEMMA SameStacked ==
    ASSUME Stacked
    PROVE  /\ SameUi /\ reconnectThread' = reconnectThread => UiShape'
           /\ SameConnect /\ reconnecting' = reconnecting => ConnectShape'
           /\ SameSend /\ reconnecting' = reconnecting => SendShape'
           /\ SameEnd => EndShape'
           /\ SameRetries /\ reconnectThread' = reconnectThread => RetryShape'
<1>1. SameUi /\ reconnectThread' = reconnectThread => UiShape'
  BY DEF Stacked, UiShape, SameUi
<1>2. SameConnect /\ reconnecting' = reconnecting => ConnectShape'
  <2> SUFFICES ASSUME SameConnect, reconnecting' = reconnecting PROVE ConnectShape'
    OBVIOUS
  <2>1. ConnectShape /\ co' = co /\ coArg' = coArg /\ coRest' = coRest
    BY DEF Stacked, SameConnect
  <2> QED BY <2>1, Zenon DEF ConnectShape
<1>3. SameSend /\ reconnecting' = reconnecting => SendShape'
  BY DEF Stacked, SendShape, SameSend
<1>4. SameEnd => EndShape'
  BY DEF Stacked, EndShape, SameEnd
<1>5. SameRetries /\ reconnectThread' = reconnectThread => RetryShape'
  BY DEF Stacked, RetryShape, SameRetries, SameRetry
<1> QED BY <1>1, <1>2, <1>3, <1>4, <1>5

-----------------------------------------------------------------------------
\* A thread goes on, and another begins.
LEMMA Spawned ==
    ASSUME StacksOK, NEW t \in Threads, NEW new \in Threads \ {t},
           NEW s \in Seq(Frames), NEW p \in Places,
           stack' = [stack EXCEPT ![t] = s, ![new] = <<Do(p)>>]
    PROVE  StacksOK' /\ stack'[t] = s /\ stack'[new] = <<Do(p)>>
           /\ \A u \in Threads \ {t, new} : stack'[u] = stack[u]
<1>1. <<Do(p)>> \in Seq(Frames)
  BY OneFrame, Words DEF Do
<1> QED BY <1>1 DEF StacksOK

LEMMA IsBegun ==
    ASSUME NEW new \in Threads, NEW p \in Places, stack'[new] = <<Do(p)>>
    PROVE  place'[new] = p /\ arg'[new] = "none" /\ rest'[new] = <<>>
<1>1. <<Do(p)>> # <<>> /\ Tail(<<Do(p)>>) = <<>>
      /\ Head(<<Do(p)>>)[1] = p /\ Head(<<Do(p)>>)[2] = "none"
  BY OneFrame, Words DEF Do
<1> QED BY <1>1, Zenon DEF place, arg, rest

LEMMA Stays ==
    ASSUME NEW u \in Threads, stack'[u] = stack[u]
    PROVE  place'[u] = place[u] /\ arg'[u] = arg[u] /\ rest'[u] = rest[u]
BY DEF place, arg, rest

LEMMA Tells ==
    ASSUME signals \in Seq(Told), NEW s \in Told, Signal(s)
    PROVE  signals' \in Seq(Told) /\ told' = s
<1>1. signals' \in Seq(Told) /\ Len(signals') = Len(signals) + 1
  BY DEF Signal
<1>2. signals'[Len(signals')] = s /\ signals' # <<>>
  BY <1>1 DEF Signal
<1> QED BY <1>1, <1>2 DEF told

\* In a calm course nobody else is on the move when the network answers.
LEMMA Waits ==
    ASSUME Base, Stacked, calm, NEW t \in Threads, Undisturbed(t)
    PROVE  /\ t # Ui => ui = "idle" \/ (ui = "stop_join" /\ co # "idle")
           /\ t # ConnectThread => co \in {"idle", "try_connect"}
           /\ t # SendThread => se = "idle" \/ (se = "send_loop" /\ stoppingEvent)
           /\ t # EndThread => en = "idle"
           /\ \A r \in Reconnectors \ {t} : place[r] \in {"idle", "reconnect_wait"}
<1>1. \A u \in Threads \ {t} : AtWait(u)
  BY DEF Undisturbed
<1>2. StacksOK /\ {"try_connect", "reconnect_wait", "stop_join", "send_loop"} \subseteq Places
  BY DEF Base, StacksOK, Places
<1>3. \A u \in Threads \ {t} :
         \/ place[u] \in {"idle", "try_connect", "reconnect_wait"}
         \/ place[u] = "stop_join" /\ co # "idle"
         \/ place[u] = "send_loop" /\ stoppingEvent
  BY <1>1, <1>2, Idle, TheThreads DEF AtWait, co
<1>4. t # Ui => ui = "idle" \/ (ui = "stop_join" /\ co # "idle")
  BY <1>3, TheThreads DEF Stacked, UiShape, StartPlaces, Unannounced, StopPlaces, ui
<1>5. t # ConnectThread => co \in {"idle", "try_connect"}
  BY <1>3, TheThreads DEF Stacked, ConnectShape, Connects, Begins, RefusedPlaces, co
<1>6. t # SendThread => se = "idle" \/ (se = "send_loop" /\ stoppingEvent)
  BY <1>3, TheThreads DEF Stacked, SendShape, Leaving, Ends, Retries, se
<1>7. t # EndThread => en = "idle"
  BY <1>3, TheThreads DEF Stacked, EndShape, Closing, en
<1>8. ASSUME NEW r \in Reconnectors \ {t} PROVE place[r] \in {"idle", "reconnect_wait"}
  BY <1>3, TheThreads DEF Stacked, RetryShape, Front, Behind
<1> QED BY <1>4, <1>5, <1>6, <1>7, <1>8

\* The last reconnect thread is one of them.
LEMMA TheLast ==
    ASSUME Base
    PROVE  reconnectThread # 0 => reconnectThread \in Reconnectors
BY OutputAssumption DEF Base, Reconnectors

LEMMA Spends ==
    ASSUME Base, NEW w \in {"starts", "stops", "forces", "drops", "refused"}, Spend(w)
    PROVE  /\ budget[w] # 0
           /\ budget' \in [calm : BOOLEAN, starts : Nat, stops : Nat, forces : Nat,
                           drops : Nat, refused : Nat, delay : Modes]
           /\ \A v \in {"starts", "stops", "forces", "drops", "refused"} :
                 budget[v] = 0 => budget'[v] = 0
<1> DEFINE B == [calm : BOOLEAN, starts : Nat, stops : Nat, forces : Nat,
                 drops : Nat, refused : Nat, delay : Modes]
<1>1. budget \in B /\ budget' = [budget EXCEPT ![w] = @ - 1] /\ budget[w] > 0
  BY DEF Base, Spend
<1>2. budget[w] \in Nat \ {0} /\ budget[w] - 1 \in Nat
  BY <1>1
<1>3. budget' \in B
  BY <1>1, <1>2
<1>4. \A v \in {"starts", "stops", "forces", "drops", "refused"} : v # w => budget'[v] = budget[v]
  BY <1>1
<1> QED BY <1>2, <1>3, <1>4

LEMMA SpawnsRetry ==
    ASSUME Base, Stacked, NEW t \in {ConnectThread, SendThread}, ~Ended(t), ReconnectSpawn(t)
    PROVE  /\ StacksOK'
           /\ reconnectThread' = reconnectThread + 1 /\ reconnectThread \in Nat
           /\ reconnectThread' \in Reconnectors /\ place[reconnectThread'] = "idle"
           /\ place'[t] = "signal_reconnect" /\ arg'[t] = "none" /\ rest'[t] = rest[t]
           /\ place'[reconnectThread'] = "reconnect_enter" /\ rest'[reconnectThread'] = <<>>
           /\ RetryShape'
           /\ \A u \in Threads \ {t, reconnectThread'} :
                 place'[u] = place[u] /\ arg'[u] = arg[u] /\ rest'[u] = rest[u]
<1>1. reconnectThread' = reconnectThread + 1 /\ reconnectThread \in Nat /\ reconnectThread' \in Reconnectors
  BY OutputAssumption DEF Base, ReconnectSpawn, Reconnectors
<1>2. place[reconnectThread'] = "idle"
  BY <1>1 DEF Stacked, RetryShape
<1> DEFINE new == reconnectThread' s == <<Do("signal_reconnect")>> \o Tail(stack[t])
<1>3. t \in Threads /\ new \in Threads \ {t}
  BY <1>1, TheThreads, ThreadsDiffer DEF Named
<1>4. stack[t] \in Seq(Frames) /\ Tail(stack[t]) \in Seq(Frames) /\ StacksOK
  BY <1>3 DEF Base, StacksOK, Ended
<1>5. "signal_reconnect" \in Places /\ "reconnect_enter" \in Places
  BY DEF Places
<1>6. Do("signal_reconnect") \in Frames /\ Do("signal_reconnect")[1] = "signal_reconnect"
      /\ Do("signal_reconnect")[2] = "none"
  BY <1>5, Frames2, Words DEF Do
<1>7. s \in Seq(Frames) /\ s # <<>> /\ Head(s) = Do("signal_reconnect") /\ Tail(s) = Tail(stack[t])
  BY <1>4, <1>6, Prepended
<1>8. /\ StacksOK' /\ stack'[t] = s /\ stack'[new] = <<Do("reconnect_enter")>>
      /\ \A u \in Threads \ {t, new} : stack'[u] = stack[u]
  <2>1. stack' = [stack EXCEPT ![t] = s, ![new] = <<Do("reconnect_enter")>>]
    BY <1>3, <1>4 DEF ReconnectSpawn, Spawn, StacksOK
  <2> HIDE DEF s, new
  <2> QED BY <1>3, <1>4, <1>5, <1>7, <2>1, Spawned
<1> HIDE DEF s, new
<1>9. /\ place'[new] = "reconnect_enter" /\ rest'[new] = <<>>
      /\ \A u \in Threads \ {t, new} :
            place'[u] = place[u] /\ arg'[u] = arg[u] /\ rest'[u] = rest[u]
  BY <1>3, <1>5, <1>8, IsBegun, Stays
<1>10. place'[t] = "signal_reconnect" /\ arg'[t] = "none" /\ rest'[t] = rest[t]
  <2>1. stack'[t] # <<>> /\ Head(stack'[t]) = Do("signal_reconnect") /\ Tail(stack'[t]) = Tail(stack[t])
    BY <1>7, <1>8
  <2>2. Head(stack'[t])[1] = "signal_reconnect" /\ Head(stack'[t])[2] = "none"
    BY <1>6, <2>1
  <2> QED BY <1>3, <2>1, <2>2 DEF place, arg, rest
<1>11. RetryShape'
  <2> SUFFICES ASSUME NEW r \in Reconnectors
               PROVE  /\ place'[r] \in {"idle"} \cup Front \cup Behind
                      /\ place'[r] \in {"actual_start", "info_start", "start_counted"} => rest'[r] = ThenTry
                      /\ place'[r] \in {"reconnect_enter", "reconnect_wait", "reconnect_try", "reconnect_exit"}
                            => rest'[r] = <<>>
                      /\ r > reconnectThread' => place'[r] = "idle"
    BY DEF RetryShape
  <2>1. CASE r = new
    BY <1>1, <1>9, <2>1 DEF Front, new
  <2>2. CASE r # new
    <3>1. place'[r] = place[r] /\ rest'[r] = rest[r]
      BY <1>1, <1>9, <2>2, TheThreads, ThreadsDiffer DEF Named
    <3>2. r > reconnectThread' => r > reconnectThread
      BY <1>1 DEF Reconnectors
    <3> QED BY <3>1, <3>2 DEF Stacked, RetryShape
  <2> QED BY <2>1, <2>2
<1> QED BY <1>1, <1>2, <1>8, <1>9, <1>10, <1>11 DEF new

\* A thread sets out: a click of the user.
LEMMA SetsOut ==
    ASSUME StacksOK, NEW t \in Threads, NEW p \in Places, NEW a \in Args,
           stack' = [stack EXCEPT ![t] = <<Frame(p, a)>>]
    PROVE  /\ StacksOK' /\ place'[t] = p /\ arg'[t] = a /\ rest'[t] = <<>>
           /\ Others(t)
<1>1. /\ <<Frame(p, a)>> \in Seq(Frames) /\ <<Frame(p, a)>> # <<>> /\ Tail(<<Frame(p, a)>>) = <<>>
      /\ Head(<<Frame(p, a)>>)[1] = p /\ Head(<<Frame(p, a)>>)[2] = a
  BY OneFrame
<1>2. StacksOK' /\ stack'[t] = <<Frame(p, a)>> /\ \A u \in Threads \ {t} : stack'[u] = stack[u]
  BY <1>1 DEF StacksOK
<1>3. place'[t] = p /\ arg'[t] = a /\ rest'[t] = <<>>
  BY <1>1, <1>2, Zenon DEF place, arg, rest
<1> QED BY <1>2, <1>3, Stays DEF Others

LEMMA SpawnsAndReturns ==
    ASSUME StacksOK, NEW t \in Threads, ~Ended(t), NEW new \in Threads \ {t}, NEW p \in Places,
           Spawn(t, <<>>, new, p)
    PROVE  /\ StacksOK'
           /\ place'[t] = IF rest[t] = <<>> THEN "idle" ELSE Head(rest[t])[1]
           /\ rest'[t] = Tail(rest[t])
           /\ place'[new] = p /\ rest'[new] = <<>>
           /\ \A u \in Threads \ {t, new} :
                 place'[u] = place[u] /\ arg'[u] = arg[u] /\ rest'[u] = rest[u]
<1>1. stack[t] \in Seq(Frames) /\ Tail(stack[t]) \in Seq(Frames)
  BY DEF StacksOK, Ended
<1> DEFINE s == Tail(stack[t])
<1>2. stack' = [stack EXCEPT ![t] = s, ![new] = <<Do(p)>>]
  BY <1>1, ConcatEmptySeq DEF Spawn, StacksOK
<1>3. s \in Seq(Frames)
  BY <1>1
<1>7. rest[t] = s
  BY DEF rest
<1> HIDE DEF s
<1>4. StacksOK' /\ stack'[t] = s /\ stack'[new] = <<Do(p)>>
      /\ \A u \in Threads \ {t, new} : stack'[u] = stack[u]
  BY <1>2, <1>3, Spawned
<1>5. /\ place'[new] = p /\ rest'[new] = <<>>
      /\ \A u \in Threads \ {t, new} :
            place'[u] = place[u] /\ arg'[u] = arg[u] /\ rest'[u] = rest[u]
  BY <1>4, IsBegun, Stays
<1>6. place'[t] = (IF s = <<>> THEN "idle" ELSE Head(s)[1]) /\ rest'[t] = Tail(s)
  BY <1>4 DEF place, rest
<1> QED BY <1>4, <1>5, <1>6, <1>7

LEMMA SpawnsAndGoes ==
    ASSUME StacksOK, NEW t \in Threads, ~Ended(t), NEW new \in Threads \ {t}, NEW p \in Places,
           NEW q \in Places, NEW a \in Args, Spawn(t, <<Frame(q, a)>>, new, p)
    PROVE  /\ StacksOK'
           /\ place'[t] = q /\ arg'[t] = a /\ rest'[t] = rest[t]
           /\ place'[new] = p /\ rest'[new] = <<>>
           /\ \A u \in Threads \ {t, new} :
                 place'[u] = place[u] /\ arg'[u] = arg[u] /\ rest'[u] = rest[u]
<1>1. stack[t] \in Seq(Frames) /\ Tail(stack[t]) \in Seq(Frames)
  BY DEF StacksOK, Ended
<1> DEFINE f == Frame(q, a) s == <<f>> \o Tail(stack[t])
<1>2. stack' = [stack EXCEPT ![t] = s, ![new] = <<Do(p)>>]
  BY <1>1 DEF Spawn, StacksOK
<1>3. f \in Frames /\ f[1] = q /\ f[2] = a /\ rest[t] = Tail(stack[t])
  BY Frames2 DEF rest
<1> HIDE DEF f
<1>4. s \in Seq(Frames) /\ s # <<>> /\ Head(s) = f /\ Tail(s) = Tail(stack[t])
  BY <1>1, <1>3, Prepended
<1> HIDE DEF s
<1>5. StacksOK' /\ stack'[t] = s /\ stack'[new] = <<Do(p)>>
      /\ \A u \in Threads \ {t, new} : stack'[u] = stack[u]
  BY <1>2, <1>4, Spawned
<1>6. /\ place'[new] = p /\ rest'[new] = <<>>
      /\ \A u \in Threads \ {t, new} :
            place'[u] = place[u] /\ arg'[u] = arg[u] /\ rest'[u] = rest[u]
  BY <1>5, IsBegun, Stays
<1>7. place'[t] = q /\ arg'[t] = a /\ rest'[t] = rest[t]
  <2>1. stack'[t] # <<>> /\ Head(stack'[t])[1] = q /\ Head(stack'[t])[2] = a /\ Tail(stack'[t]) = Tail(stack[t])
    BY <1>3, <1>4, <1>5
  <2> QED BY <2>1 DEF place, arg, rest
<1> QED BY <1>5, <1>6, <1>7

LEMMA SpawnsTheSender ==
    ASSUME StacksOK, ~Ended(ConnectThread), rest[ConnectThread] = <<>>,
           Spawn(ConnectThread, <<Do("begin_capture"), Do("connect_exit")>>, SendThread, "send_loop")
    PROVE  /\ StacksOK'
           /\ place'[ConnectThread] = "begin_capture" /\ rest'[ConnectThread] = ThenExit
           /\ place'[SendThread] = "send_loop" /\ rest'[SendThread] = <<>>
           /\ \A u \in Threads \ {ConnectThread, SendThread} :
                 place'[u] = place[u] /\ arg'[u] = arg[u] /\ rest'[u] = rest[u]
<1> DEFINE t == ConnectThread f == Do("begin_capture") g == Do("connect_exit")
           s == <<f, g>>
<1>1. t \in Threads /\ SendThread \in Threads \ {t}
  BY TheThreads, ThreadsDiffer
<1>2. stack[t] \in Seq(Frames) /\ stack[t] # <<>> /\ Tail(stack[t]) = <<>>
  BY <1>1 DEF StacksOK, Ended, rest
<1>3. "begin_capture" \in Places /\ "connect_exit" \in Places /\ "send_loop" \in Places
  BY DEF Places
<1>4. f \in Frames /\ g \in Frames /\ f[1] = "begin_capture"
  BY <1>3, Frames2, Words DEF Do
<1>5. s \in Seq(Frames) /\ s # <<>> /\ Head(s) = f /\ Tail(s) = <<g>>
  <2> HIDE DEF f, g
  <2> QED BY <1>4, Two
<1>6. s \o <<>> = s
  <2> HIDE DEF s
  <2> QED BY <1>5, ConcatEmptySeq
<1>7. stack' = [stack EXCEPT ![t] = s, ![SendThread] = <<Do("send_loop")>>]
  BY <1>1, <1>2, <1>6 DEF Spawn, StacksOK
<1>8. ThenExit = <<g>>
  BY DEF ThenExit
<1> HIDE DEF s, f, g
<1>9. StacksOK' /\ stack'[t] = s /\ stack'[SendThread] = <<Do("send_loop")>>
      /\ \A u \in Threads \ {t, SendThread} : stack'[u] = stack[u]
  BY <1>1, <1>3, <1>5, <1>7, Spawned
<1>10. /\ place'[SendThread] = "send_loop" /\ rest'[SendThread] = <<>>
       /\ \A u \in Threads \ {t, SendThread} :
             place'[u] = place[u] /\ arg'[u] = arg[u] /\ rest'[u] = rest[u]
  BY <1>1, <1>3, <1>9, IsBegun, Stays
<1>11. stack'[t] # <<>> /\ Head(stack'[t])[1] = "begin_capture" /\ Tail(stack'[t]) = ThenExit
  BY <1>4, <1>5, <1>8, <1>9
<1>12. place'[t] = "begin_capture" /\ rest'[t] = ThenExit
  BY <1>1, <1>11 DEF place, rest
<1> QED BY <1>9, <1>10, <1>12

LEMMA ToTell ==
    <<"called">> \in Seq(Told) /\ <<"called">> # <<>> /\ <<"called">>[Len(<<"called">>)] = "called"
BY DEF Told

-----------------------------------------------------------------------------
(* Every step keeps the invariant: one lemma for an action and a thread.   *)
USE DEF StartPlaces, Unannounced, StopPlaces, Asking, Afterwards, Connects, Begins, RefusedPlaces, Ends,
        Retries, Holding, Leaving, Front, Behind, Closing,
        UiOnly, ConnectOnly, SendOnly, EndOnly, RetryOnly,
        SameUi, SameConnect, SameSend, SameEnd, SameRetries, SameRetry

\* A send thread that was still stopping has ended.
LEMMA ConnectInits ==
    ASSUME RtmpInv, InitConnect(ConnectThread), UNCHANGED calm
    PROVE  RtmpInv'
<1> USE DEF RtmpInv
<1>1. co = "init_connect" /\ StacksOK /\ ~Ended(ConnectThread)
  BY Idle, TheThreads DEF InitConnect, Base, StacksOK, Places, At, Ended, co
<1>2. StacksOK' /\ co' = "try_connect" /\ coArg' = "none" /\ coRest' = coRest /\ ConnectOnly
  <2>1. GoOn(ConnectThread, <<Frame("try_connect", "none")>>)
    BY <1>1 DEF InitConnect, Do
  <2>2. "try_connect" \in Places /\ "none" \in Args
    BY Words DEF Places
  <2>3. /\ StacksOK' /\ place'[ConnectThread] = "try_connect" /\ arg'[ConnectThread] = "none"
        /\ rest'[ConnectThread] = rest[ConnectThread] /\ Others(ConnectThread)
    BY <1>1, <2>1, <2>2, Goes, TheThreads
  <2> QED BY <2>3, TheOthers DEF co, coArg, coRest
<1>3. /\ told' = told
      /\ UNCHANGED <<active, dataActive, encoders, ending, reconnecting, reconnectStop,
                      reconnectActive, reconnectThread, retries, stoppingEvent, signals, connecting,
                      streamActive, stopEvent, budget, calm, delay, announced>>
  BY <1>1, Undelayed DEF InitConnect, captureVars, hookVars, reconnectVars, streamVars, told
<1>8. stopEvent => se = "idle"
  BY Idle, TheThreads DEF InitConnect, se, Base, StacksOK
<1>4. Base' /\ Truths'
  <2>1. Base'
    BY <1>1, <1>2, <1>3, <1>8 DEF Base, StacksOK
  <2>2. Truths'
    BY <1>3 DEF Truths
  <2> QED BY <2>1, <2>2
<1>5. Stacked'
  <2>1. ConnectShape'
    BY <1>1, <1>2, <1>3, <1>8 DEF Stacked, ConnectShape
  <2> QED BY <1>2, <1>3, <2>1, SameStacked DEF Stacked
<1>6. Control'
  BY <1>1, <1>2, <1>3, <1>8, TheLast DEF Control, Flags, Capture, Turns, StopFlag, UserStops, StopResolved, UserStarts, SessionOpen,
      InSession, Fronts, Driven
<1>7. Kinds'
  BY <1>1, <1>2, <1>3, <1>8 DEF Kinds, NoLoss, NoStop, Calm, CalmThread
<1>t. Tale'
  BY <1>1, <1>2, <1>3, <1>8, TheLast DEF Tale, Live, Control, Turns, UserStarts, Fronts
<1> QED BY <1>4, <1>5, <1>6, <1>7, <1>t

\* The connection is refused.
LEMMA ConnectRefused ==
    ASSUME RtmpInv, Refused(ConnectThread), UNCHANGED calm
    PROVE  RtmpInv'
<1> USE DEF RtmpInv
<1>1. co = "try_connect" /\ StacksOK /\ ~Ended(ConnectThread)
  BY Idle, TheThreads DEF Refused, Base, StacksOK, Places, At, Ended, TryConnect, co
<1>2. StacksOK' /\ co' = "signal_stop" /\ coArg' = "connect_failed" /\ coRest' = ThenExit /\ ConnectOnly
  <2>1. GoOnTwice(ConnectThread, "signal_stop", "connect_failed", "connect_exit", "none")
    BY <1>1 DEF Refused, Do, GoOnTwice, TryConnect
  <2>2. coRest = <<>>
    BY <1>1 DEF Stacked, ConnectShape
  <2>3. "signal_stop" \in Places /\ "connect_exit" \in Places /\ "connect_failed" \in Args /\ "none" \in Args
    BY Words DEF Places
  <2>4. <<Frame("connect_exit", "none")>> \o <<>> = ThenExit
    BY Prefixed DEF Do
  <2>5. ConnectThread \in Threads
    BY TheThreads
  <2>6. /\ StacksOK' /\ place'[ConnectThread] = "signal_stop" /\ arg'[ConnectThread] = "connect_failed"
        /\ rest'[ConnectThread] = <<Frame("connect_exit", "none")>> \o rest[ConnectThread] /\ Others(ConnectThread)
    BY <1>1, <2>1, <2>3, <2>5, GoesTwice
  <2> QED BY <2>2, <2>4, <2>6, TheOthers DEF co, coArg, coRest
<1>3. /\ told' = told
      /\ UNCHANGED <<active, dataActive, encoders, ending, reconnecting, reconnectStop,
                      reconnectActive, reconnectThread, retries, stoppingEvent, signals, connecting,
                      streamActive, stopEvent, calm, delay, announced>>
  BY <1>1, Undelayed DEF Refused, captureVars, hookVars, reconnectVars, streamVars, TryConnect, told
<1>8. se = "idle" /\ (calm => ui = "idle" \/ ui = "stop_join") /\ (calm => \A r \in Reconnectors : place[r] \in {"idle", "reconnect_wait"})
  BY Idle, Waits, TheThreads, ThreadsDiffer DEF Refused, TryConnect, se, Base, StacksOK, Named
<1>9. /\ budget' \in [calm : BOOLEAN, starts : Nat, stops : Nat, forces : Nat,
                          drops : Nat, refused : Nat, delay : Modes]
      /\ \A v \in {"starts", "stops", "forces", "drops", "refused"} :
            budget[v] = 0 => budget'[v] = 0
  BY Spends DEF Refused
<1>4. Base' /\ Truths'
  <2>1. Base'
    BY <1>1, <1>2, <1>3, <1>8, <1>9 DEF Base, StacksOK
  <2>2. Truths'
    BY <1>3 DEF Truths
  <2> QED BY <2>1, <2>2
<1>5. Stacked'
  <2>1. ConnectShape'
    BY <1>1, <1>2, <1>3, <1>8, <1>9 DEF Stacked, ConnectShape
  <2> QED BY <1>2, <1>3, <2>1, SameStacked DEF Stacked
<1>6. Control'
  BY <1>1, <1>2, <1>3, <1>8, <1>9, TheLast DEF Control, Flags, Capture, Turns, StopFlag, UserStops, StopResolved, UserStarts, SessionOpen,
      InSession, Fronts, Driven
<1>7. Kinds'
  BY <1>1, <1>2, <1>3, <1>8, <1>9 DEF Kinds, NoLoss, NoStop, Calm, CalmThread, Control, Flags, Capture, Turns, StopFlag, UserStops,
      StopResolved, UserStarts, SessionOpen, InSession, Fronts, Driven
<1>t. Tale'
  BY <1>1, <1>2, <1>3, <1>8, <1>9, TheLast DEF Tale, Live, Control, Turns, UserStarts, Fronts
<1> QED BY <1>4, <1>5, <1>6, <1>7, <1>t

\* connect_thread ends.
LEMMA ConnectEnds ==
    ASSUME RtmpInv, ConnectExit(ConnectThread), UNCHANGED calm
    PROVE  RtmpInv'
<1> USE DEF RtmpInv
<1>1. co = "connect_exit" /\ StacksOK /\ ~Ended(ConnectThread)
  BY Idle, TheThreads DEF ConnectExit, Base, StacksOK, Places, At, Ended, co
<1>2. StacksOK' /\ co' = "idle" /\ ConnectOnly
  <2>1. Return(ConnectThread)
    BY <1>1 DEF ConnectExit
  <2>2. coRest = <<>>
    BY <1>1 DEF Stacked, ConnectShape
  <2> QED BY <1>1, <2>1, <2>2, Returns, TheThreads, TheOthers DEF co, coArg, coRest
<1>3. /\ connecting' = FALSE
      /\ told' = told
      /\ UNCHANGED <<active, dataActive, encoders, ending, reconnecting, reconnectStop,
                      reconnectActive, reconnectThread, retries, stoppingEvent, signals,
                      streamActive, stopEvent, budget, calm, delay, announced>>
  BY <1>1, Undelayed DEF ConnectExit, captureVars, hookVars, reconnectVars, streamVars, told
<1>4. Base' /\ Truths'
  <2>1. Base'
    BY <1>1, <1>2, <1>3 DEF Base, StacksOK
  <2>2. Truths'
    BY <1>3 DEF Truths
  <2> QED BY <2>1, <2>2
<1>5. Stacked'
  <2>1. ConnectShape'
    BY <1>1, <1>2, <1>3 DEF Stacked, ConnectShape
  <2> QED BY <1>2, <1>3, <2>1, SameStacked DEF Stacked
<1>6. Control'
  <2>1. Flags'
    BY <1>1, <1>2, <1>3 DEF Control, Flags
  <2>2. Capture'
    BY <1>1, <1>2, <1>3 DEF Control, Capture
  <2>3. Turns'
    BY <1>1, <1>2, <1>3 DEF Control, Turns
  <2>4. StopFlag'
    BY <1>1, <1>2, <1>3 DEF Control, StopFlag
  <2>5. UserStops'
    BY <1>1, <1>2, <1>3 DEF Control, UserStops
  <2>6. StopResolved'
    BY <1>1, <1>2, <1>3 DEF Control, StopResolved
  <2>7. UserStarts'
    BY <1>1, <1>2, <1>3 DEF Control, UserStarts
  <2>8. SessionOpen'
    BY <1>1, <1>2, <1>3 DEF Control, SessionOpen, InSession
  <2>9. Fronts'
    BY <1>1, <1>2, <1>3 DEF Control, Fronts
  <2>10. Driven'
    BY <1>1, <1>2, <1>3, TheLast DEF Control, Driven
  <2> QED BY <2>1, <2>2, <2>3, <2>4, <2>5, <2>6, <2>7, <2>8, <2>9, <2>10 DEF Control
<1>7. Kinds'
  BY <1>1, <1>2, <1>3 DEF Kinds, NoLoss, NoStop, Calm, CalmThread
<1>t. Tale'
  BY <1>1, <1>2, <1>3, TheLast DEF Tale, Live, Control, Turns, UserStarts, Fronts
<1> QED BY <1>4, <1>5, <1>6, <1>7, <1>t

\* The capture begins.
LEMMA ConnectBegins ==
    ASSUME RtmpInv, BeginCapture(ConnectThread), UNCHANGED <<streamVars, budget, calm>>
    PROVE  RtmpInv'
<1> USE DEF RtmpInv
<1>1. co = "begin_capture" /\ StacksOK /\ ~Ended(ConnectThread)
  BY Idle, TheThreads DEF BeginCapture, Base, StacksOK, Places, At, Ended, co
<1>8. ~active /\ ~delay.active
  BY <1>1, Undelayed DEF Control, Capture, Turns, Closing
<1>2. StacksOK' /\ co' = "hook_capture" /\ coArg' = "none" /\ coRest' = coRest /\ ConnectOnly
  <2>1. GoOn(ConnectThread, <<Frame("hook_capture", "none")>>)
    BY <1>1, <1>8 DEF BeginCapture, Do
  <2>2. "hook_capture" \in Places /\ "none" \in Args
    BY Words, <1>8 DEF Places
  <2>3. /\ StacksOK' /\ place'[ConnectThread] = "hook_capture" /\ arg'[ConnectThread] = "none"
        /\ rest'[ConnectThread] = rest[ConnectThread] /\ Others(ConnectThread)
    BY <1>1, <2>1, <2>2, Goes, TheThreads
  <2> QED BY <2>3, TheOthers DEF co, coArg, coRest
<1>3. /\ dataActive' = TRUE
      /\ told' = told
      /\ UNCHANGED <<active, encoders, ending, reconnecting, reconnectStop, reconnectActive,
                      reconnectThread, retries, stoppingEvent, signals, connecting, streamActive,
                      stopEvent, budget, calm, delay, announced>>
  BY <1>1, Undelayed, <1>8 DEF BeginCapture, captureVars, hookVars, reconnectVars, streamVars, told
<1>4. Base' /\ Truths'
  <2>1. Base'
    BY <1>1, <1>2, <1>3, <1>8 DEF Base, StacksOK
  <2>2. Truths'
    BY <1>3 DEF Truths
  <2> QED BY <2>1, <2>2
<1>5. Stacked'
  <2>1. ConnectShape'
    BY <1>1, <1>2, <1>3, <1>8 DEF Stacked, ConnectShape
  <2> QED BY <1>2, <1>3, <2>1, SameStacked DEF Stacked
<1>6. Control'
  BY <1>1, <1>2, <1>3, <1>8, TheLast DEF Control, Flags, Capture, Turns, StopFlag, UserStops, StopResolved, UserStarts, SessionOpen,
      InSession, Fronts, Driven
<1>7. Kinds'
  BY <1>1, <1>2, <1>3, <1>8 DEF Kinds, NoLoss, NoStop, Calm, CalmThread
<1>t. Tale'
  BY <1>1, <1>2, <1>3, <1>8, TheLast DEF Tale, Live, Control, Turns, UserStarts, Fronts
<1> QED BY <1>4, <1>5, <1>6, <1>7, <1>t

\* The encoders are hooked.
LEMMA ConnectHooks ==
    ASSUME RtmpInv, HookCapture(ConnectThread), UNCHANGED <<streamVars, budget, calm>>
    PROVE  RtmpInv'
<1> USE DEF RtmpInv
<1>1. co = "hook_capture" /\ StacksOK /\ ~Ended(ConnectThread)
  BY Idle, TheThreads DEF HookCapture, Base, StacksOK, Places, At, Ended, co
<1>2. StacksOK' /\ co' = "activate" /\ coArg' = "none" /\ coRest' = coRest /\ ConnectOnly
  <2>1. GoOn(ConnectThread, <<Frame("activate", "none")>>)
    BY <1>1 DEF HookCapture, Do
  <2>2. "activate" \in Places /\ "none" \in Args
    BY Words DEF Places
  <2>3. /\ StacksOK' /\ place'[ConnectThread] = "activate" /\ arg'[ConnectThread] = "none"
        /\ rest'[ConnectThread] = rest[ConnectThread] /\ Others(ConnectThread)
    BY <1>1, <2>1, <2>2, Goes, TheThreads
  <2> QED BY <2>3, TheOthers DEF co, coArg, coRest
<1>3. /\ encoders' = TRUE
      /\ told' = told
      /\ UNCHANGED <<active, dataActive, ending, reconnecting, reconnectStop, reconnectActive,
                      reconnectThread, retries, stoppingEvent, signals, connecting, streamActive,
                      stopEvent, budget, calm, delay, announced>>
  BY <1>1, Undelayed DEF HookCapture, captureVars, hookVars, reconnectVars, streamVars, told
<1>4. Base' /\ Truths'
  <2>1. Base'
    BY <1>1, <1>2, <1>3 DEF Base, StacksOK
  <2>2. Truths'
    BY <1>3 DEF Truths
  <2> QED BY <2>1, <2>2
<1>5. Stacked'
  <2>1. ConnectShape'
    BY <1>1, <1>2, <1>3 DEF Stacked, ConnectShape
  <2> QED BY <1>2, <1>3, <2>1, SameStacked DEF Stacked
<1>6. Control'
  BY <1>1, <1>2, <1>3, TheLast DEF Control, Flags, Capture, Turns, StopFlag, UserStops, StopResolved, UserStarts, SessionOpen,
      InSession, Fronts, Driven
<1>7. Kinds'
  BY <1>1, <1>2, <1>3 DEF Kinds, NoLoss, NoStop, Calm, CalmThread
<1>t. Tale'
  BY <1>1, <1>2, <1>3, TheLast DEF Tale, Live, Control, Turns, UserStarts, Fronts
<1> QED BY <1>4, <1>5, <1>6, <1>7, <1>t

\* The output is active.
LEMMA ConnectActivates ==
    ASSUME RtmpInv, Activate(ConnectThread), UNCHANGED <<streamVars, budget, calm>>
    PROVE  RtmpInv'
<1> USE DEF RtmpInv
<1>1. co = "activate" /\ StacksOK /\ ~Ended(ConnectThread)
  BY Idle, TheThreads DEF Activate, Base, StacksOK, Places, At, Ended, co
<1>2. StacksOK' /\ co' = "signal_start" /\ coArg' = TRUE /\ coRest' = coRest /\ ConnectOnly
  <2>1. GoOn(ConnectThread, <<Frame("signal_start", TRUE)>>)
    BY <1>1 DEF Activate, Do
  <2>2. "signal_start" \in Places /\ TRUE \in Args
    BY Words DEF Places
  <2>3. /\ StacksOK' /\ place'[ConnectThread] = "signal_start" /\ arg'[ConnectThread] = TRUE
        /\ rest'[ConnectThread] = rest[ConnectThread] /\ Others(ConnectThread)
    BY <1>1, <2>1, <2>2, Goes, TheThreads
  <2> QED BY <2>3, TheOthers DEF co, coArg, coRest
<1>3. /\ active' = TRUE
      /\ told' = told
      /\ UNCHANGED <<dataActive, encoders, ending, reconnecting, reconnectStop, reconnectActive,
                      reconnectThread, retries, stoppingEvent, signals, connecting, streamActive,
                      stopEvent, budget, calm, delay, announced>>
  BY <1>1, Undelayed DEF Activate, captureVars, hookVars, reconnectVars, streamVars, told
<1>4. Base' /\ Truths'
  <2>1. Base'
    BY <1>1, <1>2, <1>3 DEF Base, StacksOK
  <2>2. Truths'
    BY <1>3 DEF Truths
  <2> QED BY <2>1, <2>2
<1>5. Stacked'
  <2>1. ConnectShape'
    BY <1>1, <1>2, <1>3 DEF Stacked, ConnectShape
  <2> QED BY <1>2, <1>3, <2>1, SameStacked DEF Stacked
<1>6. Control'
  BY <1>1, <1>2, <1>3, TheLast DEF Control, Flags, Capture, Turns, StopFlag, UserStops, StopResolved, UserStarts, SessionOpen,
      InSession, Fronts, Driven
<1>7. Kinds'
  BY <1>1, <1>2, <1>3 DEF Kinds, NoLoss, NoStop, Calm, CalmThread
<1>t. Tale'
  BY <1>1, <1>2, <1>3, TheLast DEF Tale, Live, Control, Turns, UserStarts, Fronts
<1> QED BY <1>4, <1>5, <1>6, <1>7, <1>t

\* The user is told of the start.
LEMMA ConnectTells ==
    ASSUME RtmpInv, SignalStart(ConnectThread), UNCHANGED <<streamVars, budget, calm>>,
           ~reconnecting
    PROVE  RtmpInv'
<1> USE DEF RtmpInv
<1>1. co = "signal_start" /\ StacksOK /\ ~Ended(ConnectThread)
  BY Idle, TheThreads DEF SignalStart, Base, StacksOK, Places, At, Ended, co
<1>2. StacksOK' /\ co' = "connect_exit" /\ coRest' = <<>> /\ ConnectOnly
  <2>1. Return(ConnectThread)
    BY <1>1 DEF SignalStart, Return
  <2>2. coRest = ThenExit
    BY <1>1 DEF Stacked, ConnectShape
  <2> QED BY <1>1, <2>1, <2>2, Returns, Pending, TheThreads, TheOthers DEF co, coArg, coRest
<1>3. /\ signals' \in Seq(Told) /\ told' = "start"
      /\ UNCHANGED <<active, dataActive, encoders, ending, reconnecting, reconnectStop, reconnectActive,
                      reconnectThread, retries, stoppingEvent, connecting, streamActive, stopEvent,
                      budget, calm, delay, announced>>
  <2>1. Signal("start")
    BY <1>1, ThreadsDiffer, Undelayed DEF SignalStart, captureVars, hookVars, reconnectVars, streamVars, StartSignal, Signal
  <2>2. "start" \in Told
    BY DEF Told
  <2>3. signals' \in Seq(Told) /\ told' = "start"
    BY <2>1, <2>2, Tells DEF Base
  <2> QED BY <1>1, <2>1, <2>3, Undelayed, ThreadsDiffer, Undelayed DEF SignalStart, captureVars, hookVars, reconnectVars, streamVars, StartSignal, Signal
<1>9. se \in {"idle", "send_loop"}
  BY <1>1 DEF Control, Turns
<1>4. Base' /\ Truths'
  <2>1. Base'
    BY <1>1, <1>2, <1>3, <1>9 DEF Base, StacksOK
  <2>2. Truths'
    BY <1>3 DEF Truths
  <2> QED BY <2>1, <2>2
<1>5. Stacked'
  <2>1. ConnectShape'
    BY <1>1, <1>2, <1>3, <1>9 DEF Stacked, ConnectShape
  <2>2. SendShape'
    BY <1>1, <1>2, <1>3, <1>9 DEF Stacked, SendShape
  <2> QED BY <1>2, <1>3, <2>1, <2>2, SameStacked DEF Stacked
<1>6. Control'
  BY <1>1, <1>2, <1>3, <1>9, TheLast DEF Control, Flags, Capture, Turns, StopFlag, UserStops, StopResolved, UserStarts, SessionOpen,
      InSession, Fronts, Driven
<1>7. Kinds'
  BY <1>1, <1>2, <1>3, <1>9 DEF Kinds, NoLoss, NoStop, Calm, CalmThread
<1>t. Tale'
  BY <1>1, <1>2, <1>3, <1>9, TheLast DEF Tale, Live, Control, Turns, UserStarts, Fronts
<1> QED BY <1>4, <1>5, <1>6, <1>7, <1>t

\* The user is told that the stream is back.
LEMMA ConnectTellsTheSuccess ==
    ASSUME RtmpInv, SignalStart(ConnectThread), UNCHANGED <<streamVars, budget, calm>>,
           reconnecting
    PROVE  RtmpInv'
<1> USE DEF RtmpInv
<1>1. co = "signal_start" /\ StacksOK /\ ~Ended(ConnectThread)
  BY Idle, TheThreads DEF SignalStart, Base, StacksOK, Places, At, Ended, co
<1>2. StacksOK' /\ co' = "reconnected" /\ coRest' = coRest /\ ConnectOnly
  <2>1. GoOn(ConnectThread, <<Frame("reconnected", "none")>>)
    BY <1>1 DEF SignalStart, Do
  <2>2. "reconnected" \in Places /\ "none" \in Args
    BY Words DEF Places
  <2> QED BY <1>1, <2>1, <2>2, ConnectGoes
<1>3. /\ signals' \in Seq(Told) /\ told' = "reconnect_success"
      /\ UNCHANGED <<active, dataActive, encoders, ending, reconnecting, reconnectStop, reconnectActive,
                      reconnectThread, retries, stoppingEvent, connecting, streamActive, stopEvent,
                      budget, calm, delay, announced>>
  <2>1. Signal("reconnect_success")
    BY <1>1, ThreadsDiffer, Undelayed DEF SignalStart, captureVars, hookVars, reconnectVars, streamVars, StartSignal, Signal
  <2>2. "reconnect_success" \in Told
    BY DEF Told
  <2>3. signals' \in Seq(Told) /\ told' = "reconnect_success"
    BY <2>1, <2>2, Tells DEF Base
  <2> QED BY <1>1, <2>1, <2>3, Undelayed, ThreadsDiffer, Undelayed DEF SignalStart, captureVars, hookVars, reconnectVars, streamVars, StartSignal, Signal
<1>9. se \in {"idle", "send_loop"}
  BY <1>1 DEF Control, Turns
<1>4. Base' /\ Truths'
  <2>1. Base'
    BY <1>1, <1>2, <1>3, <1>9 DEF Base, StacksOK
  <2>2. Truths'
    BY <1>3 DEF Truths
  <2> QED BY <2>1, <2>2
<1>5. Stacked'
  <2>1. ConnectShape'
    BY <1>1, <1>2, <1>3, <1>9 DEF Stacked, ConnectShape
  <2>2. SendShape'
    BY <1>1, <1>2, <1>3, <1>9 DEF Stacked, SendShape
  <2> QED BY <1>2, <1>3, <2>1, <2>2, SameStacked DEF Stacked
<1>6. Control'
  BY <1>1, <1>2, <1>3, <1>9, TheLast DEF Control, Flags, Capture, Turns, StopFlag, UserStops, StopResolved, UserStarts, SessionOpen,
      InSession, Fronts, Driven
<1>7. Kinds'
  BY <1>1, <1>2, <1>3, <1>9 DEF Kinds, NoLoss, NoStop, Calm, CalmThread
<1>t. Tale'
  BY <1>1, <1>2, <1>3, <1>9, TheLast DEF Tale, Live, Control, Turns, UserStarts, Fronts
<1> QED BY <1>4, <1>5, <1>6, <1>7, <1>t

\* The output reconnects no more.
LEMMA ConnectIsBack ==
    ASSUME RtmpInv, Reconnected(ConnectThread), UNCHANGED <<streamVars, budget, calm>>
    PROVE  RtmpInv'
<1> USE DEF RtmpInv
<1>1. co = "reconnected" /\ StacksOK /\ ~Ended(ConnectThread)
  BY Idle, TheThreads DEF Reconnected, Base, StacksOK, Places, At, Ended, co
<1>2. StacksOK' /\ co' = "connect_exit" /\ coRest' = <<>> /\ ConnectOnly
  <2>1. Return(ConnectThread)
    BY <1>1 DEF Reconnected
  <2>2. coRest = ThenExit
    BY <1>1 DEF Stacked, ConnectShape
  <2> QED BY <1>1, <2>1, <2>2, Returns, Pending, TheThreads, TheOthers DEF co, coArg, coRest
<1>3. /\ reconnecting' = FALSE
      /\ told' = told
      /\ UNCHANGED <<active, dataActive, encoders, ending, reconnectStop, reconnectActive,
                      reconnectThread, retries, stoppingEvent, signals, connecting, streamActive,
                      stopEvent, budget, calm, delay, announced>>
  BY <1>1, Undelayed DEF Reconnected, captureVars, hookVars, reconnectVars, streamVars, told
<1>9. se \in {"idle", "send_loop"}
  BY <1>1 DEF Control, Turns
<1>4. Base' /\ Truths'
  <2>1. Base'
    BY <1>1, <1>2, <1>3, <1>9 DEF Base, StacksOK
  <2>2. Truths'
    BY <1>3 DEF Truths
  <2> QED BY <2>1, <2>2
<1>5. Stacked'
  <2>1. ConnectShape'
    BY <1>1, <1>2, <1>3, <1>9 DEF Stacked, ConnectShape
  <2>2. SendShape'
    BY <1>1, <1>2, <1>3, <1>9 DEF Stacked, SendShape
  <2> QED BY <1>2, <1>3, <2>1, <2>2, SameStacked DEF Stacked
<1>6. Control'
  BY <1>1, <1>2, <1>3, <1>9, TheLast DEF Control, Flags, Capture, Turns, StopFlag, UserStops, StopResolved, UserStarts, SessionOpen,
      InSession, Fronts, Driven
<1>7. Kinds'
  BY <1>1, <1>2, <1>3, <1>9 DEF Kinds, NoLoss, NoStop, Calm, CalmThread
<1>t. Tale'
  BY <1>1, <1>2, <1>3, <1>9, TheLast DEF Tale, Live, Control, Turns, UserStarts, Fronts
<1> QED BY <1>4, <1>5, <1>6, <1>7, <1>t

\* A connection that was refused while reconnecting is tried again.
LEMMA ConnectRetries ==
    ASSUME RtmpInv, SignalStop(ConnectThread), UNCHANGED <<streamVars, budget, calm>>, reconnecting
    PROVE  RtmpInv'
<1> USE DEF RtmpInv
<1>1. co = "signal_stop" /\ StacksOK /\ ~Ended(ConnectThread)
  BY Idle, TheThreads DEF SignalStop, Base, StacksOK, Places, At, Ended, co
<1>8. coArg = "connect_failed" /\ Arg(ConnectThread) = coArg
  BY <1>1, Idle, TheThreads DEF Stacked, ConnectShape, coArg
<1>2. StacksOK' /\ co' = "end_capture" /\ coArg' = FALSE /\ coRest' = ThenReconnectExit /\ ConnectOnly
  <2>1. GoOnTwice(ConnectThread, "end_capture", FALSE, "reconnect", "none")
    BY <1>1, <1>8 DEF SignalStop, Do, GoOnTwice, CanReconnect
  <2>2. coRest = ThenExit
    BY <1>1 DEF Stacked, ConnectShape
  <2>3. "end_capture" \in Places /\ "reconnect" \in Places /\ FALSE \in Args /\ "none" \in Args
    BY Words DEF Places
  <2>4. <<Frame("reconnect", "none")>> \o ThenExit = ThenReconnectExit
    BY PendingTwo DEF Do
  <2>5. ConnectThread \in Threads
    BY TheThreads
  <2>6. /\ StacksOK' /\ place'[ConnectThread] = "end_capture" /\ arg'[ConnectThread] = FALSE
        /\ rest'[ConnectThread] = <<Frame("reconnect", "none")>> \o rest[ConnectThread] /\ Others(ConnectThread)
    BY <1>1, <2>1, <2>3, <2>5, GoesTwice, ZenonT(40)
  <2> QED BY <2>2, <2>4, <2>6, TheOthers DEF co, coArg, coRest
<1>3. /\ told' = told
      /\ UNCHANGED <<active, dataActive, encoders, ending, reconnecting, reconnectStop,
                      reconnectActive, reconnectThread, retries, stoppingEvent, signals, connecting,
                      streamActive, stopEvent, budget, calm, delay, announced>>
  BY <1>1, Undelayed, <1>8 DEF SignalStop, captureVars, hookVars, reconnectVars, streamVars, CanReconnect, told
<1>4. Base' /\ Truths'
  <2>1. Base'
    BY <1>1, <1>2, <1>3, <1>8 DEF Base, StacksOK
  <2>2. Truths'
    BY <1>3 DEF Truths
  <2> QED BY <2>1, <2>2
<1>5. Stacked'
  <2>1. ConnectShape'
    BY <1>1, <1>2, <1>3, <1>8 DEF Stacked, ConnectShape
  <2> QED BY <1>2, <1>3, <2>1, SameStacked DEF Stacked
<1>6. Control'
  BY <1>1, <1>2, <1>3, <1>8, TheLast DEF Control, Flags, Capture, Turns, StopFlag, UserStops, StopResolved, UserStarts, SessionOpen,
      InSession, Fronts, Driven
<1>7. Kinds'
  BY <1>1, <1>2, <1>3, <1>8 DEF Kinds, NoLoss, NoStop, Calm, CalmThread
<1>t. Tale'
  BY <1>1, <1>2, <1>3, <1>8, TheLast DEF Tale, Live, Control, Turns, UserStarts, Fronts
<1> QED BY <1>4, <1>5, <1>6, <1>7, <1>t

\* The first connection was refused.
LEMMA ConnectGivesUp ==
    ASSUME RtmpInv, SignalStop(ConnectThread), UNCHANGED <<streamVars, budget, calm>>, ~reconnecting
    PROVE  RtmpInv'
<1> USE DEF RtmpInv
<1>1. co = "signal_stop" /\ StacksOK /\ ~Ended(ConnectThread)
  BY Idle, TheThreads DEF SignalStop, Base, StacksOK, Places, At, Ended, co
<1>8. coArg = "connect_failed" /\ Arg(ConnectThread) = coArg
  BY <1>1, Idle, TheThreads DEF Stacked, ConnectShape, coArg
<1>2. StacksOK' /\ co' = "end_capture" /\ coArg' = TRUE /\ coRest' = coRest /\ ConnectOnly
  <2>1. GoOn(ConnectThread, <<Frame("end_capture", TRUE)>>)
    BY <1>1, <1>8 DEF SignalStop, Do, CanReconnect
  <2>2. "end_capture" \in Places /\ TRUE \in Args
    BY Words, <1>8 DEF Places
  <2>3. /\ StacksOK' /\ place'[ConnectThread] = "end_capture" /\ arg'[ConnectThread] = TRUE
        /\ rest'[ConnectThread] = rest[ConnectThread] /\ Others(ConnectThread)
    BY <1>1, <2>1, <2>2, Goes, TheThreads
  <2> QED BY <2>3, TheOthers DEF co, coArg, coRest
<1>3. /\ reconnecting' = FALSE
      /\ told' = told
      /\ UNCHANGED <<active, dataActive, encoders, ending, reconnectStop, reconnectActive,
                      reconnectThread, retries, stoppingEvent, signals, connecting, streamActive,
                      stopEvent, budget, calm, delay, announced>>
  BY <1>1, Undelayed, <1>8 DEF SignalStop, captureVars, hookVars, reconnectVars, streamVars, CanReconnect, told
<1>9. se \in {"idle", "send_loop"}
  BY <1>1 DEF Control, Turns
<1>4. Base' /\ Truths'
  <2>1. Base'
    BY <1>1, <1>2, <1>3, <1>8, <1>9 DEF Base, StacksOK
  <2>2. Truths'
    BY <1>3 DEF Truths
  <2> QED BY <2>1, <2>2
<1>5. Stacked'
  <2>1. ConnectShape'
    BY <1>1, <1>2, <1>3, <1>8, <1>9 DEF Stacked, ConnectShape
  <2>2. SendShape'
    BY <1>1, <1>2, <1>3, <1>8, <1>9 DEF Stacked, SendShape
  <2> QED BY <1>2, <1>3, <2>1, <2>2, SameStacked DEF Stacked
<1>6. Control'
  BY <1>1, <1>2, <1>3, <1>8, <1>9, TheLast DEF Control, Flags, Capture, Turns, StopFlag, UserStops, StopResolved, UserStarts, SessionOpen,
      InSession, Fronts, Driven
<1>7. Kinds'
  BY <1>1, <1>2, <1>3, <1>8, <1>9 DEF Kinds, NoLoss, NoStop, Calm, CalmThread
<1>t. Tale'
  BY <1>1, <1>2, <1>3, <1>8, <1>9, TheLast DEF Tale, Live, Control, Turns, UserStarts, Fronts
<1> QED BY <1>4, <1>5, <1>6, <1>7, <1>t

\* The user is told that there is no connection.
LEMMA ConnectTellsTheEnd ==
    ASSUME RtmpInv, EndCapture(ConnectThread), UNCHANGED <<streamVars, budget, calm>>, coArg = TRUE
    PROVE  RtmpInv'
<1> USE DEF RtmpInv
<1>1. co = "end_capture" /\ StacksOK /\ ~Ended(ConnectThread)
  BY Idle, TheThreads DEF EndCapture, Base, StacksOK, Places, At, Ended, co
<1>8. ~dataActive /\ Arg(ConnectThread) = coArg
  BY <1>1, Idle, TheThreads DEF Control, Capture, Turns, coArg
<1>2. StacksOK' /\ co' = "connect_exit" /\ coRest' = <<>> /\ ConnectOnly
  <2>1. Return(ConnectThread)
    BY <1>1, <1>8 DEF EndCapture
  <2>2. coRest = ThenExit
    BY <1>1, <1>8 DEF Stacked, ConnectShape
  <2> QED BY <1>1, <2>1, <2>2, Returns, Pending, TheThreads, TheOthers DEF co, coArg, coRest
<1>3. /\ stoppingEvent' = TRUE
      /\ signals' \in Seq(Told) /\ told' = "stop"
      /\ UNCHANGED <<active, dataActive, encoders, ending, reconnecting, reconnectStop,
                      reconnectActive, reconnectThread, retries, connecting, streamActive,
                      stopEvent, budget, calm, delay, announced>>
  <2>1. Signal("stop")
    BY <1>1, <1>8 DEF EndCapture, captureVars, hookVars, reconnectVars, streamVars, StopIsOver
  <2>2. "stop" \in Told
    BY DEF Told
  <2>3. signals' \in Seq(Told) /\ told' = "stop"
    BY <2>1, <2>2, Tells DEF Base
  <2> QED BY <1>1, <2>1, <2>3, Undelayed, <1>8 DEF EndCapture, captureVars, hookVars, reconnectVars, streamVars, StopIsOver
<1>9. ~reconnecting /\ ui \notin StopPlaces
  <2>1. se = "idle" /\ coArg # FALSE
    BY <1>1 DEF Control, Turns
  <2>2. ASSUME reconnecting PROVE FALSE
    <3>1. \E r \in Reconnectors : place[r] = "reconnect_try" /\ reconnectStop
      BY <1>1, <2>1, <2>2, TheLast DEF Control, Driven, Fronts
    <3> QED BY <1>1, <2>2, <3>1 DEF Kinds, NoLoss, NoStop, Calm, CalmThread
  <2> QED BY <1>1, <2>1, <2>2 DEF Kinds, NoLoss, NoStop, Calm
<1>4. Base' /\ Truths'
  <2>1. Base'
    BY <1>1, <1>2, <1>3, <1>8, <1>9 DEF Base, StacksOK
  <2>2. Truths'
    BY <1>3 DEF Truths
  <2> QED BY <2>1, <2>2
<1>5. Stacked'
  <2>1. ConnectShape'
    BY <1>1, <1>2, <1>3, <1>8, <1>9 DEF Stacked, ConnectShape
  <2> QED BY <1>2, <1>3, <2>1, SameStacked DEF Stacked
<1>6. Control'
  BY <1>1, <1>2, <1>3, <1>8, <1>9, TheLast DEF Control, Flags, Capture, Turns, StopFlag, UserStops, StopResolved, UserStarts, SessionOpen,
      InSession, Fronts, Driven
<1>7. Kinds'
  BY <1>1, <1>2, <1>3, <1>8, <1>9 DEF Kinds, NoLoss, NoStop, Calm, CalmThread, Control, Flags, Turns
<1>t. Tale'
  BY <1>1, <1>2, <1>3, <1>8, <1>9, TheLast DEF Tale, Live, Control, SessionOpen, InSession, Turns, UserStarts, Fronts
<1> QED BY <1>4, <1>5, <1>6, <1>7, <1>t

\* Nothing was captured, the connection is tried again.
LEMMA ConnectTellsNothing ==
    ASSUME RtmpInv, EndCapture(ConnectThread), UNCHANGED <<streamVars, budget, calm>>, coArg = FALSE
    PROVE  RtmpInv'
<1> USE DEF RtmpInv
<1>1. co = "end_capture" /\ StacksOK /\ ~Ended(ConnectThread)
  BY Idle, TheThreads DEF EndCapture, Base, StacksOK, Places, At, Ended, co
<1>8. ~dataActive /\ Arg(ConnectThread) = coArg
  BY <1>1, Idle, TheThreads DEF Control, Capture, Turns, coArg
<1>2. StacksOK' /\ co' = "reconnect" /\ coRest' = ThenExit /\ ConnectOnly
  <2>1. Return(ConnectThread)
    BY <1>1, <1>8 DEF EndCapture
  <2>2. coRest = ThenReconnectExit
    BY <1>1, <1>8 DEF Stacked, ConnectShape
  <2> QED BY <1>1, <2>1, <2>2, Returns, PendingTwo, TheThreads, TheOthers DEF co, coArg, coRest
<1>3. /\ told' = told
      /\ UNCHANGED <<active, dataActive, encoders, ending, reconnecting, reconnectStop,
                      reconnectActive, reconnectThread, retries, stoppingEvent, signals, connecting,
                      streamActive, stopEvent, budget, calm, delay, announced>>
  BY <1>1, Undelayed, <1>8 DEF EndCapture, captureVars, hookVars, reconnectVars, streamVars, StopIsOver, told
<1>4. Base' /\ Truths'
  <2>1. Base'
    BY <1>1, <1>2, <1>3, <1>8 DEF Base, StacksOK
  <2>2. Truths'
    BY <1>3 DEF Truths
  <2> QED BY <2>1, <2>2
<1>5. Stacked'
  <2>1. ConnectShape'
    BY <1>1, <1>2, <1>3, <1>8 DEF Stacked, ConnectShape
  <2> QED BY <1>2, <1>3, <2>1, SameStacked DEF Stacked
<1>6. Control'
  BY <1>1, <1>2, <1>3, <1>8, TheLast DEF Control, Flags, Capture, Turns, StopFlag, UserStops, StopResolved, UserStarts, SessionOpen,
      InSession, Fronts, Driven
<1>7. Kinds'
  BY <1>1, <1>2, <1>3, <1>8 DEF Kinds, NoLoss, NoStop, Calm, CalmThread
<1>t. Tale'
  BY <1>1, <1>2, <1>3, <1>8, TheLast DEF Tale, Live, Control, Turns, UserStarts, Fronts
<1> QED BY <1>4, <1>5, <1>6, <1>7, <1>t

\* The user has stopped the output that reconnects.
LEMMA ConnectIsStopped ==
    ASSUME RtmpInv, Reconnect(ConnectThread), UNCHANGED <<streamVars, budget, calm>>, StoppedByUser
    PROVE  RtmpInv'
<1> USE DEF RtmpInv
<1>1. co = "reconnect" /\ StacksOK /\ ~Ended(ConnectThread)
  BY Idle, TheThreads DEF Reconnect, Base, StacksOK, Places, At, Ended, co
<1>2. StacksOK' /\ co' = "connect_exit" /\ coRest' = <<>> /\ ConnectOnly
  <2>1. Return(ConnectThread)
    BY <1>1 DEF Reconnect
  <2>2. coRest = ThenExit
    BY <1>1 DEF Stacked, ConnectShape
  <2> QED BY <1>1, <2>1, <2>2, Returns, Pending, TheThreads, TheOthers DEF co, coArg, coRest
<1>3. /\ reconnecting' = FALSE
      /\ told' = told
      /\ UNCHANGED <<active, dataActive, encoders, ending, reconnectStop, reconnectActive,
                      reconnectThread, retries, stoppingEvent, signals, connecting, streamActive,
                      stopEvent, budget, calm, delay, announced>>
  BY <1>1, Undelayed DEF Reconnect, captureVars, hookVars, reconnectVars, streamVars, StoppedByUser, told
<1>9. se \in {"idle", "send_loop"}
  BY <1>1 DEF Control, Turns
<1>4. Base' /\ Truths'
  <2>1. Base'
    BY <1>1, <1>2, <1>3, <1>9 DEF Base, StacksOK
  <2>2. Truths'
    BY <1>3 DEF Truths
  <2> QED BY <2>1, <2>2
<1>5. Stacked'
  <2>1. ConnectShape'
    BY <1>1, <1>2, <1>3, <1>9 DEF Stacked, ConnectShape
  <2>2. SendShape'
    BY <1>1, <1>2, <1>3, <1>9 DEF Stacked, SendShape
  <2> QED BY <1>2, <1>3, <2>1, <2>2, SameStacked DEF Stacked
<1>6. Control'
  BY <1>1, <1>2, <1>3, <1>9, TheLast DEF Control, Flags, Capture, Turns, StopFlag, UserStops, StopResolved, UserStarts, SessionOpen,
      InSession, Fronts, Driven
<1>7. Kinds'
  BY <1>1, <1>2, <1>3, <1>9 DEF Kinds, NoLoss, NoStop, Calm, CalmThread
<1>t. Tale'
  BY <1>1, <1>2, <1>3, <1>9, TheLast DEF Tale, Live, Control, Turns, UserStarts, Fronts
<1> QED BY <1>4, <1>5, <1>6, <1>7, <1>t

\* The last retry has failed.
LEMMA ConnectIsOver ==
    ASSUME RtmpInv, Reconnect(ConnectThread), UNCHANGED <<streamVars, budget, calm>>,
           ~StoppedByUser, OutOfRetries
    PROVE  RtmpInv'
<1> USE DEF RtmpInv
<1>1. co = "reconnect" /\ StacksOK /\ ~Ended(ConnectThread)
  BY Idle, TheThreads DEF Reconnect, Base, StacksOK, Places, At, Ended, co
<1>8. reconnecting
  BY <1>1 DEF Stacked, ConnectShape
<1>2. StacksOK' /\ co' = "end_capture" /\ coArg' = TRUE /\ coRest' = coRest /\ ConnectOnly
  <2>1. GoOn(ConnectThread, <<Frame("end_capture", TRUE)>>)
    BY <1>1 DEF Reconnect, Do, AfterLastRetry
  <2>2. "end_capture" \in Places /\ TRUE \in Args
    BY Words DEF Places
  <2>3. /\ StacksOK' /\ place'[ConnectThread] = "end_capture" /\ arg'[ConnectThread] = TRUE
        /\ rest'[ConnectThread] = rest[ConnectThread] /\ Others(ConnectThread)
    BY <1>1, <2>1, <2>2, Goes, TheThreads
  <2> QED BY <2>3, TheOthers DEF co, coArg, coRest
<1>3. /\ reconnecting' = FALSE
      /\ retries' = Attempts
      /\ told' = told
      /\ UNCHANGED <<active, dataActive, encoders, ending, reconnectStop, reconnectActive,
                      reconnectThread, stoppingEvent, signals, connecting, streamActive, stopEvent,
                      budget, calm, delay, announced>>
  BY <1>1, Undelayed DEF Reconnect, captureVars, hookVars, reconnectVars, streamVars, GiveUp, told
<1>9. se \in {"idle", "send_loop"}
  BY <1>1 DEF Control, Turns
<1>4. Base' /\ Truths'
  <2>1. Base'
    BY <1>1, <1>2, <1>3, <1>8, <1>9 DEF Base, StacksOK, Attempts
  <2>2. Truths'
    BY <1>3 DEF Truths
  <2> QED BY <2>1, <2>2
<1>5. Stacked'
  <2>1. ConnectShape'
    BY <1>1, <1>2, <1>3, <1>8, <1>9 DEF Stacked, ConnectShape
  <2>2. SendShape'
    BY <1>1, <1>2, <1>3, <1>8, <1>9 DEF Stacked, SendShape
  <2> QED BY <1>2, <1>3, <2>1, <2>2, SameStacked DEF Stacked
<1>6. Control'
  BY <1>1, <1>2, <1>3, <1>8, <1>9, TheLast DEF Control, Flags, Capture, Turns, StopFlag, UserStops, StopResolved, UserStarts, SessionOpen,
      InSession, Fronts, Driven
<1>7. Kinds'
  BY <1>1, <1>2, <1>3, <1>8, <1>9 DEF Kinds, NoLoss, NoStop, Calm, CalmThread, StoppedByUser
<1>t. Tale'
  BY <1>1, <1>2, <1>3, <1>8, <1>9, TheLast DEF Tale, Live, Control, Turns, UserStarts, Fronts
<1> QED BY <1>4, <1>5, <1>6, <1>7, <1>t

\* There is to be another retry.
LEMMA ConnectWillSpawn ==
    ASSUME RtmpInv, Reconnect(ConnectThread), UNCHANGED <<streamVars, budget, calm>>,
           ~StoppedByUser, ~OutOfRetries
    PROVE  RtmpInv'
<1> USE DEF RtmpInv
<1>1. co = "reconnect" /\ StacksOK /\ ~Ended(ConnectThread)
  BY Idle, TheThreads DEF Reconnect, Base, StacksOK, Places, At, Ended, co
<1>8. reconnecting
  BY <1>1 DEF Stacked, ConnectShape
<1>2. StacksOK' /\ co' = "reconnect_spawn" /\ coArg' = "none" /\ coRest' = coRest /\ ConnectOnly
  <2>1. GoOn(ConnectThread, <<Frame("reconnect_spawn", "none")>>)
    BY <1>1, <1>8 DEF Reconnect, Do
  <2>2. "reconnect_spawn" \in Places /\ "none" \in Args
    BY Words, <1>8 DEF Places
  <2>3. /\ StacksOK' /\ place'[ConnectThread] = "reconnect_spawn" /\ arg'[ConnectThread] = "none"
        /\ rest'[ConnectThread] = rest[ConnectThread] /\ Others(ConnectThread)
    BY <1>1, <2>1, <2>2, Goes, TheThreads
  <2> QED BY <2>3, TheOthers DEF co, coArg, coRest
<1>3. /\ reconnecting' = TRUE
      /\ retries' = Attempts
      /\ told' = told
      /\ UNCHANGED <<active, dataActive, encoders, ending, reconnectStop, reconnectActive,
                      reconnectThread, stoppingEvent, signals, connecting, streamActive, stopEvent,
                      budget, calm, delay, announced>>
  BY <1>1, Undelayed, <1>8 DEF Reconnect, captureVars, hookVars, reconnectVars, streamVars, StoppedByUser, told
<1>9. se \in {"idle", "send_loop"}
  BY <1>1 DEF Control, Turns
<1>4. Base' /\ Truths'
  <2>1. Base'
    BY <1>1, <1>2, <1>3, <1>8, <1>9 DEF Base, StacksOK, Attempts
  <2>2. Truths'
    BY <1>3 DEF Truths
  <2> QED BY <2>1, <2>2
<1>5. Stacked'
  <2>1. ConnectShape'
    BY <1>1, <1>2, <1>3, <1>8, <1>9 DEF Stacked, ConnectShape
  <2>2. SendShape'
    BY <1>1, <1>2, <1>3, <1>8, <1>9 DEF Stacked, SendShape
  <2> QED BY <1>2, <1>3, <2>1, <2>2, SameStacked DEF Stacked
<1>6. Control'
  BY <1>1, <1>2, <1>3, <1>8, <1>9, TheLast DEF Control, Flags, Capture, Turns, StopFlag, UserStops, StopResolved, UserStarts, SessionOpen,
      InSession, Fronts, Driven
<1>7. Kinds'
  BY <1>1, <1>2, <1>3, <1>8, <1>9 DEF Kinds, NoLoss, NoStop, Calm, CalmThread, StoppedByUser
<1>t. Tale'
  BY <1>1, <1>2, <1>3, <1>8, <1>9, TheLast DEF Tale, Live, Control, Turns, UserStarts, Fronts
<1> QED BY <1>4, <1>5, <1>6, <1>7, <1>t

\* The user is told of the retry.
LEMMA ConnectTellsTheRetry ==
    ASSUME RtmpInv, SignalReconnect(ConnectThread), UNCHANGED <<streamVars, budget, calm>>
    PROVE  RtmpInv'
<1> USE DEF RtmpInv
<1>1. co = "signal_reconnect" /\ StacksOK /\ ~Ended(ConnectThread)
  BY Idle, TheThreads DEF SignalReconnect, Base, StacksOK, Places, At, Ended, co
<1>2. StacksOK' /\ co' = "connect_exit" /\ coRest' = <<>> /\ ConnectOnly
  <2>1. Return(ConnectThread)
    BY <1>1 DEF SignalReconnect
  <2>2. coRest = ThenExit
    BY <1>1 DEF Stacked, ConnectShape
  <2> QED BY <1>1, <2>1, <2>2, Returns, Pending, TheThreads, TheOthers DEF co, coArg, coRest
<1>3. /\ signals' \in Seq(Told) /\ told' = "reconnect"
      /\ UNCHANGED <<active, dataActive, encoders, ending, reconnecting, reconnectStop,
                      reconnectActive, reconnectThread, retries, stoppingEvent, connecting,
                      streamActive, stopEvent, budget, calm, delay, announced>>
  <2>1. Signal("reconnect")
    BY <1>1 DEF SignalReconnect, captureVars, hookVars, reconnectVars, streamVars
  <2>2. "reconnect" \in Told
    BY DEF Told
  <2>3. signals' \in Seq(Told) /\ told' = "reconnect"
    BY <2>1, <2>2, Tells DEF Base
  <2> QED BY <1>1, <2>1, <2>3, Undelayed DEF SignalReconnect, captureVars, hookVars, reconnectVars, streamVars
<1>4. Base' /\ Truths'
  <2>1. Base'
    BY <1>1, <1>2, <1>3 DEF Base, StacksOK
  <2>2. Truths'
    BY <1>3 DEF Truths
  <2> QED BY <2>1, <2>2
<1>5. Stacked'
  <2>1. ConnectShape'
    BY <1>1, <1>2, <1>3 DEF Stacked, ConnectShape
  <2> QED BY <1>2, <1>3, <2>1, SameStacked DEF Stacked
<1>6. Control'
  BY <1>1, <1>2, <1>3, TheLast DEF Control, Flags, Capture, Turns, StopFlag, UserStops, StopResolved, UserStarts, SessionOpen,
      InSession, Fronts, Driven
<1>7. Kinds'
  BY <1>1, <1>2, <1>3 DEF Kinds, NoLoss, NoStop, Calm, CalmThread
<1>t. Tale'
  BY <1>1, <1>2, <1>3, TheLast DEF Tale, Live, Control, Turns, UserStarts, Fronts
<1> QED BY <1>4, <1>5, <1>6, <1>7, <1>t

\* A thread is to wait for the next retry.
LEMMA ConnectSpawns ==
    ASSUME RtmpInv, ReconnectSpawn(ConnectThread), UNCHANGED <<streamVars, budget, calm>>
    PROVE  RtmpInv'
<1> USE DEF RtmpInv
<1>1. co = "reconnect_spawn" /\ StacksOK /\ ~Ended(ConnectThread)
  BY Idle, TheThreads DEF ReconnectSpawn, Base, StacksOK, Places, At, Ended, co
<1>2. /\ StacksOK' /\ co' = "signal_reconnect" /\ coRest' = ThenExit
      /\ SameUi /\ SameSend /\ SameEnd /\ place'[EncoderThread] = place[EncoderThread]
      /\ reconnectThread' = reconnectThread + 1 /\ reconnectThread \in Nat
      /\ reconnectThread' \in Reconnectors /\ place[reconnectThread'] = "idle"
      /\ place'[reconnectThread'] = "reconnect_enter" /\ rest'[reconnectThread'] = <<>>
      /\ RetryShape'
      /\ \A r \in Reconnectors \ {reconnectThread'} : SameRetry(r)
  <2>1. coRest = ThenExit
    BY <1>1 DEF Stacked, ConnectShape
  <2> QED BY <1>1, <2>1, SpawnsRetry, TheThreads, ThreadsDiffer
          DEF co, coArg, coRest, ui, uiArg, uiRest, se, seArg, seRest, en, enRest, Named
<1>3. /\ retries' = retries + 1
      /\ told' = told
      /\ UNCHANGED <<active, dataActive, encoders, ending, reconnecting, reconnectStop,
                      reconnectActive, stoppingEvent, signals, connecting, streamActive, stopEvent,
                      budget, calm, delay, announced>>
  BY <1>1, Undelayed DEF ReconnectSpawn, captureVars, hookVars, reconnectVars, streamVars, told
<1>8. ui \notin StopPlaces /\ reconnecting
  BY <1>1 DEF Stacked, ConnectShape, Kinds, NoLoss, NoStop, Calm
<1>4. Base' /\ Truths'
  <2>1. Base'
    BY <1>1, <1>2, <1>3, <1>8 DEF Base, StacksOK, Reconnectors
  <2>2. Truths'
    BY <1>3 DEF Truths
  <2> QED BY <2>1, <2>2
<1>5. Stacked'
  <2>1. ConnectShape'
    BY <1>1, <1>2, <1>3, <1>8 DEF Stacked, ConnectShape
  <2>2. RetryShape'
    BY <1>2
  <2>3. UiShape'
    BY <1>1, <1>2, <1>3, <1>8 DEF Stacked, UiShape
  <2> QED BY <1>2, <1>3, <2>1, <2>2, <2>3, SameStacked DEF Stacked
<1>6. Control'
  BY <1>1, <1>2, <1>3, <1>8, TheLast DEF Control, Flags, Capture, Turns, StopFlag, UserStops, StopResolved, UserStarts, SessionOpen,
      InSession, Fronts, Driven
<1>7. Kinds'
  BY <1>1, <1>2, <1>3, <1>8 DEF Kinds, NoLoss, NoStop, Calm, CalmThread, Control, Flags, Capture, Turns, StopFlag, UserStops
<1>t. Tale'
  BY <1>1, <1>2, <1>3, <1>8, TheLast DEF Tale, Live, Control, Turns, UserStarts, Fronts
<1> QED BY <1>4, <1>5, <1>6, <1>7, <1>t

\* The connection is made.
LEMMA ConnectConnects ==
    ASSUME RtmpInv, Connected(ConnectThread), UNCHANGED calm
    PROVE  RtmpInv'
<1> USE DEF RtmpInv
<1>1. co = "try_connect" /\ StacksOK /\ ~Ended(ConnectThread)
  BY Idle, TheThreads DEF Connected, Base, StacksOK, Places, At, Ended, TryConnect, co
<1>2. /\ StacksOK' /\ co' = "begin_capture" /\ coRest' = ThenExit
      /\ se' = "send_loop" /\ seRest' = <<>> /\ SameUi /\ SameEnd /\ SameRetries
      /\ place'[EncoderThread] = place[EncoderThread]
  <2>1. coRest = <<>> /\ rest[ConnectThread] = <<>>
    BY <1>1 DEF Stacked, ConnectShape, coRest
  <2>2. Spawn(ConnectThread, <<Do("begin_capture"), Do("connect_exit")>>, SendThread, "send_loop")
    BY DEF Connected
  <2> QED BY <1>1, <2>1, <2>2, SpawnsTheSender, TheThreads, ThreadsDiffer
          DEF co, coArg, coRest, ui, uiArg, uiRest, se, seArg, seRest, en, enRest, Named
<1>3. /\ streamActive' = TRUE
      /\ told' = told
      /\ UNCHANGED <<active, dataActive, encoders, ending, reconnecting, reconnectStop,
                      reconnectActive, reconnectThread, retries, stoppingEvent, signals, connecting,
                      stopEvent, budget, calm, delay, announced>>
  BY <1>1, Undelayed DEF Connected, captureVars, hookVars, reconnectVars, streamVars, told
<1>8. se = "idle"
  BY Idle, TheThreads DEF Connected, TryConnect, se, Base, StacksOK
<1>9. calm =>
          /\ ui = "idle" \/ ui = "stop_join"
          /\ en = "idle"
          /\ \A r \in Reconnectors : place[r] \in {"idle", "reconnect_wait"}
  BY Waits, TheThreads, ThreadsDiffer DEF Connected, TryConnect, Named
<1>4. Base' /\ Truths'
  <2>1. Base'
    BY <1>1, <1>2, <1>3, <1>8, <1>9 DEF Base, StacksOK
  <2>2. Truths'
    BY <1>3 DEF Truths
  <2> QED BY <2>1, <2>2
<1>5. Stacked'
  <2>1. ConnectShape'
    BY <1>1, <1>2, <1>3, <1>8, <1>9 DEF Stacked, ConnectShape
  <2>2. SendShape'
    BY <1>1, <1>2, <1>3, <1>8, <1>9 DEF Stacked, SendShape
  <2> QED BY <1>2, <1>3, <2>1, <2>2, SameStacked DEF Stacked
<1>6. Control'
  BY <1>1, <1>2, <1>3, <1>8, <1>9, TheLast DEF Control, Flags, Capture, Turns, StopFlag, UserStops, StopResolved, UserStarts, SessionOpen,
      InSession, Fronts, Driven
<1>7. Kinds'
  BY <1>1, <1>2, <1>3, <1>8, <1>9 DEF Kinds, NoLoss, NoStop, Calm, CalmThread
<1>t. Tale'
  BY <1>1, <1>2, <1>3, <1>8, <1>9, TheLast DEF Tale, Live, Control, Turns, UserStarts, Fronts
<1> QED BY <1>4, <1>5, <1>6, <1>7, <1>t

\* The thread that ends the capture is started.
LEMMA SendJoinsEnd ==
    ASSUME RtmpInv, JoinEnd(SendThread), UNCHANGED <<streamVars, budget, calm>>
    PROVE  RtmpInv'
<1> USE DEF RtmpInv
<1>1. se = "join_end" /\ StacksOK /\ ~Ended(SendThread)
  BY Idle, TheThreads DEF JoinEnd, Base, StacksOK, Places, At, Ended, se
<1>2. /\ StacksOK' /\ se' = "signal_stopped" /\ seArg' = seArg /\ seRest' = seRest
      /\ en' = "stop_encoders" /\ enRest' = <<>> /\ SameUi /\ SameConnect /\ SameRetries
      /\ place'[EncoderThread] = place[EncoderThread]
  <2>1. /\ {"signal_stopped", "stop_encoders"} \subseteq Places /\ seArg \in Args
        /\ SendThread \in Threads /\ EndThread \in Threads \ {SendThread}
    BY <1>1, TheThreads, ThreadsDiffer, Words DEF Places, Stacked, SendShape
  <2>2. Spawn(SendThread, <<Frame("signal_stopped", seArg)>>, EndThread, "stop_encoders")
    BY <1>1, Idle, TheThreads DEF JoinEnd, seArg
  <2>3. /\ StacksOK'
        /\ place'[SendThread] = "signal_stopped" /\ arg'[SendThread] = seArg /\ rest'[SendThread] = rest[SendThread]
        /\ place'[EndThread] = "stop_encoders" /\ rest'[EndThread] = <<>>
        /\ \A u \in Threads \ {SendThread, EndThread} :
              place'[u] = place[u] /\ arg'[u] = arg[u] /\ rest'[u] = rest[u]
    BY <1>1, <2>1, <2>2, SpawnsAndGoes
  <2> QED BY <2>3, TheThreads, ThreadsDiffer
          DEF co, coArg, coRest, ui, uiArg, uiRest, se, seArg, seRest, en, enRest, Named
<1>3. /\ ending' = TRUE
      /\ told' = told
      /\ UNCHANGED <<active, dataActive, encoders, reconnecting, reconnectStop, reconnectActive,
                      reconnectThread, retries, stoppingEvent, signals, connecting, streamActive,
                      stopEvent, budget, calm, delay, announced>>
  BY <1>1, Undelayed DEF JoinEnd, captureVars, hookVars, reconnectVars, streamVars, told
<1>4. Base' /\ Truths'
  <2>1. Base'
    BY <1>1, <1>2, <1>3 DEF Base, StacksOK
  <2>2. Truths'
    BY <1>3 DEF Truths
  <2> QED BY <2>1, <2>2
<1>5. Stacked'
  <2>1. SendShape'
    BY <1>1, <1>2, <1>3 DEF Stacked, SendShape
  <2>2. EndShape'
    BY <1>1, <1>2, <1>3 DEF Stacked, EndShape
  <2> QED BY <1>2, <1>3, <2>1, <2>2, SameStacked DEF Stacked
<1>6. Control'
  BY <1>1, <1>2, <1>3, TheLast DEF Control, Flags, Capture, Turns, StopFlag, UserStops, StopResolved, UserStarts, SessionOpen,
      InSession, Fronts, Driven
<1>7. Kinds'
  BY <1>1, <1>2, <1>3 DEF Kinds, NoLoss, NoStop, Calm, CalmThread
<1>t. Tale'
  BY <1>1, <1>2, <1>3, TheLast DEF Tale, Live, Control, Turns, UserStarts, Fronts
<1> QED BY <1>4, <1>5, <1>6, <1>7, <1>t

\* The stop has come to its packet.
LEMMA SendStopsKeeps ==
    ASSUME RtmpInv, SendStops(SendThread), UNCHANGED calm
    PROVE  RtmpInv'
<1> USE DEF RtmpInv
<1>1. se = "send_loop" /\ StacksOK /\ ~Ended(SendThread)
  BY Idle, TheThreads DEF SendStops, Base, StacksOK, Places, At, Ended, se
<1>2. StacksOK' /\ se' = "send_end" /\ seArg' = "none" /\ seRest' = seRest /\ SendOnly
  <2>1. GoOn(SendThread, <<Frame("send_end", "none")>>)
    BY <1>1 DEF SendStops, Do
  <2>2. "send_end" \in Places /\ "none" \in Args
    BY Words DEF Places
  <2>3. /\ StacksOK' /\ place'[SendThread] = "send_end" /\ arg'[SendThread] = "none"
        /\ rest'[SendThread] = rest[SendThread] /\ Others(SendThread)
    BY <1>1, <2>1, <2>2, Goes, TheThreads
  <2> QED BY <2>3, TheOthers DEF se, seArg, seRest
<1>3. /\ told' = told
      /\ UNCHANGED <<active, dataActive, encoders, ending, reconnecting, reconnectStop,
                      reconnectActive, reconnectThread, retries, stoppingEvent, signals, connecting,
                      streamActive, stopEvent, budget, calm, delay, announced>>
  BY <1>1, Undelayed DEF SendStops, captureVars, hookVars, reconnectVars, streamVars, told
<1>8. stopEvent
  BY DEF SendStops, MustStop
<1>4. Base' /\ Truths'
  <2>1. Base'
    BY <1>1, <1>2, <1>3, <1>8 DEF Base, StacksOK
  <2>2. Truths'
    BY <1>3 DEF Truths
  <2> QED BY <2>1, <2>2
<1>5. Stacked'
  <2>1. SendShape'
    BY <1>1, <1>2, <1>3, <1>8 DEF Stacked, SendShape
  <2> QED BY <1>2, <1>3, <2>1, SameStacked DEF Stacked
<1>6. Control'
  BY <1>1, <1>2, <1>3, <1>8, TheLast DEF Control, Flags, Capture, Turns, StopFlag, UserStops, StopResolved, UserStarts, SessionOpen,
      InSession, Fronts, Driven
<1>7. Kinds'
  BY <1>1, <1>2, <1>3, <1>8 DEF Kinds, NoLoss, NoStop, Calm, CalmThread, Control, Flags, Capture, Turns, StopFlag, UserStops
<1>t. Tale'
  BY <1>1, <1>2, <1>3, <1>8, TheLast DEF Tale, Live, Control, Turns, UserStarts, Fronts
<1> QED BY <1>4, <1>5, <1>6, <1>7, <1>t

\* The connection is lost.
LEMMA SendFailsKeeps ==
    ASSUME RtmpInv, SendFails(SendThread), UNCHANGED calm, LateLoss
    PROVE  RtmpInv'
<1> USE DEF RtmpInv
<1>1. se = "send_loop" /\ StacksOK /\ ~Ended(SendThread)
  BY Idle, TheThreads DEF SendFails, Base, StacksOK, Places, At, Ended, se
<1>2. StacksOK' /\ se' = "send_end" /\ seArg' = "none" /\ seRest' = seRest /\ SendOnly
  <2>1. GoOn(SendThread, <<Frame("send_end", "none")>>)
    BY <1>1 DEF SendFails, Do
  <2>2. "send_end" \in Places /\ "none" \in Args
    BY Words DEF Places
  <2>3. /\ StacksOK' /\ place'[SendThread] = "send_end" /\ arg'[SendThread] = "none"
        /\ rest'[SendThread] = rest[SendThread] /\ Others(SendThread)
    BY <1>1, <2>1, <2>2, Goes, TheThreads
  <2> QED BY <2>3, TheOthers DEF se, seArg, seRest
<1>3. /\ told' = told
      /\ UNCHANGED <<active, dataActive, encoders, ending, reconnecting, reconnectStop,
                      reconnectActive, reconnectThread, retries, stoppingEvent, signals, connecting,
                      streamActive, stopEvent, calm, delay, announced>>
  BY <1>1, Undelayed DEF SendFails, captureVars, hookVars, reconnectVars, streamVars, told
<1>8. co \in {"idle", "connect_exit"} /\ encoders
  BY Idle, TheThreads, Undelayed DEF SendFails, Feeds, co, StacksOK, Base, Places
<1>9. /\ budget' \in [calm : BOOLEAN, starts : Nat, stops : Nat, forces : Nat,
                          drops : Nat, refused : Nat, delay : Modes]
      /\ \A v \in {"starts", "stops", "forces", "drops", "refused"} :
            budget[v] = 0 => budget'[v] = 0
      /\ budget["drops"] # 0
  BY Spends DEF SendFails
<1>10. calm =>
          /\ ui = "idle" \/ (ui = "stop_join" /\ co # "idle")
          /\ co \in {"idle", "try_connect"} /\ en = "idle"
          /\ \A r \in Reconnectors : place[r] \in {"idle", "reconnect_wait"}
  BY Waits, TheThreads, ThreadsDiffer DEF SendFails, Named
<1>4. Base' /\ Truths'
  <2>1. Base'
    BY <1>1, <1>2, <1>3, <1>8, <1>9, <1>10 DEF Base, StacksOK
  <2>2. Truths'
    BY <1>3 DEF Truths
  <2> QED BY <2>1, <2>2
<1>5. Stacked'
  <2>1. SendShape'
    BY <1>1, <1>2, <1>3, <1>8, <1>9, <1>10 DEF Stacked, SendShape
  <2> QED BY <1>2, <1>3, <2>1, SameStacked DEF Stacked
<1>6. Control'
  <2>1. Flags'
    BY <1>1, <1>2, <1>3, <1>8, <1>9, <1>10 DEF Control, Flags
  <2>2. Capture'
    BY <1>1, <1>2, <1>3, <1>8, <1>9, <1>10 DEF Control, Capture
  <2>3. Turns'
    BY <1>1, <1>2, <1>3, <1>8, <1>9, <1>10 DEF Control, Turns
  <2>4. StopFlag'
    BY <1>1, <1>2, <1>3, <1>8, <1>9, <1>10 DEF Control, StopFlag
  <2>5. UserStops'
    BY <1>1, <1>2, <1>3, <1>8, <1>9, <1>10 DEF Control, UserStops, Flags, Capture, Turns, StopFlag, StopResolved, UserStarts, SessionOpen,
        InSession, Fronts, Driven, Kinds, NoLoss, NoStop, Calm, CalmThread
  <2>6. StopResolved'
    BY <1>1, <1>2, <1>3, <1>8, <1>9, <1>10 DEF Control, StopResolved
  <2>7. UserStarts'
    BY <1>1, <1>2, <1>3, <1>8, <1>9, <1>10 DEF Control, UserStarts
  <2>8. SessionOpen'
    BY <1>1, <1>2, <1>3, <1>8, <1>9, <1>10 DEF Control, SessionOpen, InSession
  <2>9. Fronts'
    BY <1>1, <1>2, <1>3, <1>8, <1>9, <1>10 DEF Control, Fronts
  <2>10. Driven'
    BY <1>1, <1>2, <1>3, <1>8, <1>9, <1>10, TheLast DEF Control, Driven
  <2> QED BY <2>1, <2>2, <2>3, <2>4, <2>5, <2>6, <2>7, <2>8, <2>9, <2>10 DEF Control
<1>7. Kinds'
  BY <1>1, <1>2, <1>3, <1>8, <1>9, <1>10 DEF Kinds, NoLoss, NoStop, Calm, CalmThread, Control, Flags, Capture, Turns, StopFlag, UserStops,
      StopResolved, UserStarts, SessionOpen, InSession, Fronts, Driven
<1>t. Tale'
  BY <1>1, <1>2, <1>3, <1>8, <1>9, <1>10, TheLast DEF Tale, Live, Control, Turns, UserStarts, Fronts
<1> QED BY <1>4, <1>5, <1>6, <1>7, <1>t

\* The stream was stopped.
LEMMA SendEndsStopped ==
    ASSUME RtmpInv, SendEnd(SendThread), UNCHANGED calm, stopEvent
    PROVE  RtmpInv'
<1> USE DEF RtmpInv
<1>1. se = "send_end" /\ StacksOK /\ ~Ended(SendThread)
  BY Idle, TheThreads DEF SendEnd, Base, StacksOK, Places, At, Ended, se
<1>2. StacksOK' /\ se' = "end_capture" /\ seArg' = TRUE /\ seRest' = ThenReset /\ SendOnly
  <2>1. GoOnTwice(SendThread, "end_capture", TRUE, "send_reset", "none")
    BY <1>1 DEF SendEnd, Do, GoOnTwice
  <2>2. seRest = <<>>
    BY <1>1 DEF Stacked, SendShape
  <2>3. "end_capture" \in Places /\ "send_reset" \in Places /\ TRUE \in Args /\ "none" \in Args
    BY Words DEF Places
  <2>4. <<Frame("send_reset", "none")>> \o <<>> = ThenReset
    BY Prefixed DEF Do
  <2>5. SendThread \in Threads
    BY TheThreads
  <2>6. /\ StacksOK' /\ place'[SendThread] = "end_capture" /\ arg'[SendThread] = TRUE
        /\ rest'[SendThread] = <<Frame("send_reset", "none")>> \o rest[SendThread] /\ Others(SendThread)
    BY <1>1, <2>1, <2>3, <2>5, GoesTwice, ZenonT(40)
  <2> QED BY <2>2, <2>4, <2>6, TheOthers DEF se, seArg, seRest
<1>3. /\ told' = told
      /\ UNCHANGED <<active, dataActive, encoders, ending, reconnecting, reconnectStop,
                      reconnectActive, reconnectThread, retries, stoppingEvent, signals, connecting,
                      streamActive, stopEvent, budget, calm, delay, announced>>
  BY <1>1, Undelayed DEF SendEnd, captureVars, hookVars, reconnectVars, streamVars, told
<1>4. Base' /\ Truths'
  <2>1. Base'
    BY <1>1, <1>2, <1>3 DEF Base, StacksOK
  <2>2. Truths'
    BY <1>3 DEF Truths
  <2> QED BY <2>1, <2>2
<1>5. Stacked'
  <2>1. SendShape'
    BY <1>1, <1>2, <1>3 DEF Stacked, SendShape
  <2> QED BY <1>2, <1>3, <2>1, SameStacked DEF Stacked
<1>6. Control'
  BY <1>1, <1>2, <1>3, TheLast DEF Control, Flags, Capture, Turns, StopFlag, UserStops, StopResolved, UserStarts, SessionOpen,
      InSession, Fronts, Driven
<1>7. Kinds'
  BY <1>1, <1>2, <1>3 DEF Kinds, NoLoss, NoStop, Calm, CalmThread, Control, Flags, Capture, Turns
<1>t. Tale'
  BY <1>1, <1>2, <1>3, TheLast DEF Tale, Live, Control, Turns, UserStarts, Fronts
<1> QED BY <1>4, <1>5, <1>6, <1>7, <1>t

\* The connection was lost.
LEMMA SendEndsLost ==
    ASSUME RtmpInv, SendEnd(SendThread), UNCHANGED calm, ~stopEvent
    PROVE  RtmpInv'
<1> USE DEF RtmpInv
<1>1. se = "send_end" /\ StacksOK /\ ~Ended(SendThread)
  BY Idle, TheThreads DEF SendEnd, Base, StacksOK, Places, At, Ended, se
<1>2. StacksOK' /\ se' = "signal_stop" /\ seArg' = "disconnected" /\ seRest' = ThenReset /\ SendOnly
  <2>1. GoOnTwice(SendThread, "signal_stop", "disconnected", "send_reset", "none")
    BY <1>1 DEF SendEnd, Do, GoOnTwice
  <2>2. seRest = <<>>
    BY <1>1 DEF Stacked, SendShape
  <2>3. "signal_stop" \in Places /\ "send_reset" \in Places /\ "disconnected" \in Args /\ "none" \in Args
    BY Words DEF Places
  <2>4. <<Frame("send_reset", "none")>> \o <<>> = ThenReset
    BY Prefixed DEF Do
  <2>5. SendThread \in Threads
    BY TheThreads
  <2>6. /\ StacksOK' /\ place'[SendThread] = "signal_stop" /\ arg'[SendThread] = "disconnected"
        /\ rest'[SendThread] = <<Frame("send_reset", "none")>> \o rest[SendThread] /\ Others(SendThread)
    BY <1>1, <2>1, <2>3, <2>5, GoesTwice
  <2> QED BY <2>2, <2>4, <2>6, TheOthers DEF se, seArg, seRest
<1>3. /\ told' = told
      /\ UNCHANGED <<active, dataActive, encoders, ending, reconnecting, reconnectStop,
                      reconnectActive, reconnectThread, retries, stoppingEvent, signals, connecting,
                      streamActive, stopEvent, budget, calm, delay, announced>>
  BY <1>1, Undelayed DEF SendEnd, captureVars, hookVars, reconnectVars, streamVars, told
<1>4. Base' /\ Truths'
  <2>1. Base'
    BY <1>1, <1>2, <1>3 DEF Base, StacksOK
  <2>2. Truths'
    BY <1>3 DEF Truths
  <2> QED BY <2>1, <2>2
<1>5. Stacked'
  <2>1. SendShape'
    BY <1>1, <1>2, <1>3 DEF Stacked, SendShape
  <2> QED BY <1>2, <1>3, <2>1, SameStacked DEF Stacked
<1>6. Control'
  BY <1>1, <1>2, <1>3, TheLast DEF Control, Flags, Capture, Turns, StopFlag, UserStops, StopResolved, UserStarts, SessionOpen,
      InSession, Fronts, Driven
<1>7. Kinds'
  BY <1>1, <1>2, <1>3 DEF Kinds, NoLoss, NoStop, Calm, CalmThread
<1>t. Tale'
  BY <1>1, <1>2, <1>3, TheLast DEF Tale, Live, Control, Turns, UserStarts, Fronts
<1> QED BY <1>4, <1>5, <1>6, <1>7, <1>t

\* The output reconnects.
LEMMA SendWillRetry ==
    ASSUME RtmpInv, SignalStop(SendThread), UNCHANGED <<streamVars, budget, calm>>,
           CanReconnect("disconnected")
    PROVE  RtmpInv'
<1> USE DEF RtmpInv
<1>1. se = "signal_stop" /\ StacksOK /\ ~Ended(SendThread)
  BY Idle, TheThreads DEF SignalStop, Base, StacksOK, Places, At, Ended, se
<1>8. seArg = "disconnected" /\ Arg(SendThread) = seArg
  BY <1>1, Idle, TheThreads DEF Stacked, SendShape, seArg
<1>2. StacksOK' /\ se' = "end_capture" /\ seArg' = FALSE /\ seRest' = ThenReconnectReset /\ SendOnly
  <2>1. GoOnTwice(SendThread, "end_capture", FALSE, "reconnect", "none")
    BY <1>1, <1>8 DEF SignalStop, Do, GoOnTwice
  <2>2. seRest = ThenReset
    BY <1>1 DEF Stacked, SendShape
  <2>3. "end_capture" \in Places /\ "reconnect" \in Places /\ FALSE \in Args /\ "none" \in Args
    BY Words DEF Places
  <2>4. <<Frame("reconnect", "none")>> \o ThenReset = ThenReconnectReset
    BY PendingTwo DEF Do
  <2>5. SendThread \in Threads
    BY TheThreads
  <2>6. /\ StacksOK' /\ place'[SendThread] = "end_capture" /\ arg'[SendThread] = FALSE
        /\ rest'[SendThread] = <<Frame("reconnect", "none")>> \o rest[SendThread] /\ Others(SendThread)
    BY <1>1, <2>1, <2>3, <2>5, GoesTwice, ZenonT(40)
  <2> QED BY <2>2, <2>4, <2>6, TheOthers DEF se, seArg, seRest
<1>3. /\ told' = told
      /\ UNCHANGED <<active, dataActive, encoders, ending, reconnecting, reconnectStop,
                      reconnectActive, reconnectThread, retries, stoppingEvent, signals, connecting,
                      streamActive, stopEvent, budget, calm, delay, announced>>
  BY <1>1, Undelayed, <1>8 DEF SignalStop, captureVars, hookVars, reconnectVars, streamVars, told
<1>4. Base' /\ Truths'
  <2>1. Base'
    BY <1>1, <1>2, <1>3, <1>8 DEF Base, StacksOK
  <2>2. Truths'
    BY <1>3 DEF Truths
  <2> QED BY <2>1, <2>2
<1>5. Stacked'
  <2>1. SendShape'
    BY <1>1, <1>2, <1>3, <1>8 DEF Stacked, SendShape
  <2> QED BY <1>2, <1>3, <2>1, SameStacked DEF Stacked
<1>6. Control'
  BY <1>1, <1>2, <1>3, <1>8, TheLast DEF Control, Flags, Capture, Turns, StopFlag, UserStops, StopResolved, UserStarts, SessionOpen,
      InSession, Fronts, Driven
<1>7. Kinds'
  BY <1>1, <1>2, <1>3, <1>8 DEF Kinds, NoLoss, NoStop, Calm, CalmThread
<1>t. Tale'
  BY <1>1, <1>2, <1>3, <1>8, TheLast DEF Tale, Live, Control, Turns, UserStarts, Fronts
<1> QED BY <1>4, <1>5, <1>6, <1>7, <1>t

\* Nothing is to be retried.
LEMMA SendWillNotRetry ==
    ASSUME RtmpInv, SignalStop(SendThread), UNCHANGED <<streamVars, budget, calm>>,
           ~CanReconnect("disconnected")
    PROVE  RtmpInv'
<1> USE DEF RtmpInv
<1>1. se = "signal_stop" /\ StacksOK /\ ~Ended(SendThread)
  BY Idle, TheThreads DEF SignalStop, Base, StacksOK, Places, At, Ended, se
<1>8. seArg = "disconnected" /\ Arg(SendThread) = seArg
  BY <1>1, Idle, TheThreads DEF Stacked, SendShape, seArg
<1>2. StacksOK' /\ se' = "end_capture" /\ seArg' = TRUE /\ seRest' = seRest /\ SendOnly
  <2>1. GoOn(SendThread, <<Frame("end_capture", TRUE)>>)
    BY <1>1, <1>8 DEF SignalStop, Do
  <2>2. "end_capture" \in Places /\ TRUE \in Args
    BY Words, <1>8 DEF Places
  <2>3. /\ StacksOK' /\ place'[SendThread] = "end_capture" /\ arg'[SendThread] = TRUE
        /\ rest'[SendThread] = rest[SendThread] /\ Others(SendThread)
    BY <1>1, <2>1, <2>2, Goes, TheThreads
  <2> QED BY <2>3, TheOthers DEF se, seArg, seRest
<1>3. /\ reconnecting' = FALSE
      /\ told' = told
      /\ UNCHANGED <<active, dataActive, encoders, ending, reconnectStop, reconnectActive,
                      reconnectThread, retries, stoppingEvent, signals, connecting, streamActive,
                      stopEvent, budget, calm, delay, announced>>
  BY <1>1, Undelayed, <1>8 DEF SignalStop, captureVars, hookVars, reconnectVars, streamVars, told
<1>9. co \in {"idle", "connect_exit"}
  BY <1>1 DEF Control, Turns
<1>10. ~reconnecting
  BY DEF CanReconnect
<1>4. Base' /\ Truths'
  <2>1. Base'
    BY <1>1, <1>2, <1>3, <1>8, <1>9, <1>10 DEF Base, StacksOK
  <2>2. Truths'
    BY <1>3 DEF Truths
  <2> QED BY <2>1, <2>2
<1>5. Stacked'
  <2>1. ConnectShape'
    BY <1>1, <1>2, <1>3, <1>8, <1>9, <1>10 DEF Stacked, ConnectShape
  <2>2. SendShape'
    BY <1>1, <1>2, <1>3, <1>8, <1>9, <1>10 DEF Stacked, SendShape
  <2> QED BY <1>2, <1>3, <2>1, <2>2, SameStacked DEF Stacked
<1>6. Control'
  BY <1>1, <1>2, <1>3, <1>8, <1>9, <1>10, TheLast DEF Control, Flags, Capture, Turns, StopFlag, UserStops, StopResolved, UserStarts, SessionOpen,
      InSession, Fronts, Driven
<1>7. Kinds'
  BY <1>1, <1>2, <1>3, <1>8, <1>9, <1>10 DEF Kinds, NoLoss, NoStop, Calm, CalmThread
<1>t. Tale'
  BY <1>1, <1>2, <1>3, <1>8, <1>9, <1>10, TheLast DEF Tale, Live, Control, Turns, UserStarts, Fronts
<1> QED BY <1>4, <1>5, <1>6, <1>7, <1>t

\* There is a capture to end.
LEMMA SendEndsCapture ==
    ASSUME RtmpInv, EndCapture(SendThread), UNCHANGED <<streamVars, budget, calm>>, dataActive
    PROVE  RtmpInv'
<1> USE DEF RtmpInv
<1>1. se = "end_capture" /\ StacksOK /\ ~Ended(SendThread)
  BY Idle, TheThreads DEF EndCapture, Base, StacksOK, Places, At, Ended, se
<1>8. Arg(SendThread) = seArg
  BY <1>1, Idle, TheThreads DEF seArg
<1>9. active
  BY <1>1 DEF Control, Capture, Turns
<1>10. ~StartsAgain /\ ~delay.active /\ seArg \in Args
  BY <1>1, Undelayed, Words DEF StartsAgain, Stacked, SendShape
<1>2. StacksOK' /\ se' = "take_capture" /\ seArg' = seArg /\ seRest' = seRest /\ SendOnly
  <2>1. GoOn(SendThread, <<Frame("take_capture", seArg)>>)
    BY <1>1, <1>8, <1>9, <1>10 DEF EndCapture, Do
  <2>2. "take_capture" \in Places /\ seArg \in Args
    BY Words, <1>8, <1>9, <1>10 DEF Places
  <2>3. /\ StacksOK' /\ place'[SendThread] = "take_capture" /\ arg'[SendThread] = seArg
        /\ rest'[SendThread] = rest[SendThread] /\ Others(SendThread)
    BY <1>1, <2>1, <2>2, Goes, TheThreads
  <2> QED BY <2>3, TheOthers DEF se, seArg, seRest
<1>3. /\ told' = told
      /\ UNCHANGED <<active, dataActive, encoders, ending, reconnecting, reconnectStop,
                      reconnectActive, reconnectThread, retries, stoppingEvent, signals, connecting,
                      streamActive, stopEvent, budget, calm, delay, announced>>
  BY <1>1, Undelayed, <1>8, <1>9, <1>10 DEF EndCapture, captureVars, hookVars, reconnectVars, streamVars, told
<1>4. Base' /\ Truths'
  <2>1. Base'
    BY <1>1, <1>2, <1>3, <1>8, <1>9, <1>10 DEF Base, StacksOK
  <2>2. Truths'
    BY <1>3 DEF Truths
  <2> QED BY <2>1, <2>2
<1>5. Stacked'
  <2>1. SendShape'
    BY <1>1, <1>2, <1>3, <1>8, <1>9, <1>10 DEF Stacked, SendShape
  <2> QED BY <1>2, <1>3, <2>1, SameStacked DEF Stacked
<1>6. Control'
  BY <1>1, <1>2, <1>3, <1>8, <1>9, <1>10, TheLast DEF Control, Flags, Capture, Turns, StopFlag, UserStops, StopResolved, UserStarts, SessionOpen,
      InSession, Fronts, Driven
<1>7. Kinds'
  BY <1>1, <1>2, <1>3, <1>8, <1>9, <1>10 DEF Kinds, NoLoss, NoStop, Calm, CalmThread
<1>t. Tale'
  BY <1>1, <1>2, <1>3, <1>8, <1>9, <1>10, TheLast DEF Tale, Live, Control, Turns, UserStarts, Fronts
<1> QED BY <1>4, <1>5, <1>6, <1>7, <1>t

\* Nothing was captured; the user is told of the end.
LEMMA SendTellsTheEnd ==
    ASSUME RtmpInv, EndCapture(SendThread), UNCHANGED <<streamVars, budget, calm>>, ~dataActive
    PROVE  RtmpInv'
<1> USE DEF RtmpInv
<1>1. se = "end_capture" /\ StacksOK /\ ~Ended(SendThread)
  BY Idle, TheThreads DEF EndCapture, Base, StacksOK, Places, At, Ended, se
<1>8. Arg(SendThread) = seArg
  BY <1>1, Idle, TheThreads DEF seArg
<1>9. ~(active /\ dataActive)
  OBVIOUS
<1>10. seArg = TRUE
  BY <1>1 DEF Stacked, SendShape, Control, Capture
<1>2. StacksOK' /\ se' = "send_reset" /\ seRest' = <<>> /\ SendOnly
  <2>1. Return(SendThread)
    BY <1>1, <1>8, <1>9, <1>10 DEF EndCapture
  <2>2. seRest = ThenReset
    BY <1>1, <1>10 DEF Stacked, SendShape
  <2> QED BY <1>1, <2>1, <2>2, Returns, Pending, TheThreads, TheOthers DEF se, seArg, seRest
<1>3. /\ stoppingEvent' = TRUE
      /\ signals' \in Seq(Told) /\ told' = "stop"
      /\ UNCHANGED <<active, dataActive, encoders, ending, reconnecting, reconnectStop,
                      reconnectActive, reconnectThread, retries, connecting, streamActive,
                      stopEvent, budget, calm, delay, announced>>
  <2>1. Signal("stop")
    BY <1>1, <1>8, <1>9, <1>10 DEF EndCapture, captureVars, hookVars, reconnectVars, streamVars, StopIsOver
  <2>2. "stop" \in Told
    BY DEF Told
  <2>3. signals' \in Seq(Told) /\ told' = "stop"
    BY <2>1, <2>2, Tells DEF Base
  <2> QED BY <1>1, <2>1, <2>3, Undelayed, <1>8, <1>9, <1>10 DEF EndCapture, captureVars, hookVars, reconnectVars, streamVars, StopIsOver
<1>11. ~reconnecting
  BY <1>1, TheLast DEF Control, Driven, Fronts, Turns, Kinds, NoLoss, NoStop, Calm, CalmThread
<1>4. Base' /\ Truths'
  <2>1. Base'
    BY <1>1, <1>2, <1>3, <1>8, <1>9, <1>10, <1>11 DEF Base, StacksOK
  <2>2. Truths'
    BY <1>3 DEF Truths
  <2> QED BY <2>1, <2>2
<1>5. Stacked'
  <2>1. SendShape'
    BY <1>1, <1>2, <1>3, <1>8, <1>9, <1>10, <1>11 DEF Stacked, SendShape
  <2> QED BY <1>2, <1>3, <2>1, SameStacked DEF Stacked
<1>6. Control'
  BY <1>1, <1>2, <1>3, <1>8, <1>9, <1>10, <1>11, TheLast DEF Control, Flags, Capture, Turns, StopFlag, UserStops, StopResolved, UserStarts, SessionOpen,
      InSession, Fronts, Driven
<1>7. Kinds'
  BY <1>1, <1>2, <1>3, <1>8, <1>9, <1>10, <1>11 DEF Kinds, NoLoss, NoStop, Calm, CalmThread
<1>t. Tale'
  BY <1>1, <1>2, <1>3, <1>8, <1>9, <1>10, <1>11, TheLast DEF Tale, Live, Control, Turns, UserStops, UserStarts, Fronts, SessionOpen, InSession, Capture,
      Driven
<1> QED BY <1>4, <1>5, <1>6, <1>7, <1>t

\* The capture is over.
LEMMA SendTakesCapture ==
    ASSUME RtmpInv, TakeCapture(SendThread), UNCHANGED <<streamVars, budget, calm>>
    PROVE  RtmpInv'
<1> USE DEF RtmpInv
<1>1. se = "take_capture" /\ StacksOK /\ ~Ended(SendThread)
  BY Idle, TheThreads DEF TakeCapture, Base, StacksOK, Places, At, Ended, se
<1>8. Arg(SendThread) = seArg
  BY <1>1, Idle, TheThreads DEF seArg
<1>9. seArg \in Args
  BY <1>1, Words DEF Stacked, SendShape
<1>2. StacksOK' /\ se' = "join_end" /\ seArg' = seArg /\ seRest' = seRest /\ SendOnly
  <2>1. GoOn(SendThread, <<Frame("join_end", seArg)>>)
    BY <1>1, <1>8, <1>9 DEF TakeCapture, Do
  <2>2. "join_end" \in Places /\ seArg \in Args
    BY Words, <1>8, <1>9 DEF Places
  <2>3. /\ StacksOK' /\ place'[SendThread] = "join_end" /\ arg'[SendThread] = seArg
        /\ rest'[SendThread] = rest[SendThread] /\ Others(SendThread)
    BY <1>1, <2>1, <2>2, Goes, TheThreads
  <2> QED BY <2>3, TheOthers DEF se, seArg, seRest
<1>3. /\ dataActive' = FALSE
      /\ told' = told
      /\ UNCHANGED <<active, encoders, ending, reconnecting, reconnectStop, reconnectActive,
                      reconnectThread, retries, stoppingEvent, signals, connecting, streamActive,
                      stopEvent, budget, calm, delay, announced>>
  BY <1>1, Undelayed DEF TakeCapture, captureVars, hookVars, reconnectVars, streamVars, told
<1>4. Base' /\ Truths'
  <2>1. Base'
    BY <1>1, <1>2, <1>3, <1>8, <1>9 DEF Base, StacksOK
  <2>2. Truths'
    BY <1>3 DEF Truths
  <2> QED BY <2>1, <2>2
<1>5. Stacked'
  <2>1. SendShape'
    BY <1>1, <1>2, <1>3, <1>8, <1>9 DEF Stacked, SendShape
  <2> QED BY <1>2, <1>3, <2>1, SameStacked DEF Stacked
<1>6. Control'
  BY <1>1, <1>2, <1>3, <1>8, <1>9, TheLast DEF Control, Flags, Capture, Turns, StopFlag, UserStops, StopResolved, UserStarts, SessionOpen,
      InSession, Fronts, Driven
<1>7. Kinds'
  BY <1>1, <1>2, <1>3, <1>8, <1>9 DEF Kinds, NoLoss, NoStop, Calm, CalmThread
<1>t. Tale'
  BY <1>1, <1>2, <1>3, <1>8, <1>9, TheLast DEF Tale, Live, Control, Turns, UserStarts, Fronts
<1> QED BY <1>4, <1>5, <1>6, <1>7, <1>t

\* The user is told that the stream has stopped.
LEMMA SendTellsTheStop ==
    ASSUME RtmpInv, SignalStopped(SendThread), UNCHANGED <<streamVars, budget, calm>>, seArg = TRUE
    PROVE  RtmpInv'
<1> USE DEF RtmpInv
<1>1. se = "signal_stopped" /\ StacksOK /\ ~Ended(SendThread)
  BY Idle, TheThreads DEF SignalStopped, Base, StacksOK, Places, At, Ended, se
<1>8. Arg(SendThread) = seArg
  BY <1>1, Idle, TheThreads DEF seArg
<1>2. StacksOK' /\ se' = "send_reset" /\ seRest' = <<>> /\ SendOnly
  <2>1. Return(SendThread)
    BY <1>1, <1>8 DEF SignalStopped
  <2>2. seRest = ThenReset
    BY <1>1, <1>8 DEF Stacked, SendShape
  <2> QED BY <1>1, <2>1, <2>2, Returns, Pending, TheThreads, TheOthers DEF se, seArg, seRest
<1>3. /\ signals' \in Seq(Told) /\ told' = "stop"
      /\ UNCHANGED <<active, dataActive, encoders, ending, reconnecting, reconnectStop,
                      reconnectActive, reconnectThread, retries, stoppingEvent, connecting,
                      streamActive, stopEvent, budget, calm, delay, announced>>
  <2>1. Signal("stop")
    BY <1>1, <1>8 DEF SignalStopped, captureVars, hookVars, reconnectVars, streamVars
  <2>2. "stop" \in Told
    BY DEF Told
  <2>3. signals' \in Seq(Told) /\ told' = "stop"
    BY <2>1, <2>2, Tells DEF Base
  <2> QED BY <1>1, <2>1, <2>3, Undelayed, <1>8 DEF SignalStopped, captureVars, hookVars, reconnectVars, streamVars
<1>11. ~reconnecting
  BY <1>1, TheLast DEF Control, Driven, Fronts, Turns, Kinds, NoLoss, NoStop, Calm, CalmThread
<1>4. Base' /\ Truths'
  <2>1. Base'
    BY <1>1, <1>2, <1>3, <1>8, <1>11 DEF Base, StacksOK
  <2>2. Truths'
    BY <1>3 DEF Truths
  <2> QED BY <2>1, <2>2
<1>5. Stacked'
  <2>1. SendShape'
    BY <1>1, <1>2, <1>3, <1>8, <1>11 DEF Stacked, SendShape
  <2> QED BY <1>2, <1>3, <2>1, SameStacked DEF Stacked
<1>6. Control'
  BY <1>1, <1>2, <1>3, <1>8, <1>11, TheLast DEF Control, Flags, Capture, Turns, StopFlag, UserStops, StopResolved, UserStarts, SessionOpen,
      InSession, Fronts, Driven
<1>7. Kinds'
  BY <1>1, <1>2, <1>3, <1>8, <1>11 DEF Kinds, NoLoss, NoStop, Calm, CalmThread
<1>t. Tale'
  BY <1>1, <1>2, <1>3, <1>8, <1>11, TheLast DEF Tale, Live, Control, Turns, UserStops, UserStarts, Fronts, SessionOpen, InSession, Capture,
      Driven
<1> QED BY <1>4, <1>5, <1>6, <1>7, <1>t

\* The capture ended because the connection was lost.
LEMMA SendTellsNothing ==
    ASSUME RtmpInv, SignalStopped(SendThread), UNCHANGED <<streamVars, budget, calm>>, seArg = FALSE
    PROVE  RtmpInv'
<1> USE DEF RtmpInv
<1>1. se = "signal_stopped" /\ StacksOK /\ ~Ended(SendThread)
  BY Idle, TheThreads DEF SignalStopped, Base, StacksOK, Places, At, Ended, se
<1>8. Arg(SendThread) = seArg
  BY <1>1, Idle, TheThreads DEF seArg
<1>2. StacksOK' /\ se' = "reconnect" /\ seRest' = ThenReset /\ SendOnly
  <2>1. Return(SendThread)
    BY <1>1, <1>8 DEF SignalStopped
  <2>2. seRest = ThenReconnectReset
    BY <1>1, <1>8 DEF Stacked, SendShape
  <2> QED BY <1>1, <2>1, <2>2, Returns, PendingTwo, TheThreads, TheOthers DEF se, seArg, seRest
<1>3. /\ told' = told
      /\ UNCHANGED <<active, dataActive, encoders, ending, reconnecting, reconnectStop,
                      reconnectActive, reconnectThread, retries, stoppingEvent, signals, connecting,
                      streamActive, stopEvent, budget, calm, delay, announced>>
  BY <1>1, Undelayed, <1>8 DEF SignalStopped, captureVars, hookVars, reconnectVars, streamVars, told
<1>4. Base' /\ Truths'
  <2>1. Base'
    BY <1>1, <1>2, <1>3, <1>8 DEF Base, StacksOK
  <2>2. Truths'
    BY <1>3 DEF Truths
  <2> QED BY <2>1, <2>2
<1>5. Stacked'
  <2>1. SendShape'
    BY <1>1, <1>2, <1>3, <1>8 DEF Stacked, SendShape
  <2> QED BY <1>2, <1>3, <2>1, SameStacked DEF Stacked
<1>6. Control'
  BY <1>1, <1>2, <1>3, <1>8, TheLast DEF Control, Flags, Capture, Turns, StopFlag, UserStops, StopResolved, UserStarts, SessionOpen,
      InSession, Fronts, Driven
<1>7. Kinds'
  BY <1>1, <1>2, <1>3, <1>8 DEF Kinds, NoLoss, NoStop, Calm, CalmThread
<1>t. Tale'
  BY <1>1, <1>2, <1>3, <1>8, TheLast DEF Tale, Live, Control, Turns, UserStarts, Fronts
<1> QED BY <1>4, <1>5, <1>6, <1>7, <1>t

\* The user has stopped the output that reconnects.
LEMMA SendIsStopped ==
    ASSUME RtmpInv, Reconnect(SendThread), UNCHANGED <<streamVars, budget, calm>>, StoppedByUser
    PROVE  RtmpInv'
<1> USE DEF RtmpInv
<1>1. se = "reconnect" /\ StacksOK /\ ~Ended(SendThread)
  BY Idle, TheThreads DEF Reconnect, Base, StacksOK, Places, At, Ended, se
<1>2. StacksOK' /\ se' = "send_reset" /\ seRest' = <<>> /\ SendOnly
  <2>1. Return(SendThread)
    BY <1>1 DEF Reconnect
  <2>2. seRest = ThenReset
    BY <1>1 DEF Stacked, SendShape
  <2> QED BY <1>1, <2>1, <2>2, Returns, Pending, TheThreads, TheOthers DEF se, seArg, seRest
<1>3. /\ reconnecting' = FALSE
      /\ told' = told
      /\ UNCHANGED <<active, dataActive, encoders, ending, reconnectStop, reconnectActive,
                      reconnectThread, retries, stoppingEvent, signals, connecting, streamActive,
                      stopEvent, budget, calm, delay, announced>>
  BY <1>1, Undelayed DEF Reconnect, captureVars, hookVars, reconnectVars, streamVars, StoppedByUser, told
<1>9. co \in {"idle", "connect_exit"}
  BY <1>1 DEF Control, Turns
<1>4. Base' /\ Truths'
  <2>1. Base'
    BY <1>1, <1>2, <1>3, <1>9 DEF Base, StacksOK
  <2>2. Truths'
    BY <1>3 DEF Truths
  <2> QED BY <2>1, <2>2
<1>5. Stacked'
  <2>1. ConnectShape'
    BY <1>1, <1>2, <1>3, <1>9 DEF Stacked, ConnectShape
  <2>2. SendShape'
    BY <1>1, <1>2, <1>3, <1>9 DEF Stacked, SendShape
  <2> QED BY <1>2, <1>3, <2>1, <2>2, SameStacked DEF Stacked
<1>6. Control'
  BY <1>1, <1>2, <1>3, <1>9, TheLast DEF Control, Flags, Capture, Turns, StopFlag, UserStops, StopResolved, UserStarts, SessionOpen,
      InSession, Fronts, Driven
<1>7. Kinds'
  BY <1>1, <1>2, <1>3, <1>9 DEF Kinds, NoLoss, NoStop, Calm, CalmThread
<1>t. Tale'
  BY <1>1, <1>2, <1>3, <1>9, TheLast DEF Tale, Live, Control, Turns, UserStarts, Fronts
<1> QED BY <1>4, <1>5, <1>6, <1>7, <1>t

\* There are no retries.
LEMMA SendIsOver ==
    ASSUME RtmpInv, Reconnect(SendThread), UNCHANGED <<streamVars, budget, calm>>, ~StoppedByUser,
           OutOfRetries
    PROVE  RtmpInv'
<1> USE DEF RtmpInv
<1>1. se = "reconnect" /\ StacksOK /\ ~Ended(SendThread)
  BY Idle, TheThreads DEF Reconnect, Base, StacksOK, Places, At, Ended, se
<1>2. StacksOK' /\ se' = "end_capture" /\ seArg' = TRUE /\ seRest' = seRest /\ SendOnly
  <2>1. GoOn(SendThread, <<Frame("end_capture", TRUE)>>)
    BY <1>1 DEF Reconnect, Do, AfterLastRetry
  <2>2. "end_capture" \in Places /\ TRUE \in Args
    BY Words DEF Places
  <2>3. /\ StacksOK' /\ place'[SendThread] = "end_capture" /\ arg'[SendThread] = TRUE
        /\ rest'[SendThread] = rest[SendThread] /\ Others(SendThread)
    BY <1>1, <2>1, <2>2, Goes, TheThreads
  <2> QED BY <2>3, TheOthers DEF se, seArg, seRest
<1>3. /\ reconnecting' = FALSE
      /\ retries' = Attempts
      /\ told' = told
      /\ UNCHANGED <<active, dataActive, encoders, ending, reconnectStop, reconnectActive,
                      reconnectThread, stoppingEvent, signals, connecting, streamActive, stopEvent,
                      budget, calm, delay, announced>>
  BY <1>1, Undelayed DEF Reconnect, captureVars, hookVars, reconnectVars, streamVars, GiveUp, told
<1>9. co \in {"idle", "connect_exit"}
  BY <1>1 DEF Control, Turns
<1>10. Attempts \in Nat
  BY DEF Attempts, Base
<1>4. Base' /\ Truths'
  <2>1. Base'
    BY <1>1, <1>2, <1>3, <1>9, <1>10 DEF Base, StacksOK, Attempts
  <2>2. Truths'
    BY <1>3 DEF Truths
  <2> QED BY <2>1, <2>2
<1>5. Stacked'
  <2>1. ConnectShape'
    BY <1>1, <1>2, <1>3, <1>9, <1>10 DEF Stacked, ConnectShape
  <2>2. SendShape'
    BY <1>1, <1>2, <1>3, <1>9, <1>10 DEF Stacked, SendShape
  <2> QED BY <1>2, <1>3, <2>1, <2>2, SameStacked DEF Stacked
<1>6. Control'
  BY <1>1, <1>2, <1>3, <1>9, <1>10, TheLast DEF Control, Flags, Capture, Turns, StopFlag, UserStops, StopResolved, UserStarts, SessionOpen,
      InSession, Fronts, Driven
<1>7. Kinds'
  BY <1>1, <1>2, <1>3, <1>9, <1>10 DEF Kinds, NoLoss, NoStop, Calm, CalmThread, StoppedByUser
<1>t. Tale'
  BY <1>1, <1>2, <1>3, <1>9, <1>10, TheLast DEF Tale, Live, Control, Turns, UserStarts, Fronts
<1> QED BY <1>4, <1>5, <1>6, <1>7, <1>t

\* There is to be another retry.
LEMMA SendWillSpawn ==
    ASSUME RtmpInv, Reconnect(SendThread), UNCHANGED <<streamVars, budget, calm>>, ~StoppedByUser,
           ~OutOfRetries, reconnecting
    PROVE  RtmpInv'
<1> USE DEF RtmpInv
<1>1. se = "reconnect" /\ StacksOK /\ ~Ended(SendThread)
  BY Idle, TheThreads DEF Reconnect, Base, StacksOK, Places, At, Ended, se
<1>2. StacksOK' /\ se' = "reconnect_spawn" /\ seArg' = "none" /\ seRest' = seRest /\ SendOnly
  <2>1. GoOn(SendThread, <<Frame("reconnect_spawn", "none")>>)
    BY <1>1 DEF Reconnect, Do
  <2>2. "reconnect_spawn" \in Places /\ "none" \in Args
    BY Words DEF Places
  <2>3. /\ StacksOK' /\ place'[SendThread] = "reconnect_spawn" /\ arg'[SendThread] = "none"
        /\ rest'[SendThread] = rest[SendThread] /\ Others(SendThread)
    BY <1>1, <2>1, <2>2, Goes, TheThreads
  <2> QED BY <2>3, TheOthers DEF se, seArg, seRest
<1>3. /\ retries' = Attempts
      /\ told' = told
      /\ UNCHANGED <<active, dataActive, encoders, ending, reconnecting, reconnectStop,
                      reconnectActive, reconnectThread, stoppingEvent, signals, connecting,
                      streamActive, stopEvent, budget, calm, delay, announced>>
  BY <1>1, Undelayed DEF Reconnect, captureVars, hookVars, reconnectVars, streamVars, StoppedByUser, told
<1>4. Base' /\ Truths'
  <2>1. Base'
    BY <1>1, <1>2, <1>3 DEF Base, StacksOK, Attempts
  <2>2. Truths'
    BY <1>3 DEF Truths
  <2> QED BY <2>1, <2>2
<1>5. Stacked'
  <2>1. SendShape'
    BY <1>1, <1>2, <1>3 DEF Stacked, SendShape
  <2> QED BY <1>2, <1>3, <2>1, SameStacked DEF Stacked
<1>6. Control'
  BY <1>1, <1>2, <1>3, TheLast DEF Control, Flags, Capture, Turns, StopFlag, UserStops, StopResolved, UserStarts, SessionOpen,
      InSession, Fronts, Driven
<1>7. Kinds'
  BY <1>1, <1>2, <1>3 DEF Kinds, NoLoss, NoStop, Calm, CalmThread, StoppedByUser
<1>t. Tale'
  BY <1>1, <1>2, <1>3, TheLast DEF Tale, Live, Control, Turns, UserStarts, Fronts
<1> QED BY <1>4, <1>5, <1>6, <1>7, <1>t

\* The first retry.
LEMMA SendWillReset ==
    ASSUME RtmpInv, Reconnect(SendThread), UNCHANGED <<streamVars, budget, calm>>, ~StoppedByUser,
           ~OutOfRetries, ~reconnecting
    PROVE  RtmpInv'
<1> USE DEF RtmpInv
<1>1. se = "reconnect" /\ StacksOK /\ ~Ended(SendThread)
  BY Idle, TheThreads DEF Reconnect, Base, StacksOK, Places, At, Ended, se
<1>2. StacksOK' /\ se' = "reconnect_reset" /\ seArg' = "none" /\ seRest' = ThenSpawnReset /\ SendOnly
  <2>1. GoOnTwice(SendThread, "reconnect_reset", "none", "reconnect_spawn", "none")
    BY <1>1 DEF Reconnect, Do, GoOnTwice
  <2>2. seRest = ThenReset
    BY <1>1 DEF Stacked, SendShape
  <2>3. "reconnect_reset" \in Places /\ "reconnect_spawn" \in Places /\ "none" \in Args /\ "none" \in Args
    BY Words DEF Places
  <2>4. <<Frame("reconnect_spawn", "none")>> \o ThenReset = ThenSpawnReset
    BY PendingTwo DEF Do
  <2>5. SendThread \in Threads
    BY TheThreads
  <2>6. /\ StacksOK' /\ place'[SendThread] = "reconnect_reset" /\ arg'[SendThread] = "none"
        /\ rest'[SendThread] = <<Frame("reconnect_spawn", "none")>> \o rest[SendThread] /\ Others(SendThread)
    BY <1>1, <2>1, <2>3, <2>5, GoesTwice
  <2> QED BY <2>2, <2>4, <2>6, TheOthers DEF se, seArg, seRest
<1>3. /\ reconnecting' = TRUE
      /\ retries' = Attempts
      /\ told' = told
      /\ UNCHANGED <<active, dataActive, encoders, ending, reconnectStop, reconnectActive,
                      reconnectThread, stoppingEvent, signals, connecting, streamActive, stopEvent,
                      budget, calm, delay, announced>>
  BY <1>1, Undelayed DEF Reconnect, captureVars, hookVars, reconnectVars, streamVars, StoppedByUser, told
<1>9. co \in {"idle", "connect_exit"}
  BY <1>1 DEF Control, Turns
<1>10. Attempts \in Nat
  BY DEF Attempts, Base
<1>4. Base' /\ Truths'
  <2>1. Base'
    BY <1>1, <1>2, <1>3, <1>9, <1>10 DEF Base, StacksOK, Attempts
  <2>2. Truths'
    BY <1>3 DEF Truths
  <2> QED BY <2>1, <2>2
<1>5. Stacked'
  <2>1. ConnectShape'
    BY <1>1, <1>2, <1>3, <1>9, <1>10 DEF Stacked, ConnectShape
  <2>2. SendShape'
    BY <1>1, <1>2, <1>3, <1>9, <1>10 DEF Stacked, SendShape
  <2> QED BY <1>2, <1>3, <2>1, <2>2, SameStacked DEF Stacked
<1>6. Control'
  BY <1>1, <1>2, <1>3, <1>9, <1>10, TheLast DEF Control, Flags, Capture, Turns, StopFlag, UserStops, StopResolved, UserStarts, SessionOpen,
      InSession, Fronts, Driven
<1>7. Kinds'
  BY <1>1, <1>2, <1>3, <1>9, <1>10 DEF Kinds, NoLoss, NoStop, Calm, CalmThread, StoppedByUser
<1>t. Tale'
  BY <1>1, <1>2, <1>3, <1>9, <1>10, TheLast DEF Tale, Live, Control, Turns, UserStarts, Fronts
<1> QED BY <1>4, <1>5, <1>6, <1>7, <1>t

\* No stop is meant for the retries to come.
LEMMA SendResets ==
    ASSUME RtmpInv, ReconnectReset(SendThread), UNCHANGED <<streamVars, budget, calm>>
    PROVE  RtmpInv'
<1> USE DEF RtmpInv
<1>1. se = "reconnect_reset" /\ StacksOK /\ ~Ended(SendThread)
  BY Idle, TheThreads DEF ReconnectReset, Base, StacksOK, Places, At, Ended, se
<1>2. StacksOK' /\ se' = "reconnect_spawn" /\ seRest' = ThenReset /\ SendOnly
  <2>1. Return(SendThread)
    BY <1>1 DEF ReconnectReset
  <2>2. seRest = ThenSpawnReset
    BY <1>1 DEF Stacked, SendShape
  <2> QED BY <1>1, <2>1, <2>2, Returns, PendingTwo, TheThreads, TheOthers DEF se, seArg, seRest
<1>3. /\ reconnectStop' = FALSE
      /\ told' = told
      /\ UNCHANGED <<active, dataActive, encoders, ending, reconnecting, reconnectActive,
                      reconnectThread, retries, stoppingEvent, signals, connecting, streamActive,
                      stopEvent, budget, calm, delay, announced>>
  BY <1>1, Undelayed DEF ReconnectReset, captureVars, hookVars, reconnectVars, streamVars, told
<1>4. Base' /\ Truths'
  <2>1. Base'
    BY <1>1, <1>2, <1>3 DEF Base, StacksOK
  <2>2. Truths'
    BY <1>3 DEF Truths
  <2> QED BY <2>1, <2>2
<1>5. Stacked'
  <2>1. SendShape'
    BY <1>1, <1>2, <1>3 DEF Stacked, SendShape
  <2> QED BY <1>2, <1>3, <2>1, SameStacked DEF Stacked
<1>6. Control'
  BY <1>1, <1>2, <1>3, TheLast DEF Control, Flags, Capture, Turns, StopFlag, UserStops, StopResolved, UserStarts, SessionOpen,
      InSession, Fronts, Driven
<1>7. Kinds'
  BY <1>1, <1>2, <1>3 DEF Kinds, NoLoss, NoStop, Calm, CalmThread, Control, Flags, Turns
<1>t. Tale'
  BY <1>1, <1>2, <1>3, TheLast DEF Tale, Live, Control, Turns, UserStarts, Fronts
<1> QED BY <1>4, <1>5, <1>6, <1>7, <1>t

\* A thread is to wait for the next retry.
LEMMA SendSpawns ==
    ASSUME RtmpInv, ReconnectSpawn(SendThread), UNCHANGED <<streamVars, budget, calm>>
    PROVE  RtmpInv'
<1> USE DEF RtmpInv
<1>1. se = "reconnect_spawn" /\ StacksOK /\ ~Ended(SendThread)
  BY Idle, TheThreads DEF ReconnectSpawn, Base, StacksOK, Places, At, Ended, se
<1>2. /\ StacksOK' /\ se' = "signal_reconnect" /\ seRest' = ThenReset
      /\ SameUi /\ SameConnect /\ SameEnd /\ place'[EncoderThread] = place[EncoderThread]
      /\ reconnectThread' = reconnectThread + 1 /\ reconnectThread \in Nat
      /\ reconnectThread' \in Reconnectors /\ place[reconnectThread'] = "idle"
      /\ place'[reconnectThread'] = "reconnect_enter" /\ rest'[reconnectThread'] = <<>>
      /\ RetryShape'
      /\ \A r \in Reconnectors \ {reconnectThread'} : SameRetry(r)
  <2>1. seRest = ThenReset
    BY <1>1 DEF Stacked, SendShape
  <2> QED BY <1>1, <2>1, SpawnsRetry, TheThreads, ThreadsDiffer
          DEF co, coArg, coRest, ui, uiArg, uiRest, se, seArg, seRest, en, enRest, Named
<1>3. /\ retries' = retries + 1
      /\ told' = told
      /\ UNCHANGED <<active, dataActive, encoders, ending, reconnecting, reconnectStop,
                      reconnectActive, stoppingEvent, signals, connecting, streamActive, stopEvent,
                      budget, calm, delay, announced>>
  BY <1>1, Undelayed DEF ReconnectSpawn, captureVars, hookVars, reconnectVars, streamVars, told
<1>8. ui \notin StopPlaces /\ reconnecting /\ ~stopEvent
  BY <1>1 DEF Stacked, SendShape, Control, UserStops, StopFlag
<1>4. Base' /\ Truths'
  <2>1. Base'
    BY <1>1, <1>2, <1>3, <1>8 DEF Base, StacksOK, Reconnectors
  <2>2. Truths'
    BY <1>3 DEF Truths
  <2> QED BY <2>1, <2>2
<1>5. Stacked'
  <2>1. SendShape'
    BY <1>1, <1>2, <1>3, <1>8 DEF Stacked, SendShape
  <2>2. RetryShape'
    BY <1>2
  <2>3. UiShape'
    BY <1>1, <1>2, <1>3, <1>8 DEF Stacked, UiShape
  <2> QED BY <1>2, <1>3, <2>1, <2>2, <2>3, SameStacked DEF Stacked
<1>6. Control'
  BY <1>1, <1>2, <1>3, <1>8, TheLast DEF Control, Flags, Capture, Turns, StopFlag, UserStops, StopResolved, UserStarts, SessionOpen,
      InSession, Fronts, Driven
<1>7. Kinds'
  BY <1>1, <1>2, <1>3, <1>8 DEF Kinds, NoLoss, NoStop, Calm, CalmThread, Control, Flags, Turns
<1>t. Tale'
  BY <1>1, <1>2, <1>3, <1>8, TheLast DEF Tale, Live, Control, Turns, UserStarts, Fronts
<1> QED BY <1>4, <1>5, <1>6, <1>7, <1>t

\* The user is told of the retry.
LEMMA SendTellsTheRetry ==
    ASSUME RtmpInv, SignalReconnect(SendThread), UNCHANGED <<streamVars, budget, calm>>
    PROVE  RtmpInv'
<1> USE DEF RtmpInv
<1>1. se = "signal_reconnect" /\ StacksOK /\ ~Ended(SendThread)
  BY Idle, TheThreads DEF SignalReconnect, Base, StacksOK, Places, At, Ended, se
<1>2. StacksOK' /\ se' = "send_reset" /\ seRest' = <<>> /\ SendOnly
  <2>1. Return(SendThread)
    BY <1>1 DEF SignalReconnect
  <2>2. seRest = ThenReset
    BY <1>1 DEF Stacked, SendShape
  <2> QED BY <1>1, <2>1, <2>2, Returns, Pending, TheThreads, TheOthers DEF se, seArg, seRest
<1>3. /\ signals' \in Seq(Told) /\ told' = "reconnect"
      /\ UNCHANGED <<active, dataActive, encoders, ending, reconnecting, reconnectStop,
                      reconnectActive, reconnectThread, retries, stoppingEvent, connecting,
                      streamActive, stopEvent, budget, calm, delay, announced>>
  <2>1. Signal("reconnect")
    BY <1>1 DEF SignalReconnect, captureVars, hookVars, reconnectVars, streamVars
  <2>2. "reconnect" \in Told
    BY DEF Told
  <2>3. signals' \in Seq(Told) /\ told' = "reconnect"
    BY <2>1, <2>2, Tells DEF Base
  <2> QED BY <1>1, <2>1, <2>3, Undelayed DEF SignalReconnect, captureVars, hookVars, reconnectVars, streamVars
<1>4. Base' /\ Truths'
  <2>1. Base'
    BY <1>1, <1>2, <1>3 DEF Base, StacksOK
  <2>2. Truths'
    BY <1>3 DEF Truths
  <2> QED BY <2>1, <2>2
<1>5. Stacked'
  <2>1. SendShape'
    BY <1>1, <1>2, <1>3 DEF Stacked, SendShape
  <2> QED BY <1>2, <1>3, <2>1, SameStacked DEF Stacked
<1>6. Control'
  BY <1>1, <1>2, <1>3, TheLast DEF Control, Flags, Capture, Turns, StopFlag, UserStops, StopResolved, UserStarts, SessionOpen,
      InSession, Fronts, Driven
<1>7. Kinds'
  BY <1>1, <1>2, <1>3 DEF Kinds, NoLoss, NoStop, Calm, CalmThread
<1>t. Tale'
  BY <1>1, <1>2, <1>3, TheLast DEF Tale, Live, Control, Turns, UserStarts, Fronts
<1> QED BY <1>4, <1>5, <1>6, <1>7, <1>t

\* The stop is forgotten.
LEMMA SendForgets ==
    ASSUME RtmpInv, SendReset(SendThread), UNCHANGED calm
    PROVE  RtmpInv'
<1> USE DEF RtmpInv
<1>1. se = "send_reset" /\ StacksOK /\ ~Ended(SendThread)
  BY Idle, TheThreads DEF SendReset, Base, StacksOK, Places, At, Ended, se
<1>2. StacksOK' /\ se' = "send_exit" /\ seArg' = "none" /\ seRest' = seRest /\ SendOnly
  <2>1. GoOn(SendThread, <<Frame("send_exit", "none")>>)
    BY <1>1 DEF SendReset, Do
  <2>2. "send_exit" \in Places /\ "none" \in Args
    BY Words DEF Places
  <2>3. /\ StacksOK' /\ place'[SendThread] = "send_exit" /\ arg'[SendThread] = "none"
        /\ rest'[SendThread] = rest[SendThread] /\ Others(SendThread)
    BY <1>1, <2>1, <2>2, Goes, TheThreads
  <2> QED BY <2>3, TheOthers DEF se, seArg, seRest
<1>3. /\ stopEvent' = FALSE
      /\ told' = told
      /\ UNCHANGED <<active, dataActive, encoders, ending, reconnecting, reconnectStop,
                      reconnectActive, reconnectThread, retries, stoppingEvent, signals, connecting,
                      streamActive, budget, calm, delay, announced>>
  BY <1>1, Undelayed DEF SendReset, captureVars, hookVars, reconnectVars, streamVars, ForgetStop, told
<1>4. Base' /\ Truths'
  <2>1. Base'
    BY <1>1, <1>2, <1>3 DEF Base, StacksOK
  <2>2. Truths'
    BY <1>3 DEF Truths
  <2> QED BY <2>1, <2>2
<1>5. Stacked'
  <2>1. SendShape'
    BY <1>1, <1>2, <1>3 DEF Stacked, SendShape
  <2> QED BY <1>2, <1>3, <2>1, SameStacked DEF Stacked
<1>6. Control'
  BY <1>1, <1>2, <1>3, TheLast DEF Control, Flags, Capture, Turns, StopFlag, UserStops, StopResolved, UserStarts, SessionOpen,
      InSession, Fronts, Driven
<1>7. Kinds'
  BY <1>1, <1>2, <1>3 DEF Kinds, NoLoss, NoStop, Calm, CalmThread
<1>t. Tale'
  BY <1>1, <1>2, <1>3, TheLast DEF Tale, Live, Control, Turns, UserStarts, Fronts
<1> QED BY <1>4, <1>5, <1>6, <1>7, <1>t

\* send_thread ends.
LEMMA SendLeaves ==
    ASSUME RtmpInv, SendExit(SendThread), UNCHANGED calm
    PROVE  RtmpInv'
<1> USE DEF RtmpInv
<1>1. se = "send_exit" /\ StacksOK /\ ~Ended(SendThread)
  BY Idle, TheThreads DEF SendExit, Base, StacksOK, Places, At, Ended, se
<1>2. StacksOK' /\ se' = "idle" /\ SendOnly
  <2>1. Return(SendThread)
    BY <1>1 DEF SendExit
  <2>2. seRest = <<>>
    BY <1>1 DEF Stacked, SendShape
  <2> QED BY <1>1, <2>1, <2>2, Returns, TheThreads, TheOthers DEF se, seArg, seRest
<1>3. /\ streamActive' = FALSE
      /\ told' = told
      /\ UNCHANGED <<active, dataActive, encoders, ending, reconnecting, reconnectStop,
                      reconnectActive, reconnectThread, retries, stoppingEvent, signals, connecting,
                      stopEvent, budget, calm, delay, announced>>
  BY <1>1, Undelayed DEF SendExit, captureVars, hookVars, reconnectVars, streamVars, told
<1>4. Base' /\ Truths'
  <2>1. Base'
    BY <1>1, <1>2, <1>3 DEF Base, StacksOK
  <2>2. Truths'
    BY <1>3 DEF Truths
  <2> QED BY <2>1, <2>2
<1>5. Stacked'
  <2>1. SendShape'
    BY <1>1, <1>2, <1>3 DEF Stacked, SendShape
  <2> QED BY <1>2, <1>3, <2>1, SameStacked DEF Stacked
<1>6. Control'
  BY <1>1, <1>2, <1>3, TheLast DEF Control, Flags, Capture, Turns, StopFlag, UserStops, StopResolved, UserStarts, SessionOpen,
      InSession, Fronts, Driven
<1>7. Kinds'
  BY <1>1, <1>2, <1>3 DEF Kinds, NoLoss, NoStop, Calm, CalmThread
<1>t. Tale'
  BY <1>1, <1>2, <1>3, TheLast DEF Tale, Live, Control, Turns, UserStarts, Fronts
<1> QED BY <1>4, <1>5, <1>6, <1>7, <1>t

\* The encoders let go of the output.
LEMMA EndStopsEncoders ==
    ASSUME RtmpInv, StopEncoders(EndThread), UNCHANGED <<streamVars, budget, calm>>
    PROVE  RtmpInv'
<1> USE DEF RtmpInv
<1>1. en = "stop_encoders" /\ StacksOK /\ ~Ended(EndThread)
  BY Idle, TheThreads DEF StopEncoders, Base, StacksOK, Places, At, Ended, en
<1>2. StacksOK' /\ en' = "deactivate" /\ enRest' = enRest /\ EndOnly
  <2>1. GoOn(EndThread, <<Frame("deactivate", "none")>>)
    BY <1>1 DEF StopEncoders, Do
  <2>2. "deactivate" \in Places /\ "none" \in Args
    BY Words DEF Places
  <2>3. /\ StacksOK' /\ place'[EndThread] = "deactivate" /\ arg'[EndThread] = "none"
        /\ rest'[EndThread] = rest[EndThread] /\ Others(EndThread)
    BY <1>1, <2>1, <2>2, Goes, TheThreads
  <2> QED BY <2>3, TheOthers DEF en, enRest
<1>3. /\ encoders' = FALSE
      /\ told' = told
      /\ UNCHANGED <<active, dataActive, ending, reconnecting, reconnectStop, reconnectActive,
                      reconnectThread, retries, stoppingEvent, signals, connecting, streamActive,
                      stopEvent, budget, calm, delay, announced>>
  BY <1>1, Undelayed DEF StopEncoders, captureVars, hookVars, reconnectVars, streamVars, told
<1>4. Base' /\ Truths'
  <2>1. Base'
    BY <1>1, <1>2, <1>3 DEF Base, StacksOK
  <2>2. Truths'
    BY <1>3 DEF Truths
  <2> QED BY <2>1, <2>2
<1>5. Stacked'
  <2>1. EndShape'
    BY <1>1, <1>2, <1>3 DEF Stacked, EndShape
  <2> QED BY <1>2, <1>3, <2>1, SameStacked DEF Stacked
<1>6. Control'
  BY <1>1, <1>2, <1>3, TheLast DEF Control, Flags, Capture, Turns, StopFlag, UserStops, StopResolved, UserStarts, SessionOpen,
      InSession, Fronts, Driven
<1>7. Kinds'
  BY <1>1, <1>2, <1>3 DEF Kinds, NoLoss, NoStop, Calm, CalmThread
<1>t. Tale'
  BY <1>1, <1>2, <1>3, TheLast DEF Tale, Live, Control, Turns, UserStarts, Fronts
<1> QED BY <1>4, <1>5, <1>6, <1>7, <1>t

\* The output is no longer active.
LEMMA EndDeactivates ==
    ASSUME RtmpInv, Deactivate(EndThread), UNCHANGED <<streamVars, budget, calm>>
    PROVE  RtmpInv'
<1> USE DEF RtmpInv
<1>1. en = "deactivate" /\ StacksOK /\ ~Ended(EndThread)
  BY Idle, TheThreads DEF Deactivate, Base, StacksOK, Places, At, Ended, en
<1>2. StacksOK' /\ en' = "stopped" /\ enRest' = enRest /\ EndOnly
  <2>1. GoOn(EndThread, <<Frame("stopped", "none")>>)
    BY <1>1 DEF Deactivate, Do
  <2>2. "stopped" \in Places /\ "none" \in Args
    BY Words DEF Places
  <2>3. /\ StacksOK' /\ place'[EndThread] = "stopped" /\ arg'[EndThread] = "none"
        /\ rest'[EndThread] = rest[EndThread] /\ Others(EndThread)
    BY <1>1, <2>1, <2>2, Goes, TheThreads
  <2> QED BY <2>3, TheOthers DEF en, enRest
<1>3. /\ active' = FALSE
      /\ told' = told
      /\ UNCHANGED <<dataActive, encoders, ending, reconnecting, reconnectStop, reconnectActive,
                      reconnectThread, retries, stoppingEvent, signals, connecting, streamActive,
                      stopEvent, budget, calm, delay, announced>>
  BY <1>1, Undelayed DEF Deactivate, captureVars, hookVars, reconnectVars, streamVars, told
<1>4. Base' /\ Truths'
  <2>1. Base'
    BY <1>1, <1>2, <1>3 DEF Base, StacksOK
  <2>2. Truths'
    BY <1>3 DEF Truths
  <2> QED BY <2>1, <2>2
<1>5. Stacked'
  <2>1. EndShape'
    BY <1>1, <1>2, <1>3 DEF Stacked, EndShape
  <2> QED BY <1>2, <1>3, <2>1, SameStacked DEF Stacked
<1>6. Control'
  BY <1>1, <1>2, <1>3, TheLast DEF Control, Flags, Capture, Turns, StopFlag, UserStops, StopResolved, UserStarts, SessionOpen,
      InSession, Fronts, Driven
<1>7. Kinds'
  BY <1>1, <1>2, <1>3 DEF Kinds, NoLoss, NoStop, Calm, CalmThread
<1>t. Tale'
  BY <1>1, <1>2, <1>3, TheLast DEF Tale, Live, Control, Turns, UserStarts, Fronts
<1> QED BY <1>4, <1>5, <1>6, <1>7, <1>t

\* The stop is over.
LEMMA EndIsOver ==
    ASSUME RtmpInv, Stopped(EndThread), UNCHANGED <<streamVars, budget, calm>>
    PROVE  RtmpInv'
<1> USE DEF RtmpInv
<1>1. en = "stopped" /\ StacksOK /\ ~Ended(EndThread)
  BY Idle, TheThreads DEF Stopped, Base, StacksOK, Places, At, Ended, en
<1>2. StacksOK' /\ en' = "end_exit" /\ enRest' = enRest /\ EndOnly
  <2>1. GoOn(EndThread, <<Frame("end_exit", "none")>>)
    BY <1>1 DEF Stopped, Do
  <2>2. "end_exit" \in Places /\ "none" \in Args
    BY Words DEF Places
  <2>3. /\ StacksOK' /\ place'[EndThread] = "end_exit" /\ arg'[EndThread] = "none"
        /\ rest'[EndThread] = rest[EndThread] /\ Others(EndThread)
    BY <1>1, <2>1, <2>2, Goes, TheThreads
  <2> QED BY <2>3, TheOthers DEF en, enRest
<1>3. /\ stoppingEvent' = TRUE
      /\ told' = told
      /\ UNCHANGED <<active, dataActive, encoders, ending, reconnecting, reconnectStop,
                      reconnectActive, reconnectThread, retries, signals, connecting, streamActive,
                      stopEvent, budget, calm, delay, announced>>
  BY <1>1, Undelayed DEF Stopped, captureVars, hookVars, reconnectVars, streamVars, StopIsOver, told
<1>4. Base' /\ Truths'
  <2>1. Base'
    BY <1>1, <1>2, <1>3 DEF Base, StacksOK
  <2>2. Truths'
    BY <1>3 DEF Truths
  <2> QED BY <2>1, <2>2
<1>5. Stacked'
  <2>1. EndShape'
    BY <1>1, <1>2, <1>3 DEF Stacked, EndShape
  <2> QED BY <1>2, <1>3, <2>1, SameStacked DEF Stacked
<1>6. Control'
  BY <1>1, <1>2, <1>3, TheLast DEF Control, Flags, Capture, Turns, StopFlag, UserStops, StopResolved, UserStarts, SessionOpen,
      InSession, Fronts, Driven
<1>7. Kinds'
  BY <1>1, <1>2, <1>3 DEF Kinds, NoLoss, NoStop, Calm, CalmThread, Control, Flags, Capture, Turns
<1>t. Tale'
  BY <1>1, <1>2, <1>3, TheLast DEF Tale, Live, Control, Turns, UserStarts, Fronts
<1> QED BY <1>4, <1>5, <1>6, <1>7, <1>t

\* end_data_capture_thread ends.
LEMMA EndLeaves ==
    ASSUME RtmpInv, EndExit(EndThread), UNCHANGED <<streamVars, budget, calm>>
    PROVE  RtmpInv'
<1> USE DEF RtmpInv
<1>1. en = "end_exit" /\ StacksOK /\ ~Ended(EndThread)
  BY Idle, TheThreads DEF EndExit, Base, StacksOK, Places, At, Ended, en
<1>2. StacksOK' /\ en' = "idle" /\ EndOnly
  <2>1. Return(EndThread)
    BY <1>1 DEF EndExit
  <2>2. enRest = <<>>
    BY <1>1 DEF Stacked, EndShape
  <2> QED BY <1>1, <2>1, <2>2, Returns, TheThreads, TheOthers DEF en, enRest
<1>3. /\ ending' = FALSE
      /\ told' = told
      /\ UNCHANGED <<active, dataActive, encoders, reconnecting, reconnectStop, reconnectActive,
                      reconnectThread, retries, stoppingEvent, signals, connecting, streamActive,
                      stopEvent, budget, calm, delay, announced>>
  BY <1>1, Undelayed DEF EndExit, captureVars, hookVars, reconnectVars, streamVars, told
<1>4. Base' /\ Truths'
  <2>1. Base'
    BY <1>1, <1>2, <1>3 DEF Base, StacksOK
  <2>2. Truths'
    BY <1>3 DEF Truths
  <2> QED BY <2>1, <2>2
<1>5. Stacked'
  <2>1. EndShape'
    BY <1>1, <1>2, <1>3 DEF Stacked, EndShape
  <2> QED BY <1>2, <1>3, <2>1, SameStacked DEF Stacked
<1>6. Control'
  BY <1>1, <1>2, <1>3, TheLast DEF Control, Flags, Capture, Turns, StopFlag, UserStops, StopResolved, UserStarts, SessionOpen,
      InSession, Fronts, Driven
<1>7. Kinds'
  BY <1>1, <1>2, <1>3 DEF Kinds, NoLoss, NoStop, Calm, CalmThread
<1>t. Tale'
  BY <1>1, <1>2, <1>3, TheLast DEF Tale, Live, Control, Turns, UserStarts, Fronts
<1> QED BY <1>4, <1>5, <1>6, <1>7, <1>t

\* The thread is known to run.
LEMMA RetryEnters ==
    ASSUME RtmpInv, NEW r \in Reconnectors, ReconnectEnter(r),
           UNCHANGED <<streamVars, budget, calm>>
    PROVE  RtmpInv'
<1> USE DEF RtmpInv
<1>1. place[r] = "reconnect_enter" /\ StacksOK /\ ~Ended(r)
  BY Idle, TheThreads DEF ReconnectEnter, Base, StacksOK, Places, At, Ended
<1>2. StacksOK' /\ place'[r] = "reconnect_wait" /\ arg'[r] = "none" /\ rest'[r] = rest[r] /\ RetryOnly(r)
  <2>1. GoOn(r, <<Frame("reconnect_wait", "none")>>)
    BY <1>1 DEF ReconnectEnter, Do
  <2>2. "reconnect_wait" \in Places /\ "none" \in Args
    BY Words DEF Places
  <2>3. /\ StacksOK' /\ place'[r] = "reconnect_wait" /\ arg'[r] = "none"
        /\ rest'[r] = rest[r] /\ Others(r)
    BY <1>1, <2>1, <2>2, Goes, TheThreads
  <2> QED BY <2>3, TheOthers
<1>3. /\ reconnectActive' = TRUE
      /\ told' = told
      /\ UNCHANGED <<active, dataActive, encoders, ending, reconnecting, reconnectStop,
                      reconnectThread, retries, stoppingEvent, signals, connecting, streamActive,
                      stopEvent, budget, calm, delay, announced>>
  BY <1>1, Undelayed DEF ReconnectEnter, captureVars, hookVars, reconnectVars, streamVars, told
<1>8. reconnectThread # 0
  BY <1>1 DEF Control, Fronts, Reconnectors
<1>4. Base' /\ Truths'
  <2>1. Base'
    BY <1>1, <1>2, <1>3, <1>8 DEF Base, StacksOK
  <2>2. Truths'
    BY <1>3 DEF Truths
  <2> QED BY <2>1, <2>2
<1>5. Stacked'
  <2>1. RetryShape'
    BY <1>1, <1>2, <1>3, <1>8 DEF Stacked, RetryShape
  <2> QED BY <1>2, <1>3, <2>1, SameStacked DEF Stacked
<1>6. Control'
  BY <1>1, <1>2, <1>3, <1>8, TheLast DEF Control, Flags, Capture, Turns, StopFlag, UserStops, StopResolved, UserStarts, SessionOpen,
      InSession, Fronts, Driven
<1>7. Kinds'
  BY <1>1, <1>2, <1>3, <1>8 DEF Kinds, NoLoss, NoStop, Calm, CalmThread
<1>t. Tale'
  BY <1>1, <1>2, <1>3, <1>8, TheLast DEF Tale, Live, Control, Turns, UserStarts, Fronts
<1> QED BY <1>4, <1>5, <1>6, <1>7, <1>t

\* The user has stopped the output.
LEMMA RetryIsStopped ==
    ASSUME RtmpInv, NEW r \in Reconnectors, ReconnectWait(r),
           UNCHANGED <<streamVars, budget, calm>>, reconnectStop
    PROVE  RtmpInv'
<1> USE DEF RtmpInv
<1>1. place[r] = "reconnect_wait" /\ StacksOK /\ ~Ended(r)
  BY Idle, TheThreads DEF ReconnectWait, Base, StacksOK, Places, At, Ended
<1>2. StacksOK' /\ place'[r] = "reconnect_try" /\ arg'[r] = "none" /\ rest'[r] = rest[r] /\ RetryOnly(r)
  <2>1. GoOn(r, <<Frame("reconnect_try", "none")>>)
    BY <1>1 DEF ReconnectWait, Do, DelayExpired
  <2>2. "reconnect_try" \in Places /\ "none" \in Args
    BY Words DEF Places
  <2>3. /\ StacksOK' /\ place'[r] = "reconnect_try" /\ arg'[r] = "none"
        /\ rest'[r] = rest[r] /\ Others(r)
    BY <1>1, <2>1, <2>2, Goes, TheThreads
  <2> QED BY <2>3, TheOthers
<1>3. /\ told' = told
      /\ UNCHANGED <<active, dataActive, encoders, ending, reconnecting, reconnectStop,
                      reconnectActive, reconnectThread, retries, stoppingEvent, signals, connecting,
                      streamActive, stopEvent, budget, calm, delay, announced>>
  BY <1>1, Undelayed DEF ReconnectWait, captureVars, hookVars, reconnectVars, streamVars, told
<1>4. Base' /\ Truths'
  <2>1. Base'
    BY <1>1, <1>2, <1>3 DEF Base, StacksOK
  <2>2. Truths'
    BY <1>3 DEF Truths
  <2> QED BY <2>1, <2>2
<1>5. Stacked'
  <2>1. RetryShape'
    BY <1>1, <1>2, <1>3 DEF Stacked, RetryShape
  <2> QED BY <1>2, <1>3, <2>1, SameStacked DEF Stacked
<1>6. Control'
  <2>1. Flags'
    BY <1>1, <1>2, <1>3 DEF Control, Flags
  <2>2. Capture'
    BY <1>1, <1>2, <1>3 DEF Control, Capture
  <2>3. Turns'
    BY <1>1, <1>2, <1>3 DEF Control, Turns
  <2>4. StopFlag'
    BY <1>1, <1>2, <1>3 DEF Control, StopFlag
  <2>5. UserStops'
    BY <1>1, <1>2, <1>3 DEF Control, UserStops, Flags, Capture, Turns, StopFlag, StopResolved, UserStarts, SessionOpen,
        InSession, Fronts, Driven, Kinds, NoLoss, NoStop, Calm, CalmThread
  <2>6. StopResolved'
    BY <1>1, <1>2, <1>3 DEF Control, StopResolved
  <2>7. UserStarts'
    BY <1>1, <1>2, <1>3 DEF Control, UserStarts
  <2>8. SessionOpen'
    BY <1>1, <1>2, <1>3 DEF Control, SessionOpen, InSession
  <2>9. Fronts'
    BY <1>1, <1>2, <1>3 DEF Control, Fronts
  <2>10. Driven'
    BY <1>1, <1>2, <1>3, TheLast DEF Control, Driven
  <2> QED BY <2>1, <2>2, <2>3, <2>4, <2>5, <2>6, <2>7, <2>8, <2>9, <2>10 DEF Control
<1>7. Kinds'
  BY <1>1, <1>2, <1>3 DEF Kinds, NoLoss, NoStop, Calm, CalmThread
<1>t. Tale'
  BY <1>1, <1>2, <1>3, TheLast DEF Tale, Live, Control, Turns, UserStarts, Fronts
<1> QED BY <1>4, <1>5, <1>6, <1>7, <1>t

\* The delay has expired.
LEMMA RetryExpires ==
    ASSUME RtmpInv, NEW r \in Reconnectors, ReconnectWait(r),
           UNCHANGED <<streamVars, budget, calm>>, ~reconnectStop
    PROVE  RtmpInv'
<1> USE DEF RtmpInv
<1>1. place[r] = "reconnect_wait" /\ StacksOK /\ ~Ended(r)
  BY Idle, TheThreads DEF ReconnectWait, Base, StacksOK, Places, At, Ended
<1>2. StacksOK' /\ place'[r] = "actual_start" /\ arg'[r] = "none" /\ rest'[r] = ThenTry /\ RetryOnly(r)
  <2>1. GoOnTwice(r, "actual_start", "none", "reconnect_try", "none")
    BY <1>1 DEF ReconnectWait, Do, GoOnTwice
  <2>2. rest[r] = <<>>
    BY <1>1 DEF Stacked, RetryShape
  <2>3. "actual_start" \in Places /\ "reconnect_try" \in Places /\ "none" \in Args /\ "none" \in Args
    BY Words DEF Places
  <2>4. <<Frame("reconnect_try", "none")>> \o <<>> = ThenTry
    BY Prefixed DEF Do
  <2>5. r \in Threads
    BY TheThreads
  <2>6. /\ StacksOK' /\ place'[r] = "actual_start" /\ arg'[r] = "none"
        /\ rest'[r] = <<Frame("reconnect_try", "none")>> \o rest[r] /\ Others(r)
    BY <1>1, <2>1, <2>3, <2>5, GoesTwice
  <2> QED BY <2>2, <2>4, <2>6, TheOthers
<1>3. /\ told' = told
      /\ UNCHANGED <<active, dataActive, encoders, ending, reconnecting, reconnectStop,
                      reconnectActive, reconnectThread, retries, stoppingEvent, signals, connecting,
                      streamActive, stopEvent, budget, calm, delay, announced>>
  BY <1>1, Undelayed DEF ReconnectWait, captureVars, hookVars, reconnectVars, streamVars, told
<1>8. co = "idle" /\ se \in {"idle", "send_loop"} /\ en = "idle"
  <2>1. \A u \in Threads \ {r, Ui} : Ended(u) \/ At(u, "send_loop")
    BY DEF ReconnectWait, DelayExpired
  <2>2. \A u \in Threads \ {r, Ui} : place[u] \in {"idle", "send_loop"}
    BY <2>1, Idle DEF Base, StacksOK, Places
  <2>3. /\ ConnectThread \in Threads \ {r, Ui} /\ SendThread \in Threads \ {r, Ui}
        /\ EndThread \in Threads \ {r, Ui}
    BY TheThreads, ThreadsDiffer DEF Named
  <2> QED BY <2>2, <2>3 DEF co, se, en, Stacked, ConnectShape, EndShape
<1>9. calm => ui = "idle" \/ (ui = "stop_join" /\ co # "idle")
  BY Waits, TheThreads, ThreadsDiffer DEF ReconnectWait, DelayExpired, Named
<1>4. Base' /\ Truths'
  <2>1. Base'
    BY <1>1, <1>2, <1>3, <1>8, <1>9 DEF Base, StacksOK
  <2>2. Truths'
    BY <1>3 DEF Truths
  <2> QED BY <2>1, <2>2
<1>5. Stacked'
  <2>1. RetryShape'
    BY <1>1, <1>2, <1>3, <1>8, <1>9 DEF Stacked, RetryShape
  <2> QED BY <1>2, <1>3, <2>1, SameStacked DEF Stacked
<1>6. Control'
  <2>1. Flags'
    BY <1>1, <1>2, <1>3, <1>8, <1>9 DEF Control, Flags
  <2>2. Capture'
    BY <1>1, <1>2, <1>3, <1>8, <1>9 DEF Control, Capture
  <2>3. Turns'
    BY <1>1, <1>2, <1>3, <1>8, <1>9 DEF Control, Turns
  <2>4. StopFlag'
    BY <1>1, <1>2, <1>3, <1>8, <1>9 DEF Control, StopFlag
  <2>5. UserStops'
    BY <1>1, <1>2, <1>3, <1>8, <1>9 DEF Control, UserStops, Flags, Capture, Turns, StopFlag, StopResolved, UserStarts, SessionOpen,
        InSession, Fronts, Driven, Kinds, NoLoss, NoStop, Calm, CalmThread
  <2>6. StopResolved'
    BY <1>1, <1>2, <1>3, <1>8, <1>9 DEF Control, StopResolved
  <2>7. UserStarts'
    BY <1>1, <1>2, <1>3, <1>8, <1>9 DEF Control, UserStarts
  <2>8. SessionOpen'
    BY <1>1, <1>2, <1>3, <1>8, <1>9 DEF Control, SessionOpen, InSession
  <2>9. Fronts'
    BY <1>1, <1>2, <1>3, <1>8, <1>9 DEF Control, Fronts, Flags, Capture, Turns, StopFlag, UserStops, StopResolved, UserStarts,
        SessionOpen, InSession, Driven, Kinds, NoLoss, NoStop, Calm, CalmThread
  <2>10. Driven'
    BY <1>1, <1>2, <1>3, <1>8, <1>9, TheLast DEF Control, Driven
  <2> QED BY <2>1, <2>2, <2>3, <2>4, <2>5, <2>6, <2>7, <2>8, <2>9, <2>10 DEF Control
<1>7. Kinds'
  BY <1>1, <1>2, <1>3, <1>8, <1>9 DEF Kinds, NoLoss, NoStop, Calm, CalmThread
<1>t. Tale'
  BY <1>1, <1>2, <1>3, <1>8, <1>9, TheLast DEF Tale, Live, Control, Turns, UserStarts, Fronts
<1> QED BY <1>4, <1>5, <1>6, <1>7, <1>t

\* The last stop is over.
LEMMA RetryWaitsForTheStop ==
    ASSUME RtmpInv, NEW r \in Reconnectors, ActualStart(r), UNCHANGED <<streamVars, budget, calm>>
    PROVE  RtmpInv'
<1> USE DEF RtmpInv
<1>1. place[r] = "actual_start" /\ StacksOK /\ ~Ended(r)
  BY Idle, TheThreads DEF ActualStart, Base, StacksOK, Places, At, Ended
<1>2. StacksOK' /\ place'[r] = "info_start" /\ arg'[r] = "none" /\ rest'[r] = ThenTry /\ RetryOnly(r)
  <2>1. GoOn(r, <<Frame("info_start", "none")>>)
    BY <1>1 DEF ActualStart, Do
  <2>2. rest[r] = ThenTry
    BY <1>1 DEF Stacked, RetryShape
  <2>3. "info_start" \in Places /\ "none" \in Args /\ r \in Threads
    BY Words, TheThreads DEF Places
  <2>4. /\ StacksOK' /\ place'[r] = "info_start" /\ arg'[r] = "none" /\ rest'[r] = rest[r]
        /\ Others(r)
    BY <1>1, <2>1, <2>3, Goes
  <2> QED BY <2>2, <2>4, TheOthers
<1>3. /\ told' = told
      /\ UNCHANGED <<active, dataActive, encoders, ending, reconnecting, reconnectStop,
                      reconnectActive, reconnectThread, retries, stoppingEvent, signals, connecting,
                      streamActive, stopEvent, budget, calm, delay, announced>>
  BY <1>1, Undelayed DEF ActualStart, captureVars, hookVars, reconnectVars, streamVars, told
<1>8. stoppingEvent
  BY DEF ActualStart
<1>4. Base' /\ Truths'
  <2>1. Base'
    BY <1>1, <1>2, <1>3, <1>8 DEF Base, StacksOK
  <2>2. Truths'
    BY <1>3 DEF Truths
  <2> QED BY <2>1, <2>2
<1>5. Stacked'
  <2>1. RetryShape'
    BY <1>1, <1>2, <1>3, <1>8 DEF Stacked, RetryShape
  <2> QED BY <1>2, <1>3, <2>1, SameStacked DEF Stacked
<1>6. Control'
  BY <1>1, <1>2, <1>3, <1>8, TheLast DEF Control, Flags, Capture, Turns, StopFlag, UserStops, StopResolved, UserStarts, SessionOpen,
      InSession, Fronts, Driven
<1>7. Kinds'
  BY <1>1, <1>2, <1>3, <1>8 DEF Kinds, NoLoss, NoStop, Calm, CalmThread
<1>t. Tale'
  BY <1>1, <1>2, <1>3, <1>8, TheLast DEF Tale, Live, Control, Turns, UserStarts, Fronts
<1> QED BY <1>4, <1>5, <1>6, <1>7, <1>t

\* The connection is tried again.
LEMMA RetryStarts ==
    ASSUME RtmpInv, NEW r \in Reconnectors, InfoStart(r), UNCHANGED calm
    PROVE  RtmpInv'
<1> USE DEF RtmpInv
<1>1. place[r] = "info_start" /\ StacksOK /\ ~Ended(r)
  BY Idle, TheThreads DEF InfoStart, Base, StacksOK, Places, At, Ended
<1>8. ~active
  BY <1>1 DEF Control, Fronts, Capture
<1>2. /\ StacksOK' /\ place'[r] = "start_counted" /\ rest'[r] = ThenTry
      /\ co' = "init_connect" /\ coRest' = <<>> /\ SameUi /\ SameSend /\ SameEnd
      /\ place'[EncoderThread] = place[EncoderThread] /\ \A q \in Reconnectors \ {r} : SameRetry(q)
  <2>1. rest[r] = ThenTry
    BY <1>1 DEF Stacked, RetryShape
  <2>2. /\ "init_connect" \in Places /\ "start_counted" \in Places /\ TRUE \in Args
        /\ r \in Threads /\ ConnectThread \in Threads \ {r}
    BY Words, TheThreads, ThreadsDiffer DEF Places, Named
  <2>3. Spawn(r, <<Frame("start_counted", TRUE)>>, ConnectThread, "init_connect")
    BY <1>8 DEF InfoStart, Refuses
  <2>4. /\ StacksOK'
        /\ place'[r] = "start_counted" /\ arg'[r] = TRUE /\ rest'[r] = rest[r]
        /\ place'[ConnectThread] = "init_connect" /\ rest'[ConnectThread] = <<>>
        /\ \A u \in Threads \ {r, ConnectThread} :
              place'[u] = place[u] /\ arg'[u] = arg[u] /\ rest'[u] = rest[u]
    BY <1>1, <2>2, <2>3, SpawnsAndGoes
  <2> QED BY <2>1, <2>4, TheThreads, ThreadsDiffer
          DEF co, coArg, coRest, ui, uiArg, uiRest, se, seArg, seRest, en, enRest, Named
<1>3. /\ connecting' = TRUE
      /\ told' = told
      /\ UNCHANGED <<active, dataActive, encoders, ending, reconnecting, reconnectStop,
                      reconnectActive, reconnectThread, retries, stoppingEvent, signals,
                      streamActive, stopEvent, budget, calm, delay, announced>>
  BY <1>1, Undelayed, <1>8 DEF InfoStart, captureVars, hookVars, reconnectVars, streamVars, Refuses, told
<1>4. Base' /\ Truths'
  <2>1. Base'
    BY <1>1, <1>2, <1>3, <1>8 DEF Base, StacksOK
  <2>2. Truths'
    BY <1>3 DEF Truths
  <2> QED BY <2>1, <2>2
<1>5. Stacked'
  <2>1. ConnectShape'
    BY <1>1, <1>2, <1>3, <1>8 DEF Stacked, ConnectShape
  <2>2. RetryShape'
    BY <1>1, <1>2, <1>3, <1>8 DEF Stacked, RetryShape
  <2> QED BY <1>2, <1>3, <2>1, <2>2, SameStacked DEF Stacked
<1>6. Control'
  BY <1>1, <1>2, <1>3, <1>8, TheLast DEF Control, Flags, Capture, Turns, StopFlag, UserStops, StopResolved, UserStarts, SessionOpen,
      InSession, Fronts, Driven
<1>7. Kinds'
  BY <1>1, <1>2, <1>3, <1>8 DEF Kinds, NoLoss, NoStop, Calm, CalmThread, Control, Flags, Capture, Turns, StopFlag, UserStops
<1>t. Tale'
  BY <1>1, <1>2, <1>3, <1>8, TheLast DEF Tale, Live, Control, Turns, UserStarts, Fronts
<1> QED BY <1>4, <1>5, <1>6, <1>7, <1>t

\* Back from the start.
LEMMA RetryIsCounted ==
    ASSUME RtmpInv, NEW r \in Reconnectors, StartCounted(r), UNCHANGED <<streamVars, budget, calm>>
    PROVE  RtmpInv'
<1> USE DEF RtmpInv
<1>1. place[r] = "start_counted" /\ StacksOK /\ ~Ended(r)
  BY Idle, TheThreads DEF StartCounted, Base, StacksOK, Places, At, Ended
<1>2. StacksOK' /\ place'[r] = "reconnect_try" /\ rest'[r] = <<>> /\ RetryOnly(r)
  <2>1. Return(r)
    BY <1>1, ThreadsDiffer DEF StartCounted, Return, Named
  <2>2. rest[r] = ThenTry
    BY <1>1 DEF Stacked, RetryShape
  <2> QED BY <1>1, <2>1, <2>2, Returns, Pending, TheThreads, TheOthers
<1>3. /\ told' = told
      /\ UNCHANGED <<active, dataActive, encoders, ending, reconnecting, reconnectStop,
                      reconnectActive, reconnectThread, retries, stoppingEvent, signals, connecting,
                      streamActive, stopEvent, budget, calm, delay, announced>>
  BY <1>1, Undelayed, ThreadsDiffer DEF StartCounted, captureVars, hookVars, reconnectVars, streamVars, CountStart, told, Named
<1>4. Base' /\ Truths'
  <2>1. Base'
    BY <1>1, <1>2, <1>3 DEF Base, StacksOK
  <2>2. Truths'
    BY <1>3 DEF Truths
  <2> QED BY <2>1, <2>2
<1>5. Stacked'
  <2>1. RetryShape'
    BY <1>1, <1>2, <1>3 DEF Stacked, RetryShape
  <2> QED BY <1>2, <1>3, <2>1, SameStacked DEF Stacked
<1>6. Control'
  BY <1>1, <1>2, <1>3, TheLast DEF Control, Flags, Capture, Turns, StopFlag, UserStops, StopResolved, UserStarts, SessionOpen,
      InSession, Fronts, Driven
<1>7. Kinds'
  BY <1>1, <1>2, <1>3 DEF Kinds, NoLoss, NoStop, Calm, CalmThread
<1>t. Tale'
  BY <1>1, <1>2, <1>3, TheLast DEF Tale, Live, Control, Turns, UserStarts, Fronts
<1> QED BY <1>4, <1>5, <1>6, <1>7, <1>t

\* The thread has tried, or is to wait for another to try.
LEMMA RetryTries ==
    ASSUME RtmpInv, NEW r \in Reconnectors, ReconnectTry(r), UNCHANGED <<streamVars, budget, calm>>,
           ~reconnectStop
    PROVE  RtmpInv'
<1> USE DEF RtmpInv
<1>1. place[r] = "reconnect_try" /\ StacksOK /\ ~Ended(r)
  BY Idle, TheThreads DEF ReconnectTry, Base, StacksOK, Places, At, Ended
<1>2. StacksOK' /\ place'[r] = "reconnect_exit" /\ arg'[r] = "none" /\ rest'[r] = rest[r] /\ RetryOnly(r)
  <2>1. GoOn(r, <<Frame("reconnect_exit", "none")>>)
    BY <1>1 DEF ReconnectTry, Do
  <2>2. "reconnect_exit" \in Places /\ "none" \in Args
    BY Words DEF Places
  <2>3. /\ StacksOK' /\ place'[r] = "reconnect_exit" /\ arg'[r] = "none"
        /\ rest'[r] = rest[r] /\ Others(r)
    BY <1>1, <2>1, <2>2, Goes, TheThreads
  <2> QED BY <2>3, TheOthers
<1>3. /\ told' = told
      /\ UNCHANGED <<active, dataActive, encoders, ending, reconnecting, reconnectStop,
                      reconnectActive, reconnectThread, retries, stoppingEvent, signals, connecting,
                      streamActive, stopEvent, budget, calm, delay, announced>>
  BY <1>1, Undelayed DEF ReconnectTry, captureVars, hookVars, reconnectVars, streamVars, Truths, told
<1>8. ~reconnectStop
  OBVIOUS
<1>4. Base' /\ Truths'
  <2>1. Base'
    BY <1>1, <1>2, <1>3, <1>8 DEF Base, StacksOK
  <2>2. Truths'
    BY <1>3 DEF Truths
  <2> QED BY <2>1, <2>2
<1>5. Stacked'
  <2>1. RetryShape'
    BY <1>1, <1>2, <1>3, <1>8 DEF Stacked, RetryShape
  <2> QED BY <1>2, <1>3, <2>1, SameStacked DEF Stacked
<1>6. Control'
  BY <1>1, <1>2, <1>3, <1>8, TheLast DEF Control, Flags, Capture, Turns, StopFlag, UserStops, StopResolved, UserStarts, SessionOpen,
      InSession, Fronts, Driven
<1>7. Kinds'
  BY <1>1, <1>2, <1>3, <1>8 DEF Kinds, NoLoss, NoStop, Calm, CalmThread
<1>t. Tale'
  BY <1>1, <1>2, <1>3, <1>8, TheLast DEF Tale, Live, Control, Turns, UserStarts, Fronts
<1> QED BY <1>4, <1>5, <1>6, <1>7, <1>t

\* The stop ends the reconnecting.
LEMMA RetryGivesUp ==
    ASSUME RtmpInv, NEW r \in Reconnectors, ReconnectTry(r), UNCHANGED <<streamVars, budget, calm>>,
           reconnectStop
    PROVE  RtmpInv'
<1> USE DEF RtmpInv
<1>1. place[r] = "reconnect_try" /\ StacksOK /\ ~Ended(r)
  BY Idle, TheThreads DEF ReconnectTry, Base, StacksOK, Places, At, Ended
<1>2. StacksOK' /\ place'[r] = "reconnect_exit" /\ arg'[r] = "none" /\ rest'[r] = rest[r] /\ RetryOnly(r)
  <2>1. GoOn(r, <<Frame("reconnect_exit", "none")>>)
    BY <1>1 DEF ReconnectTry, Do
  <2>2. "reconnect_exit" \in Places /\ "none" \in Args
    BY Words DEF Places
  <2>3. /\ StacksOK' /\ place'[r] = "reconnect_exit" /\ arg'[r] = "none"
        /\ rest'[r] = rest[r] /\ Others(r)
    BY <1>1, <2>1, <2>2, Goes, TheThreads
  <2> QED BY <2>3, TheOthers
<1>3. /\ reconnecting' = FALSE
      /\ told' = told
      /\ UNCHANGED <<active, dataActive, encoders, ending, reconnectStop, reconnectActive,
                      reconnectThread, retries, stoppingEvent, signals, connecting, streamActive,
                      stopEvent, budget, calm, delay, announced>>
  BY <1>1, Undelayed DEF ReconnectTry, captureVars, hookVars, reconnectVars, streamVars, told
<1>8. reconnectStop /\ co = "idle" /\ se = "idle" /\ ui \in StopPlaces
  BY <1>1 DEF Kinds, NoLoss, NoStop, Calm, CalmThread
<1>4. Base' /\ Truths'
  <2>1. Base'
    BY <1>1, <1>2, <1>3, <1>8 DEF Base, StacksOK
  <2>2. Truths'
    BY <1>3 DEF Truths
  <2> QED BY <2>1, <2>2
<1>5. Stacked'
  <2>1. ConnectShape'
    BY <1>1, <1>2, <1>3, <1>8 DEF Stacked, ConnectShape
  <2>2. SendShape'
    BY <1>1, <1>2, <1>3, <1>8 DEF Stacked, SendShape
  <2>3. RetryShape'
    BY <1>1, <1>2, <1>3, <1>8 DEF Stacked, RetryShape
  <2> QED BY <1>2, <1>3, <2>1, <2>2, <2>3, SameStacked DEF Stacked
<1>6. Control'
  <2>1. Flags'
    BY <1>1, <1>2, <1>3, <1>8 DEF Control, Flags
  <2>2. Capture'
    BY <1>1, <1>2, <1>3, <1>8 DEF Control, Capture
  <2>3. Turns'
    BY <1>1, <1>2, <1>3, <1>8 DEF Control, Turns
  <2>4. StopFlag'
    BY <1>1, <1>2, <1>3, <1>8 DEF Control, StopFlag
  <2>5. UserStops'
    BY <1>1, <1>2, <1>3, <1>8 DEF Control, UserStops
  <2>6. StopResolved'
    BY <1>1, <1>2, <1>3, <1>8 DEF Control, StopResolved
  <2>7. UserStarts'
    BY <1>1, <1>2, <1>3, <1>8 DEF Control, UserStarts
  <2>8. SessionOpen'
    BY <1>1, <1>2, <1>3, <1>8 DEF Control, SessionOpen, InSession
  <2>9. Fronts'
    BY <1>1, <1>2, <1>3, <1>8 DEF Control, Fronts, Flags, Capture, Turns, StopFlag, UserStops, StopResolved, UserStarts,
        SessionOpen, InSession, Driven, Kinds, NoLoss, NoStop, Calm, CalmThread
  <2>10. Driven'
    BY <1>1, <1>2, <1>3, <1>8, TheLast DEF Control, Driven
  <2> QED BY <2>1, <2>2, <2>3, <2>4, <2>5, <2>6, <2>7, <2>8, <2>9, <2>10 DEF Control
<1>7. Kinds'
  BY <1>1, <1>2, <1>3, <1>8 DEF Kinds, NoLoss, NoStop, Calm, CalmThread
<1>t. Tale'
  BY <1>1, <1>2, <1>3, <1>8, TheLast DEF Tale, Live, Control, Turns, UserStarts, Fronts
<1> QED BY <1>4, <1>5, <1>6, <1>7, <1>t

\* reconnect_thread ends.
LEMMA RetryLeaves ==
    ASSUME RtmpInv, NEW r \in Reconnectors, ReconnectExit(r), UNCHANGED <<streamVars, budget, calm>>
    PROVE  RtmpInv'
<1> USE DEF RtmpInv
<1>1. place[r] = "reconnect_exit" /\ StacksOK /\ ~Ended(r)
  BY Idle, TheThreads DEF ReconnectExit, Base, StacksOK, Places, At, Ended
<1>2. StacksOK' /\ place'[r] = "idle" /\ RetryOnly(r)
  <2>1. Return(r)
    BY <1>1 DEF ReconnectExit
  <2>2. rest[r] = <<>>
    BY <1>1 DEF Stacked, RetryShape
  <2> QED BY <1>1, <2>1, <2>2, Returns, TheThreads, TheOthers
<1>3. /\ reconnectActive' = FALSE
      /\ told' = told
      /\ UNCHANGED <<active, dataActive, encoders, ending, reconnecting, reconnectStop,
                      reconnectThread, retries, stoppingEvent, signals, connecting, streamActive,
                      stopEvent, budget, calm, delay, announced>>
  BY <1>1, Undelayed DEF ReconnectExit, captureVars, hookVars, reconnectVars, streamVars, told
<1>4. Base' /\ Truths'
  <2>1. Base'
    BY <1>1, <1>2, <1>3 DEF Base, StacksOK
  <2>2. Truths'
    BY <1>3 DEF Truths
  <2> QED BY <2>1, <2>2
<1>5. Stacked'
  <2>1. RetryShape'
    BY <1>1, <1>2, <1>3 DEF Stacked, RetryShape
  <2> QED BY <1>2, <1>3, <2>1, SameStacked DEF Stacked
<1>6. Control'
  BY <1>1, <1>2, <1>3, TheLast DEF Control, Flags, Capture, Turns, StopFlag, UserStops, StopResolved, UserStarts, SessionOpen,
      InSession, Fronts, Driven
<1>7. Kinds'
  BY <1>1, <1>2, <1>3 DEF Kinds, NoLoss, NoStop, Calm, CalmThread
<1>t. Tale'
  BY <1>1, <1>2, <1>3, TheLast DEF Tale, Live, Control, Turns, UserStarts, Fronts
<1> QED BY <1>4, <1>5, <1>6, <1>7, <1>t

\* The user starts the stream.
LEMMA UserStartsKeeps ==
    ASSUME RtmpInv, Start, UNCHANGED calm
    PROVE  RtmpInv'
<1> USE DEF RtmpInv
<1>1. ui = "idle" /\ StacksOK
  BY Idle, TheThreads DEF Start, UiStart, Base, StacksOK, ui
<1>2. StacksOK' /\ ui' = "actual_start" /\ uiArg' = "none" /\ uiRest' = <<>> /\ UiOnly
  <2>1. stack' = [stack EXCEPT ![Ui] = <<Frame("actual_start", "none")>>]
    BY Undelayed DEF Start, UiStart, Do
  <2>2. "actual_start" \in Places /\ "none" \in Args
    BY Words DEF Places
  <2>3. /\ StacksOK' /\ place'[Ui] = "actual_start" /\ arg'[Ui] = "none" /\ rest'[Ui] = <<>>
        /\ Others(Ui)
    BY <1>1, <2>1, <2>2, SetsOut, TheThreads
  <2> QED BY <2>3, TheOthers DEF ui, uiArg, uiRest
<1>3. /\ signals' \in Seq(Told) /\ told' = "called" /\ announced' = 0
      /\ UNCHANGED <<active, dataActive, encoders, ending, reconnecting, reconnectStop,
                      reconnectActive, reconnectThread, retries, stoppingEvent, connecting,
                      streamActive, stopEvent, calm, delay>>
  BY <1>1, Undelayed, ToTell DEF Start, captureVars, hookVars, reconnectVars, streamVars, UiStart, told
<1>8. ~InSession /\ ~active
  <2>1. told \in {"nothing", "stop", "failed"} /\ ~active
    BY DEF Start, UiStart, Over, told, Streaming
  <2> QED BY <2>1 DEF Control, SessionOpen
<1>9. /\ budget' \in [calm : BOOLEAN, starts : Nat, stops : Nat, forces : Nat,
                          drops : Nat, refused : Nat, delay : Modes]
      /\ \A v \in {"starts", "stops", "forces", "drops", "refused"} :
            budget[v] = 0 => budget'[v] = 0
      /\ budget["starts"] # 0
  BY Spends DEF Start
<1>4. Base' /\ Truths'
  <2>1. Base'
    BY <1>1, <1>2, <1>3, <1>8, <1>9 DEF Base, StacksOK
  <2>2. Truths'
    BY <1>3 DEF Truths
  <2> QED BY <2>1, <2>2
<1>5. Stacked'
  <2>1. UiShape'
    BY <1>1, <1>2, <1>3, <1>8, <1>9 DEF Stacked, UiShape
  <2> QED BY <1>2, <1>3, <2>1, SameStacked DEF Stacked
<1>6. Control'
  BY <1>1, <1>2, <1>3, <1>8, <1>9, TheLast DEF Control, Flags, Capture, Turns, StopFlag, UserStops, StopResolved, UserStarts, SessionOpen,
      InSession, Fronts, Driven
<1>7. Kinds'
  BY <1>1, <1>2, <1>3, <1>8, <1>9 DEF Kinds, NoLoss, NoStop, Calm, CalmThread
<1>t. Tale'
  BY <1>1, <1>2, <1>3, <1>8, <1>9, TheLast DEF Tale, Live, Control, Turns, UserStops, UserStarts, Fronts, SessionOpen, InSession, Capture,
      Driven
<1> QED BY <1>4, <1>5, <1>6, <1>7, <1>t

\* The user stops the stream.
LEMMA UserStopsKeeps ==
    ASSUME RtmpInv, Stop, UNCHANGED calm
    PROVE  RtmpInv'
<1> USE DEF RtmpInv
<1>1. ui = "idle" /\ StacksOK
  BY Idle, TheThreads DEF Stop, UiStop, Base, StacksOK, ui
<1>8. reconnecting \in {TRUE, FALSE}
  BY DEF Truths
<1>2. StacksOK' /\ ui' = "actual_stop" /\ uiArg' = reconnecting /\ uiRest' = <<>> /\ UiOnly
  <2>1. stack' = [stack EXCEPT ![Ui] = <<Frame("actual_stop", reconnecting)>>]
    BY Undelayed DEF Stop, UiStop, Do
  <2>2. "actual_stop" \in Places /\ reconnecting \in Args
    BY Words, <1>8 DEF Places
  <2>3. /\ StacksOK' /\ place'[Ui] = "actual_stop" /\ arg'[Ui] = reconnecting /\ rest'[Ui] = <<>>
        /\ Others(Ui)
    BY <1>1, <2>1, <2>2, SetsOut, TheThreads
  <2> QED BY <2>3, TheOthers DEF ui, uiArg, uiRest
<1>3. /\ told' = told
      /\ UNCHANGED <<active, dataActive, encoders, ending, reconnecting, reconnectStop,
                      reconnectActive, reconnectThread, retries, stoppingEvent, signals, connecting,
                      streamActive, stopEvent, calm, delay, announced>>
  BY <1>1, Undelayed DEF Stop, captureVars, hookVars, reconnectVars, streamVars, UiStop, told
<1>9. /\ budget' \in [calm : BOOLEAN, starts : Nat, stops : Nat, forces : Nat,
                          drops : Nat, refused : Nat, delay : Modes]
      /\ \A v \in {"starts", "stops", "forces", "drops", "refused"} :
            budget[v] = 0 => budget'[v] = 0
      /\ budget["stops"] # 0
  BY Spends DEF Stop
<1>10. calm =>
          /\ co \in {"idle", "try_connect"} /\ en = "idle"
          /\ se = "idle" \/ (se = "send_loop" /\ stoppingEvent)
          /\ \A r \in Reconnectors : place[r] \in {"idle", "reconnect_wait"}
  BY Waits, TheThreads, ThreadsDiffer DEF Stop, UiStop, Named
<1>11. (active \/ reconnecting) /\ (reconnecting \/ stoppingEvent)
  BY Undelayed DEF Stop, UiStop, Streaming
<1>4. Base' /\ Truths'
  <2>1. Base'
    BY <1>1, <1>2, <1>3, <1>8, <1>9, <1>10, <1>11 DEF Base, StacksOK
  <2>2. Truths'
    BY <1>3 DEF Truths
  <2> QED BY <2>1, <2>2
<1>5. Stacked'
  <2>1. UiShape'
    BY <1>1, <1>2, <1>3, <1>8, <1>9, <1>10, <1>11 DEF Stacked, UiShape
  <2> QED BY <1>2, <1>3, <2>1, SameStacked DEF Stacked
<1>6. Control'
  <2>1. Flags'
    BY <1>1, <1>2, <1>3, <1>8, <1>9, <1>10, <1>11 DEF Control, Flags
  <2>2. Capture'
    BY <1>1, <1>2, <1>3, <1>8, <1>9, <1>10, <1>11 DEF Control, Capture
  <2>3. Turns'
    BY <1>1, <1>2, <1>3, <1>8, <1>9, <1>10, <1>11 DEF Control, Turns
  <2>4. StopFlag'
    BY <1>1, <1>2, <1>3, <1>8, <1>9, <1>10, <1>11 DEF Control, StopFlag
  <2>5. UserStops'
    BY <1>1, <1>2, <1>3, <1>8, <1>9, <1>10, <1>11 DEF Control, UserStops, Flags, Capture, Turns, StopFlag, StopResolved, UserStarts, SessionOpen,
        InSession, Fronts, Driven, Kinds, NoLoss, NoStop, Calm, CalmThread
  <2>6. StopResolved'
    BY <1>1, <1>2, <1>3, <1>8, <1>9, <1>10, <1>11 DEF Control, StopResolved
  <2>7. UserStarts'
    BY <1>1, <1>2, <1>3, <1>8, <1>9, <1>10, <1>11 DEF Control, UserStarts
  <2>8. SessionOpen'
    BY <1>1, <1>2, <1>3, <1>8, <1>9, <1>10, <1>11 DEF Control, SessionOpen, InSession
  <2>9. Fronts'
    BY <1>1, <1>2, <1>3, <1>8, <1>9, <1>10, <1>11 DEF Control, Fronts, Flags, Capture, Turns, StopFlag, UserStops, StopResolved, UserStarts,
        SessionOpen, InSession, Driven, Kinds, NoLoss, NoStop, Calm, CalmThread
  <2>10. Driven'
    BY <1>1, <1>2, <1>3, <1>8, <1>9, <1>10, <1>11, TheLast DEF Control, Driven
  <2> QED BY <2>1, <2>2, <2>3, <2>4, <2>5, <2>6, <2>7, <2>8, <2>9, <2>10 DEF Control
<1>7. Kinds'
  BY <1>1, <1>2, <1>3, <1>8, <1>9, <1>10, <1>11 DEF Kinds, NoLoss, NoStop, Calm, CalmThread, Control, Flags, Capture, Turns, StopFlag, UserStops,
      StopResolved, UserStarts, SessionOpen, InSession, Fronts, Driven
<1>t. Tale'
  BY <1>1, <1>2, <1>3, <1>8, <1>9, <1>10, <1>11, TheLast DEF Tale, Live, Control, Flags, Capture, Turns, StopFlag, UserStops, StopResolved, UserStarts,
      SessionOpen, InSession, Fronts, Driven, Kinds, NoLoss, NoStop, Calm, CalmThread
<1> QED BY <1>4, <1>5, <1>6, <1>7, <1>t

\* The user stops the stream again, by force.
LEMMA UserForcesKeeps ==
    ASSUME RtmpInv, ForceStop, UNCHANGED calm
    PROVE  RtmpInv'
<1> USE DEF RtmpInv
<1>1. ui = "idle" /\ StacksOK
  BY Idle, TheThreads DEF ForceStop, UiForceStop, Base, StacksOK, ui
<1>2. StacksOK' /\ ui' = "actual_stop" /\ uiArg' = TRUE /\ uiRest' = <<>> /\ UiOnly
  <2>1. stack' = [stack EXCEPT ![Ui] = <<Frame("actual_stop", TRUE)>>]
    BY Undelayed DEF ForceStop, UiForceStop, Do
  <2>2. "actual_stop" \in Places /\ TRUE \in Args
    BY Words DEF Places
  <2>3. /\ StacksOK' /\ place'[Ui] = "actual_stop" /\ arg'[Ui] = TRUE /\ rest'[Ui] = <<>>
        /\ Others(Ui)
    BY <1>1, <2>1, <2>2, SetsOut, TheThreads
  <2> QED BY <2>3, TheOthers DEF ui, uiArg, uiRest
<1>3. /\ told' = told
      /\ UNCHANGED <<active, dataActive, encoders, ending, reconnecting, reconnectStop,
                      reconnectActive, reconnectThread, retries, stoppingEvent, signals, connecting,
                      streamActive, stopEvent, calm, delay, announced>>
  BY <1>1, Undelayed DEF ForceStop, captureVars, hookVars, reconnectVars, streamVars, UiForceStop, told
<1>9. /\ budget' \in [calm : BOOLEAN, starts : Nat, stops : Nat, forces : Nat,
                          drops : Nat, refused : Nat, delay : Modes]
      /\ \A v \in {"starts", "stops", "forces", "drops", "refused"} :
            budget[v] = 0 => budget'[v] = 0
      /\ budget["forces"] # 0
  BY Spends DEF ForceStop
<1>10. calm =>
          /\ co \in {"idle", "try_connect"} /\ en = "idle"
          /\ se = "idle" \/ (se = "send_loop" /\ stoppingEvent)
          /\ \A r \in Reconnectors : place[r] \in {"idle", "reconnect_wait"}
  BY Waits, TheThreads, ThreadsDiffer DEF ForceStop, UiForceStop, Named
<1>11. active \/ reconnecting
  BY DEF ForceStop, UiForceStop, Streaming
<1>4. Base' /\ Truths'
  <2>1. Base'
    BY <1>1, <1>2, <1>3, <1>9, <1>10, <1>11 DEF Base, StacksOK
  <2>2. Truths'
    BY <1>3 DEF Truths
  <2> QED BY <2>1, <2>2
<1>5. Stacked'
  <2>1. UiShape'
    BY <1>1, <1>2, <1>3, <1>9, <1>10, <1>11 DEF Stacked, UiShape
  <2> QED BY <1>2, <1>3, <2>1, SameStacked DEF Stacked
<1>6. Control'
  <2>1. Flags'
    BY <1>1, <1>2, <1>3, <1>9, <1>10, <1>11 DEF Control, Flags
  <2>2. Capture'
    BY <1>1, <1>2, <1>3, <1>9, <1>10, <1>11 DEF Control, Capture
  <2>3. Turns'
    BY <1>1, <1>2, <1>3, <1>9, <1>10, <1>11 DEF Control, Turns
  <2>4. StopFlag'
    BY <1>1, <1>2, <1>3, <1>9, <1>10, <1>11 DEF Control, StopFlag
  <2>5. UserStops'
    BY <1>1, <1>2, <1>3, <1>9, <1>10, <1>11 DEF Control, UserStops, Flags, Capture, Turns, StopFlag, StopResolved, UserStarts, SessionOpen,
        InSession, Fronts, Driven, Kinds, NoLoss, NoStop, Calm, CalmThread
  <2>6. StopResolved'
    BY <1>1, <1>2, <1>3, <1>9, <1>10, <1>11 DEF Control, StopResolved
  <2>7. UserStarts'
    BY <1>1, <1>2, <1>3, <1>9, <1>10, <1>11 DEF Control, UserStarts
  <2>8. SessionOpen'
    BY <1>1, <1>2, <1>3, <1>9, <1>10, <1>11 DEF Control, SessionOpen, InSession
  <2>9. Fronts'
    BY <1>1, <1>2, <1>3, <1>9, <1>10, <1>11 DEF Control, Fronts, Flags, Capture, Turns, StopFlag, UserStops, StopResolved, UserStarts,
        SessionOpen, InSession, Driven, Kinds, NoLoss, NoStop, Calm, CalmThread
  <2>10. Driven'
    BY <1>1, <1>2, <1>3, <1>9, <1>10, <1>11, TheLast DEF Control, Driven
  <2> QED BY <2>1, <2>2, <2>3, <2>4, <2>5, <2>6, <2>7, <2>8, <2>9, <2>10 DEF Control
<1>7. Kinds'
  BY <1>1, <1>2, <1>3, <1>9, <1>10, <1>11 DEF Kinds, NoLoss, NoStop, Calm, CalmThread, Control, Flags, Capture, Turns, StopFlag, UserStops,
      StopResolved, UserStarts, SessionOpen, InSession, Fronts, Driven
<1>t. Tale'
  BY <1>1, <1>2, <1>3, <1>9, <1>10, <1>11, TheLast DEF Tale, Live, Control, Flags, Capture, Turns, StopFlag, UserStops, StopResolved, UserStarts,
      SessionOpen, InSession, Fronts, Driven, Kinds, NoLoss, NoStop, Calm, CalmThread
<1> QED BY <1>4, <1>5, <1>6, <1>7, <1>t

\* The last stop is over.
LEMMA UserWaitsForTheStop ==
    ASSUME RtmpInv, ActualStart(Ui), UNCHANGED <<streamVars, budget, calm>>
    PROVE  RtmpInv'
<1> USE DEF RtmpInv
<1>1. ui = "actual_start" /\ StacksOK /\ ~Ended(Ui)
  BY Idle, TheThreads DEF ActualStart, Base, StacksOK, Places, At, Ended, ui
<1>2. StacksOK' /\ ui' = "info_start" /\ uiArg' = "none" /\ uiRest' = <<>> /\ UiOnly
  <2>1. GoOn(Ui, <<Frame("info_start", "none")>>)
    BY <1>1 DEF ActualStart, Do
  <2>2. uiRest = <<>>
    BY <1>1 DEF Stacked, UiShape
  <2>3. "info_start" \in Places /\ "none" \in Args /\ Ui \in Threads
    BY Words, TheThreads DEF Places
  <2>4. /\ StacksOK' /\ place'[Ui] = "info_start" /\ arg'[Ui] = "none" /\ rest'[Ui] = rest[Ui]
        /\ Others(Ui)
    BY <1>1, <2>1, <2>3, Goes
  <2> QED BY <2>2, <2>4, TheOthers DEF ui, uiArg, uiRest
<1>3. /\ told' = told
      /\ UNCHANGED <<active, dataActive, encoders, ending, reconnecting, reconnectStop,
                      reconnectActive, reconnectThread, retries, stoppingEvent, signals, connecting,
                      streamActive, stopEvent, budget, calm, delay, announced>>
  BY <1>1, Undelayed DEF ActualStart, captureVars, hookVars, reconnectVars, streamVars, told
<1>8. stoppingEvent
  BY DEF ActualStart
<1>4. Base' /\ Truths'
  <2>1. Base'
    BY <1>1, <1>2, <1>3, <1>8 DEF Base, StacksOK
  <2>2. Truths'
    BY <1>3 DEF Truths
  <2> QED BY <2>1, <2>2
<1>5. Stacked'
  <2>1. UiShape'
    BY <1>1, <1>2, <1>3, <1>8 DEF Stacked, UiShape
  <2> QED BY <1>2, <1>3, <2>1, SameStacked DEF Stacked
<1>6. Control'
  BY <1>1, <1>2, <1>3, <1>8, TheLast DEF Control, Flags, Capture, Turns, StopFlag, UserStops, StopResolved, UserStarts, SessionOpen,
      InSession, Fronts, Driven
<1>7. Kinds'
  BY <1>1, <1>2, <1>3, <1>8 DEF Kinds, NoLoss, NoStop, Calm, CalmThread
<1>t. Tale'
  BY <1>1, <1>2, <1>3, <1>8, TheLast DEF Tale, Live, Control, Turns, UserStarts, Fronts
<1> QED BY <1>4, <1>5, <1>6, <1>7, <1>t

\* The stream is started.
LEMMA UserConnects ==
    ASSUME RtmpInv, InfoStart(Ui), UNCHANGED calm
    PROVE  RtmpInv'
<1> USE DEF RtmpInv
<1>1. ui = "info_start" /\ StacksOK /\ ~Ended(Ui)
  BY Idle, TheThreads DEF InfoStart, Base, StacksOK, Places, At, Ended, ui
<1>8. ~active
  BY <1>1 DEF Control, UserStarts
<1>2. /\ StacksOK' /\ ui' = "start_counted" /\ uiArg' = TRUE /\ uiRest' = <<>>
      /\ co' = "init_connect" /\ coRest' = <<>> /\ SameSend /\ SameEnd /\ SameRetries
      /\ place'[EncoderThread] = place[EncoderThread]
  <2>1. uiRest = <<>>
    BY <1>1 DEF Stacked, UiShape
  <2>2. /\ "init_connect" \in Places /\ "start_counted" \in Places /\ TRUE \in Args
        /\ Ui \in Threads /\ ConnectThread \in Threads \ {Ui}
    BY Words, TheThreads, ThreadsDiffer DEF Places
  <2>3. Spawn(Ui, <<Frame("start_counted", TRUE)>>, ConnectThread, "init_connect")
    BY <1>8 DEF InfoStart, Refuses
  <2>4. /\ StacksOK'
        /\ place'[Ui] = "start_counted" /\ arg'[Ui] = TRUE /\ rest'[Ui] = rest[Ui]
        /\ place'[ConnectThread] = "init_connect" /\ rest'[ConnectThread] = <<>>
        /\ \A u \in Threads \ {Ui, ConnectThread} :
              place'[u] = place[u] /\ arg'[u] = arg[u] /\ rest'[u] = rest[u]
    BY <1>1, <2>2, <2>3, SpawnsAndGoes
  <2> QED BY <2>1, <2>4, TheThreads, ThreadsDiffer
          DEF co, coArg, coRest, ui, uiArg, uiRest, se, seArg, seRest, en, enRest, Named
<1>3. /\ connecting' = TRUE
      /\ told' = told
      /\ UNCHANGED <<active, dataActive, encoders, ending, reconnecting, reconnectStop,
                      reconnectActive, reconnectThread, retries, stoppingEvent, signals,
                      streamActive, stopEvent, budget, calm, delay, announced>>
  BY <1>1, Undelayed, <1>8 DEF InfoStart, captureVars, hookVars, reconnectVars, streamVars, Refuses, told
<1>9. co = "idle" /\ en = "idle"
  <2>1. Ended(ConnectThread) /\ (ending => Ended(EndThread))
    BY <1>8, Undelayed DEF InfoStart, Refuses
  <2> QED BY <2>1, Idle, TheThreads DEF co, en, Control, Flags, Base, StacksOK
<1>4. Base' /\ Truths'
  <2>1. Base'
    BY <1>1, <1>2, <1>3, <1>8, <1>9 DEF Base, StacksOK
  <2>2. Truths'
    BY <1>3 DEF Truths
  <2> QED BY <2>1, <2>2
<1>5. Stacked'
  <2>1. ConnectShape'
    BY <1>1, <1>2, <1>3, <1>8, <1>9 DEF Stacked, ConnectShape
  <2>2. UiShape'
    BY <1>1, <1>2, <1>3, <1>8, <1>9 DEF Stacked, UiShape
  <2> QED BY <1>2, <1>3, <2>1, <2>2, SameStacked DEF Stacked
<1>6. Control'
  BY <1>1, <1>2, <1>3, <1>8, <1>9, TheLast DEF Control, Flags, Capture, Turns, StopFlag, UserStops, StopResolved, UserStarts, SessionOpen,
      InSession, Fronts, Driven
<1>7. Kinds'
  BY <1>1, <1>2, <1>3, <1>8, <1>9 DEF Kinds, NoLoss, NoStop, Calm, CalmThread
<1>t. Tale'
  BY <1>1, <1>2, <1>3, <1>8, <1>9, TheLast DEF Tale, Live, Control, Turns, UserStarts, Fronts
<1> QED BY <1>4, <1>5, <1>6, <1>7, <1>t

\* The start is counted.
LEMMA UserIsCounted ==
    ASSUME RtmpInv, StartCounted(Ui), UNCHANGED <<streamVars, budget, calm>>
    PROVE  RtmpInv'
<1> USE DEF RtmpInv
<1>1. ui = "start_counted" /\ StacksOK /\ ~Ended(Ui)
  BY Idle, TheThreads DEF StartCounted, Base, StacksOK, Places, At, Ended, ui
<1>8. Arg(Ui)
  BY <1>1, Idle, TheThreads DEF Stacked, UiShape, uiArg
<1>2. StacksOK' /\ ui' = "announce" /\ uiRest' = <<>> /\ UiOnly
  <2>1. GoOn(Ui, <<Frame("announce", "none")>>)
    BY <1>1, <1>8 DEF StartCounted, Do
  <2>2. uiRest = <<>>
    BY <1>1 DEF Stacked, UiShape
  <2>3. "announce" \in Places /\ "none" \in Args /\ Ui \in Threads
    BY Words, TheThreads DEF Places
  <2>4. StacksOK' /\ place'[Ui] = "announce" /\ rest'[Ui] = rest[Ui] /\ Others(Ui)
    BY <1>1, <2>1, <2>3, Goes
  <2> QED BY <2>2, <2>4, TheOthers DEF ui, uiArg, uiRest
<1>3. /\ told' = told
      /\ UNCHANGED <<active, dataActive, encoders, ending, reconnecting, reconnectStop,
                      reconnectActive, reconnectThread, retries, stoppingEvent, signals, connecting,
                      streamActive, stopEvent, budget, calm, delay, announced>>
  BY <1>1, <1>8, Undelayed DEF StartCounted, captureVars, hookVars, reconnectVars, streamVars, CountStart, told
<1>4. Base' /\ Truths'
  <2>1. Base'
    BY <1>1, <1>2, <1>3 DEF Base, StacksOK
  <2>2. Truths'
    BY <1>3 DEF Truths
  <2> QED BY <2>1, <2>2
<1>5. Stacked'
  <2>1. UiShape'
    BY <1>1, <1>2, <1>3 DEF Stacked, UiShape
  <2> QED BY <1>2, <1>3, <2>1, SameStacked DEF Stacked
<1>6. Control'
  BY <1>1, <1>2, <1>3, TheLast DEF Control, Flags, Capture, Turns, StopFlag, UserStops, StopResolved, UserStarts, SessionOpen,
      InSession, Fronts, Driven
<1>7. Kinds'
  BY <1>1, <1>2, <1>3 DEF Kinds, NoLoss, NoStop, Calm, CalmThread
<1>t. Tale'
  BY <1>1, <1>2, <1>3, TheLast DEF Tale, Live, Control, Turns, UserStarts, Fronts
<1> QED BY <1>4, <1>5, <1>6, <1>7, <1>t

\* Back from the start, which is announced.
LEMMA UserAnnounces ==
    ASSUME RtmpInv, Announce(Ui), UNCHANGED <<streamVars, budget, calm>>
    PROVE  RtmpInv'
<1> USE DEF RtmpInv
<1>1. ui = "announce" /\ StacksOK /\ ~Ended(Ui)
  BY Idle, TheThreads DEF Announce, Base, StacksOK, Places, At, Ended, ui
<1>2. StacksOK' /\ ui' = "idle" /\ UiOnly
  <2>1. Return(Ui)
    BY <1>1 DEF Announce
  <2>2. uiRest = <<>>
    BY <1>1 DEF Stacked, UiShape
  <2> QED BY <1>1, <2>1, <2>2, Returns, TheThreads, TheOthers DEF ui, uiArg, uiRest
<1>8. announced = 0 /\ told \notin {"nothing", "failed"}
  BY <1>1 DEF Tale
<1>3. /\ told' = told /\ announced' = 1
      /\ UNCHANGED <<active, dataActive, encoders, ending, reconnecting, reconnectStop,
                      reconnectActive, reconnectThread, retries, stoppingEvent, signals, connecting,
                      streamActive, stopEvent, budget, calm, delay>>
  BY <1>1, <1>8, Undelayed DEF Announce, captureVars, hookVars, reconnectVars, streamVars, told
<1>4. Base' /\ Truths'
  <2>1. Base'
    BY <1>1, <1>2, <1>3 DEF Base, StacksOK
  <2>2. Truths'
    BY <1>3 DEF Truths
  <2> QED BY <2>1, <2>2
<1>5. Stacked'
  <2>1. UiShape'
    BY <1>1, <1>2, <1>3 DEF Stacked, UiShape
  <2> QED BY <1>2, <1>3, <2>1, SameStacked DEF Stacked
<1>6. Control'
  BY <1>1, <1>2, <1>3, TheLast DEF Control, Flags, Capture, Turns, StopFlag, UserStops, StopResolved, UserStarts, SessionOpen,
      InSession, Fronts, Driven
<1>7. Kinds'
  BY <1>1, <1>2, <1>3 DEF Kinds, NoLoss, NoStop, Calm, CalmThread
<1>t. Tale'
  BY <1>1, <1>2, <1>3, TheLast DEF Tale, Live, Control, Turns, UserStarts, Fronts
<1> QED BY <1>4, <1>5, <1>6, <1>7, <1>t

\* A stop is already under way.
LEMMA UserLeavesTheStop ==
    ASSUME RtmpInv, ActualStop(Ui), UNCHANGED <<streamVars, budget, calm>>,
           ~stoppingEvent /\ ~Arg(Ui)
    PROVE  RtmpInv'
<1> USE DEF RtmpInv
<1>1. ui = "actual_stop" /\ StacksOK /\ ~Ended(Ui)
  BY Idle, TheThreads DEF ActualStop, Base, StacksOK, Places, At, Ended, ui
<1>2. StacksOK' /\ ui' = "idle" /\ UiOnly
  <2>1. Return(Ui)
    BY <1>1 DEF ActualStop
  <2>2. uiRest = <<>>
    BY <1>1 DEF Stacked, UiShape
  <2> QED BY <1>1, <2>1, <2>2, Returns, TheThreads, TheOthers DEF ui, uiArg, uiRest
<1>3. /\ told' = told
      /\ UNCHANGED <<active, dataActive, encoders, ending, reconnecting, reconnectStop,
                      reconnectActive, reconnectThread, retries, stoppingEvent, signals, connecting,
                      streamActive, stopEvent, budget, calm, delay, announced>>
  BY <1>1, Undelayed DEF ActualStop, captureVars, hookVars, reconnectVars, streamVars, told
<1>4. Base' /\ Truths'
  <2>1. Base'
    BY <1>1, <1>2, <1>3 DEF Base, StacksOK
  <2>2. Truths'
    BY <1>3 DEF Truths
  <2> QED BY <2>1, <2>2
<1>5. Stacked'
  <2>1. UiShape'
    BY <1>1, <1>2, <1>3 DEF Stacked, UiShape
  <2> QED BY <1>2, <1>3, <2>1, SameStacked DEF Stacked
<1>6. Control'
  BY <1>1, <1>2, <1>3, TheLast DEF Control, Flags, Capture, Turns, StopFlag, UserStops, StopResolved, UserStarts, SessionOpen,
      InSession, Fronts, Driven
<1>7. Kinds'
  BY <1>1, <1>2, <1>3 DEF Kinds, NoLoss, NoStop, Calm, CalmThread, Control, Flags, Capture, Turns, StopFlag, UserStops
<1>t. Tale'
  BY <1>1, <1>2, <1>3, TheLast DEF Tale, Live, Control, Turns, UserStarts, Fronts
<1> QED BY <1>4, <1>5, <1>6, <1>7, <1>t

\* The stop is forced.
LEMMA UserForcesTheStop ==
    ASSUME RtmpInv, ActualStop(Ui), UNCHANGED <<streamVars, budget, calm>>, Arg(Ui)
    PROVE  RtmpInv'
<1> USE DEF RtmpInv
<1>1. ui = "actual_stop" /\ StacksOK /\ ~Ended(Ui)
  BY Idle, TheThreads DEF ActualStop, Base, StacksOK, Places, At, Ended, ui
<1>2. StacksOK' /\ ui' = "stop_reconnect" /\ uiArg' = "none" /\ uiRest' = ThenForce /\ UiOnly
  <2>1. GoOnTwice(Ui, "stop_reconnect", "none", "force_stop", "none")
    BY <1>1 DEF ActualStop, Do, GoOnTwice
  <2>2. uiRest = <<>>
    BY <1>1 DEF Stacked, UiShape
  <2>3. "stop_reconnect" \in Places /\ "force_stop" \in Places /\ "none" \in Args /\ "none" \in Args
    BY Words DEF Places
  <2>4. <<Frame("force_stop", "none")>> \o <<>> = ThenForce
    BY Prefixed DEF Do
  <2>5. Ui \in Threads
    BY TheThreads
  <2>6. /\ StacksOK' /\ place'[Ui] = "stop_reconnect" /\ arg'[Ui] = "none"
        /\ rest'[Ui] = <<Frame("force_stop", "none")>> \o rest[Ui] /\ Others(Ui)
    BY <1>1, <2>1, <2>3, <2>5, GoesTwice
  <2> QED BY <2>2, <2>4, <2>6, TheOthers DEF ui, uiArg, uiRest
<1>3. /\ stoppingEvent' = FALSE
      /\ told' = told
      /\ UNCHANGED <<active, dataActive, encoders, ending, reconnecting, reconnectStop,
                      reconnectActive, reconnectThread, retries, signals, connecting, streamActive,
                      stopEvent, budget, calm, delay, announced>>
  BY <1>1, Undelayed DEF ActualStop, captureVars, hookVars, reconnectVars, streamVars, told
<1>4. Base' /\ Truths'
  <2>1. Base'
    BY <1>1, <1>2, <1>3 DEF Base, StacksOK
  <2>2. Truths'
    BY <1>3 DEF Truths
  <2> QED BY <2>1, <2>2
<1>5. Stacked'
  <2>1. UiShape'
    BY <1>1, <1>2, <1>3 DEF Stacked, UiShape
  <2> QED BY <1>2, <1>3, <2>1, SameStacked DEF Stacked
<1>6. Control'
  BY <1>1, <1>2, <1>3, TheLast DEF Control, Flags, Capture, Turns, StopFlag, UserStops, StopResolved, UserStarts, SessionOpen,
      InSession, Fronts, Driven
<1>7. Kinds'
  BY <1>1, <1>2, <1>3 DEF Kinds, NoLoss, NoStop, Calm, CalmThread
<1>t. Tale'
  BY <1>1, <1>2, <1>3, TheLast DEF Tale, Live, Control, Turns, UserStarts, Fronts
<1> QED BY <1>4, <1>5, <1>6, <1>7, <1>t

\* The stop begins.
LEMMA UserBeginsTheStop ==
    ASSUME RtmpInv, ActualStop(Ui), UNCHANGED <<streamVars, budget, calm>>, stoppingEvent, ~Arg(Ui)
    PROVE  RtmpInv'
<1> USE DEF RtmpInv
<1>1. ui = "actual_stop" /\ StacksOK /\ ~Ended(Ui)
  BY Idle, TheThreads DEF ActualStop, Base, StacksOK, Places, At, Ended, ui
<1>2. StacksOK' /\ ui' = "stop_reconnect" /\ uiArg' = "none" /\ uiRest' = ThenStop /\ UiOnly
  <2>1. GoOnTwice(Ui, "stop_reconnect", "none", "info_stop", FALSE)
    BY <1>1 DEF ActualStop, Do, GoOnTwice
  <2>2. uiRest = <<>>
    BY <1>1 DEF Stacked, UiShape
  <2>3. "stop_reconnect" \in Places /\ "info_stop" \in Places /\ "none" \in Args /\ FALSE \in Args
    BY Words DEF Places
  <2>4. <<Frame("info_stop", FALSE)>> \o <<>> = ThenStop
    BY Prefixed DEF Do
  <2>5. Ui \in Threads
    BY TheThreads
  <2>6. /\ StacksOK' /\ place'[Ui] = "stop_reconnect" /\ arg'[Ui] = "none"
        /\ rest'[Ui] = <<Frame("info_stop", FALSE)>> \o rest[Ui] /\ Others(Ui)
    BY <1>1, <2>1, <2>3, <2>5, GoesTwice, ZenonT(40)
  <2> QED BY <2>2, <2>4, <2>6, TheOthers DEF ui, uiArg, uiRest
<1>3. /\ stoppingEvent' = FALSE
      /\ told' = told
      /\ UNCHANGED <<active, dataActive, encoders, ending, reconnecting, reconnectStop,
                      reconnectActive, reconnectThread, retries, signals, connecting, streamActive,
                      stopEvent, budget, calm, delay, announced>>
  BY <1>1, Undelayed DEF ActualStop, captureVars, hookVars, reconnectVars, streamVars, told
<1>4. Base' /\ Truths'
  <2>1. Base'
    BY <1>1, <1>2, <1>3 DEF Base, StacksOK
  <2>2. Truths'
    BY <1>3 DEF Truths
  <2> QED BY <2>1, <2>2
<1>5. Stacked'
  <2>1. UiShape'
    BY <1>1, <1>2, <1>3 DEF Stacked, UiShape
  <2> QED BY <1>2, <1>3, <2>1, SameStacked DEF Stacked
<1>6. Control'
  BY <1>1, <1>2, <1>3, TheLast DEF Control, Flags, Capture, Turns, StopFlag, UserStops, StopResolved, UserStarts, SessionOpen,
      InSession, Fronts, Driven
<1>7. Kinds'
  BY <1>1, <1>2, <1>3 DEF Kinds, NoLoss, NoStop, Calm, CalmThread
<1>t. Tale'
  BY <1>1, <1>2, <1>3, TheLast DEF Tale, Live, Control, Turns, UserStarts, Fronts
<1> QED BY <1>4, <1>5, <1>6, <1>7, <1>t

\* The reconnect thread is told to stop.
LEMMA UserCancelsTheDelay ==
    ASSUME RtmpInv, StopReconnect(Ui), UNCHANGED <<streamVars, budget, calm>>, reconnecting
    PROVE  RtmpInv'
<1> USE DEF RtmpInv
<1>1. ui = "stop_reconnect" /\ StacksOK /\ ~Ended(Ui)
  BY Idle, TheThreads DEF StopReconnect, Base, StacksOK, Places, At, Ended, ui
<1>2. StacksOK' /\ ui' = "check_reconnect" /\ uiArg' = "none" /\ uiRest' = uiRest /\ UiOnly
  <2>1. GoOn(Ui, <<Frame("check_reconnect", "none")>>)
    BY <1>1 DEF StopReconnect, Do
  <2>2. "check_reconnect" \in Places /\ "none" \in Args
    BY Words DEF Places
  <2>3. /\ StacksOK' /\ place'[Ui] = "check_reconnect" /\ arg'[Ui] = "none"
        /\ rest'[Ui] = rest[Ui] /\ Others(Ui)
    BY <1>1, <2>1, <2>2, Goes, TheThreads
  <2> QED BY <2>3, TheOthers DEF ui, uiArg, uiRest
<1>3. /\ reconnectStop' = TRUE
      /\ told' = told
      /\ UNCHANGED <<active, dataActive, encoders, ending, reconnecting, reconnectActive,
                      reconnectThread, retries, stoppingEvent, signals, connecting, streamActive,
                      stopEvent, budget, calm, delay, announced>>
  BY <1>1, Undelayed DEF StopReconnect, captureVars, hookVars, reconnectVars, streamVars, CancelDelay, told
<1>4. Base' /\ Truths'
  <2>1. Base'
    BY <1>1, <1>2, <1>3 DEF Base, StacksOK
  <2>2. Truths'
    BY <1>3 DEF Truths
  <2> QED BY <2>1, <2>2
<1>5. Stacked'
  <2>1. UiShape'
    BY <1>1, <1>2, <1>3 DEF Stacked, UiShape
  <2> QED BY <1>2, <1>3, <2>1, SameStacked DEF Stacked
<1>6. Control'
  BY <1>1, <1>2, <1>3, TheLast DEF Control, Flags, Capture, Turns, StopFlag, UserStops, StopResolved, UserStarts, SessionOpen,
      InSession, Fronts, Driven
<1>7. Kinds'
  BY <1>1, <1>2, <1>3 DEF Kinds, NoLoss, NoStop, Calm, CalmThread, Control, Flags, Capture, Turns, StopFlag, UserStops
<1>t. Tale'
  BY <1>1, <1>2, <1>3, TheLast DEF Tale, Live, Control, Turns, UserStarts, Fronts
<1> QED BY <1>4, <1>5, <1>6, <1>7, <1>t

\* The output is not reconnecting.
LEMMA UserFindsNoRetryThenForces ==
    ASSUME RtmpInv, StopReconnect(Ui), UNCHANGED <<streamVars, budget, calm>>, ~reconnecting,
           uiRest = ThenForce
    PROVE  RtmpInv'
<1> USE DEF RtmpInv
<1>1. ui = "stop_reconnect" /\ StacksOK /\ ~Ended(Ui)
  BY Idle, TheThreads DEF StopReconnect, Base, StacksOK, Places, At, Ended, ui
<1>2. StacksOK' /\ ui' = "force_stop" /\ uiRest' = <<>> /\ UiOnly
  <2>1. Return(Ui)
    BY <1>1 DEF StopReconnect, Return, GoOn
  <2>2. uiRest = ThenForce
    BY <1>1 DEF Stacked, UiShape
  <2> QED BY <1>1, <2>1, <2>2, Returns, Pending, TheThreads, TheOthers DEF ui, uiArg, uiRest
<1>3. /\ told' = told
      /\ UNCHANGED <<active, dataActive, encoders, ending, reconnecting, reconnectStop,
                      reconnectActive, reconnectThread, retries, stoppingEvent, signals, connecting,
                      streamActive, stopEvent, budget, calm, delay, announced>>
  BY <1>1, Undelayed DEF StopReconnect, captureVars, hookVars, reconnectVars, streamVars, CancelDelay, Truths, told
<1>4. Base' /\ Truths'
  <2>1. Base'
    BY <1>1, <1>2, <1>3 DEF Base, StacksOK
  <2>2. Truths'
    BY <1>3 DEF Truths
  <2> QED BY <2>1, <2>2
<1>5. Stacked'
  <2>1. UiShape'
    BY <1>1, <1>2, <1>3 DEF Stacked, UiShape
  <2> QED BY <1>2, <1>3, <2>1, SameStacked DEF Stacked
<1>6. Control'
  BY <1>1, <1>2, <1>3, TheLast DEF Control, Flags, Capture, Turns, StopFlag, UserStops, StopResolved, UserStarts, SessionOpen,
      InSession, Fronts, Driven
<1>7. Kinds'
  BY <1>1, <1>2, <1>3 DEF Kinds, NoLoss, NoStop, Calm, CalmThread
<1>t. Tale'
  BY <1>1, <1>2, <1>3, TheLast DEF Tale, Live, Control, Turns, UserStarts, Fronts
<1> QED BY <1>4, <1>5, <1>6, <1>7, <1>t

\* The output is not reconnecting.
LEMMA UserFindsNoRetryThenStops ==
    ASSUME RtmpInv, StopReconnect(Ui), UNCHANGED <<streamVars, budget, calm>>, ~reconnecting,
           uiRest = ThenStop
    PROVE  RtmpInv'
<1> USE DEF RtmpInv
<1>1. ui = "stop_reconnect" /\ StacksOK /\ ~Ended(Ui)
  BY Idle, TheThreads DEF StopReconnect, Base, StacksOK, Places, At, Ended, ui
<1>2. StacksOK' /\ ui' = "info_stop" /\ uiArg' = FALSE /\ uiRest' = <<>> /\ UiOnly
  <2>1. Return(Ui)
    BY <1>1 DEF StopReconnect, Return, GoOn
  <2>2. uiRest = ThenStop
    BY <1>1 DEF Stacked, UiShape
  <2> QED BY <1>1, <2>1, <2>2, Returns, Pending, TheThreads, TheOthers DEF ui, uiArg, uiRest
<1>3. /\ told' = told
      /\ UNCHANGED <<active, dataActive, encoders, ending, reconnecting, reconnectStop,
                      reconnectActive, reconnectThread, retries, stoppingEvent, signals, connecting,
                      streamActive, stopEvent, budget, calm, delay, announced>>
  BY <1>1, Undelayed DEF StopReconnect, captureVars, hookVars, reconnectVars, streamVars, CancelDelay, Truths, told
<1>4. Base' /\ Truths'
  <2>1. Base'
    BY <1>1, <1>2, <1>3 DEF Base, StacksOK
  <2>2. Truths'
    BY <1>3 DEF Truths
  <2> QED BY <2>1, <2>2
<1>5. Stacked'
  <2>1. UiShape'
    BY <1>1, <1>2, <1>3 DEF Stacked, UiShape
  <2> QED BY <1>2, <1>3, <2>1, SameStacked DEF Stacked
<1>6. Control'
  BY <1>1, <1>2, <1>3, TheLast DEF Control, Flags, Capture, Turns, StopFlag, UserStops, StopResolved, UserStarts, SessionOpen,
      InSession, Fronts, Driven
<1>7. Kinds'
  BY <1>1, <1>2, <1>3 DEF Kinds, NoLoss, NoStop, Calm, CalmThread
<1>t. Tale'
  BY <1>1, <1>2, <1>3, TheLast DEF Tale, Live, Control, Turns, UserStarts, Fronts
<1> QED BY <1>4, <1>5, <1>6, <1>7, <1>t

\* There is a reconnect thread to join.
LEMMA UserFindsTheThread ==
    ASSUME RtmpInv, CheckReconnect(Ui), UNCHANGED <<streamVars, budget, calm>>, reconnectActive
    PROVE  RtmpInv'
<1> USE DEF RtmpInv
<1>1. ui = "check_reconnect" /\ StacksOK /\ ~Ended(Ui)
  BY Idle, TheThreads DEF CheckReconnect, Base, StacksOK, Places, At, Ended, ui
<1>8. reconnectThread # 0 /\ reconnectThread \in Args
  BY Words DEF Base
<1>2. StacksOK' /\ ui' = "join_reconnect" /\ uiArg' = reconnectThread /\ uiRest' = uiRest /\ UiOnly
  <2>1. GoOn(Ui, <<Frame("join_reconnect", reconnectThread)>>)
    BY <1>1, <1>8 DEF CheckReconnect, Do
  <2>2. "join_reconnect" \in Places /\ reconnectThread \in Args
    BY Words, <1>8 DEF Places
  <2>3. /\ StacksOK' /\ place'[Ui] = "join_reconnect" /\ arg'[Ui] = reconnectThread
        /\ rest'[Ui] = rest[Ui] /\ Others(Ui)
    BY <1>1, <2>1, <2>2, Goes, TheThreads
  <2> QED BY <2>3, TheOthers DEF ui, uiArg, uiRest
<1>3. /\ told' = told
      /\ UNCHANGED <<active, dataActive, encoders, ending, reconnecting, reconnectStop,
                      reconnectActive, reconnectThread, retries, stoppingEvent, signals, connecting,
                      streamActive, stopEvent, budget, calm, delay, announced>>
  BY <1>1, Undelayed DEF CheckReconnect, captureVars, hookVars, reconnectVars, streamVars, told
<1>4. Base' /\ Truths'
  <2>1. Base'
    BY <1>1, <1>2, <1>3, <1>8 DEF Base, StacksOK
  <2>2. Truths'
    BY <1>3 DEF Truths
  <2> QED BY <2>1, <2>2
<1>5. Stacked'
  <2>1. UiShape'
    BY <1>1, <1>2, <1>3, <1>8 DEF Stacked, UiShape
  <2> QED BY <1>2, <1>3, <2>1, SameStacked DEF Stacked
<1>6. Control'
  BY <1>1, <1>2, <1>3, <1>8, TheLast DEF Control, Flags, Capture, Turns, StopFlag, UserStops, StopResolved, UserStarts, SessionOpen,
      InSession, Fronts, Driven
<1>7. Kinds'
  BY <1>1, <1>2, <1>3, <1>8 DEF Kinds, NoLoss, NoStop, Calm, CalmThread
<1>t. Tale'
  BY <1>1, <1>2, <1>3, <1>8, TheLast DEF Tale, Live, Control, Turns, UserStarts, Fronts
<1> QED BY <1>4, <1>5, <1>6, <1>7, <1>t

\* There is no reconnect thread to join.
LEMMA UserFindsNoThreadThenForces ==
    ASSUME RtmpInv, CheckReconnect(Ui), UNCHANGED <<streamVars, budget, calm>>, ~reconnectActive,
           uiRest = ThenForce
    PROVE  RtmpInv'
<1> USE DEF RtmpInv
<1>1. ui = "check_reconnect" /\ StacksOK /\ ~Ended(Ui)
  BY Idle, TheThreads DEF CheckReconnect, Base, StacksOK, Places, At, Ended, ui
<1>2. StacksOK' /\ ui' = "force_stop" /\ uiRest' = <<>> /\ UiOnly
  <2>1. Return(Ui)
    BY <1>1 DEF CheckReconnect, Return, GoOn
  <2>2. uiRest = ThenForce
    BY <1>1 DEF Stacked, UiShape
  <2> QED BY <1>1, <2>1, <2>2, Returns, Pending, TheThreads, TheOthers DEF ui, uiArg, uiRest
<1>3. /\ told' = told
      /\ UNCHANGED <<active, dataActive, encoders, ending, reconnecting, reconnectStop,
                      reconnectActive, reconnectThread, retries, stoppingEvent, signals, connecting,
                      streamActive, stopEvent, budget, calm, delay, announced>>
  BY <1>1, Undelayed DEF CheckReconnect, captureVars, hookVars, reconnectVars, streamVars, told
<1>4. Base' /\ Truths'
  <2>1. Base'
    BY <1>1, <1>2, <1>3 DEF Base, StacksOK
  <2>2. Truths'
    BY <1>3 DEF Truths
  <2> QED BY <2>1, <2>2
<1>5. Stacked'
  <2>1. UiShape'
    BY <1>1, <1>2, <1>3 DEF Stacked, UiShape
  <2> QED BY <1>2, <1>3, <2>1, SameStacked DEF Stacked
<1>6. Control'
  <2>1. Flags'
    BY <1>1, <1>2, <1>3 DEF Control, Flags
  <2>2. Capture'
    BY <1>1, <1>2, <1>3 DEF Control, Capture
  <2>3. Turns'
    BY <1>1, <1>2, <1>3 DEF Control, Turns
  <2>4. StopFlag'
    BY <1>1, <1>2, <1>3 DEF Control, StopFlag
  <2>5. UserStops'
    BY <1>1, <1>2, <1>3 DEF Control, UserStops, Flags, Capture, Turns, StopFlag, StopResolved, UserStarts, SessionOpen,
        InSession, Fronts, Driven, Kinds, NoLoss, NoStop, Calm, CalmThread
  <2>6. StopResolved'
    BY <1>1, <1>2, <1>3 DEF Control, StopResolved
  <2>7. UserStarts'
    BY <1>1, <1>2, <1>3 DEF Control, UserStarts
  <2>8. SessionOpen'
    BY <1>1, <1>2, <1>3 DEF Control, SessionOpen, InSession
  <2>9. Fronts'
    BY <1>1, <1>2, <1>3 DEF Control, Fronts
  <2>10. Driven'
    BY <1>1, <1>2, <1>3, TheLast DEF Control, Driven
  <2> QED BY <2>1, <2>2, <2>3, <2>4, <2>5, <2>6, <2>7, <2>8, <2>9, <2>10 DEF Control
<1>7. Kinds'
  BY <1>1, <1>2, <1>3 DEF Kinds, NoLoss, NoStop, Calm, CalmThread
<1>t. Tale'
  BY <1>1, <1>2, <1>3, TheLast DEF Tale, Live, Control, Turns, UserStarts, Fronts
<1> QED BY <1>4, <1>5, <1>6, <1>7, <1>t

\* There is no reconnect thread to join.
LEMMA UserFindsNoThreadThenStops ==
    ASSUME RtmpInv, CheckReconnect(Ui), UNCHANGED <<streamVars, budget, calm>>, ~reconnectActive,
           uiRest = ThenStop
    PROVE  RtmpInv'
<1> USE DEF RtmpInv
<1>1. ui = "check_reconnect" /\ StacksOK /\ ~Ended(Ui)
  BY Idle, TheThreads DEF CheckReconnect, Base, StacksOK, Places, At, Ended, ui
<1>2. StacksOK' /\ ui' = "info_stop" /\ uiArg' = FALSE /\ uiRest' = <<>> /\ UiOnly
  <2>1. Return(Ui)
    BY <1>1 DEF CheckReconnect, Return, GoOn
  <2>2. uiRest = ThenStop
    BY <1>1 DEF Stacked, UiShape
  <2> QED BY <1>1, <2>1, <2>2, Returns, Pending, TheThreads, TheOthers DEF ui, uiArg, uiRest
<1>3. /\ told' = told
      /\ UNCHANGED <<active, dataActive, encoders, ending, reconnecting, reconnectStop,
                      reconnectActive, reconnectThread, retries, stoppingEvent, signals, connecting,
                      streamActive, stopEvent, budget, calm, delay, announced>>
  BY <1>1, Undelayed DEF CheckReconnect, captureVars, hookVars, reconnectVars, streamVars, told
<1>4. Base' /\ Truths'
  <2>1. Base'
    BY <1>1, <1>2, <1>3 DEF Base, StacksOK
  <2>2. Truths'
    BY <1>3 DEF Truths
  <2> QED BY <2>1, <2>2
<1>5. Stacked'
  <2>1. UiShape'
    BY <1>1, <1>2, <1>3 DEF Stacked, UiShape
  <2> QED BY <1>2, <1>3, <2>1, SameStacked DEF Stacked
<1>6. Control'
  <2>1. Flags'
    BY <1>1, <1>2, <1>3 DEF Control, Flags
  <2>2. Capture'
    BY <1>1, <1>2, <1>3 DEF Control, Capture
  <2>3. Turns'
    BY <1>1, <1>2, <1>3 DEF Control, Turns
  <2>4. StopFlag'
    BY <1>1, <1>2, <1>3 DEF Control, StopFlag
  <2>5. UserStops'
    BY <1>1, <1>2, <1>3 DEF Control, UserStops, Flags, Capture, Turns, StopFlag, StopResolved, UserStarts, SessionOpen,
        InSession, Fronts, Driven, Kinds, NoLoss, NoStop, Calm, CalmThread
  <2>6. StopResolved'
    BY <1>1, <1>2, <1>3 DEF Control, StopResolved
  <2>7. UserStarts'
    BY <1>1, <1>2, <1>3 DEF Control, UserStarts
  <2>8. SessionOpen'
    BY <1>1, <1>2, <1>3 DEF Control, SessionOpen, InSession
  <2>9. Fronts'
    BY <1>1, <1>2, <1>3 DEF Control, Fronts
  <2>10. Driven'
    BY <1>1, <1>2, <1>3, TheLast DEF Control, Driven
  <2> QED BY <2>1, <2>2, <2>3, <2>4, <2>5, <2>6, <2>7, <2>8, <2>9, <2>10 DEF Control
<1>7. Kinds'
  BY <1>1, <1>2, <1>3 DEF Kinds, NoLoss, NoStop, Calm, CalmThread
<1>t. Tale'
  BY <1>1, <1>2, <1>3, TheLast DEF Tale, Live, Control, Turns, UserStarts, Fronts
<1> QED BY <1>4, <1>5, <1>6, <1>7, <1>t

\* The reconnect thread has ended.
LEMMA UserJoinsThenForces ==
    ASSUME RtmpInv, JoinReconnect(Ui), UNCHANGED <<streamVars, budget, calm>>, uiRest = ThenForce
    PROVE  RtmpInv'
<1> USE DEF RtmpInv
<1>1. ui = "join_reconnect" /\ StacksOK /\ ~Ended(Ui)
  BY Idle, TheThreads DEF JoinReconnect, Base, StacksOK, Places, At, Ended, ui
<1>2. StacksOK' /\ ui' = "force_stop" /\ uiRest' = <<>> /\ UiOnly
  <2>1. Return(Ui)
    BY <1>1 DEF JoinReconnect
  <2>2. uiRest = ThenForce
    BY <1>1 DEF Stacked, UiShape
  <2> QED BY <1>1, <2>1, <2>2, Returns, Pending, TheThreads, TheOthers DEF ui, uiArg, uiRest
<1>3. /\ told' = told
      /\ UNCHANGED <<active, dataActive, encoders, ending, reconnecting, reconnectStop,
                      reconnectActive, reconnectThread, retries, stoppingEvent, signals, connecting,
                      streamActive, stopEvent, budget, calm, delay, announced>>
  BY <1>1, Undelayed DEF JoinReconnect, captureVars, hookVars, reconnectVars, streamVars, told
<1>8. reconnectThread \in Reconnectors /\ place[reconnectThread] = "idle"
  <2>1. uiArg = reconnectThread /\ reconnectThread # 0
    BY <1>1 DEF Stacked, UiShape
  <2>2. Ended(reconnectThread)
    BY <1>1, <2>1, Idle, TheThreads DEF JoinReconnect, uiArg
  <2> QED BY <1>1, <2>1, <2>2, TheLast, Idle, TheThreads
<1>4. Base' /\ Truths'
  <2>1. Base'
    BY <1>1, <1>2, <1>3, <1>8 DEF Base, StacksOK
  <2>2. Truths'
    BY <1>3 DEF Truths
  <2> QED BY <2>1, <2>2
<1>5. Stacked'
  <2>1. UiShape'
    BY <1>1, <1>2, <1>3, <1>8 DEF Stacked, UiShape
  <2> QED BY <1>2, <1>3, <2>1, SameStacked DEF Stacked
<1>6. Control'
  <2>1. Flags'
    BY <1>1, <1>2, <1>3, <1>8 DEF Control, Flags
  <2>2. Capture'
    BY <1>1, <1>2, <1>3, <1>8 DEF Control, Capture
  <2>3. Turns'
    BY <1>1, <1>2, <1>3, <1>8 DEF Control, Turns
  <2>4. StopFlag'
    BY <1>1, <1>2, <1>3, <1>8 DEF Control, StopFlag
  <2>5. UserStops'
    BY <1>1, <1>2, <1>3, <1>8 DEF Control, UserStops, Flags, Capture, Turns, StopFlag, StopResolved, UserStarts, SessionOpen,
        InSession, Fronts, Driven, Kinds, NoLoss, NoStop, Calm, CalmThread
  <2>6. StopResolved'
    BY <1>1, <1>2, <1>3, <1>8 DEF Control, StopResolved
  <2>7. UserStarts'
    BY <1>1, <1>2, <1>3, <1>8 DEF Control, UserStarts
  <2>8. SessionOpen'
    BY <1>1, <1>2, <1>3, <1>8 DEF Control, SessionOpen, InSession
  <2>9. Fronts'
    BY <1>1, <1>2, <1>3, <1>8 DEF Control, Fronts
  <2>10. Driven'
    BY <1>1, <1>2, <1>3, <1>8, TheLast DEF Control, Driven
  <2> QED BY <2>1, <2>2, <2>3, <2>4, <2>5, <2>6, <2>7, <2>8, <2>9, <2>10 DEF Control
<1>7. Kinds'
  BY <1>1, <1>2, <1>3, <1>8 DEF Kinds, NoLoss, NoStop, Calm, CalmThread
<1>t. Tale'
  BY <1>1, <1>2, <1>3, <1>8, TheLast DEF Tale, Live, Control, Turns, UserStarts, Fronts
<1> QED BY <1>4, <1>5, <1>6, <1>7, <1>t

\* The reconnect thread has ended.
LEMMA UserJoinsThenStops ==
    ASSUME RtmpInv, JoinReconnect(Ui), UNCHANGED <<streamVars, budget, calm>>, uiRest = ThenStop
    PROVE  RtmpInv'
<1> USE DEF RtmpInv
<1>1. ui = "join_reconnect" /\ StacksOK /\ ~Ended(Ui)
  BY Idle, TheThreads DEF JoinReconnect, Base, StacksOK, Places, At, Ended, ui
<1>2. StacksOK' /\ ui' = "info_stop" /\ uiArg' = FALSE /\ uiRest' = <<>> /\ UiOnly
  <2>1. Return(Ui)
    BY <1>1 DEF JoinReconnect
  <2>2. uiRest = ThenStop
    BY <1>1 DEF Stacked, UiShape
  <2> QED BY <1>1, <2>1, <2>2, Returns, Pending, TheThreads, TheOthers DEF ui, uiArg, uiRest
<1>3. /\ told' = told
      /\ UNCHANGED <<active, dataActive, encoders, ending, reconnecting, reconnectStop,
                      reconnectActive, reconnectThread, retries, stoppingEvent, signals, connecting,
                      streamActive, stopEvent, budget, calm, delay, announced>>
  BY <1>1, Undelayed DEF JoinReconnect, captureVars, hookVars, reconnectVars, streamVars, told
<1>8. reconnectThread \in Reconnectors /\ place[reconnectThread] = "idle"
  <2>1. uiArg = reconnectThread /\ reconnectThread # 0
    BY <1>1 DEF Stacked, UiShape
  <2>2. Ended(reconnectThread)
    BY <1>1, <2>1, Idle, TheThreads DEF JoinReconnect, uiArg
  <2> QED BY <1>1, <2>1, <2>2, TheLast, Idle, TheThreads
<1>4. Base' /\ Truths'
  <2>1. Base'
    BY <1>1, <1>2, <1>3, <1>8 DEF Base, StacksOK
  <2>2. Truths'
    BY <1>3 DEF Truths
  <2> QED BY <2>1, <2>2
<1>5. Stacked'
  <2>1. UiShape'
    BY <1>1, <1>2, <1>3, <1>8 DEF Stacked, UiShape
  <2> QED BY <1>2, <1>3, <2>1, SameStacked DEF Stacked
<1>6. Control'
  <2>1. Flags'
    BY <1>1, <1>2, <1>3, <1>8 DEF Control, Flags
  <2>2. Capture'
    BY <1>1, <1>2, <1>3, <1>8 DEF Control, Capture
  <2>3. Turns'
    BY <1>1, <1>2, <1>3, <1>8 DEF Control, Turns
  <2>4. StopFlag'
    BY <1>1, <1>2, <1>3, <1>8 DEF Control, StopFlag
  <2>5. UserStops'
    BY <1>1, <1>2, <1>3, <1>8 DEF Control, UserStops, Flags, Capture, Turns, StopFlag, StopResolved, UserStarts, SessionOpen,
        InSession, Fronts, Driven, Kinds, NoLoss, NoStop, Calm, CalmThread
  <2>6. StopResolved'
    BY <1>1, <1>2, <1>3, <1>8 DEF Control, StopResolved
  <2>7. UserStarts'
    BY <1>1, <1>2, <1>3, <1>8 DEF Control, UserStarts
  <2>8. SessionOpen'
    BY <1>1, <1>2, <1>3, <1>8 DEF Control, SessionOpen, InSession
  <2>9. Fronts'
    BY <1>1, <1>2, <1>3, <1>8 DEF Control, Fronts
  <2>10. Driven'
    BY <1>1, <1>2, <1>3, <1>8, TheLast DEF Control, Driven
  <2> QED BY <2>1, <2>2, <2>3, <2>4, <2>5, <2>6, <2>7, <2>8, <2>9, <2>10 DEF Control
<1>7. Kinds'
  BY <1>1, <1>2, <1>3, <1>8 DEF Kinds, NoLoss, NoStop, Calm, CalmThread
<1>t. Tale'
  BY <1>1, <1>2, <1>3, <1>8, TheLast DEF Tale, Live, Control, Turns, UserStarts, Fronts
<1> QED BY <1>4, <1>5, <1>6, <1>7, <1>t

\* There is no delay to be cut short.
LEMMA UserStopsByForce ==
    ASSUME RtmpInv, StopDelayed(Ui), UNCHANGED <<streamVars, budget, calm>>
    PROVE  RtmpInv'
<1> USE DEF RtmpInv
<1>1. ui = "force_stop" /\ StacksOK /\ ~Ended(Ui)
  BY Idle, TheThreads DEF StopDelayed, Base, StacksOK, Places, At, Ended, ui
<1>8. ~delay.active
  BY Undelayed
<1>2. StacksOK' /\ ui' = "info_stop" /\ uiArg' = TRUE /\ uiRest' = uiRest /\ UiOnly
  <2>1. GoOn(Ui, <<Frame("info_stop", TRUE)>>)
    BY <1>1, <1>8 DEF StopDelayed, Do
  <2>2. "info_stop" \in Places /\ TRUE \in Args
    BY Words, <1>8 DEF Places
  <2>3. /\ StacksOK' /\ place'[Ui] = "info_stop" /\ arg'[Ui] = TRUE
        /\ rest'[Ui] = rest[Ui] /\ Others(Ui)
    BY <1>1, <2>1, <2>2, Goes, TheThreads
  <2> QED BY <2>3, TheOthers DEF ui, uiArg, uiRest
<1>3. /\ told' = told
      /\ UNCHANGED <<active, dataActive, encoders, ending, reconnecting, reconnectStop,
                      reconnectActive, reconnectThread, retries, stoppingEvent, signals, connecting,
                      streamActive, stopEvent, budget, calm, delay, announced>>
  BY <1>1, Undelayed DEF StopDelayed, captureVars, hookVars, reconnectVars, streamVars, told
<1>4. Base' /\ Truths'
  <2>1. Base'
    BY <1>1, <1>2, <1>3, <1>8 DEF Base, StacksOK
  <2>2. Truths'
    BY <1>3 DEF Truths
  <2> QED BY <2>1, <2>2
<1>5. Stacked'
  <2>1. UiShape'
    BY <1>1, <1>2, <1>3, <1>8 DEF Stacked, UiShape
  <2> QED BY <1>2, <1>3, <2>1, SameStacked DEF Stacked
<1>6. Control'
  BY <1>1, <1>2, <1>3, <1>8, TheLast DEF Control, Flags, Capture, Turns, StopFlag, UserStops, StopResolved, UserStarts, SessionOpen,
      InSession, Fronts, Driven
<1>7. Kinds'
  BY <1>1, <1>2, <1>3, <1>8 DEF Kinds, NoLoss, NoStop, Calm, CalmThread
<1>t. Tale'
  BY <1>1, <1>2, <1>3, <1>8, TheLast DEF Tale, Live, Control, Turns, UserStarts, Fronts
<1> QED BY <1>4, <1>5, <1>6, <1>7, <1>t

\* The plugin is asked to stop.
LEMMA UserAsksThePlugin ==
    ASSUME RtmpInv, InfoStop(Ui), UNCHANGED calm
    PROVE  RtmpInv'
<1> USE DEF RtmpInv
<1>1. ui = "info_stop" /\ StacksOK /\ ~Ended(Ui)
  BY Idle, TheThreads DEF InfoStop, Base, StacksOK, Places, At, Ended, ui
<1>8. Arg(Ui) = uiArg
  BY <1>1, Idle, TheThreads DEF uiArg
<1>9. ~stopEvent /\ uiArg \in Args
  BY <1>1, Words DEF Control, UserStops, Stacked, UiShape
<1>2. StacksOK' /\ ui' = "stop_join" /\ uiArg' = uiArg /\ uiRest' = uiRest /\ UiOnly
  <2>1. GoOn(Ui, <<Frame("stop_join", uiArg)>>)
    BY <1>1, <1>8, <1>9 DEF InfoStop, Do
  <2>2. "stop_join" \in Places /\ uiArg \in Args
    BY Words, <1>8, <1>9 DEF Places
  <2>3. /\ StacksOK' /\ place'[Ui] = "stop_join" /\ arg'[Ui] = uiArg
        /\ rest'[Ui] = rest[Ui] /\ Others(Ui)
    BY <1>1, <2>1, <2>2, Goes, TheThreads
  <2> QED BY <2>3, TheOthers DEF ui, uiArg, uiRest
<1>3. /\ told' = told
      /\ UNCHANGED <<active, dataActive, encoders, ending, reconnecting, reconnectStop,
                      reconnectActive, reconnectThread, retries, stoppingEvent, signals, connecting,
                      streamActive, stopEvent, budget, calm, delay, announced>>
  BY <1>1, Undelayed DEF InfoStop, captureVars, hookVars, reconnectVars, streamVars, told
<1>4. Base' /\ Truths'
  <2>1. Base'
    BY <1>1, <1>2, <1>3, <1>8, <1>9 DEF Base, StacksOK
  <2>2. Truths'
    BY <1>3 DEF Truths
  <2> QED BY <2>1, <2>2
<1>5. Stacked'
  <2>1. UiShape'
    BY <1>1, <1>2, <1>3, <1>8, <1>9 DEF Stacked, UiShape
  <2> QED BY <1>2, <1>3, <2>1, SameStacked DEF Stacked
<1>6. Control'
  BY <1>1, <1>2, <1>3, <1>8, <1>9, TheLast DEF Control, Flags, Capture, Turns, StopFlag, UserStops, StopResolved, UserStarts, SessionOpen,
      InSession, Fronts, Driven
<1>7. Kinds'
  BY <1>1, <1>2, <1>3, <1>8, <1>9 DEF Kinds, NoLoss, NoStop, Calm, CalmThread
<1>t. Tale'
  BY <1>1, <1>2, <1>3, <1>8, <1>9, TheLast DEF Tale, Live, Control, Turns, UserStarts, Fronts
<1> QED BY <1>4, <1>5, <1>6, <1>7, <1>t

\* The stream is connected.
LEMMA UserStopsTheStream ==
    ASSUME RtmpInv, StopJoin(Ui), UNCHANGED calm, streamActive
    PROVE  RtmpInv'
<1> USE DEF RtmpInv
<1>1. ui = "stop_join" /\ StacksOK /\ ~Ended(Ui)
  BY Idle, TheThreads DEF StopJoin, Base, StacksOK, Places, At, Ended, ui
<1>8. Arg(Ui) = uiArg
  BY <1>1, Idle, TheThreads DEF uiArg
<1>9. co = "idle"
  <2>1. connecting => Ended(ConnectThread)
    BY DEF StopJoin
  <2> QED BY <2>1, Idle, TheThreads DEF co, Control, Flags, Base, StacksOK
<1>10. uiArg \in Args
  BY <1>1, Words DEF Stacked, UiShape
<1>2. StacksOK' /\ ui' = "stop_send" /\ uiArg' = uiArg /\ uiRest' = uiRest /\ UiOnly
  <2>1. GoOn(Ui, <<Frame("stop_send", uiArg)>>)
    BY <1>1, <1>8, <1>10 DEF StopJoin, Do
  <2>2. "stop_send" \in Places /\ uiArg \in Args
    BY Words, <1>8, <1>10 DEF Places
  <2>3. /\ StacksOK' /\ place'[Ui] = "stop_send" /\ arg'[Ui] = uiArg
        /\ rest'[Ui] = rest[Ui] /\ Others(Ui)
    BY <1>1, <2>1, <2>2, Goes, TheThreads
  <2> QED BY <2>3, TheOthers DEF ui, uiArg, uiRest
<1>3. /\ told' = told
      /\ UNCHANGED <<active, dataActive, encoders, ending, reconnecting, reconnectStop,
                      reconnectActive, reconnectThread, retries, stoppingEvent, signals, connecting,
                      streamActive, stopEvent, budget, calm, delay, announced>>
  BY <1>1, Undelayed DEF StopJoin, captureVars, hookVars, reconnectVars, streamVars, told
<1>4. Base' /\ Truths'
  <2>1. Base'
    BY <1>1, <1>2, <1>3, <1>8, <1>9, <1>10 DEF Base, StacksOK
  <2>2. Truths'
    BY <1>3 DEF Truths
  <2> QED BY <2>1, <2>2
<1>5. Stacked'
  <2>1. UiShape'
    BY <1>1, <1>2, <1>3, <1>8, <1>9, <1>10 DEF Stacked, UiShape
  <2> QED BY <1>2, <1>3, <2>1, SameStacked DEF Stacked
<1>6. Control'
  BY <1>1, <1>2, <1>3, <1>8, <1>9, <1>10, TheLast DEF Control, Flags, Capture, Turns, StopFlag, UserStops, StopResolved, UserStarts, SessionOpen,
      InSession, Fronts, Driven
<1>7. Kinds'
  BY <1>1, <1>2, <1>3, <1>8, <1>9, <1>10 DEF Kinds, NoLoss, NoStop, Calm, CalmThread
<1>t. Tale'
  BY <1>1, <1>2, <1>3, <1>8, <1>9, <1>10, TheLast DEF Tale, Live, Control, Turns, UserStarts, Fronts
<1> QED BY <1>4, <1>5, <1>6, <1>7, <1>t

\* The stream is not connected.
LEMMA UserStopsTheConnecting ==
    ASSUME RtmpInv, StopJoin(Ui), UNCHANGED calm, ~streamActive
    PROVE  RtmpInv'
<1> USE DEF RtmpInv
<1>1. ui = "stop_join" /\ StacksOK /\ ~Ended(Ui)
  BY Idle, TheThreads DEF StopJoin, Base, StacksOK, Places, At, Ended, ui
<1>9. co = "idle"
  <2>1. connecting => Ended(ConnectThread)
    BY DEF StopJoin
  <2> QED BY <2>1, Idle, TheThreads DEF co, Control, Flags, Base, StacksOK
<1>2. StacksOK' /\ ui' = "signal_stop" /\ uiArg' = "success" /\ uiRest' = uiRest /\ UiOnly
  <2>1. GoOn(Ui, <<Frame("signal_stop", "success")>>)
    BY <1>1 DEF StopJoin, Do
  <2>2. "signal_stop" \in Places /\ "success" \in Args
    BY Words DEF Places
  <2>3. /\ StacksOK' /\ place'[Ui] = "signal_stop" /\ arg'[Ui] = "success"
        /\ rest'[Ui] = rest[Ui] /\ Others(Ui)
    BY <1>1, <2>1, <2>2, Goes, TheThreads
  <2> QED BY <2>3, TheOthers DEF ui, uiArg, uiRest
<1>3. /\ told' = told
      /\ UNCHANGED <<active, dataActive, encoders, ending, reconnecting, reconnectStop,
                      reconnectActive, reconnectThread, retries, stoppingEvent, signals, connecting,
                      streamActive, stopEvent, budget, calm, delay, announced>>
  BY <1>1, Undelayed DEF StopJoin, captureVars, hookVars, reconnectVars, streamVars, told
<1>4. Base' /\ Truths'
  <2>1. Base'
    BY <1>1, <1>2, <1>3, <1>9 DEF Base, StacksOK
  <2>2. Truths'
    BY <1>3 DEF Truths
  <2> QED BY <2>1, <2>2
<1>5. Stacked'
  <2>1. UiShape'
    BY <1>1, <1>2, <1>3, <1>9 DEF Stacked, UiShape
  <2> QED BY <1>2, <1>3, <2>1, SameStacked DEF Stacked
<1>6. Control'
  BY <1>1, <1>2, <1>3, <1>9, TheLast DEF Control, Flags, Capture, Turns, StopFlag, UserStops, StopResolved, UserStarts, SessionOpen,
      InSession, Fronts, Driven
<1>7. Kinds'
  BY <1>1, <1>2, <1>3, <1>9 DEF Kinds, NoLoss, NoStop, Calm, CalmThread
<1>t. Tale'
  BY <1>1, <1>2, <1>3, <1>9, TheLast DEF Tale, Live, Control, Turns, UserStarts, Fronts
<1> QED BY <1>4, <1>5, <1>6, <1>7, <1>t

\* The send thread is told to stop.
LEMMA UserMarksTheStop ==
    ASSUME RtmpInv, StopSend(Ui), UNCHANGED calm
    PROVE  RtmpInv'
<1> USE DEF RtmpInv
<1>1. ui = "stop_send" /\ StacksOK /\ ~Ended(Ui)
  BY Idle, TheThreads DEF StopSend, Base, StacksOK, Places, At, Ended, ui
<1>2. StacksOK' /\ ui' = "idle" /\ UiOnly
  <2>1. Return(Ui)
    BY <1>1 DEF StopSend
  <2>2. uiRest = <<>>
    BY <1>1 DEF Stacked, UiShape
  <2> QED BY <1>1, <2>1, <2>2, Returns, TheThreads, TheOthers DEF ui, uiArg, uiRest
<1>3. /\ stopEvent' = TRUE
      /\ told' = told
      /\ UNCHANGED <<active, dataActive, encoders, ending, reconnecting, reconnectStop,
                      reconnectActive, reconnectThread, retries, stoppingEvent, signals, connecting,
                      streamActive, budget, calm, delay, announced>>
  BY <1>1, Undelayed DEF StopSend, captureVars, hookVars, reconnectVars, streamVars, told
<1>4. Base' /\ Truths'
  <2>1. Base'
    BY <1>1, <1>2, <1>3 DEF Base, StacksOK
  <2>2. Truths'
    BY <1>3 DEF Truths
  <2> QED BY <2>1, <2>2
<1>5. Stacked'
  <2>1. UiShape'
    BY <1>1, <1>2, <1>3 DEF Stacked, UiShape
  <2> QED BY <1>2, <1>3, <2>1, SameStacked DEF Stacked
<1>6. Control'
  BY <1>1, <1>2, <1>3, TheLast DEF Control, Flags, Capture, Turns, StopFlag, UserStops, StopResolved, UserStarts, SessionOpen,
      InSession, Fronts, Driven
<1>7. Kinds'
  BY <1>1, <1>2, <1>3 DEF Kinds, NoLoss, NoStop, Calm, CalmThread, Control, Flags, Capture, Turns, StopFlag, UserStops
<1>t. Tale'
  BY <1>1, <1>2, <1>3, TheLast DEF Tale, Live, Control, Turns, UserStarts, Fronts
<1> QED BY <1>4, <1>5, <1>6, <1>7, <1>t

\* Nothing is to be retried.
LEMMA UserEndsTheOutput ==
    ASSUME RtmpInv, SignalStop(Ui), UNCHANGED <<streamVars, budget, calm>>
    PROVE  RtmpInv'
<1> USE DEF RtmpInv
<1>1. ui = "signal_stop" /\ StacksOK /\ ~Ended(Ui)
  BY Idle, TheThreads DEF SignalStop, Base, StacksOK, Places, At, Ended, ui
<1>8. uiArg = "success" /\ Arg(Ui) = uiArg /\ ~CanReconnect("success")
  BY <1>1, Idle, TheThreads DEF Stacked, UiShape, uiArg, CanReconnect
<1>2. StacksOK' /\ ui' = "end_capture" /\ uiArg' = TRUE /\ uiRest' = uiRest /\ UiOnly
  <2>1. GoOn(Ui, <<Frame("end_capture", TRUE)>>)
    BY <1>1, <1>8 DEF SignalStop, Do
  <2>2. "end_capture" \in Places /\ TRUE \in Args
    BY Words, <1>8 DEF Places
  <2>3. /\ StacksOK' /\ place'[Ui] = "end_capture" /\ arg'[Ui] = TRUE
        /\ rest'[Ui] = rest[Ui] /\ Others(Ui)
    BY <1>1, <2>1, <2>2, Goes, TheThreads
  <2> QED BY <2>3, TheOthers DEF ui, uiArg, uiRest
<1>3. /\ reconnecting' = FALSE
      /\ told' = told
      /\ UNCHANGED <<active, dataActive, encoders, ending, reconnectStop, reconnectActive,
                      reconnectThread, retries, stoppingEvent, signals, connecting, streamActive,
                      stopEvent, budget, calm, delay, announced>>
  BY <1>1, Undelayed, <1>8 DEF SignalStop, captureVars, hookVars, reconnectVars, streamVars, told
<1>9. se = "idle" /\ co = "idle"
  BY <1>1 DEF Control, UserStops
<1>4. Base' /\ Truths'
  <2>1. Base'
    BY <1>1, <1>2, <1>3, <1>8, <1>9 DEF Base, StacksOK
  <2>2. Truths'
    BY <1>3 DEF Truths
  <2> QED BY <2>1, <2>2
<1>5. Stacked'
  <2>1. ConnectShape'
    BY <1>1, <1>2, <1>3, <1>8, <1>9 DEF Stacked, ConnectShape
  <2>2. SendShape'
    BY <1>1, <1>2, <1>3, <1>8, <1>9 DEF Stacked, SendShape
  <2>3. UiShape'
    BY <1>1, <1>2, <1>3, <1>8, <1>9 DEF Stacked, UiShape
  <2> QED BY <1>2, <1>3, <2>1, <2>2, <2>3, SameStacked DEF Stacked
<1>6. Control'
  BY <1>1, <1>2, <1>3, <1>8, <1>9, TheLast DEF Control, Flags, Capture, Turns, StopFlag, UserStops, StopResolved, UserStarts, SessionOpen,
      InSession, Fronts, Driven
<1>7. Kinds'
  BY <1>1, <1>2, <1>3, <1>8, <1>9 DEF Kinds, NoLoss, NoStop, Calm, CalmThread
<1>t. Tale'
  BY <1>1, <1>2, <1>3, <1>8, <1>9, TheLast DEF Tale, Live, Control, Turns, UserStarts, Fronts
<1> QED BY <1>4, <1>5, <1>6, <1>7, <1>t

\* Nothing was captured; the user is told of the end.
LEMMA UserIsTold ==
    ASSUME RtmpInv, EndCapture(Ui), UNCHANGED <<streamVars, budget, calm>>
    PROVE  RtmpInv'
<1> USE DEF RtmpInv
<1>1. ui = "end_capture" /\ StacksOK /\ ~Ended(Ui)
  BY Idle, TheThreads DEF EndCapture, Base, StacksOK, Places, At, Ended, ui
<1>8. Arg(Ui) = uiArg
  BY <1>1, Idle, TheThreads DEF uiArg
<1>9. ~dataActive /\ uiArg = TRUE
  BY <1>1 DEF Control, UserStops, Capture, Stacked, UiShape
<1>2. StacksOK' /\ ui' = "idle" /\ UiOnly
  <2>1. Return(Ui)
    BY <1>1, <1>8, <1>9 DEF EndCapture
  <2>2. uiRest = <<>>
    BY <1>1 DEF Stacked, UiShape
  <2> QED BY <1>1, <2>1, <2>2, Returns, TheThreads, TheOthers DEF ui, uiArg, uiRest
<1>3. /\ stoppingEvent' = TRUE
      /\ signals' \in Seq(Told) /\ told' = "stop"
      /\ UNCHANGED <<active, dataActive, encoders, ending, reconnecting, reconnectStop,
                      reconnectActive, reconnectThread, retries, connecting, streamActive,
                      stopEvent, budget, calm, delay, announced>>
  <2>1. Signal("stop")
    BY <1>1, <1>8, <1>9 DEF EndCapture, captureVars, hookVars, reconnectVars, streamVars, StopIsOver
  <2>2. "stop" \in Told
    BY DEF Told
  <2>3. signals' \in Seq(Told) /\ told' = "stop"
    BY <2>1, <2>2, Tells DEF Base
  <2> QED BY <1>1, <2>1, <2>3, Undelayed, <1>8, <1>9 DEF EndCapture, captureVars, hookVars, reconnectVars, streamVars, StopIsOver
<1>10. ~reconnecting
  BY <1>1, TheLast DEF Control, UserStops, Driven, Fronts
<1>4. Base' /\ Truths'
  <2>1. Base'
    BY <1>1, <1>2, <1>3, <1>8, <1>9, <1>10 DEF Base, StacksOK
  <2>2. Truths'
    BY <1>3 DEF Truths
  <2> QED BY <2>1, <2>2
<1>5. Stacked'
  <2>1. UiShape'
    BY <1>1, <1>2, <1>3, <1>8, <1>9, <1>10 DEF Stacked, UiShape
  <2> QED BY <1>2, <1>3, <2>1, SameStacked DEF Stacked
<1>6. Control'
  BY <1>1, <1>2, <1>3, <1>8, <1>9, <1>10, TheLast DEF Control, Flags, Capture, Turns, StopFlag, UserStops, StopResolved, UserStarts, SessionOpen,
      InSession, Fronts, Driven
<1>7. Kinds'
  BY <1>1, <1>2, <1>3, <1>8, <1>9, <1>10 DEF Kinds, NoLoss, NoStop, Calm, CalmThread, Control, Flags, Capture, Turns, StopFlag, UserStops
<1>t. Tale'
  BY <1>1, <1>2, <1>3, <1>8, <1>9, <1>10, TheLast DEF Tale, Live, Control, Turns, UserStops, UserStarts, Fronts, SessionOpen, InSession, Capture,
      Driven
<1> QED BY <1>4, <1>5, <1>6, <1>7, <1>t

-----------------------------------------------------------------------------
(* Every step.                                                             *)

\* Which thread is at a place.
LEMMA WhoIsThere ==
    ASSUME Base, Stacked, NEW t \in Threads
    PROVE  /\ place[t] \in {"actual_start", "info_start", "start_counted"} => t = Ui \/ t \in Reconnectors
           /\ place[t] = "announce" => t = Ui
           /\ place[t] \in {"actual_stop", "stop_reconnect", "check_reconnect", "join_reconnect",
                            "force_stop", "info_stop", "stop_join", "stop_send"} => t = Ui
           /\ place[t] \in {"init_connect", "try_connect", "connect_exit"} \cup Begins => t = ConnectThread
           /\ place[t] \in {"send_loop", "send_end", "send_reset", "send_exit", "take_capture", "join_end",
                            "signal_stopped", "reconnect_reset"} => t = SendThread
           /\ place[t] \in {"signal_stop", "end_capture"} => t = Ui \/ t = ConnectThread \/ t = SendThread
           /\ place[t] \in {"reconnect", "reconnect_spawn", "signal_reconnect"} =>
                 t = ConnectThread \/ t = SendThread
           /\ place[t] \in {"stop_encoders", "deactivate", "stopped", "end_exit"} => t = EndThread
           /\ place[t] \in {"reconnect_enter", "reconnect_wait", "reconnect_try", "reconnect_exit"} =>
                 t \in Reconnectors
<1>1. CASE t = Ui
  BY <1>1 DEF Stacked, UiShape, ui
<1>2. CASE t = ConnectThread
  BY <1>2 DEF Stacked, ConnectShape, co
<1>3. CASE t = SendThread
  BY <1>3 DEF Stacked, SendShape, se
<1>4. CASE t = EndThread
  BY <1>4 DEF Stacked, EndShape, en
<1>5. CASE t = EncoderThread
  BY <1>5 DEF Base
<1>6. CASE t \in Reconnectors
  BY <1>6 DEF Stacked, RetryShape
<1> QED BY <1>1, <1>2, <1>3, <1>4, <1>5, <1>6, TheThreads

\* Without a delay nobody is in the code of one.
LEMMA SomewhereElse ==
    ASSUME StacksOK, NEW t \in Threads, stack[t] # <<>>
    PROVE  Head(stack[t])[1] \notin {"delay_stopped", "delay_start", "delay_stop"}
<1>1. stack[t] \in Seq(Frames) /\ Head(stack[t]) \in Frames
  BY DEF StacksOK
<1>2. Head(stack[t])[1] \in Places
  BY <1>1 DEF Frames
<1> QED BY <1>2 DEF Places

\* The steps of the output.
LEMMA OutputKeeps ==
    ASSUME RtmpInv, LateLoss, NEW t \in Threads, OutputStep(t), UNCHANGED <<streamVars, budget, calm>>
    PROVE  RtmpInv'
<1> USE DEF RtmpInv
<1>1. StacksOK /\ Base /\ Stacked
  BY DEF Base, StacksOK
<1>2. CASE ActualStart(t)
  <2>1. place[t] = "actual_start" /\ "actual_start" \in Places
    BY <1>1, <1>2, Idle DEF ActualStart, Places
  <2>2. t = Ui \/ t \in Reconnectors
    BY <1>1, <2>1, WhoIsThere
  <2> QED BY <1>2, <2>2, UserWaitsForTheStop, RetryWaitsForTheStop
<1>3. CASE StartCounted(t)
  <2>1. place[t] = "start_counted" /\ "start_counted" \in Places
    BY <1>1, <1>3, Idle DEF StartCounted, Places
  <2>2. t = Ui \/ t \in Reconnectors
    BY <1>1, <2>1, WhoIsThere
  <2> QED BY <1>3, <2>2, UserIsCounted, RetryIsCounted
<1>4. CASE BeginCapture(t)
  <2>1. place[t] = "begin_capture" /\ "begin_capture" \in Places
    BY <1>1, <1>4, Idle DEF BeginCapture, Places
  <2>2. t = ConnectThread
    BY <1>1, <2>1, WhoIsThere
  <2> QED BY <1>4, <2>2, ConnectBegins
<1>5. CASE HookCapture(t)
  <2>1. place[t] = "hook_capture" /\ "hook_capture" \in Places
    BY <1>1, <1>5, Idle DEF HookCapture, Places
  <2>2. t = ConnectThread
    BY <1>1, <2>1, WhoIsThere
  <2> QED BY <1>5, <2>2, ConnectHooks
<1>6. CASE Activate(t)
  <2>1. place[t] = "activate" /\ "activate" \in Places
    BY <1>1, <1>6, Idle DEF Activate, Places
  <2>2. t = ConnectThread
    BY <1>1, <2>1, WhoIsThere
  <2> QED BY <1>6, <2>2, ConnectActivates
<1>7. CASE SignalStart(t)
  <2>1. place[t] = "signal_start" /\ "signal_start" \in Places
    BY <1>1, <1>7, Idle DEF SignalStart, Places
  <2>2. t = ConnectThread
    BY <1>1, <2>1, WhoIsThere
  <2> QED BY <1>7, <2>2, ConnectTells, ConnectTellsTheSuccess
<1>34. CASE Reconnected(t)
  <2>1. place[t] = "reconnected" /\ "reconnected" \in Places
    BY <1>1, <1>34, Idle DEF Reconnected, Places
  <2>2. t = ConnectThread
    BY <1>1, <2>1, WhoIsThere
  <2> QED BY <1>34, <2>2, ConnectIsBack
<1>35. CASE Announce(t)
  <2>1. place[t] = "announce" /\ "announce" \in Places
    BY <1>1, <1>35, Idle DEF Announce, Places
  <2>2. t = Ui
    BY <1>1, <2>1, WhoIsThere
  <2> QED BY <1>35, <2>2, UserAnnounces
<1>8. CASE EndCapture(t)
  <2>1. place[t] = "end_capture" /\ "end_capture" \in Places
    BY <1>1, <1>8, Idle DEF EndCapture, Places
  <2>2. t = Ui \/ t = ConnectThread \/ t = SendThread
    BY <1>1, <2>1, WhoIsThere
  <2>3. co = "end_capture" => coArg \in {TRUE, FALSE}
    BY <1>1 DEF Stacked, ConnectShape
  <2>4. (t = Ui => ui = "end_capture") /\ (t = ConnectThread => co = "end_capture") /\ (t = SendThread => se = "end_capture")
    BY <2>1 DEF ui, co, se
  <2> QED BY <1>8, <2>2, <2>3, <2>4, UserIsTold, ConnectTellsTheEnd, ConnectTellsNothing, SendEndsCapture,
           SendTellsTheEnd
<1>9. CASE TakeCapture(t)
  <2>1. place[t] = "take_capture" /\ "take_capture" \in Places
    BY <1>1, <1>9, Idle DEF TakeCapture, Places
  <2>2. t = SendThread
    BY <1>1, <2>1, WhoIsThere
  <2> QED BY <1>9, <2>2, SendTakesCapture
<1>10. CASE JoinEnd(t)
  <2>1. place[t] = "join_end" /\ "join_end" \in Places
    BY <1>1, <1>10, Idle DEF JoinEnd, Places
  <2>2. t = SendThread
    BY <1>1, <2>1, WhoIsThere
  <2> QED BY <1>10, <2>2, SendJoinsEnd
<1>11. CASE SignalStopped(t)
  <2>1. place[t] = "signal_stopped" /\ "signal_stopped" \in Places
    BY <1>1, <1>11, Idle DEF SignalStopped, Places
  <2>2. t = SendThread
    BY <1>1, <2>1, WhoIsThere
  <2>3. se = "signal_stopped" => seArg \in {TRUE, FALSE}
    BY <1>1 DEF Stacked, SendShape, Ends
  <2>4. (t = SendThread => se = "signal_stopped")
    BY <2>1 DEF se
  <2> QED BY <1>11, <2>2, <2>3, <2>4, SendTellsTheStop, SendTellsNothing
<1>12. CASE StopEncoders(t)
  <2>1. place[t] = "stop_encoders" /\ "stop_encoders" \in Places
    BY <1>1, <1>12, Idle DEF StopEncoders, Places
  <2>2. t = EndThread
    BY <1>1, <2>1, WhoIsThere
  <2> QED BY <1>12, <2>2, EndStopsEncoders
<1>13. CASE Deactivate(t)
  <2>1. place[t] = "deactivate" /\ "deactivate" \in Places
    BY <1>1, <1>13, Idle DEF Deactivate, Places
  <2>2. t = EndThread
    BY <1>1, <2>1, WhoIsThere
  <2> QED BY <1>13, <2>2, EndDeactivates
<1>14. CASE Stopped(t)
  <2>1. place[t] = "stopped" /\ "stopped" \in Places
    BY <1>1, <1>14, Idle DEF Stopped, Places
  <2>2. t = EndThread
    BY <1>1, <2>1, WhoIsThere
  <2> QED BY <1>14, <2>2, EndIsOver
<1>15. CASE EndExit(t)
  <2>1. place[t] = "end_exit" /\ "end_exit" \in Places
    BY <1>1, <1>15, Idle DEF EndExit, Places
  <2>2. t = EndThread
    BY <1>1, <2>1, WhoIsThere
  <2> QED BY <1>15, <2>2, EndLeaves
<1>16. CASE SignalStop(t)
  <2>1. place[t] = "signal_stop" /\ "signal_stop" \in Places
    BY <1>1, <1>16, Idle DEF SignalStop, Places
  <2>2. t = Ui \/ t = ConnectThread \/ t = SendThread
    BY <1>1, <2>1, WhoIsThere
  <2> QED BY <1>16, <2>2, UserEndsTheOutput, ConnectRetries, ConnectGivesUp, SendWillRetry,
           SendWillNotRetry
<1>17. CASE Reconnect(t)
  <2>1. place[t] = "reconnect" /\ "reconnect" \in Places
    BY <1>1, <1>17, Idle DEF Reconnect, Places
  <2>2. t = ConnectThread \/ t = SendThread
    BY <1>1, <2>1, WhoIsThere
  <2> QED BY <1>17, <2>2, ConnectIsStopped, ConnectIsOver, ConnectWillSpawn, SendIsStopped, SendIsOver,
           SendWillSpawn, SendWillReset
<1>18. CASE ReconnectReset(t)
  <2>1. place[t] = "reconnect_reset" /\ "reconnect_reset" \in Places
    BY <1>1, <1>18, Idle DEF ReconnectReset, Places
  <2>2. t = SendThread
    BY <1>1, <2>1, WhoIsThere
  <2> QED BY <1>18, <2>2, SendResets
<1>19. CASE ReconnectSpawn(t)
  <2>1. place[t] = "reconnect_spawn" /\ "reconnect_spawn" \in Places
    BY <1>1, <1>19, Idle DEF ReconnectSpawn, Places
  <2>2. t = ConnectThread \/ t = SendThread
    BY <1>1, <2>1, WhoIsThere
  <2> QED BY <1>19, <2>2, ConnectSpawns, SendSpawns
<1>20. CASE SignalReconnect(t)
  <2>1. place[t] = "signal_reconnect" /\ "signal_reconnect" \in Places
    BY <1>1, <1>20, Idle DEF SignalReconnect, Places
  <2>2. t = ConnectThread \/ t = SendThread
    BY <1>1, <2>1, WhoIsThere
  <2> QED BY <1>20, <2>2, ConnectTellsTheRetry, SendTellsTheRetry
<1>21. CASE ReconnectEnter(t)
  <2>1. place[t] = "reconnect_enter" /\ "reconnect_enter" \in Places
    BY <1>1, <1>21, Idle DEF ReconnectEnter, Places
  <2>2. t \in Reconnectors
    BY <1>1, <2>1, WhoIsThere
  <2> QED BY <1>21, <2>2, RetryEnters
<1>22. CASE ReconnectWait(t)
  <2>1. place[t] = "reconnect_wait" /\ "reconnect_wait" \in Places
    BY <1>1, <1>22, Idle DEF ReconnectWait, Places
  <2>2. t \in Reconnectors
    BY <1>1, <2>1, WhoIsThere
  <2> QED BY <1>22, <2>2, RetryIsStopped, RetryExpires
<1>23. CASE ReconnectTry(t)
  <2>1. place[t] = "reconnect_try" /\ "reconnect_try" \in Places
    BY <1>1, <1>23, Idle DEF ReconnectTry, Places
  <2>2. t \in Reconnectors
    BY <1>1, <2>1, WhoIsThere
  <2> QED BY <1>23, <2>2, RetryTries, RetryGivesUp
<1>24. CASE ReconnectExit(t)
  <2>1. place[t] = "reconnect_exit" /\ "reconnect_exit" \in Places
    BY <1>1, <1>24, Idle DEF ReconnectExit, Places
  <2>2. t \in Reconnectors
    BY <1>1, <2>1, WhoIsThere
  <2> QED BY <1>24, <2>2, RetryLeaves
<1>25. CASE ActualStop(t)
  <2>1. place[t] = "actual_stop" /\ "actual_stop" \in Places
    BY <1>1, <1>25, Idle DEF ActualStop, Places
  <2>2. t = Ui
    BY <1>1, <2>1, WhoIsThere
  <2> QED BY <1>25, <2>2, UserLeavesTheStop, UserForcesTheStop, UserBeginsTheStop
<1>26. CASE StopReconnect(t)
  <2>1. place[t] = "stop_reconnect" /\ "stop_reconnect" \in Places
    BY <1>1, <1>26, Idle DEF StopReconnect, Places
  <2>2. t = Ui
    BY <1>1, <2>1, WhoIsThere
  <2>3. ui = "stop_reconnect" => uiRest \in {ThenForce, ThenStop}
    BY <1>1 DEF Stacked, UiShape, Asking
  <2>4. (t = Ui => ui = "stop_reconnect")
    BY <2>1 DEF ui
  <2> QED BY <1>26, <2>2, <2>3, <2>4, UserCancelsTheDelay, UserFindsNoRetryThenForces, UserFindsNoRetryThenStops
<1>27. CASE CheckReconnect(t)
  <2>1. place[t] = "check_reconnect" /\ "check_reconnect" \in Places
    BY <1>1, <1>27, Idle DEF CheckReconnect, Places
  <2>2. t = Ui
    BY <1>1, <2>1, WhoIsThere
  <2>3. ui = "check_reconnect" => uiRest \in {ThenForce, ThenStop}
    BY <1>1 DEF Stacked, UiShape, Asking
  <2>4. (t = Ui => ui = "check_reconnect")
    BY <2>1 DEF ui
  <2> QED BY <1>27, <2>2, <2>3, <2>4, UserFindsTheThread, UserFindsNoThreadThenForces, UserFindsNoThreadThenStops
<1>28. CASE JoinReconnect(t)
  <2>1. place[t] = "join_reconnect" /\ "join_reconnect" \in Places
    BY <1>1, <1>28, Idle DEF JoinReconnect, Places
  <2>2. t = Ui
    BY <1>1, <2>1, WhoIsThere
  <2>3. ui = "join_reconnect" => uiRest \in {ThenForce, ThenStop}
    BY <1>1 DEF Stacked, UiShape, Asking
  <2>4. (t = Ui => ui = "join_reconnect")
    BY <2>1 DEF ui
  <2> QED BY <1>28, <2>2, <2>3, <2>4, UserJoinsThenForces, UserJoinsThenStops
<1>29. CASE StopDelayed(t)
  <2>1. place[t] = "force_stop" /\ "force_stop" \in Places
    BY <1>1, <1>29, Idle DEF StopDelayed, Places
  <2>2. t = Ui
    BY <1>1, <2>1, WhoIsThere
  <2> QED BY <1>29, <2>2, UserStopsByForce
<1>30. CASE DelayStopped(t)
  BY <1>1, <1>30, SomewhereElse DEF DelayStopped, At
<1>31. CASE DelayStart(t)
  BY <1>1, <1>31, SomewhereElse DEF DelayStart, At
<1>32. CASE DelayStop(t)
  BY <1>1, <1>32, SomewhereElse DEF DelayStop, At
<1>33. CASE ProcessDelay(t)
  BY <1>1, <1>33, Undelayed DEF ProcessDelay, Matures
<1> QED BY <1>2, <1>3, <1>4, <1>5, <1>6, <1>7, <1>8, <1>9, <1>10, <1>11, <1>12, <1>13,
           <1>14, <1>15, <1>16, <1>17, <1>18, <1>19, <1>20, <1>21, <1>22, <1>23, <1>24,
           <1>25, <1>26, <1>27, <1>28, <1>29, <1>30, <1>31, <1>32, <1>33, <1>34, <1>35 DEF OutputStep

\* The steps of the plugin.
LEMMA StreamKeeps ==
    ASSUME RtmpInv, LateLoss, NEW t \in Threads, UNCHANGED calm,
           InfoStart(t) \/ InfoStop(t) \/ StopJoin(t) \/ StopSend(t)
           \/ InitConnect(t) \/ Connected(t) \/ Refused(t) \/ ConnectExit(t)
           \/ SendStops(t) \/ SendFails(t) \/ SendEnd(t) \/ SendReset(t) \/ SendExit(t)
    PROVE  RtmpInv'
<1> USE DEF RtmpInv
<1>1. StacksOK /\ Base /\ Stacked
  BY DEF Base, StacksOK
<1>2. CASE InfoStart(t)
  <2>1. place[t] = "info_start" /\ "info_start" \in Places
    BY <1>1, <1>2, Idle DEF InfoStart, Places
  <2>2. t = Ui \/ t \in Reconnectors
    BY <1>1, <2>1, WhoIsThere
  <2> QED BY <1>2, <2>2, UserConnects, RetryStarts
<1>3. CASE InfoStop(t)
  <2>1. place[t] = "info_stop" /\ "info_stop" \in Places
    BY <1>1, <1>3, Idle DEF InfoStop, Places
  <2>2. t = Ui
    BY <1>1, <2>1, WhoIsThere
  <2> QED BY <1>3, <2>2, UserAsksThePlugin
<1>4. CASE StopJoin(t)
  <2>1. place[t] = "stop_join" /\ "stop_join" \in Places
    BY <1>1, <1>4, Idle DEF StopJoin, Places
  <2>2. t = Ui
    BY <1>1, <2>1, WhoIsThere
  <2> QED BY <1>4, <2>2, UserStopsTheStream, UserStopsTheConnecting
<1>5. CASE StopSend(t)
  <2>1. place[t] = "stop_send" /\ "stop_send" \in Places
    BY <1>1, <1>5, Idle DEF StopSend, Places
  <2>2. t = Ui
    BY <1>1, <2>1, WhoIsThere
  <2> QED BY <1>5, <2>2, UserMarksTheStop
<1>6. CASE InitConnect(t)
  <2>1. place[t] = "init_connect" /\ "init_connect" \in Places
    BY <1>1, <1>6, Idle DEF InitConnect, Places
  <2>2. t = ConnectThread
    BY <1>1, <2>1, WhoIsThere
  <2> QED BY <1>6, <2>2, ConnectInits
<1>7. CASE Connected(t)
  <2>1. place[t] = "try_connect" /\ "try_connect" \in Places
    BY <1>1, <1>7, Idle DEF Connected, TryConnect, Places
  <2>2. t = ConnectThread
    BY <1>1, <2>1, WhoIsThere
  <2> QED BY <1>7, <2>2, ConnectConnects
<1>8. CASE Refused(t)
  <2>1. place[t] = "try_connect" /\ "try_connect" \in Places
    BY <1>1, <1>8, Idle DEF Refused, TryConnect, Places
  <2>2. t = ConnectThread
    BY <1>1, <2>1, WhoIsThere
  <2> QED BY <1>8, <2>2, ConnectRefused
<1>9. CASE ConnectExit(t)
  <2>1. place[t] = "connect_exit" /\ "connect_exit" \in Places
    BY <1>1, <1>9, Idle DEF ConnectExit, Places
  <2>2. t = ConnectThread
    BY <1>1, <2>1, WhoIsThere
  <2> QED BY <1>9, <2>2, ConnectEnds
<1>10. CASE SendStops(t)
  <2>1. place[t] = "send_loop" /\ "send_loop" \in Places
    BY <1>1, <1>10, Idle DEF SendStops, Places
  <2>2. t = SendThread
    BY <1>1, <2>1, WhoIsThere
  <2> QED BY <1>10, <2>2, SendStopsKeeps
<1>11. CASE SendFails(t)
  <2>1. place[t] = "send_loop" /\ "send_loop" \in Places
    BY <1>1, <1>11, Idle DEF SendFails, Places
  <2>2. t = SendThread
    BY <1>1, <2>1, WhoIsThere
  <2> QED BY <1>11, <2>2, SendFailsKeeps
<1>12. CASE SendEnd(t)
  <2>1. place[t] = "send_end" /\ "send_end" \in Places
    BY <1>1, <1>12, Idle DEF SendEnd, Places
  <2>2. t = SendThread
    BY <1>1, <2>1, WhoIsThere
  <2> QED BY <1>12, <2>2, SendEndsStopped, SendEndsLost
<1>13. CASE SendReset(t)
  <2>1. place[t] = "send_reset" /\ "send_reset" \in Places
    BY <1>1, <1>13, Idle DEF SendReset, Places
  <2>2. t = SendThread
    BY <1>1, <2>1, WhoIsThere
  <2> QED BY <1>13, <2>2, SendForgets
<1>14. CASE SendExit(t)
  <2>1. place[t] = "send_exit" /\ "send_exit" \in Places
    BY <1>1, <1>14, Idle DEF SendExit, Places
  <2>2. t = SendThread
    BY <1>1, <2>1, WhoIsThere
  <2> QED BY <1>14, <2>2, SendLeaves
<1> QED BY <1>2, <1>3, <1>4, <1>5, <1>6, <1>7, <1>8, <1>9, <1>10, <1>11, <1>12, <1>13,
           <1>14

\* A step that changes nothing.
LEMMA StutterKeeps ==
    ASSUME RtmpInv, UNCHANGED vars
    PROVE  RtmpInv'
<1>1. /\ UNCHANGED <<stack, place, arg, rest, ui, uiArg, uiRest, co, coArg, coRest, se, seArg, seRest, en, enRest, told>>
      /\ UNCHANGED <<active, dataActive, encoders, ending, reconnecting, reconnectStop, reconnectActive,
                     reconnectThread, retries, stoppingEvent, signals, connecting, streamActive, stopEvent,
                     budget, calm, delay, announced>>
  BY DEF vars, outputVars, streamVars, captureVars, hookVars, reconnectVars, place, arg, rest,
         ui, uiArg, uiRest, co, coArg, coRest, se, seArg, seRest, en, enRest, told
<1>2. Base' /\ Truths'
  BY <1>1 DEF RtmpInv, Base, Truths
<1>3. Stacked'
  BY <1>1, SameStacked DEF RtmpInv, Stacked
<1>4. Control'
  BY <1>1 DEF RtmpInv, Control, Flags, Capture, Turns, StopFlag, UserStops, StopResolved, UserStarts,
       SessionOpen, InSession, Fronts, Driven
<1>5. Kinds'
  BY <1>1 DEF RtmpInv, Kinds, NoLoss, NoStop, Calm, CalmThread
<1>6. Tale'
  BY <1>1 DEF RtmpInv, Tale
<1> QED BY <1>2, <1>3, <1>4, <1>5, <1>6 DEF RtmpInv

\* Nothing has happened yet.
LEMMA RtmpInvStarts ==
    ASSUME Init, Orderly(budget)
    PROVE  RtmpInv
<1>1. \A t \in Threads : stack[t] = <<>> /\ place[t] = "idle"
  BY DEF Init, OutputInit, place
<1>2. ui = "idle" /\ co = "idle" /\ se = "idle" /\ en = "idle" /\ \A r \in Reconnectors : place[r] = "idle"
  BY <1>1, TheThreads DEF ui, co, se, en
<1>3. budget \in [calm : BOOLEAN, starts : Nat, stops : Nat, forces : Nat,
                  drops : Nat, refused : Nat, delay : Modes]
  BY StreamAssumption DEF Init
<1>4. Base
  <2>1. stack \in [Threads -> Seq(Frames)] /\ signals \in Seq(Told)
    BY EmptySeq DEF Init, OutputInit
  <2>2. delay = NoDelay("none")
    BY DEF Init, Orderly
  <2> QED BY <1>1, <1>3, <2>1, <2>2, OutputAssumption, TheThreads DEF Init, OutputInit, Base
<1>5. Truths
  <2>1. calm \in BOOLEAN
    BY <1>3 DEF Init
  <2> QED BY <2>1 DEF Init, OutputInit, Truths
<1>6. Stacked
  BY <1>2 DEF Stacked, UiShape, ConnectShape, SendShape, EndShape, RetryShape
<1>7. told = "nothing"
  BY DEF Init, OutputInit, told
<1>8. Control
  BY <1>2, <1>7 DEF Init, OutputInit, Control, Flags, Capture, Turns, StopFlag, UserStops, StopResolved,
       UserStarts, SessionOpen, InSession, Fronts, Driven
<1>9. Kinds
  <2>1. calm \/ (~calm /\ budget.forces = 0 /\ (budget.stops = 0 \/ budget.drops = 0))
    BY DEF Init, Orderly
  <2> QED BY <1>2, <2>1 DEF Init, OutputInit, Kinds, NoLoss, NoStop, Calm, CalmThread
<1>10. Tale
  BY <1>2, <1>7 DEF Init, OutputInit, Tale, Leaving, Front
<1> QED BY <1>4, <1>5, <1>6, <1>8, <1>9, <1>10 DEF RtmpInv

\* When every thread has ended, the invariant leaves no flag set.
LEMMA NothingLeft ==
    ASSUME RtmpInv
    PROVE  EverythingReset
<1> USE DEF RtmpInv
<1> SUFFICES ASSUME Quiet
             PROVE  /\ ~active /\ ~dataActive /\ ~encoders /\ ~ending
                    /\ ~reconnecting /\ stoppingEvent
                    /\ ~connecting /\ ~streamActive /\ ~stopEvent
                    /\ delay = NoDelay(delay.mode)
  BY DEF EverythingReset
<1>1. \A t \in Threads : place[t] = "idle"
  BY Idle DEF Quiet, Base, StacksOK
<1>2. ui = "idle" /\ co = "idle" /\ se = "idle" /\ en = "idle" /\ \A r \in Reconnectors : place[r] = "idle"
  BY <1>1, TheThreads DEF ui, co, se, en
<1>3. ~active /\ ~dataActive /\ ~encoders
  BY <1>2 DEF Control, Capture
<1>4. ~ending /\ ~connecting /\ ~streamActive
  BY <1>2 DEF Control, Flags
<1>5. ~stopEvent
  BY <1>2 DEF Control, StopFlag
<1>6. stoppingEvent
  BY <1>2, <1>5 DEF Control, StopResolved
<1>7. ~reconnecting
  BY <1>2, TheLast DEF Control, Driven
<1>8. delay = NoDelay(delay.mode)
  BY Undelayed DEF Base
<1> QED BY <1>3, <1>4, <1>5, <1>6, <1>7, <1>8

LEMMA RtmpInvKept ==
    ASSUME LateLoss, RtmpInv, [Next]_vars
    PROVE  RtmpInv'
<1>1. CASE UNCHANGED vars
  BY <1>1, StutterKeeps
<1>2. CASE UNCHANGED calm /\ (Start \/ Stop \/ ForceStop)
  BY <1>2, UserStartsKeeps, UserStopsKeeps, UserForcesKeeps
<1>3. ASSUME UNCHANGED calm, NEW t \in Threads, Step(t)
      PROVE  RtmpInv'
  <2>1. CASE OutputStep(t) /\ UNCHANGED <<streamVars, budget>>
    BY <1>3, <2>1, OutputKeeps
  <2> QED BY <1>3, <2>1, StreamKeeps DEF Step
<1> QED BY <1>1, <1>2, <1>3 DEF Next

\* Nothing of a stream is left behind when all its threads have ended: the
\* encoders are unhooked, no flag of the output or of the plugin is set, the next
\* start is not kept waiting and will not be ended by this stop (end_data_capture,
\* signal_stop, send_thread and the reconnect threads).
THEOREM NothingIsLeftBehind ==
    ASSUME LateLoss
    PROVE  Spec /\ Orderly(budget) => []EverythingReset
<1>1. Init /\ Orderly(budget) => RtmpInv
  BY RtmpInvStarts
<1>2. RtmpInv /\ [Next]_vars => RtmpInv'
  BY RtmpInvKept
<1>3. RtmpInv => EverythingReset
  BY NothingLeft
<1> QED BY <1>1, <1>2, <1>3, PTL DEF Spec

-----------------------------------------------------------------------------
(* What the user is told.                                                  *)

\* A signal that may follow the last one is a step of the session.
LEMMA ASignalFollows ==
    ASSUME NEW s, Signal(s), UNCHANGED announced,
           \/ told = "called" /\ s \in {"start", "stop", "failed"}
           \/ told \in Live /\ s \in {"reconnect", "stop"}
           \/ told = "reconnect" /\ s \in {"reconnect", "reconnect_success", "stop"}
    PROVE  Session!Next
<1>1. signals # <<>> /\ Session!Last = told
  BY DEF told, Session!Last, Live
<1>2. ~Session!Over
  BY <1>1 DEF Session!Over, Live
<1>3. s \in Session!Follows[Session!Last]
  BY <1>1 DEF Session!Follows, Live
<1> QED BY <1>2, <1>3 DEF Signal, Session!Next, Session!Tell

LEMMA TheStopFollows ==
    ASSUME Base, Signal("stop"), UNCHANGED announced, told \notin {"nothing", "stop", "failed"}
    PROVE  Session!Next
<1>1. told \in Told
  BY DEF Base, told
<1> QED BY <1>1, ASignalFollows DEF Told, Live

\* obs_output_start begins a session, when the last has been announced.
LEMMA TheStartBegins ==
    ASSUME RtmpInv, UiStart
    PROVE  Session!Next
<1>1. signals' = <<"called">> /\ announced' = 0
  BY DEF UiStart
<1>2. Session!Over
  BY DEF UiStart, Over, Session!Over, Session!Last
<1>3. Session!Announced
  <2>1. ui = "idle"
    BY Idle, TheThreads DEF UiStart, RtmpInv, Base, StacksOK, ui
  <2>2. announced = 1 \/ told = "nothing"
    BY <2>1 DEF RtmpInv, Tale
  <2>3. told = "nothing" => signals = <<>>
    BY DEF RtmpInv, Base, Told, told
  <2> QED BY <2>2, <2>3 DEF Session!Announced
<1> QED BY <1>1, <1>2, <1>3 DEF Session!Next, Session!Begin

\* ... and announces it once when the plugin has started.
LEMMA TheAnnouncementFollows ==
    ASSUME RtmpInv, NEW t \in Threads, Announce(t)
    PROVE  Session!Next
<1> USE DEF RtmpInv
<1>1. place[t] = "announce" /\ "announce" \in Places
  BY Idle DEF Announce, Places, Base, StacksOK
<1>2. t = Ui
  BY <1>1, WhoIsThere
<1>3. announced = 0 /\ told \notin {"nothing", "failed"}
  BY <1>1, <1>2 DEF Tale, ui
<1>4. ~Session!Announced
  BY <1>3 DEF Session!Announced, Session!Last, told
<1> QED BY <1>4 DEF Announce, Session!Next, Session!Announce

\* signal_start and signal_reconnect, on a connect thread or a send thread.
LEMMA SignalStartFollows ==
    ASSUME RtmpInv, NEW t \in Threads, SignalStart(t)
    PROVE  Session!Next
<1> USE DEF RtmpInv
<1>1. place[t] = "signal_start" /\ "signal_start" \in Places
  BY Idle DEF SignalStart, Places, Base, StacksOK
<1>2. t = ConnectThread
  BY <1>1, WhoIsThere
<1>3. co = "signal_start" /\ t # Ui
  BY <1>1, <1>2, ThreadsDiffer DEF co
<1>4. told = IF reconnecting THEN "reconnect" ELSE "called"
  BY <1>3 DEF Tale
<1>5. Signal(IF reconnecting THEN "reconnect_success" ELSE "start") /\ UNCHANGED announced
  BY <1>3, Undelayed DEF SignalStart, StartSignal
<1> QED BY <1>4, <1>5, ASignalFollows

LEMMA SignalReconnectFollows ==
    ASSUME RtmpInv, NEW t \in Threads, SignalReconnect(t)
    PROVE  Session!Next
<1> USE DEF RtmpInv
<1>1. place[t] = "signal_reconnect" /\ "signal_reconnect" \in Places
  BY Idle DEF SignalReconnect, Places, Base, StacksOK
<1>2. t = ConnectThread \/ t = SendThread
  BY <1>1, WhoIsThere
<1>3. Signal("reconnect") /\ UNCHANGED announced
  BY DEF SignalReconnect
<1>4. CASE t = ConnectThread
  <2>1. told = "reconnect"
    BY <1>1, <1>4 DEF Tale, co
  <2> QED BY <1>3, <2>1, ASignalFollows
<1>5. CASE t = SendThread
  <2>1. se = "signal_reconnect"
    BY <1>1, <1>5 DEF se
  <2>2. told \in Live
    BY <2>1 DEF Tale, Control, Turns
  <2> QED BY <1>3, <2>2, ASignalFollows
<1> QED BY <1>2, <1>4, <1>5

\* end_data_capture_internal.
LEMMA EndCaptureFollows ==
    ASSUME RtmpInv, NEW t \in Threads, EndCapture(t)
    PROVE  Session!Next \/ UNCHANGED <<signals, announced>>
<1> USE DEF RtmpInv
<1>1. place[t] = "end_capture" /\ "end_capture" \in Places
  BY Idle DEF EndCapture, Places, Base, StacksOK
<1>2. t = Ui \/ t = ConnectThread \/ t = SendThread
  BY <1>1, WhoIsThere
<1>3. told \notin {"nothing", "stop", "failed"}
  <2>1. CASE t = Ui
    BY <1>1, <2>1 DEF Tale, ui
  <2>2. CASE t = ConnectThread
    BY <1>1, <2>2 DEF Control, SessionOpen, InSession, co
  <2>3. CASE t = SendThread
    BY <1>1, <2>3 DEF Control, SessionOpen, InSession, se
  <2> QED BY <1>2, <2>1, <2>2, <2>3
<1>4. UNCHANGED announced /\ (Signal("stop") \/ UNCHANGED signals)
  BY DEF EndCapture
<1> QED BY <1>3, <1>4, TheStopFollows

LEMMA SignalStoppedFollows ==
    ASSUME RtmpInv, NEW t \in Threads, SignalStopped(t)
    PROVE  Session!Next \/ UNCHANGED <<signals, announced>>
<1> USE DEF RtmpInv
<1>1. place[t] = "signal_stopped" /\ "signal_stopped" \in Places
  BY Idle DEF SignalStopped, Places, Base, StacksOK
<1>2. t = SendThread
  BY <1>1, WhoIsThere
<1>3. told \notin {"nothing", "stop", "failed"}
  BY <1>1, <1>2 DEF Control, SessionOpen, InSession, se
<1>4. UNCHANGED announced /\ (Signal("stop") \/ UNCHANGED signals)
  BY DEF SignalStopped
<1> QED BY <1>3, <1>4, TheStopFollows

\* The start of the user has succeeded.
LEMMA StartCountedFollows ==
    ASSUME RtmpInv, NEW t \in Threads, StartCounted(t)
    PROVE  UNCHANGED <<signals, announced>>
<1> USE DEF RtmpInv
<1>1. place[t] = "start_counted" /\ "start_counted" \in Places
  BY Idle DEF StartCounted, Places, Base, StacksOK
<1>2. t = Ui => Arg(t)
  BY <1>1, Idle DEF Stacked, UiShape, ui, uiArg, Base, StacksOK
<1> QED BY <1>2 DEF StartCounted

\* Every step of the streaming output is a step of a session or tells nothing.
LEMMA OutputFollows ==
    ASSUME RtmpInv, NEW t \in Threads, OutputStep(t)
    PROVE  Session!Next \/ UNCHANGED <<signals, announced>>
<1>1. CASE SignalStart(t) \/ SignalReconnect(t) \/ EndCapture(t) \/ SignalStopped(t)
  BY <1>1, SignalStartFollows, SignalReconnectFollows, EndCaptureFollows, SignalStoppedFollows
<1>2. CASE StartCounted(t) \/ Announce(t)
  BY <1>2, StartCountedFollows, TheAnnouncementFollows
<1>8. CASE ActualStart(t) \/ BeginCapture(t) \/ HookCapture(t) \/ Activate(t) \/ Reconnected(t)
  BY <1>8 DEF ActualStart, BeginCapture, HookCapture, Activate, Reconnected
<1>3. CASE TakeCapture(t) \/ JoinEnd(t) \/ StopEncoders(t) \/ Deactivate(t) \/ Stopped(t) \/ EndExit(t)
  BY <1>3 DEF TakeCapture, JoinEnd, StopEncoders, Deactivate, Stopped, EndExit
<1>4. CASE SignalStop(t) \/ Reconnect(t) \/ ReconnectReset(t) \/ ReconnectSpawn(t)
  BY <1>4 DEF SignalStop, Reconnect, ReconnectReset, ReconnectSpawn
<1>5. CASE ReconnectEnter(t) \/ ReconnectWait(t) \/ ReconnectTry(t) \/ ReconnectExit(t)
  BY <1>5 DEF ReconnectEnter, ReconnectWait, ReconnectTry, ReconnectExit
<1>6. CASE ActualStop(t) \/ StopReconnect(t) \/ CheckReconnect(t) \/ JoinReconnect(t) \/ StopDelayed(t)
  BY <1>6 DEF ActualStop, StopReconnect, CheckReconnect, JoinReconnect, StopDelayed
<1>7. CASE DelayStopped(t) \/ DelayStart(t) \/ DelayStop(t) \/ ProcessDelay(t)
  BY <1>7 DEF DelayStopped, DelayStart, DelayStop, ProcessDelay
<1> QED BY <1>1, <1>2, <1>3, <1>4, <1>5, <1>6, <1>7, <1>8 DEF OutputStep

LEMMA EveryStepFollows ==
    ASSUME RtmpInv, [Next]_vars
    PROVE  [Session!Next]_<<signals, announced>>
<1>1. CASE UNCHANGED vars
  BY <1>1 DEF vars, outputVars
<1>2. CASE Start
  BY <1>2, TheStartBegins DEF Start
<1>3. CASE Stop \/ ForceStop
  BY <1>3 DEF Stop, ForceStop, UiStop, UiForceStop
<1>4. ASSUME NEW t \in Threads, Step(t)
      PROVE  Session!Next \/ UNCHANGED <<signals, announced>>
  <2>1. CASE OutputStep(t)
    BY <2>1, OutputFollows
  <2>2. CASE InfoStart(t)
    BY <2>2 DEF InfoStart
  <2>3. CASE InfoStop(t) \/ StopJoin(t) \/ StopSend(t) \/ InitConnect(t) \/ Connected(t) \/ Refused(t) \/ ConnectExit(t)
    BY <2>3 DEF InfoStop, StopJoin, StopSend, InitConnect, Connected, Refused, ConnectExit
  <2>4. CASE SendStops(t) \/ SendFails(t) \/ SendEnd(t) \/ SendReset(t) \/ SendExit(t)
    BY <2>4 DEF SendStops, SendFails, SendEnd, SendReset, SendExit
  <2> QED BY <1>4, <2>1, <2>2, <2>3, <2>4 DEF Step
<1> QED BY <1>1, <1>2, <1>3, <1>4 DEF Next

\* What the user is told, from the start of a stream to its end, are sessions as
\* StreamSession has them: each begins when the last is over, the signals come in
\* an order the button and the status bar can follow, "stop" comes once and last,
\* and "starting" comes once before the next call, at whatever moment of the
\* session (obs_output_start, signal_start, output_reconnect and
\* end_data_capture_internal).
THEOREM SignalsFormSessions ==
    ASSUME LateLoss
    PROVE  Spec /\ Orderly(budget) => Session!Spec
<1>1. Init /\ Orderly(budget) => RtmpInv
  BY RtmpInvStarts
<1>2. RtmpInv /\ [Next]_vars => RtmpInv'
  BY RtmpInvKept
<1>3. Init => Session!Init
  BY DEF Init, OutputInit, Session!Init
<1>4. RtmpInv /\ [Next]_vars => [Session!Next]_<<signals, announced>>
  BY EveryStepFollows
<1> QED BY <1>1, <1>2, <1>3, <1>4, PTL DEF Spec, Session!Spec
================================================================================
