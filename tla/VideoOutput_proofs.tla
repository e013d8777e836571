-------------------------- MODULE VideoOutput_proofs --------------------------
(***************************************************************************)
(* The ring of the video output is correct for every size of the cache,    *)
(* any set of inputs and any divisors.  The inductive invariant says where *)
(* the frames are (RingConsistent), that each of them ends no later than   *)
(* what was produced (RingBounds), that the semaphore counts the frames    *)
(* (WakesForEachFrame), that a frame in delivery is the oldest (FrameKept) *)
(* and that the stop flag precedes the post (FlagFirst).                   *)
(* From it follows, step by step, that the ring is the queue of FrameQueue *)
(* (Frames), and with Cadence that each input is called in its turn.       *)
(* SkipInv, running totals over the slots of the ring, says that each tick *)
(* without a frame of its own is in the statistics or in one slot.         *)
(***************************************************************************)
EXTENDS VideoOutput, TLAPS, SequenceTheorems

Delivering == {"got", "deliver", "finish"}

\* A locked frame has a slot; a frame shows no picture from its future and ends
\* no later than the ticks produced.
RingBounds ==
    /\ graphics = "locked" => available > 0
    /\ \A k \in 0..(Pending - 1) :
          /\ slots[At(k)].pic <= slots[At(k)].timestamp
          /\ slots[At(k)].timestamp + slots[At(k)].count <= produced

\* video_output_cur_frame keeps frame_info over its two sections: nobody else
\* moves first_added.
FrameKept == video \in Delivering => frameInfo = firstAdded

\* video_output_stop sets the flag before it posts.
FlagFirst == stopper # "idle" => stop

Ring == RingConsistent /\ RingBounds
IInv == TypeOK /\ Ring /\ WakesForEachFrame /\ FrameKept /\ FlagFirst

-----------------------------------------------------------------------------
(* The places of the ring.                                                 *)

\* The places 0..CacheSize - 1 after a slot are different slots.
LEMMA Places ==
    ASSUME NEW s \in Slots, NEW k \in 0..(CacheSize - 1)
    PROVE  /\ Place(s, k) \in Slots
           /\ \A j \in 0..(CacheSize - 1) : Place(s, j) = Place(s, k) => j = k
           /\ Place(s, 0) = s
           /\ k + 1 < CacheSize =>
                 /\ After(Place(s, k)) = Place(s, k + 1)
                 /\ Place(After(s), k) = Place(s, k + 1)
           /\ k + 1 = CacheSize => Place(After(s), k) = s
BY VideoOutputAssumption DEF Place, After, Slots

\* The number of frames in the ring, the one being written included.
LEMMA PendingType ==
    ASSUME TypeOK, RingBounds
    PROVE  /\ CacheSize \in Nat /\ CacheSize > 0
           /\ Unlocked \in 0..CacheSize
           /\ Pending \in 0..CacheSize
           /\ graphics = "locked" => Pending = Unlocked + 1
           /\ graphics # "locked" => Pending = Unlocked
BY VideoOutputAssumption DEF TypeOK, RingBounds, Pending, Unlocked, One

\* A frame that is prolonged, and one that has been shown, is still a frame.
LEMMA LongerFrame ==
    ASSUME NEW f \in Frame, NEW c \in Nat
    PROVE  /\ Longer(f, c) \in Frame
           /\ Longer(f, c).pic = f.pic /\ Longer(f, c).timestamp = f.timestamp
           /\ Longer(f, c).count = f.count + c
           /\ Longer(f, c).skipped = f.skipped + c
<1> DEFINE n == f.count + c
           s == f.skipped + c
<1>1. n \in Nat /\ s \in Nat
  BY DEF Frame
<1>2. Longer(f, c) = [f EXCEPT !.count = n, !.skipped = s]
  BY DEF Longer, Frame
<1> HIDE DEF n, s
<1>3. LET g == [f EXCEPT !.count = n, !.skipped = s]
      IN  /\ g \in Frame /\ g.pic = f.pic /\ g.timestamp = f.timestamp
          /\ g.count = n /\ g.skipped = s
  BY <1>1 DEF Frame
<1> QED BY <1>2, <1>3 DEF n, s

LEMMA ShownFrame ==
    ASSUME NEW f \in Frame, NEW skip \in BOOLEAN, f.count > 0,
           skip => f.skipped > 0
    PROVE  /\ Shown(f, skip) \in Frame
           /\ Shown(f, skip).pic = f.pic
           /\ Shown(f, skip).timestamp = f.timestamp + 1
           /\ Shown(f, skip).count = f.count - 1
           /\ Shown(f, skip).skipped = IF skip THEN f.skipped - 1 ELSE f.skipped
<1> DEFINE t == f.timestamp + 1
           n == f.count - 1
           s == IF skip THEN f.skipped - 1 ELSE f.skipped
<1>1. t \in Nat /\ n \in Nat /\ s \in Nat
  BY DEF Frame
<1>2. Shown(f, skip) = [f EXCEPT !.timestamp = t, !.count = n, !.skipped = s]
  BY DEF Shown, Frame
<1> HIDE DEF t, n, s
<1>3. LET g == [f EXCEPT !.timestamp = t, !.count = n, !.skipped = s]
      IN  /\ g \in Frame /\ g.pic = f.pic /\ g.timestamp = t
          /\ g.count = n /\ g.skipped = s
  BY <1>1 DEF Frame
<1> QED BY <1>2, <1>3 DEF t, n, s

\* A step that touches neither the ring nor its history keeps it consistent.
LEMMA RingUntouched ==
    ASSUME Ring,
           UNCHANGED <<ringVars, graphics, produced, delivered>>
    PROVE  Ring'
BY DEF Ring, RingConsistent, RingBounds, ringVars, Pending, Unlocked, One, At

-----------------------------------------------------------------------------
LEMMA InitInv == Init => IInv
<1> SUFFICES ASSUME Init PROVE IInv
  OBVIOUS
<1>1. TypeOK
  <2>1. inputs \in Seq([id : Inputs, counter : Nat, since : Nat, missed : Nat])
    BY EmptySeq DEF Init
  <2>2. slots \in [Slots -> Frame]
    BY DEF Init, EmptySlot, Frame
  <2>3. 0 \in Slots /\ CacheSize \in 0..CacheSize /\ 0 \in 0..MaxChanges
    BY VideoOutputAssumption DEF Slots
  <2> QED BY <2>1, <2>2, <2>3 DEF Init, TypeOK
<1>2. Pending = 0 /\ Unlocked = 0
  BY VideoOutputAssumption DEF Init, Pending, Unlocked, One
<1>3. Ring
  BY <1>2 DEF Init, Ring, RingConsistent, RingBounds
<1>4. WakesForEachFrame /\ FrameKept /\ FlagFirst
  BY <1>2 DEF FlagFirst, Init, WakesForEachFrame, FrameKept, Busy, One,
              Delivering
<1> QED BY <1>1, <1>3, <1>4 DEF IInv

(* The three steps that move the ring.                                     *)

\* video_output_lock_frame with no slot left: the newest frame lasts longer.
LEMMA ExtendInv ==
    ASSUME IInv, NEW c \in 1..MaxCount, LockFrame(c), available = 0
    PROVE  IInv'
<1> DEFINE f == slots[lastAdded]
           g == Longer(f, c)
           last == CacheSize - 1
<1>1. /\ slots' = [slots EXCEPT ![lastAdded] = g]
      /\ UNCHANGED <<lastAdded, graphics, available, firstAdded, delivered>>
      /\ graphics = "idle" /\ produced' = produced + c
      /\ skipsAdded' = skipsAdded + c
  BY DEF LockFrame, Extend
<1>2. c \in Nat /\ c > 0 /\ CacheSize \in Nat /\ last \in 0..last
  BY VideoOutputAssumption
<1>3. /\ f \in Frame /\ g \in Frame
      /\ g.pic = f.pic /\ g.timestamp = f.timestamp
      /\ g.count = f.count + c /\ g.skipped = f.skipped + c
  <2>1. f \in Frame
    BY DEF IInv, TypeOK
  <2> QED BY <1>2, <2>1, LongerFrame
<1> HIDE DEF f, g
<1>4. TypeOK'
  <2>1. slots' \in [Slots -> Frame]
    BY <1>1, <1>3 DEF IInv, TypeOK
  <2> QED BY <1>1, <1>2, <2>1 DEF IInv, TypeOK, encoderVars, LockFrame, inputVars
<1>5. /\ Pending = CacheSize /\ Pending' = CacheSize /\ Unlocked' = Unlocked
      /\ \A k : At(k)' = Place(firstAdded, k) /\ At(k) = Place(firstAdded, k)
  BY <1>1, <1>2 DEF Pending, Unlocked, One, At
<1>6. firstAdded \in Slots /\ lastAdded = Place(firstAdded, last)
  BY <1>2, <1>5 DEF IInv, Ring, RingConsistent, TypeOK
<1>7. slots' = [slots EXCEPT ![Place(firstAdded, last)] = g]
      /\ f = slots[Place(firstAdded, last)]
  BY <1>1, <1>6 DEF f
<1>8. ASSUME NEW k \in 0..last
      PROVE  /\ Place(firstAdded, k) \in Slots
             /\ slots'[Place(firstAdded, k)] =
                   IF k = last THEN g ELSE slots[Place(firstAdded, k)]
  BY <1>2, <1>6, <1>7, Places DEF IInv, TypeOK
<1>9. ASSUME NEW k \in 0..last
      PROVE  /\ slots[Place(firstAdded, k)].skipped
                    < slots[Place(firstAdded, k)].count
             /\ slots[Place(firstAdded, k)].timestamp
                    + slots[Place(firstAdded, k)].count =
                   IF k = last THEN produced
                   ELSE slots[Place(firstAdded, k + 1)].timestamp
             /\ slots[Place(firstAdded, k)].pic
                    <= slots[Place(firstAdded, k)].timestamp
             /\ slots[Place(firstAdded, k)].timestamp
                    + slots[Place(firstAdded, k)].count <= produced
  BY <1>5 DEF IInv, Ring, RingConsistent, RingBounds
<1>10. ASSUME NEW k \in 0..last
       PROVE  /\ slots'[Place(firstAdded, k)].skipped
                    < slots'[Place(firstAdded, k)].count
              /\ slots'[Place(firstAdded, k)].timestamp
                    + slots'[Place(firstAdded, k)].count =
                   IF k = last THEN produced'
                   ELSE slots'[Place(firstAdded, k + 1)].timestamp
              /\ slots'[Place(firstAdded, k)].pic
                    <= slots'[Place(firstAdded, k)].timestamp
              /\ slots'[Place(firstAdded, k)].timestamp
                    + slots'[Place(firstAdded, k)].count <= produced'
  <2>0. produced \in Nat /\ slots[Place(firstAdded, k)] \in Frame
    BY <1>8 DEF IInv, TypeOK
  <2>1. CASE k = last
    BY <1>1, <1>2, <1>3, <1>7, <1>8, <1>9, <2>0, <2>1 DEF Frame
  <2>2. CASE k # last
    <3>1. k + 1 \in 0..last
      BY <1>2, <2>2
    <3>2. slots'[Place(firstAdded, k + 1)].timestamp
             = slots[Place(firstAdded, k + 1)].timestamp
      BY <1>3, <1>7, <1>8, <3>1
    <3>3. slots'[Place(firstAdded, k)] = slots[Place(firstAdded, k)]
      BY <1>8, <2>2
    <3> QED BY <1>1, <1>2, <1>9, <2>0, <2>2, <3>2, <3>3 DEF Frame
  <2> QED BY <2>1, <2>2
<1>11. slots'[firstAdded].timestamp = delivered
  <2>1. Place(firstAdded, 0) = firstAdded /\ 0 \in 0..last
    BY <1>2, <1>6, Places
  <2>2. slots'[Place(firstAdded, 0)].timestamp = slots[Place(firstAdded, 0)].timestamp
    BY <1>3, <1>7, <1>8, <2>1
  <2> QED BY <1>2, <1>5, <2>1, <2>2 DEF IInv, Ring, RingConsistent
<1>12. Ring'
  BY <1>1, <1>2, <1>5, <1>6, <1>10, <1>11 DEF Ring, RingConsistent, RingBounds
<1>13. WakesForEachFrame' /\ FrameKept' /\ FlagFirst'
  BY <1>1, <1>5 DEF FlagFirst, IInv, WakesForEachFrame, FrameKept, LockFrame,
                    Busy, One
<1> QED BY <1>4, <1>12, <1>13 DEF IInv

\* video_output_lock_frame with a free slot: a new frame after the newest.
LEMMA AcceptInv ==
    ASSUME IInv, NEW c \in 1..MaxCount, LockFrame(c), available # 0
    PROVE  IInv'
<1> DEFINE n == Pending
           new == [pic |-> produced, timestamp |-> produced, count |-> c,
                   skipped |-> 0]
<1>1. /\ lastAdded' = NextSlot
      /\ slots' = [slots EXCEPT ![lastAdded'] = new]
      /\ UNCHANGED <<available, firstAdded, delivered, skipsAdded>>
      /\ graphics = "idle" /\ graphics' = "locked" /\ produced' = produced + c
  BY DEF LockFrame
<1>2. c \in Nat /\ c > 0 /\ CacheSize \in Nat /\ produced \in Nat
  BY VideoOutputAssumption DEF IInv, TypeOK
<1>3. /\ n = Unlocked /\ n \in 0..(CacheSize - 1) /\ (n = 0 <=> available = CacheSize)
      /\ Unlocked' = Unlocked /\ Pending' = n + 1
      /\ \A k : At(k)' = Place(firstAdded, k) /\ At(k) = Place(firstAdded, k)
  BY <1>1, <1>2 DEF IInv, TypeOK, Pending, Unlocked, One, At
<1>4. new \in Frame /\ firstAdded \in Slots
  BY <1>2 DEF Frame, IInv, TypeOK
<1>5. lastAdded = IF n = 0 THEN firstAdded ELSE Place(firstAdded, n - 1)
  BY <1>3 DEF IInv, Ring, RingConsistent
<1> HIDE DEF n
<1>6. lastAdded' = Place(firstAdded, n)
  <2>1. CASE n = 0
    BY <1>1, <1>2, <1>3, <1>4, <1>5, <2>1, Places DEF NextSlot
  <2>2. CASE n # 0
    <3>1. n - 1 \in 0..(CacheSize - 1) /\ (n - 1) + 1 = n /\ n < CacheSize
      BY <1>2, <1>3, <2>2
    <3>2. After(Place(firstAdded, n - 1)) = Place(firstAdded, n)
      BY <1>4, <3>1, Places
    <3> QED BY <1>1, <1>3, <1>5, <2>2, <3>2 DEF NextSlot
  <2> QED BY <2>1, <2>2
<1>7. Place(firstAdded, n) \in Slots
  BY <1>3, <1>4, Places
<1>8. TypeOK'
  <2>1. slots' \in [Slots -> Frame]
    BY <1>1, <1>4, <1>6, <1>7 DEF IInv, TypeOK
  <2> QED BY <1>1, <1>2, <1>6, <1>7, <2>1 DEF IInv, TypeOK, encoderVars, LockFrame, inputVars
<1>9. ASSUME NEW k \in 0..n
      PROVE  slots'[Place(firstAdded, k)] =
                IF k = n THEN new ELSE slots[Place(firstAdded, k)]
  <2>1. k \in 0..(CacheSize - 1)
    BY <1>2, <1>3
  <2>2. k # n => Place(firstAdded, k) # Place(firstAdded, n)
    BY <1>3, <1>4, <2>1, Places
  <2>3. Place(firstAdded, k) \in Slots
    BY <1>4, <2>1, Places
  <2> QED BY <1>1, <1>6, <1>7, <2>2, <2>3 DEF IInv, TypeOK
<1>10. ASSUME NEW k \in 0..(n - 1)
       PROVE  /\ slots[Place(firstAdded, k)] \in Frame
              /\ slots[Place(firstAdded, k)].skipped
                    < slots[Place(firstAdded, k)].count
              /\ slots[Place(firstAdded, k)].timestamp
                    + slots[Place(firstAdded, k)].count =
                   IF k = n - 1 THEN produced
                   ELSE slots[Place(firstAdded, k + 1)].timestamp
              /\ slots[Place(firstAdded, k)].pic
                    <= slots[Place(firstAdded, k)].timestamp
              /\ slots[Place(firstAdded, k)].timestamp
                    + slots[Place(firstAdded, k)].count <= produced
  <2>1. k \in 0..(CacheSize - 1)
    BY <1>2, <1>3
  <2>2. Place(firstAdded, k) \in Slots
    BY <1>4, <2>1, Places
  <2> QED BY <1>3, <2>2 DEF n, IInv, TypeOK, Ring, RingConsistent, RingBounds
<1>11. ASSUME NEW k \in 0..n
       PROVE  /\ slots'[Place(firstAdded, k)].skipped
                    < slots'[Place(firstAdded, k)].count
              /\ slots'[Place(firstAdded, k)].timestamp
                    + slots'[Place(firstAdded, k)].count =
                   IF k = n THEN produced'
                   ELSE slots'[Place(firstAdded, k + 1)].timestamp
              /\ slots'[Place(firstAdded, k)].pic
                    <= slots'[Place(firstAdded, k)].timestamp
              /\ slots'[Place(firstAdded, k)].timestamp
                    + slots'[Place(firstAdded, k)].count <= produced'
  <2>1. CASE k = n
    BY <1>1, <1>2, <1>9, <2>1
  <2>2. CASE k # n
    <3>1. k \in 0..(n - 1) /\ k + 1 \in 0..n /\ (k + 1 = n <=> k = n - 1)
      BY <1>2, <1>3, <2>2
    <3>2. slots'[Place(firstAdded, k + 1)].timestamp =
             IF k = n - 1 THEN produced ELSE slots[Place(firstAdded, k + 1)].timestamp
      BY <1>9, <3>1
    <3>3. slots'[Place(firstAdded, k)] = slots[Place(firstAdded, k)]
      BY <1>9, <2>2
    <3> QED BY <1>1, <1>2, <1>10, <2>2, <3>1, <3>2, <3>3 DEF Frame
  <2> QED BY <2>1, <2>2
<1>12. slots'[firstAdded].timestamp = delivered
  <2>1. Place(firstAdded, 0) = firstAdded /\ 0 \in 0..n
    BY <1>2, <1>3, <1>4, Places
  <2>2. n = 0 => delivered = produced
    BY DEF IInv, Ring, RingConsistent, n
  <2>3. n # 0 => slots[firstAdded].timestamp = delivered
    BY DEF IInv, Ring, RingConsistent, n
  <2> QED BY <1>9, <2>1, <2>2, <2>3
<1>13. Ring'
  <2>1. 0..(Pending' - 1) = 0..n /\ Pending' - 1 = n /\ Pending' # 0
    BY <1>2, <1>3
  <2>2. RingConsistent'
    BY <1>1, <1>3, <1>6, <1>11, <1>12, <2>1 DEF RingConsistent
  <2>3. RingBounds'
    <3>1. available > 0
      BY <1>2, <1>3 DEF IInv, TypeOK
    <3> QED BY <1>1, <1>3, <1>11, <2>1, <3>1 DEF RingBounds
  <2> QED BY <2>2, <2>3 DEF Ring
<1>14. WakesForEachFrame' /\ FrameKept' /\ FlagFirst'
  BY <1>1, <1>3 DEF FlagFirst, IInv, WakesForEachFrame, FrameKept, LockFrame,
                    Busy, One
<1> QED BY <1>8, <1>13, <1>14 DEF IInv

\* video_output_unlock_frame: the frame that was written can be taken.
LEMMA UnlockInv ==
    ASSUME IInv, UnlockFrame
    PROVE  IInv'
<1>1. /\ available > 0 /\ graphics = "locked" /\ graphics' = "idle"
      /\ available' = available - 1 /\ sem' = sem + 1
      /\ UNCHANGED <<slots, firstAdded, lastAdded, produced, delivered>>
  BY DEF UnlockFrame, IInv, Ring, RingBounds, Wake, history
<1>2. TypeOK'
  BY <1>1, VideoOutputAssumption
     DEF IInv, TypeOK, encoderVars, UnlockFrame, inputVars, history
<1>3. /\ Pending' = Pending /\ Unlocked' = Unlocked + 1 /\ Unlocked \in Nat
      /\ \A k : At(k)' = At(k)
  BY <1>1, VideoOutputAssumption DEF IInv, TypeOK, Pending, Unlocked, One, At
<1>4. Ring'
  BY <1>1, <1>3 DEF IInv, Ring, RingConsistent, RingBounds
<1>5. WakesForEachFrame' /\ FrameKept' /\ FlagFirst'
  BY <1>1, <1>3
     DEF FlagFirst, IInv, TypeOK, WakesForEachFrame, FrameKept, UnlockFrame,
         Busy, One
<1> QED BY <1>2, <1>4, <1>5 DEF IInv

\* The second section of video_output_cur_frame: the oldest frame has been shown
\* for one more tick, and leaves the ring with its last.
LEMMA FinishInv ==
    ASSUME IInv, FinishFrame
    PROVE  IInv'
<1> DEFINE n == Pending
           f == slots[firstAdded]
           skip == ~Complete(f.count) /\ CountsAsSkipped(f)
           g == Shown(f, skip)
<1>1. /\ video = "finish" /\ frameInfo = firstAdded
      /\ CacheSize \in Nat /\ CacheSize > 0
      /\ Unlocked \in 1..CacheSize /\ n \in 1..CacheSize
      /\ graphics = "locked" => n = Unlocked + 1
      /\ graphics # "locked" => n = Unlocked
  BY PendingType DEF FinishFrame, IInv, Ring, FrameKept, Delivering,
     WakesForEachFrame
<1>2. /\ slots' = [slots EXCEPT ![firstAdded] = g]
      /\ skippedFrames' = IF skip THEN skippedFrames + 1 ELSE skippedFrames
      /\ delivered' = delivered + 1
      /\ UNCHANGED <<sem, stop, graphics, frameInfo, produced>>
  BY <1>1 DEF FinishFrame
<1>3. firstAdded \in Slots /\ Place(firstAdded, 0) = firstAdded
      /\ delivered \in Nat /\ produced \in Nat
  BY <1>1, Places DEF IInv, TypeOK
<1>4. ASSUME NEW k \in 0..(n - 1)
      PROVE  /\ Place(firstAdded, k) \in Slots
             /\ slots[Place(firstAdded, k)] \in Frame
             /\ slots[Place(firstAdded, k)].skipped
                    < slots[Place(firstAdded, k)].count
             /\ slots[Place(firstAdded, k)].timestamp
                    + slots[Place(firstAdded, k)].count =
                   IF k = n - 1 THEN produced
                   ELSE slots[Place(firstAdded, k + 1)].timestamp
             /\ slots[Place(firstAdded, k)].pic
                    <= slots[Place(firstAdded, k)].timestamp
             /\ slots[Place(firstAdded, k)].timestamp
                    + slots[Place(firstAdded, k)].count <= produced
             /\ slots'[Place(firstAdded, k)] =
                   IF k = 0 THEN g ELSE slots[Place(firstAdded, k)]
  <2>1. k \in 0..(CacheSize - 1) /\ 0 \in 0..(CacheSize - 1)
    BY <1>1
  <2>2. Place(firstAdded, k) \in Slots /\ (k # 0 => Place(firstAdded, k) # firstAdded)
    BY <1>3, <2>1, Places
  <2>3. slots[Place(firstAdded, k)] \in Frame
    BY <2>2 DEF IInv, TypeOK
  <2> HIDE DEF g
  <2>4. slots'[Place(firstAdded, k)] =
           IF k = 0 THEN g ELSE slots[Place(firstAdded, k)]
    BY <1>2, <1>3, <2>2 DEF IInv, TypeOK
  <2> QED BY <2>2, <2>3, <2>4 DEF IInv, Ring, RingConsistent, RingBounds, At
<1>5. /\ f \in Frame /\ f.timestamp = delivered /\ f.skipped < f.count
      /\ f.timestamp + f.count = IF n = 1 THEN produced
                                 ELSE slots[Place(firstAdded, 1)].timestamp
      /\ f.pic <= f.timestamp /\ f.timestamp + f.count <= produced
  <2>1. 0 \in 0..(n - 1) /\ (0 = n - 1 <=> n = 1) /\ n # 0
    BY <1>1
  <2>2. f.timestamp = delivered
    BY <2>1 DEF IInv, Ring, RingConsistent
  <2>3. f = slots[Place(firstAdded, 0)]
    BY <1>3
  <2>4. Place(firstAdded, 0 + 1) = Place(firstAdded, 1)
    BY SMT
  <2> HIDE DEF f, g, n
  <2> QED BY <1>4, <2>1, <2>2, <2>3, <2>4
<1>6. /\ f.timestamp \in Nat /\ f.count \in Nat /\ f.skipped \in Nat
      /\ f.pic \in Nat /\ f.count > 0
      /\ skip \in BOOLEAN /\ (skip => f.skipped > 0)
  BY <1>5 DEF Frame, CountsAsSkipped
<1>7. /\ g \in Frame /\ g.pic = f.pic /\ g.timestamp = f.timestamp + 1
      /\ g.count = f.count - 1
      /\ g.skipped = IF skip THEN f.skipped - 1 ELSE f.skipped
  BY <1>5, <1>6, ShownFrame
<1>8. f.count > 1 => g.skipped < g.count
  BY <1>5, <1>6, <1>7 DEF CountsAsSkipped, Complete
<1>9. slots' \in [Slots -> Frame] /\ skippedFrames' \in Nat
  BY <1>2, <1>3, <1>6, <1>7 DEF IInv, TypeOK
<1>10. CASE f.count = 1
  <2>1. /\ firstAdded' = After(firstAdded) /\ available' = available + 1
        /\ lastAdded' = IF available + 1 = CacheSize THEN firstAdded' ELSE lastAdded
        /\ video' = "wait"
    BY <1>1, <1>10 DEF FinishFrame, Complete, LastWhenDrained
  <2>2. firstAdded' \in Slots
    BY <1>3, <2>1, VideoOutputAssumption DEF After, Slots
  <2>3. /\ Unlocked' = Unlocked - 1 /\ Pending' = n - 1
        /\ available' \in 1..CacheSize
        /\ (available + 1 = CacheSize <=> Unlocked = 1)
    BY <1>1, <1>2, <2>1 DEF Unlocked, Pending, One, IInv, TypeOK
  <2>4. TypeOK'
    BY <1>2, <1>3, <1>9, <2>1, <2>2, <2>3
       DEF IInv, TypeOK, encoderVars, FinishFrame, inputVars
  <2>5. ASSUME NEW k \in 0..(n - 2)
        PROVE  Place(firstAdded', k) = Place(firstAdded, k + 1)
    <3>1. k \in 0..(CacheSize - 1) /\ k + 1 < CacheSize
      BY <1>1
    <3> QED BY <1>3, <2>1, <3>1, Places
  <2>6. n > 1 => Place(firstAdded, 1) = firstAdded'
    BY <1>1, <2>2, <2>5, Places
  <2>7. lastAdded' = IF n = 1 THEN firstAdded' ELSE Place(firstAdded', n - 2)
    <3>1. lastAdded = Place(firstAdded, n - 1)
      BY <1>1 DEF IInv, Ring, RingConsistent, At
    <3>2. CASE n = 1
      BY <1>1, <2>1, <2>3, <3>2
    <3>3. CASE n > 1
      <4>1. n - 2 \in 0..(n - 2) /\ (n - 2) + 1 = n - 1
        BY <1>1, <3>3
      <4>2. Place(firstAdded', n - 2) = lastAdded
        BY <2>5, <3>1, <4>1
      <4>3. Unlocked = 1 => n = 2 /\ Place(firstAdded', n - 2) = firstAdded'
        <5>1. Place(firstAdded', 0) = firstAdded'
          BY <1>1, <2>2, Places
        <5> QED BY <1>1, <3>3, <5>1
      <4> QED BY <1>1, <2>1, <2>3, <3>3, <4>2, <4>3
    <3> QED BY <1>1, <3>2, <3>3
  <2>8. ASSUME NEW k \in 0..(n - 2)
        PROVE  /\ slots'[Place(firstAdded', k)].skipped
                      < slots'[Place(firstAdded', k)].count
               /\ slots'[Place(firstAdded', k)].timestamp
                      + slots'[Place(firstAdded', k)].count =
                     IF k = n - 2 THEN produced'
                     ELSE slots'[Place(firstAdded', k + 1)].timestamp
               /\ slots'[Place(firstAdded', k)].pic
                      <= slots'[Place(firstAdded', k)].timestamp
               /\ slots'[Place(firstAdded', k)].timestamp
                      + slots'[Place(firstAdded', k)].count <= produced'
    <3> DEFINE j == k + 1
    <3>1. j \in 0..(n - 1) /\ j # 0 /\ (j = n - 1 <=> k = n - 2)
      BY <1>1
    <3>2. Place(firstAdded', k) = Place(firstAdded, j)
      BY <2>5
    <3>3. slots'[Place(firstAdded', k)] = slots[Place(firstAdded, j)]
      BY <1>4, <3>1, <3>2
    <3>4. k # n - 2 => slots'[Place(firstAdded', k + 1)] = slots[Place(firstAdded, j + 1)]
      <4> SUFFICES ASSUME k # n - 2
                   PROVE  slots'[Place(firstAdded', k + 1)]
                             = slots[Place(firstAdded, j + 1)]
        OBVIOUS
      <4>1. j + 1 \in 0..(n - 1) /\ j + 1 # 0 /\ k + 1 \in 0..(n - 2)
        BY <1>1, <3>1
      <4>2. Place(firstAdded', k + 1) = Place(firstAdded, j + 1)
        BY <2>5, <4>1
      <4> QED BY <1>4, <4>1, <4>2
    <3> HIDE DEF j
    <3> QED BY <1>2, <1>4, <3>1, <3>3, <3>4
  <2>9. IF n = 1 THEN delivered' = produced'
        ELSE slots'[firstAdded'].timestamp = delivered'
    <3>1. CASE n = 1
      BY <1>2, <1>5, <1>10, <3>1
    <3>2. CASE n > 1
      <4>1. 1 \in 0..(n - 1)
        BY <1>1, <3>2
      <4>2. slots'[firstAdded'] = slots[Place(firstAdded, 1)]
        BY <1>4, <2>6, <3>2, <4>1
      <4> QED BY <1>2, <1>5, <1>10, <3>2, <4>2
    <3> QED BY <1>1, <3>1, <3>2
  <2> HIDE DEF n
  <2>10. Ring'
    <3>1. Pending' - 1 = n - 2 /\ (Pending' = 0 <=> n = 1) /\ available' > 0
      BY <1>1, <2>3
    <3>2. \A k : At(k)' = Place(firstAdded', k)
      BY DEF At
    <3> QED BY <1>1, <1>2, <2>7, <2>8, <2>9, <3>1, <3>2
            DEF Ring, RingConsistent, RingBounds
  <2>11. WakesForEachFrame' /\ FrameKept' /\ FlagFirst'
    BY <1>1, <1>2, <2>1, <2>3
       DEF FlagFirst, FinishFrame, IInv, TypeOK, WakesForEachFrame, FrameKept,
           Busy, One, Delivering
  <2> QED BY <2>4, <2>10, <2>11 DEF IInv
<1>11. CASE f.count > 1
  <2>1. video' = "loop" /\ UNCHANGED <<firstAdded, available, lastAdded>>
    BY <1>1, <1>11 DEF FinishFrame, Complete
  <2>2. TypeOK'
    BY <1>2, <1>3, <1>9, <2>1 DEF IInv, TypeOK, encoderVars, FinishFrame, inputVars
  <2>3. Unlocked' = Unlocked /\ Pending' = n
        /\ \A k : At(k)' = Place(firstAdded, k) /\ At(k) = Place(firstAdded, k)
    BY <1>2, <2>1 DEF Unlocked, Pending, One, At
  <2>4. ASSUME NEW k \in 0..(n - 1)
        PROVE  /\ slots'[Place(firstAdded, k)].skipped
                      < slots'[Place(firstAdded, k)].count
               /\ slots'[Place(firstAdded, k)].timestamp
                      + slots'[Place(firstAdded, k)].count =
                     IF k = n - 1 THEN produced
                     ELSE slots'[Place(firstAdded, k + 1)].timestamp
               /\ slots'[Place(firstAdded, k)].pic
                      <= slots'[Place(firstAdded, k)].timestamp
               /\ slots'[Place(firstAdded, k)].timestamp
                      + slots'[Place(firstAdded, k)].count <= produced
    <3>1. k # n - 1 => slots'[Place(firstAdded, k + 1)] = slots[Place(firstAdded, k + 1)]
      <4> SUFFICES ASSUME k # n - 1
                   PROVE  slots'[Place(firstAdded, k + 1)]
                             = slots[Place(firstAdded, k + 1)]
        OBVIOUS
      <4>1. k + 1 \in 0..(n - 1) /\ k + 1 # 0
        BY <1>1
      <4> QED BY <1>4, <4>1
    <3> HIDE DEF g, f, n
    <3>2. CASE k = 0
      <4>1. slots'[Place(firstAdded, k)] = g /\ slots[Place(firstAdded, k)] = f
        BY <1>3, <1>4, <3>2 DEF f
      <4>2. g.timestamp + g.count = f.timestamp + f.count /\ g.pic <= g.timestamp
        BY <1>5, <1>6, <1>7
      <4> QED BY <1>4, <1>8, <1>11, <3>1, <4>1, <4>2
    <3>3. CASE k # 0
      BY <1>4, <3>1, <3>3
    <3> QED BY <3>2, <3>3
  <2>5. slots'[firstAdded].timestamp = delivered' /\ n # 0
    <3>1. slots'[firstAdded] = g
      BY <1>1, <1>3, <1>4
    <3> HIDE DEF f, g, n
    <3> QED BY <1>1, <1>2, <1>5, <1>7, <3>1
  <2>6. lastAdded = Place(firstAdded, n - 1)
    BY <1>1 DEF IInv, Ring, RingConsistent, At
  <2>7. Ring'
    <3> HIDE DEF n
    <3>1. graphics' = "locked" => available' > 0
      BY <1>2, <2>1 DEF IInv, Ring, RingBounds
    <3> QED BY <1>1, <1>2, <2>1, <2>3, <2>4, <2>5, <2>6, <3>1
            DEF Ring, RingConsistent, RingBounds
  <2>8. WakesForEachFrame' /\ FrameKept' /\ FlagFirst'
    BY <1>1, <1>2, <2>1, <2>3
       DEF FlagFirst, FinishFrame, IInv, WakesForEachFrame, FrameKept, Busy,
           One, Delivering
  <2> QED BY <2>2, <2>7, <2>8 DEF IInv
<1>12. f.count = 1 \/ f.count > 1
  BY <1>6
<1> QED BY <1>10, <1>11, <1>12

-----------------------------------------------------------------------------
(* The steps that leave the ring alone.                                    *)

In == [id : Inputs, counter : Nat, since : Nat, missed : Nat]

\* What the loop over the inputs does to the array keeps it an array of inputs.
LEMMA EraseType ==
    ASSUME NEW s \in Seq(In), NEW k \in 1..Len(s)
    PROVE  Erase(s, k) \in Seq(In)
<1>1. SubSeq(s, 1, k - 1) \in Seq(In) /\ SubSeq(s, k + 1, Len(s)) \in Seq(In)
  BY SubSeqProperties, LenProperties
<1> QED BY <1>1, ConcatProperties DEF Erase

LEMMA CountedType ==
    ASSUME NEW s \in Seq(In), NEW k \in 1..Len(s), NEW c \in Nat
    PROVE  /\ [s EXCEPT ![k].counter = c] \in Seq(In)
           /\ [s EXCEPT ![k].missed = c] \in Seq(In)
           /\ Len([s EXCEPT ![k].missed = c]) = Len(s)
<1>1. s[k] \in In
  BY ElementOfSeq
<1>2. [s[k] EXCEPT !.counter = c] \in In /\ [s[k] EXCEPT !.missed = c] \in In
  BY <1>1 DEF In
<1>3. ASSUME NEW e \in In
      PROVE  [s EXCEPT ![k] = e] \in Seq(In) /\ Len([s EXCEPT ![k] = e]) = Len(s)
  BY ExceptSeq
<1> QED BY <1>2, <1>3

LEMMA DeliverType ==
    ASSUME TypeOK, DeliverInput
    PROVE  inputs' \in Seq(In) /\ rawActive' \in BOOLEAN /\ index' \in Nat
<1>1. inputs \in Seq(In) /\ index \in 1..Len(inputs) /\ rawActive \in BOOLEAN
  BY LenProperties DEF TypeOK, DeliverInput, In
<1>2. ASSUME NEW k \in 1..Len(inputs)
      PROVE  inputs[k].counter \in Nat /\ inputs[k].missed \in Nat
             /\ inputs[k].id \in Inputs
  <2>1. inputs[k] \in In
    BY <1>1, ElementOfSeq
  <2> QED BY <2>1 DEF In
<1>3. CASE inputs' = [inputs EXCEPT ![index].counter =
                        Advance(@, Divisor[inputs[index].id])]
             /\ UNCHANGED rawActive
  <2> DEFINE n == Advance(inputs[index].counter, Divisor[inputs[index].id])
  <2>1. n \in Nat
    BY <1>1, <1>2, VideoOutputAssumption DEF Advance
  <2>2. inputs' = [inputs EXCEPT ![index].counter = n]
    BY <1>3
  <2> HIDE DEF n
  <2>3. inputs' \in Seq(In)
    BY <1>1, <2>1, <2>2, CountedType
  <2> QED BY <1>1, <1>3, <2>3 DEF DeliverInput
<1>4. CASE /\ inputs' = Erase(Missed(index + 1), index)
           /\ rawActive' = (rawActive /\ Len(inputs) > 1)
  <2>1. Missed(index + 1) \in Seq(In) /\ Len(Missed(index + 1)) = Len(inputs)
    <3>1. CASE index + 1 \in 1..Len(inputs)
      <4> DEFINE k == index + 1
                 n == inputs[k].missed + 1
      <4>1. n \in Nat
        BY <1>2, <3>1
      <4>2. Missed(k) = [inputs EXCEPT ![k].missed = n]
        BY <1>1, <3>1, LenProperties DEF Missed
      <4>3. k \in 1..Len(inputs)
        BY <3>1
      <4> HIDE DEF k, n
      <4>4. Missed(k) \in Seq(In) /\ Len(Missed(k)) = Len(inputs)
        <5>1. [inputs EXCEPT ![k].missed = n] \in Seq(In)
          BY <1>1, <4>1, <4>3, CountedType
        <5>2. Len([inputs EXCEPT ![k].missed = n]) = Len(inputs)
          BY <1>1, <4>1, <4>3, CountedType
        <5> QED BY <4>2, <5>1, <5>2
      <4> QED BY <4>4 DEF k
    <3>2. CASE index + 1 \notin 1..Len(inputs)
      BY <1>1, <3>2, LenProperties DEF Missed
    <3> QED BY <3>1, <3>2
  <2>2. inputs' \in Seq(In)
    BY <1>1, <1>4, <2>1, EraseType
  <2> QED BY <1>1, <1>4, <2>2 DEF DeliverInput
<1> QED BY <1>3, <1>4 DEF DeliverInput

\* The video thread wakes, takes the oldest frame and goes over the inputs.
LEMMA VideoThreadInv ==
    ASSUME IInv, VideoWait \/ CurFrame \/ BeginInputs \/ DeliverInput \/ EndInputs
    PROVE  IInv'
<1>1. Ring'
  <2>1. UNCHANGED <<ringVars, graphics, produced, delivered>>
    BY DEF VideoWait, CurFrame, BeginInputs, DeliverInput, EndInputs, ringVars,
           history
  <2> QED BY <2>1, RingUntouched DEF IInv
<1>2. TypeOK'
  <2>1. CASE VideoWait
    BY <2>1 DEF IInv, TypeOK, encoderVars, VideoWait, Woken, ringVars, inputVars, history
  <2>2. CASE CurFrame
    BY <2>2 DEF IInv, TypeOK, encoderVars, CurFrame, ringVars, inputVars, history
  <2>3. CASE BeginInputs
    BY <2>3 DEF IInv, TypeOK, encoderVars, BeginInputs, ringVars, inputVars, history
  <2>4. CASE DeliverInput
    <3>1. inputs' \in Seq(In) /\ rawActive' \in BOOLEAN /\ index' \in Nat
      BY <2>4, DeliverType DEF IInv
    <3>2. index' > 0
      BY <2>4 DEF IInv, TypeOK, DeliverInput
    <3> QED BY <2>4, <3>1, <3>2
            DEF IInv, TypeOK, encoderVars, DeliverInput, In, ringVars, history
  <2>5. CASE EndInputs
    BY <2>5 DEF IInv, TypeOK, encoderVars, EndInputs, ringVars, inputVars, history
  <2> QED BY <2>1, <2>2, <2>3, <2>4, <2>5
<1>3. UNCHANGED <<available, firstAdded, stop>>
  BY DEF VideoWait, CurFrame, BeginInputs, DeliverInput, EndInputs, ringVars
<1>4. Unlocked \in Nat /\ sem \in Nat /\ Unlocked' = Unlocked
  BY <1>3, PendingType DEF IInv, Ring, TypeOK, Unlocked
<1>5. WakesForEachFrame'
  <2>1. CASE VideoWait
    BY <1>3, <1>4, <2>1
       DEF IInv, WakesForEachFrame, VideoWait, Woken, Busy, One
  <2>2. CASE CurFrame
    BY <1>3, <1>4, <2>2 DEF IInv, WakesForEachFrame, CurFrame, Busy, One
  <2>3. CASE BeginInputs
    BY <1>3, <1>4, <2>3 DEF IInv, WakesForEachFrame, BeginInputs, Busy, One
  <2>4. CASE DeliverInput
    BY <1>3, <1>4, <2>4 DEF IInv, WakesForEachFrame, DeliverInput, Busy, One
  <2>5. CASE EndInputs
    BY <1>3, <1>4, <2>5 DEF IInv, WakesForEachFrame, EndInputs, Busy, One
  <2> QED BY <2>1, <2>2, <2>3, <2>4, <2>5
<1>6. FrameKept' /\ FlagFirst'
  BY <1>3 DEF FlagFirst, IInv, FrameKept, Delivering, VideoWait, Woken,
              CurFrame, BeginInputs, DeliverInput, EndInputs
<1> QED BY <1>1, <1>2, <1>5, <1>6 DEF IInv

\* Inputs and texture encoders come and go; nothing of the ring depends on them.
LEMMA OthersInv ==
    ASSUME IInv,
           \/ \E i \in Inputs : Connect(i) \/ Disconnect(i)
           \/ StartEncoding \/ StartTexture \/ CheckTexture \/ ResetTexture
           \/ TextureSkip \/ StopTexture \/ EndEncoding
    PROVE  IInv'
<1>1. UNCHANGED <<ringVars, sem, stop, stopper, graphics, video, frameInfo,
                  index, produced, delivered>>
  BY DEF Connect, Disconnect, StartEncoding, StartTexture, CheckTexture, ResetTexture,
         TextureSkip, StopTexture, EndEncoding, threadVars, history
<1>2. Ring' /\ WakesForEachFrame' /\ FrameKept' /\ FlagFirst'
  BY <1>1, RingUntouched DEF FlagFirst, IInv, WakesForEachFrame, FrameKept,
                             Busy, One,
                             Unlocked, ringVars
<1>3. TypeOK'
  <2>1. ASSUME NEW i \in Inputs, Connect(i)
        PROVE  TypeOK'
    <3>1. Passes \in Nat
      BY DEF IInv, TypeOK, Passes
    <3>2. NewInput(i) \in In /\ inputs \in Seq(In)
      BY <3>1 DEF NewInput, In, IInv, TypeOK
    <3>3. inputs' \in Seq(In)
      BY <2>1, <3>2, AppendProperties DEF Connect
    <3>4. changes' \in 0..MaxChanges
      BY <2>1, VideoOutputAssumption DEF Connect, IInv, TypeOK
    <3>5. skippedFrames' \in Nat /\ skipsReset' \in Nat
      BY <2>1 DEF Connect, ResetSkipped, IInv, TypeOK
    <3> QED BY <1>1, <2>1, <3>3, <3>4, <3>5
            DEF IInv, TypeOK, Connect, In, ringVars, threadVars, encoderVars
  <2>2. ASSUME NEW i \in Inputs, Disconnect(i)
        PROVE  TypeOK'
    <3>1. inputs \in Seq(In)
      BY DEF In, IInv, TypeOK
    <3>2. PICK k \in DOMAIN inputs : inputs' = Erase(inputs, k)
      BY <2>2 DEF Disconnect
    <3>3. k \in 1..Len(inputs)
      BY <3>1, LenProperties
    <3>4. inputs' \in Seq(In)
      BY <3>1, <3>2, <3>3, EraseType
    <3>5. rawActive' \in BOOLEAN
      BY <2>2 DEF Disconnect
    <3> QED BY <1>1, <2>2, <3>4, <3>5
            DEF IInv, TypeOK, Disconnect, In, ringVars, threadVars, encoderVars, history
  <2>3. CASE StartTexture
    BY <1>1, <2>3, VideoOutputAssumption
       DEF IInv, TypeOK, StartTexture, ringVars, inputVars, history
  <2>4. CASE CheckTexture
    BY <1>1, <2>4 DEF IInv, TypeOK, CheckTexture, ringVars, inputVars, history
  <2>5. CASE ResetTexture
    BY <1>1, <2>5 DEF IInv, TypeOK, ResetTexture, ResetSkipped, ringVars, inputVars
  <2>6. CASE StopTexture
    BY <1>1, <2>6
       DEF IInv, TypeOK, StopTexture, ringVars, inputVars, threadVars, encoderVars, history
  <2>7. CASE StartEncoding
    <3>1. changes' \in 0..MaxChanges
      BY <2>7, VideoOutputAssumption DEF StartEncoding, IInv, TypeOK
    <3> QED BY <1>1, <2>7, <3>1
            DEF IInv, TypeOK, StartEncoding, ringVars, inputVars, history
  <2>8. CASE TextureSkip
    BY <1>1, <2>8
       DEF IInv, TypeOK, TextureSkip, ringVars, inputVars, threadVars, encoderVars
  <2>9. CASE EndEncoding
    BY <1>1, <2>9 DEF IInv, TypeOK, EndEncoding, ringVars, inputVars, history
  <2> QED BY <2>1, <2>2, <2>3, <2>4, <2>5, <2>6, <2>7, <2>8, <2>9
<1> QED BY <1>2, <1>3 DEF IInv

\* video_output_stop, after whose flag the semaphore counts no frames any more.
LEMMA StopInv ==
    ASSUME IInv, Stop \/ StopPost \/ StopJoin
    PROVE  IInv'
<1>1. UNCHANGED <<ringVars, graphics, video, frameInfo, produced, delivered>>
  BY DEF Stop, StopPost, StopJoin, history
<1>2. Ring' /\ FrameKept' /\ FlagFirst'
  <2>1. Ring'
    BY <1>1, RingUntouched DEF IInv
  <2>2. FrameKept'
    BY <1>1 DEF IInv, FrameKept, ringVars
  <2>3. FlagFirst'
    BY DEF IInv, FlagFirst, Stop, StopPost, StopJoin
  <2> QED BY <2>1, <2>2, <2>3
<1>3. TypeOK'
  <2>1. CASE Stop
    BY <2>1 DEF IInv, TypeOK, encoderVars, Stop, ringVars, inputVars, history
  <2>2. CASE StopPost
    BY <2>2 DEF IInv, TypeOK, encoderVars, StopPost, ringVars, inputVars, history
  <2>3. CASE StopJoin
    BY <2>3 DEF IInv, TypeOK, encoderVars, StopJoin, ringVars, inputVars, history
  <2> QED BY <2>1, <2>2, <2>3
<1>4. WakesForEachFrame'
  BY <1>1 DEF IInv, WakesForEachFrame, FlagFirst, Stop, StopPost, StopJoin, Busy,
              One, Unlocked, ringVars
<1> QED BY <1>2, <1>3, <1>4 DEF IInv

LEMMA StepInv == IInv /\ [Next]_vars => IInv'
<1> SUFFICES ASSUME IInv, [Next]_vars PROVE IInv'
  OBVIOUS
<1>1. ASSUME NEW c \in 1..MaxCount, LockFrame(c) PROVE IInv'
  BY <1>1, ExtendInv, AcceptInv
<1>2. CASE UnlockFrame
  BY <1>2, UnlockInv
<1>3. CASE FinishFrame
  BY <1>3, FinishInv
<1>4. CASE VideoWait \/ CurFrame \/ BeginInputs \/ DeliverInput \/ EndInputs
  BY <1>4, VideoThreadInv
<1>5. CASE \/ \E i \in Inputs : Connect(i) \/ Disconnect(i)
           \/ StartEncoding \/ StartTexture \/ CheckTexture \/ ResetTexture
           \/ TextureSkip \/ StopTexture \/ EndEncoding
  BY <1>5, OthersInv
<1>6. CASE Stop \/ StopPost \/ StopJoin
  BY <1>6, StopInv
<1>7. CASE UNCHANGED vars
  <2>1. TypeOK'
    BY <1>7 DEF IInv, TypeOK, encoderVars, vars, ringVars, inputVars, threadVars, history
  <2>2. Ring'
    BY <1>7, RingUntouched DEF IInv, vars, ringVars, threadVars, history
  <2>3. WakesForEachFrame' /\ FrameKept' /\ FlagFirst'
    BY <1>7 DEF IInv, WakesForEachFrame, FrameKept, FlagFirst, Busy, One,
                Unlocked, vars, ringVars, threadVars
  <2> QED BY <2>1, <2>2, <2>3 DEF IInv
<1> QED BY <1>1, <1>2, <1>3, <1>4, <1>5, <1>6, <1>7 DEF Next, VideoThread

LEMMA Inductive == Spec => []IInv
<1> QED BY InitInv, StepInv, PTL DEF Spec

-----------------------------------------------------------------------------
\* Every variable keeps its type and the indices of the ring stay inside the
\* cache, for every cache size (After in video_output_cur_frame, NextSlot in
\* video_output_lock_frame).
THEOREM Typing == Spec => []TypeOK
<1>1. IInv => TypeOK
  BY DEF IInv
<1> QED BY <1>1, Inductive, PTL

\* The indices of the ring agree with the number of frames it holds, and its
\* frames cover the ticks produced and not yet delivered without gap or overlap,
\* through every prolonged frame, wrap and drained ring.
THEOREM RingIsConsistent == Spec => []RingConsistent
<1>1. IInv => RingConsistent
  BY DEF IInv, Ring
<1> QED BY <1>1, Inductive, PTL

\* Until the output is stopped the semaphore counts the frames the video thread
\* has not yet begun, and the thread works on a frame only when there is one.
THEOREM WakesOncePerFrame == Spec => []WakesForEachFrame
<1>1. IInv => WakesForEachFrame
  BY DEF IInv
<1> QED BY <1>1, Inductive, PTL

\* The graphics thread never writes the slot that the video thread is handing to
\* the inputs, although neither holds a lock while it does.
THEOREM SlotsAreNotShared == Spec => []NeverSharesSlot
<1>1. IInv => NeverSharesSlot
  <2> SUFFICES ASSUME IInv, graphics = "locked", video \in Delivering
               PROVE  frameInfo # lastAdded
    BY DEF NeverSharesSlot, Delivering
  <2>1. Unlocked > 0 /\ frameInfo = firstAdded
    BY DEF IInv, WakesForEachFrame, FrameKept, Delivering
  <2>2. Pending = Unlocked + 1 /\ Pending \in 0..CacheSize /\ CacheSize \in Nat
        /\ Unlocked \in Nat
    BY PendingType DEF IInv, Ring
  <2>3. lastAdded = Place(firstAdded, Unlocked) /\ firstAdded \in Slots
    BY <2>1, <2>2 DEF IInv, Ring, RingConsistent, At, TypeOK
  <2>4. Unlocked \in 0..(CacheSize - 1) /\ 0 \in 0..(CacheSize - 1)
    BY <2>1, <2>2
  <2>5. Place(firstAdded, 0) = firstAdded
    BY <2>3, <2>4, Places
  <2>6. Place(firstAdded, Unlocked) = Place(firstAdded, 0) => Unlocked = 0
    BY <2>3, <2>4, Places
  <2> QED BY <2>1, <2>3, <2>5, <2>6
<1> QED BY <1>1, Inductive, PTL

\* Each pass over the inputs is for the tick after the one before it, with a
\* picture that is not from its future.
THEOREM TicksInOrder == Spec => []DeliversEveryTick
<1>1. IInv => DeliversEveryTick
  <2> SUFFICES ASSUME IInv, video \in {"deliver", "finish"}
               PROVE  /\ slots[frameInfo].timestamp = delivered
                      /\ slots[frameInfo].pic <= delivered
                      /\ delivered < produced
    BY DEF DeliversEveryTick
  <2>1. Unlocked > 0 /\ frameInfo = firstAdded
    BY DEF IInv, WakesForEachFrame, FrameKept, Delivering
  <2>2. Pending \in Nat /\ Pending > 0 /\ CacheSize \in Nat /\ CacheSize > 0
    BY <2>1, PendingType DEF IInv, Ring
  <2>3. At(0) = firstAdded /\ firstAdded \in Slots /\ slots[firstAdded] \in Frame
    BY <2>2, Places DEF IInv, TypeOK, At
  <2>4. 0 \in 0..(Pending - 1)
    BY <2>2
  <2>5. /\ slots[firstAdded].timestamp = delivered
        /\ slots[firstAdded].skipped < slots[firstAdded].count
        /\ slots[firstAdded].pic <= slots[firstAdded].timestamp
        /\ slots[firstAdded].timestamp + slots[firstAdded].count <= produced
    BY <2>2, <2>3, <2>4 DEF IInv, Ring, RingConsistent, RingBounds
  <2>6. produced \in Nat /\ delivered \in Nat
    BY DEF IInv, TypeOK
  <2> QED BY <2>1, <2>3, <2>5, <2>6 DEF Frame
<1> QED BY <1>1, Inductive, PTL

-----------------------------------------------------------------------------
(* The ring implements the queue: what the slots from first_added on hold,   *)
(* as a sequence, changes by the steps of FrameQueue.                        *)

Shots == [pic : Nat, count : Nat]
Shot(f) == [pic |-> f.pic, count |-> f.count]
FrameSeq(s, first, n) == [k \in 1..n |-> Shot(s[Place(first, k - 1)])]

LEMMA FramesAre ==
    /\ Frames = FrameSeq(slots, firstAdded, Pending)
    /\ Frames' = FrameSeq(slots', firstAdded', Pending')
BY DEF Frames, FrameSeq, At, Shot

\* The sequence of the ring is one of pictures and counts.
LEMMA FrameSeqType ==
    ASSUME NEW s \in [Slots -> Frame], NEW first \in Slots, NEW n \in 0..CacheSize
    PROVE  /\ FrameSeq(s, first, n) \in Seq(Shots) /\ Len(FrameSeq(s, first, n)) = n
           /\ \A k \in 1..n : /\ k - 1 \in 0..(CacheSize - 1)
                              /\ Place(first, k - 1) \in Slots
                              /\ s[Place(first, k - 1)] \in Frame
                              /\ FrameSeq(s, first, n)[k] = Shot(s[Place(first, k - 1)])
<1>1. n \in Nat /\ CacheSize \in Nat /\ n <= CacheSize
  BY VideoOutputAssumption
<1>2. ASSUME NEW k \in 1..n
      PROVE  /\ k - 1 \in 0..(CacheSize - 1) /\ Place(first, k - 1) \in Slots
             /\ s[Place(first, k - 1)] \in Frame /\ Shot(s[Place(first, k - 1)]) \in Shots
  <2>1. k - 1 \in 0..(CacheSize - 1)
    BY <1>1
  <2>2. Place(first, k - 1) \in Slots
    BY <2>1, Places
  <2> QED
    BY <2>1, <2>2 DEF Frame, Shot, Shots
<1> DEFINE f == FrameSeq(s, first, n)
<1>3. f = [k \in 1..n |-> Shot(s[Place(first, k - 1)])]
  BY DEF FrameSeq
<1>4. f \in [1..n -> Shots]
  BY <1>2, <1>3
<1>5. f \in Seq(Shots) /\ Len(f) = n
  <2> HIDE DEF f
  <2> QED
    BY <1>1, <1>4
<1> QED
  BY <1>2, <1>3, <1>5

\* Before a step of the program the ring is such a sequence.
LEMMA RingIsSequence ==
    ASSUME IInv
    PROVE  /\ slots \in [Slots -> Frame] /\ firstAdded \in Slots /\ Pending \in 0..CacheSize
           /\ Frames \in Seq(Shots) /\ Len(Frames) = Pending
           /\ \A k \in 1..Pending : Frames[k] = Shot(slots[Place(firstAdded, k - 1)])
<1>1. slots \in [Slots -> Frame] /\ firstAdded \in Slots /\ Pending \in 0..CacheSize
  BY PendingType DEF IInv, Ring, TypeOK
<1> QED
  BY <1>1, FramesAre, FrameSeqType

\* video_output_lock_frame with a free slot appends a picture.
LEMMA AcceptStep ==
    ASSUME IInv, NEW c \in 1..MaxCount, LockFrame(c), available # 0
    PROVE  Queue!Accept(c)
<1> DEFINE n == Pending
           new == [pic |-> produced, timestamp |-> produced, count |-> c, skipped |-> 0]
<1>1. /\ lastAdded' = NextSlot /\ slots' = [slots EXCEPT ![lastAdded'] = new]
      /\ UNCHANGED <<available, firstAdded, delivered>>
      /\ graphics = "idle" /\ graphics' = "locked"
      /\ produced + c <= MaxTicks /\ produced' = produced + c
  BY DEF LockFrame
<1>2. c \in Nat /\ CacheSize \in Nat /\ produced \in Nat
  BY VideoOutputAssumption DEF IInv, TypeOK
<1>3. /\ slots \in [Slots -> Frame] /\ firstAdded \in Slots
      /\ Frames \in Seq(Shots) /\ Len(Frames) = n
      /\ \A k \in 1..n : Frames[k] = Shot(slots[Place(firstAdded, k - 1)])
  BY RingIsSequence
<1>4. /\ n \in 0..(CacheSize - 1) /\ Pending' = n + 1 /\ (n = 0 <=> available = CacheSize)
  BY <1>1, <1>2 DEF IInv, TypeOK, Pending, Unlocked, One
<1>5. lastAdded = IF n = 0 THEN firstAdded ELSE Place(firstAdded, n - 1)
  BY DEF IInv, Ring, RingConsistent, At
<1> HIDE DEF n
<1>6. lastAdded' = Place(firstAdded, n) /\ Place(firstAdded, n) \in Slots
  <2>1. CASE n = 0
    BY <1>1, <1>3, <1>4, <1>5, <2>1, Places DEF NextSlot
  <2>2. CASE n # 0
    <3>1. n - 1 \in 0..(CacheSize - 1) /\ (n - 1) + 1 = n /\ n < CacheSize
      BY <1>2, <1>4, <2>2
    <3>2. After(Place(firstAdded, n - 1)) = Place(firstAdded, n)
      BY <1>3, <3>1, Places
    <3> QED
      BY <1>1, <1>3, <1>4, <1>5, <2>2, <3>2, Places DEF NextSlot
  <2> QED
    BY <2>1, <2>2
<1>7. new \in Frame /\ Shot(new) = [pic |-> produced, count |-> c] /\ Shot(new) \in Shots
  BY <1>2 DEF Frame, Shot, Shots
<1> HIDE DEF new
<1>8. /\ slots' \in [Slots -> Frame] /\ Frames' = FrameSeq(slots', firstAdded, n + 1)
      /\ n + 1 \in 0..CacheSize
  <2>1. slots' \in [Slots -> Frame]
    BY <1>1, <1>3, <1>6, <1>7
  <2>2. n + 1 \in 0..CacheSize
    BY <1>2, <1>4
  <2>3. Frames' = FrameSeq(slots', firstAdded, n + 1)
    BY <1>1, <1>4, FramesAre, Zenon
  <2> QED
    BY <2>1, <2>2, <2>3
<1>9. /\ Frames' \in Seq(Shots) /\ Len(Frames') = n + 1
      /\ \A k \in 1..(n + 1) : /\ k - 1 \in 0..(CacheSize - 1)
                               /\ Frames'[k] = Shot(slots'[Place(firstAdded, k - 1)])
  BY <1>3, <1>8, FrameSeqType
<1> DEFINE a == Append(Frames, Shot(new))
<1>10. /\ a \in Seq(Shots) /\ Len(a) = n + 1
       /\ \A k \in 1..(n + 1) : a[k] = IF k <= n THEN Frames[k] ELSE Shot(new)
  BY <1>2, <1>3, <1>4, <1>7, AppendProperties
<1>11. ASSUME NEW k \in 1..(n + 1) PROVE Frames'[k] = a[k]
  <2>1. CASE k = n + 1
    <3>1. k - 1 = n /\ ~(k <= n)
      BY <1>2, <1>4, <2>1
    <3>2. slots'[Place(firstAdded, n)] = new
      BY <1>1, <1>3, <1>6
    <3> QED
      BY <1>9, <1>10, <3>1, <3>2
  <2>2. CASE k # n + 1
    <3>1. k \in 1..n /\ k - 1 # n /\ k <= n
      BY <1>2, <1>4, <2>2
    <3>2. k - 1 \in 0..(CacheSize - 1)
      BY <1>9
    <3>3. Place(firstAdded, k - 1) # Place(firstAdded, n) /\ Place(firstAdded, k - 1) \in Slots
      BY <1>3, <1>4, <3>1, <3>2, Places
    <3>4. slots'[Place(firstAdded, k - 1)] = slots[Place(firstAdded, k - 1)]
      BY <1>1, <1>3, <1>6, <3>3
    <3> QED
      BY <1>3, <1>9, <1>10, <3>1, <3>4
  <2> QED
    BY <2>1, <2>2
<1> HIDE DEF a
<1>12. Frames' = a
  BY <1>9, <1>10, <1>11, SeqEqual
<1>13. Frames' = Append(Frames, [pic |-> produced, count |-> c])
  BY <1>7, <1>12 DEF a
<1>14. Len(Frames) < CacheSize
  BY <1>2, <1>3, <1>4
<1>15. ~(graphics = "locked") /\ ((graphics = "locked")' = TRUE)
  BY <1>1
<1>16. delivered' = delivered
  BY <1>1
<1> QED
  BY <1>1, <1>13, <1>14, <1>15, <1>16, Zenon DEF Queue!Accept

\* With no slot left the newest picture stands for more ticks.
LEMMA RepeatStep ==
    ASSUME IInv, NEW c \in 1..MaxCount, LockFrame(c), available = 0
    PROVE  Queue!Repeat(c)
<1> DEFINE n == CacheSize
           last == CacheSize - 1
           f == slots[lastAdded]
           g == Longer(f, c)
<1>1. /\ slots' = [slots EXCEPT ![lastAdded] = g]
      /\ UNCHANGED <<graphics, available, firstAdded, delivered>>
      /\ graphics = "idle" /\ produced + c <= MaxTicks /\ produced' = produced + c
  BY DEF LockFrame, Extend
<1>2. c \in Nat /\ n \in Nat /\ n > 0 /\ last \in 0..(CacheSize - 1)
  BY VideoOutputAssumption
<1>3. Pending = n /\ Pending' = n
  BY <1>1, <1>2 DEF Pending, Unlocked, One
<1>4. /\ slots \in [Slots -> Frame] /\ firstAdded \in Slots /\ n \in 0..CacheSize
      /\ Frames \in Seq(Shots) /\ Len(Frames) = n
      /\ \A k \in 1..n : Frames[k] = Shot(slots[Place(firstAdded, k - 1)])
  BY <1>3, RingIsSequence
<1>5. lastAdded = Place(firstAdded, last) /\ lastAdded \in Slots /\ f \in Frame
  BY <1>2, <1>3, <1>4 DEF IInv, TypeOK, Ring, RingConsistent, At
<1>6. g \in Frame /\ g.pic = f.pic /\ g.count = f.count + c
  BY <1>2, <1>5, LongerFrame
<1> DEFINE old == Shot(f)
           more == [old EXCEPT !.count = @ + c]
<1>7. Shot(g) = more /\ more \in Shots
  BY <1>2, <1>5, <1>6 DEF Shot, Shots, Frame
<1> HIDE DEF f, g
<1>8. /\ slots' \in [Slots -> Frame]
      /\ \A s \in Slots : slots'[s] = IF s = lastAdded THEN g ELSE slots[s]
  BY <1>1, <1>4, <1>5, <1>6
<1>9. Frames' = FrameSeq(slots', firstAdded, n)
  BY <1>1, <1>3, FramesAre, Zenon
<1>10. /\ Frames' \in Seq(Shots) /\ Len(Frames') = n
       /\ \A k \in 1..n : /\ k - 1 \in 0..(CacheSize - 1) /\ Place(firstAdded, k - 1) \in Slots
                          /\ Frames'[k] = Shot(slots'[Place(firstAdded, k - 1)])
  BY <1>4, <1>8, <1>9, FrameSeqType
<1>11. n \in 1..Len(Frames) /\ Frames[n] = old
  <2>1. n \in 1..n /\ n - 1 = last
    BY <1>2
  <2>2. Frames[n] = Shot(slots[Place(firstAdded, last)])
    BY <1>4, <2>1
  <2> QED
    BY <1>4, <1>5, <2>1, <2>2 DEF f
<1> HIDE DEF old, more, n, last
<1> DEFINE a == [Frames EXCEPT ![n] = more]
<1>12. /\ a \in Seq(Shots) /\ Len(a) = n
       /\ \A k \in 1..n : a[k] = IF k = n THEN more ELSE Frames[k]
  BY <1>4, <1>7, <1>11, ExceptSeq
<1>13. ASSUME NEW k \in 1..n PROVE Frames'[k] = a[k]
  <2>1. CASE k = n
    <3>1. k - 1 = last
      BY <2>1 DEF n, last
    <3> QED
      BY <1>5, <1>7, <1>8, <1>10, <1>12, <2>1, <3>1
  <2>2. CASE k # n
    <3>1. k - 1 # last /\ k - 1 \in 0..(CacheSize - 1)
      BY <1>2, <1>10, <2>2 DEF n, last
    <3>2. Place(firstAdded, k - 1) # lastAdded
      BY <1>2, <1>4, <1>5, <3>1, Places
    <3> QED
      BY <1>4, <1>8, <1>10, <1>12, <2>2, <3>2
  <2> QED
    BY <2>1, <2>2
<1> HIDE DEF a
<1>14. Frames' = a
  BY <1>10, <1>12, <1>13, SeqEqual
<1>15. Frames' = [Frames EXCEPT ![Len(Frames)].count = @ + c]
  BY <1>4, <1>11, <1>14 DEF a, more
<1>16. ~(graphics = "locked") /\ Len(Frames) = CacheSize
  BY <1>1, <1>4 DEF n
<1>17. (graphics = "locked")' = (graphics = "locked")
  BY <1>1
<1> QED
  BY <1>1, <1>15, <1>16, <1>17 DEF Queue!Repeat

\* video_output_unlock_frame: the picture is written.
LEMMA WrittenStep ==
    ASSUME IInv, UnlockFrame
    PROVE  Queue!Written
<1>1. /\ available > 0 /\ graphics = "locked" /\ graphics' = "idle"
      /\ available' = available - 1
      /\ UNCHANGED <<slots, firstAdded, produced, delivered>>
  BY DEF UnlockFrame, IInv, Ring, RingBounds, history
<1>2. Pending' = Pending
  BY <1>1, VideoOutputAssumption DEF IInv, TypeOK, Pending, Unlocked, One
<1>3. Frames' = Frames
  BY <1>1, <1>2, FramesAre, Zenon
<1>4. (graphics = "locked")' = FALSE
  BY <1>1
<1> QED
  BY <1>1, <1>3, <1>4 DEF Queue!Written

\* The second section of video_output_cur_frame delivers the oldest picture once.
LEMMA DeliverStep ==
    ASSUME IInv, FinishFrame
    PROVE  Queue!Deliver
<1> DEFINE n == Pending
           f == slots[firstAdded]
           skip == ~Complete(f.count) /\ CountsAsSkipped(f)
           g == Shown(f, skip)
<1>1. /\ video = "finish" /\ frameInfo = firstAdded /\ CacheSize \in Nat /\ CacheSize > 0
      /\ Unlocked \in 1..CacheSize /\ n \in 1..CacheSize
      /\ graphics = "locked" => n = Unlocked + 1
      /\ graphics # "locked" => n = Unlocked
  BY PendingType DEF FinishFrame, IInv, Ring, FrameKept, Delivering, WakesForEachFrame
<1>2. /\ slots' = [slots EXCEPT ![firstAdded] = g]
      /\ delivered' = delivered + 1 /\ UNCHANGED <<graphics, produced>>
      /\ IF f.count = 1
         THEN firstAdded' = After(firstAdded) /\ available' = available + 1
         ELSE UNCHANGED <<firstAdded, available>>
  BY <1>1 DEF FinishFrame, Complete
<1>3. /\ slots \in [Slots -> Frame] /\ firstAdded \in Slots
      /\ Frames \in Seq(Shots) /\ Len(Frames) = n
      /\ \A k \in 1..n : Frames[k] = Shot(slots[Place(firstAdded, k - 1)])
  BY RingIsSequence
<1>4. 0 \in 0..(CacheSize - 1) /\ Place(firstAdded, 0) = firstAdded /\ f \in Frame
  BY <1>1, <1>3, Places
<1>5. f.skipped < f.count /\ f.count \in Nat /\ f.skipped \in Nat
  <2>1. 0 \in 0..(Pending - 1)
    BY <1>1
  <2>2. slots[At(0)].skipped < slots[At(0)].count
    BY <2>1 DEF IInv, Ring, RingConsistent
  <2> QED
    BY <1>4, <2>2 DEF At, Frame
<1>6. f.count > 0 /\ skip \in BOOLEAN /\ (skip => f.skipped > 0)
  BY <1>5 DEF CountsAsSkipped
<1>7. g \in Frame /\ g.pic = f.pic /\ g.count = f.count - 1
  BY <1>4, <1>6, ShownFrame
<1>8. Frames # <<>> /\ Head(Frames) = Shot(f) /\ Head(Frames) = Frames[1]
  <2>1. 1 \in 1..n /\ 1 - 1 = 0
    BY <1>1
  <2>2. Frames[1] = Shot(slots[Place(firstAdded, 0)])
    BY <1>3, <2>1
  <2>3. Frames # <<>>
    BY <1>1, <1>3
  <2> QED
    BY <1>3, <1>4, <2>2, <2>3, HeadTailProperties
<1>9. Head(Frames).count = f.count
  BY <1>8 DEF Shot
<1>10. Len(Frames) > (IF graphics = "locked" THEN 1 ELSE 0)
  BY <1>1, <1>3
<1>11. /\ slots' \in [Slots -> Frame]
       /\ \A s \in Slots : slots'[s] = IF s = firstAdded THEN g ELSE slots[s]
  <2> HIDE DEF g
  <2> QED
    BY <1>2, <1>3, <1>7
<1> HIDE DEF g, skip
<1>12. CASE f.count = 1
  <2>1. Pending' = n - 1 /\ n - 1 \in 0..CacheSize /\ firstAdded' \in Slots
    <3>1. Pending' = n - 1
      BY <1>1, <1>2, <1>12 DEF IInv, TypeOK, Pending, Unlocked, One
    <3>2. firstAdded' \in Slots
      BY <1>1, <1>2, <1>3, <1>12 DEF After, Slots
    <3> QED
      BY <1>1, <3>1, <3>2
  <2>2. Frames' = FrameSeq(slots', firstAdded', n - 1)
    BY <2>1, FramesAre, Zenon
  <2> HIDE DEF n
  <2>3. /\ Frames' \in Seq(Shots) /\ Len(Frames') = n - 1
        /\ \A k \in 1..(n - 1) : /\ k - 1 \in 0..(CacheSize - 1)
                                 /\ Frames'[k] = Shot(slots'[Place(firstAdded', k - 1)])
    BY <1>11, <2>1, <2>2, FrameSeqType
  <2>4. /\ Tail(Frames) \in Seq(Shots) /\ Len(Tail(Frames)) = n - 1
        /\ \A k \in 1..(n - 1) : Tail(Frames)[k] = Frames[k + 1]
    BY <1>3, <1>8, HeadTailProperties
  <2>5. ASSUME NEW k \in 1..(n - 1) PROVE Frames'[k] = Tail(Frames)[k]
    <3>1. /\ k + 1 \in 1..n /\ (k + 1) - 1 = k /\ k \in 0..(CacheSize - 1) /\ k # 0
          /\ k - 1 \in 0..(CacheSize - 1) /\ (k - 1) + 1 = k /\ (k - 1) + 1 < CacheSize
      BY <1>1
    <3>2. Place(firstAdded', k - 1) = Place(firstAdded, k)
      <4>1. Place(After(firstAdded), k - 1) = Place(firstAdded, (k - 1) + 1)
        BY <1>3, <3>1, Places
      <4> QED
        BY <1>2, <1>12, <3>1, <4>1
    <3>3. Place(firstAdded, k) \in Slots /\ Place(firstAdded, k) # firstAdded
      BY <1>3, <1>4, <3>1, Places
    <3>4. slots'[Place(firstAdded, k)] = slots[Place(firstAdded, k)]
      BY <1>11, <3>3
    <3>5. Frames[k + 1] = Shot(slots[Place(firstAdded, k)])
      BY <1>3, <3>1
    <3> QED
      BY <2>3, <2>4, <3>2, <3>4, <3>5
  <2>6. Frames' = Tail(Frames)
    BY <2>3, <2>4, <2>5, SeqEqual
  <2> QED
    BY <1>2, <1>9, <1>10, <1>12, <2>6 DEF Queue!Deliver
<1>13. CASE f.count # 1
  <2>1. Pending' = n /\ n \in 0..CacheSize
    BY <1>1, <1>2, <1>13 DEF Pending, Unlocked, One
  <2>2. Frames' = FrameSeq(slots', firstAdded, n)
    BY <1>2, <1>13, <2>1, FramesAre, Zenon
  <2> HIDE DEF n
  <2>3. /\ Frames' \in Seq(Shots) /\ Len(Frames') = n
        /\ \A k \in 1..n : /\ k - 1 \in 0..(CacheSize - 1) /\ Place(firstAdded, k - 1) \in Slots
                           /\ Frames'[k] = Shot(slots'[Place(firstAdded, k - 1)])
    BY <1>3, <1>11, <2>1, <2>2, FrameSeqType
  <2> DEFINE old == Shot(f)
             less == [old EXCEPT !.count = @ - 1]
             a == [Frames EXCEPT ![1] = less]
  <2>4. Shot(g) = less /\ less \in Shots
    BY <1>4, <1>5, <1>6, <1>7 DEF Shot, Shots, Frame
  <2>5. 1 \in 1..n /\ 1 - 1 = 0 /\ Frames[1] = old
    BY <1>1, <1>8
  <2> HIDE DEF f, less, old
  <2>6. /\ a \in Seq(Shots) /\ Len(a) = n
        /\ \A k \in 1..n : a[k] = IF k = 1 THEN less ELSE Frames[k]
    BY <1>3, <2>4, <2>5, ExceptSeq
  <2>7. ASSUME NEW k \in 1..n PROVE Frames'[k] = a[k]
    <3>1. CASE k = 1
      <4>1. Frames'[1] = Shot(slots'[Place(firstAdded, 0)])
        BY <2>3, <2>5
      <4> QED
        BY <1>3, <1>4, <1>11, <2>4, <2>6, <3>1, <4>1
    <3>2. CASE k # 1
      <4>1. k - 1 # 0 /\ k - 1 \in 0..(CacheSize - 1)
        BY <1>1, <2>3, <3>2
      <4>2. Place(firstAdded, k - 1) # firstAdded
        BY <1>3, <1>4, <4>1, Places
      <4> QED
        BY <1>3, <1>11, <2>3, <2>6, <3>2, <4>2
    <3> QED
      BY <3>1, <3>2
  <2> HIDE DEF a
  <2>8. Frames' = a
    BY <2>3, <2>6, <2>7, SeqEqual
  <2>9. Frames' = [Frames EXCEPT ![1].count = @ - 1]
    BY <2>5, <2>8 DEF a, less
  <2>10. Head(Frames).count # 1
    BY <1>9, <1>13 DEF f
  <2> QED
    BY <1>2, <1>10, <2>9, <2>10 DEF Queue!Deliver
<1> QED
  BY <1>12, <1>13

\* The other steps leave the queue alone.
LEMMA QueueUntouched ==
    ASSUME UNCHANGED <<slots, available, firstAdded, graphics, produced, delivered>>
    PROVE  UNCHANGED Queue!vars
<1>1. Pending' = Pending
  BY DEF Pending, Unlocked, One
<1>2. Frames' = Frames
  BY <1>1, FramesAre, Zenon
<1> QED
  BY <1>2 DEF Queue!vars

LEMMA QueueStep == IInv /\ [Next]_vars => [Queue!Next]_(Queue!vars)
<1> SUFFICES ASSUME IInv, [Next]_vars PROVE Queue!Next \/ UNCHANGED Queue!vars
  OBVIOUS
<1>1. ASSUME NEW c \in 1..MaxCount, LockFrame(c)
      PROVE  Queue!Next
  <2>1. c \in 1..MaxTicks
    BY <1>1, VideoOutputAssumption DEF LockFrame, IInv, TypeOK
  <2>2. Queue!Accept(c) \/ Queue!Repeat(c)
    BY <1>1, AcceptStep, RepeatStep
  <2> QED
    BY <2>1, <2>2 DEF Queue!Next
<1>2. CASE UnlockFrame
  BY <1>2, WrittenStep DEF Queue!Next
<1>3. CASE FinishFrame
  BY <1>3, DeliverStep DEF Queue!Next
<1>4. CASE \/ VideoWait \/ CurFrame \/ BeginInputs \/ DeliverInput \/ EndInputs
           \/ \E i \in Inputs : Connect(i) \/ Disconnect(i)
           \/ StartEncoding \/ StartTexture \/ CheckTexture \/ ResetTexture
           \/ TextureSkip \/ StopTexture \/ EndEncoding
           \/ Stop \/ StopPost \/ StopJoin
           \/ UNCHANGED vars
  <2>1. UNCHANGED <<slots, available, firstAdded, graphics, produced, delivered>>
    BY <1>4
       DEF VideoWait, CurFrame, BeginInputs, DeliverInput, EndInputs, Connect, Disconnect,
           StartEncoding, StartTexture, CheckTexture, ResetTexture, TextureSkip, StopTexture,
           EndEncoding, Stop, StopPost, StopJoin,
           vars, ringVars, threadVars, history
  <2> QED
    BY <2>1, QueueUntouched
<1> QED
  BY <1>1, <1>2, <1>3, <1>4 DEF Next, VideoThread

\* The ring with its two indices, its counts and its locked slot behaves as the
\* bounded queue of FrameQueue: a picture is accepted or lost to the newest one,
\* and the oldest is delivered once for each tick it stands for
\* (video_output_lock_frame, video_output_unlock_frame, video_output_cur_frame).
THEOREM RingImplementsQueue == Spec => ImplementsQueue
<1>1. Init => Queue!Init
  <2> SUFFICES ASSUME Init PROVE Queue!Init
    OBVIOUS
  <2>1. Pending = 0
    BY VideoOutputAssumption DEF Init, Pending, Unlocked, One
  <2>2. Frames = <<>>
    BY InitInv, RingIsSequence, <2>1, EmptySeq
  <2> QED
    BY <2>2 DEF Init, Queue!Init
<1> QED
  BY <1>1, Inductive, QueueStep, PTL DEF Spec, ImplementsQueue, Queue!Spec

-----------------------------------------------------------------------------
(* When an input is called.                                                *)

\* Passes over the inputs in which the one at position k has been counted.
Due(k) == delivered + (IF video = "finish" \/ (video = "deliver" /\ k < index) THEN 1 ELSE 0)

OnTime(i, due) == i.counter = (due - i.since - i.missed) % Divisor[i.id]
Cadence == \A k \in 1..Len(inputs) : OnTime(inputs[k], Due(k))

\* Counting round a divisor is counting modulo the divisor (send_cached_frame's
\* frame_rate_divisor_counter).
LEMMA CountsModulo ==
    ASSUME NEW x \in Int, NEW d \in Nat \ {0}
    PROVE  (x + 1) % d = Advance(x % d, d)
<1> DEFINE q == x \div d
           r == x % d
<1>1. q \in Int /\ r \in 0..(d - 1) /\ x = d * q + r
  BY SMT
<1> HIDE DEF q, r
<1>2. ASSUME NEW y \in Int, NEW p \in Int, NEW s \in 0..(d - 1), y = d * p + s
      PROVE  y % d = s
  BY <1>2, SMT
<1>3. CASE r + 1 = d
  <2>1. x + 1 = d * (q + 1) + 0 /\ q + 1 \in Int /\ 0 \in 0..(d - 1) /\ x + 1 \in Int
    BY <1>1, <1>3
  <2> QED
    BY <1>2, <1>3, <2>1 DEF r, Advance
<1>4. CASE r + 1 # d
  <2>1. x + 1 = d * q + (r + 1) /\ r + 1 \in 0..(d - 1) /\ x + 1 \in Int
    BY <1>1, <1>4
  <2> QED
    BY <1>1, <1>2, <1>4, <2>1 DEF r, Advance
<1> QED
  BY <1>3, <1>4

\* An input that is called, or not, in a pass stays on time; so does one that misses
\* the pass.
LEMMA StaysOnTime ==
    ASSUME NEW i \in In, NEW n \in Nat, OnTime(i, n)
    PROVE  /\ OnTime([i EXCEPT !.counter = Advance(i.counter, Divisor[i.id])], n + 1)
           /\ OnTime([i EXCEPT !.missed = i.missed + 1], n + 1)
<1> DEFINE d == Divisor[i.id]
           x == n - i.since - i.missed
           called == [i EXCEPT !.counter = Advance(i.counter, d)]
           missed == [i EXCEPT !.missed = i.missed + 1]
<1>1. /\ d \in Nat \ {0} /\ x \in Int /\ i.counter = x % d
      /\ i.since \in Nat /\ i.missed \in Nat
  BY VideoOutputAssumption DEF In, OnTime
<1>2. /\ called.counter = Advance(i.counter, d) /\ called.id = i.id
      /\ called.since = i.since /\ called.missed = i.missed
  BY DEF In
<1>3. /\ missed.counter = i.counter /\ missed.id = i.id
      /\ missed.since = i.since /\ missed.missed = i.missed + 1
  BY DEF In
<1>4. (n + 1) - i.since - i.missed = x + 1 /\ (n + 1) - i.since - (i.missed + 1) = x
  BY <1>1
<1> HIDE DEF called, missed, x, d
<1>5. OnTime(called, n + 1)
  <2>1. called.counter = (x + 1) % d
    BY <1>1, <1>2, CountsModulo
  <2> QED
    BY <1>2, <1>4, <2>1, Zenon DEF OnTime, d
<1>6. OnTime(missed, n + 1)
  <2>1. (n + 1) - missed.since - missed.missed = x
    BY <1>3, <1>4, Zenon
  <2> QED
    BY <1>1, <1>3, <2>1, Zenon DEF OnTime, d
<1> QED
  BY <1>5, <1>6 DEF called, missed, d

\* What is left when the element at position k is erased.
LEMMA Erased ==
    ASSUME NEW s \in Seq(In), NEW k \in 1..Len(s)
    PROVE  /\ Len(Erase(s, k)) = Len(s) - 1
           /\ \A j \in 1..(Len(s) - 1) : Erase(s, k)[j] = IF j < k THEN s[j] ELSE s[j + 1]
<1> DEFINE n == Len(s)
           a == SubSeq(s, 1, k - 1)
           b == SubSeq(s, k + 1, n)
<1>1. n \in Nat /\ k \in 1..n /\ \A j \in 1..n : s[j] \in In
  BY ElementOfSeq, LenProperties
<1> HIDE DEF n
<1>2. /\ a \in Seq(In) /\ Len(a) = k - 1
      /\ \A j \in 1..(k - 1) : a[j] = s[j]
  <2>1. \A j \in 1..(k - 1) : s[j] \in In
    BY <1>1
  <2>2. /\ a \in Seq(In) /\ Len(a) = IF 1 <= k - 1 THEN (k - 1) - 1 + 1 ELSE 0
        /\ \A j \in 1..((k - 1) - 1 + 1) : a[j] = s[1 + j - 1]
    BY <1>1, <2>1, SubSeqProperties
  <2>3. (k - 1) - 1 + 1 = k - 1 /\ \A j \in 1..(k - 1) : 1 + j - 1 = j
    BY <1>1
  <2> HIDE DEF a
  <2> QED
    BY <1>1, <2>2, <2>3
<1>3. /\ b \in Seq(In) /\ Len(b) = n - k
      /\ \A j \in 1..(n - k) : b[j] = s[k + j]
  <2>1. \A j \in (k + 1)..n : s[j] \in In
    BY <1>1
  <2>2. /\ b \in Seq(In) /\ Len(b) = IF k + 1 <= n THEN n - (k + 1) + 1 ELSE 0
        /\ \A j \in 1..(n - (k + 1) + 1) : b[j] = s[(k + 1) + j - 1]
    BY <1>1, <2>1, SubSeqProperties
  <2>3. n - (k + 1) + 1 = n - k /\ \A j \in 1..(n - k) : (k + 1) + j - 1 = k + j
    BY <1>1
  <2> HIDE DEF b
  <2> QED
    BY <1>1, <2>2, <2>3
<1>4. Erase(s, k) = a \o b
  BY DEF Erase, n
<1> HIDE DEF a, b
<1>5. /\ Len(a \o b) = (k - 1) + (n - k)
      /\ \A j \in 1..((k - 1) + (n - k)) : (a \o b)[j] = IF j <= k - 1 THEN a[j] ELSE b[j - (k - 1)]
  <2>1. /\ Len(a \o b) = Len(a) + Len(b)
        /\ \A j \in 1..(Len(a) + Len(b)) : (a \o b)[j] = IF j <= Len(a) THEN a[j] ELSE b[j - Len(a)]
    BY <1>2, <1>3, ConcatProperties
  <2> QED
    BY <1>2, <1>3, <2>1, Zenon
<1>6. (k - 1) + (n - k) = n - 1
  BY <1>1
<1>7. ASSUME NEW j \in 1..(n - 1)
      PROVE  (a \o b)[j] = IF j < k THEN s[j] ELSE s[j + 1]
  <2>0. (a \o b)[j] = IF j <= k - 1 THEN a[j] ELSE b[j - (k - 1)]
    BY <1>5, <1>6
  <2>1. CASE j < k
    BY <1>1, <1>2, <2>0, <2>1
  <2>2. CASE ~(j < k)
    <3>1. j - (k - 1) \in 1..(n - k) /\ k + (j - (k - 1)) = j + 1 /\ ~(j <= k - 1)
      BY <1>1, <2>2
    <3>2. b[j - (k - 1)] = s[k + (j - (k - 1))]
      BY <1>3, <3>1
    <3> QED
      BY <2>0, <2>2, <3>1, <3>2, Zenon
  <2> QED
    BY <2>1, <2>2
<1> QED
  BY <1>4, <1>5, <1>6, <1>7 DEF n

\* One turn of the loop over the inputs: the one whose turn it is has been called or
\* not, or has disconnected itself, and the next one has missed the pass.
LEMMA DeliverCadence ==
    ASSUME IInv, Cadence, DeliverInput
    PROVE  Cadence'
<1>1. /\ inputs \in Seq(In) /\ index \in 1..Len(inputs) /\ Len(inputs) \in Nat
      /\ delivered \in Nat /\ \A k \in 1..Len(inputs) : inputs[k] \in In
  <2>1. inputs \in Seq(In) /\ index \in Nat /\ index > 0 /\ delivered \in Nat
    BY DEF IInv, TypeOK, DeliverInput, In
  <2>2. index <= Len(inputs)
    BY DEF DeliverInput
  <2>3. Len(inputs) \in Nat /\ \A k \in 1..Len(inputs) : inputs[k] \in In
    BY <2>1, ElementOfSeq, LenProperties
  <2> QED
    BY <2>1, <2>2, <2>3
<1>2. /\ video = "deliver" /\ video' = "deliver" /\ index' = index + 1
      /\ delivered' = delivered
  BY DEF DeliverInput, history
<1>3. ASSUME NEW k
      PROVE  /\ Due(k) = IF k < index THEN delivered + 1 ELSE delivered
             /\ Due(k)' = IF k < index + 1 THEN delivered + 1 ELSE delivered
  <2>1. Due(k) = delivered + IF k < index THEN 1 ELSE 0
    BY <1>2 DEF Due
  <2>2. Due(k)' = delivered + IF k < index + 1 THEN 1 ELSE 0
    BY <1>2 DEF Due
  <2> QED
    BY <1>1, <2>1, <2>2
<1>4. \A k : Due(k)' = IF k < index + 1 THEN delivered + 1 ELSE delivered
  BY <1>3
<1>5. ASSUME NEW k \in 1..Len(inputs)
      PROVE  OnTime(inputs[k], IF k < index THEN delivered + 1 ELSE delivered)
  <2>1. OnTime(inputs[k], Due(k))
    BY DEF Cadence
  <2> QED
    BY <1>3, <2>1, Zenon
<1> DEFINE i == inputs[index]
           called == [i EXCEPT !.counter = Advance(i.counter, Divisor[i.id])]
<1>6. i \in In /\ OnTime(i, delivered) /\ OnTime(called, delivered + 1) /\ called \in In
  <2>1. i \in In /\ OnTime(i, delivered)
    BY <1>1, <1>5
  <2>2. OnTime(called, delivered + 1)
    BY <1>1, <2>1, StaysOnTime
  <2>3. Advance(i.counter, Divisor[i.id]) \in Nat
    BY <2>1, VideoOutputAssumption DEF Advance, In
  <2> QED
    BY <2>1, <2>2, <2>3 DEF In
<1>7. CASE inputs' = [inputs EXCEPT ![index].counter = Advance(@, Divisor[inputs[index].id])]
  <2>1. inputs' = [inputs EXCEPT ![index] = called]
    BY <1>7
  <2> HIDE DEF called
  <2>2. /\ Len(inputs') = Len(inputs)
        /\ \A k \in 1..Len(inputs) : inputs'[k] = IF k = index THEN called ELSE inputs[k]
    BY <1>1, <1>6, <2>1, ExceptSeq
  <2>3. ASSUME NEW k \in 1..Len(inputs) PROVE OnTime(inputs'[k], Due(k)')
    <3>1. CASE k = index
      BY <1>1, <1>4, <1>6, <2>2, <3>1
    <3>2. CASE k # index
      <4>1. Due(k)' = IF k < index THEN delivered + 1 ELSE delivered
        BY <1>1, <1>4, <3>2
      <4> QED
        BY <1>5, <2>2, <3>2, <4>1
    <3> QED
      BY <3>1, <3>2
  <2>4. \A k \in 1..Len(inputs') : OnTime(inputs'[k], Due(k)')
    BY <2>2, <2>3
  <2> QED
    BY <2>4 DEF Cadence, OnTime
<1>8. CASE inputs' = Erase(Missed(index + 1), index)
  <2> DEFINE s == Missed(index + 1)
             next == inputs[index + 1]
             late == [next EXCEPT !.missed = next.missed + 1]
  <2>1. /\ s \in Seq(In) /\ Len(s) = Len(inputs)
        /\ \A k \in 1..Len(inputs) : s[k] = IF k = index + 1 THEN late ELSE inputs[k]
    <3>1. CASE index + 1 \in 1..Len(inputs)
      <4>1. s = [inputs EXCEPT ![index + 1] = late]
        <5>1. DOMAIN inputs = 1..Len(inputs)
          BY <1>1
        <5>2. s = [inputs EXCEPT ![index + 1].missed = @ + 1]
          BY <3>1, <5>1, Zenon DEF Missed
        <5> QED
          BY <5>2, Zenon
      <4>2. next \in In
        BY <1>1, <3>1
      <4>3. late \in In
        BY <4>2 DEF In
      <4> HIDE DEF late, s, next
      <4> QED
        BY <1>1, <3>1, <4>1, <4>3, ExceptSeq
    <3>2. CASE index + 1 \notin 1..Len(inputs)
      BY <1>1, <3>2 DEF Missed
    <3> QED
      BY <3>1, <3>2
  <2> HIDE DEF s
  <2>2. /\ Len(inputs') = Len(inputs) - 1
        /\ \A j \in 1..(Len(inputs) - 1) : inputs'[j] = IF j < index THEN s[j] ELSE s[j + 1]
    <3>1. index \in 1..Len(s)
      BY <1>1, <2>1
    <3>2. inputs' = Erase(s, index)
      BY <1>8 DEF s
    <3> QED
      BY <2>1, <3>1, <3>2, Erased
  <2>3. ASSUME NEW j \in 1..(Len(inputs) - 1) PROVE OnTime(inputs'[j], Due(j)')
    <3> DEFINE n == Len(inputs)
    <3>0. n \in Nat /\ index \in 1..n /\ j \in 1..(n - 1)
      BY <1>1
    <3> HIDE DEF n
    <3>1. CASE j < index
      <4>1. j \in 1..n /\ j # index + 1 /\ j < index + 1
        BY <3>0, <3>1
      <4>2. inputs'[j] = inputs[j]
        BY <2>1, <2>2, <3>1, <4>1 DEF n
      <4> QED
        BY <1>4, <1>5, <3>1, <4>1, <4>2 DEF n
    <3>2. CASE j = index
      <4>1. index + 1 \in 1..n /\ ~(j < index) /\ ~(index + 1 < index) /\ j < index + 1
        BY <3>0, <3>2
      <4>2. inputs'[j] = late
        BY <2>1, <2>2, <3>2, <4>1 DEF n
      <4>3. next \in In /\ OnTime(next, delivered)
        BY <1>1, <1>5, <4>1 DEF n
      <4>4. OnTime(late, delivered + 1)
        BY <1>1, <4>3, StaysOnTime
      <4> QED
        BY <1>4, <4>1, <4>2, <4>4
    <3>3. CASE j > index
      <4>1. j + 1 \in 1..n /\ ~(j < index) /\ j + 1 # index + 1 /\ ~(j + 1 < index) /\ ~(j < index + 1)
        BY <3>0, <3>3
      <4>2. inputs'[j] = inputs[j + 1]
        BY <2>1, <2>2, <4>1 DEF n
      <4>3. OnTime(inputs[j + 1], delivered)
        BY <1>5, <4>1 DEF n
      <4> QED
        BY <1>4, <4>1, <4>2, <4>3
    <3> QED
      BY <3>0, <3>1, <3>2, <3>3
  <2>4. \A k \in 1..Len(inputs') : OnTime(inputs'[k], Due(k)')
    BY <2>2, <2>3
  <2> QED
    BY <2>4 DEF Cadence, OnTime
<1> QED
  BY <1>7, <1>8 DEF DeliverInput

\* An input connects or disconnects between two passes.
LEMMA ConnectCadence ==
    ASSUME IInv, Cadence, NEW i \in Inputs, Connect(i) \/ Disconnect(i)
    PROVE  Cadence'
<1>1. /\ inputs \in Seq(In) /\ Len(inputs) \in Nat /\ delivered \in Nat
      /\ \A k \in 1..Len(inputs) : inputs[k] \in In
  BY ElementOfSeq, LenProperties DEF IInv, TypeOK, In
<1>2. /\ video # "deliver" /\ UNCHANGED <<video, index, delivered>>
  BY DEF Connect, Disconnect, InputMutexFree, threadVars, history
<1>3. Passes \in Nat /\ \A k : Due(k) = Passes /\ Due(k)' = Passes
  BY <1>1, <1>2 DEF Due, Passes
<1>4. \A k \in 1..Len(inputs) : OnTime(inputs[k], Passes)
  BY <1>3, Zenon DEF Cadence
<1>5. CASE Connect(i)
  <2> DEFINE new == NewInput(i)
  <2>1. new \in In /\ OnTime(new, Passes)
    <3>1. Divisor[i] \in Nat \ {0} /\ Passes - Passes - 0 = 0
      BY <1>3, VideoOutputAssumption
    <3>2. 0 % Divisor[i] = 0
      BY <3>1, SMT
    <3> QED
      BY <1>3, <3>1, <3>2 DEF NewInput, In, OnTime
  <2>2. inputs' = Append(inputs, new)
    BY <1>5 DEF Connect
  <2> HIDE DEF new
  <2>3. /\ Len(inputs') = Len(inputs) + 1
        /\ \A k \in 1..(Len(inputs) + 1) : inputs'[k] = IF k <= Len(inputs) THEN inputs[k] ELSE new
    BY <1>1, <2>1, <2>2, AppendProperties
  <2>4. \A k \in 1..(Len(inputs) + 1) : OnTime(inputs'[k], Passes)
    BY <1>1, <1>4, <2>1, <2>3
  <2>5. \A k \in 1..Len(inputs') : OnTime(inputs'[k], Due(k)')
    BY <1>3, <2>3, <2>4
  <2> QED
    BY <2>5 DEF Cadence, OnTime
<1>6. CASE Disconnect(i)
  <2>1. PICK k \in 1..Len(inputs) : inputs' = Erase(inputs, k)
    BY <1>1, <1>6 DEF Disconnect
  <2>2. /\ Len(inputs') = Len(inputs) - 1
        /\ \A j \in 1..(Len(inputs) - 1) : inputs'[j] = IF j < k THEN inputs[j] ELSE inputs[j + 1]
    BY <1>1, <2>1, Erased
  <2>3. \A j \in 1..(Len(inputs) - 1) : j \in 1..Len(inputs) /\ j + 1 \in 1..Len(inputs)
    BY <1>1
  <2>4. \A j \in 1..(Len(inputs) - 1) : OnTime(inputs'[j], Passes)
    BY <1>4, <2>2, <2>3
  <2>5. \A j \in 1..Len(inputs') : OnTime(inputs'[j], Due(j)')
    BY <1>3, <2>2, <2>4
  <2> QED
    BY <2>5 DEF Cadence, OnTime
<1> QED
  BY <1>5, <1>6

\* The steps that touch no input.
LEMMA InputsKept ==
    ASSUME IInv, Cadence, UNCHANGED inputs,
           \/ UNCHANGED <<video, index, delivered>>
           \/ video \in {"wait", "loop"} /\ video' \notin {"deliver", "finish"} /\ delivered' = delivered
           \/ BeginInputs \/ EndInputs \/ FinishFrame
    PROVE  Cadence'
<1>1. inputs \in Seq(In) /\ Len(inputs) \in Nat /\ delivered \in Nat /\ index \in Nat
  BY LenProperties DEF IInv, TypeOK, In
<1>2. ASSUME NEW k \in 1..Len(inputs)
      PROVE  Due(k)' = Due(k)
  BY <1>1 DEF Due, BeginInputs, EndInputs, FinishFrame, history
<1>3. \A k \in 1..Len(inputs') : OnTime(inputs'[k], Due(k)')
  BY <1>2 DEF Cadence
<1> QED
  BY <1>3 DEF Cadence, OnTime

LEMMA CadenceStep == IInv /\ Cadence /\ [Next]_vars => Cadence'
<1> SUFFICES ASSUME IInv, Cadence, [Next]_vars PROVE Cadence'
  OBVIOUS
<1>1. CASE DeliverInput
  BY <1>1, DeliverCadence
<1>2. CASE \E i \in Inputs : Connect(i) \/ Disconnect(i)
  BY <1>2, ConnectCadence
<1>3. CASE VideoWait \/ CurFrame
  <2>1. /\ UNCHANGED inputs /\ delivered' = delivered
        /\ video \in {"wait", "loop"} /\ video' \notin {"deliver", "finish"}
    BY <1>3 DEF VideoWait, CurFrame, Woken, inputVars, history
  <2> QED
    BY <2>1, InputsKept
<1>4. CASE BeginInputs \/ EndInputs \/ FinishFrame
  <2>1. UNCHANGED inputs
    BY <1>4 DEF BeginInputs, EndInputs, FinishFrame, inputVars
  <2> QED
    BY <1>4, <2>1, InputsKept
<1>5. CASE \/ \E c \in 1..MaxCount : LockFrame(c)
           \/ UnlockFrame
           \/ StartEncoding \/ StartTexture \/ CheckTexture \/ ResetTexture
           \/ TextureSkip \/ StopTexture \/ EndEncoding
           \/ Stop \/ StopPost \/ StopJoin
           \/ UNCHANGED vars
  <2>1. UNCHANGED <<inputs, video, index, delivered>>
    BY <1>5
       DEF LockFrame, UnlockFrame, StartEncoding, StartTexture, CheckTexture, ResetTexture,
           TextureSkip, StopTexture, EndEncoding,
           Stop, StopPost, StopJoin, vars, inputVars, threadVars, history
  <2> QED
    BY <2>1, InputsKept
<1> QED
  BY <1>1, <1>2, <1>3, <1>4, <1>5 DEF Next, VideoThread

\* Whatever the divisors, and whichever inputs come, go or disconnect themselves
\* inside the loop: the counter of an input counts exactly the passes that reached
\* it since it connected, modulo its divisor, so that of these it is called in the
\* first and in every d-th after it.  A pass that an input missed, because the one
\* before it was erased in that pass, is in none of these counts
\* (video_output_cur_frame, video_output_connect2, video_output_disconnect2).
THEOREM CalledInCadence == Spec => []InputCadence
<1>1. Init => Cadence
  BY DEF Init, Cadence
<1>2. IInv /\ Cadence => InputCadence
  <2> SUFFICES ASSUME IInv, Cadence, video # "deliver", NEW k \in DOMAIN inputs
               PROVE  inputs[k].counter =
                         (Passes - inputs[k].since - inputs[k].missed) % Divisor[inputs[k].id]
    BY DEF InputCadence
  <2>1. k \in 1..Len(inputs) /\ delivered \in Nat
    BY DEF IInv, TypeOK
  <2>2. Due(k) = Passes
    BY <2>1 DEF Due, Passes
  <2> QED
    BY <2>1, <2>2, Zenon DEF Cadence, OnTime
<1> QED
  BY <1>1, <1>2, Inductive, CadenceStep, PTL DEF Spec
-----------------------------------------------------------------------------
(* Skipped frames are counted.                                             *)

\* The totals p run from lo to hi, each slot of v adding its skipped ticks.
Totals(p, v, lo, hi) ==
    /\ p \in [0..CacheSize -> Nat] /\ p[0] = lo /\ p[CacheSize] = hi
    /\ \A i, j \in 0..CacheSize : i <= j => p[i] <= p[j]
    /\ \A s \in Slots : p[s + 1] = p[s] + v[s].skipped

\* Slots outside the ring hold no skipped ticks.
FreeSlots == \A k \in Pending..(CacheSize - 1) : slots[At(k)].skipped = 0

\* What was reported or forgotten of the ticks that found no slot.
Reported == skippedFrames + skipsReset - textureSkips

SkipInv ==
    /\ \E p : Totals(p, slots, Reported, skipsAdded)
    /\ FreeSlots

\* A slot of its own type, and the two totals around it.
LEMMA TotalsAt ==
    ASSUME NEW p, NEW v \in [Slots -> Frame], NEW lo, NEW hi, Totals(p, v, lo, hi), NEW s \in Slots
    PROVE  /\ s \in 0..CacheSize /\ s + 1 \in 0..CacheSize
           /\ p[s] \in Nat /\ p[s + 1] \in Nat /\ v[s].skipped \in Nat
           /\ p[s + 1] = p[s] + v[s].skipped
<1>1. s \in 0..CacheSize /\ s + 1 \in 0..CacheSize
  BY VideoOutputAssumption DEF Slots
<1>2. p[s] \in Nat /\ p[s + 1] \in Nat /\ p[s + 1] = p[s] + v[s].skipped
  BY <1>1 DEF Totals
<1>3. v[s].skipped \in Nat
  <2>1. v[s] \in Frame
    OBVIOUS
  <2> QED BY <2>1 DEF Frame
<1> QED BY <1>1, <1>2, <1>3

LEMMA TotalsSame ==
    ASSUME NEW p, NEW v, NEW w, NEW lo, NEW hi, Totals(p, v, lo, hi),
           \A s \in Slots : w[s].skipped = v[s].skipped
    PROVE  Totals(p, w, lo, hi)
BY DEF Totals

\* A slot that skips c more ticks raises the totals behind it.
LEMMA TotalsRaised ==
    ASSUME NEW p, NEW v \in [Slots -> Frame], NEW w \in [Slots -> Frame], NEW lo, NEW hi \in Nat,
           Totals(p, v, lo, hi), NEW t \in Slots, NEW c \in Nat,
           w[t].skipped = v[t].skipped + c,
           \A s \in Slots : s # t => w[s].skipped = v[s].skipped
    PROVE  \E q : Totals(q, w, lo, hi + c)
<1> DEFINE q == [i \in 0..CacheSize |-> IF i <= t THEN p[i] ELSE p[i] + c]
<1>1. CacheSize \in Nat /\ CacheSize > 0 /\ t \in Int /\ 0 <= t /\ t < CacheSize
  BY VideoOutputAssumption DEF Slots
<1>2. /\ \A i \in 0..CacheSize : p[i] \in Nat
      /\ p[0] = lo /\ p[CacheSize] = hi
      /\ \A i, j \in 0..CacheSize : i <= j => p[i] <= p[j]
  BY DEF Totals
<1>3. /\ q \in [0..CacheSize -> Nat]
      /\ \A i \in 0..CacheSize : q[i] = IF i <= t THEN p[i] ELSE p[i] + c
  BY <1>2
<1> HIDE DEF q
<1>4. q[0] = lo /\ q[CacheSize] = hi + c
  BY <1>1, <1>2, <1>3
<1>5. ASSUME NEW i \in 0..CacheSize, NEW j \in 0..CacheSize, i <= j PROVE q[i] <= q[j]
  <2>1. p[i] <= p[j] /\ p[i] \in Nat /\ p[j] \in Nat
    BY <1>2, <1>5
  <2>2. (q[i] = p[i] /\ q[j] = p[j]) \/ (q[i] = p[i] /\ q[j] = p[j] + c)
        \/ (q[i] = p[i] + c /\ q[j] = p[j] + c)
    BY <1>1, <1>3, <1>5
  <2> QED BY <2>1, <2>2
<1>6. ASSUME NEW s \in Slots PROVE q[s + 1] = q[s] + w[s].skipped
  <2>1. /\ s \in 0..CacheSize /\ s + 1 \in 0..CacheSize
        /\ p[s] \in Nat /\ p[s + 1] \in Nat /\ v[s].skipped \in Nat
        /\ p[s + 1] = p[s] + v[s].skipped
    BY TotalsAt
  <2>2. CASE s < t
    <3>0. s <= t /\ s + 1 <= t
      BY <1>1, <2>1, <2>2
    <3>1. q[s] = p[s] /\ q[s + 1] = p[s + 1]
      BY <1>3, <2>1, <3>0
    <3>2. s # t
      BY <1>1, <2>2
    <3> QED BY <2>1, <3>1, <3>2
  <2>3. CASE s = t
    <3>0. s <= t /\ ~(s + 1 <= t)
      BY <1>1, <2>1, <2>3
    <3>1. q[s] = p[s] /\ q[s + 1] = p[s + 1] + c
      BY <1>3, <2>1, <3>0
    <3> QED BY <2>1, <2>3, <3>1
  <2>4. CASE s > t
    <3>0. ~(s <= t) /\ ~(s + 1 <= t)
      BY <1>1, <2>1, <2>4
    <3>1. q[s] = p[s] + c /\ q[s + 1] = p[s + 1] + c
      BY <1>3, <2>1, <3>0
    <3>2. s # t
      BY <1>1, <2>4
    <3> QED BY <2>1, <3>1, <3>2
  <2> QED BY <1>1, <2>1, <2>2, <2>3, <2>4
<1>7. Totals(q, w, lo, hi + c)
  BY <1>3, <1>4, <1>5, <1>6 DEF Totals
<1> QED BY <1>7

\* A tick that moves from a slot to the statistics raises the totals before it.
LEMMA TotalsShifted ==
    ASSUME NEW p, NEW v \in [Slots -> Frame], NEW w \in [Slots -> Frame], NEW lo \in Nat, NEW hi,
           Totals(p, v, lo, hi), NEW t \in Slots, v[t].skipped > 0,
           w[t].skipped = v[t].skipped - 1,
           \A s \in Slots : s # t => w[s].skipped = v[s].skipped
    PROVE  \E q : Totals(q, w, lo + 1, hi)
<1> DEFINE q == [i \in 0..CacheSize |-> IF i <= t THEN p[i] + 1 ELSE p[i]]
<1>1. CacheSize \in Nat /\ CacheSize > 0 /\ t \in Int /\ 0 <= t /\ t < CacheSize
  BY VideoOutputAssumption DEF Slots
<1>2. /\ \A i \in 0..CacheSize : p[i] \in Nat
      /\ p[0] = lo /\ p[CacheSize] = hi
      /\ \A i, j \in 0..CacheSize : i <= j => p[i] <= p[j]
  BY DEF Totals
<1>3. /\ q \in [0..CacheSize -> Nat]
      /\ \A i \in 0..CacheSize : q[i] = IF i <= t THEN p[i] + 1 ELSE p[i]
  BY <1>2
<1> HIDE DEF q
<1>4. q[0] = lo + 1 /\ q[CacheSize] = hi
  BY <1>1, <1>2, <1>3
<1>8. /\ t \in 0..CacheSize /\ t + 1 \in 0..CacheSize
      /\ p[t] \in Nat /\ p[t + 1] \in Nat /\ v[t].skipped \in Nat
      /\ p[t + 1] = p[t] + v[t].skipped
  BY TotalsAt
<1>9. p[t] + 1 <= p[t + 1]
  BY <1>8
<1>5. ASSUME NEW i \in 0..CacheSize, NEW j \in 0..CacheSize, i <= j PROVE q[i] <= q[j]
  <2>1. p[i] <= p[j] /\ p[i] \in Nat /\ p[j] \in Nat
    BY <1>2, <1>5
  <2>2. CASE j <= t \/ i > t
    <3>1. (q[i] = p[i] + 1 /\ q[j] = p[j] + 1) \/ (q[i] = p[i] /\ q[j] = p[j])
      BY <1>1, <1>3, <1>5, <2>2
    <3> QED BY <2>1, <3>1
  <2>3. CASE ~(j <= t \/ i > t)
    <3>1. i <= t /\ t + 1 <= j
      BY <1>1, <2>3
    <3>2. p[i] <= p[t] /\ p[t + 1] <= p[j]
      BY <1>2, <1>8, <3>1
    <3>3. q[i] = p[i] + 1 /\ q[j] = p[j]
      BY <1>1, <1>3, <2>3, <3>1
    <3> QED BY <1>8, <1>9, <2>1, <3>2, <3>3
  <2> QED BY <2>2, <2>3
<1>6. ASSUME NEW s \in Slots PROVE q[s + 1] = q[s] + w[s].skipped
  <2>1. /\ s \in 0..CacheSize /\ s + 1 \in 0..CacheSize
        /\ p[s] \in Nat /\ p[s + 1] \in Nat /\ v[s].skipped \in Nat
        /\ p[s + 1] = p[s] + v[s].skipped
    BY TotalsAt
  <2>2. CASE s < t
    <3>0. s <= t /\ s + 1 <= t
      BY <1>1, <2>1, <2>2
    <3>1. q[s] = p[s] + 1 /\ q[s + 1] = p[s + 1] + 1
      BY <1>3, <2>1, <3>0
    <3>2. s # t
      BY <1>1, <2>2
    <3> QED BY <2>1, <3>1, <3>2
  <2>3. CASE s = t
    <3>0. s <= t /\ ~(s + 1 <= t)
      BY <1>1, <2>1, <2>3
    <3>1. q[s] = p[s] + 1 /\ q[s + 1] = p[s + 1]
      BY <1>3, <2>1, <3>0
    <3> QED BY <2>1, <2>3, <3>1
  <2>4. CASE s > t
    <3>0. ~(s <= t) /\ ~(s + 1 <= t)
      BY <1>1, <2>1, <2>4
    <3>1. q[s] = p[s] /\ q[s + 1] = p[s + 1]
      BY <1>3, <2>1, <3>0
    <3>2. s # t
      BY <1>1, <2>4
    <3> QED BY <2>1, <3>1, <3>2
  <2> QED BY <1>1, <2>1, <2>2, <2>3, <2>4
<1>7. Totals(q, w, lo + 1, hi)
  BY <1>3, <1>4, <1>5, <1>6 DEF Totals
<1> QED BY <1>7

LEMMA InitSkips == Init => SkipInv
<1> SUFFICES ASSUME Init PROVE SkipInv
  OBVIOUS
<1> DEFINE p == [i \in 0..CacheSize |-> 0]
<1>1. CacheSize \in Nat /\ \A s \in Slots : s + 1 \in 0..CacheSize /\ s \in 0..CacheSize
  BY VideoOutputAssumption DEF Slots
<1>2. p \in [0..CacheSize -> Nat] /\ \A i \in 0..CacheSize : p[i] = 0
  OBVIOUS
<1> HIDE DEF p
<1>3. \A s \in Slots : slots[s].skipped = 0
  BY DEF Init, EmptySlot
<1>4. Totals(p, slots, 0, 0)
  BY <1>1, <1>2, <1>3 DEF Totals
<1>5. Reported = 0 /\ skipsAdded = 0
  BY DEF Init, Reported
<1>6. FreeSlots
  <2>1. \A k \in Pending..(CacheSize - 1) : At(k) \in Slots
    <3>1. Pending = 0 /\ firstAdded \in Slots
      BY VideoOutputAssumption DEF Init, Pending, Unlocked, One, Slots
    <3> QED BY <3>1, Places DEF At
  <2> QED BY <1>3, <2>1 DEF FreeSlots
<1> QED BY <1>4, <1>5, <1>6 DEF SkipInv

\* A new frame goes to the first slot outside the ring.
LEMMA AcceptPlace ==
    ASSUME IInv, NEW c \in 1..MaxCount, LockFrame(c), available # 0
    PROVE  lastAdded' = Place(firstAdded, Pending)
<1> DEFINE n == Pending
<1>1. /\ lastAdded' = NextSlot /\ graphics = "idle" /\ CacheSize \in Nat /\ firstAdded \in Slots
  BY VideoOutputAssumption DEF LockFrame, IInv, TypeOK
<1>2. n \in 0..(CacheSize - 1) /\ (n = 0 <=> available = CacheSize)
  BY <1>1 DEF IInv, TypeOK, Pending, Unlocked, One
<1>3. lastAdded = IF n = 0 THEN firstAdded ELSE Place(firstAdded, n - 1)
  BY DEF IInv, Ring, RingConsistent, At
<1> HIDE DEF n
<1>4. CASE n = 0
  BY <1>1, <1>2, <1>3, <1>4, Places DEF NextSlot, n
<1>5. CASE n # 0
  <2>1. n - 1 \in 0..(CacheSize - 1) /\ (n - 1) + 1 = n /\ n < CacheSize
    BY <1>1, <1>2, <1>5
  <2>2. After(Place(firstAdded, n - 1)) = Place(firstAdded, n)
    BY <1>1, <2>1, Places
  <2> QED BY <1>1, <1>2, <1>3, <1>5, <2>2 DEF NextSlot, n
<1> QED BY <1>4, <1>5

\* video_output_lock_frame: a tick that finds no slot is skipped by the newest frame.
LEMMA LockSkips ==
    ASSUME IInv, SkipInv, NEW c \in 1..MaxCount, LockFrame(c)
    PROVE  SkipInv'
<1>1. /\ UNCHANGED <<available, firstAdded, Reported>> /\ graphics = "idle"
      /\ c \in Nat /\ skipsAdded \in Nat /\ slots \in [Slots -> Frame] /\ firstAdded \in Slots
      /\ CacheSize \in Nat /\ CacheSize > 0
  BY VideoOutputAssumption DEF LockFrame, IInv, TypeOK, Reported
<1>2. \A k : At(k)' = Place(firstAdded, k) /\ At(k) = Place(firstAdded, k)
  BY <1>1 DEF At
<1>3. PICK p : Totals(p, slots, Reported, skipsAdded)
  BY DEF SkipInv
<1>4. slots' \in [Slots -> Frame]
  BY StepInv DEF Next, IInv, TypeOK
<1>5. CASE available = 0
  <2>1. /\ lastAdded \in Slots /\ slots[lastAdded] \in Frame
        /\ slots' = [slots EXCEPT ![lastAdded] = Longer(slots[lastAdded], c)]
        /\ skipsAdded' = skipsAdded + c /\ graphics' = "idle"
    BY <1>1, <1>5 DEF LockFrame, Extend, IInv, TypeOK
  <2>2. Longer(slots[lastAdded], c).skipped = slots[lastAdded].skipped + c
    BY <1>1, <2>1, LongerFrame
  <2>3. /\ slots'[lastAdded].skipped = slots[lastAdded].skipped + c
        /\ \A s \in Slots : s # lastAdded => slots'[s].skipped = slots[s].skipped
    BY <1>1, <2>1, <2>2
  <2>4. \E q : Totals(q, slots', Reported, skipsAdded + c)
    BY <1>1, <1>3, <1>4, <2>1, <2>3, TotalsRaised
  <2>5. Pending' = CacheSize
    BY <1>1, <1>5, <2>1 DEF Pending, Unlocked, One
  <2>6. FreeSlots'
    BY <1>1, <2>5 DEF FreeSlots
  <2> QED BY <1>1, <2>1, <2>4, <2>6 DEF SkipInv
<1>6. CASE available # 0
  <2> DEFINE n == Pending
  <2>1. /\ n \in 0..(CacheSize - 1) /\ Pending' = n + 1
    BY <1>1, <1>6 DEF LockFrame, Pending, Unlocked, One, IInv, TypeOK
  <2>2. lastAdded' = Place(firstAdded, n)
    BY <1>6, AcceptPlace
  <2>3. /\ slots' = [slots EXCEPT ![lastAdded'] = [pic |-> produced, timestamp |-> produced,
                                                  count |-> c, skipped |-> 0]]
        /\ skipsAdded' = skipsAdded
    BY <1>6 DEF LockFrame
  <2>4. slots[Place(firstAdded, n)].skipped = 0
    BY <1>2, <2>1 DEF SkipInv, FreeSlots
  <2> HIDE DEF n
  <2>5. \A s \in Slots : slots'[s].skipped = slots[s].skipped
    BY <1>1, <2>2, <2>3, <2>4
  <2>6. Totals(p, slots', Reported, skipsAdded)
    BY <1>3, <2>5, TotalsSame
  <2>7. FreeSlots'
    <3>1. ASSUME NEW k \in (n + 1)..(CacheSize - 1)
          PROVE  slots'[Place(firstAdded, k)].skipped = 0
      <4>1. k \in n..(CacheSize - 1) /\ k \in 0..(CacheSize - 1)
        BY <1>1, <2>1
      <4>2. slots[Place(firstAdded, k)].skipped = 0
        BY <1>2, <4>1 DEF SkipInv, FreeSlots, n
      <4>3. Place(firstAdded, k) \in Slots
        BY <1>1, <4>1, Places
      <4> QED BY <2>5, <4>2, <4>3
    <3> QED BY <1>2, <2>1, <3>1 DEF FreeSlots
  <2> QED BY <1>1, <2>3, <2>6, <2>7 DEF SkipInv
<1> QED BY <1>5, <1>6

\* video_output_cur_frame: a skipped tick that has been shown is reported, and the
\* frame that leaves has no skipped ticks left.
LEMMA FinishSkips ==
    ASSUME IInv, SkipInv, FinishFrame
    PROVE  SkipInv'
<1> DEFINE n == Pending
           f == slots[firstAdded]
           skip == ~Complete(f.count) /\ CountsAsSkipped(f)
           g == Shown(f, skip)
<1>1. /\ video = "finish" /\ frameInfo = firstAdded /\ n \in 1..CacheSize
      /\ Unlocked \in 1..CacheSize /\ CacheSize \in Nat /\ CacheSize > 0
      /\ firstAdded \in Slots /\ slots \in [Slots -> Frame] /\ f \in Frame
      /\ skippedFrames \in Nat /\ skipsReset \in Nat /\ textureSkips \in Nat
      /\ available \in Nat
  BY PendingType DEF FinishFrame, IInv, Ring, FrameKept, Delivering, WakesForEachFrame, TypeOK
<1>2. /\ slots' = [slots EXCEPT ![firstAdded] = g]
      /\ Reported' = IF skip THEN Reported + 1 ELSE Reported
      /\ UNCHANGED <<skipsAdded, graphics>>
  BY <1>1 DEF FinishFrame, Reported
<1>3. f.skipped < f.count
  <2>1. 0 \in 0..(n - 1) /\ Place(firstAdded, 0) = firstAdded
    BY <1>1, Places
  <2>2. At(0) = firstAdded
    BY <2>1 DEF At
  <2> QED BY <2>1, <2>2 DEF IInv, Ring, RingConsistent
<1>4. /\ f.count \in Nat /\ f.skipped \in Nat /\ f.count > 0
      /\ skip \in BOOLEAN /\ (skip => f.skipped > 0)
  BY <1>1, <1>3 DEF Frame, CountsAsSkipped
<1>5. g.skipped = IF skip THEN f.skipped - 1 ELSE f.skipped
  BY <1>1, <1>4, ShownFrame
<1>6. slots' \in [Slots -> Frame]
  BY StepInv DEF Next, VideoThread, IInv, TypeOK
<1> HIDE DEF g
<1>7. slots'[firstAdded].skipped = g.skipped
      /\ \A s \in Slots : s # firstAdded => slots'[s].skipped = slots[s].skipped
  BY <1>1, <1>2
<1>8. PICK p : Totals(p, slots, Reported, skipsAdded)
  BY DEF SkipInv
<1> HIDE DEF n, f, skip
<1>9. \E q : Totals(q, slots', Reported', skipsAdded')
  <2>1. CASE skip
    <3>1. /\ slots[firstAdded].skipped > 0
          /\ slots'[firstAdded].skipped = slots[firstAdded].skipped - 1
      BY <1>4, <1>5, <1>7, <2>1 DEF f
    <3>2. Reported \in Nat
      BY <1>1, <1>8 DEF Totals
    <3>3. \E q : Totals(q, slots', Reported + 1, skipsAdded)
      BY <1>1, <1>6, <1>7, <1>8, <3>1, <3>2, TotalsShifted
    <3> QED BY <1>2, <2>1, <3>3
  <2>2. CASE ~skip
    <3>1. \A s \in Slots : slots'[s].skipped = slots[s].skipped
      BY <1>5, <1>7, <2>2 DEF f
    <3>2. Totals(p, slots', Reported, skipsAdded)
      BY <1>8, <3>1, TotalsSame
    <3> QED BY <1>2, <2>2, <3>2
  <2> QED BY <2>1, <2>2
<1>10. ASSUME NEW k \in n..(CacheSize - 1)
       PROVE  slots'[Place(firstAdded, k)].skipped = 0
  <2>1. k \in 0..(CacheSize - 1) /\ 0 \in 0..(CacheSize - 1) /\ k # 0
    BY <1>1
  <2>2. Place(firstAdded, k) \in Slots /\ Place(firstAdded, k) # firstAdded
    BY <1>1, <2>1, Places
  <2>3. slots[Place(firstAdded, k)].skipped = 0
    BY DEF SkipInv, FreeSlots, n, At
  <2> QED BY <1>7, <2>2, <2>3
<1>11. FreeSlots'
  <2>1. CASE f.count = 1
    <3>1. firstAdded' = After(firstAdded) /\ available' = available + 1 /\ firstAdded' \in Slots
      <4>1. firstAdded' = After(firstAdded) /\ available' = available + 1
        BY <1>1, <2>1 DEF FinishFrame, Complete, f
      <4> QED BY <1>1, <4>1, VideoOutputAssumption DEF After, Slots
    <3>2. Pending' = n - 1
      BY <1>1, <1>2, <3>1 DEF Pending, Unlocked, One, n
    <3>3. slots'[firstAdded].skipped = 0
      BY <1>3, <1>4, <1>5, <1>7, <2>1
    <3>4. ASSUME NEW k \in (n - 1)..(CacheSize - 1)
          PROVE  slots'[Place(firstAdded', k)].skipped = 0
      <4>1. k \in 0..(CacheSize - 1)
        BY <1>1
      <4>2. CASE k + 1 < CacheSize
        <5>1. Place(firstAdded', k) = Place(firstAdded, k + 1)
          BY <1>1, <3>1, <4>1, <4>2, Places
        <5>2. k + 1 \in n..(CacheSize - 1)
          BY <1>1, <4>1, <4>2
        <5> QED BY <1>10, <5>1, <5>2
      <4>3. CASE k + 1 = CacheSize
        <5>1. Place(firstAdded', k) = firstAdded
          BY <1>1, <3>1, <4>1, <4>3, Places
        <5> QED BY <3>3, <5>1
      <4> QED BY <1>1, <4>1, <4>2, <4>3
    <3> QED BY <3>2, <3>4 DEF FreeSlots, At
  <2>2. CASE f.count # 1
    <3>1. UNCHANGED <<firstAdded, available>>
      BY <1>1, <2>2 DEF FinishFrame, Complete, f
    <3>2. Pending' = n
      BY <1>2, <3>1 DEF Pending, Unlocked, One, n
    <3> QED BY <1>10, <3>1, <3>2 DEF FreeSlots, At
  <2> QED BY <2>1, <2>2
<1> QED BY <1>9, <1>11 DEF SkipInv

\* The steps that skip, show and report nothing; reset_frames forgets what was
\* reported, and the encode thread counts for itself.
LEMMA SkipsKept ==
    ASSUME SkipInv, UNCHANGED <<slots, firstAdded, skipsAdded>>, Pending' = Pending,
           Reported' = Reported
    PROVE  SkipInv'
BY DEF SkipInv, FreeSlots, At

LEMMA SkipStep == IInv /\ SkipInv /\ [Next]_vars => SkipInv'
<1> SUFFICES ASSUME IInv, SkipInv, [Next]_vars PROVE SkipInv'
  OBVIOUS
<1>1. CASE \E c \in 1..MaxCount : LockFrame(c)
  BY <1>1, LockSkips
<1>2. CASE FinishFrame
  BY <1>2, FinishSkips
<1>3. CASE UnlockFrame
  <2>1. /\ UNCHANGED <<slots, firstAdded, skipsAdded, Reported>>
        /\ available' = available - 1 /\ graphics = "locked" /\ graphics' = "idle"
    BY <1>3 DEF UnlockFrame, history, Reported
  <2>2. Pending' = Pending
    BY <2>1, VideoOutputAssumption DEF Pending, Unlocked, One, IInv, TypeOK
  <2> QED BY <2>1, <2>2, SkipsKept
<1>4. CASE (\E i \in Inputs : Connect(i)) \/ ResetTexture \/ TextureSkip
  <2>1. UNCHANGED <<slots, firstAdded, available, graphics, skipsAdded>>
    BY <1>4 DEF Connect, ResetTexture, TextureSkip, ringVars, threadVars
  <2>2. Reported' = Reported
    BY <1>4 DEF Connect, ResetTexture, ResetSkipped, TextureSkip, Reported, IInv, TypeOK
  <2>3. Pending' = Pending
    BY <2>1 DEF Pending, Unlocked, One
  <2> QED BY <2>1, <2>2, <2>3, SkipsKept
<1>5. CASE \/ VideoWait \/ CurFrame \/ BeginInputs \/ DeliverInput \/ EndInputs
           \/ \E i \in Inputs : Disconnect(i)
           \/ StartEncoding \/ StartTexture \/ CheckTexture \/ StopTexture \/ EndEncoding
           \/ Stop \/ StopPost \/ StopJoin
           \/ UNCHANGED vars
  <2>1. UNCHANGED <<slots, firstAdded, available, graphics, skipsAdded, Reported>>
    BY <1>5
       DEF VideoWait, CurFrame, BeginInputs, DeliverInput, EndInputs, Disconnect, StartTexture,
           CheckTexture, StopTexture, StartEncoding, EndEncoding, Stop, StopPost, StopJoin,
           vars, ringVars, threadVars, history, Reported
  <2>2. Pending' = Pending
    BY <2>1 DEF Pending, Unlocked, One
  <2> QED BY <2>1, <2>2, SkipsKept
<1> QED BY <1>1, <1>2, <1>3, <1>4, <1>5 DEF Next, VideoThread

\* skipped_frames, with what reset_frames took from it, is the ticks the encode
\* thread repeated a texture for and the delivered ticks that video_output_lock_frame
\* could give no slot of their own, each once, whatever the size of the cache and
\* whoever starts the count again in between; the others are still in the ring.
THEOREM SkipsAreCounted == Spec => []SkipsCountedOnce
<1>1. IInv /\ SkipInv => SkipsCountedOnce
  <2> SUFFICES ASSUME IInv, SkipInv PROVE SkipsCountedOnce
    OBVIOUS
  <2>1. PICK p : Totals(p, slots, Reported, skipsAdded)
    BY DEF SkipInv
  <2>2. CacheSize \in Nat /\ CacheSize \in 0..CacheSize /\ skipsAdded \in Nat
        /\ skippedFrames \in Nat /\ skipsReset \in Nat /\ textureSkips \in Nat
    BY VideoOutputAssumption DEF IInv, TypeOK
  <2>3. \A i \in 0..CacheSize : p[i] \in Nat /\ p[i] <= p[CacheSize]
    BY <2>1, <2>2 DEF Totals
  <2>4. p \in [0..CacheSize -> 0..skipsAdded]
    BY <2>1, <2>2, <2>3 DEF Totals
  <2>5. /\ p[0] + textureSkips = skippedFrames + skipsReset
        /\ \A s \in Slots : p[s + 1] = p[s] + slots[s].skipped
        /\ p[CacheSize] = skipsAdded
    BY <2>1, <2>2 DEF Totals, Reported
  <2> QED BY <2>4, <2>5 DEF SkipsCountedOnce
<1> QED BY <1>1, InitSkips, Inductive, SkipStep, PTL DEF Spec
=============================================================================
