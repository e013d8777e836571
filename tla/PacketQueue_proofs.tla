------------------------- MODULE PacketQueue_proofs -------------------------
(***************************************************************************)
(* A bitrate that was lowered returns: for any stream, whatever the        *)
(* network does to it, for any bitrates and steps between them.  And what  *)
(* is sent of a stream in step can be played, whatever is dropped of it.   *)
(*                                                                         *)
(* The invariant says that the queue knows the time of the last frame      *)
(* (Followed), and of a bitrate below the original that its next step is   *)
(* still ahead of that frame, and how many steps it has taken since it was *)
(* lowered and how late these were at most (Pacing).  Of the packets that  *)
(* were not dropped it says that each frame has those it needs, and that   *)
(* those to come will have theirs unless min_priority keeps them away      *)
(* (Decodable), for which the order in the queue is needed (InLine).       *)
(***************************************************************************)
EXTENDS PacketQueue, TLAPS

IsQueue(q) ==
    q = [packets |-> q.packets, minPriority |-> q.minPriority, lastDts |-> q.lastDts]

\* The packets the queue was offered.
Seen == IF producer = "add" THEN arrived - 1 ELSE arrived

\* A step is late by less than the time between two frames.
Late == IncTimer + Gap - 1

Typed ==
    /\ course \in Courses /\ arrived \in 0 .. Len(course.packets)
    /\ producer \in {"idle", "add", "post"} /\ (producer = "add" => arrived # 0)
    /\ IsQueue(queue) /\ queue.lastDts \in Nat
    /\ bitrate \in [cur : Least..Original, prev : {0} \cup (Least..Original), due : Nat]
    /\ estimate \in Nat /\ lowered \in Nat

\* Without the dynamic bitrate it stays, with it no frame is dropped.
Exclusive ==
    IF course.dynamic THEN queue.minPriority = 0 ELSE bitrate.cur = Original

Followed ==
    course.dynamic /\ ~disconnected /\ (active \/ producer = "add") =>
        \A i \in 1..Seen : IsVideo(i) => Dts(i) <= queue.lastDts

Pacing ==
    bitrate.cur < Original =>
        /\ \E i \in 1..Seen : IsVideo(i)
        /\ queue.lastDts < bitrate.due
        /\ \E k \in Nat : /\ Least + k * Increase <= bitrate.cur
                          /\ bitrate.due <= lowered + IncTimer + k * Late

PacketInv == Typed /\ Exclusive /\ Followed /\ Pacing

-----------------------------------------------------------------------------
(* Arithmetic.                                                             *)

LEMMA Quotient ==
  ASSUME NEW d \in Nat \ {0}, NEW x \in Nat
  PROVE  x \div d \in Nat /\ x % d \in 0 .. (d - 1) /\ x = d * (x \div d) + (x % d)
BY SMT

\* What lies below n in steps of d takes no more of them than n / d, rounded up.
LEMMA StepsBelow ==
  ASSUME NEW d \in Nat \ {0}, NEW n \in Nat, NEW k \in Nat, k * d < n
  PROVE  k + 1 <= (n + d - 1) \div d /\ (n + d - 1) \div d \in Nat
<1> DEFINE q == (n + d - 1) \div d
           r == (n + d - 1) % d
<1>1. q \in Nat /\ r \in 0 .. (d - 1) /\ n + d - 1 = d * q + r
  <2>1. n + d - 1 \in Nat
    OBVIOUS
  <2> QED
    BY <2>1, Quotient
<1> HIDE DEF q, r
<1>2. d * q > k * d
  BY <1>1
<1>3. d * (q - k) > 0
  BY <1>1, <1>2
<1>4. q > k
  BY <1>1, <1>3
<1> QED
  BY <1>1, <1>4 DEF q

\* The bitrate is rounded down.
LEMMA Rounded ==
  ASSUME NEW e \in Nat
  PROVE  (e \div Grain) * Grain \in Nat /\ (e \div Grain) * Grain <= e
<1>1. Grain \in Nat \ {0}
  BY PacketQueueAssumption
<1>2. e \div Grain \in Nat /\ e % Grain \in 0 .. (Grain - 1) /\ e = Grain * (e \div Grain) + (e % Grain)
  BY <1>1, Quotient
<1> DEFINE q == e \div Grain
           r == e % Grain
<1> HIDE DEF q, r
<1>3. q \in Nat /\ r \in Nat /\ e = Grain * q + r
  BY <1>1, <1>2 DEF q, r
<1>4. q * Grain \in Nat /\ q * Grain <= e
  BY <1>1, <1>3
<1> QED
  BY <1>4 DEF q

LEMMA Rates ==
  /\ Least \in Nat \ {0} /\ Original \in Nat /\ Least <= Original
  /\ Increase \in Nat \ {0} /\ IncTimer \in Nat \ {0} /\ Gap \in Nat \ {0}
  /\ Late \in Nat
<1>1. /\ Least \in Nat \ {0} /\ Original \in Nat /\ Least <= Original
      /\ Increase \in Nat \ {0} /\ IncTimer \in Nat \ {0} /\ Gap \in Nat \ {0}
  BY PacketQueueAssumption
<1> QED
  BY <1>1 DEF Late

-----------------------------------------------------------------------------
(* The course.                                                             *)

LEMMA CourseFacts ==
  ASSUME Typed
  PROVE  /\ Len(course.packets) \in Nat /\ course.dynamic \in BOOLEAN
         /\ \A i \in 1 .. Len(course.packets) :
              /\ Packet(i).priority \in Nat /\ Dts(i) \in Nat
              /\ \A j \in 1 .. i : Dts(j) <= Dts(i)
              /\ IsVideo(i) => \/ \A j \in 1 .. (i - 1) : ~IsVideo(j)
                               \/ \E j \in 1 .. (i - 1) : IsVideo(j) /\ Dts(i) - Dts(j) <= Gap
<1>1. CourseType(course)
  BY PacketQueueAssumption DEF Typed
<1> DEFINE ps == course.packets
<1>2. /\ ps \in Seq(PacketType) /\ course.dynamic \in BOOLEAN
      /\ \A i, j \in DOMAIN ps : i < j => ps[i].dts <= ps[j].dts
      /\ \A i \in DOMAIN ps : ps[i].video =>
           \/ \A j \in 1..(i - 1) : ~ps[j].video
           \/ \E j \in 1..(i - 1) : ps[j].video /\ ps[i].dts - ps[j].dts <= Gap
  BY <1>1, Zenon DEF CourseType
<1>3. Len(ps) \in Nat /\ DOMAIN ps = 1 .. Len(ps) /\ \A i \in 1 .. Len(ps) : ps[i] \in PacketType
  BY <1>2
<1> HIDE DEF ps
<1>4. ASSUME NEW i \in 1 .. Len(ps)
      PROVE  /\ ps[i].priority \in Nat /\ ps[i].dts \in Nat
             /\ \A j \in 1 .. i : ps[j].dts <= ps[i].dts
             /\ ps[i].video => \/ \A j \in 1 .. (i - 1) : ~ps[j].video
                               \/ \E j \in 1 .. (i - 1) : ps[j].video /\ ps[i].dts - ps[j].dts <= Gap
  <2>1. ps[i].priority \in Nat /\ ps[i].dts \in Nat
    BY <1>3 DEF PacketType, Disposable, Highest
  <2>2. ASSUME NEW j \in 1 .. i PROVE ps[j].dts <= ps[i].dts
    <3>1. CASE j = i
      BY <2>1, <3>1
    <3>2. CASE j # i
      <4>1. j \in 1 .. Len(ps) /\ j < i
        BY <1>3, <3>2
      <4> QED
        BY <1>2, <1>3, <4>1
    <3> QED
      BY <3>1, <3>2
  <2>3. i \in DOMAIN ps
    BY <1>3
  <2> QED
    BY <1>2, <2>1, <2>2, <2>3
<1> QED
  BY <1>2, <1>3, <1>4, Zenon DEF ps, Packet, IsVideo, Dts

-----------------------------------------------------------------------------
(* The queue.                                                              *)

LEMMA Dropped ==
  ASSUME NEW q, IsQueue(q), NEW threshold, NEW highest
  PROVE  /\ IsQueue(DropLate(q, threshold, highest))
         /\ DropLate(q, threshold, highest).lastDts = q.lastDts
         /\ course.dynamic => DropLate(q, threshold, highest) = q
<1> DEFINE rest == Spared(q.packets, highest)
           least == IF q.minPriority < highest THEN highest ELSE q.minPriority
<1> DEFINE mid == [q EXCEPT !.packets = rest]
           f == [mid EXCEPT !.minPriority = least]
<1>1. DropFrames(q, highest) = f
  BY DEF DropFrames
<1> HIDE DEF rest, least
<1>2. IsQueue(mid) /\ mid.lastDts = q.lastDts
  BY DEF IsQueue
<1> HIDE DEF mid
<1>3. IsQueue(f) /\ f.lastDts = q.lastDts
  BY <1>2 DEF IsQueue
<1> HIDE DEF f
<1> QED
  BY <1>1, <1>3, Zenon DEF DropLate

\* What becomes of the queue when a packet is added to it.
LEMMA Added ==
  ASSUME Typed, Exclusive, NEW i \in 1 .. Len(course.packets)
  PROVE  /\ IsQueue(AddPacket(queue, i)) /\ AddPacket(queue, i).lastDts \in Nat
         /\ course.dynamic =>
              /\ AddPacket(queue, i).minPriority = 0
              /\ AddPacket(queue, i).lastDts = IF IsVideo(i) THEN Dts(i) ELSE queue.lastDts
<1> DEFINE c == CheckToDrop(queue)
           a == c.packets \cup {i}
           n == [packets |-> a, minPriority |-> 0, lastDts |-> Dts(i)]
<1>1. IsQueue(queue) /\ queue.lastDts \in Nat /\ Packet(i).priority \in Nat /\ Dts(i) \in Nat
  BY CourseFacts DEF Typed
<1>2. IsQueue(c) /\ c.lastDts = queue.lastDts /\ (course.dynamic => c = queue)
  <2> DEFINE b == DropLate(queue, DropB, High)
  <2>1. IsQueue(b) /\ b.lastDts = queue.lastDts /\ (course.dynamic => b = queue)
    BY <1>1, Dropped, Zenon
  <2> HIDE DEF b
  <2>2. /\ IsQueue(DropLate(b, DropP, Highest))
        /\ DropLate(b, DropP, Highest).lastDts = b.lastDts
        /\ course.dynamic => DropLate(b, DropP, Highest) = b
    BY <2>1, Dropped, Zenon
  <2> QED
    BY <2>1, <2>2, Zenon DEF CheckToDrop, b
<1>3. CASE IsVideo(i)
  <2>1. AddPacket(queue, i) = IF Packet(i).priority < c.minPriority THEN c ELSE n
    BY <1>3, Zenon DEF AddPacket, AddVideo
  <2> HIDE DEF c, a
  <2>2. IsQueue(n) /\ n.lastDts = Dts(i) /\ n.minPriority = 0
    BY DEF IsQueue
  <2> HIDE DEF n
  <2>3. CASE course.dynamic
    <3>1. c.minPriority = 0
      BY <1>2, <2>3, Zenon DEF Exclusive
    <3>2. ~(Packet(i).priority < c.minPriority)
      BY <1>1, <3>1
    <3> QED
      BY <1>1, <1>3, <2>1, <2>2, <3>2, Zenon
  <2>4. CASE ~course.dynamic
    BY <1>1, <1>2, <2>1, <2>2, <2>4, Zenon
  <2> QED
    BY <2>3, <2>4
<1>4. CASE ~IsVideo(i)
  <2> DEFINE o == queue.packets \cup {i}
  <2>1. AddPacket(queue, i) = [queue EXCEPT !.packets = o]
    BY <1>4, Zenon DEF AddPacket
  <2> HIDE DEF o
  <2>2. /\ IsQueue([queue EXCEPT !.packets = o])
        /\ [queue EXCEPT !.packets = o].lastDts = queue.lastDts
        /\ [queue EXCEPT !.packets = o].minPriority = queue.minPriority
    BY <1>1 DEF IsQueue
  <2> QED
    BY <1>1, <1>4, <2>1, <2>2, Zenon DEF Exclusive
<1> QED
  BY <1>3, <1>4

-----------------------------------------------------------------------------
(* The bitrate.                                                            *)

Rate == [cur : Least..Original, prev : {0} \cup (Least..Original), due : Nat]

\* A step raises the bitrate, up to the original.
LEMMA Raised ==
  ASSUME NEW b \in Rate, NEW now \in Nat
  PROVE  /\ RaiseWhenDue(b, now) \in Rate
         /\ RaiseWhenDue(b, now).cur < Original =>
              \/ RaiseWhenDue(b, now) = b /\ (b.due = 0 \/ now < b.due)
              \/ /\ b.cur < Original /\ b.due <= now
                 /\ RaiseWhenDue(b, now).cur = b.cur + Increase
                 /\ RaiseWhenDue(b, now).due = now + IncTimer
<1> USE Rates DEF Rate
<1>1. CASE b.due # 0 /\ now >= b.due
  <2> DEFINE full == [cur |-> Original, prev |-> b.cur, due |-> 0]
             more == [cur |-> b.cur + Increase, prev |-> b.cur, due |-> now + IncTimer]
  <2>1. RaiseWhenDue(b, now) = IF b.cur + Increase >= Original THEN full ELSE more
    BY <1>1, Zenon DEF RaiseWhenDue, IncBitrate
  <2>2. CASE b.cur + Increase >= Original
    <3>1. full \in Rate /\ full.cur = Original
      OBVIOUS
    <3> HIDE DEF full, more
    <3>2. RaiseWhenDue(b, now) = full
      BY <2>1, <2>2, Zenon
    <3>3. ~(full.cur < Original)
      BY <3>1
    <3> QED
      BY <3>1, <3>2, <3>3, Zenon
  <2>3. CASE ~(b.cur + Increase >= Original)
    <3>1. /\ more \in Rate /\ more.cur = b.cur + Increase /\ more.due = now + IncTimer
          /\ b.cur < Original /\ b.due <= now
      BY <1>1, <2>3
    <3> HIDE DEF full, more
    <3>2. RaiseWhenDue(b, now) = more
      BY <2>1, <2>3, Zenon
    <3> QED
      BY <3>1, <3>2, Zenon
  <2> QED
    BY <2>2, <2>3
<1>2. CASE ~(b.due # 0 /\ now >= b.due)
  <2>1. RaiseWhenDue(b, now) = b
    BY <1>2, Zenon DEF RaiseWhenDue
  <2> QED
    BY <1>2, <2>1
<1> QED
  BY <1>1, <1>2

\* A bitrate that is lowered stays in its range.
LEMMA LoweredRate ==
  ASSUME NEW b \in Rate, estimate \in Nat, LowerBitrate(b) # 0
  PROVE  LowerBitrate(b) \in Least..Original
<1> DEFINE r == (estimate \div Grain) * Grain
<1>1. r \in Nat /\ r <= estimate
  BY Rounded
<1>2. LowerBitrate(b) = IF estimate # 0 /\ estimate < b.cur
                        THEN IF r < Least THEN Least ELSE r
                        ELSE IF b.prev = b.cur THEN 0 ELSE b.prev
  BY Zenon DEF LowerBitrate
<1> HIDE DEF r
<1>3. b.cur \in Least..Original /\ b.prev \in {0} \cup (Least..Original)
  BY DEF Rate
<1>4. CASE estimate # 0 /\ estimate < b.cur
  <2>1. LowerBitrate(b) = IF r < Least THEN Least ELSE r
    BY <1>2, <1>4, Zenon
  <2> QED
    BY <1>1, <1>3, <1>4, <2>1, Rates
<1>5. CASE ~(estimate # 0 /\ estimate < b.cur)
  <2>1. LowerBitrate(b) = IF b.prev = b.cur THEN 0 ELSE b.prev
    BY <1>2, <1>5, Zenon
  <2> QED
    BY <1>3, <2>1
<1> QED
  BY <1>4, <1>5

-----------------------------------------------------------------------------
(* The invariant.                                                          *)

LEMMA InitInv == Init => PacketInv
<1> SUFFICES ASSUME Init PROVE PacketInv
  OBVIOUS
<1> USE Rates
<1>1. course \in Courses /\ Len(course.packets) \in Nat
  BY PacketQueueAssumption DEF Init, CourseType
<1>2. Typed
  <2>1. IsQueue(queue) /\ queue.lastDts \in Nat /\ bitrate \in Rate
    BY DEF Init, IsQueue, Rate
  <2>2. arrived \in 0 .. Len(course.packets) /\ producer = "idle"
    BY <1>1 DEF Init
  <2>3. estimate \in Nat /\ lowered \in Nat
    BY DEF Init
  <2> QED
    BY <1>1, <2>1, <2>2, <2>3 DEF Typed, Rate
<1>3. bitrate.cur = Original /\ queue.minPriority = 0 /\ Seen = 0
  BY DEF Init, Seen
<1>4. Exclusive /\ Followed /\ Pacing
  BY <1>3 DEF Exclusive, Followed, Pacing
<1> QED
  BY <1>2, <1>4 DEF PacketInv

\* What the send thread and those who stop the stream do leaves the times alone; the
\* bitrate may be reset.
LEMMA QuietStep ==
  ASSUME PacketInv, course' = course, arrived' = arrived,
         producer' = producer \/ (producer = "post" /\ producer' = "idle"),
         IsQueue(queue'), queue'.lastDts = queue.lastDts,
         queue'.minPriority = queue.minPriority,
         bitrate' = bitrate \/ bitrate' = [bitrate EXCEPT !.cur = Original],
         estimate' \in Nat, lowered' = lowered,
         disconnected => disconnected', active' => active
  PROVE  PacketInv'
<1> USE Rates
<1>1. Typed /\ Exclusive /\ Followed /\ Pacing /\ bitrate \in Rate
  BY DEF PacketInv, Typed, Rate
<1>2. Seen' = Seen
  BY DEF Seen
<1>3. /\ bitrate' \in Rate /\ bitrate'.cur \in {bitrate.cur, Original}
      /\ bitrate'.cur # Original => bitrate' = bitrate
  BY <1>1 DEF Rate
<1>4. Typed'
  <2>1. producer' \in {"idle", "add", "post"} /\ (producer' = "add" => arrived' # 0)
    BY <1>1 DEF Typed
  <2> QED
    BY <1>1, <1>3, <2>1 DEF Typed, Rate
<1>5. Exclusive'
  BY <1>1, <1>3 DEF Exclusive
<1>6. Followed'
  <2>1. ASSUME course.dynamic, ~disconnected', active' \/ producer' = "add", NEW i \in 1 .. Seen, IsVideo(i)
        PROVE  Dts(i) <= queue.lastDts
    BY <1>1, <2>1 DEF Followed
  <2> QED
    BY <1>2, <2>1, Zenon DEF Followed, IsVideo, Dts, Packet
<1>7. Pacing'
  <2>1. CASE bitrate'.cur = Original
    <3>1. ~(bitrate'.cur < Original)
      BY <2>1
    <3> QED
      BY <3>1 DEF Pacing
  <2>2. CASE bitrate'.cur # Original
    <3>1. bitrate' = bitrate
      BY <1>3, <2>2
    <3> QED
      BY <1>1, <1>2, <3>1, Zenon DEF Pacing, IsVideo, Packet
  <2> QED
    BY <2>1, <2>2
<1> QED
  BY <1>4, <1>5, <1>6, <1>7 DEF PacketInv

\* A packet that arrives is seen at once only when it is not added.
LEMMA ArriveStep == PacketInv /\ Arrive => PacketInv'
<1> SUFFICES ASSUME PacketInv, Arrive PROVE PacketInv'
  OBVIOUS
<1>1. Typed /\ Exclusive /\ Followed /\ Pacing
  BY DEF PacketInv
<1>2. /\ producer = "idle" /\ arrived < Len(course.packets) /\ arrived' = arrived + 1
      /\ producer' = IF disconnected \/ ~active THEN "idle" ELSE "add"
      /\ course' = course /\ queue' = queue /\ bitrate' = bitrate /\ lowered' = lowered
      /\ estimate' = estimate /\ disconnected' = disconnected /\ active' = active
  BY DEF Arrive, queueVars, senderVars
<1>3. arrived \in Nat /\ Seen = arrived /\ Len(course.packets) \in Nat
  BY <1>1, <1>2, CourseFacts DEF Typed, Seen
<1>4. Seen' = IF disconnected \/ ~active THEN Seen + 1 ELSE Seen
  <2>1. CASE disconnected \/ ~active
    BY <1>2, <1>3, <2>1 DEF Seen
  <2>2. CASE ~(disconnected \/ ~active)
    BY <1>2, <1>3, <2>2 DEF Seen
  <2> QED
    BY <2>1, <2>2
<1>5. Typed'
  <2>1. arrived' \in 0 .. Len(course.packets) /\ arrived' # 0
    BY <1>2, <1>3
  <2>2. producer' \in {"idle", "add", "post"}
    BY <1>2
  <2> QED
    BY <1>1, <1>2, <2>1, <2>2, Zenon DEF Typed, IsQueue
<1>6. Exclusive'
  BY <1>1, <1>2, Zenon DEF Exclusive
<1>7. Followed'
  <2>1. CASE disconnected \/ ~active
    <3>1. disconnected' \/ (~active' /\ producer' # "add")
      BY <1>2, <2>1
    <3> QED
      BY <3>1, Zenon DEF Followed
  <2>2. CASE ~(disconnected \/ ~active)
    <3>1. Seen' = Seen
      BY <1>4, <2>2, Zenon
    <3> QED
      BY <1>1, <1>2, <2>2, <3>1, Zenon DEF Followed, IsVideo, Dts, Packet
  <2> QED
    BY <2>1, <2>2
<1>8. Pacing'
  <2>1. ASSUME NEW i \in 1 .. Seen PROVE i \in 1 .. Seen'
    <3>1. Seen' = Seen + 1 \/ Seen' = Seen
      BY <1>4, Zenon
    <3> QED
      BY <1>3, <3>1
  <2> QED
    BY <1>1, <1>2, <2>1, Zenon DEF Pacing, IsVideo, Packet
<1> QED
  BY <1>5, <1>6, <1>7, <1>8 DEF PacketInv

\* A frame is added: the queue has its time, and the bitrate has taken the step that was
\* due, or was lowered.
LEMMA AddFrame ==
  ASSUME Typed, Followed, Pacing, course.dynamic, producer = "add", ~disconnected,
         IsVideo(arrived), CheckBitrate(arrived)
  PROVE  /\ bitrate' \in Rate /\ lowered' \in Nat
         /\ bitrate'.cur < Original =>
              /\ Dts(arrived) < bitrate'.due
              /\ \E k \in Nat : /\ Least + k * Increase <= bitrate'.cur
                                /\ bitrate'.due <= lowered' + IncTimer + k * Late
<1> USE Rates
<1> DEFINE now == Dts(arrived)
           b == RaiseWhenDue(bitrate, now)
           l == LowerBitrate(b)
<1>1. /\ arrived \in 1 .. Len(course.packets) /\ arrived \in Nat /\ Seen = arrived - 1
      /\ bitrate \in Rate /\ estimate \in Nat /\ lowered \in Nat /\ queue.lastDts \in Nat
  BY CourseFacts DEF Typed, Seen, Rate
<1>2. /\ now \in Nat
      /\ \/ \A j \in 1 .. (arrived - 1) : ~IsVideo(j)
         \/ \E j \in 1 .. (arrived - 1) : IsVideo(j) /\ now - Dts(j) <= Gap /\ Dts(j) \in Nat
  <2>1. ASSUME NEW j \in 1 .. (arrived - 1) PROVE j \in 1 .. Len(course.packets)
    BY <1>1, CourseFacts
  <2>2. /\ now \in Nat
        /\ \/ \A j \in 1 .. (arrived - 1) : ~IsVideo(j)
           \/ \E j \in 1 .. (arrived - 1) : IsVideo(j) /\ now - Dts(j) <= Gap
    BY <1>1, CourseFacts, Zenon
  <2> QED
    BY <2>1, <2>2, CourseFacts, Zenon
<1>3. b \in Rate
  BY <1>1, <1>2, Raised, Zenon
<1>4. CASE Lowers(queue, b)
  <2>1. bitrate' = [cur |-> l, prev |-> 0, due |-> now + IncTimer] /\ lowered' = now
    BY <1>4, Zenon DEF CheckBitrate
  <2>2. l \in Least..Original
    <3> HIDE DEF b
    <3> QED
      BY <1>1, <1>3, <1>4, LoweredRate, Zenon DEF Lowers
  <2> HIDE DEF l, now
  <2>3. /\ bitrate'.cur = l /\ bitrate'.due = now + IncTimer /\ bitrate' \in Rate
    BY <1>2, <2>1, <2>2 DEF Rate
  <2>4. Least + 0 * Increase <= bitrate'.cur /\ bitrate'.due <= lowered' + IncTimer + 0 * Late
    BY <1>2, <2>1, <2>2, <2>3
  <2>5. now < bitrate'.due
    BY <1>2, <2>3
  <2>6. 0 \in Nat
    OBVIOUS
  <2> QED
    BY <1>2, <2>1, <2>3, <2>4, <2>5, <2>6, Zenon DEF now
<1>5. CASE ~Lowers(queue, b)
  <2>1. bitrate' = b /\ lowered' = lowered
    BY <1>5, Zenon DEF CheckBitrate
  <2>2. ASSUME b.cur < Original
        PROVE  /\ now < b.due
               /\ \E k \in Nat : /\ Least + k * Increase <= b.cur
                                 /\ b.due <= lowered + IncTimer + k * Late
    <3>1. \/ b = bitrate /\ (bitrate.due = 0 \/ now < bitrate.due)
          \/ /\ bitrate.cur < Original /\ bitrate.due <= now
             /\ b.cur = bitrate.cur + Increase /\ b.due = now + IncTimer
      BY <1>1, <1>2, <2>2, Raised, Zenon
    <3> HIDE DEF b
    <3>2. bitrate.cur < Original
      BY <2>2, <3>1, Zenon
    <3>3. PICK k \in Nat : /\ Least + k * Increase <= bitrate.cur
                           /\ bitrate.due <= lowered + IncTimer + k * Late
      BY <3>2, Zenon DEF Pacing
    <3>4. queue.lastDts < bitrate.due /\ \E i \in 1 .. Seen : IsVideo(i)
      BY <3>2, Zenon DEF Pacing
    <3>5. CASE b = bitrate /\ (bitrate.due = 0 \/ now < bitrate.due)
      <4>1. now < bitrate.due
        BY <1>1, <3>4, <3>5
      <4> QED
        BY <3>3, <3>5, <4>1, Zenon
    <3>6. CASE /\ bitrate.cur < Original /\ bitrate.due <= now
               /\ b.cur = bitrate.cur + Increase /\ b.due = now + IncTimer
      <4>1. PICK j \in 1 .. Seen : IsVideo(j) /\ now - Dts(j) <= Gap /\ Dts(j) \in Nat
        BY <1>1, <1>2, <3>4, Zenon
      <4>2. Dts(j) <= queue.lastDts
        BY <4>1, Zenon DEF Followed
      <4> HIDE DEF now
      <4>3. now < b.due
        BY <1>2, <3>6
      <4>4. bitrate.cur \in Nat /\ bitrate.due \in Nat
        BY <1>1 DEF Rate
      <4> DEFINE x == k * Increase
                 y == k * Late
      <4>5. (k + 1) * Increase = x + Increase /\ (k + 1) * Late = y + Late /\ x \in Nat /\ y \in Nat
        OBVIOUS
      <4> HIDE DEF x, y
      <4>6. Least + x <= bitrate.cur /\ bitrate.due <= lowered + IncTimer + y
        BY <3>3 DEF x, y
      <4>7. Least + (k + 1) * Increase <= b.cur
        BY <3>6, <4>4, <4>5, <4>6
      <4>8. now <= bitrate.due + Gap - 1
        BY <1>1, <1>2, <3>4, <4>1, <4>2, <4>4
      <4>9. b.due <= lowered + IncTimer + (k + 1) * Late
        <5>1. Late = IncTimer + (Gap - 1)
          BY DEF Late
        <5>2. lowered + IncTimer + (y + Late) >= now + IncTimer
          BY <1>1, <1>2, <4>4, <4>5, <4>6, <4>8, <5>1
        <5> QED
          BY <3>6, <4>5, <5>2
      <4>10. k + 1 \in Nat
        OBVIOUS
      <4> QED
        BY <4>3, <4>7, <4>9, <4>10, Zenon
    <3> QED
      BY <3>1, <3>5, <3>6
  <2> HIDE DEF b, now
  <2> QED
    BY <1>1, <1>3, <2>1, <2>2, Zenon DEF now
<1> QED
  BY <1>4, <1>5

LEMMA AddStep == PacketInv /\ Add => PacketInv'
<1> SUFFICES ASSUME PacketInv, Add PROVE PacketInv'
  OBVIOUS
<1>1. Typed /\ Exclusive /\ Followed /\ Pacing
  BY DEF PacketInv
<1>2. /\ producer = "add" /\ arrived' = arrived /\ course' = course /\ estimate' = estimate
      /\ disconnected' = disconnected /\ active' = active
      /\ producer' \in {"idle", "post"}
  BY DEF Add, senderVars
<1>3. /\ arrived \in 1 .. Len(course.packets) /\ arrived \in Nat
      /\ Seen = arrived - 1 /\ Seen' = arrived
      /\ bitrate \in Rate /\ lowered \in Nat /\ estimate \in Nat /\ queue.lastDts \in Nat
      /\ course.dynamic \in BOOLEAN /\ Dts(arrived) \in Nat
  BY <1>1, <1>2, CourseFacts DEF Typed, Seen, Rate
<1>4. CASE disconnected
  <2>1. queue' = queue /\ bitrate' = bitrate /\ lowered' = lowered
    BY <1>4 DEF Add, queueVars
  <2>2. Typed' /\ Exclusive'
    BY <1>1, <1>2, <2>1, Zenon DEF Typed, IsQueue, Exclusive
  <2>3. Followed'
    BY <1>2, <1>4, Zenon DEF Followed
  <2>4. Pacing'
    <3>1. \A i \in 1 .. Seen : i \in 1 .. Seen'
      BY <1>3
    <3> QED
      BY <1>1, <1>2, <2>1, <3>1, Zenon DEF Pacing, IsVideo, Packet
  <2> QED
    BY <2>2, <2>3, <2>4 DEF PacketInv
<1>5. CASE ~disconnected
  <2>1. queue' = AddPacket(queue, arrived) /\ CheckBitrate(arrived)
    BY <1>5, Zenon DEF Add
  <2>2. /\ IsQueue(queue') /\ queue'.lastDts \in Nat
        /\ course.dynamic =>
             /\ queue'.minPriority = 0
             /\ queue'.lastDts = IF IsVideo(arrived) THEN Dts(arrived) ELSE queue.lastDts
    BY <1>1, <1>3, <2>1, Added, Zenon
  <2>3. ASSUME course.dynamic, IsVideo(arrived)
        PROVE  /\ bitrate' \in Rate /\ lowered' \in Nat
               /\ bitrate'.cur < Original =>
                    /\ queue'.lastDts < bitrate'.due
                    /\ \E k \in Nat : /\ Least + k * Increase <= bitrate'.cur
                                      /\ bitrate'.due <= lowered' + IncTimer + k * Late
    <3>1. queue'.lastDts = Dts(arrived)
      BY <2>2, <2>3, Zenon
    <3>2. /\ bitrate' \in Rate /\ lowered' \in Nat
          /\ bitrate'.cur < Original =>
               /\ Dts(arrived) < bitrate'.due
               /\ \E k \in Nat : /\ Least + k * Increase <= bitrate'.cur
                                 /\ bitrate'.due <= lowered' + IncTimer + k * Late
      BY <1>1, <1>2, <1>5, <2>1, <2>3, AddFrame, Zenon
    <3> QED
      BY <3>1, <3>2, Zenon
  <2>4. ASSUME ~(course.dynamic /\ IsVideo(arrived))
        PROVE  bitrate' = bitrate /\ lowered' = lowered
    BY <2>1, <2>4, Zenon DEF CheckBitrate
  <2>5. bitrate' \in Rate /\ lowered' \in Nat
    BY <1>3, <2>3, <2>4, Zenon
  <2>6. Typed'
    <3>1. producer' \in {"idle", "add", "post"} /\ producer' # "add"
      BY <1>2
    <3>2. bitrate' \in [cur : Least..Original, prev : {0} \cup (Least..Original), due : Nat]
      BY <2>5, Zenon DEF Rate
    <3> QED
      BY <1>1, <1>2, <2>2, <2>5, <3>1, <3>2, Zenon DEF Typed
  <2>7. Exclusive'
    BY <1>1, <1>2, <2>2, <2>4, Zenon DEF Exclusive
  <2>8. Followed'
    <3>1. ASSUME course.dynamic, active, NEW i \in 1 .. arrived, IsVideo(i)
          PROVE  Dts(i) <= queue'.lastDts
      <4>1. CASE IsVideo(arrived)
        BY <1>1, <1>3, <2>2, <3>1, <4>1, CourseFacts
      <4>2. CASE ~IsVideo(arrived)
        <5>1. i # arrived
          BY <3>1, <4>2
        <5>2. i \in 1 .. Seen
          BY <1>3, <5>1
        <5> QED
          BY <1>1, <1>5, <2>2, <3>1, <4>2, <5>2, Zenon DEF Followed
      <4> QED
        BY <4>1, <4>2
    <3>2. producer' # "add"
      BY <1>2
    <3> QED
      BY <1>2, <1>3, <3>1, <3>2, Zenon DEF Followed, IsVideo, Dts, Packet
  <2>9. Pacing'
    <3> SUFFICES ASSUME bitrate'.cur < Original
                 PROVE  /\ \E i \in 1 .. Seen' : IsVideo(i)'
                        /\ queue'.lastDts < bitrate'.due
                        /\ \E k \in Nat : /\ Least + k * Increase <= bitrate'.cur
                                          /\ bitrate'.due <= lowered' + IncTimer + k * Late
      BY Zenon DEF Pacing, Late
    <3>1. bitrate'.cur # Original
      <4>1. Original \in Nat
        BY Rates
      <4> QED
        BY <4>1
    <3>2. course.dynamic
      BY <1>1, <1>3, <2>4, <3>1, Zenon DEF Exclusive
    <3>3. \A i \in 1 .. arrived : IsVideo(i) <=> IsVideo(i)'
      BY <1>2, Zenon DEF IsVideo, Packet
    <3>4. CASE IsVideo(arrived)
      <4>1. arrived \in 1 .. arrived
        BY <1>3
      <4> QED
        BY <1>3, <2>3, <3>2, <3>3, <3>4, <4>1, Zenon
    <3>5. CASE ~IsVideo(arrived)
      <4>1. bitrate' = bitrate /\ lowered' = lowered /\ queue'.lastDts = queue.lastDts
        BY <2>2, <2>4, <3>2, <3>5, Zenon
      <4>2. \A i \in 1 .. Seen : i \in 1 .. arrived
        BY <1>3
      <4>3. bitrate.cur < Original
        BY <4>1, Zenon
      <4> QED
        BY <1>1, <1>3, <3>3, <4>1, <4>2, <4>3, Zenon DEF Pacing
    <3> QED
      BY <3>4, <3>5
  <2> QED
    BY <2>6, <2>7, <2>8, <2>9 DEF PacketInv
<1> QED
  BY <1>4, <1>5

LEMMA SenderStep == PacketInv /\ Sender => PacketInv'
<1> SUFFICES ASSUME PacketInv, Sender PROVE PacketInv'
  OBVIOUS
<1>1. Typed
  BY DEF PacketInv
<1>2. IsQueue(queue) /\ estimate \in Nat
  BY <1>1 DEF Typed
<1>3. ASSUME NEW ps PROVE LET q == [queue EXCEPT !.packets = ps]
                          IN IsQueue(q) /\ q.lastDts = queue.lastDts /\ q.minPriority = queue.minPriority
  BY <1>2 DEF IsQueue
<1>4. CASE SemWait
  BY <1>2, <1>4, QuietStep, Zenon DEF SemWait, queueVars, producerVars, stopVars
<1>5. CASE TakePacket
  <2>1. queue' = queue \/ \E ps : queue' = [queue EXCEPT !.packets = ps]
    BY <1>5, Zenon DEF TakePacket
  <2>2. IsQueue(queue') /\ queue'.lastDts = queue.lastDts /\ queue'.minPriority = queue.minPriority
    BY <1>2, <1>3, <2>1, Zenon
  <2>3. /\ course' = course /\ bitrate' = bitrate /\ lowered' = lowered /\ estimate' = estimate
        /\ arrived' = arrived /\ producer' = producer /\ disconnected' = disconnected /\ active' = active
    BY <1>5 DEF TakePacket, producerVars
  <2> QED
    BY <1>2, <2>2, <2>3, QuietStep, Zenon
<1>6. CASE Send
  <2>1. estimate' \in Nat
    <3>1. estimate' = estimate \/ estimate' \in Estimates
      BY <1>6, Zenon DEF Send
    <3> QED
      BY <1>2, <3>1, PacketQueueAssumption
  <2>2. /\ course' = course /\ bitrate' = bitrate /\ lowered' = lowered /\ queue' = queue
        /\ arrived' = arrived /\ producer' = producer /\ active' = active
    BY <1>6 DEF Send, producerVars, queueVars
  <2>3. disconnected => disconnected'
    BY <1>6, Zenon DEF Send
  <2> QED
    BY <1>2, <2>1, <2>2, <2>3, QuietStep, Zenon
<1>7. CASE ResetBitrate
  <2>1. /\ course' = course /\ lowered' = lowered /\ queue' = queue /\ estimate' = estimate
        /\ arrived' = arrived /\ producer' = producer /\ disconnected' = disconnected /\ active' = active
    BY <1>7 DEF ResetBitrate, producerVars
  <2>2. bitrate' = bitrate \/ bitrate' = [bitrate EXCEPT !.cur = Original]
    BY <1>7, Zenon DEF ResetBitrate
  <2> QED
    BY <1>2, <2>1, <2>2, QuietStep, Zenon
<1>8. CASE TellOutcome
  BY <1>2, <1>8, QuietStep DEF TellOutcome, queueVars, producerVars
<1>9. CASE FreePackets
  <2>1. /\ course' = course /\ bitrate' = bitrate /\ lowered' = lowered /\ estimate' = estimate
        /\ arrived' = arrived /\ producer' = producer /\ disconnected' = disconnected /\ active' = active
    BY <1>9 DEF FreePackets, producerVars
  <2>2. \E ps : queue' = [queue EXCEPT !.packets = ps]
    BY <1>9, Zenon DEF FreePackets
  <2> QED
    BY <1>2, <1>3, <2>1, <2>2, QuietStep, Zenon
<1>10. CASE Exit
  BY <1>2, <1>10, QuietStep DEF Exit, queueVars, producerVars
<1> QED
  BY <1>4, <1>5, <1>6, <1>7, <1>8, <1>9, <1>10 DEF Sender

LEMMA OtherStep ==
  ASSUME PacketInv, Post \/ Detach \/ UserStops \/ EncoderFails \/ Stopper \/ UNCHANGED vars
  PROVE  PacketInv'
<1>1. IsQueue(queue) /\ estimate \in Nat
  BY DEF PacketInv, Typed
<1>2. CASE Post
  BY <1>1, <1>2, QuietStep DEF Post, queueVars, senderVars
<1>3. ASSUME UNCHANGED <<course, queueVars, producerVars, senderVars>> PROVE PacketInv'
  BY <1>1, <1>3, QuietStep DEF queueVars, producerVars, senderVars
<1>4. CASE Detach
  BY <1>3, <1>4 DEF Detach
<1>5. CASE UserStops \/ EncoderFails
  <2>1. \E w, ts : StopAt(w, ts)
    BY <1>5, Zenon DEF UserStops, EncoderFails
  <2> QED
    BY <1>3, <2>1 DEF StopAt
<1>6. CASE Stopper
  <2>1. DeliverError \/ \E w : SignalStop(w)
    BY <1>6, Zenon DEF Stopper
  <2> QED
    BY <1>3, <2>1 DEF DeliverError, SignalStop
<1>7. CASE UNCHANGED vars
  BY <1>3, <1>7 DEF vars
<1> QED
  BY <1>2, <1>4, <1>5, <1>6, <1>7

\* The invariant is the property, the steps being counted.
LEMMA InvReturns == PacketInv => BitrateReturns
<1> SUFFICES ASSUME PacketInv PROVE BitrateReturns
  OBVIOUS
<1> USE Rates
<1>1. /\ bitrate.cur \in Least..Original /\ bitrate.due \in Nat /\ lowered \in Nat
      /\ queue.lastDts \in Nat /\ Pacing
  BY DEF PacketInv, Typed
<1>2. ASSUME bitrate.cur < Original
      PROVE  queue.lastDts - lowered < Steps * IncTimer + (Steps - 1) * (Gap - 1)
  <2>1. PICK k \in Nat : /\ Least + k * Increase <= bitrate.cur
                         /\ bitrate.due <= lowered + IncTimer + k * Late
    BY <1>1, <1>2, Zenon DEF Pacing
  <2>2. queue.lastDts < bitrate.due
    BY <1>1, <1>2, Zenon DEF Pacing
  <2>3. k + 1 <= Steps /\ Steps \in Nat
    <3> DEFINE n == Original - Least
    <3>1. n \in Nat /\ k * Increase < n
      <4> DEFINE x == k * Increase
      <4>1. x \in Nat
        OBVIOUS
      <4>2. Least + x <= bitrate.cur
        BY <2>1
      <4> HIDE DEF x
      <4> QED
        BY <1>1, <1>2, <4>1, <4>2 DEF x
    <3>2. Steps = (n + Increase - 1) \div Increase
      BY DEF Steps
    <3> HIDE DEF n
    <3>3. k + 1 <= (n + Increase - 1) \div Increase /\ (n + Increase - 1) \div Increase \in Nat
      BY <3>1, StepsBelow
    <3> QED
      BY <3>2, <3>3, Zenon
  <2> DEFINE m == Steps - 1
             y == k * Late
             z == m * Late
             t == m * IncTimer
             g == m * (Gap - 1)
  <2> HIDE DEF m
  <2>4. m \in Nat /\ k <= m /\ Steps = m + 1
    BY <2>3 DEF m
  <2>5. y <= z /\ y \in Nat /\ z \in Nat
    <3>1. (m - k) * Late >= 0 /\ (m - k) * Late = m * Late - k * Late
      BY <2>4
    <3> QED
      BY <2>4, <3>1
  <2>6. z = t + g /\ t \in Nat /\ g \in Int /\ Steps * IncTimer = t + IncTimer
    BY <2>4 DEF Late
  <2>7. Steps * IncTimer + (Steps - 1) * (Gap - 1) = (t + IncTimer) + g
    BY <2>6 DEF m
  <2> HIDE DEF y, z, t, g
  <2>8. bitrate.due <= lowered + IncTimer + y
    BY <2>1 DEF y
  <2>9. queue.lastDts - lowered < (t + IncTimer) + g
    BY <1>1, <2>2, <2>5, <2>6, <2>8
  <2> QED
    BY <2>7, <2>9, Zenon
<1> QED
  BY <1>1, <1>2 DEF BitrateReturns

\* However the network behaves and whenever the stream is stopped or lost, the bitrate
\* stays between the least and the original one, and as long as it is not lowered again
\* it is back at the original after the time its steps take (check_to_drop_frames,
\* dbr_inc_bitrate and dbr_bitrate_lowered), each of them late by less than a frame.
THEOREM ALoweredBitrateReturns == Spec => []BitrateReturns
<1>1. Init => PacketInv
  BY InitInv
<1>2. PacketInv /\ [Next]_vars => PacketInv'
  BY ArriveStep, AddStep, SenderStep, OtherStep, Zenon DEF Next, Producer
<1>3. PacketInv => BitrateReturns
  BY InvReturns
<1> QED
  BY <1>1, <1>2, <1>3, PTL DEF Spec

-----------------------------------------------------------------------------
(* What is sent can be played.  The operators are of a course c, of which  *)
(* the first n packets were seen and those in alive were not dropped.      *)

Ordinary(c, i) == c.packets[i].video /\ c.packets[i].priority # Highest

\* The frames that others of the track of i refer to.
Refers(c, j, i) ==
    /\ c.packets[j].video /\ c.packets[j].track = c.packets[i].track
    /\ c.packets[j].priority >= High

LastRef(c, r, i, n) ==
    r \in 1..n /\ Refers(c, r, i) /\ \A j \in 1..n : Refers(c, j, i) => j <= r

\* The low frames since r.
LowSince(c, r, i, n) ==
    {j \in (r + 1)..n : /\ c.packets[j].video /\ c.packets[j].track = c.packets[i].track
                        /\ c.packets[j].priority >= Low}

\* A frame that is not dropped has what it needs.
Met(c, i, alive) ==
    \E r \in alive :
        /\ LastRef(c, r, i, i - 1)
        /\ c.packets[i].priority = Disposable => LowSince(c, r, i, i - 1) \subseteq alive

\* The frames to come whose reference was seen.
Waiting(c, n) ==
    {i \in (n + 1)..Len(c.packets) :
        Ordinary(c, i) /\ \A j \in (n + 1)..(i - 1) : ~Refers(c, j, i)}

\* min_priority, least, keeps away the frames whose reference was dropped.
Ready(c, n, least, alive) ==
    \A i \in Waiting(c, n) : \E r \in 1..n :
        /\ LastRef(c, r, i, n)
        /\ least <= High => r \in alive
        /\ least = 0 /\ c.packets[i].priority = Disposable =>
              LowSince(c, r, i, n) \subseteq alive

Decodable(c, n, least, alive) ==
    /\ least \in {0, High, Highest}
    /\ \A i \in 1..n : ~Ordinary(c, i) => i \in alive
    /\ \A i \in alive : Ordinary(c, i) => Met(c, i, alive)
    /\ Ready(c, n, least, alive)

\* The packets that were taken from the queue, and with these the queue's.
Working == sender \in {"wait", "pop", "send"}
Gone == ToSet(sent) \cup IF sender = "send" THEN {hand} ELSE {}

\* The packets go their way in order.
InLine(n, gone, packets) ==
    /\ gone \subseteq 1..n /\ packets \subseteq 1..n
    /\ \A i \in gone, j \in packets : i < j

\* What was sent can be played.
Played(c, s) ==
    /\ s \in Seq(1..Len(c.packets)) /\ \A k \in 1..(Len(s) - 1) : s[k] < s[k + 1]
    /\ \A i \in ToSet(s) : /\ Ordinary(c, i) => Met(c, i, ToSet(s))
                          /\ \A j \in 1..i : ~Ordinary(c, j) => j \in ToSet(s)

PlayInv ==
    /\ Played(course, sent)
    /\ Working =>
        /\ active /\ ~disconnected
        /\ InLine(Seen, Gone, queue.packets)
        /\ sender = "send" => \A i \in ToSet(sent) : i < hand
        /\ Decodable(course, Seen, queue.minPriority, Gone \cup queue.packets)

-----------------------------------------------------------------------------
(* Frames that are dropped and frames that come.                           *)

LEMMA Levels ==
  ASSUME NEW c, CourseType(c)
  PROVE  /\ Len(c.packets) \in Nat /\ DOMAIN c.packets = 1..Len(c.packets)
         /\ \A i \in 1..Len(c.packets) :
              /\ c.packets[i].video \in BOOLEAN
              /\ c.packets[i].priority \in {Disposable, Low, High, Highest}
<1>1. c.packets \in Seq(PacketType)
  BY Zenon DEF CourseType
<1> DEFINE ps == c.packets
<1>2. Len(ps) \in Nat /\ DOMAIN ps = 1..Len(ps) /\ \A i \in 1..Len(ps) : ps[i] \in PacketType
  BY <1>1
<1> HIDE DEF ps
<1>3. \A i \in 1..Len(ps) : /\ ps[i].video \in BOOLEAN
                            /\ ps[i].priority \in {Disposable, Low, High, Highest}
  BY <1>2 DEF PacketType, Disposable, Low, High, Highest
<1> QED
  BY <1>2, <1>3 DEF ps

\* A frame that others of all tracks wait for comes with that of each track.
LEMMA Together ==
  ASSUME NEW c, CourseType(c), InStep(c), NEW i \in 1..Len(c.packets), Ordinary(c, i)
  PROVE  /\ \E k \in 1..(i - 1) : Refers(c, k, i)
         /\ \A j \in 1..(i - 1) :
              c.packets[j].video /\ c.packets[j].priority >= High
                /\ c.packets[j].priority > c.packets[i].priority =>
              \E k \in 1..(i - 1) :
                 /\ Refers(c, k, i)
                 /\ \A m \in (j..k) \cup (k..j) :
                      c.packets[m].video => c.packets[m].priority >= c.packets[j].priority
<1>1. /\ Len(c.packets) \in Nat /\ DOMAIN c.packets = 1..Len(c.packets)
      /\ \A m \in 1..Len(c.packets) : c.packets[m].priority \in {0, 1, 2, 3}
  BY Levels DEF Disposable, Low, High, Highest
<1>2. i \in {m \in DOMAIN c.packets : c.packets[m].video /\ c.packets[m].priority < Highest}
  BY <1>1 DEF Ordinary, Highest
<1>3. /\ \E j \in 1..(i - 1) : c.packets[j].video /\ c.packets[j].priority = Highest
      /\ \A j \in 1..(i - 1) :
           c.packets[j].video /\ c.packets[j].priority >= High
             /\ c.packets[j].priority > c.packets[i].priority =>
           \E k \in 1..(i - 1) :
              /\ c.packets[k].video /\ c.packets[k].track = c.packets[i].track
              /\ c.packets[k].priority >= c.packets[j].priority
              /\ \A m \in (j..k) \cup (k..j) :
                   c.packets[m].video => c.packets[m].priority >= c.packets[j].priority
  BY <1>2, Zenon DEF InStep
<1>4. ASSUME NEW j \in 1..(i - 1), c.packets[j].video, c.packets[j].priority >= High,
             c.packets[j].priority > c.packets[i].priority
      PROVE  \E k \in 1..(i - 1) :
                 /\ Refers(c, k, i)
                 /\ \A m \in (j..k) \cup (k..j) :
                      c.packets[m].video => c.packets[m].priority >= c.packets[j].priority
  <2>1. PICK k \in 1..(i - 1) :
              /\ c.packets[k].video /\ c.packets[k].track = c.packets[i].track
              /\ c.packets[k].priority >= c.packets[j].priority
              /\ \A m \in (j..k) \cup (k..j) :
                   c.packets[m].video => c.packets[m].priority >= c.packets[j].priority
    BY <1>3, <1>4, Zenon
  <2>2. k \in 1..Len(c.packets) /\ j \in 1..Len(c.packets)
    BY <1>1
  <2>3. c.packets[k].priority >= High
    <3>1. c.packets[k].priority >= c.packets[j].priority
      BY <2>1, Zenon
    <3>2. c.packets[k].priority \in {0, 1, 2, 3} /\ c.packets[j].priority \in {0, 1, 2, 3}
      BY <1>1, <2>2, Zenon
    <3> QED
      BY <1>4, <3>1, <3>2 DEF High
  <2>4. Refers(c, k, i)
    BY <2>1, <2>3 DEF Refers
  <2> QED
    BY <2>1, <2>4
<1>5. PICK j \in 1..(i - 1) : c.packets[j].video /\ c.packets[j].priority = Highest
  BY <1>3, Zenon
<1>6. c.packets[j].priority >= High /\ c.packets[j].priority > c.packets[i].priority
  BY <1>1, <1>2, <1>5 DEF High, Highest
<1> QED
  BY <1>4, <1>5, <1>6, Zenon

\* drop_frames drops frames that only such need as are dropped or kept away.
LEMMA DropDecodable ==
  ASSUME NEW c, CourseType(c), NEW n \in 0..Len(c.packets), NEW gone, NEW packets,
         InLine(n, gone, packets), NEW least, Decodable(c, n, least, gone \cup packets),
         NEW highest \in {High, Highest}, NEW rest, rest \subseteq packets,
         \A i \in packets \ rest : c.packets[i].video /\ c.packets[i].priority < highest,
         \A i \in rest : ~c.packets[i].video \/ c.packets[i].priority >= highest
  PROVE  Decodable(c, n, IF least < highest THEN highest ELSE least, gone \cup rest)
<1> DEFINE alive == gone \cup packets
           left == gone \cup rest
           more == IF least < highest THEN highest ELSE least
<1>1. /\ Len(c.packets) \in Nat
      /\ \A i \in 1..n : /\ c.packets[i].video \in BOOLEAN
                         /\ c.packets[i].priority \in {0, 1, 2, 3}
  BY Levels DEF Disposable, Low, High, Highest
<1>2. /\ more \in {High, Highest} /\ least <= more /\ highest <= more
      /\ least \in {0, High, Highest}
  BY DEF Decodable, High, Highest
<1>3. /\ alive \subseteq 1..n /\ left \subseteq alive
      /\ \A i \in gone, j \in packets : i < j
  BY DEF InLine
<1> HIDE DEF more
<1>4. ASSUME NEW i \in 1..n, ~Ordinary(c, i) PROVE i \in left
  <2>1. i \in alive
    BY <1>4 DEF Decodable
  <2>2. ~(c.packets[i].video /\ c.packets[i].priority < highest)
    BY <1>1, <1>4 DEF Ordinary, High, Highest
  <2> QED
    BY <2>1, <2>2
<1>5. ASSUME NEW i \in left, Ordinary(c, i) PROVE Met(c, i, left)
  <2>1. PICK r \in alive :
           /\ LastRef(c, r, i, i - 1)
           /\ c.packets[i].priority = Disposable => LowSince(c, r, i, i - 1) \subseteq alive
    BY <1>3, <1>5, Zenon DEF Decodable, Met
  <2>2. i \in 1..n /\ r \in 1..(i - 1) /\ r \in 1..n /\ Refers(c, r, i)
    BY <1>3, <2>1 DEF LastRef
  <2>3. CASE i \in gone
    <3>1. ASSUME NEW j \in alive, j < i PROVE j \in left
      BY <1>3, <2>2, <2>3, <3>1
    <3>2. r \in left
      BY <2>2, <3>1
    <3>3. ASSUME NEW j \in LowSince(c, r, i, i - 1), c.packets[i].priority = Disposable
          PROVE  j \in left
      <4>1. j \in alive
        BY <2>1, <3>3
      <4>2. j < i
        BY <2>2, <3>3 DEF LowSince
      <4> QED
        BY <3>1, <4>1, <4>2
    <3> QED
      BY <2>1, <3>2, <3>3 DEF Met
  <2>4. CASE i \notin gone
    <3>1. i \in rest /\ c.packets[i].video
      BY <1>5, <2>4 DEF Ordinary
    <3>2. highest = High /\ c.packets[i].priority = High
      BY <1>1, <1>5, <2>2, <3>1 DEF Ordinary, High, Highest
    <3>3. r \in left
      <4>1. ~(c.packets[r].priority < highest)
        BY <1>1, <2>2, <3>2 DEF Refers, High
      <4> QED
        BY <4>1
    <3>4. c.packets[i].priority # Disposable
      BY <3>2 DEF High, Disposable
    <3> QED
      BY <2>1, <3>3, <3>4 DEF Met
  <2> QED
    BY <2>3, <2>4
<1>6. ASSUME NEW i \in Waiting(c, n)
      PROVE  \E r \in 1..n : /\ LastRef(c, r, i, n)
                             /\ more <= High => r \in left
                             /\ more = 0 /\ c.packets[i].priority = Disposable =>
                                  LowSince(c, r, i, n) \subseteq left
  <2>1. PICK r \in 1..n : LastRef(c, r, i, n) /\ (least <= High => r \in alive)
    BY <1>6, Zenon DEF Decodable, Ready
  <2>2. ASSUME more <= High PROVE r \in left
    <3>1. highest = High /\ least <= High
      BY <1>2, <2>2 DEF High, Highest
    <3>2. ~(c.packets[r].priority < highest)
      BY <1>1, <2>1, <3>1 DEF LastRef, Refers, High
    <3> QED
      BY <2>1, <3>1, <3>2
  <2>3. more # 0
    BY <1>2 DEF High, Highest
  <2> QED
    BY <2>1, <2>2, <2>3
<1>7. Decodable(c, n, more, left)
  BY <1>2, <1>4, <1>5, <1>6, Zenon DEF Decodable, Ready
<1> QED
  BY <1>7 DEF more

\* The packet n + 1 becomes the reference of a frame that waits, or leaves it
\* the one it has.
LEMMA NextRef ==
  ASSUME NEW c, NEW n \in Nat, Len(c.packets) \in Nat, NEW i \in Waiting(c, n + 1)
  PROVE  /\ i \in (n + 2)..Len(c.packets) /\ Ordinary(c, i)
         /\ Refers(c, n + 1, i) => LastRef(c, n + 1, i, n + 1)
         /\ ~Refers(c, n + 1, i) =>
              /\ i \in Waiting(c, n)
              /\ \A r \in 1..n : LastRef(c, r, i, n) => LastRef(c, r, i, n + 1)
<1> DEFINE a == n + 1
<1>1. /\ i \in (n + 2)..Len(c.packets) /\ Ordinary(c, i)
      /\ \A j \in (n + 2)..(i - 1) : ~Refers(c, j, i)
  BY DEF Waiting
<1>2. ASSUME Refers(c, a, i) PROVE LastRef(c, a, i, a)
  BY <1>2 DEF LastRef
<1>3. ASSUME ~Refers(c, a, i) PROVE i \in Waiting(c, n)
  <2>1. ASSUME NEW j \in (n + 1)..(i - 1) PROVE ~Refers(c, j, i)
    <3>1. j = a \/ j \in (n + 2)..(i - 1)
      BY <1>1
    <3> QED
      BY <1>1, <1>3, <3>1
  <2>2. i \in (n + 1)..Len(c.packets)
    BY <1>1
  <2> QED
    BY <1>1, <2>1, <2>2 DEF Waiting
<1>4. ASSUME ~Refers(c, a, i), NEW r \in 1..n, LastRef(c, r, i, n) PROVE LastRef(c, r, i, a)
  <2>1. r \in 1..a /\ \A j \in 1..a : j = a \/ j \in 1..n
    OBVIOUS
  <2>2. Refers(c, r, i) /\ \A j \in 1..n : Refers(c, j, i) => j <= r
    BY <1>4 DEF LastRef
  <2>3. ASSUME NEW j \in 1..a, Refers(c, j, i) PROVE j <= r
    BY <1>4, <2>1, <2>2, <2>3, Zenon
  <2> QED
    BY <2>1, <2>2, <2>3, Zenon DEF LastRef
<1> QED
  BY <1>1, <1>2, <1>3, <1>4

\* A frame that is kept away leaves none waiting that needs it.
LEMMA RejectDecodable ==
  ASSUME NEW c, CourseType(c), NEW n \in Nat, n + 1 <= Len(c.packets), NEW alive,
         NEW least, Decodable(c, n, least, alive),
         c.packets[n + 1].video, c.packets[n + 1].priority < least
  PROVE  Decodable(c, n + 1, least, alive)
<1> DEFINE a == n + 1
<1>1. /\ Len(c.packets) \in Nat /\ a \in 1..Len(c.packets) /\ n \in 0..Len(c.packets)
      /\ \A i \in 1..Len(c.packets) : c.packets[i].priority \in {0, 1, 2, 3}
      /\ least \in {0, High, Highest}
  BY Levels DEF Decodable, Disposable, Low, High, Highest
<1>2. Ordinary(c, a) /\ least # 0
  BY <1>1 DEF Ordinary, High, Highest
<1>3. ASSUME NEW i \in 1..a, ~Ordinary(c, i) PROVE i \in alive
  <2>1. i # a
    BY <1>2, <1>3
  <2>2. i \in 1..n
    BY <1>1, <2>1
  <2> QED
    BY <1>3, <2>2 DEF Decodable
<1>4. ASSUME NEW i \in Waiting(c, a)
      PROVE  \E r \in 1..a : LastRef(c, r, i, a) /\ (least <= High => r \in alive)
  <2>1. CASE Refers(c, a, i)
    <3>1. ~(least <= High)
      BY <1>1, <2>1 DEF Refers, High
    <3>2. LastRef(c, a, i, a)
      BY <1>1, <2>1, NextRef
    <3>3. a \in 1..a
      OBVIOUS
    <3> QED
      BY <3>1, <3>2, <3>3
  <2>2. CASE ~Refers(c, a, i)
    <3>1. i \in Waiting(c, n) /\ \A r \in 1..n : LastRef(c, r, i, n) => LastRef(c, r, i, a)
      BY <1>1, <2>2, NextRef
    <3>2. PICK r \in 1..n : LastRef(c, r, i, n) /\ (least <= High => r \in alive)
      BY <3>1, Zenon DEF Decodable, Ready
    <3>3. r \in 1..a
      OBVIOUS
    <3> QED
      BY <3>1, <3>2, <3>3, Zenon
  <2> QED
    BY <2>1, <2>2
<1> QED
  BY <1>1, <1>2, <1>3, <1>4, Zenon DEF Decodable, Ready

\* Sound is always added.
LEMMA SoundDecodable ==
  ASSUME NEW c, CourseType(c), NEW n \in Nat, n + 1 <= Len(c.packets), NEW alive,
         alive \subseteq 1..n, NEW least, Decodable(c, n, least, alive), ~c.packets[n + 1].video
  PROVE  Decodable(c, n + 1, least, alive \cup {n + 1})
<1> DEFINE a == n + 1
           more == alive \cup {a}
<1>1. Len(c.packets) \in Nat /\ ~Ordinary(c, a)
  BY Levels DEF Ordinary
<1>2. ASSUME NEW i \in 1..a, ~Ordinary(c, i) PROVE i \in more
  <2>1. i = a \/ i \in 1..n
    OBVIOUS
  <2> QED
    BY <1>2, <2>1, Zenon DEF Decodable
<1>3. ASSUME NEW i \in more, Ordinary(c, i) PROVE Met(c, i, more)
  <2>1. i \in alive
    BY <1>1, <1>3
  <2>2. Met(c, i, alive)
    BY <1>3, <2>1, Zenon DEF Decodable
  <2> QED
    BY <2>2 DEF Met
<1>4. ASSUME NEW i \in Waiting(c, a)
      PROVE  \E r \in 1..a : /\ LastRef(c, r, i, a)
                             /\ least <= High => r \in more
                             /\ least = 0 /\ c.packets[i].priority = Disposable =>
                                  LowSince(c, r, i, a) \subseteq more
  <2>1. ~Refers(c, a, i)
    BY DEF Refers
  <2>2. i \in Waiting(c, n) /\ \A r \in 1..n : LastRef(c, r, i, n) => LastRef(c, r, i, a)
    BY <1>1, <2>1, NextRef
  <2>3. PICK r \in 1..n : /\ LastRef(c, r, i, n)
                          /\ least <= High => r \in alive
                          /\ least = 0 /\ c.packets[i].priority = Disposable =>
                               LowSince(c, r, i, n) \subseteq alive
    BY <2>2, Zenon DEF Decodable, Ready
  <2>4. LowSince(c, r, i, a) \subseteq LowSince(c, r, i, n)
    BY DEF LowSince
  <2>5. r \in 1..a
    OBVIOUS
  <2> QED
    BY <2>2, <2>3, <2>4, <2>5
<1> HIDE DEF more
<1> QED
  BY <1>2, <1>3, <1>4, Zenon DEF Decodable, Ready, more

\* What is between a frame that the tracks wait for and the reference that a later
\* frame has is waited for as well.
LEMMA RefAtLeast ==
  ASSUME NEW c, CourseType(c), InStep(c), NEW a \in 1..Len(c.packets), NEW i \in Waiting(c, a),
         c.packets[a].video, c.packets[a].priority >= High,
         c.packets[a].priority > c.packets[i].priority,
         NEW r, LastRef(c, r, i, a), NEW m \in r..a, c.packets[m].video
  PROVE  c.packets[m].priority >= c.packets[a].priority
<1>1. /\ Len(c.packets) \in Nat /\ i \in (a + 1)..Len(c.packets) /\ Ordinary(c, i)
      /\ \A j \in (a + 1)..(i - 1) : ~Refers(c, j, i)
  BY Levels DEF Waiting
<1>2. i \in 1..Len(c.packets) /\ a \in 1..(i - 1)
  BY <1>1
<1>3. PICK k \in 1..(i - 1) :
         /\ Refers(c, k, i)
         /\ \A l \in (a..k) \cup (k..a) :
              c.packets[l].video => c.packets[l].priority >= c.packets[a].priority
  BY <1>1, <1>2, Together
<1>4. k <= a
  BY <1>1, <1>3
<1>5. r \in 1..a /\ k <= r
  BY <1>3, <1>4 DEF LastRef
<1>6. m \in k..a
  BY <1>3, <1>5
<1> QED
  BY <1>3, <1>6

\* A frame that is added has what it needs, and those that wait for it have it.
LEMMA AcceptDecodable ==
  ASSUME NEW c, CourseType(c), InStep(c), NEW n \in Nat, n + 1 <= Len(c.packets), NEW alive,
         alive \subseteq 1..n, NEW least, Decodable(c, n, least, alive),
         c.packets[n + 1].video, ~(c.packets[n + 1].priority < least)
  PROVE  Decodable(c, n + 1, 0, alive \cup {n + 1})
<1> DEFINE a == n + 1
           more == alive \cup {a}
<1>1. /\ Len(c.packets) \in Nat /\ a \in 1..Len(c.packets)
      /\ \A i \in 1..Len(c.packets) : c.packets[i].priority \in {0, 1, 2, 3}
      /\ least \in {0, 2, 3}
  BY Levels DEF Decodable, Disposable, Low, High, Highest
<1>2. c.packets[a].priority >= least /\ c.packets[a].priority \in {0, 1, 2, 3}
  BY <1>1
<1>3. ASSUME NEW i \in 1..a, ~Ordinary(c, i) PROVE i \in more
  <2>1. i = a \/ i \in 1..n
    OBVIOUS
  <2> QED
    BY <1>3, <2>1, Zenon DEF Decodable
<1>4. ASSUME NEW i \in more, Ordinary(c, i) PROVE Met(c, i, more)
  <2>1. CASE i \in alive
    <3>1. Met(c, i, alive)
      BY <1>4, <2>1, Zenon DEF Decodable
    <3> QED
      BY <3>1 DEF Met
  <2>2. CASE i = a
    <3>1. a \in Waiting(c, n)
      BY <1>1, <1>4, <2>2 DEF Waiting
    <3>2. PICK r \in 1..n :
             /\ LastRef(c, r, a, n)
             /\ least <= High => r \in alive
             /\ least = 0 /\ c.packets[a].priority = Disposable =>
                  LowSince(c, r, a, n) \subseteq alive
      BY <3>1, Zenon DEF Decodable, Ready
    <3>3. /\ least <= High
          /\ c.packets[a].priority = Disposable => least = 0
      BY <1>1, <1>2, <1>4, <2>2 DEF Ordinary, High, Highest, Disposable
    <3>4. n = i - 1 /\ alive \subseteq more
      BY <2>2
    <3> QED
      BY <2>2, <3>2, <3>3, <3>4 DEF Met
  <2> QED
    BY <1>4, <2>1, <2>2
<1>5. ASSUME NEW i \in Waiting(c, a)
      PROVE  \E r \in 1..a : /\ LastRef(c, r, i, a) /\ r \in more
                             /\ c.packets[i].priority = Disposable =>
                                  LowSince(c, r, i, a) \subseteq more
  <2>1. CASE Refers(c, a, i)
    <3>1. LastRef(c, a, i, a)
      BY <1>1, <2>1, NextRef
    <3>2. a \in 1..a /\ a \in more
      OBVIOUS
    <3>3. LowSince(c, a, i, a) = {}
      BY DEF LowSince
    <3> QED
      BY <3>1, <3>2, <3>3
  <2>2. CASE ~Refers(c, a, i)
    <3>1. /\ i \in (n + 2)..Len(c.packets) /\ Ordinary(c, i) /\ i \in Waiting(c, n)
          /\ \A r \in 1..n : LastRef(c, r, i, n) => LastRef(c, r, i, a)
      BY <1>1, <2>2, NextRef
    <3>2. PICK r \in 1..n :
             /\ LastRef(c, r, i, n)
             /\ least <= High => r \in alive
             /\ least = 0 /\ c.packets[i].priority = Disposable =>
                  LowSince(c, r, i, n) \subseteq alive
      BY <3>1, Zenon DEF Decodable, Ready
    <3>3. LastRef(c, r, i, a) /\ r \in 1..a
      BY <3>1, <3>2
    <3>4. i \in 1..Len(c.packets) /\ c.packets[i].priority \in {0, 1, 2}
      BY <1>1, <3>1 DEF Ordinary, Highest
    <3>5. ASSUME c.packets[a].priority >= High, c.packets[a].priority > c.packets[i].priority,
                 NEW m \in r..a, c.packets[m].video
          PROVE  c.packets[m].priority >= c.packets[a].priority
      BY <1>1, <3>3, <3>5, RefAtLeast
    <3>6. r \in more
      <4>1. CASE least <= High
        BY <3>2, <4>1
      <4>2. CASE ~(least <= High)
        <5>1. c.packets[a].priority = 3
          BY <1>1, <1>2, <4>2 DEF High
        <5>2. r \in r..a /\ c.packets[r].video /\ r \in 1..Len(c.packets)
          BY <1>1, <3>2 DEF LastRef, Refers
        <5>3. c.packets[r].priority >= c.packets[a].priority
          BY <3>4, <3>5, <5>1, <5>2 DEF High
        <5>4. c.packets[r].priority = 3
          <6>1. c.packets[r].priority \in {0, 1, 2, 3}
            BY <1>1, <5>2, Zenon
          <6> QED
            BY <5>1, <5>3, <6>1
        <5>5. ~Ordinary(c, r)
          BY <5>4 DEF Ordinary, Highest
        <5> QED
          BY <1>3, <3>3, <5>5
      <4> QED
        BY <4>1, <4>2
    <3>7. ASSUME c.packets[i].priority = Disposable, NEW j \in LowSince(c, r, i, a), j \notin more
          PROVE  FALSE
      <4>1. /\ j \in (r + 1)..a /\ c.packets[j].video
            /\ c.packets[j].track = c.packets[i].track /\ c.packets[j].priority >= Low
        BY <3>7 DEF LowSince
      <4>2. j \in 1..n /\ j \in (r + 1)..n /\ j \in r..a /\ j \in 1..Len(c.packets)
        BY <1>1, <3>2, <3>7, <4>1
      <4>3. ~Refers(c, j, i)
        <5>1. ~(j <= r)
          BY <3>2, <4>2
        <5> QED
          BY <3>2, <4>2, <5>1 DEF LastRef
      <4>4. c.packets[j].priority < High /\ c.packets[j].priority \in {0, 1, 2, 3}
        BY <1>1, <4>1, <4>2, <4>3 DEF Refers, High
      <4>5. CASE least = 0
        <5>1. j \in LowSince(c, r, i, n)
          BY <4>1, <4>2 DEF LowSince
        <5> QED
          BY <3>2, <3>7, <4>5, <5>1
      <4>6. CASE least # 0
        <5>1. c.packets[a].priority >= High /\ c.packets[a].priority > c.packets[i].priority
          BY <1>1, <1>2, <3>7, <4>6 DEF High, Disposable
        <5>2. c.packets[j].priority >= c.packets[a].priority
          BY <3>5, <4>1, <4>2, <5>1
        <5> QED
          BY <1>2, <4>4, <5>1, <5>2 DEF High
      <4> QED
        BY <4>5, <4>6
    <3>8. c.packets[i].priority = Disposable => LowSince(c, r, i, a) \subseteq more
      BY <3>7
    <3> QED
      BY <3>3, <3>6, <3>8
  <2> QED
    BY <2>1, <2>2
<1> HIDE DEF more
<1> QED
  BY <1>3, <1>4, <1>5, Zenon DEF Decodable, Ready, more

-----------------------------------------------------------------------------
(* The steps.                                                              *)

\* drop_frames, when check_to_drop_frames calls it.
LEMMA DropLateDecodable ==
  ASSUME CourseType(course), NEW n \in 0..Len(course.packets), NEW gone, NEW q, IsQueue(q),
         InLine(n, gone, q.packets), Decodable(course, n, q.minPriority, gone \cup q.packets),
         NEW threshold, NEW highest \in {High, Highest}
  PROVE  LET d == DropLate(q, threshold, highest)
         IN IsQueue(d) /\ InLine(n, gone, d.packets)
            /\ Decodable(course, n, d.minPriority, gone \cup d.packets)
<1> DEFINE d == DropLate(q, threshold, highest)
           rest == Spared(q.packets, highest)
           least == IF q.minPriority < highest THEN highest ELSE q.minPriority
           f == DropFrames(q, highest)
<1>1. IsQueue(f) /\ f.packets = rest /\ f.minPriority = least
  <2> HIDE DEF rest
  <2>1. f = [[q EXCEPT !.packets = rest] EXCEPT !.minPriority = least]
    BY DEF DropFrames, rest
  <2>2. f = [packets |-> rest, minPriority |-> least, lastDts |-> q.lastDts]
    BY <2>1 DEF IsQueue
  <2> HIDE DEF f, least
  <2> QED
    BY <2>2 DEF IsQueue
<1>2. /\ rest \subseteq q.packets
      /\ \A i \in q.packets \ rest : course.packets[i].video /\ course.packets[i].priority < highest
      /\ \A i \in rest : ~course.packets[i].video \/ course.packets[i].priority >= highest
  <2>1. \A i \in q.packets : course.packets[i].priority \in {0, 1, 2, 3}
    BY Levels DEF InLine, Disposable, Low, High, Highest
  <2> QED
    BY <2>1 DEF Spared, IsVideo, Packet, High, Highest
<1>3. InLine(n, gone, rest)
  BY <1>2 DEF InLine
<1> HIDE DEF f, rest
<1>4. Decodable(course, n, least, gone \cup rest)
  BY <1>2, DropDecodable
<1>5. d = f \/ d = q
  BY Zenon DEF DropLate, f
<1> HIDE DEF d, least
<1> QED
  BY <1>1, <1>3, <1>4, <1>5, Zenon DEF d

\* add_packet, after check_to_drop_frames if it is a frame.
LEMMA AddDecodable ==
  ASSUME CourseType(course), InStep(course), NEW n \in Nat, n + 1 <= Len(course.packets),
         NEW gone, IsQueue(queue), InLine(n, gone, queue.packets),
         Decodable(course, n, queue.minPriority, gone \cup queue.packets)
  PROVE  LET q == AddPacket(queue, n + 1)
         IN /\ InLine(n + 1, gone, q.packets)
            /\ Decodable(course, n + 1, q.minPriority, gone \cup q.packets)
<1> DEFINE a == n + 1
           q == AddPacket(queue, a)
<1>1. n \in 0..Len(course.packets)
  BY Levels
<1>2. ASSUME NEW packets, InLine(n, gone, packets)
      PROVE  /\ gone \cup packets \subseteq 1..n
             /\ InLine(a, gone, packets) /\ InLine(a, gone, packets \cup {a})
  <2>1. 1..n \subseteq 1..a /\ a \in 1..a /\ \A i \in 1..n : i < a
    OBVIOUS
  <2> QED
    BY <1>2, <2>1 DEF InLine
<1>3. CASE ~IsVideo(a)
  <2>1. q = [queue EXCEPT !.packets = queue.packets \cup {a}]
    BY <1>3, Zenon DEF AddPacket
  <2>2. q.packets = queue.packets \cup {a} /\ q.minPriority = queue.minPriority
    BY <2>1 DEF IsQueue
  <2>3. ~course.packets[a].video
    BY <1>3 DEF IsVideo, Packet
  <2>4. Decodable(course, a, queue.minPriority, (gone \cup queue.packets) \cup {a})
    BY <1>2, <2>3, SoundDecodable
  <2>5. gone \cup q.packets = (gone \cup queue.packets) \cup {a}
    BY <2>2
  <2> QED
    BY <1>2, <2>2, <2>4, <2>5
<1>4. CASE IsVideo(a)
  <2> DEFINE d == CheckToDrop(queue)
             b == DropLate(queue, DropB, High)
             e == [packets |-> d.packets \cup {a}, minPriority |-> 0, lastDts |-> Dts(a)]
  <2>1. /\ IsQueue(b) /\ InLine(n, gone, b.packets)
        /\ Decodable(course, n, b.minPriority, gone \cup b.packets)
    BY <1>1, DropLateDecodable
  <2> HIDE DEF b
  <2>2. /\ InLine(n, gone, d.packets)
        /\ Decodable(course, n, d.minPriority, gone \cup d.packets)
    BY <1>1, <2>1, DropLateDecodable DEF CheckToDrop, b
  <2>3. q = IF course.packets[a].priority < d.minPriority THEN d ELSE e
    BY <1>4, Zenon DEF AddPacket, AddVideo, Packet
  <2>4. course.packets[a].video
    BY <1>4 DEF IsVideo, Packet
  <2>5. e.packets = d.packets \cup {a} /\ e.minPriority = 0
    OBVIOUS
  <2> HIDE DEF d, e, q
  <2>6. CASE course.packets[a].priority < d.minPriority
    <3>1. q = d
      BY <2>3, <2>6, Zenon
    <3>2. Decodable(course, a, d.minPriority, gone \cup d.packets)
      BY <2>2, <2>4, <2>6, RejectDecodable
    <3> QED
      BY <1>2, <2>2, <3>1, <3>2 DEF q
  <2>7. CASE ~(course.packets[a].priority < d.minPriority)
    <3>1. q = e
      BY <2>3, <2>7, Zenon
    <3>2. Decodable(course, a, 0, (gone \cup d.packets) \cup {a})
      BY <1>2, <2>2, <2>4, <2>7, AcceptDecodable
    <3>3. gone \cup e.packets = (gone \cup d.packets) \cup {a}
      BY <2>5
    <3> QED
      BY <1>2, <2>2, <2>5, <3>1, <3>2, <3>3 DEF q
  <2> QED
    BY <2>6, <2>7
<1> QED
  BY <1>3, <1>4

\* Sending the next packet.
LEMMA AppendPlayed ==
  ASSUME NEW c, CourseType(c), NEW s, Played(c, s), NEW n \in 0..Len(c.packets), NEW h,
         NEW packets, InLine(n, ToSet(s) \cup {h}, packets), \A i \in ToSet(s) : i < h,
         NEW least, Decodable(c, n, least, (ToSet(s) \cup {h}) \cup packets)
  PROVE  Played(c, Append(s, h)) /\ ToSet(Append(s, h)) = ToSet(s) \cup {h}
<1> DEFINE t == Append(s, h)
           gone == ToSet(s) \cup {h}
<1>0. Len(c.packets) \in Nat /\ h \in 1..n /\ n <= Len(c.packets)
  BY Levels DEF InLine
<1>1. s \in Seq(1..Len(c.packets)) /\ h \in 1..n /\ h \in 1..Len(c.packets)
  BY <1>0 DEF Played
<1>2. /\ t \in Seq(1..Len(c.packets)) /\ Len(t) = Len(s) + 1 /\ Len(s) \in Nat
      /\ t[Len(s) + 1] = h /\ \A k \in 1..Len(s) : t[k] = s[k] /\ s[k] \in ToSet(s)
  BY <1>1 DEF ToSet
<1>3. ToSet(t) = gone
  <2>1. DOMAIN s = 1..Len(s) /\ DOMAIN t = 1..(Len(s) + 1)
    BY <1>1, <1>2
  <2> HIDE DEF t
  <2>2. ToSet(s) = {s[k] : k \in 1..Len(s)} /\ ToSet(t) = {t[k] : k \in 1..(Len(s) + 1)}
    BY <2>1, Zenon DEF ToSet
  <2>3. \A k \in 1..(Len(s) + 1) : k = Len(s) + 1 \/ k \in 1..Len(s)
    BY <1>2
  <2>4. ToSet(t) \subseteq gone
    BY <1>2, <2>2, <2>3
  <2>5. gone \subseteq ToSet(t)
    <3>1. Len(s) + 1 \in 1..(Len(s) + 1) /\ \A k \in 1..Len(s) : k \in 1..(Len(s) + 1)
      BY <1>2
    <3> QED
      BY <1>2, <2>2, <3>1
  <2> QED
    BY <2>4, <2>5
<1> HIDE DEF t
<1>4. ASSUME NEW k \in 1..(Len(t) - 1) PROVE t[k] < t[k + 1]
  <2>1. CASE k = Len(s)
    BY <1>2, <2>1
  <2>2. CASE k # Len(s)
    <3>1. k \in 1..(Len(s) - 1) /\ k \in 1..Len(s) /\ k + 1 \in 1..Len(s)
      BY <1>2, <2>2
    <3>2. t[k] = s[k] /\ t[k + 1] = s[k + 1]
      BY <1>2, <3>1
    <3>3. s[k] < s[k + 1]
      BY <3>1, Zenon DEF Played
    <3> QED
      BY <3>2, <3>3
  <2> QED
    BY <2>1, <2>2
<1>5. ASSUME NEW i \in (ToSet(s) \cup {h}) \cup packets, i <= h PROVE i \in gone
  <2>1. packets \subseteq 1..n /\ h \in 1..n /\ \A j \in packets : h < j
    BY <1>1 DEF InLine
  <2>2. ASSUME i \in packets PROVE FALSE
    <3>1. h < i /\ i \in 1..n
      BY <2>1, <2>2, Zenon
    <3>2. n \in Nat /\ i \in Nat /\ h \in Nat
      BY <2>1, <3>1
    <3> QED
      BY <1>5, <3>1, <3>2
  <2> QED
    BY <1>5, <2>2
<1>6. ASSUME NEW i \in gone PROVE /\ Ordinary(c, i) => Met(c, i, gone)
                                  /\ \A j \in 1..i : ~Ordinary(c, j) => j \in gone
  <2>1. CASE i \in ToSet(s)
    BY <2>1 DEF Played, Met
  <2>2. CASE i = h
    <3>1. ASSUME Ordinary(c, h) PROVE Met(c, h, gone)
      <4>1. PICK r \in gone \cup packets :
               /\ LastRef(c, r, h, h - 1)
               /\ c.packets[h].priority = Disposable =>
                    LowSince(c, r, h, h - 1) \subseteq gone \cup packets
        BY <3>1, Zenon DEF Decodable, Met
      <4>2. r <= h /\ \A j \in LowSince(c, r, h, h - 1) : j <= h
        BY <1>1, <4>1 DEF LastRef, LowSince
      <4> QED
        BY <1>5, <4>1, <4>2 DEF Met
    <3>2. ASSUME NEW j \in 1..h, ~Ordinary(c, j) PROVE j \in gone
      <4>1. j \in 1..n /\ j <= h
        BY <1>1
      <4> QED
        BY <1>5, <3>2, <4>1 DEF Decodable
    <3> QED
      BY <2>2, <3>1, <3>2
  <2> QED
    BY <2>1, <2>2
<1>7. Played(c, t)
  BY <1>2, <1>3, <1>4, <1>6, Zenon DEF Played
<1> QED
  BY <1>3, <1>7 DEF t

LEMMA InitPlay == StreamsInStep /\ Init => PlayInv
<1> SUFFICES ASSUME StreamsInStep, Init PROVE PlayInv
  OBVIOUS
<1>1. CourseType(course) /\ InStep(course)
  BY PacketQueueAssumption DEF Init, StreamsInStep
<1>2. /\ sent = <<>> /\ sender = "wait" /\ queue.packets = {} /\ queue.minPriority = 0
      /\ active /\ ~disconnected /\ Seen = 0
  BY DEF Init, Seen
<1>3. ToSet(sent) = {} /\ Gone = {}
  BY <1>2 DEF Gone, ToSet
<1>4. Waiting(course, 0) = {}
  <2> SUFFICES ASSUME NEW i \in Waiting(course, 0) PROVE FALSE
    OBVIOUS
  <2>1. /\ i \in 1..Len(course.packets) /\ Ordinary(course, i)
        /\ \A j \in 1..(i - 1) : ~Refers(course, j, i)
    BY DEF Waiting
  <2> QED
    BY <1>1, <2>1, Together
<1>5. Decodable(course, 0, 0, {})
  BY <1>4 DEF Decodable, Ready
<1>6. Played(course, sent)
  BY <1>2, <1>3 DEF Played
<1>7. InLine(0, {}, {})
  BY DEF InLine
<1> QED
  BY <1>2, <1>3, <1>5, <1>6, <1>7 DEF PlayInv

\* Steps that move no packet of a thread that goes on working.
LEMMA PlayStays ==
  ASSUME PlayInv, course' = course, sent' = sent,
         Working' => /\ Working /\ active' = active /\ disconnected' = disconnected
                     /\ Seen' = Seen /\ queue' = queue
                     /\ hand' = hand /\ (sender' = "send" <=> sender = "send")
  PROVE  PlayInv'
<1>1. Played(course, sent)'
  BY DEF PlayInv
<1>2. ASSUME Working'
      PROVE  (/\ active /\ ~disconnected
              /\ InLine(Seen, Gone, queue.packets)
              /\ sender = "send" => \A i \in ToSet(sent) : i < hand
              /\ Decodable(course, Seen, queue.minPriority, Gone \cup queue.packets))'
  <2>1. /\ Working /\ active' = active /\ disconnected' = disconnected
        /\ Seen' = Seen /\ queue' = queue
        /\ hand' = hand /\ (sender' = "send" <=> sender = "send")
    BY <1>2
  <2>2. Gone' = Gone
    BY <2>1 DEF Gone
  <2> QED
    BY <2>1, <2>2 DEF PlayInv
<1> QED
  BY <1>1, <1>2 DEF PlayInv

\* The send thread takes the first packet and sends it.
LEMMA TakePlays == Typed /\ PlayInv /\ TakePacket => PlayInv'
<1> SUFFICES ASSUME Typed, PlayInv, TakePacket PROVE PlayInv'
  OBVIOUS
<1>1. /\ sender = "pop" /\ course' = course /\ sent' = sent /\ active' = active
      /\ disconnected' = disconnected /\ arrived' = arrived /\ producer' = producer
  BY DEF TakePacket, producerVars
<1>2. Seen' = Seen
  BY <1>1 DEF Seen
<1>3. CASE sender' # "send"
  <2>1. Working' => queue' = queue /\ hand' = hand
    BY <1>3 DEF TakePacket, Working, Leave
  <2> QED
    BY <1>1, <1>2, <1>3, <2>1, PlayStays DEF Working
<1>4. CASE sender' = "send"
  <2>1. PICK i \in queue.packets :
           /\ \A j \in queue.packets : i <= j
           /\ queue' = [queue EXCEPT !.packets = queue.packets \ {i}] /\ hand' = i
    BY <1>4 DEF TakePacket
  <2>2. queue'.packets = queue.packets \ {i} /\ queue'.minPriority = queue.minPriority
    BY <2>1 DEF Typed, IsQueue
  <2>3. Gone = ToSet(sent) /\ Gone' = ToSet(sent) \cup {i}
    BY <1>1, <1>4, <2>1 DEF Gone
  <2>4. /\ active /\ ~disconnected /\ InLine(Seen, Gone, queue.packets)
        /\ Decodable(course, Seen, queue.minPriority, Gone \cup queue.packets)
    BY <1>1 DEF PlayInv, Working
  <2>5. InLine(Seen, Gone', queue'.packets)
    <3>1. /\ Gone \subseteq 1..Seen /\ queue.packets \subseteq 1..Seen
          /\ \A g \in Gone, j \in queue.packets : g < j
      BY <2>4 DEF InLine
    <3>2. \A j \in queue.packets \ {i} : i < j
      BY <2>1, <3>1
    <3> QED
      BY <2>2, <2>3, <3>1, <3>2 DEF InLine
  <2>6. \A g \in ToSet(sent) : g < i
    BY <2>3, <2>4 DEF InLine
  <2>7. Gone' \cup queue'.packets = Gone \cup queue.packets
    BY <2>2, <2>3
  <2>8. Played(course, sent)'
    BY <1>1 DEF PlayInv
  <2> QED
    BY <1>1, <1>2, <2>1, <2>2, <2>4, <2>5, <2>6, <2>7, <2>8 DEF PlayInv
<1> QED
  BY <1>3, <1>4

LEMMA SendPlays == Typed /\ PlayInv /\ Send => PlayInv'
<1> SUFFICES ASSUME Typed, PlayInv, Send PROVE PlayInv'
  OBVIOUS
<1>1. /\ sender = "send" /\ course' = course /\ active' = active /\ queue' = queue
      /\ arrived' = arrived /\ producer' = producer /\ hand' = hand
  BY DEF Send, producerVars, queueVars
<1>2. Seen' = Seen
  BY <1>1 DEF Seen
<1>3. CASE sender' = "wait" /\ sent' = Append(sent, hand) /\ disconnected' = disconnected
  <2>1. Gone = ToSet(sent) \cup {hand}
    BY <1>1 DEF Gone
  <2>2. /\ active /\ ~disconnected /\ InLine(Seen, Gone, queue.packets)
        /\ \A i \in ToSet(sent) : i < hand
        /\ Decodable(course, Seen, queue.minPriority, Gone \cup queue.packets)
        /\ Played(course, sent)
    BY <1>1 DEF PlayInv, Working
  <2>3. CourseType(course)
    BY PacketQueueAssumption DEF Typed
  <2>4. Seen \in 0..Len(course.packets)
    BY <2>3, Levels DEF Typed, Seen
  <2>5. Played(course, sent') /\ ToSet(sent') = Gone
    <3> DEFINE n == Seen
    <3> HIDE DEF n
    <3>1. /\ n \in 0..Len(course.packets) /\ InLine(n, ToSet(sent) \cup {hand}, queue.packets)
          /\ Decodable(course, n, queue.minPriority, (ToSet(sent) \cup {hand}) \cup queue.packets)
      BY <2>1, <2>2, <2>4 DEF n
    <3>2. /\ Played(course, Append(sent, hand))
          /\ ToSet(Append(sent, hand)) = ToSet(sent) \cup {hand}
      BY <2>2, <2>3, <3>1, AppendPlayed
    <3> QED
      BY <1>3, <2>1, <3>2, Zenon
  <2>6. Gone' = Gone
    BY <1>3, <2>5 DEF Gone
  <2> QED
    BY <1>1, <1>2, <1>3, <2>2, <2>5, <2>6 DEF PlayInv
<1>4. CASE sender' = "left" /\ sent' = sent
  BY <1>1, <1>4, PlayStays DEF Working
<1> QED
  BY <1>3, <1>4 DEF Send, Leave

\* rtmp_stream_data
LEMMA AddPlays == StreamsInStep /\ Typed /\ PlayInv /\ Add => PlayInv'
<1> SUFFICES ASSUME StreamsInStep, Typed, PlayInv, Add PROVE PlayInv'
  OBVIOUS
<1>1. /\ producer = "add" /\ course' = course /\ sent' = sent /\ active' = active
      /\ disconnected' = disconnected /\ arrived' = arrived /\ sender' = sender /\ hand' = hand
      /\ producer' # "add"
  BY DEF Add, senderVars
<1>2. CASE ~Working
  BY <1>1, <1>2, PlayStays DEF Working
<1>3. CASE Working
  <2>1. /\ active /\ ~disconnected /\ InLine(Seen, Gone, queue.packets)
        /\ sender = "send" => \A i \in ToSet(sent) : i < hand
        /\ Decodable(course, Seen, queue.minPriority, Gone \cup queue.packets)
    BY <1>3 DEF PlayInv
  <2>2. queue' = AddPacket(queue, arrived)
    BY <2>1, Zenon DEF Add
  <2>3. CourseType(course) /\ InStep(course) /\ IsQueue(queue)
    BY PacketQueueAssumption DEF Typed, StreamsInStep
  <2>4. Seen \in Nat /\ Seen + 1 = arrived /\ Seen + 1 <= Len(course.packets) /\ Seen' = arrived
    BY <1>1, <2>3, Levels DEF Typed, Seen
  <2>5. /\ InLine(arrived, Gone, queue'.packets)
        /\ Decodable(course, arrived, queue'.minPriority, Gone \cup queue'.packets)
    <3> DEFINE n == Seen
    <3> HIDE DEF n
    <3>1. /\ n \in Nat /\ n + 1 = arrived /\ n + 1 <= Len(course.packets)
          /\ InLine(n, Gone, queue.packets)
          /\ Decodable(course, n, queue.minPriority, Gone \cup queue.packets)
      BY <2>1, <2>4 DEF n
    <3>2. LET q == AddPacket(queue, n + 1)
          IN /\ InLine(n + 1, Gone, q.packets)
             /\ Decodable(course, n + 1, q.minPriority, Gone \cup q.packets)
      BY <2>3, <3>1, AddDecodable
    <3> QED
      BY <2>2, <3>1, <3>2
  <2>6. Gone' = Gone
    BY <1>1 DEF Gone
  <2> QED
    BY <1>1, <2>1, <2>4, <2>5, <2>6 DEF PlayInv
<1> QED
  BY <1>2, <1>3

\* The other steps.
LEMMA RestPlays ==
  ASSUME Typed, PlayInv, Next, ~TakePacket, ~Send, ~Add
  PROVE  PlayInv'
<1>1. CASE Arrive
  <2>1. /\ course' = course /\ queue' = queue /\ arrived' = arrived + 1 /\ producer = "idle"
        /\ UNCHANGED senderVars
        /\ producer' = IF disconnected \/ ~active THEN "idle" ELSE "add"
    BY <1>1 DEF Arrive, queueVars
  <2>2. /\ sender' = sender /\ sent' = sent /\ hand' = hand /\ active' = active
        /\ disconnected' = disconnected
    BY <2>1 DEF senderVars
  <2>3. Working' => Working /\ Seen' = Seen
    <3> SUFFICES ASSUME Working' PROVE Working /\ Seen' = Seen
      OBVIOUS
    <3>1. Working /\ active /\ ~disconnected
      BY <2>2 DEF PlayInv, Working
    <3>2. producer' = "add" /\ arrived \in Nat
      BY <2>1, <3>1 DEF Typed
    <3> QED
      BY <2>1, <3>1, <3>2 DEF Seen
  <2> QED
    BY <2>1, <2>2, <2>3, PlayStays
<1>2. ASSUME UNCHANGED <<course, queueVars, arrived, senderVars>>,
             producer' = producer \/ (producer = "post" /\ producer' = "idle")
      PROVE  PlayInv'
  <2>1. Seen' = Seen
    BY <1>2 DEF Seen
  <2> QED
    BY <1>2, <2>1, PlayStays DEF queueVars, senderVars, Working
<1>3. CASE Post
  BY <1>2, <1>3 DEF Post
<1>4. CASE Detach
  BY <1>2, <1>4 DEF Detach, producerVars
<1>5. CASE UserStops \/ EncoderFails
  <2>1. \E w, ts : StopAt(w, ts)
    BY <1>5, Zenon DEF UserStops, EncoderFails
  <2> QED
    BY <1>2, <2>1 DEF StopAt, producerVars
<1>6. CASE Stopper
  <2>1. DeliverError \/ \E w : SignalStop(w)
    BY <1>6, Zenon DEF Stopper
  <2> QED
    BY <1>2, <2>1 DEF DeliverError, SignalStop, producerVars
<1>7. CASE SemWait
  <2>1. /\ sender = "wait" /\ sender' \in {"left", "pop"} /\ Seen' = Seen
        /\ course' = course /\ sent' = sent /\ queue' = queue /\ hand' = hand
        /\ active' = active /\ disconnected' = disconnected
    BY <1>7 DEF SemWait, Leave, queueVars, producerVars, Seen
  <2> QED
    BY <2>1, PlayStays DEF Working
<1>8. CASE ResetBitrate \/ TellOutcome \/ FreePackets \/ Exit
  <2>1. course' = course /\ sent' = sent /\ sender' \in {"tell", "free", "exit", "ended"}
    BY <1>8 DEF ResetBitrate, TellOutcome, FreePackets, Exit
  <2> QED
    BY <2>1, PlayStays DEF Working
<1> QED
  BY <1>1, <1>3, <1>4, <1>5, <1>6, <1>7, <1>8 DEF Next, Producer, Sender

\* Met is what Playable asks of a frame.
LEMMA NeedsMet ==
  ASSUME CourseType(course), NEW i \in 1..Len(course.packets), NEW alive,
         Ordinary(course, i) => Met(course, i, alive)
  PROVE  Needs(i) \subseteq alive
<1>1. \A j \in 1..Len(course.packets) : course.packets[j].priority \in {0, 1, 2, 3}
  BY Levels DEF Disposable, Low, High, Highest
<1>2. CASE ~Ordinary(course, i)
  BY <1>2, Zenon DEF Needs, Ordinary, IsVideo, IsKey, Packet
<1>3. CASE Ordinary(course, i)
  <2>1. PICK r \in alive :
           /\ LastRef(course, r, i, i - 1)
           /\ course.packets[i].priority = Disposable =>
                LowSince(course, r, i, i - 1) \subseteq alive
    BY <1>3, Zenon DEF Met
  <2> DEFINE E == Earlier(i, High)
             L == {j \in Earlier(i, Low) : j > r /\ Packet(i).priority = Disposable}
  <2>2. E = {j \in 1..(i - 1) : Refers(course, j, i)}
    BY DEF Earlier, Refers, IsVideo, Packet
  <2>3. r \in E /\ E \subseteq Nat /\ \A j \in E : r >= j
    BY <2>1, <2>2 DEF LastRef
  <2>4. Max(E) = r
    <3> HIDE DEF E
    <3>1. Max(E) \in E /\ \A j \in E : Max(E) >= j
      BY <2>3, Zenon DEF Max
    <3>2. Max(E) >= r /\ r >= Max(E) /\ r \in Nat /\ Max(E) \in Nat
      BY <2>3, <3>1
    <3> QED
      BY <3>2
  <2>5. L \subseteq alive
    <3> SUFFICES ASSUME NEW j \in L PROVE j \in alive
      OBVIOUS
    <3>1. /\ j \in 1..(i - 1) /\ j > r /\ course.packets[i].priority = Disposable
          /\ course.packets[j].video /\ course.packets[j].track = course.packets[i].track
          /\ course.packets[j].priority >= Low
      BY DEF Earlier, IsVideo, Packet
    <3>2. r \in Nat
      BY <2>3
    <3>3. j \in LowSince(course, r, i, i - 1)
      BY <3>1, <3>2 DEF LowSince
    <3> QED
      BY <2>1, <3>1, <3>3
  <2>6. Needs(i) \subseteq {Max(E)} \cup {j \in Earlier(i, Low) : j > Max(E) /\ Packet(i).priority = Disposable}
    <3> HIDE DEF E
    <3> QED
      BY DEF Needs, E
  <2> QED
    BY <2>1, <2>4, <2>5, <2>6
<1> QED
  BY <1>2, <1>3

LEMMA InvPlays == Typed /\ PlayInv => Playable
<1> SUFFICES ASSUME Typed, PlayInv PROVE Playable
  OBVIOUS
<1>1. CourseType(course) /\ Played(course, sent)
  BY PacketQueueAssumption DEF Typed, PlayInv
<1>2. sent \in Seq(1..Len(course.packets)) /\ \A k \in 1..(Len(sent) - 1) : sent[k] < sent[k + 1]
  BY <1>1 DEF Played
<1>3. ASSUME NEW k \in DOMAIN sent
      PROVE  sent[k] \in ToSet(sent) /\ sent[k] \in 1..Len(course.packets)
  BY <1>2 DEF ToSet
<1>4. ASSUME NEW k \in DOMAIN sent PROVE Needs(sent[k]) \subseteq ToSet(sent)
  <2>1. Ordinary(course, sent[k]) => Met(course, sent[k], ToSet(sent))
    BY <1>1, <1>3, Zenon DEF Played
  <2> QED
    BY <1>1, <1>3, <2>1, NeedsMet
<1>5. ASSUME sent # <<>>, NEW i \in 1..Last(sent), ~IsVideo(i) \/ IsKey(i)
      PROVE  i \in ToSet(sent)
  <2>1. Len(sent) \in DOMAIN sent
    BY <1>2, <1>5
  <2>2. Last(sent) \in ToSet(sent)
    BY <1>3, <2>1 DEF Last
  <2>3. ~Ordinary(course, i)
    BY <1>5, Zenon DEF Ordinary, IsVideo, IsKey, Packet
  <2> QED
    BY <1>1, <2>2, <2>3, Zenon DEF Played
<1> QED
  BY <1>2, <1>4, <1>5, Zenon DEF Playable

\* Whatever is dropped while packets wait, are added or sent, and whenever the stream
\* is stopped or lost: what send_thread sends of streams whose tracks are in step can be
\* played (drop_frames, min_priority in add_video_packet).
THEOREM WhatIsSentPlays == StreamsInStep => (Spec => []Playable)
<1> SUFFICES ASSUME StreamsInStep PROVE Spec => []Playable
  OBVIOUS
<1> DEFINE Inv == PacketInv /\ PlayInv
<1>1. Init => Inv
  BY InitInv, InitPlay
<1>2. Inv /\ [Next]_vars => Inv'
  <2> SUFFICES ASSUME Inv, [Next]_vars PROVE Inv'
    OBVIOUS
  <2>1. PacketInv'
    BY ArriveStep, AddStep, SenderStep, OtherStep, Zenon DEF Next, Producer
  <2>2. Typed
    BY DEF PacketInv
  <2>3. PlayInv'
    <3>1. CASE UNCHANGED vars
      BY <3>1, PlayStays DEF vars, queueVars, senderVars, producerVars, Working, Seen
    <3>2. CASE Next
      BY <2>2, <3>2, TakePlays, SendPlays, AddPlays, RestPlays
    <3> QED
      BY <3>1, <3>2
  <2> QED
    BY <2>1, <2>3
<1>3. Inv => Playable
  BY InvPlays DEF PacketInv
<1> QED
  BY <1>1, <1>2, <1>3, PTL DEF Spec
=============================================================================
