--------------------------- MODULE GpuEncode_proofs ---------------------------
(***************************************************************************)
(* Proofs about texture encoding, for any number of encoders and textures: *)
(* an encoder whose stop has passed its wait is not served any more, the   *)
(* keyed mutexes agree with the keys that travel with the textures, and    *)
(* each tick that is queued is taken once, in order.                       *)
(***************************************************************************)
EXTENDS GpuEncode, FiniteSetTheorems, SequenceTheorems, TLAPS

Listed == {"listed", "on", "counted"}

\* The list of encoders has those that have started and were not yet erased,
\* each once.  The batch of a frame is a rest of the list as it was when the
\* frame was taken; from then on the thread is at work, and a stop falls asleep.
ListInv ==
    /\ gpuEncoders \in Seq(Encoders) /\ batch \in Seq(Encoders)
    /\ encoder \in [Encoders -> Listed \cup {"off", "erased", "asleep", "quiet", "joining"}]
    /\ \A i \in DOMAIN gpuEncoders : encoder[gpuEncoders[i]] \in Listed
    /\ \A i, j \in DOMAIN gpuEncoders : gpuEncoders[i] = gpuEncoders[j] => i = j
    /\ \A i \in DOMAIN batch : encoder[batch[i]] \in Listed \cup {"erased", "asleep"}
    /\ thread \in {"pop", "encode"} => ~inactive
    /\ thread # "encode" => batch = <<>>

LEMMA ListInit == Init => ListInv
  BY DEF Init, ListInv

\* What is left of a sequence without one of its places.
LEMMA RemoveAtElements ==
  ASSUME NEW S, NEW s \in Seq(S), NEW k \in DOMAIN s
  PROVE  /\ RemoveAt(s, k) \in Seq(S)
         /\ Len(RemoveAt(s, k)) = Len(s) - 1
         /\ \A i \in DOMAIN RemoveAt(s, k) :
                RemoveAt(s, k)[i] = IF i < k THEN s[i] ELSE s[i + 1]
<1> DEFINE front == SubSeq(s, 1, k - 1)
           rest == SubSeq(s, k + 1, Len(s))
<1>0. Len(s) \in Nat /\ k \in 1 .. Len(s)
  OBVIOUS
<1>1. front \in Seq(S) /\ Len(front) = k - 1 /\ \A i \in 1 .. (k - 1) : front[i] = s[i]
  BY SubSeqProperties
<1>2. rest \in Seq(S) /\ Len(rest) = Len(s) - k /\ \A i \in 1 .. (Len(s) - k) : rest[i] = s[k + i]
  BY SubSeqProperties
<1>3. RemoveAt(s, k) = front \o rest
  BY DEF RemoveAt
<1> HIDE DEF front, rest
<1>4. /\ front \o rest \in Seq(S) /\ Len(front \o rest) = Len(s) - 1
      /\ \A i \in 1 .. (Len(s) - 1) :
             (front \o rest)[i] = IF i <= k - 1 THEN front[i] ELSE rest[i - (k - 1)]
  <2>1. /\ front \o rest \in Seq(S) /\ Len(front \o rest) = Len(front) + Len(rest)
        /\ \A i \in 1 .. (Len(front) + Len(rest)) :
               (front \o rest)[i] = IF i <= Len(front) THEN front[i] ELSE rest[i - Len(front)]
    BY <1>1, <1>2, ConcatProperties
  <2>2. Len(front) + Len(rest) = Len(s) - 1
    BY <1>0, <1>1, <1>2
  <2> QED
    BY <1>1, <2>1, <2>2
<1>5. ASSUME NEW i \in 1 .. (Len(s) - 1), i < k
      PROVE  (front \o rest)[i] = s[i]
  BY <1>0, <1>1, <1>4, <1>5
<1>6. ASSUME NEW i \in 1 .. (Len(s) - 1), ~(i < k)
      PROVE  (front \o rest)[i] = s[i + 1]
  <2> DEFINE j == i - (k - 1)
  <2>1. j \in 1 .. (Len(s) - k) /\ k + j = i + 1
    BY <1>0, <1>6
  <2>2. (front \o rest)[i] = rest[j]
    BY <1>0, <1>4, <1>6
  <2> HIDE DEF j
  <2> QED
    BY <1>2, <2>1, <2>2
<1>7. DOMAIN (front \o rest) = 1 .. (Len(s) - 1)
  BY <1>4
<1> QED
  BY <1>0, <1>3, <1>4, <1>5, <1>6, <1>7

LEMMA WithoutElements ==
  ASSUME NEW S, NEW s \in Seq(S), NEW e,
         \A i, j \in DOMAIN s : s[i] = s[j] => i = j
  PROVE  /\ Without(s, e) \in Seq(S)
         /\ \A i \in DOMAIN Without(s, e) :
                Without(s, e)[i] # e /\ \E j \in DOMAIN s : Without(s, e)[i] = s[j]
         /\ \A i, j \in DOMAIN Without(s, e) : Without(s, e)[i] = Without(s, e)[j] => i = j
<1>1. CASE e \notin ToSet(s)
  BY <1>1 DEF Without, ToSet
<1>2. CASE e \in ToSet(s)
  <2> DEFINE k == CHOOSE i \in DOMAIN s : s[i] = e
  <2>1. k \in DOMAIN s /\ s[k] = e
    BY <1>2 DEF ToSet
  <2>2. Without(s, e) = RemoveAt(s, k)
    BY <1>2 DEF Without
  <2> HIDE DEF k
  <2>3. /\ RemoveAt(s, k) \in Seq(S) /\ Len(RemoveAt(s, k)) = Len(s) - 1
        /\ \A i \in DOMAIN RemoveAt(s, k) :
               RemoveAt(s, k)[i] = IF i < k THEN s[i] ELSE s[i + 1]
    BY <2>1, RemoveAtElements
  <2> DEFINE r == RemoveAt(s, k)
             place(i) == IF i < k THEN i ELSE i + 1
  <2>4. Len(s) \in Nat /\ DOMAIN s = 1 .. Len(s) /\ DOMAIN r = 1 .. (Len(s) - 1)
    BY <2>3
  <2>5. \A i \in DOMAIN r : place(i) \in DOMAIN s /\ place(i) # k /\ r[i] = s[place(i)]
    BY <2>1, <2>3, <2>4
  <2>6. \A i, j \in DOMAIN r : place(i) = place(j) => i = j
    BY <2>1, <2>4
  <2> HIDE DEF r, place
  <2>7. \A i \in DOMAIN r : r[i] # e
    BY <2>1, <2>5
  <2>8. \A i, j \in DOMAIN r : r[i] = r[j] => i = j
    BY <2>5, <2>6
  <2>9. Without(s, e) = r /\ r \in Seq(S)
    BY <2>2, <2>3 DEF r
  <2> QED
    BY <2>5, <2>7, <2>8, <2>9
<1> QED
  BY <1>1, <1>2

LEMMA MoveOnKeepsTypes ==
  ASSUME ListInv, NEW e \in Encoders, NEW from, NEW to, MoveOn(e, from, to),
         to \in Listed \cup {"off", "erased", "asleep", "quiet", "joining"}
  PROVE  /\ encoder' \in [Encoders -> Listed \cup {"off", "erased", "asleep", "quiet", "joining"}]
         /\ encoder[e] = from /\ encoder'[e] = to
         /\ \A x \in Encoders : x # e => encoder'[x] = encoder[x]
  BY DEF ListInv, MoveOn

LEMMA ListThread == ListInv /\ EncodeThread => ListInv'
<1> SUFFICES ASSUME ListInv, EncodeThread PROVE ListInv'
  OBVIOUS
<1> USE DEF ListInv
<1>1. CASE Wake \/ LookAround \/ SayAtWork
  BY <1>1 DEF Wake, LookAround, SayAtWork, AtWork, encoderVars, frameVars
<1>2. CASE Pop
  BY <1>2 DEF Pop, encoderVars
<1>3. CASE PassOver
  BY <1>3 DEF PassOver, encoderVars
<1>4. CASE Encode
  BY <1>4 DEF Encode, encoderVars
<1>5. CASE Finish
  BY <1>5 DEF Finish, encoderVars, frameVars
<1>6. CASE Signal
  <2>1. batch = <<>> /\ batch' = batch /\ thread' = "wait" /\ gpuEncoders' = gpuEncoders
    BY <1>6 DEF Signal
  <2>2. encoder' = [e \in Encoders |-> IF encoder[e] = "asleep" THEN "quiet" ELSE encoder[e]]
    BY <1>6 DEF Signal
  <2> QED
    BY <2>1, <2>2 DEF Listed
<1> QED
  BY <1>1, <1>2, <1>3, <1>4, <1>5, <1>6 DEF EncodeThread

LEMMA ListStart ==
  ASSUME ListInv, NEW e \in Encoders, Start(e)
  PROVE  ListInv'
<1>1. encoder[e] = "off" /\ gpuEncoders' = Append(gpuEncoders, e)
      /\ encoder' = [encoder EXCEPT ![e] = "listed"] /\ batch' = batch
  BY DEF Start, InitEncoding, threadVars, frameVars
<1>2. \/ thread' = "wait" /\ thread = "none"
      \/ thread' = thread /\ inactive' = inactive
  BY DEF Start, InitEncoding, threadVars
<1>3. \A i \in DOMAIN gpuEncoders : gpuEncoders[i] # e
  BY <1>1 DEF ListInv, Listed
<1>4. /\ gpuEncoders' \in Seq(Encoders)
      /\ \A i, j \in DOMAIN gpuEncoders' : gpuEncoders'[i] = gpuEncoders'[j] => i = j
      /\ \A i \in DOMAIN gpuEncoders' :
             gpuEncoders'[i] = e \/ \E j \in DOMAIN gpuEncoders : gpuEncoders'[i] = gpuEncoders[j]
  BY <1>1, <1>3 DEF ListInv
<1> QED
  BY <1>1, <1>2, <1>4 DEF ListInv, Listed

LEMMA ListErase ==
  ASSUME ListInv, NEW e \in Encoders, EraseEncoder(e)
  PROVE  ListInv'
<1>1. /\ gpuEncoders' \in Seq(Encoders)
      /\ \A i \in DOMAIN gpuEncoders' :
             gpuEncoders'[i] # e /\ \E j \in DOMAIN gpuEncoders : gpuEncoders'[i] = gpuEncoders[j]
      /\ \A i, j \in DOMAIN gpuEncoders' : gpuEncoders'[i] = gpuEncoders'[j] => i = j
  BY WithoutElements DEF EraseEncoder, ListInv
<1>2. batch' = batch /\ thread' = thread /\ inactive' = inactive
  BY DEF EraseEncoder, threadVars, frameVars
<1>3. /\ encoder' \in [Encoders -> Listed \cup {"off", "erased", "asleep", "quiet", "joining"}]
      /\ encoder[e] = "counted" /\ encoder'[e] = "erased"
      /\ \A x \in Encoders : x # e => encoder'[x] = encoder[x]
  BY MoveOnKeepsTypes DEF EraseEncoder
<1>4. \A i \in DOMAIN gpuEncoders' : encoder'[gpuEncoders'[i]] \in Listed
  <2> SUFFICES ASSUME NEW i \in DOMAIN gpuEncoders' PROVE encoder'[gpuEncoders'[i]] \in Listed
    OBVIOUS
  <2>1. PICK j \in DOMAIN gpuEncoders : gpuEncoders'[i] = gpuEncoders[j]
    BY <1>1
  <2>2. gpuEncoders[j] # e /\ gpuEncoders[j] \in Encoders /\ encoder[gpuEncoders[j]] \in Listed
    BY <1>1, <2>1 DEF ListInv
  <2> QED
    BY <1>3, <2>1, <2>2
<1>5. \A i \in DOMAIN batch : encoder'[batch[i]] \in Listed \cup {"erased", "asleep"}
  BY <1>3 DEF ListInv
<1> QED
  BY <1>1, <1>2, <1>3, <1>4, <1>5 DEF ListInv

\* The steps that move an encoder on and leave the list alone.
LEMMA ListMove ==
  ASSUME ListInv, NEW e \in Encoders,
         CountUp(e) \/ CountDown(e) \/ WaitInactive(e) \/ StopReturned(e) \/ StopThread(e)
         \/ JoinAndFree(e)
  PROVE  ListInv'
<1> DEFINE States == Listed \cup {"off", "erased", "asleep", "quiet", "joining"}
<1>1. gpuEncoders' = gpuEncoders /\ batch' = batch
  BY DEF CountUp, CountDown, WaitInactive, StopReturned, StopThread, JoinAndFree, threadVars,
         frameVars
<1>2. \/ thread' = thread /\ inactive' = inactive
      \/ thread = "ended" /\ thread' = "none"
  BY DEF CountUp, CountDown, WaitInactive, StopReturned, StopThread, JoinAndFree, threadVars
<1>3. ASSUME NEW from \in States, NEW to \in States, MoveOn(e, from, to),
             from \in Listed => to \in Listed,
             from = "erased" => to = "asleep" \/ batch = <<>>,
             from # "asleep"
      PROVE  ListInv'
  <2>1. /\ encoder' \in [Encoders -> States] /\ encoder[e] = from /\ encoder'[e] = to
        /\ \A x \in Encoders : x # e => encoder'[x] = encoder[x]
    BY <1>3, MoveOnKeepsTypes
  <2>2. \A i \in DOMAIN batch : batch[i] \in Encoders /\ encoder'[batch[i]] \in Listed \cup {"erased", "asleep"}
    BY <1>3, <2>1 DEF ListInv, Listed
  <2>3. \A i \in DOMAIN gpuEncoders : gpuEncoders[i] \in Encoders /\ encoder'[gpuEncoders[i]] \in Listed
    BY <1>3, <2>1 DEF ListInv, Listed
  <2> QED
    BY <1>1, <1>2, <2>1, <2>2, <2>3 DEF ListInv, Listed
<1>4. CASE CountUp(e)
  BY <1>3, <1>4 DEF CountUp, Listed
<1>5. CASE CountDown(e)
  BY <1>3, <1>5 DEF CountDown, Listed
<1>6. CASE WaitInactive(e)
  <2>1. NothingToWaitFor => batch = <<>>
    BY DEF NothingToWaitFor, ListInv
  <2> QED
    BY <1>3, <1>6, <2>1 DEF WaitInactive, Listed
<1>7. CASE StopReturned(e)
  BY <1>3, <1>7 DEF StopReturned, Listed
<1>8. CASE StopThread(e)
  BY <1>3, <1>8 DEF StopThread, Listed
<1>9. CASE JoinAndFree(e)
  BY <1>3, <1>9 DEF JoinAndFree, Listed
<1> QED
  BY <1>4, <1>5, <1>6, <1>7, <1>8, <1>9

\* The graphics thread changes nothing of this.
LEMMA ListGraphics ==
  ASSUME ListInv,
         (\E c \in 1 .. MaxCount : Turn(c)) \/ Render \/ QueueFrame \/ UNCHANGED vars
  PROVE  ListInv'
<1>1. UNCHANGED <<gpuEncoders, batch, encoder, thread, inactive>>
  BY DEF Turn, Render, QueueFrame, QueueDuplicate, QueuePicture, QueueNothing, Queued, vars,
         encoderVars, threadVars, frameVars
<1> QED
  BY <1>1 DEF ListInv

LEMMA ListStep == ListInv /\ [Next]_vars => ListInv'
  BY ListGraphics, ListThread, ListStart, ListErase, ListMove DEF Next, StopEncoder

\* An encoder whose stop has passed its wait is served no frame any more, however
\* many encoders start, stop and are served at once: stop_gpu_encode may return
\* and the encoder be destroyed.
THEOREM StoppedIsQuiet == Spec => []QuietOnceStopped
<1>1. ListInv => QuietOnceStopped
  BY DEF ListInv, QuietOnceStopped, Listed
<1> QED
  BY <1>1, ListInit, ListStep, PTL DEF Spec

-----------------------------------------------------------------------------

Frames == [tex : Textures, key : Nat, count : Int, timestamp : Int, released : BOOLEAN]
Pictures == [timestamp : Int, count : Int, left : Int]

Typed ==
    /\ avail \in Seq(Frames) /\ queue \in Seq(Frames) /\ tf \in Frames
    /\ convert \in Textures /\ texKey \in [Textures -> Int]
    /\ vframes \in Seq(Pictures) /\ vframe \in Pictures /\ tick \in Int
    /\ lockKey \in Nat /\ nextKey \in Nat

\* A texture is in one place: unused, queued, with the encode thread, or the one
\* that is rendered to.
Apart ==
    /\ \A i, j \in DOMAIN avail : avail[i].tex = avail[j].tex => i = j
    /\ \A i, j \in DOMAIN queue : queue[i].tex = queue[j].tex => i = j
    /\ \A i \in DOMAIN avail, j \in DOMAIN queue : avail[i].tex # queue[j].tex
    /\ \A i \in DOMAIN avail : avail[i].tex # convert
    /\ \A i \in DOMAIN queue : queue[i].tex # convert
    /\ AtWorkOnFrame => /\ tf.tex # convert
                        /\ \A i \in DOMAIN avail : avail[i].tex # tf.tex
                        /\ \A i \in DOMAIN queue : queue[i].tex # tf.tex

\* What was queued has been released by the graphics device.
HandedOver ==
    /\ \A i \in DOMAIN queue : queue[i].released
    /\ AtWorkOnFrame => tf.released

\* Without the thread there are no textures.
Empty == thread = "none" => avail = <<>> /\ queue = <<>>

KeyInv == Typed /\ Apart /\ KeysAgree /\ HandedOver /\ Empty

LEMMA SomeTexture == FirstTexture \in Textures
<1>1. Textures # {}
  BY GpuEncodeAssumption, FS_EmptySet
<1> QED
  BY <1>1 DEF FirstTexture

LEMMA KeyInit == Init => KeyInv
<1> SUFFICES ASSUME Init PROVE KeyInv
  OBVIOUS
<1> USE SomeTexture DEF Init
<1>1. Typed
  BY DEF Typed, Frames, Pictures, NoFrame, NoPicture, Held
<1>2. Apart /\ HandedOver /\ Empty
  BY DEF Apart, HandedOver, Empty, AtWorkOnFrame
<1>3. KeysAgree
  BY DEF KeysAgree, AtWorkOnFrame
<1> QED
  BY <1>1, <1>2, <1>3 DEF KeyInv

LEMMA QueuedKeeps ==
  ASSUME Typed, NEW t, Queued(t)
  PROVE  /\ vframe' \in Pictures /\ vframes' = vframes /\ tick' = tick
         /\ thread' = thread /\ tf' = tf /\ lockKey' = lockKey /\ nextKey' = nextKey
<1>1. NoPicture \in Pictures
  BY DEF NoPicture, Pictures
<1>2. vframe \in Pictures => [vframe EXCEPT !.left = @ - 1] \in Pictures
  BY DEF Pictures
<1>3. vframe' = NoPicture \/ vframe' = [vframe EXCEPT !.left = @ - 1]
  BY DEF Queued
<1>4. UNCHANGED <<vframes, tick, thread, tf, lockKey, nextKey>>
  BY DEF Queued, threadVars, frameVars
<1> QED
  BY <1>1, <1>2, <1>3, <1>4 DEF Typed

LEMMA ProlongedFrame ==
  ASSUME NEW f \in Frames
  PROVE  /\ [f EXCEPT !.count = @ + 1] \in Frames
         /\ [f EXCEPT !.count = @ + 1].tex = f.tex
         /\ [f EXCEPT !.count = @ + 1].key = f.key
         /\ [f EXCEPT !.count = @ + 1].released = f.released
         /\ [f EXCEPT !.count = @ + 1].timestamp = f.timestamp
         /\ [f EXCEPT !.count = @ + 1].count = f.count + 1
  BY DEF Frames

LEMMA KeyDuplicate == KeyInv /\ QueueDuplicate => KeyInv'
<1> SUFFICES ASSUME KeyInv, QueueDuplicate PROVE KeyInv'
  OBVIOUS
<1> DEFINE n == Len(queue)
<1>1. queue \in Seq(Frames) /\ n \in Nat /\ n \in DOMAIN queue /\ queue[n] \in Frames
  BY DEF KeyInv, Typed, QueueDuplicate
<1>2. queue' = [queue EXCEPT ![n] = [queue[n] EXCEPT !.count = @ + 1]]
      /\ UNCHANGED <<avail, convert, texKey>>
  BY DEF QueueDuplicate
<1> HIDE DEF n
<1>3. /\ [queue[n] EXCEPT !.count = @ + 1] \in Frames
      /\ [queue[n] EXCEPT !.count = @ + 1].tex = queue[n].tex
      /\ [queue[n] EXCEPT !.count = @ + 1].key = queue[n].key
      /\ [queue[n] EXCEPT !.count = @ + 1].released = queue[n].released
  BY <1>1, ProlongedFrame
<1>4. /\ queue' \in Seq(Frames) /\ DOMAIN queue' = DOMAIN queue
      /\ \A i \in DOMAIN queue : /\ queue'[i].tex = queue[i].tex
                                 /\ queue'[i].key = queue[i].key
                                 /\ queue'[i].released = queue[i].released
  <2> DEFINE f == [queue[n] EXCEPT !.count = @ + 1]
  <2>1. f \in Frames /\ f.tex = queue[n].tex /\ f.key = queue[n].key
        /\ f.released = queue[n].released /\ queue' = [queue EXCEPT ![n] = f]
    BY <1>2, <1>3
  <2>0. n \in 1 .. Len(queue)
    BY <1>1
  <2> HIDE DEF f
  <2>2. /\ [queue EXCEPT ![n] = f] \in Seq(Frames) /\ Len([queue EXCEPT ![n] = f]) = Len(queue)
        /\ \A i \in 1 .. Len(queue) : [queue EXCEPT ![n] = f][i] = IF i = n THEN f ELSE queue[i]
    BY <1>1, <2>1, <2>0, ExceptSeq
  <2> QED
    BY <1>1, <2>1, <2>2
<1>5. /\ vframe' \in Pictures /\ vframes' = vframes /\ tick' = tick
      /\ thread' = thread /\ tf' = tf /\ lockKey' = lockKey /\ nextKey' = nextKey
  BY QueuedKeeps DEF KeyInv, QueueDuplicate
<1>6. Typed'
  BY <1>2, <1>4, <1>5 DEF KeyInv, Typed
<1>7. Apart'
  BY <1>2, <1>4, <1>5 DEF KeyInv, Apart, AtWorkOnFrame
<1>8. KeysAgree'
  BY <1>2, <1>4, <1>5 DEF KeyInv, KeysAgree, Agrees, AtWorkOnFrame
<1>9. HandedOver' /\ Empty'
  <2>1. queue # <<>>
    BY DEF QueueDuplicate
  <2> QED
    BY <1>2, <1>4, <1>5, <2>1 DEF KeyInv, HandedOver, Empty, AtWorkOnFrame
<1> QED
  BY <1>6, <1>7, <1>8, <1>9 DEF KeyInv

LEMMA KeyPicture == KeyInv /\ QueuePicture => KeyInv'
<1> SUFFICES ASSUME KeyInv, QueuePicture PROVE KeyInv'
  OBVIOUS
<1> DEFINE f == Head(avail)
           t == IF RawActive \/ vframe.left > 1 THEN f.tex ELSE convert
           g == Filled(f, t)
<1>1. /\ avail \in Seq(Frames) /\ avail # <<>> /\ queue \in Seq(Frames)
      /\ convert \in Textures /\ texKey \in [Textures -> Int]
  BY DEF KeyInv, Typed, QueuePicture, Duplicate
<1>2. /\ f \in Frames /\ f = avail[1] /\ 1 \in DOMAIN avail
      /\ Tail(avail) \in Seq(Frames)
      /\ \A i \in DOMAIN Tail(avail) : i + 1 \in DOMAIN avail /\ Tail(avail)[i] = avail[i + 1]
  BY <1>1
<1>3. f.tex \in Textures /\ f.key \in Nat /\ f.tex # convert
  BY <1>2 DEF KeyInv, Apart, Frames
<1>4. /\ avail' = Tail(avail) /\ queue' = Append(queue, g)
      /\ convert' = IF t = convert THEN f.tex ELSE convert
      /\ texKey' = [[texKey EXCEPT ![f.tex] = Held] EXCEPT ![t] = f.key + 1]
  BY DEF QueuePicture
<1>5. t \in {f.tex, convert}
  OBVIOUS
<1> HIDE DEF f, t
<1>6. g \in Frames /\ g.tex = t /\ g.key = f.key + 1 /\ g.released
  <2>1. vframe.timestamp \in Int
    BY DEF KeyInv, Typed, Pictures
  <2>2. t \in Textures
    BY <1>1, <1>3, <1>5
  <2> QED
    BY <1>3, <2>1, <2>2 DEF Filled, Frames
<1> HIDE DEF g
<1>7. /\ t \in Textures /\ convert' \in Textures /\ t # convert'
      /\ \A x \in Textures \ {f.tex, convert} : x # t /\ x # convert'
  BY <1>1, <1>3, <1>4, <1>5
<1>8. /\ texKey' \in [Textures -> Int] /\ texKey'[t] = f.key + 1
      /\ \A x \in Textures \ {f.tex, convert} : texKey'[x] = texKey[x]
  <2>1. texKey \in [Textures -> Int] /\ Held \in Int /\ f.key + 1 \in Int
    BY <1>1, <1>3 DEF Held
  <2>2. texKey' \in [Textures -> Int]
    BY <1>3, <1>4, <1>7, <2>1
  <2>3. texKey'[t] = f.key + 1
    BY <1>3, <1>4, <1>7, <2>1
  <2>4. \A x \in Textures \ {f.tex, convert} : texKey'[x] = texKey[x]
    BY <1>3, <1>4, <1>5, <1>7, <2>1
  <2> QED
    BY <2>2, <2>3, <2>4
<1>9. texKey'[convert'] = Held
  <2>1. texKey[convert] = Held
    BY DEF KeyInv, KeysAgree
  <2>2. CASE t = convert
    BY <1>1, <1>3, <1>4, <2>2 DEF Held
  <2>3. CASE t = f.tex
    BY <1>1, <1>3, <1>4, <2>1, <2>3 DEF Held
  <2> QED
    BY <1>5, <2>2, <2>3
<1>10. /\ vframe' \in Pictures /\ vframes' = vframes /\ tick' = tick
       /\ thread' = thread /\ tf' = tf /\ lockKey' = lockKey /\ nextKey' = nextKey
  BY QueuedKeeps DEF KeyInv, QueuePicture
<1>11. /\ \A i \in DOMAIN queue : queue[i] \in Frames /\ queue[i].tex \in Textures \ {f.tex, convert}
       /\ \A i \in DOMAIN avail' : /\ avail'[i] \in Frames
                                  /\ avail'[i].tex \in Textures \ {f.tex, convert}
       /\ AtWorkOnFrame => tf.tex \in Textures \ {f.tex, convert}
  <2>1. \A x \in Frames : x.tex \in Textures
    BY DEF Frames
  <2>2. \A i \in DOMAIN avail' : avail'[i] \in Frames /\ avail'[i].tex # f.tex /\ avail'[i].tex # convert
    BY <1>1, <1>2, <1>4 DEF KeyInv, Apart
  <2>3. \A i \in DOMAIN queue : queue[i] \in Frames /\ queue[i].tex # f.tex /\ queue[i].tex # convert
    BY <1>1, <1>2 DEF KeyInv, Apart
  <2>4. AtWorkOnFrame => tf.tex # f.tex /\ tf.tex # convert /\ tf \in Frames
    BY <1>2 DEF KeyInv, Apart, Typed
  <2> QED
    BY <2>1, <2>2, <2>3, <2>4
<1>12. /\ queue' \in Seq(Frames) /\ DOMAIN queue' = DOMAIN queue \cup {Len(queue) + 1}
       /\ Len(queue) + 1 \notin DOMAIN queue
       /\ queue'[Len(queue) + 1] = g
       /\ \A i \in DOMAIN queue : queue'[i] = queue[i]
  BY <1>1, <1>4, <1>6
<1>13. Typed'
  BY <1>2, <1>4, <1>7, <1>8, <1>10, <1>12 DEF KeyInv, Typed
<1>14. Apart'
  <2>1. \A i, j \in DOMAIN avail' : avail'[i].tex = avail'[j].tex => i = j
    BY <1>1, <1>2, <1>4 DEF KeyInv, Apart
  <2>2. \A i, j \in DOMAIN queue' : queue'[i].tex = queue'[j].tex => i = j
    BY <1>6, <1>7, <1>11, <1>12 DEF KeyInv, Apart
  <2>3. \A i \in DOMAIN avail', j \in DOMAIN queue' : avail'[i].tex # queue'[j].tex
    BY <1>2, <1>4, <1>6, <1>7, <1>11, <1>12 DEF KeyInv, Apart
  <2>4. /\ \A i \in DOMAIN avail' : avail'[i].tex # convert'
        /\ \A i \in DOMAIN queue' : queue'[i].tex # convert'
    BY <1>6, <1>7, <1>11, <1>12
  <2>5. AtWorkOnFrame' => /\ tf'.tex # convert'
                          /\ \A i \in DOMAIN avail' : avail'[i].tex # tf'.tex
                          /\ \A i \in DOMAIN queue' : queue'[i].tex # tf'.tex
    BY <1>2, <1>4, <1>6, <1>7, <1>10, <1>11, <1>12 DEF KeyInv, Apart, AtWorkOnFrame
  <2> QED
    BY <2>1, <2>2, <2>3, <2>4, <2>5 DEF Apart
<1>15. KeysAgree'
  <2>1. \A i \in DOMAIN avail' : texKey'[avail'[i].tex] = IF avail'[i].released THEN avail'[i].key ELSE Held
    BY <1>2, <1>4, <1>8, <1>11 DEF KeyInv, KeysAgree, Agrees
  <2>2. \A i \in DOMAIN queue' : texKey'[queue'[i].tex] = IF queue'[i].released THEN queue'[i].key ELSE Held
    BY <1>6, <1>8, <1>11, <1>12 DEF KeyInv, KeysAgree, Agrees
  <2>3. AtWorkOnFrame' => texKey'[tf'.tex] = lockKey' /\ lockKey' = nextKey'
    BY <1>8, <1>10, <1>11 DEF KeyInv, KeysAgree, AtWorkOnFrame
  <2> QED
    BY <1>9, <2>1, <2>2, <2>3 DEF KeysAgree, Agrees
<1>16. HandedOver'
  BY <1>6, <1>10, <1>12 DEF KeyInv, HandedOver, AtWorkOnFrame
<1>17. Empty'
  BY <1>1, <1>10 DEF KeyInv, Empty
<1> QED
  BY <1>13, <1>14, <1>15, <1>16, <1>17 DEF KeyInv

LEMMA KeyPop == KeyInv /\ Pop => KeyInv'
<1> SUFFICES ASSUME KeyInv, Pop PROVE KeyInv'
  OBVIOUS
<1>1. /\ queue \in Seq(Frames) /\ queue # <<>> /\ thread = "pop"
  BY DEF KeyInv, Typed, Pop
<1>2. /\ Head(queue) \in Frames /\ Head(queue) = queue[1] /\ 1 \in DOMAIN queue
      /\ Tail(queue) \in Seq(Frames)
      /\ \A i \in DOMAIN Tail(queue) : i + 1 \in DOMAIN queue /\ Tail(queue)[i] = queue[i + 1]
  BY <1>1
<1>3. /\ tf' = queue[1] /\ queue' = Tail(queue) /\ lockKey' = tf'.key /\ nextKey' = tf'.key
      /\ thread' = "encode"
      /\ UNCHANGED <<avail, convert, texKey, vframes, vframe, tick>>
  BY <1>2 DEF Pop, graphicsVars
<1>4. Typed'
  BY <1>2, <1>3 DEF KeyInv, Typed, Frames
<1>5. Apart'
  <2>1. \A i, j \in DOMAIN queue' : queue'[i].tex = queue'[j].tex => i = j
    BY <1>1, <1>2, <1>3 DEF KeyInv, Apart
  <2>2. \A i \in DOMAIN avail, j \in DOMAIN queue' : avail[i].tex # queue'[j].tex
    BY <1>1, <1>2, <1>3 DEF KeyInv, Apart
  <2>3. \A i \in DOMAIN queue' : queue'[i].tex # convert /\ queue'[i].tex # tf'.tex
    BY <1>1, <1>2, <1>3 DEF KeyInv, Apart
  <2>4. tf'.tex # convert /\ \A i \in DOMAIN avail : avail[i].tex # tf'.tex
    BY <1>1, <1>2, <1>3 DEF KeyInv, Apart
  <2> QED
    BY <1>3, <2>1, <2>2, <2>3, <2>4 DEF KeyInv, Apart
<1>6. KeysAgree' /\ HandedOver'
  <2>1. queue[1].released /\ texKey[queue[1].tex] = queue[1].key
    BY <1>2 DEF KeyInv, KeysAgree, Agrees, HandedOver
  <2>2. \A i \in DOMAIN queue' : queue'[i].released /\ texKey[queue'[i].tex] = queue'[i].key
    BY <1>2, <1>3 DEF KeyInv, KeysAgree, Agrees, HandedOver
  <2> QED
    BY <1>3, <2>1, <2>2 DEF KeyInv, KeysAgree, Agrees, HandedOver
<1> QED
  BY <1>3, <1>4, <1>5, <1>6 DEF KeyInv, Empty

LEMMA KeyEncode == KeyInv /\ Encode => KeyInv'
<1> SUFFICES ASSUME KeyInv, Encode PROVE KeyInv'
  OBVIOUS
<1>1. /\ AtWorkOnFrame /\ thread = "encode" /\ tf.tex \in Textures /\ texKey \in [Textures -> Int]
      /\ convert \in Textures
      /\ \A i \in DOMAIN avail : avail[i].tex \in Textures
      /\ \A i \in DOMAIN queue : queue[i].tex \in Textures
  <2>1. \A x \in Frames : x.tex \in Textures
    BY DEF Frames
  <2>2. /\ avail \in Seq(Frames) /\ queue \in Seq(Frames) /\ tf \in Frames
        /\ texKey \in [Textures -> Int] /\ convert \in Textures
    BY DEF KeyInv, Typed
  <2>3. \A i \in DOMAIN avail : avail[i] \in Frames
    BY <2>2
  <2>4. \A i \in DOMAIN queue : queue[i] \in Frames
    BY <2>2
  <2>5. AtWorkOnFrame /\ thread = "encode"
    BY DEF Encode, AtWorkOnFrame
  <2> QED
    BY <2>1, <2>2, <2>3, <2>4, <2>5
<1>2. /\ texKey' = [texKey EXCEPT ![tf.tex] = nextKey'] /\ lockKey' = nextKey'
      /\ UNCHANGED <<avail, queue, convert, thread, tf, vframes, vframe, tick>>
  BY DEF Encode, graphicsVars
<1>3. nextKey' \in Nat
  BY DEF Encode, KeyInv, Typed
<1>4. /\ texKey' \in [Textures -> Int] /\ texKey'[tf.tex] = nextKey'
      /\ \A x \in Textures : x # tf.tex => texKey'[x] = texKey[x]
  BY <1>1, <1>2, <1>3
<1>5. Typed'
  BY <1>2, <1>3, <1>4 DEF KeyInv, Typed
<1>6. Apart' /\ HandedOver' /\ Empty'
  BY <1>2 DEF KeyInv, Apart, HandedOver, Empty, AtWorkOnFrame
<1>7. KeysAgree'
  BY <1>1, <1>2, <1>4 DEF KeyInv, KeysAgree, Agrees, Apart
<1> QED
  BY <1>5, <1>6, <1>7 DEF KeyInv

\* The frame goes back: unused behind the others, or queued before them.
LEMMA KeyFinish == KeyInv /\ Finish => KeyInv'
<1> SUFFICES ASSUME KeyInv, Finish PROVE KeyInv'
  OBVIOUS
<1> DEFINE keyed == [tf EXCEPT !.key = nextKey]
           f == [keyed EXCEPT !.count = @ - 1]
           g == [f EXCEPT !.timestamp = @ + 1]
<1>1. tf \in Frames /\ nextKey \in Nat /\ avail \in Seq(Frames) /\ queue \in Seq(Frames)
  BY DEF KeyInv, Typed
<1>2. AtWorkOnFrame /\ thread = "encode"
  BY DEF Finish, AtWorkOnFrame
<1>3. f \in Frames /\ f.tex = tf.tex /\ f.key = nextKey /\ f.released = tf.released
  <2>1. /\ keyed \in Frames /\ keyed.tex = tf.tex /\ keyed.key = nextKey
        /\ keyed.released = tf.released
    BY <1>1 DEF Frames
  <2> HIDE DEF keyed
  <2> QED
    BY <2>1 DEF Frames
<1>4. \A h \in Frames : /\ [h EXCEPT !.timestamp = @ + 1] \in Frames
                        /\ [h EXCEPT !.timestamp = @ + 1].tex = h.tex
                        /\ [h EXCEPT !.timestamp = @ + 1].key = h.key
                        /\ [h EXCEPT !.timestamp = @ + 1].released = h.released
  BY DEF Frames
<1>5. /\ thread' = "signal"
      /\ UNCHANGED <<convert, texKey, tf, lockKey, nextKey, vframes, vframe, tick>>
      /\ \/ queue' = <<g>> \o queue /\ avail' = avail
         \/ queue' = queue /\ avail' = Append(avail, f)
  BY DEF Finish, graphicsVars, frameVars
<1> HIDE DEF keyed, f
<1>6. g \in Frames /\ g.tex = tf.tex /\ g.key = nextKey /\ g.released = tf.released
  BY <1>3, <1>4
<1> HIDE DEF g
<1>7. /\ tf.released /\ texKey[tf.tex] = nextKey /\ tf.tex # convert
      /\ \A i \in DOMAIN avail : avail[i].tex # tf.tex
      /\ \A i \in DOMAIN queue : queue[i].tex # tf.tex
  BY <1>2 DEF KeyInv, KeysAgree, HandedOver, Apart
<1>8. Empty' /\ ~AtWorkOnFrame'
  BY <1>5 DEF Empty, AtWorkOnFrame
<1>9. CASE queue' = <<g>> \o queue /\ avail' = avail
  <2>1. /\ queue' \in Seq(Frames) /\ Len(queue') = Len(queue) + 1 /\ queue'[1] = g
        /\ \A i \in DOMAIN queue' : i = 1 \/ (i - 1 \in DOMAIN queue /\ queue'[i] = queue[i - 1])
    <3>1. <<g>> \in Seq(Frames) /\ Len(<<g>>) = 1 /\ <<g>>[1] = g
      BY <1>6
    <3>2. /\ <<g>> \o queue \in Seq(Frames) /\ Len(<<g>> \o queue) = 1 + Len(queue)
          /\ \A i \in 1 .. 1 + Len(queue) :
                 (<<g>> \o queue)[i] = IF i <= 1 THEN <<g>>[i] ELSE queue[i - 1]
      BY <1>1, <3>1, ConcatProperties
    <3> QED
      BY <1>1, <1>9, <3>1, <3>2
  <2>2. Typed'
    BY <1>5, <1>9, <2>1 DEF KeyInv, Typed
  <2>3. Apart'
    <3>1. \A i, j \in DOMAIN queue' : queue'[i].tex = queue'[j].tex => i = j
      BY <1>1, <1>6, <1>7, <2>1 DEF KeyInv, Apart
    <3>2. \A i \in DOMAIN avail', j \in DOMAIN queue' : avail'[i].tex # queue'[j].tex
      BY <1>6, <1>7, <1>9, <2>1 DEF KeyInv, Apart
    <3>3. \A i \in DOMAIN queue' : queue'[i].tex # convert'
      BY <1>5, <1>6, <1>7, <2>1 DEF KeyInv, Apart
    <3> QED
      BY <1>5, <1>8, <1>9, <3>1, <3>2, <3>3 DEF KeyInv, Apart
  <2>4. \A i \in DOMAIN queue' : queue'[i].released /\ texKey[queue'[i].tex] = queue'[i].key
    <3>1. \A i \in DOMAIN queue : queue[i].released /\ texKey[queue[i].tex] = queue[i].key
      BY DEF KeyInv, KeysAgree, Agrees, HandedOver
    <3>2. g.released /\ texKey[g.tex] = g.key
      BY <1>6, <1>7
    <3> QED
      BY <2>1, <3>1, <3>2
  <2>5. KeysAgree' /\ HandedOver'
    BY <1>5, <1>8, <1>9, <2>4 DEF KeyInv, KeysAgree, Agrees, HandedOver
  <2> QED
    BY <1>8, <2>2, <2>3, <2>5 DEF KeyInv
<1>10. CASE queue' = queue /\ avail' = Append(avail, f)
  <2>1. /\ avail' \in Seq(Frames) /\ Len(avail') = Len(avail) + 1 /\ avail'[Len(avail')] = f
        /\ \A i \in DOMAIN avail' :
               i = Len(avail') \/ (i \in DOMAIN avail /\ avail'[i] = avail[i])
    BY <1>1, <1>3, <1>10
  <2>2. Typed'
    BY <1>5, <1>10, <2>1 DEF KeyInv, Typed
  <2>3. Apart'
    <3>1. \A i, j \in DOMAIN avail' : avail'[i].tex = avail'[j].tex => i = j
      BY <1>1, <1>3, <1>7, <2>1 DEF KeyInv, Apart
    <3>2. \A i \in DOMAIN avail', j \in DOMAIN queue' : avail'[i].tex # queue'[j].tex
      BY <1>3, <1>7, <1>10, <2>1 DEF KeyInv, Apart
    <3>3. \A i \in DOMAIN avail' : avail'[i].tex # convert'
      BY <1>3, <1>5, <1>7, <2>1 DEF KeyInv, Apart
    <3> QED
      BY <1>5, <1>8, <1>10, <3>1, <3>2, <3>3 DEF KeyInv, Apart
  <2>4. \A i \in DOMAIN avail' :
            texKey[avail'[i].tex] = IF avail'[i].released THEN avail'[i].key ELSE Held
    <3>1. \A i \in DOMAIN avail :
              texKey[avail[i].tex] = IF avail[i].released THEN avail[i].key ELSE Held
      BY DEF KeyInv, KeysAgree, Agrees
    <3>2. f.released /\ texKey[f.tex] = f.key
      BY <1>3, <1>7
    <3> QED
      BY <2>1, <3>1, <3>2
  <2>5. KeysAgree' /\ HandedOver'
    BY <1>5, <1>8, <1>10, <2>4 DEF KeyInv, KeysAgree, Agrees, HandedOver
  <2> QED
    BY <1>8, <2>2, <2>3, <2>5 DEF KeyInv
<1> QED
  BY <1>5, <1>9, <1>10

\* A step that leaves the textures where they are, and the frame in work too.
LEMMA KeyKept ==
  ASSUME KeyInv, UNCHANGED textures,
         vframes' \in Seq(Pictures), vframe' \in Pictures, tick' \in Int,
         tf' \in Frames, lockKey' \in Nat, nextKey' \in Nat,
         AtWorkOnFrame' => AtWorkOnFrame /\ UNCHANGED <<tf, lockKey, nextKey>>,
         thread' = "none" => thread = "none"
  PROVE  KeyInv'
<1>1. UNCHANGED <<avail, queue, convert, texKey>>
  BY DEF textures
<1>2. Typed'
  BY <1>1 DEF KeyInv, Typed
<1>3. Apart' /\ HandedOver' /\ Empty'
  BY <1>1 DEF KeyInv, Apart, HandedOver, Empty
<1>4. KeysAgree'
  BY <1>1 DEF KeyInv, KeysAgree, Agrees
<1> QED
  BY <1>2, <1>3, <1>4 DEF KeyInv

\* The graphics thread between two pictures.
LEMMA KeyTurn == KeyInv /\ ((\E c \in 1 .. MaxCount : Turn(c)) \/ Render \/ QueueNothing) => KeyInv'
<1> SUFFICES ASSUME KeyInv, (\E c \in 1 .. MaxCount : Turn(c)) \/ Render \/ QueueNothing
             PROVE  KeyInv'
  OBVIOUS
<1>1. /\ vframes \in Seq(Pictures) /\ vframe \in Pictures /\ tick \in Int
      /\ tf \in Frames /\ lockKey \in Nat /\ nextKey \in Nat
  BY DEF KeyInv, Typed
<1>2. UNCHANGED <<textures, tf, lockKey, nextKey, thread>>
  BY DEF Turn, Render, QueueNothing, threadVars, frameVars
<1>3. vframes' \in Seq(Pictures) /\ vframe' \in Pictures /\ tick' \in Int
  <2>1. CASE \E c \in 1 .. MaxCount : Turn(c)
    <3>1. PICK c \in 1 .. MaxCount : Turn(c)
      BY <2>1
    <3>2. c \in Int
      OBVIOUS
    <3>3. [timestamp |-> tick, count |-> c, left |-> c] \in Pictures
      BY <1>1, <3>2 DEF Pictures
    <3>4. Append(vframes, [timestamp |-> tick, count |-> c, left |-> c]) \in Seq(Pictures)
      BY <1>1, <3>3
    <3> QED
      BY <1>1, <3>1, <3>2, <3>4 DEF Turn
  <2>2. CASE Render
    <3>1. vframes # <<>> => Head(vframes) \in Pictures /\ Tail(vframes) \in Seq(Pictures)
      BY <1>1
    <3> QED
      BY <1>1, <2>2, <3>1 DEF Render
  <2>3. CASE QueueNothing
    <3>1. NoPicture \in Pictures
      BY DEF NoPicture, Pictures
    <3> QED
      BY <1>1, <2>3, <3>1 DEF QueueNothing
  <2> QED
    BY <2>1, <2>2, <2>3
<1> QED
  BY <1>1, <1>2, <1>3, KeyKept DEF AtWorkOnFrame

LEMMA KeyThread == KeyInv /\ EncodeThread => KeyInv'
<1> SUFFICES ASSUME KeyInv, EncodeThread PROVE KeyInv'
  OBVIOUS
<1>1. /\ vframes \in Seq(Pictures) /\ vframe \in Pictures /\ tick \in Int
      /\ tf \in Frames /\ lockKey \in Nat /\ nextKey \in Nat
  BY DEF KeyInv, Typed
<1>2. CASE Wake \/ LookAround \/ SayAtWork \/ PassOver
  <2>1. /\ UNCHANGED <<textures, vframes, vframe, tick, tf, lockKey, nextKey>>
        /\ AtWorkOnFrame' => AtWorkOnFrame
        /\ thread' # "none"
    BY <1>2 DEF Wake, LookAround, SayAtWork, PassOver, graphicsVars, frameVars, AtWorkOnFrame
  <2> QED
    BY <1>1, <2>1, KeyKept
<1>3. CASE Signal
  <2>1. /\ UNCHANGED <<textures, vframes, vframe, tick>>
        /\ thread' = "wait" /\ tf' = NoFrame /\ lockKey' = 0 /\ nextKey' = 0
    BY <1>3 DEF Signal, graphicsVars
  <2>2. NoFrame \in Frames
    BY SomeTexture DEF NoFrame, Frames
  <2> QED
    BY <1>1, <2>1, <2>2, KeyKept DEF AtWorkOnFrame
<1> QED
  BY <1>2, <1>3, KeyPop, KeyEncode, KeyFinish DEF EncodeThread

LEMMA UnusedTextures ==
  ASSUME NEW S, IsFiniteSet(S)
  PROVE  /\ SetToSeq(S) \in Seq(S)
         /\ \A i, j \in DOMAIN SetToSeq(S) : SetToSeq(S)[i] = SetToSeq(S)[j] => i = j
<1>1. Cardinality(S) \in Nat /\ ExistsBijection(1 .. Cardinality(S), S)
  BY FS_CardinalityType
<1>2. \E f \in [1 .. Cardinality(S) -> S] : IsInjective(f)
  BY <1>1 DEF ExistsBijection, Bijection, Injection
<1>3. SetToSeq(S) \in [1 .. Cardinality(S) -> S] /\ IsInjective(SetToSeq(S))
  BY <1>2 DEF SetToSeq
<1> HIDE DEF SetToSeq
<1> QED
  BY <1>1, <1>3 DEF IsInjective

LEMMA KeyStart == ASSUME KeyInv, NEW e \in Encoders, Start(e) PROVE KeyInv'
<1>1. /\ vframes \in Seq(Pictures) /\ vframe \in Pictures /\ tick \in Int
      /\ tf \in Frames /\ lockKey \in Nat /\ nextKey \in Nat /\ convert \in Textures
  BY DEF KeyInv, Typed
<1>2. UNCHANGED <<vframes, vframe, tick>>
  BY DEF Start, graphicsVars
<1>3. CASE UNCHANGED <<textures, threadVars>>
  BY <1>1, <1>2, <1>3, KeyKept DEF threadVars, frameVars, AtWorkOnFrame
<1>4. CASE thread = "none" /\ InitEncoding
  <2> DEFINE unused == SetToSeq(Textures \ {convert})
  <2>1. /\ avail' = [i \in DOMAIN unused |-> NewFrame(unused[i])]
        /\ texKey' = [t \in Textures |-> Held] /\ thread' = "wait"
        /\ UNCHANGED <<queue, convert, tf, lockKey, nextKey>>
    BY <1>4 DEF InitEncoding, frameVars
  <2>2. queue = <<>>
    BY <1>4 DEF KeyInv, Empty
  <2>3. IsFiniteSet(Textures \ {convert})
    BY GpuEncodeAssumption, FS_RemoveElement
  <2>4. /\ unused \in Seq(Textures \ {convert})
        /\ \A i, j \in DOMAIN unused : unused[i] = unused[j] => i = j
    BY <2>3, UnusedTextures
  <2> HIDE DEF unused
  <2>5. \A t \in Textures : NewFrame(t) \in Frames /\ NewFrame(t).tex = t /\ ~NewFrame(t).released
    <3>1. NoFrame \in Frames /\ ~NoFrame.released
      BY SomeTexture DEF NoFrame, Frames
    <3> QED
      BY <3>1 DEF NewFrame, Frames
  <2>6. /\ DOMAIN unused = 1 .. Len(unused) /\ Len(unused) \in Nat
        /\ \A i \in DOMAIN unused : unused[i] \in Textures /\ unused[i] # convert
    <3>1. DOMAIN unused = 1 .. Len(unused) /\ Len(unused) \in Nat
      BY <2>4
    <3>2. \A i \in DOMAIN unused : unused[i] \in Textures \ {convert}
      BY <2>4, <3>1
    <3> QED
      BY <3>1, <3>2
  <2>7. /\ avail' \in Seq(Frames) /\ DOMAIN avail' = DOMAIN unused
        /\ \A i \in DOMAIN unused : avail'[i].tex = unused[i] /\ ~avail'[i].released
    <3>1. avail' \in [1 .. Len(unused) -> Frames]
      BY <2>1, <2>5, <2>6
    <3>2. avail' \in Seq(Frames)
      BY <2>6, <3>1
    <3> QED
      BY <2>1, <2>5, <2>6, <3>2
  <2>8. texKey' \in [Textures -> Int] /\ \A t \in Textures : texKey'[t] = Held
    BY <2>1 DEF Held
  <2>9. Typed'
    BY <1>1, <1>2, <2>1, <2>2, <2>7, <2>8 DEF Typed
  <2>10. Apart' /\ HandedOver' /\ Empty'
    BY <2>1, <2>2, <2>4, <2>6, <2>7 DEF Apart, HandedOver, Empty, AtWorkOnFrame
  <2>11. KeysAgree'
    BY <1>1, <2>1, <2>2, <2>6, <2>7, <2>8 DEF KeysAgree, Agrees, AtWorkOnFrame
  <2> QED
    BY <2>9, <2>10, <2>11 DEF KeyInv
<1> QED
  BY <1>3, <1>4 DEF Start

LEMMA KeyFree == ASSUME KeyInv, NEW e \in Encoders, JoinAndFree(e) PROVE KeyInv'
<1>1. /\ vframes \in Seq(Pictures) /\ vframe \in Pictures /\ tick \in Int
      /\ tf \in Frames /\ lockKey \in Nat /\ nextKey \in Nat /\ convert \in Textures
  BY DEF KeyInv, Typed
<1>2. /\ avail' = <<>> /\ queue' = <<>> /\ texKey' = [t \in Textures |-> Held]
      /\ thread' = "none"
      /\ UNCHANGED <<convert, tf, lockKey, nextKey, vframes, vframe, tick>>
  BY DEF JoinAndFree, frameVars, graphicsVars
<1>3. Typed'
  BY <1>1, <1>2 DEF Typed, Held
<1>4. Apart' /\ HandedOver' /\ Empty' /\ KeysAgree'
  BY <1>1, <1>2 DEF Apart, HandedOver, Empty, KeysAgree, AtWorkOnFrame
<1> QED
  BY <1>3, <1>4 DEF KeyInv

\* The other steps of an encoder's start and stop touch no texture.
LEMMA KeyMoves ==
  ASSUME KeyInv, NEW e \in Encoders,
         CountUp(e) \/ CountDown(e) \/ EraseEncoder(e) \/ WaitInactive(e)
            \/ StopReturned(e) \/ StopThread(e)
  PROVE  KeyInv'
<1>1. /\ vframes \in Seq(Pictures) /\ vframe \in Pictures /\ tick \in Int
      /\ tf \in Frames /\ lockKey \in Nat /\ nextKey \in Nat
  BY DEF KeyInv, Typed
<1>2. UNCHANGED <<textures, vframes, vframe, tick, tf, lockKey, nextKey, thread>>
  BY DEF CountUp, CountDown, EraseEncoder, WaitInactive, StopReturned, StopThread,
         graphicsVars, threadVars, frameVars
<1> QED
  BY <1>1, <1>2, KeyKept DEF AtWorkOnFrame

LEMMA KeyStep == KeyInv /\ [Next]_vars => KeyInv'
<1> SUFFICES ASSUME KeyInv, [Next]_vars PROVE KeyInv'
  OBVIOUS
<1>1. CASE UNCHANGED vars
  <2>1. UNCHANGED <<textures, vframes, vframe, tick, tf, lockKey, nextKey, thread>>
    BY <1>1 DEF vars, graphicsVars, threadVars, frameVars
  <2> QED
    BY <2>1, KeyKept DEF KeyInv, Typed, AtWorkOnFrame
<1>2. CASE Next
  BY <1>2, KeyTurn, KeyDuplicate, KeyPicture, KeyThread, KeyStart, KeyFree, KeyMoves
     DEF Next, QueueFrame, StopEncoder
<1> QED
  BY <1>1, <1>2

\* The keyed mutexes agree with the keys the queues carry for any number of
\* textures and encoders: neither the graphics thread nor an encoder waits for
\* ever for a texture that was handed over.
THEOREM KeysStayInStep == Spec => []KeysAgree
<1>1. KeyInv => KeysAgree
  BY DEF KeyInv
<1> QED
  BY <1>1, KeyInit, KeyStep, PTL DEF Spec
-----------------------------------------------------------------------------
(* The ticks that are taken.                                               *)

Dues == [tick : Int, tex : Textures]

\* The ticks of d fall into blocks, h of them in hand and then one for each frame
\* of q, as long as the frame has ticks to stand for: c tells where each block ends.
Cut(q, d, h, c) ==
    /\ c \in [0 .. Len(q) -> Nat] /\ c[0] = h /\ c[Len(q)] = Len(d)
    /\ \A i, j \in 0 .. Len(q) : i <= j => c[i] <= c[j]
    /\ \A i \in 1 .. Len(q) :
          /\ q[i].count > 0 /\ c[i] = c[i - 1] + q[i].count
          /\ \A k \in (c[i - 1] + 1) .. c[i] : d[k].tex = q[i].tex
          /\ q[i].timestamp <= d[c[i - 1] + 1].tick
    /\ \A k \in (h + 1) .. Len(d) : \E i \in 1 .. Len(q) : c[i - 1] < k /\ k <= c[i]

InHand == IF thread = "encode" THEN tf.count - 1 ELSE 0

Blocks == \E c : Cut(queue, due, InHand, c)

\* The ticks of the frame that is being encoded come first.
Taken ==
    /\ InHand \in Nat
    /\ \A k \in 1 .. InHand : due[k].tex = tf.tex /\ tf.timestamp < due[k].tick

\* Ticks are queued in order, and pictures stand for different ticks.
InTurn ==
    /\ \A j, k \in DOMAIN due : j < k => due[j].tick < due[k].tick
    /\ \A k \in DOMAIN due : /\ due[k].tick < tick
                             /\ \A i \in DOMAIN vframes : due[k].tick < vframes[i].timestamp
    /\ \A i \in DOMAIN vframes :
          /\ vframes[i].left = vframes[i].count /\ vframes[i].left > 0
          /\ vframes[i].timestamp + vframes[i].count <= tick
    /\ \A i, j \in DOMAIN vframes :
          i < j => vframes[i].timestamp + vframes[i].count <= vframes[j].timestamp
    /\ graphics = "queue" =>
          LET next == vframe.timestamp + vframe.count - vframe.left
          IN  /\ vframe.left > 0 /\ vframe.left <= vframe.count
              /\ vframe.timestamp + vframe.count <= tick
              /\ \A k \in DOMAIN due : due[k].tick < next
              /\ \A i \in DOMAIN vframes :
                    vframe.timestamp + vframe.count <= vframes[i].timestamp

\* The semaphore stands for the ticks that are due, but for the one held back and
\* the one the thread has been woken for.
Woken == IF thread \in {"woken", "busy", "pop"} THEN 1 ELSE 0
Accounted ==
    /\ due \in Seq(Dues) /\ sem \in Nat /\ waitFrames \in {0, 1}
    /\ thread \in {"none", "wait", "woken", "busy", "pop", "encode", "signal", "ended"}
    /\ thread = "none" => due = <<>>
    /\ thread \in {"busy", "pop"} => due # <<>>
    /\ thread \in {"busy", "pop", "encode", "signal"} => waitFrames = 0
    /\ thread = "ended" => stop
    /\ Running /\ ~stop => Len(due) = sem + 1 - waitFrames + Woken

TickInv == Accounted /\ Blocks /\ Taken /\ InTurn

LEMMA FrameFacts ==
  ASSUME NEW q \in Seq(Frames)
  PROVE  /\ Len(q) \in Nat /\ DOMAIN q = 1 .. Len(q)
         /\ \A i \in 1 .. Len(q) : q[i] \in Frames /\ q[i].count \in Int /\ q[i].timestamp \in Int
<1>1. \A i \in 1 .. Len(q) : q[i] \in Frames
  OBVIOUS
<1>2. \A f \in Frames : f.count \in Int /\ f.timestamp \in Int
  BY DEF Frames
<1> QED
  BY <1>1, <1>2

LEMMA DueFacts ==
  ASSUME NEW d \in Seq(Dues)
  PROVE  /\ Len(d) \in Nat /\ DOMAIN d = 1 .. Len(d)
         /\ \A k \in 1 .. Len(d) : d[k] \in Dues /\ d[k].tick \in Int
<1>1. \A k \in 1 .. Len(d) : d[k] \in Dues
  OBVIOUS
<1>2. \A x \in Dues : x.tick \in Int
  BY DEF Dues
<1> QED
  BY <1>1, <1>2

\* Where the blocks end, how they follow each other, and that they cover all places.
LEMMA CutFacts ==
  ASSUME NEW q, NEW d, Len(q) \in Nat, Len(d) \in Nat, NEW h \in Nat, NEW c, Cut(q, d, h, c)
  PROVE  /\ c \in [0 .. Len(q) -> Nat] /\ c[0] = h /\ c[Len(q)] = Len(d)
         /\ \A i, j \in 0 .. Len(q) : i <= j => c[i] <= c[j]
         /\ \A i \in 0 .. Len(q) : c[i] \in Nat /\ h <= c[i] /\ c[i] <= Len(d)
<1>1. /\ c \in [0 .. Len(q) -> Nat] /\ c[0] = h /\ c[Len(q)] = Len(d)
      /\ \A i, j \in 0 .. Len(q) : i <= j => c[i] <= c[j]
  BY Zenon DEF Cut
<1>2. \A i \in 0 .. Len(q) : 0 \in 0 .. Len(q) /\ Len(q) \in 0 .. Len(q) /\ 0 <= i /\ i <= Len(q)
  OBVIOUS
<1>3. \A i \in 0 .. Len(q) : c[0] <= c[i] /\ c[i] <= c[Len(q)]
  BY <1>1, <1>2, Zenon
<1>4. \A i \in 0 .. Len(q) : c[i] \in Nat
  BY <1>1
<1> QED
  BY <1>1, <1>3, <1>4, Zenon

LEMMA PlacesOfBlock ==
  ASSUME NEW lo \in Nat, NEW hi \in Nat, NEW m \in Nat, hi <= m
  PROVE  \A k \in (lo + 1) .. hi : k \in 1 .. m
OBVIOUS

LEMMA FirstOfBlock ==
  ASSUME NEW lo \in Nat, NEW hi \in Nat, NEW w \in Int, w > 0, hi = lo + w
  PROVE  lo + 1 \in (lo + 1) .. hi
OBVIOUS

LEMMA InsideBlocks ==
  ASSUME NEW lo \in Nat, NEW hi \in Nat, NEW w \in Int, NEW m \in Nat, lo > 0, w > 0, hi = lo + w, hi <= m
  PROVE  lo \in 1 .. (m - 1) /\ (lo - 1) + 1 = lo
OBVIOUS

\* A new frame for a new tick is a block of its own.
LEMMA CutAppend ==
  ASSUME NEW q \in Seq(Frames), NEW d \in Seq(Dues), NEW h \in Nat, NEW c, Cut(q, d, h, c),
         NEW f \in Frames, f.count = 1, NEW x \in Dues, x.tex = f.tex, f.timestamp <= x.tick
  PROVE  \E b : Cut(Append(q, f), Append(d, x), h, b)
<1> DEFINE n == Len(q)
           m == Len(d)
           r == Append(q, f)
           e == Append(d, x)
           b == [i \in 0 .. (n + 1) |-> IF i <= n THEN c[i] ELSE m + 1]
<1>1. n \in Nat /\ m \in Nat
  OBVIOUS
<1>2. Len(r) = n + 1 /\ r[n + 1] = f /\ \A i \in 1 .. n : r[i] = q[i]
  BY AppendProperties
<1>3. Len(e) = m + 1 /\ e[m + 1] = x /\ \A k \in 1 .. m : e[k] = d[k]
  BY AppendProperties
<1>4. /\ c \in [0 .. n -> Nat] /\ c[0] = h /\ c[n] = m
      /\ \A i, j \in 0 .. n : i <= j => c[i] <= c[j]
      /\ \A i \in 0 .. n : c[i] \in Nat /\ h <= c[i] /\ c[i] <= m
  BY <1>1, CutFacts
<1>13. \A i \in 1 .. n : /\ q[i].count > 0 /\ c[i] = c[i - 1] + q[i].count
                         /\ \A k \in (c[i - 1] + 1) .. c[i] : d[k].tex = q[i].tex
                         /\ q[i].timestamp <= d[c[i - 1] + 1].tick
  BY Zenon DEF Cut
<1>14. \A k \in (h + 1) .. m : \E i \in 1 .. n : c[i - 1] < k /\ k <= c[i]
  BY Zenon DEF Cut
<1>5. \A i \in 1 .. n : q[i].count \in Int
  BY FrameFacts
<1> HIDE DEF n, m, r, e
<1>6. /\ b \in [0 .. (n + 1) -> Nat] /\ b[n + 1] = m + 1 /\ \A i \in 0 .. n : b[i] = c[i]
  BY <1>1, <1>4
<1> HIDE DEF b
<1>7. b[0] = h /\ b[Len(r)] = Len(e) /\ b \in [0 .. Len(r) -> Nat]
  BY <1>1, <1>2, <1>3, <1>4, <1>6
<1>9. ASSUME NEW i \in 0 .. Len(r), NEW j \in 0 .. Len(r), i <= j PROVE b[i] <= b[j]
  <2>1. CASE j = n + 1
    <3>1. b[j] = m + 1 /\ (i = n + 1 \/ i \in 0 .. n)
      BY <1>1, <1>2, <1>6, <2>1
    <3>2. b[i] = m + 1 \/ (b[i] \in Nat /\ b[i] <= m)
      BY <1>4, <1>6, <3>1
    <3> QED
      BY <1>1, <3>1, <3>2
  <2>2. CASE j # n + 1
    <3>1. i \in 0 .. n /\ j \in 0 .. n
      BY <1>1, <1>2, <1>9, <2>2
    <3>2. b[i] = c[i] /\ b[j] = c[j]
      BY <1>6, <3>1, Zenon
    <3> QED
      BY <1>4, <1>9, <3>1, <3>2, Zenon
  <2> QED
    BY <2>1, <2>2
<1>10. ASSUME NEW i \in 1 .. Len(r)
       PROVE  /\ r[i].count > 0 /\ b[i] = b[i - 1] + r[i].count
              /\ \A k \in (b[i - 1] + 1) .. b[i] : e[k].tex = r[i].tex
              /\ r[i].timestamp <= e[b[i - 1] + 1].tick
  <2>1. CASE i <= n
    <3>1. i \in 1 .. n /\ i - 1 \in 0 .. n /\ i \in 0 .. n
      BY <1>1, <1>2, <2>1
    <3>2. r[i] = q[i] /\ b[i] = c[i] /\ b[i - 1] = c[i - 1]
      BY <1>2, <1>6, <3>1
    <3>3. /\ q[i].count > 0 /\ c[i] = c[i - 1] + q[i].count
          /\ \A k \in (c[i - 1] + 1) .. c[i] : d[k].tex = q[i].tex
          /\ q[i].timestamp <= d[c[i - 1] + 1].tick
      BY <1>13, <3>1, Zenon
    <3>4. \A k \in (c[i - 1] + 1) .. c[i] : e[k] = d[k]
      BY <1>1, <1>3, <1>4, <3>1
    <3>5. c[i - 1] + 1 \in (c[i - 1] + 1) .. c[i]
      <4>1. c[i - 1] \in Nat /\ c[i] \in Nat /\ q[i].count \in Int
        BY <1>4, <1>5, <3>1
      <4>2. q[i].count > 0 /\ c[i] = c[i - 1] + q[i].count
        BY <3>3, Zenon
      <4> QED
        BY <4>1, <4>2, FirstOfBlock
    <3> QED
      BY <3>2, <3>3, <3>4, <3>5
  <2>2. CASE i = n + 1
    <3>1. r[i] = f /\ b[i] = m + 1 /\ b[i - 1] = m
      BY <1>1, <1>2, <1>4, <1>6, <2>2
    <3>2. \A k \in (m + 1) .. (m + 1) : k = m + 1
      BY <1>1
    <3> QED
      BY <1>1, <1>3, <3>1, <3>2
  <2> QED
    BY <1>1, <1>2, <2>1, <2>2
<1>11. ASSUME NEW k \in (h + 1) .. Len(e)
       PROVE  \E i \in 1 .. Len(r) : b[i - 1] < k /\ k <= b[i]
  <2>0. k \in Int /\ (k <= m \/ k = m + 1)
    BY <1>1, <1>3
  <2>1. CASE k <= m
    <3>0. k \in (h + 1) .. m
      BY <1>1, <1>3, <2>1
    <3>1. PICK i \in 1 .. n : c[i - 1] < k /\ k <= c[i]
      BY <1>14, <3>0, Zenon
    <3> QED
      BY <1>1, <1>2, <1>6, <3>1
  <2>2. CASE k = m + 1
    <3>1. n + 1 \in 1 .. Len(r) /\ b[(n + 1) - 1] = m /\ b[n + 1] = m + 1
      BY <1>1, <1>2, <1>4, <1>6
    <3> QED
      BY <1>1, <2>0, <2>2, <3>1
  <2> QED
    BY <2>0, <2>1, <2>2
<1>12. Cut(r, e, h, b)
  BY <1>7, <1>9, <1>10, <1>11 DEF Cut
<1> QED
  BY <1>12 DEF r, e

LEMMA SumOneMore ==
  ASSUME NEW a \in Nat, NEW w \in Int, NEW z, z = a + w
  PROVE  z + 1 = a + (w + 1)
OBVIOUS

\* The last frame stands for one more tick: its block grows.
LEMMA CutProlong ==
  ASSUME NEW q \in Seq(Frames), q # <<>>, NEW d \in Seq(Dues), NEW h \in Nat, NEW c, Cut(q, d, h, c),
         NEW f \in Frames, f.tex = q[Len(q)].tex, f.timestamp = q[Len(q)].timestamp,
         f.count = q[Len(q)].count + 1, NEW x \in Dues, x.tex = f.tex
  PROVE  \E b : Cut([q EXCEPT ![Len(q)] = f], Append(d, x), h, b)
<1> DEFINE n == Len(q)
           m == Len(d)
           r == [q EXCEPT ![n] = f]
           e == Append(d, x)
           b == [c EXCEPT ![n] = m + 1]
<1>1. n \in Nat \ {0} /\ m \in Nat
  OBVIOUS
<1>2. Len(r) = n /\ r[n] = f /\ \A i \in 1 .. (n - 1) : r[i] = q[i]
  BY <1>1, ExceptSeq
<1>3. Len(e) = m + 1 /\ e[m + 1] = x /\ \A k \in 1 .. m : e[k] = d[k]
  BY AppendProperties
<1>4. /\ c \in [0 .. n -> Nat] /\ c[0] = h /\ c[n] = m
      /\ \A i, j \in 0 .. n : i <= j => c[i] <= c[j]
      /\ \A i \in 0 .. n : c[i] \in Nat /\ h <= c[i] /\ c[i] <= m
  BY <1>1, CutFacts
<1>13. \A i \in 1 .. n : /\ q[i].count > 0 /\ c[i] = c[i - 1] + q[i].count
                         /\ \A k \in (c[i - 1] + 1) .. c[i] : d[k].tex = q[i].tex
                         /\ q[i].timestamp <= d[c[i - 1] + 1].tick
  BY Zenon DEF Cut
<1>14. \A k \in (h + 1) .. m : \E i \in 1 .. n : c[i - 1] < k /\ k <= c[i]
  BY Zenon DEF Cut
<1>5. \A i \in 1 .. n : q[i].count \in Int
  BY FrameFacts
<1>0. f.tex = q[n].tex /\ f.timestamp = q[n].timestamp /\ f.count = q[n].count + 1
  OBVIOUS
<1> HIDE DEF n, m, r, e
<1>6. /\ b \in [0 .. n -> Nat] /\ b[n] = m + 1 /\ \A i \in 0 .. (n - 1) : b[i] = c[i]
  BY <1>1, <1>4
<1> HIDE DEF b
<1>7. b[0] = h /\ b[Len(r)] = Len(e) /\ b \in [0 .. Len(r) -> Nat]
  BY <1>1, <1>2, <1>3, <1>4, <1>6
<1>9. ASSUME NEW i \in 0 .. Len(r), NEW j \in 0 .. Len(r), i <= j PROVE b[i] <= b[j]
  <2>1. CASE j = n
    <3>1. b[j] = m + 1 /\ (b[i] = m + 1 \/ b[i] = c[i]) /\ c[i] \in Nat /\ c[i] <= m
      BY <1>1, <1>2, <1>4, <1>6, <2>1
    <3> QED
      BY <1>1, <3>1
  <2>2. CASE j # n
    <3>1. b[i] = c[i] /\ b[j] = c[j] /\ i \in 0 .. n /\ j \in 0 .. n
      BY <1>1, <1>2, <1>6, <1>9, <2>2
    <3> QED
      BY <1>4, <1>9, <3>1, Zenon
  <2> QED
    BY <2>1, <2>2
<1>10. ASSUME NEW i \in 1 .. Len(r)
       PROVE  /\ r[i].count > 0 /\ b[i] = b[i - 1] + r[i].count
              /\ \A k \in (b[i - 1] + 1) .. b[i] : e[k].tex = r[i].tex
              /\ r[i].timestamp <= e[b[i - 1] + 1].tick
  <2>0. i \in 1 .. n /\ i - 1 \in 0 .. (n - 1) /\ b[i - 1] = c[i - 1]
    BY <1>1, <1>2, <1>6
  <2>6. /\ i \in 0 .. n /\ i - 1 \in 0 .. n /\ q[i].count \in Int
        /\ c[i - 1] \in Nat /\ c[i] \in Nat /\ c[i] <= m
    BY <1>1, <1>4, <1>5, <2>0
  <2>1. /\ q[i].count > 0 /\ c[i] = c[i - 1] + q[i].count
        /\ \A k \in (c[i - 1] + 1) .. c[i] : d[k].tex = q[i].tex
        /\ q[i].timestamp <= d[c[i - 1] + 1].tick
    BY <1>13, <2>0, Zenon
  <2>7. q[i].count > 0 /\ c[i] = c[i - 1] + q[i].count
    BY <2>1, Zenon
  <2>2. \A k \in (c[i - 1] + 1) .. c[i] : e[k] = d[k]
    BY <1>1, <1>3, <2>6, PlacesOfBlock, Zenon
  <2>3. c[i - 1] + 1 \in (c[i - 1] + 1) .. c[i]
    BY <2>6, <2>7, FirstOfBlock
  <2>4. CASE i < n
    <3>1. r[i] = q[i] /\ b[i] = c[i]
      BY <1>1, <1>2, <1>6, <2>0, <2>4
    <3> QED
      BY <2>0, <2>1, <2>2, <2>3, <3>1
  <2>5. CASE i = n
    <3>1. r[i] = f /\ b[i] = c[i] + 1 /\ c[i] = m /\ i - 1 \in 0 .. n
      BY <1>1, <1>2, <1>4, <1>6, <2>5
    <3>2. \A k \in (c[i - 1] + 1) .. (c[i] + 1) : k \in (c[i - 1] + 1) .. c[i] \/ k = m + 1
      BY <1>1, <1>4, <3>1
    <3>3. \A k \in (c[i - 1] + 1) .. (c[i] + 1) : e[k].tex = f.tex
      BY <1>0, <1>3, <2>1, <2>2, <2>5, <3>2
    <3>4. f.timestamp <= e[c[i - 1] + 1].tick
      BY <1>0, <2>1, <2>2, <2>3, <2>5
    <3>5. f.count > 0 /\ c[i] + 1 = c[i - 1] + f.count
      <4>1. f.count = q[i].count + 1
        BY <1>0, <2>5, Zenon
      <4>2. q[i].count + 1 > 0 /\ c[i] + 1 = c[i - 1] + (q[i].count + 1)
        <5>1. q[i].count \in Int /\ c[i - 1] \in Nat /\ c[i] \in Nat
          BY <2>6, Zenon
        <5>2. q[i].count + 1 > 0
          BY <2>7, <5>1
        <5>3. c[i] + 1 = c[i - 1] + (q[i].count + 1)
          BY <2>7, <5>1, SumOneMore, Zenon
        <5> QED
          BY <5>2, <5>3
      <4> QED
        BY <4>1, <4>2, Zenon
    <3> QED
      BY <2>0, <3>1, <3>3, <3>4, <3>5
  <2> QED
    BY <1>1, <2>0, <2>4, <2>5
<1>11. ASSUME NEW k \in (h + 1) .. Len(e)
       PROVE  \E i \in 1 .. Len(r) : b[i - 1] < k /\ k <= b[i]
  <2>0. k \in Int /\ (k <= m \/ k = m + 1)
    BY <1>1, <1>3
  <2>1. CASE k <= m
    <3>0. k \in (h + 1) .. m
      BY <1>1, <1>3, <2>1
    <3>1. PICK i \in 1 .. n : c[i - 1] < k /\ k <= c[i]
      BY <1>14, <3>0, Zenon
    <3>2. i \in 1 .. Len(r) /\ i \in 0 .. n /\ i - 1 \in 0 .. (n - 1)
      BY <1>1, <1>2
    <3>3. b[i - 1] = c[i - 1] /\ c[i] \in Nat /\ c[i] <= m
      BY <1>4, <1>6, <3>2, Zenon
    <3>4. b[i] = c[i] \/ b[i] = m + 1
      BY <1>1, <1>6, <3>2
    <3>5. k <= b[i]
      BY <1>1, <2>0, <3>1, <3>3, <3>4
    <3> QED
      BY <3>1, <3>2, <3>3, <3>5
  <2>2. CASE k = m + 1
    <3>1. n \in 1 .. Len(r) /\ b[n - 1] = c[n - 1] /\ c[n - 1] <= m /\ c[n - 1] \in Nat /\ b[n] = m + 1
      BY <1>1, <1>2, <1>6, <1>4
    <3> QED
      BY <1>1, <2>0, <2>2, <3>1
  <2> QED
    BY <2>0, <2>1, <2>2
<1>12. Cut(r, e, h, b)
  BY <1>7, <1>9, <1>10, <1>11 DEF Cut
<1> QED
  BY <1>12 DEF r, e, n
LEMMA TailPlaces ==
  ASSUME NEW S, NEW s \in Seq(S), s # <<>>
  PROVE  /\ Tail(s) \in Seq(S) /\ Len(s) \in Nat \ {0} /\ Len(Tail(s)) = Len(s) - 1
         /\ \A i \in 1 .. (Len(s) - 1) : Tail(s)[i] = s[i + 1]
OBVIOUS

LEMMA ShiftedPlaces ==
  ASSUME NEW lo \in Nat, NEW hi \in Nat, NEW m \in Nat, lo > 0, hi <= m
  PROVE  \A k \in ((lo - 1) + 1) .. (hi - 1) : k \in 1 .. (m - 1) /\ k + 1 \in (lo + 1) .. hi
OBVIOUS

\* The frame that is taken takes its first tick along: the others are in hand.
LEMMA CutPop ==
  ASSUME NEW q \in Seq(Frames), q # <<>>, NEW d \in Seq(Dues), NEW c, Cut(q, d, 0, c)
  PROVE  /\ q[1].count > 0 /\ q[1].count <= Len(d) /\ q[1].timestamp <= d[1].tick
         /\ \A k \in 1 .. q[1].count : d[k].tex = q[1].tex
         /\ \E b : Cut(Tail(q), Tail(d), q[1].count - 1, b)
<1> DEFINE n == Len(q)
           m == Len(d)
           r == Tail(q)
           e == Tail(d)
           h == q[1].count - 1
           b == [i \in 0 .. (n - 1) |-> c[i + 1] - 1]
<1>1. n \in Nat \ {0} /\ m \in Nat /\ 0 \in Nat
  OBVIOUS
<1>4. /\ c \in [0 .. n -> Nat] /\ c[0] = 0 /\ c[n] = m
      /\ \A i, j \in 0 .. n : i <= j => c[i] <= c[j]
      /\ \A i \in 0 .. n : c[i] \in Nat /\ 0 <= c[i] /\ c[i] <= m
  BY <1>1, CutFacts
<1>13. \A i \in 1 .. n : /\ q[i].count > 0 /\ c[i] = c[i - 1] + q[i].count
                         /\ \A k \in (c[i - 1] + 1) .. c[i] : d[k].tex = q[i].tex
                         /\ q[i].timestamp <= d[c[i - 1] + 1].tick
  BY Zenon DEF Cut
<1>14. \A k \in (0 + 1) .. m : \E i \in 1 .. n : c[i - 1] < k /\ k <= c[i]
  BY Zenon DEF Cut
<1>5. \A i \in 1 .. n : q[i].count \in Int
  BY FrameFacts
<1>2. Len(r) = n - 1 /\ \A i \in 1 .. (n - 1) : r[i] = q[i + 1]
  BY TailPlaces
<1>7. /\ 1 \in 1 .. n /\ 1 - 1 = 0 /\ 0 + 1 = 1 /\ 1 \in 0 .. n /\ q[1].count \in Int
  BY <1>1, <1>5
<1>6. /\ q[1].count > 0 /\ c[1] = 0 + q[1].count
      /\ \A k \in 1 .. c[1] : d[k].tex = q[1].tex
      /\ q[1].timestamp <= d[1].tick
  <2>1. /\ q[1].count > 0 /\ c[1] = c[1 - 1] + q[1].count
        /\ \A k \in (c[1 - 1] + 1) .. c[1] : d[k].tex = q[1].tex
        /\ q[1].timestamp <= d[c[1 - 1] + 1].tick
    BY <1>7, <1>13, Zenon
  <2>2. c[1 - 1] = 0 /\ c[1 - 1] + 1 = 1
    BY <1>4, <1>7
  <2> QED
    BY <2>1, <2>2
<1>8. c[1] = q[1].count /\ c[1] <= m /\ c[1] \in Nat /\ c[1] > 0 /\ h \in Nat /\ c[1] = h + 1
  BY <1>4, <1>6, <1>7
<1>3. Len(e) = m - 1 /\ \A k \in 1 .. (m - 1) : e[k] = d[k + 1]
  <2>1. d # <<>>
    BY <1>8
  <2> QED
    BY <2>1, TailPlaces
<1> HIDE DEF n, m, r, e, h
<1>9. \A i \in 0 .. (n - 1) : i + 1 \in 0 .. n /\ c[i + 1] \in Nat /\ c[i + 1] >= c[1]
  BY <1>1, <1>4
<1>10. /\ b \in [0 .. (n - 1) -> Nat] /\ \A i \in 0 .. (n - 1) : b[i] = c[i + 1] - 1
  BY <1>1, <1>8, <1>9
<1> HIDE DEF b
<1>11. b[0] = h /\ b[Len(r)] = Len(e) /\ b \in [0 .. Len(r) -> Nat]
  <2>1. b[0] = c[1] - 1
    BY <1>1, <1>10
  <2>2. b[n - 1] = c[n] - 1
    BY <1>1, <1>10
  <2> QED
    BY <1>1, <1>2, <1>3, <1>4, <1>8, <1>10, <2>1, <2>2
<1>12. ASSUME NEW i \in 0 .. Len(r), NEW j \in 0 .. Len(r), i <= j PROVE b[i] <= b[j]
  <2>1. /\ i + 1 \in 0 .. n /\ j + 1 \in 0 .. n /\ i + 1 <= j + 1
        /\ b[i] = c[i + 1] - 1 /\ b[j] = c[j + 1] - 1
        /\ c[i + 1] \in Nat /\ c[j + 1] \in Nat
    BY <1>1, <1>2, <1>9, <1>10, <1>12
  <2>2. c[i + 1] <= c[j + 1]
    BY <1>4, <2>1, Zenon
  <2> QED
    BY <2>1, <2>2
<1>15. ASSUME NEW i \in 1 .. Len(r)
       PROVE  /\ r[i].count > 0 /\ b[i] = b[i - 1] + r[i].count
              /\ \A k \in (b[i - 1] + 1) .. b[i] : e[k].tex = r[i].tex
              /\ r[i].timestamp <= e[b[i - 1] + 1].tick
  <2>1. /\ i \in 1 .. (n - 1) /\ i \in 0 .. (n - 1) /\ i - 1 \in 0 .. (n - 1)
        /\ i + 1 \in 1 .. n /\ i + 1 \in 0 .. n /\ i \in 0 .. n /\ (i - 1) + 1 = i /\ (i + 1) - 1 = i
    BY <1>1, <1>2
  <2>2. r[i] = q[i + 1] /\ b[i] = c[i + 1] - 1 /\ b[i - 1] = c[i] - 1
    BY <1>2, <1>10, <2>1
  <2>3. /\ q[i + 1].count > 0 /\ c[i + 1] = c[i] + q[i + 1].count
        /\ \A k \in (c[i] + 1) .. c[i + 1] : d[k].tex = q[i + 1].tex
        /\ q[i + 1].timestamp <= d[c[i] + 1].tick
    BY <1>13, <2>1, Zenon
  <2>4. /\ c[i] \in Nat /\ c[i + 1] \in Nat /\ c[i + 1] <= m /\ c[1] <= c[i] /\ q[i + 1].count \in Int
    BY <1>4, <1>5, <1>7, <1>9, <2>1
  <2>5. c[i] > 0
    BY <1>8, <2>4
  <2>6. q[i + 1].count > 0 /\ c[i + 1] = c[i] + q[i + 1].count
    BY <2>3, Zenon
  <2>7. r[i].count > 0 /\ b[i] = b[i - 1] + r[i].count
    BY <2>2, <2>4, <2>6
  <2>8. \A k \in (b[i - 1] + 1) .. b[i] :
            k \in 1 .. (m - 1) /\ k + 1 \in (c[i] + 1) .. c[i + 1]
    <3>1. \A k \in ((c[i] - 1) + 1) .. (c[i + 1] - 1) :
              k \in 1 .. (m - 1) /\ k + 1 \in (c[i] + 1) .. c[i + 1]
      BY <1>1, <2>4, <2>5, ShiftedPlaces, Zenon
    <3> QED
      BY <2>2, <3>1, Zenon
  <2>9. \A k \in (b[i - 1] + 1) .. b[i] : e[k].tex = r[i].tex
    <3>1. ASSUME NEW k \in (b[i - 1] + 1) .. b[i] PROVE e[k].tex = r[i].tex
      <4>1. e[k] = d[k + 1]
        BY <1>3, <2>8, Zenon
      <4>2. d[k + 1].tex = q[i + 1].tex
        BY <2>3, <2>8, Zenon
      <4> QED
        BY <2>2, <4>1, <4>2
    <3> QED
      BY <3>1
  <2>10. r[i].timestamp <= e[b[i - 1] + 1].tick
    <3>1. c[i] \in 1 .. (m - 1) /\ (c[i] - 1) + 1 = c[i]
      BY <1>1, <2>4, <2>5, <2>6, InsideBlocks
    <3>2. b[i - 1] + 1 = c[i]
      BY <2>2, <3>1, Zenon
    <3> QED
      BY <1>3, <2>2, <2>3, <3>1, <3>2, Zenon
  <2> QED
    BY <2>7, <2>9, <2>10
<1>16. ASSUME NEW k \in (h + 1) .. Len(e)
       PROVE  \E i \in 1 .. Len(r) : b[i - 1] < k /\ k <= b[i]
  <2>1. k + 1 \in (0 + 1) .. m /\ k \in Nat /\ k >= c[1]
    BY <1>1, <1>3, <1>8
  <2>2. PICK j \in 1 .. n : c[j - 1] < k + 1 /\ k + 1 <= c[j]
    BY <1>14, <2>1
  <2>3. j # 1
    BY <1>8, <2>1, <2>2
  <2> DEFINE i == j - 1
  <2>4. i \in 1 .. Len(r) /\ i \in 0 .. (n - 1) /\ i - 1 \in 0 .. (n - 1) /\ i + 1 = j /\ (i - 1) + 1 = i
    BY <1>1, <1>2, <2>3
  <2>5. b[i] = c[j] - 1 /\ b[i - 1] = c[i] - 1 /\ c[j] \in Nat /\ c[i] \in Nat /\ c[i] < k + 1
    BY <1>9, <1>10, <2>2, <2>4
  <2> HIDE DEF i
  <2>6. b[i - 1] < k /\ k <= b[i]
    BY <2>1, <2>2, <2>5
  <2> QED
    BY <2>4, <2>6
<1>17. Cut(r, e, h, b)
  BY <1>11, <1>12, <1>15, <1>16 DEF Cut
<1> QED
  BY <1>6, <1>8, <1>17 DEF r, e, h, m
LEMMA PutBackPlaces ==
  ASSUME NEW q \in Seq(Frames), NEW f \in Frames
  PROVE  /\ <<f>> \o q \in Seq(Frames) /\ Len(<<f>> \o q) = Len(q) + 1 /\ (<<f>> \o q)[1] = f
         /\ \A i \in 1 .. Len(q) : (<<f>> \o q)[i + 1] = q[i]
<1>1. /\ <<f>> \in Seq(Frames) /\ Len(<<f>>) = 1 /\ <<f>>[1] = f /\ Len(q) \in Nat
  OBVIOUS
<1>2. /\ <<f>> \o q \in Seq(Frames) /\ Len(<<f>> \o q) = 1 + Len(q)
      /\ \A i \in 1 .. (1 + Len(q)) :
             (<<f>> \o q)[i] = IF i <= 1 THEN <<f>>[i] ELSE q[i - 1]
  BY <1>1, ConcatProperties
<1>3. \A i \in 1 .. Len(q) : i + 1 \in 1 .. (1 + Len(q)) /\ ~(i + 1 <= 1) /\ (i + 1) - 1 = i
  BY <1>1
<1> QED
  BY <1>1, <1>2, <1>3

\* The frame that is put back is a block of the ticks in hand.
LEMMA CutPutBack ==
  ASSUME NEW q \in Seq(Frames), NEW d \in Seq(Dues), NEW f \in Frames, f.count > 0, NEW c,
         Cut(q, d, f.count, c), \A k \in 1 .. f.count : d[k].tex = f.tex, f.timestamp <= d[1].tick
  PROVE  \E b : Cut(<<f>> \o q, d, 0, b)
<1> DEFINE n == Len(q)
           m == Len(d)
           r == <<f>> \o q
           h == f.count
           b == [i \in 0 .. (n + 1) |-> IF i = 0 THEN 0 ELSE c[i - 1]]
<1>1. n \in Nat /\ m \in Nat
  OBVIOUS
<1>0. h \in Nat /\ h > 0 /\ (\A k \in 1 .. h : d[k].tex = f.tex) /\ f.timestamp <= d[1].tick
  BY DEF Frames
<1>4. /\ c \in [0 .. n -> Nat] /\ c[0] = h /\ c[n] = m
      /\ \A i, j \in 0 .. n : i <= j => c[i] <= c[j]
      /\ \A i \in 0 .. n : c[i] \in Nat /\ h <= c[i] /\ c[i] <= m
  BY <1>0, <1>1, CutFacts
<1>13. \A i \in 1 .. n : /\ q[i].count > 0 /\ c[i] = c[i - 1] + q[i].count
                         /\ \A k \in (c[i - 1] + 1) .. c[i] : d[k].tex = q[i].tex
                         /\ q[i].timestamp <= d[c[i - 1] + 1].tick
  BY Zenon DEF Cut
<1>14. \A k \in (h + 1) .. m : \E i \in 1 .. n : c[i - 1] < k /\ k <= c[i]
  BY Zenon DEF Cut
<1>2. Len(r) = n + 1 /\ r[1] = f /\ \A i \in 1 .. n : r[i + 1] = q[i]
  BY PutBackPlaces
<1>3. f.count = h
  OBVIOUS
<1> HIDE DEF n, m, r, h
<1>6. /\ b \in [0 .. (n + 1) -> Nat] /\ b[0] = 0 /\ \A i \in 0 .. n : b[i + 1] = c[i]
  <2>1. \A i \in 0 .. n : i + 1 \in 0 .. (n + 1) /\ i + 1 # 0 /\ (i + 1) - 1 = i
    BY <1>1
  <2>2. \A i \in 0 .. (n + 1) : i = 0 \/ i - 1 \in 0 .. n
    BY <1>1
  <2> QED
    BY <1>1, <1>4, <2>1, <2>2
<1> HIDE DEF b
<1>7. b[0] = 0 /\ b[Len(r)] = m /\ b \in [0 .. Len(r) -> Nat]
  BY <1>1, <1>2, <1>4, <1>6
<1>9. ASSUME NEW i \in 0 .. Len(r), NEW j \in 0 .. Len(r), i <= j PROVE b[i] <= b[j]
  <2>1. CASE i = 0
    BY <1>1, <1>2, <1>6, <2>1
  <2>2. CASE i # 0
    <3>1. /\ i - 1 \in 0 .. n /\ j - 1 \in 0 .. n /\ i - 1 <= j - 1
          /\ (i - 1) + 1 = i /\ (j - 1) + 1 = j
      BY <1>1, <1>2, <1>9, <2>2
    <3>2. b[i] = c[i - 1] /\ b[j] = c[j - 1]
      BY <1>6, <3>1, Zenon
    <3> QED
      BY <1>4, <3>1, <3>2, Zenon
  <2> QED
    BY <2>1, <2>2
<1>10. ASSUME NEW i \in 1 .. Len(r)
       PROVE  /\ r[i].count > 0 /\ b[i] = b[i - 1] + r[i].count
              /\ \A k \in (b[i - 1] + 1) .. b[i] : d[k].tex = r[i].tex
              /\ r[i].timestamp <= d[b[i - 1] + 1].tick
  <2>1. CASE i = 1
    <3>1. 0 \in 0 .. n /\ 0 + 1 = 1 /\ 1 - 1 = 0 /\ h = 0 + h
      BY <1>0, <1>1
    <3>2. b[1] = h /\ b[0] = 0 /\ r[1] = f
      BY <1>2, <1>4, <1>6, <3>1, Zenon
    <3> QED
      BY <1>0, <1>3, <2>1, <3>1, <3>2
  <2>2. CASE i # 1
    <3> DEFINE j == i - 1
    <3>1. /\ j \in 1 .. n /\ j - 1 \in 0 .. n /\ j \in 0 .. n
          /\ j + 1 = i /\ (j - 1) + 1 = j /\ i - 1 = j
      BY <1>1, <1>2, <2>2
    <3> HIDE DEF j
    <3>2. r[i] = q[j] /\ b[i] = c[j] /\ b[j] = c[j - 1]
      BY <1>2, <1>6, <3>1, Zenon
    <3>3. /\ q[j].count > 0 /\ c[j] = c[j - 1] + q[j].count
          /\ \A k \in (c[j - 1] + 1) .. c[j] : d[k].tex = q[j].tex
          /\ q[j].timestamp <= d[c[j - 1] + 1].tick
      BY <1>13, <3>1, Zenon
    <3> QED
      BY <3>1, <3>2, <3>3
  <2> QED
    BY <2>1, <2>2
<1>11. ASSUME NEW k \in (0 + 1) .. m
       PROVE  \E i \in 1 .. Len(r) : b[i - 1] < k /\ k <= b[i]
  <2>1. CASE k <= h
    <3>1. 1 \in 1 .. Len(r) /\ 0 \in 0 .. n /\ 0 + 1 = 1 /\ 1 - 1 = 0 /\ 0 < k
      BY <1>1, <1>2
    <3>2. b[1] = h /\ b[0] = 0
      BY <1>4, <1>6, <3>1, Zenon
    <3> QED
      BY <2>1, <3>1, <3>2
  <2>2. CASE ~(k <= h)
    <3>1. k \in (h + 1) .. m
      BY <1>0, <1>1, <2>2
    <3>2. PICK j \in 1 .. n : c[j - 1] < k /\ k <= c[j]
      BY <1>14, <3>1
    <3>3. /\ j \in 0 .. n /\ j - 1 \in 0 .. n /\ (j - 1) + 1 = j
          /\ j + 1 \in 1 .. Len(r) /\ (j + 1) - 1 = j
      BY <1>1, <1>2
    <3>4. b[j + 1] = c[j] /\ b[j] = c[j - 1]
      BY <1>6, <3>3, Zenon
    <3> QED
      BY <3>2, <3>3, <3>4
  <2> QED
    BY <2>1, <2>2
<1>12. Cut(r, d, 0, b)
  BY <1>7, <1>9, <1>10, <1>11 DEF Cut, m
<1> QED
  BY <1>12 DEF r

LEMMA BlockSize ==
  ASSUME NEW lo \in Nat, NEW hi \in Nat, NEW w \in Int, w > 0, hi = lo + w
  PROVE  Cardinality((lo + 1) .. hi) = w
<1>1. lo + 1 \in Int /\ hi \in Int /\ ~(lo + 1 > hi) /\ hi - (lo + 1) + 1 = w
  OBVIOUS
<1> QED
  BY <1>1, FS_Interval

\* With none in hand, the places of a texture's ticks are the block of its frame.
LEMMA CutCount ==
  ASSUME NEW q \in Seq(Frames), NEW d \in Seq(Dues), NEW c, Cut(q, d, 0, c),
         \A i, j \in DOMAIN q : q[i].tex = q[j].tex => i = j
  PROVE  /\ \A i \in DOMAIN q : Cardinality({k \in DOMAIN d : d[k].tex = q[i].tex}) = q[i].count
         /\ \A k \in DOMAIN d : \E i \in DOMAIN q : d[k].tex = q[i].tex
<1> DEFINE n == Len(q)
           m == Len(d)
<1>1. n \in Nat /\ m \in Nat /\ DOMAIN q = 1 .. n /\ DOMAIN d = 1 .. m /\ 0 \in Nat
  OBVIOUS
<1>2. \A i, j \in DOMAIN q : q[i].tex = q[j].tex => i = j
  OBVIOUS
<1>4. /\ c[0] = 0 /\ c[n] = m
      /\ \A i \in 0 .. n : c[i] \in Nat /\ c[i] <= m
  BY <1>1, CutFacts
<1>13. \A i \in 1 .. n : /\ q[i].count > 0 /\ c[i] = c[i - 1] + q[i].count
                         /\ \A k \in (c[i - 1] + 1) .. c[i] : d[k].tex = q[i].tex
                         /\ q[i].timestamp <= d[c[i - 1] + 1].tick
  BY Zenon DEF Cut
<1>14. \A k \in (0 + 1) .. m : \E i \in 1 .. n : c[i - 1] < k /\ k <= c[i]
  BY Zenon DEF Cut
<1>5. \A i \in 1 .. n : q[i].count \in Int
  BY FrameFacts
<1> HIDE DEF n, m
<1>6. ASSUME NEW k \in 1 .. m
      PROVE  \E i \in 1 .. n : /\ k \in (c[i - 1] + 1) .. c[i]
                               /\ d[k].tex = q[i].tex
  <2>1. k \in (0 + 1) .. m
    BY <1>1
  <2>2. PICK i \in 1 .. n : c[i - 1] < k /\ k <= c[i]
    BY <1>14, <2>1, Zenon
  <2>3. c[i - 1] \in Nat /\ c[i] \in Nat
    BY <1>1, <1>4
  <2>4. k \in (c[i - 1] + 1) .. c[i]
    BY <2>2, <2>3
  <2> QED
    BY <1>13, <2>4, Zenon
<1>7. ASSUME NEW i \in 1 .. n
      PROVE  Cardinality({k \in DOMAIN d : d[k].tex = q[i].tex}) = q[i].count
  <2>1. c[i - 1] \in Nat /\ c[i] \in Nat /\ c[i] <= m /\ q[i].count \in Int
    BY <1>1, <1>4, <1>5
  <2>2. q[i].count > 0 /\ c[i] = c[i - 1] + q[i].count
    BY <1>13, Zenon
  <2>3. \A k \in (c[i - 1] + 1) .. c[i] : k \in DOMAIN d /\ d[k].tex = q[i].tex
    <3>1. \A k \in (c[i - 1] + 1) .. c[i] : k \in 1 .. m
      BY <1>1, <2>1, PlacesOfBlock, Zenon
    <3>2. \A k \in (c[i - 1] + 1) .. c[i] : d[k].tex = q[i].tex
      BY <1>13, Zenon
    <3> QED
      BY <1>1, <3>1, <3>2
  <2>4. ASSUME NEW k \in DOMAIN d, d[k].tex = q[i].tex PROVE k \in (c[i - 1] + 1) .. c[i]
    <3>1. PICK j \in 1 .. n : k \in (c[j - 1] + 1) .. c[j] /\ d[k].tex = q[j].tex
      BY <1>1, <1>6
    <3>2. i = j
      BY <1>1, <1>2, <2>4, <3>1
    <3> QED
      BY <3>1, <3>2
  <2>5. {k \in DOMAIN d : d[k].tex = q[i].tex} = (c[i - 1] + 1) .. c[i]
    BY <2>3, <2>4
  <2>6. Cardinality((c[i - 1] + 1) .. c[i]) = q[i].count
    BY <2>1, <2>2, BlockSize, Zenon
  <2> QED
    BY <2>5, <2>6
<1> QED
  BY <1>1, <1>6, <1>7
LEMMA NothingCut == \E c : Cut(<<>>, <<>>, 0, c)
<1> DEFINE c == [i \in 0 .. 0 |-> 0]
<1>1. Len(<<>>) = 0 /\ \A i : i \notin 1 .. 0
  OBVIOUS
<1>2. c \in [0 .. 0 -> Nat] /\ c[0] = 0 /\ \A i \in 0 .. 0 : c[i] = 0
  OBVIOUS
<1> HIDE DEF c
<1>3. Cut(<<>>, <<>>, 0, c)
  BY <1>1, <1>2 DEF Cut
<1> QED
  BY <1>3

LEMMA TickInit == Init => TickInv
<1> SUFFICES ASSUME Init PROVE TickInv
  OBVIOUS
<1> USE DEF Init
<1>1. Accounted
  BY DEF Accounted, Running, Woken
<1>2. InHand = 0 /\ Taken
  BY DEF Taken, InHand
<1>3. Blocks
  BY <1>2, NothingCut DEF Blocks
<1>4. InTurn
  BY DEF InTurn
<1> QED
  BY <1>1, <1>2, <1>3, <1>4 DEF TickInv

-----------------------------------------------------------------------------
(* The order in which ticks are queued.                                    *)

\* Ticks may be taken from the front; what is to be queued does not change.
LEMMA InTurnKept ==
  ASSUME InTurn, due \in Seq(Dues), UNCHANGED <<graphics, vframes, vframe, tick>>,
         due' = due \/ due' = <<>> \/ (due # <<>> /\ due' = Tail(due))
  PROVE  InTurn'
<1>1. CASE due' = due
  BY <1>1 DEF InTurn
<1>2. CASE due' = <<>>
  BY <1>2 DEF InTurn
<1>3. CASE due # <<>> /\ due' = Tail(due)
  <2>1. \A k \in DOMAIN due' : k \in Int /\ k + 1 \in DOMAIN due /\ due'[k] = due[k + 1]
    BY <1>3
  <2>2. \A j, k \in DOMAIN due' : j < k => due'[j].tick < due'[k].tick
    <3> SUFFICES ASSUME NEW j \in DOMAIN due', NEW k \in DOMAIN due', j < k
                 PROVE  due'[j].tick < due'[k].tick
      OBVIOUS
    <3>1. /\ j + 1 \in DOMAIN due /\ k + 1 \in DOMAIN due /\ j + 1 < k + 1
          /\ due'[j] = due[j + 1] /\ due'[k] = due[k + 1]
      BY <2>1
    <3> QED
      BY <3>1 DEF InTurn
  <2>3. \A k \in DOMAIN due' :
            /\ due'[k].tick < tick
            /\ \A i \in DOMAIN vframes : due'[k].tick < vframes[i].timestamp
            /\ graphics = "queue" =>
                  due'[k].tick < vframe.timestamp + vframe.count - vframe.left
    BY <2>1 DEF InTurn
  <2> QED
    BY <2>2, <2>3 DEF InTurn
<1> QED
  BY <1>1, <1>2, <1>3

LEMMA PictureFacts ==
  ASSUME NEW p \in Pictures
  PROVE  p.timestamp \in Int /\ p.count \in Int /\ p.left \in Int
BY DEF Pictures

LEMMA InTurnTurn ==
  ASSUME Typed, InTurn, due \in Seq(Dues), NEW c \in 1 .. MaxCount, Turn(c)
  PROVE  InTurn'
<1>1. graphics' # "queue" /\ due' = due
  BY DEF Turn
<1>2. \A k \in DOMAIN due : due[k].tick \in Int /\ due[k].tick < tick
  BY DueFacts DEF InTurn
<1>3. tick \in Int /\ c \in Int /\ c > 0 /\ vframes \in Seq(Pictures)
  BY GpuEncodeAssumption DEF Typed
<1>4. CASE ~gpuActive
  <2>1. vframes' = <<>> /\ tick' = tick
    BY <1>4 DEF Turn
  <2> QED
    BY <1>1, <2>1 DEF InTurn
<1>5. CASE gpuActive
  <2> DEFINE p == [timestamp |-> tick, count |-> c, left |-> c]
  <2>1. vframes' = Append(vframes, p) /\ tick' = tick + c
    BY <1>5 DEF Turn
  <2>2. p.timestamp = tick /\ p.count = c /\ p.left = c
    OBVIOUS
  <2> HIDE DEF p
  <2>3. \A i \in DOMAIN vframes : vframes[i] \in Pictures
    BY <1>3
  <2>4. \A i \in DOMAIN vframes :
            /\ vframes[i].timestamp \in Int /\ vframes[i].count \in Int /\ vframes[i].left \in Int
            /\ vframes[i].timestamp + vframes[i].count <= tick
    BY <2>3, PictureFacts DEF InTurn
  <2>5. /\ \A i \in DOMAIN vframes' :
               \/ i \in DOMAIN vframes /\ vframes'[i] = vframes[i]
               \/ i = Len(vframes) + 1 /\ vframes'[i] = p
        /\ DOMAIN vframes = 1 .. Len(vframes) /\ DOMAIN vframes' = 1 .. (Len(vframes) + 1)
        /\ Len(vframes) \in Nat
    BY <1>3, <2>1
  <2>6. \A k \in DOMAIN due :
            /\ due[k].tick < tick'
            /\ \A i \in DOMAIN vframes' : due[k].tick < vframes'[i].timestamp
    <3> SUFFICES ASSUME NEW k \in DOMAIN due
                 PROVE  /\ due[k].tick < tick'
                        /\ \A i \in DOMAIN vframes' : due[k].tick < vframes'[i].timestamp
      OBVIOUS
    <3>1. due[k].tick < tick'
      BY <1>2, <1>3, <2>1
    <3>2. ASSUME NEW i \in DOMAIN vframes' PROVE due[k].tick < vframes'[i].timestamp
      <4>1. CASE i \in DOMAIN vframes /\ vframes'[i] = vframes[i]
        BY <4>1 DEF InTurn
      <4>2. CASE vframes'[i] = p
        BY <1>2, <2>2, <4>2
      <4> QED
        BY <2>5, <4>1, <4>2
    <3> QED
      BY <3>1, <3>2
  <2>7. \A i \in DOMAIN vframes' :
            /\ vframes'[i].left = vframes'[i].count /\ vframes'[i].left > 0
            /\ vframes'[i].timestamp + vframes'[i].count <= tick'
    <3> SUFFICES ASSUME NEW i \in DOMAIN vframes'
                 PROVE  /\ vframes'[i].left = vframes'[i].count /\ vframes'[i].left > 0
                        /\ vframes'[i].timestamp + vframes'[i].count <= tick'
      OBVIOUS
    <3>1. CASE i \in DOMAIN vframes /\ vframes'[i] = vframes[i]
      <4>1. vframes[i].left = vframes[i].count /\ vframes[i].left > 0
        BY <3>1 DEF InTurn
      <4>2. /\ vframes[i].timestamp \in Int /\ vframes[i].count \in Int
            /\ vframes[i].timestamp + vframes[i].count <= tick
        BY <2>4, <3>1
      <4>3. vframes[i].timestamp + vframes[i].count <= tick'
        BY <1>3, <2>1, <4>2
      <4> QED
        BY <3>1, <4>1, <4>3
    <3>2. CASE vframes'[i] = p
      BY <1>3, <2>1, <2>2, <3>2
    <3> QED
      BY <2>5, <3>1, <3>2
  <2>8. \A i, j \in DOMAIN vframes' :
            i < j => vframes'[i].timestamp + vframes'[i].count <= vframes'[j].timestamp
    <3> SUFFICES ASSUME NEW i \in DOMAIN vframes', NEW j \in DOMAIN vframes', i < j
                 PROVE  vframes'[i].timestamp + vframes'[i].count <= vframes'[j].timestamp
      OBVIOUS
    <3>1. i \in DOMAIN vframes /\ vframes'[i] = vframes[i]
      BY <2>5
    <3>2. CASE j \in DOMAIN vframes /\ vframes'[j] = vframes[j]
      BY <3>1, <3>2 DEF InTurn
    <3>3. CASE vframes'[j] = p
      BY <2>2, <2>4, <3>1, <3>3
    <3> QED
      BY <2>5, <3>2, <3>3
  <2>9. \A j, k \in DOMAIN due : j < k => due[j].tick < due[k].tick
    BY DEF InTurn
  <2> QED
    BY <1>1, <2>6, <2>7, <2>8, <2>9 DEF InTurn
<1> QED
  BY <1>4, <1>5
LEMMA InTurnRender ==
  ASSUME Typed, InTurn, Render
  PROVE  InTurn'
<1>1. CASE vframes = <<>>
  BY <1>1 DEF Render, InTurn
<1>2. CASE vframes # <<>>
  <2>1. /\ vframe' = vframes[1] /\ vframes' = Tail(vframes) /\ graphics' = "queue"
        /\ due' = due /\ tick' = tick
    BY <1>2 DEF Render, Typed
  <2>2. /\ vframes \in Seq(Pictures) /\ 1 \in DOMAIN vframes
        /\ \A i \in DOMAIN vframes' :
               /\ i + 1 \in DOMAIN vframes /\ vframes'[i] = vframes[i + 1] /\ i \in Int /\ 1 < i + 1
    BY <1>2, <2>1 DEF Typed
  <2>3. /\ vframes[1].timestamp \in Int /\ vframes[1].count \in Int /\ vframes[1].left \in Int
    BY <2>2, PictureFacts
  <2>4. /\ vframes[1].left = vframes[1].count /\ vframes[1].left > 0
        /\ vframes[1].timestamp + vframes[1].count <= tick
    BY <2>2 DEF InTurn
  <2> DEFINE next == vframes[1].timestamp + vframes[1].count - vframes[1].left
  <2>5. next = vframes[1].timestamp /\ vframes[1].left <= vframes[1].count
    BY <2>3, <2>4
  <2>6. \A k \in DOMAIN due : due[k].tick < next
    BY <2>2, <2>5 DEF InTurn
  <2>7. \A i \in DOMAIN vframes' :
            vframes[1].timestamp + vframes[1].count <= vframes'[i].timestamp
    BY <2>2 DEF InTurn
  <2>8. /\ vframe'.left > 0 /\ vframe'.left <= vframe'.count
        /\ vframe'.timestamp + vframe'.count <= tick'
        /\ \A k \in DOMAIN due' : due'[k].tick < vframe'.timestamp + vframe'.count - vframe'.left
        /\ \A i \in DOMAIN vframes' :
               vframe'.timestamp + vframe'.count <= vframes'[i].timestamp
    BY <2>1, <2>4, <2>5, <2>6, <2>7
  <2>9. /\ \A j, k \in DOMAIN due' : j < k => due'[j].tick < due'[k].tick
        /\ \A k \in DOMAIN due' : /\ due'[k].tick < tick'
                                  /\ \A i \in DOMAIN vframes' : due'[k].tick < vframes'[i].timestamp
    BY <2>1, <2>2 DEF InTurn
  <2>10. \A i \in DOMAIN vframes' :
            /\ vframes'[i].left = vframes'[i].count /\ vframes'[i].left > 0
            /\ vframes'[i].timestamp + vframes'[i].count <= tick'
    BY <2>1, <2>2 DEF InTurn
  <2>11. \A i, j \in DOMAIN vframes' :
            i < j => vframes'[i].timestamp + vframes'[i].count <= vframes'[j].timestamp
    <3> SUFFICES ASSUME NEW i \in DOMAIN vframes', NEW j \in DOMAIN vframes', i < j
                 PROVE  vframes'[i].timestamp + vframes'[i].count <= vframes'[j].timestamp
      OBVIOUS
    <3>1. /\ i + 1 \in DOMAIN vframes /\ j + 1 \in DOMAIN vframes /\ i + 1 < j + 1
          /\ vframes'[i] = vframes[i + 1] /\ vframes'[j] = vframes[j + 1]
      BY <2>2
    <3> QED
      BY <3>1 DEF InTurn
  <2> HIDE DEF next
  <2> QED
    BY <2>8, <2>9, <2>10, <2>11, Zenon DEF InTurn
<1> QED
  BY <1>1, <1>2

\* The tick that is queued is later than those before and earlier than those of
\* the pictures behind.
LEMMA InTurnQueued ==
  ASSUME Typed, InTurn, due \in Seq(Dues), graphics = "queue", NEW t \in Textures, Queued(t)
  PROVE  \E x \in Dues : /\ due' = Append(due, x) /\ x.tex = t /\ vframe.timestamp <= x.tick
                         /\ InTurn'
<1> DEFINE next == vframe.timestamp + vframe.count - vframe.left
           x == [tick |-> next, tex |-> t]
<1>1. /\ vframe.timestamp \in Int /\ vframe.count \in Int /\ vframe.left \in Int
      /\ vframes \in Seq(Pictures) /\ tick \in Int
  BY PictureFacts DEF Typed
<1>2. /\ vframe.left > 0 /\ vframe.left <= vframe.count
      /\ vframe.timestamp + vframe.count <= tick
      /\ \A k \in DOMAIN due : due[k].tick < next
      /\ \A i \in DOMAIN vframes :
            vframe.timestamp + vframe.count <= vframes[i].timestamp
  BY DEF InTurn
<1>3. next \in Int /\ vframe.timestamp <= next /\ next < vframe.timestamp + vframe.count /\ next < tick
  BY <1>1, <1>2
<1>4. x \in Dues /\ x.tex = t /\ x.tick = next /\ due' = Append(due, x)
  BY <1>3 DEF Dues, Queued
<1>5. vframes' = vframes /\ tick' = tick
  BY DEF Queued
<1> HIDE DEF x
<1>6. /\ Len(due) \in Nat /\ DOMAIN due = 1 .. Len(due) /\ DOMAIN due' = 1 .. (Len(due) + 1)
      /\ \A k \in DOMAIN due' : \/ k \in DOMAIN due /\ due'[k] = due[k]
                                \/ k = Len(due) + 1 /\ due'[k] = x
      /\ \A k \in DOMAIN due : due[k].tick \in Int
  BY <1>4, DueFacts
<1>7. \A i \in DOMAIN vframes : vframes[i].timestamp \in Int
  <2>1. \A i \in DOMAIN vframes : vframes[i] \in Pictures
    BY <1>1
  <2> QED
    BY <2>1, PictureFacts
<1>8. \A k \in DOMAIN due' : due'[k].tick \in Int /\ due'[k].tick <= next
  BY <1>2, <1>3, <1>4, <1>6
<1> HIDE DEF next
<1>9. \A j, k \in DOMAIN due' : j < k => due'[j].tick < due'[k].tick
  <2> SUFFICES ASSUME NEW j \in DOMAIN due', NEW k \in DOMAIN due', j < k
               PROVE  due'[j].tick < due'[k].tick
    OBVIOUS
  <2>1. j \in DOMAIN due /\ due'[j] = due[j]
    BY <1>6
  <2>2. CASE k \in DOMAIN due /\ due'[k] = due[k]
    BY <2>1, <2>2 DEF InTurn
  <2>3. CASE due'[k] = x
    BY <1>2, <1>4, <2>1, <2>3
  <2> QED
    BY <1>6, <2>2, <2>3
<1>10. \A k \in DOMAIN due' : /\ due'[k].tick < tick'
                              /\ \A i \in DOMAIN vframes' : due'[k].tick < vframes'[i].timestamp
  <2> SUFFICES ASSUME NEW k \in DOMAIN due'
               PROVE  /\ due'[k].tick < tick
                      /\ \A i \in DOMAIN vframes : due'[k].tick < vframes[i].timestamp
    BY <1>5
  <2>1. due'[k].tick < tick
    BY <1>1, <1>3, <1>8
  <2>2. \A i \in DOMAIN vframes : due'[k].tick < vframes[i].timestamp
    BY <1>1, <1>2, <1>3, <1>7, <1>8
  <2> QED
    BY <2>1, <2>2
<1>11. graphics' = "queue" =>
          /\ vframe'.left > 0 /\ vframe'.left <= vframe'.count
          /\ vframe'.timestamp + vframe'.count <= tick'
          /\ \A k \in DOMAIN due' : due'[k].tick < vframe'.timestamp + vframe'.count - vframe'.left
          /\ \A i \in DOMAIN vframes' :
                vframe'.timestamp + vframe'.count <= vframes'[i].timestamp
  <2> SUFFICES ASSUME graphics' = "queue"
               PROVE  /\ vframe'.left > 0 /\ vframe'.left <= vframe'.count
                      /\ vframe'.timestamp + vframe'.count <= tick'
                      /\ \A k \in DOMAIN due' :
                            due'[k].tick < vframe'.timestamp + vframe'.count - vframe'.left
                      /\ \A i \in DOMAIN vframes' :
                            vframe'.timestamp + vframe'.count <= vframes'[i].timestamp
    OBVIOUS
  <2>1. vframe.left # 1 /\ vframe' = [vframe EXCEPT !.left = @ - 1]
    BY DEF Queued
  <2>2. /\ vframe'.timestamp = vframe.timestamp /\ vframe'.count = vframe.count
        /\ vframe'.left = vframe.left - 1
    BY <2>1 DEF Typed, Pictures
  <2>3. vframe'.timestamp + vframe'.count - vframe'.left = next + 1
    <3>1. vframe'.timestamp + vframe'.count - vframe'.left
             = vframe.timestamp + vframe.count - (vframe.left - 1)
      BY <2>2, Zenon
    <3>2. vframe.timestamp + vframe.count - (vframe.left - 1) = next + 1
      BY <1>1 DEF next
    <3> QED
      BY <3>1, <3>2, Zenon
  <2>4. \A k \in DOMAIN due' : due'[k].tick < next + 1
    BY <1>3, <1>8
  <2>5. vframe'.left > 0 /\ vframe'.left <= vframe'.count
    BY <1>1, <1>2, <2>1, <2>2
  <2>6. \A i \in DOMAIN vframes' : vframe'.timestamp + vframe'.count <= vframes'[i].timestamp
    BY <1>2, <1>5, <2>2
  <2> QED
    BY <1>2, <1>5, <2>2, <2>3, <2>4, <2>5, <2>6
<1>12. /\ \A i \in DOMAIN vframes' :
             /\ vframes'[i].left = vframes'[i].count /\ vframes'[i].left > 0
             /\ vframes'[i].timestamp + vframes'[i].count <= tick'
       /\ \A i, j \in DOMAIN vframes' :
             i < j => vframes'[i].timestamp + vframes'[i].count <= vframes'[j].timestamp
  BY <1>5 DEF InTurn
<1>13. InTurn'
  BY <1>9, <1>10, <1>11, <1>12 DEF InTurn
<1> QED
  BY <1>3, <1>4, <1>13
-----------------------------------------------------------------------------
(* The graphics thread queues ticks, the encode thread takes them.         *)

\* What the blocks and the ticks in hand are made of.
LEMMA BlocksKept ==
  ASSUME Blocks, Taken, UNCHANGED <<queue, due, tf>>, InHand' = InHand
  PROVE  Blocks' /\ Taken'
<1>1. Blocks'
  BY DEF Blocks
<1>2. Taken'
  BY DEF Taken
<1> QED
  BY <1>1, <1>2

LEMMA InHandBound ==
  ASSUME queue \in Seq(Frames), due \in Seq(Dues), Blocks, Taken
  PROVE  InHand \in Nat /\ InHand <= Len(due)
<1>1. PICK c : Cut(queue, due, InHand, c)
  BY DEF Blocks
<1>2. InHand \in Nat /\ Len(queue) \in Nat /\ Len(due) \in Nat /\ 0 \in 0 .. Len(queue)
  BY DEF Taken
<1>3. InHand <= c[0] /\ c[0] <= Len(due) /\ c[0] \in Nat
  BY <1>1, <1>2, CutFacts, Zenon
<1> QED
  BY <1>2, <1>3

LEMMA TakenAppend ==
  ASSUME queue \in Seq(Frames), due \in Seq(Dues), Blocks, Taken, NEW x \in Dues,
         due' = Append(due, x), tf' = tf, thread' = thread
  PROVE  Taken' /\ InHand' = InHand
<1>1. InHand' = InHand
  BY DEF InHand
<1>2. InHand \in Nat /\ InHand <= Len(due)
  BY InHandBound
<1>3. \A k \in 1 .. InHand : due'[k] = due[k]
  BY <1>2
<1> QED
  BY <1>1, <1>2, <1>3 DEF Taken

LEMMA AccountedAppend ==
  ASSUME Accounted, NEW t, NEW x \in Dues, Queued(t), due' = Append(due, x), thread # "none"
  PROVE  Accounted'
<1>1. UNCHANGED <<thread, waitFrames, stop>> /\ sem' = sem + 1
  BY DEF Queued, threadVars
<1>2. due' \in Seq(Dues) /\ Len(due') = Len(due) + 1 /\ due' # <<>> /\ Len(due) \in Nat
  BY DEF Accounted
<1> QED
  BY <1>1, <1>2 DEF Accounted, Running, Woken

LEMMA TickDuplicate == KeyInv /\ TickInv /\ QueueDuplicate => TickInv'
<1> SUFFICES ASSUME KeyInv, TickInv, QueueDuplicate PROVE TickInv'
  OBVIOUS
<1> DEFINE n == Len(queue)
           t == Last(queue).tex
           f == [queue[n] EXCEPT !.count = @ + 1]
<1>1. /\ queue \in Seq(Frames) /\ queue # <<>> /\ n \in DOMAIN queue /\ queue[n] \in Frames
      /\ due \in Seq(Dues) /\ thread # "none"
  BY DEF KeyInv, Typed, Empty, TickInv, Accounted, QueueDuplicate
<1>2. t = queue[n].tex /\ t \in Textures
  BY <1>1 DEF Last, Frames
<1>3. Queued(t) /\ queue' = [queue EXCEPT ![n] = f] /\ graphics = "queue"
  <2>1. Queued(t) /\ queue' = [queue EXCEPT ![n].count = @ + 1] /\ graphics = "queue"
    BY DEF QueueDuplicate
  <2> QED
    BY <2>1
<1>4. /\ f \in Frames /\ f.tex = queue[n].tex /\ f.timestamp = queue[n].timestamp
      /\ f.count = queue[n].count + 1
  <2>1. queue[n] \in Frames
    BY <1>1
  <2> QED
    BY <2>1, ProlongedFrame
<1> HIDE DEF t, f
<1>5. PICK x \in Dues : due' = Append(due, x) /\ x.tex = t /\ vframe.timestamp <= x.tick /\ InTurn'
  BY <1>1, <1>2, <1>3, InTurnQueued DEF KeyInv, TickInv
<1>6. Accounted'
  BY <1>1, <1>3, <1>5, AccountedAppend DEF TickInv
<1>7. Taken' /\ InHand' = InHand
  <2>1. tf' = tf /\ thread' = thread
    BY <1>3 DEF Queued, threadVars, frameVars
  <2> QED
    BY <1>1, <1>5, <2>1, TakenAppend DEF TickInv
<1>8. Blocks'
  <2>1. PICK c : Cut(queue, due, InHand, c)
    BY DEF TickInv, Blocks
  <2>2. InHand \in Nat
    BY DEF TickInv, Taken
  <2>3. PICK b : Cut([queue EXCEPT ![Len(queue)] = f], Append(due, x), InHand, b)
    BY <1>1, <1>2, <1>4, <1>5, <2>1, <2>2, CutProlong
  <2>4. Cut(queue', due', InHand', b)
    BY <1>3, <1>5, <1>7, <2>3
  <2> QED
    BY <2>4 DEF Blocks
<1> QED
  BY <1>5, <1>6, <1>7, <1>8 DEF TickInv

LEMMA TickPicture == KeyInv /\ TickInv /\ QueuePicture => TickInv'
<1> SUFFICES ASSUME KeyInv, TickInv, QueuePicture PROVE TickInv'
  OBVIOUS
<1> DEFINE t == IF RawActive \/ vframe.left > 1 THEN Head(avail).tex ELSE convert
           f == Filled(Head(avail), t)
<1>1. /\ queue \in Seq(Frames) /\ avail \in Seq(Frames) /\ avail # <<>> /\ convert \in Textures
      /\ due \in Seq(Dues) /\ thread # "none" /\ Head(avail) \in Frames /\ vframe \in Pictures
  BY DEF KeyInv, Typed, Empty, TickInv, Accounted, QueuePicture, Duplicate
<1>2. t \in Textures
  BY <1>1 DEF Frames
<1>3. Queued(t) /\ queue' = Append(queue, f) /\ graphics = "queue"
  BY DEF QueuePicture
<1> HIDE DEF t
<1>4. f \in Frames /\ f.tex = t /\ f.timestamp = vframe.timestamp /\ f.count = 1
  <2>1. Head(avail).key \in Nat /\ vframe.timestamp \in Int
    BY <1>1, PictureFacts DEF Frames
  <2> QED
    BY <1>2, <2>1 DEF Filled, Frames
<1> HIDE DEF f
<1>5. PICK x \in Dues : due' = Append(due, x) /\ x.tex = t /\ vframe.timestamp <= x.tick /\ InTurn'
  BY <1>1, <1>2, <1>3, InTurnQueued DEF KeyInv, TickInv
<1>6. Accounted'
  BY <1>1, <1>3, <1>5, AccountedAppend DEF TickInv
<1>7. Taken' /\ InHand' = InHand
  <2>1. tf' = tf /\ thread' = thread
    BY <1>3 DEF Queued, threadVars, frameVars
  <2> QED
    BY <1>1, <1>5, <2>1, TakenAppend DEF TickInv
<1>8. Blocks'
  <2>1. PICK c : Cut(queue, due, InHand, c)
    BY DEF TickInv, Blocks
  <2>2. InHand \in Nat
    BY DEF TickInv, Taken
  <2>3. PICK b : Cut(Append(queue, f), Append(due, x), InHand, b)
    BY <1>1, <1>4, <1>5, <2>1, <2>2, CutAppend
  <2>4. Cut(queue', due', InHand', b)
    BY <1>3, <1>5, <1>7, <2>3
  <2> QED
    BY <2>4 DEF Blocks
<1> QED
  BY <1>5, <1>6, <1>7, <1>8 DEF TickInv

\* A turn, a picture that is taken up, and a picture that is given up.
LEMMA TickGraphics ==
  ASSUME KeyInv, TickInv, (\E c \in 1 .. MaxCount : Turn(c)) \/ Render \/ QueueNothing
  PROVE  TickInv'
<1>1. UNCHANGED <<queue, due, tf, thread, sem, stop, waitFrames>>
  BY DEF Turn, Render, QueueNothing, textures, threadVars, frameVars
<1>2. Blocks' /\ Taken'
  <2>1. InHand' = InHand
    BY <1>1 DEF InHand
  <2> QED
    BY <1>1, <2>1, BlocksKept DEF TickInv
<1>3. Accounted'
  BY <1>1 DEF TickInv, Accounted, Running, Woken
<1>4. InTurn'
  <2>1. CASE QueueNothing
    BY <2>1 DEF QueueNothing, TickInv, InTurn
  <2> QED
    BY <2>1, InTurnTurn, InTurnRender DEF KeyInv, TickInv, Accounted
<1> QED
  BY <1>2, <1>3, <1>4 DEF TickInv

\* The thread is woken, looks around and says that it is at work.
LEMMA TickWake == TickInv /\ (Wake \/ LookAround \/ SayAtWork) => TickInv'
<1> SUFFICES ASSUME TickInv, Wake \/ LookAround \/ SayAtWork PROVE TickInv'
  OBVIOUS
<1>1. UNCHANGED <<queue, due, tf, graphics, vframes, vframe, tick, stop>>
  BY DEF Wake, LookAround, SayAtWork, textures, graphicsVars, frameVars
<1>2. \/ /\ thread = "wait" /\ thread' = "woken"
         /\ sem > 0 /\ sem' = sem - 1 /\ waitFrames' = waitFrames
      \/ /\ thread = "woken" /\ sem' = sem
         /\ \/ stop /\ thread' = "ended" /\ waitFrames' = waitFrames
            \/ ~stop /\ waitFrames > 0 /\ waitFrames' = waitFrames - 1 /\ thread' = "wait"
            \/ ~stop /\ ~(waitFrames > 0) /\ waitFrames' = waitFrames /\ thread' = "busy"
      \/ /\ thread = "busy" /\ thread' = "pop" /\ UNCHANGED <<sem, waitFrames>>
  BY DEF Wake, LookAround, SayAtWork
<1>3. Accounted'
  BY <1>1, <1>2 DEF TickInv, Accounted, Running, Woken
<1>4. Blocks' /\ Taken'
  <2>1. InHand' = InHand
    BY <1>2 DEF InHand
  <2> QED
    BY <1>1, <2>1, BlocksKept DEF TickInv
<1>5. InTurn'
  BY <1>1, InTurnKept DEF TickInv, Accounted
<1> QED
  BY <1>3, <1>4, <1>5 DEF TickInv

LEMMA TickPop == KeyInv /\ TickInv /\ Pop => TickInv'
<1> SUFFICES ASSUME KeyInv, TickInv, Pop PROVE TickInv'
  OBVIOUS
<1>1. /\ thread = "pop" /\ queue # <<>> /\ tf' = queue[1] /\ queue' = Tail(queue)
      /\ thread' = "encode" /\ due' = Tail(due)
      /\ UNCHANGED <<graphics, vframes, vframe, tick, stop, sem, waitFrames>>
  BY DEF Pop, graphicsVars, KeyInv, Typed
<1>2. queue \in Seq(Frames) /\ due \in Seq(Dues) /\ due # <<>>
  BY <1>1 DEF KeyInv, Typed, TickInv, Accounted
<1>3. InHand = 0 /\ InHand' = queue[1].count - 1
  BY <1>1 DEF InHand
<1>4. PICK c : Cut(queue, due, 0, c)
  BY <1>3 DEF TickInv, Blocks
<1>5. /\ queue[1].count > 0 /\ queue[1].count <= Len(due) /\ queue[1].timestamp <= due[1].tick
      /\ \A k \in 1 .. queue[1].count : due[k].tex = queue[1].tex
      /\ \E b : Cut(Tail(queue), Tail(due), queue[1].count - 1, b)
  BY <1>1, <1>2, <1>4, CutPop
<1>6. Blocks'
  <2>1. PICK b : Cut(Tail(queue), Tail(due), queue[1].count - 1, b)
    BY <1>5
  <2>2. Cut(queue', due', InHand', b)
    BY <1>1, <1>3, <2>1
  <2> QED
    BY <2>2 DEF Blocks
<1>7. Taken'
  <2>1. queue[1] \in Frames /\ queue[1].count \in Int /\ queue[1].timestamp \in Int /\ Len(due) \in Nat
    BY <1>1, <1>2, FrameFacts
  <2>2. InHand' \in Nat
    BY <1>3, <1>5, <2>1
  <2>3. \A k \in 1 .. InHand' :
            k + 1 \in 1 .. queue[1].count /\ 1 < k + 1 /\ k + 1 <= Len(due) /\ due'[k] = due[k + 1]
    <3> SUFFICES ASSUME NEW k \in 1 .. InHand'
                 PROVE  /\ k + 1 \in 1 .. queue[1].count /\ 1 < k + 1 /\ k + 1 <= Len(due)
                        /\ due'[k] = due[k + 1]
      OBVIOUS
    <3>1. InHand' = queue[1].count - 1 /\ queue[1].count \in Int /\ queue[1].count <= Len(due)
          /\ Len(due) \in Nat
      BY <1>3, <1>5, <2>1, Zenon
    <3>2. k \in Int /\ k > 0 /\ k <= queue[1].count - 1
      BY <3>1
    <3>3. k + 1 \in 1 .. queue[1].count /\ 1 < k + 1 /\ k + 1 <= Len(due)
      BY <3>1, <3>2
    <3>4. k \in 1 .. (Len(due) - 1)
      BY <3>1, <3>2
    <3>5. Tail(due)[k] = due[k + 1]
      BY <1>2, <3>4, TailPlaces
    <3> QED
      BY <1>1, <3>3, <3>5
  <2>4. \A k \in 1 .. Len(due) : 1 < k => due[1].tick < due[k].tick
    BY <1>2 DEF TickInv, InTurn
  <2>5. \A k \in 1 .. Len(due) : due[k].tick \in Int
    BY <1>2, DueFacts
  <2>6. ASSUME NEW k \in 1 .. InHand' PROVE due'[k].tex = tf'.tex /\ tf'.timestamp < due'[k].tick
    <3>1. k + 1 \in 1 .. Len(due) /\ 1 \in 1 .. Len(due) /\ due'[k] = due[k + 1]
      BY <1>2, <2>1, <2>2, <2>3
    <3>2. due[1].tick < due[k + 1].tick /\ due[1].tick \in Int /\ due[k + 1].tick \in Int
      BY <2>3, <2>4, <2>5, <3>1
    <3>3. queue[1].timestamp < due[k + 1].tick
      BY <1>5, <2>1, <3>2
    <3>4. due[k + 1].tex = queue[1].tex
      BY <1>5, <2>3
    <3> QED
      BY <1>1, <3>1, <3>3, <3>4
  <2> QED
    BY <2>2, <2>6 DEF Taken
<1>8. Accounted'
  BY <1>1, <1>2 DEF TickInv, Accounted, Running, Woken
<1>9. InTurn'
  BY <1>1, <1>2, InTurnKept DEF TickInv
<1> QED
  BY <1>6, <1>7, <1>8, <1>9 DEF TickInv
LEMMA TickServe == TickInv /\ (PassOver \/ Encode) => TickInv'
<1> SUFFICES ASSUME TickInv, PassOver \/ Encode PROVE TickInv'
  OBVIOUS
<1>1. UNCHANGED <<queue, due, tf, graphics, vframes, vframe, tick, thread, sem, stop, waitFrames>>
  BY DEF PassOver, Encode, textures, graphicsVars
<1>2. Accounted'
  BY <1>1 DEF TickInv, Accounted, Running, Woken
<1>3. Blocks' /\ Taken'
  <2>1. InHand' = InHand
    BY <1>1 DEF InHand
  <2> QED
    BY <1>1, <2>1, BlocksKept DEF TickInv
<1>4. InTurn'
  BY <1>1, InTurnKept DEF TickInv, Accounted
<1> QED
  BY <1>2, <1>3, <1>4 DEF TickInv

\* The frame that goes back to the front of the queue.
LEMMA FrameLeft ==
  ASSUME NEW f \in Frames, NEW k \in Nat
  PROVE  LET g == [[[f EXCEPT !.key = k] EXCEPT !.count = @ - 1] EXCEPT !.timestamp = @ + 1]
         IN  /\ g \in Frames /\ g.tex = f.tex /\ g.count = f.count - 1
             /\ g.timestamp = f.timestamp + 1
<1> DEFINE f1 == [f EXCEPT !.key = k]
           f2 == [f1 EXCEPT !.count = @ - 1]
           f3 == [f2 EXCEPT !.timestamp = @ + 1]
<1>1. f1 \in Frames /\ f1.tex = f.tex /\ f1.count = f.count /\ f1.timestamp = f.timestamp
  BY DEF Frames
<1> HIDE DEF f1
<1>2. f2 \in Frames /\ f2.tex = f.tex /\ f2.count = f.count - 1 /\ f2.timestamp = f.timestamp
  BY <1>1 DEF Frames
<1> HIDE DEF f2
<1>3. f3 \in Frames /\ f3.tex = f.tex /\ f3.count = f.count - 1 /\ f3.timestamp = f.timestamp + 1
  BY <1>2 DEF Frames
<1> QED
  BY <1>3 DEF f1, f2

LEMMA TickFinish == KeyInv /\ TickInv /\ Finish => TickInv'
<1> SUFFICES ASSUME KeyInv, TickInv, Finish PROVE TickInv'
  OBVIOUS
<1> DEFINE f == [[tf EXCEPT !.key = nextKey] EXCEPT !.count = @ - 1]
           g == [f EXCEPT !.timestamp = @ + 1]
<1>1. /\ thread = "encode" /\ thread' = "signal"
      /\ UNCHANGED <<due, tf, graphics, vframes, vframe, tick, stop, sem, waitFrames>>
  BY DEF Finish, graphicsVars, frameVars
<1>2. IF f.count > 0 THEN queue' = <<g>> \o queue ELSE queue' = queue
  BY DEF Finish, TicksLeft
<1>3. /\ tf \in Frames /\ nextKey \in Nat /\ queue \in Seq(Frames) /\ due \in Seq(Dues)
      /\ tf.count \in Int /\ tf.timestamp \in Int
  BY DEF KeyInv, Typed, TickInv, Accounted, Frames
<1>4. /\ g \in Frames /\ g.tex = tf.tex /\ g.count = tf.count - 1 /\ g.timestamp = tf.timestamp + 1
  BY <1>3, FrameLeft
<1>5. f.count = tf.count - 1
  BY <1>3 DEF Frames
<1> HIDE DEF f, g
<1>6. InHand = tf.count - 1 /\ InHand' = 0 /\ InHand \in Nat
  BY <1>1 DEF InHand, TickInv, Taken
<1>7. PICK c : Cut(queue, due, InHand, c)
  BY DEF TickInv, Blocks
<1>8. Blocks'
  <2>1. CASE f.count > 0
    <3>1. g.count = InHand /\ g.count > 0 /\ 1 \in 1 .. InHand
      BY <1>4, <1>5, <1>6, <2>1
    <3>2. \A k \in 1 .. g.count : due[k].tex = g.tex
      BY <1>4, <3>1 DEF TickInv, Taken
    <3>3. g.timestamp <= due[1].tick
      <4>1. tf.timestamp < due[1].tick
        BY <3>1 DEF TickInv, Taken
      <4>2. InHand <= Len(due)
        BY <1>3, InHandBound DEF TickInv
      <4>3. due[1].tick \in Int
        BY <1>3, <1>6, <3>1, <4>2, DueFacts
      <4> QED
        BY <1>3, <1>4, <4>1, <4>3
    <3>4. Cut(queue, due, g.count, c)
      BY <1>7, <3>1
    <3>5. PICK b : Cut(<<g>> \o queue, due, 0, b)
      BY <1>3, <1>4, <3>1, <3>2, <3>3, <3>4, CutPutBack
    <3>6. Cut(queue', due', InHand', b)
      BY <1>1, <1>2, <1>6, <2>1, <3>5
    <3> QED
      BY <3>6 DEF Blocks
  <2>2. CASE ~(f.count > 0)
    <3>1. InHand = 0
      <4>1. f.count = InHand
        BY <1>5, <1>6, Zenon
      <4>2. ~(InHand > 0)
        BY <2>2, <4>1, Zenon
      <4>3. InHand \in Nat
        BY <1>6, Zenon
      <4> QED
        BY <4>2, <4>3
    <3>2. Cut(queue', due', InHand', c)
      BY <1>1, <1>2, <1>6, <1>7, <2>2, <3>1
    <3> QED
      BY <3>2 DEF Blocks
  <2> QED
    BY <2>1, <2>2
<1>9. Taken'
  BY <1>6 DEF Taken
<1>10. Accounted'
  BY <1>1 DEF TickInv, Accounted, Running, Woken
<1>11. InTurn'
  BY <1>1, <1>3, InTurnKept DEF TickInv
<1> QED
  BY <1>8, <1>9, <1>10, <1>11 DEF TickInv

\* None is in hand before and after, and the ticks stay where they are.
LEMMA NoneInHand ==
  ASSUME Blocks, Taken, UNCHANGED <<queue, due>>, thread # "encode", thread' # "encode"
  PROVE  Blocks' /\ Taken'
<1>1. InHand = 0 /\ InHand' = 0
  BY DEF InHand
<1> QED
  BY <1>1 DEF Blocks, Taken

LEMMA TickSignal == TickInv /\ Signal => TickInv'
<1> SUFFICES ASSUME TickInv, Signal PROVE TickInv'
  OBVIOUS
<1>1. /\ thread = "signal" /\ thread' = "wait"
      /\ UNCHANGED <<queue, due, graphics, vframes, vframe, tick, sem, stop, waitFrames>>
  BY DEF Signal, textures, graphicsVars
<1>2. Accounted'
  BY <1>1 DEF TickInv, Accounted, Running, Woken
<1>3. Blocks' /\ Taken'
  BY <1>1, NoneInHand DEF TickInv
<1>4. InTurn'
  BY <1>1, InTurnKept DEF TickInv, Accounted
<1> QED
  BY <1>2, <1>3, <1>4 DEF TickInv

LEMMA TickStart == ASSUME TickInv, NEW e \in Encoders, Start(e) PROVE TickInv'
<1>1. UNCHANGED <<queue, due, graphics, vframes, vframe, tick>>
  BY DEF Start, InitEncoding, textures, graphicsVars
<1>2. InTurn'
  BY <1>1, InTurnKept DEF TickInv, Accounted
<1>3. CASE gpuEncoders = <<>>
  <2>1. /\ thread = "none" /\ thread' = "wait" /\ sem' = 0 /\ stop' = FALSE /\ waitFrames' = 1
    BY <1>3 DEF Start, InitEncoding
  <2>2. Accounted'
    BY <1>1, <2>1 DEF TickInv, Accounted, Running, Woken
  <2>3. Blocks' /\ Taken'
    BY <1>1, <2>1, NoneInHand DEF TickInv
  <2> QED
    BY <1>2, <2>2, <2>3 DEF TickInv
<1>4. CASE gpuEncoders # <<>>
  <2>1. UNCHANGED <<thread, tf, sem, stop, waitFrames>>
    BY <1>4 DEF Start, threadVars, frameVars
  <2>2. Accounted'
    BY <1>1, <2>1 DEF TickInv, Accounted, Running, Woken
  <2>3. Blocks' /\ Taken'
    <3>1. InHand' = InHand
      BY <2>1 DEF InHand
    <3> QED
      BY <1>1, <2>1, <3>1, BlocksKept DEF TickInv
  <2> QED
    BY <1>2, <2>2, <2>3 DEF TickInv
<1> QED
  BY <1>3, <1>4

LEMMA TickFree == ASSUME TickInv, NEW e \in Encoders, JoinAndFree(e) PROVE TickInv'
<1>1. /\ thread = "ended" /\ thread' = "none" /\ queue' = <<>> /\ due' = <<>> /\ sem' = 0
      /\ UNCHANGED <<graphics, vframes, vframe, tick, waitFrames>>
  BY DEF JoinAndFree, graphicsVars
<1>2. Accounted'
  BY <1>1 DEF TickInv, Accounted, Running, Woken
<1>3. InHand' = 0
  BY <1>1 DEF InHand
<1>4. Taken'
  BY <1>3 DEF Taken
<1>5. Blocks'
  <2>1. PICK c : Cut(<<>>, <<>>, 0, c)
    BY NothingCut
  <2>2. Cut(queue', due', InHand', c)
    BY <1>1, <1>3, <2>1
  <2> QED
    BY <2>2 DEF Blocks
<1>6. InTurn'
  BY <1>1, InTurnKept DEF TickInv, Accounted
<1> QED
  BY <1>2, <1>4, <1>5, <1>6 DEF TickInv

\* The other steps of a start and a stop; a stop that ends the thread wakes it.
LEMMA TickMoves ==
  ASSUME TickInv, NEW e \in Encoders,
         CountUp(e) \/ CountDown(e) \/ EraseEncoder(e) \/ WaitInactive(e)
            \/ StopReturned(e) \/ StopThread(e)
  PROVE  TickInv'
<1>1. UNCHANGED <<queue, due, tf, graphics, vframes, vframe, tick, thread, waitFrames>>
  BY DEF CountUp, CountDown, EraseEncoder, WaitInactive, StopReturned, StopThread, textures,
         graphicsVars, threadVars, frameVars
<1>2. (sem' = sem /\ stop' = stop) \/ (sem' = sem + 1 /\ stop' = TRUE)
  BY DEF CountUp, CountDown, EraseEncoder, WaitInactive, StopReturned, StopThread, StopPost
<1>3. Accounted'
  BY <1>1, <1>2 DEF TickInv, Accounted, Running, Woken
<1>4. Blocks' /\ Taken'
  <2>1. InHand' = InHand
    BY <1>1 DEF InHand
  <2> QED
    BY <1>1, <2>1, BlocksKept DEF TickInv
<1>5. InTurn'
  BY <1>1, InTurnKept DEF TickInv, Accounted
<1> QED
  BY <1>3, <1>4, <1>5 DEF TickInv

LEMMA TickStep == KeyInv /\ TickInv /\ [Next]_vars => TickInv'
<1> SUFFICES ASSUME KeyInv, TickInv, [Next]_vars PROVE TickInv'
  OBVIOUS
<1>1. CASE UNCHANGED vars
  <2>1. UNCHANGED <<queue, due, tf, graphics, vframes, vframe, tick, thread, sem, stop, waitFrames>>
    BY <1>1 DEF vars, textures, graphicsVars, threadVars, frameVars
  <2>2. InHand' = InHand
    BY <2>1 DEF InHand
  <2>3. Blocks' /\ Taken'
    BY <2>1, <2>2, BlocksKept DEF TickInv
  <2>4. Accounted' /\ InTurn'
    BY <2>1, InTurnKept DEF TickInv, Accounted, Running, Woken
  <2> QED
    BY <2>3, <2>4 DEF TickInv
<1>2. CASE Next
  BY <1>2, TickGraphics, TickDuplicate, TickPicture, TickWake, TickPop, TickServe, TickFinish,
     TickSignal, TickStart, TickFree, TickMoves
     DEF Next, QueueFrame, EncodeThread, StopEncoder
<1> QED
  BY <1>1, <1>2

LEMMA InvTakesEachTick == KeyInv /\ TickInv => TakesEachTick
<1> SUFFICES ASSUME KeyInv, TickInv PROVE TakesEachTick
  OBVIOUS
<1>1. queue \in Seq(Frames) /\ due \in Seq(Dues)
      /\ \A i, j \in DOMAIN queue : queue[i].tex = queue[j].tex => i = j
  BY DEF KeyInv, Typed, Apart, TickInv, Accounted
<1>2. ASSUME thread # "encode"
      PROVE  \E c : Cut(queue, due, 0, c)
  BY <1>2 DEF TickInv, Blocks, InHand
<1>3. ASSUME thread = "wait"
      PROVE  /\ ~stop => Len(due) = sem + 1 - waitFrames
             /\ \A i \in DOMAIN queue : Cardinality(Ticks(queue[i].tex)) = queue[i].count
             /\ \A k \in DOMAIN due : \E i \in DOMAIN queue : due[k].tex = queue[i].tex
  <2>1. PICK c : Cut(queue, due, 0, c)
    BY <1>2, <1>3
  <2>2. /\ \A i \in DOMAIN queue :
              Cardinality({k \in DOMAIN due : due[k].tex = queue[i].tex}) = queue[i].count
        /\ \A k \in DOMAIN due : \E i \in DOMAIN queue : due[k].tex = queue[i].tex
    BY <1>1, <2>1, CutCount
  <2>3. ~stop => Len(due) = sem + 1 - waitFrames
    BY <1>3 DEF TickInv, Accounted, Running, Woken
  <2> QED
    BY <2>2, <2>3 DEF Ticks
<1>4. ASSUME thread = "pop"
      PROVE  /\ queue # <<>> /\ Head(queue).tex = Head(due).tex
             /\ Head(queue).timestamp <= Head(due).tick
  <2>1. PICK c : Cut(queue, due, 0, c)
    BY <1>2, <1>4
  <2>2. due # <<>> /\ 1 \in DOMAIN due
    BY <1>1, <1>4 DEF TickInv, Accounted
  <2>3. queue # <<>>
    <3>1. PICK i \in DOMAIN queue : due[1].tex = queue[i].tex
      BY <1>1, <2>1, <2>2, CutCount
    <3> QED
      BY <3>1
  <2>4. /\ queue[1].count > 0 /\ queue[1].timestamp <= due[1].tick
        /\ \A k \in 1 .. queue[1].count : due[k].tex = queue[1].tex
    BY <1>1, <2>1, <2>3, CutPop
  <2>5. 1 \in 1 .. queue[1].count
    BY <1>1, <2>3, <2>4, FrameFacts
  <2>6. Head(queue) = queue[1] /\ Head(due) = due[1]
    BY <1>1, <2>2, <2>3
  <2> QED
    BY <2>3, <2>4, <2>5, <2>6
<1> QED
  BY <1>3, <1>4 DEF TakesEachTick

\* For any number of encoders and textures, and however a picture stands for
\* more ticks than one, output_gpu_encoders and gpu_encode_thread agree: each
\* wake finds a frame, with the texture its tick was queued for and a time that
\* is not ahead of it, and every texture is taken as often as it was queued for.
THEOREM EachTickIsTaken == Spec => []TakesEachTick
<1>1. KeyInv /\ TickInv => TakesEachTick
  BY InvTakesEachTick
<1> QED
  BY <1>1, KeyInit, KeyStep, TickInit, TickStep, PTL DEF Spec
=============================================================================
