----------------------------- MODULE GpuEncode -----------------------------
(***************************************************************************)
(* Texture encoding in libobs: the graphics thread queues a texture for    *)
(* the frames it renders (libobs/obs-video.c), the encode thread hands     *)
(* each queued texture to every texture encoder, once for each tick it     *)
(* stands for (libobs/obs-video-gpu-encode.c), and encoders start and stop *)
(* on other threads (libobs/obs.c).                                        *)
(*                                                                         *)
(* The textures are those of Windows, each with a keyed mutex: who         *)
(* acquires a texture must name the key it was last released with.  A      *)
(* section under gpu_encoder_mutex is one step, except that the graphics   *)
(* thread holds the mutex from the first queue_frame for a picture to the  *)
(* last.  Time is counted in ticks.  An encoder whose group is not ready,  *)
(* that waits for audio, is paused or runs at a divided frame rate passes  *)
(* a frame over; which of them do is left open.                            *)
(***************************************************************************)
EXTENDS Integers, Sequences, FiniteSets, SequencesExt

CONSTANTS
    Encoders,       \* the texture encoders of one video mix
    Textures,       \* NUM_ENCODE_TEXTURES and the one that is rendered to
    RawActive,      \* raw_active: a raw output wants the pictures as well
    MaxCount,       \* bound: ticks one rendered picture may stand for
    MaxTicks,       \* bound: ticks the graphics thread produces
    MaxStarts       \* bound: encoder starts

ASSUME GpuEncodeAssumption ==
    /\ IsFiniteSet(Textures) /\ Cardinality(Textures) > 2
    /\ RawActive \in BOOLEAN
    /\ MaxCount \in Nat \ {0} /\ MaxTicks \in Nat /\ MaxStarts \in Nat

Held == -1      \* the key of a texture that the graphics device holds

VARIABLES
    avail,          \* gpu_encoder_avail_queue
    queue,          \* gpu_encoder_queue
    convert,        \* convert_textures_encode[0]
    texKey,         \* the keyed mutex of each texture
    sem,            \* gpu_encode_semaphore
    inactive,       \* gpu_encode_inactive
    stop,           \* gpu_encode_stop
    gpuEncoders,    \* gpu_encoders
    active,         \* gpu_encoder_active
    encoder,        \* where each encoder's start or stop is
    callFree,       \* call_free of each stop
    graphics,       \* where the graphics thread is
    gpuActive,      \* gpu_was_active
    vframes,        \* vframe_info_buffer_gpu
    vframe,         \* vframe_info of output_gpu_encoders
    thread,         \* where the encode thread is
    waitFrames,     \* wait_frames
    tf,             \* tf of the encode thread
    batch,          \* its encoders that are still to be served
    batchSize,      \* encoders.num
    lockKey, nextKey, lockCount,
    tick, starts,   \* ticks produced and encoders started so far
    due             \* history: the ticks queued and not yet taken, with their textures

textures == <<avail, queue, convert, texKey>>
frameVars == <<tf, batch, batchSize, lockKey, nextKey, lockCount>>
threadVars == <<thread, waitFrames, frameVars>>
graphicsVars == <<graphics, gpuActive, vframes, vframe, tick>>
encoderVars == <<gpuEncoders, active, encoder, callFree, starts>>
vars == <<textures, sem, inactive, stop, encoderVars, graphicsVars, threadVars, due>>

FirstTexture == CHOOSE t \in Textures : TRUE

NoFrame == [tex |-> FirstTexture, key |-> 0, count |-> 0,
            timestamp |-> 0, released |-> FALSE]
NoPicture == [timestamp |-> 0, count |-> 0, left |-> 0]

Init ==
    /\ avail = <<>> /\ queue = <<>> /\ convert = FirstTexture
    /\ texKey = [t \in Textures |-> Held]
    /\ sem = 0 /\ inactive = FALSE /\ stop = FALSE
    /\ gpuEncoders = <<>> /\ active = 0 /\ starts = 0
    /\ encoder = [e \in Encoders |-> "off"]
    /\ callFree = [e \in Encoders |-> FALSE]
    /\ graphics = "sleep" /\ gpuActive = FALSE
    /\ vframes = <<>> /\ vframe = NoPicture /\ tick = 1
    /\ thread = "none" /\ waitFrames = 0 /\ tf = NoFrame
    /\ batch = <<>> /\ batchSize = 0
    /\ lockKey = 0 /\ nextKey = 0 /\ lockCount = 0
    /\ due = <<>>

MutexFree == graphics # "queue"

-----------------------------------------------------------------------------
(* The graphics thread, one turn of its loop.                              *)

\* video_sleep after a turn and update_active_state before the next, which
\* nothing comes between that either would notice; clear_gpu_frame_data.  A turn
\* without texture encoders changes nothing.
Turn(c) ==
    LET pushed == IF gpuActive THEN Append(vframes, [timestamp |-> tick, count |-> c, left |-> c])
                  ELSE vframes
    IN  /\ graphics = "sleep" /\ tick < MaxTicks
        /\ gpuActive \/ active > 0
        /\ gpuActive' = (active > 0)
        /\ vframes' = IF ~gpuActive /\ gpuActive' THEN <<>> ELSE pushed
        /\ tick' = IF gpuActive THEN tick + c ELSE tick
        /\ graphics' = IF gpuActive' THEN "render" ELSE "sleep"
        /\ UNCHANGED <<textures, sem, inactive, stop, encoderVars, vframe, threadVars, due>>

\* output_gpu_encoders
Render ==
    /\ graphics = "render"
    /\ IF vframes = <<>>
       THEN graphics' = "sleep" /\ UNCHANGED <<vframes, vframe>>
       ELSE /\ vframe' = Head(vframes)
            /\ vframes' = Tail(vframes)
            /\ graphics' = "queue"
    /\ UNCHANGED <<textures, sem, inactive, stop, encoderVars, gpuActive, tick, threadVars, due>>

Duplicate == avail = <<>> \/ (queue # <<>> /\ vframe.left > 1)

\* return --vframe_info->count, for a tick that texture t stands for.
Queued(t) ==
    /\ vframe' = IF vframe.left = 1 THEN NoPicture ELSE [vframe EXCEPT !.left = @ - 1]
    /\ graphics' = IF vframe.left = 1 THEN "sleep" ELSE "queue"
    /\ sem' = sem + 1
    /\ due' = Append(due, [tick |-> vframe.timestamp + vframe.count - vframe.left, tex |-> t])
    /\ UNCHANGED <<inactive, stop, encoderVars, gpuActive, vframes, tick, threadVars>>

\* queue_frame: the newest queued texture stands for one more tick.
QueueDuplicate ==
    /\ graphics = "queue" /\ Duplicate /\ queue # <<>>
    /\ queue' = [queue EXCEPT ![Len(queue)].count = @ + 1]
    /\ UNCHANGED <<avail, convert, texKey>>
    /\ Queued(Last(queue).tex)

\* Mutant: the texture is released with a key that is not remembered.
Filled_KeyLost(f, t) ==
    [tex |-> t, key |-> f.key, count |-> 1, timestamp |-> vframe.timestamp, released |-> TRUE]

\* The texture frame for the new picture, in texture t.
Filled(f, t) ==
    [tex |-> t, key |-> f.key + 1, count |-> 1, timestamp |-> vframe.timestamp, released |-> TRUE]

\* queue_frame: the picture is copied to an unused texture, or trades places
\* with it when nobody else needs it.
QueuePicture ==
    LET f == Head(avail)
        t == IF RawActive \/ vframe.left > 1 THEN f.tex ELSE convert
    IN  /\ graphics = "queue" /\ ~Duplicate
        /\ f.released => texKey[f.tex] = f.key
        /\ avail' = Tail(avail)
        /\ queue' = Append(queue, Filled(f, t))
        /\ convert' = IF t = convert THEN f.tex ELSE convert
        /\ texKey' = [[texKey EXCEPT ![f.tex] = Held] EXCEPT ![t] = f.key + 1]
        /\ Queued(t)

\* queue_frame: texture encoding is stopping.
QueueNothing ==
    /\ graphics = "queue" /\ Duplicate /\ queue = <<>>
    /\ graphics' = "sleep" /\ vframe' = NoPicture
    /\ UNCHANGED <<textures, sem, inactive, stop, encoderVars, gpuActive, vframes,
                   tick, threadVars, due>>

-----------------------------------------------------------------------------
(* gpu_encode_thread                                                       *)

\* Mutant: the thread does not say that it is at work.
AtWork_Not == inactive

AtWork == FALSE

\* os_sem_wait
Wake ==
    /\ thread = "wait" /\ sem > 0
    /\ sem' = sem - 1
    /\ thread' = "woken"
    /\ UNCHANGED <<textures, inactive, stop, encoderVars, graphicsVars, waitFrames, frameVars, due>>

\* What the thread looks at before it takes a frame.
LookAround ==
    /\ thread = "woken"
    /\ IF stop
       THEN thread' = "ended" /\ UNCHANGED waitFrames
       ELSE IF waitFrames > 0
       THEN thread' = "wait" /\ waitFrames' = waitFrames - 1
       ELSE thread' = "busy" /\ UNCHANGED waitFrames
    /\ UNCHANGED <<textures, sem, inactive, stop, encoderVars, graphicsVars, frameVars, due>>

\* os_event_reset(gpu_encode_inactive)
SayAtWork ==
    /\ thread = "busy"
    /\ inactive' = AtWork
    /\ thread' = "pop"
    /\ UNCHANGED <<textures, sem, stop, encoderVars, graphicsVars, waitFrames, frameVars, due>>

Pop ==
    /\ thread = "pop" /\ MutexFree /\ queue # <<>>
    /\ tf' = Head(queue) /\ queue' = Tail(queue)
    /\ lockKey' = tf'.key /\ nextKey' = tf'.key /\ lockCount' = 0
    /\ batch' = gpuEncoders /\ batchSize' = Len(gpuEncoders)
    /\ thread' = "encode"
    /\ due' = Tail(due)
    /\ UNCHANGED <<avail, convert, texKey, sem, inactive, stop, encoderVars, graphicsVars,
                   waitFrames>>

\* Passed over: continue.
PassOver ==
    /\ thread = "encode" /\ batch # <<>>
    /\ batch' = Tail(batch)
    /\ UNCHANGED <<textures, sem, inactive, stop, encoderVars, graphicsVars, thread,
                   waitFrames, tf, batchSize, lockKey, nextKey, lockCount, due>>

\* The encoder acquires the texture with one key and releases it with the next.
Encode ==
    /\ thread = "encode" /\ batch # <<>>
    /\ texKey[tf.tex] = lockKey
    /\ lockCount' = lockCount + 1
    /\ nextKey' = IF lockCount' = batchSize THEN 0 ELSE nextKey + 1
    /\ texKey' = [texKey EXCEPT ![tf.tex] = nextKey']
    /\ lockKey' = nextKey'
    /\ batch' = Tail(batch)
    /\ UNCHANGED <<avail, queue, convert, sem, inactive, stop, encoderVars, graphicsVars,
                   thread, waitFrames, tf, batchSize, due>>

\* da_erase_item
Without(s, e) ==
    IF e \in ToSet(s) THEN RemoveAt(s, CHOOSE i \in DOMAIN s : s[i] = e) ELSE s

\* send_off_encoder_packet, full_stop and stop_gpu_encode on this very thread,
\* as far as the wait for gpu_encode_inactive.
EncodeFails ==
    LET e == Head(batch)
    IN  /\ thread = "encode" /\ batch # <<>> /\ MutexFree
        /\ encoder[e] = "on"
        /\ active' = active - 1
        /\ gpuEncoders' = Without(gpuEncoders, e)
        /\ callFree' = [callFree EXCEPT ![e] = gpuEncoders' = <<>>]
        /\ encoder' = [encoder EXCEPT ![e] = "asleep"]
        /\ thread' = "stuck"
        /\ UNCHANGED <<textures, sem, inactive, stop, starts, graphicsVars, waitFrames,
                       frameVars, due>>

\* Mutant: the last tick of a texture is forgotten.
TicksLeft_ButOne(f) == f.count > 1

\* if (--tf.count)
TicksLeft(f) == f.count > 0

Finish ==
    LET keyed == [tf EXCEPT !.key = nextKey]
        f == [keyed EXCEPT !.count = @ - 1]
    IN  /\ thread = "encode" /\ batch = <<>> /\ MutexFree
        /\ IF TicksLeft(f)
           THEN /\ queue' = <<[f EXCEPT !.timestamp = @ + 1]>> \o queue
                /\ UNCHANGED avail
           ELSE avail' = Append(avail, f) /\ UNCHANGED queue
        /\ thread' = "signal"
        /\ UNCHANGED <<convert, texKey, sem, inactive, stop, encoderVars, graphicsVars,
                       waitFrames, frameVars, due>>

\* os_event_signal(gpu_encode_inactive): a manual event wakes all that wait.
Signal ==
    /\ thread = "signal"
    /\ inactive' = TRUE
    /\ encoder' = [e \in Encoders |-> IF encoder[e] = "asleep" THEN "quiet" ELSE encoder[e]]
    /\ thread' = "wait"
    /\ tf' = NoFrame /\ batchSize' = 0 /\ lockKey' = 0 /\ nextKey' = 0 /\ lockCount' = 0
    /\ UNCHANGED <<textures, sem, stop, gpuEncoders, active, callFree, starts,
                   graphicsVars, waitFrames, batch, due>>

-----------------------------------------------------------------------------
(* start_gpu_encode and stop_gpu_encode of an encoder.                     *)

NewFrame(t) == [NoFrame EXCEPT !.tex = t]

\* init_gpu_encoding: the textures are created held by the graphics device.
InitEncoding ==
    /\ LET unused == SetToSeq(Textures \ {convert})
       IN  avail' = [i \in DOMAIN unused |-> NewFrame(unused[i])]
    /\ texKey' = [t \in Textures |-> Held]
    /\ sem' = 0 /\ inactive' = TRUE /\ stop' = FALSE
    /\ thread' = "wait" /\ waitFrames' = 1
    /\ UNCHANGED <<queue, convert, frameVars>>

\* The first start, once a stop before it has freed everything: a start
\* between the erasing and the freeing of the last encoder is left out.
Start(e) ==
    /\ encoder[e] = "off" /\ starts < MaxStarts /\ MutexFree
    /\ IF gpuEncoders = <<>>
       THEN thread = "none" /\ InitEncoding
       ELSE UNCHANGED <<textures, sem, inactive, stop, threadVars>>
    /\ gpuEncoders' = Append(gpuEncoders, e)
    /\ encoder' = [encoder EXCEPT ![e] = "listed"]
    /\ starts' = starts + 1
    /\ UNCHANGED <<active, callFree, graphicsVars, due>>

MoveOn(e, from, to) ==
    /\ encoder[e] = from
    /\ encoder' = [encoder EXCEPT ![e] = to]

CountUp(e) ==
    /\ MoveOn(e, "listed", "on")
    /\ active' = active + 1
    /\ UNCHANGED <<textures, sem, inactive, stop, gpuEncoders, callFree, starts,
                   graphicsVars, threadVars, due>>

CountDown(e) ==
    /\ MoveOn(e, "on", "counted")
    /\ active' = active - 1
    /\ UNCHANGED <<textures, sem, inactive, stop, gpuEncoders, callFree, starts,
                   graphicsVars, threadVars, due>>

EraseEncoder(e) ==
    /\ MutexFree
    /\ MoveOn(e, "counted", "erased")
    /\ gpuEncoders' = Without(gpuEncoders, e)
    /\ callFree' = [callFree EXCEPT ![e] = gpuEncoders' = <<>>]
    /\ UNCHANGED <<textures, sem, inactive, stop, active, starts, graphicsVars, threadVars, due>>

\* os_event_wait returns at once when the last stop has destroyed the event
\* before this one came to wait for it.
NothingToWaitFor == inactive \/ thread = "none"

WaitInactive(e) ==
    /\ MoveOn(e, "erased", IF NothingToWaitFor THEN "quiet" ELSE "asleep")
    /\ UNCHANGED <<textures, sem, inactive, stop, gpuEncoders, active, callFree, starts,
                   graphicsVars, threadVars, due>>

\* An encoder that is not the last has stopped.
StopReturned(e) ==
    /\ ~callFree[e]
    /\ MoveOn(e, "quiet", "off")
    /\ UNCHANGED <<textures, sem, inactive, stop, gpuEncoders, active, callFree, starts,
                   graphicsVars, threadVars, due>>

\* Mutant: the thread is not woken to see that it has to stop.
StopPost_None == sem

StopPost == sem + 1

\* stop_gpu_encoding_thread
StopThread(e) ==
    /\ callFree[e]
    /\ MoveOn(e, "quiet", "joining")
    /\ stop' = TRUE /\ sem' = StopPost
    /\ UNCHANGED <<textures, inactive, gpuEncoders, active, callFree, starts,
                   graphicsVars, threadVars, due>>

\* pthread_join and free_gpu_encoding
JoinAndFree(e) ==
    /\ thread = "ended" /\ MutexFree
    /\ MoveOn(e, "joining", "off")
    /\ thread' = "none"
    /\ avail' = <<>> /\ queue' = <<>> /\ sem' = 0 /\ inactive' = FALSE
    /\ texKey' = [t \in Textures |-> Held]
    /\ due' = <<>>
    /\ UNCHANGED <<convert, stop, gpuEncoders, active, callFree, starts, graphicsVars,
                   waitFrames, frameVars>>

-----------------------------------------------------------------------------
QueueFrame == QueueDuplicate \/ QueuePicture \/ QueueNothing

EncodeThread ==
    \/ Wake
    \/ LookAround
    \/ SayAtWork
    \/ Pop
    \/ PassOver
    \/ Encode
    \/ Finish
    \/ Signal

StopEncoder(e) ==
    \/ EraseEncoder(e)
    \/ WaitInactive(e)
    \/ StopReturned(e)
    \/ StopThread(e)
    \/ JoinAndFree(e)

Next ==
    \/ \E c \in 1 .. MaxCount : Turn(c)
    \/ Render
    \/ QueueFrame
    \/ EncodeThread
    \/ \E e \in Encoders : Start(e) \/ CountUp(e) \/ CountDown(e) \/ StopEncoder(e)

Spec == Init /\ [][Next]_vars

\* The threads run: the graphics thread leaves the mutex, the encode thread
\* goes on while it can and so does a stop that has begun.
Fairness ==
    /\ WF_vars(QueueFrame)
    /\ WF_vars(EncodeThread)
    /\ \A e \in Encoders : WF_vars(StopEncoder(e))

FairSpec == Spec /\ Fairness

\* The same when an encode call may fail.
FailingSpec == Init /\ [][Next \/ EncodeFails]_vars /\ Fairness

-----------------------------------------------------------------------------
(* Properties.                                                             *)

AtWorkOnFrame == thread = "encode" \/ thread = "stuck"

Running == thread \notin {"none", "ended"}

\* The keyed mutexes agree with the keys the queues carry, whatever encoders
\* pass a frame over, come or go between two frames, and however textures are
\* traded: a texture that was handed over is acquired with the key of its last
\* release, and neither the graphics thread nor an encoder waits for ever.
Agrees(f) == texKey[f.tex] = IF f.released THEN f.key ELSE Held

KeysAgree ==
    /\ texKey[convert] = Held
    /\ \A i \in DOMAIN avail : Agrees(avail[i])
    /\ \A i \in DOMAIN queue : Agrees(queue[i])
    /\ AtWorkOnFrame => texKey[tf.tex] = lockKey /\ lockKey = nextKey

\* The ticks a texture stands for, by their places in due.
Ticks(t) == {k \in DOMAIN due : due[k].tex = t}

\* Frames are taken for the queued ticks in order, none left out or taken
\* twice, each with the texture it was queued for, one tick being held back; a
\* wake finds a frame, and the time a frame carries is never ahead of the tick
\* it is taken for.
TakesEachTick ==
    /\ thread = "wait" => /\ ~stop => Len(due) = sem + 1 - waitFrames
                          /\ \A i \in DOMAIN queue : Cardinality(Ticks(queue[i].tex)) = queue[i].count
                          /\ \A k \in DOMAIN due : \E i \in DOMAIN queue : due[k].tex = queue[i].tex
    /\ thread = "pop" => /\ queue # <<>> /\ Head(queue).tex = Head(due).tex
                         /\ Head(queue).timestamp <= Head(due).tick

\* An encoder whose stop has passed its wait is served no frame any more: its
\* data may be destroyed.
QuietOnceStopped ==
    \A e \in Encoders :
        encoder[e] \in {"off", "quiet", "joining"} => e \notin {batch[i] : i \in DOMAIN batch}

\* A stop that has begun returns, with the thread ended and the textures freed
\* when it is the last.
Stopping(e) == encoder[e] \notin {"off", "listed", "on"}

StopReturns == \A e \in Encoders : Stopping(e) ~> ~Stopping(e)
=============================================================================
