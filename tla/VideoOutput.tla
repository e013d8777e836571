----------------------------- MODULE VideoOutput -----------------------------
(***************************************************************************)
(* The raw video output of libobs (libobs/media-io/video-io.c): a ring of  *)
(* cached frames between the graphics thread, which locks, writes and      *)
(* unlocks one frame at a time, and the video thread, which hands the      *)
(* oldest frame to every connected input, once for each tick the frame     *)
(* stands for.                                                             *)
(*                                                                         *)
(* Time is counted in ticks of the output's frame rate.  A picture is      *)
(* named by the tick it was rendered for.  A section under data_mutex is   *)
(* one step; input_mutex is held from the first input of a pass to the     *)
(* last, one step for each input.  total_frames, which only the statistics *)
(* read, is left out, and so is the pixel conversion of an input.  Of the  *)
(* texture encoders (GpuEncode) there is what they do to the counters of   *)
(* this output, which both kinds of encoder share.                         *)
(***************************************************************************)
EXTENDS Integers, Sequences

CONSTANTS
    CacheSize,  \* info.cache_size
    Inputs,     \* the (callback, param) pairs that connect
    Divisor,    \* Divisor[i]: the frame_rate_divisor i connects with
    Failing,    \* inputs whose callback may disconnect itself (full_stop)
    MaxCount,   \* bound: ticks one rendered picture may stand for
    MaxTicks,   \* bound: ticks the graphics thread produces
    MaxChanges, \* bound: connects and texture encoder starts
    MaxSkips    \* bound: ticks the encode thread repeats a texture for

ASSUME VideoOutputAssumption ==
    /\ CacheSize \in Nat \ {0}
    /\ Divisor \in [Inputs -> Nat \ {0}]
    /\ Failing \subseteq Inputs
    /\ MaxCount \in Nat \ {0} /\ MaxTicks \in Nat /\ MaxChanges \in Nat
    /\ MaxSkips \in Nat

Slots == 0..(CacheSize - 1)

VARIABLES
    slots,          \* video->cache: the picture, its timestamp, count, skipped
    available,      \* available_frames
    firstAdded,     \* first_added
    lastAdded,      \* last_added
    sem,            \* update_semaphore
    stop,           \* stop
    inputs,         \* inputs: sequence of [id, counter] with the
                    \* history since, missed
    skippedFrames,  \* skipped_frames
    rawActive,      \* raw_active
    gpuRefs,        \* gpu_refs
    graphics,       \* where the graphics thread is
    video,          \* where the video thread is
    frameInfo,      \* frame_info, as an index into the cache
    index,          \* the loop variable over inputs
    encoder,        \* where the thread that starts a texture encoder is
    encoding,       \* is there a gpu_encode_thread
    stopper,        \* where the thread in video_output_stop is
    changes,        \* connects and texture encoder starts so far
    \* history, read by no action
    produced,       \* ticks handed to video_output_lock_frame
    delivered,      \* ticks the video thread has finished
    skipsAdded,     \* ticks that lost their own picture
    skipsReset,     \* skipped frames that reset_frames forgot
    textureSkips    \* ticks that the encode thread repeated a texture for

ringVars == <<slots, available, firstAdded, lastAdded>>
inputVars == <<inputs, rawActive>>
encoderVars == <<encoder, encoding>>
threadVars == <<graphics, video, frameInfo, index, encoderVars, stopper>>
history == <<produced, delivered, skipsAdded, skipsReset, textureSkips>>
vars == <<ringVars, sem, stop, inputVars, skippedFrames, gpuRefs, threadVars,
          changes, history>>

EmptySlot == [pic |-> 0, timestamp |-> 0, count |-> 0, skipped |-> 0]

\* video_output_open and init_cache.
Init ==
    /\ slots = [s \in Slots |-> EmptySlot]
    /\ available = CacheSize /\ firstAdded = 0 /\ lastAdded = 0
    /\ sem = 0 /\ stop = FALSE
    /\ inputs = <<>> /\ rawActive = FALSE
    /\ skippedFrames = 0 /\ gpuRefs = 0
    /\ graphics = "idle" /\ video = "wait" /\ frameInfo = 0 /\ index = 0
    /\ encoder = "idle" /\ encoding = FALSE /\ stopper = "idle" /\ changes = 0
    /\ produced = 0 /\ delivered = 0
    /\ skipsAdded = 0 /\ skipsReset = 0 /\ textureSkips = 0

\* if (++i == cache_size) i = 0;
After(i) == IF i + 1 = CacheSize THEN 0 ELSE i + 1

-----------------------------------------------------------------------------
(* The graphics thread: output_video_data in obs-video.c.                  *)

\* Mutant: the count of a picture that finds no slot is dropped.
Extend_Drops(s, c) == slots' = [slots EXCEPT ![s].skipped = @ + c]

Longer(f, c) == [f EXCEPT !.count = @ + c, !.skipped = @ + c]
Extend(s, c) == slots' = [slots EXCEPT ![s] = Longer(slots[s], c)]

\* Mutant: a new frame goes where the last one is.
NextSlot_Same == lastAdded

NextSlot == IF available # CacheSize THEN After(lastAdded) ELSE lastAdded

LockFrame(c) ==
    /\ graphics = "idle" /\ produced + c <= MaxTicks
    /\ IF available = 0
       THEN /\ Extend(lastAdded, c)
            /\ skipsAdded' = skipsAdded + c
            /\ UNCHANGED <<lastAdded, graphics>>
       ELSE /\ lastAdded' = NextSlot
            /\ slots' = [slots EXCEPT ![lastAdded'] =
                   [pic |-> produced, timestamp |-> produced, count |-> c,
                    skipped |-> 0]]
            /\ graphics' = "locked"
            /\ UNCHANGED skipsAdded
    /\ produced' = produced + c
    /\ UNCHANGED <<available, firstAdded, sem, stop, inputVars, skippedFrames,
                   gpuRefs, video, frameInfo, index, encoderVars, stopper,
                   changes,
                   delivered, skipsReset, textureSkips>>

\* Mutant: only the first frame wakes the video thread.
Wake_First == sem' = IF available = CacheSize THEN sem + 1 ELSE sem

Wake == sem' = sem + 1

UnlockFrame ==
    /\ graphics = "locked"
    /\ available' = available - 1
    /\ Wake
    /\ graphics' = "idle"
    /\ UNCHANGED <<slots, firstAdded, lastAdded, stop, inputVars, skippedFrames,
                   gpuRefs, video, frameInfo, index, encoderVars, stopper,
                   changes, history>>

-----------------------------------------------------------------------------
(* The video thread: video_thread and video_output_cur_frame.              *)

\* Mutant: the thread does not look at stop when it wakes.
Woken_NeverExits == "loop"

Woken == IF stop THEN "exited" ELSE "loop"

VideoWait ==
    /\ video = "wait" /\ sem > 0
    /\ sem' = sem - 1
    /\ video' = Woken
    /\ UNCHANGED <<ringVars, stop, inputVars, skippedFrames, gpuRefs, graphics,
                   frameInfo, index, encoderVars, stopper,
                   changes, history>>

\* The loop condition and the first section under data_mutex.
CurFrame ==
    /\ video = "loop"
    /\ IF stop
       THEN video' = "wait" /\ UNCHANGED frameInfo
       ELSE video' = "got" /\ frameInfo' = firstAdded
    /\ UNCHANGED <<ringVars, sem, stop, inputVars, skippedFrames, gpuRefs,
                   graphics, index, encoderVars, stopper, changes, history>>

InputMutexFree == video # "deliver"

BeginInputs ==
    /\ video = "got" /\ InputMutexFree
    /\ video' = "deliver" /\ index' = 1
    /\ UNCHANGED <<ringVars, sem, stop, inputVars, skippedFrames, gpuRefs,
                   graphics, frameInfo, encoderVars, stopper, changes, history>>

\* Mutant: the counter is compared before it is incremented.
Advance_Late(n, d) == IF n = d THEN 0 ELSE n + 1

\* if (++frame_rate_divisor_counter == frame_rate_divisor) it becomes 0.
Advance(n, d) == IF n + 1 = d THEN 0 ELSE n + 1

\* The inputs without the one at position k (da_erase).
Erase(s, k) == SubSeq(s, 1, k - 1) \o SubSeq(s, k + 1, Len(s))

\* The input at k misses this tick.
Missed(k) == IF k \in DOMAIN inputs
             THEN [inputs EXCEPT ![k].missed = @ + 1] ELSE inputs

\* One turn of the loop.  The callback of a failing input may disconnect that
\* input from inside the loop: the mutex is recursive, and the next input moves
\* into the place the loop has just handled.
DeliverInput ==
    /\ video = "deliver" /\ index <= Len(inputs)
    /\ LET i == inputs[index]
           counted == [inputs EXCEPT ![index].counter =
                           Advance(@, Divisor[i.id])]
       IN \/ inputs' = counted /\ UNCHANGED rawActive
          \/ /\ i.counter = 0 /\ i.id \in Failing
             /\ inputs' = Erase(Missed(index + 1), index)
             /\ rawActive' = (rawActive /\ Len(inputs) > 1)
    /\ index' = index + 1
    /\ UNCHANGED <<ringVars, sem, stop, skippedFrames, gpuRefs, graphics, video,
                   frameInfo, encoderVars, stopper, changes, history>>

EndInputs ==
    /\ video = "deliver" /\ index > Len(inputs)
    /\ video' = "finish"
    /\ UNCHANGED <<ringVars, sem, stop, inputVars, skippedFrames, gpuRefs,
                   graphics, frameInfo, index, encoderVars, stopper,
                   changes, history>>

\* Mutant: the frame is complete one tick early.
Complete_Early(count) == count <= 2

LastWhenDrained == firstAdded'

Complete(count) == count = 1

\* Mutant: skipped ticks are counted for every frame that is not complete.
CountsAsSkipped_All(f) == TRUE

CountsAsSkipped(f) == f.skipped > 0

\* A frame after a pass over the inputs, one tick of it skipped or not.
Shown(f, skip) ==
    [f EXCEPT !.timestamp = @ + 1, !.count = @ - 1,
              !.skipped = IF skip THEN @ - 1 ELSE @]

\* The second section under data_mutex.
FinishFrame ==
    /\ video = "finish"
    /\ LET f == slots[frameInfo]
           complete == Complete(f.count)
           skip == ~complete /\ CountsAsSkipped(f)
       IN /\ slots' = [slots EXCEPT ![frameInfo] = Shown(f, skip)]
          /\ skippedFrames' = IF skip THEN skippedFrames + 1 ELSE skippedFrames
          /\ IF complete
             THEN /\ firstAdded' = After(firstAdded)
                  /\ available' = available + 1
                  /\ lastAdded' = IF available + 1 = CacheSize
                                  THEN LastWhenDrained ELSE lastAdded
                  /\ video' = "wait"
             ELSE /\ video' = "loop"
                  /\ UNCHANGED <<firstAdded, available, lastAdded>>
    /\ delivered' = delivered + 1
    /\ UNCHANGED <<sem, stop, inputVars, gpuRefs, graphics, frameInfo, index,
                   encoderVars, stopper, changes, produced,
                   skipsAdded, skipsReset, textureSkips>>

-----------------------------------------------------------------------------
(* Other threads: inputs come and go, texture encoders start and stop.     *)

Connected(i) == \E k \in DOMAIN inputs : inputs[k].id = i

\* Passes over the inputs that the video thread has made.
Passes == delivered + (IF video = "finish" THEN 1 ELSE 0)

NewInput(i) == [id |-> i, counter |-> 0, since |-> Passes, missed |-> 0]

ResetSkipped == skippedFrames' = 0 /\ skipsReset' = skipsReset + skippedFrames

Connect(i) ==
    /\ InputMutexFree /\ changes < MaxChanges
    /\ ~Connected(i)
    /\ inputs' = Append(inputs, NewInput(i))
    /\ rawActive' = TRUE
    /\ IF inputs = <<>> /\ gpuRefs = 0
       THEN ResetSkipped
       ELSE UNCHANGED <<skippedFrames, skipsReset>>
    /\ changes' = changes + 1
    /\ UNCHANGED <<ringVars, sem, stop, gpuRefs, threadVars, produced,
                   delivered, skipsAdded, textureSkips>>

Disconnect(i) ==
    /\ InputMutexFree
    /\ \E k \in DOMAIN inputs :
          /\ inputs[k].id = i
          /\ inputs' = Erase(inputs, k)
    /\ rawActive' = (rawActive /\ Len(inputs) > 1)
    /\ UNCHANGED <<ringVars, sem, stop, skippedFrames, gpuRefs, threadVars,
                   changes, history>>

\* start_gpu_encode up to the counts: the encode thread runs, and the graphics
\* thread may queue textures for it.
StartEncoding ==
    /\ encoder = "idle" /\ changes < MaxChanges
    /\ encoding' = TRUE
    /\ encoder' = "start"
    /\ changes' = changes + 1
    /\ UNCHANGED <<ringVars, sem, stop, inputVars, skippedFrames, gpuRefs, graphics,
                   video, frameInfo, index, stopper, history>>

\* video_output_inc_texture_encoders: the count, then the check of raw_active,
\* then the reset.
StartTexture ==
    /\ encoder = "start"
    /\ gpuRefs' = gpuRefs + 1
    /\ encoder' = IF gpuRefs = 0 THEN "check" ELSE "idle"
    /\ UNCHANGED <<ringVars, sem, stop, inputVars, skippedFrames, graphics, video,
                   frameInfo, index, encoding, stopper, changes, history>>

CheckTexture ==
    /\ encoder = "check"
    /\ encoder' = IF rawActive THEN "idle" ELSE "reset"
    /\ UNCHANGED <<ringVars, sem, stop, inputVars, skippedFrames, gpuRefs, graphics,
                   video, frameInfo, index, encoding, stopper, changes, history>>

ResetTexture ==
    /\ encoder = "reset"
    /\ ResetSkipped
    /\ encoder' = "idle"
    /\ UNCHANGED <<ringVars, sem, stop, inputVars, gpuRefs, graphics, video,
                   frameInfo, index, encoding, stopper, changes, produced, delivered,
                   skipsAdded, textureSkips>>

\* video_output_inc_texture_skipped_frames: a texture stands for one more tick
\* than its own.
TextureSkip ==
    /\ encoding /\ textureSkips < MaxSkips
    /\ skippedFrames' = skippedFrames + 1
    /\ textureSkips' = textureSkips + 1
    /\ UNCHANGED <<ringVars, sem, stop, inputVars, gpuRefs, threadVars, changes,
                   produced, delivered, skipsAdded, skipsReset>>

\* video_output_dec_texture_encoders (it logs, nothing else).
StopTexture ==
    /\ encoder = "idle" /\ gpuRefs > 0
    /\ gpuRefs' = gpuRefs - 1
    /\ UNCHANGED <<ringVars, sem, stop, inputVars, skippedFrames, threadVars,
                   changes, history>>

\* The last stop of a texture encoder has joined the encode thread.
EndEncoding ==
    /\ encoder = "idle" /\ encoding /\ gpuRefs = 0
    /\ encoding' = FALSE
    /\ UNCHANGED <<ringVars, sem, stop, inputVars, skippedFrames, gpuRefs, graphics,
                   video, frameInfo, index, encoder, stopper, changes, history>>

\* video_output_stop: the flag, which no lock guards, the semaphore, the join.
Stop ==
    /\ stopper = "idle" /\ ~stop
    /\ stop' = TRUE
    /\ stopper' = "post"
    /\ UNCHANGED <<ringVars, sem, inputVars, skippedFrames, gpuRefs, graphics,
                   video, frameInfo, index, encoderVars, changes, history>>

StopPost ==
    /\ stopper = "post"
    /\ sem' = sem + 1
    /\ stopper' = "join"
    /\ UNCHANGED <<ringVars, stop, inputVars, skippedFrames, gpuRefs, graphics,
                   video, frameInfo, index, encoderVars, changes, history>>

StopJoin ==
    /\ stopper = "join" /\ video = "exited"
    /\ stopper' = "stopped"
    /\ UNCHANGED <<ringVars, sem, stop, inputVars, skippedFrames, gpuRefs,
                   graphics, video, frameInfo, index, encoderVars, changes, history>>

-----------------------------------------------------------------------------
VideoThread == VideoWait \/ CurFrame \/ BeginInputs \/ DeliverInput \/ EndInputs
               \/ FinishFrame

Next ==
    \/ \E c \in 1..MaxCount : LockFrame(c)
    \/ UnlockFrame
    \/ VideoThread
    \/ \E i \in Inputs : Connect(i) \/ Disconnect(i)
    \/ StartEncoding \/ StartTexture \/ CheckTexture \/ ResetTexture
    \/ TextureSkip \/ StopTexture \/ EndEncoding
    \/ Stop \/ StopPost \/ StopJoin

Spec == Init /\ [][Next]_vars

\* The threads run when they can; the graphics thread need not go on rendering
\* and nobody need connect, but a frame once locked is unlocked.
FairSpec ==
    /\ Spec
    /\ WF_vars(VideoThread)
    /\ WF_vars(UnlockFrame)
    /\ WF_vars(StopPost \/ StopJoin)

-----------------------------------------------------------------------------
One(b) == IF b THEN 1 ELSE 0
Busy == video \in {"loop", "got", "deliver", "finish"}
Unlocked == CacheSize - available
Pending == Unlocked + One(graphics = "locked")

\* The slot k places after slot s; after first_added.
Place(s, k) == IF s + k < CacheSize THEN s + k ELSE s + k - CacheSize
At(k) == Place(firstAdded, k)

Frame == [pic : Nat, timestamp : Nat, count : Nat, skipped : Nat]

\* Every variable has its type; indices stay inside the cache.
TypeOK ==
    /\ slots \in [Slots -> Frame]
    /\ available \in 0..CacheSize
    /\ firstAdded \in Slots /\ lastAdded \in Slots /\ frameInfo \in Slots
    /\ sem \in Nat /\ stop \in BOOLEAN
    /\ inputs \in Seq([id : Inputs, counter : Nat, since : Nat,
                       missed : Nat])
    /\ rawActive \in BOOLEAN
    /\ skippedFrames \in Nat /\ gpuRefs \in Nat
    /\ graphics \in {"idle", "locked"}
    /\ video \in {"wait", "loop", "got", "deliver", "finish", "exited"}
    /\ index \in Nat /\ (video = "deliver" => index > 0)
    /\ encoder \in {"idle", "start", "check", "reset"} /\ encoding \in BOOLEAN
    /\ stopper \in {"idle", "post", "join", "stopped"}
    /\ changes \in 0..MaxChanges
    /\ produced \in Nat /\ delivered \in Nat
    /\ skipsAdded \in Nat /\ skipsReset \in Nat /\ textureSkips \in Nat

\* The graphics thread never writes the frame that the video thread is handing to
\* the inputs: the copy between video_output_lock_frame and unlock_frame is done
\* outside the mutex, and so are the callbacks.
NeverSharesSlot ==
    graphics = "locked" /\ video \in {"got", "deliver", "finish"}
        => frameInfo # lastAdded

\* Every tick of video is handed to the inputs once and in order, whatever was
\* late: a pass is always for the tick after the one before it, and shows the
\* newest picture that the ring had accepted by then.
DeliversEveryTick ==
    video \in {"deliver", "finish"} =>
        /\ slots[frameInfo].timestamp = delivered
        /\ slots[frameInfo].pic <= delivered
        /\ delivered < produced

\* The indices of the ring agree with the number of frames it holds, and those
\* frames cover the ticks produced and not yet delivered, without gap or overlap.
RingConsistent ==
    /\ lastAdded = IF Pending = 0 THEN firstAdded ELSE At(Pending - 1)
    /\ \A k \in 0..(Pending - 1) :
          /\ slots[At(k)].skipped < slots[At(k)].count
          /\ slots[At(k)].timestamp + slots[At(k)].count =
                 IF k = Pending - 1 THEN produced ELSE slots[At(k + 1)].timestamp
    /\ IF Pending = 0 THEN delivered = produced
       ELSE slots[firstAdded].timestamp = delivered

\* The semaphore wakes the video thread once for every frame: it never works on
\* an empty ring, and it never sleeps while a frame is ready.
WakesForEachFrame ==
    /\ ~stop => sem + One(Busy) = Unlocked
    /\ video \in {"got", "deliver", "finish"} => Unlocked > 0

\* The counter of skipped frames, which the video thread and the encode thread
\* share and which two kinds of start reset, loses nothing and counts nothing
\* twice.  What it shows and what reset_frames forgot is the ticks the encode
\* thread repeated a texture for, and each tick whose own picture found no slot,
\* once, when it is delivered: what was reported of these and what each slot
\* still holds add up, slot by slot.
SkipsCountedOnce ==
    \E total \in [0..CacheSize -> 0..skipsAdded] :
        /\ total[0] + textureSkips = skippedFrames + skipsReset
        /\ \A s \in Slots : total[s + 1] = total[s] + slots[s].skipped
        /\ total[CacheSize] = skipsAdded

\* An input with a divisor d is called for the first tick after it connected and
\* then for every d-th of the passes that reach it: its counter stands at the
\* number of passes since, without those it missed because the input before it
\* disconnected itself from its callback.
InputCadence ==
    video # "deliver" =>
        \A k \in DOMAIN inputs :
            LET i == inputs[k]
            IN i.counter = (Passes - i.since - i.missed) % Divisor[i.id]

\* video_output_stop returns: the video thread sees the flag or the post.
StopReturns == stopper = "post" ~> stopper = "stopped"

\* The ring implements the queue of FrameQueue.
Frames == [k \in 1..Pending |-> [pic |-> slots[At(k - 1)].pic,
                                 count |-> slots[At(k - 1)].count]]
Queue == INSTANCE FrameQueue WITH
    Capacity <- CacheSize, frames <- Frames, writing <- graphics = "locked"
ImplementsQueue == Queue!Spec
=============================================================================
