------------------------------ MODULE FrameQueue ------------------------------
(***************************************************************************)
(* What a video output promises (libobs/media-io/video-io.c), without its  *)
(* ring: a bounded FIFO of pictures, each to be delivered a number of      *)
(* times.  When the queue is full a new picture is lost and the newest one *)
(* that is queued is delivered in its place; no moment of the video is     *)
(* left without a picture, none is delivered twice.                        *)
(***************************************************************************)
EXTENDS Naturals, Sequences

CONSTANTS
    Capacity,   \* pictures the queue holds
    MaxTicks    \* bound: how many ticks of video are produced

VARIABLES
    frames,     \* the queued pictures, oldest first: [pic, count]
    writing,    \* the newest of them is still being written
    produced,   \* ticks of video handed in so far
    delivered   \* ticks of video delivered so far

vars == <<frames, writing, produced, delivered>>

Init == frames = <<>> /\ writing = FALSE /\ produced = 0 /\ delivered = 0

\* A picture that stands for the next c ticks is accepted and written.
Accept(c) ==
    /\ ~writing /\ Len(frames) < Capacity
    /\ produced + c <= MaxTicks
    /\ frames' = Append(frames, [pic |-> produced, count |-> c])
    /\ writing' = TRUE
    /\ produced' = produced + c
    /\ UNCHANGED delivered

\* It is lost; the newest queued picture stands for its ticks too.
Repeat(c) ==
    /\ ~writing /\ Len(frames) = Capacity
    /\ produced + c <= MaxTicks
    /\ frames' = [frames EXCEPT ![Len(frames)].count = @ + c]
    /\ produced' = produced + c
    /\ UNCHANGED <<writing, delivered>>

Written ==
    /\ writing
    /\ writing' = FALSE
    /\ UNCHANGED <<frames, produced, delivered>>

\* The oldest picture, if it is written, is delivered for one tick.
Deliver ==
    /\ Len(frames) > (IF writing THEN 1 ELSE 0)
    /\ frames' = IF Head(frames).count = 1 THEN Tail(frames)
                 ELSE [frames EXCEPT ![1].count = @ - 1]
    /\ delivered' = delivered + 1
    /\ UNCHANGED <<writing, produced>>

Next ==
    \/ \E c \in 1..MaxTicks : Accept(c) \/ Repeat(c)
    \/ Written
    \/ Deliver

Spec == Init /\ [][Next]_vars
=============================================================================
