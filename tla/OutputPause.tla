---------------------------- MODULE OutputPause ----------------------------
(***************************************************************************)
(* Pausing an output whose data comes from encoders: obs_output_pause      *)
(* (libobs/obs-output.c) and the pause checks that every video frame and   *)
(* every segment of audio go through (libobs/obs-encoder.c).               *)
(*                                                                         *)
(* Time is counted in audio samples, so the conversions between samples    *)
(* and nanoseconds are exact.  A video encoder is handed one frame each    *)
(* Interval, an audio encoder a segment of fixed length at a time, both no *)
(* earlier than their time and at most MaxDelay after it.  A section under *)
(* the pause mutexes of all encoders is one step, and so is a whole call   *)
(* of obs_output_pause: the interface thread is the only caller.           *)
(***************************************************************************)
EXTENDS Integers, FiniteSets

CONSTANTS
    Video,      \* output->video_encoders
    Audio,      \* output->audio_encoders
    FirstVideo, \* the first of output->video_encoders
    Interval,   \* video_frame_interval_ns
    Shapes,     \* bound: the segment lengths, and the first ticks, within an interval
    Patient,    \* the user resumes only what has begun to pause
    MaxDelay,   \* bound: how late data may be handed to an encoder
    MaxTime,    \* bound: length of a recording
    MaxPauses   \* bound: calls that pause

ASSUME OutputPauseAssumption ==
    /\ Video \cap Audio = {} /\ FirstVideo \in Video
    /\ Interval \in Nat \ {0}
    /\ Shapes \subseteq [segment : Nat \ {0}, tick : 1 .. Interval]
    /\ Patient \in BOOLEAN
    /\ MaxDelay \in Nat /\ MaxTime \in Nat /\ MaxPauses \in Nat

Encoders == Video \cup Audio

VARIABLES
    now,        \* os_gettime_ns
    pause,      \* encoder->pause: last_video_ts, ts_start, ts_end, ts_offset
    paused,     \* output->paused
    handed,     \* the time of the next frame or segment of each encoder
    shape,      \* length of a segment and time of the first frame
    \* history, read by no action
    kept,       \* the frames and samples of each encoder that were encoded
    asked       \* the stretches of time that calls asked to be left out

pauseVars == <<now, pause, paused, handed, shape, kept, asked>>

\* pause_reset, which the first obs_encoder_start calls.
NoPause == [last |-> 0, start |-> 0, end |-> 0, offset |-> 0]

PauseInit ==
    /\ shape \in Shapes
    /\ now = 1 /\ paused = FALSE /\ asked = {}
    /\ pause = [e \in Encoders |-> NoPause]
    /\ handed = [e \in Encoders |-> IF e \in Video THEN shape.tick ELSE 1]
    /\ kept = [e \in Encoders |-> {}]

-----------------------------------------------------------------------------
(* What an encoder does with its data.                                     *)

\* The frame of this very time ends the pause.
VideoResumes(p, ts) == ts = p.end

\* video_pause_check_internal: what becomes of the pause.
VideoChecked(p, ts) ==
    IF p.start # 0 /\ VideoResumes(p, ts)
    THEN [p EXCEPT !.last = ts, !.start = 0, !.end = 0]
    ELSE [p EXCEPT !.last = ts]

VideoIgnored(p, ts) == p.start # 0 /\ ~VideoResumes(p, ts) /\ ts >= p.start

\* pause_audio: the segment is cut off at the start of the pause.
StartsWithin(p, ts, end) == p.start >= ts /\ p.start <= end

\* Mutant: an end of the pause between two segments is missed.
EndsWithin_Inside(p, ts, end) == p.start < ts /\ p.end > ts /\ p.end < end

\* unpause_audio: the segment is cut off up to the end of the pause.
EndsWithin(p, ts, end) == p.start < ts /\ p.end >= ts /\ p.end <= end

\* audio_pause_check_internal: what becomes of the pause, and the samples of
\* the segment that are left.
AudioChecked(p, ts, end) ==
    IF p.start # 0 /\ EndsWithin(p, ts, end)
    THEN [p EXCEPT !.start = 0, !.end = 0] ELSE p

Samples(from, to) == from .. (to - 1)

AudioLeft(p, ts, end) ==
    IF p.start = 0 THEN Samples(ts, end)
    ELSE IF StartsWithin(p, ts, end) THEN Samples(ts, p.start)
    ELSE IF EndsWithin(p, ts, end) THEN Samples(p.end, end)
    ELSE IF p.start < ts THEN {}
    ELSE Samples(ts, end)

VideoFrame(v) ==
    LET p == pause[v]
        ts == handed[v]
    IN  /\ ts <= now
        /\ pause' = [pause EXCEPT ![v] = VideoChecked(p, ts)]
        /\ kept' = [kept EXCEPT ![v] = @ \cup (IF VideoIgnored(p, ts) THEN {} ELSE {ts})]
        /\ handed' = [handed EXCEPT ![v] = ts + Interval]
        /\ UNCHANGED <<now, paused, shape, asked>>

AudioSegment(a) ==
    LET p == pause[a]
        ts == handed[a]
        end == ts + shape.segment
    IN  /\ end <= now
        /\ pause' = [pause EXCEPT ![a] = AudioChecked(p, ts, end)]
        /\ kept' = [kept EXCEPT ![a] = @ \cup AudioLeft(p, ts, end)]
        /\ handed' = [handed EXCEPT ![a] = end]
        /\ UNCHANGED <<now, paused, shape, asked>>

-----------------------------------------------------------------------------
(* obs_output_pause, with obs_encoded_output_pause.                        *)

CanStart(p) == p.start = 0 /\ p.end = 0
CanStop(p) == p.start # 0 /\ p.end = 0

\* Mutant: the frame interval that has begun is not skipped.
ClosestTime_Soon(p) == p.last + ((now - p.last) \div Interval) * Interval

\* get_closest_v_ts
ClosestTime(p) ==
    p.last + ((now - p.last + 2 * Interval) \div Interval) * Interval

Pause ==
    LET ts == ClosestTime(pause[FirstVideo])
    IN  /\ ~paused /\ Cardinality(asked) < MaxPauses
        /\ \A e \in Encoders : CanStart(pause[e])
        /\ pause' = [e \in Encoders |-> [pause[e] EXCEPT !.start = ts]]
        /\ paused' = TRUE
        /\ asked' = asked \cup {[from |-> ts, to |-> 0]}
        /\ UNCHANGED <<now, handed, shape, kept>>

\* end_pause
EndPause(p, ts) ==
    [p EXCEPT !.end = ts, !.offset = @ + ts - p.start]

Begun(e) == handed[e] > pause[e].start

Unpause ==
    LET ts == ClosestTime(pause[FirstVideo])
    IN  /\ paused
        /\ Patient => \A e \in Encoders : Begun(e)
        /\ \A e \in Encoders : CanStop(pause[e])
        /\ pause' = [e \in Encoders |-> EndPause(pause[e], ts)]
        /\ paused' = FALSE
        /\ asked' = {[a EXCEPT !.to = IF @ = 0 THEN ts ELSE @] : a \in asked}
        /\ UNCHANGED <<now, handed, shape, kept>>

Advance ==
    /\ now < MaxTime
    /\ \A e \in Encoders : now - handed[e] < MaxDelay
    /\ now' = now + 1
    /\ UNCHANGED <<pause, paused, handed, shape, kept, asked>>

PauseNext ==
    \/ \E v \in Video : VideoFrame(v)
    \/ \E a \in Audio : AudioSegment(a)
    \/ Pause
    \/ Unpause
    \/ Advance

PauseSpec == PauseInit /\ [][PauseNext]_pauseVars

-----------------------------------------------------------------------------
(* Properties.                                                             *)

LeftOut(t) == \E a \in asked : a.from <= t /\ (a.to = 0 \/ t < a.to)

HandedTo(e) ==
    IF e \in Video
    THEN {t \in shape.tick .. (handed[e] - 1) : (t - shape.tick) % Interval = 0}
    ELSE Samples(1, handed[e])

\* Every encoder leaves out the stretches that the calls asked for and nothing
\* else, the audio to the sample: picture and sound have lost the same time
\* and stay together after any number of pauses, however late each encoder is
\* served.
KeepsExactly == \A e \in Encoders : kept[e] = {t \in HandedTo(e) : ~LeftOut(t)}

\* The flag of the output agrees with all its encoders: an output that says it
\* is paused can be resumed, and once the last pause lies behind every encoder
\* it can be paused again.  A single encoder that has missed the end of a
\* pause would make every later obs_output_pause fail.
CanGoOn ==
    /\ paused => \A e \in Encoders : CanStop(pause[e])
    /\ (~paused /\ \A a \in asked : \A e \in Encoders : handed[e] > a.to)
           => \A e \in Encoders : CanStart(pause[e])
=============================================================================
