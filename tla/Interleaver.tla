----------------------------- MODULE Interleaver -----------------------------
(***************************************************************************)
(* The packets an encoded output holds back (libobs/obs-output.c): several *)
(* encoders hand their packets to interleave_packets, each on a thread of  *)
(* its own and in its own order; the output waits until it has seen all of *)
(* them, finds a common start, and from then on sends one packet for each  *)
(* that arrives, in the order of their times.                              *)
(*                                                                         *)
(* interleave_packets runs under interleaved_mutex, so an arrival is one   *)
(* step.  The members it changes are the record output; its helpers are    *)
(* operators on that record.  Time has one unit for all encoders.  usec is *)
(* dts_usec: the system's time until the common start is found, the time   *)
(* in the stream from then on.  Captions, packet callbacks and the times   *)
(* kept for statistics are left out, and so are allocation failures.       *)
(***************************************************************************)
EXTENDS Integers, Sequences, FiniteSets, SequencesExt

CONSTANTS
    Courses,    \* what encoders an output may have, see CourseType
    KeyEvery,   \* every so many packets of a video encoder is a key frame
    NoTime,     \* INT64_MIN, earlier than every time
    MaxPackets  \* bound: packets of one encoder

\* When the first packet an encoder hands to the output was made.
Starts(c, t) == c.start[t] + c.first[t] * c.interval[t]

\* Encoders of a course that is not prompt start for this output and are paired:
\* video begins with audio or after it.  In a prompt one they may run for another
\* output already.
CourseType(c) ==
    /\ c.video # {} /\ c.audio # {} /\ c.video \cap c.audio = {}
    /\ c.video \cup c.audio \subseteq Nat
    /\ c.interval \in [c.video \cup c.audio -> Nat \ {0}] \* between packets
    /\ c.start \in [c.video \cup c.audio -> Nat]    \* when packet 0 is made
    /\ c.lead \in [c.video \cup c.audio -> Nat]     \* dts of packet 0 is -lead
    /\ c.first \in [c.video \cup c.audio -> Nat]    \* first packet handed out
    /\ \A v \in c.video : c.first[v] % KeyEvery = 0
    /\ c.prompt \in BOOLEAN
    /\ c.prompt \/ \A v \in c.video, a \in c.audio : Starts(c, a) <= Starts(c, v)

ASSUME InterleaverAssumption ==
    /\ KeyEvery \in Nat \ {0} /\ MaxPackets \in Nat /\ NoTime \in Int
    /\ \A c \in Courses : CourseType(c)

VARIABLES
    course,     \* the encoders of this output
    next,       \* the number of the next packet of each encoder
    active,     \* active
    output,     \* interleaved_packets, received_video, received_audio,
                \* video_offsets and audio_offsets, highest_video_ts,
                \* highest_audio_ts
    sent,       \* history: the packets handed to encoded_packet
    inStep      \* history: audio was handed out before later video

vars == <<course, next, active, output, sent, inStep>>

Video == course.video
Audio == course.audio
Tracks == Video \cup Audio
Primary == Min(Video)
Ready(o) == o.receivedAudio /\ o.receivedVideo = Video

\* reset_packet_data
ResetPacketData(c) ==
    [held |-> <<>>, receivedVideo |-> {}, receivedAudio |-> FALSE,
     offset |-> [t \in c.video \cup c.audio |-> 0],
     highestVideo |-> [v \in c.video |-> NoTime], highestAudio |-> 0]

Init ==
    /\ course \in Courses
    /\ next = course.first
    /\ active = FALSE
    /\ output = ResetPacketData(course)
    /\ sent = <<>>
    /\ inStep = TRUE

\* The packet n of encoder t as send_off_encoder_packet hands it out.
Packet(t, n) ==
    LET dts == n * course.interval[t] - course.lead[t]
    IN [track |-> t, n |-> n, key |-> t \in Video => n % KeyEvery = 0,
        dts |-> dts, pts |-> IF t \in Video THEN dts + course.lead[t] ELSE dts,
        usec |-> course.start[t] + n * course.interval[t]]

-----------------------------------------------------------------------------
(* Helpers on the held packets.  Index 0 stands for DARRAY_INVALID.         *)

FindFirst(held, t) == SelectInSeq(held, LAMBDA p : p.track = t)
FindLast(held, t) == SelectLastInSeq(held, LAMBDA p : p.track = t)

ApplyOffset(o, p) ==
    LET off == o.offset[p.track]
    IN [p EXCEPT !.dts = @ - off, !.pts = @ - off, !.usec = p.dts - off]

\* Video goes before audio of the same time, and video among itself by track.
GoesBefore(p, q) ==
    \/ p.usec < q.usec
    \/ /\ p.usec = q.usec /\ p.track \in Video
       /\ ~(q.track \in Video /\ p.track > q.track)

Insert(held, p) ==
    LET k == SelectInSeq(held, LAMBDA q : GoesBefore(p, q))
    IN InsertAt(held, IF k = 0 THEN Len(held) + 1 ELSE k, p)

DiscardTo(held, k) == SubSeq(held, k + 1, Len(held))

\* discard_unused_audio_packets
DiscardBefore(held, usec) ==
    LET k == SelectInSeq(held, LAMBDA p : p.usec >= usec)
    IN IF k = 0 THEN <<>> ELSE DiscardTo(held, k - 1)

SetHigher(o, p) ==
    IF p.track \in Video
    THEN [o EXCEPT !.highestVideo[p.track] = IF @ < p.usec THEN p.usec ELSE @]
    ELSE [o EXCEPT !.highestAudio = IF @ < p.usec THEN p.usec ELSE @]

\* Mutant: a video packet does not wait for later audio.
HasHigherOpposing_VideoOnly(o, p) ==
    \A v \in Video \ {p.track} : o.highestVideo[v] > p.usec

HasHigherOpposing(o, p) ==
    /\ \A v \in Video \ {p.track} : o.highestVideo[v] > p.usec
    /\ p.track \in Video => o.highestAudio > p.usec

Streamable(o) ==
    LET k == SelectInSeq(o.held, LAMBDA p : ~HasHigherOpposing(o, p))
    IN IF k = 0 THEN Len(o.held) ELSE k - 1

-----------------------------------------------------------------------------
(* The common start.                                                       *)

Distance(p, q) == IF p.usec < q.usec THEN q.usec - p.usec ELSE p.usec - q.usec

Closest(held, first) ==
    LET audio == {k \in DOMAIN held : held[k].track \in Audio}
    IN Min({k \in audio : \A j \in audio :
                Distance(held[k], first) <= Distance(held[j], first)})

\* get_interleaved_start_idx: the first packet that is kept.
StartIndex(held) ==
    LET video == FindFirst(held, Primary)
        from == Min({video, Closest(held, held[video])})
        audio == Min({k \in from..Len(held) : held[k].track \in Audio})
        firsts == {FindFirst(held, a) : a \in Audio} \ {0}
    IN IF held[audio].pts <= 0 THEN Min(firsts \cup {from}) ELSE from

\* prune_premature_packets: how long the primary video and the last audio
\* encoder may be apart.
Duration ==
    IF Cardinality(Audio) > 1
    THEN Max({course.interval[Primary]} \cup {course.interval[a] : a \in Audio})
    ELSE course.interval[Primary]

\* Mutant: video is pruned only when audio is twice as late.
TooEarly_Double(audio, video) == audio.usec - video.usec > 2 * Duration

TooEarly(audio, video) == audio.usec - video.usec > Duration

Failed(o) == [ok |-> FALSE, o |-> o]
Done(o) == [ok |-> TRUE, o |-> o]

\* prune_interleaved_packets
Prune(o) ==
    LET held == o.held
        video == FindFirst(held, Primary)
        firsts == {FindFirst(held, a) : a \in Audio}
        last == held[FindFirst(held, Max(Audio))]
    IN IF video = 0 THEN Failed(o)
       ELSE IF 0 \in firsts THEN Failed([o EXCEPT !.receivedAudio = FALSE])
       ELSE Done([o EXCEPT !.held = DiscardTo(held,
                IF TooEarly(last, held[video]) THEN Max(firsts \cup {video})
                ELSE StartIndex(held) - 1)])

\* get_audio_and_video_packets: the first encoder without a packet is awaited
\* anew, a video encoder with a key frame.
HasAll(o) ==
    LET missing == {t \in Tracks : FindFirst(o.held, t) = 0}
    IN IF missing \cap Video # {}
       THEN Failed([o EXCEPT !.receivedVideo = @ \ {Min(missing \cap Video)}])
       ELSE IF missing # {} THEN Failed([o EXCEPT !.receivedAudio = FALSE])
       ELSE Done(o)

NewOffset(o, t) ==
    LET p == o.held[FindFirst(o.held, t)]
    IN IF t \in Video THEN p.pts ELSE IF p.dts > 0 THEN p.dts ELSE 0

\* get new offsets, ..., apply new offsets to all existing packets
SetOffsets(o) ==
    LET audio == o.held[FindFirst(o.held, Min(Audio))]
        moved == [o EXCEPT !.offset = [t \in Tracks |-> NewOffset(o, t)],
                           !.highestAudio = @ - audio.usec]
    IN [moved EXCEPT !.held = [k \in DOMAIN @ |-> ApplyOffset(moved, @[k])]]

\* Mutant: audio of the time of the first video packet does not do.
ReachesVideo_Past(held) ==
    \A a \in Audio :
        held[FindLast(held, a)].usec > held[FindFirst(held, Primary)].usec

\* ensure that there is audio past the first video packet
ReachesVideo(held) ==
    \A a \in Audio :
        held[FindLast(held, a)].usec >= held[FindFirst(held, Primary)].usec

\* initialize_interleaved_packets
Initialize(o) ==
    LET cut == [o EXCEPT !.held = DiscardTo(@, StartIndex(@) - 1)]
    IN IF ~HasAll(o).ok THEN HasAll(o)
       ELSE IF ~ReachesVideo(o.held)
            THEN Failed([o EXCEPT !.receivedAudio = FALSE])
       ELSE IF ~HasAll(cut).ok THEN HasAll(cut)
       ELSE Done(SetOffsets(cut))

\* resort_interleaved_packets
Resort(o) ==
    FoldLeft(LAMBDA r, p : [SetHigher(r, p) EXCEPT !.held = Insert(@, p)],
             [o EXCEPT !.held = <<>>], o.held)

-----------------------------------------------------------------------------
(* interleave_packets.                                                     *)

\* check_received
CheckReceived(o, p) ==
    IF p.track \in Video THEN [o EXCEPT !.receivedVideo = @ \cup {p.track}]
    ELSE [o EXCEPT !.receivedAudio = TRUE]

\* calculate_batch_size: the packets that fit into twice the largest interval.
MaxBatch ==
    LET largest == Max({course.interval[t] : t \in Tracks})
    IN MapThenSumSet(LAMBDA t : (2 * largest) \div course.interval[t], Tracks)

SendCount(o) ==
    IF Streamable(o) = 0 THEN 0
    ELSE IF Streamable(o) - 1 > MaxBatch THEN 2 ELSE 1

\* send_interleaved, count times.
Send(o, count) == [o |-> [o EXCEPT !.held = DiscardTo(@, count)],
                   out |-> SubSeq(o.held, 1, count)]

Begin(o) ==
    LET pruned == Prune(o)
        started == Initialize(pruned.o)
    IN IF ~pruned.ok THEN Send(pruned.o, 0)
       ELSE IF ~started.ok THEN Send(started.o, 0)
       ELSE Send(Resort(started.o), 1)

\* Mutant: a track may begin with any frame.
AwaitsKey_Never(p) == FALSE

AwaitsKey(p) ==
    p.track \in Video /\ p.track \notin output.receivedVideo /\ ~p.key

InterleavePacket(p) ==
    LET started == Ready(output)
        out == IF started THEN ApplyOffset(output, p) ELSE p
        seen == IF started THEN output ELSE CheckReceived(output, p)
        o == [seen EXCEPT !.held = Insert(@, out)]
        higher == SetHigher(o, out)
    IN IF AwaitsKey(p)
       THEN Send([output EXCEPT !.held = DiscardBefore(@, p.usec)], 0)
       ELSE IF ~Ready(o) THEN Send(o, 0)
       ELSE IF ~started THEN Begin(o)
       ELSE Send(higher, SendCount(higher))

\* The audio thread serves the audio encoders of an output in turn.
InTurn(t) ==
    LET made(a) == next[a] - course.first[a]
    IN t \in Audio => \A a \in Audio : IF a < t THEN made(t) < made(a)
                                       ELSE made(t) <= made(a)

AudioFirst(p) == \A a \in Audio : Packet(a, next[a]).usec >= p.usec

\* An encoder hands out its next packet; one that comes before active is set is
\* lost.  An encoder that only starts for this output has none to hand out by then.
Arrive(t) ==
    /\ next[t] < course.first[t] + MaxPackets
    /\ InTurn(t)
    /\ course.prompt \/ active
    /\ next' = [next EXCEPT ![t] = @ + 1]
    /\ LET r == IF active THEN InterleavePacket(Packet(t, next[t]))
                ELSE [o |-> output, out |-> <<>>]
       IN output' = r.o /\ sent' = sent \o r.out
    /\ inStep' = (inStep /\ (t \in Audio \/ AudioFirst(Packet(t, next[t]))))
    /\ UNCHANGED <<course, active>>

\* obs_output_begin_data_capture: the encoders are hooked, then active is set.
Activate ==
    /\ ~active
    /\ active' = TRUE
    /\ UNCHANGED <<course, next, output, sent, inStep>>

Next == Activate \/ \E t \in Tracks : Arrive(t)

Spec == Init /\ [][Next]_vars

-----------------------------------------------------------------------------
OfTrack(s, t) == SelectSeq(s, LAMBDA p : p.track = t)

\* What is sent is in the order of its time: no packet that is already earlier
\* than one that was sent can still come (obs-output.c:2211-2212).
SentInOrder ==
    \A k \in 1..(Len(sent) - 1) : sent[k].usec <= sent[k + 1].usec

\* A stream has no gap and each video of it begins at time zero: the packets sent
\* and held are the encoder's packets from the first one on, each once and in
\* order, whatever was dropped while the others were awaited.  The video begins
\* with a key frame if its encoder started for this output, or if audio kept ahead
\* of it; see BeginsWithKey for when it does not.
UnbrokenFromKey ==
    Len(sent) > 0 => \A t \in Tracks :
        LET all == OfTrack(sent, t) \o OfTrack(output.held, t)
        IN /\ \A k \in 1..(Len(all) - 1) : all[k + 1].n = all[k].n + 1
           /\ Len(all) > 0 => all[Len(all)].n = next[t] - 1
           /\ t \in Video /\ OfTrack(sent, t) # <<>> =>
                  /\ all[1].pts = 0
                  /\ ~course.prompt \/ inStep => all[1].key

\* Every video of a stream begins with a key frame, "if first video frame is not a
\* keyframe, discard until received" (obs-output.c:2237).  It does not when audio
\* comes late to a running video encoder: the key frame is pruned, too far from the
\* audio (1880), and received_video stays set.
BeginsWithKey ==
    \A v \in Video : OfTrack(sent, v) # <<>> => OfTrack(sent, v)[1].key

\* Video and audio begin together: the first of either were made at most a packet
\* apart, but for the audio from before its encoder's time zero, which is kept.
CaptureTime(p) == course.start[p.track] + p.n * course.interval[p.track]
Slack(a) == Max({course.interval[a], Duration})
StartsTogether ==
    LET v == OfTrack(sent, Primary)
    IN \A a \in Audio :
        LET s == OfTrack(sent, a)
            d == CaptureTime(s[1]) - CaptureTime(v[1])
        IN Len(v) > 0 /\ Len(s) > 0 =>
               \/ d \in (-Slack(a))..Slack(a)
               \/ d < 0 /\ Packet(a, s[1].n).dts <= 0

\* Nothing is held back without need: a stream begins as soon as each encoder
\* has a packet there and the audio reaches the first video.
BeginsInTime ==
    Len(sent) = 0 /\ (\A t \in Tracks : FindFirst(output.held, t) > 0)
        => \E a \in Audio : \A k \in DOMAIN output.held :
               output.held[k].track = a =>
                   output.held[k].usec
                       < output.held[FindFirst(output.held, Primary)].usec
=============================================================================
