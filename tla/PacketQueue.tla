----------------------------- MODULE PacketQueue -----------------------------
(***************************************************************************)
(* The packets of one stream between the encoders and the network          *)
(* (plugins/obs-outputs/rtmp-stream.c): the encoders' threads add packets, *)
(* the send thread takes and sends them; when they pile up, frames are     *)
(* dropped or, with the dynamic bitrate, the encoder is slowed down.       *)
(*                                                                         *)
(* RtmpStream has the same threads from start to end of many streams and   *)
(* does not tell packets apart; here is one stream, from the moment it is  *)
(* connected, with its packets.  Packets are added under packets_mutex     *)
(* (and come one at a time, under interleaved_mutex), and counted by       *)
(* send_sem, which is posted after the mutex was left.  A packet is its    *)
(* place in the course, the packets the encoders deliver.  They are added  *)
(* in that order and taken from the front, so the queue is the set of the  *)
(* places in it.                                                           *)
(*                                                                         *)
(* Time is the dts of the packet that arrives.  What sending takes, and so *)
(* the estimate of the bitrate, is a choice.  dbr_set_bitrate gives the    *)
(* encoder dbr_cur_bitrate whenever that has changed; how it shares it out *)
(* among several encoders is left out, and so are the congestion and the   *)
(* number of dropped frames it reports, and the socket thread of Windows.  *)
(***************************************************************************)
EXTENDS Integers, Sequences, FiniteSets, SequencesExt, FiniteSetsExt

CONSTANTS
    Courses,        \* what may happen to a stream, see CourseType
    Gap,            \* the time from a frame to the next, at most
    Few,            \* 5: with fewer packets in the queue nothing is dropped
    DropB, DropP,   \* drop_threshold_usec, pframe_drop_threshold_usec
    Trigger,        \* DBR_TRIGGER_USEC
    IncTimer,       \* DBR_INC_TIMER
    Original,       \* dbr_orig_bitrate
    Increase,       \* dbr_inc_bitrate
    Least,          \* 50, the lowest bitrate
    Grain,          \* 100: estimates are rounded down to it
    Estimates       \* dbr_est_bitrate after a packet was sent, 0 for none

\* The priorities of obs-nal.h: a disposable frame is needed by no other, a low
\* one by disposable ones, a high one by all up to the next key frame.
Disposable == 0
Low == 1
High == 2
Highest == 3

PacketType == [video : BOOLEAN, track : Nat, priority : Disposable..Highest, dts : Nat]

\* dynamic: dbr_enabled.  stops: what the user asks for, 0 being a forced stop
\* and s > 0 one that asks for the packets of the next s - 1 units of time.
CourseType(c) ==
    /\ c.packets \in Seq(PacketType)
    /\ \A i, j \in DOMAIN c.packets : i < j => c.packets[i].dts <= c.packets[j].dts
    /\ \A i \in DOMAIN c.packets : c.packets[i].dts > 0
    /\ \A i \in DOMAIN c.packets : c.packets[i].video =>
        \/ \A j \in 1..(i - 1) : ~c.packets[j].video
        \/ \E j \in 1..(i - 1) : c.packets[j].video /\ c.packets[i].dts - c.packets[j].dts <= Gap
    /\ c.dynamic \in BOOLEAN /\ c.loses \in BOOLEAN /\ c.fails \in BOOLEAN
    /\ c.stops \subseteq Nat

ASSUME PacketQueueAssumption ==
    /\ \A c \in Courses : CourseType(c)
    /\ {Few, Gap, DropB, DropP, Trigger, IncTimer, Increase, Least, Grain} \subseteq Nat \ {0}
    /\ DropB < DropP
    /\ Original \in Nat /\ Least <= Original
    /\ \A e \in Estimates : e = 0 \/ (e \in Nat /\ e >= Least)

VARIABLES
    course,
    arrived,        \* how many packets the encoders have delivered
    producer,       \* rtmp_stream_data: "idle", "add" or "post"
    hooked,         \* do the encoders deliver packets to this output
    queue,          \* packets, min_priority and last_dts_usec; the packets are
                    \* a set, in the order of the course
    bitrate,        \* dbr_cur_bitrate, dbr_prev_bitrate and dbr_inc_timeout,
                    \* 0 when it is not set
    estimate,       \* dbr_est_bitrate
    sem,            \* send_sem
    sender,         \* where the send thread is
    hand,           \* the packet it sends
    stopTs,         \* stop_ts
    stopEvent,      \* stop_event
    caller,         \* where the user and a failing encoder are
    disconnected,   \* disconnected
    encodeError,    \* encode_error
    sawError,       \* encode_error as the send thread has read it
    active,         \* active
    outcome,        \* what the output is told at the end
    sent,           \* history: the packets that were sent
    lowered         \* history: when the bitrate was lowered last

queueVars == <<queue, bitrate, lowered>>
stopVars == <<stopTs, stopEvent, caller>>
producerVars == <<arrived, producer>>
senderVars == <<sender, hand, disconnected, sawError, active, outcome, sent, estimate>>
vars == <<course, hooked, queueVars, sem, stopVars, producerVars, senderVars, encodeError>>

User == "user"
Encoder == "encoder"

Init ==
    /\ course \in Courses
    /\ arrived = 0 /\ producer = "idle" /\ hooked = TRUE
    /\ queue = [packets |-> {}, minPriority |-> 0, lastDts |-> 0]
    /\ bitrate = [cur |-> Original, prev |-> 0, due |-> 0]
    /\ estimate = 0
    /\ sem = 0 /\ sender = "wait" /\ hand = 0
    /\ stopTs = 0 /\ stopEvent = FALSE
    /\ caller = [w \in {User, Encoder} |-> "idle"]
    /\ disconnected = FALSE /\ encodeError = FALSE /\ sawError = FALSE
    /\ active = TRUE /\ outcome = "none"
    /\ sent = <<>> /\ lowered = 0

Packet(i) == course.packets[i]
IsVideo(i) == Packet(i).video
IsKey(i) == IsVideo(i) /\ Packet(i).priority = Highest
Dts(i) == Packet(i).dts

-----------------------------------------------------------------------------
(* Dropping frames.  q is the record queue.                                *)

\* Sound and the frames of this priority or a higher one.
Spared(packets, highest) ==
    {i \in packets : ~IsVideo(i) \/ Packet(i).priority >= highest}

\* drop_frames; mutant: what was dropped is forgotten.
DropFrames_Forgets(q, highest) == [q EXCEPT !.packets = Spared(@, highest)]

DropFrames(q, highest) ==
    [q EXCEPT
        !.packets = Spared(@, highest),
        !.minPriority = IF @ < highest THEN highest ELSE @]

\* find_first_video_packet: the first of these; key frames do not count.
Droppable(q) == {i \in q.packets : IsVideo(i) /\ ~IsKey(i)}

\* Is more than so much time waiting to be sent (buffer_duration_usec)?
Waits(q, time) ==
    /\ Cardinality(q.packets) >= Few
    /\ Droppable(q) # {}
    /\ q.lastDts - Dts(Min(Droppable(q))) > time

\* check_to_drop_frames, for b-frames and then for p-frames.
DropLate(q, threshold, highest) ==
    IF ~course.dynamic /\ Waits(q, threshold) THEN DropFrames(q, highest) ELSE q

CheckToDrop(q) == DropLate(DropLate(q, DropB, High), DropP, Highest)

\* add_video_packet
AddVideo(q, i) ==
    LET c == CheckToDrop(q)
    IN IF Packet(i).priority < c.minPriority THEN c
       ELSE [packets |-> c.packets \cup {i}, minPriority |-> 0, lastDts |-> Dts(i)]

AddPacket(q, i) ==
    IF IsVideo(i) THEN AddVideo(q, i) ELSE [q EXCEPT !.packets = @ \cup {i}]

-----------------------------------------------------------------------------
(* The dynamic bitrate.  b is the record bitrate, now the time.            *)

\* dbr_inc_bitrate; mutant: only the first step is timed.
IncBitrate_Once(b, now) ==
    [cur |-> IF b.cur + Increase >= Original THEN Original ELSE b.cur + Increase,
     prev |-> b.cur, due |-> 0]

IncBitrate(b, now) ==
    LET cur == b.cur + Increase
    IN IF cur >= Original THEN [cur |-> Original, prev |-> b.cur, due |-> 0]
       ELSE [cur |-> cur, prev |-> b.cur, due |-> now + IncTimer]

RaiseWhenDue(b, now) ==
    IF b.due # 0 /\ now >= b.due THEN IncBitrate(b, now) ELSE b

\* dbr_bitrate_lowered: 0 when it returns false.
LowerBitrate(b) ==
    LET rounded == (estimate \div Grain) * Grain
    IN IF estimate # 0 /\ estimate < b.cur
       THEN IF rounded < Least THEN Least ELSE rounded
       ELSE IF b.prev = b.cur THEN 0 ELSE b.prev

Lowers(q, b) == Waits(q, Trigger - 1) /\ LowerBitrate(b) # 0

\* What check_to_drop_frames does to it when the packet i arrives.
CheckBitrate(i) ==
    LET b == RaiseWhenDue(bitrate, Dts(i))
    IN IF ~(course.dynamic /\ IsVideo(i)) THEN UNCHANGED <<bitrate, lowered>>
       ELSE IF Lowers(queue, b)
       THEN /\ bitrate' = [cur |-> LowerBitrate(b), prev |-> 0, due |-> Dts(i) + IncTimer]
            /\ lowered' = Dts(i)
       ELSE bitrate' = b /\ UNCHANGED lowered

-----------------------------------------------------------------------------
(* rtmp_stream_data, on the encoders' threads.                             *)

Arrive ==
    /\ producer = "idle" /\ hooked /\ arrived < Len(course.packets)
    /\ arrived' = arrived + 1
    /\ producer' = IF disconnected \/ ~active THEN "idle" ELSE "add"
    /\ UNCHANGED <<course, hooked, queueVars, sem, stopVars, senderVars, encodeError>>

Add ==
    /\ producer = "add"
    /\ IF disconnected
       THEN producer' = "idle" /\ UNCHANGED queueVars
       ELSE /\ queue' = AddPacket(queue, arrived)
            /\ CheckBitrate(arrived)
            /\ producer' = IF arrived \in queue'.packets THEN "post" ELSE "idle"
    /\ UNCHANGED <<course, hooked, arrived, sem, stopVars, senderVars, encodeError>>

\* Mutant: only a packet that comes alone wakes the send thread.
Wake_First == sem' = IF Cardinality(queue.packets) = 1 THEN sem + 1 ELSE sem
Wake == sem' = sem + 1

Post ==
    /\ producer = "post"
    /\ Wake
    /\ producer' = "idle"
    /\ UNCHANGED <<course, hooked, queueVars, arrived, stopVars, senderVars, encodeError>>

-----------------------------------------------------------------------------
(* send_thread.                                                            *)

\* Leaving the loop, the thread reads encode_error.
Leave == sender' = "left" /\ sawError' = encodeError

SemWait ==
    /\ sender = "wait" /\ sem > 0
    /\ sem' = sem - 1
    /\ IF stopEvent /\ stopTs = 0 THEN Leave
       ELSE sender' = "pop" /\ UNCHANGED sawError
    /\ UNCHANGED <<course, hooked, queueVars, stopVars, producerVars, hand,
                   disconnected, active, outcome, sent, estimate, encodeError>>

\* get_next_packet, and can_shutdown_stream, which may find that the time for
\* winding up has passed.  A packet that was dropped has left its post behind.
TakePacket ==
    /\ sender = "pop"
    /\ \/ /\ queue.packets = {}
          /\ sender' = "wait" /\ UNCHANGED <<queue, hand, sawError>>
       \/ \E i \in queue.packets :
            /\ \A j \in queue.packets : i <= j
            /\ queue' = [queue EXCEPT !.packets = @ \ {i}]
            /\ hand' = i
            /\ \/ stopEvent /\ Leave
               \/ /\ ~(stopEvent /\ Dts(i) >= stopTs)
                  /\ sender' = "send" /\ UNCHANGED sawError
    /\ UNCHANGED <<course, hooked, bitrate, lowered, sem, stopVars, producerVars,
                   disconnected, active, outcome, sent, estimate, encodeError>>

\* The packet is sent and the estimate brought up to date (dbr_add_frame), or the
\* connection is lost.
Send ==
    /\ sender = "send"
    /\ \/ /\ sent' = Append(sent, hand)
          /\ IF course.dynamic THEN estimate' \in Estimates ELSE UNCHANGED estimate
          /\ sender' = "wait"
          /\ UNCHANGED <<disconnected, sawError>>
       \/ /\ course.loses
          /\ disconnected' = TRUE
          /\ Leave
          /\ UNCHANGED <<sent, estimate>>
    /\ UNCHANGED <<course, hooked, queueVars, sem, stopVars, producerVars, hand,
                   active, outcome, encodeError>>

\* "reset bitrate on stop": without a mutex.
ResetBitrate ==
    /\ sender = "left"
    /\ bitrate' = IF course.dynamic THEN [bitrate EXCEPT !.cur = Original] ELSE bitrate
    /\ sender' = "tell"
    /\ UNCHANGED <<course, hooked, queue, lowered, sem, stopVars, producerVars, hand,
                   disconnected, sawError, active, outcome, sent, estimate, encodeError>>

TellOutcome ==
    /\ sender = "tell"
    /\ outcome' = IF ~stopEvent THEN "disconnected"
                  ELSE IF sawError THEN "encode_error" ELSE "success"
    /\ sender' = "free"
    /\ UNCHANGED <<course, hooked, queueVars, sem, stopVars, producerVars, hand,
                   disconnected, sawError, active, sent, estimate, encodeError>>

FreePackets ==
    /\ sender = "free"
    /\ queue' = [queue EXCEPT !.packets = {}]
    /\ sender' = "exit"
    /\ UNCHANGED <<course, hooked, bitrate, lowered, sem, stopVars, producerVars, hand,
                   disconnected, sawError, active, outcome, sent, estimate, encodeError>>

Exit ==
    /\ sender = "exit"
    /\ stopEvent' = FALSE /\ active' = FALSE
    /\ sender' = "ended"
    /\ UNCHANGED <<course, hooked, queueVars, sem, stopTs, caller, producerVars, hand,
                   disconnected, sawError, outcome, sent, estimate, encodeError>>

\* The output, told that the stream is over, lets go of the encoders.
Detach ==
    /\ outcome # "none" /\ hooked
    /\ hooked' = FALSE
    /\ UNCHANGED <<course, queueVars, sem, stopVars, producerVars, senderVars, encodeError>>

-----------------------------------------------------------------------------
(* rtmp_stream_stop, called by the user and by an encoder that has failed. *)

Now == IF arrived = 0 THEN 1 ELSE Dts(arrived)

StopAt(w, ts) ==
    /\ stopTs' = ts
    /\ caller' = [caller EXCEPT ![w] = IF active THEN "signal" ELSE "done"]
    /\ UNCHANGED <<course, hooked, queueVars, sem, stopEvent, producerVars, senderVars,
                   encodeError>>

UserStops ==
    /\ caller[User] = "idle" /\ active
    /\ \E s \in course.stops :
        /\ ~(stopEvent /\ s # 0)
        /\ StopAt(User, IF s = 0 THEN 0 ELSE Now + s)

\* full_stop: obs_output_force_stop, then encoded_packet without a packet.
EncoderFails ==
    /\ course.fails /\ caller[Encoder] = "idle" /\ hooked /\ active
    /\ StopAt(Encoder, 0)

SignalStop(w) ==
    /\ caller[w] = "signal"
    /\ stopEvent' = TRUE
    /\ sem' = IF stopTs = 0 THEN sem + 1 ELSE sem
    /\ caller' = [caller EXCEPT ![w] = IF w = Encoder THEN "error" ELSE "done"]
    /\ UNCHANGED <<course, hooked, queueVars, stopTs, producerVars, senderVars, encodeError>>

DeliverError ==
    /\ caller[Encoder] = "error" /\ producer = "idle"
    /\ IF disconnected \/ ~active THEN UNCHANGED <<encodeError, sem>>
       ELSE encodeError' = TRUE /\ sem' = sem + 1
    /\ caller' = [caller EXCEPT ![Encoder] = "done"]
    /\ UNCHANGED <<course, hooked, queueVars, stopTs, stopEvent, producerVars, senderVars>>

-----------------------------------------------------------------------------
Sender ==
    \/ SemWait \/ TakePacket \/ Send \/ ResetBitrate \/ TellOutcome \/ FreePackets \/ Exit
Producer == Add \/ Post
Stopper == DeliverError \/ \E w \in {User, Encoder} : SignalStop(w)

Next == Arrive \/ Producer \/ Sender \/ Detach \/ UserStops \/ EncoderFails \/ Stopper

Spec == Init /\ [][Next]_vars

\* Each thread runs on.  Nobody need deliver a packet or stop the stream.
FairSpec == Spec /\ WF_vars(Producer) /\ WF_vars(Sender) /\ WF_vars(Stopper)

-----------------------------------------------------------------------------
(* Properties.                                                             *)

\* The frames a frame cannot be decoded without, besides what those need: the
\* last one of its track that others refer to and, for a disposable one, the
\* low ones since.
Earlier(i, least) ==
    {j \in 1..(i - 1) : IsVideo(j) /\ Packet(j).track = Packet(i).track
                        /\ Packet(j).priority >= least}

Needs(i) ==
    IF ~IsVideo(i) \/ IsKey(i) THEN {}
    ELSE LET ref == Max(Earlier(i, High))
         IN {ref} \cup IF Packet(i).priority = Low THEN {}
                       ELSE {j \in Earlier(i, Low) : j > ref /\ Packet(i).priority = Disposable}

\* What the encoders owe the queue, which has one min_priority for all tracks: there
\* is a key frame before other frames, and a frame on which later ones of all tracks
\* wait, a key frame or one that is referred to, comes together with those of the
\* other tracks.  A single track that begins with a key frame is in step.
InStep(c) ==
    LET video(i) == c.packets[i].video
        level(i) == c.packets[i].priority
    IN \A i \in {n \in DOMAIN c.packets : video(n) /\ level(n) < Highest} :
        /\ \E j \in 1..(i - 1) : video(j) /\ level(j) = Highest
        /\ \A j \in 1..(i - 1) : video(j) /\ level(j) >= High /\ level(j) > level(i) =>
            \E k \in 1..(i - 1) :
                /\ video(k) /\ c.packets[k].track = c.packets[i].track
                /\ level(k) >= level(j)
                /\ \A m \in (j..k) \cup (k..j) : video(m) => level(m) >= level(j)

StreamsInStep == \A c \in Courses : InStep(c)

\* What is sent can be played, however frames are dropped while others wait, are
\* being added or sent: packets leave in order, no sound and no key frame is left
\* out, and a frame is sent only when those it needs were.
Playable ==
    /\ \A k \in 1..(Len(sent) - 1) : sent[k] < sent[k + 1]
    /\ \A k \in DOMAIN sent : Needs(sent[k]) \subseteq ToSet(sent)
    /\ sent # <<>> =>
        \A i \in 1..Last(sent) : (~IsVideo(i) \/ IsKey(i)) => i \in ToSet(sent)

\* A packet in the queue does not lie there while the send thread sleeps: it is
\* sent, dropped or freed.  And a forced stop ends the thread, whatever is queued.
SenderAnswers ==
    /\ queue.packets # {} ~> queue.packets = {} \/ sender = "ended"
    /\ stopEvent /\ stopTs = 0 ~> sender = "ended"

\* The dynamic bitrate stays in its range and, as long as it is not lowered again,
\* is back at the original after a fixed time.  A step is taken with the first
\* frame that comes when it is due, and the next one counts from there.
Steps == (Original - Least + Increase - 1) \div Increase

BitrateReturns ==
    /\ bitrate.cur \in Least..Original
    /\ bitrate.cur < Original =>
        queue.lastDts - lowered < Steps * IncTimer + (Steps - 1) * (Gap - 1)

\* When the stream has ended the encoder has its bitrate back.  The code does not
\* grant it: a packet that comes between ResetBitrate and Exit may lower it.
BitrateIsReset == sender = "ended" => bitrate.cur = Original

\* A failing encoder is told to the output.  The code does not grant it: the stop
\* wakes the send thread before encode_error is set.
ErrorIsTold == sender = "ended" /\ encodeError => outcome = "encode_error"
=============================================================================
