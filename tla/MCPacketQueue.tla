---------------------------- MODULE MCPacketQueue ----------------------------
(* Streams for TLC, a letter for each packet.                               *)
EXTENDS PacketQueue

Letters ==
    [I |-> Highest, P |-> High, B |-> Low, b |-> Disposable]

\* Video takes one unit of time, sound comes with the video before it.
VideoUpTo(s, k) == Cardinality({j \in 1..k : s[j] # "A"})
OneTrack(s) ==
    [k \in DOMAIN s |->
        [video |-> s[k] # "A", track |-> 0, dts |-> VideoUpTo(s, k),
         priority |-> IF s[k] = "A" THEN Disposable ELSE Letters[s[k]]]]

\* Each letter stands for two packets of the same time.
TwoTracks(s) ==
    [k \in 1..(2 * Len(s)) |->
        [video |-> TRUE, track |-> k % 2, dts |-> (k + 1) \div 2,
         priority |-> Letters[s[(k + 1) \div 2]]]]

Course(packets, dynamic, loses, fails, stops) ==
    [packets |-> packets, dynamic |-> dynamic, loses |-> loses, fails |-> fails,
     stops |-> stops]

\* The frames come one and two units of time apart.
Spread(packets) ==
    [k \in DOMAIN packets |-> [packets[k] EXCEPT !.dts = (3 * @) \div 2]]

Group == <<"I", "A", "P", "B", "b", "P", "A", "B", "b", "P", "b", "I", "P", "b">>
Plain == <<"I", "P", "P", "P", "P", "P", "P", "P", "P", "P">>
Pairs == <<"I", "P", "B", "b", "P", "b", "I", "P">>

\* A stream in peace, one that is stopped or lost, two tracks at once; then, with
\* the dynamic bitrate, a long one and one that is stopped or whose encoder fails.
MCCourses ==
    {Course(OneTrack(Group), FALSE, FALSE, FALSE, {}),
     Course(OneTrack(SubSeq(Group, 1, 7)), FALSE, TRUE, FALSE, {0, 2}),
     Course(TwoTracks(Pairs), FALSE, FALSE, FALSE, {}),
     Course(Spread(OneTrack(Plain)), TRUE, FALSE, FALSE, {}),
     Course(OneTrack(SubSeq(Plain, 1, 5)), TRUE, FALSE, TRUE, {0, 2})}

\* The theorem about Playable is about such streams.
ASSUME MCCoursesInStep == \A c \in MCCourses : InStep(c)

\* Two tracks, of which one has no second key frame: see the README.
OutOfStep ==
    LET letters == <<"I", "P", "P", "P", "P", "P", "P", "I", "P">>
    IN {Course([TwoTracks(letters) EXCEPT ![16].priority = High], FALSE, FALSE, FALSE, {})}
=============================================================================
