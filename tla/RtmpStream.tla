------------------------------ MODULE RtmpStream ------------------------------
(***************************************************************************)
(* The RTMP output (plugins/obs-outputs/rtmp-stream.c) on top of Output:   *)
(* the threads that connect and send, and what start and stop do to them.  *)
(*                                                                         *)
(* The network is a choice: a connection is made or refused, and one that  *)
(* is up may be lost whenever a packet is sent.                            *)
(***************************************************************************)
EXTENDS Output

CONSTANTS
    Courses,    \* the courses of events, one of them chosen at the start: is it
                \* calm, and the bounds on how often the user starts the stream,
                \* stops it or stops it by force, and on how often a connection
                \* is lost (drops) or refused; delay is the delay's mode
    LateLoss,   \* no connection is lost before begin_capture has returned: its
                \* few instructions are over when the first packet is sent
    EarlyForce  \* a delayed stream is stopped by force only while its start is
                \* still to come

ASSUME StreamAssumption ==
    /\ Courses \subseteq [calm : BOOLEAN, starts : Nat, stops : Nat, forces : Nat,
                          drops : Nat, refused : Nat, delay : Modes]
    /\ LateLoss \in BOOLEAN /\ EarlyForce \in BOOLEAN

VARIABLES
    connecting,     \* connecting
    streamActive,   \* active (the plugin's)
    stopEvent,      \* stop_event (manual reset)
    stopNow,        \* stop_ts = 0: stop without sending what is queued
    posted,         \* send_sem was posted by a forced stop
    budget          \* what is left of the bounds of the course

streamVars == <<connecting, streamActive, stopEvent, stopNow, posted>>
vars == <<outputVars, streamVars, budget>>

Init ==
    /\ OutputInit
    /\ connecting = FALSE /\ streamActive = FALSE
    /\ stopEvent = FALSE /\ stopNow = FALSE /\ posted = FALSE
    /\ budget \in Courses /\ calm = budget.calm /\ delay = NoDelay(budget.delay)

Spend(what) ==
    /\ budget[what] > 0
    /\ budget' = [budget EXCEPT ![what] = @ - 1]

-----------------------------------------------------------------------------
(* rtmp_stream_start.                                                      *)

\* The thread that ends the last capture is joined first (can_begin_data_capture).
\* A user, and the reconnect delay, are slower than the way out of connect_thread.
InfoStart(t) ==
    /\ At(t, "info_start")
    /\ IF Refuses
       THEN /\ GoOn(t, <<Frame("start_counted", FALSE)>>)
            /\ UNCHANGED connecting
       ELSE /\ delay.active \/ (ending => Ended(EndThread))
            /\ Ended(ConnectThread)
            /\ connecting' = TRUE
            /\ Spawn(t, <<Frame("start_counted", TRUE)>>, ConnectThread, "init_connect")
    /\ UNCHANGED <<captureVars, reconnectVars, stoppingEvent, stopCode, signals,
                   announced, streamActive, stopEvent, stopNow, posted, budget>>

(* connect_thread. *)

\* init_connect: wait for a send thread that is still stopping.
InitConnect(t) ==
    /\ At(t, "init_connect") /\ (stopEvent => Ended(SendThread))
    /\ GoOn(t, <<Do("try_connect")>>)
    /\ UNCHANGED <<captureVars, reconnectVars, stoppingEvent, stopCode, signals,
                   announced, streamVars, budget>>

\* try_connect has its answer.  (The handshake outlasts a send thread that has
\* nothing left to do but clear its flags.)
TryConnect(t) == At(t, "try_connect") /\ Ended(SendThread) /\ Undisturbed(t)

\* The connection is made, init_send starts the send thread.
Connected(t) ==
    /\ TryConnect(t)
    /\ streamActive' = TRUE
    /\ posted' = FALSE
    /\ Spawn(t, <<Do("begin_capture"), Do("connect_exit")>>, SendThread, "send_loop")
    /\ UNCHANGED <<captureVars, reconnectVars, stoppingEvent, stopCode, signals,
                   announced, connecting, stopEvent, stopNow, budget>>

Refused(t) ==
    /\ TryConnect(t)
    /\ Spend("refused")
    /\ GoOn(t, <<Frame("signal_stop", "connect_failed"), Do("connect_exit")>>)
    /\ UNCHANGED <<captureVars, reconnectVars, stoppingEvent, stopCode, signals,
                   announced, streamVars>>

ConnectExit(t) ==
    /\ At(t, "connect_exit")
    /\ connecting' = FALSE
    /\ Return(t)
    /\ UNCHANGED <<captureVars, reconnectVars, stoppingEvent, stopCode, signals,
                   announced, streamActive, stopEvent, stopNow, posted, budget>>

-----------------------------------------------------------------------------
(* send_thread.  Packets come as long as the encoders are hooked; sending  *)
(* one changes nothing here.                                               *)

\* A forced stop ends the loop at the next wakeup, the other kind at the first
\* packet that is newer than the stop.
MustStop_OnlyForced == stopEvent /\ stopNow /\ posted
MustStop == stopEvent /\ (Feeds \/ (stopNow /\ posted))

SendStops(t) ==
    /\ At(t, "send_loop") /\ MustStop
    /\ GoOn(t, <<Do("send_end")>>)
    /\ UNCHANGED <<captureVars, reconnectVars, stoppingEvent, stopCode, signals,
                   announced, streamVars, budget>>

SendFails(t) ==
    /\ At(t, "send_loop") /\ Feeds /\ ~(stopEvent /\ stopNow)
    /\ Undisturbed(t)
    /\ LateLoss => Ended(ConnectThread) \/ At(ConnectThread, "connect_exit")
    /\ Spend("drops")
    /\ GoOn(t, <<Do("send_end")>>)
    /\ UNCHANGED <<captureVars, reconnectVars, stoppingEvent, stopCode, signals,
                   announced, streamVars>>

SendEnd(t) ==
    /\ At(t, "send_end")
    /\ GoOn(t, <<IF stopEvent THEN Frame("end_capture", TRUE)
                              ELSE Frame("signal_stop", "disconnected"),
                 Do("send_reset")>>)
    /\ UNCHANGED <<captureVars, reconnectVars, stoppingEvent, stopCode, signals,
                   announced, streamVars, budget>>

ForgetStop_Skipped == UNCHANGED stopEvent
ForgetStop == stopEvent' = FALSE

SendReset(t) ==
    /\ At(t, "send_reset")
    /\ ForgetStop
    /\ GoOn(t, <<Do("send_exit")>>)
    /\ UNCHANGED <<captureVars, reconnectVars, stoppingEvent, stopCode, signals,
                   announced, connecting, streamActive, stopNow, posted, budget>>

SendExit(t) ==
    /\ At(t, "send_exit")
    /\ streamActive' = FALSE
    /\ Return(t)
    /\ UNCHANGED <<captureVars, reconnectVars, stoppingEvent, stopCode, signals,
                   announced, connecting, stopEvent, stopNow, posted, budget>>

-----------------------------------------------------------------------------
(* rtmp_stream_stop; the argument is force (ts = 0).                       *)

InfoStop(t) ==
    /\ At(t, "info_stop")
    /\ GoOn(t, IF stopEvent /\ ~Arg(t) THEN <<>>
               ELSE <<Frame("stop_join", Arg(t))>>)
    /\ UNCHANGED <<captureVars, reconnectVars, stoppingEvent, stopCode, signals,
                   announced, streamVars, budget>>

StopJoin(t) ==
    /\ At(t, "stop_join") /\ (connecting => Ended(ConnectThread))
    /\ stopNow' = Arg(t)
    /\ GoOn(t, <<IF streamActive THEN Frame("stop_send", Arg(t))
                 ELSE Frame("signal_stop", "success")>>)
    /\ UNCHANGED <<captureVars, reconnectVars, stoppingEvent, stopCode, signals,
                   announced, connecting, streamActive, stopEvent, posted, budget>>

StopSend(t) ==
    /\ At(t, "stop_send")
    /\ stopEvent' = TRUE
    /\ posted' = (posted \/ Arg(t))
    /\ Return(t)
    /\ UNCHANGED <<captureVars, reconnectVars, stoppingEvent, stopCode, signals,
                   announced, connecting, streamActive, stopNow, budget>>

-----------------------------------------------------------------------------
Start == UiStart /\ Spend("starts") /\ UNCHANGED streamVars
Stop == UiStop /\ Spend("stops") /\ UNCHANGED streamVars
ForceStop ==
    /\ EarlyForce /\ delay.mode # "none" => delay.refs > 0
    /\ UiForceStop /\ Spend("forces") /\ UNCHANGED streamVars

Step(t) ==
    \/ OutputStep(t) /\ UNCHANGED <<streamVars, budget>>
    \/ InfoStart(t) \/ InfoStop(t) \/ StopJoin(t) \/ StopSend(t)
    \/ InitConnect(t) \/ Connected(t) \/ Refused(t) \/ ConnectExit(t)
    \/ SendStops(t) \/ SendFails(t) \/ SendEnd(t) \/ SendReset(t) \/ SendExit(t)

Next ==
    /\ UNCHANGED calm
    /\ \/ Start \/ Stop \/ ForceStop
       \/ \E t \in Threads : Step(t)

Spec == Init /\ [][Next]_vars

\* Every thread runs on; the encoders go on producing packets.  Nothing obliges
\* the user to act or the network to fail.
Progress(t) == Step(t) /\ UNCHANGED <<budget, calm>>
FairSpec == Spec /\ \A t \in Threads : WF_vars(Progress(t))

-----------------------------------------------------------------------------
(* Properties.                                                             *)

\* Nobody has anything left to do, nobody sends, and no delayed message is to come.
Quiet == (\A t \in Threads : Ended(t)) /\ ~(encoders /\ delay.data # <<>>)

\* What the user is told is a session: the signals come in the order the button
\* and the status bar follow, "stop" once and last, and a session is not left
\* connecting or reconnecting for ever.  A start that has succeeded is announced
\* with one "starting" before the next call, at whatever moment of the session.
Session == INSTANCE StreamSession
TellsASession == Session!FairSpec

\* When all threads have ended, after a stop or the loss of the connection, the
\* output has let go of everything: no encoder feeds it, it is neither active nor
\* reconnecting, and the next start will not wait for the end of this one. Nor
\* is a flag of the plugin left behind: a stop_event that is still set would end
\* the next stream at its first packet.
EverythingReset ==
    Quiet => /\ ~active /\ ~dataActive /\ ~encoders /\ ~ending
             /\ ~reconnecting /\ stoppingEvent
             /\ ~connecting /\ ~streamActive /\ ~stopEvent
             /\ delay = NoDelay(delay.mode)

\* A stream does not end without the user being told.
ToldOfTheEnd == Quiet => signals = <<>> \/ Over

\* The user is answered: no call of the user interface blocks for ever, and a
\* stream that the user stops ends with the signal that says so.
Stopping == At(Ui, "actual_stop") \/ At(Ui, "delay_stop")
UserIsAnswered ==
    /\ stack[Ui] # <<>> ~> stack[Ui] = <<>>
    /\ Stopping ~> Over
=============================================================================
