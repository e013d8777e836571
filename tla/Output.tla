-------------------------------- MODULE Output --------------------------------
(***************************************************************************)
(* The life of an encoded libobs output (libobs/obs-output.c): starting,   *)
(* capturing, stopping, reconnecting.  The functions are called by several *)
(* threads at once: the user interface, the threads of the output plugin,  *)
(* the thread that ends a capture and the threads that reconnect.          *)
(*                                                                         *)
(* stack[t] is what thread t has still to do: a sequence of frames, each a *)
(* place in a function with its argument.  An action takes the first frame *)
(* of a thread; a call puts the frames of the callee in front.  A thread   *)
(* whose stack is empty has ended (the user interface: is idle).           *)
(*                                                                         *)
(* With a stream delay (libobs/obs-output-delay.c) starting only hooks the *)
(* encoders and queues a message behind their packets; the encoders'       *)
(* thread carries it out when it comes to the front.  Packets themselves,  *)
(* captions and statistics are left out.  A module that models a plugin    *)
(* takes the frames "info_start" and "info_stop" (obs_output_info.start    *)
(* and stop).                                                              *)
(***************************************************************************)
EXTENDS Naturals, Sequences, FiniteSets

CONSTANTS
    Ui,             \* the thread of the user interface
    ConnectThread,  \* connect_thread of the plugin
    SendThread,     \* send_thread of the plugin
    EndThread,      \* end_data_capture_thread
    EncoderThread,  \* the thread of an encoder, in process_delay
    RetryMax,       \* reconnect_retry_max
    MaxThreads      \* bound: reconnect threads ever created

Reconnectors == 1..MaxThreads
Named == {Ui, ConnectThread, SendThread, EndThread, EncoderThread}
Threads == Named \cup Reconnectors

ASSUME OutputAssumption ==
    /\ RetryMax \in Nat /\ MaxThreads \in Nat
    /\ Cardinality(Named) = 5 /\ Named \cap Nat = {}

VARIABLES
    stack,              \* what each thread has still to do
    active,             \* active
    dataActive,         \* data_active
    reconnecting,       \* reconnecting
    stoppingEvent,      \* stopping_event (manual reset): is it signalled
    reconnectStop,      \* reconnect_stop_event (manual reset)
    reconnectActive,    \* reconnect_thread_active
    reconnectThread,    \* reconnect_thread, 0 when there was none
    retries,            \* reconnect_retries
    stopCode,           \* stop_code
    ending,             \* end_data_capture_thread_active
    encoders,           \* are the encoders hooked to this output
    delay,              \* the stream delay, see NoDelay
    \* the surroundings, chosen once: when set, the user acts, a connection is
    \* lost and a delay expires only when every other thread waits for just that
    calm,
    \* what the signals of the output have told the user interface
    signals,            \* "called" when the user calls obs_output_start, the
                        \* signals since then but "starting", and "failed" when
                        \* it returns false
    announced           \* how often "starting" has come since the call

hookVars == <<active, dataActive, encoders, ending>>
captureVars == <<hookVars, delay>>
reconnectVars == <<reconnecting, reconnectStop, reconnectActive,
                   reconnectThread, retries>>
outputVars == <<stack, captureVars, reconnectVars, stoppingEvent, stopCode,
                calm, signals, announced>>

\* delay_active, delay_capturing, delay_restart_refs, the messages in delay_data
\* and whether active_delay_ns is set; the mode is delay_sec and delay_flags.
Modes == {"none", "plain", "preserve"}
NoDelay(mode) == [mode |-> mode, active |-> FALSE, capturing |-> FALSE,
                  refs |-> 0, data |-> <<>>, set |-> FALSE]

OutputInit ==
    /\ stack = [t \in Threads |-> <<>>]
    /\ active = FALSE /\ dataActive = FALSE /\ encoders = FALSE /\ ending = FALSE
    /\ reconnecting = FALSE /\ reconnectStop = FALSE /\ reconnectActive = FALSE
    /\ reconnectThread = 0 /\ retries = 0
    /\ stoppingEvent = TRUE /\ stopCode = "success"
    /\ signals = <<>> /\ announced = 0

-----------------------------------------------------------------------------
(* Frames.                                                                 *)

Frame(place, arg) == <<place, arg>>
Do(place) == Frame(place, "none")

At(t, place) == stack[t] # <<>> /\ Head(stack[t])[1] = place
Arg(t) == Head(stack[t])[2]
Ended(t) == stack[t] = <<>>

\* Where a thread waits for the network, for a delay, for the connection another
\* thread makes, or for a packet to send while nobody has asked it to stop.
AtWait(t) ==
    \/ Ended(t) \/ At(t, "try_connect") \/ At(t, "reconnect_wait")
    \/ At(t, "stop_join") /\ ~Ended(ConnectThread)
    \/ At(t, "send_loop") /\ stoppingEvent
Undisturbed(t) == calm => \A u \in Threads \ {t} : AtWait(u)

\* Thread t goes on with the given frames, then with what it had to do before.
GoOn(t, frames) == stack' = [stack EXCEPT ![t] = frames \o Tail(@)]
Return(t) == GoOn(t, <<>>)

\* The same, and a new thread begins at a place.
Spawn(t, frames, new, place) ==
    stack' = [stack EXCEPT ![t] = frames \o Tail(@), ![new] = <<Do(place)>>]

Signal(s) == signals' = Append(signals, s)

-----------------------------------------------------------------------------
(* obs_output_actual_start: wait until the last stop is over, then start.  *)

ActualStart(t) ==
    /\ At(t, "actual_start") /\ stoppingEvent
    /\ stopCode' = "success"
    /\ GoOn(t, <<Do("info_start")>>)
    /\ UNCHANGED <<captureVars, reconnectVars, stoppingEvent, signals, announced>>

\* Mutant: a start is not taken off the count.
CountStart_Never == UNCHANGED delay
CountStart == delay' = [delay EXCEPT !.refs = IF @ > 0 THEN @ - 1 ELSE 0]

\* Its argument is what the plugin's start has returned.  A start that has failed
\* is told by obs_output_start's own return value.
StartCounted(t) ==
    /\ At(t, "start_counted")
    /\ CountStart
    /\ GoOn(t, IF t = Ui /\ Arg(t) THEN <<Do("announce")>> ELSE <<>>)
    /\ IF t = Ui /\ ~Arg(t) THEN Signal("failed") ELSE UNCHANGED signals
    /\ UNCHANGED <<hookVars, reconnectVars, stoppingEvent, stopCode, announced>>

\* obs_output_start, once the plugin has started: its threads may have come any
\* distance by now.
Announce(t) ==
    /\ At(t, "announce")
    /\ announced' = announced + 1
    /\ Return(t)
    /\ UNCHANGED <<captureVars, reconnectVars, stoppingEvent, stopCode, signals>>

-----------------------------------------------------------------------------
(* Before the plugin connects: can_begin_data_capture refuses an output    *)
(* that is active without a delay, the encoders are initialised.           *)

Refuses == active /\ ~delay.active

(* obs_output_begin_data_capture, called by the plugin once it is          *)
(* connected, and by a start with a delay: the steps between which another *)
(* thread may look.                                                        *)

BeginCapture(t) ==
    /\ At(t, "begin_capture")
    /\ IF delay.active \/ active
       THEN IF delay.active /\ ~delay.capturing
            THEN /\ delay' = [delay EXCEPT !.capturing = TRUE]
                 /\ GoOn(t, <<Frame("signal_start", FALSE)>>)
                 /\ UNCHANGED dataActive
            ELSE Return(t) /\ UNCHANGED <<dataActive, delay>>
       ELSE /\ dataActive' = TRUE
            /\ GoOn(t, <<Do("hook_capture")>>)
            /\ UNCHANGED delay
    /\ UNCHANGED <<active, encoders, ending, reconnectVars, stoppingEvent,
                   stopCode, signals, announced>>

HookCapture(t) ==
    /\ At(t, "hook_capture")
    /\ encoders' = TRUE
    /\ delay' = IF delay.mode = "none" THEN delay
                ELSE [delay EXCEPT !.active = TRUE, !.set = TRUE]
    /\ GoOn(t, <<Do("activate")>>)
    /\ UNCHANGED <<active, dataActive, ending, reconnectVars, stoppingEvent,
                   stopCode, signals, announced>>

Activate(t) ==
    /\ At(t, "activate")
    /\ active' = TRUE
    /\ GoOn(t, <<Frame("signal_start", TRUE)>>)
    /\ UNCHANGED <<dataActive, encoders, ending, delay, reconnectVars, stoppingEvent,
                   stopCode, signals, announced>>

\* hooked: this call has hooked the encoders.
StartSignal(hooked) ==
    IF reconnecting THEN "reconnect_success"
    ELSE IF hooked /\ delay.active THEN "starting" ELSE "start"

SignalStart(t) ==
    /\ At(t, "signal_start")
    /\ LET s == StartSignal(Arg(t)) IN
       IF s = "starting" THEN announced' = announced + 1 /\ UNCHANGED signals
                         ELSE Signal(s) /\ UNCHANGED announced
    /\ GoOn(t, IF reconnecting THEN <<Do("reconnected")>> ELSE <<>>)
    /\ UNCHANGED <<captureVars, reconnectVars, stoppingEvent, stopCode>>

\* The flag is cleared when the user has been told.
Reconnected(t) ==
    /\ At(t, "reconnected")
    /\ reconnecting' = FALSE
    /\ Return(t)
    /\ UNCHANGED <<captureVars, reconnectStop, reconnectActive, reconnectThread,
                   retries, stoppingEvent, stopCode, signals, announced>>

-----------------------------------------------------------------------------
(* obs_output_end_data_capture_internal; the argument is its parameter     *)
(* signal.                                                                 *)

StopIsOver == stoppingEvent' = TRUE

\* The encoders stay hooked while a delayed start is still to come.
StartsAgain == delay.active /\ delay.refs > 0

EndCapture(t) ==
    /\ At(t, "end_capture")
    /\ \/ /\ active /\ dataActive
          /\ delay' = IF delay.active
                      THEN [delay EXCEPT !.capturing = FALSE, !.active = StartsAgain]
                      ELSE delay
          /\ IF StartsAgain THEN StopIsOver /\ Return(t)
             ELSE GoOn(t, <<Frame("take_capture", Arg(t))>>) /\ UNCHANGED stoppingEvent
          /\ UNCHANGED <<signals, stopCode>>
       \/ /\ ~(active /\ dataActive)
          /\ IF Arg(t) THEN Signal("stop") /\ stopCode' = "success" /\ StopIsOver
             ELSE UNCHANGED <<signals, stopCode, stoppingEvent>>
          /\ Return(t)
          /\ UNCHANGED delay
    /\ UNCHANGED <<hookVars, reconnectVars, announced>>

TakeCapture(t) ==
    /\ At(t, "take_capture")
    /\ dataActive' = FALSE
    /\ GoOn(t, <<Frame("join_end", Arg(t))>>)
    /\ UNCHANGED <<active, encoders, ending, delay, reconnectVars, stoppingEvent,
                   stopCode, signals, announced>>

\* Join the thread that ended the capture before this one, start another.
JoinEnd(t) ==
    /\ At(t, "join_end") /\ (ending => Ended(EndThread))
    /\ ending' = TRUE
    /\ Spawn(t, <<Frame("signal_stopped", Arg(t))>>, EndThread, "stop_encoders")
    /\ UNCHANGED <<active, dataActive, encoders, delay, reconnectVars, stoppingEvent,
                   stopCode, signals, announced>>

SignalStopped(t) ==
    /\ At(t, "signal_stopped")
    /\ IF Arg(t) THEN Signal("stop") /\ stopCode' = "success"
                 ELSE UNCHANGED <<signals, stopCode>>
    /\ Return(t)
    /\ UNCHANGED <<captureVars, reconnectVars, stoppingEvent, announced>>

(* end_data_capture_thread. *)

\* obs_encoder_stop waits until the encoder has come back from its callbacks.
\* obs_output_cleanup_delay drops the messages that are left, without a lock.
StopEncoders(t) ==
    /\ At(t, "stop_encoders") /\ Ended(EncoderThread)
    /\ encoders' = FALSE
    /\ delay' = IF delay.set THEN [delay EXCEPT !.set = FALSE, !.refs = 0, !.data = <<>>]
                ELSE delay
    /\ GoOn(t, <<Do("deactivate")>>)
    /\ UNCHANGED <<active, dataActive, ending, reconnectVars, stoppingEvent,
                   stopCode, signals, announced>>

Deactivate(t) ==
    /\ At(t, "deactivate")
    /\ active' = FALSE
    /\ GoOn(t, <<Do("stopped")>>)
    /\ UNCHANGED <<dataActive, encoders, ending, delay, reconnectVars, stoppingEvent,
                   stopCode, signals, announced>>

Stopped(t) ==
    /\ At(t, "stopped")
    /\ StopIsOver
    /\ GoOn(t, <<Do("end_exit")>>)
    /\ UNCHANGED <<captureVars, reconnectVars, stopCode, signals, announced>>

EndExit(t) ==
    /\ At(t, "end_exit")
    /\ ending' = FALSE
    /\ Return(t)
    /\ UNCHANGED <<active, dataActive, encoders, delay, reconnectVars, stoppingEvent,
                   stopCode, signals, announced>>

-----------------------------------------------------------------------------
(* obs_output_signal_stop; the argument is the code.                       *)

CanReconnect(code) ==
    \/ reconnecting /\ code # "success"
    \/ RetryMax # 0 /\ code = "disconnected"

SignalStop(t) ==
    /\ At(t, "signal_stop")
    /\ stopCode' = Arg(t)
    /\ IF CanReconnect(Arg(t))
       THEN /\ GoOn(t, <<Frame("end_capture", FALSE), Do("reconnect")>>)
            /\ delay' = IF delay.active THEN [delay EXCEPT !.refs = @ + 1] ELSE delay
            /\ UNCHANGED reconnecting
       ELSE /\ reconnecting' = FALSE
            /\ delay' = [delay EXCEPT !.active = FALSE]
            /\ GoOn(t, <<Frame("end_capture", TRUE)>>)
    /\ UNCHANGED <<hookVars, reconnectStop, reconnectActive, reconnectThread,
                   retries, stoppingEvent, signals, announced>>

(* output_reconnect. *)

Attempts == IF reconnecting THEN retries ELSE 0

OutOfRetries == Attempts >= RetryMax

StoppedByUser == reconnecting /\ reconnectStop

GiveUp_Forgets == UNCHANGED reconnecting
GiveUp == reconnecting' = FALSE

AfterLastRetry_Nothing == <<>>
AfterLastRetry == <<Frame("end_capture", TRUE)>>

Reconnect(t) ==
    /\ At(t, "reconnect")
    /\ \/ /\ StoppedByUser
          /\ reconnecting' = FALSE
          /\ Return(t)
          /\ UNCHANGED <<retries, stopCode, delay>>
       \/ /\ ~StoppedByUser /\ OutOfRetries
          /\ retries' = Attempts
          /\ stopCode' = "disconnected"
          /\ GiveUp
          /\ delay' = [delay EXCEPT !.active = FALSE]
          /\ GoOn(t, AfterLastRetry)
       \/ /\ ~StoppedByUser /\ ~OutOfRetries
          /\ retries' = Attempts
          /\ reconnecting' = TRUE
          /\ GoOn(t, IF reconnecting THEN <<Do("reconnect_spawn")>>
                     ELSE <<Do("reconnect_reset"), Do("reconnect_spawn")>>)
          /\ UNCHANGED <<stopCode, delay>>
    /\ UNCHANGED <<hookVars, reconnectStop, reconnectActive, reconnectThread,
                   stoppingEvent, signals, announced>>

ReconnectReset(t) ==
    /\ At(t, "reconnect_reset")
    /\ reconnectStop' = FALSE
    /\ Return(t)
    /\ UNCHANGED <<captureVars, reconnecting, reconnectActive, reconnectThread,
                   retries, stoppingEvent, stopCode, signals, announced>>

ReconnectSpawn(t) ==
    /\ At(t, "reconnect_spawn") /\ reconnectThread < MaxThreads
    /\ retries' = retries + 1
    /\ stopCode' = "disconnected"
    /\ reconnectThread' = reconnectThread + 1
    /\ Spawn(t, <<Do("signal_reconnect")>>, reconnectThread', "reconnect_enter")
    /\ UNCHANGED <<captureVars, reconnecting, reconnectStop, reconnectActive,
                   stoppingEvent, signals, announced>>

SignalReconnect(t) ==
    /\ At(t, "signal_reconnect")
    /\ Signal("reconnect")
    /\ Return(t)
    /\ UNCHANGED <<captureVars, reconnectVars, stoppingEvent, stopCode, announced>>

(* reconnect_thread. *)

ReconnectEnter(t) ==
    /\ At(t, "reconnect_enter")
    /\ reconnectActive' = TRUE
    /\ GoOn(t, <<Do("reconnect_wait")>>)
    /\ UNCHANGED <<captureVars, reconnecting, reconnectStop, reconnectThread,
                   retries, stoppingEvent, stopCode, signals, announced>>

\* The delay (two seconds or more) outlasts the way out of the threads that end
\* the lost connection: they have ended when it expires.  A thread that sends
\* goes on.
DelayExpired(t) ==
    /\ ~reconnectStop /\ Undisturbed(t)
    /\ \A u \in Threads \ {t, Ui} : Ended(u) \/ At(u, "send_loop")

ReconnectWait(t) ==
    /\ At(t, "reconnect_wait")
    /\ \/ reconnectStop /\ GoOn(t, <<Do("reconnect_try")>>)
       \/ DelayExpired(t) /\ GoOn(t, <<Do("actual_start"), Do("reconnect_try")>>)
    /\ UNCHANGED <<captureVars, reconnectVars, stoppingEvent, stopCode, signals, announced>>

\* Either the thread detaches itself, or a stop has asked it to give up.
ReconnectTry(t) ==
    /\ At(t, "reconnect_try")
    /\ reconnecting' = (reconnecting /\ ~reconnectStop)
    /\ GoOn(t, <<Do("reconnect_exit")>>)
    /\ UNCHANGED <<captureVars, reconnectStop, reconnectActive, reconnectThread,
                   retries, stoppingEvent, stopCode, signals, announced>>

ReconnectExit(t) ==
    /\ At(t, "reconnect_exit")
    /\ reconnectActive' = FALSE
    /\ Return(t)
    /\ UNCHANGED <<captureVars, reconnecting, reconnectStop, reconnectThread,
                   retries, stoppingEvent, stopCode, signals, announced>>

-----------------------------------------------------------------------------
(* obs_output_actual_stop; the argument is force, with which libobs passes *)
(* ts = 0 to the plugin.                                                   *)

ActualStop(t) ==
    /\ At(t, "actual_stop")
    /\ IF ~stoppingEvent /\ ~Arg(t)
       THEN Return(t) /\ UNCHANGED stoppingEvent
       ELSE /\ stoppingEvent' = FALSE
            /\ GoOn(t, <<Do("stop_reconnect"),
                         IF Arg(t) THEN Do("force_stop") ELSE Frame("info_stop", FALSE)>>)
    /\ UNCHANGED <<captureVars, reconnectVars, stopCode, signals, announced>>

\* With a delay the capture is ended at once, and the plugin is stopped only when
\* it has begun its own.  (was_reconnecting is never true then: a delay becomes
\* active when the encoders are hooked, before there is a connection to lose.)
StopDelayed(t) ==
    /\ At(t, "force_stop")
    /\ IF delay.active
       THEN /\ delay' = [delay EXCEPT !.active = FALSE, !.capturing = FALSE]
            /\ stopCode' = "success"
            /\ GoOn(t, <<Frame("end_capture", TRUE),
                         Frame("delay_stopped", delay.capturing)>>)
       ELSE GoOn(t, <<Frame("info_stop", TRUE)>>) /\ UNCHANGED <<delay, stopCode>>
    /\ UNCHANGED <<hookVars, reconnectVars, stoppingEvent, signals, announced>>

DelayStopped(t) ==
    /\ At(t, "delay_stopped")
    /\ StopIsOver
    /\ GoOn(t, IF Arg(t) THEN <<Frame("info_stop", TRUE)>> ELSE <<>>)
    /\ UNCHANGED <<captureVars, reconnectVars, stopCode, signals, announced>>

CancelDelay_Silent == UNCHANGED reconnectStop
CancelDelay == reconnectStop' = (reconnectStop \/ reconnecting)

StopReconnect(t) ==
    /\ At(t, "stop_reconnect")
    /\ CancelDelay
    /\ GoOn(t, IF reconnecting THEN <<Do("check_reconnect")>> ELSE <<>>)
    /\ UNCHANGED <<captureVars, reconnecting, reconnectActive, reconnectThread,
                   retries, stoppingEvent, stopCode, signals, announced>>

CheckReconnect(t) ==
    /\ At(t, "check_reconnect")
    /\ GoOn(t, IF reconnectActive THEN <<Frame("join_reconnect", reconnectThread)>>
               ELSE <<>>)
    /\ UNCHANGED <<captureVars, reconnectVars, stoppingEvent, stopCode, signals, announced>>

JoinReconnect(t) ==
    /\ At(t, "join_reconnect") /\ Ended(Arg(t))
    /\ Return(t)
    /\ UNCHANGED <<captureVars, reconnectVars, stoppingEvent, stopCode, signals, announced>>

-----------------------------------------------------------------------------
(* The stream delay.                                                       *)

\* obs_output_delay_start, of an output that is not active; the thread that ended
\* the last capture is joined first.
DelayStart(t) ==
    /\ At(t, "delay_start") /\ (ending => Ended(EndThread))
    /\ delay' = [delay EXCEPT !.data = Append(@, "start"), !.refs = @ + 1]
    /\ GoOn(t, <<Do("begin_capture")>>)
    /\ UNCHANGED <<hookVars, reconnectVars, stoppingEvent, stopCode, signals, announced>>

\* obs_output_delay_stop
DelayStop(t) ==
    /\ At(t, "delay_stop")
    /\ delay' = [delay EXCEPT !.data = Append(@, "stop")]
    /\ Return(t)
    /\ UNCHANGED <<hookVars, reconnectVars, stoppingEvent, stopCode, signals, announced>>

\* pop_packet and process_delay_data: the message at the front has waited for the
\* delay.  The start of a stream, and the user between a start and a stop, take
\* less time than a delay and more than a message: they come one at a time.
Matures == delay.data # <<>> /\ ~(delay.mode = "preserve" /\ reconnecting)

ProcessDelay(t) ==
    /\ t = EncoderThread /\ Ended(t) /\ Undisturbed(t)
    /\ encoders /\ active /\ ~At(Ui, "signal_start") /\ Matures
    /\ delay' = [delay EXCEPT !.data = Tail(@)]
    /\ stack' = [stack EXCEPT ![t] =
                     IF Head(delay.data) = "start" THEN <<Do("actual_start")>>
                     ELSE <<Frame("actual_stop", FALSE)>>]
    /\ UNCHANGED <<hookVars, reconnectVars, stoppingEvent, stopCode, signals, announced>>

\* Packets reach the plugin.
Feeds == encoders /\ (delay.set => delay.active /\ delay.capturing)

-----------------------------------------------------------------------------
(* The user interface.                                                     *)
(*                                                                         *)
(* The frontend starts a stream when the last one has told it that it is   *)
(* over, and stops one that obs_output_active calls active.  A       *)
(* second stop is StopStreaming(streamingStopping): it is forced.          *)

Over == signals # <<>> /\ signals[Len(signals)] \in {"stop", "failed"}
Streaming == active \/ reconnecting

UiStart ==
    /\ Ended(Ui) /\ Undisturbed(Ui) /\ ~Streaming
    /\ signals = <<>> \/ Over
    /\ stack' = [stack EXCEPT ![Ui] =
                     <<Do(IF delay.mode = "none" THEN "actual_start" ELSE "delay_start")>>]
    /\ signals' = <<"called">> /\ announced' = 0
    /\ UNCHANGED <<captureVars, reconnectVars, stoppingEvent, stopCode>>

\* obs_output_stop, which forces the stop of an output that reconnects.
UiStop ==
    /\ Ended(Ui) /\ Undisturbed(Ui) /\ Streaming
    /\ reconnecting \/ delay.set \/ stoppingEvent
    /\ stopCode' = IF reconnecting /\ stoppingEvent THEN "success" ELSE stopCode
    /\ stack' = [stack EXCEPT ![Ui] =
                     IF ~reconnecting /\ delay.set THEN <<Do("delay_stop")>>
                     ELSE <<Frame("actual_stop", reconnecting)>>]
    /\ UNCHANGED <<captureVars, reconnectVars, stoppingEvent, signals, announced>>

UiForceStop ==
    /\ Ended(Ui) /\ Undisturbed(Ui) /\ Streaming
    /\ stopCode' = IF stoppingEvent THEN "success" ELSE stopCode
    /\ stack' = [stack EXCEPT ![Ui] = <<Frame("actual_stop", TRUE)>>]
    /\ UNCHANGED <<captureVars, reconnectVars, stoppingEvent, signals, announced>>

-----------------------------------------------------------------------------
OutputStep(t) ==
    \/ ActualStart(t) \/ StartCounted(t) \/ Announce(t)
    \/ BeginCapture(t) \/ HookCapture(t) \/ Activate(t) \/ SignalStart(t)
    \/ Reconnected(t)
    \/ EndCapture(t) \/ TakeCapture(t) \/ JoinEnd(t) \/ SignalStopped(t)
    \/ StopEncoders(t) \/ Deactivate(t) \/ Stopped(t) \/ EndExit(t)
    \/ SignalStop(t) \/ Reconnect(t) \/ ReconnectReset(t) \/ ReconnectSpawn(t)
    \/ SignalReconnect(t) \/ ReconnectEnter(t) \/ ReconnectWait(t) \/ ReconnectTry(t)
    \/ ReconnectExit(t)
    \/ ActualStop(t) \/ StopReconnect(t) \/ CheckReconnect(t) \/ JoinReconnect(t)
    \/ StopDelayed(t) \/ DelayStopped(t)
    \/ DelayStart(t) \/ DelayStop(t) \/ ProcessDelay(t)
=============================================================================
