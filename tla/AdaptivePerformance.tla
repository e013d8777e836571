------------------------ MODULE AdaptivePerformance -------------------------
(***************************************************************************)
(* What PresenterPanel (frontend/widgets/PresenterPanel.cpp) does with the *)
(* adaptive controller while the user streams and records: the sample of   *)
(* every second, the bitrate it gives the shared encoder, the restricted   *)
(* interface, and the fallback that stops the stream, lowers the           *)
(* resolution and starts it again.                                         *)
(*                                                                         *)
(* The interface thread runs its handlers one at a time; each is an        *)
(* action.  The stream output lives on other threads (Output.tla has them  *)
(* in detail) and reaches the interface through queued events, so here it  *)
(* is a small automaton whose changes interleave with the handlers.        *)
(***************************************************************************)
EXTENDS AdaptivePolicy, Sequences

CONSTANTS
    FallbackLimit,      \* 60 severe samples at the minimum start a fallback
    MaxRestarts,        \* 2 fallbacks in the life of the panel
    Bitrates,           \* bitrates the user may set in the dialog
    FirstBitrate,       \* the one loaded from the settings
    DynamicBitrate,     \* does the encoder have OBS_ENCODER_CAP_DYN_BITRATE?
    SecondEnabled,      \* is the second destination configured?
    ServiceMaximum,     \* the highest bitrate the service of the first destination
                        \* recommends at each resolution; 0 where it has none or
                        \* the profile ignores it
    Courses             \* the courses of events, one of them chosen at the start.
                        \* Bounds on clicks on the stream button (clicks) and the
                        \* record button (recordings), settings dialogs accepted
                        \* (saves), streams lost or refused by the server (losses);
                        \* may StreamingStopped be handled before the encoders of
                        \* the ended stream have been detached (slow); does the
                        \* user click while a fallback is under way (impatient)

(* What the dialog lets the user set, and what is loaded is clamped to.    *)
DialogBitrates == {b \in Nat : 1000 <= b /\ b <= 51000}

ASSUME PanelAssumption ==
    /\ FallbackLimit \in Nat \ {0, 1}
    /\ MaxRestarts \in Nat
    /\ Bitrates \subseteq DialogBitrates /\ FirstBitrate \in Bitrates
    /\ {DynamicBitrate, SecondEnabled} \subseteq BOOLEAN
    /\ ServiceMaximum \in [{480, 720, 1080} -> {0} \cup DialogBitrates]
    /\ Courses \subseteq [clicks : Nat, recordings : Nat, saves : Nat, losses : Nat,
                          slow : BOOLEAN, impatient : BOOLEAN]

VARIABLES
    ctl,                \* adaptivePerformance
    ui,                 \* adaptiveUiConstrained
    severe,             \* adaptiveSevereNetworkSamples
    userBitrate,        \* streamVideoBitrate
    sessionMaximum,     \* adaptiveSessionMaximumBitrate
    encoderBitrate,     \* "bitrate" of the settings of the stream encoder
    configHeight,       \* Video/OutputCY of the profile
    videoHeight,        \* output_height of obs_get_video_info
    fallback,           \* "none", "stopping" (adaptiveResolutionRestartPending)
                        \* or "waiting" (the 1200 ms timer runs)
    restarts,           \* adaptiveResolutionRestarts
    output,             \* the stream output: "idle", "connecting", "live",
                        \* "stopping" or "ending" (its encoders still attached)
    handlerActive,      \* streamingActive of the output handler
    events,             \* queued calls of StreamingStart and StreamingStop
    secondary,          \* secondaryStreamOutput is active
    recording,          \* the recording output is active
    wanted,             \* history: the user started the stream and did not stop it
    lost,               \* history: the network ended it
    course,             \* the course of events
    budget              \* bound: what is left of its bounds

controls == <<ctl, ui, severe>>
settings == <<userBitrate, sessionMaximum>>
ladder == <<configHeight, videoHeight, fallback, restarts>>
stream == <<output, handlerActive, events>>
user == <<wanted, lost, budget, course>>
vars == <<controls, settings, encoderBitrate, ladder, stream, secondary, recording, user>>

Spent(what) ==
    /\ budget[what] > 0 /\ budget' = [budget EXCEPT ![what] = @ - 1]
    /\ UNCHANGED course

-----------------------------------------------------------------------------
(* OBSBasic::StreamingActive: obs_output_active of the stream output.      *)
StreamingActive == output \in {"live", "stopping", "ending"}

MinimumFor(height) == IF height <= 480 THEN 1000 ELSE IF height <= 720 THEN 1800 ELSE 2500

(* The bitrate ApplyPrimaryStreamService writes to the profile.            *)
Effective(bitrate, maximum) == IF maximum > 0 THEN Lesser(bitrate, maximum) ELSE bitrate

(* The second destination, on the encoders of the first.                   *)
StartSecondary == secondary' = SecondEnabled
StopSecondary == secondary' = FALSE

Init ==
    /\ ctl = InitialController /\ ui = FALSE /\ severe = 0
    /\ userBitrate = FirstBitrate /\ sessionMaximum = 0 /\ encoderBitrate = FirstBitrate
    /\ configHeight \in {1080, 720, 480} /\ videoHeight = configHeight
    /\ fallback = "none" /\ restarts = 0
    /\ output = "idle" /\ handlerActive = FALSE /\ events = <<>>
    /\ secondary = FALSE /\ recording = FALSE
    /\ wanted = FALSE /\ lost = FALSE
    /\ course \in Courses /\ budget = course

-----------------------------------------------------------------------------
(* Sampling.                                                               *)

(* ResetAdaptivePerformance() leaves this controller and severe = 0.       *)
Fresh(bitrate) == Reset(ctl, bitrate, MinimumFor(videoHeight))

(* ApplyAdaptiveBitrate(): an encoder that cannot change is left alone.    *)
Applied(before, after) == IF after # before /\ DynamicBitrate THEN after ELSE encoderBitrate

(* ApplyAdaptiveUiMode() is called when the controller's mode changes.     *)
UiMode(u, before, after) == IF after # before THEN after ELSE u

(* The part of UpdateAdaptivePerformance() that follows the controller c   *)
(* and the interface mode u as they are just before the sample.            *)
Measure(c, u, s) ==
    /\ ctl' = Update(c, s)
    /\ ui' = UiMode(u, c.constrained, ctl'.constrained)
    /\ encoderBitrate' = IF s.streaming THEN Applied(c.current, ctl'.current) ELSE encoderBitrate

(* The next value of adaptiveSevereNetworkSamples.  It saturates: it is    *)
(* only compared with its limit and set to zero.                           *)
SevereCount(n, d, s) ==
    IF s.streaming /\ s.network = "severe" /\ d.current <= MinimumFor(videoHeight) + 50
    THEN Lesser(n + 1, FallbackLimit) ELSE 0

(* A fallback needs FallbackLimit samples, a minute: none becomes due in   *)
(* the 1200 ms another one waits to start the stream again.                *)
FallbackAllowed ==
    /\ fallback = "none"
    /\ restarts < MaxRestarts
    /\ StreamingActive
    /\ ~recording
    /\ configHeight > 480

(* adaptivePendingOutputHeight: nothing else writes the profile meanwhile. *)
LowerHeight == IF configHeight > 720 THEN 720 ELSE 480

(* ScheduleAdaptiveResolutionFallback(): the stream is stopped; the new    *)
(* resolution waits for StreamingStopped.  A stream that is already        *)
(* stopping is told so again, to stop at once.                             *)
ScheduleFallback ==
    /\ fallback' = "stopping"
    /\ restarts' = restarts + 1
    /\ sessionMaximum' = Lesser(userBitrate, IF configHeight > 720 THEN 4000 ELSE 2500)
    /\ severe' = 0
    /\ StopSecondary
    /\ output' = IF output = "live" THEN "stopping" ELSE output
    /\ UNCHANGED <<configHeight, videoHeight>>

(* UpdateTransmissionStatus(), once a second; the queued RecordingStarted  *)
(* and RecordingStopped call it too, which is one more sample.  A posted   *)
(* event is delivered within a round of the event loop, where at most one  *)
(* sample, too few for any decision, can come before it.                   *)
Tick(s) ==
    LET n == SevereCount(severe, Update(ctl, s), s)
    IN /\ events = <<>>
       /\ s.streaming = StreamingActive
       /\ Measure(ctl, ui, s)
       /\ IF n >= FallbackLimit /\ FallbackAllowed
          THEN ScheduleFallback
          ELSE severe' = n /\ UNCHANGED <<sessionMaximum, ladder, secondary, output>>
       /\ UNCHANGED <<userBitrate, handlerActive, events, recording, user>>

-----------------------------------------------------------------------------
(* Starting and stopping the stream.                                       *)

(* obs_service_apply_encoder_settings(): SimpleOutput::Update gives the    *)
(* encoder the bitrate of the profile, or what the service allows.         *)
Capped(bitrate) ==
    LET most == ServiceMaximum[videoHeight] IN IF most > 0 THEN Lesser(bitrate, most) ELSE bitrate

(* SimpleOutput::SetupStreaming does so only when no output is active.     *)
SetupEncoder_Never(bitrate) == encoderBitrate

SetupEncoder(bitrate) == IF handlerActive \/ recording THEN encoderBitrate ELSE Capped(bitrate)

(* OBSBasic::StartStreaming() from an idle output: the connection is on    *)
(* its way.  (When obs_output_start fails the handler of StreamingStopped  *)
(* is called at once; Refused covers it.)                                  *)
StartStreaming ==
    /\ output' = "connecting"
    /\ lost' = FALSE
    /\ UNCHANGED <<handlerActive, events>>

(* ToggleStreaming() on an idle output.  A click is handled after the      *)
(* events that were posted before it.                                      *)
ToggleStart ==
    /\ output = "idle" /\ events = <<>>
    /\ course.impatient \/ fallback = "none"
    /\ Spent("clicks")
    /\ wanted' = TRUE
    /\ sessionMaximum' = userBitrate
    /\ ctl' = Fresh(userBitrate)
    /\ severe' = 0
    /\ encoderBitrate' = SetupEncoder(userBitrate)
    /\ StartStreaming
    /\ UNCHANGED <<ui, userBitrate, ladder, secondary, recording>>

(* ToggleStreaming() on an active one; the second click forces the stop.   *)
ToggleStop ==
    /\ output \in {"live", "stopping"} /\ events = <<>>
    /\ course.impatient \/ fallback = "none"
    /\ Spent("clicks")
    /\ wanted' = FALSE
    /\ StopSecondary
    /\ output' = "stopping"
    /\ UNCHANGED <<controls, settings, encoderBitrate, ladder, handlerActive, events, recording, lost>>

(* The slot of StreamingStarted: the controller is reset, the second       *)
(* destination started, and a sample taken.                                *)
HandleStarted(s) ==
    /\ events # <<>> /\ Head(events) = "started"
    /\ events' = Tail(events)
    /\ s.streaming = StreamingActive
    /\ LET c == Fresh(Effective(userBitrate, sessionMaximum))
       IN Measure(c, ui, s) /\ severe' = SevereCount(0, Update(c, s), s)
    /\ StartSecondary
    /\ UNCHANGED <<settings, ladder, output, handlerActive, recording, user>>

(* ResetVideo() fails while an output is active or encoders are attached.  *)
ResetVideoSucceeds == ~handlerActive /\ ~recording /\ output \in {"idle", "connecting"}

(* The end of the slot of StreamingStopped, when a fallback is pending.    *)
LowerResolution_ForgetsRestart ==
    /\ configHeight' = LowerHeight
    /\ videoHeight' = IF ResetVideoSucceeds THEN LowerHeight ELSE videoHeight
    /\ fallback' = "none"

LowerResolution_Unchecked ==
    /\ configHeight' = LowerHeight
    /\ videoHeight' = LowerHeight
    /\ fallback' = "waiting"

LowerResolution ==
    /\ configHeight' = LowerHeight
    /\ videoHeight' = IF ResetVideoSucceeds THEN LowerHeight ELSE videoHeight
    /\ fallback' = IF ResetVideoSucceeds THEN "waiting" ELSE "none"

(* The slot of StreamingStopped: the second destination is stopped, the    *)
(* controller reset, the interface mode set to normal, a sample taken, and *)
(* a pending fallback carried out.                                         *)
HandleStopped_LeavesSecondary(s) ==
    /\ events # <<>> /\ Head(events) = "stopped"
    /\ course.slow \/ output # "ending"
    /\ events' = Tail(events)
    /\ s.streaming = StreamingActive
    /\ LET c == Fresh(Effective(userBitrate, sessionMaximum))
       IN Measure(c, FALSE, s) /\ severe' = SevereCount(0, Update(c, s), s)
    /\ IF fallback = "stopping" THEN LowerResolution
       ELSE UNCHANGED <<configHeight, videoHeight, fallback>>
    /\ UNCHANGED <<settings, restarts, output, handlerActive, secondary, recording, user>>

HandleStopped(s) ==
    /\ events # <<>> /\ Head(events) = "stopped"
    /\ course.slow \/ output # "ending"
    /\ events' = Tail(events)
    /\ s.streaming = StreamingActive
    /\ StopSecondary
    /\ LET c == Fresh(Effective(userBitrate, sessionMaximum))
       IN Measure(c, FALSE, s) /\ severe' = SevereCount(0, Update(c, s), s)
    /\ IF fallback = "stopping" THEN LowerResolution
       ELSE UNCHANGED <<configHeight, videoHeight, fallback>>
    /\ UNCHANGED <<settings, restarts, output, handlerActive, recording, user>>

(* The 1200 ms timer of the fallback.  The encoders of the old stream are  *)
(* long detached, the posted events delivered; a stream the user started   *)
(* meanwhile is left alone.                                                *)
RestartStream ==
    /\ fallback = "waiting" /\ output # "ending" /\ events = <<>>
    /\ fallback' = "none"
    /\ IF StreamingActive
       THEN UNCHANGED <<ctl, severe, encoderBitrate, stream, lost>>
       ELSE LET bitrate == Effective(userBitrate, sessionMaximum)
            IN /\ ctl' = Fresh(bitrate)
               /\ severe' = 0
               /\ encoderBitrate' = SetupEncoder(bitrate)
               /\ StartStreaming
    /\ UNCHANGED <<ui, settings, configHeight, videoHeight, restarts, secondary, recording, wanted, budget, course>>

-----------------------------------------------------------------------------
(* Recording and settings.                                                 *)

(* ToggleRecording().  SimpleOutput::UpdateRecording calls Update() unless *)
(* the stream is active.                                                   *)
StartRecording ==
    /\ ~recording /\ Spent("recordings")
    /\ recording' = TRUE
    /\ sessionMaximum' = userBitrate
    /\ encoderBitrate' = IF StreamingActive THEN encoderBitrate ELSE Capped(userBitrate)
    /\ UNCHANGED <<controls, userBitrate, ladder, stream, secondary, wanted, lost>>

StopRecording ==
    /\ recording
    /\ recording' = FALSE
    /\ UNCHANGED <<controls, settings, encoderBitrate, ladder, stream, secondary, user>>

(* ShowTransmissionDialog() accepted.  The profile is written only while   *)
(* no stream is active, and again before any use.  OBSBasic::ResetOutputs  *)
(* replaces a handler that has no active output, its encoder, to be set up *)
(* before its use, and its stream output, which is destroyed: a stream     *)
(* that was still connecting is no more, and no event tells so.  As any    *)
(* click, it comes after the events that were posted before it.            *)
SaveSettings(bitrate) ==
    /\ events = <<>> /\ Spent("saves")
    /\ userBitrate' = bitrate
    /\ output' = IF handlerActive \/ recording THEN output ELSE "idle"
    /\ UNCHANGED <<controls, sessionMaximum, encoderBitrate, ladder, handlerActive, events,
                   secondary, recording, wanted, lost>>

-----------------------------------------------------------------------------
(* The stream output and the signals of its handler (OBSStartStreaming,    *)
(* OBSStopStreaming), on the threads of the output.                        *)
Tell(what) == events' = Append(events, what)

Connected ==
    /\ output = "connecting"
    /\ output' = "live" /\ handlerActive' = TRUE /\ Tell("started")
    /\ UNCHANGED <<controls, settings, encoderBitrate, ladder, secondary, recording, user>>

Refused ==
    /\ output = "connecting" /\ Spent("losses")
    /\ output' = "idle" /\ handlerActive' = FALSE /\ Tell("stopped")
    /\ lost' = TRUE
    /\ UNCHANGED <<controls, settings, encoderBitrate, ladder, secondary, recording, wanted>>

Lost ==
    /\ output = "live" /\ Spent("losses")
    /\ output' = "ending" /\ handlerActive' = FALSE /\ Tell("stopped")
    /\ lost' = TRUE
    /\ UNCHANGED <<controls, settings, encoderBitrate, ladder, secondary, recording, wanted>>

Finished ==
    /\ output = "stopping"
    /\ output' = "ending" /\ handlerActive' = FALSE /\ Tell("stopped")
    /\ UNCHANGED <<controls, settings, encoderBitrate, ladder, secondary, recording, user>>

Detached ==
    /\ output = "ending"
    /\ output' = "idle"
    /\ UNCHANGED <<controls, settings, encoderBitrate, ladder, handlerActive, events, secondary, recording, user>>

Handle == \E s \in Samples : HandleStarted(s) \/ HandleStopped(s)

Stream == Connected \/ Refused \/ Lost \/ Finished \/ Detached

Next ==
    \/ \E s \in Samples : Tick(s)
    \/ Handle
    \/ RestartStream
    \/ ToggleStart \/ ToggleStop
    \/ StartRecording \/ StopRecording
    \/ \E b \in Bitrates : SaveSettings(b)
    \/ Stream

(* The event loop delivers events and timers; an output that was told to   *)
(* start or stop does so or fails.  Nothing obliges the user.              *)
Spec ==
    /\ Init /\ [][Next]_vars
    /\ WF_vars(Handle) /\ WF_vars(RestartStream)
    /\ WF_vars(Connected \/ Refused) /\ WF_vars(Finished) /\ WF_vars(Detached)

-----------------------------------------------------------------------------
(* The encoder is live: the panel knows that the stream has started.       *)
OnAir == output = "live" /\ events = <<>>

(* Both destinations are fed by one encoder.  While nothing is recorded it *)
(* runs at the bitrate the controller believes in, or, as long as that is  *)
(* the highest it allows itself, at what the service made of it when the   *)
(* stream was set up.  And the second destination is never up without the  *)
(* first, except while the news of the end of that is on its way.          *)
DestinationsFollow ==
    /\ course.recordings = 0 /\ OnAir =>
           \/ encoderBitrate = ctl.current
           \/ ctl.current = ctl.maximum /\ encoderBitrate = Capped(ctl.current)
    /\ secondary => output = "live" \/ \E i \in 1 .. Len(events) : events[i] = "stopped"

(* "OPBS baja un nivel de resolucion y reconecta automaticamente": a       *)
(* stream the user wants and the network did not end is up, on its way up, *)
(* or stopped by a fallback that is still to restart it.                   *)
OnAirOrComingBack ==
    wanted /\ ~lost =>
        \/ output \in {"connecting", "live"}
        \/ fallback # "none"

(* "Si la red permanece grave 60 segundos despues de alcanzar el bitrate   *)
(* minimo": the stream is only given up for a lower resolution when the    *)
(* encoder really is at the minimum of this one, or as low as it goes. And *)
(* "No cambia resolucion durante una grabacion"                            *)
(* (PRESENTADOR_ARQUITECTURA.md), although the recording may have been     *)
(* started after the fallback was decided.                                 *)
FallbackIsJustified ==
    [][/\ fallback' = "stopping" /\ fallback = "none" =>
              encoderBitrate' <= MinimumFor(videoHeight) + 50
       /\ videoHeight' # videoHeight => ~recording /\ ~handlerActive]_vars

(* "Presion moderada durante tres muestras: reduce el bitrate 15 %"        *)
(* (OPBS_RENDIMIENTO_ADAPTATIVO.md): while the stream is on the air, an    *)
(* answer to pressure does not raise the bitrate of the encoder.           *)
PressureLowers ==
    [][OnAir /\ OnAir' /\ ctl'.current < ctl.current => encoderBitrate' <= encoderBitrate]_vars

(* Every step down the ladder gets the stream back on its way up, if the   *)
(* encoders are detached in time and nothing is recorded.                  *)
FallbackComesBack ==
    fallback = "stopping" /\ ~course.slow /\ course.recordings = 0 ~> output = "connecting"

=============================================================================
