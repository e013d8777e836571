# OPBS: a verification project

OPBS is a fork of OBS Studio for presenters. It consists of `libobs`, a C library that
captures, composes, encodes and outputs audio and video on many threads; of plugins
for it; and of a Qt frontend, to which OPBS adds a presenter panel that projects
slides, videos, cameras and Bible verses, streams to two destinations and adapts the
stream to the network. This directory holds TLA+ models of the parts whose
behaviour depends on what several threads, handlers, timers, messages or crashes do
to each other, the TLC configurations that check them, and proofs of what matters most.

Contents: 1 the system; 2 the modules and how they correspond to the code; 3 what is
checked, with which bounds and which fairness; 4 what is proved; 5 where code and
documentation disagree, and counterexamples to reproduce; 6 what is not modelled; 7 the plan.

How to run, in this directory: `tlc -config <file>.cfg <module>` for a run of the table in section
3, `tlapm <module>_proofs.tla` for a proof.

## 1. The system

### 1.1 Components, their state and their operations

Modelled, wholly or in part:

| Component | Source | State it keeps | Operations | What makes it correct |
|---|---|---|---|---|
| Task queue | `libobs/util/task.c` | deque of tasks, semaphore, wait event, `waiting`, `tasks_processed`, `exit_thread` | queue, wait, destroy; the worker | nothing lost, reordered or left behind; a wait flushes; the stop comes last; wait and destroy return |
| Video output | `libobs/media-io/video-io.c` | ring of cached frames, semaphore, `stop`; inputs with their divisor counters; skip counters; `gpu_refs` | lock and unlock a frame, connect, disconnect, start and stop texture encoders, the video thread, stop | the two threads never share a slot; each tick delivered once and in order; each input keeps its cadence; a lost picture counted once |
| Texture encoding | `obs-video-gpu-encode.c`, `obs-video.c`, `obs.c` | two queues of textures, keyed mutexes, a semaphore, the list of encoders | queue a texture; the encode thread; start and stop encoders | keys and mutexes agree; each tick is taken once; nothing is encoded for a stopped encoder |
| Packet interleaving | `libobs/obs-output.c` (1431-2306, 2711-2756) | packets held back, the highest times, offsets, `received_*` | a packet arrives; prune, find the common start, sort, send | sent in order, from a key frame, without a gap, picture and sound together |
| Output life cycle | `libobs/obs-output.c` | `active`, `data_active`, `reconnecting`, three events, the reconnect thread, retries, `stop_code`, the ending thread | start, begin and end capture, stop, forced stop, signal stop, reconnect | every call returns; every end is told; whatever was hooked is unhooked |
| Output delay | `libobs/obs-output-delay.c` | queue of packets and messages, `delay_active`, `delay_capturing`, `delay_restart_refs` | delayed start and stop, the encoder's thread that carries them out | each start and stop takes effect once and in order; nothing is left for the next session |
| Output pause | `libobs/obs-output.c` (690-860), `libobs/obs-encoder.c` (1510-1560, 1771-1862) | `paused`, the pause times of every encoder | pause, resume; the check of each frame and segment | every encoder leaves out the same time; the output can go on |
| RTMP stream | `plugins/obs-outputs/rtmp-stream.c` | `connecting`, `active`, `stop_event`, `stop_ts`, `send_sem` and two threads | start, stop; the connect and the send thread | no flag of one stream survives into the next |
| RTMP packet queue | `plugins/obs-outputs/rtmp-stream.c` | packets, `min_priority`, drop thresholds, the dynamic bitrate and its timer | add, drop, take, send; lower and raise the bitrate; stop, encoder error | only what nobody needs is dropped; the bitrate comes back; the sender does not oversleep |
| Adaptive controller | `OpbsAdaptivePerformance.cpp/.hpp` | range and current bitrate, four counters, cooldown, restricted mode | `Reset`, `Update` | in range, damped, answers both ways |
| Adaptive streaming | `PresenterPanel.cpp` (2383-2420, 5477-5844) | controller, profile and session bitrate, encoder bitrate, resolution, pending fallback, second destination, recording | sampling each second, start, stop, record, settings, the fallback | controller and encoder agree; a fallback comes back; a recording keeps its resolution |
| Presenter stage | `PresenterPanel.cpp` (2789-3120, 3204-3397 and around) | active and retiring item and source, entries' sources, the stage scene, audio monitor and callback, pending timers | choose, remove, play, pause, stop, verse, shut down; timers; queued news | one source after a hand-over, what is left falls silent, hand-overs end |
| Library and presentations | `PresenterPanel.cpp` (1423-1450, 1951-2030, 2462-2720, 4727-5060) | entries, recent presentations, the loaded one, directories, `presenter.ini` | add, remove, import, evict, activate, delete, save, restore; a crash between two steps | the loaded presentation stays whole; settings and directories agree up to what crashes leave; nothing is lost unsaid |

Not modelled. `PROJECT.json` gives the files and the reason for each; these are
the ones that keep state worth a model:

| Component | Source | State | Hard behaviour | Properties that would make it correct |
|---|---|---|---|---|
| Encoders | `obs-encoder.c` | callbacks, `active`, start times, groups, pairing | start and stop from several outputs, an error in the callback | audio starts with video; the last stop disconnects |
| Audio | `audio-io.c`, `obs-audio.c` | buffering ticks, mixes | late sources, growing buffering | time never goes back |
| Sources, scenes, transitions | `obs-source.c`, `obs-scene.c`, `obs-source-transition.c` | async frame cache, show and activate counts, transition state | frames that arrive late or jump | every frame is freed or shown once; counts return to zero |
| References and signals | `obs.c`, `callback/signal.c` | weak and strong counts, callback arrays | a release that races a weak get, a callback that disconnects or signals again | no use after the last release; no callback lost |
| Media playback | `shared/media-playback` | play, pause, seek, stop, kill flags | commands while the thread decodes | the last command wins |
| Replay buffer and muxer | `obs-ffmpeg-mux.c`, `buffered-file-serializer.c` | key-frame-aligned packet queue, chunks, threads | saving while packets arrive, a slow disk | starts with a key frame; nothing lost or written twice |
| Virtual camera queue | `shared-memory-queue.c` | three slots, read and write index, state | a reader and a writer in two processes, a restart | a frame that is read is whole |
| OPBS updater | `presenter-tools/runtime/*.ps1` | downloaded, backed-up and installed files | a crash between two steps | a version that starts is always installed |

The rest (graphics back ends, capture and filter plugins, the upstream main window,
platform layers, containers, vendored code) is wrappers, drivers, formats or layout.

### 1.2 How they interact

* The graphics thread puts pictures in the video output's ring and, for encoders that take
  textures, in the texture queue; the video thread and the encode thread hand them to the
  encoders, which cut out pauses. Encoded packets reach the output that hooked the encoders,
  through the delay if there is one; the interleaver puts them in order and hands them to the
  plugin, whose send thread takes them from its own queue.
* Encoders detach on a thread of their own (`end_data_capture_thread`), and an encoder that fails
  removes its input from within the callback.
* The interface calls `obs_output_start` and `obs_output_stop`; these call the plugin, whose
  threads call `obs_output_begin_data_capture` and `obs_output_signal_stop` back. With a delay both are
  messages that an encoder's thread carries out later. A reconnect thread calls start again. What
  the interface learns comes as signals ("starting", "start", "reconnect", "reconnect_success",
  "stop"), which Qt queues.
* The adaptive controller reads counters of these outputs once a second and
  changes the bitrate of the encoder that both destinations share; its last
  resort is to stop the output, reset the video and start it again, driven by
  the queued StreamingStopped. The dynamic bitrate of the RTMP output changes the same
  encoder from the producer's thread when it is switched on.
* The presenter stage gives commands to media sources, which carry them out on
  other threads; `media_started` comes back queued, and single-shot timers
  of 50 ms to 2 s belong to the card that was chosen when they were set.
* The library loads and removes the cards of the stage and writes `presenter.ini` after each operation.
* Destroying sources goes through the task queue.

### 1.3 What is hard here

Interleaving (ring, texture queue, encoder callbacks, stop against loss against retry), state
read before an unlock and used after it (`frame_info`, `reconnect_thread_active`,
`tasks_processed`), queued news about a state that has moved on (StreamingStarted,
`media_started`), messages that outlive their session (delay), timers of earlier cards, counters at their
limits, crashes between the steps of one operation, and several
places where a thread waits for one that may wait for it. `PROJECT.json` lists the hazards
line by line with the properties that are about each. Further hazards of parts not modelled:
`interleaver_max_batch_size` is only ever added to (obs-output.c:2749); `paused` is tested outside the encoders'
mutexes (836); the clock of a first encoder is reset outside `callbacks_mutex`
(obs-encoder.c:818); `os_event_signal` wakes one waiter (threading-posix.c:156);
a callback may raise the signal it is called by (signal.c:311) and the reference count of a signal handler is
read and written in two steps (349); three slots without a lock between two processes (shared-memory-queue.c:160).

## 2. The modules

Conventions. A variable has the name of the member it stands for, in TLA+ style. One step is one
section under a mutex, one call that can be overtaken, or, on the Qt
interface thread, one handler. History variables are read by no action. An operator
`X_Word` before an operator `X` is a broken variant of `X`, a plausible bug; it is used by nothing
and shows that some property would notice. The numbers of lines, section by
section, are in `PROJECT.json` under `map`.

### TaskQueue, MCTaskQueue, TaskQueue_proofs

`TaskQueue` is `libobs/util/task.c`. Each section under the mutex is an
action (`QueueTask`, `WaitPush`, `WaitRead`, `DestroyPush`), each `os_sem_post` another one, so that
the worker may run between a push and its post. The worker is the loop of
`tiny_tubular_task_thread`: `WorkerTop` waits for the semaphore, `WorkerPop` takes the first task and puts the
two special ones off as long as others are behind them, and the `Run...` actions
let the task queue further tasks before it returns. Waiting and destroying belong to one
owner, as in `obs.c`. Allocation failures are left out.

### FrameQueue, VideoOutput, MCVideoOutput, VideoOutput_proofs

`VideoOutput` is `libobs/media-io/video-io.c`. Time is counted in ticks of the output's frame rate and
a picture is named by the tick it was rendered for. `LockFrame` and `UnlockFrame` are the graphics thread
(the picture is written in between, without a lock); `VideoWait` ... `FinishFrame` are the video thread,
with one step for each input, under `input_mutex`. An input in `Failing` may leave from inside its callback,
as an encoder does that fails. `StartEncoding`, `StartTexture`, `TextureSkip`, `StopTexture` and `EndEncoding` are what
texture encoders do to the counters: the reference counts that reset them, and the encode thread, which adds a skip
to the same `skipped_frames` whenever the texture at the head of its queue has ticks left
(obs-video-gpu-encode.c:207). `textureSkips` is the history of these, and `SkipsCountedOnce` counts them. `Stop` ... `StopJoin` is `video_output_stop`. `FrameQueue` is what the ring promises: a bounded
queue of pictures, each to be delivered some number of times. `ImplementsQueue` maps the ring onto it.

### StreamSession, Output, RtmpStream, MCRtmpStream, Output_proofs

`Output` is the life cycle of an encoded output in `libobs/obs-output.c`; `RtmpStream` extends it with the
plugin. Because the same functions are called by the interface, the connect thread, the send
thread, the ending thread and the reconnect threads, a thread is a stack of frames, each a place in
a function: `At(t, place)` is a guard, `GoOn(t, frames)` replaces the first
frame by what the function has still to do. The places are the points between
which another thread can see or change something: the two flags of `begin_data_capture`, the test and join
of the reconnect thread, the clearing of `stop_event` and of `active` at the end of the send thread, and so on.

A stream delay (`obs-output-delay.c`) is the record `delay`. `DelayStart` hooks the encoders and queues a
message behind their packets; `ProcessDelay` is an encoder's thread that finds the message at the front and calls
`actual_start` or `actual_stop`. `StartCounted`, `SignalStop` and `EndCapture` keep `delay_restart_refs`, by which a lost
delayed stream keeps its encoders; `StopDelayed` is a forced stop, which ends the capture before the plugin.

What is abstracted: packets are not told apart (a stream that is hooked to encoders always has one to send);
making a connection is one step that succeeds or not; the network may lose a connection whenever a packet
is sent; a delayed message comes to the front at some later moment, one at a time. Timing the model takes for
granted, each named where it is used:

* `InfoStart`: the connect thread of the last attempt has left its last instruction
  before a user, or a delay of at least 2 s, starts the next one;
* `Connected`, `Refused`: a TCP and RTMP handshake outlasts a send thread that
  has only two flags left to clear;
* `LateLoss`: the few instructions of `begin_data_capture` are over before a packet
  sent after it can fail. Section 5 says what happens otherwise;
* `EarlyForce`: a delayed stream is stopped by force only while its start is still to come.
  Section 5 says what happens otherwise;
* `calm`: in a course of events with this flag the user acts, a connection is lost
  and a delay expires only while the other threads wait for just that. Such courses are for
  checking the sequence of sessions; courses without it are for the interleavings.

`StreamSession` is what the interface may rely on: the order of the signals of
one session, "stop" once and last, and no session left connecting or
reconnecting for ever. `TellsASession` states that `RtmpStream` implements it, fairness included. The order begins with the interface's own call
("called"), not with "starting": `obs_output_start` signals that after the plugin's start has returned true (obs-output.c:410-411), when the connect thread
may have told "start" or even "stop" already, and not at all when the start fails. The model follows it (`StartCounted`, `Announce`), and the session only promises that
"starting" comes once between two calls, at whatever moment; the frontend's `OBSStreamStarting` ignores it unless a delay is active. With a delay it is
`begin_data_capture` that tells it, in the interface's own thread (`SignalStart`).

### PacketQueue, MCPacketQueue, PacketQueue_proofs

The packets of one connected stream (`rtmp-stream.c`), which `RtmpStream` does not tell apart. A course is the sequence of packets
the encoders deliver and what else may happen. `Arrive` is `rtmp_stream_data` up to the mutex, `Add` the section under
`packets_mutex` with all it calls (`CheckToDrop`, `DropFrames`, `CheckBitrate`, `LowerBitrate`), `Post` the semaphore after it;
`SemWait`, `TakePacket`, `Send`, `Leave`, `ResetBitrate`, `TellOutcome`, `FreePackets` and `Exit` are `send_thread`; `UserStops`,
`Detach`, `EncoderFails` and `DeliverError` end the stream. A packet is its place in the course; the deque, filled in that order and taken from the front, is the
set of the places in it. Time is the dts of the packet that arrives, and two frames of video are at most `Gap` apart; what the network takes, and
so the estimate of its rate, is a choice. How a bitrate is shared out among encoders and the reported congestion are left out.

### Interleaver, MCInterleaver

The packets an output holds until it can send them in order (`interleave_packets` and what it calls, 1431-2306). A call runs under
`interleaved_mutex` and is one step, `Arrive`; its helpers are operators on the record of the members it changes, in the order of the calls:
`Insert`, `SetHigher`, `Prune`, `ReachesVideo`, `SetOffsets`, `Resort`, `Begin`, `Send`. `Activate` is the rest of `begin_data_capture`, with the batch size.
Encoders run at rates and from moments of their own (a course); audio encoders are fed in turn by one thread (`InTurn`).
A course is *prompt* when an encoder was running before this output came (another output uses it); its packets arrive in every order, also before the
capture is active, and are lost then. Otherwise its encoders start for this output and are paired: they have handed out nothing when `active` is set, a moment
after they were started, and video begins with audio or after it. `first` tells where an audio encoder's packets begin. `inStep` is a
history variable: no video packet has arrived before audio that was made earlier.

### OutputPause, MCOutputPause

`obs_output_pause` and the checks in `obs-encoder.c`: `Pause` and `Unpause` are whole calls (the interface is the only caller, and each
holds every encoder's pause mutex), `VideoFrame` and `AudioSegment` what an encoder does with its next input, at its time or up to
`MaxDelay` later. Time is counted in audio samples, so no rounding is modelled. `AudioLeft` is what
is left of a segment of audio: all of it, nothing, or the part before or behind the end it crosses. The first frame falls into the first interval (`Shapes`).
`kept` and `asked` are the history the property compares. The proofs are in Output_proofs, which extends this module and RtmpStream; hence the names `PauseInit` to `PauseSpec`.

### GpuEncode, MCGpuEncode, GpuEncode_proofs

Three threads around two queues of textures. `Render` to `MutexFree` is the graphics thread, which holds `gpu_encoder_mutex` for all ticks of one
picture; `Wake` to `Signal` is `gpu_encode_thread`; `Start` and `StopEncoder` are `start_gpu_encode` and `stop_gpu_encode`, in the steps other threads can
come between. Textures are those of Windows: a keyed mutex is acquired with the key of the last release, which is what `KeysAgree` is about. Which encoders
pass a frame over (paused, waiting for audio, at a divided rate) is left open. `EncodeFails` belongs to `FailingSpec` only: see section 5.
`due` is the history `TakesEachTick` compares with the queue: the ticks that were queued and not yet taken, each with the texture it was queued for.

### AdaptivePolicy, AdaptiveController, MCAdaptiveController

`AdaptivePolicy` is `OpbsAdaptivePerformance.cpp` as operators over the record of the controller's
members; `Reset` and `Update` are pure. A sample is abstracted to the bands its thresholds
define. The arithmetic of the steps (78 %, 85 %, 106 %, rounded to 50) is kept, in integers; for 1000..51000 it
gives what the `double` expressions of the source give. Counters that are only compared with a limit saturate there.
`AdaptiveController` is one controller under any sequence of samples and resets.

### AdaptivePerformance, MCAdaptivePerformance, Adaptive_proofs

What `PresenterPanel` does with the controller. Every slot, timer or button is one action of the interface thread
(`Tick`, `HandleStarted`, `HandleStopped`, `RestartStream`, `ToggleStart`, `ToggleStop`, `StartRecording`, `StopRecording`,
`SaveSettings`); the stream output is a small automaton (`Connected`, `Refused`, `Lost`, `Finished`, `Detached`), which `Output` has in detail. It
reaches the interface by queued events. `Capped` is what the service of the first destination makes of the bitrate when the encoder is
set up (`obs_service_apply_encoder_settings`); the controller never sees it. `SaveSettings` is the accepted dialog, which replaces an output handler
that is not active: a stream that is still connecting goes with it. Taken for granted:

* Qt delivers posted events before it polls for timers and input, so `Tick`, clicks, the
  dialog and the restart timer find `events = <<>>`;
* the user does not click while the stream is connecting or its encoders are
  detaching (`ToggleStart`): see section 5 for what a second click does;
* unless the course says `impatient`, the user does not click during a fallback; unless it says
  `slow`, the encoders are detached before StreamingStopped is handled.

### PresenterStage, MCPresenterStage, PresenterStage_proofs

The stage of the presenter: `panel` holds the members and the stage scene, `sources` what libobs knows of each source,
`timers` the bag of pending single shots, `started` the posted calls. The methods that others call
are operators on a record, `[p |-> panel, s |-> sources]`, or on its `p` or `s` where they touch only the members or only the
sources, so that a handler is the composition of the calls it makes, in their order; the order matters, because `ActivateMedia` reads `entry->source` again after
`ClearActiveMedia`. A source lives as long as somebody refers to it, pending timers included.
`Monitor`, `Capture`, `Listen` and `Command` are the calls of `obs-source.c` the panel makes. `CarryOut` is libobs executing the next queued media command, `FirstFrame` and
`MediaEnded` the source itself. A scene mixes what plays on it and is not MONITOR_ONLY (`Mixed`); the moments inside a handler at which `RebuildAudioMonitor`
takes the monitor off and puts it on again (3328-3329), and those before a new source is put on it, are within one action. Taken for granted: a source can be created, the stage is showing.

### PresenterLibrary, MCPresenterLibrary, PresenterLibrary_proofs

Media entries, recent presentations, their directories and `presenter.ini`, as the steps of each operation of the interface thread: `BeginImport`, `RenameFails`,
`ImportFails`, `Register`, `Evict`, `RemoveFiles`, `Finish` an import; `Activate`, `Delete`, `AddMedia`, `RemoveMedia`; `SaveSettings` at the end of each;
`LoadPresentations`, `LoadMedia`, `Notice` at the start. `Evict` and `Delete` take an entry out of the list by its place, as `takeAt` does. `Crash` may come between any two, and keeps only what is on the disk.
`presenter.ini` is written as a whole, as QSettings does; a directory is removed file by file, and the removal may fail at any of them (`RemovalFails`), which the
code ignores; `failures` counts these and the renames that fail. `owned`, `told` and `untold` remember what the user added and did not take out, what was
reported and what a crash kept from being reported. The order of the entries, their folders and the conversion of a document, with what it has written before it
is through, are left out. A presentation whose removal a crash cut short may still be offered with the slides that are left (`discarded`).

## 3. What is checked

| Run | Module (configuration) | Distinct states | Question |
|---|---|---|---|
| `task_queue` | MCTaskQueue | 14 k | Is anything lost, reordered or left behind; do wait and destroy return? |
| `video_output` | MCVideoOutput | 956 k | Do the graphics and the video thread keep apart, is every tick delivered, do inputs keep their cadence and are skips counted once? |
| `gpu_encode` | MCGpuEncode | 827 k | Do keys and mutexes agree, is each tick taken once, does an encoder that stopped stay untouched and does its stop return? |
| `interleaver` | MCInterleaver | 33 k | Is what is sent in order, whole from a key frame, in step, and does it begin in time? |
| `output_pause` | MCOutputPause | 100 k | Do all encoders leave out the same time, and can the output go on? |
| `rtmp_sessions` | MCRtmpStream (`_sessions`) | 32 k | Does every session, delayed or not, end, get told and leave nothing behind? |
| `rtmp_stop_races_loss` | MCRtmpStream (`_stop_races_loss`) | violation | Section 5 |
| `packet_queue` | MCPacketQueue | 176 k | Can what is sent be played, does the bitrate come back, does the sender oversleep? |
| `adaptive_controller` | MCAdaptiveController | 27 k | Are changes spaced, and does the bitrate recover? |
| `adaptive_panel` | MCAdaptivePerformance (`_days`) | 185 k | Do controller, encoder, second destination and recording agree through fallbacks? |
| `stage_cards` | MCPresenterStage (`_cards`) | 494 k | Does one source remain, do the others fall silent, and do hand-overs end? |
| `presenter_library` | MCPresenterLibrary | 4.4 M | What do crashes and failures leave of the library? |

Deadlock is not checked in runs whose behaviours may come to rest: the user need not act
and the bounds run out. That nobody waits for ever is stated as liveness instead. In `adaptive_controller`, which
samples for ever, deadlock is checked.

### The properties

*Task queue.* `SemCountsTasks` relates the deque to the semaphore and everyone
between a push and a post. `RunsInOrder` and `WaitFlushes` say that putting the special tasks off reorders nothing and answers
a wait only after what came before. `OwnerReturns` is the liveness of wait and destroy.

*Video output.* `NeverSharesSlot` is the reason why the ring needs no lock around the picture;
`WakesForEachFrame` ties the semaphore to the frames. `DeliversEveryTick` and `ImplementsQueue` say what is delivered;
`SkipsCountedOnce` and `InputCadence` what the statistics and the encoders see. `StopReturns` is liveness. `InputCadence` counts out the ticks an input
misses because the one before it left the array from its own callback (`missed`): see section 5.

*Texture encoding.* `KeysAgree` is why neither thread waits for ever on a keyed mutex; `TakesEachTick` relates the semaphore, the one tick held back and
the queue; `QuietOnceStopped` is why an encoder may be freed when its stop returns; `StopReturns` is liveness.

*Interleaver.* `SentInOrder`, `UnbrokenFromKey` (nothing is pruned that is not older than the common start; that it begins with
a key frame holds for paired encoders and while audio keeps ahead of video, and `BeginsWithKey`, without this condition, fails: section 5), `StartsTogether` and `BeginsInTime`, which
takes the place of a liveness property: as soon as all encoders are there and audio reaches the first picture, sending has begun.

*Pause.* `KeepsExactly` compares what each encoder kept with what the calls asked to leave out; `CanGoOn` relates the output's flag to every encoder's state.

*Streaming.* `TellsASession` and `UserIsAnswered` are what the interface needs;
`EverythingReset` says that, once no thread has anything left to do,
no flag, hook, event or message is left that the next stream would trip over. `ToldOfTheEnd` is checked to fail (section 5).

*Packet queue.* `Playable` says that dropping never breaks a reference between frames; `BitrateReturns` that a lowered bitrate is back, without another
lowering, after as many times the timer as it takes steps, plus what each step but the first can be late because a frame has to come for it (`Gap - 1`);
it holds only if each step restarts the timer; `SenderAnswers` is the liveness of the send thread.

*Adaptive streaming.* `ChangesAreSpaced`, `Recovers` and `HostIsAnswered` are
the promises of `src/docs/OPBS_RENDIMIENTO_ADAPTATIVO.md` about the controller. `DestinationsFollow` (encoder and second destination),
`FallbackIsJustified` (at the minimum, and never under a recording) and `FallbackComesBack` are about the panel. `PressureLowers` fails: section 5.

*Stage.* `OneSourceAfterHandover` (`src/docs/PRESENTADOR_ARQUITECTURA.md`), `OthersFallSilent` and `HandoverEnds`. `StageIsNotMixed` fails (section 5):
a card that retires is in the transmission until it pauses, so `OthersFallSilent` says that it will, not that it is not heard.

*Library.* `LoadedStaysWhole` and `DirectoriesAccountedFor` (`src/docs/PRESENTACIONES.md`, "Historial y activación"), `ToldOnce` and `LibraryKept`
("Persistencia" in `PRESENTADOR_ARQUITECTURA.md`). `ToldOnce` says that a file that has gone is reported at most once, and that only a crash between the
saving and the notice keeps it from being reported; `LostIsTold`, without that exception, fails (section 5).

### Bounds, and why they are enough

* `task_queue`: two clients, four tasks of which one queues two more, two waits.
  The worker only tells ordinary from special tasks, and at most two special ones exist
  at a time (only one owner waits or destroys), so a wait and a stop that are put off behind tasks that queue tasks is the worst that can meet.
* `video_output`: two slots and five ticks in pictures of one or two, so that the ring wraps, is full, drains, and a
  picture is lost in each position; a full-rate and a half-rate input, the first of which may leave from its callback; two connects or
  texture starts, so an input can leave and move the other one's place. One skip of the texture path (`MaxSkips`), which adds the same to both
  sides of the count wherever it comes: before, between or after the skips of the video thread and the resets. The proofs hold for every size.
* `gpu_encode`: two encoders and three textures, one of which is always the one rendered to: the queue holds none, one or two, and a
  picture of two ticks meets an empty pool. Two starts let the second come while the first stops. Five ticks use each texture twice.
* `interleaver`: one or two video and one or two audio encoders, at most seven packets each, key frames every second picture, pictures of 3
  and audio of 2 units, starting at each distance that changes which packet is first. Packets after the first group only repeat the steady state.
* `output_pause`: two video and one audio encoder, a frame interval of 3 and segments of 2 and 5 samples (shorter and longer than a frame, as in the
  code), first frames at each distance, data up to two intervals late, two pauses in 26 units. Two pauses are needed because the end of one may fall
  into the segment in which the next starts.
* `rtmp_sessions`: two retries (one that succeeds and a last one), eight reconnect threads, seven courses
  of events: stops at any moment with refusals; losses and refusals at any moment without a stop; stops, forced
  stops, losses and refusals in any order but calmly; and with a delay: a stop at any moment; losses and refusals with and without preserved
  packets; a start that is called off. What is excluded fails, and section 5 says how: stops that race losses, and what two
  stops or a later forced stop do to a delayed stream.
* `packet_queue`: five courses of up to sixteen packets, one with frames one and two units apart, so that a step of the bitrate is late. Two or three packets in the queue are enough to drop (`Few` 3, 5 in the code), disposable frames after 2
  units of time and others after 4; a lowering after 2 units, steps of 100 from 50 to 200, so one needs two steps to return; estimates of none,
  less than the minimum after rounding, and one in between.
* `adaptive_controller`: host limits of 3 and 5 samples (3 and 15 in the code), 10 healthy samples (25), cooldowns of 4 and 5 (8 and 10),
  ranges of 2000/1800 and 900/1800, the second with a minimum above the maximum. The policy compares counters only with
  their limits; the steps down and up run into both ends of the range. The theorems hold for every limit and range.
* `adaptive_panel`: limits of one or two samples; 2500 and 3000 kbps, so the minimum of 1080p, 720p and 480p is one, two
  and five cuts away; both fallbacks from each starting resolution; a service that allows 2700 at 1080p, 1700 at 720p (less than the panel's minimum there) and
  anything at 480p. Four courses separate what need
  not meet: three clicks and a loss; a recording and slow encoders; clicks during a fallback; the dialog.
* `stage_cards`: a slide, a video, a camera and the verse, three choices, so that a third card comes while
  the first retires, and one other action (remove, play or pause, stop, change device, shut down) anywhere.
  Three media sources at one time, one more than stand on the stage, for the ones only timers remember.
* `presenter_library`: two presentations are remembered (four in the code) and three imported, so the third evicts, with the
  loaded one oldest or not; two slides, which are alike (a symmetry set), so that a crash or a failure can leave one; two crashes, the second during what the first left; one media file that goes and comes back.
  The theorems hold for every number of them.

### Fairness

* `TaskQueue`, `VideoOutput`: weak fairness of each thread's next step: a thread that can run does. Nobody
  is obliged to queue, render or stop; a frame that was locked is unlocked.
* `GpuEncode`: the graphics thread goes on while it holds the mutex, the encode thread while it can, and a stop that has begun. No picture need come.
* `RtmpStream`: weak fairness of each thread except the steps that spend a bound (a loss, a refusal): the network need not
  fail. Encoders go on producing packets while they are hooked, which is how a stop reaches its packet and a delayed message comes to the front.
* `PacketQueue`: each thread runs on. Nobody need deliver a packet or stop the stream.
* `AdaptiveController`: the sampling timer repeats. `AdaptivePerformance`: queued events and the restart timer are delivered, an output that
  connects succeeds or fails, one that stops ends and detaches.
* `PresenterStage`: timers fire. Nothing else is needed for `HandoverEnds`: no picture has to come and no command to be carried out.
* `Interleaver`, `OutputPause`, `PresenterLibrary`: none; their properties are about what steps do.

## 4. What is proved

`tlapm` proves, for every value of the constants within the assumptions the modules name (`TaskQueueAssumption`, `VideoOutputAssumption`,
`GpuEncodeAssumption`, `OutputPauseAssumption`, `OutputAssumption`, `StreamAssumption`, `PacketQueueAssumption`, `LimitsAssumption`, `PanelAssumption`, `RangesAssumption`, `StageAssumption`,
`PresenterLibraryAssumption`, `SlidesAreNotFiles`). They ask for sizes, divisors, intervals and limits that are positive and sets that are finite where they are
counted; that the five named threads are different and none of them a reconnect thread; that `None` is no source, entry or item; that a slide's path is not one of the user's files, because it lies in a
directory of the panel's; that the first frame falls into the first interval; that the panel's bitrates lie in the range of the
dialog and a fallback waits for at least two severe samples; and of a stream that its frames are at most `Gap` apart.

| Theorem | Statement | What it rests on |
|---|---|---|
| TaskQueue_proofs `Typing`, `Counting` | `[]TypeOK`, `[]SemCountsTasks` | together they are inductive: a push adds a poster, a post turns it into a unit of the semaphore, the wait turns that into the worker about to pop |
| TaskQueue_proofs `PopsNonEmpty` | the worker never pops an empty deque | from the count: the worker alone accounts for one task |
| TaskQueue_proofs `TasksRunInOrder`, `WaitIsAFlush` | `[]RunsInOrder`, `[]WaitFlushes` | `OrderInv`: the deque is what was pushed and not popped, with at most one special task in it |
| VideoOutput_proofs `Typing`, `RingIsConsistent`, `WakesOncePerFrame` | `[]TypeOK`, `[]RingConsistent`, `[]WakesForEachFrame` | the inductive invariant below |
| VideoOutput_proofs `SlotsAreNotShared` | `[]NeverSharesSlot` | the frame in delivery is place 0 of the ring, the locked one is place `Unlocked`, and places are different slots |
| VideoOutput_proofs `TicksInOrder` | `[]DeliversEveryTick` | the first frame's time stamp is the number of ticks delivered |
| VideoOutput_proofs `RingImplementsQueue` | `ImplementsQueue`: the specification of `FrameQueue` under the mapping | the invariant; each action is `Accept`, `Repeat`, `Written`, `Deliver` or a stutter of the queue |
| VideoOutput_proofs `CalledInCadence` | `[]InputCadence` | `Cadence`: an input's counter is its age in passes modulo its divisor |
| VideoOutput_proofs `SkipsAreCounted` | `[]SkipsCountedOnce` | `SkipInv`: running totals over the slots, and slots outside the ring hold no skips |
| GpuEncode_proofs `StoppedIsQuiet` | `[]QuietOnceStopped` | the list and the batch of the encode thread (`ListInv`) |
| GpuEncode_proofs `KeysStayInStep` | `[]KeysAgree` | each texture is in one place (`KeyInv`) |
| GpuEncode_proofs `EachTickIsTaken` | `[]TakesEachTick` | `TickInv`: the ticks that are due fall into one block for each queued texture |
| Output_proofs `PauseIsExact`, `PauseCanGoOn` | `Patient => (PauseSpec => []KeepsExactly)`, the same for `CanGoOn` | `PauseInv`: the end of a pause lies ahead of every encoder, for video at a frame |
| Output_proofs `NothingIsLeftBehind` | `LateLoss` implies `Spec /\ Orderly(budget) => []EverythingReset` of RtmpStream | `RtmpInv`: every flag that is set has a thread that will clear it |
| Output_proofs `SignalsFormSessions` | `LateLoss` implies `Spec /\ Orderly(budget) => Session!Spec`: RtmpStream implements StreamSession, but for its fairness | `Tale` of `RtmpInv`: what the user was told last, wherever a thread has something to add |
| PacketQueue_proofs `ALoweredBitrateReturns` | `[]BitrateReturns` | `Pacing`: the next step is due, and how late the earlier ones were |
| PacketQueue_proofs `WhatIsSentPlays` | `StreamsInStep => (Spec => []Playable)` | `PlayInv`: each packet that was not dropped has those it needs, and `min_priority` keeps away the frames to come that would lack one |
| Adaptive_proofs `ControllerTyping`, `RangeIsKept` | `[]TypeOK`, `[]BitrateInRange` | the clamp of each step, for any order of steps |
| Adaptive_proofs `Damping`, `SlowRecovery` | `ChangesAreSpaced`, `RaisesSlowly` | `CooldownAccounted`, `HealthyAccounted` |
| Adaptive_proofs `PanelTyping` | `[]PanelTypeOK` | the facts about `Reset` and `Update` that the controller's proofs use; every bitrate stays within 1000..51000, where the integers of the model are those of the source |
| Adaptive_proofs `OneBitrate` | `DynamicBitrate => (Spec => []DestinationsFollow)` | `Posted`: where the stream is and what news of it can be on its way; `Believed`: whose bitrate the encoder has |
| Adaptive_proofs `FallbackAtTheMinimum` | `Spec => FallbackIsJustified`, if the encoder's bitrate can change and a changed setting meets neither recordings nor slow encoders | `Believed`, `Deserved` |
| PresenterStage_proofs `NoneIsLeftPlaying` | `[]OthersFallSilent` | `StageInv`: every source but the active one is mute or has been told to be (`Quiet`) |
| PresenterStage_proofs `OneSourceRemains` | `~Reselects => (Spec => []OneSourceAfterHandover)` | `StageInv`: what stands on the stage and to whom the cards' sources belong (`OnStage`, `Owned`) |
| PresenterLibrary_proofs `MissingIsToldOnce` | `[]ToldOnce` | what was reported is in no list that is saved or loaded (`TellInv`); what the user added is stored, about to be reported, or was (`OwnedInv`) |
| PresenterLibrary_proofs `LibraryIsKept` | `LibraryKept` | outside the steps of an operation `presenter.ini` agrees with the panel (`KeepInv`) |
| PresenterLibrary_proofs `LoadedIsWhole` | `[]LoadedStaysWhole` | every presentation that is named is whole until its removal begins (`WholeInv`) |
| PresenterLibrary_proofs `LeftoversAreCounted` | `[]DirectoriesAccountedFor` | a list that is not saved yet is one directory away from the stored one (`DirInv`) |

Eight theorems have a hypothesis. `Patient` says that a pause is resumed only once every encoder has begun it; `~Reselects` that no card is chosen again while it
retires; `StreamsInStep` that a stream begins with a key frame, and that with several video tracks the frames on which others wait come together, as those of encoders
with the same settings do; `DynamicBitrate` that the encoder can change its bitrate while it runs; and `FallbackAtTheMinimum` asks that in a course in which the
user changes the bitrate nothing is recorded and encoders are detached in time. `NothingIsLeftBehind` and `SignalsFormSessions` take it that no connection is lost before `begin_data_capture` has returned (`LateLoss`), and are about the courses
`Orderly` describes: no delay; and all interleavings of starts, stops and refusals, or of starts, losses and refusals, or a calm course with all of these and forced stops.
These are the kinds of undelayed course the run has, with any bounds, `RetryMax` and number of reconnect threads. The delay is left out because its queue would need an invariant of its own; the code needs all the other hypotheses: without them TLC finds `KeepsExactly`, `OneSourceAfterHandover`,
`Playable`, `FallbackIsJustified` and `EverythingReset` violated (section 5). TLC checks that the streams of the run are in step.

*Task queue.* Neither property of the order is inductive: they compare what ran with what was pushed, and the deque in between is
rotated when a special task is put off. `InOrder` says that what has run, and the task that runs, is a prefix of what was pushed. `Phases` says
what the deque holds for each place of the owner, the only thread that pushes special tasks: nothing special before, then the one task, at some
place among the others (`WaitQueued`, `StopQueued`), then none, with everything before it run (`WaitTaken`, `StopTaken`).

*Video output.* `NeverSharesSlot` is not inductive: it speaks of two indices and says nothing of why they
differ. The invariant adds that the indices agree with the number of frames (`RingConsistent`),
that pictures are never from the future (`RingBounds`), that the semaphore counts the frames not yet begun (`WakesForEachFrame`), that
`frame_info`, read under the mutex and used after it, is still `first_added` (`FrameKept`), and that the stop flag precedes its
post (`FlagFirst`). The lemma `Places` says that the places after a slot, modulo the size of the cache, are different slots. The refinement reads the
ring as a sequence, `Frames`; a lemma for each thing that can be done to the ring (append, prolong the last, count down the first, drop it) says
what it does to the sequence. `SkipsCountedOnce` is stated with running totals over the slots, not as a sum over a set, so that a step need only say how it moves the
totals: a tick added to a slot raises those behind it (`TotalsRaised`), a tick that moves from a slot to the statistics raises those before it (`TotalsShifted`). A slot that a new frame
takes must hold no skips from before, which is `FreeSlots`. For the cadence, `Due` tells the inputs that the loop has passed from those it has still to reach, so that one that leaves from
its callback moves the places of the others but not what they are due.

*Texture encoding.* The batch of a frame is taken from the list while the thread is known to be at work, so it can only hold encoders that have
started and whose stop, if it has begun, has not passed its wait; the stop falls asleep because `inactive` is false (`ListInv`). The keys agree because a
texture is unused, queued, in work or rendered to, and in one of these only (`Apart`): a step that changes the key of one texture changes the
key no other frame remembers. What was queued has been released (`HandedOver`), and without the thread the queues are empty (`Empty`), so
that the first start finds every texture but the rendered one.
`TakesEachTick` compares the frame that is taken with the history of ticks. The invariant cuts that history into blocks, one for each queued texture and as long as its
count, behind the ticks still to come of the texture in work (`Cut`, `Taken`); the semaphore and the thread's place tell how many there are in all (`Accounted`).
Prolonging the newest texture, queueing one, taking the first and putting it back are four lemmas about such a cut
(`CutProlong`, `CutAppend`, `CutPop`, `CutPutBack`). That a frame's time is never ahead of its tick needs the order in which pictures and their ticks come (`InTurn`).

*Pause.* `KeepsExactly` looks back at what encoders kept and needs to know what they will do. `Served` says that each video encoder's next frame is on the grid of
frames and one interval after its last, `Pausing` that while the output is paused all encoders have the same start and no end, `Running` that an encoder which is not
done with a pause will meet its end (it lies ahead, and for video on the grid, which is why `obs_output_pause` takes the first video encoder's time), and `Passed` that
every other pause lies behind every encoder. From these follows, for one input and one pause, that what is kept of it is what lies outside (`VideoFrameKeeps`, `AudioSegmentKeeps`).

*Streaming.* `EverythingReset` speaks only of states in which all threads have ended; why the flags are clear by then is a matter of who will clear each of them, so `RtmpInv` says for every place of
every thread which flags may be set. A thread's stack is given by its place (`UiShape` to `RetryShape`): what it has to do after its present step has, but for a few choices, only one form. `connecting`,
`active` of the plugin and `ending` are set exactly while their threads run (`Flags`); data is captured only while the send thread has yet to end the capture, and `active` and the
encoders' callbacks are handed on to the thread that does (`Capture`). A `stop_event` that is set lies ahead of the send thread's reset (`StopFlag`), a `stopping_event` that is not set has a
thread on its way to set it (`StopResolved`), and an output that is reconnecting has a thread that goes on with it (`Driven`). These hold because the threads of a session take turns (`Turns`): nobody connects while
packets are sent or a capture is ended. `UserStops` and `UserStarts` say what the interface finds when it steps in, `Fronts` that a reconnect thread which has not started the stream yet is the only one and the
current one, `SessionOpen` that the user, whose buttons follow the signals, does not act on a session that is over. How the course keeps loss, stop and retry apart is the one part that differs
(`NoLoss`, `NoStop`, `Calm`): without losses no reconnect thread exists, without stops neither `reconnectStop` nor `stop_event` is ever set, and in a calm course the reconnect thread is never between two events when the user stops.
`Tale` says what the user was told last at the places from which a signal can come: the user's call or "reconnect" on the way to a connection, "start" or "reconnect_success" while packets are sent, never the end
where a stop is under way, and that "starting" is still to come exactly while the interface is inside `obs_output_start`; with it each signal is one that `StreamSession` allows next. One lemma for each action and thread shows that the step keeps all this.

*Bitrate.* The property gives a time by which the original bitrate is back. Its induction is over the steps taken since the last lowering: if `k` of them were taken, the
next is due no later than the timer, and `k` times the timer with the lateness of a step, after the lowering (`Pacing`); a step cannot be later than one frame, because
`check_to_drop_frames` sees every frame (`Followed`). An earlier statement without the lateness held only because the courses had evenly spaced frames; the proof failed
there, and the course with uneven ones refutes it.

*Dropping.* `Playable` is about what was sent; whether it will hold is decided when a packet is added, so the invariant is about all packets that were not dropped, sent or queued
(`Decodable`). Each frame among them has its reference and, if it is disposable, the low frames since (`Met`). Of a frame to come whose reference was seen already it says that the
reference was not dropped if `min_priority` would let it through, and likewise the low frames (`Ready`). `drop_frames` keeps this because it raises `min_priority` to what it drops
(`DropDecodable`), a frame that is kept away because it is of a lower priority (`RejectDecodable`), and one that is added because nothing it needs is gone
(`AcceptDecodable`). A packet in the queue cannot be needed by one that has left it, which takes the order of both (`InLine`).

*Controller.* `ChangesAreSpaced` compares a step with an earlier one. The invariant remembers it: the
samples since the last change and what is left of its cooldown add up to at least the whole cooldown, and the healthy
samples counted never exceed those that have passed.

*Panel.* `Posted` says that the news on their way are those of one stream, in their order, and which they can be for each state of the output; so the slot of StreamingStarted runs while the
stream is live, or with StreamingStopped right behind it, which stops the second destination again. `Believed` says which bitrate the encoder has while nothing is recorded: until StreamingStarted
is handled, what the service allows of the one the next reset of the controller will find in the settings, and then the controller's, once it has changed it. With recordings the two may differ, because a stream that starts
under one leaves the encoder alone, and the service only ever lowers, so that `FallbackIsJustified` needs less than equality and more than a bound: whenever the controller believes in the minimum, the encoder is there (`Deserved`). A reset of the
controller keeps this as long as the bitrate of the session is the user's or 4000, which is above every minimum; the lower maximum of 2500 comes with the last fallback, behind which
nothing can be given up (`LastStep`). The proof failed where the dialog lowers the bitrate under a recording, and TLC confirms that the code fails there, too (section 5).

*Stage.* `OthersFallSilent` is about sources that anybody still refers to, a pending timer or a posted call included. The invariant says of each of these but the active one
that it is on no monitor, is not copied into the transmission, is not listened to, and has stopped or has a pause or stop as the last of the commands it is yet to carry out (`Quiet`); that the
transmission is attached whenever the active source feeds it (`Attached`); and that the stage holds nothing, the active card, or the retiring one below the active one
(`OnStage`). It is shown for each of the panel's methods, and the handlers, which are compositions of these, follow. `Owned` adds
that the entries' sources are the active and the retiring ones; only this part needs `~Reselects`.

*Library.* `ToldOnce` and `LibraryKept` speak of a step of one operation that earlier steps of it have prepared. `TellInv` adds that an entry that was
reported is neither in the panel nor in the settings until the user adds it again; `OwnedInv` that a file the user added is stored, about to be reported, or
was reported or cut off; `KeepInv` that what the settings hold is what the panel holds, wherever no operation is under way or the restoring is not over, that slides in either
belong to the loaded presentation, and (`Dropped`) that an entry the two differ by has lost its file. A crash then restores a panel that loses nothing at the next save.
`NamedInv` says that the loaded presentation, in the panel and as stored, is in the list, so that loading the settings removes no directory.
`WholeInv` says that a presentation some list names has all its slides until it is `discarded`, and that the loaded one's are shown, in the panel and in what is stored. `DirInv`
counts, while the panel runs, the directories nobody will remove and the entries that lack slides (`Stray`, `Lacking`); the list of an operation differs from the stored one by one directory
(`OneAway`), so that a crash in between adds at most one to each count; a rename or a removal that fails adds one to the first. Both use that a list holds each presentation once (`IdInv`), which is why `Evict` takes one entry and not its twins.

*Only model-checked.* Liveness under fairness (`OwnerReturns`, `StopReturns` of both modules, that a session is resolved in `TellsASession`, `UserIsAnswered`, `SenderAnswers`,
`Recovers`, `HostIsAnswered`, `FallbackComesBack`, `HandoverEnds`), because the prover has neither ENABLED nor a way from fairness to a leads-to of this
length; `SentInOrder`, `UnbrokenFromKey`, `StartsTogether` and `BeginsInTime`, which hold for the courses of the run and
not for every sequence of packets (section 5 has one that breaks the first), and which rest on `Resort`, a fold over the packets:
what it computes for every input needs induction over data; and `EverythingReset` and the order of the signals for delayed streams. No module declares a RECURSIVE operator.

## 5. Where code and documentation disagree, and counterexamples to reproduce

One run shows a violation, `rtmp_stop_races_loss` (rtmp-stream.c:218; reference-outputs.rst:410-412): a stop while the send thread winds up
a lost connection finds the plugin active, sets an event the send thread clears, and nobody sends "stop".

Each of the following is found by TLC when the named constant, course or property of a passing run's configuration is changed; a property that is not
one of the run's own stands in the module, with the words it is taken from:

| Change | Violated | What happens |
|---|---|---|
| VideoOutput: `InputCadence` without `missed` | `InputCadence` | an input that disconnects itself from its callback is erased from the array the loop walks; the input after it misses that tick (video-io.c:144, 482; comment at 52-53) |
| MCRtmpStream: `Courses <- ForceAndRetry`, `RetryMax = 1`, `MaxThreads = 2` | `UserIsAnswered` | the delay expires between the two events a forced stop touches: the stop joins the reconnect thread, which waits for that stop (obs-output.c:482-488; reference-outputs.rst:448) |
| MCRtmpStream: `LateLoss = FALSE` | `EverythingReset` | a connection lost between the two flags `obs_output_begin_data_capture` sets ends nothing; the encoders stay hooked (obs-output.c:2882) |
| MCRtmpStream: `Courses <- StopAndLoss` or `ForceAndRetry` | `EverythingReset` | a stop while a loss is wound up (above) or a forced stop in the same moment (rtmp-stream.c:218, 743) sets `stop_event` after the send thread has cleared it; it stays set |
| MCRtmpStream: `Courses <- DelayedStops` | `EverythingReset` | a second stop of a delayed stream tests `active_delay_ns` (obs-output.c:543) and pushes its message after the queue was emptied (obs-output-delay.c:86); the message ends the next delayed stream at once |
| MCRtmpStream: `Courses <- DelayedForce`, `EarlyForce = FALSE` | `TellsASession` | a delayed stream stopped by force while it connects is not told (`call_stop` is `delay_capturing`, obs-output.c:493) and hooks again; stopped while capturing it sends "stop" twice (497) |
| MCAdaptivePerformance: `Courses <- SlowDetaching`, `Bitrates <- OneBitrate`, `FirstBitrate = 3000`, `DownCooldown = 1` | `OnAirOrComingBack` | StreamingStopped is handled before the encoders are detached, `ResetVideo` fails and the stream the fallback stopped never comes back (PresenterPanel.cpp:2406; OPBS_RENDIMIENTO_ADAPTATIVO.md:53-54) |
| MCAdaptivePerformance: `Courses <- RecordedDialog` | `FallbackIsJustified` | the dialog lowers the bitrate while something is recorded, and a stream started then leaves the encoder alone (SimpleOutput.cpp:612): the controller starts at the new minimum and the stream is given up for a lower resolution, with the encoder never lowered (OPBS_RENDIMIENTO_ADAPTATIVO.md:53: "después de alcanzar el bitrate mínimo"). `SlowDialog` shows the same for a stream that stopped and whose encoders take a minute to detach |
| MCPresenterStage: `Reselects = TRUE`, `MaxActs = 0` | `OneSourceAfterHandover` | a card chosen again while it retires loses its source to the hand-over (PresenterPanel.cpp:2843; PRESENTADOR_ARQUITECTURA.md:32-33) |
| MCOutputPause: `Patient = FALSE`, one video encoder | `KeepsExactly` | a pause is resumed before an encoder has reached its start: a segment in which both the start and the end fall is cut off at the start, and the samples behind the end are lost (obs-encoder.c:1806, 1813; reference-outputs.rst:72-76) |
| MCInterleaver: `Courses <- OutOfPhase` | `SentInOrder` | two audio tracks whose packets do not begin together: there is one `highest_audio_ts` for all, so a picture does not wait for the track that is behind, and that packet is sent after it (obs-output.c:1479; comment at 2211-2212) |
| MCGpuEncode: `SPECIFICATION FailingSpec` | `StopReturns` | an encoder that fails is stopped on the encode thread, which waits for itself (obs.c:3224; the comment at obs-encoder.c:441-445 describes the same for `video_output`) |
| MCPacketQueue: `Courses <- OutOfStep` | `Playable` | two video tracks share one `min_priority` (rtmp-stream.c:1831): the key frame of one lets the other go on, whose frames refer to some that were dropped |
| MCAdaptivePerformance: `PROPERTY PressureLowers` alone | `PressureLowers` | the service caps the bitrate of the encoder when it is set up (SimpleOutput.cpp:346, rtmp-common.c:740-754) and the controller does not know of it: its first answer to pressure may raise what the encoder sends (PresenterPanel.cpp:5752; OPBS_RENDIMIENTO_ADAPTATIVO.md:47-48: "reduce el bitrate"). At Facebook Live's 4000 for 720p and 10000 in the dialog, the first reduction sets 7800 or 8500 |
| MCInterleaver: `INVARIANT BeginsWithKey` | `BeginsWithKey` | audio that comes late to a video encoder another output uses already makes `prune_premature_packets` drop the key frame the output waited for; `received_video` stays set, and the stream begins with the frame after it (obs-output.c:1880; comment at 2237: "if first video frame is not a keyframe, discard until received") |
| MCPresenterStage: `INVARIANT StageIsNotMixed` | `StageIsNotMixed` | only MONITOR_ONLY keeps a card out of the mix (obs-source.c:1650); the one that retires loses it at once, stays on the stage and pauses by a queued command: until then it is mixed (PresenterPanel.cpp:2863, 2866; PRESENTADOR_ARQUITECTURA.md:177-178: "por diseño no entran otras fuentes al mix 0") |
| MCPresenterLibrary: `INVARIANT LostIsTold` | `LostIsTold` | `presenter.ini` is saved without the files that have gone and the notice is shown by a timer: when the process ends in between, nobody is told (PresenterPanel.cpp:5029, 5032; PRESENTADOR_ARQUITECTURA.md:114: "informa una sola vez los nombres eliminados") |
| MCPacketQueue: `INVARIANT BitrateIsReset` | `BitrateIsReset` | the original bitrate is restored from what a later lowering left (rtmp-stream.c:725-731), and the next connection takes the lowered one for the original (1422) |
| MCPacketQueue: `INVARIANT ErrorIsTold` | `ErrorIsTold` | `encode_error` is set after the send thread was woken and has read it (697, 736): the stream ends with success (reference-outputs.rst:272) |

Behaviours seen while modelling that no configuration shows:

* Skipped frames: both paths add to one counter (video-io.c:152, 657), so while raw and texture encoders run, a tick that both come too late for counts twice;
  and they do not count the same thing: a picture that lasts two ticks counts one skip in the texture path, whether anything was lost or not.
* Adaptive streaming: the controller is never told of the service's maximum. After a recovery it gives the encoder the bitrate of the user, above that maximum (5752).
  The dialog accepted while a stream connects replaces the output handler (PresenterPanel.cpp:4160, OBSBasic_OutputHandler.cpp:26-43): the stream is
  gone and no event says so. `OnAirOrComingBack` fails with it.
* Delay: a stop and a refused connection send "stop" twice; the threads of two encoders may carry out a start and a stop at one time
  (the model takes one message at a time).
* A connection that is refused, or made, while the interface has not yet returned from the plugin's start is told before it is announced: "stop" or "start"
  come before "starting" (obs-output.c:410-411). An application that takes "starting" as the first signal of a session would be misled; the frontend is not.
* A forced stop at any moment of the send thread's last instructions leaves `stop_event` set, sends "stop" twice,
  or makes the next start wait (an uncalm course with `forces`).
* Metadata that cannot be sent (rtmp-stream.c:1083) leave `active` set and a send thread that waits; an `init_connect` that fails (1505) leaves
  `connecting` set.
* Packet queue: `dbr_prev_bitrate` and `last_dts_usec` outlive the stream (1655); the congestion is stale while only key frames
  and audio are queued, and these are never dropped: a network too slow for them grows the queue without a bound.
* Interleaver: with two
  video tracks of which one has lost its key frame before the capture was active `discard_unused_audio_packets` may drop the other one's key frame; `interleaver_max_batch_size` only grows (2749); the
  prune point uses the difference of the last audio encoder, `max_diff` is computed and not used (1861-1880).
* Pause: time stamps of the texture path may skip or repeat, so that `ts == ts_end` (obs-encoder.c:1517) may never hold, and likewise with a frame rate
  divisor; `last_video_ts` is 0 before the first frame; an output that ends while paused stays `paused`; `paused` is
  tested outside the encoders' mutexes (obs-output.c:836).
* Library: an import whose removal a crash cut short is still offered, with the slides that are left; recent presentations may name a directory that
  is gone, and choosing one then does nothing and says nothing (1957); a rename that fails leaves the temporary directory (2619-2623), and a
  removal that fails a directory nothing names (1441, 2582, 2643); the branches at 1964 and 4875 cannot be reached.
* The stream ends while the interface is restricted: the panel goes back to normal, the controller stays
  constrained (PresenterPanel.cpp:2393), so the interface is not restricted again until the pressure has gone and come back.
* The dialog lowers the bitrate during a stream: the controller keeps the old maximum until the stream restarts (4126).
* While a recording is active, starting a stream does not update the shared encoder (SimpleOutput.cpp:612), so the
  controller's bitrate and the encoder's differ; `DestinationsFollow` is stated without recordings for this reason.
* With an encoder that cannot change its bitrate the controller still counts down, and the fallback comes although the encoder
  never was at the minimum (`DynamicBitrate = FALSE`).
* A user who stops the stream while a fallback is pending is overruled 1.2 s later; one who starts it
  meanwhile has it started a second time while it connects. A second click on a connecting stream starts it again too:
  `StreamingActive` is still false (5547). That is why such clicks are left out of the model.
* Two fallbacks are counted for the life of the panel, not of a session, and the resolution is not restored.
* A hand-over to a video or camera looks for a frame at fixed moments (2 s at most, 200 ms for a camera); a frame that comes later, or that a
  stop took away, leaves the old card under the new one until the next choice. `HandoverEnds` is stated for slides and sounds.
* A third card chosen before the second has shown a frame ends that hand-over: the stage is black until the third shows one.

## 6. What is not modelled

The parts in the second table of section 1 and those `PROJECT.json` lists as `not_modelled`. Most of the 390 000 lines of the implementation are
drivers, capture and filter plugins, formats, user interface and vendored code, where nothing several actors do to shared state could be
stated; the models stand for the parts that coordinate. Within the modelled parts:

* Output: creation and allocation failures, raw outputs, captions. RtmpStream and PacketQueue: failing metadata and `init_connect`, the destruction of
  a stream, the socket thread of Windows, how a bitrate is shared among encoders, the reported congestion.
* GpuEncode: a start between the erasing and the freeing of the last encoder (obs.c:3192, 3220); the event of POSIX, which wakes one waiter
  (threading-posix.c:149-160).
* OutputPause: rounding between clocks, raw outputs. Interleaver: captions and the metadata of packets.
* AdaptivePerformance: the counters samples are computed from, the advanced output mode, a second destination that fails by itself.
* PresenterStage: replacing the configured camera, thumbnails, volume, loop and filters.
* PresenterLibrary: the order of entries, folders, slides added by hand, the conversion itself (`PresentationImporter.cpp`).

## 7. Plan

Done, in this order: TaskQueue; FrameQueue and VideoOutput; Output, RtmpStream and StreamSession; AdaptivePolicy, AdaptiveController and
AdaptivePerformance; PresenterStage; Interleaver; OutputPause; GpuEncode; PacketQueue; PresenterLibrary; the delay in Output; the proofs of section 4.

Next, most important first:

1. `Encoder`: first and last callback, groups, pairing with audio, an error in the callback; it would feed Interleaver and OutputPause.
2. RtmpStream in more detail: metadata and `init_connect` that fail, encoder errors.
3. `AsyncFrames` and `MediaPlayback`: the frame cache of a source and the flags of the playback thread; they replace `CarryOut` and `FirstFrame` of PresenterStage.
4. `SharedFrames` (virtual camera), `ReplayBuffer`, `BufferedFile`, `SignalHandler`, `ObjectRefs`, `Updater`.

Proofs, in order: the two streaming theorems for delayed streams, whose queue hands starts and stops to the threads of the encoders; a typing theorem where the invariants so far only have the types they need (PacketQueue, PresenterLibrary).
