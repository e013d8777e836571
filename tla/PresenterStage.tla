--------------------------- MODULE PresenterStage ---------------------------
(***************************************************************************)
(* What is on the stage of the presenter and how one card follows another  *)
(* (frontend/widgets/PresenterPanel.cpp): the new source goes on top of    *)
(* the old one, which stays, paused, until the new one has something to    *)
(* show; then the hand-over is finished and the old one let go.            *)
(*                                                                         *)
(* The handlers run one at a time on the interface thread, each an action; *)
(* operators on the state of the panel stand for the methods they call.    *)
(* The timers of earlier cards are still pending when later ones are       *)
(* chosen.  libobs carries out the commands of a source, in order, on      *)
(* another thread, and the news that it has started comes back queued.     *)
(***************************************************************************)
EXTENDS Naturals, Sequences, FiniteSets, Bags, SequencesExt

CONSTANTS
    None,           \* no entry, no source, no item (nullptr)
    Images,         \* the cards of the library
    Sounds,
    Videos,
    Captures,       \* capture entries; each has the one source of its name
    Instances,      \* bound: sources of media that exist at one time
    MaxChoices,     \* bound: cards, captures and verses the user puts on the stage
    MaxActs,        \* bound: the other things the user does
    Reselects       \* may a card be chosen again while it is retiring?

Media == Images \cup Sounds \cup Videos
Sources == Instances \cup Captures
Items == 1 .. 3
Commands == {"restart", "play", "pause", "stop"}

ASSUME StageAssumption ==
    /\ None \notin Media \cup Sources \cup Items
    /\ Media \cap Sources = {} /\ Instances \cap Captures = {}
    /\ {MaxChoices, MaxActs} \subseteq Nat /\ Reselects \in BOOLEAN

VARIABLES
    panel,      \* the members of the panel and the stage scene, see Panels
    sources,    \* what libobs knows of each source, see SourceStates
    timers,     \* single shots that are still to fire, a bag
    started,    \* queued calls of MediaStarted's lambda
    choices,    \* bound: what is left of MaxChoices and MaxActs
    acts

user == <<choices, acts>>
vars == <<panel, sources, timers, started, user>>

Panels ==
    [open : BOOLEAN,                            \* stageScene exists
     library : SUBSET Media,                    \* entries
     captures : SUBSET Captures,                \* captureEntries
     entrySource : [Media -> Instances \cup {None}],
     activeEntry : Media \cup {None},
     activeSource : Sources \cup {None},
     activeItem : Items \cup {None},
     retiringSource : Sources \cup {None},
     retiringItem : Items \cup {None},
     attached : BOOLEAN,                        \* transmissionPresenterAudioAttached
     verse : BOOLEAN,                           \* the items of a Bible verse
     \* the scene: the media items from the bottom to the top
     stage : Seq([item : Items, source : Sources])]

SourceStates ==
    [of : Media \cup Captures,
     monitored : BOOLEAN,       \* MONITOR_ONLY: on the local device, not mixed
     captured : BOOLEAN,        \* copied into the transmission (audio callback)
     connected : BOOLEAN,       \* "media_started" calls MediaStarted
     todo : Seq(Commands),      \* media_actions
     state : {"playing", "paused", "stopped"},
     frame : BOOLEAN]           \* width and height are not zero

TimerKinds == {"handover", "handoverIfFrame", "monitor"}
Timer(kind, target) == [kind |-> kind, target |-> target]
Start(kind, target) == SetToBag({Timer(kind, target)})

(* A source lives as long as somebody refers to it.                        *)
Live ==
    {panel.entrySource[e] : e \in Media}
    \cup {panel.activeSource, panel.retiringSource}
    \cup {panel.stage[i].source : i \in DOMAIN panel.stage}
    \cup {t.target : t \in BagToSet(timers)}
    \cup ToSet(started) \cup Captures

(* A source as it is created; ffmpeg_source starts a local file at once.   *)
Created(e) ==
    [of |-> e, monitored |-> FALSE, captured |-> FALSE, connected |-> FALSE, todo |-> <<>>,
     state |-> IF e \in Videos \cup Sounds THEN "playing" ELSE "stopped",
     frame |-> e \in Images]

(* What stands for a source that does not exist.                           *)
Unused == Created(CHOOSE e \in Media : TRUE)

Init ==
    /\ panel = [open |-> TRUE, library |-> Media, captures |-> Captures,
                entrySource |-> [e \in Media |-> None], activeEntry |-> None,
                activeSource |-> None, activeItem |-> None, retiringSource |-> None,
                retiringItem |-> None, attached |-> FALSE, verse |-> FALSE, stage |-> <<>>]
    /\ sources = [s \in Sources |-> IF s \in Captures THEN Created(s) ELSE Unused]
    /\ timers = EmptyBag
    /\ started = <<>>
    /\ choices = MaxChoices /\ acts = MaxActs

-----------------------------------------------------------------------------
(* Methods that others call.  Those of the panel take and return           *)
(* w = [p |-> panel, s |-> sources], or the one of them they are about.    *)

World == [p |-> panel, s |-> sources]

(* A source nobody refers to any more is destroyed.                        *)
Becomes(w) ==
    /\ panel' = w.p
    /\ sources' = [s \in Sources |-> IF s \in Live' THEN w.s[s] ELSE Unused]

(* libobs ignores a call for a source that is None.                        *)
Monitor(s, source, on) == IF source = None THEN s ELSE [s EXCEPT ![source].monitored = on]
Capture(s, source, on) == IF source = None THEN s ELSE [s EXCEPT ![source].captured = on]
Listen(s, source, on) == IF source = None THEN s ELSE [s EXCEPT ![source].connected = on]

(* obs_source_media_*: images and captures have no media controls.         *)
Command(s, source, what) ==
    IF source # None /\ s[source].of \in Videos \cup Sounds
    THEN [s EXCEPT ![source].todo = Append(@, what)] ELSE s

(* obs_sceneitem_remove and obs_scene_add: the new item is the topmost.    *)
OffStage(p, item) ==
    IF \E k \in DOMAIN p.stage : p.stage[k].item = item
    THEN [p EXCEPT !.stage = RemoveAt(p.stage, CHOOSE k \in DOMAIN p.stage : p.stage[k].item = item)]
    ELSE p

FreeItem(p) == CHOOSE i \in Items : \A k \in DOMAIN p.stage : p.stage[k].item # i
AddItem(p, item, source) ==
    [p EXCEPT !.stage = Append(p.stage, [item |-> item, source |-> source])]

(* A scene mixes what its items play but a monitored source; the captures  *)
(* have their mixers switched off.                                         *)
Mixed(s) ==
    /\ s \notin Captures /\ sources[s].state = "playing" /\ ~sources[s].monitored
    /\ \E k \in DOMAIN panel.stage : panel.stage[k].source = s

(* ReleaseSource(): never the active entry's.                              *)
ReleaseSource(p, e) ==
    IF e = None \/ e = p.activeEntry THEN p ELSE [p EXCEPT !.entrySource[e] = None]

(* DetachTransmissionPresenterAudio(), AttachTransmissionPresenterAudio(). *)
DetachAudio(w) ==
    [p |-> [w.p EXCEPT !.attached = FALSE],
     s |-> IF w.p.attached THEN Capture(w.s, w.p.activeSource, FALSE) ELSE w.s]

AttachAudio(w) ==
    IF w.p.activeSource = None \/ w.p.attached THEN w
    ELSE [p |-> [w.p EXCEPT !.attached = TRUE], s |-> Capture(w.s, w.p.activeSource, TRUE)]

(* RebuildAudioMonitor().                                                  *)
RebuildAudioMonitor(w) == [p |-> w.p, s |-> Monitor(w.s, w.p.activeSource, TRUE)]

(* FinishStageHandover() once the target is known to be the active source. *)
FinishStageHandover_Keeps(w) ==
    LET old == w.p.retiringSource
    IN [p |-> [OffStage(w.p, w.p.retiringItem) EXCEPT !.retiringItem = None, !.retiringSource = None],
        s |-> Monitor(Command(w.s, old, "stop"), old, FALSE)]

FinishStageHandover(w) ==
    LET old == w.p.retiringSource
        ends == old # None /\ old # w.p.activeSource
        kept(e) == ~ends \/ e = w.p.activeEntry \/ w.p.entrySource[e] # old
    IN [p |-> [OffStage(w.p, w.p.retiringItem) EXCEPT
                  !.entrySource = [e \in Media |-> IF kept(e) THEN w.p.entrySource[e] ELSE None],
                  !.retiringItem = None, !.retiringSource = None],
        s |-> IF ends THEN Monitor(Command(w.s, old, "stop"), old, FALSE) ELSE w.s]

(* ClearActiveMedia(): the active source is taken off the monitor and told *)
(* to pause or stop; retained, it stays on the stage and retires, and it   *)
(* is mixed until it pauses; else it is taken off and its entry let go.    *)
Silenced_StillMonitored(s, source, retain) ==
    Command(Listen(s, source, FALSE), source, IF retain THEN "pause" ELSE "stop")

Silenced(s, source, retain) ==
    Monitor(Command(Listen(s, source, FALSE), source, IF retain THEN "pause" ELSE "stop"),
            source, FALSE)

OffTheStage(p, retain) ==
    IF p.activeItem = None THEN p
    ELSE IF retain
    THEN [p EXCEPT !.retiringItem = p.activeItem, !.retiringSource = p.activeSource]
    ELSE OffStage(p, p.activeItem)

ClearActiveMedia(w, retain) ==
    LET quiet == DetachAudio(FinishStageHandover(w))
        cleared == [OffTheStage(quiet.p, retain) EXCEPT
                       !.activeItem = None, !.activeSource = None, !.activeEntry = None]
    IN [p |-> IF retain THEN cleared ELSE ReleaseSource(cleared, w.p.activeEntry),
        s |-> Silenced(quiet.s, w.p.activeSource, retain)]

ClearBible(p) == [p EXCEPT !.verse = FALSE]

(* EnsureSource().                                                         *)
EnsureSource(w, e) ==
    IF w.p.entrySource[e] # None THEN w
    ELSE LET new == CHOOSE s \in Instances : s \notin Live
         IN [p |-> [w.p EXCEPT !.entrySource[e] = new], s |-> [w.s EXCEPT ![new] = Created(e)]]

-----------------------------------------------------------------------------
(* The user.                                                               *)

Choose == panel.open /\ choices > 0 /\ choices' = choices - 1 /\ UNCHANGED acts
Act == panel.open /\ acts > 0 /\ acts' = acts - 1 /\ UNCHANGED choices

(* The first timer of ActivateMedia(); only a video has to have a frame.   *)
HandoverTimer(e) == IF e \in Videos THEN "handoverIfFrame" ELSE "handover"

(* ActivateMedia(): a card is clicked.  What entry->source holds is read   *)
(* again after ClearActiveMedia().                                         *)
ActivateMedia(e) ==
    LET ensured == EnsureSource(World, e)
        item == FreeItem(ensured.p)
        added == AddItem(ensured.p, item, ensured.p.entrySource[e])
        cleared == ClearActiveMedia([p |-> ClearBible(added), s |-> ensured.s], TRUE)
        target == cleared.p.entrySource[e]
        active == [cleared.p EXCEPT !.activeEntry = e, !.activeSource = target,
                                    !.activeItem = item]
        heard == AttachAudio([p |-> active, s |-> Monitor(cleared.s, target, TRUE)])
    IN /\ Choose /\ e \in panel.library
       /\ \/ Reselects \/ e = panel.activeEntry
          \/ panel.entrySource[e] = None \/ panel.entrySource[e] # panel.retiringSource
       /\ panel.entrySource[e] = None => Instances \ Live # {}
       /\ timers' = timers (+) Start(HandoverTimer(e), target) (+) Start("monitor", target)
       /\ UNCHANGED started
       /\ Becomes(RebuildAudioMonitor(
             [p |-> heard.p, s |-> Command(Listen(heard.s, target, TRUE), target, "restart")]))

(* ActivateCaptureSource(): a camera or a window is clicked.               *)
ActivateCaptureSource(c) ==
    LET item == FreeItem(panel)
        cleared == ClearActiveMedia([p |-> ClearBible(AddItem(panel, item, c)), s |-> sources], TRUE)
    IN /\ Choose /\ c \in panel.captures
       /\ timers' = timers (+) Start("handoverIfFrame", c)
       /\ UNCHANGED started
       /\ Becomes([p |-> [cleared.p EXCEPT !.activeSource = c, !.activeItem = item],
                   s |-> cleared.s])

(* ProjectBibleVerse(): nothing retires, the verse appears at once.        *)
ProjectBibleVerse ==
    /\ Choose
    /\ UNCHANGED <<timers, started>>
    /\ LET w == ClearActiveMedia(World, FALSE)
       IN Becomes([p |-> [w.p EXCEPT !.verse = TRUE], s |-> w.s])

(* RemoveMediaEntry(), and ClearPresentationEntries() for each slide.      *)
RemoveMediaEntry(e) ==
    /\ Act /\ e \in panel.library
    /\ UNCHANGED <<timers, started>>
    /\ LET w == IF panel.activeEntry = e THEN ClearActiveMedia(World, FALSE)
                ELSE [p |-> ReleaseSource(panel, e), s |-> sources]
       IN Becomes([p |-> [w.p EXCEPT !.library = @ \ {e}], s |-> w.s])

(* "Eliminar" in the menu of a capture entry.                              *)
RemoveCapture(c) ==
    /\ Act /\ c \in panel.captures
    /\ UNCHANGED <<timers, started>>
    /\ LET w == IF panel.activeSource = c THEN ClearActiveMedia(World, FALSE) ELSE World
       IN Becomes([p |-> [w.p EXCEPT !.captures = @ \ {c}], s |-> w.s])

(* TogglePlayPause(), StopMedia(), by the state libobs reports just now.   *)
TogglePlayPause ==
    /\ Act /\ panel.activeSource # None
    /\ UNCHANGED <<timers, started>>
    /\ LET state == sources[panel.activeSource].state
           what == IF state = "playing" THEN "pause"
                   ELSE IF state = "paused" THEN "play" ELSE "restart"
       IN Becomes([p |-> panel, s |-> Command(sources, panel.activeSource, what)])

StopMedia ==
    /\ Act /\ panel.activeSource # None
    /\ UNCHANGED <<timers, started>>
    /\ Becomes([p |-> panel, s |-> Command(sources, panel.activeSource, "stop")])

(* The sound dialog is accepted.                                           *)
ChangeAudioDevice ==
    /\ Act
    /\ UNCHANGED <<timers, started>>
    /\ Becomes(RebuildAudioMonitor(World))

(* Shutdown(): the timers stay pending.                                    *)
Shutdown ==
    /\ Act
    /\ UNCHANGED <<timers, started>>
    /\ LET w == ClearActiveMedia(DetachAudio(World), FALSE)
       IN Becomes([p |-> [ClearBible(w.p) EXCEPT
                             !.open = FALSE, !.captures = {}, !.library = {},
                             !.entrySource = [e \in Media |-> None], !.stage = <<>>],
                   s |-> w.s])

-----------------------------------------------------------------------------
(* Timers and queued calls.                                                *)

(* The check at the head of FinishStageHandover(expectedTarget).           *)
Expected_Swapped(target) == target = None \/ target # panel.activeSource
Expected(target) == target = None \/ target = panel.activeSource

HasFrame(target) == target # None /\ sources[target].frame

FireHandover(t) ==
    /\ timers' = timers (-) SetToBag({t})
    /\ UNCHANGED <<started, user>>
    /\ Becomes(IF Expected(t.target) THEN FinishStageHandover(World) ELSE World)

FireHandoverIfFrame(t) ==
    /\ timers' = timers (-) SetToBag({t})
    /\ UNCHANGED <<started, user>>
    /\ Becomes(IF HasFrame(t.target) /\ Expected(t.target)
               THEN FinishStageHandover(World) ELSE World)

FireMonitor(t) ==
    /\ timers' = timers (-) SetToBag({t})
    /\ UNCHANGED <<started, user>>
    /\ Becomes(IF t.target = panel.activeSource THEN RebuildAudioMonitor(World) ELSE World)

FireTimer ==
    \E t \in BagToSet(timers) :
        \/ t.kind = "handover" /\ FireHandover(t)
        \/ t.kind = "handoverIfFrame" /\ FireHandoverIfFrame(t)
        \/ t.kind = "monitor" /\ FireMonitor(t)

(* The lambda MediaStarted() posts.                                        *)
HandleStarted ==
    /\ started # <<>>
    /\ started' = Tail(started)
    /\ UNCHANGED user
    /\ IF Head(started) = panel.activeSource
       THEN /\ timers' = timers (+) Start("handoverIfFrame", Head(started))
            /\ Becomes(RebuildAudioMonitor(World))
       ELSE UNCHANGED timers /\ Becomes(World)

-----------------------------------------------------------------------------
(* libobs and the sources.                                                 *)

(* The next command of a source; "media_started" reaches the panel if it   *)
(* is connected at that moment.                                            *)
CarryOut(s) ==
    /\ s \in Live /\ sources[s].todo # <<>>
    /\ LET what == Head(sources[s].todo)
           starts == what \in {"restart", "play"}
       IN /\ sources' = [sources EXCEPT
                 ![s].todo = Tail(@),
                 ![s].state = IF starts THEN "playing"
                              ELSE IF what = "pause" THEN "paused" ELSE "stopped",
                 ![s].frame = @ /\ what # "stop"]
          /\ started' = IF starts /\ sources[s].connected THEN Append(started, s) ELSE started
    /\ UNCHANGED <<panel, timers, user>>

(* A picture arrives.                                                      *)
FirstFrame(s) ==
    /\ s \in Live /\ ~sources[s].frame
    /\ \/ sources[s].of \in Captures
       \/ sources[s].of \in Videos /\ sources[s].state = "playing"
    /\ sources' = [sources EXCEPT ![s].frame = TRUE]
    /\ UNCHANGED <<panel, timers, started, user>>

(* A file has been played to its end.                                      *)
MediaEnded(s) ==
    /\ s \in Live /\ sources[s].of \in Videos \cup Sounds
    /\ sources[s].state = "playing" /\ sources[s].todo = <<>>
    /\ sources[s].of \in Videos => sources[s].frame
    /\ sources' = [sources EXCEPT ![s].state = "stopped", ![s].frame = FALSE]
    /\ UNCHANGED <<panel, timers, started, user>>

User ==
    \/ \E e \in Media : ActivateMedia(e) \/ RemoveMediaEntry(e)
    \/ \E c \in Captures : ActivateCaptureSource(c) \/ RemoveCapture(c)
    \/ ProjectBibleVerse \/ TogglePlayPause \/ StopMedia
    \/ ChangeAudioDevice \/ Shutdown

Next ==
    \/ User \/ FireTimer \/ HandleStarted
    \/ \E s \in Sources : CarryOut(s) \/ FirstFrame(s) \/ MediaEnded(s)

(* Timers fire.  The hand-over of a picture or a sound needs no more: no   *)
(* picture has to come, no command to be carried out.                      *)
Spec == Init /\ [][Next]_vars /\ WF_vars(FireTimer)

-----------------------------------------------------------------------------
(* "Al terminar el relevo vuelve a existir una sola fuente multimedia      *)
(* activa" (PRESENTADOR_ARQUITECTURA.md): with no hand-over under way the  *)
(* active source, if there is one, is alone on the stage, it is that of    *)
(* the active card, and no other card holds on to a decoder.               *)
OneSourceAfterHandover ==
    panel.retiringItem = None =>
        /\ panel.stage = IF panel.activeItem = None THEN <<>>
                         ELSE <<[item |-> panel.activeItem, source |-> panel.activeSource]>>
        /\ \A e \in Media : panel.entrySource[e] =
               IF e = panel.activeEntry THEN panel.activeSource ELSE None

(* Whatever timers and news of earlier cards are still to come, only the   *)
(* active source is on the monitor, copied into the transmission and       *)
(* listened to.  Another that still plays is sure to be silenced: a pause  *)
(* or a stop is the last thing libobs has been told to do with it.         *)
OthersFallSilent ==
    \A s \in Live \ {None, panel.activeSource} :
        /\ ~sources[s].monitored /\ ~sources[s].captured /\ ~sources[s].connected
        /\ sources[s].state = "playing" =>
               sources[s].todo # <<>> /\ Last(sources[s].todo) \in {"pause", "stop"}

(* The stage puts nothing into the mix, "por diseño no entran otras        *)
(* fuentes al mix 0" than the copies (PRESENTADOR_ARQUITECTURA.md:178).  A *)
(* card that retires does, taken off the monitor and not yet paused.       *)
StageIsNotMixed == \A s \in Live \ {None} : ~Mixed(s)

(* A picture or a sound that follows another card takes its place: the     *)
(* hand-over does not depend on a frame.                                   *)
StillCard == panel.activeEntry \in Images \cup Sounds
HandoverEnds == panel.retiringItem # None /\ StillCard ~> panel.retiringItem = None \/ ~StillCard

=============================================================================
