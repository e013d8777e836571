------------------------ MODULE PresenterStage_proofs ------------------------
(***************************************************************************)
(* One source remains after a hand-over, and all but the active one fall   *)
(* silent: for any library, any number of sources, timers and choices.     *)
(*                                                                         *)
(* The invariant says what stands on the stage (OnStage), to whom it and   *)
(* the sources of the cards belong (Owned, which needs that no card is     *)
(* chosen while it is retiring), that every source but the active one is   *)
(* mute or will be when it has carried out its commands (Quiet), and that  *)
(* only the active source is copied into the transmission (Attached).      *)
(***************************************************************************)
EXTENDS PresenterStage, SequenceTheorems, TLAPS

Played == Videos \cup Sounds

SourceType ==
    [of : Media \cup Captures \cup {Unused.of}, monitored : BOOLEAN, captured : BOOLEAN,
     connected : BOOLEAN, todo : Seq(Commands), state : {"playing", "paused", "stopped"},
     frame : BOOLEAN]

\* What has no media controls plays nothing.
Still(x) == x.of \notin Played => x.todo = <<>> /\ x.state # "playing"

Typed ==
    /\ panel \in Panels
    /\ sources \in [Sources -> SourceType] /\ \A s \in Sources : Still(sources[s])
    /\ \A t \in BagToSet(timers) : t.target \in Sources \cup {None}
    /\ started \in Seq(Sources)

Card(item, source) == [item |-> item, source |-> source]

\* From the bottom to the top: the retiring item and the active one.
OnStage(p) ==
    \/ p.activeItem = None /\ p.retiringItem = None /\ p.stage = <<>>
    \/ /\ p.activeItem # None /\ p.retiringItem = None
       /\ \E a \in Sources : p.stage = <<Card(p.activeItem, a)>>
    \/ /\ p.activeItem # None /\ p.retiringItem # None /\ p.activeItem # p.retiringItem
       /\ \E r, a \in Sources : p.stage = <<Card(p.retiringItem, r), Card(p.activeItem, a)>>

Owned(p) ==
    /\ p.activeItem = None => p.activeEntry = None /\ p.activeSource = None
    /\ p.retiringItem = None => p.retiringSource = None
    /\ \A k \in DOMAIN p.stage :
        p.stage[k].source = IF p.stage[k].item = p.activeItem THEN p.activeSource
                            ELSE p.retiringSource
    /\ \A e \in Media :
        IF e = p.activeEntry THEN p.entrySource[e] = p.activeSource /\ p.activeSource # None
        ELSE \/ p.entrySource[e] = None
             \/ p.entrySource[e] = p.retiringSource /\ p.retiringSource # p.activeSource

Mute(x) ==
    /\ ~x.monitored /\ ~x.captured /\ ~x.connected
    /\ IF x.todo = <<>> THEN x.state # "playing" ELSE Last(x.todo) \in {"pause", "stop"}

Quiet == \A s \in Live \ {None, panel.activeSource} : Mute(sources[s])

Attached ==
    panel.activeSource # None /\ sources[panel.activeSource].captured => panel.attached

StageInv ==
    /\ Typed /\ OnStage(panel) /\ (~Reselects => Owned(panel))
    /\ Quiet /\ Attached

-----------------------------------------------------------------------------
(* Sources, one and all.                                                   *)

IsSources(s) == s \in [Sources -> SourceType] /\ \A x \in Sources : Still(s[x])

LEMMA NoneIsNothing ==
  /\ None \notin Media /\ None \notin Sources /\ None \notin Items
  /\ Instances \subseteq Sources /\ Captures \subseteq Sources
  /\ Media \cap Sources = {} /\ Instances \cap Captures = {}
BY StageAssumption DEF Sources

\* A source is still one when a member of it is replaced.
LEMMA Members ==
  ASSUME NEW x \in SourceType, Still(x)
  PROVE  /\ \A on \in BOOLEAN :
              /\ [x EXCEPT !.monitored = on] \in SourceType /\ Still([x EXCEPT !.monitored = on])
              /\ [x EXCEPT !.captured = on] \in SourceType /\ Still([x EXCEPT !.captured = on])
              /\ [x EXCEPT !.connected = on] \in SourceType /\ Still([x EXCEPT !.connected = on])
         /\ \A what \in Commands : x.of \in Played =>
              /\ [x EXCEPT !.todo = Append(x.todo, what)] \in SourceType
              /\ Still([x EXCEPT !.todo = Append(x.todo, what)])
<1>1. ASSUME NEW on \in BOOLEAN
      PROVE  /\ [x EXCEPT !.monitored = on] \in SourceType /\ Still([x EXCEPT !.monitored = on])
             /\ [x EXCEPT !.captured = on] \in SourceType /\ Still([x EXCEPT !.captured = on])
             /\ [x EXCEPT !.connected = on] \in SourceType /\ Still([x EXCEPT !.connected = on])
  BY DEF SourceType, Still
<1>2. ASSUME NEW what \in Commands, x.of \in Played
      PROVE  /\ [x EXCEPT !.todo = Append(x.todo, what)] \in SourceType
             /\ Still([x EXCEPT !.todo = Append(x.todo, what)])
  <2>1. Append(x.todo, what) \in Seq(Commands)
    BY DEF SourceType
  <2>2. ASSUME NEW t \in Seq(Commands)
        PROVE  [x EXCEPT !.todo = t] \in SourceType /\ Still([x EXCEPT !.todo = t])
    BY <1>2 DEF SourceType, Still
  <2> QED
    BY <2>1, <2>2
<1> QED
  BY <1>1, <1>2

LEMMA MuteFacts ==
  ASSUME NEW x \in SourceType
  PROVE  /\ Mute(x) => /\ Mute([x EXCEPT !.monitored = FALSE])
                       /\ Mute([x EXCEPT !.captured = FALSE])
                       /\ Mute([x EXCEPT !.connected = FALSE])
                       /\ \A what \in {"pause", "stop"} :
                              Mute([x EXCEPT !.todo = Append(x.todo, what)])
<1>1. Mute(x) => /\ Mute([x EXCEPT !.monitored = FALSE])
                 /\ Mute([x EXCEPT !.captured = FALSE])
                 /\ Mute([x EXCEPT !.connected = FALSE])
  BY DEF SourceType, Mute
<1>2. ASSUME Mute(x), NEW what \in {"pause", "stop"}
      PROVE  Mute([x EXCEPT !.todo = Append(x.todo, what)])
  <2>1. Append(x.todo, what) # <<>> /\ Last(Append(x.todo, what)) = what
    BY DEF SourceType, Commands, Last
  <2>2. ASSUME NEW t, t # <<>>, Last(t) = what PROVE Mute([x EXCEPT !.todo = t])
    BY <1>2, <2>2 DEF SourceType, Mute
  <2> QED
    BY <2>1, <2>2
<1> QED
  BY <1>1, <1>2

LEMMA MonitorFacts ==
  ASSUME NEW s, IsSources(s), NEW source \in Sources \cup {None}, NEW on \in BOOLEAN
  PROVE  /\ IsSources(Monitor(s, source, on))
         /\ \A x \in Sources : Monitor(s, source, on)[x] =
              IF x = source THEN [s[x] EXCEPT !.monitored = on] ELSE s[x]
<1> DEFINE y == [s[source] EXCEPT !.monitored = on]
           r == [s EXCEPT ![source] = y]
<1>1. CASE source = None
  BY <1>1, NoneIsNothing DEF Monitor
<1>2. CASE source \in Sources
  <2>1. Monitor(s, source, on) = r
    BY <1>2, NoneIsNothing DEF Monitor
  <2>2. y \in SourceType /\ Still(y)
    BY <1>2, Members DEF IsSources
  <2>3. \A x \in Sources : r[x] = IF x = source THEN [s[x] EXCEPT !.monitored = on] ELSE s[x]
    BY DEF IsSources
  <2> HIDE DEF y
  <2>4. IsSources(r)
    BY <1>2, <2>2 DEF IsSources
  <2> QED
    BY <2>1, <2>3, <2>4, Zenon
<1> QED
  BY <1>1, <1>2

LEMMA CaptureFacts ==
  ASSUME NEW s, IsSources(s), NEW source \in Sources \cup {None}, NEW on \in BOOLEAN
  PROVE  /\ IsSources(Capture(s, source, on))
         /\ \A x \in Sources : Capture(s, source, on)[x] =
              IF x = source THEN [s[x] EXCEPT !.captured = on] ELSE s[x]
<1> DEFINE y == [s[source] EXCEPT !.captured = on]
           r == [s EXCEPT ![source] = y]
<1>1. CASE source = None
  BY <1>1, NoneIsNothing DEF Capture
<1>2. CASE source \in Sources
  <2>1. Capture(s, source, on) = r
    BY <1>2, NoneIsNothing DEF Capture
  <2>2. y \in SourceType /\ Still(y)
    BY <1>2, Members DEF IsSources
  <2>3. \A x \in Sources : r[x] = IF x = source THEN [s[x] EXCEPT !.captured = on] ELSE s[x]
    BY DEF IsSources
  <2> HIDE DEF y
  <2>4. IsSources(r)
    BY <1>2, <2>2 DEF IsSources
  <2> QED
    BY <2>1, <2>3, <2>4, Zenon
<1> QED
  BY <1>1, <1>2

LEMMA ListenFacts ==
  ASSUME NEW s, IsSources(s), NEW source \in Sources \cup {None}, NEW on \in BOOLEAN
  PROVE  /\ IsSources(Listen(s, source, on))
         /\ \A x \in Sources : Listen(s, source, on)[x] =
              IF x = source THEN [s[x] EXCEPT !.connected = on] ELSE s[x]
<1> DEFINE y == [s[source] EXCEPT !.connected = on]
           r == [s EXCEPT ![source] = y]
<1>1. CASE source = None
  BY <1>1, NoneIsNothing DEF Listen
<1>2. CASE source \in Sources
  <2>1. Listen(s, source, on) = r
    BY <1>2, NoneIsNothing DEF Listen
  <2>2. y \in SourceType /\ Still(y)
    BY <1>2, Members DEF IsSources
  <2>3. \A x \in Sources : r[x] = IF x = source THEN [s[x] EXCEPT !.connected = on] ELSE s[x]
    BY DEF IsSources
  <2> HIDE DEF y
  <2>4. IsSources(r)
    BY <1>2, <2>2 DEF IsSources
  <2> QED
    BY <2>1, <2>3, <2>4, Zenon
<1> QED
  BY <1>1, <1>2

LEMMA CommandFacts ==
  ASSUME NEW s, IsSources(s), NEW source \in Sources \cup {None}, NEW what \in Commands
  PROVE  /\ IsSources(Command(s, source, what))
         /\ \A x \in Sources : Command(s, source, what)[x] =
              IF x = source /\ s[x].of \in Played
              THEN [s[x] EXCEPT !.todo = Append(s[x].todo, what)] ELSE s[x]
<1> DEFINE y == [s[source] EXCEPT !.todo = Append(s[source].todo, what)]
           r == [s EXCEPT ![source] = y]
<1>1. CASE ~(source # None /\ s[source].of \in Played)
  <2>1. Command(s, source, what) = s
    BY <1>1, Zenon DEF Command, Played
  <2>2. \A x \in Sources : ~(x = source /\ s[x].of \in Played)
    BY <1>1, NoneIsNothing, Zenon
  <2> QED
    BY <2>1, <2>2, Zenon
<1>2. CASE source # None /\ s[source].of \in Played
  <2>1. Command(s, source, what) = r /\ source \in Sources
    BY <1>2 DEF Command, Played
  <2>2. y \in SourceType /\ Still(y)
    BY <1>2, <2>1, Members DEF IsSources
  <2>3. \A x \in Sources : r[x] = IF x = source /\ s[x].of \in Played
                                  THEN [s[x] EXCEPT !.todo = Append(s[x].todo, what)] ELSE s[x]
    <3>1. \A x \in Sources : r[x] = IF x = source THEN y ELSE s[x]
      <4> HIDE DEF y
      <4> QED
        BY DEF IsSources
    <3>2. \A x \in Sources : x = source /\ s[x].of \in Played <=> x = source
      BY <1>2, Zenon
    <3>3. \A x \in Sources : x = source => y = [s[x] EXCEPT !.todo = Append(s[x].todo, what)]
      BY Zenon
    <3> HIDE DEF y, r
    <3> QED
      BY <3>1, <3>2, <3>3, Zenon
  <2> HIDE DEF y
  <2>4. IsSources(r)
    BY <2>1, <2>2 DEF IsSources
  <2> QED
    BY <2>1, <2>3, <2>4, Zenon
<1> QED
  BY <1>1, <1>2

\* What becomes of one source when it is silenced, at the end of a hand-over or when
\* another card takes its place.
LEMMA HushFacts ==
  ASSUME NEW s, IsSources(s), NEW source \in Sources, NEW what \in {"pause", "stop"}
  PROVE  LET h == Monitor(Command(s, source, what), source, FALSE)
         IN /\ IsSources(h) /\ \A x \in Sources \ {source} : h[x] = s[x]
            /\ h[source].captured = s[source].captured /\ h[source].connected = s[source].connected
            /\ Mute(s[source]) => Mute(h[source])
            /\ ~s[source].captured /\ ~s[source].connected => Mute(h[source])
<1> DEFINE c == Command(s, source, what)
           h == Monitor(c, source, FALSE)
           x == s[source]
           y == IF x.of \in Played THEN [x EXCEPT !.todo = Append(x.todo, what)] ELSE x
           z == [y EXCEPT !.monitored = FALSE]
<1>1. what \in Commands /\ x \in SourceType /\ Still(x)
  BY DEF Commands, IsSources
<1>2. /\ IsSources(c)
      /\ \A u \in Sources : c[u] = IF u = source /\ s[u].of \in Played
                                   THEN [s[u] EXCEPT !.todo = Append(s[u].todo, what)] ELSE s[u]
  BY <1>1, CommandFacts, Zenon
<1> HIDE DEF c
<1>3. IsSources(h) /\ \A u \in Sources : h[u] = IF u = source THEN [c[u] EXCEPT !.monitored = FALSE] ELSE c[u]
  <2>1. FALSE \in BOOLEAN /\ source \in Sources \cup {None}
    OBVIOUS
  <2> QED
    BY <1>2, <2>1, MonitorFacts, Zenon
<1> HIDE DEF h
<1>4. c[source] = y
  BY <1>2, Zenon
<1>5. h[source] = z /\ \A u \in Sources \ {source} : h[u] = s[u]
  BY <1>2, <1>3, <1>4
<1>6. /\ y \in SourceType /\ y.captured = x.captured /\ y.connected = x.connected
      /\ Mute(x) => Mute(y)
      /\ IF y.todo = <<>> THEN y.state # "playing" ELSE Last(y.todo) = what \/ y = x
  <2>1. CASE x.of \in Played
    <3> DEFINE t == Append(x.todo, what)
    <3>1. t \in Seq(Commands) /\ t # <<>> /\ Last(t) = what
      BY <1>1 DEF SourceType, Last
    <3>2. y = [x EXCEPT !.todo = t]
      BY <2>1, Zenon
    <3>3. y \in SourceType /\ (Mute(x) => Mute(y))
      BY <1>1, <2>1, <3>2, Members, MuteFacts
    <3> HIDE DEF t, y
    <3>4. y.todo = t /\ y.captured = x.captured /\ y.connected = x.connected
      BY <1>1, <3>2 DEF SourceType
    <3> QED
      BY <3>1, <3>3, <3>4
  <2>2. CASE x.of \notin Played
    BY <1>1, <2>2 DEF Still
  <2> QED
    BY <2>1, <2>2
<1>7. ~x.captured /\ ~x.connected => Mute(z)
  <2>1. CASE x.of \in Played
    <3>1. y = [x EXCEPT !.todo = Append(x.todo, what)]
      BY <2>1, Zenon
    <3>2. Append(x.todo, what) # <<>> /\ Last(Append(x.todo, what)) = what
      BY <1>1 DEF SourceType, Last
    <3>3. ASSUME NEW t, t # <<>>, Last(t) = what, ~x.captured, ~x.connected
          PROVE  Mute([[x EXCEPT !.todo = t] EXCEPT !.monitored = FALSE])
      BY <1>1, <3>3 DEF SourceType, Mute
    <3> QED
      BY <3>1, <3>2, <3>3, Zenon
  <2>2. CASE x.of \notin Played
    BY <1>1, <2>2 DEF Still, Mute, SourceType
  <2> QED
    BY <2>1, <2>2
<1>8. z.captured = x.captured /\ z.connected = x.connected /\ (Mute(x) => Mute(z))
  <2> HIDE DEF y
  <2>1. z.captured = y.captured /\ z.connected = y.connected
    BY <1>6 DEF SourceType
  <2> QED
    BY <1>6, <2>1, MuteFacts
<1> HIDE DEF x, y, z
<1>9. /\ IsSources(h) /\ \A u \in Sources \ {source} : h[u] = s[u]
      /\ h[source].captured = s[source].captured /\ h[source].connected = s[source].connected
      /\ Mute(s[source]) => Mute(h[source])
      /\ ~s[source].captured /\ ~s[source].connected => Mute(h[source])
  BY <1>3, <1>5, <1>7, <1>8, Zenon DEF x
<1> QED
  BY <1>9, Zenon DEF h, c

\* The two sources that a panel p has a hand on.
HasSources(p) == p.activeSource \in Sources \cup {None} /\ p.retiringSource \in Sources \cup {None}

LEMMA FinishSources ==
  ASSUME NEW w, IsSources(w.s), HasSources(w.p)
  PROVE  LET f == FinishStageHandover(w).s
         IN /\ IsSources(f)
            /\ \A x \in Sources : Mute(w.s[x]) => Mute(f[x])
            /\ \A x \in Sources : x = w.p.activeSource => f[x] = w.s[x]
<1> DEFINE old == w.p.retiringSource
           h == Monitor(Command(w.s, old, "stop"), old, FALSE)
           f == FinishStageHandover(w).s
<1>1. f = IF old # None /\ old # w.p.activeSource THEN h ELSE w.s
  BY DEF FinishStageHandover
<1>2. CASE old # None /\ old # w.p.activeSource
  <2>1. old \in Sources
    BY <1>2 DEF HasSources
  <2>2. /\ IsSources(h) /\ \A x \in Sources \ {old} : h[x] = w.s[x]
        /\ Mute(w.s[old]) => Mute(h[old])
    <3> HIDE DEF old, h
    <3>1. "stop" \in {"pause", "stop"}
      OBVIOUS
    <3> QED
      BY <2>1, <3>1, HushFacts, Zenon DEF h
  <2>3. f = h
    BY <1>1, <1>2, Zenon
  <2> HIDE DEF f, h, old
  <2>4. \A x \in Sources : Mute(w.s[x]) => Mute(f[x])
    BY <2>2, <2>3, Zenon
  <2>5. \A x \in Sources : x = w.p.activeSource => f[x] = w.s[x]
    BY <1>2, <2>2, <2>3, Zenon
  <2> QED
    BY <2>2, <2>3, <2>4, <2>5, Zenon DEF f
<1>3. CASE ~(old # None /\ old # w.p.activeSource)
  <2>1. f = w.s
    BY <1>1, <1>3, Zenon
  <2> HIDE DEF f, h, old
  <2> QED
    BY <2>1, Zenon DEF f
<1> QED
  BY <1>2, <1>3, Zenon

\* The source that was active is mute afterwards, and the others stay so.
LEMMA ClearSources ==
  ASSUME NEW w, IsSources(w.s), HasSources(w.p), NEW retain \in BOOLEAN,
         FinishStageHandover(w).p.activeSource = w.p.activeSource,
         FinishStageHandover(w).p.attached = w.p.attached,
         w.p.attached \in BOOLEAN,
         \A x \in Sources : x = w.p.activeSource /\ w.s[x].captured => w.p.attached
  PROVE  LET c == ClearActiveMedia(w, retain).s
         IN /\ IsSources(c)
            /\ \A x \in Sources : x = w.p.activeSource \/ Mute(w.s[x]) => Mute(c[x])
<1> DEFINE f == FinishStageHandover(w)
           a == w.p.activeSource
           d == DetachAudio(f).s
           l == Listen(d, a, FALSE)
           what == IF retain THEN "pause" ELSE "stop"
           c == Monitor(Command(l, a, what), a, FALSE)
<1>1. /\ IsSources(f.s) /\ a \in Sources \cup {None} /\ FALSE \in BOOLEAN /\ what \in {"pause", "stop"}
      /\ \A x \in Sources : Mute(w.s[x]) => Mute(f.s[x])
      /\ \A x \in Sources : x = a => f.s[x] = w.s[x]
  BY FinishSources DEF HasSources
<1>2. ClearActiveMedia(w, retain).s = c
  BY Zenon DEF ClearActiveMedia, Silenced
<1>3. /\ IsSources(d)
      /\ \A x \in Sources : x # a => d[x] = f.s[x]
      /\ \A x \in Sources : x = a => ~d[x].captured
  <2>1. d = IF w.p.attached THEN Capture(f.s, a, FALSE) ELSE f.s
    BY DEF DetachAudio
  <2> HIDE DEF d, f, a
  <2>2. CASE w.p.attached
    <3>1. d = Capture(f.s, a, FALSE)
      BY <2>1, <2>2, Zenon
    <3>2. IsSources(d) /\ \A x \in Sources : d[x] = IF x = a THEN [f.s[x] EXCEPT !.captured = FALSE] ELSE f.s[x]
      <4>1. IsSources(f.s) /\ a \in Sources \cup {None} /\ FALSE \in BOOLEAN
        BY <1>1
      <4> DEFINE fs == f.s
      <4> HIDE DEF fs
      <4>2. /\ IsSources(Capture(fs, a, FALSE))
            /\ \A x \in Sources : Capture(fs, a, FALSE)[x] =
                 IF x = a THEN [fs[x] EXCEPT !.captured = FALSE] ELSE fs[x]
        BY <4>1, CaptureFacts, Zenon DEF fs
      <4> QED
        BY <3>1, <4>2, Zenon DEF fs
    <3>3. \A x \in Sources : ~[f.s[x] EXCEPT !.captured = FALSE].captured
      BY <1>1 DEF IsSources, SourceType
    <3> QED
      BY <3>2, <3>3, Zenon
  <2>3. CASE ~w.p.attached
    <3>1. d = f.s
      BY <2>1, <2>3, Zenon
    <3> QED
      BY <1>1, <2>3, <3>1, Zenon DEF a
  <2> QED
    BY <2>2, <2>3, Zenon
<1> HIDE DEF d, f
<1>4. CASE a = None
  <2>1. c = d
    <3>1. l = d
      BY <1>4, Zenon DEF Listen
    <3>2. Command(l, a, what) = d
      BY <1>4, <3>1, Zenon DEF Command
    <3> QED
      BY <1>4, <3>2, Zenon DEF Monitor
  <2>2. \A x \in Sources : x # a
    BY <1>4, NoneIsNothing
  <2> HIDE DEF c, l
  <2> QED
    BY <1>1, <1>2, <1>3, <2>1, <2>2 DEF a
<1>5. CASE a \in Sources
  <2>1. IsSources(l) /\ \A x \in Sources : l[x] = IF x = a THEN [d[x] EXCEPT !.connected = FALSE] ELSE d[x]
    <3>1. IsSources(d) /\ a \in Sources \cup {None} /\ FALSE \in BOOLEAN
      BY <1>1, <1>3, Zenon
    <3> HIDE DEF a
    <3>2. /\ IsSources(Listen(d, a, FALSE))
          /\ \A x \in Sources : Listen(d, a, FALSE)[x] =
               IF x = a THEN [d[x] EXCEPT !.connected = FALSE] ELSE d[x]
      BY <3>1, ListenFacts, Zenon
    <3> QED
      BY <3>2, Zenon
  <2>2. ~l[a].captured /\ ~l[a].connected
    <3>1. d[a] \in SourceType /\ ~d[a].captured /\ l[a] = [d[a] EXCEPT !.connected = FALSE]
      BY <1>3, <1>5, <2>1 DEF IsSources
    <3>2. \A y \in SourceType : ~[y EXCEPT !.connected = FALSE].connected
                                /\ [y EXCEPT !.connected = FALSE].captured = y.captured
      BY DEF SourceType
    <3> QED
      BY <3>1, <3>2
  <2> HIDE DEF l, what
  <2>3. /\ IsSources(c) /\ \A x \in Sources \ {a} : c[x] = l[x]
        /\ ~l[a].captured /\ ~l[a].connected => Mute(c[a])
    <3>1. IsSources(l) /\ a \in Sources /\ what \in {"pause", "stop"}
      BY <1>1, <1>5, <2>1
    <3> HIDE DEF a
    <3>2. LET h == Monitor(Command(l, a, what), a, FALSE)
          IN /\ IsSources(h) /\ \A x \in Sources \ {a} : h[x] = l[x]
             /\ ~l[a].captured /\ ~l[a].connected => Mute(h[a])
      BY <3>1, HushFacts, Zenon
    <3> QED
      BY <3>2, Zenon
  <2> HIDE DEF c
  <2>4. \A x \in Sources \ {a} : c[x] = f.s[x]
    BY <1>3, <2>1, <2>3
  <2>5. \A x \in Sources : x = a \/ Mute(w.s[x]) => Mute(c[x])
    BY <1>1, <2>2, <2>3, <2>4
  <2> QED
    BY <1>2, <2>3, <2>5, Zenon
<1> QED
  BY <1>1, <1>4, <1>5

-----------------------------------------------------------------------------
(* The panel.                                                              *)

Cards == [item : Items, source : Sources]

\* The members of a panel that the stage and its sources are about; the others do not
\* matter here.
Same(p, q) == q.open = p.open /\ q.library = p.library /\ q.captures = p.captures /\ q.verse = p.verse

LEMMA CardFacts ==
  ASSUME NEW i \in Items, NEW x \in Sources
  PROVE  Card(i, x) \in Cards /\ Card(i, x).item = i /\ Card(i, x).source = x
BY DEF Card, Cards

LEMMA PanelFacts ==
  ASSUME NEW p \in Panels
  PROVE  /\ p.entrySource \in [Media -> Instances \cup {None}]
         /\ p.activeEntry \in Media \cup {None} /\ p.activeItem \in Items \cup {None}
         /\ p.retiringItem \in Items \cup {None} /\ p.attached \in BOOLEAN
         /\ p.stage \in Seq(Cards) /\ HasSources(p)
BY DEF Panels, HasSources, Cards

\* Only the lowest item of the stage is ever taken off.
LEMMA OffStageFacts ==
  ASSUME NEW p \in Panels, NEW item,
         \A k \in DOMAIN p.stage : p.stage[k].item = item => k = 1
  PROVE  LET s == IF p.stage # <<>> /\ p.stage[1].item = item THEN Tail(p.stage) ELSE p.stage
         IN s \in Seq(Cards) /\ OffStage(p, item) = [p EXCEPT !.stage = s]
<1> DEFINE t == p.stage
           s == IF t # <<>> /\ t[1].item = item THEN Tail(t) ELSE t
<1>1. t \in Seq(Cards)
  BY PanelFacts
<1>2. s \in Seq(Cards)
  <2> HIDE DEF t
  <2> QED
    BY <1>1
<1>3. CASE t # <<>> /\ t[1].item = item
  <2>1. 1 \in DOMAIN t /\ (CHOOSE k \in DOMAIN t : t[k].item = item) = 1
    <3>1. 1 \in DOMAIN t
      <4> HIDE DEF t
      <4> QED
        BY <1>1, <1>3
    <3> QED
      BY <1>3, <3>1, Zenon
  <2>2. OffStage(p, item) = [p EXCEPT !.stage = RemoveAt(t, 1)]
    BY <1>3, <2>1, Zenon DEF OffStage
  <2>3. RemoveAt(t, 1) = Tail(t)
    <3> HIDE DEF t
    <3>1. RemoveAt(t, 1) = SubSeq(t, 1, 0) \o SubSeq(t, 2, Len(t))
      BY DEF RemoveAt
    <3>2. SubSeq(t, 1, 0) = <<>>
      BY <1>1
    <3>3. SubSeq(t, 2, Len(t)) = Tail(t) /\ Tail(t) \in Seq(Cards)
      BY <1>1, <1>3
    <3>4. \A u \in Seq(Cards) : <<>> \o u = u
      OBVIOUS
    <3> QED
      BY <3>1, <3>2, <3>3, <3>4
  <2>4. s = Tail(t)
    BY <1>3, Zenon
  <2> HIDE DEF s
  <2> QED
    BY <1>2, <2>2, <2>3, <2>4, Zenon DEF s
<1>4. CASE ~(t # <<>> /\ t[1].item = item)
  <2>1. ~ \E k \in DOMAIN t : t[k].item = item
    <3>1. ASSUME NEW k \in DOMAIN t, t[k].item = item PROVE FALSE
      <4>1. k = 1
        BY <3>1
      <4>2. t # <<>>
        <5> HIDE DEF t
        <5> QED
          BY <3>1
      <4> QED
        BY <1>4, <3>1, <4>1, <4>2, Zenon
    <3> QED
      BY <3>1
  <2>2. OffStage(p, item) = p
    BY <2>1, Zenon DEF OffStage
  <2>3. [p EXCEPT !.stage = t] = p
    BY DEF Panels
  <2>4. s = t
    BY <1>4, Zenon
  <2> HIDE DEF s
  <2> QED
    BY <1>2, <2>2, <2>3, <2>4, Zenon DEF s
<1> QED
  BY <1>3, <1>4

\* The sources of the cards at the end of a hand-over.
Kept(p, e) ==
    \/ p.retiringSource = None \/ p.retiringSource = p.activeSource
    \/ e = p.activeEntry \/ p.entrySource[e] # p.retiringSource

LEMMA FinishPanel ==
  ASSUME NEW w, w.p \in Panels,
         \A k \in DOMAIN w.p.stage : w.p.stage[k].item = w.p.retiringItem => k = 1
  PROVE  LET p == w.p
             f == FinishStageHandover(w).p
         IN /\ f \in Panels /\ Same(p, f) /\ f.attached = p.attached
            /\ f.activeEntry = p.activeEntry /\ f.activeSource = p.activeSource
            /\ f.activeItem = p.activeItem
            /\ f.retiringItem = None /\ f.retiringSource = None
            /\ \A e \in Media : f.entrySource[e] = IF Kept(p, e) THEN p.entrySource[e] ELSE None
            /\ f.stage = IF p.stage # <<>> /\ p.stage[1].item = p.retiringItem
                         THEN Tail(p.stage) ELSE p.stage
<1> DEFINE p == w.p
           f == FinishStageHandover(w).p
           s == IF p.stage # <<>> /\ p.stage[1].item = p.retiringItem THEN Tail(p.stage) ELSE p.stage
           es == [e \in Media |-> IF Kept(p, e) THEN p.entrySource[e] ELSE None]
           m1 == [p EXCEPT !.stage = s]
           m2 == [m1 EXCEPT !.entrySource = es]
           m3 == [m2 EXCEPT !.retiringItem = None]
           m4 == [m3 EXCEPT !.retiringSource = None]
<1>1. s \in Seq(Cards) /\ OffStage(p, p.retiringItem) = m1
  BY OffStageFacts, Zenon
<1>2. es = [e \in Media |-> IF \/ ~(p.retiringSource # None /\ p.retiringSource # p.activeSource)
                               \/ e = p.activeEntry \/ p.entrySource[e] # p.retiringSource
                            THEN p.entrySource[e] ELSE None]
  BY DEF Kept
<1>3. f = m4
  <2> HIDE DEF m1, s
  <2> QED
    BY <1>1, <1>2 DEF FinishStageHandover
<1>4. es \in [Media -> Instances \cup {None}]
  BY PanelFacts DEF Kept
<1>5. \A e \in Media : es[e] = IF Kept(p, e) THEN p.entrySource[e] ELSE None
  BY Zenon
<1> HIDE DEF es, s, p
<1>6. /\ m4 \in Panels /\ Same(p, m4) /\ m4.attached = p.attached
      /\ m4.activeEntry = p.activeEntry /\ m4.activeSource = p.activeSource
      /\ m4.activeItem = p.activeItem
      /\ m4.retiringItem = None /\ m4.retiringSource = None
      /\ m4.entrySource = es /\ m4.stage = s
  BY <1>1, <1>4 DEF Panels, Same, p, Cards
<1> HIDE DEF f, m4
<1> QED
  BY <1>3, <1>5, <1>6, Zenon DEF f, p, s

\* The stage when an item was added to it.
OnStageUnder(p, n) ==
    \/ p.activeItem = None /\ p.retiringItem = None /\ p.stage = <<n>>
    \/ /\ p.activeItem # None /\ p.retiringItem = None
       /\ \E a \in Sources : p.stage = <<Card(p.activeItem, a), n>>
    \/ /\ p.activeItem # None /\ p.retiringItem # None /\ p.activeItem # p.retiringItem
       /\ \E r, a \in Sources : p.stage = <<Card(p.retiringItem, r), Card(p.activeItem, a), n>>

\* The stage when the retiring item was taken off.
Relieved(p) == IF p.stage # <<>> /\ p.stage[1].item = p.retiringItem THEN Tail(p.stage) ELSE p.stage

LEMMA RelievedFacts ==
  ASSUME NEW p \in Panels, OnStage(p)
  PROVE  /\ \A k \in DOMAIN p.stage : p.stage[k].item = p.retiringItem => k = 1
         /\ \A k \in DOMAIN Relieved(p) : \E j \in DOMAIN p.stage : Relieved(p)[k] = p.stage[j]
         /\ IF p.activeItem = None THEN Relieved(p) = <<>>
            ELSE \E a \in Sources : Relieved(p) = <<Card(p.activeItem, a)>>
<1> USE PanelFacts, CardFacts, NoneIsNothing
<1>1. CASE p.activeItem = None /\ p.retiringItem = None /\ p.stage = <<>>
  BY <1>1 DEF Relieved
<1>2. CASE /\ p.activeItem # None /\ p.retiringItem = None
           /\ \E a \in Sources : p.stage = <<Card(p.activeItem, a)>>
  <2>1. PICK a \in Sources : p.stage = <<Card(p.activeItem, a)>>
    BY <1>2
  <2>2. p.stage[1].item # p.retiringItem
    BY <1>2, <2>1
  <2>3. Relieved(p) = <<Card(p.activeItem, a)>> /\ \A k \in DOMAIN p.stage : k = 1
    BY <2>1, <2>2 DEF Relieved
  <2> QED
    BY <1>2, <2>1, <2>3
<1>3. CASE /\ p.activeItem # None /\ p.retiringItem # None /\ p.activeItem # p.retiringItem
           /\ \E r, a \in Sources : p.stage = <<Card(p.retiringItem, r), Card(p.activeItem, a)>>
  <2>1. PICK r \in Sources, a \in Sources : p.stage = <<Card(p.retiringItem, r), Card(p.activeItem, a)>>
    BY <1>3, Zenon
  <2>2. p.stage[1].item = p.retiringItem /\ p.stage[2].item # p.retiringItem
    BY <1>3, <2>1
  <2>3. Relieved(p) = <<Card(p.activeItem, a)>> /\ DOMAIN p.stage = {1, 2}
    BY <2>1, <2>2 DEF Relieved
  <2>4. \A k \in DOMAIN Relieved(p) : Relieved(p)[k] = p.stage[2]
    BY <2>1, <2>3
  <2> QED
    BY <1>3, <2>2, <2>3, <2>4
<1> QED
  BY <1>1, <1>2, <1>3 DEF OnStage

LEMMA RelievedUnder ==
  ASSUME NEW p \in Panels, NEW n \in Cards, OnStageUnder(p, n),
         n.item # p.activeItem, n.item # p.retiringItem
  PROVE  /\ \A k \in DOMAIN p.stage : p.stage[k].item = p.retiringItem => k = 1
         /\ \A k \in DOMAIN Relieved(p) : \E j \in DOMAIN p.stage : Relieved(p)[k] = p.stage[j]
         /\ IF p.activeItem = None THEN Relieved(p) = <<n>>
            ELSE \E a \in Sources : Relieved(p) = <<Card(p.activeItem, a), n>>
<1> USE PanelFacts, CardFacts, NoneIsNothing
<1>0. n.item \in Items
  BY DEF Cards
<1>1. CASE p.activeItem = None /\ p.retiringItem = None /\ p.stage = <<n>>
  <2>1. p.stage[1].item # p.retiringItem
    BY <1>0, <1>1
  <2>2. Relieved(p) = <<n>> /\ \A k \in DOMAIN p.stage : k = 1
    BY <1>1, <2>1 DEF Relieved
  <2> QED
    BY <1>1, <2>2
<1>2. CASE /\ p.activeItem # None /\ p.retiringItem = None
           /\ \E a \in Sources : p.stage = <<Card(p.activeItem, a), n>>
  <2>1. PICK a \in Sources : p.stage = <<Card(p.activeItem, a), n>>
    BY <1>2
  <2>2. p.stage[1].item # p.retiringItem /\ p.stage[2].item # p.retiringItem
    BY <1>0, <1>2, <2>1
  <2>3. Relieved(p) = <<Card(p.activeItem, a), n>> /\ DOMAIN p.stage = {1, 2}
    BY <2>1, <2>2 DEF Relieved
  <2> QED
    BY <1>2, <2>1, <2>2, <2>3
<1>3. CASE /\ p.activeItem # None /\ p.retiringItem # None /\ p.activeItem # p.retiringItem
           /\ \E r, a \in Sources : p.stage = <<Card(p.retiringItem, r), Card(p.activeItem, a), n>>
  <2>1. PICK r \in Sources, a \in Sources : p.stage = <<Card(p.retiringItem, r), Card(p.activeItem, a), n>>
    BY <1>3, Zenon
  <2>2. p.stage[1].item = p.retiringItem /\ p.stage[2].item # p.retiringItem /\ p.stage[3].item # p.retiringItem
    BY <1>3, <2>1
  <2>3. Relieved(p) = <<Card(p.activeItem, a), n>> /\ DOMAIN p.stage = {1, 2, 3}
    BY <2>1, <2>2 DEF Relieved
  <2>4. Relieved(p)[1] = p.stage[2] /\ Relieved(p)[2] = p.stage[3] /\ DOMAIN Relieved(p) = {1, 2}
    BY <2>1, <2>3
  <2>5. \A k \in DOMAIN p.stage : p.stage[k].item = p.retiringItem => k = 1
    BY <2>2, <2>3
  <2>6. \A k \in DOMAIN Relieved(p) : \E j \in DOMAIN p.stage : Relieved(p)[k] = p.stage[j]
    <3>1. 2 \in DOMAIN p.stage /\ 3 \in DOMAIN p.stage
      BY <2>3
    <3> QED
      BY <2>4, <3>1
  <2> QED
    BY <1>3, <2>3, <2>5, <2>6, Zenon
<1> QED
  BY <1>1, <1>2, <1>3 DEF OnStageUnder

\* Retained, the active card retires.
LEMMA RetireActive ==
  ASSUME NEW w, w.p \in Panels, NEW n \in Cards, OnStageUnder(w.p, n),
         n.item # w.p.activeItem, n.item # w.p.retiringItem
  PROVE  LET p == w.p
             c == ClearActiveMedia(w, TRUE).p
         IN /\ c \in Panels /\ Same(p, c) /\ c.attached = FALSE
            /\ c.activeEntry = None /\ c.activeSource = None /\ c.activeItem = None
            /\ c.retiringItem = p.activeItem
            /\ c.retiringSource = IF p.activeItem = None THEN None ELSE p.activeSource
            /\ \A e \in Media : c.entrySource[e] = IF Kept(p, e) THEN p.entrySource[e] ELSE None
            /\ \A k \in DOMAIN c.stage : \E j \in DOMAIN p.stage : c.stage[k] = p.stage[j]
            /\ IF p.activeItem = None THEN c.stage = <<n>>
               ELSE \E a \in Sources : c.stage = <<Card(p.activeItem, a), n>>
<1> DEFINE p == w.p
           f == FinishStageHandover(w).p
           c == ClearActiveMedia(w, TRUE).p
           q == [f EXCEPT !.attached = FALSE]
           o1 == [q EXCEPT !.retiringItem = q.activeItem]
           o2 == [o1 EXCEPT !.retiringSource = q.activeSource]
           o == IF q.activeItem = None THEN q ELSE o2
           c1 == [o EXCEPT !.activeItem = None]
           c2 == [c1 EXCEPT !.activeSource = None]
           c3 == [c2 EXCEPT !.activeEntry = None]
<1>1. /\ \A k \in DOMAIN p.stage : p.stage[k].item = p.retiringItem => k = 1
      /\ \A k \in DOMAIN Relieved(p) : \E j \in DOMAIN p.stage : Relieved(p)[k] = p.stage[j]
      /\ IF p.activeItem = None THEN Relieved(p) = <<n>>
         ELSE \E a \in Sources : Relieved(p) = <<Card(p.activeItem, a), n>>
  BY RelievedUnder, Zenon
<1>2. /\ f \in Panels /\ Same(p, f) /\ f.attached = p.attached
      /\ f.activeEntry = p.activeEntry /\ f.activeSource = p.activeSource
      /\ f.activeItem = p.activeItem
      /\ f.retiringItem = None /\ f.retiringSource = None
      /\ \A e \in Media : f.entrySource[e] = IF Kept(p, e) THEN p.entrySource[e] ELSE None
      /\ f.stage = Relieved(p)
  BY <1>1, FinishPanel, Zenon DEF Relieved
<1>3. c = c3
  <2>1. DetachAudio(FinishStageHandover(w)).p = q
    BY DEF DetachAudio
  <2>2. OffTheStage(q, TRUE) = o
    <3> HIDE DEF q
    <3> QED
      BY DEF OffTheStage
  <2>3. c = [OffTheStage(q, TRUE) EXCEPT !.activeItem = None, !.activeSource = None, !.activeEntry = None]
    <3> HIDE DEF q
    <3> QED
      BY <2>1 DEF ClearActiveMedia
  <2> HIDE DEF c, q, o
  <2> QED
    BY <2>2, <2>3
<1> HIDE DEF f, c
<1>4. /\ q \in Panels /\ Same(f, q) /\ q.attached = FALSE
      /\ q.activeEntry = f.activeEntry /\ q.activeSource = f.activeSource
      /\ q.activeItem = f.activeItem /\ q.retiringItem = None /\ q.retiringSource = None
      /\ q.entrySource = f.entrySource /\ q.stage = f.stage
  BY <1>2 DEF Panels, Same
<1> HIDE DEF q
<1>5. /\ o \in Panels /\ Same(q, o) /\ o.attached = FALSE
      /\ o.retiringItem = q.activeItem
      /\ o.retiringSource = IF q.activeItem = None THEN None ELSE q.activeSource
      /\ o.entrySource = q.entrySource /\ o.stage = q.stage
  <2>1. CASE q.activeItem = None
    BY <1>4, <2>1 DEF Same
  <2>2. CASE q.activeItem # None
    <3>1. o = o2
      BY <2>2, Zenon
    <3> HIDE DEF o
    <3> QED
      BY <1>4, <2>2, <3>1 DEF Panels, Same
  <2> QED
    BY <2>1, <2>2
<1> HIDE DEF o
<1>6. /\ c3 \in Panels /\ Same(o, c3) /\ c3.attached = o.attached
      /\ c3.activeEntry = None /\ c3.activeSource = None /\ c3.activeItem = None
      /\ c3.retiringItem = o.retiringItem /\ c3.retiringSource = o.retiringSource
      /\ c3.entrySource = o.entrySource /\ c3.stage = o.stage
  BY <1>5 DEF Panels, Same
<1> HIDE DEF c3
<1>7. Same(p, c)
  BY <1>2, <1>3, <1>4, <1>5, <1>6 DEF Same
<1> HIDE DEF p
<1>8. /\ c.attached = FALSE /\ c \in Panels
      /\ c.activeEntry = None /\ c.activeSource = None /\ c.activeItem = None
      /\ c.retiringItem = p.activeItem
      /\ c.retiringSource = IF p.activeItem = None THEN None ELSE p.activeSource
      /\ c.entrySource = f.entrySource /\ c.stage = Relieved(p)
  BY <1>2, <1>3, <1>4, <1>5, <1>6, Zenon
<1>9. \A e \in Media : c.entrySource[e] = IF Kept(p, e) THEN p.entrySource[e] ELSE None
  BY <1>2, <1>8, Zenon
<1>10. c.stage = Relieved(p)
  BY <1>8, Zenon
<1>11. \A k \in DOMAIN c.stage : \E j \in DOMAIN p.stage : c.stage[k] = p.stage[j]
  <2> HIDE DEF c
  <2> QED
    BY <1>1, <1>10
<1>12. IF p.activeItem = None THEN c.stage = <<n>>
       ELSE \E a \in Sources : c.stage = <<Card(p.activeItem, a), n>>
  <2> HIDE DEF c
  <2>1. CASE p.activeItem = None
    BY <1>1, <1>10, <2>1
  <2>2. CASE p.activeItem # None
    <3>1. PICK a \in Sources : Relieved(p) = <<Card(p.activeItem, a), n>>
      BY <1>1, <2>2, Zenon
    <3> QED
      BY <1>10, <2>2, <3>1, Zenon
  <2> QED
    BY <2>1, <2>2
<1> QED
  BY <1>7, <1>8, <1>9, <1>11, <1>12, Zenon DEF p, c

\* Otherwise nothing of it is left on the stage.
LEMMA ClearActive ==
  ASSUME NEW w, w.p \in Panels, OnStage(w.p)
  PROVE  LET p == w.p
             c == ClearActiveMedia(w, FALSE).p
         IN /\ c \in Panels /\ Same(p, c) /\ c.attached = FALSE
            /\ c.activeEntry = None /\ c.activeSource = None /\ c.activeItem = None
            /\ c.retiringItem = None /\ c.retiringSource = None /\ c.stage = <<>>
            /\ \A e \in Media : c.entrySource[e] =
                 IF Kept(p, e) /\ e # p.activeEntry THEN p.entrySource[e] ELSE None
<1> DEFINE p == w.p
           f == FinishStageHandover(w).p
           c == ClearActiveMedia(w, FALSE).p
           q == [f EXCEPT !.attached = FALSE]
           o == [q EXCEPT !.stage = <<>>]
           c1 == [o EXCEPT !.activeItem = None]
           c2 == [c1 EXCEPT !.activeSource = None]
           c3 == [c2 EXCEPT !.activeEntry = None]
           es == [e \in Media |-> IF e = p.activeEntry THEN None ELSE c3.entrySource[e]]
           c4 == [c3 EXCEPT !.entrySource = es]
<1>1. /\ \A k \in DOMAIN p.stage : p.stage[k].item = p.retiringItem => k = 1
      /\ IF p.activeItem = None THEN Relieved(p) = <<>>
         ELSE \E a \in Sources : Relieved(p) = <<Card(p.activeItem, a)>>
  BY RelievedFacts, Zenon
<1>2. /\ f \in Panels /\ Same(p, f) /\ f.attached = p.attached
      /\ f.activeEntry = p.activeEntry /\ f.activeSource = p.activeSource
      /\ f.activeItem = p.activeItem
      /\ f.retiringItem = None /\ f.retiringSource = None
      /\ \A e \in Media : f.entrySource[e] = IF Kept(p, e) THEN p.entrySource[e] ELSE None
      /\ f.stage = Relieved(p)
  BY <1>1, FinishPanel, Zenon DEF Relieved
<1>3. /\ q \in Panels /\ Same(f, q) /\ q.attached = FALSE
      /\ q.activeEntry = f.activeEntry /\ q.activeSource = f.activeSource
      /\ q.activeItem = f.activeItem /\ q.retiringItem = None /\ q.retiringSource = None
      /\ q.entrySource = f.entrySource /\ q.stage = f.stage
  <2> HIDE DEF f
  <2> QED
    BY <1>2 DEF Panels, Same
<1>4. DetachAudio(FinishStageHandover(w)).p = q
  BY DEF DetachAudio
<1>5. c = ReleaseSource([OffTheStage(q, FALSE) EXCEPT
                            !.activeItem = None, !.activeSource = None, !.activeEntry = None],
                        p.activeEntry)
  <2> HIDE DEF q
  <2> QED
    BY <1>4 DEF ClearActiveMedia
<1> HIDE DEF f, c, q
<1>6. OffTheStage(q, FALSE) = o
  <2>1. CASE q.activeItem = None
    <3>1. q.stage = <<>>
      BY <1>1, <1>2, <1>3, <2>1
    <3>2. o = q
      BY <1>3, <3>1 DEF Panels
    <3> HIDE DEF o
    <3> QED
      BY <2>1, <3>2 DEF OffTheStage
  <2>2. CASE q.activeItem # None
    <3>1. PICK a \in Sources : q.stage = <<Card(p.activeItem, a)>>
      BY <1>1, <1>2, <1>3, <2>2
    <3>2. q.activeItem \in Items /\ q.activeItem = p.activeItem
      BY <1>2, <1>3, <2>2, PanelFacts
    <3>3. q.stage[1].item = q.activeItem /\ DOMAIN q.stage = {1}
      BY <3>1, <3>2, CardFacts
    <3>4. q.stage # <<>> /\ Tail(q.stage) = <<>>
      BY <3>1
    <3>5. OffStage(q, q.activeItem) = o
      <4>1. \A k \in DOMAIN q.stage : q.stage[k].item = q.activeItem => k = 1
        BY <3>3
      <4> HIDE DEF o
      <4>2. OffStage(q, q.activeItem) =
              [q EXCEPT !.stage = IF q.stage # <<>> /\ q.stage[1].item = q.activeItem
                                  THEN Tail(q.stage) ELSE q.stage]
        BY <1>3, <4>1, OffStageFacts, Zenon
      <4> QED
        BY <3>3, <3>4, <4>2, Zenon DEF o
    <3> HIDE DEF o
    <3> QED
      BY <2>2, <3>5, Zenon DEF OffTheStage
  <2> QED
    BY <2>1, <2>2
<1>7. o \in Panels /\ Same(q, o) /\ o.attached = FALSE /\ o.stage = <<>>
      /\ o.retiringItem = None /\ o.retiringSource = None /\ o.entrySource = q.entrySource
      /\ o.activeItem = q.activeItem
  <2>1. <<>> \in Seq(Cards)
    OBVIOUS
  <2>2. ASSUME NEW s \in Seq(Cards)
        PROVE  LET u == [q EXCEPT !.stage = s]
               IN /\ u \in Panels /\ Same(q, u) /\ u.attached = FALSE /\ u.stage = s
                  /\ u.retiringItem = None /\ u.retiringSource = None
                  /\ u.entrySource = q.entrySource /\ u.activeItem = q.activeItem
    BY <1>3 DEF Panels, Same, Cards
  <2> QED
    BY <2>1, <2>2, Zenon
<1>8. c = ReleaseSource(c3, p.activeEntry)
  <2> HIDE DEF o
  <2> QED
    BY <1>5, <1>6
<1> HIDE DEF o
<1>9. /\ c3 \in Panels /\ Same(o, c3) /\ c3.attached = FALSE
      /\ c3.activeEntry = None /\ c3.activeSource = None /\ c3.activeItem = None
      /\ c3.retiringItem = None /\ c3.retiringSource = None
      /\ c3.entrySource = o.entrySource /\ c3.stage = <<>>
  BY <1>7 DEF Panels, Same
<1> HIDE DEF c3
<1>10. p.activeEntry \in Media \cup {None} /\ c3.entrySource \in [Media -> Instances \cup {None}]
  BY <1>9, PanelFacts
<1>11. es \in [Media -> Instances \cup {None}]
  BY <1>10
<1>12. c = c4
  <2>1. CASE p.activeEntry = None
    <3>1. es = c3.entrySource
      BY <1>10, <2>1, NoneIsNothing
    <3>2. c4 = c3
      <4> HIDE DEF es
      <4> QED
        BY <1>9, <3>1 DEF Panels
    <3> HIDE DEF c4
    <3> QED
      BY <1>8, <2>1, <3>2, Zenon DEF ReleaseSource
  <2>2. CASE p.activeEntry # None
    <3>1. c = [c3 EXCEPT !.entrySource[p.activeEntry] = None]
      BY <1>8, <1>9, <2>2 DEF ReleaseSource
    <3>2. es = [c3.entrySource EXCEPT ![p.activeEntry] = None]
      BY <1>10, <2>2
    <3> HIDE DEF es, p
    <3> QED
      BY <1>9, <3>1, <3>2 DEF Panels
  <2> QED
    BY <2>1, <2>2
<1>13. \A e \in Media : es[e] = IF Kept(p, e) /\ e # p.activeEntry THEN p.entrySource[e] ELSE None
  BY <1>2, <1>3, <1>7, <1>9, <1>10
<1> HIDE DEF es
<1>14. /\ c4 \in Panels /\ Same(c3, c4) /\ c4.attached = FALSE
       /\ c4.activeEntry = None /\ c4.activeSource = None /\ c4.activeItem = None
       /\ c4.retiringItem = None /\ c4.retiringSource = None
       /\ c4.entrySource = es /\ c4.stage = <<>>
  BY <1>9, <1>11 DEF Panels, Same
<1> HIDE DEF c4
<1>15. Same(p, c)
  BY <1>2, <1>3, <1>7, <1>9, <1>12, <1>14 DEF Same
<1> HIDE DEF p
<1> QED
  BY <1>12, <1>13, <1>14, <1>15, Zenon DEF p, c

-----------------------------------------------------------------------------
(* Which sources live.                                                     *)

Held(p) ==
    {p.entrySource[e] : e \in Media} \cup {p.activeSource, p.retiringSource}
    \cup {p.stage[i].source : i \in DOMAIN p.stage}

Waiting == {t.target : t \in BagToSet(timers)} \cup ToSet(started)

LEMMA LiveFacts ==
  /\ Live = Held(panel) \cup Waiting \cup Captures
  /\ Live' = Held(panel') \cup Waiting' \cup Captures
BY DEF Live, Held, Waiting

LEMMA LiveSources ==
  ASSUME Typed
  PROVE  Live \subseteq Sources \cup {None}
<1>1. Held(panel) \subseteq Sources \cup {None}
  <2>1. panel \in Panels
    BY DEF Typed
  <2> QED
    <3>1. {panel.entrySource[e] : e \in Media} \subseteq Sources \cup {None}
      BY <2>1, PanelFacts, NoneIsNothing
    <3>2. {panel.stage[i].source : i \in DOMAIN panel.stage} \subseteq Sources
      <4>1. panel.stage \in Seq(Cards)
        BY <2>1, PanelFacts
      <4>2. \A i \in DOMAIN panel.stage : panel.stage[i] \in Cards
        BY <4>1
      <4>3. \A c \in Cards : c.source \in Sources
        BY DEF Cards
      <4> QED
        BY <4>2, <4>3
    <3>3. {panel.activeSource, panel.retiringSource} \subseteq Sources \cup {None}
      BY <2>1, PanelFacts DEF HasSources
    <3> QED
      BY <3>1, <3>2, <3>3 DEF Held
<1>2. Waiting \subseteq Sources \cup {None}
  BY DEF Typed, Waiting, ToSet
<1> QED
  BY <1>1, <1>2, LiveFacts, NoneIsNothing

LEMMA UnusedIsSource ==
  Unused \in SourceType /\ Still(Unused) /\ \A e \in Media \cup Captures : Created(e) \in SourceType /\ Still(Created(e))
<1>1. <<>> \in Seq(Commands)
  OBVIOUS
<1>2. ASSUME NEW e, e \in Media \cup Captures \cup {Unused.of}
      PROVE  Created(e) \in SourceType /\ Still(Created(e))
  BY <1>1, <1>2 DEF SourceType, Still, Created, Played
<1>3. Unused.of = CHOOSE e \in Media : TRUE
  BY DEF Unused, Created
<1>4. Unused = Created(Unused.of)
  BY <1>3 DEF Unused
<1> QED
  BY <1>2, <1>4

\* What an action has to leave behind.
LEMMA Becoming ==
  ASSUME StageInv, NEW w, w.p \in Panels, IsSources(w.s), Becomes(w),
         started' \in Seq(Sources), Waiting' \subseteq Live \cup {None, w.p.activeSource},
         Held(w.p) \subseteq Live \cup {None, w.p.activeSource},
         \A s \in Live \ {None, w.p.activeSource} : Mute(w.s[s]),
         w.p.activeSource # None /\ w.s[w.p.activeSource].captured => w.p.attached,
         OnStage(w.p), ~Reselects => Owned(w.p)
  PROVE  StageInv'
<1>1. panel' = w.p /\ sources' = [s \in Sources |-> IF s \in Live' THEN w.s[s] ELSE Unused]
  BY DEF Becomes
<1>2. IsSources(sources')
  BY <1>1, UnusedIsSource DEF IsSources
<1>3. HasSources(w.p)
  BY PanelFacts
<1>4. Live \subseteq Sources \cup {None}
  BY LiveSources DEF StageInv
<1>5. Typed'
  <2>1. ASSUME NEW t \in BagToSet(timers') PROVE t.target \in Sources \cup {None}
    <3>1. t.target \in Waiting'
      BY DEF Waiting
    <3> QED
      BY <1>3, <1>4, <3>1 DEF HasSources
  <2> QED
    BY <1>1, <1>2, <2>1 DEF Typed, IsSources
<1>6. Live' \subseteq Live \cup {None, w.p.activeSource}
  <2>1. Live' = Held(panel') \cup Waiting' \cup Captures
    BY LiveFacts
  <2>2. Captures \subseteq Live
    BY LiveFacts
  <2> QED
    BY <1>1, <2>1, <2>2
<1>7. Quiet'
  <2>1. ASSUME NEW s \in Live' \ {None, panel'.activeSource}
        PROVE  Mute(sources'[s])
    <3>1. s \in Live \ {None, w.p.activeSource} /\ s \in Sources
      BY <1>1, <1>4, <1>6
    <3>2. sources'[s] = w.s[s]
      BY <1>1, <3>1
    <3> QED
      BY <3>1, <3>2
  <2> QED
    BY <2>1 DEF Quiet
<1>8. Attached'
  <2>1. CASE w.p.activeSource = None
    BY <1>1, <2>1 DEF Attached
  <2>2. CASE w.p.activeSource # None
    <3>1. w.p.activeSource \in Live' /\ w.p.activeSource \in Sources
      <4>1. w.p.activeSource \in Held(panel')
        BY <1>1 DEF Held
      <4> QED
        BY <1>3, <2>2, <4>1, LiveFacts DEF HasSources
    <3>2. sources'[w.p.activeSource] = w.s[w.p.activeSource]
      BY <1>1, <3>1
    <3> QED
      BY <1>1, <2>2, <3>2 DEF Attached
  <2> QED
    BY <2>1, <2>2
<1> QED
  BY <1>1, <1>5, <1>7, <1>8 DEF StageInv

-----------------------------------------------------------------------------
(* The initial state, and the steps of libobs.                             *)

LEMMA InitInv == Init => StageInv
<1> SUFFICES ASSUME Init PROVE StageInv
  OBVIOUS
<1>1. panel = [open |-> TRUE, library |-> Media, captures |-> Captures,
                entrySource |-> [e \in Media |-> None], activeEntry |-> None,
                activeSource |-> None, activeItem |-> None, retiringSource |-> None,
                retiringItem |-> None, attached |-> FALSE, verse |-> FALSE, stage |-> <<>>]
  BY DEF Init
<1>2. panel \in Panels
  <2>1. <<>> \in Seq([item : Items, source : Sources])
    OBVIOUS
  <2> QED
    BY <1>1, <2>1 DEF Panels
<1>3. /\ panel.activeItem = None /\ panel.retiringItem = None /\ panel.activeSource = None
      /\ panel.retiringSource = None /\ panel.activeEntry = None /\ panel.stage = <<>>
      /\ panel.entrySource = [e \in Media |-> None]
  BY <1>1
<1>4. sources \in [Sources -> SourceType] /\ \A s \in Sources : Still(sources[s])
  BY UnusedIsSource DEF Init
<1>5. BagToSet(timers) = {} /\ started = <<>>
  BY DEF Init, EmptyBag, SetToBag, BagToSet
<1>6. Typed
  BY <1>2, <1>4, <1>5 DEF Typed
<1>7. OnStage(panel) /\ Owned(panel)
  BY <1>3, NoneIsNothing DEF OnStage, Owned
<1>8. Live \subseteq Captures \cup {None}
  BY <1>3, <1>5 DEF Live, ToSet
<1>9. ASSUME NEW s \in Captures PROVE Mute(sources[s])
  <2>1. sources[s] = Created(s) /\ s \notin Videos \cup Sounds
    BY NoneIsNothing DEF Init, Media, Sources
  <2> QED
    BY <2>1 DEF Created, Mute
<1> QED
  BY <1>3, <1>6, <1>7, <1>8, <1>9 DEF StageInv, Quiet, Attached

\* One source changes; if it was mute it is afterwards.
LEMMA OneSource ==
  ASSUME StageInv, NEW s \in Sources, NEW x \in SourceType, Still(x),
         Mute(sources[s]) => Mute(x), x.captured = sources[s].captured,
         sources' = [sources EXCEPT ![s] = x], UNCHANGED <<panel, timers>>,
         started' \in Seq(Sources), ToSet(started') \subseteq Live
  PROVE  StageInv'
<1>1. sources' \in [Sources -> SourceType]
      /\ \A y \in Sources : sources'[y] = IF y = s THEN x ELSE sources[y]
  BY DEF StageInv, Typed
<1>2. Typed'
  <2>1. BagToSet(timers)' = BagToSet(timers)
    BY DEF BagToSet
  <2> QED
    BY <1>1, <2>1 DEF StageInv, Typed
<1>3. Live' \subseteq Live
  <2>1. Waiting' \subseteq Live
    <3>1. {t.target : t \in BagToSet(timers')} \subseteq Live
      BY LiveFacts DEF Waiting
    <3> QED
      BY <3>1 DEF Waiting
  <2> QED
    BY <2>1, LiveFacts
<1>4. Quiet'
  <2>1. Live \subseteq Sources \cup {None}
    BY LiveSources DEF StageInv
  <2> QED
    BY <1>1, <1>3, <2>1 DEF StageInv, Quiet
<1>5. Attached'
  <2>1. panel.activeSource \in Sources \cup {None}
    BY PanelFacts DEF StageInv, Typed, HasSources
  <2> QED
    BY <1>1, <2>1 DEF StageInv, Attached
<1> QED
  BY <1>2, <1>4, <1>5 DEF StageInv

LEMMA CarryOutInv ==
  ASSUME StageInv, NEW s \in Sources, CarryOut(s)
  PROVE  StageInv'
<1> DEFINE x == sources[s]
           what == Head(x.todo)
           rest == Tail(x.todo)
           starts == what \in {"restart", "play"}
           state == IF starts THEN "playing" ELSE IF what = "pause" THEN "paused" ELSE "stopped"
           frame == x.frame /\ what # "stop"
           y == [x EXCEPT !.todo = rest, !.state = state, !.frame = frame]
<1>1. x \in SourceType /\ Still(x) /\ x.todo # <<>> /\ x.todo \in Seq(Commands)
  BY DEF CarryOut, StageInv, Typed, SourceType
<1>2. sources' = [sources EXCEPT ![s] = y]
  <2>1. sources \in [Sources -> SourceType]
    BY DEF StageInv, Typed
  <2>2. sources' = [sources EXCEPT ![s].todo = rest, ![s].state = state, ![s].frame = frame]
    BY DEF CarryOut
  <2> HIDE DEF rest, state, frame
  <2> QED
    BY <2>1, <2>2 DEF SourceType
<1>3. /\ rest \in Seq(Commands) /\ what \in Commands
      /\ state \in {"playing", "paused", "stopped"} /\ frame \in BOOLEAN
  <2>1. rest \in Seq(Commands) /\ what \in Commands
    <3> HIDE DEF x
    <3> QED
      BY <1>1
  <2>2. frame \in BOOLEAN
    BY <1>1 DEF SourceType
  <2> QED
    BY <2>1, <2>2
<1>4. Mute(x) => IF rest = <<>> THEN state # "playing" ELSE Last(rest) \in {"pause", "stop"}
  <2> SUFFICES ASSUME Last(x.todo) \in {"pause", "stop"}
               PROVE  IF rest = <<>> THEN state # "playing" ELSE Last(rest) \in {"pause", "stop"}
    BY <1>1 DEF Mute
  <2>1. ASSUME NEW t \in Seq(Commands), t # <<>>
        PROVE  IF Tail(t) = <<>> THEN Head(t) = Last(t) ELSE Last(Tail(t)) = Last(t)
    <3>1. Len(t) \in Nat /\ Len(t) >= 1 /\ Len(Tail(t)) = Len(t) - 1
          /\ \A k \in 1 .. Len(t) - 1 : Tail(t)[k] = t[k + 1]
      <4>1. Len(t) \in Nat /\ Len(t) # 0
        BY <2>1, EmptySeq
      <4>2. Len(Tail(t)) = Len(t) - 1 /\ \A k \in 1 .. Len(Tail(t)) : Tail(t)[k] = t[k + 1]
        BY <2>1, HeadTailProperties, Zenon
      <4> QED
        BY <4>1, <4>2
    <3>2. Tail(t) = <<>> => Len(t) = 1
      <4> HAVE Tail(t) = <<>>
      <4>1. Len(Tail(t)) = 0
        BY EmptySeq, Zenon
      <4> QED
        BY <3>1, <4>1
    <3>3. Tail(t) # <<>> => Len(t) - 1 \in 1 .. Len(t) - 1
      <4>1. Tail(t) \in Seq(Commands)
        BY <2>1, HeadTailProperties, Zenon
      <4>2. Tail(t) # <<>> => Len(Tail(t)) # 0
        BY <4>1, EmptySeq
      <4> QED
        BY <3>1, <4>2
    <3>4. Head(t) = t[1]
      BY <2>1
    <3> QED
      BY <3>1, <3>2, <3>3, <3>4 DEF Last
  <2> QED
    BY <1>1, <2>1
<1>5. x.of \in Played
  BY <1>1 DEF Still
<1> HIDE DEF rest, state, frame
<1>6. /\ y \in SourceType /\ Still(y) /\ y.captured = x.captured /\ y.connected = x.connected
      /\ Mute(x) => Mute(y)
  <2> HIDE DEF x
  <2>1. y \in SourceType /\ Still(y) /\ y.captured = x.captured /\ y.connected = x.connected
    BY <1>1, <1>3, <1>5 DEF SourceType, Still
  <2>2. y.todo = rest /\ y.state = state /\ y.monitored = x.monitored
    BY <1>1 DEF SourceType
  <2> HIDE DEF y
  <2> QED
    BY <1>4, <2>1, <2>2 DEF Mute
<1>7. /\ started' \in Seq(Sources) /\ ToSet(started') \subseteq Live
  <2>1. started \in Seq(Sources) /\ ToSet(started) \subseteq Live
    BY DEF StageInv, Typed, Live
  <2>2. started' = Append(started, s) \/ started' = started
    BY DEF CarryOut
  <2>3. Append(started, s) \in Seq(Sources) /\ ToSet(Append(started, s)) \subseteq ToSet(started) \cup {s}
    BY <2>1 DEF ToSet
  <2> QED
    BY <2>1, <2>2, <2>3 DEF CarryOut
<1> HIDE DEF y
<1> QED
  BY <1>2, <1>6, <1>7, OneSource DEF CarryOut

LEMMA FirstFrameInv ==
  ASSUME StageInv, NEW s \in Sources, FirstFrame(s)
  PROVE  StageInv'
<1> DEFINE x == sources[s]
           y == [x EXCEPT !.frame = TRUE]
<1>1. x \in SourceType /\ Still(x)
  BY DEF StageInv, Typed
<1>2. sources' = [sources EXCEPT ![s] = y] /\ UNCHANGED <<panel, timers, started>>
  BY DEF FirstFrame, StageInv, Typed, SourceType
<1>3. y \in SourceType /\ Still(y) /\ y.captured = x.captured /\ (Mute(x) => Mute(y))
  <2> HIDE DEF x
  <2> QED
    BY <1>1 DEF SourceType, Still, Mute
<1>4. started' \in Seq(Sources) /\ ToSet(started') \subseteq Live
  BY <1>2 DEF StageInv, Typed, Live
<1> HIDE DEF y
<1> QED
  BY <1>2, <1>3, <1>4, OneSource

LEMMA MediaEndedInv ==
  ASSUME StageInv, NEW s \in Sources, MediaEnded(s)
  PROVE  StageInv'
<1> DEFINE x == sources[s]
           y == [x EXCEPT !.state = "stopped", !.frame = FALSE]
<1>1. x \in SourceType /\ Still(x) /\ x.todo = <<>>
  BY DEF StageInv, Typed, MediaEnded
<1>2. sources' = [sources EXCEPT ![s] = y] /\ UNCHANGED <<panel, timers, started>>
  BY DEF MediaEnded, StageInv, Typed, SourceType
<1>3. y \in SourceType /\ Still(y) /\ y.captured = x.captured /\ (Mute(x) => Mute(y))
  <2> HIDE DEF x
  <2> QED
    BY <1>1 DEF SourceType, Still, Mute
<1>4. started' \in Seq(Sources) /\ ToSet(started') \subseteq Live
  BY <1>2 DEF StageInv, Typed, Live
<1> HIDE DEF y
<1> QED
  BY <1>2, <1>3, <1>4, OneSource

-----------------------------------------------------------------------------
(* The stage is cleared, or one hand-over ended.                           *)

LEMMA InvFacts ==
  ASSUME StageInv
  PROVE  /\ panel \in Panels /\ IsSources(sources) /\ OnStage(panel) /\ HasSources(panel)
         /\ started \in Seq(Sources) /\ Waiting \subseteq Live
         /\ Held(panel) \subseteq Live /\ Live \subseteq Sources \cup {None}
         /\ \A s \in Live : s # None /\ s # panel.activeSource => Mute(sources[s])
         /\ \A x \in Sources : x = panel.activeSource /\ sources[x].captured => panel.attached
         /\ \A t \in BagToSet(timers) : t.target \in Waiting
<1>1. panel \in Panels /\ IsSources(sources) /\ OnStage(panel) /\ started \in Seq(Sources)
  BY DEF StageInv, Typed, IsSources
<1>2. HasSources(panel)
  BY <1>1, PanelFacts
<1>3. Waiting \subseteq Live /\ Held(panel) \subseteq Live
  BY LiveFacts
<1>4. Live \subseteq Sources \cup {None}
  BY LiveSources DEF StageInv
<1>5. \A s \in Live : s # None /\ s # panel.activeSource => Mute(sources[s])
  BY DEF StageInv, Quiet
<1>6. \A x \in Sources : x = panel.activeSource /\ sources[x].captured => panel.attached
  BY NoneIsNothing DEF StageInv, Attached
<1>7. \A t \in BagToSet(timers) : t.target \in Waiting
  BY DEF Waiting
<1> QED
  BY <1>1, <1>2, <1>3, <1>4, <1>5, <1>6, <1>7

\* When the hand-over ends, nothing else changes hands.
LEMMA FinishWorld ==
  ASSUME StageInv
  PROVE  LET f == FinishStageHandover(World)
         IN /\ f.p \in Panels /\ IsSources(f.s) /\ OnStage(f.p)
            /\ ~Reselects => Owned(f.p)
            /\ f.p.activeSource = panel.activeSource /\ f.p.attached = panel.attached
            /\ Held(f.p) \subseteq Live \cup {None}
            /\ \A s \in Live : s # None /\ s # panel.activeSource => Mute(f.s[s])
            /\ \A x \in Sources : x = panel.activeSource => f.s[x] = sources[x]
<1> DEFINE w == World
           f == FinishStageHandover(w)
           p == panel
<1>1. w.p = p /\ w.s = sources
  BY DEF World
<1>2. /\ p \in Panels /\ IsSources(sources) /\ OnStage(p) /\ HasSources(p)
      /\ Held(p) \subseteq Live /\ Live \subseteq Sources \cup {None}
      /\ \A s \in Live : s # None /\ s # p.activeSource => Mute(sources[s])
  BY InvFacts
<1>3. /\ \A k \in DOMAIN p.stage : p.stage[k].item = p.retiringItem => k = 1
      /\ \A k \in DOMAIN Relieved(p) : \E j \in DOMAIN p.stage : Relieved(p)[k] = p.stage[j]
      /\ IF p.activeItem = None THEN Relieved(p) = <<>>
         ELSE \E a \in Sources : Relieved(p) = <<Card(p.activeItem, a)>>
  BY <1>2, RelievedFacts, Zenon
<1> HIDE DEF w, p
<1>4. /\ f.p \in Panels /\ Same(p, f.p) /\ f.p.attached = p.attached
      /\ f.p.activeEntry = p.activeEntry /\ f.p.activeSource = p.activeSource
      /\ f.p.activeItem = p.activeItem
      /\ f.p.retiringItem = None /\ f.p.retiringSource = None
      /\ \A e \in Media : f.p.entrySource[e] = IF Kept(p, e) THEN p.entrySource[e] ELSE None
      /\ f.p.stage = Relieved(p)
  <2>1. w.p \in Panels /\ \A k \in DOMAIN w.p.stage : w.p.stage[k].item = w.p.retiringItem => k = 1
    BY <1>1, <1>2, <1>3, Zenon
  <2> QED
    BY <1>1, <2>1, FinishPanel, Zenon DEF Relieved
<1>5. /\ IsSources(f.s)
      /\ \A x \in Sources : Mute(sources[x]) => Mute(f.s[x])
      /\ \A x \in Sources : x = p.activeSource => f.s[x] = sources[x]
  <2>1. IsSources(w.s) /\ HasSources(w.p)
    BY <1>1, <1>2, Zenon
  <2> QED
    BY <1>1, <2>1, FinishSources, Zenon
<1> HIDE DEF f
<1>6. OnStage(f.p)
  BY <1>3, <1>4 DEF OnStage
<1>7. Held(f.p) \subseteq Live \cup {None}
  <2>1. Held(f.p) \subseteq Held(p) \cup {None}
    <3>1. {f.p.entrySource[e] : e \in Media} \subseteq Held(p) \cup {None}
      BY <1>4 DEF Held
    <3>2. {f.p.stage[k].source : k \in DOMAIN f.p.stage} \subseteq Held(p)
      BY <1>3, <1>4 DEF Held
    <3>3. {f.p.activeSource, f.p.retiringSource} \subseteq Held(p) \cup {None}
      BY <1>4 DEF Held
    <3> QED
      BY <3>1, <3>2, <3>3 DEF Held
  <2> QED
    BY <1>2, <2>1
<1>8. Owned(p) => Owned(f.p)
  <2> HAVE Owned(p)
  <2>1. f.p.activeItem = None => f.p.activeEntry = None /\ f.p.activeSource = None
    BY <1>4 DEF Owned
  <2>2. ASSUME NEW k \in DOMAIN f.p.stage
        PROVE  f.p.stage[k].source = IF f.p.stage[k].item = f.p.activeItem THEN f.p.activeSource
                                     ELSE f.p.retiringSource
    <3>1. PICK j \in DOMAIN p.stage : f.p.stage[k] = p.stage[j]
      BY <1>3, <1>4
    <3>2. f.p.stage[k].item = p.activeItem
      <4>1. p.activeItem # None
        BY <1>3, <1>4, <2>2
      <4>2. PICK a \in Sources : f.p.stage = <<Card(p.activeItem, a)>>
        BY <1>3, <1>4, <4>1
      <4>3. k = 1
        BY <2>2, <4>2
      <4> QED
        BY <4>2, <4>3 DEF Card
    <3> QED
      BY <1>4, <3>1, <3>2 DEF Owned
  <2>3. ASSUME NEW e \in Media
        PROVE  IF e = f.p.activeEntry THEN f.p.entrySource[e] = f.p.activeSource /\ f.p.activeSource # None
               ELSE f.p.entrySource[e] = None
    BY <1>4 DEF Owned, Kept
  <2> QED
    BY <1>4, <2>1, <2>2, <2>3 DEF Owned
<1>9. \A s \in Live : s # None /\ s # p.activeSource => Mute(f.s[s])
  BY <1>2, <1>5
<1> QED
  BY <1>2, <1>4, <1>5, <1>6, <1>7, <1>8, <1>9, Zenon DEF f, w, p, StageInv

\* When all of it is taken off, no source stays active and no card has one.
LEMMA ClearWorld ==
  ASSUME StageInv, NEW w, w.p \in Panels, IsSources(w.s), OnStage(w.p), ~Reselects => Owned(w.p),
         Held(w.p) \subseteq Live, w.p.activeSource = panel.activeSource,
         \A s \in Live : s # None /\ s # panel.activeSource => Mute(w.s[s]),
         \A x \in Sources : x = w.p.activeSource /\ w.s[x].captured => w.p.attached
  PROVE  LET c == ClearActiveMedia(w, FALSE)
         IN /\ c.p \in Panels /\ IsSources(c.s) /\ Same(w.p, c.p)
            /\ c.p.activeEntry = None /\ c.p.activeSource = None /\ c.p.activeItem = None
            /\ c.p.retiringItem = None /\ c.p.retiringSource = None /\ c.p.stage = <<>>
            /\ ~Reselects => \A e \in Media : c.p.entrySource[e] = None
            /\ {c.p.entrySource[e] : e \in Media} \subseteq Live \cup {None}
            /\ \A s \in Live : s # None => Mute(c.s[s])
<1> DEFINE p == w.p
           c == ClearActiveMedia(w, FALSE)
           f == FinishStageHandover(w)
<1>1. /\ p \in Panels /\ HasSources(p) /\ p.attached \in BOOLEAN
      /\ Live \subseteq Sources \cup {None}
  BY InvFacts, PanelFacts
<1>2. /\ c.p \in Panels /\ Same(p, c.p) /\ c.p.attached = FALSE
      /\ c.p.activeEntry = None /\ c.p.activeSource = None /\ c.p.activeItem = None
      /\ c.p.retiringItem = None /\ c.p.retiringSource = None /\ c.p.stage = <<>>
      /\ \A e \in Media : c.p.entrySource[e] =
           IF Kept(p, e) /\ e # p.activeEntry THEN p.entrySource[e] ELSE None
  BY ClearActive, Zenon
<1>3. f.p.activeSource = p.activeSource /\ f.p.attached = p.attached
  <2>1. \A k \in DOMAIN p.stage : p.stage[k].item = p.retiringItem => k = 1
    BY RelievedFacts, Zenon
  <2> QED
    BY <2>1, FinishPanel, Zenon
<1>4. IsSources(c.s) /\ \A x \in Sources : x = p.activeSource \/ Mute(w.s[x]) => Mute(c.s[x])
  <2>1. FALSE \in BOOLEAN
    OBVIOUS
  <2> QED
    BY <1>1, <1>3, <2>1, ClearSources, Zenon
<1> HIDE DEF c, f
<1>5. {c.p.entrySource[e] : e \in Media} \subseteq Live \cup {None}
  BY <1>2 DEF Held
<1>6. Owned(p) => \A e \in Media : c.p.entrySource[e] = None
  BY <1>2 DEF Owned, Kept
<1>7. \A s \in Live : s # None => Mute(c.s[s])
  BY <1>1, <1>4
<1> QED
  BY <1>2, <1>4, <1>5, <1>6, <1>7, Zenon DEF p, c

-----------------------------------------------------------------------------
(* A card follows another.                                                 *)

\* An element more on a sequence of one or of two.
LEMMA Appends ==
  ASSUME NEW S, NEW u \in S, NEW v \in S, NEW n \in S
  PROVE  Append(<<u>>, n) = <<u, n>> /\ Append(<<u, v>>, n) = <<u, v, n>>
<1>1. ASSUME NEW s \in Seq(S), NEW t \in Seq(S), Len(t) = Len(s) + 1,
             \A k \in 1 .. Len(s) : t[k] = s[k], t[Len(t)] = n
      PROVE  Append(s, n) = t
  <2>1. /\ Append(s, n) \in Seq(S) /\ Len(Append(s, n)) = Len(s) + 1
        /\ \A k \in 1 .. Len(s) : Append(s, n)[k] = s[k]
        /\ Append(s, n)[Len(s) + 1] = n
    BY AppendProperties
  <2>2. \A k \in 1 .. Len(t) : Append(s, n)[k] = t[k]
    BY <1>1, <2>1
  <2> QED
    BY <1>1, <2>1, <2>2, SeqEqual
<1>3. Append(<<u>>, n) = <<u, n>>
  <2> DEFINE s == <<u>>
             t == <<u, n>>
  <2>1. /\ s \in Seq(S) /\ t \in Seq(S) /\ Len(s) = 1 /\ Len(t) = 2
        /\ t[1] = s[1] /\ t[2] = n
    OBVIOUS
  <2> HIDE DEF s, t
  <2>2. Len(t) = Len(s) + 1 /\ t[Len(t)] = n /\ \A k \in 1 .. Len(s) : t[k] = s[k]
    BY <2>1
  <2>3. Append(s, n) = t
    BY <1>1, <2>1, <2>2, Zenon
  <2> QED
    BY <2>3, Zenon DEF s, t
<1>4. Append(<<u, v>>, n) = <<u, v, n>>
  <2> DEFINE s == <<u, v>>
             t == <<u, v, n>>
  <2>1. /\ s \in Seq(S) /\ t \in Seq(S) /\ Len(s) = 2 /\ Len(t) = 3
        /\ t[1] = s[1] /\ t[2] = s[2] /\ t[3] = n
    OBVIOUS
  <2> HIDE DEF s, t
  <2>2. Len(t) = Len(s) + 1 /\ t[Len(t)] = n /\ \A k \in 1 .. Len(s) : t[k] = s[k]
    BY <2>1
  <2>3. Append(s, n) = t
    BY <1>1, <2>1, <2>2, Zenon
  <2> QED
    BY <2>3, Zenon DEF s, t
<1> QED
  BY <1>3, <1>4

\* The new item is none of those on the stage.
LEMMA AddItemFacts ==
  ASSUME NEW p \in Panels, OnStage(p), NEW x \in Sources
  PROVE  LET i == FreeItem(p)
             a == AddItem(p, i, x)
         IN /\ i \in Items /\ i # p.activeItem /\ i # p.retiringItem
            /\ a \in Panels /\ Same(p, a) /\ a.attached = p.attached
            /\ a.activeEntry = p.activeEntry /\ a.activeSource = p.activeSource
            /\ a.activeItem = p.activeItem /\ a.retiringItem = p.retiringItem
            /\ a.retiringSource = p.retiringSource /\ a.entrySource = p.entrySource
            /\ OnStageUnder(a, Card(i, x))
            /\ \A k \in DOMAIN a.stage :
                 a.stage[k] = Card(i, x) \/ \E j \in DOMAIN p.stage : a.stage[k] = p.stage[j]
<1> DEFINE i == FreeItem(p)
           n == Card(i, x)
           s == Append(p.stage, n)
           a == [p EXCEPT !.stage = s]
<1>1. p.stage \in Seq(Cards) /\ p.activeItem \in Items \cup {None} /\ p.retiringItem \in Items \cup {None}
  BY PanelFacts
<1>2. \A j \in Items : (j # p.activeItem /\ j # p.retiringItem) <=> (\A k \in DOMAIN p.stage : p.stage[k].item # j)
  <2>1. CASE p.activeItem = None /\ p.retiringItem = None /\ p.stage = <<>>
    BY <2>1, NoneIsNothing
  <2>2. CASE /\ p.activeItem # None /\ p.retiringItem = None
             /\ \E b \in Sources : p.stage = <<Card(p.activeItem, b)>>
    <3>1. PICK b \in Sources : p.stage = <<Card(p.activeItem, b)>>
      BY <2>2
    <3>2. DOMAIN p.stage = {1} /\ p.stage[1].item = p.activeItem
      BY <3>1 DEF Card
    <3> QED
      BY <2>2, <3>2, NoneIsNothing
  <2>3. CASE /\ p.activeItem # None /\ p.retiringItem # None /\ p.activeItem # p.retiringItem
             /\ \E r, b \in Sources : p.stage = <<Card(p.retiringItem, r), Card(p.activeItem, b)>>
    <3>1. PICK r \in Sources, b \in Sources : p.stage = <<Card(p.retiringItem, r), Card(p.activeItem, b)>>
      BY <2>3, Zenon
    <3>2. DOMAIN p.stage = {1, 2} /\ p.stage[1].item = p.retiringItem /\ p.stage[2].item = p.activeItem
      BY <3>1 DEF Card
    <3> QED
      BY <3>2
  <2> QED
    BY <2>1, <2>2, <2>3 DEF OnStage
<1>3. i \in Items /\ i # p.activeItem /\ i # p.retiringItem
  <2>1. \E j \in Items : j # p.activeItem /\ j # p.retiringItem
    <3>1. 1 \in Items /\ 2 \in Items /\ 3 \in Items
      BY DEF Items
    <3> QED
      BY <3>1
  <2>2. \E j \in Items : \A k \in DOMAIN p.stage : p.stage[k].item # j
    BY <1>2, <2>1, Zenon
  <2>3. i \in Items /\ \A k \in DOMAIN p.stage : p.stage[k].item # i
    BY <2>2, Zenon DEF FreeItem
  <2> QED
    BY <1>2, <2>3, Zenon
<1> HIDE DEF i
<1>4. n \in Cards /\ n = [item |-> i, source |-> x]
  BY <1>3 DEF Card, Cards
<1>5. s \in Seq(Cards) /\ \A k \in DOMAIN s : s[k] = n \/ \E j \in DOMAIN p.stage : s[k] = p.stage[j]
  <2> HIDE DEF n
  <2> QED
    BY <1>1, <1>4
<1>6. AddItem(p, i, x) = a
  BY <1>4 DEF AddItem
<1> HIDE DEF n
<1>7. \/ p.activeItem = None /\ p.retiringItem = None /\ s = <<n>>
      \/ /\ p.activeItem # None /\ p.retiringItem = None
         /\ \E b \in Sources : s = <<Card(p.activeItem, b), n>>
      \/ /\ p.activeItem # None /\ p.retiringItem # None /\ p.activeItem # p.retiringItem
         /\ \E r, b \in Sources : s = <<Card(p.retiringItem, r), Card(p.activeItem, b), n>>
  <2>1. Append(<<>>, n) = <<n>>
    BY <1>4
  <2>2. ASSUME NEW u \in Cards PROVE Append(<<u>>, n) = <<u, n>>
    BY <1>4, Appends, Zenon
  <2>3. ASSUME NEW u \in Cards, NEW v \in Cards PROVE Append(<<u, v>>, n) = <<u, v, n>>
    BY <1>4, Appends, Zenon
  <2>4. \A b \in Sources : /\ p.activeItem # None => Card(p.activeItem, b) \in Cards
                           /\ p.retiringItem # None => Card(p.retiringItem, b) \in Cards
    BY <1>1, CardFacts
  <2>5. CASE p.activeItem = None /\ p.retiringItem = None /\ p.stage = <<>>
    BY <2>1, <2>5, Zenon
  <2>6. CASE /\ p.activeItem # None /\ p.retiringItem = None
             /\ \E b \in Sources : p.stage = <<Card(p.activeItem, b)>>
    BY <2>2, <2>4, <2>6, Zenon
  <2>7. CASE /\ p.activeItem # None /\ p.retiringItem # None /\ p.activeItem # p.retiringItem
             /\ \E r, b \in Sources : p.stage = <<Card(p.retiringItem, r), Card(p.activeItem, b)>>
    <3>1. PICK r \in Sources, b \in Sources : p.stage = <<Card(p.retiringItem, r), Card(p.activeItem, b)>>
      BY <2>7, Zenon
    <3>2. s = <<Card(p.retiringItem, r), Card(p.activeItem, b), n>>
      BY <2>3, <2>4, <2>7, <3>1, Zenon
    <3> QED
      BY <2>7, <3>2, Zenon
  <2> QED
    BY <2>5, <2>6, <2>7, Zenon DEF OnStage
<1> HIDE DEF s
<1>8. /\ a \in Panels /\ Same(p, a) /\ a.attached = p.attached
      /\ a.activeEntry = p.activeEntry /\ a.activeSource = p.activeSource
      /\ a.activeItem = p.activeItem /\ a.retiringItem = p.retiringItem
      /\ a.retiringSource = p.retiringSource /\ a.entrySource = p.entrySource /\ a.stage = s
  BY <1>5 DEF Panels, Same, Cards
<1> HIDE DEF a
<1>9. OnStageUnder(a, n)
  BY <1>7, <1>8, Zenon DEF OnStageUnder
<1> QED
  BY <1>3, <1>5, <1>6, <1>8, <1>9, Zenon DEF i, n

\* What belongs to whom while the card e, which has the new item n, is still to become the
\* active one.
OwnedUnder(p, n, e) ==
    /\ p.activeItem = None => p.activeEntry = None /\ p.activeSource = None
    /\ p.retiringItem = None => p.retiringSource = None
    /\ \A k \in DOMAIN p.stage : p.stage[k] # n =>
        p.stage[k].source = IF p.stage[k].item = p.activeItem THEN p.activeSource
                            ELSE p.retiringSource
    /\ \A d \in Media \ {e} :
        IF d = p.activeEntry THEN p.entrySource[d] = p.activeSource /\ p.activeSource # None
        ELSE \/ p.entrySource[d] = None
             \/ p.entrySource[d] = p.retiringSource /\ p.retiringSource # p.activeSource

\* A panel q in which the card of n is the active one.
LEMMA Succeeds ==
  ASSUME NEW w, w.p \in Panels, NEW n \in Cards, OnStageUnder(w.p, n),
         n.item # w.p.activeItem, n.item # w.p.retiringItem,
         NEW q \in Panels, q.activeItem = n.item,
         NEW c, c = ClearActiveMedia(w, TRUE).p,
         q.entrySource = c.entrySource, q.stage = c.stage,
         q.retiringItem = c.retiringItem, q.retiringSource = c.retiringSource
  PROVE  /\ OnStage(q) /\ Held(q) \subseteq Held(w.p) \cup {None, q.activeSource}
         /\ /\ OwnedUnder(w.p, n, q.activeEntry) /\ n.source = q.activeSource
            /\ q.activeEntry \in Media =>
                 q.entrySource[q.activeEntry] = q.activeSource /\ q.activeSource # None
            /\ w.p.activeEntry # None /\ w.p.activeEntry # q.activeEntry =>
                 q.activeSource # w.p.activeSource
            => Owned(q)
<1> DEFINE p == w.p
<1>1. /\ c.retiringItem = p.activeItem
      /\ c.retiringSource = IF p.activeItem = None THEN None ELSE p.activeSource
      /\ \A e \in Media : c.entrySource[e] = IF Kept(p, e) THEN p.entrySource[e] ELSE None
      /\ \A k \in DOMAIN c.stage : \E j \in DOMAIN p.stage : c.stage[k] = p.stage[j]
      /\ IF p.activeItem = None THEN c.stage = <<n>>
         ELSE \E a \in Sources : c.stage = <<Card(p.activeItem, a), n>>
  BY RetireActive, Zenon
<1>2. n.item \in Items /\ n.source \in Sources /\ n = Card(n.item, n.source) /\ n.item # None
  BY NoneIsNothing DEF Cards, Card
<1>3. p.activeItem \in Items \cup {None} /\ p.activeEntry \in Media \cup {None} /\ None \notin Media
  BY PanelFacts, NoneIsNothing
<1> HIDE DEF p
<1>4. OnStage(q)
  <2>1. CASE p.activeItem = None
    <3>1. q.stage = <<Card(q.activeItem, n.source)>> /\ q.activeItem # None /\ q.retiringItem = None
      BY <1>1, <1>2, <2>1, Zenon
    <3> QED
      BY <1>2, <3>1, Zenon DEF OnStage
  <2>2. CASE p.activeItem # None
    <3>1. PICK a \in Sources : c.stage = <<Card(p.activeItem, a), n>>
      BY <1>1, <2>2
    <3>2. /\ q.stage = <<Card(q.retiringItem, a), Card(q.activeItem, n.source)>>
          /\ q.activeItem # None /\ q.retiringItem # None /\ q.activeItem # q.retiringItem
      BY <1>1, <1>2, <2>2, <3>1, Zenon DEF p
    <3> QED
      BY <1>2, <3>2, Zenon DEF OnStage
  <2> QED
    BY <2>1, <2>2
<1>5. Held(q) \subseteq Held(p) \cup {None, q.activeSource}
  <2>1. ASSUME NEW e \in Media PROVE q.entrySource[e] \in Held(p) \cup {None}
    <3>1. q.entrySource[e] = p.entrySource[e] \/ q.entrySource[e] = None
      BY <1>1, Zenon
    <3> QED
      BY <3>1 DEF Held
  <2>2. ASSUME NEW k \in DOMAIN q.stage PROVE q.stage[k].source \in Held(p)
    <3>1. PICK j \in DOMAIN p.stage : q.stage[k] = p.stage[j]
      BY <1>1, Zenon
    <3> QED
      BY <3>1 DEF Held
  <2>3. q.retiringSource \in Held(p) \cup {None}
    BY <1>1 DEF Held
  <2>4. {q.entrySource[e] : e \in Media} \subseteq Held(p) \cup {None}
    BY <2>1
  <2>5. {q.stage[k].source : k \in DOMAIN q.stage} \subseteq Held(p)
    BY <2>2
  <2>6. Held(q) = {q.entrySource[e] : e \in Media} \cup {q.activeSource, q.retiringSource}
                  \cup {q.stage[k].source : k \in DOMAIN q.stage}
    BY DEF Held
  <2> QED
    BY <2>3, <2>4, <2>5, <2>6
<1>6. ASSUME OwnedUnder(p, n, q.activeEntry), n.source = q.activeSource,
             q.activeEntry \in Media =>
                q.entrySource[q.activeEntry] = q.activeSource /\ q.activeSource # None,
             p.activeEntry # None /\ p.activeEntry # q.activeEntry => q.activeSource # p.activeSource
      PROVE  Owned(q)
  <2>1. q.activeItem # None
    BY <1>2
  <2>2. q.retiringItem = None => q.retiringSource = None
    BY <1>1
  <2>3. ASSUME NEW k \in DOMAIN q.stage
        PROVE  q.stage[k].source = IF q.stage[k].item = q.activeItem THEN q.activeSource
                                   ELSE q.retiringSource
    <3>1. CASE q.stage[k] = n
      BY <1>6, <3>1
    <3>2. CASE q.stage[k] # n
      <4>1. PICK j \in DOMAIN p.stage : q.stage[k] = p.stage[j]
        BY <1>1, <2>3
      <4>2. p.activeItem # None /\ p.stage[j].item = p.activeItem
        <5>1. CASE p.activeItem = None
          <6>1. q.stage = <<n>>
            BY <1>1, <5>1
          <6>2. DOMAIN q.stage = {1} /\ q.stage[1] = n
            <7>1. DOMAIN <<n>> = {1} /\ <<n>>[1] = n
              OBVIOUS
            <7> QED
              BY <6>1, <7>1, Zenon
          <6> QED
            BY <2>3, <3>2, <6>2
        <5>2. CASE p.activeItem # None
          <6>1. PICK a \in Sources : q.stage = <<Card(p.activeItem, a), n>>
            BY <1>1, <5>2
          <6>2. DOMAIN q.stage = {1, 2} /\ q.stage[2] = n /\ q.stage[1] = Card(p.activeItem, a)
            <7>1. \A u : DOMAIN <<u, n>> = {1, 2} /\ <<u, n>>[2] = n /\ <<u, n>>[1] = u
              OBVIOUS
            <7> QED
              BY <6>1, <7>1
          <6>3. q.stage[k] = Card(p.activeItem, a)
            BY <2>3, <3>2, <6>2
          <6> QED
            BY <4>1, <5>2, <6>3 DEF Card
        <5> QED
          BY <5>1, <5>2
      <4>3. p.stage[j].source = p.activeSource
        BY <1>6, <3>2, <4>1, <4>2 DEF OwnedUnder
      <4>4. q.retiringSource = p.activeSource /\ q.stage[k].item # q.activeItem
        BY <1>1, <4>1, <4>2 DEF p
      <4> QED
        BY <4>1, <4>3, <4>4
    <3> QED
      BY <3>1, <3>2
  <2>4. ASSUME NEW e \in Media, e # q.activeEntry
        PROVE  \/ q.entrySource[e] = None
               \/ q.entrySource[e] = q.retiringSource /\ q.retiringSource # q.activeSource
    <3>1. CASE e = p.activeEntry
      <4>1. p.activeItem # None /\ p.entrySource[e] = p.activeSource
        BY <1>3, <1>6, <2>4, <3>1 DEF OwnedUnder
      <4>2. q.retiringSource = p.activeSource /\ q.activeSource # p.activeSource
        BY <1>1, <1>3, <1>6, <2>4, <3>1, <4>1
      <4> QED
        BY <1>1, <4>1, <4>2
    <3>2. CASE e # p.activeEntry
      <4>1. \/ p.entrySource[e] = None
            \/ p.entrySource[e] = p.retiringSource /\ p.retiringSource # p.activeSource
        BY <1>6, <2>4, <3>2, Zenon DEF OwnedUnder
      <4>2. q.entrySource[e] = IF Kept(p, e) THEN p.entrySource[e] ELSE None
        BY <1>1, Zenon
      <4> QED
        BY <3>2, <4>1, <4>2 DEF Kept
    <3> QED
      BY <3>1, <3>2
  <2> QED
    BY <1>6, <2>1, <2>2, <2>3, <2>4 DEF Owned
<1> QED
  BY <1>4, <1>5, <1>6, Zenon DEF p

-----------------------------------------------------------------------------
(* The steps that leave the panel as it is.                                *)

LEMMA TimerFacts ==
  /\ \A t : BagToSet(timers (-) SetToBag({t})) \subseteq BagToSet(timers)
  /\ \A B, kind, target : BagToSet(B (+) Start(kind, target)) =
                            BagToSet(B) \cup {Timer(kind, target)}
  /\ \A kind, target : Timer(kind, target).target = target
<1>1. ASSUME NEW t PROVE BagToSet(timers (-) SetToBag({t})) \subseteq BagToSet(timers)
  BY DEF BagToSet, SetToBag, (-)
<1>2. ASSUME NEW B, NEW kind, NEW target
      PROVE  BagToSet(B (+) Start(kind, target)) = BagToSet(B) \cup {Timer(kind, target)}
  BY DEF BagToSet, SetToBag, (+), Start
<1> QED
  BY <1>1, <1>2 DEF Timer

\* The active source may be told something, no other one.
LEMMA StayPut ==
  ASSUME StageInv, NEW w, w.p = panel, IsSources(w.s), Becomes(w),
         \A x \in Sources : x # panel.activeSource => w.s[x] = sources[x],
         \A x \in Sources : x = panel.activeSource => w.s[x].captured = sources[x].captured,
         started' \in Seq(Sources), Waiting' \subseteq Live \cup {None, panel.activeSource}
  PROVE  StageInv'
<1>1. /\ panel \in Panels /\ OnStage(panel) /\ HasSources(panel)
      /\ Held(panel) \subseteq Live /\ Live \subseteq Sources \cup {None}
      /\ \A s \in Live : s # None /\ s # panel.activeSource => Mute(sources[s])
      /\ \A x \in Sources : x = panel.activeSource /\ sources[x].captured => panel.attached
  BY InvFacts
<1>2. \A s \in Live \ {None, panel.activeSource} : Mute(w.s[s])
  BY <1>1
<1>3. panel.activeSource # None /\ w.s[panel.activeSource].captured => panel.attached
  BY <1>1 DEF HasSources
<1>4. ~Reselects => Owned(panel)
  BY DEF StageInv
<1>5. /\ w.p \in Panels /\ Waiting' \subseteq Live \cup {None, w.p.activeSource}
      /\ Held(w.p) \subseteq Live \cup {None, w.p.activeSource}
      /\ \A s \in Live \ {None, w.p.activeSource} : Mute(w.s[s])
      /\ w.p.activeSource # None /\ w.s[w.p.activeSource].captured => w.p.attached
      /\ OnStage(w.p) /\ (~Reselects => Owned(w.p))
  BY <1>1, <1>2, <1>3, <1>4
<1> QED
  BY <1>5, Becoming

LEMMA WaitingStays ==
  ASSUME StageInv, UNCHANGED <<timers, started>>
  PROVE  started' \in Seq(Sources) /\ Waiting' \subseteq Live
BY InvFacts DEF Waiting

LEMMA Fired ==
  ASSUME StageInv, NEW t, timers' = timers (-) SetToBag({t}), UNCHANGED started
  PROVE  started' \in Seq(Sources) /\ Waiting' \subseteq Live
<1>1. BagToSet(timers') \subseteq BagToSet(timers)
  BY TimerFacts
<1>2. Waiting' \subseteq Waiting
  BY <1>1 DEF Waiting
<1> QED
  BY <1>2, InvFacts

LEMMA WorldFacts ==
  ASSUME StageInv
  PROVE  /\ World.p = panel /\ World.s = sources
         /\ LET r == RebuildAudioMonitor(World)
            IN /\ r.p = panel /\ IsSources(r.s)
               /\ \A x \in Sources : x # panel.activeSource => r.s[x] = sources[x]
               /\ \A x \in Sources : x = panel.activeSource => r.s[x].captured = sources[x].captured
<1> DEFINE m == Monitor(sources, panel.activeSource, TRUE)
<1>1. World.p = panel /\ World.s = sources
  BY DEF World
<1>2. RebuildAudioMonitor(World).p = panel /\ RebuildAudioMonitor(World).s = m
  BY <1>1 DEF RebuildAudioMonitor
<1>3. IsSources(sources) /\ panel.activeSource \in Sources \cup {None} /\ TRUE \in BOOLEAN
  BY InvFacts DEF HasSources
<1>4. /\ IsSources(m)
      /\ \A x \in Sources : m[x] = IF x = panel.activeSource THEN [sources[x] EXCEPT !.monitored = TRUE]
                                   ELSE sources[x]
  BY <1>3, MonitorFacts, Zenon
<1>5. \A x \in Sources : [sources[x] EXCEPT !.monitored = TRUE].captured = sources[x].captured
  BY <1>3 DEF IsSources, SourceType
<1> HIDE DEF m
<1> QED
  BY <1>1, <1>2, <1>4, <1>5, Zenon

LEMMA Commanded ==
  ASSUME StageInv, NEW what \in Commands, UNCHANGED <<timers, started>>,
         Becomes([p |-> panel, s |-> Command(sources, panel.activeSource, what)])
  PROVE  StageInv'
<1> DEFINE c == Command(sources, panel.activeSource, what)
           w == [p |-> panel, s |-> c]
<1>1. IsSources(sources) /\ panel.activeSource \in Sources \cup {None}
  BY InvFacts DEF HasSources
<1>2. /\ IsSources(c)
      /\ \A x \in Sources : c[x] = IF x = panel.activeSource /\ sources[x].of \in Played
                                   THEN [sources[x] EXCEPT !.todo = Append(sources[x].todo, what)]
                                   ELSE sources[x]
  BY <1>1, CommandFacts, Zenon
<1>3. \A x \in Sources : \A t : [sources[x] EXCEPT !.todo = t].captured = sources[x].captured
  BY <1>1 DEF IsSources, SourceType
<1>4. /\ \A x \in Sources : x # panel.activeSource => c[x] = sources[x]
      /\ \A x \in Sources : x = panel.activeSource => c[x].captured = sources[x].captured
  <2> HIDE DEF c
  <2>1. ASSUME NEW x \in Sources, x # panel.activeSource PROVE c[x] = sources[x]
    BY <1>2, <2>1, Zenon
  <2>2. ASSUME NEW x \in Sources
        PROVE  c[x] = [sources[x] EXCEPT !.todo = Append(sources[x].todo, what)] \/ c[x] = sources[x]
    BY <1>2, Zenon
  <2>3. ASSUME NEW x \in Sources PROVE c[x].captured = sources[x].captured
    <3>1. [sources[x] EXCEPT !.todo = Append(sources[x].todo, what)].captured = sources[x].captured
      BY <1>3, Zenon
    <3> QED
      BY <2>2, <3>1, Zenon
  <2> QED
    BY <2>1, <2>3, Zenon
<1>5. started' \in Seq(Sources) /\ Waiting' \subseteq Live \cup {None, panel.activeSource}
  BY WaitingStays
<1> HIDE DEF c
<1>6. w.p = panel /\ w.s = c /\ Becomes(w)
  BY DEF c
<1> HIDE DEF w
<1> QED
  BY <1>2, <1>4, <1>5, <1>6, StayPut, Zenon

LEMMA TogglePlayPauseInv ==
  ASSUME StageInv, TogglePlayPause
  PROVE  StageInv'
<1>1. PICK what \in Commands : Becomes([p |-> panel, s |-> Command(sources, panel.activeSource, what)])
  BY Zenon DEF TogglePlayPause, Commands
<1> QED
  BY <1>1, Commanded DEF TogglePlayPause

LEMMA StopMediaInv ==
  ASSUME StageInv, StopMedia
  PROVE  StageInv'
<1>1. "stop" \in Commands
  BY DEF Commands
<1> QED
  BY <1>1, Commanded DEF StopMedia

LEMMA ChangeAudioDeviceInv ==
  ASSUME StageInv, ChangeAudioDevice
  PROVE  StageInv'
<1> DEFINE r == RebuildAudioMonitor(World)
<1>1. /\ r.p = panel /\ IsSources(r.s)
      /\ \A x \in Sources : x # panel.activeSource => r.s[x] = sources[x]
      /\ \A x \in Sources : x = panel.activeSource => r.s[x].captured = sources[x].captured
  BY WorldFacts, Zenon
<1>2. Becomes(r) /\ UNCHANGED <<timers, started>>
  BY DEF ChangeAudioDevice
<1>3. started' \in Seq(Sources) /\ Waiting' \subseteq Live \cup {None, panel.activeSource}
  BY <1>2, WaitingStays
<1> HIDE DEF r
<1> QED
  BY <1>1, <1>2, <1>3, StayPut

LEMMA HandleStartedInv ==
  ASSUME StageInv, HandleStarted
  PROVE  StageInv'
<1> DEFINE r == RebuildAudioMonitor(World)
           a == panel.activeSource
<1>1. /\ r.p = panel /\ IsSources(r.s)
      /\ \A x \in Sources : x # a => r.s[x] = sources[x]
      /\ \A x \in Sources : x = a => r.s[x].captured = sources[x].captured
      /\ World.p = panel /\ World.s = sources /\ IsSources(sources)
  BY WorldFacts, InvFacts, Zenon
<1>2. started' \in Seq(Sources) /\ ToSet(started') \subseteq Live
  <2>1. /\ started \in Seq(Sources) /\ started # <<>> /\ started' = Tail(started)
        /\ ToSet(started) \subseteq Live
    BY InvFacts DEF HandleStarted, Live
  <2>2. /\ Tail(started) \in Seq(Sources) /\ Len(Tail(started)) = Len(started) - 1
        /\ \A i \in 1 .. Len(Tail(started)) : Tail(started)[i] = started[i + 1]
    BY <2>1, HeadTailProperties, Zenon
  <2>3. ASSUME NEW i \in DOMAIN Tail(started) PROVE Tail(started)[i] \in ToSet(started)
    <3>1. i \in 1 .. Len(Tail(started)) /\ i + 1 \in DOMAIN started
      BY <2>1, <2>2
    <3> QED
      BY <2>2, <3>1 DEF ToSet
  <2> QED
    BY <2>1, <2>2, <2>3 DEF ToSet
<1>3. Waiting' \subseteq Live \cup {None, a}
  <2>1. \A t \in BagToSet(timers') : t.target \in Live \cup {None, a}
    <3>1. \A t \in BagToSet(timers) : t.target \in Live
      BY InvFacts
    <3>2. timers' = timers \/ timers' = timers (+) Start("handoverIfFrame", a)
      BY DEF HandleStarted
    <3> QED
      BY <3>1, <3>2, TimerFacts
  <2> QED
    BY <1>2, <2>1 DEF Waiting
<1>4. Becomes(r) \/ Becomes(World)
  BY DEF HandleStarted
<1>5. CASE Becomes(r)
  <2> HIDE DEF r, a
  <2> QED
    BY <1>1, <1>2, <1>3, <1>5, StayPut DEF a
<1>6. CASE Becomes(World)
  BY <1>1, <1>2, <1>3, <1>6, StayPut
<1> QED
  BY <1>4, <1>5, <1>6

\* The end of a hand-over, or nothing at all.
LEMMA Relieves ==
  ASSUME StageInv, started' \in Seq(Sources), Waiting' \subseteq Live,
         Becomes(FinishStageHandover(World)) \/ Becomes(World)
  PROVE  StageInv'
<1>1. CASE Becomes(World)
  BY <1>1, StayPut, WorldFacts, InvFacts
<1>2. CASE Becomes(FinishStageHandover(World))
  <2> DEFINE f == FinishStageHandover(World)
  <2>1. /\ f.p \in Panels /\ IsSources(f.s) /\ OnStage(f.p)
        /\ ~Reselects => Owned(f.p)
        /\ f.p.activeSource = panel.activeSource /\ f.p.attached = panel.attached
        /\ Held(f.p) \subseteq Live \cup {None}
        /\ \A s \in Live : s # None /\ s # panel.activeSource => Mute(f.s[s])
        /\ \A x \in Sources : x = panel.activeSource => f.s[x] = sources[x]
    BY FinishWorld, Zenon
  <2> HIDE DEF f
  <2>2. f.p.activeSource # None /\ f.s[f.p.activeSource].captured => f.p.attached
    <3>1. /\ panel.activeSource \in Sources \cup {None}
          /\ \A x \in Sources : x = panel.activeSource /\ sources[x].captured => panel.attached
      BY InvFacts DEF HasSources
    <3> QED
      BY <2>1, <3>1
  <2>3. \A s \in Live \ {None, f.p.activeSource} : Mute(f.s[s])
    BY <2>1
  <2>4. Waiting' \subseteq Live \cup {None, f.p.activeSource} /\ Held(f.p) \subseteq Live \cup {None, f.p.activeSource}
    BY <2>1
  <2>5. Becomes(f)
    BY <1>2 DEF f
  <2> QED
    BY <2>1, <2>2, <2>3, <2>4, <2>5, Becoming, Zenon
<1> QED
  BY <1>1, <1>2

LEMMA FireTimerInv ==
  ASSUME StageInv, FireTimer
  PROVE  StageInv'
<1>1. PICK t \in BagToSet(timers) : FireHandover(t) \/ FireHandoverIfFrame(t) \/ FireMonitor(t)
  BY DEF FireTimer
<1>2. timers' = timers (-) SetToBag({t}) /\ UNCHANGED started
  BY <1>1 DEF FireHandover, FireHandoverIfFrame, FireMonitor
<1>3. started' \in Seq(Sources) /\ Waiting' \subseteq Live
  BY <1>2, Fired
<1>4. CASE FireHandover(t) \/ FireHandoverIfFrame(t)
  <2>1. Becomes(FinishStageHandover(World)) \/ Becomes(World)
    BY <1>4, Zenon DEF FireHandover, FireHandoverIfFrame
  <2> QED
    BY <1>3, <2>1, Relieves
<1>5. CASE FireMonitor(t)
  <2> DEFINE r == RebuildAudioMonitor(World)
  <2>1. Becomes(r) \/ Becomes(World)
    BY <1>5, Zenon DEF FireMonitor
  <2>2. /\ r.p = panel /\ IsSources(r.s)
        /\ \A x \in Sources : x # panel.activeSource => r.s[x] = sources[x]
        /\ \A x \in Sources : x = panel.activeSource => r.s[x].captured = sources[x].captured
        /\ World.p = panel /\ World.s = sources /\ IsSources(sources)
    BY WorldFacts, InvFacts, Zenon
  <2> HIDE DEF r
  <2>3. CASE Becomes(r)
    BY <1>3, <2>2, <2>3, StayPut
  <2>4. CASE Becomes(World)
    BY <1>3, <2>2, <2>4, StayPut
  <2> QED
    BY <2>1, <2>3, <2>4
<1> QED
  BY <1>1, <1>4, <1>5

-----------------------------------------------------------------------------
(* The steps that take everything off the stage.                           *)

\* After it, all are mute or about to be, and no card has a source unless it was chosen again while it
\* retired.
ClearedPanel(q) ==
    /\ q.activeEntry = None /\ q.activeSource = None /\ q.activeItem = None
    /\ q.retiringItem = None /\ q.retiringSource = None /\ q.stage = <<>>
    /\ ~Reselects => \A e \in Media : q.entrySource[e] = None
    /\ {q.entrySource[e] : e \in Media} \subseteq Live \cup {None}

LEMMA WorldCleared ==
  ASSUME StageInv
  PROVE  LET c == ClearActiveMedia(World, FALSE)
         IN /\ c.p \in Panels /\ IsSources(c.s) /\ Same(panel, c.p) /\ ClearedPanel(c.p)
            /\ \A s \in Live : s # None => Mute(c.s[s])
<1> DEFINE w == World
<1>1. w.p = panel /\ w.s = sources
  BY DEF World
<1> HIDE DEF w
<1>2. /\ w.p \in Panels /\ IsSources(w.s) /\ OnStage(w.p)
      /\ Held(w.p) \subseteq Live /\ w.p.activeSource = panel.activeSource
      /\ \A s \in Live : s # None /\ s # panel.activeSource => Mute(w.s[s])
      /\ \A x \in Sources : x = w.p.activeSource /\ w.s[x].captured => w.p.attached
  BY <1>1, InvFacts
<1>3. ~Reselects => Owned(w.p)
  BY <1>1 DEF StageInv
<1> QED
  BY <1>1, <1>2, <1>3, ClearWorld, Zenon DEF w, ClearedPanel

LEMMA Clears ==
  ASSUME StageInv, NEW w, w.p \in Panels, IsSources(w.s), ClearedPanel(w.p), Becomes(w),
         \A s \in Live : s # None => Mute(w.s[s]), UNCHANGED <<timers, started>>
  PROVE  StageInv'
<1>1. OnStage(w.p) /\ (~Reselects => Owned(w.p))
  BY NoneIsNothing DEF ClearedPanel, OnStage, Owned
<1>2. Held(w.p) \subseteq Live \cup {None, w.p.activeSource}
  BY DEF ClearedPanel, Held
<1>3. started' \in Seq(Sources) /\ Waiting' \subseteq Live
  BY WaitingStays
<1>4. w.p.activeSource = None
  BY DEF ClearedPanel
<1> QED
  BY <1>1, <1>2, <1>3, <1>4, Becoming

LEMMA ProjectBibleVerseInv ==
  ASSUME StageInv, ProjectBibleVerse
  PROVE  StageInv'
<1> DEFINE c == ClearActiveMedia(World, FALSE)
           q == [c.p EXCEPT !.verse = TRUE]
           w == [p |-> q, s |-> c.s]
<1>1. /\ c.p \in Panels /\ IsSources(c.s) /\ ClearedPanel(c.p)
      /\ \A s \in Live : s # None => Mute(c.s[s])
  BY WorldCleared, Zenon
<1>2. Becomes(w) /\ UNCHANGED <<timers, started>>
  BY DEF ProjectBibleVerse
<1> HIDE DEF c
<1>3. q \in Panels /\ ClearedPanel(q)
  BY <1>1 DEF Panels, ClearedPanel
<1> HIDE DEF q
<1>4. w.p = q /\ w.s = c.s
  OBVIOUS
<1> HIDE DEF w
<1> QED
  BY <1>1, <1>2, <1>3, <1>4, Clears

LEMMA RemoveCaptureInv ==
  ASSUME StageInv, NEW d \in Captures, RemoveCapture(d)
  PROVE  StageInv'
<1> DEFINE c == IF panel.activeSource = d THEN ClearActiveMedia(World, FALSE) ELSE World
           q == [c.p EXCEPT !.captures = @ \ {d}]
           w == [p |-> q, s |-> c.s]
<1>1. Becomes(w) /\ UNCHANGED <<timers, started>>
  BY DEF RemoveCapture
<1>2. CASE panel.activeSource = d
  <2>1. /\ c.p \in Panels /\ IsSources(c.s) /\ ClearedPanel(c.p)
        /\ \A s \in Live : s # None => Mute(c.s[s])
    BY <1>2, WorldCleared, Zenon
  <2> HIDE DEF c
  <2>2. q \in Panels /\ ClearedPanel(q)
    BY <2>1 DEF Panels, ClearedPanel
  <2> HIDE DEF q
  <2>3. w.p = q /\ w.s = c.s
    OBVIOUS
  <2> HIDE DEF w
  <2> QED
    BY <1>1, <2>1, <2>2, <2>3, Clears
<1>3. CASE panel.activeSource # d
  <2>1. c.p = panel /\ c.s = sources
    BY <1>3 DEF World
  <2> HIDE DEF c
  <2>2. /\ panel \in Panels /\ IsSources(sources) /\ OnStage(panel) /\ HasSources(panel)
        /\ Held(panel) \subseteq Live
        /\ \A s \in Live : s # None /\ s # panel.activeSource => Mute(sources[s])
        /\ \A x \in Sources : x = panel.activeSource /\ sources[x].captured => panel.attached
    BY InvFacts
  <2>3. /\ q \in Panels /\ q.stage = panel.stage /\ q.activeItem = panel.activeItem
        /\ q.retiringItem = panel.retiringItem /\ q.activeSource = panel.activeSource
        /\ q.retiringSource = panel.retiringSource /\ q.entrySource = panel.entrySource
        /\ q.activeEntry = panel.activeEntry /\ q.attached = panel.attached
    BY <2>1, <2>2 DEF Panels
  <2> HIDE DEF q
  <2>4. w.p = q /\ w.s = sources
    BY <2>1
  <2> HIDE DEF w
  <2>5. OnStage(q)
    BY <2>2, <2>3 DEF OnStage
  <2>6. ~Reselects => Owned(q)
    BY <2>3 DEF StageInv, Owned
  <2>7. Held(q) \subseteq Live \cup {None, q.activeSource}
    BY <2>2, <2>3 DEF Held
  <2>8. started' \in Seq(Sources) /\ Waiting' \subseteq Live
    BY <1>1, WaitingStays
  <2>9. \A s \in Live \ {None, q.activeSource} : Mute(sources[s])
    BY <2>2, <2>3
  <2>10. q.activeSource # None /\ sources[q.activeSource].captured => q.attached
    BY <2>2, <2>3 DEF HasSources
  <2> QED
    BY <1>1, <2>2, <2>3, <2>4, <2>5, <2>6, <2>7, <2>8, <2>9, <2>10, Becoming
<1> QED
  BY <1>2, <1>3

LEMMA RemoveMediaEntryInv ==
  ASSUME StageInv, NEW d \in Media, RemoveMediaEntry(d)
  PROVE  StageInv'
<1> DEFINE r == ReleaseSource(panel, d)
           c == IF panel.activeEntry = d THEN ClearActiveMedia(World, FALSE)
                ELSE [p |-> r, s |-> sources]
           q == [c.p EXCEPT !.library = @ \ {d}]
           w == [p |-> q, s |-> c.s]
<1>1. Becomes(w) /\ UNCHANGED <<timers, started>>
  BY DEF RemoveMediaEntry
<1>2. CASE panel.activeEntry = d
  <2>1. /\ c.p \in Panels /\ IsSources(c.s) /\ ClearedPanel(c.p)
        /\ \A s \in Live : s # None => Mute(c.s[s])
    BY <1>2, WorldCleared, Zenon
  <2> HIDE DEF c
  <2>2. q \in Panels /\ ClearedPanel(q)
    BY <2>1 DEF Panels, ClearedPanel
  <2> HIDE DEF q
  <2>3. w.p = q /\ w.s = c.s
    OBVIOUS
  <2> HIDE DEF w
  <2> QED
    BY <1>1, <2>1, <2>2, <2>3, Clears
<1>3. CASE panel.activeEntry # d
  <2>1. c.p = r /\ c.s = sources
    BY <1>3
  <2>2. r = [panel EXCEPT !.entrySource[d] = None]
    BY <1>3, NoneIsNothing DEF ReleaseSource
  <2> HIDE DEF c, r
  <2>3. /\ panel \in Panels /\ IsSources(sources) /\ OnStage(panel) /\ HasSources(panel)
        /\ Held(panel) \subseteq Live
        /\ \A s \in Live : s # None /\ s # panel.activeSource => Mute(sources[s])
        /\ \A x \in Sources : x = panel.activeSource /\ sources[x].captured => panel.attached
    BY InvFacts
  <2>4. /\ q \in Panels /\ q.stage = panel.stage /\ q.activeItem = panel.activeItem
        /\ q.retiringItem = panel.retiringItem /\ q.activeSource = panel.activeSource
        /\ q.retiringSource = panel.retiringSource
        /\ q.entrySource = [panel.entrySource EXCEPT ![d] = None]
        /\ q.activeEntry = panel.activeEntry /\ q.attached = panel.attached
    <3> DEFINE es == [panel.entrySource EXCEPT ![d] = None]
    <3>1. es \in [Media -> Instances \cup {None}]
      BY <2>3, PanelFacts
    <3>2. r = [panel EXCEPT !.entrySource = es]
      BY <2>2, <2>3 DEF Panels
    <3> HIDE DEF es
    <3>3. /\ q \in Panels /\ q.stage = panel.stage /\ q.activeItem = panel.activeItem
          /\ q.retiringItem = panel.retiringItem /\ q.activeSource = panel.activeSource
          /\ q.retiringSource = panel.retiringSource /\ q.entrySource = es
          /\ q.activeEntry = panel.activeEntry /\ q.attached = panel.attached
      <4> DEFINE u == [panel EXCEPT !.entrySource = es]
      <4>1. /\ u \in Panels /\ u.stage = panel.stage /\ u.activeItem = panel.activeItem
            /\ u.retiringItem = panel.retiringItem /\ u.activeSource = panel.activeSource
            /\ u.retiringSource = panel.retiringSource /\ u.entrySource = es
            /\ u.activeEntry = panel.activeEntry /\ u.attached = panel.attached
        BY <2>3, <3>1 DEF Panels
      <4>2. q = [u EXCEPT !.library = u.library \ {d}]
        BY <2>1, <3>2
      <4> HIDE DEF u, q
      <4> QED
        BY <4>1, <4>2 DEF Panels
    <3> QED
      BY <3>3, Zenon DEF es
  <2> HIDE DEF q
  <2>5. w.p = q /\ w.s = sources
    BY <2>1
  <2> HIDE DEF w
  <2>6. \A e \in Media : q.entrySource[e] = IF e = d THEN None ELSE panel.entrySource[e]
    BY <2>3, <2>4, PanelFacts
  <2>7. OnStage(q)
    BY <2>3, <2>4 DEF OnStage
  <2>8. ~Reselects => Owned(q)
    <3> SUFFICES ASSUME Owned(panel) PROVE Owned(q)
      BY DEF StageInv
    <3>1. \A e \in Media : e = q.activeEntry => e # d
      BY <1>3, <2>4
    <3> QED
      BY <2>4, <2>6, <3>1 DEF Owned
  <2>9. Held(q) \subseteq Live \cup {None, q.activeSource}
    <3>1. \A e \in Media : q.entrySource[e] \in Held(panel) \cup {None}
      BY <2>6 DEF Held
    <3>2. \A k \in DOMAIN q.stage : q.stage[k].source \in Held(panel)
      BY <2>4 DEF Held
    <3>3. q.retiringSource \in Held(panel)
      BY <2>4 DEF Held
    <3> QED
      BY <2>3, <3>1, <3>2, <3>3 DEF Held
  <2>10. started' \in Seq(Sources) /\ Waiting' \subseteq Live
    BY <1>1, WaitingStays
  <2>11. \A s \in Live \ {None, q.activeSource} : Mute(sources[s])
    BY <2>3, <2>4
  <2>12. q.activeSource # None /\ sources[q.activeSource].captured => q.attached
    BY <2>3, <2>4 DEF HasSources
  <2> QED
    BY <1>1, <2>3, <2>4, <2>5, <2>7, <2>8, <2>9, <2>10, <2>11, <2>12, Becoming
<1> QED
  BY <1>2, <1>3

LEMMA ShutdownInv ==
  ASSUME StageInv, Shutdown
  PROVE  StageInv'
<1> DEFINE d == DetachAudio(World)
           c == ClearActiveMedia(d, FALSE)
           b == ClearBible(c.p)
           none == [e \in Media |-> None]
           m1 == [b EXCEPT !.open = FALSE]
           m2 == [m1 EXCEPT !.captures = {}]
           m3 == [m2 EXCEPT !.library = {}]
           m4 == [m3 EXCEPT !.entrySource = none]
           q == [m4 EXCEPT !.stage = <<>>]
           w == [p |-> q, s |-> c.s]
<1>1. Becomes(w) /\ UNCHANGED <<timers, started>>
  <2>1. Becomes([p |-> [b EXCEPT !.open = FALSE, !.captures = {}, !.library = {},
                                 !.entrySource = none, !.stage = <<>>],
                 s |-> c.s])
        /\ UNCHANGED <<timers, started>>
    BY Zenon DEF Shutdown
  <2>2. q = [b EXCEPT !.open = FALSE, !.captures = {}, !.library = {},
                      !.entrySource = none, !.stage = <<>>]
    <3> HIDE DEF b, none
    <3> QED
      OBVIOUS
  <2> HIDE DEF q, b, c, none
  <2> QED
    BY <2>1, <2>2
<1>2. /\ panel \in Panels /\ IsSources(sources) /\ OnStage(panel) /\ HasSources(panel)
      /\ Held(panel) \subseteq Live /\ Live \subseteq Sources \cup {None}
      /\ \A s \in Live : s # None /\ s # panel.activeSource => Mute(sources[s])
      /\ \A x \in Sources : x = panel.activeSource /\ sources[x].captured => panel.attached
  BY InvFacts
<1>3. d.p = [panel EXCEPT !.attached = FALSE]
      /\ d.s = IF panel.attached THEN Capture(sources, panel.activeSource, FALSE) ELSE sources
  BY DEF DetachAudio, World
<1>4. /\ IsSources(d.s)
      /\ \A x \in Sources : x # panel.activeSource => d.s[x] = sources[x]
      /\ \A x \in Sources : x = panel.activeSource => ~d.s[x].captured
  <2> HIDE DEF d
  <2>1. CASE panel.attached
    <3> DEFINE r == Capture(sources, panel.activeSource, FALSE)
    <3>1. /\ IsSources(r)
          /\ \A x \in Sources : r[x] = IF x = panel.activeSource THEN [sources[x] EXCEPT !.captured = FALSE]
                                       ELSE sources[x]
      <4>1. panel.activeSource \in Sources \cup {None} /\ FALSE \in BOOLEAN
        BY <1>2 DEF HasSources
      <4> QED
        BY <1>2, <4>1, CaptureFacts, Zenon
    <3>2. d.s = r
      BY <1>3, <2>1, Zenon
    <3>3. \A x \in Sources : ~[sources[x] EXCEPT !.captured = FALSE].captured
      BY <1>2 DEF IsSources, SourceType
    <3> HIDE DEF r
    <3> QED
      BY <3>1, <3>2, <3>3, Zenon
  <2>2. CASE ~panel.attached
    BY <1>2, <1>3, <2>2, Zenon
  <2> QED
    BY <2>1, <2>2
<1> HIDE DEF d
<1>5. /\ d.p \in Panels /\ d.p.activeSource = panel.activeSource
      /\ d.p.stage = panel.stage /\ d.p.activeItem = panel.activeItem
      /\ d.p.retiringItem = panel.retiringItem
      /\ d.p.retiringSource = panel.retiringSource /\ d.p.entrySource = panel.entrySource
      /\ d.p.activeEntry = panel.activeEntry
  BY <1>2, <1>3 DEF Panels
<1>6. OnStage(d.p) /\ (~Reselects => Owned(d.p)) /\ Held(d.p) \subseteq Live
  <2>1. OnStage(d.p)
    BY <1>2, <1>5 DEF OnStage
  <2>2. ~Reselects => Owned(d.p)
    BY <1>5 DEF StageInv, Owned
  <2>3. Held(d.p) = Held(panel)
    BY <1>5 DEF Held
  <2> QED
    BY <1>2, <2>1, <2>2, <2>3
<1>7. \A s \in Live : s # None /\ s # panel.activeSource => Mute(d.s[s])
  BY <1>2, <1>4
<1>8. /\ c.p \in Panels /\ IsSources(c.s)
      /\ c.p.activeEntry = None /\ c.p.activeSource = None /\ c.p.activeItem = None
      /\ c.p.retiringItem = None /\ c.p.retiringSource = None /\ c.p.stage = <<>>
      /\ \A s \in Live : s # None => Mute(c.s[s])
  <2>1. \A x \in Sources : x = d.p.activeSource /\ d.s[x].captured => d.p.attached
    BY <1>4, <1>5
  <2> QED
    BY <1>4, <1>5, <1>6, <1>7, <2>1, ClearWorld, Zenon
<1> HIDE DEF c
<1>9. /\ b \in Panels /\ b.activeEntry = None /\ b.activeSource = None /\ b.activeItem = None
      /\ b.retiringItem = None /\ b.retiringSource = None
  BY <1>8 DEF Panels, ClearBible
<1>10. none \in [Media -> Instances \cup {None}] /\ \A e \in Media : none[e] = None
  OBVIOUS
<1> HIDE DEF b, none
<1>11. /\ m4 \in Panels /\ m4.activeEntry = None /\ m4.activeSource = None /\ m4.activeItem = None
       /\ m4.retiringItem = None /\ m4.retiringSource = None /\ m4.entrySource = none
  BY <1>9, <1>10 DEF Panels
<1> HIDE DEF m4
<1>12. /\ q \in Panels /\ q.activeEntry = None /\ q.activeSource = None /\ q.activeItem = None
       /\ q.retiringItem = None /\ q.retiringSource = None /\ q.entrySource = none /\ q.stage = <<>>
  <2>1. <<>> \in Seq(Cards)
    OBVIOUS
  <2>2. ASSUME NEW s \in Seq(Cards)
        PROVE  LET u == [m4 EXCEPT !.stage = s]
               IN /\ u \in Panels /\ u.activeEntry = None /\ u.activeSource = None
                  /\ u.activeItem = None /\ u.retiringItem = None /\ u.retiringSource = None
                  /\ u.entrySource = none /\ u.stage = s
    BY <1>11 DEF Panels, Cards
  <2> QED
    BY <2>1, <2>2, Zenon
<1> HIDE DEF q
<1>13. ClearedPanel(q)
  BY <1>10, <1>12 DEF ClearedPanel
<1>14. w.p = q /\ w.s = c.s
  OBVIOUS
<1> HIDE DEF w
<1> QED
  BY <1>1, <1>8, <1>12, <1>13, <1>14, Clears

-----------------------------------------------------------------------------
(* The steps that put something on the stage.                              *)

\* The panel in which the new item is on top of the others.
LEMMA AddCardFacts ==
  ASSUME NEW p \in Panels, OnStage(p), NEW x \in Sources
  PROVE  LET i == FreeItem(p)
             n == Card(i, x)
             b == ClearBible(AddItem(p, i, x))
         IN /\ i # p.activeItem /\ i # p.retiringItem /\ n \in Cards /\ n.item = i /\ n.source = x
            /\ b \in Panels /\ b.attached = p.attached
            /\ b.activeEntry = p.activeEntry /\ b.activeSource = p.activeSource
            /\ b.activeItem = p.activeItem /\ b.retiringItem = p.retiringItem
            /\ b.retiringSource = p.retiringSource /\ b.entrySource = p.entrySource
            /\ OnStageUnder(b, n) /\ Held(b) \subseteq Held(p) \cup {x}
            /\ \A e : OwnedUnder(p, n, e) => OwnedUnder(b, n, e)
<1> DEFINE i == FreeItem(p)
           n == Card(i, x)
           a == AddItem(p, i, x)
           b == ClearBible(a)
<1>1. /\ i \in Items /\ i # p.activeItem /\ i # p.retiringItem
      /\ a \in Panels /\ a.attached = p.attached
      /\ a.activeEntry = p.activeEntry /\ a.activeSource = p.activeSource
      /\ a.activeItem = p.activeItem /\ a.retiringItem = p.retiringItem
      /\ a.retiringSource = p.retiringSource /\ a.entrySource = p.entrySource
      /\ OnStageUnder(a, n)
      /\ \A k \in DOMAIN a.stage : a.stage[k] = n \/ \E j \in DOMAIN p.stage : a.stage[k] = p.stage[j]
  BY AddItemFacts, Zenon
<1>2. n \in Cards /\ n.item = i /\ n.source = x
  BY <1>1, CardFacts
<1> HIDE DEF i, n, a
<1>3. /\ b \in Panels /\ b.attached = a.attached
      /\ b.activeEntry = a.activeEntry /\ b.activeSource = a.activeSource
      /\ b.activeItem = a.activeItem /\ b.retiringItem = a.retiringItem
      /\ b.retiringSource = a.retiringSource /\ b.entrySource = a.entrySource
      /\ b.stage = a.stage
  BY <1>1 DEF Panels, ClearBible
<1> HIDE DEF b
<1>4. OnStageUnder(b, n)
  BY <1>1, <1>3 DEF OnStageUnder
<1>5. Held(b) \subseteq Held(p) \cup {x}
  <2>1. ASSUME NEW k \in DOMAIN b.stage PROVE b.stage[k].source \in Held(p) \cup {x}
    BY <1>1, <1>2, <1>3 DEF Held
  <2>2. \A e \in Media : b.entrySource[e] \in Held(p)
    BY <1>1, <1>3 DEF Held
  <2>3. {b.activeSource, b.retiringSource} \subseteq Held(p)
    BY <1>1, <1>3 DEF Held
  <2> QED
    BY <2>1, <2>2, <2>3 DEF Held
<1>6. ASSUME NEW e, OwnedUnder(p, n, e) PROVE OwnedUnder(b, n, e)
  <2>1. ASSUME NEW k \in DOMAIN b.stage, b.stage[k] # n
        PROVE  b.stage[k].source = IF b.stage[k].item = b.activeItem THEN b.activeSource
                                   ELSE b.retiringSource
    <3>1. PICK j \in DOMAIN p.stage : b.stage[k] = p.stage[j]
      BY <1>1, <1>3, <2>1
    <3> QED
      BY <1>1, <1>3, <1>6, <2>1, <3>1 DEF OwnedUnder
  <2>2. /\ b.activeItem = None => b.activeEntry = None /\ b.activeSource = None
        /\ b.retiringItem = None => b.retiringSource = None
    BY <1>1, <1>3, <1>6 DEF OwnedUnder
  <2>3. \A d \in Media \ {e} :
          IF d = b.activeEntry THEN b.entrySource[d] = b.activeSource /\ b.activeSource # None
          ELSE \/ b.entrySource[d] = None
               \/ b.entrySource[d] = b.retiringSource /\ b.retiringSource # b.activeSource
    BY <1>1, <1>3, <1>6 DEF OwnedUnder
  <2> QED
    BY <2>1, <2>2, <2>3, Zenon DEF OwnedUnder
<1> QED
  BY <1>1, <1>2, <1>3, <1>4, <1>5, <1>6, Zenon DEF i, n, b, a

\* The source that was active is mute when the next one is there.
LEMMA RetireSources ==
  ASSUME NEW w, w.p \in Panels, IsSources(w.s), NEW n \in Cards, OnStageUnder(w.p, n),
         n.item # w.p.activeItem, n.item # w.p.retiringItem,
         \A x \in Sources : x = w.p.activeSource /\ w.s[x].captured => w.p.attached
  PROVE  LET c == ClearActiveMedia(w, TRUE).s
         IN /\ IsSources(c)
            /\ \A x \in Sources : x = w.p.activeSource \/ Mute(w.s[x]) => Mute(c[x])
<1>1. \A k \in DOMAIN w.p.stage : w.p.stage[k].item = w.p.retiringItem => k = 1
  BY RelievedUnder, Zenon
<1>2. /\ FinishStageHandover(w).p.activeSource = w.p.activeSource
      /\ FinishStageHandover(w).p.attached = w.p.attached
  BY <1>1, FinishPanel, Zenon
<1>3. HasSources(w.p) /\ w.p.attached \in BOOLEAN /\ TRUE \in BOOLEAN
  BY PanelFacts
<1> QED
  BY <1>2, <1>3, ClearSources, Zenon

LEMMA ActivateCaptureSourceInv ==
  ASSUME StageInv, NEW d \in Captures, ActivateCaptureSource(d)
  PROVE  StageInv'
<1> DEFINE i == FreeItem(panel)
           n == Card(i, d)
           b == ClearBible(AddItem(panel, i, d))
           w == [p |-> b, s |-> sources]
           c == ClearActiveMedia(w, TRUE)
           q1 == [c.p EXCEPT !.activeSource = d]
           q == [q1 EXCEPT !.activeItem = i]
           v == [p |-> q, s |-> c.s]
<1>1. Becomes(v) /\ timers' = timers (+) Start("handoverIfFrame", d) /\ UNCHANGED started
  <2>1. /\ Becomes([p |-> [c.p EXCEPT !.activeSource = d, !.activeItem = i], s |-> c.s])
        /\ timers' = timers (+) Start("handoverIfFrame", d) /\ UNCHANGED started
    BY Zenon DEF ActivateCaptureSource
  <2>2. q = [c.p EXCEPT !.activeSource = d, !.activeItem = i]
    <3> HIDE DEF c, i
    <3> QED
      OBVIOUS
  <2> HIDE DEF q, c, i
  <2> QED
    BY <2>1, <2>2
<1>2. /\ panel \in Panels /\ IsSources(sources) /\ OnStage(panel) /\ HasSources(panel)
      /\ started \in Seq(Sources) /\ Waiting \subseteq Live
      /\ Held(panel) \subseteq Live /\ Live \subseteq Sources \cup {None}
      /\ \A s \in Live : s # None /\ s # panel.activeSource => Mute(sources[s])
      /\ \A x \in Sources : x = panel.activeSource /\ sources[x].captured => panel.attached
      /\ d \in Sources /\ d \in Live /\ d # None
  BY InvFacts, LiveFacts, NoneIsNothing
<1>3. /\ i # panel.activeItem /\ i # panel.retiringItem /\ n \in Cards /\ n.item = i /\ n.source = d
      /\ b \in Panels /\ b.attached = panel.attached
      /\ b.activeEntry = panel.activeEntry /\ b.activeSource = panel.activeSource
      /\ b.activeItem = panel.activeItem /\ b.retiringItem = panel.retiringItem
      /\ b.retiringSource = panel.retiringSource /\ b.entrySource = panel.entrySource
      /\ OnStageUnder(b, n) /\ Held(b) \subseteq Held(panel) \cup {d}
      /\ \A e : OwnedUnder(panel, n, e) => OwnedUnder(b, n, e)
  BY <1>2, AddCardFacts, Zenon
<1>4. w.p = b /\ w.s = sources
  OBVIOUS
<1> HIDE DEF i, n, b, w
<1>5. /\ w.p \in Panels /\ IsSources(w.s) /\ OnStageUnder(w.p, n)
      /\ n.item # w.p.activeItem /\ n.item # w.p.retiringItem
      /\ \A x \in Sources : x = w.p.activeSource /\ w.s[x].captured => w.p.attached
  BY <1>2, <1>3, <1>4
<1>6. /\ IsSources(c.s)
      /\ \A x \in Sources : x = panel.activeSource \/ Mute(sources[x]) => Mute(c.s[x])
  BY <1>3, <1>4, <1>5, RetireSources, Zenon
<1>7. c.p \in Panels /\ c.p.activeEntry = None
  BY <1>3, <1>5, RetireActive, Zenon
<1>8. /\ q \in Panels /\ q.activeItem = n.item /\ q.activeSource = d /\ q.activeEntry = None
      /\ q.entrySource = c.p.entrySource /\ q.stage = c.p.stage
      /\ q.retiringItem = c.p.retiringItem /\ q.retiringSource = c.p.retiringSource
  <2> HIDE DEF c
  <2>1. i \in Items
    BY <1>3 DEF Cards
  <2>2. ASSUME NEW r \in Panels, r.activeEntry = None
        PROVE  LET u == [r EXCEPT !.activeSource = d]
                   z == [u EXCEPT !.activeItem = i]
               IN /\ z \in Panels /\ z.activeItem = i /\ z.activeSource = d /\ z.activeEntry = None
                  /\ z.entrySource = r.entrySource /\ z.stage = r.stage
                  /\ z.retiringItem = r.retiringItem /\ z.retiringSource = r.retiringSource
    <3> DEFINE u == [r EXCEPT !.activeSource = d]
    <3>1. /\ u \in Panels /\ u.activeSource = d /\ u.activeEntry = None
          /\ u.entrySource = r.entrySource /\ u.stage = r.stage
          /\ u.retiringItem = r.retiringItem /\ u.retiringSource = r.retiringSource
      <4>1. d \in Sources \cup {None}
        BY <1>2
      <4> QED
        BY <2>2, <4>1 DEF Panels
    <3>2. ASSUME NEW y \in Panels
          PROVE  LET z == [y EXCEPT !.activeItem = i]
                 IN /\ z \in Panels /\ z.activeItem = i /\ z.activeSource = y.activeSource
                    /\ z.activeEntry = y.activeEntry
                    /\ z.entrySource = y.entrySource /\ z.stage = y.stage
                    /\ z.retiringItem = y.retiringItem /\ z.retiringSource = y.retiringSource
      BY <2>1 DEF Panels
    <3> HIDE DEF u
    <3> QED
      BY <3>1, <3>2, Zenon DEF u
  <2> QED
    BY <1>3, <1>7, <2>2, Zenon
<1> HIDE DEF q
<1>9. /\ OnStage(q) /\ Held(q) \subseteq Held(w.p) \cup {None, q.activeSource}
      /\ /\ OwnedUnder(w.p, n, q.activeEntry) /\ n.source = q.activeSource
         /\ q.activeEntry \in Media =>
              q.entrySource[q.activeEntry] = q.activeSource /\ q.activeSource # None
         /\ w.p.activeEntry # None /\ w.p.activeEntry # q.activeEntry =>
              q.activeSource # w.p.activeSource
         => Owned(q)
  <2> DEFINE cp == c.p
  <2>1. cp = ClearActiveMedia(w, TRUE).p
    OBVIOUS
  <2> HIDE DEF cp
  <2>2. q.entrySource = cp.entrySource /\ q.stage = cp.stage
        /\ q.retiringItem = cp.retiringItem /\ q.retiringSource = cp.retiringSource
    BY <1>8 DEF cp
  <2> HIDE DEF c
  <2> QED
    BY <1>3, <1>5, <1>8, <2>1, <2>2, Succeeds
<1> HIDE DEF c
<1>10. ~Reselects => Owned(q)
  <2> SUFFICES ASSUME Owned(panel) PROVE Owned(q)
    BY DEF StageInv
  <2>1. OwnedUnder(w.p, n, q.activeEntry)
    <3>1. OwnedUnder(panel, n, None)
      BY NoneIsNothing DEF Owned, OwnedUnder
    <3> QED
      BY <1>3, <1>4, <1>8, <3>1
  <2>2. panel.activeEntry # None => d # panel.activeSource
    <3> HAVE panel.activeEntry # None
    <3>1. panel.activeEntry \in Media /\ panel.entrySource \in [Media -> Instances \cup {None}]
      BY <1>2, PanelFacts
    <3>2. panel.activeSource \in Instances
      BY <3>1 DEF Owned
    <3> QED
      BY <3>2, NoneIsNothing
  <2> QED
    BY <1>3, <1>4, <1>8, <1>9, <2>1, <2>2, NoneIsNothing
<1>11. \A s \in Live \ {None, q.activeSource} : Mute(c.s[s])
  BY <1>2, <1>6
<1>12. ~c.s[q.activeSource].captured
  <2>1. Mute(c.s[d])
    BY <1>2, <1>6
  <2> QED
    BY <1>8, <2>1 DEF Mute
<1>13. Held(q) \subseteq Live \cup {None, q.activeSource}
  BY <1>2, <1>3, <1>4, <1>9
<1>14. started' \in Seq(Sources) /\ Waiting' \subseteq Live
  <2>1. \A t \in BagToSet(timers') : t.target \in Live
    BY <1>1, <1>2, TimerFacts DEF Waiting
  <2> QED
    BY <1>1, <1>2, <2>1 DEF Waiting
<1>15. v.p = q /\ v.s = c.s
  OBVIOUS
<1> HIDE DEF v
<1> QED
  BY <1>1, <1>6, <1>8, <1>9, <1>10, <1>11, <1>12, <1>13, <1>14, <1>15, Becoming

\* The card e has a source: the one it had, or one that nobody refers to yet.
LEMMA EnsureFacts ==
  ASSUME StageInv, NEW e \in Media, panel.entrySource[e] = None => Instances \ Live # {}
  PROVE  LET m == EnsureSource(World, e)
             p == m.p
             x == p.entrySource[e]
         IN /\ p \in Panels /\ p.attached = panel.attached
            /\ p.activeEntry = panel.activeEntry /\ p.activeSource = panel.activeSource
            /\ p.activeItem = panel.activeItem /\ p.retiringItem = panel.retiringItem
            /\ p.retiringSource = panel.retiringSource /\ p.stage = panel.stage
            /\ x \in Instances /\ \A d \in Media \ {e} : p.entrySource[d] = panel.entrySource[d]
            /\ \/ panel.entrySource[e] = x
               \/ panel.entrySource[e] = None /\ x \notin Live
            /\ IsSources(m.s) /\ \A s \in Sources \cap Live : m.s[s] = sources[s]
<1> DEFINE m == EnsureSource(World, e)
<1>1. panel \in Panels /\ IsSources(sources) /\ panel.entrySource \in [Media -> Instances \cup {None}]
  BY InvFacts, PanelFacts
<1>2. World.p = panel /\ World.s = sources
  BY DEF World
<1>3. CASE panel.entrySource[e] # None
  <2>1. m.p = panel /\ m.s = sources
    BY <1>2, <1>3 DEF EnsureSource
  <2> HIDE DEF m
  <2>2. panel.entrySource[e] \in Instances
    BY <1>1, <1>3
  <2>3. \A s \in Sources \cap Live : m.s[s] = sources[s]
    BY <2>1
  <2>4. /\ m.p \in Panels /\ m.p.attached = panel.attached
        /\ m.p.activeEntry = panel.activeEntry /\ m.p.activeSource = panel.activeSource
        /\ m.p.activeItem = panel.activeItem /\ m.p.retiringItem = panel.retiringItem
        /\ m.p.retiringSource = panel.retiringSource /\ m.p.stage = panel.stage
        /\ m.p.entrySource[e] \in Instances
        /\ \A d \in Media \ {e} : m.p.entrySource[d] = panel.entrySource[d]
        /\ \/ panel.entrySource[e] = m.p.entrySource[e]
           \/ panel.entrySource[e] = None /\ m.p.entrySource[e] \notin Live
        /\ IsSources(m.s)
    BY <1>1, <2>1, <2>2
  <2> QED
    BY <2>3, <2>4, Zenon DEF m
<1>4. CASE panel.entrySource[e] = None
  <2> DEFINE new == CHOOSE s \in Instances : s \notin Live
             x == Created(e)
             es == [panel.entrySource EXCEPT ![e] = new]
             q == [panel EXCEPT !.entrySource = es]
             r == [sources EXCEPT ![new] = x]
  <2>1. new \in Instances /\ new \notin Live
    <3>1. \E s \in Instances : s \notin Live
      BY <1>4
    <3> QED
      BY <3>1, Zenon
  <2>2. m = [p |-> [panel EXCEPT !.entrySource[e] = new], s |-> r]
    <3> HIDE DEF x
    <3> QED
      BY <1>2, <1>4, Zenon DEF EnsureSource, x
  <2> HIDE DEF new
  <2>3. q = [panel EXCEPT !.entrySource[e] = new]
    BY <1>1 DEF Panels
  <2>4. es \in [Media -> Instances \cup {None}] /\ es[e] = new
        /\ \A d \in Media \ {e} : es[d] = panel.entrySource[d]
    BY <1>1, <2>1
  <2> HIDE DEF es
  <2>5. /\ q \in Panels /\ q.attached = panel.attached
        /\ q.activeEntry = panel.activeEntry /\ q.activeSource = panel.activeSource
        /\ q.activeItem = panel.activeItem /\ q.retiringItem = panel.retiringItem
        /\ q.retiringSource = panel.retiringSource /\ q.stage = panel.stage
        /\ q.entrySource = es
    BY <1>1, <2>4 DEF Panels
  <2>6. x \in SourceType /\ Still(x)
    BY UnusedIsSource
  <2> HIDE DEF x, q
  <2>7. IsSources(r) /\ \A s \in Sources \cap Live : r[s] = sources[s]
    <3>1. r \in [Sources -> SourceType] /\ \A s \in Sources : r[s] = IF s = new THEN x ELSE sources[s]
      BY <1>1, <2>1, <2>6, NoneIsNothing DEF IsSources
    <3> HIDE DEF r
    <3> QED
      BY <1>1, <2>1, <2>6, <3>1 DEF IsSources
  <2> HIDE DEF r
  <2>8. m.p = q /\ m.s = r
    BY <2>2, <2>3
  <2> HIDE DEF m
  <2>9. m.p.entrySource[e] = new /\ \A d \in Media \ {e} : m.p.entrySource[d] = panel.entrySource[d]
    BY <2>4, <2>5, <2>8
  <2> QED
    BY <1>4, <2>1, <2>5, <2>7, <2>8, <2>9, Zenon DEF m
<1> QED
  BY <1>3, <1>4

\* What is done to one source leaves the others alone.
LEMMA OthersSame ==
  ASSUME NEW s, IsSources(s), NEW a \in Sources \cup {None}
  PROVE  /\ IsSources(Monitor(s, a, TRUE)) /\ \A x \in Sources : x # a => Monitor(s, a, TRUE)[x] = s[x]
         /\ IsSources(Capture(s, a, TRUE)) /\ \A x \in Sources : x # a => Capture(s, a, TRUE)[x] = s[x]
         /\ IsSources(Listen(s, a, TRUE)) /\ \A x \in Sources : x # a => Listen(s, a, TRUE)[x] = s[x]
         /\ IsSources(Command(s, a, "restart"))
         /\ \A x \in Sources : x # a => Command(s, a, "restart")[x] = s[x]
<1>1. TRUE \in BOOLEAN /\ "restart" \in Commands
  BY DEF Commands
<1>2. IsSources(Monitor(s, a, TRUE)) /\ \A x \in Sources : x # a => Monitor(s, a, TRUE)[x] = s[x]
  <2>1. /\ IsSources(Monitor(s, a, TRUE))
        /\ \A x \in Sources : Monitor(s, a, TRUE)[x] =
             IF x = a THEN [s[x] EXCEPT !.monitored = TRUE] ELSE s[x]
    BY <1>1, MonitorFacts, Zenon
  <2> QED
    BY <2>1
<1>3. IsSources(Capture(s, a, TRUE)) /\ \A x \in Sources : x # a => Capture(s, a, TRUE)[x] = s[x]
  <2>1. /\ IsSources(Capture(s, a, TRUE))
        /\ \A x \in Sources : Capture(s, a, TRUE)[x] =
             IF x = a THEN [s[x] EXCEPT !.captured = TRUE] ELSE s[x]
    BY <1>1, CaptureFacts, Zenon
  <2> QED
    BY <2>1
<1>4. IsSources(Listen(s, a, TRUE)) /\ \A x \in Sources : x # a => Listen(s, a, TRUE)[x] = s[x]
  <2>1. /\ IsSources(Listen(s, a, TRUE))
        /\ \A x \in Sources : Listen(s, a, TRUE)[x] =
             IF x = a THEN [s[x] EXCEPT !.connected = TRUE] ELSE s[x]
    BY <1>1, ListenFacts, Zenon
  <2> QED
    BY <2>1
<1>5. /\ IsSources(Command(s, a, "restart"))
      /\ \A x \in Sources : x # a => Command(s, a, "restart")[x] = s[x]
  <2>1. /\ IsSources(Command(s, a, "restart"))
        /\ \A x \in Sources : Command(s, a, "restart")[x] =
             IF x = a /\ s[x].of \in Played
             THEN [s[x] EXCEPT !.todo = Append(s[x].todo, "restart")] ELSE s[x]
    BY <1>1, CommandFacts, Zenon
  <2> QED
    BY <2>1
<1> QED
  BY <1>2, <1>3, <1>4, <1>5

\* What ActivateMedia() does at last, when a is the source of the active card.
Heard(p, s, a) ==
    LET h == AttachAudio([p |-> p, s |-> Monitor(s, a, TRUE)])
    IN RebuildAudioMonitor([p |-> h.p, s |-> Command(Listen(h.s, a, TRUE), a, "restart")])

\* The new card is heard, if it has a source; the sources of the others are left alone.
IsHeard(p, s, a, r) ==
    /\ r.p \in Panels /\ r.p.activeSource = a /\ (a # None => r.p.attached)
    /\ r.p.activeEntry = p.activeEntry
    /\ r.p.activeItem = p.activeItem /\ r.p.retiringItem = p.retiringItem
    /\ r.p.retiringSource = p.retiringSource /\ r.p.stage = p.stage
    /\ r.p.entrySource = p.entrySource
    /\ IsSources(r.s) /\ \A x \in Sources : x # a => r.s[x] = s[x]

LEMMA HeardFacts ==
  ASSUME NEW p \in Panels, NEW s, IsSources(s), ~p.attached,
         NEW a \in Sources \cup {None}, p.activeSource = a
  PROVE  IsHeard(p, s, a, Heard(p, s, a))
<1> DEFINE s1 == Monitor(s, a, TRUE)
           h == AttachAudio([p |-> p, s |-> s1])
           hs == h.s
           s2 == Listen(hs, a, TRUE)
           s3 == Command(s2, a, "restart")
           s4 == Monitor(s3, a, TRUE)
           r == RebuildAudioMonitor([p |-> h.p, s |-> s3])
           q == [p EXCEPT !.attached = TRUE]
<1>2. IsSources(s1) /\ \A x \in Sources : x # a => s1[x] = s[x]
  BY OthersSame, Zenon
<1> HIDE DEF s1
<1>3. h = IF a = None THEN [p |-> p, s |-> s1] ELSE [p |-> q, s |-> Capture(s1, a, TRUE)]
  <2>1. [p |-> p, s |-> s1].p = p /\ [p |-> p, s |-> s1].s = s1
    OBVIOUS
  <2> QED
    BY <2>1, Zenon DEF AttachAudio
<1>4. hs = IF a = None THEN s1 ELSE Capture(s1, a, TRUE)
  <2>1. [p |-> p, s |-> s1].s = s1 /\ [p |-> q, s |-> Capture(s1, a, TRUE)].s = Capture(s1, a, TRUE)
    OBVIOUS
  <2> HIDE DEF h, q
  <2> QED
    BY <1>3, <2>1, Zenon
<1>5. h.p = IF a = None THEN p ELSE q
  <2> HIDE DEF q
  <2> QED
    BY <1>3
<1>6. /\ h.p \in Panels /\ h.p.activeSource = a /\ (a # None => h.p.attached)
      /\ h.p.activeEntry = p.activeEntry
      /\ h.p.activeItem = p.activeItem /\ h.p.retiringItem = p.retiringItem
      /\ h.p.retiringSource = p.retiringSource /\ h.p.stage = p.stage
      /\ h.p.entrySource = p.entrySource
  <2>1. /\ q \in Panels /\ q.activeSource = a /\ q.attached
        /\ q.activeEntry = p.activeEntry
        /\ q.activeItem = p.activeItem /\ q.retiringItem = p.retiringItem
        /\ q.retiringSource = p.retiringSource /\ q.stage = p.stage
        /\ q.entrySource = p.entrySource
    BY DEF Panels
  <2> HIDE DEF h, q
  <2> QED
    BY <1>5, <2>1, Zenon
<1>7. IsSources(hs) /\ \A x \in Sources : x # a => hs[x] = s1[x]
  <2> HIDE DEF hs
  <2>1. CASE a = None
    BY <1>2, <1>4, <2>1
  <2>2. CASE a # None
    <3>1. hs = Capture(s1, a, TRUE)
      BY <1>4, <2>2, Zenon
    <3>2. IsSources(Capture(s1, a, TRUE)) /\ \A x \in Sources : x # a => Capture(s1, a, TRUE)[x] = s1[x]
      BY <1>2, OthersSame, Zenon
    <3> QED
      BY <3>1, <3>2, Zenon
  <2> QED
    BY <2>1, <2>2
<1>8. r.p = h.p /\ r.s = s4
  <2> HIDE DEF s3, h
  <2>1. [p |-> h.p, s |-> s3].p = h.p /\ [p |-> h.p, s |-> s3].s = s3
    OBVIOUS
  <2>2. r = [p |-> h.p, s |-> s4]
    BY <1>6, <2>1, Zenon DEF RebuildAudioMonitor
  <2> HIDE DEF s4, r
  <2> QED
    BY <2>2
<1> HIDE DEF hs
<1>9. IsSources(s2) /\ \A x \in Sources : x # a => s2[x] = hs[x]
  BY <1>7, OthersSame, Zenon
<1> HIDE DEF s2
<1>10. IsSources(s3) /\ \A x \in Sources : x # a => s3[x] = s2[x]
  BY <1>9, OthersSame, Zenon
<1> HIDE DEF s3
<1>11. IsSources(s4) /\ \A x \in Sources : x # a => s4[x] = s3[x]
  BY <1>10, OthersSame, Zenon
<1> HIDE DEF s4, r, h
<1>12. \A x \in Sources : x # a => r.s[x] = s[x]
  BY <1>2, <1>7, <1>8, <1>9, <1>10, <1>11
<1> QED
  <2>1. IsHeard(p, s, a, r)
    BY <1>6, <1>8, <1>11, <1>12, Zenon DEF IsHeard
  <2> QED
    BY <2>1, Zenon DEF r, h, s1, s3, s2, hs, Heard

LEMMA ActivateMediaInv ==
  ASSUME StageInv, NEW e \in Media, ActivateMedia(e)
  PROVE  StageInv'
<1> DEFINE m == EnsureSource(World, e)
           x == m.p.entrySource[e]
           i == FreeItem(m.p)
           n == Card(i, x)
           b == ClearBible(AddItem(m.p, i, x))
           w == [p |-> b, s |-> m.s]
           c == ClearActiveMedia(w, TRUE)
           cp == c.p
           cs == c.s
           a == cp.entrySource[e]
           q1 == [cp EXCEPT !.activeEntry = e]
           q2 == [q1 EXCEPT !.activeSource = a]
           q == [q2 EXCEPT !.activeItem = i]
           r == Heard(q, cs, a)
<1>1. /\ Becomes(r) /\ UNCHANGED started
      /\ timers' = timers (+) Start(HandoverTimer(e), a) (+) Start("monitor", a)
      /\ panel.entrySource[e] = None => Instances \ Live # {}
      /\ \/ Reselects \/ e = panel.activeEntry
         \/ panel.entrySource[e] = None \/ panel.entrySource[e] # panel.retiringSource
  <2> DEFINE u == [cp EXCEPT !.activeEntry = e, !.activeSource = a, !.activeItem = i]
  <2>1. /\ Becomes(Heard(u, cs, a)) /\ UNCHANGED started
        /\ timers' = timers (+) Start(HandoverTimer(e), a) (+) Start("monitor", a)
        /\ panel.entrySource[e] = None => Instances \ Live # {}
        /\ \/ Reselects \/ e = panel.activeEntry
           \/ panel.entrySource[e] = None \/ panel.entrySource[e] # panel.retiringSource
    BY Zenon DEF ActivateMedia, Heard
  <2>2. u = q
    <3> HIDE DEF cp, a, i
    <3> QED
      OBVIOUS
  <2> HIDE DEF u, q, cp, cs, a, i
  <2> QED
    BY <2>1, <2>2, Zenon
<1>2. /\ panel \in Panels /\ IsSources(sources) /\ OnStage(panel) /\ HasSources(panel)
      /\ started \in Seq(Sources) /\ Waiting \subseteq Live
      /\ Held(panel) \subseteq Live /\ Live \subseteq Sources \cup {None}
      /\ \A s \in Live : s # None /\ s # panel.activeSource => Mute(sources[s])
      /\ \A y \in Sources : y = panel.activeSource /\ sources[y].captured => panel.attached
  BY InvFacts
<1>3. /\ m.p \in Panels /\ m.p.attached = panel.attached
      /\ m.p.activeEntry = panel.activeEntry /\ m.p.activeSource = panel.activeSource
      /\ m.p.activeItem = panel.activeItem /\ m.p.retiringItem = panel.retiringItem
      /\ m.p.retiringSource = panel.retiringSource /\ m.p.stage = panel.stage
      /\ x \in Instances /\ \A d \in Media \ {e} : m.p.entrySource[d] = panel.entrySource[d]
      /\ \/ panel.entrySource[e] = x
         \/ panel.entrySource[e] = None /\ x \notin Live
      /\ IsSources(m.s) /\ \A s \in Sources \cap Live : m.s[s] = sources[s]
  BY <1>1, EnsureFacts, Zenon
<1> HIDE DEF m
<1>4. OnStage(m.p) /\ x \in Sources /\ x # None /\ Held(m.p) \subseteq Live \cup {x}
  <2>1. OnStage(m.p)
    BY <1>2, <1>3 DEF OnStage
  <2>2. \A d \in Media : m.p.entrySource[d] \in Held(panel) \cup {x}
    BY <1>3 DEF Held
  <2>3. /\ {m.p.activeSource, m.p.retiringSource} \subseteq Held(panel)
        /\ \A k \in DOMAIN m.p.stage : m.p.stage[k].source \in Held(panel)
    BY <1>3 DEF Held
  <2>4. Held(m.p) \subseteq Held(panel) \cup {x}
    BY <2>2, <2>3 DEF Held
  <2> QED
    BY <1>2, <1>3, <2>1, <2>4, NoneIsNothing
<1>5. /\ i # m.p.activeItem /\ i # m.p.retiringItem /\ n \in Cards /\ n.item = i /\ n.source = x
      /\ b \in Panels /\ b.attached = m.p.attached
      /\ b.activeEntry = m.p.activeEntry /\ b.activeSource = m.p.activeSource
      /\ b.activeItem = m.p.activeItem /\ b.retiringItem = m.p.retiringItem
      /\ b.retiringSource = m.p.retiringSource /\ b.entrySource = m.p.entrySource
      /\ OnStageUnder(b, n) /\ Held(b) \subseteq Held(m.p) \cup {x}
      /\ \A d : OwnedUnder(m.p, n, d) => OwnedUnder(b, n, d)
  BY <1>3, <1>4, AddCardFacts, Zenon
<1>6. w.p = b /\ w.s = m.s /\ i \in Items
  BY <1>5 DEF Cards
<1> HIDE DEF i, n, b, w
<1>7. /\ w.p \in Panels /\ IsSources(w.s) /\ OnStageUnder(w.p, n)
      /\ n.item # w.p.activeItem /\ n.item # w.p.retiringItem
      /\ \A y \in Sources : y = w.p.activeSource /\ w.s[y].captured => w.p.attached
  <2>1. w.p.activeSource = panel.activeSource /\ panel.activeSource \in Live /\ w.p.attached = panel.attached
    BY <1>2, <1>3, <1>5, <1>6 DEF Held
  <2>2. \A y \in Sources : y = panel.activeSource => m.s[y] = sources[y]
    BY <1>3, <2>1
  <2> QED
    BY <1>2, <1>3, <1>5, <1>6, <2>1, <2>2
<1>8. /\ IsSources(cs)
      /\ \A y \in Sources : y = w.p.activeSource \/ Mute(w.s[y]) => Mute(cs[y])
  BY <1>5, <1>7, RetireSources, Zenon
<1>9. /\ cp \in Panels /\ cp.attached = FALSE
      /\ \A d \in Media : cp.entrySource[d] = IF Kept(w.p, d) THEN w.p.entrySource[d] ELSE None
  BY <1>5, <1>7, RetireActive, Zenon
<1>10. cp = ClearActiveMedia(w, TRUE).p
  OBVIOUS
<1> HIDE DEF c, cp, cs
<1>11. a = IF Kept(b, e) THEN x ELSE None
  BY <1>5, <1>6, <1>9
<1>12. a \in Sources \cup {None}
  BY <1>4, <1>11
<1> HIDE DEF a
<1>13. x \notin Live => a = x
  <2>1. panel.retiringSource \in Live
    BY <1>2 DEF Held
  <2> QED
    BY <1>3, <1>5, <1>11, <2>1 DEF Kept
<1>14. /\ q \in Panels /\ ~q.attached /\ q.activeEntry = e /\ q.activeSource = a /\ q.activeItem = i
       /\ q.entrySource = cp.entrySource /\ q.stage = cp.stage
       /\ q.retiringItem = cp.retiringItem /\ q.retiringSource = cp.retiringSource
  <2>1. ASSUME NEW p \in Panels, p.attached = FALSE
        PROVE  LET p1 == [p EXCEPT !.activeEntry = e]
                   p2 == [p1 EXCEPT !.activeSource = a]
                   p3 == [p2 EXCEPT !.activeItem = i]
               IN /\ p3 \in Panels /\ ~p3.attached /\ p3.activeEntry = e /\ p3.activeSource = a
                  /\ p3.activeItem = i /\ p3.entrySource = p.entrySource /\ p3.stage = p.stage
                  /\ p3.retiringItem = p.retiringItem /\ p3.retiringSource = p.retiringSource
    BY <1>6, <1>12, <2>1 DEF Panels
  <2> QED
    BY <1>9, <2>1, Zenon
<1> HIDE DEF q
<1>15. /\ r.p \in Panels /\ r.p.activeSource = a /\ (a # None => r.p.attached)
       /\ r.p.activeEntry = q.activeEntry
       /\ r.p.activeItem = q.activeItem /\ r.p.retiringItem = q.retiringItem
       /\ r.p.retiringSource = q.retiringSource /\ r.p.stage = q.stage
       /\ r.p.entrySource = q.entrySource
       /\ IsSources(r.s) /\ \A y \in Sources : y # a => r.s[y] = cs[y]
  <2>1. /\ q \in Panels /\ IsSources(cs) /\ ~q.attached
        /\ a \in Sources \cup {None} /\ q.activeSource = a
    BY <1>8, <1>12, <1>14, Zenon
  <2> HIDE DEF r
  <2>2. r = Heard(q, cs, a)
    BY DEF r
  <2>3. IsHeard(q, cs, a, r)
    BY <2>1, <2>2, HeardFacts, Zenon
  <2> QED
    BY <2>3, Zenon DEF IsHeard
<1> HIDE DEF r
<1> DEFINE p == r.p
<1>16. /\ p \in Panels /\ p.activeSource = a /\ p.activeEntry = e /\ p.activeItem = n.item
       /\ p.entrySource = cp.entrySource /\ p.stage = cp.stage
       /\ p.retiringItem = cp.retiringItem /\ p.retiringSource = cp.retiringSource
  BY <1>5, <1>14, <1>15, Zenon
<1> HIDE DEF p
<1>17. /\ OnStage(p) /\ Held(p) \subseteq Held(w.p) \cup {None, p.activeSource}
       /\ /\ OwnedUnder(w.p, n, p.activeEntry) /\ n.source = p.activeSource
          /\ p.activeEntry \in Media =>
               p.entrySource[p.activeEntry] = p.activeSource /\ p.activeSource # None
          /\ w.p.activeEntry # None /\ w.p.activeEntry # p.activeEntry =>
               p.activeSource # w.p.activeSource
          => Owned(p)
  BY <1>5, <1>7, <1>10, <1>16, Succeeds
<1>18. ~Reselects => Owned(p)
  <2> SUFFICES ASSUME ~Reselects, Owned(panel) PROVE Owned(p)
    BY DEF StageInv
  <2>1. a = x
    BY <1>1, <1>3, <1>5, <1>11, <1>13 DEF Kept
  <2>2. OwnedUnder(w.p, n, e)
    <3>1. OwnedUnder(m.p, n, e)
      BY <1>3 DEF Owned, OwnedUnder
    <3> QED
      BY <1>5, <1>6, <3>1
  <2>3. panel.activeEntry # e => a # panel.activeSource
    <3> HAVE panel.activeEntry # e
    <3>1. panel.entrySource[e] = None
      BY <1>1 DEF Owned
    <3>2. x \notin Live /\ panel.activeSource \in Live
      BY <1>2, <1>3, <1>4, <3>1 DEF Held
    <3> QED
      BY <2>1, <3>2
  <2>4. p.entrySource[e] = a
    BY <1>16 DEF a
  <2>5. OwnedUnder(w.p, n, p.activeEntry) /\ n.source = p.activeSource
    BY <1>5, <1>16, <2>1, <2>2
  <2>6. p.entrySource[p.activeEntry] = p.activeSource /\ p.activeSource # None
    BY <1>4, <1>16, <2>1, <2>4
  <2>7. w.p.activeEntry # None /\ w.p.activeEntry # p.activeEntry => p.activeSource # w.p.activeSource
    BY <1>3, <1>5, <1>6, <1>16, <2>3
  <2> QED
    BY <1>17, <2>5, <2>6, <2>7, Zenon
<1>19. Held(p) \subseteq Live \cup {None, a}
  BY <1>4, <1>5, <1>6, <1>13, <1>16, <1>17
<1>20. \A s \in Live \ {None, a} : Mute(r.s[s])
  <2>1. ASSUME NEW s \in Live \ {None, a} PROVE Mute(r.s[s])
    <3>1. s \in Sources /\ r.s[s] = cs[s]
      BY <1>2, <1>15
    <3>2. s = w.p.activeSource \/ Mute(w.s[s])
      BY <1>2, <1>3, <1>5, <1>6, <2>1, <3>1
    <3> QED
      BY <1>8, <3>1, <3>2
  <2> QED
    BY <2>1
<1>21. started' \in Seq(Sources) /\ Waiting' \subseteq Live \cup {None, a}
  <2>1. \A t \in BagToSet(timers') : t.target \in Live \cup {None, a}
    <3>1. BagToSet(timers') = BagToSet(timers) \cup {Timer(HandoverTimer(e), a), Timer("monitor", a)}
      <4> DEFINE B == timers (+) Start(HandoverTimer(e), a)
      <4>1. BagToSet(B) = BagToSet(timers) \cup {Timer(HandoverTimer(e), a)}
        BY TimerFacts, Zenon
      <4>2. timers' = B (+) Start("monitor", a)
        BY <1>1
      <4> HIDE DEF B
      <4>3. BagToSet(B (+) Start("monitor", a)) = BagToSet(B) \cup {Timer("monitor", a)}
        BY TimerFacts
      <4> QED
        BY <4>1, <4>2, <4>3
    <3>2. \A t \in BagToSet(timers) : t.target \in Live
      BY InvFacts
    <3> QED
      BY <3>1, <3>2, TimerFacts
  <2> QED
    BY <1>1, <1>2, <2>1 DEF Waiting
<1> QED
  <2>1. /\ r.p \in Panels /\ IsSources(r.s) /\ Becomes(r) /\ started' \in Seq(Sources)
        /\ Waiting' \subseteq Live \cup {None, r.p.activeSource}
        /\ Held(r.p) \subseteq Live \cup {None, r.p.activeSource}
        /\ \A s \in Live \ {None, r.p.activeSource} : Mute(r.s[s])
        /\ r.p.activeSource # None /\ r.s[r.p.activeSource].captured => r.p.attached
        /\ OnStage(r.p) /\ (~Reselects => Owned(r.p))
    BY <1>1, <1>15, <1>17, <1>18, <1>19, <1>20, <1>21 DEF p
  <2> QED
    BY <2>1, Becoming

-----------------------------------------------------------------------------
(* The theorems.                                                           *)

LEMMA NextInv == StageInv /\ [Next]_vars => StageInv'
<1> SUFFICES ASSUME StageInv, [Next]_vars PROVE StageInv'
  OBVIOUS
<1>1. ASSUME NEW e \in Media, ActivateMedia(e) PROVE StageInv'
  BY <1>1, ActivateMediaInv
<1>2. ASSUME NEW e \in Media, RemoveMediaEntry(e) PROVE StageInv'
  BY <1>2, RemoveMediaEntryInv
<1>3. ASSUME NEW c \in Captures, ActivateCaptureSource(c) PROVE StageInv'
  BY <1>3, ActivateCaptureSourceInv
<1>4. ASSUME NEW c \in Captures, RemoveCapture(c) PROVE StageInv'
  BY <1>4, RemoveCaptureInv
<1>5. CASE ProjectBibleVerse
  BY <1>5, ProjectBibleVerseInv
<1>6. CASE TogglePlayPause
  BY <1>6, TogglePlayPauseInv
<1>7. CASE StopMedia
  BY <1>7, StopMediaInv
<1>8. CASE ChangeAudioDevice
  BY <1>8, ChangeAudioDeviceInv
<1>9. CASE Shutdown
  BY <1>9, ShutdownInv
<1>10. CASE FireTimer
  BY <1>10, FireTimerInv
<1>11. CASE HandleStarted
  BY <1>11, HandleStartedInv
<1>12. ASSUME NEW s \in Sources, CarryOut(s) \/ FirstFrame(s) \/ MediaEnded(s) PROVE StageInv'
  BY <1>12, CarryOutInv, FirstFrameInv, MediaEndedInv
<1>13. CASE UNCHANGED vars
  <2>1. panel' = panel /\ sources' = sources /\ timers' = timers /\ started' = started
    BY <1>13 DEF vars
  <2>2. Live' = Live
    BY <2>1 DEF Live
  <2> QED
    BY <2>1, <2>2 DEF StageInv, Typed, Quiet, Attached
<1> QED
  BY <1>1, <1>2, <1>3, <1>4, <1>5, <1>6, <1>7, <1>8, <1>9, <1>10, <1>11, <1>12, <1>13
     DEF Next, User

LEMMA Inductive == Spec => []StageInv
BY InitInv, NextInv, PTL DEF Spec

\* Whatever timers and news of earlier cards are still to come, no source but the active one
\* is on the monitor, copied into the transmission or listened to, and one that still plays has
\* a pause or a stop as the last of its commands: ClearActiveMedia() and FinishStageHandover()
\* leave none behind that plays on, whatever the user does, even when a card is chosen again.
THEOREM NoneIsLeftPlaying == Spec => []OthersFallSilent
<1>1. StageInv => OthersFallSilent
  BY DEF StageInv, Quiet, Mute, OthersFallSilent
<1> QED
  BY <1>1, Inductive, PTL

\* When no hand-over is under way, the active source is alone on the stage and no card but the
\* active one holds on to a decoder, whenever the last hand-over ended and however often it was
\* cut short; this takes that no card is chosen again while it is retiring, which
\* ActivateMedia() itself does not rule out.
THEOREM OneSourceRemains == ~Reselects => (Spec => []OneSourceAfterHandover)
<1> SUFFICES ASSUME ~Reselects PROVE Spec => []OneSourceAfterHandover
  OBVIOUS
<1>1. StageInv => OneSourceAfterHandover
  <2> SUFFICES ASSUME StageInv, panel.retiringItem = None
               PROVE  /\ panel.stage = IF panel.activeItem = None THEN <<>>
                                       ELSE <<Card(panel.activeItem, panel.activeSource)>>
                      /\ \A e \in Media : panel.entrySource[e] =
                           IF e = panel.activeEntry THEN panel.activeSource ELSE None
    BY DEF OneSourceAfterHandover, Card
  <2>1. Owned(panel) /\ OnStage(panel)
    BY DEF StageInv
  <2>2. \A e \in Media : panel.entrySource[e] =
          IF e = panel.activeEntry THEN panel.activeSource ELSE None
    BY <2>1 DEF Owned
  <2>3. CASE panel.activeItem = None
    BY <2>1, <2>2, <2>3 DEF OnStage
  <2>4. CASE panel.activeItem # None
    <3>1. PICK a \in Sources : panel.stage = <<Card(panel.activeItem, a)>>
      BY <2>1, <2>4 DEF OnStage
    <3>2. 1 \in DOMAIN panel.stage /\ panel.stage[1].item = panel.activeItem /\ panel.stage[1].source = a
      BY <3>1 DEF Card
    <3>3. a = panel.activeSource
      BY <2>1, <3>2 DEF Owned
    <3> QED
      BY <2>2, <2>4, <3>1, <3>3
  <2> QED
    BY <2>3, <2>4
<1> QED
  BY <1>1, Inductive, PTL
=============================================================================
