-------------------------- MODULE PresenterLibrary --------------------------
(***************************************************************************)
(* The library of the presenter panel and what a crash leaves of it        *)
(* (frontend/widgets/PresenterPanel.cpp): the media entries, the           *)
(* presentations that were imported, one of them loaded, the directories   *)
(* with their slides, and presenter.ini, which every operation ends by     *)
(* writing.                                                                *)
(*                                                                         *)
(* Everything runs on the UI thread; the steps of an operation matter      *)
(* because the process may die between any two of them.  presenter.ini is  *)
(* replaced as a whole (QSettings::sync), a directory is emptied file by   *)
(* file.  A presentation is named by the number of its import.  The order  *)
(* of the entries and the folders the user sorts them into are left out,   *)
(* and no slide is imported by hand from a presentation's directory.       *)
(***************************************************************************)
EXTENDS Integers, Sequences, FiniteSets, SequencesExt

CONSTANTS
    Files,          \* the user's own media files
    Slides,         \* the slides of any presentation, "1.png", ...
    Remembered,     \* presentations that are remembered, 4 in the code
    MaxImports,     \* bound: imports begun
    MaxCrashes,     \* bound: crashes
    MaxChanges      \* bound: times a file of the user goes or comes back

ASSUME PresenterLibraryAssumption ==
    /\ IsFiniteSet(Files) /\ IsFiniteSet(Slides) /\ Slides # {}
    /\ Remembered \in Nat \ {0, 1}
    /\ MaxImports \in Nat /\ MaxCrashes \in Nat /\ MaxChanges \in Nat

None == 0           \* no presentation

VARIABLES
    stored,         \* presenter.ini: its media, recents and current
    disk,           \* the presentation directories, each with its slides
    present,        \* the user's files that exist
    at,             \* the operation the UI thread is in
    restoring,
    entries,        \* paths of entries
    recents,        \* recentPresentationIds
    current,        \* currentPresentationId
    removing,       \* the directory removeRecursively is at work on
    missing,        \* missingMediaNames
    imports, crashes, changes,
    failures,       \* history: renames and removals of directories that failed
    discarded,      \* history: presentations whose removal has begun
    owned,          \* history: files the user has added and not taken out
    told,           \* history: entries reported missing since they were added
    untold          \* history: entries whose notice a crash has cut off

memory == <<restoring, entries, recents, current, removing, missing>>
counters == <<imports, crashes, changes, failures>>
notices == <<owned, told, untold>>
vars == <<stored, disk, present, at, memory, counters, discarded, notices>>

Temporary(id) == <<"import", id>>
Directory(id) == <<"presentation", id>>
NoDirectory == <<"none", 0>>
SlidePaths(id, slides) == {<<Directory(id), s>> : s \in slides}

ASSUME SlidesAreNotFiles ==
    \A id \in 1 .. MaxImports : SlidePaths(id, Slides) \cap Files = {}

DiskPaths == UNION {{<<d, s>> : s \in disk[d]} : d \in DOMAIN disk}
Exists(path) == path \in present \/ path \in DiskPaths
IsSlide(path) == path \notin Files

Init ==
    /\ stored = [media |-> {}, recents |-> <<>>, current |-> None]
    /\ disk = [d \in {} |-> {}]
    /\ present = Files
    /\ at = "off" /\ restoring = TRUE
    /\ entries = {} /\ recents = <<>> /\ current = None
    /\ removing = NoDirectory /\ missing = {}
    /\ imports = 0 /\ crashes = 0 /\ changes = 0 /\ failures = 0
    /\ discarded = {} /\ owned = {} /\ told = {} /\ untold = {}

Remembers(id) == id \in ToSet(recents)

\* Mutant: settings are written while they are being restored.
SaveSettings_Always ==
    stored' = [media |-> entries', recents |-> recents', current |-> current']

SaveSettings ==
    stored' = IF restoring' THEN stored
              ELSE [media |-> entries', recents |-> recents', current |-> current']

WithDirectory(d, slides) == [x \in DOMAIN disk \cup {d} |-> IF x = d THEN slides ELSE disk[x]]
WithoutDirectory(d) == [x \in DOMAIN disk \ {d} |-> disk[x]]

-----------------------------------------------------------------------------
(* LoadSettings                                                            *)

\* As far as the media: controls and lists are set, and their signals call
\* SaveSettings.
LoadPresentations ==
    /\ at = "off" /\ at' = "loading"
    /\ restoring' = TRUE
    /\ entries' = {}
    /\ current' = IF stored.current \in ToSet(stored.recents) THEN stored.current ELSE None
    /\ removing' = IF current' # stored.current THEN Directory(stored.current) ELSE removing
    /\ recents' = SubSeq(stored.recents, 1, IF Len(stored.recents) > Remembered THEN Remembered
                                            ELSE Len(stored.recents))
    /\ SaveSettings
    /\ UNCHANGED <<disk, present, missing, counters, discarded, notices>>

\* Mutant: entries without a file are restored like the others.
Restored_All == stored.media

Restored == {p \in stored.media : Exists(p)}

LoadMedia ==
    /\ at = "loading" /\ removing = NoDirectory
    /\ entries' = Restored
    /\ missing' = {p \in stored.media : ~Exists(p)}
    /\ restoring' = FALSE
    /\ UNCHANGED <<recents, current>>
    /\ SaveSettings
    /\ at' = IF missing' = {} THEN "idle" ELSE "noticing"
    /\ UNCHANGED <<disk, present, removing, counters, discarded, notices>>

\* The notice about the missing files, once the event loop runs.
Notice ==
    /\ at = "noticing" /\ at' = "idle"
    /\ told' = told \cup missing
    /\ missing' = {}
    /\ UNCHANGED <<stored, disk, present, restoring, entries, recents, current, removing,
                   counters, discarded, owned, untold>>

-----------------------------------------------------------------------------
(* ImportPresentation and RegisterImportedPresentation                     *)

\* What a conversion that is not through has written is left out.
BeginImport ==
    /\ at = "idle" /\ imports < MaxImports
    /\ at' = "converting"
    /\ imports' = imports + 1
    /\ disk' = WithDirectory(Temporary(imports'), {})
    /\ UNCHANGED <<stored, present, memory, crashes, changes, failures, discarded, notices>>

\* Mutant: what a failed conversion has written is left.
AfterFailure_Kept == disk

AfterFailure == WithoutDirectory(Temporary(imports))

\* What removeRecursively returns is ignored wherever it is called.
RemovalFails == failures' = failures + 1 /\ UNCHANGED disk

ImportFails ==
    /\ at = "converting" /\ at' = "idle"
    /\ \/ disk' = AfterFailure /\ UNCHANGED failures
       \/ RemovalFails
    /\ UNCHANGED <<stored, present, memory, imports, crashes, changes, discarded, notices>>

\* The slides are there, and the directory cannot be renamed.
RenameFails ==
    /\ at = "converting" /\ at' = "idle"
    /\ disk' = WithDirectory(Temporary(imports), Slides)
    /\ failures' = failures + 1
    /\ UNCHANGED <<stored, present, memory, imports, crashes, changes, discarded, notices>>

Register ==
    /\ at = "converting" /\ at' = "evicting"
    /\ disk' = [d \in (DOMAIN disk \ {Temporary(imports)}) \cup {Directory(imports)} |->
                   IF d = Directory(imports) THEN Slides ELSE disk[d]]
    /\ recents' = <<imports>> \o recents
    /\ UNCHANGED <<stored, present, restoring, entries, current, removing, missing,
                   counters, discarded, notices>>

\* Mutant: the oldest presentation goes, loaded or not.
Evicted_Oldest == Len(recents)

\* The place of the oldest presentation that is not the loaded one.
Evicted == IF Last(recents) # current THEN Len(recents) ELSE Len(recents) - 1

Evict ==
    /\ at = "evicting" /\ removing = NoDirectory
    /\ Len(recents) > Remembered
    /\ recents' = RemoveAt(recents, Evicted)
    /\ removing' = Directory(recents[Evicted])
    /\ discarded' = discarded \cup {recents[Evicted]}
    /\ UNCHANGED <<stored, disk, present, at, restoring, entries, current, missing,
                   counters, notices>>

\* removeRecursively: the slides one by one, then the directory; it stays when it
\* or a slide in it cannot be deleted.
RemoveFiles ==
    /\ removing # NoDirectory
    /\ \/ /\ removing \in DOMAIN disk /\ disk[removing] # {}
          /\ \E s \in disk[removing] : disk' = [disk EXCEPT ![removing] = @ \ {s}]
          /\ UNCHANGED <<removing, failures>>
       \/ /\ removing \in DOMAIN disk => disk[removing] = {}
          /\ disk' = WithoutDirectory(removing)
          /\ removing' = NoDirectory
          /\ UNCHANGED failures
       \/ /\ removing \in DOMAIN disk
          /\ RemovalFails
          /\ removing' = NoDirectory
    /\ UNCHANGED <<stored, present, at, restoring, entries, recents, current, missing,
                   imports, crashes, changes, discarded, notices>>

\* The SaveSettings that ends an operation.
Finish ==
    /\ \/ at = "saving"
       \/ at = "evicting" /\ Len(recents) <= Remembered
    /\ removing = NoDirectory
    /\ at' = "idle"
    /\ UNCHANGED memory
    /\ SaveSettings
    /\ UNCHANGED <<disk, present, counters, discarded, notices>>

-----------------------------------------------------------------------------
(* The other operations of the user.                                       *)

\* ClearPresentationEntries
WithoutSlides == {p \in entries : ~IsSlide(p)}

\* ActivateRecentPresentation
Activate(id) ==
    LET shown == SlidePaths(id, disk[Directory(id)])
    IN  /\ at = "idle" /\ at' = "saving"
        /\ Remembers(id) /\ Directory(id) \in DOMAIN disk
        /\ current' = id
        /\ entries' = WithoutSlides \cup shown
        /\ removing' = IF current \notin {None, id} /\ ~Remembers(current)
                       THEN Directory(current) ELSE NoDirectory
        /\ told' = told \ shown /\ untold' = untold \ shown
        /\ UNCHANGED <<stored, disk, present, restoring, recents, missing, counters, discarded,
                       owned>>

\* "Eliminar" in the menu of a recent presentation.
Delete(row) ==
    /\ at = "idle" /\ at' = "saving"
    /\ recents' = RemoveAt(recents, row)
    /\ IF recents[row] = current
       THEN entries' = WithoutSlides /\ current' = None
       ELSE UNCHANGED <<entries, current>>
    /\ removing' = Directory(recents[row])
    /\ discarded' = discarded \cup {recents[row]}
    /\ UNCHANGED <<stored, disk, present, restoring, missing, counters, notices>>

\* ImportPaths and AddMediaFile
AddMedia(f) ==
    /\ at = "idle" /\ f \in present
    /\ entries' = entries \cup {f}
    /\ UNCHANGED <<restoring, recents, current>>
    /\ SaveSettings
    /\ owned' = owned \cup {f} /\ told' = told \ {f} /\ untold' = untold \ {f}
    /\ UNCHANGED <<disk, present, at, removing, missing, counters, discarded>>

\* RemoveMediaEntry
RemoveMedia(f) ==
    /\ at = "idle" /\ f \in entries
    /\ entries' = entries \ {f}
    /\ UNCHANGED <<restoring, recents, current>>
    /\ SaveSettings
    /\ owned' = owned \ {f}
    /\ UNCHANGED <<disk, present, at, removing, missing, counters, discarded, told, untold>>

\* Shutdown
Exit ==
    /\ at = "idle" /\ at' = "off"
    /\ UNCHANGED memory
    /\ SaveSettings
    /\ UNCHANGED <<disk, present, counters, discarded, notices>>

-----------------------------------------------------------------------------
(* The process dies, and the user's files go and come back.                *)

Crash ==
    /\ at # "off" /\ at' = "off"
    /\ crashes < MaxCrashes
    /\ crashes' = crashes + 1
    /\ restoring' = TRUE /\ entries' = {} /\ recents' = <<>> /\ current' = None
    /\ removing' = NoDirectory /\ missing' = {}
    /\ untold' = untold \cup missing
    /\ UNCHANGED <<stored, disk, present, imports, changes, failures, discarded, owned, told>>

FileChanges(f) ==
    /\ changes < MaxChanges
    /\ changes' = changes + 1
    /\ present' = IF f \in present THEN present \ {f} ELSE present \cup {f}
    /\ UNCHANGED <<stored, disk, at, memory, imports, crashes, failures, discarded, notices>>

Next ==
    \/ LoadPresentations
    \/ LoadMedia
    \/ Notice
    \/ BeginImport
    \/ ImportFails
    \/ RenameFails
    \/ Register
    \/ Evict
    \/ RemoveFiles
    \/ Finish
    \/ \E id \in 1 .. imports : Activate(id)
    \/ \E row \in DOMAIN recents : Delete(row)
    \/ \E f \in Files : AddMedia(f) \/ RemoveMedia(f) \/ FileChanges(f)
    \/ Exit
    \/ Crash

Spec == Init /\ [][Next]_vars

-----------------------------------------------------------------------------
(* Properties.                                                             *)

\* The presentation that is loaded stays whole while others are imported,
\* across restarts and crashes: it is remembered, its slides are on the disk
\* and among the entries.  Only one whose removal a crash has cut short may be
\* loaded without some of them.
LoadedStaysWhole ==
    at \notin {"off", "loading"} /\ current # None =>
        /\ Remembers(current)
        /\ \/ current \in discarded
           \/ /\ Directory(current) \in DOMAIN disk
              /\ disk[Directory(current)] = Slides
              /\ SlidePaths(current, Slides) \subseteq entries

Remembereds == {Directory(stored.recents[i]) : i \in DOMAIN stored.recents}
Orphans == DOMAIN disk \ Remembereds
Dangling == {d \in Remembereds : d \notin DOMAIN disk \/ disk[d] # Slides}

\* Between operations the directories are those of the presentations that are
\* remembered.  What is left over was left by a rename or a removal that failed
\* or by a crash, one directory each at the most, and only a crash leaves a
\* presentation that is remembered without its slides.
DirectoriesAccountedFor ==
    at \in {"off", "idle"} =>
        /\ Cardinality(Orphans) <= crashes + failures
        /\ Cardinality(Dangling) <= crashes

\* A file that has gone is reported at most once, however often the program starts
\* or crashes, until it is added again; and what the user has added and not taken
\* out is in the library or has been reported, but for what a crash between the
\* saving and the notice has kept silent.
ToldOnce ==
    /\ at = "noticing" => missing \cap told = {}
    /\ at = "idle" => owned \subseteq entries \cup told \cup untold

\* "OPBS informa una sola vez los nombres eliminados" (PRESENTADOR_ARQUITECTURA.md:114):
\* what the user has added is in the library or has been reported.  The settings are
\* saved without it (5029) before the notice is shown (5032): a crash in between, and
\* nobody ever says that it has gone.
LostIsTold == at = "idle" => owned \subseteq entries \cup told

\* presenter.ini loses no entry whose file is there unless the user has removed
\* it or has loaded or deleted a presentation, whenever the process dies.
LibraryKept ==
    [][\A p \in stored.media \ stored'.media :
            \/ ~Exists(p)
            \/ at = "idle" /\ p \in entries \ entries'
            \/ IsSlide(p) /\ stored'.current # stored.current]_vars
=============================================================================
