----------------------- MODULE PresenterLibrary_proofs -----------------------
(***************************************************************************)
(* Proofs about the presenter's library, for any files, slides and bounds: *)
(* presenter.ini keeps every entry whose file is there, a file that is     *)
(* missing is reported once unless a crash cuts the notice off, the loaded *)
(* presentation stays whole, and every directory is accounted for.         *)
(***************************************************************************)
EXTENDS PresenterLibrary, TLAPS, SequenceTheorems, FiniteSetTheorems

-----------------------------------------------------------------------------
(* The list of recent presentations.                                       *)

Distinct(s) == \A i, j \in 1 .. Len(s) : s[i] = s[j] => i = j

\* takeAt: one goes, the others stay in their order.
LEMMA TakenAt ==
  ASSUME NEW S, NEW s \in Seq(S), NEW k \in 1 .. Len(s)
  PROVE  /\ RemoveAt(s, k) \in Seq(S) /\ Len(RemoveAt(s, k)) = Len(s) - 1
         /\ \A j \in 1 .. Len(s) - 1 : RemoveAt(s, k)[j] = IF j < k THEN s[j] ELSE s[j + 1]
<1> DEFINE n == Len(s)
           a == SubSeq(s, 1, k - 1)
           b == SubSeq(s, k + 1, n)
<1>1. n \in Nat /\ k \in 1 .. n /\ \A j \in 1 .. n : s[j] \in S
  BY ElementOfSeq, LenProperties
<1> HIDE DEF n
<1>2. /\ a \in Seq(S) /\ Len(a) = k - 1
      /\ \A j \in 1 .. (k - 1) : a[j] = s[j]
  <2>1. \A j \in 1 .. (k - 1) : s[j] \in S
    BY <1>1
  <2>2. /\ a \in Seq(S) /\ Len(a) = IF 1 <= k - 1 THEN (k - 1) - 1 + 1 ELSE 0
        /\ \A j \in 1 .. ((k - 1) - 1 + 1) : a[j] = s[1 + j - 1]
    BY <1>1, <2>1, SubSeqProperties
  <2>3. (k - 1) - 1 + 1 = k - 1 /\ \A j \in 1 .. (k - 1) : 1 + j - 1 = j
    BY <1>1
  <2> HIDE DEF a
  <2> QED
    BY <1>1, <2>2, <2>3
<1>3. /\ b \in Seq(S) /\ Len(b) = n - k
      /\ \A j \in 1 .. (n - k) : b[j] = s[k + j]
  <2>1. \A j \in (k + 1) .. n : s[j] \in S
    BY <1>1
  <2>2. /\ b \in Seq(S) /\ Len(b) = IF k + 1 <= n THEN n - (k + 1) + 1 ELSE 0
        /\ \A j \in 1 .. (n - (k + 1) + 1) : b[j] = s[(k + 1) + j - 1]
    BY <1>1, <2>1, SubSeqProperties
  <2>3. n - (k + 1) + 1 = n - k /\ \A j \in 1 .. (n - k) : (k + 1) + j - 1 = k + j
    BY <1>1
  <2> HIDE DEF b
  <2> QED
    BY <1>1, <2>2, <2>3
<1>4. RemoveAt(s, k) = a \o b
  BY DEF RemoveAt, n
<1> HIDE DEF a, b
<1>5. /\ a \o b \in Seq(S) /\ Len(a \o b) = (k - 1) + (n - k)
      /\ \A j \in 1 .. ((k - 1) + (n - k)) : (a \o b)[j] = IF j <= k - 1 THEN a[j] ELSE b[j - (k - 1)]
  <2>1. /\ a \o b \in Seq(S) /\ Len(a \o b) = Len(a) + Len(b)
        /\ \A j \in 1 .. (Len(a) + Len(b)) : (a \o b)[j] = IF j <= Len(a) THEN a[j] ELSE b[j - Len(a)]
    BY <1>2, <1>3, ConcatProperties
  <2> QED
    BY <1>2, <1>3, <2>1, Zenon
<1>6. (k - 1) + (n - k) = n - 1
  BY <1>1
<1>7. ASSUME NEW j \in 1 .. (n - 1)
      PROVE  (a \o b)[j] = IF j < k THEN s[j] ELSE s[j + 1]
  <2>0. (a \o b)[j] = IF j <= k - 1 THEN a[j] ELSE b[j - (k - 1)]
    BY <1>5, <1>6
  <2>1. CASE j < k
    BY <1>1, <1>2, <2>0, <2>1
  <2>2. CASE ~(j < k)
    <3>1. j - (k - 1) \in 1 .. (n - k) /\ k + (j - (k - 1)) = j + 1 /\ ~(j <= k - 1)
      BY <1>1, <2>2
    <3>2. b[j - (k - 1)] = s[k + (j - (k - 1))]
      BY <1>3, <3>1
    <3> QED
      BY <2>0, <2>2, <3>1, <3>2, Zenon
  <2> QED
    BY <2>1, <2>2
<1> QED
  BY <1>4, <1>5, <1>6, <1>7 DEF n

\* Without repetitions, what is taken is gone.
LEMMA TakenIsGone ==
  ASSUME NEW S, NEW s \in Seq(S), NEW k \in 1 .. Len(s), Distinct(s)
  PROVE  Distinct(RemoveAt(s, k)) /\ ToSet(RemoveAt(s, k)) = ToSet(s) \ {s[k]}
<1> DEFINE r == RemoveAt(s, k)
           n == Len(s)
<1>1. /\ n \in Nat /\ k \in 1 .. n /\ r \in Seq(S) /\ Len(r) = n - 1
      /\ \A j \in 1 .. n - 1 : r[j] = IF j < k THEN s[j] ELSE s[j + 1]
  BY TakenAt, LenProperties
<1>2. \A i, j \in 1 .. n : s[i] = s[j] => i = j
  BY DEF Distinct
<1>3. DOMAIN s = 1 .. n /\ DOMAIN r = 1 .. (n - 1)
  BY <1>1
<1> HIDE DEF r, n
<1>4. Distinct(r)
  <2> SUFFICES ASSUME NEW i \in 1 .. n - 1, NEW j \in 1 .. n - 1, r[i] = r[j] PROVE i = j
    BY <1>1 DEF Distinct
  <2> DEFINE at1(x) == IF x < k THEN x ELSE x + 1
  <2>1. \A x \in 1 .. n - 1 : at1(x) \in 1 .. n /\ r[x] = s[at1(x)]
    BY <1>1
  <2>2. at1(i) = at1(j)
    <3> HIDE DEF at1
    <3> QED
      BY <1>2, <2>1
  <2> QED
    BY <1>1, <2>2
<1>5. ASSUME NEW x \in ToSet(r) PROVE x \in ToSet(s) \ {s[k]}
  <2>1. PICK j \in 1 .. n - 1 : x = r[j]
    BY <1>3 DEF ToSet
  <2> DEFINE i == IF j < k THEN j ELSE j + 1
  <2>2. i \in 1 .. n /\ i # k /\ x = s[i]
    BY <1>1, <2>1
  <2> HIDE DEF i
  <2>3. s[i] # s[k]
    BY <1>1, <1>2, <2>2
  <2> QED
    BY <1>3, <2>2, <2>3 DEF ToSet
<1>6. ASSUME NEW x \in ToSet(s) \ {s[k]} PROVE x \in ToSet(r)
  <2>1. PICK i \in 1 .. n : x = s[i]
    BY <1>3 DEF ToSet
  <2> DEFINE j == IF i < k THEN i ELSE i - 1
  <2>2. i # k
    BY <2>1
  <2>3. j \in 1 .. n - 1 /\ r[j] = s[i]
    <3>1. CASE i < k
      BY <1>1, <3>1
    <3>2. CASE ~(i < k)
      <4>1. i - 1 \in 1 .. n - 1 /\ ~(i - 1 < k) /\ (i - 1) + 1 = i
        BY <1>1, <2>2, <3>2
      <4> QED
        BY <1>1, <3>2, <4>1
    <3> QED
      BY <3>1, <3>2
  <2> HIDE DEF j
  <2> QED
    BY <1>3, <2>1, <2>3 DEF ToSet
<1> QED
  BY <1>4, <1>5, <1>6 DEF r

\* prepend: a new one is the first.
LEMMA Prepended ==
  ASSUME NEW S, NEW s \in Seq(S), NEW x \in S
  PROVE  /\ <<x>> \o s \in Seq(S) /\ Len(<<x>> \o s) = Len(s) + 1
         /\ ToSet(<<x>> \o s) = {x} \cup ToSet(s)
         /\ Distinct(s) /\ x \notin ToSet(s) => Distinct(<<x>> \o s)
<1> DEFINE n == Len(s)
           r == <<x>> \o s
<1>1. <<x>> \in Seq(S) /\ Len(<<x>>) = 1 /\ <<x>>[1] = x /\ n \in Nat
  BY LenProperties
<1>2. /\ r \in Seq(S) /\ Len(r) = n + 1
      /\ \A j \in 1 .. n + 1 : r[j] = IF j <= 1 THEN <<x>>[j] ELSE s[j - 1]
  <2>1. /\ r \in Seq(S) /\ Len(r) = 1 + n
        /\ \A j \in 1 .. 1 + n : r[j] = IF j <= 1 THEN <<x>>[j] ELSE s[j - 1]
    BY <1>1, ConcatProperties
  <2> HIDE DEF r, n
  <2>2. 1 + n = n + 1
    BY <1>1
  <2> QED
    BY <2>1, <2>2
<1>3. DOMAIN s = 1 .. n /\ DOMAIN r = 1 .. n + 1
  BY <1>2
<1> HIDE DEF r, n
<1>4. r[1] = x /\ \A j \in 1 .. n : r[j + 1] = s[j]
  <2>1. r[1] = x
    BY <1>1, <1>2
  <2>2. ASSUME NEW j \in 1 .. n PROVE r[j + 1] = s[j]
    <3>1. j + 1 \in 1 .. n + 1 /\ ~(j + 1 <= 1) /\ (j + 1) - 1 = j
      BY <1>1
    <3> QED
      BY <1>2, <3>1
  <2> QED
    BY <2>1, <2>2
<1>5. \A j \in 1 .. n + 1 : j = 1 \/ (j - 1 \in 1 .. n /\ r[j] = s[j - 1])
  <2> TAKE j \in 1 .. n + 1
  <2>1. j = 1 \/ (j - 1 \in 1 .. n /\ ~(j <= 1))
    BY <1>1
  <2> QED
    BY <1>2, <2>1
<1>6. \A j \in 1 .. n : j + 1 \in 1 .. n + 1
  BY <1>1
<1>7. 1 \in 1 .. n + 1
  BY <1>1
<1>8. ToSet(r) = {x} \cup ToSet(s)
  <2>1. ASSUME NEW y \in ToSet(r) PROVE y \in {x} \cup ToSet(s)
    BY <1>3, <1>4, <1>5 DEF ToSet
  <2>2. ASSUME NEW y \in {x} \cup ToSet(s) PROVE y \in ToSet(r)
    BY <1>3, <1>4, <1>6, <1>7 DEF ToSet
  <2> QED
    BY <2>1, <2>2
<1>9. ASSUME Distinct(s), x \notin ToSet(s) PROVE Distinct(r)
  <2>1. \A j \in 1 .. n : s[j] # x
    BY <1>3, <1>9 DEF ToSet
  <2> SUFFICES ASSUME NEW i \in 1 .. n + 1, NEW j \in 1 .. n + 1, r[i] = r[j] PROVE i = j
    BY <1>2 DEF Distinct
  <2>2. CASE i = 1 \/ j = 1
    BY <1>4, <1>5, <2>1, <2>2
  <2>3. CASE i # 1 /\ j # 1
    <3>1. i - 1 \in 1 .. n /\ j - 1 \in 1 .. n /\ s[i - 1] = s[j - 1]
      BY <1>5, <2>3
    <3>2. i - 1 = j - 1
      BY <1>9, <3>1 DEF Distinct, n
    <3> QED
      BY <3>2
  <2> QED
    BY <2>2, <2>3
<1> QED
  BY <1>2, <1>8, <1>9 DEF r, n

LEMMA Widened ==
  ASSUME NEW S, NEW T, S \subseteq T, NEW s \in Seq(S)
  PROVE  s \in Seq(T)
  BY SeqDef

LEMMA NothingRecent ==
  ASSUME NEW S
  PROVE  << >> \in Seq(S) /\ Len(<< >>) = 0 /\ Distinct(<< >>) /\ ToSet(<< >>) = {}
<1>1. << >> \in Seq(S) /\ Len(<< >>) = 0
  BY EmptySeq
<1>2. DOMAIN << >> = {} /\ 1 .. Len(<< >>) = {}
  BY <1>1
<1> QED
  BY <1>1, <1>2 DEF Distinct, ToSet

\* Places without work on the recent presentations: what is stored is what the
\* program has.
Settled == {"loading", "idle", "noticing", "converting"}

IdInv ==
    /\ imports \in 0 .. MaxImports
    /\ recents \in Seq(1 .. imports) /\ stored.recents \in Seq(1 .. imports)
    /\ Distinct(recents) /\ Distinct(stored.recents)
    /\ Len(stored.recents) <= Remembered
    /\ at = "saving" => Len(recents) <= Remembered
    /\ at = "evicting" => Len(recents) <= Remembered + 1
    /\ at = "loading" => restoring
    /\ at \notin {"off", "loading"} => restoring = FALSE
    /\ at \in Settled => recents = stored.recents
    /\ at = "converting" => imports # 0 /\ imports \notin ToSet(recents)
    /\ at \in Settled \cup {"off", "evicting", "saving"}

\* Outside of loading a save stores what the program has.
LEMMA SaveStores ==
  ASSUME restoring' = FALSE, SaveSettings
  PROVE  stored'.media = entries' /\ stored'.recents = recents' /\ stored'.current = current'
  BY DEF SaveSettings

LEMMA IdInit == Init => IdInv
  BY PresenterLibraryAssumption, NothingRecent DEF Init, IdInv, Settled

LEMMA LoadPresentationsIds ==
  ASSUME IdInv, LoadPresentations
  PROVE  IdInv' /\ recents' = stored.recents /\ stored' = stored
<1>1. /\ stored.recents \in Seq(1 .. imports) /\ Len(stored.recents) \in Nat
      /\ Len(stored.recents) <= Remembered /\ Remembered \in Nat
  BY PresenterLibraryAssumption, LenProperties DEF IdInv
<1>2. recents' = SubSeq(stored.recents, 1, Len(stored.recents))
  BY <1>1 DEF LoadPresentations
<1>3. recents' = stored.recents
  BY <1>1, <1>2, SubSeqFull
<1>4. stored' = stored /\ at' = "loading" /\ restoring' = TRUE /\ imports' = imports
  BY DEF LoadPresentations, SaveSettings, counters
<1> QED
  BY <1>3, <1>4 DEF IdInv, Settled

LEMMA RegisterIds ==
  ASSUME IdInv, Register
  PROVE  IdInv' /\ ToSet(recents') = {imports} \cup ToSet(recents)
<1>1. /\ recents \in Seq(1 .. imports) /\ Len(recents) \in Nat /\ Len(recents) <= Remembered
      /\ Remembered \in Nat
      /\ Distinct(recents) /\ imports \notin ToSet(recents) /\ imports \in Nat
      /\ restoring = FALSE
  BY PresenterLibraryAssumption, LenProperties DEF IdInv, Register, Settled
<1>2. imports \in 1 .. imports
  BY DEF IdInv, Register
<1>3. /\ recents' \in Seq(1 .. imports) /\ Len(recents') = Len(recents) + 1
      /\ Distinct(recents') /\ ToSet(recents') = {imports} \cup ToSet(recents)
  BY <1>1, <1>2, Prepended DEF Register
<1>4. at' = "evicting" /\ UNCHANGED <<stored, restoring, imports>>
  BY DEF Register, counters
<1> HIDE DEF Distinct
<1> QED
  BY <1>1, <1>3, <1>4 DEF IdInv, Settled

LEMMA EvictIds ==
  ASSUME IdInv, Evict
  PROVE  /\ IdInv' /\ Evicted \in 1 .. Len(recents) /\ recents[Evicted] # current
         /\ ToSet(recents') = ToSet(recents) \ {recents[Evicted]}
         /\ Len(recents') <= Remembered
<1> DEFINE n == Len(recents)
<1>1. /\ recents \in Seq(1 .. imports) /\ n \in Nat /\ n <= Remembered + 1 /\ n > Remembered
      /\ Remembered \in Nat /\ Remembered > 1
      /\ Distinct(recents) /\ restoring = FALSE
  BY PresenterLibraryAssumption, LenProperties DEF IdInv, Evict, Settled
<1>2. Last(recents) = recents[n]
  BY DEF Last
<1>3. Evicted = IF Last(recents) # current THEN n ELSE n - 1
  BY DEF Evicted
<1>4. \A i, j \in 1 .. n : recents[i] = recents[j] => i = j
  BY <1>1 DEF Distinct
<1>5. /\ at' = "evicting" /\ UNCHANGED <<stored, restoring, imports>>
      /\ recents' = RemoveAt(recents, Evicted)
  BY DEF Evict, counters
<1> HIDE DEF n
<1>6. Evicted \in 1 .. n /\ recents[Evicted] # current
  <2>1. n \in 1 .. n /\ n - 1 \in 1 .. n /\ n # n - 1
    BY <1>1
  <2>2. recents[n] # recents[n - 1]
    BY <1>4, <2>1
  <2> QED
    BY <1>2, <1>3, <2>1, <2>2
<1>7. /\ recents' \in Seq(1 .. imports) /\ Len(recents') = n - 1 /\ Distinct(recents')
      /\ ToSet(recents') = ToSet(recents) \ {recents[Evicted]}
  BY <1>1, <1>5, <1>6, TakenAt, TakenIsGone DEF n
<1>8. Len(recents') <= Remembered /\ Len(recents') <= Remembered + 1
  BY <1>1, <1>7
<1> HIDE DEF Distinct
<1>9. IdInv'
  BY <1>1, <1>5, <1>7, <1>8 DEF IdInv, Settled
<1> QED
  BY <1>6, <1>7, <1>8, <1>9 DEF n

LEMMA DeleteIds ==
  ASSUME IdInv, NEW row \in DOMAIN recents, Delete(row)
  PROVE  IdInv' /\ ToSet(recents') = ToSet(recents) \ {recents[row]}
<1> DEFINE n == Len(recents)
<1>1. /\ recents \in Seq(1 .. imports) /\ n \in Nat /\ n <= Remembered /\ Remembered \in Nat
      /\ Distinct(recents) /\ restoring = FALSE /\ row \in 1 .. n
  BY PresenterLibraryAssumption, LenProperties DEF IdInv, Delete, Settled
<1>2. /\ at' = "saving" /\ UNCHANGED <<stored, restoring, imports>>
      /\ recents' = RemoveAt(recents, row)
  BY DEF Delete, counters
<1>3. /\ recents' \in Seq(1 .. imports) /\ Len(recents') = n - 1 /\ Distinct(recents')
      /\ ToSet(recents') = ToSet(recents) \ {recents[row]}
  BY <1>1, <1>2, TakenAt, TakenIsGone
<1> HIDE DEF n
<1>4. Len(recents') <= Remembered
  BY <1>1, <1>3
<1> HIDE DEF Distinct
<1>5. IdInv'
  BY <1>1, <1>2, <1>3, <1>4 DEF IdInv, Settled
<1> QED
  BY <1>3, <1>5

LEMMA BeginIds ==
  ASSUME IdInv, BeginImport
  PROVE  IdInv' /\ imports' \notin ToSet(recents)
<1>1. /\ imports \in 0 .. MaxImports /\ imports < MaxImports /\ MaxImports \in Nat
      /\ recents \in Seq(1 .. imports) /\ stored.recents \in Seq(1 .. imports)
  BY PresenterLibraryAssumption DEF IdInv, BeginImport
<1>2. /\ at = "idle" /\ at' = "converting" /\ imports' = imports + 1
      /\ UNCHANGED <<stored, recents, restoring>>
  BY DEF BeginImport, memory
<1>3. imports' \in 0 .. MaxImports /\ imports' # 0 /\ 1 .. imports \subseteq 1 .. imports'
      /\ imports' \notin 1 .. imports
  BY <1>1, <1>2
<1>4. recents' \in Seq(1 .. imports') /\ stored'.recents \in Seq(1 .. imports')
  BY <1>1, <1>2, <1>3, Widened
<1>5. imports' \notin ToSet(recents)
  BY <1>1, <1>3 DEF ToSet
<1> HIDE DEF Distinct
<1> QED
  BY <1>2, <1>3, <1>4, <1>5 DEF IdInv, Settled

LEMMA IdStep == IdInv /\ [Next]_vars => IdInv'
<1> SUFFICES ASSUME IdInv, [Next]_vars PROVE IdInv'
  OBVIOUS
<1> USE DEF IdInv, Settled
<1>1. CASE LoadMedia
  <2>1. /\ restoring' = FALSE /\ SaveSettings /\ at = "loading" /\ at' \in {"idle", "noticing"}
        /\ UNCHANGED <<recents, imports>>
    BY <1>1 DEF LoadMedia, counters
  <2> QED
    BY <2>1, SaveStores
<1>2. CASE Notice \/ ImportFails \/ RenameFails
  BY <1>2 DEF Notice, ImportFails, RenameFails, memory, counters
<1>3. CASE RemoveFiles
  BY <1>3 DEF RemoveFiles, counters
<1>4. CASE Finish
  <2>1. /\ restoring' = FALSE /\ SaveSettings /\ at' = "idle" /\ UNCHANGED <<recents, imports>>
        /\ Len(recents) <= Remembered
    BY <1>4 DEF Finish, memory, counters
  <2> QED
    BY <2>1, SaveStores
<1>5. ASSUME NEW id \in 1 .. imports, Activate(id) PROVE IdInv'
  BY <1>5 DEF Activate, counters
<1>6. ASSUME NEW f \in Files, AddMedia(f) \/ RemoveMedia(f) PROVE IdInv'
  <2>1. /\ restoring' = FALSE /\ SaveSettings /\ at = "idle" /\ at' = "idle"
        /\ UNCHANGED <<recents, imports>>
    BY <1>6 DEF AddMedia, RemoveMedia, counters
  <2> QED
    BY <2>1, SaveStores
<1>7. CASE Exit
  <2>1. /\ restoring' = FALSE /\ SaveSettings /\ at = "idle" /\ at' = "off"
        /\ UNCHANGED <<recents, imports>>
    BY <1>7 DEF Exit, memory, counters
  <2> QED
    BY <2>1, SaveStores
<1>8. CASE Crash
  <2>1. at' = "off" /\ recents' = << >> /\ UNCHANGED <<stored, imports>>
    BY <1>8 DEF Crash
  <2> QED
    BY <2>1, NothingRecent
<1>9. ASSUME NEW f \in Files, FileChanges(f) PROVE IdInv'
  BY <1>9 DEF FileChanges, memory
<1>10. CASE UNCHANGED vars
  BY <1>10 DEF vars, memory, counters
<1> QED
  BY <1>1, <1>2, <1>3, <1>4, <1>5, <1>6, <1>7, <1>8, <1>9, <1>10, LoadPresentationsIds,
     BeginIds, RegisterIds, EvictIds, DeleteIds DEF Next

\* The loaded presentation is one of the list, and so is the stored one.
NamedInv ==
    /\ stored.current = None \/ stored.current \in ToSet(stored.recents)
    /\ at # "off" => current = None \/ Remembers(current)

LEMMA NamedInit == Init => NamedInv
  BY DEF Init, NamedInv

\* So the directory of a stored presentation that is not in the list, which
\* LoadSettings would remove, never exists.
LEMMA LoadsTheStored ==
  ASSUME NamedInv, LoadPresentations
  PROVE  current' = stored.current /\ UNCHANGED <<disk, removing>>
  BY DEF NamedInv, LoadPresentations

LEMMA NamedStep == IdInv /\ IdInv' /\ NamedInv /\ [Next]_vars => NamedInv'
<1> SUFFICES ASSUME IdInv, IdInv', NamedInv, [Next]_vars PROVE NamedInv'
  OBVIOUS
<1> USE DEF NamedInv, Remembers
<1>1. CASE LoadPresentations
  BY <1>1, LoadPresentationsIds, LoadsTheStored
<1>2. ASSUME SaveSettings, restoring' = FALSE, at # "off", UNCHANGED <<recents, current>>
      PROVE  NamedInv'
  BY <1>2, SaveStores
<1>3. CASE LoadMedia
  BY <1>2, <1>3 DEF LoadMedia
<1>4. CASE Finish
  BY <1>2, <1>4 DEF Finish, memory, IdInv, Settled
<1>5. ASSUME NEW f \in Files, AddMedia(f) \/ RemoveMedia(f) PROVE NamedInv'
  BY <1>2, <1>5 DEF AddMedia, RemoveMedia, IdInv
<1>6. CASE Exit
  BY <1>2, <1>6 DEF Exit, memory, IdInv
<1>7. CASE Register
  BY <1>7, RegisterIds DEF Register
<1>8. CASE Evict
  BY <1>8, EvictIds DEF Evict
<1>9. ASSUME NEW row \in DOMAIN recents, Delete(row) PROVE NamedInv'
  BY <1>9, DeleteIds DEF Delete
<1>10. ASSUME NEW id \in 1 .. imports, Activate(id) PROVE NamedInv'
  BY <1>10 DEF Activate
<1>11. CASE Crash
  BY <1>11 DEF Crash
<1>12. ASSUME UNCHANGED <<stored, recents, current>>, at # "off" \/ at' = at PROVE NamedInv'
  BY <1>12
<1>13. CASE Notice \/ BeginImport \/ ImportFails \/ RenameFails \/ RemoveFiles
  BY <1>12, <1>13 DEF Notice, BeginImport, ImportFails, RenameFails, RemoveFiles, memory
<1>14. ASSUME NEW f \in Files, FileChanges(f) PROVE NamedInv'
  BY <1>12, <1>14 DEF FileChanges, memory
<1>15. CASE UNCHANGED vars
  BY <1>12, <1>15 DEF vars, memory
<1> QED
  BY <1>1, <1>3, <1>4, <1>5, <1>6, <1>7, <1>8, <1>9, <1>10, <1>11, <1>13, <1>14, <1>15 DEF Next

-----------------------------------------------------------------------------
(* presenter.ini keeps the entries.                                        *)

\* The slides among these entries are those of presentation id.
SlidesOf(paths, id) ==
    \A p \in paths : IsSlide(p) => \E s : p = <<Directory(id), s>>

\* What presenter.ini still has and the running program has not: slides of
\* another presentation than the loaded one, or slides that are gone.
Dropped(p) == IsSlide(p) /\ (stored.current # current \/ p \notin DiskPaths)

KeepInv ==
    /\ imports \in Nat
    /\ present \subseteq Files
    /\ SlidesOf(stored.media, stored.current)
    /\ at = "loading" => current = stored.current
    /\ at \notin {"off", "loading"} => restoring = FALSE /\ SlidesOf(entries, current)
    /\ at \notin {"off", "loading", "saving"} =>
          stored.media = entries /\ stored.current = current
    /\ at = "saving" => \A p \in stored.media \ entries : Dropped(p)

LEMMA KeepInit == Init => KeepInv
  BY DEF Init, KeepInv, SlidesOf, Dropped

\* removeRecursively only takes files away.
LEMMA RemovalShrinks ==
  ASSUME RemoveFiles
  PROVE  DiskPaths' \subseteq DiskPaths
<1>1. CASE removing \in DOMAIN disk /\ \E s \in disk[removing] :
               disk' = [disk EXCEPT ![removing] = @ \ {s}]
  BY <1>1 DEF DiskPaths
<1>2. CASE disk' = WithoutDirectory(removing)
  BY <1>2 DEF DiskPaths, WithoutDirectory
<1>3. CASE RemovalFails
  BY <1>3 DEF DiskPaths, RemovalFails
<1> QED
  BY <1>1, <1>2, <1>3 DEF RemoveFiles

LEMMA PathOfPresentation ==
  ASSUME NEW d, NEW s, d \in DOMAIN disk, <<d, s>> \in DiskPaths
  PROVE  s \in disk[d]
  BY DEF DiskPaths

\* The clauses of KeepInv that a step disturbs, action by action.
LEMMA LoadPresentationsKeeps == NamedInv /\ KeepInv /\ LoadPresentations => KeepInv'
<1> SUFFICES ASSUME NamedInv, KeepInv, LoadPresentations PROVE KeepInv'
  OBVIOUS
<1>1. stored' = stored /\ at' = "loading" /\ UNCHANGED <<imports, present>>
  BY DEF LoadPresentations, SaveSettings, counters
<1>2. current' = stored.current
  BY LoadsTheStored
<1> QED
  BY <1>1, <1>2 DEF KeepInv, SlidesOf, IsSlide, Directory

LEMMA LoadMediaKeeps == KeepInv /\ LoadMedia => KeepInv'
<1> SUFFICES ASSUME KeepInv, LoadMedia PROVE KeepInv'
  OBVIOUS
<1>1. /\ restoring' = FALSE /\ at' \in {"idle", "noticing"}
      /\ UNCHANGED <<imports, present, current, disk>>
      /\ entries' = Restored
  BY DEF LoadMedia, counters
<1>2. stored'.media = entries' /\ stored'.current = current'
  BY <1>1, SaveStores DEF LoadMedia
<1>3. SlidesOf(entries', current')
  <2> SUFFICES ASSUME NEW p \in entries', IsSlide(p)
               PROVE  \E s : p = <<Directory(current'), s>>
    BY DEF SlidesOf
  <2>1. p \in stored.media
    BY <1>1 DEF Restored
  <2>2. current = stored.current
    BY DEF KeepInv, LoadMedia
  <2> QED
    BY <1>1, <2>1, <2>2 DEF KeepInv, SlidesOf
<1> QED
  BY <1>1, <1>2, <1>3 DEF KeepInv, SlidesOf, IsSlide, Directory

LEMMA FinishKeeps == KeepInv /\ Finish => KeepInv'
<1> SUFFICES ASSUME KeepInv, Finish PROVE KeepInv'
  OBVIOUS
<1>1. /\ restoring' = FALSE /\ at' = "idle"
      /\ UNCHANGED <<imports, present, current, entries>>
      /\ SlidesOf(entries, current)
  BY DEF Finish, memory, counters, KeepInv
<1>2. stored'.media = entries' /\ stored'.current = current'
  BY <1>1, SaveStores DEF Finish
<1> QED
  BY <1>1, <1>2 DEF KeepInv, SlidesOf, IsSlide, Directory

LEMMA ActivateKeeps ==
  ASSUME KeepInv, NEW id \in 1 .. imports, Activate(id)
  PROVE  KeepInv'
<1>1. /\ at' = "saving" /\ restoring' = FALSE /\ current' = id
      /\ Directory(id) \in DOMAIN disk
      /\ UNCHANGED <<imports, present, stored, disk>>
      /\ entries' = WithoutSlides \cup SlidePaths(id, disk[Directory(id)])
      /\ stored.media = entries /\ stored.current = current
      /\ SlidesOf(entries, current)
  BY DEF Activate, KeepInv, counters
<1>2. SlidesOf(entries', current')
  BY <1>1 DEF SlidesOf, WithoutSlides, SlidePaths
<1>3. ASSUME NEW p \in stored'.media \ entries' PROVE Dropped(p)'
  <2>1. IsSlide(p) /\ p \in entries
    BY <1>1, <1>3 DEF WithoutSlides
  <2>2. CASE current = id
    <3>1. PICK s : p = <<Directory(id), s>>
      BY <1>1, <2>1, <2>2 DEF SlidesOf
    <3>2. s \notin disk[Directory(id)]
      BY <1>1, <1>3, <3>1 DEF SlidePaths
    <3>3. p \notin DiskPaths
      BY <1>1, <3>1, <3>2, PathOfPresentation
    <3> QED
      BY <1>1, <2>1, <3>3 DEF Dropped, DiskPaths, IsSlide
  <2>3. CASE current # id
    BY <1>1, <2>1, <2>3 DEF Dropped, IsSlide
  <2> QED
    BY <2>2, <2>3
<1> QED
  BY <1>1, <1>2, <1>3 DEF KeepInv, SlidesOf, IsSlide, Directory

LEMMA DeleteKeeps ==
  ASSUME IdInv, KeepInv, NEW row \in DOMAIN recents, Delete(row)
  PROVE  KeepInv'
<1>1. /\ at' = "saving" /\ restoring' = FALSE
      /\ UNCHANGED <<imports, present, stored, disk>>
      /\ stored.media = entries /\ stored.current = current
      /\ SlidesOf(entries, current)
  BY DEF Delete, KeepInv, counters
<1>2. CASE recents[row] = current
  <2>0. recents[row] \in 1 .. imports
    BY DEF IdInv
  <2>1. entries' = WithoutSlides /\ current' = None /\ None # current
    BY <1>2, <2>0 DEF Delete, None, KeepInv
  <2>2. SlidesOf(entries', current')
    BY <2>1 DEF SlidesOf, WithoutSlides
  <2>3. ASSUME NEW p \in stored'.media \ entries' PROVE Dropped(p)'
    BY <1>1, <1>2, <2>1, <2>3 DEF WithoutSlides, Dropped, IsSlide
  <2> QED
    BY <1>1, <2>2, <2>3 DEF KeepInv, SlidesOf, IsSlide, Directory
<1>3. CASE recents[row] # current
  <2>1. entries' = entries /\ current' = current
    BY <1>3 DEF Delete
  <2> QED
    BY <1>1, <2>1 DEF KeepInv, SlidesOf, IsSlide, Directory
<1> QED
  BY <1>2, <1>3

LEMMA RemoveFilesKeeps == KeepInv /\ RemoveFiles => KeepInv'
<1> SUFFICES ASSUME KeepInv, RemoveFiles PROVE KeepInv'
  OBVIOUS
<1>1. UNCHANGED <<stored, present, at, restoring, entries, current, imports>>
  BY DEF RemoveFiles
<1>2. DiskPaths' \subseteq DiskPaths
  BY RemovalShrinks
<1>3. ASSUME NEW p \in stored.media, IsSlide(p), p \notin DiskPaths PROVE p \notin DiskPaths'
  BY <1>2, <1>3
<1> HIDE DEF DiskPaths
<1>4. at = "saving" => \A p \in stored.media \ entries : Dropped(p)'
  BY <1>1, <1>3 DEF KeepInv, Dropped, IsSlide
<1> QED
  BY <1>1, <1>4 DEF KeepInv, SlidesOf, IsSlide, Directory

\* AddMedia and RemoveMedia: a file of the user is added or taken out and the
\* whole is saved.
LEMMA MediaKeeps ==
  ASSUME KeepInv, NEW f \in Files, AddMedia(f) \/ RemoveMedia(f)
  PROVE  KeepInv'
<1>1. /\ at = "idle" /\ at' = "idle" /\ restoring' = FALSE
      /\ UNCHANGED <<imports, present, current>>
      /\ SlidesOf(entries, current)
      /\ entries' = entries \cup {f} \/ entries' = entries \ {f}
      /\ SaveSettings
  BY DEF AddMedia, RemoveMedia, KeepInv, counters
<1>2. stored'.media = entries' /\ stored'.current = current'
  BY <1>1, SaveStores
<1>3. SlidesOf(entries', current')
  BY <1>1 DEF SlidesOf, IsSlide
<1> QED
  BY <1>1, <1>2, <1>3 DEF KeepInv, SlidesOf, IsSlide, Directory

LEMMA ExitKeeps == KeepInv /\ Exit => KeepInv'
<1> SUFFICES ASSUME KeepInv, Exit PROVE KeepInv'
  OBVIOUS
<1>1. /\ restoring' = FALSE /\ at' = "off"
      /\ UNCHANGED <<imports, present, current, entries>>
      /\ SlidesOf(entries, current)
  BY DEF Exit, memory, counters, KeepInv
<1>2. stored'.media = entries' /\ stored'.current = current'
  BY <1>1, SaveStores DEF Exit
<1> QED
  BY <1>1, <1>2 DEF KeepInv, SlidesOf, IsSlide, Directory

\* The steps that change neither the entries nor what is stored.
LEMMA QuietKeeps ==
  ASSUME KeepInv,
         UNCHANGED <<stored, entries, current, restoring>>,
         at \notin {"off", "loading", "saving"},
         at' \notin {"off", "loading", "saving"},
         imports' \in Nat, present' \subseteq Files
  PROVE  KeepInv'
  BY DEF KeepInv, SlidesOf, IsSlide, Directory

LEMMA KeepStep == IdInv /\ NamedInv /\ KeepInv /\ [Next]_vars => KeepInv'
<1> SUFFICES ASSUME IdInv, NamedInv, KeepInv, [Next]_vars PROVE KeepInv'
  OBVIOUS
<1>0. imports \in Nat /\ present \subseteq Files
  BY DEF KeepInv
<1>1. CASE Notice
  BY <1>0, <1>1, QuietKeeps DEF Notice, counters
<1>2. CASE BeginImport
  BY <1>0, <1>2, QuietKeeps DEF BeginImport, memory
<1>3. CASE ImportFails
  BY <1>0, <1>3, QuietKeeps DEF ImportFails, memory, counters
<1>4. CASE RenameFails
  BY <1>0, <1>4, QuietKeeps DEF RenameFails, memory
<1>5. CASE Register
  BY <1>0, <1>5, QuietKeeps DEF Register, counters
<1>6. CASE Evict
  BY <1>0, <1>6, QuietKeeps DEF Evict, counters
<1>7. ASSUME NEW f \in Files, FileChanges(f) PROVE KeepInv'
  <2>1. /\ UNCHANGED <<stored, disk, at, restoring, entries, current, imports>>
        /\ present' \subseteq Files
    BY <1>0, <1>7 DEF FileChanges, memory
  <2> QED
    BY <2>1 DEF KeepInv, SlidesOf, IsSlide, Directory, Dropped, DiskPaths
<1>8. CASE Crash
  <2>1. at' = "off" /\ UNCHANGED <<stored, present, imports>>
    BY <1>8 DEF Crash
  <2> QED
    BY <2>1 DEF KeepInv, SlidesOf, IsSlide, Directory
<1>9. CASE UNCHANGED vars
  BY <1>9 DEF vars, memory, counters, KeepInv, SlidesOf, IsSlide, Directory, Dropped, DiskPaths
<1> QED
  BY <1>1, <1>2, <1>3, <1>4, <1>5, <1>6, <1>7, <1>8, <1>9, LoadPresentationsKeeps,
     LoadMediaKeeps, FinishKeeps, ActivateKeeps, DeleteKeeps, RemoveFilesKeeps, MediaKeeps,
     ExitKeeps DEF Next

\* What a step may take out of presenter.ini.
MayGo(p) ==
    \/ ~Exists(p)
    \/ at = "idle" /\ p \in entries \ entries'
    \/ IsSlide(p) /\ stored'.current # stored.current

LEMMA StepLosesNothing ==
  ASSUME KeepInv, [Next]_vars, NEW p \in stored.media \ stored'.media
  PROVE  MayGo(p)
<1>1. CASE LoadPresentations
  BY <1>1 DEF LoadPresentations, SaveSettings
<1>2. CASE LoadMedia
  BY <1>2 DEF LoadMedia, SaveSettings, Restored, MayGo
<1>3. CASE Finish
  <2>1. stored'.media = entries /\ stored'.current = current /\ at \in {"saving", "evicting"}
    BY <1>3, SaveStores DEF Finish, memory, KeepInv
  <2>2. p \notin entries /\ at = "saving" /\ Dropped(p)
    BY <2>1 DEF KeepInv
  <2>3. p \notin present
    BY <2>2 DEF KeepInv, Dropped, IsSlide
  <2> QED
    BY <2>1, <2>2, <2>3 DEF Dropped, MayGo, Exists
<1>4. ASSUME NEW f \in Files, AddMedia(f) \/ RemoveMedia(f) PROVE MayGo(p)
  <2>1. at = "idle" /\ stored'.media = entries' /\ stored.media = entries
    BY <1>4, SaveStores DEF AddMedia, RemoveMedia, KeepInv
  <2> QED
    BY <2>1 DEF MayGo
<1>5. CASE Exit
  <2>1. stored'.media = stored.media
    BY <1>5, SaveStores DEF Exit, memory, KeepInv
  <2> QED
    BY <2>1
<1>6. CASE stored' = stored
  BY <1>6
<1> QED
  BY <1>1, <1>2, <1>3, <1>4, <1>5, <1>6
     DEF Next, vars, Notice, BeginImport, ImportFails, RenameFails, Register, Evict,
         RemoveFiles, Activate, Delete, FileChanges, Crash

\* Whenever the process dies, presenter.ini has lost no entry whose file is
\* there but by the user's doing: nothing is saved before the library has been
\* restored, and every operation saves what it has left.
THEOREM LibraryIsKept == Spec => LibraryKept
<1>1. KeepInv /\ [Next]_vars =>
          [\A p \in stored.media \ stored'.media :
               \/ ~Exists(p)
               \/ at = "idle" /\ p \in entries \ entries'
               \/ IsSlide(p) /\ stored'.current # stored.current]_vars
  BY StepLosesNothing DEF MayGo
<1> QED
  BY <1>1, KeepInit, KeepStep, NamedInit, NamedStep, IdInit, IdStep, PTL DEF Spec, LibraryKept

-----------------------------------------------------------------------------
(* Missing files.                                                          *)

\* The entries that were reported are in no entry list, and the missing files
\* that are about to be reported are in none either.
TellInv ==
    /\ told \cap (stored.media \cup entries) = {}
    /\ at = "noticing" => missing \cap (told \cup stored.media \cup entries) = {}
    /\ at # "noticing" => missing = {}

\* What the user has added is in presenter.ini, or its file was missing once.
OwnedInv ==
    /\ owned \subseteq Files
    /\ owned \subseteq stored.media \cup missing \cup told \cup untold
    /\ \A d \in DOMAIN disk : disk[d] \subseteq Slides

LEMMA TellInit == Init => TellInv
  BY DEF Init, TellInv

\* What is saved was an entry, or was saved before.
LEMMA SaveKeeps ==
  ASSUME SaveSettings
  PROVE  stored'.media = stored.media \/ stored'.media = entries'
  BY DEF SaveSettings

LEMMA TellStep == TellInv /\ [Next]_vars => TellInv'
<1> SUFFICES ASSUME TellInv, [Next]_vars PROVE TellInv'
  OBVIOUS
<1> USE DEF TellInv
<1>1. CASE LoadPresentations
  BY <1>1 DEF LoadPresentations, SaveSettings, notices
<1>2. CASE LoadMedia
  <2>1. entries' \subseteq stored.media /\ missing' \subseteq stored.media
        /\ missing' \cap entries' = {} /\ told' = told
    BY <1>2 DEF LoadMedia, Restored, notices
  <2>2. stored'.media = entries'
    BY <1>2 DEF LoadMedia, SaveSettings
  <2>3. at' # "noticing" => missing' = {}
    BY <1>2 DEF LoadMedia
  <2>4. told' \cap (stored'.media \cup entries') = {}
        /\ missing' \cap (told' \cup stored'.media \cup entries') = {}
    BY <2>1, <2>2
  <2> QED
    BY <2>3, <2>4
<1>3. CASE Notice
  BY <1>3 DEF Notice
<1>4. CASE BeginImport
  BY <1>4 DEF BeginImport, memory, notices
<1>5. CASE ImportFails
  BY <1>5 DEF ImportFails, memory, notices
<1>6. CASE RenameFails
  BY <1>6 DEF RenameFails, memory, notices
<1>7. CASE Register
  BY <1>7 DEF Register, notices
<1>8. CASE Evict
  BY <1>8 DEF Evict, notices
<1>9. CASE RemoveFiles
  BY <1>9 DEF RemoveFiles, notices
<1>10. CASE Finish
  BY <1>10, SaveKeeps DEF Finish, memory, notices
<1>11. ASSUME NEW id \in 1 .. imports, Activate(id) PROVE TellInv'
  BY <1>11 DEF Activate, WithoutSlides
<1>12. ASSUME NEW row \in DOMAIN recents, Delete(row) PROVE TellInv'
  BY <1>12 DEF Delete, WithoutSlides, notices
<1>13. ASSUME NEW f \in Files, AddMedia(f) PROVE TellInv'
  BY <1>13, SaveKeeps DEF AddMedia
<1>14. ASSUME NEW f \in Files, RemoveMedia(f) PROVE TellInv'
  BY <1>14, SaveKeeps DEF RemoveMedia
<1>15. ASSUME NEW f \in Files, FileChanges(f) PROVE TellInv'
  BY <1>15 DEF FileChanges, memory, notices
<1>16. CASE Exit
  BY <1>16, SaveKeeps DEF Exit, memory, notices
<1>17. CASE Crash
  BY <1>17 DEF Crash
<1>18. CASE UNCHANGED vars
  BY <1>18 DEF vars, memory, notices
<1> QED
  BY <1>1, <1>2, <1>3, <1>4, <1>5, <1>6, <1>7, <1>8, <1>9, <1>10, <1>11, <1>12, <1>13,
     <1>14, <1>15, <1>16, <1>17, <1>18 DEF Next

LEMMA OwnedInit == Init => OwnedInv
  BY DEF Init, OwnedInv

\* Saving in the end of an operation keeps the files of the user.
LEMMA SaveKeepsOwned ==
  ASSUME KeepInv, OwnedInv, at \notin {"off", "loading"}, SaveSettings, restoring' = FALSE,
         UNCHANGED <<entries, owned, missing, told, untold>>
  PROVE  owned' \subseteq (stored.media \cup missing \cup told \cup untold)'
<1>1. stored'.media = entries
  BY SaveStores
<1>2. \A p \in stored.media \ entries : p \notin Files
  BY DEF KeepInv, Dropped, IsSlide
<1> QED
  BY <1>1, <1>2 DEF OwnedInv

LEMMA OwnedStep == IdInv /\ KeepInv /\ TellInv /\ OwnedInv /\ [Next]_vars => OwnedInv'
<1> SUFFICES ASSUME IdInv, KeepInv, TellInv, OwnedInv, [Next]_vars PROVE OwnedInv'
  OBVIOUS
<1> DEFINE OnDisk == \A d \in DOMAIN disk : disk[d] \subseteq Slides
<1>0. OnDisk
  BY DEF OwnedInv
<1>1. OnDisk'
  <2>1. CASE UNCHANGED disk
    BY <1>0, <2>1
  <2>2. CASE BeginImport \/ RenameFails
    BY <1>0, <2>2 DEF BeginImport, RenameFails, WithDirectory
  <2>3. CASE ImportFails
    BY <1>0, <2>3 DEF ImportFails, AfterFailure, RemovalFails, WithoutDirectory
  <2>4. CASE Register
    BY <1>0, <2>4 DEF Register
  <2>5. CASE RemoveFiles
    BY <1>0, <2>5 DEF RemoveFiles, RemovalFails, WithoutDirectory
  <2> QED
    BY <2>1, <2>2, <2>3, <2>4, <2>5
       DEF Next, vars, LoadPresentations, LoadMedia, Notice, Evict, Finish, Activate, Delete,
           AddMedia, RemoveMedia, Exit, Crash, FileChanges
<1> HIDE DEF OnDisk
<1>2. ASSUME owned' \subseteq Files,
             owned' \subseteq (stored.media \cup missing \cup told \cup untold)'
      PROVE  OwnedInv'
  BY <1>1, <1>2 DEF OwnedInv, OnDisk
<1>3. owned \subseteq Files /\ owned \subseteq stored.media \cup missing \cup told \cup untold
  BY DEF OwnedInv
<1>4. ASSUME UNCHANGED <<stored, missing, notices>> PROVE OwnedInv'
  BY <1>2, <1>3, <1>4 DEF notices
<1>5. CASE LoadPresentations
  BY <1>4, <1>5 DEF LoadPresentations, SaveSettings
<1>6. CASE LoadMedia
  <2>1. stored'.media = entries' /\ stored.media \subseteq entries' \cup missing' /\ missing = {}
    BY <1>6, SaveStores DEF LoadMedia, Restored, TellInv
  <2> QED
    BY <1>2, <1>3, <1>6, <2>1 DEF LoadMedia, notices
<1>7. CASE Notice
  BY <1>2, <1>3, <1>7 DEF Notice
<1>8. CASE BeginImport \/ ImportFails \/ RenameFails
  BY <1>4, <1>8 DEF BeginImport, ImportFails, RenameFails, memory
<1>9. CASE Register \/ Evict \/ RemoveFiles
  BY <1>4, <1>9 DEF Register, Evict, RemoveFiles
<1>10. CASE Finish \/ Exit
  <2>1. /\ at \notin {"off", "loading"} /\ SaveSettings /\ restoring' = FALSE
        /\ UNCHANGED <<entries, owned, missing, told, untold>>
    BY <1>10 DEF Finish, Exit, memory, notices, IdInv
  <2> QED
    BY <1>2, <1>3, <2>1, SaveKeepsOwned
<1>11. ASSUME NEW id \in 1 .. imports, Activate(id) PROVE OwnedInv'
  <2> DEFINE shown == SlidePaths(id, disk[Directory(id)])
  <2>1. /\ Directory(id) \in DOMAIN disk
        /\ told' = told \ shown /\ untold' = untold \ shown
        /\ UNCHANGED <<stored, missing, owned>>
    BY <1>11 DEF Activate
  <2>2. shown \subseteq SlidePaths(id, Slides)
    BY <1>0, <2>1 DEF OnDisk, SlidePaths
  <2>3. id \in 1 .. MaxImports
    BY PresenterLibraryAssumption DEF IdInv
  <2> HIDE DEF shown
  <2>4. shown \cap Files = {}
    BY <2>2, <2>3, SlidesAreNotFiles
  <2> QED
    BY <1>2, <1>3, <2>1, <2>4
<1>12. ASSUME NEW row \in DOMAIN recents, Delete(row) PROVE OwnedInv'
  BY <1>4, <1>12 DEF Delete
<1>13. ASSUME NEW f \in Files, AddMedia(f) \/ RemoveMedia(f) PROVE OwnedInv'
  <2>1. stored'.media = entries' /\ stored.media = entries
    BY <1>13, SaveStores DEF AddMedia, RemoveMedia, KeepInv
  <2>2. CASE AddMedia(f)
    BY <1>2, <1>3, <2>1, <2>2 DEF AddMedia
  <2>3. CASE RemoveMedia(f)
    BY <1>2, <1>3, <2>1, <2>3 DEF RemoveMedia
  <2> QED
    BY <1>13, <2>2, <2>3
<1>14. ASSUME NEW f \in Files, FileChanges(f) PROVE OwnedInv'
  BY <1>4, <1>14 DEF FileChanges, memory
<1>15. CASE Crash
  BY <1>2, <1>3, <1>15 DEF Crash
<1>16. CASE UNCHANGED vars
  BY <1>4, <1>16 DEF vars, memory
<1> QED
  BY <1>5, <1>6, <1>7, <1>8, <1>9, <1>10, <1>11, <1>12, <1>13, <1>14, <1>15, <1>16 DEF Next

\* A file that is missing is reported at most once until it is added again, since
\* LoadSettings drops it from presenter.ini before the notice is shown; and what the
\* user has added is in the library or has been reported, unless the program was
\* killed between the two.
THEOREM MissingIsToldOnce == Spec => []ToldOnce
<1>1. KeepInv /\ TellInv /\ OwnedInv => ToldOnce
  BY DEF KeepInv, TellInv, OwnedInv, ToldOnce
<1> QED
  BY <1>1, IdInit, IdStep, NamedInit, NamedStep, KeepInit, KeepStep, TellInit, TellStep,
     OwnedInit, OwnedStep, PTL DEF Spec

-----------------------------------------------------------------------------
(* The loaded presentation.                                                *)

Whole(id) == Directory(id) \in DOMAIN disk /\ disk[Directory(id)] = Slides

\* The slides of presentation id that were not thrown away are all among paths.
Shows(paths, id) == id \in discarded \/ SlidePaths(id, Slides) \subseteq paths

\* Every presentation that is named anywhere is whole until its removal begins.
ListedAreWhole ==
    \A id \in ToSet(recents) \cup ToSet(stored.recents) : id \in discarded \/ Whole(id)

LoadedIsShown ==
    at \notin {"off", "loading"} /\ current # None => Remembers(current) /\ Shows(entries, current)

StoredIsShown ==
    stored.current \in ToSet(stored.recents) => Shows(stored.media, stored.current)

LoadingTheStored ==
    at = "loading" => current = None \/ (current = stored.current /\ Remembers(current))

RemovesDiscarded ==
    /\ removing # NoDirectory => \E id \in discarded : removing = Directory(id)
    /\ at \notin {"saving", "evicting"} => removing = NoDirectory

WholeInv ==
    ListedAreWhole /\ LoadedIsShown /\ StoredIsShown /\ LoadingTheStored /\ RemovesDiscarded

LEMMA WholeInit == Init => WholeInv
  BY NothingRecent
     DEF Init, WholeInv, ListedAreWhole, LoadedIsShown, StoredIsShown, LoadingTheStored,
         RemovesDiscarded, None

LEMMA DirectoriesDiffer ==
  /\ \A i, j : Directory(i) = Directory(j) => i = j
  /\ \A i, j : Directory(i) # Temporary(j)
  /\ \A i : Directory(i) # NoDirectory /\ Temporary(i) # NoDirectory
  BY DEF Directory, Temporary, NoDirectory

\* A whole presentation stays so when its own directory does.
LEMMA StaysWhole ==
  ASSUME NEW id, Whole(id), Directory(id) \in DOMAIN disk',
         disk'[Directory(id)] = disk[Directory(id)]
  PROVE  Whole(id)'
  BY DEF Whole, Directory

LEMMA NoneIsNotListed ==
  ASSUME NEW n, NEW s \in Seq(1 .. n)
  PROVE  None \notin ToSet(s)
<1>1. \A i \in DOMAIN s : s[i] \in 1 .. n
  BY ElementOfSeq, LenProperties
<1>2. \A x \in 1 .. n : x # 0
  OBVIOUS
<1> QED
  BY <1>1, <1>2 DEF ToSet, None

\* What SaveSettings writes at the end of an operation.
LEMMA SavedIsShown ==
  ASSUME IdInv', restoring' = FALSE, SaveSettings, current' # None => Shows(entries, current)'
  PROVE  StoredIsShown'
<1>1. stored'.media = entries' /\ stored'.recents = recents' /\ stored'.current = current'
  BY SaveStores
<1>2. CASE current' # None
  BY <1>1, <1>2 DEF StoredIsShown, Shows, SlidePaths, Directory
<1>3. CASE current' = None
  <2>1. stored'.recents \in Seq(1 .. imports')
    BY DEF IdInv
  <2>2. None \notin ToSet(stored'.recents)
    BY <2>1, NoneIsNotListed
  <2> QED
    BY <1>1, <1>3, <2>2 DEF StoredIsShown
<1> QED
  BY <1>2, <1>3

\* The steps that leave the lists and the entries alone and throw no slide of
\* a presentation away whose removal has not begun.
LEMMA QuietIsWhole ==
  ASSUME WholeInv,
         UNCHANGED <<stored, recents, entries, current, discarded>>,
         at' \in {"off", "loading"} <=> at \in {"off", "loading"},
         at' = "loading" => at = "loading",
         \A id : id \in discarded \/ (Whole(id) => Whole(id)')
  PROVE  ListedAreWhole' /\ LoadedIsShown' /\ StoredIsShown' /\ LoadingTheStored'
<1> HIDE DEF Whole
<1>1. ListedAreWhole'
  BY DEF WholeInv, ListedAreWhole
<1>2. LoadedIsShown' /\ StoredIsShown' /\ LoadingTheStored'
  BY DEF WholeInv, LoadedIsShown, StoredIsShown, LoadingTheStored, Shows, SlidePaths, Remembers,
     Directory
<1> QED
  BY <1>1, <1>2

LEMMA LoadPresentationsIsWhole ==
  IdInv /\ NamedInv /\ WholeInv /\ LoadPresentations => WholeInv'
<1> SUFFICES ASSUME IdInv, NamedInv, WholeInv, LoadPresentations PROVE WholeInv'
  OBVIOUS
<1>1. IdInv' /\ recents' = stored.recents /\ stored' = stored
  BY LoadPresentationsIds
<1>2. /\ at = "off" /\ at' = "loading" /\ UNCHANGED <<discarded, disk, removing>>
      /\ current' = IF stored.current \in ToSet(stored.recents) THEN stored.current ELSE None
  BY LoadsTheStored DEF LoadPresentations
<1>3. ListedAreWhole'
  BY <1>1, <1>2 DEF WholeInv, ListedAreWhole, Whole, Directory
<1>4. StoredIsShown' /\ LoadedIsShown' /\ LoadingTheStored' /\ RemovesDiscarded'
  BY <1>1, <1>2 DEF WholeInv, StoredIsShown, LoadedIsShown, LoadingTheStored, RemovesDiscarded,
     Shows, SlidePaths, Remembers, Directory
<1> QED
  BY <1>3, <1>4 DEF WholeInv

LEMMA LoadMediaIsWhole == IdInv /\ IdInv' /\ WholeInv /\ LoadMedia => WholeInv'
<1> SUFFICES ASSUME IdInv, IdInv', WholeInv, LoadMedia PROVE WholeInv'
  OBVIOUS
<1>1. /\ at = "loading" /\ at' \in {"idle", "noticing"} /\ restoring' = FALSE /\ SaveSettings
      /\ UNCHANGED <<recents, current, disk, removing, discarded>>
      /\ entries' = Restored /\ recents = stored.recents
  BY DEF LoadMedia, IdInv, Settled
<1>2. stored'.recents = recents
  BY <1>1, SaveStores
<1>3. ASSUME current # None PROVE Remembers(current) /\ Shows(entries, current)'
  <2>1. Remembers(current) /\ current = stored.current /\ Shows(stored.media, current)
    BY <1>1, <1>3 DEF WholeInv, LoadingTheStored, StoredIsShown, Remembers
  <2>2. current \in discarded \/ Whole(current)
    BY <2>1 DEF WholeInv, ListedAreWhole, Remembers
  <2>3. CASE current \in discarded
    BY <1>1, <2>1, <2>3 DEF Shows
  <2>4. CASE SlidePaths(current, Slides) \subseteq stored.media /\ Whole(current)
    <3>1. SlidePaths(current, Slides) \subseteq DiskPaths
      BY <2>4 DEF SlidePaths, DiskPaths, Whole
    <3>2. SlidePaths(current, Slides) \subseteq entries'
      BY <1>1, <2>4, <3>1 DEF Restored, Exists
    <3> QED
      BY <1>1, <2>1, <3>2 DEF Shows, SlidePaths, Directory
  <2> QED
    BY <2>1, <2>2, <2>3, <2>4 DEF Shows
<1>4. StoredIsShown'
  BY <1>1, <1>3, SavedIsShown
<1>5. LoadedIsShown' /\ LoadingTheStored' /\ RemovesDiscarded'
  BY <1>1, <1>3 DEF WholeInv, LoadedIsShown, LoadingTheStored, RemovesDiscarded, Remembers
<1>6. ListedAreWhole'
  BY <1>1, <1>2 DEF WholeInv, ListedAreWhole, Whole, Directory
<1> QED
  BY <1>4, <1>5, <1>6 DEF WholeInv

LEMMA RegisterIsWhole == IdInv /\ WholeInv /\ Register => WholeInv'
<1> SUFFICES ASSUME IdInv, WholeInv, Register PROVE WholeInv'
  OBVIOUS
<1>1. ToSet(recents') = {imports} \cup ToSet(recents)
  BY RegisterIds
<1>2. /\ at = "converting" /\ at' = "evicting"
      /\ UNCHANGED <<stored, entries, current, removing, discarded>>
      /\ disk' = [d \in (DOMAIN disk \ {Temporary(imports)}) \cup {Directory(imports)} |->
                     IF d = Directory(imports) THEN Slides ELSE disk[d]]
  BY DEF Register
<1>3. Whole(imports)'
  <2>1. Directory(imports) \in DOMAIN disk' /\ disk'[Directory(imports)] = Slides
    BY <1>2
  <2>2. imports' = imports
    BY DEF Register, counters
  <2> QED
    BY <2>1, <2>2 DEF Whole, Directory
<1>4. ASSUME NEW id, Whole(id) PROVE Whole(id)'
  <2>1. Directory(id) # Temporary(imports)
    BY DirectoriesDiffer
  <2>2. Directory(id) \in DOMAIN disk' /\ disk'[Directory(id)] = disk[Directory(id)]
    BY <1>2, <1>4, <2>1 DEF Whole
  <2> QED
    BY <1>4, <2>2, StaysWhole
<1>5. imports' = imports
  BY DEF Register, counters
<1>6. ListedAreWhole'
  <2> HIDE DEF Whole
  <2> SUFFICES ASSUME NEW id \in {imports} \cup ToSet(recents) \cup ToSet(stored.recents)
               PROVE  id \in discarded \/ Whole(id)'
    BY <1>1, <1>2 DEF ListedAreWhole
  <2>1. CASE id = imports
    BY <1>3, <1>5, <2>1
  <2>2. CASE id # imports
    BY <1>4, <2>2 DEF WholeInv, ListedAreWhole
  <2> QED
    BY <2>1, <2>2
<1>7. LoadedIsShown' /\ StoredIsShown' /\ LoadingTheStored' /\ RemovesDiscarded'
  BY <1>1, <1>2 DEF WholeInv, LoadedIsShown, StoredIsShown, LoadingTheStored, RemovesDiscarded,
     Shows, SlidePaths, Remembers, Directory
<1> QED
  BY <1>6, <1>7 DEF WholeInv

LEMMA EvictIsWhole == IdInv /\ WholeInv /\ Evict => WholeInv'
<1> SUFFICES ASSUME IdInv, WholeInv, Evict PROVE WholeInv'
  OBVIOUS
<1> DEFINE gone == recents[Evicted]
<1>1. gone # current /\ ToSet(recents') = ToSet(recents) \ {gone}
  BY EvictIds
<1>2. /\ at = "evicting" /\ at' = "evicting"
      /\ UNCHANGED <<stored, disk, entries, current>>
      /\ removing' = Directory(gone) /\ discarded' = discarded \cup {gone}
  BY DEF Evict
<1> HIDE DEF gone
<1>3. \A id : Whole(id) => Whole(id)'
  BY <1>2 DEF Whole, Directory
<1>4. ListedAreWhole'
  <2> HIDE DEF Whole
  <2> QED
    BY <1>1, <1>2, <1>3 DEF WholeInv, ListedAreWhole
<1>5. LoadedIsShown' /\ StoredIsShown'
  BY <1>1, <1>2 DEF WholeInv, LoadedIsShown, StoredIsShown, Shows, SlidePaths, Remembers, Directory
<1>6. LoadingTheStored' /\ RemovesDiscarded'
  BY <1>2 DEF LoadingTheStored, RemovesDiscarded, Directory
<1> QED
  BY <1>4, <1>5, <1>6 DEF WholeInv

\* A presentation that is listed and not discarded is not in the directory that
\* is being removed.
LEMMA RemoveFilesIsWhole == WholeInv /\ RemoveFiles => WholeInv'
<1> SUFFICES ASSUME WholeInv, RemoveFiles PROVE WholeInv'
  OBVIOUS
<1>1. UNCHANGED <<stored, at, recents, entries, current, discarded>>
  BY DEF RemoveFiles
<1>2. PICK victim \in discarded : removing = Directory(victim)
  BY DEF RemoveFiles, WholeInv, RemovesDiscarded
<1>3. removing' \in {removing, NoDirectory}
  BY DEF RemoveFiles
<1>4. ASSUME NEW id, id # victim, Whole(id) PROVE Whole(id)'
  <2>1. Directory(id) # removing
    BY <1>2, <1>4, DirectoriesDiffer
  <2>2. CASE removing \in DOMAIN disk /\ \E s \in disk[removing] :
                 disk' = [disk EXCEPT ![removing] = @ \ {s}]
    <3>1. Directory(id) \in DOMAIN disk' /\ disk'[Directory(id)] = disk[Directory(id)]
      BY <1>4, <2>1, <2>2 DEF Whole
    <3> QED
      BY <1>4, <3>1, StaysWhole
  <2>3. CASE disk' = WithoutDirectory(removing)
    <3>1. Directory(id) \in DOMAIN disk' /\ disk'[Directory(id)] = disk[Directory(id)]
      BY <1>4, <2>1, <2>3 DEF Whole, WithoutDirectory
    <3> QED
      BY <1>4, <3>1, StaysWhole
  <2>4. CASE RemovalFails
    BY <1>4, <2>4 DEF RemovalFails, Whole, Directory
  <2> QED
    BY <2>2, <2>3, <2>4 DEF RemoveFiles
<1>5. \A id : id \in discarded \/ (Whole(id) => Whole(id)')
  BY <1>2, <1>4
<1>6. ListedAreWhole' /\ LoadedIsShown' /\ StoredIsShown' /\ LoadingTheStored'
  BY <1>1, <1>5, QuietIsWhole
<1>7. RemovesDiscarded'
  BY <1>1, <1>3 DEF WholeInv, RemovesDiscarded
<1> QED
  BY <1>6, <1>7 DEF WholeInv

LEMMA FinishIsWhole == IdInv /\ IdInv' /\ WholeInv /\ Finish => WholeInv'
<1> SUFFICES ASSUME IdInv, IdInv', WholeInv, Finish PROVE WholeInv'
  OBVIOUS
<1>1. /\ at \in {"saving", "evicting"} /\ at' = "idle" /\ restoring' = FALSE /\ SaveSettings
      /\ UNCHANGED <<recents, current, entries, disk, removing, discarded>>
      /\ removing = NoDirectory
  BY DEF Finish, memory, IdInv
<1>2. stored'.recents = recents
  BY <1>1, SaveStores
<1>3. current # None => Remembers(current) /\ Shows(entries, current)'
  BY <1>1 DEF WholeInv, LoadedIsShown, Shows, SlidePaths, Directory
<1>4. StoredIsShown'
  BY <1>1, <1>3, SavedIsShown
<1>5. LoadedIsShown' /\ LoadingTheStored' /\ RemovesDiscarded'
  BY <1>1, <1>3 DEF LoadedIsShown, LoadingTheStored, RemovesDiscarded, Remembers
<1>6. ListedAreWhole'
  BY <1>1, <1>2 DEF WholeInv, ListedAreWhole, Whole, Directory
<1> QED
  BY <1>4, <1>5, <1>6 DEF WholeInv

\* The loaded presentation is in the list, so loading another throws no
\* directory away.
LEMMA ActivateRemovesNothing ==
  ASSUME WholeInv, NEW id \in 1 .. imports, Activate(id)
  PROVE  removing' = NoDirectory
  BY DEF WholeInv, LoadedIsShown, Activate

LEMMA ActivateIsWhole ==
  ASSUME IdInv, WholeInv, NEW id \in 1 .. imports, Activate(id)
  PROVE  WholeInv'
<1>1. /\ at = "idle" /\ at' = "saving" /\ Remembers(id) /\ current' = id
      /\ UNCHANGED <<stored, disk, recents, discarded>>
      /\ entries' = WithoutSlides \cup SlidePaths(id, disk[Directory(id)])
  BY DEF Activate
<1>2. removing' = NoDirectory
  BY ActivateRemovesNothing
<1>3. Shows(entries, id)'
  <2>1. id \in discarded \/ Whole(id)
    BY <1>1 DEF WholeInv, ListedAreWhole, Remembers
  <2>2. CASE id \in discarded
    BY <1>1, <2>2 DEF Shows
  <2>3. CASE Whole(id)
    BY <1>1, <2>3 DEF Shows, Whole, SlidePaths, Directory
  <2> QED
    BY <2>1, <2>2, <2>3
<1>4. LoadedIsShown'
  BY <1>1, <1>3 DEF LoadedIsShown, Remembers, Shows, SlidePaths, Directory
<1>5. ListedAreWhole' /\ StoredIsShown' /\ LoadingTheStored' /\ RemovesDiscarded'
  BY <1>1, <1>2 DEF WholeInv, ListedAreWhole, StoredIsShown, LoadingTheStored, RemovesDiscarded,
     Shows, SlidePaths, Whole, Directory
<1> QED
  BY <1>4, <1>5 DEF WholeInv

LEMMA DeleteIsWhole ==
  ASSUME IdInv, WholeInv, NEW row \in DOMAIN recents, Delete(row)
  PROVE  WholeInv'
<1> DEFINE gone == recents[row]
<1>1. ToSet(recents') = ToSet(recents) \ {gone}
  BY DeleteIds
<1>2. /\ at = "idle" /\ at' = "saving"
      /\ UNCHANGED <<stored, disk>>
      /\ removing' = Directory(gone) /\ discarded' = discarded \cup {gone}
      /\ \/ gone = current /\ current' = None
         \/ gone # current /\ UNCHANGED <<entries, current>>
  BY DEF Delete
<1> HIDE DEF gone
<1>3. \A id : Whole(id) => Whole(id)'
  BY <1>2 DEF Whole, Directory
<1>4. ListedAreWhole'
  <2> HIDE DEF Whole
  <2> QED
    BY <1>1, <1>2, <1>3 DEF WholeInv, ListedAreWhole
<1>5. LoadedIsShown'
  BY <1>1, <1>2 DEF WholeInv, LoadedIsShown, Shows, SlidePaths, Remembers, Directory
<1>6. StoredIsShown' /\ LoadingTheStored' /\ RemovesDiscarded'
  BY <1>2 DEF WholeInv, StoredIsShown, LoadingTheStored, RemovesDiscarded, Shows, SlidePaths, Directory
<1> QED
  BY <1>4, <1>5, <1>6 DEF WholeInv

\* No file of the user is the slide of a presentation.
LEMMA MediaIsWhole ==
  ASSUME IdInv, IdInv', WholeInv, NEW f \in Files, AddMedia(f) \/ RemoveMedia(f)
  PROVE  WholeInv'
<1>1. /\ at = "idle" /\ at' = "idle" /\ restoring' = FALSE /\ SaveSettings
      /\ UNCHANGED <<recents, current, disk, removing, discarded>>
      /\ entries' = entries \cup {f} \/ entries' = entries \ {f}
  BY DEF AddMedia, RemoveMedia, IdInv
<1>2. stored'.recents = recents
  BY <1>1, SaveStores
<1>3. ASSUME current # None PROVE Remembers(current) /\ Shows(entries, current)'
  <2>1. Remembers(current) /\ Shows(entries, current)
    BY <1>1, <1>3 DEF WholeInv, LoadedIsShown
  <2>2. current \in 1 .. MaxImports
    <3>1. current \in 1 .. imports
      BY <2>1, ElementOfSeq, LenProperties DEF Remembers, ToSet, IdInv
    <3> QED
      BY <3>1, PresenterLibraryAssumption DEF IdInv
  <2>3. f \notin SlidePaths(current, Slides)
    BY <2>2, SlidesAreNotFiles
  <2> QED
    BY <1>1, <2>1, <2>3 DEF Shows, SlidePaths, Directory
<1>4. StoredIsShown'
  BY <1>1, <1>3, SavedIsShown
<1>5. LoadedIsShown' /\ LoadingTheStored' /\ RemovesDiscarded'
  BY <1>1, <1>3 DEF WholeInv, LoadedIsShown, LoadingTheStored, RemovesDiscarded, Remembers
<1>6. ListedAreWhole'
  BY <1>1, <1>2 DEF WholeInv, ListedAreWhole, Whole, Directory
<1> QED
  BY <1>4, <1>5, <1>6 DEF WholeInv

LEMMA ExitIsWhole == IdInv /\ IdInv' /\ WholeInv /\ Exit => WholeInv'
<1> SUFFICES ASSUME IdInv, IdInv', WholeInv, Exit PROVE WholeInv'
  OBVIOUS
<1>1. /\ at = "idle" /\ at' = "off" /\ restoring' = FALSE /\ SaveSettings
      /\ UNCHANGED <<recents, current, entries, disk, removing, discarded>>
  BY DEF Exit, memory, IdInv
<1>2. stored'.recents = recents
  BY <1>1, SaveStores
<1>3. current # None => Shows(entries, current)'
  BY <1>1 DEF WholeInv, LoadedIsShown, Shows, SlidePaths, Directory
<1>4. StoredIsShown'
  BY <1>1, <1>3, SavedIsShown
<1>5. ListedAreWhole' /\ LoadedIsShown' /\ LoadingTheStored' /\ RemovesDiscarded'
  BY <1>1, <1>2 DEF WholeInv, ListedAreWhole, LoadedIsShown, LoadingTheStored, RemovesDiscarded,
     Whole, Directory
<1> QED
  BY <1>4, <1>5 DEF WholeInv

LEMMA CrashIsWhole == WholeInv /\ Crash => WholeInv'
<1> SUFFICES ASSUME WholeInv, Crash PROVE WholeInv'
  OBVIOUS
<1>1. /\ at' = "off" /\ recents' = << >> /\ removing' = NoDirectory
      /\ UNCHANGED <<stored, disk, discarded>>
  BY DEF Crash
<1>2. ToSet(recents') = {}
  BY <1>1, NothingRecent
<1>3. ListedAreWhole'
  BY <1>1, <1>2 DEF WholeInv, ListedAreWhole, Whole, Directory
<1>4. LoadedIsShown' /\ StoredIsShown' /\ LoadingTheStored' /\ RemovesDiscarded'
  BY <1>1 DEF WholeInv, LoadedIsShown, StoredIsShown, LoadingTheStored, RemovesDiscarded,
     Shows, SlidePaths, Directory
<1> QED
  BY <1>3, <1>4 DEF WholeInv

\* The temporary directory of an import is nobody's.
LEMMA TemporaryIsNobodys ==
  ASSUME NEW n, NEW slides,
         disk' = WithDirectory(Temporary(n), slides) \/ disk' = WithoutDirectory(Temporary(n))
  PROVE  \A id : Whole(id) => Whole(id)'
<1> SUFFICES ASSUME NEW id, Whole(id) PROVE Whole(id)'
  OBVIOUS
<1>1. Directory(id) # Temporary(n)
  BY DirectoriesDiffer
<1>2. Directory(id) \in DOMAIN disk' /\ disk'[Directory(id)] = disk[Directory(id)]
  BY <1>1 DEF WithDirectory, WithoutDirectory, Whole
<1> QED
  BY <1>2, StaysWhole

LEMMA WholeStep == IdInv /\ IdInv' /\ NamedInv /\ WholeInv /\ [Next]_vars => WholeInv'
<1> SUFFICES ASSUME IdInv, IdInv', NamedInv, WholeInv, [Next]_vars PROVE WholeInv'
  OBVIOUS
<1>1. ASSUME UNCHANGED <<stored, recents, entries, current, discarded, removing>>,
             at \notin {"off", "loading", "saving", "evicting"},
             at' \notin {"off", "loading", "saving", "evicting"},
             \A id : Whole(id) => Whole(id)'
      PROVE  WholeInv'
  <2>1. ListedAreWhole' /\ LoadedIsShown' /\ StoredIsShown' /\ LoadingTheStored'
    BY <1>1, QuietIsWhole
  <2> QED
    BY <1>1, <2>1 DEF WholeInv, RemovesDiscarded
<1>2. ASSUME UNCHANGED disk PROVE \A id : Whole(id) => Whole(id)'
  BY <1>2 DEF Whole, Directory
<1>3. CASE Notice
  BY <1>1, <1>2, <1>3 DEF Notice
<1>4. CASE BeginImport
  BY <1>1, <1>4, TemporaryIsNobodys DEF BeginImport, memory
<1>5. CASE ImportFails
  BY <1>1, <1>2, <1>5, TemporaryIsNobodys DEF ImportFails, RemovalFails, memory, AfterFailure
<1>6. CASE RenameFails
  BY <1>1, <1>6, TemporaryIsNobodys DEF RenameFails, memory
<1>7. ASSUME UNCHANGED <<stored, recents, entries, current, discarded, removing, at, disk>>
      PROVE  WholeInv'
  <2>1. ListedAreWhole' /\ LoadedIsShown' /\ StoredIsShown' /\ LoadingTheStored'
    BY <1>2, <1>7, QuietIsWhole
  <2> QED
    BY <1>7, <2>1 DEF WholeInv, RemovesDiscarded
<1>8. ASSUME NEW f \in Files, FileChanges(f) PROVE WholeInv'
  BY <1>7, <1>8 DEF FileChanges, memory
<1>9. CASE UNCHANGED vars
  BY <1>7, <1>9 DEF vars, memory
<1> QED
  BY <1>3, <1>4, <1>5, <1>6, <1>8, <1>9, LoadPresentationsIsWhole, LoadMediaIsWhole,
     RegisterIsWhole, EvictIsWhole, RemoveFilesIsWhole, FinishIsWhole, ActivateIsWhole,
     DeleteIsWhole, MediaIsWhole, ExitIsWhole, CrashIsWhole DEF Next

\* Importing others, restarting or crashing takes nothing of the loaded
\* presentation, unless its own removal was cut short.
THEOREM LoadedIsWhole == Spec => []LoadedStaysWhole
<1>1. WholeInv => LoadedStaysWhole
  BY DEF WholeInv, LoadedIsShown, ListedAreWhole, LoadedStaysWhole, Shows, Remembers, Whole
<1> QED
  BY <1>1, IdInit, IdStep, NamedInit, NamedStep, WholeInit, WholeStep, PTL DEF Spec

-----------------------------------------------------------------------------
(* The directories.                                                        *)

Owned(s) == {Directory(s[i]) : i \in DOMAIN s}

\* The directory a conversion writes to.
InWork == IF at = "converting" THEN {Temporary(imports)} ELSE {}

\* The directories nobody will remove, and those that are not what they should be.
Stray == DOMAIN disk \ (Owned(recents) \cup {removing} \cup InWork)
Lacking == {d \in Owned(recents) : d \notin DOMAIN disk \/ disk[d] # Slides}

Counted ==
    /\ IsFiniteSet(DOMAIN disk) /\ NoDirectory \notin DOMAIN disk
    /\ crashes \in Nat /\ failures \in Nat

AccountedWhenOff ==
    at = "off" => /\ Cardinality(Orphans) <= crashes + failures
                  /\ Cardinality(Dangling) <= crashes

AccountedWhenOn ==
    at # "off" => /\ Cardinality(Stray) <= crashes + failures
                  /\ Cardinality(Lacking) <= crashes

\* The list of an operation that is not saved yet is one directory away from
\* what is stored, so that a crash leaves one directory too many and one too few.
OneAway ==
    at \in {"saving", "evicting"} =>
        /\ removing \notin Owned(recents)
        /\ \E d : Remembereds \ Owned(recents) \subseteq {d}
        /\ Owned(recents) \cup {removing} \subseteq
               Remembereds \cup {NoDirectory} \cup
               (IF at = "evicting" THEN {Directory(imports)} ELSE {})

NoneGoneYet == at = "evicting" /\ Len(recents) > Remembered => Remembereds \subseteq Owned(recents)

DirInv == Counted /\ AccountedWhenOff /\ AccountedWhenOn /\ OneAway /\ NoneGoneYet

LEMMA OwnedIs ==
  ASSUME NEW s
  PROVE  Owned(s) = {Directory(id) : id \in ToSet(s)}
  BY DEF Owned, ToSet

LEMMA OwnedIsFinite ==
  ASSUME NEW S, NEW s \in Seq(S)
  PROVE  IsFiniteSet(Owned(s))
<1> DEFINE f == [i \in DOMAIN s |-> Directory(s[i])]
<1>1. f \in Surjection(DOMAIN s, Owned(s))
  BY Zenon DEF Surjection, Owned
<1>2. DOMAIN s = 1 .. Len(s) /\ Len(s) \in Int
  BY LenProperties
<1>3. IsFiniteSet(DOMAIN s)
  BY <1>2, FS_Interval
<1> HIDE DEF f
<1> QED
  BY <1>1, <1>3, FS_Surjection

\* Counting: what is not more than before, and what is one more.
LEMMA NotMore ==
  ASSUME NEW T, IsFiniteSet(T), NEW S, S \subseteq T, NEW n \in Nat, Cardinality(T) <= n
  PROVE  Cardinality(S) <= n
<1>1. IsFiniteSet(S) /\ Cardinality(S) <= Cardinality(T)
  BY FS_Subset
<1>2. Cardinality(S) \in Nat /\ Cardinality(T) \in Nat
  BY <1>1, FS_CardinalityType
<1> QED
  BY <1>1, <1>2

LEMMA OneMore ==
  ASSUME NEW T, IsFiniteSet(T), NEW x, NEW S, S \subseteq T \cup {x}, NEW n \in Nat,
         Cardinality(T) <= n
  PROVE  Cardinality(S) <= n + 1
<1>1. IsFiniteSet(T \cup {x}) /\ Cardinality(T \cup {x}) \in {Cardinality(T), Cardinality(T) + 1}
  BY FS_AddElement
<1>2. Cardinality(T) \in Nat
  BY FS_CardinalityType
<1>3. Cardinality(T \cup {x}) <= n + 1
  BY <1>1, <1>2
<1> QED
  BY <1>1, <1>3, NotMore

LEMMA BothFinite ==
  ASSUME IdInv, DirInv
  PROVE  IsFiniteSet(Stray) /\ IsFiniteSet(Lacking) /\ IsFiniteSet(Orphans) /\ IsFiniteSet(Dangling)
<1>1. IsFiniteSet(Stray) /\ IsFiniteSet(Orphans)
  BY FS_Subset DEF DirInv, Counted, Stray, Orphans
<1>2. IsFiniteSet(Owned(recents)) /\ IsFiniteSet(Owned(stored.recents))
  BY OwnedIsFinite DEF IdInv
<1>3. Lacking \subseteq Owned(recents) /\ Dangling \subseteq Owned(stored.recents)
  BY DEF Lacking, Dangling, Remembereds, Owned
<1> QED
  BY <1>1, <1>2, <1>3, FS_Subset

LEMMA DirInit == Init => DirInv
<1> SUFFICES ASSUME Init PROVE DirInv
  OBVIOUS
<1>1. DOMAIN disk = {} /\ at = "off" /\ crashes = 0 /\ failures = 0 /\ DOMAIN stored.recents = {}
  BY DEF Init
<1>2. Orphans = {} /\ Dangling = {}
  BY <1>1 DEF Orphans, Dangling, Remembereds
<1> QED
  BY <1>1, <1>2, FS_EmptySet
     DEF DirInv, Counted, AccountedWhenOff, AccountedWhenOn, OneAway, NoneGoneYet

LEMMA StaysFinite ==
  ASSUME IsFiniteSet(DOMAIN disk), NoDirectory \notin DOMAIN disk, NEW d, d # NoDirectory,
         NEW slides
  PROVE  /\ IsFiniteSet(DOMAIN WithDirectory(d, slides))
         /\ NoDirectory \notin DOMAIN WithDirectory(d, slides)
         /\ IsFiniteSet(DOMAIN WithoutDirectory(d)) /\ NoDirectory \notin DOMAIN WithoutDirectory(d)
<1>1. DOMAIN WithDirectory(d, slides) = DOMAIN disk \cup {d}
  BY DEF WithDirectory
<1>2. DOMAIN WithoutDirectory(d) = DOMAIN disk \ {d}
  BY DEF WithoutDirectory
<1> QED
  BY <1>1, <1>2, FS_AddElement, FS_RemoveElement

\* A step of the running program that leaves no more behind than there was.
LEMMA NoMoreStray ==
  ASSUME IdInv, DirInv, at # "off", UNCHANGED <<crashes, failures>>,
         Stray' \subseteq Stray, Lacking' \subseteq Lacking
  PROVE  AccountedWhenOn'
<1>1. crashes \in Nat /\ crashes + failures \in Nat
  BY DEF DirInv, Counted
<1>2. Cardinality(Stray) <= crashes + failures /\ Cardinality(Lacking) <= crashes
  BY DEF DirInv, AccountedWhenOn
<1>3. IsFiniteSet(Stray) /\ IsFiniteSet(Lacking)
  BY BothFinite
<1>4. Cardinality(Stray') <= crashes + failures /\ Cardinality(Lacking') <= crashes
  <2> HIDE DEF Stray, Lacking
  <2> QED
    BY <1>1, <1>2, <1>3, NotMore
<1> QED
  BY <1>4 DEF AccountedWhenOn

LEMMA RememberedsAre == Remembereds = Owned(stored.recents)
  BY DEF Remembereds, Owned

LEMMA OwnedAreDirectories ==
  ASSUME NEW s, NEW d \in Owned(s)
  PROVE  d # NoDirectory /\ \A n : d # Temporary(n)
  BY DirectoriesDiffer DEF Owned

LEMMA OwnedWithout ==
  ASSUME NEW s, NEW t, NEW id, ToSet(t) = ToSet(s) \ {id}
  PROVE  Owned(t) = Owned(s) \ {Directory(id)}
<1> HIDE DEF Directory
<1> QED
  BY OwnedIs, DirectoriesDiffer, Zenon

LEMMA OwnedWith ==
  ASSUME NEW s, NEW t, NEW id, ToSet(t) = {id} \cup ToSet(s)
  PROVE  Owned(t) = Owned(s) \cup {Directory(id)}
<1> HIDE DEF Directory
<1> QED
  BY OwnedIs

\* What lacks is counted by the directories alone.
LEMMA LackingIsLess ==
  ASSUME NEW gone, Owned(recents') \subseteq Owned(recents) \cup {gone},
         \A d \in Owned(recents) \ {gone} : d \in DOMAIN disk => d \in DOMAIN disk' /\ disk'[d] = disk[d],
         gone \in Owned(recents') => gone \in DOMAIN disk' /\ disk'[gone] = Slides
  PROVE  Lacking' \subseteq Lacking
<1> HIDE DEF Owned
<1>1. Lacking' = {d \in Owned(recents') : d \notin DOMAIN disk' \/ disk'[d] # Slides}
  BY DEF Lacking, Owned, Directory
<1> QED
  BY <1>1 DEF Lacking

LEMMA StrayIs ==
  Stray' = DOMAIN disk' \ (Owned(recents') \cup {removing'} \cup
                           IF at' = "converting" THEN {Temporary(imports')} ELSE {})
  BY DEF Stray, Owned, Directory, InWork, Temporary

LEMMA LoadPresentationsDirs ==
  IdInv /\ NamedInv /\ DirInv /\ RemovesDiscarded /\ LoadPresentations => DirInv'
<1> SUFFICES ASSUME IdInv, NamedInv, DirInv, RemovesDiscarded, LoadPresentations PROVE DirInv'
  OBVIOUS
<1>1. recents' = stored.recents /\ stored' = stored
  BY LoadPresentationsIds
<1>2. /\ at = "off" /\ at' = "loading" /\ removing = NoDirectory
      /\ UNCHANGED <<disk, crashes, failures, removing>>
  BY LoadsTheStored DEF LoadPresentations, counters, RemovesDiscarded
<1>3. Counted'
  BY <1>2 DEF DirInv, Counted
<1>4. Stray' \subseteq Orphans
  <2> HIDE DEF Owned
  <2> QED
    BY <1>1, <1>2, StrayIs, RememberedsAre DEF Orphans
<1>5. Lacking' \subseteq Dangling
  <2> HIDE DEF Owned
  <2>1. Lacking' = {d \in Owned(recents') : d \notin DOMAIN disk' \/ disk'[d] # Slides}
    BY DEF Lacking, Owned, Directory
  <2> QED
    BY <1>1, <1>2, <2>1, RememberedsAre DEF Dangling
<1>6. AccountedWhenOn'
  <2>1. crashes \in Nat /\ crashes + failures \in Nat
        /\ Cardinality(Orphans) <= crashes + failures /\ Cardinality(Dangling) <= crashes
    BY <1>2 DEF DirInv, Counted, AccountedWhenOff
  <2>2. IsFiniteSet(Orphans) /\ IsFiniteSet(Dangling)
    BY BothFinite
  <2>3. Cardinality(Stray') <= crashes + failures /\ Cardinality(Lacking') <= crashes
    <3> HIDE DEF Orphans, Dangling
    <3> QED
      BY <1>4, <1>5, <2>1, <2>2, NotMore
  <2> QED
    BY <1>2, <2>3 DEF AccountedWhenOn
<1> QED
  BY <1>2, <1>3, <1>6 DEF DirInv, AccountedWhenOff, OneAway, NoneGoneYet

\* The steps that leave the directories and the list alone, outside of an
\* operation that removes something.
LEMMA QuietDirs ==
  ASSUME IdInv, DirInv, UNCHANGED <<disk, recents, removing, imports, crashes, failures>>,
         at \notin {"off", "converting"}, at' \notin {"off", "converting", "saving", "evicting"}
  PROVE  DirInv'
<1>1. Stray' \subseteq Stray /\ Lacking' \subseteq Lacking
  BY DEF Stray, Lacking, InWork, Owned, Directory
<1>2. AccountedWhenOn'
  BY <1>1, NoMoreStray
<1> QED
  BY <1>2 DEF DirInv, Counted, AccountedWhenOff, OneAway, NoneGoneYet

LEMMA BeginDirs == IdInv /\ DirInv /\ BeginImport => DirInv'
<1> SUFFICES ASSUME IdInv, DirInv, BeginImport PROVE DirInv'
  OBVIOUS
<1>1. /\ at = "idle" /\ at' = "converting" /\ disk' = WithDirectory(Temporary(imports'), {})
      /\ UNCHANGED <<recents, removing, crashes, failures>>
  BY DEF BeginImport, memory
<1>2. Counted'
  BY <1>1, StaysFinite, DirectoriesDiffer DEF DirInv, Counted
<1>3. DOMAIN disk' = DOMAIN disk \cup {Temporary(imports')}
      /\ \A d \in DOMAIN disk : d # Temporary(imports') => disk'[d] = disk[d]
  BY <1>1 DEF WithDirectory
<1>4. Stray' \subseteq Stray
  <2> HIDE DEF Owned, Temporary
  <2> QED
    BY <1>1, <1>3, StrayIs DEF Stray, InWork
<1>5. Lacking' \subseteq Lacking
  BY <1>1, <1>3, OwnedAreDirectories, LackingIsLess
<1>6. AccountedWhenOn'
  BY <1>1, <1>4, <1>5, NoMoreStray
<1> QED
  BY <1>1, <1>2, <1>6 DEF DirInv, AccountedWhenOff, OneAway, NoneGoneYet

\* A rename or a removal that fails leaves one directory more.
LEMMA OneMoreStray ==
  ASSUME IdInv, DirInv, at # "off", UNCHANGED crashes, failures' = failures + 1,
         NEW d, Stray' \subseteq Stray \cup {d}, Lacking' \subseteq Lacking
  PROVE  AccountedWhenOn'
<1>1. Cardinality(Stray) <= crashes + failures /\ Cardinality(Lacking) <= crashes
  BY DEF DirInv, AccountedWhenOn
<1>2. IsFiniteSet(Stray) /\ IsFiniteSet(Lacking)
  BY BothFinite
<1>3. crashes \in Nat /\ crashes + failures \in Nat /\ crashes' = crashes
      /\ crashes' + failures' = (crashes + failures) + 1
  BY DEF DirInv, Counted
<1>4. Cardinality(Lacking') <= crashes /\ Cardinality(Stray') <= (crashes + failures) + 1
  <2> HIDE DEF Stray, Lacking
  <2> QED
    BY <1>1, <1>2, <1>3, NotMore, OneMore
<1> QED
  BY <1>3, <1>4, Zenon DEF AccountedWhenOn

LEMMA FailureIsCounted ==
  ASSUME DirInv, IsFiniteSet(DOMAIN disk'), NoDirectory \notin DOMAIN disk',
         UNCHANGED crashes, failures' = failures + 1
  PROVE  Counted'
<1>1. crashes' \in Nat /\ failures' \in Nat
  BY DEF DirInv, Counted
<1> QED
  BY <1>1 DEF Counted

LEMMA ImportFailsDirs == IdInv /\ DirInv /\ ImportFails => DirInv'
<1> SUFFICES ASSUME IdInv, DirInv, ImportFails PROVE DirInv'
  OBVIOUS
<1>1. at = "converting" /\ at' = "idle" /\ UNCHANGED <<recents, removing, imports, crashes>>
  BY DEF ImportFails, memory
<1>2. CASE disk' = WithoutDirectory(Temporary(imports)) /\ UNCHANGED failures
  <2>1. Counted'
    BY <1>1, <1>2, StaysFinite, DirectoriesDiffer DEF DirInv, Counted
  <2>2. DOMAIN disk' = DOMAIN disk \ {Temporary(imports)}
        /\ \A d \in DOMAIN disk : d # Temporary(imports) => disk'[d] = disk[d]
    BY <1>2 DEF WithoutDirectory
  <2>3. Stray' \subseteq Stray
    <3> HIDE DEF Owned, Temporary
    <3> QED
      BY <1>1, <2>2, StrayIs DEF Stray, InWork
  <2>4. Lacking' \subseteq Lacking
    BY <1>1, <2>2, OwnedAreDirectories, LackingIsLess
  <2>5. AccountedWhenOn'
    BY <1>1, <1>2, <2>3, <2>4, NoMoreStray
  <2> QED
    BY <1>1, <2>1, <2>5 DEF DirInv, AccountedWhenOff, OneAway, NoneGoneYet
<1>3. CASE RemovalFails
  <2>1. UNCHANGED disk /\ failures' = failures + 1
    BY <1>3 DEF RemovalFails
  <2>2. Counted'
    BY <1>1, <2>1, FailureIsCounted DEF DirInv, Counted
  <2>3. Stray' \subseteq Stray \cup {Temporary(imports)}
    <3> HIDE DEF Owned, Temporary
    <3> QED
      BY <1>1, <2>1, StrayIs DEF Stray, InWork
  <2>4. Lacking' \subseteq Lacking
    BY <1>1, <2>1 DEF Lacking, Owned, Directory
  <2>5. AccountedWhenOn'
    BY <1>1, <2>1, <2>3, <2>4, OneMoreStray
  <2> QED
    BY <1>1, <2>2, <2>5 DEF DirInv, AccountedWhenOff, OneAway, NoneGoneYet
<1> QED
  BY <1>2, <1>3 DEF ImportFails, AfterFailure

LEMMA RenameFailsDirs == IdInv /\ DirInv /\ RenameFails => DirInv'
<1> SUFFICES ASSUME IdInv, DirInv, RenameFails PROVE DirInv'
  OBVIOUS
<1>1. /\ at = "converting" /\ at' = "idle" /\ disk' = WithDirectory(Temporary(imports), Slides)
      /\ UNCHANGED <<recents, removing, crashes>> /\ failures' = failures + 1
  BY DEF RenameFails, memory
<1>2. Counted'
  <2>1. IsFiniteSet(DOMAIN disk') /\ NoDirectory \notin DOMAIN disk'
    BY <1>1, StaysFinite, DirectoriesDiffer DEF DirInv, Counted
  <2> QED
    BY <1>1, <2>1, FailureIsCounted
<1>3. DOMAIN disk' = DOMAIN disk \cup {Temporary(imports)}
      /\ \A d \in DOMAIN disk : d # Temporary(imports) => disk'[d] = disk[d]
  BY <1>1 DEF WithDirectory
<1>4. Stray' \subseteq Stray \cup {Temporary(imports)}
  <2> HIDE DEF Owned, Temporary
  <2> QED
    BY <1>1, <1>3, StrayIs DEF Stray, InWork
<1>5. Lacking' \subseteq Lacking
  BY <1>1, <1>3, OwnedAreDirectories, LackingIsLess
<1>6. AccountedWhenOn'
  BY <1>1, <1>4, <1>5, OneMoreStray
<1> QED
  BY <1>1, <1>2, <1>6 DEF DirInv, AccountedWhenOff, OneAway, NoneGoneYet

LEMMA RegisterDirs == IdInv /\ DirInv /\ RemovesDiscarded /\ Register => DirInv'
<1> SUFFICES ASSUME IdInv, DirInv, RemovesDiscarded, Register PROVE DirInv'
  OBVIOUS
<1>1. /\ at = "converting" /\ at' = "evicting" /\ removing = NoDirectory
      /\ disk' = [d \in (DOMAIN disk \ {Temporary(imports)}) \cup {Directory(imports)} |->
                     IF d = Directory(imports) THEN Slides ELSE disk[d]]
      /\ UNCHANGED <<stored, removing, imports, crashes, failures>>
      /\ recents = stored.recents
  BY DEF Register, counters, RemovesDiscarded, IdInv, Settled
<1>2. Owned(recents') = Owned(recents) \cup {Directory(imports)}
  BY RegisterIds, OwnedWith
<1>3. /\ DOMAIN disk' = (DOMAIN disk \ {Temporary(imports)}) \cup {Directory(imports)}
      /\ \A d \in DOMAIN disk \ {Temporary(imports), Directory(imports)} : disk'[d] = disk[d]
      /\ disk'[Directory(imports)] = Slides
  BY <1>1
<1>4. Counted'
  <2>1. IsFiniteSet(DOMAIN disk \ {Temporary(imports)})
    BY FS_RemoveElement DEF DirInv, Counted
  <2>2. IsFiniteSet(DOMAIN disk')
    BY <1>3, <2>1, FS_AddElement
  <2> QED
    BY <1>1, <1>3, <2>2, DirectoriesDiffer DEF DirInv, Counted
<1> HIDE DEF Owned
<1>5. Stray' \subseteq Stray
  <2> HIDE DEF Temporary, Directory
  <2> QED
    BY <1>1, <1>2, <1>3, StrayIs DEF Stray, InWork
<1>6. Lacking' \subseteq Lacking
  <2> HIDE DEF Temporary, Directory
  <2> QED
    BY <1>2, <1>3, OwnedAreDirectories, LackingIsLess
<1>7. AccountedWhenOn'
  BY <1>1, <1>5, <1>6, NoMoreStray
<1>8. Remembereds' = Owned(recents) /\ removing' \notin Owned(recents')
  <2>1. Remembereds' = Owned(stored'.recents)
    BY DEF Remembereds, Owned, Directory
  <2> QED
    BY <1>1, <2>1, OwnedAreDirectories
<1>9. OneAway' /\ NoneGoneYet'
  <2>1. Directory(imports)' = Directory(imports) /\ Owned(recents)' = Owned(recents')
    BY <1>1 DEF Owned, Directory
  <2>2. Remembereds' \ Owned(recents)' \subseteq {NoDirectory}
    BY <1>2, <1>8, <2>1
  <2> HIDE DEF Directory
  <2> QED
    BY <1>1, <1>2, <1>8, <2>1, <2>2 DEF OneAway, NoneGoneYet
<1> QED
  BY <1>1, <1>4, <1>7, <1>9 DEF DirInv, AccountedWhenOff

\* A directory whose removal begins is no longer owned, and not yet stray.
LEMMA DisownDirs ==
  ASSUME IdInv, DirInv, NEW id, ToSet(recents') = ToSet(recents) \ {id},
         removing = NoDirectory, removing' = Directory(id),
         at \notin {"off", "converting"}, at' \in {"saving", "evicting"},
         UNCHANGED <<stored, disk, imports, crashes, failures>>,
         Remembereds \subseteq Owned(recents),
         id \in ToSet(recents),
         Owned(recents) \subseteq Remembereds \cup
             (IF at' = "evicting" THEN {Directory(imports)} ELSE {}),
         ~(Len(recents') > Remembered)
  PROVE  DirInv'
<1>1. Owned(recents') = Owned(recents) \ {Directory(id)}
  BY OwnedWithout
<1>2. Counted'
  BY DEF DirInv, Counted
<1>3. Directory(id) \in Owned(recents)
  BY OwnedIs
<1>4. NoDirectory \notin DOMAIN disk
  BY DEF DirInv, Counted
<1> HIDE DEF Owned
<1>5. Stray' \subseteq Stray
  <2> HIDE DEF Directory
  <2> QED
    BY <1>1, <1>4, StrayIs DEF Stray, InWork
<1>6. Lacking' \subseteq Lacking
  <2> HIDE DEF Directory
  <2> QED
    BY <1>1, LackingIsLess
<1>7. AccountedWhenOn'
  BY <1>5, <1>6, NoMoreStray
<1>8. Remembereds' = Remembereds /\ Directory(imports)' = Directory(imports)
      /\ Owned(recents)' = Owned(recents')
  BY DEF Remembereds, Owned, Directory
<1>9. OneAway'
  <2>1. Remembereds' \ Owned(recents)' \subseteq {Directory(id)}
    BY <1>1, <1>8
  <2> HIDE DEF Directory
  <2> QED
    BY <1>1, <1>3, <1>8, <2>1 DEF OneAway
<1>10. NoneGoneYet'
  BY DEF NoneGoneYet
<1> QED
  BY <1>2, <1>7, <1>9, <1>10 DEF DirInv, AccountedWhenOff

LEMMA EvictDirs == IdInv /\ DirInv /\ Evict => DirInv'
<1> SUFFICES ASSUME IdInv, DirInv, Evict PROVE DirInv'
  OBVIOUS
<1> DEFINE gone == recents[Evicted]
<1>1. /\ IdInv' /\ ToSet(recents') = ToSet(recents) \ {gone} /\ Len(recents') <= Remembered
      /\ Evicted \in 1 .. Len(recents)
  BY EvictIds
<1>2. gone \in ToSet(recents)
  BY <1>1, LenProperties DEF ToSet, IdInv
<1>3. ~(Len(recents') > Remembered)
  BY <1>1, LenProperties, PresenterLibraryAssumption DEF IdInv
<1>4. /\ at = "evicting" /\ at' = "evicting" /\ removing = NoDirectory /\ removing' = Directory(gone)
      /\ Len(recents) > Remembered
      /\ UNCHANGED <<stored, disk, imports, crashes, failures>>
  BY DEF Evict, counters
<1>5. Remembereds \subseteq Owned(recents)
  BY <1>4 DEF DirInv, NoneGoneYet
<1>6. Owned(recents) \subseteq Remembereds \cup {Directory(imports)}
  BY <1>4, OwnedAreDirectories DEF DirInv, OneAway
<1> HIDE DEF gone, Owned, Directory
<1> QED
  BY <1>1, <1>2, <1>3, <1>4, <1>5, <1>6, DisownDirs

LEMMA DeleteDirs ==
  ASSUME IdInv, DirInv, RemovesDiscarded, NEW row \in DOMAIN recents, Delete(row)
  PROVE  DirInv'
<1> DEFINE gone == recents[row]
<1>1. IdInv' /\ ToSet(recents') = ToSet(recents) \ {gone}
  BY DeleteIds
<1>2. /\ at = "idle" /\ at' = "saving" /\ removing = NoDirectory /\ removing' = Directory(gone)
      /\ UNCHANGED <<stored, disk, imports, crashes, failures>>
      /\ recents = stored.recents
  BY DEF Delete, counters, RemovesDiscarded, IdInv, Settled
<1>3. ~(Len(recents') > Remembered)
  <2>1. Len(recents') <= Remembered /\ Len(recents') \in Nat
    BY <1>1, <1>2, LenProperties DEF IdInv
  <2> QED
    BY <2>1, PresenterLibraryAssumption
<1>4. gone \in ToSet(recents)
  BY DEF ToSet
<1>5. Remembereds = Owned(recents)
  BY <1>2, RememberedsAre
<1> HIDE DEF gone, Owned, Directory
<1> QED
  BY <1>1, <1>2, <1>3, <1>4, <1>5, DisownDirs

LEMMA RemoveFilesDirs == IdInv /\ DirInv /\ RemovesDiscarded /\ RemoveFiles => DirInv'
<1> SUFFICES ASSUME IdInv, DirInv, RemovesDiscarded, RemoveFiles PROVE DirInv'
  OBVIOUS
<1>1. /\ at \in {"saving", "evicting"} /\ removing # NoDirectory
      /\ UNCHANGED <<stored, at, recents, imports, crashes>>
  BY DEF RemoveFiles, RemovesDiscarded
<1>2. removing \notin Owned(recents)
  BY <1>1 DEF DirInv, OneAway
<1>3. \/ DOMAIN disk' = DOMAIN disk /\ removing' = removing /\ failures' = failures
      \/ DOMAIN disk' = DOMAIN disk \ {removing} /\ removing' = NoDirectory /\ failures' = failures
      \/ DOMAIN disk' = DOMAIN disk /\ removing' = NoDirectory /\ failures' = failures + 1
  BY DEF RemoveFiles, RemovalFails, WithoutDirectory
<1>4. \A d \in DOMAIN disk \ {removing} : d \in DOMAIN disk' /\ disk'[d] = disk[d]
  BY DEF RemoveFiles, RemovalFails, WithoutDirectory
<1>5. Counted'
  <2>1. IsFiniteSet(DOMAIN disk') /\ NoDirectory \notin DOMAIN disk'
    BY <1>3, FS_RemoveElement DEF DirInv, Counted
  <2> QED
    BY <1>1, <1>3, <2>1, FailureIsCounted DEF DirInv, Counted
<1> HIDE DEF Owned
<1>6. \/ failures' = failures /\ Stray' \subseteq Stray
      \/ failures' = failures + 1 /\ Stray' \subseteq Stray \cup {removing}
  <2> HIDE DEF Temporary
  <2> QED
    BY <1>1, <1>3, StrayIs DEF Stray, InWork
<1>7. Lacking' \subseteq Lacking
  BY <1>1, <1>2, <1>4, LackingIsLess
<1>8. AccountedWhenOn'
  BY <1>1, <1>6, <1>7, NoMoreStray, OneMoreStray
<1>9. Remembereds' = Remembereds /\ Directory(imports)' = Directory(imports)
      /\ Owned(recents)' = Owned(recents)
  BY <1>1 DEF Remembereds, Owned, Directory
<1>10. OneAway'
  <2>1. removing' \notin Owned(recents)
    BY <1>2, <1>3, OwnedAreDirectories
  <2>2. /\ \E d : Remembereds \ Owned(recents) \subseteq {d}
        /\ Owned(recents) \cup {removing} \subseteq
               Remembereds \cup {NoDirectory} \cup
               (IF at = "evicting" THEN {Directory(imports)} ELSE {})
    BY <1>1 DEF DirInv, OneAway
  <2> HIDE DEF Directory
  <2> QED
    BY <1>1, <1>3, <1>9, <2>1, <2>2 DEF OneAway
<1>11. NoneGoneYet'
  BY <1>1, <1>9 DEF DirInv, NoneGoneYet
<1> QED
  BY <1>1, <1>5, <1>8, <1>10, <1>11 DEF DirInv, AccountedWhenOff

LEMMA ActivateDirs ==
  ASSUME IdInv, DirInv, WholeInv, NEW id \in 1 .. imports, Activate(id)
  PROVE  DirInv'
<1>1. /\ at = "idle" /\ at' = "saving" /\ removing = NoDirectory /\ recents = stored.recents
      /\ UNCHANGED <<stored, disk, recents, imports, crashes, failures>>
  BY DEF Activate, counters, WholeInv, RemovesDiscarded, IdInv, Settled
<1>2. removing' = NoDirectory
  BY ActivateRemovesNothing
<1>3. Stray' \subseteq Stray /\ Lacking' \subseteq Lacking
  BY <1>1, <1>2 DEF Stray, Lacking, InWork, Owned, Directory
<1>4. AccountedWhenOn'
  BY <1>1, <1>3, NoMoreStray
<1>5. Remembereds' = Owned(recents') /\ Owned(recents)' = Owned(recents')
  BY <1>1 DEF Remembereds, Owned, Directory
<1>6. OneAway'
  <2>1. Remembereds' \ Owned(recents)' \subseteq {NoDirectory}
    BY <1>5
  <2> HIDE DEF Directory, Owned
  <2> QED
    BY <1>1, <1>2, <1>5, <2>1, OwnedAreDirectories DEF OneAway
<1> QED
  BY <1>1, <1>4, <1>6 DEF DirInv, Counted, AccountedWhenOff, NoneGoneYet

LEMMA ExitDirs == IdInv /\ DirInv /\ RemovesDiscarded /\ Exit => DirInv'
<1> SUFFICES ASSUME IdInv, DirInv, RemovesDiscarded, Exit PROVE DirInv'
  OBVIOUS
<1>1. /\ at = "idle" /\ at' = "off" /\ removing = NoDirectory /\ restoring' = FALSE /\ SaveSettings
      /\ UNCHANGED <<disk, recents, removing, imports, crashes, failures>>
  BY DEF Exit, memory, counters, RemovesDiscarded, IdInv
<1>2. stored'.recents = recents
  BY <1>1, SaveStores
<1>3. Orphans' \subseteq Stray /\ Dangling' = Lacking
  BY <1>1, <1>2 DEF Orphans, Dangling, Remembereds, Stray, Lacking, InWork, Owned, Directory,
     DirInv, Counted
<1>4. AccountedWhenOff'
  <2>1. crashes \in Nat /\ crashes + failures \in Nat
        /\ Cardinality(Stray) <= crashes + failures /\ Cardinality(Lacking) <= crashes
    BY <1>1 DEF DirInv, Counted, AccountedWhenOn
  <2>2. IsFiniteSet(Stray)
    BY BothFinite
  <2>3. Cardinality(Orphans') <= crashes + failures
    <3> HIDE DEF Orphans, Stray
    <3> QED
      BY <1>3, <2>1, <2>2, NotMore
  <2> HIDE DEF Orphans, Dangling
  <2> QED
    BY <1>1, <1>3, <2>1, <2>3 DEF AccountedWhenOff
<1> QED
  BY <1>1, <1>4 DEF DirInv, Counted, AccountedWhenOn, OneAway, NoneGoneYet

\* One directory too many and one too few at the most: the one an import was
\* writing or had renamed, and the one a removal had begun with.
LEMMA CrashDirs == IdInv /\ DirInv /\ RemovesDiscarded /\ Crash => DirInv'
<1> SUFFICES ASSUME IdInv, DirInv, RemovesDiscarded, Crash PROVE DirInv'
  OBVIOUS
<1>1. /\ at # "off" /\ at' = "off" /\ crashes' = crashes + 1 /\ crashes \in Nat
      /\ failures \in Nat
      /\ UNCHANGED <<stored, disk, failures>>
  BY DEF Crash, DirInv, Counted
<1>2. Orphans' = DOMAIN disk \ Remembereds
      /\ Dangling' = {d \in Remembereds : d \notin DOMAIN disk \/ disk[d] # Slides}
  BY <1>1 DEF Orphans, Dangling, Remembereds, Directory
<1>3. NoDirectory \notin DOMAIN disk
  BY DEF DirInv, Counted
<1>4. (\E x : Orphans' \subseteq Stray \cup {x}) /\ (\E y : Dangling' \subseteq Lacking \cup {y})
  <2> HIDE DEF Owned, Remembereds
  <2>1. CASE at \in Settled
    <3>1. Remembereds = Owned(recents) /\ removing = NoDirectory
      BY <2>1, RememberedsAre DEF IdInv, Settled, RemovesDiscarded
    <3>2. Orphans' \subseteq Stray \cup {Temporary(imports)}
      <4> HIDE DEF Temporary
      <4> QED
        BY <1>2, <1>3, <3>1 DEF Stray, InWork
    <3>3. Dangling' \subseteq Lacking \cup {NoDirectory}
      BY <1>2, <3>1 DEF Lacking
    <3> QED
      BY <3>2, <3>3
  <2>2. CASE at \in {"saving", "evicting"}
    <3>1. PICK d : Remembereds \ Owned(recents) \subseteq {d}
      BY <2>2 DEF DirInv, OneAway
    <3>2. Owned(recents) \cup {removing} \subseteq Remembereds \cup {NoDirectory, Directory(imports)}
      BY <2>2 DEF DirInv, OneAway
    <3>3. Orphans' \subseteq Stray \cup {Directory(imports)}
      <4> HIDE DEF Directory
      <4> QED
        BY <1>2, <1>3, <2>2, <3>2 DEF Stray, InWork
    <3>4. Dangling' \subseteq Lacking \cup {d}
      BY <1>2, <3>1 DEF Lacking
    <3> QED
      BY <3>3, <3>4
  <2> QED
    BY <1>1, <2>1, <2>2 DEF IdInv
<1>5. AccountedWhenOff'
  <2>1. PICK x, y : Orphans' \subseteq Stray \cup {x} /\ Dangling' \subseteq Lacking \cup {y}
    BY <1>4
  <2>2. Cardinality(Stray) <= crashes + failures /\ Cardinality(Lacking) <= crashes
    BY <1>1 DEF DirInv, AccountedWhenOn
  <2>3. IsFiniteSet(Stray) /\ IsFiniteSet(Lacking)
    BY BothFinite
  <2>4. Cardinality(Orphans') <= (crashes + failures) + 1 /\ Cardinality(Dangling') <= crashes + 1
    <3> HIDE DEF Stray, Lacking, Orphans, Dangling
    <3>1. crashes + failures \in Nat
      BY <1>1
    <3> QED
      BY <1>1, <2>1, <2>2, <2>3, <3>1, OneMore
  <2>5. crashes' + failures' = (crashes + failures) + 1
    BY <1>1
  <2> QED
    BY <1>1, <2>4, <2>5, Zenon DEF AccountedWhenOff
<1>6. Counted'
  <2>1. crashes' \in Nat
    BY <1>1
  <2> QED
    BY <1>1, <2>1 DEF DirInv, Counted
<1> QED
  BY <1>1, <1>5, <1>6 DEF DirInv, AccountedWhenOn, OneAway, NoneGoneYet

LEMMA DirStep == IdInv /\ NamedInv /\ WholeInv /\ DirInv /\ [Next]_vars => DirInv'
<1> SUFFICES ASSUME IdInv, NamedInv, WholeInv, DirInv, [Next]_vars PROVE DirInv'
  OBVIOUS
<1>0. RemovesDiscarded
  BY DEF WholeInv
<1>1. CASE LoadMedia
  <2>1. /\ UNCHANGED <<disk, recents, removing, imports, crashes, failures>>
        /\ at = "loading" /\ at' \in {"idle", "noticing"}
    BY <1>1 DEF LoadMedia, counters
  <2> QED
    BY <2>1, QuietDirs
<1>2. CASE Notice
  BY <1>2, QuietDirs DEF Notice, counters
<1>3. CASE Finish
  BY <1>3, QuietDirs DEF Finish, memory, counters
<1>4. ASSUME NEW f \in Files, AddMedia(f) \/ RemoveMedia(f) PROVE DirInv'
  BY <1>4, QuietDirs DEF AddMedia, RemoveMedia, counters
<1>5. ASSUME UNCHANGED <<stored, disk, at, recents, removing, imports, crashes, failures>>
      PROVE  DirInv'
  <2>1. UNCHANGED <<Orphans, Dangling, Stray, Lacking, Remembereds, Owned(recents), Directory(imports)>>
    BY <1>5 DEF Orphans, Dangling, Remembereds, Stray, Lacking, InWork, Owned, Directory, Temporary
  <2> HIDE DEF Orphans, Dangling, Remembereds, Stray, Lacking, Owned, Directory
  <2>2. Counted' /\ AccountedWhenOff' /\ AccountedWhenOn'
    BY <1>5, <2>1 DEF DirInv, Counted, AccountedWhenOff, AccountedWhenOn
  <2>3. OneAway' /\ NoneGoneYet'
    BY <1>5, <2>1 DEF DirInv, OneAway, NoneGoneYet
  <2> QED
    BY <2>2, <2>3 DEF DirInv
<1>6. ASSUME NEW f \in Files, FileChanges(f) PROVE DirInv'
  BY <1>5, <1>6 DEF FileChanges, memory
<1>7. CASE UNCHANGED vars
  BY <1>5, <1>7 DEF vars, memory, counters
<1> QED
  BY <1>0, <1>1, <1>2, <1>3, <1>4, <1>6, <1>7, LoadPresentationsDirs, BeginDirs, ImportFailsDirs,
     RenameFailsDirs, RegisterDirs, EvictDirs, RemoveFilesDirs, ActivateDirs, DeleteDirs,
     ExitDirs, CrashDirs DEF Next

\* Every directory that is left over is the trace of a crash or of a rename or a
\* removal that failed, one each at the most, and a presentation in the list lacks
\* slides only after a crash.
THEOREM LeftoversAreCounted == Spec => []DirectoriesAccountedFor
<1>1. IdInv /\ WholeInv /\ DirInv => DirectoriesAccountedFor
  <2> SUFFICES ASSUME IdInv, WholeInv, DirInv, at \in {"off", "idle"}
               PROVE  Cardinality(Orphans) <= crashes + failures /\ Cardinality(Dangling) <= crashes
    BY DEF DirectoriesAccountedFor
  <2>1. CASE at = "off"
    BY <2>1 DEF DirInv, AccountedWhenOff
  <2>2. CASE at = "idle"
    <3>1. Remembereds = Owned(recents) /\ removing = NoDirectory /\ NoDirectory \notin DOMAIN disk
      BY <2>2, RememberedsAre DEF IdInv, Settled, WholeInv, RemovesDiscarded, DirInv, Counted
    <3>2. Orphans = Stray /\ Dangling = Lacking
      BY <2>2, <3>1 DEF Orphans, Dangling, Stray, Lacking, InWork
    <3> QED
      BY <2>2, <3>2 DEF DirInv, AccountedWhenOn
  <2> QED
    BY <2>1, <2>2
<1> QED
  BY <1>1, IdInit, IdStep, NamedInit, NamedStep, WholeInit, WholeStep, DirInit, DirStep, PTL DEF Spec
=============================================================================
