---------------------------- MODULE Parts_proofs ----------------------------
(***************************************************************************)
(* The collector, the alert manager and the notification service, for any  *)
(* windows, thresholds, chats, types, callers and bounds, and the two      *)
(* splitters for any texts and size.                                       *)
(***************************************************************************)
EXTENDS Parts, FiniteSetTheorems, WellFoundedInduction, TLAPS

\* The elements of a sequence.
LEMMA Elements ==
  ASSUME NEW S, NEW s \in Seq(S), NEW k \in DOMAIN s
  PROVE  s[k] \in S
OBVIOUS

-----------------------------------------------------------------------------
(* The collector. *)

\* The latest of the samples taken, as many as are kept.
Latest(h) ==
  /\ Len(h) = IF taken < MaxHistory THEN taken ELSE MaxHistory
  /\ \A k \in DOMAIN h : h[k] = taken - Len(h) + k

\* Samples in the order of their taking.
Ordered(h) ==
  /\ \A j, k \in DOMAIN h : j < k => h[j] < h[k]
  /\ \A k \in DOMAIN h : h[k] <= taken

\* What is in memory and in the file is in order; while every save succeeds the
\* file holds the latest samples, and so does the memory of a loop that runs.
HistoryInv ==
  /\ Ordered(history)
  /\ file[1] = "list" => Ordered(file[2])
  /\ badSaves = 0 =>
       /\ file[1] = "list" => Latest(file[2])
       /\ file[1] # "list" => taken = 0
       /\ loop # "down" => Latest(history)

CollectorInv == CollectorTypeOK /\ HistoryInv

\* A saved list is told from no file and from a torn one.
LEMMA FileFacts ==
  /\ \A h : <<"list", h>>[1] = "list" /\ <<"list", h>>[2] = h
  /\ <<"absent">>[1] # "list" /\ <<"torn">>[1] # "list"
OBVIOUS

\* What a list in the file is of.
LEMMA FileType ==
  ASSUME CollectorTypeOK, file[1] = "list"
  PROVE  file[2] \in Seq(1..MaxSamples)
BY FileFacts DEF CollectorTypeOK

\* Slicing from the end keeps the last elements, in their order.
LEMMA LastOnesFacts ==
  ASSUME NEW S, NEW h \in Seq(S)
  PROVE  /\ LastOnes(h) \in Seq(S)
         /\ Len(LastOnes(h)) = IF Len(h) > MaxHistory THEN MaxHistory ELSE Len(h)
         /\ \A k \in 1..Len(LastOnes(h)) :
              /\ Len(h) - Len(LastOnes(h)) + k \in 1..Len(h)
              /\ LastOnes(h)[k] = h[Len(h) - Len(LastOnes(h)) + k]
<1> DEFINE from == IF Len(h) > MaxHistory THEN Len(h) - MaxHistory + 1 ELSE 1
<1>1. Len(h) \in Nat /\ MaxHistory \in Nat \ {0}
  BY CollectorAssumption
<1>2. from \in 1..(Len(h) + 1) /\ LastOnes(h) = SubSeq(h, from, Len(h))
  BY <1>1 DEF LastOnes
<1>3. Len(h) - from + 1 = IF Len(h) > MaxHistory THEN MaxHistory ELSE Len(h)
  BY <1>1
<1> HIDE DEF from
<1>4. /\ LastOnes(h) \in Seq(S)
      /\ Len(LastOnes(h)) = Len(h) - from + 1
      /\ \A k \in 1..(Len(h) - from + 1) : LastOnes(h)[k] = h[from + k - 1]
  BY <1>1, <1>2
<1> QED
  BY <1>1, <1>2, <1>3, <1>4

\* What is kept of samples in order is in order.
LEMMA KeptInOrder ==
  ASSUME NEW S \in SUBSET Int, NEW h \in Seq(S), Ordered(h)
  PROVE  Ordered(LastOnes(h))
<1> DEFINE kept == LastOnes(h)
           cut == Len(h) - Len(kept)
<1>1. /\ kept \in Seq(S) /\ DOMAIN kept = 1..Len(kept) /\ cut \in Int
      /\ \A k \in DOMAIN kept : cut + k \in DOMAIN h /\ kept[k] = h[cut + k]
  <2>1. kept \in Seq(S) /\ h \in Seq(S)
    BY LastOnesFacts
  <2>2. DOMAIN kept = 1..Len(kept) /\ DOMAIN h = 1..Len(h) /\ cut \in Int
    BY <2>1
  <2> QED
    BY <2>1, <2>2, LastOnesFacts
<1> HIDE DEF kept, cut
<1>2. \A j, k \in DOMAIN kept : j < k => kept[j] < kept[k]
  <2> SUFFICES ASSUME NEW j \in DOMAIN kept, NEW k \in DOMAIN kept, j < k
               PROVE  kept[j] < kept[k]
    OBVIOUS
  <2>1. cut + j < cut + k
    BY <1>1
  <2> QED
    BY <1>1, <2>1 DEF Ordered
<1>3. \A k \in DOMAIN kept : kept[k] <= taken
  BY <1>1 DEF Ordered
<1> QED
  BY <1>2, <1>3 DEF Ordered, kept

\* The collector starts without samples.
LEMMA CollectorStarts == CollectorInit => CollectorInv
<1> SUFFICES ASSUME CollectorInit PROVE CollectorInv
  OBVIOUS
<1>1. CollectorTypeOK
  BY CollectorAssumption DEF CollectorInit, CollectorTypeOK
<1>2. file[1] # "list"
  BY FileFacts DEF CollectorInit
<1>3. HistoryInv
  BY <1>2 DEF CollectorInit, HistoryInv, Ordered
<1> QED
  BY <1>1, <1>3 DEF CollectorInv

\* A step that takes no sample, and keeps the file unless it fails to.
LEMMA NoSample ==
  ASSUME CollectorInv, taken' = taken,
         loop' \in {"down", "sampling", "sleeping"},
         history' \in {history, <<>>}, history' = <<>> => loop' = "down" \/ history = <<>>,
         loop' # "down" => loop # "down",
         \/ UNCHANGED <<file, badSaves>>
         \/ badSaves' = badSaves + 1 /\ badSaves' <= MaxBadSaves /\ file' = <<"torn">>,
         starts' = starts
  PROVE  CollectorInv'
<1>1. CollectorTypeOK /\ HistoryInv /\ badSaves \in Nat /\ MaxBadSaves \in Nat
  BY CollectorAssumption DEF CollectorInv, CollectorTypeOK
<1>2. history' \in Seq(1..MaxSamples) /\ Len(history') <= MaxHistory
  <2>1. CASE history' = history
    BY <1>1, <2>1 DEF CollectorTypeOK
  <2>2. CASE history' = <<>>
    <3>1. <<>> \in Seq(1..MaxSamples) /\ Len(<<>>) = 0
      OBVIOUS
    <3> QED
      BY <2>2, <3>1, CollectorAssumption
  <2> QED
    BY <2>1, <2>2
<1>3. CollectorTypeOK'
  BY <1>1, <1>2 DEF CollectorTypeOK
<1>4. Ordered(history)'
  BY <1>1 DEF HistoryInv, Ordered
<1>5. CASE UNCHANGED <<file, badSaves>>
  <2>1. file'[1] = "list" => Ordered(file[2])'
    BY <1>1, <1>5 DEF HistoryInv, Ordered
  <2>2. badSaves' = 0 => /\ file'[1] = "list" => Latest(file[2])'
                         /\ file'[1] # "list" => taken' = 0
    BY <1>1, <1>5 DEF HistoryInv, Latest
  <2>3. badSaves' = 0 /\ loop' # "down" => Latest(history)'
    <3> SUFFICES ASSUME badSaves' = 0, loop' # "down" PROVE Latest(history)'
      OBVIOUS
    <3>1. history' = history /\ Latest(history)
      BY <1>1, <1>5 DEF HistoryInv
    <3> QED
      BY <3>1 DEF Latest
  <2> QED
    BY <1>3, <1>4, <2>1, <2>2, <2>3 DEF HistoryInv, CollectorInv
<1>6. CASE badSaves' = badSaves + 1 /\ file' = <<"torn">>
  <2>1. badSaves' # 0 /\ file'[1] # "list"
    BY <1>1, <1>6, FileFacts
  <2> QED
    BY <1>4, <2>1, <1>3 DEF HistoryInv, CollectorInv
<1> QED
  BY <1>3, <1>5, <1>6 DEF CollectorInv

\* start() takes the list of the file.
LEMMA StartCollectorKeeps ==
  ASSUME CollectorInv, StartCollector
  PROVE  CollectorInv'
<1>1. /\ CollectorTypeOK /\ HistoryInv
      /\ starts' \in 0..MaxStarts /\ loop' = "sampling"
      /\ UNCHANGED <<file, taken, badSaves>>
  BY CollectorAssumption DEF CollectorInv, CollectorTypeOK, StartCollector
<1>2. CASE file[1] = "list"
  <2> DEFINE h == file[2]
  <2>1. history' = LastOnes(h) /\ h \in Seq(1..MaxSamples) /\ Ordered(h)
    BY <1>1, <1>2, FileType DEF StartCollector, HistoryInv
  <2>2. badSaves = 0 => Latest(h)
    BY <1>1, <1>2 DEF HistoryInv
  <2> HIDE DEF h
  <2>3. /\ history' \in Seq(1..MaxSamples) /\ Ordered(LastOnes(h))
        /\ Len(history') = IF Len(h) > MaxHistory THEN MaxHistory ELSE Len(h)
        /\ \A k \in 1..Len(history') : history'[k] = h[Len(h) - Len(history') + k]
    <3>1. 1..MaxSamples \in SUBSET Int
      OBVIOUS
    <3>2. Ordered(LastOnes(h))
      BY <2>1, <3>1, KeptInOrder
    <3>3. /\ history' \in Seq(1..MaxSamples)
          /\ Len(history') = IF Len(h) > MaxHistory THEN MaxHistory ELSE Len(h)
          /\ \A k \in 1..Len(history') : history'[k] = h[Len(h) - Len(history') + k]
      BY <2>1, LastOnesFacts
    <3> QED
      BY <3>2, <3>3
  <2>4. CollectorTypeOK'
    BY <1>1, <2>1, <2>3, CollectorAssumption DEF CollectorTypeOK
  <2>5. Ordered(history)'
    BY <1>1, <2>1, <2>3 DEF Ordered
  <2>6. badSaves = 0 => Latest(history)'
    <3> SUFFICES ASSUME badSaves = 0 PROVE Latest(history)'
      OBVIOUS
    <3>1. Latest(h)
      BY <2>2
    <3>2. Len(h) \in Nat /\ DOMAIN h = 1..Len(h) /\ Len(h) <= MaxHistory /\ MaxHistory \in Nat
      BY <2>1, <3>1, CollectorAssumption DEF Latest
    <3>3. Len(history') = Len(h) /\ DOMAIN history' = 1..Len(h)
      BY <2>3, <3>2
    <3>4. \A k \in DOMAIN history' : history'[k] = h[k]
      BY <2>3, <3>2, <3>3
    <3> QED
      BY <1>1, <3>1, <3>2, <3>3, <3>4 DEF Latest
  <2> QED
    BY <1>1, <2>4, <2>5, <2>6 DEF CollectorInv, HistoryInv, Ordered, Latest
<1>3. CASE file[1] # "list"
  <2>1. history' = <<>>
    BY <1>3 DEF StartCollector
  <2>2. CollectorTypeOK'
    BY <1>1, <2>1, CollectorAssumption DEF CollectorTypeOK
  <2>3. Ordered(history)'
    BY <2>1 DEF Ordered
  <2>4. badSaves = 0 => taken = 0 /\ Latest(history)'
    BY <1>1, <1>3, <2>1, CollectorAssumption DEF HistoryInv, Latest
  <2> QED
    BY <1>1, <1>3, <2>2, <2>3, <2>4 DEF CollectorInv, HistoryInv
<1> QED
  BY <1>2, <1>3

\* The new sample is the latest, and the oldest goes when there are too many.
LEMMA CollectOnceKeeps ==
  ASSUME CollectorInv, CollectOnce
  PROVE  CollectorInv'
<1> DEFINE h == Append(history, taken')
<1>1. /\ CollectorTypeOK /\ HistoryInv
      /\ taken' = taken + 1 /\ taken' \in 1..MaxSamples /\ taken \in Nat
      /\ loop = "sampling" /\ loop' = "sleeping" /\ starts' = starts
      /\ history' = LastOnes(h) /\ SaveHistory(history')
  BY CollectorAssumption DEF CollectorInv, CollectorTypeOK, CollectOnce
<1>2. /\ history \in Seq(1..MaxSamples) /\ h \in Seq(1..MaxSamples)
      /\ Len(history) \in Nat /\ Len(history) <= MaxHistory /\ DOMAIN history = 1..Len(history)
      /\ Len(h) = Len(history) + 1 /\ DOMAIN h = 1..(Len(history) + 1)
      /\ \A k \in 1..Len(history) : h[k] = history[k]
      /\ h[Len(h)] = taken + 1
  BY <1>1 DEF CollectorTypeOK
<1> HIDE DEF h
<1>3. \A k \in 1..Len(history) : history[k] \in Int /\ history[k] <= taken
  <2>1. Ordered(history)
    BY <1>1 DEF HistoryInv
  <2>2. \A k \in 1..Len(history) : history[k] \in 1..MaxSamples
    BY <1>2, Elements
  <2> QED
    BY <1>2, <2>1, <2>2 DEF Ordered
<1>4. /\ \A j, k \in DOMAIN h : j < k => h[j] < h[k]
      /\ \A k \in DOMAIN h : h[k] <= taken'
  <2>1. \A j, k \in DOMAIN h : j < k => h[j] < h[k]
    <3> SUFFICES ASSUME NEW j \in DOMAIN h, NEW k \in DOMAIN h, j < k PROVE h[j] < h[k]
      OBVIOUS
    <3>1. j \in 1..Len(history) /\ h[j] = history[j]
      BY <1>2
    <3>2. CASE k \in 1..Len(history)
      BY <1>1, <1>2, <3>1, <3>2 DEF HistoryInv, Ordered
    <3>3. CASE k = Len(history) + 1
      BY <1>1, <1>2, <1>3, <3>1, <3>3
    <3> QED
      BY <1>2, <3>2, <3>3
  <2>2. \A k \in DOMAIN h : h[k] <= taken'
    BY <1>1, <1>2, <1>3
  <2> QED
    BY <2>1, <2>2
<1> DEFINE cut == Len(h) - Len(history')
<1>5. /\ history' \in Seq(1..MaxSamples) /\ DOMAIN history' = 1..Len(history')
      /\ Len(history') = IF Len(h) > MaxHistory THEN MaxHistory ELSE Len(h)
      /\ cut \in Nat
      /\ \A k \in 1..Len(history') : cut + k \in DOMAIN h /\ history'[k] = h[cut + k]
  <2>1. /\ history' \in Seq(1..MaxSamples)
        /\ Len(history') = IF Len(h) > MaxHistory THEN MaxHistory ELSE Len(h)
        /\ \A k \in 1..Len(history') : cut + k \in 1..Len(h) /\ history'[k] = h[cut + k]
    BY <1>1, <1>2, LastOnesFacts
  <2>2. DOMAIN history' = 1..Len(history') /\ Len(history') \in Nat
    BY <2>1
  <2>3. Len(history') <= Len(h) /\ Len(h) \in Nat
    BY <1>2, <2>1, CollectorAssumption
  <2>4. cut \in Nat
    BY <2>2, <2>3
  <2> QED
    BY <1>2, <2>1, <2>2, <2>4
<1>6. Ordered(history)'
  <2>1. \A j, k \in DOMAIN history' : j < k => history'[j] < history'[k]
    <3> SUFFICES ASSUME NEW j \in DOMAIN history', NEW k \in DOMAIN history', j < k
                 PROVE  history'[j] < history'[k]
      OBVIOUS
    <3>1. cut + j < cut + k /\ cut + j \in DOMAIN h /\ cut + k \in DOMAIN h
      BY <1>5
    <3> QED
      BY <1>4, <1>5, <3>1
  <2>2. \A k \in DOMAIN history' : history'[k] <= taken'
    BY <1>4, <1>5
  <2> QED
    BY <2>1, <2>2 DEF Ordered
<1>7. badSaves = 0 => Latest(history)'
  <2> SUFFICES ASSUME badSaves = 0 PROVE Latest(history)'
    OBVIOUS
  <2>1. /\ Len(history) = IF taken < MaxHistory THEN taken ELSE MaxHistory
        /\ \A k \in 1..Len(history) : history[k] = taken - Len(history) + k
    BY <1>1, <1>2 DEF HistoryInv, Latest
  <2>2. \A k \in DOMAIN h : h[k] = taken - Len(history) + k
    BY <1>1, <1>2, <2>1
  <2>3. Len(history') = IF taken' < MaxHistory THEN taken' ELSE MaxHistory
    BY <1>1, <1>2, <1>5, <2>1, CollectorAssumption
  <2>4. \A k \in DOMAIN history' : history'[k] = taken' - Len(history') + k
    <3> SUFFICES ASSUME NEW k \in DOMAIN history'
                 PROVE  history'[k] = taken' - Len(history') + k
      OBVIOUS
    <3>1. cut + k \in DOMAIN h /\ history'[k] = h[cut + k] /\ k \in Nat
      BY <1>5
    <3>2. history'[k] = taken - Len(history) + (cut + k)
      BY <2>2, <3>1
    <3>3. Len(h) = Len(history) + 1 /\ cut = Len(h) - Len(history')
      BY <1>2
    <3>4. Len(history) \in Int /\ Len(history') \in Int /\ taken \in Int /\ taken' = taken + 1
      BY <1>1, <1>2, <1>5
    <3> HIDE DEF cut
    <3> QED
      BY <3>1, <3>2, <3>3, <3>4
  <2> QED
    BY <2>3, <2>4 DEF Latest
<1> HIDE DEF cut
<1>8. Len(history') <= MaxHistory
  BY <1>2, <1>5, CollectorAssumption
<1>9. CASE file' = <<"list", history'>> /\ badSaves' = badSaves
  <2>1. file'[1] = "list" /\ file'[2] = history'
    BY <1>9, FileFacts
  <2>2. file' \in {"list"} \X Seq(1..MaxSamples)
    BY <1>5, <1>9
  <2>3. CollectorTypeOK'
    BY <1>1, <1>5, <1>8, <1>9, <2>2 DEF CollectorTypeOK
  <2>4. Ordered(file[2])' /\ (badSaves' = 0 => Latest(file[2])')
    BY <1>6, <1>7, <1>9, <2>1 DEF Ordered, Latest
  <2> QED
    BY <1>6, <1>7, <1>9, <2>1, <2>3, <2>4 DEF CollectorInv, HistoryInv
<1>10. CASE badSaves < MaxBadSaves /\ badSaves' = badSaves + 1 /\ file' \in {file, <<"torn">>}
  <2>1. badSaves' \in 0..MaxBadSaves /\ badSaves' # 0
    BY <1>1, <1>10, CollectorAssumption DEF CollectorTypeOK
  <2>2. CollectorTypeOK'
    BY <1>1, <1>5, <1>8, <1>10, <2>1 DEF CollectorTypeOK
  <2>3. file'[1] = "list" => Ordered(file[2])'
    <3> SUFFICES ASSUME file'[1] = "list" PROVE Ordered(file[2])'
      OBVIOUS
    <3>1. file' = file
      BY <1>10, FileFacts
    <3>2. Ordered(file[2]) /\ file[2] \in Seq(1..MaxSamples)
      BY <1>1, <3>1, FileType DEF HistoryInv
    <3> DEFINE h2 == file[2]
    <3>3. h2 \in Seq(1..MaxSamples) /\ Ordered(h2) /\ file'[2] = h2
      BY <3>1, <3>2
    <3> HIDE DEF h2
    <3>4. \A k \in DOMAIN h2 : h2[k] \in 1..MaxSamples
      BY <3>3, Elements
    <3>5. \A k \in DOMAIN h2 : h2[k] <= taken'
      BY <1>1, <3>3, <3>4 DEF Ordered
    <3> QED
      BY <3>3, <3>5 DEF Ordered
  <2> QED
    BY <1>6, <2>1, <2>2, <2>3 DEF CollectorInv, HistoryInv
<1> QED
  BY <1>1, <1>9, <1>10 DEF SaveHistory

\* Every step of the collector keeps its invariant.
LEMMA CollectorKeeps ==
  ASSUME CollectorInv, CollectorNext \/ UNCHANGED collectorVars
  PROVE  CollectorInv'
<1>1. CASE SampleFails \/ NextSample
  BY <1>1, NoSample DEF SampleFails, NextSample
<1>2. CASE StopCollector
  BY <1>2, NoSample DEF StopCollector
<1>3. CASE KilledInSave
  <2>1. badSaves' <= MaxBadSaves
    BY <1>3, CollectorAssumption DEF KilledInSave, CollectorInv, CollectorTypeOK
  <2> QED
    BY <1>3, <2>1, NoSample DEF KilledInSave
<1>4. CASE UNCHANGED collectorVars
  BY <1>4, NoSample DEF collectorVars, CollectorInv, CollectorTypeOK
<1> QED
  BY <1>1, <1>2, <1>3, <1>4, StartCollectorKeeps, CollectOnceKeeps DEF CollectorNext

-----------------------------------------------------------------------------
(* The alert manager. *)

\* The samples of the window that ends with the last one.
InWindow(all) == {k \in DOMAIN all : all[k].at > all[Len(all)].at - CpuWindow}

\* What the lists hold: the samples of the window of the last one, and the falls
\* that are new since the last look, or of its window.
ListsInv ==
  /\ \A k \in DOMAIN seen : seen[k].at <= clock
  /\ seen # <<>> => samples = InWindow(seen)
  /\ looked.at <= clock /\ looked.falls <= Len(falls)
  /\ drops = {k \in DOMAIN falls : k > looked.falls \/ falls[k] > looked.at - DropWindow}

AlertsInv == AlertsTypeOK /\ ListsInv /\ AlertsAreTrue

\* The two alerts with windows are none of the others.
LEMMA AlertNames ==
  /\ "cpu_high" # "tunnel_instability"
  /\ "cpu_high" \notin LevelAlerts /\ "tunnel_instability" \notin LevelAlerts
BY AlertsAssumption

\* What is fired stands, what is cleared does not, and each change is told once.
LEMMA FireOrClearFacts ==
  ASSUME AlertsTypeOK, OneShot,
         NEW checked \in SUBSET AlertTypes, NEW found \in SUBSET checked,
         FireOrClear(checked, found)
  PROVE  /\ active' \subseteq AlertTypes
         /\ told' \in [AlertTypes -> [fired : BOOLEAN, row : Nat]]
         /\ OneShot'
         /\ \A a \in AlertTypes : a \in active' <=> a \in found \/ (a \notin checked /\ a \in active)
<1> DEFINE fired == found \ active
           cleared == (checked \ found) \cap active
           new(a) == IF a \in fired \cup cleared
                     THEN [fired |-> a \in fired,
                           row |-> IF told[a].fired = (a \in fired) THEN told[a].row + 1 ELSE 1]
                     ELSE told[a]
<1>1. /\ active \subseteq AlertTypes /\ active' = (active \ checked) \cup found
      /\ told \in [AlertTypes -> [fired : BOOLEAN, row : Nat]]
      /\ told' = [a \in AlertTypes |-> new(a)]
  BY DEF AlertsTypeOK, FireOrClear, Tell
<1>2. \A a \in AlertTypes : told[a] \in [fired : BOOLEAN, row : Nat]
  BY <1>1
<1>3. \A a \in AlertTypes : told[a].row = 1 /\ (told[a].fired <=> a \in active)
  BY DEF OneShot
<1>4. ASSUME NEW a \in AlertTypes
      PROVE  /\ new(a) \in [fired : BOOLEAN, row : Nat]
             /\ new(a).row = 1 /\ (new(a).fired <=> a \in active')
  <2>1. CASE a \in fired
    <3>1. told[a].fired = FALSE /\ (a \in fired) = TRUE
      BY <1>2, <1>3, <2>1
    <3>2. new(a) = [fired |-> TRUE, row |-> 1]
      BY <2>1, <3>1
    <3> QED
      BY <1>1, <2>1, <3>2
  <2>2. CASE a \in cleared
    <3>1. told[a].fired = TRUE /\ (a \in fired) = FALSE
      BY <1>2, <1>3, <2>2
    <3>2. new(a) = [fired |-> FALSE, row |-> 1]
      BY <2>2, <3>1
    <3> QED
      BY <1>1, <2>2, <3>2
  <2>3. CASE a \notin fired \cup cleared
    <3>1. new(a) = told[a] /\ (a \in active' <=> a \in active)
      BY <1>1, <2>3
    <3> QED
      BY <1>2, <1>3, <3>1
  <2> QED
    BY <2>1, <2>2, <2>3
<1> HIDE DEF new
<1> QED
  BY <1>1, <1>4 DEF OneShot

\* The alert manager starts with nothing seen and nothing told.
LEMMA AlertsStart == AlertsInit => AlertsInv
<1> SUFFICES ASSUME AlertsInit PROVE AlertsInv
  OBVIOUS
<1>1. AlertsTypeOK
  BY AlertsAssumption DEF AlertsInit, AlertsTypeOK, Looks
<1>2. ListsInv
  BY <1>1, AlertsAssumption DEF AlertsInit, ListsInv
<1>3. CpuAlertIsTheWindow /\ OneShot
  BY DEF AlertsInit, CpuAlertIsTheWindow, OneShot
<1>4. InstabilityIsRecent
  <2>1. {k \in 1..looked.falls : falls[k] > looked.at - DropWindow} = {}
    BY DEF AlertsInit
  <2>2. ~(Cardinality({}) >= DropThreshold)
    BY FS_EmptySet, AlertsAssumption
  <2> QED
    BY <2>1, <2>2 DEF AlertsInit, InstabilityIsRecent
<1> QED
  BY <1>1, <1>2, <1>3, <1>4 DEF AlertsInv, AlertsAreTrue

\* evaluate() prunes to the window of the new sample, and the CPU alert follows it.
LEMMA EvaluateKeeps ==
  ASSUME AlertsInv, NEW levels \in SUBSET (LevelAlerts \cup {"cpu_high"}), Evaluate(levels)
  PROVE  AlertsInv'
<1> DEFINE look == [at |-> clock, high |-> "cpu_high" \in levels]
           n == Len(seen)
           checked == LevelAlerts \cup {"cpu_high"}
           found == (levels \cap LevelAlerts)
                      \cup (IF AllHigh(samples', seen') THEN {"cpu_high"} ELSE {})
<1>1. /\ AlertsTypeOK /\ ListsInv /\ AlertsAreTrue /\ clock \in Nat /\ CpuWindow \in Nat
      /\ seen' = Append(seen, look) /\ samples' = Recent(samples \cup {Len(seen')}, seen')
      /\ FireOrClear(checked, found)
      /\ UNCHANGED <<clock, drops, falls, looked>>
  BY AlertsAssumption DEF AlertsInv, AlertsTypeOK, Evaluate
<1>2. /\ seen \in Seq(Looks) /\ look \in Looks /\ n \in Nat /\ samples \subseteq 1..n
      /\ DOMAIN seen = 1..n /\ look.at = clock
  BY <1>1 DEF AlertsTypeOK, Looks
<1> HIDE DEF look
<1>3. /\ seen' \in Seq(Looks) /\ Len(seen') = n + 1 /\ DOMAIN seen' = 1..(n + 1)
      /\ seen' # <<>> /\ seen'[n + 1] = look
      /\ \A k \in 1..n : seen'[k] = seen[k]
  BY <1>1, <1>2
<1>4. \A k \in 1..n : seen[k].at \in Nat /\ seen[k].at <= clock
  <2>1. \A k \in 1..n : seen[k] \in Looks
    BY <1>2, Elements
  <2> QED
    BY <1>1, <1>2, <2>1 DEF ListsInv, Looks
<1>5. samples' = InWindow(seen')
  <2>1. samples' = {k \in samples \cup {n + 1} : seen'[k].at > clock - CpuWindow}
    BY <1>1, <1>3 DEF Recent
  <2>2. InWindow(seen') = {k \in 1..(n + 1) : seen'[k].at > clock - CpuWindow}
    BY <1>2, <1>3 DEF InWindow
  <2>3. ASSUME NEW k \in 1..n, seen[k].at > clock - CpuWindow
        PROVE  k \in samples
    <3>1. seen # <<>> /\ n \in 1..n
      BY <1>2
    <3>2. seen[k].at \in Nat /\ seen[n].at \in Nat /\ seen[n].at <= clock
      BY <1>4, <3>1
    <3>3. seen[k].at > seen[n].at - CpuWindow
      BY <1>1, <2>3, <3>2
    <3> QED
      BY <1>1, <1>2, <3>1, <3>3 DEF ListsInv, InWindow
  <2>4. samples \cup {n + 1} \subseteq 1..(n + 1)
    <3>1. samples \subseteq 1..n /\ n \in Nat
      BY <1>2
    <3> HIDE DEF n
    <3>2. n + 1 \in 1..(n + 1) /\ \A k \in 1..n : k \in 1..(n + 1)
      BY <3>1
    <3> QED
      BY <3>1, <3>2
  <2>5. \A k \in 1..(n + 1) : k \in 1..n \/ k = n + 1
    BY <1>2
  <2> QED
    BY <1>3, <2>1, <2>2, <2>3, <2>4, <2>5
<1>6. samples' \subseteq DOMAIN seen'
  BY <1>5 DEF InWindow
<1>7. checked \in SUBSET AlertTypes /\ found \in SUBSET checked
  BY DEF AlertTypes
<1>8. "cpu_high" \in found <=> AllHigh(samples', seen')
  BY AlertNames
<1> HIDE DEF found
<1>9. /\ active' \subseteq AlertTypes /\ told' \in [AlertTypes -> [fired : BOOLEAN, row : Nat]]
      /\ OneShot'
      /\ \A a \in AlertTypes :
           a \in active' <=> a \in found \/ (a \notin checked /\ a \in active)
  BY <1>1, <1>7, FireOrClearFacts DEF AlertsAreTrue
<1>10. AlertsTypeOK'
  BY <1>1, <1>3, <1>6, <1>9 DEF AlertsTypeOK
<1>11. ListsInv'
  <2>1. \A k \in DOMAIN seen' : seen'[k].at <= clock'
    BY <1>1, <1>2, <1>3, <1>4
  <2> QED
    BY <1>1, <1>5, <2>1 DEF ListsInv
<1>12. CpuAlertIsTheWindow'
  <2>1. "cpu_high" \in active' <=> AllHigh(samples', seen')
    BY <1>7, <1>8, <1>9 DEF AlertTypes
  <2> QED
    BY <1>5, <2>1 DEF CpuAlertIsTheWindow, InWindow
<1>13. InstabilityIsRecent'
  <2>1. "tunnel_instability" \in AlertTypes /\ "tunnel_instability" \notin checked
    BY AlertNames DEF AlertTypes
  <2>2. "tunnel_instability" \in active' <=> "tunnel_instability" \in active
    BY <1>7, <1>9, <2>1
  <2> QED
    BY <1>1, <2>2 DEF AlertsAreTrue, InstabilityIsRecent
<1> QED
  BY <1>9, <1>10, <1>11, <1>12, <1>13 DEF AlertsInv, AlertsAreTrue

\* A fall that is recorded waits for the next look.
LEMMA RecordTunnelDropKeeps ==
  ASSUME AlertsInv, RecordTunnelDrop
  PROVE  AlertsInv'
<1> DEFINE n == Len(falls)
<1>1. /\ AlertsTypeOK /\ ListsInv /\ AlertsAreTrue /\ clock \in Nat
      /\ falls' = Append(falls, clock) /\ drops' = drops \cup {Len(falls')}
      /\ UNCHANGED <<clock, active, samples, seen, looked, told>>
  BY AlertsAssumption DEF AlertsInv, AlertsTypeOK, RecordTunnelDrop
<1>2. /\ falls \in Seq(Nat) /\ n \in Nat /\ DOMAIN falls = 1..n
      /\ looked.falls \in Nat /\ looked.falls <= n
  BY <1>1 DEF AlertsTypeOK, ListsInv
<1>3. /\ falls' \in Seq(Nat) /\ Len(falls') = n + 1 /\ DOMAIN falls' = 1..(n + 1)
      /\ \A k \in 1..n : falls'[k] = falls[k]
  BY <1>1, <1>2
<1> HIDE DEF n
<1>4. drops' = {k \in DOMAIN falls' :
                  k > looked'.falls \/ falls'[k] > looked'.at - DropWindow}
  <2>1. drops = {k \in 1..n : k > looked.falls \/ falls[k] > looked.at - DropWindow}
    BY <1>1, <1>2 DEF ListsInv
  <2>2. n + 1 > looked.falls
    BY <1>2
  <2>3. \A k : k \in 1..(n + 1) <=> k \in 1..n \/ k = n + 1
    BY <1>2
  <2> QED
    BY <1>1, <1>3, <2>1, <2>2, <2>3
<1>5. AlertsTypeOK'
  BY <1>1, <1>3, <1>4 DEF AlertsTypeOK
<1>6. ListsInv'
  <2>1. looked'.falls <= Len(falls')
    BY <1>1, <1>2, <1>3
  <2> QED
    BY <1>1, <1>4, <2>1 DEF ListsInv, InWindow
<1>7. InstabilityIsRecent'
  <2>1. \A k \in 1..looked.falls : falls'[k] = falls[k]
    BY <1>2, <1>3
  <2>2. {k \in 1..looked'.falls : falls'[k] > looked'.at - DropWindow}
          = {k \in 1..looked.falls : falls[k] > looked.at - DropWindow}
    BY <1>1, <2>1
  <2> QED
    BY <1>1, <2>2 DEF AlertsAreTrue, InstabilityIsRecent
<1>8. CpuAlertIsTheWindow' /\ OneShot'
  BY <1>1 DEF AlertsAreTrue, CpuAlertIsTheWindow, OneShot, AllHigh
<1> QED
  BY <1>5, <1>6, <1>7, <1>8 DEF AlertsInv, AlertsAreTrue

\* A look leaves the falls of its window, and the alert follows their number.
LEMMA CheckTunnelInstabilityKeeps ==
  ASSUME AlertsInv, CheckTunnelInstability
  PROVE  AlertsInv'
<1> DEFINE n == Len(falls)
           checked == {"tunnel_instability"}
           found == IF Cardinality(drops') >= DropThreshold THEN {"tunnel_instability"} ELSE {}
<1>1. /\ AlertsTypeOK /\ ListsInv /\ AlertsAreTrue /\ clock \in Nat /\ DropWindow \in Nat
      /\ drops' = RecentDrops /\ looked' = [at |-> clock, falls |-> n]
      /\ FireOrClear(checked, found)
      /\ UNCHANGED <<clock, samples, seen, falls>>
  BY AlertsAssumption DEF AlertsInv, AlertsTypeOK, CheckTunnelInstability
<1>2. /\ falls \in Seq(Nat) /\ n \in Nat /\ DOMAIN falls = 1..n /\ drops \subseteq 1..n
      /\ looked.at \in Nat /\ looked.at <= clock
      /\ looked'.at = clock /\ looked'.falls = n
      /\ looked' \in [at : Nat, falls : Nat]
  BY <1>1 DEF AlertsTypeOK, ListsInv
<1>3. \A k \in 1..n : falls[k] \in Nat
  BY <1>2
<1>4. drops' = {k \in 1..n : falls[k] > clock - DropWindow}
  <2>1. drops' = {k \in drops : falls[k] > clock - DropWindow}
    BY <1>1 DEF RecentDrops
  <2>2. ASSUME NEW k \in 1..n, falls[k] > clock - DropWindow
        PROVE  k \in drops
    <3>1. falls[k] > looked.at - DropWindow
      BY <1>1, <1>2, <1>3, <2>2
    <3> QED
      BY <1>1, <1>2, <3>1 DEF ListsInv
  <2> QED
    BY <1>2, <2>1, <2>2
<1>5. checked \in SUBSET AlertTypes /\ found \in SUBSET checked
  BY DEF AlertTypes
<1>6. "tunnel_instability" \in found <=> Cardinality(drops') >= DropThreshold
  OBVIOUS
<1> HIDE DEF n, found
<1>7. /\ active' \subseteq AlertTypes /\ told' \in [AlertTypes -> [fired : BOOLEAN, row : Nat]]
      /\ OneShot'
      /\ \A a \in AlertTypes :
           a \in active' <=> a \in found \/ (a \notin checked /\ a \in active)
  BY <1>1, <1>5, FireOrClearFacts DEF AlertsAreTrue
<1>8. AlertsTypeOK'
  BY <1>1, <1>2, <1>4, <1>7 DEF AlertsTypeOK
<1>9. ListsInv'
  <2>1. looked'.at <= clock' /\ looked'.falls <= Len(falls')
    BY <1>1, <1>2 DEF n
  <2>2. drops' = {k \in DOMAIN falls' :
                    k > looked'.falls \/ falls'[k] > looked'.at - DropWindow}
    <3>1. \A k \in 1..n : ~(k > n)
      BY <1>2
    <3> QED
      BY <1>1, <1>2, <1>4, <3>1
  <2> QED
    BY <1>1, <2>1, <2>2 DEF ListsInv, InWindow
<1>10. InstabilityIsRecent'
  <2>1. "tunnel_instability" \in AlertTypes
    BY DEF AlertTypes
  <2>2. "tunnel_instability" \in active' <=> Cardinality(drops') >= DropThreshold
    BY <1>6, <1>7, <2>1
  <2>3. drops' = {k \in 1..looked'.falls : falls'[k] > looked'.at - DropWindow}
    BY <1>1, <1>2, <1>4
  <2> QED
    BY <2>2, <2>3 DEF InstabilityIsRecent
<1>11. CpuAlertIsTheWindow'
  <2>1. "cpu_high" \in AlertTypes /\ "cpu_high" \notin checked
    BY AlertNames DEF AlertTypes
  <2>2. "cpu_high" \in active' <=> "cpu_high" \in active
    BY <1>5, <1>7, <2>1
  <2> QED
    BY <1>1, <2>2 DEF AlertsAreTrue, CpuAlertIsTheWindow, AllHigh
<1> QED
  BY <1>7, <1>8, <1>9, <1>10, <1>11 DEF AlertsInv, AlertsAreTrue

\* Every step of the alert manager keeps its invariant.
LEMMA AlertsKeep ==
  ASSUME AlertsInv, AlertsNext \/ UNCHANGED alertVars
  PROVE  AlertsInv'
<1>1. ASSUME clock' \in clock..MaxClock,
             UNCHANGED <<active, samples, drops, seen, falls, looked, told>>
      PROVE  AlertsInv'
  <2>1. AlertsTypeOK /\ ListsInv /\ AlertsAreTrue /\ clock \in Nat
    BY AlertsAssumption DEF AlertsInv, AlertsTypeOK
  <2>2. AlertsTypeOK'
    BY <1>1, <2>1, AlertsAssumption DEF AlertsTypeOK
  <2>3. \A k \in DOMAIN seen : seen[k].at \in Nat
    <3>1. seen \in Seq(Looks)
      BY <2>1 DEF AlertsTypeOK
    <3>2. \A k \in DOMAIN seen : seen[k] \in Looks
      BY <3>1, Elements
    <3> QED
      BY <3>2 DEF Looks
  <2>4. \A k \in DOMAIN seen' : seen'[k].at <= clock'
    BY <1>1, <2>1, <2>3, AlertsAssumption DEF ListsInv
  <2>5. looked'.at <= clock'
    BY <1>1, <2>1, AlertsAssumption DEF ListsInv, AlertsTypeOK
  <2>6. ListsInv'
    BY <1>1, <2>1, <2>4, <2>5 DEF ListsInv, InWindow
  <2>7. AlertsAreTrue'
    BY <1>1, <2>1
       DEF AlertsAreTrue, CpuAlertIsTheWindow, InstabilityIsRecent, OneShot, AllHigh
  <2> QED
    BY <2>2, <2>6, <2>7 DEF AlertsInv
<1>2. clock \in 0..MaxClock /\ MaxClock \in Nat
  BY AlertsAssumption DEF AlertsInv, AlertsTypeOK
<1>3. CASE ClockTick
  BY <1>1, <1>2, <1>3 DEF ClockTick
<1>4. CASE UNCHANGED alertVars
  BY <1>1, <1>2, <1>4 DEF alertVars
<1> QED
  BY <1>3, <1>4, EvaluateKeeps, RecordTunnelDropKeeps, CheckTunnelInstabilityKeeps
     DEF AlertsNext

-----------------------------------------------------------------------------
(* The notification service. *)

\* The types of what the histories hold.
NoticeHistoryOK ==
  /\ arrived \in [Chats -> [number : Nat, part : Nat, at : Nat, sure : BOOLEAN]]
  /\ recorded \subseteq [chat : Chats, type : Types, since : Nat, at : Nat]
  /\ silenced \subseteq [chat : Chats, type : Types, at : Nat]

\* The time noted for a type and a chat is that of the last of its like, and a
\* call on its way was asked for a window after those sent before it.
DedupInv ==
  /\ \A r \in recorded : r.since <= time /\ r.at <= dedup[<<r.chat, r.type>>]
  /\ \A chat \in Chats, type \in Types :
       /\ dedup[<<chat, type>>] <= time
       /\ dedup[<<chat, type>>] # 0 =>
            \E r \in recorded : r.chat = chat /\ r.type = type /\ r.at = dedup[<<chat, type>>]
  /\ \A d \in Callers : job[d].pc # "idle" =>
       /\ job[d].pc \in {"sending", "pause"}
       /\ job[d].chat \in Chats /\ job[d].type \in Types /\ job[d].since <= time
       /\ \A r \in recorded :
            r.chat = job[d].chat /\ r.type = job[d].type /\ job[d].since > r.at =>
              job[d].since - r.at >= DedupWindow

\* What is numbered n and part k comes after the last message to the chat.
After(last, n, k) == last.number < n \/ (last.number = n /\ last.part < k)

\* At time t the last message to the chat is a unit of time old.
Spread(last, t) == last.number > 0 => last.at + 1 <= t

\* The events queued come after the one served, in their order.
QueueInv ==
  \A i \in DOMAIN queue :
    /\ queue[i].number <= events /\ job[Sender].number < queue[i].number
    /\ \A c \in Chats : arrived[c].number < queue[i].number
    /\ \A k \in DOMAIN queue : i < k => queue[i].number < queue[k].number

\* The last message to the chat is one of event n of which nobody knows whether it
\* arrived.
Loose(last, n) == last.number = n /\ ~last.sure

\* What arrived was queued, and has arrived by now.
SenderNotes == \A c \in Chats : arrived[c].number <= events /\ arrived[c].at <= time

\* The sender at work has noted its messages, but for one it does not know of and
\* goes on from at once; j is what it is at, sent what is noted.
NotedAt(j, sent) ==
  serving => \A c \in Chats :
    \/ arrived[c].number > 0 => arrived[c].at <= sent[c]
    \/ j.pc = "sending" /\ j.chat = c /\ Loose(arrived[c], j.number)

\* What the sender is about to send is next for its chat, and spaced once it has
\* waited, unless it follows on one it does not know of; j is what it is at.
SenderAt(j) ==
  /\ ~serving => j.pc = "idle"
  /\ j.number <= events
  /\ j.pc # "idle" => \A c \in j.left : arrived[c].number < j.number
  /\ j.pc \in {"spacing", "sending", "pause"} =>
       j.chat \in Chats \ j.left /\ arrived[j.chat].number <= j.number
  /\ j.pc \in {"spacing", "sending"} => After(arrived[j.chat], j.number, j.part)
  /\ j.pc = "pause" => After(arrived[j.chat], j.number, j.part + 1)
  /\ j.pc \in {"spacing", "pause"} => Spread(arrived[j.chat], j.until)
  /\ j.pc = "sending" => Spread(arrived[j.chat], time) \/ Loose(arrived[j.chat], j.number)

SenderInv == SenderNotes /\ SenderAt(job[Sender]) /\ NotedAt(job[Sender], lastSend)

NoticesInv ==
  /\ NoticesTypeOK /\ NoticeHistoryOK /\ DedupInv /\ DedupIsExact /\ QueueInv /\ SenderInv

\* What the clauses above speak of, with its type.
LEMMA NoticeFacts ==
  ASSUME NoticesInv
  PROVE  /\ time \in Nat /\ MaxTime \in Nat /\ time <= MaxTime /\ BootedFor \in Nat
         /\ DedupWindow \in Nat /\ MaxRequests \in Nat /\ MaxParts \in Nat \ {0}
         /\ calls \in Nat /\ events \in Nat
         /\ \A d \in Doers : job[d] \in Jobs
         /\ Sender \in Doers /\ Sender \notin Callers /\ Callers \subseteq Doers
         /\ \A c \in Chats : arrived[c] \in [number : Nat, part : Nat, at : Nat, sure : BOOLEAN]
         /\ \A c \in Chats : lastSend[c] \in Nat
         /\ \A chat \in Chats, type \in Types : dedup[<<chat, type>>] \in Nat
         /\ \A r \in recorded : r \in [chat : Chats, type : Types, since : Nat, at : Nat]
<1>1. NoticesTypeOK /\ NoticeHistoryOK
  BY DEF NoticesInv
<1>2. /\ time \in Nat /\ MaxTime \in Nat /\ time <= MaxTime /\ BootedFor \in Nat
      /\ DedupWindow \in Nat /\ MaxRequests \in Nat /\ MaxParts \in Nat \ {0}
      /\ calls \in Nat /\ events \in Nat
  BY <1>1, NoticesAssumption DEF NoticesTypeOK
<1>3. /\ \A d \in Doers : job[d] \in Jobs
      /\ \A c \in Chats : lastSend[c] \in Nat
  BY <1>1 DEF NoticesTypeOK
<1>4. \A chat \in Chats, type \in Types : dedup[<<chat, type>>] \in Nat
  <2>1. dedup \in [Chats \X Types -> 0..MaxTime]
    BY <1>1 DEF NoticesTypeOK
  <2>2. \A chat \in Chats, type \in Types : <<chat, type>> \in Chats \X Types
    OBVIOUS
  <2>3. 0..MaxTime \subseteq Nat
    BY <1>2
  <2> SUFFICES ASSUME NEW chat \in Chats, NEW type \in Types
               PROVE  dedup[<<chat, type>>] \in Nat
    OBVIOUS
  <2>4. dedup[<<chat, type>>] \in 0..MaxTime
    BY <2>1, <2>2
  <2> QED
    BY <2>3, <2>4
<1> QED
  BY <1>1, <1>2, <1>3, <1>4, NoticesAssumption DEF NoticeHistoryOK, Doers

\* The idle job.
LEMMA NoJobFacts ==
  NoticesInv => /\ NoJob \in Jobs /\ NoJob.pc = "idle" /\ NoJob.number = 0
                /\ NoJob.part = 1 /\ NoJob.left = {}
BY NoticeFacts DEF NoJob, Jobs

\* A job that is replaced is of its type, and the others stay.
LEMMA OneJobChanges ==
  ASSUME NoticesInv, NEW d \in Doers, NEW p \in Jobs, job' = [job EXCEPT ![d] = p]
  PROVE  /\ job' \in [Doers -> Jobs] /\ job'[d] = p
         /\ \A e \in Doers \ {d} : job'[e] = job[e]
BY DEF NoticesInv, NoticesTypeOK

\* The service starts with nothing queued and nothing noted.
LEMMA NoticesStart == NoticesInit => NoticesInv
<1> SUFFICES ASSUME NoticesInit PROVE NoticesInv
  OBVIOUS
<1>1. NoJob \in Jobs /\ NoJob.pc = "idle" /\ NoJob.number = 0
  BY NoticesAssumption DEF NoJob, Jobs
<1>2. \A d \in Doers : job[d] = NoJob
  BY DEF NoticesInit
<1>3. Sender \in Doers /\ Callers \subseteq Doers
  BY DEF Doers
<1>4. NoticesTypeOK
  BY <1>1, NoticesAssumption DEF NoticesInit, NoticesTypeOK
<1>5. NoticeHistoryOK
  BY DEF NoticesInit, NoticeHistoryOK
<1>6. DedupInv
  BY <1>1, <1>2, <1>3, NoticesAssumption DEF NoticesInit, DedupInv
<1>7. DedupIsExact
  BY DEF NoticesInit, DedupIsExact, RepeatsOverlap, OnlyRepeatsAreSilenced
<1>8. QueueInv
  BY DEF NoticesInit, QueueInv
<1>9. SenderInv
  BY <1>1, <1>2, <1>3, NoticesAssumption DEF NoticesInit, SenderInv, SenderNotes, SenderAt, NotedAt
<1> QED
  BY <1>4, <1>5, <1>6, <1>7, <1>8, <1>9 DEF NoticesInv

\* Time passes for the calls on their way, some end, and nothing new is noted.
LEMMA CallsStay ==
  ASSUME NoticesInv, time' \in Nat, time' >= time,
         \A d \in Callers : job'[d] = job[d] \/ job'[d].pc = "idle",
         UNCHANGED <<dedup, recorded, silenced>>
  PROVE  DedupInv' /\ DedupIsExact'
<1>1. /\ DedupInv /\ DedupIsExact /\ time \in Nat
      /\ \A chat \in Chats, type \in Types : dedup[<<chat, type>>] \in Nat
      /\ \A r \in recorded : r \in [chat : Chats, type : Types, since : Nat, at : Nat]
      /\ \A d \in Callers : job[d].since \in Nat
  BY NoticeFacts DEF NoticesInv, Jobs
<1>2. \A r \in recorded' : r.since <= time' /\ r.at <= dedup'[<<r.chat, r.type>>]
  <2> SUFFICES ASSUME NEW r \in recorded
               PROVE  r.since <= time' /\ r.at <= dedup[<<r.chat, r.type>>]
    OBVIOUS
  <2>1. r.since <= time /\ r.at <= dedup[<<r.chat, r.type>>]
    BY <1>1 DEF DedupInv
  <2>2. r.since <= time'
    BY <1>1, <2>1
  <2> QED
    BY <2>1, <2>2
<1>3. \A chat \in Chats, type \in Types :
        /\ dedup'[<<chat, type>>] <= time'
        /\ dedup'[<<chat, type>>] # 0 =>
             \E r \in recorded' : r.chat = chat /\ r.type = type /\ r.at = dedup'[<<chat, type>>]
  <2> SUFFICES ASSUME NEW chat \in Chats, NEW type \in Types
               PROVE  /\ dedup[<<chat, type>>] <= time'
                      /\ dedup[<<chat, type>>] # 0 =>
                           \E r \in recorded :
                             r.chat = chat /\ r.type = type /\ r.at = dedup[<<chat, type>>]
    OBVIOUS
  <2> DEFINE noted == dedup[<<chat, type>>]
  <2>1. /\ noted <= time /\ noted \in Nat
        /\ noted # 0 => \E r \in recorded : r.chat = chat /\ r.type = type /\ r.at = noted
    BY <1>1 DEF DedupInv
  <2> HIDE DEF noted
  <2>2. noted <= time'
    BY <1>1, <2>1
  <2> QED
    BY <2>1, <2>2 DEF noted
<1>4. ASSUME NEW d \in Callers, job'[d].pc # "idle"
      PROVE  /\ job'[d].pc \in {"sending", "pause"}
             /\ job'[d].chat \in Chats /\ job'[d].type \in Types /\ job'[d].since <= time'
             /\ \A r \in recorded' :
                  r.chat = job'[d].chat /\ r.type = job'[d].type /\ job'[d].since > r.at =>
                    job'[d].since - r.at >= DedupWindow
  BY <1>1, <1>4 DEF DedupInv
<1>5. DedupIsExact'
  BY <1>1 DEF DedupIsExact, RepeatsOverlap, OnlyRepeatsAreSilenced
<1> QED
  BY <1>2, <1>3, <1>4, <1>5 DEF DedupInv

\* A call that goes on with its next part, or its next pause, stays the same call.
LEMMA CallGoesOn ==
  ASSUME NoticesInv, NEW d \in Callers, job[d].pc # "idle", NEW p \in Jobs,
         p.pc \in {"sending", "pause"},
         p.chat = job[d].chat, p.type = job[d].type, p.since = job[d].since,
         job' = [job EXCEPT ![d] = p],
         UNCHANGED <<time, dedup, recorded, silenced>>
  PROVE  DedupInv' /\ DedupIsExact'
<1>1. DedupInv /\ DedupIsExact /\ \A e \in Callers \ {d} : job'[e] = job[e]
  BY OneJobChanges, NoticeFacts DEF NoticesInv
<1>2. job'[d] = p
  BY OneJobChanges, NoticeFacts
<1>3. /\ \A r \in recorded' : r.since <= time' /\ r.at <= dedup'[<<r.chat, r.type>>]
      /\ \A chat \in Chats, type \in Types :
           /\ dedup'[<<chat, type>>] <= time'
           /\ dedup'[<<chat, type>>] # 0 =>
                \E r \in recorded' : r.chat = chat /\ r.type = type /\ r.at = dedup'[<<chat, type>>]
  BY <1>1 DEF DedupInv
<1>4. ASSUME NEW e \in Callers, job'[e].pc # "idle"
      PROVE  /\ job'[e].pc \in {"sending", "pause"}
             /\ job'[e].chat \in Chats /\ job'[e].type \in Types /\ job'[e].since <= time'
             /\ \A r \in recorded' :
                  r.chat = job'[e].chat /\ r.type = job'[e].type /\ job'[e].since > r.at =>
                    job'[e].since - r.at >= DedupWindow
  <2>1. CASE e = d
    BY <1>1, <1>2, <2>1 DEF DedupInv
  <2>2. CASE e # d
    BY <1>1, <1>4, <2>2 DEF DedupInv
  <2> QED
    BY <2>1, <2>2
<1>5. DedupIsExact'
  BY <1>1 DEF DedupIsExact, RepeatsOverlap, OnlyRepeatsAreSilenced
<1> QED
  BY <1>3, <1>4, <1>5 DEF DedupInv

\* A call that ends is noted at the time of its end: one of its like that was
\* asked for later was not yet asked for, and those sent before are a window old
\* or were on their way together with it.
LEMMA CallEnds ==
  ASSUME NoticesInv, NEW d \in Callers, job[d].pc # "idle",
         job' = [job EXCEPT ![d] = NoJob], Record(d),
         UNCHANGED <<time, silenced>>
  PROVE  /\ DedupInv' /\ DedupIsExact'
         /\ recorded' \subseteq [chat : Chats, type : Types, since : Nat, at : Nat]
         /\ dedup' \in [Chats \X Types -> 0..MaxTime]
<1> DEFINE j == job[d]
           new == [chat |-> j.chat, type |-> j.type, since |-> j.since, at |-> time]
<1>1. /\ DedupInv /\ DedupIsExact /\ time \in Nat
      /\ NoticesTypeOK /\ time \in 0..MaxTime
      /\ \A chat \in Chats, type \in Types : dedup[<<chat, type>>] \in Nat
      /\ \A r \in recorded : r \in [chat : Chats, type : Types, since : Nat, at : Nat]
      /\ d \in Doers /\ d # Sender
  BY NoticeFacts DEF NoticesInv
<1>2. /\ j.chat \in Chats /\ j.type \in Types /\ j.since \in Nat /\ j.since <= time
      /\ \A r \in recorded :
           r.chat = j.chat /\ r.type = j.type /\ j.since > r.at => j.since - r.at >= DedupWindow
  BY <1>1, NoticeFacts DEF DedupInv, Jobs
<1>3. /\ dedup' = [dedup EXCEPT ![<<j.chat, j.type>>] = time]
      /\ recorded' = recorded \cup {new}
  BY <1>1 DEF Record
<1>4. /\ \A e \in Callers \ {d} : job'[e] = job[e]
      /\ job'[d].pc = "idle"
  BY <1>1, OneJobChanges, NoJobFacts, NoticeFacts
<1>5. /\ new \in [chat : Chats, type : Types, since : Nat, at : Nat]
      /\ new.chat = j.chat /\ new.type = j.type /\ new.since = j.since /\ new.at = time
  BY <1>1, <1>2
<1> HIDE DEF new, j
<1>6. <<j.chat, j.type>> \in Chats \X Types
  BY <1>2
<1>7. dedup' \in [Chats \X Types -> 0..MaxTime]
  BY <1>1, <1>3 DEF NoticesTypeOK
<1>8. /\ dedup'[<<j.chat, j.type>>] = time
      /\ \A chat \in Chats, type \in Types :
           chat # j.chat \/ type # j.type => dedup'[<<chat, type>>] = dedup[<<chat, type>>]
  <2>1. dedup \in [Chats \X Types -> 0..MaxTime]
    BY <1>1 DEF NoticesTypeOK
  <2> QED
    BY <1>3, <1>6, <2>1
<1>9. \A r \in recorded' : r.since <= time' /\ r.at <= dedup'[<<r.chat, r.type>>]
  <2> SUFFICES ASSUME NEW r \in recorded' PROVE r.since <= time /\ r.at <= dedup'[<<r.chat, r.type>>]
    OBVIOUS
  <2>1. CASE r = new
    BY <1>1, <1>2, <1>5, <1>8, <2>1
  <2>2. CASE r \in recorded
    <3>1. /\ r.chat \in Chats /\ r.type \in Types /\ r.at \in Nat /\ r.since <= time
          /\ r.at <= dedup[<<r.chat, r.type>>] /\ dedup[<<r.chat, r.type>>] <= time
          /\ dedup[<<r.chat, r.type>>] \in Nat
      BY <1>1, <2>2 DEF DedupInv
    <3>2. CASE r.chat = j.chat /\ r.type = j.type
      BY <1>1, <1>8, <3>1, <3>2
    <3>3. CASE r.chat # j.chat \/ r.type # j.type
      BY <1>8, <3>1, <3>3
    <3> QED
      BY <3>2, <3>3
  <2> QED
    BY <1>3, <2>1, <2>2
<1>10. ASSUME NEW chat \in Chats, NEW type \in Types
       PROVE  /\ dedup'[<<chat, type>>] <= time'
              /\ dedup'[<<chat, type>>] # 0 =>
                   \E r \in recorded' :
                     r.chat = chat /\ r.type = type /\ r.at = dedup'[<<chat, type>>]
  <2>1. CASE chat = j.chat /\ type = j.type
    BY <1>1, <1>3, <1>5, <1>8, <2>1
  <2>2. CASE chat # j.chat \/ type # j.type
    <3>1. dedup'[<<chat, type>>] = dedup[<<chat, type>>]
      BY <1>8, <2>2
    <3>2. /\ dedup[<<chat, type>>] <= time
          /\ dedup[<<chat, type>>] # 0 =>
               \E r \in recorded :
                 r.chat = chat /\ r.type = type /\ r.at = dedup[<<chat, type>>]
      BY <1>1 DEF DedupInv
    <3>3. recorded \subseteq recorded'
      BY <1>3
    <3> QED
      BY <3>1, <3>2, <3>3
  <2> QED
    BY <2>1, <2>2
<1>11. ASSUME NEW e \in Callers, job'[e].pc # "idle"
       PROVE  /\ job'[e].pc \in {"sending", "pause"}
              /\ job'[e].chat \in Chats /\ job'[e].type \in Types /\ job'[e].since <= time'
              /\ \A r \in recorded' :
                   r.chat = job'[e].chat /\ r.type = job'[e].type /\ job'[e].since > r.at =>
                     job'[e].since - r.at >= DedupWindow
  <2>1. job'[e] = job[e] /\ job[e].since \in Nat
    BY <1>4, <1>11, NoticeFacts DEF Jobs
  <2>2. /\ job[e].pc \in {"sending", "pause"}
        /\ job[e].chat \in Chats /\ job[e].type \in Types /\ job[e].since <= time
        /\ \A r \in recorded :
             r.chat = job[e].chat /\ r.type = job[e].type /\ job[e].since > r.at =>
               job[e].since - r.at >= DedupWindow
    BY <1>1, <1>11, <2>1 DEF DedupInv
  <2>3. ~(job[e].since > new.at)
    BY <1>1, <1>5, <2>1, <2>2
  <2> QED
    BY <1>3, <2>1, <2>2, <2>3
<1>12. RepeatsOverlap'
  <2> SUFFICES ASSUME NEW a \in recorded', NEW b \in recorded',
                      a.chat = b.chat, a.type = b.type, b.since > a.at
               PROVE  b.since - a.at >= DedupWindow
    BY DEF RepeatsOverlap
  <2>1. a # new
    <3>1. b.since \in Nat /\ b.since <= time
      BY <1>1, <1>3, <1>5, <1>9
    <3> QED
      BY <1>1, <1>5, <3>1
  <2>2. a \in recorded
    BY <1>3, <2>1
  <2>3. CASE b = new
    BY <1>2, <1>5, <2>2, <2>3
  <2>4. CASE b \in recorded
    BY <1>1, <2>2, <2>4 DEF DedupIsExact, RepeatsOverlap
  <2> QED
    BY <1>3, <2>3, <2>4
<1>13. OnlyRepeatsAreSilenced'
  BY <1>1, <1>3 DEF DedupIsExact, OnlyRepeatsAreSilenced
<1> QED
  BY <1>1, <1>3, <1>5, <1>7, <1>9, <1>10, <1>11, <1>12, <1>13 DEF DedupInv, DedupIsExact

\* A notice is suppressed for one noted within the window, and no other.
LEMMA NotifyDedups ==
  ASSUME NoticesInv, NEW d \in Callers, NEW chat \in Chats, NEW type \in Types,
         Notify(d, chat, type)
  PROVE  /\ job' \in [Doers -> Jobs] /\ \A e \in Doers \ Callers : job'[e] = job[e]
         /\ NoticeHistoryOK' /\ DedupInv' /\ DedupIsExact'
<1> DEFINE key == <<chat, type>>
<1>1. /\ DedupInv /\ DedupIsExact /\ NoticeHistoryOK /\ NoticesTypeOK
      /\ time \in Nat /\ time \in 0..MaxTime /\ DedupWindow \in Nat
      /\ dedup[key] \in Nat /\ dedup[key] <= time /\ d \in Doers
      /\ \A r \in recorded : r \in [chat : Chats, type : Types, since : Nat, at : Nat]
      /\ MaxParts \in Nat \ {0} /\ MaxTime \in Nat /\ MaxRequests \in Nat
  BY NoticeFacts DEF NoticesInv, DedupInv
<1>2. UNCHANGED <<time, serving, dedup, lastSend, queue, events, arrived, recorded>>
  BY DEF Notify
<1>3. CASE Deduped(chat, type)
  <2> DEFINE new == [chat |-> chat, type |-> type, at |-> time]
  <2>1. silenced' = silenced \cup {new} /\ job' = job /\ time - dedup[key] < DedupWindow
    BY <1>3 DEF Notify, Deduped
  <2>2. new \in [chat : Chats, type : Types, at : Nat]
    BY <1>1
  <2>3. new.chat = chat /\ new.type = type /\ new.at = time
    OBVIOUS
  <2> HIDE DEF new
  <2>4. \/ new.at < DedupWindow
        \/ \E r \in recorded : r.chat = chat /\ r.type = type /\ new.at - r.at < DedupWindow
    <3>1. CASE dedup[key] = 0
      BY <1>1, <2>1, <2>3, <3>1
    <3>2. CASE dedup[key] # 0
      <4>1. PICK r \in recorded : r.chat = chat /\ r.type = type /\ r.at = dedup[key]
        BY <1>1, <3>2 DEF DedupInv
      <4> QED
        BY <2>1, <2>3, <4>1
    <3> QED
      BY <3>1, <3>2
  <2>5. OnlyRepeatsAreSilenced'
    BY <1>1, <1>2, <2>1, <2>3, <2>4 DEF DedupIsExact, OnlyRepeatsAreSilenced
  <2>6. RepeatsOverlap'
    BY <1>1, <1>2 DEF DedupIsExact, RepeatsOverlap
  <2>7. DedupInv'
    BY <1>1, <1>2, <2>1 DEF DedupInv
  <2>8. NoticeHistoryOK'
    BY <1>1, <1>2, <2>1, <2>2 DEF NoticeHistoryOK
  <2> QED
    BY <1>1, <2>1, <2>5, <2>6, <2>7, <2>8 DEF DedupIsExact, NoticesTypeOK
<1>4. CASE ~Deduped(chat, type)
  <2>1. PICK parts \in 1..MaxParts :
          job' = [job EXCEPT ![d] = [NoJob EXCEPT !.pc = "sending", !.chat = chat,
                                       !.type = type, !.since = time, !.parts = parts]]
    BY <1>4 DEF Notify
  <2> DEFINE p == [NoJob EXCEPT !.pc = "sending", !.chat = chat,
                                !.type = type, !.since = time, !.parts = parts]
  <2>2. NoJob \in Jobs
    BY NoJobFacts
  <2>3. p \in Jobs /\ p.pc = "sending" /\ p.chat = chat /\ p.type = type /\ p.since = time
    BY <1>1, <2>2 DEF Jobs
  <2>4. job' = [job EXCEPT ![d] = p]
    BY <2>1
  <2> HIDE DEF p
  <2>5. /\ job' \in [Doers -> Jobs] /\ job'[d] = p
        /\ \A e \in Doers \ {d} : job'[e] = job[e]
    BY <1>1, <2>3, <2>4, OneJobChanges
  <2>6. silenced' = silenced /\ time - dedup[key] >= DedupWindow
    <3> DEFINE noted == dedup[key]
    <3>1. silenced' = silenced /\ ~(time - noted < DedupWindow) /\ noted \in Nat
      BY <1>1, <1>4 DEF Notify, Deduped
    <3> HIDE DEF noted
    <3>2. time - noted >= DedupWindow
      BY <1>1, <3>1
    <3> QED
      BY <3>1, <3>2 DEF noted
  <2>7. \A r \in recorded : r.chat = chat /\ r.type = type => time - r.at >= DedupWindow
    BY <1>1, <2>6 DEF DedupInv
  <2>8. ASSUME NEW e \in Callers, job'[e].pc # "idle"
        PROVE  /\ job'[e].pc \in {"sending", "pause"}
               /\ job'[e].chat \in Chats /\ job'[e].type \in Types /\ job'[e].since <= time'
               /\ \A r \in recorded' :
                    r.chat = job'[e].chat /\ r.type = job'[e].type /\ job'[e].since > r.at =>
                      job'[e].since - r.at >= DedupWindow
    <3>1. CASE e = d
      BY <1>1, <1>2, <2>3, <2>5, <2>7, <3>1
    <3>2. CASE e # d
      <4>1. job'[e] = job[e]
        BY <2>5, <3>2, NoticeFacts
      <4> QED
        BY <1>1, <1>2, <2>8, <4>1 DEF DedupInv
    <3> QED
      BY <3>1, <3>2
  <2>9. DedupInv'
    <3>1. /\ \A r \in recorded' : r.since <= time' /\ r.at <= dedup'[<<r.chat, r.type>>]
          /\ \A ch \in Chats, ty \in Types :
               /\ dedup'[<<ch, ty>>] <= time'
               /\ dedup'[<<ch, ty>>] # 0 =>
                    \E r \in recorded' : r.chat = ch /\ r.type = ty /\ r.at = dedup'[<<ch, ty>>]
      BY <1>1, <1>2 DEF DedupInv
    <3> QED
      BY <2>8, <3>1 DEF DedupInv
  <2>10. DedupIsExact'
    BY <1>1, <1>2, <2>6 DEF DedupIsExact, RepeatsOverlap, OnlyRepeatsAreSilenced
  <2>11. NoticeHistoryOK'
    BY <1>1, <1>2, <2>6 DEF NoticeHistoryOK
  <2> QED
    BY <2>5, <2>9, <2>10, <2>11
<1> QED
  BY <1>3, <1>4

\* What a step of the service may bring to the chats.
Spaces ==
  \A c \in Chats : arrived'[c] # arrived[c] =>
    /\ \/ arrived'[c].number > arrived[c].number
       \/ arrived'[c].number = arrived[c].number /\ arrived'[c].part > arrived[c].part
    /\ \/ arrived'[c].at - arrived[c].at >= 1
       \/ arrived[c].number = 0
       \/ arrived'[c].number = arrived[c].number /\ ~arrived[c].sure

\* A step in which nothing arrives from the queue brings nothing.
LEMMA NothingArrives == arrived' = arrived => Spaces
BY DEF Spaces

\* The queue stays in order while nothing is queued and nothing taken.
LEMMA QueueStays ==
  ASSUME NoticesInv, UNCHANGED <<queue, events>>,
         job'[Sender].number \in {0, job[Sender].number},
         \A c \in Chats : arrived'[c].number \in {arrived[c].number, job[Sender].number}
  PROVE  QueueInv'
<1>1. QueueInv /\ queue \in Seq([number : 1..MaxRequests, chats : SUBSET Chats])
  BY DEF NoticesInv, NoticesTypeOK
<1> SUFFICES ASSUME NEW i \in DOMAIN queue
             PROVE  /\ queue[i].number <= events /\ job'[Sender].number < queue[i].number
                    /\ \A c \in Chats : arrived'[c].number < queue[i].number
                    /\ \A k \in DOMAIN queue : i < k => queue[i].number < queue[k].number
  BY DEF QueueInv
<1>2. queue[i].number \in 1..MaxRequests
  <2>1. queue[i] \in [number : 1..MaxRequests, chats : SUBSET Chats]
    BY <1>1, Elements
  <2> QED
    BY <2>1
<1>3. /\ queue[i].number <= events /\ job[Sender].number < queue[i].number
      /\ \A c \in Chats : arrived[c].number < queue[i].number
      /\ \A k \in DOMAIN queue : i < k => queue[i].number < queue[k].number
  BY <1>1 DEF QueueInv
<1>4. 0 < queue[i].number
  BY <1>2, NoticeFacts
<1> QED
  BY <1>3, <1>4

\* What the sender is at stays true while it waits.
LEMMA SenderStays ==
  ASSUME NoticesInv, time' \in Nat, time' >= time, job'[Sender] = job[Sender],
         UNCHANGED <<serving, arrived>>, events' \in Nat, events' >= events,
         \A c \in Chats : lastSend'[c] = lastSend[c] \/ lastSend'[c] = time
  PROVE  SenderInv'
<1> DEFINE j == job[Sender]
<1>1. /\ SenderInv /\ j \in Jobs /\ time \in Nat /\ events \in Nat
      /\ \A c \in Chats : arrived[c] \in [number : Nat, part : Nat, at : Nat, sure : BOOLEAN] /\ lastSend[c] \in Nat
      /\ MaxRequests \in Nat
  BY NoticeFacts DEF NoticesInv
<1>2. j.number \in Nat
  BY <1>1 DEF Jobs
<1>3. \A c \in Chats : arrived[c].number \in Nat /\ arrived[c].at \in Nat
  BY <1>1
<1>4. ~serving' => job'[Sender].pc = "idle"
  BY <1>1 DEF SenderInv, SenderAt
<1>5. job'[Sender].number <= events'
  <2>1. j.number <= events
    BY <1>1 DEF SenderInv, SenderNotes, SenderAt
  <2> HIDE DEF j
  <2>2. j.number <= events'
    BY <1>1, <1>2, <2>1
  <2> QED
    BY <2>2 DEF j
<1>6. SenderNotes'
  <2> SUFFICES ASSUME NEW c \in Chats
               PROVE  arrived[c].number <= events' /\ arrived[c].at <= time'
    BY DEF SenderNotes
  <2>1. arrived[c].number <= events /\ arrived[c].at <= time
    BY <1>1 DEF SenderInv, SenderNotes
  <2> QED
    BY <1>1, <1>3, <2>1
<1>7. j.pc = "sending" => Spread(arrived[j.chat], time') \/ Loose(arrived[j.chat], j.number)
  <2> SUFFICES ASSUME j.pc = "sending", ~Loose(arrived[j.chat], j.number),
                      arrived[j.chat].number > 0
               PROVE  arrived[j.chat].at + 1 <= time'
    BY DEF Spread
  <2> DEFINE a == arrived[j.chat].at
  <2>1. j.chat \in Chats /\ a + 1 <= time
    BY <1>1 DEF SenderInv, SenderAt, Spread
  <2>2. a \in Nat
    BY <1>3, <2>1
  <2> HIDE DEF a, j
  <2>3. a + 1 <= time'
    BY <1>1, <2>1, <2>2
  <2> QED
    BY <2>3 DEF a
<1>8. /\ j.pc # "idle" => \A c \in j.left : arrived[c].number < j.number
      /\ j.pc \in {"spacing", "sending", "pause"} =>
           j.chat \in Chats \ j.left /\ arrived[j.chat].number <= j.number
      /\ j.pc \in {"spacing", "sending"} => After(arrived[j.chat], j.number, j.part)
      /\ j.pc = "pause" => After(arrived[j.chat], j.number, j.part + 1)
      /\ j.pc \in {"spacing", "pause"} => Spread(arrived[j.chat], j.until)
  BY <1>1 DEF SenderInv, SenderAt
<1>9. SenderAt(job[Sender])'
  BY <1>4, <1>5, <1>7, <1>8 DEF SenderAt
<1>10. NotedAt(j, lastSend')
  <2> SUFFICES ASSUME serving, NEW c \in Chats
               PROVE  \/ arrived[c].number > 0 => arrived[c].at <= lastSend'[c]
                      \/ j.pc = "sending" /\ j.chat = c /\ Loose(arrived[c], j.number)
    BY DEF NotedAt
  <2>1. /\ \/ arrived[c].number > 0 => arrived[c].at <= lastSend[c]
           \/ j.pc = "sending" /\ j.chat = c /\ Loose(arrived[c], j.number)
        /\ arrived[c].at <= time
    BY <1>1 DEF SenderInv, SenderNotes, NotedAt
  <2>2. lastSend'[c] = lastSend[c] \/ lastSend'[c] = time
    OBVIOUS
  <2> HIDE DEF j
  <2> QED
    BY <2>1, <2>2
<1>11. NotedAt(job[Sender], lastSend)'
  BY <1>10 DEF NotedAt, Loose
<1> QED
  BY <1>6, <1>9, <1>11 DEF SenderInv

\* The next part of a caller's notice, or its end.
LEMMA CallerNextPart ==
  ASSUME NoticesInv, NEW d \in Callers, job[d].pc # "idle", NextPart(d),
         UNCHANGED <<time, silenced>>
  PROVE  /\ job' \in [Doers -> Jobs] /\ job'[Sender] = job[Sender]
         /\ DedupInv' /\ DedupIsExact'
         /\ recorded' \subseteq [chat : Chats, type : Types, since : Nat, at : Nat]
         /\ dedup' \in [Chats \X Types -> 0..MaxTime]
<1>1. /\ d \in Doers /\ d # Sender /\ Sender \in Doers /\ job[d] \in Jobs
      /\ MaxParts \in Nat /\ MaxTime \in Nat
      /\ dedup \in [Chats \X Types -> 0..MaxTime]
      /\ recorded \subseteq [chat : Chats, type : Types, since : Nat, at : Nat]
  BY NoticeFacts DEF NoticesInv, NoticesTypeOK, NoticeHistoryOK
<1>2. CASE job[d].part < job[d].parts
  <2> DEFINE next == job[d].part + 1
             p == [job[d] EXCEPT !.pc = "sending", !.part = next, !.until = 0]
  <2>1. job' = [job EXCEPT ![d] = p] /\ UNCHANGED <<dedup, recorded>>
    BY <1>2 DEF NextPart
  <2>2. next \in 1..MaxParts /\ 0 \in 0..MaxTime + 1
    BY <1>1, <1>2 DEF Jobs
  <2> HIDE DEF next
  <2>3. /\ p \in Jobs /\ p.pc = "sending" /\ p.chat = job[d].chat /\ p.type = job[d].type
        /\ p.since = job[d].since
    BY <1>1, <2>2 DEF Jobs
  <2> HIDE DEF p
  <2> QED
    BY <1>1, <2>1, <2>3, CallGoesOn, OneJobChanges
<1>3. CASE ~(job[d].part < job[d].parts)
  <2>1. job' = [job EXCEPT ![d] = NoJob] /\ Record(d)
    BY <1>1, <1>3 DEF NextPart
  <2> QED
    BY <1>1, <2>1, CallEnds, OneJobChanges, NoJobFacts
<1> QED
  BY <1>2, <1>3

\* What noting a send for one's chat makes of the notes.
LEMMA SendNoted ==
  ASSUME NoticesInv, NEW chat,
         lastSend' \in {lastSend, [lastSend EXCEPT ![chat] = time]}
  PROVE  /\ lastSend' \in [Chats -> 0..MaxTime]
         /\ \A c \in Chats : lastSend'[c] = lastSend[c] \/ lastSend'[c] = time
<1>1. lastSend \in [Chats -> 0..MaxTime] /\ time \in 0..MaxTime
  BY NoticeFacts DEF NoticesInv, NoticesTypeOK
<1> QED
  BY <1>1

\* A caller's part that arrives, fails or has been paused after.
LEMMA CallerSends ==
  ASSUME NoticesInv, NEW d \in Callers, PartArrives(d) \/ PartFails(d) \/ PauseOver(d)
  PROVE  NoticesInv' /\ Spaces
<1>1. /\ NoticesTypeOK /\ NoticeHistoryOK /\ d \in Doers /\ d # Sender /\ Sender \in Doers
      /\ job[d] \in Jobs /\ time \in Nat /\ time <= MaxTime /\ MaxTime \in Nat /\ events \in Nat
  BY NoticeFacts DEF NoticesInv
<1>2. /\ job[d].pc # "idle" /\ arrived' = arrived
      /\ UNCHANGED <<time, serving, queue, calls, events, silenced>>
  BY <1>1 DEF PartArrives, PartFails, PauseOver, Note
<1>3. lastSend' \in {lastSend, [lastSend EXCEPT ![job[d].chat] = time]}
  BY <1>1 DEF PartArrives, PartFails, PauseOver
<1>4. /\ job' \in [Doers -> Jobs] /\ job'[Sender] = job[Sender]
      /\ DedupInv' /\ DedupIsExact'
      /\ recorded' \subseteq [chat : Chats, type : Types, since : Nat, at : Nat]
      /\ dedup' \in [Chats \X Types -> 0..MaxTime]
  <2>1. CASE NextPart(d)
    BY <1>2, <2>1, CallerNextPart
  <2>2. CASE ~NextPart(d)
    <3> DEFINE later == time + 1
               p == [job[d] EXCEPT !.pc = "pause", !.until = later]
    <3>1. /\ job' = [job EXCEPT ![d].pc = "pause", ![d].until = time + 1]
          /\ UNCHANGED <<dedup, recorded>>
      BY <2>2 DEF PartArrives, PartFails, PauseOver
    <3>2. job' = [job EXCEPT ![d] = p]
      BY <3>1
    <3>3. later \in 0..MaxTime + 1
      BY <1>1
    <3> HIDE DEF later
    <3>4. /\ p \in Jobs /\ p.pc = "pause" /\ p.chat = job[d].chat /\ p.type = job[d].type
          /\ p.since = job[d].since
      BY <1>1, <3>3 DEF Jobs
    <3> HIDE DEF p
    <3>5. /\ dedup' \in [Chats \X Types -> 0..MaxTime]
          /\ recorded' \subseteq [chat : Chats, type : Types, since : Nat, at : Nat]
      BY <1>1, <3>1 DEF NoticesTypeOK, NoticeHistoryOK
    <3>6. DedupInv' /\ DedupIsExact'
      BY <1>2, <3>1, <3>2, <3>4, CallGoesOn
    <3>7. job' \in [Doers -> Jobs] /\ job'[Sender] = job[Sender]
      BY <1>1, <3>2, <3>4, OneJobChanges
    <3> QED
      BY <3>5, <3>6, <3>7
  <2> QED
    BY <2>1, <2>2
<1>5. /\ lastSend' \in [Chats -> 0..MaxTime]
      /\ \A c \in Chats : lastSend'[c] = lastSend[c] \/ lastSend'[c] = time
  BY <1>3, SendNoted
<1>6. NoticesTypeOK'
  BY <1>1, <1>2, <1>4, <1>5 DEF NoticesTypeOK
<1>7. NoticeHistoryOK'
  BY <1>1, <1>2, <1>4 DEF NoticeHistoryOK
<1>8. QueueInv'
  BY <1>2, <1>4, QueueStays
<1>9. SenderInv'
  BY <1>1, <1>2, <1>4, <1>5, SenderStays
<1> QED
  BY <1>2, <1>4, <1>6, <1>7, <1>8, <1>9, NothingArrives DEF NoticesInv

\* A step of the sender that brings nothing leaves the rest as it was.
LEMMA SenderMoves ==
  ASSUME NoticesInv, NEW p \in Jobs, job' = [job EXCEPT ![Sender] = p],
         SenderAt(p), NotedAt(p, lastSend'),
         UNCHANGED <<time, serving, calls, events, dedup, recorded, silenced, arrived>>,
         lastSend' \in {lastSend, [lastSend EXCEPT ![job[Sender].chat] = time]},
         \/ queue' = queue /\ p.number \in {0, job[Sender].number}
         \/ QueueInv' /\ queue' \in Seq([number : 1..MaxRequests, chats : SUBSET Chats])
  PROVE  NoticesInv' /\ Spaces
<1>1. /\ NoticesTypeOK /\ NoticeHistoryOK /\ SenderInv
      /\ Sender \in Doers /\ Sender \notin Callers /\ Callers \subseteq Doers /\ time \in Nat
      /\ \A c \in Chats : arrived[c] \in [number : Nat, part : Nat, at : Nat, sure : BOOLEAN]
  BY NoticeFacts DEF NoticesInv
<1>2. job' \in [Doers -> Jobs] /\ job'[Sender] = p /\ \A e \in Callers : job'[e] = job[e]
  BY <1>1, OneJobChanges
<1>3. /\ lastSend' \in [Chats -> 0..MaxTime]
      /\ \A c \in Chats : lastSend'[c] = lastSend[c] \/ lastSend'[c] = time
  BY SendNoted
<1>4. NoticesTypeOK'
  BY <1>1, <1>2, <1>3 DEF NoticesTypeOK
<1>5. NoticeHistoryOK'
  BY <1>1 DEF NoticeHistoryOK
<1>6. DedupInv' /\ DedupIsExact'
  BY <1>1, <1>2, CallsStay
<1>7. QueueInv'
  BY <1>2, QueueStays
<1>8. SenderNotes'
  BY <1>1 DEF SenderInv, SenderNotes
<1>9. SenderAt(job[Sender])'
  BY <1>2 DEF SenderAt
<1>10. NotedAt(job[Sender], lastSend)'
  BY <1>2 DEF NotedAt, Loose
<1> QED
  BY <1>4, <1>5, <1>6, <1>7, <1>8, <1>9, <1>10, NothingArrives DEF NoticesInv, SenderInv

\* The sender's next part, or the next chat.
LEMMA SenderNextPart ==
  ASSUME NoticesInv, NextPart(Sender)
  PROVE  /\ UNCHANGED <<dedup, recorded>>
         /\ \E p \in Jobs :
              /\ job' = [job EXCEPT ![Sender] = p]
              /\ p.number = job[Sender].number /\ p.left = job[Sender].left
              /\ \/ p.pc = "serve" /\ job[Sender].part >= job[Sender].parts
                 \/ /\ p.pc = "sending" /\ p.chat = job[Sender].chat
                    /\ p.part = job[Sender].part + 1 /\ job[Sender].part < job[Sender].parts
<1> DEFINE j == job[Sender]
<1>1. /\ j \in Jobs /\ MaxTime \in Nat /\ MaxParts \in Nat
      /\ j.part \in 1..MaxParts /\ j.parts \in 1..MaxParts
  BY NoticeFacts DEF Jobs
<1>2. CASE j.part < j.parts
  <2> DEFINE next == j.part + 1
             p == [j EXCEPT !.pc = "sending", !.part = next, !.until = 0]
  <2>1. job' = [job EXCEPT ![Sender] = p] /\ UNCHANGED <<dedup, recorded>>
    BY <1>2 DEF NextPart
  <2>2. next \in 1..MaxParts /\ 0 \in 0..MaxTime + 1
    BY <1>1, <1>2
  <2> HIDE DEF next
  <2>3. /\ p \in Jobs /\ p.pc = "sending" /\ p.chat = j.chat /\ p.number = j.number
        /\ p.left = j.left /\ p.part = next
    BY <1>1, <2>2 DEF Jobs
  <2> HIDE DEF p
  <2> QED
    BY <1>2, <2>1, <2>3 DEF next
<1>3. CASE ~(j.part < j.parts)
  <2> DEFINE p == [NoJob EXCEPT !.pc = "serve", !.number = j.number, !.left = j.left]
  <2>1. job' = [job EXCEPT ![Sender] = p] /\ UNCHANGED <<dedup, recorded>>
    BY <1>3 DEF NextPart, Record
  <2>2. NoJob \in Jobs
    BY NoJobFacts
  <2>3. p \in Jobs /\ p.pc = "serve" /\ p.number = j.number /\ p.left = j.left
    BY <1>1, <2>2 DEF Jobs
  <2>4. j.part >= j.parts
    BY <1>1, <1>3
  <2> HIDE DEF p
  <2> QED
    BY <2>1, <2>3, <2>4
<1> QED
  BY <1>2, <1>3

\* The sender takes the first event, serves its next chat, waits and is done.
LEMMA SenderServes ==
  ASSUME NoticesInv, TakeEvent \/ ServeChat \/ EventDone \/ Spaced
  PROVE  NoticesInv' /\ Spaces
<1> DEFINE j == job[Sender]
<1>1. /\ j \in Jobs /\ SenderAt(j) /\ NotedAt(j, lastSend) /\ QueueInv /\ NoticesTypeOK
      /\ time \in Nat /\ time <= MaxTime /\ MaxTime \in Nat /\ MaxParts \in Nat \ {0}
      /\ events \in Nat /\ MaxRequests \in Nat
      /\ \A c \in Chats : arrived[c] \in [number : Nat, part : Nat, at : Nat, sure : BOOLEAN]
      /\ \A c \in Chats : lastSend[c] \in Nat /\ lastSend[c] \in 0..MaxTime
      /\ NoJob \in Jobs /\ NoJob.pc = "idle" /\ NoJob.number = 0 /\ NoJob.part = 1
  BY NoticeFacts, NoJobFacts DEF NoticesInv, NoticesTypeOK, SenderInv
<1>2. j.number \in Nat /\ j.part \in Nat /\ j.until \in Nat /\ j.left \subseteq Chats
  BY <1>1 DEF Jobs
<1>7. ASSUME j.pc # "sending", NEW p
      PROVE  NotedAt(p, lastSend)
  BY <1>1, <1>7 DEF NotedAt
<1>3. ASSUME TakeEvent
      PROVE  NoticesInv' /\ Spaces
  <2> DEFINE S == [number : 1..MaxRequests, chats : SUBSET Chats]
             first == Head(queue)
             p == [NoJob EXCEPT !.pc = "serve", !.number = first.number, !.left = first.chats]
  <2>1. /\ queue \in Seq(S) /\ queue # <<>> /\ serving /\ queue' = Tail(queue)
        /\ job' = [job EXCEPT ![Sender] = p]
        /\ UNCHANGED <<time, serving, dedup, lastSend, calls, events, arrived, recorded, silenced>>
    BY <1>1, <1>3 DEF TakeEvent, NoticesTypeOK
  <2> HIDE DEF S, p
  <2>2. /\ 1 \in DOMAIN queue /\ first = queue[1] /\ first \in S
        /\ queue' \in Seq(S) /\ DOMAIN queue' = 1..(Len(queue) - 1)
        /\ Len(queue) \in Nat /\ DOMAIN queue = 1..Len(queue)
        /\ \A i \in 1..(Len(queue) - 1) : queue'[i] = queue[i + 1]
    BY <2>1
  <2> HIDE DEF first
  <2> USE DEF S, p
  <2>3. p \in Jobs /\ p.pc = "serve" /\ p.number = first.number /\ p.left = first.chats
    <3>1. first.number \in 0..MaxRequests /\ first.chats \in SUBSET Chats
      BY <1>1, <2>2
    <3> QED
      BY <1>1, <3>1 DEF Jobs
  <2> HIDE DEF p
  <2>4. /\ first.number <= events
        /\ \A c \in Chats : arrived[c].number < first.number
        /\ \A k \in DOMAIN queue : 1 < k => first.number < queue[k].number
    BY <1>1, <2>2 DEF QueueInv
  <2>5. SenderAt(p)
    BY <2>1, <2>2, <2>3, <2>4 DEF SenderAt
  <2>6. job'[Sender] = p
    BY <2>1, <2>3, OneJobChanges, NoticeFacts
  <2>7. QueueInv'
    <3> SUFFICES ASSUME NEW i \in DOMAIN queue'
                 PROVE  /\ queue'[i].number <= events /\ p.number < queue'[i].number
                        /\ \A c \in Chats : arrived[c].number < queue'[i].number
                        /\ \A k \in DOMAIN queue' : i < k => queue'[i].number < queue'[k].number
      BY <2>1, <2>6 DEF QueueInv
    <3>1. /\ i + 1 \in DOMAIN queue /\ queue'[i] = queue[i + 1] /\ 1 < i + 1
          /\ \A k \in DOMAIN queue' : k + 1 \in DOMAIN queue /\ queue'[k] = queue[k + 1]
          /\ \A k \in DOMAIN queue' : i < k => i + 1 < k + 1
      BY <2>2
    <3> QED
      BY <1>1, <2>3, <2>4, <3>1 DEF QueueInv
  <2>8. j.pc = "idle" /\ lastSend' = lastSend
    BY <1>3 DEF TakeEvent
  <2>9. NotedAt(p, lastSend')
    BY <1>7, <2>8
  <2> QED
    BY <2>1, <2>2, <2>3, <2>5, <2>7, <2>9, SenderMoves
<1>4. ASSUME ServeChat
      PROVE  NoticesInv' /\ Spaces
  <2> DEFINE chat == CHOOSE c \in j.left : TRUE
             rest == j.left \ {chat}
             later == lastSend[chat] + 1
             p == [j EXCEPT !.pc = "spacing", !.chat = chat, !.left = rest, !.until = later]
  <2>1. /\ j.pc = "serve" /\ j.left # {} /\ job' = [job EXCEPT ![Sender] = p]
        /\ UNCHANGED <<time, serving, dedup, lastSend, queue, calls, events,
                       arrived, recorded, silenced>>
    BY <1>4 DEF ServeChat
  <2>2. chat \in j.left
    BY <2>1
  <2> HIDE DEF chat
  <2>3. chat \in Chats /\ later \in 0..MaxTime + 1 /\ lastSend[chat] \in Nat
    BY <1>1, <1>2, <2>2
  <2>4. Spread(arrived[chat], later)
    <3> SUFFICES ASSUME arrived[chat].number > 0 PROVE arrived[chat].at + 1 <= later
      BY DEF Spread
    <3>1. serving
      BY <1>1, <2>1 DEF SenderAt
    <3>2. arrived[chat].at \in Nat /\ arrived[chat].at <= lastSend[chat]
      BY <1>1, <2>1, <2>3, <3>1 DEF NotedAt
    <3> QED
      BY <2>3, <3>2
  <2>5. /\ \A c \in j.left : arrived[c].number < j.number
        /\ serving /\ j.number <= events
    BY <1>1, <2>1 DEF SenderAt
  <2> HIDE DEF later
  <2>6. /\ p \in Jobs /\ p.pc = "spacing" /\ p.chat = chat /\ p.left = rest /\ p.until = later
        /\ p.number = j.number
    BY <1>1, <1>2, <2>3 DEF Jobs
  <2> HIDE DEF p
  <2>7. arrived[chat].number \in Nat /\ arrived[chat].number < j.number
    BY <1>1, <2>2, <2>3, <2>5
  <2>8. arrived[chat].number <= j.number
    BY <1>2, <2>7
  <2>9. SenderAt(p)
    BY <2>2, <2>3, <2>4, <2>5, <2>6, <2>7, <2>8 DEF SenderAt, After
  <2>10. NotedAt(p, lastSend')
    BY <1>7, <2>1
  <2> QED
    BY <2>1, <2>6, <2>9, <2>10, SenderMoves
<1>5. ASSUME EventDone
      PROVE  NoticesInv' /\ Spaces
  <2>1. SenderAt(NoJob)
    BY <1>1 DEF SenderAt
  <2>2. NotedAt(NoJob, lastSend')
    BY <1>5, <1>7 DEF EventDone
  <2> QED
    BY <1>1, <1>5, <2>1, <2>2, SenderMoves DEF EventDone
<1>6. ASSUME Spaced
      PROVE  NoticesInv' /\ Spaces
  <2>1. PICK parts \in 1..MaxParts :
          job' = [job EXCEPT ![Sender].pc = "sending", ![Sender].until = 0,
                             ![Sender].parts = parts]
    BY <1>6 DEF Spaced
  <2> DEFINE p == [j EXCEPT !.pc = "sending", !.until = 0, !.parts = parts]
             last == arrived[j.chat]
  <2>2. /\ j.pc = "spacing" /\ time >= j.until /\ job' = [job EXCEPT ![Sender] = p]
        /\ UNCHANGED <<time, serving, dedup, lastSend, queue, calls, events,
                       arrived, recorded, silenced>>
    BY <1>6, <2>1 DEF Spaced
  <2>3. /\ p \in Jobs /\ p.pc = "sending" /\ p.chat = j.chat /\ p.left = j.left
        /\ p.number = j.number /\ p.part = j.part
    <3>1. 0 \in 0..MaxTime + 1
      BY <1>1
    <3> QED
      BY <1>1, <3>1 DEF Jobs
  <2> HIDE DEF p
  <2>4. /\ serving /\ j.number <= events /\ \A c \in j.left : arrived[c].number < j.number
        /\ j.chat \in Chats \ j.left /\ last.number <= j.number
        /\ After(last, j.number, j.part) /\ Spread(last, j.until)
    BY <1>1, <2>2 DEF SenderAt
  <2>5. Spread(last, time)
    <3>1. last.at \in Nat
      BY <1>1, <2>4
    <3> HIDE DEF last, j
    <3> QED
      BY <1>1, <1>2, <2>2, <2>4, <3>1 DEF Spread
  <2>6. SenderAt(p)
    BY <2>3, <2>4, <2>5 DEF SenderAt
  <2>7. NotedAt(p, lastSend')
    BY <1>7, <2>2
  <2> QED
    BY <2>2, <2>3, <2>6, <2>7, SenderMoves
<1> QED
  BY <1>3, <1>4, <1>5, <1>6

\* What arrives is the next for its chat, and spaced or loose.
LEMMA SenderArrives ==
  ASSUME NoticesInv, job[Sender].pc = "sending", NEW sure \in BOOLEAN, Note(Sender, sure)
  PROVE  /\ arrived' \in [Chats -> [number : Nat, part : Nat, at : Nat, sure : BOOLEAN]]
         /\ Spaces
         /\ \A c \in Chats :
              \/ arrived'[c] = arrived[c]
              \/ c = job[Sender].chat /\ arrived'[c].number = job[Sender].number
                   /\ arrived'[c].part = job[Sender].part /\ arrived'[c].at = time
         /\ arrived'[job[Sender].chat].number = job[Sender].number
         /\ arrived'[job[Sender].chat].part = job[Sender].part
         /\ arrived'[job[Sender].chat].at = time /\ arrived'[job[Sender].chat].sure = sure
<1> DEFINE j == job[Sender]
           new == [number |-> j.number, part |-> j.part, at |-> time, sure |-> sure]
<1>1. /\ j \in Jobs /\ SenderAt(j) /\ time \in Nat
      /\ arrived \in [Chats -> [number : Nat, part : Nat, at : Nat, sure : BOOLEAN]]
      /\ arrived' = [arrived EXCEPT ![j.chat] = new]
  BY NoticeFacts DEF NoticesInv, SenderInv, NoticeHistoryOK, Note
<1>2. j.number \in Nat /\ j.part \in Nat /\ j.chat \in Chats
  BY <1>1, NoticeFacts DEF Jobs, SenderAt
<1>3. /\ After(arrived[j.chat], j.number, j.part)
      /\ Spread(arrived[j.chat], time) \/ Loose(arrived[j.chat], j.number)
  BY <1>1 DEF SenderAt
<1>4. /\ new \in [number : Nat, part : Nat, at : Nat, sure : BOOLEAN]
      /\ new.number = j.number /\ new.part = j.part /\ new.at = time /\ new.sure = sure
  BY <1>1, <1>2
<1> HIDE DEF new
<1>5. arrived' \in [Chats -> [number : Nat, part : Nat, at : Nat, sure : BOOLEAN]]
  BY <1>1, <1>2, <1>4
<1>6. arrived'[j.chat] = new /\ \A c \in Chats : c # j.chat => arrived'[c] = arrived[c]
  BY <1>1, <1>2
<1>7. Spaces
  <2> SUFFICES ASSUME NEW c \in Chats, arrived'[c] # arrived[c]
               PROVE  /\ \/ arrived'[c].number > arrived[c].number
                         \/ /\ arrived'[c].number = arrived[c].number
                            /\ arrived'[c].part > arrived[c].part
                      /\ \/ arrived'[c].at - arrived[c].at >= 1
                         \/ arrived[c].number = 0
                         \/ arrived'[c].number = arrived[c].number /\ ~arrived[c].sure
    BY DEF Spaces
  <2>1. c = j.chat /\ arrived'[c] = new
    BY <1>6
  <2>2. arrived[c].number \in Nat /\ arrived[c].part \in Nat /\ arrived[c].at \in Nat
    BY <1>1
  <2>3. /\ After(arrived[c], j.number, j.part)
        /\ Spread(arrived[c], time) \/ Loose(arrived[c], j.number)
    BY <1>3, <2>1
  <2>4. arrived'[c].number = j.number /\ arrived'[c].part = j.part /\ arrived'[c].at = time
    BY <1>4, <2>1
  <2> HIDE DEF j
  <2>5. \/ arrived'[c].number > arrived[c].number
        \/ /\ arrived'[c].number = arrived[c].number
           /\ arrived'[c].part > arrived[c].part
    BY <1>2, <2>2, <2>3, <2>4 DEF After
  <2>6. Spread(arrived[c], time) =>
          arrived'[c].at - arrived[c].at >= 1 \/ arrived[c].number = 0
    BY <1>1, <2>2, <2>4 DEF Spread
  <2> QED
    BY <2>3, <2>4, <2>5, <2>6 DEF Loose
<1> QED
  BY <1>4, <1>5, <1>6, <1>7

\* After a part arrives the sender pauses, or goes on with the next chat.
LEMMA SenderPartArrives ==
  ASSUME NoticesInv, PartArrives(Sender)
  PROVE  NoticesInv' /\ Spaces
<1> DEFINE j == job[Sender]
<1>1. /\ NoticesTypeOK /\ NoticeHistoryOK /\ SenderNotes /\ SenderAt(j) /\ j \in Jobs
      /\ NotedAt(j, lastSend) /\ time \in Nat /\ time \in 0..MaxTime /\ MaxTime \in Nat /\ MaxParts \in Nat
      /\ events \in Nat /\ Sender \in Doers /\ Callers \subseteq Doers /\ Sender \notin Callers
      /\ \A c \in Chats : arrived[c] \in [number : Nat, part : Nat, at : Nat, sure : BOOLEAN]
  BY NoticeFacts DEF NoticesInv, SenderInv, NoticesTypeOK
<1>2. /\ j.pc = "sending" /\ Note(Sender, TRUE)
      /\ lastSend' = [lastSend EXCEPT ![j.chat] = time]
      /\ UNCHANGED <<time, serving, queue, calls, events, silenced>>
  BY DEF PartArrives
<1>3. /\ j.number \in Nat /\ j.part \in Nat /\ j.part + 1 \in Nat /\ j.chat \in Chats \ j.left
      /\ \A c \in j.left : arrived[c].number < j.number
      /\ serving /\ j.number <= events /\ j.left \subseteq Chats
  BY <1>1, <1>2, NoticeFacts DEF Jobs, SenderAt
<1>4. /\ arrived' \in [Chats -> [number : Nat, part : Nat, at : Nat, sure : BOOLEAN]]
      /\ Spaces
      /\ \A c \in Chats : \/ arrived'[c] = arrived[c]
                          \/ c = j.chat /\ arrived'[c].number = j.number
                               /\ arrived'[c].part = j.part /\ arrived'[c].at = time
      /\ arrived'[j.chat].number = j.number
      /\ arrived'[j.chat].part = j.part
      /\ arrived'[j.chat].at = time
  BY <1>2, SenderArrives
<1>15. \A c \in Chats : c # j.chat => arrived'[c] = arrived[c]
  BY <1>4
<1>5. PICK p \in Jobs :
        /\ job' = [job EXCEPT ![Sender] = p] /\ UNCHANGED <<dedup, recorded>>
        /\ p.number = j.number /\ p.left = j.left
        /\ \/ p.pc = "serve"
           \/ p.pc = "pause" /\ p.chat = j.chat /\ p.part = j.part /\ p.until = time + 1
  <2>1. CASE j.parts > 1
    <3> DEFINE later == time + 1
               p == [j EXCEPT !.pc = "pause", !.until = later]
    <3>1. job' = [job EXCEPT ![Sender] = p] /\ UNCHANGED <<dedup, recorded>>
      BY <2>1 DEF PartArrives
    <3>2. later \in 0..MaxTime + 1
      BY <1>1
    <3> HIDE DEF later
    <3>3. /\ p \in Jobs /\ p.pc = "pause" /\ p.number = j.number /\ p.left = j.left
          /\ p.chat = j.chat /\ p.part = j.part /\ p.until = later
      BY <1>1, <3>2 DEF Jobs
    <3> HIDE DEF p
    <3> QED
      BY <3>1, <3>3 DEF later
  <2>2. CASE ~(j.parts > 1)
    <3> DEFINE p == [NoJob EXCEPT !.pc = "serve", !.number = j.number, !.left = j.left]
    <3>1. j.part \in 1..MaxParts /\ j.parts \in 1..MaxParts
      BY <1>1 DEF Jobs
    <3>2. ~(j.part < j.parts)
      BY <1>1, <2>2, <3>1
    <3>3. job' = [job EXCEPT ![Sender] = p] /\ UNCHANGED <<dedup, recorded>>
      BY <2>2, <3>2 DEF PartArrives, NextPart, Record
    <3>4. NoJob \in Jobs
      BY NoJobFacts
    <3>5. p \in Jobs /\ p.pc = "serve" /\ p.number = j.number /\ p.left = j.left
      BY <1>1, <3>4 DEF Jobs
    <3> HIDE DEF p
    <3> QED
      BY <3>3, <3>5
  <2> QED
    BY <2>1, <2>2
<1>6. job' \in [Doers -> Jobs] /\ job'[Sender] = p /\ \A e \in Callers : job'[e] = job[e]
  BY <1>1, <1>5, OneJobChanges
<1>7. /\ lastSend' \in [Chats -> 0..MaxTime]
      /\ \A c \in Chats : lastSend'[c] = lastSend[c] \/ lastSend'[c] = time
      /\ lastSend'[j.chat] = time
      /\ \A c \in Chats : c # j.chat => lastSend'[c] = lastSend[c]
  BY <1>1, <1>2, <1>3 DEF NoticesTypeOK
<1>8. NoticesTypeOK'
  BY <1>1, <1>2, <1>5, <1>6, <1>7 DEF NoticesTypeOK
<1>9. NoticeHistoryOK'
  BY <1>1, <1>2, <1>4, <1>5 DEF NoticeHistoryOK
<1>10. DedupInv' /\ DedupIsExact'
  BY <1>1, <1>2, <1>5, <1>6, CallsStay
<1>11. QueueInv'
  <2>1. \A c \in Chats : arrived'[c].number \in {arrived[c].number, job[Sender].number}
    BY <1>4
  <2> QED
    BY <1>2, <1>5, <1>6, <2>1, QueueStays
<1>12. SenderNotes'
  <2> SUFFICES ASSUME NEW c \in Chats
               PROVE  arrived'[c].number <= events /\ arrived'[c].at <= time
    BY <1>2 DEF SenderNotes
  <2>1. CASE c = j.chat
    BY <1>1, <1>3, <1>4, <2>1
  <2>2. CASE c # j.chat
    BY <1>1, <1>4, <2>2 DEF SenderNotes
  <2> QED
    BY <2>1, <2>2
<1>16. NotedAt(p, lastSend)'
  <2> SUFFICES ASSUME NEW c \in Chats
               PROVE  arrived'[c].number > 0 => arrived'[c].at <= lastSend'[c]
    BY DEF NotedAt
  <2>1. CASE c = j.chat
    BY <1>1, <1>4, <1>7, <2>1
  <2>2. CASE c # j.chat
    BY <1>1, <1>3, <1>7, <1>15, <2>2 DEF NotedAt
  <2> QED
    BY <2>1, <2>2
<1>17. NotedAt(job[Sender], lastSend)'
  BY <1>6, <1>16 DEF NotedAt, Loose
<1>13. \A c \in p.left : arrived'[c].number < p.number
  BY <1>3, <1>4, <1>5
<1>14. SenderAt(job[Sender])'
  <2>1. CASE p.pc = "serve"
    BY <1>2, <1>3, <1>5, <1>6, <1>13, <2>1 DEF SenderAt
  <2>2. CASE p.pc = "pause" /\ p.chat = j.chat /\ p.part = j.part /\ p.until = time + 1
    <3>1. arrived'[p.chat].number <= p.number /\ p.chat \in Chats \ p.left
      BY <1>3, <1>4, <1>5, <2>2
    <3>2. After(arrived[p.chat], p.number, p.part + 1)'
      <4>1. /\ arrived'[p.chat].number = p.number /\ arrived'[p.chat].part = p.part
            /\ p.part \in Nat
        BY <1>3, <1>4, <1>5, <2>2
      <4>2. p.part < p.part + 1
        BY <4>1
      <4> QED
        BY <4>1, <4>2 DEF After
    <3>3. Spread(arrived[p.chat], p.until)'
      <4>1. arrived'[p.chat].at + 1 = p.until /\ p.until \in Nat
        BY <1>1, <1>4, <2>2
      <4> QED
        BY <4>1 DEF Spread
    <3> QED
      BY <1>2, <1>3, <1>5, <1>6, <1>13, <2>2, <3>1, <3>2, <3>3 DEF SenderAt
  <2> QED
    BY <1>5, <2>1, <2>2
<1> QED
  BY <1>4, <1>8, <1>9, <1>10, <1>11, <1>12, <1>14, <1>17 DEF NoticesInv, SenderInv

\* A part that fails and does not arrive, and the end of a pause: what is paused
\* after has waited.
LEMMA SenderGoesOn ==
  ASSUME NoticesInv, (PartFails(Sender) /\ arrived' = arrived) \/ PauseOver(Sender)
  PROVE  NoticesInv' /\ Spaces
<1> DEFINE j == job[Sender]
           last == arrived[j.chat]
<1>1. /\ j \in Jobs /\ SenderAt(j) /\ SenderNotes /\ NotedAt(j, lastSend)
      /\ time \in Nat /\ MaxTime \in Nat /\ MaxParts \in Nat
      /\ lastSend \in [Chats -> 0..MaxTime]
      /\ \A c \in Chats : arrived[c] \in [number : Nat, part : Nat, at : Nat, sure : BOOLEAN]
  BY NoticeFacts DEF NoticesInv, SenderInv, NoticesTypeOK
<1>2. /\ NextPart(Sender) /\ j.pc \in {"sending", "pause"}
      /\ j.pc = "pause" => time >= j.until
      /\ lastSend' = IF j.part >= j.parts THEN [lastSend EXCEPT ![j.chat] = time] ELSE lastSend
      /\ UNCHANGED <<time, serving, queue, calls, events, arrived, silenced>>
  BY DEF PartFails, PauseOver
<1>3. /\ j.number \in Nat /\ j.part \in Nat /\ j.parts \in Nat /\ j.until \in Nat
      /\ j.chat \in Chats \ j.left
      /\ last \in [number : Nat, part : Nat, at : Nat, sure : BOOLEAN]
      /\ \A c \in j.left : arrived[c].number < j.number
      /\ serving /\ j.number <= events /\ last.number <= j.number
  BY <1>1, <1>2, NoticeFacts DEF Jobs, SenderAt
<1>4. /\ UNCHANGED <<dedup, recorded>>
      /\ \E p \in Jobs :
           /\ job' = [job EXCEPT ![Sender] = p] /\ p.number = j.number /\ p.left = j.left
           /\ \/ p.pc = "serve" /\ j.part >= j.parts
              \/ p.pc = "sending" /\ p.chat = j.chat /\ p.part = j.part + 1 /\ j.part < j.parts
  BY <1>2, SenderNextPart
<1>5. PICK p \in Jobs :
        /\ job' = [job EXCEPT ![Sender] = p] /\ p.number = j.number /\ p.left = j.left
        /\ \/ p.pc = "serve" /\ j.part >= j.parts
           \/ p.pc = "sending" /\ p.chat = j.chat /\ p.part = j.part + 1 /\ j.part < j.parts
  BY <1>4
<1>6. CASE p.pc = "serve" /\ j.part >= j.parts
  <2>1. SenderAt(p)
    BY <1>3, <1>5, <1>6 DEF SenderAt
  <2>2. lastSend'[j.chat] = time /\ \A c \in Chats : c # j.chat => lastSend'[c] = lastSend[c]
    BY <1>1, <1>2, <1>3, <1>6
  <2>3. NotedAt(p, lastSend')
    <3> SUFFICES ASSUME NEW c \in Chats
                 PROVE  arrived[c].number > 0 => arrived[c].at <= lastSend'[c]
      BY DEF NotedAt
    <3>1. CASE c = j.chat
      BY <1>1, <2>2, <3>1 DEF SenderNotes
    <3>2. CASE c # j.chat
      BY <1>1, <1>3, <2>2, <3>2 DEF NotedAt
    <3> QED
      BY <3>1, <3>2
  <2> QED
    BY <1>2, <1>4, <1>5, <2>1, <2>3, SenderMoves
<1>7. CASE p.pc = "sending" /\ p.chat = j.chat /\ p.part = j.part + 1 /\ j.part < j.parts
  <2>1. After(last, j.number, j.part + 1)
    <3>1. CASE j.pc = "sending"
      <4>1. After(last, j.number, j.part)
        BY <1>1, <3>1 DEF SenderAt
      <4>2. last.number \in Nat /\ last.part \in Nat
        BY <1>3
      <4> HIDE DEF last, j
      <4> QED
        BY <1>3, <4>1, <4>2 DEF After
    <3>2. CASE j.pc = "pause"
      BY <1>1, <3>2 DEF SenderAt
    <3> QED
      BY <1>2, <3>1, <3>2
  <2>2. Spread(last, time) \/ Loose(last, j.number)
    <3>1. CASE j.pc = "sending"
      BY <1>1, <3>1 DEF SenderAt
    <3>2. CASE j.pc = "pause"
      <4>1. Spread(last, j.until) /\ time >= j.until
        BY <1>1, <1>2, <3>2 DEF SenderAt
      <4>2. last.at \in Nat /\ last.number \in Nat
        BY <1>3
      <4> HIDE DEF last, j
      <4> QED
        BY <1>1, <1>3, <4>1, <4>2 DEF Spread
    <3> QED
      BY <1>2, <3>1, <3>2
  <2>3. SenderAt(p)
    BY <1>3, <1>5, <1>7, <2>1, <2>2 DEF SenderAt
  <2>4. lastSend' = lastSend
    BY <1>2, <1>3, <1>7
  <2>5. NotedAt(p, lastSend')
    BY <1>1, <1>5, <1>7, <2>4 DEF NotedAt
  <2> QED
    BY <1>2, <1>4, <1>5, <2>3, <2>4, <2>5, SenderMoves
<1> QED
  BY <1>5, <1>6, <1>7

\* A part that is reported as failed and arrives all the same: the next one follows
\* on it at once.
LEMMA SenderPartUnsure ==
  ASSUME NoticesInv, PartFails(Sender), Note(Sender, FALSE)
  PROVE  NoticesInv' /\ Spaces
<1> DEFINE j == job[Sender]
<1>1. /\ NoticesTypeOK /\ NoticeHistoryOK /\ SenderNotes /\ SenderAt(j) /\ j \in Jobs
      /\ NotedAt(j, lastSend) /\ time \in Nat /\ MaxTime \in Nat /\ events \in Nat
      /\ Sender \in Doers /\ Callers \subseteq Doers /\ Sender \notin Callers
      /\ lastSend \in [Chats -> 0..MaxTime] /\ time \in 0..MaxTime
      /\ \A c \in Chats : arrived[c] \in [number : Nat, part : Nat, at : Nat, sure : BOOLEAN]
  BY NoticeFacts DEF NoticesInv, SenderInv, NoticesTypeOK
<1>2. /\ NextPart(Sender) /\ j.pc = "sending"
      /\ lastSend' = IF j.part >= j.parts THEN [lastSend EXCEPT ![j.chat] = time] ELSE lastSend
      /\ UNCHANGED <<time, serving, queue, calls, events, silenced>>
  BY DEF PartFails
<1>3. /\ j.number \in Nat /\ j.part \in Nat /\ j.parts \in Nat /\ j.chat \in Chats \ j.left
      /\ \A c \in j.left : arrived[c].number < j.number
      /\ serving /\ j.number <= events /\ j.left \subseteq Chats
  BY <1>1, <1>2, NoticeFacts DEF Jobs, SenderAt
<1>4. /\ arrived' \in [Chats -> [number : Nat, part : Nat, at : Nat, sure : BOOLEAN]]
      /\ Spaces
      /\ \A c \in Chats : \/ arrived'[c] = arrived[c]
                          \/ c = j.chat /\ arrived'[c].number = j.number
                               /\ arrived'[c].part = j.part /\ arrived'[c].at = time
      /\ arrived'[j.chat].number = j.number /\ arrived'[j.chat].part = j.part
      /\ arrived'[j.chat].at = time /\ ~arrived'[j.chat].sure
  BY <1>2, SenderArrives
<1>5. \A c \in Chats : c # j.chat => arrived'[c] = arrived[c]
  BY <1>4
<1>6. /\ UNCHANGED <<dedup, recorded>>
      /\ \E p \in Jobs :
           /\ job' = [job EXCEPT ![Sender] = p] /\ p.number = j.number /\ p.left = j.left
           /\ \/ p.pc = "serve" /\ j.part >= j.parts
              \/ p.pc = "sending" /\ p.chat = j.chat /\ p.part = j.part + 1 /\ j.part < j.parts
  BY <1>2, SenderNextPart
<1>7. PICK p \in Jobs :
        /\ job' = [job EXCEPT ![Sender] = p] /\ p.number = j.number /\ p.left = j.left
        /\ \/ p.pc = "serve" /\ j.part >= j.parts
           \/ p.pc = "sending" /\ p.chat = j.chat /\ p.part = j.part + 1 /\ j.part < j.parts
  BY <1>6
<1>8. job' \in [Doers -> Jobs] /\ job'[Sender] = p /\ \A e \in Callers : job'[e] = job[e]
  BY <1>1, <1>7, OneJobChanges
<1>9. lastSend' \in [Chats -> 0..MaxTime]
  BY <1>1, <1>2
<1>10. NoticesTypeOK'
  BY <1>1, <1>2, <1>6, <1>8, <1>9 DEF NoticesTypeOK
<1>11. NoticeHistoryOK'
  BY <1>1, <1>2, <1>4, <1>6 DEF NoticeHistoryOK
<1>12. DedupInv' /\ DedupIsExact'
  BY <1>1, <1>2, <1>6, <1>8, CallsStay
<1>13. QueueInv'
  <2>1. \A c \in Chats : arrived'[c].number \in {arrived[c].number, job[Sender].number}
    BY <1>4
  <2> QED
    BY <1>2, <1>7, <1>8, <2>1, QueueStays
<1>14. SenderNotes'
  <2> SUFFICES ASSUME NEW c \in Chats
               PROVE  arrived'[c].number <= events /\ arrived'[c].at <= time
    BY <1>2 DEF SenderNotes
  <2>1. CASE c = j.chat
    BY <1>1, <1>3, <1>4, <2>1
  <2>2. CASE c # j.chat
    BY <1>1, <1>5, <2>2 DEF SenderNotes
  <2> QED
    BY <2>1, <2>2
<1>15. \A c \in p.left : arrived'[c].number < p.number
  BY <1>3, <1>5, <1>7
<1>16. SenderAt(job[Sender])' /\ NotedAt(job[Sender], lastSend)'
  <2>1. CASE p.pc = "serve" /\ j.part >= j.parts
    <3>1. lastSend'[j.chat] = time /\ \A c \in Chats : c # j.chat => lastSend'[c] = lastSend[c]
      BY <1>1, <1>2, <1>3, <2>1
    <3>2. \A c \in Chats : arrived'[c].number > 0 => arrived'[c].at <= lastSend'[c]
      <4> SUFFICES ASSUME NEW c \in Chats, arrived'[c].number > 0
                   PROVE  arrived'[c].at <= lastSend'[c]
        OBVIOUS
      <4>1. CASE c = j.chat
        BY <1>1, <1>4, <3>1, <4>1
      <4>2. CASE c # j.chat
        BY <1>1, <1>3, <1>5, <3>1, <4>2 DEF NotedAt
      <4> QED
        BY <4>1, <4>2
    <3>3. NotedAt(job[Sender], lastSend)'
      BY <3>2 DEF NotedAt
    <3>4. SenderAt(job[Sender])'
      BY <1>2, <1>3, <1>7, <1>8, <1>15, <2>1 DEF SenderAt
    <3> QED
      BY <3>3, <3>4
  <2>2. CASE p.pc = "sending" /\ p.chat = j.chat /\ p.part = j.part + 1 /\ j.part < j.parts
    <3>1. arrived'[p.chat].number <= p.number /\ p.chat \in Chats \ p.left
      BY <1>3, <1>4, <1>7, <2>2
    <3>2. After(arrived[p.chat], p.number, p.part)'
      <4>1. /\ arrived'[p.chat].number = p.number /\ arrived'[p.chat].part = j.part
            /\ p.part = j.part + 1
        BY <1>4, <1>7, <2>2
      <4>2. j.part < p.part
        BY <1>3, <4>1
      <4> QED
        BY <4>1, <4>2 DEF After
    <3>3. Loose(arrived[p.chat], p.number)'
      BY <1>4, <1>7, <2>2 DEF Loose
    <3>4. SenderAt(job[Sender])'
      BY <1>2, <1>3, <1>7, <1>8, <1>15, <2>2, <3>1, <3>2, <3>3 DEF SenderAt
    <3>5. lastSend' = lastSend
      BY <1>2, <1>3, <2>2
    <3>6. ASSUME NEW c \in Chats
          PROVE  \/ arrived'[c].number > 0 => arrived'[c].at <= lastSend'[c]
                 \/ p.pc = "sending" /\ p.chat = c /\ Loose(arrived[c], p.number)'
      <4>1. CASE c = j.chat
        BY <2>2, <3>3, <4>1
      <4>2. CASE c # j.chat
        BY <1>1, <1>3, <1>5, <3>5, <4>2 DEF NotedAt
      <4> QED
        BY <4>1, <4>2
    <3>7. NotedAt(job[Sender], lastSend)'
      BY <1>8, <3>6 DEF NotedAt, Loose
    <3> QED
      BY <3>4, <3>7
  <2> QED
    BY <1>7, <2>1, <2>2
<1> QED
  BY <1>4, <1>10, <1>11, <1>12, <1>13, <1>14, <1>16 DEF NoticesInv, SenderInv

\* stop() ends the sender, as an exception does, and the message it was at may
\* arrive.
LEMMA SenderEnds ==
  ASSUME NoticesInv, StopService \/ Breaks(Sender)
  PROVE  NoticesInv' /\ Spaces
<1> DEFINE j == job[Sender]
<1>1. /\ NoticesTypeOK /\ NoticeHistoryOK /\ SenderNotes /\ SenderAt(j) /\ j \in Jobs
      /\ time \in Nat /\ events \in Nat
      /\ Sender \in Doers /\ Callers \subseteq Doers /\ Sender \notin Callers
      /\ NoJob \in Jobs /\ NoJob.pc = "idle" /\ NoJob.number = 0
  BY NoticeFacts, NoJobFacts DEF NoticesInv, SenderInv
<1>2. /\ job' = [job EXCEPT ![Sender] = NoJob] /\ serving' = FALSE
      /\ (j.pc = "sending" /\ Note(Sender, FALSE)) \/ arrived' = arrived
      /\ UNCHANGED <<time, dedup, lastSend, queue, calls, events, recorded, silenced>>
  BY DEF StopService, Breaks
<1>3. /\ arrived' \in [Chats -> [number : Nat, part : Nat, at : Nat, sure : BOOLEAN]]
      /\ Spaces
      /\ \A c \in Chats : \/ arrived'[c] = arrived[c]
                          \/ arrived'[c].number = j.number /\ arrived'[c].at = time
  <2>1. CASE arrived' = arrived
    BY <1>1, <2>1, NothingArrives DEF NoticeHistoryOK
  <2>2. CASE j.pc = "sending" /\ Note(Sender, FALSE)
    BY <2>2, SenderArrives
  <2> QED
    BY <1>2, <2>1, <2>2
<1>4. /\ job' \in [Doers -> Jobs] /\ job'[Sender] = NoJob
      /\ \A e \in Callers : job'[e] = job[e]
  BY <1>1, <1>2, OneJobChanges
<1>5. NoticesTypeOK'
  BY <1>1, <1>2, <1>4 DEF NoticesTypeOK
<1>6. NoticeHistoryOK'
  BY <1>1, <1>2, <1>3 DEF NoticeHistoryOK
<1>7. DedupInv' /\ DedupIsExact'
  BY <1>1, <1>2, <1>4, CallsStay
<1>8. QueueInv'
  <2>1. \A c \in Chats : arrived'[c].number \in {arrived[c].number, job[Sender].number}
    BY <1>3
  <2> QED
    BY <1>1, <1>2, <1>4, <2>1, QueueStays
<1>9. SenderNotes'
  <2> SUFFICES ASSUME NEW c \in Chats
               PROVE  arrived'[c].number <= events /\ arrived'[c].at <= time
    BY <1>2 DEF SenderNotes
  <2>1. j.number <= events
    BY <1>1 DEF SenderAt
  <2>2. arrived[c].number <= events /\ arrived[c].at <= time
    BY <1>1 DEF SenderNotes
  <2>3. arrived'[c] = arrived[c] \/ (arrived'[c].number = j.number /\ arrived'[c].at = time)
    BY <1>3
  <2> QED
    BY <1>1, <2>1, <2>2, <2>3
<1>10. SenderAt(job[Sender])'
  BY <1>1, <1>2, <1>4 DEF SenderAt
<1>11. NotedAt(job[Sender], lastSend)'
  BY <1>2 DEF NotedAt
<1> QED
  BY <1>3, <1>5, <1>6, <1>7, <1>8, <1>9, <1>10, <1>11 DEF NoticesInv, SenderInv

\* A call that an exception or a cancellation ends is not noted.
LEMMA CallBreaks ==
  ASSUME NoticesInv, NEW d \in Callers, Breaks(d)
  PROVE  NoticesInv' /\ Spaces
<1>1. /\ NoticesTypeOK /\ NoticeHistoryOK /\ d \in Doers /\ d # Sender /\ Sender \in Doers
      /\ Callers \subseteq Doers /\ time \in Nat /\ events \in Nat
      /\ NoJob \in Jobs /\ NoJob.pc = "idle" /\ serving \in BOOLEAN
  BY NoticeFacts, NoJobFacts DEF NoticesInv, NoticesTypeOK
<1>2. /\ job' = [job EXCEPT ![d] = NoJob] /\ arrived' = arrived
      /\ serving' = (serving /\ d # Sender)
      /\ UNCHANGED <<time, dedup, lastSend, queue, calls, events, recorded, silenced>>
  BY <1>1 DEF Breaks, Note
<1>3. serving' = serving
  BY <1>1, <1>2, Zenon
<1>4. /\ job' \in [Doers -> Jobs] /\ job'[Sender] = job[Sender]
      /\ \A e \in Callers : job'[e] = job[e] \/ job'[e].pc = "idle"
  BY <1>1, <1>2, OneJobChanges
<1>5. NoticesTypeOK'
  BY <1>1, <1>2, <1>3, <1>4 DEF NoticesTypeOK
<1>6. NoticeHistoryOK'
  BY <1>1, <1>2 DEF NoticeHistoryOK
<1>7. DedupInv' /\ DedupIsExact'
  BY <1>1, <1>2, <1>4, CallsStay
<1>8. QueueInv'
  BY <1>2, <1>4, QueueStays
<1>9. SenderInv'
  BY <1>1, <1>2, <1>3, <1>4, SenderStays
<1> QED
  BY <1>2, <1>5, <1>6, <1>7, <1>8, <1>9, NothingArrives DEF NoticesInv

\* A call that starts, or is suppressed.
LEMMA NotifyKeeps ==
  ASSUME NoticesInv, NEW d \in Callers, NEW chat \in Chats, NEW type \in Types,
         Notify(d, chat, type)
  PROVE  NoticesInv' /\ Spaces
<1>1. /\ NoticesTypeOK /\ NoticeHistoryOK /\ time \in Nat /\ events \in Nat /\ calls \in Nat
      /\ MaxRequests \in Nat /\ Sender \in Doers /\ Sender \notin Callers
  BY NoticeFacts DEF NoticesInv
<1>2. /\ job' \in [Doers -> Jobs] /\ \A e \in Doers \ Callers : job'[e] = job[e]
      /\ NoticeHistoryOK' /\ DedupInv' /\ DedupIsExact'
  BY NotifyDedups
<1>3. /\ calls' \in 0..MaxRequests /\ arrived' = arrived
      /\ UNCHANGED <<time, serving, dedup, lastSend, queue, events, recorded>>
  <2>1. /\ calls' = calls + 1 /\ calls + events < MaxRequests
        /\ UNCHANGED <<time, serving, dedup, lastSend, queue, events, arrived, recorded>>
    BY DEF Notify
  <2>2. calls' \in 0..MaxRequests
    BY <1>1, <2>1
  <2> QED
    BY <2>1, <2>2
<1>4. NoticesTypeOK'
  BY <1>1, <1>2, <1>3 DEF NoticesTypeOK
<1>5. QueueInv'
  BY <1>1, <1>2, <1>3, QueueStays
<1>6. SenderInv'
  BY <1>1, <1>2, <1>3, SenderStays
<1> QED
  BY <1>2, <1>3, <1>4, <1>5, <1>6, NothingArrives DEF NoticesInv

\* An event goes to the end of the queue, with the highest number so far.
LEMMA EnqueueKeeps ==
  ASSUME NoticesInv, NEW chats \in SUBSET Chats, Enqueue(chats)
  PROVE  NoticesInv' /\ Spaces
<1> DEFINE S == [number : 1..MaxRequests, chats : SUBSET Chats]
           number == events + 1
           new == [number |-> number, chats |-> chats]
           n == Len(queue)
<1>1. /\ NoticesTypeOK /\ NoticeHistoryOK /\ QueueInv /\ SenderNotes /\ SenderAt(job[Sender])
      /\ time \in Nat /\ events \in Nat /\ calls \in Nat /\ MaxRequests \in Nat
      /\ Sender \in Doers /\ queue \in Seq(S) /\ job[Sender] \in Jobs
      /\ \A c \in Chats : arrived[c] \in [number : Nat, part : Nat, at : Nat, sure : BOOLEAN]
  BY NoticeFacts DEF NoticesInv, NoticesTypeOK, SenderInv
<1>2. /\ events' = number /\ queue' = Append(queue, new) /\ calls + events < MaxRequests
      /\ arrived' = arrived
      /\ UNCHANGED <<time, serving, dedup, lastSend, job, calls, recorded, silenced>>
  BY DEF Enqueue
<1>3. number \in 1..MaxRequests /\ events < number
  BY <1>1, <1>2
<1> HIDE DEF number
<1>4. new \in S /\ new.number = number
  BY <1>3
<1> HIDE DEF new
<1>5. /\ queue' \in Seq(S) /\ n \in Nat /\ DOMAIN queue = 1..n /\ DOMAIN queue' = 1..(n + 1)
      /\ queue'[n + 1] = new /\ \A i \in 1..n : queue'[i] = queue[i]
  <2> HIDE DEF S
  <2> QED
    BY <1>1, <1>2, <1>4
<1>6. NoticesTypeOK'
  BY <1>1, <1>2, <1>3, <1>5 DEF NoticesTypeOK
<1>7. NoticeHistoryOK'
  BY <1>1, <1>2 DEF NoticeHistoryOK
<1>8. DedupInv' /\ DedupIsExact'
  BY <1>1, <1>2, CallsStay
<1>9. SenderInv'
  BY <1>1, <1>2, <1>3, SenderStays
<1>10. QueueInv'
  <2>1. \A i \in 1..n : queue[i].number \in Nat
    <3>1. \A i \in 1..n : queue[i] \in S
      BY <1>1, <1>5, Elements
    <3> QED
      BY <3>1
  <2>2. /\ job[Sender].number <= events /\ job[Sender].number \in Nat
        /\ \A c \in Chats : arrived[c].number <= events /\ arrived[c].number \in Nat
    BY <1>1 DEF SenderAt, SenderNotes, Jobs
  <2> HIDE DEF n, S
  <2> SUFFICES ASSUME NEW i \in 1..(n + 1)
               PROVE  /\ queue'[i].number <= number /\ job[Sender].number < queue'[i].number
                      /\ \A c \in Chats : arrived[c].number < queue'[i].number
                      /\ \A k \in 1..(n + 1) : i < k => queue'[i].number < queue'[k].number
    BY <1>2, <1>5 DEF QueueInv
  <2>3. number \in Nat
    BY <1>3
  <2>4. CASE i = n + 1
    <3>1. queue'[i].number = number
      BY <1>4, <1>5, <2>4
    <3>2. \A k \in 1..(n + 1) : ~(i < k)
      BY <1>5, <2>4
    <3> QED
      BY <1>1, <1>3, <2>2, <2>3, <3>1, <3>2
  <2>5. CASE i \in 1..n
    <3>1. /\ queue'[i] = queue[i] /\ queue[i].number <= events
          /\ job[Sender].number < queue[i].number
          /\ \A c \in Chats : arrived[c].number < queue[i].number
          /\ \A k \in 1..n : i < k => queue[i].number < queue[k].number
      BY <1>1, <1>5, <2>5 DEF QueueInv
    <3>2. queue[i].number < number
      BY <1>1, <1>3, <2>1, <2>3, <2>5, <3>1
    <3>3. ASSUME NEW k \in 1..(n + 1), i < k
          PROVE  queue'[i].number < queue'[k].number
      <4>1. CASE k = n + 1
        BY <1>4, <1>5, <3>1, <3>2, <4>1
      <4>2. CASE k \in 1..n
        BY <1>5, <3>1, <3>3, <4>2
      <4> QED
        BY <1>5, <4>1, <4>2
    <3> QED
      BY <2>1, <2>3, <2>5, <3>1, <3>2, <3>3
  <2> QED
    BY <1>5, <2>4, <2>5
<1> QED
  BY <1>2, <1>6, <1>7, <1>8, <1>9, <1>10, NothingArrives DEF NoticesInv

\* Every step of the service keeps its invariant, and brings what is spaced.
LEMMA NoticesKeep ==
  ASSUME NoticesInv, NoticesNext \/ UNCHANGED noticeVars
  PROVE  NoticesInv' /\ Spaces
<1>1. ASSUME time' \in time..MaxTime, arrived' = arrived,
             UNCHANGED <<serving, dedup, lastSend, queue, job, calls, events, recorded, silenced>>
      PROVE  NoticesInv' /\ Spaces
  <2>1. /\ NoticesTypeOK /\ NoticeHistoryOK /\ time \in Nat /\ events \in Nat
        /\ time' \in Nat /\ time' >= time /\ time' <= MaxTime /\ BootedFor \in Nat
        /\ BootedFor <= time /\ MaxTime \in Nat
    BY <1>1, NoticeFacts DEF NoticesInv, NoticesTypeOK
  <2>2. NoticesTypeOK'
    BY <1>1, <2>1 DEF NoticesTypeOK
  <2>3. NoticeHistoryOK'
    BY <1>1, <2>1 DEF NoticeHistoryOK
  <2>4. DedupInv' /\ DedupIsExact'
    BY <1>1, <2>1, CallsStay
  <2>5. QueueInv'
    BY <1>1, QueueStays
  <2>6. SenderInv'
    BY <1>1, <2>1, SenderStays
  <2> QED
    BY <1>1, <2>2, <2>3, <2>4, <2>5, <2>6, NothingArrives DEF NoticesInv
<1>2. time \in Nat /\ MaxTime \in Nat /\ time <= MaxTime
  BY NoticeFacts
<1>3. CASE TimePasses
  BY <1>1, <1>2, <1>3 DEF TimePasses
<1>4. CASE UNCHANGED noticeVars
  BY <1>1, <1>2, <1>4 DEF noticeVars
<1>5. CASE \E chats \in {Chats} \cup {{c} : c \in Chats} : Enqueue(chats)
  BY <1>5, EnqueueKeeps
<1>6. CASE \E d \in Callers : PartArrives(d) \/ PartFails(d) \/ PauseOver(d) \/ Breaks(d)
  BY <1>6, CallerSends, CallBreaks
<1>7. CASE PartFails(Sender)
  <2>1. Note(Sender, FALSE) \/ arrived' = arrived
    BY <1>7 DEF PartFails
  <2> QED
    BY <1>7, <2>1, SenderPartUnsure, SenderGoesOn
<1>8. CASE PartArrives(Sender) \/ PauseOver(Sender) \/ Breaks(Sender)
  BY <1>8, SenderPartArrives, SenderGoesOn, SenderEnds
<1>9. CASE \E d \in Doers : PartArrives(d) \/ PartFails(d) \/ PauseOver(d) \/ Breaks(d)
  BY <1>6, <1>7, <1>8, <1>9 DEF Doers
<1> QED
  BY <1>3, <1>4, <1>5, <1>9, NotifyKeeps, SenderServes, SenderEnds DEF NoticesNext

-----------------------------------------------------------------------------
(* The least and the greatest of a set of numbers. *)

\* "<" as the relation that the theorems of WellFoundedInduction are about.
LEMMA LessAsRelation ==
  \E R : IsWellFoundedOn(R, Nat) /\ \A a, b \in Nat : <<a, b>> \in R <=> a < b
<1> DEFINE R == OpToRel(<, Nat)
<1>1. IsWellFoundedOn(R, Nat)
  BY NatLessThanWellFounded
<1>2. \A a, b \in Nat : <<a, b>> \in R <=> a < b
  BY DEF OpToRel
<1> HIDE DEF R
<1> QED
  BY <1>1, <1>2

\* A set of natural numbers has a least one.  What is proved of all numbers in
\* turn is proved from it, by way of the least for which it does not hold.
LEMMA LeastExists ==
  ASSUME NEW X, X \subseteq Nat, X # {}
  PROVE  \E n \in X : \A m \in X : n <= m
<1>1. PICK R : IsWellFoundedOn(R, Nat) /\ \A a, b \in Nat : <<a, b>> \in R <=> a < b
  BY LessAsRelation
<1>2. PICK n \in X : \A m \in X : ~(<<m, n>> \in R)
  <2>1. IsWellFoundedOn(R, Nat)
    BY <1>1
  <2>2. \E n \in X : \A m \in X : ~(<<m, n>> \in R)
    BY <2>1, WFMin, Zenon
  <2> QED
    BY <2>2
<1>3. \A m \in X : ~(m < n)
  BY <1>1, <1>2
<1>4. \A a, b \in Nat : ~(a < b) => b <= a
  OBVIOUS
<1>5. \A m \in X : n <= m
  BY <1>3, <1>4
<1> QED
  BY <1>5

\* A bounded set of natural numbers has a greatest one.
LEMMA MaxFacts ==
  ASSUME NEW N \in Nat, NEW X, X \subseteq 0..N, X # {}
  PROVE  Max(X) \in X /\ \A m \in X : m <= Max(X)
<1> DEFINE Y == {N - x : x \in X}
<1>1. Y \subseteq Nat /\ Y # {}
  OBVIOUS
<1>2. PICK y \in Y : \A m \in Y : y <= m
  BY <1>1, LeastExists
<1>3. PICK x \in X : y = N - x
  BY <1>2
<1>4. \A m \in X : x >= m
  <2> SUFFICES ASSUME NEW m \in X PROVE x >= m
    OBVIOUS
  <2>1. y <= N - m
    BY <1>2
  <2>2. x \in 0..N /\ m \in 0..N
    OBVIOUS
  <2> QED
    BY <1>3, <2>1, <2>2
<1>5. Max(X) \in X /\ \A m \in X : Max(X) >= m
  BY <1>3, <1>4 DEF Max
<1>6. \A m \in X : m \in 0..N /\ Max(X) \in 0..N
  BY <1>5
<1> QED
  BY <1>5, <1>6

-----------------------------------------------------------------------------
(* The two splitters. *)

\* What a text, a message and a rest are made of.
Line == Seq([c : Symbols, at : 0..Len(text)])

\* Only an answer has a block open, and then its fence is at the head of what
\* remains.
Headed ==
  /\ open => splitter = "answer"
  /\ open /\ remaining # <<>> =>
       /\ word + 4 <= Len(remaining)
       /\ \A k \in 1..word + 4 : remaining[k].c = Fence(word)[k]

SplitInv == SplitTypeOK /\ Headed /\ SplitIsFaithful

\* The sizes.
LEMMA Sizes ==
  /\ ChunkSize \in Nat /\ ChunkSize >= 8
  /\ ChunkSize \div 2 \in Nat /\ ChunkSize \div 2 < ChunkSize
BY SplitAssumption

\* A character has a symbol and a place.
LEMMA LineFacts ==
  ASSUME NEW s \in Line
  PROVE  /\ Len(s) \in Nat /\ DOMAIN s = 1..Len(s)
         /\ \A k \in 1..Len(s) : s[k].c \in Symbols /\ s[k].at \in Nat
<1>1. /\ s \in Seq([c : Symbols, at : 0..Len(text)])
      /\ Len(s) \in Nat /\ DOMAIN s = 1..Len(s)
  BY DEF Line
<1>2. \A k \in 1..Len(s) : s[k] \in [c : Symbols, at : 0..Len(text)]
  BY <1>1, Elements
<1> QED
  BY <1>1, <1>2

\* The characters after the first at.
LEMMA FromFacts ==
  ASSUME NEW S, NEW s \in Seq(S), NEW at \in 0..Len(s)
  PROVE  /\ From(s, at) \in Seq(S) /\ Len(From(s, at)) = Len(s) - at
         /\ \A k \in 1..Len(s) - at : From(s, at)[k] = s[at + k]
BY DEF From

\* The window of what is longer than a chunk is a chunk of it.
LEMMA WindowFacts ==
  ASSUME NEW S, NEW s \in Seq(S), Len(s) > ChunkSize
  PROVE  /\ Window(s) \in Seq(S) /\ Len(Window(s)) = ChunkSize
         /\ \A k \in 1..ChunkSize : Window(s)[k] = s[k]
<1>1. Least(ChunkSize, Len(s)) = ChunkSize
  BY Sizes DEF Least
<1> QED
  BY <1>1, Sizes DEF Window

\* The row of characters of a kind is as long as it can be.
LEMMA RunAfterFacts ==
  ASSUME NEW S, NEW s \in Seq(S), NEW at \in 0..Len(s), NEW kind
  PROVE  /\ RunAfter(s, at, kind) \in 0..Len(s) - at
         /\ \A k \in at + 1..at + RunAfter(s, at, kind) : s[k].c \in kind
         /\ at + RunAfter(s, at, kind) < Len(s) =>
              s[at + RunAfter(s, at, kind) + 1].c \notin kind
<1> DEFINE rest == Len(s) - at
           X == {n \in 0..rest : at + n < Len(s) => s[at + n + 1].c \notin kind}
           Q(n) == /\ \A k \in at + 1..at + n : s[k].c \in kind
                   /\ at + n < Len(s) => s[at + n + 1].c \notin kind
<1>1. Len(s) \in Nat /\ rest \in Nat /\ at \in Nat /\ at + rest = Len(s)
  OBVIOUS
<1>2. X \subseteq Nat /\ rest \in X
  BY <1>1
<1>3. PICK n \in X : \A m \in X : n <= m
  BY <1>2, LeastExists
<1>4. \A k \in at + 1..at + n : s[k].c \in kind
  <2> SUFFICES ASSUME NEW k \in at + 1..at + n PROVE s[k].c \in kind
    OBVIOUS
  <2> DEFINE m == k - at - 1
  <2>1. m \in 0..rest /\ at + m < Len(s) /\ at + m + 1 = k /\ ~(n <= m)
    BY <1>1, <1>3
  <2>2. m \notin X
    BY <1>3, <2>1
  <2> QED
    BY <2>1, <2>2
<1>5. \E x \in 0..rest : Q(x)
  BY <1>3, <1>4
<1>6. RunAfter(s, at, kind) = CHOOSE x \in 0..rest : Q(x)
  BY DEF RunAfter
<1> HIDE DEF Q, rest
<1>7. RunAfter(s, at, kind) \in 0..rest /\ Q(RunAfter(s, at, kind))
  BY <1>5, <1>6
<1> QED
  BY <1>7 DEF Q, rest

\* Where a pattern is found, it fits, and its first character stands.
LEMMA FoundFacts ==
  ASSUME NEW w \in Line, NEW low \in Nat,
         NEW pattern \in Seq(Blanks), Len(pattern) \in 1..2,
         {at \in Places(w, pattern) : at >= low} # {}
  PROVE  LET m == Max({at \in Places(w, pattern) : at >= low}) IN
         /\ m \in Nat /\ low <= m /\ m + Len(pattern) <= Len(w)
         /\ w[m + 1].c \in Blanks
<1> DEFINE found == {at \in Places(w, pattern) : at >= low}
           m == Max(found)
           n == Len(pattern)
<1>1. n \in 1..2 /\ 1 \in DOMAIN pattern /\ pattern[1] \in Blanks
  OBVIOUS
<1>2. Len(w) \in Nat
  BY LineFacts
<1>3. \A at \in found : at \in 0..Len(w) - n /\ at >= low /\ w[at + 1].c = pattern[1]
  BY <1>1 DEF Places
<1> HIDE DEF n, found
<1>4. found \subseteq 0..Len(w)
  BY <1>1, <1>2, <1>3
<1>5. m \in found
  <2>1. found # {}
    BY DEF found
  <2> QED
    BY <1>2, <1>4, <2>1, MaxFacts
<1> HIDE DEF m
<1>6. m \in 0..Len(w) - n /\ m >= low /\ w[m + 1].c = pattern[1]
  BY <1>3, <1>5
<1>7. m \in Nat /\ low <= m /\ m + n <= Len(w)
  BY <1>1, <1>2, <1>6
<1> QED
  BY <1>1, <1>6, <1>7 DEF m, n, found

\* A cut is in the window: behind the lowest place where it is looked for, or
\* before a blank if it is at the very beginning.
LEMMA CutFacts ==
  ASSUME NEW w \in Line, Len(w) = ChunkSize, NEW low \in Nat, low < ChunkSize,
         NEW after \in BOOLEAN
  PROVE  /\ Cut(w, low, after) \in 0..ChunkSize
         /\ after => Cut(w, low, after) > low
         /\ Cut(w, low, after) = 0 => w[1].c \in Blanks
<1> DEFINE found(pattern) == {at \in Places(w, pattern) : at >= low}
           at(pattern) == Max(found(pattern)) + IF after THEN Len(pattern) ELSE 0
           cut == Cut(w, low, after)
<1>1. \/ found(<<"n", "n">>) # {} /\ cut = at(<<"n", "n">>)
      \/ found(<<"n">>) # {} /\ cut = at(<<"n">>)
      \/ found(<<" ">>) # {} /\ cut = at(<<" ">>)
      \/ cut = Least(ChunkSize, Len(w))
  BY DEF Cut
<1>2. CASE cut = Least(ChunkSize, Len(w))
  BY <1>2, Sizes DEF Least
<1>3. ASSUME NEW pattern \in Seq(Blanks), Len(pattern) \in 1..2,
             found(pattern) # {}, cut = at(pattern)
      PROVE  /\ cut \in 0..ChunkSize
             /\ after => cut > low
             /\ cut = 0 => w[1].c \in Blanks
  <2> DEFINE m == Max(found(pattern))
             n == Len(pattern)
  <2>1. m \in Nat /\ low <= m /\ m + n <= Len(w) /\ w[m + 1].c \in Blanks
    BY <1>3, FoundFacts
  <2>2. n \in 1..2
    BY <1>3
  <2>3. cut = m + IF after THEN n ELSE 0
    BY <1>3
  <2> HIDE DEF m, n, cut
  <2>4. m + n <= ChunkSize /\ ChunkSize \in Nat
    BY <2>1, Sizes
  <2>5. CASE after
    <3>1. cut = m + n
      BY <2>3, <2>5
    <3> QED
      BY <2>1, <2>2, <2>4, <3>1
  <2>6. CASE ~after
    <3>1. cut = m
      BY <2>1, <2>3, <2>6
    <3>2. cut \in 0..ChunkSize
      BY <2>1, <2>2, <2>4, <3>1
    <3>3. cut = 0 => w[1].c \in Blanks
      BY <2>1, <3>1
    <3> QED
      BY <2>6, <3>2, <3>3
  <2> QED
    BY <2>5, <2>6
<1>4. /\ <<"n", "n">> \in Seq(Blanks) /\ Len(<<"n", "n">>) \in 1..2
      /\ <<"n">> \in Seq(Blanks) /\ Len(<<"n">>) \in 1..2
      /\ <<" ">> \in Seq(Blanks) /\ Len(<<" ">>) \in 1..2
  BY DEF Blanks
<1> HIDE DEF found, at, cut
<1>5. CASE found(<<"n", "n">>) # {} /\ cut = at(<<"n", "n">>)
  BY <1>3, <1>4, <1>5 DEF cut
<1>6. CASE found(<<"n">>) # {} /\ cut = at(<<"n">>)
  BY <1>3, <1>4, <1>6 DEF cut
<1>7. CASE found(<<" ">>) # {} /\ cut = at(<<" ">>)
  BY <1>3, <1>4, <1>7 DEF cut
<1> QED
  BY <1>1, <1>2, <1>5, <1>6, <1>7 DEF cut

\* What is added stands at no place of the text.
LEMMA AddedFacts ==
  ASSUME text \in Seq(Symbols), NEW s \in Seq(Symbols)
  PROVE  /\ Added(s) \in Line /\ Len(Added(s)) = Len(s)
         /\ \A k \in 1..Len(s) : Added(s)[k].c = s[k] /\ Added(s)[k].at = 0
<1> DEFINE n == Len(s)
           Char == [c : Symbols, at : 0..Len(text)]
<1>1. DOMAIN s = 1..n /\ n \in Nat /\ Len(text) \in Nat
  OBVIOUS
<1>2. Added(s) = [k \in 1..n |-> [c |-> s[k], at |-> 0]]
  BY <1>1 DEF Added
<1>3. \A k \in 1..n : [c |-> s[k], at |-> 0] \in Char
  BY <1>1, Elements
<1>4. Line = Seq(Char)
  BY DEF Line
<1> HIDE DEF n, Char
<1>5. Added(s) \in [1..n -> Char]
  BY <1>2, <1>3
<1>6. Added(s) \in Seq(Char) /\ Len(Added(s)) = n
  BY <1>1, <1>5
<1> QED
  BY <1>2, <1>4, <1>6 DEF n

\* The line of a fence: three backticks, letters, and a newline at its end.
LEMMA FenceFacts ==
  ASSUME NEW letters \in Nat
  PROVE  /\ Fence(letters) \in Seq(Symbols) /\ Len(Fence(letters)) = letters + 4
         /\ \A k \in 1..3 : Fence(letters)[k] = "t"
         /\ \A k \in 4..letters + 4 : Fence(letters)[k] # "t"
<1> DEFINE n == letters + 4
           mark(k) == IF k <= 3 THEN "t" ELSE IF k = n THEN "n" ELSE "x"
<1>1. n \in Nat /\ n > 3
  OBVIOUS
<1>2. Fence(letters) = [k \in 1..n |-> mark(k)]
  BY DEF Fence
<1>3. \A k \in 1..n : mark(k) \in Symbols
  BY DEF Symbols
<1>4. \A k \in 1..3 : k \in 1..n /\ mark(k) = "t"
  BY <1>1
<1>5. \A k \in 4..n : k \in 1..n /\ mark(k) # "t"
  BY <1>1
<1> HIDE DEF n, mark
<1>6. Fence(letters) \in [1..n -> Symbols]
  BY <1>2, <1>3
<1>7. Fence(letters) \in Seq(Symbols) /\ Len(Fence(letters)) = n
  BY <1>1, <1>6
<1> QED
  BY <1>2, <1>4, <1>5, <1>7 DEF n

\* What is left of a row is its last characters.
LEMMA RestFacts ==
  ASSUME NEW s \in Line, NEW at \in 0..Len(s)
  PROVE  /\ From(s, at) \in Line /\ Len(From(s, at)) = Len(s) - at
         /\ \A k \in 1..Len(s) - at : From(s, at)[k] = s[at + k]
BY FromFacts DEF Line

\* The characters of a row put behind another.
LEMMA Joined ==
  ASSUME NEW a \in Line, NEW b \in Line
  PROVE  /\ a \o b \in Line /\ Len(a \o b) = Len(a) + Len(b)
         /\ \A k \in 1..Len(a) : (a \o b)[k] = a[k]
         /\ \A k \in 1..Len(b) : (a \o b)[Len(a) + k] = b[k]
<1> DEFINE Char == [c : Symbols, at : 0..Len(text)]
<1>1. Line = Seq(Char) /\ a \in Seq(Char) /\ b \in Seq(Char)
  BY DEF Line
<1> HIDE DEF Char
<1>2. a \o b \in Seq(Char) /\ Len(a \o b) = Len(a) + Len(b)
  BY <1>1
<1>3. \A k \in 1..Len(a) : (a \o b)[k] = a[k]
  BY <1>1
<1>4. \A k \in 1..Len(b) : (a \o b)[Len(a) + k] = b[k]
  BY <1>1
<1> QED
  BY <1>1, <1>2, <1>3, <1>4

\* A fence ends in the window, behind two more backticks.
LEMMA FenceEndFacts ==
  ASSUME NEW w \in Line, Len(w) = ChunkSize
  PROVE  /\ FenceEnds(w) \subseteq 3..ChunkSize
         /\ \A e \in FenceEnds(w) : w[e].c = "t" /\ w[e - 1].c = "t" /\ w[e - 2].c = "t"
         /\ FenceEnds(w) # {} => Max(FenceEnds(w)) \in FenceEnds(w)
         /\ \A e \in FenceEnds(w) : e <= Max(FenceEnds(w))
<1> DEFINE ends == FenceEnds(w)
<1>1. ChunkSize \in Nat /\ DOMAIN w = 1..ChunkSize
  BY Sizes, LineFacts
<1>2. ASSUME NEW e \in ends
      PROVE  /\ e \in 3..ChunkSize
             /\ w[e].c = "t" /\ w[e - 1].c = "t" /\ w[e - 2].c = "t"
  <2>1. e \in 1..ChunkSize
    BY <1>1 DEF FenceEnds
  <2>2. PICK from \in 1..e : (\A k \in from..e : w[k].c = "t") /\ (e - from) % 3 = 2
    BY DEF FenceEnds
  <2>3. from <= e - 2 /\ e - 2 >= 1
    BY <2>1, <2>2
  <2>4. e \in from..e /\ e - 1 \in from..e /\ e - 2 \in from..e
    BY <2>1, <2>3
  <2> QED
    BY <1>1, <2>1, <2>2, <2>3, <2>4
<1> HIDE DEF ends
<1>3. ends \subseteq 0..ChunkSize
  BY <1>1, <1>2
<1>4. ends # {} => Max(ends) \in ends /\ \A e \in ends : e <= Max(ends)
  BY <1>1, <1>3, MaxFacts
<1> QED
  BY <1>2, <1>4 DEF ends

\* The word of a block is in the window, with the backticks before it.
LEMMA FencesFacts ==
  ASSUME NEW s \in Line, Len(s) > ChunkSize, word \in 0..ChunkSize - 3
  PROVE  /\ Fences(Window(s)).open \in BOOLEAN
         /\ Fences(Window(s)).word \in 0..ChunkSize - 3
<1> DEFINE w == Window(s)
           ends == FenceEnds(w)
           e == Max(ends)
           n == RunAfter(w, e, {"x"})
<1>1. w \in Line /\ Len(w) = ChunkSize
  BY WindowFacts DEF Line
<1>2. ChunkSize \in Nat
  BY Sizes
<1>3. Fences(w).open \in BOOLEAN /\ Fences(w).word = IF ends = {} THEN word ELSE n
  BY DEF Fences
<1>4. ASSUME ends # {} PROVE n \in 0..ChunkSize - 3
  <2>1. e \in 3..ChunkSize
    BY <1>1, <1>4, FenceEndFacts
  <2> HIDE DEF e, w
  <2>2. e \in 0..Len(w)
    BY <1>1, <1>2, <2>1
  <2>3. n \in 0..ChunkSize - e
    BY <1>1, <2>2, RunAfterFacts DEF Line
  <2> QED
    BY <1>2, <2>1, <2>3
<1> QED
  BY <1>3, <1>4

\* If a block is open after a window that begins with a fence put back, that fence
\* has closed one, and another one that opens this one comes behind its line.
LEMMA NextFence ==
  ASSUME NEW s \in Line, Len(s) > ChunkSize, open = TRUE, word \in 0..ChunkSize - 3,
         \A k \in 1..word + 4 : s[k].c = Fence(word)[k],
         Fences(Window(s)).open
  PROVE  Fences(Window(s)).word + word + 7 <= ChunkSize
<1> DEFINE w == Window(s)
           ends == FenceEnds(w)
           last == Max(ends)
           n == RunAfter(w, last, {"x"})
<1>1. w \in Line /\ Len(w) = ChunkSize /\ \A k \in 1..ChunkSize : w[k] = s[k]
  BY WindowFacts DEF Line
<1>2. ChunkSize \in Nat /\ ChunkSize >= 8 /\ word \in Nat /\ DOMAIN w = 1..ChunkSize
  BY <1>1, Sizes, LineFacts
<1>3. /\ ends \subseteq 3..ChunkSize
      /\ \A e \in ends : w[e].c = "t" /\ w[e - 1].c = "t" /\ w[e - 2].c = "t"
      /\ ends # {} => last \in ends
      /\ \A e \in ends : e <= last
  BY <1>1, FenceEndFacts
<1>4. /\ \A k \in 1..3 : w[k].c = "t"
      /\ \A k \in 4..word + 4 : k <= ChunkSize => w[k].c # "t"
  <2>1. /\ \A k \in 1..3 : Fence(word)[k] = "t"
        /\ \A k \in 4..word + 4 : Fence(word)[k] # "t"
    BY <1>2, FenceFacts
  <2>2. \A k \in 1..3 : k \in 1..ChunkSize /\ k \in 1..word + 4
    BY <1>2
  <2>3. \A k \in 4..word + 4 : k \in 1..word + 4 /\ (k <= ChunkSize => k \in 1..ChunkSize)
    BY <1>2
  <2> HIDE DEF w
  <2> QED
    BY <1>1, <2>1, <2>2, <2>3
<1>5. 3 \in ends
  <2>1. 3 \in DOMAIN w /\ 1 \in 1..3 /\ (3 - 1) % 3 = 2 /\ ~(1 > 1)
    BY <1>2
  <2> HIDE DEF w
  <2> QED
    BY <1>4, <2>1 DEF FenceEnds
<1>6. open # (Cardinality(ends) % 2 = 1)
  BY DEF Fences
<1> HIDE DEF w, ends, last
<1>7. PICK e \in ends : e # 3
  <2> SUFFICES ASSUME ends = {3} PROVE FALSE
    BY <1>5
  <2>1. Cardinality(ends) = 1
    BY FS_Singleton
  <2>2. Cardinality(ends) % 2 = 1
    BY <2>1
  <2> QED
    BY <1>6, <2>2
<1>8. e \in 4..ChunkSize /\ ~(e \in 4..word + 4)
  <2>1. e \in 3..ChunkSize /\ w[e].c = "t" /\ e # 3
    BY <1>3, <1>7
  <2>2. e \in 4..ChunkSize
    BY <1>2, <2>1
  <2> QED
    BY <1>2, <1>4, <2>1, <2>2
<1>9. e >= word + 5
  BY <1>2, <1>8
<1>10. /\ ~(e - 1 \in 4..word + 4) /\ ~(e - 2 \in 4..word + 4)
       /\ e - 1 <= ChunkSize /\ e - 2 <= ChunkSize
  <2>1. w[e - 1].c = "t" /\ w[e - 2].c = "t"
    BY <1>3
  <2>2. e - 1 <= ChunkSize /\ e - 2 <= ChunkSize
    BY <1>2, <1>8
  <2> QED
    BY <1>4, <2>1, <2>2
<1>11. e >= word + 7
  BY <1>2, <1>8, <1>9, <1>10
<1>12. last \in 3..ChunkSize /\ last >= word + 7
  <2>1. last \in 3..ChunkSize /\ e <= last
    BY <1>3, <1>5
  <2> QED
    BY <1>2, <1>8, <1>11, <2>1
<1>13. n \in 0..ChunkSize - last
  <2>1. last \in 0..Len(w)
    BY <1>1, <1>2, <1>12
  <2> QED
    BY <1>1, <2>1, RunAfterFacts DEF Line
<1>14. Fences(w).word = n
  BY <1>5 DEF Fences, ends, last
<1> HIDE DEF n
<1>15. n + word + 7 <= ChunkSize
  BY <1>2, <1>12, <1>13
<1> QED
  BY <1>14, <1>15 DEF w

\* Blanks at the head are dropped, all of them.
LEMMA StripFacts ==
  ASSUME NEW s \in Line
  PROVE  \E n \in 0..Len(s) :
           /\ Strip(s) = From(s, n)
           /\ \A k \in 1..n : s[k].c \in Blanks
           /\ n = 0 /\ Len(s) > 0 => s[1].c \notin Blanks
<1> DEFINE n == RunAfter(s, 0, Blanks)
<1>1. Len(s) \in Nat
  BY LineFacts
<1>2. /\ n \in 0..Len(s) - 0
      /\ \A k \in 0 + 1..0 + n : s[k].c \in Blanks
      /\ 0 + n < Len(s) => s[0 + n + 1].c \notin Blanks
  BY <1>1, RunAfterFacts DEF Line
<1>3. Strip(s) = From(s, n)
  BY DEF Strip
<1> HIDE DEF n
<1>4. n \in 0..Len(s) /\ \A k \in 1..n : s[k].c \in Blanks
  BY <1>1, <1>2
<1>5. n = 0 /\ Len(s) > 0 => s[1].c \notin Blanks
  BY <1>1, <1>2
<1> QED
  BY <1>3, <1>4, <1>5

-----------------------------------------------------------------------------
(* The text in the messages and in what remains. *)

\* The characters of the text are in order, and each of them is there.
InOrder(all) ==
  \A i, j \in DOMAIN all : \A k \in DOMAIN all[i], l \in DOMAIN all[j] :
    /\ i < j \/ (i = j /\ k < l)
    /\ all[i][k].at # 0 /\ all[j][l].at # 0
    => all[i][k].at < all[j][l].at

Whole(all) ==
  \A n \in DOMAIN text :
    \/ \E i \in DOMAIN all : \E k \in DOMAIN all[i] : all[i][k] = [c |-> text[n], at |-> n]
    \/ splitter = "notice" /\ text[n] \in Blanks

\* m is the first at characters of s and some that were added; r is some that
\* were added and then those of s after the first from.
CutInto(s, m, r, at, from, lead) ==
  /\ Len(m) >= at
  /\ \A k \in 1..at : m[k] = s[k]
  /\ \A k \in at + 1..Len(m) : m[k].at = 0
  /\ Len(r) = lead + (Len(s) - from)
  /\ \A k \in 1..lead : r[k].at = 0
  /\ \A k \in 1..Len(s) - from : r[lead + k] = s[from + k]

\* The messages and the rest, one by one.
LEMMA AllFacts ==
  ASSUME NEW done \in Seq(Line), NEW m \in Line, NEW r \in Line
  PROVE  LET old == Append(done, m)
             new == Append(old, r)
             n == Len(done)
         IN  /\ n \in Nat /\ old \in Seq(Line) /\ new \in Seq(Line)
             /\ DOMAIN old = 1..n + 1 /\ DOMAIN new = 1..n + 2
             /\ \A i \in 1..n : old[i] = done[i] /\ new[i] = done[i]
             /\ old[n + 1] = m /\ new[n + 1] = m /\ new[n + 2] = r
<1> DEFINE old == Append(done, m)
           new == Append(old, r)
           n == Len(done)
<1>1. n \in Nat /\ old \in Seq(Line) /\ Len(old) = n + 1 /\ DOMAIN old = 1..n + 1
      /\ old[n + 1] = m /\ \A i \in 1..n : old[i] = done[i]
  OBVIOUS
<1> HIDE DEF old, n
<1>2. new \in Seq(Line) /\ Len(new) = n + 2 /\ new[n + 2] = r
      /\ \A i \in 1..n + 1 : new[i] = old[i]
  BY <1>1
<1>3. DOMAIN new = 1..n + 2
  BY <1>2
<1>4. new[n + 1] = m /\ \A i \in 1..n : new[i] = done[i]
  BY <1>1, <1>2
<1> HIDE DEF new
<1> QED
  BY <1>1, <1>2, <1>3, <1>4 DEF old, new, n

\* A cut keeps the order, and loses at most what lies between its two parts.
LEMMA CutKeeps ==
  ASSUME NEW done \in Seq(Line), NEW s \in Line, NEW m \in Line, NEW r \in Line,
         NEW at \in 0..Len(s), NEW from \in at..Len(s), NEW lead \in Nat,
         CutInto(s, m, r, at, from, lead),
         InOrder(Append(done, s)), Whole(Append(done, s)),
         at < from => splitter = "notice",
         \A k \in at + 1..from : s[k].c \in Blanks
  PROVE  LET all == Append(Append(done, m), r) IN InOrder(all) /\ Whole(all)
<1> DEFINE old == Append(done, s)
           all == Append(Append(done, m), r)
           n == Len(done)
           Row(i) == IF i = n + 2 THEN n + 1 ELSE i
           Col(i, k) == IF i = n + 2 THEN from + (k - lead) ELSE k
<1>1. /\ n \in Nat /\ DOMAIN old = 1..n + 1 /\ DOMAIN all = 1..n + 2
      /\ \A i \in 1..n : old[i] = done[i] /\ all[i] = done[i] /\ done[i] \in Line
      /\ old[n + 1] = s /\ all[n + 1] = m /\ all[n + 2] = r
  BY AllFacts, Elements
<1>2. \A i \in DOMAIN all : all[i] \in Line
  BY AllFacts, Elements
<1> HIDE DEF old, all
<1>3. /\ Len(s) \in Nat /\ DOMAIN s = 1..Len(s)
      /\ Len(m) \in Nat /\ DOMAIN m = 1..Len(m)
      /\ Len(r) \in Nat /\ DOMAIN r = 1..Len(r)
      /\ at \in Nat /\ from \in Nat /\ at <= from /\ from <= Len(s)
  BY LineFacts
<1>4. ASSUME NEW i \in DOMAIN all, NEW k \in DOMAIN all[i], all[i][k].at # 0
      PROVE  /\ Row(i) \in DOMAIN old /\ Col(i, k) \in DOMAIN old[Row(i)]
             /\ all[i][k] = old[Row(i)][Col(i, k)]
             /\ i = n + 1 => Col(i, k) <= at
             /\ i = n + 2 => Col(i, k) > from
  <2>1. CASE i \in 1..n
    <3>1. Row(i) = i /\ Col(i, k) = k /\ i # n + 1 /\ i # n + 2
      BY <1>1, <2>1
    <3>2. i \in 1..n + 1 /\ all[i] = old[i]
      BY <1>1, <2>1
    <3> QED
      BY <1>1, <1>4, <3>1, <3>2
  <2>2. CASE i = n + 1
    <3>1. Row(i) = n + 1 /\ Col(i, k) = k /\ i # n + 2
      BY <1>1, <2>2
    <3>2. k \in 1..Len(m) /\ m[k].at # 0
      BY <1>1, <1>3, <1>4, <2>2
    <3>3. k \in 1..at
      BY <1>3, <3>2 DEF CutInto
    <3>4. m[k] = s[k] /\ k \in 1..Len(s) /\ k <= at
      BY <1>3, <3>3 DEF CutInto
    <3>5. n + 1 \in 1..n + 1
      BY <1>1
    <3> QED
      BY <1>1, <1>3, <2>2, <3>1, <3>4, <3>5
  <2>3. CASE i = n + 2
    <3>1. Row(i) = n + 1 /\ Col(i, k) = from + (k - lead) /\ i # n + 1
      BY <1>1, <2>3
    <3>2. k \in 1..Len(r) /\ r[k].at # 0
      BY <1>1, <1>3, <1>4, <2>3
    <3> DEFINE x == k - lead
    <3>3. x \in 1..Len(s) - from /\ lead + x = k
      BY <1>3, <3>2 DEF CutInto
    <3> HIDE DEF x
    <3>4. r[k] = s[from + x]
      BY <3>3 DEF CutInto
    <3>6. from + x \in 1..Len(s) /\ from + x > from
      BY <1>3, <3>3
    <3>5. n + 1 \in 1..n + 1 /\ Col(i, k) = from + x
      BY <1>1, <3>1 DEF x
    <3> HIDE DEF Row, Col
    <3> QED
      BY <1>1, <1>3, <2>3, <3>1, <3>4, <3>5, <3>6
  <2> QED
    BY <1>1, <2>1, <2>2, <2>3
<1>5. InOrder(all)
  <2> SUFFICES ASSUME NEW i \in DOMAIN all, NEW j \in DOMAIN all,
                      NEW k \in DOMAIN all[i], NEW l \in DOMAIN all[j],
                      i < j \/ (i = j /\ k < l), all[i][k].at # 0, all[j][l].at # 0
               PROVE  all[i][k].at < all[j][l].at
    BY DEF InOrder
  <2>1. /\ Row(i) \in DOMAIN old /\ Col(i, k) \in DOMAIN old[Row(i)]
        /\ all[i][k] = old[Row(i)][Col(i, k)]
        /\ i = n + 1 => Col(i, k) <= at
        /\ i = n + 2 => Col(i, k) > from
    BY <1>4
  <2>2. /\ Row(j) \in DOMAIN old /\ Col(j, l) \in DOMAIN old[Row(j)]
        /\ all[j][l] = old[Row(j)][Col(j, l)]
        /\ j = n + 1 => Col(j, l) <= at
        /\ j = n + 2 => Col(j, l) > from
    BY <1>4
  <2>3. i \in 1..n + 2 /\ j \in 1..n + 2 /\ k \in Nat /\ l \in Nat
    <3>1. all[i] \in Line /\ all[j] \in Line
      BY <1>1, <1>2
    <3>2. DOMAIN all[i] = 1..Len(all[i]) /\ DOMAIN all[j] = 1..Len(all[j])
      BY <3>1, LineFacts
    <3> QED
      BY <1>1, <3>2
  <2>4. Row(i) < Row(j) \/ (Row(i) = Row(j) /\ Col(i, k) < Col(j, l))
    <3>1. CASE i < j /\ i <= n
      BY <1>1, <2>3, <3>1
    <3>2. CASE i = n + 1 /\ j = n + 2
      <4>1. Row(i) = n + 1 /\ Row(j) = n + 1
        BY <1>1, <3>2
      <4>2. Col(i, k) \in Int /\ Col(j, l) \in Int
        BY <1>3, <2>3
      <4> HIDE DEF Row, Col
      <4> QED
        BY <1>3, <2>1, <2>2, <3>2, <4>1, <4>2
    <3>3. CASE i = j /\ k < l
      BY <1>1, <1>3, <2>3, <3>3
    <3> QED
      BY <1>1, <2>3, <3>1, <3>2, <3>3
  <2> HIDE DEF Row, Col
  <2>5. old[Row(i)][Col(i, k)].at < old[Row(j)][Col(j, l)].at
    BY <2>1, <2>2, <2>4 DEF InOrder, old
  <2> QED
    BY <2>1, <2>2, <2>5
<1>6. ASSUME NEW i \in DOMAIN old, NEW k \in DOMAIN old[i],
             i = n + 1 => k \notin at + 1..from
      PROVE  \E j \in DOMAIN all : \E l \in DOMAIN all[j] : all[j][l] = old[i][k]
  <2>1. CASE i \in 1..n
    <3>1. i \in DOMAIN all /\ all[i] = old[i]
      BY <1>1, <2>1
    <3> QED
      BY <3>1
  <2>2. CASE i = n + 1 /\ k <= at
    <3>1. k \in 1..at
      BY <1>1, <1>3, <2>2
    <3>2. k \in DOMAIN m /\ m[k] = s[k]
      BY <1>3, <3>1 DEF CutInto
    <3>3. n + 1 \in DOMAIN all
      BY <1>1
    <3> QED
      BY <1>1, <2>2, <3>2, <3>3
  <2>3. CASE i = n + 1 /\ k > from
    <3> DEFINE x == k - from
    <3>1. x \in 1..Len(s) - from /\ from + x = k
      BY <1>1, <1>3, <2>3
    <3> HIDE DEF x
    <3>2. r[lead + x] = s[k]
      BY <3>1 DEF CutInto
    <3>4. lead + x \in DOMAIN r
      <4>1. Len(r) = lead + (Len(s) - from)
        BY DEF CutInto
      <4> QED
        BY <1>3, <3>1, <4>1
    <3>3. n + 2 \in DOMAIN all
      BY <1>1
    <3> QED
      BY <1>1, <2>3, <3>2, <3>3, <3>4
  <2>4. i = n + 1 => k <= at \/ k > from
    BY <1>1, <1>3, <1>6
  <2> QED
    BY <1>1, <2>1, <2>2, <2>3, <2>4
<1>7. Whole(all)
  <2> SUFFICES ASSUME NEW p \in DOMAIN text
               PROVE  \/ \E j \in DOMAIN all : \E l \in DOMAIN all[j] :
                           all[j][l] = [c |-> text[p], at |-> p]
                      \/ splitter = "notice" /\ text[p] \in Blanks
    BY DEF Whole
  <2>1. CASE splitter = "notice" /\ text[p] \in Blanks
    BY <2>1
  <2>2. ASSUME NEW i \in DOMAIN old, NEW k \in DOMAIN old[i],
               old[i][k] = [c |-> text[p], at |-> p]
        PROVE  \/ \E j \in DOMAIN all : \E l \in DOMAIN all[j] :
                    all[j][l] = [c |-> text[p], at |-> p]
               \/ splitter = "notice" /\ text[p] \in Blanks
    <3>1. CASE i = n + 1 => k \notin at + 1..from
      BY <1>6, <2>2, <3>1
    <3>2. CASE i = n + 1 /\ k \in at + 1..from
      <4>1. splitter = "notice" /\ s[k].c \in Blanks
        BY <1>3, <3>2
      <4>2. s[k].c = text[p]
        BY <1>1, <2>2, <3>2
      <4> QED
        BY <4>1, <4>2
    <3> QED
      BY <3>1, <3>2
  <2> QED
    BY <2>1, <2>2 DEF Whole, old
<1> QED
  BY <1>5, <1>7 DEF all

-----------------------------------------------------------------------------
(* The steps of the two splitters. *)

\* What a cut of s into m and r keeps.
CutWell(s, m, r) ==
  /\ m \in Line /\ r \in Line
  /\ Len(m) <= ChunkSize + (IF splitter = "answer" THEN 4 ELSE 0)
  /\ \E at \in 0..Len(s) : \E from \in at..Len(s) : \E lead \in Nat :
       /\ CutInto(s, m, r, at, from, lead)
       /\ at < from => splitter = "notice"
       /\ \A k \in at + 1..from : s[k].c \in Blanks

\* The first characters.
LEMMA HeadFacts ==
  ASSUME NEW s \in Line, NEW at \in 0..Len(s)
  PROVE  /\ SubSeq(s, 1, at) \in Line /\ Len(SubSeq(s, 1, at)) = at
         /\ \A k \in 1..at : SubSeq(s, 1, at)[k] = s[k]
<1> DEFINE Char == [c : Symbols, at : 0..Len(text)]
<1>1. Line = Seq(Char) /\ s \in Seq(Char) /\ Len(s) \in Nat
  BY DEF Line
<1> HIDE DEF Char
<1>2. SubSeq(s, 1, at) \in Seq(Char) /\ Len(SubSeq(s, 1, at)) = at
  BY <1>1
<1>3. \A k \in 1..at : SubSeq(s, 1, at)[k] = s[k]
  BY <1>1
<1> QED
  BY <1>1, <1>2, <1>3

\* Nothing is a row of characters.
LEMMA NothingFacts == <<>> \in Line /\ Len(<<>>) = 0
BY DEF Line

\* An answer: the cut is behind the first half of the window, and the fence of a
\* block that is open is put back.
LEMMA AnswerIsCutWell ==
  ASSUME SplitInv, CutAnswer
  PROVE  /\ \E m : CutWell(remaining, m, remaining') /\ chunks' = Append(chunks, m)
         /\ Headed' /\ word' \in 0..ChunkSize - 3 /\ open' = Fences(Window(remaining)).open
         /\ AnswerCut(remaining) \in 0..ChunkSize
         /\ AnswerCut(remaining) > ChunkSize \div 2
         /\ Len(remaining') = PutBack' + (Len(remaining) - AnswerCut(remaining))
         /\ PutBack' = IF open' THEN Fences(Window(remaining)).word + 4 ELSE 0
<1> DEFINE s == remaining
           w == Window(s)
           block == Fences(w)
           at == AnswerCut(s)
           rest == Rest(s, at)
           tail == IF block.open THEN Added(<<"n", "t", "t", "t">>) ELSE <<>>
           lead == IF block.open THEN Added(Fence(block.word)) ELSE <<>>
           m == SubSeq(s, 1, at) \o tail
<1>1. /\ s \in Line /\ Len(s) > ChunkSize /\ splitter = "answer"
      /\ text \in Seq(Symbols) /\ word \in 0..ChunkSize - 3
  BY DEF SplitInv, SplitTypeOK, Line, CutAnswer
<1>2. ChunkSize \in Nat /\ Len(s) \in Nat /\ ChunkSize >= 8
      /\ ChunkSize \div 2 < ChunkSize /\ ChunkSize \div 2 \in Nat
  BY <1>1, Sizes, LineFacts
<1>3. w \in Line /\ Len(w) = ChunkSize
  BY <1>1, WindowFacts DEF Line
<1>4. at \in 0..ChunkSize /\ at > ChunkSize \div 2
  BY <1>2, <1>3, CutFacts DEF AnswerCut
<1>5. block.open \in BOOLEAN /\ block.word \in 0..ChunkSize - 3
  BY <1>1, FencesFacts
<1>6. /\ chunks' = Append(chunks, m) /\ splitter' = splitter
      /\ open' = block.open /\ word' = IF block.open THEN block.word ELSE 0
      /\ remaining' = (IF block.open /\ rest # <<>> THEN Added(Fence(block.word)) ELSE <<>>) \o rest
  BY DEF CutAnswer
<1> HIDE DEF s, w, block, at
<1>7. at \in 0..Len(s) /\ at \in Nat
  BY <1>1, <1>2, <1>4
<1>8. /\ rest \in Line /\ Len(rest) = Len(s) - at
      /\ \A k \in 1..Len(s) - at : rest[k] = s[at + k]
  BY <1>1, <1>7, RestFacts DEF Rest
<1>9. rest # <<>>
  BY <1>1, <1>2, <1>4, <1>8
<1> HIDE DEF rest
<1>10. remaining' = lead \o rest
  BY <1>6, <1>9
<1>11. /\ tail \in Line /\ Len(tail) \in 0..4 /\ \A k \in 1..Len(tail) : tail[k].at = 0
  <2>1. CASE block.open
    <3>1. <<"n", "t", "t", "t">> \in Seq(Symbols) /\ Len(<<"n", "t", "t", "t">>) = 4
      BY DEF Symbols
    <3>2. tail = Added(<<"n", "t", "t", "t">>)
      BY <2>1
    <3> HIDE DEF tail
    <3>3. tail \in Line /\ Len(tail) = 4 /\ \A k \in 1..4 : tail[k].at = 0
      BY <1>1, <3>1, <3>2, AddedFacts
    <3> QED
      BY <3>3
  <2>2. CASE ~block.open
    BY <2>2, NothingFacts
  <2> QED
    BY <2>1, <2>2
<1> DEFINE letters == block.word
<1>22. letters \in 0..ChunkSize - 3 /\ letters \in Nat /\ letters + 4 \in Nat
  BY <1>2, <1>5
<1>23. Fence(letters) \in Seq(Symbols) /\ Len(Fence(letters)) = letters + 4
  BY <1>22, FenceFacts
<1>24. ASSUME block.open
       PROVE  /\ lead \in Line /\ Len(lead) = letters + 4
              /\ \A k \in 1..letters + 4 : lead[k].at = 0 /\ lead[k].c = Fence(letters)[k]
  <2>1. lead = Added(Fence(letters))
    BY <1>24
  <2> HIDE DEF lead, letters
  <2> QED
    BY <1>1, <1>23, <2>1, AddedFacts
<1> HIDE DEF letters
<1>12. /\ lead \in Line /\ Len(lead) = IF block.open THEN letters + 4 ELSE 0
       /\ \A k \in 1..Len(lead) : lead[k].at = 0
  <2>1. CASE block.open
    BY <1>24, <2>1
  <2>2. CASE ~block.open
    <3>1. lead = <<>>
      BY <2>2
    <3> HIDE DEF lead
    <3> QED
      BY <2>2, <3>1, NothingFacts
  <2> QED
    BY <2>1, <2>2
<1>25. Len(lead) \in Nat
  BY <1>12, LineFacts
<1>13. /\ SubSeq(s, 1, at) \in Line /\ Len(SubSeq(s, 1, at)) = at
       /\ \A k \in 1..at : SubSeq(s, 1, at)[k] = s[k]
  BY <1>1, <1>7, HeadFacts
<1> DEFINE head == SubSeq(s, 1, at)
<1> HIDE DEF head, tail, lead
<1>14. /\ m \in Line /\ Len(m) = at + Len(tail)
       /\ \A k \in 1..at : m[k] = s[k]
       /\ \A k \in 1..Len(tail) : m[at + k].at = 0
  <2>1. m = head \o tail /\ head \in Line /\ Len(head) = at /\ \A k \in 1..at : head[k] = s[k]
    BY <1>13 DEF head
  <2> HIDE DEF m
  <2> QED
    BY <1>11, <2>1, Joined
<1> HIDE DEF m
<1> DEFINE r == lead \o rest
<1>15. /\ r \in Line /\ Len(r) = Len(lead) + Len(rest)
       /\ \A k \in 1..Len(lead) : r[k] = lead[k]
       /\ \A k \in 1..Len(rest) : r[Len(lead) + k] = rest[k]
  BY <1>8, <1>12, Joined
<1>16. remaining' = r
  BY <1>10
<1> HIDE DEF r
<1>18. Len(m) <= ChunkSize + 4
  <2>1. Len(m) = at + Len(tail) /\ Len(tail) \in 0..4
    BY <1>11, <1>14
  <2>2. at \in 0..ChunkSize /\ ChunkSize \in Nat
    BY <1>2, <1>4
  <2>3. \A a \in 0..ChunkSize, b \in 0..4 : a + b <= ChunkSize + 4
    BY <2>2
  <2> QED
    BY <2>1, <2>2, <2>3
<1>19. CutInto(s, m, r, at, at, Len(lead))
  <2>1. Len(m) >= at
    BY <1>7, <1>11, <1>14
  <2>2. \A k \in at + 1..Len(m) : m[k].at = 0
    <3> TAKE k \in at + 1..Len(m)
    <3> DEFINE x == k - at
    <3>1. x \in 1..Len(tail) /\ at + x = k
      BY <1>7, <1>11, <1>14
    <3> HIDE DEF x
    <3> QED
      BY <1>14, <3>1
  <2>3. \A k \in 1..Len(lead) : r[k].at = 0
    BY <1>12, <1>15
  <2>4. \A k \in 1..Len(s) - at : r[Len(lead) + k] = s[at + k]
    BY <1>8, <1>15
  <2>5. Len(r) = Len(lead) + (Len(s) - at)
    BY <1>8, <1>15
  <2> QED
    BY <1>14, <2>1, <2>2, <2>3, <2>4, <2>5 DEF CutInto
<1>20. \E a \in 0..Len(s) : \E from \in a..Len(s) : \E added \in Nat :
         /\ CutInto(s, m, r, a, from, added)
         /\ a < from => splitter = "notice"
         /\ \A k \in a + 1..from : s[k].c \in Blanks
  <2>1. at \in at..Len(s) /\ ~(at < at) /\ \A k \in at + 1..at : FALSE
    BY <1>2, <1>7
  <2> QED
    BY <1>7, <1>19, <1>25, <2>1
<1>21. CutWell(s, m, r)
  BY <1>1, <1>14, <1>15, <1>18, <1>20 DEF CutWell
<1>26. Len(r) = Len(lead) + (Len(s) - at) /\ Len(r) > 0
  BY <1>1, <1>2, <1>4, <1>8, <1>15, <1>25
<1>27. r # <<>>
  BY <1>26
<1>28. PutBack' = IF open' THEN letters + 4 ELSE 0
  BY <1>6, <1>16, <1>27 DEF PutBack, letters
<1>29. PutBack' = Len(lead)
  BY <1>6, <1>12, <1>28
<1>30. Headed'
  <2> SUFFICES ASSUME open'
               PROVE  /\ word' + 4 <= Len(r)
                      /\ \A k \in 1..word' + 4 : r[k].c = Fence(word')[k]
    BY <1>1, <1>6, <1>16 DEF Headed, Fence
  <2>1. block.open /\ word' = letters
    BY <1>6 DEF letters
  <2>2. Len(lead) = letters + 4 /\ \A k \in 1..letters + 4 : lead[k].c = Fence(letters)[k]
    BY <1>24, <2>1
  <2>3. \A k \in 1..letters + 4 : r[k] = lead[k]
    BY <1>15, <2>2
  <2>4. letters + 4 <= Len(r)
    BY <1>1, <1>2, <1>4, <1>22, <1>26, <2>2
  <2> QED
    BY <2>1, <2>2, <2>3, <2>4
<1>31. word' \in 0..ChunkSize - 3
  BY <1>2, <1>6, <1>22 DEF letters
<1>32. open' = Fences(Window(remaining)).open
  BY <1>6 DEF block, w, s
<1>33. AnswerCut(remaining) \in 0..ChunkSize /\ AnswerCut(remaining) > ChunkSize \div 2
  BY <1>4 DEF at, s
<1>34. Len(remaining') = PutBack' + (Len(remaining) - AnswerCut(remaining))
  BY <1>16, <1>26, <1>29 DEF at, s
<1>35. PutBack' = IF open' THEN Fences(Window(remaining)).word + 4 ELSE 0
  BY <1>28 DEF letters, block, w, s
<1>36. CutWell(remaining, m, remaining') /\ chunks' = Append(chunks, m)
  BY <1>6, <1>16, <1>21 DEF s, m, head
<1> QED
  BY <1>30, <1>31, <1>32, <1>33, <1>34, <1>35, <1>36

\* An answer's cut takes more than half of a window, and the fences put back before
\* it and after it are no longer than a window together, but for the newline of
\* the later one.
LEMMA AnswerProgresses ==
  ASSUME SplitInv, CutAnswer, ChunkSize % 2 = 0
  PROVE  2 * Len(remaining') - PutBack' < 2 * Len(remaining) - PutBack
<1> DEFINE s == remaining
           block == Fences(Window(s))
           at == AnswerCut(s)
           n == Len(s)
<1>1. /\ s \in Line /\ n > ChunkSize /\ word \in 0..ChunkSize - 3 /\ open \in BOOLEAN
      /\ n \in Nat /\ ChunkSize \in Nat /\ s # <<>>
  <2>1. s \in Line /\ n > ChunkSize /\ word \in 0..ChunkSize - 3 /\ open \in BOOLEAN
    BY DEF SplitInv, SplitTypeOK, Line, CutAnswer
  <2>2. n \in Nat /\ ChunkSize \in Nat
    BY <2>1, LineFacts, Sizes
  <2>3. s # <<>>
    BY <2>1, <2>2
  <2> QED
    BY <2>1, <2>2, <2>3
<1>2. /\ at \in 0..ChunkSize /\ at > ChunkSize \div 2
      /\ Len(remaining') = PutBack' + (n - at)
      /\ open' = block.open
      /\ PutBack' = IF open' THEN block.word + 4 ELSE 0
  BY AnswerIsCutWell
<1>3. block.open \in BOOLEAN /\ block.word \in 0..ChunkSize - 3
  BY <1>1, FencesFacts
<1>4. PutBack = IF open THEN word + 4 ELSE 0
  BY <1>1 DEF PutBack
<1>5. open /\ block.open => block.word + word + 7 <= ChunkSize
  <2> SUFFICES ASSUME open, block.open PROVE block.word + word + 7 <= ChunkSize
    OBVIOUS
  <2>1. open = TRUE
    BY <1>1
  <2>2. \A k \in 1..word + 4 : s[k].c = Fence(word)[k]
    BY <1>1, <2>1 DEF SplitInv, Headed
  <2> QED
    BY <1>1, <2>1, <2>2, NextFence
<1> DEFINE before == PutBack
           after == PutBack'
           letters == block.word
           left == Len(remaining')
<1>6. /\ before = IF open THEN word + 4 ELSE 0
      /\ after = IF block.open THEN letters + 4 ELSE 0
      /\ left = after + (n - at)
  BY <1>2, <1>4
<1>7. letters \in 0..ChunkSize - 3 /\ (open /\ block.open => letters + word + 7 <= ChunkSize)
  BY <1>3, <1>5
<1> HIDE DEF block, letters, at, n, s, before, after, left
<1>8. before \in Nat /\ after \in Nat /\ before + after <= ChunkSize + 1
  <2>1. word \in Nat /\ word <= ChunkSize - 3 /\ letters \in Nat /\ letters <= ChunkSize - 3
    BY <1>1, <1>7
  <2>2. CASE open /\ block.open
    BY <1>1, <1>6, <1>7, <2>1, <2>2
  <2>3. CASE open /\ ~block.open
    BY <1>1, <1>6, <2>1, <2>3
  <2>4. CASE ~open /\ block.open
    BY <1>1, <1>6, <2>1, <2>4
  <2>5. CASE ~open /\ ~block.open
    BY <1>1, <1>6, <2>5
  <2> QED
    BY <2>2, <2>3, <2>4, <2>5
<1>9. 2 * at >= ChunkSize + 2
  <2>1. at \in 0..ChunkSize /\ at > ChunkSize \div 2
    BY <1>2 DEF at, s
  <2>2. ChunkSize = 2 * (ChunkSize \div 2) /\ ChunkSize \div 2 \in Nat
    BY <1>1, Sizes
  <2> QED
    BY <1>1, <2>1, <2>2
<1>10. at \in Nat
  BY <1>1, <1>2 DEF at, s
<1>12. n \in Nat /\ ChunkSize \in Nat
  BY <1>1 DEF n, s
<1>11. 2 * left - after < 2 * n - before
  <2>1. left = after + (n - at)
    BY <1>6
  <2>2. after + before < 2 * at
    BY <1>8, <1>9, <1>10, <1>12
  <2> QED
    BY <1>8, <1>10, <1>12, <2>1, <2>2
<1> QED
  BY <1>11 DEF left, after, before, n, s

\* A notice: the message ends before blanks, and blanks at the head of the rest
\* are dropped; if the message is empty, there are some.
LEMMA NoticeIsCutWell ==
  ASSUME SplitInv, CutNotice
  PROVE  /\ \E m : CutWell(remaining, m, remaining') /\ chunks' = Append(chunks, m)
         /\ Len(remaining') < Len(remaining)
<1> DEFINE s == remaining
           w == Window(s)
           at == Cut(w, 0, FALSE)
           m == SubSeq(s, 1, at)
           rest == From(s, at)
           r == remaining'
<1>1. s \in Line /\ Len(s) > ChunkSize /\ splitter = "notice"
  BY DEF SplitInv, SplitTypeOK, Line, CutNotice
<1>2. ChunkSize \in Nat /\ Len(s) \in Nat /\ 0 < ChunkSize /\ 1 \in 1..ChunkSize
  BY <1>1, Sizes, LineFacts
<1>3. w \in Line /\ Len(w) = ChunkSize /\ w[1] = s[1]
  BY <1>1, <1>2, WindowFacts DEF Line
<1>4. at \in 0..ChunkSize /\ (at = 0 => s[1].c \in Blanks)
  BY <1>2, <1>3, CutFacts
<1>5. chunks' = Append(chunks, m) /\ r = Strip(rest)
  BY DEF CutNotice
<1> HIDE DEF s, w, at, r
<1>6. at \in 0..Len(s) /\ at \in Nat
  BY <1>1, <1>2, <1>4
<1>7. m \in Line /\ Len(m) = at /\ \A k \in 1..at : m[k] = s[k]
  BY <1>1, <1>6, HeadFacts
<1>8. /\ rest \in Line /\ Len(rest) = Len(s) - at
      /\ \A k \in 1..Len(s) - at : rest[k] = s[at + k]
  BY <1>1, <1>6, RestFacts
<1> HIDE DEF m, rest
<1>9. PICK n \in 0..Len(rest) :
        /\ r = From(rest, n)
        /\ \A k \in 1..n : rest[k].c \in Blanks
        /\ n = 0 /\ Len(rest) > 0 => rest[1].c \notin Blanks
  BY <1>5, <1>8, StripFacts
<1>10. /\ r \in Line /\ Len(r) = Len(rest) - n
       /\ \A k \in 1..Len(rest) - n : r[k] = rest[n + k]
  BY <1>8, <1>9, RestFacts
<1> DEFINE from == at + n
<1>11. n \in Nat /\ from \in at..Len(s) /\ Len(r) = Len(s) - from
  <2>1. n \in 0..(Len(s) - at) /\ Len(r) = (Len(s) - at) - n
    BY <1>8, <1>10
  <2> QED
    BY <1>2, <1>6, <2>1
<1>12. Len(r) < Len(s)
  <2>1. CASE at = 0
    <3>1. rest[1] = s[1] /\ Len(rest) > 0
      BY <1>1, <1>2, <1>8, <2>1
    <3>2. n # 0
      BY <1>4, <1>9, <2>1, <3>1
    <3> QED
      BY <1>2, <1>6, <1>11, <3>2
  <2>2. CASE at # 0
    BY <1>2, <1>6, <1>11, <2>2
  <2> QED
    BY <2>1, <2>2
<1>13. \A k \in at + 1..from : s[k].c \in Blanks
  <2> TAKE k \in at + 1..from
  <2> DEFINE x == k - at
  <2>1. x \in 1..n /\ x \in 1..Len(s) - at /\ at + x = k
    BY <1>2, <1>6, <1>11
  <2> HIDE DEF x
  <2> QED
    BY <1>8, <1>9, <2>1
<1>14. \A k \in 1..Len(s) - from : r[0 + k] = s[from + k]
  <2> TAKE k \in 1..Len(s) - from
  <2>1. /\ 0 + k = k /\ k \in 1..Len(rest) - n
        /\ n + k \in 1..Len(s) - at /\ at + (n + k) = from + k
    BY <1>2, <1>6, <1>8, <1>11
  <2> QED
    BY <1>8, <1>10, <2>1
<1>15. CutInto(s, m, r, at, from, 0)
  <2>1. Len(m) >= at /\ \A k \in at + 1..Len(m) : FALSE
    BY <1>6, <1>7
  <2>2. Len(r) = 0 + (Len(s) - from)
    BY <1>2, <1>6, <1>11
  <2>3. \A k \in 1..0 : FALSE
    OBVIOUS
  <2> QED
    BY <1>7, <1>14, <2>1, <2>2, <2>3 DEF CutInto
<1>16. Len(m) <= ChunkSize
  BY <1>2, <1>4, <1>7
<1> HIDE DEF from
<1>17. \E a \in 0..Len(s) : \E b \in a..Len(s) : \E lead \in Nat :
         /\ CutInto(s, m, r, a, b, lead)
         /\ a < b => splitter = "notice"
         /\ \A k \in a + 1..b : s[k].c \in Blanks
  <2>1. 0 \in Nat
    OBVIOUS
  <2> QED
    BY <1>1, <1>6, <1>11, <1>13, <1>15, <2>1
<1>18. Len(m) <= ChunkSize + (IF splitter = "answer" THEN 4 ELSE 0)
  BY <1>1, <1>16, <1>2
<1>19. CutWell(s, m, r)
  BY <1>7, <1>10, <1>17, <1>18 DEF CutWell
<1> QED
  BY <1>5, <1>12, <1>19 DEF s, r

\* The last message.
LEMMA LastIsCutWell ==
  ASSUME SplitInv, CutLast
  PROVE  \E m : CutWell(remaining, m, remaining') /\ chunks' = Append(chunks, m)
<1> DEFINE s == remaining
           n == Len(s)
<1>1. s \in Line /\ s # <<>> /\ n <= ChunkSize /\ chunks' = Append(chunks, s) /\ remaining' = <<>>
  BY DEF SplitInv, SplitTypeOK, Line, CutLast
<1> HIDE DEF s
<1>2. n \in Nat /\ n > 0 /\ ChunkSize \in Nat
  BY <1>1, Sizes DEF Line
<1>3. CutInto(s, s, <<>>, n, n, 0)
  <2>1. n >= n /\ \A k \in n + 1..n : FALSE
    BY <1>2
  <2>2. Len(<<>>) = 0 + (n - n) /\ \A k \in 1..0 : FALSE
    BY <1>2
  <2>3. \A k \in 1..n - n : FALSE
    BY <1>2
  <2> QED
    BY <2>1, <2>2, <2>3 DEF CutInto
<1>4. n \in 0..n /\ n \in n..n /\ ~(n < n) /\ \A k \in n + 1..n : FALSE
  BY <1>2
<1>5. n <= ChunkSize + (IF splitter = "answer" THEN 4 ELSE 0)
  BY <1>1, <1>2
<1>7. CutWell(s, s, <<>>)
  BY <1>1, <1>3, <1>4, <1>5, NothingFacts, 0 \in Nat DEF CutWell
<1> QED
  BY <1>1, <1>7 DEF s

\* Every step of a splitter is such a cut.
LEMMA StepsCutWell ==
  ASSUME SplitInv, SplitNext
  PROVE  \E m : CutWell(remaining, m, remaining') /\ chunks' = Append(chunks, m)
BY AnswerIsCutWell, NoticeIsCutWell, LastIsCutWell DEF SplitNext

\* What the splitter promises, by the messages and the rest.
LEMMA SplitFacts ==
  SplitInv <=>
    /\ SplitTypeOK /\ Headed
    /\ InOrder(Append(chunks, remaining)) /\ Whole(Append(chunks, remaining))
    /\ ChunksFit
BY DEF SplitInv, SplitIsFaithful, NothingIsLost, InOrder, Whole

\* A text starts whole, and with no message.
LEMMA SplitStarts ==
  ASSUME NEW S \in SUBSET {"answer", "notice", "none"}, SplitInit(S)
  PROVE  SplitInv
<1> DEFINE Char == [c : Symbols, at : 0..Len(text)]
           s == Chars(text)
<1>1. text \in Seq(Symbols)
  <2>1. <<>> \in Seq(Symbols)
    OBVIOUS
  <2>2. text \in (IF splitter = "none" THEN {<<>>} ELSE Texts)
    BY DEF SplitInit
  <2> QED
    BY <2>1, <2>2, SplitAssumption
<1>2. Line = Seq(Char) /\ DOMAIN text = 1..Len(text) /\ Len(text) \in Nat
  BY <1>1 DEF Line
<1>3. s = [k \in 1..Len(text) |-> [c |-> text[k], at |-> k]]
  BY <1>2 DEF Chars
<1>4. \A k \in 1..Len(text) : [c |-> text[k], at |-> k] \in Char
  BY <1>1, <1>2, Elements
<1> HIDE DEF s, Char
<1>5. s \in [1..Len(text) -> Char]
  BY <1>3, <1>4
<1>6. s \in Line /\ Len(s) = Len(text)
  BY <1>2, <1>5
<1>7. remaining = s /\ chunks = <<>>
  BY DEF SplitInit, s
<1>8. SplitTypeOK
  <2>1. splitter \in {"answer", "notice", "none"} /\ open = FALSE /\ word = 0
    BY DEF SplitInit
  <2>2. chunks \in Seq(Line) /\ word \in 0..ChunkSize - 3 /\ open \in BOOLEAN
    <3>1. chunks \in Seq(Line)
      BY <1>7
    <3>2. 0 \in 0..ChunkSize - 3
      BY Sizes
    <3> QED
      BY <2>1, <3>1, <3>2
  <2> QED
    BY <1>1, <1>6, <1>7, <2>1, <2>2 DEF SplitTypeOK, Line
<1>9. Headed
  BY DEF SplitInit, Headed
<1> DEFINE all == Append(chunks, remaining)
<1>10. all \in Seq(Line) /\ Len(all) = 1 /\ DOMAIN all = {1} /\ all[1] = s
  BY <1>6, <1>7
<1> HIDE DEF all
<1>11. DOMAIN s = 1..Len(text) /\ \A k \in 1..Len(text) : s[k] = [c |-> text[k], at |-> k]
  BY <1>3
<1>12. InOrder(all)
  BY <1>2, <1>10, <1>11 DEF InOrder
<1>13. Whole(all)
  BY <1>2, <1>10, <1>11 DEF Whole
<1>14. ChunksFit
  BY <1>7 DEF ChunksFit
<1> QED
  BY <1>7, <1>8, <1>9, <1>12, <1>13, <1>14, SplitFacts DEF all

\* Every step keeps the invariant.
LEMMA SplitKeeps ==
  ASSUME SplitInv, SplitNext
  PROVE  SplitInv'
<1>1. PICK m : CutWell(remaining, m, remaining') /\ chunks' = Append(chunks, m)
  BY StepsCutWell
<1>2. /\ m \in Line /\ remaining' \in Line
      /\ Len(m) <= ChunkSize + (IF splitter = "answer" THEN 4 ELSE 0)
  BY <1>1 DEF CutWell
<1>3. PICK at \in 0..Len(remaining) : \E from \in at..Len(remaining) : \E lead \in Nat :
        /\ CutInto(remaining, m, remaining', at, from, lead)
        /\ at < from => splitter = "notice"
        /\ \A k \in at + 1..from : remaining[k].c \in Blanks
  BY <1>1 DEF CutWell
<1>4. UNCHANGED <<splitter, text>>
  BY DEF SplitNext, CutAnswer, CutNotice, CutLast
<1>5. remaining \in Line /\ chunks \in Seq(Line) /\ text \in Seq(Symbols)
  BY DEF SplitInv, SplitTypeOK, Line
<1>6. InOrder(Append(chunks', remaining')) /\ Whole(Append(chunks', remaining'))
  BY <1>1, <1>2, <1>3, <1>5, CutKeeps, SplitFacts
<1>7. InOrder(Append(chunks, remaining))' /\ Whole(Append(chunks, remaining))'
  BY <1>4, <1>6 DEF InOrder, Whole
<1>8. chunks' \in Seq(Line) /\ Len(chunks') = Len(chunks) + 1 /\ chunks'[Len(chunks) + 1] = m
      /\ \A k \in 1..Len(chunks) : chunks'[k] = chunks[k]
  BY <1>1, <1>2, <1>5
<1>9. ChunksFit'
  <2> DEFINE most == ChunkSize + (IF splitter = "answer" THEN 4 ELSE 0)
  <2>1. \A k \in DOMAIN chunks : Len(chunks[k]) <= most
    BY SplitFacts DEF ChunksFit
  <2>2. Len(m) <= most
    BY <1>2
  <2> HIDE DEF most
  <2>3. \A k \in DOMAIN chunks' : Len(chunks'[k]) <= most
    <3>1. DOMAIN chunks = 1..Len(chunks) /\ DOMAIN chunks' = 1..Len(chunks) + 1
      BY <1>5, <1>8
    <3>2. Len(chunks) \in Nat
      BY <1>5
    <3> TAKE k \in DOMAIN chunks'
    <3>3. CASE k = Len(chunks) + 1
      BY <1>8, <2>2, <3>3
    <3>4. CASE k \in 1..Len(chunks)
      BY <1>8, <2>1, <3>1, <3>4
    <3> QED
      BY <3>1, <3>2, <3>3, <3>4
  <2> QED
    BY <1>4, <2>3 DEF ChunksFit, most
<1>10. SplitTypeOK'
  <2>1. open' \in BOOLEAN /\ word' \in 0..ChunkSize - 3
    <3>1. open \in BOOLEAN /\ word \in 0..ChunkSize - 3
      BY DEF SplitInv, SplitTypeOK
    <3>2. CASE CutAnswer
      <4>1. word' \in 0..ChunkSize - 3 /\ open' = Fences(Window(remaining)).open
        BY <3>2, AnswerIsCutWell
      <4>2. Fences(Window(remaining)).open \in BOOLEAN
        BY <1>5, <3>1, <3>2, FencesFacts DEF CutAnswer
      <4> QED
        BY <4>1, <4>2
    <3>3. CASE CutNotice \/ CutLast
      BY <3>1, <3>3 DEF CutNotice, CutLast
    <3> QED
      BY <3>2, <3>3 DEF SplitNext
  <2>2. splitter' \in {"answer", "notice", "none"} /\ text' \in Seq(Symbols)
    BY <1>4 DEF SplitInv, SplitTypeOK
  <2>3. Line' = Line
    BY <1>4 DEF Line
  <2>4. remaining' \in Line' /\ chunks' \in Seq(Line')
    BY <1>2, <1>8, <2>3
  <2> QED
    BY <2>1, <2>2, <2>4 DEF SplitTypeOK, Line
<1>11. Headed'
  <2>1. CASE CutAnswer
    BY <2>1, AnswerIsCutWell
  <2>2. CASE CutNotice
    BY <2>2 DEF CutNotice, SplitInv, Headed
  <2>3. CASE CutLast
    BY <2>3 DEF CutLast, SplitInv, Headed
  <2> QED
    BY <2>1, <2>2, <2>3 DEF SplitNext
<1> QED
  BY <1>7, <1>9, <1>10, <1>11 DEF SplitInv, SplitIsFaithful, NothingIsLost, InOrder, Whole

\* Every step makes progress, if ChunkSize is even.
LEMMA SplitProgresses ==
  ASSUME SplitInv, SplitNext, ChunkSize % 2 = 0
  PROVE  2 * Len(remaining') - PutBack' < 2 * Len(remaining) - PutBack
<1>1. remaining \in Line /\ Len(remaining) \in Nat
  <2>1. remaining \in Line
    BY DEF SplitInv, SplitTypeOK, Line
  <2> QED
    BY <2>1, LineFacts
<1>2. CASE CutAnswer
  BY <1>2, AnswerProgresses
<1>3. CASE CutNotice
  <2>1. Len(remaining') < Len(remaining)
    BY <1>3, NoticeIsCutWell
  <2>2. ~open /\ ~open'
    BY <1>3 DEF CutNotice, SplitInv, Headed
  <2>3. PutBack = 0 /\ PutBack' = 0
    BY <2>2 DEF PutBack
  <2>4. Len(remaining') \in Nat
    <3>1. \E m : CutWell(remaining, m, remaining')
      BY <1>3, NoticeIsCutWell
    <3>2. remaining' \in Line
      BY <3>1 DEF CutWell
    <3> QED
      BY <3>2, LineFacts
  <2> QED
    BY <1>1, <2>1, <2>3, <2>4
<1>4. CASE CutLast
  <2>1. remaining # <<>> /\ remaining' = <<>>
    BY <1>4 DEF CutLast
  <2>2. Len(remaining) > 0
    BY <1>1, <2>1 DEF Line
  <2>3. PutBack' = 0 /\ Len(remaining') = 0
    BY <2>1 DEF PutBack
  <2>4. word \in Nat
    BY Sizes DEF SplitInv, SplitTypeOK
  <2>5. PutBack \in Nat /\ PutBack <= Len(remaining)
    <3>1. CASE open
      BY <1>1, <2>1, <2>4, <3>1 DEF SplitInv, Headed, PutBack
    <3>2. CASE ~open
      BY <1>1, <3>2 DEF PutBack
    <3> QED
      BY <3>1, <3>2
  <2> HIDE DEF PutBack
  <2> QED
    BY <1>1, <2>2, <2>3, <2>5
<1> QED
  BY <1>2, <1>3, <1>4 DEF SplitNext

-----------------------------------------------------------------------------
(* The parts together. *)

\* What holds of the parts in every state.
PartsInv == part \in Moves /\ CollectorInv /\ AlertsInv /\ NoticesInv /\ SplitInv

\* Each part moves alone.
LEMMA PartsMove ==
  Next \/ UNCHANGED vars =>
    /\ CollectorNext \/ UNCHANGED collectorVars
    /\ AlertsNext \/ UNCHANGED alertVars
    /\ NoticesNext \/ UNCHANGED noticeVars
    /\ SplitNext \/ UNCHANGED splitVars
    /\ UNCHANGED part
BY DEF Next, vars

\* A splitter that does nothing keeps what it promises.
LEMMA SplitRests == SplitInv /\ UNCHANGED splitVars => SplitInv'
<1> SUFFICES ASSUME SplitInv, UNCHANGED splitVars PROVE SplitInv'
  OBVIOUS
<1>1. UNCHANGED splitter /\ UNCHANGED text /\ UNCHANGED remaining /\ UNCHANGED chunks
      /\ UNCHANGED open /\ UNCHANGED word
  BY DEF splitVars
<1>2. SplitTypeOK'
  BY <1>1 DEF SplitInv, SplitTypeOK
<1>3. Headed'
  BY <1>1 DEF SplitInv, Headed, Fence
<1>4. NothingIsLost'
  BY <1>1 DEF SplitInv, SplitIsFaithful, NothingIsLost
<1>5. ChunksFit'
  BY <1>1 DEF SplitInv, SplitIsFaithful, ChunksFit
<1> QED
  BY <1>2, <1>3, <1>4, <1>5 DEF SplitInv, SplitIsFaithful

\* The invariant of the parts holds in every state.
THEOREM PartsInvariance == Spec => []PartsInv
<1>1. Init => PartsInv
  <2>1. ASSUME Init PROVE SplitInv
    <3>1. {IF part \in {"answer", "notice"} THEN part ELSE "none"}
            \subseteq {"answer", "notice", "none"}
      OBVIOUS
    <3> QED
      BY <2>1, <3>1, SplitStarts DEF Init
  <2> QED
    BY <2>1, CollectorStarts, AlertsStart, NoticesStart DEF Init, PartsInv
<1>2. PartsInv /\ [Next]_vars => PartsInv'
  BY PartsMove, CollectorKeeps, AlertsKeep, NoticesKeep, SplitKeeps, SplitRests DEF PartsInv
<1> QED
  BY <1>1, <1>2, PTL DEF Spec

\* The parts keep their types: no list outgrows its limit, no job is at a place the
\* code does not have, and the word of a fence fits into a chunk behind it.
THEOREM PartsTypeCorrect == Spec => []PartsTypeOK
<1>1. PartsInv => PartsTypeOK
  BY DEF PartsInv, CollectorInv, AlertsInv, NoticesInv, SplitInv, PartsTypeOK
<1> QED
  BY <1>1, PartsInvariance, PTL

\* The rolling buffer is the latest samples, in the order of their taking, and no
\* stop, kill or failed sample costs one, unless the file could not be written.
THEOREM LatestSamples == Spec => []HistoryIsTheLatest
<1>1. PartsInv => HistoryIsTheLatest
  BY DEF PartsInv, CollectorInv, HistoryInv, HistoryIsTheLatest, Ordered, Latest
<1> QED
  BY <1>1, PartsInvariance, PTL

\* The alerts stand if and only if their windows say so, each change told once.
THEOREM TrueAlerts == Spec => []AlertsAreTrue
<1>1. PartsInv => AlertsAreTrue
  BY DEF PartsInv, AlertsInv
<1> QED
  BY <1>1, PartsInvariance, PTL

\* Within the window, repeats of a notice and only they are suppressed.
THEOREM ExactDedup == Spec => []DedupIsExact
<1>1. PartsInv => DedupIsExact
  BY DEF PartsInv, NoticesInv
<1> QED
  BY <1>1, PartsInvariance, PTL

\* What the queue brings to a chat arrives in order and each part once, whatever
\* fails, and spaced, but for what follows on a part of the same event of which the
\* sender does not know that it arrived.
THEOREM SpacedEvents == Spec => EventsAreSpaced
<1>1. PartsInv /\ [Next]_vars => [Spaces]_noticeVars
  BY PartsMove, NoticesKeep DEF PartsInv
<1> QED
  BY <1>1, PartsInvariance, PTL DEF Spec, EventsAreSpaced, Spaces

\* What is split is in the messages and in what remains, each character once and in
\* its order, a notice's blanks aside, and every message fits.
THEOREM FaithfulSplit == Spec => []SplitIsFaithful
<1>1. PartsInv => SplitIsFaithful
  BY DEF PartsInv, SplitInv
<1> QED
  BY <1>1, PartsInvariance, PTL

\* Whatever text is split, both loops end: if ChunkSize is even, as the 4000 of
\* constants.py:12 is, what remains counts less after every cut, twice its length
\* less the fence at its head.
THEOREM EveryCutProgresses ==
  ASSUME ChunkSize % 2 = 0
  PROVE  Spec => EveryCutIsProgress
<1>1. PartsInv /\ [Next]_vars =>
        [2 * Len(remaining') - PutBack' < 2 * Len(remaining) - PutBack]_splitVars
  BY PartsMove, SplitProgresses DEF PartsInv
<1> QED
  BY <1>1, PartsInvariance, PTL DEF Spec, EveryCutIsProgress
=============================================================================
