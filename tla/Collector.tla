----------------------------- MODULE Collector -----------------------------
(***************************************************************************)
(* src/monitor/collector.py: the loop that takes a sample a minute, keeps  *)
(* the last day of them and overwrites a file with them each time.  A      *)
(* sample is the number of its taking.  The process may stop or be killed  *)
(* and be started again.                                                   *)
(***************************************************************************)
EXTENDS Integers, Sequences

CONSTANTS
  MaxHistory,  \* _MAX_HISTORY
  MaxSamples, MaxStarts, MaxBadSaves  \* bounds on samples, runs, failed writes

ASSUME CollectorAssumption ==
  MaxHistory \in Nat \ {0} /\ {MaxSamples, MaxStarts, MaxBadSaves} \subseteq Nat

VARIABLES
  loop,      \* _collect_loop: "down", "sampling" or "sleeping"
  history,   \* _history
  file,      \* _history_file: <<"list", what it holds>>, <<"absent">> or <<"torn">>
  taken,     \* how many samples were taken
  starts,    \* counter of the bound
  badSaves   \* counter of the bound

collectorVars == <<loop, history, file, taken, starts, badSaves>>

CollectorTypeOK ==
  /\ loop \in {"down", "sampling", "sleeping"}
  /\ history \in Seq(1..MaxSamples) /\ Len(history) <= MaxHistory
  /\ file \in {<<"absent">>, <<"torn">>} \cup ({"list"} \X Seq(1..MaxSamples))
  /\ taken \in 0..MaxSamples /\ starts \in 0..MaxStarts /\ badSaves \in 0..MaxBadSaves

CollectorInit ==
  /\ loop = "down" /\ history = <<>> /\ file = <<"absent">>
  /\ taken = 0 /\ starts = 0 /\ badSaves = 0

\* (mutant) the head of the list is kept.
FirstOnes(h) == SubSeq(h, 1, IF Len(h) < MaxHistory THEN Len(h) ELSE MaxHistory)

\* (mutant) the list has no limit.
AllOfThem(h) == h

\* [-_MAX_HISTORY:]
LastOnes(h) == SubSeq(h, IF Len(h) > MaxHistory THEN Len(h) - MaxHistory + 1 ELSE 1, Len(h))

\* start(): what is no JSON list is left aside.
StartCollector ==
  /\ loop = "down"
  /\ starts < MaxStarts
  /\ starts' = starts + 1
  /\ loop' = "sampling"
  /\ history' = IF file[1] = "list" THEN LastOnes(file[2]) ELSE <<>>
  /\ UNCHANGED <<file, taken, badSaves>>

\* _save_history overwrites the file in place; an OSError is logged, whether it
\* comes from open() or in the writing.
SaveHistory(h) ==
  \/ file' = <<"list", h>> /\ UNCHANGED badSaves
  \/ /\ badSaves < MaxBadSaves
     /\ badSaves' = badSaves + 1
     /\ file' \in {file, <<"torn">>}

\* collect_once, from when _sample has its values: nothing is awaited any more.
CollectOnce ==
  /\ loop = "sampling"
  /\ taken < MaxSamples
  /\ taken' = taken + 1
  /\ history' = LastOnes(Append(history, taken'))
  /\ SaveHistory(history')
  /\ loop' = "sleeping"
  /\ UNCHANGED starts

\* _sample raises; the loop goes on.
SampleFails ==
  /\ loop = "sampling"
  /\ loop' = "sleeping"
  /\ UNCHANGED <<history, file, taken, starts, badSaves>>

NextSample ==
  /\ loop = "sleeping"
  /\ loop' = "sampling"
  /\ UNCHANGED <<history, file, taken, starts, badSaves>>

\* stop() or a kill: the sample being taken is lost.
StopCollector ==
  /\ loop # "down"
  /\ loop' = "down"
  /\ history' = <<>>
  /\ UNCHANGED <<file, taken, starts, badSaves>>

\* A kill in the middle of the writing.
KilledInSave ==
  /\ loop = "sampling"
  /\ badSaves < MaxBadSaves
  /\ badSaves' = badSaves + 1
  /\ file' = <<"torn">>
  /\ loop' = "down"
  /\ history' = <<>>
  /\ UNCHANGED <<taken, starts>>

CollectorNext ==
  \/ StartCollector \/ CollectOnce \/ SampleFails \/ NextSample
  \/ StopCollector \/ KilledInSave

-----------------------------------------------------------------------------

\* "maintain a rolling 24h buffer" (collector.py:60): it is the latest samples,
\* in the order of their taking, and no stop, kill or failed sample costs one
\* of those taken before, unless the file could not be written.
HistoryIsTheLatest ==
  /\ \A j, k \in DOMAIN history : j < k => history[j] < history[k]
  /\ loop # "down" /\ badSaves = 0 =>
       /\ Len(history) = IF taken < MaxHistory THEN taken ELSE MaxHistory
       /\ \A k \in DOMAIN history : history[k] = taken - Len(history) + k
=============================================================================
