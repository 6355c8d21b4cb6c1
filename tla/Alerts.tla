------------------------------- MODULE Alerts -------------------------------
(***************************************************************************)
(* src/monitor/alerts.py: what the alert manager makes of one sample after *)
(* another and of the falls of the tunnel.  It is asked at any time: who   *)
(* asks is left open, as src/main.py leaves it.  Of a sample it sees which *)
(* levels are above their thresholds.  The bus has no bound, so publish    *)
(* never waits and a call is one step.                                     *)
(*                                                                         *)
(* Samples and falls are numbered as they come, so that its lists are sets *)
(* of their numbers.                                                       *)
(***************************************************************************)
EXTENDS Integers, FiniteSets, Sequences

CONSTANTS
  CpuWindow,      \* the 300 s of _check_cpu
  DropWindow,     \* the 600 s of check_tunnel_instability
  DropThreshold,  \* tunnel_drop_threshold
  LevelAlerts,    \* those with a plain threshold: "ram_high", "disk_high", ...
  MaxClock, MaxAsks  \* bounds on the clock, and on samples and falls together

ASSUME AlertsAssumption ==
  /\ {CpuWindow, DropWindow, DropThreshold} \subseteq Nat \ {0}
  /\ {MaxClock, MaxAsks} \subseteq Nat
  /\ LevelAlerts \cap {"cpu_high", "tunnel_instability"} = {}

VARIABLES
  clock,    \* time.monotonic()
  active,   \* _active
  seen,     \* all the CPU samples so far: [at, high]
  samples,  \* _cpu_samples: which of them it holds
  falls,    \* the times of all the falls so far
  drops,    \* _tunnel_drops: which of them it holds
  looked,   \* history: the last look at the falls: [at, falls], how many there were
  told      \* history: the last event of each alert, and how often in a row

alertVars == <<clock, active, samples, drops, seen, falls, looked, told>>

AlertTypes == LevelAlerts \cup {"cpu_high", "tunnel_instability"}
Looks == [at : Nat, high : BOOLEAN]

AlertsTypeOK ==
  /\ clock \in 0..MaxClock
  /\ active \subseteq AlertTypes
  /\ seen \in Seq(Looks) /\ samples \subseteq DOMAIN seen
  /\ falls \in Seq(Nat) /\ drops \subseteq DOMAIN falls
  /\ looked \in [at : Nat, falls : Nat]
  /\ told \in [AlertTypes -> [fired : BOOLEAN, row : Nat]]

AlertsInit ==
  /\ clock = 0 /\ active = {} /\ samples = {} /\ drops = {}
  /\ seen = <<>> /\ falls = <<>> /\ looked = [at |-> 0, falls |-> 0]
  /\ told = [a \in AlertTypes |-> [fired |-> FALSE, row |-> 1]]

\* The events of those alerts that changed.
Tell(fired, cleared) ==
  told' = [a \in AlertTypes |->
    IF a \in fired \cup cleared
    THEN [fired |-> a \in fired,
          row |-> IF told[a].fired = (a \in fired) THEN told[a].row + 1 ELSE 1]
    ELSE told[a]]

\* (mutant) a clearing does not reset the alert.
FireOrClearForgetful(checked, found) ==
  /\ active' = active \cup found
  /\ Tell(found \ active, (checked \ found) \cap active)

\* _fire and _clear, of the alerts that are checked.
FireOrClear(checked, found) ==
  /\ active' = (active \ checked) \cup found
  /\ Tell(found \ active, (checked \ found) \cap active)

\* (mutant) what is just too old counts as well.
RecentAndOne(numbers, all) == {k \in numbers : all[k].at >= clock - CpuWindow}

\* "Keep only last 5 minutes".
Recent(numbers, all) == {k \in numbers : all[k].at > clock - CpuWindow}

AllHigh(numbers, all) == \A k \in numbers : all[k].high

\* evaluate().  One sample in the window is enough for _check_cpu.
Evaluate(levels) ==
  LET look == [at |-> clock, high |-> "cpu_high" \in levels] IN
  /\ Len(seen) + Len(falls) < MaxAsks
  /\ seen' = Append(seen, look)
  /\ samples' = Recent(samples \cup {Len(seen')}, seen')
  /\ FireOrClear(LevelAlerts \cup {"cpu_high"},
       (levels \cap LevelAlerts) \cup (IF AllHigh(samples', seen') THEN {"cpu_high"} ELSE {}))
  /\ UNCHANGED <<clock, drops, falls, looked>>

RecordTunnelDrop ==
  /\ Len(seen) + Len(falls) < MaxAsks
  /\ falls' = Append(falls, clock)
  /\ drops' = drops \cup {Len(falls')}
  /\ UNCHANGED <<clock, active, samples, seen, looked, told>>

\* (mutant) the falls are never forgotten.
AllDrops == drops

RecentDrops == {k \in drops : falls[k] > clock - DropWindow}

CheckTunnelInstability ==
  /\ drops' = RecentDrops
  /\ looked' = [at |-> clock, falls |-> Len(falls)]
  /\ FireOrClear({"tunnel_instability"},
       IF Cardinality(drops') >= DropThreshold THEN {"tunnel_instability"} ELSE {})
  /\ UNCHANGED <<clock, samples, seen, falls>>

ClockTick ==
  /\ clock < MaxClock
  /\ clock' = clock + 1
  /\ UNCHANGED <<active, samples, drops, seen, falls, looked, told>>

AlertsNext ==
  \/ \E levels \in SUBSET (LevelAlerts \cup {"cpu_high"}) : Evaluate(levels)
  \/ RecordTunnelDrop \/ CheckTunnelInstability \/ ClockTick

AlertsSpec == AlertsInit /\ [][AlertsNext]_alertVars

-----------------------------------------------------------------------------

\* "CPU > 90% for the last 5 minutes (sustained high)" (alerts.py:4), "CPU has been
\* above 90% for 5+ minutes" (alerts.py:107): of the samples from five minutes
\* before the last one or earlier, some was high, and every one since.  The code
\* is content with what the window holds, be it a single sample.
CpuAlertIsSustained ==
  "cpu_high" \in active =>
    \E k \in DOMAIN seen :
      /\ seen[k].at <= seen[Len(seen)].at - CpuWindow
      /\ AllHigh(k..Len(seen), seen)

\* "Alert only if ALL samples in the window exceed the threshold"
\* (alerts.py:95): the CPU alert stands if and only if no sample of the five
\* minutes before the last one, the pruned ones included, was below.
CpuAlertIsTheWindow ==
  seen # <<>> =>
    LET last == seen[Len(seen)]
    IN  ("cpu_high" \in active) <=>
          AllHigh({k \in DOMAIN seen : seen[k].at > last.at - CpuWindow}, seen)

\* "Tunnel dropped n times in the last 10 minutes" (alerts.py:81): the alert
\* stands if and only if that many of the falls known at the last look, those
\* pruned before included, came in the ten minutes before it.
InstabilityIsRecent ==
  ("tunnel_instability" \in active) <=>
    Cardinality({k \in 1..looked.falls : falls[k] > looked.at - DropWindow}) >= DropThreshold

\* "one-shot alert events" (alerts.py:30): the events of an alert take turns,
\* and the last one tells whether it stands.
OneShot == \A a \in AlertTypes : told[a].row = 1 /\ (told[a].fired <=> a \in active)

\* What stands is what the windows hold, and each change of it is told once.
AlertsAreTrue == CpuAlertIsTheWindow /\ InstabilityIsRecent /\ OneShot
=============================================================================
