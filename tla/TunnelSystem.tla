---------------------------- MODULE TunnelSystem ----------------------------
(***************************************************************************)
(* The tunnel as main.py wires it: the manager publishes on the bus, the   *)
(* bus hands each event to the notifier, and shutdown stops the manager    *)
(* before the bus.                                                         *)
(***************************************************************************)
EXTENDS TunnelManager

CONSTANTS StateWindow, ExhaustedWindow, StartTime, MaxTime

ASSUME WindowsAssumption ==
  {StateWindow, ExhaustedWindow, StartTime, MaxTime} \subseteq Nat

VARIABLES busUp, taken, sending, sentAt, now, told, attempted, silenced

N == INSTANCE TunnelNotifier

notifierVars == <<busUp, taken, sending, sentAt, now, told, attempted, silenced>>
sysVars == <<tunnelVars, notifierVars>>

SysInit == Init /\ N!InitNotifier

\* A crash takes the whole program: the next incarnation has a new notifier.
SysCrash ==
  /\ Crash \/ Exit
  /\ busUp' = TRUE
  /\ taken' = 0
  /\ sending' = {}
  /\ sentAt' = [key \in N!Keys |-> 0]
  /\ told' = None
  /\ attempted' = {}
  /\ silenced' = FALSE
  /\ UNCHANGED now

ManagerStep ==
  /\ Start \/ PollUp \/ TunnelDown \/ BackoffDone \/ Stop \/ Ngrok
  /\ UNCHANGED notifierVars

NotifierStep ==
  /\ pc # "off"
  /\ N!Notifier
  /\ UNCHANGED <<pc, status, url, retries, proc, saved, osVars, starts>>

\* main.py stops the bus after the manager, whatever is still queued.
ShutdownStep ==
  /\ pc = "stopped"
  /\ N!StopBus
  /\ UNCHANGED <<pc, status, url, retries, proc, saved, osVars, starts>>

SysNext == SysCrash \/ ManagerStep \/ NotifierStep \/ ShutdownStep

SysSpec == SysInit /\ [][SysNext]_sysVars

\* The event loop polls and wakes from the backoff; the bus takes events, and
\* Telegram and the humanizer answer or fail.
SysFairness ==
  /\ WF_sysVars(ManagerStep /\ (PollUp \/ TunnelDown))
  /\ WF_sysVars(ManagerStep /\ BackoffDone)
  /\ WF_sysVars(NotifierStep /\ taken' # taken)
  /\ WF_sysVars(NotifierStep /\ sending' # sending)

SysFairSpec == SysSpec /\ SysFairness

-----------------------------------------------------------------------------
(* Properties. *)

\* The admin is told things in the order in which they happened.
ToldInOrder ==
  [][told # None /\ told' # None => told.number <= told'.number]_sysVars

\* Whoever follows the events arrives at the state the manager holds; and when
\* all is dispatched and no news was suppressed or lost on the way, what the admin
\* was last told of a running tunnel is its state.
AllTold == busUp /\ queue = <<>> /\ sending = {} /\ ~silenced

AdminIsUpToDate ==
  /\ EventsTellTheState
  /\ AllTold /\ pc \in {"polling", "backoff"} /\ told # None
       => (told.event.type = "change" /\ status \in {"up", "down"} => told.event.new = status)

\* "Same (from_state, to_state) pair suppressed for 5 minutes.  Retry-exhausted
\* messages suppressed for 1 hour" (notifier.py:8-9): news that is suppressed is
\* the same as this program tried to send within the window, or the host has been
\* up for less than the window: 0.0, for "never", then counts as recent.
OnlyRepeatsAreSuppressed ==
  [][LET key == N!KeyOf(Head(queue)) IN
     N!Suppress /\ N!Interesting(Head(queue))
       => \/ \E a \in attempted : a.key = key /\ now - a.at < N!WindowOf(key)
          \/ now < N!WindowOf(key)]_sysVars

\* Every event is taken off the queue in its turn unless the program stops,
\* however often sends fail.
EventsAreTaken == queue # <<>> ~> queue = <<>> \/ pc \in {"off", "stopped"}

\* A tunnel that stays is noticed and its news reach the notifier.
NewsGetsThrough == ServedIsNoticed /\ EventsAreTaken
=============================================================================
