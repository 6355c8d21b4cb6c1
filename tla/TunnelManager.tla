---------------------------- MODULE TunnelManager ---------------------------
(***************************************************************************)
(* src/tunnel/manager.py: the ngrok process the bot owns, the poll of      *)
(* ngrok's local API, the restart after a fall, and the state it publishes *)
(* on the event bus and keeps in data/tunnel.json.                         *)
(*                                                                         *)
(* Everything between two awaits is one action.  The awaits that matter    *)
(* are the sleep between polls and the backoff before a restart: stop()    *)
(* and a crash can come in either.                                         *)
(*                                                                         *)
(* A process is a number: 0 is an ngrok somebody else runs (PM2), 1, 2 ... *)
(* are those the bot spawned.  Whichever runs answers on localhost:4040.   *)
(***************************************************************************)
EXTENDS Naturals, Sequences

CONSTANTS
  Urls,        \* the public URLs ngrok may hand out
  None,
  FirstRetries,  \* max_retries as the first incarnation reads it from the settings
  MaxRetries,  \* max_retries as the later ones do
  MaxSpawns,   \* bound on the processes the bot spawns
  MaxFaults,   \* bound on what happens to ngrok
  MaxStarts    \* bound on the incarnations of the bot

ASSUME NoneAssumption == None \notin Urls \cup Nat
ASSUME TunnelBoundsAssumption == 
  {FirstRetries, MaxRetries, MaxSpawns, MaxFaults, MaxStarts} \subseteq Nat

Foreign == 0
Spawned == 1..MaxSpawns

VARIABLES
  pc,       \* "off", "polling", "backoff", or "stopped"
  status,   \* TunnelState.status
  url,      \* TunnelState.url
  retries,  \* TunnelState.retry_count
  proc,     \* self._process: a number, or None
  saved,    \* data/tunnel.json: [url, retries], or None if absent or torn
  queue,    \* the event bus: events not yet dispatched
  live,     \* OS: the ngrok processes that run
  mine,     \* OS: the processes this incarnation of the bot spawned
  served,   \* OS: the tunnel the local API reports, or None
  spawns, faults, starts  \* counters of the bounds

stateVars == <<status, url, retries, saved, queue>>
osVars == <<live, mine, served, spawns, faults>>
tunnelVars == <<pc, status, url, retries, proc, saved, queue, live, mine, served,
                spawns, faults, starts>>

Statuses == {"stopped", "up", "down", "error"}

StateChange(old, new, u) == [type |-> "change", old |-> old, new |-> new, url |-> u]
RetryExhausted == [type |-> "exhausted", old |-> None, new |-> None, url |-> None]
Events ==
  [type : {"change", "exhausted"}, old : Statuses \cup {None},
   new : Statuses \cup {None}, url : Urls \cup {None}]

TypeOK ==
  /\ pc \in {"off", "polling", "backoff", "stopped"}
  /\ status \in Statuses
  /\ url \in Urls \cup {None}
  /\ retries \in Nat
  /\ proc \in Spawned \cup {None}
  /\ saved \in [url : Urls \cup {None}, retries : Nat] \cup {None}
  /\ queue \in Seq(Events)
  /\ live \subseteq Spawned \cup {Foreign}
  /\ mine \subseteq Spawned
  /\ served \in Urls \cup {None}
  /\ spawns \in 0..MaxSpawns /\ faults \in 0..MaxFaults /\ starts \in 0..MaxStarts

Init ==
  /\ pc = "off"
  /\ status = "stopped" /\ url = None /\ retries = 0
  /\ proc = None
  /\ saved = None
  /\ queue = <<>>
  /\ live \in SUBSET {Foreign}
  /\ mine = {}
  /\ served \in IF live = {} THEN {None} ELSE Urls \cup {None}
  /\ spawns = 0 /\ faults = 0 /\ starts = 0

-----------------------------------------------------------------------------
(* What the steps are made of.  Each is given the state it starts from. *)

\* (mutant) a new URL under an old status is kept but not published.
SetStateSilent(old, oldUrl, count, new, u, events) ==
  /\ status' = new
  /\ url' = u
  /\ IF old = new
     THEN /\ queue' = queue \o events
          /\ UNCHANGED saved
     ELSE /\ saved' = [url |-> u, retries |-> count]
          /\ queue' = queue \o <<StateChange(old, new, u)>> \o events

\* _set_state: the file is written before retry_count is brought up to date
\* by the caller, so it keeps the old one.  events follow the state change.
SetState(old, oldUrl, count, new, u, events) ==
  /\ status' = new
  /\ url' = u
  /\ IF old = new /\ oldUrl = u
     THEN /\ queue' = queue \o events
          /\ UNCHANGED saved
     ELSE /\ saved' = [url |-> u, retries |-> count]
          /\ queue' = queue \o <<StateChange(old, new, u)>> \o events

\* (mutant) the old process is left running.
OwnLeft == live

\* _terminate_ngrok, which waits for the process to be gone.
OwnTerminated == IF proc = None THEN live ELSE live \ {proc}

\* When processes are all that is left of ngrok its tunnel may be gone, and is
\* if there are none.
Left(processes) ==
  /\ live' = processes
  /\ served' \in {None} \cup IF processes = {} THEN {} ELSE {served}

\* _spawn_ngrok from the state (old, oldUrl, count): an ngrok that already
\* answers is left to its owner, and the binary may be missing.
SpawnNgrok(old, oldUrl, count) ==
  \/ /\ live # {}
     /\ proc' = None
     /\ status' = old /\ url' = oldUrl
     /\ UNCHANGED <<saved, queue, live, mine, spawns>>
  \/ /\ live = {}
     /\ spawns < MaxSpawns
     /\ spawns' = spawns + 1
     /\ proc' = spawns'
     /\ live' = {spawns'}
     /\ mine' = mine \cup {spawns'}
     /\ status' = old /\ url' = oldUrl
     /\ UNCHANGED <<saved, queue>>
  \/ /\ live = {}
     /\ SetState(old, oldUrl, count, "error", None, <<>>)
     /\ UNCHANGED <<proc, live, mine, spawns>>

-----------------------------------------------------------------------------
\* start(): the saved url and retry count come back, the status does not.
Start ==
  /\ pc = "off"
  /\ starts < MaxStarts
  /\ starts' = starts + 1
  /\ LET state == IF saved = None THEN [url |-> None, retries |-> 0] ELSE saved
     IN  /\ retries' = state.retries
         /\ SpawnNgrok("stopped", state.url, state.retries)
  /\ pc' = "polling"
  /\ UNCHANGED <<served, faults>>

\* (mutant) a new URL of a tunnel that is up already goes unnoticed.
PollUpOnce ==
  /\ pc = "polling"
  /\ live # {} /\ served # None
  /\ status # "up"
  /\ SetState(status, url, retries, "up", served, <<>>)
  /\ retries' = 0
  /\ UNCHANGED <<pc, proc, osVars, starts>>

\* The API reports a TCP tunnel that is news.
PollUp ==
  /\ pc = "polling"
  /\ live # {} /\ served # None
  /\ status # "up" \/ url # served
  /\ SetState(status, url, retries, "up", served, <<>>)
  /\ retries' = 0
  /\ UNCHANGED <<pc, proc, osVars, starts>>

\* The settings may be another between two incarnations of the bot.
RetryLimit == IF starts <= 1 THEN FirstRetries ELSE MaxRetries

\* _handle_tunnel_down, up to the backoff: the API fails or reports no tunnel,
\* and only if the tunnel was up.  The API may also fail to answer within five
\* seconds although ngrok is well; MaxFaults bounds that.
TunnelDown ==
  /\ pc = "polling"
  /\ status = "up"
  /\ \/ (live = {} \/ served = None) /\ UNCHANGED faults
     \/ faults < MaxFaults /\ faults' = faults + 1
  /\ IF retries >= RetryLimit
     THEN /\ SetState("up", url, retries, "down", None, <<RetryExhausted>>)
          /\ UNCHANGED <<pc, retries, proc, live, served>>
     ELSE /\ SetState("up", url, retries, "down", None, <<>>)
          /\ retries' = retries + 1
          /\ Left(OwnTerminated)
          /\ proc' = None
          /\ pc' = "backoff"
  /\ UNCHANGED <<mine, spawns, starts>>

BackoffDone ==
  /\ pc = "backoff"
  /\ pc' = "polling"
  /\ SpawnNgrok(status, url, retries)
  /\ UNCHANGED <<retries, served, faults, starts>>

\* stop(): the poll task is cancelled where it sleeps, then ngrok is ended.
Stop ==
  /\ pc \in {"polling", "backoff"}
  /\ pc' = "stopped"
  /\ Left(OwnTerminated)
  /\ proc' = None
  /\ UNCHANGED <<stateVars, mine, spawns, faults, starts>>

\* What was in memory is gone, events that wait included.
Forget ==
  /\ pc' = "off"
  /\ status' = "stopped" /\ url' = None /\ retries' = 0
  /\ proc' = None
  /\ queue' = <<>>
  /\ mine' = {}
  /\ UNCHANGED <<spawns, faults, starts>>

\* The program ends after stop().
Exit ==
  /\ pc = "stopped"
  /\ Forget
  /\ UNCHANGED <<saved, live, served>>

\* The bot is killed.  Its ngrok may be killed with it or become somebody
\* else's, and the state file may be torn.
Crash ==
  /\ pc \in {"polling", "backoff"}
  /\ Forget
  /\ \E processes \in {live, OwnTerminated} : Left(processes)
  /\ saved' \in {saved, None}

-----------------------------------------------------------------------------
(* ngrok. *)

Serve ==
  /\ live # {}
  /\ served = None
  /\ served' \in Urls
  /\ UNCHANGED <<pc, stateVars, proc, live, mine, spawns, faults, starts>>

\* It reconnects between two polls and gets another URL.
ChangeUrl ==
  /\ faults < MaxFaults
  /\ faults' = faults + 1
  /\ served # None
  /\ served' \in Urls \ {served}
  /\ UNCHANGED <<pc, stateVars, proc, live, mine, spawns, starts>>

\* It loses its tunnel but goes on running.
LoseTunnel ==
  /\ faults < MaxFaults
  /\ faults' = faults + 1
  /\ served # None
  /\ served' = None
  /\ UNCHANGED <<pc, stateVars, proc, live, mine, spawns, starts>>

Die ==
  /\ faults < MaxFaults
  /\ faults' = faults + 1
  /\ \E p \in live : Left(live \ {p})
  /\ UNCHANGED <<pc, stateVars, proc, mine, spawns, starts>>

\* PM2 starts the other ngrok.
ForeignStarts ==
  /\ faults < MaxFaults
  /\ faults' = faults + 1
  /\ Foreign \notin live
  /\ live' = live \cup {Foreign}
  /\ UNCHANGED <<pc, stateVars, proc, mine, served, spawns, starts>>

Ngrok == Serve \/ ChangeUrl \/ LoseTunnel \/ Die \/ ForeignStarts

Manager == Start \/ PollUp \/ TunnelDown \/ BackoffDone \/ Stop \/ Exit \/ Crash

Next == Manager \/ Ngrok

Spec == Init /\ [][Next]_tunnelVars

\* The event loop polls, and wakes from the backoff.  ngrok owes nothing.
Fairness == WF_tunnelVars(PollUp \/ TunnelDown) /\ WF_tunnelVars(BackoffDone)

FairSpec == Spec /\ Fairness

-----------------------------------------------------------------------------
(* Properties. *)

\* The bot knows the ngrok it started: whenever stop() comes, in a backoff or
\* between polls, none of its own is left running, and a restart never leaves
\* the one before it behind.
OwnNgrokIsKnown ==
  /\ live \cap mine \subseteq {proc}
  /\ pc \in {"backoff", "stopped"} => live \cap mine = {}

\* The events that wait and tell of a change, by their place in the queue.
Changes == {i \in DOMAIN queue : queue[i].type = "change"}

\* The events published add up to the state: each starts from the status the
\* one before it led to, and the last leads to the present status and URL.
EventsTellTheState ==
  /\ \A i, j \in Changes :
       i < j /\ (\A k \in Changes : k <= i \/ j <= k) => queue[j].old = queue[i].new
  /\ \A i \in Changes :
       (\A k \in Changes : k <= i) => queue[i].new = status /\ queue[i].url = url

\* A tunnel that stays is found, with its latest URL, and kept.
ServedIsNoticed ==
  \A u \in Urls :
    <>[](pc \in {"polling", "backoff"} /\ live # {} /\ served = u)
      => <>[](status = "up" /\ url = u)

\* "Auto-restart on failure: max_retries attempts with exponential backoff"
\* (manager.py:7): a tunnel that went down comes up again, or ngrok cannot be
\* started at all, or the retries are used up, or the bot stops.
RetriesUntilUpOrExhausted ==
  status = "down" ~>
    status \in {"up", "error"} \/ retries >= RetryLimit \/ pc \in {"off", "stopped"}
=============================================================================
