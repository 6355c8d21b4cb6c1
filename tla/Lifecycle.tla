----------------------------- MODULE Lifecycle ------------------------------
(***************************************************************************)
(* src/main.py and src/bot/core.py over the database: how a run of the     *)
(* program starts, serves updates, is told to stop, and ends.  main starts *)
(* storage, admin, bus, tunnel manager and collector in this order, leaves *)
(* polling to the task of RemoteBot.start, and on a signal or at the end   *)
(* of that task stops everything again; asyncio.run then cancels what is   *)
(* left, and the interpreter waits for the threads of the connections that *)
(* are still open.                                                         *)
(*                                                                         *)
(* Outside of the code, and modelled from how it is used: Telegram keeps   *)
(* an update until a later poll confirms it; systemd starts the program    *)
(* again after a failure only (Restart=on-failure, scripts/install.sh:88). *)
(***************************************************************************)
EXTENDS Database, Migrations

CONSTANTS
  Main,         \* the task of main()
  Admin, Other, \* the administrator, and somebody else
  Traffic,      \* the kinds of calls that the handlers make
  MaxStarts,    \* bound on the runs of the program
  MaxUpdates,   \* bound on the updates that are sent
  MaxEnds       \* bound on the starts that fail and the kills

ASSUME LifecycleAssumption ==
  /\ Main \in Tasks /\ Admin \in Users /\ Other \in Users /\ Traffic \subseteq Kinds
  /\ {MaxStarts, MaxUpdates, MaxEnds} \subseteq Nat

Handlers == Tasks \ {Main}
Updates == 1..MaxUpdates

VARIABLES
  main,      \* where main() is
  bot,       \* the task of RemoteBot.start
  running,   \* RemoteBot._running
  signalled, \* shutdown_event
  sent,      \* the number of updates sent so far
  kept,      \* the updates Telegram keeps
  offset,    \* the last update this run has fetched
  queue,     \* fetched, not yet with a handler
  handling,  \* the update each handler is at, or 0
  handled,   \* history: how often each update reached the handlers
  starts, ends, \* counters of the bounds
  code,      \* exit code of the last run, or "killed"
  cause      \* history: what may keep this run from being there

appVars == <<main, bot, running, signalled, sent, kept, offset, queue, handling, handled,
             starts, ends, code, cause>>
vars == <<poolVars, migVars, appVars>>

TypeOK ==
  /\ PoolTypeOK /\ MigTypeOK
  /\ main \in {"down", "migrating", "filling", "admin", "bootstrap", "parts", "bot",
               "waiting", "stop_parts", "close", "returned", "raised", "ending"}
  /\ bot \in {"none", "building", "polling", "closing", "ended", "failed"}
  /\ running \in BOOLEAN /\ signalled \in BOOLEAN
  /\ sent \in 0..MaxUpdates /\ kept \subseteq Updates /\ offset \in 0..MaxUpdates
  /\ queue \subseteq Updates
  /\ handling \in [Handlers -> 0..MaxUpdates] /\ handled \in [Updates -> 0..MaxStarts]
  /\ starts \in 0..MaxStarts /\ ends \in 0..MaxEnds
  /\ code \in {"ok", "error", "killed", "never"}
  /\ cause \subseteq {"signal", "bot", "start", "late"}

Init ==
  /\ InitPool /\ InitMig
  /\ main = "down" /\ bot = "none" /\ running = FALSE /\ signalled = FALSE
  /\ sent = 0 /\ kept = {} /\ offset = 0 /\ queue = {}
  /\ handling = [h \in Handlers |-> 0] /\ handled = [u \in Updates |-> 0]
  /\ starts = 0 /\ ends = 0 /\ code = "never" /\ cause = {}

Updating == <<sent, kept, offset, queue, handling, handled>>

-----------------------------------------------------------------------------
(* main(): the start. *)

\* The first start is the installation's; systemd makes those after a failure,
\* the operator the others.
Launch ==
  /\ main = "down"
  /\ starts < MaxStarts
  /\ starts' = starts + 1
  /\ main' = "migrating" /\ bot' = "none" /\ running' = FALSE /\ signalled' = FALSE
  /\ cause' = {}
  /\ UNCHANGED <<poolVars, migVars, Updating, ends, code>>

Migrating ==
  /\ main = "migrating"
  /\ Migrate
  /\ main' = CASE mig'.pc = "done" -> "filling" [] mig'.pc = "failed" -> "raised" [] OTHER -> main
  /\ UNCHANGED <<poolVars, bot, running, signalled, Updating, starts, ends, code, cause>>

Filling ==
  /\ main = "filling"
  /\ FillPool
  /\ main' = "admin"
  /\ UNCHANGED <<migVars, bot, running, signalled, Updating, starts, ends, code, cause>>

\* ensure_admin: is the owner's row there, and if not, write it.
AskForAdmin ==
  /\ main = "admin"
  /\ Borrow(Main, "select", Admin)
  /\ UNCHANGED <<migVars, appVars>>

CreateAdmin ==
  /\ main = "bootstrap"
  /\ Borrow(Main, "add", Admin)
  /\ UNCHANGED <<migVars, appVars>>

MainAtDatabase ==
  /\ Select(Main) \/ Write(Main) \/ LockedOut(Main) \/ Fault(Main) \/ Commit(Main)
  /\ UNCHANGED <<migVars, appVars>>

AdminAnswered ==
  /\ GiveBack(Main)
  /\ main' = CASE ~task[Main].ok -> "raised"
               [] task[Main].kind = "select" /\ ~HasUser(Admin, Seen(task[Main].conn)) -> "bootstrap"
               [] OTHER -> "parts"
  /\ cause' = IF task[Main].ok THEN cause ELSE cause \cup {"start"}
  /\ UNCHANGED <<migVars, bot, running, signalled, Updating, starts, ends, code>>

\* The tunnel manager and the collector; either may raise, and so far nothing
\* would be cleaned up.
StartParts ==
  /\ main = "parts"
  /\ main' = "bot"
  /\ UNCHANGED <<poolVars, migVars, bot, running, signalled, Updating, starts, ends, code, cause>>

StartRaises ==
  /\ main = "parts"
  /\ ends < MaxEnds /\ ends' = ends + 1
  /\ main' = "raised"
  /\ cause' = cause \cup {"start"}
  /\ UNCHANGED <<poolVars, migVars, bot, running, signalled, Updating, starts, code>>

SpawnBot ==
  /\ main = "bot"
  /\ main' = "waiting" /\ bot' = "building"
  /\ UNCHANGED <<poolVars, migVars, running, signalled, Updating, starts, ends, code, cause>>

-----------------------------------------------------------------------------
(* RemoteBot.start. *)

\* (mutant) start_polling without drop_pending_updates.
BuildKeepsPending ==
  /\ bot = "building"
  /\ bot' = "polling" /\ running' = TRUE /\ offset' = 0
  /\ UNCHANGED <<poolVars, migVars, main, signalled, sent, kept, queue, handling, handled,
                 starts, ends, code, cause>>

\* build() and start_polling.  _running is set after the awaits of build: a
\* stop() that came in between is forgotten.
BuildAndPoll ==
  /\ bot = "building"
  /\ bot' = "polling" /\ running' = TRUE
  /\ kept' = {} /\ offset' = sent   \* drop_pending_updates
  /\ UNCHANGED <<poolVars, migVars, main, signalled, sent, queue, handling, handled,
                 starts, ends, code, cause>>

\* No network, a wrong token: the task ends with an exception nobody looks at.
BuildFails ==
  /\ bot = "building"
  /\ ends < MaxEnds /\ ends' = ends + 1
  /\ bot' = "failed"
  /\ cause' = cause \cup {"bot"}
  /\ UNCHANGED <<poolVars, migVars, main, running, signalled, Updating, starts, code>>

\* A handler that waited for close() may still step once main() has returned.
Alive == main \notin {"down", "raised", "ending"}

\* The next poll confirms what the last one fetched.
Poll ==
  /\ Alive /\ bot = "polling"
  /\ \E u \in kept : u > offset
  /\ kept' = {u \in kept : u > offset}
  /\ queue' = queue \cup {u \in kept : u > offset}
  /\ offset' = sent
  /\ UNCHANGED <<poolVars, migVars, main, bot, running, signalled, sent, handling, handled,
                 starts, ends, code, cause>>

\* The loop of start() sees the flag and enters _shutdown.
SeeStop ==
  /\ bot = "polling" /\ ~running
  /\ bot' = "closing"
  /\ UNCHANGED <<poolVars, migVars, main, running, signalled, Updating, starts, ends, code, cause>>

\* _shutdown: a last poll confirms what was fetched, and everything fetched is
\* handled, unless the handlers were cancelled.
Shutdown ==
  /\ bot = "closing"
  /\ queue = {} /\ \A h \in Handlers : handling[h] = 0
  /\ bot' = "ended"
  /\ kept' = {u \in kept : u > offset}
  /\ UNCHANGED <<poolVars, migVars, main, running, signalled, sent, offset, queue, handling, handled,
                 starts, ends, code, cause>>

-----------------------------------------------------------------------------
(* Updates. *)

\* One sent while nobody polls is dropped by the next start.
Send ==
  /\ bot = "polling"
  /\ sent < MaxUpdates
  /\ sent' = sent + 1 /\ kept' = kept \cup {sent + 1}
  /\ UNCHANGED <<poolVars, migVars, main, bot, running, signalled, offset, queue, handling, handled,
                 starts, ends, code, cause>>

Handle(h) ==
  /\ Alive /\ bot \in {"polling", "closing"}
  /\ handling[h] = 0
  /\ \E u \in queue :
       /\ \A v \in queue : u <= v
       /\ queue' = queue \ {u}
       /\ handling' = [handling EXCEPT ![h] = u]
       /\ handled' = [handled EXCEPT ![u] = @ + 1]
  /\ UNCHANGED <<poolVars, migVars, main, bot, running, signalled, sent, kept, offset,
                 starts, ends, code, cause>>

HandlerCall(h) ==
  /\ Alive /\ handling[h] # 0
  /\ \E kind \in Traffic : Borrow(h, kind, Other)
  /\ cause' = IF main = "returned" THEN cause \cup {"late"} ELSE cause
  /\ UNCHANGED <<migVars, main, bot, running, signalled, Updating, starts, ends, code>>

HandlerAtDatabase(h) == Working(h) /\ UNCHANGED <<migVars, appVars>>

HandlerDone(h) ==
  /\ Alive /\ handling[h] # 0 /\ task[h].pc = "idle"
  /\ handling' = [handling EXCEPT ![h] = 0]
  /\ UNCHANGED <<poolVars, migVars, main, bot, running, signalled, sent, kept, offset, queue, handled,
                 starts, ends, code, cause>>

-----------------------------------------------------------------------------
(* main(): the end. *)

Signal ==
  /\ main \in {"waiting", "stop_parts"} /\ ~signalled
  /\ signalled' = TRUE
  /\ cause' = cause \cup {"signal"}
  /\ UNCHANGED <<poolVars, migVars, main, bot, running, Updating, starts, ends, code>>

\* (mutant) main() waits for the first task to be scheduled, not completed.
WakeEarly ==
  /\ main = "waiting"
  /\ running' = FALSE
  /\ main' = "stop_parts"
  /\ UNCHANGED <<poolVars, migVars, bot, signalled, Updating, starts, ends, code, cause>>

\* asyncio.wait returns; bot.stop() only lowers the flag.
Wake ==
  /\ main = "waiting"
  /\ signalled \/ bot \in {"ended", "failed"}
  /\ running' = FALSE
  /\ main' = "stop_parts"
  /\ UNCHANGED <<poolVars, migVars, bot, signalled, Updating, starts, ends, code, cause>>

\* The tunnel manager, then the collector and the bus.
StopParts ==
  /\ main = "stop_parts"
  /\ main' = "close"
  /\ UNCHANGED <<poolVars, migVars, bot, running, signalled, Updating, starts, ends, code, cause>>

\* (mutant) close() forgets the connections of the pool without closing them.
ForgetPool ==
  /\ main = "close"
  /\ pool' = <<>>
  /\ main' = "returned"
  /\ UNCHANGED <<disk, conn, task, calls, faults, acked, failed, migVars, bot, running, signalled,
                 Updating, starts, ends, code, cause>>

CloseStorage ==
  /\ main = "close"
  /\ ClosePool
  /\ main' = "returned"
  /\ cause' = IF \E h \in Handlers : task[h].pc # "idle" THEN cause \cup {"late"} ELSE cause
  /\ UNCHANGED <<migVars, bot, running, signalled, Updating, starts, ends, code>>

\* asyncio.run cancels the tasks that are left: a handler's call ends where it
\* is and gives its connection back, the bot's task leaves its sleep for
\* _shutdown, or ends in the middle of it.
Interrupt(t) ==
  IF task[t].pc \in {"borrowed", "written"}
  THEN [task[t] EXCEPT !.pc = "returning", !.ok = FALSE] ELSE task[t]

\* (mutant) the bot's task is left to see the flag that bot.stop() lowered.
CancelSparesBot ==
  /\ main \in {"returned", "raised"}
  /\ main' = "ending" /\ code' = IF main = "raised" THEN "error" ELSE "ok"
  /\ task' = [t \in Tasks |-> Interrupt(t)]
  /\ handling' = [h \in Handlers |-> 0] /\ queue' = {}
  /\ UNCHANGED <<disk, conn, pool, calls, faults, acked, failed, migVars, bot, running, signalled,
                 sent, kept, offset, handled, starts, ends, cause>>

CancelTasks ==
  /\ main \in {"returned", "raised"}
  /\ main' = "ending" /\ code' = IF main = "raised" THEN "error" ELSE "ok"
  /\ task' = [t \in Tasks |-> Interrupt(t)]
  /\ handling' = [h \in Handlers |-> 0] /\ queue' = {}
  /\ running' = FALSE
  /\ bot' = IF bot = "building" THEN "ended" ELSE bot
  /\ UNCHANGED <<disk, conn, pool, calls, faults, acked, failed, migVars, signalled, sent, kept,
                 offset, handled, starts, ends, cause>>

Open == {c \in Conns : conn[c].open}

Finished ==
  /\ main = "ending"
  /\ bot \in {"none", "ended", "failed"}
  /\ \A t \in Tasks : task[t].pc = "idle"

\* The interpreter joins the threads of the connections that are open.
Hung == Finished /\ Open # {}

Exit ==
  /\ Finished /\ Open = {}
  /\ main' = "down"
  /\ EndMigration
  /\ UNCHANGED <<poolVars, bot, running, signalled, Updating, starts, ends, code, cause>>

Kill ==
  /\ main # "down"
  /\ ends < MaxEnds /\ ends' = ends + 1
  /\ main' = "down" /\ bot' = "none" /\ running' = FALSE /\ code' = "killed"
  /\ LosePool /\ EndMigration
  /\ queue' = {} /\ handling' = [h \in Handlers |-> 0]
  /\ UNCHANGED <<signalled, sent, kept, offset, handled, starts, cause>>

-----------------------------------------------------------------------------
MainSteps ==
  \/ Migrating \/ Filling \/ AskForAdmin \/ CreateAdmin \/ MainAtDatabase \/ AdminAnswered
  \/ StartParts \/ SpawnBot \/ Wake \/ StopParts \/ CloseStorage \/ CancelTasks \/ Exit

BotSteps == BuildAndPoll \/ Poll \/ SeeStop \/ Shutdown

HandlerSteps(h) == Handle(h) \/ HandlerCall(h) \/ HandlerAtDatabase(h) \/ HandlerDone(h)

Next ==
  \/ Launch \/ StartRaises \/ BuildFails \/ Send \/ Signal \/ Kill
  \/ MainSteps \/ BotSteps
  \/ \E h \in Handlers : HandlerSteps(h)

\* The event loop runs what can run; the network, the operator and the users
\* owe nothing.
Spec ==
  /\ Init /\ [][Next]_vars
  /\ WF_vars(MainSteps) /\ WF_vars(SeeStop \/ Shutdown)
  /\ WF_vars(\E h \in Handlers : HandlerAtDatabase(h))

-----------------------------------------------------------------------------
(* Properties. *)

\* Updates are handled on a complete and recorded schema and with the owner's
\* row on disk, however the starts before were cut short.
ServesOnlyWhenReady ==
  (\E h \in Handlers : handling[h] # 0)
    => /\ schema = UNION {Objects(v) : v \in Versions} /\ versions = Versions
       /\ HasUser(Admin, disk)

\* An update whose handling a kill cut off is not handled again by the next
\* run: no invite, job or prompt is executed twice.
NeverHandledTwice == \A u \in Updates : handled[u] <= 1

\* A run that ended with exit code 0, so that systemd leaves it down, was told
\* to stop, or its bot task had failed.
EndsForAReason == main = "down" /\ code = "ok" => cause \cap {"signal", "bot"} # {}

\* A run that waits forever for an open connection failed between the filling
\* of the pool and the try of main(), or had a handler inside a repository when
\* the pool was closed.
HangsForAReason == Hung => cause \cap {"start", "late"} # {}

\* What keeps the program down, or from ending, is one of these.
StopsForAReason == EndsForAReason /\ HangsForAReason

\* Told to stop, the program ends, or waits for a connection.
StopsWhenTold == signalled ~> (main = "down" \/ Hung)
=============================================================================
