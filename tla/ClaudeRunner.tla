---------------------------- MODULE ClaudeRunner ----------------------------
(***************************************************************************)
(* src/claude/sdk_integration.py: one shared ClaudeSDKRunner, its module   *)
(* level semaphore, and the process group of every CLI it launches.        *)
(*                                                                         *)
(* A call of run() waits for the semaphore, launches the CLI in a session  *)
(* (and so a process group) of its own, and waits for its output under a   *)
(* timeout.  "No conversation found" makes it launch a second CLI, without *)
(* --resume, under the SAME timeout and the same holder.  A timeout kills  *)
(* the group named by the holder, politely and then not.  Shutdown cancels *)
(* whatever is awaiting.                                                   *)
(*                                                                         *)
(* A group is <<call, attempt>>.  Its leader is the CLI; its helpers are   *)
(* the MCP servers the CLI starts, which may or may not keep the CLI's     *)
(* stdout open.  The operating system and asyncio are outside src/ and     *)
(* modelled from how the runner uses them.                                 *)
(***************************************************************************)
EXTENDS Naturals, Sequences, FiniteSets

CONSTANTS
  Calls,  \* the calls of run() that may be made
  Limit,  \* _CONCURRENT_LIMIT
  NoProc  \* the holder's None

ASSUME LimitAssumption == Limit \in Nat \ {0}
ASSUME CallsAssumption == IsFiniteSet(Calls)

Attempts == 1..2
Groups == Calls \X Attempts

ASSUME NoProcAssumption == NoProc \notin Groups

VARIABLES
  pc,        \* where each call is in run()
  resume,    \* is a session id passed to the call's current attempt?
  attempt,   \* how many CLIs the call has launched
  holder,    \* holder["proc"] of each call: a group, or NoProc
  waitq,     \* calls waiting for the semaphore, first come first
  free,      \* the semaphore's value
  up,        \* FALSE once the event loop has cancelled its tasks
  leader,    \* OS: the CLI of each group
  helpers,   \* OS: the children of the CLI that are alive in each group
  signalled  \* OS: the groups that were sent a signal

callVars == <<pc, resume, attempt, holder>>
semVars == <<waitq, free, up>>
osVars == <<leader, helpers, signalled>>
vars == <<pc, resume, attempt, holder, waitq, free, up, leader, helpers, signalled>>

\* launch: inside create_subprocess_exec; output: in communicate();
\* kill, grace, reap: in _kill_process, before any signal, in the five
\* seconds after SIGTERM, and after SIGKILL.
Awaiting == {"launch", "output", "kill", "grace", "reap"}
Finished == {"ok", "error", "timeout"}
PCs == {"idle", "queued", "cancelled"} \cup Awaiting \cup Finished

\* A process that has exited stays a zombie until the event loop collects
\* it; from then on returncode is set.
LeaderStates == {"none", "running", "zombie", "collected"}
\* holding: a helper that inherited the CLI's stdout and keeps it open.
HelperStates == {"none", "detached", "holding"}

InSlot == {c \in Calls : pc[c] \in Awaiting}
Current(c) == <<c, attempt[c]>>

TypeOK ==
  /\ pc \in [Calls -> PCs]
  /\ resume \in [Calls -> BOOLEAN]
  /\ attempt \in [Calls -> 0..2]
  /\ holder \in [Calls -> Groups \cup {NoProc}]
  /\ waitq \in Seq(Calls)
  /\ free \in 0..Limit
  /\ up \in BOOLEAN
  /\ leader \in [Groups -> LeaderStates]
  /\ helpers \in [Groups -> HelperStates]
  /\ signalled \in SUBSET Groups

Init ==
  /\ pc = [c \in Calls |-> "idle"]
  /\ resume = [c \in Calls |-> FALSE]
  /\ attempt = [c \in Calls |-> 0]
  /\ holder = [c \in Calls |-> NoProc]
  /\ waitq = <<>>
  /\ free = Limit
  /\ up = TRUE
  /\ leader = [g \in Groups |-> "none"]
  /\ helpers = [g \in Groups |-> "none"]
  /\ signalled = {}

-----------------------------------------------------------------------------
(* Entering and leaving the semaphore. *)

\* run(): the facade passes a session id only for a conversation Claude
\* already started.  The call then waits at "async with _semaphore".
Invoke(c) ==
  /\ up
  /\ pc[c] = "idle"
  /\ \E s \in BOOLEAN : resume' = [resume EXCEPT ![c] = s]
  /\ pc' = [pc EXCEPT ![c] = "queued"]
  /\ waitq' = Append(waitq, c)
  /\ UNCHANGED <<attempt, holder, free, up, osVars>>

\* Leaving "async with _semaphore", whatever the reason, returns the slot.
Finish(c, result) ==
  /\ pc' = [pc EXCEPT ![c] = result]
  /\ free' = free + 1

\* The fork of create_subprocess_exec: a new group with only its leader.
Fork(c) ==
  /\ attempt' = [attempt EXCEPT ![c] = @ + 1]
  /\ leader' = [leader EXCEPT ![<<c, attempt[c] + 1>>] = "running"]
  /\ pc' = [pc EXCEPT ![c] = "launch"]

\* (mutant) the newest waiter is served first.
AcquireNewest(c) ==
  /\ waitq # <<>>
  /\ c = waitq[Len(waitq)]
  /\ free > 0
  /\ waitq' = SubSeq(waitq, 1, Len(waitq) - 1)
  /\ free' = free - 1
  /\ Fork(c)
  /\ UNCHANGED <<resume, holder, up, helpers, signalled>>

\* The first launch: the head of the line takes a slot and the timer starts.
Acquire(c) ==
  /\ waitq # <<>>
  /\ c = Head(waitq)
  /\ free > 0
  /\ waitq' = Tail(waitq)
  /\ free' = free - 1
  /\ Fork(c)
  /\ UNCHANGED <<resume, holder, up, helpers, signalled>>

\* Same, but there is no CLI to launch: the slot is taken and given back
\* with no await in between.
AcquireNoCli(c) ==
  /\ waitq # <<>>
  /\ c = Head(waitq)
  /\ free > 0
  /\ waitq' = Tail(waitq)
  /\ pc' = [pc EXCEPT ![c] = "error"]
  /\ UNCHANGED <<resume, attempt, holder, free, up, osVars>>

\* (mutant) one handle for the shared runner instead of one per call.
LaunchedShared(c) ==
  /\ pc[c] = "launch"
  /\ holder' = [x \in Calls |-> Current(c)]
  /\ pc' = [pc EXCEPT ![c] = "output"]
  /\ UNCHANGED <<resume, attempt, semVars, osVars>>

\* create_subprocess_exec returned: the handle is put in the holder.
Launched(c) ==
  /\ pc[c] = "launch"
  /\ holder' = [holder EXCEPT ![c] = Current(c)]
  /\ pc' = [pc EXCEPT ![c] = "output"]
  /\ UNCHANGED <<resume, attempt, semVars, osVars>>

\* communicate() returns at the end of stdout and once the CLI is collected.
OutputComplete(c) ==
  /\ pc[c] = "output"
  /\ leader[Current(c)] = "collected"
  /\ helpers[Current(c)] # "holding"

\* The CLI answered, or failed for any reason but a stale session.
Return(c) ==
  /\ OutputComplete(c)
  /\ \E result \in {"ok", "error"} : Finish(c, result)
  /\ UNCHANGED <<resume, attempt, holder, waitq, up, osVars>>

\* "no conversation found" for a --resume: once more, without it.
RetryWithoutResume(c) ==
  /\ OutputComplete(c)
  /\ resume[c]
  /\ resume' = [resume EXCEPT ![c] = FALSE]
  /\ Fork(c)
  /\ UNCHANGED <<holder, semVars, helpers, signalled>>

-----------------------------------------------------------------------------
(* The timeout and _kill_process. *)

\* (mutant) the slot is released before the kill.
TimeoutOutputEarlyRelease(c) ==
  /\ pc[c] = "output"
  /\ pc' = [pc EXCEPT ![c] = "kill"]
  /\ free' = free + 1
  /\ UNCHANGED <<resume, attempt, holder, waitq, up, osVars>>

\* The timer fires inside communicate().
TimeoutOutput(c) ==
  /\ pc[c] = "output"
  /\ pc' = [pc EXCEPT ![c] = "kill"]
  /\ UNCHANGED <<resume, attempt, holder, semVars, osVars>>

\* The timer fires inside create_subprocess_exec: asyncio itself kills and
\* collects the child it was starting, before the holder knows of it.
TimeoutLaunch(c) ==
  /\ pc[c] = "launch"
  /\ pc' = [pc EXCEPT ![c] = "kill"]
  /\ leader' = [leader EXCEPT ![Current(c)] = "collected"]
  /\ UNCHANGED <<resume, attempt, holder, semVars, helpers, signalled>>

\* (mutant) wait_for is trusted to stop the CLI, so nothing is killed.
NeverKill(c) == TRUE

\* proc is None, or its returncode is known: nothing to kill.
NothingToKill(c) == holder[c] # NoProc => leader[holder[c]] = "collected"

KillNothing(c) ==
  /\ pc[c] = "kill"
  /\ NothingToKill(c)
  /\ Finish(c, "timeout")
  /\ UNCHANGED <<resume, attempt, holder, waitq, up, osVars>>

\* killpg(SIGTERM) reaches the leader and the helpers; each may exit or not.
Terminate(c) ==
  /\ pc[c] = "kill"
  /\ ~NothingToKill(c)
  /\ pc' = [pc EXCEPT ![c] = "grace"]
  /\ signalled' = signalled \cup {holder[c]}
  /\ \E l \in {leader[holder[c]], "zombie"} : leader' = [leader EXCEPT ![holder[c]] = l]
  /\ \E h \in {helpers[holder[c]], "none"} : helpers' = [helpers EXCEPT ![holder[c]] = h]
  /\ UNCHANGED <<resume, attempt, holder, semVars>>

\* proc.wait() returned, within the five seconds or after SIGKILL.
Reaped(c) ==
  /\ pc[c] \in {"grace", "reap"}
  /\ leader[holder[c]] = "collected"
  /\ Finish(c, "timeout")
  /\ UNCHANGED <<resume, attempt, holder, waitq, up, osVars>>

\* (mutant) the escalation sends SIGTERM again.
KillSoftAgain(c) ==
  /\ pc[c] = "grace"
  /\ leader[holder[c]] # "collected"
  /\ pc' = [pc EXCEPT ![c] = "reap"]
  /\ UNCHANGED <<resume, attempt, holder, semVars, osVars>>

\* Five seconds later: killpg(SIGKILL), which no process survives.
KillHard(c) ==
  /\ pc[c] = "grace"
  /\ leader[holder[c]] # "collected"
  /\ pc' = [pc EXCEPT ![c] = "reap"]
  /\ leader' = [leader EXCEPT ![holder[c]] = "zombie"]
  /\ helpers' = [helpers EXCEPT ![holder[c]] = "none"]
  /\ UNCHANGED <<resume, attempt, holder, semVars, signalled>>

-----------------------------------------------------------------------------
(* Shutdown, and what the operating system does. *)

\* asyncio.run() cancels every task.  Each call leaves the semaphore; a child
\* still being started is killed by asyncio; no other process is signalled,
\* for CancelledError is not the TimeoutError that run() handles.
Shutdown ==
  /\ up
  /\ up' = FALSE
  /\ pc' = [c \in Calls |->
              IF pc[c] \in {"queued"} \cup Awaiting THEN "cancelled" ELSE pc[c]]
  /\ waitq' = <<>>
  /\ free' = Limit
  /\ leader' = [g \in Groups |->
                  IF pc[g[1]] = "launch" /\ g = Current(g[1])
                  THEN "collected" ELSE leader[g]]
  /\ UNCHANGED <<resume, attempt, holder, helpers, signalled>>

CliExit(g) ==
  /\ leader[g] = "running"
  /\ leader' = [leader EXCEPT ![g] = "zombie"]
  /\ UNCHANGED <<callVars, semVars, helpers, signalled>>

\* The event loop's child watcher sees the exit.
Collect(g) ==
  /\ up
  /\ leader[g] = "zombie"
  /\ leader' = [leader EXCEPT ![g] = "collected"]
  /\ UNCHANGED <<callVars, semVars, helpers, signalled>>

HelperStart(g) ==
  /\ leader[g] = "running"
  /\ helpers[g] = "none"
  /\ \E h \in {"detached", "holding"} : helpers' = [helpers EXCEPT ![g] = h]
  /\ UNCHANGED <<callVars, semVars, leader, signalled>>

HelperExit(g) ==
  /\ helpers[g] # "none"
  /\ helpers' = [helpers EXCEPT ![g] = "none"]
  /\ UNCHANGED <<callVars, semVars, leader, signalled>>

-----------------------------------------------------------------------------
Next ==
  \/ \E c \in Calls :
       \/ Invoke(c) \/ Acquire(c) \/ AcquireNoCli(c) \/ Launched(c)
       \/ Return(c) \/ RetryWithoutResume(c)
       \/ TimeoutOutput(c) \/ TimeoutLaunch(c)
       \/ KillNothing(c) \/ Terminate(c) \/ Reaped(c) \/ KillHard(c)
  \/ \E g \in Groups : CliExit(g) \/ Collect(g) \/ HelperStart(g) \/ HelperExit(g)
  \/ Shutdown

Spec == Init /\ [][Next]_vars

\* Fairness: the event loop resumes what is ready and its timers fire; the
\* CLI owes nothing, it may run for ever.
Fairness ==
  /\ \A c \in Calls :
       /\ WF_vars(Acquire(c) \/ AcquireNoCli(c))
       /\ WF_vars(Launched(c))
       /\ WF_vars(TimeoutOutput(c))
       /\ WF_vars(KillNothing(c) \/ Terminate(c))
       /\ WF_vars(KillHard(c) \/ Reaped(c))
  /\ \A g \in Groups : WF_vars(Collect(g))

FairSpec == Spec /\ Fairness

-----------------------------------------------------------------------------
(* Properties. *)

\* No way out of run() loses a semaphore slot or returns it twice: answer,
\* failure, retry, timeout, and shutdown in the middle of a kill.
SlotAccounting == free + Cardinality(InSlot) = Limit

\* The slot is held until the CLI is dead, so that _CONCURRENT_LIMIT bounds
\* the CLIs that run and not only the calls that wait for one.
AtMostLimitClis ==
  up => Cardinality({g \in Groups : leader[g] = "running"}) <= Limit

\* The holder travels with the call (the comment at lines 126-129): a group is
\* signalled only by the timeout of the call that launched it, and only the
\* group of its last attempt.
OnlyOwnTimeoutKills ==
  \A g \in signalled :
    /\ g = Current(g[1])
    /\ pc[g[1]] \in {"grace", "reap", "timeout", "cancelled"}

\* A call that returned or raised leaves no CLI of either attempt running: no
\* orphan goes on spending tokens (the comment at lines 146-148).
NoOrphanCli ==
  \A g \in Groups :
    leader[g] = "running" =>
      g = Current(g[1]) /\ pc[g[1]] \in Awaiting \cup {"cancelled"}

\* The stale-session retry never resumes again, so it happens at most once.
RetryStartsFresh == \A c \in Calls : attempt[c] = 2 => ~resume[c]

\* Whatever the CLI does, a call that queued ends: waiting calls are served in
\* turn and the timeout escalates until the CLI is gone.
EveryCallEnds ==
  \A c \in Calls : pc[c] = "queued" ~> pc[c] \in Finished \cup {"cancelled"}

\* The runner implements the plain slot service: first come first served, a
\* slot per running call, and every call leaves once.
PhaseOf(p) ==
  CASE p = "idle" -> "idle"
    [] p = "queued" -> "waiting"
    [] p \in Awaiting -> "active"
    [] OTHER -> "over"

Slots == INSTANCE RunSlots WITH
  phase <- [c \in Calls |-> PhaseOf(pc[c])], line <- waitq, open <- up

RunSlotsSpec == Slots!Spec
=============================================================================
