------------------------------ MODULE Autonomy ------------------------------
(***************************************************************************)
(* The programs that src/bot/handlers/autonomy.py and /epic start: auto,   *)
(* jarvis and the Epic script, one process for every update that starts    *)
(* one.  The bot waits for a process up to a timeout and does not end it   *)
(* then.  The programs are assumed to keep the contract of a command: what *)
(* ends with 0 has done its work, and what ends otherwise has done nothing.*)
(***************************************************************************)
EXTENDS Naturals

CONSTANT MaxUpdates  \* bound on the updates

ASSUME MaxUpdatesAssumption == MaxUpdates \in Nat

Numbers == 1..MaxUpdates
Verbs == {"add", "runs", "ack", "relay", "approve", "reject", "epic"}

VARIABLES
  proc,      \* the process of each update: [verb, pc]
  late,      \* history: the updates whose program the bot gave up waiting for
  jobFile,   \* is the temporary file of its job there?
  decision,  \* jarvis: what was decided about the ban request, or "open"
  mark       \* the line under the request's message, or "blank"

cliVars == <<proc, late, jobFile, decision, mark>>

NoProc == [verb |-> "none", pc |-> "none"]

CliTypeOK ==
  /\ proc \in [Numbers -> [verb : Verbs \cup {"none"},
                           pc : {"none", "running", "worked", "zero", "nonzero"}]]
  /\ late \subseteq Numbers
  /\ jobFile \in [Numbers -> BOOLEAN]
  /\ decision \in {"approve", "reject", "open"}
  /\ mark \in {"approve", "reject", "failed", "blank"}

CliInit ==
  /\ proc = [n \in Numbers |-> NoProc]
  /\ late = {}
  /\ jobFile = [n \in Numbers |-> FALSE]
  /\ decision = "open"
  /\ mark = "blank"

Did(n) == proc[n].pc \in {"worked", "zero"}
Ended(n) == proc[n].pc \in {"zero", "nonzero"}

\* A job is read from its file; a request is decided once.
CanWork(n) ==
  /\ proc[n].verb = "add" => jobFile[n]
  /\ proc[n].verb \in {"approve", "reject"} => decision = "open"

CliWorks(n) ==
  /\ proc[n].pc = "running"
  /\ CanWork(n)
  /\ proc' = [proc EXCEPT ![n].pc = "worked"]
  /\ decision' = IF proc[n].verb \in {"approve", "reject"} THEN proc[n].verb ELSE decision
  /\ UNCHANGED <<late, jobFile, mark>>

\* For whatever reason: no file, an unknown area, a decided request, a busy
\* terminal (RELAY_BUSY).
CliRefuses(n) ==
  /\ proc[n].pc = "running"
  /\ proc' = [proc EXCEPT ![n].pc = "nonzero"]
  /\ UNCHANGED <<late, jobFile, decision, mark>>

CliEnds(n) ==
  /\ proc[n].pc = "worked"
  /\ proc' = [proc EXCEPT ![n].pc = "zero"]
  /\ UNCHANGED <<late, jobFile, decision, mark>>

Cli == \E n \in Numbers : CliWorks(n) \/ CliRefuses(n) \/ CliEnds(n)

\* create_subprocess_exec; add has written the job to a file first.
RunAuto(n, verb) ==
  /\ proc' = [proc EXCEPT ![n] = [verb |-> verb, pc |-> "running"]]
  /\ jobFile' = [jobFile EXCEPT ![n] = (verb = "add")]
  /\ UNCHANGED <<late, decision, mark>>

\* (mutant) the file is kept when add does not end in time.
UnlinkIfEnded(n) ==
  /\ jobFile' = [jobFile EXCEPT ![n] = ~Ended(n)]
  /\ UNCHANGED <<proc, decision, mark>>

\* The finally of _add.
Unlink(n) ==
  /\ jobFile' = [jobFile EXCEPT ![n] = FALSE]
  /\ UNCHANGED <<proc, decision, mark>>

\* (mutant) the mark says what was pressed.
MarkOfVerb(n) == proc[n].verb

\* The verdict is what the program says of it.
MarkOf(n) == IF proc[n].pc = "zero" THEN proc[n].verb ELSE "failed"
=============================================================================
