------------------------------ MODULE RunSlots ------------------------------
(***************************************************************************)
(* What the Claude runner promises its callers, without processes, signals *)
(* or timers: every call enters, waits its turn in arrival order, holds    *)
(* one of Limit slots while it runs, and leaves.  ClaudeRunner implements  *)
(* it (see its RunSlotsSpec).                                              *)
(***************************************************************************)
EXTENDS Naturals, Sequences, FiniteSets

CONSTANTS
  Calls,  \* the calls that may be made
  Limit   \* how many of them may hold a slot at once

VARIABLES
  phase,  \* phase[c] \in {"idle", "waiting", "active", "over"}
  line,   \* the waiting calls in arrival order
  open    \* FALSE once the service has been shut down

slotVars == <<phase, line, open>>

Active == {c \in Calls : phase[c] = "active"}

Init ==
  /\ phase = [c \in Calls |-> "idle"]
  /\ line = <<>>
  /\ open = TRUE

Enter(c) ==
  /\ open
  /\ phase[c] = "idle"
  /\ phase' = [phase EXCEPT ![c] = "waiting"]
  /\ line' = Append(line, c)
  /\ UNCHANGED open

\* The call at the head of the line takes a slot.  A call that cannot even
\* be started leaves at once, without having kept the slot.
Admit(c) ==
  /\ line # <<>>
  /\ c = Head(line)
  /\ Cardinality(Active) < Limit
  /\ line' = Tail(line)
  /\ \E p \in {"active", "over"} : phase' = [phase EXCEPT ![c] = p]
  /\ UNCHANGED open

Leave(c) ==
  /\ phase[c] = "active"
  /\ phase' = [phase EXCEPT ![c] = "over"]
  /\ UNCHANGED <<line, open>>

\* Shutdown ends every call, waiting or active, at once.
Close ==
  /\ open
  /\ open' = FALSE
  /\ line' = <<>>
  /\ phase' = [c \in Calls |->
                 IF phase[c] \in {"waiting", "active"} THEN "over" ELSE phase[c]]

Next ==
  \/ \E c \in Calls : Enter(c) \/ Admit(c) \/ Leave(c)
  \/ Close

Spec == Init /\ [][Next]_slotVars
=============================================================================
