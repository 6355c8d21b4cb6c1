--------------------------- MODULE TunnelNotifier ---------------------------
(***************************************************************************)
(* src/events/bus.py with its only wired consumer, src/tunnel/notifier.py. *)
(* The bus takes the oldest event and awaits every handler of it before it *)
(* takes the next.  The notifier drops what is no transition to up or down *)
(* and what repeats within a window of its last attempt, notes the attempt *)
(* and then awaits the send, which may fail.                               *)
(*                                                                         *)
(* now is time.monotonic() in whole units: on Linux, the time since the    *)
(* host booted.  A key never attempted counts as attempted at 0.           *)
(***************************************************************************)
EXTENDS Integers, Sequences

CONSTANTS
  None,
  StateWindow,      \* _STATE_CHANGE_WINDOW
  ExhaustedWindow,  \* _RETRY_EXHAUSTED_WINDOW
  StartTime,        \* how long the host has been up when the bot starts
  MaxTime           \* bound on the clock

Statuses == {"stopped", "up", "down", "error"}

\* A pair of statuses, or the one kind of event that has none.
Keys == (Statuses \X Statuses) \cup {<<"exhausted">>}

VARIABLES
  queue,      \* EventBus._queue
  busUp,      \* EventBus._running
  taken,      \* how many events were taken off the queue
  sending,    \* sends in progress: [event, number]
  sentAt,     \* _sent_changes and _retry_exhausted_sent
  now,
  told,       \* what the admin was last told: [event, number], or None
  attempted,  \* history: the sends attempted: [key, at]
  silenced    \* history: did news since then not reach the admin?

KeyOf(e) == IF e.type = "exhausted" THEN <<"exhausted">> ELSE <<e.old, e.new>>

\* (mutant) only the good news is passed on.
InterestingUp(e) == e.type = "change" => e.new = "up" /\ e.old # e.new

\* "Only interesting transitions".  A new URL of a tunnel that stays up is none.
Interesting(e) ==
  e.type = "change" => e.new \in {"up", "down"} /\ e.old # e.new

WindowOf(key) == IF key = <<"exhausted">> THEN ExhaustedWindow ELSE StateWindow

\* (mutant) the window is kept for what the tunnel came to, not for the pair.
DedupedByTarget(e) ==
  \E key \in Keys :
    /\ key[Len(key)] = KeyOf(e)[Len(KeyOf(e))]
    /\ now - sentAt[key] < WindowOf(key)

Deduped(e) == now - sentAt[KeyOf(e)] < WindowOf(KeyOf(e))

InitNotifier ==
  /\ busUp = TRUE
  /\ taken = 0
  /\ sending = {}
  /\ sentAt = [key \in Keys |-> 0]
  /\ now = StartTime
  /\ told = None
  /\ attempted = {}
  /\ silenced = FALSE

-----------------------------------------------------------------------------
(* Taking the next event. *)

\* (mutant) handlers are started as tasks and not awaited.
BusFreeAlways == TRUE

\* (mutant) a send that fails ends the processor.
BusFreeUntilFailure == sending = {} /\ ~silenced

\* _dispatch awaits the handlers, so one event is in their hands at a time.
BusFree == sending = {}

Take ==
  /\ busUp
  /\ BusFree
  /\ queue # <<>>
  /\ queue' = Tail(queue)
  /\ taken' = taken + 1

\* Nothing is sent: no news, or news too soon after the last attempt.
Suppress ==
  /\ Take
  /\ Interesting(Head(queue)) => Deduped(Head(queue))
  /\ silenced' = (silenced \/ Interesting(Head(queue)))
  /\ UNCHANGED <<busUp, sending, sentAt, now, told, attempted>>

\* The attempt is noted before the message is humanized and sent.
Attempt ==
  LET e == Head(queue) IN
  /\ Take
  /\ Interesting(e)
  /\ ~Deduped(e)
  /\ sentAt' = [sentAt EXCEPT ![KeyOf(e)] = now]
  /\ sending' = sending \cup {[event |-> e, number |-> taken']}
  /\ attempted' = attempted \cup {[key |-> KeyOf(e), at |-> now]}
  /\ UNCHANGED <<busUp, now, told, silenced>>

Delivered(s) ==
  /\ sending' = sending \ {s}
  /\ told' = s
  /\ silenced' = FALSE
  /\ UNCHANGED <<queue, busUp, taken, sentAt, now, attempted>>

\* A TelegramError is logged; the attempt stays noted.
SendFails(s) ==
  /\ sending' = sending \ {s}
  /\ silenced' = TRUE
  /\ UNCHANGED <<queue, busUp, taken, sentAt, now, told, attempted>>

\* stop(): the processor is cancelled, in the queue or in a send.
StopBus ==
  /\ busUp
  /\ busUp' = FALSE
  /\ sending' = {}
  /\ UNCHANGED <<queue, taken, sentAt, now, told, attempted, silenced>>

Tick ==
  /\ now < MaxTime
  /\ now' = now + 1
  /\ UNCHANGED <<queue, busUp, taken, sending, sentAt, told, attempted, silenced>>

Notifier ==
  \/ Suppress \/ Attempt \/ Tick
  \/ \E s \in sending : Delivered(s) \/ SendFails(s)
=============================================================================
