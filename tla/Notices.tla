------------------------------ MODULE Notices ------------------------------
(***************************************************************************)
(* src/notifications/service.py: notices to chats of Telegram, sent at     *)
(* once by whoever calls send_notification, or by one sender that takes    *)
(* events off a queue the bus fills.  Nothing starts the service at this   *)
(* commit: its callers here are any that keep to its interface.            *)
(*                                                                         *)
(* time is time.monotonic(), in units of _SEND_INTERVAL, and counts from   *)
(* the boot of the host.  humanize and the network take any time.          *)
(***************************************************************************)
EXTENDS Integers, Sequences

CONSTANTS
  Chats,    \* chat ids, all of them in default_chat_ids
  Types,    \* message types
  Callers,  \* who may call send_notification at the same time
  Sender,   \* _process_queue
  DedupWindow,  \* _DEDUP_WINDOW_SECONDS, in units of time
  BootedFor,    \* how long the host has been up at the start
  MaxTime, MaxRequests, MaxParts  \* bounds on time, calls and events together, chunks

ASSUME NoticesAssumption ==
  /\ DedupWindow \in Nat \ {0} /\ Sender \notin Callers
  /\ {MaxTime, MaxRequests} \subseteq Nat /\ MaxParts \in Nat \ {0}
  /\ BootedFor \in 0..MaxTime

VARIABLES
  time,
  serving,   \* is the sender at work: its task runs
  dedup,     \* _dedup, where 0.0 stands for never
  lastSend,  \* _last_send, where 0.0 stands for never
  queue,     \* _queue: [number, chats]
  job,       \* what each of them is at: see NoJob
  calls,     \* counter of the bound
  events,    \* how many events were queued
  arrived,   \* history: the sender's last message to each chat: [number, part, at,
             \* sure], the last of them whether the send returned
  recorded,  \* history: the calls that were sent: [chat, type, since, at]
  silenced   \* history: the calls that were suppressed: [chat, type, at]

noticeVars ==
  <<time, serving, dedup, lastSend, queue, job, calls, events, arrived, recorded, silenced>>

Doers == Callers \cup {Sender}
None == "none"

\* type: a caller's message type; number: the sender's event, and the chats
\* left to serve; since: the start of the call; until: the end of a sleep.
NoJob == [pc |-> "idle", chat |-> None, type |-> None, number |-> 0, left |-> {},
          since |-> 0, until |-> 0, part |-> 1, parts |-> 1]

Jobs ==
  [pc : {"idle", "serve", "spacing", "sending", "pause"}, chat : Chats \cup {None},
   type : Types \cup {None}, number : 0..MaxRequests, left : SUBSET Chats,
   since : 0..MaxTime, until : 0..MaxTime + 1, part : 1..MaxParts, parts : 1..MaxParts]

NoticesTypeOK ==
  /\ time \in BootedFor..MaxTime /\ serving \in BOOLEAN
  /\ dedup \in [Chats \X Types -> 0..MaxTime] /\ lastSend \in [Chats -> 0..MaxTime]
  /\ queue \in Seq([number : 1..MaxRequests, chats : SUBSET Chats])
  /\ job \in [Doers -> Jobs]
  /\ calls \in 0..MaxRequests /\ events \in 0..MaxRequests

NoticesInit ==
  /\ time = BootedFor /\ serving = TRUE
  /\ dedup = [key \in Chats \X Types |-> 0] /\ lastSend = [c \in Chats |-> 0]
  /\ queue = <<>> /\ job = [d \in Doers |-> NoJob]
  /\ calls = 0 /\ events = 0
  /\ arrived = [c \in Chats |-> [number |-> 0, part |-> 0, at |-> 0, sure |-> TRUE]]
  /\ recorded = {} /\ silenced = {}

-----------------------------------------------------------------------------

\* (mutant) a type is sent to one chat only.
DedupedAnywhere(chat, type) == \E c \in Chats : time - dedup[<<c, type>>] < DedupWindow

Deduped(chat, type) == time - dedup[<<chat, type>>] < DedupWindow

\* send_notification, up to its first await.
Notify(d, chat, type) ==
  /\ job[d].pc = "idle"
  /\ calls + events < MaxRequests
  /\ calls' = calls + 1
  /\ IF Deduped(chat, type)
     THEN /\ silenced' = silenced \cup {[chat |-> chat, type |-> type, at |-> time]}
          /\ UNCHANGED job
     ELSE /\ \E parts \in 1..MaxParts :
               job' = [job EXCEPT ![d] = [NoJob EXCEPT !.pc = "sending", !.chat = chat,
                                            !.type = type, !.since = time, !.parts = parts]]
          /\ UNCHANGED silenced
  /\ UNCHANGED <<time, serving, dedup, lastSend, queue, events, arrived, recorded>>

\* _enqueue: an event without a chat goes to all.
Enqueue(chats) ==
  /\ calls + events < MaxRequests
  /\ events' = events + 1
  /\ queue' = Append(queue, [number |-> events', chats |-> chats])
  /\ UNCHANGED <<time, serving, dedup, lastSend, job, calls, arrived, recorded, silenced>>

TakeEvent ==
  /\ serving
  /\ job[Sender].pc = "idle"
  /\ queue # <<>>
  /\ job' = [job EXCEPT ![Sender] = [NoJob EXCEPT !.pc = "serve",
               !.number = Head(queue).number, !.left = Head(queue).chats]]
  /\ queue' = Tail(queue)
  /\ UNCHANGED <<time, serving, dedup, lastSend, calls, events, arrived, recorded, silenced>>

\* (mutant) the wait is left out.
ServeAtOnce ==
  /\ job[Sender].pc = "serve"
  /\ job[Sender].left # {}
  /\ LET chat == CHOOSE c \in job[Sender].left : TRUE IN
       job' = [job EXCEPT ![Sender].pc = "spacing", ![Sender].chat = chat,
                          ![Sender].left = @ \ {chat}, ![Sender].until = time]
  /\ UNCHANGED <<time, serving, dedup, lastSend, queue, calls, events, arrived, recorded, silenced>>

\* _rate_limited_send, of the next chat of the list: the wait is reckoned once,
\* and slept.
ServeChat ==
  /\ job[Sender].pc = "serve"
  /\ job[Sender].left # {}
  /\ LET chat == CHOOSE c \in job[Sender].left : TRUE IN
       job' = [job EXCEPT ![Sender].pc = "spacing", ![Sender].chat = chat,
                          ![Sender].left = @ \ {chat}, ![Sender].until = lastSend[chat] + 1]
  /\ UNCHANGED <<time, serving, dedup, lastSend, queue, calls, events, arrived, recorded, silenced>>

EventDone ==
  /\ job[Sender].pc = "serve"
  /\ job[Sender].left = {}
  /\ job' = [job EXCEPT ![Sender] = NoJob]
  /\ UNCHANGED <<time, serving, dedup, lastSend, queue, calls, events, arrived, recorded, silenced>>

Spaced ==
  /\ job[Sender].pc = "spacing"
  /\ time >= job[Sender].until
  /\ \E parts \in 1..MaxParts :
       job' = [job EXCEPT ![Sender].pc = "sending", ![Sender].until = 0,
                          ![Sender].parts = parts]
  /\ UNCHANGED <<time, serving, dedup, lastSend, queue, calls, events, arrived, recorded, silenced>>

-----------------------------------------------------------------------------
(* _do_send, and what its caller does when it returns. *)

\* (mutant) the time of the send is taken before it.
RecordSince(d) ==
  IF d = Sender
  THEN UNCHANGED <<dedup, recorded>>
  ELSE /\ dedup' = [dedup EXCEPT ![<<job[d].chat, job[d].type>>] = job[d].since]
       /\ recorded' = recorded \cup {[chat |-> job[d].chat, type |-> job[d].type,
                                      since |-> job[d].since, at |-> time]}

\* _record_send, whether or not anything was sent.
Record(d) ==
  IF d = Sender
  THEN UNCHANGED <<dedup, recorded>>
  ELSE /\ dedup' = [dedup EXCEPT ![<<job[d].chat, job[d].type>>] = time]
       /\ recorded' = recorded \cup {[chat |-> job[d].chat, type |-> job[d].type,
                                      since |-> job[d].since, at |-> time]}

NextPart(d) ==
  IF job[d].part < job[d].parts
  THEN /\ job' = [job EXCEPT ![d].pc = "sending", ![d].part = @ + 1, ![d].until = 0]
       /\ UNCHANGED <<dedup, recorded>>
  ELSE /\ job' = [job EXCEPT ![d] = IF d = Sender
         THEN [NoJob EXCEPT !.pc = "serve", !.number = job[d].number, !.left = job[d].left]
         ELSE NoJob]
       /\ Record(d)

\* The part reaches the chat.
Note(d, sure) ==
  arrived' = IF d = Sender
    THEN [arrived EXCEPT ![job[d].chat] =
            [number |-> job[d].number, part |-> job[d].part, at |-> time, sure |-> sure]]
    ELSE arrived

\* Several parts are sent with a pause after each.
PartArrives(d) ==
  /\ job[d].pc = "sending"
  /\ Note(d, TRUE)
  /\ lastSend' = [lastSend EXCEPT ![job[d].chat] = time]
  /\ IF job[d].parts > 1
     THEN /\ job' = [job EXCEPT ![d].pc = "pause", ![d].until = time + 1]
          /\ UNCHANGED <<dedup, recorded>>
     ELSE NextPart(d)
  /\ UNCHANGED <<time, serving, queue, calls, events, silenced>>

\* A TelegramError is logged, and the next part sent at once, whether the part
\* arrived, as after a TimedOut it may have, or not.  The sender notes a time for
\* its chat when it is through with the event.
PartFails(d) ==
  /\ job[d].pc = "sending"
  /\ Note(d, FALSE) \/ UNCHANGED arrived
  /\ NextPart(d)
  /\ lastSend' = IF d = Sender /\ job[d].part >= job[d].parts
                 THEN [lastSend EXCEPT ![job[d].chat] = time] ELSE lastSend
  /\ UNCHANGED <<time, serving, queue, calls, events, silenced>>

PauseOver(d) ==
  /\ job[d].pc = "pause"
  /\ time >= job[d].until
  /\ NextPart(d)
  /\ lastSend' = IF d = Sender /\ job[d].part >= job[d].parts
                 THEN [lastSend EXCEPT ![job[d].chat] = time] ELSE lastSend
  /\ UNCHANGED <<time, serving, queue, calls, events, arrived, silenced>>

\* Any other exception, or the caller's cancellation, ends what it meets: a call
\* without a note of it, the sender for good.
Breaks(d) ==
  /\ job[d].pc = "sending" \/ (job[d].pc = "pause" /\ d \in Callers)
  /\ (job[d].pc = "sending" /\ Note(d, FALSE)) \/ UNCHANGED arrived
  /\ job' = [job EXCEPT ![d] = NoJob]
  /\ serving' = (serving /\ d # Sender)
  /\ UNCHANGED <<time, dedup, lastSend, queue, calls, events, recorded, silenced>>

-----------------------------------------------------------------------------

\* stop(): the sender is cancelled wherever it is; a message it was sending may
\* arrive.  What is queued stays there.
StopService ==
  /\ serving
  /\ serving' = FALSE
  /\ job' = [job EXCEPT ![Sender] = NoJob]
  /\ (job[Sender].pc = "sending" /\ Note(Sender, FALSE)) \/ UNCHANGED arrived
  /\ UNCHANGED <<time, dedup, lastSend, queue, calls, events, recorded, silenced>>

TimePasses ==
  /\ time < MaxTime
  /\ time' = time + 1
  /\ UNCHANGED <<serving, dedup, lastSend, queue, job, calls, events, arrived, recorded, silenced>>

NoticesNext ==
  \/ \E d \in Callers, chat \in Chats, type \in Types : Notify(d, chat, type)
  \/ \E chats \in {Chats} \cup {{c} : c \in Chats} : Enqueue(chats)
  \/ TakeEvent \/ ServeChat \/ EventDone \/ Spaced
  \/ \E d \in Doers : PartArrives(d) \/ PartFails(d) \/ PauseOver(d) \/ Breaks(d)
  \/ StopService \/ TimePasses

-----------------------------------------------------------------------------
(* Properties. *)

\* "Dedup window: suppress same message type for 5 minutes" (service.py:30):
\* of two notices of one type to one chat that both went out, the later one was
\* asked for a window after the earlier one was sent, or while it was on its way.
RepeatsOverlap ==
  \A a, b \in recorded :
    a.chat = b.chat /\ a.type = b.type /\ b.since > a.at
      => b.since - a.at >= DedupWindow

\* No other notice is suppressed than one that follows its like: one that was
\* sent, or tried, within the window, or asked for within a window of the boot.
OnlyRepeatsAreSilenced ==
  \A s \in silenced :
    \/ s.at < DedupWindow
    \/ \E r \in recorded : r.chat = s.chat /\ r.type = s.type /\ s.at - r.at < DedupWindow

\* Within the window, repeats and only they are suppressed.
DedupIsExact == RepeatsOverlap /\ OnlyRepeatsAreSilenced

\* "~1 msg/sec per chat" (service.py:27): however long humanizing and sending
\* take, and whatever fails, what the queue brings to a chat arrives in order and
\* each part once.  It is spaced as well, but for a part that comes after one of
\* the same event of which the sender does not know that it arrived.
EventsAreSpaced ==
  [][\A c \in Chats : arrived'[c] # arrived[c] =>
       /\ \/ arrived'[c].number > arrived[c].number
          \/ arrived'[c].number = arrived[c].number /\ arrived'[c].part > arrived[c].part
       /\ \/ arrived'[c].at - arrived[c].at >= 1
          \/ arrived[c].number = 0
          \/ arrived'[c].number = arrived[c].number /\ ~arrived[c].sure]_noticeVars
=============================================================================
