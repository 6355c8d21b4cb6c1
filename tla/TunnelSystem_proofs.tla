------------------------ MODULE TunnelSystem_proofs -------------------------
(***************************************************************************)
(* What the admin is told of the tunnel: in the order in which it          *)
(* happened, up to date when all is dispatched, and silent only about what *)
(* repeats, for any URLs, retries, windows and bounds.                     *)
(***************************************************************************)
EXTENDS TunnelSystem, TunnelManager_proofs

\* Before a start there is nothing to tell and nothing was told.
OffInv == pc = "off" => status = "stopped" /\ queue = <<>> /\ told = None /\ sending = {}

\* What the manager publishes.
News ==
  {StateChange(old, new, u) : old \in Statuses, new \in Statuses, u \in Urls \cup {None}}
    \cup {RetryExhausted}

NewsInv == \A i \in DOMAIN queue : queue[i] \in News

\* One message is sent at a time, and none is older than what was told before.
SendInv ==
  /\ taken \in Nat
  /\ \A s, t \in sending : s = t
  /\ \A s \in sending :
       /\ s.number \in Nat /\ s.number <= taken
       /\ told # None => told.number <= s.number
  /\ told # None => told.number \in Nat /\ told.number <= taken

\* The status that the events taken so far led to: the events that wait start
\* from it, and without any it is the manager's.
Front(x) ==
  /\ \A i \in Changes : (\A k \in Changes : i <= k) => queue[i].old = x
  /\ Changes = {} => status = x

\* A message that is being sent tells that status, and so does the last one that
\* was, unless there was news since.
Tells(x) ==
  /\ \A s \in sending : s.event.type = "change" => s.event.new = x
  /\ busUp /\ sending = {} /\ ~silenced /\ told # None =>
       (told.event.type = "change" /\ x \in {"up", "down"} => told.event.new = x)

UpToDateInv == \E x \in Statuses : Front(x) /\ Tells(x)

\* The time kept is that of an attempt, or 0.
WindowInv ==
  /\ now \in Nat
  /\ sentAt \in [N!Keys -> Nat]
  /\ \A key \in N!Keys : sentAt[key] # 0 => [key |-> key, at |-> sentAt[key]] \in attempted

\* The inductive invariant of the system.
SysInv ==
  /\ IInv
  /\ OffInv
  /\ NewsInv
  /\ EventsTellTheState
  /\ SendInv
  /\ UpToDateInv
  /\ WindowInv

-----------------------------------------------------------------------------
(* What publishing and taking events do to the queue. *)

\* A change of state has the fields it was given, and is news; so is the end of
\* the retries, which is no change.
LEMMA NewsFacts ==
  /\ RetryExhausted \in News /\ RetryExhausted.type # "change"
  /\ \A old, new \in Statuses, u \in Urls \cup {None} :
       /\ StateChange(old, new, u) \in News
       /\ StateChange(old, new, u).type = "change"
       /\ StateChange(old, new, u).old = old
       /\ StateChange(old, new, u).new = new
       /\ StateChange(old, new, u).url = u
  /\ \A e \in News : \/ e.type = "change" /\ e.old \in Statuses /\ e.new \in Statuses
                     \/ e = RetryExhausted
<1>1. RetryExhausted \in News /\ RetryExhausted.type # "change"
  BY DEF News, RetryExhausted
<1>2. \A old, new, u : /\ StateChange(old, new, u).type = "change"
                       /\ StateChange(old, new, u).old = old
                       /\ StateChange(old, new, u).new = new
                       /\ StateChange(old, new, u).url = u
  BY DEF StateChange
<1>3. \A old, new \in Statuses, u \in Urls \cup {None} : StateChange(old, new, u) \in News
  BY DEF News
<1>4. ASSUME NEW e \in News, e # RetryExhausted
      PROVE  e.type = "change" /\ e.old \in Statuses /\ e.new \in Statuses
  <2>1. PICK old \in Statuses, new \in Statuses, u \in Urls \cup {None} :
          e = StateChange(old, new, u)
    BY <1>4 DEF News
  <2> QED
    BY <1>2, <2>1
<1> QED
  BY <1>1, <1>2, <1>3, <1>4

\* A queue with the same changes tells the same state.
LEMMA SameChanges ==
  ASSUME EventsTellTheState, Changes' = Changes,
         \A i \in Changes : queue'[i] = queue[i],
         status' = status, url' = url \/ Changes = {}
  PROVE  EventsTellTheState' /\ \A x : Front(x) => Front(x)'
<1>1. EventsTellTheState'
  BY DEF EventsTellTheState
<1>2. \A x : Front(x) => Front(x)'
  BY DEF Front
<1> QED
  BY <1>1, <1>2

\* A change that starts from the present status goes on where the others end.
LEMMA OneMoreChange ==
  ASSUME EventsTellTheState, NEW n \in Nat, \A i \in Changes : i \in Nat /\ i < n,
         Changes' = Changes \cup {n},
         \A i \in Changes : queue'[i] = queue[i],
         queue'[n].old = status, queue'[n].new = status', queue'[n].url = url'
  PROVE  EventsTellTheState' /\ \A x : Front(x) => Front(x)'
<1>1. \A i, j \in Changes' :
        i < j /\ (\A k \in Changes' : k <= i \/ j <= k) => queue'[j].old = queue'[i].new
  <2> SUFFICES ASSUME NEW i \in Changes', NEW j \in Changes', i < j,
                      \A k \in Changes' : k <= i \/ j <= k
               PROVE  queue'[j].old = queue'[i].new
    OBVIOUS
  <2>1. i \in Changes
    BY SMT
  <2>2. CASE j \in Changes
    BY <2>1, <2>2 DEF EventsTellTheState
  <2>3. CASE j = n
    <3>1. \A k \in Changes : k <= i
      BY <2>1, <2>3
    <3> QED
      BY <2>1, <2>3, <3>1 DEF EventsTellTheState
  <2> QED
    BY <2>2, <2>3
<1>2. \A i \in Changes' :
        (\A k \in Changes' : k <= i) => queue'[i].new = status' /\ queue'[i].url = url'
  <2> SUFFICES ASSUME NEW i \in Changes', \A k \in Changes' : k <= i PROVE i = n
    OBVIOUS
  <2>1. n <= i
    OBVIOUS
  <2> QED
    BY <2>1
<1>3. ASSUME NEW x, Front(x) PROVE Front(x)'
  <2>1. ASSUME NEW i \in Changes', \A k \in Changes' : i <= k PROVE queue'[i].old = x
    <3>1. CASE i \in Changes
      BY <1>3, <2>1, <3>1 DEF Front
    <3>2. CASE i = n
      <4>1. \A k \in Changes : k \in Nat /\ k < n /\ n <= k
        BY <2>1, <3>2
      <4>2. Changes = {}
        BY <4>1
      <4> QED
        BY <1>3, <3>2, <4>2 DEF Front
    <3> QED
      BY <3>1, <3>2
  <2> QED
    BY <2>1 DEF Front
<1>4. EventsTellTheState'
  BY <1>1, <1>2 DEF EventsTellTheState
<1> QED
  BY <1>3, <1>4

\* _set_state publishes what leads from the status it starts from to its own.
LEMMA PublishKeeps ==
  ASSUME queue \in Seq(Events), NewsInv, EventsTellTheState,
         NEW old \in Statuses, old = status,
         NEW oldUrl, oldUrl = url \/ queue = <<>>,
         NEW count, NEW new \in Statuses, NEW u \in Urls \cup {None},
         NEW events \in {<<>>, <<RetryExhausted>>},
         SetState(old, oldUrl, count, new, u, events)
  PROVE  NewsInv' /\ EventsTellTheState' /\ \A x : Front(x) => Front(x)'
<1> DEFINE n == Len(queue)
           c == StateChange(old, new, u)
<1>1. /\ n \in Nat /\ DOMAIN queue = 1..n
      /\ \A i \in Changes : i \in 1..n
  BY DEF Changes
<1>2. RetryExhausted \in Events /\ c \in Events
  BY ChangeIsEvent
<1>3. status' = new /\ url' = u
  BY DEF SetState
<1>4. /\ c \in News /\ c.type = "change" /\ c.old = old /\ c.new = new /\ c.url = u
      /\ RetryExhausted \in News /\ RetryExhausted.type # "change"
  BY NewsFacts
<1>5. CASE old = new /\ oldUrl = u
  <2>1. queue' = queue \o events
    BY <1>5 DEF SetState
  <2>2. /\ DOMAIN queue' = 1..(n + Len(events))
        /\ \A i \in 1..n : queue'[i] = queue[i]
        /\ \A i \in DOMAIN queue' : i > n => queue'[i] = RetryExhausted
    <3>1. CASE events = <<>>
      BY <1>1, <2>1, <3>1
    <3>2. CASE events = <<RetryExhausted>>
      BY <1>1, <1>2, <2>1, <3>2
    <3> QED
      BY <3>1, <3>2
  <2>3. Len(events) \in Nat
    OBVIOUS
  <2> HIDE DEF n
  <2>4. Changes' = Changes
    BY <1>1, <1>4, <2>2, <2>3 DEF Changes
  <2>5. NewsInv'
    BY <1>1, <1>4, <2>2, <2>3 DEF NewsInv
  <2>6. url' = url \/ Changes = {}
    BY <1>3, <1>5 DEF Changes
  <2> QED
    BY <1>1, <1>3, <1>5, <2>2, <2>4, <2>5, <2>6, SameChanges
<1>6. CASE ~(old = new /\ oldUrl = u)
  <2>1. queue' = queue \o <<c>> \o events
    BY <1>6 DEF SetState
  <2> HIDE DEF c
  <2>2. /\ DOMAIN queue' = 1..(n + 1 + Len(events))
        /\ \A i \in 1..n : queue'[i] = queue[i]
        /\ queue'[n + 1] = c
        /\ \A i \in DOMAIN queue' : i > n + 1 => queue'[i] = RetryExhausted
    <3>1. CASE events = <<>>
      BY <1>1, <1>2, <2>1, <3>1
    <3>2. CASE events = <<RetryExhausted>>
      BY <1>1, <1>2, <2>1, <3>2
    <3> QED
      BY <3>1, <3>2
  <2>3. Len(events) \in Nat
    OBVIOUS
  <2> HIDE DEF n
  <2>4. Changes' = Changes \cup {n + 1}
    BY <1>1, <1>4, <2>2, <2>3, SMTT(30) DEF Changes
  <2>5. NewsInv'
    BY <1>1, <1>4, <2>2, <2>3 DEF NewsInv
  <2> QED
    BY <1>1, <1>3, <1>4, <2>2, <2>4, <2>5, OneMoreChange
<1> QED
  BY <1>5, <1>6

\* The event that is taken leads from where those before it led to where those
\* behind it start.
LEMMA TakingKeeps ==
  ASSUME queue \in Seq(Events), NewsInv, EventsTellTheState,
         queue # <<>>, queue' = Tail(queue), UNCHANGED <<status, url>>
  PROVE  /\ queue' \in Seq(Events) /\ Head(queue) \in News
         /\ NewsInv' /\ EventsTellTheState'
         /\ \A x : Front(x) =>
              /\ Head(queue).type # "change" => Front(x)'
              /\ Head(queue).type = "change" =>
                   Head(queue).old = x /\ \A y : y = Head(queue).new => Front(y)'
<1> DEFINE n == Len(queue)
<1>1. /\ n \in Nat /\ n >= 1 /\ DOMAIN queue = 1..n /\ Head(queue) = queue[1]
      /\ queue' \in Seq(Events) /\ DOMAIN queue' = 1..(n - 1)
      /\ \A i \in 1..(n - 1) : queue'[i] = queue[i + 1]
  OBVIOUS
<1> HIDE DEF n
<1>2. Head(queue) \in News /\ NewsInv'
  BY <1>1 DEF NewsInv
<1>3. \A i \in Changes : i \in 1..n
  BY <1>1 DEF Changes
<1>4. \A i \in Changes' : i \in 1..(n - 1) /\ i + 1 \in Changes /\ queue'[i] = queue[i + 1]
  BY <1>1 DEF Changes
<1>5. \A i \in Changes : i = 1 \/ (i - 1 \in Changes' /\ queue'[i - 1] = queue[i])
  BY <1>1 DEF Changes
<1>6. 1 \in Changes <=> Head(queue).type = "change"
  BY <1>1 DEF Changes
<1>7. EventsTellTheState'
  <2>1. ASSUME NEW i \in Changes', NEW j \in Changes', i < j,
               \A k \in Changes' : k <= i \/ j <= k
        PROVE  queue'[j].old = queue'[i].new
    <3>1. ASSUME NEW k \in Changes PROVE k <= i + 1 \/ j + 1 <= k
      <4>1. i \in Nat /\ j \in Nat /\ k \in Nat
        BY <1>1, <1>3, <1>4, <2>1
      <4>2. CASE k = 1
        BY <4>1, <4>2
      <4>3. CASE k - 1 \in Changes'
        <5>1. k - 1 <= i \/ j <= k - 1
          BY <2>1, <4>3
        <5> QED
          BY <4>1, <5>1
      <4> QED
        BY <1>5, <4>2, <4>3
    <3>2. i + 1 < j + 1 /\ i + 1 \in Changes /\ j + 1 \in Changes
      BY <1>4, <2>1
    <3>3. queue[j + 1].old = queue[i + 1].new
      BY <3>1, <3>2 DEF EventsTellTheState
    <3> QED
      BY <1>4, <2>1, <3>3
  <2>2. ASSUME NEW i \in Changes', \A k \in Changes' : k <= i
        PROVE  queue'[i].new = status' /\ queue'[i].url = url'
    <3>1. \A k \in Changes : k <= i + 1
      BY <1>3, <1>4, <1>5, <2>2
    <3>2. queue[i + 1].new = status /\ queue[i + 1].url = url
      BY <1>4, <2>2, <3>1 DEF EventsTellTheState
    <3> QED
      BY <1>4, <2>2, <3>2
  <2> QED
    BY <2>1, <2>2 DEF EventsTellTheState
<1>8. ASSUME NEW x, Front(x), 1 \in Changes
      PROVE  queue[1].old = x /\ \A y : y = queue[1].new => Front(y)'
  <2>1. queue[1].old = x
    BY <1>3, <1>8 DEF Front
  <2>2. ASSUME NEW i \in Changes', \A k \in Changes' : i <= k
        PROVE  queue'[i].old = queue[1].new
    <3>1. \A k \in Changes : k <= 1 \/ i + 1 <= k
      BY <1>3, <1>4, <1>5, <2>2
    <3>2. 1 < i + 1 /\ i + 1 \in Changes
      BY <1>4, <2>2
    <3>3. queue[i + 1].old = queue[1].new
      BY <1>8, <3>1, <3>2 DEF EventsTellTheState
    <3> QED
      BY <1>4, <2>2, <3>3
  <2>3. ASSUME Changes' = {} PROVE status' = queue[1].new
    <3>1. \A k \in Changes : k <= 1
      BY <1>3, <1>5, <2>3
    <3> QED
      BY <1>8, <3>1 DEF EventsTellTheState
  <2>4. \A y : y = queue[1].new => Front(y)'
    BY <2>2, <2>3 DEF Front
  <2> QED
    BY <2>1, <2>4
<1>9. ASSUME NEW x, Front(x), 1 \notin Changes PROVE Front(x)'
  <2>1. ASSUME NEW i \in Changes', \A k \in Changes' : i <= k PROVE queue'[i].old = x
    <3>1. \A k \in Changes : i + 1 <= k
      BY <1>3, <1>4, <1>5, <1>9, <2>1
    <3>2. queue[i + 1].old = x
      BY <1>4, <1>9, <2>1, <3>1 DEF Front
    <3> QED
      BY <1>4, <2>1, <3>2
  <2>2. Changes' = {} => Changes = {}
    BY <1>5, <1>9
  <2> QED
    BY <1>9, <2>1, <2>2 DEF Front
<1> QED
  BY <1>1, <1>2, <1>6, <1>7, <1>8, <1>9

-----------------------------------------------------------------------------
(* The manager's steps. *)

\* _spawn_ngrok publishes nothing, or that it failed.
LEMMA SpawnTells ==
  ASSUME queue \in Seq(Events), NewsInv, EventsTellTheState,
         NEW old \in Statuses, old = status,
         NEW oldUrl, oldUrl = url \/ queue = <<>>,
         NEW count, SpawnNgrok(old, oldUrl, count)
  PROVE  NewsInv' /\ EventsTellTheState' /\ \A x : Front(x) => Front(x)'
<1>1. CASE queue' = queue /\ status' = old /\ url' = oldUrl
  <2>1. Changes' = Changes /\ NewsInv'
    BY <1>1 DEF Changes, NewsInv
  <2>2. url' = url \/ Changes = {}
    BY <1>1 DEF Changes
  <2> QED
    BY <1>1, <2>1, <2>2, SameChanges
<1>2. CASE SetState(old, oldUrl, count, "error", None, <<>>)
  <2>1. "error" \in Statuses
    BY DEF Statuses
  <2> QED
    BY <1>2, <2>1, PublishKeeps
<1> QED
  BY <1>1, <1>2 DEF SpawnNgrok

\* Whatever the manager does, its events lead to its state.
LEMMA ManagerTells ==
  ASSUME IInv, OffInv, NewsInv, EventsTellTheState,
         Start \/ PollUp \/ TunnelDown \/ BackoffDone \/ Stop \/ Ngrok
  PROVE  /\ NewsInv' /\ EventsTellTheState' /\ \A x : Front(x) => Front(x)'
         /\ pc' # "off" \/ (pc' = pc /\ UNCHANGED <<status, queue>>)
<1>1. queue \in Seq(Events) /\ status \in Statuses
  BY DEF IInv, TypeOK
<1>2. "up" \in Statuses /\ "down" \in Statuses /\ "stopped" \in Statuses
  BY DEF Statuses
<1>3. CASE Start
  <2>1. pc' = "polling" /\ status = "stopped" /\ queue = <<>>
    BY <1>3 DEF Start, OffInv
  <2>2. \E oldUrl, count : SpawnNgrok("stopped", oldUrl, count)
    BY <1>3 DEF Start
  <2> QED
    BY <1>1, <1>2, <2>1, <2>2, SpawnTells
<1>4. CASE PollUp
  <2>1. /\ SetState(status, url, retries, "up", served, <<>>) /\ served \in Urls \cup {None}
        /\ pc' # "off"
    BY <1>4 DEF PollUp, IInv, TypeOK
  <2> QED
    BY <1>1, <1>2, <2>1, PublishKeeps
<1>5. CASE TunnelDown
  <2>1. /\ status = "up" /\ pc' # "off"
        /\ \E events \in {<<>>, <<RetryExhausted>>} :
             SetState("up", url, retries, "down", None, events)
    BY <1>5 DEF TunnelDown
  <2> QED
    BY <1>1, <1>2, <2>1, PublishKeeps
<1>6. CASE BackoffDone
  <2>1. SpawnNgrok(status, url, retries) /\ pc' = "polling"
    BY <1>6 DEF BackoffDone
  <2> QED
    BY <1>1, <2>1, SpawnTells
<1>7. CASE Stop \/ Ngrok
  <2>1. UNCHANGED <<status, url, queue>> /\ (pc' = pc \/ pc' = "stopped")
    BY <1>7 DEF Stop, Ngrok, Serve, ChangeUrl, LoseTunnel, Die, ForeignStarts, stateVars
  <2>2. Changes' = Changes /\ NewsInv'
    BY <2>1 DEF Changes, NewsInv
  <2> QED
    BY <2>1, <2>2, SameChanges
<1> QED
  BY <1>3, <1>4, <1>5, <1>6, <1>7

\* The manager's steps leave the notifier alone.
LEMMA ManagerStepKeeps ==
  ASSUME SysInv, ManagerStep
  PROVE  SysInv'
<1>1. /\ Start \/ PollUp \/ TunnelDown \/ BackoffDone \/ Stop \/ Ngrok
      /\ UNCHANGED <<busUp, taken, sending, sentAt, now, told, attempted, silenced>>
  BY DEF ManagerStep, notifierVars
<1>2. IInv'
  BY <1>1, StepKeeps DEF SysInv, Next, Manager
<1>3. /\ NewsInv' /\ EventsTellTheState' /\ \A x : Front(x) => Front(x)'
      /\ pc' # "off" \/ (pc' = pc /\ UNCHANGED <<status, queue>>)
  BY <1>1, ManagerTells DEF SysInv
<1>4. OffInv'
  BY <1>1, <1>3 DEF SysInv, OffInv
<1>5. SendInv'
  BY <1>1 DEF SysInv, SendInv
<1>6. UpToDateInv'
  <2>1. PICK x \in Statuses : Front(x) /\ Tells(x)
    BY DEF SysInv, UpToDateInv
  <2>2. Tells(x)'
    BY <1>1, <2>1 DEF Tells
  <2> QED
    BY <1>3, <2>1, <2>2 DEF UpToDateInv
<1>7. WindowInv'
  BY <1>1 DEF SysInv, WindowInv
<1> QED
  BY <1>2, <1>3, <1>4, <1>5, <1>6, <1>7 DEF SysInv

\* With the program everything that was queued, told or attempted is gone.
LEMMA SysCrashKeeps ==
  ASSUME SysInv, SysCrash
  PROVE  SysInv'
<1>1. /\ Crash \/ Exit
      /\ pc' = "off" /\ status' = "stopped" /\ queue' = <<>>
      /\ taken' = 0 /\ sending' = {} /\ sentAt' = [key \in N!Keys |-> 0]
      /\ told' = None /\ attempted' = {} /\ now' = now
  BY DEF SysCrash, Crash, Exit, Forget
<1>2. IInv'
  BY <1>1, StepKeeps DEF SysInv, Next, Manager
<1>3. Changes' = {}
  BY <1>1 DEF Changes
<1>4. OffInv' /\ NewsInv' /\ EventsTellTheState'
  BY <1>1, <1>3 DEF OffInv, NewsInv, EventsTellTheState
<1>5. SendInv'
  BY <1>1 DEF SendInv
<1>6. UpToDateInv'
  <2>1. "stopped" \in Statuses
    BY DEF Statuses
  <2>2. Front("stopped")' /\ Tells("stopped")'
    BY <1>1, <1>3 DEF Front, Tells
  <2> QED
    BY <2>1, <2>2 DEF UpToDateInv
<1>7. WindowInv'
  BY <1>1 DEF SysInv, WindowInv
<1> QED
  BY <1>2, <1>4, <1>5, <1>6, <1>7 DEF SysInv

-----------------------------------------------------------------------------
(* The notifier's steps. *)

\* A step of the notifier or the bus touches nothing of the manager's but its queue.
LEMMA ManagerUntouched ==
  ASSUME IInv, queue' \in Seq(Events),
         UNCHANGED <<pc, status, url, retries, proc, saved, osVars, starts>>
  PROVE  IInv'
<1>1. UNCHANGED <<live, mine, served, spawns, faults>>
  BY DEF osVars
<1> QED
  BY <1>1 DEF IInv, TypeOK, OwnNgrokIsKnown

\* What a step keeps that takes no event.
LEMMA QueueKept ==
  ASSUME SysInv, queue' = queue,
         UNCHANGED <<pc, status, url, retries, proc, saved, osVars, starts>>
  PROVE  IInv' /\ NewsInv' /\ EventsTellTheState' /\ \A x : Front(x) => Front(x)'
<1>1. IInv'
  BY ManagerUntouched DEF SysInv, IInv, TypeOK
<1>2. Changes' = Changes /\ NewsInv'
  BY DEF Changes, NewsInv, SysInv
<1>3. EventsTellTheState' /\ \A x : Front(x) => Front(x)'
  BY <1>2, SameChanges DEF SysInv
<1> QED
  BY <1>1, <1>2, <1>3

\* The facts of an event that is taken.
LEMMA TakeFacts ==
  ASSUME SysInv, N!Take,
         UNCHANGED <<pc, status, url, retries, proc, saved, osVars, starts>>
  PROVE  /\ IInv' /\ NewsInv' /\ EventsTellTheState'
         /\ busUp /\ sending = {} /\ taken' = taken + 1 /\ taken \in Nat
         /\ Head(queue) \in News
         /\ \A x : Front(x) =>
              /\ Head(queue).type # "change" => Front(x)'
              /\ Head(queue).type = "change" =>
                   Head(queue).old = x /\ \A y : y = Head(queue).new => Front(y)'
<1>1. /\ busUp /\ sending = {} /\ queue # <<>> /\ queue' = Tail(queue) /\ taken' = taken + 1
  BY DEF N!Take, N!BusFree
<1>2. queue \in Seq(Events) /\ NewsInv /\ EventsTellTheState /\ taken \in Nat
  BY DEF SysInv, IInv, TypeOK, SendInv
<1>3. /\ queue' \in Seq(Events) /\ Head(queue) \in News
      /\ NewsInv' /\ EventsTellTheState'
      /\ \A x : Front(x) =>
           /\ Head(queue).type # "change" => Front(x)'
           /\ Head(queue).type = "change" =>
                Head(queue).old = x /\ \A y : y = Head(queue).new => Front(y)'
  BY <1>1, <1>2, TakingKeeps
<1>4. IInv'
  BY <1>3, ManagerUntouched DEF SysInv
<1> QED
  BY <1>1, <1>2, <1>3, <1>4

\* What is suppressed is no news of a running tunnel, or the admin is behind.
LEMMA SuppressKeeps ==
  ASSUME SysInv, pc # "off", N!Suppress,
         UNCHANGED <<pc, status, url, retries, proc, saved, osVars, starts>>
  PROVE  SysInv'
<1> DEFINE e == Head(queue)
<1>1. /\ N!Take
      /\ silenced' = (silenced \/ N!Interesting(e))
      /\ UNCHANGED <<busUp, sending, sentAt, now, told, attempted, pc>>
  BY DEF N!Suppress
<1>2. /\ IInv' /\ NewsInv' /\ EventsTellTheState'
      /\ busUp /\ sending = {} /\ taken' = taken + 1 /\ taken \in Nat
      /\ e \in News
      /\ \A x : Front(x) =>
           /\ e.type # "change" => Front(x)'
           /\ e.type = "change" => e.old = x /\ \A y : y = e.new => Front(y)'
  BY <1>1, TakeFacts
<1>3. \/ e.type = "change" /\ e.old \in Statuses /\ e.new \in Statuses
      \/ e.type # "change"
  BY <1>2, NewsFacts
<1> HIDE DEF e
<1>4. OffInv'
  BY <1>1 DEF OffInv
<1>5. SendInv'
  BY <1>1, <1>2 DEF SysInv, SendInv
<1>6. UpToDateInv'
  <2>1. PICK x \in Statuses : Front(x) /\ Tells(x)
    BY DEF SysInv, UpToDateInv
  <2>2. CASE e.type # "change"
    <3>1. silenced'
      BY <1>1, <2>2 DEF N!Interesting
    <3>2. Tells(x)'
      BY <1>1, <1>2, <3>1 DEF Tells
    <3> QED
      BY <1>2, <2>1, <2>2, <3>2 DEF UpToDateInv
  <2>3. CASE e.type = "change"
    <3> DEFINE y == e.new
    <3>1. y \in Statuses /\ e.old = x
      BY <1>2, <1>3, <2>1, <2>3
    <3>2. ~silenced' => ~silenced /\ (y \notin {"up", "down"} \/ y = x)
      BY <1>1, <2>3, <3>1 DEF N!Interesting
    <3> HIDE DEF y
    <3>3. \A z : z = y => Tells(z)'
      BY <1>1, <1>2, <2>1, <3>2 DEF Tells
    <3>4. \A z : z = y => Front(z)'
      BY <1>2, <2>1, <2>3 DEF y
    <3> QED
      BY <3>1, <3>3, <3>4 DEF UpToDateInv
  <2> QED
    BY <2>2, <2>3
<1>7. WindowInv'
  BY <1>1 DEF SysInv, WindowInv
<1> QED
  BY <1>2, <1>4, <1>5, <1>6, <1>7 DEF SysInv

\* What is published has a key of its kind.
LEMMA KeyFacts ==
  ASSUME NEW e \in News
  PROVE  N!KeyOf(e) \in N!Keys
<1>1. CASE e = RetryExhausted
  BY <1>1 DEF RetryExhausted, N!KeyOf, N!Keys
<1>2. CASE e.type = "change" /\ e.old \in Statuses /\ e.new \in Statuses
  <2>1. N!KeyOf(e) = <<e.old, e.new>>
    BY <1>2 DEF N!KeyOf
  <2>2. <<e.old, e.new>> \in Statuses \X Statuses
    BY <1>2
  <2> QED
    BY <2>1, <2>2 DEF N!Keys, N!Statuses, Statuses
<1> QED
  BY <1>1, <1>2, NewsFacts

\* An attempt tells where the events so far led to, and is noted with its time.
LEMMA AttemptKeeps ==
  ASSUME SysInv, pc # "off", N!Attempt,
         UNCHANGED <<pc, status, url, retries, proc, saved, osVars, starts>>
  PROVE  SysInv'
<1> DEFINE e == Head(queue)
           s == [event |-> e, number |-> taken']
<1>1. /\ N!Take
      /\ sentAt' = [sentAt EXCEPT ![N!KeyOf(e)] = now]
      /\ sending' = sending \cup {s}
      /\ attempted' = attempted \cup {[key |-> N!KeyOf(e), at |-> now]}
      /\ UNCHANGED <<busUp, now, told, silenced, pc>>
  BY DEF N!Attempt
<1>2. /\ IInv' /\ NewsInv' /\ EventsTellTheState'
      /\ busUp /\ sending = {} /\ taken' = taken + 1 /\ taken \in Nat
      /\ e \in News
      /\ \A x : Front(x) =>
           /\ e.type # "change" => Front(x)'
           /\ e.type = "change" => e.old = x /\ \A y : y = e.new => Front(y)'
  BY <1>1, TakeFacts
<1>3. s.event = e /\ s.number = taken + 1
  BY <1>2
<1>4. N!KeyOf(e) \in N!Keys
  BY <1>2, KeyFacts
<1>5. \/ e.type = "change" /\ e.old \in Statuses /\ e.new \in Statuses
      \/ e.type # "change"
  BY <1>2, NewsFacts
<1> HIDE DEF s, e
<1>6. sending' = {s}
  BY <1>1, <1>2
<1>7. OffInv'
  BY <1>1 DEF OffInv
<1>8. SendInv'
  BY <1>1, <1>2, <1>3, <1>6 DEF SysInv, SendInv
<1>9. UpToDateInv'
  <2>1. PICK x \in Statuses : Front(x) /\ Tells(x)
    BY DEF SysInv, UpToDateInv
  <2>2. CASE e.type # "change"
    <3>1. Tells(x)'
      BY <1>3, <1>6, <2>2 DEF Tells
    <3> QED
      BY <1>2, <2>1, <2>2, <3>1 DEF UpToDateInv
  <2>3. CASE e.type = "change"
    <3> DEFINE y == e.new
    <3>1. \A z : z = y => Tells(z)'
      BY <1>3, <1>6 DEF Tells
    <3>2. \A z : z = y => Front(z)'
      BY <1>2, <2>1, <2>3
    <3>3. y \in Statuses
      BY <1>5, <2>3
    <3> HIDE DEF y
    <3> QED
      BY <3>1, <3>2, <3>3 DEF UpToDateInv
  <2> QED
    BY <2>2, <2>3
<1>10. WindowInv'
  <2> DEFINE k == N!KeyOf(e)
  <2>1. /\ now \in Nat /\ sentAt \in [N!Keys -> Nat]
        /\ \A key \in N!Keys :
             sentAt[key] # 0 => [key |-> key, at |-> sentAt[key]] \in attempted
    BY DEF SysInv, WindowInv
  <2>2. /\ k \in N!Keys /\ sentAt' = [sentAt EXCEPT ![k] = now]
        /\ attempted' = attempted \cup {[key |-> k, at |-> now]}
    BY <1>1, <1>4
  <2> HIDE DEF k
  <2>3. sentAt' \in [N!Keys -> Nat]
    BY <2>1, <2>2
  <2>4. \A key \in N!Keys :
          sentAt'[key] # 0 => [key |-> key, at |-> sentAt'[key]] \in attempted'
    <3> SUFFICES ASSUME NEW key \in N!Keys, sentAt'[key] # 0
                 PROVE  [key |-> key, at |-> sentAt'[key]] \in attempted'
      OBVIOUS
    <3>1. CASE key = k
      BY <2>1, <2>2, <3>1
    <3>2. CASE key # k
      BY <2>1, <2>2, <3>2
    <3> QED
      BY <3>1, <3>2
  <2> QED
    BY <1>1, <2>1, <2>3, <2>4 DEF WindowInv
<1> QED
  BY <1>2, <1>7, <1>8, <1>9, <1>10 DEF SysInv

\* What is delivered is the latest, and told from then on; what fails is not.
LEMMA SentKeeps ==
  ASSUME SysInv, pc # "off", NEW s \in sending, N!Delivered(s) \/ N!SendFails(s),
         UNCHANGED <<pc, status, url, retries, proc, saved, osVars, starts>>
  PROVE  SysInv'
<1>1. /\ sending' = sending \ {s}
      /\ \/ told' = s /\ silenced' = FALSE
         \/ told' = told /\ silenced' = TRUE
      /\ UNCHANGED <<queue, busUp, taken, sentAt, now, attempted, pc>>
  BY DEF N!Delivered, N!SendFails
<1>2. IInv' /\ NewsInv' /\ EventsTellTheState' /\ \A x : Front(x) => Front(x)'
  BY <1>1, QueueKept
<1>3. sending' = {}
  BY <1>1 DEF SysInv, SendInv
<1>4. OffInv'
  BY <1>1 DEF OffInv
<1>5. SendInv'
  BY <1>1, <1>3 DEF SysInv, SendInv
<1>6. UpToDateInv'
  <2>1. PICK x \in Statuses : Front(x) /\ Tells(x)
    BY DEF SysInv, UpToDateInv
  <2>2. Tells(x)'
    BY <1>1, <1>3, <2>1 DEF Tells
  <2> QED
    BY <1>2, <2>1, <2>2 DEF UpToDateInv
<1>7. WindowInv'
  BY <1>1 DEF SysInv, WindowInv
<1> QED
  BY <1>2, <1>4, <1>5, <1>6, <1>7 DEF SysInv

\* Time passes, or the bus is stopped, and nothing is told.
LEMMA TickOrStopBusKeeps ==
  ASSUME SysInv, pc # "off", N!Tick \/ N!StopBus,
         UNCHANGED <<pc, status, url, retries, proc, saved, osVars, starts>>
  PROVE  SysInv'
<1>1. /\ UNCHANGED <<queue, taken, sentAt, told, attempted, silenced, pc>>
      /\ \/ now' = now + 1 /\ UNCHANGED <<busUp, sending>>
         \/ now' = now /\ busUp' = FALSE /\ sending' = {}
  BY DEF N!Tick, N!StopBus
<1>2. IInv' /\ NewsInv' /\ EventsTellTheState' /\ \A x : Front(x) => Front(x)'
  BY <1>1, QueueKept
<1>3. OffInv'
  BY <1>1 DEF OffInv
<1>4. SendInv'
  BY <1>1 DEF SysInv, SendInv
<1>5. UpToDateInv'
  <2>1. PICK x \in Statuses : Front(x) /\ Tells(x)
    BY DEF SysInv, UpToDateInv
  <2>2. Tells(x)'
    BY <1>1, <2>1 DEF Tells
  <2> QED
    BY <1>2, <2>1, <2>2 DEF UpToDateInv
<1>6. WindowInv'
  <2>1. now' \in Nat
    BY <1>1 DEF SysInv, WindowInv
  <2> QED
    BY <1>1, <2>1 DEF SysInv, WindowInv
<1> QED
  BY <1>2, <1>3, <1>4, <1>5, <1>6 DEF SysInv

\* Every step of the system keeps the invariant.
LEMMA SysStepKeeps == SysInv /\ [SysNext]_sysVars => SysInv'
<1> SUFFICES ASSUME SysInv, [SysNext]_sysVars PROVE SysInv'
  OBVIOUS
<1>1. CASE NotifierStep
  BY <1>1, SuppressKeeps, AttemptKeeps, SentKeeps, TickOrStopBusKeeps DEF NotifierStep, N!Notifier
<1>2. CASE ShutdownStep
  <2>1. pc # "off"
    BY <1>2 DEF ShutdownStep
  <2> QED
    BY <1>2, <2>1, TickOrStopBusKeeps DEF ShutdownStep
<1>3. CASE UNCHANGED sysVars
  <2>1. /\ UNCHANGED <<pc, status, url, retries, proc, saved, queue, osVars, starts>>
        /\ UNCHANGED <<busUp, taken, sending, sentAt, now, told, attempted, silenced>>
    BY <1>3 DEF sysVars, tunnelVars, notifierVars, osVars
  <2>2. IInv' /\ NewsInv' /\ EventsTellTheState' /\ \A x : Front(x) => Front(x)'
    BY <2>1, QueueKept
  <2>3. OffInv' /\ SendInv' /\ WindowInv'
    BY <2>1 DEF SysInv, OffInv, SendInv, WindowInv
  <2>4. UpToDateInv'
    <3>1. PICK x \in Statuses : Front(x) /\ Tells(x)
      BY DEF SysInv, UpToDateInv
    <3>2. Tells(x)'
      BY <2>1, <3>1 DEF Tells
    <3> QED
      BY <2>2, <3>1, <3>2 DEF UpToDateInv
  <2> QED
    BY <2>2, <2>3, <2>4 DEF SysInv
<1> QED
  BY <1>1, <1>2, <1>3, ManagerStepKeeps, SysCrashKeeps DEF SysNext

\* The system starts with nothing told and nothing to tell.
LEMMA SysInitInv == SysInit => SysInv
<1> SUFFICES ASSUME SysInit PROVE SysInv
  OBVIOUS
<1>1. /\ IInv /\ pc = "off" /\ status = "stopped" /\ queue = <<>>
      /\ taken = 0 /\ sending = {} /\ sentAt = [key \in N!Keys |-> 0] /\ now = StartTime
      /\ told = None /\ attempted = {}
  BY InitInv DEF SysInit, Init, N!InitNotifier
<1>2. Changes = {}
  BY <1>1 DEF Changes
<1>3. OffInv /\ NewsInv /\ EventsTellTheState /\ SendInv
  BY <1>1, <1>2 DEF OffInv, NewsInv, EventsTellTheState, SendInv
<1>4. UpToDateInv
  <2>1. Front("stopped") /\ Tells("stopped") /\ "stopped" \in Statuses
    BY <1>1, <1>2 DEF Front, Tells, Statuses
  <2> QED
    BY <2>1 DEF UpToDateInv
<1>5. WindowInv
  BY <1>1, WindowsAssumption DEF WindowInv
<1> QED
  BY <1>1, <1>3, <1>4, <1>5 DEF SysInv

-----------------------------------------------------------------------------
\* The inductive invariant holds in every reachable state of the system.
THEOREM SysInvariance == SysSpec => []SysInv
BY SysInitInv, SysStepKeeps, PTL DEF SysSpec

\* With the bus and the notifier around it, too, the bot loses sight of no ngrok
\* it started.
THEOREM OwnNgrokInSystem == SysSpec => []OwnNgrokIsKnown
<1>1. SysInv => OwnNgrokIsKnown
  BY DEF SysInv, IInv
<1> QED
  BY <1>1, SysInvariance, PTL

\* Whoever follows the events arrives at the manager's state, and the admin, when
\* all is dispatched and no news was suppressed or lost, was last told of it.
THEOREM UpToDate == SysSpec => []AdminIsUpToDate
<1>1. SysInv => AdminIsUpToDate
  <2> SUFFICES ASSUME SysInv, AllTold, told # None, told.event.type = "change",
                      status \in {"up", "down"}
               PROVE  EventsTellTheState /\ told.event.new = status
    BY DEF AdminIsUpToDate, SysInv
  <2>1. PICK x \in Statuses : Front(x) /\ Tells(x)
    BY DEF SysInv, UpToDateInv
  <2>2. x = status
    BY <2>1 DEF AllTold, Front, Changes
  <2> QED
    BY <2>1, <2>2 DEF AllTold, Tells, SysInv
<1> QED
  BY <1>1, SysInvariance, PTL

\* The admin is told things in the order in which they happened.
THEOREM InOrder == SysSpec => ToldInOrder
<1>1. SysInv /\ [SysNext]_sysVars
        => [told # None /\ told' # None => told.number <= told'.number]_sysVars
  <2> SUFFICES ASSUME SysInv, SysNext, told # None, told' # None
               PROVE  told.number <= told'.number
    OBVIOUS
  <2>1. SendInv
    BY DEF SysInv
  <2>2. told' = told \/ told' \in sending \/ told' = None
    BY DEF SysNext, SysCrash, ManagerStep, NotifierStep, ShutdownStep, notifierVars,
       N!Notifier, N!Suppress, N!Attempt, N!Tick, N!Delivered, N!SendFails, N!StopBus
  <2> QED
    BY <2>1, <2>2 DEF SendInv
<1> QED
  BY <1>1, SysInvariance, PTL DEF SysSpec, ToldInOrder

\* News that is suppressed is the same as this program tried to send within the
\* window, or the host has been up for less than the window.
THEOREM OnlyRepeats == SysSpec => OnlyRepeatsAreSuppressed
<1>1. ASSUME SysInv, N!Suppress, N!Interesting(Head(queue)),
             NEW key, key = N!KeyOf(Head(queue))
      PROVE  \/ \E a \in attempted : a.key = key /\ now - a.at < N!WindowOf(key)
             \/ now < N!WindowOf(key)
  <2>1. N!Take /\ N!Deduped(Head(queue))
    BY <1>1 DEF N!Suppress
  <2>2. Head(queue) \in News
    <3>1. queue \in Seq(Events) /\ queue # <<>> /\ NewsInv
      BY <1>1, <2>1 DEF N!Take, SysInv, IInv, TypeOK
    <3>2. 1 \in DOMAIN queue /\ Head(queue) = queue[1]
      BY <3>1
    <3> QED
      BY <3>1, <3>2 DEF NewsInv
  <2>3. key \in N!Keys
    BY <1>1, <2>2, KeyFacts
  <2>4. now - sentAt[key] < N!WindowOf(key)
    BY <1>1, <2>1 DEF N!Deduped
  <2>5. /\ now \in Nat
        /\ sentAt[key] # 0 => [key |-> key, at |-> sentAt[key]] \in attempted
    BY <1>1, <2>3 DEF SysInv, WindowInv
  <2>6. CASE sentAt[key] = 0
    BY <2>4, <2>5, <2>6
  <2>7. CASE sentAt[key] # 0
    <3> DEFINE a == [key |-> key, at |-> sentAt[key]]
    <3>1. a \in attempted /\ a.key = key /\ a.at = sentAt[key]
      BY <2>5, <2>7
    <3> HIDE DEF a
    <3> QED
      BY <2>4, <3>1
  <2> QED
    BY <2>6, <2>7
<1>2. SysInv /\ [SysNext]_sysVars
        => [LET key == N!KeyOf(Head(queue)) IN
            N!Suppress /\ N!Interesting(Head(queue))
              => \/ \E a \in attempted : a.key = key /\ now - a.at < N!WindowOf(key)
                 \/ now < N!WindowOf(key)]_sysVars
  BY <1>1
<1> QED
  BY <1>2, SysInvariance, PTL DEF SysSpec, OnlyRepeatsAreSuppressed
=============================================================================
