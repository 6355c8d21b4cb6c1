------------------------ MODULE TunnelManager_proofs ------------------------
(***************************************************************************)
(* Type correctness of TunnelManager, and that the bot never loses sight   *)
(* of an ngrok it started, for any URLs, retries and bounds.               *)
(***************************************************************************)
EXTENDS TunnelManager, TLAPS

\* The inductive invariant: a new incarnation has started nothing yet, and in a
\* backoff there is no process to lose.
IInv ==
  /\ TypeOK
  /\ OwnNgrokIsKnown
  /\ pc = "off" => mine = {}
  /\ pc \in {"off", "backoff"} => proc = None

-----------------------------------------------------------------------------
\* An event for each change of the state is an event.
LEMMA ChangeIsEvent ==
  ASSUME NEW old \in Statuses, NEW new \in Statuses, NEW u \in Urls \cup {None}
  PROVE  StateChange(old, new, u) \in Events /\ RetryExhausted \in Events
BY DEF StateChange, RetryExhausted, Events

\* _set_state keeps the types of what it writes.
LEMMA SetStateType ==
  ASSUME TypeOK,
         NEW old \in Statuses, NEW oldUrl, NEW count \in Nat,
         NEW new \in Statuses, NEW u \in Urls \cup {None},
         NEW events \in Seq(Events),
         SetState(old, oldUrl, count, new, u, events)
  PROVE  /\ status' \in Statuses
         /\ url' \in Urls \cup {None}
         /\ saved' \in [url : Urls \cup {None}, retries : Nat] \cup {None}
         /\ queue' \in Seq(Events)
<1>1. StateChange(old, new, u) \in Events
  BY ChangeIsEvent
<1>2. status' = new /\ url' = u
  BY DEF SetState
<1>3. CASE old = new /\ oldUrl = u
  <2>1. queue' = queue \o events /\ saved' = saved
    BY <1>3 DEF SetState
  <2> QED
    BY <1>2, <2>1 DEF TypeOK
<1>4. CASE ~(old = new /\ oldUrl = u)
  <2>1. /\ queue' = queue \o <<StateChange(old, new, u)>> \o events
        /\ saved' = [url |-> u, retries |-> count]
    BY <1>4 DEF SetState
  <2>2. queue \in Seq(Events)
    BY DEF TypeOK
  <2>3. queue' \in Seq(Events)
    BY <1>1, <2>1, <2>2
  <2> QED
    BY <1>2, <2>1, <2>3
<1> QED
  BY <1>3, <1>4

\* _spawn_ngrok keeps the types, and when nothing of the bot's runs before it,
\* nothing but self._process does after it.
LEMMA SpawnNgrokKeeps ==
  ASSUME TypeOK, live \cap mine = {}, proc = None,
         NEW old \in Statuses, NEW oldUrl \in Urls \cup {None}, NEW count \in Nat,
         SpawnNgrok(old, oldUrl, count)
  PROVE  /\ status' \in Statuses
         /\ url' \in Urls \cup {None}
         /\ saved' \in [url : Urls \cup {None}, retries : Nat] \cup {None}
         /\ queue' \in Seq(Events)
         /\ proc' \in Spawned \cup {None}
         /\ live' \subseteq Spawned \cup {Foreign}
         /\ mine' \subseteq Spawned
         /\ spawns' \in 0..MaxSpawns
         /\ live' \cap mine' \subseteq {proc'}
<1>1. CASE /\ live # {}
           /\ proc' = None
           /\ status' = old /\ url' = oldUrl
           /\ UNCHANGED <<saved, queue, live, mine, spawns>>
  BY <1>1 DEF TypeOK
<1>2. CASE /\ live = {}
           /\ spawns < MaxSpawns
           /\ spawns' = spawns + 1
           /\ proc' = spawns'
           /\ live' = {spawns'}
           /\ mine' = mine \cup {spawns'}
           /\ status' = old /\ url' = oldUrl
           /\ UNCHANGED <<saved, queue>>
  <2>1. spawns' \in 1..MaxSpawns
    BY <1>2, TunnelBoundsAssumption DEF TypeOK
  <2> QED
    BY <1>2, <2>1 DEF TypeOK, Spawned
<1>3. CASE /\ live = {}
           /\ SetState(old, oldUrl, count, "error", None, <<>>)
           /\ UNCHANGED <<proc, live, mine, spawns>>
  <2>1. "error" \in Statuses /\ <<>> \in Seq(Events)
    BY DEF Statuses
  <2>2. /\ status' \in Statuses
        /\ url' \in Urls \cup {None}
        /\ saved' \in [url : Urls \cup {None}, retries : Nat] \cup {None}
        /\ queue' \in Seq(Events)
    BY <1>3, <2>1, SetStateType
  <2> QED
    BY <1>3, <2>2 DEF TypeOK
<1> QED
  BY <1>1, <1>2, <1>3 DEF SpawnNgrok

\* Once self._process is terminated nothing the bot started runs.
LEMMA TerminatedIsGone ==
  ASSUME TypeOK, OwnNgrokIsKnown, NEW processes, processes \subseteq OwnTerminated,
         Left(processes)
  PROVE  /\ live' \subseteq live
         /\ live' \cap mine = {}
         /\ served' \in Urls \cup {None}
<1>1. None \notin mine
  <2>1. mine \subseteq Nat
    BY TunnelBoundsAssumption DEF TypeOK, Spawned
  <2> QED
    BY <2>1, NoneAssumption
<1>2. OwnTerminated \cap mine = {} /\ OwnTerminated \subseteq live
  BY <1>1 DEF OwnTerminated, OwnNgrokIsKnown
<1>3. served' \in Urls \cup {None}
  BY DEF Left, TypeOK
<1> QED
  BY <1>2, <1>3 DEF Left

-----------------------------------------------------------------------------
\* Before the first start nothing of the bot runs.
LEMMA InitInv == Init => IInv
<1> SUFFICES ASSUME Init PROVE IInv
  OBVIOUS
<1>1. TypeOK
  BY TunnelBoundsAssumption DEF Init, TypeOK, Statuses, Spawned
<1> QED
  BY <1>1 DEF Init, IInv, OwnNgrokIsKnown

\* start() spawns at most one ngrok, and knows it.
LEMMA StartKeeps == IInv /\ Start => IInv'
<1> SUFFICES ASSUME IInv, Start PROVE IInv'
  OBVIOUS
<1> DEFINE state == IF saved = None THEN [url |-> None, retries |-> 0] ELSE saved
<1>1. TypeOK /\ mine = {} /\ proc = None
  BY DEF IInv, Start
<1>2. state.url \in Urls \cup {None} /\ state.retries \in Nat
  BY <1>1 DEF TypeOK
<1>3. retries' = state.retries /\ SpawnNgrok("stopped", state.url, state.retries)
  BY DEF Start
<1>4. "stopped" \in Statuses
  BY DEF Statuses
<1> HIDE DEF state
<1>5. /\ status' \in Statuses
      /\ url' \in Urls \cup {None}
      /\ saved' \in [url : Urls \cup {None}, retries : Nat] \cup {None}
      /\ queue' \in Seq(Events)
      /\ proc' \in Spawned \cup {None}
      /\ live' \subseteq Spawned \cup {Foreign}
      /\ mine' \subseteq Spawned
      /\ spawns' \in 0..MaxSpawns
      /\ live' \cap mine' \subseteq {proc'}
  BY <1>1, <1>2, <1>3, <1>4, SpawnNgrokKeeps
<1>6. pc' = "polling" /\ starts' \in 0..MaxStarts /\ UNCHANGED <<served, faults>>
  BY <1>1, TunnelBoundsAssumption DEF Start, TypeOK
<1>7. TypeOK'
  BY <1>1, <1>2, <1>3, <1>5, <1>6 DEF TypeOK
<1> QED
  BY <1>5, <1>6, <1>7 DEF IInv, OwnNgrokIsKnown

\* A poll that finds a tunnel starts and ends nothing.
LEMMA PollUpKeeps == IInv /\ PollUp => IInv'
<1> SUFFICES ASSUME IInv, PollUp PROVE IInv'
  OBVIOUS
<1>1. TypeOK
  BY DEF IInv
<1>2. /\ SetState(status, url, retries, "up", served, <<>>)
      /\ retries' = 0 /\ pc = "polling"
      /\ UNCHANGED <<pc, proc, live, mine, served, spawns, faults, starts>>
  BY DEF PollUp, osVars
<1>3. "up" \in Statuses /\ <<>> \in Seq(Events)
  BY DEF Statuses
<1>4. status \in Statuses /\ retries \in Nat /\ served \in Urls \cup {None}
  BY <1>1 DEF TypeOK
<1>5. /\ status' \in Statuses
      /\ url' \in Urls \cup {None}
      /\ saved' \in [url : Urls \cup {None}, retries : Nat] \cup {None}
      /\ queue' \in Seq(Events)
  BY <1>1, <1>2, <1>3, <1>4, SetStateType
<1>6. TypeOK'
  BY <1>1, <1>2, <1>5 DEF TypeOK
<1> QED
  BY <1>2, <1>6 DEF IInv, OwnNgrokIsKnown

\* A fall ends the process the bot knows, or leaves it as it is.
LEMMA TunnelDownKeeps == IInv /\ TunnelDown => IInv'
<1> SUFFICES ASSUME IInv, TunnelDown PROVE IInv'
  OBVIOUS
<1>1. TypeOK /\ OwnNgrokIsKnown
  BY DEF IInv
<1>2. "up" \in Statuses /\ "down" \in Statuses /\ None \in Urls \cup {None}
      /\ <<>> \in Seq(Events) /\ retries \in Nat
  BY <1>1 DEF Statuses, TypeOK
<1>3. /\ pc = "polling"
      /\ faults' \in 0..MaxFaults
      /\ UNCHANGED <<mine, spawns, starts>>
  BY <1>1, TunnelBoundsAssumption DEF TunnelDown, TypeOK
<1>4. CASE retries >= RetryLimit
  <2>1. /\ SetState("up", url, retries, "down", None, <<RetryExhausted>>)
        /\ UNCHANGED <<pc, retries, proc, live, served>>
    BY <1>4 DEF TunnelDown
  <2>2. RetryExhausted \in Events
    BY <1>2, ChangeIsEvent
  <2>3. <<RetryExhausted>> \in Seq(Events)
    BY <2>2
  <2>4. /\ status' \in Statuses
        /\ url' \in Urls \cup {None}
        /\ saved' \in [url : Urls \cup {None}, retries : Nat] \cup {None}
        /\ queue' \in Seq(Events)
    BY <1>1, <1>2, <2>1, <2>3, SetStateType
  <2>5. TypeOK'
    BY <1>1, <1>3, <2>1, <2>4 DEF TypeOK
  <2> QED
    BY <1>1, <1>3, <2>1, <2>5 DEF IInv, OwnNgrokIsKnown
<1>5. CASE ~(retries >= RetryLimit)
  <2>1. /\ SetState("up", url, retries, "down", None, <<>>)
        /\ retries' = retries + 1
        /\ Left(OwnTerminated)
        /\ proc' = None
        /\ pc' = "backoff"
    BY <1>5 DEF TunnelDown
  <2>2. /\ live' \subseteq live
        /\ live' \cap mine = {}
        /\ served' \in Urls \cup {None}
    BY <1>1, <2>1, TerminatedIsGone
  <2>3. /\ status' \in Statuses
        /\ url' \in Urls \cup {None}
        /\ saved' \in [url : Urls \cup {None}, retries : Nat] \cup {None}
        /\ queue' \in Seq(Events)
    BY <1>1, <1>2, <2>1, SetStateType
  <2>4. TypeOK'
    BY <1>1, <1>2, <1>3, <2>1, <2>2, <2>3 DEF TypeOK
  <2> QED
    BY <1>3, <2>1, <2>2, <2>4 DEF IInv, OwnNgrokIsKnown
<1> QED
  BY <1>4, <1>5

\* The restart comes when the old process is gone.
LEMMA BackoffDoneKeeps == IInv /\ BackoffDone => IInv'
<1> SUFFICES ASSUME IInv, BackoffDone PROVE IInv'
  OBVIOUS
<1>1. /\ TypeOK
      /\ live \cap mine = {}
      /\ SpawnNgrok(status, url, retries)
      /\ pc' = "polling"
      /\ UNCHANGED <<retries, served, faults, starts>>
  BY DEF IInv, OwnNgrokIsKnown, BackoffDone
<1>2. status \in Statuses /\ url \in Urls \cup {None} /\ retries \in Nat
  BY <1>1 DEF TypeOK
<1>3. proc = None
  BY DEF IInv, BackoffDone
<1>4. /\ status' \in Statuses
      /\ url' \in Urls \cup {None}
      /\ saved' \in [url : Urls \cup {None}, retries : Nat] \cup {None}
      /\ queue' \in Seq(Events)
      /\ proc' \in Spawned \cup {None}
      /\ live' \subseteq Spawned \cup {Foreign}
      /\ mine' \subseteq Spawned
      /\ spawns' \in 0..MaxSpawns
      /\ live' \cap mine' \subseteq {proc'}
  BY <1>1, <1>2, <1>3, SpawnNgrokKeeps
<1>5. TypeOK'
  BY <1>1, <1>4 DEF TypeOK
<1> QED
  BY <1>1, <1>4, <1>5 DEF IInv, OwnNgrokIsKnown

\* stop() leaves nothing of the bot running.
LEMMA StopKeeps == IInv /\ Stop => IInv'
<1> SUFFICES ASSUME IInv, Stop PROVE IInv'
  OBVIOUS
<1>1. /\ TypeOK /\ OwnNgrokIsKnown
      /\ Left(OwnTerminated)
      /\ pc' = "stopped" /\ proc' = None
      /\ UNCHANGED <<status, url, retries, saved, queue, mine, spawns, faults, starts>>
  BY DEF IInv, Stop, stateVars
<1>2. /\ live' \subseteq live
      /\ live' \cap mine = {}
      /\ served' \in Urls \cup {None}
  BY <1>1, TerminatedIsGone
<1>3. TypeOK'
  BY <1>1, <1>2 DEF TypeOK
<1> QED
  BY <1>1, <1>2, <1>3 DEF IInv, OwnNgrokIsKnown

\* What is left when the program is gone.
LEMMA ForgetKeeps ==
  ASSUME TypeOK, Forget,
         live' \subseteq live,
         served' \in Urls \cup {None},
         saved' \in [url : Urls \cup {None}, retries : Nat] \cup {None}
  PROVE  IInv'
<1>1. TypeOK'
  BY DEF Forget, TypeOK, Statuses
<1> QED
  BY <1>1 DEF Forget, IInv, OwnNgrokIsKnown

\* The end of the program keeps the invariant.
LEMMA ExitKeeps == IInv /\ Exit => IInv'
<1> SUFFICES ASSUME IInv, Exit PROVE IInv'
  OBVIOUS
<1>1. TypeOK /\ Forget /\ UNCHANGED <<saved, live, served>>
  BY DEF IInv, Exit
<1> QED
  BY <1>1, ForgetKeeps DEF TypeOK

\* A crash makes whatever still runs somebody else's.
LEMMA CrashKeeps == IInv /\ Crash => IInv'
<1> SUFFICES ASSUME IInv, Crash PROVE IInv'
  OBVIOUS
<1>1. TypeOK /\ Forget /\ saved' \in {saved, None}
  BY DEF IInv, Crash
<1>2. PICK processes \in {live, OwnTerminated} : Left(processes)
  BY DEF Crash
<1>3. live' \subseteq live /\ served' \in Urls \cup {None}
  BY <1>1, <1>2 DEF Left, OwnTerminated, TypeOK
<1> QED
  BY <1>1, <1>3, ForgetKeeps DEF TypeOK

\* ngrok starts nothing in the bot's name.
LEMMA NgrokKeeps == IInv /\ Ngrok => IInv'
<1> SUFFICES ASSUME IInv, Ngrok PROVE IInv'
  OBVIOUS
<1>1. /\ TypeOK /\ OwnNgrokIsKnown
      /\ UNCHANGED <<pc, status, url, retries, saved, queue, proc, mine, spawns, starts>>
  BY DEF IInv, Ngrok, Serve, ChangeUrl, LoseTunnel, Die, ForeignStarts, stateVars
<1>2. faults' \in 0..MaxFaults /\ served' \in Urls \cup {None}
  BY <1>1, TunnelBoundsAssumption
    DEF TypeOK, Ngrok, Serve, ChangeUrl, LoseTunnel, Die, ForeignStarts, Left
<1>3. live' \subseteq live \cup {Foreign}
  BY DEF Ngrok, Serve, ChangeUrl, LoseTunnel, Die, ForeignStarts, Left
<1>4. Foreign \notin mine
  BY <1>1 DEF TypeOK, Spawned, Foreign
<1>5. TypeOK'
  BY <1>1, <1>2, <1>3 DEF TypeOK
<1> QED
  BY <1>1, <1>3, <1>4, <1>5 DEF IInv, OwnNgrokIsKnown

\* Every step keeps the invariant.
LEMMA StepKeeps == IInv /\ [Next]_tunnelVars => IInv'
<1> SUFFICES ASSUME IInv, [Next]_tunnelVars PROVE IInv'
  OBVIOUS
<1>1. CASE UNCHANGED tunnelVars
  BY <1>1 DEF tunnelVars, osVars, IInv, TypeOK, OwnNgrokIsKnown
<1>2. CASE Manager
  BY <1>2, StartKeeps, PollUpKeeps, TunnelDownKeeps, BackoffDoneKeeps, StopKeeps,
     ExitKeeps, CrashKeeps DEF Manager
<1>3. CASE Ngrok
  BY <1>3, NgrokKeeps
<1> QED
  BY <1>1, <1>2, <1>3 DEF Next

\* The inductive invariant holds in every reachable state.
THEOREM Invariance == Spec => []IInv
BY InitInv, StepKeeps, PTL DEF Spec

\* Every variable of the manager keeps its type, across crashes and restarts.
THEOREM TypeCorrect == Spec => []TypeOK
<1>1. IInv => TypeOK
  BY DEF IInv
<1> QED
  BY <1>1, Invariance, PTL

\* Whenever stop() or a restart comes, no ngrok the bot started is left behind.
THEOREM OwnNgrok == Spec => []OwnNgrokIsKnown
<1>1. IInv => OwnNgrokIsKnown
  BY DEF IInv
<1> QED
  BY <1>1, Invariance, PTL
=============================================================================
