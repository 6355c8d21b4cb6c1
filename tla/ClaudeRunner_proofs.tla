------------------------ MODULE ClaudeRunner_proofs ------------------------
(***************************************************************************)
(* The safety properties of ClaudeRunner for any set of calls and any      *)
(* limit, and that it implements RunSlots.                                 *)
(***************************************************************************)
EXTENDS ClaudeRunner, FiniteSetTheorems, SequenceTheorems, TLAPS

\* The calls in the semaphore's queue, each once, are those queued.
QueueInv ==
  /\ \A i \in 1..Len(waitq) : pc[waitq[i]] = "queued"
  /\ \A i, j \in 1..Len(waitq) : waitq[i] = waitq[j] => i = j

\* What one call knows of its own two process groups.
CallInv(c) ==
  /\ pc[c] \in {"idle", "queued"} => attempt[c] = 0 /\ holder[c] = NoProc
  /\ pc[c] \in Awaiting => attempt[c] # 0
  /\ attempt[c] = 2 => ~resume[c] /\ leader[<<c, 1>>] = "collected"
  /\ \A n \in Attempts : n > attempt[c] => leader[<<c, n>>] = "none"
  /\ pc[c] \in {"output", "grace", "reap"} => holder[c] = <<c, attempt[c]>>
  /\ pc[c] = "launch" =>
       holder[c] = NoProc \/ (holder[c] = <<c, 1>> /\ attempt[c] = 2)
  /\ pc[c] = "kill" =>
       \/ holder[c] = <<c, attempt[c]>>
       \/ /\ leader[<<c, attempt[c]>>] = "collected"
          /\ holder[c] = NoProc \/ (holder[c] = <<c, 1>> /\ attempt[c] = 2)
  /\ pc[c] \in Finished => \A n \in Attempts : leader[<<c, n>>] # "running"
  /\ \A n \in Attempts : <<c, n>> \in signalled =>
       /\ n = attempt[c]
       /\ pc[c] \in {"grace", "reap", "timeout", "cancelled"}

UpInv == up => \A c \in Calls : pc[c] # "cancelled"

\* The inductive invariant.
IInv ==
  /\ TypeOK
  /\ QueueInv
  /\ UpInv
  /\ SlotAccounting
  /\ \A c \in Calls : CallInv(c)

-----------------------------------------------------------------------------
USE DEF Attempts, Groups, PCs, Awaiting, Finished, LeaderStates, HelperStates

\* The slots in use can be counted.
LEMMA InSlotFinite ==
  /\ IsFiniteSet(InSlot) /\ Cardinality(InSlot) \in Nat
  /\ IsFiniteSet(InSlot') /\ Cardinality(InSlot') \in Nat
<1>1. InSlot \in SUBSET Calls /\ InSlot' \in SUBSET Calls
  BY DEF InSlot
<1> QED
  BY <1>1, CallsAssumption, FS_Subset, FS_CardinalityType

\* A call that takes a slot adds one to the slots in use ...
LEMMA TakesSlot ==
  ASSUME NEW c \in Calls, c \notin InSlot, InSlot' = InSlot \cup {c}
  PROVE  Cardinality(InSlot') = Cardinality(InSlot) + 1
BY InSlotFinite, FS_AddElement

\* ... and one that leaves the semaphore takes one away.
LEMMA GivesSlot ==
  ASSUME NEW c \in Calls, c \in InSlot, InSlot' = InSlot \ {c}
  PROVE  Cardinality(InSlot') = Cardinality(InSlot) - 1 /\ Cardinality(InSlot) > 0
BY InSlotFinite, FS_RemoveElement, FS_EmptySet

\* Changing the leader of one group leaves the leaders of the others alone.
LEMMA LeaderUpdate ==
  ASSUME NEW c \in Calls, NEW m \in Attempts, NEW v,
         leader \in [Groups -> LeaderStates],
         leader' = [leader EXCEPT ![<<c, m>>] = v]
  PROVE  /\ leader'[<<c, m>>] = v
         /\ \A d \in Calls, n \in Attempts :
              d # c \/ n # m => leader'[<<d, n>>] = leader[<<d, n>>]
OBVIOUS

\* A call whose own variables and groups a step leaves alone keeps its CallInv.
LEMMA CallFrame ==
  ASSUME NEW d \in Calls, CallInv(d),
         pc'[d] = pc[d], resume'[d] = resume[d],
         attempt'[d] = attempt[d], holder'[d] = holder[d],
         \A n \in Attempts : leader'[<<d, n>>] = leader[<<d, n>>],
         \A n \in Attempts : <<d, n>> \in signalled' <=> <<d, n>> \in signalled,
         attempt[d] \in 0..2, pc[d] \in PCs
  PROVE  CallInv(d)'
BY DEF CallInv

\* A call that has launched nothing has no group and was not signalled.
LEMMA NothingLaunched ==
  ASSUME NEW c \in Calls, CallInv(c), pc[c] \in {"idle", "queued"}
  PROVE  /\ attempt[c] = 0 /\ holder[c] = NoProc
         /\ \A n \in Attempts : leader[<<c, n>>] = "none"
         /\ \A n \in Attempts : <<c, n>> \notin signalled
<1>1. attempt[c] = 0 /\ holder[c] = NoProc
  BY DEF CallInv
<1> QED
  BY <1>1 DEF CallInv

\* A call that is waiting for its CLI has launched one or two.
LEMMA HasLaunched ==
  ASSUME TypeOK, NEW c \in Calls, CallInv(c), pc[c] \in Awaiting
  PROVE  attempt[c] \in Attempts /\ <<c, attempt[c]>> \in Groups
<1>1. attempt[c] # 0
  BY DEF CallInv
<1>2. attempt[c] \in 0..2
  BY DEF TypeOK
<1> QED
  BY <1>1, <1>2

-----------------------------------------------------------------------------
\* The initial states satisfy the inductive invariant.
LEMMA InitIInv == Init => IInv
<1> SUFFICES ASSUME Init PROVE IInv
  OBVIOUS
<1>1. InSlot = {}
  BY DEF InSlot, Init
<1>2. Cardinality(InSlot) = 0
  BY <1>1, FS_EmptySet
<1> QED
  BY <1>2, LimitAssumption, NoProcAssumption
  DEF IInv, Init, TypeOK, QueueInv, UpInv, SlotAccounting, CallInv

\* A new call joins the end of the queue.
LEMMA InvokeStep ==
  ASSUME TypeOK, QueueInv, UpInv, SlotAccounting, \A d \in Calls : CallInv(d),
         NEW c \in Calls, Invoke(c)
  PROVE  IInv'
<1>1. TypeOK'
  BY DEF TypeOK, Invoke, osVars
<1>2. QueueInv'
  <2>1. \A i \in 1..Len(waitq) : waitq[i] # c
    BY DEF QueueInv, Invoke, TypeOK
  <2>2. /\ Len(waitq') = Len(waitq) + 1
        /\ \A i \in 1..Len(waitq) : waitq'[i] = waitq[i]
        /\ waitq'[Len(waitq) + 1] = c
    BY DEF Invoke, TypeOK
  <2>3. \A i \in 1..Len(waitq') : waitq'[i] = c <=> i = Len(waitq) + 1
    BY <2>1, <2>2 DEF TypeOK
  <2>4. \A i \in 1..Len(waitq') : pc'[waitq'[i]] = "queued"
    BY <2>2, <2>3 DEF QueueInv, Invoke, TypeOK
  <2>5. \A i, j \in 1..Len(waitq') : waitq'[i] = waitq'[j] => i = j
    BY <2>2, <2>3 DEF QueueInv, TypeOK
  <2> QED
    BY <2>4, <2>5 DEF QueueInv
<1>3. UpInv'
  BY DEF UpInv, Invoke, TypeOK
<1>4. SlotAccounting'
  <2>1. InSlot' = InSlot
    BY DEF InSlot, Invoke, TypeOK
  <2> QED
    BY <2>1 DEF SlotAccounting, Invoke
<1>5. /\ pc' = [pc EXCEPT ![c] = "queued"] /\ attempt' = attempt /\ holder' = holder
      /\ leader' = leader /\ signalled' = signalled /\ pc[c] = "idle"
      /\ \A d \in Calls : d # c => resume'[d] = resume[d]
  BY DEF Invoke, TypeOK, osVars
<1>6. CallInv(c)'
  <2>1. /\ pc'[c] = "queued" /\ attempt'[c] = 0 /\ holder'[c] = NoProc
        /\ \A n \in Attempts : leader'[<<c, n>>] = "none" /\ <<c, n>> \notin signalled'
    BY <1>5, NothingLaunched DEF TypeOK
  <2> QED
    BY <2>1 DEF CallInv
<1>7. ASSUME NEW d \in Calls, d # c PROVE CallInv(d)'
  BY <1>5, <1>7, CallFrame DEF TypeOK
<1> QED
  BY <1>1, <1>2, <1>3, <1>4, <1>6, <1>7 DEF IInv

\* Taking the head of the queue leaves a queue of queued calls.
LEMMA DequeueInv ==
  ASSUME TypeOK, QueueInv, waitq # <<>>, waitq' = Tail(waitq),
         \A d \in Calls \ {Head(waitq)} : pc'[d] = pc[d]
  PROVE  /\ QueueInv'
         /\ waitq' \in Seq(Calls)
         /\ Head(waitq) \in Calls
         /\ pc[Head(waitq)] = "queued"
<1>1. /\ Len(waitq) \in Nat /\ Len(waitq) > 0
      /\ Head(waitq) = waitq[1]
      /\ waitq' \in Seq(Calls)
      /\ Len(waitq') = Len(waitq) - 1
      /\ \A i \in 1..Len(waitq') : waitq'[i] = waitq[i + 1] /\ i + 1 \in 1..Len(waitq)
  BY DEF TypeOK
<1>2. \A i \in 1..Len(waitq') : waitq'[i] \in Calls /\ waitq'[i] # Head(waitq)
  BY <1>1 DEF QueueInv, TypeOK
<1> QED
  BY <1>1, <1>2 DEF QueueInv, TypeOK

\* Taking a slot and launching the first CLI keeps the invariant.
LEMMA AcquireStep ==
  ASSUME TypeOK, QueueInv, UpInv, SlotAccounting, \A d \in Calls : CallInv(d),
         NEW c \in Calls, Acquire(c)
  PROVE  IInv'
<1>1. QueueInv' /\ waitq' \in Seq(Calls) /\ pc[c] = "queued"
  BY DequeueInv DEF Acquire, Fork, TypeOK
<1>2. attempt[c] = 0 /\ holder[c] = NoProc
  BY <1>1, NothingLaunched
<1>3. /\ pc' = [pc EXCEPT ![c] = "launch"] /\ attempt' = [attempt EXCEPT ![c] = 1]
      /\ leader' = [leader EXCEPT ![<<c, 1>>] = "running"]
      /\ holder' = holder /\ resume' = resume /\ signalled' = signalled
      /\ up' = up /\ helpers' = helpers /\ free' = free - 1 /\ free > 0
  BY <1>2 DEF Acquire, Fork, TypeOK
<1>4. TypeOK'
  BY <1>1, <1>3, LimitAssumption DEF TypeOK
<1>5. UpInv'
  BY <1>3 DEF UpInv, TypeOK
<1>6. SlotAccounting'
  <2>1. c \notin InSlot /\ InSlot' = InSlot \cup {c}
    BY <1>1, <1>3 DEF InSlot, TypeOK
  <2>2. Cardinality(InSlot') = Cardinality(InSlot) + 1
    BY <2>1, TakesSlot
  <2> QED
    BY <2>2, <1>3, InSlotFinite, LimitAssumption DEF SlotAccounting, TypeOK
<1>7. leader'[<<c, 1>>] = "running" /\ leader'[<<c, 2>>] = leader[<<c, 2>>]
      /\ \A d \in Calls, n \in Attempts : d # c => leader'[<<d, n>>] = leader[<<d, n>>]
  BY <1>3, LeaderUpdate DEF TypeOK
<1>8. CallInv(c)'
  <2>1. /\ pc'[c] = "launch" /\ attempt'[c] = 1 /\ holder'[c] = NoProc
        /\ leader'[<<c, 2>>] = "none" /\ \A n \in Attempts : <<c, n>> \notin signalled'
    BY <1>1, <1>2, <1>3, <1>7, NothingLaunched DEF TypeOK
  <2> QED
    BY <2>1 DEF CallInv
<1>9. ASSUME NEW d \in Calls, d # c PROVE CallInv(d)'
  BY <1>3, <1>7, <1>9, CallFrame DEF TypeOK
<1> QED
  BY <1>1, <1>4, <1>5, <1>6, <1>8, <1>9 DEF IInv

\* A call that finds no CLI to launch takes a slot and gives it back at once.
LEMMA AcquireNoCliStep ==
  ASSUME TypeOK, QueueInv, UpInv, SlotAccounting, \A d \in Calls : CallInv(d),
         NEW c \in Calls, AcquireNoCli(c)
  PROVE  IInv'
<1>1. QueueInv' /\ waitq' \in Seq(Calls) /\ pc[c] = "queued"
  BY DequeueInv DEF AcquireNoCli, TypeOK
<1>2. /\ pc' = [pc EXCEPT ![c] = "error"] /\ attempt' = attempt /\ holder' = holder
      /\ leader' = leader /\ helpers' = helpers /\ signalled' = signalled
      /\ resume' = resume /\ free' = free /\ up' = up
  BY DEF AcquireNoCli, osVars
<1>3. TypeOK'
  BY <1>1, <1>2 DEF TypeOK
<1>4. UpInv'
  BY <1>2 DEF UpInv, TypeOK
<1>5. InSlot' = InSlot
  BY <1>1, <1>2 DEF InSlot, TypeOK
<1>6. CallInv(c)'
  <2>1. pc'[c] = "error"
    BY <1>2 DEF TypeOK
  <2> QED
    BY <2>1, <1>1, <1>2, NothingLaunched, ZenonT(30) DEF CallInv
<1>7. ASSUME NEW d \in Calls, d # c PROVE CallInv(d)'
  BY <1>2, <1>7, CallFrame DEF TypeOK
<1> QED
  BY <1>1, <1>2, <1>3, <1>4, <1>5, <1>6, <1>7 DEF SlotAccounting, IInv

-----------------------------------------------------------------------------
(* Steps of a call that holds a slot. *)

\* The queue does not see a step of a call that is not queued.
LEMMA QueueFrame ==
  ASSUME TypeOK, QueueInv, NEW c \in Calls, pc[c] # "queued",
         NEW x, pc' = [pc EXCEPT ![c] = x], waitq' = waitq
  PROVE  QueueInv'
<1>1. \A i \in 1..Len(waitq) : waitq[i] \in Calls /\ waitq[i] # c
  BY DEF QueueInv, TypeOK
<1> QED
  BY <1>1 DEF QueueInv, TypeOK

\* Going from one wait to another keeps the slot.
LEMMA KeepsSlot ==
  ASSUME TypeOK, SlotAccounting, NEW c \in Calls, pc[c] \in Awaiting,
         NEW x \in Awaiting, pc' = [pc EXCEPT ![c] = x], free' = free
  PROVE  SlotAccounting'
<1>1. InSlot' = InSlot
  BY DEF InSlot, TypeOK
<1> QED
  BY <1>1 DEF SlotAccounting

\* Returning or raising gives it back, and never one too many.
LEMMA ReturnsSlot ==
  ASSUME TypeOK, SlotAccounting, NEW c \in Calls, pc[c] \in Awaiting,
         NEW x, x \notin Awaiting, pc' = [pc EXCEPT ![c] = x], free' = free + 1
  PROVE  SlotAccounting' /\ free' \in 0..Limit
<1>1. c \in InSlot /\ InSlot' = InSlot \ {c}
  BY DEF InSlot, TypeOK
<1>2. Cardinality(InSlot') = Cardinality(InSlot) - 1 /\ Cardinality(InSlot) > 0
  BY <1>1, GivesSlot
<1> QED
  BY <1>2, InSlotFinite, LimitAssumption DEF SlotAccounting, TypeOK

\* What every step of a waiting call c that leaves the semaphore's queue and
\* the other calls alone has to show for itself.
LEMMA WaitingStep ==
  ASSUME TypeOK, QueueInv, UpInv, SlotAccounting, \A d \in Calls : CallInv(d),
         NEW c \in Calls, pc[c] \in Awaiting,
         NEW x \in Awaiting \cup Finished, pc' = [pc EXCEPT ![c] = x],
         free' = IF x \in Awaiting THEN free ELSE free + 1,
         waitq' = waitq, up' = up,
         resume' \in [Calls -> BOOLEAN], attempt' \in [Calls -> 0..2],
         holder' \in [Calls -> Groups \cup {NoProc}],
         leader' \in [Groups -> LeaderStates],
         helpers' \in [Groups -> HelperStates],
         signalled' \in SUBSET Groups,
         \A d \in Calls : d # c =>
           /\ resume'[d] = resume[d] /\ attempt'[d] = attempt[d]
           /\ holder'[d] = holder[d]
           /\ \A n \in Attempts : leader'[<<d, n>>] = leader[<<d, n>>]
           /\ \A n \in Attempts : <<d, n>> \in signalled' <=> <<d, n>> \in signalled,
         CallInv(c)'
  PROVE  IInv'
<1>1. SlotAccounting' /\ free' \in 0..Limit
  <2>1. CASE x \in Awaiting
    BY <2>1, KeepsSlot DEF TypeOK
  <2>2. CASE x \notin Awaiting
    BY <2>2, ReturnsSlot
  <2> QED
    BY <2>1, <2>2
<1>2. QueueInv'
  BY QueueFrame
<1>3. TypeOK'
  BY <1>1 DEF TypeOK
<1>4. UpInv'
  BY DEF UpInv, TypeOK
<1>5. ASSUME NEW d \in Calls, d # c PROVE CallInv(d)'
  BY <1>5, CallFrame DEF TypeOK
<1> QED
  BY <1>1, <1>2, <1>3, <1>4, <1>5 DEF IInv

\* Putting the handle in the holder keeps the invariant.
LEMMA LaunchedStep ==
  ASSUME TypeOK, QueueInv, UpInv, SlotAccounting, \A d \in Calls : CallInv(d),
         NEW c \in Calls, Launched(c)
  PROVE  IInv'
<1>1. /\ pc[c] = "launch" /\ pc' = [pc EXCEPT ![c] = "output"]
      /\ holder' = [holder EXCEPT ![c] = <<c, attempt[c]>>]
      /\ resume' = resume /\ attempt' = attempt /\ waitq' = waitq /\ free' = free
      /\ up' = up /\ leader' = leader /\ helpers' = helpers /\ signalled' = signalled
  BY DEF Launched, Current, semVars, osVars
<1>2. attempt[c] \in Attempts /\ <<c, attempt[c]>> \in Groups
  BY <1>1, HasLaunched
<1>3. pc'[c] = "output" /\ holder'[c] = <<c, attempt[c]>>
  BY <1>1 DEF TypeOK
<1>4. CallInv(c)'
  <2>1. /\ attempt[c] = 2 => ~resume[c] /\ leader[<<c, 1>>] = "collected"
        /\ \A n \in Attempts : n > attempt[c] => leader[<<c, n>>] = "none"
        /\ \A n \in Attempts : <<c, n>> \notin signalled
    BY <1>1 DEF CallInv
  <2> QED
    BY <1>1, <1>2, <1>3, <2>1 DEF CallInv
<1>5. holder' \in [Calls -> Groups \cup {NoProc}]
  BY <1>1, <1>2 DEF TypeOK
<1> QED
  BY <1>1, <1>4, <1>5, WaitingStep DEF TypeOK

\* When the output is complete the call is in communicate() and no CLI of its
\* is running any more.
LEMMA CompleteOutput ==
  ASSUME TypeOK, NEW c \in Calls, CallInv(c), OutputComplete(c)
  PROVE  /\ pc[c] = "output" /\ attempt[c] \in Attempts
         /\ holder[c] = <<c, attempt[c]>>
         /\ \A n \in Attempts : leader[<<c, n>>] # "running"
         /\ \A n \in Attempts : <<c, n>> \notin signalled
<1>1. /\ pc[c] = "output" /\ leader[<<c, attempt[c]>>] = "collected"
      /\ attempt[c] \in Attempts /\ holder[c] = <<c, attempt[c]>>
  BY DEF OutputComplete, Current, CallInv, TypeOK
<1> QED
  BY <1>1 DEF CallInv

\* Returning an answer or an error keeps the invariant: no CLI is left.
LEMMA ReturnStep ==
  ASSUME TypeOK, QueueInv, UpInv, SlotAccounting, \A d \in Calls : CallInv(d),
         NEW c \in Calls, Return(c)
  PROVE  IInv'
<1>1. PICK x \in {"ok", "error"} : Finish(c, x)
  BY DEF Return
<1>2. /\ pc' = [pc EXCEPT ![c] = x] /\ free' = free + 1
      /\ resume' = resume /\ attempt' = attempt /\ holder' = holder /\ waitq' = waitq
      /\ up' = up /\ leader' = leader /\ helpers' = helpers /\ signalled' = signalled
  BY <1>1 DEF Return, Finish, osVars
<1>3. /\ pc[c] = "output" /\ attempt[c] \in Attempts
      /\ \A n \in Attempts : leader[<<c, n>>] # "running"
      /\ \A n \in Attempts : <<c, n>> \notin signalled
  BY CompleteOutput DEF Return
<1>4. pc'[c] = x
  BY <1>2 DEF TypeOK
<1>5. CallInv(c)'
  BY <1>2, <1>3, <1>4 DEF CallInv
<1> QED
  BY <1>2, <1>3, <1>5, WaitingStep DEF TypeOK

\* The second launch finds the first group's CLI collected.
LEMMA RetryStep ==
  ASSUME TypeOK, QueueInv, UpInv, SlotAccounting, \A d \in Calls : CallInv(d),
         NEW c \in Calls, RetryWithoutResume(c)
  PROVE  IInv'
<1>1. /\ pc[c] = "output" /\ attempt[c] = 1 /\ holder[c] = <<c, 1>>
      /\ leader[<<c, 1>>] = "collected"
      /\ \A n \in Attempts : <<c, n>> \notin signalled
  <2>1. resume[c] /\ leader[<<c, attempt[c]>>] = "collected"
    BY DEF RetryWithoutResume, OutputComplete, Current
  <2>2. attempt[c] # 2
    BY <2>1 DEF CallInv
  <2> QED
    BY <2>1, <2>2, CompleteOutput DEF RetryWithoutResume
<1>2. /\ pc' = [pc EXCEPT ![c] = "launch"] /\ attempt' = [attempt EXCEPT ![c] = 2]
      /\ leader' = [leader EXCEPT ![<<c, 2>>] = "running"]
      /\ resume' = [resume EXCEPT ![c] = FALSE]
      /\ holder' = holder /\ waitq' = waitq /\ free' = free /\ up' = up
      /\ helpers' = helpers /\ signalled' = signalled
  BY <1>1 DEF RetryWithoutResume, Fork, semVars, TypeOK
<1>3. /\ leader'[<<c, 1>>] = "collected"
      /\ \A d \in Calls, n \in Attempts : d # c => leader'[<<d, n>>] = leader[<<d, n>>]
  <2>1. \A d \in Calls, n \in Attempts :
          d # c \/ n # 2 => leader'[<<d, n>>] = leader[<<d, n>>]
    BY <1>2, LeaderUpdate DEF TypeOK
  <2> QED
    BY <1>1, <2>1
<1>4. pc'[c] = "launch" /\ attempt'[c] = 2 /\ ~resume'[c] /\ holder'[c] = <<c, 1>>
  BY <1>1, <1>2 DEF TypeOK
<1>5. CallInv(c)'
  <2>1. \A n \in Attempts : <<c, n>> \notin signalled'
    BY <1>1, <1>2
  <2> QED
    BY <1>3, <1>4, <2>1 DEF CallInv
<1>6. /\ leader' \in [Groups -> LeaderStates] /\ resume' \in [Calls -> BOOLEAN]
      /\ attempt' \in [Calls -> 0..2]
  BY <1>2 DEF TypeOK
<1>7. \A d \in Calls : d # c => resume'[d] = resume[d] /\ attempt'[d] = attempt[d]
  BY <1>2 DEF TypeOK
<1> QED
  BY <1>1, <1>2, <1>3, <1>5, <1>6, <1>7, WaitingStep DEF TypeOK

\* The timer firing in communicate() keeps the invariant.
LEMMA TimeoutOutputStep ==
  ASSUME TypeOK, QueueInv, UpInv, SlotAccounting, \A d \in Calls : CallInv(d),
         NEW c \in Calls, TimeoutOutput(c)
  PROVE  IInv'
<1>1. /\ pc[c] = "output" /\ pc' = [pc EXCEPT ![c] = "kill"]
      /\ resume' = resume /\ attempt' = attempt /\ holder' = holder /\ waitq' = waitq
      /\ free' = free /\ up' = up /\ leader' = leader /\ helpers' = helpers
      /\ signalled' = signalled
  BY DEF TimeoutOutput, semVars, osVars
<1>2. pc'[c] = "kill"
  BY <1>1 DEF TypeOK
<1>3. CallInv(c)'
  BY <1>1, <1>2 DEF CallInv
<1> QED
  BY <1>1, <1>3, WaitingStep DEF TypeOK

\* The timer firing during a launch leaves nothing running.
LEMMA TimeoutLaunchStep ==
  ASSUME TypeOK, QueueInv, UpInv, SlotAccounting, \A d \in Calls : CallInv(d),
         NEW c \in Calls, TimeoutLaunch(c)
  PROVE  IInv'
<1>1. /\ pc[c] = "launch" /\ pc' = [pc EXCEPT ![c] = "kill"]
      /\ leader' = [leader EXCEPT ![<<c, attempt[c]>>] = "collected"]
      /\ resume' = resume /\ attempt' = attempt /\ holder' = holder /\ waitq' = waitq
      /\ free' = free /\ up' = up /\ helpers' = helpers /\ signalled' = signalled
  BY DEF TimeoutLaunch, Current, semVars
<1>2. attempt[c] \in Attempts
  BY <1>1, HasLaunched
<1>3. /\ leader'[<<c, attempt[c]>>] = "collected"
      /\ \A n \in Attempts : n # attempt[c] => leader'[<<c, n>>] = leader[<<c, n>>]
      /\ \A d \in Calls, n \in Attempts : d # c => leader'[<<d, n>>] = leader[<<d, n>>]
  BY <1>1, <1>2, LeaderUpdate DEF TypeOK
<1>4. pc'[c] = "kill"
  BY <1>1 DEF TypeOK
<1>5. CallInv(c)'
  <2>1. /\ attempt[c] = 2 => ~resume[c] /\ leader[<<c, 1>>] = "collected"
        /\ \A n \in Attempts : n > attempt[c] => leader[<<c, n>>] = "none"
        /\ \A n \in Attempts : <<c, n>> \notin signalled
        /\ holder[c] = NoProc \/ (holder[c] = <<c, 1>> /\ attempt[c] = 2)
    BY <1>1 DEF CallInv
  <2> QED
    BY <1>1, <1>2, <1>3, <1>4, <2>1 DEF CallInv
<1>6. leader' \in [Groups -> LeaderStates]
  BY <1>1 DEF TypeOK
<1> QED
  BY <1>1, <1>3, <1>5, <1>6, WaitingStep DEF TypeOK

-----------------------------------------------------------------------------
(* _kill_process. *)

\* When there is nothing to kill, no CLI of the call is running.
LEMMA KillNothingStep ==
  ASSUME TypeOK, QueueInv, UpInv, SlotAccounting, \A d \in Calls : CallInv(d),
         NEW c \in Calls, KillNothing(c)
  PROVE  IInv'
<1>1. /\ pc[c] = "kill" /\ pc' = [pc EXCEPT ![c] = "timeout"] /\ free' = free + 1
      /\ resume' = resume /\ attempt' = attempt /\ holder' = holder /\ waitq' = waitq
      /\ up' = up /\ leader' = leader /\ helpers' = helpers /\ signalled' = signalled
      /\ NothingToKill(c)
  BY DEF KillNothing, Finish, osVars
<1>2. attempt[c] \in Attempts /\ <<c, attempt[c]>> # NoProc
  BY <1>1, HasLaunched, NoProcAssumption
<1>3. leader[<<c, attempt[c]>>] = "collected"
  BY <1>1, <1>2 DEF CallInv, NothingToKill
<1>4. \A n \in Attempts : leader[<<c, n>>] # "running" /\ <<c, n>> \notin signalled
  <2>1. \A n \in Attempts : <<c, n>> \notin signalled
    BY <1>1 DEF CallInv
  <2>2. /\ attempt[c] = 2 => leader[<<c, 1>>] = "collected"
        /\ \A n \in Attempts : n > attempt[c] => leader[<<c, n>>] = "none"
    BY DEF CallInv
  <2> QED
    BY <1>2, <1>3, <2>1, <2>2
<1>5. pc'[c] = "timeout"
  BY <1>1 DEF TypeOK
<1>6. CallInv(c)'
  <2>1. /\ attempt[c] = 2 => ~resume[c] /\ leader[<<c, 1>>] = "collected"
        /\ \A n \in Attempts : n > attempt[c] => leader[<<c, n>>] = "none"
    BY DEF CallInv
  <2> QED
    BY <1>1, <1>4, <1>5, <2>1 DEF CallInv
<1> QED
  BY <1>1, <1>6, WaitingStep DEF TypeOK

\* Something to kill is always the group of the call's own last attempt.
LEMMA KillTarget ==
  ASSUME NEW c \in Calls, CallInv(c), pc[c] = "kill", ~NothingToKill(c)
  PROVE  holder[c] = <<c, attempt[c]>>
BY DEF CallInv, NothingToKill

\* SIGTERM goes to the group of the call's own last attempt.
LEMMA TerminateStep ==
  ASSUME TypeOK, QueueInv, UpInv, SlotAccounting, \A d \in Calls : CallInv(d),
         NEW c \in Calls, Terminate(c)
  PROVE  IInv'
<1>1. /\ pc[c] = "kill" /\ pc' = [pc EXCEPT ![c] = "grace"]
      /\ holder[c] = <<c, attempt[c]>>
      /\ resume' = resume /\ attempt' = attempt /\ holder' = holder /\ waitq' = waitq
      /\ free' = free /\ up' = up
  BY KillTarget DEF Terminate, semVars
<1>2. attempt[c] \in Attempts /\ <<c, attempt[c]>> \in Groups
  BY <1>1, HasLaunched
<1>3. signalled' = signalled \cup {<<c, attempt[c]>>}
  BY <1>1 DEF Terminate
<1>4. PICK l \in {leader[<<c, attempt[c]>>], "zombie"} :
        leader' = [leader EXCEPT ![<<c, attempt[c]>>] = l]
  BY <1>1 DEF Terminate
<1>5. helpers' \in [Groups -> HelperStates]
  <2>1. PICK h \in {helpers[<<c, attempt[c]>>], "none"} :
          helpers' = [helpers EXCEPT ![<<c, attempt[c]>>] = h]
    BY <1>1 DEF Terminate
  <2> QED
    BY <1>2, <2>1 DEF TypeOK
<1>6. leader' \in [Groups -> LeaderStates]
  BY <1>2, <1>4 DEF TypeOK
<1>7. /\ \A n \in Attempts : n # attempt[c] => leader'[<<c, n>>] = leader[<<c, n>>]
      /\ \A d \in Calls, n \in Attempts : d # c => leader'[<<d, n>>] = leader[<<d, n>>]
  BY <1>2, <1>4, LeaderUpdate DEF TypeOK
<1>8. /\ \A n \in Attempts : <<c, n>> \in signalled' => n = attempt[c]
      /\ \A d \in Calls, n \in Attempts :
           d # c => (<<d, n>> \in signalled' <=> <<d, n>> \in signalled)
  BY <1>1, <1>3 DEF CallInv
<1>9. pc'[c] = "grace"
  BY <1>1 DEF TypeOK
<1>10. CallInv(c)'
  <2>1. /\ attempt[c] = 2 => ~resume[c] /\ leader[<<c, 1>>] = "collected"
        /\ \A n \in Attempts : n > attempt[c] => leader[<<c, n>>] = "none"
    BY DEF CallInv
  <2> QED
    BY <1>1, <1>2, <1>7, <1>8, <1>9, <2>1 DEF CallInv
<1>11. signalled' \in SUBSET Groups
  BY <1>2, <1>3 DEF TypeOK
<1> QED
  BY <1>1, <1>5, <1>6, <1>7, <1>8, <1>10, <1>11, WaitingStep, ZenonT(30) DEF TypeOK

\* Once its CLI is collected a timed-out call may give its slot back.
LEMMA ReapedStep ==
  ASSUME TypeOK, QueueInv, UpInv, SlotAccounting, \A d \in Calls : CallInv(d),
         NEW c \in Calls, Reaped(c)
  PROVE  IInv'
<1>1. /\ pc[c] \in {"grace", "reap"}
      /\ pc' = [pc EXCEPT ![c] = "timeout"] /\ free' = free + 1
      /\ resume' = resume /\ attempt' = attempt /\ holder' = holder /\ waitq' = waitq
      /\ up' = up /\ leader' = leader /\ helpers' = helpers /\ signalled' = signalled
      /\ leader[holder[c]] = "collected"
  BY DEF Reaped, Finish, osVars
<1>2. /\ attempt[c] \in Attempts /\ holder[c] = <<c, attempt[c]>>
      /\ \A n \in Attempts : <<c, n>> \in signalled => n = attempt[c]
      /\ attempt[c] = 2 => ~resume[c] /\ leader[<<c, 1>>] = "collected"
      /\ \A n \in Attempts : n > attempt[c] => leader[<<c, n>>] = "none"
  BY <1>1, HasLaunched, ZenonT(30) DEF CallInv
<1>3. \A n \in Attempts : leader[<<c, n>>] # "running"
  BY <1>1, <1>2
<1>4. pc'[c] = "timeout"
  BY <1>1 DEF TypeOK
<1>5. CallInv(c)'
  BY <1>1, <1>2, <1>3, <1>4 DEF CallInv
<1> QED
  BY <1>1, <1>5, WaitingStep DEF TypeOK

\* SIGKILL keeps the invariant.
LEMMA KillHardStep ==
  ASSUME TypeOK, QueueInv, UpInv, SlotAccounting, \A d \in Calls : CallInv(d),
         NEW c \in Calls, KillHard(c)
  PROVE  IInv'
<1>1. pc[c] = "grace" /\ holder[c] = <<c, attempt[c]>>
  BY DEF KillHard, CallInv
<1>2. /\ pc' = [pc EXCEPT ![c] = "reap"]
      /\ leader' = [leader EXCEPT ![<<c, attempt[c]>>] = "zombie"]
      /\ helpers' = [helpers EXCEPT ![<<c, attempt[c]>>] = "none"]
      /\ resume' = resume /\ attempt' = attempt /\ holder' = holder /\ waitq' = waitq
      /\ free' = free /\ up' = up /\ signalled' = signalled
  BY <1>1 DEF KillHard, semVars
<1>3. attempt[c] \in Attempts /\ <<c, attempt[c]>> \in Groups
  BY <1>1, HasLaunched
<1>4. /\ \A n \in Attempts : n # attempt[c] => leader'[<<c, n>>] = leader[<<c, n>>]
      /\ \A d \in Calls, n \in Attempts : d # c => leader'[<<d, n>>] = leader[<<d, n>>]
  BY <1>2, <1>3, LeaderUpdate DEF TypeOK
<1>5. /\ leader' \in [Groups -> LeaderStates] /\ helpers' \in [Groups -> HelperStates]
  BY <1>2, <1>3 DEF TypeOK
<1>6. /\ \A n \in Attempts : <<c, n>> \in signalled => n = attempt[c]
      /\ attempt[c] = 2 => ~resume[c] /\ leader[<<c, 1>>] = "collected"
      /\ \A n \in Attempts : n > attempt[c] => leader[<<c, n>>] = "none"
  BY <1>1 DEF CallInv
<1>7. pc'[c] = "reap"
  BY <1>2 DEF TypeOK
<1>8. CallInv(c)'
  BY <1>1, <1>2, <1>3, <1>4, <1>6, <1>7 DEF CallInv
<1> QED
  BY <1>1, <1>2, <1>4, <1>5, <1>8, WaitingStep DEF TypeOK

-----------------------------------------------------------------------------
(* The operating system, and shutdown. *)

\* An exit or a collection brings no call's CallInv in danger.
LEMMA LeaderMoves ==
  ASSUME NEW d \in Calls, CallInv(d),
         pc'[d] = pc[d], resume'[d] = resume[d],
         attempt'[d] = attempt[d], holder'[d] = holder[d], signalled' = signalled,
         attempt[d] \in 0..2,
         \A n \in Attempts :
           \/ leader'[<<d, n>>] = leader[<<d, n>>]
           \/ /\ leader[<<d, n>>] \in {"running", "zombie"}
              /\ leader'[<<d, n>>] \in {"zombie", "collected"}
  PROVE  CallInv(d)'
<1>1. \A n \in Attempts : leader[<<d, n>>] = "none" => leader'[<<d, n>>] = "none"
  OBVIOUS
<1>2. \A n \in Attempts : leader[<<d, n>>] = "collected" => leader'[<<d, n>>] = "collected"
  OBVIOUS
<1>3. \A n \in Attempts : leader[<<d, n>>] # "running" => leader'[<<d, n>>] # "running"
  OBVIOUS
<1>4. pc[d] \in Awaiting => attempt[d] \in Attempts
  BY DEF CallInv
<1> QED
  BY <1>1, <1>2, <1>3, <1>4 DEF CallInv

\* What the operating system does keeps the invariant.
LEMMA OSStep ==
  ASSUME TypeOK, QueueInv, UpInv, SlotAccounting, \A d \in Calls : CallInv(d),
         NEW g \in Groups,
         CliExit(g) \/ Collect(g) \/ HelperStart(g) \/ HelperExit(g)
  PROVE  IInv'
<1>1. /\ pc' = pc /\ resume' = resume /\ attempt' = attempt /\ holder' = holder
      /\ waitq' = waitq /\ free' = free /\ up' = up /\ signalled' = signalled
  BY DEF CliExit, Collect, HelperStart, HelperExit, callVars, semVars
<1>2. helpers' \in [Groups -> HelperStates]
  <2>1. CASE HelperStart(g)
    BY <2>1 DEF HelperStart, TypeOK
  <2>2. CASE HelperExit(g)
    BY <2>2 DEF HelperExit, TypeOK
  <2>3. CASE CliExit(g) \/ Collect(g)
    BY <2>3 DEF CliExit, Collect, TypeOK
  <2> QED
    BY <2>1, <2>2, <2>3
<1>3. /\ leader' \in [Groups -> LeaderStates]
      /\ \A h \in Groups :
           \/ leader'[h] = leader[h]
           \/ leader[h] \in {"running", "zombie"} /\ leader'[h] \in {"zombie", "collected"}
  <2>1. CASE CliExit(g)
    BY <2>1 DEF CliExit, TypeOK
  <2>2. CASE Collect(g)
    BY <2>2 DEF Collect, TypeOK
  <2>3. CASE HelperStart(g) \/ HelperExit(g)
    BY <2>3 DEF HelperStart, HelperExit, TypeOK
  <2> QED
    BY <2>1, <2>2, <2>3
<1>4. TypeOK'
  BY <1>1, <1>2, <1>3 DEF TypeOK
<1>5. InSlot' = InSlot
  BY <1>1 DEF InSlot
<1>6. ASSUME NEW d \in Calls PROVE CallInv(d)'
  <2>1. \A n \in Attempts : <<d, n>> \in Groups
    OBVIOUS
  <2> QED
    BY <1>1, <1>3, <2>1, LeaderMoves DEF TypeOK
<1> QED
  BY <1>1, <1>4, <1>5, <1>6 DEF IInv, QueueInv, UpInv, SlotAccounting

\* Cancelling every call at once keeps the invariant.
LEMMA ShutdownStep ==
  ASSUME TypeOK, QueueInv, UpInv, SlotAccounting, \A d \in Calls : CallInv(d),
         Shutdown
  PROVE  IInv'
<1>1. /\ resume' = resume /\ attempt' = attempt /\ holder' = holder
      /\ waitq' = <<>> /\ free' = Limit /\ up' = FALSE
      /\ helpers' = helpers /\ signalled' = signalled
      /\ pc' = [c \in Calls |->
                  IF pc[c] \in {"queued"} \cup Awaiting THEN "cancelled" ELSE pc[c]]
  BY DEF Shutdown
<1>2. /\ leader' \in [Groups -> LeaderStates]
      /\ \A d \in Calls, n \in Attempts :
           leader'[<<d, n>>] = IF pc[d] = "launch" /\ n = attempt[d]
                               THEN "collected" ELSE leader[<<d, n>>]
  <2>1. leader' = [g \in Groups |->
                     IF pc[g[1]] = "launch" /\ g = <<g[1], attempt[g[1]]>>
                     THEN "collected" ELSE leader[g]]
    BY DEF Shutdown, Current
  <2>2. leader' \in [Groups -> LeaderStates]
    BY <2>1 DEF TypeOK
  <2>3. ASSUME NEW d \in Calls, NEW n \in Attempts
        PROVE  leader'[<<d, n>>] = IF pc[d] = "launch" /\ n = attempt[d]
                                   THEN "collected" ELSE leader[<<d, n>>]
    <3>1. <<d, n>> \in Groups /\ <<d, n>>[1] = d
      OBVIOUS
    <3>2. <<d, n>> = <<d, attempt[d]>> <=> n = attempt[d]
      OBVIOUS
    <3> QED
      BY <2>1, <3>1, <3>2
  <2> QED
    BY <2>2, <2>3
<1>3. TypeOK'
  <2>1. pc' \in [Calls -> PCs]
    BY <1>1 DEF TypeOK
  <2>2. waitq' \in Seq(Calls)
    BY <1>1
  <2>3. free' \in 0..Limit
    BY <1>1, LimitAssumption
  <2>4. up' \in BOOLEAN
    BY <1>1
  <2> QED
    BY <1>1, <1>2, <2>1, <2>2, <2>3, <2>4 DEF TypeOK
<1>4. SlotAccounting'
  <2>1. \A c \in Calls : pc'[c] \notin Awaiting
    BY <1>1 DEF TypeOK
  <2>2. InSlot' = {}
    BY <2>1 DEF InSlot
  <2>3. Cardinality(InSlot') = 0
    BY <2>2, FS_EmptySet
  <2> QED
    BY <1>1, <2>3, LimitAssumption DEF SlotAccounting
<1>5. ASSUME NEW d \in Calls PROVE CallInv(d)'
  <2>1. /\ pc'[d] = IF pc[d] \in {"queued"} \cup Awaiting THEN "cancelled" ELSE pc[d]
        /\ pc[d] \in PCs
    BY <1>1 DEF TypeOK
  <2>2. /\ attempt[d] = 2 => ~resume[d] /\ leader[<<d, 1>>] = "collected"
        /\ \A n \in Attempts : n > attempt[d] => leader[<<d, n>>] = "none"
        /\ \A n \in Attempts : <<d, n>> \in signalled =>
             n = attempt[d] /\ pc[d] \in {"grace", "reap", "timeout", "cancelled"}
        /\ pc[d] = "idle" => attempt[d] = 0 /\ holder[d] = NoProc
        /\ pc[d] \in Finished => \A n \in Attempts : leader[<<d, n>>] # "running"
        /\ attempt[d] \in 0..2
    BY DEF CallInv, TypeOK
  <2>3. pc'[d] \in {"idle", "cancelled"} \cup Finished
    BY <2>1
  <2>4. /\ attempt[d] = 2 => ~resume'[d] /\ leader'[<<d, 1>>] = "collected"
        /\ \A n \in Attempts : n > attempt[d] => leader'[<<d, n>>] = "none"
        /\ pc'[d] \in Finished => \A n \in Attempts : leader'[<<d, n>>] # "running"
    BY <1>1, <1>2, <2>1, <2>2
  <2>5. \A n \in Attempts : <<d, n>> \in signalled' =>
             n = attempt'[d] /\ pc'[d] \in {"grace", "reap", "timeout", "cancelled"}
    BY <1>1, <2>1, <2>2
  <2> QED
    BY <1>1, <2>1, <2>2, <2>3, <2>4, <2>5 DEF CallInv
<1> QED
  BY <1>1, <1>3, <1>4, <1>5 DEF IInv, QueueInv, UpInv

-----------------------------------------------------------------------------
\* Every step keeps the inductive invariant.
LEMMA NextIInv == IInv /\ [Next]_vars => IInv'
<1> SUFFICES ASSUME IInv, [Next]_vars PROVE IInv'
  OBVIOUS
<1>1. TypeOK /\ QueueInv /\ UpInv /\ SlotAccounting /\ \A d \in Calls : CallInv(d)
  BY DEF IInv
<1>2. ASSUME NEW c \in Calls,
             \/ Invoke(c) \/ Acquire(c) \/ AcquireNoCli(c) \/ Launched(c)
             \/ Return(c) \/ RetryWithoutResume(c)
             \/ TimeoutOutput(c) \/ TimeoutLaunch(c)
             \/ KillNothing(c) \/ Terminate(c) \/ Reaped(c) \/ KillHard(c)
      PROVE  IInv'
  BY <1>1, <1>2, InvokeStep, AcquireStep, AcquireNoCliStep, LaunchedStep, ReturnStep,
     RetryStep, TimeoutOutputStep, TimeoutLaunchStep, KillNothingStep, TerminateStep,
     ReapedStep, KillHardStep
<1>3. CASE UNCHANGED vars
  <2>1. /\ pc' = pc /\ resume' = resume /\ attempt' = attempt /\ holder' = holder
        /\ waitq' = waitq /\ free' = free /\ up' = up
        /\ leader' = leader /\ helpers' = helpers /\ signalled' = signalled
    BY <1>3 DEF vars
  <2>2. InSlot' = InSlot
    BY <2>1 DEF InSlot
  <2>3. \A d \in Calls : CallInv(d)'
    BY <1>1, <2>1, CallFrame DEF TypeOK
  <2> QED
    BY <1>1, <2>1, <2>2, <2>3 DEF IInv, TypeOK, QueueInv, UpInv, SlotAccounting
<1> QED
  BY <1>1, <1>2, <1>3, OSStep, ShutdownStep DEF Next

\* Every reachable state satisfies the inductive invariant.
THEOREM Invariance == Spec => []IInv
BY InitIInv, NextIInv, PTL DEF Spec

-----------------------------------------------------------------------------
(* The properties. *)

\* Type correctness.  It rests on the whole invariant: that the semaphore never
\* exceeds Limit, and that there is no third attempt, are part of it.
THEOREM TypeCorrect == Spec => []TypeOK
BY Invariance, PTL DEF IInv

\* Every way out of run() gives the slot back exactly once.
THEOREM SlotsAreKept == Spec => []SlotAccounting
BY Invariance, PTL DEF IInv

\* A running CLI belongs to a call that waits for it, or that shutdown cut off.
LEMMA IInvNoOrphan == IInv => NoOrphanCli
<1> SUFFICES ASSUME IInv, NEW g \in Groups, leader[g] = "running"
             PROVE  g = Current(g[1]) /\ pc[g[1]] \in Awaiting \cup {"cancelled"}
  BY DEF NoOrphanCli
<1>1. PICK c \in Calls, n \in Attempts : g = <<c, n>>
  OBVIOUS
<1>2. CallInv(c) /\ attempt[c] \in 0..2 /\ pc[c] \in PCs
  BY DEF IInv, TypeOK
<1>3. leader[<<c, n>>] = "running"
  BY <1>1
<1>4. n = attempt[c]
  <2>1. ~(n > attempt[c])
    BY <1>2, <1>3 DEF CallInv
  <2>2. ~(attempt[c] = 2 /\ n = 1)
    BY <1>2, <1>3 DEF CallInv
  <2> QED
    BY <2>1, <2>2, <1>2
<1>5. pc[c] \notin {"idle", "queued"} \cup Finished
  BY <1>2, <1>3, <1>4 DEF CallInv
<1> QED
  BY <1>1, <1>2, <1>4, <1>5 DEF Current

\* No CLI outlives a call that returned or raised.
THEOREM NoOrphan == Spec => []NoOrphanCli
BY Invariance, IInvNoOrphan, PTL

\* While the program is up, the semaphore bounds the CLIs that run.
LEMMA IInvAtMostLimit == IInv => AtMostLimitClis
<1> SUFFICES ASSUME IInv, up
             PROVE  Cardinality({g \in Groups : leader[g] = "running"}) <= Limit
  BY DEF AtMostLimitClis
<1> DEFINE R == {g \in Groups : leader[g] = "running"}
           f == [g \in R |-> g[1]]
<1>1. \A g \in R : g = <<g[1], attempt[g[1]]>> /\ g[1] \in InSlot
  <2> SUFFICES ASSUME NEW g \in R
               PROVE  g = <<g[1], attempt[g[1]]>> /\ g[1] \in InSlot
    OBVIOUS
  <2>1. g[1] \in Calls /\ pc[g[1]] # "cancelled"
    BY DEF IInv, UpInv
  <2> QED
    BY <2>1, IInvNoOrphan DEF NoOrphanCli, Current, InSlot
<1>2. f \in Injection(R, InSlot)
  <2>1. f \in [R -> InSlot]
    BY <1>1
  <2>2. \A g, h \in R : f[g] = f[h] => g = h
    BY <1>1
  <2> QED
    BY <2>1, <2>2 DEF Injection, IsInjective
<1>3. Cardinality(R) <= Cardinality(InSlot)
  BY <1>2, InSlotFinite, FS_Injection
<1>4. IsFiniteSet(R)
  BY <1>2, InSlotFinite, FS_Injection
<1>5. Cardinality(R) \in Nat
  BY <1>4, FS_CardinalityType
<1>6. Cardinality(InSlot) <= Limit
  BY InSlotFinite, LimitAssumption DEF IInv, SlotAccounting, TypeOK
<1> QED
  BY <1>3, <1>5, <1>6, InSlotFinite, LimitAssumption

\* _CONCURRENT_LIMIT bounds running processes.
THEOREM CliBound == Spec => []AtMostLimitClis
BY Invariance, IInvAtMostLimit, PTL

\* A signalled group is the last one of a call whose own timeout fired.
LEMMA IInvOnlyOwn == IInv => OnlyOwnTimeoutKills
<1> SUFFICES ASSUME IInv, NEW g \in signalled
             PROVE  /\ g = Current(g[1])
                    /\ pc[g[1]] \in {"grace", "reap", "timeout", "cancelled"}
  BY DEF OnlyOwnTimeoutKills
<1>1. PICK c \in Calls, n \in Attempts : g = <<c, n>>
  BY DEF IInv, TypeOK
<1>2. n = attempt[c] /\ pc[c] \in {"grace", "reap", "timeout", "cancelled"}
  BY <1>1 DEF IInv, CallInv
<1> QED
  BY <1>1, <1>2 DEF Current

\* No call's timeout ever signals another call's processes.
THEOREM OwnTimeoutKills == Spec => []OnlyOwnTimeoutKills
BY Invariance, IInvOnlyOwn, PTL

\* The retry after a stale session starts a fresh conversation.
LEMMA IInvRetry == IInv => RetryStartsFresh
BY DEF IInv, CallInv, RetryStartsFresh

\* There is at most one retry, and it does not resume.
THEOREM RetryIsFresh == Spec => []RetryStartsFresh
BY Invariance, IInvRetry, PTL

-----------------------------------------------------------------------------
(* ClaudeRunner implements RunSlots. *)

\* How each place in run() looks from outside.
LEMMA Phases ==
  /\ PhaseOf("idle") = "idle" /\ PhaseOf("queued") = "waiting"
  /\ \A p \in Awaiting : PhaseOf(p) = "active"
  /\ \A p \in Finished \cup {"cancelled"} : PhaseOf(p) = "over"
BY DEF PhaseOf

\* A call is active exactly when it is in a slot.
LEMMA ActiveIsInSlot == TypeOK => Slots!Active = InSlot
<1> SUFFICES ASSUME TypeOK, NEW c \in Calls
             PROVE  PhaseOf(pc[c]) = "active" <=> pc[c] \in Awaiting
  BY DEF Slots!Active, InSlot
<1> QED
  BY DEF PhaseOf

\* The initial states are initial states of the service.
LEMMA InitRefines == Init => Slots!Init
BY Phases DEF Init, Slots!Init

\* A step that leaves each call's phase, the queue and up alone is a stutter.
LEMMA Stutters ==
  ASSUME waitq' = waitq, up' = up, \A c \in Calls : PhaseOf(pc'[c]) = PhaseOf(pc[c])
  PROVE  UNCHANGED Slots!slotVars
BY DEF Slots!slotVars

\* A call going from one phase to another changes the phases at one point.
LEMMA PhaseUpdate ==
  ASSUME TypeOK, NEW c \in Calls, NEW x, pc' = [pc EXCEPT ![c] = x]
  PROVE  [d \in Calls |-> PhaseOf(pc'[d])]
           = [[d \in Calls |-> PhaseOf(pc[d])] EXCEPT ![c] = PhaseOf(x)]
BY DEF TypeOK

\* A step inside a slot is a stutter, one that leaves it is Leave(c).
LEMMA WaitingRefines ==
  ASSUME TypeOK, NEW c \in Calls, pc[c] \in Awaiting, waitq' = waitq, up' = up,
         NEW x \in Awaiting \cup Finished, pc' = [pc EXCEPT ![c] = x]
  PROVE  [Slots!Next]_(Slots!slotVars)
<1>1. CASE x \in Awaiting
  <2>1. \A d \in Calls : PhaseOf(pc'[d]) = PhaseOf(pc[d])
    BY <1>1, Phases DEF TypeOK
  <2> QED
    BY <2>1, Stutters
<1>2. CASE x \in Finished
  <2>1. PhaseOf(pc[c]) = "active" /\ PhaseOf(x) = "over"
    BY <1>2, Phases
  <2>2. Slots!Leave(c)
    BY <2>1, PhaseUpdate DEF Slots!Leave
  <2> QED
    BY <2>2 DEF Slots!Next
<1> QED
  BY <1>1, <1>2

\* Every step of a call in its slot leaves the queue alone and moves one call.
LEMMA WaitingShape ==
  ASSUME IInv, NEW c \in Calls,
         \/ Launched(c) \/ Return(c) \/ RetryWithoutResume(c)
         \/ TimeoutOutput(c) \/ TimeoutLaunch(c)
         \/ KillNothing(c) \/ Terminate(c) \/ Reaped(c) \/ KillHard(c)
  PROVE  /\ pc[c] \in Awaiting /\ waitq' = waitq /\ up' = up
         /\ \E x \in Awaiting \cup Finished : pc' = [pc EXCEPT ![c] = x]
<1>1. CASE Launched(c) \/ TimeoutOutput(c) \/ TimeoutLaunch(c)
  BY <1>1 DEF Launched, TimeoutOutput, TimeoutLaunch, semVars
<1>2. CASE Return(c)
  BY <1>2 DEF Return, OutputComplete, Finish
<1>3. CASE RetryWithoutResume(c)
  BY <1>3 DEF RetryWithoutResume, OutputComplete, Fork, semVars
<1>4. CASE KillNothing(c) \/ Reaped(c)
  BY <1>4 DEF KillNothing, Reaped, Finish
<1>5. CASE Terminate(c) \/ KillHard(c)
  BY <1>5 DEF Terminate, KillHard, semVars
<1> QED
  BY <1>1, <1>2, <1>3, <1>4, <1>5

\* RunSlots counts with the same Cardinality (each module has its own FiniteSets).
LEMMA SameCardinality == \A S : Slots!Cardinality(S) = Cardinality(S)
BY DEF Slots!Cardinality, Cardinality, Slots!IsFiniteSet, IsFiniteSet

\* Invoking a call is entering the line.
LEMMA InvokeRefines ==
  ASSUME TypeOK, NEW c \in Calls, Invoke(c)
  PROVE  Slots!Enter(c)
<1>1. /\ pc' = [pc EXCEPT ![c] = "queued"] /\ pc[c] = "idle"
      /\ up /\ up' = up /\ waitq' = Append(waitq, c)
  BY DEF Invoke
<1>2. [d \in Calls |-> PhaseOf(pc'[d])]
        = [[d \in Calls |-> PhaseOf(pc[d])] EXCEPT ![c] = "waiting"]
  <2>1. [d \in Calls |-> PhaseOf(pc'[d])]
          = [[d \in Calls |-> PhaseOf(pc[d])] EXCEPT ![c] = PhaseOf("queued")]
    BY <1>1, PhaseUpdate
  <2>2. PhaseOf("queued") = "waiting"
    BY Phases
  <2> QED
    BY <2>1, <2>2
<1>3. [d \in Calls |-> PhaseOf(pc[d])][c] = "idle"
  BY <1>1, Phases
<1> QED
  BY <1>1, <1>2, <1>3 DEF Slots!Enter

\* Taking a slot, and failing to start, is being admitted.
LEMMA AcquireRefines ==
  ASSUME IInv, NEW c \in Calls, Acquire(c) \/ AcquireNoCli(c)
  PROVE  Slots!Admit(c)
<1>1. /\ waitq # <<>> /\ c = Head(waitq) /\ waitq' = Tail(waitq) /\ up' = up
      /\ free \in Nat /\ free > 0
  BY LimitAssumption DEF IInv, TypeOK, Acquire, AcquireNoCli
<1>2. Slots!Cardinality(Slots!Active) < Limit
  BY <1>1, ActiveIsInSlot, SameCardinality, InSlotFinite, LimitAssumption
  DEF IInv, SlotAccounting
<1>3. PICK x \in {"launch", "error"} : pc' = [pc EXCEPT ![c] = x]
  BY DEF Acquire, AcquireNoCli, Fork
<1>4. PICK q \in {"active", "over"} : PhaseOf(x) = q
  BY Phases
<1>5. [d \in Calls |-> PhaseOf(pc'[d])]
        = [[d \in Calls |-> PhaseOf(pc[d])] EXCEPT ![c] = PhaseOf(x)]
  BY <1>3, PhaseUpdate DEF IInv
<1>6. [d \in Calls |-> PhaseOf(pc'[d])]
        = [[d \in Calls |-> PhaseOf(pc[d])] EXCEPT ![c] = q]
  BY <1>4, <1>5
<1>7. waitq # <<>> /\ c = Head(waitq) /\ waitq' = Tail(waitq) /\ up' = up
  BY <1>1
<1>8. \E p \in {"active", "over"} :
        [d \in Calls |-> PhaseOf(pc[d])]'
          = [[d \in Calls |-> PhaseOf(pc[d])] EXCEPT ![c] = p]
  BY <1>6
<1> QED
  BY <1>2, <1>7, <1>8 DEF Slots!Admit

\* Shutdown is closing the service.
LEMMA ShutdownRefines ==
  ASSUME TypeOK, Shutdown
  PROVE  Slots!Close
<1>1. /\ up /\ up' = FALSE /\ waitq' = <<>>
      /\ pc' = [c \in Calls |->
                  IF pc[c] \in {"queued"} \cup Awaiting THEN "cancelled" ELSE pc[c]]
  BY DEF Shutdown
<1>2. ASSUME NEW c \in Calls
      PROVE  PhaseOf(pc'[c]) = IF PhaseOf(pc[c]) \in {"waiting", "active"}
                               THEN "over" ELSE PhaseOf(pc[c])
  <2>1. pc[c] \in PCs
    BY DEF TypeOK
  <2>2. CASE pc[c] \in {"queued"} \cup Awaiting
    BY <1>1, <2>2, Phases
  <2>3. CASE pc[c] \in {"idle", "cancelled"} \cup Finished
    BY <1>1, <2>3, Phases
  <2> QED
    BY <2>1, <2>2, <2>3
<1> QED
  BY <1>1, <1>2 DEF Slots!Close

\* Every step of the runner is a step of the service or a stutter.
LEMMA NextRefines == IInv /\ [Next]_vars => [Slots!Next]_(Slots!slotVars)
<1> SUFFICES ASSUME IInv, [Next]_vars PROVE [Slots!Next]_(Slots!slotVars)
  OBVIOUS
<1>1. ASSUME NEW c \in Calls, Invoke(c) PROVE Slots!Next
  BY <1>1, InvokeRefines DEF Slots!Next, IInv
<1>2. ASSUME NEW c \in Calls, Acquire(c) \/ AcquireNoCli(c) PROVE Slots!Next
  BY <1>2, AcquireRefines DEF Slots!Next
<1>3. ASSUME NEW c \in Calls,
             \/ Launched(c) \/ Return(c) \/ RetryWithoutResume(c)
             \/ TimeoutOutput(c) \/ TimeoutLaunch(c)
             \/ KillNothing(c) \/ Terminate(c) \/ Reaped(c) \/ KillHard(c)
      PROVE  [Slots!Next]_(Slots!slotVars)
  BY <1>3, WaitingShape, WaitingRefines DEF IInv
<1>4. ASSUME NEW g \in Groups,
             CliExit(g) \/ Collect(g) \/ HelperStart(g) \/ HelperExit(g)
      PROVE  UNCHANGED Slots!slotVars
  <2>1. pc' = pc /\ waitq' = waitq /\ up' = up
    BY <1>4 DEF CliExit, Collect, HelperStart, HelperExit, callVars, semVars
  <2> QED
    BY <2>1, Stutters
<1>5. ASSUME Shutdown PROVE Slots!Next
  BY <1>5, ShutdownRefines DEF Slots!Next, IInv
<1>6. CASE UNCHANGED vars
  BY <1>6, Stutters DEF vars
<1> QED
  BY <1>1, <1>2, <1>3, <1>4, <1>5, <1>6 DEF Next

\* To its callers the runner is the slot service.
THEOREM Refinement == Spec => RunSlotsSpec
BY Invariance, InitRefines, NextRefines, PTL DEF Spec, RunSlotsSpec, Slots!Spec
=============================================================================
