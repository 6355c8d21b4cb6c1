---------------------------- MODULE Access_proofs ---------------------------
(***************************************************************************)
(* The invites and roles of Access, for any users, tokens and bounds: what *)
(* holds however many updates are handled at once, and what holds as long  *)
(* as no two of them have overlapped.                                      *)
(***************************************************************************)
EXTENDS Access, FiniteSetTheorems, TLAPS

\* An update being handled has a user, not the owner, and a token.
HandlerInv ==
  \A h \in Handlers : handler[h].pc # "free" =>
    handler[h].user \in Users \ {Owner} /\ handler[h].token \in Tokens

\* An invite that was never made is neither open nor used.
InviteInv ==
  \A t \in Tokens : invite[t].active \/ invite[t].by # None => invite[t].exists

\* What holds however many updates are handled at once.
IInv == TypeOK /\ HandlerInv /\ InviteInv

\* Without overlaps nothing comes between the reads of a redemption and its
\* writes: the invite is open when it is marked, and marked with the user's name
\* when the user is inserted.
HandlerSerial ==
  /\ \A g, h \in Handlers : Busy(g) /\ Busy(h) => g = h
  /\ \A h \in Handlers :
       /\ handler[h].pc = "mark" =>
            invite[handler[h].token].active /\ invite[handler[h].token].by = None
       /\ handler[h].pc = "create" => invite[handler[h].token].by = handler[h].user

\* A token has admitted nobody but whom it is marked with, and one revoked before
\* its redemption stays shut.
TokenSerial ==
  /\ \A t \in Tokens : admitted[t] \subseteq {invite[t].by}
  /\ \A t \in revoked : invite[t].exists /\ ~invite[t].active /\ invite[t].by = None
  /\ UserHasToken

SerialInv == ~overlapped => HandlerSerial /\ TokenSerial

-----------------------------------------------------------------------------
USE DEF PCs, Roles

\* The state ensure_admin leaves satisfies both invariants.
LEMMA InitInv == Init => IInv /\ SerialInv
<1> SUFFICES ASSUME Init PROVE IInv /\ SerialInv
  OBVIOUS
<1> USE OwnerAssumption, AccessBoundsAssumption
<1>1. TypeOK
  <2>1. handler \in [Handlers -> [pc : PCs, user : Users \cup {None},
                                 token : Tokens \cup {None}, known : BOOLEAN]]
    BY DEF Init, Free
  <2>2. role \in [Users -> Roles \cup {None}] /\ invite \in [Tokens -> Invites]
    BY DEF Init, Invites, NoInvite
  <2>3. sets \in 0..MaxSets /\ faults \in 0..MaxFaults /\ crashes \in 0..MaxCrashes
    BY DEF Init
  <2> QED
    BY <2>1, <2>2, <2>3 DEF Init, TypeOK
<1>2. HandlerInv /\ InviteInv
  BY DEF Init, HandlerInv, InviteInv, NoInvite, Free
<1>3. SerialInv
  BY DEF Init, SerialInv, HandlerSerial, TokenSerial, UserHasToken, NoInvite, Free, Busy
<1> QED
  BY <1>1, <1>2, <1>3 DEF IInv

-----------------------------------------------------------------------------
(* However many updates are handled at once. *)

HandlerType ==
  handler \in [Handlers -> [pc : PCs, user : Users \cup {None},
                            token : Tokens \cup {None}, known : BOOLEAN]]

\* Going on to the next transaction, or ending, keeps the update's locals.
LEMMA MovesOn ==
  ASSUME HandlerType, HandlerInv, NEW h \in Handlers, handler[h].pc # "free",
         \/ \E p \in PCs : Goto(h, p)
         \/ Done(h)
  PROVE  HandlerType' /\ HandlerInv'
<1>1. CASE \E p \in PCs : Goto(h, p)
  <2>1. PICK p \in PCs : handler' = [handler EXCEPT ![h].pc = p]
    BY <1>1 DEF Goto
  <2>2. HandlerType'
    BY <2>1 DEF HandlerType
  <2>3. \A g \in Handlers : handler'[g].user = handler[g].user /\ handler'[g].token = handler[g].token
    BY <2>1 DEF HandlerType
  <2>4. \A g \in Handlers \ {h} : handler'[g].pc = handler[g].pc
    BY <2>1 DEF HandlerType
  <2> QED
    BY <2>2, <2>3, <2>4 DEF HandlerInv
<1>2. CASE Done(h)
  <2>1. HandlerType'
    BY <1>2 DEF HandlerType, Done, Free
  <2>2. \A g \in Handlers : handler'[g] = IF g = h THEN Free ELSE handler[g]
    BY <1>2 DEF HandlerType, Done
  <2> QED
    BY <2>1, <2>2 DEF HandlerInv, Free
<1> QED
  BY <1>1, <1>2

\* The steps of a redemption.
HandlerStep(h) ==
  \/ \E u \in Users, t \in Tokens : StartWithToken(h, u, t)
  \/ GetInvite(h) \/ LookupUser(h) \/ Recheck(h) \/ Mark(h) \/ CreateUser(h) \/ Fail(h)

\* /start takes a free handler.
LEMMA StartKeeps ==
  ASSUME IInv, NEW h \in Handlers, NEW u \in Users, NEW t \in Tokens, StartWithToken(h, u, t)
  PROVE  IInv'
<1>1. /\ handler' = [handler EXCEPT ![h] = [pc |-> "get", user |-> u, token |-> t, known |-> FALSE]]
      /\ u # Owner
      /\ UNCHANGED <<role, invite, boundVars, admitted, revoked, cut>>
      /\ overlapped' \in BOOLEAN
  BY DEF StartWithToken, TakeUp
<1>2. TypeOK'
  BY <1>1 DEF IInv, TypeOK, boundVars
<1>3. \A g \in Handlers : handler'[g] =
        IF g = h THEN [pc |-> "get", user |-> u, token |-> t, known |-> FALSE] ELSE handler[g]
  BY <1>1 DEF IInv, TypeOK
<1>4. HandlerInv'
  BY <1>1, <1>3 DEF IInv, HandlerInv
<1>5. InviteInv'
  BY <1>1 DEF IInv, InviteInv
<1> QED
  BY <1>2, <1>4, <1>5 DEF IInv

\* The first read of the invite writes nothing.
LEMMA GetInviteKeeps ==
  ASSUME IInv, NEW h \in Handlers, GetInvite(h)
  PROVE  IInv'
<1>1. /\ handler[h].pc # "free"
      /\ (\E p \in PCs : Goto(h, p)) \/ Done(h)
      /\ UNCHANGED <<role, invite, boundVars, admitted, revoked, cut, overlapped>>
  BY DEF GetInvite
<1>2. HandlerType' /\ HandlerInv'
  BY <1>1, MovesOn DEF IInv, TypeOK, HandlerType
<1> QED
  BY <1>1, <1>2 DEF IInv, TypeOK, HandlerType, InviteInv, boundVars

\* Looking the user up notes only whether there is a row.
LEMMA LookupUserKeeps ==
  ASSUME IInv, NEW h \in Handlers, LookupUser(h)
  PROVE  IInv'
<1>1. /\ handler[h].pc # "free"
      /\ handler' = [handler EXCEPT ![h].pc = "recheck",
                                    ![h].known = (role[handler[h].user] # None)]
      /\ UNCHANGED <<role, invite, boundVars, admitted, revoked, cut, overlapped>>
  BY DEF LookupUser
<1>2. HandlerType'
  <2>1. handler \in [Handlers -> [pc : PCs, user : Users \cup {None},
                                  token : Tokens \cup {None}, known : BOOLEAN]]
    BY DEF IInv, TypeOK
  <2>2. (role[handler[h].user] # None) \in BOOLEAN
    OBVIOUS
  <2> DEFINE known == role[handler[h].user] # None
             next == [handler[h] EXCEPT !.pc = "recheck", !.known = known]
  <2>3. next \in [pc : PCs, user : Users \cup {None}, token : Tokens \cup {None},
                  known : BOOLEAN]
    <3> HIDE DEF known
    <3>1. known \in BOOLEAN
      BY DEF known
    <3> QED
      BY <2>1, <3>1
  <2>4. handler' = [handler EXCEPT ![h] = next]
    BY <1>1
  <2> HIDE DEF next
  <2> QED
    BY <2>1, <2>3, <2>4 DEF HandlerType
<1>3. \A g \in Handlers : /\ handler'[g].user = handler[g].user
                          /\ handler'[g].token = handler[g].token
                          /\ g # h => handler'[g].pc = handler[g].pc
  BY <1>1 DEF IInv, TypeOK
<1>4. HandlerInv'
  BY <1>1, <1>3 DEF IInv, HandlerInv
<1> QED
  BY <1>1, <1>2, <1>4 DEF IInv, TypeOK, HandlerType, InviteInv, boundVars

\* The second read of the invite writes nothing.
LEMMA RecheckKeeps ==
  ASSUME IInv, NEW h \in Handlers, Recheck(h)
  PROVE  IInv'
<1>1. /\ handler[h].pc # "free"
      /\ (\E p \in PCs : Goto(h, p)) \/ Done(h)
      /\ UNCHANGED <<role, invite, boundVars, admitted, revoked, cut, overlapped>>
  BY DEF Recheck
<1>2. HandlerType' /\ HandlerInv'
  BY <1>1, MovesOn DEF IInv, TypeOK, HandlerType
<1> QED
  BY <1>1, <1>2 DEF IInv, TypeOK, HandlerType, InviteInv, boundVars

\* The UPDATE, or nothing, and the invites after it.
LEMMA MarkFacts ==
  ASSUME IInv, NEW h \in Handlers, Busy(h), MarkRow(h)
  PROVE  /\ handler[h].user \in Users \ {Owner} /\ handler[h].token \in Tokens
         /\ \A t \in Tokens :
              \/ invite'[t] = invite[t]
              \/ /\ t = handler[h].token
                 /\ invite[t].active /\ invite[t].by = None
                 /\ invite'[t] = [invite[t] EXCEPT !.active = FALSE, !.by = handler[h].user]
         /\ invite' \in [Tokens -> Invites]
<1>1. handler[h].user \in Users \ {Owner} /\ handler[h].token \in Tokens
  BY DEF IInv, HandlerInv, Busy
<1>2. CASE invite[handler[h].token].active /\ invite[handler[h].token].by = None
  <2> DEFINE t == handler[h].token
             marked == [invite[t] EXCEPT !.active = FALSE, !.by = handler[h].user]
  <2>1. invite' = [invite EXCEPT ![t].active = FALSE, ![t].by = handler[h].user]
    BY <1>2 DEF MarkRow
  <2>2. invite[t] \in Invites /\ DOMAIN invite = Tokens
    BY <1>1 DEF IInv, TypeOK
  <2>3. marked \in Invites
    BY <1>1, <2>2 DEF Invites
  <2>4. invite' = [invite EXCEPT ![t] = marked]
    BY <1>1, <2>1, <2>2
  <2> HIDE DEF marked
  <2>5. invite' \in [Tokens -> Invites] /\ \A s \in Tokens : s # t => invite'[s] = invite[s]
    BY <1>1, <2>3, <2>4 DEF IInv, TypeOK
  <2>6. invite'[t] = marked
    BY <1>1, <2>2, <2>4
  <2> QED
    BY <1>1, <1>2, <2>5, <2>6 DEF marked
<1>3. CASE ~(invite[handler[h].token].active /\ invite[handler[h].token].by = None)
  <2>1. UNCHANGED invite
    BY <1>3 DEF MarkRow
  <2> QED
    BY <1>1, <2>1 DEF IInv, TypeOK
<1> QED
  BY <1>2, <1>3

\* No invite is marked that was never made.
LEMMA MarkedWereMade ==
  ASSUME IInv, NEW h \in Handlers, Busy(h), MarkRow(h)
  PROVE  InviteInv'
<1> SUFFICES ASSUME NEW t \in Tokens, invite'[t].active \/ invite'[t].by # None
             PROVE  invite'[t].exists
  BY DEF InviteInv
<1>1. invite[t] \in Invites
  BY DEF IInv, TypeOK
<1>2. CASE invite'[t] = invite[t]
  BY <1>2 DEF IInv, InviteInv
<1>3. CASE /\ invite[t].active
           /\ invite'[t] = [invite[t] EXCEPT !.active = FALSE, !.by = handler[h].user]
  <2>1. invite'[t].exists = invite[t].exists
    BY <1>1, <1>3 DEF Invites
  <2> QED
    BY <1>3, <2>1 DEF IInv, InviteInv
<1> QED
  BY <1>2, <1>3, MarkFacts

\* Marking an invite, or finding it shut, keeps the types and the invites made.
LEMMA MarkKeeps ==
  ASSUME IInv, NEW h \in Handlers, Mark(h)
  PROVE  IInv'
<1>1. /\ (\E p \in PCs : Goto(h, p)) \/ Done(h)
      /\ UNCHANGED <<role, boundVars, admitted, revoked, cut, overlapped>>
      /\ MarkRow(h) /\ Busy(h) /\ handler[h].pc # "free"
  BY DEF Mark, Busy
<1>2. HandlerType' /\ HandlerInv'
  BY <1>1, MovesOn DEF IInv, TypeOK, HandlerType
<1>3. invite' \in [Tokens -> Invites] /\ InviteInv'
  BY <1>1, MarkFacts, MarkedWereMade
<1> QED
  BY <1>1, <1>2, <1>3 DEF IInv, TypeOK, HandlerType, boundVars

\* The INSERT, or nothing, and the rows after it.
LEMMA InsertFacts ==
  ASSUME IInv, NEW h \in Handlers, Busy(h), InsertRow(h)
  PROVE  /\ handler[h].user \in Users \ {Owner} /\ handler[h].token \in Tokens
         /\ role' \in [Users -> Roles \cup {None}]
         /\ admitted' \in [Tokens -> SUBSET Users]
         /\ role'[handler[h].user] # None
         /\ \A u \in Users :
              \/ role'[u] = role[u]
              \/ u = handler[h].user /\ role[u] = None
         /\ \A t \in Tokens :
              \/ admitted'[t] = admitted[t]
              \/ /\ t = handler[h].token
                 /\ admitted'[t] = admitted[t] \cup {handler[h].user}
<1> DEFINE u == handler[h].user
           t == handler[h].token
<1>1. u \in Users \ {Owner} /\ t \in Tokens
  BY DEF IInv, HandlerInv, Busy
<1>2. role \in [Users -> Roles \cup {None}] /\ admitted \in [Tokens -> SUBSET Users]
  BY DEF IInv, TypeOK
<1>3. "user" # None
  BY NoneAssumption
<1>4. CASE role[u] = None
  <2>1. role' = [role EXCEPT ![u] = "user"] /\ admitted' = [admitted EXCEPT ![t] = @ \cup {u}]
    BY <1>4 DEF InsertRow
  <2> QED
    BY <1>1, <1>2, <1>3, <1>4, <2>1
<1>5. CASE role[u] # None
  <2>1. UNCHANGED <<role, admitted>>
    BY <1>5 DEF InsertRow
  <2> QED
    BY <1>1, <1>2, <1>5, <2>1
<1> QED
  BY <1>4, <1>5

\* Inserting a row, or failing to, keeps the types.
LEMMA CreateUserKeeps ==
  ASSUME IInv, NEW h \in Handlers, CreateUser(h)
  PROVE  IInv'
<1>1. /\ handler[h].pc # "free" /\ Busy(h) /\ Done(h) /\ InsertRow(h)
      /\ UNCHANGED <<invite, boundVars, revoked, cut, overlapped>>
  BY DEF CreateUser, Busy
<1>2. HandlerType' /\ HandlerInv'
  BY <1>1, MovesOn DEF IInv, TypeOK, HandlerType
<1>3. role' \in [Users -> Roles \cup {None}] /\ admitted' \in [Tokens -> SUBSET Users]
  BY <1>1, InsertFacts
<1> QED
  BY <1>1, <1>2, <1>3 DEF IInv, TypeOK, HandlerType, InviteInv, boundVars

\* A failure ends the handler, with its statement run or not.
LEMMA FailKeeps ==
  ASSUME IInv, NEW h \in Handlers, Fail(h)
  PROVE  IInv'
<1>1. /\ handler[h].pc # "free" /\ Busy(h) /\ Done(h)
      /\ UNCHANGED <<sets, crashes, revoked, overlapped>>
  BY DEF Fail, Busy
<1>2. HandlerType' /\ HandlerInv'
  BY <1>1, MovesOn DEF IInv, TypeOK, HandlerType
<1>3. faults' \in 0..MaxFaults
  BY AccessBoundsAssumption DEF Fail, IInv, TypeOK
<1>4. cut' \subseteq Tokens
  BY <1>1 DEF Fail, IInv, TypeOK, HandlerInv
<1>5. invite' \in [Tokens -> Invites] /\ InviteInv'
  <2>1. CASE MarkRow(h)
    BY <1>1, <2>1, MarkFacts, MarkedWereMade
  <2>2. CASE UNCHANGED invite
    BY <2>2 DEF IInv, TypeOK, InviteInv
  <2> QED
    BY <2>1, <2>2 DEF Fail
<1>6. role' \in [Users -> Roles \cup {None}] /\ admitted' \in [Tokens -> SUBSET Users]
  <2>1. CASE InsertRow(h)
    BY <1>1, <2>1, InsertFacts
  <2>2. CASE UNCHANGED <<role, admitted>>
    BY <2>2 DEF IInv, TypeOK
  <2> QED
    BY <2>1, <2>2 DEF Fail
<1> QED
  BY <1>1, <1>2, <1>3, <1>4, <1>5, <1>6 DEF IInv, TypeOK, HandlerType

\* Giving one invite another record that could be there.
LEMMA InviteChange ==
  ASSUME IInv, NEW t \in Tokens, NEW i \in Invites, i.active \/ i.by # None => i.exists,
         invite' = [invite EXCEPT ![t] = i]
  PROVE  invite' \in [Tokens -> Invites] /\ InviteInv'
<1>1. invite' \in [Tokens -> Invites]
  BY DEF IInv, TypeOK
<1>2. \A s \in Tokens : invite'[s] = IF s = t THEN i ELSE invite[s]
  BY DEF IInv, TypeOK
<1> QED
  BY <1>1, <1>2 DEF IInv, InviteInv

\* The administrators' commands, the clock and a crash keep the invariant.
LEMMA CommandKeeps ==
  ASSUME IInv,
         \/ \E u \in Users, t \in Tokens : CreateInvite(u, t) \/ Revoke(u, t)
         \/ \E u, target \in Users, r \in Roles : SetRole(u, target, r)
         \/ \E t \in Tokens : Expire(t)
         \/ Crash
  PROVE  IInv'
<1>1. ASSUME NEW u \in Users, NEW t \in Tokens, CreateInvite(u, t) PROVE IInv'
  <2> DEFINE i == [exists |-> TRUE, active |-> TRUE, expired |-> FALSE, by |-> None]
  <2>1. i \in Invites /\ (i.active \/ i.by # None => i.exists)
    BY DEF Invites
  <2>2. invite' = [invite EXCEPT ![t] = i]
        /\ UNCHANGED <<role, handler, boundVars, admitted, revoked, cut>>
        /\ overlapped' \in BOOLEAN
    BY <1>1 DEF CreateInvite, TakeUp
  <2> HIDE DEF i
  <2>3. invite' \in [Tokens -> Invites] /\ InviteInv'
    BY <2>1, <2>2, InviteChange
  <2> QED
    BY <2>2, <2>3 DEF IInv, TypeOK, HandlerInv, boundVars
<1>2. ASSUME NEW u \in Users, NEW t \in Tokens, Revoke(u, t) PROVE IInv'
  <2> DEFINE i == [invite[t] EXCEPT !.active = FALSE]
  <2>1. invite[t] \in Invites
    BY DEF IInv, TypeOK
  <2>2. i \in Invites /\ i.active = FALSE /\ i.by = invite[t].by /\ i.exists = invite[t].exists
    BY <2>1 DEF Invites
  <2>3. i.active \/ i.by # None => i.exists
    BY <2>2 DEF IInv, InviteInv
  <2>4. invite' = [invite EXCEPT ![t] = i]
    BY <1>2 DEF Revoke
  <2> HIDE DEF i
  <2>5. invite' \in [Tokens -> Invites] /\ InviteInv'
    BY <2>2, <2>3, <2>4, InviteChange
  <2>6. /\ UNCHANGED <<role, handler, boundVars, admitted, cut>> /\ revoked' \subseteq Tokens
        /\ overlapped' \in BOOLEAN
    BY <1>2 DEF Revoke, TakeUp, IInv, TypeOK
  <2> QED
    BY <2>5, <2>6 DEF IInv, TypeOK, HandlerInv, boundVars
<1>3. CASE \E u, target \in Users, r \in Roles : SetRole(u, target, r)
  <2>1. sets' \in 0..MaxSets
    BY <1>3, AccessBoundsAssumption DEF SetRole, IInv, TypeOK
  <2>2. role' \in [Users -> Roles \cup {None}]
    BY <1>3 DEF SetRole, IInv, TypeOK
  <2>3. /\ UNCHANGED <<invite, handler, faults, crashes, admitted, revoked, cut>>
        /\ overlapped' \in BOOLEAN
    BY <1>3 DEF SetRole, TakeUp
  <2> QED
    BY <2>1, <2>2, <2>3 DEF IInv, TypeOK, HandlerInv, InviteInv
<1>4. CASE \E t \in Tokens : Expire(t)
  <2>1. PICK t \in Tokens : Expire(t)
    BY <1>4
  <2> DEFINE i == [invite[t] EXCEPT !.expired = TRUE]
  <2>2. invite[t] \in Invites
    BY DEF IInv, TypeOK
  <2>3. i \in Invites /\ i.active = invite[t].active /\ i.by = invite[t].by
        /\ i.exists = invite[t].exists
    BY <2>2 DEF Invites
  <2>4. i.active \/ i.by # None => i.exists
    BY <2>3 DEF IInv, InviteInv
  <2>5. invite' = [invite EXCEPT ![t] = i]
        /\ UNCHANGED <<role, handler, boundVars, admitted, revoked, cut, overlapped>>
    BY <2>1 DEF Expire
  <2> HIDE DEF i
  <2>6. invite' \in [Tokens -> Invites] /\ InviteInv'
    BY <2>3, <2>4, <2>5, InviteChange
  <2> QED
    BY <2>5, <2>6 DEF IInv, TypeOK, HandlerInv, boundVars
<1>5. CASE Crash
  <2>1. crashes' \in 0..MaxCrashes
    BY <1>5, AccessBoundsAssumption DEF Crash, IInv, TypeOK
  <2>2. \A h \in Handlers : handler'[h] = Free
    BY <1>5 DEF Crash
  <2>3. HandlerInv'
    BY <2>2 DEF HandlerInv, Free
  <2>4. cut' \subseteq Tokens
    BY <1>5 DEF Crash, Writing, IInv, TypeOK, HandlerInv
  <2>5. handler' \in [Handlers -> [pc : PCs, user : Users \cup {None},
                                  token : Tokens \cup {None}, known : BOOLEAN]]
    BY <1>5 DEF Crash, Free
  <2>6. UNCHANGED <<role, invite, sets, faults, admitted, revoked, overlapped>>
    BY <1>5 DEF Crash
  <2> QED
    BY <2>1, <2>3, <2>4, <2>5, <2>6 DEF IInv, TypeOK, InviteInv
<1> QED
  BY <1>1, <1>2, <1>3, <1>4, <1>5

\* Every step keeps the invariant.
LEMMA StepKeeps == IInv /\ [Next]_vars => IInv'
<1> SUFFICES ASSUME IInv, [Next]_vars PROVE IInv'
  OBVIOUS
<1>1. CASE UNCHANGED vars
  BY <1>1 DEF vars, boundVars, IInv, TypeOK, HandlerInv, InviteInv
<1>2. ASSUME NEW h \in Handlers, HandlerStep(h) PROVE IInv'
  BY <1>2, StartKeeps, GetInviteKeeps, LookupUserKeeps, RecheckKeeps, MarkKeeps,
     CreateUserKeeps, FailKeeps DEF HandlerStep
<1> QED
  BY <1>1, <1>2, CommandKeeps DEF Next, HandlerStep

\* The inductive invariant holds in every reachable state.
THEOREM Invariance == Spec => []IInv
BY InitInv, StepKeeps, PTL DEF Spec

\* Every row, every invite and every update being handled keeps its type.
THEOREM TypeCorrect == Spec => []TypeOK
<1>1. IInv => TypeOK
  BY DEF IInv
<1> QED
  BY <1>1, Invariance, PTL

\* Two registrations of one user, or a command in between, never undo a role.
LEMMA RoleIsKept == IInv /\ [Next]_vars => [RoleKept]_vars
<1> SUFFICES ASSUME IInv, Next, NEW u \in Users, role[u] # None, sets' = sets
             PROVE  role'[u] = role[u]
  BY DEF vars, RoleKept
<1>1. CASE UNCHANGED role
  BY <1>1
<1>2. ASSUME NEW h \in Handlers, Busy(h), InsertRow(h) PROVE role'[u] = role[u]
  BY <1>2, InsertFacts
<1>3. ASSUME NEW a \in Users, NEW target \in Users, NEW r \in Roles, SetRole(a, target, r)
      PROVE  FALSE
  BY <1>3, AccessBoundsAssumption DEF SetRole, IInv, TypeOK
<1> QED
  BY <1>1, <1>2, <1>3
    DEF Next, StartWithToken, GetInvite, LookupUser, Recheck, Mark, CreateUser, Fail, Busy,
        CreateInvite, Revoke, Expire, Crash

\* Who redeemed an invite is never rewritten, even by a second redemption.
LEMMA RedemptionStays == IInv /\ [Next]_vars => [RedeemerKept]_vars
<1> SUFFICES ASSUME IInv, Next, NEW t \in Tokens, invite[t].by # None
             PROVE  invite'[t].by = invite[t].by
  BY DEF vars, RedeemerKept
<1>1. CASE UNCHANGED invite
  BY <1>1
<1>2. ASSUME NEW h \in Handlers, Busy(h), MarkRow(h) PROVE invite'[t].by = invite[t].by
  <2>1. \/ invite'[t] = invite[t]
        \/ invite[t].by = None
    BY <1>2, MarkFacts
  <2> QED
    BY <2>1
<1>3. ASSUME NEW a \in Users, NEW s \in Tokens, CreateInvite(a, s)
      PROVE  invite'[t].by = invite[t].by
  <2>1. s # t
    BY <1>3 DEF CreateInvite, IInv, InviteInv
  <2> QED
    BY <1>3, <2>1 DEF CreateInvite, IInv, TypeOK
<1>4. ASSUME NEW a \in Users, NEW s \in Tokens, Revoke(a, s)
      PROVE  invite'[t].by = invite[t].by
  BY <1>4 DEF Revoke, IInv, TypeOK, Invites
<1>5. ASSUME NEW s \in Tokens, Expire(s) PROVE invite'[t].by = invite[t].by
  BY <1>5 DEF Expire, IInv, TypeOK, Invites
<1> QED
  BY <1>1, <1>2, <1>3, <1>4, <1>5
    DEF Next, StartWithToken, GetInvite, LookupUser, Recheck, Mark, CreateUser, Fail, Busy,
        SetRole, Crash

\* However many updates are in flight, no registration or command undoes a role
\* or rewrites a redemption.
THEOREM RowsStand == Spec => RowsAreKept
<1>1. [RoleKept]_vars /\ [RedeemerKept]_vars => [RoleKept /\ RedeemerKept]_vars
  OBVIOUS
<1> QED
  BY <1>1, RoleIsKept, RedemptionStays, Invariance, PTL DEF Spec, RowsAreKept

-----------------------------------------------------------------------------
(* What only a failure can lose. *)

\* Who was found to be registered still is.
KnownInv ==
  \A h \in Handlers : handler[h].pc \in {"recheck", "mark"} /\ handler[h].known =>
    role[handler[h].user] # None

\* Rows are never deleted.
LEMMA RowsStay ==
  ASSUME IInv, Next, NEW u \in Users, role[u] # None
  PROVE  role'[u] # None
<1>1. CASE UNCHANGED role
  BY <1>1
<1>2. ASSUME NEW h \in Handlers, Busy(h), InsertRow(h) PROVE role'[u] # None
  BY <1>2, InsertFacts
<1>3. ASSUME NEW a \in Users, NEW target \in Users, NEW r \in Roles, SetRole(a, target, r)
      PROVE  role'[u] # None
  BY <1>3, NoneAssumption DEF SetRole, IInv, TypeOK
<1> QED
  BY <1>1, <1>2, <1>3
    DEF Next, StartWithToken, GetInvite, LookupUser, Recheck, Mark, CreateUser, Fail, Busy,
        CreateInvite, Revoke, Expire, Crash

\* A redemption before its last step stays there until it takes it.
LEMMA CreateStays ==
  ASSUME IInv, Next, NEW g \in Handlers, handler[g].pc = "create"
  PROVE  handler'[g] = handler[g] \/ CreateUser(g) \/ Fail(g) \/ Crash
<1>1. handler \in [Handlers -> [pc : PCs, user : Users \cup {None},
                                token : Tokens \cup {None}, known : BOOLEAN]]
  BY DEF IInv, TypeOK
<1>2. ASSUME NEW h \in Handlers, h # g, HandlerStep(h) PROVE handler'[g] = handler[g]
  BY <1>1, <1>2 DEF HandlerStep, StartWithToken, GetInvite, LookupUser, Recheck, Mark,
     CreateUser, Fail, Goto, Done
<1>3. CASE HandlerStep(g)
  BY <1>3 DEF HandlerStep, StartWithToken, GetInvite, LookupUser, Recheck, Mark, Busy
<1> QED
  BY <1>2, <1>3 DEF Next, HandlerStep, CreateInvite, Revoke, SetRole, Expire

\* Whom a redemption found to be registered stays registered.
LEMMA KnownKeeps == IInv /\ KnownInv /\ [Next]_vars => KnownInv'
<1> SUFFICES ASSUME IInv, KnownInv, Next PROVE KnownInv'
  BY DEF vars, KnownInv
<1>1. handler \in [Handlers -> [pc : PCs, user : Users \cup {None},
                                token : Tokens \cup {None}, known : BOOLEAN]]
  BY DEF IInv, TypeOK
<1> SUFFICES ASSUME NEW g \in Handlers, handler'[g].pc \in {"recheck", "mark"}, handler'[g].known
             PROVE  role'[handler'[g].user] # None
  BY DEF KnownInv
<1>2. ASSUME handler'[g] = handler[g] PROVE role'[handler'[g].user] # None
  <2>1. handler[g].user \in Users
    BY <1>2 DEF IInv, HandlerInv
  <2> QED
    BY <1>2, <2>1, RowsStay DEF KnownInv
<1>3. ASSUME NEW h \in Handlers, h # g, HandlerStep(h) PROVE handler'[g] = handler[g]
  BY <1>1, <1>3 DEF HandlerStep, StartWithToken, GetInvite, LookupUser, Recheck, Mark,
     CreateUser, Fail, Goto, Done
<1>4. CASE LookupUser(g)
  BY <1>1, <1>4 DEF LookupUser
<1>5. CASE Recheck(g)
  <2>1. handler'[g].user = handler[g].user /\ handler'[g].known = handler[g].known
    <3>1. CASE Goto(g, "mark")
      BY <1>1, <3>1 DEF Goto
    <3>2. ~Done(g)
      BY <1>1 DEF Done, Free
    <3> QED
      BY <1>5, <3>1, <3>2 DEF Recheck
  <2>2. role' = role /\ handler[g].pc = "recheck"
    BY <1>5 DEF Recheck
  <2> QED
    BY <2>1, <2>2 DEF KnownInv
<1>6. CASE \/ \E u \in Users, t \in Tokens : StartWithToken(g, u, t)
           \/ GetInvite(g) \/ Mark(g) \/ CreateUser(g) \/ Fail(g)
  <2>1. handler'[g].pc \in {"get", "lookup", "create", "free"}
    BY <1>1, <1>6 DEF StartWithToken, GetInvite, Mark, CreateUser, Fail, Goto, Done, Free
  <2> QED
    BY <2>1
<1>7. CASE Crash
  BY <1>7 DEF Crash, Free
<1> QED
  BY <1>2, <1>3, <1>4, <1>5, <1>6, <1>7 DEF Next, HandlerStep, CreateInvite, Revoke, SetRole, Expire

\* Only a redemption's UPDATE puts a name on an invite, whether it then fails or not.
LEMMA OnlyMarkMarks ==
  ASSUME IInv, Next, NEW t \in Tokens, invite'[t].by # invite[t].by
  PROVE  \E h \in Handlers :
           /\ Mark(h) \/ (Fail(h) /\ handler[h].pc = "mark")
           /\ handler[h].token = t
           /\ invite'[t].by = handler[h].user
<1>1. invite \in [Tokens -> Invites]
  BY DEF IInv, TypeOK
<1>2. ~ UNCHANGED invite
  OBVIOUS
<1>3. ASSUME NEW h \in Handlers, Busy(h), MarkRow(h)
      PROVE  handler[h].token = t /\ invite'[t].by = handler[h].user
  <2>1. /\ t = handler[h].token
        /\ invite'[t] = [invite[t] EXCEPT !.active = FALSE, !.by = handler[h].user]
    BY <1>3, MarkFacts
  <2> QED
    BY <1>1, <2>1 DEF Invites
<1>4. ASSUME NEW a \in Users, NEW s \in Tokens
      PROVE  ~CreateInvite(a, s) /\ ~Revoke(a, s) /\ ~Expire(s)
  <2>1. CASE CreateInvite(a, s)
    BY <1>1, <2>1 DEF CreateInvite, IInv, InviteInv
  <2>2. CASE Revoke(a, s) \/ Expire(s)
    BY <1>1, <2>2 DEF Revoke, Expire, Invites
  <2> QED
    BY <2>1, <2>2
<1>5. ASSUME NEW s \in Tokens PROVE ~Expire(s)
  BY <1>4, OwnerAssumption
<1> QED
  BY <1>2, <1>3, <1>4, <1>5
     DEF Next, StartWithToken, GetInvite, LookupUser, Recheck, Mark, CreateUser, Fail, Busy,
         SetRole, Crash

\* An invite that is marked has its user's row, or its redemption goes on, or was cut.
LEMMA LostKeeps ==
  IInv /\ KnownInv /\ LostOnlyToFailure /\ [Next]_vars => LostOnlyToFailure'
<1>1. ASSUME UNCHANGED vars, LostOnlyToFailure PROVE LostOnlyToFailure'
  BY <1>1 DEF vars, LostOnlyToFailure
<1> SUFFICES ASSUME IInv, KnownInv, LostOnlyToFailure, Next, NEW t \in Tokens,
                    invite'[t].by # None, t \notin cut'
             PROVE  \/ role'[invite'[t].by] # None
                    \/ \E h \in Handlers : /\ handler'[h].pc = "create"
                                           /\ handler'[h].token = t
                                           /\ handler'[h].user = invite'[t].by
  BY <1>1 DEF LostOnlyToFailure
<1>2. /\ handler \in [Handlers -> [pc : PCs, user : Users \cup {None},
                                   token : Tokens \cup {None}, known : BOOLEAN]]
      /\ invite \in [Tokens -> Invites]
  BY DEF IInv, TypeOK
<1>3. t \notin cut
  BY DEF Next, StartWithToken, GetInvite, LookupUser, Recheck, Mark, CreateUser, Fail,
         CreateInvite, Revoke, SetRole, Expire, Crash
<1>4. ASSUME NEW g \in Handlers, handler[g].pc \in {"mark", "create"}, handler[g].token = t
      PROVE  ~Fail(g) /\ ~Crash
  BY <1>4 DEF Fail, Crash, Writing
<1>5. CASE invite'[t].by = invite[t].by
  <2>1. invite[t].by \in Users
    BY <1>2, <1>5 DEF Invites
  <2>2. CASE role[invite[t].by] # None
    BY <1>5, <2>1, <2>2, RowsStay
  <2>3. ASSUME NEW g \in Handlers, handler[g].pc = "create", handler[g].token = t,
               handler[g].user = invite[t].by
        PROVE  \/ role'[invite'[t].by] # None
               \/ handler'[g] = handler[g]
    <3>1. CASE CreateUser(g)
      <4>1. role'[handler[g].user] # None
        BY <3>1, InsertFacts DEF CreateUser, Busy
      <4> QED
        BY <1>5, <2>3, <4>1
    <3> QED
      BY <1>4, <2>3, <3>1, CreateStays
  <2> QED
    BY <1>3, <1>5, <2>2, <2>3 DEF LostOnlyToFailure
<1>6. CASE invite'[t].by # invite[t].by
  <2>1. PICK h \in Handlers : /\ Mark(h) \/ (Fail(h) /\ handler[h].pc = "mark")
                              /\ handler[h].token = t
                              /\ invite'[t].by = handler[h].user
    BY <1>6, OnlyMarkMarks
  <2>2. Mark(h)
    BY <1>4, <2>1
  <2>3. CASE handler[h].known
    BY <2>1, <2>2, <2>3 DEF Mark, KnownInv
  <2>4. CASE ~handler[h].known
    BY <1>2, <2>1, <2>2, <2>4 DEF Mark, Goto
  <2> QED
    BY <2>3, <2>4
<1> QED
  BY <1>5, <1>6

\* However many updates are in flight, an invite is used up without a row for its
\* user, or a redemption on its way to one, only if a redemption of that invite
\* crashed, raised or was cancelled while it was writing (auth.py:113-127).
THEOREM OnlyFailuresLose == Spec => []LostOnlyToFailure
<1>1. Init => KnownInv /\ LostOnlyToFailure
  BY DEF Init, KnownInv, LostOnlyToFailure, NoInvite, Free
<1> QED
  BY <1>1, KnownKeeps, LostKeeps, Invariance, PTL DEF Spec

-----------------------------------------------------------------------------
(* As long as no two updates have overlapped. *)

\* An update that leaves no overlap behind it is taken up when no other is handled.
LEMMA TakenAlone ==
  ASSUME TakeUp, ~overlapped'
  PROVE  ~overlapped /\ \A g \in Handlers : handler[g].pc = "free"
BY DEF TakeUp, Busy

\* An invite nobody redeemed has admitted nobody.
LEMMA NobodyYet ==
  ASSUME IInv, TokenSerial, NEW t \in Tokens, invite[t].by = None
  PROVE  admitted[t] = {}
BY NoneAssumption DEF IInv, TypeOK, TokenSerial

\* Marking an invite that is open keeps what the tokens promise.
LEMMA MarkPromise ==
  ASSUME IInv, HandlerSerial, TokenSerial, NEW h \in Handlers, handler[h].pc = "mark",
         MarkRow(h), UNCHANGED <<role, admitted, revoked>>
  PROVE  /\ TokenSerial'
         /\ invite'[handler[h].token].by = handler[h].user
<1> DEFINE t == handler[h].token
<1>1. t \in Tokens /\ handler[h].user \in Users \ {Owner}
  BY MarkFacts DEF Busy
<1>2. invite[t].active /\ invite[t].by = None
  BY DEF HandlerSerial
<1>3. invite' = [invite EXCEPT ![t].active = FALSE, ![t].by = handler[h].user]
  BY <1>2 DEF MarkRow
<1>4. invite \in [Tokens -> Invites]
  BY DEF IInv, TypeOK
<1>5. invite'[t].by = handler[h].user /\ \A s \in Tokens : s # t => invite'[s] = invite[s]
  BY <1>1, <1>3, <1>4 DEF Invites
<1> HIDE DEF t
<1>6. admitted[t] = {}
  BY <1>1, <1>2, NobodyYet
<1>7. \A s \in Tokens : admitted'[s] \subseteq {invite'[s].by}
  BY <1>5, <1>6 DEF TokenSerial
<1>8. \A s \in revoked' : invite'[s].exists /\ ~invite'[s].active /\ invite'[s].by = None
  BY <1>2, <1>5 DEF TokenSerial, IInv, TypeOK
<1>9. UserHasToken'
  <2> SUFFICES ASSUME NEW u \in Users \ {Owner}, role'[u] # None
               PROVE  \E s \in Tokens : invite'[s].by = u
    BY DEF UserHasToken
  <2>1. PICK s \in Tokens : invite[s].by = u
    BY DEF TokenSerial, UserHasToken
  <2>2. s # t
    BY <1>2, <2>1, NoneAssumption
  <2> QED
    BY <1>5, <2>1, <2>2
<1> QED
  BY <1>5, <1>7, <1>8, <1>9 DEF TokenSerial, t

\* Inserting the user an invite is marked with keeps what the tokens promise.
LEMMA InsertPromise ==
  ASSUME IInv, HandlerSerial, TokenSerial, NEW h \in Handlers, handler[h].pc = "create",
         InsertRow(h), UNCHANGED <<invite, revoked>>
  PROVE  TokenSerial'
<1> DEFINE t == handler[h].token
           u == handler[h].user
<1>1. u \in Users \ {Owner} /\ t \in Tokens
  BY InsertFacts DEF Busy
<1>2. invite[t].by = u
  BY DEF HandlerSerial
<1>3. /\ \A v \in Users : role'[v] = role[v] \/ v = u
      /\ \A s \in Tokens : \/ admitted'[s] = admitted[s]
                           \/ s = t /\ admitted'[s] = admitted[s] \cup {u}
  BY InsertFacts DEF Busy
<1> HIDE DEF t, u
<1> QED
  BY <1>1, <1>2, <1>3 DEF TokenSerial, UserHasToken

\* What the only update does to the invites and the rows.
LEMMA HandlerSerialKeeps ==
  ASSUME IInv, HandlerSerial, TokenSerial, NEW h \in Handlers, HandlerStep(h), ~overlapped'
  PROVE  HandlerSerial' /\ TokenSerial'
<1>1. handler \in [Handlers -> [pc : PCs, user : Users \cup {None},
                                token : Tokens \cup {None}, known : BOOLEAN]]
  BY DEF IInv, TypeOK
<1>2. \A g \in Handlers : g # h => handler'[g] = handler[g]
  BY <1>1 DEF HandlerStep, StartWithToken, GetInvite, LookupUser, Recheck, Mark, CreateUser,
     Fail, Goto, Done
<1>3. \A g \in Handlers : g # h => handler[g].pc = "free"
  <2>1. CASE Busy(h)
    BY <2>1 DEF HandlerSerial, Busy
  <2>2. CASE ~Busy(h)
    BY <2>2, TakenAlone DEF HandlerStep, StartWithToken, GetInvite, LookupUser, Recheck, Mark,
       CreateUser, Fail, Busy
  <2> QED
    BY <2>1, <2>2
<1>4. \A f, g \in Handlers : handler'[f].pc # "free" /\ handler'[g].pc # "free" => f = g
  BY <1>2, <1>3
<1>5. ASSUME TokenSerial',
             handler'[h].pc = "mark" => /\ invite'[handler'[h].token].active
                                        /\ invite'[handler'[h].token].by = None,
             handler'[h].pc = "create" => invite'[handler'[h].token].by = handler'[h].user
      PROVE  HandlerSerial' /\ TokenSerial'
  BY <1>2, <1>3, <1>4, <1>5 DEF HandlerSerial, Busy
<1>6. ASSUME UNCHANGED <<role, invite, admitted, revoked>> PROVE TokenSerial'
  BY <1>6 DEF TokenSerial, UserHasToken
<1>7. CASE \/ \E u \in Users, t \in Tokens : StartWithToken(h, u, t)
           \/ GetInvite(h) \/ LookupUser(h)
  <2>1. UNCHANGED <<role, invite, admitted, revoked>>
    BY <1>7 DEF StartWithToken, GetInvite, LookupUser
  <2>2. handler'[h].pc \notin {"mark", "create"}
    BY <1>1, <1>7 DEF StartWithToken, GetInvite, LookupUser, Goto, Done, Free
  <2> QED
    BY <1>5, <1>6, <2>1, <2>2
<1>8. CASE Recheck(h)
  <2>1. UNCHANGED <<role, invite, admitted, revoked>>
    BY <1>8 DEF Recheck
  <2>2. \/ handler'[h].pc = "free"
        \/ /\ handler'[h].pc = "mark" /\ handler'[h].token = handler[h].token
           /\ Redeemable(handler[h].token)
    BY <1>1, <1>8 DEF Recheck, Goto, Done, Free
  <2> QED
    BY <1>5, <1>6, <2>1, <2>2 DEF Redeemable
<1>9. CASE Mark(h)
  <2>1. /\ handler[h].pc = "mark" /\ MarkRow(h)
        /\ UNCHANGED <<role, admitted, revoked>>
    BY <1>9 DEF Mark
  <2>2. \/ handler'[h].pc = "free"
        \/ /\ handler'[h].pc = "create" /\ handler'[h].token = handler[h].token
           /\ handler'[h].user = handler[h].user
    BY <1>1, <1>9 DEF Mark, Goto, Done, Free
  <2> QED
    BY <1>5, <2>1, <2>2, MarkPromise
<1>10. CASE CreateUser(h)
  <2>1. /\ handler[h].pc = "create" /\ InsertRow(h)
        /\ UNCHANGED <<invite, revoked>>
    BY <1>10 DEF CreateUser
  <2>2. handler'[h].pc = "free"
    BY <1>1, <1>10 DEF CreateUser, Done, Free
  <2> QED
    BY <1>5, <2>1, <2>2, InsertPromise
<1>11. CASE Fail(h)
  <2>1. UNCHANGED revoked /\ handler'[h].pc = "free"
    BY <1>1, <1>11 DEF Fail, Done, Free
  <2>2. TokenSerial'
    BY <1>6, <1>11, <2>1, MarkPromise, InsertPromise DEF Fail
  <2> QED
    BY <1>5, <2>1, <2>2
<1> QED
  BY <1>7, <1>8, <1>9, <1>10, <1>11 DEF HandlerStep

\* The commands, the clock and a crash.
LEMMA CommandSerialKeeps ==
  ASSUME IInv, HandlerSerial, TokenSerial, ~overlapped',
         \/ \E u \in Users, t \in Tokens : CreateInvite(u, t) \/ Revoke(u, t)
         \/ \E u, target \in Users, r \in Roles : SetRole(u, target, r)
         \/ \E t \in Tokens : Expire(t)
         \/ Crash
  PROVE  HandlerSerial' /\ TokenSerial'
<1>1. /\ invite \in [Tokens -> Invites] /\ role \in [Users -> Roles \cup {None}]
      /\ revoked \subseteq Tokens /\ admitted \in [Tokens -> SUBSET Users]
  BY DEF IInv, TypeOK
<1>2. ASSUME \A h \in Handlers : handler'[h].pc = "free" PROVE HandlerSerial'
  BY <1>2 DEF HandlerSerial, Busy
<1>3. ASSUME NEW a \in Users, NEW t \in Tokens, CreateInvite(a, t)
      PROVE  HandlerSerial' /\ TokenSerial'
  <2>1. (\A h \in Handlers : handler'[h].pc = "free") /\ UNCHANGED <<role, admitted, revoked>>
    BY <1>3, TakenAlone DEF CreateInvite
  <2>2. /\ invite[t].by = None /\ ~invite[t].exists
        /\ invite'[t].by = None
        /\ \A s \in Tokens : s # t => invite'[s] = invite[s]
    BY <1>1, <1>3 DEF CreateInvite, IInv, InviteInv
  <2>3. UserHasToken'
    <3> SUFFICES ASSUME NEW u \in Users \ {Owner}, role'[u] # None
                 PROVE  \E s \in Tokens : invite'[s].by = u
      BY DEF UserHasToken
    <3>1. PICK s \in Tokens : invite[s].by = u
      BY <2>1 DEF TokenSerial, UserHasToken
    <3> QED
      BY <2>2, <3>1
  <2>4. \A s \in Tokens : admitted'[s] \subseteq {invite'[s].by}
    BY <2>1, <2>2 DEF TokenSerial
  <2>5. \A s \in revoked' : invite'[s] = invite[s]
    BY <1>1, <2>1, <2>2 DEF TokenSerial
  <2> QED
    BY <1>2, <2>1, <2>3, <2>4, <2>5 DEF TokenSerial
<1>4. ASSUME NEW a \in Users, NEW t \in Tokens, Revoke(a, t)
      PROVE  HandlerSerial' /\ TokenSerial'
  <2>1. (\A h \in Handlers : handler'[h].pc = "free") /\ UNCHANGED <<role, admitted>>
    BY <1>4, TakenAlone DEF Revoke
  <2>2. /\ invite[t].exists /\ ~invite'[t].active
        /\ \A s \in Tokens : /\ invite'[s].by = invite[s].by
                             /\ invite'[s].exists = invite[s].exists
                             /\ ~invite[s].active => ~invite'[s].active
    BY <1>1, <1>4 DEF Revoke, Invites
  <2>3. revoked' \subseteq revoked \cup {t} /\ (revoked' # revoked => invite[t].by = None)
    BY <1>4 DEF Revoke
  <2>4. TokenSerial'
    BY <1>1, <2>1, <2>2, <2>3 DEF TokenSerial, UserHasToken
  <2> QED
    BY <1>2, <2>1, <2>4
<1>5. ASSUME NEW a \in Users, NEW target \in Users, NEW r \in Roles, SetRole(a, target, r)
      PROVE  HandlerSerial' /\ TokenSerial'
  <2>1. /\ \A h \in Handlers : handler'[h].pc = "free"
        /\ UNCHANGED <<invite, admitted, revoked>>
    BY <1>5, TakenAlone DEF SetRole
  <2>2. \A u \in Users : role'[u] # None => role[u] # None
    BY <1>1, <1>5 DEF SetRole
  <2> QED
    BY <1>2, <2>1, <2>2 DEF TokenSerial, UserHasToken
<1>6. ASSUME NEW t \in Tokens, Expire(t) PROVE HandlerSerial' /\ TokenSerial'
  <2>1. UNCHANGED <<role, handler, admitted, revoked>>
    BY <1>6 DEF Expire
  <2>2. \A s \in Tokens : /\ invite'[s].by = invite[s].by
                          /\ invite'[s].exists = invite[s].exists
                          /\ invite'[s].active = invite[s].active
    BY <1>1, <1>6 DEF Expire, Invites
  <2>3. TokenSerial'
    BY <1>1, <2>1, <2>2 DEF TokenSerial, UserHasToken
  <2>4. \A h \in Handlers : handler[h].pc # "free" => handler[h].token \in Tokens
    BY DEF IInv, HandlerInv
  <2> QED
    BY <2>1, <2>2, <2>3, <2>4 DEF HandlerSerial, Busy
<1>7. CASE Crash
  <2>1. (\A h \in Handlers : handler'[h].pc = "free") /\ UNCHANGED <<role, invite, admitted, revoked>>
    BY <1>7 DEF Crash, Free
  <2>2. TokenSerial'
    BY <2>1 DEF TokenSerial, UserHasToken
  <2> QED
    BY <1>2, <2>1, <2>2
<1> QED
  BY <1>3, <1>4, <1>5, <1>6, <1>7

\* Every step that leaves no overlap keeps what holds without one.
LEMMA SerialStepKeeps == IInv /\ SerialInv /\ [Next]_vars => SerialInv'
<1>1. ASSUME UNCHANGED vars, SerialInv PROVE SerialInv'
  BY <1>1 DEF vars, SerialInv, HandlerSerial, TokenSerial, UserHasToken, Busy
<1> SUFFICES ASSUME IInv, SerialInv, Next, ~overlapped'
             PROVE  HandlerSerial' /\ TokenSerial'
  BY <1>1 DEF SerialInv
<1>2. ~overlapped
  BY DEF Next, StartWithToken, GetInvite, LookupUser, Recheck, Mark, CreateUser, Fail,
         CreateInvite, Revoke, SetRole, Expire, Crash, TakeUp
<1>3. HandlerSerial /\ TokenSerial
  BY <1>2 DEF SerialInv
<1> QED
  BY <1>3, HandlerSerialKeeps, CommandSerialKeeps DEF Next, HandlerStep

\* Without overlaps nothing comes between the parts of a redemption.
THEOREM SerialInvariance == Spec => []SerialInv
BY InitInv, Invariance, SerialStepKeeps, PTL DEF Spec

\* As long as no two updates have overlapped, an invite admits at most one user,
\* and nobody has a row without an invite that carries their name.
THEOREM SingleUse == Spec => []OneInviteEach
<1>1. SerialInv => OneInviteEach
  <2> SUFFICES ASSUME HandlerSerial, TokenSerial PROVE OneUserPerToken /\ UserHasToken
    BY DEF SerialInv, OneInviteEach
  <2>1. ASSUME NEW t \in Tokens PROVE Cardinality(admitted[t]) <= 1
    <3>1. admitted[t] \subseteq {invite[t].by}
      BY DEF TokenSerial
    <3>2. IsFiniteSet({invite[t].by}) /\ Cardinality({invite[t].by}) = 1
      BY FS_Singleton
    <3> QED
      BY <3>1, <3>2, FS_Subset
  <2>2. UserHasToken
    BY DEF TokenSerial
  <2> QED
    BY <2>1, <2>2 DEF OneUserPerToken
<1> QED
  BY <1>1, SerialInvariance, PTL

\* As long as no two updates have overlapped, an invite revoked before it was used
\* admits nobody.
THEOREM RevocationIsFinal == Spec => RevokedAdmitsNobody
<1> DEFINE Nobody == ~overlapped => \A t \in revoked : admitted'[t] = admitted[t]
<1>1. IInv /\ SerialInv /\ [Next]_vars => [Nobody]_vars
  <2> SUFFICES ASSUME IInv, HandlerSerial, TokenSerial, Next, NEW t \in revoked
               PROVE  admitted'[t] = admitted[t]
    BY DEF vars, SerialInv
  <2>1. CASE UNCHANGED admitted
    BY <2>1
  <2>2. ASSUME NEW h \in Handlers, handler[h].pc = "create", InsertRow(h)
        PROVE  admitted'[t] = admitted[t]
    <3>1. handler[h].user \in Users /\ t \in Tokens
      BY <2>2, InsertFacts DEF Busy, IInv, TypeOK
    <3>2. invite[handler[h].token].by = handler[h].user /\ invite[t].by = None
      BY <2>2 DEF HandlerSerial, TokenSerial
    <3>3. t # handler[h].token
      BY <3>1, <3>2, NoneAssumption
    <3> QED
      BY <2>2, <3>1, <3>3, InsertFacts DEF Busy
  <2> QED
    BY <2>1, <2>2
      DEF Next, StartWithToken, GetInvite, LookupUser, Recheck, Mark, CreateUser, Fail,
          CreateInvite, Revoke, SetRole, Expire, Crash
<1> QED
  BY <1>1, Invariance, SerialInvariance, PTL DEF Spec, RevokedAdmitsNobody
=============================================================================
