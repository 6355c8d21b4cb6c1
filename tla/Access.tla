------------------------------- MODULE Access -------------------------------
(***************************************************************************)
(* src/security/auth.py over the users and invites tables of               *)
(* src/storage/repositories.py: who becomes a user, by which invite, and   *)
(* with which role.  Each repository call is a transaction of its own, and *)
(* redeeming an invite takes five of them: other updates, the passing of   *)
(* time, an error of the database, a cancellation and a crash can come     *)
(* between any two.                                                        *)
(*                                                                         *)
(* MaxInFlight is the number of updates handled at once: 1 as main.py      *)
(* builds the Application.  What holds only because of that is stated for  *)
(* the behaviours in which no two updates have overlapped so far.          *)
(***************************************************************************)
EXTENDS Naturals, FiniteSets

CONSTANTS
  Users,   \* Telegram users, the owner included
  Owner,   \* settings.admin_telegram_id
  Tokens,  \* the invite tokens token_hex may produce
  None,
  MaxInFlight,
  MaxSets,     \* bound on the changes of a role
  MaxFaults,   \* bound on the updates an error or a cancellation ends
  MaxCrashes   \* bound on the crashes

ASSUME OwnerAssumption == Owner \in Users
ASSUME NoneAssumption == None \notin Users \cup Tokens \cup {"admin", "user", "viewer"}
ASSUME AccessBoundsAssumption ==
  MaxInFlight \in Nat \ {0} /\ {MaxSets, MaxFaults, MaxCrashes} \subseteq Nat

Roles == {"admin", "user", "viewer"}
Handlers == 1..MaxInFlight

VARIABLES
  role,      \* users.role of each user, or None if there is no row
  invite,    \* invites: [exists, active, expired, by]
  handler,   \* the /start <token> updates being handled: [pc, user, token, known]
  sets, faults, crashes,  \* counters of the bounds
  admitted,    \* history: the users each token made
  revoked,     \* history: the tokens revoked before they were redeemed
  cut,         \* history: the tokens whose redemption ended while it was writing
  overlapped   \* history: whether two updates were ever handled at once

boundVars == <<sets, faults, crashes>>
vars == <<role, invite, handler, boundVars, admitted, revoked, cut, overlapped>>

\* Each pc names the transaction that comes next.
PCs == {"free", "get", "lookup", "recheck", "mark", "create"}
Free == [pc |-> "free", user |-> None, token |-> None, known |-> FALSE]
NoInvite == [exists |-> FALSE, active |-> FALSE, expired |-> FALSE, by |-> None]

Invites ==
  [exists : BOOLEAN, active : BOOLEAN, expired : BOOLEAN, by : Users \cup {None}]

TypeOK ==
  /\ role \in [Users -> Roles \cup {None}]
  /\ invite \in [Tokens -> Invites]
  /\ handler \in [Handlers -> [pc : PCs, user : Users \cup {None},
                               token : Tokens \cup {None}, known : BOOLEAN]]
  /\ sets \in 0..MaxSets /\ faults \in 0..MaxFaults /\ crashes \in 0..MaxCrashes
  /\ admitted \in [Tokens -> SUBSET Users]
  /\ revoked \subseteq Tokens /\ cut \subseteq Tokens
  /\ overlapped \in BOOLEAN

\* ensure_admin has made the owner's row.
Init ==
  /\ role = [u \in Users |-> IF u = Owner THEN "admin" ELSE None]
  /\ invite = [t \in Tokens |-> NoInvite]
  /\ handler = [h \in Handlers |-> Free]
  /\ sets = 0 /\ faults = 0 /\ crashes = 0
  /\ admitted = [t \in Tokens |-> {}]
  /\ revoked = {} /\ cut = {}
  /\ overlapped = FALSE

Busy(h) == handler[h].pc # "free"

\* An update is taken up beside those being handled, if there is room for it.
TakeUp ==
  /\ \E h \in Handlers : ~Busy(h)
  /\ overlapped' = (overlapped \/ \E h \in Handlers : Busy(h))

\* is_admin: by id, or by role.
IsAdmin(u) == u = Owner \/ role[u] = "admin"

\* (mutant) is_redeemable forgets revocation.
RedeemableIfRevoked(t) ==
  invite[t].exists /\ ~invite[t].expired /\ invite[t].by = None

Redeemable(t) ==
  /\ invite[t].exists
  /\ invite[t].active
  /\ ~invite[t].expired
  /\ invite[t].by = None

-----------------------------------------------------------------------------
(* /start <token>, for anybody but the owner. *)

Goto(h, pc) == handler' = [handler EXCEPT ![h].pc = pc]
Done(h) == handler' = [handler EXCEPT ![h] = Free]

StartWithToken(h, u, t) ==
  /\ ~Busy(h)
  /\ u # Owner
  /\ TakeUp
  /\ handler' = [handler EXCEPT ![h] = [pc |-> "get", user |-> u, token |-> t, known |-> FALSE]]
  /\ UNCHANGED <<role, invite, boundVars, admitted, revoked, cut>>

GetInvite(h) ==
  /\ handler[h].pc = "get"
  /\ IF Redeemable(handler[h].token) THEN Goto(h, "lookup") ELSE Done(h)
  /\ UNCHANGED <<role, invite, boundVars, admitted, revoked, cut, overlapped>>

\* (mutant) the lookup is by invite, not by user.
LookupAnybody(h) ==
  /\ handler[h].pc = "lookup"
  /\ handler' = [handler EXCEPT ![h].pc = "recheck",
                                ![h].known = (\E u \in Users : role[u] # None)]
  /\ UNCHANGED <<role, invite, boundVars, admitted, revoked, cut, overlapped>>

\* Somebody who is registered already uses the invite up all the same.
LookupUser(h) ==
  /\ handler[h].pc = "lookup"
  /\ handler' = [handler EXCEPT ![h].pc = "recheck",
                                ![h].known = (role[handler[h].user] # None)]
  /\ UNCHANGED <<role, invite, boundVars, admitted, revoked, cut, overlapped>>

\* (mutant) the answer of redeem() is not looked at.
RecheckIgnored(h) ==
  /\ handler[h].pc = "recheck"
  /\ IF Redeemable(handler[h].token) THEN Goto(h, "mark")
     ELSE IF handler[h].known THEN Done(h) ELSE Goto(h, "create")
  /\ UNCHANGED <<role, invite, boundVars, admitted, revoked, cut, overlapped>>

\* InviteRepository.redeem reads the invite once more ...
Recheck(h) ==
  /\ handler[h].pc = "recheck"
  /\ IF Redeemable(handler[h].token) THEN Goto(h, "mark") ELSE Done(h)
  /\ UNCHANGED <<role, invite, boundVars, admitted, revoked, cut, overlapped>>

\* (mutant) the UPDATE stamps the time and forgets who and whether.
MarkTimeOnly(h) ==
  /\ handler[h].pc = "mark"
  /\ IF handler[h].known THEN Done(h) ELSE Goto(h, "create")
  /\ UNCHANGED <<role, invite, boundVars, admitted, revoked, cut, overlapped>>

\* (mutant) the UPDATE has no guard.
MarkUnguarded(h) ==
  /\ handler[h].pc = "mark"
  /\ invite' = [invite EXCEPT ![handler[h].token].active = FALSE,
                              ![handler[h].token].by = handler[h].user]
  /\ IF handler[h].known THEN Done(h) ELSE Goto(h, "create")
  /\ UNCHANGED <<role, boundVars, admitted, revoked, cut, overlapped>>

\* ... and marks it, by an UPDATE that does nothing if it is no longer open;
\* how many rows it touched is not looked at.
MarkRow(h) ==
  LET t == handler[h].token IN
  IF invite[t].active /\ invite[t].by = None
  THEN invite' = [invite EXCEPT ![t].active = FALSE, ![t].by = handler[h].user]
  ELSE UNCHANGED invite

Mark(h) ==
  /\ handler[h].pc = "mark"
  /\ MarkRow(h)
  /\ IF handler[h].known THEN Done(h) ELSE Goto(h, "create")
  /\ UNCHANGED <<role, boundVars, admitted, revoked, cut, overlapped>>

\* (mutant) INSERT OR REPLACE.
CreateUserUpsert(h) ==
  /\ handler[h].pc = "create"
  /\ role' = [role EXCEPT ![handler[h].user] = "user"]
  /\ admitted' = [admitted EXCEPT ![handler[h].token] = @ \cup {handler[h].user}]
  /\ Done(h)
  /\ UNCHANGED <<invite, boundVars, revoked, cut, overlapped>>

\* INSERT: a row that is there already is an IntegrityError and stays.
InsertRow(h) ==
  LET u == handler[h].user IN
  IF role[u] = None
  THEN /\ role' = [role EXCEPT ![u] = "user"]
       /\ admitted' = [admitted EXCEPT ![handler[h].token] = @ \cup {u}]
  ELSE UNCHANGED <<role, admitted>>

CreateUser(h) ==
  /\ handler[h].pc = "create"
  /\ InsertRow(h)
  /\ Done(h)
  /\ UNCHANGED <<invite, boundVars, revoked, cut, overlapped>>

Writing(h) == handler[h].pc \in {"mark", "create"}

\* "database is locked", a full disk, a cancellation: the call raises and the
\* handler ends where it is.  The statement may have run and only its commit have
\* failed: it then waits in the pooled connection for the next one (Database.tla),
\* and counts as done here.
Fail(h) ==
  /\ faults < MaxFaults
  /\ faults' = faults + 1
  /\ Busy(h)
  /\ Done(h)
  /\ \/ UNCHANGED <<role, invite, admitted>>
     \/ handler[h].pc = "mark" /\ MarkRow(h) /\ UNCHANGED <<role, admitted>>
     \/ handler[h].pc = "create" /\ InsertRow(h) /\ UNCHANGED invite
  /\ cut' = IF Writing(h) THEN cut \cup {handler[h].token} ELSE cut
  /\ UNCHANGED <<sets, crashes, revoked, overlapped>>

-----------------------------------------------------------------------------
(* The administrators' commands, and the world. *)

\* /invite.  Two equal tokens of four random bytes are left out.
CreateInvite(u, t) ==
  /\ TakeUp
  /\ IsAdmin(u)
  /\ ~invite[t].exists
  /\ invite' = [invite EXCEPT ![t] =
       [exists |-> TRUE, active |-> TRUE, expired |-> FALSE, by |-> None]]
  /\ UNCHANGED <<role, handler, boundVars, admitted, revoked, cut>>

\* /revoke <token>, whatever state it is in.
Revoke(u, t) ==
  /\ TakeUp
  /\ IsAdmin(u)
  /\ invite[t].exists
  /\ invite' = [invite EXCEPT ![t].active = FALSE]
  /\ revoked' = IF invite[t].by = None THEN revoked \cup {t} ELSE revoked
  /\ UNCHANGED <<role, handler, boundVars, admitted, cut>>

\* /promote and /demote, of any row, the owner's included.
SetRole(u, target, r) ==
  /\ TakeUp
  /\ IsAdmin(u)
  /\ role[target] # None
  /\ sets < MaxSets
  /\ sets' = sets + 1
  /\ role' = [role EXCEPT ![target] = r]
  /\ UNCHANGED <<invite, handler, faults, crashes, admitted, revoked, cut>>

\* Twenty-four hours pass.
Expire(t) ==
  /\ invite[t].exists /\ ~invite[t].expired
  /\ invite' = [invite EXCEPT ![t].expired = TRUE]
  /\ UNCHANGED <<role, handler, boundVars, admitted, revoked, cut, overlapped>>

\* What was committed stays; handlers end where they are.  ensure_admin finds
\* the owner's row and leaves it alone.
Crash ==
  /\ crashes < MaxCrashes
  /\ crashes' = crashes + 1
  /\ handler' = [h \in Handlers |-> Free]
  /\ cut' = cut \cup {handler[h].token : h \in {g \in Handlers : Writing(g)}}
  /\ UNCHANGED <<role, invite, sets, faults, admitted, revoked, overlapped>>

Next ==
  \/ \E h \in Handlers :
       \/ \E u \in Users, t \in Tokens : StartWithToken(h, u, t)
       \/ GetInvite(h) \/ LookupUser(h) \/ Recheck(h) \/ Mark(h) \/ CreateUser(h) \/ Fail(h)
  \/ \E u \in Users, t \in Tokens : CreateInvite(u, t) \/ Revoke(u, t)
  \/ \E u, target \in Users, r \in Roles : SetRole(u, target, r)
  \/ \E t \in Tokens : Expire(t)
  \/ Crash

Spec == Init /\ [][Next]_vars

-----------------------------------------------------------------------------
(* Properties. *)

\* "Single-use" (README.md:109): as long as no two updates have overlapped an
\* invite admits one user, whatever crash or error comes between the five
\* transactions of a redemption ...
OneUserPerToken == \A t \in Tokens : Cardinality(admitted[t]) <= 1

\* ... and "no token, no access" (README.md:309): everybody but the owner who has
\* a row has an invite marked with their name.
UserHasToken ==
  \A u \in Users \ {Owner} : role[u] # None => \E t \in Tokens : invite[t].by = u

OneInviteEach == ~overlapped => OneUserPerToken /\ UserHasToken

\* An invite revoked before it was used admits nobody afterwards, as long as no
\* two updates have overlapped.
RevokedAdmitsNobody ==
  [][~overlapped => \A t \in revoked : admitted'[t] = admitted[t]]_vars

\* Even with updates handled two at a time, registering twice at once does not
\* undo a promotion that came between, and who redeemed an invite is never
\* rewritten.
RoleKept == \A u \in Users : role[u] # None /\ sets' = sets => role'[u] = role[u]
RedeemerKept == \A t \in Tokens : invite[t].by # None => invite'[t].by = invite[t].by

RowsAreKept == [][RoleKept /\ RedeemerKept]_vars

\* The comment at auth.py:113 promises an atomic redemption; the two commits do
\* not give it.  What they do give, however many updates are in flight: an invite
\* is used up without a row for its user, or a redemption on its way to one, only
\* if a redemption of that very invite crashed, raised or was cancelled while it
\* was writing.
LostOnlyToFailure ==
  \A t \in Tokens :
    \/ invite[t].by = None
    \/ role[invite[t].by] # None
    \/ \E h \in Handlers : /\ handler[h].pc = "create"
                           /\ handler[h].token = t
                           /\ handler[h].user = invite[t].by
    \/ t \in cut
=============================================================================
