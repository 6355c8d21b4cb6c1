---------------------------- MODULE ClaudeFacade ----------------------------
(***************************************************************************)
(* src/claude/facade.py with session.py and monitor.py: what lies between  *)
(* a message handler and the runner.  A request is checked against its     *)
(* user's daily cap, gets the user's session object, and runs the CLI with *)
(* the conversation id that object remembers; the answer's id is adopted   *)
(* into the object the request captured, and its cost is added to the day. *)
(*                                                                         *)
(* Sessions and costs live in memory and go with a restart; roles and caps *)
(* are rows of the database.  The CLI keeps its conversations on disk, in  *)
(* the host HOME for an admin and in the sandbox HOME for everybody else,  *)
(* so --resume after a change of role finds no conversation.               *)
(*                                                                         *)
(* MaxInFlight is the number of updates handled at once: 1 as main.py      *)
(* builds the Application, _CONCURRENT_LIMIT as the runner is documented.  *)
(***************************************************************************)
EXTENDS Integers, Sequences, FiniteSets

CONSTANTS
  Users,        \* the users who may send messages
  Owner,        \* settings.admin_telegram_id
  DefaultCap,   \* default_user_limit
  Caps,         \* the amounts /limit may set
  MaxCost,      \* the most one answer costs, in the unit of the caps
  None,         \* Python's None
  MaxInFlight,  \* updates handled at once
  MaxRequests, MaxSessions, MaxDays, MaxAdmin, MaxRestarts  \* bounds of a run

Unlimited == -1  \* what "/limit <user> off" stores

ASSUME CapsAssumption == DefaultCap \in Nat /\ Caps \subseteq Nat
ASSUME CostAssumption == MaxCost \in Nat
ASSUME InFlightAssumption == MaxInFlight \in Nat \ {0}
ASSUME BoundsAssumption ==
  {MaxRequests, MaxSessions, MaxDays, MaxAdmin, MaxRestarts} \subseteq Nat
ASSUME NoneAssumption == None \notin Int

Requests == 1..MaxRequests
Sessions == 1..MaxSessions
Homes == {"host", "sandbox"}
CapSettings == Caps \cup {Unlimited, None}

VARIABLES
  role,      \* users.role, "viewer" being a "user" here
  cap,       \* users.daily_cost_limit
  current,   \* SessionManager._sessions: the object of each user, or None
  session,   \* the session objects: [sid, started, expired]
  minted,    \* how many session objects were made
  req,       \* the requests: [pc, user, admin, limit, session, resume]
  spent,     \* CostTracker: each user's cost today
  conv,      \* CLI: its conversations, [home, session, user, turns]; the id is the index
  day, adminActs, restarts,  \* clocks of the bounds
  exempt,    \* history: users who ran without a cap today
  recent,    \* history: the answers of each session since its HOME last changed
  crossed    \* history: the sessions in which two runs were under way at once

memVars == <<current, session, minted, req, spent>>
dbVars == <<role, cap>>
clockVars == <<day, adminActs, restarts>>
historyVars == <<exempt, recent, crossed>>
vars == <<role, cap, current, session, minted, req, spent, conv,
          day, adminActs, restarts, exempt, recent, crossed>>

\* The id a session object is born with is a UUID the CLI has never seen.
LocalUuid == 0

PCs == {"unsent", "received", "capped", "running", "over"}
InFlight == {r \in Requests : req[r].pc \in {"received", "capped", "running"}}
Running == {r \in Requests : req[r].pc = "running"}
CanHandle == Cardinality(InFlight) < MaxInFlight

NoRequest ==
  [pc |-> "unsent", user |-> None, admin |-> FALSE, limit |-> None,
   session |-> None, resume |-> None]

\* A request that is over has no locals left.
Over == [NoRequest EXCEPT !.pc = "over"]

\* full_access: an admin's run keeps the host HOME.
HomeOf(r) == IF req[r].admin THEN "host" ELSE "sandbox"

TypeOK ==
  /\ role \in [Users -> {"user", "admin"}]
  /\ cap \in [Users -> CapSettings]
  /\ current \in [Users -> Sessions \cup {None}]
  /\ session \in [Sessions -> [sid : Nat, started : BOOLEAN, expired : BOOLEAN]]
  /\ minted \in 0..MaxSessions
  /\ req \in [Requests ->
       [pc : PCs, user : Users \cup {None}, admin : BOOLEAN,
        limit : Nat \cup {None}, session : Sessions \cup {None},
        resume : Nat \cup {None}]]
  /\ spent \in [Users -> Nat]
  /\ conv \in Seq([home : Homes, session : Sessions, user : Users, turns : SUBSET Requests])
  /\ day \in 0..MaxDays /\ adminActs \in 0..MaxAdmin /\ restarts \in 0..MaxRestarts
  /\ exempt \subseteq Users
  /\ recent \in [Sessions -> [home : Homes, answers : SUBSET Requests]]
  /\ crossed \subseteq Sessions

Init ==
  /\ role = [u \in Users |-> IF u = Owner THEN "admin" ELSE "user"]
  /\ cap = [u \in Users |-> None]
  /\ current = [u \in Users |-> None]
  /\ session = [o \in Sessions |-> [sid |-> LocalUuid, started |-> FALSE, expired |-> FALSE]]
  /\ minted = 0
  /\ req = [r \in Requests |-> NoRequest]
  /\ spent = [u \in Users |-> 0]
  /\ conv = <<>>
  /\ day = 0 /\ adminActs = 0 /\ restarts = 0
  /\ exempt = {}
  /\ recent = [o \in Sessions |-> [home |-> "sandbox", answers |-> {}]]
  /\ crossed = {}

-----------------------------------------------------------------------------
(* Receiving a message. *)

\* _resolve_limit: the user's own cap, else the default; negative is none.
ResolveLimit(u) ==
  LET effective == IF cap[u] # None THEN cap[u] ELSE DefaultCap
  IN  IF effective < 0 THEN None ELSE effective

\* The handler reads the role from the database and then awaits, at least for
\* its status message.  Requests are numbered in order.
Receive(r, u) ==
  /\ CanHandle
  /\ req[r].pc = "unsent"
  /\ \A p \in Requests : p < r => req[p].pc # "unsent"
  /\ req' = [req EXCEPT ![r] =
       [NoRequest EXCEPT !.pc = "received", !.user = u, !.admin = (role[u] = "admin")]]
  /\ UNCHANGED <<dbVars, current, session, minted, spent, conv, clockVars, historyVars>>

Exempt(r) == req[r].user = Owner \/ req[r].admin

\* Anybody else's cap is read from the database, which is an await of its own.
ReadLimit(r) ==
  /\ req[r].pc = "received"
  /\ ~Exempt(r)
  /\ req' = [req EXCEPT ![r].pc = "capped", ![r].limit = ResolveLimit(req[r].user)]
  /\ UNCHANGED <<dbVars, current, session, minted, spent, conv, clockVars, historyVars>>

\* (mutant) a user who has spent exactly the cap is let through.
OverCapStrict(r) == req[r].limit # None /\ spent[req[r].user] > req[r].limit

OverCap(r) == req[r].limit # None /\ spent[req[r].user] >= req[r].limit

Refuse(r) ==
  /\ req[r].pc = "capped"
  /\ OverCap(r)
  /\ req' = [req EXCEPT ![r] = Over]
  /\ UNCHANGED <<dbVars, current, session, minted, spent, conv, clockVars, historyVars>>

\* get_or_create: the user's object unless there is none or it has expired.
Reusable(u) == current[u] # None /\ ~session[current[u]].expired

\* (mutant) --resume is passed for a session Claude never answered in.
ResumeAlways(o) == session[o].sid

ResumeId(o) == IF session[o].started THEN session[o].sid ELSE None

\* From the cost check to the launch there is no await.
Start(r) ==
  LET u == req[r].user IN
  /\ req[r].pc = IF Exempt(r) THEN "received" ELSE "capped"
  /\ ~OverCap(r)
  /\ IF Reusable(u)
     THEN UNCHANGED <<current, minted>>
     ELSE /\ minted < MaxSessions
          /\ minted' = minted + 1
          /\ current' = [current EXCEPT ![u] = minted']
  /\ req' = [req EXCEPT ![r] =
       [@ EXCEPT !.pc = "running", !.session = current'[u], !.resume = ResumeId(current'[u])]]
  /\ exempt' = IF req[r].limit = None THEN exempt \cup {u} ELSE exempt
  /\ crossed' = crossed \cup ({current'[u]} \cap {req[s].session : s \in Running})
  /\ UNCHANGED <<dbVars, session, spent, conv, clockVars, recent>>

-----------------------------------------------------------------------------
(* The end of a run. *)

\* The CLI finds the conversation it is asked to resume in its own HOME only;
\* if it does not, the runner launches it again without --resume.
Resumed(r) ==
  /\ req[r].resume \in DOMAIN conv
  /\ conv[req[r].resume].home = HomeOf(r)

\* The CLI answers in the conversation it resumed, in a copy of it with a new
\* id, or in a new one; k is the id.
Converse(r, k) ==
  \/ /\ Resumed(r)
     /\ k = req[r].resume
     /\ conv' = [conv EXCEPT ![k].turns = @ \cup {r}]
  \/ /\ k = Len(conv) + 1
     /\ conv' = Append(conv,
          [home |-> HomeOf(r), session |-> req[r].session, user |-> req[r].user,
           turns |-> {r} \cup IF Resumed(r) THEN conv[req[r].resume].turns ELSE {}])

\* touch() and record(), after every answer.
Account(r, cost) ==
  /\ spent' = [spent EXCEPT ![req[r].user] = @ + cost]
  /\ req' = [req EXCEPT ![r] = Over]
  /\ UNCHANGED <<dbVars, current, minted, clockVars, exempt, crossed>>

\* (mutant) the id goes into whatever session the user has now.
AdoptIntoCurrent(r, k) ==
  LET o == IF current[req[r].user] = None THEN req[r].session ELSE current[req[r].user]
  IN  session' = [session EXCEPT ![o] = [sid |-> k, started |-> TRUE, expired |-> FALSE]]

\* (mutant) the context-loss bug: the answer's id is not kept.
AdoptNothing(r, k) ==
  session' = [session EXCEPT ![req[r].session].started = TRUE,
                             ![req[r].session].expired = FALSE]

\* The object the request captured adopts the answer's id.
Adopt(r, k) ==
  session' = [session EXCEPT ![req[r].session] =
                [sid |-> k, started |-> TRUE, expired |-> FALSE]]

Answer(r) ==
  LET o == req[r].session IN
  /\ req[r].pc = "running"
  /\ \E cost \in 0..MaxCost : Account(r, cost)
  /\ \E k \in DOMAIN conv \cup {Len(conv) + 1} : Converse(r, k) /\ Adopt(r, k)
  /\ recent' = [recent EXCEPT ![o] =
       [home |-> HomeOf(r),
        answers |-> {r} \cup IF @.home = HomeOf(r) THEN @.answers ELSE {}]]

\* Output that is no JSON: its id and cost are lost.  The id stands in that
\* was passed to the last launch, if any was.
AnswerUnparsed(r) ==
  /\ req[r].pc = "running"
  /\ Account(r, 0)
  /\ \E k \in DOMAIN conv \cup {Len(conv) + 1} : Converse(r, k)
  /\ IF Resumed(r)
     THEN Adopt(r, req[r].resume)
     ELSE session' = [session EXCEPT ![req[r].session].expired = FALSE]
  /\ UNCHANGED recent

\* A timeout or any other error: nothing is adopted and nothing is charged.
Fail(r) ==
  /\ req[r].pc = "running"
  /\ req' = [req EXCEPT ![r] = Over]
  /\ UNCHANGED <<dbVars, current, session, minted, spent, conv, clockVars, historyVars>>

-----------------------------------------------------------------------------
(* The other updates, and the world. *)

\* /new: a fresh object replaces the user's, whatever is still running.
NewSession(u) ==
  /\ CanHandle
  /\ minted < MaxSessions
  /\ minted' = minted + 1
  /\ current' = [current EXCEPT ![u] = minted']
  /\ UNCHANGED <<dbVars, session, req, spent, conv, clockVars, historyVars>>

\* current_session, as /status calls it, drops an expired session.
CurrentSession(u) ==
  /\ CanHandle
  /\ current[u] # None
  /\ session[current[u]].expired
  /\ current' = [current EXCEPT ![u] = None]
  /\ UNCHANGED <<dbVars, session, minted, req, spent, conv, clockVars, historyVars>>

\* /promote and /demote; MaxAdmin bounds them and /limit.
SetRole(u) ==
  /\ CanHandle
  /\ adminActs < MaxAdmin
  /\ adminActs' = adminActs + 1
  /\ role' = [role EXCEPT ![u] = IF @ = "admin" THEN "user" ELSE "admin"]
  /\ UNCHANGED <<cap, memVars, conv, day, restarts, historyVars>>

\* /limit <user> <amount | off | reset>
SetLimit(u) ==
  /\ CanHandle
  /\ adminActs < MaxAdmin
  /\ adminActs' = adminActs + 1
  /\ \E l \in CapSettings : l # cap[u] /\ cap' = [cap EXCEPT ![u] = l]
  /\ UNCHANGED <<role, memVars, conv, day, restarts, historyVars>>

\* More than timeout_hours since the last answer.
Expire(o) ==
  /\ o <= minted
  /\ ~session[o].expired
  /\ session' = [session EXCEPT ![o].expired = TRUE]
  /\ UNCHANGED <<dbVars, current, minted, req, spent, conv, clockVars, historyVars>>

\* today_cost looks up the current UTC date only.
Midnight ==
  /\ day < MaxDays
  /\ day' = day + 1
  /\ spent' = [u \in Users |-> 0]
  /\ exempt' = {}
  /\ UNCHANGED <<dbVars, current, session, minted, req, conv, adminActs, restarts, recent,
                 crossed>>

\* Sessions and costs are in memory only; so are the requests.
Restart ==
  /\ restarts < MaxRestarts
  /\ restarts' = restarts + 1
  /\ current' = [u \in Users |-> None]
  /\ spent' = [u \in Users |-> 0]
  /\ req' = [r \in Requests |-> IF r \in InFlight THEN Over ELSE req[r]]
  /\ exempt' = {}
  /\ UNCHANGED <<dbVars, session, minted, conv, day, adminActs, recent, crossed>>

Next ==
  \/ \E r \in Requests :
       \/ \E u \in Users : Receive(r, u)
       \/ ReadLimit(r) \/ Refuse(r) \/ Start(r) \/ Answer(r) \/ AnswerUnparsed(r) \/ Fail(r)
  \/ \E u \in Users : NewSession(u) \/ CurrentSession(u) \/ SetRole(u) \/ SetLimit(u)
  \/ \E o \in Sessions : Expire(o)
  \/ Midnight
  \/ Restart

Spec == Init /\ [][Next]_vars

-----------------------------------------------------------------------------
(* Properties. *)

\* A run resumes only a conversation the CLI once answered in, never the UUID a
\* session is born with (session.py:30-33: a wasted launch on every first
\* message), and only one that began in the session it captured: no other user's,
\* and none from before the user's /new, even when the run that /new overtook
\* answers afterwards.
ResumesOnlyItsOwn ==
  \A r \in Running :
    req[r].resume # None =>
      /\ req[r].resume \in DOMAIN conv
      /\ conv[req[r].resume].session = req[r].session
      /\ conv[req[r].resume].user = req[r].user

\* A conversation does not lose its thread, whatever else is in flight: the next
\* run of a session, under the same role as the last, sees every answer given
\* since the role last changed (facade.py:107-109).  Two runs of one session at
\* once, which one update at a time rules out, may each go on without the other.
ContextKept ==
  \A r \in Running :
    LET o == req[r].session IN
    o \notin crossed /\ recent[o].home = HomeOf(r) /\ recent[o].answers # {}
      => /\ Resumed(r)
         /\ recent[o].answers \subseteq conv[req[r].resume].turns

\* A user under a cap all day overshoots it by no more than one answer for
\* each request handled at once: the cost is known only when it is spent.
\* What was started before midnight counts in the new day, whatever the cap,
\* so that the bound is never below that of a cap of 1.
OvershootIsBounded ==
  \A u \in Users \ exempt : \E c \in Caps \cup {DefaultCap, 1} :
    spent[u] <= (c - 1) + MaxInFlight * MaxCost
=============================================================================
