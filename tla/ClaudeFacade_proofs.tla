------------------------- MODULE ClaudeFacade_proofs ------------------------
(***************************************************************************)
(* ClaudeFacade keeps conversations apart, and spending within bounds: a   *)
(* run resumes a conversation of its own session and user or none, and a   *)
(* cap is overshot by no more than the requests in flight can cost, for    *)
(* any users, caps and bounds, however many updates are handled at once.   *)
(* A session in which no two runs met does not lose its thread.            *)
(***************************************************************************)
EXTENDS ClaudeFacade, SequenceTheorems, FiniteSetTheorems, TLAPS

\* The id a session remembers is its birth UUID or that of a conversation of
\* its own; an object not yet made remembers nothing.
SessionInv ==
  \A o \in Sessions :
    /\ session[o].sid \in {LocalUuid} \cup DOMAIN conv
    /\ session[o].started => session[o].sid \in DOMAIN conv
    /\ session[o].sid \in DOMAIN conv => conv[session[o].sid].session = o
    /\ o > minted => session[o].sid = LocalUuid

\* A request that was received has a user, and a run a session.
RequestInv ==
  \A r \in Requests :
    /\ req[r].pc \in {"received", "capped", "running"} => req[r].user \in Users
    /\ req[r].pc = "running" => req[r].session \in 1..minted

\* What a run was told to resume.
ResumeInv ==
  \A r \in Running :
    /\ req[r].resume \in {None} \cup DOMAIN conv
    /\ req[r].resume \in DOMAIN conv =>
         /\ conv[req[r].resume].session = req[r].session
         /\ conv[req[r].resume].user = req[r].user

\* Whose session it is: it is the user's current one, or a run of theirs has it.
Has(u, o) == current[u] = o \/ \E r \in Running : req[r].user = u /\ req[r].session = o

\* A session is one user's, and so is the conversation it remembers.
OwnerInv ==
  \A u \in Users, o \in Sessions : Has(u, o) =>
    /\ o <= minted
    /\ \A v \in Users : Has(v, o) => v = u
    /\ session[o].sid \in DOMAIN conv => conv[session[o].sid].user = u

ThreadInv == SessionInv /\ RequestInv /\ ResumeInv /\ OwnerInv

\* The inductive invariant.
IInv == TypeOK /\ ThreadInv

-----------------------------------------------------------------------------
USE DEF Requests, Sessions, PCs, Homes, LocalUuid

RequestRecords ==
  [pc : PCs, user : Users \cup {None}, admin : BOOLEAN, limit : Nat \cup {None},
   session : Sessions \cup {None}, resume : Nat \cup {None}]

Conversations == [home : Homes, session : Sessions, user : Users, turns : SUBSET Requests]

\* The state in which the program starts satisfies the invariant.
LEMMA InitInv == Init => IInv
<1> SUFFICES ASSUME Init PROVE IInv
  OBVIOUS
<1> USE BoundsAssumption
<1>1. TypeOK
  BY DEF Init, TypeOK, NoRequest, CapSettings
<1>2. Running = {}
  BY DEF Init, Running, NoRequest
<1>3. DOMAIN conv = {}
  BY DEF Init
<1>4. SessionInv /\ RequestInv /\ ResumeInv
  BY <1>2, <1>3 DEF Init, SessionInv, RequestInv, ResumeInv, NoRequest
<1>5. \A u \in Users, o \in Sessions : ~Has(u, o)
  BY <1>2, NoneAssumption DEF Init, Has
<1>6. OwnerInv
  BY <1>5 DEF OwnerInv
<1> QED
  BY <1>1, <1>4, <1>6 DEF IInv, ThreadInv

-----------------------------------------------------------------------------
(* Steps that end or advance a request and leave the sessions alone. *)

\* A request that does not run, before or after the step, disturbs no thread;
\* one that ends does not either.
LEMMA NoRunBegins ==
  ASSUME TypeOK, ThreadInv, NEW r \in Requests, NEW p \in RequestRecords,
         p.pc # "running", p.pc \in {"received", "capped"} => p.user \in Users,
         req' = [req EXCEPT ![r] = p],
         UNCHANGED <<current, session, minted, conv>>
  PROVE  req' \in [Requests -> RequestRecords] /\ ThreadInv'
<1>1. req' \in [Requests -> RequestRecords]
      /\ \A s \in Requests : req'[s] = IF s = r THEN p ELSE req[s]
  BY DEF TypeOK, RequestRecords
<1>2. \A s \in Running' : s \in Running /\ req'[s] = req[s]
  BY <1>1 DEF Running
<1>3. \A u, o : Has(u, o)' => Has(u, o)
  BY <1>2 DEF Has
<1>4. SessionInv' /\ RequestInv' /\ ResumeInv' /\ OwnerInv'
  <2>1. SessionInv'
    BY DEF ThreadInv, SessionInv
  <2>2. RequestInv'
    BY <1>1 DEF ThreadInv, RequestInv
  <2>3. ResumeInv'
    BY <1>2 DEF ThreadInv, ResumeInv
  <2>4. OwnerInv'
    BY <1>3 DEF ThreadInv, OwnerInv
  <2> QED
    BY <2>1, <2>2, <2>3, <2>4
<1> QED
  BY <1>1, <1>4 DEF ThreadInv

\* A cap as the database keeps it resolves to a number or to none.
LEMMA LimitType ==
  ASSUME TypeOK, NEW u \in Users
  PROVE  ResolveLimit(u) \in Nat \cup {None}
<1>1. cap[u] \in Caps \cup {-1, None}
  BY DEF TypeOK, CapSettings, Unlimited
<1>2. CASE cap[u] = None
  BY <1>2, CapsAssumption DEF ResolveLimit
<1>3. CASE cap[u] # None /\ cap[u] \in Int
  <2>1. cap[u] >= 0 => cap[u] \in Nat
    BY <1>3
  <2> QED
    BY <1>3, <2>1 DEF ResolveLimit
<1>4. Caps \subseteq Int /\ -1 \in Int
  BY CapsAssumption
<1> QED
  BY <1>1, <1>2, <1>3, <1>4

\* The types of what such a step may change besides.
LEMMA RequestType ==
  ASSUME TypeOK, req' \in [Requests -> RequestRecords],
         UNCHANGED <<dbVars, current, session, minted, spent, conv, clockVars, historyVars>>
  PROVE  TypeOK'
BY DEF TypeOK, RequestRecords, dbVars, clockVars, historyVars, CapSettings

\* A request that is received has a user, and no session yet.
LEMMA ReceiveKeeps ==
  ASSUME IInv, NEW r \in Requests, NEW u \in Users, Receive(r, u)
  PROVE  IInv'
<1> DEFINE p == [NoRequest EXCEPT !.pc = "received", !.user = u, !.admin = (role[u] = "admin")]
<1>1. p \in RequestRecords /\ p.pc = "received" /\ p.user = u
  <2>1. CASE role[u] = "admin"
    <3>1. (role[u] = "admin") = TRUE
      BY <2>1
    <3>2. p = [NoRequest EXCEPT !.pc = "received", !.user = u, !.admin = TRUE]
      BY <3>1, Zenon
    <3> HIDE DEF p
    <3>3. p = [pc |-> "received", user |-> u, admin |-> TRUE, limit |-> None,
               session |-> None, resume |-> None]
      BY <3>2 DEF NoRequest
    <3> QED
      BY <3>3 DEF RequestRecords
  <2>2. CASE role[u] # "admin"
    <3>1. (role[u] = "admin") = FALSE
      BY <2>2
    <3>2. p = [NoRequest EXCEPT !.pc = "received", !.user = u, !.admin = FALSE]
      BY <3>1, Zenon
    <3> HIDE DEF p
    <3>3. p = [pc |-> "received", user |-> u, admin |-> FALSE, limit |-> None,
               session |-> None, resume |-> None]
      BY <3>2 DEF NoRequest
    <3> QED
      BY <3>3 DEF RequestRecords
  <2> QED
    BY <2>1, <2>2
<1>2. req' = [req EXCEPT ![r] = p]
      /\ UNCHANGED <<dbVars, current, session, minted, spent, conv, clockVars, historyVars>>
  BY DEF Receive
<1> HIDE DEF p
<1>3. TypeOK /\ ThreadInv
  BY DEF IInv
<1>4. req' \in [Requests -> RequestRecords] /\ ThreadInv'
  BY <1>1, <1>2, <1>3, NoRunBegins
<1> QED
  BY <1>2, <1>3, <1>4, RequestType DEF IInv

\* Reading the cap settles what the request may spend.
LEMMA ReadLimitKeeps ==
  ASSUME IInv, NEW r \in Requests, ReadLimit(r)
  PROVE  IInv'
<1> DEFINE limit == ResolveLimit(req[r].user)
           p == [req[r] EXCEPT !.pc = "capped", !.limit = limit]
<1>1. TypeOK /\ ThreadInv
  BY DEF IInv
<1>2. req[r].user \in Users
  BY <1>1 DEF ReadLimit, ThreadInv, RequestInv
<1>3. limit \in Nat \cup {None}
  BY <1>1, <1>2, LimitType
<1>4. req' = [req EXCEPT ![r].pc = "capped", ![r].limit = limit]
      /\ UNCHANGED <<dbVars, current, session, minted, spent, conv, clockVars, historyVars>>
  BY DEF ReadLimit
<1> HIDE DEF limit
<1>5. req[r] \in RequestRecords /\ req \in [Requests -> RequestRecords]
  BY <1>1 DEF TypeOK, RequestRecords
<1>6. p \in RequestRecords /\ p.pc = "capped" /\ p.user = req[r].user
  BY <1>3, <1>5 DEF RequestRecords
<1>7. req' = [req EXCEPT ![r] = p]
  BY <1>4, <1>5
<1> HIDE DEF p
<1>8. req' \in [Requests -> RequestRecords] /\ ThreadInv'
  BY <1>1, <1>2, <1>4, <1>6, <1>7, NoRunBegins
<1> QED
  BY <1>1, <1>4, <1>8, RequestType DEF IInv

\* A request that is over has a record of the right type.
LEMMA OverType == Over \in RequestRecords /\ Over.pc = "over"
BY DEF Over, NoRequest, RequestRecords

\* A request that is refused, or whose run fails, leaves no trace.
LEMMA RefuseOrFailKeeps ==
  ASSUME IInv, NEW r \in Requests, Refuse(r) \/ Fail(r)
  PROVE  IInv'
<1>1. req' = [req EXCEPT ![r] = Over]
      /\ UNCHANGED <<dbVars, current, session, minted, spent, conv, clockVars, historyVars>>
  BY DEF Refuse, Fail
<1>2. TypeOK /\ ThreadInv
  BY DEF IInv
<1>3. req' \in [Requests -> RequestRecords] /\ ThreadInv'
  BY <1>1, <1>2, OverType, NoRunBegins
<1> QED
  BY <1>1, <1>2, <1>3, RequestType DEF IInv

-----------------------------------------------------------------------------
(* A run begins. *)

\* The session a run gets is its user's own, or one nobody ever had.
LEMMA StartFacts ==
  ASSUME IInv, NEW r \in Requests, Start(r)
  PROVE  /\ req[r].user \in Users
         /\ current'[req[r].user] \in 1..minted'
         /\ \A v \in Users : v # req[r].user => current'[v] = current[v]
         /\ \/ minted' = minted /\ current' = current
            \/ minted' = minted + 1 /\ current'[req[r].user] = minted'
         /\ minted' \in 0..MaxSessions
         /\ current' \in [Users -> Sessions \cup {None}]
<1> DEFINE u == req[r].user
<1>1. u \in Users
  BY DEF Start, IInv, ThreadInv, RequestInv
<1>2. minted \in 0..MaxSessions /\ current \in [Users -> Sessions \cup {None}]
  BY DEF IInv, TypeOK
<1>3. CASE Reusable(u)
  <2>1. UNCHANGED <<current, minted>> /\ current[u] # None
    BY <1>3 DEF Start, Reusable
  <2>2. current[u] \in Sessions /\ Has(u, current[u])
    BY <1>1, <1>2, <2>1 DEF Has
  <2>3. current[u] <= minted
    BY <1>1, <2>2 DEF IInv, ThreadInv, OwnerInv
  <2> QED
    BY <1>1, <1>2, <2>1, <2>2, <2>3, BoundsAssumption
<1>4. CASE ~Reusable(u)
  <2>1. minted < MaxSessions /\ minted' = minted + 1 /\ current' = [current EXCEPT ![u] = minted']
    BY <1>4 DEF Start
  <2>2. minted' \in 1..MaxSessions
    BY <1>2, <2>1, BoundsAssumption
  <2> QED
    BY <1>1, <1>2, <2>1, <2>2
<1> QED
  BY <1>3, <1>4

\* An id that is resumed is of a conversation of that session and user.
LEMMA ResumeIdFacts ==
  ASSUME IInv, NEW r \in Requests, Start(r)
  PROVE  LET o == current'[req[r].user] IN
         /\ ResumeId(o) \in {None} \cup DOMAIN conv
         /\ ResumeId(o) \in DOMAIN conv =>
              conv[ResumeId(o)].session = o /\ conv[ResumeId(o)].user = req[r].user
<1> DEFINE u == req[r].user
           o == current'[u]
<1>1. /\ u \in Users /\ o \in 1..minted' /\ minted' \in 0..MaxSessions
      /\ \/ minted' = minted /\ current' = current
         \/ minted' = minted + 1 /\ o = minted'
  BY StartFacts
<1>2. o \in Sessions /\ minted \in Nat
  BY <1>1, BoundsAssumption DEF IInv, TypeOK
<1>3. CASE ~session[o].started
  <2>1. ResumeId(o) = None
    BY <1>3 DEF ResumeId
  <2>2. None \notin DOMAIN conv
    BY NoneAssumption DEF IInv, TypeOK
  <2> QED
    BY <2>1, <2>2
<1>4. CASE session[o].started
  <2>1. ResumeId(o) = session[o].sid
    BY <1>4 DEF ResumeId
  <2>2. /\ session[o].sid \in DOMAIN conv /\ conv[session[o].sid].session = o
        /\ (o > minted => session[o].sid = LocalUuid)
    BY <1>2, <1>4 DEF IInv, ThreadInv, SessionInv
  <2>3. LocalUuid \notin DOMAIN conv
    BY DEF IInv, TypeOK
  <2>4. current[u] = o
    BY <1>1, <1>2, <2>2, <2>3
  <2>5. Has(u, o)
    BY <2>4 DEF Has
  <2>6. conv[session[o].sid].user = u
    BY <1>1, <1>2, <2>2, <2>5 DEF IInv, ThreadInv, OwnerInv
  <2> QED
    BY <2>1, <2>2, <2>6
<1> QED
  BY <1>3, <1>4

\* A run of the user's session begins.
LEMMA StartKeeps ==
  ASSUME IInv, NEW r \in Requests, Start(r)
  PROVE  IInv'
<1> DEFINE u == req[r].user
           o == current'[u]
           resume == ResumeId(o)
           p == [req[r] EXCEPT !.pc = "running", !.session = o, !.resume = resume]
<1>1. /\ u \in Users /\ o \in 1..minted' /\ minted' \in 0..MaxSessions
      /\ \A v \in Users : v # u => current'[v] = current[v]
      /\ \/ minted' = minted /\ current' = current
         \/ minted' = minted + 1 /\ o = minted'
      /\ current' \in [Users -> Sessions \cup {None}]
  BY StartFacts
<1>2. o \in Sessions /\ minted \in Nat
  BY <1>1, BoundsAssumption DEF IInv, TypeOK
<1>3. /\ resume \in {None} \cup DOMAIN conv
      /\ resume \in DOMAIN conv => conv[resume].session = o /\ conv[resume].user = u
  BY ResumeIdFacts
<1>4. /\ req' = [req EXCEPT ![r] = p]
      /\ exempt' \in {exempt, exempt \cup {u}}
      /\ UNCHANGED <<role, cap, session, spent, conv, day, adminActs, restarts, recent>>
  BY DEF Start, dbVars, clockVars
<1>20. crossed' \subseteq Sessions
  BY <1>1, <1>2 DEF Start, IInv, TypeOK
<1> HIDE DEF resume
<1>5. req[r] \in RequestRecords /\ req \in [Requests -> RequestRecords]
  BY DEF IInv, TypeOK, RequestRecords
<1>6. resume \in Nat \cup {None}
  BY <1>3 DEF IInv, TypeOK
<1>7. p \in RequestRecords /\ p.pc = "running" /\ p.user = u /\ p.session = o /\ p.resume = resume
  BY <1>2, <1>5, <1>6 DEF RequestRecords
<1> HIDE DEF p
<1>8. req' \in [Requests -> RequestRecords] /\ \A s \in Requests : req'[s] = IF s = r THEN p ELSE req[s]
  BY <1>4, <1>5, <1>7
<1>9. TypeOK'
  BY <1>1, <1>4, <1>8, <1>20 DEF IInv, TypeOK, RequestRecords, CapSettings
<1>10. SessionInv'
  BY <1>1, <1>2, <1>4 DEF IInv, ThreadInv, SessionInv
<1>11. RequestInv'
  BY <1>1, <1>2, <1>7, <1>8 DEF IInv, ThreadInv, RequestInv
<1>12. ResumeInv'
  BY <1>3, <1>4, <1>7, <1>8 DEF IInv, ThreadInv, ResumeInv, Running
<1>13. \A v \in Users, q \in Sessions : Has(v, q)' => Has(v, q) \/ (v = u /\ q = o)
  BY <1>1, <1>7, <1>8 DEF Has, Running
<1>14. OwnerInv'
  <2>1. CASE minted' = minted /\ current' = current
    <3>1. Has(u, o)
      BY <2>1 DEF Has
    <3>2. \A v \in Users, q \in Sessions : Has(v, q)' => Has(v, q)
      BY <1>13, <3>1
    <3> QED
      BY <1>4, <2>1, <3>2 DEF IInv, ThreadInv, OwnerInv
  <2>2. CASE minted' = minted + 1 /\ o = minted'
    <3>1. \A v \in Users : ~Has(v, o)
      BY <1>2, <2>2 DEF IInv, ThreadInv, OwnerInv
    <3>2. session[o].sid \notin DOMAIN conv
      <4>1. session[o].sid = LocalUuid
        BY <1>2, <2>2 DEF IInv, ThreadInv, SessionInv
      <4> QED
        BY <4>1 DEF IInv, TypeOK
    <3>3. \A v \in Users, q \in Sessions :
            Has(v, q)' => IF q = o THEN v = u ELSE Has(v, q)
      BY <1>13, <3>1
    <3>4. \A v \in Users, q \in Sessions : Has(v, q) => q <= minted'
      BY <1>2, <2>2 DEF IInv, ThreadInv, OwnerInv
    <3> QED
      BY <1>1, <1>2, <1>4, <3>2, <3>3, <3>4 DEF IInv, ThreadInv, OwnerInv
  <2> QED
    BY <1>1, <2>1, <2>2
<1> QED
  BY <1>9, <1>10, <1>11, <1>12, <1>14 DEF IInv, ThreadInv

-----------------------------------------------------------------------------
(* A run ends. *)

\* The conversations stay whose they are, and the answer is in one of the
\* session and user that ran.
Grown(r, k) ==
  /\ conv' \in Seq(Conversations)
  /\ DOMAIN conv \subseteq DOMAIN conv'
  /\ \A i \in DOMAIN conv : conv'[i].session = conv[i].session /\ conv'[i].user = conv[i].user
  /\ k \in DOMAIN conv' /\ k \in Nat /\ k # LocalUuid
  /\ conv'[k].session = req[r].session /\ conv'[k].user = req[r].user

\* The CLI answers in a conversation of the session and user that ran.
LEMMA ConverseGrows ==
  ASSUME IInv, NEW r \in Requests, req[r].pc = "running",
         NEW k \in DOMAIN conv \cup {Len(conv) + 1}, Converse(r, k)
  PROVE  Grown(r, k)
<1>1. conv \in Seq(Conversations)
  BY DEF IInv, TypeOK, Conversations
<1>2. req[r].user \in Users /\ req[r].session \in Sessions
  <2>1. req[r].user \in Users /\ req[r].session \in 1..minted /\ minted \in 0..MaxSessions
    BY DEF IInv, ThreadInv, RequestInv, TypeOK
  <2> QED
    BY <2>1, BoundsAssumption
<1>3. CASE /\ Resumed(r) /\ k = req[r].resume
           /\ conv' = [conv EXCEPT ![k].turns = @ \cup {r}]
  <2>1. k \in DOMAIN conv /\ conv[k].session = req[r].session /\ conv[k].user = req[r].user
    BY <1>3 DEF Resumed, IInv, ThreadInv, ResumeInv, Running
  <2> DEFINE c == [conv[k] EXCEPT !.turns = @ \cup {r}]
  <2>2. conv[k] \in Conversations
    BY <1>1, <2>1
  <2>3. c \in Conversations /\ c.session = conv[k].session /\ c.user = conv[k].user
    BY <2>2 DEF Conversations
  <2>4. conv' = [conv EXCEPT ![k] = c]
    BY <1>3, <2>1
  <2> HIDE DEF c
  <2>5. /\ conv' \in Seq(Conversations) /\ DOMAIN conv' = DOMAIN conv
        /\ \A i \in DOMAIN conv : conv'[i] = IF i = k THEN c ELSE conv[i]
    BY <1>1, <2>1, <2>3, <2>4
  <2>6. k \in Nat /\ k # LocalUuid
    BY <1>1, <2>1
  <2> QED
    BY <2>1, <2>3, <2>5, <2>6 DEF Grown
<1>4. CASE \E c : /\ k = Len(conv) + 1
                  /\ c = [home |-> HomeOf(r), session |-> req[r].session, user |-> req[r].user,
                          turns |-> {r} \cup IF Resumed(r) THEN conv[req[r].resume].turns ELSE {}]
                  /\ conv' = Append(conv, c)
  <2>1. PICK c : /\ k = Len(conv) + 1
                 /\ c = [home |-> HomeOf(r), session |-> req[r].session, user |-> req[r].user,
                         turns |-> {r} \cup IF Resumed(r) THEN conv[req[r].resume].turns ELSE {}]
                 /\ conv' = Append(conv, c)
    BY <1>4
  <2>2. ({r} \cup IF Resumed(r) THEN conv[req[r].resume].turns ELSE {}) \subseteq Requests
    <3>1. Resumed(r) => conv[req[r].resume] \in Conversations
      BY <1>1 DEF Resumed
    <3>2. Resumed(r) => conv[req[r].resume].turns \subseteq Requests
      BY <3>1 DEF Conversations
    <3> QED
      BY <3>2
  <2>3. HomeOf(r) \in Homes
    BY DEF HomeOf
  <2>4. c \in Conversations /\ c.session = req[r].session /\ c.user = req[r].user
    BY <1>2, <2>1, <2>2, <2>3 DEF Conversations
  <2>5. /\ conv' \in Seq(Conversations) /\ DOMAIN conv' = 1..(Len(conv) + 1)
        /\ \A i \in DOMAIN conv : conv'[i] = conv[i]
        /\ conv'[Len(conv) + 1] = c
    BY <1>1, <2>1, <2>4
  <2>6. Len(conv) \in Nat /\ DOMAIN conv = 1..Len(conv)
    BY <1>1
  <2> QED
    BY <2>1, <2>4, <2>5, <2>6 DEF Grown
<1> QED
  BY <1>3, <1>4 DEF Converse

\* Sessions after a run: its own remembers k, the others what they did.
Adopted(r, k) ==
  \A o \in Sessions :
    /\ o # req[r].session => session'[o].sid = session[o].sid /\ session'[o].started = session[o].started
    /\ o = req[r].session => session'[o].sid = k

\* The run is over, and only its session may remember another conversation.
LEMMA RunEnds ==
  ASSUME IInv, NEW r \in Requests, req[r].pc = "running",
         NEW k, Grown(r, k),
         NEW n \in DOMAIN conv', conv'[n].session = req[r].session, conv'[n].user = req[r].user,
         Adopted(r, n) \/ (\A o \in Sessions : session'[o].sid = session[o].sid /\ session'[o].started = session[o].started),
         req' = [req EXCEPT ![r] = Over], UNCHANGED <<current, minted>>
  PROVE  req' \in [Requests -> RequestRecords] /\ ThreadInv'
<1>1. req' \in [Requests -> RequestRecords]
      /\ \A s \in Requests : req'[s] = IF s = r THEN Over ELSE req[s]
  BY OverType DEF IInv, TypeOK, RequestRecords
<1>2. \A s \in Running' : s \in Running /\ req'[s] = req[s]
  BY <1>1, OverType DEF Running
<1>3. \A u, o : Has(u, o)' => Has(u, o)
  BY <1>2 DEF Has
<1>4. /\ DOMAIN conv \subseteq DOMAIN conv'
      /\ \A i \in DOMAIN conv : conv'[i].session = conv[i].session /\ conv'[i].user = conv[i].user
      /\ DOMAIN conv' \subseteq Nat \ {LocalUuid} /\ DOMAIN conv \subseteq Nat \ {LocalUuid}
  <2>1. conv' \in Seq(Conversations) /\ conv \in Seq(Conversations)
    BY DEF Grown, IInv, TypeOK, Conversations
  <2>2. DOMAIN conv' = 1..Len(conv') /\ DOMAIN conv = 1..Len(conv)
    BY <2>1
  <2>3. DOMAIN conv' \subseteq Nat \ {LocalUuid} /\ DOMAIN conv \subseteq Nat \ {LocalUuid}
    BY <2>1, <2>2
  <2> QED
    BY <2>3 DEF Grown
<1>5. req[r].session \in 1..minted /\ req[r].user \in Users /\ minted \in 0..MaxSessions
  BY DEF IInv, ThreadInv, RequestInv, TypeOK
<1>6. \A o \in Sessions :
        \/ /\ session'[o].sid = session[o].sid /\ session'[o].started = session[o].started
        \/ o = req[r].session /\ session'[o].sid = n
  BY DEF Adopted
<1>7. \A o \in Sessions :
        /\ session[o].sid \in {LocalUuid} \cup DOMAIN conv
        /\ session[o].started => session[o].sid \in DOMAIN conv
        /\ session[o].sid \in DOMAIN conv => conv[session[o].sid].session = o
        /\ o > minted => session[o].sid = LocalUuid
  BY DEF IInv, ThreadInv, SessionInv
<1>8. SessionInv'
  <2> SUFFICES ASSUME NEW o \in Sessions
               PROVE  /\ session'[o].sid \in {LocalUuid} \cup DOMAIN conv'
                      /\ session'[o].started => session'[o].sid \in DOMAIN conv'
                      /\ session'[o].sid \in DOMAIN conv' => conv'[session'[o].sid].session = o
                      /\ o > minted' => session'[o].sid = LocalUuid
    BY DEF SessionInv
  <2>1. CASE session'[o].sid = session[o].sid /\ session'[o].started = session[o].started
    BY <1>4, <1>7, <2>1
  <2>2. CASE o = req[r].session /\ session'[o].sid = n
    <3>1. ~(o > minted')
      BY <1>5, <2>2
    <3> QED
      BY <2>2, <3>1
  <2> QED
    BY <1>6, <2>1, <2>2
<1>9. RequestInv'
  BY <1>1, OverType DEF IInv, ThreadInv, RequestInv
<1>10. ResumeInv'
  <2> SUFFICES ASSUME NEW s \in Running'
               PROVE  /\ req'[s].resume \in {None} \cup DOMAIN conv'
                      /\ req'[s].resume \in DOMAIN conv' =>
                           /\ conv'[req'[s].resume].session = req'[s].session
                           /\ conv'[req'[s].resume].user = req'[s].user
    BY DEF ResumeInv
  <2>1. s \in Running /\ req'[s] = req[s]
    BY <1>2
  <2>2. /\ req[s].resume \in {None} \cup DOMAIN conv
        /\ req[s].resume \in DOMAIN conv =>
             /\ conv[req[s].resume].session = req[s].session
             /\ conv[req[s].resume].user = req[s].user
    BY <2>1 DEF IInv, ThreadInv, ResumeInv
  <2>3. None \notin DOMAIN conv'
    BY <1>4, NoneAssumption
  <2> QED
    BY <1>4, <2>1, <2>2, <2>3
<1>11. OwnerInv'
  <2> SUFFICES ASSUME NEW u \in Users, NEW o \in Sessions, Has(u, o)'
               PROVE  /\ o <= minted'
                      /\ \A v \in Users : Has(v, o)' => v = u
                      /\ session'[o].sid \in DOMAIN conv' => conv'[session'[o].sid].user = u
    BY DEF OwnerInv
  <2>1. /\ o <= minted
        /\ \A v \in Users : Has(v, o) => v = u
        /\ session[o].sid \in DOMAIN conv => conv[session[o].sid].user = u
    BY <1>3 DEF IInv, ThreadInv, OwnerInv
  <2>2. CASE session'[o].sid = session[o].sid
    BY <1>3, <1>4, <1>7, <2>1, <2>2
  <2>3. CASE o = req[r].session /\ session'[o].sid = n
    <3>1. Has(req[r].user, o)
      BY <2>3 DEF Has, Running
    <3>2. req[r].user = u
      BY <1>5, <2>1, <3>1
    <3> QED
      BY <1>3, <2>1, <2>3, <3>2
  <2> QED
    BY <1>6, <2>2, <2>3
<1> QED
  BY <1>1, <1>8, <1>9, <1>10, <1>11 DEF ThreadInv

SessionRecords == [sid : Nat, started : BOOLEAN, expired : BOOLEAN]

\* What the end of a run leaves of the right type, when its own writes are.
LEMMA EndType ==
  ASSUME TypeOK, NEW r \in Requests, req[r].user \in Users,
         NEW cost \in Nat, Account(r, cost),
         req' \in [Requests -> RequestRecords],
         conv' \in Seq(Conversations),
         session' \in [Sessions -> SessionRecords],
         recent' \in [Sessions -> [home : Homes, answers : SUBSET Requests]]
  PROVE  TypeOK'
<1>1. spent' \in [Users -> Nat]
      /\ UNCHANGED <<role, cap, current, minted, day, adminActs, restarts, exempt, crossed>>
  BY DEF Account, TypeOK, dbVars, clockVars
<1> QED
  BY <1>1 DEF TypeOK, RequestRecords, Conversations, SessionRecords, CapSettings

\* The answer is adopted by the session the request captured.
LEMMA AnswerKeeps ==
  ASSUME IInv, NEW r \in Requests, Answer(r)
  PROVE  IInv'
<1>1. req[r].pc = "running" /\ req[r].user \in Users /\ req[r].session \in Sessions
  <2>1. /\ req[r].pc = "running" /\ req[r].user \in Users
        /\ req[r].session \in 1..minted /\ minted \in 0..MaxSessions
    BY DEF Answer, IInv, ThreadInv, RequestInv, TypeOK
  <2> QED
    BY <2>1, BoundsAssumption
<1>2. PICK cost \in 0..MaxCost : Account(r, cost)
  BY DEF Answer
<1>3. PICK k \in DOMAIN conv \cup {Len(conv) + 1} : Converse(r, k) /\ Adopt(r, k)
  BY DEF Answer
<1>4. Grown(r, k)
  BY <1>1, <1>3, ConverseGrows
<1>5. session \in [Sessions -> SessionRecords]
  BY DEF IInv, TypeOK, SessionRecords
<1>6. session' \in [Sessions -> SessionRecords] /\ Adopted(r, k)
  <2>1. k \in Nat
    BY <1>4 DEF Grown
  <2>2. session' = [session EXCEPT ![req[r].session] = [sid |-> k, started |-> TRUE, expired |-> FALSE]]
    BY <1>3 DEF Adopt
  <2> QED
    BY <1>1, <1>5, <2>1, <2>2 DEF Adopted, SessionRecords
<1>7. req' = [req EXCEPT ![r] = Over] /\ UNCHANGED <<current, minted>>
  BY <1>2 DEF Account
<1>8. /\ k \in DOMAIN conv' /\ conv'[k].session = req[r].session /\ conv'[k].user = req[r].user
      /\ conv' \in Seq(Conversations)
  BY <1>4 DEF Grown
<1>9. req' \in [Requests -> RequestRecords] /\ ThreadInv'
  BY <1>1, <1>4, <1>6, <1>7, <1>8, RunEnds
<1>10. recent' \in [Sessions -> [home : Homes, answers : SUBSET Requests]]
  <2> DEFINE new(a) == {r} \cup IF a.home = HomeOf(r) THEN a.answers ELSE {}
  <2>1. recent \in [Sessions -> [home : Homes, answers : SUBSET Requests]]
    BY DEF IInv, TypeOK
  <2>2. recent[req[r].session] \in [home : Homes, answers : SUBSET Requests]
    BY <1>1, <2>1
  <2>3. new(recent[req[r].session]) \in SUBSET Requests
    BY <2>2
  <2>4. HomeOf(r) \in Homes
    BY DEF HomeOf
  <2>5. recent' = [recent EXCEPT ![req[r].session] =
                     [home |-> HomeOf(r), answers |-> new(recent[req[r].session])]]
    BY <1>1, <2>1 DEF Answer
  <2> HIDE DEF new
  <2> QED
    BY <1>1, <2>1, <2>3, <2>4, <2>5
<1>11. cost \in Nat
  BY <1>2, CostAssumption
<1> QED
  BY <1>1, <1>2, <1>6, <1>8, <1>9, <1>10, <1>11, EndType DEF IInv

\* Output that is no JSON is adopted under the id that was resumed, or not.
LEMMA AnswerUnparsedKeeps ==
  ASSUME IInv, NEW r \in Requests, AnswerUnparsed(r)
  PROVE  IInv'
<1>1. req[r].pc = "running" /\ req[r].user \in Users /\ req[r].session \in Sessions
  <2>1. /\ req[r].pc = "running" /\ req[r].user \in Users
        /\ req[r].session \in 1..minted /\ minted \in 0..MaxSessions
    BY DEF AnswerUnparsed, IInv, ThreadInv, RequestInv, TypeOK
  <2> QED
    BY <2>1, BoundsAssumption
<1>2. Account(r, 0) /\ recent' = recent
  BY DEF AnswerUnparsed
<1>3. PICK k \in DOMAIN conv \cup {Len(conv) + 1} : Converse(r, k)
  BY DEF AnswerUnparsed
<1>4. Grown(r, k)
  BY <1>1, <1>3, ConverseGrows
<1>5. session \in [Sessions -> SessionRecords]
  BY DEF IInv, TypeOK, SessionRecords
<1>6. \E n \in DOMAIN conv' :
        /\ conv'[n].session = req[r].session /\ conv'[n].user = req[r].user
        /\ session' \in [Sessions -> SessionRecords]
        /\ \/ Adopted(r, n)
           \/ \A o \in Sessions :
                session'[o].sid = session[o].sid /\ session'[o].started = session[o].started
  <2>1. CASE Resumed(r)
    <3> DEFINE n == req[r].resume
    <3>1. n \in DOMAIN conv /\ conv[n].session = req[r].session /\ conv[n].user = req[r].user
      BY <1>1, <2>1 DEF Resumed, IInv, ThreadInv, ResumeInv, Running
    <3>2. n \in DOMAIN conv' /\ conv'[n].session = req[r].session /\ conv'[n].user = req[r].user
      BY <1>4, <3>1 DEF Grown
    <3>3. n \in Nat
      <4>1. conv \in Seq(Conversations)
        BY DEF IInv, TypeOK, Conversations
      <4>2. DOMAIN conv = 1..Len(conv)
        BY <4>1
      <4> QED
        BY <3>1, <4>2
    <3>4. session' = [session EXCEPT ![req[r].session] = [sid |-> n, started |-> TRUE, expired |-> FALSE]]
      BY <2>1 DEF AnswerUnparsed, Adopt
    <3> HIDE DEF n
    <3>5. session' \in [Sessions -> SessionRecords] /\ Adopted(r, n)
      BY <1>1, <1>5, <3>3, <3>4 DEF Adopted, SessionRecords
    <3> QED
      BY <3>2, <3>5
  <2>2. CASE ~Resumed(r)
    <3>1. session' = [session EXCEPT ![req[r].session].expired = FALSE]
      BY <2>2 DEF AnswerUnparsed
    <3>2. /\ session' \in [Sessions -> SessionRecords]
          /\ \A o \in Sessions :
               session'[o].sid = session[o].sid /\ session'[o].started = session[o].started
      <4> DEFINE fresh == [session[req[r].session] EXCEPT !.expired = FALSE]
      <4>1. session[req[r].session] \in SessionRecords
        BY <1>1, <1>5
      <4>2. /\ fresh \in SessionRecords
            /\ fresh.sid = session[req[r].session].sid
            /\ fresh.started = session[req[r].session].started
        BY <4>1 DEF SessionRecords
      <4>3. session' = [session EXCEPT ![req[r].session] = fresh]
        BY <3>1
      <4> HIDE DEF fresh
      <4> QED
        BY <1>1, <1>5, <4>2, <4>3
    <3> QED
      BY <1>4, <3>2 DEF Grown
  <2> QED
    BY <2>1, <2>2
<1>7. req' = [req EXCEPT ![r] = Over] /\ UNCHANGED <<current, minted>>
  BY <1>2 DEF Account
<1>8. req' \in [Requests -> RequestRecords] /\ ThreadInv'
  BY <1>1, <1>4, <1>6, <1>7, RunEnds
<1>9. /\ conv' \in Seq(Conversations)
      /\ session' \in [Sessions -> SessionRecords]
      /\ recent' \in [Sessions -> [home : Homes, answers : SUBSET Requests]]
  BY <1>2, <1>4, <1>6 DEF Grown, IInv, TypeOK
<1> QED
  BY <1>1, <1>2, <1>8, <1>9, EndType DEF IInv

-----------------------------------------------------------------------------
(* The other updates, and the world. *)

\* /new gives the user an object nobody has had.
LEMMA NewSessionKeeps ==
  ASSUME IInv, NEW u \in Users, NewSession(u)
  PROVE  IInv'
<1>1. /\ minted' = minted + 1 /\ minted < MaxSessions /\ current' = [current EXCEPT ![u] = minted']
      /\ UNCHANGED <<role, cap, session, req, spent, conv, day, adminActs, restarts,
                     exempt, recent, crossed>>
  BY DEF NewSession, dbVars, clockVars, historyVars
<1>2. minted \in 0..MaxSessions /\ current \in [Users -> Sessions \cup {None}]
  BY DEF IInv, TypeOK
<1>3. minted' \in Sessions /\ minted' \in 0..MaxSessions
  BY <1>1, <1>2, BoundsAssumption
<1>4. TypeOK'
  BY <1>1, <1>2, <1>3 DEF IInv, TypeOK, CapSettings
<1>5. SessionInv' /\ RequestInv' /\ ResumeInv'
  BY <1>1, <1>2 DEF IInv, ThreadInv, SessionInv, RequestInv, ResumeInv, Running
<1>6. \A v \in Users, q \in Sessions : Has(v, q)' => Has(v, q) \/ (v = u /\ q = minted')
  BY <1>1, <1>2 DEF Has, Running
<1>7. \A v \in Users, q \in Sessions : Has(v, q) => q <= minted /\ q # minted'
  BY <1>1, <1>2 DEF IInv, ThreadInv, OwnerInv
<1>8. session[minted'].sid \notin DOMAIN conv
  <2>1. session[minted'].sid = LocalUuid
    BY <1>1, <1>2, <1>3 DEF IInv, ThreadInv, SessionInv
  <2> QED
    BY <2>1 DEF IInv, TypeOK
<1>9. OwnerInv'
  BY <1>1, <1>2, <1>3, <1>6, <1>7, <1>8 DEF IInv, ThreadInv, OwnerInv
<1> QED
  BY <1>4, <1>5, <1>9 DEF IInv, ThreadInv

\* Users who have fewer sessions, and requests that are over, own no more.
LEMMA FewerHave ==
  ASSUME IInv, TypeOK',
         \A u \in Users : current'[u] \in {current[u], None},
         \A r \in Requests : req'[r].pc = "running" => req'[r] = req[r],
         \A r \in Requests : req'[r] = req[r] \/ req'[r].pc = "over",
         \A o \in Sessions : session'[o].sid = session[o].sid /\ session'[o].started = session[o].started,
         UNCHANGED <<minted, conv>>
  PROVE  IInv'
<1>1. SessionInv'
  BY DEF IInv, ThreadInv, SessionInv
<1>2. RequestInv'
  BY DEF IInv, ThreadInv, RequestInv
<1>3. ResumeInv'
  BY DEF IInv, ThreadInv, ResumeInv, Running
<1>4. \A u \in Users, o \in Sessions : Has(u, o)' => Has(u, o)
  BY NoneAssumption DEF Has, Running
<1>5. OwnerInv'
  BY <1>4 DEF IInv, ThreadInv, OwnerInv
<1> QED
  BY <1>1, <1>2, <1>3, <1>5 DEF IInv, ThreadInv

\* /status drops an expired session.
LEMMA CurrentSessionKeeps ==
  ASSUME IInv, NEW u \in Users, CurrentSession(u)
  PROVE  IInv'
<1>1. /\ current' = [current EXCEPT ![u] = None]
      /\ UNCHANGED <<role, cap, session, minted, req, spent, conv, day, adminActs, restarts,
                     exempt, recent, crossed>>
  BY DEF CurrentSession, dbVars, clockVars, historyVars
<1>2. TypeOK' /\ \A v \in Users : current'[v] \in {current[v], None}
  BY <1>1 DEF IInv, TypeOK, CapSettings
<1> QED
  BY <1>1, <1>2, FewerHave

\* A session grows old but remembers what it did.
LEMMA ExpireKeeps ==
  ASSUME IInv, NEW o \in Sessions, Expire(o)
  PROVE  IInv'
<1>1. /\ session' = [session EXCEPT ![o].expired = TRUE]
      /\ UNCHANGED <<role, cap, current, minted, req, spent, conv, day, adminActs, restarts,
                     exempt, recent, crossed>>
  BY DEF Expire, dbVars, clockVars, historyVars
<1>2. session \in [Sessions -> SessionRecords]
  BY DEF IInv, TypeOK, SessionRecords
<1>3. /\ session' \in [Sessions -> SessionRecords]
      /\ \A q \in Sessions : session'[q].sid = session[q].sid /\ session'[q].started = session[q].started
  <2> DEFINE old == [session[o] EXCEPT !.expired = TRUE]
  <2>1. session[o] \in SessionRecords
    BY <1>2
  <2>2. old \in SessionRecords /\ old.sid = session[o].sid /\ old.started = session[o].started
    BY <2>1 DEF SessionRecords
  <2>3. session' = [session EXCEPT ![o] = old]
    BY <1>1
  <2> HIDE DEF old
  <2> QED
    BY <1>2, <2>2, <2>3
<1>4. TypeOK'
  BY <1>1, <1>3 DEF IInv, TypeOK, SessionRecords, CapSettings
<1> QED
  BY <1>1, <1>3, <1>4, FewerHave

\* Roles and caps touch no session.
LEMMA AdminKeeps ==
  ASSUME IInv, NEW u \in Users, SetRole(u) \/ SetLimit(u)
  PROVE  IInv'
<1>1. /\ adminActs' \in 0..MaxAdmin
      /\ UNCHANGED <<current, session, minted, req, spent, conv, day, restarts,
                     exempt, recent, crossed>>
  BY BoundsAssumption DEF SetRole, SetLimit, memVars, historyVars, IInv, TypeOK
<1>2. role' \in [Users -> {"user", "admin"}] /\ cap' \in [Users -> CapSettings]
  <2>1. role \in [Users -> {"user", "admin"}] /\ cap \in [Users -> CapSettings]
    BY DEF IInv, TypeOK
  <2>2. CASE SetRole(u)
    <3>1. role' = [role EXCEPT ![u] = IF @ = "admin" THEN "user" ELSE "admin"] /\ cap' = cap
      BY <2>2 DEF SetRole
    <3> QED
      BY <2>1, <3>1
  <2>3. CASE SetLimit(u)
    <3>1. role' = role /\ \E l \in CapSettings : cap' = [cap EXCEPT ![u] = l]
      BY <2>3 DEF SetLimit
    <3> QED
      BY <2>1, <3>1
  <2> QED
    BY <2>2, <2>3
<1>3. TypeOK'
  BY <1>1, <1>2 DEF IInv, TypeOK
<1> QED
  BY <1>1, <1>3, FewerHave

\* A new day starts with nothing spent.
LEMMA MidnightKeeps ==
  ASSUME IInv, Midnight
  PROVE  IInv'
<1>1. /\ day' \in 0..MaxDays /\ exempt' = {} /\ spent' = [u \in Users |-> 0]
      /\ UNCHANGED <<role, cap, current, session, minted, req, conv, adminActs, restarts,
                     recent, crossed>>
  BY BoundsAssumption DEF Midnight, dbVars, IInv, TypeOK
<1>2. TypeOK'
  BY <1>1 DEF IInv, TypeOK, CapSettings
<1> QED
  BY <1>1, <1>2, FewerHave

\* A restart leaves the sessions to nobody.
LEMMA RestartKeeps ==
  ASSUME IInv, Restart
  PROVE  IInv'
<1>1. /\ restarts' \in 0..MaxRestarts /\ exempt' = {} /\ spent' = [u \in Users |-> 0]
      /\ current' = [u \in Users |-> None]
      /\ UNCHANGED <<role, cap, session, minted, conv, day, adminActs, recent, crossed>>
  BY BoundsAssumption DEF Restart, dbVars, IInv, TypeOK
<1>2. req' = [r \in Requests |-> IF r \in InFlight THEN Over ELSE req[r]]
  BY DEF Restart
<1>3. /\ req' \in [Requests -> RequestRecords]
      /\ \A r \in Requests : req'[r] = req[r] \/ req'[r].pc = "over"
      /\ \A r \in Requests : req'[r].pc = "running" => req'[r] = req[r]
  BY <1>2, OverType DEF IInv, TypeOK, RequestRecords
<1>4. TypeOK'
  BY <1>1, <1>3 DEF IInv, TypeOK, RequestRecords, CapSettings
<1> QED
  BY <1>1, <1>3, <1>4, FewerHave

\* Every step keeps the invariant.
LEMMA StepKeeps == IInv /\ [Next]_vars => IInv'
<1> SUFFICES ASSUME IInv, [Next]_vars PROVE IInv'
  OBVIOUS
<1>1. CASE UNCHANGED vars
  <2>1. /\ UNCHANGED <<role, cap, current, session, minted, req, spent, conv>>
        /\ UNCHANGED <<day, adminActs, restarts, exempt, recent, crossed>>
    BY <1>1 DEF vars
  <2>2. TypeOK'
    BY <2>1 DEF IInv, TypeOK, CapSettings
  <2> QED
    BY <2>1, <2>2, FewerHave
<1>2. CASE Next
  BY <1>2, ReceiveKeeps, ReadLimitKeeps, RefuseOrFailKeeps, StartKeeps, AnswerKeeps,
     AnswerUnparsedKeeps, NewSessionKeeps, CurrentSessionKeeps, AdminKeeps, ExpireKeeps,
     MidnightKeeps, RestartKeeps DEF Next
<1> QED
  BY <1>1, <1>2

-----------------------------------------------------------------------------
\* The inductive invariant holds in every reachable state.
THEOREM Invariance == Spec => []IInv
BY InitInv, StepKeeps, PTL DEF Spec

\* Every variable keeps its type; a cap in force is never negative.
THEOREM TypeCorrect == Spec => []TypeOK
<1>1. IInv => TypeOK
  BY DEF IInv
<1> QED
  BY <1>1, Invariance, PTL

\* --resume is never passed for an id the CLI did not give, nor for another
\* user's conversation or one of another session.
THEOREM OwnThread == Spec => []ResumesOnlyItsOwn
<1>1. IInv => ResumesOnlyItsOwn
  BY DEF IInv, ThreadInv, ResumeInv, ResumesOnlyItsOwn
<1> QED
  BY <1>1, Invariance, PTL

-----------------------------------------------------------------------------
(* What a day may cost: the requests in flight are charged in advance with *)
(* the most an answer costs.                                               *)

RunsOf(u) == {r \in Running : req[r].user = u}

\* What a user has spent and may still spend is within the bound.
Within(u) ==
  \E c \in Caps \cup {DefaultCap, 1} :
    spent[u] + Cardinality(RunsOf(u)) * MaxCost <= (c - 1) + MaxInFlight * MaxCost

SpendInv ==
  /\ Cardinality(InFlight) <= MaxInFlight
  /\ \A r \in Requests : req[r].limit \in Caps \cup {DefaultCap, None}
  /\ \A u \in Users \ exempt : Within(u)

\* Sets of requests are finite, and part of one has no more members.
LEMMA Counted ==
  ASSUME NEW S \in SUBSET Requests
  PROVE  /\ IsFiniteSet(S) /\ Cardinality(S) \in Nat
         /\ \A T \in SUBSET S : Cardinality(T) \in Nat /\ Cardinality(T) <= Cardinality(S)
<1>1. IsFiniteSet(Requests)
  BY BoundsAssumption, FS_Interval
<1>2. IsFiniteSet(S)
  BY <1>1, FS_Subset
<1>3. \A T \in SUBSET S : IsFiniteSet(T) /\ Cardinality(T) <= Cardinality(S)
  BY <1>2, FS_Subset
<1> QED
  BY <1>2, <1>3, FS_CardinalityType

\* A product with a number that is no smaller is no smaller.
LEMMA ProductGrows ==
  ASSUME NEW a \in Nat, NEW b \in Nat, a <= b, NEW k \in Nat
  PROVE  a * k \in Nat /\ b * k \in Nat /\ a * k <= b * k
OBVIOUS

\* The numbers the bound is made of.
LEMMA SpendTypes ==
  ASSUME TypeOK
  PROVE  /\ MaxCost \in Nat /\ MaxInFlight \in Nat \ {0} /\ MaxInFlight * MaxCost \in Nat
         /\ \A u \in Users : spent[u] \in Nat
         /\ Caps \cup {DefaultCap, 1} \subseteq Nat
BY CapsAssumption, CostAssumption, InFlightAssumption DEF TypeOK

\* A step that starts no run of a user, and charges nothing, keeps the bound.
LEMMA WithinKept ==
  ASSUME IInv, NEW u \in Users, Within(u),
         (RunsOf(u))' \subseteq RunsOf(u), spent'[u] = spent[u]
  PROVE  Within(u)'
<1>1. Cardinality((RunsOf(u))') \in Nat /\ Cardinality((RunsOf(u))') <= Cardinality(RunsOf(u))
      /\ Cardinality(RunsOf(u)) \in Nat
  <2>1. RunsOf(u) \in SUBSET Requests
    BY DEF RunsOf, Running
  <2> QED
    BY <2>1, Counted
<1>2. PICK c \in Caps \cup {DefaultCap, 1} :
        spent[u] + Cardinality(RunsOf(u)) * MaxCost <= (c - 1) + MaxInFlight * MaxCost
  BY DEF Within
<1> DEFINE was == Cardinality(RunsOf(u))
           is == Cardinality((RunsOf(u))')
           bound == (c - 1) + MaxInFlight * MaxCost
<1>3. was \in Nat /\ is \in Nat /\ is <= was
  BY <1>1
<1>4. MaxCost \in Nat /\ spent[u] \in Nat /\ c \in Nat /\ bound \in Int
  BY SpendTypes DEF IInv
<1> HIDE DEF was, is
<1>5. is * MaxCost <= was * MaxCost /\ is * MaxCost \in Nat /\ was * MaxCost \in Nat
  BY <1>3, <1>4, ProductGrows
<1>6. spent[u] + was * MaxCost <= bound
  BY <1>2 DEF was
<1> HIDE DEF bound
<1>7. spent'[u] + is * MaxCost <= bound
  BY <1>4, <1>5, <1>6
<1> QED
  BY <1>7 DEF Within, is, bound

\* With nothing spent, or less than a cap, all that may run is within the bound.
LEMMA WithinAtStart ==
  ASSUME TypeOK, TypeOK', NEW u \in Users, NEW c \in Caps \cup {DefaultCap, 1},
         spent'[u] <= c - 1, Cardinality(InFlight') <= MaxInFlight
  PROVE  Within(u)'
<1> DEFINE is == Cardinality((RunsOf(u))')
<1>1. is \in Nat /\ is <= MaxInFlight
  <2>1. InFlight' \in SUBSET Requests /\ (RunsOf(u))' \in SUBSET InFlight'
    BY DEF RunsOf, Running, InFlight
  <2>2. /\ Cardinality(InFlight') \in Nat /\ Cardinality((RunsOf(u))') \in Nat
        /\ Cardinality((RunsOf(u))') <= Cardinality(InFlight')
    BY <2>1, Counted
  <2> QED
    BY <2>2, InFlightAssumption
<1>2. MaxCost \in Nat /\ MaxInFlight \in Nat /\ spent'[u] \in Nat /\ c \in Nat
  BY SpendTypes, InFlightAssumption DEF TypeOK
<1> HIDE DEF is
<1>3. is * MaxCost <= MaxInFlight * MaxCost /\ is * MaxCost \in Nat /\ MaxInFlight * MaxCost \in Nat
  BY <1>1, <1>2, ProductGrows
<1>4. spent'[u] + is * MaxCost <= (c - 1) + MaxInFlight * MaxCost
  BY <1>2, <1>3
<1> QED
  BY <1>4 DEF Within, is

\* A step that starts nothing and charges nothing more keeps what is bounded;
\* users may join the exempt ones.
LEMMA NothingSpent ==
  ASSUME IInv, SpendInv,
         Cardinality(InFlight') <= MaxInFlight,
         \A r \in Requests : req'[r].limit \in Caps \cup {DefaultCap, None},
         Running' \subseteq Running, \A r \in Running' : req'[r].user = req[r].user,
         spent' = spent, exempt' = exempt
  PROVE  SpendInv'
<1>1. \A u \in Users \ exempt : Within(u)'
  <2> SUFFICES ASSUME NEW u \in Users \ exempt PROVE Within(u)'
    OBVIOUS
  <2>1. (RunsOf(u))' \subseteq RunsOf(u)
    BY DEF RunsOf
  <2>2. Within(u)
    BY DEF SpendInv
  <2> QED
    BY <2>1, <2>2, WithinKept
<1> QED
  BY <1>1 DEF SpendInv

\* What a cap resolves to is one of the caps, or none.
LEMMA LimitIsACap ==
  ASSUME TypeOK, NEW u \in Users
  PROVE  ResolveLimit(u) \in Caps \cup {DefaultCap, None}
BY CapsAssumption DEF TypeOK, CapSettings, Unlimited, ResolveLimit

\* A request that is new, learns its cap, or ends, starts no run.
LEMMA RequestSpends ==
  ASSUME IInv, SpendInv, NEW r \in Requests, NEW p,
         req' = [req EXCEPT ![r] = p],
         p.pc # "running", p.limit \in Caps \cup {DefaultCap, None},
         \/ CanHandle
         \/ p.pc = "capped" /\ r \in InFlight
         \/ p.pc = "over",
         spent' = spent, exempt' = exempt
  PROVE  SpendInv'
<1>1. \A s \in Requests : req'[s] = IF s = r THEN p ELSE req[s]
  BY DEF IInv, TypeOK
<1>2. /\ Running' \subseteq Running
      /\ \A s \in Running' : req'[s].user = req[s].user
  BY <1>1 DEF Running
<1>3. \A s \in Requests : req'[s].limit \in Caps \cup {DefaultCap, None}
  BY <1>1 DEF SpendInv
<1>4. InFlight \in SUBSET Requests /\ IsFiniteSet(InFlight) /\ Cardinality(InFlight) \in Nat
  BY Counted DEF InFlight
<1>5. Cardinality(InFlight') <= MaxInFlight
  <2>1. CASE CanHandle
    <3>1. InFlight' \in SUBSET (InFlight \cup {r})
      BY <1>1 DEF InFlight
    <3>2. InFlight \cup {r} \in SUBSET Requests
      BY <1>4
    <3>3. Cardinality(InFlight') \in Nat /\ Cardinality(InFlight') <= Cardinality(InFlight \cup {r})
      BY <3>1, <3>2, Counted
    <3>4. Cardinality(InFlight \cup {r}) \in {Cardinality(InFlight), Cardinality(InFlight) + 1}
      BY <1>4, FS_AddElement
    <3> QED
      BY <1>4, <2>1, <3>3, <3>4, InFlightAssumption DEF CanHandle
  <2>2. CASE (p.pc = "capped" /\ r \in InFlight) \/ p.pc = "over"
    <3>1. InFlight' \in SUBSET InFlight
      BY <1>1, <2>2 DEF InFlight
    <3>2. Cardinality(InFlight') \in Nat /\ Cardinality(InFlight') <= Cardinality(InFlight)
      BY <1>4, <3>1, Counted
    <3> QED
      BY <1>4, <3>2, InFlightAssumption DEF SpendInv
  <2> QED
    BY <2>1, <2>2
<1> QED
  BY <1>2, <1>3, <1>5, NothingSpent

\* A request is received only while another may be handled.
LEMMA ReceiveSpends ==
  ASSUME IInv, SpendInv, NEW r \in Requests, NEW u \in Users, Receive(r, u)
  PROVE  SpendInv'
<1> DEFINE p == [NoRequest EXCEPT !.pc = "received", !.user = u, !.admin = (role[u] = "admin")]
<1>1. p.pc = "received" /\ p.limit = None
  BY DEF NoRequest
<1>2. /\ CanHandle /\ req' = [req EXCEPT ![r] = p]
      /\ spent' = spent /\ exempt' = exempt
  BY DEF Receive, historyVars
<1> HIDE DEF p
<1> QED
  BY <1>1, <1>2, RequestSpends

\* The cap that is read is one of the caps, or none.
LEMMA ReadLimitSpends ==
  ASSUME IInv, SpendInv, NEW r \in Requests, ReadLimit(r)
  PROVE  SpendInv'
<1> DEFINE limit == ResolveLimit(req[r].user)
           p == [req[r] EXCEPT !.pc = "capped", !.limit = limit]
<1>1. TypeOK /\ req[r].user \in Users /\ r \in InFlight
  BY DEF ReadLimit, IInv, ThreadInv, RequestInv, InFlight
<1>2. limit \in Caps \cup {DefaultCap, None}
  BY <1>1, LimitIsACap
<1>3. /\ req' = [req EXCEPT ![r].pc = "capped", ![r].limit = limit]
      /\ spent' = spent /\ exempt' = exempt
  BY DEF ReadLimit, historyVars
<1> HIDE DEF limit
<1>4. req[r] \in RequestRecords /\ req \in [Requests -> RequestRecords]
  BY <1>1 DEF TypeOK, RequestRecords
<1>5. p.pc = "capped" /\ p.limit = limit
  BY <1>4 DEF RequestRecords
<1>6. req' = [req EXCEPT ![r] = p]
  BY <1>3, <1>4
<1> HIDE DEF p
<1> QED
  BY <1>1, <1>2, <1>3, <1>5, <1>6, RequestSpends

\* A request that is refused, or whose run fails, costs nothing.
LEMMA RefuseOrFailSpends ==
  ASSUME IInv, SpendInv, NEW r \in Requests, Refuse(r) \/ Fail(r)
  PROVE  SpendInv'
<1>1. /\ req' = [req EXCEPT ![r] = Over]
      /\ spent' = spent /\ exempt' = exempt
  BY DEF Refuse, Fail, historyVars
<1>2. Over.pc = "over" /\ Over.limit = None
  BY DEF Over, NoRequest
<1> QED
  BY <1>1, <1>2, RequestSpends

\* A run begins under a cap that is not yet spent, or its user is exempt.
LEMMA StartSpends ==
  ASSUME IInv, SpendInv, NEW r \in Requests, Start(r)
  PROVE  SpendInv'
<1> DEFINE u == req[r].user
           p == [req[r] EXCEPT !.pc = "running", !.session = current'[u],
                               !.resume = ResumeId(current'[u])]
<1>1. TypeOK' /\ TypeOK /\ u \in Users
  BY StartKeeps, StartFacts DEF IInv
<1>10. spent \in [Users -> Nat]
  BY <1>1 DEF TypeOK
<1>2. /\ req[r].pc \in {"received", "capped"} /\ ~OverCap(r)
      /\ req' = [req EXCEPT ![r] = p]
      /\ spent' = spent
      /\ exempt' = IF req[r].limit = None THEN exempt \cup {u} ELSE exempt
  BY DEF Start
<1>3. req[r] \in RequestRecords /\ req \in [Requests -> RequestRecords]
  BY <1>1 DEF TypeOK, RequestRecords
<1>4. p.pc = "running" /\ p.user = u /\ p.limit = req[r].limit
  BY <1>3 DEF RequestRecords
<1> HIDE DEF p
<1>5. \A s \in Requests : req'[s] = IF s = r THEN p ELSE req[s]
  BY <1>2, <1>3
<1>6. InFlight' = InFlight
  BY <1>2, <1>4, <1>5 DEF InFlight
<1>7. Cardinality(InFlight') <= MaxInFlight
  BY <1>6 DEF SpendInv
<1>8. \A s \in Requests : req'[s].limit \in Caps \cup {DefaultCap, None}
  BY <1>4, <1>5 DEF SpendInv
<1>9. \A v \in Users \ exempt' : Within(v)'
  <2> SUFFICES ASSUME NEW v \in Users \ exempt' PROVE Within(v)'
    OBVIOUS
  <2>1. v \notin exempt
    BY <1>2
  <2>2. CASE v # u
    <3>1. (RunsOf(v))' \subseteq RunsOf(v)
      BY <1>4, <1>5, <2>2 DEF RunsOf, Running
    <3>2. Within(v)
      BY <2>1 DEF SpendInv
    <3> QED
      BY <1>2, <3>1, <3>2, WithinKept
  <2>3. CASE v = u
    <3> DEFINE c == req[r].limit
    <3>1. c # None
      BY <1>2, <2>3
    <3>2. c \in Caps \cup {DefaultCap, 1} /\ c \in Nat
      BY <3>1, CapsAssumption DEF SpendInv
    <3>3. ~(spent[v] >= c)
      BY <1>2, <2>3, <3>1 DEF OverCap
    <3> HIDE DEF c
    <3>5. spent' = spent
      BY <1>2
    <3>6. spent[v] \in Nat
      BY <1>10
    <3>4. spent'[v] \in Nat /\ spent'[v] <= c - 1
      BY <3>2, <3>3, <3>5, <3>6
    <3> QED
      BY <1>1, <1>7, <3>2, <3>4, WithinAtStart
  <2> QED
    BY <2>2, <2>3
<1> QED
  BY <1>7, <1>8, <1>9 DEF SpendInv

\* An answer costs no more than was set aside for it.
LEMMA AccountSpends ==
  ASSUME IInv, SpendInv, NEW r \in Running, NEW cost \in 0..MaxCost, Account(r, cost)
  PROVE  SpendInv'
<1> DEFINE u == req[r].user
<1>1. /\ u \in Users /\ spent \in [Users -> Nat] /\ r \in Requests
  BY DEF IInv, TypeOK, ThreadInv, RequestInv, Running
<1>2. /\ spent' = [spent EXCEPT ![u] = @ + cost]
      /\ req' = [req EXCEPT ![r] = Over] /\ exempt' = exempt
  BY DEF Account
<1>3. Over.pc = "over" /\ Over.limit = None
  BY DEF Over, NoRequest
<1>4. \A s \in Requests : req'[s] = IF s = r THEN Over ELSE req[s]
  BY <1>2 DEF IInv, TypeOK
<1>5. InFlight' \in SUBSET InFlight /\ InFlight \in SUBSET Requests
  BY <1>3, <1>4 DEF InFlight
<1>6. Cardinality(InFlight') <= MaxInFlight
  <2>1. /\ Cardinality(InFlight') \in Nat /\ Cardinality(InFlight) \in Nat
        /\ Cardinality(InFlight') <= Cardinality(InFlight)
    BY <1>5, Counted
  <2> QED
    BY <2>1, InFlightAssumption DEF SpendInv
<1>7. \A s \in Requests : req'[s].limit \in Caps \cup {DefaultCap, None}
  BY <1>3, <1>4 DEF SpendInv
<1>8. \A v \in Users : (RunsOf(v))' = RunsOf(v) \ {r}
  BY <1>3, <1>4 DEF RunsOf, Running
<1>9. \A v \in Users \ exempt' : Within(v)'
  <2> SUFFICES ASSUME NEW v \in Users \ exempt' PROVE Within(v)'
    OBVIOUS
  <2>1. Within(v)
    BY <1>2 DEF SpendInv
  <2>2. CASE v # u
    <3>1. spent'[v] = spent[v]
      BY <1>1, <1>2, <2>2
    <3> QED
      BY <1>8, <2>1, <3>1, WithinKept
  <2>3. CASE v = u
    <3> DEFINE was == Cardinality(RunsOf(v))
               is == Cardinality((RunsOf(v))')
    <3>1. was \in Nat /\ is \in Nat /\ is + 1 = was
      <4>1. RunsOf(v) \in SUBSET Requests /\ r \in RunsOf(v)
        BY <2>3 DEF RunsOf, Running
      <4>2. IsFiniteSet(RunsOf(v)) /\ was \in Nat
        BY <4>1, Counted
      <4>3. Cardinality(RunsOf(v) \ {r}) = was - 1
        BY <4>1, <4>2, FS_RemoveElement
      <4>4. RunsOf(v) \ {r} \in SUBSET RunsOf(v)
        OBVIOUS
      <4>5. Cardinality(RunsOf(v) \ {r}) \in Nat
        BY <4>1, <4>4, Counted
      <4> QED
        BY <1>8, <4>2, <4>3, <4>5
    <3> HIDE DEF was, is
    <3>2. PICK c \in Caps \cup {DefaultCap, 1} :
            spent[v] + was * MaxCost <= (c - 1) + MaxInFlight * MaxCost
      BY <2>1 DEF Within, was
    <3>3. MaxCost \in Nat /\ spent[v] \in Nat /\ c \in Nat /\ MaxInFlight * MaxCost \in Nat
      BY SpendTypes DEF IInv
    <3>4. spent'[v] = spent[v] + cost
      BY <1>1, <1>2, <2>3
    <3>5. was * MaxCost = is * MaxCost + MaxCost /\ is * MaxCost \in Nat
      BY <3>1, <3>3
    <3> DEFINE bound == MaxInFlight * MaxCost
               held == is * MaxCost
    <3>6. spent[v] + (held + MaxCost) <= (c - 1) + bound /\ held \in Nat /\ bound \in Nat
      BY <3>2, <3>3, <3>5
    <3> HIDE DEF bound, held
    <3>7. spent'[v] + held <= (c - 1) + bound
      BY <3>3, <3>4, <3>6
    <3> QED
      BY <3>7 DEF Within, is, bound, held
  <2> QED
    BY <2>2, <2>3
<1> QED
  BY <1>6, <1>7, <1>9 DEF SpendInv

\* A new day, and a new process, start with nothing spent.
LEMMA NothingSpentYet ==
  ASSUME IInv, SpendInv, Midnight \/ Restart
  PROVE  SpendInv'
<1>1. TypeOK /\ TypeOK'
  BY MidnightKeeps, RestartKeeps DEF IInv
<1>2. spent' = [u \in Users |-> 0]
  BY DEF Midnight, Restart
<1>3. InFlight' \in SUBSET InFlight /\ InFlight \in SUBSET Requests
      /\ \A r \in Requests : req'[r].limit \in Caps \cup {DefaultCap, None}
  <2>1. Over.pc = "over" /\ Over.limit = None
    BY DEF Over, NoRequest
  <2>2. \A r \in Requests : req'[r] \in {req[r], Over}
    <3>1. CASE Midnight
      BY <3>1 DEF Midnight
    <3>2. CASE Restart
      BY <3>2 DEF Restart
    <3> QED
      BY <3>1, <3>2
  <2> QED
    BY <2>1, <2>2 DEF InFlight, SpendInv
<1>4. Cardinality(InFlight') <= MaxInFlight
  <2>1. /\ Cardinality(InFlight') \in Nat /\ Cardinality(InFlight) \in Nat
        /\ Cardinality(InFlight') <= Cardinality(InFlight)
    BY <1>3, Counted
  <2> QED
    BY <2>1, InFlightAssumption DEF SpendInv
<1>5. \A u \in Users : Within(u)'
  <2> SUFFICES ASSUME NEW u \in Users PROVE Within(u)'
    OBVIOUS
  <2>1. spent'[u] <= 1 - 1
    BY <1>2
  <2> QED
    BY <1>1, <1>4, <2>1, WithinAtStart
<1> QED
  BY <1>3, <1>4, <1>5 DEF SpendInv

\* Every step keeps what is spent, and may be, within the bound.
LEMMA SpendStep ==
  ASSUME IInv, SpendInv, [Next]_vars
  PROVE  SpendInv'
<1>1. CASE UNCHANGED <<req, spent, exempt>>
  <2>1. InFlight' = InFlight /\ Running' = Running
    BY <1>1 DEF InFlight, Running
  <2> QED
    BY <1>1, <2>1, NothingSpent DEF SpendInv
<1>2. ASSUME NEW r \in Requests, Answer(r) PROVE SpendInv'
  BY <1>2, AccountSpends DEF Answer, Running
<1>3. ASSUME NEW r \in Requests, AnswerUnparsed(r) PROVE SpendInv'
  <2>1. 0 \in 0..MaxCost /\ r \in Running
    BY <1>3, CostAssumption DEF AnswerUnparsed, Running
  <2> QED
    BY <1>3, <2>1, AccountSpends DEF AnswerUnparsed
<1>4. ASSUME NEW u \in Users, NewSession(u) \/ CurrentSession(u) \/ SetRole(u) \/ SetLimit(u)
      PROVE  UNCHANGED <<req, spent, exempt>>
  BY <1>4 DEF NewSession, CurrentSession, SetRole, SetLimit, memVars, historyVars
<1>5. ASSUME NEW o \in Sessions, Expire(o) PROVE UNCHANGED <<req, spent, exempt>>
  BY <1>5 DEF Expire, historyVars
<1>6. CASE UNCHANGED vars
  BY <1>1, <1>6 DEF vars
<1>7. CASE Next
  BY <1>1, <1>2, <1>3, <1>4, <1>5, <1>7, ReceiveSpends, ReadLimitSpends, RefuseOrFailSpends,
     StartSpends, NothingSpentYet DEF Next
<1> QED
  BY <1>6, <1>7

\* Nothing is in flight or spent when the program starts.
LEMMA SpendInit == Init => SpendInv
<1> SUFFICES ASSUME Init PROVE SpendInv
  OBVIOUS
<1>1. InFlight = {} /\ Running = {} /\ \A r \in Requests : req[r].limit = None
  BY DEF Init, NoRequest, InFlight, Running
<1>2. Cardinality(InFlight) = 0 /\ \A u : RunsOf(u) = {} /\ Cardinality({}) = 0
  BY <1>1, FS_EmptySet DEF RunsOf
<1>3. \A u \in Users : Within(u)
  <2> SUFFICES ASSUME NEW u \in Users PROVE Within(u)
    OBVIOUS
  <2>1. spent[u] = 0 /\ MaxCost \in Nat /\ MaxInFlight * MaxCost \in Nat
    BY CostAssumption, InFlightAssumption DEF Init
  <2>2. Cardinality(RunsOf(u)) = 0
    BY <1>2
  <2>3. 0 + 0 * MaxCost <= (1 - 1) + MaxInFlight * MaxCost
    BY <2>1
  <2> QED
    BY <2>1, <2>2, <2>3 DEF Within
<1> QED
  BY <1>1, <1>2, <1>3, InFlightAssumption DEF SpendInv

\* A user under a cap all day overshoots the highest of the caps by no more than
\* one answer for each request handled at once, however many those are.
THEOREM BoundedOvershoot == Spec => []OvershootIsBounded
<1>1. IInv /\ SpendInv => OvershootIsBounded
  <2> SUFFICES ASSUME IInv, SpendInv, NEW u \in Users \ exempt
               PROVE  \E c \in Caps \cup {DefaultCap, 1} :
                        spent[u] <= (c - 1) + MaxInFlight * MaxCost
    BY DEF OvershootIsBounded
  <2> DEFINE runs == Cardinality(RunsOf(u))
  <2>1. PICK c \in Caps \cup {DefaultCap, 1} :
          spent[u] + runs * MaxCost <= (c - 1) + MaxInFlight * MaxCost
    BY DEF SpendInv, Within
  <2>2. runs \in Nat
    BY Counted DEF RunsOf, Running
  <2>3. MaxCost \in Nat /\ spent[u] \in Nat /\ c \in Nat /\ MaxInFlight * MaxCost \in Nat
    BY SpendTypes DEF IInv
  <2> HIDE DEF runs
  <2>4. runs * MaxCost \in Nat
    BY <2>2, <2>3
  <2> QED
    BY <2>1, <2>3, <2>4
<1> QED
  BY <1>1, Invariance, SpendInit, SpendStep, PTL DEF Spec

-----------------------------------------------------------------------------
(* The thread of a conversation.                                           *)

\* Two runs of one session have met there.  A session in which none did and that
\* answered remembers a conversation that holds its answers, and its run resumes
\* what it remembers.
KeptInv ==
  /\ \A r, s \in Running : r # s /\ req[r].session = req[s].session => req[r].session \in crossed
  /\ \A o \in Sessions \ crossed : recent[o].answers # {} =>
       /\ session[o].started
       /\ session[o].sid \in DOMAIN conv
       /\ conv[session[o].sid].home = recent[o].home
       /\ recent[o].answers \subseteq conv[session[o].sid].turns
  /\ \A r \in Running : req[r].session \notin crossed =>
       req[r].resume = ResumeId(req[r].session)

\* Conversations stay in their HOME and lose no turn; the answer is in one of
\* the run's HOME, with what that run resumed.
Continued(r, k) ==
  /\ \A i \in DOMAIN conv :
       /\ i \in DOMAIN conv'
       /\ conv'[i].home = conv[i].home
       /\ conv[i].turns \subseteq conv'[i].turns
  /\ k \in DOMAIN conv'
  /\ conv'[k].home = HomeOf(r)
  /\ r \in conv'[k].turns
  /\ Resumed(r) => conv[req[r].resume].turns \subseteq conv'[k].turns

\* The CLI answers where it resumed, in a copy of that, or in a new conversation.
LEMMA ConverseContinues ==
  ASSUME IInv, NEW r \in Requests,
         NEW k \in DOMAIN conv \cup {Len(conv) + 1}, Converse(r, k)
  PROVE  Continued(r, k)
<1>1. conv \in Seq(Conversations)
  BY DEF IInv, TypeOK, Conversations
<1>2. CASE /\ Resumed(r) /\ k = req[r].resume
           /\ conv' = [conv EXCEPT ![k].turns = @ \cup {r}]
  <2>1. k \in DOMAIN conv /\ conv[k].home = HomeOf(r)
    BY <1>2 DEF Resumed
  <2> DEFINE c == [conv[k] EXCEPT !.turns = @ \cup {r}]
  <2>2. conv[k] \in Conversations
    BY <1>1, <2>1
  <2>3. c.home = conv[k].home /\ c.turns = conv[k].turns \cup {r}
    BY <2>2 DEF Conversations
  <2>4. conv' = [conv EXCEPT ![k] = c]
    BY <1>2, <2>1
  <2> HIDE DEF c
  <2>5. /\ DOMAIN conv' = DOMAIN conv
        /\ \A i \in DOMAIN conv : conv'[i] = IF i = k THEN c ELSE conv[i]
    BY <2>1, <2>4
  <2> QED
    BY <1>2, <2>1, <2>3, <2>5 DEF Continued
<1>3. CASE \E c : /\ k = Len(conv) + 1
                  /\ c = [home |-> HomeOf(r), session |-> req[r].session, user |-> req[r].user,
                          turns |-> {r} \cup IF Resumed(r) THEN conv[req[r].resume].turns ELSE {}]
                  /\ conv' = Append(conv, c)
  <2>1. PICK c : /\ k = Len(conv) + 1
                 /\ c = [home |-> HomeOf(r), session |-> req[r].session, user |-> req[r].user,
                         turns |-> {r} \cup IF Resumed(r) THEN conv[req[r].resume].turns ELSE {}]
                 /\ conv' = Append(conv, c)
    BY <1>3
  <2>2. /\ DOMAIN conv = 1..Len(conv) /\ Len(conv) \in Nat
        /\ DOMAIN conv' = 1..(Len(conv) + 1)
        /\ \A i \in DOMAIN conv : conv'[i] = conv[i]
        /\ conv'[Len(conv) + 1] = c
    <3>1. DOMAIN conv = 1..Len(conv) /\ Len(conv) \in Nat
      BY <1>1
    <3> DEFINE S == Conversations \cup {c}
    <3>2. c \in S /\ \A i \in 1..Len(conv) : conv[i] \in S
      BY <1>1, <3>1
    <3>3. conv \in Seq(S)
      BY <1>1, <3>1, <3>2
    <3> HIDE DEF S
    <3>4. Append(conv, c) = conv' /\ c \in S
      BY <2>1, <3>2
    <3> QED
      BY <3>1, <3>3, <3>4
  <2>3. k \in DOMAIN conv' /\ conv'[k] = c /\ DOMAIN conv \subseteq DOMAIN conv'
    BY <2>1, <2>2
  <2>4. /\ c.home = HomeOf(r) /\ r \in c.turns
        /\ Resumed(r) => conv[req[r].resume].turns \subseteq c.turns
    BY <2>1
  <2> QED
    BY <2>2, <2>3, <2>4 DEF Continued
<1> QED
  BY <1>2, <1>3 DEF Converse

\* A run that resumes what its session remembers sees the answers it remembers.
LEMMA Remembered ==
  ASSUME KeptInv, NEW r \in Running, req[r].session \in Sessions \ crossed,
         recent[req[r].session].answers # {}
  PROVE  /\ req[r].resume = session[req[r].session].sid
         /\ req[r].resume \in DOMAIN conv
         /\ conv[req[r].resume].home = recent[req[r].session].home
         /\ recent[req[r].session].answers \subseteq conv[req[r].resume].turns
BY DEF KeptInv, ResumeId

\* The session of a run is one that was made.
LEMMA RunHasSession ==
  ASSUME IInv, NEW r \in Running
  PROVE  req[r].session \in Sessions
<1>1. req[r].session \in 1..minted /\ minted \in 0..MaxSessions
  BY DEF IInv, ThreadInv, RequestInv, Running, TypeOK
<1> QED
  BY <1>1, BoundsAssumption

\* A step that starts no run, and in which sessions only grow old, keeps threads.
LEMMA NothingSaid ==
  ASSUME IInv, KeptInv,
         Running' \subseteq Running, \A r \in Running' : req'[r] = req[r],
         \A o \in Sessions : session'[o].sid = session[o].sid /\ session'[o].started = session[o].started,
         UNCHANGED <<conv, recent, crossed>>
  PROVE  KeptInv'
<1>1. \A o \in Sessions \ crossed' : recent'[o].answers # {} =>
        /\ session'[o].started
        /\ session'[o].sid \in DOMAIN conv'
        /\ conv'[session'[o].sid].home = recent'[o].home
        /\ recent'[o].answers \subseteq conv'[session'[o].sid].turns
  BY DEF KeptInv
<1>2. \A r \in Running' : req'[r].session \notin crossed' =>
        req'[r].resume = (ResumeId(req[r].session))'
  <2> SUFFICES ASSUME NEW r \in Running', req'[r].session \notin crossed'
               PROVE  req'[r].resume = (ResumeId(req[r].session))'
    OBVIOUS
  <2>1. r \in Running /\ req'[r] = req[r] /\ req[r].session \in Sessions
    BY RunHasSession
  <2>2. req[r].resume = ResumeId(req[r].session)
    BY <2>1 DEF KeptInv
  <2> QED
    BY <2>1, <2>2 DEF ResumeId
<1>3. \A r, s \in Running' :
        r # s /\ req'[r].session = req'[s].session => req'[r].session \in crossed'
  BY DEF KeptInv
<1> QED
  BY <1>1, <1>2, <1>3 DEF KeptInv

\* A request that does not run, or runs no more.
LEMMA NotRunning ==
  ASSUME IInv, KeptInv, NEW r \in Requests, NEW p,
         req' = [req EXCEPT ![r] = p], p.pc # "running",
         UNCHANGED <<session, conv, recent, crossed>>
  PROVE  KeptInv'
<1>1. \A s \in Requests : req'[s] = IF s = r THEN p ELSE req[s]
  BY DEF IInv, TypeOK
<1>2. Running' \subseteq Running /\ \A s \in Running' : req'[s] = req[s]
  BY <1>1 DEF Running
<1> QED
  BY <1>2, NothingSaid

\* A request is received, learns its cap, or ends.
LEMMA RequestKeepsThreads ==
  ASSUME IInv, KeptInv, NEW r \in Requests,
         \/ \E u \in Users : Receive(r, u)
         \/ ReadLimit(r) \/ Refuse(r) \/ Fail(r)
  PROVE  KeptInv'
<1>1. UNCHANGED <<session, conv, recent, crossed>>
  BY DEF Receive, ReadLimit, Refuse, Fail, historyVars
<1>2. ASSUME NEW u \in Users, Receive(r, u) PROVE KeptInv'
  <2> DEFINE p == [NoRequest EXCEPT !.pc = "received", !.user = u, !.admin = (role[u] = "admin")]
  <2>1. req' = [req EXCEPT ![r] = p]
    BY <1>2 DEF Receive
  <2>2. p.pc # "running"
    BY DEF NoRequest
  <2> HIDE DEF p
  <2> QED
    BY <1>1, <2>1, <2>2, NotRunning
<1>3. CASE ReadLimit(r)
  <2> DEFINE limit == ResolveLimit(req[r].user)
             p == [req[r] EXCEPT !.pc = "capped", !.limit = limit]
  <2>1. req' = [req EXCEPT ![r].pc = "capped", ![r].limit = limit]
    BY <1>3 DEF ReadLimit
  <2> HIDE DEF limit
  <2>2. req[r] \in RequestRecords /\ req \in [Requests -> RequestRecords]
    BY DEF IInv, TypeOK, RequestRecords
  <2>3. req' = [req EXCEPT ![r] = p] /\ p.pc # "running"
    BY <2>1, <2>2 DEF RequestRecords
  <2> HIDE DEF p
  <2> QED
    BY <1>1, <2>3, NotRunning
<1>4. CASE Refuse(r) \/ Fail(r)
  <2>1. req' = [req EXCEPT ![r] = Over]
    BY <1>4 DEF Refuse, Fail
  <2> QED
    BY <1>1, <2>1, OverType, NotRunning
<1> QED
  BY <1>2, <1>3, <1>4

\* A run begins with the id its session remembers, and if the session has another
\* run under way, they meet.
LEMMA StartKeepsThreads ==
  ASSUME IInv, KeptInv, NEW r \in Requests, Start(r)
  PROVE  KeptInv'
<1> DEFINE o == current'[req[r].user]
           resume == ResumeId(o)
           p == [req[r] EXCEPT !.pc = "running", !.session = o, !.resume = resume]
<1>1. /\ req[r].pc \in {"received", "capped"}
      /\ req' = [req EXCEPT ![r] = p]
      /\ UNCHANGED <<session, conv, recent>>
      /\ crossed' = crossed \cup ({o} \cap {req[s].session : s \in Running})
  BY DEF Start
<1>2. req[r] \in RequestRecords /\ req \in [Requests -> RequestRecords]
  BY DEF IInv, TypeOK, RequestRecords
<1>3. p.pc = "running" /\ p.session = o /\ p.resume = ResumeId(o)
  BY <1>2 DEF RequestRecords
<1> HIDE DEF p
<1>4. \A s \in Requests : req'[s] = IF s = r THEN p ELSE req[s]
  BY <1>1, <1>2
<1> HIDE DEF o, resume
<1>5. /\ Running' = Running \cup {r} /\ r \notin Running
      /\ \A s \in Running : req'[s] = req[s]
      /\ req'[r].session = o /\ req'[r].resume = ResumeId(o)
  BY <1>1, <1>3, <1>4 DEF Running
<1>6. \A s \in Running' : req'[s].session \notin crossed' =>
        req'[s].resume = ResumeId(req'[s].session)
  BY <1>1, <1>5 DEF KeptInv
<1>7. \A s \in Running' : req'[s].session \notin crossed' =>
        req'[s].resume = (ResumeId(req[s].session))'
  BY <1>1, <1>6 DEF ResumeId
<1>8. \A q, s \in Running' :
        q # s /\ req'[q].session = req'[s].session => req'[q].session \in crossed'
  BY <1>1, <1>5 DEF KeptInv
<1>9. \A q \in Sessions \ crossed' : recent'[q].answers # {} =>
        /\ session'[q].started
        /\ session'[q].sid \in DOMAIN conv'
        /\ conv'[session'[q].sid].home = recent'[q].home
        /\ recent'[q].answers \subseteq conv'[session'[q].sid].turns
  BY <1>1 DEF KeptInv
<1> QED
  BY <1>7, <1>8, <1>9 DEF KeptInv

\* What is left to check of the end of a run: the other runs of a session that has
\* none crossed are none, and the other sessions are untouched.
LEMMA EndKeepsThreads ==
  ASSUME IInv, KeptInv, NEW r \in Running, NEW k, Continued(r, k),
         req' = [req EXCEPT ![r] = Over], UNCHANGED crossed,
         \A q \in Sessions : q # req[r].session =>
           session'[q] = session[q] /\ recent'[q] = recent[q],
         req[r].session \notin crossed /\ recent'[req[r].session].answers # {} =>
           /\ session'[req[r].session].started
           /\ session'[req[r].session].sid \in DOMAIN conv'
           /\ conv'[session'[req[r].session].sid].home = recent'[req[r].session].home
           /\ recent'[req[r].session].answers \subseteq conv'[session'[req[r].session].sid].turns
  PROVE  KeptInv'
<1>1. \A s \in Requests : req'[s] = IF s = r THEN Over ELSE req[s]
  BY DEF IInv, TypeOK, Running
<1>2. Running' \subseteq Running \ {r} /\ \A s \in Running' : req'[s] = req[s]
  BY <1>1, OverType DEF Running
<1>3. \A q, s \in Running' :
        q # s /\ req'[q].session = req'[s].session => req'[q].session \in crossed'
  BY <1>2 DEF KeptInv
<1>4. ASSUME NEW s \in Running', req'[s].session \notin crossed'
      PROVE  req'[s].resume = (ResumeId(req[s].session))'
  <2>1. s \in Running /\ s # r /\ req'[s] = req[s] /\ req[s].session \in Sessions
    BY <1>2, RunHasSession
  <2>2. req[s].session # req[r].session
    BY <1>4, <2>1 DEF KeptInv
  <2>3. session'[req[s].session] = session[req[s].session]
    BY <2>1, <2>2
  <2>4. req[s].resume = ResumeId(req[s].session)
    BY <1>4, <2>1 DEF KeptInv
  <2> QED
    BY <2>1, <2>3, <2>4 DEF ResumeId
<1>5. ASSUME NEW q \in Sessions \ crossed', recent'[q].answers # {}
      PROVE  /\ session'[q].started
             /\ session'[q].sid \in DOMAIN conv'
             /\ conv'[session'[q].sid].home = recent'[q].home
             /\ recent'[q].answers \subseteq conv'[session'[q].sid].turns
  <2>1. CASE q = req[r].session
    BY <1>5, <2>1
  <2>2. CASE q # req[r].session
    <3>1. session'[q] = session[q] /\ recent'[q] = recent[q]
      BY <2>2
    <3>2. /\ session[q].started
          /\ session[q].sid \in DOMAIN conv
          /\ conv[session[q].sid].home = recent[q].home
          /\ recent[q].answers \subseteq conv[session[q].sid].turns
      BY <1>5, <3>1 DEF KeptInv
    <3> QED
      BY <3>1, <3>2 DEF Continued
  <2> QED
    BY <2>1, <2>2
<1> QED
  BY <1>3, <1>4, <1>5 DEF KeptInv

\* The answer joins the ones its session remembers.
LEMMA AnswerKeepsThreads ==
  ASSUME IInv, KeptInv, NEW r \in Requests, Answer(r)
  PROVE  KeptInv'
<1> DEFINE o == req[r].session
<1>1. r \in Running /\ o \in Sessions
  <2>1. r \in Running
    BY DEF Answer, Running
  <2> QED
    BY <2>1, RunHasSession
<1>2. req' = [req EXCEPT ![r] = Over] /\ UNCHANGED crossed
  BY DEF Answer, Account
<1>3. PICK k \in DOMAIN conv \cup {Len(conv) + 1} : Converse(r, k) /\ Adopt(r, k)
  BY DEF Answer
<1>4. Continued(r, k)
  BY <1>3, ConverseContinues
<1>5. \A q \in Sessions :
        session'[q] = IF q = o THEN [sid |-> k, started |-> TRUE, expired |-> FALSE]
                      ELSE session[q]
  BY <1>1, <1>3 DEF Adopt, IInv, TypeOK
<1> DEFINE kept == IF recent[o].home = HomeOf(r) THEN recent[o].answers ELSE {}
<1>6. \A q \in Sessions :
        recent'[q] = IF q = o THEN [home |-> HomeOf(r), answers |-> {r} \cup kept]
                     ELSE recent[q]
  BY <1>1 DEF Answer, IInv, TypeOK
<1>7. o \notin crossed => kept \subseteq conv'[k].turns
  <2>1. CASE o \notin crossed /\ recent[o].answers # {} /\ recent[o].home = HomeOf(r)
    <3>1. /\ req[r].resume \in DOMAIN conv
          /\ conv[req[r].resume].home = HomeOf(r)
          /\ recent[o].answers \subseteq conv[req[r].resume].turns
      BY <1>1, <2>1, Remembered
    <3>2. Resumed(r)
      BY <3>1 DEF Resumed
    <3> QED
      BY <1>4, <3>1, <3>2 DEF Continued
  <2>2. CASE o \in crossed \/ ~(recent[o].answers # {} /\ recent[o].home = HomeOf(r))
    BY <2>2
  <2> QED
    BY <2>1, <2>2
<1> HIDE DEF kept
<1>8. /\ session'[o] = [sid |-> k, started |-> TRUE, expired |-> FALSE]
      /\ recent'[o] = [home |-> HomeOf(r), answers |-> {r} \cup kept]
  BY <1>1, <1>5, <1>6
<1>9. o \notin crossed =>
        /\ session'[o].started
        /\ session'[o].sid \in DOMAIN conv'
        /\ conv'[session'[o].sid].home = recent'[o].home
        /\ recent'[o].answers \subseteq conv'[session'[o].sid].turns
  BY <1>4, <1>7, <1>8 DEF Continued
<1>10. \A q \in Sessions : q # o => session'[q] = session[q] /\ recent'[q] = recent[q]
  BY <1>5, <1>6
<1> QED
  BY <1>1, <1>2, <1>4, <1>9, <1>10, EndKeepsThreads

\* An answer whose id is lost leaves its session with the id that was resumed.
LEMMA UnparsedKeepsThreads ==
  ASSUME IInv, KeptInv, NEW r \in Requests, AnswerUnparsed(r)
  PROVE  KeptInv'
<1> DEFINE o == req[r].session
<1>1. r \in Running /\ o \in Sessions
  <2>1. r \in Running
    BY DEF AnswerUnparsed, Running
  <2> QED
    BY <2>1, RunHasSession
<1>2. req' = [req EXCEPT ![r] = Over] /\ recent' = recent /\ UNCHANGED crossed
  BY DEF AnswerUnparsed, Account
<1>3. PICK k \in DOMAIN conv \cup {Len(conv) + 1} : Converse(r, k)
  BY DEF AnswerUnparsed
<1>4. Continued(r, k)
  BY <1>3, ConverseContinues
<1>5. session \in [Sessions -> SessionRecords]
  BY DEF IInv, TypeOK, SessionRecords
<1>6. /\ \A q \in Sessions : q # o => session'[q] = session[q]
      /\ o \notin crossed /\ recent[o].answers # {} =>
           session'[o].sid = session[o].sid /\ session'[o].started
  <2>1. CASE Resumed(r)
    <3>1. session' = [session EXCEPT ![o] = [sid |-> req[r].resume, started |-> TRUE, expired |-> FALSE]]
      BY <2>1 DEF AnswerUnparsed, Adopt
    <3>2. o \notin crossed /\ recent[o].answers # {} => req[r].resume = session[o].sid
      BY <1>1, Remembered
    <3> QED
      BY <1>1, <1>5, <3>1, <3>2
  <2>2. CASE ~Resumed(r)
    <3>1. session' = [session EXCEPT ![o].expired = FALSE]
      BY <2>2 DEF AnswerUnparsed
    <3> DEFINE fresh == [session[o] EXCEPT !.expired = FALSE]
    <3>2. session[o] \in SessionRecords
      BY <1>1, <1>5
    <3>3. fresh.sid = session[o].sid /\ fresh.started = session[o].started
      BY <3>2 DEF SessionRecords
    <3>4. session' = [session EXCEPT ![o] = fresh]
      BY <3>1
    <3> HIDE DEF fresh
    <3>5. o \notin crossed /\ recent[o].answers # {} => session[o].started
      BY <1>1 DEF KeptInv
    <3> QED
      BY <1>1, <1>5, <3>3, <3>4, <3>5
  <2> QED
    BY <2>1, <2>2
<1>7. ASSUME o \notin crossed, recent'[o].answers # {}
      PROVE  /\ session'[o].started
             /\ session'[o].sid \in DOMAIN conv'
             /\ conv'[session'[o].sid].home = recent'[o].home
             /\ recent'[o].answers \subseteq conv'[session'[o].sid].turns
  <2>1. session'[o].sid = session[o].sid /\ session'[o].started /\ recent'[o] = recent[o]
    BY <1>2, <1>6, <1>7
  <2>2. /\ session[o].sid \in DOMAIN conv
        /\ conv[session[o].sid].home = recent[o].home
        /\ recent[o].answers \subseteq conv[session[o].sid].turns
    BY <1>1, <1>2, <1>7 DEF KeptInv
  <2> QED
    BY <1>4, <2>1, <2>2 DEF Continued
<1> QED
  BY <1>1, <1>2, <1>4, <1>6, <1>7, EndKeepsThreads

\* Every step keeps the thread.
LEMMA KeptStep == IInv /\ KeptInv /\ [Next]_vars => KeptInv'
<1> SUFFICES ASSUME IInv, KeptInv, [Next]_vars PROVE KeptInv'
  OBVIOUS
<1>1. CASE UNCHANGED <<req, session, conv, recent, crossed>>
  <2>1. Running' = Running
    BY <1>1 DEF Running
  <2> QED
    BY <1>1, <2>1, NothingSaid
<1>2. ASSUME NEW u \in Users, NewSession(u) \/ CurrentSession(u) \/ SetRole(u) \/ SetLimit(u)
      PROVE  UNCHANGED <<req, session, conv, recent, crossed>>
  BY <1>2 DEF NewSession, CurrentSession, SetRole, SetLimit, memVars, historyVars
<1>3. CASE Midnight
  BY <1>1, <1>3 DEF Midnight
<1>4. ASSUME NEW o \in Sessions, Expire(o) PROVE KeptInv'
  <2>1. session' = [session EXCEPT ![o].expired = TRUE] /\ UNCHANGED <<req, conv, recent, crossed>>
    BY <1>4 DEF Expire, historyVars
  <2> DEFINE old == [session[o] EXCEPT !.expired = TRUE]
  <2>2. session \in [Sessions -> SessionRecords] /\ session[o] \in SessionRecords
    BY DEF IInv, TypeOK, SessionRecords
  <2>3. old.sid = session[o].sid /\ old.started = session[o].started
    BY <2>2 DEF SessionRecords
  <2>4. session' = [session EXCEPT ![o] = old]
    BY <2>1
  <2> HIDE DEF old
  <2>5. \A q \in Sessions : session'[q].sid = session[q].sid /\ session'[q].started = session[q].started
    BY <2>2, <2>3, <2>4
  <2>6. Running' = Running
    BY <2>1 DEF Running
  <2> QED
    BY <2>1, <2>5, <2>6, NothingSaid
<1>5. CASE Restart
  <2>1. \A r \in Requests : req'[r] = IF r \in InFlight THEN Over ELSE req[r]
    BY <1>5 DEF Restart
  <2>2. Running' = {}
    BY <2>1, OverType DEF InFlight, Running
  <2>3. UNCHANGED <<session, conv, recent, crossed>>
    BY <1>5 DEF Restart
  <2> QED
    BY <2>2, <2>3, NothingSaid
<1>6. CASE UNCHANGED vars
  BY <1>1, <1>6 DEF vars
<1>7. CASE Next
  BY <1>1, <1>2, <1>3, <1>4, <1>5, <1>7, RequestKeepsThreads, StartKeepsThreads,
     AnswerKeepsThreads, UnparsedKeepsThreads DEF Next
<1> QED
  BY <1>6, <1>7

\* Nothing runs when the program starts, and no session has answered.
LEMMA KeptAtFirst == Init => KeptInv
<1> SUFFICES ASSUME Init PROVE KeptInv
  OBVIOUS
<1>1. Running = {}
  BY DEF Init, NoRequest, Running
<1>2. \A o \in Sessions : recent[o].answers = {}
  BY DEF Init
<1> QED
  BY <1>1, <1>2 DEF KeptInv

\* However many updates are handled at once, the next run of a session in which no
\* two runs met, under the same role, sees every answer given since the role
\* changed.
THEOREM KeepsContext == Spec => []ContextKept
<1>1. IInv /\ KeptInv => ContextKept
  <2> SUFFICES ASSUME IInv, KeptInv, NEW r \in Running,
                      req[r].session \notin crossed,
                      recent[req[r].session].home = HomeOf(r),
                      recent[req[r].session].answers # {}
               PROVE  /\ Resumed(r)
                      /\ recent[req[r].session].answers \subseteq conv[req[r].resume].turns
    BY DEF ContextKept
  <2>1. req[r].session \in Sessions
    BY RunHasSession
  <2> QED
    BY <2>1, Remembered DEF Resumed
<1>2. Init => KeptInv
  BY KeptAtFirst
<1>3. IInv /\ KeptInv /\ [Next]_vars => KeptInv'
  BY KeptStep
<1> QED
  BY <1>1, <1>2, <1>3, Invariance, PTL DEF Spec
=============================================================================
