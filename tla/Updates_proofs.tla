--------------------------- MODULE Updates_proofs ---------------------------
(***************************************************************************)
(* For any users, roles, kinds of updates and faults.  What the token      *)
(* buckets promise, for every rate, every clock and every sequence of      *)
(* checks: RateSpec is any interleaving of checks with a clock that passes *)
(* and is set back.  The handlers leave those promises standing, only who  *)
(* may use a command gets it to change anything or to start a program, and *)
(* what a user was told is true.                                           *)
(***************************************************************************)
EXTENDS Updates, TLAPS

-----------------------------------------------------------------------------
(* The rate limiter. *)

\* A bucket that lost tokens to a clock set back still holds what its history
\* allows.
BucketInv ==
  \A k \in Keys : bucket[k] # None =>
    /\ bucket[k].tokens <= Capacity[k[1]]
    /\ Token * bucket[k].granted + bucket[k].tokens
         <= Capacity[k[1]] + (bucket[k].last - bucket[k].born) * Rate[k[1]]

\* The wait that was told covers, with half a second more, what the bucket lacked
\* when it was told.
WaitInv ==
  \A k \in Keys : wait[k] # None =>
    /\ bucket[k] # None
    /\ 2 * (Token - bucket[k].tokens)
         <= (2 * (wait[k] - bucket[k].last) + TicksPerSecond) * Rate[k[1]]

RateInv == RateTypeOK /\ BucketInv /\ WaitInv

-----------------------------------------------------------------------------
(* Arithmetic. *)

\* A longer time refills at least as much.
LEMMA LongerRefillsMore ==
  ASSUME NEW a \in Int, NEW b \in Int, a <= b, NEW r \in Nat
  PROVE  a * r <= b * r
OBVIOUS

\* What is refilled in two stretches of time is what is refilled in one.
LEMMA StretchesAddUp ==
  ASSUME NEW a \in Int, NEW b \in Int, NEW r \in Nat
  PROVE  a * r + b * r = (a + b) * r
OBVIOUS

\* What is rounded to the nearest whole number is short by no more than a half.
LEMMA RoundedToNearest ==
  ASSUME NEW m \in Int, NEW d \in Nat \ {0}
  PROVE  /\ Nearest(m, d) \in Int
         /\ 2 * m <= 2 * (Nearest(m, d) * d) + d
<1> DEFINE q == m \div d
           r == m % d
<1>1. q \in Int /\ r \in Nat /\ r < d /\ m = q * d + r
  OBVIOUS
<1>2. (q + 1) * d = q * d + d /\ q * d \in Int /\ (q + 1) * d \in Int
  BY <1>1
<1>3. \/ Nearest(m, d) = q /\ 2 * r <= d
      \/ Nearest(m, d) = q + 1
  BY <1>1 DEF Nearest
<1> HIDE DEF q, r
<1> DEFINE p == q * d
<1>4. p \in Int /\ m = p + r /\ (q + 1) * d = p + d
  BY <1>1, <1>2
<1>5. CASE Nearest(m, d) = q /\ 2 * r <= d
  <2>1. Nearest(m, d) * d = p
    BY <1>5
  <2> HIDE DEF p
  <2> QED
    BY <1>1, <1>4, <1>5, <2>1
<1>6. CASE Nearest(m, d) = q + 1
  <2>1. Nearest(m, d) * d = p + d
    BY <1>4, <1>6
  <2> HIDE DEF p
  <2> QED
    BY <1>1, <1>4, <1>6, <2>1
<1> QED
  BY <1>3, <1>5, <1>6

\* A token is so many credits, and none of nothing.
LEMMA TokenFacts ==
  /\ Token \in Nat \ {0} /\ Token * 0 = 0
  /\ \A n \in Nat \ {0} : Token * n \in Nat /\ Token <= Token * n
  /\ \A n \in Int : Token * n \in Int /\ Token * (n + 1) = Token * n + Token
<1>1. Token \in Nat \ {0}
  BY TicksAssumption DEF Token
<1> QED
  BY <1>1

\* Every category refills, and a full bucket holds a token.
LEMMA RateFacts ==
  ASSUME NEW k \in Keys
  PROVE  /\ Rate[k[1]] \in Nat \ {0}
         /\ Capacity[k[1]] \in Nat
         /\ Token <= Capacity[k[1]]
<1>1. k[1] \in {"claude", "commands", "invites"}
  BY DEF Keys, Categories
<1>2. /\ Least(ClaudePerMin, 20) \in Nat \ {0}
      /\ Least(CommandsPerMin, 10) \in Nat \ {0}
      /\ InvitesPerHour \in Nat \ {0}
  BY RatesAssumption DEF Least
<1>3. \E n \in Nat \ {0} : Capacity[k[1]] = Token * n
  BY <1>1, <1>2 DEF Capacity
<1>4. Rate[k[1]] \in Nat \ {0}
  BY <1>1, RatesAssumption DEF Rate
<1> QED
  BY <1>3, <1>4, TokenFacts

-----------------------------------------------------------------------------
(* The inductive invariant. *)

LEMMA InitInv == RateInit => RateInv
BY NoneIsNoTime DEF RateInit, RateInv, RateTypeOK, BucketInv, WaitInv

\* The bucket a check finds is full and new, or the one that is there.
LEMMA FoundBucket ==
  ASSUME RateInv, NEW k \in Keys
  PROVE  /\ BucketOf(k) \in Buckets
         /\ BucketOf(k).tokens <= Capacity[k[1]]
         /\ Token * BucketOf(k).granted + BucketOf(k).tokens
              <= Capacity[k[1]] + (BucketOf(k).last - BucketOf(k).born) * Rate[k[1]]
<1>1. CASE bucket[k] = None
  <2>1. BucketOf(k) = [tokens |-> Capacity[k[1]], last |-> now, born |-> now, granted |-> 0]
    BY <1>1 DEF BucketOf
  <2>2. now \in Int /\ Capacity[k[1]] \in Nat /\ Rate[k[1]] \in Nat
    BY RateFacts DEF RateInv, RateTypeOK
  <2>3. (now - now) * Rate[k[1]] = 0 /\ Token * 0 = 0
    <3>1. now - now = 0
      BY <2>2
    <3> DEFINE r == Rate[k[1]]
    <3>2. r \in Int
      BY <2>2
    <3> HIDE DEF r
    <3>3. 0 * r = 0
      BY <3>2
    <3> QED
      BY <3>1, <3>3, TokenFacts DEF r
  <2> QED
    BY <2>1, <2>2, <2>3 DEF Buckets
<1>2. CASE bucket[k] # None
  <2>1. BucketOf(k) = bucket[k]
    BY <1>2 DEF BucketOf
  <2>2. bucket[k] \in Buckets
    BY <1>2 DEF RateInv, RateTypeOK
  <2> QED
    BY <1>2, <2>1, <2>2 DEF RateInv, BucketInv
<1> QED
  BY <1>1, <1>2

\* Adding what a stretch of time refills, up to the cap, stays within what the
\* whole time allows.
LEMMA RefillWithinBounds ==
  ASSUME NEW cap \in Nat, NEW t \in Int, NEW last \in Int, NEW born \in Int, NEW n \in Int,
         NEW g \in Int, NEW r \in Nat,
         g + t <= cap + (last - born) * r
  PROVE  /\ Least(cap, t + (n - last) * r) \in Int
         /\ Least(cap, t + (n - last) * r) <= cap
         /\ g + Least(cap, t + (n - last) * r) <= cap + (n - born) * r
<1>1. (last - born) * r + (n - last) * r = (n - born) * r
  <2>1. (last - born) + (n - last) = n - born
    OBVIOUS
  <2> QED
    BY <2>1, StretchesAddUp
<1>2. /\ (last - born) * r \in Int
      /\ (n - last) * r \in Int
      /\ (n - born) * r \in Int
  OBVIOUS
<1> QED
  BY <1>1, <1>2 DEF Least

\* Refilling moves the bucket to the present and gives it no more than the time
\* since its last look.
LEMMA RefilledBucket ==
  ASSUME RateInv, NEW k \in Keys
  PROVE  /\ Refilled(k) \in Buckets
         /\ Refilled(k).last = now
         /\ Refilled(k).tokens = Least(Capacity[k[1]], Credits(k))
         /\ Refilled(k).tokens <= Capacity[k[1]]
         /\ Token * Refilled(k).granted + Refilled(k).tokens
              <= Capacity[k[1]] + (now - Refilled(k).born) * Rate[k[1]]
<1> DEFINE b == BucketOf(k)
           g == Token * b.granted
<1>1. /\ b \in Buckets
      /\ g + b.tokens <= Capacity[k[1]] + (b.last - b.born) * Rate[k[1]]
  BY FoundBucket
<1>2. /\ now \in Int /\ Capacity[k[1]] \in Nat /\ Rate[k[1]] \in Nat
      /\ b.tokens \in Int /\ b.last \in Int /\ b.born \in Int /\ b.granted \in Nat
  BY <1>1, RateFacts DEF RateInv, RateTypeOK, Buckets
<1>3. g \in Int
  BY <1>2, TokenFacts
<1>4. Credits(k) = b.tokens + (now - b.last) * Rate[k[1]]
  BY DEF Credits
<1>5. /\ Least(Capacity[k[1]], Credits(k)) \in Int
      /\ Least(Capacity[k[1]], Credits(k)) <= Capacity[k[1]]
      /\ g + Least(Capacity[k[1]], Credits(k)) <= Capacity[k[1]] + (now - b.born) * Rate[k[1]]
  <2> HIDE DEF b, g
  <2> QED
    BY <1>1, <1>2, <1>3, <1>4, RefillWithinBounds
<1>6. Refilled(k) = [tokens |-> Least(Capacity[k[1]], Credits(k)), last |-> now,
                     born |-> b.born, granted |-> b.granted]
  <2>1. Refilled(k) = [b EXCEPT !.tokens = Least(Capacity[k[1]], Credits(k)), !.last = now]
    BY DEF Refilled
  <2> HIDE DEF b
  <2> QED
    BY <1>1, <2>1 DEF Buckets
<1> HIDE DEF b
<1> QED
  BY <1>2, <1>5, <1>6 DEF Buckets

-----------------------------------------------------------------------------
(* The steps. *)

\* A check's bucket afterwards is a bucket within its bounds: a grant moves a
\* token from what is left to what was granted.
LEMMA CheckKeepsBuckets ==
  ASSUME RateInv, NEW k \in Keys, Check(k)
  PROVE  /\ bucket' \in [Keys -> Buckets \cup {None}]
         /\ BucketInv'
<1> DEFINE f == Refilled(k)
           n == IF Allowed(k) THEN [f EXCEPT !.tokens = @ - Token, !.granted = @ + 1] ELSE f
<1>1. /\ f \in Buckets
      /\ f.last = now
      /\ f.tokens <= Capacity[k[1]]
      /\ Token * f.granted + f.tokens <= Capacity[k[1]] + (f.last - f.born) * Rate[k[1]]
  BY RefilledBucket
<1>2. bucket' = [bucket EXCEPT ![k] = n]
  BY DEF Check
<1>3. /\ n \in Buckets
      /\ n.tokens <= Capacity[k[1]]
      /\ Token * n.granted + n.tokens <= Capacity[k[1]] + (n.last - n.born) * Rate[k[1]]
  <2>1. CASE Allowed(k)
    <3>1. n = [tokens |-> f.tokens - Token, last |-> f.last, born |-> f.born,
               granted |-> f.granted + 1]
      BY <1>1, <2>1 DEF Buckets
    <3>2. f.tokens \in Int /\ f.last \in Int /\ f.born \in Int /\ f.granted \in Nat
      BY <1>1 DEF Buckets
    <3>3. Token * (f.granted + 1) + (f.tokens - Token) = Token * f.granted + f.tokens
      BY <3>2, TokenFacts
    <3>4. f.tokens - Token <= Capacity[k[1]]
      <4>1. Token \in Nat /\ Capacity[k[1]] \in Nat
        BY TokenFacts, RateFacts
      <4> HIDE DEF f
      <4> QED
        BY <1>1, <3>2, <4>1
    <3> HIDE DEF f, n
    <3>5. n \in Buckets
      BY <3>1, <3>2, TokenFacts DEF Buckets
    <3>6. /\ n.tokens = f.tokens - Token /\ n.last = f.last /\ n.born = f.born
          /\ n.granted = f.granted + 1
      BY <3>1
    <3> QED
      BY <1>1, <3>3, <3>4, <3>5, <3>6
  <2>2. CASE ~Allowed(k)
    BY <1>1, <2>2
  <2> QED
    BY <2>1, <2>2
<1>4. bucket \in [Keys -> Buckets \cup {None}]
  BY DEF RateInv, RateTypeOK
<1> HIDE DEF f, n
<1>5. bucket' \in [Keys -> Buckets \cup {None}]
  BY <1>2, <1>3, <1>4
<1>6. ASSUME NEW j \in Keys, bucket'[j] # None
      PROVE  /\ bucket'[j].tokens <= Capacity[j[1]]
             /\ Token * bucket'[j].granted + bucket'[j].tokens
                  <= Capacity[j[1]] + (bucket'[j].last - bucket'[j].born) * Rate[j[1]]
  <2>1. CASE j = k
    <3>1. bucket'[j] = n
      BY <1>2, <1>4, <2>1
    <3> QED
      BY <1>3, <2>1, <3>1
  <2>2. CASE j # k
    <3>1. bucket'[j] = bucket[j]
      BY <1>2, <1>4, <2>2
    <3> QED
      BY <1>6, <3>1 DEF RateInv, BucketInv
  <2> QED
    BY <2>1, <2>2
<1> QED
  BY <1>5, <1>6 DEF BucketInv

\* Who is refused is told a wait that, with half a second more, covers what the
\* bucket lacks.
LEMMA CheckKeepsWaits ==
  ASSUME RateInv, NEW k \in Keys, Check(k)
  PROVE  /\ wait' \in [Keys -> Int \cup {None}]
         /\ WaitInv'
<1> DEFINE f == Refilled(k)
           x == Token - f.tokens
           w == TicksPerSecond * WaitSeconds(k)
<1>1. f \in Buckets /\ f.last = now /\ now \in Int /\ f.tokens \in Int
  BY RefilledBucket DEF RateInv, RateTypeOK, Buckets
<1>2. w \in Int /\ 2 * x <= (2 * w + TicksPerSecond) * Rate[k[1]]
  <2> DEFINE t == TicksPerSecond
             c == Rate[k[1]]
             d == t * c
             n == Nearest(x, d)
  <2>1. x \in Int
    BY <1>1, TokenFacts
  <2>2. c \in Nat \ {0} /\ t \in Nat \ {0}
    BY RateFacts, TicksAssumption
  <2>3. w = t * n
    BY DEF WaitSeconds
  <2> HIDE DEF x, w, t, c
  <2>4. d \in Nat \ {0}
    BY <2>2
  <2>5. n \in Int /\ 2 * x <= 2 * (n * d) + d
    BY <2>1, <2>4, RoundedToNearest
  <2> HIDE DEF n
  <2>6. w \in Int /\ n * d = w * c
    BY <2>2, <2>3, <2>5
  <2>7. 2 * (w * c) + t * c = (2 * w + t) * c
    BY <2>2, <2>6
  <2> QED
    BY <2>5, <2>6, <2>7 DEF t, c
<1>3. /\ wait \in [Keys -> Int \cup {None}]
      /\ bucket \in [Keys -> Buckets \cup {None}]
  BY DEF RateInv, RateTypeOK
<1>4. wait' = [wait EXCEPT ![k] = IF Allowed(k) THEN None ELSE now + w]
  BY DEF Check
<1>5. bucket' = [bucket EXCEPT ![k] =
         IF Allowed(k) THEN [f EXCEPT !.tokens = @ - Token, !.granted = @ + 1] ELSE f]
  BY DEF Check
<1>6. now + w \in Int
  BY <1>1, <1>2
<1>7. f # None
  BY <1>1, NoneIsNoBucket
<1> HIDE DEF f, w
<1>8. wait' \in [Keys -> Int \cup {None}]
  BY <1>3, <1>4, <1>6
<1>9. ASSUME NEW j \in Keys, wait'[j] # None
      PROVE  /\ bucket'[j] # None
             /\ 2 * (Token - bucket'[j].tokens)
                  <= (2 * (wait'[j] - bucket'[j].last) + TicksPerSecond) * Rate[j[1]]
  <2>1. CASE j = k
    <3>1. ~Allowed(k) /\ wait'[k] = now + w
      BY <1>3, <1>4, <1>9, <2>1
    <3>2. bucket'[k] = f
      BY <1>3, <1>5, <3>1
    <3>3. (now + w) - now = w
      BY <1>1, <1>2
    <3> QED
      BY <1>1, <1>2, <1>7, <2>1, <3>1, <3>2, <3>3
  <2>2. CASE j # k
    <3>1. bucket'[j] = bucket[j] /\ wait'[j] = wait[j]
      BY <1>3, <1>4, <1>5, <2>2
    <3> QED
      BY <1>9, <3>1 DEF RateInv, WaitInv
  <2> QED
    BY <2>1, <2>2
<1> QED
  BY <1>8, <1>9 DEF WaitInv

\* The invariant survives every step: the clock, set forth or back, touches no
\* bucket, and when it is set back nobody's wait counts any more.
LEMMA StepInv == RateInv /\ [RateNext]_rateVars => RateInv'
<1> SUFFICES ASSUME RateInv, [RateNext]_rateVars
             PROVE  RateInv'
  OBVIOUS
<1>0. RateTypeOK /\ BucketInv /\ WaitInv
  BY DEF RateInv
<1>1. ASSUME NEW k \in Keys, Check(k)
      PROVE  RateInv'
  <2>1. now' \in Int
    BY <1>0, <1>1 DEF Check, RateTypeOK
  <2> QED
    BY <1>1, <2>1, CheckKeepsBuckets, CheckKeepsWaits DEF RateInv, RateTypeOK
<1>2. CASE Pass
  <2>1. now' \in Int /\ bucket' = bucket /\ wait' = wait
    BY <1>0, <1>2, PassesAssumption DEF Pass, RateTypeOK
  <2> QED
    BY <1>0, <2>1 DEF RateInv, RateTypeOK, BucketInv, WaitInv
<1>3. CASE StepBack
  <2>1. now' \in Int /\ bucket' = bucket /\ wait' = [k \in Keys |-> None]
    BY <1>0, <1>3, PassesAssumption DEF StepBack, RateTypeOK
  <2> QED
    BY <1>0, <2>1 DEF RateInv, RateTypeOK, BucketInv, WaitInv
<1>4. CASE UNCHANGED rateVars
  BY <1>0, <1>4 DEF rateVars, RateInv, RateTypeOK, BucketInv, WaitInv
<1> QED
  BY <1>1, <1>2, <1>3, <1>4 DEF RateNext

LEMMA InvHolds == RateSpec => []RateInv
<1> QED
  BY InitInv, StepInv, PTL DEF RateSpec

-----------------------------------------------------------------------------
(* What the limiter promises. *)

\* A bucket holds whole credits, whatever the clock does.
THEOREM RateTypeCorrect == RateSpec => []RateTypeOK
<1>1. RateInv => RateTypeOK
  BY DEF RateInv
<1> QED
  BY <1>1, InvHolds, PTL

\* However often a user asks and however the clock is set, a bucket grants no
\* more than it was born with and what its time refills (rate_limiter.py:43-69).
THEOREM RateGrants == RateSpec => []GrantsAreBounded
<1>1. RateInv => GrantsAreBounded
  BY DEF RateInv, BucketInv, GrantsAreBounded
<1> QED
  BY <1>1, InvHolds, PTL

\* Half a second after the wait a refused user is told they are let in, for every
\* rate (rate_limiter.py:35-46, messages.py:127-131).
THEOREM RateWaits == RateSpec => []WaitIsEnough
<1>1. ASSUME RateInv
      PROVE  WaitIsEnough
  <2> SUFFICES ASSUME NEW k \in Keys, wait[k] # None, 2 * (now - wait[k]) >= TicksPerSecond
               PROVE  Allowed(k)
    BY DEF WaitIsEnough
  <2> DEFINE c == Rate[k[1]]
             told == 2 * (wait[k] - bucket[k].last) + TicksPerSecond
             past == now - bucket[k].last
  <2>1. bucket[k] # None /\ 2 * (Token - bucket[k].tokens) <= told * c
    BY <1>1 DEF RateInv, WaitInv
  <2>2. /\ now \in Int /\ wait[k] \in Int /\ bucket[k].tokens \in Int /\ bucket[k].last \in Int
        /\ TicksPerSecond \in Nat /\ Token \in Nat
    BY <1>1, <2>1, TicksAssumption, TokenFacts DEF RateInv, RateTypeOK, Buckets
  <2>3. c \in Nat /\ Capacity[k[1]] \in Nat /\ Token <= Capacity[k[1]]
    BY RateFacts
  <2>4. told \in Int /\ past \in Int /\ told <= 2 * past
    BY <2>2
  <2>5. Credits(k) = bucket[k].tokens + past * c
    BY <2>1 DEF Credits, BucketOf
  <2> HIDE DEF c, told, past
  <2>6. told * c <= (2 * past) * c
    BY <2>3, <2>4, LongerRefillsMore
  <2>9. (2 * past) * c = 2 * (past * c) /\ past * c \in Int /\ told * c \in Int
    BY <2>3, <2>4
  <2>7. Credits(k) \in Int /\ Token <= Credits(k)
    BY <2>1, <2>2, <2>5, <2>6, <2>9
  <2>8. Least(Capacity[k[1]], Credits(k)) >= Token
    BY <2>3, <2>7 DEF Least
  <2> QED
    BY <1>1, <2>8, RefilledBucket DEF Allowed
<1> QED
  BY <1>1, InvHolds, PTL

-----------------------------------------------------------------------------
(* The updates: where it is decided who may do what. *)

Fields == {"n", "user", "kind", "via", "pc", "back", "word", "refused", "troubles",
           "typing", "glass", "chunks", "at", "got"}

\* Who may use the command at hand.
Entitled ==
  CASE Command[Handler].who = "owner" -> cur.user = Owner
    [] Command[Handler].who = "admin" -> IsAdmin
    [] OTHER -> TRUE

CurInv ==
  /\ DOMAIN cur = Fields
  /\ cur.user \in Users
  /\ cur.n \in 0..MaxUpdates
  /\ cur.pc # "over" => cur.n > 0
  /\ cur.back \in Groups \cup {"over"}

ProcInv == proc \in [Numbers -> [verb : Verbs \cup {"none"},
                                 pc : {"none", "running", "worked", "zero", "nonzero"}]]

\* Where a command may act or start a program, its user has been let in, and an
\* edited message has been turned away if it would start one; where Claude is
\* at work, there is no command.
GateInv ==
  /\ cur.pc \in {"act", "announce", "launch"} => Handler \in DOMAIN Command /\ Entitled
  /\ cur.pc = "act" /\ Handler \in CliCommands => cur.via = "message"
  /\ cur.pc = "launch" => Handler \in CliCommands /\ cur.via # "edited"
  /\ cur.pc \in {"announce"} => Handler = "epic"
  /\ cur.pc = "callback" => cur.via \in {"button", "orphan"}
  /\ cur.pc \in {"download", "status", "run"} => Handler \in Prompts

\* Nothing has been done for an update before it is there.
FutureInv == \A n \in Numbers : n > cur.n => n \notin acted /\ proc[n] = NoProc

GatesInv == CurInv /\ ProcInv /\ GateInv /\ FutureInv /\ EntitledOnly

-----------------------------------------------------------------------------
(* What the table says. *)

LEMMA CommandFacts ==
  /\ Prompts \cap DOMAIN Command = {}
  /\ CliCommands \subseteq DOMAIN Command
  /\ \A h \in CliCommands \ {"epic"} : Command[h].who = "owner"
  /\ Command["epic"].who = "admin"
  /\ "invite" \notin CliCommands
<1>1. DOMAIN Command = {"start", "help", "about", "ping", "new", "status", "ssh", "history",
        "cwd", "invite", "users", "promote", "demote", "revoke", "stats", "sessions", "remote",
        "epic", "alerts", "limit", "add", "runs", "ack", "relay", "approve", "reject"}
  BY DEF Command
<1>2. Prompts = {"text", "photo", "document", "media"}
  BY DEF Prompts, Prompt
<1>3. /\ cmd_auto.who = "owner" /\ cmd_ack.who = "owner" /\ cmd_jarvis.who = "owner"
      /\ handle_approval.who = "owner" /\ cmd_epic.who = "admin"
  BY DEF cmd_auto, cmd_ack, cmd_jarvis, handle_approval, cmd_epic, Change
<1>4. /\ Command["add"] = cmd_auto /\ Command["runs"] = cmd_auto
      /\ Command["ack"] = cmd_ack /\ Command["relay"] = cmd_jarvis
      /\ Command["approve"] = handle_approval /\ Command["reject"] = handle_approval
      /\ Command["epic"] = cmd_epic
  BY DEF Command
<1>5. CliCommands = {"add", "runs", "ack", "relay", "approve", "reject", "epic"}
  BY DEF CliCommands
<1> QED
  BY <1>1, <1>2, <1>3, <1>4, <1>5

-----------------------------------------------------------------------------
(* The rate limiter under the handlers. *)

\* Every step of the handlers is a step of the rate limiter, or leaves it alone.
LEMMA RateSteps == CurInv /\ [Next]_vars => [RateNext]_rateVars
<1> SUFFICES ASSUME CurInv, [Next]_vars
             PROVE  [RateNext]_rateVars
  OBVIOUS
<1>1. <<"commands", cur.user>> \in Keys /\ <<"invites", cur.user>> \in Keys
      /\ <<"claude", cur.user>> \in Keys
  BY DEF CurInv, Keys, Categories
<1>2. ASSUME NEW u \in Users, NEW kind \in Sent, NEW via \in Vias, Receive(u, kind, via)
      PROVE  [RateNext]_rateVars
  BY <1>2 DEF Receive
<1>3. CASE rate_limit_middleware
  BY <1>1, <1>3 DEF rate_limit_middleware, RateNext
<1>4. CASE ActInvite
  BY <1>1, <1>4 DEF ActInvite, RateNext
<1>5. CASE Ration
  BY <1>1, <1>5 DEF Ration, RateNext
<1>6. CASE OnError \/ security_middleware \/ auth_middleware \/ Enter \/ EnterOwner \/ Act \/ Reply
  BY <1>6 DEF OnError, security_middleware, auth_middleware, Enter, EnterOwner, Act, Reply
<1>7. CASE EpicAnnounced \/ Launch \/ CliAnswered \/ CliTimeout \/ handle_callback
             \/ AnswerQuery \/ Alert \/ Verdict
  BY <1>7 DEF EpicAnnounced, Launch, CliAnswered, CliTimeout, handle_callback,
              AnswerQuery, Alert, Verdict
<1>8. CASE Oversized \/ Download \/ Status \/ Run \/ EditStatus \/ DeleteStatus \/ LogCommand
             \/ SendChunk \/ SendPlain
  BY <1>8 DEF Oversized, Download, Status, Run, EditStatus, DeleteStatus, LogCommand,
              SendChunk, SendPlain
<1>9. CASE Cli /\ UNCHANGED <<rateVars, pipeVars>>
  BY <1>9
<1>10. CASE Time
  BY <1>10 DEF Time, RateNext
<1>11. CASE UNCHANGED vars
  BY <1>11 DEF vars
<1> QED
  BY <1>2, <1>3, <1>4, <1>5, <1>6, <1>7, <1>8, <1>9, <1>10, <1>11 DEF Next, Handle

-----------------------------------------------------------------------------
(* The gates. *)

\* The update is the same and it is somewhere.
SameUpdate ==
  /\ DOMAIN cur' = Fields
  /\ cur'.n = cur.n /\ cur'.user = cur.user /\ cur'.kind = cur.kind /\ cur'.via = cur.via
  /\ cur'.back \in Groups \cup {"over"}
  /\ cur'.pc # "over" => cur.n > 0

\* Where no gate is asked for.
Ungated == cur.pc \notin {"act", "announce", "launch", "callback", "download", "status", "run"}

\* A step that does nothing for anybody keeps what was done.
LEMMA NothingDone ==
  ASSUME CurInv, ProcInv, FutureInv, EntitledOnly, SameUpdate, proc' = proc, acted' = acted
  PROVE  CurInv' /\ ProcInv' /\ FutureInv' /\ EntitledOnly'
BY DEF CurInv, ProcInv, FutureInv, EntitledOnly, SameUpdate, N, Handler, IsAdmin

\* A step to an ungated place that does nothing keeps everything.
LEMMA QuietStep ==
  ASSUME GatesInv, SameUpdate, Ungated', proc' = proc, acted' = acted
  PROVE  GatesInv'
<1>1. GateInv'
  BY DEF Ungated, GateInv
<1> QED
  BY <1>1, NothingDone DEF GatesInv

\* What is done for the update at hand by a command that let its user in.
LEMMA DoneByCommand ==
  ASSUME GatesInv, SameUpdate, Ungated', proc' = proc, acted' = acted \cup {N},
         Handler \in DOMAIN Command => Entitled
  PROVE  GatesInv'
<1>1. GateInv'
  BY DEF Ungated, GateInv
<1>2. CurInv' /\ ProcInv'
  BY DEF GatesInv, CurInv, ProcInv, SameUpdate
<1>3. FutureInv'
  BY DEF GatesInv, CurInv, FutureInv, SameUpdate, N, Numbers
<1>4. EntitledOnly'
  BY DEF GatesInv, EntitledOnly, SameUpdate, Entitled, N, Handler, IsAdmin
<1> QED
  BY <1>1, <1>2, <1>3, <1>4 DEF GatesInv

\* A raise is where no gate is asked for.
LEMMA RaiseIsQuiet ==
  ASSUME CurInv, cur.pc # "over", NEW back \in Groups \cup {"over"}, Raise(back)
  PROVE  SameUpdate /\ Ungated'
BY DEF Raise, CurInv, SameUpdate, Ungated, Fields

LEMMA AnswerIsQuiet ==
  ASSUME CurInv, cur.pc # "over", NEW word, Answer(word)
  PROVE  SameUpdate /\ Ungated'
BY DEF Answer, CurInv, SameUpdate, Ungated, Fields

LEMMA GotoSame ==
  ASSUME CurInv, cur.pc # "over", NEW pc, Goto(pc)
  PROVE  SameUpdate /\ cur'.pc = pc
BY DEF Goto, CurInv, SameUpdate, Fields

LEMMA RefuseIsQuiet ==
  ASSUME CurInv, cur.pc # "over", NEW word, NEW next \in Groups, Refuse(word, next)
  PROVE  SameUpdate /\ Ungated'
BY ZenonT(30) DEF Refuse, CurInv, SameUpdate, Ungated, Fields

LEMMA InitGates == Init => GatesInv
<1> SUFFICES ASSUME Init PROVE GatesInv
  OBVIOUS
<1>1. cur = NoUpdate /\ acted = {} /\ proc = [n \in Numbers |-> NoProc]
  BY DEF Init, CliInit
<1>2. /\ DOMAIN cur = Fields /\ cur.user = Owner /\ cur.n = 0 /\ cur.pc = "over"
      /\ cur.back = "over" /\ cur.via = "message"
  BY <1>1 DEF NoUpdate, Fields
<1>3. CurInv
  BY <1>2, PeopleAssumption, MaxUpdatesAssumption DEF CurInv
<1>4. NoProc \in [verb : Verbs \cup {"none"},
                  pc : {"none", "running", "worked", "zero", "nonzero"}]
  BY DEF NoProc
<1>5. ProcInv
  BY <1>1, <1>4 DEF ProcInv
<1>6. GateInv
  BY <1>2 DEF GateInv
<1>7. FutureInv
  BY <1>1 DEF FutureInv
<1>8. EntitledOnly
  BY <1>2 DEF EntitledOnly, N
<1> QED
  BY <1>3, <1>5, <1>6, <1>7, <1>8 DEF GatesInv

\* A new update finds nothing done for it, and no command at its first group.
LEMMA ReceiveGates ==
  ASSUME GatesInv, NEW u \in Users, NEW kind \in Sent, NEW via \in Vias,
         Sendable(kind, via), Receive(u, kind, via)
  PROVE  GatesInv'
<1>1. /\ cur' = [NoUpdate EXCEPT !.n = cur.n + 1, !.user = u, !.kind = kind, !.via = via,
                  !.pc = IF via \in {"button", "orphan"} THEN "callback" ELSE "security"]
      /\ cur.n < MaxUpdates /\ proc' = proc /\ acted' = acted
  BY DEF Receive, cliVars
<1>2. cur.n \in 0..MaxUpdates
  BY DEF GatesInv, CurInv
<1>3. /\ DOMAIN cur' = Fields /\ cur'.n = cur.n + 1 /\ cur'.user = u /\ cur'.via = via
      /\ cur'.pc = (IF via \in {"button", "orphan"} THEN "callback" ELSE "security")
      /\ cur'.back = "over"
  BY <1>1 DEF NoUpdate, Fields
<1>4. CurInv'
  BY <1>1, <1>2, <1>3, MaxUpdatesAssumption DEF CurInv
<1>5. ProcInv'
  BY <1>1 DEF GatesInv, ProcInv
<1>6. GateInv'
  BY <1>3 DEF GateInv
<1>7. cur'.n \in Numbers /\ cur'.n > cur.n
  BY <1>1, <1>2, <1>3, MaxUpdatesAssumption DEF Numbers
<1>8. cur'.n \notin acted' /\ proc'[cur'.n] = NoProc
  BY <1>1, <1>7 DEF GatesInv, FutureInv
<1>9. FutureInv'
  BY <1>1, <1>2, <1>3 DEF GatesInv, FutureInv, Numbers
<1>10. EntitledOnly'
  BY <1>8 DEF EntitledOnly, N
<1> QED
  BY <1>4, <1>5, <1>6, <1>9, <1>10 DEF GatesInv

\* The error handler and the middlewares let nobody act.
LEMMA MiddlewareGates ==
  ASSUME GatesInv,
         OnError \/ security_middleware \/ auth_middleware \/ rate_limit_middleware
  PROVE  GatesInv'
<1>1. CurInv
  BY DEF GatesInv
<1>2. proc' = proc /\ acted' = acted
  BY DEF OnError, security_middleware, auth_middleware, rate_limit_middleware, cliVars
<1>3. cur.back \in Groups \cup {"over"} /\ cur.pc # "over" => cur.back \in Groups \cup {"over"}
  BY <1>1 DEF CurInv
<1>4. ASSUME NEW pc \in Groups \cup {"over"}, cur.pc # "over", Goto(pc)
      PROVE  SameUpdate /\ Ungated'
  BY <1>1, <1>4, GotoSame DEF Ungated, Groups
<1>5. CASE OnError
  <2>1. cur.pc = "error" /\ cur.back \in Groups \cup {"over"}
    BY <1>1, <1>5 DEF OnError, CurInv
  <2>2. CASE Goto(cur.back)
    BY <1>2, <1>4, <2>1, <2>2, QuietStep
  <2>3. CASE cur' = [cur EXCEPT !.pc = cur.back, !.troubles = @ + 1]
    <3>1. SameUpdate /\ Ungated'
      BY <1>1, <2>1, <2>3 DEF CurInv, SameUpdate, Ungated, Fields, Groups
    <3> QED
      BY <1>2, <3>1, QuietStep
  <2> QED
    BY <1>5, <2>2, <2>3 DEF OnError
<1>6. CASE security_middleware
  <2>1. cur.pc = "security" /\ {"auth", "over"} \subseteq Groups \cup {"over"}
    BY <1>6 DEF security_middleware, Groups
  <2>2. CASE cur' = [cur EXCEPT !.pc = "over", !.refused = TRUE]
    <3>1. SameUpdate /\ Ungated'
      BY <1>1, <2>1, <2>2 DEF CurInv, SameUpdate, Ungated, Fields
    <3> QED
      BY <1>2, <3>1, QuietStep
  <2>3. CASE Refuse("refused", "auth")
    <3>1. "auth" \in Groups
      BY DEF Groups
    <3> QED
      BY <1>1, <1>2, <2>1, <2>3, <3>1, RefuseIsQuiet, QuietStep
  <2>4. CASE Goto("auth")
    BY <1>2, <1>4, <2>1, <2>4, QuietStep
  <2> QED
    BY <1>6, <2>2, <2>3, <2>4 DEF security_middleware
<1>7. CASE auth_middleware
  <2>1. cur.pc = "auth" /\ "rate" \in Groups
    BY <1>7 DEF auth_middleware, Groups
  <2>2. CASE Goto("rate")
    BY <1>2, <1>4, <2>1, <2>2, QuietStep
  <2>3. CASE Refuse("denied", "rate")
    BY <1>1, <1>2, <2>1, <2>3, RefuseIsQuiet, QuietStep
  <2>4. CASE Raise("rate")
    BY <1>1, <1>2, <2>1, <2>4, RaiseIsQuiet, QuietStep
  <2> QED
    BY <1>7, <2>2, <2>3, <2>4 DEF auth_middleware
<1>8. CASE rate_limit_middleware
  <2>1. cur.pc = "rate" /\ "handle" \in Groups
    BY <1>8 DEF rate_limit_middleware, Groups
  <2>2. CASE Goto("handle")
    BY <1>2, <1>4, <2>1, <2>2, QuietStep
  <2>3. CASE Refuse("comeBack", "handle")
    BY <1>1, <1>2, <2>1, <2>3, RefuseIsQuiet, QuietStep
  <2> QED
    BY <1>8, <2>2, <2>3 DEF rate_limit_middleware
<1> QED
  BY <1>5, <1>6, <1>7, <1>8

\* A step through a gate that does nothing yet.
LEMMA GatedStep ==
  ASSUME GatesInv, SameUpdate, proc' = proc, acted' = acted, GateInv'
  PROVE  GatesInv'
BY NothingDone DEF GatesInv

\* A command lets in who may use it.
LEMMA EnterGates ==
  ASSUME GatesInv, Enter \/ EnterOwner
  PROVE  GatesInv'
<1>1. CurInv /\ cur.pc = "handle"
  BY DEF GatesInv, Enter, EnterOwner
<1>2. proc' = proc /\ acted' = acted
  BY DEF Enter, EnterOwner, cliVars
<1>3. ASSUME NEW word, Answer(word)
      PROVE  GatesInv'
  BY <1>1, <1>2, <1>3, AnswerIsQuiet, QuietStep
<1>4. CASE Enter
  <2>1. Handler \in DOMAIN Command /\ Command[Handler].who # "owner"
    BY <1>4 DEF Enter
  <2>2. CASE Raise("over")
    BY <1>1, <1>2, <2>2, RaiseIsQuiet, QuietStep
  <2>3. ASSUME ~(Command[Handler].who = "admin" /\ ~IsAdmin),
               Goto(IF Handler = "epic" THEN "announce" ELSE "act")
        PROVE  GatesInv'
    <3>1. SameUpdate /\ cur'.pc = IF Handler = "epic" THEN "announce" ELSE "act"
      BY <1>1, <2>3, GotoSame
    <3>2. Entitled
      BY <2>1, <2>3 DEF Entitled
    <3>3. Handler' = Handler /\ Entitled'
      BY <3>1, <3>2 DEF SameUpdate, Handler, Entitled, IsAdmin
    <3>4. Handler \in CliCommands => Handler = "epic"
      BY <2>1, CommandFacts
    <3>5. GateInv'
      BY <2>1, <3>1, <3>3, <3>4 DEF GateInv
    <3> QED
      BY <1>2, <3>1, <3>5, GatedStep
  <2> QED
    BY <1>3, <1>4, <2>2, <2>3 DEF Enter
<1>5. CASE EnterOwner
  <2>1. Handler \in DOMAIN Command /\ Command[Handler].who = "owner"
    BY <1>5 DEF EnterOwner
  <2>2. CASE Goto("over")
    BY <1>1, <1>2, <2>2, GotoSame, QuietStep DEF Ungated
  <2>3. ASSUME cur.via = "message", cur.user = Owner, Goto("act")
        PROVE  GatesInv'
    <3>1. SameUpdate /\ cur'.pc = "act"
      BY <1>1, <2>3, GotoSame
    <3>2. Handler' = Handler /\ Entitled' /\ cur'.via = "message"
      BY <2>1, <2>3, <3>1 DEF SameUpdate, Handler, Entitled, IsAdmin
    <3>3. GateInv'
      BY <2>1, <3>1, <3>2 DEF GateInv
    <3> QED
      BY <1>2, <3>1, <3>3, GatedStep
  <2> QED
    BY <1>3, <1>5, <2>2, <2>3 DEF EnterOwner
<1> QED
  BY <1>4, <1>5

\* Who acts was let in.
LEMMA ActGates ==
  ASSUME GatesInv, Act \/ ActInvite
  PROVE  GatesInv'
<1>1. /\ CurInv /\ cur.pc = "act" /\ proc' = proc
      /\ Handler \in DOMAIN Command /\ Entitled
      /\ Handler \in CliCommands => cur.via = "message"
  BY DEF GatesInv, GateInv, Act, ActInvite, cliVars
<1>2. ASSUME NEW word, Answer(word), acted' = acted
      PROVE  GatesInv'
  BY <1>1, <1>2, AnswerIsQuiet, QuietStep
<1>3. ASSUME NEW word, Answer(word), acted' = acted \cup {N}
      PROVE  GatesInv'
  BY <1>1, <1>3, AnswerIsQuiet, DoneByCommand
<1>4. ASSUME Raise("over"), acted' = acted
      PROVE  GatesInv'
  BY <1>1, <1>4, RaiseIsQuiet, QuietStep
<1>5. ASSUME Handler \in CliCommands, Goto("launch"), acted' = acted
      PROVE  GatesInv'
  <2>1. SameUpdate /\ cur'.pc = "launch"
    BY <1>1, <1>5, GotoSame
  <2>2. Handler' = Handler /\ Entitled' /\ cur'.via = "message"
    BY <1>1, <1>5, <2>1 DEF SameUpdate, Handler, Entitled, IsAdmin
  <2>3. GateInv'
    BY <1>1, <1>5, <2>1, <2>2 DEF GateInv
  <2> QED
    BY <1>1, <1>5, <2>1, <2>3, GatedStep
<1> QED
  BY <1>2, <1>3, <1>4, <1>5 DEF Act, ActInvite

\* A program is started only for whom a gate let in, and not for an edit.
LEMMA LaunchGates ==
  ASSUME GatesInv, EpicAnnounced \/ Launch
  PROVE  GatesInv'
<1>1. CurInv /\ cur.pc \in {"announce", "launch"} /\ acted' = acted
  BY DEF GatesInv, EpicAnnounced, Launch, cliVars
<1>2. Handler \in DOMAIN Command /\ Entitled
  BY <1>1 DEF GatesInv, GateInv
<1>3. CASE EpicAnnounced
  <2>1. proc' = proc /\ Handler = "epic" /\ cur.pc = "announce"
    BY <1>3 DEF EpicAnnounced, cliVars, GatesInv, GateInv
  <2>2. CASE Raise("over")
    BY <1>1, <2>1, <2>2, RaiseIsQuiet, QuietStep
  <2>3. ASSUME cur.via = "message", Goto("launch")
        PROVE  GatesInv'
    <3>1. SameUpdate /\ cur'.pc = "launch"
      BY <1>1, <2>1, <2>3, GotoSame
    <3>2. Handler' = Handler /\ Entitled' /\ cur'.via = "message"
      BY <1>2, <2>3, <3>1 DEF SameUpdate, Handler, Entitled, IsAdmin
    <3>3. GateInv'
      BY <1>2, <2>1, <3>1, <3>2 DEF GateInv, CliCommands
    <3> QED
      BY <1>1, <2>1, <3>1, <3>3, GatedStep
  <2> QED
    BY <1>3, <2>2, <2>3 DEF EpicAnnounced
<1>4. CASE Launch
  <2>1. /\ cur.pc = "launch" /\ cur.via # "edited" /\ Handler \in CliCommands
    BY <1>4 DEF Launch, GatesInv, GateInv
  <2>2. ASSUME RunAuto(N, Handler), Goto("cli")
        PROVE  GatesInv'
    <3>1. SameUpdate /\ cur'.pc = "cli"
      BY <1>1, <2>1, <2>2, GotoSame
    <3>2. N \in Numbers /\ N = cur.n
      BY <1>1, <2>1, MaxUpdatesAssumption DEF CurInv, N, Numbers
    <3>3. Handler \in Verbs
      BY <2>1 DEF CliCommands, Verbs
    <3>4. proc' = [proc EXCEPT ![N] = [verb |-> Handler, pc |-> "running"]]
      BY <2>2 DEF RunAuto
    <3>5. ProcInv /\ FutureInv /\ EntitledOnly
      BY DEF GatesInv
    <3>6. ProcInv'
      BY <3>3, <3>4, <3>5 DEF ProcInv
    <3>7. \A n \in Numbers : n # N => proc'[n] = proc[n]
      BY <3>4, <3>5 DEF ProcInv
    <3>8. FutureInv'
      <4> SUFFICES ASSUME NEW n \in Numbers, n > cur'.n
                   PROVE  n \notin acted' /\ proc'[n] = NoProc
        BY DEF FutureInv
      <4>1. n > cur.n /\ n # N
        BY <3>1, <3>2 DEF SameUpdate, Numbers
      <4> QED
        BY <1>1, <3>5, <3>7, <4>1 DEF FutureInv
    <3>9. EntitledOnly'
      BY <1>2, <2>1, <3>1 DEF EntitledOnly, Entitled, SameUpdate, N, Handler, IsAdmin
    <3>10. CurInv'
      BY <1>1, <3>1 DEF CurInv, SameUpdate
    <3>11. GateInv'
      BY <3>1 DEF GateInv
    <3> QED
      BY <3>6, <3>8, <3>9, <3>10, <3>11 DEF GatesInv
  <2>3. ASSUME proc' = proc, Raise("over") PROVE GatesInv'
    BY <1>1, <2>1, <2>3, RaiseIsQuiet, QuietStep
  <2>4. ASSUME proc' = proc, NEW word, Answer(word) PROVE GatesInv'
    BY <1>1, <2>1, <2>4, AnswerIsQuiet, QuietStep
  <2>5. ASSUME proc' = proc, cur' = [cur EXCEPT !.pc = "alert", !.word = "failed"]
        PROVE  GatesInv'
    <3>1. SameUpdate /\ Ungated'
      BY <1>1, <2>1, <2>5 DEF CurInv, SameUpdate, Ungated, Fields
    <3> QED
      BY <1>1, <2>5, <3>1, QuietStep
  <2>6. CASE RunAuto(N, Handler) /\ Goto("cli")
    BY <2>2, <2>6
  <2>7. CASE /\ CASE Handler \in {"add", "runs"} -> Raise("over")
                  [] Handler \in {"ack", "relay"} -> Answer("failed")
                  [] Handler = "epic" -> Answer("error")
                  [] Handler \in Approvals -> cur' = [cur EXCEPT !.pc = "alert", !.word = "failed"]
             /\ UNCHANGED cliVars
    <3>1. proc' = proc
      BY <2>7 DEF cliVars
    <3>2. \/ Raise("over") \/ Answer("failed") \/ Answer("error")
          \/ cur' = [cur EXCEPT !.pc = "alert", !.word = "failed"]
      BY <2>1, <2>7 DEF CliCommands, Approvals
    <3> QED
      BY <2>3, <2>4, <2>5, <3>1, <3>2
  <2> QED
    BY <1>4, <2>6, <2>7 DEF Launch
<1> QED
  BY <1>3, <1>4

\* What comes after a program or an alert asks for no gate.
LEMMA AnswerGates ==
  ASSUME GatesInv,
         Reply \/ CliAnswered \/ CliTimeout \/ Alert \/ Verdict
  PROVE  GatesInv'
<1>1. CurInv /\ cur.pc \in {"reply", "cli", "alert", "verdict"} /\ proc' = proc /\ acted' = acted
  BY DEF GatesInv, Reply, CliAnswered, CliTimeout, Alert, Verdict, cliVars, Unlink
<1>2. ASSUME NEW pc \in {"over", "verdict"}, Goto(pc)
      PROVE  GatesInv'
  BY <1>1, <1>2, GotoSame, QuietStep DEF Ungated
<1>3. ASSUME NEW word, Answer(word)
      PROVE  GatesInv'
  BY <1>1, <1>3, AnswerIsQuiet, QuietStep
<1>4. CASE Raise("over")
  BY <1>1, <1>4, RaiseIsQuiet, QuietStep
<1>5. ASSUME NEW word, NEW troubles,
             \/ cur' = [cur EXCEPT !.pc = "alert", !.word = word]
             \/ cur' = [cur EXCEPT !.word = word, !.troubles = troubles]
             \/ cur' = [cur EXCEPT !.pc = "over", !.troubles = troubles]
      PROVE  GatesInv'
  <2>1. SameUpdate /\ Ungated'
    BY <1>1, <1>5 DEF CurInv, SameUpdate, Ungated, Fields
  <2> QED
    BY <1>1, <2>1, QuietStep
<1>6. CASE Reply
  BY <1>2, <1>4, <1>5, <1>6 DEF Reply
<1>7. CASE CliAnswered
  BY <1>2, <1>3, <1>7 DEF CliAnswered
<1>8. CASE CliTimeout
  BY <1>3, <1>5, <1>8 DEF CliTimeout
<1>9. CASE Alert
  BY <1>2, <1>4, <1>9 DEF Alert
<1>10. CASE Verdict
  BY <1>5, <1>10 DEF Verdict
<1> QED
  BY <1>6, <1>7, <1>8, <1>9, <1>10

\* A button lets the owner, and nobody else, decide a request.
LEMMA ButtonGates ==
  ASSUME GatesInv, handle_callback \/ AnswerQuery
  PROVE  GatesInv'
<1>1. CurInv /\ cur.pc \in {"callback", "answerQuery"} /\ proc' = proc /\ acted' = acted
  BY DEF GatesInv, handle_callback, AnswerQuery, cliVars
<1>2. ASSUME NEW pc \in {"over", "answerQuery", "handle"}, Goto(pc)
      PROVE  GatesInv'
  BY <1>1, <1>2, GotoSame, QuietStep DEF Ungated
<1>3. CASE Raise("over")
  BY <1>1, <1>3, RaiseIsQuiet, QuietStep
<1>4. CASE Answer("refused")
  BY <1>1, <1>4, AnswerIsQuiet, QuietStep
<1>5. CASE cur' = [cur EXCEPT !.pc = "alert", !.word = "denied"]
  <2>1. SameUpdate /\ Ungated'
    BY <1>1, <1>5 DEF CurInv, SameUpdate, Ungated, Fields
  <2> QED
    BY <1>1, <2>1, QuietStep
<1>6. ASSUME handle_callback, cur.kind \in Approvals, cur.user = Owner, Goto("launch")
      PROVE  GatesInv'
  <2>1. SameUpdate /\ cur'.pc = "launch"
    BY <1>1, <1>6, GotoSame
  <2>2. cur.via \in {"button", "orphan"}
    BY <1>6 DEF handle_callback, GatesInv, GateInv
  <2>3. Handler = cur.kind /\ Handler \in CliCommands \ {"epic"}
    BY <1>6, <2>2 DEF Handler, HandlerOf, Approvals, CliCommands, Malformed
  <2>4. Command[Handler].who = "owner" /\ Handler \in DOMAIN Command
    BY <2>3, CommandFacts
  <2>5. Handler' = Handler /\ Entitled'
    BY <1>6, <2>1, <2>4 DEF SameUpdate, Handler, Entitled, IsAdmin
  <2>6. GateInv'
    BY <2>1, <2>2, <2>3, <2>4, <2>5 DEF GateInv, SameUpdate
  <2> QED
    BY <1>1, <2>1, <2>6, GatedStep
<1>7. CASE handle_callback
  BY <1>2, <1>3, <1>5, <1>6, <1>7 DEF handle_callback
<1>8. CASE AnswerQuery
  BY <1>2, <1>3, <1>4, <1>8 DEF AnswerQuery
<1> QED
  BY <1>7, <1>8

\* Who prompts Claude uses no command.
LEMMA PromptGates ==
  ASSUME GatesInv,
         Oversized \/ Ration \/ Download \/ Status \/ Run
  PROVE  GatesInv'
<1>1. /\ CurInv /\ cur.pc \in {"handle", "download", "status", "run"} /\ proc' = proc
      /\ Handler \in Prompts
  BY DEF GatesInv, GateInv, Oversized, Ration, Download, Status, Run, cliVars
<1>2. Handler \notin DOMAIN Command
  BY <1>1, CommandFacts
<1>3. ASSUME NEW word, Answer(word), acted' = acted
      PROVE  GatesInv'
  BY <1>1, <1>3, AnswerIsQuiet, QuietStep
<1>4. ASSUME Raise("over"), acted' = acted
      PROVE  GatesInv'
  BY <1>1, <1>4, RaiseIsQuiet, QuietStep
<1>5. ASSUME SameUpdate, cur'.pc \in {"download", "status", "run"}, acted' = acted
      PROVE  GatesInv'
  <2>1. Handler' = Handler
    BY <1>5 DEF SameUpdate, Handler
  <2>2. GateInv'
    BY <1>1, <1>5, <2>1 DEF GateInv
  <2> QED
    BY <1>1, <1>5, <2>2, GatedStep
<1>6. ASSUME NEW pc \in {"download", "status"}, Goto(pc), acted' = acted
      PROVE  GatesInv'
  BY <1>1, <1>5, <1>6, GotoSame
<1>7. CASE Oversized
  BY <1>3, <1>7 DEF Oversized
<1>8. CASE Ration
  BY <1>3, <1>4, <1>6, <1>8 DEF Ration
<1>9. CASE Download
  BY <1>3, <1>6, <1>9 DEF Download
<1>10. CASE Status
  <2>1. acted' = acted
    BY <1>10 DEF Status
  <2>2. ASSUME cur' = [cur EXCEPT !.pc = "run", !.typing = TRUE, !.glass = TRUE]
        PROVE  GatesInv'
    <3>1. SameUpdate /\ cur'.pc = "run"
      BY <1>1, <2>2 DEF CurInv, SameUpdate, Fields
    <3> QED
      BY <1>5, <2>1, <3>1
  <2> QED
    BY <1>4, <1>10, <2>1, <2>2 DEF Status
<1>11. CASE Run
  <2>1. ASSUME NEW c, cur' = [cur EXCEPT !.pc = "delete", !.typing = FALSE, !.chunks = c],
               acted' = acted \cup {N}
        PROVE  GatesInv'
    <3>1. SameUpdate /\ Ungated'
      BY <1>1, <2>1 DEF CurInv, SameUpdate, Ungated, Fields
    <3> QED
      BY <1>1, <1>2, <2>1, <3>1, DoneByCommand
  <2>2. ASSUME cur' = [cur EXCEPT !.pc = "edit", !.typing = FALSE], acted' = acted
        PROVE  GatesInv'
    <3>1. SameUpdate /\ Ungated'
      BY <1>1, <2>2 DEF CurInv, SameUpdate, Ungated, Fields
    <3> QED
      BY <1>1, <2>2, <3>1, QuietStep
  <2> QED
    BY <1>4, <1>11, <2>1, <2>2 DEF Run
<1> QED
  BY <1>7, <1>8, <1>9, <1>10, <1>11

\* Nor does what comes after Claude's answer.
LEMMA ChunkGates ==
  ASSUME GatesInv,
         EditStatus \/ DeleteStatus \/ LogCommand \/ SendChunk \/ SendPlain
  PROVE  GatesInv'
<1>1. CurInv /\ cur.pc \in {"edit", "delete", "log", "send", "plain"} /\ proc' = proc /\ acted' = acted
  BY DEF GatesInv, EditStatus, DeleteStatus, LogCommand, SendChunk, SendPlain, cliVars
<1>2. ASSUME NEW pc \in {"send", "plain"}, Goto(pc)
      PROVE  GatesInv'
  BY <1>1, <1>2, GotoSame, QuietStep DEF Ungated
<1>3. CASE Raise("over")
  BY <1>1, <1>3, RaiseIsQuiet, QuietStep
<1>4. ASSUME NEW troubles,
             \/ cur' = [cur EXCEPT !.pc = "over", !.glass = FALSE]
             \/ cur' = [cur EXCEPT !.pc = "log", !.glass = FALSE]
             \/ cur' = [cur EXCEPT !.pc = "log", !.troubles = troubles]
      PROVE  GatesInv'
  <2>1. SameUpdate /\ Ungated'
    BY <1>1, <1>4, ZenonT(30) DEF CurInv, SameUpdate, Ungated, Fields
  <2> QED
    BY <1>1, <2>1, QuietStep
<1>5. CASE Arrive
  <2>1. SameUpdate /\ Ungated'
    BY <1>1, <1>5 DEF Arrive, CurInv, SameUpdate, Ungated, Fields
  <2> QED
    BY <1>1, <2>1, QuietStep
<1>6. CASE RaiseUnsure
  <2>1. SameUpdate /\ Ungated'
    BY <1>1, <1>6 DEF RaiseUnsure, CurInv, SameUpdate, Ungated, Fields
  <2> QED
    BY <1>1, <2>1, QuietStep
<1>7. CASE EditStatus
  BY <1>3, <1>4, <1>7 DEF EditStatus
<1>8. CASE DeleteStatus
  BY <1>4, <1>8 DEF DeleteStatus
<1>9. CASE LogCommand
  BY <1>2, <1>3, <1>9 DEF LogCommand
<1>10. CASE SendChunk
  BY <1>2, <1>5, <1>6, <1>10 DEF SendChunk
<1>11. CASE SendPlain
  BY <1>5, <1>6, <1>11 DEF SendPlain
<1> QED
  BY <1>7, <1>8, <1>9, <1>10, <1>11

\* A program that works on is one that was started.
LEMMA CliGates ==
  ASSUME GatesInv, Cli, UNCHANGED pipeVars
  PROVE  GatesInv'
<1>1. cur' = cur /\ acted' = acted
  BY DEF pipeVars
<1>2. CurInv /\ ProcInv /\ GateInv /\ FutureInv /\ EntitledOnly
  BY DEF GatesInv
<1>3. PICK n \in Numbers, pc \in {"worked", "nonzero", "zero"} :
        proc[n].pc \in {"running", "worked"} /\ proc' = [proc EXCEPT ![n].pc = pc]
  BY DEF Cli, CliWorks, CliRefuses, CliEnds
<1>4. ProcInv'
  <2> DEFINE P == [verb : Verbs \cup {"none"},
                   pc : {"none", "running", "worked", "zero", "nonzero"}]
             p == [proc[n] EXCEPT !.pc = pc]
  <2>1. proc \in [Numbers -> P]
    BY <1>2 DEF ProcInv
  <2>2. p \in P
    BY <2>1
  <2>3. proc' = [proc EXCEPT ![n] = p]
    BY <1>3
  <2> HIDE DEF P, p
  <2>4. proc' \in [Numbers -> P]
    BY <2>1, <2>2, <2>3
  <2> QED
    BY <2>4 DEF ProcInv, P
<1>5. proc[n] # NoProc
  BY <1>3 DEF NoProc
<1>6. \A m \in Numbers : m # n => proc'[m] = proc[m]
  BY <1>2, <1>3 DEF ProcInv
<1>7. FutureInv'
  BY <1>1, <1>2, <1>5, <1>6 DEF FutureInv
<1>8. EntitledOnly'
  <2>1. cur.n > 0 => cur.n \in Numbers
    BY <1>2, MaxUpdatesAssumption DEF CurInv, Numbers
  <2>2. cur.n > 0 /\ proc'[cur.n] # NoProc => proc[cur.n] # NoProc
    BY <1>5, <1>6, <2>1
  <2> QED
    BY <1>1, <1>2, <2>2 DEF EntitledOnly, N, Handler, IsAdmin
<1>9. CurInv' /\ GateInv'
  BY <1>1, <1>2 DEF CurInv, GateInv, Handler, Entitled, IsAdmin
<1> QED
  BY <1>4, <1>7, <1>8, <1>9 DEF GatesInv

\* Time, and steps of nobody.
LEMMA IdleGates ==
  ASSUME GatesInv, cur' = cur, acted' = acted, proc' = proc
  PROVE  GatesInv'
BY DEF GatesInv, CurInv, ProcInv, GateInv, FutureInv, EntitledOnly, Entitled, N, Handler, IsAdmin

LEMMA StepGates == GatesInv /\ [Next]_vars => GatesInv'
<1> SUFFICES ASSUME GatesInv, [Next]_vars
             PROVE  GatesInv'
  OBVIOUS
<1>1. ASSUME NEW u \in Users, NEW kind \in Sent, NEW via \in Vias,
             Sendable(kind, via), Receive(u, kind, via)
      PROVE  GatesInv'
  BY <1>1, ReceiveGates
<1>2. CASE Handle
  BY <1>2, MiddlewareGates, EnterGates, ActGates, LaunchGates, AnswerGates, ButtonGates,
     PromptGates, ChunkGates DEF Handle
<1>3. CASE Cli /\ UNCHANGED <<rateVars, pipeVars>>
  BY <1>3, CliGates
<1>4. CASE Time
  BY <1>4, IdleGates DEF Time, cliVars
<1>5. CASE UNCHANGED vars
  BY <1>5, IdleGates DEF vars, cliVars, pipeVars
<1> QED
  BY <1>1, <1>2, <1>3, <1>4, <1>5 DEF Next

LEMMA GatesHold == Spec => []GatesInv
<1> QED
  BY InitGates, StepGates, PTL DEF Spec

-----------------------------------------------------------------------------
(* What a user is told.  The update at hand with its types, and what can be *)
(* said of it by the place it has reached.                                  *)

Places == Groups \cup Waits \cup {"callback", "error", "over"}

UpdatesAtHand ==
  [n : 0..MaxUpdates, user : Users, kind : Sent \cup {"none"}, via : Vias \cup {"message"},
   pc : Places, back : Groups \cup {"over"}, word : Words, refused : BOOLEAN, troubles : Nat,
   typing : BOOLEAN, glass : BOOLEAN, chunks : 0..MaxChunks, at : 1..MaxChunks + 1,
   got : Seq(1..MaxChunks)]

Asleep == cur.pc = "over" \/ (cur.pc = "error" /\ cur.back = "over")

\* Every trouble was a failure, but for one that ends the update: no message to
\* answer to, or the second half of a verdict.
SpareInv ==
  /\ faults \in 0..MaxFaults
  /\ cur.troubles <= faults + 1
  /\ ~Asleep => cur.troubles <= faults
  /\ cur.pc = "error" => cur.troubles > 0

\* Before anything is done.
Fresh ==
  \/ cur.pc \in Groups \cup {"callback", "answerQuery", "act", "announce", "launch",
                             "download", "status", "run", "edit"}
  \/ cur.pc = "error" /\ cur.back # "over"

\* Which kinds come which way, and where they get to.
PlaceInv ==
  /\ cur.pc # "over" => cur.n > 0
  /\ cur.via \in {"button", "orphan"} => cur.kind \in ButtonActions
  /\ cur.via \in {"message", "edited"} => cur.kind \notin Approvals \cup {"unknownButton"}
  /\ cur.pc \in {"callback", "answerQuery"} => cur.via \in {"button", "orphan"}
  /\ cur.pc = "answerQuery" /\ cur.kind \in Approvals => cur.user \notin Registered
  /\ cur.pc \in {"security", "auth", "rate"} => cur.via \in {"message", "edited"}
  /\ cur.pc = "error" /\ cur.back # "over" => cur.via \in {"message", "edited"}
  /\ cur.pc \in {"handle", "act", "announce"} => Handler \notin Approvals
  /\ cur.pc \in {"download", "status", "run", "edit", "delete", "log", "send", "plain"} =>
       Handler \in Prompts
  /\ cur.pc = "act" => Handler \in DOMAIN Command
  /\ cur.pc = "announce" => Handler = "epic"
  /\ cur.pc \in {"launch", "cli", "verdict"} => Handler \in CliCommands
  /\ cur.pc = "verdict" => Handler \in Approvals

\* Typing, the status message and a job file are there while they are needed.
TidyInv ==
  /\ cur.typing => cur.pc = "run"
  /\ cur.glass => cur.pc \in {"run", "edit", "delete"} \/ cur.troubles > 0
  /\ \A n \in Numbers : jobFile[n] => n = N /\ cur.pc = "cli"

\* The chunks before the one to be sent have arrived, each once.
WholeInv ==
  /\ \A k \in DOMAIN cur.got : cur.got[k] = k
  /\ cur.pc \in {"delete", "log", "send", "plain"} =>
       Len(cur.got) = cur.at - 1 /\ cur.at <= cur.chunks
  /\ cur.pc \notin {"delete", "log", "send", "plain", "error", "over"} =>
       cur.at = 1 /\ cur.got = <<>>
  /\ cur.pc = "error" /\ cur.back # "over" => cur.at = 1 /\ cur.got = <<>>

\* Nobody is left without a word, nor without an answer.
TellInv ==
  /\ cur.pc \in {"reply", "alert"} => cur.word # "nothing"
  /\ cur.pc = "over" /\ N > 0 /\ cur.troubles <= 1 => said[N] # "nothing" \/ Silent
  /\ cur.pc = "over" /\ Handler \in Prompts /\ N \in acted =>
       Len(cur.got) = cur.chunks \/ said[N] = "error" \/ cur.troubles > 1

Denials == {"denied", "refused", "comeBack", "failed"}

\* Not done, and it will not be.
Undone(n) == n \notin acted /\ proc[n].pc \in {"none", "nonzero"}

\* A denial stays true, unless it is that of an approval which took too long.
Borne(n, word) ==
  Undone(n) \/ (word = "failed" /\ n \notin acted /\ LateApproval(n))

\* What is about to be said is true.
DoneInv ==
  /\ Fresh => N \notin acted /\ proc[N] = NoProc
  /\ cur.pc \in {"cli", "verdict"} => N \notin acted /\ proc[N].verb = Handler
  /\ cur.pc = "verdict" => Ended(N)
  /\ cur.pc \in {"reply", "alert"} =>
       /\ cur.word = "done" => N \in acted \/ Did(N)
       /\ cur.word \in Denials => Borne(N, cur.word)
       /\ Handler \in Prompts => N \notin acted

\* The verdict comes last, so that what was said stays true.
SaidInv ==
  /\ said \in [Numbers -> Words]
  /\ cur.pc # "over" => said[N] \in {"nothing", "error"}
  /\ \A n \in Numbers :
       /\ n > N => said[n] = "nothing" /\ n \notin acted /\ proc[n] = NoProc
       /\ said[n] = "done" => n \in acted \/ Did(n)
       /\ said[n] \in Denials => Borne(n, said[n])

\* A request is decided once.
DecisionInv ==
  /\ decision \in Approvals \cup {"open"}
  /\ mark \in Approvals \cup {"failed", "blank"}
  /\ jobFile \in [Numbers -> BOOLEAN]
  /\ acted \subseteq Numbers /\ late \subseteq Numbers
  /\ \A n \in Numbers : Did(n) /\ proc[n].verb \in Approvals => decision = proc[n].verb
  /\ mark \in Approvals => decision = mark

WordInv ==
  /\ cur \in UpdatesAtHand /\ ProcInv
  /\ SpareInv /\ PlaceInv /\ TidyInv /\ WholeInv /\ TellInv /\ DoneInv /\ SaidInv /\ DecisionInv

-----------------------------------------------------------------------------
(* The handlers' steps, field by field. *)

\* The update at hand moves on, and its answer stays.
To(pc, back, word, troubles, typing, glass) ==
  /\ cur' \in UpdatesAtHand
  /\ cur'.n = cur.n /\ cur'.user = cur.user /\ cur'.kind = cur.kind /\ cur'.via = cur.via
  /\ cur'.pc = pc /\ cur'.back = back /\ cur'.word = word /\ cur'.troubles = troubles
  /\ cur'.typing = typing /\ cur'.glass = glass
  /\ cur'.chunks = cur.chunks /\ cur'.at = cur.at /\ cur'.got = cur.got

LEMMA GotoMoves ==
  ASSUME cur \in UpdatesAtHand, NEW pc \in Places, Goto(pc)
  PROVE  To(pc, cur.back, cur.word, cur.troubles, cur.typing, cur.glass)
BY DEF Goto, To, UpdatesAtHand

LEMMA AnswerMoves ==
  ASSUME cur \in UpdatesAtHand, NEW word \in Words, Answer(word)
  PROVE  To("reply", cur.back, word, cur.troubles, cur.typing, cur.glass)
BY DEF Answer, To, UpdatesAtHand, Places, Waits

LEMMA RaiseMoves ==
  ASSUME cur \in UpdatesAtHand, NEW back \in Groups \cup {"over"}, Raise(back)
  PROVE  To("error", back, cur.word, cur.troubles + 1, FALSE, cur.glass)
<1>1. cur.troubles \in Nat
  BY DEF UpdatesAtHand
<1> DEFINE t == cur.troubles + 1
<1>2. t \in Nat /\ t = cur.troubles + 1
  BY <1>1
<1>3. cur' = [cur EXCEPT !.pc = "error", !.back = back, !.troubles = t, !.typing = FALSE]
  BY DEF Raise
<1> HIDE DEF t
<1> QED
  BY <1>2, <1>3, ZenonT(30) DEF To, UpdatesAtHand, Places

LEMMA AlertMoves ==
  ASSUME cur \in UpdatesAtHand, NEW word \in Words,
         cur' = [cur EXCEPT !.pc = "alert", !.word = word]
  PROVE  To("alert", cur.back, word, cur.troubles, cur.typing, cur.glass)
BY DEF To, UpdatesAtHand, Places, Waits

\* Whose update it is, and what it asks for, does not change on the way.
LEMMA SameUpdateAsks ==
  ASSUME cur'.n = cur.n, cur'.user = cur.user, cur'.kind = cur.kind, cur'.via = cur.via
  PROVE  N' = N /\ Handler' = Handler /\ Silent' = Silent
BY DEF N, Handler, Silent

\* Where nothing is said or done, what was said stays true.
LEMMA QuietTelling ==
  ASSUME WordInv, cur.pc # "over", cur'.n = cur.n,
         said' = said, acted' = acted, proc' = proc, late \subseteq late'
  PROVE  SaidInv' /\ ProcInv'
BY DEF WordInv, SaidInv, ProcInv, N, Borne, LateApproval, Undone, Did

LEMMA NothingDecided ==
  ASSUME DecisionInv, acted' = acted, UNCHANGED cliVars
  PROVE  DecisionInv'
BY DEF DecisionInv, Did, cliVars

\* A job file is there only while its program is waited for.
LEMMA NoJobElsewhere ==
  ASSUME TidyInv, cur.pc # "cli"
  PROVE  \A n \in Numbers : ~jobFile[n]
BY DEF TidyInv

LEMMA AtHand ==
  ASSUME WordInv, cur.pc # "over"
  PROVE  cur.n \in Numbers /\ N = cur.n /\ cur \in UpdatesAtHand
BY MaxUpdatesAssumption DEF WordInv, PlaceInv, UpdatesAtHand, Numbers, N

\* What a handler does not catch ends it, or the middleware's group.
LEMMA RaiseKeeps ==
  ASSUME WordInv, NEW back \in {"over", "rate"}, Raise(back),
         cur.pc \notin {"over", "error", "cli"}, back = "rate" => cur.pc = "auth",
         Fault \/ (back = "over" /\ faults' = faults),
         said' = said, acted' = acted, UNCHANGED cliVars
  PROVE  WordInv'
<1>1. cur \in UpdatesAtHand /\ cur.n > 0
  BY AtHand DEF Numbers
<1>2. To("error", back, cur.word, cur.troubles + 1, FALSE, cur.glass)
  BY <1>1, RaiseMoves DEF Groups
<1>3. N' = N /\ Handler' = Handler /\ Silent' = Silent
  BY <1>2, SameUpdateAsks DEF To
<1>4. SaidInv' /\ ProcInv' /\ DecisionInv'
  BY <1>2, QuietTelling, NothingDecided DEF WordInv, To, cliVars
<1>5. SpareInv'
  BY <1>1, <1>2, UpdatesBoundsAssumption DEF WordInv, SpareInv, Asleep, To, Fault, UpdatesAtHand
<1>6. PlaceInv'
  BY <1>1, <1>2, <1>3 DEF WordInv, PlaceInv, To
<1>7. TidyInv'
  BY <1>1, <1>2, NoJobElsewhere DEF WordInv, TidyInv, To, UpdatesAtHand, cliVars
<1>8. WholeInv'
  BY <1>2 DEF WordInv, WholeInv, To
<1>9. TellInv'
  BY <1>2 DEF TellInv, To
<1>10. DoneInv'
  BY <1>2, <1>3 DEF WordInv, DoneInv, Fresh, To, cliVars, Groups
<1> QED
  BY <1>2, <1>4, <1>5, <1>6, <1>7, <1>8, <1>9, <1>10 DEF WordInv, To

\* What is answered is true, and there is something to answer.
LEMMA AnswerKeeps ==
  ASSUME WordInv, NEW pc \in {"reply", "alert"}, NEW word \in Words \ {"nothing"},
         To(pc, cur.back, word, cur.troubles, cur.typing, cur.glass),
         cur.pc \notin {"over", "error", "run", "edit", "delete", "log", "send", "plain"},
         Fault \/ faults' = faults,
         \A n \in Numbers : ~jobFile'[n],
         SaidInv', DecisionInv', proc' = proc,
         word = "done" => N \in acted' \/ Did(N),
         word \in Denials => Borne(N, word)',
         Handler \in Prompts => N \notin acted'
  PROVE  WordInv'
<1>1. cur \in UpdatesAtHand /\ cur.n > 0
  BY AtHand DEF Numbers
<1>3. N' = N /\ Handler' = Handler /\ Silent' = Silent
  BY SameUpdateAsks DEF To
<1>5. SpareInv'
  BY <1>1, UpdatesBoundsAssumption DEF WordInv, SpareInv, Asleep, To, Fault, UpdatesAtHand
<1>6. PlaceInv'
  BY <1>1, <1>3 DEF WordInv, PlaceInv, To
<1>7. TidyInv'
  BY <1>1 DEF WordInv, TidyInv, To, UpdatesAtHand
<1>8. WholeInv'
  BY DEF WordInv, WholeInv, To
<1>9. TellInv'
  BY DEF TellInv, To
<1>10. DoneInv'
  BY <1>3 DEF WordInv, DoneInv, Fresh, To, Groups, Did
<1>11. ProcInv'
  BY DEF WordInv, ProcInv
<1> QED
  BY <1>5, <1>6, <1>7, <1>8, <1>9, <1>10, <1>11 DEF WordInv, To

\* A button reaches the handler of its kind, and a message no decision.
LEMMA HandlerOfKind ==
  /\ cur.kind \in ButtonActions => Handler = cur.kind /\ Handler \notin Prompts
  /\ cur.kind \notin Approvals => Handler \notin Approvals
  /\ cur.kind \in Approvals => Handler = cur.kind
BY DEF Handler, HandlerOf, ButtonActions, Approvals, Malformed, Prompts, Prompt

\* Before anything is done, a denial is true.
LEMMA FreshIsUndone ==
  ASSUME WordInv, Fresh
  PROVE  /\ Undone(N) /\ N \notin acted /\ proc[N] = NoProc
         /\ \A word : Borne(N, word)
BY DEF WordInv, DoneInv, Undone, Borne, NoProc

\* What is said at the end of an update is true, and nothing was said before.
LEMMA SayKeeps ==
  ASSUME WordInv, cur.pc # "over", cur'.n = cur.n, NEW word \in Words, Say(word),
         cur'.pc = "over" \/ word = "error",
         acted' = acted, proc' = proc, late' = late,
         word = "done" => N \in acted \/ Did(N),
         word \in Denials => Borne(N, word)
  PROVE  SaidInv' /\ ProcInv' /\ said'[N] = word
<1>1. N \in Numbers /\ N' = N
  BY AtHand DEF N
<1>2. said' = [said EXCEPT ![N] = word]
  BY DEF Say
<1>3. said' \in [Numbers -> Words] /\ said'[N] = word
      /\ \A n \in Numbers \ {N} : said'[n] = said[n]
  BY <1>1, <1>2 DEF WordInv, SaidInv
<1>4. N = cur.n /\ N \in Nat
  BY <1>1 DEF N, Numbers
<1>5. SaidInv'
  <2>1. cur'.pc # "over" => said'[N'] \in {"nothing", "error"}
    BY <1>1, <1>3
  <2> SUFFICES ASSUME NEW n \in Numbers
               PROVE  /\ n > N => said'[n] = "nothing" /\ n \notin acted /\ proc[n] = NoProc
                      /\ said'[n] = "done" => n \in acted \/ Did(n)
                      /\ said'[n] \in Denials => Borne(n, said'[n])
    BY <1>1, <1>3, <2>1 DEF SaidInv, Did, Borne, LateApproval, Undone
  <2>2. CASE n = N
    BY <1>3, <1>4, <2>2 DEF Numbers
  <2>3. CASE n # N
    BY <1>3, <2>3 DEF WordInv, SaidInv
  <2> QED
    BY <2>2, <2>3
<1> QED
  BY <1>3, <1>5 DEF WordInv, ProcInv

\* From one place where nothing is done yet to the next.
LEMMA FreshGoto ==
  ASSUME WordInv, Fresh, cur.pc \notin {"error", "run", "edit"},
         NEW pc \in {"auth", "rate", "handle", "act", "announce", "launch", "answerQuery",
                     "download", "status"},
         Goto(pc), PlaceInv', UNCHANGED <<faults, said, acted, cliVars>>
  PROVE  WordInv'
<1>1. cur \in UpdatesAtHand /\ cur.pc # "over" /\ pc \in Places
  BY DEF WordInv, Fresh, Groups, Places, Waits
<1>2. To(pc, cur.back, cur.word, cur.troubles, cur.typing, cur.glass)
  BY <1>1, GotoMoves
<1>3. N' = N /\ Handler' = Handler
  BY <1>2, SameUpdateAsks DEF To
<1>4. SaidInv' /\ ProcInv' /\ DecisionInv'
  BY <1>1, <1>2, QuietTelling, NothingDecided DEF WordInv, To, cliVars
<1>5. SpareInv'
  BY <1>1, <1>2 DEF WordInv, SpareInv, Asleep, To, Fresh, Groups
<1>7. TidyInv'
  BY <1>1, <1>2, NoJobElsewhere DEF WordInv, TidyInv, To, Fresh, Groups, cliVars
<1>8. WholeInv'
  BY <1>2 DEF WordInv, WholeInv, To, Fresh, Groups
<1>9. TellInv'
  BY <1>2 DEF TellInv, To
<1>10. DoneInv'
  BY <1>2, <1>3, FreshIsUndone DEF DoneInv, To, cliVars
<1> QED
  BY <1>2, <1>4, <1>5, <1>7, <1>8, <1>9, <1>10 DEF WordInv, To

\* An update that ends before anything is done, with its word, or in silence.
LEMMA FreshEnd ==
  ASSUME WordInv, Fresh, cur.pc # "error", cur.pc # "run",
         NEW glass \in BOOLEAN, glass => cur.glass /\ cur.pc # "edit",
         To("over", cur.back, cur.word, cur.troubles, cur.typing, glass),
         UNCHANGED <<faults, acted, cliVars>>,
         \/ said' = said /\ Silent
         \/ \E word \in Words \ {"nothing", "done"} : Say(word)
  PROVE  WordInv'
<1>1. cur \in UpdatesAtHand /\ cur.pc # "over" /\ cur.n \in Numbers /\ N = cur.n
  BY AtHand DEF WordInv, Fresh, Groups
<1>3. N' = N /\ Handler' = Handler /\ Silent' = Silent
  BY SameUpdateAsks DEF To
<1>4. SaidInv' /\ ProcInv' /\ DecisionInv' /\ (said'[N] # "nothing" \/ Silent)
  <2>1. DecisionInv'
    BY NothingDecided DEF WordInv
  <2>2. CASE said' = said /\ Silent
    BY <1>1, <2>1, <2>2, QuietTelling DEF To, cliVars
  <2>3. ASSUME NEW word \in Words \ {"nothing", "done"}, Say(word)
        PROVE  SaidInv' /\ ProcInv' /\ said'[N] # "nothing"
    BY <1>1, <2>3, FreshIsUndone, SayKeeps DEF To, cliVars
  <2> QED
    BY <2>1, <2>2, <2>3
<1>5. SpareInv'
  BY <1>1 DEF WordInv, SpareInv, Asleep, To, Fresh, Groups
<1>6. PlaceInv'
  BY <1>1, <1>3 DEF WordInv, PlaceInv, To
<1>7. TidyInv'
  BY <1>1, NoJobElsewhere DEF WordInv, TidyInv, To, Fresh, Groups, cliVars
<1>8. WholeInv'
  BY DEF WordInv, WholeInv, To
<1>9. TellInv'
  BY <1>3, <1>4, FreshIsUndone DEF TellInv, To
<1>10. DoneInv'
  BY DEF DoneInv, Fresh, To, Groups
<1> QED
  BY <1>4, <1>5, <1>6, <1>7, <1>8, <1>9, <1>10 DEF WordInv, To

\* _on_error tells of a failure, and the next group finds nothing done.
LEMMA OnErrorKeeps ==
  ASSUME WordInv, OnError
  PROVE  WordInv'
<1>1. /\ cur \in UpdatesAtHand /\ cur.pc = "error" /\ cur.n \in Numbers /\ N = cur.n
      /\ cur.back \in Groups \cup {"over"} /\ cur.troubles \in Nat
      /\ acted' = acted /\ UNCHANGED cliVars
  BY AtHand DEF OnError, UpdatesAtHand
<1>2. ASSUME NEW troubles \in Nat,
             To(cur.back, cur.back, cur.word, troubles, cur.typing, cur.glass),
             \/ /\ troubles = cur.troubles /\ faults' = faults
                /\ (Say("error") /\ cur.via # "orphan") \/ (said' = said /\ cur.via = "orphan")
             \/ troubles = cur.troubles + 1 /\ Fault /\ said' = said
      PROVE  WordInv'
  <2>1. N' = N /\ Handler' = Handler /\ Silent' = Silent
    BY <1>2, SameUpdateAsks DEF To
  <2>2. SaidInv' /\ ProcInv'
    <3>1. "error" \in Words /\ "error" \notin Denials
      BY DEF Words, Denials
    <3>2. CASE said' = said
      BY <1>1, <1>2, <3>2, QuietTelling DEF To, cliVars
    <3>3. CASE Say("error")
      BY <1>1, <1>2, <3>1, <3>3, SayKeeps DEF To, cliVars
    <3> QED
      BY <1>2, <3>2, <3>3
  <2>3. DecisionInv'
    BY <1>1, NothingDecided DEF WordInv
  <2>4. SpareInv'
    BY <1>1, <1>2, UpdatesBoundsAssumption DEF WordInv, SpareInv, Asleep, To, Fault, Groups
  <2>5. PlaceInv'
    BY <1>1, <1>2, <2>1, HandlerOfKind DEF WordInv, PlaceInv, To, Groups
  <2>6. TidyInv'
    BY <1>1, <1>2, NoJobElsewhere DEF WordInv, TidyInv, SpareInv, To, Groups, cliVars
  <2>7. WholeInv'
    BY <1>1, <1>2 DEF WordInv, WholeInv, To, Groups
  <2>8. said'[N] = "error" \/ cur.via = "orphan" \/ cur'.troubles > 1
    BY <1>1, <1>2 DEF WordInv, SaidInv, SpareInv, Say, To
  <2>9. Handler \in Prompts => cur.via # "orphan"
    BY HandlerOfKind DEF WordInv, PlaceInv
  <2>10. TellInv'
    BY <1>1, <1>2, <2>1, <2>8, <2>9 DEF TellInv, To, Groups, Silent
  <2>11. DoneInv'
    BY <1>1, <1>2, <2>1 DEF WordInv, DoneInv, Fresh, To, Groups, cliVars
  <2> QED
    BY <1>2, <2>2, <2>3, <2>4, <2>5, <2>6, <2>7, <2>10, <2>11 DEF WordInv, To
<1>3. ASSUME Goto(cur.back), faults' = faults,
             (Say("error") /\ cur.via # "orphan") \/ (said' = said /\ cur.via = "orphan")
      PROVE  WordInv'
  <2>1. To(cur.back, cur.back, cur.word, cur.troubles, cur.typing, cur.glass)
    BY <1>1, <1>3, GotoMoves DEF Places
  <2> QED
    BY <1>1, <1>2, <1>3, <2>1
<1>4. CASE Fault /\ cur' = [cur EXCEPT !.pc = cur.back, !.troubles = @ + 1] /\ UNCHANGED said
  <2> DEFINE t == cur.troubles + 1
  <2>1. t \in Nat /\ t = cur.troubles + 1 /\ cur' = [cur EXCEPT !.pc = cur.back, !.troubles = t]
    BY <1>1, <1>4
  <2> HIDE DEF t
  <2>2. To(cur.back, cur.back, cur.word, t, cur.typing, cur.glass)
    BY <1>1, <2>1 DEF To, UpdatesAtHand, Places
  <2> QED
    BY <1>2, <1>4, <2>1, <2>2
<1>5. \/ /\ Goto(cur.back) /\ faults' = faults
         /\ (Say("error") /\ cur.via # "orphan") \/ (said' = said /\ cur.via = "orphan")
      \/ Fault /\ cur' = [cur EXCEPT !.pc = cur.back, !.troubles = @ + 1] /\ said' = said
  BY DEF OnError
<1> QED
  BY <1>3, <1>4, <1>5

\* A refusal is true, and when it cannot be told the next group finds nothing done.
LEMMA RefuseKeeps ==
  ASSUME WordInv, cur.pc \in {"security", "auth", "rate"},
         NEW word \in {"refused", "denied", "comeBack"},
         NEW next \in {"auth", "rate", "handle"}, Refuse(word, next),
         UNCHANGED <<acted, cliVars>>
  PROVE  WordInv'
<1>1. /\ cur \in UpdatesAtHand /\ Fresh /\ cur.n \in Numbers /\ N = cur.n /\ cur.troubles \in Nat
      /\ cur.via \in {"message", "edited"} /\ cur.pc # "over"
  BY AtHand DEF WordInv, PlaceInv, Fresh, Groups, UpdatesAtHand
<1>2. ASSUME cur' = [cur EXCEPT !.pc = "over", !.refused = TRUE], Say(word), faults' = faults
      PROVE  WordInv'
  <2>1. To("over", cur.back, cur.word, cur.troubles, cur.typing, cur.glass)
    BY <1>1, <1>2 DEF To, UpdatesAtHand, Places
  <2>2. word \in Words \ {"nothing", "done"} /\ cur.glass \in BOOLEAN
    BY <1>1 DEF Words, UpdatesAtHand
  <2> QED
    BY <1>1, <1>2, <2>1, <2>2, FreshEnd
<1>3. ASSUME Fault, said' = said,
             cur' = [cur EXCEPT !.pc = "error", !.back = next, !.refused = TRUE, !.troubles = @ + 1]
      PROVE  WordInv'
  <2> DEFINE t == cur.troubles + 1
  <2>1. /\ t \in Nat /\ t = cur.troubles + 1
        /\ cur' = [cur EXCEPT !.pc = "error", !.back = next, !.refused = TRUE, !.troubles = t]
    BY <1>1, <1>3
  <2> HIDE DEF t
  <2>2. To("error", next, cur.word, t, cur.typing, cur.glass)
    BY <1>1, <2>1, ZenonT(30) DEF To, UpdatesAtHand, Places, Groups
  <2>3. N' = N /\ Handler' = Handler
    BY <2>2, SameUpdateAsks DEF To
  <2>4. SaidInv' /\ ProcInv' /\ DecisionInv'
    BY <1>1, <1>3, <2>2, QuietTelling, NothingDecided DEF WordInv, To, cliVars
  <2>5. SpareInv'
    BY <1>1, <1>3, <2>1, <2>2, UpdatesBoundsAssumption DEF WordInv, SpareInv, Asleep, To, Fault
  <2>6. PlaceInv'
    BY <1>1, <2>2, <2>3 DEF WordInv, PlaceInv, To
  <2>7. TidyInv'
    BY <1>1, <2>1, <2>2, NoJobElsewhere DEF WordInv, TidyInv, To, cliVars
  <2>8. WholeInv'
    BY <2>2 DEF WordInv, WholeInv, To
  <2>9. TellInv'
    BY <2>2 DEF TellInv, To
  <2>10. DoneInv'
    BY <1>1, <2>2, <2>3, FreshIsUndone DEF DoneInv, To, cliVars
  <2> QED
    BY <2>2, <2>4, <2>5, <2>6, <2>7, <2>8, <2>9, <2>10 DEF WordInv, To
<1> QED
  BY <1>2, <1>3 DEF Refuse

LEMMA MiddlewaresKeep ==
  ASSUME WordInv, security_middleware \/ auth_middleware \/ rate_limit_middleware
  PROVE  WordInv'
<1>1. /\ cur \in UpdatesAtHand /\ cur.pc \in {"security", "auth", "rate"}
      /\ UNCHANGED <<acted, cliVars>> /\ Fresh
  BY AtHand DEF security_middleware, auth_middleware, rate_limit_middleware, Fresh, Groups
<1>2. cur.via \in {"message", "edited"} /\ cur.n > 0 /\ Handler \notin Approvals
  BY <1>1, HandlerOfKind DEF WordInv, PlaceInv
<1>3. ASSUME NEW pc \in {"auth", "rate", "handle"}, Goto(pc), UNCHANGED <<faults, said>>
      PROVE  WordInv'
  <2>1. To(pc, cur.back, cur.word, cur.troubles, cur.typing, cur.glass)
    BY <1>1, <1>3, GotoMoves DEF Places, Groups
  <2>2. PlaceInv'
    BY <1>2, <2>1, SameUpdateAsks DEF WordInv, PlaceInv, To
  <2> QED
    BY <1>1, <1>3, <2>2, FreshGoto
<1>4. CASE security_middleware
  <2>1. ASSUME cur.kind = "nullByte", cur' = [cur EXCEPT !.pc = "over", !.refused = TRUE],
               UNCHANGED <<faults, said>>
        PROVE  WordInv'
    <3>1. To("over", cur.back, cur.word, cur.troubles, cur.typing, cur.glass)
      BY <1>1, <2>1 DEF To, UpdatesAtHand, Places
    <3>2. Silent /\ cur.glass \in BOOLEAN
      BY <1>1, <2>1 DEF Silent, UpdatesAtHand
    <3> QED
      BY <1>1, <2>1, <3>1, <3>2, FreshEnd
  <2> QED
    BY <1>1, <1>3, <1>4, <2>1, RefuseKeeps DEF security_middleware
<1>5. CASE auth_middleware
  BY <1>1, <1>3, <1>5, RefuseKeeps, RaiseKeeps DEF auth_middleware
<1>6. CASE rate_limit_middleware
  BY <1>1, <1>3, <1>6, RefuseKeeps DEF rate_limit_middleware
<1> QED
  BY <1>4, <1>5, <1>6

\* An answer to an update for which nothing was done.
LEMMA FreshAnswer ==
  ASSUME WordInv, Fresh, cur.pc \notin {"error", "run", "edit"},
         NEW pc \in {"reply", "alert"}, NEW word \in Words \ {"nothing", "done"},
         To(pc, cur.back, word, cur.troubles, cur.typing, cur.glass),
         Fault \/ faults' = faults, UNCHANGED <<said, acted, cliVars>>
  PROVE  WordInv'
<1>1. cur.pc \notin {"over", "error", "run", "edit", "cli", "delete", "log", "send", "plain"}
  BY DEF Fresh, Groups
<1>2. \A n \in Numbers : ~jobFile'[n]
  BY <1>1, NoJobElsewhere DEF WordInv, cliVars
<1>3. SaidInv' /\ DecisionInv'
  BY <1>1, QuietTelling, NothingDecided DEF WordInv, To, cliVars
<1>4. proc' = proc /\ N' = N /\ Undone(N)' /\ N \notin acted'
  BY FreshIsUndone DEF Undone, To, N, cliVars
<1>5. word # "done" /\ Borne(N, word)'
  BY <1>4 DEF Borne
<1> QED
  BY <1>1, <1>2, <1>3, <1>4, <1>5, AnswerKeeps

\* The buttons that are left when approvals are let through reach commands for
\* everybody.
LEMMA ButtonCommands ==
  /\ \A h \in ButtonActions \ Approvals : h \in DOMAIN Command => Command[h].who = "anyone"
  /\ Prompts \cap DOMAIN Command = {}
BY DEF ButtonActions, Approvals, Command, cmd_new, cmd_status, cmd_help, Change, Report,
       Anywhere, Prompts, Prompt

LEMMA EnterKeeps ==
  ASSUME WordInv, Enter \/ EnterOwner
  PROVE  WordInv'
<1>1. /\ cur \in UpdatesAtHand /\ cur.pc = "handle" /\ Fresh /\ Handler \in DOMAIN Command
      /\ UNCHANGED <<said, acted, cliVars>>
  BY AtHand DEF Enter, EnterOwner, Fresh, Groups
<1>2. Handler \notin Approvals /\ cur.n > 0
  BY <1>1 DEF WordInv, PlaceInv
<1>3. ASSUME Answer("denied"), faults' = faults
      PROVE  WordInv'
  <2>1. "denied" \in Words \ {"nothing", "done"}
    BY DEF Words
  <2> QED
    BY <1>1, <1>3, <2>1, AnswerMoves, FreshAnswer
<1>4. ASSUME NEW pc \in {"act", "announce"}, Goto(pc), faults' = faults,
             pc = "announce" => Handler = "epic"
      PROVE  WordInv'
  <2>1. To(pc, cur.back, cur.word, cur.troubles, cur.typing, cur.glass)
    BY <1>1, <1>4, GotoMoves DEF Places, Waits
  <2>2. PlaceInv'
    BY <1>1, <1>2, <1>4, <2>1, SameUpdateAsks DEF WordInv, PlaceInv, To
  <2> QED
    BY <1>1, <1>4, <2>2, FreshGoto
<1>5. CASE Enter
  BY <1>1, <1>3, <1>4, <1>5, RaiseKeeps DEF Enter
<1>6. CASE EnterOwner
  <2>1. ASSUME cur.via # "message", Goto("over")
        PROVE  WordInv'
    <3>1. To("over", cur.back, cur.word, cur.troubles, cur.typing, cur.glass)
      BY <1>1, <2>1, GotoMoves DEF Places
    <3>2. Command[Handler].who = "owner"
      BY <1>6 DEF EnterOwner
    <3>3. cur.via \in {"edited", "button", "orphan"}
      BY <1>1, <2>1, ViasAssumption DEF UpdatesAtHand
    <3>4. cur.via = "edited"
      BY <1>1, <1>2, <3>2, <3>3, ButtonCommands, HandlerOfKind DEF WordInv, PlaceInv
    <3>5. Silent /\ cur.glass \in BOOLEAN
      BY <1>1, <3>2, <3>4 DEF Silent, UpdatesAtHand
    <3> QED
      BY <1>1, <1>6, <3>1, <3>5, FreshEnd DEF EnterOwner
  <2> QED
    BY <1>3, <1>4, <1>6, <2>1 DEF EnterOwner
<1> QED
  BY <1>5, <1>6

\* What is done for the update at hand is done before anything is said of it.
LEMMA DoingIsNotSaid ==
  ASSUME WordInv, cur.pc # "over", cur'.n = cur.n, cur'.pc # "over",
         said' = said, acted' = acted \cup {N}, UNCHANGED cliVars
  PROVE  SaidInv' /\ ProcInv' /\ DecisionInv'
<1>1. N \in Numbers /\ N = cur.n /\ N' = N /\ proc' = proc
  BY AtHand DEF N, cliVars
<1>2. SaidInv'
  BY <1>1 DEF WordInv, SaidInv, Borne, LateApproval, Undone, Did, Denials, Numbers, cliVars
<1> QED
  BY <1>1, <1>2 DEF WordInv, ProcInv, DecisionInv, Did, cliVars

LEMMA ActKeeps ==
  ASSUME WordInv, Act \/ ActInvite
  PROVE  WordInv'
<1>1. /\ cur \in UpdatesAtHand /\ cur.pc = "act" /\ Fresh /\ Handler \in DOMAIN Command
      /\ said' = said /\ UNCHANGED cliVars /\ cur.n > 0 /\ Handler \notin Approvals
  BY AtHand DEF Act, ActInvite, Fresh, Groups, WordInv, PlaceInv
<1>2. Handler \notin Prompts
  BY <1>1, ButtonCommands
<1>3. ASSUME NEW word \in {"refused", "answer", "comeBack"}, Answer(word),
             acted' = acted, faults' = faults
      PROVE  WordInv'
  <2>1. word \in Words \ {"nothing", "done"}
    BY DEF Words
  <2> QED
    BY <1>1, <1>3, <2>1, AnswerMoves, FreshAnswer
<1>4. ASSUME Answer("done"), acted' = acted \cup {N}, faults' = faults
      PROVE  WordInv'
  <2>1. "done" \in Words \ {"nothing"} /\ "done" \notin Denials
    BY DEF Words, Denials
  <2>2. To("reply", cur.back, "done", cur.troubles, cur.typing, cur.glass)
    BY <1>1, <1>4, <2>1, AnswerMoves
  <2>3. SaidInv' /\ DecisionInv'
    BY <1>1, <1>4, <2>2, DoingIsNotSaid DEF To
  <2>4. proc' = proc /\ \A n \in Numbers : ~jobFile'[n]
    BY <1>1, NoJobElsewhere DEF WordInv, cliVars
  <2> QED
    BY <1>1, <1>2, <1>4, <2>1, <2>2, <2>3, <2>4, AnswerKeeps
<1>5. ASSUME Handler \in CliCommands, Goto("launch"), acted' = acted, faults' = faults
      PROVE  WordInv'
  <2>1. To("launch", cur.back, cur.word, cur.troubles, cur.typing, cur.glass)
    BY <1>1, <1>5, GotoMoves DEF Places, Waits
  <2>2. PlaceInv'
    BY <1>1, <1>5, <2>1, SameUpdateAsks DEF WordInv, PlaceInv, To
  <2> QED
    BY <1>1, <1>5, <2>2, FreshGoto
<1>6. ASSUME Fault, Raise("over"), acted' = acted
      PROVE  WordInv'
  BY <1>1, <1>6, RaiseKeeps
<1>7. CASE Act
  BY <1>3, <1>4, <1>5, <1>6, <1>7 DEF Act
<1>8. CASE ActInvite
  BY <1>3, <1>4, <1>6, <1>8 DEF ActInvite
<1> QED
  BY <1>7, <1>8

\* A program is started for an update of which nothing was said.
LEMMA RunAutoKeeps ==
  ASSUME WordInv, Fresh, cur.pc = "launch", RunAuto(N, Handler), Goto("cli"),
         UNCHANGED <<faults, said, acted>>
  PROVE  WordInv'
<1>1. /\ cur \in UpdatesAtHand /\ cur.n \in Numbers /\ N = cur.n /\ Handler \in CliCommands
  BY AtHand DEF WordInv, PlaceInv
<1>2. To("cli", cur.back, cur.word, cur.troubles, cur.typing, cur.glass)
  BY <1>1, GotoMoves DEF Places, Waits
<1>3. N' = N /\ Handler' = Handler
  BY <1>2, SameUpdateAsks DEF To
<1>4. /\ proc' = [proc EXCEPT ![N] = [verb |-> Handler, pc |-> "running"]]
      /\ jobFile' = [jobFile EXCEPT ![N] = (Handler = "add")]
      /\ decision' = decision /\ mark' = mark /\ late' = late
  BY DEF RunAuto
<1>5. [verb |-> Handler, pc |-> "running"] \in
        [verb : Verbs \cup {"none"}, pc : {"none", "running", "worked", "zero", "nonzero"}]
  BY <1>1 DEF CliCommands, Verbs
<1>6. ProcInv'
  BY <1>4, <1>5 DEF WordInv, ProcInv
<1>7. /\ proc'[N].verb = Handler /\ proc'[N].pc = "running"
      /\ \A n \in Numbers \ {N} : proc'[n] = proc[n]
  BY <1>1, <1>4 DEF WordInv, ProcInv
<1>8. SaidInv'
  BY <1>1, <1>2, <1>3, <1>4, <1>7
     DEF WordInv, SaidInv, Borne, LateApproval, Undone, Did, Denials, To, Numbers
<1>9. DecisionInv'
  <2>1. jobFile' \in [Numbers -> BOOLEAN]
    BY <1>4 DEF WordInv, DecisionInv
  <2> QED
    BY <1>1, <1>4, <1>7, <2>1 DEF WordInv, DecisionInv, Did
<1>10. \A n \in Numbers : jobFile'[n] => n = N
  BY <1>1, <1>4, NoJobElsewhere DEF WordInv, DecisionInv
<1>11. TidyInv'
  BY <1>1, <1>2, <1>3, <1>10 DEF WordInv, TidyInv, To
<1>12. SpareInv'
  BY <1>2 DEF WordInv, SpareInv, Asleep, To
<1>13. PlaceInv'
  BY <1>1, <1>2, <1>3 DEF WordInv, PlaceInv, To
<1>14. WholeInv'
  BY <1>2 DEF WordInv, WholeInv, To
<1>15. TellInv'
  BY <1>2 DEF TellInv, To
<1>16. DoneInv'
  BY <1>1, <1>2, <1>3, <1>7, FreshIsUndone DEF DoneInv, Fresh, To, Groups
<1> QED
  BY <1>2, <1>6, <1>8, <1>9, <1>11, <1>12, <1>13, <1>14, <1>15, <1>16 DEF WordInv, To

LEMMA LaunchKeeps ==
  ASSUME WordInv, EpicAnnounced \/ Launch
  PROVE  WordInv'
<1>1. /\ cur \in UpdatesAtHand /\ cur.pc \in {"announce", "launch"} /\ Fresh /\ cur.n > 0
      /\ UNCHANGED <<said, acted>>
  BY AtHand DEF EpicAnnounced, Launch, Fresh, WordInv, PlaceInv
<1>2. CASE EpicAnnounced
  <2>1. cur.pc = "announce" /\ UNCHANGED cliVars
    BY <1>2 DEF EpicAnnounced
  <2>2. ASSUME Goto("launch"), faults' = faults, Handler = "epic"
        PROVE  WordInv'
    <3>1. To("launch", cur.back, cur.word, cur.troubles, cur.typing, cur.glass)
      BY <1>1, <2>2, GotoMoves DEF Places, Waits
    <3>2. PlaceInv'
      BY <1>1, <2>2, <3>1, SameUpdateAsks DEF WordInv, PlaceInv, To, CliCommands
    <3> QED
      BY <1>1, <2>1, <2>2, <3>2, FreshGoto
  <2>3. Handler = "epic"
    BY <2>1 DEF WordInv, PlaceInv
  <2> QED
    BY <1>1, <1>2, <2>1, <2>2, <2>3, RaiseKeeps DEF EpicAnnounced
<1>3. CASE Launch
  <2>1. cur.pc = "launch" /\ Handler \in CliCommands
    BY <1>3 DEF Launch, WordInv, PlaceInv
  <2>2. CASE RunAuto(N, Handler) /\ Goto("cli") /\ UNCHANGED faults
    BY <1>1, <2>1, <2>2, RunAutoKeeps
  <2>3. ASSUME Fault, UNCHANGED cliVars,
               \/ Raise("over") \/ Answer("failed") \/ Answer("error")
               \/ cur' = [cur EXCEPT !.pc = "alert", !.word = "failed"]
        PROVE  WordInv'
    <3>1. {"failed", "error"} \subseteq Words \ {"nothing", "done"}
      BY DEF Words
    <3> QED
      BY <1>1, <2>1, <2>3, <3>1, RaiseKeeps, AnswerMoves, AlertMoves, FreshAnswer
  <2>4. CASE /\ Fault
             /\ CASE Handler \in {"add", "runs"} -> Raise("over")
                  [] Handler \in {"ack", "relay"} -> Answer("failed")
                  [] Handler = "epic" -> Answer("error")
                  [] Handler \in Approvals -> cur' = [cur EXCEPT !.pc = "alert", !.word = "failed"]
             /\ UNCHANGED cliVars
    <3>1. \/ Raise("over") \/ Answer("failed") \/ Answer("error")
          \/ cur' = [cur EXCEPT !.pc = "alert", !.word = "failed"]
      BY <2>1, <2>4 DEF CliCommands, Approvals
    <3> QED
      BY <2>3, <2>4, <3>1
  <2> QED
    BY <1>3, <2>2, <2>4 DEF Launch
<1> QED
  BY <1>2, <1>3

\* The word that was waiting is said.
LEMMA SpokenEnd ==
  ASSUME WordInv, cur.pc \in {"reply", "alert"}, NEW word \in {cur.word, "again"}, Say(word),
         Goto("over"), UNCHANGED <<faults, acted, cliVars>>
  PROVE  WordInv'
<1>1. cur \in UpdatesAtHand /\ cur.n \in Numbers /\ N = cur.n
  BY AtHand
<1>2. To("over", cur.back, cur.word, cur.troubles, cur.typing, cur.glass)
  BY <1>1, GotoMoves DEF Places
<1>3. N' = N /\ Handler' = Handler /\ Silent' = Silent
  BY <1>2, SameUpdateAsks DEF To
<1>4. word \in Words \ {"nothing"} /\ "again" \notin Denials
  BY <1>1 DEF WordInv, TellInv, Words, UpdatesAtHand, Denials
<1>5. SaidInv' /\ ProcInv' /\ said'[N] # "nothing"
  BY <1>1, <1>2, <1>4, SayKeeps DEF WordInv, DoneInv, To, cliVars
<1>6. DecisionInv'
  BY NothingDecided DEF WordInv
<1>7. SpareInv'
  BY <1>1, <1>2 DEF WordInv, SpareInv, Asleep, To
<1>8. PlaceInv'
  BY <1>1, <1>2, <1>3 DEF WordInv, PlaceInv, To
<1>9. TidyInv'
  BY <1>2, NoJobElsewhere DEF WordInv, TidyInv, To, cliVars
<1>10. WholeInv'
  BY <1>2 DEF WordInv, WholeInv, To
<1>11. TellInv'
  BY <1>2, <1>3, <1>5 DEF WordInv, DoneInv, TellInv, To
<1>12. DoneInv'
  BY <1>2 DEF DoneInv, Fresh, To, Groups
<1> QED
  BY <1>2, <1>5, <1>6, <1>7, <1>8, <1>9, <1>10, <1>11, <1>12 DEF WordInv, To

LEMMA ReplyKeeps ==
  ASSUME WordInv, Reply \/ Alert
  PROVE  WordInv'
<1>1. /\ cur \in UpdatesAtHand /\ cur.pc \in {"reply", "alert"} /\ cur.n \in Numbers /\ N = cur.n
      /\ UNCHANGED <<acted, cliVars>> /\ cur.troubles \in Nat
  BY AtHand DEF Reply, Alert, UpdatesAtHand
<1>2. ASSUME cur.pc = "reply", Fault, said' = said,
             cur' = [cur EXCEPT !.word = "error", !.troubles = @ + 1]
      PROVE  WordInv'
  <2> DEFINE t == cur.troubles + 1
  <2>1. t \in Nat /\ t = cur.troubles + 1 /\ cur' = [cur EXCEPT !.word = "error", !.troubles = t]
    BY <1>1, <1>2
  <2> HIDE DEF t
  <2>2. To("reply", cur.back, "error", t, cur.typing, cur.glass)
    BY <1>1, <1>2, <2>1, ZenonT(30) DEF To, UpdatesAtHand, Words
  <2>3. N' = N /\ Handler' = Handler /\ Silent' = Silent
    BY <2>2, SameUpdateAsks DEF To
  <2>4. SaidInv' /\ ProcInv' /\ DecisionInv'
    BY <1>1, <1>2, <2>2, QuietTelling, NothingDecided DEF WordInv, To, cliVars
  <2>5. SpareInv'
    BY <1>1, <1>2, <2>1, <2>2, UpdatesBoundsAssumption DEF WordInv, SpareInv, Asleep, To, Fault
  <2>6. PlaceInv'
    BY <1>1, <1>2, <2>2, <2>3 DEF WordInv, PlaceInv, To
  <2>7. TidyInv'
    BY <1>1, <1>2, <2>1, <2>2, NoJobElsewhere DEF WordInv, TidyInv, To, cliVars
  <2>8. WholeInv'
    BY <1>2, <2>2 DEF WordInv, WholeInv, To
  <2>9. TellInv'
    BY <2>2 DEF TellInv, To
  <2>10. DoneInv'
    BY <1>1, <1>2, <2>2, <2>3 DEF WordInv, DoneInv, Fresh, To, Groups, Denials
  <2> QED
    BY <2>2, <2>4, <2>5, <2>6, <2>7, <2>8, <2>9, <2>10 DEF WordInv, To
<1>3. ASSUME Raise("over"), Fault \/ faults' = faults, said' = said
      PROVE  WordInv'
  BY <1>1, <1>3, RaiseKeeps
<1>4. CASE Reply
  <2>1. ASSUME Say(IF cur.via = "orphan" THEN "again" ELSE cur.word), Goto("over"), faults' = faults
        PROVE  WordInv'
    BY <1>1, <2>1, SpokenEnd
  <2> QED
    BY <1>2, <1>3, <1>4, <2>1 DEF Reply
<1>5. CASE Alert
  BY <1>1, <1>3, <1>5, SpokenEnd DEF Alert
<1> QED
  BY <1>4, <1>5

\* The job file goes when its program is no longer waited for.
LEMMA UnlinkKeeps ==
  ASSUME WordInv, cur.pc = "cli", Unlink(N), acted' = acted, late' \in {late, late \cup {N}}
  PROVE  /\ DecisionInv' /\ proc' = proc
         /\ \A n \in Numbers : ~jobFile'[n]
<1>1. /\ N \in Numbers /\ proc' = proc /\ decision' = decision /\ mark' = mark
      /\ jobFile' = [jobFile EXCEPT ![N] = FALSE]
  BY AtHand DEF Unlink
<1>2. jobFile' \in [Numbers -> BOOLEAN] /\ ~jobFile'[N]
      /\ \A n \in Numbers \ {N} : jobFile'[n] = jobFile[n]
  BY <1>1 DEF WordInv, DecisionInv
<1>3. DecisionInv'
  BY <1>1, <1>2 DEF WordInv, DecisionInv, Did
<1> QED
  BY <1>1, <1>2, <1>3 DEF WordInv, TidyInv

LEMMA CliAnswersKeep ==
  ASSUME WordInv, CliAnswered \/ CliTimeout
  PROVE  WordInv'
<1>1. /\ cur \in UpdatesAtHand /\ cur.pc = "cli" /\ Unlink(N) /\ UNCHANGED <<faults, acted>>
      /\ late' \in {late, late \cup {N}} /\ late \subseteq late'
      /\ cur.n \in Numbers /\ N = cur.n
  BY AtHand DEF CliAnswered, CliTimeout
<1>2. DecisionInv' /\ proc' = proc /\ \A n \in Numbers : ~jobFile'[n]
  BY <1>1, UnlinkKeeps
<1>3. /\ Handler \in CliCommands /\ Handler \notin Prompts
      /\ N \notin acted /\ proc[N].verb = Handler
  BY <1>1, CommandFacts DEF WordInv, PlaceInv, DoneInv
<1>4. ASSUME said' = said, NEW word \in {"done", "failed", "unsure"},
             Answer(word) \/ cur' = [cur EXCEPT !.pc = "alert", !.word = word],
             word = "done" => Did(N),
             word = "failed" => Undone(N) \/ (Handler \in Approvals /\ N \in late')
      PROVE  WordInv'
  <2>1. word \in Words \ {"nothing"} /\ (word \in Denials => word = "failed")
    BY <1>4 DEF Words, Denials
  <2>2. PICK pc \in {"reply", "alert"} :
          To(pc, cur.back, word, cur.troubles, cur.typing, cur.glass)
    BY <1>1, <1>4, <2>1, AnswerMoves, AlertMoves
  <2>3. SaidInv'
    BY <1>1, <1>2, <1>4, <2>2, QuietTelling DEF To
  <2>4. word \in Denials => Borne(N, word)'
    BY <1>1, <1>2, <1>3, <1>4, <2>1, <2>2 DEF Borne, LateApproval, Undone, To, N
  <2> QED
    BY <1>1, <1>2, <1>3, <1>4, <2>1, <2>2, <2>3, <2>4, AnswerKeeps
<1>5. ASSUME Ended(N)
      PROVE  IF proc[N].pc = "zero" THEN Did(N) ELSE Undone(N)
  BY <1>3, <1>5 DEF Ended, Did, Undone
<1>6. CASE CliAnswered
  <2>1. Ended(N) /\ late' = late
    BY <1>6 DEF CliAnswered
  <2>2. ASSUME Handler \in Approvals, Goto("verdict"), said' = said
        PROVE  WordInv'
    <3>1. To("verdict", cur.back, cur.word, cur.troubles, cur.typing, cur.glass)
      BY <1>1, <2>2, GotoMoves DEF Places, Waits
    <3>2. N' = N /\ Handler' = Handler
      BY <3>1, SameUpdateAsks DEF To
    <3>3. SaidInv' /\ ProcInv'
      BY <1>1, <1>2, <2>2, <3>1, QuietTelling DEF To
    <3>4. SpareInv'
      BY <1>1, <3>1 DEF WordInv, SpareInv, Asleep, To
    <3>5. PlaceInv'
      BY <1>1, <1>3, <2>2, <3>1, <3>2 DEF WordInv, PlaceInv, To
    <3>6. TidyInv'
      BY <1>1, <1>2, <3>1 DEF WordInv, TidyInv, To
    <3>7. WholeInv'
      BY <1>1, <3>1 DEF WordInv, WholeInv, To
    <3>8. TellInv'
      BY <3>1 DEF TellInv, To
    <3>9. DoneInv'
      BY <1>1, <1>2, <1>3, <2>1, <3>1, <3>2 DEF DoneInv, Fresh, Ended, To, Groups
    <3> QED
      BY <1>2, <3>1, <3>3, <3>4, <3>5, <3>6, <3>7, <3>8, <3>9 DEF WordInv, To
  <2>3. ASSUME Answer(IF proc[N].pc = "zero" THEN "done" ELSE "failed"), said' = said
        PROVE  WordInv'
    BY <1>4, <1>5, <2>1, <2>3
  <2>4. ASSUME proc[N].pc = "zero", Goto("over"), Say("done")
        PROVE  WordInv'
    <3>1. To("over", cur.back, cur.word, cur.troubles, cur.typing, cur.glass)
      BY <1>1, <2>4, GotoMoves DEF Places
    <3>2. N' = N /\ Handler' = Handler
      BY <3>1, SameUpdateAsks DEF To
    <3>3. Did(N) /\ "done" \in Words /\ "done" \notin Denials
      BY <2>4 DEF Did, Words, Denials
    <3>4. SaidInv' /\ ProcInv' /\ said'[N] = "done"
      BY <1>1, <1>2, <2>1, <2>4, <3>1, <3>3, SayKeeps DEF To
    <3>5. SpareInv'
      BY <1>1, <3>1 DEF WordInv, SpareInv, Asleep, To
    <3>6. PlaceInv'
      BY <1>1, <3>1, <3>2 DEF WordInv, PlaceInv, To
    <3>7. TidyInv'
      BY <1>1, <1>2, <3>1 DEF WordInv, TidyInv, To
    <3>8. WholeInv'
      BY <1>1, <3>1 DEF WordInv, WholeInv, To
    <3>9. TellInv'
      BY <1>3, <3>1, <3>2, <3>4 DEF TellInv, To
    <3>10. DoneInv'
      BY <3>1 DEF DoneInv, Fresh, To, Groups
    <3> QED
      BY <1>2, <3>1, <3>4, <3>5, <3>6, <3>7, <3>8, <3>9, <3>10 DEF WordInv, To
  <2> QED
    BY <1>6, <2>2, <2>3, <2>4 DEF CliAnswered
<1>7. CASE CliTimeout
  <2>1. N \in late' /\ said' = said
    BY <1>7 DEF CliTimeout
  <2>2. \/ Answer("unsure")
        \/ Handler \in Approvals /\ cur' = [cur EXCEPT !.pc = "alert", !.word = "failed"]
    BY <1>7 DEF CliTimeout
  <2> QED
    BY <1>4, <2>1, <2>2
<1> QED
  BY <1>6, <1>7

LEMMA ButtonsKeep ==
  ASSUME WordInv, handle_callback \/ AnswerQuery
  PROVE  WordInv'
<1>1. /\ cur \in UpdatesAtHand /\ cur.pc \in {"callback", "answerQuery"} /\ Fresh
      /\ UNCHANGED <<said, acted, cliVars>> /\ cur.n > 0
  BY AtHand DEF handle_callback, AnswerQuery, Fresh, WordInv, PlaceInv
<1>2. cur.via \in {"button", "orphan"} /\ cur.kind \in ButtonActions /\ Handler = cur.kind
  BY <1>1, HandlerOfKind DEF WordInv, PlaceInv
<1>3. ASSUME NEW pc \in {"answerQuery", "launch", "handle"}, Goto(pc), faults' = faults,
             pc = "launch" => cur.kind \in Approvals,
             pc = "answerQuery" /\ cur.kind \in Approvals => cur.user \notin Registered,
             pc = "handle" => cur.kind \notin Approvals
      PROVE  WordInv'
  <2>1. To(pc, cur.back, cur.word, cur.troubles, cur.typing, cur.glass)
    BY <1>1, <1>3, GotoMoves DEF Places, Waits, Groups
  <2>2. PlaceInv'
    BY <1>1, <1>2, <1>3, <2>1, SameUpdateAsks DEF WordInv, PlaceInv, To, Approvals, CliCommands
  <2> QED
    BY <1>1, <1>3, <2>2, FreshGoto
<1>4. ASSUME NEW word \in {"denied", "refused"}, faults' = faults,
             Answer(word) \/ cur' = [cur EXCEPT !.pc = "alert", !.word = word]
      PROVE  WordInv'
  <2>1. word \in Words \ {"nothing", "done"}
    BY DEF Words
  <2> QED
    BY <1>1, <1>4, <2>1, AnswerMoves, AlertMoves, FreshAnswer
<1>5. CASE Fault /\ Raise("over")
  BY <1>1, <1>5, RaiseKeeps
<1>6. CASE handle_callback
  BY <1>3, <1>4, <1>5, <1>6 DEF handle_callback
<1>7. CASE AnswerQuery
  <2>1. cur.pc = "answerQuery"
    BY <1>7 DEF AnswerQuery
  <2>2. ASSUME cur.user \notin Registered, Goto("over"), faults' = faults
        PROVE  WordInv'
    <3>1. To("over", cur.back, cur.word, cur.troubles, cur.typing, cur.glass)
      BY <1>1, <2>2, GotoMoves DEF Places
    <3>2. Silent /\ cur.glass \in BOOLEAN
      BY <1>1, <1>2, <2>2 DEF Silent, UpdatesAtHand
    <3> QED
      BY <1>1, <2>1, <2>2, <3>1, <3>2, FreshEnd
  <2>3. ASSUME cur.user \in Registered, Goto("handle"), faults' = faults
        PROVE  WordInv'
    BY <1>3, <2>1, <2>3 DEF WordInv, PlaceInv
  <2> QED
    BY <1>4, <1>5, <1>7, <2>2, <2>3 DEF AnswerQuery
<1> QED
  BY <1>6, <1>7

\* The verdict is what the program ended with; the mark is what was decided.
LEMMA VerdictKeeps ==
  ASSUME WordInv, Verdict
  PROVE  WordInv'
<1>1. /\ cur \in UpdatesAtHand /\ cur.pc = "verdict" /\ cur.n \in Numbers /\ N = cur.n
      /\ cur.troubles \in Nat
      /\ UNCHANGED <<proc, late, jobFile, decision, acted>>
  BY AtHand DEF Verdict, UpdatesAtHand
<1>2. PICK answered \in BOOLEAN, edited \in BOOLEAN :
        /\ ~answered \/ (cur.via = "button" /\ ~edited) => Fault
        /\ answered /\ (cur.via = "orphan" \/ edited) => UNCHANGED faults
        /\ cur.via = "orphan" => ~edited
        /\ mark' = IF edited THEN MarkOf(N) ELSE mark
        /\ said' = [said EXCEPT ![N] =
             IF answered \/ edited THEN IF proc[N].pc = "zero" THEN "done" ELSE "failed"
             ELSE @]
        /\ cur' = [cur EXCEPT !.pc = "over",
             !.troubles = @ + IF answered \/ edited THEN 0 ELSE 2]
  BY DEF Verdict
<1>3. /\ Handler \in Approvals /\ Handler \in CliCommands /\ Handler \notin Prompts
      /\ N \notin acted /\ proc[N].verb = Handler /\ Ended(N)
  BY <1>1, CommandFacts DEF WordInv, PlaceInv, DoneInv
<1>4. cur.via \in {"button", "orphan"}
  <2>1. cur.via \in {"message", "edited", "button", "orphan"}
    BY <1>1, ViasAssumption DEF UpdatesAtHand
  <2> QED
    BY <1>3, <2>1, HandlerOfKind DEF WordInv, PlaceInv
<1> DEFINE t == IF answered \/ edited THEN cur.troubles ELSE cur.troubles + 2
           word == IF proc[N].pc = "zero" THEN "done" ELSE "failed"
<1>5. /\ t \in Nat /\ cur' = [cur EXCEPT !.pc = "over", !.troubles = t]
      /\ (answered \/ edited => t = cur.troubles)
      /\ (~(answered \/ edited) => t = cur.troubles + 2)
  <2>1. CASE answered \/ edited
    <3>1. cur' = [cur EXCEPT !.pc = "over", !.troubles = cur.troubles + 0]
      BY <1>2, <2>1
    <3>2. cur.troubles + 0 = cur.troubles
      BY <1>1
    <3>3. cur' = [cur EXCEPT !.pc = "over", !.troubles = cur.troubles]
      BY <3>1, <3>2, Zenon
    <3> QED
      BY <1>1, <2>1, <3>3
  <2>2. CASE ~(answered \/ edited)
    <3>1. cur' = [cur EXCEPT !.pc = "over", !.troubles = cur.troubles + 2]
      BY <1>2, <2>2
    <3> QED
      BY <1>1, <2>2, <3>1
  <2> QED
    BY <2>1, <2>2
<1>6. /\ word \in Words \ {"nothing"}
      /\ (word = "done" => Did(N)) /\ (word \in Denials => Borne(N, word))
  BY <1>3 DEF Words, Denials, Ended, Did, Borne, Undone
<1>7. (answered \/ edited => Say(word)) /\ (~(answered \/ edited) => said' = said)
  BY <1>1, <1>2 DEF WordInv, SaidInv, Say
<1> HIDE DEF t, word
<1>8. To("over", cur.back, cur.word, t, cur.typing, cur.glass)
  BY <1>1, <1>5 DEF To, UpdatesAtHand, Places
<1>9. N' = N /\ Handler' = Handler
  BY <1>8, SameUpdateAsks DEF To
<1>10. SaidInv' /\ ProcInv' /\ (answered \/ edited => said'[N] # "nothing")
  <2>1. CASE answered \/ edited
    BY <1>1, <1>6, <1>7, <1>8, <2>1, SayKeeps DEF To
  <2>2. CASE ~(answered \/ edited)
    BY <1>1, <1>7, <1>8, <2>2, QuietTelling DEF To
  <2> QED
    BY <2>1, <2>2
<1>11. DecisionInv'
  <2>1. proc[N].pc = "zero" => decision = proc[N].verb
    BY <1>1, <1>3 DEF WordInv, DecisionInv, Did
  <2>2. mark' \in Approvals \cup {"failed", "blank"} /\ (mark' \in Approvals => decision = mark')
    BY <1>2, <1>3, <2>1 DEF MarkOf, WordInv, DecisionInv, Approvals
  <2> QED
    BY <1>1, <2>2 DEF WordInv, DecisionInv, Did
<1>12. SpareInv'
  <2>1. Fault \/ faults' = faults
    BY <1>2, <1>4
  <2>2. ~(answered \/ edited) => Fault
    BY <1>2
  <2> QED
    BY <1>1, <1>5, <1>8, <2>1, <2>2, UpdatesBoundsAssumption
       DEF WordInv, SpareInv, Asleep, To, Fault
<1>13. PlaceInv'
  BY <1>1, <1>8, <1>9 DEF WordInv, PlaceInv, To
<1>14. TidyInv'
  BY <1>1, <1>5, <1>8, NoJobElsewhere DEF WordInv, TidyInv, To
<1>15. WholeInv'
  BY <1>8 DEF WordInv, WholeInv, To
<1>16. TellInv'
  BY <1>1, <1>3, <1>5, <1>8, <1>9, <1>10 DEF TellInv, To
<1>17. DoneInv'
  BY <1>8 DEF DoneInv, Fresh, To, Groups
<1> QED
  BY <1>8, <1>10, <1>11, <1>12, <1>13, <1>14, <1>15, <1>16, <1>17 DEF WordInv, To

LEMMA PromptsKeep ==
  ASSUME WordInv, Oversized \/ Ration \/ Download \/ Status
  PROVE  WordInv'
<1>1. /\ cur \in UpdatesAtHand /\ cur.pc \in {"handle", "download", "status"} /\ Fresh
      /\ Handler \in Prompts /\ UNCHANGED <<said, acted, cliVars>> /\ cur.n > 0
  BY AtHand DEF Oversized, Ration, Download, Status, Fresh, Groups, WordInv, PlaceInv
<1>2. ASSUME NEW word \in {"refused", "comeBack", "failed"}, Answer(word), Fault \/ faults' = faults
      PROVE  WordInv'
  <2>1. word \in Words \ {"nothing", "done"}
    BY DEF Words
  <2> QED
    BY <1>1, <1>2, <2>1, AnswerMoves, FreshAnswer
<1>3. ASSUME NEW pc \in {"download", "status"}, Goto(pc), faults' = faults
      PROVE  WordInv'
  <2>1. To(pc, cur.back, cur.word, cur.troubles, cur.typing, cur.glass)
    BY <1>1, <1>3, GotoMoves DEF Places, Waits
  <2>2. PlaceInv'
    BY <1>1, <2>1, SameUpdateAsks DEF WordInv, PlaceInv, To
  <2> QED
    BY <1>1, <1>3, <2>2, FreshGoto
<1>4. CASE Fault /\ Raise("over")
  BY <1>1, <1>4, RaiseKeeps
<1>5. ASSUME cur.pc = "status", faults' = faults,
             cur' = [cur EXCEPT !.pc = "run", !.typing = TRUE, !.glass = TRUE]
      PROVE  WordInv'
  <2>1. To("run", cur.back, cur.word, cur.troubles, TRUE, TRUE)
    BY <1>1, <1>5 DEF To, UpdatesAtHand, Places, Waits
  <2>2. N' = N /\ Handler' = Handler
    BY <2>1, SameUpdateAsks DEF To
  <2>3. SaidInv' /\ ProcInv' /\ DecisionInv'
    BY <1>1, <1>5, <2>1, QuietTelling, NothingDecided DEF WordInv, To, cliVars
  <2>4. SpareInv'
    BY <1>5, <2>1 DEF WordInv, SpareInv, Asleep, To
  <2>5. PlaceInv'
    BY <1>1, <2>1, <2>2 DEF WordInv, PlaceInv, To
  <2>6. TidyInv'
    BY <1>1, <1>5, <2>1, NoJobElsewhere DEF WordInv, TidyInv, To, cliVars
  <2>7. WholeInv'
    BY <1>5, <2>1 DEF WordInv, WholeInv, To
  <2>8. TellInv'
    BY <2>1 DEF TellInv, To
  <2>9. DoneInv'
    BY <1>1, <2>1, <2>2, FreshIsUndone DEF DoneInv, Fresh, To, cliVars
  <2> QED
    BY <2>1, <2>3, <2>4, <2>5, <2>6, <2>7, <2>8, <2>9 DEF WordInv, To
<1>6. CASE Oversized
  BY <1>2, <1>6 DEF Oversized
<1>7. CASE Ration
  BY <1>2, <1>3, <1>4, <1>7 DEF Ration
<1>8. CASE Download
  BY <1>2, <1>3, <1>8 DEF Download
<1>9. CASE Status
  BY <1>4, <1>5, <1>9 DEF Status
<1> QED
  BY <1>6, <1>7, <1>8, <1>9

\* Claude's answer, or its error: the status message stays until it is replaced.
LEMMA RunKeeps ==
  ASSUME WordInv, Run
  PROVE  WordInv'
<1>1. /\ cur \in UpdatesAtHand /\ cur.pc = "run" /\ Fresh /\ Handler \in Prompts
      /\ said' = said /\ UNCHANGED cliVars /\ cur.n \in Numbers /\ N = cur.n
  BY AtHand DEF Run, Fresh, WordInv, PlaceInv
<1>2. ASSUME NEW c \in 1..MaxChunks, acted' = acted \cup {N}, faults' = faults,
             cur' = [cur EXCEPT !.pc = "delete", !.typing = FALSE, !.chunks = c]
      PROVE  WordInv'
  <2>0. c \in 0..MaxChunks /\ "delete" \in Places
    BY UpdatesBoundsAssumption DEF Places, Waits
  <2>1. /\ cur' \in UpdatesAtHand
        /\ cur'.n = cur.n /\ cur'.user = cur.user /\ cur'.kind = cur.kind /\ cur'.via = cur.via
        /\ cur'.pc = "delete" /\ cur'.troubles = cur.troubles /\ cur'.typing = FALSE
        /\ cur'.glass = cur.glass /\ cur'.chunks = c /\ cur'.at = cur.at /\ cur'.got = cur.got
    BY <1>1, <1>2, <2>0 DEF UpdatesAtHand
  <2>2. N' = N /\ Handler' = Handler
    BY <2>1, SameUpdateAsks
  <2>3. SaidInv' /\ ProcInv' /\ DecisionInv'
    BY <1>1, <1>2, <2>1, DoingIsNotSaid
  <2>4. SpareInv'
    BY <1>1, <1>2, <2>1 DEF WordInv, SpareInv, Asleep
  <2>5. PlaceInv'
    BY <1>1, <2>1, <2>2 DEF WordInv, PlaceInv
  <2>6. TidyInv'
    BY <1>1, <2>1, NoJobElsewhere DEF WordInv, TidyInv, cliVars
  <2>7. WholeInv'
    BY <1>1, <1>2, <2>1 DEF WordInv, WholeInv
  <2>8. TellInv' /\ DoneInv'
    BY <2>1 DEF TellInv, DoneInv, Fresh, Groups
  <2> QED
    BY <2>1, <2>3, <2>4, <2>5, <2>6, <2>7, <2>8 DEF WordInv
<1>3. ASSUME acted' = acted, faults' = faults, cur' = [cur EXCEPT !.pc = "edit", !.typing = FALSE]
      PROVE  WordInv'
  <2>1. To("edit", cur.back, cur.word, cur.troubles, FALSE, cur.glass)
    BY <1>1, <1>3 DEF To, UpdatesAtHand, Places, Waits
  <2>2. N' = N /\ Handler' = Handler
    BY <2>1, SameUpdateAsks DEF To
  <2>3. SaidInv' /\ ProcInv' /\ DecisionInv'
    BY <1>1, <1>3, <2>1, QuietTelling, NothingDecided DEF WordInv, To, cliVars
  <2>4. SpareInv'
    BY <1>1, <1>3, <2>1 DEF WordInv, SpareInv, Asleep, To
  <2>5. PlaceInv'
    BY <1>1, <2>1, <2>2 DEF WordInv, PlaceInv, To
  <2>6. TidyInv'
    BY <1>1, <2>1, NoJobElsewhere DEF WordInv, TidyInv, To, cliVars
  <2>7. WholeInv'
    BY <1>1, <2>1 DEF WordInv, WholeInv, To
  <2>8. TellInv'
    BY <2>1 DEF TellInv, To
  <2>9. DoneInv'
    BY <1>1, <1>3, <2>1, <2>2, FreshIsUndone DEF DoneInv, Fresh, To, cliVars
  <2> QED
    BY <2>1, <2>3, <2>4, <2>5, <2>6, <2>7, <2>8, <2>9 DEF WordInv, To
<1>4. CASE Fault /\ Raise("over") /\ acted' = acted
  BY <1>1, <1>4, RaiseKeeps
<1> QED
  BY <1>2, <1>3, <1>4 DEF Run

LEMMA StatusGoes ==
  ASSUME WordInv, EditStatus \/ DeleteStatus \/ LogCommand
  PROVE  WordInv'
<1>1. /\ cur \in UpdatesAtHand /\ cur.pc \in {"edit", "delete", "log"} /\ Handler \in Prompts
      /\ UNCHANGED <<acted, cliVars>> /\ cur.n \in Numbers /\ N = cur.n /\ cur.troubles \in Nat
  BY AtHand DEF EditStatus, DeleteStatus, LogCommand, WordInv, PlaceInv, UpdatesAtHand
<1>2. CASE Fault /\ Raise("over") /\ said' = said
  BY <1>1, <1>2, RaiseKeeps
<1>3. CASE EditStatus
  <2>1. ASSUME cur' = [cur EXCEPT !.pc = "over", !.glass = FALSE], Say("failed"), faults' = faults
        PROVE  WordInv'
    <3>1. To("over", cur.back, cur.word, cur.troubles, cur.typing, FALSE)
      BY <1>1, <2>1 DEF To, UpdatesAtHand, Places
    <3>2. cur.pc = "edit" /\ Fresh
      BY <1>3 DEF EditStatus, Fresh
    <3>3. "failed" \in Words \ {"nothing", "done"}
      BY DEF Words
    <3> QED
      BY <1>1, <2>1, <3>1, <3>2, <3>3, FreshEnd
  <2> QED
    BY <1>2, <1>3, <2>1 DEF EditStatus
<1>4. ASSUME said' = said, NEW pc, NEW troubles \in Nat, NEW glass \in BOOLEAN,
             \/ /\ cur.pc = "delete" /\ pc = "log"
                /\ \/ ~glass /\ troubles = cur.troubles /\ faults' = faults
                   \/ troubles = cur.troubles + 1 /\ Fault
             \/ /\ cur.pc = "log" /\ pc = "send" /\ troubles = cur.troubles
                /\ glass = cur.glass /\ faults' = faults,
             To(pc, cur.back, cur.word, troubles, cur.typing, glass)
      PROVE  WordInv'
  <2>2. N' = N /\ Handler' = Handler
    BY <1>4, SameUpdateAsks DEF To
  <2>3. SaidInv' /\ ProcInv' /\ DecisionInv'
    BY <1>1, <1>4, QuietTelling, NothingDecided DEF WordInv, To, cliVars
  <2>4. SpareInv'
    BY <1>1, <1>4, UpdatesBoundsAssumption DEF WordInv, SpareInv, Asleep, To, Fault
  <2>5. PlaceInv'
    BY <1>1, <1>4, <2>2 DEF WordInv, PlaceInv, To
  <2>6. TidyInv'
    BY <1>1, <1>4, NoJobElsewhere DEF WordInv, TidyInv, To, cliVars
  <2>7. WholeInv'
    BY <1>1, <1>4 DEF WordInv, WholeInv, To
  <2>8. TellInv' /\ DoneInv'
    BY <1>4 DEF TellInv, DoneInv, Fresh, To, Groups
  <2> QED
    BY <1>4, <2>3, <2>4, <2>5, <2>6, <2>7, <2>8 DEF WordInv, To
<1>5. CASE DeleteStatus
  <2>1. ASSUME cur' = [cur EXCEPT !.pc = "log", !.glass = FALSE], faults' = faults
        PROVE  WordInv'
    <3>1. To("log", cur.back, cur.word, cur.troubles, cur.typing, FALSE)
      BY <1>1, <2>1 DEF To, UpdatesAtHand, Places, Waits
    <3> QED
      BY <1>1, <1>4, <1>5, <2>1, <3>1 DEF DeleteStatus
  <2>2. ASSUME cur' = [cur EXCEPT !.pc = "log", !.troubles = @ + 1], Fault
        PROVE  WordInv'
    <3> DEFINE t == cur.troubles + 1
    <3>1. t \in Nat /\ t = cur.troubles + 1 /\ cur' = [cur EXCEPT !.pc = "log", !.troubles = t]
      BY <1>1, <2>2
    <3> HIDE DEF t
    <3>2. To("log", cur.back, cur.word, t, cur.typing, cur.glass) /\ cur.glass \in BOOLEAN
      BY <1>1, <3>1, ZenonT(30) DEF To, UpdatesAtHand, Places, Waits
    <3> QED
      BY <1>1, <1>4, <1>5, <2>2, <3>1, <3>2 DEF DeleteStatus
  <2> QED
    BY <1>5, <2>1, <2>2 DEF DeleteStatus
<1>6. CASE LogCommand
  <2>1. ASSUME Goto("send"), faults' = faults
        PROVE  WordInv'
    <3>1. To("send", cur.back, cur.word, cur.troubles, cur.typing, cur.glass) /\ cur.glass \in BOOLEAN
      BY <1>1, <2>1, GotoMoves DEF Places, Waits, UpdatesAtHand
    <3> QED
      BY <1>1, <1>4, <1>6, <2>1, <3>1 DEF LogCommand
  <2> QED
    BY <1>2, <1>6, <2>1 DEF LogCommand
<1> QED
  BY <1>3, <1>5, <1>6

\* The chunks that arrived, and the next.
LEMMA NextChunk ==
  ASSUME NEW s \in Seq(1..MaxChunks), \A k \in DOMAIN s : s[k] = k,
         NEW a \in 1..MaxChunks, a = Len(s) + 1
  PROVE  /\ Append(s, a) \in Seq(1..MaxChunks) /\ Len(Append(s, a)) = a
         /\ \A k \in DOMAIN Append(s, a) : Append(s, a)[k] = k
OBVIOUS

\* A chunk arrives once, and after the one before it.
LEMMA ChunksKeep ==
  ASSUME WordInv, SendChunk \/ SendPlain
  PROVE  WordInv'
<1>1. /\ cur \in UpdatesAtHand /\ cur.pc \in {"send", "plain"} /\ Handler \in Prompts
      /\ UNCHANGED <<acted, cliVars>> /\ cur.n \in Numbers /\ N = cur.n /\ cur.troubles \in Nat
  BY AtHand DEF SendChunk, SendPlain, WordInv, PlaceInv, UpdatesAtHand
<1>2. /\ cur.at \in 1..MaxChunks /\ cur.at = Len(cur.got) + 1 /\ cur.at <= cur.chunks
      /\ cur.chunks \in 0..MaxChunks /\ cur.at \in Nat
  BY <1>1, UpdatesBoundsAssumption DEF WordInv, WholeInv, UpdatesAtHand
<1> DEFINE got == Append(cur.got, cur.at)
<1>3. /\ got \in Seq(1..MaxChunks) /\ Len(got) = cur.at
      /\ \A k \in DOMAIN got : got[k] = k
  BY <1>1, <1>2, NextChunk DEF WordInv, WholeInv, UpdatesAtHand
<1> HIDE DEF got
<1>4. CASE Arrive /\ faults' = faults
  <2> DEFINE a == cur.at + 1
             pc == IF cur.at = cur.chunks THEN "over" ELSE "send"
  <2>1. /\ a \in 1..MaxChunks + 1 /\ a = cur.at + 1 /\ pc \in {"over", "send"}
        /\ (pc = "over" <=> cur.at = cur.chunks) /\ pc \in Places
    BY <1>2, UpdatesBoundsAssumption DEF Places, Waits
  <2>2. cur' = [cur EXCEPT !.got = got, !.at = a, !.pc = pc]
    BY <1>4 DEF Arrive, got
  <2>3. IF cur.at = cur.chunks THEN Say("answer") ELSE said' = said
    BY <1>4 DEF Arrive
  <2> HIDE DEF a, pc
  <2>4. /\ cur' \in UpdatesAtHand
        /\ cur'.n = cur.n /\ cur'.user = cur.user /\ cur'.kind = cur.kind /\ cur'.via = cur.via
        /\ cur'.pc = pc /\ cur'.troubles = cur.troubles /\ cur'.typing = cur.typing
        /\ cur'.glass = cur.glass /\ cur'.chunks = cur.chunks /\ cur'.at = a /\ cur'.got = got
    BY <1>1, <1>3, <2>1, <2>2 DEF UpdatesAtHand
  <2>5. N' = N /\ Handler' = Handler
    BY <2>4, SameUpdateAsks
  <2>6. SaidInv' /\ ProcInv' /\ (pc = "over" => said'[N] # "nothing")
    <3>1. CASE pc = "over"
      <4>1. Say("answer") /\ "answer" \in Words /\ "answer" \notin Denials
        BY <2>1, <2>3, <3>1 DEF Words, Denials
      <4> QED
        BY <1>1, <2>4, <3>1, <4>1, SayKeeps DEF cliVars
    <3>2. CASE pc # "over"
      BY <1>1, <2>1, <2>3, <2>4, <3>2, QuietTelling DEF cliVars
    <3> QED
      BY <3>1, <3>2
  <2>7. DecisionInv'
    BY <1>1, NothingDecided DEF WordInv
  <2>8. SpareInv'
    BY <1>1, <1>4, <2>1, <2>4 DEF WordInv, SpareInv, Asleep
  <2>9. PlaceInv'
    BY <1>1, <2>1, <2>4, <2>5 DEF WordInv, PlaceInv
  <2>10. TidyInv'
    BY <1>1, <2>4, NoJobElsewhere DEF WordInv, TidyInv, cliVars
  <2>11. WholeInv'
    BY <1>2, <1>3, <2>1, <2>4 DEF WholeInv
  <2>12. TellInv'
    BY <1>3, <2>1, <2>4, <2>5, <2>6 DEF TellInv
  <2>13. DoneInv'
    BY <2>1, <2>4 DEF DoneInv, Fresh, Groups
  <2> QED
    BY <2>4, <2>6, <2>7, <2>8, <2>9, <2>10, <2>11, <2>12, <2>13 DEF WordInv
<1>5. CASE RaiseUnsure
  <2>1. PICK sofar \in {cur.got, got} :
          cur' = [cur EXCEPT !.pc = "error", !.back = "over", !.troubles = @ + 1, !.got = sofar]
    <3>1. PICK arrived \in BOOLEAN :
            cur' = [cur EXCEPT !.pc = "error", !.back = "over", !.troubles = @ + 1,
                      !.got = IF arrived THEN Append(@, cur.at) ELSE @]
      BY <1>5 DEF RaiseUnsure
    <3>2. CASE arrived
      BY <3>1, <3>2 DEF got
    <3>3. CASE ~arrived
      BY <3>1, <3>3
    <3> QED
      BY <3>2, <3>3
  <2> DEFINE t == cur.troubles + 1
  <2>2. /\ t \in Nat /\ t = cur.troubles + 1
        /\ cur' = [cur EXCEPT !.pc = "error", !.back = "over", !.troubles = t, !.got = sofar]
    BY <1>1, <2>1
  <2> HIDE DEF t
  <2>3. sofar \in Seq(1..MaxChunks) /\ \A k \in DOMAIN sofar : sofar[k] = k
    BY <1>1, <1>3, <2>1 DEF WordInv, WholeInv, UpdatesAtHand
  <2>4. /\ cur' \in UpdatesAtHand
        /\ cur'.n = cur.n /\ cur'.user = cur.user /\ cur'.kind = cur.kind /\ cur'.via = cur.via
        /\ cur'.pc = "error" /\ cur'.back = "over" /\ cur'.troubles = t
        /\ cur'.typing = cur.typing /\ cur'.glass = cur.glass /\ cur'.got = sofar
    BY <1>1, <2>2, <2>3 DEF UpdatesAtHand, Places
  <2>5. N' = N /\ Handler' = Handler
    BY <2>4, SameUpdateAsks
  <2>6. Fault /\ said' = said
    BY <1>5 DEF RaiseUnsure
  <2>7. SaidInv' /\ ProcInv' /\ DecisionInv'
    BY <1>1, <2>4, <2>6, QuietTelling, NothingDecided DEF WordInv, cliVars
  <2>8. SpareInv'
    BY <1>1, <2>2, <2>4, <2>6, UpdatesBoundsAssumption DEF WordInv, SpareInv, Asleep, Fault
  <2>9. PlaceInv'
    BY <1>1, <2>4, <2>5 DEF WordInv, PlaceInv
  <2>10. TidyInv'
    BY <1>1, <2>2, <2>4, NoJobElsewhere DEF WordInv, TidyInv, cliVars
  <2>11. WholeInv'
    BY <2>3, <2>4 DEF WholeInv
  <2>12. TellInv' /\ DoneInv'
    BY <2>4 DEF TellInv, DoneInv, Fresh, Groups
  <2> QED
    BY <2>4, <2>7, <2>8, <2>9, <2>10, <2>11, <2>12 DEF WordInv
<1>6. ASSUME cur.pc = "send", Goto("plain"), UNCHANGED <<faults, said>>
      PROVE  WordInv'
  <2>1. To("plain", cur.back, cur.word, cur.troubles, cur.typing, cur.glass)
    BY <1>1, <1>6, GotoMoves DEF Places, Waits
  <2>2. N' = N /\ Handler' = Handler
    BY <2>1, SameUpdateAsks DEF To
  <2>3. SaidInv' /\ ProcInv' /\ DecisionInv'
    BY <1>1, <1>6, <2>1, QuietTelling, NothingDecided DEF WordInv, To, cliVars
  <2>4. SpareInv'
    BY <1>6, <2>1 DEF WordInv, SpareInv, Asleep, To
  <2>5. PlaceInv'
    BY <1>1, <2>1, <2>2 DEF WordInv, PlaceInv, To
  <2>6. TidyInv'
    BY <1>1, <2>1, NoJobElsewhere DEF WordInv, TidyInv, To, cliVars
  <2>7. WholeInv'
    BY <1>6, <2>1 DEF WordInv, WholeInv, To
  <2>8. TellInv' /\ DoneInv'
    BY <2>1 DEF TellInv, DoneInv, Fresh, To, Groups
  <2> QED
    BY <2>1, <2>3, <2>4, <2>5, <2>6, <2>7, <2>8 DEF WordInv, To
<1>7. CASE SendChunk
  BY <1>4, <1>5, <1>6, <1>7 DEF SendChunk
<1>8. CASE SendPlain
  BY <1>4, <1>5, <1>8 DEF SendPlain
<1> QED
  BY <1>7, <1>8

\* A new update finds nothing done, and nothing said.
LEMMA ReceiveKeeps ==
  ASSUME WordInv, NEW u \in Users, NEW kind \in Sent, NEW via \in Vias,
         Sendable(kind, via), Receive(u, kind, via)
  PROVE  WordInv'
<1>1. /\ cur.pc = "over" /\ cur.n < MaxUpdates /\ cur.n \in 0..MaxUpdates
      /\ UNCHANGED <<faults, said, acted, cliVars>>
      /\ cur' = [NoUpdate EXCEPT !.n = cur.n + 1, !.user = u, !.kind = kind, !.via = via,
                   !.pc = IF via \in {"button", "orphan"} THEN "callback" ELSE "security"]
  BY DEF Receive, WordInv, UpdatesAtHand
<1> DEFINE next == cur.n + 1
           pc == IF via \in {"button", "orphan"} THEN "callback" ELSE "security"
<1>2. /\ next \in Numbers /\ next \in 0..MaxUpdates /\ next > cur.n /\ next > 0
      /\ \A n \in Numbers : n > next => n > cur.n
      /\ pc \in Places /\ pc \in {"callback", "security"}
      /\ (pc = "callback" <=> via \in {"button", "orphan"})
  BY <1>1, MaxUpdatesAssumption DEF Numbers, Places, Groups
<1>3. cur' = [NoUpdate EXCEPT !.n = next, !.user = u, !.kind = kind, !.via = via, !.pc = pc]
  BY <1>1
<1> HIDE DEF next, pc
<1>4. NoUpdate \in UpdatesAtHand
  BY PeopleAssumption, MaxUpdatesAssumption, UpdatesBoundsAssumption
     DEF NoUpdate, UpdatesAtHand, Places, Words
<1>5. /\ cur'.n = next /\ cur'.kind = kind /\ cur'.via = via /\ cur'.pc = pc
      /\ cur'.troubles = 0 /\ cur'.typing = FALSE /\ cur'.glass = FALSE
      /\ cur'.at = 1 /\ cur'.got = <<>>
  BY <1>3 DEF NoUpdate
<1>6. cur' \in UpdatesAtHand
  BY <1>2, <1>3, <1>4 DEF UpdatesAtHand
<1>7. N' = next /\ cur.n = N /\ proc' = proc
  BY <1>1, <1>5 DEF N, cliVars
<1>8. said[next] = "nothing" /\ next \notin acted /\ proc[next] = NoProc
  BY <1>2, <1>7 DEF WordInv, SaidInv
<1>9. SaidInv'
  BY <1>1, <1>2, <1>7, <1>8 DEF WordInv, SaidInv, Borne, LateApproval, Undone, Did, cliVars
<1>10. DecisionInv' /\ ProcInv'
  BY <1>1, NothingDecided DEF WordInv, ProcInv, cliVars
<1>11. SpareInv'
  BY <1>1, <1>2, <1>5, UpdatesBoundsAssumption DEF WordInv, SpareInv, Asleep
<1>12. PlaceInv'
  <2>1. /\ via \in {"button", "orphan"} => kind \in ButtonActions
        /\ via \notin {"button", "orphan"} => kind \notin Approvals \cup {"unknownButton"}
        /\ via \in {"message", "edited", "button", "orphan"}
    BY ViasAssumption DEF Sendable
  <2> QED
    BY <1>2, <1>5, <2>1 DEF PlaceInv
<1>13. TidyInv'
  BY <1>1, <1>5, NoJobElsewhere DEF WordInv, TidyInv, cliVars
<1>14. WholeInv'
  BY <1>2, <1>5 DEF WholeInv
<1>15. TellInv'
  BY <1>2, <1>5 DEF TellInv
<1>16. DoneInv'
  BY <1>1, <1>2, <1>5, <1>7, <1>8 DEF DoneInv
<1> QED
  BY <1>6, <1>9, <1>10, <1>11, <1>12, <1>13, <1>14, <1>15, <1>16 DEF WordInv

\* A program that works on does not undo what was said of it.
LEMMA CliKeeps ==
  ASSUME WordInv, Cli, UNCHANGED pipeVars
  PROVE  WordInv'
<1>1. cur' = cur /\ acted' = acted /\ said' = said /\ faults' = faults
  BY DEF pipeVars
<1>2. PICK n \in Numbers : CliWorks(n) \/ CliRefuses(n) \/ CliEnds(n)
  BY DEF Cli
<1>3. PICK pc \in {"worked", "nonzero", "zero"} :
        /\ proc' = [proc EXCEPT ![n].pc = pc]
        /\ \/ pc \in {"worked", "nonzero"} /\ proc[n].pc = "running"
           \/ pc = "zero" /\ proc[n].pc = "worked"
        /\ \/ /\ pc = "worked" /\ proc[n].verb \in {"approve", "reject"}
              /\ decision = "open" /\ decision' = proc[n].verb
           \/ /\ pc = "worked" => proc[n].verb \notin {"approve", "reject"}
              /\ decision' = decision
        /\ jobFile' = jobFile /\ mark' = mark /\ late' = late
  BY <1>2 DEF CliWorks, CliRefuses, CliEnds, CanWork
<1>4. /\ ProcInv'
      /\ proc'[n].pc = pc /\ proc'[n].verb = proc[n].verb
      /\ \A m \in Numbers \ {n} : proc'[m] = proc[m]
  <2> DEFINE P == [verb : Verbs \cup {"none"},
                   pc : {"none", "running", "worked", "zero", "nonzero"}]
             p == [proc[n] EXCEPT !.pc = pc]
  <2>1. proc \in [Numbers -> P]
    BY DEF WordInv, ProcInv
  <2>2. p \in P /\ p.pc = pc /\ p.verb = proc[n].verb
    BY <2>1
  <2>3. proc' = [proc EXCEPT ![n] = p]
    BY <1>3
  <2> HIDE DEF P, p
  <2>4. /\ proc' \in [Numbers -> P] /\ proc'[n] = p
        /\ \A m \in Numbers \ {n} : proc'[m] = proc[m]
    BY <2>1, <2>2, <2>3
  <2> QED
    BY <2>2, <2>4 DEF ProcInv, P
<1>5. /\ proc[n] # NoProc
      /\ Did(n) => Did(n)'
      /\ proc[n].pc \notin {"none", "nonzero", "zero"}
  BY <1>3, <1>4 DEF NoProc, Did
<1>6. SaidInv'
  BY <1>1, <1>3, <1>4, <1>5 DEF WordInv, SaidInv, Borne, LateApproval, Undone, Did, N
<1>7. DecisionInv'
  <2>1. decision' \in Approvals \cup {"open"}
    BY <1>3 DEF WordInv, DecisionInv, Approvals
  <2>2. mark' \in Approvals => decision' = mark'
    BY <1>3 DEF WordInv, DecisionInv, Approvals
  <2>3. ASSUME NEW m \in Numbers, proc'[m].pc \in {"worked", "zero"}, proc'[m].verb \in Approvals
        PROVE  decision' = proc'[m].verb
    <3>1. CASE m = n
      BY <1>3, <1>4, <2>3, <3>1 DEF WordInv, DecisionInv, Did, Approvals
    <3>2. CASE m # n
      BY <1>3, <1>4, <2>3, <3>2 DEF WordInv, DecisionInv, Did, Approvals
    <3> QED
      BY <3>1, <3>2
  <2> QED
    BY <1>1, <1>3, <2>1, <2>2, <2>3 DEF WordInv, DecisionInv, Did
<1>8. DoneInv'
  <2>1. cur.pc # "over" => cur.n \in Numbers /\ N = cur.n
    BY AtHand
  <2>2. /\ N' = N /\ Handler' = Handler /\ (Fresh => cur.pc # "over")
    BY <1>1 DEF N, Handler, Fresh, Groups
  <2>3. cur.pc # "over" /\ N = n => ~Fresh /\ cur.pc # "verdict" /\ ~Undone(N)
    BY <1>3, <1>5, <2>1 DEF WordInv, DoneInv, Ended, Undone
  <2>4. cur.pc # "over" => /\ proc'[N].verb = proc[N].verb
                           /\ Did(N) => Did(N)'
                           /\ N # n => proc'[N] = proc[N]
    BY <1>1, <1>4, <1>5, <2>1, <2>2 DEF Did
  <2> QED
    BY <1>1, <1>3, <2>1, <2>2, <2>3, <2>4
       DEF WordInv, DoneInv, Fresh, Borne, LateApproval, Undone, Did, Ended
<1>9. SpareInv' /\ PlaceInv' /\ WholeInv'
  BY <1>1 DEF WordInv, SpareInv, Asleep, PlaceInv, WholeInv, Handler
<1>10. TidyInv'
  BY <1>1, <1>3 DEF WordInv, TidyInv, N
<1>11. TellInv'
  BY <1>1 DEF WordInv, TellInv, N, Handler, Silent
<1> QED
  BY <1>1, <1>4, <1>6, <1>7, <1>8, <1>9, <1>10, <1>11 DEF WordInv

\* Time, and steps of nobody.
LEMMA IdleKeeps ==
  ASSUME WordInv, cur' = cur, said' = said, acted' = acted, UNCHANGED cliVars,
         faults' = faults \/ (cur.pc = "over" /\ Fault)
  PROVE  WordInv'
<1>1. SpareInv'
  BY UpdatesBoundsAssumption DEF WordInv, SpareInv, Asleep, Fault, UpdatesAtHand
<1>2. PlaceInv' /\ TidyInv' /\ WholeInv' /\ TellInv'
  BY DEF WordInv, PlaceInv, TidyInv, WholeInv, TellInv, N, Handler, Silent, cliVars
<1>3. DoneInv' /\ SaidInv' /\ DecisionInv' /\ ProcInv'
  BY DEF WordInv, DoneInv, SaidInv, DecisionInv, ProcInv, Fresh, Borne, LateApproval, Undone, Did,
         Ended, N, Handler, cliVars
<1> QED
  BY <1>1, <1>2, <1>3 DEF WordInv

LEMMA StepWords == WordInv /\ [Next]_vars => WordInv'
<1> SUFFICES ASSUME WordInv, [Next]_vars
             PROVE  WordInv'
  OBVIOUS
<1>1. ASSUME NEW u \in Users, NEW kind \in Sent, NEW via \in Vias,
             Sendable(kind, via), Receive(u, kind, via)
      PROVE  WordInv'
  BY <1>1, ReceiveKeeps
<1>2. CASE Handle
  BY <1>2, OnErrorKeeps, MiddlewaresKeep, EnterKeeps, ActKeeps, LaunchKeeps, ReplyKeeps,
     CliAnswersKeep, ButtonsKeep, VerdictKeeps, PromptsKeep, RunKeeps, StatusGoes, ChunksKeep
     DEF Handle
<1>3. CASE Cli /\ UNCHANGED <<rateVars, pipeVars>>
  BY <1>3, CliKeeps
<1>4. CASE Time
  BY <1>4, IdleKeeps DEF Time
<1>5. CASE UNCHANGED vars
  BY <1>5, IdleKeeps DEF vars, pipeVars
<1> QED
  BY <1>1, <1>2, <1>3, <1>4, <1>5 DEF Next

LEMMA InitWords == Init => WordInv
<1> SUFFICES ASSUME Init PROVE WordInv
  OBVIOUS
<1>1. /\ cur = NoUpdate /\ faults = 0 /\ acted = {}
      /\ said = [n \in Numbers |-> "nothing"] /\ proc = [n \in Numbers |-> NoProc]
      /\ jobFile = [n \in Numbers |-> FALSE] /\ decision = "open" /\ mark = "blank"
      /\ late = {}
  BY DEF Init, CliInit
<1>2. cur \in UpdatesAtHand
  BY <1>1, PeopleAssumption, MaxUpdatesAssumption, UpdatesBoundsAssumption
     DEF NoUpdate, UpdatesAtHand, Places, Words
<1>3. /\ cur.n = 0 /\ cur.pc = "over" /\ cur.troubles = 0 /\ cur.typing = FALSE /\ cur.glass = FALSE
      /\ cur.via = "message" /\ cur.kind = "none" /\ cur.got = <<>>
  BY <1>1 DEF NoUpdate
<1>4. ProcInv
  <2>1. NoProc \in [verb : Verbs \cup {"none"},
                    pc : {"none", "running", "worked", "zero", "nonzero"}]
    BY DEF NoProc
  <2> QED
    BY <1>1, <2>1 DEF ProcInv
<1>5. SpareInv
  BY <1>1, <1>3, UpdatesBoundsAssumption DEF SpareInv, Asleep
<1>6. PlaceInv
  BY <1>3 DEF PlaceInv, Approvals
<1>7. TidyInv
  BY <1>1, <1>3 DEF TidyInv
<1>8. WholeInv
  BY <1>3 DEF WholeInv
<1>9. TellInv
  BY <1>1, <1>3 DEF TellInv, N
<1>10. DoneInv
  BY <1>3 DEF DoneInv, Fresh, Groups
<1>11. SaidInv
  BY <1>1, <1>3 DEF SaidInv, N, Words, Denials
<1>12. DecisionInv
  BY <1>1 DEF DecisionInv, Did, NoProc, Approvals
<1> QED
  BY <1>2, <1>4, <1>5, <1>6, <1>7, <1>8, <1>9, <1>10, <1>11, <1>12 DEF WordInv

LEMMA WordsHold == Spec => []WordInv
<1> QED
  BY InitWords, StepWords, PTL DEF Spec
-----------------------------------------------------------------------------
(* What is promised of the updates. *)

\* The middlewares and handlers use the limiter as it may be used: a behaviour
\* of the updates is one of the rate limiter.
THEOREM LimiterIsUsedAsMeant == Spec => RateSpec
<1>1. Init => RateInit
  BY DEF Init
<1>2. GatesInv => CurInv
  BY DEF GatesInv
<1> QED
  BY <1>1, <1>2, RateSteps, GatesHold, PTL DEF Spec, RateSpec

\* Whatever is sent, by whom, and whatever fails, no bucket grants more than
\* its time allows (rate_limiter.py:43-69).
THEOREM GrantsStayBounded == Spec => []GrantsAreBounded
<1> QED
  BY LimiterIsUsedAsMeant, RateGrants, PTL

\* The wait a user is told is long enough, to half a second, whichever middleware
\* or handler told it (rate_limit.py:28-34, command.py, message.py, media.py).
THEOREM WaitSuffices == Spec => []WaitIsEnough
<1> QED
  BY LimiterIsUsedAsMeant, RateWaits, PTL

\* "owner only, not promoted admins" (autonomy.py:1): by message, button or
\* edit, with any failure on the way, only who may use a command gets it to
\* change anything or to start a program, and no edit starts one.
THEOREM OnlyEntitled == Spec => []EntitledOnly
<1>1. GatesInv => EntitledOnly
  BY DEF GatesInv
<1> QED
  BY <1>1, GatesHold, PTL

\* Every variable of the updates keeps its type; no more goes wrong with an
\* update than failed, and one thing.
THEOREM TypeCorrect == Spec => []TypeOK
<1>1. WordInv /\ RateTypeOK => TypeOK
  <2> SUFFICES ASSUME WordInv, RateTypeOK PROVE TypeOK
    OBVIOUS
  <2>1. CliTypeOK
    BY DEF WordInv, ProcInv, DecisionInv, CliTypeOK, Approvals
  <2>2. cur.troubles \in 0..MaxFaults + 1
    BY UpdatesBoundsAssumption DEF WordInv, SpareInv, UpdatesAtHand
  <2> QED
    BY <2>1, <2>2 DEF TypeOK, WordInv, SpareInv, SaidInv, DecisionInv, UpdatesAtHand, Places
<1> QED
  BY <1>1, WordsHold, LimiterIsUsedAsMeant, RateTypeCorrect, PTL

\* core.py:171: one failure, wherever it comes, does not leave a user without a
\* word.
THEOREM FailureIsTold == Spec => []OneFailureIsTold
<1>1. WordInv => OneFailureIsTold
  BY DEF WordInv, TellInv, OneFailureIsTold
<1> QED
  BY <1>1, WordsHold, PTL

\* Whoever is told that it is done, denied or failed is told the truth, also by
\* programs that outlive their timeouts, but for an approval that took too long;
\* and a request is marked as it was decided.
THEOREM WordIsTrue == Spec => []ToldIsTrue
<1>1. WordInv => ToldIsTrue
  BY DEF WordInv, SaidInv, DecisionInv, ToldIsTrue, Denials, Borne, Undone, Did
<1> QED
  BY <1>1, WordsHold, PTL

\* The finally clauses: however a handler ends, typing, status message and job
\* file go with it, unless a failure kept the message.
THEOREM TidyAtTheEnd == Spec => []NothingLeftBehind
<1>1. WordInv => NothingLeftBehind
  BY DEF WordInv, TidyInv, NothingLeftBehind
<1> QED
  BY <1>1, WordsHold, PTL

\* formatting.py:163: for any number of chunks they arrive in order and none
\* twice, and what Claude was paid for arrives whole, or its user is told.
THEOREM AnswersArriveWhole == Spec => []AnswersAreWhole
<1>1. WordInv => AnswersAreWhole
  BY DEF WordInv, WholeInv, TellInv, AnswersAreWhole
<1> QED
  BY <1>1, WordsHold, PTL

=============================================================================
