---------------------------- MODULE RateLimiter ----------------------------
(***************************************************************************)
(* src/security/rate_limiter.py: a token bucket for every user and         *)
(* category, refilled by the wall clock when it is looked at.  Time is in  *)
(* ticks, finer than the whole seconds in which a user is told to wait,    *)
(* and a token is an hour of credits, so that both "n a minute" and "n an  *)
(* hour" refill by a whole number of credits a tick.                       *)
(*                                                                         *)
(* check() holds the user's lock and awaits nothing under it: it is one    *)
(* step.  The wall clock passes, and may be set back.                      *)
(***************************************************************************)
EXTENDS Integers

CONSTANTS
  Users,
  None,
  ClaudePerMin, CommandsPerMin, InvitesPerHour,  \* settings.rate_limit_*
  TicksPerSecond,
  Passes,   \* the ticks that may pass at once
  MaxTime   \* bound on the clock

ASSUME RatesAssumption == {ClaudePerMin, CommandsPerMin, InvitesPerHour} \subseteq Nat \ {0}
ASSUME TicksAssumption == TicksPerSecond \in Nat \ {0}
ASSUME PassesAssumption == Passes \subseteq Nat \ {0}
ASSUME MaxTimeAssumption == MaxTime \in Nat
ASSUME NoneIsNoTime == None \notin Int

Categories == {"claude", "commands", "invites"}
Keys == Categories \X Users
Token == 3600 * TicksPerSecond

Least(a, b) == IF a <= b THEN a ELSE b

Capacity == [claude   |-> Token * Least(ClaudePerMin, 20),
             commands |-> Token * Least(CommandsPerMin, 10),
             invites  |-> Token * InvitesPerHour]

\* Credits a tick.
Rate == [claude |-> 60 * ClaudePerMin, commands |-> 60 * CommandsPerMin, invites |-> InvitesPerHour]

VARIABLES
  bucket,  \* _buckets: [tokens, last], and as history [born, granted], or None
  now,     \* datetime.now(UTC)
  wait     \* history: by when who was refused was told to come back, or None

rateVars == <<bucket, now, wait>>

Buckets == [tokens : Int, last : Int, born : Int, granted : Nat]

ASSUME NoneIsNoBucket == None \notin Buckets

RateTypeOK ==
  /\ bucket \in [Keys -> Buckets \cup {None}]
  /\ now \in Int
  /\ wait \in [Keys -> Int \cup {None}]

RateInit ==
  /\ bucket = [k \in Keys |-> None]
  /\ now = 0
  /\ wait = [k \in Keys |-> None]

\* _get_bucket: a new bucket is full.
BucketOf(k) ==
  IF bucket[k] = None
  THEN [tokens |-> Capacity[k[1]], last |-> now, born |-> now, granted |-> 0]
  ELSE bucket[k]

\* (mutant) the elapsed time is taken without its sign.
CreditsAbs(k) ==
  LET elapsed == now - BucketOf(k).last
  IN  BucketOf(k).tokens + (IF elapsed < 0 THEN -elapsed ELSE elapsed) * Rate[k[1]]

\* _refill, before the cap.
Credits(k) == BucketOf(k).tokens + (now - BucketOf(k).last) * Rate[k[1]]

Refilled(k) ==
  [BucketOf(k) EXCEPT !.tokens = Least(Capacity[k[1]], Credits(k)), !.last = now]

Allowed(k) == Refilled(k).tokens >= Token

\* m / d, as ":.0f" writes it: to the nearest whole number, of two the even one.
Nearest(m, d) ==
  LET q == m \div d
      r == 2 * (m % d)
  IN  IF r < d \/ (r = d /\ q % 2 = 0) THEN q ELSE q + 1

\* (mutant) int(wait_seconds).
WaitTruncated(k) == (Token - Refilled(k).tokens) \div (TicksPerSecond * Rate[k[1]])

\* wait_seconds, in the whole seconds msg_rate_limited tells.
WaitSeconds(k) == Nearest(Token - Refilled(k).tokens, TicksPerSecond * Rate[k[1]])

Check(k) ==
  /\ bucket' = [bucket EXCEPT ![k] =
       IF Allowed(k)
       THEN [Refilled(k) EXCEPT !.tokens = @ - Token, !.granted = @ + 1]
       ELSE Refilled(k)]
  /\ wait' = [wait EXCEPT ![k] = IF Allowed(k) THEN None ELSE now + TicksPerSecond * WaitSeconds(k)]
  /\ UNCHANGED now

Pass ==
  /\ \E s \in Passes : now' = now + s
  /\ now' <= MaxTime
  /\ UNCHANGED <<bucket, wait>>

\* What was told no longer counts.
StepBack ==
  /\ \E s \in Passes : now' = now - s
  /\ now' >= -MaxTime
  /\ wait' = [k \in Keys |-> None]
  /\ UNCHANGED bucket

RateNext == (\E k \in Keys : Check(k)) \/ Pass \/ StepBack

RateSpec == RateInit /\ [][RateNext]_rateVars

-----------------------------------------------------------------------------
(* Properties. *)

\* "Separate buckets per user per limit category" (rate_limiter.py:3): between
\* the making of a bucket and its last look at the clock it grants no more than
\* it was born with and what that time refills, also when the clock is set back
\* and forth.
GrantsAreBounded ==
  \A k \in Keys : bucket[k] # None =>
    Token * bucket[k].granted + bucket[k].tokens
      <= Capacity[k[1]] + (bucket[k].last - bucket[k].born) * Rate[k[1]]

\* "Wait {wait_seconds:.0f}s before retrying" (messages.py:130) is the truth to
\* half a second: who comes back half a second after that time has passed is let
\* in, unless the clock was set back.
WaitIsEnough ==
  \A k \in Keys : wait[k] # None /\ 2 * (now - wait[k]) >= TicksPerSecond => Allowed(k)
=============================================================================
