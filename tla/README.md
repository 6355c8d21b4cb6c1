# claude-remote-bot in TLA+

claude-remote-bot is a Telegram bot (python-telegram-bot on one asyncio loop)
that runs the `claude` CLI for its users, keeps an ngrok tunnel up and tells its
administrator how the host is. This directory models the parts in which order,
failure and timing decide whether the bot is right, checks them with TLC on
small instances, and proves what matters most of them for every instance with
TLAPS. Paths below are those of the repository.

## 1. The system

`src/main.py` builds everything and wires it: storage, access manager, rate
limiter, runner and facade, event bus, tunnel manager and notifier, metrics
collector, and the Telegram application (`src/bot/core.py`), whose handlers call
the facade and the access manager. On a signal it stops the bot, the tunnel, the
collector, the bus and the storage, in that order (195-203).

Everything runs on one event loop, so the steps of the program are the stretches
between two `await`s. What interleaves is: the updates of the bot, the poll of
the tunnel, the processor of the event bus, timers, shutdown, and the processes
outside (CLIs and their MCP servers, ngrok). As `core.py:49-59` builds the
Application, with no `concurrent_updates`, python-telegram-bot handles one update
at a time; the runner, with `_CONCURRENT_LIMIT` and a handle per call, is written
for several. The models take the number of updates in flight as a parameter, and
each property says for which number it is claimed.

| component | state it keeps | operations | talks to |
|---|---|---|---|
| Claude runner `claude/sdk_integration.py` | the semaphore; a process handle per call | `run`, `_run_cli`, `_kill_process` | the CLI, its process group |
| Claude facade `claude/facade.py`, `session.py`, `monitor.py` | a session object per user; each user's cost by date (memory only) | `execute`, `new_session`, `current_session` | runner, users table |
| Tunnel manager `tunnel/manager.py` | status, URL, retry count, the ngrok process; `data/tunnel.json` | `start`, poll, fall and restart, `stop` | ngrok and its local API, the bus |
| Event bus `events/bus.py` | a queue, the subscribers | `publish`, the processor, `stop` | notifier |
| Tunnel notifier `tunnel/notifier.py` | time of the last attempt per transition | handlers of two events | Telegram |
| Access manager `security/auth.py` | none of its own | invite, redeem, revoke, set role | users and invites tables |
| Storage `storage/` | SQLite file, pool of connections, schema version | migrations, repositories | aiosqlite |
| Rate limiter `security/rate_limiter.py` | a token bucket per user and category | `check` | middleware, prompt handlers, `/invite` |
| Middlewares `bot/middleware/` | none | refuse an update or let it pass | rate limiter, access |
| Handlers `bot/handlers/` | none (the update's own) | messages, files, commands, callbacks | facade, access, limiter |
| Autonomy jobs `bot/handlers/autonomy.py` | a job file; the processes it starts | queue, list, acknowledge, relay, decide | the external `auto` and `jarvis` programs |
| Lifecycle `main.py`, `bot/core.py` | shutdown flag, polling flag | start, signal, shutdown | all of them |
| Alerts and metrics `monitor/` | samples, history file, active alerts | `collect_once`, `evaluate` | bus |
| Notification service `notifications/` | queue, dedup times, time of the last send | `send_notification`, the sender | Telegram; nothing constructs it |
| Text `bot/utils/formatting.py`, sanitizer, validators | none | pure functions | |
| Host scripts `scripts/` | a restart counter | watchdog loop, install | WSL, systemd |

What is hard in it, and what makes each part right:

* **Runner.** A call may time out while its CLI is being launched, while it
  answers, or during the second launch after a stale session. The slot must come
  back once on every path, and not before the CLI is dead; a timeout must kill
  its own call's group and no other; no CLI may go on spending after its call
  ended; a CLI that ignores SIGTERM must not hold up the callers behind it.
* **Facade.** State is read before the await on the CLI and used after it: the
  session captured at the start adopts the answer's id at the end, and `/new`,
  expiry, a change of role or midnight may come between. The cap is checked
  before the cost is known.
* **Tunnel.** ngrok falls, comes back with another URL, dies, or belongs to
  somebody else; `stop()` and crashes come in the middle of a backoff. None of the
  bot's processes may be left behind, and the events must add up to the state.
* **Bus and notifier.** Sends fail and take time, repeats are suppressed, events
  queue up behind one another, and the admin must still be told things in order.
* **Access.** Redeeming an invite is five transactions with nothing around them:
  other updates, expiry, revocation, errors, cancellations and crashes can come
  between any two.
* **Storage.** A script commits every statement at once and its version row later,
  so a kill may leave a schema that no row tells of. A failed call leaves its
  transaction open on a connection that goes back to the pool, and `close()`
  knows only the connections that lie in the pool.
* **Lifecycle.** A start may fail at any step, a signal may come during any other,
  handlers may still be at work when the pool is closed, and Telegram delivers
  again what was not confirmed.
* **Updates.** Every await of every handler may raise, at the user's cost: who was
  told that something is done, denied or failed must have been told the truth,
  also when a program outlives its timeout, a send arrives although it seemed to
  fail, a command is edited, or a button is pressed by whoever sees it.
* **Rate limiter.** Buckets are refilled by a wall clock that may be set back, and the
  wait that is told is rounded.
* **Alerts, metrics, notices, text.** Windows are pruned when somebody looks;
  what was checked before an await is recorded after it; a file is overwritten in
  place; a text is cut where it may just have been patched.

PROJECT.json lists every component with its status, and under "hazards" each
place in the code that is exposed to one of these, with the properties that
would catch it going wrong, or the reason why none does yet.

## 2. Modules

| module | what it is |
|---|---|
| `RunSlots` | abstract: calls enter, wait their turn, hold one of `Limit` slots, leave |
| `ClaudeRunner` | the runner with its process groups; implements `RunSlots` |
| `MCClaudeRunner` | symmetry of the calls, for TLC |
| `ClaudeFacade` | facade, sessions and costs, with the CLI's conversations |
| `MCClaudeFacade` | what TLC leaves out of it: a restart together with a midnight or a command |
| `TunnelManager` | the manager with ngrok's processes and the state file |
| `TunnelNotifier` | the bus and its one wired consumer |
| `TunnelSystem` | the two composed as `main.py` wires them, sharing the bus's queue |
| `Access` | invites, redemption and roles over the two tables |
| `MCAccess` | symmetry of tokens and of the users but the owner, for TLC |
| `Migrations` | the schema scripts and their version rows, statement by statement |
| `Database` | the connection pool, the repositories' transactions, SQLite from outside |
| `Lifecycle` | a run of the program from start to exit over both, and its next run |
| `RateLimiter` | token buckets under a wall clock |
| `Handlers` | what the control of each command and prompt handler is, as a table |
| `Autonomy` | the processes that `/auto`, `/ack`, `/j`, `/epic` and the approval buttons start |
| `Updates` | updates through the middlewares and those handlers, with the two above |
| `Collector`, `Alerts`, `Notices`, `SplitMessage` | four parts that share no state |
| `Parts`, `MCParts` | their disjoint union: a behaviour is one of one of them; and the texts TLC splits |
| `*_proofs` | theorems of the module they are named after |

### ClaudeRunner

`pc[c]` is where a call of `run()` is: `queued` at `async with _semaphore`,
`launch` inside `create_subprocess_exec`, `output` inside `communicate()`, and
`kill`, `grace`, `reap` in `_kill_process` before a signal, in the five seconds
after SIGTERM and after SIGKILL. `holder` is the per-call `{"proc": ...}` that
`run()` hands down, `waitq` and `free` the semaphore. A process group is
`<<call, attempt>>`; its leader is running, a zombie, or collected by asyncio
(`returncode` set), and its helpers, the MCP servers, may hold the CLI's stdout
open, which is what `communicate()` waits for. `Acquire` takes the slot and forks
with no await in between; `RetryWithoutResume` is the stale-session retry, under
the same timer and holder; `TimeoutLaunch` models asyncio, which kills the child
it is starting; `Shutdown` is the cancellation of all tasks. Signals, exits and
the child watcher are external and modelled from how the runner uses them.
`_run_sdk` has no caller and is left out, so is the parsing of the answer.

### ClaudeFacade

One update goes through `Receive` (the handler reads the role, and awaits),
`ReadLimit` (the cap, another await), `Refuse` or `Start`, and `Answer`,
`AnswerUnparsed` (output that is no JSON loses id and cost) or `Fail`. Between
`Start`'s cost check and the launch there is no await, so it is one action. A
session is an object: `/new` replaces it while an older request still holds the
old one. `conv` holds the conversations the CLI keeps on disk, in the host HOME
for admins and the sandbox HOME for others (`sdk_integration.py:280-282`); the
CLI answers in the conversation it resumed, in a copy, or in a new one. Ids are
numbers in order of creation, and 0 is the UUID a session object is born with.
`exempt`, `recent` and `crossed` are history; the last holds the sessions in which
two runs were under way at once. Text, attachments and prices are abstracted
to a cost in `0..MaxCost`.

### TunnelManager, TunnelNotifier, TunnelSystem

In `TunnelManager` everything between two awaits is one action, the publication
of the event and the save of the state file included (`SetState`). The sleep
between polls (`polling`) and the backoff before a restart (`backoff`) are where
`Stop`, `Exit` and `Crash` can come. Processes are numbers, 0 being an ngrok run
by somebody else (PM2), which answers on the same local port. The blocking calls
(`urlopen` for 2 s, `Popen.wait` for 5 s) are instantaneous here. A spawned ngrok
is taken to be running when its spawn returns and to die later, if it does.
`max_retries` is read from the settings at every start: `RetryLimit` is
`FirstRetries` in the first incarnation and `MaxRetries` in those after it, so
that one run sees the bot give up at once and also retry.
`Crash` may tear the state file.

`TunnelNotifier` takes the oldest event only when the handlers of the one before
have returned (`BusFree`), notes the attempt before it sends, and suppresses
repeats by `time.monotonic()`, with 0 for "never"; `StartTime` is how long the host has been up when the bot
starts, and `attempted` keeps, as history, every attempt. `TunnelSystem` shares `queue`
between the two, kills both in a crash, and lets the bus stop only after the
manager, as `main.py:195-203` does.

### Access

Every repository call is a transaction with its own commit, so each is an
action: `GetInvite`, `LookupUser`, `Recheck`, `Mark`, `CreateUser`. `Mark` is the
guarded UPDATE whose row count nobody looks at; `CreateUser` is a plain INSERT
whose IntegrityError leaves the row as it was. `Fail` ends a handler at any of these
calls, by an error of the database or a cancellation, before the statement or
after it; `cut` remembers the tokens whose redemption ended while it was writing,
and `overlapped` whether two updates were ever handled at once. `SetRole` is `/promote` and
`/demote`, which accept any row, the owner's included; `IsAdmin` lets the owner in
by id. `Crash` keeps what was committed. Tokens are model values: two equal
tokens of `token_hex(4)` are left out.

### Database, Migrations, Lifecycle

`UserRepository` and its three siblings in `Database` tell what each repository
method asks of the database; a call is `Borrow` (from the pool, or a connection
opened over its size), `Write` or `Select`, `Commit`, and `GiveBack`, which
nothing skips and which never rolls back. SQLite is external: one writer at a
time, a snapshot from the first read on, a write from an outdated snapshot
refused, and the driver's implicit BEGIN before a statement that then fails. A
table is the set of statements applied to it, which is enough to say what is
durable, what is seen and who locks whom out.

`Migrations` runs the three scripts a statement at a time. `executescript` commits
what is pending first, so the row of a version is committed by the next script or
by the last commit. `torn` records that the process ended in between.

`Lifecycle` is `main()` (`main`), the task of `RemoteBot.start` (`bot`, `running`) and
the handlers (`handling`). `StartParts` stands for bus, tunnel and collector, which
either start or raise; `CloseStorage` empties the pool but not the hands of a
borrower; `Hung` is the interpreter joining the thread of a connection nobody
closed. Telegram keeps an update until a later poll confirms it; systemd starts
the program again after a failure only (`scripts/install.sh:88`).

### RateLimiter, Handlers, Autonomy, Updates

`Updates` takes an update of any kind (`Sent`) and form (message, edited, button,
button whose message is gone) from any user through the groups of
python-telegram-bot: `ApplicationHandlerStop` ends it, any other exception ends its
group only, calls `_on_error`, and goes on with the next. `cur` is the update being
handled, `cur.pc` the await it is at, and each await has an action for its success
and may fail (`Fault`, at most `MaxFaults` times). `said` is the last word the user
had, `acted` the updates whose handler changed something. `Handlers` reduces each
handler to what its control needs: who may use it, whether it reads before it
acts, whether it acts, whether it can answer without acting, and through which
field it answers. What a command changes is abstracted to membership in `acted`;
the changes themselves are in `Access` and `ClaudeFacade`.

`Autonomy` has a process per update. `communicate()` times out without ending the
process (`autonomy.py:92`), so `CliWorks` may come after the handler has answered.
That such a program works at most once, and not at all when it ends with an error,
is the contract assumed of it. `CliTimeout` says what the handlers say: a command
that it did not end in time, an approval that jarvis did not run. `RateLimiter`
counts a token as 3600 credits for each tick of a second, so that per-minute and
per-hour rates refill by whole credits a tick; the wait is told in whole seconds, the
nearest (`Nearest` is what ":.0f" does, halves to the even side).

### Collector, Alerts, Notices, SplitMessage

A sample of `Collector` is the number of its taking; the file is a list, absent, or
torn. `Alerts` sees of a sample which levels are above their thresholds; `seen`
and `falls` keep, as history, what the manager has pruned, so that the properties
do not rest on its own windows. `Notices` has any callers of `send_notification` and
the sender of the queue; a message takes one part or several. `PartFails` is a
TelegramError, after which the part may have arrived all the same, and `Breaks` any
other exception, which ends a call or the sender. `SplitMessage` cuts
any of `Texts` by `split_message` or by the service's `_split`, one message a step; a
character remembers its place, so nothing lost and nothing doubled can be said.
`MCParts` gives it the texts made of up to six pieces (a fence, a letter, a newline,
a space with a word), so that long words stand behind fences too. What
`re.findall` reads is said of the places of a window: where a fence ends, and how
many letters follow.

## 3. Runs

Every constant of a run that bounds a counter is named `Max...` in the module.

| run | instance | distinct states | shows |
|---|---|---|---|
| `runner` | 3 calls, 2 slots, symmetric | 1.45 M | `AtMostLimitClis`, `OnlyOwnTimeoutKills`, `NoOrphanCli` through timeouts, the retry and shutdown |
| `runner_live` | 2 calls, 1 slot | 35 k | `EveryCallEnds`, and the refinement `RunSlotsSpec` |
| `facade` | 2 users, 2 in flight, 3 requests, cap 1, one midnight and one `/limit` or role change, or else a restart | 3.6 M | `ResumesOnlyItsOwn`, `OvershootIsBounded`, `ContextKept` |
| `tunnel_system` | 2 URLs, 2 spawns, 2 faults, 2 incarnations without and with a retry, a clock from the boot of the host past both windows | 533 k | `OwnNgrokIsKnown`, `AdminIsUpToDate`, `ToldInOrder`, `OnlyRepeatsAreSuppressed`, `NewsGetsThrough` |
| `tunnel_retries` | 1 URL, 2 retries allowed | counterexample | finding 1 |
| `access` | 3 users, 2 tokens, symmetric, 2 in flight, a change of role, an error or cancellation, a crash | 1.0 M | `OneInviteEach`, `RevokedAdmitsNobody`, `RowsAreKept`, `LostOnlyToFailure` |
| `lifecycle` | 2 runs, 2 handlers, pool of 1, 4 calls, 2 updates, a fault, a kill or failing start | 227 k | `PoolIsSound`, `OnlyFailuresSpoil`, `RecordsTellTheSchema`, `ServesOnlyWhenReady`, `NeverHandledTwice`, `StopsForAReason`, `StopsWhenTold` |
| `updates` | 3 users, 2 updates of 12 kinds and 4 forms, a fault anywhere, half minutes that pass or are set back, in quarters of a second | 1.3 M | `GrantsAreBounded`, `WaitIsEnough`, `OneFailureIsTold`, `ToldIsTrue`, `EntitledOnly`, `NothingLeftBehind`, `AnswersAreWhole` |
| `updates_refused` | 2 texts, a fault | counterexample | finding 2 |
| `parts` | history of 2, windows of 2 and 3, 2 callers and 2 chats, chunks of 10, texts of 6 pieces | 603 k | `HistoryIsTheLatest`, `AlertsAreTrue`, `DedupIsExact`, `EventsAreSpaced`, `SplitIsFaithful`, `EveryCutIsProgress` |
| `alerts_sustained` | the alert manager alone, asked at any time | counterexample | finding 3 |
| `parts_odd` | the texts of `parts` in chunks of 9 | counterexample | finding 4 |

Several properties are conjunctions of named parts, each with its comment in its
module: `AdminIsUpToDate` contains `EventsTellTheState` (what was published adds up
to the status), `NewsGetsThrough` is `ServedIsNoticed` and `EventsAreTaken`,
`OneInviteEach` is `OneUserPerToken` and `UserHasToken`, `RowsAreKept` is `RoleKept`
and `RedeemerKept` for every step, `OnlyFailuresSpoil` is `ReadsAreFresh` and
`LockoutsFollowAFailure`, `StopsForAReason` is `EndsForAReason` and
`HangsForAReason`, `AlertsAreTrue` is `CpuAlertIsTheWindow`, `InstabilityIsRecent` and
`OneShot`, `DedupIsExact` is `RepeatsOverlap` and `OnlyRepeatsAreSilenced`, and
`SplitIsFaithful` is `NothingIsLost` and `ChunksFit`.

`lifecycle`, `updates` and `parts` also check their type invariants; those of the
other modules are proved only. The
invariants that the proofs use were checked by TLC first, and so were the parts of
a property that a proof alone now states (`SlotAccounting`, `RetryStartsFresh`).

Why the bounds are enough to be of use: three calls over two slots give a queue,
two calls that can disturb one another and a slot that is used again; a group is
a call's first or second launch, and the code can make no third (that is
`RetryStartsFresh`). Three requests with two in flight let a run overtake a `/new`
and a third run see what it left, and let a cap be passed by two requests that
both read it unspent; three in a row reach a conversation that was copied, failed
and resumed. A restart forgets costs and sessions alike, so what it does to a role
or a cap of another day is left to the proofs (`RestartAlone`).
Two incarnations of the tunnel with two spawns
and two faults cover a fall and a restart in each, a crash in the backoff, a
URL that changes under a tunnel that stays up, and retries that are exhausted at
once, which the code reaches with no retries only (finding 1). The clock starts with
the host, so that first news comes within both windows of the boot and after
them. Two tokens and three users give a
race for one token and a user who holds another; an error or a cancellation is
enough to lose an invite, and the crash is left for the redemption that comes after
it, or the other way round. Passes of 29.5 and 30.25 seconds make waits that are
rounded up, down and from the half. A pool of one with two handlers
makes a connection over the size, one that waits for a lock and one that comes
back late; two runs of the program let the second find what a kill in any
statement of the first has left. Two updates are enough for everything one of
them can leave to the next (a bucket, a process that outlived its timeout, a
decided request), and the twelve kinds of `updates` hold one handler of each row
pattern of `Handlers` and of each path of its own. A history of two samples and windows of
two and three ticks are left behind well before the clocks and counters end; a
chunk of ten characters holds two fences, or one and a word, so a text of six pieces
is cut up to four times. `CHECK_DEADLOCK FALSE` stands in
the configurations whose program may stop (shutdown, ngrok and bot gone for good)
or whose bounds run out.

### Fairness

Weak fairness only, and only of what the event loop and the kernel owe:

* `ClaudeRunner!Fairness`: a call that can take a slot does; a launch returns;
  timers fire; `_kill_process` goes on; a process killed with SIGKILL is
  collected. The CLI owes nothing: it may run for ever. `TimeoutOutput` is fair because
  `wait_for` always has its timer armed.
* `TunnelManager!Fairness`: the poll loop wakes every interval, and from its
  backoff. ngrok owes nothing.
* `TunnelSystem!SysFairness`: the same, and the bus takes events, and a send is
  answered or fails; which of the two is not constrained. Telegram's client has
  timeouts (`core.py:54-56`). The humanizer has none in this repository: it runs
  in a thread, and that it returns ("can take a few seconds", `humanize.py:24`) is
  an assumption on code outside it. If it hung, the bus would wait for it.

* `Lifecycle`: `main()`, the bot task and the repository calls of the handlers go on;
  nothing is owed by Telegram, by the signal, or by a handler between two calls.
  `StopsWhenTold` therefore allows the program to hang for the open connection.

`Updates` and `Parts` state no fairness: their properties are about safety.

### Findings

1. `RetriesUntilUpOrExhausted` (`manager.py:192`): after the first restart the
   status is no longer `up`, so a restart that does not help is never retried;
   manager.py:7 promises `max_retries` attempts.
2. `RefusedIsDropped` (`rate_limit.py:34`): the refusal is sent before the middleware
   returns, and what drops the update is the stop raised after that return. If
   the reply fails, its exception takes the place of the stop, and the update
   goes on to its handler; rate_limit.py:36 says "drop update".
3. `CpuAlertIsSustained` (`alerts.py:99`): a single high sample fires the CPU alert;
   alerts.py:4 asks for "the last 5 minutes (sustained high)", and the alert's own
   text (alerts.py:107) says "for 5+ minutes". What does hold is that no sample of
   the last five minutes was below (`CpuAlertIsTheWindow`).
4. `EveryCutIsProgress` for an odd `chunk_size` (`formatting.py:110`): a fence that was
   put back is cut off again, with no more than itself; another fence stands behind
   it in the window and leaves the block open, so the same fence is put back, and the
   loop never ends. In the counterexample, in chunks of 9, what remains is the lines
   "```x" and "```x" after every cut. No caller passes an odd size: all
   use the 4000 of `bot/utils/constants.py:12`, and for an even size the loop ends
   whatever the text is (`EveryCutProgresses`), also with a word of half a chunk
   behind the fence: a cut may then leave more than there was, but those after it
   take more than that.

Read while modelling, without a run of their own:

* `sdk_integration.py:52`: when a CLI has exited but a helper keeps its stdout open,
  the call times out, `_kill_process` sees a returncode and returns, and the group
  is not signalled; the comment at 54-57 says "Signal the whole group".
* `monitor.py:33` compares the cap with the cost of the UTC day; README.md:123 and
  SECURITY.md:70 call it monthly. `CLAUDE_MAX_COST_PER_REQUEST` (README.md:122,
  SECURITY.md:69) is compared with nothing.
* `notifier.py:64` and `service.py:170`: "never sent" is 0.0 on a clock that counts
  from the host's boot, so what comes within a window of the boot is suppressed.
  `tunnel_system` starts with the host, and `OnlyRepeatsAreSuppressed` names this
  case beside the repeats.
* `auth.py:114`: the invite is marked and the user inserted in two transactions;
  auth.py:113 says "atomically". A crash, an error of the database or a cancellation
  between them uses the invite up, and `LostOnlyToFailure` says that nothing else does.
* `messages.py:130`: the wait is rounded to the nearest second, so whoever comes back
  just when told may be refused once more; half a second later they are let in
  (`WaitIsEnough`).
* SECURITY.md:42 speaks of three independent limits; every prompt also spends a
  `commands` token, and the 5 a minute of these leave the 20 of Claude unreached.
  A rate of 0, which settings accept, makes `wait_seconds` divide by zero.
* An edited command has no `update.message`: most commands take effect and then
  answer "An unexpected error occurred".
* `autonomy.py:212-214`: an approval that times out is answered "jarvis çalışmadı", as
  one whose program could not be started, though the program may still decide;
  `ToldIsTrue` names this exception. Job ids carry seconds only and may collide.
* `formatting.py:85`: fences behind the cut and the one put back by the last cut are
  counted, so a code block may flip between chunks, though formatting.py:71-72 says that
  blocks across a boundary get their fences; a closing fence makes a chunk
  up to four characters longer than the docstring says (`ChunksFit`), which stays
  within Telegram's 4096.
* `service.py:6`, "at most 1 message per second", holds of the queue only, and
  there not after a send that raised: the next part of the event follows at once,
  though the one before may have arrived. Direct notices are not spaced, and failed
  sends are recorded as sent.
* `service.py:113-124`: an exception that is no TelegramError ends the sender, and
  nothing takes from the queue any more, which `send_notification` does not notice.
* `wsl-watchdog.ps1:33` looks for a process name that the bot does not have.
* `/demote` accepts the owner's row and nothing restores it; `IsAdmin` lets the owner
  in by id all the same. Demoted admins keep the admin's command menu.

## 4. Proofs

For every value of the constants that satisfies the modules' ASSUMEs (a limit of
at least one and finitely many calls; caps, costs and bounds in Nat; None apart
from the values it stands beside):

| module | theorems | inductive invariant |
|---|---|---|
| `ClaudeRunner_proofs` | `TypeCorrect`, `SlotsAreKept`, `CliBound`, `NoOrphan`, `OwnTimeoutKills`, `RetryIsFresh`, `Refinement` | `IInv` |
| `ClaudeFacade_proofs` | `TypeCorrect`, `OwnThread`, `BoundedOvershoot`, `KeepsContext` | `IInv` = types, `SessionInv`, `RequestInv`, `ResumeInv`, `OwnerInv`; `SpendInv`; `KeptInv` |
| `TunnelManager_proofs` | `TypeCorrect`, `OwnNgrok` | `IInv` |
| `TunnelSystem_proofs` | `OwnNgrokInSystem`, `UpToDate`, `InOrder`; `OnlyRepeats` | `SysInv` = the manager's `IInv`, `OffInv`, `NewsInv`, `EventsTellTheState`, `SendInv`, `UpToDateInv`, `WindowInv` |
| `Access_proofs` | `TypeCorrect`, `RowsStand`, `OnlyFailuresLose`; `SingleUse`, `RevocationIsFinal` as long as no two updates have overlapped | `IInv`; `KnownInv`, `LostInv`; `SerialInv` |
| `Lifecycle_proofs` | `TypeCorrect`, `PoolSound`, `FailuresSpoil`, `SchemaIsAsRecorded`, `ReadyToServe`, `HandledOnce`, `StopReasons` | `IInv` = `PoolInv`, `MigInv`, `WorkInv`, `BotInv`, `AdminInv`, `StageInv`, `UpdateInv`, `CauseInv` and types |
| `Updates_proofs` | `RateTypeCorrect`, `RateGrants`, `RateWaits` of the limiter alone; `LimiterIsUsedAsMeant`, `GrantsStayBounded`, `WaitSuffices`, `OnlyEntitled`, `TypeCorrect`, `FailureIsTold`, `WordIsTrue`, `TidyAtTheEnd`, `AnswersArriveWhole` | `RateInv`; `GatesInv`; `WordInv` = types, `SpareInv`, `PlaceInv`, `TidyInv`, `WholeInv`, `TellInv`, `DoneInv`, `SaidInv`, `DecisionInv` |
| `Parts_proofs` | `PartsTypeCorrect`, `LatestSamples`, `TrueAlerts`, `ExactDedup`, `SpacedEvents`, `FaithfulSplit`; `EveryCutProgresses` for every even `ChunkSize` | `CollectorInv` (with `HistoryInv`), `AlertsInv` (with `ListsInv`), `NoticesInv` (with `DedupInv`, `QueueInv`, `SenderInv`), `SplitInv` |

Each module proves `Init => IInv` and `IInv /\ [Next]_vars => IInv'`, with a lemma
per action, and its theorems from them.

* **Runner.** The properties are about groups and signals, but what makes them
  inductive is where a call can be with respect to its holder: the waiting line
  holds exactly the queued calls, each once (`QueueInv`); a call that waits for
  output or kills has launched an attempt; the holder is the current attempt, or
  the one before while the second is being launched, and that one is collected.
  `CliBound` counts: the running leaders map one to one into the calls in a slot.
  `Refinement` maps each step to `RunSlots`: entering, the first launch and
  leaving are its steps, everything the kill and the retry do is a stutter.
* **Facade.** A session's id, once started, names a conversation of that session
  (`SessionInv`), and what a running request captured stays true whatever happens
  to the user's current session meanwhile (`RequestInv`, `ResumeInv`), because
  objects are never reused by another user (`OwnerInv`). None of it needs one
  update at a time. For the spend, every run in flight is charged in advance with
  the most it may cost (`Within`): a request is let in below the cap, and then there
  are at most `MaxInFlight` of them, so that what they add is bounded whatever the
  order in which they end, and a cap that changes in between is one of the caps the
  bound speaks of. For the thread, an answer is in the conversation of the session
  it was given in, and what a run resumes is what its session holds when it ends
  (`KeptInv`); that is true of a session in which no two runs were ever under way at
  once, whatever runs in the others, and false of one in which two were.
* **Tunnel.** The bot's live processes are at most the one its handle names, none
  in a backoff or after `stop()`, and process numbers are not used twice. What the
  admin was told is related to the status through the queue: each change starts
  where the one before it ended, the last ends at the manager's status
  (`EventsTellTheState`), and the first starts from what the message being sent, or
  the last that was, told (`Front`, `Tells`). The bus calls one handler after the
  other, so there is one message on its way at most (`SendInv`), which is what
  `ToldInOrder` rests on. The times the notifier has noted are those of attempts, or
  0 for a key it never attempted (`WindowInv`), from which `OnlyRepeats` follows for
  every `StartTime`: what is suppressed is a repeat, or comes within a window of the boot.
* **Access.** `RowsStand` comes from the guards of the two statements. An invite that
  is used up for a user without a row belongs to a redemption before its last
  statement, or to one that ended there (`LostInv`), so that only a crash, an error
  or a cancellation in between can lose it; and a user
  who was known when the redemption began still is (`KnownInv`), for no row is ever
  deleted. The serial theorems need that nothing comes between the reads and
  the writes of a redemption: until two updates overlap, the invite is still open when
  it is marked (it may have expired), and marked with the user's name when the user is inserted (`HandlerSerial`), which is
  why `SingleUse` is claimed as long as none have. With two in flight it does not hold: both may pass `Recheck` before either
  marks, and the UPDATE that touches no row is not noticed.
* **Storage and lifecycle.** For every size of the pool, set of tasks and number of
  runs. A connection is in the pool or in one task's hands, and in the hands of a
  task that is where a task may hold one (`HeldInv`, `TasksInv`); at most one is
  writing, and what a snapshot lacks of the disk is what was committed since
  (`TxInv`); a connection that was put back with a transaction open, and a write
  that met a lock, have a failed call behind them (`BlameInv`). The migrations are
  an induction over the three scripts: the versions recorded or about to be are
  1..k, each wholly on disk, and the statements of the running script before the
  next are (`MigInv`). The program's own part says which of these machines may move
  at each stage of `main()`; an update that waits is at or below the offset and was
  not handled (`UpdateInv`), and a stage reached says which cause was noted on the
  way (`CauseInv`).
* **Rate limiter.** For every rate, and a clock that passes and is set back at will:
  what a bucket granted and holds is never more than it was born with and the
  time since then refills (`BucketInv`), because two stretches of time refill what
  their sum does (`StretchesAddUp`, also for negative ones) and the cap only takes
  away. The wait that was told and half a second more cover what the bucket lacked when it
  was told (`WaitInv`, from `RoundedToNearest`), and a longer time refills no less; a clock that is set
  back ends the promise. These are theorems about `RateSpec`, in which checks come in any
  order; `LimiterIsUsedAsMeant` shows that a behaviour of `Updates` is one of
  `RateSpec`, so that they hold of every user, update and failure.
* **Entitlement.** `EntitledOnly` speaks of what was done; what makes it inductive is
  where it is decided (`GateInv`): at the awaits before a change or a program, the
  handler is a command whose user was let in, an edit has been turned away where a
  program would follow, and at the awaits around Claude there is no command.
  `FutureInv` adds that nothing is done for an update that is not there yet, and
  that a program at work was started. Who is admin is a constant of `Updates`, so
  a role that changes while a command is handled is not in this theorem.
* **What users are told.** `ToldIsTrue` compares a word with what was done, perhaps
  long after it was said: a program may outlive its handler. The place an update has
  reached says what may have been done for it (`DoneInv`): nothing before the
  change, the program started and no more while it is waited for, and what the
  word says once there is one. Said words stay true because nothing is done for an
  update after its end but by a program that outlives its timeout, and that was
  not answered with a denial (`SaidInv`). An approval that timed out was answered as
  one that failed, and is the one case the theorem leaves out. Each trouble of an update costs a fault,
  but for the last one (`SpareInv`), which is how one failure is told from two; the
  chunks that arrived are the first ones, each once (`WholeInv`).
* **Collector, alerts, notices.** While every save succeeded the file holds the last
  samples that were taken, through any number of starts; a failed save leaves them
  in order only (`HistoryInv`). The alert manager prunes its lists at every look;
  what is left of them is exactly what the window of the last sample holds, and the
  falls that are new since the last look (`ListsInv`), so nothing that was pruned
  could have counted. The time noted for a type and a chat is that of the last
  notice of its like, and a call on its way was asked for either before it or a
  window after it (`DedupInv`), for any number of callers. The sender's next message
  to a chat comes after all that arrived there (`SenderInv`), and a second after the
  last of which it knows that it arrived, once it has waited. A part whose send raised
  may have arrived unknown to it (`sure`), until it is through with the event and
  notes a time all the same.
* **Split texts.** Every cut is the first characters of what remained and then some
  that were added, and leaves some that were added and then the last ones
  (`CutInto`); between the two only a notice loses some, blanks. `CutKeeps` follows
  each character from where it is now to where it was, which keeps the order and
  shows that none is missing. That the loop ends cannot be read off one
  cut: the fence put back may be longer than what was cut off. What falls with every cut is
  twice the length of what remains less the fence at its head (`PutBack`): twice a cut
  is at least the size and two, and the fences put back before it and after it, whose
  words stand in one window (`NextFence`), are together at most the size and one. With an
  odd size twice a cut may be one less and the two equal, which is finding 4. Counts
  and searches are over any length: what a loop of the code would find is the
  least or greatest number with its property, and that there is one is
  `LeastExists`, from the well-foundedness of the natural numbers, which stands here
  for induction over data.

Only model-checked: liveness (`EveryCallEnds`, `NewsGetsThrough`, `StopsWhenTold`),
which is out of this prover's reach. Every other property of a passing run is
stated by a theorem.

## 5. What the models leave out

* What a failed or timed-out run spent: the program cannot see it, so
  `OvershootIsBounded` bounds the spend it knows of, within one incarnation.
* `ContextKept` is claimed for runs under one role, one update at a time: a change
  of role moves the user to another HOME, where the conversation does not exist.
* What the answers of handlers say, the menus, the parsing of arguments and the
  host tools of `/ssh`, `/remote` and `/status` (each a read that may fail).
* What the money and the day do beyond an incarnation: costs are in memory, so a
  restart gives every user the cap again. What is queued on the bus at a
  shutdown is not told. `urlopen` (2 s) and `Popen.wait` (5 s) block the loop, which
  is a matter of time. The state file of the tunnel may be torn by a crash and is
  then read as absent.
* How a sample is taken: its subprocesses (`who`, `journalctl`) have no timeout, and
  `SampleFails` and a loop that stays in "sampling" stand for what they do.
* The contents of tables beyond users and invites, and SQLite below its locks,
  snapshots and commits.
* The sanitizer, the conversion to HTML, the validators and the audit log: text in,
  text out.
* Downloaded files: nothing removes them, so there is nothing to be left behind by
  mistake.
* Code nothing calls at this commit: `_run_sdk`, `SessionManager.end`,
  `RateLimiter.reset`, `AgentHandler`, `AccessManager.set_access_level` and
  `deactivate_user`, and `bot/features/`. The alert manager and the notification service are not
  called either; they are modelled by their interface because they hold state
  that interleaves.
* Configuration: its values are the CONSTANTS. Host scripts: a sequence of commands
  and a loop around a process list.

## 6. Plan

The modules of the plan are written, and what they claim of safety is proved. What
is left, in order of what matters most:

1. The overshoot of two incarnations, and roles that change while a command is
   handled, which are constants of their modules now.
2. `TunnelSystem` and `Lifecycle` as implementations of abstract specifications of
   their own, as `ClaudeRunner` is of `RunSlots`: what the admin sees of a tunnel, and
   what the schema, the pool and the updates look like to somebody who only starts and
   stops the program.
