------------------------------ MODULE Database ------------------------------
(***************************************************************************)
(* src/storage/database.py under the repositories of                       *)
(* src/storage/repositories.py: the schema migrations, the connection pool *)
(* and the transactions.  A repository method borrows a connection, runs   *)
(* one statement, commits if it wrote, and returns the connection, also    *)
(* when it failed; nothing ever rolls back.                                *)
(*                                                                         *)
(* SQLite in WAL mode is modelled from the outside: one connection writes  *)
(* at a time; a transaction that has read keeps its snapshot, and may no   *)
(* longer write once somebody else has committed.  The driver opens a      *)
(* transaction before the first INSERT or UPDATE, whether that works or    *)
(* not.  What a table holds is the set of the statements applied to it.    *)
(***************************************************************************)
EXTENDS Naturals, Sequences, FiniteSets

CONSTANTS
  Tasks,      \* those that may be inside a repository method at once
  Users,
  None,
  PoolSize,   \* _POOL_SIZE
  MaxConns,   \* bound on the connections a run of the program opens
  MaxCalls,   \* bound on the repository calls
  MaxFaults   \* bound on the statements the disk or another program fails

ASSUME DatabaseAssumption ==
  /\ {PoolSize, MaxConns, MaxCalls, MaxFaults} \subseteq Nat
  /\ 0 < PoolSize /\ PoolSize <= MaxConns

-----------------------------------------------------------------------------
(* The repositories: what each method asks of the database.  "add" needs a  *)
(* user that is not there yet, "append" one that is; "redeem" is two calls. *)

UserRepository ==
  [get |-> "select", create |-> "add", upsert |-> "put", update_activity |-> "update",
   set_role |-> "update", set_access_level |-> "update", deactivate |-> "update",
   set_cost_limit |-> "update", list_active |-> "select"]

InviteRepository ==
  [create |-> "append", get |-> "select", redeem |-> "update", deactivate |-> "update",
   list_by_creator |-> "select", count_recent |-> "select"]

SessionRepository ==
  [create |-> "append", get |-> "select", get_active_for_user |-> "select",
   update_usage |-> "update", deactivate |-> "update",
   deactivate_all_for_user |-> "update", list_active_for_user |-> "select"]

CommandLogRepository ==
  [log |-> "append", recent_for_user |-> "select", purge_older_than_days |-> "update"]

KindsOf(repository) == {repository[m] : m \in DOMAIN repository}

Kinds ==
  KindsOf(UserRepository) \cup KindsOf(InviteRepository)
    \cup KindsOf(SessionRepository) \cup KindsOf(CommandLogRepository)

-----------------------------------------------------------------------------
Conns == 1..MaxConns
Calls == 1..MaxCalls
Writes == [kind : Kinds \ {"select"}, user : Users, call : Calls]

VARIABLES
  disk,    \* what is committed
  conn,    \* each connection: [open, tx, snap, own, spoiled]
  pool,    \* DatabaseManager._pool
  task,    \* each task's call: [pc, conn, kind, user, call, ok]
  calls, faults,  \* counters of the bounds
  acked,   \* history: the writes whose call returned
  failed   \* history: the calls that raised, and why

poolVars == <<disk, conn, pool, task, calls, faults, acked, failed>>

\* snap and own: what the transaction sees of others, and what it wrote.
Closed == [open |-> FALSE, tx |-> "none", snap |-> {}, own |-> {}, spoiled |-> FALSE]
Opened == [Closed EXCEPT !.open = TRUE]
Idle == [pc |-> "idle", conn |-> 0, kind |-> None, user |-> None, call |-> 0, ok |-> TRUE]

PoolTypeOK ==
  /\ disk \subseteq Writes
  /\ conn \in [Conns -> [open : BOOLEAN, tx : {"none", "begun", "read", "write"},
                         snap : SUBSET Writes, own : SUBSET Writes, spoiled : BOOLEAN]]
  /\ pool \in Seq(Conns)
  /\ task \in [Tasks -> [pc : {"idle", "borrowed", "written", "returning"}, conn : Conns \cup {0},
                         kind : Kinds \cup {None}, user : Users \cup {None},
                         call : Calls \cup {0}, ok : BOOLEAN]]
  /\ calls \in 0..MaxCalls /\ faults \in 0..MaxFaults
  /\ acked \subseteq Writes
  /\ failed \subseteq [call : Calls, why : {"constraint", "locked", "fault"}]

InitPool ==
  /\ disk = {}
  /\ conn = [c \in Conns |-> Closed]
  /\ pool = <<>>
  /\ task = [t \in Tasks |-> Idle]
  /\ calls = 0 /\ faults = 0
  /\ acked = {} /\ failed = {}

Range(s) == {s[i] : i \in DOMAIN s}

Unopened == {c \in Conns : ~conn[c].open}
FirstUnopened == CHOOSE c \in Unopened : \A d \in Unopened : c <= d

\* _fill_pool: new connections on top of whatever the pool holds.
FillPool ==
  /\ \A c \in Conns : ~conn[c].open
  /\ conn' = [c \in Conns |-> IF c <= PoolSize THEN Opened ELSE conn[c]]
  /\ pool' = pool \o [i \in 1..PoolSize |-> i]
  /\ UNCHANGED <<disk, task, calls, faults, acked, failed>>

\* close(): what is in the pool; a connection in somebody's hands is not.
\* Closing rolls an open transaction back.
ClosePool ==
  /\ conn' = [c \in Conns |-> IF c \in Range(pool) THEN Closed ELSE conn[c]]
  /\ pool' = <<>>
  /\ UNCHANGED <<disk, task, calls, faults, acked, failed>>

\* The end of the process takes the connections and what they did not commit.
LosePool ==
  /\ conn' = [c \in Conns |-> Closed]
  /\ pool' = <<>>
  /\ task' = [t \in Tasks |-> Idle]
  /\ UNCHANGED <<disk, calls, faults, acked, failed>>

-----------------------------------------------------------------------------
(* get_connection around a repository method. *)

\* (mutant) the borrowed connection stays in the pool.
TakeWithoutPop(t, kind, u) ==
  /\ pool # <<>>
  /\ task' = [task EXCEPT ![t] = [pc |-> "borrowed", conn |-> pool[Len(pool)], kind |-> kind,
                                  user |-> u, call |-> calls', ok |-> TRUE]]
  /\ UNCHANGED <<conn, pool>>

\* The last one returned is the first one taken.
TakeFromPool(t, kind, u) ==
  /\ pool # <<>>
  /\ task' = [task EXCEPT ![t] = [pc |-> "borrowed", conn |-> pool[Len(pool)], kind |-> kind,
                                  user |-> u, call |-> calls', ok |-> TRUE]]
  /\ pool' = SubSeq(pool, 1, Len(pool) - 1)
  /\ UNCHANGED conn

\* An empty pool is no reason to wait: one more connection.
OpenOverflow(t, kind, u) ==
  /\ pool = <<>>
  /\ Unopened # {}
  /\ conn' = [conn EXCEPT ![FirstUnopened] = Opened]
  /\ task' = [task EXCEPT ![t] = [pc |-> "borrowed", conn |-> FirstUnopened, kind |-> kind,
                                  user |-> u, call |-> calls', ok |-> TRUE]]
  /\ UNCHANGED pool

Borrow(t, kind, u) ==
  /\ task[t].pc = "idle"
  /\ calls < MaxCalls
  /\ calls' = calls + 1
  /\ TakeFromPool(t, kind, u) \/ OpenOverflow(t, kind, u)
  /\ UNCHANGED <<disk, faults, acked, failed>>

\* A SELECT outside a transaction sees what is committed; inside one it takes
\* the snapshot that the transaction keeps.
Seen(c) ==
  (IF conn[c].tx \in {"read", "write"} THEN conn[c].snap ELSE disk) \cup conn[c].own

HasUser(u, rows) == \E w \in rows : w.user = u /\ w.kind \in {"add", "put"}

\* PRIMARY KEY of users, FOREIGN KEY of the other tables.
Violates(kind, u, rows) ==
  \/ kind = "add" /\ HasUser(u, rows)
  \/ kind = "append" /\ ~HasUser(u, rows)

Select(t) ==
  LET c == task[t].conn IN
  /\ task[t].pc = "borrowed"
  /\ task[t].kind = "select"
  /\ conn' = IF conn[c].tx = "begun"
             THEN [conn EXCEPT ![c].tx = "read", ![c].snap = disk] ELSE conn
  /\ task' = [task EXCEPT ![t].pc = "returning"]
  /\ UNCHANGED <<disk, pool, calls, faults, acked, failed>>

LockFree(c) == \A d \in Conns \ {c} : conn[d].tx # "write"

\* A snapshot that is no longer the latest cannot be written on.
Outdated(c) == conn[c].tx = "read" /\ conn[c].snap # disk

WriteOf(t) == [kind |-> task[t].kind, user |-> task[t].user, call |-> task[t].call]

\* The statement raises.  The transaction it began stays open.
Raise(t, why, tx, snap) ==
  /\ conn' = [conn EXCEPT ![task[t].conn].tx = tx, ![task[t].conn].snap = snap,
                          ![task[t].conn].spoiled = TRUE]
  /\ task' = [task EXCEPT ![t].pc = "returning", ![t].ok = FALSE]
  /\ failed' = failed \cup {[call |-> task[t].call, why |-> why]}

Write(t) ==
  LET c == task[t].conn IN
  /\ task[t].pc = "borrowed"
  /\ task[t].kind # "select"
  /\ LockFree(c) /\ ~Outdated(c)
  /\ LET snap == IF conn[c].tx = "write" THEN conn[c].snap ELSE disk IN
     IF Violates(task[t].kind, task[t].user, snap \cup conn[c].own)
     THEN Raise(t, "constraint", "write", snap)
     ELSE /\ conn' = [conn EXCEPT ![c].tx = "write", ![c].snap = snap,
                                  ![c].own = @ \cup {WriteOf(t)}]
          /\ task' = [task EXCEPT ![t].pc = "written"]
          /\ UNCHANGED failed
  /\ UNCHANGED <<disk, pool, calls, faults, acked>>

\* "database is locked", at once on an outdated snapshot, and after the busy
\* timeout if the lock is held by a connection that nobody is using.
LockedOut(t) ==
  LET c == task[t].conn IN
  /\ task[t].pc = "borrowed"
  /\ task[t].kind # "select"
  /\ \/ Outdated(c)
     \/ \E d \in Range(pool) : conn[d].tx = "write"
  /\ Raise(t, "locked", IF conn[c].tx = "none" THEN "begun" ELSE conn[c].tx, conn[c].snap)
  /\ UNCHANGED <<disk, pool, calls, faults, acked>>

\* Another program holds the file, or the disk fails, in the statement or in
\* the commit.
Fault(t) ==
  LET c == task[t].conn IN
  /\ faults < MaxFaults
  /\ faults' = faults + 1
  /\ \/ task[t].pc = "borrowed" /\ task[t].kind # "select"
     \/ task[t].pc = "written"
  /\ Raise(t, "fault", IF conn[c].tx = "none" THEN "begun" ELSE conn[c].tx, conn[c].snap)
  /\ UNCHANGED <<disk, pool, calls, acked>>

\* (mutant) no method commits.
CommitForgotten(t) ==
  /\ task[t].pc = "written"
  /\ task' = [task EXCEPT ![t].pc = "returning"]
  /\ UNCHANGED <<disk, conn, pool, calls, faults, acked, failed>>

\* (mutant) the write is committed through another connection, and the one
\* that was borrowed stays in its transaction.
CommitElsewhere(t) ==
  LET c == task[t].conn IN
  /\ task[t].pc = "written"
  /\ disk' = disk \cup conn[c].own
  /\ conn' = [conn EXCEPT ![c].tx = "read", ![c].own = {}]
  /\ task' = [task EXCEPT ![t].pc = "returning"]
  /\ UNCHANGED <<pool, calls, faults, acked, failed>>

\* The commit takes everything the transaction holds, a stranger's too.
Commit(t) ==
  LET c == task[t].conn IN
  /\ task[t].pc = "written"
  /\ disk' = disk \cup conn[c].own
  /\ conn' = [conn EXCEPT ![c] = Opened]
  /\ task' = [task EXCEPT ![t].pc = "returning"]
  /\ UNCHANGED <<pool, calls, faults, acked, failed>>

\* (mutant) the pool takes back whatever comes.
RoomAlways == TRUE

RoomInPool == Len(pool) < PoolSize

GiveBack(t) ==
  LET c == task[t].conn IN
  /\ task[t].pc = "returning"
  /\ IF RoomInPool
     THEN pool' = Append(pool, c) /\ UNCHANGED conn
     ELSE conn' = [conn EXCEPT ![c] = Closed] /\ UNCHANGED pool
  /\ acked' = IF task[t].ok /\ task[t].kind # "select" THEN acked \cup {WriteOf(t)} ELSE acked
  /\ task' = [task EXCEPT ![t] = Idle]
  /\ UNCHANGED <<disk, calls, faults, failed>>

Working(t) == Select(t) \/ Write(t) \/ LockedOut(t) \/ Fault(t) \/ Commit(t) \/ GiveBack(t)

Call(t) == \E kind \in Kinds, u \in Users : Borrow(t, kind, u)

PoolNext == FillPool \/ ClosePool \/ LosePool \/ \E t \in Tasks : Call(t) \/ Working(t)

PoolSpec == InitPool /\ [][PoolNext]_poolVars

-----------------------------------------------------------------------------
(* Properties. *)

\* A connection is in one pair of hands, once in the pool or with one task, and
\* the pool keeps no more than its size, however many come back at once.
PoolIsSound ==
  /\ \A i, j \in DOMAIN pool : pool[i] = pool[j] => i = j
  /\ \A t \in Tasks : task[t].pc # "idle" => task[t].conn \notin Range(pool)
  /\ \A s, t \in Tasks : task[s].pc # "idle" /\ task[s].conn = task[t].conn => s = t
  /\ Len(pool) <= PoolSize

\* A read sees every write reported before it began, unless a failed call left
\* the reader's connection inside an old transaction.
ReadsAreFresh ==
  \A t \in Tasks :
    task[t].pc = "borrowed" /\ task[t].kind = "select" /\ ~conn[task[t].conn].spoiled
      => acked \subseteq Seen(task[t].conn)

\* The callers do not lock each other out: a call finds the database locked
\* only after another call failed and left its transaction open in the pool.
LockoutsFollowAFailure ==
  (\E f \in failed : f.why = "locked") => \E f \in failed : f.why # "locked"

\* Nothing but a failed call's open transaction comes between the callers.
OnlyFailuresSpoil == ReadsAreFresh /\ LockoutsFollowAFailure
=============================================================================
