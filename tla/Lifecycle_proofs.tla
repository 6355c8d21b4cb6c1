-------------------------- MODULE Lifecycle_proofs --------------------------
(***************************************************************************)
(* Lifecycle with the modules it composes, Database and Migrations, for    *)
(* any tasks, users, size of the pool and bounds: type correctness and     *)
(* every safety property of the three.                                     *)
(*                                                                         *)
(* The invariant has a part for each of the things that are at work in a   *)
(* run: MigInv for the scripts, PoolInv for the connections and the calls  *)
(* on them, and the parts of the program, that say who is at work while    *)
(* main() is where (WorkInv, BotInv, StageInv), what it has found out      *)
(* (AdminInv), what became of the updates (UpdateInv) and why a run ends   *)
(* (CauseInv).  Each has its lemma that a step keeps it.                   *)
(***************************************************************************)
EXTENDS Lifecycle, WellFoundedInduction, TLAPS

-----------------------------------------------------------------------------
(* Migrations. *)

\* How far the scripts are: the versions recorded or about to be are the first
\* ones, each wholly on disk; the script that runs is on disk up to its next
\* statement; and as long as no run was cut short in between, nothing of a later
\* one is there that could not be repeated.
MigInv ==
  /\ MigTypeOK
  /\ \A v \in versions \cup mig.pending : Objects(v) \subseteq schema
  /\ mig.pc = "pick" => versions \cup mig.pending = 1..mig.version
  /\ mig.pc = "script" =>
       /\ versions = 1..(mig.version - 1) /\ mig.version # 0
       /\ mig.next <= Len(Scripts[mig.version]) + 1
       /\ \A i \in 1..(mig.next - 1) : Scripts[mig.version][i] \in schema
  /\ mig.pc # "pick" => mig.pending = {}
  /\ mig.pc = "done" => versions = Versions
  /\ \E k \in 0..3 : versions = 1..k
  /\ mig.pc = "failed" => torn
  /\ ~torn => \A v \in Versions \ (versions \cup mig.pending) : \A i \in DOMAIN Scripts[v] :
       \/ Scripts[v][i] \in Repeatable
       \/ Scripts[v][i] \notin schema
       \/ mig.pc = "script" /\ v = mig.version /\ i < mig.next

\* The scripts of database.py, by their lengths.
LEMMA ScriptFacts ==
  /\ Versions = 1..3 /\ Len(Scripts) = 3
  /\ DOMAIN Scripts[1] = 1..5 /\ DOMAIN Scripts[2] = 1..1 /\ DOMAIN Scripts[3] = 1..1
  /\ Len(Scripts[1]) = 5 /\ Len(Scripts[2]) = 1 /\ Len(Scripts[3]) = 1
  BY DEF Versions, Scripts, SchemaV1, SchemaV2, SchemaV3

\* No two statements of the scripts create the same object.
LEMMA NoTwoScriptsMeet ==
  ASSUME NEW v \in Versions, NEW w \in Versions, NEW i \in DOMAIN Scripts[v], NEW j \in DOMAIN Scripts[w],
         Scripts[v][i] = Scripts[w][j]
  PROVE  v = w /\ i = j
  BY DEF Versions, Scripts, SchemaV1, SchemaV2, SchemaV3

\* The newest of the first k versions is the k-th.
LEMMA NewestIs ==
  ASSUME NEW k \in 0..3 PROVE Newest(1..k) = k
<1>1. CASE k = 0
  BY <1>1 DEF Newest
<1>2. CASE k # 0
  <2>1. k \in 1..k /\ \A w \in 1..k : w <= k
    BY <1>2
  <2>2. \A v \in 1..k : (\A w \in 1..k : w <= v) => v = k
    BY <2>1
  <2> QED
    BY <2>1, <2>2 DEF Newest
<1> QED
  BY <1>1, <1>2

\* A start reads the newest recorded version.
LEMMA ReadVersionKeeps == MigInv /\ ReadVersion => MigInv'
<1> SUFFICES ASSUME MigInv, ReadVersion PROVE MigInv'
  OBVIOUS
<1> DEFINE r == [mig EXCEPT !.pc = "pick", !.version = Newest(versions)]
<1>1. PICK k \in 0..3 : versions = 1..k
  BY DEF MigInv
<1>2. Newest(versions) = k
  BY <1>1, NewestIs
<1>3. mig' = r /\ mig.pc = "off" /\ UNCHANGED <<schema, versions, torn>>
  BY DEF ReadVersion
<1>4. r.pc = "pick" /\ r.version = k /\ r.pending = {} /\ r.next = mig.next
  BY <1>2, <1>3 DEF MigInv, MigTypeOK
<1>5. r \in [pc : {"off", "pick", "script", "done", "failed"},
              version : Versions \cup {0}, next : 1..6, pending : SUBSET Versions]
  <2>1. k \in Versions \cup {0} /\ mig.next \in 1..6
    BY ScriptFacts DEF MigInv, MigTypeOK
  <2>2. mig \in [pc : {"off", "pick", "script", "done", "failed"},
                version : Versions \cup {0}, next : 1..6, pending : SUBSET Versions]
    BY DEF MigInv, MigTypeOK
  <2>3. Newest(versions) \in Versions \cup {0}
    BY <1>2, <2>1
  <2> QED
    BY <2>2, <2>3
<1> HIDE DEF r
<1> QED
  BY <1>1, <1>3, <1>4, <1>5 DEF MigInv, MigTypeOK

\* The next script begins where the recorded versions end, and commits the
\* pending row.
LEMMA BeginScriptKeeps == MigInv /\ BeginScript => MigInv'
<1> SUFFICES ASSUME MigInv, BeginScript PROVE MigInv'
  OBVIOUS
<1>1. /\ mig.pc = "pick" /\ mig.version < 3 /\ mig.version \in 0..3
      /\ versions' = versions \cup mig.pending
      /\ mig' = [pc |-> "script", version |-> mig.version + 1, next |-> 1, pending |-> {}]
      /\ UNCHANGED <<schema, torn>>
  BY ScriptFacts DEF BeginScript, MigInv, MigTypeOK
<1>2. versions' = 1..mig.version
  BY <1>1 DEF MigInv
<1>3. MigTypeOK'
  BY <1>1, <1>2, ScriptFacts DEF MigInv, MigTypeOK
<1>4. Len(Scripts[mig.version + 1]) \in Nat
  BY <1>1, ScriptFacts
<1> QED
  BY <1>1, <1>2, <1>3, <1>4, SMTT(30) DEF MigInv

\* A statement adds its object, or finds it there: then an earlier run was cut
\* short in this script.
LEMMA StatementKeeps == MigInv /\ Statement => MigInv'
<1> SUFFICES ASSUME MigInv, Statement PROVE MigInv'
  OBVIOUS
<1> DEFINE v == mig.version  i == mig.next  s == Scripts[v][i]
<1>1. /\ mig.pc = "script" /\ v \in Versions /\ i \in DOMAIN Scripts[v] /\ i \in 1..5
      /\ Len(Scripts[v]) \in 1..5 /\ i <= Len(Scripts[v])
      /\ versions = 1..(v - 1) /\ mig.pending = {}
      /\ versions' = versions /\ torn' = torn
  BY ScriptFacts DEF Statement, MigInv, MigTypeOK
<1>2. CASE s \in schema \ Repeatable
  <2>1. mig' = [mig EXCEPT !.pc = "failed"] /\ schema' = schema
    BY <1>2 DEF Statement
  <2>2. torn
    BY <1>1, <1>2 DEF MigInv
  <2> QED
    BY <1>1, <2>1, <2>2 DEF MigInv, MigTypeOK
<1>3. CASE s \notin schema \ Repeatable
  <2> DEFINE r == [mig EXCEPT !.next = i + 1]
  <2>1. mig' = r /\ schema' = schema \cup {s}
    BY <1>3 DEF Statement
  <2>2. r.pc = "script" /\ r.version = v /\ r.next = i + 1 /\ r.pending = {}
    BY <1>1 DEF MigInv, MigTypeOK
  <2>3. r \in [pc : {"off", "pick", "script", "done", "failed"},
              version : Versions \cup {0}, next : 1..6, pending : SUBSET Versions]
    BY <1>1 DEF MigInv, MigTypeOK
  <2>4. s \in Objects(v)
    BY <1>1 DEF Objects
  <2> HIDE DEF r
  <2>5. MigTypeOK'
    <3>1. s \in UNION {Objects(w) : w \in Versions}
      BY <1>1, <2>4
    <3> HIDE DEF s
    <3> QED
      BY <1>1, <2>1, <2>3, <3>1 DEF MigInv, MigTypeOK
  <2>6. \A j \in 1..i : Scripts[v][j] \in schema'
    BY <1>1, <2>1 DEF MigInv
  <2>7. ASSUME ~torn, NEW w \in Versions \ versions, NEW j \in DOMAIN Scripts[w]
        PROVE  \/ Scripts[w][j] \in Repeatable
               \/ Scripts[w][j] \notin schema'
               \/ w = v /\ j < i + 1
    <3>1. j \in 1..5
      BY ScriptFacts
    <3>2. CASE Scripts[w][j] = s
      <4>1. w = v /\ j = i
        BY <1>1, <3>2, NoTwoScriptsMeet
      <4> QED
        BY <1>1, <4>1
    <3>3. CASE Scripts[w][j] # s
      <4>1. \/ Scripts[w][j] \in Repeatable
            \/ Scripts[w][j] \notin schema
            \/ w = v /\ j < i
        BY <1>1, <2>7 DEF MigInv
      <4> QED
        BY <1>1, <2>1, <3>1, <3>3, <4>1
    <3> QED
      BY <3>2, <3>3
  <2>8. \A w \in versions' \cup r.pending : Objects(w) \subseteq schema'
    BY <1>1, <2>1, <2>2 DEF MigInv
  <2>9. versions' \cup r.pending = versions
    BY <1>1, <2>2
  <2> HIDE DEF v, i, s
  <2>10. \E k \in 0..3 : versions' = 1..k
    BY <1>1 DEF MigInv
  <2>11. r.next <= Len(Scripts[v]) + 1 /\ v # 0 /\ 1..(r.next - 1) = 1..i
    BY <1>1, <2>2, ScriptFacts
  <2>12. mig'.pc = "script" /\ mig'.version = v /\ mig'.next = i + 1
         /\ mig'.pending = {} /\ versions' = versions /\ torn' = torn
    BY <1>1, <2>1, <2>2
  <2>13. ~torn' => \A w \in Versions \ (versions' \cup mig'.pending) : \A j \in DOMAIN Scripts[w] :
           \/ Scripts[w][j] \in Repeatable
           \/ Scripts[w][j] \notin schema'
           \/ mig'.pc = "script" /\ w = mig'.version /\ j < mig'.next
    BY <2>7, <2>12
  <2>14. \A j \in 1..(mig'.next - 1) : Scripts[mig'.version][j] \in schema'
    BY <1>1, <2>6, <2>12
  <2>15. /\ versions' = 1..(mig'.version - 1) /\ mig'.version # 0
         /\ mig'.next <= Len(Scripts[mig'.version]) + 1
    BY <1>1, <2>2, <2>11, <2>12
  <2> QED
    BY <2>2, <2>5, <2>8, <2>10, <2>12, <2>13, <2>14, <2>15 DEF MigInv
<1> QED
  BY <1>2, <1>3

\* A version is recorded when the last of its statements has run.
LEMMA RecordVersionKeeps == MigInv /\ RecordVersion => MigInv'
<1> SUFFICES ASSUME MigInv, RecordVersion PROVE MigInv'
  OBVIOUS
<1> DEFINE v == mig.version
           r == [mig EXCEPT !.pc = "pick", !.pending = mig.pending \cup {v}]
<1>1. /\ mig.pc = "script" /\ v \in 1..3 /\ v \in Versions /\ mig.next \in 1..6
      /\ Len(Scripts[v]) \in 1..5 /\ DOMAIN Scripts[v] = 1..Len(Scripts[v])
      /\ mig.next = Len(Scripts[v]) + 1
      /\ versions = 1..(v - 1) /\ mig.pending = {}
      /\ versions' = versions /\ torn' = torn /\ schema' = schema /\ mig' = r
  BY ScriptFacts DEF RecordVersion, MigInv, MigTypeOK
<1>2. r.pc = "pick" /\ r.version = v /\ r.next = mig.next /\ r.pending = {v}
  BY <1>1 DEF MigInv, MigTypeOK
<1>3. r \in [pc : {"off", "pick", "script", "done", "failed"},
              version : Versions \cup {0}, next : 1..6, pending : SUBSET Versions]
  BY <1>1 DEF MigInv, MigTypeOK
<1>4. Objects(v) \subseteq schema
  BY <1>1 DEF MigInv, Objects
<1>5. versions' \cup r.pending = 1..v
  BY <1>1, <1>2
<1> HIDE DEF r, v
<1>6. MigTypeOK'
  BY <1>1, <1>3 DEF MigInv, MigTypeOK
<1>7. \A w \in versions' \cup r.pending : Objects(w) \subseteq schema
  BY <1>1, <1>2, <1>4 DEF MigInv
<1>8. \E k \in 0..3 : versions' = 1..k
  BY <1>1 DEF MigInv
<1>9. ASSUME ~torn, NEW w \in Versions \ (1..v), NEW j \in DOMAIN Scripts[w]
      PROVE  Scripts[w][j] \in Repeatable \/ Scripts[w][j] \notin schema
  <2>1. w \in Versions \ (versions \cup mig.pending) /\ w # mig.version
    BY <1>1, ScriptFacts DEF v
  <2> QED
    BY <1>1, <1>9, <2>1 DEF MigInv
<1> QED
  BY <1>1, <1>2, <1>5, <1>6, <1>7, <1>8, <1>9 DEF MigInv

\* The commit after the loop takes the last row.
LEMMA CommitMigrationsKeeps == MigInv /\ CommitMigrations => MigInv'
<1> SUFFICES ASSUME MigInv, CommitMigrations PROVE MigInv'
  OBVIOUS
<1> DEFINE r == [mig EXCEPT !.pc = "done", !.pending = {}]
<1>1. /\ mig.pc = "pick" /\ mig.version = 3
      /\ versions' = versions \cup mig.pending
      /\ mig' = r /\ torn' = torn /\ schema' = schema
  BY ScriptFacts DEF CommitMigrations
<1>2. versions' = 1..3
  BY <1>1 DEF MigInv
<1>3. r.pc = "done" /\ r.pending = {} /\
      r \in [pc : {"off", "pick", "script", "done", "failed"},
              version : Versions \cup {0}, next : 1..6, pending : SUBSET Versions]
  BY <1>1 DEF MigInv, MigTypeOK
<1> HIDE DEF r
<1>4. MigTypeOK'
  BY <1>1, <1>2, <1>3, ScriptFacts DEF MigInv, MigTypeOK
<1>5. \A w \in versions' : Objects(w) \subseteq schema'
  BY <1>1 DEF MigInv
<1> QED
  BY <1>1, <1>2, <1>3, <1>4, <1>5, ScriptFacts DEF MigInv

\* An end of the program loses the pending row, and marks what it tears.
LEMMA EndMigrationKeeps == MigInv /\ EndMigration => MigInv'
<1> SUFFICES ASSUME MigInv, EndMigration PROVE MigInv'
  OBVIOUS
<1>1. /\ mig' = Off /\ torn' = (torn \/ Unrecorded # {})
      /\ schema' = schema /\ versions' = versions
  BY DEF EndMigration
<1>2. Off.pc = "off" /\ Off.pending = {} /\
      Off \in [pc : {"off", "pick", "script", "done", "failed"},
              version : Versions \cup {0}, next : 1..6, pending : SUBSET Versions]
  BY DEF Off
<1>3. MigTypeOK'
  BY <1>1, <1>2, Zenon DEF MigInv, MigTypeOK
<1>4. ASSUME ~torn', NEW v \in Versions \ versions, NEW i \in DOMAIN Scripts[v]
      PROVE  Scripts[v][i] \in Repeatable \/ Scripts[v][i] \notin schema
  <2>1. Objects(v) \cap (schema \ Repeatable) = {}
    BY <1>1, <1>4 DEF Unrecorded
  <2> QED
    BY <2>1 DEF Objects
<1> QED
  BY <1>1, <1>2, <1>3, <1>4 DEF MigInv

\* An empty database.
LEMMA MigInitInv == InitMig => MigInv
<1> SUFFICES ASSUME InitMig PROVE MigInv
  OBVIOUS
<1>1. schema = {} /\ versions = {} /\ mig = Off /\ torn = FALSE
  BY DEF InitMig
<1>2. Off.pc = "off" /\ Off.pending = {} /\
      Off \in [pc : {"off", "pick", "script", "done", "failed"},
              version : Versions \cup {0}, next : 1..6, pending : SUBSET Versions]
  BY DEF Off
<1>3. {} = 1..0
  OBVIOUS
<1>4. MigTypeOK
  BY <1>1, <1>2 DEF MigTypeOK
<1>5. \E k \in 0..3 : versions = 1..k
  BY <1>1, <1>3
<1>6. \A v \in Versions : \A i \in DOMAIN Scripts[v] : Scripts[v][i] \notin schema
  BY <1>1
<1> QED
  BY <1>1, <1>2, <1>4, <1>5, <1>6 DEF MigInv

\* Every step of the migrations, and every end, keeps the invariant.
LEMMA MigStepKeeps == MigInv /\ [Migrate \/ EndMigration]_migVars => MigInv'
<1> SUFFICES ASSUME MigInv, [Migrate \/ EndMigration]_migVars PROVE MigInv'
  OBVIOUS
<1>1. CASE UNCHANGED migVars
  BY <1>1 DEF migVars, MigInv, MigTypeOK
<1> QED
  BY <1>1, ReadVersionKeeps, BeginScriptKeeps, StatementKeeps, RecordVersionKeeps,
     CommitMigrationsKeeps, EndMigrationKeeps DEF Migrate

-----------------------------------------------------------------------------
(* The pool and the calls. *)

\* The records of connections, tasks and failures.
ConnRec == [open : BOOLEAN, tx : {"none", "begun", "read", "write"},
            snap : SUBSET Writes, own : SUBSET Writes, spoiled : BOOLEAN]

TaskRec == [pc : {"idle", "borrowed", "written", "returning"}, conn : Conns \cup {0},
            kind : Kinds \cup {None}, user : Users \cup {None},
            call : Calls \cup {0}, ok : BOOLEAN]

FailedRec == [call : Calls, why : {"constraint", "locked", "fault"}]

\* A task inside a repository method.
Busy(t) == task[t].pc # "idle"

\* What a call knows: a write that was made is in its connection's transaction,
\* and one that will be reported is on disk.
TasksInv ==
  \A t \in Tasks :
    /\ Busy(t) => /\ task[t].conn \in Conns /\ task[t].kind \in Kinds
                  /\ task[t].user \in Users /\ task[t].call \in Calls
    /\ ~Busy(t) => task[t] = Idle
    /\ task[t].pc = "written" => /\ task[t].kind # "select"
                                 /\ WriteOf(t) \in conn[task[t].conn].own
    /\ task[t].pc = "returning" /\ task[t].ok /\ task[t].kind # "select" => WriteOf(t) \in disk

\* Open are the connections of the pool and those in somebody's hands, no others.
HeldInv ==
  \A c \in Conns :
    /\ conn[c].open <=> \/ c \in Range(pool)
                        \/ \E t \in Tasks : Busy(t) /\ task[t].conn = c
    /\ ~conn[c].open => conn[c] = Closed

\* At rest: no transaction, unless a failure left one.
Clean(c) == conn[c].spoiled \/ (conn[c].tx = "none" /\ conn[c].own = {})

\* A transaction that no failure left open belongs to a write that its caller is
\* about to commit, or that the end of the run cut off.
TxInv ==
  \A c \in Conns :
    \/ Clean(c)
    \/ /\ conn[c].tx = "write"
       /\ \/ main = "ending"
          \/ \E t \in Tasks : task[t].pc = "written" /\ task[t].conn = c

\* The end of a run leaves nobody inside a statement.
EndingInv == main = "ending" => \A t \in Tasks : task[t].pc \in {"idle", "returning"}

\* A spoiled connection, and a lockout, have a failed call behind them.
BlameInv ==
  /\ (\E c \in Conns : conn[c].spoiled) => \E f \in failed : f.why # "locked"
  /\ LockoutsFollowAFailure

\* The invariant of the pool.
PoolInv ==
  /\ PoolTypeOK /\ PoolIsSound /\ HeldInv /\ TasksInv /\ TxInv /\ EndingInv
  /\ acked \subseteq disk
  /\ BlameInv

\* The types of the pool, by name.
LEMMA PoolTypes ==
  /\ PoolTypeOK <=>
       /\ disk \subseteq Writes
       /\ conn \in [Conns -> ConnRec]
       /\ pool \in Seq(Conns)
       /\ task \in [Tasks -> TaskRec]
       /\ calls \in 0..MaxCalls /\ faults \in 0..MaxFaults
       /\ acked \subseteq Writes
       /\ failed \subseteq FailedRec
  BY DEF PoolTypeOK, ConnRec, TaskRec, FailedRec

\* A closed and an open connection, and a task outside of every method.
LEMMA RecordTypes ==
  /\ Closed \in ConnRec /\ ~Closed.open /\ Closed.tx = "none" /\ Closed.own = {} /\ ~Closed.spoiled
  /\ Opened \in ConnRec /\ Opened.open /\ Opened.tx = "none" /\ Opened.own = {} /\ ~Opened.spoiled
  /\ Idle \in TaskRec /\ Idle.pc = "idle"
  BY DEF Closed, Opened, Idle, ConnRec, TaskRec

\* The kinds of calls that main() makes are kinds.
LEMMA KindsHold == "select" \in Kinds /\ "add" \in Kinds
  BY DEF Kinds, UserRepository, InviteRepository, SessionRepository, CommandLogRepository, KindsOf

\* Between two callers of a connection nothing is in flight on it.
LEMMA BorrowedIsClean ==
  ASSUME PoolInv, NEW t \in Tasks, task[t].pc = "borrowed"
  PROVE  main # "ending" /\ task[t].conn \in Conns /\ Clean(task[t].conn)
<1>1. main # "ending" /\ task[t].conn \in Conns
  BY DEF PoolInv, EndingInv, TasksInv, Busy
<1>2. ASSUME NEW s \in Tasks, task[s].pc = "written", task[s].conn = task[t].conn
      PROVE  FALSE
  BY <1>2 DEF PoolInv, PoolIsSound
<1> QED
  BY <1>1, <1>2 DEF PoolInv, TxInv

\* A method's step on the connection it has: the pool and the other callers do
\* not notice, and the rest is left to what the step writes (r and d).
LEMMA CallKeeps ==
  ASSUME PoolInv, NEW t \in Tasks, Busy(t), main' = main,
         NEW d \in ConnRec, NEW r \in TaskRec,
         task' = [task EXCEPT ![t] = r],
         conn' = [conn EXCEPT ![task[t].conn] = d],
         pool' = pool, acked' = acked, calls' = calls,
         faults' \in 0..MaxFaults,
         disk \subseteq disk', disk' \subseteq Writes,
         failed \subseteq failed', failed' \subseteq FailedRec,
         d.open, r.pc \in {"written", "returning"},
         r.conn = task[t].conn, r.kind = task[t].kind, r.user = task[t].user, r.call = task[t].call,
         r.pc = "written" => r.kind # "select" /\ WriteOf(t) \in d.own,
         r.pc = "returning" /\ r.ok /\ r.kind # "select" => WriteOf(t) \in disk',
         \/ d.spoiled
         \/ d.tx = "none" /\ d.own = {}
         \/ d.tx = "write" /\ r.pc = "written",
         main = "ending" => r.pc = "returning",
         d.spoiled => conn[task[t].conn].spoiled \/ \E f \in failed' : f.why # "locked",
         LockoutsFollowAFailure'
  PROVE  PoolInv'
<1> DEFINE k == task[t].conn
<1>1. /\ conn \in [Conns -> ConnRec] /\ task \in [Tasks -> TaskRec] /\ pool \in Seq(Conns)
      /\ calls \in 0..MaxCalls /\ acked \subseteq Writes /\ k \in Conns
  BY PoolTypes DEF PoolInv, TasksInv
<1>2. PoolTypeOK'
  BY <1>1, PoolTypes DEF PoolTypeOK, ConnRec, TaskRec, FailedRec
<1>3. \A s \in Tasks : s # t => task'[s] = task[s]
  BY <1>1
<1>4. task'[t] = r
  BY <1>1
<1>5. \A c \in Conns : c # k => conn'[c] = conn[c]
  BY <1>1
<1>6. conn'[k] = d
  BY <1>1
<1>7. \A s \in Tasks : Busy(s)' = Busy(s) /\ task'[s].conn = task[s].conn
  BY <1>3, <1>4 DEF Busy
<1>8. \A s \in Tasks : s # t /\ Busy(s) => task[s].conn # k
  BY DEF PoolInv, PoolIsSound, Busy
<1>9. Range(pool)' = Range(pool)
  BY DEF Range
<1>10. PoolIsSound'
  BY <1>7, <1>9 DEF PoolInv, PoolIsSound, Busy
<1>11. HeldInv'
  <2>1. conn[k].open
    BY <1>1 DEF PoolInv, HeldInv
  <2> QED
    BY <1>5, <1>6, <1>7, <1>9, <2>1 DEF PoolInv, HeldInv
<1>12. WriteOf(t)' = WriteOf(t) /\ \A s \in Tasks : s # t => WriteOf(s)' = WriteOf(s)
  BY <1>3, <1>4 DEF WriteOf
<1>13. TasksInv'
  <2> SUFFICES ASSUME NEW s \in Tasks
               PROVE  /\ Busy(s)' => /\ task'[s].conn \in Conns /\ task'[s].kind \in Kinds
                                     /\ task'[s].user \in Users /\ task'[s].call \in Calls
                      /\ ~Busy(s)' => task'[s] = Idle
                      /\ task'[s].pc = "written" => /\ task'[s].kind # "select"
                                                     /\ WriteOf(s)' \in conn'[task'[s].conn].own
                      /\ task'[s].pc = "returning" /\ task'[s].ok /\ task'[s].kind # "select"
                           => WriteOf(s)' \in disk'
    BY DEF TasksInv
  <2>1. CASE s = t
    BY <1>4, <1>6, <1>7, <1>12, <2>1 DEF PoolInv, TasksInv
  <2>2. CASE s # t
    <3>1. Busy(s) => task[s].conn \in Conns /\ conn'[task[s].conn] = conn[task[s].conn]
      BY <1>5, <1>8, <2>2 DEF PoolInv, TasksInv
    <3> QED
      BY <1>3, <1>7, <1>12, <2>2, <3>1 DEF PoolInv, TasksInv, Busy
  <2> QED
    BY <2>1, <2>2
<1>14. TxInv'
  <2> SUFFICES ASSUME NEW c \in Conns
               PROVE  \/ Clean(c)'
                      \/ /\ conn'[c].tx = "write"
                         /\ \/ main' = "ending"
                            \/ \E s \in Tasks : task'[s].pc = "written" /\ task'[s].conn = c
    BY DEF TxInv
  <2>1. CASE c = k
    BY <1>4, <1>6, <2>1 DEF Clean
  <2>2. CASE c # k
    <3>1. conn'[c] = conn[c]
      BY <1>5, <2>2
    <3>2. \A s \in Tasks : task[s].pc = "written" /\ task[s].conn = c => task'[s] = task[s]
      BY <1>3, <2>2
    <3> QED
      BY <3>1, <3>2 DEF PoolInv, TxInv, Clean
  <2> QED
    BY <2>1, <2>2
<1>15. EndingInv'
  BY <1>3, <1>4 DEF PoolInv, EndingInv
<1>16. acked' \subseteq disk'
  BY DEF PoolInv
<1>17. BlameInv'
  BY <1>1, <1>5, <1>6 DEF PoolInv, BlameInv
<1> QED
  BY <1>2, <1>10, <1>11, <1>13, <1>14, <1>15, <1>16, <1>17 DEF PoolInv

\* A task that is inside a method has a record of a task, with a connection that
\* is open.
LEMMA BusyTask ==
  ASSUME PoolInv, NEW t \in Tasks, Busy(t)
  PROVE  /\ task[t] \in TaskRec /\ task[t].conn \in Conns /\ task[t].kind \in Kinds
         /\ task[t].user \in Users /\ task[t].call \in Calls
         /\ conn[task[t].conn] \in ConnRec /\ conn[task[t].conn].open
<1>1. /\ task[t].conn \in Conns /\ task[t].kind \in Kinds
      /\ task[t].user \in Users /\ task[t].call \in Calls
  BY DEF PoolInv, TasksInv
<1>2. conn[task[t].conn].open
  BY <1>1 DEF PoolInv, HeldInv
<1> QED
  BY <1>1, <1>2, PoolTypes DEF PoolInv

\* A SELECT may give a spoiled transaction its snapshot; others it leaves alone.
LEMMA SelectKeeps ==
  ASSUME PoolInv, NEW t \in Tasks, main' = main, Select(t)
  PROVE  PoolInv'
<1> DEFINE c == task[t].conn
           r == [task[t] EXCEPT !.pc = "returning"]
           d == IF conn[c].tx = "begun" THEN [conn[c] EXCEPT !.tx = "read", !.snap = disk] ELSE conn[c]
<1>1. /\ task[t].pc = "borrowed" /\ task[t].kind = "select"
      /\ task' = [task EXCEPT ![t] = r]
      /\ UNCHANGED <<disk, pool, calls, faults, acked, failed>>
  BY DEF Select
<1>2. Busy(t) /\ main # "ending" /\ Clean(c)
  BY <1>1, BorrowedIsClean DEF Busy
<1>3. task[t] \in TaskRec /\ c \in Conns /\ conn[c] \in ConnRec /\ conn[c].open
  BY <1>2, BusyTask
<1>4. r \in TaskRec /\ r.pc = "returning" /\ r.conn = c /\ r.kind = "select"
      /\ r.user = task[t].user /\ r.call = task[t].call
  BY <1>1, <1>3 DEF TaskRec
<1>5. disk \subseteq Writes /\ failed \subseteq FailedRec /\ faults \in 0..MaxFaults
      /\ conn \in [Conns -> ConnRec]
  BY PoolTypes DEF PoolInv
<1>6. conn' = [conn EXCEPT ![c] = d]
  BY <1>3, <1>5 DEF Select
<1>7. d \in ConnRec /\ d.open /\ d.spoiled = conn[c].spoiled
  BY <1>3, <1>5 DEF ConnRec
<1>8. d.spoiled \/ (d.tx = "none" /\ d.own = {})
  BY <1>2, <1>3 DEF Clean, ConnRec
<1>9. LockoutsFollowAFailure'
  BY <1>1 DEF PoolInv, BlameInv, LockoutsFollowAFailure
<1> HIDE DEF r, d
<1> QED
  BY <1>1, <1>2, <1>4, <1>5, <1>6, <1>7, <1>8, <1>9, CallKeeps

\* A statement that raises: the connection is spoiled from then on.
LEMMA RaiseKeeps ==
  ASSUME PoolInv, NEW t \in Tasks, main' = main, Busy(t),
         NEW why \in {"constraint", "locked", "fault"},
         NEW tx \in {"none", "begun", "read", "write"}, NEW snap \in SUBSET Writes,
         Raise(t, why, tx, snap),
         disk' = disk, pool' = pool, calls' = calls, acked' = acked, faults' \in 0..MaxFaults,
         why = "locked" => \E f \in failed : f.why # "locked"
  PROVE  PoolInv'
<1> DEFINE c == task[t].conn
           r == [task[t] EXCEPT !.pc = "returning", !.ok = FALSE]
           d == [conn[c] EXCEPT !.tx = tx, !.snap = snap, !.spoiled = TRUE]
           f == [call |-> task[t].call, why |-> why]
<1>1. task[t] \in TaskRec /\ c \in Conns /\ conn[c] \in ConnRec /\ conn[c].open /\ task[t].call \in Calls
  BY BusyTask
<1>2. task' = [task EXCEPT ![t] = r] /\ failed' = failed \cup {f}
  BY DEF Raise
<1>3. disk \subseteq Writes /\ failed \subseteq FailedRec
      /\ conn \in [Conns -> ConnRec]
  BY PoolTypes DEF PoolInv
<1>4. conn' = [conn EXCEPT ![c] = d]
  BY <1>1, <1>3 DEF Raise
<1>5. r \in TaskRec /\ r.pc = "returning" /\ ~r.ok /\ r.conn = c /\ r.kind = task[t].kind
      /\ r.user = task[t].user /\ r.call = task[t].call
  BY <1>1 DEF TaskRec
<1>6. d \in ConnRec /\ d.open /\ d.spoiled
  BY <1>1 DEF ConnRec
<1>7. f \in FailedRec /\ f.why = why
  BY <1>1 DEF FailedRec
<1> HIDE DEF r, d, f
<1>8. \E g \in failed' : g.why # "locked"
  BY <1>2, <1>7
<1>9. LockoutsFollowAFailure'
  BY <1>8 DEF LockoutsFollowAFailure
<1>10. failed' \subseteq FailedRec
  BY <1>2, <1>3, <1>7
<1> QED
  BY <1>1, <1>2, <1>3, <1>4, <1>5, <1>6, <1>8, <1>9, <1>10, CallKeeps

\* An INSERT or UPDATE opens the transaction that its commit will close, or raises.
LEMMA WriteKeeps ==
  ASSUME PoolInv, NEW t \in Tasks, main' = main, Write(t)
  PROVE  PoolInv'
<1> DEFINE c == task[t].conn
           snap == IF conn[c].tx = "write" THEN conn[c].snap ELSE disk
           r == [task[t] EXCEPT !.pc = "written"]
           d == [conn[c] EXCEPT !.tx = "write", !.snap = snap, !.own = conn[c].own \cup {WriteOf(t)}]
<1>1. /\ task[t].pc = "borrowed" /\ task[t].kind # "select"
      /\ UNCHANGED <<disk, pool, calls, faults, acked>>
  BY DEF Write
<1>2. Busy(t) /\ main # "ending" /\ Clean(c)
  BY <1>1, BorrowedIsClean DEF Busy
<1>3. /\ task[t] \in TaskRec /\ c \in Conns /\ conn[c] \in ConnRec /\ conn[c].open
      /\ task[t].kind \in Kinds /\ task[t].user \in Users /\ task[t].call \in Calls
  BY <1>2, BusyTask
<1>4. disk \subseteq Writes /\ failed \subseteq FailedRec /\ faults \in 0..MaxFaults
      /\ conn \in [Conns -> ConnRec]
  BY PoolTypes DEF PoolInv
<1>5. snap \in SUBSET Writes
  BY <1>3, <1>4 DEF ConnRec
<1>6. WriteOf(t) \in Writes
  BY <1>1, <1>3 DEF WriteOf, Writes
<1>7. CASE Raise(t, "constraint", "write", snap)
  <2> HIDE DEF snap
  <2> QED
    BY <1>1, <1>2, <1>4, <1>5, <1>7, RaiseKeeps
<1>8. CASE /\ conn' = [conn EXCEPT ![c].tx = "write", ![c].snap = snap, ![c].own = @ \cup {WriteOf(t)}]
           /\ task' = [task EXCEPT ![t].pc = "written"]
           /\ UNCHANGED failed
  <2>1. task' = [task EXCEPT ![t] = r]
    BY <1>8
  <2>2. conn' = [conn EXCEPT ![c] = d]
    BY <1>3, <1>4, <1>8
  <2>3. r \in TaskRec /\ r.pc = "written" /\ r.conn = c /\ r.kind = task[t].kind
        /\ r.user = task[t].user /\ r.call = task[t].call
    BY <1>3 DEF TaskRec
  <2> HIDE DEF snap
  <2>4. d \in ConnRec /\ d.open /\ d.spoiled = conn[c].spoiled /\ d.tx = "write" /\ WriteOf(t) \in d.own
    BY <1>3, <1>5, <1>6 DEF ConnRec
  <2>5. LockoutsFollowAFailure'
    BY <1>8 DEF PoolInv, BlameInv, LockoutsFollowAFailure
  <2> HIDE DEF r, d
  <2> QED
    BY <1>1, <1>2, <1>4, <1>8, <2>1, <2>2, <2>3, <2>4, <2>5, CallKeeps, ZenonT(30)
<1> QED
  BY <1>7, <1>8 DEF Write

\* "database is locked" has a spoiled connection behind it, and so an earlier
\* failure of another kind.
LEMMA LockedOutKeeps ==
  ASSUME PoolInv, NEW t \in Tasks, main' = main, LockedOut(t)
  PROVE  PoolInv'
<1> DEFINE c == task[t].conn
           tx == IF conn[c].tx = "none" THEN "begun" ELSE conn[c].tx
<1>1. /\ task[t].pc = "borrowed"
      /\ Raise(t, "locked", tx, conn[c].snap)
      /\ UNCHANGED <<disk, pool, calls, faults, acked>>
  BY DEF LockedOut
<1>2. Busy(t) /\ main # "ending" /\ Clean(c)
  BY <1>1, BorrowedIsClean DEF Busy
<1>3. c \in Conns /\ conn[c] \in ConnRec
  BY <1>2, BusyTask
<1>4. faults \in 0..MaxFaults /\ pool \in Seq(Conns)
  BY PoolTypes DEF PoolInv
<1>5. tx \in {"none", "begun", "read", "write"} /\ conn[c].snap \in SUBSET Writes
  BY <1>3 DEF ConnRec
<1>6. \E d \in Conns : conn[d].spoiled
  <2>1. CASE Outdated(c)
    BY <1>2, <1>3, <2>1 DEF Outdated, Clean
  <2>2. CASE \E d \in Range(pool) : conn[d].tx = "write"
    <3>1. PICK d \in Range(pool) : conn[d].tx = "write"
      BY <2>2
    <3>2. d \in Conns
      BY <1>4 DEF Range
    <3>3. \A s \in Tasks : task[s].pc = "written" => task[s].conn # d
      BY DEF PoolInv, PoolIsSound
    <3> QED
      BY <1>2, <3>1, <3>2, <3>3 DEF PoolInv, TxInv, Clean
  <2> QED
    BY <2>1, <2>2 DEF LockedOut
<1>7. \E f \in failed : f.why # "locked"
  BY <1>6 DEF PoolInv, BlameInv
<1> HIDE DEF tx
<1> QED
  BY <1>1, <1>2, <1>4, <1>5, <1>7, RaiseKeeps

\* A statement or a commit that the disk or another program fails.
LEMMA FaultKeeps ==
  ASSUME PoolInv, NEW t \in Tasks, main' = main, Fault(t)
  PROVE  PoolInv'
<1> DEFINE c == task[t].conn
           tx == IF conn[c].tx = "none" THEN "begun" ELSE conn[c].tx
<1>1. /\ task[t].pc \in {"borrowed", "written"}
      /\ Raise(t, "fault", tx, conn[c].snap)
      /\ faults < MaxFaults /\ faults' = faults + 1
      /\ UNCHANGED <<disk, pool, calls, acked>>
  BY DEF Fault
<1>2. Busy(t)
  BY <1>1 DEF Busy
<1>3. c \in Conns /\ conn[c] \in ConnRec
  BY <1>2, BusyTask
<1>4. faults' \in 0..MaxFaults
  BY <1>1, PoolTypes, DatabaseAssumption DEF PoolInv
<1>5. tx \in {"none", "begun", "read", "write"} /\ conn[c].snap \in SUBSET Writes
  BY <1>3 DEF ConnRec
<1> HIDE DEF tx
<1> QED
  BY <1>1, <1>2, <1>4, <1>5, RaiseKeeps

\* The commit puts the caller's row on disk and the connection at rest.
LEMMA CommitKeeps ==
  ASSUME PoolInv, NEW t \in Tasks, main' = main, Commit(t)
  PROVE  PoolInv'
<1> DEFINE c == task[t].conn
           r == [task[t] EXCEPT !.pc = "returning"]
<1>1. /\ task[t].pc = "written" /\ disk' = disk \cup conn[c].own
      /\ conn' = [conn EXCEPT ![c] = Opened]
      /\ task' = [task EXCEPT ![t] = r]
      /\ UNCHANGED <<pool, calls, faults, acked, failed>>
  BY DEF Commit
<1>2. Busy(t)
  BY <1>1 DEF Busy
<1>3. task[t] \in TaskRec /\ c \in Conns /\ conn[c] \in ConnRec
  BY <1>2, BusyTask
<1>4. r \in TaskRec /\ r.pc = "returning" /\ r.conn = c /\ r.kind = task[t].kind
      /\ r.user = task[t].user /\ r.call = task[t].call
  BY <1>3 DEF TaskRec
<1>5. failed \subseteq FailedRec /\ faults \in 0..MaxFaults /\ disk' \subseteq Writes
  BY <1>1, <1>3, PoolTypes DEF PoolInv, ConnRec
<1>6. WriteOf(t) \in disk'
  BY <1>1 DEF PoolInv, TasksInv
<1>7. LockoutsFollowAFailure'
  BY <1>1 DEF PoolInv, BlameInv, LockoutsFollowAFailure
<1> HIDE DEF r
<1> QED
  BY <1>1, <1>2, <1>4, <1>5, <1>6, <1>7, RecordTypes, CallKeeps

\* Appending to the pool, and taking its last connection, as sets.
LEMMA PoolAppend ==
  ASSUME NEW s \in Seq(Conns), NEW c \in Conns
  PROVE  /\ Append(s, c) \in Seq(Conns) /\ Len(Append(s, c)) = Len(s) + 1
         /\ Range(Append(s, c)) = Range(s) \cup {c}
         /\ c \notin Range(s) /\ (\A i, j \in DOMAIN s : s[i] = s[j] => i = j)
              => \A i, j \in DOMAIN Append(s, c) : Append(s, c)[i] = Append(s, c)[j] => i = j
<1> DEFINE q == Append(s, c)
<1>1. q \in Seq(Conns) /\ Len(q) = Len(s) + 1 /\ Len(s) \in Nat
  OBVIOUS
<1>2. DOMAIN s = 1..Len(s) /\ DOMAIN q = 1..(Len(s) + 1)
  BY <1>1
<1>3. \A i \in 1..Len(s) : q[i] = s[i]
  OBVIOUS
<1>4. q[Len(s) + 1] = c
  OBVIOUS
<1> HIDE DEF q
<1>5. Range(q) = Range(s) \cup {c}
  <2>1. \A i \in DOMAIN q : i \in DOMAIN s \/ i = Len(s) + 1
    BY <1>1, <1>2
  <2> QED
    BY <1>1, <1>2, <1>3, <1>4, <2>1 DEF Range
<1>6. ASSUME c \notin Range(s), \A i, j \in DOMAIN s : s[i] = s[j] => i = j,
             NEW i \in DOMAIN q, NEW j \in DOMAIN q, q[i] = q[j]
      PROVE  i = j
  <2>1. \A n \in DOMAIN s : s[n] # c
    BY <1>6 DEF Range
  <2> QED
    BY <1>1, <1>2, <1>3, <1>4, <1>6, <2>1
<1> QED
  BY <1>1, <1>5, <1>6 DEF q

\* Taking the last connection off the pool.
LEMMA PoolFront ==
  ASSUME NEW s \in Seq(Conns), s # <<>>, \A i, j \in DOMAIN s : s[i] = s[j] => i = j
  PROVE  LET c == s[Len(s)]
             q == SubSeq(s, 1, Len(s) - 1)
         IN  /\ c \in Conns /\ c \in Range(s)
             /\ q \in Seq(Conns) /\ Len(q) <= Len(s)
             /\ Range(q) = Range(s) \ {c}
             /\ \A i, j \in DOMAIN q : q[i] = q[j] => i = j
<1> DEFINE n == Len(s)
           c == s[n]
           q == SubSeq(s, 1, n - 1)
<1>1. n \in Nat /\ n > 0 /\ DOMAIN s = 1..n
  OBVIOUS
<1>2. c \in Conns /\ c \in Range(s)
  BY <1>1 DEF Range
<1>3. q \in Seq(Conns) /\ Len(q) = n - 1 /\ DOMAIN q = 1..(n - 1)
  BY <1>1
<1>4. \A i \in 1..(n - 1) : q[i] = s[i]
  BY <1>1
<1>5. c = s[n]
  OBVIOUS
<1> HIDE DEF q, c, n
<1>6. Range(q) = Range(s) \ {c}
  <2>1. ASSUME NEW x \in Range(q) PROVE x \in Range(s) \ {c}
    <3>1. PICK i \in 1..(n - 1) : x = s[i]
      BY <1>3, <1>4 DEF Range
    <3>2. i \in DOMAIN s /\ n \in DOMAIN s /\ i # n
      BY <1>1, <3>1
    <3> QED
      BY <1>5, <3>1, <3>2 DEF Range
  <2>2. ASSUME NEW x \in Range(s) \ {c} PROVE x \in Range(q)
    <3>1. PICK i \in 1..n : x = s[i]
      BY <1>1 DEF Range
    <3>2. i \in 1..(n - 1)
      BY <1>1, <1>5, <3>1
    <3> QED
      BY <1>3, <1>4, <3>1, <3>2 DEF Range
  <2> QED
    BY <2>1, <2>2
<1>7. \A i, j \in DOMAIN q : q[i] = q[j] => i = j
  BY <1>1, <1>3, <1>4
<1> QED
  BY <1>1, <1>2, <1>3, <1>6, <1>7 DEF q, c, n

\* The finally of get_connection: back to the pool, or closed.
LEMMA GiveBackKeeps ==
  ASSUME PoolInv, NEW t \in Tasks, main' = "ending" <=> main = "ending", GiveBack(t)
  PROVE  PoolInv'
<1> DEFINE c == task[t].conn
<1>1. /\ task[t].pc = "returning"
      /\ task' = [task EXCEPT ![t] = Idle]
      /\ acked' = IF task[t].ok /\ task[t].kind # "select" THEN acked \cup {WriteOf(t)} ELSE acked
      /\ UNCHANGED <<disk, calls, faults, failed>>
  BY DEF GiveBack
<1>2. Busy(t)
  BY <1>1 DEF Busy
<1>3. c \in Conns /\ conn[c].open
  BY <1>2, BusyTask
<1>4. /\ disk \subseteq Writes /\ conn \in [Conns -> ConnRec] /\ pool \in Seq(Conns)
      /\ task \in [Tasks -> TaskRec] /\ calls \in 0..MaxCalls /\ faults \in 0..MaxFaults
      /\ acked \subseteq Writes /\ failed \subseteq FailedRec
  BY PoolTypes DEF PoolInv
<1>5. acked' \subseteq disk'
  BY <1>1 DEF PoolInv, TasksInv
<1>6. task'[t] = Idle /\ \A s \in Tasks : s # t => task'[s] = task[s]
  BY <1>1, <1>4
<1>7. \A s \in Tasks : Busy(s)' <=> s # t /\ Busy(s)
  BY <1>6, RecordTypes DEF Busy
<1>8. \A s \in Tasks : s # t /\ Busy(s) => task[s].conn # c
  BY <1>2 DEF PoolInv, PoolIsSound, Busy
<1>9. c \notin Range(pool)
  BY <1>2 DEF PoolInv, PoolIsSound, Busy
<1>10. /\ pool' \in Seq(Conns) /\ Len(pool') <= PoolSize
       /\ \A i, j \in DOMAIN pool' : pool'[i] = pool'[j] => i = j
       /\ \/ Range(pool)' = Range(pool) \cup {c} /\ conn' = conn
          \/ Range(pool)' = Range(pool) /\ conn' = [conn EXCEPT ![c] = Closed]
  <2>1. CASE RoomInPool
    <3>1. pool' = Append(pool, c) /\ conn' = conn
      BY <2>1 DEF GiveBack
    <3>2. Len(pool) + 1 <= PoolSize
      BY <1>4, <2>1, DatabaseAssumption DEF RoomInPool
    <3>3. \A i, j \in DOMAIN pool : pool[i] = pool[j] => i = j
      BY DEF PoolInv, PoolIsSound
    <3>4. /\ pool' \in Seq(Conns) /\ Len(pool') = Len(pool) + 1
          /\ \A i, j \in DOMAIN pool' : pool'[i] = pool'[j] => i = j
          /\ Range(pool') = Range(pool) \cup {c}
      BY <1>3, <1>4, <1>9, <3>1, <3>3, PoolAppend
    <3>5. Range(pool)' = Range(pool')
      BY DEF Range
    <3> QED
      BY <3>1, <3>2, <3>4, <3>5
  <2>2. CASE ~RoomInPool
    BY <1>4, <2>2 DEF GiveBack, PoolInv, PoolIsSound, Range
  <2> QED
    BY <2>1, <2>2
<1>11. \A b \in Conns : b # c => conn'[b] = conn[b]
  BY <1>4, <1>10
<1>12. conn' \in [Conns -> ConnRec] /\ (conn'[c] = conn[c] \/ conn'[c] = Closed)
  BY <1>3, <1>4, <1>10, RecordTypes
<1>13. PoolTypeOK'
  <2>1. task' \in [Tasks -> TaskRec]
    BY <1>1, <1>4, RecordTypes
  <2>2. acked' \subseteq Writes
    BY <1>1, <1>4, <1>5
  <2> QED
    BY <1>1, <1>4, <1>10, <1>12, <2>1, <2>2 DEF PoolTypeOK, ConnRec, TaskRec, FailedRec
<1>14. PoolIsSound'
  <2>1. ASSUME NEW s \in Tasks, Busy(s)' PROVE task'[s].conn \notin Range(pool)'
    BY <1>6, <1>7, <1>8, <1>10, <2>1 DEF PoolInv, PoolIsSound, Busy
  <2>2. ASSUME NEW s \in Tasks, NEW u \in Tasks, Busy(s)', Busy(u)', task'[s].conn = task'[u].conn
        PROVE  s = u
    BY <1>6, <1>7, <2>2 DEF PoolInv, PoolIsSound, Busy
  <2>3. \A s, u \in Tasks : Busy(s)' /\ task'[s].conn = task'[u].conn => s = u
    <3> SUFFICES ASSUME NEW s \in Tasks, NEW u \in Tasks, Busy(s)', task'[s].conn = task'[u].conn
                 PROVE  s = u
      OBVIOUS
    <3>1. task[s].conn \in Conns /\ task'[s] = task[s]
      BY <1>6, <1>7 DEF PoolInv, TasksInv
    <3>2. task'[u].conn # 0
      BY <3>1, DatabaseAssumption DEF Conns
    <3>3. Busy(u)'
      BY <1>6, <1>7, <3>2 DEF PoolInv, TasksInv, Idle
    <3> QED
      BY <2>2, <3>3
  <2> QED
    BY <1>10, <2>1, <2>3 DEF PoolIsSound, Busy
<1>15. HeldInv'
  <2>1. ASSUME NEW b \in Conns, b # c
        PROVE  /\ conn'[b].open <=> \/ b \in Range(pool)'
                                    \/ \E s \in Tasks : Busy(s)' /\ task'[s].conn = b
               /\ ~conn'[b].open => conn'[b] = Closed
    <3>1. b \in Range(pool)' <=> b \in Range(pool)
      BY <1>10, <2>1
    <3>2. (\E s \in Tasks : Busy(s)' /\ task'[s].conn = b) <=> (\E s \in Tasks : Busy(s) /\ task[s].conn = b)
      BY <1>6, <1>7, <2>1
    <3> QED
      BY <1>11, <2>1, <3>1, <3>2 DEF PoolInv, HeldInv
  <2>2. ~ \E s \in Tasks : Busy(s)' /\ task'[s].conn = c
    BY <1>6, <1>7, <1>8
  <2>3. /\ conn'[c].open <=> c \in Range(pool)'
        /\ ~conn'[c].open => conn'[c] = Closed
    BY <1>3, <1>4, <1>9, <1>10, RecordTypes
  <2> QED
    BY <2>1, <2>2, <2>3 DEF HeldInv
<1>16. \A s \in Tasks : s # t => WriteOf(s)' = WriteOf(s)
  BY <1>6 DEF WriteOf
<1>17. TasksInv'
  <2> SUFFICES ASSUME NEW s \in Tasks
               PROVE  /\ Busy(s)' => /\ task'[s].conn \in Conns /\ task'[s].kind \in Kinds
                                     /\ task'[s].user \in Users /\ task'[s].call \in Calls
                      /\ ~Busy(s)' => task'[s] = Idle
                      /\ task'[s].pc = "written" => /\ task'[s].kind # "select"
                                                     /\ WriteOf(s)' \in conn'[task'[s].conn].own
                      /\ task'[s].pc = "returning" /\ task'[s].ok /\ task'[s].kind # "select"
                           => WriteOf(s)' \in disk'
    BY DEF TasksInv
  <2>1. CASE s = t
    BY <1>6, <1>7, <2>1, RecordTypes
  <2>2. CASE s # t
    <3>1. Busy(s) => task[s].conn \in Conns /\ conn'[task[s].conn] = conn[task[s].conn]
      BY <1>8, <1>11, <2>2 DEF PoolInv, TasksInv
    <3> QED
      BY <1>1, <1>6, <1>7, <1>16, <2>2, <3>1 DEF PoolInv, TasksInv, Busy
  <2> QED
    BY <2>1, <2>2
<1>18. TxInv'
  <2> SUFFICES ASSUME NEW b \in Conns
               PROVE  \/ Clean(b)'
                      \/ /\ conn'[b].tx = "write"
                         /\ \/ main' = "ending"
                            \/ \E s \in Tasks : task'[s].pc = "written" /\ task'[s].conn = b
    BY DEF TxInv
  <2>1. CASE conn'[b] = Closed
    BY <2>1, RecordTypes DEF Clean
  <2>2. CASE conn'[b] = conn[b]
    <3>1. \A s \in Tasks : task[s].pc = "written" => task'[s] = task[s]
      BY <1>1, <1>6
    <3> QED
      BY <2>2, <3>1 DEF PoolInv, TxInv, Clean
  <2> QED
    BY <1>11, <1>12, <2>1, <2>2
<1>19. EndingInv'
  BY <1>6, RecordTypes DEF PoolInv, EndingInv
<1>20. BlameInv'
  <2>1. \A b \in Conns : conn'[b].spoiled => conn[b].spoiled
    BY <1>11, <1>12, RecordTypes
  <2> QED
    BY <1>1, <2>1 DEF PoolInv, BlameInv, LockoutsFollowAFailure
<1> QED
  BY <1>5, <1>13, <1>14, <1>15, <1>17, <1>18, <1>19, <1>20 DEF PoolInv

\* The connections are counted from one: among those not open there is a first.
LEMMA LeastExists ==
  ASSUME NEW S, S \subseteq Nat, S # {}
  PROVE  \E c \in S : \A d \in S : c <= d
<1>1. \E c \in S : \A d \in S : ~ (<<d, c>> \in OpToRel(<, Nat))
  BY NatLessThanWellFounded, WFMin, Zenon
<1>2. ASSUME NEW c \in S, \A d \in S : ~ (<<d, c>> \in OpToRel(<, Nat)), NEW d \in S
      PROVE  c <= d
  <2>1. <<d, c>> \in Nat \X Nat
    OBVIOUS
  <2>2. ~ (d < c)
    BY <2>1, <1>2 DEF OpToRel
  <2> QED
    BY <2>2
<1> QED
  BY <1>1, <1>2

\* An overflow connection is one that was not open.
LEMMA FirstUnopenedIs ==
  ASSUME Unopened # {}
  PROVE  FirstUnopened \in Conns /\ ~conn[FirstUnopened].open
<1>1. Unopened \subseteq Nat
  BY DatabaseAssumption DEF Unopened, Conns
<1>2. \E c \in Unopened : \A d \in Unopened : c <= d
  BY <1>1, LeastExists
<1>3. FirstUnopened \in Unopened
  BY <1>2 DEF FirstUnopened
<1> QED
  BY <1>3 DEF Unopened

\* What a call takes: a connection that nobody has, from the pool or a new one.
LEMMA BorrowTakes ==
  ASSUME PoolInv, NEW t \in Tasks, NEW kind, NEW u, Borrow(t, kind, u)
  PROVE  \E c \in Conns :
           /\ task' = [task EXCEPT ![t] = [pc |-> "borrowed", conn |-> c, kind |-> kind,
                                           user |-> u, call |-> calls', ok |-> TRUE]]
           /\ \A s \in Tasks : Busy(s) => task[s].conn # c
           /\ pool' \in Seq(Conns) /\ Len(pool') <= PoolSize
           /\ \A i, j \in DOMAIN pool' : pool'[i] = pool'[j] => i = j
           /\ Range(pool)' = Range(pool) \ {c}
           /\ \/ conn[c].open /\ conn' = conn
              \/ conn' = [conn EXCEPT ![c] = Opened]
<1>1. pool \in Seq(Conns) /\ \A i, j \in DOMAIN pool : pool[i] = pool[j] => i = j
  BY PoolTypes DEF PoolInv, PoolIsSound
<1>2. CASE TakeFromPool(t, kind, u)
  <2> DEFINE c == pool[Len(pool)]
  <2>1. /\ pool # <<>> /\ conn' = conn
        /\ task' = [task EXCEPT ![t] = [pc |-> "borrowed", conn |-> c, kind |-> kind,
                                        user |-> u, call |-> calls', ok |-> TRUE]]
        /\ pool' = SubSeq(pool, 1, Len(pool) - 1)
    BY <1>2 DEF TakeFromPool
  <2>2. /\ c \in Conns /\ c \in Range(pool)
        /\ pool' \in Seq(Conns) /\ Len(pool') <= Len(pool)
        /\ Range(pool') = Range(pool) \ {c}
        /\ \A i, j \in DOMAIN pool' : pool'[i] = pool'[j] => i = j
    BY <1>1, <2>1, PoolFront
  <2>3. conn[c].open
    BY <2>2 DEF PoolInv, HeldInv
  <2>4. \A s \in Tasks : Busy(s) => task[s].conn # c
    BY <2>2 DEF PoolInv, PoolIsSound, Busy
  <2>5. Len(pool') <= PoolSize
    BY <1>1, <2>2, DatabaseAssumption DEF PoolInv, PoolIsSound
  <2>6. Range(pool)' = Range(pool')
    BY DEF Range
  <2> HIDE DEF c
  <2> QED
    BY <2>1, <2>2, <2>3, <2>4, <2>5, <2>6
<1>3. CASE OpenOverflow(t, kind, u)
  <2> DEFINE c == FirstUnopened
  <2>1. /\ conn' = [conn EXCEPT ![c] = Opened] /\ pool' = pool /\ Unopened # {}
        /\ task' = [task EXCEPT ![t] = [pc |-> "borrowed", conn |-> c, kind |-> kind,
                                        user |-> u, call |-> calls', ok |-> TRUE]]
    BY <1>3 DEF OpenOverflow
  <2>2. c \in Conns /\ ~conn[c].open
    BY <2>1, FirstUnopenedIs
  <2>3. c \notin Range(pool) /\ \A s \in Tasks : Busy(s) => task[s].conn # c
    BY <2>2 DEF PoolInv, HeldInv
  <2>4. Range(pool)' = Range(pool) \ {c}
    BY <2>1, <2>3 DEF Range
  <2> HIDE DEF c
  <2> QED
    BY <1>1, <2>1, <2>2, <2>3, <2>4 DEF PoolInv, PoolIsSound
<1> QED
  BY <1>2, <1>3 DEF Borrow

\* A call enters its method with a connection that nobody else has.
LEMMA BorrowKeeps ==
  ASSUME PoolInv, NEW t \in Tasks, NEW kind \in Kinds, NEW u \in Users,
         main # "ending", main' = main, Borrow(t, kind, u)
  PROVE  PoolInv'
<1>1. /\ task[t].pc = "idle" /\ calls < MaxCalls /\ calls' = calls + 1
      /\ UNCHANGED <<disk, faults, acked, failed>>
  BY DEF Borrow
<1>2. PICK c \in Conns :
         /\ task' = [task EXCEPT ![t] = [pc |-> "borrowed", conn |-> c, kind |-> kind,
                                         user |-> u, call |-> calls', ok |-> TRUE]]
         /\ \A s \in Tasks : Busy(s) => task[s].conn # c
         /\ pool' \in Seq(Conns) /\ Len(pool') <= PoolSize
         /\ \A i, j \in DOMAIN pool' : pool'[i] = pool'[j] => i = j
         /\ Range(pool)' = Range(pool) \ {c}
         /\ \/ conn[c].open /\ conn' = conn
            \/ conn' = [conn EXCEPT ![c] = Opened]
  BY BorrowTakes
<1> DEFINE r == [pc |-> "borrowed", conn |-> c, kind |-> kind,
                 user |-> u, call |-> calls', ok |-> TRUE]
<1>3. /\ disk \subseteq Writes /\ conn \in [Conns -> ConnRec] /\ pool \in Seq(Conns)
      /\ task \in [Tasks -> TaskRec] /\ calls \in 0..MaxCalls /\ faults \in 0..MaxFaults
      /\ acked \subseteq Writes /\ failed \subseteq FailedRec
  BY PoolTypes DEF PoolInv
<1>4. calls' \in Calls /\ calls' \in 0..MaxCalls
  BY <1>1, <1>3, DatabaseAssumption DEF Calls
<1>5. /\ r \in TaskRec /\ r.pc = "borrowed" /\ r.conn = c /\ r.kind = kind
      /\ r.user = u /\ r.call \in Calls
  BY <1>4 DEF TaskRec
<1>6. task' = [task EXCEPT ![t] = r]
  BY <1>2
<1> HIDE DEF r
<1>7. task'[t] = r /\ \A s \in Tasks : s # t => task'[s] = task[s]
  BY <1>3, <1>6
<1>8. \A s \in Tasks : Busy(s)' <=> s = t \/ Busy(s)
  BY <1>5, <1>7 DEF Busy
<1>9. ~Busy(t)
  BY <1>1 DEF Busy
<1>10. \A b \in Conns : b # c => conn'[b] = conn[b]
  BY <1>2, <1>3
<1>11. conn' \in [Conns -> ConnRec] /\ conn'[c].open /\ (conn'[c] = conn[c] \/ conn'[c] = Opened)
  BY <1>2, <1>3, RecordTypes
<1>12. PoolTypeOK'
  <2>1. task' \in [Tasks -> TaskRec]
    BY <1>3, <1>5, <1>6
  <2> QED
    BY <1>1, <1>2, <1>3, <1>4, <1>11, <2>1 DEF PoolTypeOK, ConnRec, TaskRec, FailedRec
<1>13. PoolIsSound'
  <2>1. ASSUME NEW s \in Tasks, Busy(s)' PROVE task'[s].conn \notin Range(pool)'
    BY <1>2, <1>5, <1>7, <1>8, <2>1 DEF PoolInv, PoolIsSound, Busy
  <2>2. ASSUME NEW s \in Tasks, NEW v \in Tasks, Busy(s)', task'[s].conn = task'[v].conn
        PROVE  s = v
    <3>1. task'[s].conn \in Conns /\ task'[s].conn # 0
      BY <1>5, <1>7, <1>8, <2>2, DatabaseAssumption DEF PoolInv, TasksInv, Conns
    <3>2. Busy(v)'
      BY <1>7, <1>8, <2>2, <3>1 DEF PoolInv, TasksInv, Idle
    <3> QED
      BY <1>2, <1>5, <1>7, <1>8, <2>2, <3>2 DEF PoolInv, PoolIsSound, Busy
  <2> QED
    BY <1>2, <2>1, <2>2 DEF PoolIsSound, Busy
<1>14. HeldInv'
  <2>1. ASSUME NEW b \in Conns, b # c
        PROVE  /\ conn'[b].open <=> \/ b \in Range(pool)'
                                    \/ \E s \in Tasks : Busy(s)' /\ task'[s].conn = b
               /\ ~conn'[b].open => conn'[b] = Closed
    <3>1. b \in Range(pool)' <=> b \in Range(pool)
      BY <1>2, <2>1
    <3>2. (\E s \in Tasks : Busy(s)' /\ task'[s].conn = b) <=> (\E s \in Tasks : Busy(s) /\ task[s].conn = b)
      BY <1>5, <1>7, <1>8, <1>9, <2>1
    <3> QED
      BY <1>10, <2>1, <3>1, <3>2 DEF PoolInv, HeldInv
  <2>2. \E s \in Tasks : Busy(s)' /\ task'[s].conn = c
    BY <1>5, <1>7, <1>8
  <2> QED
    BY <1>11, <2>1, <2>2 DEF HeldInv
<1>15. \A s \in Tasks : s # t => WriteOf(s)' = WriteOf(s)
  BY <1>7 DEF WriteOf
<1>16. TasksInv'
  <2> SUFFICES ASSUME NEW s \in Tasks
               PROVE  /\ Busy(s)' => /\ task'[s].conn \in Conns /\ task'[s].kind \in Kinds
                                     /\ task'[s].user \in Users /\ task'[s].call \in Calls
                      /\ ~Busy(s)' => task'[s] = Idle
                      /\ task'[s].pc = "written" => /\ task'[s].kind # "select"
                                                     /\ WriteOf(s)' \in conn'[task'[s].conn].own
                      /\ task'[s].pc = "returning" /\ task'[s].ok /\ task'[s].kind # "select"
                           => WriteOf(s)' \in disk'
    BY DEF TasksInv
  <2>1. CASE s = t
    BY <1>5, <1>7, <1>8, <2>1
  <2>2. CASE s # t
    <3>1. Busy(s) => task[s].conn \in Conns /\ conn'[task[s].conn] = conn[task[s].conn]
      BY <1>2, <1>10, <2>2 DEF PoolInv, TasksInv
    <3> QED
      BY <1>1, <1>7, <1>8, <1>15, <2>2, <3>1 DEF PoolInv, TasksInv, Busy
  <2> QED
    BY <2>1, <2>2
<1>17. TxInv'
  <2> SUFFICES ASSUME NEW b \in Conns
               PROVE  \/ Clean(b)'
                      \/ /\ conn'[b].tx = "write"
                         /\ \/ main' = "ending"
                            \/ \E s \in Tasks : task'[s].pc = "written" /\ task'[s].conn = b
    BY DEF TxInv
  <2>1. CASE conn'[b] = Opened
    BY <2>1, RecordTypes DEF Clean
  <2>2. CASE conn'[b] = conn[b]
    <3>1. \A s \in Tasks : task[s].pc = "written" => task'[s] = task[s]
      BY <1>1, <1>7
    <3> QED
      BY <2>2, <3>1 DEF PoolInv, TxInv, Clean
  <2> QED
    BY <1>10, <1>11, <2>1, <2>2
<1>18. EndingInv'
  BY DEF EndingInv
<1>19. BlameInv'
  <2>1. \A b \in Conns : conn'[b].spoiled => conn[b].spoiled
    BY <1>10, <1>11, RecordTypes
  <2> QED
    BY <1>1, <2>1 DEF PoolInv, BlameInv, LockoutsFollowAFailure
<1> QED
  BY <1>1, <1>12, <1>13, <1>14, <1>16, <1>17, <1>18, <1>19 DEF PoolInv

\* While no connection is open, nobody has one.
LEMMA NothingHeld ==
  ASSUME PoolInv, \A c \in Conns : ~conn[c].open
  PROVE  /\ pool = <<>>
         /\ \A t \in Tasks : ~Busy(t)
         /\ \A c \in Conns : conn[c] = Closed
<1>1. pool \in Seq(Conns)
  BY PoolTypes DEF PoolInv
<1>2. \A i \in DOMAIN pool : pool[i] \in Conns /\ pool[i] \in Range(pool)
  BY <1>1 DEF Range
<1>3. DOMAIN pool = {}
  BY <1>2 DEF PoolInv, HeldInv
<1>4. pool = <<>>
  BY <1>1, <1>3
<1>5. \A t \in Tasks : ~Busy(t)
  BY BusyTask
<1> QED
  BY <1>4, <1>5 DEF PoolInv, HeldInv

\* _fill_pool, with no connection open.
LEMMA FillPoolKeeps ==
  ASSUME PoolInv, main' # "ending", FillPool
  PROVE  PoolInv'
<1> DEFINE q == [i \in 1..PoolSize |-> i]
<1>1. /\ conn' = [c \in Conns |-> IF c <= PoolSize THEN Opened ELSE conn[c]]
      /\ pool' = pool \o q
      /\ UNCHANGED <<disk, task, calls, faults, acked, failed>>
      /\ \A c \in Conns : ~conn[c].open
  BY DEF FillPool
<1>2. pool = <<>> /\ (\A t \in Tasks : ~Busy(t)) /\ \A c \in Conns : conn[c] = Closed
  BY <1>1, NothingHeld
<1>3. PoolSize \in Nat /\ MaxConns \in Nat /\ PoolSize <= MaxConns
  BY DatabaseAssumption
<1>4. 1..PoolSize \subseteq Conns
  BY <1>3 DEF Conns
<1>5. q \in Seq(Conns) /\ Len(q) = PoolSize
  BY <1>3, <1>4
<1>6. pool' = q
  BY <1>1, <1>2, <1>5
<1>7. DOMAIN q = 1..PoolSize /\ \A i \in 1..PoolSize : q[i] = i
  OBVIOUS
<1> HIDE DEF q
<1>8. Range(pool)' = 1..PoolSize
  BY <1>6, <1>7 DEF Range
<1>9. \A c \in Conns : conn'[c] = IF c \in 1..PoolSize THEN Opened ELSE Closed
  BY <1>1, <1>2, <1>3 DEF Conns
<1>10. PoolTypeOK'
  <2>1. conn' \in [Conns -> ConnRec]
    BY <1>1, <1>2, RecordTypes
  <2> QED
    BY <1>1, <1>5, <1>6, <2>1 DEF PoolInv, PoolTypeOK, ConnRec
<1>11. \A t \in Tasks : ~Busy(t)'
  BY <1>1, <1>2 DEF Busy
<1>12. PoolIsSound'
  BY <1>3, <1>5, <1>6, <1>7, <1>11 DEF PoolIsSound, Busy
<1>13. HeldInv'
  BY <1>8, <1>9, <1>11, RecordTypes DEF HeldInv
<1>14. TasksInv'
  BY <1>1, <1>11 DEF PoolInv, TasksInv, Busy
<1>15. TxInv'
  BY <1>9, RecordTypes DEF TxInv, Clean
<1>16. BlameInv'
  BY <1>1, <1>9, RecordTypes DEF PoolInv, BlameInv, LockoutsFollowAFailure
<1> QED
  BY <1>1, <1>10, <1>12, <1>13, <1>14, <1>15, <1>16 DEF PoolInv, EndingInv

\* close(): what is in the pool is closed, what is in somebody's hands is not.
LEMMA ClosePoolKeeps ==
  ASSUME PoolInv, main # "ending", main' # "ending", ClosePool
  PROVE  PoolInv'
<1>1. /\ conn' = [c \in Conns |-> IF c \in Range(pool) THEN Closed ELSE conn[c]]
      /\ pool' = <<>>
      /\ UNCHANGED <<disk, task, calls, faults, acked, failed>>
  BY DEF ClosePool
<1>2. PoolTypeOK'
  <2>1. conn' \in [Conns -> ConnRec] /\ pool' \in Seq(Conns)
    BY <1>1, PoolTypes, RecordTypes DEF PoolInv
  <2> QED
    BY <1>1, <2>1 DEF PoolInv, PoolTypeOK, ConnRec
<1>3. Range(pool)' = {}
  BY <1>1 DEF Range
<1>4. \A t \in Tasks : Busy(t) => task[t].conn \in Conns /\ task[t].conn \notin Range(pool)
  BY DEF PoolInv, PoolIsSound, TasksInv, Busy
<1>5. PoolIsSound'
  <2>1. Len(pool') <= PoolSize /\ DOMAIN pool' = {}
    BY <1>1, DatabaseAssumption
  <2> QED
    BY <1>1, <1>3, <2>1 DEF PoolInv, PoolIsSound
<1>6. HeldInv'
  BY <1>1, <1>3, <1>4, RecordTypes DEF PoolInv, HeldInv, Busy
<1>7. TasksInv'
  BY <1>1, <1>4 DEF PoolInv, TasksInv, Busy, WriteOf
<1>8. TxInv'
  <2>1. ASSUME NEW c \in Conns
        PROVE  \/ Clean(c)'
               \/ conn'[c].tx = "write" /\ \E t \in Tasks : task'[t].pc = "written" /\ task'[t].conn = c
    <3>1. CASE c \in Range(pool)
      BY <1>1, <3>1, RecordTypes DEF Clean
    <3>2. CASE c \notin Range(pool)
      BY <1>1, <3>2 DEF PoolInv, TxInv, Clean
    <3> QED
      BY <3>1, <3>2
  <2> QED
    BY <2>1 DEF TxInv
<1>9. BlameInv'
  BY <1>1, RecordTypes DEF PoolInv, BlameInv, LockoutsFollowAFailure
<1> QED
  BY <1>1, <1>2, <1>5, <1>6, <1>7, <1>8, <1>9 DEF PoolInv, EndingInv

\* After the end of the process nothing is open and nobody is at work.
LEMMA LosePoolKeeps ==
  ASSUME PoolInv, main' # "ending", LosePool
  PROVE  PoolInv' /\ (\A c \in Conns : conn'[c] = Closed) /\ (\A t \in Tasks : ~Busy(t)')
<1>1. /\ conn' = [c \in Conns |-> Closed]
      /\ pool' = <<>>
      /\ task' = [t \in Tasks |-> Idle]
      /\ UNCHANGED <<disk, calls, faults, acked, failed>>
  BY DEF LosePool
<1>2. PoolTypeOK'
  <2>1. conn' \in [Conns -> ConnRec] /\ pool' \in Seq(Conns) /\ task' \in [Tasks -> TaskRec]
    BY <1>1, RecordTypes
  <2> QED
    BY <1>1, <2>1 DEF PoolInv, PoolTypeOK, ConnRec, TaskRec
<1>3. Range(pool)' = {} /\ Len(pool') <= PoolSize /\ DOMAIN pool' = {}
  BY <1>1, DatabaseAssumption DEF Range
<1>4. \A t \in Tasks : task'[t] = Idle /\ ~Busy(t)'
  BY <1>1, RecordTypes DEF Busy
<1>5. \A c \in Conns : conn'[c] = Closed
  BY <1>1
<1>6. PoolIsSound'
  BY <1>3, <1>4 DEF PoolIsSound, Busy
<1>7. HeldInv' /\ TasksInv' /\ TxInv'
  BY <1>3, <1>4, <1>5, RecordTypes DEF HeldInv, TasksInv, TxInv, Clean, Idle
<1>8. BlameInv'
  BY <1>1, <1>5, RecordTypes DEF PoolInv, BlameInv, LockoutsFollowAFailure
<1> QED
  BY <1>1, <1>2, <1>4, <1>5, <1>6, <1>7, <1>8 DEF PoolInv, EndingInv

\* The cancellation: everybody inside a method is on the way to giving the
\* connection back.
LEMMA InterruptIs ==
  ASSUME PoolInv, NEW t \in Tasks
  PROVE  /\ Interrupt(t) \in TaskRec
         /\ Interrupt(t).conn = task[t].conn /\ Interrupt(t).kind = task[t].kind
         /\ Interrupt(t).user = task[t].user /\ Interrupt(t).call = task[t].call
         /\ Interrupt(t).pc = "idle" <=> task[t].pc = "idle"
         /\ Interrupt(t).pc \in {"idle", "returning"}
         /\ task[t].pc \in {"idle", "returning"} => Interrupt(t) = task[t]
         /\ task[t].pc \notin {"idle", "returning"} => ~Interrupt(t).ok
<1>1. task[t] \in TaskRec
  BY PoolTypes DEF PoolInv
<1> QED
  BY <1>1 DEF Interrupt, TaskRec

\* asyncio.run cancels the tasks at its end.
LEMMA CancelKeeps ==
  ASSUME PoolInv, main' = "ending",
         task' = [t \in Tasks |-> Interrupt(t)],
         UNCHANGED <<disk, conn, pool, calls, faults, acked, failed>>
  PROVE  PoolInv' /\ \A t \in Tasks : Busy(t)' <=> Busy(t)
<1>1. \A t \in Tasks : task'[t] = Interrupt(t)
  OBVIOUS
<1>2. \A t \in Tasks : Busy(t)' <=> Busy(t)
  BY <1>1, InterruptIs DEF Busy
<1>3. \A t \in Tasks : task'[t].conn = task[t].conn
  BY <1>1, InterruptIs
<1>4. PoolTypeOK'
  <2>1. task' \in [Tasks -> TaskRec]
    BY InterruptIs
  <2> QED
    BY <2>1 DEF PoolInv, PoolTypeOK, TaskRec
<1>5. PoolIsSound'
  BY <1>2, <1>3 DEF PoolInv, PoolIsSound, Busy, Range
<1>6. HeldInv'
  BY <1>2, <1>3 DEF PoolInv, HeldInv, Range
<1>7. TasksInv'
  <2> SUFFICES ASSUME NEW s \in Tasks
               PROVE  /\ Busy(s)' => /\ task'[s].conn \in Conns /\ task'[s].kind \in Kinds
                                     /\ task'[s].user \in Users /\ task'[s].call \in Calls
                      /\ ~Busy(s)' => task'[s] = Idle
                      /\ task'[s].pc # "written"
                      /\ task'[s].pc = "returning" /\ task'[s].ok /\ task'[s].kind # "select"
                           => WriteOf(s)' \in disk'
    BY DEF TasksInv
  <2>1. CASE task[s].pc \in {"idle", "returning"}
    BY <1>1, <2>1, InterruptIs DEF PoolInv, TasksInv, WriteOf, Busy
  <2>2. CASE task[s].pc \notin {"idle", "returning"}
    BY <1>1, <1>2, <2>2, InterruptIs DEF PoolInv, TasksInv, Busy
  <2> QED
    BY <2>1, <2>2
<1>8. TxInv'
  BY DEF PoolInv, TxInv, Clean
<1>9. EndingInv'
  BY <1>1, InterruptIs DEF EndingInv
<1>10. BlameInv'
  BY DEF PoolInv, BlameInv, LockoutsFollowAFailure
<1> QED
  BY <1>2, <1>4, <1>5, <1>6, <1>7, <1>8, <1>9, <1>10 DEF PoolInv

\* A method at work keeps the invariant, and touches nobody else's call.
LEMMA WorkingKeeps ==
  ASSUME PoolInv, NEW t \in Tasks, main' = main, Working(t)
  PROVE  PoolInv'
  BY SelectKeeps, WriteKeeps, LockedOutKeeps, FaultKeeps, CommitKeeps, GiveBackKeeps DEF Working

\* What leaves the pool alone keeps it in order, and so does the end of a run
\* that has closed its connections.
LEMMA PoolStutters ==
  ASSUME PoolInv, UNCHANGED poolVars,
         \/ main' = "ending" <=> main = "ending"
         \/ main' # "ending" /\ \A c \in Conns : ~conn[c].open
  PROVE  PoolInv'
<1>1. UNCHANGED <<disk, conn, pool, task, calls, faults, acked, failed>>
  BY DEF poolVars
<1>2. PoolTypeOK' /\ PoolIsSound' /\ HeldInv' /\ TasksInv'
  <2>1. PoolTypeOK'
    BY <1>1 DEF PoolInv, PoolTypeOK
  <2>2. PoolIsSound'
    BY <1>1 DEF PoolInv, PoolIsSound, Range
  <2>3. HeldInv'
    BY <1>1 DEF PoolInv, HeldInv, Range, Busy
  <2>4. TasksInv'
    BY <1>1 DEF PoolInv, TasksInv, Busy, WriteOf
  <2> QED
    BY <2>1, <2>2, <2>3, <2>4
<1>3. TxInv' /\ EndingInv'
  <2>1. CASE main' = "ending" <=> main = "ending"
    BY <1>1, <2>1 DEF PoolInv, TxInv, Clean, EndingInv
  <2>2. CASE main' # "ending" /\ \A c \in Conns : ~conn[c].open
    <3>1. \A c \in Conns : conn[c] = Closed
      BY <2>2, NothingHeld
    <3> QED
      BY <1>1, <2>2, <3>1, RecordTypes DEF TxInv, Clean, EndingInv
  <2> QED
    BY <2>1, <2>2
<1>4. acked' \subseteq disk' /\ BlameInv'
  BY <1>1 DEF PoolInv, BlameInv, LockoutsFollowAFailure
<1> QED
  BY <1>2, <1>3, <1>4 DEF PoolInv

\* A pool that was never filled.
LEMMA PoolInitInv == InitPool /\ main # "ending" => PoolInv
<1> SUFFICES ASSUME InitPool, main # "ending" PROVE PoolInv
  OBVIOUS
<1>1. /\ disk = {} /\ conn = [c \in Conns |-> Closed] /\ pool = <<>>
      /\ task = [t \in Tasks |-> Idle] /\ calls = 0 /\ faults = 0 /\ acked = {} /\ failed = {}
  BY DEF InitPool
<1>2. PoolTypeOK
  BY <1>1, RecordTypes, PoolTypes, DatabaseAssumption
<1>3. Range(pool) = {} /\ Len(pool) <= PoolSize /\ DOMAIN pool = {}
  BY <1>1, DatabaseAssumption DEF Range
<1>4. \A t \in Tasks : task[t] = Idle /\ ~Busy(t)
  BY <1>1, RecordTypes DEF Busy
<1>5. \A c \in Conns : conn[c] = Closed
  BY <1>1
<1>6. PoolIsSound
  BY <1>3, <1>4 DEF PoolIsSound, Busy
<1>7. HeldInv /\ TasksInv /\ TxInv
  BY <1>3, <1>4, <1>5, RecordTypes DEF HeldInv, TasksInv, TxInv, Clean, Idle
<1>8. BlameInv
  BY <1>1, <1>5, RecordTypes DEF BlameInv, LockoutsFollowAFailure
<1> QED
  BY <1>1, <1>2, <1>6, <1>7, <1>8 DEF PoolInv, EndingInv

-----------------------------------------------------------------------------
(* The parts of the invariant of the program. *)

\* The types of the program's own variables.
AppTypeOK ==
  /\ main \in {"down", "migrating", "filling", "admin", "bootstrap", "parts", "bot",
               "waiting", "stop_parts", "close", "returned", "raised", "ending"}
  /\ bot \in {"none", "building", "polling", "closing", "ended", "failed"}
  /\ running \in BOOLEAN /\ signalled \in BOOLEAN
  /\ sent \in 0..MaxUpdates /\ kept \subseteq Updates /\ offset \in 0..MaxUpdates
  /\ queue \subseteq Updates
  /\ handling \in [Handlers -> 0..MaxUpdates] /\ handled \in [Updates -> 0..MaxStarts]
  /\ starts \in 0..MaxStarts /\ ends \in 0..MaxEnds
  /\ code \in {"ok", "error", "killed", "never"}
  /\ cause \subseteq {"signal", "bot", "start", "late"}

\* main() while the bot's task may run, and before.
Serving == {"waiting", "stop_parts", "close", "returned"}
Starting == {"migrating", "filling", "admin", "bootstrap", "parts", "bot"}

\* Who may be inside a repository method, and when a connection may be open.
WorkInv ==
  /\ main \in {"down", "migrating", "filling"} => \A c \in Conns : ~conn[c].open
  /\ main \notin Serving \cup {"ending"} => \A h \in Handlers : ~Busy(h)
  /\ main \notin {"admin", "bootstrap"} => ~Busy(Main)

\* When the bot's task exists, and handlers have updates.
BotInv ==
  /\ main \in Starting \cup {"raised"} => bot = "none"
  /\ main \notin Serving => \A h \in Handlers : handling[h] = 0
  /\ main = "waiting" => bot \notin {"closing", "ended"} /\ (bot = "polling" => running)

\* ensure_admin: the select comes on connections at rest, the insert for the
\* owner, and then the owner's row is on disk.
AdminInv ==
  /\ main = "admin" => /\ \A c \in Conns : conn[c].tx = "none" /\ conn[c].own = {}
                       /\ Busy(Main) => task[Main].kind = "select"
  /\ main = "bootstrap" /\ Busy(Main) => task[Main].kind = "add" /\ task[Main].user = Admin
  /\ main \in Serving \cup {"parts", "bot"} => HasUser(Admin, disk)

\* Where the migrations are.
StageInv ==
  /\ main = "down" => mig.pc = "off"
  /\ main = "migrating" => mig.pc \notin {"done", "failed"}
  /\ main \in Serving \cup (Starting \ {"migrating"}) => mig.pc = "done"

\* An update that was fetched is not above the offset, and one that waits in the
\* queue was not handled.
UpdateInv ==
  /\ offset <= sent /\ \A u \in kept : u <= sent
  /\ \A u \in Updates : handled[u] <= 1 /\ (handled[u] > 0 => u <= offset)
  /\ \A u \in queue : u <= offset /\ handled[u] = 0
  /\ main # "down" => starts > 0

\* The history of what ends a run tells the truth, and without a failed start or a
\* late handler nothing is open at the end.
CauseInv ==
  /\ signalled => "signal" \in cause
  /\ bot = "failed" => "bot" \in cause
  /\ main \in {"stop_parts", "close", "returned"} => cause \cap {"signal", "bot"} # {}
  /\ main \in {"ending", "down"} /\ code = "ok" => cause \cap {"signal", "bot"} # {}
  /\ main \in {"returned", "raised", "ending"} /\ cause \cap {"start", "late"} = {}
       => \A c \in Conns : ~conn[c].open

-----------------------------------------------------------------------------
(* The steps of the program. *)

\* Whatever the program does, the migrations see one of their steps, an end, or
\* nothing.
LEMMA MigrationsKeep ==
  ASSUME MigInv, Next
  PROVE  MigInv'
<1>1. Migrate \/ EndMigration \/ UNCHANGED migVars
  BY DEF Next, MainSteps, BotSteps, HandlerSteps, Launch, StartRaises, BuildFails, Send, Signal,
     Kill, Migrating, Filling, AskForAdmin, CreateAdmin, MainAtDatabase, AdminAnswered, StartParts,
     SpawnBot, Wake, StopParts, CloseStorage, CancelTasks, Exit, BuildAndPoll, Poll, SeeStop,
     Shutdown, Handle, HandlerCall, HandlerAtDatabase, HandlerDone
<1> QED
  BY <1>1, MigStepKeeps

\* The steps that leave the pool alone do not begin or finish the end of a run,
\* but for its last one, which finds the pool closed.
LEMMA PoolKeeps ==
  ASSUME AppTypeOK, PoolInv, WorkInv, Next
  PROVE  PoolInv'
<1>1. CASE Migrating \/ Launch \/ StartRaises \/ BuildFails \/ Send \/ Signal \/ StartParts \/ SpawnBot
           \/ Wake \/ StopParts \/ BotSteps
  <2>1. UNCHANGED poolVars /\ (main' = "ending" <=> main = "ending")
    BY <1>1 DEF Migrating, Launch, StartRaises, BuildFails, Send, Signal, StartParts, SpawnBot,
       Wake, StopParts, BotSteps, BuildAndPoll, Poll, SeeStop, Shutdown
  <2> QED
    BY <2>1, PoolStutters
<1>2. CASE Filling
  BY <1>2, FillPoolKeeps DEF Filling
<1>3. CASE AskForAdmin \/ CreateAdmin
  <2>1. /\ main # "ending" /\ main' = main
        /\ Borrow(Main, "select", Admin) \/ Borrow(Main, "add", Admin)
    BY <1>3 DEF AskForAdmin, CreateAdmin, appVars
  <2> QED
    BY <2>1, BorrowKeeps, KindsHold, LifecycleAssumption
<1>4. CASE MainAtDatabase
  BY <1>4, WorkingKeeps, LifecycleAssumption DEF MainAtDatabase, Working, appVars
<1>5. CASE AdminAnswered
  <2>1. GiveBack(Main) /\ main' \in {"raised", "bootstrap", "parts"}
    BY <1>5 DEF AdminAnswered
  <2>2. Busy(Main)
    BY <2>1 DEF GiveBack, Busy
  <2>3. main # "ending"
    BY <2>2 DEF WorkInv
  <2> QED
    BY <2>1, <2>3, GiveBackKeeps, LifecycleAssumption
<1>6. CASE CloseStorage
  BY <1>6, ClosePoolKeeps DEF CloseStorage
<1>7. CASE CancelTasks
  BY <1>7, CancelKeeps DEF CancelTasks
<1>8. CASE Exit
  <2>1. UNCHANGED poolVars /\ main' # "ending" /\ \A c \in Conns : ~conn[c].open
    BY <1>8 DEF Exit, Open
  <2> QED
    BY <2>1, PoolStutters
<1>9. CASE Kill
  BY <1>9, LosePoolKeeps DEF Kill
<1>10. ASSUME NEW h \in Handlers, HandlerSteps(h)
       PROVE  PoolInv'
  <2>1. h \in Tasks
    BY DEF Handlers
  <2>2. CASE Handle(h) \/ HandlerDone(h)
    <3>1. UNCHANGED poolVars /\ main' = main
      BY <2>2 DEF Handle, HandlerDone
    <3> QED
      BY <3>1, PoolStutters
  <2>3. CASE HandlerCall(h)
    <3>1. PICK kind \in Traffic : Borrow(h, kind, Other)
      BY <2>3 DEF HandlerCall
    <3>2. main' = main /\ main # "ending"
      BY <2>3 DEF HandlerCall, Alive
    <3> QED
      BY <2>1, <3>1, <3>2, BorrowKeeps, LifecycleAssumption
  <2>4. CASE HandlerAtDatabase(h)
    BY <2>1, <2>4, WorkingKeeps DEF HandlerAtDatabase, appVars
  <2> QED
    BY <1>10, <2>2, <2>3, <2>4 DEF HandlerSteps
<1> QED
  BY <1>1, <1>2, <1>3, <1>4, <1>5, <1>6, <1>7, <1>8, <1>9, <1>10 DEF Next, MainSteps

\* The bounds are numbers.
LEMMA Bounds ==
  MaxStarts \in Nat /\ MaxUpdates \in Nat /\ MaxEnds \in Nat
  BY LifecycleAssumption

\* Who fetches, hands out and finishes updates.
LEMMA UpdatesKeep ==
  ASSUME AppTypeOK, WorkInv, UpdateInv, Next
  PROVE  /\ sent' \in 0..MaxUpdates /\ kept' \subseteq Updates /\ offset' \in 0..MaxUpdates
         /\ queue' \subseteq Updates
         /\ handling' \in [Handlers -> 0..MaxUpdates] /\ handled' \in [Updates -> 0..MaxStarts]
         /\ starts' \in 0..MaxStarts
         /\ UpdateInv'
<1>1. CASE Launch
  <2>1. UNCHANGED <<sent, kept, offset, queue, handling, handled>> /\ starts < MaxStarts /\ starts' = starts + 1
    BY <1>1 DEF Launch, Updating
  <2>2. starts \in 0..MaxStarts
    BY DEF AppTypeOK
  <2>3. starts' \in 0..MaxStarts /\ starts' > 0
    BY <2>1, <2>2, Bounds
  <2> QED
    BY <2>1, <2>3 DEF AppTypeOK, UpdateInv
<1>2. CASE \/ StartRaises \/ BuildFails \/ Signal \/ Migrating \/ Filling \/ AskForAdmin \/ CreateAdmin
           \/ MainAtDatabase \/ AdminAnswered \/ StartParts \/ SpawnBot \/ Wake \/ StopParts
           \/ CloseStorage \/ Exit \/ SeeStop
           \/ \E h \in Handlers : HandlerCall(h) \/ HandlerAtDatabase(h)
  <2>1. UNCHANGED <<sent, kept, offset, queue, handling, handled>>
    BY <1>2 DEF StartRaises, BuildFails, Signal, Migrating, Filling, AskForAdmin, CreateAdmin,
       MainAtDatabase, AdminAnswered, StartParts, SpawnBot, Wake, StopParts, CloseStorage,
       Exit, SeeStop, HandlerCall, HandlerAtDatabase, Updating, appVars
  <2>2. starts' = starts
    BY <1>2 DEF StartRaises, BuildFails, Signal, Migrating, Filling, AskForAdmin, CreateAdmin,
       MainAtDatabase, AdminAnswered, StartParts, SpawnBot, Wake, StopParts, CloseStorage,
       Exit, SeeStop, HandlerCall, HandlerAtDatabase, appVars
  <2>3. main' # "down" => main # "down"
    <3>1. CASE AdminAnswered
      <4>1. Busy(Main)
        BY <3>1 DEF AdminAnswered, GiveBack, Busy
      <4> QED
        BY <4>1 DEF WorkInv
    <3>2. CASE ~AdminAnswered
      BY <1>2, <3>2 DEF StartRaises, BuildFails, Signal, Migrating, Filling, AskForAdmin, CreateAdmin,
         MainAtDatabase, StartParts, SpawnBot, Wake, StopParts, CloseStorage,
         Exit, SeeStop, HandlerCall, HandlerAtDatabase, appVars
    <3> QED
      BY <3>1, <3>2
  <2> QED
    BY <2>1, <2>2, <2>3 DEF AppTypeOK, UpdateInv
<1>3. CASE BuildAndPoll
  <2>1. kept' = {} /\ offset' = sent /\ UNCHANGED <<sent, queue, handling, handled, starts, main>>
    BY <1>3 DEF BuildAndPoll
  <2>2. /\ sent \in 0..MaxUpdates /\ offset \in 0..MaxUpdates /\ queue \subseteq Updates
        /\ Updates \subseteq Nat
    BY Bounds DEF AppTypeOK, Updates
  <2>3. UpdateInv'
    BY <2>1, <2>2, Bounds DEF UpdateInv
  <2> QED
    BY <2>1, <2>3 DEF AppTypeOK
<1>4. CASE Poll
  <2>1. /\ kept' = {u \in kept : u > offset} /\ queue' = queue \cup {u \in kept : u > offset}
        /\ offset' = sent /\ UNCHANGED <<sent, handling, handled, starts, main>>
    BY <1>4 DEF Poll
  <2>2. /\ sent \in 0..MaxUpdates /\ offset \in 0..MaxUpdates /\ kept \subseteq Updates /\ queue \subseteq Updates
        /\ handled \in [Updates -> 0..MaxStarts]
    BY DEF AppTypeOK
  <2>3. \A u \in Updates : u \in Nat /\ handled[u] \in Nat
    BY <2>2, Bounds DEF Updates
  <2>4. UpdateInv'
    BY <2>1, <2>2, <2>3, Bounds DEF UpdateInv
  <2> QED
    BY <2>1, <2>2, <2>4 DEF AppTypeOK
<1>5. CASE Send
  <2>1. /\ sent < MaxUpdates /\ sent' = sent + 1 /\ kept' = kept \cup {sent + 1}
        /\ UNCHANGED <<offset, queue, handling, handled, starts, main>>
    BY <1>5 DEF Send
  <2>2. /\ sent \in 0..MaxUpdates /\ offset \in 0..MaxUpdates /\ kept \subseteq Updates
    BY DEF AppTypeOK
  <2>3. sent + 1 \in Updates /\ sent' \in 0..MaxUpdates
    BY <2>1, <2>2, Bounds DEF Updates
  <2>4. UpdateInv'
    BY <2>1, <2>2, Bounds DEF UpdateInv, Updates
  <2> QED
    BY <2>1, <2>2, <2>3, <2>4 DEF AppTypeOK
<1>6. ASSUME NEW h \in Handlers, Handle(h)
      PROVE  /\ queue' \subseteq queue
             /\ handling' \in [Handlers -> 0..MaxUpdates] /\ handled' \in [Updates -> 0..MaxStarts]
             /\ UNCHANGED <<sent, kept, offset, starts, main>>
             /\ UpdateInv'
  <2>1. PICK u \in queue :
          /\ queue' = queue \ {u}
          /\ handling' = [handling EXCEPT ![h] = u]
          /\ handled' = [handled EXCEPT ![u] = @ + 1]
    BY <1>6 DEF Handle
  <2>2. UNCHANGED <<sent, kept, offset, starts, main>> /\ main # "down"
    BY <1>6 DEF Handle, Alive
  <2>3. /\ u \in Updates /\ handled \in [Updates -> 0..MaxStarts] /\ handling \in [Handlers -> 0..MaxUpdates]
        /\ offset \in 0..MaxUpdates /\ starts \in 0..MaxStarts
    BY <2>1 DEF AppTypeOK
  <2>4. handled[u] = 0 /\ u <= offset /\ starts > 0
    BY <2>1, <2>2 DEF UpdateInv
  <2>5. handled'[u] = 1 /\ 1 \in 0..MaxStarts /\ \A v \in Updates : v # u => handled'[v] = handled[v]
    BY <2>1, <2>3, <2>4, Bounds
  <2>6. handled' \in [Updates -> 0..MaxStarts] /\ handling' \in [Handlers -> 0..MaxUpdates]
    BY <2>1, <2>3, <2>4, <2>5 DEF Updates
  <2>7. \A v \in queue' : v # u /\ v \in queue /\ v \in Updates
    BY <2>1 DEF AppTypeOK
  <2>8. UpdateInv'
    BY <2>2, <2>4, <2>5, <2>7 DEF UpdateInv
  <2> QED
    BY <2>1, <2>2, <2>6, <2>8
<1>7. CASE \/ Shutdown \/ CancelTasks \/ Kill \/ \E h \in Handlers : HandlerDone(h)
  <2>1. UNCHANGED <<sent, offset, handled, starts>> /\ kept' \subseteq kept /\ queue' \subseteq queue
    BY <1>7 DEF Shutdown, CancelTasks, Kill, HandlerDone
  <2>2. main' # "down" => main # "down"
    BY <1>7 DEF Shutdown, CancelTasks, Kill, HandlerDone, Alive
  <2>3. handling' \in [Handlers -> 0..MaxUpdates]
    BY <1>7, Bounds DEF Shutdown, CancelTasks, Kill, HandlerDone, AppTypeOK
  <2> QED
    BY <2>1, <2>2, <2>3 DEF AppTypeOK, UpdateInv
<1> QED
  BY <1>1, <1>2, <1>3, <1>4, <1>5, <1>6, <1>7 DEF Next, MainSteps, BotSteps, HandlerSteps, AppTypeOK

\* The other variables of the program keep their types.
LEMMA TypesKeep ==
  ASSUME AppTypeOK, Next
  PROVE  /\ main' \in {"down", "migrating", "filling", "admin", "bootstrap", "parts", "bot",
                       "waiting", "stop_parts", "close", "returned", "raised", "ending"}
         /\ bot' \in {"none", "building", "polling", "closing", "ended", "failed"}
         /\ running' \in BOOLEAN /\ signalled' \in BOOLEAN
         /\ ends' \in 0..MaxEnds
         /\ code' \in {"ok", "error", "killed", "never"}
         /\ cause' \subseteq {"signal", "bot", "start", "late"}
<1>1. CASE \/ Launch \/ StartRaises \/ BuildFails \/ Send \/ Signal \/ Kill
  <2>1. ends' = ends \/ (ends < MaxEnds /\ ends' = ends + 1)
    BY <1>1 DEF Launch, StartRaises, BuildFails, Send, Signal, Kill
  <2>2. ends' \in 0..MaxEnds
    BY <2>1, Bounds DEF AppTypeOK
  <2>3. main' \in {main, "migrating", "raised", "down"} /\ bot' \in {bot, "none", "failed"}
        /\ code' \in {code, "killed"} /\ cause' \subseteq cause \cup {"start", "bot", "signal"}
    BY <1>1 DEF Launch, StartRaises, BuildFails, Send, Signal, Kill
  <2>4. running' \in BOOLEAN /\ signalled' \in BOOLEAN
    BY <1>1 DEF Launch, StartRaises, BuildFails, Send, Signal, Kill, AppTypeOK
  <2>5. cause' \subseteq {"signal", "bot", "start", "late"}
    BY <2>3 DEF AppTypeOK
  <2> QED
    BY <2>2, <2>3, <2>4, <2>5 DEF AppTypeOK
<1>2. CASE \/ Migrating \/ Filling \/ AskForAdmin \/ CreateAdmin \/ MainAtDatabase
  BY <1>2 DEF Migrating, Filling, AskForAdmin, CreateAdmin, MainAtDatabase, appVars, AppTypeOK
<1>3. CASE AdminAnswered
  BY <1>3 DEF AdminAnswered, AppTypeOK
<1>4. CASE StartParts \/ SpawnBot \/ Wake \/ StopParts \/ CloseStorage
  BY <1>4 DEF StartParts, SpawnBot, Wake, StopParts, CloseStorage, AppTypeOK
<1>5. CASE CancelTasks \/ Exit
  BY <1>5 DEF CancelTasks, Exit, AppTypeOK
<1>6. CASE BotSteps
  BY <1>6, ZenonT(30) DEF BotSteps, BuildAndPoll, Poll, SeeStop, Shutdown, AppTypeOK
<1>7. ASSUME NEW h \in Handlers, HandlerSteps(h)
      PROVE  /\ UNCHANGED <<main, bot, running, signalled, ends, code>>
             /\ cause' \subseteq {"signal", "bot", "start", "late"}
  <2>1. /\ UNCHANGED <<main, bot, running, signalled, ends, code>>
        /\ cause' \subseteq cause \cup {"late"}
    BY <1>7 DEF HandlerSteps, Handle, HandlerCall, HandlerAtDatabase, HandlerDone, appVars
  <2> QED
    BY <2>1 DEF AppTypeOK
<1>8. CASE \E h \in Handlers : HandlerSteps(h)
  BY <1>7, <1>8 DEF AppTypeOK
<1> QED
  BY <1>1, <1>2, <1>3, <1>4, <1>5, <1>6, <1>8 DEF Next, MainSteps

\* The migrations are where main() is.
LEMMA StageKeeps ==
  ASSUME AppTypeOK, WorkInv, StageInv, Next
  PROVE  StageInv'
<1>1. CASE Migrating
  <2>1. main = "migrating" /\ main' = CASE mig'.pc = "done" -> "filling" [] mig'.pc = "failed" -> "raised"
                                        [] OTHER -> main
    BY <1>1 DEF Migrating
  <2> QED
    BY <2>1 DEF StageInv, Serving, Starting
<1>2. CASE Exit \/ Kill
  <2>1. main' = "down" /\ mig' = Off
    BY <1>2 DEF Exit, Kill, EndMigration
  <2> QED
    BY <2>1 DEF StageInv, Serving, Starting, Off
<1>3. CASE Launch \/ StartRaises \/ Filling \/ StartParts \/ SpawnBot \/ Wake \/ StopParts \/ CloseStorage
           \/ CancelTasks
  BY <1>3 DEF Launch, StartRaises, Filling, StartParts, SpawnBot, Wake, StopParts, CloseStorage, CancelTasks,
     migVars, StageInv, Serving, Starting
<1>4. CASE AdminAnswered
  <2>1. main' \in {"raised", "bootstrap", "parts"} /\ mig' = mig /\ Busy(Main)
    BY <1>4 DEF AdminAnswered, migVars, GiveBack, Busy
  <2>2. main \in {"admin", "bootstrap"} \/ main = "ending"
    BY <2>1 DEF WorkInv
  <2> QED
    BY <2>1, <2>2 DEF StageInv, WorkInv, Serving, Starting
<1>5. CASE \/ BuildFails \/ Send \/ Signal \/ AskForAdmin \/ CreateAdmin \/ MainAtDatabase \/ BotSteps
           \/ \E h \in Handlers : HandlerSteps(h)
  <2>1. main' = main /\ mig' = mig
    BY <1>5 DEF BuildFails, Send, Signal, AskForAdmin, CreateAdmin, MainAtDatabase, BotSteps,
       BuildAndPoll, Poll, SeeStop, Shutdown, HandlerSteps, Handle, HandlerCall, HandlerAtDatabase,
       HandlerDone, migVars, appVars
  <2> QED
    BY <2>1 DEF StageInv
<1> QED
  BY <1>1, <1>2, <1>3, <1>4, <1>5 DEF Next, MainSteps

\* What each task of a call does to the others: nothing.
LEMMA WorkingLocal ==
  ASSUME PoolInv, NEW t \in Tasks, Working(t)
  PROVE  /\ \A s \in Tasks : s # t => task'[s] = task[s]
         /\ Busy(t)
         /\ disk \subseteq disk'
<1>1. task \in [Tasks -> TaskRec]
  BY PoolTypes DEF PoolInv
<1>2. \E r : task' = [task EXCEPT ![t] = r]
  BY DEF Working, Select, Write, LockedOut, Fault, Commit, GiveBack, Raise
<1>3. Busy(t) /\ disk \subseteq disk'
  BY DEF Working, Select, Write, LockedOut, Fault, Commit, GiveBack, Busy
<1> QED
  BY <1>1, <1>2, <1>3

\* A call that enters its method touches nobody else's, and opens at most one
\* connection, a fresh one.
LEMMA BorrowLocal ==
  ASSUME PoolInv, NEW t \in Tasks, NEW kind, NEW u, Borrow(t, kind, u)
  PROVE  /\ \A s \in Tasks : s # t => task'[s] = task[s]
         /\ task'[t].kind = kind /\ task'[t].user = u
         /\ disk' = disk
         /\ \A c \in Conns : conn'[c] = conn[c] \/ conn'[c] = Opened
<1>1. task \in [Tasks -> TaskRec] /\ conn \in [Conns -> ConnRec]
  BY PoolTypes DEF PoolInv
<1>2. PICK c \in Conns :
        /\ task' = [task EXCEPT ![t] = [pc |-> "borrowed", conn |-> c, kind |-> kind,
                                        user |-> u, call |-> calls', ok |-> TRUE]]
        /\ \/ conn[c].open /\ conn' = conn
           \/ conn' = [conn EXCEPT ![c] = Opened]
  BY BorrowTakes
<1>3. disk' = disk
  BY DEF Borrow
<1> QED
  BY <1>1, <1>2, <1>3

\* Main is at the database only to look for the owner, and the handlers are there
\* only while updates may be handled.
LEMMA WorkKeeps ==
  ASSUME AppTypeOK, PoolInv, WorkInv, BotInv, Next
  PROVE  WorkInv'
<1>1. Main \in Tasks /\ Main \notin Handlers /\ Handlers \subseteq Tasks
  BY LifecycleAssumption DEF Handlers
<1>2. CASE Launch \/ StartRaises \/ BuildFails \/ Send \/ Signal \/ Migrating \/ StartParts \/ SpawnBot
           \/ Wake \/ StopParts \/ BotSteps
  <2>1. UNCHANGED poolVars
    BY <1>2 DEF Launch, StartRaises, BuildFails, Send, Signal, Migrating, StartParts, SpawnBot,
           Wake, StopParts, BotSteps, BuildAndPoll, Poll, SeeStop, Shutdown
  <2>2. /\ main' \in {"down", "migrating", "filling"} => main \in {"down", "migrating", "filling"}
        /\ main' \notin Serving \cup {"ending"} => main \notin Serving \cup {"ending"}
        /\ main' \notin {"admin", "bootstrap"} => main \notin {"admin", "bootstrap"}
    BY <1>2 DEF Launch, StartRaises, BuildFails, Send, Signal, Migrating, StartParts, SpawnBot,
           Wake, StopParts, BotSteps, BuildAndPoll, Poll, SeeStop, Shutdown, Serving
  <2> QED
    BY <2>1, <2>2 DEF poolVars, WorkInv, Busy
<1>3. CASE Filling
  <2>1. task' = task /\ main' = "admin" /\ main = "filling"
    BY <1>3 DEF Filling, FillPool
  <2> QED
    BY <2>1 DEF WorkInv, Busy, Serving
<1>4. CASE AskForAdmin \/ CreateAdmin \/ MainAtDatabase \/ AdminAnswered
  <2>1. \A h \in Handlers : task'[h] = task[h]
    BY <1>1, <1>4, BorrowLocal, WorkingLocal
       DEF AskForAdmin, CreateAdmin, MainAtDatabase, AdminAnswered, Working
  <2>2. main \in {"admin", "bootstrap"}
    <3>1. CASE AskForAdmin \/ CreateAdmin
      BY <3>1 DEF AskForAdmin, CreateAdmin
    <3>2. CASE MainAtDatabase \/ AdminAnswered
      BY <1>1, <3>2, WorkingLocal DEF MainAtDatabase, AdminAnswered, Working, WorkInv
    <3> QED
      BY <1>4, <3>1, <3>2
  <2>3. main' \in {"admin", "bootstrap"} \/ (~Busy(Main)' /\ main' \in {"raised", "bootstrap", "parts"})
    <3>1. CASE AskForAdmin \/ CreateAdmin \/ MainAtDatabase
      BY <2>2, <3>1 DEF AskForAdmin, CreateAdmin, MainAtDatabase, appVars
    <3>2. CASE AdminAnswered
      <4>1. task' = [task EXCEPT ![Main] = Idle] /\ main' \in {"raised", "bootstrap", "parts"}
        BY <3>2 DEF AdminAnswered, GiveBack
      <4>2. task'[Main] = Idle
        BY <1>1, <4>1, PoolTypes DEF PoolInv
      <4> QED
        BY <4>1, <4>2, RecordTypes DEF Busy
    <3> QED
      BY <1>4, <3>1, <3>2
  <2> QED
    BY <2>1, <2>2, <2>3 DEF WorkInv, Busy, Serving
<1>5. CASE CloseStorage
  <2>1. task' = task /\ main = "close" /\ main' = "returned"
    BY <1>5 DEF CloseStorage, ClosePool
  <2> QED
    BY <2>1 DEF WorkInv, Busy, Serving
<1>6. CASE CancelTasks
  <2>1. main' = "ending" /\ main \in {"returned", "raised"} /\ \A t \in Tasks : Busy(t)' <=> Busy(t)
    BY <1>6, CancelKeeps DEF CancelTasks
  <2> QED
    BY <1>1, <2>1 DEF WorkInv, Serving
<1>7. CASE Exit
  <2>1. /\ UNCHANGED poolVars /\ main' = "down"
        /\ \A c \in Conns : ~conn[c].open
        /\ \A t \in Tasks : ~Busy(t)
    BY <1>7 DEF Exit, Open, Finished, Busy
  <2> QED
    BY <1>1, <2>1 DEF WorkInv, poolVars, Busy
<1>8. CASE Kill
  <2>1. /\ main' = "down" /\ (\A c \in Conns : conn'[c] = Closed) /\ \A t \in Tasks : ~Busy(t)'
    BY <1>8, LosePoolKeeps DEF Kill
  <2> QED
    BY <1>1, <2>1, RecordTypes DEF WorkInv
<1>9. ASSUME NEW h \in Handlers, Handle(h) \/ HandlerDone(h)
      PROVE  WorkInv'
  <2>1. UNCHANGED poolVars /\ main' = main
    BY <1>9 DEF Handle, HandlerDone
  <2> QED
    BY <2>1 DEF poolVars, WorkInv, Busy
<1>10. ASSUME NEW h \in Handlers, HandlerCall(h) \/ HandlerAtDatabase(h)
       PROVE  WorkInv'
  <2>1. main' = main /\ task'[Main] = task[Main]
    BY <1>1, <1>10, BorrowLocal, WorkingLocal DEF HandlerCall, HandlerAtDatabase, appVars
  <2>2. main \in Serving \cup {"ending"}
    <3>1. CASE HandlerCall(h)
      BY <3>1 DEF HandlerCall, BotInv
    <3>2. CASE HandlerAtDatabase(h)
      BY <1>1, <3>2, WorkingLocal DEF HandlerAtDatabase, WorkInv
    <3> QED
      BY <1>10, <3>1, <3>2
  <2> QED
    BY <2>1, <2>2 DEF WorkInv, Busy, Serving
<1> QED
  BY <1>2, <1>3, <1>4, <1>5, <1>6, <1>7, <1>8, <1>9, <1>10 DEF Next, MainSteps, HandlerSteps

\* The bot's task exists only while main() waits for it or ends.
LEMMA BotKeeps ==
  ASSUME AppTypeOK, WorkInv, BotInv, Next
  PROVE  BotInv'
<1>1. CASE Launch \/ StartRaises \/ BuildFails \/ Send \/ Signal
  BY <1>1 DEF Launch, StartRaises, BuildFails, Send, Signal, Updating, BotInv, Serving, Starting
<1>2. CASE Migrating \/ Filling \/ AskForAdmin \/ CreateAdmin \/ MainAtDatabase
  <2>1. /\ UNCHANGED <<bot, running, handling>>
        /\ main' = main \/ (main \in Starting /\ main' \in {"filling", "raised", "admin"})
    BY <1>2 DEF Migrating, Filling, AskForAdmin, CreateAdmin, MainAtDatabase, appVars, Updating, Starting
  <2> QED
    BY <2>1 DEF BotInv, Serving, Starting
<1>3. CASE AdminAnswered
  <2>1. main' \in {"raised", "bootstrap", "parts"} /\ UNCHANGED <<bot, running, handling>> /\ Busy(Main)
    BY <1>3 DEF AdminAnswered, Updating, GiveBack, Busy
  <2> QED
    BY <2>1 DEF WorkInv, BotInv, Serving, Starting
<1>4. CASE StartParts \/ SpawnBot \/ Wake \/ StopParts \/ CloseStorage \/ Exit
  BY <1>4 DEF StartParts, SpawnBot, Wake, StopParts, CloseStorage, Exit, Finished, Updating, BotInv,
     Serving, Starting
<1>5. CASE CancelTasks \/ Kill
  <2>1. main' \in {"ending", "down"} /\ \A h \in Handlers : handling'[h] = 0
    BY <1>5 DEF CancelTasks, Kill
  <2> QED
    BY <2>1 DEF BotInv, Serving, Starting
<1>6. CASE BotSteps
  BY <1>6 DEF BotSteps, BuildAndPoll, Poll, SeeStop, Shutdown, Updating, BotInv, Serving, Starting
<1>7. ASSUME NEW h \in Handlers, Handle(h)
      PROVE  BotInv'
  <2>1. UNCHANGED <<main, bot, running>> /\ Alive /\ bot # "none"
    BY <1>7 DEF Handle
  <2>2. main \in Serving
    BY <2>1 DEF Alive, BotInv, AppTypeOK, Serving, Starting
  <2> QED
    BY <2>1, <2>2 DEF BotInv, Serving, Starting
<1>8. ASSUME NEW h \in Handlers, HandlerCall(h) \/ HandlerAtDatabase(h) \/ HandlerDone(h)
      PROVE  BotInv'
  <2>1. UNCHANGED <<main, bot, running>>
    BY <1>8 DEF HandlerCall, HandlerAtDatabase, HandlerDone, appVars
  <2>2. \A g \in Handlers : handling'[g] = handling[g] \/ handling'[g] = 0
    BY <1>8 DEF HandlerCall, HandlerAtDatabase, HandlerDone, Updating, appVars, AppTypeOK
  <2> QED
    BY <2>1, <2>2 DEF BotInv
<1> QED
  BY <1>1, <1>2, <1>3, <1>4, <1>5, <1>6, <1>7, <1>8 DEF Next, MainSteps, HandlerSteps

\* Before updates are handled the owner's row is on disk: found by the first
\* question of the run, or written by the second.
LEMMA AdminKeeps ==
  ASSUME AppTypeOK, PoolInv, WorkInv, BotInv, AdminInv, Next
  PROVE  AdminInv'
<1>1. Main \in Tasks /\ Main \notin Handlers /\ Handlers \subseteq Tasks
  BY LifecycleAssumption DEF Handlers
<1>2. HasUser(Admin, disk) /\ disk \subseteq disk' => HasUser(Admin, disk)'
  BY DEF HasUser
<1>3. CASE Launch \/ Migrating \/ Exit \/ Kill \/ CancelTasks
  <2>1. main' \in {"migrating", "filling", "raised", "down", "ending"}
    BY <1>3 DEF Launch, Migrating, Exit, Kill, CancelTasks
  <2> QED
    BY <2>1 DEF AdminInv, Serving
<1>4. CASE StartRaises \/ BuildFails \/ Send \/ Signal \/ StartParts \/ SpawnBot \/ Wake \/ StopParts \/ BotSteps
  <2>1. UNCHANGED <<conn, task, disk>>
    BY <1>4 DEF StartRaises, BuildFails, Send, Signal, StartParts, SpawnBot, Wake, StopParts,
       BotSteps, BuildAndPoll, Poll, SeeStop, Shutdown, poolVars
  <2>2. /\ main' \in {"admin", "bootstrap"} => main' = main
        /\ main' \in Serving \cup {"parts", "bot"} => main \in Serving \cup {"parts", "bot"}
    BY <1>4 DEF StartRaises, BuildFails, Send, Signal, StartParts, SpawnBot, Wake, StopParts,
       BotSteps, BuildAndPoll, Poll, SeeStop, Shutdown, Serving
  <2> QED
    BY <1>2, <2>1, <2>2 DEF AdminInv, Busy
<1>5. CASE Filling
  <2>1. /\ main = "filling" /\ main' = "admin" /\ task' = task
        /\ \A c \in Conns : ~conn[c].open
        /\ \A c \in Conns : conn'[c] = Opened \/ conn'[c] = conn[c]
    BY <1>5 DEF Filling, FillPool
  <2>2. \A c \in Conns : conn[c] = Closed
    BY <2>1, NothingHeld
  <2>3. ~Busy(Main)'
    BY <2>1 DEF WorkInv, Busy
  <2> QED
    BY <2>1, <2>2, <2>3, RecordTypes DEF AdminInv, Serving
<1>6. CASE AskForAdmin
  <2>1. main = "admin" /\ main' = "admin" /\ Borrow(Main, "select", Admin)
    BY <1>6 DEF AskForAdmin, appVars
  <2>2. task'[Main].kind = "select" /\ \A c \in Conns : conn'[c] = conn[c] \/ conn'[c] = Opened
    BY <1>1, <2>1, BorrowLocal
  <2> QED
    BY <2>1, <2>2, RecordTypes DEF AdminInv, Serving
<1>7. CASE CreateAdmin
  <2>1. main = "bootstrap" /\ main' = "bootstrap" /\ Borrow(Main, "add", Admin)
    BY <1>7 DEF CreateAdmin, appVars
  <2>2. task'[Main].kind = "add" /\ task'[Main].user = Admin
    BY <1>1, <2>1, BorrowLocal
  <2> QED
    BY <2>1, <2>2 DEF AdminInv, Serving
<1>8. CASE MainAtDatabase
  <2>1. /\ main' = main /\ Working(Main)
        /\ Select(Main) \/ Write(Main) \/ LockedOut(Main) \/ Fault(Main) \/ Commit(Main)
    BY <1>8 DEF MainAtDatabase, Working, appVars
  <2>2. Busy(Main) /\ disk \subseteq disk' /\ main \in {"admin", "bootstrap"}
    BY <1>1, <2>1, WorkingLocal DEF WorkInv
  <2>3. task[Main] \in TaskRec /\ task \in [Tasks -> TaskRec] /\ task[Main].conn \in Conns
    BY <1>1, <2>2, BusyTask, PoolTypes DEF PoolInv
  <2>4. task'[Main].kind = task[Main].kind /\ task'[Main].user = task[Main].user
    <3>1. CASE Select(Main)
      BY <1>1, <2>3, <3>1 DEF TaskRec, Select, Raise
    <3>2. CASE Write(Main)
      BY <1>1, <2>3, <3>2 DEF TaskRec, Write, Raise
    <3>3. CASE LockedOut(Main)
      BY <1>1, <2>3, <3>3 DEF TaskRec, LockedOut, Raise
    <3>4. CASE Fault(Main)
      BY <1>1, <2>3, <3>4 DEF TaskRec, Fault, Raise
    <3>5. CASE Commit(Main)
      BY <1>1, <2>3, <3>5 DEF TaskRec, Commit, Raise
    <3> QED
      BY <2>1, <3>1, <3>2, <3>3, <3>4, <3>5
  <2>5. CASE main = "admin"
    <3>1. task[Main].kind = "select" /\ conn[task[Main].conn].tx = "none"
      BY <2>2, <2>3, <2>5 DEF AdminInv
    <3>2. task[Main].pc # "written"
      BY <1>1, <3>1 DEF PoolInv, TasksInv
    <3>3. Select(Main)
      BY <2>1, <3>1, <3>2 DEF Write, LockedOut, Fault, Commit
    <3>4. conn' = conn
      BY <3>1, <3>3 DEF Select
    <3> QED
      BY <2>1, <2>4, <2>5, <3>1, <3>4 DEF AdminInv, Serving
  <2>6. CASE main = "bootstrap"
    BY <2>1, <2>2, <2>4, <2>6 DEF AdminInv, Serving
  <2> QED
    BY <2>2, <2>5, <2>6
<1>9. CASE AdminAnswered
  <2>1. /\ GiveBack(Main) /\ Busy(Main) /\ task[Main].pc = "returning" /\ disk' = disk
        /\ main' = CASE ~task[Main].ok -> "raised"
                     [] task[Main].kind = "select" /\ ~HasUser(Admin, Seen(task[Main].conn)) -> "bootstrap"
                     [] OTHER -> "parts"
    BY <1>9 DEF AdminAnswered, GiveBack, Busy
  <2>2. main \in {"admin", "bootstrap"} /\ task[Main].conn \in Conns
    BY <1>1, <2>1, BusyTask DEF WorkInv
  <2>3. task'[Main] = Idle
    BY <1>1, <2>1, PoolTypes DEF PoolInv, GiveBack
  <2>4. ~Busy(Main)'
    BY <2>3, RecordTypes DEF Busy
  <2>5. main' = "parts" => HasUser(Admin, disk)
    <3> SUFFICES ASSUME main' = "parts" PROVE HasUser(Admin, disk)
      OBVIOUS
    <3>1. task[Main].ok /\ ~(task[Main].kind = "select" /\ ~HasUser(Admin, Seen(task[Main].conn)))
      BY <2>1, Zenon
    <3>2. CASE main = "admin"
      <4>1. task[Main].kind = "select" /\ conn[task[Main].conn].tx = "none" /\ conn[task[Main].conn].own = {}
        BY <2>1, <2>2, <3>2 DEF AdminInv
      <4>2. Seen(task[Main].conn) = disk
        BY <4>1 DEF Seen
      <4> QED
        BY <3>1, <4>1, <4>2
    <3>3. CASE main = "bootstrap"
      <4>1. task[Main].kind = "add" /\ task[Main].user = Admin
        BY <2>1, <3>3 DEF AdminInv
      <4>2. WriteOf(Main) \in disk
        BY <1>1, <2>1, <3>1, <4>1 DEF PoolInv, TasksInv
      <4> QED
        BY <4>1, <4>2 DEF HasUser, WriteOf
    <3> QED
      BY <2>2, <3>2, <3>3
  <2>6. main' \in {"raised", "bootstrap", "parts"}
    BY <2>1, Zenon
  <2>7. main' = "parts" => HasUser(Admin, disk)'
    BY <1>2, <2>1, <2>5
  <2> QED
    BY <2>4, <2>6, <2>7 DEF AdminInv, Serving
<1>10. CASE CloseStorage
  <2>1. disk' = disk /\ main = "close" /\ main' = "returned"
    BY <1>10 DEF CloseStorage, ClosePool
  <2> QED
    BY <1>2, <2>1 DEF AdminInv, Serving
<1>11. ASSUME NEW h \in Handlers, HandlerSteps(h)
       PROVE  AdminInv'
  <2>1. CASE Handle(h) \/ HandlerDone(h)
    <3>1. UNCHANGED <<conn, task, disk, main>>
      BY <2>1 DEF Handle, HandlerDone, poolVars
    <3> QED
      BY <1>2, <3>1 DEF AdminInv, Busy
  <2>2. CASE HandlerCall(h) \/ HandlerAtDatabase(h)
    <3>1. main' = main /\ disk \subseteq disk'
      BY <1>1, <2>2, BorrowLocal, WorkingLocal DEF HandlerCall, HandlerAtDatabase, appVars
    <3>2. main \in Serving \cup {"ending"}
      <4>1. CASE HandlerCall(h)
        BY <4>1 DEF HandlerCall, BotInv
      <4>2. CASE HandlerAtDatabase(h)
        BY <1>1, <4>2, WorkingLocal DEF HandlerAtDatabase, WorkInv
      <4> QED
        BY <2>2, <4>1, <4>2
    <3> QED
      BY <1>2, <3>1, <3>2 DEF AdminInv, Serving
  <2> QED
    BY <1>11, <2>1, <2>2 DEF HandlerSteps
<1> QED
  BY <1>3, <1>4, <1>5, <1>6, <1>7, <1>8, <1>9, <1>10, <1>11 DEF Next, MainSteps

\* What ends a run, or keeps it from ending, has left its mark.
LEMMA CausesKeep ==
  ASSUME AppTypeOK, PoolInv, WorkInv, BotInv, StageInv, CauseInv, Next
  PROVE  CauseInv'
<1>1. Main \in Tasks /\ Main \notin Handlers /\ Handlers \subseteq Tasks /\ Tasks = Handlers \cup {Main}
  BY LifecycleAssumption DEF Handlers
<1>2. CASE Launch
  BY <1>2 DEF Launch, CauseInv
<1>3. CASE Migrating
  <2>1. /\ UNCHANGED <<poolVars, bot, signalled, cause>> /\ main = "migrating"
        /\ main' \in {"migrating", "filling", "raised"}
    BY <1>3 DEF Migrating
  <2> QED
    BY <2>1 DEF CauseInv, WorkInv, poolVars
<1>4. CASE Filling \/ AskForAdmin \/ CreateAdmin \/ MainAtDatabase
  <2>1. /\ UNCHANGED <<bot, signalled, code, cause>>
        /\ main' \in {"admin", "bootstrap"}
    <3>1. CASE Filling \/ AskForAdmin \/ CreateAdmin
      BY <3>1 DEF Filling, AskForAdmin, CreateAdmin, appVars
    <3>2. CASE MainAtDatabase
      BY <1>1, <3>2, WorkingLocal DEF MainAtDatabase, Working, WorkInv, appVars
    <3> QED
      BY <1>4, <3>1, <3>2
  <2> QED
    BY <2>1 DEF CauseInv
<1>5. CASE AdminAnswered
  <2>1. /\ UNCHANGED <<bot, signalled, code>>
        /\ main' \in {"raised", "bootstrap", "parts"}
        /\ cause \subseteq cause' /\ (main' = "raised" => "start" \in cause')
    BY <1>5 DEF AdminAnswered
  <2> QED
    BY <2>1 DEF CauseInv
<1>6. CASE StartParts \/ StartRaises \/ SpawnBot
  BY <1>6 DEF StartParts, StartRaises, SpawnBot, CauseInv
<1>7. CASE BuildFails \/ Send \/ Signal \/ BotSteps
  <2>1. /\ UNCHANGED <<conn, main, code>> /\ cause \subseteq cause'
        /\ signalled' => signalled \/ "signal" \in cause'
        /\ bot' = "failed" => bot = "failed" \/ "bot" \in cause'
    BY <1>7 DEF BuildFails, Send, Signal, BotSteps, BuildAndPoll, Poll, SeeStop, Shutdown, poolVars
  <2> QED
    BY <2>1 DEF CauseInv
<1>8. CASE Wake
  <2>1. /\ main = "waiting" /\ main' = "stop_parts" /\ UNCHANGED <<bot, signalled, code, cause>>
        /\ signalled \/ bot \in {"ended", "failed"}
    BY <1>8 DEF Wake
  <2>2. "signal" \in cause \/ "bot" \in cause
    BY <2>1 DEF BotInv, CauseInv
  <2> QED
    BY <2>1, <2>2 DEF CauseInv
<1>9. CASE StopParts
  BY <1>9 DEF StopParts, CauseInv
<1>10. CASE CloseStorage
  <2>1. /\ main = "close" /\ main' = "returned" /\ UNCHANGED <<bot, signalled, code>>
        /\ cause' = IF \E h \in Handlers : task[h].pc # "idle" THEN cause \cup {"late"} ELSE cause
        /\ conn' = [c \in Conns |-> IF c \in Range(pool) THEN Closed ELSE conn[c]]
    BY <1>10 DEF CloseStorage, ClosePool
  <2>2. ASSUME cause' \cap {"start", "late"} = {}, NEW c \in Conns
        PROVE  ~conn'[c].open
    <3>1. \A h \in Handlers : ~Busy(h)
      BY <2>1, <2>2 DEF Busy
    <3>2. \A t \in Tasks : ~Busy(t)
      BY <1>1, <2>1, <3>1 DEF WorkInv
    <3>3. c \in Range(pool) \/ ~conn[c].open
      BY <3>2 DEF PoolInv, HeldInv
    <3> QED
      BY <2>1, <3>3, RecordTypes
  <2>3. cause \subseteq cause'
    BY <2>1
  <2> QED
    BY <2>1, <2>2, <2>3 DEF CauseInv
<1>11. CASE CancelTasks
  <2>1. /\ main \in {"returned", "raised"} /\ main' = "ending"
        /\ code' = IF main = "raised" THEN "error" ELSE "ok"
        /\ bot' \in {bot, "ended"} /\ UNCHANGED <<conn, signalled, cause>>
    BY <1>11 DEF CancelTasks
  <2> QED
    BY <2>1 DEF CauseInv
<1>12. CASE Exit
  <2>1. main = "ending" /\ main' = "down" /\ UNCHANGED <<conn, bot, signalled, cause, code>>
    BY <1>12 DEF Exit, Finished, poolVars
  <2> QED
    BY <2>1 DEF CauseInv
<1>13. CASE Kill
  <2>1. main' = "down" /\ bot' = "none" /\ code' = "killed" /\ UNCHANGED <<signalled, cause>>
    BY <1>13 DEF Kill
  <2> QED
    BY <2>1 DEF CauseInv
<1>14. ASSUME NEW h \in Handlers, HandlerSteps(h)
       PROVE  CauseInv'
  <2>1. CASE Handle(h) \/ HandlerDone(h)
    BY <2>1 DEF Handle, HandlerDone, poolVars, CauseInv
  <2>2. CASE HandlerCall(h)
    <3>1. /\ UNCHANGED <<main, bot, signalled, code>> /\ main \notin {"raised", "ending", "down"}
          /\ cause \subseteq cause' /\ (main = "returned" => "late" \in cause')
      BY <2>2 DEF HandlerCall, Alive
    <3> QED
      BY <3>1 DEF CauseInv
  <2>3. CASE HandlerAtDatabase(h)
    <3>1. UNCHANGED <<main, bot, signalled, code, cause>>
      BY <2>3 DEF HandlerAtDatabase, appVars
    <3>2. Busy(h)
      BY <1>1, <2>3, WorkingLocal DEF HandlerAtDatabase
    <3>3. \E c \in Conns : conn[c].open
      BY <1>1, <3>2, BusyTask
    <3> QED
      BY <3>1, <3>3 DEF CauseInv
  <2> QED
    BY <1>14, <2>1, <2>2, <2>3 DEF HandlerSteps
<1> QED
  BY <1>2, <1>3, <1>4, <1>5, <1>6, <1>7, <1>8, <1>9, <1>10, <1>11, <1>12, <1>13, <1>14 DEF Next, MainSteps

\* The inductive invariant.
IInv ==
  /\ AppTypeOK /\ PoolInv /\ MigInv
  /\ WorkInv /\ BotInv /\ AdminInv /\ StageInv /\ UpdateInv /\ CauseInv

\* A program that was never started: nothing on disk, nobody at work.
LEMMA InitHolds == Init => IInv
<1> SUFFICES ASSUME Init PROVE IInv
  OBVIOUS
<1>1. /\ InitPool /\ InitMig
      /\ main = "down" /\ bot = "none" /\ running = FALSE /\ signalled = FALSE
      /\ sent = 0 /\ kept = {} /\ offset = 0 /\ queue = {}
      /\ handling = [h \in Handlers |-> 0] /\ handled = [u \in Updates |-> 0]
      /\ starts = 0 /\ ends = 0 /\ code = "never" /\ cause = {}
  BY DEF Init
<1>2. PoolInv
  BY <1>1, PoolInitInv
<1>3. MigInv
  BY <1>1, MigInitInv
<1>4. \A c \in Conns : ~conn[c].open
  BY <1>1, RecordTypes DEF InitPool
<1>5. \A t \in Tasks : ~Busy(t)
  BY <1>2, <1>4, NothingHeld
<1>6. AppTypeOK
  <2>1. /\ handling \in [Handlers -> 0..MaxUpdates] /\ handled \in [Updates -> 0..MaxStarts]
        /\ sent \in 0..MaxUpdates /\ offset \in 0..MaxUpdates
        /\ starts \in 0..MaxStarts /\ ends \in 0..MaxEnds
    BY <1>1, Bounds
  <2>2. running \in BOOLEAN /\ signalled \in BOOLEAN
    BY <1>1
  <2> QED
    BY <1>1, <2>1, <2>2 DEF AppTypeOK
<1>7. WorkInv
  BY <1>4, <1>5, LifecycleAssumption DEF WorkInv, Handlers
<1>8. BotInv /\ AdminInv /\ CauseInv
  BY <1>1 DEF BotInv, AdminInv, CauseInv, Serving, Starting
<1>9. StageInv
  BY <1>1 DEF InitMig, Off, StageInv, Serving, Starting
<1>10. UpdateInv
  BY <1>1 DEF UpdateInv
<1> QED
  BY <1>2, <1>3, <1>6, <1>7, <1>8, <1>9, <1>10 DEF IInv

\* Every step of the program keeps the invariant.
LEMMA StepHolds == IInv /\ [Next]_vars => IInv'
<1> SUFFICES ASSUME IInv, [Next]_vars PROVE IInv'
  OBVIOUS
<1>1. AppTypeOK /\ PoolInv /\ MigInv /\ WorkInv /\ BotInv /\ AdminInv /\ StageInv /\ UpdateInv /\ CauseInv
  BY DEF IInv
<1>2. CASE Next
  <2>1. AppTypeOK'
    BY <1>1, <1>2, UpdatesKeep, TypesKeep DEF AppTypeOK
  <2>2. PoolInv' /\ MigInv'
    BY <1>1, <1>2, PoolKeeps, MigrationsKeep
  <2>3. WorkInv' /\ BotInv' /\ AdminInv'
    BY <1>1, <1>2, WorkKeeps, BotKeeps, AdminKeeps
  <2>4. StageInv' /\ UpdateInv' /\ CauseInv'
    BY <1>1, <1>2, StageKeeps, UpdatesKeep, CausesKeep
  <2> QED
    BY <2>1, <2>2, <2>3, <2>4 DEF IInv
<1>3. CASE UNCHANGED vars
  <2>1. UNCHANGED poolVars /\ UNCHANGED migVars /\ UNCHANGED appVars
    BY <1>3 DEF vars
  <2>2. UNCHANGED <<conn, task, disk, mig>> /\ main' = main
    BY <2>1 DEF poolVars, migVars, appVars
  <2>3. PoolInv' /\ MigInv'
    BY <1>1, <2>1, <2>2, PoolStutters, MigStepKeeps
  <2>4. AppTypeOK' /\ BotInv' /\ UpdateInv'
    BY <1>1, <2>1 DEF appVars, AppTypeOK, BotInv, UpdateInv
  <2>5. WorkInv' /\ AdminInv' /\ StageInv'
    BY <1>1, <2>2 DEF WorkInv, AdminInv, StageInv, Busy, HasUser
  <2>6. CauseInv'
    BY <1>1, <2>1, <2>2 DEF appVars, CauseInv
  <2> QED
    BY <2>3, <2>4, <2>5, <2>6 DEF IInv
<1> QED
  BY <1>2, <1>3

-----------------------------------------------------------------------------
(* What follows. *)

\* Ready to serve: everything the scripts create is there and recorded, and so is
\* the owner.
LEMMA ReadyWhenServing == IInv => ServesOnlyWhenReady
<1> SUFFICES ASSUME IInv, NEW h \in Handlers, handling[h] # 0
             PROVE  /\ schema = UNION {Objects(v) : v \in Versions} /\ versions = Versions
                    /\ HasUser(Admin, disk)
  BY DEF ServesOnlyWhenReady
<1>1. main \in Serving
  BY DEF IInv, BotInv
<1>2. HasUser(Admin, disk) /\ mig.pc = "done"
  BY <1>1 DEF IInv, AdminInv, StageInv
<1>3. versions = Versions /\ schema \subseteq UNION {Objects(v) : v \in Versions}
      /\ \A v \in Versions : Objects(v) \subseteq schema
  BY <1>2 DEF IInv, MigInv, MigTypeOK
<1> QED
  BY <1>2, <1>3

\* A select on a connection that no failure spoiled sees what is committed.
LEMMA CleanReadsAreFresh == IInv => ReadsAreFresh
<1> SUFFICES ASSUME IInv, NEW t \in Tasks, task[t].pc = "borrowed", ~conn[task[t].conn].spoiled
             PROVE  acked \subseteq Seen(task[t].conn)
  BY DEF ReadsAreFresh
<1>1. PoolInv /\ acked \subseteq disk
  BY DEF IInv, PoolInv
<1>2. conn[task[t].conn].tx = "none"
  BY <1>1, BorrowedIsClean DEF Clean
<1> QED
  BY <1>1, <1>2 DEF Seen

\* A run that waits for an open connection failed to start or was late.
LEMMA ReasonsToStop == IInv => StopsForAReason
<1> SUFFICES ASSUME IInv PROVE StopsForAReason
  OBVIOUS
<1>1. EndsForAReason
  BY DEF IInv, CauseInv, EndsForAReason
<1>2. HangsForAReason
  BY DEF IInv, CauseInv, HangsForAReason, Hung, Finished, Open
<1> QED
  BY <1>1, <1>2 DEF StopsForAReason

\* The inductive invariant holds in every reachable state.
THEOREM Invariance == Spec => []IInv
BY InitHolds, StepHolds, PTL DEF Spec

\* Every variable of the program, of its pool and of its migrations keeps its type,
\* however runs start, end and are killed.
THEOREM TypeCorrect == Spec => []TypeOK
<1>1. IInv => TypeOK
  BY DEF IInv, PoolInv, MigInv, AppTypeOK, TypeOK
<1> QED
  BY <1>1, Invariance, PTL

\* DatabaseManager.get_connection never hands a connection to two callers, nor
\* keeps one in the pool that somebody has, and the pool stays within its size.
THEOREM PoolSound == Spec => []PoolIsSound
<1>1. IInv => PoolIsSound
  BY DEF IInv, PoolInv
<1> QED
  BY <1>1, Invariance, PTL

\* A stale read, and a lock nobody will release, come only from a connection that
\* a failed call put back inside its transaction.
THEOREM FailuresSpoil == Spec => []OnlyFailuresSpoil
<1>1. IInv => OnlyFailuresSpoil
  BY CleanReadsAreFresh DEF IInv, PoolInv, BlameInv, OnlyFailuresSpoil
<1> QED
  BY <1>1, Invariance, PTL

\* However often the program ends in the middle of a migration, a recorded version
\* is wholly in the schema, and no migration fails unless an end tore one.
THEOREM SchemaIsAsRecorded == Spec => []RecordsTellTheSchema
<1>1. IInv => RecordsTellTheSchema
  BY DEF IInv, MigInv, RecordsTellTheSchema
<1> QED
  BY <1>1, Invariance, PTL

\* main() lets no update through before the schema is complete and the owner is
\* registered.
THEOREM ReadyToServe == Spec => []ServesOnlyWhenReady
BY ReadyWhenServing, Invariance, PTL

\* No update reaches the handlers in two runs, or twice in one.
THEOREM HandledOnce == Spec => []NeverHandledTwice
<1>1. IInv => NeverHandledTwice
  BY DEF IInv, UpdateInv, NeverHandledTwice
<1> QED
  BY <1>1, Invariance, PTL

\* main() ends well, or hangs at its end, for the reasons named and no others.
THEOREM StopReasons == Spec => []StopsForAReason
BY ReasonsToStop, Invariance, PTL
=============================================================================
