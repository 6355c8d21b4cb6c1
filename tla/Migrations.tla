----------------------------- MODULE Migrations -----------------------------
(***************************************************************************)
(* DatabaseManager._run_migrations (src/storage/database.py): the scripts  *)
(* of the versions above the recorded one, each followed by its row in     *)
(* schema_version.  executescript commits what is pending and then lets    *)
(* every statement commit itself; the row of a version is committed by the *)
(* next script, or by the commit after the loop.  The program may end      *)
(* between any two statements, and starts over from what is on disk.       *)
(***************************************************************************)
EXTENDS Naturals, Sequences, FiniteSets

SchemaV1 == <<"users", "invites", "claude_sessions", "command_log", "indexes">>
SchemaV2 == <<"journal_mode">>
SchemaV3 == <<"daily_cost_limit">>

Scripts == <<SchemaV1, SchemaV2, SchemaV3>>
Versions == DOMAIN Scripts

Repeatable == {"journal_mode"}   \* the others fail when what they create is there

Objects(v) == {Scripts[v][i] : i \in DOMAIN Scripts[v]}

VARIABLES
  schema,    \* the objects on disk
  versions,  \* the committed rows of schema_version
  mig,       \* [pc, version, next, pending]
  torn       \* history: the program ended with a version applied but not recorded

migVars == <<schema, versions, mig, torn>>

Off == [pc |-> "off", version |-> 0, next |-> 1, pending |-> {}]

MigTypeOK ==
  /\ schema \subseteq UNION {Objects(v) : v \in Versions}
  /\ versions \subseteq Versions
  /\ mig \in [pc : {"off", "pick", "script", "done", "failed"},
              version : Versions \cup {0}, next : 1..6, pending : SUBSET Versions]
  /\ torn \in BOOLEAN

InitMig == schema = {} /\ versions = {} /\ mig = Off /\ torn = FALSE

Newest(vs) == IF vs = {} THEN 0 ELSE CHOOSE v \in vs : \A w \in vs : w <= v

\* (mutant) the version recorded last is applied again.
ReadVersionOffByOne ==
  /\ mig.pc = "off"
  /\ mig' = [mig EXCEPT !.pc = "pick", !.version = IF versions = {} THEN 0 ELSE Newest(versions) - 1]
  /\ UNCHANGED <<schema, versions, torn>>

\* _schema_version.
ReadVersion ==
  /\ mig.pc = "off"
  /\ mig' = [mig EXCEPT !.pc = "pick", !.version = Newest(versions)]
  /\ UNCHANGED <<schema, versions, torn>>

\* executescript: what is pending is committed first.
BeginScript ==
  /\ mig.pc = "pick"
  /\ mig.version < Len(Scripts)
  /\ versions' = versions \cup mig.pending
  /\ mig' = [pc |-> "script", version |-> mig.version + 1, next |-> 1, pending |-> {}]
  /\ UNCHANGED <<schema, torn>>

Statement ==
  LET s == Scripts[mig.version][mig.next] IN
  /\ mig.pc = "script"
  /\ mig.next <= Len(Scripts[mig.version])
  /\ IF s \in schema \ Repeatable
     THEN mig' = [mig EXCEPT !.pc = "failed"] /\ UNCHANGED schema
     ELSE schema' = schema \cup {s} /\ mig' = [mig EXCEPT !.next = @ + 1]
  /\ UNCHANGED <<versions, torn>>

\* (mutant) the version is recorded before its script has run.
RecordFirst ==
  /\ mig.pc = "script"
  /\ mig.next = 1 \/ mig.next > Len(Scripts[mig.version])
  /\ IF mig.version \in versions
     THEN mig' = [mig EXCEPT !.pc = "pick"] /\ UNCHANGED versions
     ELSE versions' = versions \cup {mig.version} /\ UNCHANGED mig
  /\ UNCHANGED <<schema, torn>>

\* (mutant) the versions are counted from the one that is there.
RecordNext ==
  /\ mig.pc = "script"
  /\ mig.next > Len(Scripts[mig.version])
  /\ mig' = [mig EXCEPT !.pc = "pick", !.pending = @ \cup {mig.version + 1}]
  /\ UNCHANGED <<schema, versions, torn>>

RecordVersion ==
  /\ mig.pc = "script"
  /\ mig.next > Len(Scripts[mig.version])
  /\ mig' = [mig EXCEPT !.pc = "pick", !.pending = @ \cup {mig.version}]
  /\ UNCHANGED <<schema, versions, torn>>

\* (mutant) no commit after the loop.
LastRowForgotten ==
  /\ mig.pc = "pick"
  /\ mig.version = Len(Scripts)
  /\ mig' = [mig EXCEPT !.pc = "done", !.pending = {}]
  /\ UNCHANGED <<schema, versions, torn>>

CommitMigrations ==
  /\ mig.pc = "pick"
  /\ mig.version = Len(Scripts)
  /\ versions' = versions \cup mig.pending
  /\ mig' = [mig EXCEPT !.pc = "done", !.pending = {}]
  /\ UNCHANGED <<schema, torn>>

\* The program ends: the pending row is lost, the objects stay.
Unrecorded == {v \in Versions \ versions : Objects(v) \cap (schema \ Repeatable) # {}}

EndMigration ==
  /\ mig' = Off
  /\ torn' = (torn \/ Unrecorded # {})
  /\ UNCHANGED <<schema, versions>>

Migrate == ReadVersion \/ BeginScript \/ Statement \/ RecordVersion \/ CommitMigrations

MigSpec == InitMig /\ [][Migrate \/ EndMigration]_migVars

-----------------------------------------------------------------------------
(* Properties. *)

\* A recorded version is wholly in the schema, whenever the program ended: no
\* later start skips a script that did not finish.  And a migration fails only if
\* an earlier run of the program ended between the first statement of a script
\* and the commit of that script's row.
RecordsTellTheSchema ==
  /\ \A v \in versions : Objects(v) \subseteq schema
  /\ mig.pc = "failed" => torn
=============================================================================
