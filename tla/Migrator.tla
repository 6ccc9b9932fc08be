------------------------------ MODULE Migrator ------------------------------
(***************************************************************************)
(* migrate.Run on several servers that start on one database: the advisory *)
(* lock, the tracking table, the bootstrap of a database that schema.sql   *)
(* created, and the migrations, each in a transaction of its own.          *)
(*                                                                         *)
(* The lock belongs to one connection (a session of PostgreSQL) while the  *)
(* statements run on others, so it can be lost while the work goes on; a   *)
(* server may be killed anywhere, and its session outlives it until        *)
(* PostgreSQL notices; any statement may fail, a COMMIT also after it took *)
(* effect.  Servers of different releases may run side by side.            *)
(*                                                                         *)
(* Abstractions                                                            *)
(*  - A migration is its version: what it creates is there as a whole or   *)
(*    not at all, since it is one transaction.                             *)
(*  - A transaction is one step, taken when it commits: two that run the   *)
(*    same version exclude each other by their table locks.                *)
(*  - The pool has a second connection.                                    *)
(***************************************************************************)
EXTENDS Integers

CONSTANTS
    Servers,
    Last,     \* the newest migration; a release r embeds 1..r
    NoOne     \* no holder

ASSUME LastAssumption == Last \in Nat \ {0}
ASSUME NoOneAssumption == NoOne \notin Servers

VARIABLES
    schema,     \* the versions whose tables and columns exist
    tracked,    \* the table schema_migrations exists
    recorded,   \* its rows
    holder,     \* whose session has the advisory lock
    lost,       \* history: a session was lost while its server migrated
    release,    \* the migrations each server embeds
    pc,         \* where Run is
    todo        \* the versions its current loop has yet to handle

database == <<schema, tracked, recorded>>
vars == <<schema, tracked, recorded, holder, lost, release, pc, todo>>

Versions == 1..Last

\* The SQL of these says IF NOT EXISTS throughout, that of 001_initial.sql does
\* not.
Rerunnable == Versions \ {1}

Working == {"track", "read", "exists", "boot", "reread", "apply"}

TypeOK ==
    /\ schema \subseteq Versions
    /\ tracked \in BOOLEAN
    /\ recorded \subseteq Versions
    /\ holder \in Servers \cup {NoOne}
    /\ lost \in BOOLEAN
    /\ release \in [Servers -> Versions]
    /\ pc \in [Servers -> Working \cup {"down", "lock", "up"}]
    /\ todo \in [Servers -> SUBSET Versions]

\* The database is empty or was created by schema.sql, of any release; a
\* migration may be missing in it, but not the first.
Init ==
    /\ schema \in {S \in SUBSET Versions : S # {} => 1 \in S}
    /\ tracked = FALSE
    /\ recorded = {}
    /\ holder = NoOne
    /\ lost = FALSE
    /\ release \in [Servers -> Versions]
    /\ pc = [s \in Servers |-> "down"]
    /\ todo = [s \in Servers |-> {}]

Goto(s, step, versions) ==
    /\ pc' = [pc EXCEPT ![s] = step]
    /\ todo' = [todo EXCEPT ![s] = versions]

\* The session of s gives up the lock, if it has it.
Released(s) == IF holder = s THEN NoOne ELSE holder

-----------------------------------------------------------------------------
(* The start of a server *)

\* main, with the same or another release of the backend.
Start(s, r) ==
    /\ pc[s] = "down"
    /\ release' = [release EXCEPT ![s] = r]
    /\ Goto(s, "lock", {})
    /\ UNCHANGED <<database, holder, lost>>

\* Faulty variant of Free: the result of a lock that does not wait is ignored.
FreeAlways == TRUE

Free == holder = NoOne

\* pg_advisory_lock waits; also for the session of a server that was killed.
Lock(s) ==
    /\ pc[s] = "lock"
    /\ Free
    /\ holder' = s
    /\ Goto(s, "track", {})
    /\ UNCHANGED <<database, lost, release>>

\* createTrackingTable is the one statement on the connection of the lock.
Track(s) ==
    /\ pc[s] = "track"
    /\ holder = s
    /\ tracked' = TRUE
    /\ Goto(s, "read", {})
    /\ UNCHANGED <<schema, recorded, holder, lost, release>>

\* loadMigrations.
Embedded(s) == 1..release[s]

\* Faulty variant of Read: the versions to apply are those above the newest
\* one recorded.
ReadNewest(s) ==
    /\ pc[s] = "read"
    /\ IF recorded = {}
       THEN Goto(s, "exists", {})
       ELSE Goto(s, "apply", {v \in Embedded(s) : \A u \in recorded : u < v})
    /\ UNCHANGED <<database, holder, lost, release>>

\* getAppliedVersions; a table without rows may mean a database without
\* history.
Read(s) ==
    /\ pc[s] = "read"
    /\ tracked
    /\ IF recorded = {}
       THEN Goto(s, "exists", {})
       ELSE Goto(s, "apply", Embedded(s) \ recorded)
    /\ UNCHANGED <<database, holder, lost, release>>

\* Faulty variant of Exists: no bootstrap.
ExistsNever(s) ==
    /\ pc[s] = "exists"
    /\ Goto(s, "apply", Embedded(s))
    /\ UNCHANGED <<database, holder, lost, release>>

\* tableExists("users"), which the first migration creates.
Exists(s) ==
    /\ pc[s] = "exists"
    /\ IF 1 \in schema
       THEN Goto(s, "boot", Embedded(s))
       ELSE Goto(s, "apply", Embedded(s))
    /\ UNCHANGED <<database, holder, lost, release>>

IsNext(v, S) == v \in S /\ \A u \in S : v <= u

\* Faulty variant of BootNext: the footprints newest first.
BootNextNewest(v, S) == v \in S /\ \A u \in S : v >= u

\* The footprints are listed oldest first.
BootNext(v, S) == IsNext(v, S)

\* One footprint of bootstrapExistingDB: look for it, then record it, ON
\* CONFLICT DO NOTHING.
Boot(s, v) ==
    /\ pc[s] = "boot"
    /\ BootNext(v, todo[s])
    /\ recorded' = IF v \in schema THEN recorded \cup {v} ELSE recorded
    /\ todo' = [todo EXCEPT ![s] = @ \ {v}]
    /\ UNCHANGED <<schema, tracked, holder, lost, release, pc>>

BootDone(s) ==
    /\ pc[s] = "boot"
    /\ todo[s] = {}
    /\ Goto(s, "reread", {})
    /\ UNCHANGED <<database, holder, lost, release>>

Reread(s) ==
    /\ pc[s] = "reread"
    /\ Goto(s, "apply", Embedded(s) \ recorded)
    /\ UNCHANGED <<database, holder, lost, release>>

\* The INSERT meets the primary key, or CREATE the table that is there.
Clash(v) ==
    \/ v \in recorded
    \/ v \in schema /\ v \notin Rerunnable

\* The SQL of a migration and its row in one transaction.
Applied(v) ==
    /\ schema' = schema \cup {v}
    /\ recorded' = recorded \cup {v}

Apply(s, v) ==
    /\ pc[s] = "apply"
    /\ IsNext(v, todo[s])
    /\ ~Clash(v)
    /\ Applied(v)
    /\ todo' = [todo EXCEPT ![s] = @ \ {v}]
    /\ UNCHANGED <<tracked, holder, lost, release, pc>>

\* Run returns, the deferred unlock is sent, and the server begins to serve.
Finish(s) ==
    /\ pc[s] = "apply"
    /\ todo[s] = {}
    /\ holder' = Released(s)
    /\ Goto(s, "up", {})
    /\ UNCHANGED <<database, lost, release>>

-----------------------------------------------------------------------------
(* Failures: log.Fatalf ends the process, which is started again *)

\* A statement that cannot succeed: the lock's connection is gone, or the
\* migration meets what is there already.
Refused(s) ==
    /\ \/ pc[s] = "track" /\ holder # s
       \/ pc[s] = "apply" /\ \E v \in todo[s] : IsNext(v, todo[s]) /\ Clash(v)
    /\ holder' = Released(s)
    /\ Goto(s, "down", {})
    /\ UNCHANGED <<database, lost, release>>

\* Any other error.
Fail(s) ==
    /\ pc[s] \in Working \cup {"lock"}
    /\ holder' = IF pc[s] \in Working THEN Released(s) ELSE holder
    /\ Goto(s, "down", {})
    /\ UNCHANGED <<database, lost, release>>

\* The transaction is committed but the answer is lost.
CommitLost(s, v) ==
    /\ pc[s] = "apply"
    /\ IsNext(v, todo[s])
    /\ ~Clash(v)
    /\ Applied(v)
    /\ holder' = Released(s)
    /\ Goto(s, "down", {})
    /\ UNCHANGED <<tracked, lost, release>>

\* Killed, or stopped while it serves; its session stays for a while.
Crash(s) ==
    /\ pc[s] # "down"
    /\ Goto(s, "down", {})
    /\ UNCHANGED <<database, holder, lost, release>>

\* PostgreSQL ends the session of a server that is gone.
SessionEnds(s) ==
    /\ holder = s
    /\ pc[s] \notin Working
    /\ holder' = NoOne
    /\ UNCHANGED <<database, lost, release, pc, todo>>

\* The idle connection that has the lock is cut while its server works on.
LoseLock(s) ==
    /\ holder = s
    /\ pc[s] \in Working
    /\ holder' = NoOne
    /\ lost' = TRUE
    /\ UNCHANGED <<database, release, pc, todo>>

\* An operator has the bootstrap run again (docs/MIGRATIONS.md), with no
\* server in the middle of it.
Truncate ==
    /\ \A s \in Servers : pc[s] \notin Working
    /\ recorded' = {}
    /\ UNCHANGED <<schema, tracked, holder, lost, release, pc, todo>>

-----------------------------------------------------------------------------
Step(s) ==
    \/ Lock(s)
    \/ Track(s)
    \/ Read(s)
    \/ Exists(s)
    \/ \E v \in Versions : Boot(s, v) \/ Apply(s, v)
    \/ BootDone(s)
    \/ Reread(s)
    \/ Finish(s)
    \/ Refused(s)

Next ==
    \/ \E s \in Servers :
          \/ \E r \in Versions : Start(s, r)
          \/ Step(s)
          \/ Fail(s)
          \/ \E v \in Versions : CommitLost(s, v)
          \/ Crash(s)
          \/ SessionEnds(s)
          \/ LoseLock(s)
    \/ Truncate

Spec == Init /\ [][Next]_vars

\* A server goes on with its start, and is started again when it has ended;
\* PostgreSQL grants a lock in the order of the requests, and ends a session
\* whose client is gone.
Fairness ==
    \A s \in Servers :
        /\ WF_vars(\E r \in Versions : Start(s, r))
        /\ SF_vars(Lock(s))
        /\ WF_vars(Step(s))
        /\ WF_vars(SessionEnds(s))

FairSpec == Spec /\ Fairness

-----------------------------------------------------------------------------
(* Safety *)

\* "Advisory lock to prevent concurrent migration runs": while no connection
\* is cut, one server migrates at a time, and no start ever fails on what is
\* already there - whatever failed, crashed or was bootstrapped in part before.
NoClash ==
    ~lost =>
        /\ \A s, t \in Servers : pc[s] \in Working /\ pc[t] \in Working => s = t
        /\ \A s \in Servers : pc[s] = "apply" =>
              \A v \in todo[s] : IsNext(v, todo[s]) => ~Clash(v)

\* What is recorded is there, and the first migration is recorded if any is:
\* so a bootstrap cut short never leads to CREATE TABLE users a second time,
\* not even when the lock is lost.
RecordedIsThere ==
    /\ recorded \subseteq schema
    /\ recorded # {} => 1 \in recorded
    /\ schema # {} => 1 \in schema

\* Why they hold: what a server relies on while it migrates.
RunInv ==
    \A s \in Servers :
        /\ todo[s] \subseteq Embedded(s)
        /\ pc[s] \in Working => tracked \/ pc[s] = "track"
        /\ pc[s] = "boot" => 1 \in schema /\ (1 \in todo[s] \/ 1 \in recorded)
        /\ pc[s] = "reread" => 1 \in recorded
        /\ pc[s] = "apply" =>
              /\ Embedded(s) \ todo[s] \subseteq schema
              /\ 1 \in todo[s] \/ 1 \in recorded
        /\ pc[s] = "up" => Embedded(s) \subseteq schema

LockInv ==
    ~lost =>
        /\ \A s \in Servers : pc[s] \in Working => holder = s
        /\ \A s \in Servers : pc[s] = "exists" => recorded = {}
        /\ \A s \in Servers : pc[s] = "apply" =>
              /\ todo[s] \cap recorded = {}
              /\ 1 \in todo[s] => schema = {}

MigrateInv == RecordedIsThere /\ RunInv /\ LockInv

-----------------------------------------------------------------------------
(* The abstract specification *)

Growth == INSTANCE SchemaGrowth
    WITH db <- schema,
         serving <- [s \in Servers |-> IF pc[s] = "up" THEN release[s] ELSE 0]

\* Migrations take effect in order, one at a time and for good, and a server
\* serves only on a schema that has all of its own - even when the lock is
\* lost, since the primary key of schema_migrations still stops the second.
ImplementsSchemaGrowth == Growth!Spec

-----------------------------------------------------------------------------
(* Liveness *)

\* What a start meets that is no fault of the migrator.  A step that has to end
\* it is none.
Trouble(s) ==
    /\ Fail(s) \/ Crash(s) \/ LoseLock(s) \/ \E v \in Versions : CommitLost(s, v)
    /\ ~Refused(s)

\* docs/MIGRATIONS.md, "Fix the SQL and restart - it will retry": a server that
\* is no longer killed, failing or cut off ends up serving, whatever happened
\* before and whatever happens to the others.
ComesUp ==
    \A s \in Servers :
        <>[][~Trouble(s) /\ ~Truncate]_vars => <>[](pc[s] = "up")

=============================================================================
