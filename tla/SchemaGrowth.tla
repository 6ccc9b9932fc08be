---------------------------- MODULE SchemaGrowth ----------------------------
(***************************************************************************)
(* What the migrator promises to the rest of the backend, however many     *)
(* servers start on one database: migrations only ever take effect in the  *)
(* order of their versions, one at a time, none is ever undone, and a      *)
(* server serves requests only on a schema that has all of its own.        *)
(***************************************************************************)
EXTENDS Integers

CONSTANTS Servers, Last

VARIABLES
    db,       \* the versions whose tables and columns the database has
    serving   \* the release each server serves, 0 while it does not

Versions == 1..Last

\* An empty database, or one that schema.sql of some release created.
Init ==
    /\ db \in SUBSET Versions
    /\ db # {} => 1 \in db
    /\ serving = [s \in Servers |-> 0]

Grow(v) ==
    /\ 1..(v - 1) \subseteq db
    /\ db' = db \cup {v}
    /\ serving' = serving

Serve(s, r) ==
    /\ 1..r \subseteq db
    /\ serving' = [serving EXCEPT ![s] = r]
    /\ db' = db

Stop(s) ==
    /\ serving' = [serving EXCEPT ![s] = 0]
    /\ db' = db

Next ==
    \/ \E v \in Versions : Grow(v)
    \/ \E s \in Servers : Stop(s) \/ \E r \in Versions : Serve(s, r)

Spec == Init /\ [][Next]_<<db, serving>>

=============================================================================
