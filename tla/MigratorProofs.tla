--------------------------- MODULE MigratorProofs ---------------------------
(***************************************************************************)
(* Proofs about Migrator, for any number of servers and migrations.        *)
(***************************************************************************)
EXTENDS Migrator, TLAPS

LEMMA TypeInit == Init => TypeOK
  BY DEF Init, TypeOK

LEMMA TypeStep == TypeOK /\ [Next]_vars => TypeOK'
<1> SUFFICES ASSUME TypeOK, [Next]_vars PROVE TypeOK'
  OBVIOUS
<1> USE DEF TypeOK, Goto, Working, database
<1>1. ASSUME NEW s \in Servers, NEW r \in Versions, Start(s, r) PROVE TypeOK'
  BY <1>1 DEF Start
<1>2. ASSUME NEW s \in Servers, Lock(s) PROVE TypeOK'
  BY <1>2 DEF Lock
<1>3. ASSUME NEW s \in Servers, Track(s) PROVE TypeOK'
  BY <1>3 DEF Track
<1>4. ASSUME NEW s \in Servers PROVE Embedded(s) \in SUBSET Versions
  BY LastAssumption DEF Embedded, Versions
<1>5. ASSUME NEW s \in Servers, Read(s) PROVE TypeOK'
  BY <1>4, <1>5 DEF Read
<1>6. ASSUME NEW s \in Servers, Exists(s) PROVE TypeOK'
  BY <1>4, <1>6 DEF Exists
<1>7. ASSUME NEW s \in Servers, NEW v \in Versions, Boot(s, v) PROVE TypeOK'
  BY <1>7 DEF Boot
<1>8. ASSUME NEW s \in Servers, BootDone(s) PROVE TypeOK'
  BY <1>8 DEF BootDone
<1>9. ASSUME NEW s \in Servers, Reread(s) PROVE TypeOK'
  BY <1>4, <1>9 DEF Reread
<1>10. ASSUME NEW s \in Servers, NEW v \in Versions, Apply(s, v) PROVE TypeOK'
  BY <1>10 DEF Apply, Applied
<1>11. ASSUME NEW s \in Servers, Finish(s) PROVE TypeOK'
  BY <1>11 DEF Finish, Released
<1>12. ASSUME NEW s \in Servers, Refused(s) PROVE TypeOK'
  BY <1>12 DEF Refused, Released
<1>13. ASSUME NEW s \in Servers, Fail(s) PROVE TypeOK'
  BY <1>13 DEF Fail, Released
<1>14. ASSUME NEW s \in Servers, NEW v \in Versions, CommitLost(s, v) PROVE TypeOK'
  BY <1>14 DEF CommitLost, Applied, Released
<1>15. ASSUME NEW s \in Servers, Crash(s) PROVE TypeOK'
  BY <1>15 DEF Crash
<1>16. ASSUME NEW s \in Servers, SessionEnds(s) PROVE TypeOK'
  BY <1>16 DEF SessionEnds
<1>17. ASSUME NEW s \in Servers, LoseLock(s) PROVE TypeOK'
  BY <1>17 DEF LoseLock
<1>18. CASE Truncate
  BY <1>18 DEF Truncate
<1>19. CASE UNCHANGED vars
  BY <1>19 DEF vars
<1> QED
  BY <1>1, <1>2, <1>3, <1>5, <1>6, <1>7, <1>8, <1>9, <1>10, <1>11, <1>12, <1>13,
     <1>14, <1>15, <1>16, <1>17, <1>18, <1>19 DEF Next, Step

\* Every reachable state of the migrator is well typed.
THEOREM TypeCorrect == Spec => []TypeOK
  BY TypeInit, TypeStep, PTL DEF Spec

-----------------------------------------------------------------------------
(* The invariant *)

LEMMA MigrateInit == Init => MigrateInv
  BY DEF Init, MigrateInv, RecordedIsThere, RunInv, LockInv, Working

\* The versions are numbered from 1.
LEMMA FirstVersion ==
  ASSUME TypeOK
  PROVE  /\ 1 \in Versions
         /\ \A s \in Servers : 1 \in Embedded(s) /\ Embedded(s) \subseteq Versions
         /\ \A s \in Servers, v \in Versions :
               IsNext(v, todo[s]) /\ 1 \in todo[s] => v = 1
  BY LastAssumption DEF TypeOK, Versions, Embedded, IsNext

\* A step of one server that changes no row and no table, takes the lock only
\* when it is free, and sets out with what its new step relies on.
SetsOut(s, step, S) ==
    /\ Goto(s, step, S)
    /\ S \subseteq 1..release'[s]
    /\ UNCHANGED <<schema, recorded, lost>>
    /\ tracked => tracked'
    /\ \A t \in Servers : t # s => release'[t] = release[t]
    /\ holder' = holder \/ holder' = Released(s) \/ (holder = NoOne /\ holder' = s)
    /\ step \in Working => (tracked' \/ step = "track") /\ (~lost => holder' = s)
    /\ step = "exists" /\ ~lost => recorded = {}
    /\ step = "boot" => 1 \in schema /\ (1 \in S \/ 1 \in recorded)
    /\ step = "reread" => 1 \in recorded
    /\ step = "apply" =>
          /\ 1..release'[s] \ S \subseteq schema
          /\ 1 \in S \/ 1 \in recorded
          /\ ~lost => S \cap recorded = {} /\ (1 \in S => schema = {})
    /\ step = "up" => 1..release'[s] \subseteq schema

LEMMA LocalStep ==
  ASSUME TypeOK, TypeOK', MigrateInv, NEW s \in Servers, NEW step, NEW S, SetsOut(s, step, S)
  PROVE  MigrateInv'
<1> USE DEF TypeOK, Goto, MigrateInv, SetsOut
<1>1. pc'[s] = step /\ todo'[s] = S
  OBVIOUS
<1>2. \A t \in Servers : t # s => pc'[t] = pc[t] /\ todo'[t] = todo[t] /\ Embedded(t)' = Embedded(t)
  BY DEF Embedded
<1>3. RecordedIsThere'
  BY DEF RecordedIsThere
<1>4. RunInv'
  <2> SUFFICES ASSUME NEW t \in Servers
      PROVE (/\ todo[t] \subseteq Embedded(t)
             /\ pc[t] \in Working => tracked \/ pc[t] = "track"
             /\ pc[t] = "boot" => 1 \in schema /\ (1 \in todo[t] \/ 1 \in recorded)
             /\ pc[t] = "reread" => 1 \in recorded
             /\ pc[t] = "apply" =>
                   /\ Embedded(t) \ todo[t] \subseteq schema
                   /\ 1 \in todo[t] \/ 1 \in recorded
             /\ pc[t] = "up" => Embedded(t) \subseteq schema)'
    BY DEF RunInv
  <2>1. CASE t = s
    BY <1>1, <2>1 DEF Embedded, Working
  <2>2. CASE t # s
    BY <1>2, <2>2 DEF RunInv
  <2> QED
    BY <2>1, <2>2
<1>5. LockInv'
  <2> SUFFICES ASSUME ~lost, NEW t \in Servers
      PROVE /\ pc'[t] \in Working => holder' = t
            /\ pc'[t] = "exists" => recorded = {}
            /\ pc'[t] = "apply" => /\ todo'[t] \cap recorded = {}
                                   /\ 1 \in todo'[t] => schema = {}
    BY DEF LockInv
  <2>1. CASE t = s
    BY <1>1, <2>1 DEF Working
  <2>2. CASE t # s
    BY <1>2, <2>2, NoOneAssumption DEF LockInv, Released
  <2> QED
    BY <2>1, <2>2
<1> QED
  BY <1>3, <1>4, <1>5

\* A step that puts migrations in effect or records them, while what others
\* rely on only grows; its own server leaves the database alone afterwards, or
\* goes on with the rest.
LEMMA GrowStep ==
  ASSUME TypeOK, TypeOK', MigrateInv, NEW s \in Servers, NEW v \in Versions,
         pc[s] \in {"boot", "apply"}, v \in todo[s],
         schema' = schema \cup {v}, recorded' = recorded \cup {v},
         release' = release, tracked' = tracked, lost' = lost,
         1 \in recorded',
         \/ /\ pc' = pc /\ todo' = [todo EXCEPT ![s] = @ \ {v}] /\ holder' = holder
         \/ /\ Goto(s, "down", {}) /\ holder' = Released(s)
  PROVE  MigrateInv'
<1> USE DEF TypeOK, Goto, MigrateInv
<1>1. \A t \in Servers :
         /\ pc'[t] = pc[t] \/ pc'[t] = "down"
         /\ t # s => pc'[t] = pc[t] /\ todo'[t] = todo[t]
         /\ todo'[t] \subseteq todo[t]
         /\ Embedded(t)' = Embedded(t)
         /\ pc'[s] = pc[s] => todo'[s] = todo[s] \ {v} /\ holder' = holder
  BY DEF Embedded
<1>2. RecordedIsThere'
  BY DEF RecordedIsThere
<1>3. RunInv'
  BY <1>1 DEF RunInv, Working
<1>4. LockInv'
  <2> SUFFICES ASSUME ~lost, NEW t \in Servers
      PROVE /\ pc'[t] \in Working => holder' = t
            /\ pc'[t] = "exists" => recorded' = {}
            /\ pc'[t] = "apply" => /\ todo'[t] \cap recorded' = {}
                                   /\ 1 \in todo'[t] => schema' = {}
    BY DEF LockInv
  <2>1. holder = s /\ (t # s => pc[t] \notin Working)
    BY DEF LockInv, Working
  <2>2. CASE t = s
    <3>1. CASE pc'[s] = "down"
      BY <2>2, <3>1 DEF Working
    <3>2. CASE pc'[s] # "down"
      <4>1. pc'[s] = pc[s] /\ todo'[s] = todo[s] \ {v} /\ holder' = holder
        BY <1>1, <3>2
      <4>2. pc[s] = "apply" => todo[s] \cap recorded = {}
        BY DEF LockInv
      <4> QED
        BY <2>1, <2>2, <4>1, <4>2
    <3> QED
      BY <3>1, <3>2
  <2>3. CASE t # s
    BY <1>1, <2>1, <2>3 DEF Working
  <2> QED
    BY <2>2, <2>3
<1> QED
  BY <1>2, <1>3, <1>4

LEMMA MigrateStep == TypeOK /\ TypeOK' /\ MigrateInv /\ [Next]_vars => MigrateInv'
<1> SUFFICES ASSUME TypeOK, TypeOK', MigrateInv, [Next]_vars PROVE MigrateInv'
  OBVIOUS
<1> USE FirstVersion DEF database
<1>1. ASSUME NEW s \in Servers, NEW r \in Versions, Start(s, r) PROVE MigrateInv'
  <2>1. SetsOut(s, "lock", {})
    BY <1>1 DEF Start, SetsOut, Working, TypeOK
  <2> QED
    BY <2>1, LocalStep
<1>2. ASSUME NEW s \in Servers, Lock(s) PROVE MigrateInv'
  <2>1. SetsOut(s, "track", {})
    BY <1>2 DEF Lock, Free, SetsOut, Working
  <2> QED
    BY <2>1, LocalStep
<1>3. ASSUME NEW s \in Servers, Track(s) PROVE MigrateInv'
  <2>1. SetsOut(s, "read", {})
    BY <1>3 DEF Track, SetsOut, Working
  <2> QED
    BY <2>1, LocalStep
<1>4. ASSUME NEW s \in Servers, Read(s) PROVE MigrateInv'
  <2>1. ~lost => holder = s
    BY <1>4 DEF Read, MigrateInv, LockInv, Working
  <2>2. CASE recorded = {}
    <3>1. SetsOut(s, "exists", {})
      BY <1>4, <2>1, <2>2 DEF Read, SetsOut, Working
    <3> QED
      BY <3>1, LocalStep
  <2>3. CASE recorded # {}
    <3>1. 1 \in recorded /\ recorded \subseteq schema
      BY <2>3 DEF MigrateInv, RecordedIsThere
    <3>2. SetsOut(s, "apply", Embedded(s) \ recorded)
      BY <1>4, <2>1, <2>3, <3>1 DEF Read, SetsOut, Working, Embedded
    <3> QED
      BY <3>2, LocalStep
  <2> QED
    BY <2>2, <2>3
<1>5. ASSUME NEW s \in Servers, Exists(s) PROVE MigrateInv'
  <2>1. /\ ~lost => holder = s /\ recorded = {}
        /\ tracked
    BY <1>5 DEF Exists, MigrateInv, LockInv, RunInv, Working
  <2>2. 1 \notin schema => schema = {} /\ recorded = {}
    BY DEF MigrateInv, RecordedIsThere
  <2>3. CASE 1 \in schema
    <3>1. SetsOut(s, "boot", Embedded(s))
      BY <1>5, <2>1, <2>3 DEF Exists, SetsOut, Working, Embedded
    <3> QED
      BY <3>1, LocalStep
  <2>4. CASE 1 \notin schema
    <3>1. SetsOut(s, "apply", Embedded(s))
      BY <1>5, <2>1, <2>2, <2>4 DEF Exists, SetsOut, Working, Embedded
    <3> QED
      BY <3>1, LocalStep
  <2> QED
    BY <2>3, <2>4
<1>6. ASSUME NEW s \in Servers, NEW v \in Versions, Boot(s, v) PROVE MigrateInv'
  <2>1. v \in todo[s] /\ (1 \in todo[s] => v = 1)
    BY <1>6 DEF Boot, BootNext, IsNext
  <2>2. 1 \in schema /\ (1 \in todo[s] \/ 1 \in recorded) /\ todo[s] \subseteq Embedded(s)
    BY <1>6 DEF Boot, MigrateInv, RunInv
  <2>3. CASE v \in schema
    <3>1. schema' = schema \cup {v} /\ recorded' = recorded \cup {v} /\ 1 \in recorded'
      BY <1>6, <2>1, <2>2, <2>3 DEF Boot
    <3> QED
      BY <1>6, <2>1, <3>1, GrowStep DEF Boot
  <2>4. CASE v \notin schema
    <3>1. v # 1 /\ 1 \in recorded
      BY <2>1, <2>2, <2>4
    <3>2. Goto(s, "boot", todo[s] \ {v})
      BY <1>6 DEF Boot, Goto, TypeOK
    <3>3. ~lost => holder = s
      BY <1>6 DEF Boot, MigrateInv, LockInv, Working
    <3>4. tracked
      BY <1>6 DEF Boot, MigrateInv, RunInv, Working
    <3>5. todo[s] \ {v} \in SUBSET Versions /\ todo[s] \ {v} \subseteq 1..release'[s]
      BY <1>6, <2>2 DEF Boot, TypeOK, Embedded
    <3>6. /\ schema' = schema /\ recorded' = recorded /\ tracked' = tracked
          /\ holder' = holder /\ lost' = lost /\ release' = release
      BY <1>6, <2>4 DEF Boot
    <3>7. SetsOut(s, "boot", todo[s] \ {v})
      BY <2>2, <3>1, <3>2, <3>3, <3>4, <3>5, <3>6 DEF SetsOut
    <3> QED
      BY <3>7, LocalStep
  <2> QED
    BY <2>3, <2>4
<1>7. ASSUME NEW s \in Servers, BootDone(s) PROVE MigrateInv'
  <2>1. (~lost => holder = s) /\ tracked /\ 1 \in recorded
    BY <1>7 DEF BootDone, MigrateInv, LockInv, RunInv, Working
  <2>2. SetsOut(s, "reread", {})
    BY <1>7, <2>1 DEF BootDone, SetsOut
  <2> QED
    BY <2>2, LocalStep
<1>8. ASSUME NEW s \in Servers, Reread(s) PROVE MigrateInv'
  <2>1. (~lost => holder = s) /\ tracked /\ 1 \in recorded /\ recorded \subseteq schema
    BY <1>8 DEF Reread, MigrateInv, LockInv, RunInv, RecordedIsThere, Working
  <2>2. SetsOut(s, "apply", Embedded(s) \ recorded)
    BY <1>8, <2>1 DEF Reread, SetsOut, Embedded
  <2> QED
    BY <2>2, LocalStep
<1>9. ASSUME NEW s \in Servers, NEW v \in Versions, Apply(s, v) PROVE MigrateInv'
  <2>1. v \in todo[s] /\ (1 \in todo[s] => v = 1) /\ (1 \in todo[s] \/ 1 \in recorded)
    BY <1>9 DEF Apply, IsNext, MigrateInv, RunInv
  <2> QED
    BY <1>9, <2>1, GrowStep DEF Apply, Applied
<1>10. ASSUME NEW s \in Servers, Finish(s) PROVE MigrateInv'
  <2>1. Embedded(s) \subseteq schema
    BY <1>10 DEF Finish, MigrateInv, RunInv
  <2>2. SetsOut(s, "up", {})
    BY <1>10, <2>1 DEF Finish, SetsOut, Working, Embedded
  <2> QED
    BY <2>2, LocalStep
<1>11. ASSUME NEW s \in Servers, Refused(s) PROVE MigrateInv'
  <2>1. SetsOut(s, "down", {})
    BY <1>11 DEF Refused, SetsOut, Working
  <2> QED
    BY <2>1, LocalStep
<1>12. ASSUME NEW s \in Servers, Fail(s) PROVE MigrateInv'
  <2>1. SetsOut(s, "down", {})
    BY <1>12 DEF Fail, SetsOut, Working
  <2> QED
    BY <2>1, LocalStep
<1>13. ASSUME NEW s \in Servers, NEW v \in Versions, CommitLost(s, v) PROVE MigrateInv'
  <2>1. v \in todo[s] /\ (1 \in todo[s] => v = 1) /\ (1 \in todo[s] \/ 1 \in recorded)
    BY <1>13 DEF CommitLost, IsNext, MigrateInv, RunInv
  <2> QED
    BY <1>13, <2>1, GrowStep DEF CommitLost, Applied
<1>14. ASSUME NEW s \in Servers, Crash(s) PROVE MigrateInv'
  <2>1. SetsOut(s, "down", {})
    BY <1>14 DEF Crash, SetsOut, Working
  <2> QED
    BY <2>1, LocalStep
<1>15. ASSUME NEW s \in Servers, SessionEnds(s) PROVE MigrateInv'
  <2>1. ~lost => \A t \in Servers : pc[t] \notin Working
    BY <1>15 DEF SessionEnds, MigrateInv, LockInv
  <2> QED
    BY <1>15, <2>1 DEF SessionEnds, MigrateInv, RecordedIsThere, RunInv, LockInv, Embedded, Working
<1>16. ASSUME NEW s \in Servers, LoseLock(s) PROVE MigrateInv'
  BY <1>16 DEF LoseLock, MigrateInv, RecordedIsThere, RunInv, LockInv, Embedded
<1>17. CASE Truncate
  BY <1>17 DEF Truncate, MigrateInv, RecordedIsThere, RunInv, LockInv, Embedded, Working
<1>18. CASE UNCHANGED vars
  BY <1>18 DEF vars, MigrateInv, RecordedIsThere, RunInv, LockInv, Embedded
<1> QED
  BY <1>1, <1>2, <1>3, <1>4, <1>5, <1>6, <1>7, <1>8, <1>9, <1>10, <1>11, <1>12,
     <1>13, <1>14, <1>15, <1>16, <1>17, <1>18 DEF Next, Step

\* The inductive invariant: what a migrating server relies on, with and without
\* the lock.
THEOREM MigrateCorrect == Spec => []MigrateInv
  BY TypeCorrect, MigrateInit, MigrateStep, PTL DEF Spec

\* What is recorded is there, and 001 is recorded whenever anything is.
THEOREM RecordCorrect == Spec => []RecordedIsThere
  BY MigrateCorrect, PTL DEF MigrateInv

\* While no connection is cut, one server migrates at a time and none fails on
\* what is already there.
THEOREM LockCorrect == Spec => []NoClash
<1>1. TypeOK /\ MigrateInv => NoClash
  <2> SUFFICES ASSUME TypeOK, MigrateInv, ~lost PROVE NoClash
    BY DEF NoClash
  <2>1. \A s, t \in Servers : pc[s] \in Working /\ pc[t] \in Working => s = t
    BY DEF MigrateInv, LockInv
  <2>2. ASSUME NEW s \in Servers, pc[s] = "apply", NEW v \in todo[s]
        PROVE ~Clash(v)
    <3>1. v \in Versions
      BY DEF TypeOK
    <3>2. v \notin recorded /\ (v = 1 => schema = {})
      BY <2>2 DEF MigrateInv, LockInv
    <3> QED
      BY <3>1, <3>2 DEF Clash, Rerunnable
  <2> QED
    BY <2>1, <2>2 DEF NoClash
<1> QED
  BY <1>1, TypeCorrect, MigrateCorrect, PTL

-----------------------------------------------------------------------------
(* Refinement *)

LEMMA GrowthInit == Init => Growth!Init
  BY DEF Init, Growth!Init, Growth!Versions, Versions

\* A step of one server in which it does not begin to serve.
LEMMA Quiet ==
  ASSUME TypeOK, TypeOK', NEW s \in Servers, NEW step, NEW S, Goto(s, step, S),
         step # "up", \A t \in Servers : t # s => release'[t] = release[t],
         schema' = schema
  PROVE  [Growth!Next]_<<schema, [t \in Servers |-> IF pc[t] = "up" THEN release[t] ELSE 0]>>
<1> DEFINE serving == [t \in Servers |-> IF pc[t] = "up" THEN release[t] ELSE 0]
<1>1. serving' = [serving EXCEPT ![s] = 0]
  BY DEF Goto, TypeOK
<1>2. Growth!Stop(s)
  BY <1>1 DEF Growth!Stop
<1> QED
  BY <1>2 DEF Growth!Next

LEMMA GrowthStep ==
  TypeOK /\ TypeOK' /\ MigrateInv /\ [Next]_vars
  => [Growth!Next]_<<schema, [t \in Servers |-> IF pc[t] = "up" THEN release[t] ELSE 0]>>
<1> DEFINE serving == [t \in Servers |-> IF pc[t] = "up" THEN release[t] ELSE 0]
           Ok == [Growth!Next]_<<schema, serving>>
<1> SUFFICES ASSUME TypeOK, TypeOK', MigrateInv, [Next]_vars PROVE Ok
  OBVIOUS
<1> USE DEF database
<1>1. ASSUME NEW s \in Servers, NEW r \in Versions, Start(s, r) PROVE Ok
  BY <1>1, Quiet DEF Start, TypeOK
<1>2. ASSUME NEW s \in Servers, Lock(s) PROVE Ok
  BY <1>2, Quiet DEF Lock
<1>3. ASSUME NEW s \in Servers, Track(s) PROVE Ok
  BY <1>3, Quiet DEF Track
<1>4. ASSUME NEW s \in Servers, Read(s) PROVE Ok
  BY <1>4, Quiet DEF Read
<1>5. ASSUME NEW s \in Servers, Exists(s) PROVE Ok
  BY <1>5, Quiet DEF Exists
<1>6. ASSUME NEW s \in Servers, NEW v \in Versions, Boot(s, v) PROVE Ok
  BY <1>6 DEF Boot
<1>7. ASSUME NEW s \in Servers, BootDone(s) PROVE Ok
  BY <1>7, Quiet DEF BootDone
<1>8. ASSUME NEW s \in Servers, Reread(s) PROVE Ok
  BY <1>8, Quiet DEF Reread
<1>9. ASSUME NEW s \in Servers, NEW v \in Versions, pc[s] = "apply", IsNext(v, todo[s])
      PROVE 1..(v - 1) \subseteq schema
  <2>1. Embedded(s) \ todo[s] \subseteq schema /\ todo[s] \subseteq Embedded(s)
    BY <1>9 DEF MigrateInv, RunInv
  <2>2. 1..(v - 1) \subseteq Embedded(s) \ todo[s]
    BY <1>9, <2>1, LastAssumption DEF IsNext, Embedded, TypeOK, Versions
  <2> QED
    BY <2>1, <2>2
<1>10. ASSUME NEW s \in Servers, NEW v \in Versions, Apply(s, v) PROVE Ok
  <2>1. Growth!Grow(v)
    BY <1>9, <1>10 DEF Apply, Applied, Growth!Grow
  <2> QED
    BY <2>1 DEF Growth!Next, Growth!Versions, Versions
<1>11. ASSUME NEW s \in Servers, Finish(s) PROVE Ok
  <2>1. Embedded(s) \subseteq schema /\ release[s] \in Versions
    BY <1>11 DEF Finish, MigrateInv, RunInv, TypeOK
  <2>2. serving' = [serving EXCEPT ![s] = release[s]]
    BY <1>11 DEF Finish, Goto, TypeOK
  <2>3. PICK r \in Growth!Versions : r = release[s]
    BY <2>1 DEF Growth!Versions, Versions
  <2>4. Growth!Serve(s, r)
    BY <1>11, <2>1, <2>2, <2>3 DEF Finish, Embedded, Growth!Serve
  <2> QED
    BY <2>4 DEF Growth!Next
<1>12. ASSUME NEW s \in Servers, Refused(s) PROVE Ok
  BY <1>12, Quiet DEF Refused
<1>13. ASSUME NEW s \in Servers, Fail(s) PROVE Ok
  BY <1>13, Quiet DEF Fail
<1>14. ASSUME NEW s \in Servers, NEW v \in Versions, CommitLost(s, v) PROVE Ok
  <2>1. serving' = serving
    BY <1>14 DEF CommitLost, Goto, TypeOK
  <2>2. Growth!Grow(v)
    BY <1>9, <1>14, <2>1 DEF CommitLost, Applied, Growth!Grow
  <2> QED
    BY <2>2 DEF Growth!Next, Growth!Versions, Versions
<1>15. ASSUME NEW s \in Servers, Crash(s) PROVE Ok
  BY <1>15, Quiet DEF Crash
<1>16. ASSUME NEW s \in Servers, SessionEnds(s) PROVE Ok
  BY <1>16 DEF SessionEnds
<1>17. ASSUME NEW s \in Servers, LoseLock(s) PROVE Ok
  BY <1>17 DEF LoseLock
<1>18. CASE Truncate
  BY <1>18 DEF Truncate
<1>19. CASE UNCHANGED vars
  BY <1>19 DEF vars
<1> QED
  BY <1>1, <1>2, <1>3, <1>4, <1>5, <1>6, <1>7, <1>8, <1>10, <1>11, <1>12, <1>13,
     <1>14, <1>15, <1>16, <1>17, <1>18, <1>19 DEF Next, Step

\* The migrator implements the growth of the schema, one migration at a time
\* and in order, also when servers migrate side by side after a lost lock.
THEOREM GrowthCorrect == Spec => ImplementsSchemaGrowth
<1>1. TypeOK /\ TypeOK' /\ MigrateInv /\ [Next]_vars
      => [Growth!Next]_<<schema, [s \in Servers |-> IF pc[s] = "up" THEN release[s] ELSE 0]>>
  BY GrowthStep
<1> QED
  BY <1>1, GrowthInit, TypeCorrect, MigrateCorrect, PTL
     DEF Spec, ImplementsSchemaGrowth, Growth!Spec

=============================================================================
