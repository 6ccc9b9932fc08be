-------------------------- MODULE HelperSyncProofs --------------------------
(***************************************************************************)
(* Proofs about HelperSync, for any set of configurations.  What a reload  *)
(* loads and what is reported holds whatever the backend serves; that      *)
(* "in sync" is true holds until it serves a configuration again.          *)
(***************************************************************************)
EXTENDS HelperSync, TLAPS

USE NoneAssumption DEF Files, Versions

\* Loading keeps the types of what is loaded and of what was run.
LEMMA LoadType ==
    ASSUME TypeOK, Load
    PROVE  loaded' \in [Files -> Versions] /\ ran' \subseteq Hashes /\ ran \subseteq ran'
  BY DEF TypeOK, Load

\* The file after f, or the reload.
LEMMA AfterFacts ==
    /\ After["parent.config"] = "sni.yaml"
    /\ After["sni.yaml"] = "ip_allow.yaml"
    /\ After["ip_allow.yaml"] = "reload"
  BY DEF After

\* Every step keeps the state well typed.
LEMMA TypeStep == TypeOK /\ [Next]_vars => TypeOK'
  <1> SUFFICES ASSUME TypeOK, [Next]_vars PROVE TypeOK'
      OBVIOUS
  <1> USE DEF TypeOK, backend, host, Quit, Steps
  <1>1. ASSUME NEW h \in Hashes, Activate(h) PROVE TypeOK'
        BY <1>1 DEF Activate
  <1>2. ASSUME NEW h \in Hashes, Reassign(h) PROVE TypeOK'
        BY <1>2 DEF Reassign
  <1>3. ASSUME NEW h \in Hashes, AckLate(h) PROVE TypeOK'
        BY <1>3 DEF AckLate
  <1>4. CASE Unassign
        BY <1>4 DEF Unassign
  <1>5. CASE Reregister
        BY <1>5 DEF Reregister
  <1>6. ASSUME NEW h \in {saved, None}, Fetch(h) PROVE TypeOK'
        BY <1>6 DEF Fetch, Offered
  <1>7. ASSUME NEW f \in Files, WriteOk(f) PROVE TypeOK'
        BY <1>7, AfterFacts DEF WriteOk
  <1>8. ASSUME NEW f \in Files, WriteFail(f) PROVE TypeOK'
        BY <1>8 DEF WriteFail
  <1>9. CASE ReloadOk
        BY <1>9, LoadType DEF ReloadOk
  <1>10. CASE ReloadFail
        BY <1>10, LoadType DEF ReloadFail
  <1>11. CASE Save
        BY <1>11 DEF Save
  <1>12. CASE AckOk
        BY <1>12 DEF AckOk
  <1>13. CASE AckFail
        BY <1>13 DEF AckFail
  <1>14. CASE Crash
        BY <1>14 DEF Crash
  <1>15. CASE Restart
        BY <1>15, LoadType DEF Restart
  <1>16. CASE UNCHANGED vars
        BY <1>16 DEF vars
  <1> QED
        BY <1>1, <1>2, <1>3, <1>4, <1>5, <1>6, <1>7, <1>8, <1>9, <1>10, <1>11,
           <1>12, <1>13, <1>14, <1>15, <1>16 DEF Next

\* Every state of a proxy host is well typed.
THEOREM TypeCorrect == Spec => []TypeOK
  <1>1. Init => TypeOK
        BY DEF Init, TypeOK, Steps
  <1> QED
        BY <1>1, TypeStep, PTL DEF Spec

-----------------------------------------------------------------------------
(* What holds whatever the backend serves *)

RunInv == ApplyInv /\ ReportedWasRun

\* When every file on disk is target's, loading runs target.
LEMMA LoadWhole ==
    ASSUME TypeOK, Load, ApplyInv, pc \in {"reload", "save", "ack"}
    PROVE  Whole(disk, target) /\ Whole(loaded', target) /\ target \in ran'
  BY DEF TypeOK, Load, ApplyInv, Whole

\* Every step keeps track of the files written and of what was run.
LEMMA RunStep == TypeOK /\ RunInv /\ [Next]_vars => RunInv'
  <1> SUFFICES ASSUME TypeOK, RunInv, [Next]_vars PROVE RunInv'
      OBVIOUS
  <1> USE DEF TypeOK, RunInv, ApplyInv, ReportedWasRun, Whole, backend, host, Quit
  <1>1. ASSUME NEW h \in Hashes, Activate(h) PROVE RunInv'
        BY <1>1 DEF Activate
  <1>2. ASSUME NEW h \in Hashes, Reassign(h) PROVE RunInv'
        BY <1>2 DEF Reassign
  <1>3. ASSUME NEW h \in Hashes, AckLate(h) PROVE RunInv'
        BY <1>3 DEF AckLate
  <1>4. CASE Unassign
        BY <1>4 DEF Unassign
  <1>5. CASE Reregister
        BY <1>5 DEF Reregister
  <1>6. ASSUME NEW h \in {saved, None}, Fetch(h) PROVE RunInv'
        BY <1>6 DEF Fetch
  <1>7. ASSUME NEW f \in Files, WriteOk(f) PROVE RunInv'
        BY <1>7, AfterFacts DEF WriteOk
  <1>8. ASSUME NEW f \in Files, WriteFail(f) PROVE RunInv'
        BY <1>8 DEF WriteFail
  <1>9. CASE ReloadOk
        BY <1>9, LoadWhole, LoadType DEF ReloadOk
  <1>10. CASE ReloadFail
        BY <1>10, LoadType DEF ReloadFail
  <1>11. CASE Save
        BY <1>11 DEF Save
  <1>12. CASE AckOk
        BY <1>12 DEF AckOk
  <1>13. CASE AckFail
        BY <1>13 DEF AckFail
  <1>14. CASE Crash
        BY <1>14 DEF Crash
  <1>15. CASE Restart
        BY <1>15, LoadWhole, LoadType DEF Restart
  <1>16. CASE UNCHANGED vars
        BY <1>16 DEF vars
  <1> QED
        BY <1>1, <1>2, <1>3, <1>4, <1>5, <1>6, <1>7, <1>8, <1>9, <1>10, <1>11,
           <1>12, <1>13, <1>14, <1>15, <1>16 DEF Next

LEMMA RunCorrect == Spec => []RunInv
  <1>1. Init => RunInv
        BY DEF Init, RunInv, ApplyInv, ReportedWasRun
  <1> QED
        BY <1>1, TypeCorrect, RunStep, PTL DEF Spec

\* Whatever is served, what the helper reports applied and what its hash file
\* names was run by ATS as a whole (the order of doSync).
THEOREM ReportedCorrect == Spec => []ReportedWasRun
  <1>1. RunInv => ReportedWasRun
        BY DEF RunInv
  <1> QED
        BY <1>1, RunCorrect, PTL

\* A reload, unlike a restart of ATS, only ever loads a whole configuration.
THEOREM ReloadCorrect == Spec => ReloadsWhole
  <1> DEFINE Whole1 == Restart \/ loaded' = loaded \/ \E h \in Hashes : Whole(loaded', h)
  <1>1. TypeOK /\ RunInv /\ [Next]_vars => [Whole1]_vars
        <2> SUFFICES ASSUME TypeOK, RunInv, [Next]_vars, ~Restart, loaded' # loaded
                     PROVE  \E h \in Hashes : Whole(loaded', h)
            BY DEF vars
        <2>1. CASE ReloadOk
              BY <2>1, LoadWhole DEF ReloadOk, RunInv, TypeOK
        <2>2. CASE ReloadFail
              <3>1. Load
                    BY <2>2 DEF ReloadFail
              <3> QED
                    BY <2>2, <3>1, LoadWhole DEF ReloadFail, RunInv, TypeOK
        <2>3. ~ReloadOk /\ ~ReloadFail => loaded' = loaded
              BY DEF Next, vars, host, Activate, Reassign, AckLate, Unassign, Reregister, Fetch,
                     WriteOk, WriteFail, Save, AckOk, AckFail, Crash
        <2> QED
              BY <2>1, <2>2, <2>3
  <1> QED
        BY <1>1, TypeCorrect, RunCorrect, PTL DEF Spec, ReloadsWhole

-----------------------------------------------------------------------------
(* What holds until a configuration is served again *)

\* Every step keeps what is known of the configuration being served.
LEMMA ServedStep == TypeOK /\ RunInv /\ ServedInv /\ [Next]_vars => ServedInv'
  <1> SUFFICES ASSUME TypeOK, RunInv, ServedInv, [Next]_vars PROVE ServedInv'
      OBVIOUS
  <1> USE DEF TypeOK, ServedInv, Reported, Whole, backend, host, Quit
  <1>1. ASSUME NEW h \in Hashes, Activate(h) PROVE ServedInv'
        BY <1>1 DEF Activate
  <1>2. ASSUME NEW h \in Hashes, Reassign(h) PROVE ServedInv'
        BY <1>2 DEF Reassign
  <1>3. ASSUME NEW h \in Hashes, AckLate(h) PROVE ServedInv'
        BY <1>3 DEF AckLate
  <1>4. CASE Unassign
        BY <1>4 DEF Unassign
  <1>5. CASE Reregister
        BY <1>5 DEF Reregister
  <1>6. ASSUME NEW h \in {saved, None}, Fetch(h) PROVE ServedInv'
        BY <1>6 DEF Fetch
  <1>7. ASSUME NEW f \in Files, WriteOk(f) PROVE ServedInv'
        BY <1>7 DEF WriteOk, After
  <1>8. ASSUME NEW f \in Files, WriteFail(f) PROVE ServedInv'
        BY <1>8 DEF WriteFail
  <1>9. CASE ReloadOk
        BY <1>9 DEF ReloadOk, Load
  <1>10. CASE ReloadFail
        BY <1>10 DEF ReloadFail, Load
  <1>11. CASE Save
        BY <1>11 DEF Save, RunInv, ApplyInv
  <1>12. CASE AckOk
        BY <1>12 DEF AckOk, RunInv, ApplyInv
  <1>13. CASE AckFail
        BY <1>13 DEF AckFail, RunInv, ApplyInv
  <1>14. CASE Crash
        BY <1>14 DEF Crash
  <1>15. CASE Restart
        BY <1>15 DEF Restart, Load
  <1>16. CASE UNCHANGED vars
        BY <1>16 DEF vars
  <1> QED
        BY <1>1, <1>2, <1>3, <1>4, <1>5, <1>6, <1>7, <1>8, <1>9, <1>10, <1>11,
           <1>12, <1>13, <1>14, <1>15, <1>16 DEF Next

\* SyncInv, which relates doSync, the files, the hash file and the acks, is
\* invariant.
THEOREM SyncCorrect == Spec => []SyncInv
  <1>1. Init => ServedInv
        BY DEF Init, ServedInv, Reported
  <1>2. ServedInv /\ RunInv => SyncInv
        BY DEF SyncInv, RunInv
  <1>3. TypeOK /\ RunInv /\ ServedInv /\ [Next]_vars => ServedInv'
        BY ServedStep
  <1> QED
        BY <1>1, <1>2, <1>3, TypeCorrect, RunCorrect, PTL DEF Spec

\* "Sincronizado" is true as long as no configuration is served again: ATS runs
\* the three files of the one served.
THEOREM InSyncCorrect == Spec => []InSyncIsTrue
  <1>1. SyncInv => InSyncIsTrue
        BY DEF SyncInv, ServedInv, Reported, InSyncIsTrue
  <1> QED
        BY <1>1, SyncCorrect, PTL

=============================================================================
