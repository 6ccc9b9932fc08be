------------------------- MODULE ProxyRegistryProofs ------------------------
(***************************************************************************)
(* Proofs about ProxyRegistry, for any number of helpers and any two       *)
(* thresholds, the first not above the second.                             *)
(***************************************************************************)
EXTENDS ProxyRegistry, TLAPS

USE NoneAssumption, TimeAssumption, NoneIsNoRow DEF Max, Never, Ages, Known

\* Refreshing a row.
LEMMA SeenFacts ==
    ASSUME row \in Row
    PROVE  Seen \in Row /\ Seen.id = row.id /\ Seen.online = TRUE /\ Seen.seen = 0
  <1>1. 0 \in Ages /\ TRUE \in BOOLEAN
        OBVIOUS
  <1>2. Seen \in Row
        BY <1>1 DEF Row, Seen
  <1>3. Seen.id = row.id /\ Seen.online = TRUE /\ Seen.seen = 0
        BY DEF Row, Seen
  <1> QED
        BY <1>2, <1>3

\* Taking it offline.
LEMMA OfflineFacts ==
    ASSUME row \in Row
    PROVE  Offline \in Row /\ Offline.online = FALSE /\ Offline.seen = row.seen
  <1>1. Offline \in Row
        BY DEF Row, Offline
  <1>2. Offline.online = FALSE /\ Offline.seen = row.seen
        BY DEF Row, Offline
  <1> QED
        BY <1>1, <1>2

\* The next statement of a Register request.
LEMMA AskType ==
    ASSUME TypeOK, NEW h \in Helpers, NEW at, NEW id, Ask(h, at, id),
           \/ at = "create" /\ id = None
           \/ at \in {"ip", "seen"} /\ id \in Ids
    PROVE  /\ reg' \in [Helpers -> Request]
           /\ \A g \in Helpers : reg'[g].at \in {"ip", "seen"} => reg'[g].id \in Ids
  <1>1. [at |-> at, id |-> id] \in Request
        BY DEF Request
  <1>2. \A g \in Helpers : reg'[g] = IF g = h THEN [at |-> at, id |-> id] ELSE reg[g]
        BY DEF TypeOK, Ask
  <1>3. reg' \in [Helpers -> Request]
        BY <1>1 DEF TypeOK, Ask
  <1> QED
        BY <1>2, <1>3 DEF TypeOK

\* Every step keeps the state well typed.
LEMMA TypeStep == TypeOK /\ [Next]_vars => TypeOK'
  <1> SUFFICES ASSUME TypeOK, [Next]_vars PROVE TypeOK'
      OBVIOUS
  <1> USE DEF TypeOK, Request, NoRequest, Row
  <1>1. ASSUME NEW h \in Helpers, RegisterRead(h) PROVE TypeOK'
        BY <1>1, AskType DEF RegisterRead
  <1>2. ASSUME NEW h \in Helpers, RegisterIP(h) PROVE TypeOK'
        BY <1>2 DEF RegisterIP, Ask, Refers
  <1>3. ASSUME NEW h \in Helpers, RegisterCreate(h) PROVE TypeOK'
        <2>1. CASE row # None
              BY <1>3, <2>1 DEF RegisterCreate
        <2>2. CASE row = None
              <3>1. PICK id \in Ids :
                      /\ row' = [id |-> id, ip |-> h, online |-> FALSE, seen |-> Never]
                      /\ Ask(h, "seen", id)
                    BY <1>3, <2>2 DEF RegisterCreate
              <3>2. row' \in Row
                    BY <3>1
              <3> QED
                    BY <1>3, <3>1, <3>2, AskType DEF RegisterCreate
        <2> QED
              BY <2>1, <2>2
  <1>4. ASSUME NEW h \in Helpers, RegisterSeen(h) PROVE TypeOK'
        BY <1>4, SeenFacts DEF RegisterSeen, Refers, Learn
  <1>5. ASSUME NEW h \in Helpers, RegisterLost(h) PROVE TypeOK'
        BY <1>5, SeenFacts DEF RegisterLost, Refers
  <1>6. ASSUME NEW h \in Helpers, RegisterFail(h) PROVE TypeOK'
        BY <1>6 DEF RegisterFail
  <1>7. ASSUME NEW h \in Helpers, Start(h) PROVE TypeOK'
        BY <1>7 DEF Start
  <1>8. ASSUME NEW h \in Helpers, Stop(h) PROVE TypeOK'
        BY <1>8 DEF Stop
  <1>9. ASSUME NEW h \in Helpers, HelloFails(h) PROVE TypeOK'
        BY <1>9 DEF HelloFails
  <1>10. ASSUME NEW h \in Helpers, SyncAsk(h) PROVE TypeOK'
        BY <1>10 DEF SyncAsk
  <1>11. ASSUME NEW h \in Helpers, SyncSeen(h) PROVE TypeOK'
        BY <1>11, SeenFacts DEF SyncSeen
  <1>12. ASSUME NEW h \in Helpers, SyncGone(h) PROVE TypeOK'
        BY <1>12 DEF SyncGone
  <1>13. ASSUME NEW h \in Helpers, SyncFail(h) PROVE TypeOK'
        BY <1>13 DEF SyncFail
  <1>14. ASSUME NEW h \in Helpers, Disconnect(h) PROVE TypeOK'
        BY <1>14 DEF Disconnect
  <1>15. CASE MarkOfflineStale
        BY <1>15, OfflineFacts DEF MarkOfflineStale, Stale
  <1>16. CASE DeleteOfflineStale
        BY <1>16 DEF DeleteOfflineStale, Stale
  <1>17. CASE Delete
        BY <1>17 DEF Delete
  <1>18. CASE Tick
        BY <1>18 DEF Tick, Older
  <1>19. CASE UNCHANGED vars
        BY <1>19 DEF vars
  <1> QED
        BY <1>1, <1>2, <1>3, <1>4, <1>5, <1>6, <1>7, <1>8, <1>9,
           <1>10, <1>11, <1>12, <1>13, <1>14, <1>15, <1>16, <1>17, <1>18,
           <1>19 DEF Next

\* Every state of a host name is well typed.
THEOREM TypeCorrect == Spec => []TypeOK
  <1>1. Init => TypeOK
        BY DEF Init, TypeOK, Request, NoRequest
  <1> QED
        BY <1>1, TypeStep, PTL DEF Spec

\* A refreshed row is online and as fresh as can be.
LEMMA SeenRefresh ==
    ASSUME TypeOK, RefreshInv, row # None, row' = Seen, since' \in {since, 0}
    PROVE  RefreshInv'
  <1>1. row' # None /\ row'.online = TRUE /\ row'.seen = 0
        BY SeenFacts DEF TypeOK
  <1>2. since' \in Int /\ (since' \in 0..DeleteAfter => row'.seen \in 0..since')
        BY <1>1 DEF TypeOK
  <1>3. row'.online /\ row'.seen # Never
        BY <1>1
  <1> QED
        BY <1>1, <1>2, <1>3 DEF RefreshInv

\* Every step keeps the row as fresh as the last sync and a fresh row online.
LEMMA RefreshStep == TypeOK /\ RefreshInv /\ [Next]_vars => RefreshInv'
  <1> SUFFICES ASSUME TypeOK, RefreshInv, [Next]_vars PROVE RefreshInv'
      OBVIOUS
  <1>1. ASSUME NEW h \in Helpers, RegisterRead(h) PROVE RefreshInv'
        BY <1>1 DEF RegisterRead, Ask, TypeOK, RefreshInv, Row
  <1>2. ASSUME NEW h \in Helpers, RegisterIP(h) PROVE RefreshInv'
        BY <1>2 DEF RegisterIP, Ask, Refers, TypeOK, RefreshInv, Row
  <1>3. ASSUME NEW h \in Helpers, RegisterCreate(h) PROVE RefreshInv'
        BY <1>3 DEF RegisterCreate, Ask, TypeOK, RefreshInv, Row
  <1>4. ASSUME NEW h \in Helpers, RegisterSeen(h) PROVE RefreshInv'
        BY <1>4, SeenRefresh DEF RegisterSeen, Refers, RefreshInv
  <1>5. ASSUME NEW h \in Helpers, RegisterLost(h) PROVE RefreshInv'
        BY <1>5, SeenRefresh DEF RegisterLost, Refers
  <1>6. ASSUME NEW h \in Helpers, RegisterFail(h) PROVE RefreshInv'
        BY <1>6 DEF RegisterFail, TypeOK, RefreshInv, Row
  <1>7. ASSUME NEW h \in Helpers, Start(h) PROVE RefreshInv'
        BY <1>7 DEF Start, TypeOK, RefreshInv, Row
  <1>8. ASSUME NEW h \in Helpers, Stop(h) PROVE RefreshInv'
        BY <1>8 DEF Stop, TypeOK, RefreshInv, Row
  <1>9. ASSUME NEW h \in Helpers, HelloFails(h) PROVE RefreshInv'
        BY <1>9 DEF HelloFails, TypeOK, RefreshInv, Row
  <1>10. ASSUME NEW h \in Helpers, SyncAsk(h) PROVE RefreshInv'
        BY <1>10 DEF SyncAsk, TypeOK, RefreshInv, Row
  <1>11. ASSUME NEW h \in Helpers, SyncSeen(h) PROVE RefreshInv'
        BY <1>11, SeenRefresh DEF SyncSeen
  <1>12. ASSUME NEW h \in Helpers, SyncGone(h) PROVE RefreshInv'
        BY <1>12 DEF SyncGone, TypeOK, RefreshInv, Row
  <1>13. ASSUME NEW h \in Helpers, SyncFail(h) PROVE RefreshInv'
        BY <1>13 DEF SyncFail, TypeOK, RefreshInv, Row
  <1>14. ASSUME NEW h \in Helpers, Disconnect(h) PROVE RefreshInv'
        BY <1>14 DEF Disconnect, TypeOK, RefreshInv, Row
  <1>15. CASE MarkOfflineStale
        <2>1. row' # None /\ row'.online = FALSE /\ row'.seen = row.seen /\ since' = since
              BY <1>15, OfflineFacts DEF MarkOfflineStale, Stale, TypeOK
        <2>2. row # None /\ row.seen > OfflineAfter /\ row.seen \in Int
              BY <1>15 DEF MarkOfflineStale, Stale, TypeOK, Row
        <2> QED
              BY <2>1, <2>2 DEF RefreshInv
  <1>16. CASE DeleteOfflineStale
        BY <1>16 DEF DeleteOfflineStale, Stale, TypeOK, RefreshInv, Row
  <1>17. CASE Delete
        BY <1>17 DEF Delete, TypeOK, RefreshInv, Row
  <1>18. CASE Tick
        BY <1>18 DEF Tick, Older, TypeOK, RefreshInv, Row
  <1>19. CASE UNCHANGED vars
        BY <1>19 DEF vars, TypeOK, RefreshInv, Row
  <1> QED
        BY <1>1, <1>2, <1>3, <1>4, <1>5, <1>6, <1>7, <1>8, <1>9,
           <1>10, <1>11, <1>12, <1>13, <1>14, <1>15, <1>16, <1>17, <1>18,
           <1>19 DEF Next

\* The row is as fresh as the last sync, and online while it is fresh.
THEOREM RefreshCorrect == Spec => []RefreshInv
  <1>1. Init => RefreshInv
        BY DEF Init, RefreshInv
  <1> QED
        BY <1>1, TypeCorrect, RefreshStep, PTL DEF Spec

\* A recent sync is in the row.
LEMMA LiveRow == TypeOK /\ RefreshInv => LiveIsKept
  BY DEF TypeOK, RefreshInv, LiveIsKept, Live, Row

\* As long as helpers sync, neither the scheduler nor half done registrations
\* take the row away or offline.
THEOREM LiveCorrect == Spec => []LiveIsKept
  BY TypeCorrect, RefreshCorrect, LiveRow, PTL

Refused == Live => \A h \in Helpers : row.ip # h /\ proxyID[h] = None => ~Admits(h)

\* Only the conflict check lets a request in, and it sees the row online.
LEMMA RefusedStep == TypeOK /\ RefreshInv /\ [Next]_vars => Refused
  <1> SUFFICES ASSUME TypeOK, RefreshInv, [Next]_vars, Live,
                      NEW g \in Helpers, row.ip # g, proxyID[g] = None, Admits(g)
               PROVE  FALSE
      BY DEF Refused
  <1> USE DEF TypeOK, Admits, Request, NoRequest
  <1>0. row \in Row /\ row # None /\ row.online
        BY LiveRow DEF LiveIsKept
  <1>1. ASSUME NEW h \in Helpers, RegisterRead(h) PROVE FALSE
        BY <1>0, <1>1 DEF RegisterRead, Ask, Admitted, Row
  <1>2. ASSUME NEW h \in Helpers, RegisterIP(h) PROVE FALSE
        BY <1>2 DEF RegisterIP, Ask
  <1>3. ASSUME NEW h \in Helpers, RegisterCreate(h) PROVE FALSE
        BY <1>3 DEF RegisterCreate, Ask
  <1>4. ASSUME NEW h \in Helpers, RegisterSeen(h) PROVE FALSE
        BY <1>4 DEF RegisterSeen
  <1>5. ASSUME NEW h \in Helpers, RegisterLost(h) PROVE FALSE
        BY <1>5 DEF RegisterLost
  <1>6. ASSUME NEW h \in Helpers, RegisterFail(h) PROVE FALSE
        BY <1>6 DEF RegisterFail
  <1>7. ASSUME NEW h \in Helpers, Start(h) PROVE FALSE
        BY <1>7 DEF Start
  <1>8. ASSUME NEW h \in Helpers, Stop(h) PROVE FALSE
        BY <1>8 DEF Stop
  <1>9. ASSUME NEW h \in Helpers, HelloFails(h) PROVE FALSE
        BY <1>9 DEF HelloFails
  <1>10. ASSUME NEW h \in Helpers, SyncAsk(h) PROVE FALSE
        BY <1>10 DEF SyncAsk
  <1>11. ASSUME NEW h \in Helpers, SyncSeen(h) PROVE FALSE
        BY <1>11 DEF SyncSeen
  <1>12. ASSUME NEW h \in Helpers, SyncGone(h) PROVE FALSE
        BY <1>12 DEF SyncGone
  <1>13. ASSUME NEW h \in Helpers, SyncFail(h) PROVE FALSE
        BY <1>13 DEF SyncFail
  <1>14. ASSUME NEW h \in Helpers, Disconnect(h) PROVE FALSE
        BY <1>14 DEF Disconnect
  <1>15. CASE MarkOfflineStale
        BY <1>15 DEF MarkOfflineStale
  <1>16. CASE DeleteOfflineStale
        BY <1>16 DEF DeleteOfflineStale
  <1>17. CASE Delete
        BY <1>17 DEF Delete
  <1>18. CASE Tick
        BY <1>18 DEF Tick
  <1>19. CASE UNCHANGED vars
        BY <1>19 DEF vars
  <1> QED
        BY <1>1, <1>2, <1>3, <1>4, <1>5, <1>6, <1>7, <1>8, <1>9,
           <1>10, <1>11, <1>12, <1>13, <1>14, <1>15, <1>16, <1>17, <1>18,
           <1>19 DEF Next

\* A newcomer is not admitted while a helper syncs under the host name.
THEOREM NewcomerCorrect == Spec => NewcomerRefused
  BY TypeCorrect, RefreshCorrect, RefusedStep, PTL DEF Spec, NewcomerRefused, Refused

-----------------------------------------------------------------------------
(* What Register's check is worth *)

\* While a Register request waits between its check and its UPDATE of the
\* address, the row it is for does not come online or change its address.
Undisturbed ==
    \A h \in Helpers :
        /\ reg[h].at = "ip" /\ reg'[h] = reg[h]
        /\ Known /\ row.id = reg[h].id
        /\ Known' /\ row'.id = row.id
        => row'.ip = row.ip /\ (row'.online => row.online)

ChecksHold == [][Undisturbed]_vars

\* What a waiting request checked is still true, if its row is still there.
AdmittedInv ==
    \A h \in Helpers :
        reg[h].at = "ip" /\ Known /\ row.id = reg[h].id
        => ~row.online \/ row.ip = h \/ proxyID[h] = row.id

\* A request that goes on waiting keeps its helper's id, and no other row gets
\* the id of the one it is for.
LEMMA WaitingStep ==
    ASSUME TypeOK, [Next]_vars, NEW h \in Helpers, reg'[h].at = "ip"
    PROVE  \/ /\ reg'[h] = reg[h] /\ proxyID'[h] = proxyID[h]
              /\ row' # None /\ row'.id = reg[h].id => row # None /\ row.id = row'.id
           \/ RegisterRead(h) /\ row # None /\ Admitted(h) /\ reg'[h].id = row.id
  <1> USE DEF TypeOK, Request, NoRequest, Row
  <1>1. ASSUME NEW g \in Helpers, RegisterRead(g)
        PROVE  \/ reg'[h] = reg[h] /\ UNCHANGED <<row, proxyID>>
               \/ RegisterRead(h) /\ row # None /\ Admitted(h) /\ reg'[h].id = row.id
        BY <1>1 DEF RegisterRead, Ask
  <1>2. ASSUME NEW g \in Helpers, RegisterIP(g)
        PROVE  reg'[h] = reg[h] /\ proxyID' = proxyID /\ (row' # None => row # None /\ row.id = row'.id)
        BY <1>2 DEF RegisterIP, Ask, Refers
  <1>3. ASSUME NEW g \in Helpers, RegisterCreate(g)
        PROVE  /\ reg'[h] = reg[h] /\ proxyID' = proxyID
               /\ row' # None /\ row'.id = reg[h].id => row # None /\ row.id = row'.id
        <2>1. CASE row # None
              BY <1>3, <2>1 DEF RegisterCreate
        <2>2. CASE row = None
              <3>1. PICK id \in Ids :
                      /\ id # reg[h].id
                      /\ row' = [id |-> id, ip |-> g, online |-> FALSE, seen |-> Never]
                      /\ Ask(g, "seen", id)
                    BY <1>3, <2>2 DEF RegisterCreate
              <3>2. row'.id = id
                    BY <3>1
              <3> QED
                    BY <1>3, <3>1, <3>2 DEF RegisterCreate, Ask
        <2> QED
              BY <2>1, <2>2
  <1>4. ASSUME NEW g \in Helpers, RegisterSeen(g)
        PROVE  /\ reg'[h] = reg[h] /\ proxyID'[h] = proxyID[h]
               /\ (row' # None => row # None /\ row.id = row'.id)
        <2>1. g # h
              BY <1>4 DEF RegisterSeen
        <2> QED
              BY <1>4, <2>1, SeenFacts DEF RegisterSeen, Refers, Learn
  <1>5. ASSUME NEW g \in Helpers, RegisterLost(g)
        PROVE  reg'[h] = reg[h] /\ proxyID' = proxyID /\ (row' # None => row # None /\ row.id = row'.id)
        BY <1>5, SeenFacts DEF RegisterLost, Refers
  <1>6. ASSUME NEW g \in Helpers, RegisterFail(g)
        PROVE  reg'[h] = reg[h] /\ UNCHANGED <<row, proxyID>>
        BY <1>6 DEF RegisterFail
  <1>7. ASSUME NEW g \in Helpers, Stop(g)
        PROVE  reg'[h] = reg[h] /\ proxyID'[h] = proxyID[h] /\ UNCHANGED row
        BY <1>7 DEF Stop
  <1>8. ASSUME NEW g \in Helpers,
               Start(g) \/ HelloFails(g) \/ SyncAsk(g) \/ SyncGone(g) \/ SyncFail(g) \/ Disconnect(g)
        PROVE  UNCHANGED <<row, reg, proxyID>>
        BY <1>8 DEF Start, HelloFails, SyncAsk, SyncGone, SyncFail, Disconnect
  <1>9. ASSUME NEW g \in Helpers, SyncSeen(g)
        PROVE  UNCHANGED <<reg, proxyID>> /\ row # None /\ row.id = row'.id
        BY <1>9, SeenFacts DEF SyncSeen
  <1>10. CASE MarkOfflineStale \/ DeleteOfflineStale \/ Delete \/ Tick
        BY <1>10 DEF MarkOfflineStale, Offline, DeleteOfflineStale, Stale, Delete, Tick
  <1>11. CASE UNCHANGED vars
        BY <1>11 DEF vars
  <1> QED
        BY <1>1, <1>2, <1>3, <1>4, <1>5, <1>6, <1>7, <1>8, <1>9, <1>10, <1>11 DEF Next

\* Only the UPDATE of a Register request changes the address of a row.
LEMMA AddressStep ==
    ASSUME TypeOK, [Next]_vars, row # None, row' # None, row'.id = row.id, row'.ip # row.ip
    PROVE  \E h \in Helpers : RegisterIP(h) /\ row.id = reg[h].id /\ row'.ip = h
  <1>0. row \in Row
        BY DEF TypeOK
  <1>1. ASSUME NEW h \in Helpers, RegisterIP(h)
        PROVE  row.id = reg[h].id /\ row'.ip = h
        BY <1>0, <1>1 DEF RegisterIP, Refers, Row
  <1>2. ASSUME NEW h \in Helpers, RegisterSeen(h) \/ RegisterLost(h) \/ SyncSeen(h)
        PROVE  FALSE
        <2>1. Seen.ip = row.ip
              BY <1>0 DEF Seen, Row
        <2> QED
              BY <1>2, <2>1 DEF RegisterSeen, RegisterLost, SyncSeen
  <1>3. CASE MarkOfflineStale \/ DeleteOfflineStale \/ Delete \/ Tick
        BY <1>0, <1>3 DEF MarkOfflineStale, Offline, DeleteOfflineStale, Delete, Tick, Row
  <1> QED
        BY <1>1, <1>2, <1>3
        DEF Next, vars, RegisterRead, RegisterCreate, RegisterFail, Start, Stop, HelloFails,
            SyncAsk, SyncGone, SyncFail, Disconnect

\* The only race that gives the address of an online row away is one between
\* the check of Register and its UPDATE: without it, Register does what its
\* comment says, through restarts, lost answers, deletions and time.
THEOREM CheckRace == Spec /\ ChecksHold => OnlineRowKeepsHost
  <1>1. Init => AdmittedInv
        BY DEF Init, AdmittedInv, NoRequest
  <1>2. TypeOK /\ AdmittedInv /\ [Next]_vars /\ [Undisturbed]_vars => AdmittedInv'
        <2> SUFFICES ASSUME TypeOK, AdmittedInv, [Next]_vars, [Undisturbed]_vars, NEW h \in Helpers,
                            reg'[h].at = "ip", row' # None, row'.id = reg'[h].id
                     PROVE  ~row'.online \/ row'.ip = h \/ proxyID'[h] = row'.id
            BY DEF AdmittedInv
        <2>1. CASE RegisterRead(h) /\ row # None /\ Admitted(h)
              BY <2>1 DEF RegisterRead, Admitted
        <2>2. CASE /\ reg'[h] = reg[h] /\ proxyID'[h] = proxyID[h]
                   /\ row' # None /\ row'.id = reg[h].id => row # None /\ row.id = row'.id
              <3>1. row # None /\ row.id = row'.id /\ row.id = reg[h].id
                    BY <2>2
              <3>2. row'.ip = row.ip /\ (row'.online => row.online)
                    BY <2>2, <3>1 DEF Undisturbed, vars
              <3> QED
                    BY <2>2, <3>1, <3>2 DEF AdmittedInv
        <2> QED
              BY <2>1, <2>2, WaitingStep
  <1>3. TypeOK /\ AdmittedInv /\ [Next]_vars
        => [Known /\ Known' /\ row'.id = row.id /\ row.online
            => row'.ip = row.ip \/ proxyID[row'.ip] = row.id]_vars
        <2> SUFFICES ASSUME TypeOK, AdmittedInv, [Next]_vars, row # None, row' # None,
                            row'.id = row.id, row.online, row'.ip # row.ip
                     PROVE  proxyID[row'.ip] = row.id
            OBVIOUS
        <2>1. PICK h \in Helpers : RegisterIP(h) /\ row.id = reg[h].id /\ row'.ip = h
              BY AddressStep
        <2> QED
              BY <2>1 DEF AdmittedInv, RegisterIP
  <1> QED
        BY <1>1, <1>2, <1>3, TypeCorrect, PTL DEF Spec, ChecksHold, OnlineRowKeepsHost

=============================================================================
