---------------------------- MODULE ProxyRegistry ---------------------------
(***************************************************************************)
(* One host name in the table proxies, and the helpers that run under it:  *)
(* Register and GetConfig of SyncService, the two proxy jobs of the        *)
(* scheduler, the deletion by an administrator, and the helper's           *)
(* waitForRegister, helloLoop and sync loop.                               *)
(*                                                                         *)
(* Rows of different host names do not interact (hostname is UNIQUE, every *)
(* statement names one row), so one host name is enough; two helpers under *)
(* it are a host replaced by another, or a name given twice by mistake.    *)
(*                                                                         *)
(* Register is several statements and no transaction; each is a step.      *)
(* GetConfig's read and its UPDATE of last_seen are one step: when the row *)
(* goes in between, the UPDATE finds nothing, as if the row had gone after *)
(* it.  Stats and Ack refresh the row as GetConfig does.                   *)
(*                                                                         *)
(* Time is a number of ticks since an event, counted up to Max, one more   *)
(* than any threshold.  Ids of rows that nothing refers to any more may be *)
(* used again; the program's are unique.                                   *)
(***************************************************************************)
EXTENDS Integers

CONSTANTS
    Helpers,        \* hosts configured with the host name, each with its own address
    Ids,            \* row ids
    None,
    OfflineAfter,   \* MarkOfflineStale: 2 minutes, in ticks
    DeleteAfter     \* DeleteOfflineStale: 4 hours, in ticks

ASSUME NoneAssumption == None \notin Helpers \cup Ids
ASSUME TimeAssumption ==
    OfflineAfter \in Nat /\ DeleteAfter \in Nat /\ OfflineAfter <= DeleteAfter

VARIABLES
    row,        \* the row of the host name, or None
    reg,        \* the Register request of each helper
    sync,       \* the GetConfig request of each helper
    phase,      \* where the helper's main function is
    connected,  \* its connected flag
    proxyID,    \* the id Register gave it
    since       \* history: ticks since a sync refreshed the row there is

vars   == <<row, reg, sync, phase, connected, proxyID, since>>

Max   == DeleteAfter + 1
Never == -1                  \* last_seen IS NULL: no comparison with it is true
Ages  == Never..Max
Older(t) == IF t \in {Never, Max} THEN t ELSE t + 1

Row == [id : Ids, ip : Helpers, online : BOOLEAN, seen : Ages]

ASSUME NoneIsNoRow == None \notin Row

\* at: the next statement; id: the row it is for.
Request == [at : {"none", "create", "ip", "seen"}, id : Ids \cup {None}]
NoRequest == [at |-> "none", id |-> None]

TypeOK ==
    /\ row \in Row \cup {None}
    /\ reg \in [Helpers -> Request]
    /\ \A h \in Helpers : reg[h].at \in {"ip", "seen"} => reg[h].id \in Ids
    /\ sync \in [Helpers -> {"none", "asked", "gone"}]
    /\ phase \in [Helpers -> {"down", "start", "up"}]
    /\ connected \in [Helpers -> BOOLEAN]
    /\ \A h \in Helpers : connected[h] => phase[h] = "up" /\ proxyID[h] # None
    /\ proxyID \in [Helpers -> Ids \cup {None}]
    /\ since \in Ages

Init ==
    /\ row = None
    /\ reg = [h \in Helpers |-> NoRequest]
    /\ sync = [h \in Helpers |-> "none"]
    /\ phase = [h \in Helpers |-> "down"]
    /\ connected = [h \in Helpers |-> FALSE]
    /\ proxyID = [h \in Helpers |-> None]
    /\ since = Never

Known == row # None
Refers(id) == Known /\ row.id = id

-----------------------------------------------------------------------------
(* Register *)

Ask(h, at, id) == reg' = [reg EXCEPT ![h] = [at |-> at, id |-> id]]

\* waitForRegister, or helloLoop after a ping that was answered.
Wanted(h) == phase[h] = "start" \/ (phase[h] = "up" /\ ~connected[h])

\* Faulty variant of Admitted: no conflict is ever found.
AdmittedAnyone(h) == TRUE

\* An online proxy is only registered again by the same address or id.
Admitted(h) == ~row.online \/ row.ip = h \/ proxyID[h] = row.id

\* GetByHostname, and what follows from it.  A conflict is answered at once.
RegisterRead(h) ==
    /\ Wanted(h)
    /\ reg[h].at = "none"
    /\ \/ ~Known /\ Ask(h, "create", None)
       \/ Known /\ Admitted(h) /\ Ask(h, "ip", row.id)
    /\ UNCHANGED <<row, sync, phase, connected, proxyID, since>>

\* UpdateRegisteredIP, whose error is ignored.
RegisterIP(h) ==
    /\ reg[h].at = "ip"
    /\ row' \in IF Refers(reg[h].id) THEN {row, [row EXCEPT !.ip = h]} ELSE {row}
    /\ Ask(h, "seen", reg[h].id)
    /\ UNCHANGED <<sync, phase, connected, proxyID, since>>

\* The INSERT: is_online is FALSE and last_seen NULL.  hostname is UNIQUE: when
\* another request was faster this one fails.
RegisterCreate(h) ==
    /\ reg[h].at = "create"
    /\ \/ /\ ~Known
          /\ \E id \in Ids :
                /\ \A g \in Helpers : id \notin {proxyID[g], reg[g].id}
                /\ row' = [id |-> id, ip |-> h, online |-> FALSE, seen |-> Never]
                /\ Ask(h, "seen", id)
       \/ /\ Known
          /\ reg' = [reg EXCEPT ![h] = NoRequest]
          /\ UNCHANGED row
    /\ UNCHANGED <<sync, phase, connected, proxyID, since>>

Seen == [row EXCEPT !.online = TRUE, !.seen = 0]

\* Faulty variant of Learn: the answer is not kept.
LearnNothing(h) == proxyID' = proxyID

Learn(h) == proxyID' = [proxyID EXCEPT ![h] = reg[h].id]

\* UpdateLastSeen, whose error is ignored, and the answer: the helper keeps
\* the id and is connected, whether or not the row is still there.
RegisterSeen(h) ==
    /\ reg[h].at = "seen"
    /\ row' \in IF Refers(reg[h].id) THEN {row, Seen} ELSE {row}
    /\ reg' = [reg EXCEPT ![h] = NoRequest]
    /\ phase' = [phase EXCEPT ![h] = "up"]
    /\ connected' = [connected EXCEPT ![h] = TRUE]
    /\ Learn(h)
    /\ UNCHANGED <<sync, since>>

\* The row is refreshed and the answer lost.
RegisterLost(h) ==
    /\ reg[h].at = "seen"
    /\ Refers(reg[h].id)
    /\ row' = Seen
    /\ reg' = [reg EXCEPT ![h] = NoRequest]
    /\ UNCHANGED <<sync, phase, connected, proxyID, since>>

\* An error, or the helper's 4 s timeout, which cancels the request.
RegisterFail(h) ==
    /\ reg[h].at # "none"
    /\ reg' = [reg EXCEPT ![h] = NoRequest]
    /\ UNCHANGED <<row, sync, phase, connected, proxyID, since>>

-----------------------------------------------------------------------------
(* The helper *)

Start(h) ==
    /\ phase[h] = "down"
    /\ phase' = [phase EXCEPT ![h] = "start"]
    /\ UNCHANGED <<row, reg, sync, connected, proxyID, since>>

Stop(h) ==
    /\ phase[h] # "down"
    /\ phase' = [phase EXCEPT ![h] = "down"]
    /\ connected' = [connected EXCEPT ![h] = FALSE]
    /\ proxyID' = [proxyID EXCEPT ![h] = None]
    /\ reg' = [reg EXCEPT ![h] = NoRequest]
    /\ sync' = [sync EXCEPT ![h] = "none"]
    /\ UNCHANGED <<row, since>>

\* A ping of helloLoop fails.
HelloFails(h) ==
    /\ connected[h]
    /\ connected' = [connected EXCEPT ![h] = FALSE]
    /\ UNCHANGED <<row, reg, sync, phase, proxyID, since>>

\* The sync loop reads the flag, then asks for the configuration of its host
\* name; helloLoop may change the flag meanwhile.
SyncAsk(h) ==
    /\ connected[h]
    /\ sync[h] = "none"
    /\ sync' = [sync EXCEPT ![h] = "asked"]
    /\ UNCHANGED <<row, reg, phase, connected, proxyID, since>>

SyncSeen(h) ==
    /\ sync[h] = "asked"
    /\ Known
    /\ row' = Seen
    /\ sync' = [sync EXCEPT ![h] = "none"]
    /\ since' = 0
    /\ UNCHANGED <<reg, phase, connected, proxyID>>

\* No row: 404.
SyncGone(h) ==
    /\ sync[h] = "asked"
    /\ ~Known
    /\ sync' = [sync EXCEPT ![h] = "gone"]
    /\ UNCHANGED <<row, reg, phase, connected, proxyID, since>>

\* Any other error is a warning.
SyncFail(h) ==
    /\ sync[h] = "asked"
    /\ sync' = [sync EXCEPT ![h] = "none"]
    /\ UNCHANGED <<row, reg, phase, connected, proxyID, since>>

\* Faulty variant of Disconnect: a 404 is a warning like any other error.
DisconnectNever(h) ==
    /\ sync[h] = "gone"
    /\ sync' = [sync EXCEPT ![h] = "none"]
    /\ UNCHANGED <<row, reg, phase, connected, proxyID, since>>

\* doSync handles the 404; helloLoop will register again.
Disconnect(h) ==
    /\ sync[h] = "gone"
    /\ sync' = [sync EXCEPT ![h] = "none"]
    /\ connected' = [connected EXCEPT ![h] = FALSE]
    /\ UNCHANGED <<row, reg, phase, proxyID, since>>

-----------------------------------------------------------------------------
(* The scheduler and the administrator *)

\* Faulty variant of Stale: the interval is not applied.
StaleAnyAge(limit) == Known /\ row.seen # Never

Stale(limit) == Known /\ row.seen > limit

Offline == [row EXCEPT !.online = FALSE]

MarkOfflineStale ==
    /\ Stale(OfflineAfter)
    /\ row.online
    /\ row' = Offline
    /\ UNCHANGED <<reg, sync, phase, connected, proxyID, since>>

DeleteOfflineStale ==
    /\ Stale(DeleteAfter)
    /\ ~row.online
    /\ row' = None
    /\ UNCHANGED <<reg, sync, phase, connected, proxyID, since>>

Delete ==
    /\ Known
    /\ row' = None
    /\ since' = Never
    /\ UNCHANGED <<reg, sync, phase, connected, proxyID>>

Tick ==
    /\ row' = IF Known THEN [row EXCEPT !.seen = Older(row.seen)] ELSE None
    /\ since' = Older(since)
    /\ UNCHANGED <<reg, sync, phase, connected, proxyID>>

-----------------------------------------------------------------------------
Next ==
    \/ \E h \in Helpers :
          \/ RegisterRead(h)
          \/ RegisterIP(h)
          \/ RegisterCreate(h)
          \/ RegisterSeen(h)
          \/ RegisterLost(h)
          \/ RegisterFail(h)
          \/ Start(h)
          \/ Stop(h)
          \/ HelloFails(h)
          \/ SyncAsk(h)
          \/ SyncSeen(h)
          \/ SyncGone(h)
          \/ SyncFail(h)
          \/ Disconnect(h)
    \/ MarkOfflineStale
    \/ DeleteOfflineStale
    \/ Delete
    \/ Tick

Spec == Init /\ [][Next]_vars

\* The tickers of helper and scheduler keep firing, requests are answered or
\* time out, and time passes.  Starting, stopping, failures and deletions are
\* not fair.
Fairness ==
    /\ \A h \in Helpers :
          /\ WF_vars(RegisterRead(h))
          /\ WF_vars(RegisterIP(h))
          /\ WF_vars(RegisterCreate(h))
          /\ WF_vars(RegisterSeen(h))
          /\ WF_vars(SyncAsk(h))
          /\ WF_vars(SyncSeen(h))
          /\ WF_vars(SyncGone(h))
          /\ WF_vars(Disconnect(h))
    /\ WF_vars(MarkOfflineStale)
    /\ WF_vars(DeleteOfflineStale)
    /\ WF_vars(Tick)

FairSpec == Spec /\ Fairness

-----------------------------------------------------------------------------
(* Safety *)

Live == since \in 0..OfflineAfter

\* A step that gets the Register request of h past the conflict check.
Admits(h) == reg[h].at = "none" /\ reg'[h].at # "none"

\* As long as helpers sync and no administrator interferes, the row stays:
\* online while one of them was seen in the last two minutes, and there while
\* one was seen in the last four hours (MarkOfflineStale, DeleteOfflineStale),
\* whatever registrations are half done.
LiveIsKept ==
    /\ Live => Known /\ row.online
    /\ since \in 0..DeleteAfter => Known

\* A host with another address and no id is not admitted while a helper under
\* the host name synced in the last two minutes (the conflict of Register).
NewcomerRefused ==
    [][Live => \A h \in Helpers : row.ip # h /\ proxyID[h] = None => ~Admits(h)]_vars

\* Why they hold: the row was refreshed after every sync counted, and a row
\* refreshed recently has not been marked offline.
RefreshInv ==
    /\ since \in 0..DeleteAfter => Known /\ row.seen \in 0..since
    /\ Known /\ row.seen \in 0..OfflineAfter => row.online
    /\ Known /\ row.online => row.seen # Never

-----------------------------------------------------------------------------
(* Liveness *)

Alone(h) == phase[h] # "down" /\ \A g \in Helpers \ {h} : phase[g] = "down"

Failure ==
    \E h \in Helpers :
        RegisterLost(h) \/ RegisterFail(h) \/ HelloFails(h) \/ SyncFail(h)

\* A helper left alone under its host name ends up connected with its row
\* online, again and again, once requests no longer fail and nobody deletes
\* the row: whatever was lost, deleted or half registered before, and also
\* when it first has to wait until the host it replaces counts as offline.
Recovers ==
    \A h \in Helpers :
        <>[]Alone(h) /\ <>[][~Failure /\ ~Delete]_vars
        => []<>(connected[h] /\ Known /\ row.online)

-----------------------------------------------------------------------------
(* What the code says *)

\* Register: "Proxy is online - only allow re-register if same identity (IP or
\* proxy_id)": the address of an online row is only replaced by a helper that
\* holds its id.
OnlineRowKeepsHost ==
    [][Known /\ Known' /\ row'.id = row.id /\ row.online
        => row'.ip = row.ip \/ proxyID[row'.ip] = row.id]_vars

=============================================================================
