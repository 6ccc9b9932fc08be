----------------------------- MODULE HelperSync -----------------------------
(***************************************************************************)
(* One proxy host: the sync loop of the helper (doSync), the files and the *)
(* hash file it writes beside ATS, and what the backend serves to it and   *)
(* has been told by it (GetConfig and Ack of SyncService).                 *)
(*                                                                         *)
(* The loop is sequential, but every step of it may fail, the helper may   *)
(* be killed and ATS restarted between any two of them, the backend may    *)
(* serve another configuration meanwhile, and an ack may be lost or reach  *)
(* the backend after the helper has given up on it.                        *)
(*                                                                         *)
(* Abstractions                                                            *)
(*  - A configuration is its hash: two with the same files are one.        *)
(*    ConfigApproval shows that the rules behind a served hash are frozen. *)
(*  - The backend answers GetConfig from one snapshot.                     *)
(*  - Statistics, log capture and the connected flag are left out, and so  *)
(*    is the ack of an error, on which the backend does nothing.           *)
(***************************************************************************)
CONSTANTS
    Hashes,   \* configurations, by hash
    None      \* no configuration, an empty or unreadable hash

ASSUME NoneAssumption == None \notin Hashes

VARIABLES
    served,   \* the active configuration of this proxy
    fresh,    \* configurations it was never served
    again,    \* history: it was served one that it had been served before
    acked,    \* proxies.current_config_hash
    acks,     \* acks the helper gave up on that may still arrive
    lost,     \* history: since the last ack that was answered with the hash file
              \* written, an ack was given up or came late, or the row was deleted
    pc,       \* where doSync is: the file it writes next, or another step
    target,   \* resp.Hash
    disk,     \* the configuration each file on disk belongs to
    loaded,   \* the same for what ATS has loaded
    saved,    \* the content of .config_hash
    ran       \* history: the configurations ATS ran whole

backend == <<served, fresh, again, acked, acks, lost>>
host    == <<pc, target, disk, loaded, saved, ran>>
vars    == <<served, fresh, again, acked, acks, lost, pc, target, disk, loaded,
             saved, ran>>

Files == {"parent.config", "sni.yaml", "ip_allow.yaml"}

\* The order of ApplyConfig.
After == [f \in Files |-> CASE f = "parent.config" -> "sni.yaml"
                            [] f = "sni.yaml"      -> "ip_allow.yaml"
                            [] f = "ip_allow.yaml" -> "reload"]

Steps == Files \cup {"idle", "reload", "save", "ack"}

Versions == Hashes \cup {None}

TypeOK ==
    /\ served \in Versions
    /\ fresh \subseteq Hashes
    /\ again \in BOOLEAN
    /\ acked \in Versions
    /\ acks \subseteq Hashes
    /\ lost \in BOOLEAN
    /\ pc \in Steps
    /\ target \in IF pc = "idle" THEN {None} ELSE Hashes
    /\ disk \in [Files -> Versions]
    /\ loaded \in [Files -> Versions]
    /\ saved \in Versions
    /\ ran \subseteq Hashes

Whole(files, h) == \A f \in Files : files[f] = h

Init ==
    /\ served = None
    /\ fresh = Hashes
    /\ again = FALSE
    /\ acked = None
    /\ acks = {}
    /\ lost = FALSE
    /\ pc = "idle"
    /\ target = None
    /\ disk = [f \in Files |-> None]
    /\ loaded = [f \in Files |-> None]
    /\ saved = None
    /\ ran = {}

-----------------------------------------------------------------------------
(* The backend *)

\* A configuration becomes the active one of this proxy for the first time
\* (Approve, AssignConfig).
Activate(h) ==
    /\ h \in fresh
    /\ served' = h
    /\ fresh' = fresh \ {h}
    /\ UNCHANGED <<again, acked, acks, lost, host>>

\* AssignConfig with no configuration, or the old one superseded by one that
\* this proxy is not associated with.
Unassign ==
    /\ served # None
    /\ served' = None
    /\ UNCHANGED <<fresh, again, acked, acks, lost, host>>

\* AssignConfig back to a configuration that is still active, or the approval
\* of a clone that generates the same files.
Reassign(h) ==
    /\ h \in Hashes \ fresh
    /\ served' = h
    /\ again' = TRUE
    /\ UNCHANGED <<fresh, acked, acks, lost, host>>

\* The row of the proxy is deleted (by an administrator or the scheduler),
\* with its association, and created again when the helper registers.
Reregister ==
    /\ served' = None
    /\ acked' = None
    /\ lost' = TRUE
    /\ UNCHANGED <<fresh, again, acks, host>>

\* An ack the helper no longer waits for is handled, or was lost.
AckLate(h) ==
    /\ h \in acks
    /\ acks' = acks \ {h}
    /\ acked' \in {h, acked}
    /\ lost' = TRUE
    /\ UNCHANGED <<served, fresh, again, host>>

-----------------------------------------------------------------------------
(* The helper *)

Quit == pc' = "idle" /\ target' = None

\* Faulty variants of Offered: files even when nothing is served, and only as
\* long as the helper has no hash.
OfferedUnassigned(h) == h # served
OfferedOnce(h) == served # None /\ h = None

\* GetConfig answers with files unless nothing is served or the hash matches.
Offered(h) == served # None /\ h # served

\* h is the hash file as GetCurrentHash read it.
Fetch(h) ==
    /\ pc = "idle"
    /\ Offered(h)
    /\ target' = served
    /\ pc' = "parent.config"
    /\ UNCHANGED <<backend, disk, loaded, saved, ran>>

\* writeFile: a temporary file renamed over the old one.
WriteOk(f) ==
    /\ pc = f
    /\ disk' = [disk EXCEPT ![f] = target]
    /\ pc' = After[f]
    /\ UNCHANGED <<backend, target, loaded, saved, ran>>

\* Faulty variant of WriteFail: the error is not returned.
WriteFailIgnored(f) ==
    /\ pc = f
    /\ pc' = After[f]
    /\ UNCHANGED <<backend, target, disk, loaded, saved, ran>>

\* ApplyConfig returns at the first file that fails; those written stay.
WriteFail(f) ==
    /\ pc = f
    /\ Quit
    /\ UNCHANGED <<backend, disk, loaded, saved, ran>>

Load ==
    /\ loaded' = disk
    /\ ran' = ran \cup {h \in Hashes : Whole(disk, h)}

ReloadOk ==
    /\ pc = "reload"
    /\ Load
    /\ pc' = "save"
    /\ UNCHANGED <<backend, target, disk, saved>>

\* Faulty variant of ReloadFail: the error is only logged.
ReloadFailIgnored ==
    /\ pc = "reload"
    /\ pc' = "save"
    /\ UNCHANGED <<backend, target, disk, loaded, saved, ran>>

\* traffic_ctl reports an error; ATS may have reloaded all the same.
ReloadFail ==
    /\ pc = "reload"
    /\ Quit
    /\ Load \/ UNCHANGED <<loaded, ran>>
    /\ UNCHANGED <<backend, disk, saved>>

\* The error of SaveHash is ignored.  os.WriteFile opens with O_TRUNC: when
\* it fails the old hash is there, or none.
Save ==
    /\ pc = "save"
    /\ saved' \in {target, saved, None}
    /\ pc' = "ack"
    /\ UNCHANGED <<backend, target, disk, loaded, ran>>

AckOk ==
    /\ pc = "ack"
    /\ acked' = target
    /\ lost' = (saved \notin {target, None})
    /\ Quit
    /\ UNCHANGED <<served, fresh, again, acks, disk, loaded, saved, ran>>

\* The request fails or times out: a warning, and no retry.
AckFail ==
    /\ pc = "ack"
    /\ acks' \in {acks, acks \cup {target}}
    /\ lost' = TRUE
    /\ Quit
    /\ UNCHANGED <<served, fresh, again, acked, disk, loaded, saved, ran>>

\* The helper is killed and started again, possibly while it writes the hash.
Crash ==
    /\ pc # "idle"
    /\ Quit
    /\ saved' \in IF pc = "save" THEN {saved, None} ELSE {saved}
    /\ lost' = (lost \/ pc = "ack")
    /\ UNCHANGED <<served, fresh, again, acked, acks, disk, loaded, ran>>

\* ATS is restarted and reads whatever is on disk.
Restart ==
    /\ Load
    /\ UNCHANGED <<backend, pc, target, disk, saved>>

-----------------------------------------------------------------------------
Next ==
    \/ \E h \in Hashes : Activate(h) \/ Reassign(h) \/ AckLate(h)
    \/ Unassign
    \/ Reregister
    \/ \E h \in {saved, None} : Fetch(h)
    \/ \E f \in Files : WriteOk(f) \/ WriteFail(f)
    \/ ReloadOk
    \/ ReloadFail
    \/ Save
    \/ AckOk
    \/ AckFail
    \/ Crash
    \/ Restart

\* The ticker keeps the loop running, and no step of it fails, or is where the
\* helper is killed, for ever; nothing is assumed of the backend's users, of
\* crashes and of restarts.
Fairness ==
    /\ SF_vars(Fetch(saved))
    /\ \A f \in Files : SF_vars(WriteOk(f))
    /\ SF_vars(ReloadOk)
    /\ SF_vars(Save)
    /\ SF_vars(AckOk)

Spec     == Init /\ [][Next]_vars
FairSpec == Spec /\ Fairness

-----------------------------------------------------------------------------
(* Safety *)

\* The console shows "Sincronizado" (buildConfigRef: the hash acked is that of
\* the active configuration) only while ATS runs that configuration, all
\* three files of it, despite failures, restarts and late acks - as long as the
\* proxy is not served again what it was served before.
InSyncIsTrue == ~again /\ served # None /\ acked = served => Whole(loaded, served)

\* What is reported applied, and what the hash file names, was run by ATS as
\* a whole at some time (the order of doSync: apply, reload, save, ack).
ReportedWasRun == \A h \in Hashes : h \in {acked, saved} \cup acks => h \in ran

\* Except when ATS restarts, it only ever changes to a whole configuration
\* (doSync reloads after ApplyConfig returned no error).
ReloadsWhole ==
    [][Restart \/ loaded' = loaded \/ \E h \in Hashes : Whole(loaded', h)]_vars

\* Why they hold: how far doSync has got with the files of target, ...
ApplyInv ==
    /\ pc \in {"sni.yaml", "ip_allow.yaml", "reload", "save", "ack"}
          => disk["parent.config"] = target
    /\ pc \in {"ip_allow.yaml", "reload", "save", "ack"} => disk["sni.yaml"] = target
    /\ pc \in {"reload", "save", "ack"} => disk["ip_allow.yaml"] = target
    /\ pc \in {"save", "ack"} => Whole(loaded, target) /\ target \in ran

Reported == {acked, saved} \cup acks

\* ... that nobody has heard of a fresh configuration, and that once the one
\* being served has been reported nothing else is being applied (until one is
\* served again).
ServedInv ==
    /\ \A h \in fresh : h \notin Reported \cup {served, target}
    /\ ~again /\ served # None /\ served \in Reported =>
          /\ Whole(disk, served)
          /\ Whole(loaded, served)
          /\ pc # "idle" => target = served

SyncInv == ApplyInv /\ ServedInv /\ ReportedWasRun

-----------------------------------------------------------------------------
(* Liveness *)

\* What stays the active configuration ends up loaded, whatever failed, crashed
\* or was mixed on disk before ("Última config válida").
ConvergesAlways == \A h \in Hashes : <>[](served = h) => <>[]Whole(loaded, h)

\* What the code does give: so it is if nothing was ever served again.
Converges == [](~again) => ConvergesAlways

\* ... and the backend is told so and goes on saying it (docs/ARCHITECTURE.md, the
\* sync diagram: after the reload the ack updates PROXY.current_config_hash), also
\* of a configuration that is served again.  The exceptions are an ack that
\* was lost or overtaken, one sent although SaveHash failed, and a row deleted after
\* it, with no ack answered since: the hash file suppresses the next fetch, so
\* nothing is repeated.
AckedUnlessLost ==
    \A h \in Hashes : <>[](served = h) => <>[](acked = h) \/ <>[]lost

=============================================================================
