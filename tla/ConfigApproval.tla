--------------------------- MODULE ConfigApproval ---------------------------
(***************************************************************************)
(* The life of a configuration in the backend: the handlers of             *)
(* ConfigService (create, update, clone, submit, approve, reject, delete)  *)
(* and ProxyService.AssignConfig, running concurrently on one PostgreSQL   *)
(* database.                                                               *)
(*                                                                         *)
(* A worker is a goroutine of net/http serving one management request.  A  *)
(* step of a worker is one SQL statement outside a transaction, or one     *)
(* read or the commit of a transaction (READ COMMITTED, db.go).  With one  *)
(* worker the requests are serialised; with two they interleave.           *)
(*                                                                         *)
(* Abstractions                                                            *)
(*  - The content of a configuration is a head (the default_action column  *)
(*    of its configs row) and a body (its rows of the four rule tables).   *)
(*    The SHA-256 of the generated files is the pair itself: the order of  *)
(*    rules of equal priority, which the code leaves open, is no part of   *)
(*    it.                                                                  *)
(*  - Identifiers are never reused (uuid_generate_v4): "unused" is an id   *)
(*    to come, "deleted" one whose row is gone.                            *)
(*  - Name, description, version, timestamps and the audit rows are left   *)
(*    out; approved_at is set exactly where approved_by is.                *)
(*  - The set of registered proxies is fixed here.                         *)
(*  - The column proxies.config_id is left out: no configuration is served *)
(*    from it, and its foreign key can only make a DELETE fail (Fail).     *)
(***************************************************************************)
EXTENDS FiniteSets

CONSTANTS
    Configs,   \* identifiers of configurations
    Proxies,   \* registered proxies
    Users,     \* users of the management API
    Workers,   \* requests the server runs at the same time
    Heads,     \* values of configs.default_action
    Bodies,    \* contents of the rule tables of one configuration
    None       \* SQL NULL, a missing row, an empty request field

ASSUME NoneAssumption ==
    None \notin Configs \cup Proxies \cup Users \cup Heads \cup Bodies

VARIABLES
    row,       \* the table configs
    rules,     \* the tables domain_rules, ip_range_rules, parent_proxies, client_acl_rules
    assigned,  \* the table config_proxies
    req        \* what each worker is doing

vars == <<row, rules, assigned, req>>

-----------------------------------------------------------------------------
(* Types *)

Status    == {"draft", "pending_approval", "approved", "active"}
Activated == {"active", "approved"}
Content   == (Bodies \cup {None}) \X (Heads \cup {None})

Row == [status      : Status \cup {"unused", "deleted"},
        head        : Heads \cup {None},
        submittedBy : Users \cup {None},
        approvedBy  : Users \cup {None},
        hash        : Content \cup {None}]

ApproveSteps == {"approve_rules", "approve_head", "approve_deactivate", "approve_commit"}

Steps == ApproveSteps \cup
    {"idle", "update", "delete", "clone_rules", "clone_commit", "assign_delete", "assign_insert"}

Requests == [at    : Steps,
             cfg   : Configs \cup {None},
             user  : Users \cup {None},
             proxy : Proxies \cup {None},
             seen  : Status \cup {None},    \* the status the handler read
             head  : Heads \cup {None},     \* the head it read
             body  : Bodies \cup {None}]    \* the body it read

\* A request in flight knows its configuration (None: an unassignment), its
\* user or its proxy.
Request == {r \in Requests :
               /\ r.at \notin {"idle", "assign_delete"} => r.cfg \in Configs
               /\ r.at \in ApproveSteps => r.user \in Users
               /\ r.at \in {"assign_delete", "assign_insert"} => r.proxy \in Proxies}

Empty(s) == [status |-> s, head |-> None, submittedBy |-> None,
             approvedBy |-> None, hash |-> None]

Idle == [at |-> "idle", cfg |-> None, user |-> None, proxy |-> None,
         seen |-> None, head |-> None, body |-> None]

TypeOK ==
    /\ row \in [Configs -> Row]
    /\ rules \in [Configs -> Bodies \cup {None}]
    /\ assigned \subseteq Configs \X Proxies
    /\ req \in [Workers -> Request]

-----------------------------------------------------------------------------
(* What the handlers are built from *)

Exists(c) == row[c].status \in Status

Free(w)       == req[w] = Idle
Becomes(w, r) == req' = [req EXCEPT ![w] = r]
Done(w)       == Becomes(w, Idle)
Goto(w, step) == Becomes(w, [req[w] EXCEPT !.at = step])

ProxiesOf(c) == {p \in Proxies : <<c, p>> \in assigned}

\* The active configurations that share a proxy with c.
OtherActive(c) ==
    {d \in Configs \ {c} : row[d].status = "active" /\ ProxiesOf(d) \cap ProxiesOf(c) # {}}

\* Replace the associations of c.
Reassign(c, ps) == {a \in assigned : a[1] # c} \cup ({c} \X ps)

Init ==
    /\ row = [c \in Configs |-> Empty("unused")]
    /\ rules = [c \in Configs |-> None]
    /\ assigned = {}
    /\ req = [w \in Workers |-> Idle]

-----------------------------------------------------------------------------
(* Create and Update *)

\* One transaction: the row, its rules and its associations.
Create(w, c, h, b, ps) ==
    /\ Free(w)
    /\ row[c].status = "unused"
    /\ row' = [row EXCEPT ![c] = [Empty("draft") EXCEPT !.head = h]]
    /\ rules' = [rules EXCEPT ![c] = b]
    /\ assigned' = Reassign(c, ps)
    /\ UNCHANGED req

\* The transaction of Update reads the row and refuses all but drafts ...
UpdateCheck(w, c) ==
    /\ Free(w)
    /\ row[c].status = "draft"
    /\ Becomes(w, [Idle EXCEPT !.at = "update", !.cfg = c])
    /\ UNCHANGED <<row, rules, assigned>>

\* Faulty variant of UpdateGuard: the status is not checked.
UpdateGuardDropped(c) == Exists(c)

\* ... and its UPDATE statement checks the status again, under the row lock
\* that the transaction then holds while it replaces rules and associations.
UpdateGuard(c) == row[c].status = "draft"

UpdateCommit(w, h, b, ps) ==
    LET c == req[w].cfg IN
    /\ req[w].at = "update"
    /\ UpdateGuard(c)
    /\ row' = [row EXCEPT ![c].head = h]
    /\ rules' = [rules EXCEPT ![c] = b]
    /\ assigned' = Reassign(c, ps)
    /\ Done(w)

\* No row updated: the transaction is rolled back.
UpdateRefused(w) ==
    /\ req[w].at = "update"
    /\ ~UpdateGuard(req[w].cfg)
    /\ Done(w)
    /\ UNCHANGED <<row, rules, assigned>>

-----------------------------------------------------------------------------
(* Submit and Reject: one guarded UPDATE each *)

Submit(w, c, u) ==
    /\ Free(w)
    /\ row[c].status = "draft"
    /\ row' = [row EXCEPT ![c].status = "pending_approval", ![c].submittedBy = u]
    /\ UNCHANGED <<rules, assigned, req>>

\* Faulty variant of RejectGuard: an active configuration can be rejected.
RejectGuardDropped(c) == row[c].status \in {"pending_approval", "active"}
RejectGuard(c) == row[c].status = "pending_approval"

\* The user who rejects is only audited: any user may.
Reject(w, c) ==
    /\ Free(w)
    /\ RejectGuard(c)
    /\ row' = [row EXCEPT ![c].status = "draft", ![c].submittedBy = None]
    /\ UNCHANGED <<rules, assigned, req>>

-----------------------------------------------------------------------------
(* Approve: five statements, no transaction *)

\* Faulty variant of ApproveAllowed: the submitter is not checked.
ApproveAllowedAnyone(c, u) == row[c].status = "pending_approval"
ApproveAllowed(c, u) == row[c].status = "pending_approval" /\ row[c].submittedBy = u

ApproveCheck(w, c, u) ==
    /\ Free(w)
    /\ ApproveAllowed(c, u)
    /\ Becomes(w, [Idle EXCEPT !.at = "approve_rules", !.cfg = c, !.user = u])
    /\ UNCHANGED <<row, rules, assigned>>

\* GenerateConfigHash reads the rule tables first (four SELECTs, one step here: the
\* tables only change together, and no property is about a tear between them) ...
ApproveReadRules(w) ==
    /\ req[w].at = "approve_rules"
    /\ Becomes(w, [req[w] EXCEPT !.at = "approve_head", !.body = rules[req[w].cfg]])
    /\ UNCHANGED <<row, rules, assigned>>

\* ... and the default action last; a row that is gone ends the request.
ApproveReadHead(w) ==
    /\ req[w].at = "approve_head"
    /\ IF Exists(req[w].cfg)
       THEN Becomes(w, [req[w] EXCEPT !.at = "approve_deactivate", !.head = row[req[w].cfg].head])
       ELSE Done(w)
    /\ UNCHANGED <<row, rules, assigned>>

\* Faulty variant of Deactivated: nothing is deactivated.
DeactivatedNone(c) == {}
Deactivated(c) == OtherActive(c)

ApproveDeactivate(w) ==
    /\ req[w].at = "approve_deactivate"
    /\ row' = [d \in Configs |->
                 IF d \in Deactivated(req[w].cfg)
                 THEN [row[d] EXCEPT !.status = "approved"] ELSE row[d]]
    /\ Goto(w, "approve_commit")
    /\ UNCHANGED <<rules, assigned>>

\* Faulty variant of HashRead: the default action is left out.
HashReadHeadless(w) == <<req[w].body, None>>
HashRead(w) == <<req[w].body, req[w].head>>

ApproveGuard(c) == row[c].status = "pending_approval"

ApproveCommit(w) ==
    LET c == req[w].cfg IN
    /\ req[w].at = "approve_commit"
    /\ ApproveGuard(c)
    /\ row' = [row EXCEPT ![c].status = "active", ![c].approvedBy = req[w].user,
                          ![c].hash = HashRead(w)]
    /\ Done(w)
    /\ UNCHANGED <<rules, assigned>>

ApproveRefused(w) ==
    /\ req[w].at = "approve_commit"
    /\ ~ApproveGuard(req[w].cfg)
    /\ Done(w)
    /\ UNCHANGED <<row, rules, assigned>>

-----------------------------------------------------------------------------
(* Delete: a read that decides, then an unconditional DELETE *)

\* Faulty variant of Deletable: a superseded configuration can go.
DeletableUnlessActive(c) == row[c].status # "active"
Deletable(c) == row[c].status # "active" /\ row[c].approvedBy = None

DeleteCheck(w, c) ==
    /\ Free(w)
    /\ Exists(c)
    /\ Deletable(c)
    /\ Becomes(w, [Idle EXCEPT !.at = "delete", !.cfg = c])
    /\ UNCHANGED <<row, rules, assigned>>

\* Rules and associations go with the row (ON DELETE CASCADE).  When another
\* request deleted it first this one changes nothing and answers not found.
DeleteCommit(w) ==
    LET c == req[w].cfg IN
    /\ req[w].at = "delete"
    /\ row' = [row EXCEPT ![c] = Empty("deleted")]
    /\ rules' = [rules EXCEPT ![c] = None]
    /\ assigned' = Reassign(c, {})
    /\ Done(w)

-----------------------------------------------------------------------------
(* Clone: one transaction, but every read of it has a snapshot of its own *)

CloneLoad(w, c) ==
    /\ Free(w)
    /\ Exists(c)
    /\ Becomes(w, [Idle EXCEPT !.at = "clone_rules", !.cfg = c,
                               !.seen = row[c].status, !.head = row[c].head])
    /\ UNCHANGED <<row, rules, assigned>>

\* Four SELECTs, one step as in ApproveReadRules.
CloneReadRules(w) ==
    /\ req[w].at = "clone_rules"
    /\ Becomes(w, [req[w] EXCEPT !.at = "clone_commit", !.body = rules[req[w].cfg]])
    /\ UNCHANGED <<row, rules, assigned>>

\* The associations are read last; d is the new identifier.
CloneCommit(w, d) ==
    /\ req[w].at = "clone_commit"
    /\ row[d].status = "unused"
    /\ row' = [row EXCEPT ![d] = [Empty("draft") EXCEPT !.head = req[w].head]]
    /\ rules' = [rules EXCEPT ![d] = req[w].body]
    /\ assigned' = Reassign(d, ProxiesOf(req[w].cfg))
    /\ Done(w)

-----------------------------------------------------------------------------
(* AssignConfig: check, remove the old associations, insert the new one *)

\* c = None unassigns the proxy.
AssignCheck(w, p, c) ==
    /\ Free(w)
    /\ c # None => row[c].status = "active"
    /\ Becomes(w, [Idle EXCEPT !.at = "assign_delete", !.cfg = c, !.proxy = p])
    /\ UNCHANGED <<row, rules, assigned>>

RemovedOld(p) == Configs \X {p}

\* Faulty variant of AssignDelete: the request goes on with no configuration.
AssignDeleteNoReturn(w) ==
    /\ req[w].at = "assign_delete"
    /\ assigned' = assigned \ RemovedOld(req[w].proxy)
    /\ Goto(w, "assign_insert")
    /\ UNCHANGED <<row, rules>>

AssignDelete(w) ==
    /\ req[w].at = "assign_delete"
    /\ assigned' = assigned \ RemovedOld(req[w].proxy)
    /\ IF req[w].cfg = None THEN Done(w) ELSE Goto(w, "assign_insert")
    /\ UNCHANGED <<row, rules>>

\* The foreign key refuses a configuration that is gone.
AssignInsert(w) ==
    /\ req[w].at = "assign_insert"
    /\ assigned' = IF Exists(req[w].cfg)
                   THEN assigned \cup {<<req[w].cfg, req[w].proxy>>} ELSE assigned
    /\ Done(w)
    /\ UNCHANGED <<row, rules>>

-----------------------------------------------------------------------------
\* A database error, or the client hanging up (r.Context() is cancelled),
\* ends a request between two statements; what is not committed is lost.
Fail(w) ==
    /\ ~Free(w)
    /\ Done(w)
    /\ UNCHANGED <<row, rules, assigned>>

Next ==
    \E w \in Workers :
        \/ \E c \in Configs, h \in Heads, b \in Bodies, ps \in SUBSET Proxies : Create(w, c, h, b, ps)
        \/ \E h \in Heads, b \in Bodies, ps \in SUBSET Proxies : UpdateCommit(w, h, b, ps)
        \/ \E c \in Configs :
              \/ UpdateCheck(w, c)
              \/ Reject(w, c)
              \/ DeleteCheck(w, c)
              \/ CloneLoad(w, c)
              \/ CloneCommit(w, c)
        \/ \E c \in Configs, u \in Users : Submit(w, c, u) \/ ApproveCheck(w, c, u)
        \/ \E p \in Proxies, c \in Configs \cup {None} : AssignCheck(w, p, c)
        \/ UpdateRefused(w)
        \/ ApproveReadRules(w)
        \/ ApproveReadHead(w)
        \/ ApproveDeactivate(w)
        \/ ApproveCommit(w)
        \/ ApproveRefused(w)
        \/ DeleteCommit(w)
        \/ CloneReadRules(w)
        \/ AssignDelete(w)
        \/ AssignInsert(w)
        \/ Fail(w)

Spec == Init /\ [][Next]_vars

-----------------------------------------------------------------------------
(* Properties of the serialised server; the runs with two workers show which *)
(* of them survive interleaving.                                             *)

\* A proxy is associated with at most one active configuration, whatever was
\* approved, assigned, cloned or cut short by a failure: GetActiveForProxy
\* picks any row when there are two (DeactivateOthers, AssignConfig).
OneActivePerProxy ==
    \A c, d \in Configs, p \in Proxies :
        /\ row[c].status = "active" /\ <<c, p>> \in assigned
        /\ row[d].status = "active" /\ <<d, p>> \in assigned
        => c = d

\* The user recorded as approver of an activated configuration is the one
\* recorded as its submitter (the check at the top of Approve).
ApproverIsSubmitter ==
    \A c \in Configs : row[c].status \in Activated => row[c].approvedBy = row[c].submittedBy

\* The stored hash of an activated configuration is the hash of the rules a
\* proxy will be sent for it (GenerateConfigHash in Approve).
HashMatchesContent ==
    \A c \in Configs : row[c].status \in Activated => row[c].hash = <<rules[c], row[c].head>>

\* A configuration that was ever activated is never deleted (the two checks
\* of Delete).
ActivatedNeverDeleted ==
    [][\A c \in Configs : row[c].status \in Activated => row'[c].status # "deleted"]_vars

\* Why the properties above hold when requests are serialised: what a request
\* in flight knows is still true, because nobody else writes.
InFlight(w) ==
    LET r == req[w]  c == req[w].cfg IN
    /\ r.at \in ApproveSteps => ApproveAllowed(c, r.user)
    /\ r.at \in ApproveSteps \ {"approve_rules"} => r.body = rules[c]
    /\ r.at \in {"approve_deactivate", "approve_commit"} => r.head = row[c].head
    /\ r.at = "approve_commit" => OtherActive(c) = {}
    /\ r.at = "delete" => row[c].status \in {"draft", "pending_approval"}
    /\ r.at \in {"assign_delete", "assign_insert"} /\ c # None => row[c].status = "active"
    /\ r.at = "assign_insert" => assigned \cap (Configs \X {r.proxy}) = {}

ApprovalRecorded ==
    \A c \in Configs : row[c].approvedBy # None <=> row[c].status \in Activated

SerialInv ==
    /\ OneActivePerProxy
    /\ ApproverIsSubmitter
    /\ HashMatchesContent
    /\ ApprovalRecorded
    /\ \A w \in Workers : InFlight(w)

-----------------------------------------------------------------------------
(* Properties that hold under any interleaving *)

\* What was submitted for approval stays as it was submitted: no Update, even
\* one that read the row while it was a draft, changes the head or the rules
\* of a configuration that is not a draft.
FrozenOnceSubmitted ==
    [][\A c \in Configs :
          /\ row[c].status \in Activated \cup {"pending_approval"}
          /\ row'[c].status # "deleted"
          => rules'[c] = rules[c] /\ row'[c].head = row[c].head]_vars

\* An activated configuration is never submitted, rejected or approved again:
\* its approver, submitter and hash are final, and a superseded one never
\* comes back.
ActivationIsFinal ==
    [][\A c \in Configs :
          /\ row[c].status \in Activated
          /\ row'[c].status # "deleted"
          => /\ row'[c].status \in {row[c].status, "approved"}
             /\ row'[c].approvedBy = row[c].approvedBy
             /\ row'[c].submittedBy = row[c].submittedBy
             /\ row'[c].hash = row[c].hash]_vars

\* A clone of an activated configuration is a copy of it, although the rows
\* of the original are read one table at a time.
CloneOfActivatedIsExact ==
    \A w \in Workers :
        LET c == req[w].cfg IN
        req[w].at = "clone_commit" /\ req[w].seen \in Activated /\ Exists(c)
        => req[w].body = rules[c] /\ req[w].head = row[c].head

-----------------------------------------------------------------------------
(* The abstract specification *)

Lifecycle == INSTANCE ConfigLifecycle

\* Serialised requests implement the lifecycle as the service states it: only
\* the submitter activates, with the hash of what is served, and nothing that
\* was ever activated is removed.
ImplementsLifecycle == Lifecycle!Spec

\* Interleaved requests still take every row through its lifecycle, but the
\* approver, the hash and the removal are no longer tied to it.
ImplementsRacyLifecycle == Lifecycle!RacySpec

=============================================================================
