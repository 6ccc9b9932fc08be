--------------------------- MODULE ConfigLifecycle --------------------------
(***************************************************************************)
(* What the approval workflow promises for one configuration, whatever     *)
(* happens to the others: the guarded UPDATE statements of config_repo.go  *)
(* seen as one state machine per row.  Spec is what ConfigService keeps    *)
(* when management requests are serialised, RacySpec what is left of it    *)
(* when they interleave (see ConfigApproval).                              *)
(***************************************************************************)
CONSTANTS Configs, Users, Heads, Bodies, None

VARIABLES row, rules

Content == (Bodies \cup {None}) \X (Heads \cup {None})

Empty(s) == [status |-> s, head |-> None, submittedBy |-> None,
             approvedBy |-> None, hash |-> None]

Init ==
    /\ row = [c \in Configs |-> Empty("unused")]
    /\ rules = [c \in Configs |-> None]

\* A new draft, empty-handed when it is the clone of a row just deleted.
Create(c) ==
    /\ row[c].status = "unused"
    /\ \E h \in Heads \cup {None} : row'[c] = [Empty("draft") EXCEPT !.head = h]
    /\ rules'[c] \in Bodies \cup {None}

Edit(c) ==
    /\ row[c].status = "draft"
    /\ \E h \in Heads : row'[c] = [row[c] EXCEPT !.head = h]
    /\ rules'[c] \in Bodies

Submit(c) ==
    /\ row[c].status = "draft"
    /\ \E u \in Users :
          row'[c] = [row[c] EXCEPT !.status = "pending_approval", !.submittedBy = u]
    /\ rules'[c] = rules[c]

Reject(c) ==
    /\ row[c].status = "pending_approval"
    /\ row'[c] = [row[c] EXCEPT !.status = "draft", !.submittedBy = None]
    /\ rules'[c] = rules[c]

\* Any user's approval, with any hash.
ActivateAny(c) ==
    /\ row[c].status = "pending_approval"
    /\ \E u \in Users, k \in Content :
          row'[c] = [row[c] EXCEPT !.status = "active", !.approvedBy = u, !.hash = k]
    /\ rules'[c] = rules[c]

\* The submitter's approval, with the hash of what was submitted.
Activate(c) ==
    /\ ActivateAny(c)
    /\ row'[c].approvedBy = row[c].submittedBy
    /\ row'[c].hash = <<rules[c], row[c].head>>

Supersede(c) ==
    /\ row[c].status = "active"
    /\ row'[c] = [row[c] EXCEPT !.status = "approved"]
    /\ rules'[c] = rules[c]

RemoveAny(c) ==
    /\ row[c].status # "unused"
    /\ row'[c] = Empty("deleted")
    /\ rules'[c] = None

\* Only what was never activated is removed.
Remove(c) == RemoveAny(c) /\ row[c].approvedBy = None

Keep(c) == row'[c] = row[c] /\ rules'[c] = rules[c]

Common(c) == Create(c) \/ Edit(c) \/ Submit(c) \/ Reject(c) \/ Supersede(c) \/ Keep(c)

Step(c)     == Common(c) \/ Activate(c) \/ Remove(c)
RacyStep(c) == Common(c) \/ ActivateAny(c) \/ RemoveAny(c)

Spec     == Init /\ [][\A c \in Configs : Step(c)]_<<row, rules>>
RacySpec == Init /\ [][\A c \in Configs : RacyStep(c)]_<<row, rules>>

=============================================================================
