------------------------ MODULE ConfigApprovalProofs ------------------------
(***************************************************************************)
(* What ConfigApproval promises for any number of configurations, proxies, *)
(* users and concurrent requests, and what it promises when requests are   *)
(* serialised.                                                             *)
(***************************************************************************)
EXTENDS ConfigApproval, TLAPS

-----------------------------------------------------------------------------
(* Type correctness *)

\* Replacing one request by a request keeps the requests typed.
LEMMA BecomesType ==
    ASSUME req \in [Workers -> Request], NEW w \in Workers, NEW r \in Request, Becomes(w, r)
    PROVE  req' \in [Workers -> Request]
  BY DEF Becomes

\* The idle request is a request.
LEMMA IdleType == Idle \in Request
  BY NoneAssumption DEF Idle, Request, Requests, Steps, ApproveSteps

\* Moving a request that knows its configuration to its next step.
LEMMA StepType ==
    ASSUME NEW r \in Request, NEW h \in Heads \cup {None}, NEW b \in Bodies \cup {None},
           r.cfg \in Configs
    PROVE  /\ r.at \in ApproveSteps => [r EXCEPT !.at = "approve_head", !.body = b] \in Request
           /\ r.at \in ApproveSteps => [r EXCEPT !.at = "approve_deactivate", !.head = h] \in Request
           /\ r.at \in ApproveSteps => [r EXCEPT !.at = "approve_commit"] \in Request
           /\ r.proxy \in Proxies => [r EXCEPT !.at = "assign_insert"] \in Request
           /\ [r EXCEPT !.at = "clone_commit", !.body = b] \in Request
<1> USE DEF Request, Requests, Steps, ApproveSteps
<1>1. r.at \in ApproveSteps => [r EXCEPT !.at = "approve_head", !.body = b] \in Request
  OBVIOUS
<1>2. r.at \in ApproveSteps => [r EXCEPT !.at = "approve_deactivate", !.head = h] \in Request
  OBVIOUS
<1>3. r.at \in ApproveSteps => [r EXCEPT !.at = "approve_commit"] \in Request
  OBVIOUS
<1>4. r.proxy \in Proxies => [r EXCEPT !.at = "assign_insert"] \in Request
  OBVIOUS
<1>5. [r EXCEPT !.at = "clone_commit", !.body = b] \in Request
  OBVIOUS
<1>6. QED
  BY <1>1, <1>2, <1>3, <1>4, <1>5

\* The requests the handlers start with.
LEMMA StartType ==
    ASSUME NEW c \in Configs
    PROVE  /\ [Idle EXCEPT !.at = "update", !.cfg = c] \in Request
           /\ [Idle EXCEPT !.at = "delete", !.cfg = c] \in Request
           /\ \A u \in Users : [Idle EXCEPT !.at = "approve_rules", !.cfg = c, !.user = u] \in Request
           /\ \A s \in Status, h \in Heads \cup {None} :
                 [Idle EXCEPT !.at = "clone_rules", !.cfg = c, !.seen = s, !.head = h] \in Request
  BY DEF Idle, Request, Requests, Steps, ApproveSteps

\* An assignment request; without a configuration it unassigns the proxy.
LEMMA AssignType ==
    ASSUME NEW p \in Proxies, NEW k \in Configs \cup {None}
    PROVE  [Idle EXCEPT !.at = "assign_delete", !.cfg = k, !.proxy = p] \in Request
  BY DEF Idle, Request, Requests, Steps, ApproveSteps

\* The draft rows that Create and Clone insert, and what is left of a deleted one.
LEMMA RowType ==
    ASSUME NEW h \in Heads \cup {None}
    PROVE  /\ [Empty("draft") EXCEPT !.head = h] \in Row
           /\ Empty("deleted") \in Row
           /\ Empty("unused") \in Row
  BY DEF Empty, Row, Status

\* The tables and the requests in flight keep their types under every
\* handler step of config_service.go and AssignConfig.
LEMMA TypeStep == TypeOK /\ [Next]_vars => TypeOK'
<1> SUFFICES ASSUME TypeOK, [Next]_vars PROVE TypeOK'
  OBVIOUS
<1>0. /\ row \in [Configs -> Row]
      /\ rules \in [Configs -> Bodies \cup {None}]
      /\ assigned \subseteq Configs \X Proxies
      /\ req \in [Workers -> Request]
  BY DEF TypeOK
<1>1. ASSUME NEW w \in Workers, NEW c \in Configs, NEW h \in Heads, NEW b \in Bodies, NEW ps \in SUBSET Proxies,
             Create(w, c, h, b, ps)
      PROVE  TypeOK'
  BY <1>0, <1>1, RowType DEF Create, Reassign, TypeOK
<1>2. ASSUME NEW w \in Workers, NEW h \in Heads, NEW b \in Bodies, NEW ps \in SUBSET Proxies,
             UpdateCommit(w, h, b, ps)
      PROVE  TypeOK'
  <2> DEFINE c == req[w].cfg
  <2>1. c \in Configs
    BY <1>0, <1>2 DEF UpdateCommit, Request
  <2>2. row' \in [Configs -> Row]
    BY <1>0, <1>2, <2>1 DEF UpdateCommit, Row
  <2>3. rules' \in [Configs -> Bodies \cup {None}] /\ assigned' \subseteq Configs \X Proxies
    BY <1>0, <1>2, <2>1 DEF UpdateCommit, Reassign
  <2>4. req' \in [Workers -> Request]
    BY <1>0, <1>2, IdleType, BecomesType DEF UpdateCommit, Done
  <2>5. QED
    BY <2>2, <2>3, <2>4 DEF TypeOK
<1>3. ASSUME NEW w \in Workers, NEW c \in Configs,
             UpdateCheck(w, c)
      PROVE  TypeOK'
  BY <1>0, <1>3, StartType, BecomesType DEF UpdateCheck, TypeOK
<1>4. ASSUME NEW w \in Workers, NEW c \in Configs,
             Reject(w, c)
      PROVE  TypeOK'
  <2> DEFINE r == [row[c] EXCEPT !.status = "draft", !.submittedBy = None]
  <2>0. r \in Row /\ row' = [row EXCEPT ![c] = r]
    BY <1>0, <1>4 DEF Reject, Row, Status
  <2> HIDE DEF r
  <2>1. row' \in [Configs -> Row]
    BY <1>0, <2>0
  <2>2. QED
    BY <1>0, <1>4, <2>1 DEF Reject, TypeOK
<1>5. ASSUME NEW w \in Workers, NEW c \in Configs,
             DeleteCheck(w, c)
      PROVE  TypeOK'
  BY <1>0, <1>5, StartType, BecomesType DEF DeleteCheck, TypeOK
<1>6. ASSUME NEW w \in Workers, NEW c \in Configs,
             CloneLoad(w, c)
      PROVE  TypeOK'
  <2>1. row[c].head \in Heads \cup {None} /\ row[c].status \in Status
    BY <1>0, <1>6 DEF CloneLoad, Exists, Row
  <2>2. QED
    BY <1>0, <1>6, <2>1, StartType, BecomesType DEF CloneLoad, TypeOK
<1>7. ASSUME NEW w \in Workers, NEW c \in Configs,
             CloneCommit(w, c)
      PROVE  TypeOK'
  <2>1. req[w].head \in Heads \cup {None} /\ req[w].body \in Bodies \cup {None}
    BY <1>0 DEF Request, Requests
  <2>2. row' \in [Configs -> Row] /\ rules' \in [Configs -> Bodies \cup {None}]
    BY <1>0, <1>7, <2>1, RowType DEF CloneCommit
  <2>3. assigned' \subseteq Configs \X Proxies
    BY <1>0, <1>7 DEF CloneCommit, Reassign, ProxiesOf
  <2>4. req' \in [Workers -> Request]
    BY <1>0, <1>7, IdleType, BecomesType DEF CloneCommit, Done
  <2>5. QED
    BY <2>2, <2>3, <2>4 DEF TypeOK
<1>8. ASSUME NEW w \in Workers, NEW c \in Configs, NEW u \in Users,
             Submit(w, c, u)
      PROVE  TypeOK'
  <2>1. row' \in [Configs -> Row]
    BY <1>0, <1>8 DEF Submit, Row, Status
  <2>2. QED
    BY <1>0, <1>8, <2>1 DEF Submit, TypeOK
<1>9. ASSUME NEW w \in Workers, NEW c \in Configs, NEW u \in Users,
             ApproveCheck(w, c, u)
      PROVE  TypeOK'
  BY <1>0, <1>9, StartType, BecomesType DEF ApproveCheck, TypeOK
<1>10. ASSUME NEW w \in Workers, NEW p \in Proxies, NEW c \in Configs \cup {None},
             AssignCheck(w, p, c)
      PROVE  TypeOK'
  BY <1>0, <1>10, AssignType, BecomesType DEF AssignCheck, TypeOK
<1>11. ASSUME NEW w \in Workers, UpdateRefused(w) \/ ApproveRefused(w) \/ Fail(w)
      PROVE  TypeOK'
  BY <1>0, <1>11, IdleType, BecomesType DEF UpdateRefused, ApproveRefused, Fail, Done, TypeOK
<1>12. ASSUME NEW w \in Workers, ApproveReadRules(w)
      PROVE  TypeOK'
  <2>1. req[w] \in Request /\ req[w].cfg \in Configs /\ req[w].at \in ApproveSteps
    BY <1>0, <1>12 DEF ApproveReadRules, Request, ApproveSteps
  <2>2. rules[req[w].cfg] \in Bodies \cup {None}
    BY <1>0, <2>1
  <2>3. [req[w] EXCEPT !.at = "approve_head", !.body = rules[req[w].cfg]] \in Request
    BY <2>1, <2>2, StepType
  <2>4. QED
    BY <1>0, <1>12, <2>3, BecomesType DEF ApproveReadRules, TypeOK
<1>13. ASSUME NEW w \in Workers, ApproveReadHead(w)
      PROVE  TypeOK'
  <2>1. req[w] \in Request /\ req[w].cfg \in Configs /\ req[w].at \in ApproveSteps
    BY <1>0, <1>13 DEF ApproveReadHead, Request, ApproveSteps
  <2>2. row[req[w].cfg].head \in Heads \cup {None}
    BY <1>0, <2>1 DEF Row
  <2>3. [req[w] EXCEPT !.at = "approve_deactivate", !.head = row[req[w].cfg].head] \in Request
    BY <2>1, <2>2, StepType
  <2>4. QED
    BY <1>0, <1>13, <2>3, IdleType, BecomesType DEF ApproveReadHead, Done, TypeOK
<1>14. ASSUME NEW w \in Workers, ApproveDeactivate(w)
      PROVE  TypeOK'
  <2>1. req[w] \in Request /\ req[w].cfg \in Configs /\ req[w].at \in ApproveSteps
    BY <1>0, <1>14 DEF ApproveDeactivate, Request, ApproveSteps
  <2>2. row' \in [Configs -> Row]
    BY <1>0, <1>14 DEF ApproveDeactivate, Row, Status
  <2>3. [req[w] EXCEPT !.at = "approve_commit"] \in Request
    BY <2>1, StepType
  <2>4. QED
    BY <1>0, <1>14, <2>2, <2>3, BecomesType DEF ApproveDeactivate, Goto, TypeOK
<1>15. ASSUME NEW w \in Workers, ApproveCommit(w)
      PROVE  TypeOK'
  <2> DEFINE c == req[w].cfg
  <2>1. c \in Configs /\ req[w].user \in Users /\ HashRead(w) \in Content
    BY <1>0, <1>15 DEF ApproveCommit, Request, Requests, ApproveSteps, HashRead, Content
  <2>2. row' \in [Configs -> Row]
    BY <1>0, <1>15, <2>1 DEF ApproveCommit, Row, Status
  <2>3. QED
    BY <1>0, <1>15, <2>2, IdleType, BecomesType DEF ApproveCommit, Done, TypeOK
<1>16. ASSUME NEW w \in Workers, DeleteCommit(w)
      PROVE  TypeOK'
  <2>1. row' \in [Configs -> Row] /\ rules' \in [Configs -> Bodies \cup {None}]
    BY <1>0, <1>16, RowType DEF DeleteCommit
  <2>2. assigned' \subseteq Configs \X Proxies
    BY <1>0, <1>16 DEF DeleteCommit, Reassign
  <2>3. QED
    BY <1>0, <1>16, <2>1, <2>2, IdleType, BecomesType DEF DeleteCommit, Done, TypeOK
<1>17. ASSUME NEW w \in Workers, CloneReadRules(w)
      PROVE  TypeOK'
  <2>1. req[w] \in Request /\ req[w].cfg \in Configs
    BY <1>0, <1>17 DEF CloneReadRules, Request
  <2>2. [req[w] EXCEPT !.at = "clone_commit", !.body = rules[req[w].cfg]] \in Request
    BY <1>0, <2>1, StepType
  <2>3. QED
    BY <1>0, <1>17, <2>2, BecomesType DEF CloneReadRules, TypeOK
<1>18. ASSUME NEW w \in Workers, AssignDelete(w)
      PROVE  TypeOK'
  <2>1. req[w] \in Request /\ req[w].proxy \in Proxies /\ req[w].cfg \in Configs \cup {None}
    BY <1>0, <1>18 DEF AssignDelete, Request, Requests
  <2>2. req' \in [Workers -> Request]
    BY <1>0, <1>18, <2>1, IdleType, StepType, BecomesType DEF AssignDelete, Done, Goto
  <2>3. QED
    BY <1>0, <1>18, <2>2 DEF AssignDelete, TypeOK
<1>19. ASSUME NEW w \in Workers, AssignInsert(w)
      PROVE  TypeOK'
  <2>1. req[w].cfg \in Configs /\ req[w].proxy \in Proxies
    BY <1>0, <1>19 DEF AssignInsert, Request
  <2>2. QED
    BY <1>0, <1>19, <2>1, IdleType, BecomesType DEF AssignInsert, Done, TypeOK
<1>20. CASE UNCHANGED vars
  BY <1>0, <1>20 DEF vars, TypeOK
<1>21. QED
  BY <1>1, <1>2, <1>3, <1>4, <1>5, <1>6, <1>7, <1>8, <1>9, <1>10, <1>11, <1>12,
     <1>13, <1>14, <1>15, <1>16, <1>17, <1>18, <1>19, <1>20
  DEF Next

\* Every behaviour of the handlers keeps the tables well typed.
THEOREM TypeCorrect == Spec => []TypeOK
<1>1. Init => TypeOK
  BY RowType, IdleType, NoneAssumption DEF Init, TypeOK
<1>2. QED
  BY <1>1, TypeStep, PTL DEF Spec

-----------------------------------------------------------------------------
(* Every step takes every configuration through its lifecycle *)

\* A request never refers to an identifier that is still to be generated.
KnownConfig ==
    \A w \in Workers : req[w].cfg \in Configs => row[req[w].cfg].status # "unused"

\* What a step may do to the row and the rules of c; an approval and a
\* removal are traced back to the request that makes them.
Change(c) ==
    \/ Lifecycle!Common(c)
    \/ \E w \in Workers : /\ ApproveCommit(w) /\ req[w].cfg = c
                          /\ Lifecycle!ActivateAny(c)
                          /\ row'[c].approvedBy = req[w].user
                          /\ row'[c].hash = HashRead(w)
    \/ \E w \in Workers : /\ DeleteCommit(w) /\ req[w].cfg = c
                          /\ Lifecycle!RemoveAny(c)

\* Any handler step is a lifecycle step of each configuration.
LEMMA ChangeStep ==
    ASSUME TypeOK, KnownConfig, [Next]_vars, NEW c \in Configs PROVE Change(c)
<1>0. /\ row \in [Configs -> Row]
      /\ rules \in [Configs -> Bodies \cup {None}]
      /\ assigned \subseteq Configs \X Proxies
      /\ req \in [Workers -> Request]
      /\ \A w \in Workers : req[w].head \in Heads \cup {None} /\ req[w].body \in Bodies \cup {None}
  BY DEF TypeOK, Request, Requests
<1>1. ASSUME UNCHANGED <<row, rules>> PROVE Change(c)
  BY <1>1 DEF Change, Lifecycle!Common, Lifecycle!Keep
<1>2. ASSUME NEW w \in Workers, NEW d \in Configs, NEW h \in Heads, NEW b \in Bodies,
             NEW ps \in SUBSET Proxies, Create(w, d, h, b, ps)
      PROVE  Change(c)
  <2>1. CASE c = d
    BY <1>0, <1>2, <2>1 DEF Create, Change, Lifecycle!Common, Lifecycle!Create, Empty, Lifecycle!Empty
  <2>2. CASE c # d
    BY <1>0, <1>2, <2>2 DEF Create, Change, Lifecycle!Common, Lifecycle!Keep
  <2>3. QED
    BY <2>1, <2>2
<1>3. ASSUME NEW w \in Workers, NEW h \in Heads, NEW b \in Bodies,
             NEW ps \in SUBSET Proxies, UpdateCommit(w, h, b, ps)
      PROVE  Change(c)
  <2>0. req[w].cfg \in Configs
    BY <1>0, <1>3 DEF UpdateCommit, Request
  <2>1. CASE c = req[w].cfg
    BY <1>0, <1>3, <2>0, <2>1 DEF UpdateCommit, UpdateGuard, Change, Lifecycle!Common, Lifecycle!Edit
  <2>2. CASE c # req[w].cfg
    BY <1>0, <1>3, <2>0, <2>2 DEF UpdateCommit, Change, Lifecycle!Common, Lifecycle!Keep
  <2>3. QED
    BY <2>1, <2>2
<1>4. ASSUME NEW w \in Workers, NEW d \in Configs, Reject(w, d)
      PROVE  Change(c)
  <2>1. CASE c = d
    BY <1>0, <1>4, <2>1 DEF Reject, RejectGuard, Change, Lifecycle!Common, Lifecycle!Reject, Row
  <2>2. CASE c # d
    BY <1>0, <1>4, <2>2 DEF Reject, Change, Lifecycle!Common, Lifecycle!Keep
  <2>3. QED
    BY <2>1, <2>2
<1>5. ASSUME NEW w \in Workers, NEW d \in Configs, CloneCommit(w, d)
      PROVE  Change(c)
  <2>1. CASE c = d
    BY <1>0, <1>5, <2>1
    DEF CloneCommit, Change, Lifecycle!Common, Lifecycle!Create, Empty, Lifecycle!Empty
  <2>2. CASE c # d
    BY <1>0, <1>5, <2>2 DEF CloneCommit, Change, Lifecycle!Common, Lifecycle!Keep
  <2>3. QED
    BY <2>1, <2>2
<1>6. ASSUME NEW w \in Workers, NEW d \in Configs, NEW u \in Users, Submit(w, d, u)
      PROVE  Change(c)
  <2>1. CASE c = d
    BY <1>0, <1>6, <2>1 DEF Submit, Change, Lifecycle!Common, Lifecycle!Submit, Row
  <2>2. CASE c # d
    BY <1>0, <1>6, <2>2 DEF Submit, Change, Lifecycle!Common, Lifecycle!Keep
  <2>3. QED
    BY <2>1, <2>2
<1>7. ASSUME NEW w \in Workers, ApproveDeactivate(w)
      PROVE  Change(c)
  <2>1. CASE c \in OtherActive(req[w].cfg)
    BY <1>0, <1>7, <2>1
    DEF ApproveDeactivate, Deactivated, OtherActive, Change, Lifecycle!Common, Lifecycle!Supersede
  <2>2. CASE c \notin OtherActive(req[w].cfg)
    BY <1>0, <1>7, <2>2 DEF ApproveDeactivate, Deactivated, Change, Lifecycle!Common, Lifecycle!Keep
  <2>3. QED
    BY <2>1, <2>2
<1>8. ASSUME NEW w \in Workers, ApproveCommit(w)
      PROVE  Change(c)
  <2>0. /\ req[w].cfg \in Configs /\ req[w].user \in Users
        /\ HashRead(w) \in Lifecycle!Content
    BY <1>0, <1>8 DEF ApproveCommit, Request, ApproveSteps, HashRead, Lifecycle!Content
  <2>1. CASE c = req[w].cfg
    <3>1. /\ row[c].status = "pending_approval"
          /\ row'[c] = [row[c] EXCEPT !.status = "active", !.approvedBy = req[w].user,
                                      !.hash = HashRead(w)]
          /\ rules'[c] = rules[c]
      BY <1>0, <1>8, <2>1 DEF ApproveCommit, ApproveGuard, Row
    <3>2. Lifecycle!ActivateAny(c)
      BY <2>0, <3>1 DEF Lifecycle!ActivateAny
    <3>3. row'[c].approvedBy = req[w].user /\ row'[c].hash = HashRead(w)
      BY <1>0, <3>1 DEF Row
    <3>4. QED
      BY <1>8, <2>1, <3>2, <3>3 DEF Change
  <2>2. CASE c # req[w].cfg
    BY <1>0, <1>8, <2>0, <2>2 DEF ApproveCommit, Change, Lifecycle!Common, Lifecycle!Keep
  <2>3. QED
    BY <2>1, <2>2
<1>9. ASSUME NEW w \in Workers, DeleteCommit(w)
      PROVE  Change(c)
  <2>1. CASE c = req[w].cfg
    <3>1. Lifecycle!RemoveAny(c)
      BY <1>0, <1>9, <2>1 DEF DeleteCommit, KnownConfig, Lifecycle!RemoveAny, Empty, Lifecycle!Empty
    <3>2. QED
      BY <1>9, <2>1, <3>1 DEF Change
  <2>2. CASE c # req[w].cfg
    BY <1>0, <1>9, <2>2 DEF DeleteCommit, Change, Lifecycle!Common, Lifecycle!Keep
  <2>3. QED
    BY <2>1, <2>2
<1>10. QED
  BY <1>1, <1>2, <1>3, <1>4, <1>5, <1>6, <1>7, <1>8, <1>9
  DEF Next, vars, UpdateCheck, DeleteCheck, CloneLoad, ApproveCheck, AssignCheck, UpdateRefused,
      ApproveReadRules, ApproveReadHead, ApproveRefused, CloneReadRules, AssignDelete, AssignInsert, Fail

\* Every step of a request keeps the configuration it is about, or takes one
\* that exists, or ends the request.
LEMMA CfgStep ==
    ASSUME TypeOK, [Next]_vars, NEW w \in Workers, req'[w].cfg \in Configs
    PROVE  req'[w].cfg = req[w].cfg \/ row[req'[w].cfg].status # "unused"
<1>0. req \in [Workers -> Request] /\ row \in [Configs -> Row]
  BY DEF TypeOK
<1>1. ASSUME NEW v \in Workers, Becomes(v, Idle) PROVE req'[w].cfg = req[w].cfg
  BY <1>0, <1>1, NoneAssumption DEF Becomes, Idle
<1>2. ASSUME UNCHANGED req PROVE req'[w].cfg = req[w].cfg
  BY <1>2
<1>3. ASSUME NEW v \in Workers, NEW c \in Configs,
             UpdateCheck(v, c) \/ DeleteCheck(v, c) \/ CloneLoad(v, c)
      PROVE  req'[w].cfg = req[w].cfg \/ row[req'[w].cfg].status # "unused"
  BY <1>0, <1>3 DEF UpdateCheck, DeleteCheck, CloneLoad, Becomes, Idle, Exists, Status
<1>4. ASSUME NEW v \in Workers, NEW c \in Configs, NEW u \in Users, ApproveCheck(v, c, u)
      PROVE  req'[w].cfg = req[w].cfg \/ row[req'[w].cfg].status # "unused"
  BY <1>0, <1>4 DEF ApproveCheck, ApproveAllowed, Becomes, Idle
<1>5. ASSUME NEW v \in Workers, NEW p \in Proxies, NEW c \in Configs \cup {None}, AssignCheck(v, p, c)
      PROVE  req'[w].cfg = req[w].cfg \/ row[req'[w].cfg].status # "unused"
  BY <1>0, <1>5, NoneAssumption DEF AssignCheck, Becomes, Idle
<1>6. ASSUME NEW v \in Workers, NEW s \in Steps, NEW h, NEW b,
             \/ Becomes(v, [req[v] EXCEPT !.at = s])
             \/ Becomes(v, [req[v] EXCEPT !.at = s, !.head = h])
             \/ Becomes(v, [req[v] EXCEPT !.at = s, !.body = b])
      PROVE  req'[w].cfg = req[w].cfg
  <2> DEFINE r == req[v]
  <2>1. /\ [r EXCEPT !.at = s].cfg = r.cfg
        /\ [r EXCEPT !.at = s, !.head = h].cfg = r.cfg
        /\ [r EXCEPT !.at = s, !.body = b].cfg = r.cfg
    BY <1>0 DEF Request, Requests
  <2>2. CASE w = v
    BY <1>0, <1>6, <2>1, <2>2 DEF Becomes
  <2>3. CASE w # v
    BY <1>0, <1>6, <2>3 DEF Becomes
  <2>4. QED
    BY <2>2, <2>3
<1>7. QED
  BY <1>1, <1>2, <1>3, <1>4, <1>5, <1>6
  DEF Next, vars, Create, UpdateCommit, Reject, CloneCommit, Submit, UpdateRefused, ApproveCommit,
      ApproveRefused, DeleteCommit, AssignInsert, Fail, Done, Goto, Steps, ApproveSteps,
      ApproveReadRules, ApproveReadHead, ApproveDeactivate, CloneReadRules, AssignDelete

\* What the state machine of one row never does.
LEMMA RacyStepFacts ==
    ASSUME TypeOK, NEW c \in Configs, Lifecycle!RacyStep(c)
    PROVE  /\ row[c].status # "unused" => row'[c].status # "unused"
           /\ row[c].status # "unused" /\ row'[c].status \in Status => row[c].status \in Status
           /\ /\ row[c].status \in Activated \cup {"pending_approval"}
              /\ row'[c].status # "deleted"
              => rules'[c] = rules[c] /\ row'[c].head = row[c].head
           /\ /\ row[c].status \in Activated
              /\ row'[c].status # "deleted"
              => /\ row'[c].status \in {row[c].status, "approved"}
                 /\ row'[c].approvedBy = row[c].approvedBy
                 /\ row'[c].submittedBy = row[c].submittedBy
                 /\ row'[c].hash = row[c].hash
<1>0. row[c] \in Row
  BY DEF TypeOK
<1> USE <1>0 DEF Activated, Row, Status
<1>1. CASE Lifecycle!Create(c)
  BY <1>1 DEF Lifecycle!Create, Lifecycle!Empty
<1>2. CASE Lifecycle!Edit(c)
  BY <1>2 DEF Lifecycle!Edit
<1>3. CASE Lifecycle!Submit(c)
  BY <1>3 DEF Lifecycle!Submit
<1>4. CASE Lifecycle!Reject(c)
  BY <1>4 DEF Lifecycle!Reject
<1>5. CASE Lifecycle!ActivateAny(c)
  BY <1>5 DEF Lifecycle!ActivateAny
<1>6. CASE Lifecycle!Supersede(c)
  BY <1>6 DEF Lifecycle!Supersede
<1>7. CASE Lifecycle!RemoveAny(c)
  BY <1>7 DEF Lifecycle!RemoveAny, Lifecycle!Empty
<1>8. CASE Lifecycle!Keep(c)
  BY <1>8 DEF Lifecycle!Keep
<1>9. QED
  BY <1>1, <1>2, <1>3, <1>4, <1>5, <1>6, <1>7, <1>8 DEF Lifecycle!RacyStep, Lifecycle!Common

\* Any handler step, seen from one row.
LEMMA RacyChange ==
    ASSUME TypeOK, KnownConfig, [Next]_vars, NEW c \in Configs PROVE Lifecycle!RacyStep(c)
  BY ChangeStep DEF Change, Lifecycle!RacyStep

\* Requests keep referring to identifiers that exist or existed.
THEOREM KnownConfigCorrect == Spec => []KnownConfig
<1>1. Init => KnownConfig
  BY NoneAssumption DEF Init, KnownConfig, Idle
<1>2. TypeOK /\ KnownConfig /\ [Next]_vars => KnownConfig'
  <2> SUFFICES ASSUME TypeOK, KnownConfig, [Next]_vars, NEW w \in Workers, req'[w].cfg \in Configs
               PROVE  row'[req'[w].cfg].status # "unused"
    BY DEF KnownConfig
  <2>1. row[req'[w].cfg].status # "unused"
    BY CfgStep DEF KnownConfig
  <2>2. QED
    BY <2>1, RacyChange, RacyStepFacts
<1>3. QED
  BY <1>1, <1>2, TypeCorrect, PTL DEF Spec

\* The handlers, interleaved in any way, implement the racy lifecycle: every
\* step moves each configuration along the state machine of its row.
THEOREM RacyRefinement == Spec => ImplementsRacyLifecycle
<1>1. Init => Lifecycle!Init
  BY DEF Init, Lifecycle!Init, Empty, Lifecycle!Empty
<1>2. TypeOK /\ KnownConfig /\ [Next]_vars => [\A c \in Configs : Lifecycle!RacyStep(c)]_<<row, rules>>
  BY RacyChange
<1>3. QED
  BY <1>1, <1>2, TypeCorrect, KnownConfigCorrect, PTL DEF Spec, ImplementsRacyLifecycle, Lifecycle!RacySpec

\* No interleaving of the handlers changes the head or the rules of a
\* configuration that was submitted.
THEOREM FrozenCorrect == Spec => FrozenOnceSubmitted
<1>1. TypeOK /\ KnownConfig /\ [Next]_vars =>
        [\A c \in Configs :
           /\ row[c].status \in Activated \cup {"pending_approval"}
           /\ row'[c].status # "deleted"
           => rules'[c] = rules[c] /\ row'[c].head = row[c].head]_vars
  BY RacyChange, RacyStepFacts
<1>2. QED
  BY <1>1, TypeCorrect, KnownConfigCorrect, PTL DEF Spec, FrozenOnceSubmitted

\* No interleaving of the handlers changes who approved an activated
\* configuration, who submitted it, its hash, or brings it back.
THEOREM FinalCorrect == Spec => ActivationIsFinal
<1>1. TypeOK /\ KnownConfig /\ [Next]_vars =>
        [\A c \in Configs :
           /\ row[c].status \in Activated
           /\ row'[c].status # "deleted"
           => /\ row'[c].status \in {row[c].status, "approved"}
              /\ row'[c].approvedBy = row[c].approvedBy
              /\ row'[c].submittedBy = row[c].submittedBy
              /\ row'[c].hash = row[c].hash]_vars
  BY RacyChange, RacyStepFacts
<1>2. QED
  BY <1>1, TypeCorrect, KnownConfigCorrect, PTL DEF Spec, ActivationIsFinal

-----------------------------------------------------------------------------
(* Serialised requests *)

\* At most one management request runs at a time.
OneRequest == \A v, w \in Workers : v = w

\* The lifecycle steps that are neither an approval nor a removal keep what
\* is recorded about activations.
LEMMA CommonRecords ==
    ASSUME TypeOK, NEW c \in Configs, Lifecycle!Common(c),
           row[c].status \in Activated =>
               row[c].approvedBy = row[c].submittedBy /\ row[c].hash = <<rules[c], row[c].head>>,
           row[c].approvedBy # None <=> row[c].status \in Activated
    PROVE  /\ row'[c].status \in Activated =>
                row'[c].approvedBy = row'[c].submittedBy /\ row'[c].hash = <<rules'[c], row'[c].head>>
           /\ row'[c].approvedBy # None <=> row'[c].status \in Activated
           /\ row'[c].status = "active" => row[c].status = "active"
<1>0. row[c] \in Row
  BY DEF TypeOK
<1> USE <1>0, NoneAssumption DEF Activated, Row
<1>1. CASE Lifecycle!Create(c)
  BY <1>1 DEF Lifecycle!Create, Lifecycle!Empty
<1>2. CASE Lifecycle!Edit(c)
  BY <1>2 DEF Lifecycle!Edit
<1>3. CASE Lifecycle!Submit(c)
  BY <1>3 DEF Lifecycle!Submit
<1>4. CASE Lifecycle!Reject(c)
  BY <1>4 DEF Lifecycle!Reject
<1>5. CASE Lifecycle!Supersede(c)
  BY <1>5 DEF Lifecycle!Supersede
<1>6. CASE Lifecycle!Keep(c)
  BY <1>6 DEF Lifecycle!Keep
<1>7. QED
  BY <1>1, <1>2, <1>3, <1>4, <1>5, <1>6 DEF Lifecycle!Common

\* What every step does to the record of activations, for one row: an
\* approval commits what the request in flight still knows to be true.
LEMMA RecordStep ==
    ASSUME TypeOK, KnownConfig, SerialInv, [Next]_vars, NEW c \in Configs
    PROVE  /\ row'[c].status \in Activated =>
                row'[c].approvedBy = row'[c].submittedBy /\ row'[c].hash = <<rules'[c], row'[c].head>>
           /\ row'[c].approvedBy # None <=> row'[c].status \in Activated
           /\ Lifecycle!Step(c)
<1>0. /\ Change(c)
      /\ row[c] \in Row
      /\ row[c].status \in Activated =>
           row[c].approvedBy = row[c].submittedBy /\ row[c].hash = <<rules[c], row[c].head>>
      /\ row[c].approvedBy # None <=> row[c].status \in Activated
  BY ChangeStep DEF TypeOK, SerialInv, ApproverIsSubmitter, HashMatchesContent, ApprovalRecorded
<1>1. CASE Lifecycle!Common(c)
  BY <1>0, <1>1, CommonRecords DEF Lifecycle!Step
<1>2. ASSUME NEW w \in Workers, ApproveCommit(w), req[w].cfg = c, Lifecycle!ActivateAny(c),
             row'[c].approvedBy = req[w].user, row'[c].hash = HashRead(w)
      PROVE  /\ row'[c].status \in Activated =>
                  row'[c].approvedBy = row'[c].submittedBy /\ row'[c].hash = <<rules'[c], row'[c].head>>
             /\ row'[c].approvedBy # None <=> row'[c].status \in Activated
             /\ Lifecycle!Step(c)
  <2>0. req[w].user # None
    BY <1>2, NoneAssumption DEF ApproveCommit, TypeOK, Request, ApproveSteps
  <2>1. /\ row[c].submittedBy = req[w].user
        /\ req[w].body = rules[c] /\ req[w].head = row[c].head
    BY <1>2 DEF SerialInv, InFlight, ApproveAllowed, ApproveCommit, ApproveSteps
  <2>2. /\ row'[c].status = "active" /\ rules'[c] = rules[c]
        /\ row'[c].submittedBy = row[c].submittedBy /\ row'[c].head = row[c].head
    BY <1>0, <1>2 DEF Lifecycle!ActivateAny, Row
  <2>3. QED
    BY <1>2, <2>0, <2>1, <2>2 DEF HashRead, Activated, Lifecycle!Step, Lifecycle!Activate
<1>3. ASSUME NEW w \in Workers, DeleteCommit(w), req[w].cfg = c, Lifecycle!RemoveAny(c)
      PROVE  /\ row'[c].status \in Activated =>
                  row'[c].approvedBy = row'[c].submittedBy /\ row'[c].hash = <<rules'[c], row'[c].head>>
             /\ row'[c].approvedBy # None <=> row'[c].status \in Activated
             /\ Lifecycle!Step(c)
  <2>1. row[c].status \in {"draft", "pending_approval"}
    BY <1>3 DEF SerialInv, InFlight, DeleteCommit
  <2>2. QED
    BY <1>0, <1>3, <2>1
    DEF Activated, Lifecycle!Step, Lifecycle!Remove, Lifecycle!RemoveAny, Lifecycle!Empty
<1>4. QED
  BY <1>0, <1>1, <1>2, <1>3 DEF Change

\* Two active configurations never meet on a proxy: only an approval makes a
\* configuration active, only an assignment adds a pair to an active one.
LEMMA OneActiveStep ==
    ASSUME TypeOK, KnownConfig, SerialInv, [Next]_vars PROVE OneActivePerProxy'
<1>0. /\ row \in [Configs -> Row]
      /\ assigned \subseteq Configs \X Proxies
      /\ req \in [Workers -> Request]
      /\ OneActivePerProxy
  BY DEF TypeOK, SerialInv
<1>1. ASSUME \A c \in Configs, p \in Proxies :
                 row'[c].status = "active" /\ <<c, p>> \in assigned'
                 => row[c].status = "active" /\ <<c, p>> \in assigned
      PROVE  OneActivePerProxy'
  BY <1>0, <1>1 DEF OneActivePerProxy
<1>2. ASSUME UNCHANGED assigned, \A w \in Workers : ~ApproveCommit(w)
      PROVE  OneActivePerProxy'
  <2>1. ASSUME NEW c \in Configs, row'[c].status = "active" PROVE row[c].status = "active"
    <3>1. row[c] \in Row /\ Change(c)
      BY <1>0, ChangeStep
    <3>2. CASE Lifecycle!Common(c)
      BY <2>1, <3>1, <3>2, CommonRecords
      DEF SerialInv, ApproverIsSubmitter, HashMatchesContent, ApprovalRecorded
    <3>3. CASE Lifecycle!RemoveAny(c)
      BY <2>1, <3>3 DEF Lifecycle!RemoveAny, Lifecycle!Empty
    <3>4. QED
      BY <1>2, <3>1, <3>2, <3>3 DEF Change
  <2>2. QED
    BY <1>1, <1>2, <2>1
<1>3. ASSUME NEW w \in Workers, NEW c \in Configs, NEW h \in Heads, NEW b \in Bodies,
             NEW ps \in SUBSET Proxies, Create(w, c, h, b, ps)
      PROVE  OneActivePerProxy'
  BY <1>0, <1>1, <1>3 DEF Create, Reassign, Empty
<1>4. ASSUME NEW w \in Workers, NEW h \in Heads, NEW b \in Bodies,
             NEW ps \in SUBSET Proxies, UpdateCommit(w, h, b, ps)
      PROVE  OneActivePerProxy'
  <2>1. req[w].cfg \in Configs /\ row'[req[w].cfg].status = "draft"
    BY <1>0, <1>4 DEF UpdateCommit, UpdateGuard, Request, Row
  <2>2. QED
    BY <1>0, <1>1, <1>4, <2>1 DEF UpdateCommit, Reassign
<1>5. ASSUME NEW w \in Workers, NEW d \in Configs, CloneCommit(w, d)
      PROVE  OneActivePerProxy'
  BY <1>0, <1>1, <1>5 DEF CloneCommit, Reassign, Empty
<1>6. ASSUME NEW w \in Workers, DeleteCommit(w)
      PROVE  OneActivePerProxy'
  BY <1>0, <1>1, <1>6 DEF DeleteCommit, Reassign, Empty
<1>7. ASSUME NEW w \in Workers, AssignDelete(w)
      PROVE  OneActivePerProxy'
  BY <1>0, <1>1, <1>7 DEF AssignDelete
<1>8. ASSUME NEW w \in Workers, AssignInsert(w)
      PROVE  OneActivePerProxy'
  <2>1. /\ assigned \cap (Configs \X {req[w].proxy}) = {}
        /\ assigned' \subseteq assigned \cup {<<req[w].cfg, req[w].proxy>>}
        /\ row' = row
    BY <1>8 DEF AssignInsert, SerialInv, InFlight
  <2>2. QED
    BY <1>0, <2>1 DEF OneActivePerProxy
<1>9. ASSUME NEW w \in Workers, ApproveCommit(w)
      PROVE  OneActivePerProxy'
  <2>1. /\ req[w].cfg \in Configs
        /\ OtherActive(req[w].cfg) = {}
        /\ \A d \in Configs \ {req[w].cfg} : row'[d] = row[d]
        /\ assigned' = assigned
    BY <1>0, <1>9 DEF ApproveCommit, SerialInv, InFlight, Request
  <2>2. QED
    BY <1>0, <2>1 DEF OneActivePerProxy, OtherActive, ProxiesOf
<1>10. QED
  BY <1>2, <1>3, <1>4, <1>5, <1>6, <1>7, <1>8, <1>9
  DEF Next, vars, UpdateCheck, Reject, DeleteCheck, CloneLoad, Submit, ApproveCheck, AssignCheck,
      UpdateRefused, ApproveReadRules, ApproveReadHead, ApproveDeactivate, ApproveRefused,
      CloneReadRules, Fail

\* A request that starts or goes on knows the truth, because the step it just
\* took read it and no other request is running.
LEMMA InFlightStep ==
    ASSUME OneRequest, TypeOK, SerialInv, [Next]_vars, NEW w \in Workers
    PROVE  InFlight(w)'
<1>0. /\ row \in [Configs -> Row]
      /\ assigned \subseteq Configs \X Proxies
      /\ req \in [Workers -> Request]
      /\ InFlight(w) /\ ApprovalRecorded
      /\ \A v \in Workers : v = w
  BY DEF TypeOK, SerialInv, OneRequest
<1>1. ASSUME req'[w] = Idle PROVE InFlight(w)'
  BY <1>1 DEF InFlight, Idle, ApproveSteps
<1>2. CASE Done(w)
  BY <1>0, <1>1, <1>2 DEF Done, Becomes
<1>3. ASSUME Free(w), UNCHANGED req PROVE InFlight(w)'
  BY <1>1, <1>3 DEF Free
<1>4. ASSUME NEW c \in Configs, UpdateCheck(w, c) \/ CloneLoad(w, c) PROVE InFlight(w)'
  <2>1. req'[w].at \in {"update", "clone_rules"}
    BY <1>0, <1>4 DEF UpdateCheck, CloneLoad, Becomes, Idle
  <2>2. QED
    BY <2>1 DEF InFlight, ApproveSteps
<1>5. ASSUME NEW c \in Configs, DeleteCheck(w, c) PROVE InFlight(w)'
  <2>1. /\ req'[w].at = "delete" /\ req'[w].cfg = c
        /\ row[c].status \in {"draft", "pending_approval"} /\ row' = row
    BY <1>0, <1>5
    DEF DeleteCheck, Deletable, Exists, Status, Becomes, Idle, ApprovalRecorded, Activated,
        SerialInv, HashMatchesContent, ApproverIsSubmitter
  <2>2. QED
    BY <2>1 DEF InFlight, ApproveSteps
<1>6. ASSUME NEW c \in Configs, NEW u \in Users, ApproveCheck(w, c, u) PROVE InFlight(w)'
  <2>1. /\ req'[w].at = "approve_rules" /\ req'[w].cfg = c /\ req'[w].user = u
        /\ ApproveAllowed(c, u) /\ row' = row
    BY <1>0, <1>6 DEF ApproveCheck, Becomes, Idle
  <2>2. QED
    BY <2>1 DEF InFlight, ApproveSteps, ApproveAllowed
<1>7. ASSUME NEW p \in Proxies, NEW c \in Configs \cup {None}, AssignCheck(w, p, c) PROVE InFlight(w)'
  BY <1>0, <1>7 DEF AssignCheck, Becomes, InFlight, Idle, ApproveSteps
<1>8. CASE ApproveReadRules(w)
  <2> DEFINE r == req[w]
  <2>1. /\ req'[w] = [r EXCEPT !.at = "approve_head", !.body = rules[r.cfg]]
        /\ ApproveAllowed(r.cfg, r.user) /\ row' = row /\ rules' = rules
    BY <1>0, <1>8 DEF ApproveReadRules, Becomes, InFlight, ApproveSteps
  <2>2. /\ req'[w].at = "approve_head" /\ req'[w].body = rules[r.cfg]
        /\ req'[w].cfg = r.cfg /\ req'[w].user = r.user
    BY <1>0, <2>1 DEF Request, Requests
  <2>3. QED
    BY <2>1, <2>2 DEF InFlight, ApproveAllowed
<1>9. CASE ApproveReadHead(w) /\ ~Done(w)
  <2> DEFINE r == req[w]
  <2>1. /\ req'[w] = [r EXCEPT !.at = "approve_deactivate", !.head = row[r.cfg].head]
        /\ ApproveAllowed(r.cfg, r.user) /\ r.body = rules[r.cfg]
        /\ row' = row /\ rules' = rules
    BY <1>0, <1>9 DEF ApproveReadHead, Becomes, InFlight, ApproveSteps
  <2>2. /\ req'[w].at = "approve_deactivate" /\ req'[w].head = row[r.cfg].head
        /\ req'[w].cfg = r.cfg /\ req'[w].user = r.user /\ req'[w].body = r.body
    BY <1>0, <2>1 DEF Request, Requests
  <2>3. QED
    BY <2>1, <2>2 DEF InFlight, ApproveAllowed
<1>10. CASE ApproveDeactivate(w)
  <2> DEFINE r == req[w]
             c == req[w].cfg
  <2>0. c \in Configs
    BY <1>0, <1>10 DEF ApproveDeactivate, Request
  <2>1. /\ req'[w] = [r EXCEPT !.at = "approve_commit"]
        /\ ApproveAllowed(c, r.user) /\ r.body = rules[c] /\ r.head = row[c].head
        /\ rules' = rules /\ assigned' = assigned /\ row'[c] = row[c]
    BY <1>0, <1>10, <2>0
    DEF ApproveDeactivate, Deactivated, OtherActive, Goto, Becomes, InFlight, ApproveSteps
  <2>2. /\ req'[w].at = "approve_commit" /\ req'[w].head = r.head
        /\ req'[w].cfg = c /\ req'[w].user = r.user /\ req'[w].body = r.body
    BY <1>0, <2>1 DEF Request, Requests
  <2>3. OtherActive(c)' = {}
    <3>1. ASSUME NEW d \in Configs \ {c}, row'[d].status = "active"
          PROVE  d \notin OtherActive(c) /\ row[d].status = "active"
      BY <1>0, <1>10, <3>1 DEF ApproveDeactivate, Deactivated, Row
    <3>2. QED
      BY <2>1, <3>1 DEF OtherActive, ProxiesOf
  <2>4. QED
    BY <2>1, <2>2, <2>3 DEF InFlight, ApproveAllowed
<1>11. CASE CloneReadRules(w)
  <2>1. req'[w].at = "clone_commit"
    BY <1>0, <1>11 DEF CloneReadRules, Becomes, Request, Requests
  <2>2. QED
    BY <2>1 DEF InFlight, ApproveSteps
<1>12. CASE AssignDelete(w) /\ ~Done(w)
  <2> DEFINE r == req[w]
  <2>1. /\ req'[w] = [r EXCEPT !.at = "assign_insert"] /\ row' = row
        /\ assigned' = assigned \ (Configs \X {r.proxy}) /\ r.cfg # None
    BY <1>0, <1>12 DEF AssignDelete, RemovedOld, Goto, Becomes
  <2>2. req'[w].at = "assign_insert" /\ req'[w].cfg = r.cfg /\ req'[w].proxy = r.proxy
    BY <1>0, <2>1 DEF Request, Requests
  <2>3. row[r.cfg].status = "active"
    BY <1>0, <1>12, <2>1 DEF AssignDelete, InFlight
  <2>4. QED
    BY <2>1, <2>2, <2>3 DEF InFlight, ApproveSteps
<1>13. CASE UNCHANGED vars
  BY <1>0, <1>13 DEF vars, InFlight, ApproveAllowed, OtherActive, ProxiesOf
<1>14. QED
  BY <1>0, <1>2, <1>3, <1>4, <1>5, <1>6, <1>7, <1>8, <1>9, <1>10, <1>11, <1>12, <1>13
  DEF Next, Create, UpdateCommit, Reject, CloneCommit, Submit, UpdateRefused, ApproveCommit,
      ApproveRefused, DeleteCommit, AssignInsert, Fail

\* Serialised, the handlers keep one active configuration per proxy, the
\* submitter as approver, and the stored hash equal to what is served.
THEOREM SerialCorrect == ASSUME OneRequest PROVE Spec => []SerialInv
<1>1. Init => SerialInv
  BY DEF Init, SerialInv, OneActivePerProxy, ApproverIsSubmitter, HashMatchesContent,
         ApprovalRecorded, InFlight, Activated, ApproveSteps, Empty, Idle
<1>2. TypeOK /\ KnownConfig /\ SerialInv /\ [Next]_vars => SerialInv'
  <2> SUFFICES ASSUME TypeOK, KnownConfig, SerialInv, [Next]_vars PROVE SerialInv'
    OBVIOUS
  <2>1. OneActivePerProxy'
    BY OneActiveStep
  <2>2. (ApproverIsSubmitter /\ HashMatchesContent /\ ApprovalRecorded)'
    BY RecordStep DEF ApproverIsSubmitter, HashMatchesContent, ApprovalRecorded
  <2>3. \A w \in Workers : InFlight(w)'
    BY OneRequest, InFlightStep
  <2>4. QED
    BY <2>1, <2>2, <2>3 DEF SerialInv
<1>3. QED
  BY <1>1, <1>2, TypeCorrect, KnownConfigCorrect, PTL DEF Spec

\* With serialised requests GetActiveForProxy has at most one row to choose from.
THEOREM OneActiveCorrect == ASSUME OneRequest PROVE Spec => []OneActivePerProxy
  BY OneRequest, SerialCorrect, PTL DEF SerialInv

\* With serialised requests the approver recorded is the submitter recorded.
THEOREM ApproverCorrect == ASSUME OneRequest PROVE Spec => []ApproverIsSubmitter
  BY OneRequest, SerialCorrect, PTL DEF SerialInv

\* With serialised requests the stored hash is that of what a proxy is sent.
THEOREM HashCorrect == ASSUME OneRequest PROVE Spec => []HashMatchesContent
  BY OneRequest, SerialCorrect, PTL DEF SerialInv

\* With serialised requests the handlers implement the lifecycle the service
\* states, of which the approver, hash and deletion checks are part.
THEOREM SerialRefinement == ASSUME OneRequest PROVE Spec => ImplementsLifecycle
<1>1. Init => Lifecycle!Init
  BY DEF Init, Lifecycle!Init, Empty, Lifecycle!Empty
<1>2. TypeOK /\ KnownConfig /\ SerialInv /\ [Next]_vars
      => [\A c \in Configs : Lifecycle!Step(c)]_<<row, rules>>
  BY RecordStep
<1>3. QED
  BY <1>1, <1>2, OneRequest, SerialCorrect, TypeCorrect, KnownConfigCorrect, PTL
  DEF Spec, ImplementsLifecycle, Lifecycle!Spec

\* With serialised requests the checks of Delete are enough: nothing that was
\* ever activated is deleted.
THEOREM DeleteCorrect == ASSUME OneRequest PROVE Spec => ActivatedNeverDeleted
<1>1. TypeOK /\ KnownConfig /\ SerialInv /\ [Next]_vars
      => [\A c \in Configs : row[c].status \in Activated => row'[c].status # "deleted"]_vars
  <2> SUFFICES ASSUME TypeOK, KnownConfig, SerialInv, [Next]_vars, NEW c \in Configs,
                      row[c].status \in Activated
               PROVE  row'[c].status # "deleted"
    OBVIOUS
  <2>1. row[c] \in Row /\ row[c].approvedBy # None /\ Lifecycle!Step(c)
    BY RecordStep DEF TypeOK, SerialInv, ApprovalRecorded
  <2>2. row'[c].status # "unused" /\ (row'[c].status = "deleted" => Lifecycle!Remove(c))
    BY <2>1
    DEF Row, Activated, Lifecycle!Step, Lifecycle!Common, Lifecycle!Create, Lifecycle!Edit, Lifecycle!Submit,
        Lifecycle!Reject, Lifecycle!Activate, Lifecycle!ActivateAny, Lifecycle!Supersede,
        Lifecycle!Remove, Lifecycle!RemoveAny, Lifecycle!Keep, Lifecycle!Empty
  <2>3. QED
    BY <2>1, <2>2 DEF Lifecycle!Remove
<1>2. QED
  BY <1>1, OneRequest, SerialCorrect, TypeCorrect, KnownConfigCorrect, PTL DEF Spec, ActivatedNeverDeleted

-----------------------------------------------------------------------------
(* Clones of activated configurations, under any interleaving *)

\* A clone in progress of an activated configuration: the original is still
\* activated, so it still has the head, and then the rules, that were read.
CloneInv(w) ==
    LET c == req[w].cfg IN
    req[w].at \in {"clone_rules", "clone_commit"} /\ req[w].seen \in Activated /\ Exists(c)
    => /\ row[c].status \in Activated
       /\ req[w].head = row[c].head
       /\ req[w].at = "clone_commit" => req[w].body = rules[c]

\* A clone of an activated configuration is an exact copy, whatever runs
\* between the reads of its tables.
THEOREM CloneCorrect == Spec => []CloneOfActivatedIsExact
<1> DEFINE Inv == \A w \in Workers : CloneInv(w)
<1>1. Init => Inv
  BY DEF Init, CloneInv, Idle
<1>2. TypeOK /\ KnownConfig /\ Inv /\ [Next]_vars => Inv'
  <2> SUFFICES ASSUME TypeOK, KnownConfig, Inv, [Next]_vars, NEW w \in Workers
               PROVE  CloneInv(w)'
    OBVIOUS
  <2>0. /\ row \in [Configs -> Row]
        /\ req \in [Workers -> Request]
        /\ CloneInv(w)
    BY DEF TypeOK
  <2>1. ASSUME req'[w] = req[w] PROVE CloneInv(w)'
    <3> DEFINE c == req[w].cfg
    <3> SUFFICES ASSUME req[w].at \in {"clone_rules", "clone_commit"},
                        req[w].seen \in Activated, row'[c].status \in Status
                 PROVE  /\ row'[c].status \in Activated
                        /\ req[w].head = row'[c].head
                        /\ req[w].at = "clone_commit" => req[w].body = rules'[c]
      BY <2>1 DEF CloneInv, Exists
    <3>1. c \in Configs
      BY <2>0 DEF Request
    <3>2. row[c].status # "unused" /\ Lifecycle!RacyStep(c)
      BY <3>1, RacyChange DEF KnownConfig
    <3>3. Exists(c)
      BY <3>2, <3>1, RacyStepFacts DEF Exists
    <3>4. row'[c].status # "deleted"
      BY DEF Status
    <3>5. row'[c].status \in Activated /\ rules'[c] = rules[c] /\ row'[c].head = row[c].head
      BY <2>0, <3>1, <3>2, <3>3, <3>4, RacyStepFacts DEF CloneInv, Activated
    <3>6. QED
      BY <2>0, <3>3, <3>5 DEF CloneInv
  <2>2. ASSUME req'[w].at \notin {"clone_rules", "clone_commit"} PROVE CloneInv(w)'
    BY <2>2 DEF CloneInv
  <2>3. ASSUME NEW c \in Configs, CloneLoad(w, c) PROVE CloneInv(w)'
    <3>1. /\ req'[w].at = "clone_rules" /\ req'[w].cfg = c
          /\ req'[w].seen = row[c].status /\ req'[w].head = row[c].head
          /\ row' = row
      BY <2>0, <2>3 DEF CloneLoad, Becomes, Idle
    <3>2. QED
      BY <3>1 DEF CloneInv, Exists
  <2>4. CASE CloneReadRules(w)
    <3>1. /\ req'[w].at = "clone_commit" /\ req'[w].cfg = req[w].cfg
          /\ req'[w].seen = req[w].seen /\ req'[w].head = req[w].head
          /\ req'[w].body = rules[req[w].cfg] /\ req[w].at = "clone_rules"
          /\ row' = row /\ rules' = rules
      BY <2>0, <2>4 DEF CloneReadRules, Becomes, Request, Requests
    <3>2. QED
      BY <2>0, <3>1 DEF CloneInv, Exists
  <2>5. ASSUME NEW v \in Workers, NEW r, Becomes(v, r), v # w PROVE req'[w] = req[w]
    BY <2>0, <2>5 DEF Becomes
  <2>6. ASSUME NEW r, Becomes(w, r), r.at \notin {"clone_rules", "clone_commit"} PROVE CloneInv(w)'
    BY <2>0, <2>2, <2>6 DEF Becomes
  <2>7. ASSUME NEW v \in Workers, Done(v) PROVE CloneInv(w)'
    BY <2>1, <2>5, <2>6, <2>7 DEF Done, Idle
  <2>8. ASSUME NEW v \in Workers, NEW c \in Configs, UpdateCheck(v, c) \/ DeleteCheck(v, c)
        PROVE  CloneInv(w)'
    BY <2>1, <2>5, <2>6, <2>8 DEF UpdateCheck, DeleteCheck, Idle
  <2>9. ASSUME NEW v \in Workers, NEW c \in Configs, NEW u \in Users, ApproveCheck(v, c, u)
        PROVE  CloneInv(w)'
    BY <2>1, <2>5, <2>6, <2>9 DEF ApproveCheck, Idle
  <2>10. ASSUME NEW v \in Workers, NEW p \in Proxies, NEW c \in Configs \cup {None}, AssignCheck(v, p, c)
         PROVE  CloneInv(w)'
    BY <2>1, <2>5, <2>6, <2>10 DEF AssignCheck, Idle
  <2>11. ASSUME NEW v \in Workers, NEW s \in ApproveSteps \cup {"assign_insert"}, Goto(v, s)
         PROVE  CloneInv(w)'
    <3>1. [req[v] EXCEPT !.at = s].at = s
      BY <2>0 DEF Request, Requests
    <3>2. QED
      BY <2>1, <2>5, <2>6, <2>11, <3>1 DEF Goto, ApproveSteps
  <2>12. ASSUME NEW v \in Workers, ApproveReadRules(v) \/ ApproveReadHead(v) PROVE CloneInv(w)'
    <3>1. ASSUME NEW b, NEW h
          PROVE  /\ [req[v] EXCEPT !.at = "approve_head", !.body = b].at = "approve_head"
                 /\ [req[v] EXCEPT !.at = "approve_deactivate", !.head = h].at = "approve_deactivate"
      BY <2>0 DEF Request, Requests
    <3>2. QED
      BY <2>1, <2>5, <2>6, <2>7, <2>12, <3>1 DEF ApproveReadRules, ApproveReadHead
  <2>13. ASSUME NEW v \in Workers, v # w, (\E c \in Configs : CloneLoad(v, c)) \/ CloneReadRules(v)
         PROVE  CloneInv(w)'
    BY <2>1, <2>5, <2>13 DEF CloneLoad, CloneReadRules
  <2>14. CASE UNCHANGED req
    BY <2>1, <2>14
  <2>15. QED
    BY <2>3, <2>4, <2>7, <2>8, <2>9, <2>10, <2>11, <2>12, <2>13, <2>14
    DEF Next, vars, Create, UpdateCommit, Reject, CloneCommit, Submit, UpdateRefused, ApproveCommit,
        ApproveRefused, ApproveDeactivate, DeleteCommit, AssignDelete, AssignInsert, Fail, ApproveSteps
<1>3. Inv => CloneOfActivatedIsExact
  BY DEF CloneInv, CloneOfActivatedIsExact
<1>4. QED
  BY <1>1, <1>2, <1>3, TypeCorrect, KnownConfigCorrect, PTL DEF Spec

-----------------------------------------------------------------------------
(* Which overlaps break which promise *)

\* What a step of the server does to the request of w, for the requests that
\* act on what they read earlier: approvals, removals and assignments.
Progress(w) ==
    LET old == req[w]  new == req'[w] IN
    \/ new = old
    \/ new.at \notin ApproveSteps \cup {"delete", "assign_insert"}
    \/ /\ UNCHANGED <<row, rules, assigned>>
       /\ new.cfg \in Configs
       /\ \/ new.at = "delete" /\ Exists(new.cfg) /\ Deletable(new.cfg)
          \/ new.at = "approve_rules" /\ ApproveAllowed(new.cfg, new.user)
    \/ /\ old.at \in ApproveSteps
       /\ new.cfg = old.cfg /\ new.user = old.user
       /\ \/ /\ UNCHANGED <<row, rules, assigned>>
             /\ new.at = "approve_head" /\ new.body = rules[old.cfg]
          \/ /\ UNCHANGED <<row, rules, assigned>>
             /\ new.at = "approve_deactivate" /\ old.at = "approve_head"
             /\ new.body = old.body /\ new.head = row[old.cfg].head
          \/ /\ ApproveDeactivate(w)
             /\ new.at = "approve_commit"
             /\ new.body = old.body /\ new.head = old.head
    \/ /\ AssignDelete(w)
       /\ new.at = "assign_insert" /\ new.proxy = old.proxy

\* Every step of the server is such a step for every request.
LEMMA RequestStep ==
    ASSUME TypeOK, [Next]_vars, NEW w \in Workers PROVE Progress(w)
<1> DEFINE Acting == ApproveSteps \cup {"delete", "assign_insert"}
<1>0. req \in [Workers -> Request]
  BY DEF TypeOK
<1>1. ASSUME req'[w] = req[w] PROVE Progress(w)
  BY <1>1 DEF Progress
<1>2. ASSUME req'[w].at \notin Acting PROVE Progress(w)
  BY <1>2 DEF Progress
<1>3. ASSUME NEW v \in Workers, NEW r, Becomes(v, r), v # w PROVE Progress(w)
  BY <1>0, <1>1, <1>3 DEF Becomes
<1>4. ASSUME NEW r, Becomes(w, r) PROVE req'[w] = r
  BY <1>0, <1>4 DEF Becomes
<1>5. ASSUME NEW v \in Workers, Done(v) PROVE Progress(w)
  <2>1. Idle.at \notin Acting
    BY DEF Idle, ApproveSteps
  <2>2. QED
    BY <1>2, <1>3, <1>4, <1>5, <2>1 DEF Done
<1>6. ASSUME NEW v \in Workers, NEW c \in Configs, UpdateCheck(v, c) \/ CloneLoad(v, c)
      PROVE  Progress(w)
  <2>1. CASE v = w
    <3>1. req'[w].at \in {"update", "clone_rules"}
      BY <1>4, <1>6, <2>1 DEF UpdateCheck, CloneLoad, Idle
    <3>2. QED
      BY <1>2, <3>1 DEF ApproveSteps
  <2>2. QED
    BY <1>3, <1>6, <2>1 DEF UpdateCheck, CloneLoad
<1>7. ASSUME NEW v \in Workers, NEW p \in Proxies, NEW c \in Configs \cup {None}, AssignCheck(v, p, c)
      PROVE  Progress(w)
  <2>1. CASE v = w
    <3>1. req'[w].at = "assign_delete"
      BY <1>4, <1>7, <2>1 DEF AssignCheck, Idle
    <3>2. QED
      BY <1>2, <3>1 DEF ApproveSteps
  <2>2. QED
    BY <1>3, <1>7, <2>1 DEF AssignCheck
<1>8. ASSUME NEW v \in Workers, NEW c \in Configs, DeleteCheck(v, c) PROVE Progress(w)
  <2>1. CASE v = w
    <3>1. req'[w].at = "delete" /\ req'[w].cfg = c
      BY <1>4, <1>8, <2>1 DEF DeleteCheck, Idle
    <3>2. QED
      BY <1>8, <3>1 DEF DeleteCheck, Progress
  <2>2. QED
    BY <1>3, <1>8, <2>1 DEF DeleteCheck
<1>9. ASSUME NEW v \in Workers, NEW c \in Configs, NEW u \in Users, ApproveCheck(v, c, u)
      PROVE  Progress(w)
  <2>1. CASE v = w
    <3>1. req'[w].at = "approve_rules" /\ req'[w].cfg = c /\ req'[w].user = u
      BY <1>4, <1>9, <2>1 DEF ApproveCheck, Idle
    <3>2. QED
      BY <1>9, <3>1 DEF ApproveCheck, Progress
  <2>2. QED
    BY <1>3, <1>9, <2>1 DEF ApproveCheck
<1>10. ASSUME NEW v \in Workers, CloneReadRules(v) PROVE Progress(w)
  <2>1. CASE v = w
    <3>1. req'[w].at = "clone_commit"
      BY <1>0, <1>4, <1>10, <2>1 DEF CloneReadRules, Request, Requests
    <3>2. QED
      BY <1>2, <3>1 DEF ApproveSteps
  <2>2. QED
    BY <1>3, <1>10, <2>1 DEF CloneReadRules
<1>11. ASSUME NEW v \in Workers, ApproveReadRules(v) PROVE Progress(w)
  <2>1. CASE v = w
    <3>1. /\ req'[w].at = "approve_head" /\ req'[w].body = rules[req[w].cfg]
          /\ req'[w].cfg = req[w].cfg /\ req'[w].user = req[w].user
      BY <1>0, <1>4, <1>11, <2>1 DEF ApproveReadRules, Request, Requests
    <3>2. QED
      BY <1>11, <2>1, <3>1 DEF ApproveReadRules, ApproveSteps, Progress
  <2>2. QED
    BY <1>3, <1>11, <2>1 DEF ApproveReadRules
<1>12. ASSUME NEW v \in Workers, ApproveReadHead(v), ~Done(v) PROVE Progress(w)
  <2>1. CASE v = w
    <3>1. /\ req'[w].at = "approve_deactivate" /\ req'[w].head = row[req[w].cfg].head
          /\ req'[w].cfg = req[w].cfg /\ req'[w].user = req[w].user /\ req'[w].body = req[w].body
      BY <1>0, <1>4, <1>12, <2>1 DEF ApproveReadHead, Request, Requests
    <3>2. QED
      BY <1>12, <2>1, <3>1 DEF ApproveReadHead, ApproveSteps, Progress
  <2>2. QED
    BY <1>3, <1>12, <2>1 DEF ApproveReadHead
<1>13. ASSUME NEW v \in Workers, ApproveDeactivate(v) PROVE Progress(w)
  <2>1. CASE v = w
    <3>1. /\ req'[w].at = "approve_commit" /\ req'[w].head = req[w].head
          /\ req'[w].cfg = req[w].cfg /\ req'[w].user = req[w].user /\ req'[w].body = req[w].body
          /\ req[w].at \in ApproveSteps
      BY <1>0, <1>4, <1>13, <2>1 DEF ApproveDeactivate, Goto, ApproveSteps, Request, Requests
    <3>2. QED
      BY <1>13, <2>1, <3>1 DEF Progress
  <2>2. QED
    BY <1>3, <1>13, <2>1 DEF ApproveDeactivate, Goto
<1>14. ASSUME NEW v \in Workers, AssignDelete(v), ~Done(v) PROVE Progress(w)
  <2>1. CASE v = w
    <3>1. req'[w].at = "assign_insert" /\ req'[w].proxy = req[w].proxy
      BY <1>0, <1>4, <1>14, <2>1 DEF AssignDelete, Goto, Request, Requests
    <3>2. QED
      BY <1>14, <2>1, <3>1 DEF Progress
  <2>2. QED
    BY <1>3, <1>14, <2>1 DEF AssignDelete, Goto
<1>15. CASE UNCHANGED req
  BY <1>1, <1>15
<1>16. QED
  BY <1>5, <1>6, <1>7, <1>8, <1>9, <1>10, <1>11, <1>12, <1>13, <1>14, <1>15
  DEF Next, vars, Create, UpdateCommit, Reject, CloneCommit, Submit, UpdateRefused, ApproveCommit,
      ApproveRefused, DeleteCommit, AssignInsert, Fail

\* The approver is on record exactly while the configuration is activated,
\* which is what Delete relies on.
THEOREM RecordedCorrect == Spec => []ApprovalRecorded
<1>1. Init => ApprovalRecorded
  BY DEF Init, ApprovalRecorded, Activated, Empty
<1>2. TypeOK /\ KnownConfig /\ ApprovalRecorded /\ [Next]_vars => ApprovalRecorded'
  <2> SUFFICES ASSUME TypeOK, KnownConfig, ApprovalRecorded, [Next]_vars, NEW c \in Configs
               PROVE  row'[c].approvedBy # None <=> row'[c].status \in Activated
    BY DEF ApprovalRecorded
  <2>0. /\ Lifecycle!RacyStep(c)
        /\ row[c] \in Row
        /\ row[c].approvedBy # None <=> row[c].status \in Activated
    BY RacyChange DEF TypeOK, ApprovalRecorded
  <2> USE <2>0 DEF Activated, Row
  <2>1. CASE Lifecycle!Create(c)
    BY <2>1 DEF Lifecycle!Create, Lifecycle!Empty
  <2>2. CASE Lifecycle!Edit(c)
    BY <2>2 DEF Lifecycle!Edit
  <2>3. CASE Lifecycle!Submit(c)
    BY <2>3 DEF Lifecycle!Submit
  <2>4. CASE Lifecycle!Reject(c)
    BY <2>4 DEF Lifecycle!Reject
  <2>5. CASE Lifecycle!ActivateAny(c)
    BY <2>5, NoneAssumption DEF Lifecycle!ActivateAny
  <2>6. CASE Lifecycle!Supersede(c)
    BY <2>6 DEF Lifecycle!Supersede
  <2>7. CASE Lifecycle!RemoveAny(c)
    BY <2>7 DEF Lifecycle!RemoveAny, Lifecycle!Empty
  <2>8. CASE Lifecycle!Keep(c)
    BY <2>8 DEF Lifecycle!Keep
  <2>9. QED
    BY <2>1, <2>2, <2>3, <2>4, <2>5, <2>6, <2>7, <2>8 DEF Lifecycle!RacyStep, Lifecycle!Common
<1>3. QED
  BY <1>1, <1>2, TypeCorrect, KnownConfigCorrect, PTL DEF Spec

\* No removal of a configuration is in flight together with an approval of it.
DeletesApart ==
    \A v, w \in Workers :
        req[v].at = "delete" /\ req[w].at \in ApproveSteps => req[v].cfg # req[w].cfg

\* A removal in flight is of a configuration that is not activated.
DeleteInv ==
    \A w \in Workers :
        req[w].at = "delete" => row[req[w].cfg].status \notin Activated \cup {"unused"}

\* What Delete read stays true until its statement, unless an approval of the
\* same configuration overlaps.
THEOREM DeleteInvCorrect == Spec /\ []DeletesApart => []DeleteInv
<1>1. Init => DeleteInv
  BY DEF Init, DeleteInv, Idle
<1>2. TypeOK /\ KnownConfig /\ ApprovalRecorded /\ DeletesApart /\ DeleteInv /\ [Next]_vars => DeleteInv'
  <2> SUFFICES ASSUME TypeOK, KnownConfig, ApprovalRecorded, DeletesApart, DeleteInv, [Next]_vars,
                      NEW w \in Workers, req'[w].at = "delete"
               PROVE  row'[req'[w].cfg].status \notin Activated \cup {"unused"}
    BY DEF DeleteInv
  <2>0. req[w] \in Request /\ Progress(w)
    BY RequestStep DEF TypeOK
  <2>1. CASE req'[w] = req[w]
    <3> DEFINE c == req[w].cfg
    <3>1. /\ c \in Configs /\ Change(c)
          /\ row[c].status \notin Activated \cup {"unused"}
          /\ row[c] \in Row
      BY <2>0, <2>1, ChangeStep DEF Request, DeleteInv, TypeOK
    <3>2. CASE \E v \in Workers : ApproveCommit(v) /\ req[v].cfg = c
      BY <2>1, <3>2 DEF ApproveCommit, DeletesApart, ApproveSteps
    <3>3. CASE Lifecycle!Common(c)
      BY <2>1, <3>1, <3>3
      DEF Activated, Row, Lifecycle!Common, Lifecycle!Create, Lifecycle!Edit, Lifecycle!Submit,
          Lifecycle!Reject, Lifecycle!Supersede, Lifecycle!Keep, Lifecycle!Empty
    <3>4. CASE Lifecycle!RemoveAny(c)
      BY <2>1, <3>1, <3>4 DEF Activated, Lifecycle!RemoveAny, Lifecycle!Empty
    <3>5. QED
      BY <3>1, <3>2, <3>3, <3>4 DEF Change
  <2>2. CASE /\ UNCHANGED row /\ req'[w].cfg \in Configs
             /\ Exists(req'[w].cfg) /\ Deletable(req'[w].cfg)
    BY <2>2 DEF Exists, Deletable, Status, Activated, ApprovalRecorded
  <2>3. QED
    BY <2>0, <2>1, <2>2 DEF Progress, ApproveSteps
<1>3. QED
  BY <1>1, <1>2, TypeCorrect, KnownConfigCorrect, RecordedCorrect, PTL DEF Spec

\* The only race that deletes an activated configuration is Delete against
\* Approve of the same one; whatever else overlaps, its checks are enough.
THEOREM DeleteRace == Spec /\ []DeletesApart => ActivatedNeverDeleted
<1>1. TypeOK /\ KnownConfig /\ DeleteInv /\ [Next]_vars
      => [\A c \in Configs : row[c].status \in Activated => row'[c].status # "deleted"]_vars
  <2> SUFFICES ASSUME TypeOK, KnownConfig, DeleteInv, [Next]_vars, NEW c \in Configs,
                      row[c].status \in Activated
               PROVE  row'[c].status # "deleted"
    OBVIOUS
  <2>1. row[c] \in Row /\ Change(c)
    BY ChangeStep DEF TypeOK
  <2>2. CASE Lifecycle!Common(c)
    BY <2>1, <2>2
    DEF Activated, Row, Lifecycle!Common, Lifecycle!Create, Lifecycle!Edit, Lifecycle!Submit,
        Lifecycle!Reject, Lifecycle!Supersede, Lifecycle!Keep, Lifecycle!Empty
  <2>3. CASE Lifecycle!ActivateAny(c)
    BY <2>1, <2>3 DEF Lifecycle!ActivateAny, Row
  <2>4. CASE \E w \in Workers : DeleteCommit(w) /\ req[w].cfg = c
    BY <2>4 DEF DeleteCommit, DeleteInv
  <2>5. QED
    BY <2>1, <2>2, <2>3, <2>4 DEF Change
<1>2. QED
  BY <1>1, DeleteInvCorrect, TypeCorrect, KnownConfigCorrect, PTL DEF Spec, ActivatedNeverDeleted

\* No step sends a configuration back to draft while a request approves it.
RejectsNothingApproved ==
    \A w \in Workers :
        LET c == req[w].cfg IN
        req[w].at \in ApproveSteps /\ row[c].status = "pending_approval"
        => row'[c].status # "draft"

NotRejected == [][RejectsNothingApproved]_vars

\* A request at an approval step: as long as the configuration is pending, it
\* was submitted by the user of the request, and what was read of it is true.
\* It is never a draft: it can have been activated, superseded or deleted.
ReviewInv ==
    /\ ApproverIsSubmitter
    /\ HashMatchesContent
    /\ \A w \in Workers :
          LET r == req[w]  c == req[w].cfg IN
          r.at \in ApproveSteps =>
             /\ row[c].status \notin {"unused", "draft"}
             /\ row[c].status = "pending_approval" =>
                   /\ row[c].submittedBy = r.user
                   /\ r.at # "approve_rules" => r.body = rules[c]
                   /\ r.at \notin {"approve_rules", "approve_head"} => r.head = row[c].head

\* What the state machine of a row makes of a configuration under approval
\* that is not rejected.
LEMMA UnderApproval ==
    ASSUME TypeOK, NEW c \in Configs, Lifecycle!RacyStep(c),
           row[c].status \notin {"unused", "draft"},
           row[c].status = "pending_approval" => row'[c].status # "draft"
    PROVE  /\ row'[c].status \notin {"unused", "draft"}
           /\ row'[c].status = "pending_approval" =>
                row[c].status = "pending_approval" /\ row'[c] = row[c] /\ rules'[c] = rules[c]
<1>0. row[c] \in Row
  BY DEF TypeOK
<1>1. CASE Lifecycle!Create(c) \/ Lifecycle!Edit(c) \/ Lifecycle!Submit(c)
  BY <1>1 DEF Lifecycle!Create, Lifecycle!Edit, Lifecycle!Submit
<1>2. CASE Lifecycle!Reject(c)
  BY <1>0, <1>2 DEF Lifecycle!Reject, Row
<1>3. CASE Lifecycle!ActivateAny(c)
  BY <1>0, <1>3 DEF Lifecycle!ActivateAny, Row
<1>4. CASE Lifecycle!Supersede(c)
  BY <1>0, <1>4 DEF Lifecycle!Supersede, Row
<1>5. CASE Lifecycle!RemoveAny(c)
  BY <1>5 DEF Lifecycle!RemoveAny, Lifecycle!Empty
<1>6. CASE Lifecycle!Keep(c)
  BY <1>6 DEF Lifecycle!Keep
<1>7. QED
  BY <1>1, <1>2, <1>3, <1>4, <1>5, <1>6 DEF Lifecycle!RacyStep, Lifecycle!Common

\* What an activated configuration records survives every step: the approval
\* that is committed is the submitter's, with the content that was read.
LEMMA ReviewedStep ==
    ASSUME TypeOK, KnownConfig, ApprovalRecorded, ReviewInv, [Next]_vars, NEW c \in Configs,
           row'[c].status \in Activated
    PROVE  row'[c].approvedBy = row'[c].submittedBy /\ row'[c].hash = <<rules'[c], row'[c].head>>
<1>0. /\ Change(c)
      /\ row[c] \in Row
      /\ row[c].status \in Activated =>
           row[c].approvedBy = row[c].submittedBy /\ row[c].hash = <<rules[c], row[c].head>>
      /\ row[c].approvedBy # None <=> row[c].status \in Activated
  BY ChangeStep DEF TypeOK, ReviewInv, ApproverIsSubmitter, HashMatchesContent, ApprovalRecorded
<1>1. CASE Lifecycle!Common(c)
  BY <1>0, <1>1, CommonRecords
<1>2. ASSUME NEW w \in Workers, ApproveCommit(w), req[w].cfg = c, Lifecycle!ActivateAny(c),
             row'[c].approvedBy = req[w].user, row'[c].hash = HashRead(w)
      PROVE  row'[c].approvedBy = row'[c].submittedBy /\ row'[c].hash = <<rules'[c], row'[c].head>>
  <2>1. /\ row[c].submittedBy = req[w].user
        /\ req[w].body = rules[c] /\ req[w].head = row[c].head
    BY <1>2 DEF ReviewInv, ApproveCommit, ApproveGuard, ApproveSteps
  <2>2. /\ rules'[c] = rules[c]
        /\ row'[c].submittedBy = row[c].submittedBy /\ row'[c].head = row[c].head
    BY <1>0, <1>2 DEF Lifecycle!ActivateAny, Row
  <2>3. QED
    BY <1>2, <2>1, <2>2 DEF HashRead
<1>3. CASE Lifecycle!RemoveAny(c)
  BY <1>3 DEF Lifecycle!RemoveAny, Lifecycle!Empty, Activated
<1>4. QED
  BY <1>0, <1>1, <1>2, <1>3 DEF Change

\* What Approve checked and read stays true until its commit, unless the
\* configuration is rejected meanwhile.
THEOREM ReviewCorrect == Spec /\ NotRejected => []ReviewInv
<1>1. Init => ReviewInv
  BY DEF Init, ReviewInv, ApproverIsSubmitter, HashMatchesContent, Activated, ApproveSteps, Empty, Idle
<1>2. TypeOK /\ KnownConfig /\ ApprovalRecorded /\ ReviewInv /\ [Next]_vars /\ [RejectsNothingApproved]_vars
      => ReviewInv'
  <2> SUFFICES ASSUME TypeOK, KnownConfig, ApprovalRecorded, ReviewInv,
                      [Next]_vars, [RejectsNothingApproved]_vars
               PROVE  ReviewInv'
    OBVIOUS
  <2>1. (ApproverIsSubmitter /\ HashMatchesContent)'
    BY ReviewedStep DEF ApproverIsSubmitter, HashMatchesContent
  <2>2. ASSUME NEW w \in Workers, req'[w].at \in ApproveSteps
        PROVE  LET r == req'[w]  c == req'[w].cfg IN
               /\ row'[c].status \notin {"unused", "draft"}
               /\ row'[c].status = "pending_approval" =>
                     /\ row'[c].submittedBy = r.user
                     /\ r.at # "approve_rules" => r.body = rules'[c]
                     /\ r.at \notin {"approve_rules", "approve_head"} => r.head = row'[c].head
    <3>0. req[w] \in Request /\ Progress(w)
      BY RequestStep DEF TypeOK
    <3>1. ASSUME req[w].at \in ApproveSteps
          PROVE  LET c == req[w].cfg IN
                 /\ row'[c].status \notin {"unused", "draft"}
                 /\ row'[c].status = "pending_approval" =>
                      row[c].status = "pending_approval" /\ row'[c] = row[c] /\ rules'[c] = rules[c]
      <4> DEFINE c == req[w].cfg
      <4>1. /\ c \in Configs /\ Lifecycle!RacyStep(c)
            /\ row[c].status \notin {"unused", "draft"}
        BY <3>0, <3>1, RacyChange DEF Request, ReviewInv, ApproveSteps
      <4>2. row[c].status = "pending_approval" => row'[c].status # "draft"
        BY <3>1 DEF RejectsNothingApproved, vars
      <4>3. QED
        BY <4>1, <4>2, UnderApproval
    <3>2. CASE req'[w] = req[w]
      BY <2>2, <3>1, <3>2 DEF ReviewInv
    <3>3. CASE /\ UNCHANGED row /\ req'[w].at = "approve_rules"
               /\ ApproveAllowed(req'[w].cfg, req'[w].user)
      BY <3>3 DEF ApproveAllowed
    <3>4. CASE /\ req[w].at \in ApproveSteps
               /\ req'[w].cfg = req[w].cfg /\ req'[w].user = req[w].user
               /\ UNCHANGED <<row, rules, assigned>>
               /\ req'[w].at = "approve_head" /\ req'[w].body = rules[req[w].cfg]
      BY <3>1, <3>4 DEF ReviewInv
    <3>5. CASE /\ req[w].at = "approve_head"
               /\ req'[w].cfg = req[w].cfg /\ req'[w].user = req[w].user
               /\ UNCHANGED <<row, rules, assigned>>
               /\ req'[w].body = req[w].body /\ req'[w].head = row[req[w].cfg].head
      BY <3>1, <3>5 DEF ReviewInv, ApproveSteps
    <3>6. CASE /\ req[w].at = "approve_deactivate"
               /\ req'[w].cfg = req[w].cfg /\ req'[w].user = req[w].user
               /\ req'[w].body = req[w].body /\ req'[w].head = req[w].head
      BY <3>1, <3>6 DEF ReviewInv, ApproveSteps
    <3>7. QED
      BY <2>2, <3>0, <3>2, <3>3, <3>4, <3>5, <3>6
      DEF Progress, ApproveSteps, ApproveDeactivate
  <2>3. QED
    BY <2>1, <2>2 DEF ReviewInv
<1>3. QED
  BY <1>1, <1>2, TypeCorrect, KnownConfigCorrect, RecordedCorrect, PTL DEF Spec, NotRejected

\* The only race that gives an activated configuration another approver than
\* its submitter, or another hash than that of what is served, is a Reject
\* during an Approve; whatever else overlaps, the approval is sound.
THEOREM RejectRace == Spec /\ NotRejected => []ApproverIsSubmitter /\ []HashMatchesContent
<1>1. ReviewInv => ApproverIsSubmitter /\ HashMatchesContent
  BY DEF ReviewInv
<1>2. QED
  BY <1>1, ReviewCorrect, PTL

\* Without these two races the handlers implement the lifecycle the service
\* states, with every other overlap of requests allowed: only the submitter
\* activates, with the hash of what is served, and what was ever activated
\* stays.
THEOREM StrictRefinement == Spec /\ NotRejected /\ []DeletesApart => ImplementsLifecycle
<1>1. Init => Lifecycle!Init
  BY DEF Init, Lifecycle!Init, Empty, Lifecycle!Empty
<1>2. TypeOK /\ KnownConfig /\ ApprovalRecorded /\ ReviewInv /\ DeleteInv /\ [Next]_vars
      => [\A c \in Configs : Lifecycle!Step(c)]_<<row, rules>>
  <2> SUFFICES ASSUME TypeOK, KnownConfig, ApprovalRecorded, ReviewInv, DeleteInv, [Next]_vars,
                      NEW c \in Configs
               PROVE  Lifecycle!Step(c)
    OBVIOUS
  <2>0. Change(c) /\ row[c] \in Row
    BY ChangeStep DEF TypeOK
  <2>1. CASE Lifecycle!Common(c)
    BY <2>1 DEF Lifecycle!Step
  <2>2. CASE Lifecycle!ActivateAny(c)
    <3>1. /\ row'[c].status = "active" /\ rules'[c] = rules[c]
          /\ row'[c].submittedBy = row[c].submittedBy /\ row'[c].head = row[c].head
      BY <2>0, <2>2 DEF Lifecycle!ActivateAny, Row
    <3>2. row'[c].approvedBy = row'[c].submittedBy /\ row'[c].hash = <<rules'[c], row'[c].head>>
      BY <3>1, ReviewedStep DEF Activated
    <3>3. QED
      BY <2>2, <3>1, <3>2 DEF Lifecycle!Step, Lifecycle!Activate
  <2>3. ASSUME NEW w \in Workers, DeleteCommit(w), req[w].cfg = c, Lifecycle!RemoveAny(c)
        PROVE  Lifecycle!Step(c)
    <3>1. row[c].approvedBy = None
      BY <2>3 DEF DeleteCommit, DeleteInv, ApprovalRecorded
    <3>2. QED
      BY <2>3, <3>1 DEF Lifecycle!Step, Lifecycle!Remove
  <2>4. QED
    BY <2>0, <2>1, <2>2, <2>3 DEF Change
<1>3. QED
  BY <1>1, <1>2, ReviewCorrect, DeleteInvCorrect, RecordedCorrect, TypeCorrect, KnownConfigCorrect, PTL
  DEF Spec, ImplementsLifecycle, Lifecycle!Spec

\* Approvals and assignments come one at a time: each reads which proxies are
\* taken and acts on it in a later statement.
Activating == ApproveSteps \cup {"assign_delete", "assign_insert"}

OneActivating ==
    \A v, w \in Workers : req[v].at \in Activating /\ req[w].at \in Activating => v = w

\* What approvals and assignments in flight know of the proxies: at its commit
\* an approval meets no other active configuration, at its insert an
\* assignment finds its proxy free.
ActivatingInv(w) ==
    LET r == req[w]  c == req[w].cfg IN
    /\ r.at \in ApproveSteps => row[c].status \in {"pending_approval", "deleted"}
    /\ r.at = "approve_commit" => OtherActive(c) = {}
    /\ r.at = "assign_insert" =>
         \A d \in Configs : row[d].status = "active" => <<d, r.proxy>> \notin assigned

OneActiveInv == OneActivePerProxy /\ \A w \in Workers : ActivatingInv(w)

\* Only the commit of an approval and the insert of an assignment give a proxy
\* to an active configuration; no other step gives one to a configuration
\* that is pending or deleted.
LEMMA ActiveShrinks ==
    ASSUME TypeOK, KnownConfig, [Next]_vars,
           \A v \in Workers : ~ApproveCommit(v) /\ ~AssignInsert(v),
           NEW c \in Configs, NEW p \in Proxies, <<c, p>> \in assigned'
    PROVE  /\ row'[c].status = "active" => row[c].status = "active" /\ <<c, p>> \in assigned
           /\ row[c].status \in {"pending_approval", "deleted"} => <<c, p>> \in assigned
<1>0. /\ row \in [Configs -> Row]
      /\ req \in [Workers -> Request]
  BY DEF TypeOK
<1>1. row'[c].status = "active" => row[c].status = "active"
  <2>1. row[c] \in Row /\ Change(c)
    BY <1>0, ChangeStep
  <2>2. CASE Lifecycle!Common(c)
    BY <2>1, <2>2
    DEF Row, Lifecycle!Common, Lifecycle!Create, Lifecycle!Edit, Lifecycle!Submit,
        Lifecycle!Reject, Lifecycle!Supersede, Lifecycle!Keep, Lifecycle!Empty
  <2>3. CASE Lifecycle!RemoveAny(c)
    BY <2>3 DEF Lifecycle!RemoveAny, Lifecycle!Empty
  <2>4. QED
    BY <2>1, <2>2, <2>3 DEF Change
<1>2. CASE <<c, p>> \in assigned
  BY <1>1, <1>2
<1>3. ASSUME NEW d \in Configs, NEW ps \in SUBSET Proxies, assigned' = Reassign(d, ps),
             <<c, p>> \notin assigned
      PROVE  c = d
  BY <1>3 DEF Reassign
<1>4. ASSUME NEW v \in Workers, NEW d \in Configs, NEW h \in Heads, NEW b \in Bodies,
             NEW ps \in SUBSET Proxies, Create(v, d, h, b, ps), <<c, p>> \notin assigned
      PROVE  row[c].status = "unused" /\ row'[c].status = "draft"
  BY <1>0, <1>3, <1>4 DEF Create, Empty
<1>5. ASSUME NEW v \in Workers, NEW h \in Heads, NEW b \in Bodies,
             NEW ps \in SUBSET Proxies, UpdateCommit(v, h, b, ps), <<c, p>> \notin assigned
      PROVE  row[c].status = "draft" /\ row'[c].status = "draft"
  <2>1. req[v].cfg \in Configs
    BY <1>0, <1>5 DEF UpdateCommit, Request
  <2>2. c = req[v].cfg
    BY <1>3, <1>5, <2>1 DEF UpdateCommit
  <2>3. QED
    BY <1>0, <1>5, <2>2 DEF UpdateCommit, UpdateGuard, Row
<1>6. ASSUME NEW v \in Workers, NEW d \in Configs, CloneCommit(v, d), <<c, p>> \notin assigned
      PROVE  row[c].status = "unused" /\ row'[c].status = "draft"
  <2>1. ProxiesOf(req[v].cfg) \in SUBSET Proxies
    BY DEF ProxiesOf
  <2>2. c = d
    BY <1>3, <1>6, <2>1 DEF CloneCommit
  <2>3. QED
    BY <1>0, <1>6, <2>2 DEF CloneCommit, Empty
<1>7. ASSUME NEW v \in Workers, DeleteCommit(v) PROVE <<c, p>> \in assigned
  BY <1>7 DEF DeleteCommit, Reassign
<1>8. ASSUME NEW v \in Workers, AssignDelete(v) PROVE <<c, p>> \in assigned
  BY <1>8 DEF AssignDelete
<1>9. ASSUME assigned' = assigned PROVE <<c, p>> \in assigned
  BY <1>9
<1>10. QED
  BY <1>1, <1>2, <1>4, <1>5, <1>6, <1>7, <1>8, <1>9
  DEF Next, vars, UpdateCheck, Reject, DeleteCheck, CloneLoad, Submit, ApproveCheck, AssignCheck,
      UpdateRefused, ApproveReadRules, ApproveReadHead, ApproveDeactivate, ApproveRefused,
      CloneReadRules, Fail

\* An approval in flight is of a pending configuration, until it is deleted.
LEMMA PendingStep ==
    ASSUME TypeOK, KnownConfig, OneActivating, OneActiveInv, [Next]_vars, [RejectsNothingApproved]_vars,
           NEW w \in Workers, req[w].at \in ApproveSteps, \A v \in Workers : ~ApproveCommit(v)
    PROVE  /\ row'[req[w].cfg].status \in {"pending_approval", "deleted"}
           /\ row[req[w].cfg].status \in {"pending_approval", "deleted"}
<1> DEFINE c == req[w].cfg
<1>1. /\ c \in Configs /\ Change(c) /\ row[c] \in Row
      /\ row[c].status \in {"pending_approval", "deleted"}
  BY ChangeStep DEF TypeOK, Request, ApproveSteps, OneActiveInv, ActivatingInv
<1>2. row[c].status = "pending_approval" => row'[c].status # "draft"
  BY DEF RejectsNothingApproved, vars
<1>3. CASE Lifecycle!Common(c)
  BY <1>1, <1>2, <1>3
  DEF Row, Lifecycle!Common, Lifecycle!Create, Lifecycle!Edit, Lifecycle!Submit,
      Lifecycle!Reject, Lifecycle!Supersede, Lifecycle!Keep, Lifecycle!Empty
<1>4. CASE Lifecycle!RemoveAny(c)
  BY <1>1, <1>4 DEF Lifecycle!RemoveAny, Lifecycle!Empty
<1>5. QED
  BY <1>1, <1>3, <1>4 DEF Change

\* What an approval and an assignment in flight know stays true when nothing
\* else approves or assigns.
LEMMA ActivatingStep ==
    ASSUME TypeOK, KnownConfig, OneActivating, OneActiveInv, [Next]_vars, [RejectsNothingApproved]_vars,
           NEW w \in Workers, req'[w].at \in ApproveSteps \cup {"assign_insert"}
    PROVE  ActivatingInv(w)'
<1>0. /\ row \in [Configs -> Row]
      /\ assigned \subseteq Configs \X Proxies
      /\ req \in [Workers -> Request]
      /\ Progress(w)
  BY RequestStep DEF TypeOK
<1>1. CASE req'[w] = req[w]
  <2> DEFINE r == req[w]
             c == req[w].cfg
  <2>1. ASSUME NEW v \in Workers, ApproveCommit(v) \/ AssignInsert(v) PROVE FALSE
    <3>1. v = w
      BY <1>1, <2>1 DEF OneActivating, Activating, ApproveSteps, ApproveCommit, AssignInsert
    <3>2. req'[w] = Idle
      BY <1>0, <2>1, <3>1 DEF ApproveCommit, AssignInsert, Done, Becomes
    <3>3. QED
      BY <3>2 DEF Idle, ApproveSteps
  <2>2. r.at \in ApproveSteps =>
          /\ row'[c].status \in {"pending_approval", "deleted"}
          /\ row[c].status \in {"pending_approval", "deleted"}
    BY <2>1, PendingStep
  <2>3. ASSUME r.at = "approve_commit", NEW d \in Configs \ {c}, NEW p \in Proxies,
               row'[d].status = "active", <<d, p>> \in assigned', <<c, p>> \in assigned'
        PROVE  FALSE
    <3>1. c \in Configs /\ row[c].status \in {"pending_approval", "deleted"}
      BY <1>0, <2>2, <2>3 DEF Request, ApproveSteps
    <3>2. row[d].status = "active" /\ <<d, p>> \in assigned
      BY <2>1, <2>3, ActiveShrinks
    <3>3. <<c, p>> \in assigned
      BY <2>1, <2>3, <3>1, ActiveShrinks
    <3>4. d \in OtherActive(c)
      BY <2>3, <3>2, <3>3 DEF OtherActive, ProxiesOf
    <3>5. QED
      BY <2>3, <3>4 DEF OneActiveInv, ActivatingInv
  <2>4. ASSUME r.at = "assign_insert", NEW d \in Configs,
               row'[d].status = "active", <<d, r.proxy>> \in assigned'
        PROVE  FALSE
    <3>1. r.proxy \in Proxies
      BY <1>0, <2>4 DEF Request
    <3>2. row[d].status = "active" /\ <<d, r.proxy>> \in assigned
      BY <2>1, <2>4, <3>1, ActiveShrinks
    <3>3. QED
      BY <2>4, <3>2 DEF OneActiveInv, ActivatingInv
  <2>5. QED
    BY <1>1, <2>2, <2>3, <2>4 DEF ActivatingInv, OtherActive, ProxiesOf
<1>2. CASE /\ UNCHANGED <<row, rules, assigned>>
           /\ req'[w].at = "approve_rules"
           /\ ApproveAllowed(req'[w].cfg, req'[w].user)
  BY <1>2 DEF ApproveAllowed, ActivatingInv, ApproveSteps
<1>3. CASE /\ UNCHANGED <<row, rules, assigned>>
           /\ req[w].at \in ApproveSteps /\ req'[w].cfg = req[w].cfg
           /\ req'[w].at \in {"approve_head", "approve_deactivate"}
  BY <1>3 DEF OneActiveInv, ActivatingInv
<1>4. CASE /\ ApproveDeactivate(w) /\ req'[w].at = "approve_commit"
           /\ req'[w].cfg = req[w].cfg
  <2> DEFINE c == req[w].cfg
  <2>1. /\ c \in Configs /\ row'[c] = row[c] /\ assigned' = assigned
        /\ row[c].status \in {"pending_approval", "deleted"}
    BY <1>0, <1>4
    DEF ApproveDeactivate, Deactivated, OtherActive, Request, ApproveSteps, OneActiveInv, ActivatingInv
  <2>2. ASSUME NEW d \in Configs \ {c}, row'[d].status = "active"
        PROVE  d \notin OtherActive(c) /\ row[d].status = "active"
    BY <1>0, <1>4, <2>2 DEF ApproveDeactivate, Deactivated, Row
  <2>3. ASSUME NEW d \in Configs \ {c}, NEW p \in Proxies,
               row'[d].status = "active", <<d, p>> \in assigned', <<c, p>> \in assigned'
        PROVE  FALSE
    BY <2>1, <2>2, <2>3 DEF OtherActive, ProxiesOf
  <2>4. QED
    BY <1>4, <2>1, <2>3 DEF ActivatingInv, OtherActive, ProxiesOf
<1>5. CASE /\ AssignDelete(w) /\ req'[w].at = "assign_insert"
           /\ req'[w].proxy = req[w].proxy
  BY <1>5 DEF AssignDelete, RemovedOld, ApproveSteps, ActivatingInv
<1>6. QED
  BY <1>0, <1>1, <1>2, <1>3, <1>4, <1>5 DEF Progress, ApproveSteps

\* One active configuration per proxy, after any step.
LEMMA OneActiveKept ==
    ASSUME TypeOK, KnownConfig, OneActiveInv, [Next]_vars PROVE OneActivePerProxy'
<1>0. /\ row \in [Configs -> Row]
      /\ assigned \subseteq Configs \X Proxies
      /\ req \in [Workers -> Request]
      /\ OneActivePerProxy
  BY DEF TypeOK, OneActiveInv
<1>1. ASSUME NEW w \in Workers, AssignInsert(w) PROVE OneActivePerProxy'
  <2>1. /\ \A d \in Configs : row[d].status = "active" => <<d, req[w].proxy>> \notin assigned
        /\ assigned' \subseteq assigned \cup {<<req[w].cfg, req[w].proxy>>}
        /\ row' = row
    BY <1>1 DEF AssignInsert, OneActiveInv, ActivatingInv
  <2>2. QED
    BY <1>0, <2>1 DEF OneActivePerProxy
<1>2. ASSUME NEW w \in Workers, ApproveCommit(w) PROVE OneActivePerProxy'
  <2>1. /\ req[w].cfg \in Configs
        /\ OtherActive(req[w].cfg) = {}
        /\ \A d \in Configs \ {req[w].cfg} : row'[d] = row[d]
        /\ assigned' = assigned
    BY <1>0, <1>2 DEF ApproveCommit, OneActiveInv, ActivatingInv, Request
  <2>2. QED
    BY <1>0, <2>1 DEF OneActivePerProxy, OtherActive, ProxiesOf
<1>3. CASE \A v \in Workers : ~ApproveCommit(v) /\ ~AssignInsert(v)
  BY <1>0, <1>3, ActiveShrinks DEF OneActivePerProxy
<1>4. QED
  BY <1>1, <1>2, <1>3

\* When approvals and assignments come one at a time, and nothing is rejected
\* while it is approved, a proxy has at most one active configuration,
\* although creations, updates, clones, submissions, removals and failures
\* interleave with them freely.
THEOREM ActivationRace == Spec /\ NotRejected /\ []OneActivating => []OneActivePerProxy
<1>1. Init => OneActiveInv
  BY DEF Init, OneActiveInv, ActivatingInv, OneActivePerProxy, ApproveSteps, Empty, Idle
<1>2. TypeOK /\ KnownConfig /\ OneActivating /\ OneActiveInv /\ [Next]_vars /\ [RejectsNothingApproved]_vars
      => OneActiveInv'
  <2> SUFFICES ASSUME TypeOK, KnownConfig, OneActivating, OneActiveInv,
                      [Next]_vars, [RejectsNothingApproved]_vars
               PROVE  OneActiveInv'
    OBVIOUS
  <2>1. OneActivePerProxy'
    BY OneActiveKept
  <2>2. ASSUME NEW w \in Workers
        PROVE  ActivatingInv(w)'
    <3>1. CASE req'[w].at \in ApproveSteps \cup {"assign_insert"}
      BY <3>1, ActivatingStep
    <3>2. CASE req'[w].at \notin ApproveSteps \cup {"assign_insert"}
      BY <3>2 DEF ActivatingInv, ApproveSteps
    <3>3. QED
      BY <3>1, <3>2
  <2>3. QED
    BY <2>1, <2>2 DEF OneActiveInv
<1>3. OneActiveInv => OneActivePerProxy
  BY DEF OneActiveInv
<1>4. QED
  BY <1>1, <1>2, <1>3, TypeCorrect, KnownConfigCorrect, PTL DEF Spec, NotRejected

\* Serialised requests overlap in none of these ways, so what is promised of
\* them above is a special case.
THEOREM SerialIsApart == ASSUME OneRequest PROVE Spec => NotRejected /\ []OneActivating /\ []DeletesApart
<1>1. TypeOK /\ [Next]_vars => [RejectsNothingApproved]_vars
  <2> SUFFICES ASSUME TypeOK, [Next]_vars, NEW w \in Workers, req[w].at \in ApproveSteps,
                      row[req[w].cfg].status = "pending_approval"
               PROVE  row'[req[w].cfg].status # "draft"
    BY DEF RejectsNothingApproved
  <2>0. /\ row \in [Configs -> Row] /\ req[w] \in Request /\ req[w].cfg \in Configs
        /\ \A v \in Workers : v = w /\ req[v].at \in ApproveSteps
    BY OneRequest DEF TypeOK, Request, ApproveSteps, OneRequest
  <2>1. ASSUME NEW v \in Workers, ApproveDeactivate(v) PROVE row'[req[w].cfg].status # "draft"
    BY <2>0, <2>1 DEF ApproveDeactivate, Row
  <2>2. ASSUME NEW v \in Workers, ApproveCommit(v) PROVE row'[req[w].cfg].status # "draft"
    BY <2>0, <2>2 DEF ApproveCommit, Row
  <2>3. ASSUME NEW v \in Workers, Free(v) PROVE FALSE
    BY <2>0, <2>3 DEF Free, Idle, ApproveSteps
  <2>4. CASE row' = row
    BY <2>4
  <2>5. ASSUME NEW v \in Workers, req[v].at \in {"update", "delete", "clone_commit"} PROVE FALSE
    BY <2>0, <2>5 DEF ApproveSteps
  <2>6. QED
    BY <2>1, <2>2, <2>3, <2>4, <2>5
    DEF Next, vars, Create, UpdateCommit, UpdateCheck, Reject, DeleteCheck, CloneLoad, CloneCommit,
        Submit, ApproveCheck, AssignCheck, UpdateRefused, ApproveReadRules, ApproveReadHead,
        ApproveRefused, DeleteCommit, CloneReadRules, AssignDelete, AssignInsert, Fail
<1>2. OneActivating /\ DeletesApart
  BY OneRequest DEF OneRequest, OneActivating, DeletesApart, ApproveSteps
<1>3. QED
  BY <1>1, <1>2, TypeCorrect, PTL DEF Spec, NotRejected

=============================================================================
