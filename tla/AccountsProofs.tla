--------------------------- MODULE AccountsProofs ---------------------------
(***************************************************************************)
(* Proofs about Accounts, for any number of users and of concurrent        *)
(* requests, and any life of a token.                                      *)
(***************************************************************************)
EXTENDS Accounts, TLAPS

\* The steps of the table, one at a time.
LEMMA NextCases ==
  ASSUME [Next]_vars
  PROVE  \/ \E u \in Users : Login(u) \/ Refresh(u) \/ SessionEnds(u)
         \/ \E c \in Users, cr \in Roles, u \in Users, r \in Roles :
               Caller(c, cr) /\ Create(cr, u, r)
         \/ \E c \in Users, cr \in Roles, u \in Users, w \in Workers, want \in Roles \cup {None} :
               Caller(c, cr) /\ UpdateRead(w, cr, u, want)
         \/ \E c \in Users, cr \in Roles, u \in Users : Caller(c, cr) /\ Delete(c, cr, u)
         \/ \E w \in Workers : UpdateWrite(w) \/ UpdateFail(w)
         \/ Tick
         \/ UNCHANGED vars
  BY DEF Next

LEMMA PendingFacts ==
  ASSUME TypeOK, NEW w \in Workers, req[w] # None
  PROVE  /\ req[w] \in Pending
         /\ req[w].user \in Users
         /\ req[w].role \in Roles
         /\ req[w].asked \in BOOLEAN
  BY DEF TypeOK, Pending

\* What an Update has read and will write.
LEMMA ReadFacts ==
  ASSUME TypeOK, NEW w \in Workers, NEW cr \in Roles, NEW u \in Users, NEW want \in Roles \cup {None},
         UpdateRead(w, cr, u, want)
  PROVE  /\ req'[w] # None
         /\ req'[w] \in Pending
         /\ req'[w].user = u
         /\ req'[w].role = IF want = None THEN role[u] ELSE want
         /\ req'[w].asked <=> want # None
         /\ \A x \in Workers \ {w} : req'[x] = req[x]
         /\ UNCHANGED <<status, role, logged, ttl, since, grant>>
<1> DEFINE p == [user |-> u, role |-> IF want = None THEN role[u] ELSE want, asked |-> want # None]
<1>1. p \in Pending
  BY DEF TypeOK, Pending
<1>2. p # None
  BY <1>1, NoneAssumption DEF Pending
<1>3. req' = [req EXCEPT ![w] = p]
  BY DEF UpdateRead, Kept
<1>4. req'[w] = p /\ \A x \in Workers \ {w} : req'[x] = req[x]
  BY <1>3 DEF TypeOK
<1>5. UNCHANGED <<status, role, logged, ttl, since, grant>>
  BY DEF UpdateRead
<1>6. /\ p.user = u
      /\ p.role = IF want = None THEN role[u] ELSE want
      /\ p.asked <=> want # None
  OBVIOUS
<1> HIDE DEF p
<1> QED
  BY <1>1, <1>2, <1>4, <1>5, <1>6

\* What an Update writes.
LEMMA WriteFacts ==
  ASSUME TypeOK, NEW w \in Workers, UpdateWrite(w)
  PROVE  /\ role'[req[w].user] = req[w].role
         /\ \A u \in Users \ {req[w].user} : role'[u] = role[u] /\ since'[u] = since[u] /\ grant'[u] = grant[u]
         /\ since'[req[w].user] = IF req[w].role = role[req[w].user] THEN since[req[w].user] ELSE 0
         /\ grant'[req[w].user] = IF req[w].asked THEN req[w].role ELSE grant[req[w].user]
         /\ role' \in [Users -> Roles] /\ since' \in [Users -> 0..Life] /\ grant' \in [Users -> Roles]
         /\ req'[w] = None
         /\ \A x \in Workers \ {w} : req'[x] = req[x]
         /\ req' \in [Workers -> Pending \cup {None}]
         /\ UNCHANGED <<status, logged, ttl, overlapped>>
<1>1. req[w].user \in Users /\ req[w].role \in Roles
  BY PendingFacts DEF UpdateWrite
<1> QED
  BY <1>1, LifeAssumption DEF UpdateWrite, TypeOK

LEMMA TypeStep == TypeOK /\ [Next]_vars => TypeOK'
<1> SUFFICES ASSUME TypeOK, [Next]_vars PROVE TypeOK'
  OBVIOUS
<1> USE LifeAssumption
<1>1. ASSUME NEW u \in Users, Login(u) PROVE TypeOK'
  BY <1>1 DEF Login, LoginAllowed, Issued, TypeOK
<1>2. ASSUME NEW u \in Users, Refresh(u) PROVE TypeOK'
  BY <1>2 DEF Refresh, Issued, TypeOK
<1>10. ASSUME NEW u \in Users, SessionEnds(u) PROVE TypeOK'
  BY <1>10 DEF SessionEnds, TypeOK
<1>3. ASSUME NEW cr \in Roles, NEW u \in Users, NEW r \in Roles, Create(cr, u, r) PROVE TypeOK'
  BY <1>3 DEF Create, TypeOK
<1>4. ASSUME NEW cr \in Roles, NEW u \in Users, NEW w \in Workers, NEW want \in Roles \cup {None},
             UpdateRead(w, cr, u, want)
      PROVE  TypeOK'
  <2>1. req' \in [Workers -> Pending \cup {None}]
    <3>1. req' = [req EXCEPT ![w] = req'[w]]
      BY <1>4 DEF UpdateRead, TypeOK
    <3> QED
      BY <1>4, <3>1, ReadFacts DEF TypeOK
  <2>2. overlapped' \subseteq Users
    BY <1>4 DEF UpdateRead, TypeOK
  <2> QED
    BY <1>4, <2>1, <2>2, ReadFacts DEF TypeOK
<1>5. ASSUME NEW c \in Users, NEW cr \in Roles, NEW u \in Users, Delete(c, cr, u) PROVE TypeOK'
  BY <1>5 DEF Delete, TypeOK
<1>6. ASSUME NEW w \in Workers, UpdateWrite(w) PROVE TypeOK'
  BY <1>6, WriteFacts DEF TypeOK
<1>7. ASSUME NEW w \in Workers, UpdateFail(w) PROVE TypeOK'
  BY <1>7 DEF UpdateFail, TypeOK
<1>8. CASE Tick
  <2>1. \A n \in 0..Life : Less(n) \in 0..Life /\ (n = 0 => Less(n) = 0)
    BY DEF Less
  <2>2. ttl' \in [Users -> [Roles -> 0..Life]]
    BY <1>8, <2>1 DEF Tick, TypeOK
  <2>3. \A u \in Users, r \in Roles : ttl[u][r] = 0 => ttl'[u][r] = 0
    BY <1>8, <2>1 DEF Tick, TypeOK
  <2>4. since' \in [Users -> 0..Life]
    BY <1>8 DEF Tick, TypeOK
  <2> QED
    BY <1>8, <2>2, <2>3, <2>4 DEF Tick, TypeOK
<1>9. CASE UNCHANGED vars
  BY <1>9 DEF vars, TypeOK
<1> QED
  BY NextCases, <1>1, <1>2, <1>3, <1>4, <1>5, <1>6, <1>7, <1>8, <1>9, <1>10

\* Every reachable state of the table is well typed.
THEOREM TypeCorrect == Spec => []TypeOK
<1>1. Init => TypeOK
  BY RootAssumption, LifeAssumption DEF Init, TypeOK, Roles
<1> QED
  BY <1>1, TypeStep, PTL DEF Spec

-----------------------------------------------------------------------------
(* What tokens claim *)

LEMMA ClaimStep == TypeOK /\ RoleCatchesUp /\ [Next]_vars => RoleCatchesUp'
<1> SUFFICES ASSUME TypeOK, RoleCatchesUp, [Next]_vars, NEW v \in Users, NEW q \in Roles,
                    ttl'[v][q] > 0, q # role'[v]
             PROVE  ttl'[v][q] + since'[v] <= Life
  BY DEF RoleCatchesUp
<1> USE LifeAssumption DEF TypeOK, RoleCatchesUp
<1> DEFINE Goal == ttl'[v][q] + since'[v] <= Life
<1>1. ASSUME NEW u \in Users, Login(u) \/ Refresh(u) PROVE Goal
  <2>1. ttl'[v][q] = IF u = v /\ q = role[u] THEN Life ELSE ttl[v][q]
    BY <1>1 DEF Login, Refresh, Issued
  <2> QED
    BY <1>1, <2>1 DEF Login, Refresh
<1>2. ASSUME NEW u \in Users, SessionEnds(u) PROVE Goal
  BY <1>2 DEF SessionEnds
<1>3. ASSUME NEW cr \in Roles, NEW u \in Users, NEW r \in Roles, Create(cr, u, r) PROVE Goal
  BY <1>3 DEF Create
<1>4. ASSUME NEW cr \in Roles, NEW u \in Users, NEW w \in Workers, NEW want \in Roles \cup {None},
             UpdateRead(w, cr, u, want)
      PROVE  Goal
  BY <1>4, ReadFacts
<1>5. ASSUME NEW c \in Users, NEW cr \in Roles, NEW u \in Users, Delete(c, cr, u) PROVE Goal
  BY <1>5 DEF Delete
<1>6. ASSUME NEW w \in Workers, UpdateWrite(w) PROVE Goal
  <2>1. ttl'[v][q] = ttl[v][q] /\ ttl[v][q] <= Life
    BY <1>6, WriteFacts
  <2>2. CASE v = req[w].user
    BY <1>6, <2>1, <2>2, WriteFacts
  <2>3. CASE v # req[w].user
    BY <1>6, <2>1, <2>3, WriteFacts
  <2> QED
    BY <2>2, <2>3
<1>7. ASSUME NEW w \in Workers, UpdateFail(w) PROVE Goal
  BY <1>7 DEF UpdateFail
<1>8. CASE Tick
  <2>1. ttl'[v][q] = Less(ttl[v][q]) /\ since'[v] <= since[v] + 1 /\ role' = role
    BY <1>8 DEF Tick
  <2>2. ttl'[v][q] = ttl[v][q] - 1
    BY <2>1 DEF Less
  <2>3. ttl[v][q] + since[v] <= Life /\ since'[v] \in Int
    BY <1>8, <2>1, <2>2 DEF Tick
  <2> QED
    BY <2>1, <2>2, <2>3
<1>9. CASE UNCHANGED vars
  BY <1>9 DEF vars
<1> QED
  BY NextCases, <1>1, <1>2, <1>3, <1>4, <1>5, <1>6, <1>7, <1>8, <1>9

\* A role taken from a user is claimed no longer than TokenExpiry.
THEOREM ClaimCorrect == Spec => []RoleCatchesUp
<1>1. Init => RoleCatchesUp
  BY DEF Init, RoleCatchesUp
<1> QED
  BY <1>1, ClaimStep, TypeCorrect, PTL DEF Spec

-----------------------------------------------------------------------------
(* The user of the first migration *)

LEMMA RootStep == TypeOK /\ RootInv /\ [Next]_vars => RootInv'
<1> SUFFICES ASSUME TypeOK, RootInv, [Next]_vars PROVE RootInv'
  OBVIOUS
<1> USE RootAssumption DEF RootInv, OnlySeedIsRoot, RootUnlessAsked
<1>1. ASSUME NEW u \in Users, Login(u) \/ Refresh(u) PROVE RootInv'
  <2>1. \A v \in Users : ttl'[v]["root"] = ttl[v]["root"] \/ (v = u /\ role[u] = "root")
    BY <1>1 DEF Login, Refresh, Issued, TypeOK, Roles
  <2> QED
    BY <1>1, <2>1 DEF Login, Refresh
<1>2. ASSUME NEW u \in Users, SessionEnds(u) PROVE RootInv'
  BY <1>2 DEF SessionEnds
<1>3. ASSUME NEW cr \in Roles, NEW u \in Users, NEW r \in Roles, Create(cr, u, r) PROVE RootInv'
  <2>1. u # Root /\ r # "root"
    BY <1>3 DEF Create, CanCreate
  <2> QED
    BY <1>3, <2>1 DEF Create, TypeOK
<1>4. ASSUME NEW cr \in Roles, NEW u \in Users, NEW w \in Workers, NEW want \in Roles \cup {None},
             UpdateRead(w, cr, u, want)
      PROVE  RootInv'
  <2>1. want # "root"
    BY <1>4, NoneAssumption DEF UpdateRead, CanCreate, Roles
  <2> QED
    BY <1>4, <2>1, ReadFacts
<1>5. ASSUME NEW c \in Users, NEW cr \in Roles, NEW u \in Users, Caller(c, cr), Delete(c, cr, u)
      PROVE  RootInv'
  <2>1. c = Root /\ u # Root
    BY <1>5 DEF Delete, DeleteAllowed, Caller
  <2> QED
    BY <1>5, <2>1 DEF Delete, TypeOK
<1>6. ASSUME NEW w \in Workers, UpdateWrite(w) PROVE RootInv'
  <2>1. req[w] # None /\ req[w].user \in Users /\ req[w].role \in Roles
    BY <1>6, PendingFacts DEF UpdateWrite
  <2>2. OnlySeedIsRoot' /\ RootUnlessAsked'
    BY <1>6, <2>1, WriteFacts
  <2>3. grant[Root] # "root" => grant'[Root] # "root"
    BY <1>6, <2>1, WriteFacts
  <2>4. \A x \in Workers : req'[x] # None => x # w /\ req'[x] = req[x]
    BY <1>6, WriteFacts
  <2> QED
    BY <1>6, <2>2, <2>3, <2>4, WriteFacts
<1>7. ASSUME NEW w \in Workers, UpdateFail(w) PROVE RootInv'
  BY <1>7 DEF UpdateFail, TypeOK
<1>8. CASE Tick
  <2>1. \A v \in Users : ttl'[v]["root"] > 0 => ttl[v]["root"] > 0
    BY <1>8, LifeAssumption DEF Tick, Less, TypeOK, Roles
  <2> QED
    BY <1>8, <2>1 DEF Tick
<1>9. CASE UNCHANGED vars
  BY <1>9 DEF vars
<1> QED
  BY NextCases, <1>1, <1>2, <1>3, <1>4, <1>5, <1>6, <1>7, <1>8, <1>9

LEMMA RootAlways == Spec => []RootInv
<1>1. Init => RootInv
  BY RootAssumption DEF Init, RootInv, OnlySeedIsRoot, RootUnlessAsked, Roles
<1> QED
  BY <1>1, RootStep, TypeCorrect, PTL DEF Spec

\* Nobody but the user of the first migration ever has the role root.
THEOREM SeedCorrect == Spec => []OnlySeedIsRoot
<1>1. RootInv => OnlySeedIsRoot
  BY DEF RootInv
<1> QED
  BY <1>1, RootAlways, PTL

\* The user of the first migration is never deleted, and keeps its role until an
\* Update has asked for another.
THEOREM RootCorrect == Spec => []RootUnlessAsked
<1>1. RootInv => RootUnlessAsked
  BY DEF RootInv
<1> QED
  BY <1>1, RootAlways, PTL

-----------------------------------------------------------------------------
(* The role given last *)

LEMMA GrantStep == TypeOK /\ GrantInv /\ [Next]_vars => GrantInv'
<1> SUFFICES ASSUME TypeOK, GrantInv, [Next]_vars PROVE GrantInv'
  OBVIOUS
<1> USE DEF GrantInv, LastGrantHolds
<1>1. ASSUME NEW u \in Users, Login(u) \/ Refresh(u) \/ SessionEnds(u) PROVE GrantInv'
  BY <1>1 DEF Login, Refresh, SessionEnds
<1>2. ASSUME NEW cr \in Roles, NEW u \in Users, NEW r \in Roles, Create(cr, u, r) PROVE GrantInv'
  <2>1. \A w \in Workers : req[w] # None => req[w].user # u /\ req[w].user \in Users
    BY <1>2, PendingFacts DEF Create
  <2> QED
    BY <1>2, <2>1 DEF Create, TypeOK
<1>3. ASSUME NEW cr \in Roles, NEW u \in Users, NEW w \in Workers, NEW want \in Roles \cup {None},
             UpdateRead(w, cr, u, want)
      PROVE  GrantInv'
  <2>1. /\ status[u] # "none"
        /\ overlapped \subseteq overlapped'
        /\ u \notin overlapped' => \A x \in Workers : req[x] # None => req[x].user # u
    BY <1>3 DEF UpdateRead
  <2>2. ASSUME NEW x \in Workers, req'[x] # None
        PROVE  /\ status'[req'[x].user] # "none"
               /\ req'[x].user \notin overlapped' =>
                    /\ ~req'[x].asked => req'[x].role = role'[req'[x].user]
                    /\ \A y \in Workers \ {x} : req'[y] # None => req'[y].user # req'[x].user
    <3>1. CASE x = w
      BY <1>3, <2>1, <2>2, <3>1, ReadFacts
    <3>2. CASE x # w
      BY <1>3, <2>1, <2>2, <3>2, ReadFacts
    <3> QED
      BY <3>1, <3>2
  <2>3. LastGrantHolds'
    BY <1>3, <2>1, ReadFacts
  <2> QED
    BY <2>2, <2>3
<1>4. ASSUME NEW c \in Users, NEW cr \in Roles, NEW u \in Users, Delete(c, cr, u) PROVE GrantInv'
  <2>1. \A v \in Users : status[v] # "none" => status'[v] # "none"
    BY <1>4 DEF Delete, TypeOK
  <2>2. \A w \in Workers : req[w] # None => req[w].user \in Users
    BY PendingFacts
  <2> QED
    BY <1>4, <2>1, <2>2 DEF Delete
<1>5. ASSUME NEW w \in Workers, UpdateWrite(w) PROVE GrantInv'
  <2>1. req[w] # None /\ req[w].user \in Users
    BY <1>5, PendingFacts DEF UpdateWrite
  <2>2. LastGrantHolds'
    BY <1>5, <2>1, WriteFacts
  <2>3. \A x \in Workers : req'[x] # None => x # w /\ req[x] = req'[x] /\ req[x].user \in Users
    BY <1>5, PendingFacts, WriteFacts
  <2>4. \A x \in Workers \ {w} : req[x] # None /\ req[x].user \notin overlapped => req[x].user # req[w].user
    BY <2>1
  <2> QED
    BY <1>5, <2>1, <2>2, <2>3, <2>4, WriteFacts
<1>6. ASSUME NEW w \in Workers, UpdateFail(w) PROVE GrantInv'
  BY <1>6 DEF UpdateFail, TypeOK
<1>7. CASE Tick
  BY <1>7 DEF Tick
<1>8. CASE UNCHANGED vars
  BY <1>8 DEF vars
<1> QED
  BY NextCases, <1>1, <1>2, <1>3, <1>4, <1>5, <1>6, <1>7, <1>8

LEMMA GrantAlways == Spec => []GrantInv
<1>1. Init => GrantInv
  BY DEF Init, GrantInv, LastGrantHolds
<1> QED
  BY <1>1, GrantStep, TypeCorrect, PTL DEF Spec

\* The role of a user is the one given last, unless two Updates overlapped.
THEOREM GrantCorrect == Spec => []LastGrantHolds
<1>1. GrantInv => LastGrantHolds
  BY DEF GrantInv
<1> QED
  BY <1>1, GrantAlways, PTL

\* The inductive invariant of the table.
THEOREM AccountCorrect == Spec => []AccountInv
  BY ClaimCorrect, RootAlways, GrantAlways, PTL DEF AccountInv

=============================================================================
