------------------------------ MODULE Accounts ------------------------------
(***************************************************************************)
(* The table users: its rows, the requests that manage them (Create,       *)
(* Update and Delete of UserService, served concurrently), and the roles   *)
(* claimed by the tokens that Login and Refresh of AuthService issue.      *)
(*                                                                         *)
(* AuthMiddleware takes the role of a caller from the token, never from    *)
(* the table; Update reads a row, and then writes the whole row back.      *)
(*                                                                         *)
(* Abstractions                                                            *)
(*  - Of a row, the role and whether it is active; names and passwords are *)
(*    left out, and so are requests refused for them.                      *)
(*  - Of the tokens of a user, the one of each role that lives longest.    *)
(*  - Reading a user and issuing a token takes less than a tick.  Whether  *)
(*    a session can be refreshed is in Session: here it is or is not.      *)
(***************************************************************************)
EXTENDS Integers

CONSTANTS
    Users,
    Root,      \* the user inserted by the first migration
    Workers,   \* Update requests the server runs at the same time
    Life,      \* TokenExpiry
    None       \* a role that is not asked for; no request

ASSUME RootAssumption == Root \in Users
ASSUME LifeAssumption == Life \in Nat \ {0}

Roles == {"root", "admin", "regular"}

ASSUME NoneAssumption == None \notin Roles \cup [user : Users, role : Roles, asked : BOOLEAN]

VARIABLES
    status,      \* of each row: "none", "active" or "deleted" (is_active)
    role,        \* users.role
    logged,      \* the users with a session that can be refreshed
    ttl,         \* ticks until the last token that claims a role expires
    req,         \* Update requests between reading and writing their row
    since,       \* history: ticks since the role of a user changed
    grant,       \* history: the role given to a user last
    overlapped   \* history: users two Update requests worked on at one time

vars == <<status, role, logged, ttl, req, since, grant, overlapped>>

Pending == [user : Users, role : Roles, asked : BOOLEAN]

TypeOK ==
    /\ status \in [Users -> {"none", "active", "deleted"}]
    /\ role \in [Users -> Roles]
    /\ logged \subseteq Users
    /\ ttl \in [Users -> [Roles -> 0..Life]]
    /\ req \in [Workers -> Pending \cup {None}]
    /\ since \in [Users -> 0..Life]
    /\ grant \in [Users -> Roles]
    /\ overlapped \subseteq Users
    /\ \A u \in Users : status[u] = "none" =>
          u \notin logged /\ \A r \in Roles : ttl[u][r] = 0

Init ==
    /\ status = [u \in Users |-> IF u = Root THEN "active" ELSE "none"]
    /\ role = [u \in Users |-> IF u = Root THEN "root" ELSE "regular"]
    /\ logged = {}
    /\ ttl = [u \in Users |-> [r \in Roles |-> 0]]
    /\ req = [w \in Workers |-> None]
    /\ since = [u \in Users |-> Life]
    /\ grant = role
    /\ overlapped = {}

-----------------------------------------------------------------------------
(* Tokens *)

\* Faulty variant of Issued: the token has more than its life.
IssuedLong(u, r) == ttl' = [ttl EXCEPT ![u][r] = Life + 1]

\* A token for u with the role r of its row.
Issued(u, r) == ttl' = [ttl EXCEPT ![u][r] = Life]

\* Faulty variant of LoginAllowed: no check of the row.
LoginAllowedAny(u) == TRUE

LoginAllowed(u) == status[u] = "active"

Login(u) ==
    /\ LoginAllowed(u)
    /\ Issued(u, role[u])
    /\ logged' = logged \cup {u}
    /\ UNCHANGED <<status, role, req, since, grant, overlapped>>

\* Refresh reads the user again, but not whether it is active.
Refresh(u) ==
    /\ u \in logged
    /\ Issued(u, role[u])
    /\ UNCHANGED <<status, role, logged, req, since, grant, overlapped>>

\* The last session of u is revoked, or its refresh token expires.
SessionEnds(u) ==
    /\ u \in logged
    /\ logged' = logged \ {u}
    /\ UNCHANGED <<status, role, ttl, req, since, grant, overlapped>>

\* AuthMiddleware, and RequireRole for the routes under /users.
Caller(c, r) == ttl[c][r] > 0 /\ r \in {"root", "admin"}

-----------------------------------------------------------------------------
(* Management of users *)

\* Faulty variant of CanCreate: a caller may give its own role.
CanCreateOwn(caller, target) ==
    \/ caller = target
    \/ caller = "root" /\ target = "admin"
    \/ caller \in {"root", "admin"} /\ target = "regular"

CanCreate(caller, target) ==
    \/ caller = "root" /\ target = "admin"
    \/ caller \in {"root", "admin"} /\ target = "regular"

Create(cr, u, r) ==
    /\ CanCreate(cr, r)
    /\ status[u] = "none"
    /\ status' = [status EXCEPT ![u] = "active"]
    /\ role' = [role EXCEPT ![u] = r]
    /\ grant' = [grant EXCEPT ![u] = r]
    /\ since' = [since EXCEPT ![u] = 0]
    /\ UNCHANGED <<logged, ttl, req, overlapped>>

\* Faulty variant of Kept: a role that is not asked for is the default one.
KeptDefault(u) == "regular"

\* The role an Update writes when it was not asked for one: that of the row it
\* read.
Kept(u) == role[u]

\* Only the role asked for is checked, not the one the row has.
UpdateRead(w, cr, u, want) ==
    /\ req[w] = None
    /\ status[u] # "none"
    /\ want # None => CanCreate(cr, want)
    /\ req' = [req EXCEPT ![w] =
                 [user  |-> u,
                  role  |-> IF want = None THEN Kept(u) ELSE want,
                  asked |-> want # None]]
    /\ overlapped' = overlapped \cup
          IF \E x \in Workers : req[x] # None /\ req[x].user = u THEN {u} ELSE {}
    /\ UNCHANGED <<status, role, logged, ttl, since, grant>>

\* The statement writes username, email and role, whatever was asked for.
UpdateWrite(w) ==
    /\ req[w] # None
    /\ LET u == req[w].user IN
          /\ role' = [role EXCEPT ![u] = req[w].role]
          /\ since' = [since EXCEPT ![u] = IF req[w].role = role[u] THEN @ ELSE 0]
          /\ grant' = [grant EXCEPT ![u] = IF req[w].asked THEN req[w].role ELSE @]
    /\ req' = [req EXCEPT ![w] = None]
    /\ UNCHANGED <<status, logged, ttl, overlapped>>

\* A name already taken, a cancelled request, a failing database.
UpdateFail(w) ==
    /\ req[w] # None
    /\ req' = [req EXCEPT ![w] = None]
    /\ UNCHANGED <<status, role, logged, ttl, since, grant, overlapped>>

\* Faulty variant of DeleteAllowed: also oneself.
DeleteAllowedSelf(c, cr, u) == cr = "root"

DeleteAllowed(c, cr, u) == cr = "root" /\ c # u

\* The row stays, with is_active = false.
Delete(c, cr, u) ==
    /\ DeleteAllowed(c, cr, u)
    /\ status[u] # "none"
    /\ status' = [status EXCEPT ![u] = "deleted"]
    /\ UNCHANGED <<role, logged, ttl, req, since, grant, overlapped>>

-----------------------------------------------------------------------------
Less(n) == IF n = 0 THEN 0 ELSE n - 1

Tick ==
    /\ ttl' = [u \in Users |-> [r \in Roles |-> Less(ttl[u][r])]]
    /\ since' = [u \in Users |-> IF since[u] < Life THEN since[u] + 1 ELSE since[u]]
    /\ UNCHANGED <<status, role, logged, req, grant, overlapped>>

Next ==
    \/ \E u \in Users : Login(u) \/ Refresh(u) \/ SessionEnds(u)
    \/ \E c \in Users, cr \in Roles, u \in Users :
          /\ Caller(c, cr)
          /\ \/ \E r \in Roles : Create(cr, u, r)
             \/ \E w \in Workers, want \in Roles \cup {None} : UpdateRead(w, cr, u, want)
             \/ Delete(c, cr, u)
    \/ \E w \in Workers : UpdateWrite(w) \/ UpdateFail(w)
    \/ Tick

Spec == Init /\ [][Next]_vars

-----------------------------------------------------------------------------
(* Safety *)

\* A role that was taken from a user is claimed for TokenExpiry at most: any
\* token that claims another role than the user's was issued before the change.
RoleCatchesUp ==
    \A u \in Users, r \in Roles :
        ttl[u][r] > 0 /\ r # role[u] => ttl[u][r] + since[u] <= Life

\* "Ninguém pode criar root" (docs/API_CONTRACT.md): whatever stale rows requests
\* write back and whatever old tokens claim, only the user of the first migration
\* has the role root.
OnlySeedIsRoot == \A u \in Users : role[u] = "root" => u = Root

\* The account of the first migration is never deactivated (only root can delete
\* users, and not itself: "cannot delete yourself"), and no Update makes it lose the
\* role root, however outdated the row it writes back, before one has asked for
\* another role.  Any admin may ask for that: the code looks at the role asked for
\* only, unlike docs/ARCHITECTURE.md:580-581, and nobody can give root back then.
RootUnlessAsked ==
    /\ status[Root] = "active"
    /\ grant[Root] = "root" => role[Root] = "root"

\* A user has the role given to it last, unless two Updates of that user ran at
\* one time: then one that only renames may bring back the role it had read.
LastGrantHolds == \A u \in Users \ overlapped : role[u] = grant[u]

\* Why they hold.
RootInv ==
    /\ OnlySeedIsRoot
    /\ RootUnlessAsked
    /\ \A u \in Users : ttl[u]["root"] > 0 => u = Root
    /\ \A w \in Workers : req[w] # None =>
          /\ req[w].role = "root" => req[w].user = Root /\ ~req[w].asked
          /\ req[w].user = Root /\ req[w].role # "root" => req[w].asked \/ grant[Root] # "root"

GrantInv ==
    /\ LastGrantHolds
    /\ \A w \in Workers : req[w] # None =>
          /\ status[req[w].user] # "none"
          /\ req[w].user \notin overlapped =>
                /\ ~req[w].asked => req[w].role = role[req[w].user]
                /\ \A x \in Workers \ {w} : req[x] # None => req[x].user # req[w].user

AccountInv == RoleCatchesUp /\ RootInv /\ GrantInv

=============================================================================
