------------------------------ MODULE Session ------------------------------
(***************************************************************************)
(* One login: its row in the table sessions, the JSON web tokens issued    *)
(* for it, and the browser tabs that share it (the front end's fetchAPI,   *)
(* refreshToken and AuthGuard, against Beacon, Refresh and Logout of       *)
(* AuthService behind AuthMiddleware).                                     *)
(*                                                                         *)
(* Every tab keeps the store in memory (zustand's persist only reads the   *)
(* browser's storage at start), so each refreshes on its own, and the row  *)
(* names the token issued last.  A tab makes any number of calls at one    *)
(* time.  Those that are answered 401 while it refreshes wait for that     *)
(* refresh; a later 401 starts another one.  Whoever still carries the     *)
(* token before is refused as a beacon, and as a logout not heard.         *)
(*                                                                         *)
(* Abstractions                                                            *)
(*  - Time is a number of ticks; what expires holds the ticks left.  An    *)
(*    expiry is computed and written within one tick.                      *)
(*  - Requests other than beacon and logout only pass the check of the     *)
(*    token.  All they do here is to start a refresh, as a beacon does that *)
(*    is answered 401 for an error of the database; they are left out.     *)
(*  - The account, and the role a token carries, are in Accounts.          *)
(***************************************************************************)
EXTENDS Integers

CONSTANTS
    Tabs,         \* browser tabs opened on this login
    Calls,        \* bounds the calls under way at one time
    MaxTokens,    \* bounds the tokens that are known to anyone at one time
    Life,         \* TokenExpiry, 30 minutes
    RefreshLife,  \* RefreshExpiry, 24 hours
    MaxFailures   \* MAX_BEACON_FAILURES

ASSUME LifeAssumption ==
    /\ Life \in Nat \ {0} /\ RefreshLife \in Nat
    /\ MaxFailures \in Nat \ {0} /\ MaxTokens \in Nat \ {0}

Tokens == 1..MaxTokens

\* No token: logged out.
None == 0

VARIABLES
    current,     \* sessions.token_hash
    expires,     \* sessions.expires_at
    revoked,     \* sessions.revoked_at is set
    ttl,         \* ticks until each token expires; 0 also if never issued
    refreshTtl,  \* the same for the refresh token
    call,        \* the calls under way
    refresh,     \* how far the refresh of each tab is; "no" if not isRefreshing
    given,       \* the token on its way to a tab that waits for the answer
    held,        \* the token in the store of each tab; None when logged out
    fails,       \* failed beacons in a row (failCountRef)
    trouble,     \* history: how many of these were lost, or refused with good
                 \* reason; MaxFailures when a tab was logged out for that
    latest,      \* history: the token issued last
    quiet        \* history: ticks since the row is revoked and no refresh under way

row   == <<current, expires, revoked>>
clock == <<ttl, refreshTtl, quiet>>
tab   == <<refresh, given, held, fails, trouble>>
vars  == <<current, expires, revoked, ttl, refreshTtl, call, refresh, given, held,
           fails, trouble, latest, quiet>>

\* A call under way: whose, which, how far, the token by which it asks, whether it
\* has been made again, and (history, of a logout) whether its tab held the token
\* issued last and none was issued since but by the refresh it waits for.
CallType == [by : Tabs, what : {"beacon", "logout"}, at : {"asked", "found", "wait"},
             token : Tokens \cup {None}, again : BOOLEAN, sole : BOOLEAN]

NoCall == [what |-> "none"]

TypeOK ==
    /\ current \in Tokens
    /\ expires \in 0..Life
    /\ revoked \in BOOLEAN
    /\ ttl \in [Tokens -> 0..Life]
    /\ refreshTtl \in 0..RefreshLife
    /\ call \in [Calls -> CallType \cup {NoCall}]
    /\ refresh \in [Tabs -> {"no", "asked", "issue", "answer"}]
    /\ given \in [Tabs -> Tokens \cup {None}]
    /\ held \in [Tabs -> Tokens \cup {None}]
    /\ fails \in [Tabs -> 0..(MaxFailures - 1)]
    /\ trouble \in [Tabs -> 0..MaxFailures]
    /\ latest \in Tokens
    /\ quiet \in 0..Life

\* Login: one token and one row; the tabs are opened on the same login.
Init ==
    /\ current = 1
    /\ expires = Life
    /\ revoked = FALSE
    /\ ttl = [k \in Tokens |-> IF k = current THEN Life ELSE 0]
    /\ refreshTtl = RefreshLife
    /\ call = [c \in Calls |-> NoCall]
    /\ refresh = [t \in Tabs |-> "no"]
    /\ given = [t \in Tabs |-> None]
    /\ held = [t \in Tabs |-> current]
    /\ fails = [t \in Tabs |-> 0]
    /\ trouble = [t \in Tabs |-> 0]
    /\ latest = current
    /\ quiet = 0

Open(c)    == call[c] # NoCall
Beacon(c)  == call[c].what = "beacon"
Logout(c)  == call[c].what = "logout"
End(c)     == call' = [call EXCEPT ![c] = NoCall]

\* The calls of t that wait for its refresh.
Waiting(t) == {c \in Calls : Open(c) /\ call[c].by = t /\ call[c].at = "wait"}

\* The store is cleared (logout of the auth store), through a trouble or not.
Leave(t, troubled) ==
    /\ held' = [held EXCEPT ![t] = None]
    /\ fails' = [fails EXCEPT ![t] = 0]
    /\ trouble' = [trouble EXCEPT ![t] = IF troubled THEN MaxFailures ELSE 0]

-----------------------------------------------------------------------------
(* The calls: fetchAPI *)

\* The interval timer of AuthGuard, or the user.
Ask(c, t, what) ==
    /\ ~Open(c)
    /\ held[t] # None
    /\ call' = [call EXCEPT ![c] =
          [by |-> t, what |-> what, at |-> "asked", token |-> held[t], again |-> FALSE,
           sole |-> what = "logout" /\ held[t] = latest /\ refresh[t] # "answer"]]
    /\ UNCHANGED <<row, clock, tab, latest>>

\* AuthMiddleware: only the token itself is looked at.
Valid(k) == ttl[k] > 0

\* GetByTokenHash.
Found(k) == current = k /\ ~revoked /\ expires > 0

At(c, step) == Open(c) /\ call[c].at = step

\* The handlers of beacon and logout find the row, and go by its id.
Look(c) ==
    /\ At(c, "asked")
    /\ Valid(call[c].token)
    /\ Found(call[c].token)
    /\ call' = [call EXCEPT ![c].at = "found", ![c].token = None, ![c].again = FALSE]
    /\ UNCHANGED <<row, clock, tab, latest>>

\* UpdateBeacon or Revoke.
Serve(c) ==
    IF Beacon(c)
      THEN expires' = Life /\ UNCHANGED <<current, revoked>>
      ELSE revoked' = TRUE /\ UNCHANGED <<current, expires>>

\* A beacon that is answered resets the counter.
BeaconOk(c) ==
    /\ At(c, "found")
    /\ Beacon(c)
    /\ Serve(c)
    /\ fails' = [fails EXCEPT ![call[c].by] = 0]
    /\ trouble' = [trouble EXCEPT ![call[c].by] = 0]
    /\ End(c)
    /\ UNCHANGED <<clock, refresh, given, held, latest>>

\* The tab clears its store when a logout ends.
LogoutOk(c) ==
    /\ At(c, "found")
    /\ Logout(c)
    /\ Serve(c)
    /\ Leave(call[c].by, FALSE)
    /\ End(c)
    /\ UNCHANGED <<clock, refresh, given, latest>>

\* A logout that does not find the row is answered as if it had.
AlreadyOut(c) ==
    /\ At(c, "asked")
    /\ Logout(c)
    /\ Valid(call[c].token)
    /\ ~Found(call[c].token)
    /\ Leave(call[c].by, FALSE)
    /\ End(c)
    /\ UNCHANGED <<row, clock, refresh, given, latest>>

\* 401: the token has expired, or a beacon does not find the row.
Denied(c) ==
    /\ At(c, "asked")
    /\ \/ ~Valid(call[c].token)
       \/ Beacon(c) /\ ~Found(call[c].token)

\* A beacon is answered 401 as well if the database fails, at whichever statement:
\* nothing has been written then.
Errs(c) == At(c, "asked") /\ Beacon(c)

\* The first time: the call waits for the refresh of its tab, and starts it unless
\* there is one.
Deny(c) ==
    LET t == call[c].by IN
    /\ Denied(c) \/ Errs(c)
    /\ ~call[c].again
    /\ held[t] # None \/ refresh[t] # "no"
    /\ call' = [call EXCEPT ![c].at = "wait", ![c].token = None]
    /\ refresh' = [refresh EXCEPT ![t] = IF @ = "no" THEN "asked" ELSE @]
    /\ UNCHANGED <<row, clock, given, held, fails, trouble, latest>>

\* Faulty variant of Fail: one failure more.
FailLate(c, troubled) ==
    LET t == call[c].by IN
    \/ held[t] = None /\ UNCHANGED <<held, fails, trouble>>
    \/ held[t] # None /\ Logout(c) /\ Leave(t, troubled)
    \/ /\ held[t] # None /\ Beacon(c) /\ fails[t] = MaxFailures
       /\ Leave(t, troubled /\ trouble[t] >= MaxFailures - 1)
    \/ /\ held[t] # None /\ Beacon(c) /\ fails[t] < MaxFailures
       /\ fails' = [fails EXCEPT ![t] = @ + 1]
       /\ trouble' = [trouble EXCEPT ![t] = IF troubled /\ @ < MaxFailures - 1 THEN @ + 1 ELSE @]
       /\ UNCHANGED held

\* The call fails for good: every logout, and the last beacon in a row that
\* AuthGuard bears, clears the store.
Fail(c, troubled) ==
    LET t == call[c].by IN
    \/ held[t] = None /\ UNCHANGED <<held, fails, trouble>>
    \/ held[t] # None /\ Logout(c) /\ Leave(t, troubled)
    \/ /\ held[t] # None /\ Beacon(c) /\ fails[t] = MaxFailures - 1
       /\ Leave(t, troubled /\ trouble[t] >= MaxFailures - 1)
    \/ /\ held[t] # None /\ Beacon(c) /\ fails[t] < MaxFailures - 1
       /\ fails' = [fails EXCEPT ![t] = @ + 1]
       /\ trouble' = [trouble EXCEPT ![t] = IF troubled /\ @ < MaxFailures - 1 THEN @ + 1 ELSE @]
       /\ UNCHANGED held

\* A tab that was logged out meanwhile has no refresh token.
DenyOut(c) ==
    /\ Denied(c) \/ Errs(c)
    /\ ~call[c].again
    /\ held[call[c].by] = None /\ refresh[call[c].by] = "no"
    /\ End(c)
    /\ UNCHANGED <<row, clock, tab, latest>>

\* What excuses a 401 after the refresh: the new token has expired, another one
\* has been issued, or the row was revoked.
Outdated(c) == ~Valid(call[c].token) \/ call[c].token # latest \/ revoked

DenyAgain(c) ==
    /\ Denied(c)
    /\ call[c].again
    /\ Fail(c, Outdated(c))
    /\ End(c)
    /\ UNCHANGED <<row, clock, refresh, given, latest>>

\* The network or the database fails, before or after the call took effect.
Lose(c) ==
    /\ Open(c)
    /\ call[c].at # "wait"
    /\ Fail(c, TRUE)
    /\ End(c)
    /\ \/ UNCHANGED row
       \/ call[c].at = "found" /\ Serve(c)
    /\ UNCHANGED <<clock, refresh, given, latest>>

-----------------------------------------------------------------------------
(* refreshToken *)

\* Faulty variants of Renewable: the row's own expiry is looked at as
\* well, a revoked row is found too.
RenewableUnexpired == refreshTtl > 0 /\ ~revoked /\ expires > 0
RenewableRevoked   == refreshTtl > 0

\* ParseRefreshToken and GetByRefreshTokenHash, which asks for the row not to be
\* revoked but not for its expiry.
Renewable == refreshTtl > 0 /\ ~revoked

Refresh(t) ==
    /\ refresh[t] = "asked"
    /\ Renewable
    /\ refresh' = [refresh EXCEPT ![t] = "issue"]
    /\ UNCHANGED <<row, clock, call, given, held, fails, trouble, latest>>

\* Faulty variant of Abandon: the store is kept.
AbandonKept(t, troubled) ==
    /\ refresh' = [refresh EXCEPT ![t] = "no"]
    /\ given' = [given EXCEPT ![t] = None]
    /\ call' = [c \in Calls |-> IF c \in Waiting(t) THEN NoCall ELSE call[c]]
    /\ UNCHANGED <<row, clock, held, fails, trouble, latest>>

\* The refresh ends without a token: the store is cleared, and the calls that
\* waited for it fail.
Abandon(t, troubled) ==
    /\ Leave(t, troubled)
    /\ refresh' = [refresh EXCEPT ![t] = "no"]
    /\ given' = [given EXCEPT ![t] = None]
    /\ call' = [c \in Calls |-> IF c \in Waiting(t) THEN NoCall ELSE call[c]]
    /\ UNCHANGED <<row, clock, latest>>

Refused(t) ==
    /\ refresh[t] = "asked"
    /\ ~Renewable
    /\ Abandon(t, FALSE)

\* A token nobody knows any more; the first one, since they only differ by name.
Unused(k) ==
    /\ ttl[k] = 0 /\ k # current
    /\ \A t \in Tabs : k \notin {held[t], given[t]}
    /\ \A c \in Calls : Open(c) => call[c].token # k

Fresh(k) == Unused(k) /\ \A j \in Tokens : Unused(j) => k <= j

\* A logout is no longer the sole one unless it waits for this very refresh.
Supersede(t) ==
    call' = [c \in Calls |->
        IF Open(c) /\ c \notin Waiting(t) THEN [call[c] EXCEPT !.sole = FALSE] ELSE call[c]]

\* Faulty variant of Issue: the row keeps naming the old token.
IssueUnrecorded(t, k) ==
    /\ refresh[t] = "issue"
    /\ Fresh(k)
    /\ ttl' = [ttl EXCEPT ![k] = Life]
    /\ given' = [given EXCEPT ![t] = k]
    /\ latest' = k
    /\ refresh' = [refresh EXCEPT ![t] = "answer"]
    /\ Supersede(t)
    /\ UNCHANGED <<row, refreshTtl, quiet, held, fails, trouble>>

\* GenerateToken and UpdateTokens, by the id read before: the row names the new
\* token, be it revoked meanwhile.
Issue(t, k) ==
    /\ refresh[t] = "issue"
    /\ Fresh(k)
    /\ ttl' = [ttl EXCEPT ![k] = Life]
    /\ current' = k
    /\ expires' = Life
    /\ given' = [given EXCEPT ![t] = k]
    /\ latest' = k
    /\ refresh' = [refresh EXCEPT ![t] = "answer"]
    /\ Supersede(t)
    /\ UNCHANGED <<revoked, refreshTtl, quiet, held, fails, trouble>>

\* setToken; the calls that waited are made again and isRefreshing is reset, before
\* the tab does anything else.  A tab logged out meanwhile stays so.
Answer(t) ==
    /\ refresh[t] = "answer"
    /\ held' = [held EXCEPT ![t] = IF @ = None THEN None ELSE given[t]]
    /\ call' = [c \in Calls |->
          IF c \in Waiting(t)
            THEN [call[c] EXCEPT !.at = "asked", !.token = given[t], !.again = TRUE]
            ELSE call[c]]
    /\ refresh' = [refresh EXCEPT ![t] = "no"]
    /\ given' = [given EXCEPT ![t] = None]
    /\ UNCHANGED <<row, clock, fails, trouble, latest>>

\* The request, its answer or the database fails.
LoseRefresh(t) ==
    /\ refresh[t] # "no"
    /\ Abandon(t, TRUE)

-----------------------------------------------------------------------------
Less(n) == IF n = 0 THEN 0 ELSE n - 1

\* The row is revoked and no refresh that found it before is under way.
Quiet == revoked /\ \A t \in Tabs : refresh[t] # "issue"

Tick ==
    /\ ttl' = [k \in Tokens |-> Less(ttl[k])]
    /\ expires' = Less(expires)
    /\ refreshTtl' = Less(refreshTtl)
    /\ quiet' = IF Quiet /\ quiet < Life THEN quiet + 1 ELSE quiet
    /\ UNCHANGED <<current, revoked, call, tab, latest>>

CallStep(c) ==
    \/ Look(c)
    \/ BeaconOk(c)
    \/ LogoutOk(c)
    \/ AlreadyOut(c)
    \/ Deny(c)
    \/ DenyOut(c)
    \/ DenyAgain(c)

RefreshStep(t) ==
    \/ Refresh(t)
    \/ Refused(t)
    \/ \E k \in Tokens : Issue(t, k)
    \/ Answer(t)

Next ==
    \/ \E c \in Calls :
          \/ \E t \in Tabs : Ask(c, t, "beacon") \/ Ask(c, t, "logout")
          \/ CallStep(c)
          \/ Lose(c)
    \/ \E t \in Tabs : RefreshStep(t) \/ LoseRefresh(t)
    \/ Tick

Spec == Init /\ [][Next]_vars

\* Time passes, a tab keeps sending beacons, and a request is answered or lost.
Fairness ==
    /\ WF_vars(Tick)
    /\ \A t \in Tabs :
          /\ SF_vars(\E c \in Calls : Ask(c, t, "beacon"))
          /\ WF_vars(LoseRefresh(t) \/ RefreshStep(t))
    /\ \A c \in Calls : WF_vars(Lose(c) \/ CallStep(c))

FairSpec == Spec /\ Fairness

-----------------------------------------------------------------------------
(* Safety *)

\* A tab stays logged in while its calls overtake each other and tabs and refreshes
\* take the row from each other: it is only logged out by its user, after a
\* revocation or the end of the refresh token, by a lost refresh, or by as many
\* troubles as AuthGuard bears with no answered beacon between them.  A pause
\* between beacons, of whatever length, is not among the reasons, unlike
\* docs/SEQUENCES.md:240-250 says: the code writes last_beacon and never reads it,
\* and Refresh does not look at expires_at.
KeptLoggedIn ==
    [][\A t \in Tabs : held[t] # None /\ held'[t] = None =>
          \/ \E c \in Calls : Logout(c) /\ call[c].by = t /\ call'[c] = NoCall
          \/ revoked'
          \/ refreshTtl = 0
          \/ trouble'[t] = MaxFailures]_vars

\* Once a session is revoked, what is still accepted was issued before, or by a
\* refresh that had found the row before; TokenExpiry later nothing is.
LogoutHolds == \A k \in Tokens : ttl[k] + quiet <= Life

\* When a logout ends, in a tab still logged in, it has revoked the row, also with
\* an expired token, provided that
\*  - no token was issued meanwhile but by the refresh it waited for itself, be it
\*    to another tab or to a later call of its own,
\*  - neither it nor that refresh was lost, and it did not outlive its new token,
\*  - the refresh token has not expired.
LogoutRevokes ==
    [][\A c \in Calls :
          /\ Open(c) /\ call'[c] = NoCall
          /\ Logout(c) /\ call[c].sole
          /\ held[call[c].by] # None
          /\ trouble'[call[c].by] # MaxFailures
          => revoked' \/ refreshTtl = 0]_vars

\* Why: the row names the token issued last and does not expire before it, ...
RowInv ==
    /\ current = latest
    /\ expires >= ttl[current]

\* ... a logout that is the sole one carries, or is about to be given, that token, ...
SoleInv ==
    \A c \in Calls : Open(c) /\ call[c].sole =>
        /\ call[c].at = "asked" => call[c].token = latest
        /\ refresh[call[c].by] = "answer" => call[c].at = "wait" /\ given[call[c].by] = latest

\* ... an answer holds a token, ...
GivenInv == \A t \in Tabs : refresh[t] = "answer" => given[t] # None

\* ... and troubles are counted at least where the tab counts failures.
TroubleInv == \A t \in Tabs : fails[t] <= trouble[t]

SessionInv ==
    /\ RowInv
    /\ SoleInv
    /\ GivenInv
    /\ TroubleInv
    /\ LogoutHolds
    /\ quiet > 0 => Quiet

-----------------------------------------------------------------------------
(* Liveness *)

\* A session ends: beacons extend the row for ever, but the refresh token is
\* never renewed, so that every tab is logged out at last.
EndsAtLast == <>[](\A t \in Tabs : held[t] = None)

=============================================================================
