--------------------------- MODULE SessionProofs ---------------------------
(***************************************************************************)
(* Proofs about Session, for any number of tabs, calls under way and       *)
(* tokens, and any life of a token and of the refresh token.               *)
(***************************************************************************)
EXTENDS Session, TLAPS

\* What a step can be, one action at a time.
LEMMA NextCases ==
  ASSUME [Next]_vars
  PROVE  \/ \E c \in Calls :
               \/ \E t \in Tabs, what \in {"beacon", "logout"} : Ask(c, t, what)
               \/ Look(c)
               \/ BeaconOk(c)
               \/ LogoutOk(c)
               \/ AlreadyOut(c)
               \/ Deny(c)
               \/ DenyOut(c)
               \/ DenyAgain(c)
               \/ Lose(c)
         \/ \E t \in Tabs :
               \/ Refresh(t)
               \/ Refused(t)
               \/ \E k \in Tokens : Issue(t, k)
               \/ Answer(t)
               \/ LoseRefresh(t)
         \/ Tick
         \/ UNCHANGED vars
  BY DEF Next, CallStep, RefreshStep

\* A free slot is not a call.
LEMMA NoCallFacts == NoCall \notin CallType /\ NoCall.what = "none"
  BY DEF NoCall, CallType

LEMMA OpenFacts ==
  ASSUME TypeOK, NEW c \in Calls, Open(c)
  PROVE  call[c] \in CallType
  BY DEF TypeOK, Open

\* What UpdateBeacon and Revoke write.
LEMMA ServeFacts ==
  ASSUME TypeOK, NEW c \in Calls, Serve(c)
  PROVE  /\ current' = current
         /\ expires' \in {expires, Life}
         /\ revoked' \in BOOLEAN
         /\ revoked => revoked'
         /\ Beacon(c) \/ revoked'
<1>1. CASE Beacon(c)
  BY <1>1 DEF Serve, TypeOK
<1>2. CASE ~Beacon(c)
  <2>1. revoked' = TRUE /\ current' = current /\ expires' = expires
    BY <1>2 DEF Serve
  <2> QED
    BY <2>1, Zenon
<1> QED
  BY <1>1, <1>2

\* Failing for good ends at the count of failures that AuthGuard bears.
LEMMA FailFacts ==
  ASSUME TypeOK, NEW c \in Calls, Open(c), NEW troubled \in BOOLEAN, Fail(c, troubled)
  PROVE  /\ held' \in [Tabs -> Tokens \cup {None}]
         /\ fails' \in [Tabs -> 0..(MaxFailures - 1)]
         /\ trouble' \in [Tabs -> 0..MaxFailures]
         /\ \A t \in Tabs \ {call[c].by} : UNCHANGED <<held[t], fails[t], trouble[t]>>
         /\ troubled /\ fails[call[c].by] <= trouble[call[c].by]
               => fails'[call[c].by] <= trouble'[call[c].by]
<1> DEFINE t == call[c].by
<1>1. t \in Tabs
  BY OpenFacts DEF CallType
<1> USE LifeAssumption DEF TypeOK, Leave
<1> HIDE DEF t
<1>2. CASE held[t] = None /\ UNCHANGED <<held, fails, trouble>>
  BY <1>1, <1>2 DEF t
<1>3. ASSUME NEW b \in BOOLEAN, Leave(t, b)
      PROVE  /\ held' \in [Tabs -> Tokens \cup {None}]
             /\ fails' \in [Tabs -> 0..(MaxFailures - 1)]
             /\ trouble' \in [Tabs -> 0..MaxFailures]
             /\ \A u \in Tabs \ {t} : UNCHANGED <<held[u], fails[u], trouble[u]>>
             /\ fails'[t] <= trouble'[t]
  BY <1>1, <1>3
<1>4. CASE /\ fails[t] < MaxFailures - 1
           /\ fails' = [fails EXCEPT ![t] = @ + 1]
           /\ trouble' = [trouble EXCEPT ![t] = IF troubled /\ @ < MaxFailures - 1 THEN @ + 1 ELSE @]
           /\ UNCHANGED held
  BY <1>1, <1>4 DEF t
<1>5. (troubled /\ trouble[t] >= MaxFailures - 1) \in BOOLEAN
  OBVIOUS
<1> QED
  BY <1>2, <1>3, <1>4, <1>5 DEF Fail, t

LEMMA TypeInit == Init => TypeOK
<1> SUFFICES ASSUME Init PROVE TypeOK
  OBVIOUS
<1>1. /\ Life \in 0..Life /\ 0 \in 0..Life /\ 0 \in 0..MaxFailures /\ 1 \in Tokens
      /\ 0 \in 0..(MaxFailures - 1) /\ RefreshLife \in 0..RefreshLife
  BY LifeAssumption DEF Tokens
<1>2. ttl \in [Tokens -> 0..Life]
  BY <1>1 DEF Init
<1> QED
  BY <1>1, <1>2 DEF Init, TypeOK

LEMMA TypeStep == TypeOK /\ [Next]_vars => TypeOK'
<1> SUFFICES ASSUME TypeOK, [Next]_vars PROVE TypeOK'
  OBVIOUS
<1> USE LifeAssumption DEF TypeOK, Leave, row, clock, tab, End
<1>1. ASSUME NEW c \in Calls, NEW t \in Tabs, NEW what \in {"beacon", "logout"}, Ask(c, t, what)
      PROVE  TypeOK'
  <2>1. [by |-> t, what |-> what, at |-> "asked", token |-> held[t], again |-> FALSE,
         sole |-> what = "logout" /\ held[t] = latest /\ refresh[t] # "answer"] \in CallType
    BY DEF CallType
  <2> QED
    BY <1>1, <2>1 DEF Ask
<1>2. ASSUME NEW c \in Calls, Look(c) PROVE TypeOK'
  <2>1. [call[c] EXCEPT !.at = "found", !.token = None, !.again = FALSE] \in CallType
    BY <1>2, OpenFacts DEF Look, At, CallType
  <2> QED
    BY <1>2, <2>1 DEF Look
<1>3. ASSUME NEW c \in Calls, BeaconOk(c) \/ LogoutOk(c) \/ AlreadyOut(c) PROVE TypeOK'
  <2>1. call[c].by \in Tabs
    BY <1>3, OpenFacts DEF BeaconOk, LogoutOk, AlreadyOut, At, CallType
  <2>2. CASE BeaconOk(c)
    BY <2>1, <2>2, ServeFacts DEF BeaconOk
  <2>3. CASE LogoutOk(c)
    BY <2>1, <2>3, ServeFacts DEF LogoutOk
  <2>4. CASE AlreadyOut(c)
    BY <2>1, <2>4 DEF AlreadyOut
  <2> QED
    BY <1>3, <2>2, <2>3, <2>4
<1>4. ASSUME NEW c \in Calls, Deny(c) PROVE TypeOK'
  <2>1. /\ call[c].by \in Tabs
        /\ [call[c] EXCEPT !.at = "wait", !.token = None] \in CallType
    BY <1>4, OpenFacts DEF Deny, Denied, Errs, At, CallType
  <2> QED
    BY <1>4, <2>1 DEF Deny
<1>5. ASSUME NEW c \in Calls, DenyOut(c) PROVE TypeOK'
  BY <1>5 DEF DenyOut
<1>6. ASSUME NEW c \in Calls, DenyAgain(c) PROVE TypeOK'
  <2>1. Open(c) /\ Outdated(c) \in BOOLEAN
    BY <1>6 DEF DenyAgain, Denied, At, Outdated
  <2> QED
    BY <1>6, <2>1, FailFacts DEF DenyAgain
<1>7. ASSUME NEW c \in Calls, Lose(c) PROVE TypeOK'
  <2>1. /\ held' \in [Tabs -> Tokens \cup {None}]
        /\ fails' \in [Tabs -> 0..(MaxFailures - 1)]
        /\ trouble' \in [Tabs -> 0..MaxFailures]
    BY <1>7, FailFacts, TRUE \in BOOLEAN DEF Lose
  <2>2. current' \in Tokens /\ expires' \in 0..Life /\ revoked' \in BOOLEAN
    BY <1>7, ServeFacts DEF Lose
  <2>3. call' \in [Calls -> CallType \cup {NoCall}]
    BY <1>7 DEF Lose
  <2> QED
    BY <1>7, <2>1, <2>2, <2>3 DEF Lose
<1>8. ASSUME NEW t \in Tabs, Refresh(t) PROVE TypeOK'
  BY <1>8 DEF Refresh
<1>9. ASSUME NEW t \in Tabs, Refused(t) \/ LoseRefresh(t) PROVE TypeOK'
  BY <1>9 DEF Refused, LoseRefresh, Abandon
<1>10. ASSUME NEW t \in Tabs, NEW k \in Tokens, Issue(t, k) PROVE TypeOK'
  <2>1. \A c \in Calls : Open(c) => [call[c] EXCEPT !.sole = FALSE] \in CallType
    BY OpenFacts DEF CallType
  <2> QED
    BY <1>10, <2>1 DEF Issue, Supersede
<1>11. ASSUME NEW t \in Tabs, Answer(t) PROVE TypeOK'
  <2>1. \A c \in Calls : Open(c) =>
           [call[c] EXCEPT !.at = "asked", !.token = given[t], !.again = TRUE] \in CallType
    BY OpenFacts DEF CallType
  <2> QED
    BY <1>11, <2>1 DEF Answer, Waiting
<1>12. CASE Tick
  <2>1. /\ \A n \in 0..Life : Less(n) \in 0..Life
        /\ \A n \in 0..RefreshLife : Less(n) \in 0..RefreshLife
    BY DEF Less
  <2> QED
    BY <1>12, <2>1 DEF Tick
<1>13. CASE UNCHANGED vars
  BY <1>13 DEF vars
<1> QED
  BY NextCases, <1>1, <1>2, <1>3, <1>4, <1>5, <1>6, <1>7, <1>8, <1>9, <1>10, <1>11, <1>12, <1>13

\* Every reachable state of a session is well typed.
THEOREM TypeCorrect == Spec => []TypeOK
  BY TypeInit, TypeStep, PTL DEF Spec

-----------------------------------------------------------------------------
(* The inductive invariant *)

LEMMA SessionInit == Init => SessionInv
  BY LifeAssumption DEF Init, SessionInv, RowInv, SoleInv, GivenInv, TroubleInv, LogoutHolds, Quiet, Open, Tokens

\* The row and the clock.
LEMMA RowStep ==
  ASSUME TypeOK, [Next]_vars, RowInv, LogoutHolds, quiet > 0 => Quiet
  PROVE  RowInv' /\ LogoutHolds' /\ (quiet > 0 => Quiet)'
<1> DEFINE P == RowInv /\ LogoutHolds /\ (quiet > 0 => Quiet)
<1> USE LifeAssumption DEF TypeOK, RowInv, LogoutHolds, Quiet, row, clock, tab
<1>1. ASSUME UNCHANGED <<row, clock, latest>>,
             \A t \in Tabs : refresh'[t] = "issue" => refresh[t] = "issue"
      PROVE  P'
  BY <1>1
<1>2. ASSUME NEW c \in Calls, NEW t \in Tabs, NEW what \in {"beacon", "logout"}, Ask(c, t, what)
      PROVE  P'
  BY <1>1, <1>2 DEF Ask
<1>3. ASSUME NEW c \in Calls, Look(c) \/ AlreadyOut(c) \/ DenyOut(c) \/ DenyAgain(c) PROVE P'
  BY <1>1, <1>3 DEF Look, AlreadyOut, DenyOut, DenyAgain
<1>4. ASSUME NEW c \in Calls, Serve(c), UNCHANGED <<clock, refresh, latest>> PROVE P'
  BY <1>4, ServeFacts
<1>5. ASSUME NEW c \in Calls, BeaconOk(c) \/ LogoutOk(c) \/ Lose(c) PROVE P'
  <2>1. UNCHANGED row \/ Serve(c)
    BY <1>5 DEF BeaconOk, LogoutOk, Lose
  <2>2. UNCHANGED <<clock, refresh, latest>>
    BY <1>5 DEF BeaconOk, LogoutOk, Lose
  <2> QED
    BY <1>1, <1>4, <2>1, <2>2
<1>6. ASSUME NEW c \in Calls, Deny(c) PROVE P'
  BY <1>1, <1>6 DEF Deny
<1>7. ASSUME NEW t \in Tabs, Refresh(t) PROVE P'
  BY <1>7 DEF Refresh, Renewable
<1>8. ASSUME NEW t \in Tabs, Refused(t) \/ Answer(t) \/ LoseRefresh(t) PROVE P'
  BY <1>1, <1>8 DEF Refused, Answer, LoseRefresh, Abandon
<1>9. ASSUME NEW t \in Tabs, NEW k \in Tokens, Issue(t, k) PROVE P'
  BY <1>9 DEF Issue
<1>10. CASE Tick
  <2>1. \A m, n \in 0..Life : m >= n => Less(m) >= Less(n)
    BY DEF Less
  <2>2. \A n \in 0..Life : (n = 0 /\ Less(n) = 0) \/ Less(n) = n - 1
    BY DEF Less
  <2> QED
    BY <1>10, <2>1, <2>2 DEF Tick
<1>11. CASE UNCHANGED vars
  BY <1>1, <1>11 DEF vars
<1> QED
  BY NextCases, <1>2, <1>3, <1>5, <1>6, <1>7, <1>8, <1>9, <1>10, <1>11

\* The logouts that are the sole ones.  A step that only ends calls, or lets a tab
\* leave "answer", keeps what is known of them.
LEMMA SoleStep ==
  ASSUME TypeOK, [Next]_vars, SoleInv
  PROVE  SoleInv'
<1> USE DEF TypeOK, SoleInv, Open, row, clock, tab
<1>1. ASSUME UNCHANGED <<latest, given, refresh>>, NEW c \in Calls, End(c) PROVE SoleInv'
  BY <1>1 DEF End
<1>2. ASSUME NEW c \in Calls, NEW t \in Tabs, NEW what \in {"beacon", "logout"}, Ask(c, t, what)
      PROVE  SoleInv'
  <2> DEFINE new == [by |-> t, what |-> what, at |-> "asked", token |-> held[t], again |-> FALSE,
                     sole |-> what = "logout" /\ held[t] = latest /\ refresh[t] # "answer"]
  <2>1. /\ new.by = t /\ new.at = "asked" /\ new.token = held[t]
        /\ new.sole => held[t] = latest /\ refresh[t] # "answer"
    OBVIOUS
  <2>2. call' = [call EXCEPT ![c] = new] /\ UNCHANGED <<latest, given, refresh>>
    BY <1>2 DEF Ask
  <2> HIDE DEF new
  <2> QED
    BY <2>1, <2>2
<1>3. ASSUME NEW c \in Calls, Look(c) PROVE SoleInv'
  <2>1. call[c] \in CallType /\ call[c].at = "asked"
    BY <1>3, OpenFacts DEF Look, At
  <2>2. /\ call'[c].by = call[c].by /\ call'[c].at = "found" /\ call'[c].sole = call[c].sole
        /\ \A d \in Calls \ {c} : call'[d] = call[d]
        /\ UNCHANGED <<latest, given, refresh>>
    BY <1>3, <2>1 DEF Look, CallType
  <2> QED
    BY <1>3, <2>1, <2>2 DEF Look, At
<1>4. ASSUME NEW c \in Calls, BeaconOk(c) \/ LogoutOk(c) \/ AlreadyOut(c) \/ DenyOut(c)
                                \/ DenyAgain(c) \/ Lose(c)
      PROVE  SoleInv'
  BY <1>1, <1>4 DEF BeaconOk, LogoutOk, AlreadyOut, DenyOut, DenyAgain, Lose
<1>5. ASSUME NEW c \in Calls, Deny(c) PROVE SoleInv'
  <2>1. call[c] \in CallType /\ call[c].at = "asked" /\ call[c] # NoCall
    BY <1>5, OpenFacts DEF Deny, Denied, Errs, At
  <2>2. /\ call'[c].by = call[c].by /\ call'[c].at = "wait" /\ call'[c].sole = call[c].sole
        /\ \A d \in Calls \ {c} : call'[d] = call[d]
        /\ UNCHANGED <<latest, given>>
        /\ \A t \in Tabs : refresh'[t] = "answer" => refresh[t] = "answer"
    BY <1>5, <2>1 DEF Deny, CallType
  <2>3. \A d \in Calls : Open(d) => call[d].by \in Tabs
    BY OpenFacts DEF CallType
  <2> QED
    BY <2>1, <2>2, <2>3
<1>6. ASSUME NEW t \in Tabs, Refresh(t) PROVE SoleInv'
  BY <1>6, OpenFacts DEF Refresh, CallType
<1>7. ASSUME NEW t \in Tabs, Refused(t) \/ LoseRefresh(t) PROVE SoleInv'
  <2>1. /\ \A c \in Calls : call'[c] \in {call[c], NoCall}
        /\ latest' = latest /\ refresh'[t] = "no"
        /\ \A u \in Tabs \ {t} : refresh'[u] = refresh[u] /\ given'[u] = given[u]
    BY <1>7 DEF Refused, LoseRefresh, Abandon
  <2>2. \A d \in Calls : Open(d) => call[d].by \in Tabs
    BY OpenFacts DEF CallType
  <2> QED
    BY <2>1, <2>2
<1>8. ASSUME NEW t \in Tabs, NEW k \in Tokens, Issue(t, k) PROVE SoleInv'
  <2>1. \A c \in Calls : Open(c) => call[c] \in CallType
    BY OpenFacts
  <2>2. ASSUME NEW c \in Calls, Open(c)', call'[c].sole
        PROVE  call'[c] = call[c] /\ call[c].by = t /\ call[c].at = "wait"
    BY <1>8, <2>1, <2>2 DEF Issue, Supersede, Waiting, CallType
  <2>3. latest' = k /\ given'[t] = k
    BY <1>8 DEF Issue
  <2> QED
    BY <2>2, <2>3
<1>9. ASSUME NEW t \in Tabs, Answer(t) PROVE SoleInv'
  <2>1. \A c \in Calls : Open(c) => call[c] \in CallType
    BY OpenFacts
  <2>2. /\ latest' = latest /\ refresh'[t] = "no" /\ refresh[t] = "answer"
        /\ \A u \in Tabs \ {t} : refresh'[u] = refresh[u] /\ given'[u] = given[u]
    BY <1>9 DEF Answer
  <2>3. \A c \in Calls \ Waiting(t) : call'[c] = call[c]
    BY <1>9 DEF Answer
  <2>4. ASSUME NEW c \in Waiting(t)
        PROVE  /\ call'[c].by = t /\ call'[c].at = "asked" /\ call'[c].token = given[t]
               /\ call'[c].sole = call[c].sole
    BY <1>9, <2>1, <2>4 DEF Answer, Waiting, CallType
  <2>5. ASSUME NEW c \in Waiting(t), call[c].sole
        PROVE  given[t] = latest
    BY <2>2, <2>5 DEF Waiting
  <2>6. ASSUME NEW c \in Waiting(t), call'[c].sole
        PROVE  /\ call'[c].at = "asked" => call'[c].token = latest'
               /\ refresh'[call'[c].by] # "answer"
    BY <2>2, <2>4, <2>5, <2>6
  <2>7. ASSUME NEW c \in Calls \ Waiting(t), Open(c), call[c].sole
        PROVE  /\ call[c].at = "asked" => call[c].token = latest'
               /\ refresh'[call[c].by] = "answer" => call[c].at = "wait" /\ given'[call[c].by] = latest'
    <3>1. call[c].by \in Tabs
      BY <2>1, <2>7 DEF CallType
    <3> QED
      BY <2>2, <2>7, <3>1
  <2> QED
    BY <2>3, <2>6, <2>7
<1>10. CASE Tick
  BY <1>10 DEF Tick
<1>11. CASE UNCHANGED vars
  BY <1>11 DEF vars
<1> QED
  BY NextCases, <1>2, <1>3, <1>4, <1>5, <1>6, <1>7, <1>8, <1>9, <1>10, <1>11

\* A refresh comes to "answer" by Issue only.
LEMMA GivenStep ==
  ASSUME TypeOK, [Next]_vars, GivenInv
  PROVE  GivenInv'
<1> USE DEF TypeOK, GivenInv, row, clock, tab
<1>1. ASSUME \A t \in Tabs : refresh'[t] = "answer" => refresh[t] = "answer" /\ given'[t] = given[t]
      PROVE  GivenInv'
  BY <1>1
<1>2. ASSUME NEW c \in Calls, NEW t \in Tabs, NEW what \in {"beacon", "logout"}, Ask(c, t, what)
      PROVE  GivenInv'
  BY <1>1, <1>2 DEF Ask
<1>3. ASSUME NEW c \in Calls, Look(c) \/ BeaconOk(c) \/ LogoutOk(c) \/ AlreadyOut(c) \/ DenyOut(c)
                                \/ DenyAgain(c) \/ Lose(c)
      PROVE  GivenInv'
  BY <1>1, <1>3 DEF Look, BeaconOk, LogoutOk, AlreadyOut, DenyOut, DenyAgain, Lose
<1>4. ASSUME NEW c \in Calls, Deny(c) PROVE GivenInv'
  BY <1>1, <1>4 DEF Deny
<1>5. ASSUME NEW t \in Tabs, Refresh(t) \/ Refused(t) \/ Answer(t) \/ LoseRefresh(t) PROVE GivenInv'
  BY <1>1, <1>5 DEF Refresh, Refused, Answer, LoseRefresh, Abandon
<1>6. ASSUME NEW t \in Tabs, NEW k \in Tokens, Issue(t, k) PROVE GivenInv'
  BY <1>6 DEF Issue, Tokens, None
<1>7. CASE Tick \/ UNCHANGED vars
  BY <1>1, <1>7 DEF Tick, vars
<1> QED
  BY NextCases, <1>2, <1>3, <1>4, <1>5, <1>6, <1>7

\* A call refused with the token issued last, while that lives, is a beacon of a
\* revoked session.
LEMMA DeniedFacts ==
  ASSUME TypeOK, RowInv, NEW c \in Calls, Denied(c)
  PROVE  Outdated(c)
<1> SUFFICES ASSUME Valid(call[c].token), call[c].token = latest, ~revoked PROVE FALSE
  BY DEF Outdated
<1>1. current = call[c].token /\ expires > 0
  BY DEF TypeOK, RowInv, Valid
<1> QED
  BY <1>1 DEF Denied, Found

\* A call that fails for good has met a trouble.
LEMMA FailsForGood ==
  ASSUME TypeOK, RowInv, NEW c \in Calls, DenyAgain(c) \/ Lose(c)
  PROVE  End(c) /\ Fail(c, TRUE)
<1>1. CASE DenyAgain(c)
  <2>1. Outdated(c) /\ Outdated(c) \in BOOLEAN
    BY <1>1, DeniedFacts DEF DenyAgain, Outdated
  <2>2. Outdated(c) = TRUE
    BY <2>1
  <2> QED
    BY <1>1, <2>2, Zenon DEF DenyAgain
<1> QED
  BY <1>1 DEF Lose

\* Every failure a tab counts is a trouble.
LEMMA TroubleStep ==
  ASSUME TypeOK, [Next]_vars, RowInv, TroubleInv
  PROVE  TroubleInv'
<1> USE LifeAssumption DEF TypeOK, TroubleInv, Leave, row, clock, tab
<1>1. ASSUME UNCHANGED <<fails, trouble>> PROVE TroubleInv'
  BY <1>1
<1>2. ASSUME NEW c \in Calls, NEW t \in Tabs, NEW what \in {"beacon", "logout"}, Ask(c, t, what)
      PROVE  TroubleInv'
  BY <1>1, <1>2 DEF Ask
<1>3. ASSUME NEW c \in Calls, Look(c) \/ Deny(c) \/ DenyOut(c) PROVE TroubleInv'
  BY <1>1, <1>3 DEF Look, Deny, DenyOut
<1>4. ASSUME NEW c \in Calls, BeaconOk(c) \/ LogoutOk(c) \/ AlreadyOut(c) PROVE TroubleInv'
  <2>1. call[c].by \in Tabs
    BY <1>4, OpenFacts DEF BeaconOk, LogoutOk, AlreadyOut, At, CallType
  <2>2. CASE BeaconOk(c)
    BY <2>1, <2>2 DEF BeaconOk
  <2>3. CASE LogoutOk(c)
    BY <2>1, <2>3 DEF LogoutOk
  <2>4. CASE AlreadyOut(c)
    BY <2>1, <2>4 DEF AlreadyOut
  <2> QED
    BY <1>4, <2>2, <2>3, <2>4
<1>5. ASSUME NEW c \in Calls, Open(c), Fail(c, TRUE) PROVE TroubleInv'
  <2>1. call[c].by \in Tabs
    BY <1>5, OpenFacts DEF CallType
  <2> QED
    BY <1>5, <2>1, FailFacts, TRUE \in BOOLEAN
<1>6. ASSUME NEW c \in Calls, DenyAgain(c) \/ Lose(c) PROVE TroubleInv'
  <2>1. Open(c)
    BY <1>6 DEF DenyAgain, Denied, At, Lose
  <2> QED
    BY <1>5, <1>6, <2>1, FailsForGood
<1>8. ASSUME NEW t \in Tabs, Refresh(t) \/ Answer(t) PROVE TroubleInv'
  BY <1>1, <1>8 DEF Refresh, Answer
<1>9. ASSUME NEW t \in Tabs, Refused(t) \/ LoseRefresh(t) PROVE TroubleInv'
  BY <1>9 DEF Refused, LoseRefresh, Abandon
<1>10. ASSUME NEW t \in Tabs, NEW k \in Tokens, Issue(t, k) PROVE TroubleInv'
  BY <1>1, <1>10 DEF Issue
<1>11. CASE Tick \/ UNCHANGED vars
  BY <1>1, <1>11 DEF Tick, vars
<1> QED
  BY NextCases, <1>2, <1>3, <1>4, <1>6, <1>8, <1>9, <1>10, <1>11

\* The inductive invariant: the row names the token issued last and covers it, a
\* logout that no refresh but its own has overtaken carries it, and failures are
\* no more than troubles.
THEOREM SessionCorrect == Spec => []SessionInv
<1>1. TypeOK /\ SessionInv /\ [Next]_vars => SessionInv'
  BY RowStep, SoleStep, GivenStep, TroubleStep DEF SessionInv
<1> QED
  BY <1>1, SessionInit, TypeCorrect, PTL DEF Spec

\* Nothing issued for a revoked session outlives TokenExpiry.
THEOREM LogoutCorrect == Spec => []LogoutHolds
<1>1. SessionInv => LogoutHolds
  BY DEF SessionInv
<1> QED
  BY <1>1, SessionCorrect, PTL

-----------------------------------------------------------------------------
(* How a tab is logged out *)

\* The steps that clear the store of a tab.
LEMMA LeaveCases ==
  ASSUME TypeOK, SessionInv, [Next]_vars, NEW t \in Tabs, held[t] # None, held'[t] = None
  PROVE  \/ Refused(t) \/ LoseRefresh(t)
         \/ \E c \in Calls :
               /\ Open(c) /\ call[c].by = t
               /\ LogoutOk(c) \/ AlreadyOut(c) \/ DenyAgain(c) \/ Lose(c)
<1> USE DEF TypeOK, Leave, row, clock, tab
<1>1. ASSUME held' = held PROVE FALSE
  BY <1>1
<1>2. ASSUME NEW c \in Calls, NEW u \in Tabs, NEW what \in {"beacon", "logout"}, Ask(c, u, what)
      PROVE  FALSE
  BY <1>1, <1>2 DEF Ask
<1>3. ASSUME NEW c \in Calls, Look(c) \/ BeaconOk(c) \/ Deny(c) \/ DenyOut(c) PROVE FALSE
  BY <1>1, <1>3 DEF Look, BeaconOk, Deny, DenyOut
<1>4. ASSUME NEW u \in Tabs, Refresh(u) \/ \E k \in Tokens : Issue(u, k) PROVE FALSE
  BY <1>1, <1>4 DEF Refresh, Issue
<1>5. ASSUME NEW u \in Tabs, Answer(u) PROVE FALSE
  BY <1>5 DEF Answer, SessionInv, GivenInv
<1>6. CASE Tick \/ UNCHANGED vars
  BY <1>1, <1>6 DEF Tick, vars
<1>7. ASSUME NEW u \in Tabs, Refused(u) \/ LoseRefresh(u) PROVE u = t
  BY <1>7 DEF Refused, LoseRefresh, Abandon
<1>8. ASSUME NEW c \in Calls, LogoutOk(c) \/ AlreadyOut(c) PROVE Open(c) /\ call[c].by = t
  BY <1>8 DEF LogoutOk, AlreadyOut, At
<1>9. ASSUME NEW c \in Calls, DenyAgain(c) \/ Lose(c) PROVE Open(c) /\ call[c].by = t
  <2>1. Open(c) /\ \E troubled \in BOOLEAN : Fail(c, troubled)
    <3>1. Outdated(c) \in BOOLEAN /\ TRUE \in BOOLEAN
      BY DEF Outdated
    <3> QED
      BY <1>9, <3>1 DEF DenyAgain, Denied, At, Lose
  <2> QED
    BY <2>1, FailFacts
<1> QED
  BY NextCases, <1>2, <1>3, <1>4, <1>5, <1>6, <1>7, <1>8, <1>9

\* A beacon clears the store at the last failure AuthGuard bears, and then that many
\* were troubles.
LEMMA LastFailure ==
  ASSUME TypeOK, SessionInv, NEW c \in Calls, Open(c), Beacon(c), Fail(c, TRUE),
         held[call[c].by] # None, held'[call[c].by] = None
  PROVE  trouble'[call[c].by] = MaxFailures
<1> DEFINE t == call[c].by
<1>1. t \in Tabs
  BY OpenFacts DEF CallType
<1>2. fails[t] <= trouble[t]
  BY <1>1 DEF SessionInv, TroubleInv
<1>3. ~Logout(c) /\ held' # held
  BY <1>1 DEF Beacon, Logout
<1>4. fails[t] = MaxFailures - 1 /\ Leave(t, TRUE /\ trouble[t] >= MaxFailures - 1)
  BY <1>3 DEF Fail
<1> QED
  BY <1>1, <1>2, <1>4, LifeAssumption DEF TypeOK, Leave

\* No step of Session logs a tab out without one of the four reasons.
THEOREM KeptCorrect == Spec => KeptLoggedIn
<1> DEFINE Kept == \A t \in Tabs : held[t] # None /\ held'[t] = None =>
                      \/ \E c \in Calls : Logout(c) /\ call[c].by = t /\ call'[c] = NoCall
                      \/ revoked'
                      \/ refreshTtl = 0
                      \/ trouble'[t] = MaxFailures
<1>1. TypeOK /\ SessionInv /\ [Next]_vars => Kept
  <2> SUFFICES ASSUME TypeOK, SessionInv, [Next]_vars,
                      NEW t \in Tabs, held[t] # None, held'[t] = None
               PROVE  \/ \E c \in Calls : Logout(c) /\ call[c].by = t /\ call'[c] = NoCall
                      \/ revoked'
                      \/ refreshTtl = 0
                      \/ trouble'[t] = MaxFailures
    OBVIOUS
  <2>1. CASE Refused(t)
    <3>1. revoked \/ refreshTtl = 0
      BY <2>1 DEF TypeOK, Refused, Renewable
    <3> QED
      BY <2>1, <3>1 DEF Refused, Abandon, row
  <2>2. CASE LoseRefresh(t)
    BY <2>2 DEF TypeOK, LoseRefresh, Abandon, Leave
  <2>3. ASSUME NEW c \in Calls, End(c)
        PROVE  call'[c] = NoCall
    BY <2>3 DEF TypeOK, End
  <2>4. ASSUME NEW c \in Calls, LogoutOk(c) \/ AlreadyOut(c)
        PROVE  Logout(c) /\ End(c)
    BY <2>4 DEF LogoutOk, AlreadyOut
  <2>5. ASSUME NEW c \in Calls, DenyAgain(c) \/ Lose(c)
        PROVE  End(c) /\ Fail(c, TRUE)
    BY <2>5, FailsForGood DEF SessionInv
  <2>6. ASSUME NEW c \in Calls, Open(c), call[c].by = t, Fail(c, TRUE), ~Logout(c)
        PROVE  trouble'[t] = MaxFailures
    <3>1. Beacon(c)
      BY <2>6, OpenFacts DEF CallType, Beacon, Logout
    <3> QED
      BY <2>6, <3>1, LastFailure
  <2> QED
    BY LeaveCases, <2>1, <2>2, <2>3, <2>4, <2>5, <2>6
<1> QED
  BY <1>1, TypeCorrect, SessionCorrect, PTL DEF Spec, KeptLoggedIn

\* The steps that end a call.
LEMMA EndCases ==
  ASSUME TypeOK, [Next]_vars, NEW c \in Calls, Open(c), call'[c] = NoCall
  PROVE  \/ BeaconOk(c) \/ LogoutOk(c) \/ AlreadyOut(c) \/ DenyOut(c) \/ DenyAgain(c) \/ Lose(c)
         \/ \E t \in Tabs : c \in Waiting(t) /\ (Refused(t) \/ LoseRefresh(t))
<1>0. call[c] \in CallType /\ call[c] # NoCall
  BY OpenFacts DEF Open
<1> USE DEF TypeOK, row, clock, tab
<1>1. ASSUME call'[c] = call[c] PROVE FALSE
  BY <1>0, <1>1
<1>2. ASSUME call'[c] \in CallType PROVE FALSE
  BY <1>2, NoCallFacts
<1>3. ASSUME NEW d \in Calls, NEW t \in Tabs, NEW what \in {"beacon", "logout"}, Ask(d, t, what)
      PROVE  FALSE
  <2>1. d # c
    BY <1>3 DEF Ask
  <2> QED
    BY <1>1, <1>3, <2>1 DEF Ask
<1>4. ASSUME NEW d \in Calls, Look(d) \/ Deny(d) PROVE FALSE
  <2>1. CASE d = c
    <3>1. call'[c] = [call[c] EXCEPT !.at = "found", !.token = None, !.again = FALSE]
          \/ call'[c] = [call[c] EXCEPT !.at = "wait", !.token = None]
      BY <1>4, <2>1 DEF Look, Deny
    <3> QED
      BY <1>0, <1>2, <3>1 DEF CallType
  <2>2. CASE d # c
    BY <1>1, <1>4, <2>2 DEF Look, Deny
  <2> QED
    BY <2>1, <2>2
<1>5. ASSUME NEW d \in Calls, BeaconOk(d) \/ LogoutOk(d) \/ AlreadyOut(d) \/ DenyOut(d)
                                \/ DenyAgain(d) \/ Lose(d)
      PROVE  d = c
  <2>1. End(d)
    BY <1>5 DEF BeaconOk, LogoutOk, AlreadyOut, DenyOut, DenyAgain, Lose
  <2> QED
    BY <1>1, <2>1 DEF End
<1>6. ASSUME NEW t \in Tabs, Refused(t) \/ LoseRefresh(t) PROVE c \in Waiting(t)
  BY <1>1, <1>6 DEF Refused, LoseRefresh, Abandon
<1>7. ASSUME NEW t \in Tabs, Refresh(t) PROVE FALSE
  BY <1>1, <1>7 DEF Refresh
<1>8. ASSUME NEW t \in Tabs, NEW k \in Tokens, Issue(t, k) PROVE FALSE
  <2>1. call'[c] \in {call[c], [call[c] EXCEPT !.sole = FALSE]}
    BY <1>8 DEF Issue, Supersede
  <2> QED
    BY <1>0, <1>2, <2>1 DEF CallType
<1>9. ASSUME NEW t \in Tabs, Answer(t) PROVE FALSE
  <2> DEFINE new == [call[c] EXCEPT !.at = "asked", !.token = given[t], !.again = TRUE]
  <2>1. given[t] \in Tokens \cup {None}
    OBVIOUS
  <2>2. new \in CallType
    BY <1>0, <2>1 DEF CallType
  <2>3. call'[c] \in {call[c], new}
    BY <1>9 DEF Answer
  <2> QED
    BY <1>0, <1>2, <2>2, <2>3
<1>10. CASE Tick \/ UNCHANGED vars
  BY <1>1, <1>10 DEF Tick, vars
<1> QED
  BY NextCases, <1>3, <1>4, <1>5, <1>6, <1>7, <1>8, <1>9, <1>10

\* A logout that fails for good in a tab still logged in is a trouble.
LEMMA FailedLogout ==
  ASSUME TypeOK, NEW c \in Calls, Open(c), Logout(c), Fail(c, TRUE), held[call[c].by] # None
  PROVE  trouble'[call[c].by] = MaxFailures
<1>1. call[c].by \in Tabs
  BY OpenFacts DEF CallType
<1>2. Leave(call[c].by, TRUE)
  BY DEF Fail, Beacon, Logout
<1> QED
  BY <1>1, <1>2 DEF TypeOK, Leave

\* However calls and refreshes of however many tabs overtake each other, a logout
\* that no refresh but its own has overtaken revokes the row, unless it or that
\* refresh is lost or the refresh token has expired.
THEOREM RevokesCorrect == Spec => LogoutRevokes
<1> DEFINE Revokes == \A c \in Calls :
                         /\ Open(c) /\ call'[c] = NoCall
                         /\ Logout(c) /\ call[c].sole
                         /\ held[call[c].by] # None
                         /\ trouble'[call[c].by] # MaxFailures
                         => revoked' \/ refreshTtl = 0
<1>1. TypeOK /\ SessionInv /\ [Next]_vars => Revokes
  <2> SUFFICES ASSUME TypeOK, SessionInv, [Next]_vars, NEW c \in Calls, Open(c), call'[c] = NoCall,
                      Logout(c), call[c].sole, held[call[c].by] # None,
                      trouble'[call[c].by] # MaxFailures
               PROVE  revoked' \/ refreshTtl = 0
    OBVIOUS
  <2>1. CASE BeaconOk(c)
    BY <2>1 DEF BeaconOk, Beacon, Logout
  <2>2. CASE LogoutOk(c)
    BY <2>2, ServeFacts DEF LogoutOk, Beacon, Logout
  <2>3. CASE AlreadyOut(c)
    <3>1. call[c].token = current /\ ttl[current] > 0 /\ expires >= ttl[current]
      BY <2>3 DEF AlreadyOut, At, Valid, SessionInv, RowInv, SoleInv
    <3>2. ~Found(call[c].token) /\ UNCHANGED row
      BY <2>3 DEF AlreadyOut
    <3>3. expires > 0
      BY <3>1 DEF TypeOK
    <3> QED
      BY <3>1, <3>2, <3>3 DEF Found, row
  <2>4. CASE DenyOut(c)
    BY <2>4 DEF DenyOut
  <2>5. CASE DenyAgain(c)
    BY <2>5, FailsForGood, FailedLogout DEF SessionInv
  <2>6. CASE Lose(c)
    BY <2>6, FailsForGood, FailedLogout DEF SessionInv
  <2>7. ASSUME NEW t \in Tabs, c \in Waiting(t), Refused(t)
        PROVE  revoked' \/ refreshTtl = 0
    BY <2>7 DEF TypeOK, Refused, Renewable, Abandon, row
  <2>8. ASSUME NEW t \in Tabs, c \in Waiting(t), LoseRefresh(t)
        PROVE  trouble'[call[c].by] = MaxFailures
    BY <2>8 DEF TypeOK, LoseRefresh, Abandon, Leave, Waiting
  <2> QED
    BY EndCases, <2>1, <2>2, <2>3, <2>4, <2>5, <2>6, <2>7, <2>8
<1> QED
  BY <1>1, TypeCorrect, SessionCorrect, PTL DEF Spec, LogoutRevokes

=============================================================================
