-------------------------- MODULE LogCaptureProofs --------------------------
(***************************************************************************)
(* Proofs about LogCapture, for any number of captures that run at a time  *)
(* and windows of any length.                                              *)
(***************************************************************************)
EXTENDS LogCapture, TLAPS

LEMMA TypeInit == Init => TypeOK
<1>1. 0 \in Ticks
  BY WindowAssumption DEF Ticks
<1> QED
  BY <1>1 DEF Init, TypeOK

LEMMA TypeStep == TypeOK /\ [Next]_vars => TypeOK'
<1> SUFFICES ASSUME TypeOK, [Next]_vars PROVE TypeOK'
  OBVIOUS
<1> USE WindowAssumption, NoneAssumption DEF TypeOK, Ticks, Goto, row, notes
<1>1. ASSUME NEW minutes \in 0..(Window + 1), StartLogCapture(minutes) PROVE TypeOK'
  BY <1>1 DEF StartLogCapture, Allowed
<1>2. CASE Reregister \/ GetConfig \/ AnswerLost \/ Signal \/ Boot
  BY <1>2 DEF Reregister, GetConfig, AnswerLost, Signal, Boot
<1>8. CASE Exit
  BY <1>8 DEF Exit
<1>9. CASE RestartATS
  BY <1>9 DEF RestartATS
<1>3. ASSUME NEW c \in Captures, Capture(c) PROVE TypeOK'
  BY <1>3 DEF Capture
<1>4. ASSUME NEW c \in Captures, EnableOk(c) \/ TagsOk(c) \/ End(c) \/ DisableOk(c) PROVE TypeOK'
  BY <1>4 DEF EnableOk, TagsOk, End, DisableOk, Debug
<1>5. ASSUME NEW c \in Captures, EnableFail(c) \/ TagsFail(c) \/ DisableFail(c) PROVE TypeOK'
  BY <1>5 DEF EnableFail, TagsFail, DisableFail, DebugFails
<1>6. CASE Tick
  <2>1. \A n \in 0..Window : Less(n) \in 0..Window
    BY DEF Less
  <2> QED
    BY <1>6, <2>1 DEF Tick
<1>7. CASE UNCHANGED vars
  BY <1>7 DEF vars
<1> QED
  BY <1>1, <1>2, <1>3, <1>4, <1>5, <1>6, <1>7, <1>8, <1>9 DEF Next

\* Every reachable state of a capture is well typed.
THEOREM TypeCorrect == Spec => []TypeOK
  BY TypeInit, TypeStep, PTL DEF Spec

-----------------------------------------------------------------------------
(* Debug on behalf of a capture *)

LEMMA OwnerStep == TypeOK /\ DebugHasOwner /\ [Next]_vars => DebugHasOwner'
<1> SUFFICES ASSUME TypeOK, DebugHasOwner, [Next]_vars, ~disturbed', debug'
             PROVE  \E d \in Captures : pc'[d] \in {"tags", "run", "disable"}
  BY DEF DebugHasOwner
<1> USE DEF TypeOK, DebugHasOwner, Goto, row, notes
<1>1. ASSUME NEW minutes \in 0..(Window + 1), StartLogCapture(minutes)
      PROVE  \E d \in Captures : pc'[d] \in {"tags", "run", "disable"}
  BY <1>1 DEF StartLogCapture
<1>2. CASE Reregister \/ GetConfig \/ AnswerLost \/ Signal \/ Boot \/ Tick
  BY <1>2 DEF Reregister, GetConfig, AnswerLost, Signal, Boot, Tick
<1>3. CASE Exit \/ RestartATS
  BY <1>3 DEF Exit, RestartATS, Active
<1>4. ASSUME NEW c \in Captures, Capture(c) \/ EnableOk(c) \/ TagsOk(c) \/ End(c) \/ DisableOk(c)
      PROVE  \E d \in Captures : pc'[d] \in {"tags", "run", "disable"}
  BY <1>4 DEF Capture, EnableOk, TagsOk, End, DisableOk, Debug
<1>5. ASSUME NEW c \in Captures, EnableFail(c) \/ TagsFail(c) \/ DisableFail(c) PROVE FALSE
  BY <1>5 DEF EnableFail, TagsFail, DisableFail, DebugFails
<1>6. CASE UNCHANGED vars
  BY <1>6 DEF vars
<1> QED
  BY <1>1, <1>2, <1>3, <1>4, <1>5, <1>6 DEF Next

\* Undisturbed, debug is on only while a capture runs that will switch it off.
THEOREM OwnerCorrect == Spec => []DebugHasOwner
<1>1. Init => DebugHasOwner
  BY DEF Init, DebugHasOwner
<1> QED
  BY <1>1, OwnerStep, TypeCorrect, PTL DEF Spec

-----------------------------------------------------------------------------
(* One deadline *)

LEMMA LessFacts ==
  ASSUME NEW m \in Ticks, NEW n \in Ticks
  PROVE  /\ m = n => Less(m) = Less(n)
         /\ Less(m) # 0 => m # 0
         /\ Less(m) > 0 => m > 0
         /\ m = 0 => Less(m) = 0
         /\ Less(m) \in Ticks
  BY WindowAssumption DEF Less, Ticks


LEMMA CaptureStep == TypeOK /\ TypeOK' /\ CaptureInv /\ [Next]_vars => CaptureInv'
<1> SUFFICES ASSUME TypeOK, TypeOK', CaptureInv, [Next]_vars PROVE CaptureInv'
  OBVIOUS
<1> USE WindowAssumption, NoneAssumption DEF TypeOK, CaptureInv, OneDeadline, Active, Goto, row, notes
<1>1. ASSUME NEW minutes \in 0..(Window + 1), StartLogCapture(minutes) PROVE CaptureInv'
  BY <1>1 DEF StartLogCapture
<1>2. CASE Reregister \/ AnswerLost \/ Signal \/ Boot \/ RestartATS
  BY <1>2 DEF Reregister, AnswerLost, Signal, Boot, RestartATS
<1>3. CASE GetConfig
  BY <1>3 DEF GetConfig, Ticks
<1>4. CASE Exit
  BY <1>4 DEF Exit
<1>5. ASSUME NEW c \in Captures, Capture(c) PROVE CaptureInv'
  BY <1>5 DEF Capture
<1>6. ASSUME NEW c \in Captures, EnableOk(c) PROVE CaptureInv'
  BY <1>6 DEF EnableOk, Debug
<1>7. ASSUME NEW c \in Captures, TagsOk(c) PROVE CaptureInv'
  BY <1>7 DEF TagsOk, Debug
<1>8. ASSUME NEW c \in Captures, End(c) PROVE CaptureInv'
  BY <1>8 DEF End, Over, Debug
<1>9. ASSUME NEW c \in Captures, DisableOk(c) PROVE CaptureInv'
  <2>1. \A d \in Captures : pc[d] # "free" /\ ~reopened => left[d] = left[c]
    BY <1>9 DEF DisableOk
  <2>2. helper = "up" => left[c] = 0
    BY <1>9 DEF DisableOk
  <2> QED
    BY <1>9, <2>1, <2>2 DEF DisableOk, Debug
<1>10. ASSUME NEW c \in Captures, EnableFail(c) \/ TagsFail(c) \/ DisableFail(c) PROVE CaptureInv'
  BY <1>10 DEF EnableFail, TagsFail, DisableFail, DebugFails
<1>11. CASE Tick
  <2>1. \A c, d \in Captures : left[c] = left[d] => left'[c] = left'[d]
    BY <1>11, LessFacts DEF Tick
  <2>2. \A c \in Captures : /\ answer # None /\ answer = left[c] => answer' = left'[c]
                            /\ until = left[c] => until' = left'[c]
                            /\ left'[c] > 0 => left[c] > 0
                            /\ left[c] = 0 => left'[c] = 0
    BY <1>11, LessFacts DEF Tick
  <2>3. /\ (answer' # None) <=> (answer # None)
        /\ answer # None /\ until = answer => until' = answer'
    <3>1. CASE answer = None
      BY <1>11, <3>1 DEF Tick
    <3>2. CASE answer # None
      <4>1. answer \in Ticks /\ answer' = Less(answer) /\ until' = Less(until)
        BY <1>11, <3>2 DEF Tick
      <4>2. answer' # None
        BY <4>1, LessFacts DEF Ticks
      <4> QED
        BY <3>2, <4>1, <4>2
    <3> QED
      BY <3>1, <3>2
  <2>4. until' # 0 => until # 0
    BY <1>11, LessFacts DEF Tick
  <2>5. UNCHANGED <<helper, pc, debug, disturbed, reopened>>
    BY <1>11 DEF Tick
  <2> QED
    BY <2>1, <2>2, <2>3, <2>4, <2>5
<1>12. CASE UNCHANGED vars
  BY <1>12 DEF vars
<1> QED
  BY <1>1, <1>2, <1>3, <1>4, <1>5, <1>6, <1>7, <1>8, <1>9, <1>10, <1>11, <1>12 DEF Next

\* The inductive invariant: captures that run together have one deadline.
THEOREM CaptureCorrect == Spec => []CaptureInv
<1>1. Init => CaptureInv
  BY DEF Init, CaptureInv, OneDeadline, Active
<1> QED
  BY <1>1, CaptureStep, TypeCorrect, PTL DEF Spec

\* No capture switches debug off under another one of its window.
THEOREM SeesCorrect == Spec => []CaptureSeesDebug
<1>1. CaptureInv => CaptureSeesDebug
  BY DEF CaptureInv, CaptureSeesDebug
<1> QED
  BY <1>1, CaptureCorrect, PTL

=============================================================================
