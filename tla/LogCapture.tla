----------------------------- MODULE LogCapture -----------------------------
(***************************************************************************)
(* The capture of debug logs on one proxy: an administrator opens a window *)
(* (capture_logs_until), every sync within it starts a goroutine of the    *)
(* helper (captureAndSendLogs), and each of these switches the debug       *)
(* setting of ATS on, sends logs until its copy of the deadline, and       *)
(* switches the setting off.                                               *)
(*                                                                         *)
(* Any traffic_ctl command may fail, with or without an effect; the helper *)
(* may be killed, or stopped in an orderly way, but main does not wait for *)
(* its goroutines; ATS may be restarted.                                   *)
(*                                                                         *)
(* Abstractions                                                            *)
(*  - Time is a number of ticks; a deadline is the number of ticks left.   *)
(*  - The lines captured are left out: they are only appended, listed and  *)
(*    deleted when they expire.                                            *)
(***************************************************************************)
EXTENDS Integers

CONSTANTS
    Captures,   \* goroutines: bounds those that run at one time
    Window,     \* the longest window, five minutes
    None

ASSUME WindowAssumption == Window \in Nat \ {0}
ASSUME NoneAssumption == None \notin 0..Window

VARIABLES
    until,      \* capture_logs_until
    answer,     \* capture_until of an answer to doSync, or None
    helper,     \* the process: up, stopping or down
    pc,         \* where each capture is
    left,       \* its copy of the deadline
    debug,      \* proxy.config.diags.debug.enabled of ATS
    disturbed,  \* history: a command failed, captures were killed, ATS restarted
    reopened    \* history: a window was opened over captures of another one

row   == <<until>>
notes == <<disturbed, reopened>>
vars  == <<until, answer, helper, pc, left, debug, disturbed, reopened>>

Ticks == 0..Window

TypeOK ==
    /\ until \in Ticks
    /\ answer \in Ticks \cup {None}
    /\ helper \in {"up", "stopping", "down"}
    /\ pc \in [Captures -> {"free", "enable", "tags", "run", "disable"}]
    /\ left \in [Captures -> Ticks]
    /\ debug \in BOOLEAN
    /\ disturbed \in BOOLEAN
    /\ reopened \in BOOLEAN

Init ==
    /\ until = 0
    /\ answer = None
    /\ helper = "up"
    /\ pc = [c \in Captures |-> "free"]
    /\ left = [c \in Captures |-> 0]
    /\ debug = FALSE
    /\ disturbed = FALSE
    /\ reopened = FALSE

Active == {c \in Captures : pc[c] # "free"}

Goto(c, step) == pc' = [pc EXCEPT ![c] = step]

-----------------------------------------------------------------------------
(* The backend *)

\* The handler takes 0 for the default.
Requested(minutes) == IF minutes = 0 THEN Window ELSE minutes

\* Faulty variant of Allowed: no upper limit.
AllowedAny(minutes) == minutes > 0

Allowed(minutes) == minutes \in 1..Window

\* The new deadline replaces the old one, be it earlier or later.
StartLogCapture(minutes) ==
    /\ Allowed(Requested(minutes))
    /\ until' = Requested(minutes)
    /\ reopened' = (reopened \/ Active # {} \/ answer # None)
    /\ UNCHANGED <<answer, helper, pc, left, debug, disturbed>>

\* The row is deleted; the helper registers again with a new one.
Reregister ==
    /\ until' = 0
    /\ UNCHANGED <<answer, helper, pc, left, debug, notes>>

\* Faulty variant of GetConfig: the deadline is not compared with the clock.
GetConfigAlways ==
    /\ helper = "up"
    /\ answer = None
    /\ answer' = until
    /\ UNCHANGED <<row, helper, pc, left, debug, notes>>

\* GetConfig tells of a window that is still open.
GetConfig ==
    /\ helper = "up"
    /\ answer = None
    /\ until > 0
    /\ answer' = until
    /\ UNCHANGED <<row, helper, pc, left, debug, notes>>

-----------------------------------------------------------------------------
(* The helper *)

AnswerLost ==
    /\ answer # None
    /\ answer' = None
    /\ UNCHANGED <<row, helper, pc, left, debug, notes>>

\* doSync: a goroutine for every answer with capture_logs.
Capture(c) ==
    /\ answer # None
    /\ pc[c] = "free"
    /\ Goto(c, "enable")
    /\ left' = [left EXCEPT ![c] = answer]
    /\ answer' = None
    /\ UNCHANGED <<row, helper, debug, notes>>

Debug(value) == debug' = value /\ UNCHANGED <<row, answer, helper, left, notes>>

\* A command that reports an error may have had its effect.
DebugFails(values) ==
    /\ debug' \in values
    /\ disturbed' = TRUE
    /\ UNCHANGED <<row, answer, helper, left, reopened>>

EnableOk(c) ==
    /\ pc[c] = "enable"
    /\ Goto(c, "tags")
    /\ Debug(TRUE)

EnableFail(c) ==
    /\ pc[c] = "enable"
    /\ Goto(c, "free")
    /\ DebugFails({TRUE, debug})

TagsOk(c) ==
    /\ pc[c] = "tags"
    /\ Goto(c, "run")
    /\ Debug(debug)

\* EnableDebug fails half way: the deferred DisableDebug is not yet in place.
TagsFail(c) ==
    /\ pc[c] = "tags"
    /\ Goto(c, "free")
    /\ DebugFails({debug})

\* Faulty variant of Over: a capture ends one tick before its deadline.
OverEarly(c) == left[c] <= 1 \/ helper = "stopping"

\* The deadline has passed, or the context was cancelled.
Over(c) == left[c] = 0 \/ helper = "stopping"

End(c) ==
    /\ pc[c] = "run"
    /\ Over(c)
    /\ Goto(c, "disable")
    /\ Debug(debug)

\* Faulty variant of DisableOk: the setting is left as it is.
DisableNothing(c) ==
    /\ pc[c] = "disable"
    /\ Goto(c, "free")
    /\ Debug(debug)

DisableOk(c) ==
    /\ pc[c] = "disable"
    /\ Goto(c, "free")
    /\ Debug(FALSE)

\* The error is only logged.
DisableFail(c) ==
    /\ pc[c] = "disable"
    /\ Goto(c, "free")
    /\ DebugFails({FALSE, debug})

\* SIGTERM cancels the context.
Signal ==
    /\ helper = "up"
    /\ helper' = "stopping"
    /\ UNCHANGED <<row, answer, pc, left, debug, notes>>

\* main returns, or the helper is killed: with it go its captures.
Exit ==
    /\ helper # "down"
    /\ helper' = "down"
    /\ answer' = None
    /\ pc' = [c \in Captures |-> "free"]
    /\ disturbed' = (disturbed \/ Active # {})
    /\ UNCHANGED <<row, left, debug, reopened>>

Boot ==
    /\ helper = "down"
    /\ helper' = "up"
    /\ UNCHANGED <<row, answer, pc, left, debug, notes>>

-----------------------------------------------------------------------------
(* Around them *)

\* The settings of a restarted ATS are those of its files, or those set last.
RestartATS ==
    /\ debug' \in {FALSE, debug}
    /\ disturbed' = TRUE
    /\ UNCHANGED <<row, answer, helper, pc, left, reopened>>

Less(n) == IF n = 0 THEN 0 ELSE n - 1

Tick ==
    /\ until' = Less(until)
    /\ answer' = IF answer = None THEN None ELSE Less(answer)
    /\ left' = [c \in Captures |-> Less(left[c])]
    /\ UNCHANGED <<helper, pc, debug, notes>>

-----------------------------------------------------------------------------
Next ==
    \/ \E minutes \in 0..(Window + 1) : StartLogCapture(minutes)
    \/ Reregister
    \/ GetConfig
    \/ AnswerLost
    \/ \E c \in Captures :
          \/ Capture(c)
          \/ EnableOk(c)
          \/ EnableFail(c)
          \/ TagsOk(c)
          \/ TagsFail(c)
          \/ End(c)
          \/ DisableOk(c)
          \/ DisableFail(c)
    \/ Signal
    \/ Exit
    \/ Boot
    \/ RestartATS
    \/ Tick

Spec == Init /\ [][Next]_vars

\* Time passes, an answer is handled or lost, and a goroutine goes on to its
\* next command; nothing is assumed of users, failures, kills and restarts.
Fairness ==
    /\ WF_vars(Tick)
    /\ WF_vars(AnswerLost \/ \E c \in Captures : Capture(c))
    /\ \A c \in Captures :
          WF_vars(\/ EnableOk(c) \/ EnableFail(c) \/ TagsOk(c) \/ TagsFail(c)
                  \/ End(c) \/ DisableOk(c) \/ DisableFail(c))

FairSpec == Spec /\ Fairness

-----------------------------------------------------------------------------
(* Safety *)

\* Debug is on only on behalf of a capture that will still switch it off, while
\* no command failed and no capture was killed (captureAndSendLogs installs
\* the deferred DisableDebug only after EnableDebug as a whole).
DebugHasOwner ==
    ~disturbed /\ debug => \E c \in Captures : pc[c] \in {"tags", "run", "disable"}

\* A capture in its window has debug on: the captures of one window end
\* together, so that none switches it off under another - as long as no window
\* is opened over the captures of an earlier one.
CaptureSeesDebug ==
    ~disturbed /\ ~reopened /\ helper = "up" =>
        \A c \in Captures : pc[c] = "run" /\ left[c] > 0 => debug

\* Why it holds: there is one deadline.
OneDeadline ==
    ~reopened =>
        /\ \A c, d \in Active : left[c] = left[d]
        /\ \A c \in Active : answer # None => answer = left[c]
        /\ \A c \in Active : until # 0 => until = left[c]
        /\ answer # None /\ until # 0 => until = answer

CaptureInv ==
    /\ OneDeadline
    /\ helper = "up" => \A c \in Captures : pc[c] = "disable" => left[c] = 0
    /\ helper = "down" => Active = {} /\ answer = None
    /\ ~disturbed /\ ~reopened /\ helper = "up" =>
          \A c \in Captures : pc[c] \in {"tags", "run"} /\ left[c] > 0 => debug

-----------------------------------------------------------------------------
(* Liveness *)

\* "Após 5 minutos ... debug.enabled 0" (docs/SEQUENCES.md): when no window is
\* opened any more, debug goes off for good, also when windows overlapped and
\* the helper was stopped between captures - if nothing was disturbed.
DebugEnds == [](~disturbed) /\ <>[](until = 0) => <>[]~debug

=============================================================================
