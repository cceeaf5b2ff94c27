----------------------------- MODULE ThreadSignals -----------------------------
(***************************************************************************)
(* The signal flags of an rtos::Thread (PeachCam/rtos/Thread.cpp) and the  *)
(* loop of TaskThread::Main (PeachCam/src/TaskBase.cpp) that waits for     *)
(* them, one action per access to the shared word _flags or to the Win32   *)
(* event _evf.  Main always waits with signals = 0, "any signal", so the   *)
(* retry loop of signal_wait runs once and its clear mask covers every     *)
(* InterTaskSignals bit.  _count is not modelled: signal_wait is static    *)
(* and waits on the calling thread's own event, so a thread has at most    *)
(* one waiter and count == 0 whenever the code tests it.                   *)
(***************************************************************************)
CONSTANTS
    Signals,        \* the bits of InterTaskSignals
    Senders,        \* other threads and driver callbacks calling Signal
    Owner,          \* the thread itself, whose handlers may call Signal too
    Timers,         \* kinds of time-out GetTimer may return
    WaitMayFail     \* whether WaitForSingleObject may return WAIT_FAILED

ASSUME OwnerAssumption == Owner \notin Senders
ASSUME TimersAssumption == Timers \subseteq {"forever", "finite", "zero"}
ASSUME WaitMayFailAssumption == WaitMayFail \in BOOLEAN

Callers == Senders \cup {Owner}

VARIABLES
    flags,      \* Thread::_flags, as a set of signals
    evf,        \* Thread::_evf, an auto-reset event
    pc,         \* where the owner is in Main or signal_wait
    timer,      \* the time-out passed to signal_wait
    status,     \* result.status of signal_wait
    value,      \* result.value.signals of signal_wait
    calls       \* per caller, whether it is inside signal_set

vars == <<flags, evf, pc, timer, status, value, calls>>

TypeOK ==
    /\ flags \subseteq Signals
    /\ evf \in BOOLEAN
    /\ pc \in {"top", "blocked", "reset", "snapshot", "clear",
               "handle", "withdraw", "process", "ended"}
    /\ timer \in {"forever", "finite", "zero"}
    /\ status \in {"ok", "signal", "timeout", "error"}
    /\ pc \in {"reset", "snapshot", "handle", "withdraw"} => status = "signal"
    /\ value \subseteq Signals
    /\ calls \in [Callers -> {"outside", "ored"}]

Init ==
    /\ flags = {}
    /\ evf = FALSE
    /\ pc = "top"
    /\ timer = "zero"
    /\ status = "ok"
    /\ value = {}
    /\ calls = [c \in Callers |-> "outside"]

--------------------------------------------------------------------------------
(***************************************************************************)
(* signal_set: the flag is set first, the event second.                    *)
(***************************************************************************)
\* The owner signals itself only from its handlers.
MayCall(c) ==
    /\ calls[c] = "outside"
    /\ c = Owner => pc \in {"handle", "process"}

OrFlags(c, s) ==
    /\ MayCall(c)
    /\ flags' = flags \cup {s}
    /\ calls' = [calls EXCEPT ![c] = "ored"]
    /\ UNCHANGED <<evf, pc, timer, status, value>>

SetEvent(c) ==
    /\ calls[c] = "ored"
    /\ evf' = TRUE
    /\ calls' = [calls EXCEPT ![c] = "outside"]
    /\ UNCHANGED <<flags, pc, timer, status, value>>

--------------------------------------------------------------------------------
(***************************************************************************)
(* The owner.  It makes no step of its own while inside signal_set.        *)
(***************************************************************************)
OwnerAt(label) ==
    /\ pc = label
    /\ calls[Owner] = "outside"

\* InterlockedAnd(&_flags, ~mask)
WithoutNoComplement(word, mask) == word \cap mask

Without(word, mask) == word \ mask

\* signal_wait with an elapsed deadline: it returns before waiting, without
\* touching the event or the flags.  A zero time-out always does; a finite
\* one does when the thread was held up between the two clock readings.
ReturnAtOnce ==
    /\ OwnerAt("top")
    /\ timer' \in Timers \cap {"finite", "zero"}
    /\ value' = flags
    /\ status' = "timeout"
    /\ pc' = "process"
    /\ UNCHANGED <<flags, evf, calls>>

Block ==
    /\ OwnerAt("top")
    /\ timer' \in Timers \cap {"forever", "finite"}
    /\ value' = flags
    /\ pc' = "blocked"
    /\ UNCHANGED <<flags, evf, status, calls>>

\* WAIT_OBJECT_0: the auto-reset event is consumed.
Awake ==
    /\ OwnerAt("blocked")
    /\ evf
    /\ evf' = FALSE
    /\ status' = "signal"
    /\ pc' = "reset"
    /\ UNCHANGED <<flags, timer, value, calls>>

\* WAIT_TIMEOUT: "continue" leaves the loop, since waits == 0, and the value
\* stays that of the entry.
TimeOut ==
    /\ OwnerAt("blocked")
    /\ timer = "finite"
    /\ ~evf
    /\ status' = "timeout"
    /\ pc' = "clear"
    /\ UNCHANGED <<flags, evf, timer, value, calls>>

\* WAIT_FAILED: signal_wait returns osError and Main leaves its loop.
Fail ==
    /\ OwnerAt("blocked")
    /\ WaitMayFail
    /\ status' = "error"
    /\ pc' = "ended"
    /\ UNCHANGED <<flags, evf, timer, value, calls>>

ResetEvent ==
    /\ OwnerAt("reset")
    /\ evf' = FALSE
    /\ pc' = "snapshot"
    /\ UNCHANGED <<flags, timer, status, value, calls>>

SnapshotForgotten ==
    /\ OwnerAt("snapshot")
    /\ pc' = "clear"
    /\ UNCHANGED <<flags, evf, timer, status, value, calls>>

Snapshot ==
    /\ OwnerAt("snapshot")
    /\ value' = flags
    /\ pc' = "clear"
    /\ UNCHANGED <<flags, evf, timer, status, calls>>

\* The InterlockedAnd at the end of signal_wait, on a time-out too; Main then
\* calls ProcessEvent only if the status is osEventSignal.
ClearFlags ==
    /\ OwnerAt("clear")
    /\ flags' = Without(flags, Signals)
    /\ pc' = IF status = "signal" THEN "handle" ELSE "process"
    /\ UNCHANGED <<evf, timer, status, value, calls>>

\* ProcessEvent(value) returns.
Handled ==
    /\ OwnerAt("handle")
    /\ pc' = "withdraw"
    /\ UNCHANGED <<flags, evf, timer, status, value, calls>>

\* signal_clr(evt.value.signals) after the handler.
SignalClrResets ==
    /\ OwnerAt("withdraw")
    /\ flags' = Without(flags, value)
    /\ evf' = FALSE
    /\ pc' = "process"
    /\ UNCHANGED <<timer, status, value, calls>>

SignalClr ==
    /\ OwnerAt("withdraw")
    /\ flags' = Without(flags, value)
    /\ pc' = "process"
    /\ UNCHANGED <<evf, timer, status, value, calls>>

\* Process() returns; back to the top of the loop.
Processed ==
    /\ OwnerAt("process")
    /\ pc' = "top"
    /\ UNCHANGED <<flags, evf, timer, status, value, calls>>

OwnerStep ==
    \/ ReturnAtOnce \/ Block
    \/ Awake \/ TimeOut \/ Fail
    \/ ResetEvent \/ Snapshot \/ ClearFlags
    \/ Handled \/ SignalClr \/ Processed

Next ==
    \/ \E c \in Callers, s \in Signals : OrFlags(c, s)
    \/ \E c \in Callers : SetEvent(c)
    \/ OwnerStep

Spec == Init /\ [][Next]_vars

\* The scheduler runs a runnable thread, and a caller inside signal_set
\* reaches SetEvent.  Nobody is obliged to send a signal.
Fairness ==
    /\ WF_vars(OwnerStep)
    /\ \A c \in Callers : WF_vars(SetEvent(c))

FairSpec == Spec /\ Fairness

--------------------------------------------------------------------------------
(***************************************************************************)
(* Properties                                                              *)
(***************************************************************************)
\* No lost wake-up: from the moment signal_wait has cleared the word until it
\* next consumes the event, a flag that is set is announced - the event is
\* set, or the caller that set the flag is about to set it.  So the thread is
\* never blocked on a flag nobody will wake it for.
NoStuckSignal ==
    (flags # {} /\ pc \notin {"reset", "snapshot", "clear"})
        => (evf \/ \E c \in Callers : calls[c] = "ored")

\* The signals in the hands of ProcessEvent: from the snapshot, on which Main
\* will act only when the status is osEventSignal, to signal_clr.
InHand == IF pc \in {"handle", "withdraw"} THEN value ELSE {}

\* The code implements the lossy box: whatever the interleaving, ProcessEvent
\* is only handed signals that were posted since they were last withdrawn,
\* and a signal can disappear only while the thread is awake.
Box == INSTANCE SignalBox WITH
           pending <- flags \cup InHand,
           handed <- InHand,
           asleep <- pc \in {"blocked", "ended"}

BoxSpec == Box!Spec

\* Where a signal is that is bound to be handled: in the word while the thread
\* cannot time out, or has been woken and not looked yet; then among the
\* signals that signal_wait returns.
Bound(s) ==
    \/ pc = "blocked" /\ timer = "forever" /\ s \in flags
    \/ pc \in {"reset", "snapshot"} /\ s \in flags
    \/ pc = "clear" /\ status = "signal" /\ s \in value
    \/ pc = "handle" /\ s \in value

\* Nothing diverts it: no other caller's signal, no second wake-up and neither
\* of the two clearings takes it away before ProcessEvent returns, unless Main
\* ends.
KeptUntilHandled ==
    [][\A s \in Signals :
           Bound(s) => Bound(s)' \/ pc = "handle" \/ pc' = "ended"]_vars

\* A signal set while the thread is blocked without a time-out reaches
\* ProcessEvent, unless the wait fails, which ends Main.  (With a finite
\* time-out it need not: the time-out clears the flags without handing them
\* over.)
DeliveredWhenBlocked ==
    \A s \in Signals :
        (pc = "blocked" /\ timer = "forever" /\ s \in flags)
            ~> ((pc = "handle" /\ s \in value) \/ pc = "ended")
================================================================================
