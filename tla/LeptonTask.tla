------------------------------ MODULE LeptonTask -------------------------------
(***************************************************************************)
(* PeachCam/src/Lepton.cpp: the lepton thread, a TaskThread with the one   *)
(* task that powers, reads and resynchronises the thermal camera; and the  *)
(* sensor thread's PowerOffTask as its sender, which alternates PowerOn    *)
(* and PowerOff.  What the shell asks of the task is in LeptonRequests.    *)
(*                                                                         *)
(* The timer is as in NetTask: "forever", "running" or "due".  The rows of *)
(* a frame are abstracted to how reading it ends.                          *)
(***************************************************************************)
EXTENDS Naturals

CONSTANTS
    AsyncLimit,     \* packets out of sync before a resynchronisation; 10000
    ResetLimit      \* frames between two resynchronisations; 750

ASSUME LimitsAssumption ==
    AsyncLimit \in Nat \ {0} /\ ResetLimit \in Nat \ {0}

Power == {"PowerOn", "PowerOff"}

VARIABLES
    flags,      \* the thread's _flags
    evf,        \* its event
    pc,         \* where it is in Main
    value,      \* evt.value.signals while it is of use, else empty
    state,      \* LeptonTask::_state
    timer,      \* _timer
    ss,         \* _ss, the chip select: 0 selects
    async,      \* _async
    resets,     \* _resets
    last,       \* PowerOffTask::_state, the last command
    missed      \* history: the last command may not be obeyed

mailbox == <<flags, evf>>
camera == <<state, timer, ss, async, resets>>
sender == <<last, missed>>
vars == <<mailbox, pc, value, camera, sender>>

On == {"Resets", "Capture", "UpdateParam", "Viewing"}

TypeOK ==
    /\ flags \subseteq Power
    /\ evf \in BOOLEAN
    /\ pc \in {"wait", "signalled", "timeout", "event", "withdraw", "process"}
    /\ value \subseteq Power
    /\ state \in On \cup {"PowerOff", "PowerOn", "GoPowerOff"}
    /\ timer \in {"forever", "running", "due"}
    /\ ss \in {0, 1}
    /\ async \in 0..AsyncLimit
    /\ resets \in 0..ResetLimit
    /\ last \in Power
    /\ missed \in BOOLEAN

Init ==
    /\ flags = {}
    /\ evf = FALSE
    /\ pc = "wait"
    /\ value = {}
    /\ state = "PowerOff"
    /\ timer = "forever"
    /\ ss = 1
    /\ async = 0
    /\ resets = 0
    /\ last = "PowerOff"
    /\ missed = FALSE

--------------------------------------------------------------------------------
(***************************************************************************)
(* TaskThread::Main                                                        *)
(***************************************************************************)
\* A wait without any time looks at the event no more.
WakeBySignal ==
    /\ pc = "wait"
    /\ timer # "due"
    /\ evf
    /\ evf' = FALSE
    /\ value' = flags
    /\ pc' = "signalled"
    /\ UNCHANGED <<flags, camera, sender>>

WakeByTimeOut ==
    /\ pc = "wait"
    /\ timer = "running"
    /\ ~evf
    /\ pc' = "timeout"
    /\ UNCHANGED <<mailbox, value, camera, sender>>

Progressed(elapsed) ==
    IF timer = "running" /\ ~elapsed THEN "running" ELSE "due"

\* The deadline has passed before the wait, as it has whenever the timer is
\* due: nothing is consumed or cleared.
PollOnce(elapsed) ==
    /\ pc = "wait"
    /\ timer # "forever"
    /\ timer' = Progressed(elapsed)
    /\ pc' = "process"
    /\ UNCHANGED <<mailbox, value, state, ss, async, resets, sender>>

\* A power signal that is cleared without having been read is lost.
ClearAndProgress(elapsed) ==
    /\ pc \in {"signalled", "timeout"}
    /\ flags' = {}
    /\ missed' = (missed \/ flags \ value # {})
    /\ timer' = Progressed(elapsed)
    /\ pc' = IF pc = "signalled" THEN "event" ELSE "process"
    /\ UNCHANGED <<evf, value, state, ss, async, resets, last>>

EventPowerOnLast ==
    IF "PowerOn" \in value THEN [state |-> "PowerOn", timer |-> "due"]
    ELSE IF "PowerOff" \in value THEN [state |-> "GoPowerOff", timer |-> "due"]
    ELSE [state |-> state, timer |-> timer]

\* ProcessEvent: PowerOff is handled last.
Event ==
    IF "PowerOff" \in value THEN [state |-> "GoPowerOff", timer |-> "due"]
    ELSE IF "PowerOn" \in value THEN [state |-> "PowerOn", timer |-> "due"]
    ELSE [state |-> state, timer |-> timer]

ProcessEvent ==
    /\ pc = "event"
    /\ state' = Event.state
    /\ timer' = Event.timer
    /\ pc' = "withdraw"
    /\ UNCHANGED <<mailbox, value, ss, async, resets, sender>>

WithdrawNothing ==
    /\ pc = "withdraw"
    /\ value' = {}
    /\ pc' = "process"
    /\ UNCHANGED <<mailbox, camera, sender>>

\* signal_clr(evt.value.signals): a command repeated meanwhile is lost.
Withdraw ==
    /\ pc = "withdraw"
    /\ flags' = flags \ value
    /\ missed' = (missed \/ flags \cap value # {})
    /\ value' = {}
    /\ pc' = "process"
    /\ UNCHANGED <<evf, camera, last>>

--------------------------------------------------------------------------------
(***************************************************************************)
(* LeptonTask::Process, case by case                                       *)
(***************************************************************************)
ProcessIn(s) ==
    /\ pc = "process"
    /\ state = s
    /\ timer = "due"
    /\ pc' = "wait"
    /\ UNCHANGED <<mailbox, value, sender>>

Goes(s, t) == state' = s /\ timer' = t

\* The chip select is pulled down for 750 ms to resynchronise.
Resynchronise ==
    /\ ss' = 0
    /\ Goes("Resets", "running")

NotYet ==
    /\ pc = "process"
    /\ timer # "due"
    /\ pc' = "wait"
    /\ UNCHANGED <<mailbox, value, camera, sender>>

PowerOn ==
    /\ ProcessIn("PowerOn")
    /\ Resynchronise
    /\ UNCHANGED <<async, resets>>

ResetsSelected ==
    /\ ProcessIn("Resets")
    /\ Goes("Capture", "running")
    /\ async' = 0
    /\ resets' = 0
    /\ UNCHANGED ss

Resets ==
    /\ ProcessIn("Resets")
    /\ ss' = 1
    /\ async' = 0
    /\ resets' = 0
    /\ Goes("Capture", "running")

OutOfSyncForGood ==
    /\ ProcessIn("Capture")
    /\ ss' = 1
    /\ Goes("Capture", "due")
    /\ UNCHANGED <<async, resets>>

\* A discard packet before any row of the frame has been accepted.
OutOfSync ==
    /\ ProcessIn("Capture")
    /\ async' = async + 1
    /\ IF async' >= AsyncLimit
       THEN Resynchronise
       ELSE ss' = 1 /\ Goes("Capture", "due")
    /\ UNCHANGED resets

\* Every frame that ends has had an accepted row, or it would be OutOfSync.
FrameComplete ==
    /\ ProcessIn("Capture")
    /\ ss' = 1
    /\ resets' = resets + 1
    /\ Goes("UpdateParam", "due")
    /\ UNCHANGED async

UpdateParam ==
    /\ ProcessIn("UpdateParam")
    /\ Goes("Viewing", "due")
    /\ UNCHANGED <<ss, async, resets>>

ViewingStays ==
    /\ ProcessIn("Viewing")
    /\ IF resets >= ResetLimit
       THEN Resynchronise
       ELSE Goes("Capture", "forever") /\ UNCHANGED ss
    /\ UNCHANGED <<async, resets>>

Viewing ==
    /\ ProcessIn("Viewing")
    /\ IF resets >= ResetLimit
       THEN Resynchronise
       ELSE Goes("Capture", "running") /\ UNCHANGED ss
    /\ UNCHANGED <<async, resets>>

\* GoPowerOff, and PowerOff itself when a signal without power bits woke it.
GoPowerOff ==
    /\ ProcessIn("GoPowerOff") \/ ProcessIn("PowerOff")
    /\ Goes("PowerOff", "forever")
    /\ UNCHANGED <<ss, async, resets>>

Main ==
    \/ WakeBySignal \/ WakeByTimeOut
    \/ \E elapsed \in BOOLEAN : PollOnce(elapsed) \/ ClearAndProgress(elapsed)
    \/ ProcessEvent \/ Withdraw

Capture == OutOfSync \/ FrameComplete

Process ==
    NotYet \/ PowerOn \/ Resets \/ UpdateParam \/ Viewing \/ GoPowerOff

--------------------------------------------------------------------------------
\* PowerOffTask and GlobalState: the next command.  It overrides what is still
\* pending, except that PowerOn does not override a PowerOff in the same word.
Command ==
    /\ last' = IF last = "PowerOn" THEN "PowerOff" ELSE "PowerOn"
    /\ flags' = flags \cup {last'}
    /\ evf' = TRUE
    /\ missed' = (last' = "PowerOn" /\ "PowerOff" \in flags)
    /\ UNCHANGED <<pc, value, camera>>

Next == Main \/ Process \/ Capture \/ Command

Spec == Init /\ [][Next]_vars

\* Time passes for a timer that runs.
TimeIsUp == PollOnce(TRUE) \/ ClearAndProgress(TRUE)

\* The thread is scheduled; a wait of 100 ms or more is not always preempted
\* until it is over, and time passes; the camera answers, in sync or not.
\* Nobody is obliged to command.
Fairness ==
    /\ WF_vars(Main \/ Process)
    /\ SF_vars(WakeBySignal)
    /\ SF_vars(TimeIsUp)
    /\ WF_vars(Capture)

FairSpec == Spec /\ Fairness

--------------------------------------------------------------------------------
(***************************************************************************)
(* Properties                                                              *)
(***************************************************************************)
InHand == IF pc \in {"event", "withdraw"} THEN value ELSE {}

\* The lepton thread's mailbox is the lossy box that ThreadSignals implements.
Box == INSTANCE SignalBox WITH
           Signals <- Power,
           pending <- flags \cup InHand,
           handed <- InHand,
           asleep <- pc = "wait"

BoxSpec == Box!Spec

\* The chip select is held down for the whole of a resynchronisation and never
\* while frames are read and shown, whatever commands come in between.
SelectedToResynchronise ==
    /\ state = "Resets" => ss = 0
    /\ state \in {"Capture", "UpdateParam", "Viewing"} => ss = 1

\* When all commands have been taken in and the thread sleeps, the camera is
\* on exactly if the last command said so, unless that one was lost in the
\* mailbox or merged with an opposite one.
CameraFollowsPower ==
    (pc = "wait" /\ flags = {} /\ ~missed)
        => IF last = "PowerOn" THEN state \in On ELSE state = "PowerOff"

\* The thread goes to sleep without a time-out only when the camera is off: each
\* state of the cycle, and each way out of it, leaves a timer that runs, and no
\* command can come between the two.
AwakeWhileOn == timer = "forever" => state = "PowerOff"

\* PowerOff gets through, even while the thread polls a camera out of sync
\* without listening, unless it is lost or another command follows.
PowerOffObeyed ==
    (last = "PowerOff" /\ ~missed)
        ~> (state = "PowerOff" \/ missed \/ last = "PowerOn")

\* As long as the camera stays on, and is now and then in sync, the picture is
\* refreshed again and again, through all resynchronisations.
PictureRefreshed ==
    SF_vars(FrameComplete) /\ <>[](state \in On) => []<>(state = "Viewing")
================================================================================
