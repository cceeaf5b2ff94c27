------------------------------- MODULE HeartRate -------------------------------
(***************************************************************************)
(* PeachCam/src/SensorTask.cpp and bh1792.cpp: HeartRateTask on the sensor *)
(* thread, its driver and the BH1792 pulse sensor.  The thread commands    *)
(* itself: PowerOffTask, which is processed before HeartRateTask, decides  *)
(* and has the signal sent to its own mailbox, where the next pass finds   *)
(* it.  Nobody else signals this thread.  Each I2C transfer may fail, with *)
(* or without effect on the sensor.                                        *)
(*                                                                         *)
(* The thread wakes every 10 ms for its other tasks, so that any wait may  *)
(* time out.  The part of ProcessEvent that reads the samples is left out: *)
(* it is called for HeartRateInt only, which only the interrupt would      *)
(* post, and InterruptIn::rise of this build drops its callback.  So are   *)
(* the steps of the synchronisation, which do not start or stop anything.  *)
(* The sensor is not part of the repository: of it is assumed that a reset *)
(* stops it and that MEAS_ST starts it.                                    *)
(***************************************************************************)
Power == {"PowerOn", "PowerOff"}

VARIABLES
    flags,      \* the sensor thread's _flags
    evf,        \* its event
    pc,         \* where it is in Main and in its tasks
    value,      \* evt.value.signals while it is of use, else empty
    power,      \* PowerOffTask::_state
    state,      \* HeartRateTask::_state (Sync is never used)
    timer,      \* its _timer
    isMeasuring,    \* the driver's is_measuring
    measuring,  \* the sensor measures
    merged      \* history: the last PowerOn joined a PowerOff in the mailbox

vars == <<flags, evf, pc, value, power, state, timer, isMeasuring, measuring,
          merged>>

mailbox == <<flags, evf>>
command == <<power, merged>>
task == <<state, timer>>
device == <<isMeasuring, measuring>>

\* Constructors, and OnStart, which may not find the sensor.
Init ==
    /\ flags = {}
    /\ evf = FALSE
    /\ pc = "wait"
    /\ value = {}
    /\ power = "PowerOff"
    /\ state \in {"PowerOff", "InitError"}
    /\ timer = "forever"
    /\ isMeasuring = FALSE
    /\ measuring = FALSE
    /\ merged = FALSE

--------------------------------------------------------------------------------
(***************************************************************************)
(* TaskThread::Main                                                        *)
(***************************************************************************)
WakeBySignal ==
    /\ pc = "wait"
    /\ evf
    /\ evf' = FALSE
    /\ value' = flags
    /\ pc' = "signalled"
    /\ UNCHANGED <<flags, command, task, device>>

WakeByTimeOutFirst ==
    /\ pc = "wait"
    /\ pc' = "timeout"
    /\ UNCHANGED <<mailbox, value, command, task, device>>

WakeByTimeOut ==
    /\ pc = "wait"
    /\ ~evf
    /\ pc' = "timeout"
    /\ UNCHANGED <<mailbox, value, command, task, device>>

\* Task::Progress makes 0 of -1.
Progressed ==
    \/ timer' = "due"
    \/ timer = "running" /\ timer' = "running"

\* A deadline found past before the wait: nothing is consumed or cleared.
PollOnce ==
    /\ pc = "wait"
    /\ Progressed
    /\ pc' = "power"
    /\ UNCHANGED <<mailbox, value, command, state, device>>

\* The end of signal_wait, and Progress
ClearFlags ==
    /\ pc \in {"signalled", "timeout"}
    /\ flags' = {}
    /\ Progressed
    /\ pc' = IF pc = "signalled" THEN "on" ELSE "power"
    /\ UNCHANGED <<evf, value, command, state, device>>

\* signal_clr(evt.value.signals)
Withdraw ==
    /\ pc = "withdraw"
    /\ flags' = flags \ value
    /\ value' = {}
    /\ pc' = "power"
    /\ UNCHANGED <<evf, command, task, device>>

--------------------------------------------------------------------------------
(***************************************************************************)
(* HeartRateTask::ProcessEvent                                             *)
(***************************************************************************)
\* A failed transfer ends the handler, whatever else it was called for.
Fails ==
    /\ state' = "DeviceError"
    /\ timer' = "forever"
    /\ pc' = "withdraw"

NotOn ==
    /\ pc = "on"
    /\ "PowerOn" \notin value
    /\ pc' = "off"
    /\ UNCHANGED <<mailbox, value, command, task, device>>

\* The condition ends in an assignment, which is true: every state will do.
\* SetParams starts a measurement that the driver believes to go on.
OnBegin ==
    /\ pc = "on"
    /\ "PowerOn" \in value
    /\ \/ /\ pc' = "start"
          /\ state' = IF state = "PowerOff" THEN state ELSE "DeviceError"
          /\ measuring' = (measuring \/ isMeasuring)
          /\ UNCHANGED timer
       \/ /\ Fails
          /\ measuring' \in {measuring, measuring \/ isMeasuring}
    /\ UNCHANGED <<mailbox, value, command, isMeasuring>>

\* bh1792.StartMeasure
OnEnd ==
    /\ pc = "start"
    /\ isMeasuring' = TRUE
    /\ \/ /\ state' = "Async"
          /\ timer' = "due"
          /\ measuring' = TRUE
          /\ pc' = "off"
       \/ /\ Fails
          /\ measuring' \in {measuring, TRUE}
    /\ UNCHANGED <<mailbox, value, command>>

NotOff ==
    /\ pc = "off"
    /\ "PowerOff" \notin value \/ state = "PowerOff"
    /\ pc' = "withdraw"
    /\ UNCHANGED <<mailbox, value, command, task, device>>

\* bh1792.StopMeasure resets the sensor.
OffNotAfterError ==
    /\ pc = "off"
    /\ "PowerOff" \in value
    /\ state # "PowerOff"
    /\ isMeasuring' = FALSE
    /\ measuring' \in {measuring, FALSE}
    /\ state' = "PowerOff"
    /\ timer' = "forever"
    /\ pc' = "withdraw"
    /\ UNCHANGED <<mailbox, value, command>>

Off ==
    /\ pc = "off"
    /\ "PowerOff" \in value
    /\ state # "PowerOff"
    /\ isMeasuring' = FALSE
    /\ \/ /\ measuring' = FALSE
          /\ state' = "PowerOff"
          /\ timer' = "forever"
          /\ pc' = "withdraw"
       \/ /\ Fails
          /\ measuring' \in {measuring, FALSE}
    /\ UNCHANGED <<mailbox, value, command>>

--------------------------------------------------------------------------------
(***************************************************************************)
(* Process of PowerOffTask and HeartRateTask                               *)
(***************************************************************************)
\* Not due, or no reason to change.
PowerStays ==
    /\ pc = "power"
    /\ pc' = "process"
    /\ UNCHANGED <<mailbox, value, command, task, device>>

\* SensorTask::PowerOn and PowerOff, which have the new state signalled.
PowerSwitches ==
    /\ pc = "power"
    /\ power' \in Power \ {power}
    /\ flags' = flags \cup {power'}
    /\ evf' = TRUE
    /\ merged' = (power' = "PowerOn" /\ "PowerOff" \in flags)
    /\ pc' = "process"
    /\ UNCHANGED <<value, task, device>>

\* In PowerOff and Async the next synchronisation is set, and SetSync called.
Process ==
    /\ pc = "process"
    /\ timer' = IF timer # "due" THEN timer
                ELSE IF state \in {"PowerOff", "Async"} THEN "running"
                ELSE "forever"
    /\ pc' = "wait"
    /\ UNCHANGED <<mailbox, value, command, state, device>>

Main == WakeBySignal \/ WakeByTimeOut \/ PollOnce \/ ClearFlags \/ Withdraw

ProcessEvent == NotOn \/ OnBegin \/ OnEnd \/ NotOff \/ Off

Next == Main \/ ProcessEvent \/ PowerStays \/ PowerSwitches \/ Process

Spec == Init /\ [][Next]_vars

--------------------------------------------------------------------------------
(***************************************************************************)
(* Properties                                                              *)
(***************************************************************************)
TypeOK ==
    /\ flags \subseteq Power /\ value \subseteq Power
    /\ evf \in BOOLEAN
    /\ pc \in {"wait", "signalled", "timeout", "on", "start", "off",
               "withdraw", "power", "process"}
    /\ power \in Power
    /\ state \in {"PowerOff", "Async", "DeviceError", "InitError"}
    /\ timer \in {"forever", "running", "due"}
    /\ isMeasuring \in BOOLEAN /\ measuring \in BOOLEAN
    /\ merged \in BOOLEAN

\* The task's state is right about the sensor through failed transfers and
\* retried commands: it measures in Async, and is off in PowerOff.  (After an
\* error it may do either.)
SensorFollowsState ==
    /\ state = "Async" => measuring
    /\ state = "PowerOff" => ~measuring

\* No power command that the thread gives itself is lost, however often it polls
\* before it looks.  Back in the wait with nothing pending, the task is not
\* measuring if PowerOffTask says PowerOff; and if it says PowerOn it measures,
\* with its 1 Hz timer running, unless a transfer failed, or PowerOn joined a
\* PowerOff in one word and was handled before it.
PowerObeyed ==
    (pc = "wait" /\ flags = {}) =>
        /\ power = "PowerOff" => state # "Async"
        /\ power = "PowerOn" =>
               \/ state = "Async" /\ timer = "running"
               \/ state = "DeviceError"
               \/ merged
================================================================================
