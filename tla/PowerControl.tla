----------------------------- MODULE PowerControl -----------------------------
(***************************************************************************)
(* How the camera is switched on and off: the sensor thread's              *)
(* TriggerButtonTask, GripButtonTask and PowerOffTask (SensorTask.cpp) and *)
(* the signals GlobalState.cpp sends for them, composed with the media     *)
(* thread.  The sensor thread reads the media tasks' states directly, and  *)
(* tells the media thread what to do through its signals.  The other       *)
(* threads GlobalState signals, HeartRateTask and the file names are left  *)
(* out.                                                                    *)
(***************************************************************************)
EXTENDS MediaTask, Naturals

CONSTANTS
    DebounceLimit,      \* 10: samples of a button that are ignored
    IdleLimit           \* 30: idle ticks of PowerOffTask that are ignored

ASSUME DebounceAssumption == DebounceLimit \in Nat
ASSUME IdleAssumption == IdleLimit \in Nat

VARIABLES
    trigger,    \* TriggerButtonTask: _state (TRUE is Down), _count
    grip,       \* GripButtonTask: _state (TRUE is Hold), _count
    power,      \* PowerOffTask: _state, _count
    look        \* where PowerOffTask is in GlobalState::IsActive

sensor == <<trigger, grip, power, look>>
vars == <<mediaVars, sensor>>

TypeOK ==
    /\ MediaTypeOK
    /\ trigger \in [down : BOOLEAN, count : 0..DebounceLimit]
    /\ grip \in [hold : BOOLEAN, count : 0..DebounceLimit]
    /\ power \in [state : Power, count : 0..IdleLimit]
    /\ power.state = "PowerOff" => power.count = 0
    /\ look \in {"idle", "active", "inactive"}

\* The trigger's first state is read from the button.
Init ==
    /\ MediaInit
    /\ trigger \in [down : BOOLEAN, count : {0}]
    /\ grip = [hold |-> FALSE, count |-> 0]
    /\ power = [state |-> "PowerOff", count |-> 0]
    /\ look = "idle"

--------------------------------------------------------------------------------
(***************************************************************************)
(* The sensor thread.  Its three tasks come due in any order.              *)
(***************************************************************************)
\* A reading that differs from the state for more than DebounceLimit samples
\* in a row is accepted.
Accepted(count) == count + 1 > DebounceLimit

Counted(differs, count) ==
    IF ~differs \/ Accepted(count) THEN 0 ELSE count + 1

\* The button's reading, and the signal when a press is accepted.
TriggerSample(now) ==
    /\ look = "idle"
    /\ LET differs == now # trigger.down
           change == differs /\ Accepted(trigger.count)
       IN  /\ trigger' = [down |-> IF change THEN now ELSE trigger.down,
                          count |-> Counted(differs, trigger.count)]
           /\ IF change /\ now THEN Signal("TriggerOn")
                               ELSE UNCHANGED <<mailbox, disturbed>>
    /\ UNCHANGED <<grip, power, look, thread, media, netAsked>>

GripSample(now) ==
    /\ look = "idle"
    /\ LET differs == now # grip.hold
       IN  grip' = [hold |-> IF differs /\ Accepted(grip.count)
                             THEN now ELSE grip.hold,
                    count |-> Counted(differs, grip.count)]
    /\ UNCHANGED <<trigger, power, look, mediaVars>>

\* IsActive reads the grip's state and the audio task's, then the visual
\* task's; the media thread may move in between.
LookAtAudio ==
    /\ look = "idle"
    /\ look' = IF grip.hold \/ audio.state = "Recording"
               THEN "active" ELSE "inactive"
    /\ UNCHANGED <<trigger, grip, power, mediaVars>>

IsActive == look = "active" \/ visual = "Recording"

SwitchOn ==
    /\ look # "idle"
    /\ power.state = "PowerOff"
    /\ IsActive
    /\ power' = [power EXCEPT !.state = "PowerOn"]
    /\ Signal("PowerOn")
    /\ look' = "idle"
    /\ UNCHANGED <<trigger, grip, thread, media, netAsked>>

StayOff ==
    /\ look # "idle"
    /\ power.state = "PowerOff"
    /\ ~IsActive
    /\ look' = "idle"
    /\ UNCHANGED <<trigger, grip, power, mediaVars>>

StayOnUncounted ==
    /\ look # "idle"
    /\ power.state = "PowerOn"
    /\ IsActive \/ power.count + 1 <= IdleLimit
    /\ look' = "idle"
    /\ UNCHANGED <<power, trigger, grip, mediaVars>>

StayOn ==
    /\ look # "idle"
    /\ power.state = "PowerOn"
    /\ IsActive \/ power.count + 1 <= IdleLimit
    /\ power' = [power EXCEPT !.count = IF IsActive THEN 0 ELSE @ + 1]
    /\ look' = "idle"
    /\ UNCHANGED <<trigger, grip, mediaVars>>

SwitchOff ==
    /\ look # "idle"
    /\ power.state = "PowerOn"
    /\ ~IsActive
    /\ power.count + 1 > IdleLimit
    /\ power' = [state |-> "PowerOff", count |-> 0]
    /\ Signal("PowerOff")
    /\ look' = "idle"
    /\ UNCHANGED <<trigger, grip, thread, media, netAsked>>

SensorStep ==
    \/ \E now \in BOOLEAN : TriggerSample(now) \/ GripSample(now)
    \/ LookAtAudio
    \/ SwitchOn \/ StayOff \/ StayOn \/ SwitchOff

--------------------------------------------------------------------------------
Next ==
    \/ SensorStep
    \/ (MediaStep \/ NetTakes) /\ UNCHANGED sensor

Spec == Init /\ [][Next]_vars

\* Both threads are scheduled, and PowerOffTask is served again and again.
Fairness ==
    /\ MediaFairness
    /\ SF_vars(LookAtAudio)
    /\ WF_vars(SwitchOn \/ StayOff \/ StayOn \/ SwitchOff)

FairSpec == Spec /\ Fairness

--------------------------------------------------------------------------------
(***************************************************************************)
(* Properties                                                              *)
(***************************************************************************)
\* If the grip is held for good the camera is switched on for good; if grip
\* and trigger are let go for good, it is switched off for good: recording,
\* which keeps it awake, and waking, which resets the recorder, do not feed
\* each other.
PowerFollowsHand ==
    /\ <>[]grip.hold => <>[](power.state = "PowerOn")
    /\ <>[](~grip.hold /\ ~trigger.down) => <>[](power.state = "PowerOff")
================================================================================
