--------------------------- MODULE HeartRate_proofs ---------------------------
(***************************************************************************)
(* Proofs about HeartRate.                                                 *)
(***************************************************************************)
EXTENDS HeartRate, TLAPS

--------------------------------------------------------------------------------
(***************************************************************************)
(* Types                                                                   *)
(***************************************************************************)
LEMMA MainKeepsTypes == TypeOK /\ Main => TypeOK'
<1> SUFFICES ASSUME TypeOK, Main
             PROVE  TypeOK'
  OBVIOUS
<1> USE DEF TypeOK, Power, mailbox, command, task, device
<1>1. CASE WakeBySignal
  BY <1>1 DEF WakeBySignal
<1>2. CASE WakeByTimeOut
  BY <1>2 DEF WakeByTimeOut
<1>3. CASE PollOnce
  BY <1>3 DEF PollOnce, Progressed
<1>4. CASE ClearFlags
  BY <1>4 DEF ClearFlags, Progressed
<1>5. CASE Withdraw
  BY <1>5 DEF Withdraw
<1> QED
  BY <1>1, <1>2, <1>3, <1>4, <1>5 DEF Main

LEMMA EventKeepsTypes == TypeOK /\ ProcessEvent => TypeOK'
<1> SUFFICES ASSUME TypeOK, ProcessEvent
             PROVE  TypeOK'
  OBVIOUS
<1> USE DEF TypeOK, mailbox, command, task, device
<1>1. CASE NotOn
  BY <1>1 DEF NotOn
<1>2. CASE OnBegin
  BY <1>2 DEF OnBegin, Fails
<1>3. CASE OnEnd
  BY <1>3 DEF OnEnd, Fails
<1>4. CASE NotOff
  BY <1>4 DEF NotOff
<1>5. CASE Off
  BY <1>5 DEF Off, Fails
<1> QED
  BY <1>1, <1>2, <1>3, <1>4, <1>5 DEF ProcessEvent

\* Every variable is of its type; a failing transfer in particular leaves the
\* task in one of its states, whatever was assigned in its conditions.
THEOREM TypeCorrect == Spec => []TypeOK
<1>1. Init => TypeOK
  BY DEF Init, TypeOK, Power
<1>2. TypeOK /\ [Next]_vars => TypeOK'
  <2> SUFFICES ASSUME TypeOK, [Next]_vars
               PROVE  TypeOK'
    OBVIOUS
  <2> USE DEF TypeOK, Power, mailbox, command, task, device
  <2>1. CASE PowerStays
    BY <2>1 DEF PowerStays
  <2>2. CASE PowerSwitches
    BY <2>2 DEF PowerSwitches
  <2>3. CASE Process
    BY <2>3 DEF Process
  <2>4. CASE UNCHANGED vars
    BY <2>4 DEF vars
  <2> QED
    BY <2>1, <2>2, <2>3, <2>4, MainKeepsTypes, EventKeepsTypes DEF Next
<1> QED
  BY <1>1, <1>2, PTL DEF Spec

--------------------------------------------------------------------------------
(***************************************************************************)
(* The task's state and the sensor                                         *)
(***************************************************************************)
\* The driver does not believe in a measurement while the task is off, or
\* SetParams would start one that the task does not know of.
DriverInv ==
    /\ SensorFollowsState
    /\ state = "PowerOff" => ~isMeasuring

LEMMA EventKeepsDriver == TypeOK /\ DriverInv /\ ProcessEvent => DriverInv'
<1> SUFFICES ASSUME TypeOK, DriverInv, ProcessEvent
             PROVE  DriverInv'
  OBVIOUS
<1> USE DEF TypeOK, DriverInv, SensorFollowsState, task, device
<1>1. CASE NotOn \/ NotOff
  BY <1>1 DEF NotOn, NotOff
<1>2. CASE OnBegin
  BY <1>2 DEF OnBegin, Fails
<1>3. CASE OnEnd
  BY <1>3 DEF OnEnd, Fails
<1>4. CASE Off
  BY <1>4 DEF Off, Fails
<1> QED
  BY <1>1, <1>2, <1>3, <1>4 DEF ProcessEvent

\* The task's state is right about the sensor, although SetParams, StartMeasure
\* and StopMeasure change what the driver believes before they know whether
\* the sensor obeyed, and although PowerOn is heeded in every state.
THEOREM SensorKnown == Spec => []SensorFollowsState
<1>1. Init => DriverInv
  BY DEF Init, DriverInv, SensorFollowsState
<1>2. TypeOK /\ DriverInv /\ [Next]_vars => DriverInv'
  <2> SUFFICES ASSUME TypeOK, DriverInv, [Next]_vars, ~ProcessEvent
               PROVE  DriverInv'
    BY EventKeepsDriver
  <2>1. UNCHANGED <<state, device>>
    BY DEF Next, Main, WakeBySignal, WakeByTimeOut, PollOnce, ClearFlags,
           Withdraw, PowerStays, PowerSwitches, Process, task, device, vars
  <2> QED
    BY <2>1 DEF DriverInv, SensorFollowsState, device
<1>3. DriverInv => SensorFollowsState
  BY DEF DriverInv
<1> QED
  BY <1>1, <1>2, <1>3, TypeCorrect, PTL DEF Spec

--------------------------------------------------------------------------------
(***************************************************************************)
(* The task obeys the commands.  A command waits in the word, with the     *)
(* event set, until a pass copies the word, clears it and hands the copy   *)
(* to the handler; the thread cannot command itself in between.            *)
(***************************************************************************)
Handling == {"on", "start", "off", "withdraw"}

MailInv ==
    /\ pc \in Handling \cup {"timeout"} => flags = {}
    /\ pc = "signalled" => value = flags
    /\ pc \in {"wait", "power", "process"} /\ flags # {} => evf
    /\ pc = "start" => "PowerOn" \in value
    /\ pc = "wait" => timer # "due"

\* The commands given and not yet handled.
Pending == IF pc \in Handling THEN value ELSE flags

Settled ==
    /\ power = "PowerOff" => state # "Async"
    /\ power = "PowerOn" => \/ state = "Async" /\ timer # "forever"
                            \/ state = "DeviceError"
                            \/ merged

\* The last command is among those pending; and once PowerOn has been handled,
\* PowerOff finds the task measuring.
OrderInv ==
    /\ Pending # {} => /\ power \in Pending
                       /\ power = "PowerOn" /\ "PowerOff" \in Pending => merged
    /\ Pending = {} \/ pc = "withdraw" => Settled
    /\ pc = "off" /\ "PowerOn" \in value => state = "Async" /\ timer = "due"

ObeyInv == TypeOK /\ MailInv /\ OrderInv

LEMMA MainKeepsOrder == ObeyInv /\ Main => MailInv' /\ OrderInv'
<1> SUFFICES ASSUME ObeyInv, Main
             PROVE  MailInv' /\ OrderInv'
  OBVIOUS
<1> USE DEF ObeyInv, TypeOK, MailInv, OrderInv, Pending, Settled, Handling,
            Power, mailbox, command, task, device
<1>1. CASE WakeBySignal
  BY <1>1 DEF WakeBySignal
<1>2. CASE WakeByTimeOut
  BY <1>2 DEF WakeByTimeOut
<1>3. CASE PollOnce
  BY <1>3 DEF PollOnce, Progressed
<1>4. CASE ClearFlags
  BY <1>4 DEF ClearFlags, Progressed
<1>5. CASE Withdraw
  BY <1>5 DEF Withdraw
<1> QED
  BY <1>1, <1>2, <1>3, <1>4, <1>5 DEF Main

LEMMA EventKeepsOrder == ObeyInv /\ ProcessEvent => MailInv' /\ OrderInv'
<1> SUFFICES ASSUME ObeyInv, ProcessEvent
             PROVE  MailInv' /\ OrderInv'
  OBVIOUS
<1> USE DEF ObeyInv, TypeOK, MailInv, OrderInv, Pending, Settled, Handling,
            Power, mailbox, command, task
<1>1. CASE NotOn
  BY <1>1 DEF NotOn
<1>2. CASE OnBegin
  BY <1>2 DEF OnBegin, Fails
<1>3. CASE OnEnd
  BY <1>3 DEF OnEnd, Fails
<1>4. CASE NotOff
  BY <1>4 DEF NotOff
<1>5. CASE Off
  BY <1>5 DEF Off, Fails
<1> QED
  BY <1>1, <1>2, <1>3, <1>4, <1>5 DEF ProcessEvent

LEMMA NextKeepsOrder == ObeyInv /\ [Next]_vars => MailInv' /\ OrderInv'
<1> SUFFICES ASSUME ObeyInv, [Next]_vars
             PROVE  MailInv' /\ OrderInv'
  OBVIOUS
<1> USE DEF ObeyInv, TypeOK, MailInv, OrderInv, Pending, Settled, Handling,
            Power, mailbox, command, task
<1>1. CASE PowerStays
  BY <1>1 DEF PowerStays
<1>2. CASE PowerSwitches
  BY <1>2 DEF PowerSwitches
<1>3. CASE Process
  BY <1>3 DEF Process
<1>4. CASE UNCHANGED vars
  BY <1>4 DEF vars
<1> QED
  BY <1>1, <1>2, <1>3, <1>4, MainKeepsOrder, EventKeepsOrder DEF Next

\* Whatever polls, failures and merged words come between: with nothing pending
\* the pulse sensor does what PowerOffTask last said, or a transfer failed, or
\* two opposite commands met in one word.
THEOREM CommandsObeyed == Spec => []PowerObeyed
<1>1. Init => MailInv /\ OrderInv
  BY DEF Init, MailInv, OrderInv, Pending, Settled, Handling
<1>2. TypeOK /\ MailInv /\ OrderInv => PowerObeyed
  BY DEF TypeOK, MailInv, OrderInv, Pending, Settled, Handling, PowerObeyed
<1>3. TypeOK /\ MailInv /\ OrderInv /\ [Next]_vars => MailInv' /\ OrderInv'
  BY NextKeepsOrder DEF ObeyInv
<1> QED
  BY <1>1, <1>2, <1>3, TypeCorrect, PTL DEF Spec
================================================================================
