--------------------------- MODULE LeptonTask_proofs ---------------------------
(***************************************************************************)
(* Proofs about LeptonTask, for any two limits.                            *)
(***************************************************************************)
EXTENDS LeptonTask, TLAPS

\* The types, with what keeps the two counters below their limits and what the
\* places in Main mean for value and for a command that is being obeyed.
TypeInv ==
    /\ TypeOK
    /\ state \in {"Capture", "UpdateParam", "Viewing"} => async < AsyncLimit
    /\ state = "Capture" => resets < ResetLimit
    /\ pc \notin {"signalled", "event", "withdraw"} => value = {}
    /\ pc = "signalled" => value \subseteq flags
    /\ state \in {"PowerOn", "GoPowerOff"}
           => timer = "due" /\ pc \in {"withdraw", "process"}

\* By kinds of steps: those of Main, and those of Process.
LEMMA MainKeepsTypes == TypeInv /\ Main => TypeInv'
<1>. SUFFICES ASSUME TypeInv, Main PROVE TypeInv'
  OBVIOUS
<1>. USE DEF TypeInv, TypeOK, On
<1>1. CASE WakeBySignal \/ WakeByTimeOut
  BY <1>1 DEF WakeBySignal, WakeByTimeOut, camera, sender, mailbox
<1>2. ASSUME NEW elapsed \in BOOLEAN, PollOnce(elapsed)
      PROVE  TypeInv'
  BY <1>2 DEF PollOnce, Progressed, sender, mailbox
<1>3. ASSUME NEW elapsed \in BOOLEAN, ClearAndProgress(elapsed)
      PROVE  TypeInv'
  BY <1>3 DEF ClearAndProgress, Progressed
<1>4. CASE ProcessEvent
  BY <1>4 DEF ProcessEvent, Event, Power, sender, mailbox
<1>5. CASE Withdraw
  BY <1>5 DEF Withdraw, camera
<1>. QED
  BY <1>1, <1>2, <1>3, <1>4, <1>5 DEF Main

LEMMA ProcessKeepsTypes == TypeInv /\ (Process \/ Capture) => TypeInv'
<1>. SUFFICES ASSUME TypeInv, Process \/ Capture PROVE TypeInv'
  OBVIOUS
<1>. USE LimitsAssumption DEF TypeInv, TypeOK, On, ProcessIn, Goes,
         Resynchronise, mailbox, sender
<1>1. CASE NotYet
  BY <1>1 DEF NotYet, camera
<1>2. CASE PowerOn
  BY <1>2 DEF PowerOn
<1>3. CASE Resets
  BY <1>3 DEF Resets
<1>4. CASE OutOfSync
  BY <1>4 DEF OutOfSync
<1>5. CASE FrameComplete
  BY <1>5 DEF FrameComplete
<1>6. CASE UpdateParam
  BY <1>6 DEF UpdateParam
<1>7. CASE Viewing
  BY <1>7 DEF Viewing
<1>8. CASE GoPowerOff
  BY <1>8 DEF GoPowerOff
<1>. QED
  BY <1>1, <1>2, <1>3, <1>4, <1>5, <1>6, <1>7, <1>8 DEF Process, Capture

LEMMA TypeStep == TypeInv /\ [Next]_vars => TypeInv'
<1>1. TypeInv /\ Command => TypeInv'
  BY DEF TypeInv, TypeOK, Command, Power, camera
<1>2. TypeInv /\ UNCHANGED vars => TypeInv'
  BY DEF TypeInv, TypeOK, vars, camera, sender, mailbox
<1>. QED
  BY <1>1, <1>2, MainKeepsTypes, ProcessKeepsTypes DEF Next

LEMMA TypeInductive == Spec => []TypeInv
<1>1. Init => TypeInv
  <2>1. 0 \in 0..AsyncLimit /\ 0 \in 0..ResetLimit
    BY LimitsAssumption
  <2>. QED
    BY <2>1 DEF Init, TypeInv, TypeOK, Power, On
<1>. QED
  BY <1>1, TypeStep, PTL DEF Spec

\* The state is well-typed: whatever the commands and the camera do, the two
\* counters that trigger a resynchronisation stay within their limits.
THEOREM TypeCorrect == Spec => []TypeOK
<1>1. TypeInv => TypeOK
  BY DEF TypeInv
<1>. QED
  BY <1>1, TypeInductive, PTL

--------------------------------------------------------------------------------
\* The chip select is down throughout a resynchronisation and up while frames
\* are read and shown.
THEOREM SelectedInResync == Spec => []SelectedToResynchronise
<1>1. Init => SelectedToResynchronise
  BY DEF Init, SelectedToResynchronise
<1>2. SelectedToResynchronise /\ [Next]_vars => SelectedToResynchronise'
  <2>. SUFFICES ASSUME SelectedToResynchronise, [Next]_vars
                PROVE  SelectedToResynchronise'
    OBVIOUS
  <2>. USE DEF SelectedToResynchronise
  <2>1. CASE Main
    BY <2>1 DEF Main, WakeBySignal, WakeByTimeOut, PollOnce, ClearAndProgress,
                ProcessEvent, Event, Withdraw, camera
  <2>2. CASE Process
    BY <2>2 DEF Process, NotYet, PowerOn, Resets, UpdateParam, Viewing,
                GoPowerOff, ProcessIn, Goes, Resynchronise, camera
  <2>3. CASE Capture
    BY <2>3 DEF Capture, OutOfSync, FrameComplete, ProcessIn, Goes,
                Resynchronise
  <2>4. CASE Command \/ UNCHANGED vars
    BY <2>4 DEF Command, vars, camera
  <2>. QED
    BY <2>1, <2>2, <2>3, <2>4 DEF Next
<1>. QED
  BY <1>1, <1>2, PTL DEF Spec

\* For any limits: only an off camera leaves the thread without a timer, so that
\* no resynchronisation and no error on the way ends the stream of pictures.
THEOREM AwakeUnlessOff == Spec => []AwakeWhileOn
<1>1. Init => AwakeWhileOn
  BY DEF Init, AwakeWhileOn
<1>2. AwakeWhileOn /\ [Next]_vars => AwakeWhileOn'
  <2>. SUFFICES ASSUME AwakeWhileOn, [Next]_vars
                PROVE  AwakeWhileOn'
    OBVIOUS
  <2>. USE DEF AwakeWhileOn
  <2>1. CASE Main
    BY <2>1 DEF Main, WakeBySignal, WakeByTimeOut, PollOnce, ClearAndProgress,
                Progressed, ProcessEvent, Event, Withdraw, camera
  <2>2. CASE Process
    BY <2>2 DEF Process, NotYet, PowerOn, Resets, UpdateParam, Viewing,
                GoPowerOff, ProcessIn, Goes, Resynchronise, camera
  <2>3. CASE Capture
    BY <2>3 DEF Capture, OutOfSync, FrameComplete, ProcessIn, Goes,
                Resynchronise
  <2>4. CASE Command \/ UNCHANGED vars
    BY <2>4 DEF Command, vars, camera
  <2>. QED
    BY <2>1, <2>2, <2>3, <2>4 DEF Next
<1>. QED
  BY <1>1, <1>2, PTL DEF Spec

--------------------------------------------------------------------------------
(***************************************************************************)
(* The last command                                                        *)
(***************************************************************************)
\* The last command is in the word, with nothing there to override it; or in
\* the hands of ProcessEvent; or the state agrees with it.
Pending == last \in flags /\ (last = "PowerOn" => "PowerOff" \notin flags)

InHandNow == last \in value /\ (last = "PowerOn" => "PowerOff" \notin value)

Agrees ==
    IF last = "PowerOn" THEN state \in On \cup {"PowerOn"}
                        ELSE state \in {"PowerOff", "GoPowerOff"}

OnItsWay ==
    \/ Pending
    \/ flags = {} /\ pc = "event" /\ InHandNow
    \/ flags = {} /\ (pc = "event" => value = {}) /\ Agrees

CommandInv == ~missed => OnItsWay

LEMMA CommandStep == TypeInv /\ CommandInv /\ [Next]_vars => CommandInv'
<1>. SUFFICES ASSUME TypeInv, CommandInv, [Next]_vars, ~missed'
              PROVE  OnItsWay'
  BY DEF CommandInv
<1>. USE DEF CommandInv, OnItsWay, Pending, InHandNow, Agrees
<1>1. CASE WakeBySignal \/ WakeByTimeOut
  BY <1>1 DEF WakeBySignal, WakeByTimeOut, camera, sender, mailbox
<1>2. ASSUME NEW elapsed \in BOOLEAN, PollOnce(elapsed)
      PROVE  OnItsWay'
  BY <1>2 DEF PollOnce, sender, mailbox
<1>3. ASSUME NEW elapsed \in BOOLEAN, ClearAndProgress(elapsed)
      PROVE  OnItsWay'
  \* Nothing was lost: the word was what has been read.
  <2>1. ~missed /\ flags \subseteq value
    BY <1>3 DEF ClearAndProgress
  <2>2. CASE pc = "signalled"
    <3>1. value = flags
      BY <2>1, <2>2 DEF TypeInv
    <3>. QED
      BY <1>3, <2>1, <2>2, <3>1 DEF ClearAndProgress
  <2>3. CASE pc = "timeout"
    <3>1. flags = {}
      BY <2>1, <2>3 DEF TypeInv
    <3>. QED
      BY <1>3, <2>1, <2>3, <3>1 DEF ClearAndProgress
  <2>. QED
    BY <1>3, <2>2, <2>3 DEF ClearAndProgress
<1>4. CASE ProcessEvent
  BY <1>4 DEF TypeInv, TypeOK, ProcessEvent, Event, Power, On, sender, mailbox
<1>5. CASE Withdraw
  <2>1. ~missed /\ flags \cap value = {}
    BY <1>5 DEF Withdraw
  <2>2. flags' = flags
    BY <1>5, <2>1 DEF Withdraw
  <2>. QED
    BY <1>5, <2>1, <2>2 DEF Withdraw, camera
<1>6. CASE Process
  BY <1>6 DEF TypeInv, TypeOK, On, Process, NotYet, PowerOn, Resets,
              UpdateParam, Viewing, GoPowerOff, ProcessIn, Goes, Resynchronise,
              camera, sender, mailbox
<1>7. CASE Capture
  BY <1>7 DEF TypeInv, TypeOK, On, Capture, OutOfSync, FrameComplete, ProcessIn,
              Goes, Resynchronise, sender, mailbox
<1>8. CASE Command
  BY <1>8 DEF Command, camera
<1>9. CASE UNCHANGED vars
  BY <1>9 DEF vars, camera, sender, mailbox
<1>. QED
  BY <1>1, <1>2, <1>3, <1>4, <1>5, <1>6, <1>7, <1>8, <1>9 DEF Next, Main

\* When the thread sleeps with all commands taken in, the camera obeys the last
\* one, unless it was lost or merged.
THEOREM CameraObeys == Spec => []CameraFollowsPower
<1>1. Init => CommandInv
  BY DEF Init, CommandInv, OnItsWay, Agrees
<1>2. TypeInv /\ CommandInv => CameraFollowsPower
  BY DEF TypeInv, TypeOK, CommandInv, OnItsWay, Pending, Agrees,
         CameraFollowsPower, Power
<1>. QED
  BY <1>1, <1>2, CommandStep, TypeInductive, PTL DEF Spec

--------------------------------------------------------------------------------
(***************************************************************************)
(* The mailbox                                                             *)
(***************************************************************************)
\* Each step of the thread is a step of the box or leaves it alone.
THEOREM ImplementsBox == Spec => BoxSpec
<1>. USE DEF InHand
<1>1. Init => Box!Init
  BY DEF Init, Box!Init
<1>2. TypeInv /\ [Next]_vars => [Box!Next]_(Box!vars)
  <2>. SUFFICES ASSUME TypeInv, [Next]_vars
                PROVE  Box!Next \/ UNCHANGED Box!vars
    BY DEF Box!vars
  <2>1. CASE WakeBySignal \/ WakeByTimeOut
    <3>1. Box!Wake
      BY <2>1 DEF WakeBySignal, WakeByTimeOut, Box!Wake, mailbox
    <3>. QED
      BY <3>1 DEF Box!Next
  <2>2. ASSUME NEW elapsed \in BOOLEAN, PollOnce(elapsed)
        PROVE  Box!Next
    <3>1. Box!Wake
      BY <2>2 DEF PollOnce, Box!Wake, mailbox
    <3>. QED
      BY <3>1 DEF Box!Next
  <2>3. ASSUME NEW elapsed \in BOOLEAN, ClearAndProgress(elapsed)
        PROVE  Box!Next
    <3>1. /\ value \subseteq flags
          /\ flags \subseteq Power /\ value \subseteq Power
      BY <2>3 DEF ClearAndProgress, TypeInv, TypeOK
    <3>2. CASE pc = "signalled"
      <4>1. Box!DropAndHand(flags \ value, value)
        BY <2>3, <3>1, <3>2 DEF ClearAndProgress, Box!DropAndHand
      <4>. QED
        BY <3>1, <4>1 DEF Box!Next
    <3>3. CASE pc = "timeout"
      <4>1. Box!DropAndHand(flags, {})
        BY <2>3, <3>1, <3>3 DEF ClearAndProgress, Box!DropAndHand
      <4>. QED
        BY <3>1, <4>1 DEF Box!Next
    <3>. QED
      BY <2>3, <3>2, <3>3 DEF ClearAndProgress
  <2>4. CASE ProcessEvent
    BY <2>4 DEF ProcessEvent, Box!vars, mailbox
  <2>5. CASE Withdraw
    <3>1. Box!Withdraw
      BY <2>5 DEF Withdraw, Box!Withdraw
    <3>. QED
      BY <3>1 DEF Box!Next
  <2>6. CASE Process \/ Capture
    <3>1. pc = "process" /\ pc' = "wait" /\ UNCHANGED mailbox
      BY <2>6 DEF Process, Capture, NotYet, PowerOn, Resets, OutOfSync,
                  FrameComplete, UpdateParam, Viewing, GoPowerOff, ProcessIn
    <3>2. Box!Sleep
      BY <3>1 DEF Box!Sleep, mailbox
    <3>. QED
      BY <3>2 DEF Box!Next
  <2>7. CASE Command
    <3>1. last' \in Power /\ Box!Post(last')
      BY <2>7 DEF Command, Power, Box!Post
    <3>. QED
      BY <3>1 DEF Box!Next
  <2>8. CASE UNCHANGED vars
    BY <2>8 DEF vars, Box!vars, mailbox
  <2>. QED
    BY <2>1, <2>2, <2>3, <2>4, <2>5, <2>6, <2>7, <2>8 DEF Next, Main
<1>. QED
  BY <1>1, <1>2, TypeInductive, PTL DEF Spec, BoxSpec, Box!Spec
================================================================================
