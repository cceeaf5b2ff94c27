-------------------------- MODULE PowerHistory_proofs --------------------------
(***************************************************************************)
(* Theorems about the sensor and media threads together (PowerControl and  *)
(* PowerHistory), for any limits of the debounce and idle counters.        *)
(***************************************************************************)
EXTENDS PowerHistory, TLAPS

--------------------------------------------------------------------------------
(***************************************************************************)
(* What the state consists of.                                             *)
(***************************************************************************)
\* Only Main's own snapshot is ever in value, and only the owner takes flags
\* away.
HandInv ==
    /\ pc \in {"wait", "timeout", "process"} => value = {}
    /\ pc = "signalled" => value \subseteq flags

StateInv == TypeOK /\ HandInv

MediaInv == MediaTypeOK /\ HandInv

LEMMA AudioTyped ==
    ASSUME MediaInv, NEW expired \in Expiries, Progress(expired)
    PROVE  /\ audio' \in [timer : Timers,
                          state : {"PowerOff", "Idle", "Recording"},
                          wavFp : {"none"} \cup Streams]
           /\ vibrator' \in [timer : Timers, on : BOOLEAN]
<1>1. \A timer, elapsed : Progressed(timer, elapsed) \in Timers
  BY DEF Progressed, Timers
<1> QED
  BY <1>1 DEF Progress, MediaInv, MediaTypeOK

LEMMA MediaKeepsTypes ==
    ASSUME MediaInv, MediaStep \/ NetTakes
    PROVE  MediaInv'
<1> USE DEF MediaInv, HandInv, MediaTypeOK, mailbox, media, thread, outside
<1>1. CASE WakeBySignal \/ WakeByTimeOut
  BY <1>1 DEF WakeBySignal, WakeByTimeOut
<1>2. ASSUME NEW expired \in Expiries,
             PollOnce(expired) \/ ClearAndProgress(expired)
      PROVE  MediaInv'
  <2>1. Progress(expired)
    BY <1>2 DEF PollOnce, ClearAndProgress
  <2> QED
    BY <1>2, <2>1, AudioTyped DEF PollOnce, ClearAndProgress
<1>3. CASE ShootBegin
  BY <1>3 DEF ShootBegin
<1>4. CASE DisplayAndWake
  <2>1. VisualEvent \in {"Viewing", "PowerOff"}
    BY DEF VisualEvent
  <2>2. audio' \in [timer : Timers, state : {"PowerOff", "Idle", "Recording"},
                    wavFp : {"none"} \cup Streams]
    BY <1>4 DEF DisplayAndWake, AudioOn, Timers
  <2> QED
    BY <1>4, <2>1, <2>2 DEF DisplayAndWake
<1>5. CASE RecordAndVibrate
  <2>1. PICK opened \in {"none"} \cup Streams :
            audio' = AudioOff(AudioTrigger(audio, opened))
    BY <1>5 DEF RecordAndVibrate
  <2> DEFINE Recorders == [timer : Timers,
                           state : {"PowerOff", "Idle", "Recording"},
                           wavFp : {"none"} \cup Streams]
  <2>2. AudioTrigger(audio, opened) \in Recorders
    BY DEF AudioTrigger, Timers
  <2>3. audio' \in Recorders
    BY <2>1, <2>2 DEF AudioOff, Timers
  <2>4. vibrator' \in [timer : Timers, on : BOOLEAN]
    BY <1>5 DEF RecordAndVibrate, VibratorEvent, Timers
  <2>5. disturbed' \in BOOLEAN
    BY <1>5 DEF RecordAndVibrate
  <2> QED
    BY <1>5, <2>3, <2>4, <2>5 DEF RecordAndVibrate
<1>6. CASE Withdraw
  BY <1>6 DEF Withdraw
<1>7. CASE Process
  <2>1. audio' \in [timer : Timers, state : {"PowerOff", "Idle", "Recording"},
                    wavFp : {"none"} \cup Streams]
    BY <1>7 DEF Process, AudioProcess, Timers
  <2>2. vibrator' \in [timer : Timers, on : BOOLEAN]
    BY <1>7 DEF Process, VibratorProcess, Timers
  <2> QED
    BY <1>7, <2>1, <2>2 DEF Process
<1>8. CASE NetTakes
  BY <1>8 DEF NetTakes
<1> QED
  BY <1>1, <1>2, <1>3, <1>4, <1>5, <1>6, <1>7, <1>8 DEF MediaStep

\* A signal is posted, and no more.
LEMMA PostKeepsTypes ==
    ASSUME MediaInv, NEW s \in Signals, Signal(s),
           UNCHANGED <<thread, media, netAsked>>
    PROVE  MediaInv'
  BY DEF Signal, MediaInv, HandInv, MediaTypeOK, thread, media

LEMMA SamePartKeepsTypes ==
    ASSUME MediaInv, UNCHANGED mediaVars
    PROVE  MediaInv'
  BY DEF mediaVars, mailbox, thread, media, outside, MediaInv, HandInv,
         MediaTypeOK

\* A debounce counter is reset before it can pass its limit.
LEMMA CountedInRange ==
    ASSUME NEW differs \in BOOLEAN, NEW count \in 0..DebounceLimit
    PROVE  Counted(differs, count) \in 0..DebounceLimit
  BY DebounceAssumption DEF Counted, Accepted

LEMMA SensorKeepsTypes ==
    ASSUME StateInv, SensorStep
    PROVE  StateInv'
<1> USE DEF StateInv, TypeOK
<1>1. MediaInv
  BY DEF MediaInv
<1>2. ASSUME NEW now \in BOOLEAN, TriggerSample(now)
      PROVE  StateInv'
  <2>1. trigger' \in [down : BOOLEAN, count : 0..DebounceLimit]
    BY <1>2, CountedInRange DEF TriggerSample
  <2>2. MediaInv'
    <3>1. "TriggerOn" \in Signals
      BY DEF Signals
    <3>2. CASE Signal("TriggerOn")
      BY <1>1, <1>2, <3>1, <3>2, PostKeepsTypes DEF TriggerSample
    <3>3. CASE UNCHANGED <<mailbox, disturbed>>
      BY <1>1, <1>2, <3>3, SamePartKeepsTypes
      DEF TriggerSample, mediaVars, outside
    <3> QED
      BY <1>2, <3>2, <3>3 DEF TriggerSample
  <2> QED
    BY <1>2, <2>1, <2>2 DEF TriggerSample, MediaInv
<1>3. ASSUME NEW now \in BOOLEAN, GripSample(now)
      PROVE  StateInv'
  <2>1. grip' \in [hold : BOOLEAN, count : 0..DebounceLimit]
    BY <1>3, CountedInRange DEF GripSample
  <2>2. MediaInv'
    BY <1>1, <1>3, SamePartKeepsTypes DEF GripSample
  <2> QED
    BY <1>3, <2>1, <2>2 DEF GripSample, MediaInv
<1>4. CASE LookAtAudio
  <2>1. MediaInv'
    BY <1>1, <1>4, SamePartKeepsTypes DEF LookAtAudio
  <2> QED
    BY <1>4, <2>1 DEF LookAtAudio, MediaInv
<1>5. CASE SwitchOn
  <2>1. MediaInv'
    BY <1>1, <1>5, PostKeepsTypes DEF SwitchOn, Signals, Power
  <2> QED
    BY <1>5, <2>1 DEF SwitchOn, MediaInv, Power
<1>6. CASE StayOff
  <2>1. MediaInv'
    BY <1>1, <1>6, SamePartKeepsTypes DEF StayOff
  <2> QED
    BY <1>6, <2>1 DEF StayOff, MediaInv
<1>7. CASE StayOn
  <2>1. MediaInv'
    BY <1>1, <1>7, SamePartKeepsTypes DEF StayOn
  <2>2. power' \in [state : Power, count : 0..IdleLimit]
        /\ power'.state = "PowerOn"
    BY <1>7, IdleAssumption DEF StayOn, Power
  <2> QED
    BY <1>7, <2>1, <2>2 DEF StayOn, MediaInv
<1>8. CASE SwitchOff
  <2>1. MediaInv'
    BY <1>1, <1>8, PostKeepsTypes DEF SwitchOff, Signals, Power
  <2>2. 0 \in 0..IdleLimit
    BY IdleAssumption
  <2> QED
    BY <1>8, <2>1, <2>2 DEF SwitchOff, MediaInv, Power
<1> QED
  BY <1>2, <1>3, <1>4, <1>5, <1>6, <1>7, <1>8 DEF SensorStep

LEMMA NextKeepsTypes == StateInv /\ [Next]_vars => StateInv'
<1> SUFFICES ASSUME StateInv, [Next]_vars
             PROVE  StateInv'
  OBVIOUS
<1>1. MediaInv
  BY DEF StateInv, TypeOK, MediaInv
<1>2. CASE (MediaStep \/ NetTakes) /\ UNCHANGED sensor
  <2>1. MediaInv'
    BY <1>1, <1>2, MediaKeepsTypes
  <2> QED
    BY <1>2, <2>1 DEF StateInv, TypeOK, MediaInv, sensor
<1>3. CASE UNCHANGED vars
  <2>1. MediaInv'
    BY <1>1, <1>3, SamePartKeepsTypes DEF vars
  <2> QED
    BY <1>3, <2>1 DEF StateInv, TypeOK, MediaInv, vars, sensor
<1> QED
  BY <1>2, <1>3, SensorKeepsTypes DEF Next

LEMMA InitTypes == Init => StateInv
<1> SUFFICES ASSUME Init
             PROVE  StateInv
  OBVIOUS
<1>1. MediaTypeOK /\ HandInv
  BY DEF Init, MediaInit, MediaTypeOK, HandInv, Timers
<1>2. 0 \in 0..DebounceLimit /\ 0 \in 0..IdleLimit
  BY DebounceAssumption, IdleAssumption
<1> QED
  BY <1>1, <1>2 DEF Init, StateInv, TypeOK, Power

\* However far the buttons have to be counted, no counter passes its limit, and
\* the display's state Recording is seen during a shot only.
THEOREM TypeCorrect == HistorySpec => []TypeOK
<1>1. HistoryInit => StateInv
  BY InitTypes DEF HistoryInit
<1>2. StateInv /\ [HistoryNext]_<<vars, missed>> => StateInv'
  <2>1. ASSUME [HistoryNext]_<<vars, missed>>
        PROVE  [Next]_vars
    BY <2>1 DEF HistoryNext
  <2> QED
    BY <2>1, NextKeepsTypes
<1>3. StateInv => TypeOK
  BY DEF StateInv
<1> QED
  BY <1>1, <1>2, <1>3, PTL DEF HistorySpec

--------------------------------------------------------------------------------
(***************************************************************************)
(* Where the last power command is, unless it was missed: in the word with *)
(* nothing to override it, in VisualTask's hands, or obeyed.               *)
(***************************************************************************)
\* Handling this set of signals leaves the display as the last command says.
Obeys(signals) ==
    /\ power.state \in signals
    /\ power.state = "PowerOn" => "PowerOff" \notin signals

Agrees == (visual = "PowerOff") = (power.state = "PowerOff")

AtDisplay == pc \in {"event", "shooting"}

OnItsWay ==
    \/ Obeys(flags)
    \/ Power \cap flags = {} /\ AtDisplay /\ Obeys(value)
    \/ Power \cap flags = {} /\ (AtDisplay => Power \cap value = {}) /\ Agrees

CommandInv == ~missed => OnItsWay

\* The media thread's steps move the command on, or lose it and say so.
LEMMA MediaMovesCommand ==
    ASSUME StateInv, CommandInv, MediaStep \/ NetTakes, power' = power,
           missed' = (missed \/ Power \cap ((flags \ flags') \ (
                         IF pc = "signalled" THEN value ELSE {})) # {}),
           ~missed'
    PROVE  OnItsWay'
<1> USE DEF StateInv, TypeOK, HandInv, MediaTypeOK, CommandInv, OnItsWay, Obeys,
            Agrees, AtDisplay, Power, mailbox, media, thread
<1>1. CASE WakeBySignal \/ WakeByTimeOut
  BY <1>1 DEF WakeBySignal, WakeByTimeOut
<1>2. ASSUME NEW expired \in Expiries, PollOnce(expired)
      PROVE  OnItsWay'
  BY <1>2 DEF PollOnce
<1>3. ASSUME NEW expired \in Expiries, ClearAndProgress(expired)
      PROVE  OnItsWay'
  <2>1. flags' = {} /\ visual' = visual /\ value' = value
    BY <1>3 DEF ClearAndProgress
  <2>2. CASE pc = "signalled"
    <3>1. Power \cap flags = Power \cap value /\ pc' = "event"
      BY <1>3, <2>1, <2>2 DEF ClearAndProgress
    <3> QED
      BY <2>1, <2>2, <3>1
  <2>3. CASE pc = "timeout"
    <3>1. Power \cap flags = {} /\ pc' = "process"
      BY <1>3, <2>1, <2>3 DEF ClearAndProgress
    <3> QED
      BY <2>1, <2>3, <3>1
  <2> QED
    BY <1>3, <2>2, <2>3 DEF ClearAndProgress
<1>4. CASE ShootBegin
  BY <1>4 DEF ShootBegin, Shoots, VisualOn
<1>5. CASE DisplayAndWake
  <2>1. /\ AtDisplay /\ pc' = "audio"
        /\ UNCHANGED <<flags, value, power>>
        /\ visual' = VisualEvent
    BY <1>5 DEF DisplayAndWake
  <2>2. CASE Obeys(flags)
    BY <2>1, <2>2
  <2>3. CASE Power \cap flags = {} /\ Obeys(value)
    <3>1. power.state \in {"PowerOff", "PowerOn"}
      BY DEF StateInv, TypeOK
    <3>2. (VisualEvent = "PowerOff") = (power.state = "PowerOff")
      BY <2>3, <3>1 DEF VisualEvent, VisualOn
    <3> QED
      BY <2>1, <2>3, <3>2
  <2>4. CASE Power \cap flags = {} /\ Power \cap value = {} /\ Agrees
    <3>1. (VisualEvent = "PowerOff") = (visual = "PowerOff")
      BY <2>4 DEF VisualEvent, VisualOn
    <3> QED
      BY <2>1, <2>4, <3>1
  <2> QED
    BY <2>1, <2>2, <2>3, <2>4
<1>6. CASE RecordAndVibrate
  BY <1>6 DEF RecordAndVibrate
<1>7. CASE Withdraw
  <2>1. Power \cap flags \cap value = {}
    BY <1>7 DEF Withdraw
  <2>2. Power \cap flags' = Power \cap flags
    BY <1>7, <2>1 DEF Withdraw
  <2> QED
    BY <1>7, <2>2 DEF Withdraw
<1>8. CASE Process
  BY <1>8 DEF Process
<1>9. CASE NetTakes
  BY <1>9 DEF NetTakes
<1> QED
  BY <1>1, <1>2, <1>3, <1>4, <1>5, <1>6, <1>7, <1>8, <1>9 DEF MediaStep

\* The display obeys the last power command, whatever the limits and however
\* samples, decisions, shots and the mailbox interleave, unless that command
\* was lost or put into one word with an opposite one.
THEOREM DisplayFollows == HistorySpec => []VisualFollowsPower
<1>1. HistoryInit => StateInv /\ CommandInv
  <2> SUFFICES ASSUME HistoryInit
               PROVE  CommandInv
    BY InitTypes DEF HistoryInit
  <2> QED
    BY DEF HistoryInit, Init, MediaInit, CommandInv, OnItsWay, Agrees, AtDisplay
<1>2. StateInv /\ CommandInv /\ [HistoryNext]_<<vars, missed>>
          => StateInv' /\ CommandInv'
  <2> SUFFICES ASSUME StateInv, CommandInv, [HistoryNext]_<<vars, missed>>, ~missed'
               PROVE  StateInv' /\ OnItsWay'
    BY NextKeepsTypes DEF CommandInv, HistoryNext
  <2>1. StateInv'
    BY NextKeepsTypes DEF HistoryNext
  <2>2. CASE HistoryNext /\ (MediaStep \/ NetTakes) /\ UNCHANGED sensor
    <3>1. power' = power
      BY <2>2 DEF sensor
    <3> QED
      BY <2>1, <2>2, <3>1, MediaMovesCommand DEF HistoryNext
  <2>3. CASE HistoryNext /\ (SwitchOn \/ SwitchOff)
    <3>1. CASE SwitchOn
      <4>1. power.state = "PowerOff" /\ power'.state = "PowerOn"
            /\ flags' = flags \cup {"PowerOn"}
        BY <3>1 DEF SwitchOn, Signal, StateInv, TypeOK
      <4>2. "PowerOff" \notin flags
        BY <2>3, <4>1 DEF HistoryNext
      <4> QED
        BY <2>1, <4>1, <4>2 DEF OnItsWay, Obeys
    <3>2. CASE SwitchOff
      <4>1. power'.state = "PowerOff" /\ flags' = flags \cup {"PowerOff"}
        BY <3>2 DEF SwitchOff, Signal
      <4> QED
        BY <2>1, <4>1 DEF OnItsWay, Obeys
    <3> QED
      BY <2>3, <3>1, <3>2
  <2>4. ASSUME HistoryNext,
               \/ \E now \in BOOLEAN : TriggerSample(now) \/ GripSample(now)
               \/ LookAtAudio \/ StayOff \/ StayOn
        PROVE  OnItsWay'
    <3>1. /\ flags' = flags \/ flags' = flags \cup {"TriggerOn"}
          /\ power'.state = power.state
          /\ UNCHANGED <<visual, pc, value>>
      BY <2>4 DEF TriggerSample, GripSample, LookAtAudio, StayOff, StayOn, Signal,
                  mailbox, thread, media, mediaVars, StateInv, TypeOK
    <3>2. ~missed
      BY <2>4, <3>1 DEF HistoryNext
    <3>3. Power \cap flags' = Power \cap flags
      BY <3>1 DEF Power
    <3>4. Obeys(flags) => Obeys(flags)'
      BY <3>1 DEF Obeys
    <3> QED
      BY <3>1, <3>2, <3>3, <3>4
      DEF CommandInv, OnItsWay, Obeys, Agrees, AtDisplay
  <2>5. CASE UNCHANGED <<vars, missed>>
    <3>1. UNCHANGED <<flags, value, pc, visual, power, missed>>
      BY <2>5 DEF vars, mediaVars, mailbox, thread, media, sensor
    <3> QED
      BY <2>1, <3>1 DEF CommandInv, OnItsWay, Obeys, Agrees, AtDisplay
  <2> QED
    BY <2>1, <2>2, <2>3, <2>4, <2>5 DEF HistoryNext, Next, SensorStep
<1>3. StateInv /\ CommandInv => VisualFollowsPower
  BY DEF StateInv, TypeOK, CommandInv, OnItsWay, Obeys, Agrees, Power,
         VisualFollowsPower
<1> QED
  BY <1>1, <1>2, <1>3, PTL DEF HistorySpec

--------------------------------------------------------------------------------
(***************************************************************************)
(* The media thread by itself, signalled by anybody.                       *)
(***************************************************************************)
LEMMA MediaInductive == MediaSpec => []MediaInv
<1>1. ASSUME MediaInit
      PROVE  MediaInv
  <2>1. MediaTypeOK /\ HandInv
    BY <1>1 DEF MediaInit, MediaTypeOK, HandInv, Timers
  <2> QED
    BY <2>1 DEF MediaInv
<1>2. MediaInv /\ [MediaNext]_mediaVars => MediaInv'
  BY MediaKeepsTypes, PostKeepsTypes, SamePartKeepsTypes
  DEF MediaNext, SignalledBySomeone
<1>3. MediaInit => MediaInv
  BY <1>1
<1> QED
  BY <1>2, <1>3, PTL DEF MediaSpec

\* Each step of the media thread is a step of the box or leaves it alone.
THEOREM ImplementsBox == MediaSpec => BoxSpec
<1> USE DEF InHand, mailbox, thread, media
<1>1. MediaInit => Box!Init
  BY DEF MediaInit, Box!Init
<1>2. MediaInv /\ [MediaNext]_mediaVars => [Box!Next]_(Box!vars)
  <2> SUFFICES ASSUME MediaInv, [MediaNext]_mediaVars
               PROVE  Box!Next \/ UNCHANGED Box!vars
    BY DEF Box!vars
  <2> USE DEF MediaInv, HandInv
  <2>1. CASE WakeBySignal \/ WakeByTimeOut
    <3>1. Box!Wake
      BY <2>1 DEF WakeBySignal, WakeByTimeOut, Box!Wake
    <3> QED
      BY <3>1 DEF Box!Next
  <2>2. ASSUME NEW expired \in Expiries, PollOnce(expired)
        PROVE  Box!Next
    <3>1. Box!Wake
      BY <2>2 DEF PollOnce, Box!Wake
    <3> QED
      BY <3>1 DEF Box!Next
  <2>3. ASSUME NEW expired \in Expiries, ClearAndProgress(expired)
        PROVE  Box!Next
    <3>1. flags \subseteq Signals /\ value \subseteq Signals
      BY DEF MediaTypeOK
    <3>2. CASE pc = "signalled"
      <4>1. Box!DropAndHand(flags \ value, value)
        BY <2>3, <3>2 DEF ClearAndProgress, Box!DropAndHand
      <4> QED
        BY <3>1, <4>1 DEF Box!Next
    <3>3. CASE pc = "timeout"
      <4>1. Box!DropAndHand(flags, {})
        BY <2>3, <3>3 DEF ClearAndProgress, Box!DropAndHand
      <4> QED
        BY <3>1, <4>1 DEF Box!Next
    <3> QED
      BY <2>3, <3>2, <3>3 DEF ClearAndProgress
  <2>4. CASE ShootBegin \/ DisplayAndWake \/ RecordAndVibrate
    BY <2>4 DEF ShootBegin, DisplayAndWake, RecordAndVibrate, Box!vars
  <2>5. CASE Withdraw
    <3>1. Box!Withdraw
      BY <2>5 DEF Withdraw, Box!Withdraw
    <3> QED
      BY <3>1 DEF Box!Next
  <2>6. CASE Process
    <3>1. Box!Sleep
      BY <2>6 DEF Process, Box!Sleep
    <3> QED
      BY <3>1 DEF Box!Next
  <2>7. CASE NetTakes
    BY <2>7 DEF NetTakes, Box!vars
  <2>8. CASE SignalledBySomeone
    <3>1. PICK s \in Signals : Signal(s)
      BY <2>8 DEF SignalledBySomeone
    <3>2. Box!Post(s)
      BY <2>8, <3>1 DEF SignalledBySomeone, Signal, Box!Post
    <3> QED
      BY <3>2 DEF Box!Next
  <2>9. CASE UNCHANGED mediaVars
    BY <2>9 DEF mediaVars, Box!vars
  <2> QED
    BY <2>1, <2>2, <2>3, <2>4, <2>5, <2>6, <2>7, <2>8, <2>9
    DEF MediaNext, MediaStep
<1> QED
  BY <1>1, <1>2, MediaInductive, PTL DEF MediaSpec, BoxSpec, Box!Spec

\* While nothing that could disturb the recording has been posted since its
\* trigger, none is on its way: what is left in the word, of signals posted
\* again before the file was opened, is withdrawn before the thread sleeps.
RecordsUndisturbed == audio.state = "Recording" /\ audio.wavFp # "none" /\ ~disturbed

FileInv ==
    RecordsUndisturbed =>
        IF pc = "withdraw" THEN Disturbing \cap (flags \ value) = {}
                           ELSE Disturbing \cap (flags \cup value) = {}

\* What RecordAndVibrate does to a recording that nothing disturbs, and when
\* it leaves such a recording behind.
LEMMA RecordStep ==
    ASSUME MediaInv, FileInv, RecordAndVibrate
    PROVE  /\ RecordsUndisturbed => audio' = audio
           /\ FileInv'
<1> USE DEF MediaInv, MediaTypeOK, RecordsUndisturbed, FileInv
<1>1. PICK opened \in {"none"} \cup Streams :
          audio' = AudioOff(AudioTrigger(audio, opened))
  BY DEF RecordAndVibrate
<1>2. pc = "audio" /\ pc' = "withdraw" /\ flags' = flags /\ value' = value
  BY DEF RecordAndVibrate, mailbox
<1>3. CASE "TriggerOn" \in value
  <2>1. "TriggerOn" \in Disturbing
    BY DEF Disturbing
  <2>2. ~RecordsUndisturbed
    BY <1>2, <1>3, <2>1
  <2>3. disturbed' = (Disturbing \cap (flags \ value) # {})
    BY <1>3 DEF RecordAndVibrate
  <2> QED
    BY <1>2, <2>2, <2>3
<1>4. CASE "TriggerOn" \notin value
  <2>1. audio' = AudioOff(audio) /\ disturbed' = disturbed
    BY <1>1, <1>4 DEF AudioTrigger, RecordAndVibrate
  <2>2. audio' = audio \/ audio'.state = "PowerOff"
    BY <2>1 DEF AudioOff
  <2>3. audio.state = "Recording" => audio' = audio
    BY <2>1 DEF AudioOff
  <2> QED
    BY <1>2, <2>1, <2>2, <2>3
<1> QED
  BY <1>3, <1>4

LEMMA FileStep == MediaInv /\ FileInv /\ [MediaNext]_mediaVars => FileInv'
<1> SUFFICES ASSUME MediaInv, FileInv, [MediaNext]_mediaVars
             PROVE  FileInv'
  OBVIOUS
<1> USE DEF MediaInv, MediaTypeOK, HandInv, FileInv, RecordsUndisturbed,
            mailbox, thread, media, outside
<1>1. CASE WakeBySignal \/ WakeByTimeOut
  BY <1>1 DEF WakeBySignal, WakeByTimeOut
<1>2. ASSUME NEW expired \in Expiries,
             PollOnce(expired) \/ ClearAndProgress(expired)
      PROVE  FileInv'
  <2>1. audio'.state = audio.state /\ audio'.wavFp = audio.wavFp
    BY <1>2 DEF PollOnce, ClearAndProgress, Progress
  <2> QED
    BY <1>2, <2>1 DEF PollOnce, ClearAndProgress
<1>3. CASE ShootBegin
  BY <1>3 DEF ShootBegin
<1>4. CASE DisplayAndWake
  <2>1. audio' = audio \/ audio'.state = "Idle"
    BY <1>4 DEF DisplayAndWake, AudioOn
  <2> QED
    BY <1>4, <2>1 DEF DisplayAndWake
<1>5. CASE RecordAndVibrate
  BY <1>5, RecordStep
<1>6. CASE Withdraw
  BY <1>6 DEF Withdraw
<1>7. CASE Process
  <2>1. \/ audio'.state = "Idle"
        \/ audio'.state = audio.state /\ audio'.wavFp = audio.wavFp
    BY <1>7 DEF Process, AudioProcess
  <2> QED
    BY <1>7, <2>1 DEF Process
<1>8. CASE NetTakes \/ UNCHANGED mediaVars
  BY <1>8 DEF NetTakes, mediaVars
<1>9. CASE SignalledBySomeone
  <2>1. PICK s \in Signals : Signal(s)
    BY <1>9 DEF SignalledBySomeone
  <2>2. UNCHANGED <<audio, pc, value>> /\ flags' = flags \cup {s}
    BY <1>9, <2>1 DEF SignalledBySomeone, Signal
  <2>3. ~disturbed' => ~disturbed /\ s \notin Disturbing
    BY <2>1 DEF Signal
  <2> QED
    BY <2>2, <2>3
<1> QED
  BY <1>1, <1>2, <1>3, <1>4, <1>5, <1>6, <1>7, <1>8, <1>9
  DEF MediaNext, MediaStep

\* However the thread is signalled and woken, a file that is being recorded is
\* completed when its time is up and the update requested, or PowerOn or another
\* TriggerOn was posted after its own trigger was taken in: PowerOff never ends
\* it, nor does what the mailbox held before.
THEOREM RecordingEnds == MediaSpec => RecordingEndsCleanly
<1> DEFINE Closed == audio'.state = "Idle" /\ audio'.wavFp = "none" /\ netAsked'
<1>1. MediaInit => FileInv
  BY DEF MediaInit, FileInv, RecordsUndisturbed
<1>2. MediaInv /\ FileInv /\ [MediaNext]_mediaVars
          => [\A file \in Streams :
                 RecordsInto(file) /\ ~RecordsInto(file)'
                     => \/ audio'.state = "Idle" /\ audio'.wavFp = "none" /\ netAsked'
                        \/ disturbed]_mediaVars
  <2> SUFFICES ASSUME MediaInv, FileInv, MediaNext, ~disturbed,
                      NEW file \in Streams,
                      RecordsInto(file), ~RecordsInto(file)'
               PROVE  Closed
    OBVIOUS
  <2>1. RecordsUndisturbed
    BY DEF RecordsInto, RecordsUndisturbed, Streams
  <2>2. audio' # audio
    BY DEF RecordsInto
  <2>3. ASSUME NEW expired \in Expiries, Progress(expired)
        PROVE  FALSE
    BY <2>3 DEF Progress, RecordsInto, MediaInv, MediaTypeOK
  <2>4. ~DisplayAndWake
    <3>1. SUFFICES ASSUME DisplayAndWake
                   PROVE  FALSE
      OBVIOUS
    <3>2. "PowerOn" \notin value
      BY <2>1, <3>1 DEF DisplayAndWake, FileInv, Disturbing
    <3> QED
      BY <2>2, <3>1, <3>2 DEF DisplayAndWake, AudioOn
  <2>5. ~RecordAndVibrate
    BY <2>1, <2>2, RecordStep
  <2>6. CASE Process
    <3>1. CASE RecordingUp
      BY <2>6, <3>1 DEF Process, AudioProcess
    <3>2. CASE ~RecordingUp
      <4>1. audio'.state = audio.state /\ audio'.wavFp = audio.wavFp
        BY <2>6, <3>2 DEF Process, AudioProcess, MediaInv, MediaTypeOK
      <4> QED
        BY <4>1 DEF RecordsInto
    <3> QED
      BY <3>1, <3>2
  <2> QED
    BY <2>2, <2>3, <2>4, <2>5, <2>6
    DEF MediaNext, MediaStep, WakeBySignal, WakeByTimeOut, PollOnce,
        ClearAndProgress, ShootBegin, Withdraw, NetTakes, SignalledBySomeone,
        media
<1> QED
  BY <1>1, <1>2, FileStep, MediaInductive, PTL DEF MediaSpec, RecordingEndsCleanly

\* A recording and a vibrator that is on always have a timer that runs or has
\* run out, and Process leaves none that has.
ArmInv ==
    /\ pc = "wait" => audio.timer # "due" /\ vibrator.timer # "due"
    /\ audio.state = "Recording" => audio.timer # "forever"
    /\ vibrator.on => vibrator.timer # "forever"

LEMMA ProgressArms ==
    ASSUME MediaInv, NEW expired \in Expiries, Progress(expired)
    PROVE  /\ audio'.timer # "forever" /\ vibrator'.timer # "forever"
           /\ audio'.state = audio.state /\ vibrator'.on = vibrator.on
<1>1. \A timer, elapsed : Progressed(timer, elapsed) # "forever"
  BY DEF Progressed
<1> QED
  BY <1>1 DEF Progress, MediaInv, MediaTypeOK

LEMMA ArmStep == MediaInv /\ ArmInv /\ [MediaNext]_mediaVars => ArmInv'
<1> SUFFICES ASSUME MediaInv, ArmInv, [MediaNext]_mediaVars
             PROVE  ArmInv'
  OBVIOUS
<1> USE DEF ArmInv, mailbox, thread, media
<1>1. ASSUME NEW expired \in Expiries,
             PollOnce(expired) \/ ClearAndProgress(expired)
      PROVE  ArmInv'
  <2>1. Progress(expired) /\ pc' # "wait"
    BY <1>1 DEF PollOnce, ClearAndProgress
  <2> QED
    BY <2>1, ProgressArms
<1>2. CASE DisplayAndWake
  <2>1. audio' = audio \/ audio'.state = "Idle"
    BY <1>2 DEF DisplayAndWake, AudioOn, MediaInv, MediaTypeOK
  <2> QED
    BY <1>2, <2>1 DEF DisplayAndWake
<1>3. CASE RecordAndVibrate
  <2>1. PICK opened \in {"none"} \cup Streams :
            audio' = AudioOff(AudioTrigger(audio, opened))
    BY <1>3 DEF RecordAndVibrate
  <2>2. AudioTrigger(audio, opened).state = "Recording"
            => AudioTrigger(audio, opened).timer # "forever"
    BY DEF AudioTrigger, MediaInv, MediaTypeOK
  <2>3. \/ audio' = AudioTrigger(audio, opened)
        \/ audio'.state = "PowerOff"
    <3>1. AudioTrigger(audio, opened)
              \in [timer : Timers, state : {"PowerOff", "Idle", "Recording"},
                   wavFp : {"none"} \cup Streams]
      BY DEF AudioTrigger, MediaInv, MediaTypeOK, Timers
    <3> QED
      BY <2>1, <3>1 DEF AudioOff
  <2>4. vibrator'.on => vibrator'.timer # "forever"
    BY <1>3 DEF RecordAndVibrate, VibratorEvent
  <2> QED
    BY <1>3, <2>2, <2>3, <2>4 DEF RecordAndVibrate
<1>4. CASE Process
  <2>1. /\ audio'.timer # "due"
        /\ audio'.state = "Recording" => audio'.timer # "forever"
    BY <1>4 DEF Process, AudioProcess, RecordingUp, MediaInv, MediaTypeOK
  <2>2. /\ vibrator'.timer # "due"
        /\ vibrator'.on => vibrator'.timer # "forever"
    BY <1>4 DEF Process, VibratorProcess
  <2> QED
    BY <2>1, <2>2
<1>5. CASE \/ WakeBySignal \/ WakeByTimeOut \/ ShootBegin \/ Withdraw
           \/ NetTakes \/ SignalledBySomeone \/ UNCHANGED mediaVars
  BY <1>5 DEF WakeBySignal, WakeByTimeOut, ShootBegin, Withdraw, NetTakes,
              SignalledBySomeone, mediaVars
<1> QED
  BY <1>1, <1>2, <1>3, <1>4, <1>5 DEF MediaNext, MediaStep

\* Whoever signals the thread, and however often it is woken: it never sleeps
\* with a task due, nor with a recording or a vibrator that no timer will end.
THEOREM ArmedForGood == MediaSpec => []ArmedWhileBusy
<1>1. MediaInit => ArmInv
  BY DEF MediaInit, ArmInv
<1>2. MediaInv /\ ArmInv => ArmedWhileBusy
  BY DEF MediaInv, MediaTypeOK, ArmInv, ArmedWhileBusy, Timers
<1> QED
  BY <1>1, <1>2, ArmStep, MediaInductive, PTL DEF MediaSpec

--------------------------------------------------------------------------------
(***************************************************************************)
(* The media thread in the composition.                                    *)
(***************************************************************************)
\* To the media thread the sensor thread is one of those that may signal it.
LEMMA SensorIsSomeone ==
    ASSUME SensorStep
    PROVE  SignalledBySomeone \/ UNCHANGED mediaVars
<1>1. ASSUME NEW s \in Signals, Signal(s),
             UNCHANGED <<thread, media, netAsked>>
      PROVE  SignalledBySomeone
  BY <1>1 DEF SignalledBySomeone
<1>2. CASE \E now \in BOOLEAN : TriggerSample(now)
  <2>1. \/ Signal("TriggerOn") /\ UNCHANGED <<thread, media, netAsked>>
        \/ UNCHANGED mediaVars
    BY <1>2 DEF TriggerSample, mediaVars, outside
  <2> QED
    BY <1>1, <2>1 DEF Signals
<1>3. CASE SwitchOn
  BY <1>1, <1>3 DEF SwitchOn, Signals, Power
<1>4. CASE SwitchOff
  BY <1>1, <1>4 DEF SwitchOff, Signals, Power
<1>5. CASE \/ \E now \in BOOLEAN : GripSample(now)
           \/ LookAtAudio \/ StayOff \/ StayOn
  BY <1>5 DEF GripSample, LookAtAudio, StayOff, StayOn
<1> QED
  BY <1>2, <1>3, <1>4, <1>5 DEF SensorStep

\* The composition of the two threads implements the media thread's
\* specification, so that what holds of that thread however it is signalled
\* holds in the composition.
THEOREM CompositionRefines == Spec => MediaSpec
<1>1. Init => MediaInit
  BY DEF Init
<1>2. [Next]_vars => [MediaNext]_mediaVars
  <2>1. UNCHANGED vars => UNCHANGED mediaVars
    BY DEF vars
  <2> QED
    BY <2>1, SensorIsSomeone DEF Next, MediaNext
<1> QED
  BY <1>1, <1>2, PTL DEF Spec, MediaSpec

\* In the composition with the sensor thread, the media thread's mailbox is
\* the lossy box, a recording is closed in time unless the sensor thread posted
\* PowerOn or another TriggerOn after its trigger, and none is left without a
\* timer.
COROLLARY CompositionKeepsMedia ==
    Spec => BoxSpec /\ RecordingEndsCleanly /\ []ArmedWhileBusy
  BY CompositionRefines, ImplementsBox, RecordingEnds, ArmedForGood, PTL
================================================================================
