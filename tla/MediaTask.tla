------------------------------- MODULE MediaTask -------------------------------
(***************************************************************************)
(* PeachCam/src/MediaTask.cpp: the media thread, a TaskThread that runs    *)
(* VisualTask (display and camera), AudioTask (recorder) and VibratorTask, *)
(* together with the part of TaskThread::Main that schedules them.  Any    *)
(* thread may signal it at any time.                                       *)
(*                                                                         *)
(* Left out: the contents of the recording (RecAudio, StartShutter,        *)
(* EndShutter and the audio driver) and the names of the files.  Timers    *)
(* are as in NetTask: "forever", "running" or "due".  Two streams stand    *)
(* for the FILEs fopen may return: a new one is never the one in wav_fp,   *)
(* which nobody has closed.                                                *)
(***************************************************************************)
Timers == {"forever", "running", "due"}
Power == {"PowerOn", "PowerOff"}
Signals == Power \cup {"TriggerOn"}
Streams == {"odd", "even"}

VARIABLES
    flags,      \* the thread's _flags
    evf,        \* its event
    pc,         \* where it is in Main
    value,      \* evt.value.signals while it is of use, else empty
    visual,     \* VisualTask::_state
    audio,      \* AudioTask: _timer, _state, wav_fp ("none" is NULL)
    vibrator,   \* VibratorTask: _timer, and whether _state is On
    netAsked,   \* UpdateRequest is set in the net thread's flags
    disturbed   \* history: PowerOn or TriggerOn posted since wav_fp was opened

mailbox == <<flags, evf>>
thread == <<pc, value>>
media == <<visual, audio, vibrator>>
outside == <<netAsked, disturbed>>
mediaVars == <<mailbox, thread, media, outside>>

MediaTypeOK ==
    /\ flags \subseteq Signals
    /\ evf \in BOOLEAN
    /\ pc \in {"wait", "signalled", "timeout", "event", "shooting", "audio",
               "withdraw", "process"}
    /\ value \subseteq Signals
    /\ visual \in {"PowerOff", "Viewing", "Recording"}
    /\ visual = "Recording" => pc = "shooting"
    /\ audio \in [timer : Timers, state : {"PowerOff", "Idle", "Recording"},
                  wavFp : {"none"} \cup Streams]
    /\ vibrator \in [timer : Timers, on : BOOLEAN]
    /\ netAsked \in BOOLEAN
    /\ disturbed \in BOOLEAN

MediaInit ==
    /\ flags = {}
    /\ evf = FALSE
    /\ pc = "wait"
    /\ value = {}
    /\ visual = "PowerOff"
    /\ audio = [timer |-> "forever", state |-> "PowerOff", wavFp |-> "none"]
    /\ vibrator = [timer |-> "forever", on |-> FALSE]
    /\ netAsked = FALSE
    /\ disturbed = FALSE

\* What ends the use of wav_fp without closing it.
Disturbing == {"PowerOn", "TriggerOn"}

\* TaskThread::Signal of the media thread
Signal(s) ==
    /\ flags' = flags \cup {s}
    /\ evf' = TRUE
    /\ disturbed' = (disturbed \/ s \in Disturbing)

--------------------------------------------------------------------------------
(***************************************************************************)
(* The media thread: TaskThread::Main                                      *)
(***************************************************************************)
\* Nothing is left "due" at the top of the loop (ArmedWhileBusy), nor is
\* VisualTask's timer, which Process always sets to -1.
GetTimer ==
    IF "running" \in {audio.timer, vibrator.timer} THEN "running"
                                                   ELSE "forever"

WakeBySignal ==
    /\ pc = "wait"
    /\ evf
    /\ evf' = FALSE
    /\ value' = flags
    /\ pc' = "signalled"
    /\ UNCHANGED <<flags, media, outside>>

WakeByTimeOut ==
    /\ pc = "wait"
    /\ GetTimer = "running"
    /\ ~evf
    /\ pc' = "timeout"
    /\ UNCHANGED <<mailbox, value, media, outside>>

Progressed(timer, elapsed) ==
    IF timer = "running" /\ ~elapsed THEN "running" ELSE "due"

Progress(expired) ==
    /\ audio' = [audio EXCEPT !.timer = Progressed(@, "audio" \in expired)]
    /\ vibrator' = [vibrator EXCEPT
                        !.timer = Progressed(@, "vibrator" \in expired)]

Expiries == SUBSET {"audio", "vibrator"}

\* A deadline found past before the wait: nothing is consumed or cleared.
PollOnce(expired) ==
    /\ pc = "wait"
    /\ GetTimer = "running"
    /\ Progress(expired)
    /\ pc' = "process"
    /\ UNCHANGED <<mailbox, value, visual, outside>>

\* The end of signal_wait, and Progress.
ClearAndProgress(expired) ==
    /\ pc \in {"signalled", "timeout"}
    /\ flags' = {}
    /\ Progress(expired)
    /\ pc' = IF pc = "signalled" THEN "event" ELSE "process"
    /\ UNCHANGED <<evf, value, visual, outside>>

WithdrawNothing ==
    /\ pc = "withdraw"
    /\ value' = {}
    /\ pc' = "process"
    /\ UNCHANGED <<mailbox, media, outside>>

\* signal_clr(evt.value.signals)
Withdraw ==
    /\ pc = "withdraw"
    /\ flags' = flags \ value
    /\ value' = {}
    /\ pc' = "process"
    /\ UNCHANGED <<evf, media, outside>>

--------------------------------------------------------------------------------
(***************************************************************************)
(* ProcessEvent of VisualTask, AudioTask and VibratorTask, in this order   *)
(***************************************************************************)
\* The camera shoots on TriggerOn, unless it is powered off.  While it does,
\* its state is Recording, which the sensor thread can see.
VisualOn == "PowerOn" \in value \/ visual # "PowerOff"
Shoots == VisualOn /\ "TriggerOn" \in value

ShootBegin ==
    /\ pc = "event"
    /\ Shoots
    /\ visual' = "Recording"
    /\ pc' = "shooting"
    /\ UNCHANGED <<mailbox, value, audio, vibrator, outside>>

VisualEventOnLast ==
    IF "PowerOn" \in value \/ (visual # "PowerOff" /\ "PowerOff" \notin value)
    THEN "Viewing" ELSE "PowerOff"

\* After the shot, if any, VisualTask handles PowerOff.
VisualEvent ==
    IF VisualOn /\ "PowerOff" \notin value THEN "Viewing" ELSE "PowerOff"

AudioOn(a) ==
    IF "PowerOn" \in value
    THEN [a EXCEPT !.state = "Idle", !.timer = "forever"] ELSE a

AudioTriggerUntimed(a, opened) ==
    IF "TriggerOn" \notin value THEN a
    ELSE IF opened = "none" THEN [a EXCEPT !.wavFp = "none"]
    ELSE [a EXCEPT !.state = "Recording", !.wavFp = opened]

\* wav_fp is overwritten whatever it was.  If fopen fails the state stays.
AudioTrigger(a, opened) ==
    IF "TriggerOn" \notin value THEN a
    ELSE IF opened = "none" THEN [a EXCEPT !.wavFp = "none"]
    ELSE [timer |-> "running", state |-> "Recording", wavFp |-> opened]

AudioOffAnyState(a) ==
    IF "PowerOff" \in value
    THEN [a EXCEPT !.state = "PowerOff", !.timer = "forever"] ELSE a

AudioOff(a) ==
    IF "PowerOff" \in value /\ a.state = "Idle"
    THEN [a EXCEPT !.state = "PowerOff", !.timer = "forever"] ELSE a

VibratorEventUntimed ==
    IF "TriggerOn" \in value THEN [timer |-> "forever", on |-> TRUE]
                             ELSE vibrator

VibratorEvent ==
    IF "TriggerOn" \in value THEN [timer |-> "running", on |-> TRUE]
                             ELSE vibrator

\* VisualTask is done, and AudioTask handles PowerOn: even while recording.
DisplayAndWake ==
    /\ \/ pc = "event" /\ ~Shoots
       \/ pc = "shooting"
    /\ visual' = VisualEvent
    /\ audio' = AudioOn(audio)
    /\ pc' = "audio"
    /\ UNCHANGED <<mailbox, value, vibrator, outside>>

\* The rest is one step, for other threads only ask whether the audio task is
\* recording.
RecordAndVibrate ==
    /\ pc = "audio"
    /\ \E opened \in {"none"} \cup (Streams \ {audio.wavFp}) :
          audio' = AudioOff(AudioTrigger(audio, opened))
    /\ vibrator' = VibratorEvent
    /\ disturbed' = IF "TriggerOn" \in value
                    THEN Disturbing \cap (flags \ value) # {}
                    ELSE disturbed
    /\ pc' = "withdraw"
    /\ UNCHANGED <<mailbox, value, visual, netAsked>>

--------------------------------------------------------------------------------
(***************************************************************************)
(* Process of AudioTask and VibratorTask                                   *)
(***************************************************************************)
RecordingUp == audio.state = "Recording" /\ audio.timer = "due"

\* The wav file is completed and closed, and an update is requested.
AudioProcess ==
    IF RecordingUp
    THEN [timer |-> "forever", state |-> "Idle", wavFp |-> "none"]
    ELSE [audio EXCEPT !.timer = IF @ = "due" THEN "forever" ELSE @]

VibratorProcess ==
    IF vibrator.timer = "due" THEN [timer |-> "forever", on |-> FALSE]
                              ELSE vibrator

Process ==
    /\ pc = "process"
    /\ audio' = AudioProcess
    /\ netAsked' = (netAsked \/ RecordingUp)
    /\ vibrator' = VibratorProcess
    /\ pc' = "wait"
    /\ UNCHANGED <<mailbox, value, visual, disturbed>>

MediaStep ==
    \/ WakeBySignal \/ WakeByTimeOut
    \/ \E expired \in Expiries : PollOnce(expired) \/ ClearAndProgress(expired)
    \/ ShootBegin \/ DisplayAndWake \/ RecordAndVibrate \/ Withdraw
    \/ Process

\* The net thread takes the request out of its flags, to obey it or not.
NetTakes ==
    /\ netAsked
    /\ netAsked' = FALSE
    /\ UNCHANGED <<mailbox, thread, media, disturbed>>

SignalledBySomeone ==
    /\ \E s \in Signals : Signal(s)
    /\ UNCHANGED <<thread, media, netAsked>>

MediaNext == MediaStep \/ NetTakes \/ SignalledBySomeone

MediaSpec == MediaInit /\ [][MediaNext]_mediaVars

\* The tasks whose time is found to be up.
TimeIsUp(task) ==
    \E expired \in Expiries :
        /\ task \in expired
        /\ PollOnce(expired) \/ ClearAndProgress(expired)

\* The thread is scheduled, and a running timer that is looked at again and
\* again is found to be up.  Nobody is obliged to signal.
MediaFairness ==
    /\ WF_mediaVars(MediaStep)
    /\ \A task \in {"audio", "vibrator"} : SF_mediaVars(TimeIsUp(task))

FairMediaSpec == MediaSpec /\ MediaFairness

--------------------------------------------------------------------------------
(***************************************************************************)
(* Properties                                                              *)
(***************************************************************************)
InHand ==
    IF pc \in {"event", "shooting", "audio", "withdraw"} THEN value ELSE {}

\* The media thread's mailbox is the lossy box that ThreadSignals implements.
Box == INSTANCE SignalBox WITH
           pending <- flags \cup InHand,
           handed <- InHand,
           asleep <- pc = "wait"

BoxSpec == Box!Spec

\* A wav file that is being recorded ends in one of two ways: its time is up,
\* and then it is completed and closed and the net thread asked to update; or
\* it is given up unclosed, because PowerOn or another TriggerOn was posted
\* after the trigger that opened it was taken in.  PowerOff, and signals left
\* in the mailbox from before, never end it.
RecordsInto(file) == audio.state = "Recording" /\ audio.wavFp = file

RecordingEndsCleanly ==
    [][\A file \in Streams :
           RecordsInto(file) /\ ~RecordsInto(file)'
               => \/ audio'.state = "Idle" /\ audio'.wavFp = "none" /\ netAsked'
                  \/ disturbed]_mediaVars

\* Although each wake-up makes every task due, whatever its timer was: the thread
\* goes to sleep with no task due, and with a timer that runs for a recording
\* and for a vibrator that is on.
ArmedWhileBusy ==
    pc = "wait" =>
        /\ "due" \notin {audio.timer, vibrator.timer}
        /\ audio.state = "Recording" => audio.timer = "running"
        /\ vibrator.on => vibrator.timer = "running"

\* Once the trigger is left alone, the recording it started and the vibrator
\* come to an end, even if power commands keep arriving.
TriggerWearsOff ==
    <>[]("TriggerOn" \notin flags)
        => <>[](audio.state # "Recording" /\ ~vibrator.on)
================================================================================
