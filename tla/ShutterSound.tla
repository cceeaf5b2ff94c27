----------------------------- MODULE ShutterSound ------------------------------
(***************************************************************************)
(* PeachCam/src/MediaTask.cpp: the sound of the shutter.  A ring of        *)
(* buffers is filled from a file by the media thread, in the handler of    *)
(* StartShutter, and emptied by the audio driver, which calls              *)
(* AudioWriteEnd for each buffer played; that advances _out_ridx and       *)
(* signals StartShutter for more, or EndShutter.                           *)
(*                                                                         *)
(* The driver, which is not part of the repository, plays the buffers in   *)
(* order and holds MaxWrites at most; a write beyond that is refused, and  *)
(* the code ignores the result.  Of the media thread's mailbox the model   *)
(* keeps where signals are merged, cleared and withdrawn; the thread is    *)
(* also woken by others and by its timers, so that it may wake at any      *)
(* time.  The length of the file is left open.                             *)
(***************************************************************************)
EXTENDS Naturals, SequencesExt

CONSTANTS
    N,                  \* AUDIO_OUT_BUF_NUM
    MaxWrites           \* max_write_num, AUDIO_OUT_BUF_NUM - 1

ASSUME NAssumption == N \in Nat /\ N > 2
ASSUME MaxWritesAssumption == MaxWrites \in Nat /\ MaxWrites >= N - 1

Signals == {"TriggerOn", "StartShutter", "EndShutter"}

VARIABLES
    flags,      \* the media thread's _flags
    pc,         \* where it is in Main and AudioTask::ProcessEvent
    value,      \* evt.value.signals while it is of use, else empty
    open,       \* shutter_fp is not NULL
    ridx,       \* _out_ridx
    widx,       \* _out_widx; N before it wraps around
    limit,      \* the handler's local ridx
    playing,    \* the buffers the driver holds, the first being played
    callback,   \* the driver in AudioWriteEnd: for which buffer, and where
    loud,       \* outputVolume is 1.0
    disorder,   \* history: which of the three accidents below have happened
    lost        \* history: a StartShutter was cleared unread since the last one
                \*   that was heeded

vars == <<flags, pc, value, open, ridx, widx, limit, playing, callback, loud,
          disorder, lost>>

ring == <<ridx, widx, limit>>
driver == <<playing, callback>>
history == <<disorder, lost>>

Idle == [buffer |-> N, at |-> "idle"]

Init ==
    /\ flags = {}
    /\ pc = "wait"
    /\ value = {}
    /\ open = FALSE
    /\ ridx = 0
    /\ widx = 0
    /\ limit = 0
    /\ playing = <<>>
    /\ callback = Idle
    /\ loud = FALSE
    /\ disorder = {}
    /\ lost = FALSE

\* Accidents.  "retriggered": a trigger is handled before the sound of the one
\* before it is over.  "late": the handler reads _out_ridx after the callback
\* has advanced it and before it signals so.  "overtaken": a buffer is played
\* before the handler has counted it.
Note(accident, happens) ==
    disorder' = disorder \cup (IF happens THEN {accident} ELSE {})

\* These signals will not be handled.
Lose(signals) == lost' = (lost \/ "StartShutter" \in signals)

--------------------------------------------------------------------------------
(***************************************************************************)
(* The driver and AudioTask::AudioWriteEnd                                 *)
(***************************************************************************)
Played ==
    /\ callback = Idle
    /\ playing # <<>>
    /\ callback' = [buffer |-> Head(playing), at |-> "played"]
    /\ playing' = Tail(playing)
    /\ UNCHANGED <<flags, pc, value, open, ring, loud, history>>

\* An index moved on by one, as ++ and the test against AUDIO_OUT_BUF_NUM do.
After(index) == IF index + 1 >= N THEN 0 ELSE index + 1

IsLastByNext == After(ridx) = widx

\* if (_out_ridx == _out_widx)
IsLast == ridx = widx

Compare ==
    /\ callback.at = "played"
    /\ callback' = [callback EXCEPT !.at = IF IsLast THEN "end" ELSE "more"]
    /\ Note("overtaken", pc = "advance" /\ callback.buffer = widx)
    /\ UNCHANGED <<flags, pc, value, open, ring, playing, loud, lost>>

\* For the moment before it wraps around, N does for the handler what 0 does.
AdvanceRead ==
    /\ callback.at = "more"
    /\ ridx' = After(ridx)
    /\ callback' = [callback EXCEPT !.at = "advanced"]
    /\ UNCHANGED <<flags, pc, value, open, widx, limit, playing, loud, history>>

CallbackSignals ==
    /\ \/ callback.at = "advanced" /\ flags' = flags \cup {"StartShutter"}
       \/ callback.at = "end" /\ flags' = flags \cup {"EndShutter"}
    /\ callback' = Idle
    /\ UNCHANGED <<pc, value, open, ring, playing, loud, history>>

DriverStep == Played \/ Compare \/ AdvanceRead \/ CallbackSignals

--------------------------------------------------------------------------------
(***************************************************************************)
(* The media thread                                                        *)
(***************************************************************************)
Wake ==
    /\ pc = "wait"
    /\ value' = flags
    /\ pc' = "clear"
    /\ UNCHANGED <<flags, open, ring, driver, loud, history>>

ClearFlags ==
    /\ pc = "clear"
    /\ flags' = {}
    /\ pc' = "trigger"
    /\ Lose(flags \ value)
    /\ UNCHANGED <<value, open, ring, driver, loud, disorder>>

\* A time-out clears the word and hands nothing over.
TimeOut ==
    /\ pc = "wait"
    /\ flags' = {}
    /\ Lose(flags)
    /\ UNCHANGED <<pc, value, open, ring, driver, loud, disorder>>

SoundIsOver ==
    playing = <<>> /\ callback = Idle /\ "StartShutter" \notin flags

\* The file is opened anew, or cannot be; the old one is not closed.
Trigger ==
    /\ pc = "trigger"
    /\ IF "TriggerOn" \in value
       THEN /\ open' \in BOOLEAN
            /\ loud' = (loud \/ open')
            /\ Note("retriggered", ~SoundIsOver)
       ELSE UNCHANGED <<open, loud, disorder>>
    /\ pc' = "start"
    /\ UNCHANGED <<flags, value, ring, driver, lost>>

\* int ridx = _out_ridx; if (ridx <= 0) ridx = AUDIO_OUT_BUF_NUM - 1; else ridx--;
Limit == IF ridx <= 0 THEN N - 1 ELSE ridx - 1

StartOnTrigger ==
    /\ pc = "start"
    /\ IF open /\ "TriggerOn" \in value
       THEN /\ limit' = Limit
            /\ Note("late", callback.at = "advanced")
            /\ lost' = FALSE
            /\ pc' = "fill"
       ELSE /\ UNCHANGED <<limit, history>>
            /\ pc' = "end"
    /\ UNCHANGED <<flags, value, open, ridx, widx, driver, loud>>

Start ==
    /\ pc = "start"
    /\ IF open /\ value \cap {"TriggerOn", "StartShutter"} # {}
       THEN /\ limit' = Limit
            /\ Note("late", callback.at = "advanced")
            /\ lost' = FALSE
            /\ pc' = "fill"
       ELSE /\ UNCHANGED <<limit, history>>
            /\ pc' = "end"
    /\ UNCHANGED <<flags, value, open, ridx, widx, driver, loud>>

\* fread into the buffer at _out_widx ...
Fill ==
    /\ pc = "fill"
    /\ pc' = "write"
    /\ UNCHANGED <<flags, value, open, ring, driver, loud, history>>

\* ... or the end of the file.
EndOfFile ==
    /\ pc = "fill"
    /\ open' = FALSE
    /\ pc' = "end"
    /\ UNCHANGED <<flags, value, ring, driver, loud, history>>

\* audio.write
Write ==
    /\ pc = "write"
    /\ playing' = IF Len(playing) < MaxWrites THEN Append(playing, widx)
                                              ELSE playing
    /\ pc' = "advance"
    /\ UNCHANGED <<flags, value, open, ring, callback, loud, history>>

\* _out_widx++, and back to 0 in a step of its own, which the callback may see
AdvanceWrite ==
    /\ pc = "advance"
    /\ widx' = widx + 1
    /\ pc' = "wrap"
    /\ UNCHANGED <<flags, value, open, ridx, limit, driver, loud, history>>

Wrap ==
    /\ pc = "wrap"
    /\ widx' = IF widx >= N THEN 0 ELSE widx
    /\ pc' = IF widx' # limit THEN "fill" ELSE "end"
    /\ UNCHANGED <<flags, value, open, ridx, limit, driver, loud, history>>

End ==
    /\ pc = "end"
    /\ loud' = (loud /\ "EndShutter" \notin value)
    /\ pc' = "withdraw"
    /\ UNCHANGED <<flags, value, open, ring, driver, history>>

WithdrawNothing ==
    /\ pc = "withdraw"
    /\ value' = {}
    /\ pc' = "wait"
    /\ UNCHANGED <<flags, open, ring, driver, loud, history>>

\* signal_clr(evt.value.signals)
Withdraw ==
    /\ pc = "withdraw"
    /\ flags' = flags \ value
    /\ value' = {}
    /\ pc' = "wait"
    /\ Lose(flags \cap value)
    /\ UNCHANGED <<open, ring, driver, loud, disorder>>

ThreadStep ==
    \/ Wake \/ ClearFlags \/ TimeOut
    \/ Trigger \/ Start \/ Fill \/ EndOfFile \/ Write \/ AdvanceWrite \/ Wrap
    \/ End \/ Withdraw

\* MediaTask::Signal, from the buttons' thread or the shell's
TriggerOn ==
    /\ flags' = flags \cup {"TriggerOn"}
    /\ UNCHANGED <<pc, value, open, ring, driver, loud, history>>

Next == ThreadStep \/ DriverStep \/ TriggerOn

Spec == Init /\ [][Next]_vars

--------------------------------------------------------------------------------
(***************************************************************************)
(* Properties                                                              *)
(***************************************************************************)
TypeOK ==
    /\ flags \subseteq Signals /\ value \subseteq Signals
    /\ pc \in {"wait", "clear", "trigger", "start", "fill", "write", "advance",
               "wrap", "end", "withdraw"}
    /\ open \in BOOLEAN /\ loud \in BOOLEAN /\ lost \in BOOLEAN
    /\ ridx \in 0 .. N-1 /\ limit \in 0 .. N-1
    /\ widx \in 0 .. N /\ (widx = N => pc = "wrap")
    /\ playing \in Seq(0 .. N-1)
    /\ callback \in [buffer : 0 .. N,
                     at : {"idle", "played", "more", "advanced", "end"}]
    /\ disorder \subseteq {"retriggered", "late", "overtaken"}

\* No buffer is filled while the driver holds it, nor does the driver refuse
\* one, although the loop fills one buffer at least however full the ring is: a
\* full ring meets a StartShutter only after one of the first two accidents.
RingNotOverrun ==
    (pc = "write" /\ disorder \subseteq {"overtaken"})
        => widx \notin ToSet(playing) /\ Len(playing) < MaxWrites

\* The volume is never turned down at the end of a sound that went well: each
\* callback, the last one too, finds its own buffer not yet counted as played,
\* so that the indices differ, and signals StartShutter.
StaysLoud == [][loud /\ ~loud' => disorder # {}]_vars

\* While the file is open and the thread waits, the sound goes on: a signal is
\* there, or the driver is about to send one, or holds a buffer after which it
\* will.  Nothing else would fill the ring again or close the file.  What the
\* mailbox loses is all that stops it, besides the accidents.
SoundGoesOn ==
    (pc = "wait" /\ open /\ ~lost /\ disorder = {})
        => "StartShutter" \in flags \/ callback # Idle \/ playing # <<>>
================================================================================
