------------------------------ MODULE AudioInput -------------------------------
(***************************************************************************)
(* PeachCam/src/MediaTask.cpp: the recorder's input.  AudioTask posts all  *)
(* its buffers to the audio driver.  The driver fills them in the order in *)
(* which they were posted and calls AudioReadEnd for each, which queues a  *)
(* mail and signals RecAudio; AudioTask::Process takes one mail per pass,  *)
(* posts the buffer again and only then writes it to the file.             *)
(*                                                                         *)
(* The driver is not part of the repository, and calls back when it likes, *)
(* or never, as the test bench's does.  It is given no more reads than it  *)
(* was configured for (max_read_num) and so refuses none.  Everything else *)
(* the media thread does is "Other" signals and the time-outs of its       *)
(* timers, which may end any wait; what the recorder does with power and   *)
(* trigger signals is the subject of MediaTask.                            *)
(*                                                                         *)
(* CriticalSectionLock mutex(); declares a function, so that nothing       *)
(* guards the list of mails (MediaTask.cpp:221, :320).  Accesses that      *)
(* overlap take effect one after the other, or leave the list damaged in   *)
(* some way (broken); the model follows the program no further than that.  *)
(***************************************************************************)
EXTENDS Naturals, SequencesExt

CONSTANT N              \* AUDIO_IN_BUF_NUM

ASSUME NAssumption == N \in Nat \ {0}

Buffers == 1..N
NoBuffer == 0

Signals == {"RecAudio", "Other"}

VARIABLES
    flags,      \* the media thread's _flags
    evf,        \* its event
    pc,         \* where it is in OnStart, Main and Process
    value,      \* evt.value.signals while it is of use, else empty
    recSignal,  \* AudioTask::_rec_signal
    recording,  \* _state is Recording
    mails,      \* AudioTask::mails, as the buffers they are about
    hand,       \* the buffer of the mail Process has taken, or NoBuffer
    posted,     \* the reads the driver holds, the one being filled first
    callback,   \* the driver in AudioReadEnd: for which buffer, and where
    started,    \* how many reads OnStart has posted
    broken      \* the list was damaged

vars == <<flags, evf, pc, value, recSignal, recording, mails, hand, posted,
          callback, started, broken>>

mailbox == <<flags, evf>>
recorder == <<recSignal, recording>>
driver == <<posted, callback>>

Idle == [buffer |-> NoBuffer, at |-> "idle"]

\* In the constructor and before OnStart.
Init ==
    /\ flags = {}
    /\ evf = FALSE
    /\ pc = "start"
    /\ value = {}
    /\ recSignal = FALSE
    /\ recording = FALSE
    /\ mails = <<>>
    /\ hand = NoBuffer
    /\ posted = <<>>
    /\ callback = Idle
    /\ started = 0
    /\ broken = FALSE

Signal(s) ==
    /\ flags' = flags \cup {s}
    /\ evf' = TRUE

--------------------------------------------------------------------------------
(***************************************************************************)
(* The driver and AudioTask::AudioReadEnd                                  *)
(***************************************************************************)
\* A buffer is full; the callback draws it, then comes to the list.
Filled ==
    /\ callback = Idle
    /\ posted # <<>>
    /\ callback' = [buffer |-> Head(posted), at |-> "drawing"]
    /\ posted' = Tail(posted)
    /\ UNCHANGED <<mailbox, pc, value, recorder, mails, hand, started, broken>>

PushBegin ==
    /\ callback.at = "drawing"
    /\ callback' = [callback EXCEPT !.at = "pushing"]
    /\ UNCHANGED <<mailbox, pc, value, recorder, mails, hand, posted, started,
                   broken>>

\* mails.push_back(mail)
PushFront(b) == <<b>> \o mails

Push(b) == Append(mails, b)

\* One access to the list ends while the other is under way.
Overlap ==
    /\ pc = "popping"
    /\ callback.at = "pushing"

PushEnd ==
    /\ callback.at = "pushing"
    /\ mails' = Push(callback.buffer)
    /\ callback' = [callback EXCEPT !.at = "pushed"]
    /\ broken' \in {FALSE, Overlap}
    /\ UNCHANGED <<mailbox, pc, value, recorder, hand, posted, started>>

\* _owner->RecAudio(), the last thing the callback does.
CallbackSignals ==
    /\ callback.at = "pushed"
    /\ Signal("RecAudio")
    /\ callback' = Idle
    /\ UNCHANGED <<pc, value, recorder, mails, hand, posted, started, broken>>

DriverStep == Filled \/ PushBegin \/ PushEnd \/ CallbackSignals

--------------------------------------------------------------------------------
(***************************************************************************)
(* The media thread: OnStart and Main                                      *)
(***************************************************************************)
\* audio.read, one buffer after the other
PostRead ==
    /\ pc = "start"
    /\ started < N
    /\ started' = started + 1
    /\ posted' = Append(posted, started')
    /\ UNCHANGED <<mailbox, pc, value, recorder, mails, hand, callback, broken>>

Started ==
    /\ pc = "start"
    /\ started = N
    /\ pc' = "wait"
    /\ UNCHANGED <<mailbox, value, recorder, mails, hand, driver, started,
                   broken>>

ThreadGoes(from, to) ==
    /\ pc = from
    /\ pc' = to
    /\ UNCHANGED <<started, broken>>

WakeBySignal ==
    /\ ThreadGoes("wait", "signalled")
    /\ evf
    /\ evf' = FALSE
    /\ value' = flags
    /\ UNCHANGED <<flags, recorder, mails, hand, driver>>

WakeByTimeOut ==
    /\ ThreadGoes("wait", "timeout")
    /\ ~evf
    /\ UNCHANGED <<mailbox, value, recorder, mails, hand, driver>>

\* A deadline found past before the wait: nothing is consumed or cleared.
PollOnce ==
    /\ ThreadGoes("wait", "process")
    /\ UNCHANGED <<mailbox, value, recorder, mails, hand, driver>>

\* The end of signal_wait clears the word, on a time-out too.
ClearFlags ==
    /\ \/ ThreadGoes("signalled", "handle")
       \/ ThreadGoes("timeout", "process")
    /\ flags' = {}
    /\ UNCHANGED <<evf, value, recorder, mails, hand, driver>>

\* ProcessEvent.  TriggerOn starts a recording and PowerOn ends one; both are
\* among the other signals.
RecSignalWhileRecording == recording /\ "RecAudio" \in value

RecSignalAfter == recSignal \/ "RecAudio" \in value

ProcessEvent ==
    /\ ThreadGoes("handle", "withdraw")
    /\ recSignal' = RecSignalAfter
    /\ recording' \in (IF "Other" \in value THEN BOOLEAN ELSE {recording})
    /\ UNCHANGED <<mailbox, value, mails, hand, driver>>

\* signal_clr(evt.value.signals)
Withdraw ==
    /\ ThreadGoes("withdraw", "process")
    /\ flags' = flags \ value
    /\ value' = {}
    /\ UNCHANGED <<evf, recorder, mails, hand, driver>>

--------------------------------------------------------------------------------
(***************************************************************************)
(* AudioTask::Process                                                      *)
(***************************************************************************)
NothingToRecord ==
    /\ ThreadGoes("process", "record")
    /\ ~recSignal
    /\ UNCHANGED <<mailbox, value, recorder, mails, hand, driver>>

PopBegin ==
    /\ ThreadGoes("process", "popping")
    /\ recSignal
    /\ UNCHANGED <<mailbox, value, recorder, mails, hand, driver>>

\* ret = !mails.empty(), front() and pop_front()
PopEnd ==
    /\ pc = "popping"
    /\ hand' = IF mails = <<>> THEN NoBuffer ELSE Head(mails)
    /\ mails' = IF mails = <<>> THEN <<>> ELSE Tail(mails)
    /\ pc' = "popped"
    /\ broken' \in {FALSE, Overlap}
    /\ UNCHANGED <<mailbox, value, recorder, driver, started>>

\* audio.read(mail.p_data, ...) gives the buffer back, if there is one.
ReadAgainOrFirst ==
    posted' = Append(posted, IF hand = NoBuffer THEN 1 ELSE hand)

ReadAgain ==
    posted' = IF hand = NoBuffer THEN posted ELSE Append(posted, hand)

GiveBack ==
    /\ ThreadGoes("popped", "look")
    /\ ReadAgain
    /\ UNCHANGED <<mailbox, value, recorder, mails, hand, callback>>

\* if (!mails.empty()) _owner->RecAudio();  a mail being pushed may or may not
\* be counted.
ResignalNothing == UNCHANGED mailbox

Resignal ==
    \/ /\ mails # <<>> \/ callback.at = "pushing"
       /\ Signal("RecAudio")
    \/ /\ mails = <<>>
       /\ UNCHANGED mailbox

LookAgain ==
    /\ ThreadGoes("look", "record")
    /\ Resignal
    /\ UNCHANGED <<value, recorder, mails, hand, driver>>

\* The buffer has been written to the file, if there is one and a recording;
\* the time of the recording may be up.
Record ==
    /\ ThreadGoes("record", "wait")
    /\ recording' \in {recording, FALSE}
    /\ hand' = NoBuffer
    /\ UNCHANGED <<mailbox, value, recSignal, mails, driver>>

\* The steps of a thread that is not waiting for anything.
Run ==
    \/ PostRead \/ Started
    \/ WakeBySignal \/ ClearFlags \/ ProcessEvent \/ Withdraw
    \/ NothingToRecord \/ PopBegin \/ PopEnd \/ GiveBack \/ LookAgain \/ Record

ThreadStep == Run \/ WakeByTimeOut \/ PollOnce

\* TaskThread::Signal, from anybody
OtherSignal ==
    /\ Signal("Other")
    /\ UNCHANGED <<pc, value, recorder, mails, hand, driver, started, broken>>

Undefined == broken /\ UNCHANGED vars

Next ==
    \/ ~broken /\ (ThreadStep \/ DriverStep \/ OtherSignal)
    \/ Undefined

Spec == Init /\ [][Next]_vars

\* The thread is scheduled, and a callback returns.  Nobody is obliged to fill
\* a buffer, to signal anything or to let a wait time out.
CallbackStep == PushBegin \/ PushEnd \/ CallbackSignals

Fairness ==
    /\ WF_vars(~broken /\ Run)
    /\ WF_vars(~broken /\ CallbackStep)

FairSpec == Spec /\ Fairness

--------------------------------------------------------------------------------
(***************************************************************************)
(* Properties                                                              *)
(***************************************************************************)
TypeOK ==
    /\ flags \subseteq Signals /\ value \subseteq Signals
    /\ {evf, recSignal, recording, broken} \subseteq BOOLEAN
    /\ pc \in {"start", "wait", "signalled", "timeout", "handle", "withdraw",
               "process", "popping", "popped", "look", "record"}
    /\ mails \in Seq(Buffers) /\ posted \in Seq(Buffers)
    /\ hand \in Buffers \cup {NoBuffer}
    /\ callback \in [buffer : Buffers \cup {NoBuffer},
                     at : {"idle", "drawing", "pushing", "pushed"}]
    /\ started \in 0..N

\* All buffers on their way round, the next to be written first: with Process,
\* in the list, with AudioReadEnd and with the driver.
InHand == IF pc = "popped" /\ hand # NoBuffer THEN <<hand>> ELSE <<>>

InCallback ==
    IF callback.at \in {"drawing", "pushing"} THEN <<callback.buffer>> ELSE <<>>

Circuit == InHand \o mails \o InCallback \o posted

\* Sound is neither lost nor put out of order between the driver and the file:
\* every buffer given to the driver is in one place, and the order in which
\* they go round never changes, however late the thread is.
InOrder ==
    ~broken =>
        /\ Len(Circuit) = started
        /\ \A i \in 1 .. (Len(Circuit) - 1) :
               Circuit[i + 1] = (Circuit[i] % N) + 1

\* The buffer is written to the file after it was given back to the driver.
\* It is overwritten meanwhile only if the thread is as late as can be: as long
\* as the driver has another buffer, this one still waits behind it.
WrittenUntorn ==
    (/\ ~broken /\ pc = "record" /\ recording /\ hand # NoBuffer
     /\ ToSet(posted) \ {hand} # {})
        => Head(posted) # hand /\ hand \in ToSet(posted)

\* Once the first RecAudio has been handled, the thread never falls asleep on
\* a waiting mail, although the signal announcing it may be cleared unread.
NoStrandedMail ==
    (~broken /\ pc = "wait" /\ recSignal /\ mails # <<>>)
        => (evf \/ callback.at = "pushed")

\* From then on every mail's buffer is given back to the driver.
MailServed ==
    \A b \in Buffers :
        (recSignal /\ b \in ToSet(mails)) ~> (b \in ToSet(posted) \/ broken)
================================================================================
