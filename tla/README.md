# Verification of PeachCamWin

PeachCamWin runs the firmware of PeachCam, a networked camera with a thermal
sensor, as a Windows application. The firmware (`PeachCam/src`) is compiled
against a re-implementation of Mbed OS's kernel interface over Win32
(`PeachCam/rtos`, `PeachCam/PeachCam.cpp`), and its devices are simulated by a
C# program, the test bench.

What is hard in it is not any single computation. Eight threads tell each other
what to do through one word of signal bits each, without ever asking whether
they were heard; timers decide when a task runs and whether its thread listens
at all; and most shared state is read without a lock. The modules here model
these threads, the mailbox they use, and the code around it that depends on it.

## The system

| Part | State it keeps | Operations | Talks to |
|---|---|---|---|
| `rtos::Thread` | `_flags`, a Win32 event | `signal_set`, `signal_wait`, `signal_clr` | every thread |
| `TaskThread`, `Tasks`, `Task` (`TaskBase.cpp`) | a `_timer` per task | `Main`: wait, `Progress`, `ProcessEvent`, `signal_clr`, `Process` | the tasks of its thread |
| `NetTask`: `WifiTask`, `NtpTask`, `UploadTask`, `GoogleDriveTask` | connection state, retries, the queue of uploads | connect, synchronise the time, detect the server, update, upload | the ESP32 driver (callback), the media thread (`UpdateRequest`) |
| `ESP32Interface` | `_connection_status` | `connect`, the status callback | `WifiTask` |
| `MediaTask`: `VisualTask`, `AudioTask`, `VibratorTask` | display and recorder state, open files, two rings of audio buffers | power, trigger, record for 10 s, play the shutter's sound | the net thread; the audio driver (callbacks); read by the sensor thread |
| `SensorTask`: buttons, `PowerOffTask`, `HeartRateTask` | debounced buttons, power state, idle counter; the pulse sensor's driver | sample every 10 ms, decide on power, measure the pulse | all camera threads, its own included, through `GlobalState` |
| `LeptonTask` | camera state, chip select, counters, requests | power, resynchronise, capture, show, serve requests | sensor thread (power), shell (requests) |
| face detection, bar code threads | on or off | periodic detection | sensor thread |
| `GlobalState` | pointers, a file path | `IsActive`, `PowerOn`, `PowerOff`, `TriggerOn` | fans out signals |
| shell: `uart_read`, `Stdin`, ntshell | `stdin_queue` | type, read | the test bench's windows |
| `Mutex`, `SingletonPtr`, `EventFlags`, `Semaphore` | a counter and a handle | lock, construct once, wait for flags | sockets, global objects |
| sockets, ESP32 stack, HTTP, DNS | per socket | open, send, receive, close | net thread |

The hard behaviours: signals lost or merged while a thread is awake; a handler
that reads a state that has changed since the signal; timers that stop, or that
never let a thread sleep; requests served in an order nobody chose; failures and
retries of network requests; queues filled by other threads; states of one
thread read by another.

What makes each part correct, in one line each:

- mailbox: no thread sleeps on a signal nobody will announce; a handler gets
  posted signals only; a signal is lost only while its owner is awake.
- net thread: no file sent to an unknown server; no file name lost or duplicated; each
  request has its attempts; the connection and the time are kept up whatever signals are lost.
- media and sensor threads: the display and the power follow the last command;
  a recording ends, and its file is closed.
- recorder and shutter sound: buffers keep their order, are not overwritten before
  they have been used, and none is left behind.
- pulse sensor: the task knows whether it measures, and does what the power task says.
- lepton thread: it obeys power, resynchronises, keeps the picture fresh; the
  shell's requests reach the camera.
- shell: every character typed is read.
- lazily built globals: built once.

## Modules

| Module | Models | Uses |
|---|---|---|
| `SignalBox` | abstract: the lossy box of signals a thread's mailbox promises | |
| `ThreadSignals` | `rtos/Thread.cpp` and `TaskThread::Main` at the grain of single accesses to the word and the event; any number of senders, one of which may be the owner's own handler | `SignalBox` |
| `NetTask` | the network thread with its four tasks, the driver's status, and the threads that request updates and uploads | `SignalBox` |
| `MediaTask` | the media thread; anybody may signal it | `SignalBox` |
| `AudioInput` | the recorder's buffers between the audio driver's callback and the media thread | |
| `ShutterSound` | the ring of the shutter's sound, filled by the media thread and emptied by the callback | |
| `HeartRate` | `HeartRateTask`, its driver and the BH1792 sensor, commanded by `PowerOffTask` on the same thread | |
| `PowerControl` | the sensor thread's buttons and power decision, composed with `MediaTask` | `MediaTask` |
| `PowerHistory` | `PowerControl` with a history variable: may the last command have been lost? | `PowerControl` |
| `LeptonTask` | the thermal camera's thread under alternating power commands | `SignalBox` |
| `LeptonRequests` | the shell's requests to the lepton thread, access by access | |
| `MCLeptonRequests` | the switches in use, for TLC | `LeptonRequests` |
| `ShellInput` | `Stdin`, `stdin_queue` and `uart_read` | |
| `SingletonPtr` | `SingletonPtr::get` over this build's `Mutex` | |
| `*_proofs` | theorems about the module of that name; `PowerHistory_proofs` also about `MediaTask` and `PowerControl` | |
| `Shell_proofs` | theorems about the two modules the shell takes part in | `ShellInput`, `LeptonRequests` |

### How state and actions correspond to the code

The word of signals is a set of names (`flags`), the Win32 event a Boolean
(`evf`). `ThreadSignals` alone splits `signal_set` and `signal_wait` into their
single accesses; there a variable `pc` follows the owner through
`signal_wait` and `Main`. The thread modules take `signal_set` as one step and
keep those places of `Main` between which other threads matter: before the wait,
awake, handling, before `signal_clr`, before `Process`. Each of them
is shown to implement `SignalBox`, the same abstract box as `ThreadSignals`, so
that they rest on what that module establishes about the real one.

Time is abstracted to what the code branches on. A timer is `"forever"` (-1),
`"running"` or `"due"` (0). When a thread wakes, a running timer may or may not
be found to have run out, and `Task::Progress` turns -1 into 0 for every task, as
the code does: all tasks become due at each wake-up, and each has to set its
timer back.

`NetTask` has one action per branch of each task's `Process`, in the code's
order (`wifi`, `ntp`, `upload`, `drive`). Blocking calls in the middle
(`connect`, an upload's HTTP request) are split in two, so that the other threads act
in between, and their outcomes are free choices. A query for the server may be answered
without an address (`upload.server = "unresolved"`), since `mdns_query` does not look at the
result of `set_ip_address`; an update then crashes. `MediaTask` splits the handler where
another thread can see a state in between: while `VisualTask` shoots its state
is `Recording`, and the sensor thread's `IsActive` reads it. `PowerControl` splits `IsActive`
into the two reads it consists of.

`AudioInput` and `ShutterSound` look at the same media thread more closely, each
keeping of it what touches its buffers. The audio driver, which is not part of the
repository, is a second process that takes the buffers in the order in which they
were given to it and calls back for each; the callbacks, and the code that shares
variables with them, are split at each access. In `AudioInput` the list of mails is
not protected by the lock it seems to have (`MediaTask.cpp:221` declares a function).
Two accesses that overlap may damage it: `broken` stands for
whatever the program does then, the model stops there, and the properties speak of
runs without such an accident. In `ShutterSound` three other accidents are recorded in
a history variable, `disorder`, and the properties say what each can spoil; `lost`
records a `StartShutter` that the mailbox cleared unread.

In `MediaTask`, `wav_fp` is one of two streams or none: a new file never gets the
stream in `wav_fp`, which nobody has closed, so that two are enough to tell a file from the next.
The history variable `disturbed` says whether PowerOn or TriggerOn was posted since it was opened.

`HeartRate` has one action per part of the handler and per transfer that can fail; a
failed transfer may have reached the sensor or not. The thread commands itself: `PowerOffTask`
decides (freely, here), has the signal posted to its own thread's mailbox, and the next pass finds it;
`merged` remembers that a PowerOn was put into one word with a PowerOff. The handler of
`HeartRateInt`, which reads the FIFO and divides by the range of the samples, is left out: only
the sensor's interrupt posts that signal, and `InterruptIn::rise` of this build drops its callback
(`drivers/InterruptIn.cpp:10`).

`LeptonTask` has one action per `case` of `LeptonTask::Process`; reading a frame
is abstracted to how it ends. `LeptonRequests` is about one `case` only,
`UpdateParam`, at the grain of single accesses; a region of interest is
written and copied in two halves, where the code has four fields.

`ShellInput` follows `uart_read` through the wait; the queue is guarded by a
real critical section, so `Push` and `ReadChar` are single steps.

## Runs

| Run | What it asks | Bounds |
|---|---|---|
| `thread_signals` | `NoStuckSignal`: a flag is never set without being announced. `BoxSpec`: handlers get posted signals only, and signals are lost only while the owner is awake. `KeptUntilHandled`: no step takes a signal away that is bound to be handled. `DeliveredWhenBlocked`: a signal sent to a thread that waits without a time-out reaches its handler. | 2 signals, 2 senders and the owner's own handler, all three kinds of time-out, waits that may fail |
| `net` | `ServerKnownForRequests`: no file is sent to an unknown server, and an update is asked of one only after a query answered without an address. `FullAttempts`: no request inherits failed attempts. `NoFileForgotten`, `UploadNeverEmpty`, `BoxSpec`. `DeafOncePolling`: after its first pass the thread never handles a signal again. `WifiFollowsDriver`, `TimeKeepsSynced`: it does its work all the same, unless it crashes. | 1 file, in the system at most once; retries as in the code (3); credentials and a storage address are configured |
| `media` | `ArmedWhileBusy`: the thread never sleeps with a task due, nor with a recording or a vibrator without a running timer. `RecordingEndsCleanly`: its file is closed in time, unless PowerOn or another TriggerOn is posted after its trigger. `TriggerWearsOff`: that it does, and the vibrator stops. `BoxSpec`. | none: the module is finite |
| `audio_input` | `InOrder`: the buffers go round in the order of recording, none lost. `WrittenUntorn`: none is refilled while it is written to the file, unless the driver has no other. `NoStrandedMail`, `MailServed`: each mail is served, although signals announcing mails are cleared unread. | 4 buffers (code: 16) |
| `shutter_sound` | `RingNotOverrun`: no buffer is filled while it is played, nor refused. `StaysLoud`: the volume is not turned down early. `SoundGoesOn`: the sound does not stop with its file open, unless the mailbox loses its signal. | 3 buffers (code: 8), 2 of them with the driver (code: 7) |
| `heart_rate` | `SensorFollowsState`: through failed transfers and repeated commands. `PowerObeyed`: no power command is lost, and PowerOn is disobeyed only after a failed transfer or when it joins a PowerOff in the mailbox. | none: the module is finite |
| `power_history` | `VisualFollowsPower`: the display obeys the last power command, unless it was lost or merged with an opposite one. | debounce 1 (code: 10), idle 1 (code: 30) |
| `power_liveness` | `PowerFollowsHand`: a held grip switches on for good; letting go switches off, although recording keeps the camera awake. | debounce 0, idle 1 |
| `lepton` | `CameraFollowsPower`, `PowerOffObeyed` (even while a camera out of sync is polled), `PictureRefreshed`, `SelectedToResynchronise`, `BoxSpec`. `AwakeWhileOn`: only an off camera lets the thread wait without a time-out. | 3 packets out of sync (code: 10000), 2 frames per resynchronisation (code: 750) |
| `lepton_requests` | `TogglesObeyed`, `FFCNotForgotten`, `RoiArrives`: which requests survive the missing lock. | one toggle, both other kinds of switch, 2 regions |
| `shell_input` | `NoStrandedInput`, `AllRead` | 2 typists, 3 characters that can be told apart, bursts of 2 |
| `singleton` | finds `ConstructedOnce` violated: see below | 2 threads |

The type invariants (`TypeOK`, `InputTypeOK`) are proved for every value of the constants; that of
`NetTask`, which bounds the retries, is also checked by its run. `SingletonPtr` has none.
Deadlock is checked in every run.

**Why the bounds are enough.** Signals are handled set-wise, and two are enough to
have one handled and another posted meanwhile; two senders and the handler give
every pair of concurrent `signal_set`s. One file gives a request that waits, fails, is put back or is asked for again; what a
queue of several adds to that is covered by the proofs of `UploadNeverEmpty` and
`NoFileForgotten`, which hold for any number of files. Four buffers let one be
written, one be in the list, one in the callback and one with the driver; three are
the least in which a ring can be neither full nor empty. The theorems about both rings
hold for any number of buffers. The counters of buttons, idle
looks, packets and frames are compared with their limit only, so that a limit of
1 to 3 has the cases below, at and beyond it; the theorems about `LeptonTask` and
`PowerHistory` hold for any. The toggles of `LeptonRequests` share no variable, and the proofs
cover all three.

**What the runs show about this code** beyond that their properties hold:

- *The network thread becomes deaf.* `GoogleDriveTask` in state `Idle` leaves its
  timer at 0 (`GoogleDrive.cpp:1086`), the minimum over all tasks is then 0 for
  good, and `signal_wait(0, 0)` returns before it looks at the event. From the
  end of its first pass the thread spins, connects and synchronises by polling,
  and never again calls `ProcessEvent`: an `UpdateRequest` at the end of a
  recording is not served. `DeafOncePolling` states it, and is proved.
- *Commands can be lost.* Power commands are sent once. They disappear when they
  arrive between the read and the clearing of the word, or while a wait
  times out, or while the same signal is being handled. `VisualFollowsPower` and
  `CameraFollowsPower` say exactly when; the history variable `missed` marks
  those cases, and the next command that is delivered repairs them.
- *PowerOn and a second trigger lose a recording's file.* `AudioTask` takes PowerOn to be the
  start of things, even in the middle of a recording (`MediaTask.cpp:253`), and TriggerOn overwrites
  `wav_fp` (`MediaTask.cpp:258`): the file keeps its header without the size and is never closed.
  If the second `fopen` fails, the recording even goes on without a file. `RecordingEndsCleanly`
  says that these two are the only ways, and that they take a signal posted after the trigger: what
  the mailbox held before, or PowerOff, does no harm.
- *An update without an address crashes.* `mdns_query` answers true whatever text it got
  (`ESP32Interface.cpp:241`). If that is no address, `_serverAddr` is unspecified, and a pending update
  makes a `std::string` of the null pointer that `get_ip_address` returns (`NetTask.cpp:435`); so does a
  configured storage that is not an address. The restart of the detection after three failures
  (`NetTask.cpp:209`, `236`) cannot be reached before that happens; the recheck in state
  `Detected` (line 189) can, and does its work. `ServerKnownForRequests` says where the server can be unknown.
- *The recorder is safe by arithmetic, not by its lock.* A buffer is given back to the
  driver before it is written to the file (`MediaTask.cpp:331`). `WrittenUntorn` shows
  why that is harmless in general, and when it is not: with all other buffers still
  waiting in the list, the driver refills the one being written.
- *The end of the shutter sound is never announced.* The callback compares the indices
  before it advances its own (`MediaTask.cpp:233`), so that it finds the last
  buffer not yet counted as played: `EndShutter` is sent in none but three cases, and the
  volume stays up. Those three are also what overruns the ring or ends a sound early: a trigger
  during a sound, a handler that reads `_out_ridx` between the callback's advance and its
  signal, and a buffer played before the handler has counted it (`MediaTask.cpp:293`).
- *A lost signal stops the shutter sound.* Each `StartShutter` fills the ring as far as
  it goes. When the media thread is late, the driver plays the ring out, and the last callback's
  `StartShutter` alone keeps the sound going. If the thread clears it unread (a wait that
  times out, or a word cleared after its snapshot), the sound stops with its file open until the next
  trigger. `SoundGoesOn` says that this and the three accidents are the only ways.
- *The pulse is never read, and may stay off.* Without the interrupt's callback the sensor is
  switched on and off and never read. A PowerOn that joins a PowerOff in one word is served first,
  so that the sensor ends up off, with the power task in state PowerOn (`SensorTask.cpp:245`).
  A failed transfer stops the task until the next command. `PowerObeyed` says that
  there is no other way: though the thread polls most of the time, its own signals are not lost, because
  it posts them when it does not wait and the event makes the next wait successful.
- *Order stands in for a lock.* In `LeptonRequests`, a request variable that is
  reset before anything shared is used again loses nothing (normalisation,
  region of interest), although a region may be copied torn for a moment. The
  toggles act on the value read before the reset, and lose a request made in between.
- *The mutex does not exclude.* `Mutex::Acquire` waits only if the incremented
  count is 0, but the count starts at 0 (`Mutex.cpp:36`). `SingletonPtr::get`,
  documented as thread safe (`SingletonPtr.h:73`), can then run its constructor
  in two threads: run `singleton`. Nothing else under `src` that is modelled here
  depends on a `Mutex` with two users; where the code has one, the module says so.

## Fairness

- Every thread with something to do is eventually run (weak fairness of its
  steps): Windows schedules all of them.
- A running timer that is looked at again and again is found to have run out
  (strong fairness of `TimeIsUp`): time passes between the looks.
- In `PowerControl`, `LookAtAudio` is taken although the recorder's state keeps changing:
  it is a read that nothing can disable for long.
- In `NetTask`, a peer that is asked again and again answers some day
  (`ConnectBegin` is reached, `NtpOk` happens): without it, no retry can help. Uploads need no such
  assumption, for nothing is claimed of their success.
- In `LeptonTask`, a wait of 100 ms or more is not preempted until its end every
  time, and the camera answers, in sync or not. That it is in sync now and
  then is a hypothesis of `PictureRefreshed` only.
- In `AudioInput`, a callback that has begun returns. The driver need not fill a
  buffer, nor need any wait time out.
- Users, drivers and other senders owe nothing.

## Proofs

All proofs are checked to the last leaf. The assumptions are those of the constants: the
names of files and regions differ from the "none" values, limits are natural numbers or at
least 1, there is at least one recorder's buffer, and there are more than two of the shutter
sound, all but one of which the driver can hold.

| Theorem | Inductive invariant and argument |
|---|---|
| `ThreadSignals_proofs!TypeCorrect` | types, with: the handler is reached after a successful wait only |
| `ThreadSignals_proofs!NoLostWakeUp` | "a set flag is announced, or its sender is about to announce it" is inductive outside the three places between wake-up and clearing; clearing re-establishes it |
| `ThreadSignals_proofs!ImplementsBox` | needs that the snapshot stays a subset of the word until the clearing (`SnapshotStaysCurrent`): only the owner removes flags |
| `ThreadSignals_proofs!NotDiverted` | step by step, from the types: each step leaves a bound signal alone or moves it to its next place |
| `NetTask_proofs!RequestsKnowServer` | for each place of the thread: the handler and the restarts send nothing to a server that is not known, and only a query answered without an address leaves states other than `Undetected` with an unknown one |
| `NetTask_proofs!AttemptsNotInherited` | `AttemptsInv`: until the drive task has run for the first time, no attempt has failed; then `ProcessEvent`, which does not reset the retries, is never called again (`PollingIsDeaf`), and each change of state in `Process` resets them |
| `NetTask_proofs!PollingIsDeaf` | once the drive task has run its timer is 0, or the thread is on its way through a pass; the minimum of the timers is then 0 |
| `NetTask_proofs!QueueNotEmpty`, `NamesKept` | `QueueInv`: the uploads still owed (callers about to signal, the signal in the word or in the handler's hands, state `Upload`) are no more than the names queued or in the hands of `Upload()`; this is what makes "the queue is not empty" inductive |
| `NetTask_proofs!TypeCorrect`, `ImplementsBox` | types of mailbox and tasks; the snapshot stays a subset of the word until the clearing, and each step sends one signal at most |
| `AudioInput_proofs!TypeCorrect`, `NothingStranded` | `StrandInv`: while the thread is about to sleep or to look at the recording, a mail in the list is announced by the event or by a callback that has pushed and not yet signalled |
| `AudioInput_proofs!OrderKept` | `RingInv`: hand, list, callback and driver together hold the buffers 1..N turned by some k; each step moves the boundary between two of them, or turns the ring by one |
| `AudioInput_proofs!NotTorn` | `BehindInv`: the buffer given back and still to be written stands last with the driver; by `RingInv` it stands nowhere else |
| `ShutterSound_proofs!TypeCorrect`, `NotOverrun`, `LoudForGood` | `SoundInv`, as long as the sound is orderly: the buffers with the driver are those between the two indices (`CountInv`, `PlayInv`), a `StartShutter` on its way finds room and the loop stops short of filling the ring (`RoomInv`), and no `EndShutter` is on its way unless an accident happened (`EndInv`) |
| `ShutterSound_proofs!SoundNotStranded` | `GoingOnInv`: while the file is open, a `StartShutter` is in the word, in the handler's hands, about to be sent, or the driver holds a buffer; with `SoundInv`, by which a callback of an orderly sound ends in `StartShutter` |
| `HeartRate_proofs!TypeCorrect` | directly inductive |
| `HeartRate_proofs!SensorKnown` | `DriverInv`: in state `PowerOff` the driver does not believe that it measures, or the next `SetParams` would start a measurement |
| `HeartRate_proofs!CommandsObeyed` | `MailInv`: a command in the word has the event set, unless it is about to be copied, and no wait times out on it; `OrderInv`: the last command is among those pending, alone or merged, or it has been carried out as far as the transfers allowed |
| `PowerHistory_proofs!TypeCorrect`, `DisplayFollows` | `StateInv`, and `OnItsWay` as in `CameraObeys`: the last command is in the word with nothing to override it, in `VisualTask`'s hands, or obeyed, or it was missed |
| `PowerHistory_proofs!ImplementsBox` | step by step, from the types and "the snapshot is a subset of the word" |
| `PowerHistory_proofs!RecordingEnds` | `FileInv`: while a recording is undisturbed, neither the word nor the handler holds a PowerOn or TriggerOn, except in the handler's last part those that `signal_clr` is about to withdraw |
| `PowerHistory_proofs!ArmedForGood` | `ArmInv`: a recording and a vibrator that is on have a timer that runs or has run out, and none has run out when the thread waits; `Progress` makes all tasks due, and `Process` leaves none so |
| `PowerHistory_proofs!CompositionRefines`, `CompositionKeepsMedia` | every step of the sensor thread is one that anybody may take in `MediaTask` (`SensorIsSomeone`), or leaves its variables alone; what is proved of the media thread alone then holds in the composition |
| `Shell_proofs!InputTypeCorrect` | directly inductive |
| `Shell_proofs!NothingStranded` | each typist pushes before it signals; `uart_read` looks at the queue after each wake-up |
| `LeptonTask_proofs!TypeCorrect`, `SelectedInResync` | the counters are below their limits in the states that count |
| `LeptonTask_proofs!AwakeUnlessOff` | directly inductive: state and timer are set in one step everywhere |
| `LeptonTask_proofs!CameraObeys` | `OnItsWay`: unless missed, the last command is in the word with nothing to override it, or in the handler's hands, or obeyed |
| `LeptonTask_proofs!ImplementsBox` | step by step, from the type invariant |
| `Shell_proofs!TypeCorrect` | with: between read and act, the value read is one that the switch at hand knows |
| `Shell_proofs!RegionArrives` | `OnItsWay`: the last region is posted and its post not about to be erased, read, half copied, or arrived |
| `Shell_proofs!NormalisationRuns`, `TogglesReachCamera` | the same idea for the other kinds of switch |

Every invariant and action property that a passing run checks, and every `BoxSpec`, is
proved. Model-checked only: the liveness properties (`DeliveredWhenBlocked`,
`WifiFollowsDriver`, `TimeKeepsSynced`, `TriggerWearsOff`, `MailServed`, `PowerFollowsHand`,
`AllRead`, `PowerOffObeyed`, `PictureRefreshed`), since fairness is out of the prover's
reach; and `ConstructedOnce`, which is violated.

## Not modelled

- The threads for faces and bar codes; of the lepton thread, the rows of a frame.
- What the audio driver does when a callback is late, and the recovery of a damaged list
  of mails: both are outside of `src`, or undefined.
- Reading the pulse (`HeartRateInt`, `GetMeasData`): no interrupt is ever delivered in this build.
- `EventFlags`, `Semaphore`, sockets, the ESP32 stack and driver, DNS.
- The OAuth and REST calls of the Google Drive client, unreachable while the
  thread is deaf; HTTP contents.
- File contents and names, drawing, fonts, image conversion, settings, the shell's
  commands and line editor: sequential code without the hazards above.
- The C# test bench beyond its calls of `Stdin`, and third-party libraries.

## Plan

Done: the mailbox, the net, media, sensor and lepton threads with the audio rings and
the pulse sensor, the shell's input, `SingletonPtr`, and the theorems above. In this
order, the rest:

1. `SocketClose`: `InternetSocket::open/close/recv/send` over `EventFlags` as
   written; close against concurrent readers. An abstract socket first.
2. `PowerFollowers`: face detection and bar code tasks as further receivers of power
   commands, composed with `PowerOffTask`.
3. `DriveAuth`: the OAuth states of `GoogleDriveTask` with token expiry and retries,
   for a build in which its events are delivered.
4. `ESP32Stack` and the test bench's ESP32 driver: socket slots, commands and
   replies.
5. Proofs: the safety halves of the liveness arguments (for `PowerFollowsHand`, that the
   counters grow and are reset where they should be), and lemmas shared by the modules with a mailbox.
