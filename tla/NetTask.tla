------------------------------- MODULE NetTask --------------------------------
(***************************************************************************)
(* PeachCam/src/NetTask.cpp: the network thread, a TaskThread that runs    *)
(* WifiTask, NtpTask, UploadTask and GoogleDriveTask, together with the    *)
(* part of TaskThread::Main and Tasks (TaskBase.cpp) that schedules them.  *)
(* Other threads act at any point: the ESP32 driver changes the connection *)
(* status, and the application requests updates and uploads.               *)
(*                                                                         *)
(* Time is abstracted to what the code branches on: a _timer is "forever"  *)
(* (-1), "running" (> 0) or "due" (0), and a running timer may or may not  *)
(* reach 0 when the thread wakes.  The signal word is that of              *)
(* ThreadSignals, with signal_set taken as one step.                       *)
(*                                                                         *)
(* What UploadTask does under its _mutex is one step.  This build's Mutex  *)
(* excludes nobody (see SingletonPtr), but no code under src/ calls        *)
(* UploadRequest, so that the mutex has no second user to exclude yet; the *)
(* model has one, to state what the queue is for.                          *)
(***************************************************************************)
EXTENDS Naturals, SequencesExt

CONSTANTS
    Files,              \* the file names UploadRequest is called with
    HaveCredentials,    \* an SSID and a password are configured
    StorageIsAddress    \* the configured storage is an IP address

ASSUME ConfigurationAssumption ==
    HaveCredentials \in BOOLEAN /\ StorageIsAddress \in BOOLEAN

NoFile == ""            \* a default-constructed std::string

ASSUME FilesAssumption == NoFile \notin Files

Timers == {"forever", "running", "due"}
Statuses == {"UP", "CONNECTING", "DISCONNECTED"}

\* What _serverAddr is.  "none" and "unresolved" are both NSAPI_UNSPEC; the
\* latter says where it comes from, a query answered without an address.
Servers == {"address", "none", "unresolved"}

Signals == {"WifiStatusChanged", "WifiConnected", "UpdateRequest",
            "UploadRequest"}

VARIABLES
    flags,      \* the thread's _flags
    evf,        \* the thread's event
    pc,         \* where the thread is in Main; "crashed" for good
    status,     \* evt.status
    value,      \* evt.value.signals while it is of use, else empty
    esp,        \* ESP32Interface::_connection_status
    wifi,       \* WifiTask: _timer, _state
    ntp,        \* NtpTask: _timer, _state, _retry
    upload,     \* UploadTask: _timer, _state, _retry, _update_req and
                \*   what _serverAddr is
    uploads,    \* UploadTask::_uploads
    filename,   \* the name Upload() holds between its two critical sections
    drive,      \* GoogleDriveTask::_timer (its _state is always Idle)
    calling,    \* names whose UploadRequest has queued but not yet signalled
    asked       \* history: names passed to UploadRequest and not yet accepted

vars == <<flags, evf, pc, status, value, esp, wifi, ntp, upload, uploads,
          filename, drive, calling, asked>>

thread == <<flags, evf, pc, status, value>>
tasks == <<wifi, ntp, upload, drive>>
queue == <<uploads, filename, calling, asked>>

TypeOK ==
    /\ flags \subseteq Signals
    /\ evf \in BOOLEAN
    /\ pc \in {"wait", "clear", "event", "withdraw", "wifi", "connecting",
               "ntp", "upload", "uploading", "drive", "crashed"}
    /\ status \in {"signal", "timeout"}
    /\ value \subseteq Signals
    /\ esp \in Statuses
    /\ wifi \in [timer : Timers,
                 state : {"Disconnected", "Connecting", "Connected"}]
    /\ ntp \in [timer : Timers, state : {"Unsynced", "Synced"}, retry : 0..2]
    /\ upload \in [timer : Timers,
                   state : {"Undetected", "Detected", "Update", "Upload"},
                   retry : 0..2, updateReq : BOOLEAN, server : Servers]
    /\ uploads \in Seq(Files)
    /\ filename \in Files \cup {NoFile}
    /\ drive \in Timers
    /\ calling \subseteq Files
    /\ asked \subseteq Files

\* Constructors, Init and OnStart, whose 1 s or 30 s is "running".  The
\* server is known at once if the configuration gives an IP address.
Init ==
    /\ flags = {}
    /\ evf = FALSE
    /\ pc = "wait"
    /\ status = "timeout"
    /\ value = {}
    /\ esp = "DISCONNECTED"
    /\ wifi = [timer |-> "running", state |-> "Disconnected"]
    /\ ntp = [timer |-> "forever", state |-> "Unsynced", retry |-> 0]
    /\ \E configured \in {"address", "none"} :
           upload = [timer |-> "forever", state |-> "Undetected", retry |-> 0,
                     updateReq |-> FALSE, server |-> configured]
    /\ uploads = <<>>
    /\ filename = NoFile
    /\ drive = "forever"
    /\ calling = {}
    /\ asked = {}

--------------------------------------------------------------------------------
(***************************************************************************)
(* TaskThread and Tasks                                                    *)
(***************************************************************************)
\* TaskThread::Signal
Signal(S) ==
    /\ flags' = flags \cup S
    /\ evf' = (evf \/ S # {})

\* Tasks::GetTimer, the least timer that is not -1
GetTimer ==
    LET all == {wifi.timer, ntp.timer, upload.timer, drive}
    IN  CASE "due" \in all -> "due"
          [] "due" \notin all /\ "running" \in all -> "running"
          [] OTHER -> "forever"

ProgressedUnlessForever(timer, elapsed) ==
    IF timer = "running" /\ elapsed THEN "due" ELSE timer

\* Task::Progress: a "forever" timer is -1 and so becomes 0 at the first
\* progress, whatever the time elapsed.
Progressed(timer, elapsed) ==
    IF timer = "running" /\ ~elapsed THEN "running" ELSE "due"

\* Tasks::Progress; expired is the set of tasks whose time is up.
Progress(expired) ==
    /\ wifi' = [wifi EXCEPT !.timer = Progressed(@, "wifi" \in expired)]
    /\ ntp' = [ntp EXCEPT !.timer = Progressed(@, "ntp" \in expired)]
    /\ upload' = [upload EXCEPT !.timer = Progressed(@, "upload" \in expired)]
    /\ drive' = Progressed(drive, "drive" \in expired)

\* The tasks whose time a pass may find to be up.
Expiries == SUBSET {"wifi", "ntp", "upload", "drive"}

\* signal_wait times out without looking at the event or the flags: always
\* with a time-out of 0, and with a positive one if the thread is held up.
PollOnce(expired) ==
    /\ pc = "wait"
    /\ GetTimer # "forever"
    /\ Progress(expired)
    /\ status' = "timeout"
    /\ pc' = "wifi"
    /\ UNCHANGED <<flags, evf, value, esp, queue>>

\* The wait ends because of the event; the flags are read.
WakeBySignal ==
    /\ pc = "wait"
    /\ GetTimer # "due"
    /\ evf
    /\ evf' = FALSE
    /\ value' = flags
    /\ status' = "signal"
    /\ pc' = "clear"
    /\ UNCHANGED <<flags, esp, tasks, queue>>

WakeByTimeOut ==
    /\ pc = "wait"
    /\ GetTimer = "running"
    /\ ~evf
    /\ status' = "timeout"
    /\ pc' = "clear"
    /\ UNCHANGED <<flags, evf, value, esp, tasks, queue>>

\* The end of signal_wait, and Progress.
ClearAndProgress(expired) ==
    /\ pc = "clear"
    /\ flags' = {}
    /\ Progress(expired)
    /\ pc' = IF status = "signal" THEN "event" ELSE "wifi"
    /\ UNCHANGED <<evf, status, value, esp, queue>>

--------------------------------------------------------------------------------
(***************************************************************************)
(* ProcessEvent of the four tasks, each a function of the task's state     *)
(***************************************************************************)
WifiEvent ==
    IF "WifiStatusChanged" \notin value THEN wifi
    ELSE CASE esp = "UP" ->
                [timer |-> "forever", state |-> "Connected"]
           [] esp = "CONNECTING" ->
                [timer |-> "forever", state |-> "Connecting"]
           [] esp = "DISCONNECTED" ->
                [timer |-> "running", state |-> "Disconnected"]

NtpEvent ==
    IF "WifiConnected" \in value
    THEN [ntp EXCEPT !.state = "Unsynced", !.timer = "due"]
    ELSE ntp

\* _serverAddr.get_ip_version() # NSAPI_UNSPEC
ServerKnown == upload.server = "address"

UploadEventUnguarded ==
    [upload EXCEPT
        !.updateReq = @ \/ "UpdateRequest" \in value,
        !.timer = IF value \cap {"UpdateRequest", "UploadRequest"} # {}
                  THEN "due" ELSE @,
        !.state = IF "UploadRequest" \in value THEN "Upload"
                  ELSE IF "UpdateRequest" \in value THEN "Update"
                  ELSE @]

UploadEvent ==
    LET Go(state) == IF ServerKnown THEN state ELSE "Undetected"
    IN  [upload EXCEPT
            !.updateReq = @ \/ "UpdateRequest" \in value,
            !.timer = IF value \cap {"UpdateRequest", "UploadRequest"} # {}
                      THEN "due" ELSE @,
            !.state = IF "UploadRequest" \in value THEN Go("Upload")
                      ELSE IF "UpdateRequest" \in value THEN Go("Update")
                      ELSE @]

\* GoogleDriveTask::ProcessEvent does nothing.
ProcessEvent ==
    /\ pc = "event"
    /\ wifi' = WifiEvent
    /\ ntp' = NtpEvent
    /\ upload' = UploadEvent
    /\ Signal(IF "WifiStatusChanged" \in value /\ esp = "UP"
              THEN {"WifiConnected"} ELSE {})
    /\ pc' = "withdraw"
    /\ UNCHANGED <<status, value, esp, drive, queue>>

WithdrawNothing ==
    /\ pc = "withdraw"
    /\ value' = {}
    /\ pc' = "wifi"
    /\ UNCHANGED <<flags, evf, status, esp, tasks, queue>>

\* signal_clr(evt.value.signals)
Withdraw ==
    /\ pc = "withdraw"
    /\ flags' = flags \ value
    /\ value' = {}
    /\ pc' = "wifi"
    /\ UNCHANGED <<evf, status, esp, tasks, queue>>

--------------------------------------------------------------------------------
(***************************************************************************)
(* WifiTask::Process                                                       *)
(***************************************************************************)
\* ESP32Interface::set_connection_status: the callback posts the signal.
SetConnectionStatus(new) ==
    /\ esp' = new
    /\ Signal(IF esp # new THEN {"WifiStatusChanged"} ELSE {})

WifiIdle ==
    /\ pc = "wifi"
    /\ wifi.timer # "due"
    /\ pc' = "ntp"
    /\ UNCHANGED <<flags, evf, status, value, esp, tasks, queue>>

\* No credentials, or connect() failing before it says CONNECTING.
WifiNotConnecting ==
    /\ pc = "wifi"
    /\ wifi.timer = "due"
    /\ wifi.state = "Disconnected"
    /\ wifi' = [wifi EXCEPT !.timer = "running"]
    /\ pc' = "ntp"
    /\ UNCHANGED <<flags, evf, status, value, esp, ntp, upload, drive, queue>>

ConnectBegin ==
    /\ pc = "wifi"
    /\ wifi.timer = "due"
    /\ wifi.state = "Disconnected"
    /\ HaveCredentials
    /\ SetConnectionStatus("CONNECTING")
    /\ pc' = "connecting"
    /\ UNCHANGED <<status, value, tasks, queue>>

\* The driver accepted the command; the outcome is reported later (or was
\* already, while connect() was running).
ConnectAccepted ==
    /\ pc = "connecting"
    /\ wifi' = [timer |-> "running", state |-> "Connecting"]
    /\ pc' = "ntp"
    /\ UNCHANGED <<flags, evf, status, value, esp, ntp, upload, drive, queue>>

ConnectRefused ==
    /\ pc = "connecting"
    /\ SetConnectionStatus("DISCONNECTED")
    /\ wifi' = [wifi EXCEPT !.timer = "running"]
    /\ pc' = "ntp"
    /\ UNCHANGED <<status, value, ntp, upload, drive, queue>>

\* The status is polled in every other state.
WifiPoll == 
    /\ pc = "wifi"
    /\ wifi.timer = "due"
    /\ wifi.state # "Disconnected"
    /\ wifi' = CASE esp = "UP" ->
                       [timer |-> "forever", state |-> "Connected"]
                 [] esp = "CONNECTING" ->
                       [timer |-> "running", state |-> "Connecting"]
                 [] esp = "DISCONNECTED" ->
                       [timer |-> "running", state |-> "Disconnected"]
    /\ Signal(IF esp = "UP" /\ wifi.state = "Connecting"
              THEN {"WifiConnected"} ELSE {})
    /\ pc' = "ntp"
    /\ UNCHANGED <<status, value, esp, ntp, upload, drive, queue>>

--------------------------------------------------------------------------------
(***************************************************************************)
(* NtpTask::Process                                                        *)
(***************************************************************************)
NtpGoesOn(new) ==
    /\ pc = "ntp"
    /\ ntp' = new
    /\ pc' = "upload"
    /\ UNCHANGED <<flags, evf, status, value, esp, wifi, upload, drive, queue>>

IsConnected == wifi.state = "Connected"

NtpIdle ==
    /\ ntp.timer # "due"
    /\ NtpGoesOn(ntp)

NtpNotConnected ==
    /\ ntp.timer = "due"
    /\ ntp.state = "Unsynced"
    /\ ~IsConnected
    /\ NtpGoesOn([ntp EXCEPT !.timer = "forever"])

NtpOkRetryKept ==
    /\ ntp.timer = "due"
    /\ ntp.state = "Unsynced"
    /\ IsConnected
    /\ NtpGoesOn([ntp EXCEPT !.timer = "running", !.state = "Synced"])

NtpOk ==
    /\ ntp.timer = "due"
    /\ ntp.state = "Unsynced"
    /\ IsConnected
    /\ NtpGoesOn([timer |-> "running", state |-> "Synced", retry |-> 0])

RetriedOnce(retry) == IF retry + 1 > 3 THEN 0 ELSE retry + 1

\* _retry++; if (_retry >= 3) _retry = 0.  The pause differs, 60 s or 10 s.
Retried(retry) == IF retry + 1 >= 3 THEN 0 ELSE retry + 1

NtpFailed ==
    /\ ntp.timer = "due"
    /\ ntp.state = "Unsynced"
    /\ IsConnected
    /\ NtpGoesOn([ntp EXCEPT !.timer = "running", !.retry = Retried(@)])

NtpResyncSkipped ==
    /\ ntp.timer = "due"
    /\ ntp.state = "Synced"
    /\ NtpGoesOn([ntp EXCEPT !.timer = "running"])

NtpResync ==
    /\ ntp.timer = "due"
    /\ ntp.state = "Synced"
    /\ NtpGoesOn([ntp EXCEPT !.state = "Unsynced"])

--------------------------------------------------------------------------------
(***************************************************************************)
(* UploadTask::Process and UploadTask::Upload                              *)
(***************************************************************************)
UploadGoesOn(new) ==
    /\ upload' = new
    /\ pc' = "drive"
    /\ UNCHANGED <<flags, evf, status, value, esp, wifi, ntp, drive>>

UploadAt(state) ==
    /\ pc = "upload"
    /\ upload.timer = "due"
    /\ upload.state = state

UploadIdle ==
    /\ pc = "upload"
    /\ upload.timer # "due"
    /\ UploadGoesOn(upload)
    /\ UNCHANGED queue

ServerNotReachable ==
    /\ UploadAt("Undetected")
    /\ ~IsConnected
    /\ UploadGoesOn([upload EXCEPT !.timer = "forever"])
    /\ UNCHANGED queue

\* QuerySever returns true.  The text the ESP32 answered with may be no address
\* (mdns_query does not look at what set_ip_address says of it): _serverAddr is
\* then unspecified, even if it was configured.
ServerFound(server) ==
    /\ UploadAt("Undetected")
    /\ IsConnected
    /\ UploadGoesOn([upload EXCEPT
            !.server = server, !.retry = 0,
            !.state = IF upload.updateReq THEN "Update" ELSE "Detected",
            !.timer = IF upload.updateReq THEN "due" ELSE "running"])
    /\ UNCHANGED queue

ServerNotFound ==
    /\ UploadAt("Undetected")
    /\ IsConnected
    /\ UploadGoesOn([upload EXCEPT !.timer = "running", !.retry = Retried(@)])
    /\ UNCHANGED queue

DetectedStays ==
    /\ UploadAt("Detected")
    /\ UploadGoesOn(IF ServerKnown
                    THEN [upload EXCEPT !.timer = "forever"]
                    ELSE [upload EXCEPT !.state = "Undetected"])
    /\ UNCHANGED queue

\* Failing for the third time, the state restarts the detection if the server
\* is unknown, and pauses otherwise.
RequestFailed ==
    IF upload.retry = 2 /\ ~ServerKnown
    THEN [upload EXCEPT !.retry = 0, !.state = "Undetected"]
    ELSE [upload EXCEPT !.timer = "running", !.retry = Retried(@)]

RequestDoneGoesOn == [upload EXCEPT !.timer = "due", !.retry = 0]

RequestDone == [upload EXCEPT !.timer = "forever", !.retry = 0,
                              !.state = "Detected"]

\* NetTask::Update can write both addresses into its URL.
UpdateHasUrl == ServerKnown /\ StorageIsAddress

UpdateOk ==
    /\ UploadAt("Update")
    /\ UpdateHasUrl
    /\ UploadGoesOn([RequestDone EXCEPT !.updateReq = FALSE])
    /\ UNCHANGED queue

UpdateFailed ==
    /\ UploadAt("Update")
    /\ UpdateHasUrl
    /\ UploadGoesOn(RequestFailed)
    /\ UNCHANGED queue

\* get_ip_address returns NULL for an unspecified address, and a std::string is
\* made of it: the program ends before the failure is counted.  What the other
\* threads do from then on means nothing.
UpdateCrashes ==
    /\ UploadAt("Update")
    /\ ~UpdateHasUrl
    /\ pc' = "crashed"
    /\ UNCHANGED <<flags, evf, status, value, esp, tasks, queue>>

\* Upload() takes a name off the queue, or has none, and sends the file.
UploadBegin ==
    /\ UploadAt("Upload")
    /\ filename' = IF uploads = <<>> THEN NoFile ELSE Head(uploads)
    /\ uploads' = IF uploads = <<>> THEN <<>> ELSE Tail(uploads)
    /\ pc' = "uploading"
    /\ UNCHANGED <<flags, evf, status, value, esp, tasks, calling, asked>>

\* NetTask::Upload returns true: a response other than 200.
UploadAccepted ==
    /\ pc = "uploading"
    /\ filename # NoFile
    /\ filename' = NoFile
    /\ asked' = asked \ {filename}
    /\ UploadGoesOn(RequestDone)
    /\ UNCHANGED <<uploads, calling>>

UploadRefusedDropped ==
    /\ pc = "uploading"
    /\ filename' = NoFile
    /\ UploadGoesOn(RequestFailed)
    /\ UNCHANGED <<uploads, calling, asked>>

\* It returns false: no response, or 200; or there was nothing to send.  The
\* name, an empty one in the last case, goes to the end of the queue.
UploadRefused ==
    /\ pc = "uploading"
    /\ uploads' = Append(uploads, filename)
    /\ filename' = NoFile
    /\ UploadGoesOn(RequestFailed)
    /\ UNCHANGED <<calling, asked>>

--------------------------------------------------------------------------------
(***************************************************************************)
(* GoogleDriveTask::Process: CheckRequest finds no request, for nothing    *)
(* sets _request, and the Idle state leaves _timer as it is.               *)
(***************************************************************************)
DriveIdleForever(timer) == "forever"

DriveIdle(timer) == timer

DriveProcess ==
    /\ pc = "drive"
    /\ drive' = DriveIdle(drive)
    /\ pc' = "wait"
    /\ UNCHANGED <<flags, evf, status, value, esp, wifi, ntp, upload, queue>>

--------------------------------------------------------------------------------
(***************************************************************************)
(* Other threads                                                           *)
(***************************************************************************)
\* The ESP32 driver's callback: GOT_IP or DISCONNECTED.
DriverReports(new) ==
    /\ SetConnectionStatus(new)
    /\ UNCHANGED <<pc, status, value, tasks, queue>>

\* GlobalState::UpdateRequest, from the media thread.
UpdateRequest ==
    /\ Signal({"UpdateRequest"})
    /\ UNCHANGED <<pc, status, value, esp, tasks, queue>>

\* UploadTask::UploadRequest queues a name, then signals.  A name is asked
\* for again only when it was accepted before.
UploadRequestQueue(f) ==
    /\ f \notin asked \cup calling
    /\ uploads' = Append(uploads, f)
    /\ asked' = asked \cup {f}
    /\ calling' = calling \cup {f}
    /\ UNCHANGED <<thread, esp, tasks, filename>>

UploadRequestSignal(f) ==
    /\ f \in calling
    /\ Signal({"UploadRequest"})
    /\ calling' = calling \ {f}
    /\ UNCHANGED <<pc, status, value, esp, tasks, uploads, filename, asked>>

--------------------------------------------------------------------------------
WaitStep ==
    \/ \E expired \in Expiries : PollOnce(expired) \/ ClearAndProgress(expired)
    \/ WakeBySignal
    \/ WakeByTimeOut

WifiStep ==
    \/ WifiIdle \/ WifiNotConnecting \/ ConnectBegin
    \/ ConnectAccepted \/ ConnectRefused \/ WifiPoll

NtpStep == NtpIdle \/ NtpNotConnected \/ NtpOk \/ NtpFailed \/ NtpResync

UploadStep ==
    \/ UploadIdle
    \/ ServerNotReachable \/ ServerNotFound
    \/ \E server \in {"address", "unresolved"} : ServerFound(server)
    \/ DetectedStays
    \/ UpdateOk \/ UpdateFailed \/ UpdateCrashes
    \/ UploadBegin \/ UploadAccepted \/ UploadRefused

ThreadStep ==
    \/ WaitStep \/ ProcessEvent \/ Withdraw
    \/ WifiStep \/ NtpStep \/ UploadStep \/ DriveProcess

Next ==
    \/ ThreadStep
    \/ \E new \in {"UP", "DISCONNECTED"} : DriverReports(new)
    \/ UpdateRequest
    \/ \E f \in Files : UploadRequestQueue(f) \/ UploadRequestSignal(f)

Spec == Init /\ [][Next]_vars

\* The thread is scheduled; a running timer, looked at again and again, is
\* eventually found to be up; and the peers asked again and again answer at
\* last: the DHCP setting of connect(), and the NTP server.
TimeIsUp(task) ==
    \E expired \in Expiries :
        /\ task \in expired
        /\ PollOnce(expired) \/ ClearAndProgress(expired)

Fairness ==
    /\ WF_vars(ThreadStep)
    /\ \A task \in {"wifi", "ntp", "upload"} : SF_vars(TimeIsUp(task))
    /\ SF_vars(ConnectBegin)
    /\ SF_vars(NtpOk)

FairSpec == Spec /\ Fairness

--------------------------------------------------------------------------------
(***************************************************************************)
(* Properties                                                              *)
(***************************************************************************)
\* The thread's mailbox is the lossy box that ThreadSignals implements.
Box == INSTANCE SignalBox WITH
           pending <- flags \cup (IF pc \in {"event", "withdraw"}
                                  THEN value ELSE {}),
           handed <- IF pc \in {"event", "withdraw"} THEN value ELSE {},
           asleep <- pc = "wait"

BoxSpec == Box!Spec

\* No file is ever sent to an unknown server, and an update is asked of one,
\* or the server held to be detected, only when the query that led there was
\* answered without an address: whichever of the two requests arrives while
\* detection is under way.
ServerKnownForRequests ==
    /\ upload.state = "Upload" => ServerKnown
    /\ upload.state \in {"Detected", "Update"}
           => ServerKnown \/ upload.server = "unresolved"

\* Every request, detection and synchronisation begins with its three attempts
\* before it, however the one before ended.  ProcessEvent, which changes states
\* without a look at the retries, is only called before the first attempt.
FullAttempts ==
    [][/\ upload'.state # upload.state => upload'.retry = 0
       /\ ntp'.state # ntp.state => ntp'.retry = 0]_vars

\* Each name passed to UploadRequest and not yet accepted by NetTask::Upload is
\* held exactly once, in the queue or by Upload(), through failures, retries
\* and requests made meanwhile.
NoFileForgotten ==
    /\ asked = ToSet(uploads) \cup ({filename} \ {NoFile})
    /\ IsInjective(uploads)
    /\ filename \notin ToSet(uploads)

\* Upload() never finds the queue empty: an upload is begun only for a signal,
\* the signal follows the name, and the state is left with the last name.  If it
\* did, it would put an empty name on the queue, to be sent ever after.
UploadNeverEmpty ==
    UploadAt("Upload") => uploads # <<>>

\* GoogleDriveTask's timer, "forever" until the first wake-up, is 0 from the
\* first pass on and never leaves 0.  From then on signal_wait is called with
\* a zero time-out only: the thread polls, and ProcessEvent is never called
\* again, whatever is signalled.
DeafOncePolling ==
    [](pc = "drive" => [](pc \notin {"clear", "event", "withdraw"}))

NeverCrashes == [](pc # "crashed")

\* When the driver keeps the connection up, the thread comes to see it, though
\* the signals saying so may be lost or ignored, unless the program crashes.
WifiFollowsDriver ==
    NeverCrashes /\ <>[](esp = "UP") => <>[](wifi.state = "Connected")

\* As long as the connection is seen, the time is synchronised again and again:
\* each synchronisation wears off, and each one that wore off is renewed.
TimeKeepsSynced ==
    NeverCrashes /\ <>[](wifi.state = "Connected")
        => []<>(ntp.state = "Synced") /\ []<>(ntp.state = "Unsynced")
================================================================================
